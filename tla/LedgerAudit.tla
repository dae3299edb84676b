---------------------------- MODULE LedgerAudit ----------------------------
(***************************************************************************)
(* The readers of the ledger that verify its hash chain: POST /v1/verify   *)
(* (api/routes.py) and the evidence packs (packs/base.py), over the rows   *)
(* of one tenant.                                                          *)
(*                                                                         *)
(* Rows are appended one by one (that concurrent appends amount to this is *)
(* the subject of Ledger), each with the time `occurred_at' of the clock   *)
(* of its client: the order of these times is not the order of the chain.  *)
(* Afterwards somebody with access to the database may change a payload,   *)
(* remove a row, or exchange the places of two rows -- what the hash chain *)
(* is there to detect.                                                     *)
(***************************************************************************)
EXTENDS HashChain, SequencesExt

CONSTANTS Payloads,     \* payloads, as canonical JSON
          Times,        \* possible values of occurred_at
          Unbounded,    \* a start, end or limit that is None
          NoReport,     \* nothing was verified, no pack was built
          MaxRows,      \* bound on the rows appended
          MaxChanges    \* bound on the changes made behind the ledger's back

ASSUME AuditAssumption ==
    /\ Times \subseteq Nat
    /\ Unbounded \notin Nat
    /\ MaxRows \in Nat /\ MaxChanges \in Nat

VARIABLES rows,      \* the rows of the tenant in the events table
          written,   \* history: <<event_id, payload>> of each row, as appended
          changes,   \* how many times the table was changed behind the ledger's back
          report,    \* the last answer of POST /v1/verify, while the table stands
          pack       \* the last evidence pack, while the table stands

vars == <<rows, written, changes, report, pack>>

Init ==
    /\ rows = {}
    /\ written = <<>>
    /\ changes = 0
    /\ report = NoReport
    /\ pack = NoReport

-----------------------------------------------------------------------------
\* Appending, and changing what was appended.

Head_ == IF rows = {} THEN [sequence_no |-> 0, hash |-> GENESIS_PREV_HASH]
                      ELSE Latest(rows)

NewTable == report' = NoReport /\ pack' = NoReport

Append_many(payload, time) ==
    /\ changes = 0
    /\ Len(written) < MaxRows
    /\ rows' = rows \cup
           {[event_id    |-> Len(written) + 1,
             sequence_no |-> Head_.sequence_no + 1,
             occurred_at |-> time,
             payload     |-> payload,
             prev_hash   |-> Head_.hash,
             hash        |-> compute_hash(Head_.hash, payload)]}
    /\ written' = Append(written, <<Len(written) + 1, payload>>)
    /\ UNCHANGED changes
    /\ NewTable

Change(newRows) ==
    /\ changes < MaxChanges
    /\ rows' = newRows
    /\ changes' = changes + 1
    /\ UNCHANGED written
    /\ NewTable

AlterPayload(r, payload) ==
    /\ payload # r.payload
    /\ Change((rows \ {r}) \cup {[r EXCEPT !.payload = payload]})

RemoveRow(r) == Change(rows \ {r})

ExchangeRows(r, q) ==
    /\ r # q
    /\ Change((rows \ {r, q}) \cup {[r EXCEPT !.sequence_no = q.sequence_no],
                                    [q EXCEPT !.sequence_no = r.sequence_no]})

-----------------------------------------------------------------------------
\* Reading.

InWindow(start, end) ==
    {r \in rows : /\ start # Unbounded => r.occurred_at >= start
                  /\ end # Unbounded => r.occurred_at <= end}

\* The first `limit' rows of the window in chain order.
iter_tenant(start, end, limit) ==
    LET window == InWindow(start, end)
    IN  {r \in window : limit # Unbounded => Cardinality(Preceding(window, r)) < limit}

Verify(start, end, limit) ==
    LET read == iter_tenant(start, end, limit)
        ok   == verify_chain(read)
    IN  /\ report' = [start |-> start, end |-> end, limit |-> limit,
                      checked |-> read, ok |-> ok,
                      first_broken_index |-> IF ok THEN Unbounded ELSE FirstBrokenIndex(read)]
        /\ UNCHANGED <<rows, written, changes, pack>>

\* Mutation: the pack is built without a look at chain_ok.
GeneratePack_Unverified(start, end) ==
    /\ pack' = [start |-> start, end |-> end, events |-> InWindow(start, end)]
    /\ UNCHANGED <<rows, written, changes, report>>

\* collect, then build; a broken chain is refused with 409.  start and end
\* have defaults, so they are never None.
GeneratePack(start, end) ==
    /\ verify_chain(InWindow(start, end))
    /\ pack' = [start |-> start, end |-> end, events |-> InWindow(start, end)]
    /\ UNCHANGED <<rows, written, changes, report>>

Next ==
    \/ \E p \in Payloads, t \in Times : Append_many(p, t)
    \/ \E r \in rows : \/ \E p \in Payloads : AlterPayload(r, p)
                       \/ RemoveRow(r)
                       \/ \E q \in rows : ExchangeRows(r, q)
    \/ \E start, end \in Times \cup {Unbounded}, limit \in (1..MaxRows) \cup {Unbounded} :
           Verify(start, end, limit)
    \/ \E start, end \in Times : GeneratePack(start, end)

Spec == Init /\ [][Next]_vars

-----------------------------------------------------------------------------
\* What rows say, in chain order.
InChainOrder(some) ==
    [i \in 1..Cardinality(some) |-> CHOOSE r \in some : Cardinality(Preceding(some, r)) = i - 1]

Contents(some) ==
    [i \in 1..Cardinality(some) |->
        <<InChainOrder(some)[i].event_id, InChainOrder(some)[i].payload>>]

Reported == report # NoReport

\* The meaning of a window: on an untouched ledger the verifier answers "ok"
\* exactly when the rows it reads are a prefix of the chain (routes.py:259-284).
\* A limit alone always is; a start or an end often is not.
UntouchedVerdict ==
    Reported /\ changes = 0 =>
        (report.ok <=> IsPrefix(Contents(report.checked), written))

\* The guarantee of the chain: whatever was altered, removed or exchanged, a
\* reading of the whole ledger is answered "ok" exactly when the rows that are
\* left are the first rows as they were written (chain.py:4-6).  What it does
\* not notice is the removal of the newest rows.
FullVerdict ==
    Reported /\ report.start = Unbounded /\ report.end = Unbounded =>
        (report.ok <=> IsPrefix(Contents(report.checked), written))

\* The reported index points at the damage: the rows before it are the first
\* rows as written, and the row at it is not the next one.
BrokenIndexExact ==
    Reported /\ ~report.ok =>
        LET found == Contents(report.checked)
            i     == report.first_broken_index
        IN  /\ i \in 0 .. (Len(found) - 1)
            /\ IsPrefix(SubSeq(found, 1, i), written)
            /\ ~IsPrefix(SubSeq(found, 1, i + 1), written)

\* An evidence pack holds rows as they were written, from the first one on and
\* without a hole (packs/base.py:78-82).
PackIsEvidence ==
    pack # NoReport => IsPrefix(Contents(pack.events), written)

\* What the API's summary promises of POST /v1/verify (routes.py:6): a window
\* of an untouched ledger verifies.
WindowVerifies == Reported /\ changes = 0 => report.ok
=============================================================================
