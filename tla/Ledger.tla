------------------------------- MODULE Ledger -------------------------------
(***************************************************************************)
(* POST /v1/events down to the events table: concurrent request handlers   *)
(* (of any number of API processes) that append batches to the per-tenant  *)
(* hash chain, each in one database transaction under the tenant's         *)
(* advisory lock (goderash_core/ledger/store.py, api/routes.py, db.py).    *)
(*                                                                         *)
(* A handler is a Worker.  Its transaction runs at READ COMMITTED: each    *)
(* statement sees the rows committed so far, and its own inserts stay in   *)
(* `pending' until Commit.  The same batch may be delivered any number of  *)
(* times, also while an earlier delivery is still running: that is what    *)
(* the SDK's retry after a timeout does.                                   *)
(***************************************************************************)
EXTENDS HashChain

CONSTANTS Tenants,    \* tenants
          Workers,    \* request handlers that may run at the same time
          NoWorker,   \* holder of a free advisory lock
          Batches,    \* the batches that may be delivered: sequences of event ids
          Payloads,   \* payloads, as canonical JSON
          TenantOf,   \* the tenant_id of the envelope of each event id
          PayloadOf,  \* the payload of the envelope of each event id
          Jsonb       \* the payload read back from the JSONB column, per payload:
                      \* PostgreSQL keeps numbers as decimals, so a float that
                      \* Python writes as 1e+16 comes back as an integer

Events == DOMAIN TenantOf

ASSUME LedgerAssumption ==
    /\ NoWorker \notin Workers
    /\ TenantOf \in [Events -> Tenants]
    /\ PayloadOf \in [Events -> Payloads]
    /\ Jsonb \in [Payloads -> Payloads]
    /\ Batches \subseteq Seq(Events)
    /\ <<>> \notin Batches

VARIABLES events,     \* the committed rows of the events table
          lock,       \* lock[t]: the worker that holds tenant t's advisory lock
          pc,         \* pc[w]: how far worker w's handler has come
          batch,      \* batch[w]: the event ids of the request w handles
          headHash,   \* headHash[w]: what fetch_head_hash returned to w
          headSeq,    \* headSeq[w]: what fetch_head_sequence returned to w
          pending     \* pending[w]: rows w's transaction inserted, not yet committed

vars == <<events, lock, pc, batch, headHash, headSeq, pending>>

Hash == Seq(Payloads)

Row == [event_id : Events, tenant_id : Tenants, sequence_no : Nat,
        payload : Payloads, prev_hash : Hash, hash : Hash]

Phases == {"idle", "waiting", "locked", "hashed", "sequenced", "inserted", "replied"}

\* The phases in which a transaction holds the advisory lock of its tenant.
Holding == Phases \ {"idle", "waiting"}

-----------------------------------------------------------------------------
\* Queries on the committed rows.

RowsOf(t) == {r \in events : r.tenant_id = t}

fetch_head_hash(t) ==
    IF RowsOf(t) = {} THEN GENESIS_PREV_HASH ELSE Latest(RowsOf(t)).hash

\* Mutation: an empty chain is read as -1 instead of 0.
fetch_head_sequence_FromMinusOne(t) ==
    IF RowsOf(t) = {} THEN -1 ELSE Latest(RowsOf(t)).sequence_no

fetch_head_sequence(t) ==
    IF RowsOf(t) = {} THEN 0 ELSE Latest(RowsOf(t)).sequence_no

StoredIds == {r.event_id : r \in events}

-----------------------------------------------------------------------------
\* append_many, as the rows one batch yields.

PayloadsOf(b) == [i \in DOMAIN b |-> PayloadOf[b[i]]]

TenantOfBatch(b) == TenantOf[b[1]]

\* Mutation: next_seq is advanced before it is used.
SealedRow_SeqOffByOne(b, i, prev, seq) ==
    LET prev_hash == ChainedHash(prev, PayloadsOf(b), i - 1)
    IN  [event_id |-> b[i], tenant_id |-> TenantOf[b[i]], sequence_no |-> seq + i + 1,
         payload |-> Jsonb[PayloadOf[b[i]]], prev_hash |-> prev_hash,
         hash |-> compute_hash(prev_hash, PayloadOf[b[i]])]

\* The i-th row.  prev_hash and next_seq have advanced over EVERY earlier
\* envelope of the batch, stored before or not.  The hash is that of the
\* payload as received; a reader will see the payload column.
SealedRow(b, i, prev, seq) ==
    LET prev_hash == ChainedHash(prev, PayloadsOf(b), i - 1)
    IN  [event_id    |-> b[i],
         tenant_id   |-> TenantOf[b[i]],
         sequence_no |-> seq + i,
         payload     |-> Jsonb[PayloadOf[b[i]]],
         prev_hash   |-> prev_hash,
         hash        |-> compute_hash(prev_hash, PayloadOf[b[i]])]

\* Mutation: a plain INSERT into a table without the key on event_id.
Inserted_NoConflictClause(b, prev, seq) ==
    {SealedRow(b, i, prev, seq) : i \in DOMAIN b}

\* ON CONFLICT (event_id) DO NOTHING: of the sealed rows, those whose id is
\* not stored yet and did not come earlier in the same statement.
Inserted(b, prev, seq) ==
    {SealedRow(b, i, prev, seq) : i \in
        {j \in DOMAIN b : b[j] \notin StoredIds /\ \A k \in 1..(j-1) : b[k] # b[j]}}

-----------------------------------------------------------------------------
Init ==
    /\ events = {}
    /\ lock = [t \in Tenants |-> NoWorker]
    /\ pc = [w \in Workers |-> "idle"]
    /\ batch = [w \in Workers |-> <<>>]
    /\ headHash = [w \in Workers |-> GENESIS_PREV_HASH]
    /\ headSeq = [w \in Workers |-> 0]
    /\ pending = [w \in Workers |-> {}]

TypeOK ==
    /\ events \subseteq Row
    /\ lock \in [Tenants -> Workers \cup {NoWorker}]
    /\ pc \in [Workers -> Phases]
    /\ batch \in [Workers -> Batches \cup {<<>>}]
    /\ headHash \in [Workers -> Hash]
    /\ headSeq \in [Workers -> Nat]
    /\ pending \in [Workers -> SUBSET Row]
    /\ \A w \in Workers : pc[w] # "idle" => batch[w] \in Batches

Goto(w, from, to) == pc[w] = from /\ pc' = [pc EXCEPT ![w] = to]

\* A request of tenant t arrives.  An envelope of another tenant is refused
\* with 403 before anything is written.
Request(w, t, b) ==
    /\ \A i \in DOMAIN b : TenantOf[b[i]] = t
    /\ Goto(w, "idle", "waiting")
    /\ batch' = [batch EXCEPT ![w] = b]
    /\ UNCHANGED <<events, lock, headHash, headSeq, pending>>

\* Mutation: the lock is only tried, and the handler goes on without it.
AcquireLock_NoWait(w) ==
    LET t == TenantOfBatch(batch[w]) IN
    /\ Goto(w, "waiting", "locked")
    /\ lock' = [lock EXCEPT ![t] = IF @ = NoWorker THEN w ELSE @]
    /\ UNCHANGED <<events, batch, headHash, headSeq, pending>>

\* SELECT pg_advisory_xact_lock(k) returns.
AcquireLock(w) ==
    LET t == TenantOfBatch(batch[w]) IN
    /\ Goto(w, "waiting", "locked")
    /\ lock[t] = NoWorker
    /\ lock' = [lock EXCEPT ![t] = w]
    /\ UNCHANGED <<events, batch, headHash, headSeq, pending>>

FetchHeadHash(w) ==
    /\ Goto(w, "locked", "hashed")
    /\ headHash' = [headHash EXCEPT ![w] = fetch_head_hash(TenantOfBatch(batch[w]))]
    /\ UNCHANGED <<events, lock, batch, headSeq, pending>>

FetchHeadSequence(w) ==
    /\ Goto(w, "hashed", "sequenced")
    /\ headSeq' = [headSeq EXCEPT ![w] = fetch_head_sequence(TenantOfBatch(batch[w]))]
    /\ UNCHANGED <<events, lock, batch, headHash, pending>>

\* The loop over the envelopes and the one INSERT statement.
InsertRows(w) ==
    /\ Goto(w, "sequenced", "inserted")
    /\ pending' = [pending EXCEPT ![w] = Inserted(batch[w], headHash[w], headSeq[w])]
    /\ UNCHANGED <<events, lock, batch, headHash, headSeq>>

\* Mutation: the lock is released by the handler instead of by the commit.
Reply_ReleasesLock(w) ==
    /\ Goto(w, "inserted", "replied")
    /\ lock' = [t \in Tenants |-> IF lock[t] = w THEN NoWorker ELSE lock[t]]
    /\ UNCHANGED <<events, batch, headHash, headSeq, pending>>

\* The handler returns and 202 is sent: the session dependency commits only
\* when it is torn down, after the response.
Reply(w) ==
    /\ Goto(w, "inserted", "replied")
    /\ UNCHANGED <<events, lock, batch, headHash, headSeq, pending>>

\* Mutation: the lock outlives the transaction (pg_advisory_lock).
EndTransaction_KeepsLock(w) ==
    /\ pc' = [pc EXCEPT ![w] = "idle"]
    /\ batch' = [batch EXCEPT ![w] = <<>>]
    /\ headHash' = [headHash EXCEPT ![w] = GENESIS_PREV_HASH]
    /\ headSeq' = [headSeq EXCEPT ![w] = 0]
    /\ pending' = [pending EXCEPT ![w] = {}]
    /\ UNCHANGED lock

\* The end of a transaction: its rows are gone from the session and its
\* advisory lock, if it holds it, is released.
EndTransaction(w) ==
    /\ pc' = [pc EXCEPT ![w] = "idle"]
    /\ batch' = [batch EXCEPT ![w] = <<>>]
    /\ headHash' = [headHash EXCEPT ![w] = GENESIS_PREV_HASH]
    /\ headSeq' = [headSeq EXCEPT ![w] = 0]
    /\ pending' = [pending EXCEPT ![w] = {}]
    /\ lock' = [t \in Tenants |-> IF lock[t] = w THEN NoWorker ELSE lock[t]]

\* Mutation: the rows are committed one by one, and any of them may fail.
Commit_RowByRow(w) ==
    /\ pc[w] = "replied"
    /\ \E rows \in SUBSET pending[w] : events' = events \cup rows
    /\ EndTransaction(w)

Commit(w) ==
    /\ pc[w] = "replied"
    /\ events' = events \cup pending[w]
    /\ EndTransaction(w)

\* An exception, a failed commit or the death of the process, at any point
\* of the handler: session_scope or the database rolls back.
Abort(w) ==
    /\ pc[w] # "idle"
    /\ EndTransaction(w)
    /\ UNCHANGED events

Step(w) ==
    \/ FetchHeadHash(w)
    \/ FetchHeadSequence(w)
    \/ InsertRows(w)
    \/ Reply(w)
    \/ Commit(w)

Next ==
    \E w \in Workers :
        \/ \E t \in Tenants, b \in Batches : Request(w, t, b)
        \/ AcquireLock(w)
        \/ Step(w)
        \/ Abort(w)

\* A started handler is scheduled until it ends, and PostgreSQL serves the
\* waiters of an advisory lock in order: none waits for ever while the lock
\* is released again and again.
Fairness ==
    \A w \in Workers : WF_vars(Step(w)) /\ SF_vars(AcquireLock(w))

Spec == Init /\ [][Next]_vars

FairSpec == Spec /\ Fairness

-----------------------------------------------------------------------------
\* What the SDKs deliver: an event is drained into one batch only, so two
\* deliveries are either the same batch or have no event in common.
BatchesDisjoint ==
    /\ \A b, c \in Batches : b # c =>
           \A i \in DOMAIN b, j \in DOMAIN c : b[i] # c[j]
    /\ \A b \in Batches : \A i, j \in DOMAIN b : i # j => b[i] # b[j]

\* The payloads that come back from the JSONB column as they went in.
PayloadsRoundTrip == \A e \in Events : Jsonb[PayloadOf[e]] = PayloadOf[e]

\* At every moment a verifier that reads the whole chain of a tenant accepts
\* it (store.py:6-8), however the handlers interleave, repeat and fail.
ChainIntact == \A t \in Tenants : verify_chain(RowsOf(t))

\* The sequence numbers of a tenant have no gap (store.py:5): the committed
\* rows of a chain are exactly 1 .. n.
SequenceContiguous ==
    \A t \in Tenants :
        {r.sequence_no : r \in RowsOf(t)} = 1..fetch_head_sequence(t)

\* Two rows never collide on the primary key, on uq_events_tenant_sequence or
\* on uq_events_tenant_hash (models/event.py:17-26): no append ever ends in an
\* IntegrityError, which a retry would only repeat.
UniqueKeys ==
    \A r, q \in events : r # q =>
        /\ r.event_id # q.event_id
        /\ r.tenant_id = q.tenant_id =>
               r.sequence_no # q.sequence_no /\ r.hash # q.hash

\* A batch is stored as a block in emission order or not at all
\* (store.py:43, "Append a batch as one transaction").
BatchWhole ==
    \A b \in Batches : \A i, j \in DOMAIN b : \A r \in events :
        r.event_id = b[i] =>
            \E q \in events : /\ q.event_id = b[j]
                             /\ q.sequence_no = r.sequence_no + (j - i)

\* The committed event ids of a tenant in chain order (iter_tenant).
LogOf(t) ==
    [n \in 1..fetch_head_sequence(t) |->
        (CHOOSE r \in RowsOf(t) : r.sequence_no = n).event_id]

Promise == INSTANCE AppendLog WITH log <- [t \in Tenants |-> LogOf(t)]

\* The concurrent, retried, failing transactions implement the append-only
\* log of whole batches stored exactly once (store.py, module docstring).
ImplementsAppendLog == Promise!Spec

\* Every handler that has started ends: the advisory lock is always released
\* and every waiter gets it (store.py:51-53).
RequestEnds == \A w \in Workers : (pc[w] # "idle") ~> (pc[w] = "idle")
=============================================================================
