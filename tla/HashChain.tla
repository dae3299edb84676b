----------------------------- MODULE HashChain -----------------------------
(***************************************************************************)
(* The hash chain of goderash_core/ledger/chain.py, over a SET of rows.    *)
(*                                                                         *)
(* SHA-256 is symbolic and collision-free: the hash of a payload chained   *)
(* to `prev_hash' is the sequence of payloads hashed so far, so two hashes *)
(* are equal exactly when the same payloads were chained in the same order.*)
(*                                                                         *)
(* A row is a record with (at least) the columns sequence_no, payload,     *)
(* prev_hash and hash.  The order of rows is the order of sequence_no, as  *)
(* every query of the code sorts by it.                                    *)
(***************************************************************************)
EXTENDS Integers, Sequences, FiniteSets

GENESIS_PREV_HASH == <<>>

compute_hash(prev_hash, payload) == Append(prev_hash, payload)

\* The hash reached from prev_hash by chaining the first i of `payloads'.
ChainedHash(prev_hash, payloads, i) == prev_hash \o SubSeq(payloads, 1, i)

\* The row with the greatest sequence_no: ORDER BY sequence_no DESC LIMIT 1.
Latest(rows) == CHOOSE r \in rows : \A q \in rows : q.sequence_no <= r.sequence_no

Preceding(rows, r) == {q \in rows : q.sequence_no < r.sequence_no}

\* Mutation: the first row of the sequence is taken on trust.
ExpectedPrev_NoGenesis(rows, r) ==
    IF Preceding(rows, r) = {} THEN r.prev_hash
                               ELSE Latest(Preceding(rows, r)).hash

\* The value verify_chain's `expected_prev' has when its loop reaches row r.
ExpectedPrev(rows, r) ==
    IF Preceding(rows, r) = {} THEN GENESIS_PREV_HASH
                               ELSE Latest(Preceding(rows, r)).hash

\* Mutation: the links are followed and no hash is computed again.
BreaksAt_LinksOnly(rows, r) == r.prev_hash # ExpectedPrev(rows, r)

\* The loop body of verify_chain returns False at row r.
BreaksAt(rows, r) ==
    \/ r.prev_hash # ExpectedPrev(rows, r)
    \/ r.hash # compute_hash(r.prev_hash, r.payload)

verify_chain(rows) == \A r \in rows : ~BreaksAt(rows, r)

\* Mutation: the index of the last broken row, not the first.
FirstBrokenIndex_Last(rows) ==
    Cardinality(Preceding(rows, Latest({r \in rows : BreaksAt(rows, r)})))

\* The index verify_chain reports: how many rows come before the first break.
FirstBrokenIndex(rows) ==
    LET broken == {r \in rows : BreaksAt(rows, r)}
        first  == CHOOSE r \in broken : \A q \in broken : r.sequence_no <= q.sequence_no
    IN  Cardinality(Preceding(rows, first))
=============================================================================
