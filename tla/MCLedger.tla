------------------------------ MODULE MCLedger ------------------------------
(***************************************************************************)
(* Instances of Ledger for TLC.  Two tenants; two of the events of tenant  *)
(* t1 carry the same payload, as repeated tool calls do.                   *)
(***************************************************************************)
EXTENDS Ledger, Folds

CONSTANTS t1, t2, w1, w2, w3, e1, e2, e3, f1, p1, p2, p3

MCTenantOf  == [e \in {e1, e2, e3, f1} |-> IF e = f1 THEN t2 ELSE t1]
MCPayloadOf == [e \in {e1, e2, e3, f1} |-> IF e = e2 THEN p2 ELSE p1]

\* p3 holds a float of 1e16 or more; it comes back as the integer p2.
MCJsonb == [p \in {p1, p2, p3} |-> IF p = p3 THEN p2 ELSE p]

MCPayloadWithFloat == [MCPayloadOf EXCEPT ![e3] = p3]

\* What the SDKs deliver: disjoint batches.
MCBatches == {<<e1, e2>>, <<e3>>, <<f1>>}

\* A retry that is not byte for byte the earlier request: e2 is sent again
\* together with a new event.
MCOverlapping == {<<e1, e2>>, <<e2, e3>>}

ASSUME DisjointAssumption == Batches = MCBatches => BatchesDisjoint

\* ChainedHash is the fold of compute_hash that append_many's loop performs.
ASSUME ChainedHashIsFold ==
    \A b \in Batches : \A i \in 0..Len(b) :
        LET ps == PayloadsOf(b) IN
        /\ ChainedHash(GENESIS_PREV_HASH, ps, i) =
               MapThenFoldSet(LAMBDA x, y : compute_hash(y, x), GENESIS_PREV_HASH,
                              LAMBDA k : ps[k],
                              LAMBDA S : CHOOSE k \in S : \A m \in S : m <= k, 1..i)
=============================================================================
