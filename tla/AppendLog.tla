----------------------------- MODULE AppendLog -----------------------------
(***************************************************************************)
(* What the event ledger promises (store.py, module docstring): for every  *)
(* tenant an append-only log of events in which each delivered batch       *)
(* appears once, whole, in the order it was emitted, however often and by  *)
(* however many requests it was delivered.                                 *)
(***************************************************************************)
EXTENDS Sequences, FiniteSets

CONSTANTS Tenants,   \* tenants
          Batches,   \* the batches of event ids that may be delivered
          TenantOf   \* the tenant of each event id

VARIABLE log         \* log[t]: the event ids of tenant t, oldest first

Occurs(e, s) == \E i \in DOMAIN s : s[i] = e

Init == log = [t \in Tenants |-> <<>>]

\* A batch enters the log of its tenant at most once and as a block.
Accept(t, b) ==
    /\ \A i \in DOMAIN b : TenantOf[b[i]] = t /\ ~Occurs(b[i], log[t])
    /\ log' = [log EXCEPT ![t] = @ \o b]

Next == log' # log /\ \E t \in Tenants, b \in Batches : Accept(t, b)

Spec == Init /\ [][Next]_log
=============================================================================
