----------------------------- MODULE MCDelivery -----------------------------
(***************************************************************************)
(* An instance of Delivery for TLC: two threads of one client, the first   *)
(* of which emits two events and the second one.                           *)
(***************************************************************************)
EXTENDS Delivery, TLC

CONSTANTS ta, tb, e1, e2, e3

MCProgram == ta :> <<e1, e2>> @@ tb :> <<e3>>

\* Every sequence of distinct events.
MCBatches ==
    {s \in UNION {[1..n -> Events] : n \in 1..3} :
        \A i, j \in DOMAIN s : i # j => s[i] # s[j]}
=============================================================================
