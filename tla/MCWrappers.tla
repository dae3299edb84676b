------------------------------ MODULE MCWrappers ------------------------------
(***************************************************************************)
(* Where the events of a conversation come from (the wrappers, the         *)
(* callback of LangGraph), and what reads them again under another policy. *)
(* The parts share the ledger and no state of their own, so a behaviour    *)
(* takes the steps of one of them (and of the others one initial state).   *)
(***************************************************************************)
EXTENDS Wrappers, TLC

CONSTANTS t1, t2, op, ws, r1, r2, r3, x, y, d1, d2,
          RunIds, NoRun,
          ToolNames, Days, Amounts, NoCap, NoTool, Epoch, Policies, MaxEvents

ASSUME RunsAssumption == NoRun \notin RunIds

\* Amounts may be negative, caps are not; a tool that a policy does not name has no cap.
ASSUME PolicyAssumption ==
    /\ IsFiniteSet(ToolNames) /\ NoTool \notin ToolNames
    /\ Amounts \subseteq Int
    /\ \A p \in Policies : /\ p.velocity_caps \in [ToolNames -> Nat \cup {NoCap}]
                          /\ p.velocity_amount_caps \in [ToolNames -> Nat \cup {NoCap}]

VARIABLES part,
          python, run, started, rootRunId, turns, raced,
          route, policy, events, out, count_seen, amount_seen, answer

LangGraph == INSTANCE Callback WITH Runs <- RunIds
Projector == INSTANCE WhatIf

callbackVars == <<python, run, started, rootRunId, turns, raced>>
whatifVars   == <<route, policy, events, out, count_seen, amount_seen, answer>>

WrappersInit ==
    /\ part \in {"wrappers", "callback", "whatif"}
    /\ Init /\ LangGraph!Init /\ Projector!Init
    /\ part # "wrappers" => lang = "python"
    /\ part # "callback" => python
    /\ part # "whatif" => route = "session" /\ policy = CHOOSE p \in Policies : TRUE

WrapperStep  == part = "wrappers" /\ Next /\ UNCHANGED <<part, callbackVars, whatifVars>>
CallbackStep == part = "callback" /\ LangGraph!Next /\ UNCHANGED <<part, vars, whatifVars>>
WhatIfStep   == part = "whatif" /\ Projector!Next /\ UNCHANGED <<part, vars, callbackVars>>

WrappersNext == WrapperStep \/ CallbackStep \/ WhatIfStep

WrappersSpec == WrappersInit /\ [][WrappersNext]_<<part, vars, callbackVars, whatifVars>>

\* The properties of Callback and WhatIf, by name.
TurnsBracketed == LangGraph!TurnsBracketed
ProjectionExact == Projector!ProjectionExact

\* What a policy does to the tool x, with and without caps, and in plan mode.
Policy(count, amount, deny, confirm, mode) ==
    [velocity_caps |-> [t \in ToolNames |-> IF t = x THEN count ELSE NoCap],
     velocity_amount_caps |-> [t \in ToolNames |-> IF t = x THEN amount ELSE NoCap],
     deny_tools |-> deny, require_confirmation |-> confirm, new_permission_mode |-> mode]

SomePolicies == {Policy(2, 1, {}, {x}, "default"), Policy(NoCap, 2, {y}, {}, "plan")}

Symmetry == Permutations(Threads) \cup Permutations(Cancellers) \cup Permutations(RunIds)
=============================================================================
