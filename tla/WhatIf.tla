-------------------------------- MODULE WhatIf --------------------------------
(***************************************************************************)
(* The what-if projector (goderash_core/whatif/projector.py): a tenant's   *)
(* events, in chain order, decided again under another policy, and the two *)
(* routes that run it (api/whatif.py, orgs.py).                            *)
(*                                                                         *)
(* The loop of project() is the state machine, one event a step: the       *)
(* decision of an event depends on the counters that the events before it  *)
(* have left.  Amounts are in whole units.                                 *)
(***************************************************************************)
EXTENDS Integers, Sequences, FiniteSets, Functions

CONSTANTS ToolNames, Days, Amounts, NoCap, NoTool,
          Epoch,     \* the day of an event that has no occurred_at
          Policies,  \* policies that may be asked about
          MaxEvents  \* bound: events in the window

VARIABLES route,       \* the route: "api_key" (api/whatif.py) or "session" (orgs.py)
          policy,
          events,      \* rows of the window that were seen, in chain order
          out,         \* counter_events: [real, counter] for each of them
          count_seen, amount_seen,
          answer       \* what the route has answered, if anything

NoAnswer == [status |-> "none"]

vars == <<route, policy, events, out, count_seen, amount_seen, answer>>

Kinds == {"tool.invoked", "permission.granted", "permission.denied"}

\* The payloads: an amount is known from the preview of a tool's arguments only,
\* as is its category.
Row == {e \in [type : Kinds, tool : ToolNames \cup {NoTool}, day : Days,
                category : {"action", "query"}, amount : Amounts \cup {0}] :
            e.type # "tool.invoked" => e.category = "query" /\ e.amount = 0}

Init ==
    /\ route \in {"api_key", "session"}
    /\ policy \in Policies
    /\ events = <<>> /\ out = <<>>
    /\ count_seen  = [k \in ToolNames \X (Days \cup {Epoch}) |-> 0]
    /\ amount_seen = [k \in ToolNames \X (Days \cup {Epoch}) |-> 0]
    /\ answer = NoAnswer

\* The rows of the session route are handed over without occurred_at.
DayKey(e) == IF route = "session" THEN Epoch ELSE e.day
Key(e) == <<e.tool, DayKey(e)>>

-----------------------------------------------------------------------------
\* _decide.

CountCap(tool)  == IF tool = NoTool THEN NoCap ELSE policy.velocity_caps[tool]
AmountCap(tool) == IF tool = NoTool THEN NoCap ELSE policy.velocity_amount_caps[tool]

\* Denied before any counter is touched: deny_tools, or plan mode.
Refused(e) ==
    \/ e.tool \in policy.deny_tools
    \/ policy.new_permission_mode = "plan" /\ e.category = "action"

\* Mutation: the count is compared before this event is in it.
OverCount_Before(e) == CountCap(e.tool) # NoCap /\ count_seen[Key(e)] > CountCap(e.tool)

\* The count with this event is beyond the cap.
OverCount(e) == CountCap(e.tool) # NoCap /\ count_seen[Key(e)] + 1 > CountCap(e.tool)

OverAmount(e) ==
    AmountCap(e.tool) # NoCap /\ amount_seen[Key(e)] + e.amount > AmountCap(e.tool)

decide(e) ==
    IF Refused(e) \/ OverCount(e) \/ OverAmount(e) THEN "deny"
    ELSE IF e.tool \in policy.require_confirmation THEN "escalate" ELSE "allow"

\* The counters after the event: the amount only if the count was within its cap.
Counted(e) ==
    /\ count_seen' = IF Refused(e) \/ CountCap(e.tool) = NoCap THEN count_seen
                     ELSE [count_seen EXCEPT ![Key(e)] = @ + 1]
    /\ amount_seen' = IF Refused(e) \/ OverCount(e) \/ AmountCap(e.tool) = NoCap THEN amount_seen
                      ELSE [amount_seen EXCEPT ![Key(e)] = @ + e.amount]

Real(e) == IF e.type = "permission.denied" THEN "deny" ELSE "allow"

\* One round of the loop.  (Events of other types are passed over.)
project(e) ==
    /\ answer = NoAnswer /\ Len(events) < MaxEvents
    /\ events' = Append(events, e)
    /\ out' = Append(out, [real |-> Real(e), counter |-> decide(e)])
    /\ Counted(e)
    /\ UNCHANGED <<route, policy, answer>>

-----------------------------------------------------------------------------
\* The routes: what is answered when the loop is over.

Diffs == {i \in DOMAIN out : out[i].real # out[i].counter}

\* summary: the diffs of each tool that would be denied, or escalated.
Flipped(tool, decision) ==
    Cardinality({i \in Diffs : events[i].tool = tool /\ out[i].counter = decision})

AnswerProject ==
    /\ answer = NoAnswer /\ route = "api_key"
    /\ answer' = [status |-> "ok", diff_count |-> Cardinality(Diffs),
                  would_deny |-> [t \in ToolNames |-> Flipped(t, "deny")],
                  would_escalate |-> [t \in ToolNames |-> Flipped(t, "escalate")]]
    /\ UNCHANGED <<route, policy, events, out, count_seen, amount_seen>>

\* whatif_projection subscripts the report, which is no dict: TypeError, a 500.
AnswerSession ==
    /\ answer = NoAnswer /\ route = "session"
    /\ answer' = [status |-> "500"]
    /\ UNCHANGED <<route, policy, events, out, count_seen, amount_seen>>

Next == (\E e \in Row : project(e)) \/ AnswerProject \/ AnswerSession

Spec == Init /\ [][Next]_vars

-----------------------------------------------------------------------------
\* Safety.

\* The decision of an event without the counters: what comes before it in the
\* window decides, whether it was allowed or denied itself.
Before(i, j) == /\ events[j].tool = events[i].tool /\ DayKey(events[j]) = DayKey(events[i])
                /\ ~Refused(events[j])
Nth(i) == Cardinality({j \in 1..i : Before(i, j)})
Within(i) == CountCap(events[i].tool) = NoCap \/ Nth(i) <= CountCap(events[i].tool)
AmountOf == [j \in DOMAIN events |-> events[j].amount]
Total(i) == SumFunctionOnSet(AmountOf, {j \in 1..i : Before(i, j) /\ Within(j)})

Reference(i) ==
    LET e == events[i]
    IN  IF \/ Refused(e) \/ ~Within(i)
           \/ AmountCap(e.tool) # NoCap /\ Total(i) > AmountCap(e.tool)
        THEN "deny"
        ELSE IF e.tool \in policy.require_confirmation THEN "escalate" ELSE "allow"

\* "Walk events in chain order": each decision is the reference's, so what would
\* be allowed of a tool in a day keeps to the caps of the policy; every flip is
\* in the answer under its tool, and only the flips of events without a tool
\* are in none.
ProjectionExact ==
    /\ \A i \in DOMAIN events : out[i].counter = Reference(i)
    /\ \A tool \in ToolNames, day \in Days \cup {Epoch} :
           LET allowed == {i \in DOMAIN events : /\ events[i].tool = tool /\ DayKey(events[i]) = day
                                                 /\ out[i].counter # "deny"}
           IN  /\ CountCap(tool) # NoCap => Cardinality(allowed) <= CountCap(tool)
               /\ AmountCap(tool) # NoCap => SumFunctionOnSet(AmountOf, allowed) <= AmountCap(tool)
    /\ answer.status = "ok" =>
           answer.diff_count =
               SumFunction([t \in ToolNames |-> answer.would_deny[t] + answer.would_escalate[t]])
               + Cardinality({i \in Diffs : events[i].tool = NoTool \/ out[i].counter = "allow"})

=============================================================================
