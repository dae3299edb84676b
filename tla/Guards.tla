------------------------------- MODULE Guards -------------------------------
(***************************************************************************)
(* The guard chain of the SDK (goderash_sdk/guards): threads of one agent  *)
(* ask the chain before each tool call.  The guards run in the order of    *)
(* Chain, and the first that denies ends the evaluation; what the guards   *)
(* before it have recorded stays recorded.                                 *)
(*                                                                         *)
(* VelocityLimiter and ConversationBudget keep state that the threads      *)
(* share.  The budget is checked and charged under one lock; the velocity  *)
(* limiter takes the lock of its counter once per limit and once more to   *)
(* record, and other threads may run in between.  What only one guard      *)
(* reads of a call (the message, the category) is chosen when it reads it. *)
(*                                                                         *)
(* Modelled for one velocity key (tenant, user, tool) and the in-memory    *)
(* counter, in integer time.                                               *)
(***************************************************************************)
EXTENDS Integers, Sequences, FiniteSets, SequencesExt

CONSTANTS Threads,        \* threads that evaluate the chain
          Conversations,  \* conversation ids
          Chain,          \* the guards of the chain, in order
          Mode,           \* the mode of the PermissionModeGate
          Limits,         \* the limits of the velocity rules, in the order of evaluation
          Amounts,        \* amounts of calls
          MaxToolCalls,   \* of the ConversationBudget
          MaxTokens,      \* of the ConversationBudget
          MaxPerCall,     \* the most tokens one call consumes
          Horizon         \* bound: the last instant

ASSUME GuardsAssumption ==
    /\ Chain \in Seq({"fraud", "mode", "velocity", "budget"})
    /\ \E i \in DOMAIN Chain : Chain[i] = "budget"
    /\ Mode \in {"plan", "default", "auto", "strict"}
    /\ Limits \in Seq([kind : {"count", "amount"}, window : Nat, max : Nat]) \ {<<>>}
    /\ IsFiniteSet(Threads) /\ Threads # {}
    /\ Amounts \subseteq Nat /\ IsFiniteSet(Amounts) /\ Amounts # {}
    /\ MaxToolCalls \in Nat /\ MaxTokens \in Nat \ {0} /\ MaxPerCall \in Nat
    /\ Horizon \in Nat

VARIABLES now,      \* time.time()
          deque,    \* InMemoryVelocityCounter._events[key]
          used,     \* ConversationBudget._state_by_conv
          frame,    \* frame[th]: the evaluation or tool call th is in, or Idle
          passed,   \* history: what the velocity limiter let pass, by instant
          granted   \* history: grants of each conversation since its last reset

vars == <<now, deque, used, frame, passed, granted>>

Instant  == 0..Horizon
Emitting == Len(Chain) + 1
InTool   == Len(Chain) + 2
Unused   == [calls |-> 0, tokens |-> 0]
Idle     == [guard |-> 0]

\* guard is the guard of the chain at work, Emitting when all have granted, and
\* InTool once the caller has the decision; check is the limit the velocity
\* limiter compares next, and at the instant it read.
Frame == [guard : 1..InTool, conv : Conversations, amount : Amounts,
          check : 0..(Len(Limits) + 1), at : Instant]

TypeOK ==
    /\ now \in Instant
    /\ deque \in Seq([at : Instant, amount : Amounts])
    /\ used \in [Conversations -> [calls : Nat, tokens : Nat]]
    /\ frame \in [Threads -> Frame \cup {Idle}]
    /\ passed \in [Instant -> [count : Nat, amount : Nat]]
    /\ granted \in [Conversations -> Nat]

Init ==
    /\ now = 0
    /\ deque = <<>>
    /\ used = [c \in Conversations |-> Unused]
    /\ frame = [th \in Threads |-> Idle]
    /\ passed = [t \in Instant |-> [count |-> 0, amount |-> 0]]
    /\ granted = [c \in Conversations |-> 0]

-----------------------------------------------------------------------------
\* The chain.

At(th, name) == frame[th].guard \in DOMAIN Chain /\ Chain[frame[th].guard] = name

\* The guard at work denies: permission.denied is emitted and the decision
\* returned, or the emit raises.  There is no call either way.
Deny(th) == frame' = [frame EXCEPT ![th] = Idle]

\* The guard at work grants: the next one follows.
Grant(th) == frame' = [frame EXCEPT ![th].guard = @ + 1]

\* GuardChain.evaluate is called.
Evaluate(th) ==
    /\ frame[th] = Idle
    /\ \E f \in Frame : /\ f.guard = 1 /\ f.check = 0 /\ f.at = 0
                        /\ frame' = [frame EXCEPT ![th] = f]
    /\ UNCHANGED <<now, deque, used, passed, granted>>

\* permission.granted is emitted and the decision returned, or the emit raises
\* (it flushes when the buffer is full).
Emit(th) ==
    /\ frame[th].guard = Emitting
    /\ \/ Grant(th) /\ granted' = [granted EXCEPT ![frame[th].conv] = @ + 1]
       \/ Deny(th) /\ UNCHANGED granted
    /\ UNCHANGED <<now, deque, used, passed>>

\* FraudGuard: only a reject verdict denies.
Fraud(th) ==
    /\ At(th, "fraud")
    /\ \E verdict \in {"allow", "warn", "reject"} :
           IF verdict = "reject" THEN Deny(th) ELSE Grant(th)
    /\ UNCHANGED <<now, deque, used, passed, granted>>

\* PermissionModeGate: in some modes the user is asked; no callback, or one
\* that raises, is a refusal.
Asks(category) == Mode = "strict" \/ (Mode = "default" /\ category = "action")

PermissionMode(th) ==
    /\ At(th, "mode")
    /\ \E category \in {"query", "action", "intelligence"}, answer \in BOOLEAN :
           IF (Mode = "plan" /\ category = "action") \/ (Asks(category) /\ ~answer)
           THEN Deny(th) ELSE Grant(th)
    /\ UNCHANGED <<now, deque, used, passed, granted>>

-----------------------------------------------------------------------------
\* VelocityLimiter and InMemoryVelocityCounter.

Amount(kind, r) == IF kind = "count" THEN 1 ELSE r.amount
Total(kind, s)  == SumFunction([i \in DOMAIN s |-> Amount(kind, s[i])])

\* Mutation: the record at the boundary of the window is dropped too.
Trimmed_Strict(d, oldest) ==
    LET kept == {i \in DOMAIN d : d[i].at > oldest}
    IN  IF kept = {} THEN <<>> ELSE SubSeq(d, Min(kept), Len(d))

\* _trim pops from the left until a record is not older than oldest.
Trimmed(d, oldest) ==
    LET kept == {i \in DOMAIN d : d[i].at >= oldest}
    IN  IF kept = {} THEN <<>> ELSE SubSeq(d, Min(kept), Len(d))

\* The call is timed once, before the first limit.
ReadClock(th) ==
    /\ At(th, "velocity") /\ frame[th].check = 0
    /\ frame' = [frame EXCEPT ![th].check = 1, ![th].at = now]
    /\ UNCHANGED <<now, deque, used, passed, granted>>

\* count_in_window or amount_in_window, and the comparison.  Every limit trims
\* the one deque of the key to its own window.
CheckLimit(th) ==
    /\ At(th, "velocity") /\ frame[th].check \in DOMAIN Limits
    /\ LET limit == Limits[frame[th].check]
       IN  /\ deque' = Trimmed(deque, frame[th].at - limit.window)
           /\ IF Total(limit.kind, deque') + Amount(limit.kind, frame[th]) > limit.max
              THEN Deny(th)
              ELSE frame' = [frame EXCEPT ![th].check = @ + 1]
    /\ UNCHANGED <<now, used, passed, granted>>

\* Every limit has room: the attempt is recorded.
Record(th) ==
    /\ At(th, "velocity") /\ frame[th].check = Len(Limits) + 1
    /\ deque' = Append(deque, [at |-> frame[th].at, amount |-> frame[th].amount])
    /\ passed' = [passed EXCEPT ![frame[th].at].count = @ + 1,
                                ![frame[th].at].amount = @ + frame[th].amount]
    /\ frame' = [frame EXCEPT ![th].guard = @ + 1, ![th].check = 0, ![th].at = 0]
    /\ UNCHANGED <<now, used, granted>>

-----------------------------------------------------------------------------
\* ConversationBudget and the call itself.

Exhausted(u) == u.calls >= MaxToolCalls \/ u.tokens >= MaxTokens

\* Mutation: the attempt is charged before the budget is compared.
Budget_ChargesFirst(th) ==
    /\ At(th, "budget")
    /\ used' = [used EXCEPT ![frame[th].conv].calls = @ + 1]
    /\ IF Exhausted(used[frame[th].conv]) THEN Deny(th) ELSE Grant(th)
    /\ UNCHANGED <<now, deque, passed, granted>>

\* Mutation: the tokens are not compared.
Budget_CallsOnly(th) ==
    /\ At(th, "budget")
    /\ LET c == frame[th].conv
       IN  IF used[c].calls >= MaxToolCalls
           THEN Deny(th) /\ UNCHANGED used
           ELSE Grant(th) /\ used' = [used EXCEPT ![c].calls = @ + 1]
    /\ UNCHANGED <<now, deque, passed, granted>>

\* evaluate compares and charges under the lock.
Budget(th) ==
    /\ At(th, "budget")
    /\ LET c == frame[th].conv
       IN  IF Exhausted(used[c])
           THEN Deny(th) /\ UNCHANGED used
           ELSE Grant(th) /\ used' = [used EXCEPT ![c].calls = @ + 1]
    /\ UNCHANGED <<now, deque, passed, granted>>

\* The granted call ends, and its tokens are consumed.
Consume(th) ==
    /\ frame[th].guard = InTool
    /\ \E t \in 0..MaxPerCall : used' = [used EXCEPT ![frame[th].conv].tokens = @ + t]
    /\ frame' = [frame EXCEPT ![th] = Idle]
    /\ UNCHANGED <<now, deque, passed, granted>>

\* Mutation: the states are in a plain dict, and reset leaves no entry.
Reset_PlainDict(c) ==
    /\ used' = [d \in DOMAIN used \ {c} |-> used[d]]
    /\ granted' = [granted EXCEPT ![c] = 0]
    /\ UNCHANGED <<now, deque, frame, passed>>

\* reset forgets the conversation, whatever calls of it are under way.
Reset(c) ==
    /\ used' = [used EXCEPT ![c] = Unused]
    /\ granted' = [granted EXCEPT ![c] = 0]
    /\ UNCHANGED <<now, deque, frame, passed>>

Tick == now < Horizon /\ now' = now + 1 /\ UNCHANGED <<deque, used, frame, passed, granted>>

Next ==
    \/ \E th \in Threads : \/ Evaluate(th) \/ Fraud(th) \/ PermissionMode(th)
                           \/ ReadClock(th) \/ CheckLimit(th) \/ Record(th)
                           \/ Budget(th) \/ Emit(th) \/ Consume(th)
    \/ \E c \in Conversations : Reset(c)
    \/ Tick

Spec == Init /\ [][Next]_vars

-----------------------------------------------------------------------------
\* Safety.

\* budget.py: "so concurrent calls under the same conversation are bounded".
\* A conversation is never charged beyond its cap, and however the threads and
\* the resets interleave, the calls it is granted exceed those it is charged
\* for only by calls that a reset has overtaken, at most one per thread.
CallsBounded ==
    \A c \in Conversations :
        /\ used[c].calls <= MaxToolCalls
        /\ granted[c] <= used[c].calls + Cardinality(Threads)

\* "Exhaustion denies the next call only": the calls under way when the tokens
\* run out are all that can go beyond the cap, one per thread.
TokensBounded ==
    \A c \in Conversations : used[c].tokens < MaxTokens + Cardinality(Threads) * MaxPerCall

\* The limiter compares and records under separate locks, so calls under way at
\* once do not see each other, and a call that was timed before the window moved
\* on may find that a later call has trimmed what it had to count.  In any
\* window of a limit, what passes is over the limit by no more than one call of
\* every other thread for each of the two reasons; with one thread it is exact.
\* (This takes that no other limit has a shorter window, to which it trims.)
WindowTotal(kind, first, last) ==
    SumFunctionOnSet([t \in Instant |-> passed[t][kind]], {t \in Instant : first <= t /\ t <= last})

Largest(kind) == IF kind = "count" THEN 1 ELSE Max(Amounts)

LimitHolds(i) ==
    \A t \in Instant :
        WindowTotal(Limits[i].kind, t - Limits[i].window, t)
            <= Limits[i].max + 2 * (Cardinality(Threads) - 1) * Largest(Limits[i].kind)

VelocityBounded == \A i \in DOMAIN Limits : LimitHolds(i)

=============================================================================
