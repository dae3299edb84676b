---------------------------- MODULE WrappersProofs ----------------------------
(***************************************************************************)
(* Theorems about the wrappers, the CancellationToken and the callback of  *)
(* LangGraph, for any number of threads, calls and runs, and about the     *)
(* what-if projector, for any policies and events.                         *)
(***************************************************************************)
EXTENDS MCWrappers, FiniteSetTheorems, SequenceTheorems, WellFoundedInduction, TLAPS

-----------------------------------------------------------------------------
\* A behaviour of the parts is one of each part.

LEMMA WrappersParts == WrappersSpec => Spec /\ LangGraph!Spec /\ Projector!Spec
<1>1. WrappersInit => Init /\ LangGraph!Init /\ Projector!Init
  BY DEF WrappersInit
<1>2. [WrappersNext]_<<part, vars, callbackVars, whatifVars>> =>
          [Next]_vars /\ [LangGraph!Next]_(LangGraph!vars) /\ [Projector!Next]_(Projector!vars)
  BY DEF WrappersNext, WrapperStep, CallbackStep, WhatIfStep, vars, callbackVars, whatifVars,
         LangGraph!vars, Projector!vars
<1> QED
  BY <1>1, <1>2, PTL DEF WrappersSpec, Spec, LangGraph!Spec, Projector!Spec

-----------------------------------------------------------------------------
\* The CancellationToken.

\* Somebody gave this reason, or gave none.
Given(r) ==
    IF r = NoReason THEN \E p \in Cancellers : canceller[p] = "without"
    ELSE r \in Cancellers /\ canceller[r] = "with"

\* The event is set by one who has written the reason before: from then on the
\* token holds a reason that was given, whoever overwrites it.
TokenInv ==
    /\ canceller \in [Cancellers -> {"idle", "with", "without"}]
    /\ Given(reason) \/ \A p \in Cancellers : canceller[p] = "idle"
    /\ cancelled => \E p \in Cancellers : canceller[p] # "idle"
    /\ \A r \in told : Given(r)

LEMMA TokenInit == Init => TokenInv
BY DEF Init, TokenInv

\* Who has given a reason does not take it back.
LEMMA WritesReason ==
    ASSUME TokenInv, NEW p \in Cancellers, canceller[p] = "idle", UNCHANGED <<cancelled, told>>,
           \/ reason' = p /\ canceller' = [canceller EXCEPT ![p] = "with"]
           \/ reason' = NoReason /\ canceller' = [canceller EXCEPT ![p] = "without"]
    PROVE  TokenInv'
<1>1. canceller' \in [Cancellers -> {"idle", "with", "without"}]
  BY DEF TokenInv
<1>2. canceller'[p] # "idle" /\ \A q \in Cancellers \ {p} : canceller'[q] = canceller[q]
  BY DEF TokenInv
<1>3. \A r : Given(r) => Given(r)'
  BY <1>2 DEF Given
<1>4. Given(reason)'
  <2>1. CASE reason' = p /\ canceller' = [canceller EXCEPT ![p] = "with"]
    BY <2>1, WrappersAssumption DEF Given, TokenInv
  <2>2. CASE reason' = NoReason /\ canceller' = [canceller EXCEPT ![p] = "without"]
    BY <2>2 DEF Given, TokenInv
  <2> QED
    BY <2>1, <2>2
<1> QED
  BY <1>1, <1>2, <1>3, <1>4 DEF TokenInv

LEMMA TokenSame == ASSUME TokenInv, UNCHANGED token PROVE TokenInv'
BY DEF TokenInv, Given, token

LEMMA TokenStep == TokenInv /\ [Next]_vars => TokenInv'
<1> SUFFICES ASSUME TokenInv, [Next]_vars PROVE TokenInv'
  OBVIOUS
<1>1. CASE UNCHANGED vars
  BY <1>1, TokenSame DEF vars, token
<1>2. ASSUME NEW t \in Threads,
             Enter(t) \/ Return(t) \/ Unwind(t) \/ Throw(t) \/ Handle(t) \/ AuditRun(t)
      PROVE  TokenInv'
  BY <1>2, TokenSame DEF Enter, Return, Unwind, Leave, Throw, Handle, AuditRun
<1>3. ASSUME NEW t \in Threads, raise_if_cancelled(t) PROVE TokenInv'
  <2>1. Given(reason)
    BY <1>3 DEF TokenInv, raise_if_cancelled
  <2> QED
    BY <1>3, <2>1 DEF TokenInv, Given, raise_if_cancelled
<1>4. ASSUME NEW p \in Cancellers, cancel(p) PROVE TokenInv'
  <2>1. CASE canceller[p] = "idle"
    BY <1>4, <2>1, WritesReason DEF cancel
  <2>2. CASE canceller[p] \in {"with", "without"}
    BY <1>4, <2>2 DEF cancel, TokenInv, Given
  <2> QED
    BY <1>4, <2>1, <2>2 DEF cancel
<1> QED
  BY <1>1, <1>2, <1>3, <1>4 DEF Next

\* cancellation.py: cancel() writes the reason before it sets the event, so a tool
\* that is told of the cancellation is told a reason that was given, however the
\* calls of cancel() overlap.
THEOREM ReasonsAreGiven == WrappersSpec => []CancelReason
<1>1. TokenInv => CancelReason
  BY DEF TokenInv, CancelReason, Given
<1> QED
  BY <1>1, TokenInit, TokenStep, WrappersParts, PTL DEF Spec

-----------------------------------------------------------------------------
\* The callback of LangGraph.

Phases == {"new", "test", "begin", "runs", "ended", "failed"}

CallbackTypes ==
    /\ python \in BOOLEAN /\ raced \in BOOLEAN
    /\ run \in [RunIds -> [kind : {"none", "chain", "tool", "llm"}, root : BOOLEAN, phase : Phases]]
    /\ started \subseteq RunIds /\ rootRunId \in RunIds \cup {NoRun}
    /\ turns \in Seq([type : {"started", "completed"}, run : RunIds])

\* In JavaScript nothing comes between the test and the assignment, and a turn is
\* forgotten as its chain ends.
ScriptInv ==
    ~python => /\ ~raced
               /\ \A r \in RunIds : run[r].phase # "begin"
               /\ rootRunId # NoRun => run[rootRunId].phase = "runs"

\* The turn that is open is the last one, and that of the root chain that is kept;
\* in Python a chain whose end could not be emitted is kept although it is over.
TurnInv ==
    /\ LangGraph!Alternates
    /\ rootRunId = NoRun => Len(turns) % 2 = 0
    /\ rootRunId # NoRun =>
           /\ run[rootRunId].kind = "chain" /\ run[rootRunId].root
           /\ run[rootRunId].phase \in {"runs", "ended", "failed"}
           /\ IF run[rootRunId].phase = "ended" THEN Len(turns) % 2 = 0
              ELSE Len(turns) % 2 = 1 /\ turns[Len(turns)].run = rootRunId

\* Only one chain may be about to begin a turn, and only if there is none; and of
\* the chains only that of the turn is among the runs started.
RunsInv ==
    /\ \A r \in RunIds : run[r].phase \in {"test", "begin"} => run[r].kind = "chain"
    /\ \A r \in RunIds : run[r].phase = "begin" => rootRunId = NoRun /\ run[r].root
    /\ \A r, q \in RunIds : run[r].phase = "begin" /\ run[q].phase = "begin" => r = q
    /\ \A r \in started :
           /\ run[r].phase # "runs" => run[r].phase = "failed" /\ (python \/ run[r].kind = "llm")
           /\ run[r].kind = "chain" => rootRunId = r

CallbackInv == CallbackTypes /\ ScriptInv /\ (~raced => TurnInv /\ RunsInv)

\* What r does is changed, and nothing of the others.
LEMMA PhaseIs ==
    ASSUME CallbackTypes, NEW r \in RunIds, NEW phase \in Phases, LangGraph!Phase(r, phase)
    PROVE  /\ run' \in [RunIds -> [kind : {"none", "chain", "tool", "llm"}, root : BOOLEAN, phase : Phases]]
           /\ run'[r].phase = phase /\ run'[r].kind = run[r].kind /\ run'[r].root = run[r].root
           /\ \A q \in RunIds \ {r} : run'[q] = run[q]
<1>1. run[r] \in [kind : {"none", "chain", "tool", "llm"}, root : BOOLEAN, phase : Phases]
  BY DEF CallbackTypes
<1>2. run' = [run EXCEPT ![r].phase = phase]
  BY DEF LangGraph!Phase
<1> QED
  BY <1>1, <1>2 DEF CallbackTypes

LEMMA CallbackInit == LangGraph!Init => CallbackInv
<1> SUFFICES ASSUME LangGraph!Init PROVE CallbackInv
  OBVIOUS
<1>1. turns = <<>> /\ Len(turns) = 0 /\ turns \in Seq([type : {"started", "completed"}, run : RunIds])
      /\ DOMAIN turns = {}
  BY EmptySeq DEF LangGraph!Init
<1>2. CallbackTypes
  BY <1>1 DEF LangGraph!Init, LangGraph!New, CallbackTypes, Phases
<1>3. \A r \in RunIds : run[r].phase = "new"
  BY DEF LangGraph!Init, LangGraph!New
<1>4. LangGraph!Alternates
  BY <1>1 DEF LangGraph!Alternates
<1> QED
  BY <1>1, <1>2, <1>3, <1>4 DEF LangGraph!Init, CallbackInv, ScriptInv, TurnInv, RunsInv

\* A turn goes on as turns do: a start after an even number of events, an end after
\* the start of the same run.
LEMMA AlternatesOn ==
    ASSUME CallbackTypes, LangGraph!Alternates, NEW e \in [type : {"started", "completed"}, run : RunIds],
           turns' = Append(turns, e),
           IF Len(turns) % 2 = 0 THEN e.type = "started"
           ELSE e = LangGraph!Event("completed", turns[Len(turns)].run)
    PROVE  /\ LangGraph!Alternates' /\ Len(turns') = Len(turns) + 1 /\ Len(turns) \in Nat
           /\ turns'[Len(turns')] = e
           /\ turns' \in Seq([type : {"started", "completed"}, run : RunIds])
<1> DEFINE n == Len(turns)
<1>1. turns \in Seq([type : {"started", "completed"}, run : RunIds]) /\ n \in Nat
  BY LenProperties DEF CallbackTypes
<1>2. /\ turns' \in Seq([type : {"started", "completed"}, run : RunIds])
      /\ Len(turns') = n + 1 /\ turns'[n + 1] = e
      /\ \A i \in 1..n : turns'[i] = turns[i]
  BY <1>1
<1>3. DOMAIN turns = 1..n /\ DOMAIN turns' = 1..(n + 1)
  BY <1>1, <1>2, LenProperties
<1>4. LangGraph!Alternates'
  <2> SUFFICES ASSUME NEW i \in 1..(n + 1)
               PROVE  IF i % 2 = 1 THEN turns'[i].type = "started"
                      ELSE turns'[i] = LangGraph!Event("completed", turns'[i - 1].run)
    BY <1>3 DEF LangGraph!Alternates
  <2>1. CASE i \in 1..n
    <3>1. IF i % 2 = 1 THEN turns[i].type = "started"
          ELSE turns[i] = LangGraph!Event("completed", turns[i - 1].run)
      BY <1>3, <2>1 DEF LangGraph!Alternates
    <3>2. CASE i % 2 = 1
      BY <1>2, <2>1, <3>1, <3>2
    <3>3. CASE i % 2 # 1
      <4>1. i - 1 \in 1..n
        BY <1>1, <2>1, <3>3
      <4>2. turns'[i] = turns[i] /\ turns'[i - 1] = turns[i - 1]
        BY <1>2, <2>1, <4>1
      <4> QED
        BY <3>1, <3>3, <4>2
    <3> QED
      BY <3>2, <3>3
  <2>2. CASE i = n + 1
    <3>1. CASE n % 2 = 0
      <4>1. i % 2 = 1
        BY <1>1, <2>2, <3>1
      <4> QED
        BY <1>2, <2>2, <3>1, <4>1
    <3>2. CASE n % 2 # 0
      <4>1. i % 2 # 1 /\ n \in 1..n /\ i - 1 = n
        BY <1>1, <2>2, <3>2
      <4> QED
        BY <1>2, <2>2, <3>2, <4>1
    <3> QED
      BY <3>1, <3>2
  <2> QED
    BY <1>1, <2>1, <2>2
<1> QED
  BY <1>1, <1>2, <1>4

\* A run that begins, or is over, or another chain's business: no turn is touched.
LEMMA TurnsSame ==
    ASSUME CallbackInv, NEW r \in RunIds, UNCHANGED <<python, raced, rootRunId, turns>>,
           run' \in [RunIds -> [kind : {"none", "chain", "tool", "llm"}, root : BOOLEAN, phase : Phases]],
           \A q \in RunIds \ {r} : run'[q] = run[q],
           run'[r].phase # "begin", run'[r].phase = "test" => run'[r].kind = "chain",
           started' \subseteq RunIds,
           ~raced => /\ r # rootRunId \/
                          (/\ run'[r].kind = run[r].kind /\ run'[r].root = run[r].root
                           /\ run[r].phase = "runs" /\ run'[r].phase = "failed" /\ python)
                     /\ started' \subseteq started \cup {r}
                     /\ r \in started' =>
                            /\ run'[r].kind = "chain" => rootRunId = r
                            /\ run'[r].phase # "runs" =>
                                   run'[r].phase = "failed" /\ (python \/ run'[r].kind = "llm")
    PROVE  CallbackInv'
<1> USE DEF CallbackInv
<1>1. CallbackTypes'
  BY DEF CallbackTypes
<1>2. ~python => ~raced
  BY DEF ScriptInv
<1>3. ScriptInv'
  BY <1>2 DEF ScriptInv, CallbackTypes
<1>4. ~raced => TurnInv'
  <2> SUFFICES ASSUME ~raced PROVE TurnInv'
    OBVIOUS
  <2>1. LangGraph!Alternates'
    BY DEF TurnInv, LangGraph!Alternates
  <2> QED
    BY <2>1 DEF TurnInv, CallbackTypes
<1>5. ~raced => RunsInv'
  <2> SUFFICES ASSUME ~raced PROVE RunsInv'
    OBVIOUS
  <2> USE DEF RunsInv
  <2>1. \A q \in RunIds : run'[q].phase \in {"test", "begin"} => run'[q].kind = "chain"
    <3>1. \A q \in RunIds \ {r} : run[q].phase \in {"test", "begin"} => run[q].kind = "chain"
      OBVIOUS
    <3> QED
      BY <3>1
  <2>2. \A q \in RunIds : run'[q].phase = "begin" => q # r /\ run'[q] = run[q]
    OBVIOUS
  <2>3. \A q \in RunIds : run'[q].phase = "begin" => rootRunId' = NoRun /\ run'[q].root
    BY <2>2
  <2>4. \A p, q \in RunIds : run'[p].phase = "begin" /\ run'[q].phase = "begin" => p = q
    BY <2>2
  <2>5. ASSUME NEW q \in started'
        PROVE  /\ run'[q].phase # "runs" => run'[q].phase = "failed" /\ (python' \/ run'[q].kind = "llm")
               /\ run'[q].kind = "chain" => rootRunId' = q
    <3>1. CASE q = r
      BY <2>5, <3>1
    <3>2. CASE q # r
      <4>1. q \in started /\ q \in RunIds /\ run'[q] = run[q]
        BY <2>5, <3>2
      <4> QED
        BY <4>1
    <3> QED
      BY <3>1, <3>2
  <2> QED
    BY <2>1, <2>3, <2>4, <2>5
<1> QED
  BY <1>1, <1>3, <1>4, <1>5

LEMMA StartStep ==
    ASSUME CallbackInv, NEW r \in RunIds, NEW root \in BOOLEAN, LangGraph!on_chain_start(r, root)
    PROVE  CallbackInv'
<1>1. run' = [run EXCEPT ![r] = [kind |-> "chain", root |-> root, phase |-> "test"]]
  BY DEF LangGraph!on_chain_start
<1>2. /\ run' \in [RunIds -> [kind : {"none", "chain", "tool", "llm"}, root : BOOLEAN, phase : Phases]]
      /\ run'[r].phase = "test" /\ run'[r].kind = "chain" /\ \A q \in RunIds \ {r} : run'[q] = run[q]
  BY <1>1 DEF CallbackInv, CallbackTypes, Phases
<1>3. ~raced => r # rootRunId /\ r \notin started
  BY RunsAssumption DEF LangGraph!on_chain_start, CallbackInv, TurnInv, RunsInv, CallbackTypes
<1>4. started' \subseteq RunIds /\ started' = started
  BY DEF LangGraph!on_chain_start, CallbackInv, CallbackTypes
<1> QED
  BY <1>2, <1>3, <1>4, TurnsSame DEF LangGraph!on_chain_start

\* The test, and what is then to be done: SetTurn, or nothing.
LEMMA TestStep == ASSUME CallbackInv, NEW r \in RunIds, LangGraph!TestTurn(r) PROVE CallbackInv'
<1>1. run[r].phase = "test" /\ python
  BY DEF LangGraph!TestTurn
<1>2. ~raced => r # rootRunId /\ r \notin started
  BY <1>1, RunsAssumption DEF CallbackInv, TurnInv, RunsInv, CallbackTypes
<1>3. CASE LangGraph!IsTurn(r)
  <2>1. /\ run' \in [RunIds -> [kind : {"none", "chain", "tool", "llm"}, root : BOOLEAN, phase : Phases]]
        /\ run'[r].phase = "begin" /\ run'[r].kind = run[r].kind /\ run'[r].root = run[r].root
        /\ \A q \in RunIds \ {r} : run'[q] = run[q]
    BY <1>3, PhaseIs DEF LangGraph!TestTurn, CallbackInv, Phases
  <2>2. UNCHANGED <<python, started, rootRunId, turns>>
        /\ raced' = (raced \/ \E q \in RunIds : run[q].phase = "begin")
    BY <1>3 DEF LangGraph!TestTurn
  <2>3. CallbackTypes'
    BY <2>1, <2>2 DEF CallbackInv, CallbackTypes
  <2>4. ScriptInv'
    BY <1>1, <2>2 DEF ScriptInv
  <2>5. ~raced' => TurnInv'
    <3> SUFFICES ASSUME ~raced, rootRunId = NoRun PROVE TurnInv'
      BY <1>3, <2>2 DEF LangGraph!IsTurn
    <3>1. LangGraph!Alternates'
      BY <2>2 DEF CallbackInv, TurnInv, LangGraph!Alternates
    <3> QED
      BY <2>2, <3>1 DEF CallbackInv, TurnInv
  <2>6. ~raced' => RunsInv'
    <3> SUFFICES ASSUME ~raced, \A q \in RunIds : run[q].phase # "begin" PROVE RunsInv'
      BY <2>2 DEF CallbackInv, CallbackTypes
    <3>1. run[r].root /\ rootRunId = NoRun
      BY <1>3 DEF LangGraph!IsTurn
    <3>2. run'[r].kind = "chain"
      BY <1>1, <2>1 DEF CallbackInv, RunsInv
    <3>3. \A q \in RunIds : run'[q].phase = "begin" => q = r
      BY <2>1
    <3>4. \A q \in started : run'[q] = run[q] /\ q \in RunIds
      BY <1>2, <2>1 DEF CallbackInv, CallbackTypes
    <3>5. \A q \in RunIds : run'[q].phase \in {"test", "begin"} => run'[q].kind = "chain"
      BY <2>1, <3>2 DEF CallbackInv, RunsInv
    <3>6. \A q \in RunIds : run'[q].phase = "begin" => rootRunId' = NoRun /\ run'[q].root
      BY <2>1, <2>2, <3>1, <3>3
    <3>7. \A q \in started' :
              /\ run'[q].phase # "runs" => run'[q].phase = "failed" /\ (python' \/ run'[q].kind = "llm")
              /\ run'[q].kind = "chain" => rootRunId' = q
      BY <2>2, <3>4 DEF CallbackInv, RunsInv
    <3> QED
      BY <3>3, <3>5, <3>6, <3>7 DEF RunsInv
  <2> QED
    BY <2>3, <2>4, <2>5, <2>6 DEF CallbackInv
<1>4. CASE ~LangGraph!IsTurn(r)
  <2>1. /\ run' \in [RunIds -> [kind : {"none", "chain", "tool", "llm"}, root : BOOLEAN, phase : Phases]]
        /\ run'[r].phase = "runs" /\ \A q \in RunIds \ {r} : run'[q] = run[q]
    BY <1>4, PhaseIs DEF LangGraph!TestTurn, CallbackInv, Phases
  <2>2. UNCHANGED <<python, started, rootRunId, turns, raced>> /\ started' \subseteq RunIds
    BY <1>4 DEF LangGraph!TestTurn, CallbackInv, CallbackTypes
  <2> QED
    BY <1>2, <2>1, <2>2, TurnsSame
<1> QED
  BY <1>3, <1>4

\* A turn begins: in JavaScript with the test, in Python after it.
LEMMA BeginStep ==
    ASSUME CallbackInv, NEW r \in RunIds, LangGraph!BeginTurn(r), run[r].phase \in {"test", "begin"},
           ~raced => /\ run[r].root /\ rootRunId = NoRun
                     /\ \A q \in RunIds \ {r} : run[q].phase # "begin"
    PROVE  CallbackInv'
<1> DEFINE e == LangGraph!Event("started", r)
<1>1. /\ run' \in [RunIds -> [kind : {"none", "chain", "tool", "llm"}, root : BOOLEAN, phase : Phases]]
      /\ run'[r].phase = "runs" /\ run'[r].kind = run[r].kind /\ run'[r].root = run[r].root
      /\ \A q \in RunIds \ {r} : run'[q] = run[q]
  BY PhaseIs DEF LangGraph!BeginTurn, CallbackInv, Phases
<1>2. /\ rootRunId' = r /\ started' = started \cup {r} /\ turns' = Append(turns, e)
      /\ UNCHANGED <<python, raced>>
  BY DEF LangGraph!BeginTurn
<1>3. e \in [type : {"started", "completed"}, run : RunIds] /\ e.type = "started" /\ e.run = r
  BY DEF LangGraph!Event
<1> HIDE DEF e
<1>4. CallbackTypes'
  BY <1>1, <1>2, <1>3, AppendProperties DEF CallbackInv, CallbackTypes
<1>5. ScriptInv'
  BY <1>1, <1>2 DEF CallbackInv, ScriptInv
<1>6. ASSUME ~raced PROVE TurnInv' /\ RunsInv'
  <2>1. run[r].kind = "chain" /\ run[r].root /\ Len(turns) % 2 = 0 /\ rootRunId = NoRun
    BY <1>6 DEF CallbackInv, RunsInv, TurnInv
  <2>2. /\ LangGraph!Alternates' /\ Len(turns') = Len(turns) + 1 /\ Len(turns) \in Nat
        /\ turns'[Len(turns')] = e
    BY <1>2, <1>3, <1>6, <2>1, AlternatesOn DEF CallbackInv, TurnInv
  <2>3. Len(turns') % 2 = 1
    BY <2>1, <2>2
  <2>4. TurnInv'
    BY <1>1, <1>2, <1>3, <2>1, <2>2, <2>3, RunsAssumption DEF TurnInv
  <2>5. \A q \in RunIds : run'[q].phase # "begin"
    BY <1>1, <1>6
  <2>6. \A q \in RunIds : run'[q].phase \in {"test", "begin"} => run'[q].kind = "chain"
    BY <1>1, <1>6 DEF CallbackInv, RunsInv
  <2>7. ASSUME NEW q \in started'
        PROVE  /\ run'[q].phase # "runs" => run'[q].phase = "failed" /\ (python' \/ run'[q].kind = "llm")
               /\ run'[q].kind = "chain" => rootRunId' = q
    <3>1. CASE q = r
      BY <1>1, <1>2, <3>1
    <3>2. CASE q # r
      <4>1. q \in started /\ q \in RunIds /\ run'[q] = run[q] /\ q # NoRun
        BY <1>1, <1>2, <2>7, <3>2, RunsAssumption DEF CallbackInv, CallbackTypes
      <4> QED
        BY <1>2, <1>6, <2>1, <4>1 DEF CallbackInv, RunsInv
    <3> QED
      BY <3>1, <3>2
  <2> QED
    BY <2>4, <2>5, <2>6, <2>7 DEF RunsInv
<1> QED
  BY <1>2, <1>4, <1>5, <1>6 DEF CallbackInv

\* The turn ends with its chain; in Python it may not be forgotten.
LEMMA CloseStep ==
    ASSUME CallbackInv, NEW r \in RunIds, LangGraph!EndsTurn(r), LangGraph!CloseTurn(r),
           LangGraph!Running(r, "chain"), NEW phase \in {"ended", "failed"}, LangGraph!Phase(r, phase),
           phase = "failed" => ~python, UNCHANGED <<python, raced>>
    PROVE  CallbackInv'
<1> DEFINE e == LangGraph!Event("completed", r)
<1>1. /\ run' \in [RunIds -> [kind : {"none", "chain", "tool", "llm"}, root : BOOLEAN, phase : Phases]]
      /\ run'[r].phase = phase /\ run'[r].kind = run[r].kind /\ run'[r].root = run[r].root
      /\ \A q \in RunIds \ {r} : run'[q] = run[q]
  BY PhaseIs DEF CallbackInv, Phases
<1>2. /\ rootRunId' = NoRun \/ (python /\ rootRunId' = rootRunId)
      /\ started' = started \ {r} /\ turns' = Append(turns, e)
  BY DEF LangGraph!CloseTurn
<1>3. e \in [type : {"started", "completed"}, run : RunIds]
  BY DEF LangGraph!Event
<1>4. /\ rootRunId = r /\ run[r].root /\ run[r].kind = "chain" /\ run[r].phase = "runs" /\ r # NoRun
  BY RunsAssumption DEF LangGraph!EndsTurn, LangGraph!Running
<1>5. CallbackTypes'
  BY <1>1, <1>2, <1>3, AppendProperties DEF CallbackInv, CallbackTypes
<1>6. ScriptInv'
  BY <1>1, <1>2 DEF CallbackInv, ScriptInv
<1>7. ASSUME ~raced PROVE TurnInv' /\ RunsInv'
  <2>1. Len(turns) % 2 = 1 /\ turns[Len(turns)].run = r
    BY <1>4, <1>7 DEF CallbackInv, TurnInv
  <2>2. /\ LangGraph!Alternates' /\ Len(turns') = Len(turns) + 1 /\ Len(turns) \in Nat
    BY <1>2, <1>3, <1>7, <2>1, AlternatesOn DEF CallbackInv, TurnInv
  <2>3. Len(turns') % 2 = 0
    BY <2>1, <2>2
  <2>4. TurnInv'
    BY <1>1, <1>2, <1>4, <2>2, <2>3 DEF TurnInv
  <2>5. \A q \in RunIds : run[q].phase # "begin" /\ run'[q].phase # "begin"
    BY <1>1, <1>4, <1>7 DEF CallbackInv, RunsInv
  <2>6. \A q \in RunIds : run'[q].phase \in {"test", "begin"} => run'[q].kind = "chain"
    BY <1>1, <1>7 DEF CallbackInv, RunsInv
  <2>7. ASSUME NEW q \in started'
        PROVE  /\ run'[q].phase # "runs" => run'[q].phase = "failed" /\ (python' \/ run'[q].kind = "llm")
               /\ run'[q].kind = "chain" => rootRunId' = q
    <3>1. q \in started /\ q \in RunIds /\ run'[q] = run[q] /\ q # r
      BY <1>1, <1>2, <2>7 DEF CallbackInv, CallbackTypes
    <3> QED
      BY <1>4, <1>7, <3>1 DEF CallbackInv, RunsInv
  <2> QED
    BY <2>4, <2>5, <2>6, <2>7 DEF RunsInv
<1> QED
  BY <1>5, <1>6, <1>7 DEF CallbackInv

\* Another chain is over.
LEMMA ChainOverStep ==
    ASSUME CallbackInv, NEW r \in RunIds, ~LangGraph!EndsTurn(r), LangGraph!NoTurn,
           LangGraph!Running(r, "chain"), NEW phase \in {"ended", "failed"}, LangGraph!Phase(r, phase),
           UNCHANGED <<python, raced>>
    PROVE  CallbackInv'
<1>1. /\ run' \in [RunIds -> [kind : {"none", "chain", "tool", "llm"}, root : BOOLEAN, phase : Phases]]
      /\ run'[r].phase = phase /\ run'[r].kind = run[r].kind /\ run'[r].root = run[r].root
      /\ \A q \in RunIds \ {r} : run'[q] = run[q]
  BY PhaseIs DEF CallbackInv, Phases
<1>2. ~raced => r # rootRunId
  BY RunsAssumption DEF LangGraph!EndsTurn, CallbackInv, TurnInv
<1>3. ~raced => r \notin started
  BY <1>2 DEF LangGraph!Running, CallbackInv, RunsInv
<1>4. UNCHANGED <<started, rootRunId, turns>> /\ started' \subseteq RunIds
  BY DEF LangGraph!NoTurn, CallbackInv, CallbackTypes
<1> QED
  BY <1>1, <1>2, <1>3, <1>4, TurnsSame

\* Nobody is told in Python that a chain failed.
LEMMA ChainErrorStep == ASSUME CallbackInv, NEW r \in RunIds, LangGraph!ChainError(r) PROVE CallbackInv'
<1>1. /\ run' \in [RunIds -> [kind : {"none", "chain", "tool", "llm"}, root : BOOLEAN, phase : Phases]]
      /\ run'[r].phase = "failed" /\ run'[r].kind = run[r].kind /\ run'[r].root = run[r].root
      /\ \A q \in RunIds \ {r} : run'[q] = run[q]
  BY PhaseIs DEF LangGraph!ChainError, CallbackInv, Phases
<1>2. run[r].phase = "runs" /\ run[r].kind = "chain" /\ python
      /\ UNCHANGED <<python, raced, started, rootRunId, turns>> /\ started' \subseteq RunIds
  BY DEF LangGraph!ChainError, LangGraph!NoTurn, LangGraph!Running, CallbackInv, CallbackTypes
<1>3. ~raced => (r \in started => rootRunId = r)
  BY <1>2 DEF CallbackInv, RunsInv
<1> QED
  BY <1>1, <1>2, <1>3, TurnsSame

\* Tools and models have nothing to do with the turn.
LEMMA BeginsStep ==
    ASSUME CallbackInv, NEW r \in RunIds, NEW kind \in {"tool", "llm"}, LangGraph!Begins(r, kind)
    PROVE  CallbackInv'
<1>1. run' = [run EXCEPT ![r] = [kind |-> kind, root |-> FALSE, phase |-> "runs"]]
      /\ run[r].phase = "new" /\ started' = started \cup {r}
      /\ UNCHANGED <<python, raced, rootRunId, turns>>
  BY DEF LangGraph!Begins
<1>2. /\ run' \in [RunIds -> [kind : {"none", "chain", "tool", "llm"}, root : BOOLEAN, phase : Phases]]
      /\ run'[r].phase = "runs" /\ run'[r].kind = kind /\ \A q \in RunIds \ {r} : run'[q] = run[q]
  BY <1>1 DEF CallbackInv, CallbackTypes, Phases
<1>3. (~raced => r # rootRunId) /\ started' \subseteq RunIds
  BY <1>1, RunsAssumption DEF CallbackInv, CallbackTypes, TurnInv
<1> QED
  BY <1>1, <1>2, <1>3, TurnsSame

LEMMA FinishesStep ==
    ASSUME CallbackInv, NEW r \in RunIds, NEW kind \in {"tool", "llm"}, LangGraph!Running(r, kind),
           NEW phase \in {"ended", "failed"}, LangGraph!Phase(r, phase),
           started' = started \ {r} \/ (kind = "llm" /\ phase = "failed" /\ started' = started),
           UNCHANGED <<python, raced, rootRunId, turns>>
    PROVE  CallbackInv'
<1>1. /\ run' \in [RunIds -> [kind : {"none", "chain", "tool", "llm"}, root : BOOLEAN, phase : Phases]]
      /\ run'[r].phase = phase /\ run'[r].kind = run[r].kind /\ run[r].kind = kind
      /\ \A q \in RunIds \ {r} : run'[q] = run[q]
  BY PhaseIs DEF LangGraph!Running, CallbackInv, Phases
<1>2. (~raced => r # rootRunId) /\ started' \subseteq RunIds /\ started' \subseteq started \cup {r}
  BY <1>1, RunsAssumption DEF CallbackInv, CallbackTypes, TurnInv
<1>3. r \in started' => kind = "llm" /\ phase = "failed"
  OBVIOUS
<1> QED
  BY <1>1, <1>2, <1>3, TurnsSame

LEMMA CallbackStays == ASSUME CallbackInv, UNCHANGED callbackVars PROVE CallbackInv'
BY DEF CallbackInv, CallbackTypes, ScriptInv, TurnInv, RunsInv, LangGraph!Alternates, callbackVars

LEMMA CallbackNext == CallbackInv /\ [LangGraph!Next]_(LangGraph!vars) => CallbackInv'
<1> SUFFICES ASSUME CallbackInv, LangGraph!Next PROVE CallbackInv'
  BY CallbackStays DEF LangGraph!vars, callbackVars
<1>1. PICK r \in RunIds :
         \/ \E root \in BOOLEAN : LangGraph!on_chain_start(r, root)
         \/ LangGraph!TestTurn(r) \/ LangGraph!SetTurn(r) \/ LangGraph!handleChainStart(r)
         \/ LangGraph!on_chain_end(r) \/ LangGraph!handleChainEnd(r)
         \/ LangGraph!handleChainError(r) \/ LangGraph!ChainError(r)
         \/ LangGraph!on_tool_start(r) \/ LangGraph!on_tool_end(r) \/ LangGraph!on_tool_error(r)
         \/ LangGraph!on_llm_start(r) \/ LangGraph!on_llm_end(r)
         \/ LangGraph!handleToolStart(r) \/ LangGraph!handleToolEnd(r) \/ LangGraph!handleToolError(r)
         \/ LangGraph!handleLLMStart(r) \/ LangGraph!handleLLMEnd(r) \/ LangGraph!LLMError(r)
  BY DEF LangGraph!Next
<1>2. CASE \E root \in BOOLEAN : LangGraph!on_chain_start(r, root)
  BY <1>2, StartStep
<1>3. CASE LangGraph!TestTurn(r)
  BY <1>3, TestStep
<1>4. CASE LangGraph!SetTurn(r)
  <2>1. run[r].phase = "begin" /\ LangGraph!BeginTurn(r)
    BY <1>4 DEF LangGraph!SetTurn
  <2>2. ~raced => /\ run[r].root /\ rootRunId = NoRun
                  /\ \A q \in RunIds \ {r} : run[q].phase # "begin"
    BY <2>1 DEF CallbackInv, RunsInv
  <2> QED
    BY <2>1, <2>2, BeginStep
<1>5. CASE LangGraph!handleChainStart(r)
  <2>1. run[r].phase = "test" /\ ~python
    BY <1>5 DEF LangGraph!handleChainStart
  <2>2. CASE LangGraph!IsTurn(r)
    <3>1. LangGraph!BeginTurn(r) /\ run[r].root /\ rootRunId = NoRun
      BY <1>5, <2>2 DEF LangGraph!handleChainStart, LangGraph!IsTurn
    <3>2. \A q \in RunIds \ {r} : run[q].phase # "begin"
      BY <2>1 DEF CallbackInv, ScriptInv
    <3> QED
      BY <2>1, <3>1, <3>2, BeginStep
  <2>3. CASE ~LangGraph!IsTurn(r)
    <3>1. /\ run' \in [RunIds -> [kind : {"none", "chain", "tool", "llm"}, root : BOOLEAN, phase : Phases]]
          /\ run'[r].phase = "runs" /\ \A q \in RunIds \ {r} : run'[q] = run[q]
      BY <1>5, <2>3, PhaseIs DEF LangGraph!handleChainStart, CallbackInv, Phases
    <3>2. UNCHANGED <<python, started, rootRunId, turns, raced>> /\ started' \subseteq RunIds
      BY <1>5, <2>3 DEF LangGraph!handleChainStart, CallbackInv, CallbackTypes
    <3>3. ~raced => r # rootRunId /\ r \notin started
      BY <2>1, RunsAssumption DEF CallbackInv, TurnInv, RunsInv, CallbackTypes
    <3> QED
      BY <3>1, <3>2, <3>3, TurnsSame
  <2> QED
    BY <2>2, <2>3
<1>6. CASE LangGraph!on_chain_end(r) \/ LangGraph!handleChainEnd(r)
  BY <1>6, CloseStep, ChainOverStep DEF LangGraph!on_chain_end, LangGraph!handleChainEnd
<1>7. CASE LangGraph!handleChainError(r)
  BY <1>7, CloseStep, ChainOverStep DEF LangGraph!handleChainError
<1>8. CASE LangGraph!ChainError(r)
  BY <1>8, ChainErrorStep
<1>9. CASE \/ LangGraph!on_tool_start(r) \/ LangGraph!handleToolStart(r)
           \/ LangGraph!on_llm_start(r) \/ LangGraph!handleLLMStart(r)
  BY <1>9, BeginsStep DEF LangGraph!on_tool_start, LangGraph!handleToolStart,
                          LangGraph!on_llm_start, LangGraph!handleLLMStart
<1>10. CASE \/ LangGraph!on_tool_end(r) \/ LangGraph!on_tool_error(r) \/ LangGraph!on_llm_end(r)
            \/ LangGraph!handleToolEnd(r) \/ LangGraph!handleToolError(r) \/ LangGraph!handleLLMEnd(r)
  BY <1>10, FinishesStep DEF LangGraph!on_tool_end, LangGraph!on_tool_error, LangGraph!on_llm_end,
         LangGraph!handleToolEnd, LangGraph!handleToolError, LangGraph!handleLLMEnd, LangGraph!Finishes
<1>11. CASE LangGraph!LLMError(r)
  BY <1>11, FinishesStep DEF LangGraph!LLMError
<1> QED
  BY <1>1, <1>2, <1>3, <1>4, <1>5, <1>6, <1>7, <1>8, <1>9, <1>10, <1>11

\* callback.py and adapter-langgraph: the first root chain becomes the agent's
\* turn.  Unless two threads have found no turn at once, turns do not overlap, each
\* completes at most once, and no run is forgotten among the started ones but
\* those whose failure nobody handles.  In JavaScript the turn that is open is a
\* chain that runs.
THEOREM TurnsAreBracketed == WrappersSpec => []TurnsBracketed
<1>1. CallbackInv => TurnsBracketed
  BY DEF CallbackInv, CallbackTypes, ScriptInv, TurnInv, RunsInv, TurnsBracketed, LangGraph!TurnsBracketed
<1> QED
  BY <1>1, CallbackInit, CallbackNext, WrappersParts, PTL DEF LangGraph!Spec

-----------------------------------------------------------------------------
\* What a wrapper emits when the body is over.

Wraps   == Python \cup TypeScript
Endings == {"return", "Exception", "BaseException"}

LEMMA SomeEnds ==
    ASSUME NEW w \in Wraps
    PROVE  /\ w \in Tools => Ends(w) = {"tool.completed", "tool.failed"} /\ Start(w) = "tool.invoked"
           /\ w \in Agents => Ends(w) = {"agent.turn.completed"} /\ Start(w) = "agent.turn.started"
           /\ w \notin Tools \cup Agents => Ends(w) = {"llm.call.completed"} /\ Start(w) = "llm.call.started"
BY DEF Ends, Start, Tools, Agents, Wraps, Python, TypeScript

EventTypes == {"tool.invoked", "tool.completed", "tool.failed", "agent.turn.started",
               "agent.turn.completed", "llm.call.started", "llm.call.completed"}

\* One event, and a part of one.
LEMMA One ==
    ASSUME NEW S, NEW a \in S
    PROVE  <<a>> \in Seq(S) /\ Len(<<a>>) = 1 /\ <<a>>[1] = a /\ SubSeq(<<a>>, 1, 1) = <<a>>
<1>1. <<a>> \in Seq(S) /\ Len(<<a>>) = 1 /\ <<a>>[1] = a
  OBVIOUS
<1>2. SubSeq(<<a>>, 1, 1) = <<a>>
  BY <1>1, SubSeqFull
<1> QED
  BY <1>1, <1>2

LEMMA FunctionIsSeq ==
    ASSUME NEW S, NEW n \in Nat, NEW s \in [1..n -> S]
    PROVE  s \in Seq(S) /\ Len(s) = n
<1>1. s \in Seq(S)
  BY SeqDef
<1>2. Len(s) \in Nat /\ 1..Len(s) = 1..n
  BY <1>1, LenProperties
<1>3. ASSUME Len(s) # n PROVE FALSE
  <2>1. CASE Len(s) < n
    BY <1>2, <2>1, n \in 1..n <=> n \in 1..Len(s)
  <2>2. CASE Len(s) > n
    BY <1>2, <2>2, Len(s) \in 1..Len(s) <=> Len(s) \in 1..n
  <2> QED
    BY <1>2, <1>3, <2>1, <2>2
<1> QED
  BY <1>1, <1>3

\* An end, and no other behind it.
LEMMA FirstIsEnd ==
    ASSUME NEW w, NEW s \in Seq(EventTypes), Len(s) >= 1, s[1] \in Ends(w),
           \A i \in 2..Len(s) : s[i] \notin Ends(w)
    PROVE  EndsIn(w, s) = {1}
<1>1. Len(s) \in Nat /\ DOMAIN s = 1..Len(s)
  BY LenProperties
<1>2. \A i \in DOMAIN s : i = 1 \/ i \in 2..Len(s)
  BY <1>1
<1> QED
  BY <1>1, <1>2 DEF EndsIn

LEMMA NoEnd == ASSUME NEW w PROVE EndsIn(w, <<>>) = {} /\ <<>> \in Seq(EventTypes)
BY EmptySeq DEF EndsIn

\* llm.call.completed with the tools that the answer asks for, all of it or a part.
LEMMA AuditedAnswer ==
    ASSUME NEW n \in Nat, NEW i \in 1..(n + 1)
    PROVE  LET audit == <<"llm.call.completed">> \o Repeat("tool.invoked", n)
               part_ == SubSeq(audit, 1, i)
           IN  /\ audit \in Seq(EventTypes) /\ Len(audit) = n + 1 /\ audit[1] = "llm.call.completed"
               /\ \A k \in 2..(n + 1) : audit[k] = "tool.invoked"
               /\ part_ \in Seq(EventTypes) /\ Len(part_) = i /\ part_[1] = "llm.call.completed"
               /\ \A k \in 2..i : part_[k] = "tool.invoked"
<1> DEFINE more == Repeat("tool.invoked", n)
           audit == <<"llm.call.completed">> \o more
           head == <<"llm.call.completed">>
<1>1. more \in [1..n -> EventTypes] /\ \A k \in 1..n : more[k] = "tool.invoked"
  BY DEF Repeat, EventTypes
<1>2. more \in Seq(EventTypes) /\ Len(more) = n
  BY <1>1, FunctionIsSeq
<1>3. head \in Seq(EventTypes) /\ Len(head) = 1 /\ head[1] = "llm.call.completed"
  BY One DEF EventTypes
<1> HIDE DEF more, head
<1>4. head \o more \in Seq(EventTypes) /\ Len(head \o more) = n + 1
      /\ (head \o more)[1] = "llm.call.completed" /\ \A k \in 2..(n + 1) : (head \o more)[k] = "tool.invoked"
  <2>1. head \o more \in Seq(EventTypes) /\ Len(head \o more) = n + 1
        /\ \A k \in 1..(n + 1) : (head \o more)[k] = IF k <= 1 THEN head[k] ELSE more[k - 1]
    <3>1. /\ head \o more \in Seq(EventTypes) /\ Len(head \o more) = Len(head) + Len(more)
          /\ \A k \in 1..(Len(head) + Len(more)) :
                 (head \o more)[k] = IF k <= Len(head) THEN head[k] ELSE more[k - Len(head)]
      BY <1>2, <1>3, ConcatProperties
    <3> QED
      BY <1>2, <1>3, <3>1
  <2> QED
    BY <1>1, <1>3, <2>1
<1> DEFINE whole == head \o more
<1> HIDE DEF whole
<1>5. whole \in Seq(EventTypes) /\ Len(whole) = n + 1 /\ whole[1] = "llm.call.completed"
      /\ \A k \in 2..(n + 1) : whole[k] = "tool.invoked"
  BY <1>4 DEF whole
<1>6. \A k \in 1..i : whole[k] \in EventTypes
  BY <1>5, ElementOfSeq
<1>7. SubSeq(whole, 1, i) \in Seq(EventTypes) /\ Len(SubSeq(whole, 1, i)) = i
      /\ \A k \in 1..i : SubSeq(whole, 1, i)[k] = whole[k]
  BY <1>6, SubSeqProperties
<1> QED
  BY <1>5, <1>7 DEF whole, head, more

\* What a wrapper does after the body keeps the account of the call: a call returns
\* only after one end; but for an answer that could not be audited there is no
\* second one; a tool fails as its body does, and is completed only after a return.
Kept(w, end, o) ==
    /\ o.events \in Seq(EventTypes) /\ o.raises \in {"none", "Exception", "BaseException"}
    /\ o.raises = "none" => end = "return" /\ EndsIn(w, o.events) = {1}
    /\ EndsIn(w, o.events) \subseteq {1} \/ (w = "wrapAnthropic" /\ end = "return" /\ o.raises # "none")
    /\ w \in Tools /\ end = "Exception" => EndsIn(w, o.events) = {1} /\ o.events[1] = "tool.failed"
    /\ w \in Tools /\ end # "return" => \A i \in EndsIn(w, o.events) : o.events[i] # "tool.completed"

\* Nothing is emitted, and an exception goes up.
LEMMA KeptNothing ==
    ASSUME NEW w \in Wraps, NEW end \in Endings, NEW o, NEW r \in {"Exception", "BaseException"},
           o = Outcome(<<>>, r), w \in Tools => end # "Exception"
    PROVE  Kept(w, end, o)
<1>1. o.events = <<>> /\ o.raises = r
  BY DEF Outcome
<1> QED
  BY <1>1, NoEnd DEF Kept

\* One end is emitted.
LEMMA KeptOne ==
    ASSUME NEW w \in Wraps, NEW end \in Endings, NEW o, NEW a \in EventTypes \cap Ends(w),
           o.events = <<a>>, o.raises \in {"none", "Exception", "BaseException"},
           o.raises = "none" => end = "return",
           w \in Tools /\ end # "return" => a = "tool.failed"
    PROVE  Kept(w, end, o)
<1>1. <<a>> \in Seq(EventTypes) /\ Len(<<a>>) = 1 /\ <<a>>[1] = a
  BY One
<1>2. EndsIn(w, <<a>>) = {1}
  <2>1. DOMAIN <<a>> = {1}
    OBVIOUS
  <2> QED
    BY <1>1, <2>1 DEF EndsIn
<1> QED
  BY <1>1, <1>2 DEF Kept

LEMMA EmitsOne ==
    ASSUME NEW a \in EventTypes, NEW o \in Emits(<<a>>)
    PROVE  o.events = <<a>> /\ o.raises \in {"none", "Exception"}
<1>1. Len(<<a>>) = 1 /\ SubSeq(<<a>>, 1, 1) = <<a>>
  BY One
<1>2. o = Outcome(<<a>>, "none") \/ \E i \in 1..1 : o = Outcome(SubSeq(<<a>>, 1, i), "Exception")
  BY <1>1 DEF Emits
<1>3. ASSUME NEW i \in 1..1 PROVE SubSeq(<<a>>, 1, i) = <<a>>
  <2>1. i = 1
    OBVIOUS
  <2> QED
    BY <1>1, <2>1
<1>4. o = Outcome(<<a>>, "none") \/ o = Outcome(<<a>>, "Exception")
  BY <1>2, <1>3
<1> QED
  BY <1>4 DEF Outcome

\* The first is the end of the call, and the others are no ends.
LEMMA KeptFirst ==
    ASSUME NEW w \in Wraps \ (Tools \cup Agents), NEW end \in Endings, NEW o,
           o.events \in Seq(EventTypes), Len(o.events) >= 1, o.events[1] = "llm.call.completed",
           \A i \in 2..Len(o.events) : o.events[i] # "llm.call.completed",
           o.raises \in {"none", "Exception", "BaseException"}, o.raises = "none" => end = "return"
    PROVE  Kept(w, end, o)
<1>1. EndsIn(w, o.events) = {1}
  BY SomeEnds, FirstIsEnd
<1> QED
  BY <1>1 DEF Kept

LEMMA KeptTool ==
    ASSUME NEW end \in Endings
    PROVE  /\ \A o \in wrap_tool(end) : Kept("wrap_tool", end, o)
           /\ \A o \in wrapTool(end) : Kept("wrapTool", end, o)
<1>1. /\ {"wrap_tool", "wrapTool"} \subseteq Wraps \cap Tools
      /\ \A w \in {"wrap_tool", "wrapTool"} : {"tool.completed", "tool.failed"} \subseteq EventTypes \cap Ends(w)
  BY SomeEnds DEF Wraps, Python, TypeScript, Tools, EventTypes
<1>2. ASSUME NEW o \in wrap_tool(end) PROVE Kept("wrap_tool", end, o)
  <2>1. CASE end = "return" /\ o \in Unusable
    BY <1>1, <2>1, KeptNothing DEF Unusable
  <2>2. CASE end = "return" /\ o \in Emits(<<"tool.completed">>)
    <3>1. o.events = <<"tool.completed">> /\ o.raises \in {"none", "Exception"}
      BY <1>1, <2>2, EmitsOne
    <3> QED
      BY <1>1, <2>2, <3>1, KeptOne
  <2>3. CASE end = "Exception"
    <3>1. o.events = <<"tool.failed">> /\ o.raises = "Exception"
      BY <1>2, <2>3 DEF wrap_tool, Outcome
    <3> QED
      BY <1>1, <2>3, <3>1, KeptOne
  <2>4. CASE end = "BaseException"
    BY <1>1, <1>2, <2>4, KeptNothing DEF wrap_tool
  <2> QED
    BY <1>2, <2>1, <2>2, <2>3, <2>4 DEF wrap_tool, Endings
<1>3. ASSUME NEW o \in wrapTool(end) PROVE Kept("wrapTool", end, o)
  <2>1. \/ end = "return" /\ o.events = <<"tool.completed">> /\ o.raises = "none"
        \/ end = "return" /\ o.events = <<"tool.failed">> /\ o.raises = "Exception"
        \/ end # "return" /\ o.events = <<"tool.failed">> /\ o.raises = end
    BY <1>3 DEF wrapTool, Outcome
  <2>2. CASE end = "return" /\ o.events = <<"tool.completed">> /\ o.raises = "none"
    BY <1>1, <2>2, KeptOne
  <2>3. CASE o.events = <<"tool.failed">> /\ o.raises \in {"Exception", "BaseException"}
    BY <1>1, <2>3, KeptOne
  <2> QED
    BY <2>1, <2>2, <2>3 DEF Endings
<1> QED
  BY <1>2, <1>3

LEMMA KeptAgent ==
    ASSUME NEW end \in Endings
    PROVE  /\ \A o \in wrap_agent(end) : Kept("wrap_agent", end, o)
           /\ \A o \in wrapAgent(end) : Kept("wrapAgent", end, o)
<1>1. /\ {"wrap_agent", "wrapAgent"} \subseteq Wraps \cap Agents
      /\ \A w \in {"wrap_agent", "wrapAgent"} : w \notin Tools /\ "agent.turn.completed" \in EventTypes \cap Ends(w)
  BY SomeEnds DEF Wraps, Python, TypeScript, Tools, Agents, EventTypes
<1>2. ASSUME NEW o \in wrap_agent(end) PROVE Kept("wrap_agent", end, o)
  <2>1. CASE end = "return"
    <3>1. o.events = <<"agent.turn.completed">> /\ o.raises \in {"none", "Exception"}
      BY <1>1, <1>2, <2>1, EmitsOne DEF wrap_agent
    <3> QED
      BY <1>1, <2>1, <3>1, KeptOne
  <2>2. CASE end # "return"
    BY <1>1, <1>2, <2>2, KeptNothing DEF wrap_agent
  <2> QED
    BY <2>1, <2>2
<1>3. ASSUME NEW o \in wrapAgent(end) PROVE Kept("wrapAgent", end, o)
  <2>1. o.events = <<"agent.turn.completed">> /\ o.raises = IF end = "return" THEN "none" ELSE end
    BY <1>3 DEF wrapAgent, Outcome
  <2>2. o.raises \in {"none", "Exception", "BaseException"} /\ (o.raises = "none" => end = "return")
    BY <2>1 DEF Endings
  <2> QED
    BY <1>1, <2>1, <2>2, KeptOne
<1> QED
  BY <1>2, <1>3

\* The calls of a model, as audited by wrap_anthropic and wrapAnthropic.
LEMMA AuditParts ==
    ASSUME NEW n \in 0..MaxBlocks, NEW o \in Emits(<<"llm.call.completed">> \o Repeat("tool.invoked", n))
    PROVE  /\ o.events \in Seq(EventTypes) /\ Len(o.events) >= 1 /\ o.events[1] = "llm.call.completed"
           /\ \A k \in 2..Len(o.events) : o.events[k] # "llm.call.completed"
           /\ o.raises \in {"none", "Exception"}
<1> DEFINE audit == <<"llm.call.completed">> \o Repeat("tool.invoked", n)
<1>1. n \in Nat /\ 1 \in 1..(n + 1)
  BY WrappersAssumption
<1>2. /\ audit \in Seq(EventTypes) /\ Len(audit) = n + 1 /\ audit[1] = "llm.call.completed"
      /\ \A k \in 2..(n + 1) : audit[k] = "tool.invoked"
  BY <1>1, AuditedAnswer
<1>3. ASSUME NEW i \in 1..(n + 1)
      PROVE  /\ SubSeq(audit, 1, i) \in Seq(EventTypes) /\ Len(SubSeq(audit, 1, i)) = i
             /\ SubSeq(audit, 1, i)[1] = "llm.call.completed"
             /\ \A k \in 2..i : SubSeq(audit, 1, i)[k] = "tool.invoked"
  BY <1>1, AuditedAnswer
<1> HIDE DEF audit
<1>4. o = Outcome(audit, "none") \/ \E i \in 1..(n + 1) : o = Outcome(SubSeq(audit, 1, i), "Exception")
  BY <1>2 DEF Emits, audit
<1>5. CASE o = Outcome(audit, "none")
  BY <1>1, <1>2, <1>5 DEF Outcome
<1>6. ASSUME NEW i \in 1..(n + 1), o = Outcome(SubSeq(audit, 1, i), "Exception")
      PROVE  /\ o.events \in Seq(EventTypes) /\ Len(o.events) >= 1 /\ o.events[1] = "llm.call.completed"
             /\ \A k \in 2..Len(o.events) : o.events[k] # "llm.call.completed"
             /\ o.raises \in {"none", "Exception"}
  <2>1. o.events = SubSeq(audit, 1, i) /\ o.raises = "Exception" /\ i >= 1
    BY <1>1, <1>6 DEF Outcome
  <2> HIDE DEF audit
  <2> QED
    BY <1>3, <2>1
<1> QED
  BY <1>4, <1>5, <1>6

LEMMA Failed ==
    LET failed == <<"llm.call.completed", "tool.failed">>
    IN  /\ failed \in Seq(EventTypes) /\ Len(failed) = 2
        /\ failed[1] = "llm.call.completed" /\ failed[2] = "tool.failed"
BY DEF EventTypes

LEMMA KeptModel ==
    ASSUME NEW end \in Endings
    PROVE  /\ \A w \in {"wrap_llm", "wrap_openai"} : \A o \in wrap_llm(end) : Kept(w, end, o)
           /\ \A o \in wrap_anthropic(end) : Kept("wrap_anthropic", end, o)
           /\ \A o \in wrapLLM(end) : Kept("wrapLLM", end, o)
           /\ \A o \in wrapAnthropic(end) : Kept("wrapAnthropic", end, o)
<1> DEFINE Models == {"wrap_llm", "wrap_openai", "wrap_anthropic", "wrapLLM", "wrapAnthropic"}
<1>1. Models \subseteq Wraps \ (Tools \cup Agents)
  BY DEF Wraps, Python, TypeScript, Tools, Agents
<1>2. \A w \in Models : w \in Wraps /\ w \notin Tools /\ "llm.call.completed" \in EventTypes \cap Ends(w)
  BY <1>1, SomeEnds DEF EventTypes
<1> DEFINE Silent(o) == o = Outcome(<<>>, "Exception") \/ (end # "return" /\ o = Outcome(<<>>, end))
<1>3. ASSUME NEW w \in Models, NEW o, Silent(o) PROVE Kept(w, end, o)
  BY <1>2, <1>3, KeptNothing DEF Endings
<1>4. ASSUME NEW w \in {"wrap_llm", "wrap_openai"}, NEW o \in wrap_llm(end) PROVE Kept(w, end, o)
  <2>1. CASE Silent(o)
    BY <1>3, <2>1
  <2>2. CASE end = "return" /\ o \in Emits(<<"llm.call.completed">>)
    <3>1. o.events = <<"llm.call.completed">> /\ o.raises \in {"none", "Exception"}
      BY <1>2, <2>2, EmitsOne
    <3> QED
      BY <1>2, <2>2, <3>1, KeptOne
  <2> QED
    BY <1>4, <2>1, <2>2 DEF wrap_llm, Unusable
<1>5. ASSUME NEW o \in wrapLLM(end) PROVE Kept("wrapLLM", end, o)
  <2>1. CASE Silent(o)
    BY <1>3, <2>1
  <2>2. CASE end = "return" /\ o = Outcome(<<"llm.call.completed">>, "none")
    <3>1. o.events = <<"llm.call.completed">> /\ o.raises = "none"
      BY <2>2 DEF Outcome
    <3> QED
      BY <1>2, <2>2, <3>1, KeptOne
  <2> QED
    BY <1>5, <2>1, <2>2 DEF wrapLLM, Unusable
<1>6. ASSUME NEW o \in wrap_anthropic(end) PROVE Kept("wrap_anthropic", end, o)
  <2>1. CASE Silent(o)
    BY <1>3, <2>1
  <2>2. ASSUME end = "return", NEW n \in 0..MaxBlocks,
               o \in Emits(<<"llm.call.completed">> \o Repeat("tool.invoked", n))
        PROVE  Kept("wrap_anthropic", end, o)
    BY <1>1, <2>2, AuditParts, KeptFirst
  <2> QED
    BY <1>6, <2>1, <2>2 DEF wrap_anthropic, Unusable, audit_messages_response
<1>7. ASSUME NEW o \in wrapAnthropic(end) PROVE Kept("wrapAnthropic", end, o)
  <2> DEFINE failed == <<"llm.call.completed", "tool.failed">>
             audit(n) == <<"llm.call.completed">> \o Repeat("tool.invoked", n)
  <2>1. \/ \E n \in 0..MaxBlocks : end = "return" /\ o = Outcome(audit(n), "none")
        \/ o = Outcome(failed, "Exception") \/ (end # "return" /\ o = Outcome(failed, end))
        \/ \E n \in 0..(MaxBlocks - 1) : end = "return" /\ o = Outcome(audit(n) \o failed, "Exception")
    BY <1>7 DEF wrapAnthropic
  <2>2. ASSUME NEW n \in 0..MaxBlocks, end = "return", o = Outcome(audit(n), "none")
        PROVE  Kept("wrapAnthropic", end, o)
    <3>1. o \in Emits(audit(n)) /\ o.raises = "none"
      BY <2>2 DEF Emits, Outcome
    <3> QED
      BY <1>1, <2>2, <3>1, AuditParts, KeptFirst
  <2>3. CASE o = Outcome(failed, "Exception") \/ (end # "return" /\ o = Outcome(failed, end))
    <3>1. o.events = failed /\ o.raises \in {"Exception", "BaseException"}
      BY <2>3 DEF Outcome, Endings
    <3>2. /\ o.events \in Seq(EventTypes) /\ Len(o.events) >= 1 /\ o.events[1] = "llm.call.completed"
          /\ \A k \in 2..Len(o.events) : o.events[k] # "llm.call.completed"
      BY <3>1, Failed
    <3>3. "wrapAnthropic" \in Wraps \ (Tools \cup Agents)
      BY <1>1
    <3> QED
      BY <3>1, <3>2, <3>3, KeptFirst
  <2>4. ASSUME NEW n \in 0..(MaxBlocks - 1), end = "return", o = Outcome(audit(n) \o failed, "Exception")
        PROVE  Kept("wrapAnthropic", end, o)
    <3>1. o.events = audit(n) \o failed /\ o.raises = "Exception"
      BY <2>4 DEF Outcome
    <3>2. n \in Nat /\ 1 \in 1..(n + 1)
      BY WrappersAssumption
    <3>3. audit(n) \in Seq(EventTypes)
      BY <3>2, AuditedAnswer
    <3>4. audit(n) \o failed \in Seq(EventTypes)
      BY <3>3, Failed, ConcatProperties
    <3> QED
      BY <1>2, <2>4, <3>1, <3>4 DEF Kept
  <2> QED
    BY <2>1, <2>2, <2>3, <2>4
<1> QED
  BY <1>4, <1>5, <1>6, <1>7

LEMMA AfterKept ==
    ASSUME NEW w \in Wraps, NEW end \in Endings, NEW o \in After(w, end)
    PROVE  Kept(w, end, o)
BY KeptTool, KeptAgent, KeptModel DEF After, Wraps, Python, TypeScript, wrap_openai

-----------------------------------------------------------------------------
\* The calls, and how they nest.

CallType == [wrapper : Wraps \cup {"assistants"}, events : Seq(EventTypes),
             body : Endings \cup {"open"}, left : {"no", "returned", "raised"}]

\* A call is accounted for at every moment; one that is still under way has emitted
\* its start alone.
CallInv(c) ==
    /\ c.wrapper # "assistants" => c \in CallType /\ Accounted(c)
    /\ c.left = "no" =>
           c.wrapper # "assistants" /\ c.body = "open" /\ c.events = <<Start(c.wrapper)>>

\* A call that is under way is in one body of one thread: who leaves a body ends no
\* other call.
NestInv ==
    /\ raising \in [Threads -> {"none", "Exception", "BaseException"}]
    /\ stack \in [Threads -> Seq(Nat)]
    /\ \A t \in Threads : \A k \in 1..Len(stack[t]) :
           stack[t][k] \in 1..Len(calls) /\ calls[stack[t][k]].left = "no"
    /\ \A t, u \in Threads : \A k \in 1..Len(stack[t]), m \in 1..Len(stack[u]) :
           stack[t][k] = stack[u][m] => t = u /\ k = m

CallsInv ==
    /\ \E S : calls \in Seq(S)
    /\ \A i \in 1..Len(calls) : CallInv(calls[i])

\* No wrapper's start is an end of its own.
LEMMA StartIsNoEnd ==
    ASSUME NEW w \in Wraps
    PROVE  /\ <<Start(w)>> \in Seq(EventTypes) /\ Len(<<Start(w)>>) = 1 /\ <<Start(w)>>[1] = Start(w)
           /\ Start(w) \notin Ends(w) /\ EndsIn(w, <<Start(w)>>) = {}
<1>1. Start(w) \in EventTypes /\ Start(w) \notin Ends(w)
  BY SomeEnds DEF EventTypes, Tools, Agents
<1>2. DOMAIN <<Start(w)>> = {1}
  OBVIOUS
<1>3. <<Start(w)>> \in Seq(EventTypes) /\ Len(<<Start(w)>>) = 1 /\ <<Start(w)>>[1] = Start(w)
  BY <1>1, One
<1> QED
  BY <1>1, <1>2, <1>3 DEF EndsIn

\* A call that begins: it enters its body, or is out again.
LEMMA BegunCall ==
    ASSUME NEW w \in Wraps, NEW started_ \in {<<>>, <<Start(w)>>}, NEW left \in {"no", "raised"},
           left = "no" => started_ = <<Start(w)>>
    PROVE  CallInv([wrapper |-> w, events |-> started_, body |-> "open", left |-> left])
<1> DEFINE c == [wrapper |-> w, events |-> started_, body |-> "open", left |-> left]
<1>1. c \in CallType /\ w # "assistants"
  BY StartIsNoEnd, NoEnd DEF CallType, Wraps, Python, TypeScript
<1>2. EndsAt(c) = {}
  BY StartIsNoEnd, NoEnd DEF EndsAt
<1>3. Accounted(c)
  <2>1. c.left # "returned" /\ c.body = "open"
    OBVIOUS
  <2>2. ~(Cardinality(EndsAt(c)) > 1) /\ \A e : ~OneEnd(c, e)
    <3>1. Cardinality(EndsAt(c)) = 0
      BY <1>2, FS_EmptySet, Zenon
    <3>2. \A e : ~OneEnd(c, e)
      BY <1>2 DEF OneEnd
    <3> QED
      BY <3>1, <3>2
  <2> QED
    BY <1>2, <2>1, <2>2 DEF Accounted
<1> QED
  BY <1>1, <1>3 DEF CallInv

\* The ends that are added to a call under way are its only ends.
LEMMA EndsMove ==
    ASSUME NEW w \in Wraps, NEW s \in Seq(EventTypes)
    PROVE  LET all == <<Start(w)>> \o s
           IN  /\ all \in Seq(EventTypes) /\ all[1] = Start(w)
               /\ EndsIn(w, s) = {} => EndsIn(w, all) = {}
               /\ EndsIn(w, s) = {1} => EndsIn(w, all) = {2} /\ all[2] = s[1]
<1> DEFINE all == <<Start(w)>> \o s
<1>1. Len(s) \in Nat /\ DOMAIN s = 1..Len(s)
  BY LenProperties
<1>2. all \in Seq(EventTypes) /\ Len(all) = Len(s) + 1
      /\ \A i \in 1..(Len(s) + 1) : all[i] = IF i <= 1 THEN <<Start(w)>>[i] ELSE s[i - 1]
  <2>1. /\ all \in Seq(EventTypes) /\ Len(all) = Len(<<Start(w)>>) + Len(s)
        /\ \A i \in 1..(Len(<<Start(w)>>) + Len(s)) :
               all[i] = IF i <= Len(<<Start(w)>>) THEN <<Start(w)>>[i] ELSE s[i - Len(<<Start(w)>>)]
    BY StartIsNoEnd, ConcatProperties
  <2> HIDE DEF all
  <2> QED
    BY <1>1, <2>1, StartIsNoEnd
<1> HIDE DEF all
<1>3. DOMAIN all = 1..(Len(s) + 1)
  BY <1>2, LenProperties
<1>4. all[1] = Start(w) /\ all[1] \notin Ends(w) /\ \A i \in 2..(Len(s) + 1) : all[i] = s[i - 1] /\ i - 1 \in 1..Len(s)
  <2>1. all[1] = Start(w) /\ all[1] \notin Ends(w)
    <3>1. 1 \in 1..(Len(s) + 1)
      BY <1>1
    <3>2. all[1] = <<Start(w)>>[1]
      BY <1>2, <3>1
    <3> QED
      BY <3>2, StartIsNoEnd
  <2>2. ASSUME NEW i \in 2..(Len(s) + 1) PROVE all[i] = s[i - 1] /\ i - 1 \in 1..Len(s)
    BY <1>1, <1>2
  <2> QED
    BY <2>1, <2>2
<1>5. \A i \in EndsIn(w, all) : i - 1 \in EndsIn(w, s) /\ i \in Nat
  BY <1>1, <1>3, <1>4 DEF EndsIn
<1>6. 1 \in EndsIn(w, s) => 2 \in EndsIn(w, all) /\ all[2] = s[1]
  BY <1>1, <1>3, <1>4 DEF EndsIn
<1>7. EndsIn(w, s) = {} => EndsIn(w, all) = {}
  BY <1>5
<1>8. EndsIn(w, s) = {1} => EndsIn(w, all) = {2} /\ all[2] = s[1]
  BY <1>5, <1>6
<1> QED
  BY <1>2, <1>4, <1>7, <1>8 DEF all

LEMMA EndedCall ==
    ASSUME NEW c, CallInv(c), c.left = "no", NEW end \in Endings, NEW o, Kept(c.wrapper, end, o),
           NEW d, d = [c EXCEPT !.events = @ \o o.events, !.body = end,
                                !.left = IF o.raises = "none" THEN "returned" ELSE "raised"]
    PROVE  CallInv(d) /\ d.left # "no"
<1> DEFINE w == c.wrapper
<1>1. c \in CallType /\ w # "assistants" /\ c.events = <<Start(w)>>
  BY DEF CallInv
<1>2. w \in Wraps /\ o.events \in Seq(EventTypes)
  BY <1>1 DEF CallType, Kept
<1>3. /\ d.wrapper = w /\ d.events = <<Start(w)>> \o o.events /\ d.body = end
      /\ d.left = IF o.raises = "none" THEN "returned" ELSE "raised"
      /\ d \in CallType
  <2>1. <<Start(w)>> \o o.events \in Seq(EventTypes)
    BY <1>2, EndsMove
  <2> QED
    BY <1>1, <2>1 DEF CallType
<1>4. EndsAt(d) = EndsIn(w, <<Start(w)>> \o o.events)
  BY <1>3 DEF EndsAt
<1> HIDE DEF w
<1>5. CASE EndsIn(w, o.events) = {1}
  <2>1. EndsAt(d) = {2} /\ d.events[1] = Start(w) /\ d.events[2] = o.events[1]
    <3>1. EndsIn(w, <<Start(w)>> \o o.events) = {2} /\ (<<Start(w)>> \o o.events)[1] = Start(w)
          /\ (<<Start(w)>> \o o.events)[2] = o.events[1]
      BY <1>2, <1>5, EndsMove
    <3> QED
      BY <1>3, <1>4, <3>1
  <2>2. Cardinality(EndsAt(d)) = 1
    BY <2>1, FS_Singleton
  <2>3. \A e : OneEnd(d, e) <=> o.events[1] = e
    BY <2>1 DEF OneEnd
  <2>4. o.raises = "none" => end = "return"
    BY DEF Kept, w
  <2>5. w \in Tools => /\ end = "Exception" => o.events[1] = "tool.failed"
                       /\ o.events[1] = "tool.completed" => end = "return"
    BY <1>5 DEF Kept, w
  <2>6. Accounted(d)
    <3>1. ~(Cardinality(EndsAt(d)) > 1) /\ d.body # "open"
      BY <1>3, <2>2 DEF Endings
    <3>2. d.left = "returned" =>
              d.body = "return" /\ d.events[1] = Start(d.wrapper) /\ Cardinality(EndsAt(d)) = 1
      <4>1. d.left = "returned" => o.raises = "none"
        BY <1>3
      <4> QED
        BY <1>3, <2>1, <2>2, <2>4, <4>1
    <3> QED
      BY <1>3, <2>3, <2>5, <3>1, <3>2 DEF Accounted
  <2> QED
    BY <1>1, <1>3, <2>6 DEF CallInv
<1>6. CASE EndsIn(w, o.events) = {}
  <2>1. EndsAt(d) = {} /\ Cardinality(EndsAt(d)) = 0
    BY <1>2, <1>3, <1>4, <1>6, EndsMove, FS_EmptySet
  <2>2. o.raises # "none" /\ (w \in Tools => end # "Exception")
    BY <1>6 DEF Kept, w
  <2>3. Accounted(d)
    <3>1. ~(Cardinality(EndsAt(d)) > 1) /\ d.body # "open" /\ \A e : ~OneEnd(d, e)
      <4>1. \A e : ~OneEnd(d, e)
        BY <2>1 DEF OneEnd
      <4> QED
        BY <1>3, <2>1, <4>1 DEF Endings
    <3> QED
      BY <1>3, <2>2, <3>1 DEF Accounted
  <2> QED
    BY <1>1, <1>3, <2>3 DEF CallInv
<1>7. CASE w = "wrapAnthropic" /\ end = "return" /\ o.raises # "none"
  <2>1. w \notin Tools
    BY <1>7 DEF Tools
  <2>2. Accounted(d)
    BY <1>3, <1>7, <2>1 DEF Accounted
  <2> QED
    BY <1>1, <1>3, <2>2 DEF CallInv
<1> QED
  BY <1>5, <1>6, <1>7, <1>3 DEF Kept, w

-----------------------------------------------------------------------------
\* The steps of the threads.

LEMMA CallsLen == ASSUME CallsInv PROVE Len(calls) \in Nat /\ DOMAIN calls = 1..Len(calls)
BY LenProperties DEF CallsInv

LEMMA StackLen == ASSUME NestInv, NEW t \in Threads PROVE Len(stack[t]) \in Nat /\ stack[t] \in Seq(Nat)
BY LenProperties DEF NestInv

LEMMA CallsInit == Init => CallsInv /\ NestInv
<1> SUFFICES ASSUME Init PROVE CallsInv /\ NestInv
  OBVIOUS
<1>1. calls = <<>> /\ Len(calls) = 0 /\ calls \in Seq({})
  BY EmptySeq DEF Init
<1>2. \A t \in Threads : stack[t] = <<>> /\ Len(stack[t]) = 0 /\ stack[t] \in Seq(Nat)
  BY EmptySeq DEF Init
<1>3. stack \in [Threads -> Seq(Nat)] /\ raising \in [Threads -> {"none", "Exception", "BaseException"}]
  BY <1>2 DEF Init
<1>4. CallsInv
  BY <1>1 DEF CallsInv
<1> QED
  BY <1>2, <1>3, <1>4 DEF NestInv

\* One more call; the others are as they were.
LEMMA CallsGrow ==
    ASSUME CallsInv, NEW c, CallInv(c), calls' = Append(calls, c)
    PROVE  /\ CallsInv' /\ Len(calls') = Len(calls) + 1 /\ calls'[Len(calls) + 1] = c
           /\ \A i \in 1..Len(calls) : calls'[i] = calls[i]
<1>1. PICK S : calls \in Seq(S)
  BY DEF CallsInv
<1> DEFINE T == S \cup {c}
<1>2. calls \in Seq(T) /\ c \in T /\ Len(calls) \in Nat
  BY <1>1, SeqMonotonic, CallsLen
<1> HIDE DEF T
<1>3. /\ calls' \in Seq(T) /\ Len(calls') = Len(calls) + 1 /\ calls'[Len(calls) + 1] = c
      /\ \A i \in 1..Len(calls) : calls'[i] = calls[i]
  BY <1>2, AppendProperties
<1>4. ASSUME NEW i \in 1..Len(calls') PROVE CallInv(calls'[i])
  <2>1. i \in 1..Len(calls) \/ i = Len(calls) + 1
    BY <1>2, <1>3
  <2> QED
    BY <1>3, <2>1 DEF CallsInv
<1> QED
  BY <1>3, <1>4 DEF CallsInv

\* A call under way keeps its place when another begins elsewhere.
LEMMA NestSame ==
    ASSUME CallsInv, NestInv, stack' = stack, Len(calls') >= Len(calls), Len(calls') \in Nat,
           \A i \in 1..Len(calls) : calls'[i] = calls[i],
           raising' \in [Threads -> {"none", "Exception", "BaseException"}]
    PROVE  NestInv'
<1>1. Len(calls) \in Nat
  BY CallsLen
<1>2. ASSUME NEW t \in Threads, NEW k \in 1..Len(stack[t])
      PROVE  stack[t][k] \in 1..Len(calls') /\ calls'[stack[t][k]].left = "no"
  <2>1. stack[t][k] \in 1..Len(calls) /\ calls[stack[t][k]].left = "no"
    BY DEF NestInv
  <2> QED
    BY <1>1, <2>1
<1> QED
  BY <1>2 DEF NestInv

LEMMA RaisingType ==
    ASSUME NestInv, NEW t \in Threads, NEW e \in {"none", "Exception", "BaseException"},
           raising' = [raising EXCEPT ![t] = e]
    PROVE  raising' \in [Threads -> {"none", "Exception", "BaseException"}]
BY DEF NestInv

LEMMA EnterStep == ASSUME CallsInv, NestInv, NEW t \in Threads, Enter(t) PROVE CallsInv' /\ NestInv'
<1> DEFINE n == Len(calls)
<1>1. PICK w \in Wraps :
         LET Begun(some, left) ==
                 calls' = Append(calls, [wrapper |-> w, events |-> some, body |-> "open", left |-> left])
         IN  \/ /\ Begun(<<Start(w)>>, "no") /\ UNCHANGED raising
                /\ stack' = [stack EXCEPT ![t] = Append(@, n + 1)]
             \/ /\ Begun(<<>>, "raised") \/ Begun(<<Start(w)>>, "raised")
                /\ raising' = [raising EXCEPT ![t] = "Exception"] /\ UNCHANGED stack
  BY DEF Enter, Wraps
<1>2. n \in Nat
  BY CallsLen
<1>3. ASSUME NEW some \in {<<>>, <<Start(w)>>},
             calls' = Append(calls, [wrapper |-> w, events |-> some, body |-> "open", left |-> "raised"]),
             raising' = [raising EXCEPT ![t] = "Exception"], UNCHANGED stack
      PROVE  CallsInv' /\ NestInv'
  <2> DEFINE c == [wrapper |-> w, events |-> some, body |-> "open", left |-> "raised"]
  <2>1. CallInv(c)
    BY BegunCall
  <2> HIDE DEF c
  <2>2. /\ CallsInv' /\ Len(calls') = n + 1 /\ \A i \in 1..n : calls'[i] = calls[i]
    BY <1>3, <2>1, CallsGrow DEF c
  <2>3. raising' \in [Threads -> {"none", "Exception", "BaseException"}]
    BY <1>3, RaisingType
  <2> QED
    BY <1>2, <1>3, <2>2, <2>3, NestSame
<1>4. ASSUME calls' = Append(calls, [wrapper |-> w, events |-> <<Start(w)>>, body |-> "open", left |-> "no"]),
             stack' = [stack EXCEPT ![t] = Append(@, n + 1)], UNCHANGED raising
      PROVE  CallsInv' /\ NestInv'
  <2> DEFINE c == [wrapper |-> w, events |-> <<Start(w)>>, body |-> "open", left |-> "no"]
  <2>1. CallInv(c) /\ c.left = "no"
    BY BegunCall
  <2> HIDE DEF c
  <2>2. /\ CallsInv' /\ Len(calls') = n + 1 /\ calls'[n + 1] = c /\ \A i \in 1..n : calls'[i] = calls[i]
    BY <1>4, <2>1, CallsGrow DEF c
  <2>3. stack[t] \in Seq(Nat) /\ Len(stack[t]) \in Nat
    BY StackLen
  <2>4. /\ stack'[t] = Append(stack[t], n + 1) /\ stack'[t] \in Seq(Nat)
        /\ Len(stack'[t]) = Len(stack[t]) + 1 /\ stack'[t][Len(stack[t]) + 1] = n + 1
        /\ \A k \in 1..Len(stack[t]) : stack'[t][k] = stack[t][k]
    BY <1>2, <1>4, <2>3, AppendProperties DEF NestInv
  <2>5. \A u \in Threads \ {t} : stack'[u] = stack[u]
    BY <1>4 DEF NestInv
  <2>6. \A u \in Threads : \A k \in 1..Len(stack'[u]) :
            \/ k \in 1..Len(stack[u]) /\ stack'[u][k] = stack[u][k] /\ stack[u][k] \in 1..n
            \/ u = t /\ k = Len(stack[t]) + 1 /\ stack'[u][k] = n + 1
    <3> TAKE u \in Threads
    <3> TAKE k \in 1..Len(stack'[u])
    <3>1. CASE u = t
      <4>1. k \in 1..Len(stack[t]) \/ k = Len(stack[t]) + 1
        BY <2>3, <2>4, <3>1
      <4> QED
        BY <2>4, <3>1, <4>1 DEF NestInv
    <3>2. CASE u # t
      BY <2>5, <3>2 DEF NestInv
    <3> QED
      BY <3>1, <3>2
  <2>7. stack' \in [Threads -> Seq(Nat)]
    BY <1>4, <2>4, <2>5 DEF NestInv
  <2>8. ASSUME NEW u \in Threads, NEW k \in 1..Len(stack'[u])
        PROVE  stack'[u][k] \in 1..Len(calls') /\ calls'[stack'[u][k]].left = "no"
    <3>1. CASE k \in 1..Len(stack[u]) /\ stack'[u][k] = stack[u][k] /\ stack[u][k] \in 1..n
      <4>1. calls[stack[u][k]].left = "no"
        BY <3>1 DEF NestInv
      <4> QED
        BY <1>2, <2>2, <3>1, <4>1
    <3>2. CASE stack'[u][k] = n + 1
      BY <1>2, <2>1, <2>2, <3>2
    <3> QED
      BY <2>6, <3>1, <3>2
  <2>9. ASSUME NEW u \in Threads, NEW v \in Threads, NEW k \in 1..Len(stack'[u]), NEW m \in 1..Len(stack'[v]),
               stack'[u][k] = stack'[v][m]
        PROVE  u = v /\ k = m
    <3>1. n + 1 \notin 1..n
      BY <1>2
    <3>2. CASE stack'[u][k] = n + 1
      <4>1. u = t /\ k = Len(stack[t]) + 1
        BY <2>6, <3>1, <3>2
      <4>2. v = t /\ m = Len(stack[t]) + 1
        BY <2>6, <2>9, <3>1, <3>2
      <4> QED
        BY <4>1, <4>2
    <3>3. CASE stack'[u][k] # n + 1
      <4>1. k \in 1..Len(stack[u]) /\ stack'[u][k] = stack[u][k]
        BY <2>6, <3>3
      <4>2. m \in 1..Len(stack[v]) /\ stack'[v][m] = stack[v][m]
        BY <2>6, <2>9, <3>3
      <4>3. stack[u][k] = stack[v][m]
        BY <2>9, <4>1, <4>2
      <4> QED
        BY <4>1, <4>2, <4>3 DEF NestInv
    <3> QED
      BY <3>2, <3>3
  <2> QED
    BY <1>4, <2>2, <2>7, <2>8, <2>9 DEF NestInv
<1> QED
  BY <1>1, <1>3, <1>4

\* The innermost call is over: it alone changes, and its thread is in its body no more.
LEMMA LeaveStep ==
    ASSUME CallsInv, NestInv, NEW t \in Threads, NEW end \in Endings, Leave(t, end)
    PROVE  CallsInv' /\ NestInv'
<1> DEFINE n == Len(stack[t])
           i == stack[t][n]
<1>1. stack[t] \in Seq(Nat) /\ n \in Nat /\ n \in 1..n /\ n - 1 \in Nat
  <2>1. stack[t] \in Seq(Nat) /\ stack[t] # <<>>
    BY StackLen DEF Leave
  <2>2. n \in Nat \ {0}
    BY <2>1, EmptySeq
  <2> QED
    BY <2>1, <2>2
<1>2. i \in 1..Len(calls) /\ calls[i].left = "no" /\ CallInv(calls[i])
  BY <1>1 DEF NestInv, CallsInv
<1>3. Len(calls) \in Nat /\ DOMAIN calls = 1..Len(calls)
  BY CallsLen
<1>4. PICK o \in After(calls[i].wrapper, end) :
         /\ calls' = [calls EXCEPT ![i].events = @ \o o.events, ![i].body = end,
                                   ![i].left = IF o.raises = "none" THEN "returned" ELSE "raised"]
         /\ raising' = [raising EXCEPT ![t] = o.raises]
  BY DEF Leave, Top
<1> DEFINE c == calls[i]
           d == [c EXCEPT !.events = @ \o o.events, !.body = end,
                          !.left = IF o.raises = "none" THEN "returned" ELSE "raised"]
<1>5. c.wrapper \in Wraps
  BY <1>2 DEF CallInv, CallType
<1>6. Kept(c.wrapper, end, o)
  BY <1>4, <1>5, AfterKept
<1>7. CallInv(d)
  BY <1>2, <1>6, EndedCall
<1>8. calls' = [calls EXCEPT ![i] = d]
  BY <1>2, <1>3, <1>4
<1> HIDE DEF d, c
<1>9. stack' = [stack EXCEPT ![t] = SubSeq(@, 1, n - 1)]
  BY DEF Leave
<1> HIDE DEF i
<1>10. /\ CallsInv' /\ Len(calls') = Len(calls) /\ \A j \in 1..Len(calls) : j # i => calls'[j] = calls[j]
  <2>1. PICK S : calls \in Seq(S)
    BY DEF CallsInv
  <2> DEFINE T == S \cup {d}
  <2>2. calls \in Seq(T) /\ d \in T
    BY <2>1, SeqMonotonic
  <2> HIDE DEF T
  <2>3. /\ calls' \in Seq(T) /\ Len(calls') = Len(calls)
        /\ \A j \in 1..Len(calls) : calls'[j] = IF j = i THEN d ELSE calls[j]
    BY <1>2, <1>8, <2>2, ExceptSeq
  <2>4. \A j \in 1..Len(calls') : CallInv(calls'[j])
    BY <1>7, <2>3 DEF CallsInv
  <2> QED
    BY <2>3, <2>4 DEF CallsInv
<1>11. /\ stack' \in [Threads -> Seq(Nat)]
       /\ \A u \in Threads : Len(stack'[u]) = IF u = t THEN n - 1 ELSE Len(stack[u])
       /\ \A u \in Threads : \A k \in 1..Len(stack'[u]) :
              k \in 1..Len(stack[u]) /\ stack'[u][k] = stack[u][k]
  <2> DEFINE rest == SubSeq(stack[t], 1, n - 1)
  <2>1. \A k \in 1..(n - 1) : k \in 1..n /\ stack[t][k] \in Nat
    BY <1>1, ElementOfSeq
  <2>2. rest \in Seq(Nat) /\ Len(rest) = n - 1 /\ \A k \in 1..(n - 1) : rest[k] = stack[t][k]
    BY <1>1, <2>1, SubSeqProperties
  <2> HIDE DEF rest
  <2>3. stack' = [stack EXCEPT ![t] = rest]
    BY <1>9 DEF rest
  <2>4. stack' \in [Threads -> Seq(Nat)] /\ stack'[t] = rest /\ \A u \in Threads \ {t} : stack'[u] = stack[u]
    BY <2>2, <2>3 DEF NestInv
  <2> QED
    BY <2>1, <2>2, <2>4
<1>12. ASSUME NEW u \in Threads, NEW k \in 1..Len(stack'[u])
       PROVE  stack'[u][k] \in 1..Len(calls') /\ calls'[stack'[u][k]].left = "no"
  <2>1. k \in 1..Len(stack[u]) /\ stack'[u][k] = stack[u][k]
    BY <1>11
  <2>2. stack[u][k] \in 1..Len(calls) /\ calls[stack[u][k]].left = "no"
    BY <2>1 DEF NestInv
  <2>3. stack[u][k] # i
    <3>1. CASE u = t
      <4>1. k # n
        BY <1>1, <1>11, <3>1
      <4> QED
        BY <1>1, <2>1, <3>1, <4>1 DEF NestInv, i
    <3>2. CASE u # t
      BY <1>1, <2>1, <3>2 DEF NestInv, i
    <3> QED
      BY <3>1, <3>2
  <2> QED
    BY <1>10, <2>1, <2>2, <2>3
<1>13. ASSUME NEW u \in Threads, NEW v \in Threads, NEW k \in 1..Len(stack'[u]), NEW m \in 1..Len(stack'[v]),
              stack'[u][k] = stack'[v][m]
       PROVE  u = v /\ k = m
  BY <1>11, <1>13 DEF NestInv
<1>14. raising' \in [Threads -> {"none", "Exception", "BaseException"}]
  BY <1>4, <1>6, RaisingType DEF Kept
<1> QED
  BY <1>10, <1>11, <1>12, <1>13, <1>14 DEF NestInv

\* The account of a run of the Assistants API is no call of the application.
LEMMA AuditRunStep == ASSUME CallsInv, NestInv, NEW t \in Threads, AuditRun(t) PROVE CallsInv' /\ NestInv'
<1>1. PICK o \in audit_assistants_run \cup auditAssistantsRun :
         /\ calls' = Append(calls, [wrapper |-> "assistants", events |-> o.events, body |-> "return",
                                    left |-> IF o.raises = "none" THEN "returned" ELSE "raised"])
         /\ raising' = [raising EXCEPT ![t] = o.raises]
  BY DEF AuditRun
<1>2. o.raises \in {"none", "Exception"}
  BY DEF audit_assistants_run, auditAssistantsRun, Emits, Outcome
<1> DEFINE c == [wrapper |-> "assistants", events |-> o.events, body |-> "return",
                 left |-> IF o.raises = "none" THEN "returned" ELSE "raised"]
<1>3. CallInv(c)
  BY DEF CallInv
<1> HIDE DEF c
<1>4. CallsInv' /\ Len(calls') = Len(calls) + 1 /\ \A i \in 1..Len(calls) : calls'[i] = calls[i]
  BY <1>1, <1>3, CallsGrow DEF c
<1>5. raising' \in [Threads -> {"none", "Exception", "BaseException"}] /\ stack' = stack
  BY <1>1, <1>2, RaisingType DEF AuditRun
<1> QED
  BY <1>4, <1>5, CallsLen, NestSame

LEMMA CallsSame ==
    ASSUME CallsInv, NestInv, UNCHANGED <<calls, stack>>,
           raising' \in [Threads -> {"none", "Exception", "BaseException"}]
    PROVE  CallsInv' /\ NestInv'
<1>1. CallsInv'
  BY DEF CallsInv
<1> QED
  BY <1>1, CallsLen, NestSame

LEMMA CallsStep == CallsInv /\ NestInv /\ [Next]_vars => CallsInv' /\ NestInv'
<1> SUFFICES ASSUME CallsInv, NestInv, [Next]_vars PROVE CallsInv' /\ NestInv'
  OBVIOUS
<1>1. CASE UNCHANGED vars
  <2>1. raising' \in [Threads -> {"none", "Exception", "BaseException"}]
    BY <1>1 DEF vars, NestInv
  <2> QED
    BY <1>1, <2>1, CallsSame DEF vars
<1>2. ASSUME NEW t \in Threads, Enter(t) PROVE CallsInv' /\ NestInv'
  BY <1>2, EnterStep
<1>3. ASSUME NEW t \in Threads, Return(t) \/ Unwind(t) PROVE CallsInv' /\ NestInv'
  <2>1. raising[t] \in {"none", "Exception", "BaseException"}
    BY DEF NestInv
  <2>2. \E end \in Endings : Leave(t, end)
    BY <1>3, <2>1 DEF Return, Unwind, InBody, Endings
  <2> QED
    BY <2>2, LeaveStep
<1>4. ASSUME NEW t \in Threads, Throw(t) \/ Handle(t) \/ raise_if_cancelled(t) PROVE CallsInv' /\ NestInv'
  <2>1. UNCHANGED <<calls, stack>>
    BY <1>4 DEF Throw, Handle, raise_if_cancelled
  <2>2. \E e \in {"none", "Exception", "BaseException"} : raising' = [raising EXCEPT ![t] = e]
    BY <1>4 DEF Throw, Handle, raise_if_cancelled, Exceptions
  <2> QED
    BY <2>1, <2>2, RaisingType, CallsSame
<1>5. ASSUME NEW t \in Threads, AuditRun(t) PROVE CallsInv' /\ NestInv'
  BY <1>5, AuditRunStep
<1>6. ASSUME NEW p \in Cancellers, cancel(p) PROVE CallsInv' /\ NestInv'
  <2>1. UNCHANGED <<calls, stack, raising>>
    BY <1>6 DEF cancel
  <2>2. raising' \in [Threads -> {"none", "Exception", "BaseException"}]
    BY <2>1 DEF NestInv
  <2> QED
    BY <2>1, <2>2, CallsSame
<1> QED
  BY <1>1, <1>2, <1>3, <1>4, <1>5, <1>6 DEF Next

\* wrap/tool.py: "Every call emits tool.invoked, then either tool.completed or
\* tool.failed".  Through any nesting of calls and any handlers an exception has
\* come, in every language and with every wrapper but the audit of assistants runs:
\* a call that returned has its start and one end, a tool that raised an Exception
\* has failed, and none has an end too many or too early.
THEOREM CallsAreAccounted == WrappersSpec => []CallsAccounted
<1>1. CallsInv => CallsAccounted
  BY CallsLen DEF CallsInv, CallInv, CallsAccounted, Audited
<1> QED
  BY <1>1, CallsInit, CallsStep, WrappersParts, PTL DEF Spec

-----------------------------------------------------------------------------
\* A set of numbers has a least one.
LEMMA LeastElement ==
    ASSUME NEW K, K \subseteq Nat, K # {}
    PROVE  \E m \in K : \A k \in K : m <= k
<1>1. PICK m \in K : \A k \in K : ~(<<k, m>> \in OpToRel(<, Nat))
  BY WFMin, NatLessThanWellFounded
<1>2. \A k \in K : ~(k < m)
  BY <1>1 DEF OpToRel
<1> QED
  BY <1>2

\* What holds of the empty set, and of a set with one element more, holds of S.
LEMMA InductionOverSubsets ==
    ASSUME NEW S, IsFiniteSet(S), NEW P \in SUBSET (SUBSET S),
           {} \in P, \A U \in P : \A e \in S \ U : U \cup {e} \in P
    PROVE  S \in P
<1> SUFFICES ASSUME S \notin P PROVE FALSE
  OBVIOUS
<1> DEFINE Bad == {U \in SUBSET S : U \notin P}
           K == {n \in Nat : \E U \in Bad : Cardinality(U) = n}
<1>1. \A U \in SUBSET S : IsFiniteSet(U) /\ Cardinality(U) \in Nat
  BY FS_Subset, FS_CardinalityType
<1>2. Cardinality(S) \in K
  BY <1>1
<1>3. K \subseteq Nat /\ K # {} /\ \A k \in K : \E U \in Bad : Cardinality(U) = k
  BY <1>2
<1>4. \A U \in Bad : Cardinality(U) \in K
  BY <1>1
<1> HIDE DEF K
<1>5. PICK m \in K : \A k \in K : m <= k
  BY <1>3, LeastElement
<1>6. PICK U \in Bad : Cardinality(U) = m
  BY <1>3
<1>7. PICK e \in U : TRUE
  BY <1>6
<1>8. U \ {e} \in SUBSET S /\ Cardinality(U \ {e}) = m - 1
  BY <1>1, <1>6, FS_RemoveElement
<1>9. U \ {e} \in P
  BY <1>1, <1>3, <1>4, <1>5, <1>8
<1>10. (U \ {e}) \cup {e} = U /\ e \in S \ (U \ {e})
  BY <1>6
<1> QED
  BY <1>6, <1>9, <1>10

\* t sums w over every subset of S.
IsSum(t, w, S) ==
    /\ t \in [SUBSET S -> Int] /\ t[{}] = 0
    /\ \A U \in SUBSET S : \A e \in S \ U : t[U \cup {e}] = t[U] + w[e]

LEMMA SumExists ==
    ASSUME NEW S, IsFiniteSet(S), NEW w \in [S -> Int]
    PROVE  \E t : IsSum(t, w, S)
<1> DEFINE P == {U \in SUBSET S : \E t : IsSum(t, w, U)}
<1>1. {} \in P
  <2>1. IsSum([U \in SUBSET {} |-> 0], w, {})
    BY DEF IsSum
  <2> QED
    BY <2>1
<1>2. ASSUME NEW U \in P, NEW e \in S \ U PROVE U \cup {e} \in P
  <2>1. PICK t : IsSum(t, w, U)
    OBVIOUS
  <2> DEFINE s == [V \in SUBSET (U \cup {e}) |-> IF e \in V THEN t[V \ {e}] + w[e] ELSE t[V]]
  <2>2. w[e] \in Int /\ \A V \in SUBSET U : t[V] \in Int
    BY <2>1 DEF IsSum
  <2>3. \A V \in SUBSET (U \cup {e}) : V \ {e} \in SUBSET U /\ (e \notin V => V \in SUBSET U)
    OBVIOUS
  <2>4. s \in [SUBSET (U \cup {e}) -> Int]
    BY <2>2, <2>3
  <2>5. s[{}] = 0
    BY <2>1 DEF IsSum
  <2>6. ASSUME NEW V \in SUBSET (U \cup {e}), NEW g \in (U \cup {e}) \ V
        PROVE  s[V \cup {g}] = s[V] + w[g]
    <3>0. w[g] \in Int /\ V \cup {g} \in SUBSET (U \cup {e})
      OBVIOUS
    <3>1. CASE g = e
      <4>1. (V \cup {g}) \ {e} = V /\ V \in SUBSET U
        BY <3>1
      <4> QED
        BY <3>0, <3>1, <4>1
    <3>2. CASE g # e /\ e \in V
      <4>1. (V \cup {g}) \ {e} = (V \ {e}) \cup {g} /\ g \in U \ (V \ {e})
        BY <3>2
      <4>2. t[(V \ {e}) \cup {g}] = t[V \ {e}] + w[g]
        BY <2>1, <2>3, <4>1 DEF IsSum
      <4>3. s[V \cup {g}] = t[(V \ {e}) \cup {g}] + w[e] /\ s[V] = t[V \ {e}] + w[e]
        BY <3>0, <3>2, <4>1
      <4>4. t[V \ {e}] \in Int
        BY <2>2, <2>3
      <4> HIDE DEF s
      <4> QED
        BY <2>2, <3>0, <4>2, <4>3, <4>4
    <3>3. CASE g # e /\ e \notin V
      <4>1. V \in SUBSET U /\ g \in U \ V /\ e \notin V \cup {g}
        BY <3>3
      <4> QED
        BY <2>1, <3>0, <4>1 DEF IsSum
    <3> QED
      BY <3>1, <3>2, <3>3
  <2>7. IsSum(s, w, U \cup {e})
    BY <2>4, <2>5, <2>6 DEF IsSum
  <2> HIDE DEF s
  <2> QED
    BY <2>7
<1> HIDE DEF P
<1>3. P \in SUBSET (SUBSET S)
  BY DEF P
<1>4. S \in P
  BY <1>1, <1>2, <1>3, InductionOverSubsets
<1> QED
  BY <1>4 DEF P


\* SumFunctionOnSet as the projector's module has it.
SumOver(g, S) == Projector!SumFunctionOnSet(g, S)

\* It takes one element after the other.
LEMMA SumRecursion ==
    ASSUME NEW g, NEW S
    PROVE  SumOver(g, S) =
               (CHOOSE iter : iter = [s \in SUBSET S |->
                    IF s = {} THEN 0 ELSE LET e == CHOOSE e \in s : TRUE IN g[e] + iter[s \ {e}]])[S]
BY DEF SumOver, Projector!SumFunctionOnSet, Projector!FoldFunctionOnSet, Projector!MapThenFoldSet

\* Whatever the order, the sum is what IsSum says.
LEMMA SumIs ==
    ASSUME NEW D, IsFiniteSet(D), NEW g, \A e \in D : g[e] \in Int, NEW t, IsSum(t, g, D), NEW S \in SUBSET D
    PROVE  SumOver(g, S) = t[S]
<1> DEFINE some(s) == CHOOSE e \in s : TRUE
           Iter(f) == [s \in SUBSET S |-> IF s = {} THEN 0 ELSE g[some(s)] + f[s \ {some(s)}]]
           sum == CHOOSE iter : iter = Iter(iter)
<1>1. \A s \in SUBSET S : s # {} => some(s) \in s /\ s \ {some(s)} \in SUBSET S
  OBVIOUS
<1>2. \A s \in SUBSET S : \A e \in s : t[s] = g[e] + t[s \ {e}]
  <2> SUFFICES ASSUME NEW s \in SUBSET S, NEW e \in s PROVE t[s] = g[e] + t[s \ {e}]
    OBVIOUS
  <2>1. (s \ {e}) \cup {e} = s /\ s \ {e} \in SUBSET D /\ e \in D \ (s \ {e})
    OBVIOUS
  <2>2. t[(s \ {e}) \cup {e}] = t[s \ {e}] + g[e] /\ t[s \ {e}] \in Int /\ g[e] \in Int
    BY <2>1 DEF IsSum
  <2>3. t[s] = t[(s \ {e}) \cup {e}]
    BY Zenon, <2>1
  <2> QED
    BY <2>2, <2>3
<1>3. t[{}] = 0
  BY DEF IsSum
<1> HIDE DEF some
<1>4. sum = Iter(sum)
  <2> DEFINE f == [s \in SUBSET S |-> t[s]]
  <2>1. \A s \in SUBSET S : s # {} => t[s] = g[some(s)] + f[s \ {some(s)}]
    BY <1>1, <1>2
  <2> HIDE DEF f
  <2>2. [s \in SUBSET S |-> t[s]] = Iter(f)
    BY <1>3, <2>1
  <2>3. f = Iter(f)
    BY <2>2 DEF f
  <2> QED
    BY <2>3
<1>5. SumOver(g, S) = sum[S]
  BY SumRecursion DEF some
<1> DEFINE P == {s \in SUBSET S : sum[s] = t[s]}
<1>6. {} \in P
  BY <1>3, <1>4
<1> HIDE DEF sum
<1>7. IsFiniteSet(S) /\ P \in SUBSET (SUBSET S)
  BY FS_Subset
<1>8. SUFFICES ASSUME S \notin P PROVE FALSE
  BY <1>5
<1> DEFINE K == {n \in Nat : \E s \in SUBSET S : s \notin P /\ Cardinality(s) = n}
<1>9. \A s \in SUBSET S : IsFiniteSet(s) /\ Cardinality(s) \in Nat
  BY <1>7, FS_Subset, FS_CardinalityType
<1>10. K \subseteq Nat /\ K # {}
  BY <1>8, <1>9
<1>11. PICK n \in K : \A k \in K : n <= k
  BY <1>10, LeastElement
<1>12. PICK s \in SUBSET S : s \notin P /\ Cardinality(s) = n
  BY <1>11
<1>13. s # {} /\ some(s) \in s /\ s \ {some(s)} \in SUBSET S
  BY <1>1, <1>6, <1>12
<1>14. Cardinality(s \ {some(s)}) = n - 1
  BY <1>9, <1>12, <1>13, FS_RemoveElement
<1>15. s \ {some(s)} \in P
  BY <1>9, <1>11, <1>12, <1>13, <1>14
<1>16. sum[s] = g[some(s)] + sum[s \ {some(s)}]
  BY <1>4, <1>13
<1> QED
  BY <1>2, <1>12, <1>13, <1>15, <1>16

LEMMA SumLaws ==
    ASSUME NEW D, IsFiniteSet(D), NEW g, \A e \in D : g[e] \in Int
    PROVE  /\ SumOver(g, {}) = 0
           /\ \A S \in SUBSET D : SumOver(g, S) \in Int
           /\ \A S \in SUBSET D : \A e \in D \ S : SumOver(g, S \cup {e}) = SumOver(g, S) + g[e]
<1>1. PICK t : IsSum(t, [e \in D |-> g[e]], D)
  BY SumExists
<1>2. IsSum(t, g, D)
  BY <1>1 DEF IsSum
<1>3. \A S \in SUBSET D : SumOver(g, S) = t[S]
  BY <1>2, SumIs
<1>4. \A S \in SUBSET D : \A e \in D \ S : S \cup {e} \in SUBSET D
  OBVIOUS
<1> QED
  BY <1>2, <1>3, <1>4 DEF IsSum

\* Only the summands count.
LEMMA SumSame ==
    ASSUME NEW D, IsFiniteSet(D), NEW g, NEW h, \A e \in D : g[e] \in Int /\ g[e] = h[e]
    PROVE  SumOver(g, D) = SumOver(h, D)
<1>1. PICK t : IsSum(t, [e \in D |-> g[e]], D)
  BY SumExists
<1>2. IsSum(t, g, D) /\ IsSum(t, h, D)
  BY <1>1 DEF IsSum
<1> QED
  BY <1>2, SumIs

LEMMA DisjointUnion ==
    ASSUME NEW A, NEW B, IsFiniteSet(A), IsFiniteSet(B), A \cap B = {}
    PROVE  /\ IsFiniteSet(A \cup B)
           /\ Cardinality(A \cup B) = Cardinality(A) + Cardinality(B)
<1>1. Cardinality(A \cap B) = 0
  BY FS_EmptySet
<1>2. /\ IsFiniteSet(A \cup B)
      /\ Cardinality(A \cup B) = Cardinality(A) + Cardinality(B) - Cardinality(A \cap B)
  BY FS_Union
<1>3. Cardinality(A) \in Nat /\ Cardinality(B) \in Nat
  BY FS_CardinalityType
<1> QED
  BY <1>1, <1>2, <1>3

\* What is sorted into groups is counted by groups.
LEMMA SumOfGroups ==
    ASSUME NEW T, IsFiniteSet(T), NEW S, IsFiniteSet(S), NEW f
    PROVE  SumOver([c \in T |-> Cardinality({i \in S : f[i] = c})], T) = Cardinality({i \in S : f[i] \in T})
<1> DEFINE g == [c \in T |-> Cardinality({i \in S : f[i] = c})]
           In(V) == {i \in S : f[i] \in V}
           P == {V \in SUBSET T : SumOver(g, V) = Cardinality(In(V))}
<1>1. \A V : IsFiniteSet(In(V)) /\ Cardinality(In(V)) \in Nat
  BY FS_Subset, FS_CardinalityType
<1>2. \A c \in T : g[c] = Cardinality(In({c}))
  <2> SUFFICES ASSUME NEW c \in T PROVE g[c] = Cardinality(In({c}))
    OBVIOUS
  <2>1. In({c}) = {i \in S : f[i] = c}
    OBVIOUS
  <2> QED
    BY <2>1
<1> HIDE DEF g
<1>3. \A c \in T : g[c] \in Int
  <2>1. \A c \in T : Cardinality({i \in S : f[i] = c}) \in Nat
    BY FS_Subset, FS_CardinalityType
  <2> QED
    BY <2>1 DEF g
<1>4. In({}) = {}
  OBVIOUS
<1>5. {} \in P
  BY <1>3, <1>4, SumLaws, FS_EmptySet
<1>6. ASSUME NEW V \in P, NEW c \in T \ V PROVE V \cup {c} \in P
  <2>1. In(V \cup {c}) = In(V) \cup In({c}) /\ In(V) \cap In({c}) = {}
    OBVIOUS
  <2>2. Cardinality(In(V \cup {c})) = Cardinality(In(V)) + Cardinality(In({c}))
    BY <1>1, <2>1, DisjointUnion
  <2>3. SumOver(g, V \cup {c}) = SumOver(g, V) + g[c]
    BY <1>3, SumLaws
  <2> QED
    BY <1>2, <2>2, <2>3
<1>7. P \in SUBSET (SUBSET T)
  OBVIOUS
<1>8. T \in P
  <2> HIDE DEF P
  <2> QED
    BY <1>5, <1>6, <1>7, InductionOverSubsets
<1> QED
  BY <1>8 DEF g

-----------------------------------------------------------------------------
\* The what-if projector.

Day == Days \cup {Epoch}

ProjectorTypes ==
    /\ policy \in Policies
    /\ events \in Seq(Projector!Row)
    /\ out \in Seq([real : {"allow", "deny"}, counter : {"allow", "deny", "escalate"}])
    /\ Len(out) = Len(events)
    /\ count_seen \in [ToolNames \X Day -> Nat]
    /\ amount_seen \in [ToolNames \X Day -> Int]

\* The events that are counted for a tool and a day, those of which the amount is
\* added, and those that would be allowed.
IsOf(i, tool, day) == events[i].tool = tool /\ Projector!DayKey(events[i]) = day
Counts(i, tool, day) == IsOf(i, tool, day) /\ ~Projector!Refused(events[i])
CountedOf(tool, day) == {i \in DOMAIN events : Counts(i, tool, day)}
AddedOf(tool, day) == {i \in CountedOf(tool, day) : Projector!Within(i)}
AllowedOf(tool, day) == {i \in DOMAIN events : IsOf(i, tool, day) /\ out[i].counter # "deny"}

\* The counters are what the events before amount to.
CountersInv ==
    \A tool \in ToolNames, day \in Day :
        /\ Projector!CountCap(tool) # NoCap =>
               count_seen[<<tool, day>>] = Cardinality(CountedOf(tool, day))
        /\ Projector!AmountCap(tool) # NoCap =>
               amount_seen[<<tool, day>>] = SumOver(Projector!AmountOf, AddedOf(tool, day))

DecisionsInv == \A i \in DOMAIN events : out[i].counter = Projector!Reference(i)

\* A denied amount stays in the sum, which it has brought above the cap: so the
\* allowed amounts are below the sum even if some are negative.
AllowedInv ==
    \A tool \in ToolNames, day \in Day :
        /\ Projector!CountCap(tool) # NoCap =>
               Cardinality(AllowedOf(tool, day)) <= Projector!CountCap(tool)
        /\ Projector!AmountCap(tool) # NoCap =>
               LET sum == SumOver(Projector!AmountOf, AllowedOf(tool, day))
               IN  sum <= Projector!AmountCap(tool) /\ sum <= amount_seen[<<tool, day>>]

AnswerInv ==
    answer.status = "ok" =>
        answer.diff_count =
            Projector!SumFunction([tool \in ToolNames |-> answer.would_deny[tool] + answer.would_escalate[tool]])
            + Cardinality({i \in Projector!Diffs : events[i].tool = NoTool \/ out[i].counter = "allow"})

ProjectorInv == ProjectorTypes /\ CountersInv /\ DecisionsInv /\ AllowedInv /\ AnswerInv

LEMMA SameCardinality == ASSUME NEW S PROVE Projector!Cardinality(S) = Cardinality(S)
BY DEF Projector!Cardinality, Cardinality

LEMMA PolicyTypes ==
    ASSUME ProjectorTypes, NEW tool \in ToolNames
    PROVE  /\ Projector!CountCap(tool) \in Nat \cup {NoCap}
           /\ Projector!AmountCap(tool) \in Nat \cup {NoCap}
BY PolicyAssumption DEF ProjectorTypes, Projector!CountCap, Projector!AmountCap

LEMMA RowTypes ==
    ASSUME NEW e \in Projector!Row
    PROVE  /\ e.amount \in Int /\ e.tool \in ToolNames \cup {NoTool}
           /\ Projector!DayKey(e) \in Day
<1>1. e.amount \in Amounts \cup {0} /\ e.tool \in ToolNames \cup {NoTool} /\ e.day \in Days
  BY DEF Projector!Row
<1>2. e.amount \in Int
  <2>1. Amounts \subseteq Int /\ 0 \in Int
    BY PolicyAssumption
  <2> QED
    BY <1>1, <2>1, Zenon
<1>3. Projector!DayKey(e) \in Day
  BY <1>1 DEF Projector!DayKey, Day
<1> QED
  BY <1>1, <1>2, <1>3

\* The events seen, and those of a key, are finitely many.
LEMMA EventSets ==
    ASSUME ProjectorTypes
    PROVE  /\ Len(events) \in Nat /\ DOMAIN events = 1..Len(events) /\ DOMAIN out = 1..Len(events)
           /\ IsFiniteSet(DOMAIN events)
           /\ \A S \in SUBSET (DOMAIN events) : IsFiniteSet(S) /\ Cardinality(S) \in Nat
           /\ \A i \in DOMAIN events : events[i] \in Projector!Row /\ Projector!AmountOf[i] = events[i].amount
           /\ \A i \in DOMAIN events : Projector!AmountOf[i] \in Int
<1>1. Len(events) \in Nat /\ DOMAIN events = 1..Len(events) /\ DOMAIN out = 1..Len(events)
  BY LenProperties DEF ProjectorTypes
<1>2. IsFiniteSet(DOMAIN events)
  BY <1>1, FS_Interval
<1>3. \A i \in DOMAIN events : events[i] \in Projector!Row /\ Projector!AmountOf[i] = events[i].amount
  BY ElementOfSeq, <1>1 DEF ProjectorTypes, Projector!AmountOf
<1> QED
  BY <1>1, <1>2, <1>3, FS_Subset, FS_CardinalityType, RowTypes

\* One round of the loop: the events before keep their place in every count.
LEMMA Appended ==
    ASSUME ProjectorTypes, NEW e \in Projector!Row, Projector!project(e)
    PROVE  LET n == Len(events) + 1
           IN  /\ ProjectorTypes'
               /\ Len(events') = n /\ n \in Nat /\ 1..n = (1..Len(events)) \cup {n} /\ n \notin 1..Len(events)
               /\ events'[n] = e /\ out'[n].counter = Projector!decide(e)
               /\ \A i \in 1..Len(events) : events'[i] = events[i] /\ out'[i] = out[i]
               /\ DOMAIN (events') = 1..n /\ \A i \in 1..n : (Projector!AmountOf')[i] = events'[i].amount
<1> DEFINE n == Len(events) + 1
           o == [real |-> Projector!Real(e), counter |-> Projector!decide(e)]
<1>1. /\ events' = Append(events, e) /\ out' = Append(out, o) /\ Projector!Counted(e)
      /\ policy' = policy /\ route' = route
  BY DEF Projector!project
<1>2. Len(events) \in Nat /\ events \in Seq(Projector!Row) /\ Len(out) = Len(events)
      /\ out \in Seq([real : {"allow", "deny"}, counter : {"allow", "deny", "escalate"}])
  BY EventSets DEF ProjectorTypes
<1>3. o \in [real : {"allow", "deny"}, counter : {"allow", "deny", "escalate"}]
  BY DEF Projector!Real, Projector!decide
<1> HIDE DEF o
<1>4. /\ events' \in Seq(Projector!Row) /\ Len(events') = n /\ events'[n] = e
      /\ \A i \in 1..Len(events) : events'[i] = events[i]
  BY <1>1, <1>2, AppendProperties
<1>8. DOMAIN (events') = 1..n /\ \A i \in 1..n : (Projector!AmountOf')[i] = events'[i].amount
  BY <1>4, LenProperties DEF Projector!AmountOf
<1>5. /\ out' \in Seq([real : {"allow", "deny"}, counter : {"allow", "deny", "escalate"}])
      /\ Len(out') = n /\ out'[n] = o
      /\ \A i \in 1..Len(events) : out'[i] = out[i]
  BY <1>1, <1>2, <1>3, AppendProperties
<1>6. n \in Nat /\ 1..n = (1..Len(events)) \cup {n} /\ n \notin 1..Len(events)
  BY <1>2
<1>7. count_seen' \in [ToolNames \X Day -> Nat] /\ amount_seen' \in [ToolNames \X Day -> Int]
  <2>1. count_seen \in [ToolNames \X Day -> Nat] /\ amount_seen \in [ToolNames \X Day -> Int]
    BY DEF ProjectorTypes
  <2>2. /\ e.amount \in Int
        /\ Projector!CountCap(e.tool) # NoCap \/ Projector!AmountCap(e.tool) # NoCap =>
               Projector!Key(e) \in ToolNames \X Day
    BY RowTypes DEF Projector!CountCap, Projector!AmountCap, Projector!Key
  <2>3. CASE Projector!Refused(e) \/ Projector!CountCap(e.tool) = NoCap
    <3>1. count_seen' = count_seen
      BY <1>1, <2>3 DEF Projector!Counted
    <3>2. amount_seen' = amount_seen \/ (/\ Projector!AmountCap(e.tool) # NoCap
              /\ amount_seen' = [amount_seen EXCEPT ![Projector!Key(e)] = @ + e.amount])
      BY <1>1 DEF Projector!Counted
    <3> QED
      BY <2>1, <2>2, <3>1, <3>2
  <2>4. CASE ~(Projector!Refused(e) \/ Projector!CountCap(e.tool) = NoCap)
    <3>1. count_seen' = [count_seen EXCEPT ![Projector!Key(e)] = @ + 1]
      BY <1>1, <2>4 DEF Projector!Counted
    <3>2. amount_seen' = amount_seen \/ (/\ Projector!AmountCap(e.tool) # NoCap
              /\ amount_seen' = [amount_seen EXCEPT ![Projector!Key(e)] = @ + e.amount])
      BY <1>1 DEF Projector!Counted
    <3> QED
      BY <2>1, <2>2, <2>4, <3>1, <3>2
  <2> QED
    BY <2>3, <2>4
<1> QED
  BY <1>1, <1>4, <1>5, <1>6, <1>7, <1>8 DEF ProjectorTypes, o

\* What the policy says does not change.
LEMMA PolicyKept ==
    ASSUME NEW e, Projector!project(e)
    PROVE  /\ \A f : (Projector!Refused(f)' <=> Projector!Refused(f)) /\ Projector!DayKey(f)' = Projector!DayKey(f)
           /\ \A tool : /\ Projector!CountCap(tool)' = Projector!CountCap(tool)
                        /\ Projector!AmountCap(tool)' = Projector!AmountCap(tool)
           /\ policy' = policy /\ route' = route
BY DEF Projector!project, Projector!Refused, Projector!DayKey, Projector!CountCap, Projector!AmountCap

\* How an event was decided does not depend on those that follow it.
LEMMA ReferenceKept ==
    ASSUME ProjectorTypes, NEW e \in Projector!Row, Projector!project(e), NEW i \in 1..Len(events)
    PROVE  /\ Projector!Within(i)' <=> Projector!Within(i)
           /\ Projector!Reference(i)' = Projector!Reference(i)
<1>1. \A j \in 1..Len(events) : events'[j] = events[j]
  BY Appended
<1>2. Len(events) \in Nat /\ 1..i \subseteq 1..Len(events)
  BY EventSets
<1>3. \A j \in 1..Len(events), k \in 1..Len(events) : Projector!Before(j, k)' <=> Projector!Before(j, k)
  BY <1>1, PolicyKept DEF Projector!Before
<1>4. \A j \in 1..Len(events) : Projector!Nth(j)' = Projector!Nth(j)
  <2> SUFFICES ASSUME NEW j \in 1..Len(events) PROVE Projector!Nth(j)' = Projector!Nth(j)
    OBVIOUS
  <2>1. 1..j \subseteq 1..Len(events)
    BY <1>2
  <2>2. {k \in 1..j : Projector!Before(j, k)'} = {k \in 1..j : Projector!Before(j, k)}
    BY <1>3, <2>1
  <2> QED
    BY <2>2 DEF Projector!Nth
<1>5. \A j \in 1..Len(events) : Projector!Within(j)' <=> Projector!Within(j)
  BY <1>1, <1>4, PolicyKept DEF Projector!Within
<1>6. Projector!Total(i)' = Projector!Total(i)
  <2> DEFINE S == {j \in 1..i : Projector!Before(i, j) /\ Projector!Within(j)}
  <2>1. {j \in 1..i : Projector!Before(i, j)' /\ Projector!Within(j)'} = S
    BY <1>2, <1>3, <1>5
  <2>2. S \subseteq 1..Len(events) /\ IsFiniteSet(S)
    BY <1>2, EventSets
  <2>3. \A j \in S : Projector!AmountOf[j] \in Int /\ Projector!AmountOf[j] = (Projector!AmountOf')[j]
    <3>1. \A j \in 1..Len(events) : (Projector!AmountOf')[j] = events'[j].amount
      BY Appended
    <3> QED
      BY <1>1, <2>2, <3>1, EventSets
  <2> HIDE DEF S
  <2>4. SumOver(Projector!AmountOf, S) = SumOver(Projector!AmountOf', S)
    BY <2>2, <2>3, SumSame
  <2> QED
    BY <2>1, <2>4 DEF Projector!Total, SumOver, S
<1> QED
  BY <1>1, <1>5, <1>6, PolicyKept DEF Projector!Reference

\* What the new event adds to a tool and a day.
LEMMA AddedToKey ==
    ASSUME ProjectorTypes, NEW e \in Projector!Row, Projector!project(e), NEW n, n = Len(events) + 1,
           NEW tool \in ToolNames, NEW day \in Day
    PROVE  LET fits == e.tool = tool /\ Projector!DayKey(e) = day
           IN  /\ CountedOf(tool, day)' =
                      CountedOf(tool, day) \cup (IF fits /\ ~Projector!Refused(e) THEN {n} ELSE {})
               /\ AddedOf(tool, day)' =
                      AddedOf(tool, day) \cup (IF fits /\ ~Projector!Refused(e) /\ Projector!Within(n)' THEN {n} ELSE {})
               /\ AllowedOf(tool, day)' =
                      AllowedOf(tool, day) \cup (IF fits /\ Projector!decide(e) # "deny" THEN {n} ELSE {})
<1> DEFINE fits == e.tool = tool /\ Projector!DayKey(e) = day
<1>1. /\ DOMAIN events = 1..Len(events) /\ DOMAIN (events') = (1..Len(events)) \cup {n} /\ n \notin 1..Len(events)
      /\ events'[n] = e /\ out'[n].counter = Projector!decide(e)
      /\ \A i \in 1..Len(events) : events'[i] = events[i] /\ out'[i] = out[i]
  BY Appended, EventSets
<1>2. \A i \in 1..Len(events) : /\ IsOf(i, tool, day)' <=> IsOf(i, tool, day)
                                /\ Counts(i, tool, day)' <=> Counts(i, tool, day)
  BY <1>1, PolicyKept DEF IsOf, Counts, Projector!DayKey, Projector!Refused
<1>3. /\ IsOf(n, tool, day)' <=> fits
      /\ Counts(n, tool, day)' <=> fits /\ ~Projector!Refused(e)
  BY <1>1, PolicyKept DEF IsOf, Counts, Projector!DayKey, Projector!Refused
<1>4. \A i \in 1..Len(events) : Projector!Within(i)' <=> Projector!Within(i)
  BY ReferenceKept
<1>5. CountedOf(tool, day)' =
          CountedOf(tool, day) \cup (IF fits /\ ~Projector!Refused(e) THEN {n} ELSE {})
  BY <1>1, <1>2, <1>3 DEF CountedOf
<1>6. AllowedOf(tool, day)' =
          AllowedOf(tool, day) \cup (IF fits /\ Projector!decide(e) # "deny" THEN {n} ELSE {})
  BY <1>1, <1>2, <1>3 DEF AllowedOf
<1>7. CountedOf(tool, day) \subseteq 1..Len(events)
  BY <1>1 DEF CountedOf
<1>8. AddedOf(tool, day)' =
          AddedOf(tool, day) \cup (IF fits /\ ~Projector!Refused(e) /\ Projector!Within(n)' THEN {n} ELSE {})
  BY <1>4, <1>5, <1>7 DEF AddedOf
<1> QED
  BY <1>5, <1>6, <1>8

\* The sum over events that were there is what it was; with the new one, more.
LEMMA SumGrows ==
    ASSUME ProjectorTypes, NEW e \in Projector!Row, Projector!project(e), NEW S \in SUBSET (DOMAIN events)
    PROVE  /\ SumOver(Projector!AmountOf, S) \in Int /\ e.amount \in Int
           /\ SumOver(Projector!AmountOf', S) = SumOver(Projector!AmountOf, S)
           /\ SumOver(Projector!AmountOf', S \cup {Len(events) + 1}) = SumOver(Projector!AmountOf, S) + e.amount
<1> DEFINE n == Len(events) + 1
           g == Projector!AmountOf
           h == Projector!AmountOf'
<1>1. /\ DOMAIN events = 1..Len(events) /\ 1..n = (1..Len(events)) \cup {n} /\ n \notin 1..Len(events)
      /\ \A i \in 1..Len(events) : g[i] \in Int /\ g[i] = events[i].amount
      /\ \A i \in 1..n : h[i] = events'[i].amount
      /\ \A i \in 1..Len(events) : events'[i] = events[i]
      /\ events'[n] = e /\ n \in Nat
  BY Appended, EventSets
<1>2. e.amount \in Int
  BY RowTypes
<1> HIDE DEF n, g, h
<1>3. \A i \in 1..n : h[i] \in Int
  BY <1>1, <1>2
<1>4. \A i \in S : g[i] \in Int /\ g[i] = h[i]
  BY <1>1
<1>5. IsFiniteSet(S) /\ IsFiniteSet(DOMAIN events)
  BY EventSets
<1>6. IsFiniteSet(1..n)
  BY <1>1, FS_Interval
<1>7. SumOver(g, S) = SumOver(h, S)
  BY <1>4, <1>5, SumSame
<1>8. SumOver(g, S) \in Int
  BY <1>1, <1>5, SumLaws
<1>9. SumOver(h, S \cup {n}) = SumOver(h, S) + h[n]
  <2>1. S \in SUBSET (1..n) /\ n \in (1..n) \ S
    BY <1>1
  <2> QED
    BY <1>3, <1>6, <2>1, SumLaws
<1> QED
  BY <1>1, <1>2, <1>7, <1>8, <1>9 DEF n, g, h

\* The projector decides by its counters what the reference says.
LEMMA DecidesAsReference ==
    ASSUME ProjectorTypes, CountersInv, NEW e \in Projector!Row, Projector!project(e),
           NEW n, n = Len(events) + 1, NEW k, k = Projector!DayKey(e)
    PROVE  /\ ~Projector!Refused(e) => (Projector!Within(n)' <=> ~Projector!OverCount(e))
           /\ Projector!Reference(n)' = Projector!decide(e)
<1>1. /\ n \in Nat /\ DOMAIN (events') = 1..n /\ events'[n] = e /\ 1..n = (1..Len(events)) \cup {n}
      /\ DOMAIN events = 1..Len(events) /\ n \notin 1..Len(events)
  BY Appended, EventSets
<1>2. e.tool \in ToolNames \cup {NoTool} /\ k \in Day /\ NoTool \notin ToolNames
  BY RowTypes, PolicyAssumption
<1>3. \A j \in 1..n : Projector!Before(n, j)' <=> Counts(j, e.tool, k)'
  BY <1>1, PolicyKept DEF Projector!Before, IsOf, Counts, Projector!DayKey, Projector!Refused
<1>4. {j \in 1..n : Projector!Before(n, j)'} = CountedOf(e.tool, k)'
  BY <1>1, <1>3 DEF CountedOf
<1>5. {j \in 1..n : Projector!Before(n, j)' /\ Projector!Within(j)'} = AddedOf(e.tool, k)'
  BY <1>4 DEF AddedOf
<1>6. Projector!Nth(n)' = Cardinality(CountedOf(e.tool, k)')
  <2>1. Projector!Nth(n)' = Cardinality({j \in 1..n : Projector!Before(n, j)'})
    BY SameCardinality DEF Projector!Nth
  <2> QED
    BY <1>4, <2>1
<1>7. Projector!Total(n)' = SumOver(Projector!AmountOf', AddedOf(e.tool, k)')
  BY <1>5 DEF Projector!Total, SumOver
<1>8. ASSUME ~Projector!Refused(e) PROVE Projector!Within(n)' <=> ~Projector!OverCount(e)
  <2>1. CASE Projector!CountCap(e.tool) = NoCap
    BY <1>1, <2>1, PolicyKept DEF Projector!Within, Projector!OverCount
  <2>2. CASE Projector!CountCap(e.tool) # NoCap
    <3>1. e.tool \in ToolNames
      BY <1>2, <2>2 DEF Projector!CountCap
    <3>2. CountedOf(e.tool, k)' = CountedOf(e.tool, k) \cup {n}
      BY <1>2, <1>8, <3>1, AddedToKey
    <3>3. CountedOf(e.tool, k) \in SUBSET (DOMAIN events)
      BY DEF CountedOf
    <3>4. Cardinality(CountedOf(e.tool, k)') = Cardinality(CountedOf(e.tool, k)) + 1
      <4>1. IsFiniteSet(CountedOf(e.tool, k)) /\ n \notin CountedOf(e.tool, k)
        BY <1>1, <3>3, EventSets
      <4> QED
        BY <3>2, <4>1, FS_AddElement
    <3>5. count_seen[Projector!Key(e)] = Cardinality(CountedOf(e.tool, k))
      BY <1>2, <2>2, <3>1 DEF CountersInv, Projector!Key
    <3>6. Projector!CountCap(e.tool) \in Nat /\ Cardinality(CountedOf(e.tool, k)) \in Nat
      BY <2>2, <3>1, <3>3, PolicyTypes, EventSets
    <3>7. Projector!Within(n)' <=> Projector!Nth(n)' <= Projector!CountCap(e.tool)
      BY <1>1, <2>2, PolicyKept DEF Projector!Within
    <3>8. Projector!OverCount(e) <=> count_seen[Projector!Key(e)] + 1 > Projector!CountCap(e.tool)
      BY <2>2 DEF Projector!OverCount
    <3> QED
      BY <1>6, <3>4, <3>5, <3>6, <3>7, <3>8
  <2> QED
    BY <2>1, <2>2
<1>9. ASSUME ~Projector!Refused(e), ~Projector!OverCount(e), Projector!AmountCap(e.tool) # NoCap
      PROVE  Projector!OverAmount(e) <=> Projector!Total(n)' > Projector!AmountCap(e.tool)
  <2>1. e.tool \in ToolNames
    BY <1>2, <1>9 DEF Projector!AmountCap
  <2>2. AddedOf(e.tool, k)' = AddedOf(e.tool, k) \cup {n}
    BY <1>2, <1>8, <1>9, <2>1, AddedToKey
  <2>3. AddedOf(e.tool, k) \in SUBSET (DOMAIN events)
    BY DEF AddedOf, CountedOf
  <2>4. Projector!Total(n)' = SumOver(Projector!AmountOf, AddedOf(e.tool, k)) + e.amount
    BY <1>7, <2>2, <2>3, SumGrows
  <2>5. amount_seen[Projector!Key(e)] = SumOver(Projector!AmountOf, AddedOf(e.tool, k))
    BY <1>2, <1>9, <2>1 DEF CountersInv, Projector!Key
  <2> QED
    BY <1>9, <2>4, <2>5 DEF Projector!OverAmount
<1>10. Projector!Reference(n)' = Projector!decide(e)
  <2>1. CASE Projector!Refused(e) \/ Projector!OverCount(e)
    BY <1>1, <1>8, <2>1, PolicyKept DEF Projector!Reference, Projector!decide
  <2>2. CASE ~Projector!Refused(e) /\ ~Projector!OverCount(e) /\ Projector!AmountCap(e.tool) = NoCap
    BY <1>1, <1>8, <2>2, PolicyKept DEF Projector!Reference, Projector!decide, Projector!OverAmount
  <2>3. CASE ~Projector!Refused(e) /\ ~Projector!OverCount(e) /\ Projector!AmountCap(e.tool) # NoCap
    BY <1>1, <1>8, <1>9, <2>3, PolicyKept DEF Projector!Reference, Projector!decide
  <2> QED
    BY <2>1, <2>2, <2>3
<1> QED
  BY <1>8, <1>10

LEMMA CountersStep ==
    ASSUME ProjectorTypes, CountersInv, NEW e \in Projector!Row, Projector!project(e)
    PROVE  CountersInv'
<1>0. PICK n : n = Len(events) + 1
  OBVIOUS
<1>1. PICK k : k = Projector!DayKey(e)
  OBVIOUS
<1>2. /\ ~Projector!Refused(e) => (Projector!Within(n)' <=> ~Projector!OverCount(e))
      /\ DOMAIN events = 1..Len(events) /\ n \notin 1..Len(events)
      /\ k \in Day /\ Projector!Key(e) = <<e.tool, k>>
  BY <1>0, <1>1, Appended, EventSets, DecidesAsReference, RowTypes DEF Projector!Key
<1> SUFFICES ASSUME NEW tool \in ToolNames, NEW day \in Day
             PROVE  /\ Projector!CountCap(tool)' # NoCap =>
                           count_seen'[<<tool, day>>] = Cardinality(CountedOf(tool, day)')
                    /\ Projector!AmountCap(tool)' # NoCap =>
                           amount_seen'[<<tool, day>>] = SumOver(Projector!AmountOf', AddedOf(tool, day)')
  BY DEF CountersInv, SumOver
<1> DEFINE fits == e.tool = tool /\ k = day
<1>3. /\ CountedOf(tool, day) \in SUBSET (DOMAIN events) /\ AddedOf(tool, day) \in SUBSET (DOMAIN events)
      /\ IsFiniteSet(CountedOf(tool, day)) /\ n \notin CountedOf(tool, day)
  BY <1>2, EventSets DEF CountedOf, AddedOf
<1>4. /\ count_seen \in [ToolNames \X Day -> Nat] /\ amount_seen \in [ToolNames \X Day -> Int]
      /\ <<tool, day>> \in ToolNames \X Day
      /\ Projector!CountCap(tool) # NoCap => count_seen[<<tool, day>>] = Cardinality(CountedOf(tool, day))
      /\ Projector!AmountCap(tool) # NoCap =>
             amount_seen[<<tool, day>>] = SumOver(Projector!AmountOf, AddedOf(tool, day))
  BY DEF ProjectorTypes, CountersInv
<1>5. /\ CountedOf(tool, day)' =
             CountedOf(tool, day) \cup (IF fits /\ ~Projector!Refused(e) THEN {n} ELSE {})
      /\ AddedOf(tool, day)' =
             AddedOf(tool, day) \cup (IF fits /\ ~Projector!Refused(e) /\ Projector!Within(n)' THEN {n} ELSE {})
  BY <1>0, <1>1, AddedToKey
<1>6. ASSUME Projector!CountCap(tool) # NoCap
      PROVE  count_seen'[<<tool, day>>] = Cardinality(CountedOf(tool, day)')
  <2>1. CASE fits /\ ~Projector!Refused(e)
    <3>1. CountedOf(tool, day)' = CountedOf(tool, day) \cup {n}
      BY <1>5, <2>1
    <3>2. count_seen' = [count_seen EXCEPT ![<<tool, day>>] = @ + 1]
      BY <1>2, <1>6, <2>1 DEF Projector!project, Projector!Counted
    <3>3. Cardinality(CountedOf(tool, day)') = Cardinality(CountedOf(tool, day)) + 1
      BY <1>3, <3>1, FS_AddElement
    <3> QED
      BY <1>4, <1>6, <3>2, <3>3
  <2>2. CASE ~(fits /\ ~Projector!Refused(e))
    <3>1. CountedOf(tool, day)' = CountedOf(tool, day)
      BY <1>5, <2>2
    <3>2. count_seen'[<<tool, day>>] = count_seen[<<tool, day>>]
      <4>1. \/ count_seen' = count_seen
            \/ ~Projector!Refused(e) /\ count_seen' = [count_seen EXCEPT ![<<e.tool, k>>] = @ + 1]
        BY <1>2 DEF Projector!project, Projector!Counted
      <4>2. <<e.tool, k>> = <<tool, day>> => fits
        OBVIOUS
      <4> QED
        BY <1>4, <2>2, <4>1, <4>2
    <3> QED
      BY <1>4, <1>6, <3>1, <3>2
  <2> QED
    BY <2>1, <2>2
<1>7. ASSUME Projector!AmountCap(tool) # NoCap
      PROVE  amount_seen'[<<tool, day>>] = SumOver(Projector!AmountOf', AddedOf(tool, day)')
  <2>1. CASE fits /\ ~Projector!Refused(e) /\ ~Projector!OverCount(e)
    <3>1. AddedOf(tool, day)' = AddedOf(tool, day) \cup {n}
      BY <1>2, <1>5, <2>1
    <3>2. amount_seen' = [amount_seen EXCEPT ![<<tool, day>>] = @ + e.amount]
      BY <1>2, <1>7, <2>1 DEF Projector!project, Projector!Counted
    <3>3. SumOver(Projector!AmountOf', AddedOf(tool, day)') = SumOver(Projector!AmountOf, AddedOf(tool, day)) + e.amount
      BY <1>0, <1>3, <3>1, SumGrows
    <3> QED
      BY <1>4, <1>7, <3>2, <3>3
  <2>2. CASE ~(fits /\ ~Projector!Refused(e) /\ ~Projector!OverCount(e))
    <3>1. AddedOf(tool, day)' = AddedOf(tool, day)
      BY <1>2, <1>5, <2>2
    <3>2. amount_seen'[<<tool, day>>] = amount_seen[<<tool, day>>]
      <4>1. \/ amount_seen' = amount_seen
            \/ /\ ~Projector!Refused(e) /\ ~Projector!OverCount(e)
               /\ amount_seen' = [amount_seen EXCEPT ![<<e.tool, k>>] = @ + e.amount]
        BY <1>2 DEF Projector!project, Projector!Counted
      <4>2. <<e.tool, k>> = <<tool, day>> => fits
        OBVIOUS
      <4> QED
        BY <1>4, <2>2, <4>1, <4>2
    <3>3. SumOver(Projector!AmountOf', AddedOf(tool, day)') = SumOver(Projector!AmountOf, AddedOf(tool, day))
      BY <1>3, <3>1, SumGrows
    <3> QED
      BY <1>4, <1>7, <3>2, <3>3
  <2> QED
    BY <2>1, <2>2
<1> QED
  BY <1>6, <1>7, PolicyKept

\* A new event is allowed only if it is in the counters, and they within the caps.
LEMMA AllowedStep ==
    ASSUME ProjectorTypes, CountersInv, AllowedInv, DecisionsInv, NEW e \in Projector!Row, Projector!project(e)
    PROVE  AllowedInv'
<1>0. PICK n : n = Len(events) + 1
  OBVIOUS
<1>1. PICK k : k = Projector!DayKey(e)
  OBVIOUS
<1>2. /\ DOMAIN events = 1..Len(events) /\ n \notin 1..Len(events)
      /\ k \in Day /\ Projector!Key(e) = <<e.tool, k>> /\ e.amount \in Int
  BY <1>0, <1>1, Appended, EventSets, RowTypes DEF Projector!Key
<1> SUFFICES ASSUME NEW tool \in ToolNames, NEW day \in Day
             PROVE  /\ Projector!CountCap(tool)' # NoCap =>
                           Cardinality(AllowedOf(tool, day)') <= Projector!CountCap(tool)'
                    /\ Projector!AmountCap(tool)' # NoCap =>
                           /\ SumOver(Projector!AmountOf', AllowedOf(tool, day)') <= Projector!AmountCap(tool)'
                           /\ SumOver(Projector!AmountOf', AllowedOf(tool, day)') <= amount_seen'[<<tool, day>>]
  BY DEF AllowedInv, SumOver
<1> DEFINE fits == e.tool = tool /\ k = day
           allowed == Projector!decide(e) # "deny"
           sum == SumOver(Projector!AmountOf, AllowedOf(tool, day))
<1>3. /\ AllowedOf(tool, day) \in SUBSET (DOMAIN events) /\ CountedOf(tool, day) \in SUBSET (DOMAIN events)
      /\ n \notin AllowedOf(tool, day) /\ AllowedOf(tool, day) \subseteq CountedOf(tool, day)
  <2>1. \A i \in DOMAIN events : out[i].counter # "deny" => ~Projector!Refused(events[i])
    BY DEF DecisionsInv, Projector!Reference
  <2> QED
    BY <1>2, <2>1 DEF AllowedOf, CountedOf, Counts
<1>4. /\ IsFiniteSet(AllowedOf(tool, day)) /\ IsFiniteSet(CountedOf(tool, day))
      /\ Cardinality(AllowedOf(tool, day)) \in Nat /\ Cardinality(CountedOf(tool, day)) \in Nat
      /\ Cardinality(AllowedOf(tool, day)) <= Cardinality(CountedOf(tool, day))
  BY <1>3, EventSets, FS_Subset
<1>5. /\ count_seen \in [ToolNames \X Day -> Nat] /\ amount_seen \in [ToolNames \X Day -> Int]
      /\ <<tool, day>> \in ToolNames \X Day
      /\ Projector!CountCap(tool) # NoCap =>
             /\ count_seen[<<tool, day>>] = Cardinality(CountedOf(tool, day))
             /\ Cardinality(AllowedOf(tool, day)) <= Projector!CountCap(tool)
      /\ Projector!AmountCap(tool) # NoCap => sum <= Projector!AmountCap(tool) /\ sum <= amount_seen[<<tool, day>>]
  BY DEF ProjectorTypes, CountersInv, AllowedInv
<1>6. Projector!CountCap(tool) \in Nat \cup {NoCap} /\ Projector!AmountCap(tool) \in Nat \cup {NoCap}
  BY PolicyTypes
<1>7. /\ sum \in Int
      /\ SumOver(Projector!AmountOf', AllowedOf(tool, day)) = sum
      /\ SumOver(Projector!AmountOf', AllowedOf(tool, day) \cup {n}) = sum + e.amount
  BY <1>0, <1>3, SumGrows
<1>8. AllowedOf(tool, day)' = AllowedOf(tool, day) \cup (IF fits /\ allowed THEN {n} ELSE {})
  BY <1>0, <1>1, AddedToKey
<1> HIDE DEF sum
<1>9. ASSUME Projector!CountCap(tool) # NoCap
      PROVE  Cardinality(AllowedOf(tool, day)') <= Projector!CountCap(tool)
  <2>1. CASE fits /\ allowed
    <3>1. count_seen[<<tool, day>>] + 1 <= Projector!CountCap(tool)
      <4>1. ~Projector!OverCount(e)
        BY <2>1 DEF Projector!decide
      <4> QED
        BY <1>2, <1>4, <1>5, <1>6, <1>9, <2>1, <4>1 DEF Projector!OverCount
    <3>2. Cardinality(AllowedOf(tool, day)') = Cardinality(AllowedOf(tool, day)) + 1
      BY <1>3, <1>4, <1>8, <2>1, FS_AddElement
    <3> QED
      BY <1>4, <1>5, <1>6, <1>9, <3>1, <3>2
  <2>2. CASE ~(fits /\ allowed)
    <3>1. AllowedOf(tool, day)' = AllowedOf(tool, day)
      BY <1>8, <2>2
    <3> QED
      BY <1>5, <1>9, <3>1
  <2> QED
    BY <2>1, <2>2
<1>10. ASSUME Projector!AmountCap(tool) # NoCap
       PROVE  /\ SumOver(Projector!AmountOf', AllowedOf(tool, day)') <= Projector!AmountCap(tool)
              /\ SumOver(Projector!AmountOf', AllowedOf(tool, day)') <= amount_seen'[<<tool, day>>]
  <2>1. CASE fits /\ ~Projector!Refused(e) /\ ~Projector!OverCount(e)
    <3>1. amount_seen'[<<tool, day>>] = amount_seen[<<tool, day>>] + e.amount
      <4>1. amount_seen' = [amount_seen EXCEPT ![<<tool, day>>] = @ + e.amount]
        BY <1>2, <1>10, <2>1 DEF Projector!project, Projector!Counted
      <4> QED
        BY <1>5, <4>1
    <3>2. allowed <=> amount_seen[<<tool, day>>] + e.amount <= Projector!AmountCap(tool)
      <4>1. allowed <=> ~Projector!OverAmount(e)
        BY <2>1 DEF Projector!decide
      <4>2. Projector!OverAmount(e) <=> amount_seen[<<tool, day>>] + e.amount > Projector!AmountCap(tool)
        BY <1>2, <1>10, <2>1 DEF Projector!OverAmount
      <4>3. amount_seen[<<tool, day>>] \in Int
        BY <1>5
      <4> HIDE DEF allowed
      <4> QED
        BY <1>2, <1>6, <1>10, <4>1, <4>2, <4>3
    <3>3. SumOver(Projector!AmountOf', AllowedOf(tool, day)') = IF allowed THEN sum + e.amount ELSE sum
      BY <1>7, <1>8, <2>1
    <3>4. amount_seen[<<tool, day>>] \in Int
      BY <1>5
    <3> HIDE DEF allowed
    <3> QED
      BY <1>2, <1>5, <1>6, <1>7, <1>10, <3>1, <3>2, <3>3, <3>4
  <2>2. CASE ~(fits /\ ~Projector!Refused(e) /\ ~Projector!OverCount(e))
    <3>1. amount_seen'[<<tool, day>>] = amount_seen[<<tool, day>>]
      <4>1. \/ amount_seen' = amount_seen
            \/ /\ ~Projector!Refused(e) /\ ~Projector!OverCount(e)
               /\ amount_seen' = [amount_seen EXCEPT ![<<e.tool, k>>] = @ + e.amount]
        BY <1>2 DEF Projector!project, Projector!Counted
      <4>2. <<e.tool, k>> = <<tool, day>> => fits
        OBVIOUS
      <4> QED
        BY <1>5, <2>2, <4>1, <4>2
    <3>2. AllowedOf(tool, day)' = AllowedOf(tool, day)
      BY <1>8, <2>2 DEF Projector!decide
    <3> QED
      BY <1>5, <1>7, <1>10, <3>1, <3>2
  <2> QED
    BY <2>1, <2>2
<1> QED
  BY <1>9, <1>10, PolicyKept

\* Every flip is in the summary under its tool and decision, once.
LEMMA FlipsCounted ==
    ASSUME ProjectorTypes
    PROVE  Cardinality(Projector!Diffs) =
               SumOver([tool \in ToolNames |-> Projector!Flipped(tool, "deny") + Projector!Flipped(tool, "escalate")], ToolNames)
               + Cardinality({i \in Projector!Diffs : events[i].tool = NoTool \/ out[i].counter = "allow"})
<1> DEFINE D == Projector!Diffs
           Free == {i \in D : events[i].tool = NoTool \/ out[i].counter = "allow"}
           S == {i \in D : ~(events[i].tool = NoTool \/ out[i].counter = "allow")}
           tools == [i \in D |-> events[i].tool]
           Of(tool, decision) == {i \in D : events[i].tool = tool /\ out[i].counter = decision}
           g == [tool \in ToolNames |-> Projector!Flipped(tool, "deny") + Projector!Flipped(tool, "escalate")]
           h == [tool \in ToolNames |-> Cardinality({i \in S : tools[i] = tool})]
<1>1. /\ IsFiniteSet(D)
      /\ \A i \in D : /\ events[i].tool \in ToolNames \cup {NoTool}
                      /\ out[i].counter \in {"allow", "deny", "escalate"}
  <2>1. D \in SUBSET (DOMAIN events)
    BY EventSets DEF Projector!Diffs
  <2>2. \A i \in D : events[i] \in Projector!Row
    BY <2>1, EventSets
  <2>3. \A i \in D : out[i] \in [real : {"allow", "deny"}, counter : {"allow", "deny", "escalate"}]
    <3>1. D \subseteq 1..Len(out)
      BY <2>1, EventSets, LenProperties DEF ProjectorTypes
    <3>2. \A i \in 1..Len(out) : out[i] \in [real : {"allow", "deny"}, counter : {"allow", "deny", "escalate"}]
      BY ElementOfSeq DEF ProjectorTypes
    <3> HIDE DEF D
    <3> QED
      BY <3>1, <3>2
  <2>4. IsFiniteSet(D)
    BY <2>1, EventSets, FS_Subset
  <2>5. \A i \in D : events[i].tool \in ToolNames \cup {NoTool}
    BY <2>2, RowTypes
  <2>6. \A i \in D : out[i].counter \in {"allow", "deny", "escalate"}
    BY <2>3
  <2> QED
    BY <2>4, <2>5, <2>6
<1> HIDE DEF D
<1>2. IsFiniteSet(S) /\ IsFiniteSet(Free)
  BY <1>1, FS_Subset
<1>3. Cardinality(D) = Cardinality(S) + Cardinality(Free)
  <2>1. D = S \cup Free /\ S \cap Free = {}
    OBVIOUS
  <2> HIDE DEF S, Free
  <2> QED
    BY <1>2, <2>1, DisjointUnion
<1>4. NoTool \notin ToolNames /\ IsFiniteSet(ToolNames)
  BY PolicyAssumption
<1>5. SumOver(h, ToolNames) = Cardinality(S)
  <2>1. {i \in S : tools[i] \in ToolNames} = S
    BY <1>1
  <2>2. IsFiniteSet(S)
    BY <1>2
  <2> HIDE DEF S, tools
  <2>3. SumOver(h, ToolNames) = Cardinality({i \in S : tools[i] \in ToolNames})
    BY <1>4, <2>2, SumOfGroups
  <2> QED
    BY <2>1, <2>3
<1>6. ASSUME NEW tool \in ToolNames
      PROVE  g[tool] = h[tool] /\ h[tool] \in Int
  <2>1. {i \in S : tools[i] = tool} = Of(tool, "deny") \cup Of(tool, "escalate")
    BY <1>1, <1>4
  <2>2. Of(tool, "deny") \cap Of(tool, "escalate") = {}
    OBVIOUS
  <2>3. Projector!Flipped(tool, "deny") = Cardinality(Of(tool, "deny"))
        /\ Projector!Flipped(tool, "escalate") = Cardinality(Of(tool, "escalate"))
    BY SameCardinality DEF Projector!Flipped, D
  <2>4. IsFiniteSet(Of(tool, "deny")) /\ IsFiniteSet(Of(tool, "escalate"))
    BY <1>1, FS_Subset
  <2>5. g[tool] = Projector!Flipped(tool, "deny") + Projector!Flipped(tool, "escalate")
    OBVIOUS
  <2>6. h[tool] = Cardinality({i \in S : tools[i] = tool})
    OBVIOUS
  <2> HIDE DEF Of, g, h, S, tools
  <2>7. Cardinality(Of(tool, "deny") \cup Of(tool, "escalate")) =
            Cardinality(Of(tool, "deny")) + Cardinality(Of(tool, "escalate"))
    BY <2>2, <2>4, DisjointUnion
  <2>8. Cardinality(Of(tool, "deny") \cup Of(tool, "escalate")) \in Nat
    BY <2>2, <2>4, DisjointUnion, FS_CardinalityType
  <2> QED
    BY <2>1, <2>3, <2>5, <2>6, <2>7, <2>8
<1> HIDE DEF g, h
<1>7. SumOver(h, ToolNames) = SumOver(g, ToolNames)
  BY <1>4, <1>6, SumSame
<1> QED
  BY <1>3, <1>5, <1>7 DEF D, g

LEMMA NothingSeen ==
    ASSUME UNCHANGED <<route, policy, events, out, count_seen, amount_seen>>
    PROVE  /\ ProjectorTypes => ProjectorTypes'
           /\ CountersInv => CountersInv'
           /\ DecisionsInv => DecisionsInv'
           /\ AllowedInv => AllowedInv'
<1>1. /\ \A f : (Projector!Refused(f)' <=> Projector!Refused(f)) /\ Projector!DayKey(f)' = Projector!DayKey(f)
      /\ \A tool : /\ Projector!CountCap(tool)' = Projector!CountCap(tool)
                   /\ Projector!AmountCap(tool)' = Projector!AmountCap(tool)
      /\ Projector!AmountOf' = Projector!AmountOf
  BY DEF Projector!Refused, Projector!DayKey, Projector!CountCap, Projector!AmountCap, Projector!AmountOf
<1>2. \A i, j : Projector!Before(i, j)' <=> Projector!Before(i, j)
  BY <1>1 DEF Projector!Before
<1>3. \A i : Projector!Within(i)' <=> Projector!Within(i)
  <2>1. \A i : {j \in 1..i : Projector!Before(i, j)'} = {j \in 1..i : Projector!Before(i, j)}
    BY <1>2
  <2>2. \A i : Projector!Nth(i)' = Projector!Nth(i)
    BY <2>1 DEF Projector!Nth
  <2> QED
    BY <1>1, <2>2 DEF Projector!Within
<1>4. \A i : Projector!Total(i)' = Projector!Total(i)
  <2>1. \A i : {j \in 1..i : Projector!Before(i, j)' /\ Projector!Within(j)'} =
                {j \in 1..i : Projector!Before(i, j) /\ Projector!Within(j)}
    BY <1>2, <1>3
  <2> QED
    BY <1>1, <2>1 DEF Projector!Total
<1>5. \A i : Projector!Reference(i)' = Projector!Reference(i)
  BY <1>1, <1>3, <1>4 DEF Projector!Reference
<1>6. ProjectorTypes => ProjectorTypes'
  BY DEF ProjectorTypes
<1>7. DecisionsInv => DecisionsInv'
  BY <1>5 DEF DecisionsInv
<1>8. \A tool, day : /\ CountedOf(tool, day)' = CountedOf(tool, day)
                     /\ AllowedOf(tool, day)' = AllowedOf(tool, day)
  BY <1>1 DEF CountedOf, AllowedOf, Counts, IsOf
<1>9. \A tool, day : AddedOf(tool, day)' = AddedOf(tool, day)
  BY <1>3, <1>8 DEF AddedOf
<1>10. CountersInv => CountersInv'
  BY <1>1, <1>8, <1>9 DEF CountersInv, SumOver
<1>11. AllowedInv => AllowedInv'
  BY <1>1, <1>8 DEF AllowedInv, SumOver
<1> QED
  BY <1>6, <1>7, <1>10, <1>11

LEMMA AnswerStep == ASSUME ProjectorInv, Projector!AnswerProject PROVE ProjectorInv'
<1> DEFINE deny == [tool \in ToolNames |-> Projector!Flipped(tool, "deny")]
           escalate == [tool \in ToolNames |-> Projector!Flipped(tool, "escalate")]
<1>1. /\ answer'.diff_count = Cardinality(Projector!Diffs)
      /\ answer'.would_deny = deny /\ answer'.would_escalate = escalate
      /\ UNCHANGED <<route, policy, events, out, count_seen, amount_seen>>
  BY SameCardinality DEF Projector!AnswerProject
<1>2. [tool \in ToolNames |-> answer'.would_deny[tool] + answer'.would_escalate[tool]] =
          [tool \in ToolNames |-> Projector!Flipped(tool, "deny") + Projector!Flipped(tool, "escalate")]
  BY <1>1
<1>3. AnswerInv'
  BY <1>1, <1>2, FlipsCounted DEF AnswerInv, ProjectorInv, SumOver, Projector!SumFunction, Projector!Diffs
<1>4. ProjectorTypes' /\ CountersInv' /\ DecisionsInv' /\ AllowedInv'
  BY <1>1, NothingSeen DEF ProjectorInv
<1> QED
  BY <1>3, <1>4 DEF ProjectorInv

LEMMA ProjectStep ==
    ASSUME ProjectorInv, NEW e \in Projector!Row, Projector!project(e)
    PROVE  ProjectorInv'
<1>1. ProjectorTypes' /\ CountersInv' /\ AllowedInv'
  BY Appended, CountersStep, AllowedStep DEF ProjectorInv
<1>2. PICK n : n = Len(events) + 1
  OBVIOUS
<1>3. PICK k : k = Projector!DayKey(e)
  OBVIOUS
<1>4. DecisionsInv'
  <2>1. /\ DOMAIN events = 1..Len(events) /\ DOMAIN (events') = (1..Len(events)) \cup {n}
        /\ out'[n].counter = Projector!decide(e)
        /\ \A i \in 1..Len(events) : out'[i] = out[i]
    BY <1>2, Appended, EventSets DEF ProjectorInv
  <2>2. Projector!Reference(n)' = Projector!decide(e)
    BY <1>2, <1>3, DecidesAsReference DEF ProjectorInv
  <2>3. \A i \in 1..Len(events) : Projector!Reference(i)' = Projector!Reference(i)
    BY ReferenceKept DEF ProjectorInv
  <2> QED
    BY <2>1, <2>2, <2>3 DEF ProjectorInv, DecisionsInv
<1>5. AnswerInv'
  BY DEF Projector!project, Projector!NoAnswer, AnswerInv
<1> QED
  BY <1>1, <1>4, <1>5 DEF ProjectorInv

LEMMA ProjectorInit == Projector!Init => ProjectorInv
<1> SUFFICES ASSUME Projector!Init PROVE ProjectorInv
  OBVIOUS
<1>1. /\ policy \in Policies /\ events = <<>> /\ out = <<>> /\ answer = Projector!NoAnswer
      /\ count_seen = [key \in ToolNames \X Day |-> 0]
      /\ amount_seen = [key \in ToolNames \X Day |-> 0]
  BY DEF Projector!Init, Day
<1>2. ProjectorTypes
  BY <1>1 DEF ProjectorTypes
<1>3. \A tool \in ToolNames, day \in Day :
          CountedOf(tool, day) = {} /\ AddedOf(tool, day) = {} /\ AllowedOf(tool, day) = {}
  BY <1>1 DEF CountedOf, AddedOf, AllowedOf
<1>4. SumOver(Projector!AmountOf, {}) = 0 /\ Cardinality({}) = 0
  BY <1>2, EventSets, SumLaws, FS_EmptySet
<1>5. \A tool \in ToolNames, day \in Day : count_seen[<<tool, day>>] = 0 /\ amount_seen[<<tool, day>>] = 0
  BY <1>1
<1>6. CountersInv
  BY <1>3, <1>4, <1>5 DEF CountersInv
<1>7. AllowedInv
  <2>1. \A tool \in ToolNames : /\ Projector!CountCap(tool) # NoCap => 0 <= Projector!CountCap(tool)
                                /\ Projector!AmountCap(tool) # NoCap => 0 <= Projector!AmountCap(tool)
    BY <1>2, PolicyTypes
  <2>2. ASSUME NEW tool \in ToolNames, NEW day \in Day
        PROVE  /\ Cardinality(AllowedOf(tool, day)) = 0
               /\ SumOver(Projector!AmountOf, AllowedOf(tool, day)) = 0
               /\ amount_seen[<<tool, day>>] = 0
    BY <1>3, <1>4, <1>5
  <2>3. ASSUME NEW tool \in ToolNames, NEW day \in Day
        PROVE  /\ Projector!CountCap(tool) # NoCap =>
                      Cardinality(AllowedOf(tool, day)) <= Projector!CountCap(tool)
               /\ Projector!AmountCap(tool) # NoCap =>
                      /\ SumOver(Projector!AmountOf, AllowedOf(tool, day)) <= Projector!AmountCap(tool)
                      /\ SumOver(Projector!AmountOf, AllowedOf(tool, day)) <= amount_seen[<<tool, day>>]
    BY <2>1, <2>2
  <2> QED
    BY <2>3 DEF AllowedInv
<1>8. DecisionsInv
  BY <1>1 DEF DecisionsInv
<1>9. AnswerInv
  BY <1>1 DEF AnswerInv, Projector!NoAnswer
<1> QED
  BY <1>2, <1>6, <1>7, <1>8, <1>9 DEF ProjectorInv

LEMMA ProjectorStep == ProjectorInv /\ [Projector!Next]_(Projector!vars) => ProjectorInv'
<1> SUFFICES ASSUME ProjectorInv, [Projector!Next]_(Projector!vars) PROVE ProjectorInv'
  OBVIOUS
<1>1. CASE \E e \in Projector!Row : Projector!project(e)
  BY <1>1, ProjectStep
<1>2. CASE Projector!AnswerProject
  BY <1>2, AnswerStep
<1>3. CASE Projector!AnswerSession
  <2>1. UNCHANGED <<route, policy, events, out, count_seen, amount_seen>> /\ answer'.status = "500"
    BY <1>3 DEF Projector!AnswerSession
  <2>2. AnswerInv'
    BY <2>1 DEF AnswerInv
  <2> QED
    BY <2>1, <2>2, NothingSeen DEF ProjectorInv
<1>4. CASE UNCHANGED Projector!vars
  <2>1. UNCHANGED <<route, policy, events, out, count_seen, amount_seen>> /\ answer' = answer
    BY <1>4 DEF Projector!vars
  <2>2. AnswerInv'
    BY <2>1 DEF AnswerInv, ProjectorInv, Projector!Diffs
  <2> QED
    BY <2>1, <2>2, NothingSeen DEF ProjectorInv
<1> QED
  BY <1>1, <1>2, <1>3, <1>4 DEF Projector!Next

\* whatif/projector.py: "Walk events in chain order".  Under any policy and for any
\* events each decision is that of the reference, which knows no counters; what
\* would be allowed of a tool in a day keeps to its caps; and every flip is in the
\* summary.
THEOREM ProjectionIsExact == WrappersSpec => []ProjectionExact
<1>1. ProjectorInv => ProjectionExact
  <2> SUFFICES ASSUME ProjectorInv PROVE ProjectionExact
    OBVIOUS
  <2>1. \A tool \in ToolNames, day \in Day :
            AllowedOf(tool, day) = {i \in DOMAIN events : /\ events[i].tool = tool /\ Projector!DayKey(events[i]) = day
                                                          /\ out[i].counter # "deny"}
    BY DEF AllowedOf, IsOf
  <2> QED
    BY <2>1, SameCardinality DEF ProjectorInv, DecisionsInv, AllowedInv, AnswerInv, ProjectionExact,
           Projector!ProjectionExact, SumOver, Day
<1> QED
  BY <1>1, ProjectorInit, ProjectorStep, WrappersParts, PTL DEF Projector!Spec

===============================================================================
