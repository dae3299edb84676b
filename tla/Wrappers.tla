------------------------------- MODULE Wrappers -------------------------------
(***************************************************************************)
(* The wrappers that bracket a call of the application with events, in the *)
(* Python SDK (goderash_sdk/wrap, the anthropic and openai adapters) and   *)
(* in the TypeScript one (sdk-ts/src/wrap, adapter-claude-sdk,             *)
(* adapter-openai-assistants), and the CancellationToken that tools check. *)
(*                                                                         *)
(* Wrapped calls nest: an agent's turn calls tools and models, a tool may  *)
(* call an agent.  An exception goes up through the wrappers until a body  *)
(* handles it.  In Python an emission may raise after the event was        *)
(* buffered, as it flushes when the batch is full; in TypeScript it never  *)
(* does.  A call without a context is not audited and not a call here.     *)
(*                                                                         *)
(* The events of a call are kept apart from those of other calls; what a   *)
(* wrapper does after the body is one step.                                *)
(***************************************************************************)
EXTENDS Integers, Sequences, FiniteSets

CONSTANTS Threads,     \* threads or tasks of the application
          MaxCalls,    \* bound: calls that may begin
          MaxDepth,    \* bound: calls within one another
          MaxBlocks,   \* bound: tools that one model answer asks for, or one run has called
          Cancellers,  \* who may call cancel(), once each
          NoReason     \* cancel() without a reason

ASSUME WrappersAssumption ==
    /\ MaxBlocks \in Nat
    /\ NoReason \notin Cancellers

VARIABLES lang,       \* the SDK in use
          calls,      \* the calls that have begun, in order
          stack,      \* stack[t]: the calls whose bodies t is in, innermost last
          raising,    \* raising[t]: the exception under way in t, or "none"
          reason,     \* CancellationToken.reason
          cancelled,  \* CancellationToken._event
          canceller,  \* canceller[p]: what p does with the token
          told        \* history: the reasons of the CancelledErrors raised

vars  == <<lang, calls, stack, raising, reason, cancelled, canceller, told>>
token == <<reason, cancelled, canceller, told>>

\* A BaseException that is no Exception: asyncio.CancelledError, KeyboardInterrupt.
Exceptions == IF lang = "python" THEN {"Exception", "BaseException"} ELSE {"Exception"}

Python     == {"wrap_tool", "wrap_agent", "wrap_llm", "wrap_openai", "wrap_anthropic"}
TypeScript == {"wrapTool", "wrapAgent", "wrapLLM", "wrapAnthropic"}
Tools  == {"wrap_tool", "wrapTool"}
Agents == {"wrap_agent", "wrapAgent"}

Start(w) == IF w \in Tools THEN "tool.invoked"
            ELSE IF w \in Agents THEN "agent.turn.started" ELSE "llm.call.started"
Ends(w) == IF w \in Tools THEN {"tool.completed", "tool.failed"}
           ELSE IF w \in Agents THEN {"agent.turn.completed"} ELSE {"llm.call.completed"}

Init ==
    /\ lang \in {"python", "typescript"}
    /\ calls = <<>>
    /\ stack = [t \in Threads |-> <<>>]
    /\ raising = [t \in Threads |-> "none"]
    /\ reason = NoReason /\ cancelled = FALSE
    /\ canceller = [p \in Cancellers |-> "idle"]
    /\ told = {}

-----------------------------------------------------------------------------
\* What a wrapper emits after the body, and what it raises then.

Outcome(events, raises) == [events |-> events, raises |-> raises]

\* GoderashClient.emit in Python: the event is buffered, then flush_sync may raise.
Emits(events) ==
    {Outcome(events, "none")} \cup
    {Outcome(SubSeq(events, 1, i), "Exception") : i \in 1..Len(events)}

\* The post-processing of a result may raise: it cannot be hashed, its token
\* counts are no numbers.
Unusable == {Outcome(<<>>, "Exception")}

Repeat(event, n) == [i \in 1..n |-> event]

\* Each takes how the body ended: "return" or the kind of exception.

\* Mutation: as if a tool that fails had been completed.
wrap_tool_AlwaysCompleted(end) == Emits(<<"tool.completed">>)

wrap_tool(end) ==
    IF end = "return" THEN Unusable \cup Emits(<<"tool.completed">>)
    ELSE IF end = "Exception" THEN {Outcome(<<"tool.failed">>, "Exception")}
    ELSE {Outcome(<<>>, end)}

\* The finally clause reads `result', which is not bound if the body raised.
wrap_agent(end) ==
    IF end = "return" THEN Emits(<<"agent.turn.completed">>)
    ELSE {Outcome(<<>>, "Exception")}

wrap_llm(end) ==
    IF end = "return" THEN Unusable \cup Emits(<<"llm.call.completed">>)
    ELSE {Outcome(<<>>, end)}

\* proxy in _wrap_method.
wrap_openai(end) == wrap_llm(end)

\* audit_messages_response: the call, and the tools that the answer asks for.
audit_messages_response ==
    UNION {Emits(<<"llm.call.completed">> \o Repeat("tool.invoked", n)) : n \in 0..MaxBlocks}

wrap_anthropic(end) ==
    IF end = "return" THEN Unusable \cup audit_messages_response
    ELSE {Outcome(<<>>, end)}

\* Mutation: the result is hashed after the event was emitted.
wrapTool_HashLast(end) ==
    IF end = "return"
    THEN {Outcome(<<"tool.completed">>, "none"), Outcome(<<"tool.completed", "tool.failed">>, "Exception")}
    ELSE {Outcome(<<"tool.failed">>, end)}

\* hashJson of the result is within the try: if it fails, the tool has failed.
wrapTool(end) ==
    IF end = "return"
    THEN {Outcome(<<"tool.completed">>, "none"), Outcome(<<"tool.failed">>, "Exception")}
    ELSE {Outcome(<<"tool.failed">>, end)}

\* The flush in its finally clause raises nothing.
wrapAgent(end) == {Outcome(<<"agent.turn.completed">>, IF end = "return" THEN "none" ELSE end)}

wrapLLM(end) ==
    IF end = "return" THEN Unusable \cup {Outcome(<<"llm.call.completed">>, "none")}
    ELSE {Outcome(<<>>, end)}

\* The catch clause is also for an answer that cannot be audited.
wrapAnthropic(end) ==
    LET failed == <<"llm.call.completed", "tool.failed">>
        audit(n) == <<"llm.call.completed">> \o Repeat("tool.invoked", n)
    IN  IF end = "return"
        THEN {Outcome(audit(n), "none") : n \in 0..MaxBlocks}
             \cup {Outcome(failed, "Exception")}
             \cup {Outcome(audit(n) \o failed, "Exception") : n \in 0..(MaxBlocks - 1)}
        ELSE {Outcome(failed, end)}

After(w, end) ==
    CASE w = "wrap_tool"      -> wrap_tool(end)
      [] w = "wrap_agent"     -> wrap_agent(end)
      [] w = "wrap_llm"       -> wrap_llm(end)
      [] w = "wrap_openai"    -> wrap_openai(end)
      [] w = "wrap_anthropic" -> wrap_anthropic(end)
      [] w = "wrapTool"       -> wrapTool(end)
      [] w = "wrapAgent"      -> wrapAgent(end)
      [] w = "wrapLLM"        -> wrapLLM(end)
      [] w = "wrapAnthropic"  -> wrapAnthropic(end)

-----------------------------------------------------------------------------
\* Calls.

Top(t) == stack[t][Len(stack[t])]
InBody(t) == raising[t] = "none"

\* The wrapped function is called: in its body, or out again by an exception
\* from the hash of its arguments, from the message, or from the first emission.
Enter(t) ==
    /\ InBody(t) /\ Len(stack[t]) < MaxDepth /\ Len(calls) < MaxCalls
    /\ \E w \in IF lang = "python" THEN Python ELSE TypeScript :
           LET Begun(events, left) ==
                   calls' = Append(calls, [wrapper |-> w, events |-> events, body |-> "open", left |-> left])
           IN  \/ /\ Begun(<<Start(w)>>, "no")
                  /\ stack' = [stack EXCEPT ![t] = Append(@, Len(calls) + 1)]
                  /\ UNCHANGED raising
               \/ /\ \/ w \in Tools \cup {"wrap_agent"} /\ Begun(<<>>, "raised")
                     \/ lang = "python" /\ Begun(<<Start(w)>>, "raised")
                  /\ raising' = [raising EXCEPT ![t] = "Exception"]
                  /\ UNCHANGED stack
    /\ UNCHANGED <<lang, token>>

\* The body of the innermost call is over, with `end'.
Leave(t, end) ==
    /\ stack[t] # <<>>
    /\ \E o \in After(calls[Top(t)].wrapper, end) :
           /\ calls' = [calls EXCEPT ![Top(t)].events = @ \o o.events, ![Top(t)].body = end,
                                     ![Top(t)].left = IF o.raises = "none" THEN "returned" ELSE "raised"]
           /\ raising' = [raising EXCEPT ![t] = o.raises]
    /\ stack' = [stack EXCEPT ![t] = SubSeq(@, 1, Len(@) - 1)]
    /\ UNCHANGED <<lang, token>>

Return(t) == InBody(t) /\ Leave(t, "return")
Unwind(t) == ~InBody(t) /\ Leave(t, raising[t])

\* The body of the innermost call raises, or handles what one of its calls raised.
Throw(t) ==
    /\ InBody(t) /\ stack[t] # <<>>
    /\ \E k \in Exceptions : raising' = [raising EXCEPT ![t] = k]
    /\ UNCHANGED <<lang, calls, stack, token>>

Handle(t) ==
    /\ ~InBody(t)
    /\ raising' = [raising EXCEPT ![t] = "none"]
    /\ UNCHANGED <<lang, calls, stack, token>>

-----------------------------------------------------------------------------
\* audit_assistants_run and auditAssistantsRun: a run of the Assistants API is
\* over, and its function calls (with or without an output) and calls of built-in
\* tools are put in the ledger; then the failure of the run itself.

Steps(withOutput, without, failed) ==
    LET done == [i \in 1..(2 * withOutput) |-> IF i % 2 = 1 THEN "tool.invoked" ELSE "tool.completed"]
    IN  done \o Repeat("tool.invoked", without) \o (IF failed THEN <<"tool.failed">> ELSE <<>>)

Runs == {Steps(n, m, f) : n \in 0..MaxBlocks, m \in 0..MaxBlocks, f \in BOOLEAN}

audit_assistants_run == IF lang = "python" THEN UNION {Emits(r) : r \in Runs} ELSE {}
auditAssistantsRun   == IF lang = "typescript" THEN {Outcome(r, "none") : r \in Runs} ELSE {}

AuditRun(t) ==
    /\ InBody(t) /\ Len(calls) < MaxCalls
    /\ \E o \in audit_assistants_run \cup auditAssistantsRun :
           /\ calls' = Append(calls, [wrapper |-> "assistants", events |-> o.events, body |-> "return",
                                      left |-> IF o.raises = "none" THEN "returned" ELSE "raised"])
           /\ raising' = [raising EXCEPT ![t] = o.raises]
    /\ UNCHANGED <<lang, stack, token>>

-----------------------------------------------------------------------------
\* CancellationToken.

\* Mutation: cancel() sets the event first.
cancel_EventFirst(p) ==
    \/ /\ lang = "python" /\ canceller[p] = "idle"
       /\ cancelled' = TRUE /\ canceller' = [canceller EXCEPT ![p] = "half"]
       /\ UNCHANGED <<lang, calls, stack, raising, reason, told>>
    \/ /\ canceller[p] = "half"
       /\ reason' = p
       /\ canceller' = [canceller EXCEPT ![p] = "with"]
       /\ UNCHANGED <<lang, calls, stack, raising, cancelled, told>>

\* cancel() writes the reason, or that there is none, and then sets the event.
cancel(p) ==
    \/ /\ lang = "python" /\ canceller[p] = "idle"
       /\ \/ reason' = p /\ canceller' = [canceller EXCEPT ![p] = "with"]
          \/ reason' = NoReason /\ canceller' = [canceller EXCEPT ![p] = "without"]
       /\ UNCHANGED <<lang, calls, stack, raising, cancelled, told>>
    \/ /\ canceller[p] \in {"with", "without"} /\ ~cancelled
       /\ cancelled' = TRUE
       /\ UNCHANGED <<lang, calls, stack, raising, reason, canceller, told>>

\* The body of a call checks the token.
raise_if_cancelled(t) ==
    /\ InBody(t) /\ stack[t] # <<>> /\ cancelled
    /\ told' = told \cup {reason}
    /\ raising' = [raising EXCEPT ![t] = "Exception"]
    /\ UNCHANGED <<lang, calls, stack, reason, cancelled, canceller>>

Next ==
    \/ \E t \in Threads : \/ Enter(t) \/ Return(t) \/ Unwind(t) \/ Throw(t) \/ Handle(t)
                          \/ AuditRun(t) \/ raise_if_cancelled(t)
    \/ \E p \in Cancellers : cancel(p)

Spec == Init /\ [][Next]_vars

-----------------------------------------------------------------------------
\* Safety.

\* wrap/tool.py: "Every call emits tool.invoked, then either tool.completed or
\* tool.failed".  Through whatever calls and handlers an exception has come: a
\* call that returned is in the ledger with its start and one end; a tool whose
\* body raised an Exception has failed; a tool is completed only if its body
\* returned; no call has a second end, except for a model's answer that could
\* not be audited, and none has an end before it is over.
EndsIn(w, events) == {i \in DOMAIN events : events[i] \in Ends(w)}
EndsAt(c) == EndsIn(c.wrapper, c.events)
OneEnd(c, e) == \E i \in EndsAt(c) : EndsAt(c) = {i} /\ c.events[i] = e

\* The steps of an assistants run are audited once it is over, and those without
\* an output have no end: nothing is promised of them, and the run counts for the
\* exceptions that it sends through the calls around it.
Audited == {calls[i] : i \in {j \in DOMAIN calls : calls[j].wrapper # "assistants"}}

Accounted(c) ==
    /\ c.left = "returned" =>
           c.body = "return" /\ c.events[1] = Start(c.wrapper) /\ Cardinality(EndsAt(c)) = 1
    /\ c.wrapper \in Tools =>
           /\ c.body = "Exception" => OneEnd(c, "tool.failed")
           /\ OneEnd(c, "tool.completed") => c.body = "return"
    /\ Cardinality(EndsAt(c)) > 1 => c.wrapper = "wrapAnthropic" /\ c.body = "return" /\ c.left = "raised"
    /\ c.body = "open" => EndsAt(c) = {}

CallsAccounted == \A c \in Audited : Accounted(c)

\* A tool that is cancelled is told a reason that somebody gave, and is told none
\* only if somebody gave none, however the calls of cancel() overlap.
CancelReason ==
    \A r \in told : IF r = NoReason THEN \E p \in Cancellers : canceller[p] = "without"
                                    ELSE canceller[r] = "with"

=============================================================================
