------------------------------- MODULE Callback -------------------------------
(***************************************************************************)
(* One GoderashCallback of the LangGraph adapters (callback.py and         *)
(* adapter-langgraph/src/index.ts).  LangChain calls it when a chain, a    *)
(* tool or a model begins, ends or fails, from whatever thread that runs   *)
(* in; the first root chain becomes the agent's turn until it ends.        *)
(*                                                                         *)
(* In Python an emission may raise after the event was buffered; LangChain *)
(* logs what a handler raises (raise_error is False) and goes on, so what  *)
(* the handler had still to do is not done.                                *)
(***************************************************************************)
EXTENDS Integers, Sequences, FiniteSets

CONSTANTS Runs, NoRun

VARIABLES python,    \* which of the two
          run,       \* run[r]: what LangChain does in r: [kind, root, phase]
          started,   \* _started, this.started: the runs it has
          rootRunId,
          turns,     \* agent.turn.started and agent.turn.completed, as emitted
          raced      \* history: two root chains had found no turn at once

vars == <<python, run, started, rootRunId, turns, raced>>

New == [kind |-> "none", root |-> FALSE, phase |-> "new"]

Init ==
    /\ python \in BOOLEAN
    /\ run = [r \in Runs |-> New]
    /\ started = {} /\ rootRunId = NoRun
    /\ turns = <<>> /\ raced = FALSE

Event(type, r) == [type |-> type, run |-> r]
Phase(r, phase) == run' = [run EXCEPT ![r].phase = phase]

-----------------------------------------------------------------------------
\* Chains.

\* Mutation: any root chain is a turn.
IsTurn_AnyRoot(r) == run[r].root

\* The test in on_chain_start.
IsTurn(r) == run[r].root /\ rootRunId = NoRun

\* A chain begins.  In Python another thread may run between the test and the
\* assignment; in JavaScript the handler is one step.
on_chain_start(r, root) ==
    /\ run[r].phase = "new"
    /\ run' = [run EXCEPT ![r] = [kind |-> "chain", root |-> root, phase |-> "test"]]
    /\ UNCHANGED <<python, started, rootRunId, turns, raced>>

TestTurn(r) ==
    /\ run[r].phase = "test" /\ python
    /\ IF IsTurn(r)
       THEN /\ Phase(r, "begin")
            /\ raced' = (raced \/ \E q \in Runs : run[q].phase = "begin")
       ELSE Phase(r, "runs") /\ UNCHANGED raced
    /\ UNCHANGED <<python, started, rootRunId, turns>>

\* The assignment and the emission.
BeginTurn(r) ==
    /\ rootRunId' = r
    /\ started' = started \cup {r}
    /\ turns' = Append(turns, Event("started", r))
    /\ Phase(r, "runs")
    /\ UNCHANGED <<python, raced>>

SetTurn(r) == run[r].phase = "begin" /\ BeginTurn(r)

handleChainStart(r) ==
    /\ run[r].phase = "test" /\ ~python
    /\ IF IsTurn(r) THEN BeginTurn(r)
       ELSE Phase(r, "runs") /\ UNCHANGED <<python, started, rootRunId, turns, raced>>

Running(r, kind) == run[r].kind = kind /\ run[r].phase = "runs"

\* Mutation: the end of any root chain ends the turn.
EndsTurn_AnyRoot(r) == run[r].root /\ rootRunId # NoRun

EndsTurn(r) == run[r].root /\ rootRunId = r

\* The turn is emitted as completed, and forgotten, unless the emission raises.
CloseTurn(r) ==
    /\ turns' = Append(turns, Event("completed", r))
    /\ started' = started \ {r}
    /\ rootRunId' = NoRun \/ (python /\ UNCHANGED rootRunId)

NoTurn == UNCHANGED <<started, rootRunId, turns>>

on_chain_end(r) ==
    /\ Running(r, "chain") /\ python
    /\ IF EndsTurn(r) THEN CloseTurn(r) ELSE NoTurn
    /\ Phase(r, "ended")
    /\ UNCHANGED <<python, raced>>

handleChainEnd(r) ==
    /\ Running(r, "chain") /\ ~python
    /\ IF EndsTurn(r) THEN CloseTurn(r) ELSE NoTurn
    /\ Phase(r, "ended")
    /\ UNCHANGED <<python, raced>>

handleChainError(r) ==
    /\ Running(r, "chain") /\ ~python
    /\ IF EndsTurn(r) THEN CloseTurn(r) ELSE NoTurn
    /\ Phase(r, "failed")
    /\ UNCHANGED <<python, raced>>

\* There is no on_chain_error: the turn stays open.
ChainError(r) ==
    /\ Running(r, "chain") /\ python
    /\ Phase(r, "failed") /\ NoTurn
    /\ UNCHANGED <<python, raced>>

-----------------------------------------------------------------------------
\* Tools and models, in both languages.

Begins(r, kind) ==
    /\ run[r].phase = "new"
    /\ run' = [run EXCEPT ![r] = [kind |-> kind, root |-> FALSE, phase |-> "runs"]]
    /\ started' = started \cup {r}
    /\ UNCHANGED <<python, rootRunId, turns, raced>>

Finishes(r, kind, phase) ==
    /\ Running(r, kind)
    /\ Phase(r, phase)
    /\ started' = started \ {r}
    /\ UNCHANGED <<python, rootRunId, turns, raced>>

on_tool_start(r) == python /\ Begins(r, "tool")
on_tool_end(r)   == python /\ Finishes(r, "tool", "ended")
on_tool_error(r) == python /\ Finishes(r, "tool", "failed")
on_llm_start(r)  == python /\ Begins(r, "llm")
on_llm_end(r)    == python /\ Finishes(r, "llm", "ended")

handleToolStart(r) == ~python /\ Begins(r, "tool")
handleToolEnd(r)   == ~python /\ Finishes(r, "tool", "ended")
handleToolError(r) == ~python /\ Finishes(r, "tool", "failed")
handleLLMStart(r)  == ~python /\ Begins(r, "llm")
handleLLMEnd(r)    == ~python /\ Finishes(r, "llm", "ended")

\* Nobody handles the error of a model.
LLMError(r) ==
    /\ Running(r, "llm") /\ Phase(r, "failed")
    /\ UNCHANGED <<python, started, rootRunId, turns, raced>>

Next == \E r \in Runs :
    \/ \E root \in BOOLEAN : on_chain_start(r, root)
    \/ TestTurn(r) \/ SetTurn(r) \/ handleChainStart(r)
    \/ on_chain_end(r) \/ handleChainEnd(r) \/ handleChainError(r) \/ ChainError(r)
    \/ on_tool_start(r) \/ on_tool_end(r) \/ on_tool_error(r) \/ on_llm_start(r) \/ on_llm_end(r)
    \/ handleToolStart(r) \/ handleToolEnd(r) \/ handleToolError(r) \/ handleLLMStart(r)
    \/ handleLLMEnd(r) \/ LLMError(r)

Spec == Init /\ [][Next]_vars

-----------------------------------------------------------------------------
\* Safety.

\* The turns of a conversation do not overlap, however many root chains share the
\* callback: what is emitted is a turn's start and its own end, in turn.  In
\* JavaScript the turn that is open is the run that is kept as the root, and
\* while it runs; in Python it may be one that failed long ago.  Nothing is said of
\* turns once raced, that is, once two threads have found no turn at the same time.
Alternates ==
    \A i \in DOMAIN turns :
        IF i % 2 = 1 THEN turns[i].type = "started"
        ELSE turns[i] = Event("completed", turns[i - 1].run)

TurnsBracketed ==
    /\ ~raced => Alternates
    /\ ~python => /\ rootRunId # NoRun => run[rootRunId].phase = "runs"
                  /\ rootRunId # NoRun <=> Len(turns) % 2 = 1
    /\ \A r \in started :
           ~raced /\ run[r].phase # "runs" => run[r].phase = "failed" /\ (python \/ run[r].kind = "llm")

=============================================================================
