------------------------------ MODULE Delivery ------------------------------
(***************************************************************************)
(* An SDK client in front of the ledger (goderash_sdk/client.py): threads  *)
(* (or asyncio tasks) that share one GoderashClient emit events into its   *)
(* buffer, drain it in batches and POST each batch until it is answered,   *)
(* refused, or the attempts are used up.                                   *)
(*                                                                         *)
(* A request that was sent may arrive at any later time or never, and its  *)
(* answer may be lost: a handler may still be at work on a batch that the  *)
(* client has sent again or has given up.                                  *)
(*                                                                         *)
(* The server side is what Ledger is proved to implement (AppendLog), with *)
(* the phases that a client can tell apart.  A request that waits for the  *)
(* advisory lock is as good as one that has not arrived; the handler that  *)
(* has the lock inserts, answers 202, and then commits.                    *)
(***************************************************************************)
EXTENDS Integers, Sequences, FiniteSets

CONSTANTS Events,       \* event ids, all of one tenant
          Batches,      \* the sequences of distinct events
          Threads,      \* threads or tasks that share the client
          Program,      \* Program[th]: the events th emits, in order
          BatchSize,    \* batch_size
          RetryMax,     \* _RETRY_MAX
          InFlight      \* bound: requests that the network keeps; more are lost

\* event_id is a fresh UUID: no event is emitted twice.
ASSUME DeliveryAssumption ==
    /\ IsFiniteSet(Threads) /\ IsFiniteSet(Events)
    /\ \A n \in 1..Cardinality(Events) : \A b \in [1..n -> Events] :
           (\A i, j \in 1..n : i # j => b[i] # b[j]) => b \in Batches
    /\ Program \in [Threads -> Seq(Events)]
    /\ BatchSize \in Nat \ {0}
    /\ RetryMax \in Nat /\ InFlight \in Nat
    /\ \A a, b \in Threads : \A i \in DOMAIN Program[a], j \in DOMAIN Program[b] :
           Program[a][i] = Program[b][j] => a = b /\ i = j

VARIABLES emitted,      \* emitted[th]: how many events of its program th has emitted
          buffer,       \* _ClientState.buffer
          state,        \* state[th]: where th is in emit, flush and _post
          local,        \* local[th]: the batch th has drained and is posting
          attempt,      \* attempt[th]: the loop variable of _post
          network,      \* requests on their way to the server or waiting there
          serving,      \* requests that are answered and not committed
          log,          \* the committed events of the tenant, in chain order
          drained,      \* history: drained[th], the batches th drained, in order
          raised,       \* history: the batches whose flush raised
          undone        \* history: the batches whose commit failed after the 202

client  == <<emitted, buffer, state, local, attempt>>
server  == <<serving, log>>
history == <<drained, raised, undone>>
vars    == <<client, network, server, history>>

ElementsOf(s) == {s[i] : i \in DOMAIN s}

Init ==
    /\ emitted = [th \in Threads |-> 0]
    /\ buffer = <<>>
    /\ state = [th \in Threads |-> "running"]
    /\ local = [th \in Threads |-> <<>>]
    /\ attempt = [th \in Threads |-> 0]
    /\ network = {}
    /\ serving = {}
    /\ log = <<>>
    /\ drained = [th \in Threads |-> <<>>]
    /\ raised = {}
    /\ undone = {}

Message == [thread : Threads, attempt : 0..RetryMax, body : Batches]

TypeOK ==
    /\ emitted \in [Threads -> Nat]
    /\ buffer \in Seq(Events)
    /\ state \in [Threads -> {"running", "flushing", "posting"}]
    /\ local \in [Threads -> Batches \cup {<<>>}]
    /\ attempt \in [Threads -> 0..RetryMax]
    /\ network \subseteq Message
    /\ serving \subseteq Message
    /\ log \in Seq(Events)

-----------------------------------------------------------------------------
\* The client.

\* Mutation: the length is compared before the event is appended.
Emit_ComparesOldLength(th) ==
    /\ state[th] = "running"
    /\ emitted[th] < Len(Program[th])
    /\ emitted' = [emitted EXCEPT ![th] = @ + 1]
    /\ buffer' = Append(buffer, Program[th][emitted[th] + 1])
    /\ state' = [state EXCEPT ![th] = IF Len(buffer) >= BatchSize THEN "flushing" ELSE @]
    /\ UNCHANGED <<local, attempt, network, server, history>>

\* emit: the event is appended, and the length compared, under the lock.
Emit(th) ==
    /\ state[th] = "running"
    /\ emitted[th] < Len(Program[th])
    /\ emitted' = [emitted EXCEPT ![th] = @ + 1]
    /\ buffer' = Append(buffer, Program[th][emitted[th] + 1])
    /\ state' = [state EXCEPT ![th] = IF Len(buffer') >= BatchSize THEN "flushing" ELSE @]
    /\ UNCHANGED <<local, attempt, network, server, history>>

\* flush or flush_sync is called: by the application, at the end of a turn,
\* by aclose.  (With an empty buffer the call returns at once.)
Flush(th) ==
    /\ state[th] = "running"
    /\ buffer # <<>>
    /\ state' = [state EXCEPT ![th] = "flushing"]
    /\ UNCHANGED <<emitted, buffer, local, attempt, network, server, history>>

\* client.post in the attempt of that number.
Post(th, number) ==
    /\ attempt' = [attempt EXCEPT ![th] = number]
    /\ network' = IF Cardinality(network) = InFlight THEN network
                  ELSE network \cup {[thread |-> th, attempt |-> number, body |-> local'[th]]}

\* Mutation: the buffer is copied and not cleared.
Drain_KeepsBuffer(th) ==
    /\ state[th] = "flushing" /\ buffer # <<>>
    /\ local' = [local EXCEPT ![th] = buffer]
    /\ state' = [state EXCEPT ![th] = "posting"]
    /\ drained' = [drained EXCEPT ![th] = Append(@, buffer)]
    /\ Post(th, 0)
    /\ UNCHANGED <<emitted, buffer, server, raised, undone>>

\* _drain takes the whole buffer under the lock, and the batch is posted.
Drain(th) ==
    /\ state[th] = "flushing" /\ buffer # <<>>
    /\ buffer' = <<>>
    /\ local' = [local EXCEPT ![th] = buffer]
    /\ state' = [state EXCEPT ![th] = "posting"]
    /\ drained' = [drained EXCEPT ![th] = Append(@, buffer)]
    /\ Post(th, 0)
    /\ UNCHANGED <<emitted, server, raised, undone>>

\* Another thread was faster: there is nothing to send.
DrainNothing(th) ==
    /\ state[th] = "flushing" /\ buffer = <<>>
    /\ state' = [state EXCEPT ![th] = "running"]
    /\ UNCHANGED <<emitted, buffer, local, attempt, network, server, history>>

\* The flush of thread th is over; the batch is gone from the client.
Return(th) ==
    /\ state' = [state EXCEPT ![th] = "running"]
    /\ local' = [local EXCEPT ![th] = <<>>]
    /\ attempt' = [attempt EXCEPT ![th] = 0]
    /\ UNCHANGED <<emitted, buffer>>

Raise(th) ==
    /\ Return(th)
    /\ raised' = raised \cup {local[th]}
    /\ UNCHANGED <<drained, undone>>

\* Mutation: the loop variable of _post does not advance.
TryAgain_SameAttempt(th) ==
    /\ state[th] = "posting" /\ attempt[th] < RetryMax
    /\ UNCHANGED local
    /\ Post(th, attempt[th])
    /\ UNCHANGED <<emitted, buffer, state, server, history>>

\* Mutation: the loop has no end.
TryAgain_Forever(th) ==
    /\ state[th] = "posting"
    /\ UNCHANGED local
    /\ Post(th, attempt[th] + 1)
    /\ UNCHANGED <<emitted, buffer, state, server, history>>

\* A transport error, a timeout, or a 429 or 5xx answer, and not the last
\* attempt: after the backoff the same batch is posted again.
TryAgain(th) ==
    /\ state[th] = "posting" /\ attempt[th] < RetryMax
    /\ UNCHANGED local
    /\ Post(th, attempt[th] + 1)
    /\ UNCHANGED <<emitted, buffer, state, server, history>>

\* Mutation: an exhausted flush returns as if it had succeeded.
GiveUp_Silently(th) ==
    /\ state[th] = "posting" /\ attempt[th] = RetryMax
    /\ Return(th)
    /\ UNCHANGED <<network, server, history>>

\* The same in the last attempt: last_exc is raised.
GiveUp(th) ==
    /\ state[th] = "posting" /\ attempt[th] = RetryMax
    /\ Raise(th)
    /\ UNCHANGED <<network, server>>

\* The task is cancelled, or the thread interrupted, while it posts or sleeps.
Interrupt(th) ==
    /\ state[th] = "posting"
    /\ Raise(th)
    /\ UNCHANGED <<network, server>>

-----------------------------------------------------------------------------
\* The server, as seen from the client.

\* The thread that sent m is still waiting for the answer to m.
Waits(m) ==
    /\ state[m.thread] = "posting"
    /\ attempt[m.thread] = m.attempt
    /\ local[m.thread] = m.body

\* A status that is not retried (400, 401, 402, 403, 413, 422), answered
\* before anything is written: raise_for_status.
Refuse(m) ==
    /\ network' = network \ {m}
    /\ IF Waits(m) THEN Raise(m.thread) ELSE UNCHANGED <<client, history>>
    /\ UNCHANGED server

\* The handler inserts its rows and answers 202.  The answer is lost, or the
\* client takes it.
Serve(m) ==
    /\ m \in network
    /\ serving' = serving \cup {m}
    /\ network' = network \ {m}
    /\ \/ UNCHANGED client
       \/ Waits(m) /\ Return(m.thread)
    /\ UNCHANGED <<log, history>>

\* Mutation: the rows are inserted without the advisory lock.
Answer_WithoutLock(m) == Serve(m)

\* The same, once no other handler holds the advisory lock: none has
\* inserted and not committed.
Answer(m) == serving = {} /\ Serve(m)

\* Mutation: a repeated batch is inserted again.
Commit_NoConflictClause(m) ==
    /\ m \in serving
    /\ log' = log \o m.body
    /\ serving' = serving \ {m}
    /\ UNCHANGED <<client, network, history>>

\* The events of b that are not stored yet, in their order.
Fresh(b) ==
    LET kept == {i \in DOMAIN b : b[i] \notin ElementsOf(log)}
        Rank(i) == Cardinality({j \in kept : j <= i})
    IN  [n \in 1..Cardinality(kept) |-> b[CHOOSE i \in kept : Rank(i) = n]]

\* The commit: what is fresh of the batch becomes part of the log.
Commit(m) ==
    /\ m \in serving
    /\ log' = log \o Fresh(m.body)
    /\ serving' = serving \ {m}
    /\ UNCHANGED <<client, network, history>>

\* The commit fails, or the process dies before it, after the 202.  (A handler
\* that fails earlier leaves nothing behind: TryAgain and GiveUp.)
CommitFails(m) ==
    /\ m \in serving
    /\ undone' = undone \cup {m.body}
    /\ serving' = serving \ {m}
    /\ UNCHANGED <<client, network, log, drained, raised>>

Next ==
    \/ \E th \in Threads :
           \/ Emit(th) \/ Flush(th) \/ Drain(th) \/ DrainNothing(th)
           \/ TryAgain(th) \/ GiveUp(th) \/ Interrupt(th)
    \/ \E m \in network : Answer(m) \/ Refuse(m)
    \/ \E m \in serving : Commit(m) \/ CommitFails(m)

\* A thread runs, and httpx gives up on an answer after timeout_seconds.
Fairness ==
    \A th \in Threads :
        WF_vars(Drain(th) \/ DrainNothing(th) \/ TryAgain(th) \/ GiveUp(th))

Spec == Init /\ [][Next]_vars

FairSpec == Spec /\ Fairness

-----------------------------------------------------------------------------
\* What the theorems of the ledger assume of its clients (BatchesDisjoint),
\* of the SDK: however threads interleave in emit, flush and retry, no event
\* is in two of the batches it drains, nor twice in one, and what a request
\* carries is one of these batches, unchanged.
DrainedDisjoint ==
    /\ \A a, b \in Threads : \A i \in DOMAIN drained[a], j \in DOMAIN drained[b] :
           <<a, i>> # <<b, j>> =>
               ElementsOf(drained[a][i]) \cap ElementsOf(drained[b][j]) = {}
    /\ \A a \in Threads : \A k \in DOMAIN drained[a] :
           \A i, j \in DOMAIN drained[a][k] :
               i # j => drained[a][k][i] # drained[a][k][j]
    /\ \A m \in network : \E i \in DOMAIN drained[m.thread] : m.body = drained[m.thread][i]

\* An emitted event is never lost unnoticed: it is in the buffer, in a batch
\* that a thread is still posting, in the ledger, or in a transaction whose
\* 202 has been sent -- or the flush of its batch has raised, or the commit
\* that followed the 202 failed.
Accounted ==
    \A th \in Threads : \A i \in 1..emitted[th] :
        LET e == Program[th][i] IN
        \/ e \in ElementsOf(buffer)
        \/ \E u \in Threads : e \in ElementsOf(local[u])
        \/ e \in ElementsOf(log)
        \/ \E m \in serving : e \in ElementsOf(m.body)
        \/ \E b \in raised \cup undone : e \in ElementsOf(b)

\* However often a batch is sent, refused, answered or lost, what becomes of
\* the ledger is the append-only log that store.py promises: every drained
\* batch enters it at most once and whole.
Promise == INSTANCE AppendLog WITH Tenants <- {"tenant"}, log <- [t \in {"tenant"} |-> log],
                                   TenantOf <- [e \in Events |-> "tenant"]

ImplementsAppendLog == Promise!Spec

\* What one thread drained first is in the ledger first, although a 202 is
\* sent before the commit and late duplicates are still being served: the
\* next batch waits for the lock.
DrainOrderKept ==
    \A th \in Threads : \A i, j \in DOMAIN drained[th] :
        LET b == drained[th][i]
            c == drained[th][j]
        IN  i < j /\ b \notin raised \cup undone =>
                \A n \in DOMAIN log : log[n] \in ElementsOf(c) =>
                    ElementsOf(b) \subseteq {log[k] : k \in 1..(n-1)}

\* The buffer exceeds batch_size only by the threads that are between their
\* append and their drain, so a batch stays below the server's limit.
BufferBound == Len(buffer) <= BatchSize + Cardinality(Threads) - 1

\* Every flush returns or raises, whatever the server and the network do.
FlushEnds == \A th \in Threads : (state[th] # "running") ~> (state[th] = "running")
=============================================================================
