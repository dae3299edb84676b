--------------------------- MODULE DeliveryProofs ---------------------------
(***************************************************************************)
(* Theorems about the SDK client in front of the ledger, for any number of *)
(* threads, any programs, batch size, retries and network.                 *)
(***************************************************************************)
EXTENDS Delivery, FunctionTheorems, FiniteSetTheorems, SequenceTheorems, TLAPS

-----------------------------------------------------------------------------
\* The batches and what carries them.

Distinct(s) == \A i, j \in DOMAIN s : i # j => s[i] # s[j]

Emitted(e) == \E th \in Threads : \E i \in 1..emitted[th] : Program[th][i] = e

\* What a thread may drain.
Proper(b) == b \in Seq(Events) /\ b # <<>> /\ Distinct(b) /\ \A e \in ElementsOf(b) : Emitted(e)

\* b is one of the batches that th has drained.
IsBatch(th, b) == \E k \in DOMAIN drained[th] : drained[th][k] = b

Msg == [thread : Threads, attempt : 0..RetryMax, body : Seq(Events)]

Shape ==
    /\ emitted \in [Threads -> Nat] /\ \A th \in Threads : emitted[th] <= Len(Program[th])
    /\ buffer \in Seq(Events)
    /\ state \in [Threads -> {"running", "flushing", "posting"}]
    /\ local \in [Threads -> Seq(Events)]
    /\ attempt \in [Threads -> 0..RetryMax]
    /\ network \subseteq Msg /\ serving \subseteq Msg
    /\ log \in Seq(Events)
    /\ drained \in [Threads -> Seq(Seq(Events))]

BufferInv ==
    /\ Distinct(buffer)
    /\ \A e \in ElementsOf(buffer) :
           Emitted(e) /\ \A th \in Threads : \A k \in DOMAIN drained[th] : e \notin ElementsOf(drained[th][k])

BatchInv == \A th \in Threads : \A k \in DOMAIN drained[th] : Proper(drained[th][k])

Disjoint ==
    \A a, b \in Threads : \A i \in DOMAIN drained[a], j \in DOMAIN drained[b] :
        <<a, i>> # <<b, j>> => ElementsOf(drained[a][i]) \cap ElementsOf(drained[b][j]) = {}

CarryInv ==
    /\ \A m \in network \cup serving : IsBatch(m.thread, m.body)
    /\ \A th \in Threads : IF state[th] = "posting" THEN IsBatch(th, local[th]) ELSE local[th] = <<>>

ClientInv == Shape /\ BufferInv /\ BatchInv /\ Disjoint /\ CarryInv

-----------------------------------------------------------------------------
\* Sequences.

LEMMA ElementsOfAppend ==
    ASSUME NEW S, NEW s \in Seq(S), NEW e \in S
    PROVE  ElementsOf(Append(s, e)) = ElementsOf(s) \cup {e}
<1>1. /\ Append(s, e) \in Seq(S) /\ Len(Append(s, e)) = Len(s) + 1
      /\ \A i \in 1..Len(s) : Append(s, e)[i] = s[i]
      /\ Append(s, e)[Len(s) + 1] = e
  BY AppendProperties
<1>2. DOMAIN s = 1..Len(s) /\ DOMAIN Append(s, e) = 1..(Len(s) + 1) /\ Len(s) \in Nat
  BY <1>1, LenProperties
<1> QED
  BY <1>1, <1>2 DEF ElementsOf

LEMMA DistinctAppend ==
    ASSUME NEW S, NEW s \in Seq(S), NEW e \in S, Distinct(s), e \notin ElementsOf(s)
    PROVE  Distinct(Append(s, e))
<1>1. /\ Append(s, e) \in Seq(S) /\ Len(Append(s, e)) = Len(s) + 1
      /\ \A i \in 1..Len(s) : Append(s, e)[i] = s[i]
      /\ Append(s, e)[Len(s) + 1] = e
  BY AppendProperties
<1>2. DOMAIN s = 1..Len(s) /\ DOMAIN Append(s, e) = 1..(Len(s) + 1) /\ Len(s) \in Nat
  BY <1>1, LenProperties
<1> QED
  BY <1>1, <1>2 DEF Distinct, ElementsOf

\* What Append does to the domain and the values.
LEMMA AppendIs ==
    ASSUME NEW S, NEW s \in Seq(S), NEW e \in S
    PROVE  LET t == Append(s, e)
               n == Len(s) + 1
           IN  /\ t \in Seq(S) /\ n \in DOMAIN t /\ n \notin DOMAIN s /\ t[n] = e
               /\ \A k \in DOMAIN s : k \in DOMAIN t /\ t[k] = s[k]
               /\ \A k \in DOMAIN t : k \in DOMAIN s \/ k = n
<1>1. /\ Append(s, e) \in Seq(S) /\ Len(Append(s, e)) = Len(s) + 1
      /\ \A i \in 1..Len(s) : Append(s, e)[i] = s[i]
      /\ Append(s, e)[Len(s) + 1] = e
  BY AppendProperties
<1>2. DOMAIN s = 1..Len(s) /\ DOMAIN Append(s, e) = 1..(Len(s) + 1) /\ Len(s) \in Nat
  BY <1>1, LenProperties
<1> QED
  BY <1>1, <1>2

LEMMA NoElements == ElementsOf(<<>>) = {} /\ Distinct(<<>>)
BY DEF ElementsOf, Distinct

LEMMA ElementsOfConcat ==
    ASSUME NEW S, NEW s \in Seq(S), NEW t \in Seq(S)
    PROVE  ElementsOf(s \o t) = ElementsOf(s) \cup ElementsOf(t)
<1>1. /\ s \o t \in Seq(S) /\ Len(s \o t) = Len(s) + Len(t)
      /\ \A i \in 1..(Len(s) + Len(t)) : (s \o t)[i] = IF i <= Len(s) THEN s[i] ELSE t[i - Len(s)]
  BY ConcatProperties
<1>2. /\ DOMAIN s = 1..Len(s) /\ DOMAIN t = 1..Len(t) /\ Len(s) \in Nat /\ Len(t) \in Nat
      /\ DOMAIN (s \o t) = 1..(Len(s) + Len(t))
  BY <1>1, LenProperties
<1>3. \A i \in DOMAIN (s \o t) : (s \o t)[i] \in ElementsOf(s) \cup ElementsOf(t)
  BY <1>1, <1>2 DEF ElementsOf
<1>4. \A i \in DOMAIN s : (s \o t)[i] = s[i] /\ i \in DOMAIN (s \o t)
  BY <1>1, <1>2
<1>5. \A i \in DOMAIN t : (s \o t)[Len(s) + i] = t[i] /\ Len(s) + i \in DOMAIN (s \o t)
  BY <1>1, <1>2
<1>6. ElementsOf(s \o t) \subseteq ElementsOf(s) \cup ElementsOf(t)
  BY <1>3 DEF ElementsOf
<1>7. \A e \in ElementsOf(s) : e \in ElementsOf(s \o t)
  BY <1>4 DEF ElementsOf
<1>8. \A e \in ElementsOf(t) : e \in ElementsOf(s \o t)
  BY <1>5 DEF ElementsOf
<1> QED
  BY <1>6, <1>7, <1>8

\* A proper batch has an element.
LEMMA HasElement ==
    ASSUME NEW b \in Seq(Events), b # <<>> PROVE ElementsOf(b) # {}
<1>1. 1 \in DOMAIN b
  BY LenProperties, EmptySeq
<1> QED
  BY <1>1 DEF ElementsOf

\* Programs are sequences, and no event is emitted twice.
LEMMA Programs ==
    /\ Program \in [Threads -> Seq(Events)] /\ RetryMax \in Nat /\ BatchSize \in Nat \ {0}
    /\ IsFiniteSet(Threads)
    /\ \A th \in Threads : DOMAIN Program[th] = 1..Len(Program[th]) /\ Len(Program[th]) \in Nat
    /\ \A a, b \in Threads : \A i \in 1..Len(Program[a]), j \in 1..Len(Program[b]) :
           Program[a][i] = Program[b][j] => a = b /\ i = j
<1>1. \A th \in Threads : DOMAIN Program[th] = 1..Len(Program[th]) /\ Len(Program[th]) \in Nat
  BY DeliveryAssumption, LenProperties
<1> QED
  BY <1>1, DeliveryAssumption

-----------------------------------------------------------------------------
\* The invariant of the client.

LEMMA ClientInit == Init => ClientInv
<1> SUFFICES ASSUME Init PROVE ClientInv
  OBVIOUS
<1>1. Shape
  BY Programs, EmptySeq DEF Init, Shape
<1>2. \A th \in Threads : DOMAIN drained[th] = {}
  BY DEF Init
<1> QED
  BY <1>1, <1>2, NoElements DEF Init, ClientInv, BufferInv, BatchInv, Disjoint, CarryInv

\* What is emitted next has not been emitted.
LEMMA EmitFresh ==
    ASSUME Shape, NEW th \in Threads, emitted[th] < Len(Program[th]),
           emitted' = [emitted EXCEPT ![th] = @ + 1]
    PROVE  LET e == Program[th][emitted[th] + 1]
           IN  /\ e \in Events /\ ~Emitted(e)
               /\ emitted' \in [Threads -> Nat] /\ \A u \in Threads : emitted'[u] <= Len(Program[u])
               /\ \A d : Emitted(d)' <=> Emitted(d) \/ d = e
<1> DEFINE e == Program[th][emitted[th] + 1]
<1>1. emitted[th] \in Nat /\ emitted[th] + 1 \in 1..Len(Program[th]) /\ emitted'[th] = emitted[th] + 1
      /\ \A u \in Threads \ {th} : emitted'[u] = emitted[u]
  BY Programs DEF Shape
<1>2. e \in Events
  BY <1>1, Programs, ElementOfSeq
<1>3. ~Emitted(e)
  <2> SUFFICES ASSUME NEW u \in Threads, NEW i \in 1..emitted[u], Program[u][i] = e PROVE FALSE
    BY DEF Emitted
  <2>1. i \in 1..Len(Program[u])
    BY Programs DEF Shape
  <2>2. u = th /\ i = emitted[th] + 1
    BY <1>1, <2>1, Programs
  <2> QED
    BY <1>1, <2>2
<1>4. \A d : Emitted(d)' <=> Emitted(d) \/ d = e
  <2> TAKE d
  <2>1. Emitted(d)' => Emitted(d) \/ d = e
    <3> SUFFICES ASSUME NEW u \in Threads, NEW i \in 1..emitted'[u], Program[u][i] = d
                 PROVE  Emitted(d) \/ d = e
      BY DEF Emitted
    <3>1. CASE u # th
      BY <1>1, <3>1 DEF Emitted
    <3>2. CASE u = th
      <4>1. i \in 1..emitted[th] \/ i = emitted[th] + 1
        BY <1>1, <3>2
      <4> QED
        BY <3>2, <4>1 DEF Emitted
    <3> QED
      BY <3>1, <3>2
  <2>2. Emitted(d) => Emitted(d)'
    <3> SUFFICES ASSUME NEW u \in Threads, NEW i \in 1..emitted[u], Program[u][i] = d
                 PROVE  Emitted(d)'
      BY DEF Emitted
    <3>1. i \in 1..emitted'[u]
      BY <1>1 DEF Shape
    <3> QED
      BY <3>1 DEF Emitted
  <2>3. d = e => Emitted(d)'
    <3>1. emitted[th] + 1 \in 1..emitted'[th]
      BY <1>1
    <3> QED
      BY <3>1 DEF Emitted
  <2> QED
    BY <2>1, <2>2, <2>3
<1>5. emitted' \in [Threads -> Nat] /\ \A u \in Threads : emitted'[u] <= Len(Program[u])
  BY <1>1 DEF Shape
<1> QED
  BY <1>2, <1>3, <1>4, <1>5

LEMMA EmitStep == ASSUME ClientInv, NEW th \in Threads, Emit(th) PROVE ClientInv'
<1> USE DEF ClientInv
<1>1. emitted' = [emitted EXCEPT ![th] = @ + 1] /\ emitted[th] < Len(Program[th])
      /\ UNCHANGED <<local, attempt, network, server, history>>
  BY DEF Emit
<1>2. PICK e \in Events :
          /\ e = Program[th][emitted[th] + 1] /\ ~Emitted(e)
          /\ \A d : Emitted(d)' <=> Emitted(d) \/ d = e
  BY <1>1, EmitFresh
<1>3. buffer' = Append(buffer, e)
  BY <1>2 DEF Emit
<1>4. buffer' \in Seq(Events) /\ ElementsOf(buffer') = ElementsOf(buffer) \cup {e}
  BY <1>3, AppendProperties, ElementsOfAppend DEF Shape
<1>5. /\ state' \in [Threads -> {"running", "flushing", "posting"}]
      /\ \A u \in Threads : state'[u] = state[u] \/ (u = th /\ state[u] = "running" /\ state'[u] = "flushing")
  BY DEF Emit, Shape
<1>6. Shape'
  BY <1>1, <1>4, <1>5, EmitFresh DEF Shape, server, history
<1>7. \A u \in Threads : \A k \in DOMAIN drained[u] : e \notin ElementsOf(drained[u][k])
  BY <1>2 DEF BatchInv, Proper
<1>8. Distinct(buffer')
  BY <1>2, <1>3, DistinctAppend DEF Shape, BufferInv
<1>9. BufferInv'
  <2>1. drained' = drained
    BY <1>1 DEF history
  <2>2. ASSUME NEW d \in ElementsOf(buffer) \cup {e}
        PROVE  Emitted(d)' /\ \A u \in Threads : \A k \in DOMAIN drained[u] : d \notin ElementsOf(drained[u][k])
    BY <1>2, <1>7 DEF BufferInv
  <2>3. \A d \in ElementsOf(buffer') :
            Emitted(d)' /\ \A u \in Threads : \A k \in DOMAIN drained[u] : d \notin ElementsOf(drained[u][k])
    BY <1>4, <2>2
  <2> QED
    BY <1>8, <2>1, <2>3 DEF BufferInv, ElementsOf
<1>10. BatchInv' /\ Disjoint'
  <2>1. drained' = drained /\ \A b : Proper(b) => Proper(b)'
    BY <1>1, <1>2 DEF Proper, history
  <2>2. BatchInv'
    BY <2>1 DEF BatchInv
  <2>3. Disjoint'
    BY <2>1 DEF Disjoint, ElementsOf
  <2> QED
    BY <2>2, <2>3
<1>11. CarryInv'
  BY <1>1, <1>5 DEF CarryInv, IsBatch, server, history
<1> QED
  BY <1>6, <1>9, <1>10, <1>11

LEMMA DrainStep == ASSUME ClientInv, NEW th \in Threads, Drain(th) PROVE ClientInv'
<1> USE DEF ClientInv
<1>1. /\ buffer # <<>> /\ buffer' = <<>>
      /\ local' = [local EXCEPT ![th] = buffer]
      /\ state' = [state EXCEPT ![th] = "posting"]
      /\ drained' = [drained EXCEPT ![th] = Append(@, buffer)]
      /\ attempt' = [attempt EXCEPT ![th] = 0]
      /\ UNCHANGED <<emitted, server, raised, undone>>
  BY DEF Drain, Post
<1>2. buffer \in Seq(Events) /\ drained[th] \in Seq(Seq(Events))
  BY DEF Shape
<1>3. PICK n : /\ drained'[th] \in Seq(Seq(Events))
               /\ n \in DOMAIN drained'[th] /\ n \notin DOMAIN drained[th] /\ drained'[th][n] = buffer
               /\ \A k \in DOMAIN drained[th] : k \in DOMAIN drained'[th] /\ drained'[th][k] = drained[th][k]
               /\ \A k \in DOMAIN drained'[th] : k \in DOMAIN drained[th] \/ k = n
               /\ \A u \in Threads \ {th} : drained'[u] = drained[u]
  <2>1. drained'[th] = Append(drained[th], buffer) /\ \A u \in Threads \ {th} : drained'[u] = drained[u]
    BY <1>1 DEF Shape
  <2> DEFINE t == Append(drained[th], buffer)
             k0 == Len(drained[th]) + 1
  <2>2. /\ t \in Seq(Seq(Events)) /\ k0 \in DOMAIN t /\ k0 \notin DOMAIN drained[th] /\ t[k0] = buffer
        /\ \A k \in DOMAIN drained[th] : k \in DOMAIN t /\ t[k] = drained[th][k]
        /\ \A k \in DOMAIN t : k \in DOMAIN drained[th] \/ k = k0
    BY <1>2, AppendIs
  <2>3. drained'[th] = t
    BY <2>1
  <2> HIDE DEF t, k0
  <2> QED
    BY <2>1, <2>2, <2>3
<1>4. local'[th] = buffer /\ \A u \in Threads \ {th} : local'[u] = local[u]
  BY <1>1 DEF Shape
<1>5. PICK m \in Msg : m.thread = th /\ m.body = buffer /\ network' \subseteq network \cup {m}
  <2> DEFINE m == [thread |-> th, attempt |-> 0, body |-> buffer]
  <2>1. m \in Msg
    BY <1>2, Programs DEF Msg
  <2>2. network' \subseteq network \cup {m}
    BY <1>4 DEF Drain, Post
  <2> QED
    BY <2>1, <2>2
<1>6. Shape'
  <2>1. drained' \in [Threads -> Seq(Seq(Events))]
    BY <1>1, <1>3 DEF Shape
  <2> QED
    BY <1>1, <1>2, <1>5, <2>1, Programs, EmptySeq DEF Shape, server
<1>7. \A u \in Threads : \A k \in DOMAIN drained'[u] :
          \/ k \in DOMAIN drained[u] /\ drained'[u][k] = drained[u][k]
          \/ u = th /\ k = n /\ drained'[u][k] = buffer
  BY <1>3
<1>8. BufferInv'
  BY <1>1, NoElements DEF BufferInv
<1>9. BatchInv'
  <2>1. Proper(buffer)
    BY <1>1, <1>2 DEF Proper, BufferInv
  <2>2. \A b : Proper(b) => Proper(b)'
    BY <1>1 DEF Proper, Emitted
  <2> SUFFICES ASSUME NEW u \in Threads, NEW k \in DOMAIN drained'[u] PROVE Proper(drained[u][k])'
    BY DEF BatchInv
  <2>3. PICK b : b = drained'[u][k]
    OBVIOUS
  <2>4. Proper(b)
    BY <1>7, <2>1, <2>3 DEF BatchInv
  <2> QED
    BY <2>2, <2>3, <2>4 DEF Proper
<1>10. Disjoint'
  <2> SUFFICES ASSUME NEW a \in Threads, NEW b \in Threads,
                      NEW i \in DOMAIN drained'[a], NEW j \in DOMAIN drained'[b],
                      <<a, i>> # <<b, j>>
               PROVE  ElementsOf(drained'[a][i]) \cap ElementsOf(drained'[b][j]) = {}
    BY DEF Disjoint, ElementsOf
  <2> SUFFICES ASSUME NEW e, e \in ElementsOf(drained'[a][i]), e \in ElementsOf(drained'[b][j])
               PROVE  FALSE
    OBVIOUS
  <2>1. CASE i \in DOMAIN drained[a] /\ drained'[a][i] = drained[a][i]
             /\ j \in DOMAIN drained[b] /\ drained'[b][j] = drained[b][j]
    BY <2>1 DEF Disjoint
  <2>2. CASE drained'[a][i] = buffer /\ j \in DOMAIN drained[b] /\ drained'[b][j] = drained[b][j]
    BY <2>2 DEF BufferInv
  <2>3. CASE i \in DOMAIN drained[a] /\ drained'[a][i] = drained[a][i] /\ drained'[b][j] = buffer
    BY <2>3 DEF BufferInv
  <2>4. CASE a = th /\ i = n /\ b = th /\ j = n
    BY <2>4
  <2> QED
    BY <1>7, <2>1, <2>2, <2>3, <2>4
<1>11. \A u \in Threads : \A b : IsBatch(u, b) => IsBatch(u, b)'
  <2> SUFFICES ASSUME NEW u \in Threads, NEW b, NEW k \in DOMAIN drained[u], drained[u][k] = b
               PROVE  \E l \in DOMAIN drained'[u] : drained'[u][l] = b
    BY DEF IsBatch
  <2> QED
    BY <1>3
<1>12. \A b : b = buffer => IsBatch(th, b)'
  BY <1>3 DEF IsBatch
<1>13. CarryInv'
  <2> SUFFICES /\ \A c \in network' \cup serving : IsBatch(c.thread, c.body)'
               /\ \A u \in Threads : IF state'[u] = "posting" THEN IsBatch(u, local[u])' ELSE local'[u] = <<>>
    BY <1>1 DEF CarryInv, server, IsBatch
  <2>1. ASSUME NEW c \in network' \cup serving PROVE IsBatch(c.thread, c.body)'
    <3>1. c \in network \cup serving \/ c = m
      BY <1>5
    <3>2. c \in Msg /\ c.thread \in Threads
      BY <1>5, <3>1 DEF Shape, Msg
    <3>3. c = m => IsBatch(c.thread, c.body)'
      BY <1>5, <1>12
    <3> QED
      BY <1>11, <3>1, <3>2, <3>3 DEF CarryInv
  <2>2. ASSUME NEW u \in Threads
        PROVE  IF state'[u] = "posting" THEN IsBatch(u, local[u])' ELSE local'[u] = <<>>
    <3>1. CASE u = th
      <4>1. PICK b : b = local'[u]
        OBVIOUS
      <4>2. state'[u] = "posting" /\ b = buffer
        BY <1>1, <1>4, <3>1, <4>1 DEF Shape
      <4>3. \E k \in DOMAIN drained'[u] : drained'[u][k] = local'[u]
        BY <1>3, <3>1, <4>1, <4>2
      <4> QED
        BY <4>2, <4>3 DEF IsBatch
    <3>2. CASE u # th
      <4>1. local'[u] = local[u] /\ state'[u] = state[u] /\ drained'[u] = drained[u]
        BY <1>1, <1>3, <1>4, <3>2 DEF Shape
      <4> QED
        BY <4>1 DEF CarryInv, IsBatch
    <3> QED
      BY <3>1, <3>2
  <2> QED
    BY <2>1, <2>2
<1> QED
  BY <1>6, <1>8, <1>9, <1>10, <1>13

LEMMA DisjointKept == ASSUME Disjoint, drained' = drained PROVE Disjoint'
BY DEF Disjoint, ElementsOf

\* The steps that leave the buffer and the drained batches alone: what they
\* send, and what a thread still posts, is what the thread was posting.
LEMMA KeepStep ==
    ASSUME ClientInv, UNCHANGED <<emitted, buffer, drained>>,
           state' \in [Threads -> {"running", "flushing", "posting"}],
           local' \in [Threads -> Seq(Events)], attempt' \in [Threads -> 0..RetryMax],
           log' \in Seq(Events),
           \A m \in network' \cup serving' :
               \/ m \in network \cup serving
               \/ m \in Msg /\ state[m.thread] = "posting" /\ m.body = local[m.thread],
           \A th \in Threads : IF state'[th] = "posting" THEN state[th] = "posting" /\ local'[th] = local[th]
                               ELSE local'[th] = <<>>
    PROVE  ClientInv'
<1> USE DEF ClientInv
<1>1. \A m \in network' \cup serving' : m \in Msg /\ IsBatch(m.thread, m.body)
  BY DEF Shape, CarryInv, Msg
<1>2. Shape'
  BY <1>1 DEF Shape
<1>3. BufferInv'
  BY DEF BufferInv, Emitted, ElementsOf
<1>4. BatchInv' /\ Disjoint'
  <2>1. drained' = drained /\ \A b : Proper(b) => Proper(b)'
    BY DEF Proper, Emitted
  <2>2. BatchInv'
    BY <2>1 DEF BatchInv
  <2>3. Disjoint'
    BY <2>1, DisjointKept
  <2> QED
    BY <2>2, <2>3
<1>6. CarryInv'
  BY <1>1 DEF CarryInv, IsBatch
<1> QED
  BY <1>2, <1>3, <1>4, <1>6

\* What the flush that ends leaves behind.
LEMMA Returned ==
    ASSUME Shape, NEW th \in Threads, Return(th)
    PROVE  /\ state' \in [Threads -> {"running", "flushing", "posting"}]
           /\ local' \in [Threads -> Seq(Events)] /\ attempt' \in [Threads -> 0..RetryMax]
           /\ state'[th] = "running" /\ local'[th] = <<>>
           /\ \A u \in Threads \ {th} : state'[u] = state[u] /\ local'[u] = local[u]
           /\ UNCHANGED <<emitted, buffer>>
BY Programs, EmptySeq DEF Return, Shape

\* The events of a batch that are stored anew.
LEMMA FreshIs ==
    ASSUME NEW b \in Seq(Events)
    PROVE  /\ Fresh(b) \in Seq(Events)
           /\ ElementsOf(Fresh(b)) = ElementsOf(b) \ ElementsOf(log)
           /\ ElementsOf(b) \cap ElementsOf(log) = {} => Fresh(b) = b
           /\ ElementsOf(b) \subseteq ElementsOf(log) => Fresh(b) = <<>>
<1> DEFINE kept == {i \in DOMAIN b : b[i] \notin ElementsOf(log)}
           Below(i) == {j \in kept : j <= i}
           Rank(i) == Cardinality(Below(i))
           card == Cardinality(kept)
           rank == [i \in kept |-> Rank(i)]
<1>1. DOMAIN b = 1..Len(b) /\ Len(b) \in Nat /\ \A i \in DOMAIN b : b[i] \in Events
  BY LenProperties, ElementOfSeq
<1>2. IsFiniteSet(kept) /\ card \in Nat /\ kept \subseteq 1..Len(b)
  <2>1. kept \in SUBSET (1..Len(b))
    BY <1>1
  <2>2. IsFiniteSet(1..Len(b))
    BY <1>1, FS_Interval
  <2>3. IsFiniteSet(kept)
    BY <2>1, <2>2, FS_Subset
  <2> QED
    BY <2>1, <2>3, FS_CardinalityType
<1>3. \A i \in kept : IsFiniteSet(Below(i)) /\ Rank(i) \in 1..card
  <2> SUFFICES ASSUME NEW i \in kept PROVE IsFiniteSet(Below(i)) /\ Rank(i) \in 1..card
    OBVIOUS
  <2>1. Below(i) \in SUBSET kept /\ i \in Below(i)
    BY <1>2
  <2>2. IsFiniteSet(Below(i)) /\ Rank(i) \in Nat /\ Rank(i) <= card
    BY <1>2, <2>1, FS_Subset, FS_CardinalityType
  <2>3. Rank(i) # 0
    BY <2>1, <2>2, FS_EmptySet
  <2> QED
    BY <1>2, <2>2, <2>3
<1>4. \A i, j \in kept : i # j => Rank(i) # Rank(j)
  <2>1. ASSUME NEW i \in kept, NEW j \in kept, i < j PROVE Rank(i) # Rank(j)
    <3>1. Below(i) \in SUBSET Below(j) /\ j \in Below(j) /\ j \notin Below(i)
      BY <1>2, <2>1
    <3>2. IsFiniteSet(Below(j))
      BY <1>3
    <3>3. Rank(j) = Rank(i) => Below(j) = Below(i)
      BY <3>1, <3>2, FS_Subset
    <3> QED
      BY <3>1, <3>3
  <2> QED
    BY <1>2, <2>1
<1>5. \A n \in 1..card : \E i \in kept : Rank(i) = n
  <2>1. rank \in [kept -> 1..card]
    BY <1>3
  <2>2. rank \in Injection(kept, 1..card)
    <3>1. \A x, y \in kept : rank[x] = rank[y] => x = y
      BY <1>4
    <3> QED
      BY <2>1, <3>1, Fun_IsInj
  <2>3. IsFiniteSet(1..card) /\ Cardinality(1..card) = card
    BY <1>2, FS_Interval
  <2>4. rank \in Surjection(kept, 1..card)
    BY <2>2, <2>3, FS_Injection
  <2> HIDE DEF rank, card, kept
  <2>5. \A n \in 1..card : \E i \in kept : rank[i] = n
    BY <2>4, Fun_SurjectionProperties
  <2> USE DEF rank, card, kept
  <2> QED
    BY <2>5
<1> DEFINE at(n) == CHOOSE i \in kept : Rank(i) = n
<1>6. \A n \in 1..card : at(n) \in kept /\ Rank(at(n)) = n
  BY <1>5
<1>7. \A i \in kept : at(Rank(i)) = i
  BY <1>3, <1>4, <1>6
<1>8. Fresh(b) = [n \in 1..card |-> b[at(n)]]
  BY DEF Fresh
<1> HIDE DEF at, Rank, card
<1>9. Fresh(b) \in Seq(Events)
  <2>1. \A n \in 1..card : b[at(n)] \in Events
    BY <1>1, <1>6
  <2> QED
    BY <1>2, <1>8, <2>1, IsASeq
<1>10. ElementsOf(Fresh(b)) = ElementsOf(b) \ ElementsOf(log)
  <2>1. ElementsOf(Fresh(b)) = {b[at(n)] : n \in 1..card}
    BY <1>8 DEF ElementsOf
  <2>2. \A n \in 1..card : b[at(n)] \in ElementsOf(b) \ ElementsOf(log)
    BY <1>6 DEF ElementsOf
  <2>3. \A i \in kept : \E n \in 1..card : b[at(n)] = b[i]
    BY <1>3, <1>7
  <2>4. \A e \in ElementsOf(b) \ ElementsOf(log) : \E i \in kept : e = b[i]
    BY DEF ElementsOf
  <2> QED
    BY <2>1, <2>2, <2>3, <2>4
<1>11. ASSUME ElementsOf(b) \cap ElementsOf(log) = {} PROVE Fresh(b) = b
  <2>1. kept = 1..Len(b) /\ card = Len(b)
    <3>1. kept = 1..Len(b)
      BY <1>1, <1>11 DEF ElementsOf
    <3>2. Cardinality(1..Len(b)) = Len(b)
      BY <1>1, FS_Interval
    <3> QED
      BY <3>1, <3>2 DEF card
  <2>2. \A i \in kept : Rank(i) = i
    <3> SUFFICES ASSUME NEW i \in kept PROVE Rank(i) = i
      OBVIOUS
    <3>1. Below(i) = 1..i
      BY <1>1, <2>1
    <3>2. i \in Int /\ i >= 1
      BY <1>1, <2>1
    <3>3. Cardinality(1..i) = i
      BY <3>2, FS_Interval
    <3> QED
      BY <3>1, <3>3 DEF Rank
  <2>3. \A n \in 1..Len(b) : at(n) = n
    BY <1>7, <2>1, <2>2
  <2>4. b = [n \in 1..Len(b) |-> b[n]]
    BY LenProperties
  <2> QED
    BY <1>8, <2>1, <2>3, <2>4
<1>12. ASSUME ElementsOf(b) \subseteq ElementsOf(log) PROVE Fresh(b) = <<>>
  <2>1. ElementsOf(Fresh(b)) = {}
    BY <1>10, <1>12
  <2> QED
    BY <1>9, <2>1, HasElement
<1> QED
  BY <1>9, <1>10, <1>11, <1>12

\* What the commit does to the log.
LEMMA Committed ==
    ASSUME ClientInv, NEW m \in serving, Commit(m)
    PROVE  /\ log' = log \o Fresh(m.body) /\ log' \in Seq(Events)
           /\ m.body \in Seq(Events) /\ m.thread \in Threads /\ IsBatch(m.thread, m.body)
           /\ Fresh(m.body) \in Seq(Events)
           /\ ElementsOf(log') = ElementsOf(log) \cup ElementsOf(m.body)
<1>1. m.body \in Seq(Events) /\ m.thread \in Threads /\ IsBatch(m.thread, m.body) /\ log \in Seq(Events)
  BY DEF ClientInv, Shape, CarryInv, Msg
<1>2. log' = log \o Fresh(m.body) /\ Fresh(m.body) \in Seq(Events)
  BY <1>1, FreshIs DEF Commit
<1>3. log' \in Seq(Events)
  BY <1>1, <1>2, ConcatProperties
<1>4. ElementsOf(log') = ElementsOf(log) \cup ElementsOf(Fresh(m.body))
  BY <1>1, <1>2, ElementsOfConcat
<1> QED
  BY <1>1, <1>2, <1>3, <1>4, FreshIs

\* The step of a thread or of a handler that is neither an emission nor a drain.
LEMMA OtherStep ==
    ASSUME ClientInv,
           \/ \E th \in Threads : Flush(th) \/ DrainNothing(th) \/ TryAgain(th) \/ GiveUp(th) \/ Interrupt(th)
           \/ \E m \in network : Answer(m) \/ Refuse(m)
           \/ \E m \in serving : Commit(m) \/ CommitFails(m)
           \/ UNCHANGED vars
    PROVE  ClientInv' /\ UNCHANGED <<emitted, buffer, drained>>
<1> USE DEF ClientInv
<1>1. ASSUME NEW th \in Threads, Flush(th) \/ DrainNothing(th)
      PROVE  ClientInv' /\ UNCHANGED <<emitted, buffer, drained>>
  <2>1. /\ UNCHANGED <<emitted, buffer, drained, local, attempt, network, serving, log>>
        /\ state' \in [Threads -> {"running", "flushing", "posting"}]
        /\ \A u \in Threads : state'[u] = state[u] \/ (state[u] # "posting" /\ state'[u] # "posting")
    BY <1>1 DEF Flush, DrainNothing, Shape, server, history
  <2> QED
    BY <2>1, KeepStep DEF Shape, CarryInv
<1>2. ASSUME NEW th \in Threads, TryAgain(th)
      PROVE  ClientInv' /\ UNCHANGED <<emitted, buffer, drained>>
  <2>1. /\ state[th] = "posting" /\ attempt[th] < RetryMax
        /\ attempt' = [attempt EXCEPT ![th] = attempt[th] + 1]
        /\ UNCHANGED <<emitted, buffer, drained, local, state, serving, log>>
    BY <1>2 DEF TryAgain, Post, server, history
  <2>2. attempt' \in [Threads -> 0..RetryMax] /\ attempt[th] + 1 \in 0..RetryMax
    BY <2>1, Programs DEF Shape
  <2>3. \A m \in network' : m \in network \/ (m \in Msg /\ m.thread = th /\ m.body = local[th])
    BY <1>2, <2>1, <2>2 DEF TryAgain, Post, Msg, Shape
  <2> QED
    BY <2>1, <2>2, <2>3, KeepStep DEF Shape, CarryInv
<1>3. ASSUME NEW th \in Threads, GiveUp(th) \/ Interrupt(th)
      PROVE  ClientInv' /\ UNCHANGED <<emitted, buffer, drained>>
  <2>1. Return(th) /\ UNCHANGED <<drained, network, serving, log>>
    BY <1>3 DEF GiveUp, Interrupt, Raise, server
  <2> QED
    BY <2>1, Returned, KeepStep DEF Shape, CarryInv
<1>4. ASSUME NEW m \in network, Refuse(m)
      PROVE  ClientInv' /\ UNCHANGED <<emitted, buffer, drained>>
  <2>1. m.thread \in Threads /\ network' \subseteq network /\ UNCHANGED <<serving, log>>
    BY <1>4 DEF Refuse, Shape, Msg, server
  <2>2. CASE Waits(m)
    <3>1. Return(m.thread) /\ UNCHANGED drained
      BY <1>4, <2>2 DEF Refuse, Raise
    <3> QED
      BY <2>1, <3>1, Returned, KeepStep DEF Shape, CarryInv
  <2>3. CASE ~Waits(m)
    <3>1. UNCHANGED <<emitted, buffer, drained, state, local, attempt>>
      BY <1>4, <2>3 DEF Refuse, client, history
    <3> QED
      BY <2>1, <3>1, KeepStep DEF Shape, CarryInv
  <2> QED
    BY <2>2, <2>3
<1>5. ASSUME NEW m \in network, Answer(m)
      PROVE  ClientInv' /\ UNCHANGED <<emitted, buffer, drained>>
  <2>1. /\ m.thread \in Threads /\ network' \subseteq network /\ serving' = serving \cup {m}
        /\ UNCHANGED <<log, drained>>
    BY <1>5 DEF Answer, Serve, Shape, Msg, history
  <2>2. CASE Return(m.thread)
    BY <2>1, <2>2, Returned, KeepStep DEF Shape, CarryInv
  <2>3. CASE UNCHANGED client
    <3>1. UNCHANGED <<emitted, buffer, state, local, attempt>>
      BY <2>3 DEF client
    <3> QED
      BY <2>1, <3>1, KeepStep DEF Shape, CarryInv
  <2> QED
    BY <1>5, <2>2, <2>3 DEF Answer, Serve
<1>6. ASSUME NEW m \in serving, Commit(m)
      PROVE  ClientInv' /\ UNCHANGED <<emitted, buffer, drained>>
  <2>1. UNCHANGED <<emitted, buffer, state, local, attempt, network, drained>> /\ serving' \subseteq serving
    BY <1>6 DEF Commit, client, history
  <2>2. log' \in Seq(Events)
    BY <1>6, Committed
  <2> QED
    BY <2>1, <2>2, KeepStep DEF Shape, CarryInv
<1>7. ASSUME NEW m \in serving, CommitFails(m)
      PROVE  ClientInv' /\ UNCHANGED <<emitted, buffer, drained>>
  <2>1. UNCHANGED <<emitted, buffer, state, local, attempt, network, log, drained>> /\ serving' \subseteq serving
    BY <1>7 DEF CommitFails, client
  <2> QED
    BY <2>1, KeepStep DEF Shape, CarryInv
<1>8. ASSUME UNCHANGED vars PROVE ClientInv' /\ UNCHANGED <<emitted, buffer, drained>>
  <2>1. UNCHANGED <<emitted, buffer, state, local, attempt, network, serving, log, drained>>
    BY <1>8 DEF vars, client, server, history
  <2> QED
    BY <2>1, KeepStep DEF Shape, CarryInv
<1> QED
  BY <1>1, <1>2, <1>3, <1>4, <1>5, <1>6, <1>7, <1>8

LEMMA ClientStep == ASSUME ClientInv, [Next]_vars PROVE ClientInv'
BY EmitStep, DrainStep, OtherStep DEF Next

LEMMA ClientAlways == Spec => []ClientInv
<1>1. Init => ClientInv
  BY ClientInit
<1>2. ClientInv /\ [Next]_vars => ClientInv'
  BY ClientStep
<1> QED
  BY <1>1, <1>2, PTL DEF Spec

\* However the threads that share a client interleave in emit, flush and the
\* retries, no event is in two drained batches nor twice in one, and what a
\* request carries is one of them: what the ledger assumes of its clients.
THEOREM BatchesAreDisjoint == Spec => []DrainedDisjoint
<1>1. ClientInv => DrainedDisjoint
  BY DEF ClientInv, BatchInv, Proper, Distinct, Disjoint, CarryInv, IsBatch, DrainedDisjoint
<1> QED
  BY <1>1, ClientAlways, PTL

-----------------------------------------------------------------------------
\* The buffer.

Flushing == {th \in Threads : state[th] = "flushing"}

BufferFits == Len(buffer) <= BatchSize - 1 + Cardinality(Flushing)

LEMMA FlushingFinite ==
    /\ IsFiniteSet(Flushing) /\ Cardinality(Flushing) \in Nat /\ Cardinality(Flushing) <= Cardinality(Threads)
    /\ IsFiniteSet(Flushing') /\ Cardinality(Flushing') \in Nat
<1>1. Flushing \in SUBSET Threads /\ Flushing' \in SUBSET Threads
  BY DEF Flushing
<1> QED
  BY <1>1, Programs, FS_Subset, FS_CardinalityType

LEMMA BufferFitsStep == ASSUME ClientInv, BufferFits, [Next]_vars PROVE BufferFits'
<1> USE DEF ClientInv
<1>1. Len(buffer) \in Nat /\ BatchSize \in Nat
  BY Programs, LenProperties DEF Shape
<1>2. ASSUME NEW th \in Threads, Emit(th) PROVE BufferFits'
  <2>1. Len(buffer') = Len(buffer) + 1
    <3>1. Program[th][emitted[th] + 1] \in Events
      BY <1>2, EmitFresh DEF Emit
    <3> QED
      BY <1>2, <3>1, AppendProperties DEF Emit, Shape
  <2>2. CASE Len(buffer') < BatchSize
    BY <1>1, <2>1, <2>2, FlushingFinite DEF BufferFits
  <2>3. CASE Len(buffer') >= BatchSize
    <3>1. Flushing' = Flushing \cup {th} /\ th \notin Flushing
      BY <1>2, <2>3 DEF Emit, Flushing, Shape
    <3>2. Cardinality(Flushing') = Cardinality(Flushing) + 1
      BY <3>1, FlushingFinite, FS_AddElement
    <3> QED
      BY <1>1, <2>1, <3>2, FlushingFinite DEF BufferFits
  <2> QED
    BY <1>1, <2>1, <2>2, <2>3
<1>3. ASSUME buffer' = <<>> PROVE BufferFits'
  BY <1>1, <1>3, Programs, FlushingFinite, EmptySeq DEF BufferFits
<1>4. ASSUME buffer' = buffer, Flushing \subseteq Flushing' PROVE BufferFits'
  <2>1. Cardinality(Flushing) <= Cardinality(Flushing')
    BY <1>4, FlushingFinite, FS_Subset
  <2> QED
    BY <1>1, <1>4, <2>1, FlushingFinite DEF BufferFits
<1>5. ASSUME NEW th \in Threads, Return(th), state[th] = "posting"
      PROVE  buffer' = buffer /\ Flushing \subseteq Flushing'
  BY <1>5 DEF Return, Flushing, Shape
<1>6. ASSUME NEW th \in Threads,
             Flush(th) \/ Drain(th) \/ DrainNothing(th) \/ TryAgain(th) \/ GiveUp(th) \/ Interrupt(th)
      PROVE  BufferFits'
  <2>1. CASE Flush(th)
    BY <1>4, <2>1 DEF Flush, Flushing, Shape
  <2>2. CASE Drain(th) \/ DrainNothing(th)
    BY <1>3, <2>2 DEF Drain, DrainNothing
  <2>3. CASE TryAgain(th)
    BY <1>4, <2>3 DEF TryAgain, Flushing
  <2>4. CASE GiveUp(th) \/ Interrupt(th)
    BY <1>4, <1>5, <2>4 DEF GiveUp, Interrupt, Raise
  <2> QED
    BY <1>6, <2>1, <2>2, <2>3, <2>4
<1>7. ASSUME NEW m \in network, Answer(m) \/ Refuse(m) PROVE BufferFits'
  <2>1. m.thread \in Threads
    BY DEF Shape, Msg
  <2>2. CASE UNCHANGED client
    BY <1>4, <2>2 DEF client, Flushing
  <2>3. CASE Waits(m) /\ Return(m.thread)
    BY <1>4, <1>5, <2>1, <2>3 DEF Waits
  <2> QED
    BY <1>7, <2>2, <2>3 DEF Answer, Serve, Refuse, Raise
<1>8. ASSUME NEW m \in serving, Commit(m) \/ CommitFails(m) PROVE BufferFits'
  BY <1>4, <1>8 DEF Commit, CommitFails, client, Flushing
<1>9. ASSUME UNCHANGED vars PROVE BufferFits'
  BY <1>4, <1>9 DEF vars, client, Flushing
<1> QED
  BY <1>2, <1>6, <1>7, <1>8, <1>9 DEF Next

\* The buffer exceeds batch_size only by what the other threads append between
\* a thread's append and its drain, however many threads share the client:
\* this bounds the batch that a POST carries.
THEOREM BufferIsBounded == Spec => []BufferBound
<1>1. Init => BufferFits
  BY Programs, FlushingFinite, EmptySeq DEF Init, BufferFits
<1>2. ClientInv /\ BufferFits => BufferBound
  <2> SUFFICES ASSUME ClientInv, BufferFits PROVE BufferBound
    OBVIOUS
  <2>1. Len(buffer) \in Nat /\ BatchSize \in Nat /\ Cardinality(Threads) \in Nat
    BY Programs, LenProperties, FS_CardinalityType DEF ClientInv, Shape
  <2>2. CASE Cardinality(Flushing) <= Cardinality(Threads)
    BY <2>1, <2>2, FlushingFinite DEF BufferFits, BufferBound
  <2> QED
    BY <2>2, FlushingFinite
<1>3. ClientInv /\ BufferFits /\ [Next]_vars => BufferFits'
  BY BufferFitsStep
<1> QED
  BY <1>1, <1>2, <1>3, ClientAlways, PTL DEF Spec

-----------------------------------------------------------------------------
\* What a step does to the batches on their way.

Still ==
    /\ UNCHANGED <<local, serving, log, raised, undone>>
    /\ \A th \in Threads : (state'[th] = "posting") <=> (state[th] = "posting")

Ends(th) ==
    /\ state[th] = "posting" /\ state'[th] = "running" /\ local'[th] = <<>>
    /\ \A u \in Threads \ {th} : state'[u] = state[u] /\ local'[u] = local[u]

Raises(th) == Ends(th) /\ raised' = raised \cup {local[th]} /\ UNCHANGED <<serving, log, undone>>

Answers(m) ==
    /\ m.thread \in Threads /\ serving = {} /\ serving' = {m} /\ UNCHANGED <<log, raised, undone>>
    /\ \/ UNCHANGED <<state, local>>
       \/ Ends(m.thread) /\ local[m.thread] = m.body

Commits(m) == Commit(m) /\ UNCHANGED <<state, local, raised, undone>>

Fails(m) ==
    serving' = serving \ {m} /\ undone' = undone \cup {m.body} /\ UNCHANGED <<state, local, raised, log>>

LEMMA Moves ==
    ASSUME ClientInv, [Next]_vars
    PROVE  \/ \E th \in Threads : Emit(th) \/ Drain(th)
           \/ /\ UNCHANGED <<emitted, buffer, drained>>
              /\ \/ Still
                 \/ \E th \in Threads : Raises(th)
                 \/ \E m \in network : Answers(m)
                 \/ \E m \in serving : Commits(m) \/ Fails(m)
<1> USE DEF ClientInv
<1>1. ASSUME NEW th \in Threads, Flush(th) \/ DrainNothing(th) \/ TryAgain(th) PROVE Still
  BY <1>1 DEF Flush, DrainNothing, TryAgain, Still, server, history, Shape
<1>2. ASSUME NEW th \in Threads, GiveUp(th) \/ Interrupt(th) PROVE Raises(th)
  BY <1>2, Returned DEF GiveUp, Interrupt, Raise, Raises, Ends, server
<1>3. ASSUME NEW m \in network, Refuse(m) PROVE Still \/ \E th \in Threads : Raises(th)
  <2>1. m.thread \in Threads
    BY DEF Shape, Msg
  <2> QED
    BY <1>3, <2>1, Returned DEF Refuse, Raise, Raises, Ends, Still, Waits, client, server, history
<1>4. ASSUME NEW m \in network, Answer(m) PROVE Answers(m)
  <2>1. m.thread \in Threads
    BY DEF Shape, Msg
  <2>2. serving = {} /\ serving' = {m} /\ UNCHANGED <<log, raised, undone>>
    BY <1>4 DEF Answer, Serve, history
  <2>3. UNCHANGED client \/ (Waits(m) /\ Return(m.thread))
    BY <1>4 DEF Answer, Serve
  <2> QED
    BY <2>1, <2>2, <2>3, Returned DEF Answers, Ends, Waits, client
<1>5. ASSUME NEW m \in serving, Commit(m) PROVE Commits(m)
  BY <1>5 DEF Commit, Commits, client, history
<1>6. ASSUME NEW m \in serving, CommitFails(m) PROVE Fails(m)
  BY <1>6 DEF CommitFails, Fails, client
<1>7. ASSUME UNCHANGED vars PROVE Still
  BY <1>7 DEF vars, Still, client, server, history
<1> QED
  BY <1>1, <1>2, <1>3, <1>4, <1>5, <1>6, <1>7, OtherStep DEF Next

\* Where Emit and Drain leave the batches.
LEMMA EmitMoves ==
    ASSUME ClientInv, NEW th \in Threads, Emit(th)
    PROVE  /\ UNCHANGED <<drained, local, serving, log, raised, undone>>
           /\ \A u \in Threads : (state'[u] = "posting") <=> (state[u] = "posting")
           /\ \A e \in ElementsOf(buffer) : e \in ElementsOf(buffer')
           /\ \A d : Emitted(d)' => Emitted(d) \/ d \in ElementsOf(buffer')
<1> USE DEF ClientInv
<1>1. PICK e \in Events : e = Program[th][emitted[th] + 1] /\ \A d : Emitted(d)' <=> Emitted(d) \/ d = e
  BY EmitFresh DEF Emit
<1>2. buffer' = Append(buffer, e)
  BY <1>1 DEF Emit
<1>3. ElementsOf(buffer') = ElementsOf(buffer) \cup {e}
  BY <1>2, ElementsOfAppend DEF Shape
<1>4. UNCHANGED <<drained, local, serving, log, raised, undone>>
  BY DEF Emit, server, history
<1>5. \A u \in Threads : (state'[u] = "posting") <=> (state[u] = "posting")
  BY DEF Emit, Shape
<1> QED
  BY <1>1, <1>3, <1>4, <1>5

LEMMA DrainMoves ==
    ASSUME ClientInv, NEW th \in Threads, Drain(th)
    PROVE  /\ UNCHANGED <<emitted, serving, log, raised, undone>>
           /\ state[th] # "posting" /\ state'[th] = "posting"
           /\ local[th] = <<>> /\ local'[th] = buffer
           /\ \A u \in Threads \ {th} : state'[u] = state[u] /\ local'[u] = local[u] /\ drained'[u] = drained[u]
           /\ drained'[th] = Append(drained[th], buffer)
           /\ buffer \in Seq(Events) /\ drained[th] \in Seq(Seq(Events))
<1> USE DEF ClientInv
<1>1. state[th] = "flushing" /\ local[th] = <<>>
  BY DEF Drain, CarryInv
<1>2. /\ local' = [local EXCEPT ![th] = buffer] /\ state' = [state EXCEPT ![th] = "posting"]
      /\ drained' = [drained EXCEPT ![th] = Append(@, buffer)]
      /\ UNCHANGED <<emitted, serving, log, raised, undone>>
  BY DEF Drain, server
<1> QED
  BY <1>1, <1>2 DEF Shape

-----------------------------------------------------------------------------
\* Every emitted event is accounted for.

Held(e) ==
    \/ e \in ElementsOf(buffer)
    \/ \E u \in Threads : e \in ElementsOf(local[u])
    \/ e \in ElementsOf(log)
    \/ \E m \in serving : e \in ElementsOf(m.body)
    \/ \E b \in raised \cup undone : e \in ElementsOf(b)

LEMMA HeldNext ==
    ASSUME NEW e
    PROVE  Held(e)' <=> \/ e \in ElementsOf(buffer')
                        \/ \E u \in Threads : e \in ElementsOf(local'[u])
                        \/ e \in ElementsOf(log')
                        \/ \E m \in serving' : e \in ElementsOf(m.body)
                        \/ \E b \in raised' \cup undone' : e \in ElementsOf(b)
BY DEF Held, ElementsOf

LEMMA HeldStep == ASSUME ClientInv, [Next]_vars, NEW e, Held(e) PROVE Held(e)'
<1>1. ASSUME NEW th \in Threads, Emit(th) PROVE Held(e)'
  BY <1>1, EmitMoves, HeldNext DEF Held
<1>2. ASSUME NEW th \in Threads, Drain(th) PROVE Held(e)'
  <2>1. e \in ElementsOf(buffer) => e \in ElementsOf(local'[th])
    BY <1>2, DrainMoves
  <2>2. \A u \in Threads : e \in ElementsOf(local[u]) => e \in ElementsOf(local'[u])
    BY <1>2, DrainMoves, NoElements
  <2> QED
    BY <1>2, <2>1, <2>2, DrainMoves, HeldNext DEF Held
<1>3. ASSUME buffer' = buffer, Still PROVE Held(e)'
  BY <1>3, HeldNext DEF Still, Held
<1>4. ASSUME buffer' = buffer, NEW th \in Threads, Raises(th) PROVE Held(e)'
  <2>1. \A u \in Threads : local'[u] = local[u] \/ local[u] \in raised'
    BY <1>4 DEF Raises, Ends
  <2> QED
    BY <1>4, <2>1, HeldNext DEF Raises, Held
<1>5. ASSUME buffer' = buffer, NEW m \in network, Answers(m) PROVE Held(e)'
  <2>1. \A u \in Threads : local'[u] = local[u] \/ local[u] = m.body
    BY <1>5 DEF Answers, Ends
  <2>2. m \in serving' /\ serving = {} /\ UNCHANGED <<log, raised, undone>>
    BY <1>5 DEF Answers
  <2> QED
    BY <1>5, <2>1, <2>2, HeldNext DEF Held
<1>6. ASSUME buffer' = buffer, NEW m \in serving, Commits(m) PROVE Held(e)'
  <2>1. ElementsOf(log') = ElementsOf(log) \cup ElementsOf(m.body)
    BY <1>6, Committed DEF Commits
  <2>2. serving' = serving \ {m} /\ UNCHANGED <<local, raised, undone>>
    BY <1>6 DEF Commits, Commit
  <2> QED
    BY <1>6, <2>1, <2>2, HeldNext DEF Held
<1>7. ASSUME buffer' = buffer, NEW m \in serving, Fails(m) PROVE Held(e)'
  BY <1>7, HeldNext DEF Fails, Held
<1> QED
  BY <1>1, <1>2, <1>3, <1>4, <1>5, <1>6, <1>7, Moves

AllHeld == \A e : Emitted(e) => Held(e)

LEMMA AllHeldStep == ASSUME ClientInv, AllHeld, [Next]_vars PROVE AllHeld'
<1> SUFFICES ASSUME NEW e, Emitted(e)' PROVE Held(e)'
  BY DEF AllHeld
<1>1. CASE Emitted(e)
  BY <1>1, HeldStep DEF AllHeld
<1>2. CASE \E th \in Threads : Emit(th)
  BY <1>1, <1>2, EmitMoves, HeldNext
<1>3. CASE emitted' = emitted
  <2>1. Emitted(e)
    BY <1>3 DEF Emitted
  <2> QED
    BY <1>1, <2>1
<1> QED
  BY <1>2, <1>3, Moves, DrainMoves

\* No event is lost unnoticed by the client, whatever the network loses and the
\* server refuses: until it is in the ledger it is in the buffer, in a batch that
\* is being posted or in a transaction that was answered, or its flush raised,
\* or the commit that followed the 202 failed.
THEOREM EventsAreAccounted == Spec => []Accounted
<1>1. Init => AllHeld
  BY DEF Init, AllHeld, Emitted
<1>2. AllHeld => Accounted
  BY DEF AllHeld, Emitted, Held, Accounted
<1>3. ClientInv /\ AllHeld /\ [Next]_vars => AllHeld'
  BY AllHeldStep
<1> QED
  BY <1>1, <1>2, <1>3, ClientAlways, PTL DEF Spec

-----------------------------------------------------------------------------
\* The types.

LEMMA ProperInBatches ==
    ASSUME NEW b \in Seq(Events), b # <<>>, Distinct(b) PROVE b \in Batches
<1>1. b \in [1..Len(b) -> Events] /\ Len(b) \in Nat \ {0} /\ DOMAIN b = 1..Len(b)
  BY LenProperties, EmptySeq
<1>2. \A i, j \in 1..Len(b) : i # j => b[i] # b[j]
  BY <1>1 DEF Distinct
<1>3. b \in Injection(1..Len(b), Events)
  BY <1>1, <1>2, Fun_IsInj
<1>4. Len(b) <= Cardinality(Events) /\ Cardinality(Events) \in Nat
  <2>1. Cardinality(1..Len(b)) = Len(b)
    BY <1>1, FS_Interval
  <2>2. IsFiniteSet(Events)
    BY DeliveryAssumption
  <2> QED
    BY <1>3, <2>1, <2>2, FS_Injection, FS_CardinalityType
<1>5. Len(b) \in 1..Cardinality(Events)
  BY <1>1, <1>4
<1> QED
  BY <1>1, <1>2, <1>5, DeliveryAssumption

LEMMA BatchesAreProper ==
    ASSUME ClientInv
    PROVE  \A th \in Threads : \A b : IsBatch(th, b) =>
               b \in Batches /\ b \in Seq(Events) /\ b # <<>> /\ Distinct(b)
BY ProperInBatches DEF ClientInv, BatchInv, Proper, IsBatch

\* The buffer, the batch of every thread and what is on its way have the types
\* of the model.
THEOREM DeliveryTypeCorrect == Spec => []TypeOK
<1>1. ClientInv => TypeOK
  <2> SUFFICES ASSUME ClientInv PROVE TypeOK
    OBVIOUS
  <2>1. \A m \in network \cup serving : m \in Message
    <3> SUFFICES ASSUME NEW m \in network \cup serving PROVE m \in Message
      OBVIOUS
    <3>1. m \in Msg /\ IsBatch(m.thread, m.body)
      BY DEF ClientInv, Shape, CarryInv
    <3>2. m.body \in Batches
      BY <3>1, BatchesAreProper DEF Msg
    <3> QED
      BY <3>1, <3>2 DEF Msg, Message
  <2>2. \A th \in Threads : local[th] \in Batches \cup {<<>>}
    BY BatchesAreProper DEF ClientInv, CarryInv
  <2> QED
    BY <2>1, <2>2 DEF ClientInv, Shape, TypeOK
<1> QED
  BY <1>1, ClientAlways, PTL

-----------------------------------------------------------------------------
\* What is in the log.

\* Every stored event is in a drained batch, and a drained batch is stored whole
\* or not at all.
Traced(e) == \E th \in Threads : \E k \in DOMAIN drained[th] : e \in ElementsOf(drained[th][k])

Stored(b) == ElementsOf(b) \subseteq ElementsOf(log)

Absent(b) == ElementsOf(b) \cap ElementsOf(log) = {}

LogInv ==
    /\ \A e \in ElementsOf(log) : Traced(e)
    /\ \A th \in Threads : \A k \in DOMAIN drained[th] : Stored(drained[th][k]) \/ Absent(drained[th][k])

\* One handler at a time has inserted and not committed.
OneServing == \A m, n \in serving : m = n

LEMMA StoredNext ==
    ASSUME NEW b
    PROVE  /\ Stored(b)' <=> ElementsOf(b) \subseteq ElementsOf(log')
           /\ Absent(b)' <=> ElementsOf(b) \cap ElementsOf(log') = {}
           /\ Traced(b)' <=> \E th \in Threads : \E k \in DOMAIN drained'[th] : b \in ElementsOf(drained'[th][k])
BY DEF Stored, Absent, Traced, ElementsOf

LEMMA LogInvNext ==
    ASSUME \A e \in ElementsOf(log') : Traced(e)',
           \A th \in Threads : \A k \in DOMAIN drained'[th] :
               \A b : b = drained'[th][k] => Stored(b)' \/ Absent(b)'
    PROVE  LogInv'
<1>1. \A e \in ElementsOf(log)' : Traced(e)'
  BY DEF ElementsOf
<1>2. \A th \in Threads : \A k \in DOMAIN drained'[th] : Stored(drained[th][k])' \/ Absent(drained[th][k])'
  BY DEF Stored, Absent, ElementsOf
<1> QED
  BY <1>1, <1>2 DEF LogInv

\* The commit of one batch: every other batch is as it was.
LEMMA CommitKeepsOthers ==
    ASSUME ClientInv, NEW m \in serving, Commit(m),
           NEW th \in Threads, NEW k \in DOMAIN drained[th]
    PROVE  drained[th][k] = m.body \/ ElementsOf(drained[th][k]) \cap ElementsOf(m.body) = {}
<1>1. m.thread \in Threads /\ IsBatch(m.thread, m.body)
  BY Committed
<1>2. PICK l \in DOMAIN drained[m.thread] : drained[m.thread][l] = m.body
  BY <1>1 DEF IsBatch
<1>3. CASE th = m.thread /\ k = l
  BY <1>2, <1>3
<1>4. CASE <<th, k>> # <<m.thread, l>>
  BY <1>1, <1>2, <1>4 DEF ClientInv, Disjoint
<1> QED
  BY <1>3, <1>4

LEMMA LogInvStep == ASSUME ClientInv, LogInv, [Next]_vars PROVE LogInv'
<1>1. ASSUME UNCHANGED <<log, drained>> PROVE LogInv'
  <2>1. \A e \in ElementsOf(log') : Traced(e)'
    BY <1>1, StoredNext DEF LogInv, Traced
  <2>2. \A th \in Threads : \A k \in DOMAIN drained'[th] :
            \A b : b = drained'[th][k] => Stored(b)' \/ Absent(b)'
    BY <1>1, StoredNext DEF LogInv, Stored, Absent
  <2> QED
    BY <2>1, <2>2, LogInvNext
<1>2. ASSUME NEW th \in Threads, Drain(th) PROVE LogInv'
  <2>1. /\ log' = log /\ drained'[th] = Append(drained[th], buffer)
        /\ \A u \in Threads \ {th} : drained'[u] = drained[u]
        /\ buffer \in Seq(Events) /\ drained[th] \in Seq(Seq(Events))
    BY <1>2, DrainMoves
  <2>2. PICK n : /\ n \in DOMAIN drained'[th] /\ drained'[th][n] = buffer
                 /\ \A k \in DOMAIN drained[th] : k \in DOMAIN drained'[th] /\ drained'[th][k] = drained[th][k]
                 /\ \A k \in DOMAIN drained'[th] : k \in DOMAIN drained[th] \/ k = n
    <3> DEFINE t == Append(drained[th], buffer)
               l == Len(drained[th]) + 1
    <3>1. /\ l \in DOMAIN t /\ t[l] = buffer
          /\ \A k \in DOMAIN drained[th] : k \in DOMAIN t /\ t[k] = drained[th][k]
          /\ \A k \in DOMAIN t : k \in DOMAIN drained[th] \/ k = l
      BY <2>1, AppendIs
    <3> HIDE DEF t, l
    <3>2. drained'[th] = t
      BY <2>1 DEF t
    <3> QED
      BY <3>1, <3>2
  <2>3. \A e \in ElementsOf(log') : Traced(e)'
    <3> SUFFICES ASSUME NEW e \in ElementsOf(log)
                 PROVE  \E u \in Threads : \E k \in DOMAIN drained'[u] : e \in ElementsOf(drained'[u][k])
      BY <2>1, StoredNext
    <3>1. PICK u \in Threads : \E k \in DOMAIN drained[u] : e \in ElementsOf(drained[u][k])
      BY DEF LogInv, Traced
    <3> QED
      BY <2>1, <2>2, <3>1
  <2>4. ElementsOf(buffer) \cap ElementsOf(log) = {}
    BY DEF ClientInv, BufferInv, LogInv, Traced
  <2>5. ASSUME NEW u \in Threads, NEW k \in DOMAIN drained'[u], NEW b, b = drained'[u][k]
        PROVE  Stored(b)' \/ Absent(b)'
    <3>1. CASE b = buffer
      BY <2>1, <2>4, <3>1, StoredNext
    <3>2. CASE k \in DOMAIN drained[u] /\ b = drained[u][k]
      BY <2>1, <3>2, StoredNext DEF LogInv, Stored, Absent
    <3> QED
      BY <2>1, <2>2, <2>5, <3>1, <3>2
  <2> QED
    BY <2>3, <2>5, LogInvNext
<1>3. ASSUME NEW m \in serving, Commits(m), UNCHANGED drained PROVE LogInv'
  <2>1. /\ ElementsOf(log') = ElementsOf(log) \cup ElementsOf(m.body)
        /\ m.thread \in Threads /\ IsBatch(m.thread, m.body) /\ Commit(m)
    BY <1>3, Committed DEF Commits
  <2>2. \A e \in ElementsOf(log') : Traced(e)'
    <3> SUFFICES ASSUME NEW e \in ElementsOf(log')
                 PROVE  \E u \in Threads : \E k \in DOMAIN drained[u] : e \in ElementsOf(drained[u][k])
      BY <1>3, StoredNext
    <3>1. CASE e \in ElementsOf(log)
      BY <3>1 DEF LogInv, Traced
    <3>2. CASE e \in ElementsOf(m.body)
      BY <2>1, <3>2 DEF IsBatch
    <3> QED
      BY <2>1, <3>1, <3>2
  <2>3. ASSUME NEW u \in Threads, NEW k \in DOMAIN drained'[u], NEW b, b = drained'[u][k]
        PROVE  Stored(b)' \/ Absent(b)'
    <3>1. k \in DOMAIN drained[u] /\ b = drained[u][k]
      BY <1>3, <2>3
    <3>2. b = m.body \/ ElementsOf(b) \cap ElementsOf(m.body) = {}
      BY <2>1, <3>1, CommitKeepsOthers
    <3>3. Stored(b) \/ Absent(b)
      BY <3>1 DEF LogInv
    <3>4. b = m.body => Stored(b)'
      BY <2>1, StoredNext
    <3>5. Stored(b) => Stored(b)'
      BY <2>1, StoredNext DEF Stored
    <3>6. Absent(b) /\ ElementsOf(b) \cap ElementsOf(m.body) = {} => Absent(b)'
      BY <2>1, StoredNext DEF Absent
    <3> QED
      BY <3>2, <3>3, <3>4, <3>5, <3>6
  <2> QED
    BY <2>2, <2>3, LogInvNext
<1> QED
  BY <1>1, <1>2, <1>3, Moves, EmitMoves DEF Still, Raises, Answers, Fails

LEMMA LogAlways == Spec => []LogInv
<1>1. Init => LogInv
  BY NoElements DEF Init, LogInv
<1>2. ClientInv /\ LogInv /\ [Next]_vars => LogInv'
  BY LogInvStep
<1> QED
  BY <1>1, <1>2, ClientAlways, PTL DEF Spec

\* However often a batch is posted, answered, refused or lost, the ledger of the
\* tenant is the append-only log of AppendLog: every drained batch enters it at
\* most once, as a block.
THEOREM DeliveryImplementsAppendLog == Spec => ImplementsAppendLog
<1>1. Init => Promise!Init
  BY DEF Init, Promise!Init
<1>2. ASSUME ClientInv, LogInv, [Next]_vars
      PROVE  [Promise!Next]_([t \in {"tenant"} |-> log])
  <2>1. ASSUME log' = log PROVE [t \in {"tenant"} |-> log'] = [t \in {"tenant"} |-> log]
    BY <2>1
  <2>2. ASSUME NEW m \in serving, Commits(m), log' # log
        PROVE  Promise!Next
    <3>1. /\ log' = log \o Fresh(m.body) /\ m.body \in Seq(Events) /\ m.thread \in Threads
          /\ IsBatch(m.thread, m.body) /\ m.body \in Batches
      BY <1>2, <2>2, Committed, BatchesAreProper DEF Commits
    <3>2. Stored(m.body) \/ Absent(m.body)
      BY <1>2, <3>1 DEF LogInv, IsBatch
    <3>3. ~Stored(m.body)
      <4>1. Stored(m.body) => log' = log
        BY <1>2, <3>1, FreshIs, ConcatEmptySeq DEF Stored, ClientInv, Shape
      <4> QED
        BY <2>2, <4>1
    <3>4. Fresh(m.body) = m.body
      BY <3>1, <3>2, <3>3, FreshIs DEF Absent
    <3>5. \A i \in DOMAIN m.body : m.body[i] \in Events /\ ~Promise!Occurs(m.body[i], log)
      <4>1. \A i \in DOMAIN m.body : m.body[i] \in Events
        BY <3>1, LenProperties, ElementOfSeq
      <4>2. \A i \in DOMAIN m.body : m.body[i] \notin ElementsOf(log)
        BY <3>2, <3>3 DEF Absent, ElementsOf
      <4> QED
        BY <4>1, <4>2 DEF Promise!Occurs, ElementsOf
    <3>6. [t \in {"tenant"} |-> log'] = [[t \in {"tenant"} |-> log] EXCEPT !["tenant"] = @ \o m.body]
      BY <3>1, <3>4
    <3>7. [t \in {"tenant"} |-> log'] # [t \in {"tenant"} |-> log]
      <4>1. [t \in {"tenant"} |-> log']["tenant"] # [t \in {"tenant"} |-> log]["tenant"]
        BY <2>2
      <4> QED
        BY <4>1
    <3>8. Promise!Accept("tenant", m.body)
      BY <3>5, <3>6 DEF Promise!Accept
    <3> QED
      BY <3>1, <3>7, <3>8 DEF Promise!Next
  <2> QED
    BY <1>2, <2>1, <2>2, Moves, EmitMoves, DrainMoves DEF Still, Raises, Answers, Fails
<1> QED
  BY <1>1, <1>2, ClientAlways, LogAlways, PTL DEF Spec, ImplementsAppendLog, Promise!Spec

-----------------------------------------------------------------------------
\* The order of one thread's batches.

\* A thread posts the batch it drained last.
PostInv ==
    \A th \in Threads : state[th] = "posting" =>
        Len(drained[th]) \in DOMAIN drained[th] /\ local[th] = drained[th][Len(drained[th])]

\* What a thread does not post any more is answered, stored or given up.
Done(b) == b \in raised \cup undone \/ Stored(b) \/ \E m \in serving : m.body = b

Settled ==
    \A th \in Threads : \A i \in DOMAIN drained[th] :
        i # Len(drained[th]) \/ state[th] # "posting" => Done(drained[th][i])

OrderInv == PostInv /\ Settled /\ OneServing /\ DrainOrderKept

LEMMA DoneNext ==
    ASSUME NEW b
    PROVE  Done(b)' <=> \/ b \in raised' \cup undone'
                        \/ ElementsOf(b) \subseteq ElementsOf(log')
                        \/ \E m \in serving' : m.body = b
BY DEF Done, Stored, ElementsOf

LEMMA DoneStep == ASSUME ClientInv, [Next]_vars, NEW b, Done(b) PROVE Done(b)'
<1>1. ASSUME NEW m \in serving, Commits(m) PROVE Done(b)'
  <2>1. ElementsOf(log') = ElementsOf(log) \cup ElementsOf(m.body)
    BY <1>1, Committed DEF Commits
  <2>2. serving' = serving \ {m} /\ UNCHANGED <<raised, undone>>
    BY <1>1 DEF Commits, Commit
  <2> QED
    BY <2>1, <2>2, DoneNext DEF Done, Stored
<1>2. ASSUME NEW m \in serving, Fails(m) PROVE Done(b)'
  BY <1>2, DoneNext DEF Fails, Done, Stored
<1>3. ASSUME log' = log, serving \subseteq serving', raised \subseteq raised', undone' = undone PROVE Done(b)'
  BY <1>3, DoneNext DEF Done, Stored
<1> QED
  BY <1>1, <1>2, <1>3, Moves, EmitMoves, DrainMoves DEF Still, Raises, Answers

\* A flush that ends leaves its batch in serving or in raised.
LEMMA EndsDone ==
    ASSUME ClientInv, [Next]_vars, NEW th \in Threads, state[th] = "posting", state'[th] # "posting",
           NEW b, b = local[th]
    PROVE  Done(b)'
<1>1. ASSUME NEW u \in Threads, Raises(u) PROVE Done(b)'
  <2>1. u = th
    BY <1>1 DEF Raises, Ends
  <2> QED
    BY <1>1, <2>1, DoneNext DEF Raises
<1>2. ASSUME NEW m \in network, Answers(m) PROVE Done(b)'
  <2>1. m.thread = th /\ m.body = b /\ serving' = {m}
    BY <1>2 DEF Answers, Ends
  <2> QED
    BY <2>1, DoneNext
<1>3. ASSUME NEW u \in Threads, Drain(u) PROVE FALSE
  <2>1. u # th
    BY <1>3, DrainMoves
  <2> QED
    BY <1>3, <2>1, DrainMoves
<1> QED
  BY <1>1, <1>2, <1>3, Moves, EmitMoves DEF Still, Commits, Fails

LEMMA SettledNext ==
    ASSUME \A th \in Threads : \A i \in DOMAIN drained'[th] :
               i # Len(drained'[th]) \/ state'[th] # "posting" =>
                   \A b : b = drained'[th][i] => Done(b)'
    PROVE  Settled'
<1>1. \A th \in Threads : \A i \in DOMAIN drained'[th] :
          i # Len(drained'[th]) \/ state'[th] # "posting" => Done(drained[th][i])'
  BY DEF Done, Stored, ElementsOf
<1> QED
  BY <1>1 DEF Settled

LEMMA PostStep == ASSUME ClientInv, PostInv, [Next]_vars PROVE PostInv'
<1>1. ASSUME drained' = drained,
             \A th \in Threads : state'[th] = "posting" => state[th] = "posting" /\ local'[th] = local[th]
      PROVE  PostInv'
  BY <1>1 DEF PostInv
<1>2. ASSUME NEW th \in Threads, Drain(th) PROVE PostInv'
  <2>1. /\ local'[th] = buffer /\ drained'[th] = Append(drained[th], buffer)
        /\ buffer \in Seq(Events) /\ drained[th] \in Seq(Seq(Events))
        /\ \A u \in Threads \ {th} : state'[u] = state[u] /\ local'[u] = local[u] /\ drained'[u] = drained[u]
    BY <1>2, DrainMoves
  <2>2. Len(drained'[th]) \in DOMAIN drained'[th] /\ drained'[th][Len(drained'[th])] = buffer
    <3>1. /\ Append(drained[th], buffer) \in Seq(Seq(Events))
          /\ Len(Append(drained[th], buffer)) = Len(drained[th]) + 1
          /\ Append(drained[th], buffer)[Len(drained[th]) + 1] = buffer
          /\ Len(drained[th]) + 1 \in DOMAIN Append(drained[th], buffer)
      BY <2>1, AppendProperties, AppendIs
    <3> QED
      BY <2>1, <3>1
  <2> QED
    BY <2>1, <2>2 DEF PostInv
<1> QED
  BY <1>1, <1>2, Moves, EmitMoves DEF Still, Raises, Answers, Ends, Commits, Fails

LEMMA SettledStep == ASSUME ClientInv, PostInv, Settled, [Next]_vars PROVE Settled'
<1>1. ASSUME drained' = drained PROVE Settled'
  <2> SUFFICES ASSUME NEW th \in Threads, NEW i \in DOMAIN drained[th],
                      i # Len(drained[th]) \/ state'[th] # "posting",
                      NEW b, b = drained[th][i]
               PROVE  Done(b)'
    BY <1>1, SettledNext
  <2>1. CASE i # Len(drained[th]) \/ state[th] # "posting"
    BY <2>1, DoneStep DEF Settled
  <2>2. CASE i = Len(drained[th]) /\ state[th] = "posting"
    BY <2>2, EndsDone DEF PostInv
  <2> QED
    BY <2>1, <2>2
<1>2. ASSUME NEW th \in Threads, Drain(th) PROVE Settled'
  <2> SUFFICES ASSUME NEW u \in Threads, NEW i \in DOMAIN drained'[u],
                      i # Len(drained'[u]) \/ state'[u] # "posting",
                      NEW b, b = drained'[u][i]
               PROVE  Done(b)'
    BY SettledNext
  <2>1. CASE u # th
    <3>1. drained'[u] = drained[u] /\ state'[u] = state[u]
      BY <1>2, <2>1, DrainMoves
    <3> QED
      BY <3>1, DoneStep DEF Settled
  <2>2. CASE u = th
    <3>1. /\ state[th] # "posting" /\ state'[th] = "posting"
          /\ drained'[th] = Append(drained[th], buffer)
          /\ buffer \in Seq(Events) /\ drained[th] \in Seq(Seq(Events))
      BY <1>2, DrainMoves
    <3>2. /\ Len(Append(drained[th], buffer)) = Len(drained[th]) + 1
          /\ \A k \in DOMAIN Append(drained[th], buffer) : k \in DOMAIN drained[th] \/ k = Len(drained[th]) + 1
          /\ \A k \in DOMAIN drained[th] : Append(drained[th], buffer)[k] = drained[th][k]
      BY <3>1, AppendProperties, AppendIs
    <3>3. i \in DOMAIN drained[th] /\ b = drained[th][i]
      BY <2>2, <3>1, <3>2
    <3> QED
      BY <3>1, <3>3, DoneStep DEF Settled
  <2> QED
    BY <2>1, <2>2
<1> QED
  BY <1>1, <1>2, Moves, EmitMoves

LEMMA OneServingStep == ASSUME ClientInv, OneServing, [Next]_vars PROVE OneServing'
BY Moves, EmitMoves, DrainMoves DEF OneServing, Still, Raises, Answers, Commits, Commit, Fails

\* An event of c is in the log only behind all of b.
Behind(b, c) ==
    \A n \in DOMAIN log : log[n] \in ElementsOf(c) => ElementsOf(b) \subseteq {log[k] : k \in 1..(n-1)}

LEMMA BehindNext ==
    ASSUME NEW b, NEW c
    PROVE  Behind(b, c)' <=>
               \A n \in DOMAIN log' : log'[n] \in ElementsOf(c) =>
                   ElementsOf(b) \subseteq {log'[k] : k \in 1..(n-1)}
BY DEF Behind, ElementsOf

LEMMA OrderNext ==
    ASSUME \A th \in Threads : \A i, j \in DOMAIN drained'[th] : \A b, c :
               b = drained'[th][i] /\ c = drained'[th][j] /\ i < j /\ b \notin raised' \cup undone' =>
                   Behind(b, c)'
    PROVE  DrainOrderKept'
<1>1. \A th \in Threads : \A i, j \in DOMAIN drained'[th] :
          i < j /\ drained'[th][i] \notin raised' \cup undone' =>
              \A n \in DOMAIN log' : log'[n] \in ElementsOf(drained'[th][j]) =>
                  ElementsOf(drained'[th][i]) \subseteq {log'[k] : k \in 1..(n-1)}
  BY BehindNext
<1> QED
  BY <1>1 DEF DrainOrderKept, ElementsOf

LEMMA OrderStep ==
    ASSUME ClientInv, LogInv, OrderInv, [Next]_vars PROVE DrainOrderKept'
<1> USE DEF OrderInv
<1>1. ASSUME NEW th \in Threads, NEW i \in DOMAIN drained[th], NEW j \in DOMAIN drained[th], i < j,
             NEW b, NEW c, b = drained[th][i], c = drained[th][j], b \notin raised \cup undone
      PROVE  Behind(b, c)
  BY <1>1 DEF DrainOrderKept, Behind
<1>2. ASSUME UNCHANGED <<log, drained>>, raised \subseteq raised', undone \subseteq undone'
      PROVE  DrainOrderKept'
  BY <1>1, <1>2, BehindNext, OrderNext DEF Behind
<1>3. ASSUME NEW th \in Threads, Drain(th) PROVE DrainOrderKept'
  <2>1. /\ UNCHANGED <<log, raised, undone>> /\ drained'[th] = Append(drained[th], buffer)
        /\ buffer \in Seq(Events) /\ drained[th] \in Seq(Seq(Events))
        /\ \A u \in Threads \ {th} : drained'[u] = drained[u]
    BY <1>3, DrainMoves
  <2>2. ElementsOf(buffer) \cap ElementsOf(log) = {}
    BY DEF ClientInv, BufferInv, LogInv, Traced
  <2> SUFFICES ASSUME NEW u \in Threads, NEW i \in DOMAIN drained'[u], NEW j \in DOMAIN drained'[u], i < j,
                      NEW b, NEW c, b = drained'[u][i], c = drained'[u][j], b \notin raised \cup undone
               PROVE  Behind(b, c)
    <3>1. \A b, c : Behind(b, c) => Behind(b, c)'
      BY <2>1, BehindNext DEF Behind
    <3>2. raised' \cup undone' = raised \cup undone
      BY <2>1
    <3> QED
      BY <3>1, <3>2, OrderNext
  <2>3. CASE u # th
    BY <1>1, <2>1, <2>3
  <2>4. CASE u = th
    <3>1. /\ \A k \in DOMAIN Append(drained[th], buffer) : k \in DOMAIN drained[th] \/ k = Len(drained[th]) + 1
          /\ \A k \in DOMAIN drained[th] : Append(drained[th], buffer)[k] = drained[th][k]
          /\ Append(drained[th], buffer)[Len(drained[th]) + 1] = buffer
          /\ DOMAIN drained[th] = 1..Len(drained[th]) /\ Len(drained[th]) \in Nat
      BY <2>1, AppendProperties, AppendIs, LenProperties
    <3>2. CASE j = Len(drained[th]) + 1
      <4>1. c = buffer
        BY <2>1, <2>4, <3>1, <3>2
      <4> QED
        BY <2>2, <4>1 DEF Behind, ElementsOf
    <3>3. CASE j \in DOMAIN drained[th]
      <4>1. i \in DOMAIN drained[th]
        BY <2>1, <2>4, <3>1, <3>3
      <4> QED
        BY <1>1, <2>1, <2>4, <3>1, <3>3, <4>1
    <3> QED
      BY <2>1, <2>4, <3>1, <3>2, <3>3
  <2> QED
    BY <2>3, <2>4
<1>4. ASSUME NEW m \in serving, Commits(m), UNCHANGED drained PROVE DrainOrderKept'
  <2>1. /\ Commit(m) /\ UNCHANGED <<raised, undone>>
        /\ log' = log \o Fresh(m.body) /\ log \in Seq(Events) /\ log' \in Seq(Events)
        /\ m.body \in Seq(Events) /\ m.thread \in Threads /\ IsBatch(m.thread, m.body)
        /\ Fresh(m.body) \in Seq(Events) /\ ElementsOf(Fresh(m.body)) \subseteq ElementsOf(m.body)
    BY <1>4, Committed, FreshIs DEF Commits, ClientInv, Shape
  <2>2. /\ Len(log) \in Nat /\ DOMAIN log = 1..Len(log)
        /\ DOMAIN log' = 1..Len(log')
        /\ \A n \in 1..Len(log) : n \in DOMAIN log' /\ log'[n] = log[n]
        /\ \A n \in DOMAIN log' : n \in 1..Len(log) \/ (n > Len(log) /\ log'[n] \in ElementsOf(m.body))
    <3>1. /\ Len(log') = Len(log) + Len(Fresh(m.body))
          /\ \A n \in 1..(Len(log) + Len(Fresh(m.body))) :
                 log'[n] = IF n <= Len(log) THEN log[n] ELSE Fresh(m.body)[n - Len(log)]
      BY <2>1, ConcatProperties
    <3>2. /\ Len(log) \in Nat /\ DOMAIN log = 1..Len(log) /\ DOMAIN log' = 1..Len(log')
          /\ Len(Fresh(m.body)) \in Nat /\ DOMAIN Fresh(m.body) = 1..Len(Fresh(m.body))
      BY <2>1, LenProperties
    <3>3. ASSUME NEW n \in DOMAIN log', n > Len(log) PROVE log'[n] \in ElementsOf(m.body)
      <4>1. n - Len(log) \in DOMAIN Fresh(m.body) /\ log'[n] = Fresh(m.body)[n - Len(log)]
        BY <3>1, <3>2, <3>3
      <4>2. log'[n] \in ElementsOf(Fresh(m.body))
        BY <4>1 DEF ElementsOf
      <4> QED
        BY <2>1, <4>2
    <3> QED
      BY <3>1, <3>2, <3>3
  <2> SUFFICES ASSUME NEW th \in Threads, NEW i \in DOMAIN drained[th], NEW j \in DOMAIN drained[th], i < j,
                      NEW b, NEW c, b = drained[th][i], c = drained[th][j], b \notin raised \cup undone,
                      NEW n \in DOMAIN log', log'[n] \in ElementsOf(c)
               PROVE  ElementsOf(b) \subseteq {log'[k] : k \in 1..(n-1)}
    BY <1>4, <2>1, OrderNext, BehindNext
  <2>3. CASE n \in 1..Len(log)
    <3>1. Behind(b, c) /\ log[n] \in ElementsOf(c)
      BY <1>1, <2>2, <2>3
    <3>2. ElementsOf(b) \subseteq {log[k] : k \in 1..(n-1)}
      BY <2>2, <2>3, <3>1 DEF Behind
    <3>3. \A k \in 1..(n-1) : log'[k] = log[k]
      BY <2>2, <2>3
    <3> QED
      BY <3>2, <3>3
  <2>4. CASE n > Len(log) /\ log'[n] \in ElementsOf(m.body)
    <3>1. c = m.body
      BY <2>1, <2>4, CommitKeepsOthers
    <3>2. i # Len(drained[th])
      <4>1. DOMAIN drained[th] = 1..Len(drained[th]) /\ Len(drained[th]) \in Nat
        BY LenProperties DEF ClientInv, Shape
      <4> QED
        BY <4>1
    <3>3. Stored(b) \/ \E o \in serving : o.body = b
      BY <3>2 DEF Settled, Done
    <3>4. b # c
      <4>1. DOMAIN drained[th] = 1..Len(drained[th]) /\ Len(drained[th]) \in Nat
        BY LenProperties DEF ClientInv, Shape
      <4>2. <<th, i>> # <<th, j>>
        BY <4>1
      <4>3. ElementsOf(b) \cap ElementsOf(c) = {}
        BY <4>2 DEF ClientInv, Disjoint
      <4> QED
        BY <4>3
    <3>5. ElementsOf(b) \subseteq {log[k] : k \in 1..Len(log)}
      BY <2>2, <3>1, <3>3, <3>4 DEF OneServing, Stored, ElementsOf
    <3>6. \A k \in 1..Len(log) : k \in 1..(n-1) /\ log'[k] = log[k]
      BY <2>2, <2>4
    <3> QED
      BY <3>5, <3>6
  <2> QED
    BY <2>2, <2>3, <2>4
<1> QED
  BY <1>2, <1>3, <1>4, Moves, EmitMoves DEF Still, Raises, Answers, Fails

\* What one thread drained first is in the ledger first, although the 202 comes
\* before the commit and late duplicates are still served, as long as neither
\* the flush raised nor the commit failed.
THEOREM OrderIsKept == Spec => []DrainOrderKept
<1>1. Init => OrderInv
  <2> SUFFICES ASSUME Init PROVE OrderInv
    OBVIOUS
  <2>1. \A th \in Threads : DOMAIN drained[th] = {} /\ state[th] # "posting"
    BY DEF Init
  <2> QED
    BY <2>1 DEF Init, OrderInv, PostInv, Settled, OneServing, DrainOrderKept
<1>2. ClientInv /\ LogInv /\ OrderInv /\ [Next]_vars => OrderInv'
  BY PostStep, SettledStep, OneServingStep, OrderStep DEF OrderInv
<1>3. OrderInv => DrainOrderKept
  BY DEF OrderInv
<1> QED
  BY <1>1, <1>2, <1>3, ClientAlways, LogAlways, PTL DEF Spec

=============================================================================
