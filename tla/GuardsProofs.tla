---------------------------- MODULE GuardsProofs ----------------------------
(***************************************************************************)
(* Theorems about the guard chain for any finite set of threads, any chain *)
(* that has a budget, any limits and any clock.                            *)
(***************************************************************************)
EXTENDS Guards, FiniteSetTheorems, SequenceTheorems, WellFoundedInduction, TLAPS

-----------------------------------------------------------------------------
\* Types.

\* A non-empty set of indices has a least one.
LEMMA LeastIndex ==
    ASSUME NEW n \in Nat, NEW K \in SUBSET (1..n), K # {}
    PROVE  Min(K) \in K
<1>1. K \subseteq Nat
  OBVIOUS
<1>2. PICK m \in K : \A k \in K : ~(<<k, m>> \in OpToRel(<, Nat))
  BY <1>1, WFMin, NatLessThanWellFounded
<1>3. \A k \in K : ~(k < m)
  BY <1>1, <1>2 DEF OpToRel
<1>4. \A k \in K : m <= k
  BY <1>1, <1>3
<1> QED
  BY <1>4 DEF Min

\* What the velocity counter keeps of its deque are records of the deque.
LEMMA TrimmedType ==
    ASSUME NEW S, NEW d \in Seq(S), NEW oldest
    PROVE  Trimmed(d, oldest) \in Seq(S)
<1> DEFINE kept == {i \in DOMAIN d : d[i].at >= oldest}
<1>1. Trimmed(d, oldest) = IF kept = {} THEN <<>> ELSE SubSeq(d, Min(kept), Len(d))
  BY DEF Trimmed
<1>2. Len(d) \in Nat /\ kept \in SUBSET (1..Len(d)) /\ \A i \in 1..Len(d) : d[i] \in S
  OBVIOUS
<1> HIDE DEF kept
<1>3. CASE kept # {}
  <2>1. Min(kept) \in 1..Len(d)
    BY <1>2, <1>3, LeastIndex
  <2>2. \A i \in Min(kept)..Len(d) : d[i] \in S
    BY <1>2, <2>1
  <2>3. SubSeq(d, Min(kept), Len(d)) \in Seq(S)
    BY <1>2, <2>1, <2>2, SubSeqProperties
  <2> QED
    BY <1>1, <1>3, <2>3
<1> QED
  BY <1>1, <1>3

LEMMA ChainFacts ==
    /\ Len(Chain) \in Nat /\ DOMAIN Chain = 1..Len(Chain)
    /\ Emitting = Len(Chain) + 1 /\ InTool = Len(Chain) + 2
    /\ Len(Limits) \in Nat /\ DOMAIN Limits = 1..Len(Limits)
    /\ 0 \in 0..(Len(Limits) + 1) /\ 1 \in 0..(Len(Limits) + 1)
    /\ \A k \in 1..Len(Limits) : k + 1 \in 0..(Len(Limits) + 1)
    /\ \A g \in 1..Len(Chain) : g + 1 \in 1..InTool
    /\ 0 \in Instant
<1>1. Len(Chain) \in Nat /\ DOMAIN Chain = 1..Len(Chain)
  BY GuardsAssumption
<1>2. Len(Limits) \in Nat /\ DOMAIN Limits = 1..Len(Limits)
  BY GuardsAssumption
<1>3. 0 \in Instant
  BY GuardsAssumption DEF Instant
<1> QED
  BY <1>1, <1>2, <1>3 DEF Emitting, InTool

\* A thread that is somewhere in an evaluation or a call has a frame.
LEMMA FrameOf ==
    ASSUME TypeOK, NEW th \in Threads, frame[th].guard # 0
    PROVE  frame[th] \in Frame
BY DEF TypeOK, Idle

LEMMA FrameWith ==
    ASSUME NEW f \in Frame, NEW g \in 1..InTool,
           NEW k \in 0..(Len(Limits) + 1), NEW t \in Instant
    PROVE  /\ [f EXCEPT !.check = k] \in Frame
           /\ [f EXCEPT !.check = k, !.at = t] \in Frame
           /\ [f EXCEPT !.guard = g, !.check = k, !.at = t] \in Frame
<1>1. [f EXCEPT !.check = k] \in Frame
  BY DEF Frame
<1>2. [f EXCEPT !.check = k, !.at = t] \in Frame
  BY DEF Frame
<1>3. [f EXCEPT !.guard = g, !.check = k, !.at = t] \in Frame
  BY DEF Frame
<1> QED
  BY <1>1, <1>2, <1>3

LEMMA FrameFields ==
    ASSUME NEW f \in Frame
    PROVE  /\ f.guard \in 1..InTool /\ f.conv \in Conversations /\ f.amount \in Amounts
           /\ f.check \in 0..(Len(Limits) + 1) /\ f.at \in Instant
BY DEF Frame

LEMMA Tally ==
    ASSUME NEW r \in [count : Nat, amount : Nat], NEW n \in Nat
    PROVE  [r EXCEPT !.count = @ + 1, !.amount = @ + n] \in [count : Nat, amount : Nat]
<1>1. r.count + 1 \in Nat /\ r.amount + n \in Nat
  OBVIOUS
<1> QED
  BY <1>1

\* The counters of one conversation go up.
LEMMA Charge ==
    ASSUME TypeOK, NEW c \in Conversations
    PROVE  /\ [used EXCEPT ![c].calls = @ + 1] \in [Conversations -> [calls : Nat, tokens : Nat]]
           /\ \A n \in Nat :
                  [used EXCEPT ![c].tokens = @ + n] \in [Conversations -> [calls : Nat, tokens : Nat]]
           /\ [granted EXCEPT ![c] = @ + 1] \in [Conversations -> Nat]
<1> DEFINE U == [calls : Nat, tokens : Nat]
<1>1. used \in [Conversations -> U] /\ granted \in [Conversations -> Nat]
  BY DEF TypeOK
<1>2. used[c] \in U
  BY <1>1
<1>3. [used[c] EXCEPT !.calls = @ + 1] \in U
  BY <1>2
<1>4. ASSUME NEW n \in Nat PROVE [used[c] EXCEPT !.tokens = @ + n] \in U
  BY <1>2
<1>5. [used EXCEPT ![c].calls = @ + 1] \in [Conversations -> U]
  BY <1>1, <1>3
<1>6. \A n \in Nat : [used EXCEPT ![c].tokens = @ + n] \in [Conversations -> U]
  BY <1>1, <1>4
<1>7. [granted EXCEPT ![c] = @ + 1] \in [Conversations -> Nat]
  BY <1>1
<1> QED
  BY <1>5, <1>6, <1>7

LEMMA InitTypeOK == Init => TypeOK
BY GuardsAssumption DEF Init, TypeOK, Idle, Unused, Instant

\* A guard that grants leaves a frame, one that denies leaves none.
LEMMA GrantType ==
    ASSUME TypeOK, NEW th \in Threads, frame[th].guard \in 1..Emitting, Grant(th)
    PROVE  frame' \in [Threads -> Frame \cup {Idle}]
<1>1. frame[th] \in Frame
  BY FrameOf, ChainFacts
<1>2. frame[th].guard + 1 \in 1..InTool
  BY ChainFacts
<1>3. [frame[th] EXCEPT !.guard = @ + 1] \in Frame
  BY <1>1, <1>2 DEF Frame
<1> QED
  BY <1>3 DEF Grant, TypeOK

LEMMA DenyType ==
    ASSUME TypeOK, NEW th \in Threads, Deny(th)
    PROVE  frame' \in [Threads -> Frame \cup {Idle}]
BY DEF Deny, TypeOK

LEMMA AtGuard ==
    ASSUME NEW th \in Threads, NEW name, At(th, name)
    PROVE  frame[th].guard \in 1..Len(Chain) /\ frame[th].guard \in 1..Emitting
BY ChainFacts DEF At

LEMMA NextTypeOK == TypeOK /\ [Next]_vars => TypeOK'
<1> SUFFICES ASSUME TypeOK, [Next]_vars PROVE TypeOK'
  OBVIOUS
<1> USE ChainFacts
<1>1. ASSUME NEW th \in Threads, Evaluate(th) PROVE TypeOK'
  BY <1>1 DEF Evaluate, TypeOK
<1>2. ASSUME NEW th \in Threads, Fraud(th) PROVE TypeOK'
  <2>1. Grant(th) \/ Deny(th)
    BY <1>2 DEF Fraud
  <2>2. frame' \in [Threads -> Frame \cup {Idle}]
    BY <1>2, <2>1, AtGuard, GrantType, DenyType DEF Fraud
  <2> QED
    BY <1>2, <2>2 DEF Fraud, TypeOK
<1>3. ASSUME NEW th \in Threads, PermissionMode(th) PROVE TypeOK'
  <2>1. Grant(th) \/ Deny(th)
    BY <1>3 DEF PermissionMode
  <2>2. frame' \in [Threads -> Frame \cup {Idle}]
    BY <1>3, <2>1, AtGuard, GrantType, DenyType DEF PermissionMode
  <2> QED
    BY <1>3, <2>2 DEF PermissionMode, TypeOK
<1>4. ASSUME NEW th \in Threads, ReadClock(th) PROVE TypeOK'
  <2>1. frame[th] \in Frame
    BY <1>4, AtGuard, FrameOf DEF ReadClock
  <2>2. [frame[th] EXCEPT !.check = 1, !.at = now] \in Frame
    BY <2>1, FrameWith, FrameFields, ChainFacts DEF TypeOK
  <2> QED
    BY <1>4, <2>2 DEF ReadClock, TypeOK
<1>5. ASSUME NEW th \in Threads, CheckLimit(th) PROVE TypeOK'
  <2>1. frame[th] \in Frame /\ frame[th].check \in 1..Len(Limits)
    BY <1>5, AtGuard, FrameOf DEF CheckLimit
  <2>2. [frame[th] EXCEPT !.check = @ + 1] \in Frame
    BY <2>1, FrameWith, FrameFields, ChainFacts
  <2>3. frame' \in [Threads -> Frame \cup {Idle}]
    BY <1>5, <2>2, DenyType DEF CheckLimit, TypeOK
  <2>4. deque' \in Seq([at : Instant, amount : Amounts])
    BY <1>5, TrimmedType DEF CheckLimit, TypeOK
  <2> QED
    BY <1>5, <2>3, <2>4 DEF CheckLimit, TypeOK
<1>6. ASSUME NEW th \in Threads, Record(th) PROVE TypeOK'
  <2>1. frame[th] \in Frame /\ frame[th].guard \in 1..Len(Chain)
    BY <1>6, AtGuard, FrameOf DEF Record
  <2>2. [frame[th] EXCEPT !.guard = @ + 1, !.check = 0, !.at = 0] \in Frame
    BY <2>1, ChainFacts, FrameWith
  <2>3. frame' \in [Threads -> Frame \cup {Idle}]
    BY <1>6, <2>2 DEF Record, TypeOK
  <2>4. frame[th].at \in Instant /\ frame[th].amount \in Amounts /\ frame[th].amount \in Nat
    BY <2>1, FrameFields, GuardsAssumption
  <2>5. [passed[frame[th].at] EXCEPT !.count = @ + 1, !.amount = @ + frame[th].amount]
            \in [count : Nat, amount : Nat]
    <3>1. passed[frame[th].at] \in [count : Nat, amount : Nat]
      BY <2>4 DEF TypeOK
    <3> QED
      BY <2>4, <3>1, Tally
  <2>6. passed' = [passed EXCEPT ![frame[th].at] =
            [passed[frame[th].at] EXCEPT !.count = @ + 1, !.amount = @ + frame[th].amount]]
    BY <1>6, <2>4 DEF Record, TypeOK
  <2>7. passed' \in [Instant -> [count : Nat, amount : Nat]]
    BY <2>5, <2>6 DEF TypeOK
  <2>8. deque' \in Seq([at : Instant, amount : Amounts])
    BY <1>6, <2>4 DEF Record, TypeOK
  <2> QED
    BY <1>6, <2>3, <2>7, <2>8 DEF Record, TypeOK
<1>7. ASSUME NEW th \in Threads, Budget(th) PROVE TypeOK'
  <2>1. frame[th] \in Frame
    BY <1>7, AtGuard, FrameOf DEF Budget
  <2>2. frame' \in [Threads -> Frame \cup {Idle}]
    BY <1>7, AtGuard, GrantType, DenyType DEF Budget
  <2>3. used' \in [Conversations -> [calls : Nat, tokens : Nat]]
    <3>1. used' = used \/ used' = [used EXCEPT ![frame[th].conv].calls = @ + 1]
      BY <1>7 DEF Budget
    <3>2. frame[th].conv \in Conversations
      BY <2>1, FrameFields
    <3>3. [used EXCEPT ![frame[th].conv].calls = @ + 1]
              \in [Conversations -> [calls : Nat, tokens : Nat]]
      BY <3>2, Charge
    <3> QED
      BY <3>1, <3>3 DEF TypeOK
  <2> QED
    BY <1>7, <2>2, <2>3 DEF Budget, TypeOK
<1>8. ASSUME NEW th \in Threads, Emit(th) PROVE TypeOK'
  <2>1. frame[th] \in Frame
    BY <1>8, FrameOf DEF Emit
  <2>2. frame' \in [Threads -> Frame \cup {Idle}]
    BY <1>8, GrantType, DenyType DEF Emit
  <2>3. granted' \in [Conversations -> Nat]
    <3>1. granted' = granted \/ granted' = [granted EXCEPT ![frame[th].conv] = @ + 1]
      BY <1>8 DEF Emit
    <3>2. frame[th].conv \in Conversations
      BY <2>1, FrameFields
    <3> QED
      BY <3>1, <3>2, Charge DEF TypeOK
  <2> QED
    BY <1>8, <2>2, <2>3 DEF Emit, TypeOK
<1>9. ASSUME NEW th \in Threads, Consume(th) PROVE TypeOK'
  <2>1. frame[th] \in Frame
    BY <1>9, FrameOf DEF Consume
  <2>2. used' \in [Conversations -> [calls : Nat, tokens : Nat]]
    <3>1. PICK t \in 0..MaxPerCall : used' = [used EXCEPT ![frame[th].conv].tokens = @ + t]
      BY <1>9 DEF Consume
    <3>2. t \in Nat
      BY GuardsAssumption
    <3> QED
      BY <2>1, <3>1, <3>2, FrameFields, Charge
  <2> QED
    BY <1>9, <2>2 DEF Consume, TypeOK
<1>10. ASSUME NEW c \in Conversations, Reset(c) PROVE TypeOK'
  BY <1>10 DEF Reset, TypeOK, Unused
<1>11. CASE Tick
  <2>1. now' \in Instant
    BY <1>11, GuardsAssumption DEF Tick, TypeOK, Instant
  <2> QED
    BY <1>11, <2>1 DEF Tick, TypeOK
<1>12. CASE UNCHANGED vars
  BY <1>12 DEF vars, TypeOK
<1> QED
  BY <1>1, <1>2, <1>3, <1>4, <1>5, <1>6, <1>7, <1>8, <1>9, <1>10, <1>11, <1>12 DEF Next

\* Every reachable state of the guards is well typed: the counters of the
\* deque, of the budget and of the chain's evaluations.
THEOREM TypeCorrect == Spec => []TypeOK
BY InitTypeOK, NextTypeOK, PTL DEF Spec

-----------------------------------------------------------------------------
\* The calls under way.  A frame is charged when a budget of the chain is
\* behind it; it waits when the grant is not emitted yet.

Charged(f)    == \E i \in DOMAIN Chain : i < f.guard /\ Chain[i] = "budget"
InCall(f, c)  == f \in Frame /\ Charged(f) /\ f.conv = c
Waiting(f, c) == InCall(f, c) /\ f.guard <= Emitting

UnderWay(fr, c) == {th \in Threads : InCall(fr[th], c)}
Pending(fr, c)  == {th \in Threads : Waiting(fr[th], c)}

\* The strengthening of CallsBounded: a call that is charged and not granted
\* yet counts as granted.
CallsInv ==
    \A c \in Conversations :
        /\ used[c].calls <= MaxToolCalls
        /\ granted[c] + Cardinality(Pending(frame, c))
               <= used[c].calls + Cardinality(Threads)

\* The strengthening of TokensBounded: every call under way may still consume
\* MaxPerCall tokens.
TokensInv ==
    \A c \in Conversations :
        used[c].tokens + MaxPerCall * Cardinality(UnderWay(frame, c))
            < MaxTokens + Cardinality(Threads) * MaxPerCall

LEMMA Cardinalities ==
    ASSUME NEW S \in SUBSET Threads, NEW T \in SUBSET S
    PROVE  /\ Cardinality(S) \in Nat /\ Cardinality(T) \in Nat
           /\ Cardinality(T) <= Cardinality(S)
           /\ Cardinality(S) <= Cardinality(Threads) /\ Cardinality(Threads) \in Nat
<1>1. IsFiniteSet(Threads)
  BY GuardsAssumption
<1>2. IsFiniteSet(S) /\ Cardinality(S) <= Cardinality(Threads)
  BY <1>1, FS_Subset
<1>3. IsFiniteSet(T) /\ Cardinality(T) <= Cardinality(S)
  BY <1>2, FS_Subset
<1> QED
  BY <1>1, <1>2, <1>3, FS_CardinalityType

LEMMA OneMore ==
    ASSUME NEW S \in SUBSET Threads, NEW x, NEW T \in SUBSET (S \cup {x})
    PROVE  Cardinality(T) \in Nat /\ Cardinality(T) <= Cardinality(S) + 1
<1>1. IsFiniteSet(S) /\ Cardinality(S) \in Nat
  BY GuardsAssumption, FS_Subset, FS_CardinalityType
<1>2. /\ IsFiniteSet(S \cup {x}) /\ Cardinality(S \cup {x}) \in Nat
      /\ Cardinality(S \cup {x}) <= Cardinality(S) + 1
  BY <1>1, FS_AddElement, FS_CardinalityType
<1>3. IsFiniteSet(T) /\ Cardinality(T) \in Nat /\ Cardinality(T) <= Cardinality(S \cup {x})
  BY <1>2, FS_Subset, FS_CardinalityType
<1> QED
  BY <1>1, <1>2, <1>3

LEMMA OneLess ==
    ASSUME NEW S \in SUBSET Threads, NEW x \in S, NEW T \in SUBSET (S \ {x})
    PROVE  /\ Cardinality(T) \in Nat /\ Cardinality(S) \in Nat
           /\ Cardinality(T) + 1 <= Cardinality(S)
<1>1. IsFiniteSet(S) /\ Cardinality(S) \in Nat
  BY GuardsAssumption, FS_Subset, FS_CardinalityType
<1>2. IsFiniteSet(S \ {x}) /\ Cardinality(S \ {x}) = Cardinality(S) - 1
  BY <1>1, FS_RemoveElement
<1>3. IsFiniteSet(T) /\ Cardinality(T) \in Nat /\ Cardinality(T) <= Cardinality(S \ {x})
  BY <1>2, FS_Subset, FS_CardinalityType
<1> QED
  BY <1>1, <1>2, <1>3

LEMMA Times ==
    ASSUME NEW m \in Nat, NEW j \in Nat, NEW k \in Nat
    PROVE  /\ m * j \in Nat
           /\ j <= k => m * j <= m * k
           /\ j + 1 <= k => m * j + m <= m * k
<1>1. m * j \in Nat
  OBVIOUS
<1>2. ASSUME j <= k PROVE m * j <= m * k
  <2>1. m * (k - j) \in Nat /\ m * (k - j) = m * k - m * j
    BY <1>2
  <2> QED
    BY <2>1
<1>3. ASSUME j + 1 <= k PROVE m * j + m <= m * k
  <2>1. m * (k - (j + 1)) \in Nat /\ m * (k - (j + 1)) = m * k - (m * j + m)
    BY <1>3
  <2> QED
    BY <2>1
<1> QED
  BY <1>1, <1>2, <1>3

\* How the two sets follow the frame of one thread.
LEMMA OneFrame ==
    ASSUME TypeOK, NEW th \in Threads, NEW g, frame' = [frame EXCEPT ![th] = g],
           NEW c \in Conversations
    PROVE  /\ UnderWay(frame', c) \subseteq UnderWay(frame, c) \cup {th}
           /\ Pending(frame', c) \subseteq Pending(frame, c) \cup {th}
           /\ ~InCall(g, c) => UnderWay(frame', c) \subseteq UnderWay(frame, c) \ {th}
           /\ ~Waiting(g, c) => Pending(frame', c) \subseteq Pending(frame, c) \ {th}
           /\ (InCall(g, c) => InCall(frame[th], c)) =>
                  UnderWay(frame', c) \subseteq UnderWay(frame, c)
           /\ (Waiting(g, c) => Waiting(frame[th], c)) =>
                  Pending(frame', c) \subseteq Pending(frame, c)
<1>1. frame'[th] = g /\ \A u \in Threads : u # th => frame'[u] = frame[u]
  BY DEF TypeOK
<1> QED
  BY <1>1 DEF UnderWay, Pending

LEMMA IdleFree == \A c : ~InCall(Idle, c) /\ ~Waiting(Idle, c)
<1>1. Idle \notin Frame
  BY DEF Idle, Frame
<1> QED
  BY <1>1 DEF InCall, Waiting

\* A guard other than a budget charges nothing.
LEMMA Advance ==
    ASSUME NEW f \in Frame, NEW g, f.guard \in 1..Len(Chain), Chain[f.guard] # "budget",
           g.guard = f.guard + 1, g.conv = f.conv, NEW c
    PROVE  /\ InCall(g, c) => InCall(f, c)
           /\ Waiting(g, c) => Waiting(f, c)
<1>1. f.guard \in Nat /\ f.guard <= Emitting
  BY ChainFacts
<1>2. Charged(g) => Charged(f)
  BY <1>1, ChainFacts DEF Charged
<1> QED
  BY <1>1, <1>2 DEF InCall, Waiting

LEMMA Still ==
    ASSUME NEW f \in Frame, NEW g, g.guard = f.guard, g.conv = f.conv, NEW c
    PROVE  /\ InCall(g, c) => InCall(f, c)
           /\ Waiting(g, c) => Waiting(f, c)
BY DEF InCall, Waiting, Charged

\* A step that charges and grants nothing, and puts no call under way.
LEMMA Quiet ==
    ASSUME TypeOK, CallsInv, TokensInv, UNCHANGED <<used, granted>>,
           NEW th \in Threads, NEW g, frame' = [frame EXCEPT ![th] = g],
           \A c \in Conversations : /\ InCall(g, c) => InCall(frame[th], c)
                                    /\ Waiting(g, c) => Waiting(frame[th], c)
    PROVE  CallsInv' /\ TokensInv'
<1> SUFFICES ASSUME NEW c \in Conversations
             PROVE  /\ used'[c].calls <= MaxToolCalls
                    /\ granted'[c] + Cardinality(Pending(frame', c))
                           <= used'[c].calls + Cardinality(Threads)
                    /\ used'[c].tokens + MaxPerCall * Cardinality(UnderWay(frame', c))
                           < MaxTokens + Cardinality(Threads) * MaxPerCall
  BY DEF CallsInv, TokensInv
<1> DEFINE p  == Cardinality(Pending(frame, c))
           p1 == Cardinality(Pending(frame', c))
           u  == Cardinality(UnderWay(frame, c))
           u1 == Cardinality(UnderWay(frame', c))
<1>1. p1 \in Nat /\ p \in Nat /\ p1 <= p
  <2>1. Pending(frame', c) \subseteq Pending(frame, c) /\ Pending(frame, c) \subseteq Threads
    BY OneFrame DEF Pending
  <2> QED
    BY <2>1, Cardinalities
<1>2. u1 \in Nat /\ u \in Nat /\ u1 <= u /\ Cardinality(Threads) \in Nat
  <2>1. UnderWay(frame', c) \subseteq UnderWay(frame, c) /\ UnderWay(frame, c) \subseteq Threads
    BY OneFrame DEF UnderWay
  <2> QED
    BY <2>1, Cardinalities
<1>3. /\ MaxPerCall * u1 <= MaxPerCall * u /\ MaxPerCall * u1 \in Nat /\ MaxPerCall * u \in Nat
      /\ Cardinality(Threads) * MaxPerCall \in Nat
  BY <1>2, Times, GuardsAssumption
<1>4. used[c].calls \in Nat /\ used[c].tokens \in Nat /\ granted[c] \in Nat
  BY DEF TypeOK
<1>5. used'[c] = used[c] /\ granted'[c] = granted[c]
  OBVIOUS
<1>6. /\ used[c].calls <= MaxToolCalls
      /\ granted[c] + p <= used[c].calls + Cardinality(Threads)
      /\ used[c].tokens + MaxPerCall * u < MaxTokens + Cardinality(Threads) * MaxPerCall
  BY DEF CallsInv, TokensInv
<1>7. granted[c] + p1 <= used[c].calls + Cardinality(Threads)
  <2> HIDE DEF p, p1
  <2> QED
    BY <1>1, <1>2, <1>4, <1>6
<1>8. used[c].tokens + MaxPerCall * u1 < MaxTokens + Cardinality(Threads) * MaxPerCall
  <2> DEFINE m == MaxPerCall * u
             m1 == MaxPerCall * u1
             b == Cardinality(Threads) * MaxPerCall
  <2>1. /\ m1 \in Nat /\ m \in Nat /\ b \in Nat /\ MaxTokens \in Nat /\ m1 <= m
        /\ used[c].tokens + m < MaxTokens + b
    BY <1>3, <1>6, GuardsAssumption
  <2> HIDE DEF m, m1, b
  <2>2. used[c].tokens + m1 < MaxTokens + b
    BY <2>1, <1>4
  <2> QED
    BY <2>2 DEF m1, b
<1> QED
  BY <1>5, <1>6, <1>7, <1>8

\* Every action but four is quiet.
LEMMA QuietActions ==
    ASSUME TypeOK, CallsInv, TokensInv, NEW th \in Threads,
           Evaluate(th) \/ Fraud(th) \/ PermissionMode(th) \/ ReadClock(th)
               \/ CheckLimit(th) \/ Record(th)
    PROVE  CallsInv' /\ TokensInv'
<1>1. ASSUME Deny(th), UNCHANGED <<used, granted>> PROVE CallsInv' /\ TokensInv'
  BY <1>1, Quiet, IdleFree DEF Deny
<1>2. ASSUME frame[th].guard \in 1..Len(Chain), Chain[frame[th].guard] # "budget",
             NEW g, g.guard = frame[th].guard + 1, g.conv = frame[th].conv,
             frame' = [frame EXCEPT ![th] = g], UNCHANGED <<used, granted>>
      PROVE  CallsInv' /\ TokensInv'
  <2>1. frame[th] \in Frame
    BY <1>2, FrameOf
  <2> QED
    BY <1>2, <2>1, Advance, Quiet
<1>3. ASSUME frame[th].guard \in 1..Len(Chain),
             NEW g, g.guard = frame[th].guard, g.conv = frame[th].conv,
             frame' = [frame EXCEPT ![th] = g], UNCHANGED <<used, granted>>
      PROVE  CallsInv' /\ TokensInv'
  <2>1. frame[th] \in Frame
    BY <1>3, FrameOf
  <2> QED
    BY <1>3, <2>1, Still, Quiet
<1>4. ASSUME NEW name, At(th, name), name # "budget", Grant(th), UNCHANGED <<used, granted>>
      PROVE  CallsInv' /\ TokensInv'
  <2> DEFINE g == [frame[th] EXCEPT !.guard = @ + 1]
  <2>1. frame[th] \in Frame /\ frame[th].guard \in 1..Len(Chain)
    BY <1>4, AtGuard, FrameOf
  <2>2. g.guard = frame[th].guard + 1 /\ g.conv = frame[th].conv
    BY <2>1 DEF Frame
  <2>3. frame' = [frame EXCEPT ![th] = g] /\ Chain[frame[th].guard] # "budget"
    BY <1>4 DEF Grant, At
  <2> HIDE DEF g
  <2> QED
    BY <1>4, <1>2, <2>1, <2>2, <2>3
<1>5. CASE Evaluate(th)
  <2>1. PICK f \in Frame : f.guard = 1 /\ frame' = [frame EXCEPT ![th] = f]
    BY <1>5 DEF Evaluate
  <2>2. ~Charged(f)
    BY <2>1, ChainFacts DEF Charged
  <2>3. \A c \in Conversations : ~InCall(f, c) /\ ~Waiting(f, c)
    BY <2>2 DEF InCall, Waiting
  <2>4. UNCHANGED <<used, granted>>
    BY <1>5 DEF Evaluate
  <2> QED
    BY <2>1, <2>3, <2>4, Quiet
<1>6. CASE Fraud(th)
  BY <1>6, <1>1, <1>4 DEF Fraud
<1>7. CASE PermissionMode(th)
  BY <1>7, <1>1, <1>4 DEF PermissionMode
<1>8. CASE ReadClock(th)
  <2> DEFINE g == [frame[th] EXCEPT !.check = 1, !.at = now]
  <2>1. frame[th] \in Frame /\ frame[th].guard \in 1..Len(Chain)
    BY <1>8, AtGuard, FrameOf DEF ReadClock
  <2>2. g.guard = frame[th].guard /\ g.conv = frame[th].conv
    BY <2>1 DEF Frame
  <2>3. frame' = [frame EXCEPT ![th] = g] /\ UNCHANGED <<used, granted>>
    BY <1>8 DEF ReadClock
  <2> HIDE DEF g
  <2> QED
    BY <1>3, <2>1, <2>2, <2>3
<1>9. CASE CheckLimit(th)
  <2> DEFINE g == [frame[th] EXCEPT !.check = @ + 1]
  <2>1. frame[th] \in Frame /\ frame[th].guard \in 1..Len(Chain)
    BY <1>9, AtGuard, FrameOf DEF CheckLimit
  <2>2. g.guard = frame[th].guard /\ g.conv = frame[th].conv
    BY <2>1 DEF Frame
  <2>3. (Deny(th) \/ frame' = [frame EXCEPT ![th] = g]) /\ UNCHANGED <<used, granted>>
    BY <1>9 DEF CheckLimit
  <2> HIDE DEF g
  <2> QED
    BY <1>1, <1>3, <2>1, <2>2, <2>3
<1>10. CASE Record(th)
  <2> DEFINE g == [frame[th] EXCEPT !.guard = @ + 1, !.check = 0, !.at = 0]
  <2>1. /\ frame[th] \in Frame /\ frame[th].guard \in 1..Len(Chain)
        /\ Chain[frame[th].guard] # "budget"
    BY <1>10, AtGuard, FrameOf DEF Record, At
  <2>2. g.guard = frame[th].guard + 1 /\ g.conv = frame[th].conv
    BY <2>1 DEF Frame
  <2>3. frame' = [frame EXCEPT ![th] = g] /\ UNCHANGED <<used, granted>>
    BY <1>10 DEF Record
  <2> HIDE DEF g
  <2> QED
    BY <1>2, <2>1, <2>2, <2>3
<1> QED
  BY <1>5, <1>6, <1>7, <1>8, <1>9, <1>10

LEMMA Sizes ==
    ASSUME NEW fr, NEW c
    PROVE  /\ Pending(fr, c) \in SUBSET Threads /\ UnderWay(fr, c) \in SUBSET Threads
           /\ Cardinality(Pending(fr, c)) \in Nat
           /\ Cardinality(UnderWay(fr, c)) \in 0..Cardinality(Threads)
           /\ Cardinality(Threads) \in Nat
<1>1. Pending(fr, c) \in SUBSET Threads /\ UnderWay(fr, c) \in SUBSET Threads
  BY DEF Pending, UnderWay
<1> QED
  BY <1>1, Cardinalities

\* The bounds of one conversation after a step, from the numbers before it: p
\* and u are the sizes of the two sets.
LEMMA CallsStep ==
    ASSUME NEW calls \in Nat, NEW g \in Nat, NEW n \in Nat, NEW p \in Nat, NEW p1 \in Nat,
           g + p <= calls + n
    PROVE  /\ p1 <= p => g + p1 <= calls + n
           /\ p1 <= p + 1 => g + p1 <= (calls + 1) + n
           /\ p1 + 1 <= p => (g + 1) + p1 <= calls + n
OBVIOUS

LEMMA TokensStep ==
    ASSUME NEW tokens \in Nat, NEW t \in 0..MaxPerCall, NEW n \in Nat,
           NEW u \in 0..n, NEW u1 \in 0..n
    PROVE  /\ tokens < MaxTokens => tokens + MaxPerCall * u1 < MaxTokens + n * MaxPerCall
           /\ (tokens + MaxPerCall * u < MaxTokens + n * MaxPerCall /\ u1 <= u) =>
                  tokens + MaxPerCall * u1 < MaxTokens + n * MaxPerCall
           /\ (tokens + MaxPerCall * u < MaxTokens + n * MaxPerCall /\ u1 + 1 <= u) =>
                  (tokens + t) + MaxPerCall * u1 < MaxTokens + n * MaxPerCall
<1> DEFINE m  == MaxPerCall * u
           m1 == MaxPerCall * u1
           b  == MaxPerCall * n
<1>1. /\ MaxPerCall \in Nat /\ MaxTokens \in Nat /\ t \in Nat /\ t <= MaxPerCall
      /\ u \in Nat /\ u1 \in Nat /\ u1 <= n
  BY GuardsAssumption
<1>2. m \in Nat /\ m1 \in Nat /\ b \in Nat
  BY <1>1, Times
<1>3. m1 <= b /\ (u1 <= u => m1 <= m) /\ (u1 + 1 <= u => m1 + MaxPerCall <= m)
  BY <1>1, Times
<1>4. n * MaxPerCall = b
  BY <1>1
<1> HIDE DEF m, m1, b
<1>5. /\ tokens < MaxTokens => tokens + m1 < MaxTokens + b
      /\ (tokens + m < MaxTokens + b /\ u1 <= u) => tokens + m1 < MaxTokens + b
      /\ (tokens + m < MaxTokens + b /\ u1 + 1 <= u) => (tokens + t) + m1 < MaxTokens + b
  BY <1>1, <1>2, <1>3
<1> QED
  BY <1>4, <1>5 DEF m, m1

\* The budget charges: the call is under way from now on.
LEMMA BudgetStep ==
    ASSUME TypeOK, CallsInv, TokensInv, NEW th \in Threads, Budget(th)
    PROVE  CallsInv' /\ TokensInv'
<1>1. frame[th] \in Frame /\ frame[th].conv \in Conversations
  BY AtGuard, FrameOf, FrameFields DEF Budget
<1> DEFINE d == frame[th].conv
           g == [frame[th] EXCEPT !.guard = @ + 1]
<1>2. CASE Exhausted(used[d])
  <2>1. Deny(th) /\ UNCHANGED <<used, granted>>
    BY <1>2 DEF Budget
  <2> QED
    BY <2>1, Quiet, IdleFree DEF Deny
<1>3. CASE ~Exhausted(used[d])
  <2>1. /\ frame' = [frame EXCEPT ![th] = g] /\ granted' = granted
        /\ used' = [used EXCEPT ![d].calls = @ + 1]
    BY <1>3 DEF Budget, Grant
  <2>2. g.conv = d
    BY <1>1 DEF Frame
  <2> SUFFICES ASSUME NEW c \in Conversations
               PROVE  /\ used'[c].calls <= MaxToolCalls
                      /\ granted'[c] + Cardinality(Pending(frame', c))
                             <= used'[c].calls + Cardinality(Threads)
                      /\ used'[c].tokens + MaxPerCall * Cardinality(UnderWay(frame', c))
                             < MaxTokens + Cardinality(Threads) * MaxPerCall
    BY DEF CallsInv, TokensInv
  <2>3. used[c].calls \in Nat /\ used[c].tokens \in Nat /\ granted[c] \in Nat
    BY DEF TypeOK
  <2>4. /\ used[c].calls <= MaxToolCalls
        /\ granted[c] + Cardinality(Pending(frame, c)) <= used[c].calls + Cardinality(Threads)
        /\ used[c].tokens + MaxPerCall * Cardinality(UnderWay(frame, c))
               < MaxTokens + Cardinality(Threads) * MaxPerCall
    BY DEF CallsInv, TokensInv
  <2>5. /\ Pending(frame', c) \in SUBSET (Pending(frame, c) \cup {th})
        /\ ~InCall(g, c) => /\ UnderWay(frame', c) \subseteq UnderWay(frame, c)
                            /\ Pending(frame', c) \subseteq Pending(frame, c)
    <3> HIDE DEF g
    <3> QED
      BY <2>1, OneFrame DEF Waiting
  <2> HIDE DEF g
  <2>6. CASE c = d
    <3>1. /\ used'[c].calls = used[c].calls + 1 /\ used'[c].tokens = used[c].tokens
          /\ granted'[c] = granted[c]
      BY <2>1, <2>6 DEF TypeOK
    <3>2. used[c].calls < MaxToolCalls /\ used[c].tokens < MaxTokens
      <4>1. ~Exhausted(used[c])
        BY <1>3, <2>6
      <4>2. MaxToolCalls \in Nat /\ MaxTokens \in Nat
        BY GuardsAssumption
      <4> QED
        BY <2>3, <4>1, <4>2 DEF Exhausted
    <3>3. Cardinality(Pending(frame', c)) <= Cardinality(Pending(frame, c)) + 1
      BY <2>5, OneMore, Sizes
    <3>4. used'[c].calls <= MaxToolCalls
      BY <2>3, <3>1, <3>2, GuardsAssumption
    <3>5. granted'[c] + Cardinality(Pending(frame', c))
              <= used'[c].calls + Cardinality(Threads)
      BY <2>3, <2>4, <3>1, <3>3, CallsStep, Sizes
    <3>6. 0 \in 0..MaxPerCall
      BY GuardsAssumption
    <3>7. used'[c].tokens + MaxPerCall * Cardinality(UnderWay(frame', c))
              < MaxTokens + Cardinality(Threads) * MaxPerCall
      BY <2>3, <3>1, <3>2, <3>6, TokensStep, Sizes
    <3> QED
      BY <3>4, <3>5, <3>7
  <2>7. CASE c # d
    <3>1. used'[c] = used[c] /\ granted'[c] = granted[c]
      BY <2>1, <2>7 DEF TypeOK
    <3>2. ~InCall(g, c)
      BY <2>2, <2>7 DEF InCall
    <3>3. /\ Cardinality(Pending(frame', c)) <= Cardinality(Pending(frame, c))
          /\ Cardinality(UnderWay(frame', c)) <= Cardinality(UnderWay(frame, c))
      BY <2>5, <3>2, Cardinalities, Sizes
    <3>4. granted'[c] + Cardinality(Pending(frame', c))
              <= used'[c].calls + Cardinality(Threads)
      BY <2>3, <2>4, <3>1, <3>3, CallsStep, Sizes
    <3>5. 0 \in 0..MaxPerCall
      BY GuardsAssumption
    <3>6. used'[c].tokens + MaxPerCall * Cardinality(UnderWay(frame', c))
              < MaxTokens + Cardinality(Threads) * MaxPerCall
      BY <2>3, <2>4, <3>1, <3>3, <3>5, TokensStep, Sizes
    <3> QED
      BY <2>4, <3>1, <3>4, <3>6
  <2> QED
    BY <2>6, <2>7
<1> QED
  BY <1>2, <1>3

\* The grant is emitted: the call was charged, since every chain has a budget.
LEMMA EmitStep ==
    ASSUME TypeOK, CallsInv, TokensInv, NEW th \in Threads, Emit(th)
    PROVE  CallsInv' /\ TokensInv'
<1> DEFINE d == frame[th].conv
           g == [frame[th] EXCEPT !.guard = @ + 1]
<1>1. frame[th].guard = Emitting /\ used' = used
  BY DEF Emit
<1>2. frame[th] \in Frame /\ d \in Conversations
  BY <1>1, ChainFacts, FrameOf, FrameFields
<1>3. CASE Deny(th) /\ UNCHANGED granted
  BY <1>1, <1>3, Quiet, IdleFree DEF Deny
<1>4. CASE Grant(th) /\ granted' = [granted EXCEPT ![d] = @ + 1]
  <2>1. frame' = [frame EXCEPT ![th] = g]
    BY <1>4 DEF Grant
  <2>2. g.conv = d /\ g.guard = InTool /\ Emitting < InTool
    BY <1>1, <1>2, ChainFacts DEF Frame
  <2>3. InCall(frame[th], d)
    <3>1. Charged(frame[th])
      BY <1>1, ChainFacts, GuardsAssumption DEF Charged
    <3> QED
      BY <1>2, <3>1 DEF InCall
  <2> HIDE DEF g
  <2>4. \A c \in Conversations : ~Waiting(g, c) /\ (InCall(g, c) => InCall(frame[th], c))
    <3>1. \A c \in Conversations : c # d => ~InCall(g, c)
      BY <2>2 DEF InCall
    <3>2. \A c \in Conversations : ~Waiting(g, c)
      <4>1. ~(g.guard <= Emitting)
        BY <2>2, ChainFacts
      <4> QED
        BY <4>1 DEF Waiting
    <3> QED
      BY <2>3, <3>1, <3>2
  <2> SUFFICES ASSUME NEW c \in Conversations
               PROVE  /\ used'[c].calls <= MaxToolCalls
                      /\ granted'[c] + Cardinality(Pending(frame', c))
                             <= used'[c].calls + Cardinality(Threads)
                      /\ used'[c].tokens + MaxPerCall * Cardinality(UnderWay(frame', c))
                             < MaxTokens + Cardinality(Threads) * MaxPerCall
    BY DEF CallsInv, TokensInv
  <2>5. used[c].calls \in Nat /\ used[c].tokens \in Nat /\ granted[c] \in Nat
    BY DEF TypeOK
  <2>6. /\ used[c].calls <= MaxToolCalls
        /\ granted[c] + Cardinality(Pending(frame, c)) <= used[c].calls + Cardinality(Threads)
        /\ used[c].tokens + MaxPerCall * Cardinality(UnderWay(frame, c))
               < MaxTokens + Cardinality(Threads) * MaxPerCall
    BY DEF CallsInv, TokensInv
  <2>7. /\ UnderWay(frame', c) \subseteq UnderWay(frame, c)
        /\ Pending(frame', c) \subseteq Pending(frame, c) \ {th}
    BY <2>1, <2>4, OneFrame
  <2>8. used'[c].tokens + MaxPerCall * Cardinality(UnderWay(frame', c))
            < MaxTokens + Cardinality(Threads) * MaxPerCall
    <3>1. Cardinality(UnderWay(frame', c)) <= Cardinality(UnderWay(frame, c))
      BY <2>7, Cardinalities, Sizes
    <3>2. 0 \in 0..MaxPerCall
      BY GuardsAssumption
    <3> QED
      BY <1>1, <2>5, <2>6, <3>1, <3>2, TokensStep, Sizes
  <2>9. granted'[c] + Cardinality(Pending(frame', c))
            <= used'[c].calls + Cardinality(Threads)
    <3>1. CASE c = d
      <4>1. granted'[c] = granted[c] + 1
        BY <1>4, <3>1 DEF TypeOK
      <4>2. th \in Pending(frame, c)
        BY <1>1, <2>3, <3>1, ChainFacts DEF Pending, Waiting
      <4>3. Cardinality(Pending(frame', c)) + 1 <= Cardinality(Pending(frame, c))
        BY <2>7, <4>2, OneLess, Sizes
      <4> QED
        BY <1>1, <2>5, <2>6, <4>1, <4>3, CallsStep, Sizes
    <3>2. CASE c # d
      <4>1. granted'[c] = granted[c]
        BY <1>4, <3>2 DEF TypeOK
      <4>2. Cardinality(Pending(frame', c)) <= Cardinality(Pending(frame, c))
        BY <2>7, Cardinalities, Sizes
      <4> QED
        BY <1>1, <2>5, <2>6, <4>1, <4>2, CallsStep, Sizes
    <3> QED
      BY <3>1, <3>2
  <2> QED
    BY <1>1, <2>6, <2>8, <2>9
<1> QED
  BY <1>3, <1>4 DEF Emit

\* The call ends: it consumes once, and is not under way any more.
LEMMA ConsumeStep ==
    ASSUME TypeOK, CallsInv, TokensInv, NEW th \in Threads, Consume(th)
    PROVE  CallsInv' /\ TokensInv'
<1> DEFINE d == frame[th].conv
<1>1. frame[th].guard = InTool /\ frame' = [frame EXCEPT ![th] = Idle] /\ granted' = granted
  BY DEF Consume
<1>2. PICK t \in 0..MaxPerCall : used' = [used EXCEPT ![d].tokens = @ + t]
  BY DEF Consume
<1>3. frame[th] \in Frame /\ d \in Conversations
  BY <1>1, ChainFacts, FrameOf, FrameFields
<1>4. InCall(frame[th], d)
  <2>1. Charged(frame[th])
    BY <1>1, ChainFacts, GuardsAssumption DEF Charged
  <2> QED
    BY <1>3, <2>1 DEF InCall
<1> SUFFICES ASSUME NEW c \in Conversations
             PROVE  /\ used'[c].calls <= MaxToolCalls
                    /\ granted'[c] + Cardinality(Pending(frame', c))
                           <= used'[c].calls + Cardinality(Threads)
                    /\ used'[c].tokens + MaxPerCall * Cardinality(UnderWay(frame', c))
                           < MaxTokens + Cardinality(Threads) * MaxPerCall
  BY DEF CallsInv, TokensInv
<1>5. used[c].calls \in Nat /\ used[c].tokens \in Nat /\ granted[c] \in Nat
  BY DEF TypeOK
<1>6. /\ used[c].calls <= MaxToolCalls
      /\ granted[c] + Cardinality(Pending(frame, c)) <= used[c].calls + Cardinality(Threads)
      /\ used[c].tokens + MaxPerCall * Cardinality(UnderWay(frame, c))
             < MaxTokens + Cardinality(Threads) * MaxPerCall
  BY DEF CallsInv, TokensInv
<1>7. /\ UnderWay(frame', c) \subseteq UnderWay(frame, c) \ {th}
      /\ Pending(frame', c) \subseteq Pending(frame, c) \ {th}
  BY <1>1, IdleFree, OneFrame
<1>8. /\ Cardinality(Pending(frame', c)) <= Cardinality(Pending(frame, c))
      /\ Cardinality(UnderWay(frame', c)) <= Cardinality(UnderWay(frame, c))
  BY <1>7, Cardinalities, Sizes
<1>9. used'[c].calls = used[c].calls
  BY <1>2 DEF TypeOK
<1>10. used'[c].tokens + MaxPerCall * Cardinality(UnderWay(frame', c))
          < MaxTokens + Cardinality(Threads) * MaxPerCall
  <2>1. CASE c = d
    <3>1. used'[c].tokens = used[c].tokens + t
      BY <1>2, <2>1 DEF TypeOK
    <3>2. th \in UnderWay(frame, c)
      BY <1>4, <2>1 DEF UnderWay
    <3>3. Cardinality(UnderWay(frame', c)) + 1 <= Cardinality(UnderWay(frame, c))
      BY <1>7, <3>2, OneLess, Sizes
    <3> QED
      BY <1>5, <1>6, <3>1, <3>3, TokensStep, Sizes
  <2>2. CASE c # d
    <3>1. used'[c].tokens = used[c].tokens
      BY <1>2, <2>2 DEF TypeOK
    <3> QED
      BY <1>2, <1>5, <1>6, <1>8, <3>1, TokensStep, Sizes
  <2> QED
    BY <2>1, <2>2
<1>11. granted'[c] + Cardinality(Pending(frame', c))
          <= used'[c].calls + Cardinality(Threads)
  BY <1>1, <1>5, <1>6, <1>8, <1>9, CallsStep, Sizes
<1> QED
  BY <1>6, <1>9, <1>10, <1>11

\* A conversation that starts from zero is within its bounds.
LEMMA FromZero ==
    ASSUME NEW fr, NEW c
    PROVE  /\ 0 <= MaxToolCalls
           /\ 0 + Cardinality(Pending(fr, c)) <= 0 + Cardinality(Threads)
           /\ 0 + MaxPerCall * Cardinality(UnderWay(fr, c))
                  < MaxTokens + Cardinality(Threads) * MaxPerCall
<1>1. Cardinality(Pending(fr, c)) <= Cardinality(Threads)
  BY Sizes, Cardinalities
<1>2. 0 \in 0..MaxPerCall /\ 0 < MaxTokens /\ 0 <= MaxToolCalls
  BY GuardsAssumption
<1>3. 0 + MaxPerCall * Cardinality(UnderWay(fr, c))
          < MaxTokens + Cardinality(Threads) * MaxPerCall
  BY <1>2, TokensStep, Sizes
<1> QED
  BY <1>1, <1>2, <1>3, Sizes

LEMMA ResetStep ==
    ASSUME TypeOK, CallsInv, TokensInv, NEW d \in Conversations, Reset(d)
    PROVE  CallsInv' /\ TokensInv'
<1> SUFFICES ASSUME NEW c \in Conversations
             PROVE  /\ used'[c].calls <= MaxToolCalls
                    /\ granted'[c] + Cardinality(Pending(frame', c))
                           <= used'[c].calls + Cardinality(Threads)
                    /\ used'[c].tokens + MaxPerCall * Cardinality(UnderWay(frame', c))
                           < MaxTokens + Cardinality(Threads) * MaxPerCall
  BY DEF CallsInv, TokensInv
<1>1. frame' = frame
  BY DEF Reset
<1>2. CASE c = d
  <2>1. used'[c].calls = 0 /\ used'[c].tokens = 0 /\ granted'[c] = 0
    BY <1>2 DEF Reset, Unused, TypeOK
  <2> QED
    BY <2>1, FromZero
<1>3. CASE c # d
  <2>1. used'[c] = used[c] /\ granted'[c] = granted[c]
    BY <1>3 DEF Reset, TypeOK
  <2> QED
    BY <1>1, <2>1 DEF CallsInv, TokensInv
<1> QED
  BY <1>2, <1>3

-----------------------------------------------------------------------------
\* The invariant and the theorems.

BudgetInv == TypeOK /\ CallsInv /\ TokensInv

LEMMA InitBudgetInv == Init => BudgetInv
<1> SUFFICES ASSUME Init PROVE CallsInv /\ TokensInv
  BY InitTypeOK DEF BudgetInv
<1>1. \A c \in Conversations : used[c].calls = 0 /\ used[c].tokens = 0 /\ granted[c] = 0
  BY DEF Init, Unused
<1> QED
  BY <1>1, FromZero DEF CallsInv, TokensInv

LEMMA NextBudgetInv == BudgetInv /\ [Next]_vars => BudgetInv'
<1> SUFFICES ASSUME TypeOK, CallsInv, TokensInv, [Next]_vars
             PROVE  CallsInv' /\ TokensInv'
  BY NextTypeOK DEF BudgetInv
<1>1. ASSUME NEW th \in Threads,
             \/ Evaluate(th) \/ Fraud(th) \/ PermissionMode(th)
             \/ ReadClock(th) \/ CheckLimit(th) \/ Record(th)
      PROVE  CallsInv' /\ TokensInv'
  BY <1>1, QuietActions
<1>2. ASSUME NEW th \in Threads, Budget(th) PROVE CallsInv' /\ TokensInv'
  BY <1>2, BudgetStep
<1>3. ASSUME NEW th \in Threads, Emit(th) PROVE CallsInv' /\ TokensInv'
  BY <1>3, EmitStep
<1>4. ASSUME NEW th \in Threads, Consume(th) PROVE CallsInv' /\ TokensInv'
  BY <1>4, ConsumeStep
<1>5. ASSUME NEW c \in Conversations, Reset(c) PROVE CallsInv' /\ TokensInv'
  BY <1>5, ResetStep
<1>6. CASE Tick
  BY <1>6 DEF Tick, CallsInv, TokensInv
<1>7. CASE UNCHANGED vars
  BY <1>7 DEF vars, CallsInv, TokensInv
<1> QED
  BY <1>1, <1>2, <1>3, <1>4, <1>5, <1>6, <1>7 DEF Next

LEMMA BudgetInvAlways == Spec => []BudgetInv
BY InitBudgetInv, NextBudgetInv, PTL DEF Spec

\* However the threads and the resets interleave, and wherever an emit raises,
\* no conversation is charged beyond max_tool_calls, and the calls it is granted
\* exceed those it is charged for by at most one per thread.
THEOREM CallsBoundedTheorem == Spec => []CallsBounded
<1>1. BudgetInv => CallsBounded
  <2> SUFFICES ASSUME BudgetInv, NEW c \in Conversations
               PROVE  /\ used[c].calls <= MaxToolCalls
                      /\ granted[c] <= used[c].calls + Cardinality(Threads)
    BY DEF CallsBounded
  <2>1. /\ used[c].calls \in Nat /\ granted[c] \in Nat
        /\ used[c].calls <= MaxToolCalls
        /\ granted[c] + Cardinality(Pending(frame, c)) <= used[c].calls + Cardinality(Threads)
    BY DEF BudgetInv, CallsInv, TypeOK
  <2> QED
    BY <2>1, Sizes
<1> QED
  BY <1>1, BudgetInvAlways, PTL

\* The tokens of a conversation pass max_tokens by less than one call of every
\* thread: the budget is compared before a call and charged after it.
THEOREM TokensBoundedTheorem == Spec => []TokensBounded
<1>1. BudgetInv => TokensBounded
  <2> SUFFICES ASSUME BudgetInv, NEW c \in Conversations
               PROVE  used[c].tokens < MaxTokens + Cardinality(Threads) * MaxPerCall
    BY DEF TokensBounded
  <2> DEFINE u == MaxPerCall * Cardinality(UnderWay(frame, c))
             b == Cardinality(Threads) * MaxPerCall
  <2>1. used[c].tokens \in Nat /\ used[c].tokens + u < MaxTokens + b
    BY DEF BudgetInv, TokensInv, TypeOK
  <2>2. u \in Nat /\ b \in Nat /\ MaxTokens \in Nat
    <3>1. MaxPerCall \in Nat /\ MaxTokens \in Nat
      BY GuardsAssumption
    <3> QED
      BY <3>1, Sizes, Times
  <2> HIDE DEF u, b
  <2>3. used[c].tokens < MaxTokens + b
    BY <2>1, <2>2
  <2> QED
    BY <2>3 DEF b
<1> QED
  BY <1>1, BudgetInvAlways, PTL

-----------------------------------------------------------------------------
\* Sums over finite sets.  The library has no induction that takes a predicate
\* this prover can use, so the lemmas go by sets of subsets.

\* A set of numbers has a least one.
LEMMA LeastElement ==
    ASSUME NEW K, K \subseteq Nat, K # {}
    PROVE  \E m \in K : \A k \in K : m <= k
<1>1. PICK m \in K : \A k \in K : ~(<<k, m>> \in OpToRel(<, Nat))
  BY WFMin, NatLessThanWellFounded
<1>2. \A k \in K : ~(k < m)
  BY <1>1 DEF OpToRel
<1> QED
  BY <1>2

\* What holds of the empty set, and of a set with one element more, holds of S.
LEMMA InductionOverSubsets ==
    ASSUME NEW S, IsFiniteSet(S), NEW P \in SUBSET (SUBSET S),
           {} \in P, \A U \in P : \A e \in S \ U : U \cup {e} \in P
    PROVE  S \in P
<1> SUFFICES ASSUME S \notin P PROVE FALSE
  OBVIOUS
<1> DEFINE Bad == {U \in SUBSET S : U \notin P}
           K == {n \in Nat : \E U \in Bad : Cardinality(U) = n}
<1>1. \A U \in SUBSET S : IsFiniteSet(U) /\ Cardinality(U) \in Nat
  BY FS_Subset, FS_CardinalityType
<1>2. Cardinality(S) \in K
  BY <1>1
<1>3. K \subseteq Nat /\ K # {} /\ \A k \in K : \E U \in Bad : Cardinality(U) = k
  BY <1>2
<1>4. \A U \in Bad : Cardinality(U) \in K
  BY <1>1
<1> HIDE DEF K
<1>5. PICK m \in K : \A k \in K : m <= k
  BY <1>3, LeastElement
<1>6. PICK U \in Bad : Cardinality(U) = m
  BY <1>3
<1>7. PICK e \in U : TRUE
  BY <1>6
<1>8. U \ {e} \in SUBSET S /\ Cardinality(U \ {e}) = m - 1
  BY <1>1, <1>6, FS_RemoveElement
<1>9. U \ {e} \in P
  BY <1>1, <1>3, <1>4, <1>5, <1>8
<1>10. (U \ {e}) \cup {e} = U /\ e \in S \ (U \ {e})
  BY <1>6
<1> QED
  BY <1>6, <1>9, <1>10

\* t sums w over every subset of S.
IsSum(t, w, S) ==
    /\ t \in [SUBSET S -> Int] /\ t[{}] = 0
    /\ \A U \in SUBSET S : \A e \in S \ U : t[U \cup {e}] = t[U] + w[e]

LEMMA SumExists ==
    ASSUME NEW S, IsFiniteSet(S), NEW w \in [S -> Int]
    PROVE  \E t : IsSum(t, w, S)
<1> DEFINE P == {U \in SUBSET S : \E t : IsSum(t, w, U)}
<1>1. {} \in P
  <2>1. IsSum([U \in SUBSET {} |-> 0], w, {})
    BY DEF IsSum
  <2> QED
    BY <2>1
<1>2. ASSUME NEW U \in P, NEW e \in S \ U PROVE U \cup {e} \in P
  <2>1. PICK t : IsSum(t, w, U)
    OBVIOUS
  <2> DEFINE s == [V \in SUBSET (U \cup {e}) |-> IF e \in V THEN t[V \ {e}] + w[e] ELSE t[V]]
  <2>2. w[e] \in Int /\ \A V \in SUBSET U : t[V] \in Int
    BY <2>1 DEF IsSum
  <2>3. \A V \in SUBSET (U \cup {e}) : V \ {e} \in SUBSET U /\ (e \notin V => V \in SUBSET U)
    OBVIOUS
  <2>4. s \in [SUBSET (U \cup {e}) -> Int]
    BY <2>2, <2>3
  <2>5. s[{}] = 0
    BY <2>1 DEF IsSum
  <2>6. ASSUME NEW V \in SUBSET (U \cup {e}), NEW g \in (U \cup {e}) \ V
        PROVE  s[V \cup {g}] = s[V] + w[g]
    <3>0. w[g] \in Int /\ V \cup {g} \in SUBSET (U \cup {e})
      OBVIOUS
    <3>1. CASE g = e
      <4>1. (V \cup {g}) \ {e} = V /\ V \in SUBSET U
        BY <3>1
      <4> QED
        BY <3>0, <3>1, <4>1
    <3>2. CASE g # e /\ e \in V
      <4>1. (V \cup {g}) \ {e} = (V \ {e}) \cup {g} /\ g \in U \ (V \ {e})
        BY <3>2
      <4>2. t[(V \ {e}) \cup {g}] = t[V \ {e}] + w[g]
        BY <2>1, <2>3, <4>1 DEF IsSum
      <4>3. s[V \cup {g}] = t[(V \ {e}) \cup {g}] + w[e] /\ s[V] = t[V \ {e}] + w[e]
        BY <3>0, <3>2, <4>1
      <4>4. t[V \ {e}] \in Int
        BY <2>2, <2>3
      <4> HIDE DEF s
      <4> QED
        BY <2>2, <3>0, <4>2, <4>3, <4>4
    <3>3. CASE g # e /\ e \notin V
      <4>1. V \in SUBSET U /\ g \in U \ V /\ e \notin V \cup {g}
        BY <3>3
      <4> QED
        BY <2>1, <3>0, <4>1 DEF IsSum
    <3> QED
      BY <3>1, <3>2, <3>3
  <2>7. IsSum(s, w, U \cup {e})
    BY <2>4, <2>5, <2>6 DEF IsSum
  <2> HIDE DEF s
  <2> QED
    BY <2>7
<1> HIDE DEF P
<1>3. P \in SUBSET (SUBSET S)
  BY DEF P
<1>4. S \in P
  BY <1>1, <1>2, <1>3, InductionOverSubsets
<1> QED
  BY <1>4 DEF P

\* It takes one element after the other.
LEMMA SumRecursion ==
    ASSUME NEW g, NEW S
    PROVE  SumFunctionOnSet(g, S) =
               (CHOOSE iter : iter = [s \in SUBSET S |->
                    IF s = {} THEN 0 ELSE LET e == CHOOSE e \in s : TRUE IN g[e] + iter[s \ {e}]])[S]
BY DEF SumFunctionOnSet, FoldFunctionOnSet, MapThenFoldSet

\* Whatever the order, the sum is what IsSum says.
LEMMA SumIs ==
    ASSUME NEW D, IsFiniteSet(D), NEW g, \A e \in D : g[e] \in Int, NEW t, IsSum(t, g, D), NEW S \in SUBSET D
    PROVE  SumFunctionOnSet(g, S) = t[S]
<1> DEFINE some(s) == CHOOSE e \in s : TRUE
           Iter(f) == [s \in SUBSET S |-> IF s = {} THEN 0 ELSE g[some(s)] + f[s \ {some(s)}]]
           sum == CHOOSE iter : iter = Iter(iter)
<1>1. \A s \in SUBSET S : s # {} => some(s) \in s /\ s \ {some(s)} \in SUBSET S
  OBVIOUS
<1>2. \A s \in SUBSET S : \A e \in s : t[s] = g[e] + t[s \ {e}]
  <2> SUFFICES ASSUME NEW s \in SUBSET S, NEW e \in s PROVE t[s] = g[e] + t[s \ {e}]
    OBVIOUS
  <2>1. (s \ {e}) \cup {e} = s /\ s \ {e} \in SUBSET D /\ e \in D \ (s \ {e})
    OBVIOUS
  <2>2. t[(s \ {e}) \cup {e}] = t[s \ {e}] + g[e] /\ t[s \ {e}] \in Int /\ g[e] \in Int
    BY <2>1 DEF IsSum
  <2>3. t[s] = t[(s \ {e}) \cup {e}]
    BY Zenon, <2>1
  <2> QED
    BY <2>2, <2>3
<1>3. t[{}] = 0
  BY DEF IsSum
<1> HIDE DEF some
<1>4. sum = Iter(sum)
  <2> DEFINE f == [s \in SUBSET S |-> t[s]]
  <2>1. \A s \in SUBSET S : s # {} => t[s] = g[some(s)] + f[s \ {some(s)}]
    BY <1>1, <1>2
  <2> HIDE DEF f
  <2>2. [s \in SUBSET S |-> t[s]] = Iter(f)
    BY <1>3, <2>1
  <2>3. f = Iter(f)
    BY <2>2 DEF f
  <2> QED
    BY <2>3
<1>5. SumFunctionOnSet(g, S) = sum[S]
  BY SumRecursion DEF some
<1> DEFINE P == {s \in SUBSET S : sum[s] = t[s]}
<1>6. {} \in P
  BY <1>3, <1>4
<1> HIDE DEF sum
<1>7. IsFiniteSet(S) /\ P \in SUBSET (SUBSET S)
  BY FS_Subset
<1>8. SUFFICES ASSUME S \notin P PROVE FALSE
  BY <1>5
<1> DEFINE K == {n \in Nat : \E s \in SUBSET S : s \notin P /\ Cardinality(s) = n}
<1>9. \A s \in SUBSET S : IsFiniteSet(s) /\ Cardinality(s) \in Nat
  BY <1>7, FS_Subset, FS_CardinalityType
<1>10. K \subseteq Nat /\ K # {}
  BY <1>8, <1>9
<1>11. PICK n \in K : \A k \in K : n <= k
  BY <1>10, LeastElement
<1>12. PICK s \in SUBSET S : s \notin P /\ Cardinality(s) = n
  BY <1>11
<1>13. s # {} /\ some(s) \in s /\ s \ {some(s)} \in SUBSET S
  BY <1>1, <1>6, <1>12
<1>14. Cardinality(s \ {some(s)}) = n - 1
  BY <1>9, <1>12, <1>13, FS_RemoveElement
<1>15. s \ {some(s)} \in P
  BY <1>9, <1>11, <1>12, <1>13, <1>14
<1>16. sum[s] = g[some(s)] + sum[s \ {some(s)}]
  BY <1>4, <1>13
<1> QED
  BY <1>2, <1>12, <1>13, <1>15, <1>16

LEMMA SumLaws ==
    ASSUME NEW D, IsFiniteSet(D), NEW g, \A e \in D : g[e] \in Int
    PROVE  /\ SumFunctionOnSet(g, {}) = 0
           /\ \A S \in SUBSET D : SumFunctionOnSet(g, S) \in Int
           /\ \A S \in SUBSET D : \A e \in D \ S : SumFunctionOnSet(g, S \cup {e}) = SumFunctionOnSet(g, S) + g[e]
<1>1. PICK t : IsSum(t, [e \in D |-> g[e]], D)
  BY SumExists
<1>2. IsSum(t, g, D)
  BY <1>1 DEF IsSum
<1>3. \A S \in SUBSET D : SumFunctionOnSet(g, S) = t[S]
  BY <1>2, SumIs
<1>4. \A S \in SUBSET D : \A e \in D \ S : S \cup {e} \in SUBSET D
  OBVIOUS
<1> QED
  BY <1>2, <1>3, <1>4 DEF IsSum

\* Only the summands count.
LEMMA SumSame ==
    ASSUME NEW D, IsFiniteSet(D), NEW g, NEW h, \A e \in D : g[e] \in Int /\ g[e] = h[e]
    PROVE  SumFunctionOnSet(g, D) = SumFunctionOnSet(h, D)
<1>1. PICK t : IsSum(t, [e \in D |-> g[e]], D)
  BY SumExists
<1>2. IsSum(t, g, D) /\ IsSum(t, h, D)
  BY <1>1 DEF IsSum
<1> QED
  BY <1>2, SumIs

\* Summand by summand.
LEMMA SumMonotone ==
    ASSUME NEW D, IsFiniteSet(D), NEW g, NEW h,
           \A e \in D : g[e] \in Int /\ h[e] \in Int /\ g[e] <= h[e]
    PROVE  SumFunctionOnSet(g, D) <= SumFunctionOnSet(h, D)
<1> DEFINE P == {V \in SUBSET D : SumFunctionOnSet(g, V) <= SumFunctionOnSet(h, V)}
<1>1. {} \in P
  BY SumLaws
<1>2. ASSUME NEW V \in P, NEW e \in D \ V PROVE V \cup {e} \in P
  <2>1. /\ SumFunctionOnSet(g, V \cup {e}) = SumFunctionOnSet(g, V) + g[e]
        /\ SumFunctionOnSet(h, V \cup {e}) = SumFunctionOnSet(h, V) + h[e]
        /\ SumFunctionOnSet(g, V) \in Int /\ SumFunctionOnSet(h, V) \in Int
    BY SumLaws
  <2> QED
    BY <2>1
<1>3. P \in SUBSET (SUBSET D)
  OBVIOUS
<1> HIDE DEF P
<1>4. D \in P
  BY <1>1, <1>2, <1>3, InductionOverSubsets
<1> QED
  BY <1>4 DEF P

LEMMA SumAtMost ==
    ASSUME NEW D, IsFiniteSet(D), NEW b \in Nat, NEW g, \A e \in D : g[e] \in Int /\ g[e] <= b
    PROVE  SumFunctionOnSet(g, D) <= Cardinality(D) * b
<1> DEFINE P == {V \in SUBSET D : SumFunctionOnSet(g, V) <= Cardinality(V) * b}
<1>1. {} \in P
  BY SumLaws, FS_EmptySet
<1>2. ASSUME NEW V \in P, NEW e \in D \ V PROVE V \cup {e} \in P
  <2>1. /\ SumFunctionOnSet(g, V \cup {e}) = SumFunctionOnSet(g, V) + g[e]
        /\ SumFunctionOnSet(g, V) \in Int
    BY SumLaws
  <2>2. Cardinality(V) \in Nat /\ Cardinality(V \cup {e}) = Cardinality(V) + 1
    BY FS_Subset, FS_CardinalityType, FS_AddElement
  <2>3. (Cardinality(V) + 1) * b = Cardinality(V) * b + b /\ Cardinality(V) * b \in Nat
    BY <2>2
  <2>4. SumFunctionOnSet(g, V) <= Cardinality(V) * b
    OBVIOUS
  <2>5. SumFunctionOnSet(g, V) + g[e] <= Cardinality(V) * b + b
    BY <2>1, <2>3, <2>4
  <2> QED
    BY <2>1, <2>2, <2>3, <2>5
<1>3. P \in SUBSET (SUBSET D)
  OBVIOUS
<1> HIDE DEF P
<1>4. D \in P
  BY <1>1, <1>2, <1>3, InductionOverSubsets
<1> QED
  BY <1>4 DEF P

\* One summand apart.
LEMMA SumSplit ==
    ASSUME NEW D, IsFiniteSet(D), NEW g, \A e \in D : g[e] \in Int, NEW x \in D
    PROVE  /\ SumFunctionOnSet(g, D) = SumFunctionOnSet(g, D \ {x}) + g[x]
           /\ SumFunctionOnSet(g, D \ {x}) \in Int /\ SumFunctionOnSet(g, D) \in Int
<1>1. (D \ {x}) \cup {x} = D /\ x \in D \ (D \ {x}) /\ D \ {x} \in SUBSET D
  OBVIOUS
<1>2. /\ \A U \in SUBSET D : SumFunctionOnSet(g, U) \in Int
      /\ \A U \in SUBSET D : \A d \in D \ U :
             SumFunctionOnSet(g, U \cup {d}) = SumFunctionOnSet(g, U) + g[d]
  BY SumLaws
<1>3. SumFunctionOnSet(g, (D \ {x}) \cup {x}) = SumFunctionOnSet(g, D \ {x}) + g[x]
  BY Zenon, <1>1, <1>2
<1> QED
  BY <1>1, <1>2, <1>3

\* One summand changes.
LEMMA SumChange ==
    ASSUME NEW D, IsFiniteSet(D), NEW g, NEW h, \A e \in D : g[e] \in Int /\ h[e] \in Int,
           NEW x \in D, \A e \in D \ {x} : h[e] = g[e]
    PROVE  /\ SumFunctionOnSet(h, D) = SumFunctionOnSet(g, D) - g[x] + h[x]
           /\ SumFunctionOnSet(g, D) \in Int
<1>1. IsFiniteSet(D \ {x})
  BY FS_Subset
<1>2. SumFunctionOnSet(g, D \ {x}) = SumFunctionOnSet(h, D \ {x})
  BY <1>1, SumSame
<1>3. /\ SumFunctionOnSet(g, D) = SumFunctionOnSet(g, D \ {x}) + g[x]
      /\ SumFunctionOnSet(h, D) = SumFunctionOnSet(h, D \ {x}) + h[x]
      /\ SumFunctionOnSet(g, D \ {x}) \in Int
  BY SumSplit
<1>4. g[x] \in Int /\ h[x] \in Int
  OBVIOUS
<1> QED
  BY <1>2, <1>3, <1>4

\* All but one are bounded.
LEMMA SumOfOthers ==
    ASSUME NEW D, IsFiniteSet(D), NEW b \in Nat, NEW x \in D, NEW g,
           \A e \in D : g[e] \in Int, \A e \in D \ {x} : g[e] <= b
    PROVE  /\ Cardinality(D) - 1 \in Nat
           /\ SumFunctionOnSet(g, D) <= g[x] + (Cardinality(D) - 1) * b
<1>1. /\ IsFiniteSet(D \ {x}) /\ Cardinality(D \ {x}) = Cardinality(D) - 1
      /\ Cardinality(D \ {x}) \in Nat
  BY FS_RemoveElement, FS_CardinalityType, FS_Subset
<1>2. SumFunctionOnSet(g, D \ {x}) <= Cardinality(D \ {x}) * b
  BY <1>1, SumAtMost
<1>3. SumFunctionOnSet(g, D) = SumFunctionOnSet(g, D \ {x}) + g[x] /\ SumFunctionOnSet(g, D \ {x}) \in Int
  BY SumSplit
<1>4. g[x] \in Int /\ (Cardinality(D) - 1) * b \in Int
  BY <1>1
<1> QED
  BY <1>1, <1>2, <1>3, <1>4

\* What is zero does not count.
LEMMA SumOfSome ==
    ASSUME NEW D, IsFiniteSet(D), NEW S \in SUBSET D, NEW g,
           \A e \in D : g[e] \in Int, \A e \in D \ S : g[e] = 0
    PROVE  SumFunctionOnSet(g, D) = SumFunctionOnSet(g, S)
<1> DEFINE R == D \ S
           P == {V \in SUBSET R : SumFunctionOnSet(g, S \cup V) = SumFunctionOnSet(g, S)}
<1>0. IsFiniteSet(R) /\ S \cup {} = S /\ S \cup R = D
  BY FS_Subset
<1>1. {} \in P
  BY <1>0
<1>2. ASSUME NEW V \in P, NEW e \in R \ V PROVE V \cup {e} \in P
  <2>1. S \cup V \in SUBSET D /\ e \in D \ (S \cup V) /\ S \cup (V \cup {e}) = (S \cup V) \cup {e}
    OBVIOUS
  <2>2. /\ \A U \in SUBSET D : SumFunctionOnSet(g, U) \in Int
        /\ \A U \in SUBSET D : \A d \in D \ U :
               SumFunctionOnSet(g, U \cup {d}) = SumFunctionOnSet(g, U) + g[d]
    BY SumLaws
  <2>3. SumFunctionOnSet(g, (S \cup V) \cup {e}) = SumFunctionOnSet(g, S \cup V) + g[e]
    BY Zenon, <2>1, <2>2
  <2>4. SumFunctionOnSet(g, S \cup V) \in Int /\ g[e] = 0
    BY <2>1, <2>2
  <2>5. SumFunctionOnSet(g, (S \cup V) \cup {e}) = SumFunctionOnSet(g, S)
    BY <2>3, <2>4
  <2> QED
    BY <2>1, <2>5
<1>3. P \in SUBSET (SUBSET R)
  OBVIOUS
<1>4. R \in P
  <2> HIDE DEF P, R
  <2> QED
    BY <1>0, <1>1, <1>2, <1>3, InductionOverSubsets
<1> QED
  BY <1>0, <1>4

\* The same summands under other names.
LEMMA SumRenamed ==
    ASSUME NEW D, IsFiniteSet(D), NEW f, NEW g, NEW h,
           \A x, y \in D : f[x] = f[y] => x = y,
           \A x \in D : g[x] \in Int /\ g[x] = h[f[x]]
    PROVE  SumFunctionOnSet(g, D) = SumFunctionOnSet(h, {f[x] : x \in D})
<1> DEFINE E == {f[x] : x \in D}
           P == {V \in SUBSET D : SumFunctionOnSet(g, V) = SumFunctionOnSet(h, {f[x] : x \in V})}
<1>1. IsFiniteSet(E)
  <2>1. [x \in D |-> f[x]] \in Surjection(D, E)
    BY DEF Surjection
  <2> HIDE DEF E
  <2> QED
    BY <2>1, FS_Surjection
<1>2. \A e \in E : h[e] \in Int
  OBVIOUS
<1>3. {} \in P
  <2>1. {f[x] : x \in {}} = {}
    OBVIOUS
  <2>2. SumFunctionOnSet(g, {}) = 0 /\ SumFunctionOnSet(h, {}) = 0
    BY <1>1, <1>2, SumLaws
  <2> QED
    BY <2>1, <2>2
<1>4. ASSUME NEW V \in P, NEW e \in D \ V PROVE V \cup {e} \in P
  <2> DEFINE W == {f[x] : x \in V}
  <2>1. {f[x] : x \in V \cup {e}} = W \cup {f[e]}
    OBVIOUS
  <2>2. W \in SUBSET E /\ f[e] \in E \ W
    OBVIOUS
  <2>3. SumFunctionOnSet(g, V \cup {e}) = SumFunctionOnSet(g, V) + g[e]
    BY SumLaws
  <2>4. SumFunctionOnSet(h, W \cup {f[e]}) = SumFunctionOnSet(h, W) + h[f[e]]
    <3> HIDE DEF W, E
    <3> QED
      BY <1>1, <1>2, <2>2, SumLaws
  <2> QED
    BY <2>1, <2>3, <2>4
<1>5. P \in SUBSET (SUBSET D)
  OBVIOUS
<1> HIDE DEF P
<1>6. D \in P
  BY <1>3, <1>4, <1>5, InductionOverSubsets
<1> QED
  BY <1>6 DEF P

LEMMA SumOfNaturals ==
    ASSUME NEW D, IsFiniteSet(D), NEW g, \A e \in D : g[e] \in Nat
    PROVE  SumFunctionOnSet(g, D) \in Nat
<1> DEFINE P == {V \in SUBSET D : SumFunctionOnSet(g, V) \in Nat}
<1>1. {} \in P
  BY SumLaws
<1>2. ASSUME NEW V \in P, NEW e \in D \ V PROVE V \cup {e} \in P
  <2>1. SumFunctionOnSet(g, V \cup {e}) = SumFunctionOnSet(g, V) + g[e]
    BY SumLaws
  <2> QED
    BY <2>1
<1>3. P \in SUBSET (SUBSET D)
  OBVIOUS
<1> HIDE DEF P
<1>4. D \in P
  BY <1>1, <1>2, <1>3, InductionOverSubsets
<1> QED
  BY <1>4 DEF P

-----------------------------------------------------------------------------
\* Velocity.  Every limit trims the one deque of the key, so what a limit has to
\* count stays in it only if no limit has a shorter window.
Shortest(i) == \A j \in DOMAIN Limits : Limits[i].window <= Limits[j].window

\* What passed in the window of a limit that ends at t, and what of it is in a deque.
Inside(i, t, at) == t - Limits[i].window <= at /\ at <= t
PassedIn(i, t)   == WindowTotal(Limits[i].kind, t - Limits[i].window, t)
KeptOf(i, t, d)  == [j \in DOMAIN d |-> IF Inside(i, t, d[j].at) THEN Amount(Limits[i].kind, d[j]) ELSE 0]
Kept(i, t, d)    == SumFunctionOnSet(KeptOf(i, t, d), DOMAIN d)

\* What a call in the window may still add to it, if it is beyond its k-th comparison.
Share(i, k, t, f) ==
    IF f \in Frame /\ f.check > k /\ Inside(i, t, f.at) THEN Amount(Limits[i].kind, f) ELSE 0
ShareOf(i, k, t, fr) == [th \in Threads |-> Share(i, k, t, fr[th])]
Shares(i, k, t, fr)  == SumFunctionOnSet(ShareOf(i, k, t, fr), Threads)

\* One call of every other thread.
Others(i) == (Cardinality(Threads) - 1) * Largest(Limits[i].kind)

\* As long as no call that was timed after t has trimmed the deque, all that passed
\* in the window is in it, and who is beyond the comparison has counted all but
\* what the others have under way.
Counted(i, t) ==
    /\ PassedIn(i, t) <= Kept(i, t, deque)
    /\ PassedIn(i, t) + Shares(i, i, t, frame) <= Limits[i].max + Others(i)

\* From then on no call enters the window, and those in it may all pass.
Closed(i, t) == now > t /\ PassedIn(i, t) + Shares(i, 0, t, frame) <= Limits[i].max + Others(i) + Others(i)

TimedInv  == \A th \in Threads : frame[th] \in Frame => frame[th].at <= now
WindowInv == \A i \in DOMAIN Limits, t \in Instant : Shortest(i) => Counted(i, t) \/ Closed(i, t)

VelocityInv == TypeOK /\ TimedInv /\ WindowInv

LEMMA LimitFacts ==
    ASSUME NEW i \in DOMAIN Limits
    PROVE  /\ Limits[i].kind \in {"count", "amount"}
           /\ Limits[i].window \in Nat /\ Limits[i].max \in Nat
           /\ i \in Nat /\ i > 0
<1> DEFINE L == [kind : {"count", "amount"}, window : Nat, max : Nat]
<1>1. Limits \in Seq(L)
  BY GuardsAssumption
<1> HIDE DEF L
<1>2. Limits[i] \in L /\ i \in Nat /\ i > 0
  BY <1>1
<1> QED
  BY <1>2 DEF L

\* A call has an amount, and none is larger than Largest.
LEMMA LargestAmount ==
    ASSUME NEW kind \in {"count", "amount"}
    PROVE  /\ Largest(kind) \in Nat
           /\ \A r : r.amount \in Amounts => Amount(kind, r) \in Nat /\ Amount(kind, r) <= Largest(kind)
<1> DEFINE P == {V \in SUBSET Amounts : V = {} \/ \E x \in V : \A y \in V : x >= y}
<1>1. {} \in P
  OBVIOUS
<1>2. ASSUME NEW V \in P, NEW e \in Amounts \ V PROVE V \cup {e} \in P
  <2>1. V \subseteq Nat /\ e \in Nat
    BY GuardsAssumption
  <2>2. CASE V = {}
    BY <2>1, <2>2
  <2>3. CASE V # {}
    <3>1. PICK x \in V : \A y \in V : x >= y
      BY <2>3
    <3>2. (\A y \in V \cup {e} : x >= y) \/ (\A y \in V \cup {e} : e >= y)
      BY <2>1, <3>1
    <3> QED
      BY <3>1, <3>2
  <2> QED
    BY <2>2, <2>3
<1>3. P \in SUBSET (SUBSET Amounts) /\ IsFiniteSet(Amounts) /\ Amounts # {} /\ Amounts \subseteq Nat
  BY GuardsAssumption
<1>4. Amounts \in P
  <2> HIDE DEF P
  <2> QED
    BY <1>1, <1>2, <1>3, InductionOverSubsets
<1>5. \E x \in Amounts : \A y \in Amounts : x >= y
  BY <1>3, <1>4
<1>6. Max(Amounts) \in Amounts /\ \A y \in Amounts : Max(Amounts) >= y
  BY <1>5 DEF Max
<1>7. CASE kind = "count"
  BY <1>7 DEF Largest, Amount
<1>8. CASE kind = "amount"
  BY <1>3, <1>6, <1>8 DEF Largest, Amount
<1> QED
  BY <1>7, <1>8

LEMMA ThreadFacts ==
    /\ IsFiniteSet(Threads) /\ Cardinality(Threads) \in Nat /\ Cardinality(Threads) - 1 \in Nat
    /\ \A i \in DOMAIN Limits : Others(i) \in Nat
<1>1. IsFiniteSet(Threads) /\ Threads # {}
  BY GuardsAssumption
<1>2. Cardinality(Threads) \in Nat /\ Cardinality(Threads) # 0
  BY <1>1, FS_CardinalityType, FS_EmptySet
<1>3. Cardinality(Threads) - 1 \in Nat
  BY <1>2
<1>4. ASSUME NEW i \in DOMAIN Limits PROVE Others(i) \in Nat
  <2>1. Largest(Limits[i].kind) \in Nat
    BY LimitFacts, LargestAmount
  <2> QED
    BY <1>3, <2>1, Times DEF Others
<1> QED
  BY <1>1, <1>2, <1>3, <1>4

LEMMA ShareFacts ==
    ASSUME NEW i \in DOMAIN Limits, NEW k, NEW t, NEW f
    PROVE  /\ Share(i, k, t, f) \in Nat /\ Share(i, k, t, f) <= Largest(Limits[i].kind)
           /\ f \in Frame => Share(i, k, t, f) <= Amount(Limits[i].kind, f)
<1>1. Largest(Limits[i].kind) \in Nat
  BY LimitFacts, LargestAmount
<1>2. CASE f \in Frame
  <2>1. f.amount \in Amounts
    BY <1>2, FrameFields
  <2>2. Amount(Limits[i].kind, f) \in Nat /\ Amount(Limits[i].kind, f) <= Largest(Limits[i].kind)
    BY <2>1, LimitFacts, LargestAmount
  <2> QED
    BY <1>1, <2>2 DEF Share
<1>3. CASE f \notin Frame
  BY <1>1, <1>3 DEF Share
<1> QED
  BY <1>2, <1>3

\* The shares of the threads: they follow the frames, and all but one are bounded.
LEMMA SharesFollow ==
    ASSUME NEW i \in DOMAIN Limits, NEW k, NEW t, NEW fr, NEW fs,
           \A th \in Threads : Share(i, k, t, fs[th]) <= Share(i, k, t, fr[th])
    PROVE  Shares(i, k, t, fs) <= Shares(i, k, t, fr)
<1>1. \A th \in Threads : /\ ShareOf(i, k, t, fr)[th] = Share(i, k, t, fr[th])
                          /\ ShareOf(i, k, t, fs)[th] = Share(i, k, t, fs[th])
  BY DEF ShareOf
<1>2. \A th \in Threads : /\ ShareOf(i, k, t, fr)[th] \in Int /\ ShareOf(i, k, t, fs)[th] \in Int
                          /\ ShareOf(i, k, t, fs)[th] <= ShareOf(i, k, t, fr)[th]
  BY <1>1, ShareFacts
<1> QED
  BY <1>2, ThreadFacts, SumMonotone DEF Shares

LEMMA SharesBound ==
    ASSUME NEW i \in DOMAIN Limits, NEW k, NEW t, NEW fr, NEW th \in Threads
    PROVE  /\ Shares(i, k, t, fr) \in Nat
           /\ Shares(i, k, t, fr) <= Share(i, k, t, fr[th]) + Others(i)
<1>1. \A u \in Threads : ShareOf(i, k, t, fr)[u] = Share(i, k, t, fr[u])
  BY DEF ShareOf
<1>2. \A u \in Threads : /\ ShareOf(i, k, t, fr)[u] \in Nat
                         /\ ShareOf(i, k, t, fr)[u] <= Largest(Limits[i].kind)
  BY <1>1, ShareFacts
<1>3. Shares(i, k, t, fr) \in Nat
  BY <1>2, ThreadFacts, SumOfNaturals DEF Shares
<1>4. Largest(Limits[i].kind) \in Nat
  BY LimitFacts, LargestAmount
<1>5. Shares(i, k, t, fr) <= ShareOf(i, k, t, fr)[th] + Others(i)
  BY <1>2, <1>4, ThreadFacts, SumOfOthers DEF Shares, Others
<1> QED
  BY <1>1, <1>3, <1>5

LEMMA SharesChange ==
    ASSUME NEW i \in DOMAIN Limits, NEW k, NEW t, NEW fr, NEW fs, NEW th \in Threads,
           \A u \in Threads \ {th} : fs[u] = fr[u]
    PROVE  Shares(i, k, t, fs) = Shares(i, k, t, fr) - Share(i, k, t, fr[th]) + Share(i, k, t, fs[th])
<1>1. \A u \in Threads : /\ ShareOf(i, k, t, fr)[u] = Share(i, k, t, fr[u])
                         /\ ShareOf(i, k, t, fs)[u] = Share(i, k, t, fs[u])
  BY DEF ShareOf
<1>2. \A u \in Threads : ShareOf(i, k, t, fr)[u] \in Int /\ ShareOf(i, k, t, fs)[u] \in Int
  BY <1>1, ShareFacts
<1>3. \A u \in Threads \ {th} : ShareOf(i, k, t, fs)[u] = ShareOf(i, k, t, fr)[u]
  BY <1>1
<1>4. Shares(i, k, t, fs) = Shares(i, k, t, fr) - ShareOf(i, k, t, fr)[th] + ShareOf(i, k, t, fs)[th]
  BY <1>2, <1>3, ThreadFacts, SumChange DEF Shares
<1> QED
  BY <1>1, <1>4

\* What passed in a window, before and after a record.
PassedOf(i, p) == [u \in Instant |-> p[u][Limits[i].kind]]
InWindow(i, t) == {u \in Instant : Inside(i, t, u)}

LEMMA PassedFacts ==
    ASSUME NEW i \in DOMAIN Limits, NEW t \in Instant,
           NEW p \in [Instant -> [count : Nat, amount : Nat]]
    PROVE  /\ IsFiniteSet(InWindow(i, t)) /\ InWindow(i, t) \subseteq Instant
           /\ \A u \in Instant : PassedOf(i, p)[u] = p[u][Limits[i].kind] /\ PassedOf(i, p)[u] \in Nat
           /\ SumFunctionOnSet(PassedOf(i, p), InWindow(i, t)) \in Nat
<1>1. IsFiniteSet(Instant)
  BY GuardsAssumption, FS_Interval DEF Instant
<1>2. IsFiniteSet(InWindow(i, t)) /\ InWindow(i, t) \subseteq Instant
  BY <1>1, FS_Subset DEF InWindow
<1>3. \A u \in Instant : p[u][Limits[i].kind] \in Nat
  <2>1. \A u \in Instant : p[u].count \in Nat /\ p[u].amount \in Nat
    OBVIOUS
  <2>2. CASE Limits[i].kind = "count"
    BY <2>1, <2>2
  <2>3. CASE Limits[i].kind = "amount"
    BY <2>1, <2>3
  <2> QED
    BY <2>2, <2>3, LimitFacts
<1>4. \A u \in Instant : PassedOf(i, p)[u] = p[u][Limits[i].kind] /\ PassedOf(i, p)[u] \in Nat
  BY <1>3 DEF PassedOf
<1>5. \A u \in InWindow(i, t) : PassedOf(i, p)[u] \in Nat
  BY <1>2, <1>4
<1> QED
  BY <1>2, <1>4, <1>5, SumOfNaturals

LEMMA PassedSum ==
    ASSUME NEW i \in DOMAIN Limits, NEW t \in Instant
    PROVE  /\ PassedIn(i, t) = SumFunctionOnSet(PassedOf(i, passed), InWindow(i, t))
           /\ PassedIn(i, t)' = SumFunctionOnSet(PassedOf(i, passed'), InWindow(i, t))
<1>1. InWindow(i, t) = {u \in Instant : t - Limits[i].window <= u /\ u <= t}
  BY DEF InWindow, Inside
<1> QED
  BY <1>1 DEF PassedIn, WindowTotal, PassedOf

LEMMA PassedWith ==
    ASSUME NEW i \in DOMAIN Limits, NEW t \in Instant,
           NEW p \in [Instant -> [count : Nat, amount : Nat]],
           NEW q \in [Instant -> [count : Nat, amount : Nat]],
           NEW at \in Instant, NEW n \in Nat,
           q[at][Limits[i].kind] = p[at][Limits[i].kind] + n,
           \A u \in Instant \ {at} : q[u] = p[u]
    PROVE  SumFunctionOnSet(PassedOf(i, q), InWindow(i, t)) =
               SumFunctionOnSet(PassedOf(i, p), InWindow(i, t)) + (IF Inside(i, t, at) THEN n ELSE 0)
<1> DEFINE g == PassedOf(i, p)
           h == PassedOf(i, q)
<1>1. /\ IsFiniteSet(InWindow(i, t)) /\ InWindow(i, t) \subseteq Instant
      /\ \A u \in Instant : g[u] = p[u][Limits[i].kind] /\ g[u] \in Nat
      /\ \A u \in Instant : h[u] = q[u][Limits[i].kind] /\ h[u] \in Nat
  BY PassedFacts
<1> HIDE DEF g, h
<1>2. h[at] = g[at] + n /\ \A u \in Instant \ {at} : h[u] = g[u]
  BY <1>1
<1>3. \A u \in InWindow(i, t) : g[u] \in Int /\ h[u] \in Int
  BY <1>1
<1>4. CASE Inside(i, t, at)
  <2>1. at \in InWindow(i, t)
    BY <1>4 DEF InWindow
  <2>2. \A u \in InWindow(i, t) \ {at} : h[u] = g[u]
    BY <1>1, <1>2
  <2>3. /\ SumFunctionOnSet(h, InWindow(i, t)) = SumFunctionOnSet(g, InWindow(i, t)) - g[at] + h[at]
        /\ SumFunctionOnSet(g, InWindow(i, t)) \in Int
    BY <1>1, <1>3, <2>1, <2>2, SumChange
  <2>4. g[at] \in Int
    BY <1>1
  <2>5. SumFunctionOnSet(h, InWindow(i, t)) = SumFunctionOnSet(g, InWindow(i, t)) + n
    BY <1>2, <2>3, <2>4
  <2> QED
    BY <1>4, <2>5 DEF g, h
<1>5. CASE ~Inside(i, t, at)
  <2>1. \A u \in InWindow(i, t) : h[u] = g[u]
    BY <1>1, <1>2, <1>5 DEF InWindow
  <2>2. SumFunctionOnSet(g, InWindow(i, t)) = SumFunctionOnSet(h, InWindow(i, t))
    BY <1>1, <1>3, <2>1, SumSame
  <2>3. SumFunctionOnSet(g, InWindow(i, t)) \in Int
    BY <1>1, <1>3, SumLaws
  <2>4. SumFunctionOnSet(h, InWindow(i, t)) = SumFunctionOnSet(g, InWindow(i, t)) + 0
    BY <2>2, <2>3
  <2> QED
    BY <1>5, <2>4 DEF g, h
<1> QED
  BY <1>4, <1>5

\* A deque.
Deques == Seq([at : Instant, amount : Amounts])

LEMMA KeptFacts ==
    ASSUME NEW i \in DOMAIN Limits, NEW t \in Instant, NEW d \in Deques
    PROVE  /\ IsFiniteSet(DOMAIN d) /\ DOMAIN d = 1..Len(d) /\ Len(d) \in Nat
           /\ \A j \in DOMAIN d : /\ d[j].at \in Instant /\ d[j].amount \in Amounts
                                  /\ Amount(Limits[i].kind, d[j]) \in Nat
                                  /\ KeptOf(i, t, d)[j] \in Nat
                                  /\ KeptOf(i, t, d)[j] <= Amount(Limits[i].kind, d[j])
                                  /\ ~Inside(i, t, d[j].at) => KeptOf(i, t, d)[j] = 0
           /\ Kept(i, t, d) \in Nat
<1>1. DOMAIN d = 1..Len(d) /\ Len(d) \in Nat
  BY DEF Deques
<1>2. IsFiniteSet(DOMAIN d)
  BY <1>1, FS_Interval
<1>3. ASSUME NEW j \in DOMAIN d
      PROVE  /\ d[j].at \in Instant /\ d[j].amount \in Amounts
             /\ Amount(Limits[i].kind, d[j]) \in Nat
             /\ KeptOf(i, t, d)[j] \in Nat
             /\ KeptOf(i, t, d)[j] <= Amount(Limits[i].kind, d[j])
             /\ ~Inside(i, t, d[j].at) => KeptOf(i, t, d)[j] = 0
  <2>1. d[j] \in [at : Instant, amount : Amounts]
    <3> DEFINE R == [at : Instant, amount : Amounts]
    <3>1. d \in Seq(R)
      BY DEF Deques
    <3> HIDE DEF R
    <3>2. d[j] \in R
      BY <3>1
    <3> QED
      BY <3>2 DEF R
  <2>2. d[j].at \in Instant /\ d[j].amount \in Amounts
    BY <2>1
  <2>3. Amount(Limits[i].kind, d[j]) \in Nat
    BY <2>2, LimitFacts, LargestAmount
  <2>4. KeptOf(i, t, d)[j] = IF Inside(i, t, d[j].at) THEN Amount(Limits[i].kind, d[j]) ELSE 0
    BY DEF KeptOf
  <2> QED
    BY <2>2, <2>3, <2>4
<1>4. \A j \in DOMAIN d : KeptOf(i, t, d)[j] \in Nat
  BY <1>3
<1>5. Kept(i, t, d) \in Nat
  BY <1>2, <1>4, SumOfNaturals DEF Kept
<1> QED
  BY <1>1, <1>2, <1>3, <1>5

\* The total of a deque covers what it keeps of any window.
LEMMA KeptTotal ==
    ASSUME NEW i \in DOMAIN Limits, NEW t \in Instant, NEW d \in Deques
    PROVE  Kept(i, t, d) <= Total(Limits[i].kind, d) /\ Total(Limits[i].kind, d) \in Int
<1> DEFINE g == KeptOf(i, t, d)
           h == [j \in DOMAIN d |-> Amount(Limits[i].kind, d[j])]
<1>1. Total(Limits[i].kind, d) = SumFunctionOnSet(h, DOMAIN d)
  BY DEF Total, SumFunction
<1>2. \A j \in DOMAIN d : g[j] \in Int /\ h[j] \in Int /\ g[j] <= h[j]
  BY KeptFacts
<1>3. Kept(i, t, d) = SumFunctionOnSet(g, DOMAIN d) /\ IsFiniteSet(DOMAIN d)
  BY KeptFacts DEF Kept
<1> HIDE DEF g, h
<1> QED
  BY <1>1, <1>2, <1>3, SumMonotone, SumLaws

LEMMA KeptAppend ==
    ASSUME NEW i \in DOMAIN Limits, NEW t \in Instant, NEW d \in Deques,
           NEW r \in [at : Instant, amount : Amounts]
    PROVE  Kept(i, t, Append(d, r)) =
               Kept(i, t, d) + (IF Inside(i, t, r.at) THEN Amount(Limits[i].kind, r) ELSE 0)
<1> DEFINE e == Append(d, r)
           n == Len(d) + 1
           g == KeptOf(i, t, d)
           h == KeptOf(i, t, e)
<1>1. e \in Deques /\ DOMAIN e = 1..n /\ DOMAIN d = 1..Len(d) /\ Len(d) \in Nat
  BY DEF Deques
<1>2. e[n] = r /\ \A j \in 1..Len(d) : e[j] = d[j]
  BY DEF Deques
<1>3. h[n] = IF Inside(i, t, r.at) THEN Amount(Limits[i].kind, r) ELSE 0
  BY <1>1, <1>2 DEF KeptOf
<1>4. \A j \in 1..Len(d) : h[j] = g[j]
  BY <1>1, <1>2 DEF KeptOf
<1>5. e = Append(d, r) /\ g = KeptOf(i, t, d) /\ h = KeptOf(i, t, e) /\ n = Len(d) + 1 /\ n \in Nat
  BY <1>1
<1> HIDE DEF e, g, h, n
<1>6. \A j \in 1..n : h[j] \in Int
  <2>1. \A j \in DOMAIN e : KeptOf(i, t, e)[j] \in Nat
    BY <1>1, KeptFacts
  <2> QED
    BY <1>1, <1>5, <2>1
<1>7. Kept(i, t, d) = SumFunctionOnSet(g, 1..Len(d)) /\ Kept(i, t, e) = SumFunctionOnSet(h, 1..n)
  BY <1>1, <1>5 DEF Kept
<1>8. n \in 1..n /\ (1..n) \ {n} = 1..Len(d)
  BY <1>1, <1>5
<1>9. IsFiniteSet(1..n) /\ IsFiniteSet(1..Len(d))
  BY <1>1, <1>5, FS_Interval
<1>10. SumFunctionOnSet(h, 1..n) = SumFunctionOnSet(h, (1..n) \ {n}) + h[n]
  BY <1>6, <1>8, <1>9, SumSplit
<1>11. SumFunctionOnSet(h, 1..Len(d)) = SumFunctionOnSet(g, 1..Len(d))
  <2>1. \A j \in 1..Len(d) : h[j] \in Int /\ h[j] = g[j]
    BY <1>4, <1>6, <1>8
  <2> QED
    BY <1>9, <2>1, SumSame
<1> QED
  BY <1>3, <1>5, <1>7, <1>8, <1>10, <1>11

\* Trimming drops nothing that is in the window.
LEMMA KeptTrimmed ==
    ASSUME NEW i \in DOMAIN Limits, NEW t \in Instant, NEW d \in Deques, NEW oldest \in Int,
           oldest <= t - Limits[i].window
    PROVE  /\ Trimmed(d, oldest) \in Deques
           /\ Kept(i, t, Trimmed(d, oldest)) = Kept(i, t, d)
<1> DEFINE kept == {j \in DOMAIN d : d[j].at >= oldest}
           e == Trimmed(d, oldest)
<1>0. e \in Deques
  BY TrimmedType DEF Deques
<1>1. e = IF kept = {} THEN <<>> ELSE SubSeq(d, Min(kept), Len(d))
  BY DEF Trimmed
<1>2. /\ IsFiniteSet(DOMAIN d) /\ DOMAIN d = 1..Len(d) /\ Len(d) \in Nat
      /\ \A j \in DOMAIN d : d[j].at \in Int /\ KeptOf(i, t, d)[j] \in Int
  BY KeptFacts DEF Instant
<1>3. \A j \in DOMAIN d : j \notin kept => KeptOf(i, t, d)[j] = 0
  <2> SUFFICES ASSUME NEW j \in DOMAIN d, j \notin kept PROVE ~Inside(i, t, d[j].at)
    BY KeptFacts
  <2>1. t \in Int /\ Limits[i].window \in Int
    BY LimitFacts DEF Instant
  <2>2. d[j].at < oldest
    BY <1>2
  <2> QED
    BY <1>2, <2>1, <2>2 DEF Inside
<1>4. CASE kept = {}
  <2>1. e = <<>> /\ DOMAIN e = {}
    BY <1>1, <1>4
  <2>2. Kept(i, t, e) = 0
    BY <2>1, FS_EmptySet, SumLaws DEF Kept
  <2>3. {} \in SUBSET DOMAIN d /\ \A j \in DOMAIN d \ {} : KeptOf(i, t, d)[j] = 0
    BY <1>3, <1>4
  <2>4. SumFunctionOnSet(KeptOf(i, t, d), DOMAIN d) = SumFunctionOnSet(KeptOf(i, t, d), {})
    <3> HIDE DEF kept, e
    <3> QED
      BY <1>2, <2>3, SumOfSome
  <2> QED
    BY <1>0, <1>2, <2>2, <2>4, SumLaws DEF Kept
<1>5. CASE kept # {}
  <2> DEFINE m == Min(kept)
             S == m..Len(d)
             f == [j \in DOMAIN e |-> j + m - 1]
  <2>1. m \in kept /\ m \in 1..Len(d)
    <3>1. kept \in SUBSET (1..Len(d))
      BY <1>2
    <3> HIDE DEF kept
    <3> QED
      BY <1>2, <1>5, <3>1, LeastIndex
  <2>2. \A j \in kept : m <= j
    <3>1. kept \subseteq Nat /\ kept # {}
      BY <1>2, <1>5
    <3> HIDE DEF kept
    <3>2. PICK k \in kept : \A j \in kept : k <= j
      BY <3>1, LeastElement
    <3> QED
      BY <3>1, <3>2 DEF Min
  <2>3. e = SubSeq(d, m, Len(d))
    BY <1>1, <1>5
  <2> HIDE DEF e
  <2>4. /\ DOMAIN e = 1..(Len(d) - m + 1)
        /\ \A j \in DOMAIN e : e[j] = d[j + m - 1] /\ j + m - 1 \in DOMAIN d
    <3> HIDE DEF kept, m
    <3>1. d \in Seq([at : Instant, amount : Amounts]) /\ m \in Nat
      BY <2>1 DEF Deques
    <3> QED
      BY <1>2, <2>1, <2>3, <3>1
  <2>5. \A j \in DOMAIN e : KeptOf(i, t, e)[j] = KeptOf(i, t, d)[f[j]]
    BY <2>4 DEF KeptOf
  <2>6. S \in SUBSET DOMAIN d /\ \A j \in DOMAIN d \ S : KeptOf(i, t, d)[j] = 0
    <3> HIDE DEF kept, m
    <3> QED
      BY <1>2, <1>3, <2>1, <2>2
  <2> HIDE DEF kept, m
  <2>7. m \in Nat
    BY <2>1
  <2>8. {f[j] : j \in DOMAIN e} = S /\ \A j, k \in DOMAIN e : f[j] = f[k] => j = k
    <3>1. \A j \in DOMAIN e : f[j] \in S
      BY <1>2, <2>1, <2>4, <2>7
    <3>2. ASSUME NEW s \in S PROVE s - m + 1 \in DOMAIN e /\ f[s - m + 1] = s
      <4>1. s - m + 1 \in DOMAIN e
        BY <1>2, <2>1, <2>4, <2>7
      <4> QED
        BY <2>7, <4>1
    <3>3. \A j, k \in DOMAIN e : f[j] = f[k] => j = k
      BY <2>4, <2>7
    <3> HIDE DEF f, S
    <3> QED
      BY <3>1, <3>2, <3>3
  <2> HIDE DEF f, S
  <2>9. IsFiniteSet(DOMAIN e) /\ \A j \in DOMAIN e : KeptOf(i, t, e)[j] \in Int
    BY <1>0, KeptFacts DEF e
  <2>10. SumFunctionOnSet(KeptOf(i, t, e), DOMAIN e) = SumFunctionOnSet(KeptOf(i, t, d), {f[j] : j \in DOMAIN e})
    BY <2>5, <2>8, <2>9, SumRenamed
  <2>11. SumFunctionOnSet(KeptOf(i, t, d), DOMAIN d) = SumFunctionOnSet(KeptOf(i, t, d), S)
    BY <1>2, <2>6, SumOfSome
  <2>12. Kept(i, t, e) = Kept(i, t, d)
    BY <2>8, <2>10, <2>11 DEF Kept
  <2> QED
    BY <1>0, <2>12 DEF e
<1> QED
  BY <1>4, <1>5

-----------------------------------------------------------------------------
\* The steps.

\* The frame g that follows f adds no more to a window than f did.
Calm(f, g) ==
    \/ g \notin Frame
    \/ f \in Frame /\ g.check = f.check /\ g.at = f.at /\ g.amount = f.amount
    \/ g.check = 0 /\ g.at = 0
    \/ g.check = 1 /\ g.at = now

LEMMA CalmFrame ==
    ASSUME TypeOK, NEW f, NEW g, Calm(f, g), f \in Frame => f.at <= now
    PROVE  /\ g \in Frame => g.at <= now
           /\ \A i \in DOMAIN Limits, t \in Instant :
                  /\ Share(i, i, t, g) <= Share(i, i, t, f)
                  /\ now > t => Share(i, 0, t, g) <= Share(i, 0, t, f)
<1>1. now \in Nat
  BY DEF TypeOK, Instant
<1>2. g \in Frame => g.at <= now
  BY <1>1 DEF Calm
<1> SUFFICES ASSUME NEW i \in DOMAIN Limits, NEW t \in Instant
             PROVE  /\ Share(i, i, t, g) <= Share(i, i, t, f)
                    /\ now > t => Share(i, 0, t, g) <= Share(i, 0, t, f)
  BY <1>2
<1>3. /\ Share(i, i, t, f) \in Nat /\ Share(i, 0, t, f) \in Nat
      /\ Share(i, i, t, g) \in Nat /\ Share(i, 0, t, g) \in Nat
  BY ShareFacts
<1>4. CASE g \notin Frame
  <2>1. Share(i, i, t, g) = 0 /\ Share(i, 0, t, g) = 0
    BY <1>4 DEF Share
  <2> QED
    BY <1>3, <2>1
<1>5. CASE f \in Frame /\ g \in Frame /\ g.check = f.check /\ g.at = f.at /\ g.amount = f.amount
  <2>1. Share(i, i, t, g) = Share(i, i, t, f) /\ Share(i, 0, t, g) = Share(i, 0, t, f)
    BY <1>5 DEF Share, Amount
  <2> QED
    BY <1>3, <2>1
<1>6. CASE g.check = 0 /\ g.at = 0
  <2>1. Share(i, i, t, g) = 0 /\ Share(i, 0, t, g) = 0
    BY <1>6, LimitFacts DEF Share
  <2> QED
    BY <1>3, <2>1
<1>7. CASE g.check = 1 /\ g.at = now
  <2>1. Share(i, i, t, g) = 0
    BY <1>7, LimitFacts DEF Share
  <2>2. now > t => Share(i, 0, t, g) = 0
    <3>1. t \in Int
      BY DEF Instant
    <3> QED
      BY <1>1, <1>7, <3>1 DEF Share, Inside
  <2> QED
    BY <1>3, <2>1, <2>2
<1> QED
  BY <1>4, <1>5, <1>6, <1>7 DEF Calm

\* A step that records nothing and trims nothing, and whose frames are calm.
LEMMA CalmStep ==
    ASSUME VelocityInv, TypeOK', UNCHANGED <<deque, passed>>, now <= now',
           \A th \in Threads : Calm(frame[th], frame'[th]) \/ frame'[th] = frame[th]
    PROVE  TimedInv' /\ WindowInv'
<1>1. TypeOK /\ TimedInv /\ WindowInv /\ now \in Nat /\ now' \in Nat
  BY DEF VelocityInv, TypeOK, Instant
<1>2. ASSUME NEW th \in Threads
      PROVE  /\ frame'[th] \in Frame => frame'[th].at <= now
             /\ \A i \in DOMAIN Limits, t \in Instant :
                    /\ Share(i, i, t, frame'[th]) <= Share(i, i, t, frame[th])
                    /\ now > t => Share(i, 0, t, frame'[th]) <= Share(i, 0, t, frame[th])
  <2>1. frame[th] \in Frame => frame[th].at <= now
    BY <1>1 DEF TimedInv
  <2>2. CASE Calm(frame[th], frame'[th])
    BY <1>1, <2>1, <2>2, CalmFrame
  <2>3. CASE frame'[th] = frame[th]
    <3>1. \A i \in DOMAIN Limits, t \in Instant :
              Share(i, i, t, frame[th]) \in Nat /\ Share(i, 0, t, frame[th]) \in Nat
      BY ShareFacts
    <3> QED
      BY <2>1, <2>3, <3>1
  <2> QED
    BY <2>2, <2>3
<1>3. TimedInv'
  <2> SUFFICES ASSUME NEW th \in Threads, frame'[th] \in Frame PROVE frame'[th].at <= now'
    BY DEF TimedInv
  <2>1. frame'[th].at \in Nat
    BY FrameFields DEF Instant
  <2> QED
    BY <1>1, <1>2, <2>1
<1>4. ASSUME NEW i \in DOMAIN Limits, NEW t \in Instant, Shortest(i)
      PROVE  Counted(i, t)' \/ Closed(i, t)'
  <2>1. PassedIn(i, t)' = PassedIn(i, t) /\ PassedIn(i, t) \in Nat
    BY <1>1, PassedSum, PassedFacts DEF TypeOK
  <2>2. Limits[i].max \in Nat /\ Others(i) \in Nat
    BY LimitFacts, ThreadFacts
  <2>3. PICK th \in Threads : TRUE
    BY GuardsAssumption
  <2>4. /\ Shares(i, i, t, frame) \in Nat /\ Shares(i, i, t, frame') \in Nat
        /\ Shares(i, 0, t, frame) \in Nat /\ Shares(i, 0, t, frame') \in Nat
    BY <2>3, SharesBound
  <2>5. Shares(i, i, t, frame') <= Shares(i, i, t, frame)
    BY <1>2, SharesFollow
  <2>6. CASE Counted(i, t)
    <3>1. PassedIn(i, t) <= Kept(i, t, deque) /\ PassedIn(i, t) + Shares(i, i, t, frame) <= Limits[i].max + Others(i)
      BY <2>6 DEF Counted
    <3>2. PassedIn(i, t)' <= Kept(i, t, deque')
      BY <2>1, <3>1
    <3>3. PassedIn(i, t)' + Shares(i, i, t, frame') <= Limits[i].max + Others(i)
      BY <2>1, <2>2, <2>4, <2>5, <3>1
    <3> QED
      BY <3>2, <3>3 DEF Counted
  <2>7. CASE Closed(i, t)
    <3>1. now > t /\ PassedIn(i, t) + Shares(i, 0, t, frame) <= Limits[i].max + Others(i) + Others(i)
      BY <2>7 DEF Closed
    <3>2. Shares(i, 0, t, frame') <= Shares(i, 0, t, frame)
      BY <1>2, <3>1, SharesFollow
    <3>3. now' > t
      BY <1>1, <3>1 DEF Instant
    <3>4. PassedIn(i, t)' + Shares(i, 0, t, frame') <= Limits[i].max + Others(i) + Others(i)
      BY <2>1, <2>2, <2>4, <3>1, <3>2
    <3> QED
      BY <3>3, <3>4 DEF Closed
  <2> QED
    BY <1>1, <1>4, <2>6, <2>7 DEF WindowInv
<1> QED
  BY <1>3, <1>4 DEF WindowInv

LEMMA OneCalm ==
    ASSUME TypeOK, NEW th \in Threads, NEW g, frame' = [frame EXCEPT ![th] = g], Calm(frame[th], g)
    PROVE  \A u \in Threads : Calm(frame[u], frame'[u]) \/ frame'[u] = frame[u]
BY DEF TypeOK

\* Who grants or denies is calm.
LEMMA GrantCalm ==
    ASSUME TypeOK, NEW th \in Threads, frame[th].guard # 0, Grant(th) \/ Deny(th)
    PROVE  \A u \in Threads : Calm(frame[u], frame'[u]) \/ frame'[u] = frame[u]
<1>1. frame[th] \in Frame
  BY FrameOf
<1>2. CASE Grant(th)
  <2>1. /\ [frame[th] EXCEPT !.guard = @ + 1].check = frame[th].check
        /\ [frame[th] EXCEPT !.guard = @ + 1].at = frame[th].at
        /\ [frame[th] EXCEPT !.guard = @ + 1].amount = frame[th].amount
    BY <1>1 DEF Frame
  <2>2. Calm(frame[th], [frame[th] EXCEPT !.guard = @ + 1])
    BY <1>1, <2>1 DEF Calm
  <2>3. frame' = [frame EXCEPT ![th] = [frame[th] EXCEPT !.guard = @ + 1]]
    BY <1>2 DEF Grant
  <2> QED
    BY <2>2, <2>3, OneCalm
<1>3. CASE Deny(th)
  <2>1. Calm(frame[th], Idle)
    BY DEF Calm, Idle, Frame
  <2> QED
    BY <1>3, <2>1, OneCalm DEF Deny
<1> QED
  BY <1>2, <1>3

LEMMA CalmActions ==
    ASSUME VelocityInv, TypeOK', NEW th \in Threads,
           \/ Evaluate(th) \/ Fraud(th) \/ PermissionMode(th) \/ ReadClock(th)
           \/ Budget(th) \/ Emit(th) \/ Consume(th)
    PROVE  TimedInv' /\ WindowInv'
<1>1. TypeOK /\ now \in Nat
  BY DEF VelocityInv, TypeOK, Instant
<1>2. UNCHANGED <<now, deque, passed>>
  BY DEF Evaluate, Fraud, PermissionMode, ReadClock, Budget, Emit, Consume
<1>3. SUFFICES \A u \in Threads : Calm(frame[u], frame'[u]) \/ frame'[u] = frame[u]
  BY <1>1, <1>2, CalmStep
<1>4. CASE Evaluate(th)
  <2>1. PICK f \in Frame : f.check = 0 /\ f.at = 0 /\ frame' = [frame EXCEPT ![th] = f]
    BY <1>4 DEF Evaluate
  <2>2. Calm(frame[th], f)
    BY <2>1 DEF Calm
  <2> QED
    BY <1>1, <2>1, <2>2, OneCalm
<1>5. CASE Fraud(th)
  <2>1. frame[th].guard # 0 /\ (Grant(th) \/ Deny(th))
    BY <1>5, AtGuard DEF Fraud
  <2> QED
    BY <1>1, <2>1, GrantCalm
<1>6. CASE PermissionMode(th)
  <2>1. frame[th].guard # 0 /\ (Grant(th) \/ Deny(th))
    BY <1>6, AtGuard DEF PermissionMode
  <2> QED
    BY <1>1, <2>1, GrantCalm
<1>7. CASE ReadClock(th)
  <2> DEFINE g == [frame[th] EXCEPT !.check = 1, !.at = now]
  <2>1. frame[th] \in Frame
    BY <1>1, <1>7, AtGuard, FrameOf DEF ReadClock
  <2>2. g.check = 1 /\ g.at = now
    BY <2>1 DEF Frame
  <2>3. frame' = [frame EXCEPT ![th] = g]
    BY <1>7 DEF ReadClock
  <2> HIDE DEF g
  <2>4. Calm(frame[th], g)
    BY <2>2 DEF Calm
  <2> QED
    BY <1>1, <2>3, <2>4, OneCalm
<1>8. CASE Budget(th)
  <2>1. frame[th].guard # 0 /\ (Grant(th) \/ Deny(th))
    BY <1>8, AtGuard DEF Budget
  <2> QED
    BY <1>1, <2>1, GrantCalm
<1>9. CASE Emit(th)
  <2>1. frame[th].guard # 0 /\ (Grant(th) \/ Deny(th))
    BY <1>9, ChainFacts DEF Emit
  <2> QED
    BY <1>1, <2>1, GrantCalm
<1>10. CASE Consume(th)
  <2>1. Calm(frame[th], Idle)
    BY DEF Calm, Idle, Frame
  <2> QED
    BY <1>1, <1>10, <2>1, OneCalm DEF Consume
<1> QED
  BY <1>4, <1>5, <1>6, <1>7, <1>8, <1>9, <1>10

\* What a comparison does to the shares of a limit i: only the comparison of i
\* itself adds to those that are beyond it.
LEMMA CheckedFrame ==
    ASSUME NEW f \in Frame, f.check \in DOMAIN Limits, NEW g,
           g = Idle \/ g = [f EXCEPT !.check = @ + 1],
           NEW i \in DOMAIN Limits, NEW t \in Instant
    PROVE  /\ g \in Frame => g.at = f.at
           /\ Share(i, 0, t, g) <= Share(i, 0, t, f)
           /\ f.check # i \/ g = Idle => Share(i, i, t, g) <= Share(i, i, t, f)
           /\ ~Inside(i, t, f.at) => Share(i, 0, t, g) = 0
           /\ Share(i, i, t, g) <= Amount(Limits[i].kind, f)
<1>1. /\ f.check \in Nat /\ f.check > 0 /\ i \in Nat /\ i > 0
      /\ Amount(Limits[i].kind, f) \in Nat
      /\ Share(i, i, t, f) \in Nat /\ Share(i, 0, t, f) \in Nat
      /\ Share(i, i, t, g) \in Nat /\ Share(i, 0, t, g) \in Nat
  BY LimitFacts, FrameFields, LargestAmount, ShareFacts
<1>2. CASE g = Idle
  <2>1. g \notin Frame
    BY <1>2 DEF Idle, Frame
  <2>2. Share(i, i, t, g) = 0 /\ Share(i, 0, t, g) = 0
    BY <2>1 DEF Share
  <2> QED
    BY <1>1, <2>1, <2>2
<1>3. CASE g = [f EXCEPT !.check = @ + 1]
  <2>1. g.check = f.check + 1 /\ g.at = f.at /\ g.amount = f.amount
    BY <1>3 DEF Frame
  <2>2. Amount(Limits[i].kind, g) = Amount(Limits[i].kind, f)
    BY <2>1 DEF Amount
  <2>3. Idle \notin Frame
    BY DEF Idle, Frame
  <2>4. f.check # i => Share(i, i, t, g) <= Share(i, i, t, f)
    BY <1>1, <2>1, <2>2 DEF Share
  <2>5. Share(i, 0, t, g) <= Share(i, 0, t, f) /\ (~Inside(i, t, f.at) => Share(i, 0, t, g) = 0)
    BY <1>1, <2>1, <2>2 DEF Share
  <2>6. Share(i, i, t, g) <= Amount(Limits[i].kind, f)
    BY <1>1, <2>2 DEF Share
  <2>7. g = Idle => Share(i, i, t, g) <= Share(i, i, t, f)
    <3>1. g = Idle => Share(i, i, t, g) = 0
      BY <2>3 DEF Share
    <3> QED
      BY <1>1, <3>1
  <2> QED
    BY <2>1, <2>4, <2>5, <2>6, <2>7
<1> QED
  BY <1>2, <1>3

LEMMA CheckStep ==
    ASSUME VelocityInv, TypeOK', NEW th \in Threads, CheckLimit(th)
    PROVE  TimedInv' /\ WindowInv'
<1> DEFINE f == frame[th]
           g == frame'[th]
           j == f.check
<1>1. TypeOK /\ TimedInv /\ WindowInv /\ now \in Nat
  BY DEF VelocityInv, TypeOK, Instant
<1>2. f \in Frame /\ j \in DOMAIN Limits /\ f.at \in Instant /\ f.at \in Nat /\ f.at <= now
  <2>1. f \in Frame /\ j \in DOMAIN Limits
    BY <1>1, AtGuard, FrameOf DEF CheckLimit
  <2> QED
    BY <1>1, <2>1, FrameFields DEF TimedInv, Instant
<1>3. /\ deque' = Trimmed(deque, f.at - Limits[j].window)
      /\ g = Idle \/ g = [f EXCEPT !.check = @ + 1]
      /\ g = Idle \/ Total(Limits[j].kind, deque') + Amount(Limits[j].kind, f) <= Limits[j].max
      /\ \A u \in Threads \ {th} : frame'[u] = frame[u]
      /\ now' = now /\ passed' = passed
  <2>1. CASE Deny(th)
    BY <1>1, <2>1 DEF CheckLimit, Deny, TypeOK
  <2>2. CASE ~Deny(th)
    <3>1. /\ frame' = [frame EXCEPT ![th].check = @ + 1]
          /\ ~(Total(Limits[j].kind, deque') + Amount(Limits[j].kind, f) > Limits[j].max)
      BY <2>2 DEF CheckLimit
    <3>2. Total(Limits[j].kind, deque') \in Int
      BY <1>2, KeptTotal DEF TypeOK, Deques
    <3>3. Amount(Limits[j].kind, f) \in Nat /\ Limits[j].max \in Nat
      BY <1>2, FrameFields, LimitFacts, LargestAmount
    <3>4. g = [f EXCEPT !.check = @ + 1] /\ \A u \in Threads \ {th} : frame'[u] = frame[u]
      BY <1>1, <3>1 DEF TypeOK
    <3>5. Total(Limits[j].kind, deque') + Amount(Limits[j].kind, f) <= Limits[j].max
      BY <3>1, <3>2, <3>3
    <3> QED
      BY <3>4, <3>5 DEF CheckLimit
  <2> QED
    BY <2>1, <2>2
<1> HIDE DEF f, g, j
<1>4. TimedInv'
  <2> SUFFICES ASSUME NEW u \in Threads, frame'[u] \in Frame PROVE frame'[u].at <= now'
    BY DEF TimedInv
  <2>1. CASE u = th
    <3>1. g \in Frame => g.at = f.at
      BY <1>2, <1>3, CheckedFrame DEF g, j, Instant
    <3> QED
      BY <1>2, <1>3, <2>1, <3>1 DEF g
  <2>2. CASE u # th
    BY <1>1, <1>3, <2>2 DEF TimedInv
  <2> QED
    BY <2>1, <2>2
<1>5. ASSUME NEW i \in DOMAIN Limits, NEW t \in Instant, Shortest(i)
      PROVE  Counted(i, t)' \/ Closed(i, t)'
  <2>1. PassedIn(i, t)' = PassedIn(i, t) /\ PassedIn(i, t) \in Nat
    BY <1>1, <1>3, PassedSum, PassedFacts DEF TypeOK
  <2>2. /\ Limits[i].max \in Nat /\ Limits[i].window \in Nat /\ Limits[j].window \in Nat
        /\ Others(i) \in Nat /\ t \in Nat /\ Limits[i].window <= Limits[j].window
    BY <1>2, <1>5, LimitFacts, ThreadFacts DEF Shortest, Instant
  <2>3. /\ Shares(i, i, t, frame) \in Nat /\ Shares(i, i, t, frame') \in Nat
        /\ Shares(i, 0, t, frame) \in Nat /\ Shares(i, 0, t, frame') \in Nat
        /\ Shares(i, i, t, frame') <= Share(i, i, t, g) + Others(i)
        /\ Shares(i, 0, t, frame') <= Share(i, 0, t, g) + Others(i)
    BY SharesBound DEF g
  <2>4. /\ Share(i, 0, t, g) <= Share(i, 0, t, f)
        /\ j # i \/ g = Idle => Share(i, i, t, g) <= Share(i, i, t, f)
        /\ ~Inside(i, t, f.at) => Share(i, 0, t, g) = 0
        /\ Share(i, i, t, g) <= Amount(Limits[i].kind, f)
    BY <1>2, <1>3, CheckedFrame DEF j
  <2>5. \A k, u : /\ Share(i, k, t, frame[u]) \in Nat /\ Share(i, k, t, frame'[u]) \in Nat
    BY ShareFacts
  <2>6. CASE Closed(i, t)
    <3>1. now > t /\ PassedIn(i, t) + Shares(i, 0, t, frame) <= Limits[i].max + Others(i) + Others(i)
      BY <2>6 DEF Closed
    <3>2. \A u \in Threads : Share(i, 0, t, frame'[u]) <= Share(i, 0, t, frame[u])
      <4>1. \A u \in Threads \ {th} : frame'[u] = frame[u] /\ Share(i, 0, t, frame[u]) \in Nat
        BY <1>3, <2>5
      <4>2. Share(i, 0, t, frame'[th]) <= Share(i, 0, t, frame[th])
        BY <2>4 DEF f, g
      <4>3. \A u \in Threads \ {th} : Share(i, 0, t, frame'[u]) <= Share(i, 0, t, frame[u])
        BY <4>1
      <4> QED
        BY <4>2, <4>3
    <3>3. Shares(i, 0, t, frame') <= Shares(i, 0, t, frame)
      BY <3>2, SharesFollow
    <3>4. PassedIn(i, t)' + Shares(i, 0, t, frame') <= Limits[i].max + Others(i) + Others(i)
      BY <2>1, <2>2, <2>3, <3>1, <3>3
    <3> QED
      BY <1>3, <3>1, <3>4 DEF Closed
  <2>7. CASE Counted(i, t) /\ f.at > t
    <3>1. PassedIn(i, t) + Shares(i, i, t, frame) <= Limits[i].max + Others(i)
      BY <2>7 DEF Counted
    <3>2. now > t /\ Share(i, 0, t, g) = 0
      BY <1>1, <1>2, <2>2, <2>4, <2>7 DEF Inside
    <3>3. PassedIn(i, t)' + Shares(i, 0, t, frame') <= Limits[i].max + Others(i) + Others(i)
      BY <2>1, <2>2, <2>3, <3>1, <3>2
    <3> QED
      BY <1>3, <3>2, <3>3 DEF Closed
  <2>8. CASE Counted(i, t) /\ ~(f.at > t)
    <3>1. PassedIn(i, t) <= Kept(i, t, deque) /\ PassedIn(i, t) + Shares(i, i, t, frame) <= Limits[i].max + Others(i)
      BY <2>8 DEF Counted
    <3>2. deque \in Deques /\ deque' \in Deques /\ Kept(i, t, deque') = Kept(i, t, deque)
      <4>1. deque \in Deques
        BY <1>1 DEF TypeOK, Deques
      <4>2. f.at - Limits[j].window \in Int /\ f.at - Limits[j].window <= t - Limits[i].window
        BY <1>2, <2>2, <2>8
      <4> QED
        BY <1>3, <4>1, <4>2, KeptTrimmed
    <3>3. PassedIn(i, t)' <= Kept(i, t, deque')
      BY <2>1, <3>1, <3>2
    <3>4. PassedIn(i, t)' + Shares(i, i, t, frame') <= Limits[i].max + Others(i)
      <4>1. CASE j # i \/ g = Idle
        <5>1. \A u \in Threads : Share(i, i, t, frame'[u]) <= Share(i, i, t, frame[u])
          <6>1. \A u \in Threads \ {th} : frame'[u] = frame[u] /\ Share(i, i, t, frame[u]) \in Nat
            BY <1>3, <2>5
          <6>2. Share(i, i, t, frame'[th]) <= Share(i, i, t, frame[th])
            BY <2>4, <4>1 DEF f, g
          <6>3. \A u \in Threads \ {th} : Share(i, i, t, frame'[u]) <= Share(i, i, t, frame[u])
            BY <6>1
          <6> QED
            BY <6>2, <6>3
        <5>2. Shares(i, i, t, frame') <= Shares(i, i, t, frame)
          BY <5>1, SharesFollow
        <5> QED
          BY <2>1, <2>2, <2>3, <3>1, <5>2
      <4>2. CASE j = i /\ g # Idle
        <5>1. Total(Limits[i].kind, deque') + Amount(Limits[i].kind, f) <= Limits[i].max
          BY <1>3, <4>2
        <5>2. Kept(i, t, deque') <= Total(Limits[i].kind, deque') /\ Total(Limits[i].kind, deque') \in Int
          BY <3>2, KeptTotal
        <5>3. Kept(i, t, deque') \in Nat
          BY <3>2, KeptFacts
        <5>4. Amount(Limits[i].kind, f) \in Nat /\ Share(i, i, t, g) \in Nat
          BY <1>2, FrameFields, LimitFacts, LargestAmount, ShareFacts
        <5>5. PassedIn(i, t) + Amount(Limits[i].kind, f) <= Limits[i].max
          BY <2>1, <2>2, <3>3, <5>1, <5>2, <5>3, <5>4
        <5>6. PassedIn(i, t) + Share(i, i, t, g) <= Limits[i].max
          BY <2>1, <2>2, <2>4, <5>4, <5>5
        <5> QED
          BY <2>1, <2>2, <2>3, <5>4, <5>6
      <4> QED
        BY <4>1, <4>2
    <3> QED
      BY <3>3, <3>4 DEF Counted
  <2> QED
    BY <1>1, <1>5, <2>6, <2>7, <2>8 DEF WindowInv
<1> QED
  BY <1>4, <1>5 DEF WindowInv

LEMMA RecordStep ==
    ASSUME VelocityInv, TypeOK', NEW th \in Threads, Record(th)
    PROVE  TimedInv' /\ WindowInv'
<1> DEFINE f == frame[th]
           g == frame'[th]
           r == [at |-> f.at, amount |-> f.amount]
<1>1. TypeOK /\ TimedInv /\ WindowInv /\ now \in Nat
  BY DEF VelocityInv, TypeOK, Instant
<1>2. /\ f \in Frame /\ f.check = Len(Limits) + 1
      /\ f.at \in Instant /\ f.at \in Nat /\ f.at <= now /\ f.amount \in Amounts /\ f.amount \in Nat
  <2>1. f \in Frame /\ f.check = Len(Limits) + 1
    BY <1>1, AtGuard, FrameOf DEF Record
  <2>2. f.at <= now
    BY <1>1, <2>1 DEF TimedInv
  <2> HIDE DEF f
  <2>3. f.at \in Instant /\ f.amount \in Amounts
    BY <2>1, FrameFields
  <2>4. f.at \in Nat /\ f.amount \in Nat
    <3>1. Instant \subseteq Nat
      BY DEF Instant
    <3>2. Amounts \subseteq Nat
      BY GuardsAssumption
    <3> QED
      BY <2>3, <3>1, <3>2
  <2> QED
    BY <2>1, <2>2, <2>3, <2>4
<1>3. /\ deque' = Append(deque, r) /\ now' = now
      /\ \A u \in Threads \ {th} : frame'[u] = frame[u]
      /\ g = [f EXCEPT !.guard = @ + 1, !.check = 0, !.at = 0]
  BY <1>1 DEF Record, TypeOK
<1>4. g.check = 0 /\ g.at = 0
  BY <1>2, <1>3 DEF Frame
<1>5. /\ passed'[f.at].count = passed[f.at].count + 1
      /\ passed'[f.at].amount = passed[f.at].amount + f.amount
      /\ \A u \in Instant \ {f.at} : passed'[u] = passed[u]
  <2>1. passed[f.at] \in [count : Nat, amount : Nat]
    BY <1>1, <1>2 DEF TypeOK
  <2>2. passed'[f.at] = [passed[f.at] EXCEPT !.count = @ + 1, !.amount = @ + f.amount]
    BY <1>1, <1>2 DEF Record, TypeOK
  <2>3. \A u \in Instant \ {f.at} : passed'[u] = passed[u]
    BY <1>1 DEF Record, TypeOK
  <2> HIDE DEF f
  <2> QED
    BY <2>1, <2>2, <2>3
<1> HIDE DEF f, g
<1>6. TimedInv'
  <2> SUFFICES ASSUME NEW u \in Threads, frame'[u] \in Frame PROVE frame'[u].at <= now'
    BY DEF TimedInv
  <2>1. CASE u = th
    <3>1. frame'[u].at = 0
      BY <1>4, <2>1 DEF g
    <3> QED
      BY <1>1, <1>3, <3>1
  <2>2. CASE u # th
    BY <1>1, <1>3, <2>2 DEF TimedInv
  <2> QED
    BY <2>1, <2>2
<1>7. ASSUME NEW i \in DOMAIN Limits, NEW t \in Instant, Shortest(i)
      PROVE  Counted(i, t)' \/ Closed(i, t)'
  <2> DEFINE kind == Limits[i].kind
             n == Amount(kind, f)
             a == IF Inside(i, t, f.at) THEN n ELSE 0
  <2>1. n \in Nat /\ a \in Nat /\ Limits[i].max \in Nat /\ Others(i) \in Nat
    BY <1>2, LimitFacts, LargestAmount, ThreadFacts
  <2>2. passed'[f.at][kind] = passed[f.at][kind] + n
    <3>1. CASE kind = "count"
      BY <1>5, <3>1 DEF Amount
    <3>2. CASE kind = "amount"
      BY <1>5, <3>2 DEF Amount
    <3> QED
      BY <3>1, <3>2, LimitFacts
  <2>3. PassedIn(i, t)' = PassedIn(i, t) + a /\ PassedIn(i, t) \in Nat
    <3>1. /\ passed \in [Instant -> [count : Nat, amount : Nat]]
          /\ passed' \in [Instant -> [count : Nat, amount : Nat]]
      BY <1>1 DEF TypeOK
    <3> HIDE DEF n
    <3>2. \A u \in Instant \ {f.at} : passed'[u] = passed[u]
      BY <1>5
    <3>3. SumFunctionOnSet(PassedOf(i, passed'), InWindow(i, t)) =
              SumFunctionOnSet(PassedOf(i, passed), InWindow(i, t)) + a
      <4>1. \A p, q \in [Instant -> [count : Nat, amount : Nat]] :
                /\ q[f.at][Limits[i].kind] = p[f.at][Limits[i].kind] + n
                /\ \A u \in Instant \ {f.at} : q[u] = p[u]
                => SumFunctionOnSet(PassedOf(i, q), InWindow(i, t)) =
                       SumFunctionOnSet(PassedOf(i, p), InWindow(i, t)) + a
        <5> SUFFICES ASSUME NEW p \in [Instant -> [count : Nat, amount : Nat]],
                            NEW q \in [Instant -> [count : Nat, amount : Nat]],
                            q[f.at][Limits[i].kind] = p[f.at][Limits[i].kind] + n,
                            \A u \in Instant \ {f.at} : q[u] = p[u]
                     PROVE  SumFunctionOnSet(PassedOf(i, q), InWindow(i, t)) =
                                SumFunctionOnSet(PassedOf(i, p), InWindow(i, t)) + a
          OBVIOUS
        <5>1. n \in Nat /\ f.at \in Instant
          BY <1>2, <2>1
        <5> HIDE DEF f
        <5> QED
          BY <5>1, PassedWith
      <4> QED
        BY <2>2, <3>1, <3>2, <4>1
    <3> QED
      BY <3>1, <3>3, PassedSum, PassedFacts
  <2>4. Kept(i, t, deque') = Kept(i, t, deque) + a /\ Kept(i, t, deque) \in Nat
    <3>1. deque \in Deques /\ r \in [at : Instant, amount : Amounts]
      BY <1>1, <1>2 DEF TypeOK, Deques
    <3>2. r.at = f.at /\ Amount(kind, r) = n
      BY DEF Amount
    <3> HIDE DEF r, n
    <3> QED
      BY <1>3, <3>1, <3>2, KeptAppend, KeptFacts
  <2>5. \A k \in {0, i} : Share(i, k, t, f) = a /\ Share(i, k, t, g) = 0
    <3>1. i \in Nat /\ i > 0 /\ i <= Len(Limits) /\ Len(Limits) \in Nat
      BY ChainFacts
    <3>2. \A k \in {0, i} : f.check > k /\ ~(g.check > k)
      BY <1>2, <1>4, <3>1
    <3> QED
      BY <1>2, <3>2 DEF Share
  <2>6. \A k \in {0, i} : /\ Shares(i, k, t, frame') = Shares(i, k, t, frame) - a
                          /\ Shares(i, k, t, frame) \in Nat
    <3> SUFFICES ASSUME NEW k \in {0, i}
                 PROVE  /\ Shares(i, k, t, frame') = Shares(i, k, t, frame) - a
                        /\ Shares(i, k, t, frame) \in Nat
      OBVIOUS
    <3>1. Shares(i, k, t, frame') = Shares(i, k, t, frame) - Share(i, k, t, f) + Share(i, k, t, g)
      BY <1>3, SharesChange DEF f, g
    <3>2. Shares(i, k, t, frame) \in Nat
      BY SharesBound
    <3>3. Share(i, k, t, f) = a /\ Share(i, k, t, g) = 0
      BY <2>5
    <3> HIDE DEF a
    <3> QED
      BY <2>1, <3>1, <3>2, <3>3
  <2> HIDE DEF a
  <2>7. CASE Counted(i, t)
    <3>1. PassedIn(i, t) <= Kept(i, t, deque) /\ PassedIn(i, t) + Shares(i, i, t, frame) <= Limits[i].max + Others(i)
      BY <2>7 DEF Counted
    <3>2. Shares(i, i, t, frame') = Shares(i, i, t, frame) - a /\ Shares(i, i, t, frame) \in Nat
      BY <2>6
    <3>3. PassedIn(i, t)' <= Kept(i, t, deque')
      BY <2>1, <2>3, <2>4, <3>1
    <3>4. PassedIn(i, t)' + Shares(i, i, t, frame') <= Limits[i].max + Others(i)
      BY <2>1, <2>3, <3>1, <3>2
    <3> QED
      BY <3>3, <3>4 DEF Counted
  <2>8. CASE Closed(i, t)
    <3>1. now > t /\ PassedIn(i, t) + Shares(i, 0, t, frame) <= Limits[i].max + Others(i) + Others(i)
      BY <2>8 DEF Closed
    <3>2. Shares(i, 0, t, frame') = Shares(i, 0, t, frame) - a /\ Shares(i, 0, t, frame) \in Nat
      BY <2>6
    <3>3. PassedIn(i, t)' + Shares(i, 0, t, frame') <= Limits[i].max + Others(i) + Others(i)
      BY <2>1, <2>3, <3>1, <3>2
    <3> QED
      BY <1>3, <3>1, <3>3 DEF Closed
  <2> QED
    BY <1>1, <1>7, <2>7, <2>8 DEF WindowInv
<1> QED
  BY <1>6, <1>7 DEF WindowInv

LEMMA NextVelocityInv == VelocityInv /\ [Next]_vars => VelocityInv'
<1> SUFFICES ASSUME VelocityInv, TypeOK', [Next]_vars
             PROVE  TimedInv' /\ WindowInv'
  BY NextTypeOK DEF VelocityInv
<1>0. now \in Nat
  BY DEF VelocityInv, TypeOK, Instant
<1>1. ASSUME NEW th \in Threads,
             \/ Evaluate(th) \/ Fraud(th) \/ PermissionMode(th) \/ ReadClock(th)
             \/ Budget(th) \/ Emit(th) \/ Consume(th)
      PROVE  TimedInv' /\ WindowInv'
  BY <1>1, CalmActions
<1>2. ASSUME NEW th \in Threads, CheckLimit(th) PROVE TimedInv' /\ WindowInv'
  BY <1>2, CheckStep
<1>3. ASSUME NEW th \in Threads, Record(th) PROVE TimedInv' /\ WindowInv'
  BY <1>3, RecordStep
<1>4. ASSUME NEW c \in Conversations, Reset(c) PROVE TimedInv' /\ WindowInv'
  BY <1>0, <1>4, CalmStep DEF Reset
<1>5. CASE Tick
  BY <1>0, <1>5, CalmStep DEF Tick
<1>6. CASE UNCHANGED vars
  BY <1>0, <1>6, CalmStep DEF vars
<1> QED
  BY <1>1, <1>2, <1>3, <1>4, <1>5, <1>6 DEF Next

LEMMA InitVelocityInv == Init => VelocityInv
<1> SUFFICES ASSUME Init PROVE TimedInv /\ WindowInv
  BY InitTypeOK DEF VelocityInv
<1>1. TypeOK /\ \A th \in Threads : frame[th] \notin Frame
  BY InitTypeOK DEF Init, Idle, Frame
<1>2. TimedInv
  BY <1>1 DEF TimedInv
<1>3. ASSUME NEW i \in DOMAIN Limits, NEW t \in Instant PROVE Counted(i, t)
  <2>1. PassedIn(i, t) = 0
    <3> DEFINE g == PassedOf(i, passed)
    <3>1. /\ IsFiniteSet(InWindow(i, t)) /\ InWindow(i, t) \subseteq Instant
          /\ \A u \in Instant : g[u] = passed[u][Limits[i].kind] /\ g[u] \in Nat
      BY <1>1, PassedFacts DEF TypeOK
    <3>2. \A u \in Instant : passed[u].count = 0 /\ passed[u].amount = 0
      BY DEF Init
    <3>3. \A u \in Instant : g[u] = 0
      <4>1. CASE Limits[i].kind = "count"
        BY <3>1, <3>2, <4>1
      <4>2. CASE Limits[i].kind = "amount"
        BY <3>1, <3>2, <4>2
      <4> QED
        BY <4>1, <4>2, LimitFacts
    <3> HIDE DEF g
    <3>4. SumFunctionOnSet(g, InWindow(i, t)) = SumFunctionOnSet(g, {})
      BY <3>1, <3>3, SumOfSome
    <3>5. SumFunctionOnSet(g, {}) = 0
      BY <3>1, SumLaws
    <3> QED
      BY <3>4, <3>5, PassedSum DEF g
  <2>2. Kept(i, t, deque) \in Nat
    BY <1>1, KeptFacts DEF TypeOK, Deques
  <2>3. PICK th \in Threads : TRUE
    BY GuardsAssumption
  <2>4. Share(i, i, t, frame[th]) = 0
    BY <1>1 DEF Share
  <2>5. Shares(i, i, t, frame) \in Nat /\ Shares(i, i, t, frame) <= Share(i, i, t, frame[th]) + Others(i)
    BY SharesBound
  <2>6. Limits[i].max \in Nat /\ Others(i) \in Nat
    BY LimitFacts, ThreadFacts
  <2> QED
    BY <2>1, <2>2, <2>4, <2>5, <2>6 DEF Counted
<1> QED
  BY <1>2, <1>3 DEF WindowInv

LEMMA VelocityInvAlways == Spec => []VelocityInv
BY InitVelocityInv, NextVelocityInv, PTL DEF Spec

LEMMA WindowHolds ==
    ASSUME VelocityInv, NEW i \in DOMAIN Limits, Shortest(i)
    PROVE  LimitHolds(i)
<1> DEFINE n == Cardinality(Threads) - 1
           b == Largest(Limits[i].kind)
<1>1. n \in Nat /\ b \in Nat /\ Limits[i].max \in Nat
  BY ThreadFacts, LimitFacts, LargestAmount
<1>2. 2 * n * b = Others(i) + Others(i) /\ Others(i) \in Nat
  <2>1. Others(i) = n * b
    BY DEF Others
  <2> HIDE DEF n, b
  <2>2. n * b \in Nat /\ 2 * n * b = n * b + n * b
    BY <1>1
  <2> QED
    BY <2>1, <2>2
<1> SUFFICES ASSUME NEW t \in Instant
             PROVE  PassedIn(i, t) <= Limits[i].max + 2 * n * b
  BY DEF LimitHolds, PassedIn
<1> HIDE DEF n, b
<1>3. PassedIn(i, t) \in Nat
  BY PassedSum, PassedFacts DEF VelocityInv, TypeOK
<1>4. PICK th \in Threads : TRUE
  BY GuardsAssumption
<1>5. Shares(i, i, t, frame) \in Nat /\ Shares(i, 0, t, frame) \in Nat
  BY <1>4, SharesBound
<1>6. CASE Counted(i, t)
  <2>1. PassedIn(i, t) + Shares(i, i, t, frame) <= Limits[i].max + Others(i)
    BY <1>6 DEF Counted
  <2> QED
    BY <1>1, <1>2, <1>3, <1>5, <2>1
<1>7. CASE Closed(i, t)
  <2>1. PassedIn(i, t) + Shares(i, 0, t, frame) <= Limits[i].max + Others(i) + Others(i)
    BY <1>7 DEF Closed
  <2> QED
    BY <1>1, <1>2, <1>3, <1>5, <2>1
<1> QED
  BY <1>6, <1>7 DEF VelocityInv, WindowInv

\* Whatever the limits of a tool, the ones with the shortest window are enforced: in
\* any window, threads that interleave pass them by at most one call of every
\* other thread for each of the two reasons.
THEOREM ShortestLimitsHold == Spec => [](\A i \in DOMAIN Limits : Shortest(i) => LimitHolds(i))
<1>1. VelocityInv => \A i \in DOMAIN Limits : Shortest(i) => LimitHolds(i)
  BY WindowHolds
<1> QED
  BY <1>1, VelocityInvAlways, PTL

\* The rules of a tool look back over the same time.
SameWindow == \A i, j \in DOMAIN Limits : Limits[i].window = Limits[j].window

\* If all limits of a tool have one window, all of them are enforced.
THEOREM VelocityIsBounded ==
    ASSUME SameWindow
    PROVE  Spec => []VelocityBounded
<1>1. \A i \in DOMAIN Limits : Shortest(i)
  <2> SUFFICES ASSUME NEW i \in DOMAIN Limits, NEW j \in DOMAIN Limits
               PROVE  Limits[i].window <= Limits[j].window
    BY DEF Shortest
  <2>1. Limits[i].window = Limits[j].window /\ Limits[i].window \in Nat
    BY LimitFacts DEF SameWindow
  <2> QED
    BY <2>1
<1>2. VelocityInv => VelocityBounded
  BY <1>1, WindowHolds DEF VelocityBounded
<1> QED
  BY <1>2, VelocityInvAlways, PTL
=============================================================================
