------------------------- MODULE LedgerAuditProofs -------------------------
(***************************************************************************)
(* Theorems about the readers of the ledger that verify its chain, for any *)
(* payloads, times, number of rows and number of changes.                  *)
(***************************************************************************)
EXTENDS LedgerAudit, FiniteSetTheorems, SequenceTheorems, WellFoundedInduction, TLAPS

-----------------------------------------------------------------------------
\* Numbers and sequences.

LEMMA LeastElement ==
    ASSUME NEW K, K \subseteq Nat, K # {}
    PROVE  \E m \in K : \A k \in K : m <= k
<1>1. PICK m \in K : \A k \in K : ~(<<k, m>> \in OpToRel(<, Nat))
  BY WFMin, NatLessThanWellFounded
<1>2. \A k \in K : ~(k < m)
  BY <1>1 DEF OpToRel
<1> QED
  BY <1>2

LEMMA FunctionIsSeq ==
    ASSUME NEW S, NEW n \in Nat, NEW s \in [1..n -> S]
    PROVE  s \in Seq(S) /\ Len(s) = n
<1>1. s \in Seq(S)
  BY SeqDef
<1>2. Len(s) \in Nat /\ 1..Len(s) = 1..n
  BY <1>1, LenProperties
<1>3. ASSUME Len(s) # n PROVE FALSE
  <2>1. CASE Len(s) < n
    BY <1>2, <2>1, n \in 1..n <=> n \in 1..Len(s)
  <2>2. CASE Len(s) > n
    BY <1>2, <2>2, Len(s) \in 1..Len(s) <=> Len(s) \in 1..n
  <2> QED
    BY <1>2, <1>3, <2>1, <2>2
<1> QED
  BY <1>1, <1>3

\* IsPrefix, element by element.
LEMMA PrefixIs ==
    ASSUME NEW S, NEW s \in Seq(S), NEW T, NEW t \in Seq(T)
    PROVE  IsPrefix(s, t) <=> Len(s) <= Len(t) /\ \A i \in 1..Len(s) : s[i] = t[i]
<1>1. /\ Len(s) \in Nat /\ Len(t) \in Nat
      /\ \A i \in 1..Len(s) : s[i] \in S \cup T
      /\ \A i \in 1..Len(t) : t[i] \in S \cup T
  BY LenProperties, ElementOfSeq
<1>2. CASE Len(s) <= Len(t)
  <2>1. \A i \in 1..Len(s) : t[i] \in S \cup T
    BY <1>1, <1>2
  <2> DEFINE a == SubSeq(s, 1, Len(s))
             b == SubSeq(t, 1, Len(s))
  <2>2. a \in Seq(S \cup T) /\ Len(a) = Len(s) /\ \A i \in 1..Len(s) : a[i] = s[i]
    BY <1>1, SubSeqProperties
  <2>3. b \in Seq(S \cup T) /\ Len(b) = Len(s) /\ \A i \in 1..Len(s) : b[i] = t[i]
    BY <1>1, <2>1, SubSeqProperties
  <2> HIDE DEF a, b
  <2>4. a = b <=> \A i \in 1..Len(s) : s[i] = t[i]
    BY <2>2, <2>3, SeqEqual
  <2> QED
    BY <1>2, <2>4 DEF IsPrefix, a, b
<1> QED
  BY <1>2 DEF IsPrefix

-----------------------------------------------------------------------------
\* Rows in chain order.  A set of rows whose sequence numbers are numbers and
\* differ is enumerated by how many rows come before each.

Ordered(R) ==
    /\ IsFiniteSet(R)
    /\ \A r \in R : r.sequence_no \in Nat
    /\ \A r, q \in R : r.sequence_no = q.sequence_no => r = q

Before(R, r) == Cardinality(Preceding(R, r))

LEMMA BeforeType ==
    ASSUME NEW R, Ordered(R), NEW r \in R
    PROVE  Before(R, r) \in 0..(Cardinality(R) - 1) /\ Cardinality(R) \in Nat
<1>1. Preceding(R, r) \in SUBSET (R \ {r})
  BY DEF Preceding, Ordered
<1>2. IsFiniteSet(R \ {r}) /\ Cardinality(R \ {r}) = Cardinality(R) - 1 /\ Cardinality(R) \in Nat
  BY FS_RemoveElement, FS_CardinalityType DEF Ordered
<1>3. IsFiniteSet(Preceding(R, r)) /\ Cardinality(Preceding(R, r)) <= Cardinality(R) - 1
  BY <1>1, <1>2, FS_Subset
<1>4. Cardinality(Preceding(R, r)) \in Nat
  BY <1>3, FS_CardinalityType
<1> QED
  BY <1>2, <1>3, <1>4 DEF Before

LEMMA BeforeOrders ==
    ASSUME NEW R, Ordered(R), NEW r \in R, NEW q \in R
    PROVE  /\ r.sequence_no < q.sequence_no <=> Before(R, r) < Before(R, q)
           /\ Before(R, r) = Before(R, q) => r = q
<1>1. ASSUME NEW a \in R, NEW b \in R, a.sequence_no < b.sequence_no
      PROVE  Before(R, a) < Before(R, b)
  <2>1. Preceding(R, b) \in SUBSET R /\ IsFiniteSet(R)
    BY DEF Preceding, Ordered
  <2>2. IsFiniteSet(Preceding(R, b))
    BY <2>1, FS_Subset
  <2>3. Preceding(R, a) \in SUBSET (Preceding(R, b) \ {a}) /\ a \in Preceding(R, b)
    BY <1>1 DEF Preceding, Ordered
  <2>4. /\ IsFiniteSet(Preceding(R, b) \ {a})
        /\ Cardinality(Preceding(R, b) \ {a}) = Cardinality(Preceding(R, b)) - 1
    BY <2>2, <2>3, FS_RemoveElement
  <2>5. Cardinality(Preceding(R, a)) <= Cardinality(Preceding(R, b)) - 1
    BY <2>3, <2>4, FS_Subset
  <2>6. Before(R, a) \in Int /\ Before(R, b) \in Int
    BY BeforeType
  <2> QED
    BY <2>5, <2>6 DEF Before
<1>2. Before(R, r) \in Int /\ Before(R, q) \in Int /\ r.sequence_no \in Nat /\ q.sequence_no \in Nat
  BY BeforeType DEF Ordered
<1>3. r.sequence_no = q.sequence_no => r = q
  BY DEF Ordered
<1> QED
  BY <1>1, <1>2, <1>3

LEMMA Places ==
    ASSUME NEW n \in Nat
    PROVE  IsFiniteSet(0..(n - 1)) /\ Cardinality(0..(n - 1)) = n
<1>1. 0 \in Int /\ n - 1 \in Int /\ (0 > n - 1 <=> n = 0) /\ (n - 1) - 0 + 1 = n
  OBVIOUS
<1>2. /\ IsFiniteSet(0..(n - 1))
      /\ Cardinality(0..(n - 1)) = IF 0 > n - 1 THEN 0 ELSE (n - 1) - 0 + 1
  BY <1>1, FS_Interval
<1> QED
  BY <1>1, <1>2

\* Every place is taken: the map from rows to places is one to one.
LEMMA PlaceTaken ==
    ASSUME NEW R, Ordered(R), NEW i \in 1..Cardinality(R)
    PROVE  \E r \in R : Before(R, r) = i - 1
<1> DEFINE n == Cardinality(R)
           f == [r \in R |-> Before(R, r)]
<1>1. n \in Nat /\ IsFiniteSet(R)
  BY FS_CardinalityType DEF Ordered
<1>2. f \in [R -> 0..(n - 1)]
  BY BeforeType
<1>3. \A r, q \in R : f[r] = f[q] => r = q
  BY BeforeOrders
<1>4. f \in Injection(R, 0..(n - 1))
  BY <1>2, <1>3 DEF Injection, IsInjective
<1>5. IsFiniteSet(0..(n - 1)) /\ Cardinality(0..(n - 1)) = n
  BY <1>1, Places
<1> DEFINE T == 0..(n - 1)
<1>6. i - 1 \in T
  BY <1>1
<1>7. Cardinality(R) = Cardinality(T)
  BY <1>5
<1> HIDE DEF f, T
<1>8. f \in Surjection(R, T)
  BY <1>4, <1>5, <1>7, FS_Injection DEF T
<1>9. PICK r \in R : f[r] = i - 1
  BY <1>6, <1>8 DEF Surjection
<1> QED
  BY <1>9 DEF f

LEMMA InOrder ==
    ASSUME NEW R, Ordered(R)
    PROVE  /\ Cardinality(R) \in Nat
           /\ \A i \in 1..Cardinality(R) : /\ InChainOrder(R)[i] \in R
                                           /\ Before(R, InChainOrder(R)[i]) = i - 1
           /\ \A r \in R : /\ Before(R, r) + 1 \in 1..Cardinality(R)
                           /\ InChainOrder(R)[Before(R, r) + 1] = r
<1>1. Cardinality(R) \in Nat
  BY FS_CardinalityType DEF Ordered
<1>2. ASSUME NEW i \in 1..Cardinality(R)
      PROVE  InChainOrder(R)[i] \in R /\ Before(R, InChainOrder(R)[i]) = i - 1
  <2>1. \E r \in R : Cardinality(Preceding(R, r)) = i - 1
    BY PlaceTaken DEF Before
  <2>2. InChainOrder(R)[i] = CHOOSE r \in R : Cardinality(Preceding(R, r)) = i - 1
    BY DEF InChainOrder
  <2> QED
    BY <2>1, <2>2 DEF Before
<1>3. ASSUME NEW r \in R
      PROVE  Before(R, r) + 1 \in 1..Cardinality(R) /\ InChainOrder(R)[Before(R, r) + 1] = r
  <2> DEFINE i == Before(R, r) + 1
  <2>1. i \in 1..Cardinality(R) /\ i - 1 = Before(R, r)
    BY BeforeType
  <2> HIDE DEF i
  <2>2. InChainOrder(R)[i] \in R /\ Before(R, InChainOrder(R)[i]) = Before(R, r)
    BY <1>2, <2>1
  <2> QED
    BY <2>1, <2>2, BeforeOrders DEF i
<1> QED
  BY <1>1, <1>2, <1>3

\* What verify_chain expects at a row: the genesis hash, or that of the row before.
LEMMA Expected ==
    ASSUME NEW R, Ordered(R), NEW i \in 1..Cardinality(R)
    PROVE  ExpectedPrev(R, InChainOrder(R)[i]) =
               IF i = 1 THEN GENESIS_PREV_HASH ELSE InChainOrder(R)[i - 1].hash
<1> DEFINE r == InChainOrder(R)[i]
           P == Preceding(R, r)
<1>1. r \in R /\ Before(R, r) = i - 1 /\ Cardinality(R) \in Nat
  BY InOrder
<1>2. IsFiniteSet(P) /\ P \in SUBSET R /\ Cardinality(P) = i - 1
  BY <1>1, FS_Subset DEF Preceding, Ordered, Before
<1>3. P = {} <=> i = 1
  BY <1>2, FS_EmptySet
<1>4. CASE i # 1
  <2> DEFINE q == InChainOrder(R)[i - 1]
  <2>1. i - 1 \in 1..Cardinality(R)
    BY <1>1, <1>4
  <2>2. q \in R /\ Before(R, q) = i - 2
    BY <2>1, InOrder
  <2> HIDE DEF q, r, P
  <2>3. q \in P
    BY <1>1, <2>2, BeforeOrders DEF P, Preceding
  <2>4. ASSUME NEW p \in P PROVE p.sequence_no <= q.sequence_no
    <3>1. p \in R /\ Before(R, p) < i - 1
      BY <1>1, <1>2, BeforeOrders DEF P, Preceding
    <3>2. ~(Before(R, q) < Before(R, p))
      BY <2>2, <3>1, BeforeType
    <3>3. ~(q.sequence_no < p.sequence_no)
      BY <2>2, <3>1, <3>2, BeforeOrders
    <3> QED
      BY <2>2, <3>1, <3>3 DEF Ordered
  <2>5. \A p \in P : p \in R /\ p.sequence_no \in Nat
    BY <1>2 DEF Ordered
  <2>6. \A p \in P : (\A x \in P : x.sequence_no <= p.sequence_no) => p = q
    BY <2>2, <2>3, <2>4, <2>5 DEF Ordered
  <2>7. Latest(P) = q
    BY <2>3, <2>4, <2>6 DEF Latest
  <2> QED
    BY <1>3, <1>4, <2>7 DEF ExpectedPrev, P, q, r
<1> QED
  BY <1>3, <1>4 DEF ExpectedPrev

-----------------------------------------------------------------------------
\* The chain as written.

Written(w) == w \in Seq(Nat \X Payloads) /\ \A i \in 1..Len(w) : w[i][1] = i

\* The hash of the i-th row: the payloads of the first i.
Chained(w, i) == [k \in 1..i |-> w[k][2]]

LEMMA ChainedType ==
    ASSUME NEW w, Written(w), NEW i \in 0..Len(w)
    PROVE  Chained(w, i) \in Seq(Payloads) /\ Len(Chained(w, i)) = i /\ i \in Nat
<1>1. Len(w) \in Nat /\ \A k \in 1..Len(w) : w[k] \in Nat \X Payloads
  BY LenProperties, ElementOfSeq DEF Written
<1>2. i \in Nat /\ Chained(w, i) \in [1..i -> Payloads]
  BY <1>1 DEF Chained
<1> QED
  BY <1>2, FunctionIsSeq

\* One more payload is one more compute_hash, and no other payload is.
LEMMA ChainedStep ==
    ASSUME NEW w, Written(w), NEW i \in 1..Len(w), NEW p \in Payloads
    PROVE  compute_hash(Chained(w, i - 1), p) = Chained(w, i) <=> p = w[i][2]
<1>1. Len(w) \in Nat /\ i - 1 \in 0..Len(w) /\ i \in 0..Len(w) /\ i \in Nat
  BY LenProperties DEF Written
<1> DEFINE s == Chained(w, i - 1)
           t == Chained(w, i)
           a == compute_hash(s, p)
<1>2. s \in Seq(Payloads) /\ Len(s) = i - 1 /\ \A k \in 1..(i - 1) : s[k] = w[k][2]
  BY <1>1, ChainedType DEF Chained
<1>3. t \in Seq(Payloads) /\ Len(t) = i /\ \A k \in 1..i : t[k] = w[k][2]
  BY <1>1, ChainedType DEF Chained
<1> HIDE DEF s, t
<1>4. a \in Seq(Payloads) /\ Len(a) = i /\ a[i] = p /\ \A k \in 1..(i - 1) : a[k] = s[k]
  BY <1>1, <1>2 DEF compute_hash
<1> HIDE DEF a
<1>5. \A k \in 1..(i - 1) : k \in 1..i /\ a[k] = t[k]
  BY <1>1, <1>2, <1>3, <1>4
<1>6. a = t <=> \A k \in 1..i : a[k] = t[k]
  BY <1>3, <1>4, SeqEqual
<1>7. (\A k \in 1..i : a[k] = t[k]) <=> a[i] = t[i]
  BY <1>1, <1>5
<1>8. i \in 1..i
  BY <1>1
<1> QED
  BY <1>3, <1>4, <1>6, <1>7, <1>8 DEF a, s, t

\* The hashes of different rows differ, and only the first row has the genesis
\* hash before it.
LEMMA ChainedApart ==
    ASSUME NEW w, Written(w), NEW i \in 0..Len(w)
    PROVE  /\ Chained(w, i) = GENESIS_PREV_HASH <=> i = 0
           /\ \A j \in 0..Len(w) : Chained(w, i) = Chained(w, j) => i = j
<1>1. Len(Chained(w, i)) = i /\ Chained(w, i) \in Seq(Payloads)
  BY ChainedType
<1>2. i = 0 => Chained(w, i) = <<>>
  BY DEF Chained
<1>3. \A j \in 0..Len(w) : Len(Chained(w, j)) = j
  BY ChainedType
<1>4. Len(<<>>) = 0
  OBVIOUS
<1> QED
  BY <1>1, <1>2, <1>3, <1>4 DEF GENESIS_PREV_HASH

\* A row keeps, whatever is done to the table, the hashes of the event that it
\* was written with.
AuditRow == [event_id : Nat, sequence_no : Nat, occurred_at : Times,
             payload : Payloads, prev_hash : Seq(Payloads), hash : Seq(Payloads)]

RowOf(w, r) ==
    /\ r \in AuditRow /\ r.event_id \in 1..Len(w)
    /\ r.prev_hash = Chained(w, r.event_id - 1)
    /\ r.hash = Chained(w, r.event_id)

AsWritten(w, r) == w[r.event_id] = <<r.event_id, r.payload>>

\* verify_chain's loop goes on at the i-th row that it reads exactly when the
\* row is as written and, as written, follows the one read before it.
LEMMA GoesOn ==
    ASSUME NEW w, Written(w), NEW R, Ordered(R), \A r \in R : RowOf(w, r),
           NEW i \in 1..Cardinality(R)
    PROVE  LET r == InChainOrder(R)[i]
           IN  ~BreaksAt(R, r) <=>
                   /\ AsWritten(w, r)
                   /\ r.event_id = IF i = 1 THEN 1 ELSE InChainOrder(R)[i - 1].event_id + 1
<1> DEFINE r == InChainOrder(R)[i]
<1>1. r \in R /\ RowOf(w, r) /\ Cardinality(R) \in Nat
  BY InOrder
<1>2. r.event_id \in 1..Len(w) /\ r.payload \in Payloads /\ r.event_id \in Nat /\ Len(w) \in Nat
      /\ r.event_id - 1 \in 0..Len(w)
  BY <1>1, LenProperties DEF RowOf, AuditRow, Written
<1>3. w[r.event_id] = <<r.event_id, w[r.event_id][2]>>
  BY <1>2, ElementOfSeq DEF Written
<1>4. r.hash = compute_hash(r.prev_hash, r.payload) <=> AsWritten(w, r)
  BY <1>1, <1>2, <1>3, ChainedStep DEF RowOf, AsWritten
<1>5. r.prev_hash = ExpectedPrev(R, r) <=>
          r.event_id = IF i = 1 THEN 1 ELSE InChainOrder(R)[i - 1].event_id + 1
  <2>1. ExpectedPrev(R, r) = IF i = 1 THEN GENESIS_PREV_HASH ELSE InChainOrder(R)[i - 1].hash
    BY Expected
  <2>2. r.prev_hash = Chained(w, r.event_id - 1)
    BY <1>1 DEF RowOf
  <2>3. CASE i = 1
    <3>1. r.prev_hash = GENESIS_PREV_HASH <=> r.event_id - 1 = 0
      BY <1>2, <2>2, ChainedApart
    <3> QED
      BY <1>2, <2>1, <2>3, <3>1
  <2>4. CASE i # 1
    <3> DEFINE q == InChainOrder(R)[i - 1]
    <3>1. q \in R /\ RowOf(w, q)
      BY <1>1, <2>4, InOrder
    <3>2. q.event_id \in 0..Len(w) /\ q.hash = Chained(w, q.event_id) /\ q.event_id \in Nat
      BY <1>2, <3>1 DEF RowOf
    <3>3. r.prev_hash = q.hash <=> r.event_id - 1 = q.event_id
      BY <1>2, <2>2, <3>2, ChainedApart
    <3> QED
      BY <1>2, <2>1, <2>4, <3>2, <3>3
  <2> QED
    BY <2>3, <2>4
<1> QED
  BY <1>4, <1>5 DEF BreaksAt

\* The first k rows that are read are in order exactly when they are the first
\* k rows as they were written.
LEMMA UpTo ==
    ASSUME NEW w, Written(w), NEW R, Ordered(R), \A r \in R : RowOf(w, r),
           NEW k \in 0..Cardinality(R)
    PROVE  (\A i \in 1..k : ~BreaksAt(R, InChainOrder(R)[i])) <=>
               k <= Len(w) /\ \A i \in 1..k : Contents(R)[i] = w[i]
<1> DEFINE row(i) == InChainOrder(R)[i]
<1>1. Cardinality(R) \in Nat /\ k \in Nat /\ Len(w) \in Nat /\ 1..k \subseteq 1..Cardinality(R)
  BY InOrder, LenProperties DEF Written
<1>2. \A i \in 1..k : /\ row(i) \in R /\ RowOf(w, row(i)) /\ row(i).event_id \in 1..Len(w)
                      /\ Contents(R)[i] = <<row(i).event_id, row(i).payload>>
  BY <1>1, InOrder DEF Contents, RowOf
<1>3. \A i \in 1..k : ~BreaksAt(R, row(i)) <=>
          /\ AsWritten(w, row(i))
          /\ row(i).event_id = IF i = 1 THEN 1 ELSE row(i - 1).event_id + 1
  BY <1>1, GoesOn
<1> HIDE DEF row
<1>4. ASSUME \A i \in 1..k : ~BreaksAt(R, row(i))
      PROVE  k <= Len(w) /\ \A i \in 1..k : Contents(R)[i] = w[i]
  <2>1. ASSUME NEW j \in 1..k, row(j).event_id # j PROVE FALSE
    <3> DEFINE K == {i \in 1..k : row(i).event_id # i}
    <3>1. K \subseteq Nat /\ K # {}
      BY <2>1
    <3>2. PICK m \in K : \A i \in K : m <= i
      BY <3>1, LeastElement
    <3>3. m \in 1..k /\ row(m).event_id = IF m = 1 THEN 1 ELSE row(m - 1).event_id + 1
      BY <1>3, <1>4
    <3>4. m # 1
      BY <3>2, <3>3
    <3>5. m - 1 \in 1..k /\ m - 1 \notin K
      BY <1>1, <3>2, <3>3, <3>4
    <3>6. row(m - 1).event_id = m - 1
      BY <3>5
    <3> QED
      BY <1>1, <3>2, <3>3, <3>4, <3>6
  <2>2. \A i \in 1..k : Contents(R)[i] = w[i]
    BY <1>2, <1>3, <1>4, <2>1 DEF AsWritten
  <2>3. k <= Len(w)
    <3>1. CASE k = 0
      BY <1>1, <3>1
    <3>2. CASE k # 0
      BY <1>1, <1>2, <2>1, <3>2, k \in 1..k
    <3> QED
      BY <3>1, <3>2
  <2> QED
    BY <2>2, <2>3
<1>5. ASSUME k <= Len(w), \A i \in 1..k : Contents(R)[i] = w[i], NEW i \in 1..k
      PROVE  ~BreaksAt(R, row(i))
  <2>1. \A j \in 1..k : row(j).event_id = j /\ AsWritten(w, row(j))
    <3> TAKE j \in 1..k
    <3>1. w[j] = <<row(j).event_id, row(j).payload>> /\ j \in 1..Len(w)
      BY <1>1, <1>2, <1>5
    <3>2. w[j][1] = j
      BY <3>1 DEF Written
    <3> QED
      BY <3>1, <3>2 DEF AsWritten
  <2>2. i # 1 => i - 1 \in 1..k
    BY <1>1
  <2> QED
    BY <1>1, <1>3, <2>1, <2>2
<1> QED
  BY <1>4, <1>5 DEF row

-----------------------------------------------------------------------------
\* What the verifier answers.

LEMMA ContentsType ==
    ASSUME NEW w, NEW R, Ordered(R), \A r \in R : RowOf(w, r)
    PROVE  Contents(R) \in Seq(Nat \X Payloads) /\ Len(Contents(R)) = Cardinality(R)
<1>1. \A i \in 1..Cardinality(R) : InChainOrder(R)[i] \in AuditRow /\ Cardinality(R) \in Nat
  BY InOrder DEF RowOf
<1>2. Cardinality(R) \in Nat
  BY InOrder
<1>3. Contents(R) \in [1..Cardinality(R) -> Nat \X Payloads]
  BY <1>1 DEF Contents, AuditRow
<1> QED
  BY <1>2, <1>3, FunctionIsSeq

\* The first k rows, as IsPrefix and SubSeq say it.
LEMMA FirstRows ==
    ASSUME NEW w, Written(w), NEW R, Ordered(R), \A r \in R : RowOf(w, r),
           NEW k \in 0..Cardinality(R)
    PROVE  IsPrefix(SubSeq(Contents(R), 1, k), w) <=>
               \A i \in 1..k : ~BreaksAt(R, InChainOrder(R)[i])
<1>1. Cardinality(R) \in Nat /\ Contents(R) \in Seq(Nat \X Payloads) /\ Len(Contents(R)) = Cardinality(R)
  BY InOrder, ContentsType
<1> DEFINE C == Contents(R)
           s == SubSeq(C, 1, k)
<1> HIDE DEF C
<1>2. C \in Seq(Nat \X Payloads) /\ Len(C) = Cardinality(R) /\ k \in Nat /\ k \in Int
  BY <1>1 DEF C
<1>3. \A i \in 1..k : C[i] \in Nat \X Payloads
  BY <1>1, <1>2, ElementOfSeq
<1>4. s \in Seq(Nat \X Payloads) /\ Len(s) = k /\ \A i \in 1..k : s[i] = C[i]
  BY <1>2, <1>3, SubSeqProperties
<1> HIDE DEF s
<1>5. w \in Seq(Nat \X Payloads)
  BY DEF Written
<1>6. IsPrefix(s, w) <=> Len(s) <= Len(w) /\ \A i \in 1..Len(s) : s[i] = w[i]
  BY <1>4, <1>5, PrefixIs
<1>7. IsPrefix(s, w) <=> k <= Len(w) /\ \A i \in 1..k : C[i] = w[i]
  BY <1>4, <1>6
<1>8. (\A i \in 1..k : ~BreaksAt(R, InChainOrder(R)[i])) <=>
          k <= Len(w) /\ \A i \in 1..k : C[i] = w[i]
  BY UpTo DEF C
<1> QED
  BY <1>7, <1>8 DEF C, s

LEMMA VerdictExact ==
    ASSUME NEW w, Written(w), NEW R, Ordered(R), \A r \in R : RowOf(w, r)
    PROVE  verify_chain(R) <=> IsPrefix(Contents(R), w)
<1>1. Cardinality(R) \in Nat /\ Contents(R) \in Seq(Nat \X Payloads) /\ Len(Contents(R)) = Cardinality(R)
  BY InOrder, ContentsType
<1>2. verify_chain(R) <=> \A i \in 1..Cardinality(R) : ~BreaksAt(R, InChainOrder(R)[i])
  BY InOrder DEF verify_chain
<1>3. IsPrefix(Contents(R), w) <=>
          Cardinality(R) <= Len(w) /\ \A i \in 1..Cardinality(R) : Contents(R)[i] = w[i]
  BY <1>1, PrefixIs DEF Written
<1>4. Cardinality(R) \in 0..Cardinality(R)
  BY <1>1
<1> QED
  BY <1>2, <1>3, <1>4, UpTo

LEMMA FirstBrokenExact ==
    ASSUME NEW w, Written(w), NEW R, Ordered(R), \A r \in R : RowOf(w, r), ~verify_chain(R)
    PROVE  LET i == FirstBrokenIndex(R)
           IN  /\ i \in 0..(Len(Contents(R)) - 1)
               /\ IsPrefix(SubSeq(Contents(R), 1, i), w)
               /\ ~IsPrefix(SubSeq(Contents(R), 1, i + 1), w)
<1> DEFINE broken == {r \in R : BreaksAt(R, r)}
           first  == CHOOSE r \in broken : \A q \in broken : r.sequence_no <= q.sequence_no
           K == {r.sequence_no : r \in broken}
<1>1. broken # {} /\ broken \subseteq R /\ \A r \in R : r.sequence_no \in Nat
  BY DEF verify_chain, Ordered
<1>2. K \subseteq Nat /\ K # {}
  BY <1>1
<1>3. PICK m \in K : \A k \in K : m <= k
  BY <1>2, LeastElement
<1>4. \E r \in broken : \A q \in broken : r.sequence_no <= q.sequence_no
  BY <1>3
<1>5. first \in broken /\ \A q \in broken : first.sequence_no <= q.sequence_no
  BY <1>4
<1>6. FirstBrokenIndex(R) = Before(R, first)
  BY DEF FirstBrokenIndex, Before
<1> HIDE DEF broken, first, K
<1> DEFINE i == Before(R, first)
<1>7. first \in R /\ BreaksAt(R, first)
  BY <1>5 DEF broken
<1>8. /\ i \in 0..(Cardinality(R) - 1) /\ Cardinality(R) \in Nat
      /\ InChainOrder(R)[i + 1] = first
  BY <1>7, BeforeType, InOrder
<1>9. ASSUME NEW j \in 1..i PROVE ~BreaksAt(R, InChainOrder(R)[j])
  <2> DEFINE r == InChainOrder(R)[j]
  <2>1. r \in R /\ Before(R, r) = j - 1
    BY <1>8, InOrder
  <2> HIDE DEF r
  <2>2. Before(R, r) < Before(R, first)
    BY <1>8, <2>1
  <2>3. r.sequence_no < first.sequence_no
    BY <1>7, <2>1, <2>2, BeforeOrders
  <2>4. r \notin broken
    BY <1>1, <1>5, <1>7, <2>1, <2>3
  <2> QED
    BY <2>1, <2>4 DEF broken, r
<1> HIDE DEF i
<1>10. i \in 0..Cardinality(R) /\ i + 1 \in 0..Cardinality(R) /\ i + 1 \in 1..(i + 1)
  BY <1>8
<1>11. IsPrefix(SubSeq(Contents(R), 1, i), w)
  BY <1>9, <1>10, FirstRows
<1>12. ~IsPrefix(SubSeq(Contents(R), 1, i + 1), w)
  BY <1>7, <1>8, <1>10, FirstRows
<1> QED
  BY <1>6, <1>8, <1>11, <1>12, ContentsType DEF i

-----------------------------------------------------------------------------
\* The inductive invariant.

\* Whatever is done to the table, its rows are ordered and keep their hashes;
\* as long as nothing is, they are all there, in the order they were written.
TableInv ==
    /\ Written(written) /\ changes \in Nat
    /\ Ordered(rows) /\ \A r \in rows : RowOf(written, r)
    /\ changes = 0 => /\ \A r \in rows : r.sequence_no = r.event_id
                      /\ \A e \in 1..Len(written) : \E r \in rows : r.event_id = e

ReportInv ==
    Reported => /\ report.checked \subseteq rows
                /\ report.ok <=> verify_chain(report.checked)
                /\ ~report.ok => report.first_broken_index = FirstBrokenIndex(report.checked)

PackInv == pack # NoReport => pack.events \subseteq rows /\ verify_chain(pack.events)

IInv == TableInv /\ ReportInv /\ PackInv

\* The head of an untouched chain.
LEMMA HeadIs ==
    ASSUME TableInv, changes = 0
    PROVE  Head_.sequence_no = Len(written) /\ Head_.hash = Chained(written, Len(written))
<1>1. Len(written) \in Nat
  BY LenProperties DEF TableInv, Written
<1>2. CASE rows = {}
  <2>1. Len(written) = 0
    <3> SUFFICES ASSUME Len(written) # 0 PROVE FALSE
      OBVIOUS
    <3>1. Len(written) \in 1..Len(written)
      BY <1>1
    <3> QED
      BY <1>2, <3>1 DEF TableInv
  <2>2. Chained(written, 0) = GENESIS_PREV_HASH
    BY <1>1, ChainedApart DEF TableInv
  <2> QED
    BY <1>2, <2>1, <2>2 DEF Head_
<1>3. CASE rows # {}
  <2>1. \A r \in rows : r.sequence_no = r.event_id /\ r.event_id \in 1..Len(written)
                        /\ r.hash = Chained(written, r.event_id)
    BY DEF TableInv, RowOf
  <2>2. Len(written) \in 1..Len(written)
    BY <1>1, <1>3, <2>1
  <2>3. PICK h \in rows : h.event_id = Len(written)
    BY <2>2 DEF TableInv
  <2>4. \A q \in rows : q.sequence_no <= h.sequence_no
    BY <1>1, <2>1, <2>3
  <2>5. \A r \in rows : (\A q \in rows : q.sequence_no <= r.sequence_no) => r = h
    BY <1>1, <2>1, <2>3 DEF TableInv, Ordered
  <2>6. Latest(rows) = h
    BY <2>4, <2>5 DEF Latest
  <2> QED
    BY <1>3, <2>1, <2>3, <2>6 DEF Head_
<1> QED
  BY <1>2, <1>3

\* The rows written before keep their hashes when another one is.
LEMMA AppendWritten ==
    ASSUME NEW w, Written(w), NEW p \in Payloads
    PROVE  LET x == Append(w, <<Len(w) + 1, p>>)
           IN  /\ Written(x) /\ Len(x) = Len(w) + 1 /\ Len(w) \in Nat
               /\ x[Len(w) + 1] = <<Len(w) + 1, p>>
               /\ \A i \in 1..Len(w) : x[i] = w[i]
<1> DEFINE x == Append(w, <<Len(w) + 1, p>>)
<1>1. w \in Seq(Nat \X Payloads) /\ Len(w) \in Nat
  BY LenProperties DEF Written
<1>2. <<Len(w) + 1, p>> \in Nat \X Payloads
  BY <1>1
<1>3. /\ x \in Seq(Nat \X Payloads) /\ Len(x) = Len(w) + 1
      /\ x[Len(w) + 1] = <<Len(w) + 1, p>> /\ \A i \in 1..Len(w) : x[i] = w[i]
  BY <1>1, <1>2
<1>4. Written(x)
  <2> SUFFICES ASSUME NEW i \in 1..Len(x) PROVE x[i][1] = i
    BY <1>3 DEF Written
  <2>1. i \in 1..Len(w) \/ i = Len(w) + 1
    BY <1>1, <1>3
  <2> QED
    BY <1>3, <2>1 DEF Written
<1> QED
  BY <1>1, <1>3, <1>4

LEMMA ChainedGrows ==
    ASSUME NEW w, NEW x, Len(w) \in Nat, Len(x) = Len(w) + 1, \A i \in 1..Len(w) : x[i] = w[i]
    PROVE  /\ \A i \in 0..Len(w) : Chained(x, i) = Chained(w, i)
           /\ \A r : RowOf(w, r) => RowOf(x, r)
<1>1. \A i \in 0..Len(w) : Chained(x, i) = Chained(w, i)
  <2> TAKE i \in 0..Len(w)
  <2>1. \A k \in 1..i : x[k] = w[k]
    OBVIOUS
  <2> QED
    BY <2>1 DEF Chained
<1>2. ASSUME NEW r, RowOf(w, r) PROVE RowOf(x, r)
  <2>1. r.event_id \in 1..Len(x) /\ r.event_id - 1 \in 0..Len(w) /\ r.event_id \in 0..Len(w)
    BY <1>2 DEF RowOf
  <2> QED
    BY <1>1, <1>2, <2>1 DEF RowOf
<1> QED
  BY <1>1, <1>2

LEMMA InitInvariant == Init => IInv
<1> SUFFICES ASSUME Init PROVE IInv
  OBVIOUS
<1>1. Written(written) /\ Len(written) = 0
  BY DEF Init, Written
<1>2. Ordered(rows)
  BY FS_EmptySet DEF Init, Ordered
<1> QED
  BY <1>1, <1>2 DEF Init, IInv, TableInv, ReportInv, PackInv, Reported

LEMMA AppendStep ==
    ASSUME IInv, NEW p \in Payloads, NEW t \in Times, Append_many(p, t) PROVE IInv'
<1> USE DEF IInv
<1> DEFINE n == Len(written)
           r == [event_id |-> n + 1, sequence_no |-> Head_.sequence_no + 1, occurred_at |-> t,
                 payload |-> p, prev_hash |-> Head_.hash, hash |-> compute_hash(Head_.hash, p)]
<1>1. /\ changes = 0 /\ changes' = changes /\ rows' = rows \cup {r}
      /\ written' = Append(written, <<n + 1, p>>) /\ report' = NoReport /\ pack' = NoReport
  BY DEF Append_many, NewTable
<1>2. Head_.sequence_no = n /\ Head_.hash = Chained(written, n)
  BY <1>1, HeadIs
<1>3. /\ Written(written') /\ Len(written') = n + 1 /\ n \in Nat
      /\ written'[n + 1] = <<n + 1, p>>
      /\ \A i \in 0..n : Chained(written', i) = Chained(written, i)
      /\ \A q \in rows : RowOf(written', q)
  <2>1. Written(written) /\ \A q \in rows : RowOf(written, q)
    BY DEF TableInv
  <2>2. written' = Append(written, <<Len(written) + 1, p>>)
    BY <1>1
  <2>3. /\ Written(written') /\ Len(written') = Len(written) + 1 /\ Len(written) \in Nat
        /\ written'[Len(written) + 1] = <<Len(written) + 1, p>>
        /\ \A i \in 1..Len(written) : written'[i] = written[i]
    BY <2>1, <2>2, AppendWritten
  <2>4. /\ \A i \in 0..Len(written) : Chained(written', i) = Chained(written, i)
        /\ \A q : RowOf(written, q) => RowOf(written', q)
    BY <2>3, ChainedGrows
  <2> QED
    BY <2>1, <2>3, <2>4
<1>4. /\ r.event_id = n + 1 /\ r.sequence_no = n + 1 /\ r.payload = p
      /\ r.prev_hash = Chained(written', n) /\ r.hash = compute_hash(Chained(written', n), p)
  BY <1>2, <1>3
<1>5. r.hash = Chained(written', n + 1)
  <2>1. n + 1 \in 1..Len(written') /\ (n + 1) - 1 = n /\ written'[n + 1][2] = p
    BY <1>3
  <2> QED
    BY <1>3, <1>4, <2>1, ChainedStep
<1>6. RowOf(written', r)
  <2>1. Chained(written', n) \in Seq(Payloads) /\ Chained(written', n + 1) \in Seq(Payloads)
    BY <1>3, ChainedType
  <2>2. r \in AuditRow
    BY <1>2, <1>3, <1>4, <1>5, <2>1 DEF AuditRow
  <2>3. n + 1 \in 1..Len(written') /\ (n + 1) - 1 = n
    BY <1>3
  <2> QED
    BY <1>4, <1>5, <2>2, <2>3 DEF RowOf
<1> HIDE DEF r
<1>7. \A q \in rows : q.sequence_no \in Nat /\ q.sequence_no = q.event_id /\ q.event_id \in 1..n
  BY <1>1 DEF TableInv, RowOf, Ordered
<1>8. Ordered(rows')
  <2>1. IsFiniteSet(rows')
    BY <1>1, FS_AddElement DEF TableInv, Ordered
  <2>2. \A q \in rows : q.sequence_no # r.sequence_no
    BY <1>3, <1>4, <1>7
  <2> QED
    BY <1>1, <1>3, <1>4, <2>1, <2>2 DEF TableInv, Ordered
<1>9. \A e \in 1..(n + 1) : \E q \in rows' : q.event_id = e
  <2> TAKE e \in 1..(n + 1)
  <2>1. e \in 1..n \/ e = n + 1
    BY <1>3
  <2> QED
    BY <1>1, <1>4, <2>1 DEF TableInv
<1>10. TableInv'
  BY <1>1, <1>3, <1>4, <1>6, <1>7, <1>8, <1>9 DEF TableInv
<1> QED
  BY <1>1, <1>10 DEF ReportInv, PackInv, Reported

\* The table is changed: rows of the same hashes with distinct numbers remain.
LEMMA ChangeStep ==
    ASSUME IInv, NEW newRows, Change(newRows), Ordered(newRows),
           \A r \in newRows : RowOf(written, r)
    PROVE  IInv'
<1>1. /\ rows' = newRows /\ changes' = changes + 1 /\ written' = written
      /\ report' = NoReport /\ pack' = NoReport
  BY DEF Change, NewTable
<1>2. changes' \in Nat /\ changes' # 0
  BY <1>1 DEF IInv, TableInv
<1> QED
  BY <1>1, <1>2 DEF IInv, TableInv, ReportInv, PackInv, Reported

\* A row whose payload or place is another one keeps its hashes.
LEMMA ChangedRow ==
    ASSUME NEW w, NEW r, RowOf(w, r)
    PROVE  /\ \A p \in Payloads : RowOf(w, [r EXCEPT !.payload = p])
                                  /\ [r EXCEPT !.payload = p].sequence_no = r.sequence_no
           /\ \A n \in Nat : RowOf(w, [r EXCEPT !.sequence_no = n])
                             /\ [r EXCEPT !.sequence_no = n].sequence_no = n
BY DEF RowOf, AuditRow

LEMMA AlterStep ==
    ASSUME IInv, NEW r \in rows, NEW p \in Payloads, AlterPayload(r, p) PROVE IInv'
<1> DEFINE q == [r EXCEPT !.payload = p]
           new == (rows \ {r}) \cup {q}
<1>1. RowOf(written, q) /\ q.sequence_no = r.sequence_no
  BY ChangedRow DEF IInv, TableInv
<1>2. Change(new)
  BY DEF AlterPayload
<1> HIDE DEF q
<1>3. IsFiniteSet(new)
  BY FS_RemoveElement, FS_AddElement DEF IInv, TableInv, Ordered
<1>4. Ordered(new)
  BY <1>1, <1>3 DEF IInv, TableInv, Ordered
<1>5. \A x \in new : RowOf(written, x)
  BY <1>1 DEF IInv, TableInv
<1> QED
  BY <1>2, <1>4, <1>5, ChangeStep

LEMMA RemoveStep == ASSUME IInv, NEW r \in rows, RemoveRow(r) PROVE IInv'
<1>1. Change(rows \ {r}) /\ IsFiniteSet(rows \ {r})
  BY FS_RemoveElement DEF RemoveRow, IInv, TableInv, Ordered
<1>2. Ordered(rows \ {r}) /\ \A x \in rows \ {r} : RowOf(written, x)
  BY <1>1 DEF IInv, TableInv, Ordered
<1> QED
  BY <1>1, <1>2, ChangeStep

LEMMA ExchangeStep == ASSUME IInv, NEW r \in rows, NEW q \in rows, ExchangeRows(r, q) PROVE IInv'
<1> DEFINE a == [r EXCEPT !.sequence_no = q.sequence_no]
           b == [q EXCEPT !.sequence_no = r.sequence_no]
           new == (rows \ {r, q}) \cup {a, b}
<1>1. r # q /\ Change(new)
  BY DEF ExchangeRows
<1>2. r.sequence_no \in Nat /\ q.sequence_no \in Nat /\ r.sequence_no # q.sequence_no
  BY <1>1 DEF IInv, TableInv, Ordered
<1>3. /\ RowOf(written, a) /\ a.sequence_no = q.sequence_no
      /\ RowOf(written, b) /\ b.sequence_no = r.sequence_no
  BY <1>2, ChangedRow DEF IInv, TableInv
<1> HIDE DEF a, b
<1>4. IsFiniteSet(new)
  <2>1. IsFiniteSet(rows \ {r, q})
    BY FS_Difference DEF IInv, TableInv, Ordered
  <2>2. new = ((rows \ {r, q}) \cup {a}) \cup {b}
    OBVIOUS
  <2> QED
    BY <2>1, <2>2, FS_AddElement
<1>5. Ordered(new)
  <2>1. \A x \in rows \ {r, q} : x.sequence_no \in Nat /\ x.sequence_no # r.sequence_no
                                 /\ x.sequence_no # q.sequence_no
    BY DEF IInv, TableInv, Ordered
  <2>2. \A x, y \in rows \ {r, q} : x.sequence_no = y.sequence_no => x = y
    BY DEF IInv, TableInv, Ordered
  <2>3. \A x, y \in new : x.sequence_no = y.sequence_no => x = y
    BY <1>2, <1>3, <2>1, <2>2
  <2>4. \A x \in new : x.sequence_no \in Nat
    BY <1>2, <1>3, <2>1
  <2> QED
    BY <1>4, <2>3, <2>4 DEF Ordered
<1>6. \A x \in new : RowOf(written, x)
  BY <1>3 DEF IInv, TableInv
<1> QED
  BY <1>1, <1>5, <1>6, ChangeStep

LEMMA VerifyStep ==
    ASSUME IInv, NEW start, NEW end, NEW limit, Verify(start, end, limit) PROVE IInv'
<1>1. UNCHANGED <<rows, written, changes, pack>>
  BY DEF Verify
<1>2. iter_tenant(start, end, limit) \subseteq rows
  BY DEF iter_tenant, InWindow
<1>3. /\ report'.checked = iter_tenant(start, end, limit)
      /\ report'.ok = verify_chain(iter_tenant(start, end, limit))
      /\ ~report'.ok => report'.first_broken_index = FirstBrokenIndex(iter_tenant(start, end, limit))
  BY DEF Verify
<1>4. ReportInv'
  BY <1>1, <1>2, <1>3 DEF ReportInv
<1> QED
  BY <1>1, <1>4 DEF IInv, TableInv, PackInv

LEMMA PackStep ==
    ASSUME IInv, NEW start, NEW end, GeneratePack(start, end) PROVE IInv'
<1>1. UNCHANGED <<rows, written, changes, report>> /\ verify_chain(InWindow(start, end))
  BY DEF GeneratePack
<1>2. InWindow(start, end) \subseteq rows /\ pack'.events = InWindow(start, end)
  BY DEF GeneratePack, InWindow
<1> QED
  BY <1>1, <1>2 DEF IInv, TableInv, ReportInv, Reported, PackInv

LEMMA StepInvariant == IInv /\ [Next]_vars => IInv'
<1> SUFFICES ASSUME IInv, [Next]_vars PROVE IInv'
  OBVIOUS
<1>1. CASE UNCHANGED vars
  BY <1>1 DEF vars, IInv, TableInv, ReportInv, Reported, PackInv
<1>2. ASSUME NEW p \in Payloads, NEW t \in Times, Append_many(p, t) PROVE IInv'
  BY <1>2, AppendStep
<1>3. ASSUME NEW r \in rows,
             \/ \E p \in Payloads : AlterPayload(r, p)
             \/ RemoveRow(r)
             \/ \E q \in rows : ExchangeRows(r, q)
      PROVE  IInv'
  BY <1>3, AlterStep, RemoveStep, ExchangeStep
<1>4. ASSUME NEW start, NEW end, NEW limit, Verify(start, end, limit) PROVE IInv'
  BY <1>4, VerifyStep
<1>5. ASSUME NEW start, NEW end, GeneratePack(start, end) PROVE IInv'
  BY <1>5, PackStep
<1> QED
  BY <1>1, <1>2, <1>3, <1>4, <1>5 DEF Next

LEMMA Invariant == Spec => []IInv
BY InitInvariant, StepInvariant, PTL DEF Spec

\* Rows that are read are ordered and have the hashes they were written with.
LEMMA ReadRows ==
    ASSUME TableInv, NEW R, R \subseteq rows
    PROVE  Written(written) /\ Ordered(R) /\ \A r \in R : RowOf(written, r)
<1>1. IsFiniteSet(R)
  BY FS_Subset DEF TableInv, Ordered
<1> QED
  BY <1>1 DEF TableInv, Ordered

-----------------------------------------------------------------------------
\* The theorems.

\* Whatever window is read, and whatever was altered, removed or exchanged before,
\* the verifier (chain.py, verify_chain) answers "ok" exactly when the rows it has
\* read are the first ones as they were written.
THEOREM VerdictIsExact ==
    Spec => [](Reported => (report.ok <=> IsPrefix(Contents(report.checked), written)))
<1>1. IInv => (Reported => (report.ok <=> IsPrefix(Contents(report.checked), written)))
  BY ReadRows, VerdictExact DEF IInv, ReportInv
<1> QED
  BY <1>1, Invariant, PTL

\* On an untouched ledger that is a question of the window alone
\* (routes.py, verify_ledger).
THEOREM UntouchedVerdictIsPrefix == Spec => []UntouchedVerdict
<1>1. (Reported => (report.ok <=> IsPrefix(Contents(report.checked), written))) => UntouchedVerdict
  BY DEF UntouchedVerdict
<1> QED
  BY <1>1, VerdictIsExact, PTL

\* Read as a whole, a ledger is accepted exactly when what is left of it are its
\* first rows (chain.py: tampering breaks the chain).
THEOREM FullVerdictIsPrefix == Spec => []FullVerdict
<1>1. (Reported => (report.ok <=> IsPrefix(Contents(report.checked), written))) => FullVerdict
  BY DEF FullVerdict
<1> QED
  BY <1>1, VerdictIsExact, PTL

\* first_broken_index (chain.py, verify_chain) is where the rows read first differ
\* from the rows written.
THEOREM BrokenIndexIsExact == Spec => []BrokenIndexExact
<1>1. IInv => BrokenIndexExact
  <2> SUFFICES ASSUME IInv, Reported, ~report.ok
               PROVE  LET found == Contents(report.checked)
                          i     == report.first_broken_index
                      IN  /\ i \in 0 .. (Len(found) - 1)
                          /\ IsPrefix(SubSeq(found, 1, i), written)
                          /\ ~IsPrefix(SubSeq(found, 1, i + 1), written)
    BY DEF BrokenIndexExact
  <2>1. /\ ~verify_chain(report.checked) /\ report.checked \subseteq rows
        /\ report.first_broken_index = FirstBrokenIndex(report.checked)
    BY DEF IInv, ReportInv
  <2>2. /\ Written(written) /\ Ordered(report.checked)
        /\ \A r \in report.checked : RowOf(written, r)
    BY <2>1, ReadRows DEF IInv
  <2> QED
    BY <2>1, <2>2, FirstBrokenExact
<1> QED
  BY <1>1, Invariant, PTL

\* packs/base.py: a pack is refused unless its events verify, so that it holds the
\* first events of the tenant as they were written, and no other.
THEOREM PacksAreEvidence == Spec => []PackIsEvidence
<1>1. IInv => PackIsEvidence
  BY ReadRows, VerdictExact DEF IInv, PackInv, PackIsEvidence
<1> QED
  BY <1>1, Invariant, PTL
=============================================================================
