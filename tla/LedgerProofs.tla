---------------------------- MODULE LedgerProofs ----------------------------
(***************************************************************************)
(* Theorems about Ledger for any tenants, workers, batches and payloads.   *)
(***************************************************************************)
EXTENDS Ledger, SequenceTheorems, WellFoundedInduction, TLAPS

-----------------------------------------------------------------------------
\* A non-empty set of rows with bounded sequence numbers has a latest row:
\* the query ORDER BY sequence_no DESC LIMIT 1 of store.py returns it.
LEMMA LatestExists ==
    ASSUME NEW R, R # {}, \A r \in R : r.sequence_no \in Nat,
           NEW n \in Nat, \A r \in R : r.sequence_no <= n
    PROVE  /\ Latest(R) \in R
           /\ \A q \in R : q.sequence_no <= Latest(R).sequence_no
<1> DEFINE U == {u \in Nat : \A r \in R : r.sequence_no <= u}
<1>1. U \subseteq Nat /\ U # {}
  OBVIOUS
<1>2. PICK m \in U : \A u \in U : ~(<<u, m>> \in OpToRel(<, Nat))
  BY <1>1, WFMin, NatLessThanWellFounded
<1>3. \A u \in U : ~(u < m)
  BY <1>2 DEF OpToRel
<1>4. \E r \in R : r.sequence_no = m
  <2> SUFFICES ASSUME \A r \in R : r.sequence_no # m
               PROVE  FALSE
    OBVIOUS
  <2>1. \A r \in R : r.sequence_no < m
    OBVIOUS
  <2>2. m - 1 \in U
    BY <2>1
  <2> QED
    BY <2>2, <1>3
<1>5. \E r \in R : \A q \in R : q.sequence_no <= r.sequence_no
  BY <1>4
<1> QED
  BY <1>5 DEF Latest

\* When one row is above all others it is the latest.
LEMMA LatestIs ==
    ASSUME NEW R, NEW m \in R, \A r \in R : r.sequence_no \in Nat,
           \A q \in R : q # m => q.sequence_no < m.sequence_no
    PROVE  Latest(R) = m
<1>1. \A q \in R : q.sequence_no <= m.sequence_no
  OBVIOUS
<1>2. \A r \in R : (\A q \in R : q.sequence_no <= r.sequence_no) => r = m
  OBVIOUS
<1> QED
  BY <1>1, <1>2 DEF Latest

-----------------------------------------------------------------------------
LEMMA IntervalsEqual ==
    ASSUME NEW m \in Nat, NEW n \in Nat, 1..m = 1..n PROVE m = n
<1> SUFFICES ASSUME m < n \/ n < m PROVE FALSE
  OBVIOUS
<1> QED
  BY n \in 1..n <=> n \in 1..m, m \in 1..n <=> m \in 1..m

LEMMA FunctionIsSeq ==
    ASSUME NEW S, NEW n \in Nat, NEW s \in [1..n -> S]
    PROVE  s \in Seq(S) /\ Len(s) = n
<1>1. s \in Seq(S)
  BY SeqDef
<1>2. 1..Len(s) = 1..n /\ Len(s) \in Nat
  BY <1>1, LenProperties
<1> QED
  BY <1>1, <1>2, IntervalsEqual

\* The payloads of a batch.
LEMMA PayloadsOfBatch ==
    ASSUME NEW b \in Batches
    PROVE  /\ b \in Seq(Events) /\ Len(b) \in Nat \ {0} /\ DOMAIN b = 1..Len(b)
           /\ \A i \in 1..Len(b) : b[i] \in Events
           /\ PayloadsOf(b) \in Seq(Payloads)
           /\ Len(PayloadsOf(b)) = Len(b)
           /\ \A i \in 1..Len(b) : PayloadsOf(b)[i] = PayloadOf[b[i]]
<1>1. b \in Seq(Events) /\ b # <<>>
  BY LedgerAssumption
<1>2. Len(b) \in Nat \ {0} /\ DOMAIN b = 1..Len(b)
  BY <1>1, EmptySeq, LenProperties
<1>3. \A i \in 1..Len(b) : b[i] \in Events
  BY <1>1, ElementOfSeq
<1>4. \A i \in 1..Len(b) : PayloadOf[b[i]] \in Payloads
  BY <1>3, LedgerAssumption
<1>5. PayloadsOf(b) = [i \in 1..Len(b) |-> PayloadOf[b[i]]]
  BY <1>2 DEF PayloadsOf
<1>6. PayloadsOf(b) \in Seq(Payloads)
  BY <1>2, <1>4, <1>5
<1>7. DOMAIN PayloadsOf(b) = 1..Len(PayloadsOf(b)) /\ Len(PayloadsOf(b)) \in Nat
  BY <1>6, LenProperties
<1>8. 1..Len(PayloadsOf(b)) = 1..Len(b)
  BY <1>5, <1>7
<1>9. Len(PayloadsOf(b)) = Len(b)
  BY <1>2, <1>7, <1>8, IntervalsEqual
<1> QED
  BY <1>1, <1>2, <1>3, <1>5, <1>6, <1>9

\* append_many's loop: ChainedHash starts at prev_hash, and one more payload
\* is one more compute_hash.
LEMMA ChainedHashStep ==
    ASSUME NEW b \in Batches, NEW prev \in Hash
    PROVE  /\ ChainedHash(prev, PayloadsOf(b), 0) = prev
           /\ \A i \in 0..Len(b) :
                /\ ChainedHash(prev, PayloadsOf(b), i) \in Hash
                /\ Len(ChainedHash(prev, PayloadsOf(b), i)) = Len(prev) + i
           /\ \A i \in 1..Len(b) :
                ChainedHash(prev, PayloadsOf(b), i) =
                    compute_hash(ChainedHash(prev, PayloadsOf(b), i - 1), PayloadOf[b[i]])
<1> DEFINE ps == PayloadsOf(b)
<1>1. /\ ps \in Seq(Payloads) /\ Len(ps) = Len(b) /\ Len(b) \in Nat
      /\ \A i \in 1..Len(b) : ps[i] = PayloadOf[b[i]] /\ ps[i] \in Payloads
  BY PayloadsOfBatch, LedgerAssumption
<1> HIDE DEF ps
<1>2. prev \in Seq(Payloads) /\ Len(prev) \in Nat
  BY LenProperties DEF Hash
<1>3. ASSUME NEW i \in 0..Len(b)
      PROVE  /\ SubSeq(ps, 1, i) \in Seq(Payloads)
             /\ Len(SubSeq(ps, 1, i)) = i
  <2>1. \A k \in 1..i : ps[k] \in Payloads
    BY <1>1
  <2>2. /\ SubSeq(ps, 1, i) \in Seq(Payloads)
        /\ Len(SubSeq(ps, 1, i)) = IF 1 <= i THEN i - 1 + 1 ELSE 0
    BY <2>1, SubSeqProperties
  <2> QED
    BY <2>2
<1>4. ChainedHash(prev, ps, 0) = prev
  <2>1. SubSeq(ps, 1, 0) = <<>>
    BY SubSeqEmpty
  <2> QED
    BY <2>1, <1>2, ConcatEmptySeq DEF ChainedHash
<1>5. ASSUME NEW i \in 0..Len(b)
      PROVE  /\ ChainedHash(prev, ps, i) \in Hash
             /\ Len(ChainedHash(prev, ps, i)) = Len(prev) + i
  BY <1>2, <1>3, ConcatProperties DEF ChainedHash, Hash
<1>6. ASSUME NEW i \in 1..Len(b)
      PROVE  ChainedHash(prev, ps, i) =
                 compute_hash(ChainedHash(prev, ps, i - 1), PayloadOf[b[i]])
  <2>1. SubSeq(ps, 1, i) = SubSeq(ps, 1, i - 1) \o <<ps[i]>>
    <3>1. 1 \in 1..Len(ps) /\ i \in 1..Len(ps)
      BY <1>1
    <3> QED
      BY <1>1, <3>1, SubSeqRecursiveSecond
  <2>2. /\ SubSeq(ps, 1, i - 1) \in Seq(Payloads)
        /\ <<ps[i]>> \in Seq(Payloads)
        /\ ps[i] \in Payloads
    BY <1>1, <1>3
  <2>3. prev \o SubSeq(ps, 1, i) = (prev \o SubSeq(ps, 1, i - 1)) \o <<ps[i]>>
    <3>1. \A x, y, z \in Seq(Payloads) : (x \o y) \o z = x \o (y \o z)
      BY ConcatAssociative
    <3>2. (prev \o SubSeq(ps, 1, i - 1)) \o <<ps[i]>> = prev \o (SubSeq(ps, 1, i - 1) \o <<ps[i]>>)
      BY <3>1, <2>2, <1>2
    <3> QED
      BY <3>2, <2>1
  <2>4. prev \o SubSeq(ps, 1, i - 1) \in Seq(Payloads)
    BY <2>2, <1>2, ConcatProperties
  <2>5. Append(prev \o SubSeq(ps, 1, i - 1), ps[i]) = (prev \o SubSeq(ps, 1, i - 1)) \o <<ps[i]>>
    BY <2>2, <2>4, AppendIsConcat
  <2> QED
    BY <2>3, <2>5, <1>1 DEF ChainedHash, compute_hash
<1> QED
  BY <1>4, <1>5, <1>6 DEF ps

\* What a sealed row holds, field by field.
LEMMA SealedRowIs ==
    ASSUME NEW b \in Batches, NEW i \in 1..Len(b), NEW prev \in Hash, NEW seq \in Nat
    PROVE  LET r == SealedRow(b, i, prev, seq) IN
           /\ r \in Row
           /\ r.event_id = b[i]
           /\ r.tenant_id = TenantOf[b[i]]
           /\ r.sequence_no = seq + i
           /\ r.payload = Jsonb[PayloadOf[b[i]]]
           /\ r.prev_hash = ChainedHash(prev, PayloadsOf(b), i - 1)
           /\ r.hash = compute_hash(r.prev_hash, PayloadOf[b[i]])
           /\ r.hash = ChainedHash(prev, PayloadsOf(b), i)
           /\ Len(r.hash) = Len(prev) + i
<1>1. b[i] \in Events /\ Len(b) \in Nat /\ i - 1 \in 0..Len(b) /\ i \in 0..Len(b)
  BY PayloadsOfBatch
<1>2. /\ ChainedHash(prev, PayloadsOf(b), i - 1) \in Hash
      /\ ChainedHash(prev, PayloadsOf(b), i) \in Hash
      /\ Len(ChainedHash(prev, PayloadsOf(b), i)) = Len(prev) + i
      /\ ChainedHash(prev, PayloadsOf(b), i) =
             compute_hash(ChainedHash(prev, PayloadsOf(b), i - 1), PayloadOf[b[i]])
  BY <1>1, ChainedHashStep
<1>3. TenantOf[b[i]] \in Tenants /\ Jsonb[PayloadOf[b[i]]] \in Payloads /\ seq + i \in Nat
  BY <1>1, LedgerAssumption
<1> QED
  BY <1>1, <1>2, <1>3 DEF SealedRow, Row

-----------------------------------------------------------------------------
\* Type correctness.  The queries on the head of a chain return a row only
\* while the sequence numbers are bounded, so this is part of the invariant.

BoundedRows(R) == \E n \in Nat : \A r \in R : r.sequence_no <= n

TypeInv ==
    /\ TypeOK
    /\ BoundedRows(events)
    /\ \A w \in Workers : BoundedRows(pending[w])

LEMMA BoundedUnion ==
    ASSUME NEW R, NEW S, \A r \in R \cup S : r.sequence_no \in Nat,
           BoundedRows(R), BoundedRows(S)
    PROVE  BoundedRows(R \cup S)
<1>1. PICK m \in Nat : \A r \in R : r.sequence_no <= m
  BY DEF BoundedRows
<1>2. PICK n \in Nat : \A r \in S : r.sequence_no <= n
  BY DEF BoundedRows
<1>3. \A r \in R \cup S : r.sequence_no <= m + n
  BY <1>1, <1>2
<1> QED
  BY <1>3 DEF BoundedRows

\* What the two head queries return.
LEMMA HeadType ==
    ASSUME events \subseteq Row, BoundedRows(events), NEW t
    PROVE  fetch_head_hash(t) \in Hash /\ fetch_head_sequence(t) \in Nat
<1>1. CASE RowsOf(t) = {}
  <2>1. <<>> \in Seq(Payloads)
    BY EmptySeq
  <2> QED
    BY <1>1, <2>1 DEF fetch_head_hash, fetch_head_sequence, GENESIS_PREV_HASH, Hash
<1>2. CASE RowsOf(t) # {}
  <2>1. /\ \A r \in RowsOf(t) : r.sequence_no \in Nat
        /\ \E n \in Nat : \A r \in RowsOf(t) : r.sequence_no <= n
    BY DEF RowsOf, Row, BoundedRows
  <2>2. Latest(RowsOf(t)) \in RowsOf(t)
    BY <1>2, <2>1, LatestExists
  <2>3. Latest(RowsOf(t)) \in Row
    BY <2>2 DEF RowsOf
  <2> QED
    BY <1>2, <2>3 DEF fetch_head_hash, fetch_head_sequence, Row
<1> QED
  BY <1>1, <1>2

\* The rows of one INSERT.
LEMMA InsertedType ==
    ASSUME NEW b \in Batches, NEW prev \in Hash, NEW seq \in Nat
    PROVE  /\ Inserted(b, prev, seq) \subseteq Row
           /\ BoundedRows(Inserted(b, prev, seq))
<1>1. DOMAIN b = 1..Len(b) /\ Len(b) \in Nat
  BY PayloadsOfBatch
<1>2. \A r \in Inserted(b, prev, seq) : r \in Row /\ r.sequence_no <= seq + Len(b)
  <2> SUFFICES ASSUME NEW i \in 1..Len(b)
               PROVE  /\ SealedRow(b, i, prev, seq) \in Row
                      /\ SealedRow(b, i, prev, seq).sequence_no <= seq + Len(b)
    BY <1>1 DEF Inserted
  <2> QED
    BY <1>1, SealedRowIs
<1>3. seq + Len(b) \in Nat
  BY <1>1
<1> QED
  BY <1>2, <1>3 DEF BoundedRows

LEMMA TenantOfBatchType ==
    ASSUME NEW b \in Batches
    PROVE  TenantOfBatch(b) \in Tenants
<1>1. 1 \in 1..Len(b) /\ b[1] \in Events
  BY PayloadsOfBatch
<1> QED
  BY <1>1, LedgerAssumption DEF TenantOfBatch

\* The end of a transaction leaves the handlers' state well typed.
LEMMA EndTransactionType ==
    ASSUME TypeInv, NEW w \in Workers, EndTransaction(w)
    PROVE  /\ lock' \in [Tenants -> Workers \cup {NoWorker}]
           /\ pc' \in [Workers -> Phases]
           /\ batch' \in [Workers -> Batches \cup {<<>>}]
           /\ headHash' \in [Workers -> Hash]
           /\ headSeq' \in [Workers -> Nat]
           /\ pending' \in [Workers -> SUBSET Row]
           /\ \A v \in Workers : pc'[v] # "idle" => batch'[v] \in Batches
           /\ \A v \in Workers : BoundedRows(pending'[v])
<1>1. GENESIS_PREV_HASH \in Hash
  BY EmptySeq DEF GENESIS_PREV_HASH, Hash
<1>2. BoundedRows({})
  BY DEF BoundedRows
<1> QED
  BY <1>1, <1>2 DEF TypeInv, TypeOK, EndTransaction, Phases

LEMMA TypeInit == Init => TypeInv
<1> SUFFICES ASSUME Init PROVE TypeInv
  OBVIOUS
<1>1. GENESIS_PREV_HASH \in Hash
  BY EmptySeq DEF GENESIS_PREV_HASH, Hash
<1>2. TypeOK
  BY <1>1 DEF Init, TypeOK, Phases
<1>3. BoundedRows({})
  BY DEF BoundedRows
<1> QED
  BY <1>2, <1>3 DEF Init, TypeInv

LEMMA TypeStep == TypeInv /\ [Next]_vars => TypeInv'
<1> SUFFICES ASSUME TypeInv, [Next]_vars PROVE TypeInv'
  OBVIOUS
<1> USE DEF TypeInv
<1>1. ASSUME NEW w \in Workers, NEW t \in Tenants, NEW b \in Batches, Request(w, t, b)
      PROVE  TypeInv'
  BY <1>1 DEF Request, Goto, TypeOK, Phases
<1>2. ASSUME NEW w \in Workers, AcquireLock(w)
      PROVE  TypeInv'
  <2>1. TenantOfBatch(batch[w]) \in Tenants
    BY <1>2, TenantOfBatchType DEF AcquireLock, Goto, TypeOK
  <2> QED
    BY <1>2, <2>1 DEF AcquireLock, Goto, TypeOK, Phases
<1>3. ASSUME NEW w \in Workers, FetchHeadHash(w)
      PROVE  TypeInv'
  <2>1. fetch_head_hash(TenantOfBatch(batch[w])) \in Hash
    BY HeadType DEF TypeOK
  <2> QED
    BY <1>3, <2>1 DEF FetchHeadHash, Goto, TypeOK, Phases
<1>4. ASSUME NEW w \in Workers, FetchHeadSequence(w)
      PROVE  TypeInv'
  <2>1. fetch_head_sequence(TenantOfBatch(batch[w])) \in Nat
    BY HeadType DEF TypeOK
  <2> QED
    BY <1>4, <2>1 DEF FetchHeadSequence, Goto, TypeOK, Phases
<1>5. ASSUME NEW w \in Workers, InsertRows(w)
      PROVE  TypeInv'
  <2>1. batch[w] \in Batches /\ headHash[w] \in Hash /\ headSeq[w] \in Nat
    BY <1>5 DEF InsertRows, Goto, TypeOK
  <2>2. /\ Inserted(batch[w], headHash[w], headSeq[w]) \in SUBSET Row
        /\ BoundedRows(Inserted(batch[w], headHash[w], headSeq[w]))
    BY <2>1, InsertedType
  <2> QED
    BY <1>5, <2>2 DEF InsertRows, Goto, TypeOK, Phases
<1>6. ASSUME NEW w \in Workers, Reply(w)
      PROVE  TypeInv'
  BY <1>6 DEF Reply, Goto, TypeOK, Phases
<1>7. ASSUME NEW w \in Workers, Commit(w)
      PROVE  TypeInv'
  <2>1. events' \subseteq Row
    BY <1>7 DEF Commit, TypeOK
  <2>2. BoundedRows(events')
    <3>1. \A r \in events \cup pending[w] : r.sequence_no \in Nat
      BY DEF TypeOK, Row
    <3> QED
      BY <1>7, <3>1, BoundedUnion DEF Commit
  <2> QED
    BY <1>7, <2>1, <2>2, EndTransactionType DEF Commit, TypeOK
<1>8. ASSUME NEW w \in Workers, Abort(w)
      PROVE  TypeInv'
  BY <1>8, EndTransactionType DEF Abort, TypeOK
<1>9. CASE UNCHANGED vars
  BY <1>9 DEF vars, TypeOK
<1> QED
  BY <1>1, <1>2, <1>3, <1>4, <1>5, <1>6, <1>7, <1>8, <1>9 DEF Next, Step

\* Every state of the ledger is well typed, whatever batches are delivered:
\* the chain head is always defined and every row has the columns of its table.
THEOREM TypeCorrect == Spec => []TypeOK
<1>1. TypeInv => TypeOK
  BY DEF TypeInv
<1> QED
  BY TypeInit, TypeStep, <1>1, PTL DEF Spec
-----------------------------------------------------------------------------
\* The inductive invariant behind the safety properties.  It says what the
\* advisory lock buys: between the reads of a handler and its commit nobody
\* else extends the chain of its tenant, so what it read is still the head.

BatchTenant(w) ==
    pc[w] # "idle" =>
        \A i \in DOMAIN batch[w] : TenantOf[batch[w][i]] = TenantOfBatch(batch[w])

LockHeld(w) == pc[w] \in Holding => lock[TenantOfBatch(batch[w])] = w

HeadIsCurrent(w) ==
    LET t == TenantOfBatch(batch[w]) IN
    /\ pc[w] \in {"hashed", "sequenced", "inserted", "replied"} =>
           headHash[w] = fetch_head_hash(t)
    /\ pc[w] \in {"sequenced", "inserted", "replied"} =>
           headSeq[w] = fetch_head_sequence(t)
    /\ pc[w] \in {"inserted", "replied"} =>
           pending[w] = Inserted(batch[w], headHash[w], headSeq[w])

HandlerInv == \A w \in Workers : BatchTenant(w) /\ LockHeld(w) /\ HeadIsCurrent(w)

RowTenants == \A r \in events : r.tenant_id = TenantOf[r.event_id]

EventIdsUnique == \A r, q \in events : r.event_id = q.event_id => r = q

SequencesUnique ==
    \A r, q \in events :
        r.tenant_id = q.tenant_id /\ r.sequence_no = q.sequence_no => r = q

HashLengths == \A r \in events : Len(r.hash) = r.sequence_no

TableInv ==
    /\ RowTenants
    /\ EventIdsUnique
    /\ SequencesUnique
    /\ HashLengths
    /\ SequenceContiguous
    /\ BatchWhole

IInv == TypeInv /\ TableInv /\ HandlerInv

LEMMA HandlerInit == Init => TableInv /\ HandlerInv
<1> SUFFICES ASSUME Init PROVE TableInv /\ HandlerInv
  OBVIOUS
<1>1. HandlerInv
  BY DEF Init, HandlerInv, BatchTenant, LockHeld, HeadIsCurrent, Holding, Phases
<1>2. \A t : RowsOf(t) = {} /\ fetch_head_sequence(t) = 0
  BY DEF Init, RowsOf, fetch_head_sequence
<1>3. SequenceContiguous
  BY <1>2 DEF SequenceContiguous
<1> QED
  BY <1>1, <1>3 DEF Init, TableInv, RowTenants, EventIdsUnique, SequencesUnique,
                    HashLengths, BatchWhole

\* A chain whose sequence numbers are 1 .. n has n as the number of its head.
LEMMA LatestOfContiguous ==
    ASSUME NEW R, NEW n \in Nat, {r.sequence_no : r \in R} = 1..n
    PROVE  /\ \A r \in R : r.sequence_no \in 1..n
           /\ R = {} <=> n = 0
           /\ R # {} => Latest(R) \in R /\ Latest(R).sequence_no = n
<1>1. \A r \in R : r.sequence_no \in 1..n
  OBVIOUS
<1>2. \A k \in 1..n : \E r \in R : r.sequence_no = k
  OBVIOUS
<1>3. R = {} <=> n = 0
  <2>1. n # 0 => 1 \in 1..n
    OBVIOUS
  <2> QED
    BY <1>1, <1>2, <2>1
<1>4. ASSUME R # {} PROVE Latest(R) \in R /\ Latest(R).sequence_no = n
  <2>1. Latest(R) \in R /\ \A q \in R : q.sequence_no <= Latest(R).sequence_no
    BY <1>1, <1>4, LatestExists
  <2>2. \E r \in R : r.sequence_no = n
    BY <1>2, <1>3, <1>4
  <2> QED
    BY <1>1, <2>1, <2>2
<1> QED
  BY <1>1, <1>3, <1>4

\* The head of a tenant's chain, as the two queries of append_many see it.
LEMMA HeadOfChain ==
    ASSUME TypeInv, TableInv, NEW t \in Tenants
    PROVE  /\ fetch_head_sequence(t) \in Nat
           /\ {r.sequence_no : r \in RowsOf(t)} = 1..fetch_head_sequence(t)
           /\ \A r \in RowsOf(t) : r.sequence_no \in 1..fetch_head_sequence(t)
           /\ fetch_head_hash(t) \in Hash
           /\ Len(fetch_head_hash(t)) = fetch_head_sequence(t)
<1>1. fetch_head_sequence(t) \in Nat /\ fetch_head_hash(t) \in Hash
  BY HeadType DEF TypeInv, TypeOK
<1>2. {r.sequence_no : r \in RowsOf(t)} = 1..fetch_head_sequence(t)
  BY DEF TableInv, SequenceContiguous
<1>3. /\ \A r \in RowsOf(t) : r.sequence_no \in 1..fetch_head_sequence(t)
      /\ RowsOf(t) # {} => /\ Latest(RowsOf(t)) \in RowsOf(t)
                           /\ Latest(RowsOf(t)).sequence_no = fetch_head_sequence(t)
  BY <1>1, <1>2, LatestOfContiguous
<1>4. Len(fetch_head_hash(t)) = fetch_head_sequence(t)
  <2>1. CASE RowsOf(t) = {}
    <3>1. Len(<<>>) = 0
      OBVIOUS
    <3> QED
      BY <2>1, <3>1 DEF fetch_head_hash, fetch_head_sequence, GENESIS_PREV_HASH
  <2>2. CASE RowsOf(t) # {}
    <3>1. Latest(RowsOf(t)) \in events
      BY <1>3, <2>2 DEF RowsOf
    <3> QED
      BY <1>3, <2>2, <3>1 DEF fetch_head_hash, TableInv, HashLengths
  <2> QED
    BY <2>1, <2>2
<1> QED
  BY <1>1, <1>2, <1>3, <1>4

\* A delivery inserts all of its batch or, when it is a repetition, nothing.
LEMMA AllOrNothing ==
    ASSUME BatchesDisjoint, BatchWhole, NEW b \in Batches, NEW prev, NEW seq
    PROVE  \/ Inserted(b, prev, seq) = {}
           \/ /\ \A i \in 1..Len(b) : b[i] \notin StoredIds
              /\ Inserted(b, prev, seq) = {SealedRow(b, i, prev, seq) : i \in 1..Len(b)}
<1>1. DOMAIN b = 1..Len(b) /\ Len(b) \in Nat
  BY PayloadsOfBatch
<1>2. CASE \E i \in 1..Len(b) : b[i] \in StoredIds
  <2>1. \A j \in 1..Len(b) : b[j] \in StoredIds
    BY <1>1, <1>2 DEF BatchWhole, StoredIds
  <2> QED
    BY <1>1, <2>1 DEF Inserted
<1>3. CASE \A i \in 1..Len(b) : b[i] \notin StoredIds
  <2>1. \A j \in 1..Len(b) : \A k \in 1..(j-1) : b[k] # b[j]
    BY <1>1 DEF BatchesDisjoint
  <2>2. {j \in DOMAIN b : b[j] \notin StoredIds /\ \A k \in 1..(j-1) : b[k] # b[j]} = 1..Len(b)
    BY <1>1, <1>3, <2>1
  <2> QED
    BY <1>3, <2>2 DEF Inserted
<1> QED
  BY <1>2, <1>3

\* A step that leaves a handler, and the chain of its tenant, alone keeps
\* what the invariant says of that handler.
LEMMA OtherHandler ==
    ASSUME NEW v \in Workers, BatchTenant(v), LockHeld(v), HeadIsCurrent(v),
           pc'[v] = pc[v], batch'[v] = batch[v], headHash'[v] = headHash[v],
           headSeq'[v] = headSeq[v], pending'[v] = pending[v],
           pc[v] \in Holding =>
               /\ lock'[TenantOfBatch(batch[v])] = lock[TenantOfBatch(batch[v])]
               /\ events \subseteq events'
               /\ \A r \in events' \ events :
                      /\ r.tenant_id # TenantOfBatch(batch[v])
                      /\ TenantOf[r.event_id] # TenantOfBatch(batch[v])
    PROVE  BatchTenant(v)' /\ LockHeld(v)' /\ HeadIsCurrent(v)'
<1>1. BatchTenant(v)' /\ LockHeld(v)'
  BY DEF BatchTenant, LockHeld, TenantOfBatch
<1>2. CASE pc[v] \notin Holding
  <2>1. HeadIsCurrent(v)'
    BY <1>2 DEF HeadIsCurrent, Holding, Phases
  <2> QED
    BY <1>1, <2>1
<1>3. CASE pc[v] \in Holding
  <2>1. PICK t, b, h, n : t = TenantOfBatch(b) /\ b = batch[v] /\ h = headHash[v] /\ n = headSeq[v]
    OBVIOUS
  <2>2. RowsOf(t)' = RowsOf(t)
    BY <1>3, <2>1 DEF RowsOf
  <2>3. fetch_head_hash(t)' = fetch_head_hash(t) /\ fetch_head_sequence(t)' = fetch_head_sequence(t)
    BY <2>2 DEF fetch_head_hash, fetch_head_sequence
  <2>4. Inserted(b, h, n)' = Inserted(b, h, n)
    <3>1. \A j \in DOMAIN b : TenantOf[b[j]] = t
      BY <1>3, <2>1 DEF BatchTenant, Holding
    <3>2. \A j \in DOMAIN b : b[j] \in StoredIds' <=> b[j] \in StoredIds
      BY <1>3, <2>1, <3>1 DEF StoredIds
    <3>3. {j \in DOMAIN b : b[j] \notin StoredIds' /\ \A k \in 1..(j-1) : b[k] # b[j]}
        = {j \in DOMAIN b : b[j] \notin StoredIds /\ \A k \in 1..(j-1) : b[k] # b[j]}
      BY <3>2
    <3> QED
      BY <3>3 DEF Inserted
  <2>5. /\ batch'[v] = b /\ headHash'[v] = h /\ headSeq'[v] = n
        /\ TenantOfBatch(b) = t
    BY <2>1
  <2>6. HeadIsCurrent(v)'
    BY <2>1, <2>3, <2>4, <2>5 DEF HeadIsCurrent
  <2> QED
    BY <1>1, <2>6
<1> QED
  BY <1>2, <1>3

\* The rows a commit adds to the table: none, or the whole batch, sealed on
\* top of the current head of the chain of its tenant.
LEMMA CommittedRows ==
    ASSUME BatchesDisjoint, IInv, NEW w \in Workers, Commit(w)
    PROVE  \/ events' = events
           \/ \E b \in Batches, t \in Tenants :
                /\ \A i \in 1..Len(b) : TenantOf[b[i]] = t /\ b[i] \notin StoredIds
                /\ TenantOfBatch(batch[w]) = t
                /\ events' = events \cup
                     {SealedRow(b, i, fetch_head_hash(t), fetch_head_sequence(t)) : i \in 1..Len(b)}
<1>1. PICK b \in Batches : b = batch[w]
  BY DEF Commit, IInv, TypeInv, TypeOK
<1>2. PICK t \in Tenants : t = TenantOfBatch(b)
  BY TenantOfBatchType
<1>3. /\ events' = events \cup pending[w]
      /\ pending[w] = Inserted(b, fetch_head_hash(t), fetch_head_sequence(t))
      /\ \A i \in DOMAIN b : TenantOf[b[i]] = t
  BY <1>1, <1>2 DEF Commit, IInv, HandlerInv, HeadIsCurrent, BatchTenant
<1>4. DOMAIN b = 1..Len(b)
  BY PayloadsOfBatch
<1> QED
  BY <1>1, <1>2, <1>3, <1>4, AllOrNothing DEF IInv, TableInv

\* Sealing a whole new batch on top of the head keeps the table's invariant.
LEMMA SealTable ==
    ASSUME BatchesDisjoint, TypeInv, TableInv, NEW b \in Batches, NEW t \in Tenants,
           \A i \in 1..Len(b) : TenantOf[b[i]] = t /\ b[i] \notin StoredIds,
           events' = events \cup
               {SealedRow(b, i, fetch_head_hash(t), fetch_head_sequence(t)) : i \in 1..Len(b)}
    PROVE  /\ TableInv'
           /\ fetch_head_sequence(t)' = fetch_head_sequence(t) + Len(b)
<1>1. PICK n \in Nat : n = fetch_head_sequence(t)
  BY HeadOfChain
<1>2. PICK h \in Hash : h = fetch_head_hash(t) /\ Len(h) = n
  BY <1>1, HeadOfChain
<1> DEFINE New == {SealedRow(b, i, h, n) : i \in 1..Len(b)}
<1>3. events' = events \cup New
  BY <1>1, <1>2
<1>4. Len(b) \in Nat \ {0} /\ DOMAIN b = 1..Len(b)
  BY PayloadsOfBatch
<1>5. \A i \in 1..Len(b) : \E r \in New :
          r.event_id = b[i] /\ r.sequence_no = n + i
  <2> SUFFICES ASSUME NEW i \in 1..Len(b)
               PROVE  \E r \in New : r.event_id = b[i] /\ r.sequence_no = n + i
    OBVIOUS
  <2>1. /\ SealedRow(b, i, h, n).event_id = b[i]
        /\ SealedRow(b, i, h, n).sequence_no = n + i
    BY SealedRowIs
  <2> QED
    BY <2>1
<1>6. \A r \in New : \E i \in 1..Len(b) :
          /\ r = SealedRow(b, i, h, n)
          /\ r.event_id = b[i] /\ r.tenant_id = t
          /\ r.sequence_no = n + i /\ Len(r.hash) = n + i
  BY <1>2, SealedRowIs
<1>7. \A r \in events : r.tenant_id = t => r.sequence_no \in 1..n
  BY <1>1, HeadOfChain DEF RowsOf
<1>8. \A r \in events : r.event_id \in StoredIds
  BY DEF StoredIds
<1> HIDE DEF New
<1>9. RowTenants'
  BY <1>3, <1>6 DEF RowTenants, TableInv
<1>10. EventIdsUnique'
  <2> SUFFICES ASSUME NEW r \in events', NEW q \in events', r.event_id = q.event_id
               PROVE  r = q
    BY DEF EventIdsUnique
  <2>1. CASE r \in events /\ q \in events
    BY <2>1 DEF TableInv, EventIdsUnique
  <2>2. CASE r \in New /\ q \in New
    BY <2>2, <1>4, <1>6 DEF BatchesDisjoint
  <2>3. CASE r \in New /\ q \in events
    BY <2>3, <1>6, <1>8
  <2>4. CASE r \in events /\ q \in New
    BY <2>4, <1>6, <1>8
  <2> QED
    BY <2>1, <2>2, <2>3, <2>4, <1>3
<1>11. SequencesUnique'
  <2> SUFFICES ASSUME NEW r \in events', NEW q \in events',
                      r.tenant_id = q.tenant_id, r.sequence_no = q.sequence_no
               PROVE  r = q
    BY DEF SequencesUnique
  <2>1. CASE r \in events /\ q \in events
    BY <2>1 DEF TableInv, SequencesUnique
  <2>2. CASE r \in New /\ q \in New
    BY <2>2, <1>4, <1>6
  <2>3. CASE r \in New /\ q \in events
    BY <2>3, <1>6, <1>7
  <2>4. CASE r \in events /\ q \in New
    BY <2>4, <1>6, <1>7
  <2> QED
    BY <2>1, <2>2, <2>3, <2>4, <1>3
<1>12. HashLengths'
  BY <1>3, <1>6 DEF HashLengths, TableInv
<1>13. fetch_head_sequence(t)' = n + Len(b) /\ {r.sequence_no : r \in RowsOf(t)'} = 1..(n + Len(b))
  <2>1. RowsOf(t)' = RowsOf(t) \cup New
    BY <1>3, <1>6 DEF RowsOf
  <2>2. {r.sequence_no : r \in RowsOf(t)} = 1..n
    BY <1>1, HeadOfChain
  <2>3. {r.sequence_no : r \in New} = (n+1)..(n + Len(b))
    <3>1. \A r \in New : r.sequence_no \in (n+1)..(n + Len(b))
      BY <1>4, <1>6
    <3>2. ASSUME NEW k \in (n+1)..(n + Len(b)) PROVE \E r \in New : r.sequence_no = k
      <4>1. k - n \in 1..Len(b) /\ n + (k - n) = k
        BY <1>4
      <4> QED
        BY <4>1, <1>5
    <3> QED
      BY <3>1, <3>2
  <2>4. {r.sequence_no : r \in RowsOf(t)'} = 1..(n + Len(b))
    <3>1. {r.sequence_no : r \in RowsOf(t)'} = 1..n \cup (n+1)..(n + Len(b))
      BY <2>1, <2>2, <2>3
    <3> QED
      BY <3>1, <1>4
  <2>5. n + Len(b) \in Nat /\ n + Len(b) # 0
    BY <1>4
  <2>6. RowsOf(t)' # {} /\ Latest(RowsOf(t)').sequence_no = n + Len(b)
    BY <2>4, <2>5, LatestOfContiguous
  <2>7. fetch_head_sequence(t)' = n + Len(b)
    BY <2>6 DEF fetch_head_sequence
  <2> QED
    BY <2>4, <2>7
<1>14. SequenceContiguous'
  <2> SUFFICES ASSUME NEW u \in Tenants, u # t
               PROVE  {r.sequence_no : r \in RowsOf(u)'} = 1..fetch_head_sequence(u)'
    BY <1>13 DEF SequenceContiguous
  <2>1. RowsOf(u)' = RowsOf(u)
    BY <1>3, <1>6 DEF RowsOf
  <2>2. fetch_head_sequence(u)' = fetch_head_sequence(u)
    BY <2>1 DEF fetch_head_sequence
  <2> QED
    BY <2>1, <2>2 DEF TableInv, SequenceContiguous
<1>15. BatchWhole'
  <2> SUFFICES ASSUME NEW c \in Batches, NEW i \in DOMAIN c, NEW j \in DOMAIN c,
                      NEW r \in events', r.event_id = c[i]
               PROVE  \E q \in events' : /\ q.event_id = c[j]
                                        /\ q.sequence_no = r.sequence_no + (j - i)
    BY DEF BatchWhole
  <2>1. CASE r \in events
    BY <2>1, <1>3 DEF TableInv, BatchWhole
  <2>2. CASE r \in New
    <3>1. PICK k \in 1..Len(b) : r.event_id = b[k] /\ r.sequence_no = n + k
      BY <2>2, <1>6
    <3>2. c = b /\ i = k
      BY <3>1, <1>4 DEF BatchesDisjoint
    <3>3. PICK q \in New : q.event_id = b[j] /\ q.sequence_no = n + j
      BY <3>2, <1>4, <1>5
    <3> QED
      BY <3>1, <3>2, <3>3, <1>3, <1>4
  <2> QED
    BY <2>1, <2>2, <1>3
<1> QED
  BY <1>1, <1>9, <1>10, <1>11, <1>12, <1>13, <1>14, <1>15 DEF TableInv

LEMMA CommitTable ==
    ASSUME BatchesDisjoint, IInv, NEW w \in Workers, Commit(w)
    PROVE  TableInv'
<1>1. CASE events' = events
  BY <1>1 DEF IInv, TableInv, RowTenants, EventIdsUnique, SequencesUnique, HashLengths,
              SequenceContiguous, BatchWhole, RowsOf, fetch_head_sequence
<1>2. CASE events' # events
  BY <1>2, CommittedRows, SealTable DEF IInv
<1> QED
  BY <1>1, <1>2

LEMMA IInvStep == BatchesDisjoint /\ IInv /\ [Next]_vars => IInv'
<1> SUFFICES ASSUME BatchesDisjoint, IInv, [Next]_vars PROVE TableInv' /\ HandlerInv'
  BY TypeStep DEF IInv
<1>1. events' = events => TableInv'
  BY DEF IInv, TableInv, RowTenants, EventIdsUnique, SequencesUnique, HashLengths,
         SequenceContiguous, BatchWhole, RowsOf, fetch_head_sequence
<1>2. ASSUME NEW w \in Workers, NEW t \in Tenants, NEW b \in Batches, Request(w, t, b)
      PROVE  TableInv' /\ HandlerInv'
  <2>1. ASSUME NEW v \in Workers, v # w
        PROVE  BatchTenant(v)' /\ LockHeld(v)' /\ HeadIsCurrent(v)'
    BY <1>2, <2>1, OtherHandler DEF Request, Goto, IInv, HandlerInv, TypeInv, TypeOK
  <2>2. pc'[w] = "waiting" /\ batch'[w] = b
    BY <1>2 DEF Request, Goto, IInv, TypeInv, TypeOK
  <2>3. \A i \in DOMAIN b : TenantOf[b[i]] = TenantOfBatch(b)
    <3>1. 1 \in DOMAIN b
      BY PayloadsOfBatch
    <3> QED
      BY <1>2, <3>1 DEF Request, TenantOfBatch
  <2>4. BatchTenant(w)' /\ LockHeld(w)' /\ HeadIsCurrent(w)'
    BY <2>2, <2>3 DEF BatchTenant, LockHeld, HeadIsCurrent, Holding, TenantOfBatch
  <2> QED
    BY <1>1, <1>2, <2>1, <2>4 DEF Request, HandlerInv
<1>3. ASSUME NEW w \in Workers, AcquireLock(w)
      PROVE  TableInv' /\ HandlerInv'
  <2>1. ASSUME NEW v \in Workers, v # w
        PROVE  BatchTenant(v)' /\ LockHeld(v)' /\ HeadIsCurrent(v)'
    <3>1. pc[v] \in Holding => lock[TenantOfBatch(batch[v])] = v /\ v # NoWorker
      BY LedgerAssumption DEF IInv, HandlerInv, LockHeld
    <3>2. pc[v] \in Holding => lock'[TenantOfBatch(batch[v])] = lock[TenantOfBatch(batch[v])]
      BY <1>3, <3>1 DEF AcquireLock, IInv, TypeInv, TypeOK
    <3> QED
      BY <1>3, <2>1, <3>2, OtherHandler DEF AcquireLock, Goto, IInv, HandlerInv, TypeInv, TypeOK
  <2>2. /\ pc[w] = "waiting" /\ pc'[w] = "locked" /\ batch'[w] = batch[w]
        /\ lock'[TenantOfBatch(batch[w])] = w
    <3>1. batch[w] \in Batches
      BY <1>3 DEF AcquireLock, Goto, IInv, TypeInv, TypeOK
    <3> QED
      BY <1>3, <3>1, TenantOfBatchType DEF AcquireLock, Goto, IInv, TypeInv, TypeOK
  <2>3. BatchTenant(w)' /\ LockHeld(w)' /\ HeadIsCurrent(w)'
    BY <2>2 DEF IInv, HandlerInv, BatchTenant, LockHeld, HeadIsCurrent, TenantOfBatch
  <2> QED
    BY <1>1, <1>3, <2>1, <2>3 DEF AcquireLock, HandlerInv
<1>4. ASSUME NEW w \in Workers, FetchHeadHash(w)
      PROVE  TableInv' /\ HandlerInv'
  <2>1. ASSUME NEW v \in Workers, v # w
        PROVE  BatchTenant(v)' /\ LockHeld(v)' /\ HeadIsCurrent(v)'
    BY <1>4, <2>1, OtherHandler DEF FetchHeadHash, Goto, IInv, HandlerInv, TypeInv, TypeOK
  <2>2. /\ pc[w] = "locked" /\ pc'[w] = "hashed" /\ batch'[w] = batch[w] /\ lock' = lock
        /\ headHash'[w] = fetch_head_hash(TenantOfBatch(batch[w]))
    BY <1>4 DEF FetchHeadHash, Goto, IInv, TypeInv, TypeOK
  <2>3. BatchTenant(w)' /\ LockHeld(w)'
    BY <2>2 DEF IInv, HandlerInv, BatchTenant, LockHeld, Holding, Phases, TenantOfBatch
  <2>4. HeadIsCurrent(w)'
    BY <1>4, <2>2 DEF FetchHeadHash, HeadIsCurrent, TenantOfBatch, fetch_head_hash, RowsOf
  <2> QED
    BY <1>1, <1>4, <2>1, <2>3, <2>4 DEF FetchHeadHash, HandlerInv
<1>5. ASSUME NEW w \in Workers, FetchHeadSequence(w)
      PROVE  TableInv' /\ HandlerInv'
  <2>1. ASSUME NEW v \in Workers, v # w
        PROVE  BatchTenant(v)' /\ LockHeld(v)' /\ HeadIsCurrent(v)'
    BY <1>5, <2>1, OtherHandler DEF FetchHeadSequence, Goto, IInv, HandlerInv, TypeInv, TypeOK
  <2>2. /\ pc[w] = "hashed" /\ pc'[w] = "sequenced" /\ batch'[w] = batch[w] /\ lock' = lock
        /\ headHash'[w] = fetch_head_hash(TenantOfBatch(batch[w]))
        /\ headSeq'[w] = fetch_head_sequence(TenantOfBatch(batch[w]))
    BY <1>5 DEF FetchHeadSequence, Goto, IInv, TypeInv, TypeOK, HandlerInv, HeadIsCurrent
  <2>3. BatchTenant(w)' /\ LockHeld(w)'
    BY <2>2 DEF IInv, HandlerInv, BatchTenant, LockHeld, Holding, Phases, TenantOfBatch
  <2>4. HeadIsCurrent(w)'
    BY <1>5, <2>2 DEF FetchHeadSequence, HeadIsCurrent, TenantOfBatch, fetch_head_hash,
                      fetch_head_sequence, RowsOf
  <2> QED
    BY <1>1, <1>5, <2>1, <2>3, <2>4 DEF FetchHeadSequence, HandlerInv
<1>6. ASSUME NEW w \in Workers, InsertRows(w)
      PROVE  TableInv' /\ HandlerInv'
  <2>1. ASSUME NEW v \in Workers, v # w
        PROVE  BatchTenant(v)' /\ LockHeld(v)' /\ HeadIsCurrent(v)'
    BY <1>6, <2>1, OtherHandler DEF InsertRows, Goto, IInv, HandlerInv, TypeInv, TypeOK
  <2>2. PICK b, h, n, t : b = batch[w] /\ h = headHash[w] /\ n = headSeq[w] /\ t = TenantOfBatch(b)
    OBVIOUS
  <2>3. /\ pc[w] = "sequenced" /\ pc'[w] = "inserted" /\ batch'[w] = b /\ lock' = lock
        /\ headHash'[w] = h /\ headSeq'[w] = n /\ events' = events
        /\ h = fetch_head_hash(t) /\ n = fetch_head_sequence(t)
        /\ pending'[w] = Inserted(b, h, n)
    BY <1>6, <2>2 DEF InsertRows, Goto, IInv, TypeInv, TypeOK, HandlerInv, HeadIsCurrent
  <2>4. BatchTenant(w)' /\ LockHeld(w)'
    BY <2>2, <2>3 DEF IInv, HandlerInv, BatchTenant, LockHeld, Holding, Phases, TenantOfBatch
  <2>5. /\ fetch_head_hash(t)' = fetch_head_hash(t)
        /\ fetch_head_sequence(t)' = fetch_head_sequence(t)
        /\ Inserted(b, h, n)' = Inserted(b, h, n)
    BY <2>3 DEF fetch_head_hash, fetch_head_sequence, RowsOf, Inserted, StoredIds
  <2>6. HeadIsCurrent(w)'
    BY <2>2, <2>3, <2>5 DEF HeadIsCurrent
  <2> QED
    BY <1>1, <1>6, <2>1, <2>4, <2>6 DEF InsertRows, HandlerInv
<1>7. ASSUME NEW w \in Workers, Reply(w)
      PROVE  TableInv' /\ HandlerInv'
  <2>1. ASSUME NEW v \in Workers, v # w
        PROVE  BatchTenant(v)' /\ LockHeld(v)' /\ HeadIsCurrent(v)'
    BY <1>7, <2>1, OtherHandler DEF Reply, Goto, IInv, HandlerInv, TypeInv, TypeOK
  <2>2. PICK b, h, n, t : b = batch[w] /\ h = headHash[w] /\ n = headSeq[w] /\ t = TenantOfBatch(b)
    OBVIOUS
  <2>3. /\ pc[w] = "inserted" /\ pc'[w] = "replied" /\ batch'[w] = b /\ lock' = lock
        /\ headHash'[w] = h /\ headSeq'[w] = n /\ events' = events
        /\ h = fetch_head_hash(t) /\ n = fetch_head_sequence(t)
        /\ pending'[w] = Inserted(b, h, n)
    BY <1>7, <2>2 DEF Reply, Goto, IInv, TypeInv, TypeOK, HandlerInv, HeadIsCurrent
  <2>4. BatchTenant(w)' /\ LockHeld(w)'
    BY <2>2, <2>3 DEF IInv, HandlerInv, BatchTenant, LockHeld, Holding, Phases, TenantOfBatch
  <2>5. /\ fetch_head_hash(t)' = fetch_head_hash(t)
        /\ fetch_head_sequence(t)' = fetch_head_sequence(t)
        /\ Inserted(b, h, n)' = Inserted(b, h, n)
    BY <2>3 DEF fetch_head_hash, fetch_head_sequence, RowsOf, Inserted, StoredIds
  <2>6. HeadIsCurrent(w)'
    BY <2>2, <2>3, <2>5 DEF HeadIsCurrent
  <2> QED
    BY <1>1, <1>7, <2>1, <2>4, <2>6 DEF Reply, HandlerInv
<1>8. ASSUME NEW w \in Workers, EndTransaction(w), NEW v \in Workers,
             v = w \/ /\ pc[v] \in Holding => events \subseteq events'
                      /\ pc[v] \in Holding => \A r \in events' \ events :
                             /\ r.tenant_id # TenantOfBatch(batch[v])
                             /\ TenantOf[r.event_id] # TenantOfBatch(batch[v])
      PROVE  BatchTenant(v)' /\ LockHeld(v)' /\ HeadIsCurrent(v)'
  <2>1. CASE v = w
    <3>1. pc'[w] = "idle"
      BY <1>8 DEF EndTransaction, IInv, TypeInv, TypeOK
    <3> QED
      BY <2>1, <3>1 DEF BatchTenant, LockHeld, HeadIsCurrent, Holding
  <2>2. CASE v # w
    <3>1. BatchTenant(v) /\ LockHeld(v) /\ HeadIsCurrent(v)
      BY DEF IInv, HandlerInv
    <3>2. /\ pc'[v] = pc[v] /\ batch'[v] = batch[v] /\ headHash'[v] = headHash[v]
          /\ headSeq'[v] = headSeq[v] /\ pending'[v] = pending[v]
      BY <1>8, <2>2 DEF EndTransaction, IInv, TypeInv, TypeOK
    <3>3. ASSUME pc[v] \in Holding
          PROVE  lock'[TenantOfBatch(batch[v])] = lock[TenantOfBatch(batch[v])]
      <4>1. TenantOfBatch(batch[v]) \in Tenants
        BY <3>3, TenantOfBatchType DEF IInv, TypeInv, TypeOK, Holding
      <4>2. lock[TenantOfBatch(batch[v])] = v
        BY <3>1, <3>3 DEF LockHeld
      <4> QED
        BY <1>8, <2>2, <4>1, <4>2 DEF EndTransaction
    <3> QED
      BY <1>8, <2>2, <3>1, <3>2, <3>3, OtherHandler
  <2> QED
    BY <2>1, <2>2
<1>9. ASSUME NEW w \in Workers, Commit(w)
      PROVE  TableInv' /\ HandlerInv'
  <2>1. TableInv'
    BY <1>9, CommitTable
  <2>2. ASSUME NEW v \in Workers, v # w, pc[v] \in Holding
        PROVE  TenantOfBatch(batch[v]) # TenantOfBatch(batch[w])
    <3>1. pc[w] \in Holding
      BY <1>9 DEF Commit, Holding, Phases
    <3> QED
      BY <2>2, <3>1 DEF IInv, HandlerInv, LockHeld
  <2>3. events \subseteq events'
    BY <1>9 DEF Commit
  <2>4. \A r \in events' \ events : /\ r.tenant_id = TenantOfBatch(batch[w])
                                   /\ TenantOf[r.event_id] = TenantOfBatch(batch[w])
    <3>1. CASE events' = events
      BY <3>1
    <3>2. CASE events' # events
      <4>1. PICK b \in Batches, t \in Tenants :
                /\ \A i \in 1..Len(b) : TenantOf[b[i]] = t
                /\ TenantOfBatch(batch[w]) = t
                /\ events' = events \cup
                     {SealedRow(b, i, fetch_head_hash(t), fetch_head_sequence(t)) : i \in 1..Len(b)}
        BY <1>9, <3>2, CommittedRows
      <4>2. \A i \in 1..Len(b) :
                /\ SealedRow(b, i, fetch_head_hash(t), fetch_head_sequence(t)).tenant_id = t
                /\ SealedRow(b, i, fetch_head_hash(t), fetch_head_sequence(t)).event_id = b[i]
        BY <4>1, SealedRowIs, HeadOfChain DEF IInv
      <4> QED
        BY <4>1, <4>2
    <3> QED
      BY <3>1, <3>2
  <2> QED
    BY <1>8, <1>9, <2>1, <2>2, <2>3, <2>4 DEF Commit, HandlerInv
<1>10. ASSUME NEW w \in Workers, Abort(w)
       PROVE  TableInv' /\ HandlerInv'
  BY <1>1, <1>8, <1>10 DEF Abort, HandlerInv
<1>11. CASE UNCHANGED vars
  <2>1. ASSUME NEW v \in Workers
        PROVE  BatchTenant(v)' /\ LockHeld(v)' /\ HeadIsCurrent(v)'
    BY <1>11, OtherHandler DEF vars, IInv, HandlerInv
  <2> QED
    BY <1>1, <1>11, <2>1 DEF vars, HandlerInv
<1> QED
  BY <1>2, <1>3, <1>4, <1>5, <1>6, <1>7, <1>9, <1>10, <1>11 DEF Next, Step

LEMMA IInvInvariant == ASSUME BatchesDisjoint PROVE Spec => []IInv
<1>1. Init => IInv
  BY TypeInit, HandlerInit DEF IInv
<1>2. IInv /\ [Next]_vars => IInv'
  BY IInvStep
<1> QED
  BY <1>1, <1>2, PTL DEF Spec

\* The committed rows of every tenant are numbered 1 .. n without a gap, as
\* long as two deliveries are equal or have no event in common.
THEOREM ContiguousTheorem ==
    ASSUME BatchesDisjoint PROVE Spec => []SequenceContiguous
<1>1. IInv => SequenceContiguous
  BY DEF IInv, TableInv
<1> QED
  BY IInvInvariant, <1>1, PTL

\* No commit ever collides on a unique key of the events table, so that no
\* handler fails with an IntegrityError.
THEOREM UniqueKeysTheorem ==
    ASSUME BatchesDisjoint PROVE Spec => []UniqueKeys
<1>1. IInv => UniqueKeys
  BY DEF IInv, TableInv, EventIdsUnique, SequencesUnique, HashLengths, UniqueKeys
<1> QED
  BY IInvInvariant, <1>1, PTL

\* A batch is in the ledger whole and as a block, or not at all.
THEOREM BatchWholeTheorem ==
    ASSUME BatchesDisjoint PROVE Spec => []BatchWhole
<1>1. IInv => BatchWhole
  BY DEF IInv, TableInv
<1> QED
  BY IInvInvariant, <1>1, PTL

-----------------------------------------------------------------------------
\* The verifier accepts the chain.

\* Sealing a new batch on top of the head of an intact chain keeps it intact.
LEMMA SealChain ==
    ASSUME PayloadsRoundTrip, TypeInv, TableInv, ChainIntact,
           NEW b \in Batches, NEW t \in Tenants,
           \A i \in 1..Len(b) : TenantOf[b[i]] = t /\ b[i] \notin StoredIds,
           events' = events \cup
               {SealedRow(b, i, fetch_head_hash(t), fetch_head_sequence(t)) : i \in 1..Len(b)}
    PROVE  ChainIntact'
<1>1. PICK n \in Nat : n = fetch_head_sequence(t)
  BY HeadOfChain
<1>2. PICK h \in Hash : h = fetch_head_hash(t)
  BY HeadOfChain
<1>3. PICK R : R = RowsOf(t)
  OBVIOUS
<1> DEFINE New == {SealedRow(b, i, h, n) : i \in 1..Len(b)}
<1>4. events' = events \cup New
  BY <1>1, <1>2
<1>5. \A r \in R : r.sequence_no \in 1..n
  BY <1>1, <1>3, HeadOfChain
<1>6. Len(b) \in Nat \ {0}
  BY PayloadsOfBatch
<1>7. ASSUME NEW i \in 1..Len(b)
      PROVE  LET r == SealedRow(b, i, h, n) IN
             /\ r \in New
             /\ r.tenant_id = t
             /\ r.sequence_no = n + i
             /\ r.prev_hash = ChainedHash(h, PayloadsOf(b), i - 1)
             /\ r.hash = ChainedHash(h, PayloadsOf(b), i)
             /\ r.hash = compute_hash(r.prev_hash, r.payload)
  <2>1. b[i] \in Events
    BY PayloadsOfBatch
  <2>2. Jsonb[PayloadOf[b[i]]] = PayloadOf[b[i]]
    BY <2>1 DEF PayloadsRoundTrip
  <2> QED
    BY <2>2, SealedRowIs
<1>8. \A r \in New : \E i \in 1..Len(b) : r = SealedRow(b, i, h, n)
  OBVIOUS
<1> HIDE DEF New
<1>9. RowsOf(t)' = R \cup New
  BY <1>3, <1>4, <1>7, <1>8 DEF RowsOf
<1>10. \A r \in New : r.sequence_no \in Nat /\ r.sequence_no > n
  BY <1>6, <1>7, <1>8
<1>11. ASSUME NEW r \in R PROVE ~BreaksAt(R \cup New, r)
  <2>1. Preceding(R \cup New, r) = Preceding(R, r)
    BY <1>5, <1>10 DEF Preceding
  <2>2. ~BreaksAt(R, r)
    BY <1>3 DEF ChainIntact, verify_chain
  <2> QED
    BY <2>1, <2>2 DEF BreaksAt, ExpectedPrev
<1>12. ASSUME NEW i \in 1..Len(b) PROVE ~BreaksAt(R \cup New, SealedRow(b, i, h, n))
  <2> DEFINE r == SealedRow(b, i, h, n)
             P == Preceding(R \cup New, r)
  <2>1. r.sequence_no = n + i
    BY <1>7
  <2>2. CASE i = 1
    <3>1. P = R
      BY <1>5, <1>6, <1>7, <1>8, <2>1, <2>2 DEF Preceding
    <3>2. ExpectedPrev(R \cup New, r) = h
      BY <1>2, <1>3, <3>1 DEF ExpectedPrev, fetch_head_hash
    <3>3. r.prev_hash = h
      BY <1>7, <2>2, ChainedHashStep
    <3> QED
      BY <1>7, <3>2, <3>3 DEF BreaksAt
  <2>3. CASE i # 1
    <3> DEFINE m == SealedRow(b, i - 1, h, n)
    <3>1. i - 1 \in 1..Len(b)
      BY <1>6, <2>3
    <3>2. /\ m \in New /\ m.sequence_no = n + i - 1
          /\ m.hash = ChainedHash(h, PayloadsOf(b), i - 1)
      BY <1>7, <3>1
    <3>3. m \in P
      BY <2>1, <3>2 DEF Preceding
    <3>4. \A q \in P : q.sequence_no \in Nat /\ (q # m => q.sequence_no < m.sequence_no)
      <4> SUFFICES ASSUME NEW q \in P
                   PROVE  q.sequence_no \in Nat /\ (q # m => q.sequence_no < m.sequence_no)
        OBVIOUS
      <4>1. q \in R \cup New /\ q.sequence_no < n + i
        BY <2>1 DEF Preceding
      <4>2. CASE q \in R
        BY <1>5, <3>1, <3>2, <4>2
      <4>3. CASE q \in New
        <5>1. PICK k \in 1..Len(b) : q = SealedRow(b, k, h, n)
          BY <1>8, <4>3
        <5>2. q.sequence_no = n + k
          BY <1>7, <5>1
        <5>3. k = i - 1 \/ k < i - 1
          BY <4>1, <5>2, <1>6
        <5> QED
          BY <5>1, <5>2, <5>3, <3>2, <1>6
      <4> QED
        BY <4>1, <4>2, <4>3
    <3>5. Latest(P) = m
      BY <3>3, <3>4, LatestIs
    <3>6. ExpectedPrev(R \cup New, r) = m.hash
      BY <3>3, <3>5 DEF ExpectedPrev
    <3> QED
      BY <1>7, <3>2, <3>6 DEF BreaksAt
  <2> QED
    BY <2>2, <2>3
<1>13. verify_chain(RowsOf(t))'
  BY <1>8, <1>9, <1>11, <1>12 DEF verify_chain
<1>14. ASSUME NEW u \in Tenants, u # t PROVE verify_chain(RowsOf(u))'
  <2>1. RowsOf(u)' = RowsOf(u)
    BY <1>4, <1>7, <1>8, <1>14 DEF RowsOf
  <2>2. verify_chain(RowsOf(u))
    BY DEF ChainIntact
  <2> QED
    BY <2>1, <2>2 DEF verify_chain
<1> QED
  BY <1>13, <1>14 DEF ChainIntact

\* The whole chain of every tenant verifies at every moment, as long as
\* deliveries are disjoint or equal and payloads survive the JSONB column.
THEOREM ChainIntactTheorem ==
    ASSUME BatchesDisjoint, PayloadsRoundTrip PROVE Spec => []ChainIntact
<1>1. Init => ChainIntact
  BY DEF Init, ChainIntact, verify_chain, RowsOf
<1>2. IInv /\ ChainIntact /\ [Next]_vars => ChainIntact'
  <2> SUFFICES ASSUME IInv, ChainIntact, [Next]_vars PROVE ChainIntact'
    OBVIOUS
  <2>1. CASE events' = events
    BY <2>1 DEF ChainIntact, RowsOf
  <2>2. CASE events' # events
    <3>1. PICK w \in Workers : Commit(w)
      BY <2>2 DEF Next, Step, Request, AcquireLock, FetchHeadHash, FetchHeadSequence,
                  InsertRows, Reply, Abort, vars
    <3> QED
      BY <2>2, <3>1, CommittedRows, SealChain DEF IInv
  <2> QED
    BY <2>1, <2>2
<1> QED
  BY IInvInvariant, <1>1, <1>2, PTL DEF Spec

-----------------------------------------------------------------------------
\* The ledger implements AppendLog.

LogFacts ==
    \A t \in Tenants :
        /\ fetch_head_sequence(t) \in Nat
        /\ LogOf(t) \in [1..fetch_head_sequence(t) -> Events]
        /\ \A r \in RowsOf(t) : /\ r.sequence_no \in 1..fetch_head_sequence(t)
                                /\ LogOf(t)[r.sequence_no] = r.event_id
        /\ \A n \in 1..fetch_head_sequence(t) :
               \E r \in RowsOf(t) : r.sequence_no = n /\ LogOf(t)[n] = r.event_id

LEMMA LogEntries == TypeInv /\ TableInv => LogFacts
<1> SUFFICES ASSUME TypeInv, TableInv, NEW t \in Tenants
             PROVE  /\ fetch_head_sequence(t) \in Nat
                    /\ LogOf(t) \in [1..fetch_head_sequence(t) -> Events]
                    /\ \A r \in RowsOf(t) : /\ r.sequence_no \in 1..fetch_head_sequence(t)
                                            /\ LogOf(t)[r.sequence_no] = r.event_id
                    /\ \A n \in 1..fetch_head_sequence(t) :
                           \E r \in RowsOf(t) : r.sequence_no = n /\ LogOf(t)[n] = r.event_id
  BY DEF LogFacts
<1> DEFINE N == fetch_head_sequence(t)
           at(n) == CHOOSE r \in RowsOf(t) : r.sequence_no = n
<1>1. /\ N \in Nat
      /\ {r.sequence_no : r \in RowsOf(t)} = 1..N
      /\ \A r \in RowsOf(t) : r.sequence_no \in 1..N
  BY HeadOfChain
<1>2. ASSUME NEW n \in 1..N PROVE at(n) \in RowsOf(t) /\ at(n).sequence_no = n
  <2>1. \E r \in RowsOf(t) : r.sequence_no = n
    BY <1>1
  <2> QED
    BY <2>1
<1>3. \A r \in RowsOf(t) : at(r.sequence_no) = r
  <2>1. \A r, q \in RowsOf(t) : r.sequence_no = q.sequence_no => r = q
    BY DEF RowsOf, TableInv, SequencesUnique
  <2> QED
    BY <1>1, <1>2, <2>1
<1>4. LogOf(t) = [n \in 1..N |-> at(n).event_id]
  BY DEF LogOf
<1>5. \A r \in RowsOf(t) : r.event_id \in Events
  BY DEF RowsOf, TypeInv, TypeOK, Row
<1> HIDE DEF at, N
<1>6. LogOf(t) \in [1..N -> Events]
  BY <1>2, <1>4, <1>5
<1>7. \A r \in RowsOf(t) : LogOf(t)[r.sequence_no] = r.event_id
  BY <1>1, <1>3, <1>4
<1>8. \A n \in 1..N : \E r \in RowsOf(t) : r.sequence_no = n /\ LogOf(t)[n] = r.event_id
  BY <1>2, <1>4
<1> QED
  BY <1>1, <1>6, <1>7, <1>8 DEF N

\* A commit appends its batch to the log of its tenant.
LEMMA SealLog ==
    ASSUME BatchesDisjoint, TypeInv, TypeInv', TableInv,
           NEW b \in Batches, NEW t \in Tenants,
           \A i \in 1..Len(b) : TenantOf[b[i]] = t /\ b[i] \notin StoredIds,
           events' = events \cup
               {SealedRow(b, i, fetch_head_hash(t), fetch_head_sequence(t)) : i \in 1..Len(b)}
    PROVE  /\ LogOf(t)' = LogOf(t) \o b
           /\ \A u \in Tenants : u # t => LogOf(u)' = LogOf(u)
           /\ \A i \in 1..Len(b) : \A n \in DOMAIN LogOf(t) : LogOf(t)[n] # b[i]
<1>1. LogFacts
  BY LogEntries
<1>2. TableInv' /\ fetch_head_sequence(t)' = fetch_head_sequence(t) + Len(b)
  BY SealTable
<1>3. (TypeInv /\ TableInv => LogFacts)'
  BY LogEntries, PTL
<1>4. LogFacts'
  BY <1>2, <1>3
<1>5. PICK n \in Nat, h \in Hash : n = fetch_head_sequence(t) /\ h = fetch_head_hash(t)
  BY HeadOfChain
<1>6. b \in Seq(Events) /\ Len(b) \in Nat \ {0}
  BY PayloadsOfBatch
<1>7. \A i \in 1..Len(b) :
          /\ SealedRow(b, i, h, n).event_id = b[i]
          /\ SealedRow(b, i, h, n).tenant_id = t
          /\ SealedRow(b, i, h, n).sequence_no = n + i
  BY SealedRowIs
<1>8. /\ \A i \in 1..Len(b) : SealedRow(b, i, h, n) \in RowsOf(t)'
      /\ RowsOf(t) \subseteq RowsOf(t)'
  BY <1>5, <1>7 DEF RowsOf
<1>9. ASSUME NEW k \in 1..n PROVE LogOf(t)'[k] = LogOf(t)[k]
  <2>1. PICK r \in RowsOf(t) : r.sequence_no = k /\ LogOf(t)[k] = r.event_id
    BY <1>1, <1>5 DEF LogFacts
  <2>2. r \in RowsOf(t)'
    BY <1>8, <2>1
  <2>3. LogOf(t)'[r.sequence_no] = r.event_id
    BY <1>4, <2>2 DEF LogFacts
  <2> QED
    BY <2>1, <2>3
<1>10. ASSUME NEW i \in 1..Len(b) PROVE LogOf(t)'[n + i] = b[i]
  BY <1>4, <1>7, <1>8 DEF LogFacts
<1>11. /\ LogOf(t) \in Seq(Events) /\ Len(LogOf(t)) = n
       /\ LogOf(t)' \in Seq(Events) /\ Len(LogOf(t)') = n + Len(b)
  <2>1. LogOf(t) \in [1..n -> Events] /\ LogOf(t)' \in [1..(n + Len(b)) -> Events]
    BY <1>1, <1>2, <1>4, <1>5 DEF LogFacts
  <2>2. n + Len(b) \in Nat
    BY <1>6
  <2> QED
    BY <2>1, <2>2, FunctionIsSeq
<1>12. LogOf(t)' = LogOf(t) \o b
  <2>1. /\ LogOf(t) \o b \in Seq(Events)
        /\ Len(LogOf(t) \o b) = n + Len(b)
        /\ \A k \in 1..(n + Len(b)) :
              (LogOf(t) \o b)[k] = IF k <= n THEN LogOf(t)[k] ELSE b[k - n]
    BY <1>6, <1>11, ConcatProperties
  <2>2. ASSUME NEW k \in 1..(n + Len(b)) PROVE LogOf(t)'[k] = (LogOf(t) \o b)[k]
    <3>1. CASE k <= n
      <4>1. k \in 1..n
        BY <3>1
      <4> QED
        BY <3>1, <4>1, <1>9, <2>1
    <3>2. CASE ~(k <= n)
      <4>1. k - n \in 1..Len(b) /\ n + (k - n) = k
        BY <3>2, <1>6
      <4>2. LogOf(t)'[n + (k - n)] = b[k - n]
        BY <4>1, <1>10
      <4> QED
        BY <3>2, <4>1, <4>2, <2>1
    <3> QED
      BY <3>1, <3>2
  <2> QED
    BY <1>11, <2>1, <2>2, SeqEqual
<1>13. ASSUME NEW u \in Tenants, u # t PROVE LogOf(u)' = LogOf(u)
  <2>1. RowsOf(u)' = RowsOf(u)
    BY <1>5, <1>7, <1>13 DEF RowsOf
  <2> QED
    BY <2>1 DEF LogOf, fetch_head_sequence
<1>14. \A i \in 1..Len(b) : \A k \in DOMAIN LogOf(t) : LogOf(t)[k] # b[i]
  BY <1>1 DEF LogFacts, RowsOf, StoredIds
<1> QED
  BY <1>12, <1>13, <1>14

\* The ledger implements the append-only log of whole batches, each stored
\* once: every commit is one Accept of AppendLog or changes nothing.
THEOREM Refinement == ASSUME BatchesDisjoint PROVE Spec => ImplementsAppendLog
<1> DEFINE abs == [t \in Tenants |-> LogOf(t)]
<1>1. Init => Promise!Init
  <2> SUFFICES ASSUME Init PROVE \A t \in Tenants : LogOf(t) = <<>>
    BY DEF Promise!Init
  <2>1. \A t : RowsOf(t) = {} /\ fetch_head_sequence(t) = 0
    BY DEF Init, RowsOf, fetch_head_sequence
  <2>2. \A t : LogOf(t) \in [1..0 -> {}]
    BY <2>1 DEF LogOf
  <2>3. \A t : LogOf(t) \in Seq({}) /\ Len(LogOf(t)) = 0
    BY <2>2, FunctionIsSeq
  <2> QED
    BY <2>3, EmptySeq
<1>2. IInv /\ IInv' /\ [Next]_vars => [Promise!Next]_abs
  <2> SUFFICES ASSUME IInv, IInv', [Next]_vars PROVE [Promise!Next]_abs
    OBVIOUS
  <2>1. CASE events' = events
    <3>1. \A t \in Tenants : LogOf(t)' = LogOf(t)
      BY <2>1 DEF LogOf, RowsOf, fetch_head_sequence
    <3> QED
      BY <3>1
  <2>2. CASE events' # events
    <3>1. PICK w \in Workers : Commit(w)
      BY <2>2 DEF Next, Step, Request, AcquireLock, FetchHeadHash, FetchHeadSequence,
                  InsertRows, Reply, Abort, vars
    <3>2. PICK b \in Batches, t \in Tenants :
              /\ \A i \in 1..Len(b) : TenantOf[b[i]] = t /\ b[i] \notin StoredIds
              /\ events' = events \cup
                   {SealedRow(b, i, fetch_head_hash(t), fetch_head_sequence(t)) : i \in 1..Len(b)}
      BY <2>2, <3>1, CommittedRows
    <3>3. /\ LogOf(t)' = LogOf(t) \o b
          /\ \A u \in Tenants : u # t => LogOf(u)' = LogOf(u)
          /\ \A i \in 1..Len(b) : \A n \in DOMAIN LogOf(t) : LogOf(t)[n] # b[i]
      BY <3>2, SealLog DEF IInv
    <3>4. DOMAIN b = 1..Len(b)
      BY PayloadsOfBatch
    <3>5. abs' = [abs EXCEPT ![t] = @ \o b]
      BY <3>3
    <3>6. \A i \in DOMAIN b : TenantOf[b[i]] = t /\ ~Promise!Occurs(b[i], abs[t])
      BY <3>2, <3>3, <3>4 DEF Promise!Occurs
    <3>7. Promise!Accept(t, b)
      BY <3>5, <3>6 DEF Promise!Accept
    <3> QED
      BY <3>7 DEF Promise!Next
  <2> QED
    BY <2>1, <2>2
<1> QED
  BY IInvInvariant, <1>1, <1>2, PTL DEF Spec, Promise!Spec, ImplementsAppendLog
=============================================================================
