---------------------------- MODULE RequestLogProofs ----------------------------
(***************************************************************************)
(* Proofs about RequestLog.                                                *)
(*                                                                         *)
(* The order of the log: what is in the batch was sent before what is in   *)
(* the queue, what is stored before both, and what was given up is         *)
(* nowhere.  The page: an id is given once and upwards, so that rows that  *)
(* come later lie beyond every cursor; a poll holds all rows between its   *)
(* cursor and the newest one it brings.                                    *)
(***************************************************************************)
EXTENDS RequestLog, FiniteSetTheorems, WellFoundedInduction, TLAPS

(***************************************************************************)
(* Least and greatest numbers, and the n greatest ones.                    *)
(***************************************************************************)
LEMMA Least ==
  ASSUME NEW S \in SUBSET Nat, S # {}
  PROVE  \E i \in S : \A j \in S : i <= j
<1>1. PICK x \in S : \A y \in S : ~(<<y, x>> \in OpToRel(<, Nat))
  BY WFMin, NatLessThanWellFounded
<1>2. \A y \in S : ~(y < x)
  BY <1>1 DEF OpToRel
<1> QED
  BY <1>2

LEMMA Greatest ==
  ASSUME NEW n \in Nat, NEW S \in SUBSET (0..n), S # {}
  PROVE  \E i \in S : \A j \in S : j <= i
<1> DEFINE T == {m \in 0..n : n - m \in S}
<1>1. \A j \in S : n - j \in 0..n /\ n - (n - j) = j
  OBVIOUS
<1>2. T \in SUBSET Nat
  OBVIOUS
<1>3. \A j \in S : n - j \in T
  BY <1>1
<1>4. T # {}
  BY <1>3
<1>5. PICK t \in T : \A u \in T : t <= u
  BY <1>2, <1>4, Least
<1>6. n - t \in S /\ t \in 0..n
  BY <1>5
<1>7. ASSUME NEW j \in S PROVE j <= n - t
  <2>1. t <= n - j
    BY <1>3, <1>5
  <2> QED
    BY <1>6, <2>1
<1> QED
  BY <1>6, <1>7

LEMMA MaxIs ==
  ASSUME NEW n \in Nat, NEW S \in SUBSET (0..n), S # {}
  PROVE  Max(S) \in S /\ \A j \in S : j <= Max(S)
<1>1. \E i \in S : \A j \in S : i >= j
  BY Greatest
<1> QED
  BY <1>1 DEF Max

LEMMA MinIs ==
  ASSUME NEW S \in SUBSET Nat, S # {}
  PROVE  Min(S) \in S /\ \A j \in S : Min(S) <= j
<1>1. \E i \in S : \A j \in S : i =< j
  BY Least
<1> QED
  BY <1>1 DEF Min

Above(S, i) == {j \in S : j > i}

LEMMA SubsetsFinite ==
  ASSUME NEW n \in Nat, NEW S \in SUBSET (0..n)
  PROVE  /\ IsFiniteSet(S) /\ Cardinality(S) \in Nat
         /\ \A T \in SUBSET S : Cardinality(T) \in Nat /\ Cardinality(T) <= Cardinality(S)
<1>1. IsFiniteSet(0..n)
  BY FS_Interval
<1>2. IsFiniteSet(S)
  BY <1>1, FS_Subset
<1> QED
  BY <1>2, FS_Subset, FS_CardinalityType

(* No element that is left out lies above one of the n greatest.           *)
LEMMA LargestAbove ==
  ASSUME NEW m \in Nat, NEW S \in SUBSET (0..m), NEW n \in Nat,
         NEW i \in S \ Largest(S, n), NEW k \in Largest(S, n)
  PROVE  i < k
<1> SUFFICES ASSUME k <= i PROVE FALSE
  BY DEF Largest
<1>1. Above(S, i) \in SUBSET Above(S, k) /\ Above(S, k) \in SUBSET (0..m)
  <2>1. i \in Nat /\ k \in Nat /\ \A j \in S : j \in Nat
    BY DEF Largest
  <2>2. \A j \in S : j > i => j > k
    BY <2>1
  <2> QED
    BY <2>2 DEF Above
<1>2. Cardinality(Above(S, k)) < n /\ ~(Cardinality(Above(S, i)) < n)
  BY DEF Largest, Above
<1>3. /\ Cardinality(Above(S, i)) \in Nat /\ Cardinality(Above(S, k)) \in Nat
      /\ Cardinality(Above(S, i)) <= Cardinality(Above(S, k))
  BY <1>1, SubsetsFinite
<1> QED
  BY <1>2, <1>3

(* The n greatest are n, unless they are all.                              *)
LEMMA LargestCount ==
  ASSUME NEW m \in Nat, NEW S \in SUBSET (0..m), NEW n \in Nat, Largest(S, n) # S
  PROVE  Cardinality(Largest(S, n)) = n
<1> DEFINE L == Largest(S, n)
           U == S \ L
<1>1. L \in SUBSET S /\ L \in SUBSET (0..m) /\ U \in SUBSET (0..m) /\ U # {}
  BY DEF Largest
<1>2. IsFiniteSet(L) /\ Cardinality(L) \in Nat
  BY <1>1, SubsetsFinite
<1>3. Cardinality(L) >= n
  <2>1. PICK i \in U : \A j \in U : j <= i
    BY <1>1, Greatest
  <2>2. Above(S, i) \in SUBSET L
    BY <1>1, <2>1 DEF Above
  <2>3. Cardinality(Above(S, i)) \in Nat /\ Cardinality(Above(S, i)) <= Cardinality(L)
    BY <1>1, <2>2, SubsetsFinite
  <2>4. ~(Cardinality(Above(S, i)) < n)
    BY <2>1 DEF Largest, Above
  <2> QED
    BY <1>2, <2>3, <2>4
<1>4. Cardinality(L) <= n
  <2>1. CASE L = {}
    BY <2>1, FS_EmptySet
  <2>2. CASE L # {}
    <3>1. PICK k \in L : \A j \in L : k <= j
      BY <1>1, <2>2, Least
    <3>2. L \ {k} \in SUBSET Above(S, k) /\ Above(S, k) \in SUBSET (0..m)
      BY <1>1, <3>1 DEF Above
    <3>3. /\ Cardinality(L \ {k}) \in Nat /\ Cardinality(Above(S, k)) \in Nat
          /\ Cardinality(L \ {k}) <= Cardinality(Above(S, k))
      BY <3>2, SubsetsFinite
    <3>4. Cardinality(L \ {k}) = Cardinality(L) - 1
      BY <1>2, FS_RemoveElement
    <3>5. Cardinality(Above(S, k)) < n
      BY DEF Largest, Above
    <3> QED
      BY <1>2, <3>3, <3>4, <3>5
  <2> QED
    BY <2>1, <2>2
<1> QED
  BY <1>2, <1>3, <1>4

(* Of the n smallest, all up to the greatest of them.                      *)
LEMMA SmallestBelow ==
  ASSUME NEW m \in Nat, NEW S \in SUBSET (0..m), NEW n \in Nat,
         NEW k \in Smallest(S, n), NEW i \in S, i <= k
  PROVE  i \in Smallest(S, n)
<1> DEFINE Below(x) == {j \in S : j < x}
<1>1. Below(i) \in SUBSET Below(k) /\ Below(k) \in SUBSET (0..m)
  <2>1. i \in Nat /\ k \in Nat /\ \A j \in S : j \in Nat
    BY DEF Smallest
  <2>2. \A j \in S : j < i => j < k
    BY <2>1
  <2> QED
    BY <2>2
<1>2. Cardinality(Below(k)) < n
  BY DEF Smallest
<1>3. /\ Cardinality(Below(i)) \in Nat /\ Cardinality(Below(k)) \in Nat
      /\ Cardinality(Below(i)) <= Cardinality(Below(k))
  BY <1>1, SubsetsFinite
<1>4. Cardinality(Below(i)) < n
  BY <1>2, <1>3
<1> QED
  BY <1>4 DEF Smallest

(***************************************************************************)
(* The order of the log.                                                   *)
(***************************************************************************)
Sorted(s) == \A i, j \in DOMAIN s : i < j => s[i] < s[j]

LogTypes ==
  /\ sent \in Seq(Vaults) /\ queue \in Seq(Nat) /\ batch \in Seq(Nat)
  /\ \A i \in DOMAIN queue : queue[i] \in 1..Len(sent)
  /\ \A i \in DOMAIN batch : batch[i] \in 1..Len(sent)
  /\ lost \in SUBSET (1..Len(sent))
  /\ lastId \in Nat
  /\ rows \in SUBSET [id : 1..lastId, record : 1..Len(sent)]

(* What is in the batch was sent before what is in the queue, and what is  *)
(* stored before both.                                                     *)
InOrder ==
  /\ Sorted(queue) /\ Sorted(batch)
  /\ \A i \in DOMAIN batch, j \in DOMAIN queue : batch[i] < queue[j]
  /\ \A r \in rows : \A i \in DOMAIN batch : r.record < batch[i]
  /\ \A r \in rows : \A j \in DOMAIN queue : r.record < queue[j]
  /\ \A r, q \in rows : r.id < q.id <=> r.record < q.record

(* What was given up is nowhere.                                           *)
GivenUp ==
  /\ \A i \in DOMAIN queue : queue[i] \notin lost
  /\ \A i \in DOMAIN batch : batch[i] \notin lost
  /\ \A r \in rows : r.record \notin lost

LogInv == LogTypes /\ InOrder /\ GivenUp

LEMMA LogInit == Init => LogInv
  BY DEF Init, LogInv, LogTypes, InOrder, GivenUp, Sorted

LEMMA RecordKeeps ==
  ASSUME LogInv, NEW v \in Vaults, Record(v)
  PROVE  LogInv'
<1> DEFINE n == Len(sent) + 1
<1>1. /\ sent \in Seq(Vaults) /\ Len(sent) \in Nat
      /\ sent' \in Seq(Vaults) /\ Len(sent') = n
  BY DEF LogInv, LogTypes, Record
<1>2. rows' = rows /\ lastId' = lastId /\ batch' = batch
  BY DEF Record
<1>3. \A k \in 1..Len(sent) : k \in 1..n /\ k < n
  BY <1>1
<1>4. n \in 1..n
  BY <1>1
<1>5. queue \in Seq(Nat) /\ batch \in Seq(Nat) /\ lost \subseteq 1..Len(sent)
  BY DEF LogInv, LogTypes
<1>6. CASE Len(queue) < BufferSize
  <2>1. queue' = Append(queue, n) /\ lost' = lost
    BY <1>6 DEF Record
  <2>2. /\ queue' \in Seq(Nat) /\ Len(queue) \in Nat /\ Len(queue') = Len(queue) + 1
        /\ DOMAIN queue' = 1..(Len(queue) + 1) /\ DOMAIN queue = 1..Len(queue)
    BY <1>1, <1>5, <2>1
  <2>3. /\ \A i \in DOMAIN queue : i \in DOMAIN queue' /\ queue'[i] = queue[i] /\ i < Len(queue) + 1
        /\ queue'[Len(queue) + 1] = n
        /\ \A i \in DOMAIN queue' : i \in DOMAIN queue \/ i = Len(queue) + 1
    BY <1>1, <1>5, <2>1, <2>2
  <2>4. LogTypes'
    BY <1>1, <1>2, <1>3, <1>4, <1>5, <2>1, <2>2, <2>3 DEF LogInv, LogTypes
  <2>5. Sorted(queue)'
    <3>1. ASSUME NEW i \in DOMAIN queue', NEW j \in DOMAIN queue', i < j PROVE queue'[i] < queue'[j]
      <4>1. i \in DOMAIN queue
        BY <2>2, <2>3, <3>1
      <4>2. CASE j \in DOMAIN queue
        BY <2>3, <3>1, <4>1, <4>2 DEF LogInv, InOrder, Sorted
      <4>3. CASE j = Len(queue) + 1
        BY <1>3, <2>3, <4>1, <4>3 DEF LogInv, LogTypes
      <4> QED
        BY <2>3, <4>2, <4>3
    <3> QED
      BY <3>1 DEF Sorted
  <2>6. InOrder'
    BY <1>2, <1>3, <2>3, <2>5 DEF LogInv, LogTypes, InOrder
  <2>7. GivenUp'
    BY <1>1, <1>2, <1>3, <1>5, <2>1, <2>3 DEF LogInv, GivenUp
  <2> QED
    BY <2>4, <2>6, <2>7 DEF LogInv
<1>7. CASE ~(Len(queue) < BufferSize)
  <2>1. lost' = lost \cup {n} /\ queue' = queue
    BY <1>7 DEF Record
  <2>2. LogTypes'
    BY <1>1, <1>2, <1>3, <1>4, <1>5, <2>1 DEF LogInv, LogTypes
  <2>3. InOrder'
    BY <1>2, <2>1 DEF LogInv, InOrder, Sorted
  <2>4. GivenUp'
    BY <1>1, <1>2, <1>3, <1>5, <2>1 DEF LogInv, LogTypes, GivenUp
  <2> QED
    BY <2>2, <2>3, <2>4 DEF LogInv
<1> QED
  BY <1>6, <1>7

LEMMA ReceiveKeeps ==
  ASSUME LogInv, Receive
  PROVE  LogInv'
<1>1. /\ queue \in Seq(Nat) /\ batch \in Seq(Nat) /\ queue # <<>>
      /\ batch' = Append(batch, Head(queue)) /\ queue' = Tail(queue)
      /\ rows' = rows /\ lastId' = lastId /\ sent' = sent /\ lost' = lost
  BY DEF LogInv, LogTypes, Receive
<1>2. /\ 1 \in DOMAIN queue /\ Head(queue) = queue[1]
      /\ queue' \in Seq(Nat)
      /\ \A i \in DOMAIN queue' : i \in Nat /\ i + 1 \in DOMAIN queue /\ queue'[i] = queue[i + 1]
                                  /\ 1 < i + 1
  BY <1>1
<1>3. /\ batch' \in Seq(Nat) /\ Len(batch) \in Nat
      /\ \A i \in DOMAIN batch : i \in DOMAIN batch' /\ batch'[i] = batch[i] /\ i < Len(batch) + 1
      /\ batch'[Len(batch) + 1] = queue[1]
      /\ \A i \in DOMAIN batch' : i \in Nat /\ (i \in DOMAIN batch \/ i = Len(batch) + 1)
  BY <1>1, <1>2
<1>4. LogTypes'
  BY <1>1, <1>2, <1>3 DEF LogInv, LogTypes
<1>5. Sorted(queue)'
  <2>1. ASSUME NEW i \in DOMAIN queue', NEW j \in DOMAIN queue', i < j PROVE queue'[i] < queue'[j]
    BY <1>2, <2>1 DEF LogInv, InOrder, Sorted
  <2> QED
    BY <2>1 DEF Sorted
<1>6. Sorted(batch)'
  <2>1. ASSUME NEW i \in DOMAIN batch', NEW j \in DOMAIN batch', i < j PROVE batch'[i] < batch'[j]
    <3>1. i \in DOMAIN batch
      BY <1>3, <2>1
    <3> QED
      BY <1>2, <1>3, <2>1, <3>1 DEF LogInv, InOrder, Sorted
  <2> QED
    BY <2>1 DEF Sorted
<1>7. \A i \in DOMAIN batch', j \in DOMAIN queue' : batch'[i] < queue'[j]
  BY <1>2, <1>3 DEF LogInv, InOrder, Sorted
<1>8. InOrder'
  BY <1>1, <1>2, <1>3, <1>5, <1>6, <1>7 DEF LogInv, InOrder
<1>9. GivenUp'
  BY <1>1, <1>2, <1>3 DEF LogInv, GivenUp
<1> QED
  BY <1>4, <1>8, <1>9 DEF LogInv

(* A row after a commit is an old one, or the one of a record of the batch. *)
Stored(i) == [id |-> lastId + i, record |-> batch[i]]

LEMMA CommitRows ==
  ASSUME LogTypes, CommitStored
  PROVE  /\ \A r \in rows' : r \in rows \/ \E i \in DOMAIN batch : r = Stored(i)
         /\ \A r \in rows : r \in rows' /\ r.id \in 1..lastId
         /\ \A i \in DOMAIN batch : /\ i \in Nat /\ lastId + i > lastId
                                    /\ lastId + i \in 1..lastId'
                                    /\ Stored(i).id = lastId + i /\ Stored(i).record = batch[i]
         /\ lastId' \in Nat /\ lastId' >= lastId
<1>1. /\ batch \in Seq(Nat) /\ lastId \in Nat /\ lastId' = lastId + Len(batch)
      /\ rows \in SUBSET [id : 1..lastId, record : 1..Len(sent)]
      /\ rows' = rows \cup {[id |-> lastId + i, record |-> batch[i]] : i \in DOMAIN batch}
  BY DEF LogTypes, CommitStored
<1>2. Len(batch) \in Nat /\ \A i \in DOMAIN batch : i \in Nat /\ 1 <= i /\ i <= Len(batch)
  BY <1>1
<1>3. \A i \in DOMAIN batch : lastId + i > lastId /\ lastId + i \in 1..lastId'
  BY <1>1, <1>2
<1>4. \A i \in DOMAIN batch : Stored(i).id = lastId + i /\ Stored(i).record = batch[i]
  BY DEF Stored
<1>5. \A r \in rows' : r \in rows \/ \E i \in DOMAIN batch : r = Stored(i)
  BY <1>1 DEF Stored
<1>6. lastId' \in Nat /\ lastId' >= lastId
  BY <1>1, <1>2
<1>7. \A r \in rows : r \in rows' /\ r.id \in 1..lastId
  BY <1>1
<1> QED
  BY <1>2, <1>3, <1>4, <1>5, <1>6, <1>7

LEMMA CommitStoredKeeps ==
  ASSUME LogInv, CommitStored
  PROVE  LogInv'
<1>1. /\ lastId \in Nat /\ rows \in SUBSET [id : 1..lastId, record : 1..Len(sent)]
      /\ batch' = <<>> /\ queue' = queue /\ sent' = sent /\ lost' = lost
  BY DEF LogInv, LogTypes, CommitStored
<1>2. LogTypes
  BY DEF LogInv
<1>3. \A r \in rows' : r \in rows \/ \E i \in DOMAIN batch : r = Stored(i)
  BY <1>2, CommitRows
<1>4. \A r \in rows : r \in rows' /\ r.id \in 1..lastId
  BY <1>2, CommitRows
<1>5. \A i \in DOMAIN batch : /\ i \in Nat /\ lastId + i > lastId /\ lastId + i \in 1..lastId'
                              /\ Stored(i).id = lastId + i /\ Stored(i).record = batch[i]
  BY <1>2, CommitRows
<1>6. lastId' \in Nat /\ lastId' >= lastId
  BY <1>2, CommitRows
<1>7. \A i \in DOMAIN batch : batch[i] \in 1..Len(sent)
  BY <1>2 DEF LogTypes
<1>8. \A r \in rows' : r \in [id : 1..lastId', record : 1..Len(sent)]
  <2>1. \A r \in rows : r \in [id : 1..lastId', record : 1..Len(sent)]
    BY <1>1, <1>6
  <2>2. \A i \in DOMAIN batch : Stored(i) \in [id : 1..lastId', record : 1..Len(sent)]
    BY <1>5, <1>7 DEF Stored
  <2> QED
    BY <1>3, <2>1, <2>2
<1>9. LogTypes'
  BY <1>1, <1>2, <1>6, <1>8 DEF LogTypes
<1>10. \A r \in rows' : \A j \in DOMAIN queue : r.record < queue[j]
  BY <1>3, <1>5 DEF LogInv, InOrder
<1>11. \A r, q \in rows' : r.id < q.id <=> r.record < q.record
  <2>1. ASSUME NEW r \in rows', NEW q \in rows' PROVE r.id < q.id <=> r.record < q.record
    <3>1. CASE r \in rows /\ q \in rows
      BY <3>1 DEF LogInv, InOrder
    <3>2. CASE r \in rows /\ \E i \in DOMAIN batch : q = Stored(i)
      <4>1. PICK i \in DOMAIN batch : q = Stored(i)
        BY <3>2
      <4>2. r.record < batch[i]
        BY <3>2 DEF LogInv, InOrder
      <4>3. r.id < q.id
        BY <1>1, <1>4, <1>5, <3>2, <4>1
      <4> QED
        BY <1>5, <4>1, <4>2, <4>3
    <3>3. CASE q \in rows /\ \E i \in DOMAIN batch : r = Stored(i)
      <4>1. PICK i \in DOMAIN batch : r = Stored(i)
        BY <3>3
      <4>2. q.record < batch[i] /\ q.record \in Nat /\ batch[i] \in Nat
        BY <1>1, <1>7, <3>3 DEF LogInv, InOrder
      <4>3. q.id < r.id /\ q.id \in Nat /\ r.id \in Nat
        BY <1>1, <1>4, <1>5, <3>3, <4>1
      <4> QED
        BY <1>5, <4>1, <4>2, <4>3
    <3>4. ASSUME NEW i \in DOMAIN batch, NEW j \in DOMAIN batch, r = Stored(i), q = Stored(j)
          PROVE  r.id < q.id <=> r.record < q.record
      <4>1. r.id < q.id <=> i < j
        BY <1>1, <1>5, <3>4
      <4>2. i < j => batch[i] < batch[j]
        BY DEF LogInv, InOrder, Sorted
      <4>3. j < i => batch[j] < batch[i]
        BY DEF LogInv, InOrder, Sorted
      <4>4. i \in Nat /\ j \in Nat /\ batch[i] \in Nat /\ batch[j] \in Nat
        BY <1>5, <1>7
      <4> QED
        BY <1>5, <3>4, <4>1, <4>2, <4>3, <4>4
    <3> QED
      BY <1>3, <3>1, <3>2, <3>3, <3>4
  <2> QED
    BY <2>1
<1>12. InOrder'
  <2>1. Sorted(queue)' /\ Sorted(batch)'
    BY <1>1 DEF LogInv, InOrder, Sorted
  <2> QED
    BY <1>1, <1>10, <1>11, <2>1 DEF InOrder
<1>13. GivenUp'
  BY <1>1, <1>3, <1>5 DEF LogInv, GivenUp
<1> QED
  BY <1>9, <1>12, <1>13 DEF LogInv

LEMMA CommitFailsKeeps ==
  ASSUME LogInv, CommitFails
  PROVE  LogInv'
<1>1. /\ batch' = <<>> /\ queue' = queue /\ sent' = sent /\ rows' = rows /\ lastId' = lastId
      /\ lost' = lost \cup Range(batch)
  BY DEF CommitFails
<1>2. \A k : k \in Range(batch) <=> \E i \in DOMAIN batch : k = batch[i]
  BY DEF Range
<1>3. LogTypes'
  <2>1. Range(batch) \subseteq 1..Len(sent)
    BY <1>2 DEF LogInv, LogTypes
  <2>2. lost' \in SUBSET (1..Len(sent'))
    BY <1>1, <2>1 DEF LogInv, LogTypes
  <2>3. batch' \in Seq(Nat) /\ DOMAIN batch' = {}
    BY <1>1
  <2> QED
    BY <1>1, <2>2, <2>3 DEF LogInv, LogTypes
<1>4. InOrder'
  BY <1>1 DEF LogInv, InOrder, Sorted
<1>5. \A i \in DOMAIN queue : queue[i] \notin Range(batch)
  BY <1>2 DEF LogInv, LogTypes, InOrder
<1>6. \A r \in rows : r.record \notin Range(batch)
  BY <1>2 DEF LogInv, LogTypes, InOrder
<1>7. GivenUp'
  BY <1>1, <1>5, <1>6 DEF LogInv, GivenUp
<1> QED
  BY <1>3, <1>4, <1>7 DEF LogInv

LEMMA RestartKeeps ==
  ASSUME LogInv, Restart
  PROVE  LogInv'
<1>1. /\ batch' = <<>> /\ queue' = <<>> /\ sent' = sent /\ rows' = rows /\ lastId' = lastId
      /\ lost' = lost \cup Range(queue) \cup Range(batch)
  BY DEF Restart
<1>2. /\ \A k : k \in Range(batch) <=> \E i \in DOMAIN batch : k = batch[i]
      /\ \A k : k \in Range(queue) <=> \E i \in DOMAIN queue : k = queue[i]
  BY DEF Range
<1>3. LogTypes'
  <2>1. Range(batch) \subseteq 1..Len(sent) /\ Range(queue) \subseteq 1..Len(sent)
    BY <1>2 DEF LogInv, LogTypes
  <2>2. lost' \in SUBSET (1..Len(sent'))
    BY <1>1, <2>1 DEF LogInv, LogTypes
  <2>3. batch' \in Seq(Nat) /\ DOMAIN batch' = {} /\ queue' \in Seq(Nat) /\ DOMAIN queue' = {}
    BY <1>1
  <2> QED
    BY <1>1, <2>2, <2>3 DEF LogInv, LogTypes
<1>4. InOrder'
  BY <1>1 DEF LogInv, InOrder, Sorted
<1>5. \A r \in rows : r.record \notin Range(batch) /\ r.record \notin Range(queue)
  BY <1>2 DEF LogInv, LogTypes, InOrder
<1>6. GivenUp'
  BY <1>1, <1>5 DEF LogInv, GivenUp
<1> QED
  BY <1>3, <1>4, <1>6 DEF LogInv

(* Rows that are deleted leave the others as they are.                     *)
LEMMA FewerRowsKeep ==
  ASSUME LogInv, rows' \subseteq rows, UNCHANGED <<sent, queue, batch, lost, lastId>>
  PROVE  LogInv'
<1>1. LogTypes'
  BY DEF LogInv, LogTypes
<1>2. InOrder'
  BY DEF LogInv, InOrder, Sorted
<1>3. GivenUp'
  BY DEF LogInv, GivenUp
<1> QED
  BY <1>1, <1>2, <1>3 DEF LogInv

(* The steps that only delete rows, if they touch the log at all.          *)
Elsewhere ==
  /\ rows' \subseteq rows
  /\ UNCHANGED <<sent, queue, batch, lost, lastId>>

LEMMA RetentionElsewhere == Retention => Elsewhere
<1>1. TrimOld => Elsewhere
  BY DEF TrimOld, Without, Elsewhere, sinkVars
<1>2. ListVaults => Elsewhere
  BY DEF ListVaults, Elsewhere, sinkVars
<1>3. TrimEnds => Elsewhere
  BY DEF TrimEnds, Elsewhere, sinkVars
<1>4. DeleteRows => Elsewhere
  BY DEF DeleteRows, Without, Elsewhere, sinkVars
<1>5. TrimFails => Elsewhere
  BY DEF TrimFails, Elsewhere, sinkVars
<1>6. ASSUME NEW v \in Vaults PROVE DeleteVault(v) => Elsewhere
  BY DEF DeleteVault, Without, Elsewhere, sinkVars
<1>7. ASSUME NEW v \in Vaults PROVE CountRows(v) => Elsewhere
  BY DEF CountRows, Elsewhere, sinkVars
<1>8. ResolveRetention \/ Tune => Elsewhere
  BY DEF ResolveRetention, Tune, Elsewhere, sinkVars
<1> QED
  BY <1>1, <1>2, <1>3, <1>4, <1>5, <1>6, <1>7, <1>8 DEF Retention

LEMMA PageElsewhere == Page => Elsewhere
<1>1. Open => Elsewhere
  BY DEF Open, Elsewhere, sinkVars
<1>2. LoadMore => Elsewhere
  BY DEF LoadMore, Elsewhere, sinkVars
<1>3. ASSUME NEW p \in Polls PROVE Send(p) => Elsewhere
  BY DEF Send, Elsewhere, sinkVars
<1>4. ASSUME NEW p \in Polls PROVE Answer(p) => Elsewhere
  BY DEF Answer, Elsewhere, sinkVars
<1>5. ASSUME NEW p \in Polls PROVE Show(p) => Elsewhere
  BY DEF Show, Elsewhere, sinkVars
<1>6. ASSUME NEW p \in Polls PROVE PollFails(p) => Elsewhere
  BY DEF PollFails, Elsewhere, sinkVars
<1> QED
  BY <1>1, <1>2, <1>3, <1>4, <1>5, <1>6 DEF Page

LEMMA LogNext ==
  ASSUME LogInv, [Next]_vars
  PROVE  LogInv'
<1>1. ASSUME NEW v \in Vaults, Record(v) PROVE LogInv'
  BY <1>1, RecordKeeps
<1>2. CASE Receive
  BY <1>2, ReceiveKeeps
<1>3. CASE CommitStored
  BY <1>3, CommitStoredKeeps
<1>4. CASE CommitFails
  BY <1>4, CommitFailsKeeps
<1>5. CASE Restart
  BY <1>5, RestartKeeps
<1>6. CASE Tick \/ SeeDone \/ DrainEnds \/ Close
  <2>1. Elsewhere
    BY <1>6 DEF Tick, SeeDone, DrainEnds, Close, Elsewhere
  <2> QED
    BY <2>1, FewerRowsKeep DEF Elsewhere
<1>7. CASE Retention \/ Page
  BY <1>7, RetentionElsewhere, PageElsewhere, FewerRowsKeep DEF Elsewhere
<1>8. CASE UNCHANGED vars
  BY <1>8, FewerRowsKeep DEF vars, sinkVars
<1> QED
  BY <1>1, <1>2, <1>3, <1>4, <1>5, <1>6, <1>7, <1>8 DEF Next, Sink

LEMMA LogHolds == Spec => []LogInv
<1>1. Init => LogInv
  BY LogInit
<1>2. LogInv /\ [Next]_vars => LogInv'
  BY LogNext
<1> QED
  BY <1>1, <1>2, PTL DEF Spec

(* The log is in the order of the requests, no request is in it twice, nor *)
(* both in it and on its way or given up: one worker takes records from    *)
(* one channel, and a batch that may have been stored is not sent again    *)
(* (sqlite_sink.go).                                                       *)
THEOREM LoggedInOrderHolds == Spec => []LoggedInOrder
<1>1. LogInv => LoggedInOrder
  <2> SUFFICES ASSUME LogInv PROVE LoggedInOrder
    OBVIOUS
  <2>1. ASSUME NEW k \in Logged PROVE k \notin Range(queue) \cup Range(batch) \cup lost
    <3>1. PICK r \in rows : k = r.record
      BY DEF Logged
    <3>2. r.record \in Nat
      BY DEF LogInv, LogTypes
    <3>3. \A i \in DOMAIN queue : k # queue[i]
      BY <3>1, <3>2 DEF LogInv, LogTypes, InOrder
    <3>4. \A i \in DOMAIN batch : k # batch[i]
      BY <3>1, <3>2 DEF LogInv, LogTypes, InOrder
    <3>5. k \notin lost
      BY <3>1 DEF LogInv, GivenUp
    <3> QED
      BY <3>3, <3>4, <3>5 DEF Range
  <2>2. \A r, q \in rows : r.id < q.id <=> r.record < q.record
    BY DEF LogInv, InOrder
  <2> QED
    BY <2>1, <2>2 DEF LoggedInOrder
<1> QED
  BY <1>1, LogHolds, PTL

(***************************************************************************)
(* The listing, and the ids of the vault on the page.                      *)
(***************************************************************************)
LEMMA IdsAre ==
  ASSUME LogTypes, NEW v
  PROVE  IdsOf(v) \in SUBSET (1..lastId) /\ IdsOf(v) \in SUBSET (0..lastId) /\ lastId \in Nat
<1>1. lastId \in Nat /\ rows \in SUBSET [id : 1..lastId, record : 1..Len(sent)]
  BY DEF LogTypes
<1>2. IdsOf(v) \in SUBSET (1..lastId)
  BY <1>1 DEF IdsOf
<1> QED
  BY <1>1, <1>2

Shows(before, after, i) == (before > 0 => i < before) /\ i > after

(* Forwards, a listing holds every row up to its latest id; backwards,     *)
(* every row that the next page will not hold.                             *)
LEMMA ListingIs ==
  ASSUME LogTypes, NEW before \in Nat, NEW after \in 0..lastId
  PROVE  LET l == Listing(before, after)
         IN  /\ l.ids \in SUBSET IdsOf(Viewed)
             /\ l.latest \in 0..lastId /\ l.next \in Nat
             /\ after > 0 => \A i \in IdsOf(Viewed) :
                                Shows(before, after, i) /\ i <= l.latest => i \in l.ids
             /\ after = 0 => \A i \in IdsOf(Viewed) :
                                Shows(before, after, i) => i \in l.ids \/ i < l.next
<1> DEFINE found == {i \in IdsOf(Viewed) : (before > 0 => i < before) /\ i > after}
           page  == IF after > 0 THEN Smallest(found, PageSize) ELSE Largest(found, PageSize)
           l     == Listing(before, after)
<1>1. /\ l.ids = page
      /\ l.latest = (IF page = {} THEN after ELSE Max(page))
      /\ l.next = (IF after = 0 /\ Cardinality(page) = PageSize THEN Min(page) ELSE 0)
  BY DEF Listing
<1>2. lastId \in Nat /\ found \in SUBSET (0..lastId) /\ PageSize \in Nat /\ PageSize > 0
  BY IdsAre, ViewedAssumption
<1>3. \A i \in IdsOf(Viewed) : Shows(before, after, i) <=> i \in found
  BY DEF Shows
<1> HIDE DEF found
<1>4. page \in SUBSET found
  BY DEF Smallest, Largest
<1>5. found \in SUBSET IdsOf(Viewed)
  BY DEF found
<1>6. page # {} => Max(page) \in page /\ \A j \in page : j <= Max(page)
  <2>1. page \in SUBSET (0..lastId)
    BY <1>2, <1>4
  <2> HIDE DEF page
  <2> QED
    BY <1>2, <2>1, MaxIs
<1>7. page # {} => Min(page) \in page /\ \A j \in page : Min(page) <= j
  <2>1. page \in SUBSET Nat
    <3>1. \A k \in 0..lastId : k \in Nat
      OBVIOUS
    <3>2. \A k \in page : k \in 0..lastId
      BY <1>2, <1>4
    <3> HIDE DEF page
    <3> QED
      BY <3>1, <3>2
  <2> HIDE DEF page
  <2> QED
    BY <2>1, MinIs
<1>8. l.latest \in 0..lastId
  <2>1. CASE page = {}
    BY <1>1, <2>1
  <2>2. CASE page # {}
    BY <1>1, <1>2, <1>4, <1>6, <2>2
  <2> QED
    BY <2>1, <2>2
<1>9. Cardinality(page) = PageSize => page # {}
  BY <1>2, FS_EmptySet
<1>10. l.next \in Nat
  <2>1. CASE after = 0 /\ Cardinality(page) = PageSize
    <3>1. Min(page) \in 0..lastId
      BY <1>2, <1>4, <1>7, <1>9, <2>1
    <3>2. l.next = Min(page)
      BY <1>1, <2>1
    <3> HIDE DEF page, l
    <3> QED
      BY <3>1, <3>2
  <2>2. CASE ~(after = 0 /\ Cardinality(page) = PageSize)
    BY <1>1, <2>2
  <2> QED
    BY <2>1, <2>2
<1>11. ASSUME after > 0, NEW i \in found, i <= l.latest PROVE i \in page
  <2>1. page = Smallest(found, PageSize)
    BY <1>11
  <2>2. i > after /\ i \in Nat /\ after \in Nat
    BY <1>2, <1>11 DEF found
  <2>3. page # {}
    BY <1>1, <1>11, <2>2
  <2>4. Max(page) \in Smallest(found, PageSize) /\ i <= Max(page)
    BY <1>1, <1>6, <1>11, <2>1, <2>3
  <2> QED
    BY <1>2, <2>1, <2>4, SmallestBelow
<1>12. ASSUME after = 0, NEW i \in found, i \notin page PROVE i < l.next
  <2>1. page = Largest(found, PageSize)
    BY <1>12
  <2>2. Cardinality(page) = PageSize
    BY <1>2, <1>12, <2>1, LargestCount
  <2>3. l.next = Min(page) /\ Min(page) \in Largest(found, PageSize)
    BY <1>1, <1>7, <1>9, <1>12, <2>1, <2>2
  <2>4. i \in found \ Largest(found, PageSize)
    BY <1>12, <2>1
  <2> QED
    BY <1>2, <2>3, <2>4, LargestAbove
<1>13. l.ids \in SUBSET IdsOf(Viewed)
  BY <1>1, <1>4, <1>5
<1>14. after > 0 => \A i \in IdsOf(Viewed) :
                       Shows(before, after, i) /\ i <= l.latest => i \in l.ids
  BY <1>1, <1>3, <1>11
<1>15. after = 0 => \A i \in IdsOf(Viewed) :
                       Shows(before, after, i) => i \in l.ids \/ i < l.next
  BY <1>1, <1>3, <1>12
<1> HIDE DEF page, l
<1> QED
  BY <1>8, <1>10, <1>13, <1>14, <1>15 DEF l

(* A step takes ids away or adds ids that no row has had.                  *)
LEMMA IdsGrow ==
  ASSUME LogInv, [Next]_vars
  PROVE  /\ lastId' \in Nat /\ lastId <= lastId'
         /\ \A i \in IdsOf(Viewed)' : i \in Nat /\ (i \in IdsOf(Viewed) \/ i > lastId)
<1>0. LogTypes
  BY DEF LogInv
<1>1. /\ lastId \in Nat /\ sent \in Seq(Vaults)
      /\ \A r \in rows : r.record \in 1..Len(sent)
  BY <1>0 DEF LogTypes
<1>2. \A i : i \in IdsOf(Viewed)' <=> \E r \in rows' : sent'[r.record] = Viewed /\ i = r.id
  BY DEF IdsOf
<1>3. \A r \in rows : sent[r.record] = Viewed => r.id \in IdsOf(Viewed)
  BY DEF IdsOf
<1>4. \A i \in IdsOf(Viewed)' : i \in Nat
  <2>1. LogTypes'
    BY LogNext DEF LogInv
  <2> QED
    BY <1>2, <2>1 DEF LogTypes
<1>5. ASSUME Elsewhere
      PROVE  /\ lastId' \in Nat /\ lastId <= lastId'
             /\ \A i \in IdsOf(Viewed)' : i \in IdsOf(Viewed) \/ i > lastId
  BY <1>1, <1>2, <1>4, <1>3, <1>5 DEF Elsewhere
<1>6. CASE \E v \in Vaults : Record(v)
  <2>1. PICK v \in Vaults : Record(v)
    BY <1>6
  <2>2. sent' = Append(sent, v) /\ rows' = rows /\ lastId' = lastId
    BY <2>1 DEF Record
  <2>3. \A r \in rows : sent'[r.record] = sent[r.record]
    BY <1>1, <2>2
  <2> QED
    BY <1>1, <1>2, <1>4, <1>3, <2>2, <2>3
<1>7. CASE CommitStored
  <2>1. /\ \A r \in rows' : r \in rows \/ \E i \in DOMAIN batch : r = Stored(i)
        /\ \A i \in DOMAIN batch : lastId + i > lastId /\ Stored(i).id = lastId + i
        /\ lastId' \in Nat /\ lastId' >= lastId
    BY <1>0, <1>7, CommitRows
  <2>2. sent' = sent
    BY <1>7 DEF CommitStored
  <2>3. ASSUME NEW r \in rows', sent'[r.record] = Viewed PROVE r.id \in IdsOf(Viewed) \/ r.id > lastId
    BY <1>3, <2>1, <2>2, <2>3
  <2> QED
    BY <1>1, <1>2, <1>4, <2>1, <2>3
<1>8. CASE Receive \/ Tick \/ SeeDone \/ DrainEnds \/ CommitFails \/ Close \/ Restart \/ UNCHANGED vars
  <2>1. UNCHANGED <<rows, sent, lastId>>
    BY <1>8 DEF Receive, Tick, SeeDone, DrainEnds, CommitFails, Close, Restart, vars, sinkVars
  <2> QED
    BY <1>1, <1>2, <1>4, <1>3, <2>1
<1>9. CASE Retention \/ Page
  BY <1>4, <1>5, <1>9, RetentionElsewhere, PageElsewhere
<1> QED
  BY <1>6, <1>7, <1>8, <1>9 DEF Next, Sink

(***************************************************************************)
(* The page that follows the log.                                          *)
(***************************************************************************)
ViewIn == [ready : BOOLEAN, started : Nat, latest : Nat, older : Nat, shown : SUBSET Nat]
PollIn == [step : {"none", "sent", "answered"}, after : Nat, ids : SUBSET Nat, latest : Nat]

PageTypes ==
  /\ view \in ViewIn /\ view.started <= view.latest /\ view.latest <= lastId
  /\ polls \in [Polls -> PollIn]
  /\ ~view.ready => view.started = 0 /\ \A p \in Polls : polls[p].step = "none"

(* A poll asks for the rows after a cursor the page has reached, and       *)
(* brings all of them up to the latest one it tells.                       *)
PollSound(p) ==
  /\ p.step # "none" => view.started <= p.after /\ p.after <= view.latest
  /\ p.step = "answered" =>
       /\ p.latest <= lastId
       /\ view.started > 0 => \A i \in IdsOf(Viewed) : p.after < i /\ i <= p.latest => i \in p.ids

PageInv ==
  /\ PageTypes
  /\ \A p \in Polls : PollSound(polls[p])
  /\ TailHasNoGap

LEMMA PageInit == Init => PageInv
<1> SUFFICES ASSUME Init PROVE PageInv
  OBVIOUS
<1>1. view = Closed /\ polls = [p \in Polls |-> NoPoll] /\ lastId = 0
  BY DEF Init
<1>2. view \in ViewIn /\ view.started = 0 /\ view.latest = 0 /\ ~view.ready
  BY <1>1 DEF Closed, ViewIn
<1>3. NoPoll \in PollIn /\ NoPoll.step = "none"
  BY DEF NoPoll, PollIn
<1>4. polls \in [Polls -> PollIn] /\ \A p \in Polls : polls[p].step = "none"
  BY <1>1, <1>3
<1>5. PageTypes
  BY <1>1, <1>2, <1>4 DEF PageTypes
<1>6. \A p \in Polls : PollSound(polls[p])
  BY <1>4 DEF PollSound
<1> QED
  BY <1>2, <1>5, <1>6 DEF PageInv, TailHasNoGap

(* Steps that leave the page alone: a row that is new lies beyond every    *)
(* cursor.                                                                 *)
LEMMA PageStays ==
  ASSUME LogInv, PageInv, [Next]_vars, view' = view,
         polls' = polls \/ polls' = [p \in Polls |-> NoPoll]
  PROVE  PageInv'
<1>1. /\ lastId \in Nat /\ lastId' \in Nat /\ lastId <= lastId'
      /\ \A i \in IdsOf(Viewed)' : i \in Nat /\ (i \in IdsOf(Viewed) \/ i > lastId)
  BY IdsGrow DEF LogInv, LogTypes
<1>2. NoPoll \in PollIn /\ NoPoll.step = "none"
  BY DEF NoPoll, PollIn
<1>3. view \in ViewIn /\ view.latest \in Nat /\ view.latest <= lastId
  BY DEF PageInv, PageTypes, ViewIn
<1>4. polls' \in [Polls -> PollIn] /\ \A p \in Polls : polls'[p] = polls[p] \/ polls'[p] = NoPoll
  BY <1>2 DEF PageInv, PageTypes
<1>5. PageTypes'
  <2>1. view'.latest <= lastId'
    BY <1>1, <1>3
  <2> QED
    BY <1>2, <1>3, <1>4, <2>1 DEF PageInv, PageTypes
<1>6. ASSUME NEW p \in Polls PROVE PollSound(polls[p])'
  <2>1. CASE polls'[p] = NoPoll
    BY <1>2, <2>1 DEF PollSound
  <2>2. CASE polls'[p] = polls[p]
    <3>1. PollSound(polls[p]) /\ polls[p] \in PollIn /\ polls[p].latest \in Nat
      BY DEF PageInv, PageTypes, PollIn
    <3>2. polls[p].step # "none" => view.started <= polls[p].after /\ polls[p].after <= view.latest
      BY <3>1 DEF PollSound
    <3>3. ASSUME polls[p].step = "answered"
          PROVE  /\ polls[p].latest <= lastId'
                 /\ view.started > 0 => \A i \in IdsOf(Viewed)' :
                      polls[p].after < i /\ i <= polls[p].latest => i \in polls[p].ids
      <4>1. polls[p].latest <= lastId
        BY <3>1, <3>3 DEF PollSound
      <4>2. \A i \in IdsOf(Viewed)' : i \in Nat
        BY <1>1
      <4>3. \A i \in IdsOf(Viewed)' : i <= polls[p].latest => i \in IdsOf(Viewed)
        BY <1>1, <3>1, <4>1, <4>2
      <4> QED
        BY <1>1, <3>1, <3>3, <4>1, <4>3 DEF PollSound
    <3> QED
      BY <2>2, <3>2, <3>3 DEF PollSound
  <2> QED
    BY <1>4, <2>1, <2>2
<1>7. TailHasNoGap'
  <2>1. \A i \in IdsOf(Viewed)' : i <= view.latest => i \in IdsOf(Viewed)
    BY <1>1, <1>3
  <2> QED
    BY <2>1 DEF PageInv, TailHasNoGap, NoGap
<1> QED
  BY <1>5, <1>6, <1>7 DEF PageInv

(* Steps of the page read the table and leave it as it is.                 *)
Same == UNCHANGED <<rows, sent, lastId>>

LEMMA SameIds == Same => IdsOf(Viewed)' = IdsOf(Viewed)
  BY DEF Same, IdsOf

LEMMA PollChanges ==
  ASSUME PageInv, Same, view' = view, NEW p \in Polls, NEW q \in PollIn,
         PollSound(q), q.step # "none" => view.ready,
         polls' = [polls EXCEPT ![p] = q]
  PROVE  PageInv'
<1>1. IdsOf(Viewed)' = IdsOf(Viewed) /\ lastId' = lastId
  BY SameIds DEF Same
<1>2. polls' \in [Polls -> PollIn] /\ polls'[p] = q /\ \A o \in Polls : o # p => polls'[o] = polls[o]
  BY DEF PageInv, PageTypes
<1>3. PageTypes'
  BY <1>1, <1>2 DEF PageInv, PageTypes
<1>4. ASSUME NEW o \in Polls PROVE PollSound(polls[o])'
  <2>1. PollSound(polls'[o])
    BY <1>2 DEF PageInv
  <2> QED
    BY <1>1, <2>1 DEF PollSound
<1>5. TailHasNoGap'
  BY <1>1 DEF PageInv, TailHasNoGap, NoGap
<1> QED
  BY <1>3, <1>4, <1>5 DEF PageInv

LEMMA SendKeeps ==
  ASSUME LogInv, PageInv, NEW p \in Polls, Send(p)
  PROVE  PageInv'
<1> DEFINE q == [NoPoll EXCEPT !.step = "sent", !.after = view.latest]
<1>1. view.latest \in Nat /\ view.started <= view.latest
  BY DEF PageInv, PageTypes, ViewIn
<1>2. NoPoll \in PollIn
  BY DEF NoPoll, PollIn
<1>3. q \in PollIn /\ q.step = "sent" /\ q.after = view.latest
  BY <1>1, <1>2 DEF PollIn
<1>4. PollSound(q)
  BY <1>1, <1>3 DEF PollSound
<1>5. Same /\ view' = view /\ view.ready /\ polls' = [polls EXCEPT ![p] = q]
  BY DEF Send, Same, sinkVars
<1> HIDE DEF q
<1> QED
  BY <1>3, <1>4, <1>5, PollChanges

LEMMA AnswerKeeps ==
  ASSUME LogInv, PageInv, NEW p \in Polls, Answer(p)
  PROVE  PageInv'
<1> DEFINE l == Listing(0, polls[p].after)
           q == [step |-> "answered", after |-> polls[p].after, ids |-> l.ids, latest |-> l.latest]
<1>1. /\ polls[p] \in PollIn /\ polls[p].after \in Nat /\ polls[p].step = "sent"
      /\ view.latest \in Nat /\ view.started \in Nat /\ view.latest <= lastId
      /\ PollSound(polls[p])
  BY DEF PageInv, PageTypes, ViewIn, PollIn, Answer
<1>2. view.started <= polls[p].after /\ polls[p].after <= view.latest
  BY <1>1 DEF PollSound
<1>3. LogTypes /\ lastId \in Nat /\ 0 \in Nat /\ polls[p].after \in 0..lastId
  BY <1>1, <1>2 DEF LogInv, LogTypes
<1>4. /\ l.ids \in SUBSET IdsOf(Viewed) /\ l.latest \in 0..lastId
      /\ polls[p].after > 0 =>
           \A i \in IdsOf(Viewed) : Shows(0, polls[p].after, i) /\ i <= l.latest => i \in l.ids
  BY <1>3, ListingIs
<1> HIDE DEF l
<1>5. l.ids \in SUBSET Nat /\ l.latest \in Nat /\ l.latest <= lastId
  <2>1. IdsOf(Viewed) \in SUBSET (1..lastId)
    BY <1>3, IdsAre
  <2>2. 1..lastId \in SUBSET Nat
    OBVIOUS
  <2>3. l.ids \in SUBSET Nat
    BY <1>4, <2>1, <2>2
  <2> QED
    BY <1>3, <1>4, <2>3
<1>6. /\ q.step = "answered" /\ q.after = polls[p].after /\ q.ids = l.ids /\ q.latest = l.latest
      /\ q \in PollIn
  BY <1>1, <1>5 DEF PollIn
<1>7. view.started > 0 =>
        \A i \in IdsOf(Viewed) : polls[p].after < i /\ i <= l.latest => i \in l.ids
  <2>1. \A i \in IdsOf(Viewed) : i \in Nat
    BY <1>3, IdsAre
  <2>2. view.started > 0 => polls[p].after > 0
    BY <1>1, <1>2
  <2>3. \A i \in IdsOf(Viewed) : polls[p].after < i => Shows(0, polls[p].after, i)
    BY <1>1, <2>1 DEF Shows
  <2> QED
    BY <1>4, <2>2, <2>3
<1>8. Same /\ view' = view /\ polls' = [polls EXCEPT ![p] = q]
  BY DEF Answer, Same, sinkVars, l
<1> HIDE DEF q
<1>9. PollSound(q)
  BY <1>2, <1>5, <1>6, <1>7 DEF PollSound
<1>10. view.ready
  BY <1>1 DEF PageInv, PageTypes
<1> QED
  BY <1>6, <1>8, <1>9, <1>10, PollChanges

LEMMA PollFailsKeeps ==
  ASSUME LogInv, PageInv, NEW p \in Polls, PollFails(p)
  PROVE  PageInv'
<1>1. NoPoll \in PollIn /\ NoPoll.step = "none"
  BY DEF NoPoll, PollIn
<1>2. Same /\ view' = view /\ polls' = [polls EXCEPT ![p] = NoPoll]
  BY DEF PollFails, Same, sinkVars
<1>3. PollSound(NoPoll)
  BY <1>1 DEF PollSound
<1> QED
  BY <1>1, <1>2, <1>3, PollChanges

(* The page shows an answer: the rows between its old cursor and the new   *)
(* one are after the cursor the poll was sent with.                        *)
LEMMA ShowKeeps ==
  ASSUME LogInv, PageInv, NEW p \in Polls, Show(p)
  PROVE  PageInv'
<1> DEFINE top == Max({view.latest, polls[p].latest})
<1>1. /\ view \in ViewIn /\ view.latest \in Nat /\ view.started \in Nat /\ view.shown \in SUBSET Nat
      /\ view.latest <= lastId /\ lastId \in Nat /\ view.started <= view.latest
      /\ polls[p] \in PollIn /\ polls[p].latest \in Nat /\ polls[p].after \in Nat
      /\ polls[p].ids \in SUBSET Nat
      /\ PollSound(polls[p]) /\ polls[p].step = "answered" /\ view.ready
  BY DEF LogInv, LogTypes, PageInv, PageTypes, ViewIn, PollIn, Show
<1>2. /\ polls[p].after <= view.latest /\ polls[p].latest <= lastId
      /\ view.started > 0 => \A i \in IdsOf(Viewed) :
            polls[p].after < i /\ i <= polls[p].latest => i \in polls[p].ids
  BY <1>1 DEF PollSound
<1>3. /\ top \in {view.latest, polls[p].latest}
      /\ view.latest <= top /\ polls[p].latest <= top
  <2>1. {view.latest, polls[p].latest} \in SUBSET (0..lastId)
    BY <1>1, <1>2
  <2> QED
    BY <1>1, <2>1, MaxIs
<1>4. /\ view' = [view EXCEPT !.shown = @ \cup polls[p].ids, !.latest = top]
      /\ polls' = [polls EXCEPT ![p] = NoPoll]
      /\ Same
  BY DEF Show, Same, sinkVars
<1> HIDE DEF top
<1>5. top \in Nat /\ top <= lastId /\ view.started <= top
  BY <1>1, <1>2, <1>3
<1>6. /\ view'.shown = view.shown \cup polls[p].ids /\ view'.latest = top
      /\ view'.started = view.started /\ view'.ready = view.ready /\ view'.older = view.older
      /\ view' \in ViewIn
  BY <1>1, <1>4, <1>5 DEF ViewIn
<1>7. NoPoll \in PollIn /\ NoPoll.step = "none"
  BY DEF NoPoll, PollIn
<1>8. polls' \in [Polls -> PollIn] /\ \A o \in Polls : polls'[o] = polls[o] \/ polls'[o] = NoPoll
  BY <1>4, <1>7 DEF PageInv, PageTypes
<1>9. IdsOf(Viewed)' = IdsOf(Viewed) /\ lastId' = lastId
  BY <1>4, SameIds DEF Same
<1>10. PageTypes'
  BY <1>1, <1>5, <1>6, <1>8, <1>9 DEF PageTypes
<1>11. ASSUME NEW o \in Polls PROVE PollSound(polls[o])'
  <2>1. CASE polls'[o] = NoPoll
    BY <1>7, <2>1 DEF PollSound
  <2>2. CASE polls'[o] = polls[o]
    <3>1. PollSound(polls[o]) /\ polls[o].after \in Nat
      BY DEF PageInv, PageTypes, PollIn
    <3>2. polls[o].after <= view.latest => polls[o].after <= view'.latest
      BY <1>1, <1>3, <1>5, <1>6, <3>1
    <3> QED
      BY <1>6, <1>9, <2>2, <3>1, <3>2 DEF PollSound
  <2> QED
    BY <1>8, <2>1, <2>2
<1>12. TailHasNoGap'
  <2> SUFFICES ASSUME view.started > 0, NEW i \in IdsOf(Viewed), i <= top
               PROVE  i \in view.shown \cup polls[p].ids \/ i < view.older
    BY <1>6, <1>9 DEF TailHasNoGap, NoGap
  <2>1. i \in Nat
    BY IdsAre DEF LogInv
  <2>2. CASE i <= view.latest
    BY <2>2 DEF PageInv, TailHasNoGap, NoGap
  <2>3. CASE ~(i <= view.latest)
    <3>1. polls[p].after < i /\ i <= polls[p].latest
      BY <1>1, <1>2, <1>3, <2>1, <2>3
    <3> QED
      BY <1>2, <3>1
  <2> QED
    BY <2>2, <2>3
<1> QED
  BY <1>10, <1>11, <1>12 DEF PageInv

LEMMA OpenKeeps ==
  ASSUME LogInv, PageInv, Open
  PROVE  PageInv'
<1> DEFINE l == Listing(0, 0)
<1>1. LogTypes /\ lastId \in Nat /\ 0 \in Nat /\ 0 \in 0..lastId
  BY DEF LogInv, LogTypes
<1>2. /\ l.ids \in SUBSET IdsOf(Viewed) /\ l.latest \in 0..lastId /\ l.next \in Nat
      /\ \A i \in IdsOf(Viewed) : Shows(0, 0, i) => i \in l.ids \/ i < l.next
  BY <1>1, ListingIs
<1>3. /\ view' = [ready |-> TRUE, started |-> l.latest, latest |-> l.latest,
                  older |-> l.next, shown |-> l.ids]
      /\ ~view.ready /\ polls' = polls /\ Same
  BY DEF Open, Same, sinkVars
<1> HIDE DEF l
<1>4. IdsOf(Viewed)' = IdsOf(Viewed) /\ lastId' = lastId
  BY <1>3, SameIds DEF Same
<1>5. \A i \in IdsOf(Viewed) : i \in Nat /\ i > 0
  BY <1>1, IdsAre
<1>6. l.ids \in SUBSET Nat /\ l.latest \in Nat /\ l.latest <= lastId
  BY <1>1, <1>2, <1>5
<1>7. /\ view'.ready = TRUE /\ view'.started = l.latest /\ view'.latest = l.latest
      /\ view'.older = l.next /\ view'.shown = l.ids /\ view' \in ViewIn
  BY <1>2, <1>3, <1>6 DEF ViewIn
<1>8. polls \in [Polls -> PollIn] /\ \A p \in Polls : polls[p].step = "none"
  BY <1>3 DEF PageInv, PageTypes
<1>9. PageTypes'
  BY <1>3, <1>4, <1>6, <1>7, <1>8 DEF PageTypes
<1>10. \A p \in Polls : PollSound(polls[p])'
  BY <1>3, <1>8 DEF PollSound
<1>11. TailHasNoGap'
  <2>1. \A i \in IdsOf(Viewed) : Shows(0, 0, i)
    BY <1>5 DEF Shows
  <2> QED
    BY <1>2, <1>4, <1>7, <2>1 DEF TailHasNoGap, NoGap
<1> QED
  BY <1>9, <1>10, <1>11 DEF PageInv

LEMMA LoadMoreKeeps ==
  ASSUME LogInv, PageInv, LoadMore
  PROVE  PageInv'
<1> DEFINE l == Listing(view.older, 0)
<1>1. LogTypes /\ lastId \in Nat /\ 0 \in 0..lastId /\ view.older \in Nat /\ view \in ViewIn
  BY DEF LogInv, LogTypes, PageInv, PageTypes, ViewIn
<1>2. /\ l.ids \in SUBSET IdsOf(Viewed) /\ l.next \in Nat
      /\ \A i \in IdsOf(Viewed) : Shows(view.older, 0, i) => i \in l.ids \/ i < l.next
  BY <1>1, ListingIs
<1>3. /\ view' = [view EXCEPT !.shown = @ \cup l.ids, !.older = l.next]
      /\ view.ready /\ polls' = polls /\ Same
  BY DEF LoadMore, Same, sinkVars
<1> HIDE DEF l
<1>4. IdsOf(Viewed)' = IdsOf(Viewed) /\ lastId' = lastId
  BY <1>3, SameIds DEF Same
<1>5. \A i \in IdsOf(Viewed) : i \in Nat /\ i > 0
  BY <1>1, IdsAre
<1>6. l.ids \in SUBSET Nat
  BY <1>2, <1>5
<1>7. /\ view'.shown = view.shown \cup l.ids /\ view'.older = l.next
      /\ view'.ready = view.ready /\ view'.started = view.started /\ view'.latest = view.latest
      /\ view' \in ViewIn
  BY <1>1, <1>2, <1>3, <1>6 DEF ViewIn
<1>8. PageTypes'
  BY <1>3, <1>4, <1>7 DEF PageInv, PageTypes
<1>9. ASSUME NEW p \in Polls PROVE PollSound(polls[p])'
  BY <1>3, <1>4, <1>7 DEF PageInv, PollSound
<1>10. TailHasNoGap'
  <2>1. \A i \in IdsOf(Viewed) : i < view.older => Shows(view.older, 0, i)
    BY <1>5 DEF Shows
  <2> QED
    BY <1>2, <1>4, <1>7, <2>1 DEF PageInv, TailHasNoGap, NoGap
<1> QED
  BY <1>8, <1>9, <1>10 DEF PageInv

LEMMA PageNext ==
  ASSUME LogInv, PageInv, [Next]_vars
  PROVE  PageInv'
<1>1. CASE Retention
  <2>1. view' = view /\ polls' = polls
    BY <1>1 DEF Retention, ResolveRetention, Tune, TrimOld, ListVaults, TrimEnds, DeleteRows,
                TrimFails, DeleteVault, CountRows, viewVars
  <2> QED
    BY <2>1, PageStays
<1>2. CASE Sink
  <2>1. view' = view /\ (polls' = polls \/ polls' = [p \in Polls |-> NoPoll])
    BY <1>2 DEF Sink, Record, Receive, Tick, SeeDone, DrainEnds, CommitStored, CommitFails,
                Close, Restart, viewVars
  <2> QED
    BY <2>1, PageStays
<1>3. CASE UNCHANGED vars
  BY <1>3, PageStays DEF vars, viewVars
<1>4. CASE Page
  BY <1>4, OpenKeeps, LoadMoreKeeps, SendKeeps, AnswerKeeps, ShowKeeps, PollFailsKeeps DEF Page
<1> QED
  BY <1>1, <1>2, <1>3, <1>4 DEF Next

(* A page that followed the log from a row on has no gap: every row up to  *)
(* its cursor is on it or in the history it can still load, although polls *)
(* overlap, answers come out of order and rows are trimmed beside them     *)
(* (LogsView.tsx, ListRequestLogs).                                        *)
THEOREM TailHasNoGapHolds == Spec => []TailHasNoGap
<1>1. Init => PageInv
  BY PageInit
<1>2. LogInv /\ PageInv /\ [Next]_vars => PageInv'
  BY PageNext
<1>3. PageInv => TailHasNoGap
  BY DEF PageInv
<1> QED
  BY <1>1, <1>2, <1>3, LogHolds, PTL DEF Spec

(***************************************************************************)
(* The retention cap.                                                      *)
(***************************************************************************)
LEMMA CapIsNumber ==
  ASSUME setting \in Settings, NEW s \in {setting, Unread(setting)}
  PROVE  CapOf(s) \in Nat /\ (Pinned => CapOf(s) = CapOf(setting))
<1>1. setting \in [env : Nat \cup {NoLimit}, stored : Nat \cup {NoLimit}, locked : BOOLEAN]
      /\ DefaultRows \in Nat
  BY SettingsAssumption
<1>2. CapOf(setting) \in Nat
  BY <1>1 DEF CapOf
<1>3. CASE s = Unread(setting)
  <2>1. s.env = setting.env /\ s.stored = NoLimit /\ s.locked = setting.locked
    BY <1>1, <1>3 DEF Unread
  <2> QED
    BY <1>1, <2>1 DEF CapOf, Pinned
<1> QED
  BY <1>2, <1>3

(* The cap of a pass is a number, no cap while no rows are counted, and    *)
(* what the environment says where it says something.                      *)
Steps == {"idle", "old", "list", "count"}
TrimType ==
  \/ trim \in [step : Steps, left : SUBSET Vaults, cap : Nat]
  \/ trim \in [step : {"delete"}, left : SUBSET Vaults, cap : Nat, at : Vaults]
CapInForce ==
  /\ trim.step \in {"count", "delete"} => trim.cap # 0
  /\ trim.step # "idle" /\ Pinned => trim.cap = CapOf(setting)
CapInv == setting \in Settings /\ TrimType /\ CapInForce

LEMMA CapInit == Init => CapInv
  BY DEF Init, CapInv, TrimType, Steps, CapInForce, Idle

(* A change of the stored setting changes nothing for a cap that the       *)
(* environment gives or locks.                                             *)
LEMMA TuneKeepsPins ==
  ASSUME CapInv, Tune
  PROVE  CapInv'
<1>1. /\ setting \in [env : Nat \cup {NoLimit}, stored : Nat \cup {NoLimit}, locked : BOOLEAN]
      /\ setting' \in Settings /\ setting' = [setting EXCEPT !.stored = setting'.stored]
  BY SettingsAssumption DEF CapInv, Tune
<1>2. setting'.env = setting.env /\ setting'.locked = setting.locked
  BY <1>1
<1>3. trim' = trim /\ Pinned' = Pinned /\ (Pinned => CapOf(setting') = CapOf(setting))
  BY <1>2 DEF Tune, Pinned, CapOf
<1> QED
  BY <1>1, <1>3 DEF CapInv, TrimType, CapInForce

(* The steps of a pass, once its cap is resolved.                          *)
LEMMA PassKeeps ==
  ASSUME CapInv, setting' = setting, TrimType',
         trim' = Idle \/ (trim'.cap = trim.cap /\ trim.step # "idle"),
         trim'.step \in {"count", "delete"} => trim'.cap # 0
  PROVE  CapInv'
<1>1. Pinned' = Pinned
  BY DEF Pinned
<1> QED
  BY <1>1 DEF CapInv, CapInForce, Idle

LEMMA CapNext ==
  ASSUME CapInv, [Next]_vars
  PROVE  CapInv'
<1> USE DEF CapInv
<1>1. CASE ResolveRetention
  <2>1. PICK s \in {setting, Unread(setting)} :
          trim' = [step |-> "old", left |-> {}, cap |-> CapOf(s)]
    BY <1>1 DEF ResolveRetention
  <2>2. setting' = setting /\ Pinned' = Pinned
    BY <1>1 DEF ResolveRetention, Pinned
  <2>3. CapOf(s) \in Nat /\ (Pinned => CapOf(s) = CapOf(setting))
    BY CapIsNumber
  <2> QED
    BY <2>1, <2>2, <2>3 DEF TrimType, Steps, CapInForce
<1>2. CASE Tune
  BY <1>2, TuneKeepsPins
<1>3. CASE TrimOld
  <2>1. trim \in [step : Steps, left : SUBSET Vaults, cap : Nat]
    BY <1>3 DEF TrimOld, TrimType, Steps
  <2>2. setting' = setting /\ trim' = [trim EXCEPT !.step = "list"] /\ trim.step = "old"
    BY <1>3 DEF TrimOld
  <2>3. TrimType' /\ trim'.cap = trim.cap /\ trim'.step = "list"
    BY <2>1, <2>2 DEF TrimType, Steps
  <2> QED
    BY <2>2, <2>3, PassKeeps
<1>4. CASE ListVaults
  <2>1. trim \in [step : Steps, left : SUBSET Vaults, cap : Nat]
    BY <1>4 DEF ListVaults, TrimType, Steps
  <2>2. setting' = setting /\ trim.step = "list"
    BY <1>4 DEF ListVaults
  <2>3. CASE trim' = Idle
    <3>1. TrimType' /\ trim'.step = "idle"
      BY <2>3 DEF Idle, TrimType, Steps
    <3> QED
      BY <2>2, <2>3, <3>1, PassKeeps
  <2>4. CASE /\ trim.cap # 0
             /\ trim' = [trim EXCEPT !.step = "count", !.left = {v \in Vaults : IdsOf(v) # {}}]
    <3>1. TrimType' /\ trim'.cap = trim.cap
      BY <2>1, <2>4 DEF TrimType, Steps
    <3> QED
      BY <2>2, <2>4, <3>1, PassKeeps
  <2> QED
    BY <1>4, <2>3, <2>4 DEF ListVaults
<1>5. CASE TrimEnds
  <2>1. TrimType' /\ trim'.step = "idle" /\ trim' = Idle /\ setting' = setting
    BY <1>5 DEF TrimEnds, Idle, TrimType, Steps
  <2> QED
    BY <2>1, PassKeeps
<1>6. CASE DeleteRows \/ TrimFails
  <2>1. setting' = setting /\ trim.step \in {"list", "delete"}
    BY <1>6 DEF DeleteRows, TrimFails
  <2>2. CASE trim' = Idle
    <3>1. TrimType' /\ trim'.step = "idle"
      BY <2>2 DEF Idle, TrimType, Steps
    <3> QED
      BY <2>1, <2>2, <3>1, PassKeeps
  <2>3. CASE trim.step = "delete" /\ trim' = [step |-> "count", left |-> trim.left, cap |-> trim.cap]
    <3>1. TrimType' /\ trim'.cap = trim.cap /\ trim.cap # 0
      BY <2>3 DEF TrimType, Steps, CapInForce
    <3> QED
      BY <2>1, <2>3, <3>1, PassKeeps
  <2> QED
    BY <1>6, <2>2, <2>3 DEF DeleteRows, TrimFails
<1>7. ASSUME NEW v \in Vaults, CountRows(v) PROVE CapInv'
  <2>1. trim \in [step : Steps, left : SUBSET Vaults, cap : Nat]
    BY <1>7 DEF CountRows, TrimType, Steps
  <2>2. setting' = setting /\ trim.step = "count" /\ trim.cap # 0
    BY <1>7 DEF CountRows, CapInForce
  <2>3. TrimType' /\ trim'.cap = trim.cap
    BY <1>7, <2>1 DEF CountRows, TrimType, Steps
  <2> QED
    BY <2>2, <2>3, PassKeeps
<1>8. CASE Restart
  <2>1. setting' \in Settings /\ trim' = Idle
    BY <1>8 DEF Restart
  <2>2. TrimType' /\ CapInForce'
    BY <2>1 DEF Idle, TrimType, Steps, CapInForce
  <2> QED
    BY <2>1, <2>2
<1>9. ASSUME UNCHANGED <<setting, trim>> PROVE CapInv'
  BY <1>9 DEF TrimType, CapInForce, Pinned
<1>10. CASE \E v \in Vaults : DeleteVault(v)
  BY <1>9, <1>10 DEF DeleteVault
<1>11. CASE Page
  BY <1>9, <1>11 DEF Page, Open, LoadMore, Send, Answer, Show, PollFails
<1>12. CASE Sink
  BY <1>8, <1>9, <1>12 DEF Sink, Record, Receive, Tick, SeeDone, DrainEnds, CommitStored,
                          CommitFails, Close
<1>13. CASE UNCHANGED vars
  BY <1>9, <1>13 DEF vars
<1> QED
  BY <1>1, <1>2, <1>3, <1>4, <1>5, <1>6, <1>7, <1>10, <1>11, <1>12, <1>13 DEF Next, Retention

(* Rows are as many as their ids.                                          *)
LEMMA RowsCount ==
  ASSUME LogInv, NEW R \in SUBSET rows, NEW S, \A i : i \in S <=> \E r \in R : i = r.id,
         IsFiniteSet(S)
  PROVE  Cardinality(R) = Cardinality(S)
<1> DEFINE f == [i \in S |-> CHOOSE r \in R : i = r.id]
<1>1. \A r, q \in R : r.id = q.id => r = q
  <2>1. ASSUME NEW r \in R, NEW q \in R, r.id = q.id PROVE r = q
    <3>1. /\ r \in [id : 1..lastId, record : 1..Len(sent)] /\ q \in [id : 1..lastId, record : 1..Len(sent)]
      BY DEF LogInv, LogTypes
    <3>2. r.id \in Nat /\ q.id \in Nat /\ r.record \in Nat /\ q.record \in Nat
      BY <3>1
    <3>3. ~(r.record < q.record) /\ ~(q.record < r.record)
      BY <2>1, <3>2 DEF LogInv, InOrder
    <3>4. r.record = q.record
      BY <3>2, <3>3
    <3> QED
      BY <2>1, <3>1, <3>4
  <2> QED
    BY <2>1
<1>2. \A i \in S : f[i] \in R /\ i = f[i].id
  OBVIOUS
<1> HIDE DEF f
<1>3. f \in [S -> R]
  BY <1>2 DEF f
<1>4. \A i, j \in S : f[i] = f[j] => i = j
  BY <1>2
<1>5. \A r \in R : \E i \in S : f[i] = r
  <2>1. ASSUME NEW r \in R PROVE r.id \in S /\ f[r.id] = r
    BY <1>1, <1>2, <2>1
  <2> QED
    BY <2>1
<1>6. f \in Bijection(S, R)
  BY <1>3, <1>4, <1>5 DEF Bijection, Injection, Surjection, IsInjective
<1> QED
  BY <1>6, FS_Bijection DEF ExistsBijection

LEMMA NewestKept ==
  ASSUME LogInv, CapInv, DeleteRows
  PROVE  RowsKept(trim.cap)
<1> DEFINE S == IdsOf(trim.at)
           n == trim.cap
           R == {r \in rows' : sent[r.record] = trim.at}
           K == Largest(S, n)
<1>1. S \in SUBSET (0..lastId) /\ lastId \in Nat /\ n \in Nat /\ n # 0
  BY IdsAre DEF LogInv, CapInv, TrimType, CapInForce, DeleteRows
<1>2. Cardinality(S) \in Nat
  BY <1>1, SubsetsFinite
<1>3. \A r \in rows' : r \in rows /\ r.id \notin Beyond(trim.at)
  BY DEF DeleteRows, Without
<1>4. \A r \in rows : r.id \notin Beyond(trim.at) => r \in rows'
  BY DEF DeleteRows, Without
<1>5. \A i \in S : i \in Beyond(trim.at) <=> i \notin K
  <2>1. ASSUME NEW i \in S PROVE i \in Beyond(trim.at) <=> i \notin K
    <3>1. Newer(trim.at, i) = {j \in S : j > i}
      BY DEF Newer
    <3>2. Cardinality({j \in S : j > i}) \in Nat
      BY <1>1, SubsetsFinite
    <3>3. i \in Beyond(trim.at) <=> Cardinality({j \in S : j > i}) >= n
      BY <3>1 DEF Beyond
    <3>4. i \in K <=> Cardinality({j \in S : j > i}) < n
      BY DEF Largest
    <3> QED
      BY <1>1, <3>2, <3>3, <3>4
  <2> QED
    BY <2>1
<1>6. \A i : i \in S <=> \E r \in rows : sent[r.record] = trim.at /\ i = r.id
  BY DEF IdsOf
<1>7. K \in SUBSET S
  BY DEF Largest
<1>8. \A i : i \in K <=> \E r \in R : i = r.id
  BY <1>3, <1>4, <1>5, <1>6, <1>7
<1>9. IsFiniteSet(K)
  BY <1>1, <1>7, SubsetsFinite
<1>10. R \in SUBSET rows
  BY <1>3
<1>11. Cardinality(K) = n \/ Cardinality(K) = Cardinality(S)
  BY <1>1, LargestCount
<1> HIDE DEF K, S, n, R
<1>12. Cardinality(R) = Cardinality(K)
  BY <1>8, <1>9, <1>10, RowsCount
<1>13. Min({n, Cardinality(S)}) <= n /\ Min({n, Cardinality(S)}) <= Cardinality(S)
       /\ Min({n, Cardinality(S)}) \in Nat
  <2>1. {n, Cardinality(S)} \in SUBSET Nat
    BY <1>1, <1>2
  <2> QED
    BY <2>1, MinIs
<1>14. Cardinality(R) >= Min({n, Cardinality(S)})
  BY <1>1, <1>2, <1>11, <1>12, <1>13
<1> QED
  BY <1>1, <1>14 DEF RowsKept, Allowed, R, n, S

(* The cap never takes one of the newest rows of a vault, although rows    *)
(* are stored, and old ones deleted, between its count and its delete, and *)
(* although the stored setting changes or cannot be read: a delete leaves  *)
(* what the cap of its pass allows, and what the environment allows where  *)
(* it gives the cap or locks it (TrimRequestLogsToCap, ResolveRetention).  *)
THEOREM TrimKeepsNewestHolds == Spec => TrimKeepsNewest
<1>1. CapInv /\ [Next]_vars => CapInv'
  BY CapNext
<1>2. Spec => []CapInv
  BY <1>1, CapInit, PTL DEF Spec
<1>3. ASSUME LogInv, CapInv, DeleteRows
      PROVE  RowsKept(trim.cap) /\ (Pinned => RowsKept(CapOf(setting)))
  <2>1. RowsKept(trim.cap)
    BY <1>3, NewestKept
  <2>2. Pinned => trim.cap = CapOf(setting)
    BY <1>3 DEF CapInv, CapInForce, DeleteRows
  <2> QED
    BY <2>1, <2>2
<1>4. LogInv /\ CapInv /\ [Next]_vars =>
        [DeleteRows => RowsKept(trim.cap) /\ (Pinned => RowsKept(CapOf(setting)))]_vars
  BY <1>3
<1> QED
  BY <1>2, <1>4, LogHolds, PTL DEF Spec, TrimKeepsNewest

=============================================================================
