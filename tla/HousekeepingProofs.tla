-------------------------- MODULE HousekeepingProofs --------------------------
(* The three parts that a behaviour of MCHousekeeping follows one by one:  *)
(* the cache of leaf certificates, the migrations, the names of vaults.    *)
EXTENDS LeafCache, Migrations, VaultNames, SequenceTheorems, TLAPS

(***************************************************************************)
(* LeafCache.  The list is ordered by last use, which pushes the oldest    *)
(* name out; the rest follows from what moving to the front does to places. *)
(***************************************************************************)
LeafType ==
  /\ clock \in Nat
  /\ recent \in Seq(Snis)
  /\ notAfter \in [ToSet(recent) -> Nat]
  /\ uses \in Nat
  /\ lastUse \in [Snis -> Nat] /\ \A sni \in Snis : lastUse[sni] <= uses

LInv == LeafType /\ CacheIsRecent

(* The place of an entry; one behind the last for a name that has none.    *)
Spot(sni) == IF Cached(sni) THEN Place(sni) ELSE Len(recent) + 1
Source(sni, i) == IF i <= Spot(sni) THEN i - 1 ELSE i

LEMMA SpotIs ==
  ASSUME recent \in Seq(Snis), NEW sni \in Snis
  PROVE  /\ Spot(sni) \in 1..(Len(recent) + 1)
         /\ Cached(sni) => Spot(sni) \in 1..Len(recent) /\ recent[Spot(sni)] = sni
         /\ ~Cached(sni) => Spot(sni) = Len(recent) + 1
<1>1. CASE Cached(sni)
  <2>1. Place(sni) \in DOMAIN recent /\ recent[Place(sni)] = sni
    BY <1>1 DEF Cached, Contains, Place
  <2> QED
    BY <1>1, <2>1 DEF Spot
<1>2. CASE ~Cached(sni)
  BY <1>2 DEF Spot
<1> QED
  BY <1>1, <1>2

(* Moving a name to the front moves those before it back by one.           *)
LEMMA FrontIs ==
  ASSUME recent \in Seq(Snis), NEW sni \in Snis
  PROVE  /\ InFront(sni) \in Seq(Snis)
         /\ Len(InFront(sni)) = IF Cached(sni) THEN Len(recent) ELSE Len(recent) + 1
         /\ InFront(sni)[1] = sni
         /\ \A i \in 2..Len(InFront(sni)) : InFront(sni)[i] = recent[Source(sni, i)]
<1> DEFINE p == Spot(sni)
           n == Len(recent)
<1>1. n \in Nat /\ p \in 1..(n + 1)
  BY SpotIs
<1>2. CASE Cached(sni)
  <2> DEFINE left == SubSeq(recent, 1, p - 1)
             right == SubSeq(recent, p + 1, n)
  <2>1. p \in 1..n
    BY <1>2, SpotIs
  <2>2. left \in Seq(Snis) /\ Len(left) = p - 1 /\ \A i \in 1..(p - 1) : left[i] = recent[i]
    BY <2>1
  <2>3. right \in Seq(Snis) /\ Len(right) = n - p /\ \A i \in 1..(n - p) : right[i] = recent[i + p]
    BY <2>1
  <2>4. InFront(sni) = <<sni>> \o (left \o right)
    BY <1>2 DEF InFront, Others, RemoveAt, Spot
  <2> HIDE DEF left, right, p, n
  <2>5. /\ left \o right \in Seq(Snis) /\ Len(left \o right) = n - 1
        /\ \A i \in 1..(n - 1) : (left \o right)[i] = IF i <= p - 1 THEN left[i] ELSE right[i - (p - 1)]
    <3>1. /\ left \o right \in Seq(Snis)
          /\ Len(left \o right) = Len(left) + Len(right)
          /\ \A i \in 1..(Len(left) + Len(right)) :
               (left \o right)[i] = IF i <= Len(left) THEN left[i] ELSE right[i - Len(left)]
      BY <2>2, <2>3, ConcatProperties
    <3>2. Len(left) + Len(right) = n - 1
      BY <2>1, <2>2, <2>3, <1>1
    <3> QED
      BY <3>1, <3>2, <2>2
  <2>6. \A i \in 1..(n - 1) : (left \o right)[i] = recent[IF i <= p - 1 THEN i ELSE i + 1]
    BY <2>1, <2>2, <2>3, <2>5, <1>1
  <2> DEFINE rest == left \o right
  <2> HIDE DEF rest
  <2>7. /\ <<sni>> \o rest \in Seq(Snis) /\ Len(<<sni>> \o rest) = n
        /\ (<<sni>> \o rest)[1] = sni
        /\ \A i \in 2..n : (<<sni>> \o rest)[i] = rest[i - 1]
    BY <2>5, <2>1, <1>1 DEF rest
  <2>8. \A i \in 2..n : rest[i - 1] = recent[IF i <= p THEN i - 1 ELSE i]
    <3> SUFFICES ASSUME NEW i \in 2..n PROVE rest[i - 1] = recent[IF i <= p THEN i - 1 ELSE i]
      OBVIOUS
    <3>1. i - 1 \in 1..(n - 1) /\ (i - 1 <= p - 1 <=> i <= p) /\ (i - 1) + 1 = i
      BY <1>1
    <3>2. rest[i - 1] = recent[IF i - 1 <= p - 1 THEN i - 1 ELSE (i - 1) + 1]
      BY <3>1, <2>6 DEF rest
    <3> QED
      BY <3>1, <3>2
  <2>9. InFront(sni) = <<sni>> \o rest
    BY <2>4 DEF rest
  <2> QED
    BY <1>2, <2>7, <2>8, <2>9 DEF Source, p, n
<1>3. CASE ~Cached(sni)
  <2>1. InFront(sni) = <<sni>> \o recent /\ p = n + 1
    BY <1>3, SpotIs DEF InFront, Others
  <2> QED
    BY <1>3, <2>1 DEF Source
<1> QED
  BY <1>2, <1>3

(* What the moved list says of uses, with the name in front used last.     *)
LEMMA FrontOrdered ==
  ASSUME LInv, NEW sni \in Snis, Used(sni)
  PROVE  LET front == InFront(sni)
         IN /\ \A i, j \in DOMAIN front : i < j => lastUse'[front[i]] > lastUse'[front[j]]
            /\ ToSet(front) = ToSet(recent) \cup {sni}
<1> DEFINE front == InFront(sni)
           n == Len(recent)
           m == Len(front)
           p == Spot(sni)
<1>1. /\ recent \in Seq(Snis) /\ n \in Nat /\ uses \in Nat
      /\ lastUse \in [Snis -> Nat] /\ \A s \in Snis : lastUse[s] <= uses
      /\ \A i, j \in 1..n : i < j => lastUse[recent[i]] > lastUse[recent[j]]
  <2>1. recent \in Seq(Snis) /\ DOMAIN recent = 1..n /\ n \in Nat
    BY DEF LInv, LeafType
  <2> QED
    BY <2>1 DEF LInv, LeafType, CacheIsRecent
<1>2. /\ front \in Seq(Snis) /\ m = (IF Cached(sni) THEN n ELSE n + 1) /\ front[1] = sni
      /\ \A i \in 2..m : front[i] = recent[Source(sni, i)]
  BY <1>1, FrontIs
<1>3. /\ p \in 1..(n + 1)
      /\ Cached(sni) => p \in 1..n /\ recent[p] = sni
      /\ ~Cached(sni) => p = n + 1
  BY <1>1, SpotIs
<1>4. \A k \in 1..n : k # p => recent[k] # sni
  <2>1. CASE Cached(sni)
    <3>1. p \in 1..n /\ recent[p] = sni
      BY <1>3, <2>1
    <3> QED
      BY <1>1, <3>1
  <2>2. CASE ~Cached(sni)
    BY <2>2 DEF Cached, Contains
  <2> QED
    BY <2>1, <2>2
<1> HIDE DEF front, p, n, m
<1>5. /\ m \in Nat
      /\ \A i \in 2..m : Source(sni, i) \in 1..n /\ Source(sni, i) # p
      /\ \A i, j \in 2..m : i < j => Source(sni, i) < Source(sni, j)
      /\ \A k \in 1..n : k # p => \E i \in 2..m : Source(sni, i) = k
  <2>1. m \in Nat /\ \A i : Source(sni, i) = IF i <= p THEN i - 1 ELSE i
    BY <1>1, <1>2 DEF Source, p
  <2>2. \A i \in 2..m : Source(sni, i) \in 1..n /\ Source(sni, i) # p
    BY <2>1, <1>1, <1>2, <1>3
  <2>3. \A i, j \in 2..m : i < j => Source(sni, i) < Source(sni, j)
    BY <2>1, <1>1, <1>2, <1>3
  <2>4. ASSUME NEW k \in 1..n, k # p PROVE \E i \in 2..m : Source(sni, i) = k
    <3> DEFINE i == IF k < p THEN k + 1 ELSE k
    <3>1. i \in 2..m
      BY <2>4, <1>1, <1>2, <1>3
    <3>2. Source(sni, i) = k
      BY <2>1, <2>4, <1>1, <1>3
    <3> QED
      BY <3>1, <3>2
  <2> QED
    BY <2>1, <2>2, <2>3, <2>4
<1>6. /\ lastUse'[sni] = uses + 1
      /\ \A s \in Snis \ {sni} : lastUse'[s] = lastUse[s]
  BY <1>1 DEF Used
<1>7. \A i \in 2..m : front[i] \in Snis \ {sni} /\ lastUse'[front[i]] = lastUse[recent[Source(sni, i)]]
  <2> SUFFICES ASSUME NEW i \in 2..m
               PROVE  front[i] \in Snis \ {sni} /\ lastUse'[front[i]] = lastUse[recent[Source(sni, i)]]
    OBVIOUS
  <2> DEFINE k == Source(sni, i)
  <2>1. k \in 1..n /\ k # p /\ front[i] = recent[k]
    BY <1>5, <1>2
  <2>2. recent[k] \in Snis /\ recent[k] # sni
    BY <2>1, <1>1, <1>4 DEF n
  <2> QED
    BY <2>1, <2>2, <1>6
<1>8. ASSUME NEW i \in 1..m, NEW j \in 1..m, i < j PROVE lastUse'[front[i]] > lastUse'[front[j]]
  <2>1. j \in 2..m
    BY <1>8
  <2>2. lastUse'[front[j]] = lastUse[recent[Source(sni, j)]] /\ Source(sni, j) \in 1..n
    BY <2>1, <1>5, <1>7
  <2>3. CASE i = 1
    <3>1. recent[Source(sni, j)] \in Snis
      BY <2>2, <1>1 DEF n
    <3>2. lastUse'[front[i]] = uses + 1
      BY <2>3, <1>2, <1>6
    <3> QED
      BY <3>1, <3>2, <2>2, <1>1
  <2>4. CASE i # 1
    <3>1. i \in 2..m
      BY <2>4
    <3>2. lastUse'[front[i]] = lastUse[recent[Source(sni, i)]] /\ Source(sni, i) \in 1..n
      BY <3>1, <1>5, <1>7
    <3>3. Source(sni, i) < Source(sni, j)
      BY <3>1, <2>1, <1>5, <1>8
    <3> QED
      BY <3>2, <3>3, <2>2, <1>1
  <2> QED
    BY <2>3, <2>4
<1>9. ToSet(front) = ToSet(recent) \cup {sni}
  <2>1. DOMAIN front = 1..m /\ DOMAIN recent = 1..n /\ 1 \in 1..m
    BY <1>1, <1>2, <1>3 DEF m, n
  <2>2. \A i \in 1..m : front[i] \in ToSet(recent) \cup {sni}
    <3>1. ASSUME NEW i \in 2..m PROVE front[i] \in ToSet(recent)
      BY <2>1, <1>2, <1>5 DEF ToSet
    <3> QED
      BY <3>1, <1>2, <2>1
  <2>3. ASSUME NEW k \in 1..n PROVE recent[k] \in ToSet(front)
    <3>1. CASE k = p
      <4>1. recent[k] = sni
        BY <3>1, <1>3 DEF n
      <4> QED
        BY <4>1, <2>1, <1>2 DEF ToSet
    <3>2. CASE k # p
      <4>1. PICK i \in 2..m : Source(sni, i) = k
        BY <3>2, <1>5
      <4> QED
        BY <4>1, <1>2, <2>1 DEF ToSet
    <3> QED
      BY <3>1, <3>2
  <2>4. sni \in ToSet(front)
    BY <2>1, <1>2 DEF ToSet
  <2> QED
    BY <2>1, <2>2, <2>3, <2>4 DEF ToSet
<1>10. DOMAIN front = 1..m
  BY <1>2 DEF m
<1> QED
  BY <1>8, <1>9, <1>10 DEF front

LEMMA LeafStep == LInv /\ [LeafNext]_leafVars => LInv'
<1> SUFFICES ASSUME LInv, [LeafNext]_leafVars PROVE LInv'
  OBVIOUS
<1> USE LeafAssumption
<1>1. /\ recent \in Seq(Snis) /\ Len(recent) \in Nat /\ DOMAIN recent = 1..Len(recent)
      /\ clock \in Nat /\ uses \in Nat /\ lastUse \in [Snis -> Nat]
      /\ \A sni \in Snis : lastUse[sni] <= uses
      /\ notAfter \in [ToSet(recent) -> Nat]
  BY DEF LInv, LeafType
<1>2. \A sni : Cached(sni) <=> sni \in ToSet(recent)
  BY <1>1 DEF Cached, Contains, ToSet
<1>3. ASSUME NEW sni \in Snis, Used(sni)
      PROVE  uses' \in Nat /\ lastUse' \in [Snis -> Nat] /\ \A s \in Snis : lastUse'[s] <= uses'
  BY <1>1, <1>3 DEF Used
<1>4. \A sni \in Snis : ~Cached(sni) /\ lastUse[sni] # 0 =>
        /\ Len(recent) = CacheSize
        /\ \A i \in 1..Len(recent) : lastUse[recent[i]] > lastUse[sni]
  BY <1>1 DEF LInv, CacheIsRecent
(* An entry that is used keeps the set of entries.                         *)
<1>5. ASSUME NEW sni \in Snis, Cached(sni), recent' = InFront(sni), Used(sni),
             UNCHANGED <<clock, notAfter>>,
             served'.sni # 0 => served'.notAfter > served'.at + ClockSkew
      PROVE  LInv'
  <2>1. /\ recent' \in Seq(Snis) /\ Len(recent') = Len(recent) /\ ToSet(recent') = ToSet(recent)
        /\ \A i, j \in DOMAIN recent' : i < j => lastUse'[recent'[i]] > lastUse'[recent'[j]]
    <3>1. sni \in ToSet(recent)
      BY <1>2, <1>5
    <3> QED
      BY <1>1, <1>5, <3>1, FrontIs, FrontOrdered
  <2>2. DOMAIN recent' = 1..Len(recent)
    BY <2>1
  <2>3. \A s : Cached(s)' <=> Cached(s)
    <3>1. \A s : Cached(s)' <=> s \in ToSet(recent')
      BY <2>1 DEF Cached, Contains, ToSet
    <3> QED
      BY <3>1, <2>1, <1>2
  <2>4. ASSUME NEW s \in Snis, ~Cached(s)', lastUse'[s] # 0
        PROVE  /\ Len(recent') = CacheSize
               /\ \A i \in DOMAIN recent' : lastUse'[recent'[i]] > lastUse'[s]
    <3>1. ~Cached(s) /\ s # sni
      BY <2>3, <2>4, <1>5
    <3>2. lastUse'[s] = lastUse[s]
      BY <3>1, <1>1, <1>5 DEF Used
    <3>3. \A t \in ToSet(recent) : lastUse[t] > lastUse[s]
      BY <3>1, <3>2, <2>4, <1>1, <1>4 DEF ToSet
    <3>4. \A t \in ToSet(recent) : t \in Snis /\ lastUse'[t] > lastUse[s]
      <4>1. \A t \in ToSet(recent) : t \in Snis
        BY <1>1 DEF ToSet
      <4> QED
        BY <4>1, <3>3, <1>1, <1>5 DEF Used
    <3>5. \A i \in DOMAIN recent' : recent'[i] \in ToSet(recent)
      BY <2>1 DEF ToSet
    <3> QED
      BY <3>1, <3>2, <3>4, <3>5, <2>1, <2>4, <1>4
  <2>5. LeafType'
    BY <2>1, <1>1, <1>3, <1>5 DEF LeafType
  <2>6. Len(recent') <= CacheSize /\ DOMAIN notAfter' = ToSet(recent')
    BY <2>1, <1>5 DEF LInv, CacheIsRecent
  <2> QED
    BY <2>1, <2>4, <2>5, <2>6, <1>5 DEF LInv, CacheIsRecent
<1>6. ASSUME NEW sni \in Snis, Get(sni) PROVE LInv'
  <2>1. Cached(sni) /\ sni \in ToSet(recent) /\ notAfter[sni] > clock + ClockSkew
    BY <1>2, <1>6 DEF Get, Fresh
  <2> QED
    BY <2>1, <1>5, <1>6 DEF Get, Serve
<1>7. ASSUME NEW sni \in Snis, MintFails(sni) PROVE LInv'
  <2>1. CASE Cached(sni)
    BY <2>1, <1>5, <1>7 DEF MintFails, LInv, CacheIsRecent
  <2>2. CASE ~Cached(sni)
    BY <2>2, <1>7 DEF MintFails, LInv, LeafType, CacheIsRecent, Cached
  <2> QED
    BY <2>1, <2>2
(* A certificate that is made may push the last entry out.                 *)
<1>8. ASSUME NEW sni \in Snis, Mint(sni) PROVE LInv'
  <2> DEFINE front == InFront(sni)
  <2>1. /\ front \in Seq(Snis) /\ ToSet(front) = ToSet(recent) \cup {sni} /\ front[1] = sni
        /\ Len(front) = (IF Cached(sni) THEN Len(recent) ELSE Len(recent) + 1)
        /\ \A i, j \in DOMAIN front : i < j => lastUse'[front[i]] > lastUse'[front[j]]
    BY <1>1, <1>8, FrontIs, FrontOrdered DEF Mint, Serve
  <2>2. recent' = Kept(front) /\ Used(sni)
    BY <1>8 DEF Mint, Serve
  <2>3. Len(recent) <= CacheSize
    BY DEF LInv, CacheIsRecent
  <2> HIDE DEF front
  <2>4. Len(front) \in Nat /\ DOMAIN front = 1..Len(front)
    BY <2>1
  <2>5. /\ recent' \in Seq(Snis) /\ Len(recent') = (IF Len(front) > CacheSize THEN CacheSize ELSE Len(front))
        /\ \A i \in 1..Len(recent') : recent'[i] = front[i]
    <3>1. CASE Len(front) > CacheSize
      <4>1. recent' = SubSeq(front, 1, CacheSize)
        BY <2>2, <3>1 DEF Kept
      <4> QED
        BY <2>1, <2>4, <3>1, <4>1
    <3>2. CASE ~(Len(front) > CacheSize)
      BY <2>1, <2>2, <2>4, <3>2 DEF Kept
    <3> QED
      BY <3>1, <3>2
  <2>6. /\ Len(recent') \in Nat /\ Len(recent') <= CacheSize /\ Len(recent') <= Len(front)
        /\ DOMAIN recent' = 1..Len(recent')
    BY <2>4, <2>5
  <2>7. \A i, j \in DOMAIN recent' : i < j => lastUse'[recent'[i]] > lastUse'[recent'[j]]
    BY <2>1, <2>4, <2>5, <2>6
  <2>8. \A s : Cached(s)' <=> s \in ToSet(recent')
    BY <2>6 DEF Cached, Contains, ToSet
  <2>9. lastUse'[sni] = uses + 1 /\ \A s \in Snis \ {sni} : lastUse'[s] = lastUse[s]
    BY <1>1, <2>2 DEF Used
  <2>10. sni \in ToSet(recent')
    <3>1. Len(front) >= 1
      BY <2>1, <1>1 DEF Cached, Contains
    <3>2. 1 \in 1..Len(recent')
      BY <3>1, <2>4, <2>5
    <3> QED
      BY <3>2, <2>1, <2>5, <2>6 DEF ToSet
  <2>11. ASSUME NEW s \in Snis, ~Cached(s)', lastUse'[s] # 0
         PROVE  /\ Len(recent') = CacheSize
                /\ \A i \in DOMAIN recent' : lastUse'[recent'[i]] > lastUse'[s]
    <3>1. s \notin ToSet(recent') /\ s # sni /\ lastUse'[s] = lastUse[s]
      BY <2>8, <2>9, <2>10, <2>11
    (* Pushed out by this step: it was the last of the list.               *)
    <3>2. CASE s \in ToSet(recent)
      <4>1. PICK k \in DOMAIN front : front[k] = s
        BY <3>2, <2>1 DEF ToSet
      <4>2. k > Len(recent')
        BY <3>1, <4>1, <2>4, <2>5, <2>6 DEF ToSet
      <4>3. Len(recent') = CacheSize
        <5>1. Len(recent') < Len(front)
          BY <4>1, <4>2, <2>4, <2>6
        <5>2. Len(recent') # Len(front)
          <6>1. \A a, b \in Nat : a < b => a # b
            OBVIOUS
          <6> QED
            BY <6>1, <5>1, <2>4, <2>6
        <5> QED
          BY <5>2, <2>5
      <4>4. \A i \in 1..Len(recent') : i \in DOMAIN front /\ i < k
        BY <4>1, <4>2, <2>4, <2>6
      <4> QED
        BY <4>1, <4>3, <4>4, <2>1, <2>5, <2>6
    <3>3. CASE s \notin ToSet(recent)
      <4>1. ~Cached(s) /\ lastUse[s] # 0
        BY <3>1, <3>3, <1>2, <2>11
      <4>2. Len(recent) = CacheSize /\ \A t \in ToSet(recent) : lastUse[t] > lastUse[s]
        BY <4>1, <1>1, <1>4 DEF ToSet
      <4>3. \A t \in ToSet(front) : t \in Snis /\ lastUse'[t] > lastUse[s]
        <5>1. \A t \in ToSet(front) : t \in Snis
          BY <2>1 DEF ToSet
        <5>2. ASSUME NEW t \in ToSet(front) PROVE lastUse'[t] > lastUse[s]
          <6>1. CASE t = sni
            BY <6>1, <2>9, <1>1
          <6>2. CASE t # sni
            <7>1. t \in ToSet(recent) /\ lastUse'[t] = lastUse[t]
              BY <6>2, <5>1, <2>1, <2>9
            <7> QED
              BY <7>1, <4>2
          <6> QED
            BY <6>1, <6>2
        <5> QED
          BY <5>1, <5>2
      <4>4. Len(recent') = CacheSize
        BY <4>2, <2>1, <2>5
      <4>5. \A i \in DOMAIN recent' : recent'[i] \in ToSet(front)
        BY <2>4, <2>5, <2>6 DEF ToSet
      <4> QED
        BY <3>1, <4>3, <4>4, <4>5
    <3> QED
      BY <3>2, <3>3
  <2>12. notAfter' \in [ToSet(recent') -> Nat] /\ DOMAIN notAfter' = ToSet(recent')
    <3>1. notAfter' = [s \in ToSet(recent') |-> IF s = sni THEN clock + LeafTTL ELSE notAfter[s]]
      BY <1>8 DEF Mint
    <3>2. \A s \in ToSet(recent') : s \in ToSet(front)
      BY <2>4, <2>5, <2>6 DEF ToSet
    <3>3. \A s \in ToSet(recent') : s = sni \/ s \in ToSet(recent)
      BY <3>2, <2>1
    <3> QED
      BY <3>1, <3>3, <1>1
  <2>13. served'.notAfter > served'.at + ClockSkew /\ clock' = clock
    BY <1>1, <1>8 DEF Mint, Serve
  <2>14. LeafType'
    BY <2>2, <2>5, <2>12, <2>13, <1>1, <1>3 DEF LeafType
  <2> QED
    BY <2>6, <2>7, <2>11, <2>12, <2>13, <2>14 DEF LInv, CacheIsRecent
<1>9. CASE Tick
  <2>1. LeafType'
    BY <1>1, <1>9 DEF Tick, LeafType
  <2> QED
    BY <1>9, <2>1 DEF Tick, LInv, CacheIsRecent, Cached
<1>10. CASE UNCHANGED leafVars
  BY <1>10 DEF leafVars, LInv, LeafType, CacheIsRecent, Cached
<1> QED
  BY <1>6, <1>7, <1>8, <1>9, <1>10 DEF LeafNext, MintLeaf

(* The cache of leaf certificates evicts the name that was used longest    *)
(* ago and only when it is full, and a certificate that is given outlives  *)
(* the clock skew (soft.go:266-277, lru.go:32-54).                         *)
THEOREM CacheStaysRecent == LeafSpec => []CacheIsRecent
<1>1. LeafInit => LInv
  BY LeafAssumption DEF LeafInit, LInv, LeafType, CacheIsRecent, Cached, Contains, ToSet
<1>2. LInv => CacheIsRecent
  BY DEF LInv
<1> QED
  BY <1>1, <1>2, LeafStep, PTL DEF LeafSpec

(***************************************************************************)
(* Migrations.  What a process has in its transaction differs from what is *)
(* committed by one version at most, and a version that is recorded refuses *)
(* a second record: a process that read an old version can only fail.      *)
(***************************************************************************)
InTransaction == {"statements", "record", "commit"}
Working == {"migrating", "begin", "open"} \cup InTransaction

OpenerType ==
  [at : {"closed", "exited"}] \cup [at : Working, next : Nat \ {0}, fk : {"on", "off"}]

(* What is committed is a prefix of the versions.                          *)
Prefix ==
  /\ applied \in Seq(Nat)
  /\ Len(applied) <= LastVersion
  /\ \A i \in DOMAIN applied : applied[i] = i
  /\ recorded = 1..Len(applied)
  /\ rowsLost = {}

(* A process is at most one version ahead of what is committed.            *)
Behind ==
  /\ opener \in [Openers -> OpenerType]
  /\ \A p \in Openers : opener[p].at \in Working =>
       /\ opener[p].next <= Len(applied) + 1
       /\ opener[p].at \in {"migrating", "open"} => opener[p].fk = "on"
       /\ opener[p].at = "open" => opener[p].next > LastVersion
       /\ opener[p].at \in InTransaction \cup {"begin"} =>
            opener[p].next <= LastVersion /\ (opener[p].fk = "on" <=> opener[p].next \notin FkOff)

(* The transaction of the process that has the write lock.                 *)
InFlight ==
  \A p \in Openers : opener[p].at \in InTransaction =>
    /\ tx \in [by : Openers, applied : Seq(Nat), recorded : SUBSET Nat, lost : SUBSET Nat]
    /\ tx.by = p /\ tx.lost = {}
    /\ opener[p].at = "statements" => tx.applied = applied /\ tx.recorded = recorded
    /\ opener[p].at = "record" =>
         tx.applied = Append(applied, opener[p].next) /\ tx.recorded = recorded
    /\ opener[p].at = "commit" =>
         /\ tx.applied = Append(applied, opener[p].next)
         /\ tx.recorded = recorded \cup {opener[p].next}
         /\ opener[p].next \notin recorded

MInv == Prefix /\ Behind /\ InFlight

LEMMA MaxOfPrefix == Prefix => MaxRecorded = Len(applied)
<1> SUFFICES ASSUME Prefix PROVE MaxRecorded = Len(applied)
  OBVIOUS
<1> DEFINE n == Len(applied)
           Highest(m) == (m = 0 \/ m \in recorded) /\ \A v \in recorded : v <= m
<1>1. n \in 0..LastVersion
  BY LastVersionType DEF Prefix
<1>2. Highest(n)
  BY <1>1 DEF Prefix
<1>3. \A m \in 0..LastVersion : Highest(m) => m = n
  BY <1>1 DEF Prefix
<1>4. MaxRecorded = CHOOSE m \in 0..LastVersion : Highest(m)
  BY DEF MaxRecorded
<1> HIDE DEF n, Highest
<1>5. MaxRecorded = n
  BY <1>1, <1>2, <1>3, <1>4
<1> QED
  BY <1>5 DEF n

LEMMA MigrationInit == Init => MInv
<1> SUFFICES ASSUME NEW n \in 0..LastVersion, applied = [v \in 1..n |-> v], recorded = 1..n,
                    rowsLost = {}, opener = [p \in Openers |-> [at |-> "closed"]]
             PROVE MInv
  BY DEF Init
<1>1. applied \in Seq(Nat) /\ Len(applied) = n
  BY LastVersionType
<1>2. Prefix
  BY <1>1, LastVersionType DEF Prefix
<1>3. Behind /\ InFlight
  BY DEF Behind, InFlight, OpenerType, Working, InTransaction
<1> QED
  BY <1>2, <1>3 DEF MInv

LEMMA MigrationStep == MInv /\ [MigrationNext]_migrationVars => MInv'
<1> SUFFICES ASSUME MInv, [MigrationNext]_migrationVars PROVE MInv'
  OBVIOUS
<1> USE LastVersionType, NoOpenerIsZero DEF MInv
<1>0. CASE UNCHANGED migrationVars
  BY <1>0 DEF migrationVars, Prefix, Behind, InFlight
<1>1. ASSUME NEW p \in Openers, Open(p) PROVE MInv'
  <2>1. MaxRecorded = Len(applied)
    BY MaxOfPrefix
  <2>2. Prefix'
    BY <1>1 DEF Open, committed, Prefix
  <2>3. Behind'
    BY <1>1, <2>1 DEF Open, committed, At, Behind, OpenerType, Working, InTransaction, Prefix
  <2>4. InFlight'
    BY <1>1 DEF Open, committed, At, Behind, OpenerType, Working, InTransaction, InFlight
  <2> QED
    BY <2>2, <2>3, <2>4
<1>2. ASSUME NEW p \in Openers, Ready(p) PROVE MInv'
  <2>1. Prefix'
    BY <1>2 DEF Ready, committed, Prefix
  <2>2. Behind'
    BY <1>2 DEF Ready, Goto, committed, At, Behind, OpenerType, Working, InTransaction
  <2>3. InFlight'
    BY <1>2 DEF Ready, Goto, committed, At, Behind, OpenerType, Working, InTransaction, InFlight
  <2> QED
    BY <2>1, <2>2, <2>3
<1>3. ASSUME NEW p \in Openers, Pragma(p) PROVE MInv'
  <2>1. Prefix'
    BY <1>3 DEF Pragma, committed, Prefix
  <2>2. Behind'
    BY <1>3 DEF Pragma, committed, At, Behind, OpenerType, Working, InTransaction
  <2>3. InFlight'
    BY <1>3 DEF Pragma, committed, At, Behind, OpenerType, Working, InTransaction, InFlight
  <2> QED
    BY <2>1, <2>2, <2>3
<1>4. ASSUME NEW p \in Openers, Begin(p) PROVE MInv'
  <2>1. Prefix'
    BY <1>4 DEF Begin, committed, Prefix
  <2>2. Behind'
    BY <1>4 DEF Begin, Goto, committed, At, Behind, OpenerType, Working, InTransaction
  <2>3. \A q \in Openers : opener[q].at \notin InTransaction
    BY <1>4 DEF Begin, NoTx, InFlight
  <2>4. InFlight'
    BY <1>4, <2>3 DEF Begin, Goto, committed, At, Prefix, Behind, OpenerType, Working, InTransaction, InFlight
  <2> QED
    BY <2>1, <2>2, <2>4
<1>5. ASSUME NEW p \in Openers, Statements(p) PROVE MInv'
  <2>1. Prefix'
    BY <1>5 DEF Statements, committed, Prefix
  <2>2. Behind'
    BY <1>5 DEF Statements, Goto, committed, At, Behind, OpenerType, Working, InTransaction
  <2>3. ~(opener[p].next \in FkOff /\ opener[p].fk = "on")
    BY <1>5 DEF Statements, At, Behind, Working, InTransaction
  <2>4. /\ tx.by = p /\ tx.lost = {} /\ tx.applied = applied /\ tx.recorded = recorded
        /\ tx \in [by : Openers, applied : Seq(Nat), recorded : SUBSET Nat, lost : SUBSET Nat]
        /\ opener[p].next \in Nat
    BY <1>5 DEF Statements, At, InFlight, InTransaction, Behind, OpenerType, Working
  <2>5. tx' = [tx EXCEPT !.applied = Append(applied, opener[p].next)]
    BY <1>5, <2>3, <2>4 DEF Statements
  <2>6. \A q \in Openers \ {p} : opener[q].at \notin InTransaction
    BY <2>4 DEF InFlight
  <2>7. /\ opener'[p].at = "record" /\ opener'[p].next = opener[p].next
        /\ \A q \in Openers \ {p} : opener'[q] = opener[q]
        /\ UNCHANGED <<applied, recorded>>
    BY <1>5 DEF Statements, Goto, committed, At, Behind, OpenerType, Working, InTransaction
  <2>8. /\ tx'.by = p /\ tx'.lost = {} /\ tx'.recorded = recorded
        /\ tx'.applied = Append(applied, opener[p].next)
        /\ tx' \in [by : Openers, applied : Seq(Nat), recorded : SUBSET Nat, lost : SUBSET Nat]
    <3>1. Append(applied, opener[p].next) \in Seq(Nat)
      BY <2>4 DEF Prefix
    <3> QED
      BY <2>4, <2>5, <3>1
  <2>9. InFlight'
    BY <2>6, <2>7, <2>8 DEF InTransaction, InFlight
  <2> QED
    BY <2>1, <2>2, <2>9
<1>6. ASSUME NEW p \in Openers, Record(p) PROVE MInv'
  <2>1. Prefix'
    BY <1>6 DEF Record, committed, Prefix
  <2>2. Behind'
    BY <1>6 DEF Record, Goto, committed, At, Behind, OpenerType, Working, InTransaction
  <2>3. InFlight'
    BY <1>6 DEF Record, Goto, committed, At, Owns, Behind, OpenerType, Working, InTransaction, InFlight
  <2> QED
    BY <2>1, <2>2, <2>3
<1>7. ASSUME NEW p \in Openers, Commit(p) PROVE MInv'
  <2>1. /\ applied' = Append(applied, opener[p].next)
        /\ recorded' = recorded \cup {opener[p].next}
        /\ rowsLost' = {}
        /\ opener[p].next \notin recorded
    BY <1>7 DEF Commit, At, InFlight, InTransaction
  <2>2. opener[p].next \in Nat \ {0} /\ opener[p].next <= LastVersion
        /\ opener[p].next <= Len(applied) + 1
    BY <1>7 DEF Commit, At, Behind, OpenerType, Working, InTransaction
  <2>3. opener[p].next = Len(applied) + 1
    BY <2>1, <2>2 DEF Prefix
  <2>4. Prefix'
    BY <2>1, <2>2, <2>3 DEF Prefix
  <2>5. Len(applied)' = Len(applied) + 1
    BY <2>1, <2>2 DEF Prefix
  <2>6. Behind'
    BY <1>7, <2>2, <2>3, <2>5 DEF Commit, At, Behind, OpenerType, Working, InTransaction, Prefix
  <2>7. \A q \in Openers \ {p} : opener[q].at \notin InTransaction
    BY <1>7 DEF Commit, Owns, InFlight
  <2>8. InFlight'
    BY <1>7, <2>7 DEF Commit, At, Behind, OpenerType, Working, InTransaction, InFlight
  <2> QED
    BY <2>4, <2>6, <2>8
<1>8. ASSUME NEW p \in Openers, Fail(p) PROVE MInv'
  <2>1. Prefix'
    BY <1>8 DEF Fail, committed, Prefix
  <2>2. Behind'
    BY <1>8 DEF Fail, Exit, committed, Behind, OpenerType, Working, InTransaction
  <2>3. \A q \in Openers \ {p} : opener[q].at \in InTransaction => tx.by = q
    BY DEF InFlight
  <2>4. InFlight'
    BY <1>8, <2>3 DEF Fail, Exit, Owns, committed, Behind, OpenerType, Working, InTransaction, InFlight
  <2> QED
    BY <2>1, <2>2, <2>4
<1> QED
  BY <1>0, <1>1, <1>2, <1>3, <1>4, <1>5, <1>6, <1>7, <1>8 DEF MigrationNext

(* Whoever opens the database and whenever they die, each version takes    *)
(* effect once, in order, with its record and without the rows of others   *)
(* (migrations.go:17-158).                                                 *)
THEOREM SchemaStaysWhole == MigrationSpec => []SchemaIsWhole
<1>1. MInv => SchemaIsWhole
  <2> SUFFICES ASSUME MInv PROVE SchemaIsWhole
    OBVIOUS
  <2>1. \A p \in Openers : At(p, "open") => Len(applied) = LastVersion /\ opener[p].fk = "on"
    BY LastVersionType DEF MInv, At, Prefix, Behind, OpenerType, Working, InTransaction
  <2> QED
    BY <2>1 DEF MInv, SchemaIsWhole, Prefix
<1> QED
  BY MigrationInit, MigrationStep, <1>1, PTL DEF MigrationSpec

(***************************************************************************)
(* VaultNames.  The UNIQUE index keeps names apart, so that as long as a   *)
(* vault keeps its name, whoever looks the name up finds it.               *)
(***************************************************************************)
Creating == [at : {"grant"}, actor : Actors, vault : Vaults]
Resolving(at, hits) ==
  [at : at, vault : Vaults, old : Names, new : Names, hit : hits, kept : {"yes", "no"}]

RequestType ==
  [at : {"new", "done"}] \cup Creating
    \cup Resolving({"delete", "unique", "find"}, {None}) \cup Resolving({"update"}, Vaults)

NamesApart ==
  /\ name \in [Vaults -> Names \cup {None}]
  /\ unused \subseteq Vaults /\ \A v \in unused : name[v] = None
  /\ \A u, v \in Vaults : name[u] = name[v] /\ name[u] # None => u = v

(* Why the row that a rename found is the one it was authorised on.        *)
FoundWhatItResolved ==
  /\ request \in [Requests -> RequestType]
  /\ \A r \in Requests : Resolved(r) /\ request[r].kept = "yes" =>
       /\ name[request[r].vault] = request[r].old
       /\ Due(r, "update") => request[r].hit = request[r].vault

NInv == NamesApart /\ FoundWhatItResolved

LEMMA FirstNames == NamesInit => NInv
<1> SUFFICES ASSUME NamesInit PROVE NInv
  OBVIOUS
<1>1. NamesApart
  BY DEF NamesInit, NamesApart
<1>2. FoundWhatItResolved
  BY DEF NamesInit, FoundWhatItResolved, RequestType, Resolved
<1> QED
  BY <1>1, <1>2 DEF NInv

(* A renaming step leaves what it says of the others true.                 *)
LEMMA RenamesKeep ==
  ASSUME None \notin Names, NInv, NEW r \in Requests, Resolved(r),
         NEW names \in [Vaults -> Names \cup {None}], Renames(r, names)
  PROVE  FoundWhatItResolved'
<1> USE DEF NInv
<1>1. \A q \in Requests : request[q] \in RequestType
  BY DEF FoundWhatItResolved
<1>2. \A q \in Requests : request'[q] \in RequestType
  <2> SUFFICES ASSUME NEW q \in Requests PROVE request'[q] \in RequestType
    OBVIOUS
  <2>1. CASE q = r
    BY <2>1 DEF Renames, RequestType
  <2>2. CASE q # r /\ Resolved(q)
    <3>1. request[q] \in Resolving({"delete", "unique", "find"}, {None})
          \/ request[q] \in Resolving({"update"}, Vaults)
      BY <1>1, <2>2 DEF RequestType, Resolved, Creating
    <3>2. request'[q] = [request[q] EXCEPT !.kept =
                           IF names[request[q].vault] = request[q].old THEN @ ELSE "no"]
      BY <2>2 DEF Renames
    <3> QED
      BY <3>1, <3>2 DEF Resolving, RequestType
  <2>3. CASE q # r /\ ~Resolved(q)
    BY <1>1, <2>3 DEF Renames
  <2> QED
    BY <2>1, <2>2, <2>3
<1>3. ASSUME NEW q \in Requests, Resolved(q)', request'[q].kept = "yes"
      PROVE  /\ name'[request'[q].vault] = request'[q].old
             /\ Due(q, "update")' => request'[q].hit = request'[q].vault
  <2>1. q # r
    BY <1>3 DEF Renames, Resolved
  <2>2. Resolved(q)
    BY <1>3, <2>1 DEF Renames, Resolved
  <2>3. request[q] \in Resolving({"delete", "unique", "find"}, {None})
        \/ request[q] \in Resolving({"update"}, Vaults)
    BY <1>1, <2>2 DEF RequestType, Resolved, Creating
  <2>4. request'[q] = [request[q] EXCEPT !.kept =
                         IF names[request[q].vault] = request[q].old THEN @ ELSE "no"]
    BY <2>1, <2>2 DEF Renames
  <2>5. /\ request[q].kept = "yes" /\ names[request[q].vault] = request[q].old
        /\ request'[q].vault = request[q].vault /\ request'[q].old = request[q].old
        /\ request'[q].hit = request[q].hit /\ request'[q].at = request[q].at
    BY <1>3, <2>3, <2>4 DEF Resolving
  <2> QED
    BY <2>2, <2>5 DEF FoundWhatItResolved, Due, Renames
<1>4. request' \in [Requests -> RequestType]
  BY <1>2 DEF Renames
<1> QED
  BY <1>3, <1>4 DEF FoundWhatItResolved

(* A request that ends, and leaves the names alone.                        *)
LEMMA RespondKeeps ==
  ASSUME NInv, NEW r \in Requests, Respond(r), UNCHANGED <<name, unused>>
  PROVE  NInv'
<1> USE DEF NInv
<1>1. NamesApart'
  BY DEF NamesApart
<1>2. [at |-> "done"] \in RequestType
  BY DEF RequestType
<1>3. request' \in [Requests -> RequestType]
  BY <1>2 DEF Respond, FoundWhatItResolved
<1>4. \A q \in Requests \ {r} : request'[q] = request[q]
  BY DEF Respond, FoundWhatItResolved
<1>5. ~Resolved(r)'
  BY DEF Respond, FoundWhatItResolved, Resolved
<1>6. FoundWhatItResolved'
  BY <1>3, <1>4, <1>5 DEF FoundWhatItResolved, Resolved, Due
<1> QED
  BY <1>1, <1>6

(* Every step writes one name, and only one that no other row has.         *)
LEMMA NamesStep ==
  ASSUME None \notin Names, NInv, [NamesNext]_nameVars
  PROVE  NInv'
<1> USE DEF NInv
<1>0. CASE UNCHANGED nameVars
  BY <1>0 DEF nameVars, NamesApart, FoundWhatItResolved, Resolved, Due
<1>1. ASSUME NEW r \in Requests, CreateVault(r) PROVE NInv'
  <2> PICK actor \in Actors, n \in Names, v \in unused :
        IF Taken(n)
        THEN Respond(r) /\ UNCHANGED <<name, unused, admins>>
        ELSE /\ name' = [name EXCEPT ![v] = n]
             /\ unused' = unused \ {v}
             /\ request' = [request EXCEPT ![r] = [at |-> "grant", actor |-> actor, vault |-> v]]
             /\ UNCHANGED admins
    BY <1>1 DEF CreateVault
  <2>1. CASE Taken(n)
    BY <2>1, RespondKeeps
  <2>2. CASE ~Taken(n)
    <3>1. NamesApart'
      BY <2>2 DEF NamesApart, Taken, Carry
    <3>2. request' \in [Requests -> RequestType]
      <4>1. [at |-> "grant", actor |-> actor, vault |-> v] \in RequestType
        BY DEF RequestType, Creating, NamesApart
      <4> QED
        BY <2>2, <4>1 DEF FoundWhatItResolved
    <3>3. ASSUME NEW q \in Requests, Resolved(q)', request'[q].kept = "yes"
          PROVE  /\ name'[request'[q].vault] = request'[q].old
                 /\ Due(q, "update")' => request'[q].hit = request'[q].vault
      <4>1. q # r /\ request'[q] = request[q]
        BY <2>2, <3>3 DEF Resolved, FoundWhatItResolved
      <4>2. Resolved(q) /\ request[q].kept = "yes"
        BY <3>3, <4>1 DEF Resolved
      <4>3. request[q].vault \in Vaults /\ request[q].old \in Names
        BY <4>2 DEF FoundWhatItResolved, RequestType, Resolved, Creating, Resolving
      <4>4. request[q].vault # v
        BY <4>2, <4>3 DEF FoundWhatItResolved, NamesApart
      <4> QED
        BY <2>2, <4>1, <4>2, <4>3, <4>4 DEF FoundWhatItResolved, NamesApart, Due
    <3> QED
      BY <3>1, <3>2, <3>3 DEF FoundWhatItResolved
  <2> QED
    BY <2>1, <2>2
<1>2. ASSUME NEW r \in Requests, GrantCreator(r) PROVE NInv'
  BY <1>2, RespondKeeps DEF GrantCreator
<1>3. ASSUME NEW r \in Requests, ResolveVaultForAdminOrOwner(r) PROVE NInv'
  <2>1. PICK old \in Names \ {Default}, v \in Vaults, next \in {"delete", "unique"}, new \in Names :
          /\ v \in Carry(old)
          /\ request' = [request EXCEPT ![r] = [at |-> next, vault |-> v, old |-> old,
                                                new |-> new, hit |-> None, kept |-> "yes"]]
    BY <1>3 DEF ResolveVaultForAdminOrOwner
  <2>2. NamesApart'
    BY <1>3 DEF ResolveVaultForAdminOrOwner, NamesApart
  <2>3. name[v] = old /\ name' = name
    BY <1>3, <2>1 DEF ResolveVaultForAdminOrOwner, Carry
  <2>4. [at |-> next, vault |-> v, old |-> old, new |-> new, hit |-> None, kept |-> "yes"]
          \in Resolving({"delete", "unique", "find"}, {None})
    BY DEF Resolving
  <2>5. request' \in [Requests -> RequestType]
    BY <2>1, <2>4 DEF FoundWhatItResolved, RequestType
  <2>6. \A q \in Requests \ {r} : request'[q] = request[q]
    BY <2>1 DEF FoundWhatItResolved
  <2>7. request'[r] = [at |-> next, vault |-> v, old |-> old, new |-> new, hit |-> None, kept |-> "yes"]
    BY <2>1 DEF FoundWhatItResolved
  <2>8. FoundWhatItResolved'
    BY <2>3, <2>5, <2>6, <2>7 DEF FoundWhatItResolved, Resolved, Due
  <2> QED
    BY <2>2, <2>8
<1>4. ASSUME NEW r \in Requests, DeleteVault(r) PROVE NInv'
  <2>0. Resolved(r)
    BY <1>4 DEF DeleteVault, Due, Resolved
  <2>1. CASE ~Taken(request[r].old)
    BY <1>4, <2>1, RespondKeeps DEF DeleteVault
  <2>2. CASE Taken(request[r].old)
    <3>1. PICK v \in Carry(request[r].old) : Renames(r, [name EXCEPT ![v] = None])
      BY <1>4, <2>2 DEF DeleteVault
    <3>2. name' = [name EXCEPT ![v] = None] /\ unused' = unused /\ v \in Vaults
      BY <1>4, <2>2, <3>1 DEF DeleteVault, Renames, Carry
    <3>3. [name EXCEPT ![v] = None] \in [Vaults -> Names \cup {None}]
      BY <3>2 DEF NamesApart
    <3>4. NamesApart'
      BY <3>2 DEF NamesApart
    <3> QED
      BY <2>0, <3>1, <3>3, <3>4, RenamesKeep
  <2> QED
    BY <2>1, <2>2
<1>5. ASSUME NEW r \in Requests, CheckUnique(r) PROVE NInv'
  <2>1. NamesApart'
    BY <1>5 DEF CheckUnique, NamesApart
  <2>2. request[r] \in Resolving({"delete", "unique", "find"}, {None})
    BY <1>5 DEF CheckUnique, Due, FoundWhatItResolved, RequestType, Creating, Resolving
  <2>3. CASE Continue(r, "find")
    <3>1. request'[r] = [request[r] EXCEPT !.at = "find"]
      BY <2>3 DEF Continue, FoundWhatItResolved
    <3>2. /\ request'[r] \in Resolving({"delete", "unique", "find"}, {None})
          /\ request'[r].at = "find" /\ request'[r].kept = request[r].kept
          /\ request'[r].vault = request[r].vault /\ request'[r].old = request[r].old
      BY <2>2, <3>1 DEF Resolving
    <3>3. \A q \in Requests \ {r} : request'[q] = request[q]
      BY <2>3 DEF Continue, FoundWhatItResolved
    <3>4. request' \in [Requests -> RequestType]
      BY <2>3, <3>2, <3>3 DEF Continue, FoundWhatItResolved, RequestType
    <3>5. name' = name /\ Resolved(r)
      BY <1>5 DEF CheckUnique, Due, Resolved
    <3>6. FoundWhatItResolved'
      BY <3>2, <3>3, <3>4, <3>5 DEF FoundWhatItResolved, Resolved, Due
    <3> QED
      BY <2>1, <3>6 DEF NInv
  <2>4. CASE Respond(r)
    BY <1>5, <2>4, RespondKeeps DEF CheckUnique
  <2> QED
    BY <1>5, <2>1, <2>3, <2>4 DEF CheckUnique, NInv
<1>6. ASSUME NEW r \in Requests, FindRow(r) PROVE NInv'
  <2>1. NamesApart'
    BY <1>6 DEF FindRow, NamesApart
  <2>2. request[r] \in Resolving({"delete", "unique", "find"}, {None})
    BY <1>6 DEF FindRow, Due, FoundWhatItResolved, RequestType, Creating, Resolving
  <2>3. CASE Taken(request[r].old)
    <3>1. PICK v \in Carry(request[r].old) :
            request' = [request EXCEPT ![r].at = "update", ![r].hit = v]
      BY <1>6, <2>3 DEF FindRow
    <3>2. v \in Vaults /\ name[v] = request[r].old /\ name' = name
      BY <1>6, <3>1 DEF FindRow, Carry
    <3>3. request'[r] = [request[r] EXCEPT !.at = "update", !.hit = v]
      BY <3>1 DEF FoundWhatItResolved
    <3>4. /\ request'[r] \in Resolving({"update"}, Vaults)
          /\ request'[r].vault = request[r].vault /\ request'[r].old = request[r].old
          /\ request'[r].kept = request[r].kept /\ request'[r].hit = v
      BY <2>2, <3>2, <3>3 DEF Resolving
    <3>5. \A q \in Requests \ {r} : request'[q] = request[q]
      BY <3>1 DEF FoundWhatItResolved
    <3>6. request' \in [Requests -> RequestType]
      BY <3>1, <3>4, <3>5 DEF FoundWhatItResolved, RequestType
    <3>7. Resolved(r) /\ request[r].vault \in Vaults /\ request[r].old \in Names
      BY <2>2 DEF Resolving, Resolved
    <3>8. request[r].kept = "yes" => v = request[r].vault
      BY <3>2, <3>7 DEF FoundWhatItResolved, NamesApart
    <3>9. FoundWhatItResolved'
      BY <3>2, <3>4, <3>5, <3>6, <3>7, <3>8 DEF FoundWhatItResolved, Resolved, Due
    <3> QED
      BY <2>1, <3>9
  <2>4. CASE ~Taken(request[r].old)
    BY <1>6, <2>4, RespondKeeps DEF FindRow
  <2> QED
    BY <2>3, <2>4
<1>7. ASSUME NEW r \in Requests, UpdateName(r) PROVE NInv'
  <2>0. Resolved(r) /\ request[r] \in Resolving({"update"}, Vaults)
    BY <1>7 DEF UpdateName, Due, Resolved, FoundWhatItResolved, RequestType, Creating, Resolving
  <2> DEFINE h == request[r].hit
             n == request[r].new
             names == [name EXCEPT ![h] = n]
  <2>1. h \in Vaults /\ n \in Names
    BY <2>0 DEF Resolving
  <2>2. CASE name[h] # None /\ Carry(n) \subseteq {h}
    <3>1. Renames(r, names) /\ unused' = unused
      BY <1>7, <2>2 DEF UpdateName
    <3>2. names \in [Vaults -> Names \cup {None}]
      BY <2>1 DEF NamesApart
    <3>3. name' = names
      BY <3>1 DEF Renames
    <3>4. NamesApart'
      BY <2>1, <2>2, <3>1, <3>3 DEF NamesApart, Carry
    <3> HIDE DEF names
    <3> QED
      BY <2>0, <3>1, <3>2, <3>4, RenamesKeep
  <2>3. CASE ~(name[h] # None /\ Carry(n) \subseteq {h})
    BY <1>7, <2>3, RespondKeeps DEF UpdateName
  <2> QED
    BY <2>2, <2>3
<1> QED
  BY <1>0, <1>1, <1>2, <1>3, <1>4, <1>5, <1>6, <1>7 DEF NamesNext, Work

ChangesOwn ==
  \A r \in Requests, v \in Vaults :
    Hits(r, v) => request[r].vault = v \/ request[r].kept = "no"

LEMMA StepChangesOwn ==
  ASSUME None \notin Names, NInv, NamesNext
  PROVE  ChangesOwn
<1> SUFFICES ASSUME NEW r \in Requests, NEW v \in Vaults, Hits(r, v), request[r].kept # "no"
             PROVE  request[r].vault = v
  BY DEF ChangesOwn
<1> USE DEF NInv
<1>1. Resolved(r) /\ request'[r].at = "done" /\ name'[v] # name[v]
  BY DEF Hits, Due
<1>2. /\ request[r].kept = "yes"
      /\ request[r].vault \in Vaults /\ request[r].old \in Names
  BY <1>1 DEF Resolved, FoundWhatItResolved, RequestType, Creating, Resolving
<1>3. PICK q \in Requests : Work(q)
  BY DEF NamesNext
<1>4. name[request[r].vault] = request[r].old
  BY <1>1, <1>2 DEF FoundWhatItResolved
<1>5. CASE CreateVault(q)
  BY <1>1, <1>5 DEF CreateVault, Respond, Resolved, Due, FoundWhatItResolved
<1>6. CASE DeleteVault(q) \/ UpdateName(q)
  <2>1. PICK names : Renames(q, names)
    BY <1>1, <1>6 DEF DeleteVault, UpdateName
  <2>2. q = r
    BY <1>1, <1>2, <2>1 DEF Renames, Resolved, FoundWhatItResolved, RequestType, Creating, Resolving
  <2>3. CASE DeleteVault(r)
    BY <1>1, <1>2, <1>4, <2>3 DEF DeleteVault, Renames, Carry, NamesApart
  <2>4. CASE UpdateName(r)
    <3>1. request[r].hit = request[r].vault
      BY <1>1, <1>2, <2>4 DEF UpdateName, FoundWhatItResolved
    <3> QED
      BY <1>1, <1>2, <2>4, <3>1 DEF UpdateName, Renames, NamesApart
  <2> QED
    BY <1>6, <2>2, <2>3, <2>4
<1> QED
  BY <1>1, <1>3, <1>5, <1>6 DEF Work, GrantCreator, ResolveVaultForAdminOrOwner, CheckUnique, FindRow

(* A rename or a deletion reaches another vault than it was authorised on  *)
(* only when that one lost the name meanwhile (handle_vaults.go:494-501).  *)
THEOREM ChangesItsOwnVault ==
  ASSUME None \notin Names
  PROVE  NamesSpec => AuthorisedUnlessMoved
<1>1. NInv /\ [NamesNext]_nameVars => NInv'
  BY NamesStep
<1>2. NInv /\ [NamesNext]_nameVars => [ChangesOwn]_nameVars
  BY StepChangesOwn
<1>3. NamesSpec => [][ChangesOwn]_nameVars
  BY FirstNames, <1>1, <1>2, PTL DEF NamesSpec
<1> QED
  BY <1>3 DEF AuthorisedUnlessMoved, ChangesOwn
===============================================================================
