------------------------------ MODULE LeafCache ------------------------------
(***************************************************************************)
(* The certificates that the proxy shows to its clients: SoftCA.MintLeaf   *)
(* (ca/soft.go) over its LRU (ca/lru.go), under one mutex, so that a call  *)
(* is one step.                                                            *)
(*                                                                         *)
(* Abstracted: a name is a member of Snis, and Invalid are those that      *)
(* validateSNI refuses; a certificate is its last moment, NotAfter.        *)
(*                                                                         *)
(* Bounds: Horizon moments, MaxUses calls that the history has numbered.   *)
(***************************************************************************)
EXTENDS Integers, SequencesExt

CONSTANTS Snis, Invalid, CacheSize, LeafTTL, ClockSkew, Horizon, MaxUses

(* The server takes the defaults: 24 hours and 5 minutes.                  *)
ASSUME LeafAssumption ==
  /\ Snis \subseteq Nat \ {0} /\ Invalid \subseteq Snis
  /\ CacheSize \in Nat \ {0}
  /\ ClockSkew \in Nat /\ LeafTTL \in Nat /\ LeafTTL > ClockSkew

VARIABLES
  clock,
  recent,    \* the list of the cache, the entry used last at the front
  notAfter,  \* the certificate of each entry
  served,    \* the last answer: a name, when, and what it was given, or 0
  uses,      \* history: the calls that used or made an entry, so far
  lastUse    \* history: the number of the last of them for each name, or 0

leafVars == <<clock, recent, notAfter, served, uses, lastUse>>

LeafInit ==
  /\ clock = 1
  /\ recent = <<>> /\ notAfter = <<>>
  /\ served = [sni |-> 0, at |-> 0, notAfter |-> 0]
  /\ uses = 0 /\ lastUse = [s \in Snis |-> 0]

Cached(sni) == Contains(recent, sni)
Fresh(sni) == Cached(sni) /\ notAfter[sni] > clock + ClockSkew

(* lru.get and lru.add put the entry in front; add drops the last.         *)
Place(sni) == CHOOSE i \in DOMAIN recent : recent[i] = sni
Others(sni) == IF Cached(sni) THEN RemoveAt(recent, Place(sni)) ELSE recent
InFront(sni) == <<sni>> \o Others(sni)

Kept(list) == IF Len(list) > CacheSize THEN SubSeq(list, 1, CacheSize) ELSE list

Used(sni) ==
  /\ uses' = uses + 1
  /\ lastUse' = [lastUse EXCEPT ![sni] = uses + 1]

Serve(sni, cert) ==
  /\ served' = [sni |-> sni, at |-> clock, notAfter |-> cert]
  /\ Used(sni)
  /\ UNCHANGED clock

(* A certificate that outlives the clock skew is given again.              *)
GetInPlace(sni) ==
  /\ Fresh(sni)
  /\ Serve(sni, notAfter[sni])
  /\ UNCHANGED <<recent, notAfter>>

Get(sni) ==
  /\ Fresh(sni)
  /\ recent' = InFront(sni)
  /\ Serve(sni, notAfter[sni])
  /\ UNCHANGED notAfter

(* Otherwise a new one is made, which takes the place of an old one.       *)
Mint(sni) ==
  /\ ~Fresh(sni)
  /\ sni \notin Invalid
  /\ recent' = Kept(InFront(sni))
  /\ notAfter' = [s \in ToSet(recent') |-> IF s = sni THEN clock + LeafTTL ELSE notAfter[s]]
  /\ Serve(sni, clock + LeafTTL)

(* An invalid name, or a failure to make the key: get may have moved the   *)
(* entry of an old certificate to the front already.                       *)
MintFails(sni) ==
  /\ ~Fresh(sni)
  /\ IF Cached(sni) THEN recent' = InFront(sni) /\ Used(sni)
     ELSE UNCHANGED <<recent, uses, lastUse>>
  /\ UNCHANGED <<clock, notAfter, served>>

MintLeaf(sni) == Get(sni) \/ Mint(sni) \/ MintFails(sni)

Tick ==
  /\ clock < Horizon
  /\ clock' = clock + 1
  /\ UNCHANGED <<recent, notAfter, served, uses, lastUse>>

LeafNext == (uses < MaxUses /\ \E sni \in Snis : MintLeaf(sni)) \/ Tick

LeafSpec == LeafInit /\ [][LeafNext]_leafVars

-----------------------------------------------------------------------------
(* The cache has the names that were used last, as many as it holds, in    *)
(* their order: what is not in it was used before everything that is, and  *)
(* only a full cache drops anything.  Every entry has a certificate, and   *)
(* one that is given is good for longer than clocks differ                 *)
(* (soft.go:266-277, lru.go:32-54).                                        *)
CacheIsRecent ==
  /\ Len(recent) <= CacheSize
  /\ \A i, j \in DOMAIN recent : i < j => lastUse[recent[i]] > lastUse[recent[j]]
  /\ \A sni \in Snis : ~Cached(sni) /\ lastUse[sni] # 0 =>
       /\ Len(recent) = CacheSize
       /\ \A i \in DOMAIN recent : lastUse[recent[i]] > lastUse[sni]
  /\ DOMAIN notAfter = ToSet(recent)
  /\ served.sni # 0 => served.notAfter > served.at + ClockSkew
=============================================================================
