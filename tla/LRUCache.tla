------------------------------ MODULE LRUCache ------------------------------
(***************************************************************************)
(* The spot service's cache (internal/cache/lru.go): a map from the keys   *)
(* to their entries, and a list with the keys in the order of their last   *)
(* use, the newest in front.  Each method is one critical section.  The    *)
(* operators below are the methods, for the modules that use the cache.    *)
(*                                                                         *)
(* container/list is modelled as a sequence; an entry's own element of it  *)
(* is found by its key.  Time is modelled by what it does to an entry:     *)
(* once past its expiresAt it stays so until it is written again.          *)
(***************************************************************************)
EXTENDS Naturals, Sequences

CONSTANTS
  Keys,    \* the strings used as keys
  Values,  \* the values stored, uninterpreted
  MaxSize, \* the maxSize it was made with
  None     \* what the map holds for an absent key

Entry == [value : Values, mortal : BOOLEAN, expired : BOOLEAN]

ASSUME LRUCacheAssumption ==
  /\ MaxSize \in Nat
  /\ None \notin Values \cup Entry

VARIABLES
  data, \* LRUCache.data: key -> entry
  ll    \* LRUCache.ll: the keys, the most recently used first

cache == <<data, ll>>

CacheTypeOK ==
  /\ data \in [Keys -> Entry \cup {None}]
  /\ ll \in Seq(Keys)

NewLRUCache ==
  /\ data = [k \in Keys |-> None]
  /\ ll = <<>>

-----------------------------------------------------------------------------
Cached(k) == data[k] # None

Live(k) == Cached(k) /\ ~data[k].expired

(* The list without its i-th element.                                      *)
Without(s, i) ==
  [j \in 1 .. Len(s) - 1 |-> IF j < i THEN s[j] ELSE s[j + 1]]

(* The list with k in front of it.                                         *)
PushFront(k, s) ==
  [j \in 1 .. Len(s) + 1 |-> IF j = 1 THEN k ELSE s[j - 1]]

Element(k) == CHOOSE i \in 1 .. Len(ll) : ll[i] = k

ToFront(k) == PushFront(k, Without(ll, Element(k)))

(* A mutant: the entry leaves the map and stays in the list.               *)
RemoveFromMap(k) ==
  /\ data' = [data EXCEPT ![k] = None]
  /\ UNCHANGED ll

RemoveEntry(k) ==
  /\ data' = [data EXCEPT ![k] = None]
  /\ ll' = Without(ll, Element(k))

(* What Get returns, None when it finds nothing.                           *)
Found(k) == IF Live(k) THEN data[k].value ELSE None

(* Get, which removes an entry it finds expired.                           *)
Get(k) ==
  \/ ~Cached(k) /\ UNCHANGED cache
  \/ Cached(k) /\ ~Live(k) /\ RemoveEntry(k)
  \/ Live(k) /\ ll' = ToFront(k) /\ UNCHANGED data

(* A mutant: room is made one key too late.                                *)
FullTooLate == Len(ll) > MaxSize
Full == Len(ll) >= MaxSize

(* removeOldest finds nothing to remove in an empty list, so that a cache  *)
(* of size zero holds one key.                                             *)
Oldest == IF Full /\ ll # <<>> THEN {ll[Len(ll)]} ELSE {}

NewEntry(v, m) == [value |-> v, mortal |-> m, expired |-> FALSE]

(* Set; its entry is mortal when ttlSeconds is positive.                   *)
Set(k, v, m) ==
  \/ /\ Cached(k)
     /\ data' = [data EXCEPT ![k] = NewEntry(v, m)]
     /\ ll' = ToFront(k)
  \/ /\ ~Cached(k)
     /\ data' = [x \in Keys |->
          IF x = k THEN NewEntry(v, m) ELSE IF x \in Oldest THEN None ELSE data[x]]
     /\ ll' = PushFront(k, IF Oldest = {} THEN ll ELSE Without(ll, Len(ll)))

Delete(k) ==
  \/ Cached(k) /\ RemoveEntry(k)
  \/ ~Cached(k) /\ UNCHANGED cache

CloseCache ==
  /\ data' = [k \in Keys |-> None]
  /\ ll' = <<>>

(* The clock passes an entry's expiresAt.                                  *)
Expire(k) ==
  /\ Live(k) /\ data[k].mortal
  /\ data' = [data EXCEPT ![k].expired = TRUE]
  /\ UNCHANGED ll

CacheStep ==
  \/ \E k \in Keys : Get(k) \/ Delete(k) \/ Expire(k)
  \/ \E k \in Keys, v \in Values, m \in BOOLEAN : Set(k, v, m)
  \/ CloseCache

-----------------------------------------------------------------------------
Capacity == IF MaxSize = 0 THEN 1 ELSE MaxSize

(* The map and the list hold the same keys, each of them once, and no more *)
(* than fit, whatever the order in which entries are read, overwritten,    *)
(* deleted, found expired or dropped to make room.                         *)
MapMatchesList ==
  /\ \A k \in Keys : Cached(k) <=> \E i \in 1 .. Len(ll) : ll[i] = k
  /\ \A i, j \in 1 .. Len(ll) : ll[i] = ll[j] => i = j
  /\ Len(ll) <= Capacity

(* The cache keeps the promise of ports.Cache: what it holds is what a Get *)
(* would find.                                                             *)
Promise == INSTANCE Cache WITH content <- [k \in Keys |-> Found(k)]

ImplementsCache == Promise!Spec
=============================================================================
