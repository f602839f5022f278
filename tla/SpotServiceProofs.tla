------------------------- MODULE SpotServiceProofs -------------------------
(***************************************************************************)
(* What is proved of SpotService and of the cache it uses: the types, the  *)
(* agreement of the cache's map and list, the cache's promise, and the     *)
(* answers.                                                                *)
(***************************************************************************)
EXTENDS SpotService, TLAPS, SequenceTheorems

-----------------------------------------------------------------------------
(* The list.                                                               *)

(* A list without its i-th element: the elements before it stay, those     *)
(* after it move up.                                                       *)
LEMMA WithoutElements ==
  ASSUME NEW s \in Seq(Keys), NEW i \in 1 .. Len(s)
  PROVE  /\ Without(s, i) \in Seq(Keys)
         /\ Len(Without(s, i)) = Len(s) - 1
         /\ \A j \in 1 .. Len(s) - 1 :
              Without(s, i)[j] = IF j < i THEN s[j] ELSE s[j + 1]
  <1>1. Len(s) - 1 \in Nat
    OBVIOUS
  <1>2. Without(s, i) \in [1 .. Len(s) - 1 -> Keys]
    BY DEF Without
  <1> QED
    BY <1>1, <1>2, SeqDef DEF Without

(* A list with a key in front of it.                                       *)
LEMMA PushFrontElements ==
  ASSUME NEW s \in Seq(Keys), NEW k \in Keys
  PROVE  /\ PushFront(k, s) \in Seq(Keys)
         /\ Len(PushFront(k, s)) = Len(s) + 1
         /\ PushFront(k, s)[1] = k
         /\ \A j \in 1 .. Len(s) : PushFront(k, s)[j + 1] = s[j]
  <1>1. Len(s) + 1 \in Nat
    OBVIOUS
  <1>2. PushFront(k, s) \in [1 .. Len(s) + 1 -> Keys]
    BY DEF PushFront
  <1>3. PushFront(k, s) \in Seq(Keys) /\ Len(PushFront(k, s)) = Len(s) + 1
    BY <1>1, <1>2, SeqDef
  <1> QED
    BY <1>1, <1>3 DEF PushFront

(* What a list is that matches a map with the keys K.                      *)
Lists(s, K) ==
  /\ s \in Seq(Keys)
  /\ \A k \in Keys : k \in K <=> \E i \in 1 .. Len(s) : s[i] = k
  /\ \A i, j \in 1 .. Len(s) : s[i] = s[j] => i = j

(* Removing an element removes its key, and keeps the rest.                *)
LEMMA ListWithout ==
  ASSUME NEW s, NEW K, Lists(s, K), NEW i \in 1 .. Len(s)
  PROVE  /\ Lists(Without(s, i), K \ {s[i]})
         /\ Len(Without(s, i)) = Len(s) - 1
  <1> DEFINE t == Without(s, i)
  <1>1. /\ t \in Seq(Keys) /\ Len(t) = Len(s) - 1
        /\ \A j \in 1 .. Len(s) - 1 : t[j] = IF j < i THEN s[j] ELSE s[j + 1]
    BY WithoutElements DEF Lists
  <1> HIDE DEF t
  <1>2. Len(s) \in Nat
    BY DEF Lists
  <1>3. ASSUME NEW k \in Keys, k \in K, k # s[i]
        PROVE  \E j \in 1 .. Len(t) : t[j] = k
    <2>1. PICK j \in 1 .. Len(s) : s[j] = k
      BY <1>3 DEF Lists
    <2>2. CASE j < i
      BY <2>1, <2>2, <1>1, <1>2
    <2>3. CASE j > i
      <3>1. j - 1 \in 1 .. Len(t) /\ t[j - 1] = s[(j - 1) + 1] /\ (j - 1) + 1 = j
        BY <2>3, <1>1, <1>2
      <3> QED
        BY <3>1, <2>1
    <2> QED
      BY <2>1, <2>2, <2>3, <1>2, <1>3
  <1>4. ASSUME NEW j \in 1 .. Len(t)
        PROVE  t[j] \in K /\ t[j] # s[i]
    <2>1. PICK m \in 1 .. Len(s) : m # i /\ t[j] = s[m]
      <3>1. CASE j < i
        BY <3>1, <1>1, <1>2
      <3>2. CASE j >= i
        <4>1. j + 1 \in 1 .. Len(s) /\ j + 1 # i /\ t[j] = s[j + 1]
          BY <3>2, <1>1, <1>2
        <4> QED
          BY <4>1
      <3> QED
        BY <3>1, <3>2, <1>2
    <2>2. s[m] \in Keys
      BY <2>1 DEF Lists
    <2> QED
      BY <2>1, <2>2 DEF Lists
  <1>5. ASSUME NEW p \in 1 .. Len(t), NEW q \in 1 .. Len(t), t[p] = t[q]
        PROVE  p = q
    <2> DEFINE up(x) == IF x < i THEN x ELSE x + 1
    <2>1. up(p) \in 1 .. Len(s) /\ t[p] = s[up(p)]
      BY <1>1, <1>2
    <2>2. up(q) \in 1 .. Len(s) /\ t[q] = s[up(q)]
      BY <1>1, <1>2
    <2>3. up(p) = up(q)
      BY <2>1, <2>2, <1>5 DEF Lists
    <2> QED
      BY <2>3, <1>2
  <1>6. Lists(t, K \ {s[i]})
    BY <1>1, <1>3, <1>4, <1>5 DEF Lists
  <1> QED
    BY <1>6, <1>1 DEF t

(* A key that is not in the list goes in front of it.                      *)
LEMMA ListPush ==
  ASSUME NEW s, NEW K, Lists(s, K), NEW k \in Keys, k \notin K
  PROVE  /\ Lists(PushFront(k, s), K \cup {k})
         /\ Len(PushFront(k, s)) = Len(s) + 1
  <1> DEFINE t == PushFront(k, s)
  <1>1. /\ t \in Seq(Keys) /\ Len(t) = Len(s) + 1 /\ t[1] = k
        /\ \A j \in 1 .. Len(s) : t[j + 1] = s[j]
    BY PushFrontElements DEF Lists
  <1> HIDE DEF t
  <1>2. Len(s) \in Nat
    BY DEF Lists
  <1>3. \A j \in 2 .. Len(t) : j - 1 \in 1 .. Len(s) /\ t[j] = s[j - 1]
    <2>1. ASSUME NEW j \in 2 .. Len(t)
          PROVE  j - 1 \in 1 .. Len(s) /\ t[j] = s[j - 1]
      <3>1. j - 1 \in 1 .. Len(s) /\ (j - 1) + 1 = j
        BY <1>1, <1>2
      <3>2. t[(j - 1) + 1] = s[j - 1]
        BY <3>1, <1>1
      <3> QED
        BY <3>1, <3>2
    <2> QED
      BY <2>1
  <1>4. \A j \in 1 .. Len(s) : s[j] # k
    BY DEF Lists
  <1>5. \A x \in Keys : x \in K \cup {k} <=> \E j \in 1 .. Len(t) : t[j] = x
    <2>1. ASSUME NEW x \in Keys, x \in K
          PROVE  \E j \in 1 .. Len(t) : t[j] = x
      <3>1. PICK j \in 1 .. Len(s) : s[j] = x
        BY <2>1 DEF Lists
      <3>2. j + 1 \in 1 .. Len(t) /\ t[j + 1] = x
        BY <3>1, <1>1, <1>2
      <3> QED
        BY <3>2
    <2>2. ASSUME NEW j \in 1 .. Len(t), t[j] # k
          PROVE  t[j] \in K
      <3>1. j \in 2 .. Len(t)
        BY <2>2, <1>1, <1>2
      <3> QED
        BY <3>1, <1>3 DEF Lists
    <2>3. 1 \in 1 .. Len(t)
      BY <1>1, <1>2
    <2>4. \A x \in Keys : x \in K => \E j \in 1 .. Len(t) : t[j] = x
      BY <2>1
    <2>5. \E j \in 1 .. Len(t) : t[j] = k
      BY <2>3, <1>1
    <2>6. \A x \in Keys : (\E j \in 1 .. Len(t) : t[j] = x) => x = k \/ x \in K
      BY <2>2
    <2> QED
      BY <2>4, <2>5, <2>6
  <1>6. ASSUME NEW p \in 1 .. Len(t), NEW q \in 1 .. Len(t), t[p] = t[q]
        PROVE  p = q
    <2>1. CASE p = 1 \/ q = 1
      BY <2>1, <1>1, <1>2, <1>3, <1>4, <1>6
    <2>2. CASE p # 1 /\ q # 1
      <3>1. p - 1 = q - 1
        BY <2>2, <1>3, <1>6, <1>1, <1>2 DEF Lists
      <3> QED
        BY <3>1
    <2> QED
      BY <2>1, <2>2
  <1>7. Lists(t, K \cup {k})
    BY <1>1, <1>5, <1>6 DEF Lists
  <1> QED
    BY <1>7, <1>1 DEF t

(* Moving a key to the front keeps the keys and their number.              *)
LEMMA ListToFront ==
  ASSUME NEW K, Lists(ll, K), NEW k \in Keys, k \in K
  PROVE  /\ Element(k) \in 1 .. Len(ll) /\ ll[Element(k)] = k
         /\ Lists(ToFront(k), K)
         /\ Len(ToFront(k)) = Len(ll)
  <1>1. Element(k) \in 1 .. Len(ll) /\ ll[Element(k)] = k
    BY DEF Lists, Element
  <1>2. PICK i : i = Element(k)
    OBVIOUS
  <1>3. /\ Lists(Without(ll, i), K \ {k})
        /\ Len(Without(ll, i)) = Len(ll) - 1
    BY <1>1, <1>2, ListWithout
  <1>4. PICK s : s = Without(ll, i)
    OBVIOUS
  <1>5. /\ Lists(PushFront(k, s), (K \ {k}) \cup {k})
        /\ Len(PushFront(k, s)) = Len(s) + 1
    BY <1>3, <1>4, ListPush
  <1>6. (K \ {k}) \cup {k} = K
    OBVIOUS
  <1>7. Len(ll) \in Nat
    BY DEF Lists
  <1>8. ToFront(k) = PushFront(k, s)
    BY <1>2, <1>4 DEF ToFront
  <1>9. Lists(ToFront(k), K)
    BY <1>5, <1>6, <1>8
  <1>10. Len(ToFront(k)) = Len(ll)
    BY <1>3, <1>4, <1>5, <1>7, <1>8
  <1> QED
    BY <1>1, <1>9, <1>10

-----------------------------------------------------------------------------
(* The cache.                                                              *)

CachedKeys == {k \in Keys : Cached(k)}

(* The inductive invariant of the map and the list.                        *)
CInv == CacheTypeOK /\ Lists(ll, CachedKeys) /\ Len(ll) <= Capacity

(* An entry that leaves the map leaves the list.                           *)
LEMMA RemoveEntryKeeps ==
  ASSUME CInv, NEW k \in Keys, Cached(k), RemoveEntry(k)
  PROVE  CInv'
  <1>1. Element(k) \in 1 .. Len(ll) /\ ll[Element(k)] = k
    BY ListToFront DEF CInv, CachedKeys
  <1>2. PICK i : i = Element(k)
    OBVIOUS
  <1>3. /\ Lists(Without(ll, i), CachedKeys \ {k})
        /\ Len(Without(ll, i)) = Len(ll) - 1
    BY <1>1, <1>2, ListWithout DEF CInv
  <1>4. ll' = Without(ll, i)
    BY <1>2 DEF RemoveEntry
  <1>5. data' \in [Keys -> Entry \cup {None}]
    BY DEF CInv, CacheTypeOK, RemoveEntry
  <1>6. CachedKeys' = CachedKeys \ {k}
    BY DEF CInv, CacheTypeOK, RemoveEntry, CachedKeys, Cached
  <1>7. Lists(ll', CachedKeys')
    BY <1>3, <1>4, <1>6
  <1>8. Len(ll') <= Capacity
    BY <1>3, <1>4, LRUCacheAssumption DEF CInv, Capacity, Lists
  <1> QED
    BY <1>5, <1>7, <1>8 DEF CInv, CacheTypeOK, Lists

(* Using an entry again changes the order of the list only.                *)
LEMMA ToFrontKeeps ==
  ASSUME CInv, NEW k \in Keys, Cached(k), ll' = ToFront(k),
         data' \in [Keys -> Entry \cup {None}], CachedKeys' = CachedKeys
  PROVE  CInv'
  <1>1. Lists(ToFront(k), CachedKeys) /\ Len(ToFront(k)) = Len(ll)
    BY ListToFront DEF CInv, CachedKeys
  <1>2. Lists(ll', CachedKeys')
    BY <1>1
  <1> QED
    BY <1>1, <1>2 DEF CInv, CacheTypeOK, Lists, Capacity

LEMMA NewEntryType ==
  ASSUME NEW v \in Values, NEW m \in BOOLEAN
  PROVE  NewEntry(v, m) \in Entry /\ NewEntry(v, m) # None
  <1>1. NewEntry(v, m) \in Entry
    BY DEF NewEntry, Entry
  <1> QED
    BY <1>1, LRUCacheAssumption

(* Set leaves at most Capacity keys, the new one among them.               *)
LEMMA SetKeeps ==
  ASSUME CInv, NEW k \in Keys, NEW v \in Values, NEW m \in BOOLEAN, Set(k, v, m)
  PROVE  CInv'
  <1> USE NewEntryType
  <1>1. CASE Cached(k) /\ data' = [data EXCEPT ![k] = NewEntry(v, m)] /\ ll' = ToFront(k)
    <2>1. data' \in [Keys -> Entry \cup {None}]
      BY <1>1 DEF CInv, CacheTypeOK
    <2>2. CachedKeys' = CachedKeys
      BY <1>1 DEF CInv, CacheTypeOK, CachedKeys, Cached
    <2> QED
      BY <1>1, <2>1, <2>2, ToFrontKeeps
  <1>2. CASE /\ ~Cached(k)
             /\ data' = [x \in Keys |->
                  IF x = k THEN NewEntry(v, m) ELSE IF x \in Oldest THEN None ELSE data[x]]
             /\ ll' = PushFront(k, IF Oldest = {} THEN ll ELSE Without(ll, Len(ll)))
    <2> DEFINE s == IF Oldest = {} THEN ll ELSE Without(ll, Len(ll))
    <2>1. Len(ll) \in Nat
      BY DEF CInv, Lists
    <2>2. Lists(s, CachedKeys \ Oldest) /\ Len(s) + 1 <= Capacity
      <3>1. CASE Oldest = {}
        <4>1. CachedKeys \ Oldest = CachedKeys
          BY <3>1
        <4>2. Len(ll) + 1 <= Capacity
          <5>1. ~Full \/ ll = <<>>
            BY <3>1 DEF Oldest
          <5>2. CASE ~Full
            BY <5>2, <2>1, LRUCacheAssumption DEF Full, Capacity
          <5>3. CASE ll = <<>>
            BY <5>3, <2>1, LRUCacheAssumption DEF Capacity
          <5> QED
            BY <5>1, <5>2, <5>3
        <4> QED
          BY <3>1, <4>1, <4>2 DEF CInv
      <3>2. CASE Oldest # {}
        <4>1. Oldest = {ll[Len(ll)]} /\ ll # <<>>
          BY <3>2 DEF Oldest
        <4>2. Len(ll) \in 1 .. Len(ll)
          BY <4>1, <2>1, EmptySeq DEF CInv, Lists
        <4>3. /\ Lists(Without(ll, Len(ll)), CachedKeys \ {ll[Len(ll)]})
              /\ Len(Without(ll, Len(ll))) = Len(ll) - 1
          BY <4>2, ListWithout DEF CInv
        <4> QED
          BY <3>2, <4>1, <4>3, <2>1, LRUCacheAssumption DEF CInv, Capacity
      <3> QED
        BY <3>1, <3>2
    <2> HIDE DEF s
    <2>3. k \notin CachedKeys \ Oldest
      BY <1>2 DEF CachedKeys
    <2>4. /\ Lists(PushFront(k, s), (CachedKeys \ Oldest) \cup {k})
          /\ Len(PushFront(k, s)) = Len(s) + 1
      BY <2>2, <2>3, ListPush
    <2>5. data' \in [Keys -> Entry \cup {None}]
      BY <1>2 DEF CInv, CacheTypeOK
    <2>6. CachedKeys' = (CachedKeys \ Oldest) \cup {k}
      BY <1>2 DEF CachedKeys, Cached
    <2>7. ll' = PushFront(k, s)
      BY <1>2 DEF s
    <2>8. Lists(ll', CachedKeys') /\ Len(ll') <= Capacity
      BY <2>2, <2>4, <2>6, <2>7
    <2> QED
      BY <2>5, <2>8 DEF CInv, CacheTypeOK, Lists, Capacity
  <1> QED
    BY <1>1, <1>2 DEF Set

(* Every method of the cache keeps the map and the list in step.           *)
LEMMA CacheStepKeeps ==
  ASSUME CInv, CacheStep \/ UNCHANGED cache
  PROVE  CInv'
  <1>1. ASSUME NEW k \in Keys, Get(k)
        PROVE  CInv'
    <2>1. CASE UNCHANGED cache
      BY <2>1 DEF CInv, CacheTypeOK, Lists, CachedKeys, Cached, cache, Capacity
    <2>2. CASE Cached(k) /\ RemoveEntry(k)
      BY <2>2, RemoveEntryKeeps
    <2>3. CASE Live(k) /\ ll' = ToFront(k) /\ UNCHANGED data
      <3>1. CachedKeys' = CachedKeys /\ data' \in [Keys -> Entry \cup {None}] /\ Cached(k)
        BY <2>3 DEF CInv, CacheTypeOK, CachedKeys, Cached, Live
      <3> QED
        BY <2>3, <3>1, ToFrontKeeps
    <2> QED
      BY <1>1, <2>1, <2>2, <2>3 DEF Get
  <1>2. ASSUME NEW k \in Keys, Delete(k)
        PROVE  CInv'
    <2>1. CASE UNCHANGED cache
      BY <2>1 DEF CInv, CacheTypeOK, Lists, CachedKeys, Cached, cache, Capacity
    <2> QED
      BY <1>2, <2>1, RemoveEntryKeeps DEF Delete
  <1>3. ASSUME NEW k \in Keys, Expire(k)
        PROVE  CInv'
    <2>1. data[k] \in Entry
      BY <1>3 DEF Expire, Live, Cached, CInv, CacheTypeOK
    <2>2. PICK e : e = [data[k] EXCEPT !.expired = TRUE]
      OBVIOUS
    <2>3. e \in Entry /\ e # None
      BY <2>1, <2>2, LRUCacheAssumption DEF Entry
    <2>4. data' = [data EXCEPT ![k] = e] /\ ll' = ll
      BY <1>3, <2>2 DEF Expire
    <2>5. data' \in [Keys -> Entry \cup {None}] /\ CachedKeys' = CachedKeys
      BY <1>3, <2>3, <2>4 DEF CInv, CacheTypeOK, CachedKeys, Cached, Expire, Live
    <2> QED
      BY <2>4, <2>5 DEF CInv, CacheTypeOK, Lists, Capacity
  <1>4. ASSUME CloseCache
        PROVE  CInv'
    <2>1. /\ CachedKeys' = {} /\ ll' = <<>>
          /\ data' \in [Keys -> Entry \cup {None}]
      BY <1>4 DEF CloseCache, CachedKeys, Cached
    <2>2. ll' \in Seq(Keys) /\ Len(ll') = 0
      BY <2>1
    <2>3. Len(ll') <= Capacity
      BY <2>2, LRUCacheAssumption DEF Capacity
    <2> QED
      BY <2>1, <2>2, <2>3 DEF CInv, CacheTypeOK, Lists, Capacity
  <1>5. CASE UNCHANGED cache
    BY <1>5 DEF CInv, CacheTypeOK, Lists, CachedKeys, Cached, cache, Capacity
  <1> QED
    BY <1>1, <1>2, <1>3, <1>4, <1>5, SetKeeps DEF CacheStep
-----------------------------------------------------------------------------
(* The cache's promise.                                                    *)

Content == [k \in Keys |-> Found(k)]

(* What a Get would find fits in Capacity places: those of the list.       *)
LEMMA ContentFits ==
  ASSUME NEW s, NEW K, Lists(s, K), Len(s) <= Capacity, NEW any \in Keys,
         NEW c, \A k \in Keys : c[k] # None => k \in K
  PROVE  Promise!Fits(c)
  <1> DEFINE place == [i \in 1 .. Capacity |-> IF i <= Len(s) THEN s[i] ELSE any]
  <1>1. Len(s) \in Nat /\ s \in [1 .. Len(s) -> Keys]
    BY LenProperties DEF Lists
  <1>2. Capacity \in Nat
    BY LRUCacheAssumption DEF Capacity
  <1>3. place \in [1 .. Capacity -> Keys]
    BY <1>1, <1>2
  <1>4. ASSUME NEW k \in Keys, c[k] # None
        PROVE  \E i \in 1 .. Capacity : place[i] = k
    <2>1. PICK i \in 1 .. Len(s) : s[i] = k
      BY <1>4 DEF Lists
    <2>2. i \in 1 .. Capacity /\ place[i] = k
      BY <1>1, <1>2, <2>1
    <2> QED
      BY <2>2
  <1> HIDE DEF place
  <1> QED
    BY <1>3, <1>4 DEF Promise!Fits

(* Set puts one value, and drops at most one other.                        *)
LEMMA SetIsPut ==
  ASSUME CInv, CInv', NEW k \in Keys, NEW v \in Values, NEW m \in BOOLEAN, Set(k, v, m)
  PROVE  Promise!Put(k, v)
  <1>1. NewEntry(v, m).value = v /\ ~NewEntry(v, m).expired /\ NewEntry(v, m) # None
    BY NewEntryType DEF NewEntry
  <1>2. Promise!Fits(Content')
    <2>1. PICK K, c : K = CachedKeys' /\ c = Content'
      OBVIOUS
    <2>2. \A x \in Keys : c[x] # None => x \in K
      BY <2>1 DEF Content, Found, CachedKeys, Live
    <2>3. Lists(ll', K) /\ Len(ll') <= Capacity
      BY <2>1 DEF CInv, Capacity
    <2>4. Promise!Fits(c)
      BY <2>2, <2>3, ContentFits
    <2> QED
      BY <2>1, <2>4
  <1>3. \E lost \in Keys : Content' = [x \in Keys |->
          IF x = k THEN v ELSE IF x = lost THEN None ELSE Content[x]]
    <2>1. CASE Cached(k) /\ data' = [data EXCEPT ![k] = NewEntry(v, m)]
      <3>1. Content' = [x \in Keys |->
              IF x = k THEN v ELSE IF x = k THEN None ELSE Content[x]]
        BY <1>1, <2>1 DEF Content, Found, Live, Cached, CInv, CacheTypeOK
      <3> QED
        BY <3>1
    <2>2. CASE /\ ~Cached(k)
               /\ data' = [x \in Keys |->
                    IF x = k THEN NewEntry(v, m) ELSE IF x \in Oldest THEN None ELSE data[x]]
      <3>1. PICK lost \in Keys : Oldest \subseteq {lost} /\ (Oldest = {} => lost = k)
        <4>1. CASE Oldest = {}
          BY <4>1
        <4>2. CASE Oldest # {}
          <5>1. Oldest = {ll[Len(ll)]} /\ ll # <<>>
            BY <4>2 DEF Oldest
          <5>2. ll[Len(ll)] \in Keys
            BY <5>1, EmptySeq DEF CInv, Lists
          <5> QED
            BY <5>1, <5>2
        <4> QED
          BY <4>1, <4>2
      <3>2. ASSUME NEW x \in Keys
            PROVE  Content'[x] = IF x = k THEN v ELSE IF x = lost THEN None ELSE Content[x]
        <4>1. CASE x = k
          BY <1>1, <2>2, <4>1 DEF Content, Found, Live, Cached
        <4>2. CASE x # k /\ x \in Oldest
          BY <2>2, <3>1, <4>2 DEF Content, Found, Live, Cached
        <4>3. CASE x # k /\ x \notin Oldest
          <5>1. x # lost
            BY <3>1, <4>3
          <5> QED
            BY <2>2, <4>3, <5>1 DEF Content, Found, Live, Cached
        <4> QED
          BY <4>1, <4>2, <4>3
      <3> QED
        BY <3>2 DEF Content
    <2> QED
      BY <2>1, <2>2 DEF Set
  <1> QED
    BY <1>2, <1>3 DEF Promise!Put, Content

(* Every step of the cache is a step of the promise, or invisible.         *)
LEMMA CacheStepPromised ==
  ASSUME CInv, CInv', CacheStep \/ UNCHANGED cache
  PROVE  [Promise!Next]_Content
  <1>1. ASSUME NEW k \in Keys, Cached(k), RemoveEntry(k)
        PROVE  Content' = [Content EXCEPT ![k] = None]
    BY <1>1 DEF RemoveEntry, Content, Found, Live, Cached, CInv, CacheTypeOK
  <1>2. ASSUME NEW k \in Keys, Content' = [Content EXCEPT ![k] = None]
        PROVE  Promise!Next
    BY <1>2 DEF Promise!Next, Promise!Forget, Content
  <1>3. ASSUME NEW k \in Keys, Get(k)
        PROVE  [Promise!Next]_Content
    <2>1. CASE UNCHANGED data
      BY <2>1 DEF Content, Found, Live, Cached
    <2> QED
      BY <1>1, <1>2, <1>3, <2>1 DEF Get, cache
  <1>4. ASSUME NEW k \in Keys, Delete(k)
        PROVE  [Promise!Next]_Content
    <2>1. CASE UNCHANGED data
      BY <2>1 DEF Content, Found, Live, Cached
    <2> QED
      BY <1>1, <1>2, <1>4, <2>1 DEF Delete, cache
  <1>5. ASSUME NEW k \in Keys, Expire(k)
        PROVE  [Promise!Next]_Content
    <2>1. PICK e : e = [data[k] EXCEPT !.expired = TRUE]
      OBVIOUS
    <2>2. data[k] \in Entry
      BY <1>5 DEF Expire, Live, Cached, CInv, CacheTypeOK
    <2>3. e.expired
      BY <2>1, <2>2 DEF Entry
    <2>4. data' = [data EXCEPT ![k] = e]
      BY <1>5, <2>1 DEF Expire
    <2>5. Content' = [Content EXCEPT ![k] = None]
      BY <2>3, <2>4 DEF Content, Found, Live, Cached, CInv, CacheTypeOK
    <2> QED
      BY <1>2, <2>5
  <1>6. ASSUME CloseCache
        PROVE  Promise!Next
    <2>1. Content' = [k \in Keys |-> None]
      BY <1>6 DEF CloseCache, Content, Found, Live, Cached
    <2> QED
      BY <2>1 DEF Promise!Next, Promise!Close, Content
  <1>7. ASSUME NEW k \in Keys, NEW v \in Values, NEW m \in BOOLEAN, Set(k, v, m)
        PROVE  Promise!Next
    BY <1>7, SetIsPut DEF Promise!Next
  <1>8. CASE UNCHANGED cache
    BY <1>8 DEF Content, Found, Live, Cached, cache
  <1> QED
    BY <1>3, <1>4, <1>5, <1>6, <1>7, <1>8 DEF CacheStep

-----------------------------------------------------------------------------
(* The calls.                                                              *)

CallsTypeOK ==
  /\ pc \in [Workers -> Steps]
  /\ call \in [Workers -> Call]
  /\ done \in SUBSET Workers

(* What a call with its next step s has found out so far.                  *)
CallOK(s, c) ==
  /\ s \in {"cacheGet", "cacheDelete", "repo"} => c.op = "get" /\ c.id \in Uuids
  /\ s = "cacheSet" => c.op = "get" /\ c.id \in MarketIds \cap Uuids
  /\ s = "ping" => c.op \in {"health", "ready"}
  /\ s = "getAll" => c.op = "view"
  /\ s = "reply" /\ c.op = "get" =>
       IF c.code = "OK"
         THEN c.id \in MarketIds \cap Uuids /\ c.shown = {c.id}
         ELSE c.shown = {}

CallsOK == \A w \in Workers : CallOK(pc[w], call[w])

(* A value that may be in the cache under the key k.                       *)
Good(k, v) == v = Garbled \/ (k \in MarketIds \cap Uuids /\ v = k)

CacheHoldsMarkets == \A k \in Keys : Cached(k) => Good(k, data[k].value)

(* The inductive invariant.                                                *)
IInv == CallsTypeOK /\ CInv /\ CallsOK /\ CacheHoldsMarkets

(* What the service and the others do to the cache.                        *)
GoodStep ==
  \/ \E k \in Keys : Get(k) \/ Delete(k) \/ Expire(k)
  \/ \E k \in Keys, v \in Values, m \in BOOLEAN : Good(k, v) /\ Set(k, v, m)
  \/ CloseCache
  \/ UNCHANGED cache

LEMMA GoodStepKeeps ==
  ASSUME CInv, CacheHoldsMarkets, GoodStep
  PROVE  CacheHoldsMarkets'
  <1>1. ASSUME NEW k \in Keys, Get(k) \/ Delete(k)
        PROVE  CacheHoldsMarkets'
    <2>1. CASE UNCHANGED data
      BY <2>1 DEF CacheHoldsMarkets, Cached, Good
    <2>2. CASE RemoveEntry(k)
      BY <2>2 DEF CacheHoldsMarkets, Cached, Good, RemoveEntry, CInv, CacheTypeOK
    <2> QED
      BY <1>1, <2>1, <2>2 DEF Get, Delete, cache
  <1>2. ASSUME NEW k \in Keys, Expire(k)
        PROVE  CacheHoldsMarkets'
    <2>1. PICK e : e = [data[k] EXCEPT !.expired = TRUE]
      OBVIOUS
    <2>2. data[k] \in Entry /\ Cached(k)
      BY <1>2 DEF Expire, Live, Cached, CInv, CacheTypeOK
    <2>3. e.value = data[k].value
      BY <2>1, <2>2 DEF Entry
    <2>4. data' = [data EXCEPT ![k] = e]
      BY <1>2, <2>1 DEF Expire
    <2> QED
      BY <2>2, <2>3, <2>4 DEF CacheHoldsMarkets, Cached, Good, CInv, CacheTypeOK
  <1>3. ASSUME NEW k \in Keys, NEW v \in Values, NEW m \in BOOLEAN, Good(k, v), Set(k, v, m)
        PROVE  CacheHoldsMarkets'
    <2>1. NewEntry(v, m).value = v
      BY DEF NewEntry
    <2>2. ASSUME NEW x \in Keys
          PROVE  \/ x = k /\ data'[x] = NewEntry(v, m)
                 \/ data'[x] = None
                 \/ data'[x] = data[x]
      <3>1. CASE data' = [data EXCEPT ![k] = NewEntry(v, m)]
        BY <3>1 DEF CInv, CacheTypeOK
      <3>2. CASE data' = [y \in Keys |->
              IF y = k THEN NewEntry(v, m) ELSE IF y \in Oldest THEN None ELSE data[y]]
        BY <3>2
      <3> QED
        BY <1>3, <3>1, <3>2 DEF Set
    <2> QED
      BY <1>3, <2>1, <2>2 DEF CacheHoldsMarkets, Cached, Good
  <1>4. CASE CloseCache
    BY <1>4 DEF CloseCache, CacheHoldsMarkets, Cached
  <1>5. CASE UNCHANGED cache
    BY <1>5 DEF cache, CacheHoldsMarkets, Cached, Good
  <1> QED
    BY <1>1, <1>2, <1>3, <1>4, <1>5 DEF GoodStep

(* A call goes on to another step.                                         *)
LEMMA GotoKeeps ==
  ASSUME CallsTypeOK, CallsOK, NEW w \in Workers,
         NEW s \in Steps, NEW c \in Call, Goto(w, s, c), CallOK(s, c)
  PROVE  CallsTypeOK' /\ CallsOK'
  <1>1. CallsTypeOK'
    BY DEF CallsTypeOK, Goto
  <1>2. ASSUME NEW x \in Workers
        PROVE  CallOK(pc'[x], call'[x])
    <2>1. CASE x = w
      BY <2>1 DEF CallsTypeOK, Goto
    <2>2. CASE x # w
      BY <2>2 DEF CallsTypeOK, Goto, CallsOK
    <2> QED
      BY <2>1, <2>2
  <1> QED
    BY <1>1, <1>2 DEF CallsOK

(* Fresh calls, and calls with an answer.                                  *)
LEMMA NewCalls ==
  ASSUME NEW op \in Ops
  PROVE  /\ NewCall(op) \in Call
         /\ \A id \in Ids, code \in Codes, roles \in SUBSET RoleNames :
              /\ [NewCall(op) EXCEPT !.id = id] \in Call
              /\ [NewCall(op) EXCEPT !.code = code] \in Call
              /\ [NewCall(op) EXCEPT !.id = id, !.code = code] \in Call
              /\ [NewCall(op) EXCEPT !.roles = roles] \in Call
  BY DEF NewCall, Call, Ops, Codes

LEMMA ReplyKeeps ==
  ASSUME CallsTypeOK, CallsOK, NEW w \in Workers, NEW code \in Codes,
         NEW shown \in SUBSET (MarketIds \cup {Garbled}), Reply(w, code, shown),
         call[w].op = "get" =>
           IF code = "OK"
             THEN call[w].id \in MarketIds \cap Uuids /\ shown = {call[w].id}
             ELSE shown = {}
  PROVE  CallsTypeOK' /\ CallsOK'
  <1>1. PICK c : c = [call[w] EXCEPT !.code = code, !.shown = shown]
    OBVIOUS
  <1>2. PICK old : old = call[w] /\ old \in Call
    BY DEF CallsTypeOK
  <1>3. c = [old EXCEPT !.code = code, !.shown = shown]
    BY <1>1, <1>2
  <1>4. /\ c \in Call /\ c.op = old.op /\ c.id = old.id
        /\ c.code = code /\ c.shown = shown
    BY <1>2, <1>3 DEF Call
  <1>5. CallOK("reply", c)
    BY <1>2, <1>4 DEF CallOK
  <1>6. Goto(w, "reply", c)
    BY <1>1 DEF Reply
  <1> QED
    BY <1>4, <1>5, <1>6, GotoKeeps DEF Steps

LEMMA FailKeeps ==
  ASSUME CallsTypeOK, CallsOK, NEW w \in Workers, NEW err, err # "none", Fail(w, err)
  PROVE  CallsTypeOK' /\ CallsOK'
  <1>1. Reply(w, "Internal", {})
    BY DEF Fail, GRPCCode
  <1> QED
    BY <1>1, ReplyKeeps DEF Codes

(* Every step keeps the calls right and does to the cache what it may.     *)
LEMMA StepKeeps ==
  ASSUME IInv, Next
  PROVE  CallsTypeOK' /\ CallsOK' /\ GoodStep
  <1> USE DEF IInv
  <1>1. ASSUME NEW w \in Workers, Receive(w)
        PROVE  CallsTypeOK' /\ CallsOK' /\ GoodStep
    <2>1. CASE GetMarket(w)
      <3>1. CASE Goto(w, "reply", [NewCall("get") EXCEPT !.code = "InvalidArgument"])
        <4>1. PICK c : c = [NewCall("get") EXCEPT !.code = "InvalidArgument"]
          OBVIOUS
        <4>2. c \in Call
          BY <4>1 DEF NewCall, Call, Ops, Codes
        <4>3. c.code = "InvalidArgument" /\ c.shown = {}
          BY <4>1 DEF NewCall
        <4>4. CallOK("reply", c)
          BY <4>3 DEF CallOK
        <4> QED
          BY <1>1, <3>1, <4>1, <4>2, <4>4, GotoKeeps DEF Steps, Receive, GoodStep
      <3>2. ASSUME NEW id \in OtherIds,
                   Goto(w, "reply", [NewCall("get") EXCEPT !.id = id, !.code = GRPCCode("uid")])
            PROVE  CallsTypeOK' /\ CallsOK' /\ GoodStep
        <4>1. PICK c : c = [NewCall("get") EXCEPT !.id = id, !.code = "Internal"]
          OBVIOUS
        <4>2. GRPCCode("uid") = "Internal"
          BY DEF GRPCCode
        <4>3. c \in Call
          BY <4>1 DEF NewCall, Call, Ops, Codes, Ids
        <4>4. c.code = "Internal" /\ c.shown = {}
          BY <4>1 DEF NewCall
        <4>5. CallOK("reply", c)
          BY <4>4 DEF CallOK
        <4> QED
          BY <1>1, <3>2, <4>1, <4>2, <4>3, <4>5, GotoKeeps DEF Steps, Receive, GoodStep
      <3>3. ASSUME NEW id \in Uuids, Goto(w, "cacheGet", [NewCall("get") EXCEPT !.id = id])
            PROVE  CallsTypeOK' /\ CallsOK' /\ GoodStep
        <4>1. PICK c : c = [NewCall("get") EXCEPT !.id = id]
          OBVIOUS
        <4>2. c \in Call
          BY <4>1 DEF NewCall, Call, Ops, Codes, Ids
        <4>3. c.op = "get" /\ c.id = id
          BY <4>1 DEF NewCall
        <4>4. CallOK("cacheGet", c)
          BY <4>3 DEF CallOK
        <4> QED
          BY <1>1, <3>3, <4>1, <4>2, <4>4, GotoKeeps DEF Steps, Receive, GoodStep
      <3> QED
        BY <2>1, <3>1, <3>2, <3>3 DEF GetMarket
    <2>2. ASSUME NEW roles \in SUBSET RoleNames,
                 Goto(w, "getAll", [NewCall("view") EXCEPT !.roles = roles])
          PROVE  CallsTypeOK' /\ CallsOK' /\ GoodStep
      <3>1. PICK c : c = [NewCall("view") EXCEPT !.roles = roles]
        OBVIOUS
      <3>2. c \in Call
        BY <3>1 DEF NewCall, Call, Ops, Codes
      <3>3. c.op = "view"
        BY <3>1 DEF NewCall
      <3>4. CallOK("getAll", c)
        BY <3>3 DEF CallOK
      <3> QED
        BY <1>1, <2>2, <3>1, <3>2, <3>4, GotoKeeps DEF Steps, Receive, GoodStep
    <2>3. ASSUME NEW op \in {"health", "ready"}, Goto(w, "ping", NewCall(op))
          PROVE  CallsTypeOK' /\ CallsOK' /\ GoodStep
      <3>1. NewCall(op) \in Call /\ CallOK("ping", NewCall(op))
        BY NewCalls DEF Ops, CallOK, NewCall
      <3> QED
        BY <1>1, <2>3, <3>1, GotoKeeps DEF Steps, Receive, GoodStep
    <2> QED
      BY <1>1, <2>1, <2>2, <2>3 DEF Receive, ViewMarkets, CheckHealth
  <1>2. ASSUME NEW w \in Workers, CacheGet(w)
        PROVE  CallsTypeOK' /\ CallsOK' /\ GoodStep
    <2>1. PICK c : c = call[w] /\ c \in Call /\ c.op = "get" /\ c.id \in Uuids
      BY <1>2 DEF CacheGet, CallsTypeOK, CallsOK, CallOK
    <2>2. c.id \in Keys
      BY <2>1, SpotServiceAssumption
    <2>3. GoodStep
      BY <1>2, <2>1, <2>2 DEF CacheGet, GoodStep
    <2>4. ASSUME NEW s \in {"repo", "cacheDelete"}, Goto(w, s, c)
          PROVE  CallsTypeOK' /\ CallsOK'
      <3>1. CallOK(s, c)
        BY <2>1 DEF CallOK
      <3> QED
        BY <2>1, <2>4, <3>1, GotoKeeps DEF Steps
    <2>5. ASSUME Decoded(Found(c.id)), Reply(w, "OK", {Found(c.id)})
          PROVE  CallsTypeOK' /\ CallsOK'
      <3>1. Found(c.id) = c.id /\ c.id \in MarketIds \cap Uuids
        BY <2>2, <2>5 DEF Decoded, Found, Live, CacheHoldsMarkets, Good
      <3>2. Reply(w, "OK", {c.id})
        BY <2>5, <3>1
      <3> QED
        BY <2>1, <3>1, <3>2, ReplyKeeps DEF Codes
    <2> QED
      BY <1>2, <2>1, <2>3, <2>4, <2>5 DEF CacheGet
  <1>3. ASSUME NEW w \in Workers, CacheDelete(w)
        PROVE  CallsTypeOK' /\ CallsOK' /\ GoodStep
    <2>1. PICK c : c = call[w] /\ c \in Call /\ c.op = "get" /\ c.id \in Uuids
      BY <1>3 DEF CacheDelete, CallsTypeOK, CallsOK, CallOK
    <2>2. GoodStep
      BY <1>3, <2>1, SpotServiceAssumption DEF CacheDelete, GoodStep
    <2>3. CallOK("repo", c)
      BY <2>1 DEF CallOK
    <2> QED
      BY <1>3, <2>1, <2>2, <2>3, GotoKeeps DEF CacheDelete, Steps
  <1>4. ASSUME NEW w \in Workers, Lookup(w)
        PROVE  CallsTypeOK' /\ CallsOK' /\ GoodStep
    <2>1. PICK c : c = call[w] /\ c \in Call /\ c.op = "get" /\ c.id \in Uuids
      BY <1>4 DEF Lookup, CallsTypeOK, CallsOK, CallOK
    <2>2. GoodStep
      BY <1>4 DEF Lookup, GoodStep
    <2>3. CASE c.id \in MarketIds /\ Goto(w, "cacheSet", c)
      <3>1. CallOK("cacheSet", c)
        BY <2>1, <2>3 DEF CallOK
      <3> QED
        BY <2>1, <2>2, <2>3, <3>1, GotoKeeps DEF Steps
    <2>4. ASSUME NEW err \in {"context", "ErrMarketNotFound"}, Fail(w, err)
          PROVE  CallsTypeOK' /\ CallsOK'
      BY <2>4, FailKeeps
    <2> QED
      BY <1>4, <2>1, <2>2, <2>3, <2>4 DEF Lookup
  <1>5. ASSUME NEW w \in Workers, CacheSet(w)
        PROVE  CallsTypeOK' /\ CallsOK' /\ GoodStep
    <2>1. PICK id : id = call[w].id /\ id \in MarketIds \cap Uuids
      BY <1>5 DEF CacheSet, CallsOK, CallOK
    <2>2. id \in Keys /\ id \in Values /\ Good(id, id)
      BY <2>1, SpotServiceAssumption DEF Good
    <2>3. UNCHANGED cache \/ Set(id, id, TRUE)
      BY <1>5, <2>1 DEF CacheSet
    <2>4. GoodStep
      BY <2>2, <2>3 DEF GoodStep
    <2>5. Reply(w, "OK", {id})
      BY <1>5, <2>1 DEF CacheSet
    <2> QED
      BY <2>1, <2>4, <2>5, ReplyKeeps DEF Codes
  <1>6. ASSUME NEW w \in Workers, GetAll(w)
        PROVE  CallsTypeOK' /\ CallsOK' /\ GoodStep
    <2>1. call[w].op = "view"
      BY <1>6 DEF GetAll, CallsOK, CallOK
    <2>2. GoodStep
      BY <1>6 DEF GetAll, GoodStep
    <2>3. CASE Fail(w, "context")
      BY <2>2, <2>3, FailKeeps
    <2>4. PICK roles : roles = call[w].roles
      OBVIOUS
    <2>5. CASE Reply(w, "OK", {id \in MarketIds : Visible(id, roles)})
      BY <2>1, <2>2, <2>5, ReplyKeeps DEF Codes
    <2> QED
      BY <1>6, <2>3, <2>4, <2>5 DEF GetAll
  <1>7. ASSUME NEW w \in Workers, PingCache(w)
        PROVE  CallsTypeOK' /\ CallsOK' /\ GoodStep
    <2>1. call[w].op \in {"health", "ready"}
      BY <1>7 DEF PingCache, CallsOK, CallOK
    <2>2. GoodStep
      BY <1>7, SpotServiceAssumption DEF PingCache, GoodStep
    <2>3. PICK code \in Codes : Reply(w, code, {})
      BY <1>7 DEF PingCache, Codes
    <2> QED
      BY <2>1, <2>2, <2>3, ReplyKeeps
  <1>8. ASSUME NEW w \in Workers, Respond(w)
        PROVE  CallsTypeOK' /\ CallsOK' /\ GoodStep
    <2>1. NewCall("get") \in Call /\ CallOK("idle", NewCall("get"))
      BY NewCalls DEF Ops, CallOK
    <2> QED
      BY <1>8, <2>1, GotoKeeps DEF Respond, Steps, GoodStep
  <1>9. ASSUME NEW w \in Workers, Cancel(w)
        PROVE  CallsTypeOK' /\ CallsOK' /\ GoodStep
    BY <1>9 DEF Cancel, CallsTypeOK, CallsOK, GoodStep
  <1>10. ASSUME Elsewhere
         PROVE  CallsTypeOK' /\ CallsOK' /\ GoodStep
    <2>1. CallsTypeOK' /\ CallsOK'
      BY <1>10 DEF Elsewhere, calls, CallsTypeOK, CallsOK
    <2>2. ASSUME NEW k \in Uuids, NEW m \in BOOLEAN, Set(k, Garbled, m)
          PROVE  GoodStep
      <3>1. k \in Keys /\ Garbled \in Values
        BY SpotServiceAssumption
      <3>2. Good(k, Garbled)
        BY DEF Good
      <3> QED
        BY <2>2, <3>1, <3>2 DEF GoodStep
    <2>3. ASSUME NEW k \in MarketIds \cap Uuids, Set(k, k, TRUE)
          PROVE  GoodStep
      <3>1. k \in Keys /\ k \in Values /\ Good(k, k)
        BY SpotServiceAssumption DEF Good
      <3> QED
        BY <2>3, <3>1 DEF GoodStep
    <2>4. CASE CloseCache \/ \E k \in Keys : Delete(k)
      BY <2>1, <2>4 DEF GoodStep
    <2> QED
      BY <1>10, <2>1, <2>2, <2>3, <2>4 DEF Elsewhere
  <1>11. ASSUME Time
         PROVE  CallsTypeOK' /\ CallsOK' /\ GoodStep
    <2>1. PICK k \in Keys : Expire(k) /\ UNCHANGED calls
      BY <1>11 DEF Time
    <2>2. GoodStep
      BY <2>1 DEF GoodStep
    <2>3. CallsTypeOK' /\ CallsOK'
      BY <2>1 DEF calls, CallsTypeOK, CallsOK
    <2> QED
      BY <2>2, <2>3
  <1> QED
    BY <1>1, <1>2, <1>3, <1>4, <1>5, <1>6, <1>7, <1>8, <1>9, <1>10, <1>11 DEF Next, Handle

-----------------------------------------------------------------------------
(* The theorems.                                                           *)

LEMMA GoodStepIsCacheStep ==
  ASSUME GoodStep
  PROVE  CacheStep \/ UNCHANGED cache
  BY DEF GoodStep, CacheStep

LEMMA InitIInv == Init => IInv
  <1> SUFFICES ASSUME Init PROVE IInv
    OBVIOUS
  <1>1. CallsTypeOK
    BY NewCalls DEF Init, CallsTypeOK, Steps, Ops
  <1>2. CallsOK
    BY DEF Init, CallsOK, CallOK
  <1>3. CacheTypeOK /\ CachedKeys = {} /\ ll = <<>>
    BY DEF Init, NewLRUCache, CacheTypeOK, CachedKeys, Cached
  <1>4. CInv
    BY <1>3, LRUCacheAssumption DEF CInv, Lists, Capacity
  <1>5. CacheHoldsMarkets
    BY <1>3 DEF CacheHoldsMarkets, CachedKeys
  <1> QED
    BY <1>1, <1>2, <1>4, <1>5 DEF IInv

LEMMA NextIInv == IInv /\ [Next]_vars => IInv'
  <1>1. ASSUME IInv, Next
        PROVE  IInv'
    <2>1. CallsTypeOK' /\ CallsOK' /\ GoodStep
      BY <1>1, StepKeeps
    <2>2. CInv' /\ CacheHoldsMarkets'
      BY <1>1, <2>1, GoodStepIsCacheStep, CacheStepKeeps, GoodStepKeeps DEF IInv
    <2> QED
      BY <2>1, <2>2 DEF IInv
  <1>2. ASSUME IInv, UNCHANGED vars
        PROVE  IInv'
    BY <1>2 DEF IInv, vars, CallsTypeOK, CallsOK, CallOK, CInv, CacheTypeOK, Lists,
                CachedKeys, Cached, Capacity, CacheHoldsMarkets, Good
  <1> QED
    BY <1>1, <1>2

THEOREM Invariant == Spec => []IInv
  BY InitIInv, NextIInv, PTL DEF Spec

(* The types hold in every reachable state.                                *)
THEOREM TypeCorrect == Spec => []TypeOK
  <1>1. IInv => TypeOK
    BY DEF IInv, CallsTypeOK, CInv, TypeOK
  <1> QED
    BY <1>1, Invariant, PTL

(* The cache's map and its list agree, and hold no more than fits, after   *)
(* any sequence of its methods.                                            *)
THEOREM MapAndListAgree == Spec => []MapMatchesList
  <1>1. IInv => MapMatchesList
    BY DEF IInv, CInv, Lists, CachedKeys, MapMatchesList
  <1> QED
    BY <1>1, Invariant, PTL

(* No answer of GetMarket shows another market than the one asked for, or  *)
(* one the repository does not have.                                       *)
THEOREM AnswersCorrect == Spec => []AnswersMatchRepo
  <1>1. IInv => AnswersMatchRepo
    BY DEF IInv, CallsOK, CallOK, AnswersMatchRepo
  <1> QED
    BY <1>1, Invariant, PTL

(* LRUCache, as the service uses it, implements ports.Cache.               *)
THEOREM CacheImplemented == Spec => ImplementsCache
  <1>1. Init => Content = [k \in Keys |-> None]
    BY DEF Init, NewLRUCache, Content, Found, Live, Cached
  <1>2. IInv /\ IInv' /\ [Next]_vars => [Promise!Next]_Content
    <2>1. ASSUME IInv, IInv', Next
          PROVE  [Promise!Next]_Content
      BY <2>1, StepKeeps, GoodStepIsCacheStep, CacheStepPromised DEF IInv
    <2>2. ASSUME IInv, IInv', UNCHANGED vars
          PROVE  [Promise!Next]_Content
      BY <2>2, CacheStepPromised DEF IInv, vars, cache
    <2> QED
      BY <2>1, <2>2
  <1> QED
    BY <1>1, <1>2, Invariant, PTL DEF Spec, ImplementsCache, Promise!Spec, Promise!Init, Content

=============================================================================
