------------------------------- MODULE Cache -------------------------------
(***************************************************************************)
(* What ports.Cache promises those who use it, without its mechanism.  A   *)
(* cache holds at most Capacity values.  It takes every value it is given, *)
(* and may forget another one for it; it may forget a value at any time,   *)
(* and all of them when it is closed; and it makes nothing up.             *)
(***************************************************************************)
EXTENDS Naturals

CONSTANTS
  Keys,
  Values,
  Capacity,
  None     \* what an absent key holds

VARIABLE content \* what a Get of each key would find

CacheTypeOK == content \in [Keys -> Values \cup {None}]

(* A content that fits in Capacity places.                                 *)
Fits(c) ==
  \E place \in [1 .. Capacity -> Keys] :
    \A k \in Keys : c[k] # None => \E i \in 1 .. Capacity : place[i] = k

(* The key lost is k itself when nothing else is forgotten.                *)
Put(k, v) ==
  /\ \E lost \in Keys :
       content' = [x \in Keys |->
         IF x = k THEN v ELSE IF x = lost THEN None ELSE content[x]]
  /\ Fits(content')

Forget(k) == content' = [content EXCEPT ![k] = None]

Close == content' = [k \in Keys |-> None]

Init == content = [k \in Keys |-> None]

Next ==
  \/ \E k \in Keys : Forget(k) \/ \E v \in Values : Put(k, v)
  \/ Close

Spec == Init /\ [][Next]_content
=============================================================================
