---------------------------- MODULE SpotService ----------------------------
(***************************************************************************)
(* The spot service: the gRPC handler, SpotService, the repository of      *)
(* markets, the health endpoints, and the cache they share (LRUCache).     *)
(*                                                                         *)
(* A call runs in a goroutine of its own.  GetMarketByID reads the cache,  *)
(* then the repository, then fills the cache: three methods, and one       *)
(* action each, before which another call may run.  The repository is      *)
(* seeded once and never written, so it is a constant: a function from ids *)
(* to markets.                                                             *)
(*                                                                         *)
(* The cache is an object behind an interface, given to whoever asks for   *)
(* it, and the same code runs over one in Redis that outlives the process: *)
(* others may write into it, also what this version cannot decode, delete  *)
(* and close it.                                                           *)
(***************************************************************************)
EXTENDS LRUCache

CONSTANTS
  Workers,  \* calls that can be in progress at the same time
  Uuids,    \* the ids that parse as a uuid; others do not
  OtherIds,
  Market,   \* Market[id]: the repository's market of that id, a record
  RoleNames \* the roles a request can name, by the names UserRole.String gives

Ids == Uuids \cup OtherIds

MarketIds == DOMAIN Market

Garbled == "garbled" \* bytes that are no market's JSON

Ping == "health:ping"

ASSUME SpotServiceAssumption ==
  /\ MarketIds \subseteq Ids
  /\ Keys = Uuids \cup {Ping}
  /\ Values = MarketIds \cup {Garbled}
  /\ \A id \in MarketIds :
       Market[id].enabled \in BOOLEAN /\ Market[id].deleted \in BOOLEAN

VARIABLES
  pc,   \* the next step of each call
  call, \* what each call was asked, and its answer
  done  \* the calls in progress whose context is cancelled or too late

calls == <<pc, call, done>>
vars == <<data, ll, pc, call, done>>

-----------------------------------------------------------------------------
Ops == {"get", "view", "health", "ready"}

Steps == {"idle", "cacheGet", "cacheDelete", "repo", "cacheSet", "getAll", "ping", "reply"}

Codes == {"OK", "InvalidArgument", "Internal", "degraded", "unavailable"}

(* A call: the id GetMarket asks for, the roles ViewMarkets names, and the *)
(* markets in the answer.                                                  *)
Call == [op : Ops, id : Ids \cup {None}, roles : SUBSET RoleNames,
         shown : SUBSET (MarketIds \cup {Garbled}), code : Codes]

NewCall(op) == [op |-> op, id |-> None, roles |-> {}, shown |-> {}, code |-> "OK"]

TypeOK ==
  /\ CacheTypeOK
  /\ pc \in [Workers -> Steps]
  /\ call \in [Workers -> Call]
  /\ done \in SUBSET Workers

Goto(w, s, c) ==
  /\ pc' = [pc EXCEPT ![w] = s]
  /\ call' = [call EXCEPT ![w] = c]
  /\ done' = IF s = "reply" THEN done \ {w} ELSE done

Reply(w, code, shown) ==
  Goto(w, "reply", [call[w] EXCEPT !.code = code, !.shown = shown])

(* A mutant: the error itself is returned.                                 *)
RawError(err) == IF err = "none" THEN "OK" ELSE err

(* What the handler makes of an error.  It knows the service's errors, and *)
(* none that GetMarketByID or ViewMarkets returns is one of them: the      *)
(* repository has an ErrMarketNotFound of its own, uid.Validate and the    *)
(* context return others.                                                  *)
GRPCCode(err) == IF err = "none" THEN "OK" ELSE "Internal"

Fail(w, err) == Reply(w, GRPCCode(err), {})

-----------------------------------------------------------------------------
(* GetMarket and the check of the id in GetMarketByID.                     *)
GetMarket(w) ==
  /\ pc[w] = "idle"
  /\ \/ Goto(w, "reply", [NewCall("get") EXCEPT !.code = "InvalidArgument"])
     \/ \E id \in OtherIds :
          Goto(w, "reply", [NewCall("get") EXCEPT !.id = id, !.code = GRPCCode("uid")])
     \/ \E id \in Uuids : Goto(w, "cacheGet", [NewCall("get") EXCEPT !.id = id])

ViewMarkets(w) ==
  /\ pc[w] = "idle"
  /\ \E roles \in SUBSET RoleNames :
       Goto(w, "getAll", [NewCall("view") EXCEPT !.roles = roles])

(* The health server's two handlers.                                       *)
CheckHealth(w) ==
  /\ pc[w] = "idle"
  /\ \E op \in {"health", "ready"} : Goto(w, "ping", NewCall(op))

Receive(w) ==
  /\ GetMarket(w) \/ ViewMarkets(w) \/ CheckHealth(w)
  /\ UNCHANGED cache

(* A mutant: bytes that cannot be decoded are answered as they are.        *)
Decodes(bytes) == bytes # None
Decoded(bytes) == bytes \notin {None, Garbled}

(* GetMarketByID asks the cache.  The cache's error, which is the          *)
(* context's, sends it to the repository as a miss does.                   *)
CacheGet(w) ==
  /\ pc[w] = "cacheGet"
  /\ LET id == call[w].id IN
     \/ /\ w \in done
        /\ Goto(w, "repo", call[w])
        /\ UNCHANGED cache
     \/ /\ w \notin done
        /\ Get(id)
        /\ \/ Decoded(Found(id)) /\ Reply(w, "OK", {Found(id)})
           \/ Found(id) # None /\ ~Decoded(Found(id)) /\ Goto(w, "cacheDelete", call[w])
           \/ Found(id) = None /\ Goto(w, "repo", call[w])

CacheDelete(w) ==
  /\ pc[w] = "cacheDelete"
  /\ Goto(w, "repo", call[w])
  /\ IF w \in done THEN UNCHANGED cache ELSE Delete(call[w].id)

(* A mutant: what could not be found is remembered as well.                *)
LookupRemembers(w) ==
  /\ pc[w] = "repo"
  /\ \/ w \in done /\ Fail(w, "context")
     \/ w \notin done /\ Goto(w, "cacheSet", call[w])
  /\ UNCHANGED cache

(* The repository's GetByID.                                               *)
Lookup(w) ==
  /\ pc[w] = "repo"
  /\ LET id == call[w].id IN
     \/ w \in done /\ Fail(w, "context")
     \/ w \notin done /\ id \notin MarketIds /\ Fail(w, "ErrMarketNotFound")
     \/ w \notin done /\ id \in MarketIds /\ Goto(w, "cacheSet", call[w])
  /\ UNCHANGED cache

(* The market goes into the cache for 300 seconds, and to the caller       *)
(* whether or not the cache took it.                                       *)
CacheSet(w) ==
  /\ pc[w] = "cacheSet"
  /\ Reply(w, "OK", {call[w].id})
  /\ IF w \in done THEN UNCHANGED cache ELSE Set(call[w].id, call[w].id, TRUE)

(* The filter of ViewMarkets.  A list of roles that is empty, on either    *)
(* side, lets everybody see the market.                                    *)
Visible(id, roles) ==
  /\ Market[id].enabled /\ ~Market[id].deleted
  /\ \/ roles = {}
     \/ Market[id].roles = {}
     \/ roles \cap Market[id].roles # {}

GetAll(w) ==
  /\ pc[w] = "getAll"
  /\ \/ w \in done /\ Fail(w, "context")
     \/ w \notin done /\ Reply(w, "OK", {id \in MarketIds : Visible(id, call[w].roles)})
  /\ UNCHANGED cache

(* Both endpoints read a key nobody writes; only readiness answers with an *)
(* error when the cache does.                                              *)
PingCache(w) ==
  /\ pc[w] = "ping"
  /\ \/ /\ w \in done
        /\ Reply(w, IF call[w].op = "health" THEN "degraded" ELSE "unavailable", {})
        /\ UNCHANGED cache
     \/ w \notin done /\ Get(Ping) /\ Reply(w, "OK", {})

-----------------------------------------------------------------------------
Cancel(w) ==
  /\ pc[w] \notin {"idle", "reply"}
  /\ w \notin done
  /\ done' = done \cup {w}
  /\ UNCHANGED <<cache, pc, call>>

Respond(w) ==
  /\ pc[w] = "reply"
  /\ Goto(w, "idle", NewCall("get"))
  /\ UNCHANGED cache

(* The environment: others who hold the cache behind the same interface.   *)
(* They drop keys and close it, and what they write under a market's id is *)
(* that market, as this program encodes it, or bytes it cannot decode.     *)
(* Bytes that decode to something else, such as null or {}, are nobody's.  *)
Elsewhere ==
  /\ \/ \E k \in Uuids, m \in BOOLEAN : Set(k, Garbled, m)
     \/ \E k \in MarketIds \cap Uuids : Set(k, k, TRUE)
     \/ \E k \in Keys : Delete(k)
     \/ CloseCache
  /\ UNCHANGED calls

Time == \E k \in Keys : Expire(k) /\ UNCHANGED calls

Init ==
  /\ NewLRUCache
  /\ pc = [w \in Workers |-> "idle"]
  /\ call = [w \in Workers |-> NewCall("get")]
  /\ done = {}

Handle(w) ==
  \/ CacheGet(w) \/ CacheDelete(w) \/ Lookup(w) \/ CacheSet(w)
  \/ GetAll(w) \/ PingCache(w) \/ Respond(w)

Next ==
  \/ \E w \in Workers : Receive(w) \/ Handle(w) \/ Cancel(w)
  \/ Elsewhere \/ Time

Spec == Init /\ [][Next]_vars

-----------------------------------------------------------------------------
(* Whatever the cache drops, forgets or cannot decode, and wherever a call *)
(* is cancelled, an answer shows the repository's market of the id that    *)
(* was asked for, and no answer shows a market the repository does not     *)
(* have: the cache is never what decides.                                  *)
AnswersMatchRepo ==
  \A w \in Workers :
    LET c == call[w] IN
    pc[w] = "reply" /\ c.op = "get" =>
      IF c.code = "OK"
        THEN c.id \in MarketIds \cap Uuids /\ c.shown = {c.id}
        ELSE c.shown = {}
=============================================================================
