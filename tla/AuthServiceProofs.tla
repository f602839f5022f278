------------------------- MODULE AuthServiceProofs -------------------------
(***************************************************************************)
(* Theorems about AuthService, for all sets of calls, emails, users and    *)
(* tokens: an email belongs to one user, answers agree with the stores,    *)
(* and a token that was refreshed or logged out is finished.               *)
(*                                                                         *)
(* The stores only grow (Grows): a user keeps its email, a token its user, *)
(* and what is revoked stays revoked.  So what a call has learned remains  *)
(* true while other calls run, and every step is about one call only.      *)
(***************************************************************************)
EXTENDS AuthService, TLAPS

(* What an answer to Register says of the users.                           *)
Registered(c, code) ==
  /\ code = "OK" => c.id # None
  /\ c.id # None => c.id \in StoredUsers /\ users[c.id].email = c.email
  /\ code \in {"InvalidArgument", "AlreadyExists"} => c.id = None
  /\ code = "AlreadyExists" => \E u \in StoredUsers : users[u].email = c.email

(* Register: nobody is created before Create, and then its user is there.  *)
RegisterFits(p, c) ==
  /\ p \in {"byEmail", "create"} => c.id = None
  /\ p = "store" => c.id \in StoredUsers /\ users[c.id].email = c.email
  /\ p = "reply" => Registered(c, c.code)

(* Login and RefreshToken: OK means that a token is stored.                *)
LoginFits(p, c) ==
  p = "reply" /\ c.code = "OK" =>
    c.newToken \in StoredTokens /\ tokens[c.newToken].user = c.id

(* RefreshToken: from GetToken on it knows the owner of its token, and it  *)
(* gets past Revoke with the token revoked or its context done.            *)
RefreshFits(p, c, isDone) ==
  /\ c.dead => p \in {"token", "reply"} /\ c.token \in loggedOut
  /\ p \in {"byID", "revoke", "store"} =>
       c.token \in StoredTokens /\ tokens[c.token].user = c.id
  /\ p = "store" => isDone \/ tokens[c.token].revoked
  /\ p = "reply" /\ c.code = "OK" =>
       /\ ~c.dead
       /\ c.token \in StoredTokens /\ tokens[c.token].revoked
       /\ tokens[c.newToken].user = tokens[c.token].user
       /\ c.newToken # c.token

(* What a call at step p has to know, and which calls get there.           *)
Knows(p, c) ==
  /\ p = "byEmail" => c.op \in {"register", "login"} /\ c.email \in Emails
  /\ p = "create" => c.op = "register" /\ c.email \in Emails
  /\ p = "store" => c.op \in {"register", "login", "refresh"} /\ c.id \in UserIds
  /\ p = "token" => c.op = "refresh" /\ c.token \in Tokens
  /\ p = "byID" => c.op \in {"refresh", "getUser", "updateRole"} /\ c.id \in UserIds
  /\ p = "revoke" => c.op \in {"refresh", "logout"} /\ c.token \in Tokens
  /\ p = "revokeAll" => c.op = "logoutAll" /\ c.id \in UserIds
  /\ p = "update" =>
       c.op = "updateRole" /\ c.id \in StoredUsers /\ users[c.id].email = c.email
  /\ p # "reply" \/ c.code # "OK" => c.newToken = None

Fits(p, c, isDone) ==
  /\ Knows(p, c)
  /\ c.op = "register" => RegisterFits(p, c)
  /\ c.op \in {"login", "refresh"} => LoginFits(p, c)
  /\ c.op = "refresh" => RefreshFits(p, c, isDone)

CallsFit == \A w \in Workers : Fits(pc[w], call[w], w \in done)

(* The index finds every token of a user, and a token that was logged out  *)
(* is there and revoked.                                                   *)
TokensIndexed == \A t \in StoredTokens : t \in userTokens[tokens[t].user]
LoggedOutRevoked == \A t \in loggedOut : t \in StoredTokens /\ tokens[t].revoked

IInv == TypeOK /\ EmailsIdentifyUsers /\ TokensIndexed /\ LoggedOutRevoked /\ CallsFit

(* What every step does to the stores.                                     *)
Grows ==
  /\ \A u \in StoredUsers : u \in StoredUsers' /\ users'[u].email = users[u].email
  /\ \A t \in StoredTokens :
       /\ t \in StoredTokens' /\ tokens'[t].user = tokens[t].user
       /\ tokens[t].revoked => tokens'[t].revoked
  /\ loggedOut \subseteq loggedOut'

-----------------------------------------------------------------------------
(* The codes of the errors.                                                *)
LEMMA CodeOf ==
  /\ \A err : GRPCCode(err) \in Codes
  /\ GRPCCode("none") = "OK"
  /\ \A err \in {"ErrInvalidEmail", "ErrInvalidPassword", "ErrUserNotFound", "ErrUserAlreadyExists",
                 "ErrInvalidCredentials", "ErrTokenInvalid", "context", "hash", "sign"} :
       GRPCCode(err) # "OK"
  /\ GRPCCode("ErrUserAlreadyExists") = "AlreadyExists"
  /\ \A err \in {"context", "hash", "sign"} : GRPCCode(err) = "Internal"
  BY DEF GRPCCode, Codes

(* A call that begins.                                                     *)
LEMMA NewCallType ==
  ASSUME NEW op \in Ops
  PROVE  /\ NewCall(op) \in Call
         /\ NewCall(op).op = op /\ NewCall(op).id = None /\ NewCall(op).token = None
         /\ NewCall(op).newToken = None /\ NewCall(op).dead = FALSE
  BY DEF NewCall, Call, Roles, Codes

(* What a call knows stays true while other calls run.                     *)
LEMMA OthersFit ==
  ASSUME IInv, Grows, NEW w \in Workers, w \in done => w \in done',
         pc'[w] = pc[w], call'[w] = call[w]
  PROVE  Fits(pc[w], call[w], w \in done)'
  <1> DEFINE c == call[w]
             p == pc[w]
  <1>1. c \in Call /\ p \in Steps
    BY DEF IInv, TypeOK
  <1>2. Fits(p, c, w \in done)
    BY DEF IInv, CallsFit
  <1>3. Knows(pc[w], call[w])'
    BY <1>2 DEF Fits, Knows, Grows
  <1>4. ASSUME c.op = "register" PROVE RegisterFits(pc[w], call[w])'
    BY <1>2, <1>4 DEF Fits, RegisterFits, Registered, Grows
  <1>5. ASSUME c.op \in {"login", "refresh"} PROVE LoginFits(pc[w], call[w])'
    BY <1>2, <1>5 DEF Fits, LoginFits, Grows
  <1>6. ASSUME c.op = "refresh" PROVE RefreshFits(pc[w], call[w], w \in done)'
    <2>1. RefreshFits(p, c, w \in done) /\ LoginFits(p, c)
      BY <1>2, <1>6 DEF Fits
    <2> QED
      BY <2>1 DEF RefreshFits, LoginFits, Grows
  <1> QED
    BY <1>3, <1>4, <1>5, <1>6 DEF Fits

StoresTypeOK ==
  /\ users \in [UserIds -> User \cup {None}]
  /\ emailIndex \in [Emails -> UserIds \cup {None}]
  /\ tokens \in [Tokens -> RefreshToken \cup {None}]
  /\ userTokens \in [UserIds -> SUBSET Tokens]
  /\ loggedOut \in SUBSET Tokens

(* A step of one call, to step s with what c says.                         *)
LEMMA StepKeeps ==
  ASSUME IInv, Grows, NEW w \in Workers, NEW s \in Steps, NEW c \in Call, Goto(w, s, c),
         Fits(s, c, w \in done)',
         StoresTypeOK', EmailsIdentifyUsers', TokensIndexed', LoggedOutRevoked'
  PROVE  IInv'
  <1>1. /\ pc' = [pc EXCEPT ![w] = s] /\ call' = [call EXCEPT ![w] = c]
        /\ done' \subseteq done /\ done \subseteq done' \cup {w}
    BY DEF Goto
  <1>2. pc \in [Workers -> Steps] /\ call \in [Workers -> Call] /\ done \subseteq Workers
    BY DEF IInv, TypeOK
  <1>3. TypeOK'
    BY <1>1, <1>2 DEF TypeOK, StoresTypeOK
  <1>4. ASSUME NEW v \in Workers PROVE Fits(pc[v], call[v], v \in done)'
    <2>1. CASE v = w
      BY <1>1, <1>2, <2>1
    <2>2. CASE v # w
      BY <1>1, <1>2, <2>2, OthersFit
    <2> QED
      BY <2>1, <2>2
  <1> QED
    BY <1>3, <1>4 DEF IInv, CallsFit

(* The same, when the stores stay as they are.                             *)
LEMMA QuietStepKeeps ==
  ASSUME IInv, UNCHANGED <<stores, loggedOut>>,
         NEW w \in Workers, NEW s \in Steps, NEW c \in Call, Goto(w, s, c),
         Fits(s, c, w \in done')
  PROVE  IInv'
  <1> USE DEF stores
  <1>1. StoredUsers' = StoredUsers /\ StoredTokens' = StoredTokens
    BY DEF StoredUsers, StoredTokens
  <1>2. Grows
    BY <1>1 DEF Grows
  <1>3. Fits(s, c, w \in done)'
    BY <1>1 DEF Fits, Knows, RegisterFits, Registered, LoginFits, RefreshFits
  <1>4. StoresTypeOK' /\ EmailsIdentifyUsers' /\ TokensIndexed' /\ LoggedOutRevoked'
    BY <1>1 DEF IInv, TypeOK, StoresTypeOK, EmailsIdentifyUsers, TokensIndexed, LoggedOutRevoked
  <1> QED
    BY <1>2, <1>3, <1>4, StepKeeps
-----------------------------------------------------------------------------
(* A call that begins knows nothing yet.                                   *)
LEMMA ReceiveKeeps ==
  ASSUME IInv, NEW w \in Workers, Receive(w)
  PROVE  IInv'
  <1> USE DEF Knows, RegisterFits, Registered, LoginFits, RefreshFits
  <1>1. UNCHANGED <<stores, loggedOut>>
    BY DEF Receive
  <1>2. CASE Register(w)
    <2>1. ASSUME NEW err \in {"ErrInvalidEmail", "ErrInvalidPassword"},
                 Finish(w, NewCall("register"), err)
          PROVE  IInv'
      <3> DEFINE c == [NewCall("register") EXCEPT !.code = GRPCCode(err)]
      <3>1. /\ c \in Call /\ c.op = "register" /\ c.id = None /\ c.newToken = None
            /\ c.code = "InvalidArgument"
        BY DEF NewCall, Call, Ops, Roles, Codes, GRPCCode
      <3>2. Goto(w, "reply", c)
        BY <2>1 DEF Finish
      <3>3. Fits("reply", c, w \in done')
        BY <3>1 DEF Fits
      <3> QED
        BY <1>1, <3>1, <3>2, <3>3, QuietStepKeeps DEF Steps
    <2>2. ASSUME NEW e \in Emails, Goto(w, "byEmail", [NewCall("register") EXCEPT !.email = e])
          PROVE  IInv'
      <3> DEFINE c == [NewCall("register") EXCEPT !.email = e]
      <3>1. /\ c \in Call /\ c.op = "register" /\ c.id = None /\ c.email = e
            /\ c.newToken = None /\ ~c.dead
        BY DEF NewCall, Call, Ops, Roles, Codes
      <3>2. Fits("byEmail", c, w \in done')
        BY <3>1 DEF Fits
      <3> QED
        BY <1>1, <2>2, <3>1, <3>2, QuietStepKeeps DEF Steps
    <2> QED
      BY <1>2, <2>1, <2>2 DEF Register
  <1>3. ASSUME NEW e \in Emails, Goto(w, "byEmail", [NewCall("login") EXCEPT !.email = e])
        PROVE  IInv'
    <2> DEFINE c == [NewCall("login") EXCEPT !.email = e]
    <2>1. c \in Call /\ c.op = "login" /\ c.id = None /\ c.email = e /\ c.newToken = None
      BY DEF NewCall, Call, Ops, Roles, Codes
    <2>2. Fits("byEmail", c, w \in done')
      BY <2>1 DEF Fits
    <2> QED
      BY <1>1, <1>3, <2>1, <2>2, QuietStepKeeps DEF Steps
  <1>4. ASSUME NEW op \in {"refresh", "logout"}, NEW s \in {"token", "revoke"},
               op = "refresh" <=> s = "token", Presents(w, op, s)
        PROVE  IInv'
    <2>1. CASE Goto(w, "reply", [NewCall(op) EXCEPT !.code = "Unauthenticated"])
      <3> DEFINE c == [NewCall(op) EXCEPT !.code = "Unauthenticated"]
      <3>1. /\ c \in Call /\ c.op = op /\ c.newToken = None /\ ~c.dead
            /\ c.code = "Unauthenticated"
        BY DEF NewCall, Call, Ops, Roles, Codes
      <3>2. Fits("reply", c, w \in done')
        BY <3>1 DEF Fits
      <3> QED
        BY <1>1, <2>1, <3>1, <3>2, QuietStepKeeps DEF Steps
    <2>2. ASSUME NEW t \in Tokens,
                 Goto(w, s, [NewCall(op) EXCEPT !.token = t, !.dead = t \in loggedOut])
          PROVE  IInv'
      <3>4. \E d \in BOOLEAN : d = (t \in loggedOut)
        <4>1. CASE t \in loggedOut
          <5>1. TRUE = (t \in loggedOut)
            BY <4>1
          <5> QED
            BY <5>1
        <4>2. CASE t \notin loggedOut
          <5>1. FALSE = (t \in loggedOut)
            BY <4>2
          <5> QED
            BY <5>1
        <4> QED
          BY <4>1, <4>2
      <3> PICK d \in BOOLEAN : d = (t \in loggedOut)
        BY <3>4
      <3> DEFINE c == [NewCall(op) EXCEPT !.token = t, !.dead = d]
      <3>0. Goto(w, s, c)
        BY <2>2
      <3>1. /\ c \in Call /\ c.op = op /\ c.newToken = None /\ c.token = t
            /\ c.dead = d
        BY DEF NewCall, Call, Ops, Roles, Codes
      <3>2. loggedOut' = loggedOut
        BY <1>1
      <3>3. Fits(s, c, w \in done')
        BY <1>4, <3>1 DEF Fits
      <3> QED
        BY <1>1, <3>0, <3>1, <3>3, QuietStepKeeps DEF Steps
    <2> QED
      BY <1>4, <2>1, <2>2 DEF Presents
  <1>5. ASSUME NEW u \in UserIds, NEW op \in {"logoutAll", "getUser"}, NEW s \in {"revokeAll", "byID"},
               op = "logoutAll" <=> s = "revokeAll", Goto(w, s, [NewCall(op) EXCEPT !.id = u])
        PROVE  IInv'
    <2> DEFINE c == [NewCall(op) EXCEPT !.id = u]
    <2>1. c \in Call /\ c.op = op /\ c.newToken = None /\ c.id = u
      BY DEF NewCall, Call, Ops, Roles, Codes
    <2>2. Fits(s, c, w \in done')
      BY <1>5, <2>1 DEF Fits
    <2> QED
      BY <1>1, <1>5, <2>1, <2>2, QuietStepKeeps DEF Steps
  <1>6. CASE UpdateRole(w)
    <2>1. ASSUME NEW code \in {"Unauthenticated", "PermissionDenied"},
                 Goto(w, "reply", [NewCall("updateRole") EXCEPT !.code = code])
          PROVE  IInv'
      <3> DEFINE c == [NewCall("updateRole") EXCEPT !.code = code]
      <3>1. c \in Call /\ c.op = "updateRole" /\ c.newToken = None
        BY DEF NewCall, Call, Ops, Roles, Codes
      <3>2. Fits("reply", c, w \in done')
        BY <3>1 DEF Fits
      <3> QED
        BY <1>1, <2>1, <3>1, <3>2, QuietStepKeeps DEF Steps
    <2>2. ASSUME NEW u \in UserIds, NEW r \in NewRoles,
                 Goto(w, "byID", [NewCall("updateRole") EXCEPT !.id = u, !.role = r])
          PROVE  IInv'
      <3> DEFINE c == [NewCall("updateRole") EXCEPT !.id = u, !.role = r]
      <3>1. c \in Call /\ c.op = "updateRole" /\ c.newToken = None /\ c.id = u
        BY AuthServiceAssumption DEF NewCall, Call, Ops, Roles, Codes
      <3>2. Fits("byID", c, w \in done')
        BY <3>1 DEF Fits
      <3> QED
        BY <1>1, <2>2, <3>1, <3>2, QuietStepKeeps DEF Steps
    <2> QED
      BY <1>6, <2>1, <2>2 DEF UpdateRole
  <1>7. CASE Login(w)
    BY <1>3, <1>7 DEF Login
  <1>8. CASE RefreshTokenCall(w)
    BY <1>4, <1>8 DEF RefreshTokenCall
  <1>9. CASE Logout(w)
    BY <1>4, <1>9 DEF Logout
  <1>10. CASE LogoutAll(w)
    BY <1>5, <1>10 DEF LogoutAll
  <1>11. CASE GetUser(w)
    BY <1>5, <1>11 DEF GetUser
  <1> QED
    BY <1>2, <1>6, <1>7, <1>8, <1>9, <1>10, <1>11 DEF Receive
-----------------------------------------------------------------------------
(* A call that ends with an error, before it has stored a token.           *)
LEMMA FailKeeps ==
  ASSUME IInv, NEW w \in Workers, UNCHANGED <<stores, loggedOut>>,
         NEW err, GRPCCode(err) # "OK", Finish(w, call[w], err),
         pc[w] # "reply", call[w].op = "register" => Registered(call[w], GRPCCode(err))
  PROVE  IInv'
  <1> DEFINE c == [call[w] EXCEPT !.code = GRPCCode(err)]
  <1>1. call[w] \in Call /\ Fits(pc[w], call[w], w \in done)
    BY DEF IInv, TypeOK, CallsFit
  <1>2. /\ c \in Call /\ c.op = call[w].op /\ c.id = call[w].id /\ c.token = call[w].token
        /\ c.newToken = call[w].newToken /\ c.dead = call[w].dead /\ c.code # "OK"
        /\ c.email = call[w].email /\ c.code = GRPCCode(err)
    BY <1>1, CodeOf DEF Call
  <1>3. c.newToken = None /\ (c.op = "refresh" /\ c.dead => c.token \in loggedOut)
    BY <1>1, <1>2 DEF Fits, Knows, RefreshFits
  <1>4. c.op = "register" => Registered(c, c.code)
    BY <1>2 DEF Registered
  <1>5. Fits("reply", c, w \in done')
    BY <1>2, <1>3, <1>4 DEF Fits, Knows, RegisterFits, LoginFits, RefreshFits
  <1>6. Goto(w, "reply", c)
    BY DEF Finish
  <1> QED
    BY <1>2, <1>5, <1>6, QuietStepKeeps DEF Steps

LEMMA ContextDoneKeeps ==
  ASSUME IInv, NEW w \in Workers, UNCHANGED <<stores, loggedOut>>,
         NEW s \in {"byEmail", "create", "token", "revokeAll", "update"}, ContextDone(w, s)
  PROVE  IInv'
  <1>1. pc[w] = s /\ Finish(w, call[w], "context")
    BY DEF ContextDone
  <1>2. Fits(s, call[w], w \in done)
    BY <1>1 DEF IInv, CallsFit
  <1>3. call[w].op = "register" => Registered(call[w], GRPCCode("context"))
    BY <1>2, CodeOf DEF Fits, Knows, RegisterFits, Registered
  <1> QED
    BY <1>1, <1>3, CodeOf, FailKeeps

(* An email in the index is that of a user.                                *)
LEMMA EmailTaken ==
  ASSUME IInv, NEW e \in Emails, emailIndex[e] # None
  PROVE  \E u \in StoredUsers : users[u].email = e
  BY DEF IInv, EmailsIdentifyUsers

LEMMA GetByEmailKeeps ==
  ASSUME IInv, NEW w \in Workers, GetByEmail(w)
  PROVE  IInv'
  <1> DEFINE c == call[w]
             u == emailIndex[c.email]
             known == [c EXCEPT !.id = u]
  <1>1. UNCHANGED <<stores, loggedOut>>
    BY DEF GetByEmail
  <1>2. CASE ContextDone(w, "byEmail")
    BY <1>1, <1>2, ContextDoneKeeps
  <1>3. CASE pc[w] = "byEmail" /\ w \notin done
    <2>1. /\ c \in Call /\ c.email \in Emails /\ c.newToken = None
          /\ c.op = "register" => c.id = None
      BY <1>3 DEF IInv, TypeOK, CallsFit, Fits, Knows, RegisterFits
    <2>2. ASSUME NEW err \in {"ErrUserAlreadyExists", "hash", "ErrInvalidCredentials"},
                 Finish(w, c, err), c.op = "register" => Registered(c, GRPCCode(err))
          PROVE  IInv'
      BY <1>1, <1>3, <2>2, CodeOf, FailKeeps
    <2>3. CASE c.op = "register" /\ Goto(w, "create", c)
      <3>1. Fits("create", c, w \in done')
        BY <2>1, <2>3 DEF Fits, Knows, RegisterFits
      <3> QED
        BY <1>1, <2>1, <2>3, <3>1, QuietStepKeeps DEF Steps
    <2>4. CASE c.op = "login" /\ u # None /\ Goto(w, "store", known)
      <3>1. u \in UserIds
        BY <2>1, <2>4 DEF IInv, TypeOK
      <3>2. known \in Call /\ known.op = "login" /\ known.id = u /\ known.newToken = None
        BY <2>1, <2>4, <3>1 DEF Call
      <3>3. Fits("store", known, w \in done')
        BY <3>1, <3>2 DEF Fits, Knows, LoginFits
      <3> QED
        BY <1>1, <2>4, <3>2, <3>3, QuietStepKeeps DEF Steps
    <2>5. \/ c.op = "register" /\ u # None /\ Finish(w, c, "ErrUserAlreadyExists")
          \/ c.op = "register" /\ (Goto(w, "create", c) \/ Finish(w, c, "hash"))
          \/ c.op = "login" /\ Finish(w, c, "ErrInvalidCredentials")
          \/ c.op = "login" /\ u # None /\ Goto(w, "store", known)
          \/ ContextDone(w, "byEmail")
      BY DEF GetByEmail
    <2>6. CASE c.op = "register" /\ u # None /\ Finish(w, c, "ErrUserAlreadyExists")
      <3>1. Registered(c, GRPCCode("ErrUserAlreadyExists"))
        BY <2>1, <2>6, EmailTaken, CodeOf DEF Registered
      <3> QED
        BY <2>2, <2>6, <3>1
    <2>7. CASE c.op = "register" /\ Finish(w, c, "hash")
      <3>1. Registered(c, GRPCCode("hash"))
        BY <2>1, <2>7, CodeOf DEF Registered
      <3> QED
        BY <2>2, <2>7, <3>1
    <2>8. CASE c.op = "login" /\ Finish(w, c, "ErrInvalidCredentials")
      BY <2>2, <2>8
    <2> QED
      BY <1>2, <2>3, <2>4, <2>5, <2>6, <2>7, <2>8
  <1> QED
    BY <1>2, <1>3 DEF GetByEmail

LEMMA GetTokenKeeps ==
  ASSUME IInv, NEW w \in Workers, GetToken(w)
  PROVE  IInv'
  <1> DEFINE c == call[w]
             known == [c EXCEPT !.id = tokens[c.token].user]
  <1>1. UNCHANGED <<stores, loggedOut>>
    BY DEF GetToken
  <1>2. CASE ContextDone(w, "token")
    BY <1>1, <1>2, ContextDoneKeeps
  <1>3. CASE pc[w] = "token" /\ w \notin done
    <2>1. /\ c \in Call /\ c.op = "refresh" /\ c.token \in Tokens /\ c.newToken = None
          /\ c.dead => c.token \in loggedOut
      BY <1>3 DEF IInv, TypeOK, CallsFit, Fits, Knows, RefreshFits
    <2>2. CASE Finish(w, c, "ErrTokenInvalid")
      BY <1>1, <1>3, <2>1, <2>2, CodeOf, FailKeeps
    <2>3. CASE Valid(c.token) /\ Goto(w, "byID", known)
      <3>1. c.token \in StoredTokens /\ ~c.dead
        BY <2>1, <2>3 DEF Valid, IInv, LoggedOutRevoked
      <3>2. tokens[c.token].user \in UserIds
        BY <2>1, <3>1 DEF IInv, TypeOK, StoredTokens, RefreshToken
      <3>3. /\ known \in Call /\ known.op = "refresh" /\ known.id = tokens[c.token].user
            /\ known.token = c.token /\ known.newToken = None /\ ~known.dead
        BY <2>1, <3>1, <3>2 DEF Call
      <3>4. Fits("byID", known, w \in done')
        BY <3>1, <3>2, <3>3 DEF Fits, Knows, LoginFits, RefreshFits
      <3> QED
        BY <1>1, <2>3, <3>3, <3>4, QuietStepKeeps DEF Steps
    <2> QED
      BY <1>2, <1>3, <2>2, <2>3 DEF GetToken
  <1> QED
    BY <1>2, <1>3 DEF GetToken

LEMMA GetByIDKeeps ==
  ASSUME IInv, NEW w \in Workers, GetByID(w)
  PROVE  IInv'
  <1> DEFINE c == call[w]
             u == users[c.id]
             known == [c EXCEPT !.email = u.email]
             answer == [c EXCEPT !.code = GRPCCode("none")]
  <1>1. UNCHANGED <<stores, loggedOut>> /\ pc[w] = "byID"
    BY DEF GetByID
  <1>2. /\ c \in Call /\ c.op \in {"refresh", "getUser", "updateRole"} /\ c.id \in UserIds
        /\ c.newToken = None
        /\ c.op = "refresh" =>
             /\ ~c.dead /\ c.token \in StoredTokens /\ tokens[c.token].user = c.id
             /\ c.token \in Tokens
    BY <1>1 DEF IInv, TypeOK, CallsFit, Fits, Knows, RefreshFits, StoredTokens
  <1>3. ASSUME NEW err \in {"ErrUserNotFound", "context"}, Finish(w, c, err)
        PROVE  IInv'
    BY <1>1, <1>2, <1>3, CodeOf, FailKeeps
  <1>4. CASE c.op = "refresh" /\ Goto(w, "revoke", c)
    <2>1. Fits("revoke", c, w \in done')
      BY <1>2, <1>4 DEF Fits, Knows, LoginFits, RefreshFits
    <2> QED
      BY <1>1, <1>2, <1>4, <2>1, QuietStepKeeps DEF Steps
  <1>5. CASE c.op = "getUser" /\ Finish(w, c, "none")
    <2>1. answer \in Call /\ answer.op = "getUser" /\ answer.newToken = None
      BY <1>2, <1>5, CodeOf DEF Call
    <2>2. Fits("reply", answer, w \in done')
      BY <2>1 DEF Fits, Knows
    <2>3. Goto(w, "reply", answer)
      BY <1>5 DEF Finish
    <2> QED
      BY <1>1, <2>1, <2>2, <2>3, QuietStepKeeps DEF Steps
  <1>6. CASE u # None /\ c.op = "updateRole" /\ Goto(w, "update", known)
    <2>1. c.id \in StoredUsers /\ u.email \in Emails
      BY <1>2, <1>6 DEF IInv, TypeOK, StoredUsers, User
    <2>2. /\ known \in Call /\ known.op = "updateRole" /\ known.id = c.id
          /\ known.email = u.email /\ known.newToken = None
      BY <1>2, <1>6, <2>1 DEF Call
    <2>3. Fits("update", known, w \in done')
      BY <2>1, <2>2 DEF Fits, Knows
    <2> QED
      BY <1>1, <1>6, <2>2, <2>3, QuietStepKeeps DEF Steps
  <1> QED
    BY <1>3, <1>4, <1>5, <1>6 DEF GetByID
-----------------------------------------------------------------------------
(* The steps that write.                                                   *)
LEMMA CreateKeeps ==
  ASSUME IInv, NEW w \in Workers, Create(w)
  PROVE  IInv'
  <1> DEFINE c == call[w]
  <1>1. UNCHANGED <<tokens, userTokens, loggedOut>>
    BY DEF Create
  <1>2. CASE ContextDone(w, "create") /\ UNCHANGED <<users, emailIndex>>
    BY <1>1, <1>2, ContextDoneKeeps DEF stores
  <1>3. CASE /\ pc[w] = "create" /\ UNCHANGED <<users, emailIndex>>
             /\ emailIndex[c.email] # None
             /\ Finish(w, c, "ErrUserAlreadyExists")
    <2>1. c.op = "register" /\ c.email \in Emails /\ c.id = None
      BY <1>3 DEF IInv, CallsFit, Fits, Knows, RegisterFits
    <2>2. Registered(c, GRPCCode("ErrUserAlreadyExists"))
      BY <1>3, <2>1, EmailTaken, CodeOf DEF Registered
    <2> QED
      BY <1>1, <1>3, <2>2, CodeOf, FailKeeps DEF stores
  <1>4. CASE /\ pc[w] = "create" /\ emailIndex[c.email] = None /\ StoredUsers # UserIds
             /\ users' = [users EXCEPT ![NewUserId] = [email |-> c.email, role |-> "USER"]]
             /\ emailIndex' = [emailIndex EXCEPT ![c.email] = NewUserId]
             /\ Goto(w, "store", [c EXCEPT !.id = NewUserId])
    <2>1. c \in Call /\ c.op = "register" /\ c.email \in Emails /\ c.newToken = None
      BY <1>4 DEF IInv, TypeOK, CallsFit, Fits, Knows
    <2>2. PICK n \in UserIds : n = NewUserId /\ n \notin StoredUsers
      <3>1. \E u \in UserIds : u \notin StoredUsers
        BY <1>4 DEF StoredUsers
      <3> QED
        BY <3>1 DEF NewUserId
    <2> DEFINE new == [email |-> c.email, role |-> "USER"]
    <2>3. new \in User /\ new # None /\ new.email = c.email
      BY <2>1, AuthServiceAssumption DEF User, Roles
    <2>4. users' = [users EXCEPT ![n] = new] /\ emailIndex' = [emailIndex EXCEPT ![c.email] = n]
      BY <1>4, <2>2
    <2>5. /\ users \in [UserIds -> User \cup {None}]
          /\ emailIndex \in [Emails -> UserIds \cup {None}]
      BY DEF IInv, TypeOK
    <2>6. StoredUsers' = StoredUsers \cup {n}
      BY <2>2, <2>3, <2>4, <2>5 DEF StoredUsers
    <2>7. StoredTokens' = StoredTokens
      BY <1>1 DEF StoredTokens
    <2>8. Grows
      BY <1>1, <2>2, <2>4, <2>5, <2>6, <2>7 DEF Grows, StoredUsers
    <2>9. StoresTypeOK' /\ TokensIndexed' /\ LoggedOutRevoked'
      BY <1>1, <2>3, <2>4, <2>5, <2>7
      DEF IInv, TypeOK, StoresTypeOK, TokensIndexed, LoggedOutRevoked
    <2>10. EmailsIdentifyUsers'
      <3>1. ASSUME NEW e \in Emails, emailIndex'[e] # None
            PROVE  emailIndex'[e] \in StoredUsers' /\ users'[emailIndex'[e]].email = e
        BY <2>1, <2>2, <2>3, <2>4, <2>5, <2>6, <3>1
        DEF IInv, EmailsIdentifyUsers, StoredUsers
      <3>2. ASSUME NEW u \in StoredUsers' PROVE emailIndex'[users'[u].email] = u
        <4>1. CASE u = n
          BY <2>1, <2>3, <2>4, <2>5, <4>1
        <4>2. CASE u # n
          <5>1. u \in UserIds /\ u \in StoredUsers /\ users'[u] = users[u]
            BY <2>4, <2>5, <2>6, <3>2, <4>2 DEF StoredUsers
          <5>2. emailIndex[users[u].email] = u /\ users[u].email \in Emails
            BY <2>5, <5>1 DEF IInv, EmailsIdentifyUsers, StoredUsers, User
          <5>3. users[u].email # c.email
            BY <1>4, <5>1, <5>2, AuthServiceAssumption
          <5> QED
            BY <2>4, <2>5, <5>1, <5>2, <5>3
        <4> QED
          BY <4>1, <4>2
      <3> QED
        BY <3>1, <3>2 DEF EmailsIdentifyUsers
    <2>11. PICK created \in Call :
             /\ created = [c EXCEPT !.id = n]
             /\ created.op = "register" /\ created.id = n
             /\ created.email = c.email /\ created.newToken = None
      <3> DEFINE k == [c EXCEPT !.id = n]
      <3>1. /\ k \in Call /\ k.op = "register" /\ k.id = n
            /\ k.email = c.email /\ k.newToken = None
        BY <2>1, <2>2 DEF Call
      <3> QED
        BY <3>1
    <2>12. n \in StoredUsers' /\ users'[n].email = c.email
      BY <2>3, <2>4, <2>5, <2>6
    <2>13. Fits("store", created, w \in done)'
      BY <2>11, <2>12 DEF Fits, Knows, RegisterFits
    <2>14. Goto(w, "store", created)
      BY <1>4, <2>2, <2>11
    <2> QED
      BY <2>8, <2>9, <2>10, <2>11, <2>13, <2>14, StepKeeps DEF Steps
  <1> QED
    BY <1>2, <1>3, <1>4 DEF Create

(* GenerateTokens fails: the user of a Register is there all the same.     *)
LEMMA GenerateTokensFailsKeeps ==
  ASSUME IInv, NEW w \in Workers, GenerateTokensFails(w)
  PROVE  IInv'
  <1>1. pc[w] = "store" /\ Finish(w, call[w], "sign") /\ UNCHANGED <<stores, loggedOut>>
    BY DEF GenerateTokensFails
  <1>2. Fits("store", call[w], w \in done)
    BY <1>1 DEF IInv, CallsFit
  <1>3. call[w].op = "register" => Registered(call[w], GRPCCode("sign"))
    BY <1>2, CodeOf DEF Fits, RegisterFits, Registered
  <1> QED
    BY <1>1, <1>3, CodeOf, FailKeeps

(* Store: the answer of Register is OK whether it works or not.            *)
LEMMA StoreKeeps ==
  ASSUME IInv, NEW w \in Workers, Store(w)
  PROVE  IInv'
  <1> DEFINE c == call[w]
             answer == [c EXCEPT !.code = GRPCCode("none")]
  <1>1. UNCHANGED <<users, emailIndex, loggedOut>> /\ pc[w] = "store"
    BY DEF Store
  <1>2. c \in Call /\ Fits("store", c, w \in done)
    BY <1>1 DEF IInv, TypeOK, CallsFit
  <1>3. c.op \in {"register", "login", "refresh"} /\ c.id \in UserIds /\ c.newToken = None
    BY <1>2 DEF Fits, Knows
  <1>4. CASE /\ w \in done /\ Finish(w, c, StoreFailed(c.op)) /\ UNCHANGED <<tokens, userTokens>>
    <2>1. CASE c.op = "register"
      <3>1. /\ answer \in Call /\ answer.op = "register" /\ answer.code = "OK"
            /\ answer.id = c.id /\ answer.email = c.email
        BY <1>2, <2>1, CodeOf DEF Call
      <3>2. c.id # None /\ c.id \in StoredUsers /\ users[c.id].email = c.email
        BY <1>2, <1>3, <2>1, AuthServiceAssumption DEF Fits, RegisterFits
      <3>3. Registered(answer, answer.code)
        BY <3>1, <3>2 DEF Registered
      <3>4. Fits("reply", answer, w \in done')
        BY <3>1, <3>3 DEF Fits, Knows, RegisterFits
      <3>5. Goto(w, "reply", answer)
        BY <1>4, <2>1 DEF StoreFailed, Finish
      <3> QED
        BY <1>1, <1>4, <3>1, <3>4, <3>5, QuietStepKeeps DEF stores, Steps
    <2>2. CASE c.op # "register"
      <3>1. Finish(w, c, "context")
        BY <1>4, <2>2 DEF StoreFailed
      <3> QED
        BY <1>1, <1>4, <2>2, <3>1, CodeOf, FailKeeps DEF stores
    <2> QED
      BY <2>1, <2>2
  <1>5. CASE /\ w \notin done /\ StoredTokens # Tokens
             /\ tokens' = [tokens EXCEPT ![NewToken] =
                  [user |-> c.id, revoked |-> FALSE, expired |-> FALSE]]
             /\ userTokens' = Indexed(c.id, NewToken)
             /\ Finish(w, [c EXCEPT !.newToken = NewToken], "none")
    <2>1. PICK n \in Tokens : n = NewToken /\ n \notin StoredTokens
      <3>1. \E t \in Tokens : t \notin StoredTokens
        BY <1>5 DEF StoredTokens
      <3> QED
        BY <3>1 DEF NewToken
    <2> DEFINE new == [user |-> c.id, revoked |-> FALSE, expired |-> FALSE]
               k == [[c EXCEPT !.newToken = n] EXCEPT !.code = GRPCCode("none")]
    <2>2. new \in RefreshToken /\ new # None /\ new.user = c.id
      <3>1. new \in RefreshToken /\ new.user = c.id
        BY <1>3 DEF RefreshToken
      <3> QED
        BY <3>1, AuthServiceAssumption
    <2>3. /\ tokens' = [tokens EXCEPT ![n] = new]
          /\ userTokens' = [userTokens EXCEPT ![c.id] = @ \cup {n}]
          /\ Goto(w, "reply", k)
      BY <1>5, <2>1 DEF Indexed, Finish
    <2>4. /\ tokens \in [Tokens -> RefreshToken \cup {None}]
          /\ userTokens \in [UserIds -> SUBSET Tokens]
      BY DEF IInv, TypeOK
    <2>5. StoredTokens' = StoredTokens \cup {n} /\ StoredUsers' = StoredUsers
      BY <1>1, <2>2, <2>3, <2>4 DEF StoredTokens, StoredUsers
    <2>6. \A t \in StoredTokens : t \in Tokens /\ tokens'[t] = tokens[t] /\ tokens[t] \in RefreshToken
      BY <2>1, <2>3, <2>4 DEF StoredTokens
    <2>7. tokens'[n] = new
      BY <2>3, <2>4
    <2>8. Grows
      BY <1>1, <2>5, <2>6 DEF Grows
    <2>9. StoresTypeOK'
      BY <1>1, <1>3, <2>2, <2>3, <2>4 DEF IInv, TypeOK, StoresTypeOK
    <2>10. EmailsIdentifyUsers'
      BY <1>1, <2>5 DEF IInv, EmailsIdentifyUsers
    <2>11. TokensIndexed'
      <3>1. ASSUME NEW t \in StoredTokens PROVE t \in userTokens'[tokens'[t].user]
        <4>1. t \in userTokens[tokens[t].user] /\ tokens[t].user \in UserIds
          BY <2>6 DEF IInv, TokensIndexed, RefreshToken
        <4> QED
          BY <1>3, <2>3, <2>4, <2>6, <4>1
      <3>2. n \in userTokens'[tokens'[n].user]
        BY <1>3, <2>2, <2>3, <2>4, <2>7
      <3> QED
        BY <2>5, <3>1, <3>2 DEF TokensIndexed
    <2>12. LoggedOutRevoked'
      BY <1>1, <2>5, <2>6 DEF IInv, LoggedOutRevoked
    <2>13. PICK ans \in Call :
             /\ ans = k /\ ans.op = c.op /\ ans.code = "OK" /\ ans.newToken = n
             /\ ans.id = c.id /\ ans.email = c.email /\ ans.token = c.token /\ ans.dead = c.dead
      <3>1. /\ k \in Call /\ k.op = c.op /\ k.code = "OK" /\ k.newToken = n
            /\ k.id = c.id /\ k.email = c.email /\ k.token = c.token /\ k.dead = c.dead
        BY <1>2, CodeOf DEF Call
      <3> QED
        BY <3>1
    <2>14. n \in StoredTokens' /\ tokens'[n].user = c.id
      BY <2>2, <2>5, <2>7
    <2>15. c.op = "refresh" =>
             /\ ~c.dead /\ c.token \in StoredTokens /\ tokens[c.token].user = c.id
             /\ tokens[c.token].revoked
      BY <1>2, <1>5 DEF Fits, RefreshFits
    <2>16. Fits("reply", ans, w \in done)'
      <3>1. c.op = "register" => RegisterFits("reply", ans)'
        BY <1>1, <1>2, <1>3, <2>5, <2>13, AuthServiceAssumption
        DEF Fits, RegisterFits, Registered
      <3>2. LoginFits("reply", ans)'
        BY <2>13, <2>14 DEF LoginFits
      <3>3. c.op = "refresh" => RefreshFits("reply", ans, w \in done)'
        BY <2>1, <2>5, <2>6, <2>13, <2>14, <2>15 DEF RefreshFits
      <3> QED
        BY <2>13, <3>1, <3>2, <3>3 DEF Fits, Knows
    <2> QED
      BY <2>3, <2>8, <2>9, <2>10, <2>11, <2>12, <2>13, <2>16, StepKeeps DEF Steps
  <1> QED
    BY <1>1, <1>4, <1>5 DEF Store
-----------------------------------------------------------------------------
(* The steps that only mark tokens, as revoked or as expired.              *)
Marks ==
  \A t \in Tokens :
    IF tokens[t] = None
      THEN tokens'[t] = None
      ELSE /\ tokens'[t] \in RefreshToken /\ tokens'[t].user = tokens[t].user
           /\ tokens[t].revoked => tokens'[t].revoked

LEMMA MarksKeep ==
  ASSUME IInv, UNCHANGED <<users, emailIndex, userTokens>>, Marks,
         tokens' = [t \in Tokens |-> tokens'[t]],
         loggedOut \subseteq loggedOut',
         \A t \in loggedOut' \ loggedOut : t \in StoredTokens /\ tokens'[t].revoked
  PROVE  /\ StoredTokens' = StoredTokens /\ StoredUsers' = StoredUsers
         /\ Grows
         /\ StoresTypeOK' /\ EmailsIdentifyUsers' /\ TokensIndexed' /\ LoggedOutRevoked'
  <1>1. StoredUsers' = StoredUsers
    BY DEF StoredUsers
  <1>2. StoredTokens' = StoredTokens
    BY AuthServiceAssumption DEF StoredTokens, Marks
  <1>3. StoredTokens \subseteq Tokens /\ \A t \in StoredTokens : tokens[t] # None
    BY DEF StoredTokens
  <1>4. Grows
    BY <1>1, <1>2, <1>3 DEF Grows, Marks
  <1>5. tokens' \in [Tokens -> RefreshToken \cup {None}]
    BY DEF Marks
  <1>6. loggedOut' \subseteq Tokens
    BY <1>3 DEF IInv, TypeOK
  <1>7. StoresTypeOK'
    BY <1>5, <1>6 DEF IInv, TypeOK, StoresTypeOK
  <1>8. EmailsIdentifyUsers'
    BY <1>1 DEF IInv, EmailsIdentifyUsers
  <1>9. TokensIndexed'
    BY <1>2, <1>3 DEF IInv, TokensIndexed, Marks
  <1>10. LoggedOutRevoked'
    BY <1>2, <1>3 DEF IInv, LoggedOutRevoked, Marks
  <1> QED
    BY <1>1, <1>2, <1>4, <1>7, <1>8, <1>9, <1>10

LEMMA RevokeKeeps ==
  ASSUME IInv, NEW w \in Workers, Revoke(w)
  PROVE  IInv'
  <1> DEFINE c == call[w]
             t == c.token
             marked == w \notin done /\ t \in StoredTokens
  <1>1. UNCHANGED <<users, emailIndex, userTokens>> /\ pc[w] = "revoke"
    BY DEF Revoke
  <1>2. /\ c \in Call /\ c.op \in {"refresh", "logout"} /\ t \in Tokens /\ c.newToken = None
        /\ Fits("revoke", c, w \in done)
    BY <1>1 DEF IInv, TypeOK, CallsFit, Fits, Knows
  <1>3. tokens \in [Tokens -> RefreshToken \cup {None}]
    BY DEF IInv, TypeOK
  <1>4. /\ marked => tokens' = [tokens EXCEPT ![t].revoked = TRUE]
        /\ ~marked => tokens' = tokens
    BY DEF Revoke
  <1>5. Marks /\ tokens' = [v \in Tokens |-> tokens'[v]] /\ (marked => tokens'[t].revoked)
    <2>1. CASE marked
      <3>1. tokens[t] \in RefreshToken
        BY <1>3, <2>1 DEF StoredTokens
      <3>2. [tokens[t] EXCEPT !.revoked = TRUE] \in RefreshToken
        BY <3>1 DEF RefreshToken
      <3>3. tokens[t] # None
        BY <2>1 DEF StoredTokens
      <3> QED
        BY <1>2, <1>3, <1>4, <2>1, <3>1, <3>2, <3>3 DEF Marks, RefreshToken
    <2>2. CASE ~marked
      BY <1>3, <1>4, <2>2 DEF Marks
    <2> QED
      BY <2>1, <2>2
  <1>6. /\ loggedOut' \subseteq loggedOut \cup {t} /\ loggedOut \subseteq loggedOut'
        /\ t \in loggedOut' => t \in loggedOut \/ marked
    BY DEF Revoke
  <1>7. /\ StoredTokens' = StoredTokens /\ StoredUsers' = StoredUsers /\ Grows
        /\ StoresTypeOK' /\ EmailsIdentifyUsers' /\ TokensIndexed' /\ LoggedOutRevoked'
    BY <1>1, <1>5, <1>6, MarksKeep
  <1>8. CASE c.op = "refresh" /\ Goto(w, "store", c)
    <2>1. /\ c.id \in UserIds /\ ~c.dead /\ t \in StoredTokens /\ tokens[t].user = c.id
      BY <1>2, <1>3, <1>8 DEF Fits, RefreshFits, StoredTokens, RefreshToken
    <2>2. PICK k \in Call : k = c
      BY <1>2
    <2>3. done' = done
      BY <1>8 DEF Goto
    <2>4. t \in StoredTokens' /\ tokens'[t].user = c.id
      BY <1>7, <2>1 DEF Grows
    <2>5. w \in done' \/ tokens'[t].revoked
      BY <1>5, <2>1, <2>3
    <2>6. Fits("store", k, w \in done)'
      BY <1>2, <1>8, <2>1, <2>2, <2>4, <2>5 DEF Fits, Knows, LoginFits, RefreshFits
    <2>7. Goto(w, "store", k)
      BY <1>8, <2>2
    <2> QED
      BY <1>7, <2>6, <2>7, StepKeeps DEF Steps
  <1>9. ASSUME c.op = "logout", NEW err, Finish(w, c, err)
        PROVE  IInv'
    <2>1. PICK k \in Call :
            k = [c EXCEPT !.code = GRPCCode(err)] /\ k.op = "logout" /\ k.newToken = None
      <3> DEFINE a == [c EXCEPT !.code = GRPCCode(err)]
      <3>1. a \in Call /\ a.op = "logout" /\ a.newToken = None
        BY <1>2, <1>9, CodeOf DEF Call
      <3> QED
        BY <3>1
    <2>2. Fits("reply", k, w \in done)'
      BY <2>1 DEF Fits, Knows
    <2>3. Goto(w, "reply", k)
      BY <1>9, <2>1 DEF Finish
    <2> QED
      BY <1>7, <2>2, <2>3, StepKeeps DEF Steps
  <1> QED
    BY <1>8, <1>9 DEF Revoke
(* LogoutAll finds all tokens of its user, because all are in the index.   *)
LEMMA RevokeAllByUserKeeps ==
  ASSUME IInv, NEW w \in Workers, RevokeAllByUser(w)
  PROVE  IInv'
  <1> DEFINE c == call[w]
             ended == {t \in StoredTokens : tokens[t].user = c.id}
             answer == [c EXCEPT !.code = GRPCCode("none")]
  <1>1. UNCHANGED <<users, emailIndex, userTokens>>
    BY DEF RevokeAllByUser
  <1>2. CASE ContextDone(w, "revokeAll") /\ UNCHANGED <<tokens, loggedOut>>
    BY <1>1, <1>2, ContextDoneKeeps DEF stores
  <1>3. CASE /\ pc[w] = "revokeAll"
             /\ tokens' = [t \in Tokens |->
                  IF t \in StoredTokens \cap userTokens[c.id]
                    THEN [tokens[t] EXCEPT !.revoked = TRUE]
                    ELSE tokens[t]]
             /\ loggedOut' = loggedOut \cup ended
             /\ Finish(w, c, "none")
    <2>1. c \in Call /\ c.op = "logoutAll" /\ c.id \in UserIds /\ c.newToken = None
      BY <1>3 DEF IInv, TypeOK, CallsFit, Fits, Knows
    <2>2. tokens \in [Tokens -> RefreshToken \cup {None}]
      BY DEF IInv, TypeOK
    <2>3. ASSUME NEW t \in StoredTokens
          PROVE  /\ tokens'[t] \in RefreshToken /\ tokens'[t].user = tokens[t].user
                 /\ tokens[t].revoked => tokens'[t].revoked
                 /\ tokens[t].user = c.id => tokens'[t].revoked
      <3>1. t \in Tokens /\ tokens[t] \in RefreshToken /\ t \in userTokens[tokens[t].user]
        BY <2>2 DEF StoredTokens, IInv, TokensIndexed
      <3> DEFINE r == [tokens[t] EXCEPT !.revoked = TRUE]
      <3>2. r \in RefreshToken /\ r.user = tokens[t].user /\ r.revoked
        BY <3>1 DEF RefreshToken
      <3> QED
        BY <1>3, <3>1, <3>2
    <2>4. Marks
      BY <1>3, <2>3 DEF Marks, StoredTokens
    <2>5. /\ loggedOut \subseteq loggedOut' /\ tokens' = [t \in Tokens |-> tokens'[t]]
          /\ \A t \in loggedOut' \ loggedOut : t \in StoredTokens /\ tokens'[t].revoked
      BY <1>3, <2>3
    <2>6. /\ Grows /\ StoresTypeOK' /\ EmailsIdentifyUsers' /\ TokensIndexed'
          /\ LoggedOutRevoked'
      BY <1>1, <2>4, <2>5, MarksKeep
    <2>7. PICK k \in Call : k = answer /\ k.op = "logoutAll" /\ k.newToken = None
      <3>1. answer \in Call /\ answer.op = "logoutAll" /\ answer.newToken = None
        BY <2>1, CodeOf DEF Call
      <3> QED
        BY <3>1
    <2>8. Fits("reply", k, w \in done)'
      BY <2>7 DEF Fits, Knows
    <2>9. Goto(w, "reply", k)
      BY <1>3, <2>7 DEF Finish
    <2> QED
      BY <2>6, <2>8, <2>9, StepKeeps DEF Steps
  <1> QED
    BY <1>2, <1>3 DEF RevokeAllByUser

LEMMA ExpireKeeps ==
  ASSUME IInv, NEW e \in Tokens, Expire(e)
  PROVE  IInv'
  <1>1. tokens \in [Tokens -> RefreshToken \cup {None}]
    BY DEF IInv, TypeOK
  <1>2. tokens[e] \in RefreshToken /\ tokens[e] # None
    BY <1>1 DEF Expire, Valid, StoredTokens
  <1> DEFINE r == [tokens[e] EXCEPT !.expired = TRUE]
  <1>3. r \in RefreshToken /\ r.user = tokens[e].user /\ r.revoked = tokens[e].revoked
    BY <1>2 DEF RefreshToken
  <1>4. tokens' = [tokens EXCEPT ![e] = r]
    BY DEF Expire
  <1>5. Marks /\ tokens' = [t \in Tokens |-> tokens'[t]]
    BY <1>1, <1>2, <1>3, <1>4 DEF Marks
  <1>6. UNCHANGED <<users, emailIndex, userTokens, pc, call, done, loggedOut>>
    BY DEF Expire
  <1>7. /\ Grows /\ StoresTypeOK' /\ EmailsIdentifyUsers' /\ TokensIndexed' /\ LoggedOutRevoked'
    BY <1>5, <1>6, MarksKeep
  <1>8. TypeOK'
    BY <1>6, <1>7 DEF IInv, TypeOK, StoresTypeOK
  <1>9. CallsFit'
    BY <1>6, <1>7, OthersFit DEF CallsFit
  <1> QED
    BY <1>7, <1>8, <1>9 DEF IInv

(* Update writes back the email its user has had all along.                *)
LEMMA UpdateKeeps ==
  ASSUME IInv, NEW w \in Workers, Update(w)
  PROVE  IInv'
  <1> DEFINE c == call[w]
             new == [email |-> c.email, role |-> c.role]
             answer == [c EXCEPT !.code = GRPCCode("none")]
  <1>1. UNCHANGED <<emailIndex, tokens, userTokens, loggedOut>>
    BY DEF Update
  <1>2. CASE ContextDone(w, "update") /\ UNCHANGED users
    BY <1>1, <1>2, ContextDoneKeeps DEF stores
  <1>3. CASE pc[w] = "update" /\ users' = [users EXCEPT ![c.id] = new] /\ Finish(w, c, "none")
    <2>1. /\ c \in Call /\ c.op = "updateRole" /\ c.id \in StoredUsers
          /\ users[c.id].email = c.email /\ c.newToken = None
      BY <1>3 DEF IInv, TypeOK, CallsFit, Fits, Knows
    <2>2. users \in [UserIds -> User \cup {None}]
      BY DEF IInv, TypeOK
    <2>3. c.id \in UserIds /\ c.email \in Emails /\ c.role \in Roles
      BY <2>1, <2>2 DEF StoredUsers, User, Call
    <2>4. new \in User /\ new # None /\ new.email = c.email
      <3>1. new \in User /\ new.email = c.email
        BY <2>3 DEF User
      <3> QED
        BY <3>1, AuthServiceAssumption
    <2>5. StoredUsers' = StoredUsers /\ StoredTokens' = StoredTokens
      BY <1>1, <1>3, <2>1, <2>2, <2>3, <2>4 DEF StoredUsers, StoredTokens
    <2>6. \A u \in StoredUsers : users'[u].email = users[u].email
      BY <1>3, <2>1, <2>2, <2>4 DEF StoredUsers
    <2>7. Grows
      BY <1>1, <2>5, <2>6 DEF Grows
    <2>8. StoresTypeOK' /\ TokensIndexed' /\ LoggedOutRevoked'
      BY <1>1, <1>3, <2>2, <2>4, <2>5
      DEF IInv, TypeOK, StoresTypeOK, TokensIndexed, LoggedOutRevoked
    <2>9. EmailsIdentifyUsers'
      BY <1>1, <2>5, <2>6 DEF IInv, EmailsIdentifyUsers
    <2>10. PICK k \in Call : k = answer /\ k.op = "updateRole" /\ k.newToken = None
      <3>1. answer \in Call /\ answer.op = "updateRole" /\ answer.newToken = None
        BY <2>1, CodeOf DEF Call
      <3> QED
        BY <3>1
    <2>11. Fits("reply", k, w \in done)'
      BY <2>10 DEF Fits, Knows
    <2>12. Goto(w, "reply", k)
      BY <1>3, <2>10 DEF Finish
    <2> QED
      BY <2>7, <2>8, <2>9, <2>11, <2>12, StepKeeps DEF Steps
  <1> QED
    BY <1>2, <1>3 DEF Update

-----------------------------------------------------------------------------
LEMMA RespondKeeps ==
  ASSUME IInv, NEW w \in Workers, Respond(w)
  PROVE  IInv'
  <1>1. /\ NewCall("getUser") \in Call /\ NewCall("getUser").op = "getUser"
        /\ NewCall("getUser").newToken = None
    BY NewCallType DEF Ops
  <1>2. Fits("idle", NewCall("getUser"), w \in done')
    BY <1>1 DEF Fits, Knows
  <1> QED
    BY <1>1, <1>2, QuietStepKeeps DEF Respond, Steps

LEMMA CancelKeeps ==
  ASSUME IInv, NEW w \in Workers, Cancel(w)
  PROVE  IInv'
  <1>1. UNCHANGED <<users, emailIndex, tokens, userTokens, pc, call, loggedOut>>
        /\ done' = done \cup {w}
    BY DEF Cancel, stores
  <1>2. StoredUsers' = StoredUsers /\ StoredTokens' = StoredTokens
    BY <1>1 DEF StoredUsers, StoredTokens
  <1>3. Grows
    BY <1>1, <1>2 DEF Grows
  <1>4. TypeOK'
    BY <1>1 DEF IInv, TypeOK
  <1>5. EmailsIdentifyUsers' /\ TokensIndexed' /\ LoggedOutRevoked'
    BY <1>1, <1>2 DEF IInv, EmailsIdentifyUsers, TokensIndexed, LoggedOutRevoked
  <1>6. CallsFit'
    BY <1>1, <1>3, OthersFit DEF CallsFit
  <1> QED
    BY <1>4, <1>5, <1>6 DEF IInv

LEMMA InitIInv == Init => IInv
  <1> SUFFICES ASSUME Init PROVE IInv
    OBVIOUS
  <1>1. /\ NewCall("getUser") \in Call /\ NewCall("getUser").op = "getUser"
        /\ NewCall("getUser").newToken = None
    BY NewCallType DEF Ops
  <1>2. TypeOK
    BY <1>1 DEF Init, TypeOK, Steps
  <1>3. StoredUsers = {} /\ StoredTokens = {}
    BY DEF Init, StoredUsers, StoredTokens
  <1>4. EmailsIdentifyUsers /\ TokensIndexed /\ LoggedOutRevoked
    BY <1>3 DEF Init, EmailsIdentifyUsers, TokensIndexed, LoggedOutRevoked
  <1>5. CallsFit
    BY <1>1 DEF Init, CallsFit, Fits, Knows
  <1> QED
    BY <1>2, <1>4, <1>5 DEF IInv

LEMMA NextKeepsIInv == IInv /\ [Next]_vars => IInv'
  <1> SUFFICES ASSUME IInv, [Next]_vars PROVE IInv'
    OBVIOUS
  <1>1. ASSUME NEW w \in Workers, Handle(w) PROVE IInv'
    BY <1>1, GetByEmailKeeps, CreateKeeps, GenerateTokensFailsKeeps, StoreKeeps,
       GetTokenKeeps, GetByIDKeeps, RevokeKeeps, RevokeAllByUserKeeps, UpdateKeeps, RespondKeeps DEF Handle
  <1>2. CASE UNCHANGED vars
    BY <1>2 DEF vars, IInv, TypeOK, EmailsIdentifyUsers, TokensIndexed, LoggedOutRevoked,
                CallsFit, Fits, Knows, RegisterFits, Registered, LoginFits, RefreshFits,
                StoredUsers, StoredTokens
  <1> QED
    BY <1>1, <1>2, ReceiveKeeps, CancelKeeps, ExpireKeeps DEF Next

LEMMA IInvHolds == Spec => []IInv
  BY InitIInv, NextKeepsIInv, PTL DEF Spec

-----------------------------------------------------------------------------
(* The state of the user service keeps its types: in particular every      *)
(* answer has one of the codes of toGRPCError.                             *)
THEOREM TypeCorrect == Spec => []TypeOK
  BY IInvHolds, PTL DEF IInv

(* An email belongs to one user, although Register checks for it in one    *)
(* step and creates the user in another.                                   *)
THEOREM EmailsAreUnique == Spec => []EmailsIdentifyUsers
  BY IInvHolds, PTL DEF IInv

(* What Register, Login and RefreshToken answer is what they left behind,  *)
(* also when signing fails after Create or Revoke.                         *)
THEOREM AnswersHold == Spec => []AnswersMatchStores
  <1>1. IInv => AnswersMatchStores
    BY DEF IInv, CallsFit, AnswersMatchStores, Answered, Fits, Knows, RegisterFits,
           Registered, LoginFits
  <1> QED
    BY <1>1, IInvHolds, PTL

(* A RefreshToken that answers OK has revoked the token it was given,      *)
(* although it ignores the error of Revoke.                                *)
THEOREM RefreshRevokes == Spec => []RefreshRevokesOld
  <1>1. IInv => RefreshRevokesOld
    BY DEF IInv, CallsFit, RefreshRevokesOld, Answered, Fits, RefreshFits
  <1> QED
    BY <1>1, IInvHolds, PTL

(* A token that was logged out is never valid again, and no RefreshToken   *)
(* that starts after the logout succeeds with it.                          *)
THEOREM LogoutIsFinal == Spec => []NoRefreshAfterLogout
  <1>1. IInv => NoRefreshAfterLogout
    BY DEF IInv, CallsFit, LoggedOutRevoked, NoRefreshAfterLogout, Valid, Answered,
           Fits, RefreshFits
  <1> QED
    BY <1>1, IInvHolds, PTL

-----------------------------------------------------------------------------
(* Nobody is renamed or removed, although Update writes back a whole user  *)
(* it read some time before; no token changes hands; and a token that has  *)
(* been revoked, or whose time is over, is never good again.               *)
IdentitiesLast ==
  [][/\ \A u \in StoredUsers : u \in StoredUsers' /\ users'[u].email = users[u].email
     /\ \A t \in StoredTokens :
          /\ t \in StoredTokens' /\ tokens'[t].user = tokens[t].user
          /\ ~Valid(t) => ~Valid(t)']_vars

LEMMA UsersLast ==
  ASSUME IInv, [Next]_vars, NEW u \in StoredUsers
  PROVE  u \in StoredUsers' /\ users'[u].email = users[u].email
  <1>1. /\ users \in [UserIds -> User \cup {None}]
        /\ u \in UserIds /\ users[u] # None
    BY DEF IInv, TypeOK, StoredUsers
  <1>2. CASE UNCHANGED users
    BY <1>1, <1>2 DEF StoredUsers
  <1>3. ASSUME NEW w \in Workers, Create(w) PROVE UNCHANGED users \/ users'[u] = users[u]
    <2>1. ASSUME StoredUsers # UserIds PROVE NewUserId \notin StoredUsers
      <3>1. \E x \in UserIds : x \notin StoredUsers
        BY <2>1 DEF StoredUsers
      <3> QED
        BY <3>1 DEF NewUserId
    <2> QED
      BY <1>1, <1>3, <2>1 DEF Create
  <1>4. ASSUME NEW w \in Workers, Update(w)
        PROVE  users'[u] # None /\ users'[u].email = users[u].email
    <2>1. CASE UNCHANGED users
      BY <1>1, <2>1
    <2>2. CASE /\ pc[w] = "update"
               /\ users' = [users EXCEPT ![call[w].id] =
                              [email |-> call[w].email, role |-> call[w].role]]
      <3>1. /\ call[w] \in Call /\ call[w].id \in StoredUsers
            /\ users[call[w].id].email = call[w].email
        BY <2>2 DEF IInv, TypeOK, CallsFit, Fits, Knows
      <3>2. users[call[w].id] \in User /\ call[w].role \in Roles
        BY <1>1, <3>1 DEF StoredUsers, Call
      <3>3. [email |-> call[w].email, role |-> call[w].role] # None
        BY <3>1, <3>2, AuthServiceAssumption DEF User
      <3> QED
        BY <1>1, <2>2, <3>1, <3>3
    <2> QED
      BY <1>4, <2>1, <2>2 DEF Update
  <1>5. CASE \E w \in Workers : Create(w)
    BY <1>1, <1>2, <1>3, <1>5 DEF StoredUsers
  <1>6. CASE \E w \in Workers : Update(w)
    BY <1>1, <1>4, <1>6 DEF StoredUsers
  <1>7. CASE \/ UNCHANGED vars
             \/ \E t \in Tokens : Expire(t)
             \/ \E w \in Workers : \/ Receive(w) \/ Cancel(w) \/ GetByEmail(w) \/ Store(w)
                                   \/ GenerateTokensFails(w)
                                   \/ GetToken(w) \/ GetByID(w) \/ Revoke(w)
                                   \/ RevokeAllByUser(w) \/ Respond(w)
    BY <1>2, <1>7 DEF vars, stores, Expire, Receive, Cancel, GetByEmail, Store, GetToken,
                      GenerateTokensFails, GetByID, Revoke, RevokeAllByUser, Respond
  <1> QED
    BY <1>5, <1>6, <1>7 DEF Next, Handle

LEMMA TokensLast ==
  ASSUME IInv, [Next]_vars, NEW t \in StoredTokens
  PROVE  /\ t \in StoredTokens' /\ tokens'[t].user = tokens[t].user
         /\ ~Valid(t) => ~Valid(t)'
  <1>1. /\ tokens \in [Tokens -> RefreshToken \cup {None}]
        /\ t \in Tokens /\ tokens[t] \in RefreshToken /\ tokens[t] # None
    BY DEF IInv, TypeOK, StoredTokens
  <1>2. ASSUME tokens'[t] \in RefreshToken, tokens'[t].user = tokens[t].user,
               tokens[t].revoked => tokens'[t].revoked,
               tokens[t].expired => tokens'[t].expired
        PROVE  /\ t \in StoredTokens' /\ tokens'[t].user = tokens[t].user
               /\ ~Valid(t) => ~Valid(t)'
    BY <1>1, <1>2, AuthServiceAssumption DEF StoredTokens, Valid
  <1>3. CASE tokens'[t] = tokens[t]
    BY <1>1, <1>2, <1>3
  <1>4. ASSUME NEW w \in Workers, Store(w) PROVE tokens'[t] = tokens[t]
    <2>1. ASSUME StoredTokens # Tokens PROVE NewToken \notin StoredTokens
      <3>1. \E x \in Tokens : x \notin StoredTokens
        BY <2>1 DEF StoredTokens
      <3> QED
        BY <3>1 DEF NewToken
    <2> QED
      BY <1>1, <1>4, <2>1 DEF Store
  <1>5. ASSUME tokens'[t] = [tokens[t] EXCEPT !.revoked = TRUE]
               \/ tokens'[t] = [tokens[t] EXCEPT !.expired = TRUE]
        PROVE  /\ t \in StoredTokens' /\ tokens'[t].user = tokens[t].user
               /\ ~Valid(t) => ~Valid(t)'
    <2>1. \A r \in RefreshToken :
            /\ [r EXCEPT !.revoked = TRUE] \in RefreshToken
            /\ [r EXCEPT !.expired = TRUE] \in RefreshToken
            /\ [r EXCEPT !.revoked = TRUE].user = r.user
            /\ [r EXCEPT !.expired = TRUE].user = r.user
            /\ [r EXCEPT !.revoked = TRUE].revoked /\ [r EXCEPT !.expired = TRUE].expired
            /\ [r EXCEPT !.revoked = TRUE].expired = r.expired
            /\ [r EXCEPT !.expired = TRUE].revoked = r.revoked
      BY DEF RefreshToken
    <2> QED
      BY <1>1, <1>2, <1>5, <2>1
  <1>6. ASSUME NEW w \in Workers, Revoke(w)
        PROVE  tokens'[t] = tokens[t] \/ tokens'[t] = [tokens[t] EXCEPT !.revoked = TRUE]
    BY <1>1, <1>6 DEF Revoke
  <1>7. ASSUME NEW w \in Workers, RevokeAllByUser(w)
        PROVE  tokens'[t] = tokens[t] \/ tokens'[t] = [tokens[t] EXCEPT !.revoked = TRUE]
    BY <1>1, <1>7 DEF RevokeAllByUser
  <1>8. ASSUME NEW x \in Tokens, Expire(x)
        PROVE  tokens'[t] = tokens[t] \/ tokens'[t] = [tokens[t] EXCEPT !.expired = TRUE]
    BY <1>1, <1>8 DEF Expire
  <1>9. ASSUME \/ UNCHANGED vars
               \/ \E w \in Workers : \/ Receive(w) \/ Cancel(w) \/ GetByEmail(w) \/ Create(w)
                                     \/ GetToken(w) \/ GetByID(w) \/ Update(w) \/ Respond(w)
                                     \/ GenerateTokensFails(w)
        PROVE  tokens'[t] = tokens[t]
    BY <1>9 DEF vars, stores, Receive, Cancel, GetByEmail, Create, GetToken, GetByID,
                Update, Respond, GenerateTokensFails
  <1>10. \/ tokens'[t] = tokens[t]
         \/ tokens'[t] = [tokens[t] EXCEPT !.revoked = TRUE]
         \/ tokens'[t] = [tokens[t] EXCEPT !.expired = TRUE]
    BY <1>4, <1>6, <1>7, <1>8, <1>9 DEF Next, Handle
  <1> QED
    BY <1>3, <1>5, <1>10

THEOREM IdentitiesForGood == Spec => IdentitiesLast
  <1>1. IInv /\ [Next]_vars =>
          [/\ \A u \in StoredUsers : u \in StoredUsers' /\ users'[u].email = users[u].email
           /\ \A t \in StoredTokens :
                /\ t \in StoredTokens' /\ tokens'[t].user = tokens[t].user
                /\ ~Valid(t) => ~Valid(t)']_vars
    BY UsersLast, TokensLast
  <1> QED
    BY <1>1, IInvHolds, PTL DEF Spec, IdentitiesLast
=============================================================================
