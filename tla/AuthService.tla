---------------------------- MODULE AuthService ----------------------------
(***************************************************************************)
(* The user service: the gRPC handler (internal/handler), AuthService      *)
(* (internal/service) and the in-memory repositories of users and refresh  *)
(* tokens (internal/repository).                                           *)
(*                                                                         *)
(* As in the order service, calls run in goroutines of their own and meet  *)
(* only in the repositories' methods, each a critical section that begins  *)
(* with a test of the call's context.  One action is one such method and   *)
(* the local code up to the next.  The ids of users and tokens are fresh   *)
(* uuids: they are drawn where they first become visible.                  *)
(*                                                                         *)
(* The calls that present a refresh token may present any that is stored:  *)
(* that is the service's interface, and how its tests use it, although no  *)
(* answer of the service contains a refresh token.                         *)
(*                                                                         *)
(* Nothing in the service sets IsActive to FALSE, so the tests of it never *)
(* fail and are left out.  Hashing a password and signing an access token  *)
(* can fail; what they compute is left out.                                *)
(***************************************************************************)
EXTENDS FiniteSets

CONSTANTS
  Workers,  \* calls that can be in progress at the same time
  Emails,   \* the addresses people register with
  UserIds,  \* the uuids that users can be given: a bound on their number
  Tokens,   \* the uuids that refresh tokens can be given: a bound, too
  NewRoles, \* the roles an UpdateRole asks for; the service takes any
  RoleNames, \* the strings that name a role in the claims of a token
  None      \* what a map holds for an absent key, and a call before it knows

Roles == {"UNSPECIFIED", "USER", "PREMIUM", "ADMIN"}

User == [email : Emails, role : Roles]

RefreshToken == [user : UserIds, revoked : BOOLEAN, expired : BOOLEAN]

ASSUME AuthServiceAssumption ==
  /\ NewRoles \subseteq Roles
  /\ None \notin User \cup RefreshToken
  /\ None \notin Emails \cup UserIds \cup Tokens

VARIABLES
  users,      \* UserRepository.users: user id -> user
  emailIndex, \* UserRepository.emailIndex: email -> user id
  tokens,     \* TokenRepository.tokens: token -> refresh token
  userTokens, \* TokenRepository.userTokens: user id -> its tokens
  pc,         \* the next step of each call
  call,       \* what each call was asked, and what it has learned
  done,       \* the calls in progress whose context is cancelled or too late
  loggedOut   \* history: the tokens that a Logout or LogoutAll has ended

stores == <<users, emailIndex, tokens, userTokens>>
vars == <<users, emailIndex, tokens, userTokens, pc, call, done, loggedOut>>

-----------------------------------------------------------------------------
Codes == {"OK", "InvalidArgument", "NotFound", "AlreadyExists",
          "Unauthenticated", "PermissionDenied", "Internal"}

Ops == {"register", "login", "refresh", "logout", "logoutAll", "getUser", "updateRole"}

Steps == {"idle", "byEmail", "create", "store", "token", "byID", "revoke",
          "revokeAll", "update", "reply"}

(* A call.  "id" is the user it is about, once it knows, "token" the       *)
(* refresh token it presents, "newToken" the one it has stored, and "dead" *)
(* says that its token was logged out when the call started.               *)
Call ==
  [op : Ops, email : Emails \cup {None}, id : UserIds \cup {None}, role : Roles,
   token : Tokens \cup {None}, newToken : Tokens \cup {None},
   dead : BOOLEAN, code : Codes]

NewCall(op) ==
  [op |-> op, email |-> None, id |-> None,
   role |-> "USER", token |-> None, newToken |-> None,
   dead |-> FALSE, code |-> "OK"]

StoredUsers == {u \in UserIds : users[u] # None}
StoredTokens == {t \in Tokens : tokens[t] # None}

TypeOK ==
  /\ users \in [UserIds -> User \cup {None}]
  /\ emailIndex \in [Emails -> UserIds \cup {None}]
  /\ tokens \in [Tokens -> RefreshToken \cup {None}]
  /\ userTokens \in [UserIds -> SUBSET Tokens]
  /\ pc \in [Workers -> Steps]
  /\ call \in [Workers -> Call]
  /\ done \in SUBSET Workers
  /\ loggedOut \in SUBSET Tokens

(* A mutant: the error itself is returned.                                 *)
RawError(err) == IF err = "none" THEN "OK" ELSE err

(* What the handler makes of the service's errors: it compares them one by *)
(* one, so an error that wraps another one is none of those it knows.      *)
GRPCCode(err) ==
  CASE err = "none"                                    -> "OK"
    [] err \in {"ErrInvalidEmail", "ErrInvalidPassword"} -> "InvalidArgument"
    [] err = "ErrUserNotFound"                         -> "NotFound"
    [] err = "ErrUserAlreadyExists"                    -> "AlreadyExists"
    [] err \in {"ErrInvalidCredentials", "ErrTokenInvalid"} -> "Unauthenticated"
    [] err \in {"ErrUnauthorized", "ErrPermissionDenied"} -> "PermissionDenied"
    [] OTHER                                           -> "Internal"

(* Call w goes on at step s, knowing c; or has its answer.                 *)
Goto(w, s, c) ==
  /\ pc' = [pc EXCEPT ![w] = s]
  /\ call' = [call EXCEPT ![w] = c]
  /\ done' = IF s = "reply" THEN done \ {w} ELSE done

Finish(w, c, err) == Goto(w, "reply", [c EXCEPT !.code = GRPCCode(err)])

-----------------------------------------------------------------------------
(* The calls, and what they check before they touch a repository.          *)
Register(w) ==
  /\ pc[w] = "idle"
  /\ \/ \E err \in {"ErrInvalidEmail", "ErrInvalidPassword"} :
          Finish(w, NewCall("register"), err)
     \/ \E e \in Emails : Goto(w, "byEmail", [NewCall("register") EXCEPT !.email = e])

Login(w) ==
  /\ pc[w] = "idle"
  /\ \E e \in Emails : Goto(w, "byEmail", [NewCall("login") EXCEPT !.email = e])

(* getRefreshToken: the token is the request's or the cookie's, and there  *)
(* has to be one.                                                          *)
Presents(w, op, step) ==
  /\ pc[w] = "idle"
  /\ \/ Goto(w, "reply", [NewCall(op) EXCEPT !.code = "Unauthenticated"])
     \/ \E t \in Tokens :
          Goto(w, step, [NewCall(op) EXCEPT !.token = t, !.dead = t \in loggedOut])

RefreshTokenCall(w) == Presents(w, "refresh", "token")
Logout(w) == Presents(w, "logout", "revoke")

(* LogoutAll is a method of the service that no handler calls.             *)
LogoutAll(w) ==
  /\ pc[w] = "idle"
  /\ \E u \in UserIds : Goto(w, "revokeAll", [NewCall("logoutAll") EXCEPT !.id = u])

GetUser(w) ==
  /\ pc[w] = "idle"
  /\ \E u \in UserIds : Goto(w, "byID", [NewCall("getUser") EXCEPT !.id = u])

(* stringToUserRole, which reads the names of two vocabularies.            *)
UserRoleOf(name) ==
  CASE name \in {"ADMIN", "USER_ROLE_ADMIN"}     -> "ADMIN"
    [] name \in {"USER", "USER_ROLE_USER"}       -> "USER"
    [] name \in {"PREMIUM", "USER_ROLE_PREMIUM"} -> "PREMIUM"
    [] OTHER                                     -> "UNSPECIFIED"

(* UpdateRole needs claims, and the claims of an admin.                    *)
UpdateRole(w) ==
  /\ pc[w] = "idle"
  /\ \/ Goto(w, "reply", [NewCall("updateRole") EXCEPT !.code = "Unauthenticated"])
     \/ \E name \in RoleNames :
          /\ UserRoleOf(name) # "ADMIN"
          /\ Goto(w, "reply", [NewCall("updateRole") EXCEPT !.code = "PermissionDenied"])
     \/ \E name \in RoleNames, u \in UserIds, r \in NewRoles :
          /\ UserRoleOf(name) = "ADMIN"
          /\ Goto(w, "byID", [NewCall("updateRole") EXCEPT !.id = u, !.role = r])

Receive(w) ==
  /\ \/ Register(w) \/ Login(w) \/ RefreshTokenCall(w) \/ Logout(w)
     \/ LogoutAll(w) \/ GetUser(w) \/ UpdateRole(w)
  /\ UNCHANGED <<stores, loggedOut>>

-----------------------------------------------------------------------------
(* A repository's method returns the context's error, which the service    *)
(* wraps: an error the handler does not know.                              *)
ContextDone(w, step) ==
  /\ pc[w] = step
  /\ w \in done
  /\ Finish(w, call[w], "context")

(* GetByEmail, and after it the rest of the check for an existing user     *)
(* (Register) or of the password (Login).  A password can be too long to   *)
(* be hashed.                                                              *)
GetByEmail(w) ==
  /\ \/ ContextDone(w, "byEmail")
     \/ /\ pc[w] = "byEmail" /\ w \notin done
        /\ LET c == call[w]
               u == emailIndex[c.email]
           IN \/ /\ c.op = "register" /\ u # None
                 /\ Finish(w, c, "ErrUserAlreadyExists")
              \/ /\ c.op = "register" /\ u = None
                 /\ Goto(w, "create", c) \/ Finish(w, c, "hash")
              \/ /\ c.op = "login"
                 /\ Finish(w, c, "ErrInvalidCredentials")
              \/ /\ c.op = "login" /\ u # None
                 /\ Goto(w, "store", [c EXCEPT !.id = u])
  /\ UNCHANGED <<stores, loggedOut>>

NewUserId == CHOOSE u \in UserIds : u \notin StoredUsers

(* A mutant: Create trusts the check Register has made.                    *)
CreateUnchecked(w) ==
  /\ pc[w] = "create"
  /\ w \notin done /\ StoredUsers # UserIds
  /\ users' = [users EXCEPT ![NewUserId] = [email |-> call[w].email, role |-> "USER"]]
  /\ emailIndex' = [emailIndex EXCEPT ![call[w].email] = NewUserId]
  /\ Goto(w, "store", [call[w] EXCEPT !.id = NewUserId])
  /\ UNCHANGED <<tokens, userTokens, loggedOut>>

(* Create: both maps in one critical section, after a check of its own.    *)
Create(w) ==
  /\ \/ ContextDone(w, "create") /\ UNCHANGED <<users, emailIndex>>
     \/ /\ pc[w] = "create" /\ w \notin done
        /\ emailIndex[call[w].email] # None
        /\ Finish(w, call[w], "ErrUserAlreadyExists")
        /\ UNCHANGED <<users, emailIndex>>
     \/ /\ pc[w] = "create" /\ w \notin done
        /\ emailIndex[call[w].email] = None
        /\ StoredUsers # UserIds
        /\ users' = [users EXCEPT ![NewUserId] =
             [email |-> call[w].email, role |-> "USER"]]
        /\ emailIndex' = [emailIndex EXCEPT ![call[w].email] = NewUserId]
        /\ Goto(w, "store", [call[w] EXCEPT !.id = NewUserId])
  /\ UNCHANGED <<tokens, userTokens, loggedOut>>

(* GenerateTokens: signing the access token can fail, whatever has been    *)
(* created or revoked before.                                              *)
GenerateTokensFails(w) ==
  /\ pc[w] = "store"
  /\ Finish(w, call[w], "sign")
  /\ UNCHANGED <<stores, loggedOut>>

NewToken == CHOOSE t \in Tokens : t \notin StoredTokens

(* A mutant: the index of a user's tokens keeps only the newest.           *)
Newest(u, t) == [userTokens EXCEPT ![u] = {t}]
Indexed(u, t) == [userTokens EXCEPT ![u] = @ \cup {t}]

(* A failed Store is Login's and RefreshToken's error; Register only logs  *)
(* it.  The mutant: all of them do.                                        *)
AlwaysLogged(op) == "none"
StoreFailed(op) == IF op = "register" THEN "none" ELSE "context"

(* Store, with the token GenerateTokens has drawn just before it.          *)
Store(w) ==
  /\ \/ /\ pc[w] = "store" /\ w \in done
        /\ Finish(w, call[w], StoreFailed(call[w].op))
        /\ UNCHANGED <<tokens, userTokens>>
     \/ /\ pc[w] = "store" /\ w \notin done
        /\ StoredTokens # Tokens
        /\ tokens' = [tokens EXCEPT ![NewToken] =
             [user |-> call[w].id, revoked |-> FALSE, expired |-> FALSE]]
        /\ userTokens' = Indexed(call[w].id, NewToken)
        /\ Finish(w, [call[w] EXCEPT !.newToken = NewToken], "none")
  /\ UNCHANGED <<users, emailIndex, loggedOut>>

-----------------------------------------------------------------------------
Valid(t) == t \in StoredTokens /\ ~tokens[t].revoked /\ ~tokens[t].expired

(* Get, the first step of RefreshToken.                                    *)
GetToken(w) ==
  /\ \/ ContextDone(w, "token")
     \/ /\ pc[w] = "token" /\ w \notin done
        /\ ~Valid(call[w].token)
        /\ Finish(w, call[w], "ErrTokenInvalid")
     \/ /\ pc[w] = "token" /\ w \notin done
        /\ Valid(call[w].token)
        /\ Goto(w, "byID", [call[w] EXCEPT !.id = tokens[call[w].token].user])
  /\ UNCHANGED <<stores, loggedOut>>

(* GetByID hands out a copy.  RefreshToken calls every error of it "user   *)
(* not found"; UpdateRole changes the copy's role.                         *)
GetByID(w) ==
  /\ pc[w] = "byID"
  /\ LET c == call[w]
         u == users[c.id]
     IN \/ /\ w \in done
           /\ Finish(w, c, IF c.op = "refresh" THEN "ErrUserNotFound" ELSE "context")
        \/ /\ w \notin done /\ u = None
           /\ Finish(w, c, "ErrUserNotFound")
        \/ /\ w \notin done /\ u # None
           /\ \/ c.op = "refresh" /\ Goto(w, "revoke", c)
              \/ c.op = "getUser" /\ Finish(w, c, "none")
              \/ c.op = "updateRole" /\ Goto(w, "update", [c EXCEPT !.email = u.email])
  /\ UNCHANGED <<stores, loggedOut>>

(* A mutant: the old token of a RefreshToken is left to be revoked later.  *)
RevokeAsync(w) ==
  /\ pc[w] = "revoke" /\ call[w].op = "refresh"
  /\ Goto(w, "store", call[w])
  /\ UNCHANGED <<stores, loggedOut>>

(* Revoke, for RefreshToken, which goes on whatever it returns, and for    *)
(* Logout, which is content when there is no such token.                   *)
Revoke(w) ==
  /\ pc[w] = "revoke"
  /\ LET t == call[w].token IN
     /\ tokens' = IF w \notin done /\ t \in StoredTokens
                    THEN [tokens EXCEPT ![t].revoked = TRUE]
                    ELSE tokens
     /\ \/ call[w].op = "refresh" /\ Goto(w, "store", call[w])
        \/ /\ call[w].op = "logout"
           /\ Finish(w, call[w], IF w \in done THEN "context" ELSE "none")
     /\ loggedOut' = IF call[w].op = "logout" /\ w \notin done /\ t \in StoredTokens
                       THEN loggedOut \cup {t}
                       ELSE loggedOut
  /\ UNCHANGED <<users, emailIndex, userTokens>>

(* RevokeAllByUser finds the user's tokens in the index.                   *)
RevokeAllByUser(w) ==
  /\ \/ ContextDone(w, "revokeAll") /\ UNCHANGED <<tokens, loggedOut>>
     \/ /\ pc[w] = "revokeAll" /\ w \notin done
        /\ tokens' = [t \in Tokens |->
             IF t \in StoredTokens \cap userTokens[call[w].id]
               THEN [tokens[t] EXCEPT !.revoked = TRUE]
               ELSE tokens[t]]
        /\ loggedOut' = loggedOut \cup {t \in StoredTokens : tokens[t].user = call[w].id}
        /\ Finish(w, call[w], "none")
  /\ UNCHANGED <<users, emailIndex, userTokens>>

(* Update writes the whole user back: the copy read earlier, with the new  *)
(* role.  No user is ever deleted, so it is there.                         *)
Update(w) ==
  /\ \/ ContextDone(w, "update") /\ UNCHANGED users
     \/ /\ pc[w] = "update" /\ w \notin done
        /\ call[w].id \in StoredUsers
        /\ users' = [users EXCEPT ![call[w].id] =
             [email |-> call[w].email, role |-> call[w].role]]
        /\ Finish(w, call[w], "none")
  /\ UNCHANGED <<emailIndex, tokens, userTokens, loggedOut>>

-----------------------------------------------------------------------------
(* The client goes away, or the call's deadline passes; once done, a       *)
(* context stays done.                                                     *)
Cancel(w) ==
  /\ pc[w] \notin {"idle", "reply"}
  /\ w \notin done
  /\ done' = done \cup {w}
  /\ UNCHANGED <<stores, pc, call, loggedOut>>

Respond(w) ==
  /\ pc[w] = "reply"
  /\ Goto(w, "idle", NewCall("getUser"))
  /\ UNCHANGED <<stores, loggedOut>>

(* A refresh token's ExpiresAt passes.                                     *)
Expire(t) ==
  /\ Valid(t)
  /\ tokens' = [tokens EXCEPT ![t].expired = TRUE]
  /\ UNCHANGED <<users, emailIndex, userTokens, pc, call, done, loggedOut>>

-----------------------------------------------------------------------------
Init ==
  /\ users = [u \in UserIds |-> None]
  /\ emailIndex = [e \in Emails |-> None]
  /\ tokens = [t \in Tokens |-> None]
  /\ userTokens = [u \in UserIds |-> {}]
  /\ pc = [w \in Workers |-> "idle"]
  /\ call = [w \in Workers |-> NewCall("getUser")]
  /\ done = {}
  /\ loggedOut = {}

Handle(w) ==
  \/ GetByEmail(w) \/ Create(w) \/ GenerateTokensFails(w) \/ Store(w)
  \/ GetToken(w) \/ GetByID(w) \/ Revoke(w) \/ RevokeAllByUser(w) \/ Update(w) \/ Respond(w)

Next ==
  \/ \E w \in Workers : Receive(w) \/ Handle(w) \/ Cancel(w)
  \/ \E t \in Tokens : Expire(t)

Spec == Init /\ [][Next]_vars

-----------------------------------------------------------------------------
(* Register checks for the email and creates the user later, and UpdateRole*)
(* writes back a user it has read before: still an email belongs to one    *)
(* user, and the index and the users agree on which.                       *)
EmailsIdentifyUsers ==
  /\ \A e \in Emails :
       emailIndex[e] # None =>
         emailIndex[e] \in StoredUsers /\ users[emailIndex[e]].email = e
  /\ \A u \in StoredUsers : emailIndex[users[u].email] = u

Answered(w, op) == pc[w] = "reply" /\ call[w].op = op

(* The answer of a call agrees with what it left behind.  A Register that  *)
(* succeeds has created its user; one that answers that its arguments are  *)
(* bad or its email is taken has created nobody, and the email is taken;   *)
(* any other failure has created nobody or the whole user, for signing or  *)
(* the context can fail on either side of Create.  A Login or RefreshToken *)
(* that succeeds has stored a token, for its own user.  No call that fails *)
(* has stored one.                                                         *)
AnswersMatchStores ==
  \A w \in Workers :
    LET c == call[w] IN
    /\ Answered(w, "register") =>
         /\ c.code = "OK" => c.id # None
         /\ c.id # None => c.id \in StoredUsers /\ users[c.id].email = c.email
         /\ c.code \in {"InvalidArgument", "AlreadyExists"} => c.id = None
         /\ c.code = "AlreadyExists" => \E u \in StoredUsers : users[u].email = c.email
    /\ (Answered(w, "login") \/ Answered(w, "refresh")) /\ c.code = "OK" =>
         c.newToken \in StoredTokens /\ tokens[c.newToken].user = c.id
    /\ pc[w] = "reply" /\ c.code # "OK" => c.newToken = None

(* A RefreshToken that answers OK has taken back the token it was given,   *)
(* although the service goes on when Revoke fails: the context that made   *)
(* Revoke fail makes Store fail as well.                                   *)
RefreshRevokesOld ==
  \A w \in Workers :
    Answered(w, "refresh") /\ call[w].code = "OK" =>
      /\ tokens[call[w].token].revoked
      /\ tokens[call[w].newToken].user = tokens[call[w].token].user
      /\ call[w].newToken # call[w].token

(* Once a Logout or a LogoutAll has ended a token, it is never valid again *)
(* -- LogoutAll finds every token of its user, whatever is stored at the   *)
(* same time -- and no RefreshToken that starts later succeeds with it.    *)
NoRefreshAfterLogout ==
  /\ \A t \in loggedOut : ~Valid(t)
  /\ \A w \in Workers : Answered(w, "refresh") /\ call[w].dead => call[w].code # "OK"
=============================================================================
