---------------------------- MODULE TokenManager ----------------------------
(***************************************************************************)
(* The order client: its commands, each in a process of its own, the token *)
(* manager of each process, and the file of tokens they share.             *)
(*                                                                         *)
(* A process builds its manager from the file, runs one command and ends.  *)
(* One goroutine uses the manager, so that its lock matters only where it  *)
(* is taken twice.  Processes meet in the file: os.WriteFile opens and     *)
(* truncates, then writes, and os.Remove unlinks a file that another may   *)
(* have open.  A process can be killed anywhere.                           *)
(*                                                                         *)
(* RefreshToken is a method of the manager that no command calls; it is    *)
(* here as a command "refresh".  No command stores a refresh token, so     *)
(* that one can only come from a file the client finds.                    *)
(***************************************************************************)
EXTENDS Naturals

CONSTANTS
  Procs,  \* processes of the client that run at the same time
  Tokens, \* access tokens the user service issues
  Absent, \* no file
  Broken, \* an empty file, or one that is no JSON
  None

Stored == [access : Tokens \cup {None}, refresh : BOOLEAN]

NoTokens == [access |-> None, refresh |-> FALSE]

ASSUME TokenAssumption ==
  /\ None \notin Tokens \cup Procs
  /\ "none" \notin Tokens /\ "unclear" \notin Tokens
  /\ Absent \notin Stored /\ Broken \notin Stored /\ Absent # Broken

VARIABLES
  file,    \* what the path names
  linked,  \* processes that have opened the file the path still names
  pc,      \* the next step of each process
  cmd,     \* its command
  mem,     \* its manager's fields
  out,     \* what it tells
  expired, \* tokens past the expiresAt the client has noted for them
  session, \* what the file was left with: a token, "none", or "unclear"
  holder   \* the process that has had the file to itself since it opened it

vars == <<file, linked, pc, cmd, mem, out, expired, session, holder>>

Commands == {"register", "login", "logout", "create-order", "order-status", "refresh"}

Steps == {"idle", "config", "prompt", "new", "auth", "open", "write", "logout", "remove",
          "check", "order", "refresh", "stuck", "exit"}

TypeOK ==
  /\ file \in Stored \cup {Absent, Broken}
  /\ linked \in SUBSET Procs
  /\ pc \in [Procs -> Steps]
  /\ cmd \in [Procs -> Commands \cup {"none"}]
  /\ mem \in [Procs -> Stored]
  /\ out \in [Procs -> {"none", "ok", "error", "panic", "not authenticated"}]
  /\ expired \in SUBSET Tokens
  /\ session \in Tokens \cup {"none", "unclear"}
  /\ holder \in Procs \cup {None}

Goto(p, s) == pc' = [pc EXCEPT ![p] = s] /\ UNCHANGED out

End(p, o) ==
  /\ pc' = [pc EXCEPT ![p] = "exit"]
  /\ out' = [out EXCEPT ![p] = o]

disk == <<file, linked, session, holder>>

-----------------------------------------------------------------------------
Start(p) ==
  /\ pc[p] = "idle"
  /\ \E c \in Commands : cmd' = [cmd EXCEPT ![p] = c]
  /\ Goto(p, "config")
  /\ UNCHANGED <<disk, mem, expired>>

AuthCommands == {"register", "login"}
OrderCommands == {"create-order", "order-status"}

(* A command for orders without its flags ends here.  An error of Load     *)
(* ends it as well; the other commands ignore the error, and use a nil     *)
(* configuration.                                                          *)
LoadConfig(p) ==
  /\ pc[p] = "config"
  /\ \/ cmd[p] \in OrderCommands /\ End(p, "error")
     \/ cmd[p] \notin OrderCommands /\ End(p, "panic")
     \/ Goto(p, IF cmd[p] \in AuthCommands THEN "prompt" ELSE "new")
  /\ UNCHANGED <<disk, cmd, mem, expired>>

(* The missing fields are read from the terminal; at its end the line is   *)
(* empty, and cutting off its last byte panics.                            *)
Prompt(p) ==
  /\ pc[p] = "prompt"
  /\ Goto(p, "new") \/ End(p, "panic")
  /\ UNCHANGED <<disk, cmd, mem, expired>>

(* A mutant: what is in the file is taken for tokens.                      *)
LoadedRaw == IF file = Absent THEN NoTokens ELSE file

(* What loadFromDisk leaves in the manager; its errors are ignored.        *)
Loaded == IF file \in Stored THEN file ELSE NoTokens

AfterNew(c) ==
  CASE c \in AuthCommands -> "auth"
    [] c \in OrderCommands -> "check"
    [] OTHER -> c

NewTokenManager(p) ==
  /\ pc[p] = "new"
  /\ \/ End(p, "error") /\ UNCHANGED mem
     \/ mem' = [mem EXCEPT ![p] = Loaded] /\ Goto(p, AfterNew(cmd[p]))
  /\ UNCHANGED <<disk, cmd, expired>>

-----------------------------------------------------------------------------
(* The tokens anybody still has; the service issues others.                *)
InUse ==
  {mem[p].access : p \in Procs} \cup {session} \cup
  (IF file \in Stored THEN {file.access} ELSE {})

(* Login and Register: the RPC, and the fields when it succeeds.  The      *)
(* refresh token in the answer is dropped.                                 *)
Authenticate(p) ==
  /\ pc[p] = "auth"
  /\ \/ End(p, "error") /\ UNCHANGED <<mem, expired>>
     \/ \E t \in Tokens \ InUse :
          /\ mem' = [mem EXCEPT ![p] = [access |-> t, refresh |-> FALSE]]
          /\ expired' = expired \ {t}
          /\ Goto(p, "open")
  /\ UNCHANGED <<disk, cmd>>

(* saveToDisk opens the file, which empties or creates it.  That it failed *)
(* is not told.                                                            *)
OpenFile(p) ==
  /\ pc[p] = "open"
  /\ \/ End(p, "ok") /\ UNCHANGED disk
     \/ /\ file' = Broken
        /\ linked' = linked \cup {p}
        /\ session' = "unclear" /\ holder' = p
        /\ Goto(p, "write")
  /\ UNCHANGED <<cmd, mem, expired>>

(* A mutant: the fields are saved before they are set.                     *)
SavesOld(p) == NoTokens

(* What saveToDisk writes.                                                 *)
Saves(p) == mem[p]

(* The write: all of it, or not; over what another has written since the   *)
(* file was emptied, which may stick out behind; or into a file that the   *)
(* path does not name any more.                                            *)
WriteFile(p) ==
  /\ pc[p] = "write"
  /\ End(p, "ok")
  /\ \/ /\ p \in linked
        /\ file' \in {Saves(p)} \cup (IF file \in Stored THEN {Broken} ELSE {})
        /\ session' = IF holder = p THEN mem[p].access ELSE "unclear"
     \/ /\ p \in linked
        /\ file' = Broken
        /\ session' = "unclear"
     \/ p \notin linked /\ UNCHANGED <<file, session>>
  /\ holder' = IF p \in linked THEN None ELSE holder
  /\ linked' = linked \ {p}
  /\ UNCHANGED <<cmd, mem, expired>>

(* Logout: the RPC, when there is a refresh token, whatever it answers,    *)
(* and the fields.                                                         *)
Logout(p) ==
  /\ pc[p] = "logout"
  /\ mem' = [mem EXCEPT ![p] = NoTokens]
  /\ Goto(p, "remove")
  /\ UNCHANGED <<disk, cmd, expired>>

(* os.Remove, whose error is dropped.                                      *)
RemoveFile(p) ==
  /\ pc[p] = "remove"
  /\ End(p, "ok")
  /\ \/ UNCHANGED disk
     \/ /\ file' = Absent
        /\ linked' = {}
        /\ session' = "none" /\ holder' = None
  /\ UNCHANGED <<cmd, mem, expired>>

HasToken(p) == mem[p].access # None

(* GetAccessToken, None for its error.                                     *)
GetAccessToken(p) == IF mem[p].access \in expired THEN None ELSE mem[p].access

(* A command for orders asks whether there is a token, and its client then *)
(* for the token itself.                                                   *)
CheckToken(p) ==
  /\ pc[p] = "check"
  /\ \/ ~HasToken(p) /\ End(p, "not authenticated")
     \/ HasToken(p) /\ GetAccessToken(p) = None /\ End(p, "error")
     \/ GetAccessToken(p) # None /\ Goto(p, "order")
  /\ UNCHANGED <<disk, cmd, mem, expired>>

(* The RPC of the order service, which a signal cancels.                   *)
OrderRPC(p) ==
  /\ pc[p] = "order"
  /\ \E o \in {"ok", "error"} : End(p, o)
  /\ UNCHANGED <<disk, cmd, mem, expired>>

(* RefreshToken: when its RPC succeeds it calls saveToDisk, which waits    *)
(* for the lock that RefreshToken holds.                                   *)
RefreshToken(p) ==
  /\ pc[p] = "refresh"
  /\ \/ End(p, "error") /\ UNCHANGED <<mem, expired>>
     \/ /\ mem[p].refresh
        /\ \E t \in Tokens \ InUse :
             /\ mem' = [mem EXCEPT ![p] = [access |-> t, refresh |-> TRUE]]
             /\ expired' = expired \ {t}
             /\ Goto(p, "stuck")
  /\ UNCHANGED <<disk, cmd>>

Exit(p) ==
  /\ pc[p] = "exit"
  /\ pc' = [pc EXCEPT ![p] = "idle"]
  /\ out' = [out EXCEPT ![p] = "none"]
  /\ cmd' = [cmd EXCEPT ![p] = "none"]
  /\ mem' = [mem EXCEPT ![p] = NoTokens]
  /\ UNCHANGED <<disk, expired>>

(* SIGKILL, or SIGINT before a command for orders handles it.              *)
Kill(p) ==
  /\ pc[p] \notin {"idle", "exit"}
  /\ pc' = [pc EXCEPT ![p] = "idle"]
  /\ cmd' = [cmd EXCEPT ![p] = "none"]
  /\ mem' = [mem EXCEPT ![p] = NoTokens]
  /\ linked' = linked \ {p}
  /\ holder' = IF holder = p THEN None ELSE holder
  /\ UNCHANGED <<file, session, out, expired>>

Expire(t) ==
  /\ t \in InUse \ expired
  /\ expired' = expired \cup {t}
  /\ UNCHANGED <<disk, pc, cmd, mem, out>>

Init ==
  /\ file \in Stored \cup {Absent, Broken}
  /\ linked = {}
  /\ pc = [p \in Procs |-> "idle"]
  /\ cmd = [p \in Procs |-> "none"]
  /\ mem = [p \in Procs |-> NoTokens]
  /\ out = [p \in Procs |-> "none"]
  /\ expired = {}
  /\ session = "unclear" /\ holder = None

Run(p) ==
  \/ LoadConfig(p) \/ Prompt(p) \/ NewTokenManager(p) \/ Authenticate(p)
  \/ OpenFile(p) \/ WriteFile(p) \/ Logout(p) \/ RemoveFile(p)
  \/ CheckToken(p) \/ OrderRPC(p) \/ RefreshToken(p) \/ Exit(p)

Next ==
  \/ \E p \in Procs : Start(p) \/ Run(p) \/ Kill(p)
  \/ \E t \in Tokens : Expire(t)

Spec == Init /\ [][Next]_vars

-----------------------------------------------------------------------------
(* A login or registration that had the file to itself while it saved      *)
(* leaves its token there, and a logout that unlinks the file leaves       *)
(* nothing, until a command opens or unlinks the file again.  A command    *)
(* that could not, whose error the code drops, or that died before it did, *)
(* changes nothing: after such a logout the session is still there, all of *)
(* it.  Nothing is said of the time from an open to a write by a process   *)
(* that was alone, or to an unlink: one that dies there loses both the old *)
(* session and its own.                                                    *)
SessionOnDisk ==
  /\ session \in Tokens => file = [access |-> session, refresh |-> FALSE]
  /\ session = "none" => file = Absent
=============================================================================
