------------------------- MODULE TokenManagerProofs -------------------------
(***************************************************************************)
(* What is proved of the order client's token file, for any number of      *)
(* processes.  A process that has had the file to itself since it opened   *)
(* it finds it as it left it, empty, and what it writes is the token of    *)
(* its login.                                                              *)
(***************************************************************************)
EXTENDS TokenManager, TLAPS

(* The process that has the file to itself is about to write it.           *)
HolderWrites ==
  holder # None => pc[holder] = "write" /\ holder \in linked /\ file = Broken

(* What is about to be saved comes from a login or a registration.         *)
SavesLogin ==
  \A p \in Procs : pc[p] \in {"open", "write"} =>
    \E t \in Tokens : mem[p] = [access |-> t, refresh |-> FALSE]

(* A process that runs has a command.                                      *)
CommandRuns == \A p \in Procs : pc[p] # "idle" => cmd[p] \in Commands

(* The inductive invariant.                                                *)
IInv == TypeOK /\ HolderWrites /\ SavesLogin /\ CommandRuns /\ SessionOnDisk

-----------------------------------------------------------------------------
LEMMA InitIInv == Init => IInv
  <1> SUFFICES ASSUME Init PROVE IInv
    OBVIOUS
  <1>1. NoTokens \in Stored
    BY DEF NoTokens, Stored
  <1>2. TypeOK
    BY <1>1 DEF Init, TypeOK, Steps
  <1>3. HolderWrites /\ SavesLogin /\ CommandRuns /\ SessionOnDisk
    BY TokenAssumption
    DEF Init, HolderWrites, SavesLogin, CommandRuns, SessionOnDisk
  <1> QED
    BY <1>2, <1>3 DEF IInv

(* A process goes on to a step that saves nothing, and leaves the disk     *)
(* alone.                                                                  *)
LEMMA LocalStepKeeps ==
  ASSUME IInv, NEW p \in Procs, UNCHANGED disk, pc[p] # "write",
         NEW s \in Steps, pc' = [pc EXCEPT ![p] = s],
         NEW c \in Commands \cup {"none"}, cmd' = [cmd EXCEPT ![p] = c],
         s # "idle" => c \in Commands,
         NEW m \in Stored, mem' = [mem EXCEPT ![p] = m],
         out' \in [Procs -> {"none", "ok", "error", "panic", "not authenticated"}],
         expired' \in SUBSET Tokens,
         s # "write",
         s = "open" => \E t \in Tokens : m = [access |-> t, refresh |-> FALSE]
  PROVE  IInv'
  <1> USE DEF IInv, disk
  <1>1. TypeOK'
    BY DEF TypeOK
  <1>2. HolderWrites'
    BY DEF HolderWrites, TypeOK
  <1>3. SavesLogin'
    BY DEF SavesLogin, TypeOK
  <1>4. CommandRuns'
    BY DEF CommandRuns, TypeOK
  <1>5. SessionOnDisk'
    BY DEF SessionOnDisk
  <1> QED
    BY <1>1, <1>2, <1>3, <1>4, <1>5

(* The same, when its memory and its command stay.                         *)
LEMMA QuietStepKeeps ==
  ASSUME IInv, NEW p \in Procs, UNCHANGED <<disk, cmd, mem>>,
         pc[p] \notin {"idle", "write"},
         NEW s \in Steps \ {"open", "write"}, pc' = [pc EXCEPT ![p] = s],
         out' \in [Procs -> {"none", "ok", "error", "panic", "not authenticated"}],
         expired' \in SUBSET Tokens
  PROVE  IInv'
  <1>1. mem' = [mem EXCEPT ![p] = mem[p]] /\ mem[p] \in Stored
    BY DEF IInv, TypeOK
  <1>2. cmd' = [cmd EXCEPT ![p] = cmd[p]] /\ cmd[p] \in Commands
    BY DEF IInv, TypeOK, CommandRuns
  <1> QED
    BY <1>1, <1>2, LocalStepKeeps

(* A command ends without touching the disk.                               *)
LEMMA EndKeeps ==
  ASSUME IInv, NEW p \in Procs, NEW o \in {"ok", "error", "panic", "not authenticated"},
         End(p, o), pc[p] \notin {"idle", "write"}, UNCHANGED <<disk, cmd, mem, expired>>
  PROVE  IInv'
  <1>1. /\ out' \in [Procs -> {"none", "ok", "error", "panic", "not authenticated"}]
        /\ expired' \in SUBSET Tokens
    BY DEF End, IInv, TypeOK
  <1>2. pc' = [pc EXCEPT ![p] = "exit"]
    BY DEF End
  <1> QED
    BY <1>1, <1>2, QuietStepKeeps DEF Steps

(* The manager takes m, and the process goes on to the step s.             *)
LEMMA MemStepKeeps ==
  ASSUME IInv, NEW p \in Procs, UNCHANGED <<disk, cmd>>,
         pc[p] \notin {"idle", "write"},
         NEW s \in Steps \ {"write"}, Goto(p, s),
         NEW m \in Stored, mem' = [mem EXCEPT ![p] = m],
         expired' \in SUBSET Tokens,
         s = "open" => \E t \in Tokens : m = [access |-> t, refresh |-> FALSE]
  PROVE  IInv'
  <1>1. out' \in [Procs -> {"none", "ok", "error", "panic", "not authenticated"}]
    BY DEF Goto, IInv, TypeOK
  <1>2. cmd' = [cmd EXCEPT ![p] = cmd[p]] /\ cmd[p] \in Commands
    BY DEF IInv, TypeOK, CommandRuns
  <1>3. pc' = [pc EXCEPT ![p] = s]
    BY DEF Goto
  <1> QED
    BY <1>1, <1>2, <1>3, LocalStepKeeps

-----------------------------------------------------------------------------
(* The steps of a process on its own.                                      *)
LEMMA LocalStepsKeep ==
  ASSUME IInv, NEW p \in Procs,
         \/ Start(p) \/ LoadConfig(p) \/ Prompt(p) \/ NewTokenManager(p) \/ Authenticate(p)
         \/ Logout(p) \/ CheckToken(p) \/ OrderRPC(p) \/ RefreshToken(p) \/ Exit(p)
  PROVE  IInv'
  <1>1. NoTokens \in Stored
    BY DEF NoTokens, Stored
  <1>2. /\ cmd \in [Procs -> Commands \cup {"none"}] /\ expired \in SUBSET Tokens
        /\ out \in [Procs -> {"none", "ok", "error", "panic", "not authenticated"}]
        /\ mem \in [Procs -> Stored]
    BY DEF IInv, TypeOK
  <1>3. CASE Start(p)
    <2>1. PICK c \in Commands : cmd' = [cmd EXCEPT ![p] = c]
      BY <1>3 DEF Start
    <2>2. mem' = [mem EXCEPT ![p] = mem[p]] /\ mem[p] \in Stored
      BY <1>2, <1>3 DEF Start
    <2>3. /\ UNCHANGED disk /\ pc[p] # "write" /\ expired' \in SUBSET Tokens
          /\ out' \in [Procs -> {"none", "ok", "error", "panic", "not authenticated"}]
          /\ pc' = [pc EXCEPT ![p] = "config"]
      BY <1>2, <1>3 DEF Start, Goto
    <2> QED
      BY <2>1, <2>2, <2>3, LocalStepKeeps DEF Steps
  <1>4. CASE LoadConfig(p)
    <2>1. CASE End(p, "error") \/ End(p, "panic")
      BY <1>4, <2>1, EndKeeps DEF LoadConfig
    <2>2. ASSUME NEW s \in {"prompt", "new"}, Goto(p, s)
          PROVE  IInv'
      BY <1>2, <1>4, <2>2, QuietStepKeeps DEF LoadConfig, Goto, Steps
    <2> QED
      BY <1>4, <2>1, <2>2 DEF LoadConfig
  <1>5. CASE Prompt(p)
    <2>1. CASE End(p, "panic")
      BY <1>5, <2>1, EndKeeps DEF Prompt
    <2>2. CASE Goto(p, "new")
      BY <1>2, <1>5, <2>2, QuietStepKeeps DEF Prompt, Goto, Steps
    <2> QED
      BY <1>5, <2>1, <2>2 DEF Prompt
  <1>6. CASE NewTokenManager(p)
    <2>1. PICK m, s : m = Loaded /\ s = AfterNew(cmd[p])
      OBVIOUS
    <2>2. m \in Stored
      BY <1>1, <2>1 DEF Loaded
    <2>3. cmd[p] \in Commands
      BY <1>6 DEF NewTokenManager, IInv, CommandRuns
    <2>4. s \in Steps /\ s # "open" /\ s # "write"
      BY <2>1, <2>3 DEF AfterNew, Commands, AuthCommands, OrderCommands, Steps
    <2>5. UNCHANGED <<disk, cmd>> /\ pc[p] \notin {"idle", "write"} /\ expired' \in SUBSET Tokens
      BY <1>2, <1>6 DEF NewTokenManager
    <2>6. CASE mem' = [mem EXCEPT ![p] = Loaded] /\ Goto(p, AfterNew(cmd[p]))
      <3>1. mem' = [mem EXCEPT ![p] = m] /\ Goto(p, s)
        BY <2>1, <2>6
      <3> QED
        BY <2>2, <2>4, <2>5, <3>1, MemStepKeeps
    <2>7. CASE End(p, "error") /\ UNCHANGED mem
      BY <1>6, <2>7, EndKeeps DEF NewTokenManager
    <2> QED
      BY <1>6, <2>6, <2>7 DEF NewTokenManager
  <1>7. CASE Authenticate(p)
    <2>1. CASE End(p, "error") /\ UNCHANGED <<mem, expired>>
      BY <1>7, <2>1, EndKeeps DEF Authenticate
    <2>2. ASSUME NEW t \in Tokens,
                 mem' = [mem EXCEPT ![p] = [access |-> t, refresh |-> FALSE]],
                 expired' = expired \ {t}, Goto(p, "open")
          PROVE  IInv'
      <3>1. PICK m : m = [access |-> t, refresh |-> FALSE]
        OBVIOUS
      <3>2. m \in Stored
        BY <3>1 DEF Stored
      <3> QED
        BY <1>2, <1>7, <2>2, <3>1, <3>2, MemStepKeeps DEF Authenticate, Steps
    <2> QED
      BY <1>7, <2>1, <2>2 DEF Authenticate
  <1>8. CASE Logout(p)
    <2>1. PICK s : s = "remove"
      OBVIOUS
    <2>2. /\ UNCHANGED <<disk, cmd>> /\ pc[p] \notin {"idle", "write"}
          /\ expired' \in SUBSET Tokens /\ Goto(p, s)
          /\ mem' = [mem EXCEPT ![p] = NoTokens]
      BY <1>2, <1>8, <2>1 DEF Logout
    <2>3. s \in Steps \ {"write"} /\ s # "open"
      BY <2>1 DEF Steps
    <2> QED
      BY <1>1, <2>2, <2>3, MemStepKeeps
  <1>9. CASE CheckToken(p)
    <2>1. CASE End(p, "not authenticated") \/ End(p, "error")
      BY <1>9, <2>1, EndKeeps DEF CheckToken
    <2>2. CASE Goto(p, "order")
      BY <1>2, <1>9, <2>2, QuietStepKeeps DEF CheckToken, Goto, Steps
    <2> QED
      BY <1>9, <2>1, <2>2 DEF CheckToken
  <1>10. CASE OrderRPC(p)
    BY <1>10, EndKeeps DEF OrderRPC
  <1>11. CASE RefreshToken(p)
    <2>1. CASE End(p, "error") /\ UNCHANGED <<mem, expired>>
      BY <1>11, <2>1, EndKeeps DEF RefreshToken
    <2>2. ASSUME NEW t \in Tokens,
                 mem' = [mem EXCEPT ![p] = [access |-> t, refresh |-> TRUE]],
                 expired' = expired \ {t}, Goto(p, "stuck")
          PROVE  IInv'
      <3>1. PICK m, s : m = [access |-> t, refresh |-> TRUE] /\ s = "stuck"
        OBVIOUS
      <3>2. m \in Stored /\ s \in Steps \ {"write"} /\ s # "open" /\ Goto(p, s)
        BY <2>2, <3>1 DEF Stored, Steps
      <3>3. /\ UNCHANGED <<disk, cmd>> /\ pc[p] \notin {"idle", "write"}
            /\ expired' \in SUBSET Tokens /\ mem' = [mem EXCEPT ![p] = m]
        BY <1>2, <1>11, <2>2, <3>1 DEF RefreshToken
      <3> QED
        BY <3>2, <3>3, MemStepKeeps
    <2> QED
      BY <1>11, <2>1, <2>2 DEF RefreshToken
  <1>12. CASE Exit(p)
    <2>1. /\ UNCHANGED disk /\ pc[p] # "write" /\ expired' \in SUBSET Tokens
          /\ out' \in [Procs -> {"none", "ok", "error", "panic", "not authenticated"}]
          /\ pc' = [pc EXCEPT ![p] = "idle"] /\ cmd' = [cmd EXCEPT ![p] = "none"]
          /\ mem' = [mem EXCEPT ![p] = NoTokens]
      BY <1>2, <1>12 DEF Exit
    <2> QED
      BY <1>1, <2>1, LocalStepKeeps DEF Steps
  <1> QED
    BY <1>3, <1>4, <1>5, <1>6, <1>7, <1>8, <1>9, <1>10, <1>11, <1>12

(* The file has been opened by p alone, or p has not opened it.            *)
LEMMA OpenFileKeeps ==
  ASSUME IInv, NEW p \in Procs, OpenFile(p)
  PROVE  IInv'
  <1>1. CASE End(p, "ok") /\ UNCHANGED disk
    BY <1>1, EndKeeps DEF OpenFile
  <1>2. CASE /\ file' = Broken
             /\ linked' = linked \cup {p}
             /\ session' = "unclear" /\ holder' = p
             /\ Goto(p, "write")
    <2>1. pc[p] = "open" /\ UNCHANGED <<cmd, mem, expired>>
      BY DEF OpenFile
    <2>2. pc' = [pc EXCEPT ![p] = "write"] /\ out' = out
      BY <1>2 DEF Goto
    <2>3. TypeOK'
      BY <1>2, <2>1, <2>2 DEF IInv, TypeOK, Steps
    <2>4. HolderWrites'
      BY <1>2, <2>2 DEF HolderWrites, IInv, TypeOK
    <2>5. SavesLogin' /\ CommandRuns'
      BY <2>1, <2>2 DEF SavesLogin, CommandRuns, IInv, TypeOK
    <2>6. SessionOnDisk'
      BY <1>2, TokenAssumption DEF SessionOnDisk
    <2> QED
      BY <2>3, <2>4, <2>5, <2>6 DEF IInv
  <1> QED
    BY <1>1, <1>2 DEF OpenFile

(* What is written is a login's token; another that holds the file is not  *)
(* the holder any more once it has been written.                           *)
LEMMA WriteFileKeeps ==
  ASSUME IInv, NEW p \in Procs, WriteFile(p)
  PROVE  IInv'
  <1>1. /\ pc[p] = "write" /\ UNCHANGED <<cmd, mem, expired>>
        /\ holder' = IF p \in linked THEN None ELSE holder
        /\ linked' = linked \ {p}
    BY DEF WriteFile
  <1>2. pc' = [pc EXCEPT ![p] = "exit"] /\ out' = [out EXCEPT ![p] = "ok"]
    BY DEF WriteFile, End
  <1>3. PICK t \in Tokens : mem[p] = [access |-> t, refresh |-> FALSE]
    BY <1>1 DEF IInv, SavesLogin
  <1>4. SavesLogin' /\ CommandRuns'
    BY <1>1, <1>2 DEF SavesLogin, CommandRuns, IInv, TypeOK
  <1>5. /\ file' \in Stored \cup {Absent, Broken}
        /\ session' \in Tokens \cup {"none", "unclear"}
    <2>1. mem[p] \in Stored /\ mem[p].access \in Tokens
      BY <1>3 DEF Stored
    <2> QED
      BY <2>1 DEF WriteFile, Saves, IInv, TypeOK
  <1>6. TypeOK'
    BY <1>1, <1>2, <1>5 DEF IInv, TypeOK, Steps
  <1>7. CASE p \in linked
    <2>1. HolderWrites'
      BY <1>1, <1>7 DEF HolderWrites
    <2>2. SessionOnDisk'
      <3>1. CASE session' = "unclear"
        BY <3>1, TokenAssumption DEF SessionOnDisk
      <3>2. CASE session' # "unclear"
        <4>1. /\ holder = p /\ session' = mem[p].access
              /\ file' \in {Saves(p)} \cup (IF file \in Stored THEN {Broken} ELSE {})
          BY <1>7, <3>2 DEF WriteFile
        <4>2. file = Broken
          BY <4>1, TokenAssumption DEF IInv, HolderWrites
        <4>3. file' = mem[p]
          BY <4>1, <4>2, TokenAssumption DEF Saves
        <4>4. session' = t /\ t # "none"
          BY <1>3, <4>1, TokenAssumption
        <4> QED
          BY <1>3, <4>3, <4>4 DEF SessionOnDisk
      <3> QED
        BY <3>1, <3>2
    <2> QED
      BY <1>4, <1>6, <2>1, <2>2 DEF IInv
  <1>8. CASE p \notin linked
    <2>1. UNCHANGED <<file, session, holder>>
      BY <1>1, <1>8 DEF WriteFile
    <2>2. HolderWrites'
      BY <1>1, <1>2, <1>8, <2>1 DEF HolderWrites, IInv, TypeOK
    <2>3. SessionOnDisk'
      BY <2>1 DEF SessionOnDisk, IInv
    <2> QED
      BY <1>4, <1>6, <2>2, <2>3 DEF IInv
  <1> QED
    BY <1>7, <1>8

(* The file is gone: nobody has the one that the path names.               *)
LEMMA RemoveFileKeeps ==
  ASSUME IInv, NEW p \in Procs, RemoveFile(p)
  PROVE  IInv'
  <1>1. CASE UNCHANGED disk
    BY <1>1, EndKeeps DEF RemoveFile
  <1>2. CASE file' = Absent /\ linked' = {} /\ session' = "none" /\ holder' = None
    <2>1. pc[p] = "remove" /\ UNCHANGED <<cmd, mem, expired>>
      BY DEF RemoveFile
    <2>2. pc' = [pc EXCEPT ![p] = "exit"] /\ out' = [out EXCEPT ![p] = "ok"]
      BY DEF RemoveFile, End
    <2>3. TypeOK'
      BY <1>2, <2>1, <2>2 DEF IInv, TypeOK, Steps
    <2>4. HolderWrites'
      BY <1>2 DEF HolderWrites
    <2>5. SavesLogin' /\ CommandRuns'
      BY <2>1, <2>2 DEF SavesLogin, CommandRuns, IInv, TypeOK
    <2>6. SessionOnDisk'
      BY <1>2, TokenAssumption DEF SessionOnDisk
    <2> QED
      BY <2>3, <2>4, <2>5, <2>6 DEF IInv
  <1> QED
    BY <1>1, <1>2 DEF RemoveFile

(* A process dies; a file that it has emptied stays as it is.              *)
LEMMA KillKeeps ==
  ASSUME IInv, NEW p \in Procs, Kill(p)
  PROVE  IInv'
  <1>1. NoTokens \in Stored
    BY DEF NoTokens, Stored
  <1>2. TypeOK'
    BY <1>1 DEF Kill, IInv, TypeOK, Steps
  <1>3. HolderWrites'
    BY DEF Kill, HolderWrites, IInv, TypeOK
  <1>4. SavesLogin'
    BY DEF Kill, SavesLogin, IInv, TypeOK
  <1>5. CommandRuns'
    BY DEF Kill, CommandRuns, IInv, TypeOK
  <1>6. SessionOnDisk'
    BY DEF Kill, SessionOnDisk, IInv
  <1> QED
    BY <1>2, <1>3, <1>4, <1>5, <1>6 DEF IInv

LEMMA NextIInv == IInv /\ [Next]_vars => IInv'
  <1> SUFFICES ASSUME IInv, [Next]_vars PROVE IInv'
    OBVIOUS
  <1>1. ASSUME NEW p \in Procs, Start(p) \/ Run(p)
        PROVE  IInv'
    BY <1>1, LocalStepsKeep, OpenFileKeeps, WriteFileKeeps, RemoveFileKeeps DEF Run
  <1>2. ASSUME NEW p \in Procs, Kill(p)
        PROVE  IInv'
    BY <1>2, KillKeeps
  <1>3. ASSUME NEW t \in Tokens, Expire(t)
        PROVE  IInv'
    <2>1. UNCHANGED <<disk, pc, cmd, mem, out>> /\ expired' \in SUBSET Tokens
      BY <1>3 DEF Expire, IInv, TypeOK
    <2> QED
      BY <2>1 DEF IInv, TypeOK, HolderWrites, SavesLogin, CommandRuns, SessionOnDisk, disk
  <1>4. CASE UNCHANGED vars
    BY <1>4 DEF IInv, TypeOK, HolderWrites, SavesLogin, CommandRuns, SessionOnDisk, vars, disk
  <1> QED
    BY <1>1, <1>2, <1>3, <1>4 DEF Next

-----------------------------------------------------------------------------
(* The inductive invariant holds of every state the client can reach.      *)
THEOREM Invariant == Spec => []IInv
  <1> QED
    BY InitIInv, NextIInv, PTL DEF Spec

(* Every variable has its type, however many processes share the file.     *)
THEOREM TypeCorrect == Spec => []TypeOK
  <1>1. IInv => TypeOK
    BY DEF IInv
  <1> QED
    BY <1>1, Invariant, PTL

(* What a login saved alone is in the file, and after an unlink nothing,   *)
(* until a command opens or unlinks it again.                              *)
THEOREM SessionKept == Spec => []SessionOnDisk
  <1>1. IInv => SessionOnDisk
    BY DEF IInv
  <1> QED
    BY <1>1, Invariant, PTL
=============================================================================
