------------------------------ MODULE Shutdown ------------------------------
(***************************************************************************)
(* The shutdown handler of shared/shutdown.  Goroutines register closers,  *)
(* one of them calls Run and waits there for a signal, and others may call *)
(* Trigger.  Run and Trigger share one sync.Once, so that only the first   *)
(* of them does anything, and the others wait for it to be over.           *)
(*                                                                         *)
(* Run closes what is registered, the last first, each in a goroutine of   *)
(* its own that it stops waiting for after a share of the time, and then   *)
(* waits for all of them until the whole time is over.  A closer may take  *)
(* any time, also for ever; what it returns, and whether it panics, the    *)
(* handler drops.  Timeouts may come at any moment.                        *)
(***************************************************************************)
EXTENDS Naturals, Sequences

CONSTANTS
  Callers,   \* goroutines that use the handler
  Resources, \* what can be registered
  None

VARIABLES
  flag,      \* ShutdownHandler.shutdown
  once,      \* ShutdownHandler.once: "free", "held" or "done"
  cancelled, \* ShutdownHandler.ctx is done
  closers,   \* ShutdownHandler.closers
  mu,        \* the caller that holds ShutdownHandler.mu, or None
  step,      \* the next step of each caller
  arg,       \* what each caller registers
  cursor,    \* doShutdown's i, counted from 1; 0 after the loop
  state,     \* of each resource
  early,     \* resources whose Register returned before the flag was set
  signalled, \* a signal has reached Run's channel
  timeUp,    \* shutdownCtx is done
  outcome,   \* what the one use of the Once has come to
  result     \* what each caller's last Run has returned

handler == <<flag, once, cancelled, closers, mu, cursor, state, early>>
answers == <<outcome, result>>
shutdownVars == <<handler, step, arg, signalled, timeUp, answers>>

States == {"new", "offered", "refused", "open", "closing", "late", "closed"}

Steps ==
  {"idle", "lock", "loadFlag", "append",
   "run", "runFlag", "wait", "loop", "select", "final",
   "trigger", "triggerFlag", "triggerCancel", "waitAll"}

ShutdownTypeOK ==
  /\ flag \in BOOLEAN /\ cancelled \in BOOLEAN
  /\ once \in {"free", "held", "done"}
  /\ closers \in Seq(Resources)
  /\ mu \in Callers \cup {None}
  /\ step \in [Callers -> Steps]
  /\ arg \in [Callers -> Resources \cup {None}]
  /\ cursor \in 0 .. Len(closers)
  /\ state \in [Resources -> States]
  /\ early \in SUBSET Resources
  /\ signalled \in BOOLEAN /\ timeUp \in BOOLEAN
  /\ outcome \in {"none", "nil", "timeout", "trigger"}
  /\ result \in [Callers -> {"none", "nil", "timeout"}]

GoTo(c, s) == step' = [step EXCEPT ![c] = s]

Become(r, s) == state' = [state EXCEPT ![r] = s]

Running == {r \in Resources : state[r] \in {"closing", "late"}} \* wg counts them

-----------------------------------------------------------------------------
(* Register and RegisterFunc, which return at once when given nil.         *)
Register(c) ==
  /\ step[c] = "idle"
  /\ \E r \in Resources :
       /\ state[r] = "new"
       /\ Become(r, "offered")
       /\ arg' = [arg EXCEPT ![c] = r]
  /\ GoTo(c, "lock")
  /\ UNCHANGED <<flag, once, cancelled, closers, mu, cursor, early, signalled, timeUp, answers>>

Lock(c) ==
  /\ step[c] = "lock" /\ mu = None
  /\ mu' = c
  /\ GoTo(c, "loadFlag")
  /\ UNCHANGED <<flag, once, cancelled, closers, cursor, state, early,
                 arg, signalled, timeUp, answers>>

LoadFlag(c) ==
  /\ step[c] = "loadFlag"
  /\ IF flag
       THEN GoTo(c, "idle") /\ mu' = None /\ Become(arg[c], "refused")
       ELSE GoTo(c, "append") /\ UNCHANGED <<mu, state>>
  /\ UNCHANGED <<flag, once, cancelled, closers, cursor, early, arg, signalled, timeUp, answers>>

AppendCloser(c) ==
  /\ step[c] = "append"
  /\ closers' = Append(closers, arg[c])
  /\ Become(arg[c], "open")
  /\ early' = IF flag THEN early ELSE early \cup {arg[c]}
  /\ mu' = None
  /\ GoTo(c, "idle")
  /\ UNCHANGED <<flag, once, cancelled, cursor, arg, signalled, timeUp, answers>>

-----------------------------------------------------------------------------
Run(c) ==
  step[c] = "idle" /\ GoTo(c, "run") /\ UNCHANGED <<handler, arg, signalled, timeUp, answers>>

Trigger(c) ==
  step[c] = "idle" /\ GoTo(c, "trigger") /\ UNCHANGED <<handler, arg, signalled, timeUp, answers>>

WaitForCompletion(c) ==
  step[c] = "idle" /\ GoTo(c, "waitAll") /\ UNCHANGED <<handler, arg, signalled, timeUp, answers>>

(* Once.Do: the first to come does the work, the others wait for it.       *)
OnceDo(c, entry, first) ==
  /\ step[c] = entry
  /\ \/ once = "free" /\ once' = "held" /\ GoTo(c, first)
     \/ once = "done" /\ GoTo(c, "idle") /\ UNCHANGED once
  /\ UNCHANGED <<flag, cancelled, closers, mu, cursor, state, early,
                 arg, signalled, timeUp, outcome>>

(* Run returns nil when it did not do the work.                            *)
EnterRun(c) ==
  /\ OnceDo(c, "run", "runFlag")
  /\ result' = IF once = "done" THEN [result EXCEPT ![c] = "nil"] ELSE result

EnterTrigger(c) == OnceDo(c, "trigger", "triggerFlag") /\ UNCHANGED result

SetFlag(c) ==
  /\ \/ step[c] = "runFlag" /\ GoTo(c, "wait")
     \/ step[c] = "triggerFlag" /\ GoTo(c, "triggerCancel")
  /\ flag' = TRUE
  /\ UNCHANGED <<once, cancelled, closers, mu, cursor, state, early,
                 arg, signalled, timeUp, answers>>

TriggerCancel(c) ==
  /\ step[c] = "triggerCancel"
  /\ cancelled' = TRUE
  /\ once' = "done" /\ outcome' = "trigger"
  /\ GoTo(c, "idle")
  /\ UNCHANGED <<flag, closers, mu, cursor, state, early, arg, signalled, timeUp, result>>

(* A mutant: the loop starts behind the last closer.                       *)
WaitOffByOne(c) ==
  /\ step[c] = "wait"
  /\ signalled \/ cancelled
  /\ cancelled' = TRUE
  /\ cursor' = Len(closers) + 1
  /\ GoTo(c, "loop")
  /\ UNCHANGED <<flag, once, closers, mu, state, early, arg, signalled, timeUp, answers>>

(* The select of Run, and doShutdown up to its loop.                       *)
Wait(c) ==
  /\ step[c] = "wait"
  /\ signalled \/ cancelled
  /\ cancelled' = TRUE
  /\ cursor' = Len(closers)
  /\ GoTo(c, "loop")
  /\ UNCHANGED <<flag, once, closers, mu, state, early, arg, signalled, timeUp, answers>>

(* The loop reads the slice without the lock; what is appended meanwhile   *)
(* is behind its index.                                                    *)
Loop(c) ==
  /\ step[c] = "loop"
  /\ IF cursor = 0
       THEN GoTo(c, "final") /\ UNCHANGED state
       ELSE GoTo(c, "select") /\ Become(closers[cursor], "closing")
  /\ UNCHANGED <<flag, once, cancelled, closers, mu, cursor, early,
                 arg, signalled, timeUp, answers>>

(* A mutant: the loop does not wait for the closer it has started.         *)
SelectAtOnce(c) ==
  /\ step[c] = "select"
  /\ cursor' = cursor - 1
  /\ GoTo(c, "loop")
  /\ UNCHANGED <<flag, once, cancelled, closers, mu, state, early,
                 arg, signalled, timeUp, answers>>

(* A mutant: the loop gives up when the whole time is over.                *)
SelectGivesUp(c) ==
  /\ step[c] = "select"
  /\ state[closers[cursor]] \in {"late", "closed"} \/ timeUp
  /\ cursor' = IF timeUp THEN 0 ELSE cursor - 1
  /\ GoTo(c, "loop")
  /\ UNCHANGED <<flag, once, cancelled, closers, mu, state, early,
                 arg, signalled, timeUp, answers>>

Select(c) ==
  /\ step[c] = "select"
  /\ state[closers[cursor]] \in {"late", "closed"} \/ timeUp
  /\ cursor' = cursor - 1
  /\ GoTo(c, "loop")
  /\ UNCHANGED <<flag, once, cancelled, closers, mu, state, early,
                 arg, signalled, timeUp, answers>>

(* A mutant: the handler waits for the goroutines however long they take.  *)
FinalPatient(c) ==
  /\ step[c] = "final"
  /\ Running = {} /\ outcome' = "nil"
  /\ result' = [result EXCEPT ![c] = outcome']
  /\ once' = "done"
  /\ GoTo(c, "idle")
  /\ UNCHANGED <<flag, cancelled, closers, mu, cursor, state, early, arg, signalled, timeUp>>

Final(c) ==
  /\ step[c] = "final"
  /\ \/ Running = {} /\ outcome' = "nil"
     \/ timeUp /\ outcome' = "timeout"
  /\ result' = [result EXCEPT ![c] = outcome']
  /\ once' = "done"
  /\ GoTo(c, "idle")
  /\ UNCHANGED <<flag, cancelled, closers, mu, cursor, state, early, arg, signalled, timeUp>>

WaitAll(c) ==
  /\ step[c] = "waitAll" /\ Running = {}
  /\ GoTo(c, "idle")
  /\ UNCHANGED <<handler, arg, signalled, timeUp, answers>>

-----------------------------------------------------------------------------
(* A closer returns or panics; doShutdown waits for it, or no more.        *)
CloserEnds(r) ==
  /\ r \in Running
  /\ Become(r, "closed")
  /\ UNCHANGED <<flag, once, cancelled, closers, mu, cursor, early,
                 step, arg, signalled, timeUp, answers>>

ShareUp(r) ==
  /\ state[r] = "closing"
  /\ Become(r, "late")
  /\ UNCHANGED <<flag, once, cancelled, closers, mu, cursor, early,
                 step, arg, signalled, timeUp, answers>>

InShutdown == \E c \in Callers : step[c] \in {"loop", "select", "final"}

TimeUp ==
  /\ InShutdown /\ ~timeUp
  /\ timeUp' = TRUE
  /\ UNCHANGED <<handler, step, arg, signalled, answers>>

(* SIGINT or SIGTERM, once Run has asked for them.                         *)
Signal ==
  /\ \E c \in Callers : step[c] = "wait"
  /\ ~signalled
  /\ signalled' = TRUE
  /\ UNCHANGED <<handler, step, arg, timeUp, answers>>

ShutdownInit ==
  /\ flag = FALSE /\ cancelled = FALSE /\ once = "free"
  /\ closers = <<>> /\ mu = None /\ cursor = 0
  /\ step = [c \in Callers |-> "idle"]
  /\ arg = [c \in Callers |-> None]
  /\ state = [r \in Resources |-> "new"]
  /\ early = {}
  /\ signalled = FALSE /\ timeUp = FALSE
  /\ outcome = "none" /\ result = [c \in Callers |-> "none"]

Serve(c) ==
  \/ EnterRun(c) \/ SetFlag(c) \/ Wait(c) \/ Loop(c) \/ Select(c) \/ Final(c)

ShutdownNext ==
  \/ \E c \in Callers :
       \/ Register(c) \/ Lock(c) \/ LoadFlag(c) \/ AppendCloser(c)
       \/ Run(c) \/ Trigger(c) \/ WaitForCompletion(c)
       \/ Serve(c) \/ EnterTrigger(c) \/ TriggerCancel(c) \/ WaitAll(c)
  \/ \E r \in Resources : CloserEnds(r) \/ ShareUp(r)
  \/ TimeUp \/ Signal

(* The caller of Run is scheduled and the clock goes on.  No closer is     *)
(* assumed to return, and no signal to come.                               *)
ShutdownFairness ==
  /\ \A c \in Callers : WF_shutdownVars(Serve(c))
  /\ WF_shutdownVars(TimeUp)

ShutdownSpec == ShutdownInit /\ [][ShutdownNext]_shutdownVars /\ ShutdownFairness

-----------------------------------------------------------------------------
Started == {r \in Resources : state[r] \in {"closing", "late", "closed"}}

(* The closers start the last registered first, and one runs beside a      *)
(* later one only when time, its share or the whole, was up.               *)
ClosedInOrder ==
  \A i, j \in 1 .. Len(closers) :
    i < j /\ closers[i] \in Started =>
      \/ closers[j] \in Started /\ (state[closers[j]] # "closing" \/ timeUp)
      \/ closers[j] \notin early

(* What the return of any Run tells.  Every closer that was registered     *)
(* before the shutdown began has been started, also after the time was     *)
(* over, unless a Trigger came first and used up the Once; and nil means   *)
(* that all of them have ended, unless a Run has timed out: the others     *)
(* answer nil all the same.                                                *)
ReturnTells ==
  \A c \in Callers :
    /\ result[c] # "none" => early \subseteq Started \/ outcome = "trigger"
    /\ result[c] = "nil" => Running = {} \/ outcome = "timeout"

(* A Run that has had its signal returns, whatever its closers do.         *)
RunReturns == \A c \in Callers : step[c] = "wait" /\ signalled ~> step[c] = "idle"
=============================================================================
