----------------------------- MODULE Contribute -----------------------------
(***************************************************************************)
(* The threads of command/contribute.cpp that get tasks, play games, pause *)
(* and shut down: task loops that take turns under a PriorityMutex and     *)
(* feed gameTaskQueue(1), game loops, the pre-download loop, the stop      *)
(* loop, the user at the control loop, signals, and main, which joins the  *)
(* others.  They share the WaitableFlag shouldPause.                       *)
(*                                                                         *)
(* waitUntilFalse reads the flag before it takes the mutex of the flag and *)
(* does not read it again before it sleeps: these are two steps here.  The *)
(* queue is its length; its blocking calls are guards, since no wakeup of  *)
(* a ThreadSafeQueue is lost (theorem NoLostWakeup).                       *)
(***************************************************************************)
EXTENDS Integers, FiniteSets

CONSTANTS TaskThreads, GameThreads, PreThread,
          NoThread,
          taskRepFactor,  \* games pushed for one task
          MaxMoves,       \* bound on the moves of a game
          Commands        \* what the user types and sends: pause, resume, quit, forcequit, signal

ASSUME RepAssumption == taskRepFactor \in Nat \ {0} /\ MaxMoves \in Nat \ {0}
ASSUME ThreadsAssumption ==
  /\ NoThread \notin TaskThreads \cup GameThreads \cup {PreThread}
  /\ TaskThreads \cap (GameThreads \cup {PreThread}) = {} /\ PreThread \notin GameThreads
  /\ IsFiniteSet(TaskThreads) /\ IsFiniteSet(GameThreads)
  /\ GameThreads # {}  \* maxSimultaneousGames is at least 1

Threads == TaskThreads \cup GameThreads \cup {PreThread}
queueSize == 1

VARIABLES value, finished, falseSleepers,          \* shouldPause and its falseCondVar
          shouldStop, shouldStopGracefully, shouldStopPrinted,
          queued, readOnly,                        \* gameTaskQueue
          holder, heldHigh, numHighPriorityThreads, lowSleepers,  \* taskLoopMutex
          pc,
          count,      \* moves left in the game, games left to push
          numActive,  \* games whose models are acquired
          command,    \* what the control loop is doing under controlMutex
          main, stopThread

flag == <<value, finished, falseSleepers>>
stops == <<shouldStop, shouldStopGracefully, shouldStopPrinted>>
queue == <<queued, readOnly>>
taskLoopMutex == <<holder, heldHigh, numHighPriorityThreads, lowSleepers>>
local == <<pc, count, numActive>>
control == <<command, main, stopThread>>
vars == <<value, finished, falseSleepers, shouldStop, shouldStopGracefully, shouldStopPrinted,
          queued, readOnly, holder, heldHigh, numHighPriorityThreads, lowSleepers,
          pc, count, numActive, command, main, stopThread>>

Init ==
  /\ value = FALSE /\ finished = FALSE /\ falseSleepers = {}
  /\ shouldStop = FALSE /\ shouldStopGracefully = FALSE /\ shouldStopPrinted = FALSE
  /\ queued = 0 /\ readOnly = FALSE
  /\ holder = NoThread /\ heldHigh = FALSE /\ numHighPriorityThreads = 0 /\ lowSleepers = {}
  /\ pc = [t \in Threads |-> CASE t \in TaskThreads -> "poll"
                               [] t \in GameThreads -> "pop"
                               [] t = PreThread -> "read"]
  /\ count = [t \in Threads |-> 0] /\ numActive = 0
  /\ command = "none" /\ main = "watch" /\ stopThread = "unborn"

Goto(t, label) == pc' = [pc EXCEPT ![t] = label]

-----------------------------------------------------------------------------
(* WaitableFlag *)

Notified(b) == IF b THEN falseSleepers ELSE {}
set(b) ==
  IF finished THEN UNCHANGED flag
  ELSE value' = b /\ falseSleepers' = Notified(b) /\ UNCHANGED finished
(* Fault: the flag is cleared but may be set again. *)
setPermanently_NotFinished(b) == set(b)
setPermanently(b) ==
  IF finished THEN UNCHANGED flag
  ELSE finished' = TRUE /\ value' = b /\ falseSleepers' = Notified(b)

(* Where a thread goes on after waitUntilFalse. *)
AfterPause(t) ==
  IF t \in TaskThreads THEN "lockLow"
  ELSE IF t \in GameThreads /\ count[t] > 0 THEN "move" ELSE "check"

(* waitUntilFalse, in two steps: get() without the mutex, then the wait. *)
ReadFlag(t) ==
  /\ pc[t] = "read"
  /\ Goto(t, IF value THEN "wait" ELSE AfterPause(t))
  /\ UNCHANGED <<flag, stops, queue, taskLoopMutex, count, numActive, control>>

WaitOnFlag(t) ==
  /\ pc[t] = "wait"
  /\ falseSleepers' = falseSleepers \cup {t}
  /\ Goto(t, "sleep")
  /\ UNCHANGED <<value, finished, stops, queue, taskLoopMutex, count, numActive, control>>

(* Awake again, with the mutex: get() and perhaps back to sleep. *)
RecheckFlag(t) ==
  /\ pc[t] = "sleep" /\ t \notin falseSleepers
  /\ IF value THEN falseSleepers' = falseSleepers \cup {t} /\ UNCHANGED pc
              ELSE Goto(t, AfterPause(t)) /\ UNCHANGED falseSleepers
  /\ UNCHANGED <<value, finished, stops, queue, taskLoopMutex, count, numActive, control>>

SpuriousWakeup(t) ==
  /\ t \in falseSleepers
  /\ falseSleepers' = falseSleepers \ {t}
  /\ UNCHANGED <<value, finished, stops, queue, taskLoopMutex, local, control>>

-----------------------------------------------------------------------------
(* Stopping *)

(* shouldStopFunc: the first to see shouldStop ends all pausing.  The load,*)
(* the exchange and setPermanently are one step here.                      *)
shouldStopFunc ==
  IF shouldStop /\ ~shouldStopPrinted
  THEN setPermanently(FALSE) /\ shouldStopPrinted' = TRUE
  ELSE UNCHANGED <<flag, shouldStopPrinted>>
Stopping == shouldStop \/ shouldStopGracefully

StopNow ==
  /\ shouldStop' = TRUE /\ shouldStopGracefully' = TRUE
  /\ setPermanently(FALSE)

(* Control loop: a command is read and, with controlMutex, dropped if      *)
(* shouldStop is set by then, carried out otherwise.  shouldStop may be    *)
(* set, and even acted on, in between.                                     *)
TakeCommand ==
  /\ command = "none" /\ ~shouldStop
  /\ command' \in Commands \ {"signal"}
  /\ UNCHANGED <<flag, stops, queue, taskLoopMutex, local, main, stopThread>>

ControlLoop ==
  /\ \/ command = "forcequit" /\ StopNow
     \/ /\ command \in {"pause", "resume", "quit"}
        /\ IF command = "quit" THEN UNCHANGED flag ELSE set(command = "pause")
        /\ shouldStopGracefully' = (shouldStopGracefully \/ command = "quit")
        /\ UNCHANGED shouldStop
  /\ command' = "none"
  /\ UNCHANGED <<shouldStopPrinted, queue, taskLoopMutex, local, main, stopThread>>

signalHandler ==
  /\ "signal" \in Commands
  /\ IF shouldStopGracefully THEN shouldStop' = TRUE /\ UNCHANGED shouldStopGracefully
                             ELSE shouldStopGracefully' = TRUE /\ UNCHANGED shouldStop
  /\ UNCHANGED <<flag, shouldStopPrinted, queue, taskLoopMutex, local, control>>

stopLoop ==
  /\ stopThread = "running"
  /\ shouldStopFunc
  /\ stopThread' = IF shouldStop THEN "ended" ELSE "running"
  /\ UNCHANGED <<shouldStop, shouldStopGracefully, queue, taskLoopMutex, local, command, main>>

Ended(t) == pc[t] = "ended"

(* main: stopGracefullyLoop joined, setReadOnly, three joins, the end. *)
MainShutdown ==
  /\ main = "watch"
  /\ Stopping
  /\ shouldStopFunc
  /\ shouldStopGracefully' = TRUE
  /\ stopThread' = "running"
  /\ readOnly' = TRUE
  /\ main' = "join"
  /\ UNCHANGED <<shouldStop, queued, taskLoopMutex, local, command>>

(* controlMutex is free between two commands. *)
MainStopAll ==
  /\ main = "join"
  /\ command = "none"
  /\ \A t \in Threads : Ended(t)
  /\ shouldStop' = TRUE
  /\ setPermanently(FALSE)
  /\ main' = "joinStop"
  /\ UNCHANGED <<shouldStopGracefully, shouldStopPrinted, queue, taskLoopMutex, local, command, stopThread>>

MainEnd ==
  /\ main = "joinStop" /\ stopThread = "ended"
  /\ main' = "end"
  /\ UNCHANGED <<flag, stops, queue, taskLoopMutex, local, command, stopThread>>

-----------------------------------------------------------------------------
(* PriorityMutex, as the task loops use it *)

(* Fault: an exit from the critical section leaves the high-priority count raised. *)
unlock_KeepHigh ==
  /\ holder' = NoThread /\ heldHigh' = FALSE
  /\ UNCHANGED <<numHighPriorityThreads, lowSleepers>>
(* Fault: the last high-priority thread wakes nobody. *)
unlock_NoNotify ==
  /\ holder' = NoThread /\ heldHigh' = FALSE
  /\ numHighPriorityThreads' = IF heldHigh THEN numHighPriorityThreads - 1 ELSE numHighPriorityThreads
  /\ UNCHANGED lowSleepers
unlock ==
  LET left == numHighPriorityThreads - 1
  IN  /\ holder' = NoThread
      /\ IF heldHigh THEN /\ numHighPriorityThreads' = left
                          /\ lowSleepers' = IF left <= 0 THEN {} ELSE lowSleepers
                     ELSE UNCHANGED <<numHighPriorityThreads, lowSleepers>>
      /\ heldHigh' = FALSE

lockLowPriority(t) ==
  /\ pc[t] = "lockLow" /\ t \notin lowSleepers
  /\ holder = NoThread
  /\ IF numHighPriorityThreads > 0
     THEN lowSleepers' = lowSleepers \cup {t} /\ UNCHANGED <<holder, heldHigh, pc>>
     ELSE holder' = t /\ heldHigh' = FALSE /\ Goto(t, "locked") /\ UNCHANGED lowSleepers
  /\ UNCHANGED <<numHighPriorityThreads, flag, stops, queue, count, numActive, control>>

(* Two steps: the count is raised before the mutex is asked for. *)
AskHighPriority(t) ==
  /\ pc[t] = "download"
  /\ numHighPriorityThreads' = numHighPriorityThreads + 1
  /\ Goto(t, "lockHigh")
  /\ UNCHANGED <<holder, heldHigh, lowSleepers, flag, stops, queue, count, numActive, control>>
lockHighPriority(t) ==
  /\ pc[t] = "lockHigh"
  /\ holder = NoThread
  /\ holder' = t /\ heldHigh' = TRUE
  /\ Goto(t, "locked")
  /\ UNCHANGED <<numHighPriorityThreads, lowSleepers, flag, stops, queue, count, numActive, control>>

-----------------------------------------------------------------------------
(* Task loop *)

PollStop(t) ==
  /\ pc[t] = "poll"
  /\ shouldStopFunc
  /\ Goto(t, IF Stopping THEN "ended" ELSE "read")
  /\ UNCHANGED <<shouldStop, shouldStopGracefully, queue, taskLoopMutex, count, numActive, control>>

(* With the mutex: stop, give the task up, drop the mutex to download its  *)
(* models, find that a loaded model computes wrongly, or push its games.   *)
QueryTask(t) ==
  /\ pc[t] = "locked"
  /\ IF Stopping
     THEN /\ shouldStopFunc /\ unlock /\ Goto(t, "ended")
          /\ UNCHANGED <<shouldStop, shouldStopGracefully, count>>
     ELSE \/ /\ unlock /\ Goto(t, "poll")
             /\ UNCHANGED <<flag, stops, count>>
          \/ /\ unlock /\ Goto(t, "download")
             /\ UNCHANGED <<flag, stops, count>>
          \/ /\ StopNow /\ unlock /\ Goto(t, "poll")
             /\ UNCHANGED <<shouldStopPrinted, count>>
          \/ /\ Goto(t, "allocate") /\ count' = [count EXCEPT ![t] = taskRepFactor]
             /\ UNCHANGED <<flag, stops, taskLoopMutex>>
  /\ UNCHANGED <<queue, numActive, control>>

allocateGameTask(t) ==
  /\ pc[t] = "allocate"
  /\ IF count[t] = 0 THEN unlock /\ Goto(t, "poll") /\ UNCHANGED numActive
                     ELSE numActive' = numActive + 1 /\ Goto(t, "push") /\ UNCHANGED taskLoopMutex
  /\ UNCHANGED <<flag, stops, queue, count, control>>

(* Fault: a game that cannot be pushed keeps its models. *)
FreeUnpushed_Keep == UNCHANGED numActive
FreeUnpushed == numActive' = numActive - 1

PushGame(t) ==
  /\ pc[t] = "push"
  /\ readOnly \/ queued < queueSize
  /\ IF readOnly
     THEN /\ FreeUnpushed /\ unlock /\ Goto(t, "poll")
          /\ count' = [count EXCEPT ![t] = 0]
          /\ UNCHANGED queued
     ELSE /\ queued' = queued + 1 /\ Goto(t, "allocate")
          /\ count' = [count EXCEPT ![t] = @ - 1]
          /\ UNCHANGED <<numActive, taskLoopMutex>>
  /\ UNCHANGED <<readOnly, flag, stops, control>>

-----------------------------------------------------------------------------
(* Game loop and pre-download loop *)

(* The queue hands out what is left in it after setReadOnly. *)
PopGame(t) ==
  /\ pc[t] = "pop"
  /\ queued > 0 \/ readOnly
  /\ IF queued > 0 THEN queued' = queued - 1 /\ Goto(t, "read")
                   ELSE Goto(t, "ended") /\ UNCHANGED queued
  /\ UNCHANGED <<readOnly, flag, stops, taskLoopMutex, count, numActive, control>>

freeGameTask(t) == numActive' = numActive - 1 /\ Goto(t, "pop") /\ count' = [count EXCEPT ![t] = 0]

StartGame(t) ==
  /\ pc[t] = "check" /\ t \in GameThreads
  /\ shouldStopFunc
  /\ IF Stopping THEN freeGameTask(t)
     ELSE /\ Goto(t, "read") /\ count' = [count EXCEPT ![t] = MaxMoves]
          /\ UNCHANGED numActive
  /\ UNCHANGED <<shouldStop, shouldStopGracefully, queue, taskLoopMutex, control>>

(* A stop interrupts the game; otherwise it ends after MaxMoves at most. *)
PlayMove(t) ==
  /\ pc[t] = "move"
  /\ shouldStopFunc
  /\ \/ shouldStop /\ freeGameTask(t)
     \/ ~shouldStop /\ freeGameTask(t)
     \/ /\ ~shouldStop /\ count[t] > 1
        /\ Goto(t, "read") /\ count' = [count EXCEPT ![t] = @ - 1]
        /\ UNCHANGED numActive
  /\ UNCHANGED <<shouldStop, shouldStopGracefully, queue, taskLoopMutex, control>>

preDownload ==
  /\ pc[PreThread] = "check"
  /\ shouldStopFunc
  /\ Goto(PreThread, IF Stopping THEN "ended" ELSE "read")
  /\ UNCHANGED <<shouldStop, shouldStopGracefully, queue, taskLoopMutex, count, numActive, control>>

-----------------------------------------------------------------------------

FlagStep(t) == ReadFlag(t) \/ WaitOnFlag(t) \/ RecheckFlag(t)
TaskStep(t) == \/ PollStop(t) \/ lockLowPriority(t) \/ AskHighPriority(t) \/ lockHighPriority(t)
               \/ QueryTask(t) \/ allocateGameTask(t) \/ PushGame(t)
GameStep(t) == PopGame(t) \/ StartGame(t) \/ PlayMove(t)
ThreadStep(t) ==
  \/ FlagStep(t)
  \/ t \in TaskThreads /\ TaskStep(t)
  \/ t \in GameThreads /\ GameStep(t)
  \/ t = PreThread /\ preDownload

Next ==
  \/ \E t \in Threads : ThreadStep(t) \/ SpuriousWakeup(t)
  \/ TakeCommand \/ ControlLoop \/ signalHandler
  \/ stopLoop \/ MainShutdown \/ MainStopAll \/ MainEnd

Spec == Init /\ [][Next]_vars

(* The scheduler lets every thread that can go on go on, in whatever order *)
(* a mutex is handed over; the user leaves main a moment of controlMutex   *)
(* between two commands, and need not type any.                            *)
FairSpec ==
  /\ Spec
  /\ WF_vars(MainShutdown) /\ SF_vars(MainStopAll) /\ WF_vars(MainEnd)
  /\ WF_vars(stopLoop) /\ WF_vars(ControlLoop)
  /\ \A t \in Threads : WF_vars(ThreadStep(t))

-----------------------------------------------------------------------------
(* Properties *)

(* Every thread is at a place of its own loop, and everything shared has   *)
(* its type.                                                               *)
Pausing == {"read", "wait", "sleep"}
TaskPlaces == Pausing \cup {"poll", "lockLow", "locked", "download", "lockHigh", "allocate", "push", "ended"}
GamePlaces == Pausing \cup {"pop", "check", "move", "ended"}
PrePlaces == Pausing \cup {"check", "ended"}
Places(t) == IF t \in TaskThreads THEN TaskPlaces ELSE IF t \in GameThreads THEN GamePlaces ELSE PrePlaces
TypeOK ==
  /\ value \in BOOLEAN /\ finished \in BOOLEAN /\ readOnly \in BOOLEAN /\ heldHigh \in BOOLEAN
  /\ shouldStop \in BOOLEAN /\ shouldStopGracefully \in BOOLEAN /\ shouldStopPrinted \in BOOLEAN
  /\ falseSleepers \subseteq Threads /\ lowSleepers \subseteq TaskThreads
  /\ holder \in TaskThreads \cup {NoThread}
  /\ queued \in 0 .. queueSize /\ numHighPriorityThreads \in Int /\ numActive \in Int
  /\ pc \in [Threads -> TaskPlaces \cup GamePlaces \cup PrePlaces] /\ \A t \in Threads : pc[t] \in Places(t)
  /\ count \in [Threads -> Nat]
  /\ command \in {"none"} \cup (Commands \ {"signal"})
  /\ main \in {"watch", "join", "joinStop", "end"}
  /\ stopThread \in {"unborn", "running", "ended"}

(* Every game whose models are acquired is in the hands of exactly one     *)
(* thread or in the queue, so that when main deletes the managers every    *)
(* model has been released: by the game thread that played or refused the  *)
(* game, or by the task loop that could not push it.                       *)
GamesAccountedFor ==
  /\ numActive = queued
                 + Cardinality({t \in TaskThreads : pc[t] = "push"})
                 + Cardinality({t \in GameThreads : pc[t] \notin {"pop", "ended"}})
  /\ main # "watch" /\ (\A t \in Threads : Ended(t)) => numActive = 0

(* The mutex of the task loops is held by the thread that is in the        *)
(* critical section, alone; the count of high-priority threads says who is *)
(* between lockHighPriority and unlock; and no wakeup is lost, since a     *)
(* task loop sleeps on lowPriorityOkayToGo only while a high-priority      *)
(* thread is on its way.                                                   *)
InCriticalSection == {"locked", "allocate", "push"}
TaskLoopsTakeTurns ==
  /\ \A t \in TaskThreads : pc[t] \in InCriticalSection <=> holder = t
  /\ numHighPriorityThreads = Cardinality({t \in TaskThreads : pc[t] = "lockHigh" \/ (holder = t /\ heldHigh)})
  /\ lowSleepers # {} => numHighPriorityThreads > 0

(* A stop is final: once a thread has seen shouldStop and ended all        *)
(* pausing, the flag stays clear, though a pause that was typed before is  *)
(* carried out after; and when main goes on to free what it shares with    *)
(* the control loop, that is not in the middle of a command.               *)
StopIsFinal ==
  /\ shouldStopPrinted => ~value
  /\ main \in {"joinStop", "end"} => command = "none"

(* Unless the program is ever paused, a request to stop ends it: neither   *)
(* the bounded queue, the PriorityMutex nor the joins deadlock.            *)
UnpausedShutdownEnds == []~value => ((shouldStop \/ shouldStopGracefully) ~> (main = "end"))

(* As contribute.cpp says where it calls setPermanently(false): at the     *)
(* point where we just want to stop ASAP, we never want to pause again.    *)
StopEndsPausing == \A t \in Threads : finished ~> (pc[t] # "sleep")

=============================================================================
