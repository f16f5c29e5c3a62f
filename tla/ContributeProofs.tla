-------------------------- MODULE ContributeProofs --------------------------
(***************************************************************************)
(* Proofs about Contribute, for any number of task and game threads, any   *)
(* games a task and any commands: the counts that main relies on when it   *)
(* joins the threads and frees what they shared.                           *)
(***************************************************************************)
EXTENDS Contribute, FiniteSetTheorems, TLAPS

-----------------------------------------------------------------------------
(* Stopping *)

(* StopIsFinal is not inductive: that the flag stays clear takes that it   *)
(* was cleared for good, and that main found shouldStop set, which ends    *)
(* the control loop.                                                       *)
StopInv ==
  /\ finished => ~value
  /\ shouldStopPrinted => finished
  /\ main \in {"joinStop", "end"} => shouldStop /\ command = "none"

(* What a check for a stop may do, whoever makes it. *)
LEMMA StopCheck ==
  ASSUME StopInv, shouldStopFunc
  PROVE  /\ finished' => ~value'
         /\ shouldStopPrinted' => finished'
  BY DEF StopInv, shouldStopFunc, setPermanently, flag

LEMMA StopSignal ==
  ASSUME StopInv, StopNow
  PROVE  /\ finished' => ~value'
         /\ finished'
  BY DEF StopInv, StopNow, setPermanently, flag

LEMMA StopThread ==
  ASSUME StopInv, NEW t \in Threads, ThreadStep(t) \/ SpuriousWakeup(t)
  PROVE  StopInv'
  <1> USE DEF StopInv, control
  <1>1. CASE FlagStep(t) \/ SpuriousWakeup(t)
    BY <1>1 DEF FlagStep, ReadFlag, WaitOnFlag, RecheckFlag, SpuriousWakeup, flag, stops
  <1>2. CASE lockLowPriority(t) \/ AskHighPriority(t) \/ lockHighPriority(t)
    BY <1>2 DEF lockLowPriority, AskHighPriority, lockHighPriority, flag, stops
  <1>3. CASE allocateGameTask(t) \/ PushGame(t) \/ PopGame(t)
    BY <1>3 DEF allocateGameTask, PushGame, PopGame, flag, stops
  <1>4. CASE PollStop(t) \/ StartGame(t) \/ PlayMove(t) \/ preDownload
    BY <1>4, StopCheck DEF PollStop, StartGame, PlayMove, preDownload
  <1>5. CASE QueryTask(t)
    <2> USE DEF QueryTask
    <2>1. UNCHANGED control
      BY <1>5
    <2>2. CASE shouldStopFunc /\ UNCHANGED shouldStop
      BY <2>1, <2>2, StopCheck
    <2>3. CASE StopNow /\ UNCHANGED shouldStopPrinted
      BY <2>1, <2>3, StopSignal DEF StopNow
    <2>4. CASE UNCHANGED <<flag, stops>>
      BY <2>1, <2>4 DEF flag, stops
    <2> QED
      BY <1>5, <2>2, <2>3, <2>4 DEF flag, stops
  <1> QED
    BY <1>1, <1>2, <1>3, <1>4, <1>5 DEF ThreadStep, TaskStep, GameStep

LEMMA StopControl ==
  ASSUME StopInv, \/ TakeCommand \/ ControlLoop \/ signalHandler
                  \/ stopLoop \/ MainShutdown \/ MainStopAll \/ MainEnd
  PROVE  StopInv'
  <1> USE DEF StopInv
  <1>1. CASE TakeCommand \/ signalHandler \/ MainEnd
    BY <1>1 DEF TakeCommand, signalHandler, MainEnd, flag, stops, control
  <1>2. CASE ControlLoop
    BY <1>2, StopSignal DEF ControlLoop, StopNow, set, flag
  <1>3. CASE stopLoop \/ MainShutdown
    BY <1>3, StopCheck DEF stopLoop, MainShutdown
  <1>4. CASE MainStopAll
    BY <1>4 DEF MainStopAll, setPermanently, flag
  <1> QED
    BY <1>1, <1>2, <1>3, <1>4

(* Once a thread has seen a stop and ended all pausing, no pause that was  *)
(* typed before sets the flag again; and main frees what it shares with    *)
(* the control loop outside any command.                                   *)
THEOREM StopFinal == Spec => []StopIsFinal
  <1>1. Init => StopInv
    BY DEF Init, StopInv
  <1>2. StopInv /\ [Next]_vars => StopInv'
    <2> SUFFICES ASSUME StopInv, [Next]_vars PROVE StopInv'
      OBVIOUS
    <2>1. CASE UNCHANGED vars
      BY <2>1 DEF vars, StopInv
    <2> QED
      BY <2>1, StopThread, StopControl DEF Next
  <1>3. StopInv => StopIsFinal
    BY DEF StopInv, StopIsFinal
  <1> QED
    BY <1>1, <1>2, <1>3, PTL DEF Spec

-----------------------------------------------------------------------------
(* Types *)

(* A thread pushes only while games of its task are left. *)
Typed == TypeOK /\ \A t \in TaskThreads : pc[t] = "push" => count[t] > 0

SharedTyped ==
  /\ value \in BOOLEAN /\ finished \in BOOLEAN /\ readOnly \in BOOLEAN /\ heldHigh \in BOOLEAN
  /\ shouldStop \in BOOLEAN /\ shouldStopGracefully \in BOOLEAN /\ shouldStopPrinted \in BOOLEAN
  /\ falseSleepers \subseteq Threads /\ lowSleepers \subseteq TaskThreads
  /\ holder \in TaskThreads \cup {NoThread}
  /\ queued \in 0 .. queueSize /\ numHighPriorityThreads \in Int /\ numActive \in Int

LEMMA TypeInit == Init => Typed
  <1> SUFFICES ASSUME Init PROVE Typed
    OBVIOUS
  <1> USE DEF Init
  <1>1. pc \in [Threads -> TaskPlaces \cup GamePlaces \cup PrePlaces] /\ \A t \in Threads : pc[t] \in Places(t) /\ pc[t] # "push"
    BY ThreadsAssumption DEF Threads, Places, TaskPlaces, GamePlaces, PrePlaces, Pausing
  <1>2. queued \in 0 .. queueSize /\ count \in [Threads -> Nat]
    BY DEF queueSize
  <1>3. SharedTyped
    <2>1. value \in BOOLEAN /\ finished \in BOOLEAN /\ readOnly \in BOOLEAN /\ heldHigh \in BOOLEAN
      OBVIOUS
    <2>2. shouldStop \in BOOLEAN /\ shouldStopGracefully \in BOOLEAN /\ shouldStopPrinted \in BOOLEAN
      OBVIOUS
    <2> QED
      BY <1>2, <2>1, <2>2 DEF SharedTyped
  <1>4. /\ command \in {"none"} \cup (Commands \ {"signal"})
        /\ main \in {"watch", "join", "joinStop", "end"}
        /\ stopThread \in {"unborn", "running", "ended"}
    OBVIOUS
  <1>5. \A t \in TaskThreads : pc[t] # "push"
    BY <1>1 DEF Threads
  <1> HIDE DEF Init
  <1> QED
    BY <1>1, <1>2, <1>3, <1>4, <1>5 DEF Typed, TypeOK, SharedTyped

(* A thread that goes to a place of its own loop. *)
LEMMA Goes ==
  ASSUME Typed, NEW t \in Threads, NEW label \in Places(t), Goto(t, label),
         SharedTyped', count' \in [Threads -> Nat],
         \A s \in Threads : s # t => count'[s] = count[s],
         label = "push" => count'[t] > 0, UNCHANGED control
  PROVE  Typed'
  <1>1. label \in TaskPlaces \cup GamePlaces \cup PrePlaces
    BY DEF Places, TaskPlaces, GamePlaces, PrePlaces, Pausing
  <1>2. pc' \in [Threads -> TaskPlaces \cup GamePlaces \cup PrePlaces] /\ \A s \in Threads : pc'[s] = IF s = t THEN label ELSE pc[s]
    BY <1>1 DEF Goto, Typed, TypeOK
  <1>3. \A s \in Threads : pc'[s] \in Places(s)
    BY <1>2 DEF Typed, TypeOK
  <1>4. \A s \in TaskThreads : pc'[s] = "push" => count'[s] > 0
    BY <1>2 DEF Typed, Threads
  <1> QED
    BY <1>2, <1>3, <1>4 DEF Typed, TypeOK, SharedTyped, control, Places

LEMMA UnlockTyped ==
  ASSUME Typed, unlock
  PROVE  /\ holder' \in TaskThreads \cup {NoThread} /\ heldHigh' \in BOOLEAN
         /\ numHighPriorityThreads' \in Int /\ lowSleepers' \subseteq TaskThreads
  <1> USE DEF Typed, TypeOK, unlock
  <1>1. holder' \in TaskThreads \cup {NoThread} /\ heldHigh' \in BOOLEAN
    OBVIOUS
  <1>2. numHighPriorityThreads' \in Int
    OBVIOUS
  <1>3. lowSleepers' \subseteq TaskThreads
    OBVIOUS
  <1> QED
    BY <1>1, <1>2, <1>3

LEMMA TypeThread ==
  ASSUME Typed, NEW t \in Threads, ThreadStep(t) \/ SpuriousWakeup(t)
  PROVE  Typed'
  <1> USE DEF Typed, TypeOK, SharedTyped, flag, stops, queue, taskLoopMutex
  <1>1. CASE FlagStep(t)
    <2>1. AfterPause(t) \in Places(t)
      BY DEF AfterPause, Places, TaskPlaces, GamePlaces, PrePlaces, Threads
    <2>2. {"wait", "sleep"} \subseteq Places(t) /\ AfterPause(t) # "push"
      BY DEF Places, TaskPlaces, GamePlaces, PrePlaces, Pausing, AfterPause
    <2>3. CASE ReadFlag(t)
      <3> USE <2>3, <2>1, <2>2 DEF ReadFlag
      <3> DEFINE label == IF value THEN "wait" ELSE AfterPause(t)
      <3>1. label \in Places(t) /\ label # "push" /\ Goto(t, label)
        OBVIOUS
      <3> HIDE DEF label
      <3> QED
        BY <3>1, Goes DEF ReadFlag
    <2>4. CASE WaitOnFlag(t)
      BY <2>4, <2>2, Goes DEF WaitOnFlag
    <2>5. CASE RecheckFlag(t)
      <3>1. CASE value
        BY <2>5, <3>1 DEF RecheckFlag, control
      <3>2. CASE ~value
        BY <2>5, <3>2, <2>1, <2>2, Goes DEF RecheckFlag
      <3> QED
        BY <3>1, <3>2
    <2> QED
      BY <1>1, <2>3, <2>4, <2>5 DEF FlagStep
  <1>2. CASE SpuriousWakeup(t)
    BY <1>2 DEF SpuriousWakeup, local, control
  <1>3. CASE t \in TaskThreads /\ TaskStep(t)
    <2>1. {"ended", "poll", "read", "locked", "download", "lockHigh", "allocate", "push"} \subseteq Places(t)
      BY <1>3 DEF Places, TaskPlaces, GamePlaces, PrePlaces, Pausing
    <2>2. PollStop(t) => Typed'
      BY <2>1, Goes DEF PollStop, shouldStopFunc, setPermanently, Notified
    <2>3. lockLowPriority(t) => Typed'
      <3>1. CASE numHighPriorityThreads > 0
        BY <1>3, <3>1 DEF lockLowPriority, control
      <3>2. CASE ~(numHighPriorityThreads > 0)
        BY <1>3, <3>2, <2>1, Goes DEF lockLowPriority
      <3> QED
        BY <3>1, <3>2
    <2>4. AskHighPriority(t) => Typed'
      BY <2>1, Goes DEF AskHighPriority
    <2>5. lockHighPriority(t) => Typed'
      BY <1>3, <2>1, Goes DEF lockHighPriority
    <2>6. ASSUME QueryTask(t) PROVE Typed'
      <3>1. PICK label \in {"ended", "poll", "download", "allocate"} : Goto(t, label)
        BY <2>6 DEF QueryTask
      <3>2. count' \in [Threads -> Nat] /\ \A s \in Threads : s # t => count'[s] = count[s]
        BY <2>6, RepAssumption DEF QueryTask
      <3>3. SharedTyped'
        <4>1. value' \in BOOLEAN /\ finished' \in BOOLEAN /\ falseSleepers' \subseteq Threads
              /\ shouldStop' \in BOOLEAN /\ shouldStopGracefully' \in BOOLEAN
              /\ shouldStopPrinted' \in BOOLEAN
          BY <2>6 DEF QueryTask, shouldStopFunc, StopNow, setPermanently, Notified
        <4>2. /\ holder' \in TaskThreads \cup {NoThread} /\ heldHigh' \in BOOLEAN
              /\ numHighPriorityThreads' \in Int /\ lowSleepers' \subseteq TaskThreads
          BY <2>6, UnlockTyped DEF QueryTask
        <4> QED
          BY <2>6, <4>1, <4>2 DEF QueryTask
      <3>4. UNCHANGED control
        BY <2>6 DEF QueryTask
      <3> QED
        BY <2>1, <3>1, <3>2, <3>3, <3>4, Goes
    <2>7. ASSUME allocateGameTask(t) PROVE Typed'
      <3>1. CASE count[t] = 0
        BY <2>7, <3>1, <2>1, Goes, UnlockTyped DEF allocateGameTask
      <3>2. CASE count[t] # 0
        <4>1. count[t] > 0
          BY <3>2
        <4> QED
          BY <2>7, <3>2, <4>1, <2>1, Goes DEF allocateGameTask
      <3> QED
        BY <3>1, <3>2
    <2>8. ASSUME PushGame(t) PROVE Typed'
      <3>1. CASE readOnly
        BY <2>8, <3>1, <2>1, Goes, UnlockTyped DEF PushGame, FreeUnpushed
      <3>2. CASE ~readOnly
        <4>1. count[t] > 0 /\ queued' \in 0 .. queueSize
          BY <2>8, <3>2, <1>3 DEF PushGame, queueSize
        <4> QED
          BY <2>8, <3>2, <4>1, <2>1, Goes DEF PushGame
      <3> QED
        BY <3>1, <3>2
    <2> QED
      BY <1>3, <2>2, <2>3, <2>4, <2>5, <2>6, <2>7, <2>8 DEF TaskStep
  <1>4. CASE t \in GameThreads /\ GameStep(t)
    <2>1. {"ended", "read", "pop"} \subseteq Places(t)
      BY <1>4, ThreadsAssumption DEF Places, TaskPlaces, GamePlaces, PrePlaces, Pausing
    <2>2. PopGame(t) => Typed'
      BY <2>1, Goes DEF PopGame, queueSize
    <2>3. ASSUME StartGame(t) \/ PlayMove(t) PROVE Typed'
      <3>1. /\ SharedTyped' /\ UNCHANGED control
            /\ count' \in [Threads -> Nat] /\ \A s \in Threads : s # t => count'[s] = count[s]
        <4>1. value' \in BOOLEAN /\ finished' \in BOOLEAN /\ falseSleepers' \subseteq Threads
              /\ shouldStopPrinted' \in BOOLEAN
          BY <2>3 DEF StartGame, PlayMove, shouldStopFunc, setPermanently, Notified
        <4>2. numActive' \in Int
          BY <2>3 DEF StartGame, PlayMove, freeGameTask
        <4>3. count' \in [Threads -> Nat] /\ \A s \in Threads : s # t => count'[s] = count[s]
          BY <2>3, RepAssumption DEF StartGame, PlayMove, freeGameTask
        <4> QED
          BY <2>3, <4>1, <4>2, <4>3 DEF StartGame, PlayMove
      <3>2. Goto(t, "pop") \/ Goto(t, "read")
        BY <2>3 DEF StartGame, PlayMove, freeGameTask
      <3> QED
        BY <2>1, <3>1, <3>2, Goes
    <2> QED
      BY <1>4, <2>2, <2>3 DEF GameStep
  <1>5. CASE t = PreThread /\ preDownload
    <2>1. {"ended", "read"} \subseteq Places(t)
      BY DEF Places, TaskPlaces, GamePlaces, PrePlaces, Pausing
    <2> QED
      BY <1>5, <2>1, Goes DEF preDownload, shouldStopFunc, setPermanently, Notified
  <1> QED
    BY <1>1, <1>2, <1>3, <1>4, <1>5 DEF ThreadStep

LEMMA TypeControl ==
  ASSUME Typed, \/ TakeCommand \/ ControlLoop \/ signalHandler
                \/ stopLoop \/ MainShutdown \/ MainStopAll \/ MainEnd
  PROVE  Typed'
  <1> USE DEF Typed, TypeOK, flag, stops, queue, taskLoopMutex, local, control
  <1>1. CASE TakeCommand \/ signalHandler \/ MainEnd
    <2>1. CASE TakeCommand
      BY <2>1 DEF TakeCommand
    <2>2. CASE signalHandler
      <3>1. shouldStop' \in BOOLEAN /\ shouldStopGracefully' \in BOOLEAN
        BY <2>2 DEF signalHandler
      <3> QED
        BY <2>2, <3>1 DEF signalHandler
    <2>3. CASE MainEnd
      BY <2>3 DEF MainEnd
    <2> QED
      BY <1>1, <2>1, <2>2, <2>3
  <1>2. CASE ControlLoop
    <2>1. value' \in BOOLEAN /\ finished' \in BOOLEAN /\ falseSleepers' \subseteq Threads
      BY <1>2 DEF ControlLoop, StopNow, set, setPermanently, Notified
    <2>2. shouldStop' \in BOOLEAN /\ shouldStopGracefully' \in BOOLEAN /\ command' = "none"
      BY <1>2 DEF ControlLoop, StopNow
    <2>3. UNCHANGED <<shouldStopPrinted, queue, taskLoopMutex, local, main, stopThread>>
      BY <1>2 DEF ControlLoop
    <2> QED
      BY <2>1, <2>2, <2>3
  <1>3. CASE stopLoop \/ MainShutdown \/ MainStopAll
    <2>1. value' \in BOOLEAN /\ finished' \in BOOLEAN /\ falseSleepers' \subseteq Threads
      BY <1>3 DEF stopLoop, MainShutdown, MainStopAll, shouldStopFunc, setPermanently, Notified
    <2>2. shouldStop' \in BOOLEAN /\ shouldStopGracefully' \in BOOLEAN
          /\ shouldStopPrinted' \in BOOLEAN /\ readOnly' \in BOOLEAN
      BY <1>3 DEF stopLoop, MainShutdown, MainStopAll, shouldStopFunc
    <2>3. /\ main' \in {"watch", "join", "joinStop", "end"}
          /\ stopThread' \in {"unborn", "running", "ended"}
      BY <1>3 DEF stopLoop, MainShutdown, MainStopAll
    <2>4. UNCHANGED <<queued, taskLoopMutex, local, command>>
      BY <1>3 DEF stopLoop, MainShutdown, MainStopAll
    <2> QED
      BY <2>1, <2>2, <2>3, <2>4
  <1> QED
    BY <1>1, <1>2, <1>3

LEMMA TypeStep == Typed /\ [Next]_vars => Typed'
  <1> SUFFICES ASSUME Typed, [Next]_vars PROVE Typed'
    OBVIOUS
  <1>1. CASE UNCHANGED vars
    BY <1>1 DEF vars, Typed, TypeOK
  <1> QED
    BY <1>1, TypeThread, TypeControl DEF Next

(* Every thread stays in its loop and everything shared keeps its type.    *)
THEOREM ContributeTypeCorrect == Spec => []TypeOK
  BY TypeInit, TypeStep, PTL DEF Spec, Typed

-----------------------------------------------------------------------------
(* The mutex of the task loops *)

(* One element more, one fewer. *)
LEMMA OneMore ==
  ASSUME NEW S, NEW T, IsFiniteSet(S), NEW x, x \notin S, T = S \cup {x}
  PROVE  Cardinality(T) = Cardinality(S) + 1
  BY FS_AddElement

LEMMA OneFewer ==
  ASSUME NEW S, NEW T, IsFiniteSet(S), NEW x \in S, T = S \ {x}
  PROVE  Cardinality(T) = Cardinality(S) - 1
  BY FS_RemoveElement

HighOnes == {t \in TaskThreads : pc[t] = "lockHigh" \/ (holder = t /\ heldHigh)}
Critical(t) == pc[t] \in InCriticalSection

LEMMA HighOnesFinite == IsFiniteSet(HighOnes) /\ Cardinality(HighOnes) \in Nat
  <1>1. HighOnes \subseteq TaskThreads
    BY DEF HighOnes
  <1> QED
    BY <1>1, ThreadsAssumption, FS_Subset, FS_CardinalityType

(* Where everybody is after a thread went somewhere. *)
LEMMA Moved ==
  ASSUME Typed, NEW t \in Threads, NEW label, Goto(t, label)
  PROVE  \A s \in Threads : pc'[s] = IF s = t THEN label ELSE pc[s]
  BY DEF Goto, Typed, TypeOK

(* A step away from the mutex. *)
LEMMA TurnsQuiet ==
  ASSUME TaskLoopsTakeTurns, UNCHANGED taskLoopMutex,
         \A t \in TaskThreads : /\ Critical(t)' <=> Critical(t)
                                /\ pc'[t] = "lockHigh" <=> pc[t] = "lockHigh"
  PROVE  TaskLoopsTakeTurns'
  <1>1. HighOnes' = HighOnes
    BY DEF HighOnes, taskLoopMutex
  <1> QED
    BY <1>1 DEF TaskLoopsTakeTurns, HighOnes, Critical, taskLoopMutex

LEMMA TurnsGoto ==
  ASSUME Typed, TaskLoopsTakeTurns, UNCHANGED taskLoopMutex, NEW t \in Threads, NEW label,
         Goto(t, label), label # "lockHigh", pc[t] # "lockHigh",
         label \in InCriticalSection <=> Critical(t)
  PROVE  TaskLoopsTakeTurns'
  BY Moved, TurnsQuiet DEF Critical, Threads

LEMMA TurnsUnlock ==
  ASSUME Typed, TaskLoopsTakeTurns, NEW t \in TaskThreads, Critical(t), unlock,
         NEW label \in {"ended", "poll", "download"}, Goto(t, label)
  PROVE  TaskLoopsTakeTurns'
  <1>1. \A s \in TaskThreads : pc'[s] = IF s = t THEN label ELSE pc[s]
    BY Moved DEF Threads
  <1>2. holder = t /\ holder' = NoThread /\ heldHigh' = FALSE
    BY DEF unlock, TaskLoopsTakeTurns, Critical
  <1>3. \A s \in TaskThreads : pc'[s] \in InCriticalSection <=> holder' = s
    BY <1>1, <1>2, ThreadsAssumption DEF TaskLoopsTakeTurns, InCriticalSection
  <1>4. HighOnes' = HighOnes \ {t} /\ (t \in HighOnes <=> heldHigh)
    BY <1>1, <1>2, ThreadsAssumption DEF HighOnes, Critical, InCriticalSection
  <1>5. numHighPriorityThreads = Cardinality(HighOnes)
    BY DEF TaskLoopsTakeTurns, HighOnes
  <1>6. /\ numHighPriorityThreads' = Cardinality(HighOnes')
        /\ lowSleepers' # {} => numHighPriorityThreads' > 0
    <2>1. CASE heldHigh
      <3>1. Cardinality(HighOnes') = Cardinality(HighOnes) - 1
        BY <1>4, <2>1, HighOnesFinite, OneFewer
      <3> QED
        BY <2>1, <3>1, <1>5, HighOnesFinite DEF unlock
    <2>2. CASE ~heldHigh
      <3>1. HighOnes' = HighOnes
        BY <1>4, <2>2
      <3> QED
        BY <2>2, <3>1, <1>5 DEF unlock, TaskLoopsTakeTurns
    <2> QED
      BY <2>1, <2>2
  <1> QED
    BY <1>3, <1>6 DEF TaskLoopsTakeTurns, HighOnes

LEMMA TurnsLock ==
  ASSUME Typed, TaskLoopsTakeTurns, NEW t \in TaskThreads,
         lockLowPriority(t) \/ AskHighPriority(t) \/ lockHighPriority(t)
  PROVE  TaskLoopsTakeTurns'
  <1> USE ThreadsAssumption DEF InCriticalSection
  <1>1. numHighPriorityThreads = Cardinality(HighOnes)
    BY DEF TaskLoopsTakeTurns, HighOnes
  <1>2. CASE lockLowPriority(t)
    <2>1. CASE numHighPriorityThreads > 0
      <3>1. UNCHANGED <<pc, holder, heldHigh, numHighPriorityThreads>>
        BY <1>2, <2>1 DEF lockLowPriority
      <3> QED
        BY <3>1, <2>1 DEF TaskLoopsTakeTurns
    <2>2. CASE ~(numHighPriorityThreads > 0)
      <3>1. \A s \in TaskThreads : pc'[s] = IF s = t THEN "locked" ELSE pc[s]
        BY <1>2, <2>2, Moved DEF lockLowPriority, Threads
      <3>2. holder = NoThread /\ holder' = t /\ heldHigh' = FALSE /\ pc[t] = "lockLow"
        BY <1>2, <2>2 DEF lockLowPriority
      <3>3. HighOnes' = HighOnes
        BY <3>1, <3>2 DEF HighOnes
      <3>4. \A s \in TaskThreads : pc'[s] \in InCriticalSection <=> holder' = s
        BY <3>1, <3>2 DEF TaskLoopsTakeTurns
      <3> QED
        BY <1>1, <1>2, <2>2, <3>3, <3>4 DEF TaskLoopsTakeTurns, HighOnes, lockLowPriority
    <2> QED
      BY <2>1, <2>2
  <1>3. CASE AskHighPriority(t)
    <2>1. \A s \in TaskThreads : pc'[s] = IF s = t THEN "lockHigh" ELSE pc[s]
      BY <1>3, Moved DEF AskHighPriority, Threads
    <2>2. pc[t] = "download" /\ UNCHANGED <<holder, heldHigh>>
      BY <1>3 DEF AskHighPriority
    <2>3. holder # t
      BY <2>2 DEF TaskLoopsTakeTurns
    <2>4. t \notin HighOnes /\ HighOnes' = HighOnes \cup {t}
      BY <2>1, <2>2, <2>3 DEF HighOnes
    <2>5. Cardinality(HighOnes') = Cardinality(HighOnes) + 1
      BY <2>4, HighOnesFinite, OneMore
    <2>6. \A s \in TaskThreads : pc'[s] \in InCriticalSection <=> holder' = s
      BY <2>1, <2>2 DEF TaskLoopsTakeTurns
    <2> QED
      BY <1>1, <1>3, <2>5, <2>6, HighOnesFinite DEF TaskLoopsTakeTurns, HighOnes, AskHighPriority
  <1>4. CASE lockHighPriority(t)
    <2>1. \A s \in TaskThreads : pc'[s] = IF s = t THEN "locked" ELSE pc[s]
      BY <1>4, Moved DEF lockHighPriority, Threads
    <2>2. holder = NoThread /\ holder' = t /\ heldHigh' = TRUE /\ pc[t] = "lockHigh"
      BY <1>4 DEF lockHighPriority
    <2>3. HighOnes' = HighOnes
      BY <2>1, <2>2 DEF HighOnes
    <2>4. \A s \in TaskThreads : pc'[s] \in InCriticalSection <=> holder' = s
      BY <2>1, <2>2 DEF TaskLoopsTakeTurns
    <2> QED
      BY <1>1, <1>4, <2>3, <2>4 DEF TaskLoopsTakeTurns, HighOnes, lockHighPriority
  <1> QED
    BY <1>2, <1>3, <1>4

LEMMA TurnsThread ==
  ASSUME Typed, TaskLoopsTakeTurns, NEW t \in Threads, ThreadStep(t) \/ SpuriousWakeup(t)
  PROVE  TaskLoopsTakeTurns'
  <1> USE DEF Critical, InCriticalSection
  <1>1. CASE FlagStep(t)
    <2>1. AfterPause(t) \in {"lockLow", "move", "check"}
      BY DEF AfterPause
    <2>2. pc[t] \in {"read", "wait", "sleep"} /\ UNCHANGED taskLoopMutex
      BY <1>1 DEF FlagStep, ReadFlag, WaitOnFlag, RecheckFlag
    <2>3. UNCHANGED pc \/ \E label \in {"wait", "sleep", "lockLow", "move", "check"} : Goto(t, label)
      BY <1>1, <2>1 DEF FlagStep, ReadFlag, WaitOnFlag, RecheckFlag
    <2> QED
      BY <2>2, <2>3, TurnsGoto, TurnsQuiet
  <1>2. CASE SpuriousWakeup(t)
    BY <1>2, TurnsQuiet DEF SpuriousWakeup, local
  <1>3. CASE t \in TaskThreads /\ TaskStep(t)
    <2>1. PollStop(t) => TaskLoopsTakeTurns'
      BY TurnsGoto DEF PollStop
    <2>2. ASSUME QueryTask(t) PROVE TaskLoopsTakeTurns'
      <3>1. \/ \E label \in {"ended", "poll", "download"} : unlock /\ Goto(t, label)
            \/ Goto(t, "allocate") /\ UNCHANGED taskLoopMutex
        BY <2>2 DEF QueryTask
      <3>2. pc[t] = "locked"
        BY <2>2 DEF QueryTask
      <3> QED
        BY <1>3, <3>1, <3>2, TurnsUnlock, TurnsGoto
    <2>3. ASSUME allocateGameTask(t) \/ PushGame(t) PROVE TaskLoopsTakeTurns'
      <3>1. \/ unlock /\ Goto(t, "poll")
            \/ \E label \in {"push", "allocate"} : Goto(t, label) /\ UNCHANGED taskLoopMutex
        BY <2>3 DEF allocateGameTask, PushGame
      <3>2. pc[t] \in {"allocate", "push"}
        BY <2>3 DEF allocateGameTask, PushGame
      <3> QED
        BY <1>3, <3>1, <3>2, TurnsUnlock, TurnsGoto
    <2> QED
      BY <1>3, <2>1, <2>2, <2>3, TurnsLock DEF TaskStep
  <1>4. CASE t \in GameThreads /\ GameStep(t)
    <2>1. t \notin TaskThreads /\ UNCHANGED taskLoopMutex
      BY <1>4, ThreadsAssumption DEF GameStep, PopGame, StartGame, PlayMove
    <2>2. PICK label : Goto(t, label)
      BY <1>4 DEF GameStep, PopGame, StartGame, PlayMove, freeGameTask
    <2> QED
      BY <2>1, <2>2, Moved, TurnsQuiet DEF Threads
  <1>5. CASE t = PreThread /\ preDownload
    <2>1. t \notin TaskThreads /\ UNCHANGED taskLoopMutex
      BY <1>5, ThreadsAssumption DEF preDownload
    <2>2. PICK label : Goto(t, label)
      BY <1>5 DEF preDownload
    <2> QED
      BY <2>1, <2>2, Moved, TurnsQuiet DEF Threads
  <1> QED
    BY <1>1, <1>2, <1>3, <1>4, <1>5 DEF ThreadStep

(* The control loop, signals and main touch neither the mutex nor where    *)
(* any thread is.                                                          *)
LEMMA ControlIsElsewhere ==
  ASSUME \/ TakeCommand \/ ControlLoop \/ signalHandler
         \/ stopLoop \/ MainShutdown \/ MainStopAll \/ MainEnd
  PROVE  UNCHANGED <<taskLoopMutex, local, queued>> /\ (readOnly => readOnly')
  <1>1. UNCHANGED <<taskLoopMutex, local, queued>>
    BY DEF TakeCommand, ControlLoop, signalHandler, stopLoop, MainShutdown, MainStopAll, MainEnd, queue
  <1>2. readOnly' = TRUE \/ UNCHANGED readOnly
    BY DEF TakeCommand, ControlLoop, signalHandler, stopLoop, MainShutdown, MainStopAll, MainEnd, queue
  <1> QED
    BY <1>1, <1>2

(* The task loops take turns, the count of high-priority threads is theirs *)
(* and no low-priority thread sleeps without one that will wake it.        *)
THEOREM TurnsTaken == Spec => []TaskLoopsTakeTurns
  <1>1. Init => TaskLoopsTakeTurns
    <2> SUFFICES ASSUME Init PROVE TaskLoopsTakeTurns
      OBVIOUS
    <2>1. \A t \in TaskThreads : pc[t] = "poll" /\ holder # t
      BY ThreadsAssumption DEF Init, Threads
    <2>2. HighOnes = {}
      BY <2>1 DEF HighOnes
    <2> QED
      BY <2>1, <2>2, FS_EmptySet DEF Init, TaskLoopsTakeTurns, HighOnes, InCriticalSection
  <1>2. Typed /\ TaskLoopsTakeTurns /\ [Next]_vars => TaskLoopsTakeTurns'
    <2> SUFFICES ASSUME Typed, TaskLoopsTakeTurns, [Next]_vars PROVE TaskLoopsTakeTurns'
      OBVIOUS
    <2>1. CASE UNCHANGED vars
      BY <2>1, TurnsQuiet DEF vars, Critical, taskLoopMutex
    <2>2. CASE \E t \in Threads : ThreadStep(t) \/ SpuriousWakeup(t)
      BY <2>2, TurnsThread
    <2>3. CASE ~\E t \in Threads : ThreadStep(t) \/ SpuriousWakeup(t)
      BY <2>1, <2>3, ControlIsElsewhere, TurnsQuiet DEF Next, Critical, local
    <2> QED
      BY <2>2, <2>3
  <1> QED
    BY <1>1, <1>2, TypeInit, TypeStep, PTL DEF Spec

-----------------------------------------------------------------------------
(* Games *)

(* GamesAccountedFor is inductive with one fact more: a game loop ends only*)
(* when the queue is empty and takes nothing more.                         *)
Pushing == {t \in TaskThreads : pc[t] = "push"}
Playing == {t \in GameThreads : pc[t] \notin {"pop", "ended"}}
GamesInv ==
  /\ numActive = queued + Cardinality(Pushing) + Cardinality(Playing)
  /\ \A t \in GameThreads : pc[t] = "ended" => queued = 0 /\ readOnly

LEMMA GamesFinite ==
  /\ IsFiniteSet(Pushing) /\ Cardinality(Pushing) \in Nat
  /\ IsFiniteSet(Playing) /\ Cardinality(Playing) \in Nat
  <1>1. Pushing \subseteq TaskThreads /\ Playing \subseteq GameThreads
    BY DEF Pushing, Playing
  <1> QED
    BY <1>1, ThreadsAssumption, FS_Subset, FS_CardinalityType

(* A step that neither gains nor loses a game. *)
LEMMA GamesQuiet ==
  ASSUME GamesInv, UNCHANGED <<queued, numActive>>, readOnly => readOnly',
         \A t \in TaskThreads : pc'[t] = "push" <=> pc[t] = "push",
         \A t \in GameThreads : /\ pc'[t] \in {"pop", "ended"} <=> pc[t] \in {"pop", "ended"}
                                /\ pc'[t] = "ended" => pc[t] = "ended"
  PROVE  GamesInv'
  <1>1. Pushing' = Pushing /\ Playing' = Playing
    BY DEF Pushing, Playing
  <1> QED
    BY <1>1 DEF GamesInv

LEMMA GamesTask ==
  ASSUME Typed, GamesInv, NEW t \in TaskThreads, TaskStep(t)
  PROVE  GamesInv'
  <1> USE GamesFinite DEF Typed, TypeOK, GamesInv, taskLoopMutex, queue
  <1>1. t \in Threads /\ t \notin GameThreads
    BY ThreadsAssumption DEF Threads
  <1>2. ASSUME NEW label, Goto(t, label)
        PROVE  /\ \A s \in TaskThreads : pc'[s] = IF s = t THEN label ELSE pc[s]
               /\ \A s \in GameThreads : pc'[s] = pc[s]
               /\ Playing' = Playing
    <2>1. \A s \in Threads : pc'[s] = IF s = t THEN label ELSE pc[s]
      BY <1>1, <1>2, Moved
    <2>2. \A s \in GameThreads : pc'[s] = pc[s]
      BY <1>1, <2>1 DEF Threads
    <2> QED
      BY <2>1, <2>2 DEF Playing, Threads
  <1>3. ASSUME UNCHANGED <<queue, numActive>>, pc[t] # "push",
               UNCHANGED pc \/ \E label : label # "push" /\ Goto(t, label)
        PROVE  GamesInv'
    BY <1>2, <1>3, GamesQuiet
  <1>4. ASSUME PollStop(t) \/ lockLowPriority(t) \/ AskHighPriority(t) \/ lockHighPriority(t) \/ QueryTask(t)
        PROVE  GamesInv'
    <2>1. UNCHANGED <<queue, numActive>> /\ pc[t] # "push"
      BY <1>4 DEF PollStop, lockLowPriority, AskHighPriority, lockHighPriority, QueryTask
    <2>2. UNCHANGED pc \/ \E label : label # "push" /\ Goto(t, label)
      BY <1>4 DEF PollStop, lockLowPriority, AskHighPriority, lockHighPriority, QueryTask
    <2> QED
      BY <1>3, <2>1, <2>2
  <1>5. ASSUME allocateGameTask(t) PROVE GamesInv'
    <2>1. CASE count[t] = 0
      BY <1>5, <2>1, <1>3 DEF allocateGameTask
    <2>2. CASE count[t] # 0
      <3>1. Goto(t, "push") /\ pc[t] = "allocate" /\ numActive' = numActive + 1 /\ UNCHANGED queue
        BY <1>5, <2>2 DEF allocateGameTask
      <3>2. t \notin Pushing /\ Pushing' = Pushing \cup {t}
        BY <3>1, <1>2 DEF Pushing
      <3>3. Cardinality(Pushing') = Cardinality(Pushing) + 1
        BY <3>2, OneMore
      <3> QED
        BY <1>2, <3>1, <3>3
    <2> QED
      BY <2>1, <2>2
  <1>6. ASSUME PushGame(t) PROVE GamesInv'
    <2>1. PICK label \in {"poll", "allocate"} : Goto(t, label)
      BY <1>6 DEF PushGame
    <2>2. pc[t] = "push" /\ UNCHANGED readOnly
      BY <1>6 DEF PushGame
    <2>3. t \in Pushing /\ Pushing' = Pushing \ {t}
      BY <1>2, <2>1, <2>2 DEF Pushing
    <2>4. Cardinality(Pushing') = Cardinality(Pushing) - 1
      BY <2>3, OneFewer
    <2>5. CASE readOnly
      BY <1>2, <1>6, <2>1, <2>2, <2>4, <2>5 DEF PushGame, FreeUnpushed
    <2>6. CASE ~readOnly
      <3>1. queued' = queued + 1 /\ UNCHANGED numActive
        BY <1>6, <2>6 DEF PushGame
      <3> QED
        BY <1>2, <2>1, <2>2, <2>4, <2>6, <3>1
    <2> QED
      BY <2>5, <2>6
  <1> QED
    BY <1>4, <1>5, <1>6 DEF TaskStep

LEMMA GamesGame ==
  ASSUME Typed, GamesInv, NEW t \in GameThreads, GameStep(t)
  PROVE  GamesInv'
  <1> USE GamesFinite DEF Typed, TypeOK, GamesInv, queue
  <1>1. t \in Threads /\ t \notin TaskThreads
    BY ThreadsAssumption DEF Threads
  <1>2. ASSUME NEW label, Goto(t, label)
        PROVE  /\ \A s \in GameThreads : pc'[s] = IF s = t THEN label ELSE pc[s]
               /\ \A s \in TaskThreads : pc'[s] = pc[s]
               /\ Pushing' = Pushing
    <2>1. \A s \in Threads : pc'[s] = IF s = t THEN label ELSE pc[s]
      BY <1>1, <1>2, Moved
    <2>2. \A s \in TaskThreads : pc'[s] = pc[s]
      BY <1>1, <2>1 DEF Threads
    <2> QED
      BY <2>1, <2>2 DEF Pushing, Threads
  <1>3. ASSUME freeGameTask(t), pc[t] \in {"check", "move"}, UNCHANGED queue PROVE GamesInv'
    <2>1. Goto(t, "pop") /\ numActive' = numActive - 1
      BY <1>3 DEF freeGameTask
    <2>2. t \in Playing /\ Playing' = Playing \ {t}
      BY <1>2, <1>3, <2>1 DEF Playing
    <2>3. Cardinality(Playing') = Cardinality(Playing) - 1
      BY <2>2, OneFewer
    <2> QED
      BY <1>2, <1>3, <2>1, <2>3
  <1>4. ASSUME StartGame(t) \/ PlayMove(t) PROVE GamesInv'
    <2>1. pc[t] \in {"check", "move"} /\ UNCHANGED queue
      BY <1>4 DEF StartGame, PlayMove
    <2>2. freeGameTask(t) \/ (Goto(t, "read") /\ UNCHANGED numActive)
      BY <1>4 DEF StartGame, PlayMove
    <2> QED
      BY <1>2, <1>3, <2>1, <2>2, GamesQuiet
  <1>5. ASSUME PopGame(t) PROVE GamesInv'
    <2>1. pc[t] = "pop" /\ UNCHANGED <<readOnly, numActive>>
      BY <1>5 DEF PopGame
    <2>2. CASE queued > 0
      <3>1. Goto(t, "read") /\ queued' = queued - 1
        BY <1>5, <2>2 DEF PopGame
      <3>2. t \notin Playing /\ Playing' = Playing \cup {t}
        BY <1>2, <2>1, <3>1 DEF Playing
      <3>3. Cardinality(Playing') = Cardinality(Playing) + 1
        BY <3>2, OneMore
      <3> QED
        BY <1>2, <2>1, <2>2, <3>1, <3>3
    <2>3. CASE ~(queued > 0)
      <3>1. Goto(t, "ended") /\ queued' = 0 /\ queued = 0 /\ readOnly
        BY <1>5, <2>3 DEF PopGame
      <3>2. Playing' = Playing
        BY <1>2, <2>1, <3>1 DEF Playing
      <3> QED
        BY <1>2, <2>1, <3>1, <3>2
    <2> QED
      BY <2>2, <2>3
  <1> QED
    BY <1>4, <1>5 DEF GameStep

LEMMA GamesThread ==
  ASSUME Typed, GamesInv, NEW t \in Threads, ThreadStep(t) \/ SpuriousWakeup(t)
  PROVE  GamesInv'
  <1>1. CASE FlagStep(t)
    <2>1. AfterPause(t) \in {"lockLow", "move", "check"}
      BY DEF AfterPause
    <2>2. pc[t] \in {"read", "wait", "sleep"} /\ UNCHANGED <<queued, readOnly, numActive>>
      BY <1>1 DEF FlagStep, ReadFlag, WaitOnFlag, RecheckFlag, queue
    <2>3. UNCHANGED pc \/ \E label \in {"wait", "sleep", "lockLow", "move", "check"} : Goto(t, label)
      BY <1>1, <2>1 DEF FlagStep, ReadFlag, WaitOnFlag, RecheckFlag
    <2>4. \A s \in Threads : \/ pc'[s] = pc[s]
                            \/ {pc[s], pc'[s]} \cap {"push", "pop", "ended"} = {}
      BY <2>2, <2>3, Moved
    <2> QED
      BY <2>2, <2>4, GamesQuiet DEF Threads
  <1>2. CASE SpuriousWakeup(t)
    BY <1>2, GamesQuiet DEF SpuriousWakeup, local, queue
  <1>3. CASE t = PreThread /\ preDownload
    <2>1. t \notin TaskThreads /\ t \notin GameThreads /\ UNCHANGED <<queued, readOnly, numActive>>
      BY <1>3, ThreadsAssumption DEF preDownload, queue
    <2>2. PICK label : Goto(t, label)
      BY <1>3 DEF preDownload
    <2>3. \A s \in TaskThreads \cup GameThreads : pc'[s] = pc[s]
      BY <2>1, <2>2, Moved DEF Threads
    <2> QED
      BY <2>1, <2>3, GamesQuiet
  <1> QED
    BY <1>1, <1>2, <1>3, GamesTask, GamesGame DEF ThreadStep

(* Every game whose models are acquired is in the hands of one thread or   *)
(* in the queue, and when the threads have ended there is none: main       *)
(* deletes managers that nobody uses.                                      *)
THEOREM GamesCounted == Spec => []GamesAccountedFor
  <1>1. Init => GamesInv
    <2> SUFFICES ASSUME Init PROVE GamesInv
      OBVIOUS
    <2>1. /\ \A t \in TaskThreads : pc[t] = "poll"
          /\ \A t \in GameThreads : pc[t] = "pop"
      BY ThreadsAssumption DEF Init, Threads
    <2>2. Pushing = {} /\ Playing = {}
      BY <2>1 DEF Pushing, Playing
    <2>3. numActive = 0 /\ queued = 0
      BY DEF Init
    <2>4. Cardinality(Pushing) = 0 /\ Cardinality(Playing) = 0
      BY <2>2, FS_EmptySet
    <2> QED
      BY <2>1, <2>3, <2>4 DEF GamesInv
  <1>2. Typed /\ GamesInv /\ [Next]_vars => GamesInv'
    <2> SUFFICES ASSUME Typed, GamesInv, [Next]_vars PROVE GamesInv'
      OBVIOUS
    <2>1. CASE UNCHANGED vars
      BY <2>1, GamesQuiet DEF vars
    <2>2. CASE \E t \in Threads : ThreadStep(t) \/ SpuriousWakeup(t)
      BY <2>2, GamesThread
    <2>3. CASE ~\E t \in Threads : ThreadStep(t) \/ SpuriousWakeup(t)
      BY <2>1, <2>3, ControlIsElsewhere, GamesQuiet DEF Next, local
    <2> QED
      BY <2>2, <2>3
  <1>3. GamesInv => GamesAccountedFor
    <2> SUFFICES ASSUME GamesInv PROVE GamesAccountedFor
      OBVIOUS
    <2>1. ASSUME \A t \in Threads : Ended(t) PROVE numActive = 0
      <3>1. Pushing = {} /\ Playing = {}
        BY <2>1 DEF Pushing, Playing, Ended, Threads
      <3>2. queued = 0
        BY <2>1, ThreadsAssumption DEF GamesInv, Ended, Threads
      <3> QED
        BY <3>1, <3>2, FS_EmptySet DEF GamesInv
    <2>2. numActive = queued + Cardinality({t \in TaskThreads : pc[t] = "push"})
                             + Cardinality({t \in GameThreads : pc[t] \notin {"pop", "ended"}})
      BY DEF GamesInv, Pushing, Playing
    <2> QED
      BY <2>1, <2>2, Zenon DEF GamesAccountedFor
  <1> QED
    BY <1>1, <1>2, <1>3, TypeInit, TypeStep, PTL DEF Spec

=============================================================================
