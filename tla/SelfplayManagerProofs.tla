----------------------- MODULE SelfplayManagerProofs -----------------------
(***************************************************************************)
(* Proofs about SelfplayManager, for any threads, models, games and sizes  *)
(* of data queues: types, that no model is freed while somebody uses it,   *)
(* and that no finished game is lost.                                      *)
(***************************************************************************)
EXTENDS SelfplayManager, FiniteSetTheorems, SequenceTheorems, TLAPS

-----------------------------------------------------------------------------
(* Control.  The types of the models that threads acquire depend on that   *)
(* there is one, so they are proved together with where everybody is.      *)

Joined == main \in {"joiningLoader", "waiting", "ended"}
Destroyed == main \in {"waiting", "ended"}

ThreadsInv ==
  /\ \A t \in Threads :
       /\ thread[t] \in {"starting", "comparing", "enqueuing", "pushing", "leaving"} => ~distributed
       /\ thread[t] = "writing" => distributed
       /\ thread[t] = "gone" /\ distributed => main # "joining" /\ gameTaskQueue = <<>>
  /\ Joined => \A t \in Threads : thread[t] = "gone"

LoaderInv ==
  /\ loader \in {"acquiring", "pushing"} <=> task # NoModel
  /\ task # NoModel => distributed
  /\ gameTaskQueue # <<>> => distributed /\ \E m \in Models : gameTaskQueue = <<m>>
  /\ distributed /\ Joined => loader = "gone"
  /\ Destroyed => loader = "gone" /\ modelDatas = {}
  /\ ~distributed /\ ~Destroyed => numLoaded \in modelDatas

LoopsInv ==
  /\ modelDatas \cap readOnly = {} /\ freed \subseteq readOnly
  /\ \A m \in Models :
       /\ writeLoop[m] # "none" <=> ~distributed /\ m <= numLoaded
       /\ writeLoop[m] \in {"closing", "checkingIn", "gone"} => m \in readOnly
       /\ ~distributed /\ m \in freed => writeLoop[m] \in {"checkingIn", "gone"}

ControlInv == ThreadsInv /\ LoaderInv /\ LoopsInv

Active == {m \in Models : writeLoop[m] \notin {"none", "gone"}}
LoopsCounted == numDataWriteLoopsActive = Cardinality(Active)

LEMMA ControlInit == Init => TypeOK /\ ControlInv
  <1> SUFFICES ASSUME Init PROVE TypeOK /\ ControlInv
    OBVIOUS
  <1> USE DEF Init, NoModel, NoGame, Models
  <1>1. TypeOK
    <2>1. MaxModels \in Nat \ {0}
      BY BoundsAssumption
    <2>2. /\ numLoaded \in 0 .. MaxModels /\ modelDatas \subseteq 1 .. numLoaded
          /\ readOnly \subseteq 1 .. numLoaded /\ freed \subseteq 1 .. numLoaded
          /\ numDataWriteLoopsActive \in Int
      BY <2>1
    <2>3. /\ finishedGameQueue \in [Models -> Seq(Nat)] /\ gameTaskQueue \in Seq(Models)
          /\ written \in Seq(Nat \X Models)
      BY EmptySeq
    <2>4. /\ writeLoop \in [Models -> {"none", "popping", "writing", "closing", "checkingIn", "gone"}]
          /\ acquireCount \in [Models -> Int] /\ writing \in [Models -> Nat]
      BY <2>1
    <2>5. /\ nnEval \in [Threads -> 0 .. MaxModels] /\ newNNEval \in [Threads -> 0 .. MaxModels]
          /\ game \in [Threads -> Nat] /\ task \in 0 .. MaxModels
      BY <2>1
    <2>6. thread \in [Threads -> {"free", "starting", "playing", "comparing", "enqueuing", "pushing",
                             "writing", "releasing", "leaving", "gone"}]
      OBVIOUS
    <2> QED
      BY <2>2, <2>3, <2>4, <2>5, <2>6 DEF TypeOK
  <1>2. ThreadsInv
    BY DEF ThreadsInv, Joined
  <1>3. LoaderInv
    BY DEF LoaderInv, Joined, Destroyed
  <1>4. LoopsInv
    BY BoundsAssumption DEF LoopsInv
  <1> QED
    BY <1>1, <1>2, <1>3, <1>4 DEF ControlInv

LEMMA LatestOf ==
  ASSUME NEW n \in Nat, NEW S \in SUBSET (1 .. n), n \in S
  PROVE  Latest(S) = n
  <1>1. \A m \in S : m <= n
    OBVIOUS
  <1>2. \A m \in S : (\A x \in S : x <= m) => m = n
    OBVIOUS
  <1> QED
    BY <1>1, <1>2, Zenon DEF Latest

(* A thread that runs, of self-play: there is a latest model. *)
LEMMA LatestLoaded ==
  ASSUME TypeOK, ControlInv, NEW t \in Threads, thread[t] # "gone", ~distributed
  PROVE  /\ ~Joined /\ numLoaded \in modelDatas /\ numLoaded \in Models
         /\ Latest(modelDatas) = numLoaded
  <1>1. ~Joined
    BY DEF ControlInv, ThreadsInv
  <1>2. numLoaded \in modelDatas
    BY <1>1 DEF ControlInv, LoaderInv, Joined, Destroyed
  <1> QED
    BY <1>1, <1>2, LatestOf, BoundsAssumption DEF TypeOK, Models

(* Models leave the manager, and their loops are told. *)
LEMMA DropKeeps ==
  ASSUME TypeOK, LoopsInv, NEW S \in SUBSET modelDatas, Drop(S, modelDatas),
         UNCHANGED <<distributed, numLoaded, writeLoop>>
  PROVE  /\ modelDatas' \subseteq 1 .. numLoaded' /\ readOnly' \subseteq 1 .. numLoaded'
         /\ freed' \subseteq 1 .. numLoaded' /\ LoopsInv'
  <1>1. /\ modelDatas' = modelDatas \ S /\ readOnly' = readOnly \cup S
        /\ freed' = freed \cup {m \in S : writeLoop[m] = "none"}
    BY DEF Drop, HasDataWriteLoop
  <1>2. S \subseteq 1 .. numLoaded /\ \A m \in S : m \in Models /\ m <= numLoaded
    BY BoundsAssumption DEF TypeOK, Models
  <1>3. modelDatas' \cap readOnly' = {} /\ freed' \subseteq readOnly'
    BY <1>1 DEF LoopsInv
  <1>4. ~distributed => freed' = freed
    BY <1>1, <1>2 DEF LoopsInv
  <1>5. LoopsInv'
    BY <1>1, <1>3, <1>4 DEF LoopsInv
  <1> QED
    BY <1>1, <1>2, <1>5 DEF TypeOK

(* A release of model m: one count less, and what is dropped was used by   *)
(* nobody and is not the latest.                                           *)
LEMMA ReleaseDrops ==
  ASSUME TypeOK, LoopsInv, NEW m \in 0 .. MaxModels, release(m),
         ~distributed => numLoaded \in modelDatas
  PROVE  /\ acquireCount' = IF m \in modelDatas THEN [acquireCount EXCEPT ![m] = @ - 1]
                            ELSE acquireCount
         /\ \E S \in SUBSET modelDatas :
              /\ Drop(S, modelDatas)
              /\ \A x \in S : ~distributed /\ x # numLoaded /\ acquireCount'[x] <= 0
  <1>1. acquireCount' = IF m \in modelDatas THEN [acquireCount EXCEPT ![m] = @ - 1]
                        ELSE acquireCount
    BY DEF release, Loaded
  <1>2. CASE m \in modelDatas
    <2> DEFINE S == {x \in modelDatas : ~distributed /\ x # Latest(modelDatas) /\ acquireCount'[x] <= 0}
    <2>1. Drop(S, modelDatas)
      BY <1>1, <1>2 DEF release, Loaded, maybeAutoCleanupAlreadyLocked
    <2>2. ~distributed => Latest(modelDatas) = numLoaded
      BY LatestOf DEF TypeOK
    <2>3. \A x \in S : ~distributed /\ x # numLoaded /\ acquireCount'[x] <= 0
      BY <2>2
    <2> QED
      BY <1>1, <2>1, <2>3
  <1>3. CASE m \notin modelDatas
    <2>1. UNCHANGED <<modelDatas, readOnly, freed>>
      BY <1>3 DEF release, Loaded
    <2>2. Drop({}, modelDatas)
      BY <2>1 DEF Drop
    <2> QED
      BY <1>1, <2>2
  <1> QED
    BY <1>2, <1>3

(* What neither the manager nor the loader takes part in. *)
LEMMA ControlFrame ==
  ASSUME LoaderInv, LoopsInv,
         UNCHANGED <<distributed, main, loader, task, gameTaskQueue, modelDatas, numLoaded,
                     readOnly, freed, writeLoop>>
  PROVE  LoaderInv' /\ LoopsInv'
  BY DEF LoaderInv, LoopsInv, Joined, Destroyed

LEMMA ThreadMoves ==
  ASSUME TypeOK, ThreadsInv, UNCHANGED <<distributed, main>>,
         gameTaskQueue' \in {gameTaskQueue, <<>>},
         NEW t \in Threads, thread[t] # "gone", NEW pc, thread' = [thread EXCEPT ![t] = pc],
         pc \in {"starting", "comparing", "enqueuing", "pushing", "leaving"} => ~distributed,
         pc = "writing" => distributed,
         pc = "gone" /\ distributed => main # "joining" /\ gameTaskQueue' = <<>>
  PROVE  ThreadsInv'
  <1>1. ~Joined /\ ~Joined'
    BY DEF ThreadsInv, Joined
  <1>2. thread'[t] = pc /\ \A u \in Threads \ {t} : thread'[u] = thread[u]
    BY DEF TypeOK
  <1> QED
    BY <1>1, <1>2 DEF ThreadsInv

LEMMA OneTask ==
  ASSUME LoaderInv, gameTaskQueue # <<>>
  PROVE  /\ distributed /\ Tail(gameTaskQueue) = <<>> /\ Head(gameTaskQueue) \in Models
         /\ DOMAIN gameTaskQueue = {1} /\ gameTaskQueue[1] = Head(gameTaskQueue)
  <1>1. PICK m \in Models : gameTaskQueue = <<m>>
    BY DEF LoaderInv
  <1> QED
    BY <1>1 DEF LoaderInv

LEMMA ControlThread ==
  ASSUME TypeOK, ControlInv, NEW t \in Threads,
         \/ AcquireForGame(t) \/ StartGame(t) \/ CheckForNewNNEval(t) \/ StopGame(t)
         \/ DiscardGame(t) \/ FinishGame(t) \/ enqueueDataToWrite(t) \/ PushGame(t)
         \/ withDataWriters(t) \/ LeaveGameLoop(t)
  PROVE  TypeOK' /\ ControlInv'
  <1> USE DEF ControlInv
  <1>1. UNCHANGED <<distributed, main, loader, task, gameTaskQueue, modelDatas, numLoaded,
                    readOnly, freed, writeLoop, numDataWriteLoopsActive, writing, shouldStop>>
    BY DEF AcquireForGame, StartGame, CheckForNewNNEval, StopGame, DiscardGame, FinishGame,
           enqueueDataToWrite, PushGame, withDataWriters, LeaveGameLoop, acquireLatest, manager,
           loops, controls
  <1>2. LoaderInv' /\ LoopsInv'
    BY <1>1, ControlFrame
  <1>3. PICK pc \in {"free", "starting", "playing", "comparing", "enqueuing", "pushing", "writing",
                     "releasing", "leaving", "gone"} :
          /\ thread' = [thread EXCEPT ![t] = pc] /\ thread[t] # "gone"
          /\ pc \in {"starting", "comparing", "enqueuing", "pushing", "leaving"} => ~distributed
          /\ pc = "writing" => distributed
          /\ pc = "gone" /\ distributed => main # "joining" /\ gameTaskQueue = <<>>
    <2>1. CASE AcquireForGame(t)
      BY <2>1 DEF AcquireForGame, Goes
    <2>2. CASE StartGame(t)
      BY <2>2 DEF StartGame, Goes, ThreadsInv
    <2>3. CASE CheckForNewNNEval(t)
      BY <2>3 DEF CheckForNewNNEval, Goes
    <2>4. CASE StopGame(t)
      BY <2>4 DEF StopGame, Goes
    <2>5. CASE DiscardGame(t)
      BY <2>5 DEF DiscardGame, Goes
    <2>6. CASE FinishGame(t)
      BY <2>6 DEF FinishGame, Goes
    <2>7. CASE enqueueDataToWrite(t)
      BY <2>7 DEF enqueueDataToWrite, Goes, ThreadsInv
    <2>8. CASE PushGame(t)
      BY <2>8 DEF PushGame, Goes
    <2>9. CASE withDataWriters(t)
      BY <2>9 DEF withDataWriters, Goes
    <2>10. CASE LeaveGameLoop(t)
      BY <2>10 DEF LeaveGameLoop, Goes, TaskQueueIsOpen
    <2> QED
      BY <2>1, <2>2, <2>3, <2>4, <2>5, <2>6, <2>7, <2>8, <2>9, <2>10
  <1>4. ThreadsInv'
    BY <1>1, <1>3, ThreadMoves
  <1>5. thread' \in [Threads -> {"free", "starting", "playing", "comparing", "enqueuing", "pushing",
                             "writing", "releasing", "leaving", "gone"}]
    BY <1>3 DEF TypeOK
  <1>6. /\ acquireCount' \in [Models -> Int] /\ nnEval' \in [Threads -> 0 .. MaxModels]
        /\ newNNEval' \in [Threads -> 0 .. MaxModels]
    <2>1. CASE AcquireForGame(t) \/ CheckForNewNNEval(t)
      <3>1. ~distributed /\ thread[t] # "gone"
        BY <2>1 DEF AcquireForGame, CheckForNewNNEval
      <3> DEFINE latest == Latest(modelDatas)
      <3>2. latest \in Models /\ latest \in 0 .. MaxModels
        BY <3>1, LatestLoaded DEF Models, TypeOK
      <3>3. /\ acquireCount' = [acquireCount EXCEPT ![latest] = acquireCount[latest] + 1]
            /\ \/ nnEval' = [nnEval EXCEPT ![t] = latest] /\ newNNEval' = newNNEval
               \/ newNNEval' = [newNNEval EXCEPT ![t] = latest] /\ nnEval' = nnEval
        BY <2>1 DEF AcquireForGame, CheckForNewNNEval, acquireLatest
      <3> HIDE DEF latest
      <3>4. acquireCount[latest] + 1 \in Int
        BY <3>2 DEF TypeOK
      <3> QED
        BY <3>2, <3>3, <3>4 DEF TypeOK
    <2>2. CASE ~(AcquireForGame(t) \/ CheckForNewNNEval(t))
      BY <2>2 DEF StartGame, StopGame, DiscardGame, FinishGame, enqueueDataToWrite, PushGame,
                  withDataWriters, LeaveGameLoop, manager, TypeOK
    <2> QED
      BY <2>1, <2>2
  <1>7. /\ game' \in [Threads -> Nat] /\ numGamesStarted' \in Nat /\ finished' \subseteq Nat
    <2>1. 0 \in Nat /\ numGamesStarted + 1 \in Nat /\ game[t] \in Nat
      BY DEF TypeOK
    <2> QED
      BY <2>1 DEF AcquireForGame, StartGame, CheckForNewNNEval, StopGame, DiscardGame, FinishGame,
                  enqueueDataToWrite, PushGame, withDataWriters, LeaveGameLoop, TypeOK, history, NoGame
  <1>8. finishedGameQueue' \in [Models -> Seq(Nat)]
    <2>1. CASE PushGame(t)
      <3>1. CASE nnEval[t] \in Models
        <4>1. Append(finishedGameQueue[nnEval[t]], game[t]) \in Seq(Nat)
          BY <3>1, AppendProperties DEF TypeOK
        <4> QED
          BY <2>1, <4>1 DEF PushGame, TypeOK
      <3>2. CASE nnEval[t] \notin Models
        BY <2>1, <3>2 DEF PushGame, TypeOK
      <3> QED
        BY <3>1, <3>2
    <2>2. CASE ~PushGame(t)
      BY <2>2 DEF AcquireForGame, StartGame, CheckForNewNNEval, StopGame, DiscardGame, FinishGame,
                  enqueueDataToWrite, withDataWriters, LeaveGameLoop, TypeOK
    <2> QED
      BY <2>1, <2>2
  <1>9. written' \in Seq(Nat \X Models)
    <2>1. CASE withDataWriters(t)
      <3>1. nnEval[t] \in Models
        BY <2>1 DEF withDataWriters, Loaded, TypeOK, Models
      <3>2. <<game[t], nnEval[t]>> \in Nat \X Models
        BY <3>1 DEF TypeOK
      <3> QED
        BY <2>1, <3>2, AppendProperties DEF withDataWriters, TypeOK
    <2>2. CASE ~withDataWriters(t)
      BY <2>2 DEF AcquireForGame, StartGame, CheckForNewNNEval, StopGame, DiscardGame, FinishGame,
                  enqueueDataToWrite, PushGame, LeaveGameLoop, TypeOK, history
    <2> QED
      BY <2>1, <2>2
  <1>10. TypeOK'
    BY <1>1, <1>5, <1>6, <1>7, <1>8, <1>9 DEF TypeOK
  <1> QED
    BY <1>2, <1>4, <1>10

(* A thread takes the task that is queued. *)
LEMMA ControlTask ==
  ASSUME TypeOK, ControlInv, NEW t \in Threads, PopTask(t)
  PROVE  TypeOK' /\ ControlInv'
  <1> USE DEF ControlInv
  <1>1. /\ thread[t] = "free" /\ gameTaskQueue # <<>>
        /\ UNCHANGED <<modelDatas, numLoaded, acquireCount, readOnly, freed, finishedGameQueue,
                       numDataWriteLoopsActive, writeLoop, writing, newNNEval, distributed, loader,
                       task, main, shouldStop, finished, written>>
    BY DEF PopTask, manager, loops, history
  <1>2. /\ distributed /\ gameTaskQueue' = <<>>
        /\ nnEval' = [nnEval EXCEPT ![t] = Head(gameTaskQueue)] /\ Head(gameTaskQueue) \in Models
    BY OneTask DEF PopTask
  <1>3. PICK pc \in {"releasing", "playing"} : thread' = [thread EXCEPT ![t] = pc]
    BY DEF PopTask, Goes
  <1>4. ThreadsInv'
    BY <1>1, <1>2, <1>3, ThreadMoves
  <1>5. LoaderInv' /\ LoopsInv'
    BY <1>1, <1>2 DEF LoaderInv, LoopsInv, Joined, Destroyed
  <1>6. game' \in [Threads -> Nat] /\ numGamesStarted' \in Nat
    <2>1. numGamesStarted + 1 \in Nat
      BY DEF TypeOK
    <2> QED
      BY <2>1 DEF PopTask, TypeOK
  <1>7. nnEval' \in [Threads -> 0 .. MaxModels] /\ gameTaskQueue' \in Seq(Models)
    BY <1>2, EmptySeq DEF TypeOK, Models
  <1>8. thread' \in [Threads -> {"free", "starting", "playing", "comparing", "enqueuing", "pushing",
                             "writing", "releasing", "leaving", "gone"}]
    BY <1>3 DEF TypeOK
  <1>9. TypeOK'
    BY <1>1, <1>6, <1>7, <1>8 DEF TypeOK
  <1> QED
    BY <1>4, <1>5, <1>9

(* A release keeps the latest model of self-play. *)
LEMMA ControlReleased ==
  ASSUME TypeOK, ControlInv, NEW m \in 0 .. MaxModels, release(m), ~Destroyed,
         UNCHANGED <<distributed, numLoaded, writeLoop>>
  PROVE  /\ modelDatas' \subseteq 1 .. numLoaded' /\ readOnly' \subseteq 1 .. numLoaded'
         /\ freed' \subseteq 1 .. numLoaded' /\ LoopsInv' /\ acquireCount' \in [Models -> Int]
         /\ ~distributed => numLoaded \in modelDatas'
  <1>1. ~distributed => numLoaded \in modelDatas
    BY DEF ControlInv, LoaderInv
  <1>2. acquireCount' = IF m \in modelDatas THEN [acquireCount EXCEPT ![m] = acquireCount[m] - 1]
                        ELSE acquireCount
    BY <1>1, ReleaseDrops DEF ControlInv
  <1>3. PICK S \in SUBSET modelDatas :
          /\ Drop(S, modelDatas)
          /\ \A x \in S : ~distributed /\ x # numLoaded /\ acquireCount'[x] <= 0
    BY <1>1, ReleaseDrops DEF ControlInv
  <1>4. numLoaded \notin S /\ modelDatas' = modelDatas \ S
    BY <1>3 DEF Drop
  <1>5. acquireCount' \in [Models -> Int]
    <2>1. m \in modelDatas => acquireCount[m] - 1 \in Int
      BY BoundsAssumption DEF TypeOK, Models
    <2> QED
      BY <1>2, <2>1 DEF TypeOK
  <1> QED
    BY <1>1, <1>3, <1>4, <1>5, DropKeeps DEF ControlInv

LEMMA ControlRelease ==
  ASSUME TypeOK, ControlInv, NEW t \in Threads, ReleaseOther(t) \/ ReleaseModel(t)
  PROVE  TypeOK' /\ ControlInv'
  <1>1. /\ thread[t] \in {"comparing", "releasing", "leaving"}
        /\ release(nnEval[t]) /\ nnEval[t] \in 0 .. MaxModels
        /\ UNCHANGED <<numLoaded, finishedGameQueue, numDataWriteLoopsActive, writeLoop, writing,
                       game, numGamesStarted, distributed, loader, task, gameTaskQueue, main,
                       shouldStop, finished, written>>
    BY DEF ReleaseOther, ReleaseModel, loops, controls, history, TypeOK
  <1>2. ~Joined /\ ~Destroyed /\ ~Destroyed'
    BY <1>1 DEF ControlInv, ThreadsInv, Joined, Destroyed
  <1>3. /\ modelDatas' \subseteq 1 .. numLoaded' /\ readOnly' \subseteq 1 .. numLoaded'
        /\ freed' \subseteq 1 .. numLoaded' /\ LoopsInv' /\ acquireCount' \in [Models -> Int]
        /\ ~distributed => numLoaded \in modelDatas'
    BY <1>1, <1>2, ControlReleased
  <1>4. LoaderInv'
    BY <1>1, <1>2, <1>3 DEF ControlInv, LoaderInv, Joined, Destroyed
  <1>5. PICK pc \in {"playing", "gone", "free"} :
          thread' = [thread EXCEPT ![t] = pc] /\ (pc = "gone" => ~distributed)
    BY DEF ReleaseOther, ReleaseModel, Goes, ControlInv, ThreadsInv
  <1>6. ThreadsInv'
    BY <1>1, <1>5, ThreadMoves DEF ControlInv
  <1>7. thread' \in [Threads -> {"free", "starting", "playing", "comparing", "enqueuing", "pushing",
                             "writing", "releasing", "leaving", "gone"}]
    BY <1>5 DEF TypeOK
  <1>8. nnEval' \in [Threads -> 0 .. MaxModels] /\ newNNEval' \in [Threads -> 0 .. MaxModels]
    <2>1. NoModel \in 0 .. MaxModels
      BY BoundsAssumption DEF NoModel
    <2> QED
      BY <2>1 DEF ReleaseOther, ReleaseModel, TypeOK
  <1>9. TypeOK'
    BY <1>1, <1>3, <1>7, <1>8 DEF TypeOK
  <1> QED
    BY <1>3, <1>4, <1>6, <1>9 DEF ControlInv

(* A loop goes on to its next step; it ends only when it was told to. *)
LEMMA ControlLoop ==
  ASSUME TypeOK, ControlInv, NEW m \in Models, LoopStep(m)
  PROVE  TypeOK' /\ ControlInv'
  <1> USE DEF ControlInv
  <1>1. UNCHANGED <<modelDatas, numLoaded, acquireCount, readOnly, thread, nnEval, newNNEval, game,
                    numGamesStarted, distributed, loader, task, gameTaskQueue, main, shouldStop,
                    finished>>
    BY DEF LoopStep, PopGame, WriteGame, EndLoop, FreeModel, CheckIn, manager, threads, controls,
           history
  <1>2. ThreadsInv' /\ LoaderInv'
    BY <1>1 DEF ThreadsInv, LoaderInv, Joined, Destroyed
  <1>3. PICK pc \in {"popping", "writing", "closing", "checkingIn", "gone"} :
          /\ writeLoop' = [writeLoop EXCEPT ![m] = pc] /\ writeLoop[m] # "none"
          /\ pc \in {"closing", "checkingIn", "gone"} => m \in readOnly
          /\ pc \in {"popping", "writing", "closing"} =>
               writeLoop[m] \in {"popping", "writing"} /\ freed' = freed
          /\ freed' \in {freed, freed \cup {m}}
    <2>1. CASE PopGame(m)
      BY <2>1 DEF PopGame, LoopGoes, manager
    <2>2. CASE WriteGame(m)
      BY <2>2 DEF WriteGame, LoopGoes, manager
    <2>3. CASE EndLoop(m)
      BY <2>3 DEF EndLoop, AtEndOfQueue, LoopGoes, manager
    <2>4. CASE FreeModel(m)
      BY <2>4 DEF FreeModel, LoopGoes, LoopsInv
    <2>5. CASE CheckIn(m)
      BY <2>5 DEF CheckIn, LoopGoes, manager, LoopsInv
    <2> QED
      BY <2>1, <2>2, <2>3, <2>4, <2>5 DEF LoopStep
  <1>4. writeLoop'[m] = pc /\ \A n \in Models \ {m} : writeLoop'[n] = writeLoop[n]
    BY <1>3 DEF TypeOK
  <1>5. m \in 1 .. numLoaded /\ ~distributed
    BY <1>3 DEF LoopsInv, Models, TypeOK
  <1>6. freed' \subseteq readOnly'
    <2>1. freed' # freed => m \in readOnly
      BY <1>3
    <2> QED
      BY <1>1, <1>3, <2>1 DEF LoopsInv
  <1>7. LoopsInv'
    BY <1>1, <1>3, <1>4, <1>5, <1>6 DEF LoopsInv
  <1>8. finishedGameQueue' \in [Models -> Seq(Nat)] /\ writing' \in [Models -> Nat]
    <2>1. CASE PopGame(m)
      <3>1. Head(finishedGameQueue[m]) \in Nat /\ Tail(finishedGameQueue[m]) \in Seq(Nat)
        BY <2>1, HeadTailProperties DEF PopGame, TypeOK
      <3> QED
        BY <2>1, <3>1 DEF PopGame, TypeOK
    <2>2. CASE WriteGame(m)
      BY <2>2 DEF WriteGame, TypeOK, NoGame
    <2>3. CASE EndLoop(m) \/ FreeModel(m) \/ CheckIn(m)
      BY <2>3 DEF EndLoop, FreeModel, CheckIn, TypeOK
    <2> QED
      BY <2>1, <2>2, <2>3 DEF LoopStep
  <1>9. written' \in Seq(Nat \X Models)
    <2>1. CASE WriteGame(m)
      <3>1. <<writing[m], m>> \in Nat \X Models
        BY DEF TypeOK
      <3> QED
        BY <2>1, <3>1, AppendProperties DEF WriteGame, TypeOK
    <2>2. CASE ~WriteGame(m)
      BY <2>2 DEF LoopStep, PopGame, EndLoop, FreeModel, CheckIn, history, TypeOK
    <2> QED
      BY <2>1, <2>2
  <1>10. /\ numDataWriteLoopsActive' \in Int
         /\ writeLoop' \in [Models -> {"none", "popping", "writing", "closing", "checkingIn", "gone"}]
    BY <1>3 DEF LoopStep, PopGame, WriteGame, EndLoop, FreeModel, CheckIn, TypeOK
  <1>11. freed' \subseteq 1 .. numLoaded'
    BY <1>1, <1>3, <1>5 DEF TypeOK
  <1>12. TypeOK'
    BY <1>1, <1>8, <1>9, <1>10, <1>11 DEF TypeOK
  <1> QED
    BY <1>2, <1>7, <1>12

(* The loader of self-play: a new model is the latest. *)
LEMMA ControlLoad ==
  ASSUME TypeOK, ControlInv, loadModelAndStartDataWriting
  PROVE  TypeOK' /\ ControlInv'
  <1> USE DEF ControlInv
  <1> DEFINE new == numLoaded + 1
             loaded == modelDatas \cup {new}
             S == {m \in loaded : ~distributed /\ m # Latest(loaded) /\ acquireCount[m] <= 0}
  <1>1. /\ ~distributed /\ loader = "loading" /\ numLoaded < MaxModels /\ numLoaded' = new
        /\ writeLoop' = [writeLoop EXCEPT ![new] = "popping"] /\ loader' = "polling"
        /\ numDataWriteLoopsActive' = numDataWriteLoopsActive + 1
        /\ UNCHANGED <<acquireCount, task, finishedGameQueue, writing, thread, nnEval, newNNEval,
                       game, numGamesStarted, distributed, main, shouldStop, finished, written,
                       gameTaskQueue>>
    BY DEF loadModelAndStartDataWriting, LoopGoes, NoTaskMoves, LoaderUnchanged, threads, history
  <1>2. /\ modelDatas' = loaded \ S /\ readOnly' = readOnly \cup S
        /\ freed' = freed \cup {m \in S : writeLoop[m] = "none"}
    BY DEF loadModelAndStartDataWriting, maybeAutoCleanupAlreadyLocked, Drop, HasDataWriteLoop
  <1>3. new \in 1 .. MaxModels /\ new \in Models /\ loaded \subseteq 1 .. new /\ new \in Nat
    <2>1. numLoaded \in Nat /\ MaxModels \in Nat /\ modelDatas \subseteq 1 .. numLoaded
      BY BoundsAssumption DEF TypeOK
    <2> QED
      BY <1>1, <2>1 DEF Models
  <1>4. Latest(loaded) = new
    BY <1>3, LatestOf
  <1>5. S \subseteq modelDatas /\ new \notin S /\ new \in modelDatas'
    BY <1>2, <1>4
  <1>6. \A m \in S : m \in Models /\ m <= numLoaded
    BY <1>5, BoundsAssumption DEF TypeOK, Models
  <1> HIDE DEF S, loaded
  <1>7. freed' = freed
    BY <1>1, <1>2, <1>6 DEF LoopsInv
  <1>8. modelDatas' \subseteq modelDatas \cup {new}
    BY <1>2 DEF loaded
  <1>9. new \notin readOnly
    BY DEF TypeOK
  <1>10. modelDatas' \cap readOnly' = {} /\ freed' \subseteq readOnly'
    BY <1>2, <1>5, <1>7, <1>8, <1>9 DEF LoopsInv
  <1>11. LoopsInv'
    <2>1. ASSUME NEW m \in Models
          PROVE  /\ (writeLoop[m] # "none" <=> ~distributed /\ m <= numLoaded)'
                 /\ (writeLoop[m] \in {"closing", "checkingIn", "gone"} => m \in readOnly)'
                 /\ (~distributed /\ m \in freed => writeLoop[m] \in {"checkingIn", "gone"})'
      <3>1. CASE m = new
        <4>1. writeLoop'[m] = "popping"
          BY <1>1, <1>3, <3>1 DEF TypeOK
        <4>2. m \notin freed
          BY <3>1, <1>9 DEF LoopsInv
        <4> QED
          BY <1>1, <1>3, <1>7, <3>1, <4>1, <4>2
      <3>2. CASE m # new
        <4>1. writeLoop'[m] = writeLoop[m]
          BY <1>1, <3>2 DEF TypeOK
        <4>2. m <= numLoaded <=> m <= numLoaded'
          BY <1>1, <3>2 DEF TypeOK, Models
        <4> QED
          BY <1>1, <1>2, <1>7, <4>1, <4>2 DEF LoopsInv
      <3> QED
        BY <3>1, <3>2
    <2> QED
      BY <1>10, <2>1 DEF LoopsInv
  <1>12. ~Destroyed
    BY <1>1 DEF LoaderInv
  <1>13. LoaderInv'
    BY <1>1, <1>5, <1>12 DEF LoaderInv, Joined, Destroyed
  <1>14. ThreadsInv'
    BY <1>1 DEF ThreadsInv, Joined
  <1>15. TypeOK'
    <2>1. /\ modelDatas' \subseteq 1 .. numLoaded' /\ readOnly' \subseteq 1 .. numLoaded'
          /\ freed' \subseteq 1 .. numLoaded' /\ numLoaded' \in 0 .. MaxModels
      <3>1. /\ numLoaded \in Nat /\ numLoaded' = numLoaded + 1 /\ modelDatas \subseteq 1 .. numLoaded
            /\ readOnly \subseteq 1 .. numLoaded /\ freed \subseteq 1 .. numLoaded
        BY <1>1 DEF TypeOK
      <3>2. 1 .. numLoaded \subseteq 1 .. numLoaded' /\ numLoaded' \in 1 .. numLoaded'
        BY <3>1
      <3>3. readOnly' \subseteq 1 .. numLoaded /\ freed' \subseteq 1 .. numLoaded
        BY <1>2, <1>5, <1>7, <3>1
      <3> QED
        BY <1>1, <1>3, <1>8, <3>1, <3>2, <3>3
    <2>2. /\ writeLoop' \in [Models -> {"none", "popping", "writing", "closing", "checkingIn", "gone"}]
          /\ numDataWriteLoopsActive' \in Int
      <3>1. numDataWriteLoopsActive + 1 \in Int
        BY DEF TypeOK
      <3> QED
        BY <1>1, <1>3, <3>1 DEF TypeOK
    <2> QED
      BY <1>1, <2>1, <2>2 DEF TypeOK
  <1> QED
    BY <1>11, <1>13, <1>14, <1>15

(* The task loop of contribute. *)
LEMMA ControlTaskLoop ==
  ASSUME TypeOK, ControlInv,
         \/ LookForModel \/ LeaveLoadLoop \/ GiveUpLoading \/ allocateGameTask \/ PushTask
         \/ freeGameTask
         \/ \E S \in SUBSET Models : cleanupUnusedModelsOlderThan(S)
         \/ \E m \in Models : loadModelNoDataWritingLoop(m)
  PROVE  TypeOK' /\ ControlInv'
  <1> USE DEF ControlInv
  <1>1. UNCHANGED <<finishedGameQueue, writing, thread, nnEval, newNNEval, game, numGamesStarted,
                    distributed, main, shouldStop, finished, written, writeLoop,
                    numDataWriteLoopsActive>>
    BY DEF LookForModel, LeaveLoadLoop, GiveUpLoading, allocateGameTask, PushTask, freeGameTask,
           cleanupUnusedModelsOlderThan, loadModelNoDataWritingLoop, LoaderUnchanged, threads, history
  <1>2. CASE LookForModel \/ LeaveLoadLoop \/ GiveUpLoading
    <2>1. /\ UNCHANGED <<modelDatas, numLoaded, acquireCount, readOnly, freed, task, gameTaskQueue>>
          /\ loader \in {"polling", "loading"} /\ loader' \in {"polling", "loading", "gone"}
          /\ distributed /\ loader' # "gone" => loader = "loading"
      BY <1>2 DEF LookForModel, LeaveLoadLoop, GiveUpLoading, NoTaskMoves, manager
    <2>2. TypeOK'
      BY <1>1, <2>1 DEF TypeOK
    <2>3. ThreadsInv' /\ LoopsInv'
      BY <1>1, <2>1 DEF ThreadsInv, LoopsInv, Joined
    <2>4. LoaderInv'
      BY <1>1, <2>1 DEF LoaderInv, Joined, Destroyed
    <2> QED
      BY <2>2, <2>3, <2>4
  <1>3. CASE allocateGameTask
    <2>1. /\ UNCHANGED <<modelDatas, numLoaded, readOnly, freed, task, gameTaskQueue>>
          /\ loader = "acquiring" /\ loader' = "pushing"
          /\ acquireCount' = [acquireCount EXCEPT ![task] = acquireCount[task] + 1]
      BY <1>3 DEF allocateGameTask, NoTaskMoves
    <2>2. task \in Models
      BY <2>1 DEF LoaderInv, NoModel, TypeOK, Models
    <2>3. TypeOK'
      <3>1. acquireCount' \in [Models -> Int]
        BY <2>1, <2>2 DEF TypeOK
      <3> QED
        BY <1>1, <2>1, <3>1 DEF TypeOK
    <2>4. ThreadsInv' /\ LoopsInv'
      BY <1>1, <2>1 DEF ThreadsInv, LoopsInv, Joined
    <2>5. LoaderInv'
      BY <1>1, <2>1 DEF LoaderInv, Joined, Destroyed
    <2> QED
      BY <2>3, <2>4, <2>5
  <1>4. CASE PushTask
    <2>1. /\ UNCHANGED <<modelDatas, numLoaded, acquireCount, readOnly, freed>>
          /\ loader = "pushing" /\ main = "joining" /\ gameTaskQueue' = <<task>>
          /\ \/ loader' = "acquiring" /\ task' = task
             \/ loader' = "polling" /\ task' = NoModel
      BY <1>4 DEF PushTask, TaskQueueIsOpen, manager
    <2>2. task \in Models /\ distributed
      BY <2>1 DEF LoaderInv, NoModel, TypeOK, Models
    <2>3. gameTaskQueue' \in Seq(Models) /\ task' \in 0 .. MaxModels
      BY <2>1, <2>2, BoundsAssumption DEF TypeOK, NoModel
    <2>4. TypeOK'
      BY <1>1, <2>1, <2>3 DEF TypeOK
    <2>5. ThreadsInv' /\ LoopsInv'
      BY <1>1, <2>1 DEF ThreadsInv, LoopsInv, Joined
    <2>6. LoaderInv'
      BY <1>1, <2>1, <2>2 DEF LoaderInv, Joined, Destroyed
    <2> QED
      BY <2>4, <2>5, <2>6
  <1>5. CASE freeGameTask
    <2>1. /\ loader = "pushing" /\ loader' = "polling" /\ task' = NoModel /\ release(task)
          /\ UNCHANGED <<numLoaded, gameTaskQueue>>
      BY <1>5 DEF freeGameTask, NoTaskMoves
    <2>2. distributed /\ ~Destroyed /\ task \in 0 .. MaxModels
      BY <2>1 DEF LoaderInv, TypeOK
    <2>3. /\ modelDatas' \subseteq 1 .. numLoaded' /\ readOnly' \subseteq 1 .. numLoaded'
          /\ freed' \subseteq 1 .. numLoaded' /\ LoopsInv' /\ acquireCount' \in [Models -> Int]
      BY <1>1, <2>1, <2>2, ControlReleased
    <2>4. NoModel \in 0 .. MaxModels
      BY BoundsAssumption DEF NoModel
    <2>5. TypeOK'
      BY <1>1, <2>1, <2>3, <2>4 DEF TypeOK
    <2>6. ThreadsInv'
      BY <1>1, <2>1 DEF ThreadsInv, Joined
    <2>7. LoaderInv'
      BY <1>1, <2>1, <2>2 DEF LoaderInv, Joined, Destroyed
    <2> QED
      BY <2>3, <2>5, <2>6, <2>7
  <1>6. ASSUME NEW S \in SUBSET Models, cleanupUnusedModelsOlderThan(S)
        PROVE  TypeOK' /\ ControlInv'
    <2>1. /\ S \in SUBSET modelDatas /\ Drop(S, modelDatas)
          /\ loader = "polling" /\ loader' = "loading" /\ distributed
          /\ UNCHANGED <<numLoaded, acquireCount, task, gameTaskQueue>>
      BY <1>6 DEF cleanupUnusedModelsOlderThan, NoTaskMoves
    <2>2. /\ modelDatas' \subseteq 1 .. numLoaded' /\ readOnly' \subseteq 1 .. numLoaded'
          /\ freed' \subseteq 1 .. numLoaded' /\ LoopsInv'
      BY <1>1, <2>1, DropKeeps
    <2>3. TypeOK'
      BY <1>1, <2>1, <2>2 DEF TypeOK
    <2>4. ThreadsInv'
      BY <1>1, <2>1 DEF ThreadsInv, Joined
    <2>5. LoaderInv'
      BY <1>1, <2>1 DEF LoaderInv, Joined, Destroyed
    <2> QED
      BY <2>2, <2>3, <2>4, <2>5
  <1>7. ASSUME NEW m \in Models, loadModelNoDataWritingLoop(m)
        PROVE  TypeOK' /\ ControlInv'
    <2>1. /\ loader = "loading" /\ distributed
          /\ UNCHANGED <<acquireCount, readOnly, freed, gameTaskQueue>>
          /\ \/ loader' = "acquiring" /\ task' = m
             \/ loader' = "polling" /\ task' = task
      BY <1>7 DEF loadModelNoDataWritingLoop, NoTaskMoves
    <2>2. \/ UNCHANGED <<modelDatas, numLoaded>>
          \/ m = numLoaded + 1 /\ numLoaded' = m /\ modelDatas' = modelDatas \cup {m}
      BY <1>7 DEF loadModelNoDataWritingLoop, Loaded
    <2>3. m \in 0 .. MaxModels /\ m # NoModel
      BY DEF Models, NoModel
    <2>4. /\ numLoaded' \in 0 .. MaxModels /\ modelDatas' \subseteq 1 .. numLoaded'
          /\ readOnly' \subseteq 1 .. numLoaded' /\ freed' \subseteq 1 .. numLoaded'
      <3>1. CASE UNCHANGED <<modelDatas, numLoaded>>
        BY <2>1, <3>1 DEF TypeOK
      <3>2. CASE m = numLoaded + 1 /\ numLoaded' = m /\ modelDatas' = modelDatas \cup {m}
        <4>1. /\ numLoaded \in Nat /\ modelDatas \subseteq 1 .. numLoaded
              /\ readOnly \subseteq 1 .. numLoaded /\ freed \subseteq 1 .. numLoaded
          BY DEF TypeOK
        <4>2. 1 .. numLoaded \subseteq 1 .. m /\ m \in 1 .. m
          BY <3>2, <4>1
        <4> QED
          BY <2>1, <2>3, <3>2, <4>1, <4>2
      <3> QED
        BY <2>2, <3>1, <3>2
    <2>5. TypeOK'
      BY <1>1, <2>1, <2>3, <2>4 DEF TypeOK
    <2>6. ThreadsInv'
      BY <1>1, <2>1 DEF ThreadsInv, Joined
    <2>7. LoaderInv'
      BY <1>1, <2>1, <2>3 DEF LoaderInv, Joined, Destroyed
    <2>8. modelDatas' \cap readOnly' = {}
      <3>1. numLoaded \in Nat /\ readOnly \subseteq 1 .. numLoaded
        BY DEF TypeOK
      <3>2. numLoaded + 1 \notin readOnly
        BY <3>1
      <3> QED
        BY <2>1, <2>2, <3>2 DEF LoopsInv
    <2>9. LoopsInv'
      BY <1>1, <2>1, <2>8 DEF LoopsInv
    <2> QED
      BY <2>5, <2>6, <2>7, <2>9
  <1> QED
    BY <1>2, <1>3, <1>4, <1>5, <1>6, <1>7

(* A signal and main. *)
LEMMA ControlMain ==
  ASSUME TypeOK, ControlInv, Signal \/ MainStep
  PROVE  TypeOK' /\ ControlInv'
  <1> USE DEF ControlInv
  <1>1. UNCHANGED <<numLoaded, acquireCount, finishedGameQueue, numDataWriteLoopsActive, writeLoop,
                    writing, thread, nnEval, newNNEval, game, numGamesStarted, distributed, loader,
                    task, gameTaskQueue, finished, written>>
    BY DEF Signal, MainStep, CloseTaskQueue, JoinThreads, DestroyManager, LoopsAreDone,
           MainUnchanged, manager, loops, threads, history
  <1>2. CASE Signal \/ CloseTaskQueue \/ JoinThreads \/ LoopsAreDone
    <2>1. UNCHANGED <<modelDatas, readOnly, freed>> /\ shouldStop' \in BOOLEAN
      BY <1>2 DEF Signal, CloseTaskQueue, JoinThreads, LoopsAreDone, manager, TypeOK
    <2>2. LoopsInv'
      BY <1>1, <2>1 DEF LoopsInv
    <2>3. /\ main' \in {"joining", "closed", "joiningLoader", "waiting", "ended"}
          /\ (Destroyed' <=> Destroyed) /\ (main' = "joining" => main = "joining")
          /\ Joined' => Joined \/ \A t \in Threads : thread[t] = "gone"
          /\ distributed /\ Joined' => Joined \/ loader = "gone"
      BY <1>2 DEF Signal, CloseTaskQueue, JoinThreads, LoopsAreDone, Joined, Destroyed, TypeOK
    <2>4. ThreadsInv' /\ LoaderInv'
      BY <1>1, <2>1, <2>3 DEF ThreadsInv, LoaderInv
    <2>5. TypeOK'
      BY <1>1, <2>1, <2>3 DEF TypeOK
    <2> QED
      BY <2>2, <2>4, <2>5
  <1>3. CASE DestroyManager
    <2>1. /\ main = "joiningLoader" /\ loader = "gone" /\ main' = "waiting"
          /\ Drop(modelDatas, modelDatas) /\ shouldStop' = shouldStop
      BY <1>3 DEF DestroyManager
    <2>2. /\ modelDatas' \subseteq 1 .. numLoaded' /\ readOnly' \subseteq 1 .. numLoaded'
          /\ freed' \subseteq 1 .. numLoaded' /\ LoopsInv'
      BY <1>1, <2>1, DropKeeps
    <2>3. modelDatas' = {}
      BY <2>1 DEF Drop
    <2>4. ThreadsInv' /\ LoaderInv'
      BY <1>1, <2>1, <2>3 DEF ThreadsInv, LoaderInv, Joined, Destroyed
    <2>5. TypeOK'
      BY <1>1, <2>1, <2>2 DEF TypeOK
    <2> QED
      BY <2>2, <2>4, <2>5
  <1> QED
    BY <1>2, <1>3 DEF MainStep

LEMMA ControlStep == TypeOK /\ ControlInv /\ [Next]_vars => TypeOK' /\ ControlInv'
  <1> SUFFICES ASSUME TypeOK, ControlInv, [Next]_vars PROVE TypeOK' /\ ControlInv'
    OBVIOUS
  <1>1. CASE Next
    BY <1>1, ControlThread, ControlTask, ControlRelease, ControlLoop, ControlLoad, ControlTaskLoop,
       ControlMain DEF Next, ThreadStep, LoaderStep
  <1>2. CASE UNCHANGED vars
    BY <1>2 DEF vars, TypeOK, ControlInv, ThreadsInv, LoaderInv, LoopsInv, Joined, Destroyed
  <1> QED
    BY <1>1, <1>2

(* The variables keep their types; in particular, self-play always has a   *)
(* latest model for a thread to acquire, until the manager is destroyed.   *)
THEOREM SelfplayTypeCorrect == Spec => []TypeOK
  BY ControlInit, ControlStep, PTL DEF Spec

-----------------------------------------------------------------------------
(* Models: everybody's acquisitions are counted, and what is acquired is   *)
(* loaded.  Without the second nothing could be said of a count, as a      *)
(* release of a model that is not loaded does nothing.                     *)

UsersIn(f, m) == {t \in Threads : f[t] = m}
TasksIn(q, m) == {i \in DOMAIN q : q[i] = m}
OfLoader(m) == IF loader = "pushing" /\ task = m THEN 1 ELSE 0
Uses(m) ==
  Cardinality(UsersIn(nnEval, m)) + Cardinality(UsersIn(newNNEval, m))
    + Cardinality(TasksIn(gameTaskQueue, m)) + OfLoader(m)

HoldersInv ==
  \A t \in Threads :
    /\ nnEval[t] # NoModel <=> thread[t] \notin {"free", "gone"}
    /\ newNNEval[t] # NoModel <=> thread[t] = "comparing"
LoadedInv ==
  /\ \A t \in Threads :
       /\ nnEval[t] # NoModel => nnEval[t] \in modelDatas
       /\ newNNEval[t] # NoModel => newNNEval[t] \in modelDatas
  /\ task # NoModel => task \in modelDatas
  /\ \A i \in DOMAIN gameTaskQueue : gameTaskQueue[i] \in modelDatas
CountsInv == \A m \in Models : acquireCount[m] = Uses(m)
ModelsInv == HoldersInv /\ LoadedInv /\ CountsInv

LEMMA UsersAreFinite ==
  ASSUME NEW f, NEW m
  PROVE  IsFiniteSet(UsersIn(f, m)) /\ Cardinality(UsersIn(f, m)) \in Nat
  <1>1. UsersIn(f, m) \in SUBSET Threads
    BY DEF UsersIn
  <1> QED
    BY <1>1, ThreadsAssumption, FS_Subset, FS_CardinalityType

Is(x, m) == IF x = m THEN 1 ELSE 0

Has(f, t, m) == Is(f[t], m)
SameButFor(t, f, g) == \A u \in Threads \ {t} : g[u] = f[u]

(* One thread changes its model: one user less, and one more. *)
LEMMA UserChanges ==
  ASSUME NEW f, NEW g, NEW t \in Threads, SameButFor(t, f, g), NEW m
  PROVE  Cardinality(UsersIn(g, m)) = Cardinality(UsersIn(f, m)) - Has(f, t, m) + Has(g, t, m)
  <1> DEFINE U == UsersIn(f, m)
             V == UsersIn(g, m)
  <1>1. IsFiniteSet(U) /\ Cardinality(U) \in Nat
    BY UsersAreFinite
  <1>2. \A u \in Threads : u \in V <=> IF u = t THEN g[t] = m ELSE u \in U
    BY DEF UsersIn, SameButFor
  <1>3. V \subseteq Threads /\ U \subseteq Threads /\ (t \in U <=> f[t] = m)
    BY DEF UsersIn
  <1> HIDE DEF U, V
  <1>4. CASE g[t] = m
    <2>1. V = U \cup {t}
      BY <1>2, <1>3, <1>4
    <2>2. Cardinality(V) = IF t \in U THEN Cardinality(U) ELSE Cardinality(U) + 1
      BY <1>1, <2>1, FS_AddElement
    <2>3. Cardinality(V) = Cardinality(U) - Has(f, t, m) + Has(g, t, m)
      BY <1>1, <1>3, <1>4, <2>2 DEF Has, Is
    <2> QED
      BY <2>3 DEF U, V
  <1>5. CASE g[t] # m
    <2>1. V = U \ {t}
      BY <1>2, <1>3, <1>5
    <2>2. Cardinality(V) = IF t \in U THEN Cardinality(U) - 1 ELSE Cardinality(U)
      BY <1>1, <2>1, FS_RemoveElement
    <2>3. Cardinality(V) = Cardinality(U) - Has(f, t, m) + Has(g, t, m)
      BY <1>1, <1>3, <1>5, <2>2 DEF Has, Is
    <2> QED
      BY <2>3 DEF U, V
  <1> QED
    BY <1>4, <1>5

LEMMA ModelChanges ==
  ASSUME TypeOK, NEW t \in Threads, NEW n, nnEval' = [nnEval EXCEPT ![t] = n], NEW m
  PROVE  Cardinality(UsersIn(nnEval', m)) = Cardinality(UsersIn(nnEval, m)) - Is(nnEval[t], m) + Is(n, m)
  <1>1. SameButFor(t, nnEval, nnEval') /\ nnEval'[t] = n
    BY DEF TypeOK, SameButFor
  <1>2. Cardinality(UsersIn(nnEval', m)) =
          Cardinality(UsersIn(nnEval, m)) - Has(nnEval, t, m) + Has(nnEval', t, m)
    BY <1>1, UserChanges
  <1> QED
    BY <1>1, <1>2 DEF Has, Is

(* The queue of tasks holds one at most. *)
LEMMA NoTasks ==
  ASSUME NEW m
  PROVE  Cardinality(TasksIn(<<>>, m)) = 0
  <1>1. TasksIn(<<>>, m) = {}
    BY DEF TasksIn
  <1> QED
    BY <1>1, FS_EmptySet

LEMMA OneTaskCounts ==
  ASSUME NEW x, NEW m
  PROVE  Cardinality(TasksIn(<<x>>, m)) = IF x = m THEN 1 ELSE 0
  <1>1. CASE x = m
    <2>1. TasksIn(<<x>>, m) = {1}
      BY <1>1 DEF TasksIn
    <2> QED
      BY <1>1, <2>1, FS_Singleton
  <1>2. CASE x # m
    <2>1. TasksIn(<<x>>, m) = {}
      BY <1>2 DEF TasksIn
    <2> QED
      BY <1>2, <2>1, FS_EmptySet
  <1> QED
    BY <1>1, <1>2

LEMMA TasksCounted ==
  ASSUME LoaderInv, NEW m
  PROVE  Cardinality(TasksIn(gameTaskQueue, m)) =
           IF gameTaskQueue # <<>> /\ Head(gameTaskQueue) = m THEN 1 ELSE 0
  <1>1. CASE gameTaskQueue = <<>>
    BY <1>1, NoTasks
  <1>2. CASE gameTaskQueue # <<>>
    <2>1. PICK x \in Models : gameTaskQueue = <<x>>
      BY <1>2 DEF LoaderInv
    <2>2. Head(gameTaskQueue) = x
      BY <2>1
    <2>3. Cardinality(TasksIn(<<x>>, m)) = IF x = m THEN 1 ELSE 0
      BY OneTaskCounts
    <2> QED
      BY <1>2, <2>1, <2>2, <2>3
  <1> QED
    BY <1>1, <1>2

(* A model that is not counted is used by nobody. *)
LEMMA NobodyUses ==
  ASSUME NEW f, NEW g, NEW q, NEW x, NEW k \in {0, 1}, q = <<>> \/ \E y \in Models : q = <<y>>,
         Cardinality(UsersIn(f, x)) + Cardinality(UsersIn(g, x)) + Cardinality(TasksIn(q, x)) + k <= 0
  PROVE  /\ k = 0 /\ \A t \in Threads : f[t] # x /\ g[t] # x
         /\ \A i \in DOMAIN q : q[i] # x
  <1>1. Cardinality(TasksIn(q, x)) \in Nat /\ IsFiniteSet(TasksIn(q, x))
    <2>1. DOMAIN q = {} \/ DOMAIN q = {1}
      OBVIOUS
    <2>2. TasksIn(q, x) \in SUBSET {1}
      BY <2>1 DEF TasksIn
    <2> QED
      BY <2>2, FS_Singleton, FS_Subset, FS_CardinalityType
  <1>2. /\ Cardinality(UsersIn(f, x)) = 0 /\ Cardinality(UsersIn(g, x)) = 0
        /\ Cardinality(TasksIn(q, x)) = 0 /\ k = 0
    BY <1>1, UsersAreFinite
  <1>3. UsersIn(f, x) = {} /\ UsersIn(g, x) = {} /\ TasksIn(q, x) = {}
    BY <1>1, <1>2, UsersAreFinite, FS_EmptySet
  <1> QED
    BY <1>2, <1>3 DEF UsersIn, TasksIn

(* A drop takes only models that nobody uses. *)
LEMMA DropUnused ==
  ASSUME LoaderInv', CountsInv', NEW S \in SUBSET Models, modelDatas' = modelDatas \ S,
         \A x \in S : acquireCount'[x] <= 0, task' # NoModel => S = {} /\ task' \in modelDatas,
         \A t \in Threads :
           /\ nnEval'[t] # NoModel => nnEval'[t] \in modelDatas
           /\ newNNEval'[t] # NoModel => newNNEval'[t] \in modelDatas,
         \A i \in DOMAIN gameTaskQueue' : gameTaskQueue'[i] \in modelDatas
  PROVE  LoadedInv'
  <1>1. ASSUME NEW x \in S
        PROVE  /\ \A t \in Threads : nnEval'[t] # x /\ newNNEval'[t] # x
               /\ \A i \in DOMAIN gameTaskQueue' : gameTaskQueue'[i] # x
    <2>1. acquireCount'[x] <= 0 /\ acquireCount'[x] = Uses(x)'
      BY DEF CountsInv
    <2>2. Uses(x)' = Cardinality(UsersIn(nnEval', x)) + Cardinality(UsersIn(newNNEval', x))
                       + Cardinality(TasksIn(gameTaskQueue', x)) + OfLoader(x)'
      BY DEF Uses, UsersIn, TasksIn
    <2>3. OfLoader(x)' \in {0, 1}
      BY DEF OfLoader
    <2>4. gameTaskQueue' = <<>> \/ \E y \in Models : gameTaskQueue' = <<y>>
      BY DEF LoaderInv
    <2> QED
      BY <2>1, <2>2, <2>3, <2>4, NobodyUses
  <1> QED
    BY <1>1 DEF LoadedInv

(* What changes neither the users nor the counts nor what is loaded. *)
LEMMA ModelsFrame ==
  ASSUME TypeOK, ModelsInv,
         UNCHANGED <<nnEval, newNNEval, gameTaskQueue, task, acquireCount>>,
         modelDatas \subseteq modelDatas',
         loader' = "pushing" <=> loader = "pushing",
         \A t \in Threads : /\ thread'[t] \in {"free", "gone"} <=> thread[t] \in {"free", "gone"}
                            /\ thread'[t] = "comparing" <=> thread[t] = "comparing"
  PROVE  ModelsInv'
  <1>1. HoldersInv'
    BY DEF ModelsInv, HoldersInv
  <1>2. LoadedInv'
    BY DEF ModelsInv, LoadedInv
  <1>3. CountsInv'
    BY DEF ModelsInv, CountsInv, Uses, OfLoader
  <1> QED
    BY <1>1, <1>2, <1>3 DEF ModelsInv

LEMMA ModelsThread ==
  ASSUME TypeOK, ModelsInv, NEW t \in Threads,
         \/ StartGame(t) \/ StopGame(t) \/ DiscardGame(t) \/ FinishGame(t)
         \/ enqueueDataToWrite(t) \/ PushGame(t) \/ withDataWriters(t) \/ LeaveGameLoop(t)
  PROVE  ModelsInv'
  <1>1. UNCHANGED <<nnEval, newNNEval, gameTaskQueue, task, acquireCount, modelDatas, loader>>
    BY DEF StartGame, StopGame, DiscardGame, FinishGame, enqueueDataToWrite, PushGame,
           withDataWriters, LeaveGameLoop, manager, controls
  <1>2. PICK pc \in {"playing", "enqueuing", "pushing", "writing", "releasing", "leaving", "gone"} :
          /\ thread' = [thread EXCEPT ![t] = pc] /\ thread[t] \notin {"comparing", "gone"}
          /\ thread[t] = "free" <=> pc = "gone"
    BY DEF StartGame, StopGame, DiscardGame, FinishGame, enqueueDataToWrite, PushGame,
           withDataWriters, LeaveGameLoop, Goes
  <1>3. \A u \in Threads : /\ thread'[u] \in {"free", "gone"} <=> thread[u] \in {"free", "gone"}
                           /\ thread'[u] = "comparing" <=> thread[u] = "comparing"
    BY <1>2 DEF TypeOK
  <1> QED
    BY <1>1, <1>3, ModelsFrame

(* The books balance: what is added to a count is added to the uses. *)
LEMMA Balance ==
  ASSUME TypeOK, ControlInv, ModelsInv, NEW m \in Models, LoaderInv', NEW d \in Int,
         (Cardinality(UsersIn(nnEval', m)) - Cardinality(UsersIn(nnEval, m)))
           + (Cardinality(UsersIn(newNNEval', m)) - Cardinality(UsersIn(newNNEval, m)))
           + (Cardinality(TasksIn(gameTaskQueue', m)) - Cardinality(TasksIn(gameTaskQueue, m)))
           + (OfLoader(m)' - OfLoader(m)) = d,
         acquireCount'[m] = acquireCount[m] + d
  PROVE  acquireCount'[m] = Uses(m)'
  <1>1. acquireCount[m] = Uses(m)
    BY DEF ModelsInv, CountsInv
  <1>2. /\ Cardinality(UsersIn(nnEval, m)) \in Int /\ Cardinality(UsersIn(newNNEval, m)) \in Int
        /\ Cardinality(TasksIn(gameTaskQueue, m)) \in Int /\ OfLoader(m) \in Int
        /\ Cardinality(UsersIn(nnEval', m)) \in Int /\ Cardinality(UsersIn(newNNEval', m)) \in Int
        /\ Cardinality(TasksIn(gameTaskQueue', m)) \in Int /\ OfLoader(m)' \in Int
    <2>1. Cardinality(TasksIn(gameTaskQueue, m)) \in Int
      BY TasksCounted DEF ControlInv
    <2>2. Cardinality(TasksIn(gameTaskQueue', m)) \in Int
      <3>1. CASE gameTaskQueue' = <<>>
        BY <3>1, NoTasks
      <3>2. CASE gameTaskQueue' # <<>>
        <4>1. PICK x \in Models : gameTaskQueue' = <<x>>
          BY <3>2 DEF LoaderInv
        <4> QED
          BY <4>1, OneTaskCounts
      <3> QED
        BY <3>1, <3>2
    <2> QED
      BY <2>1, <2>2, UsersAreFinite DEF OfLoader
  <1>3. Uses(m)' = Cardinality(UsersIn(nnEval', m)) + Cardinality(UsersIn(newNNEval', m))
                     + Cardinality(TasksIn(gameTaskQueue', m)) + OfLoader(m)'
    BY DEF Uses, UsersIn, TasksIn
  <1>4. Uses(m) = Cardinality(UsersIn(nnEval, m)) + Cardinality(UsersIn(newNNEval, m))
                     + Cardinality(TasksIn(gameTaskQueue, m)) + OfLoader(m)
    BY DEF Uses
  <1> HIDE DEF Uses, OfLoader
  <1> QED
    BY <1>1, <1>2, <1>3, <1>4

(* A model is acquired for a game, or to see whether it is newer. *)
LEMMA ModelsAcquire ==
  ASSUME TypeOK, ControlInv, ModelsInv, NEW t \in Threads, AcquireForGame(t) \/ CheckForNewNNEval(t)
  PROVE  ModelsInv'
  <1> DEFINE latest == Latest(modelDatas)
  <1>1. /\ thread[t] # "gone" /\ ~distributed
        /\ acquireCount' = [acquireCount EXCEPT ![latest] = acquireCount[latest] + 1]
        /\ UNCHANGED <<modelDatas, gameTaskQueue, task, loader>>
    BY DEF AcquireForGame, CheckForNewNNEval, acquireLatest, controls
  <1>2. latest \in modelDatas /\ latest \in Models /\ latest # NoModel
    BY <1>1, LatestLoaded DEF Models, NoModel
  <1> HIDE DEF latest
  <1>3. LoaderInv'
    BY ControlThread DEF ControlInv
  <1>4. \A m \in Models : acquireCount'[m] = acquireCount[m] + (IF latest = m THEN 1 ELSE 0)
    BY <1>1, <1>2 DEF TypeOK
  <1>5. CASE AcquireForGame(t)
    <2>1. /\ thread[t] = "free" /\ thread' = [thread EXCEPT ![t] = "starting"]
          /\ nnEval' = [nnEval EXCEPT ![t] = latest] /\ newNNEval' = newNNEval
      BY <1>5 DEF AcquireForGame, Goes, latest
    <2>2. nnEval[t] = NoModel
      BY <2>1 DEF ModelsInv, HoldersInv
    <2>3. HoldersInv'
      BY <1>2, <2>1 DEF ModelsInv, HoldersInv, TypeOK
    <2>4. LoadedInv'
      BY <1>1, <1>2, <2>1 DEF ModelsInv, LoadedInv, TypeOK
    <2>5. ASSUME NEW m \in Models
          PROVE  acquireCount'[m] = Uses(m)'
      <3> DEFINE one == IF latest = m THEN 1 ELSE 0
      <3>1. nnEval[t] # m
        BY <2>2 DEF Models, NoModel
      <3>2. Cardinality(UsersIn(nnEval', m)) = Cardinality(UsersIn(nnEval, m)) + one
        <4>1. nnEval'[t] = latest /\ SameButFor(t, nnEval, nnEval')
          BY <2>1 DEF TypeOK, SameButFor
        <4>2. Cardinality(UsersIn(nnEval', m)) =
                Cardinality(UsersIn(nnEval, m)) - Has(nnEval, t, m) + Has(nnEval', t, m)
          BY <4>1, UserChanges
        <4> QED
          BY <3>1, <4>1, <4>2, UsersAreFinite DEF Has, Is
      <3>3. OfLoader(m)' = OfLoader(m)
        BY <1>1 DEF OfLoader
      <3>4. /\ Cardinality(UsersIn(newNNEval, m)) \in Int /\ OfLoader(m) \in Int
            /\ Cardinality(TasksIn(gameTaskQueue, m)) \in Int
        BY UsersAreFinite, TasksCounted DEF ControlInv, OfLoader
      <3> HIDE DEF one
      <3>5. one \in Int /\ acquireCount'[m] = acquireCount[m] + one
        BY <1>4 DEF one
      <3>6. (Cardinality(UsersIn(nnEval', m)) - Cardinality(UsersIn(nnEval, m)))
              + (Cardinality(UsersIn(newNNEval', m)) - Cardinality(UsersIn(newNNEval, m)))
              + (Cardinality(TasksIn(gameTaskQueue', m)) - Cardinality(TasksIn(gameTaskQueue, m)))
              + (OfLoader(m)' - OfLoader(m)) = one
        BY <1>1, <2>1, <3>2, <3>3, <3>4, <3>5, UsersAreFinite
      <3> QED
        BY <1>3, <3>5, <3>6, Balance
    <2> QED
      BY <2>3, <2>4, <2>5 DEF ModelsInv, CountsInv
  <1>6. CASE CheckForNewNNEval(t)
    <2>1. /\ thread[t] = "playing" /\ thread' = [thread EXCEPT ![t] = "comparing"]
          /\ newNNEval' = [newNNEval EXCEPT ![t] = latest] /\ nnEval' = nnEval
      BY <1>6 DEF CheckForNewNNEval, Goes, latest
    <2>2. newNNEval[t] = NoModel
      BY <2>1 DEF ModelsInv, HoldersInv
    <2>3. HoldersInv'
      BY <1>2, <2>1 DEF ModelsInv, HoldersInv, TypeOK
    <2>4. LoadedInv'
      BY <1>1, <1>2, <2>1 DEF ModelsInv, LoadedInv, TypeOK
    <2>5. ASSUME NEW m \in Models
          PROVE  acquireCount'[m] = Uses(m)'
      <3> DEFINE one == IF latest = m THEN 1 ELSE 0
      <3>1. newNNEval[t] # m
        BY <2>2 DEF Models, NoModel
      <3>2. Cardinality(UsersIn(newNNEval', m)) = Cardinality(UsersIn(newNNEval, m)) + one
        <4>1. newNNEval'[t] = latest /\ SameButFor(t, newNNEval, newNNEval')
          BY <2>1 DEF TypeOK, SameButFor
        <4>2. Cardinality(UsersIn(newNNEval', m)) =
                Cardinality(UsersIn(newNNEval, m)) - Has(newNNEval, t, m) + Has(newNNEval', t, m)
          BY <4>1, UserChanges
        <4> QED
          BY <3>1, <4>1, <4>2, UsersAreFinite DEF Has, Is
      <3>3. OfLoader(m)' = OfLoader(m)
        BY <1>1 DEF OfLoader
      <3>4. /\ Cardinality(UsersIn(nnEval, m)) \in Int /\ OfLoader(m) \in Int
            /\ Cardinality(TasksIn(gameTaskQueue, m)) \in Int
        BY UsersAreFinite, TasksCounted DEF ControlInv, OfLoader
      <3> HIDE DEF one
      <3>5. one \in Int /\ acquireCount'[m] = acquireCount[m] + one
        BY <1>4 DEF one
      <3>6. (Cardinality(UsersIn(nnEval', m)) - Cardinality(UsersIn(nnEval, m)))
              + (Cardinality(UsersIn(newNNEval', m)) - Cardinality(UsersIn(newNNEval, m)))
              + (Cardinality(TasksIn(gameTaskQueue', m)) - Cardinality(TasksIn(gameTaskQueue, m)))
              + (OfLoader(m)' - OfLoader(m)) = one
        BY <1>1, <2>1, <3>2, <3>3, <3>4, <3>5, UsersAreFinite
      <3> QED
        BY <1>3, <3>5, <3>6, Balance
    <2> QED
      BY <2>3, <2>4, <2>5 DEF ModelsInv, CountsInv
  <1> QED
    BY <1>5, <1>6

LEMMA ModelsInit == Init => ModelsInv
  <1> SUFFICES ASSUME Init PROVE ModelsInv
    OBVIOUS
  <1>1. HoldersInv /\ LoadedInv
    BY DEF Init, HoldersInv, LoadedInv
  <1>2. ASSUME NEW m \in Models
        PROVE  acquireCount[m] = Uses(m)
    <2>1. m # NoModel
      BY DEF Models, NoModel
    <2>2. UsersIn(nnEval, m) = {} /\ UsersIn(newNNEval, m) = {} /\ OfLoader(m) = 0
      BY <2>1 DEF Init, UsersIn, OfLoader
    <2>3. Cardinality(TasksIn(gameTaskQueue, m)) = 0
      BY NoTasks DEF Init
    <2>4. Cardinality({}) = 0
      BY FS_EmptySet
    <2>5. Uses(m) = 0
      BY <2>2, <2>3, <2>4 DEF Uses
    <2> QED
      BY <2>5 DEF Init
  <1> QED
    BY <1>1, <1>2 DEF ModelsInv, CountsInv

(* A release of a thread: of the older model, when it changes to a newer   *)
(* one, or of its only one.                                                *)
LEMMA ModelsRelease ==
  ASSUME TypeOK, ControlInv, ModelsInv, NEW t \in Threads, ReleaseOther(t) \/ ReleaseModel(t)
  PROVE  ModelsInv'
  <1> DEFINE x == nnEval[t]
             y == newNNEval[t]
  <1>1. /\ thread[t] \in {"comparing", "releasing", "leaving"} /\ release(x)
        /\ thread[t] = "comparing" => ~distributed
        /\ UNCHANGED <<distributed, loader, task, gameTaskQueue>>
    BY DEF ReleaseOther, ReleaseModel, controls, ControlInv, ThreadsInv
  <1>2. /\ x \in modelDatas /\ x \in Models /\ x \in 0 .. MaxModels
        /\ y = NoModel <=> thread[t] # "comparing"
    <2>1. x # NoModel /\ (y = NoModel <=> thread[t] # "comparing")
      BY <1>1 DEF ModelsInv, HoldersInv
    <2>2. x \in modelDatas
      BY <2>1 DEF ModelsInv, LoadedInv
    <2>3. x \in 0 .. MaxModels
      BY DEF TypeOK
    <2>4. x \in Models
      BY <2>1, <2>3, BoundsAssumption DEF Models, NoModel
    <2> QED
      BY <2>1, <2>2, <2>3, <2>4
  <1>3. /\ nnEval' = [nnEval EXCEPT ![t] = y]
        /\ newNNEval' = [newNNEval EXCEPT ![t] = NoModel]
    <2>1. CASE ReleaseOther(t)
      BY <2>1 DEF ReleaseOther
    <2>2. CASE ReleaseModel(t)
      BY <1>2, <2>2 DEF ReleaseModel, TypeOK
    <2> QED
      BY <2>1, <2>2
  <1>4. /\ nnEval'[t] = y /\ \A u \in Threads \ {t} : nnEval'[u] = nnEval[u]
        /\ newNNEval'[t] = NoModel /\ \A u \in Threads \ {t} : newNNEval'[u] = newNNEval[u]
    BY <1>3 DEF TypeOK
  <1>5. PICK pc \in {"playing", "gone", "free"} :
          thread' = [thread EXCEPT ![t] = pc] /\ (pc = "playing" <=> thread[t] = "comparing")
    BY DEF ReleaseOther, ReleaseModel, Goes
  <1>6. HoldersInv'
    <2>1. thread'[t] = pc /\ \A u \in Threads \ {t} : thread'[u] = thread[u]
      BY <1>5 DEF TypeOK
    <2> QED
      BY <1>2, <1>4, <1>5, <2>1 DEF ModelsInv, HoldersInv
  <1>7. ~distributed => numLoaded \in modelDatas
    <2>1. ~Destroyed
      BY <1>1 DEF ControlInv, ThreadsInv, Joined, Destroyed
    <2> QED
      BY <2>1 DEF ControlInv, LoaderInv
  <1>8. acquireCount' = [acquireCount EXCEPT ![x] = acquireCount[x] - 1]
    BY <1>1, <1>2, <1>7, ReleaseDrops DEF ControlInv
  <1>9. PICK S \in SUBSET modelDatas :
          /\ Drop(S, modelDatas)
          /\ \A s \in S : ~distributed /\ s # numLoaded /\ acquireCount'[s] <= 0
    BY <1>1, <1>2, <1>7, ReleaseDrops DEF ControlInv
  <1>10. LoaderInv'
    BY ControlRelease DEF ControlInv
  <1>11. ASSUME NEW m \in Models
         PROVE  acquireCount'[m] = Uses(m)'
    <2> DEFINE d == 0 - Is(x, m)
    <2>1. Cardinality(UsersIn(nnEval', m)) = Cardinality(UsersIn(nnEval, m)) - Is(x, m) + Is(y, m)
      BY <1>3, ModelChanges
    <2>2. Cardinality(UsersIn(newNNEval', m)) =
            Cardinality(UsersIn(newNNEval, m)) - Is(y, m) + Is(NoModel, m)
      <3>1. SameButFor(t, newNNEval, newNNEval')
        BY <1>4 DEF SameButFor
      <3>2. Cardinality(UsersIn(newNNEval', m)) =
              Cardinality(UsersIn(newNNEval, m)) - Has(newNNEval, t, m) + Has(newNNEval', t, m)
        BY <3>1, UserChanges
      <3> QED
        BY <1>4, <3>2 DEF Has
    <2>3. Is(NoModel, m) = 0
      BY DEF Is, NoModel, Models
    <2>4. /\ Cardinality(UsersIn(nnEval, m)) \in Int /\ Cardinality(UsersIn(newNNEval, m)) \in Int
          /\ Cardinality(TasksIn(gameTaskQueue, m)) \in Int
      BY UsersAreFinite, TasksCounted DEF ControlInv
    <2>5. OfLoader(m)' = OfLoader(m) /\ OfLoader(m) \in Int
      BY <1>1 DEF OfLoader
    <2>6. Is(x, m) \in Int /\ Is(y, m) \in Int
      BY DEF Is
    <2>7. acquireCount'[m] = acquireCount[m] + d
      BY <1>2, <1>8 DEF Is, TypeOK
    <2> HIDE DEF x, y
    <2>8. (Cardinality(UsersIn(nnEval', m)) - Cardinality(UsersIn(nnEval, m)))
            + (Cardinality(UsersIn(newNNEval', m)) - Cardinality(UsersIn(newNNEval, m)))
            + (Cardinality(TasksIn(gameTaskQueue', m)) - Cardinality(TasksIn(gameTaskQueue, m)))
            + (OfLoader(m)' - OfLoader(m)) = d
      BY <1>1, <2>1, <2>2, <2>3, <2>4, <2>5, <2>6
    <2>9. d \in Int
      BY <2>6
    <2> QED
      BY <1>10, <2>7, <2>8, <2>9, Balance
  <1>12. LoadedInv'
    <2>1. modelDatas' = modelDatas \ S /\ S \in SUBSET Models
      BY <1>9, BoundsAssumption DEF Drop, TypeOK, Models
    <2>2. task' # NoModel => S = {} /\ task' \in modelDatas
      BY <1>1, <1>9 DEF ControlInv, LoaderInv, ModelsInv, LoadedInv
    <2>3. \A u \in Threads :
            /\ nnEval'[u] # NoModel => nnEval'[u] \in modelDatas
            /\ newNNEval'[u] # NoModel => newNNEval'[u] \in modelDatas
      BY <1>4 DEF ModelsInv, LoadedInv
    <2>4. \A i \in DOMAIN gameTaskQueue' : gameTaskQueue'[i] \in modelDatas
      BY <1>1 DEF ModelsInv, LoadedInv
    <2> QED
      BY <1>9, <1>10, <1>11, <2>1, <2>2, <2>3, <2>4, DropUnused DEF CountsInv
  <1> QED
    BY <1>6, <1>11, <1>12 DEF ModelsInv, CountsInv

(* The acquisition of a task goes to the thread that takes it. *)
LEMMA ModelsTask ==
  ASSUME TypeOK, ControlInv, ModelsInv, NEW t \in Threads, PopTask(t)
  PROVE  ModelsInv'
  <1> DEFINE head == Head(gameTaskQueue)
  <1>1. /\ thread[t] = "free" /\ gameTaskQueue # <<>> /\ nnEval' = [nnEval EXCEPT ![t] = head]
        /\ gameTaskQueue' = Tail(gameTaskQueue)
        /\ UNCHANGED <<modelDatas, acquireCount, newNNEval, loader, task>>
    BY DEF PopTask, manager
  <1>2. gameTaskQueue' = <<>> /\ head \in Models /\ DOMAIN gameTaskQueue = {1} /\ gameTaskQueue[1] = head
    BY <1>1, OneTask DEF ControlInv
  <1>3. head \in modelDatas /\ head # NoModel
    BY <1>2 DEF ModelsInv, LoadedInv, Models, NoModel
  <1>4. nnEval[t] = NoModel /\ newNNEval[t] = NoModel
    BY <1>1 DEF ModelsInv, HoldersInv
  <1>5. nnEval'[t] = head /\ \A u \in Threads \ {t} : nnEval'[u] = nnEval[u]
    BY <1>1 DEF TypeOK
  <1>6. PICK pc \in {"releasing", "playing"} : thread' = [thread EXCEPT ![t] = pc]
    BY DEF PopTask, Goes
  <1>7. HoldersInv'
    <2>1. thread'[t] = pc /\ \A u \in Threads \ {t} : thread'[u] = thread[u]
      BY <1>6 DEF TypeOK
    <2> QED
      BY <1>1, <1>3, <1>4, <1>5, <1>6, <2>1 DEF ModelsInv, HoldersInv
  <1>8. LoadedInv'
    <2>1. DOMAIN gameTaskQueue' = {}
      BY <1>2
    <2> QED
      BY <1>1, <1>3, <1>5, <2>1 DEF ModelsInv, LoadedInv
  <1>9. LoaderInv'
    BY ControlTask DEF ControlInv
  <1>10. ASSUME NEW m \in Models
         PROVE  acquireCount'[m] = Uses(m)'
    <2>1. Cardinality(UsersIn(nnEval', m)) = Cardinality(UsersIn(nnEval, m)) - Is(NoModel, m) + Is(head, m)
      <3>1. Cardinality(UsersIn(nnEval', m)) =
              Cardinality(UsersIn(nnEval, m)) - Is(nnEval[t], m) + Is(head, m)
        BY <1>1, ModelChanges
      <3> QED
        BY <1>4, <3>1
    <2>2. Is(NoModel, m) = 0
      BY DEF Is, NoModel, Models
    <2>3. Cardinality(TasksIn(gameTaskQueue, m)) = Is(head, m)
      BY <1>1, TasksCounted DEF ControlInv, Is
    <2>4. Cardinality(TasksIn(gameTaskQueue', m)) = 0
      BY <1>2, NoTasks
    <2>5. OfLoader(m)' = OfLoader(m) /\ OfLoader(m) \in Int
      BY <1>1 DEF OfLoader
    <2>6. Cardinality(UsersIn(nnEval, m)) \in Int /\ Cardinality(UsersIn(newNNEval, m)) \in Int
      BY UsersAreFinite
    <2>7. Is(head, m) \in Int
      BY DEF Is
    <2>8. acquireCount'[m] = acquireCount[m] + 0
      BY <1>1 DEF TypeOK
    <2>9. (Cardinality(UsersIn(nnEval', m)) - Cardinality(UsersIn(nnEval, m)))
            + (Cardinality(UsersIn(newNNEval', m)) - Cardinality(UsersIn(newNNEval, m)))
            + (Cardinality(TasksIn(gameTaskQueue', m)) - Cardinality(TasksIn(gameTaskQueue, m)))
            + (OfLoader(m)' - OfLoader(m)) = 0
      BY <1>1, <2>1, <2>2, <2>3, <2>4, <2>5, <2>6, <2>7
    <2> QED
      BY <1>9, <2>8, <2>9, Balance
  <1> QED
    BY <1>7, <1>8, <1>10 DEF ModelsInv, CountsInv

(* The loop of tasks acquires a model for a task, hands it to the queue,   *)
(* or releases it.                                                         *)
LEMMA ModelsTaskLoop ==
  ASSUME TypeOK, ControlInv, ModelsInv, allocateGameTask \/ PushTask \/ freeGameTask
  PROVE  ModelsInv'
  <1>1. /\ loader \in {"acquiring", "pushing"}
        /\ UNCHANGED <<thread, nnEval, newNNEval, distributed>>
    BY DEF allocateGameTask, PushTask, freeGameTask, LoaderUnchanged, threads
  <1>2. task \in Models /\ distributed /\ task \in modelDatas /\ task \in 0 .. MaxModels
    <2>1. task # NoModel /\ distributed
      BY <1>1 DEF ControlInv, LoaderInv
    <2> QED
      BY <2>1, BoundsAssumption DEF ModelsInv, LoadedInv, TypeOK, Models, NoModel
  <1>3. HoldersInv'
    BY <1>1 DEF ModelsInv, HoldersInv
  <1>4. LoaderInv'
    BY ControlTaskLoop DEF ControlInv
  <1>5. ASSUME NEW m \in Models
        PROVE  /\ Cardinality(UsersIn(nnEval, m)) \in Int /\ Cardinality(UsersIn(newNNEval, m)) \in Int
               /\ Cardinality(TasksIn(gameTaskQueue, m)) \in Int /\ Is(task, m) \in Int
    BY UsersAreFinite, TasksCounted DEF ControlInv, Is
  <1>6. CASE allocateGameTask
    <2>1. /\ loader = "acquiring" /\ loader' = "pushing"
          /\ acquireCount' = [acquireCount EXCEPT ![task] = acquireCount[task] + 1]
          /\ UNCHANGED <<modelDatas, task, gameTaskQueue>>
      BY <1>6 DEF allocateGameTask, NoTaskMoves
    <2>2. LoadedInv'
      BY <1>1, <2>1 DEF ModelsInv, LoadedInv
    <2>3. ASSUME NEW m \in Models
          PROVE  acquireCount'[m] = Uses(m)'
      <3>1. OfLoader(m) = 0 /\ OfLoader(m)' = Is(task, m)
        BY <2>1 DEF OfLoader, Is
      <3>2. acquireCount'[m] = acquireCount[m] + Is(task, m)
        BY <1>2, <2>1 DEF TypeOK, Is
      <3>3. (Cardinality(UsersIn(nnEval', m)) - Cardinality(UsersIn(nnEval, m)))
              + (Cardinality(UsersIn(newNNEval', m)) - Cardinality(UsersIn(newNNEval, m)))
              + (Cardinality(TasksIn(gameTaskQueue', m)) - Cardinality(TasksIn(gameTaskQueue, m)))
              + (OfLoader(m)' - OfLoader(m)) = Is(task, m)
        BY <1>1, <1>5, <2>1, <3>1
      <3> QED
        BY <1>4, <1>5, <3>2, <3>3, Balance
    <2> QED
      BY <1>3, <2>2, <2>3 DEF ModelsInv, CountsInv
  <1>7. CASE PushTask
    <2>1. /\ loader = "pushing" /\ loader' # "pushing" /\ gameTaskQueue = <<>>
          /\ gameTaskQueue' = <<task>> /\ task' \in {task, NoModel}
          /\ UNCHANGED <<modelDatas, acquireCount>>
      BY <1>7 DEF PushTask, manager
    <2>2. LoadedInv'
      <3>1. DOMAIN gameTaskQueue' = {1} /\ gameTaskQueue'[1] = task
        BY <2>1
      <3> QED
        BY <1>1, <1>2, <2>1, <3>1 DEF ModelsInv, LoadedInv
    <2>3. ASSUME NEW m \in Models
          PROVE  acquireCount'[m] = Uses(m)'
      <3>1. OfLoader(m) = Is(task, m) /\ OfLoader(m)' = 0
        BY <2>1 DEF OfLoader, Is
      <3>2. Cardinality(TasksIn(gameTaskQueue, m)) = 0
        BY <2>1, NoTasks
      <3>3. Cardinality(TasksIn(gameTaskQueue', m)) = Is(task, m)
        BY <2>1, OneTaskCounts DEF Is
      <3>4. acquireCount'[m] = acquireCount[m] + 0
        BY <2>1 DEF TypeOK
      <3>5. (Cardinality(UsersIn(nnEval', m)) - Cardinality(UsersIn(nnEval, m)))
              + (Cardinality(UsersIn(newNNEval', m)) - Cardinality(UsersIn(newNNEval, m)))
              + (Cardinality(TasksIn(gameTaskQueue', m)) - Cardinality(TasksIn(gameTaskQueue, m)))
              + (OfLoader(m)' - OfLoader(m)) = 0
        BY <1>1, <1>5, <3>1, <3>2, <3>3
      <3> QED
        BY <1>4, <3>4, <3>5, Balance
    <2> QED
      BY <1>3, <2>2, <2>3 DEF ModelsInv, CountsInv
  <1>8. CASE freeGameTask
    <2>1. /\ loader = "pushing" /\ loader' = "polling" /\ task' = NoModel /\ release(task)
          /\ UNCHANGED gameTaskQueue
      BY <1>8 DEF freeGameTask, NoTaskMoves
    <2>2. /\ acquireCount' = [acquireCount EXCEPT ![task] = acquireCount[task] - 1]
          /\ modelDatas' = modelDatas
      <3>1. PICK S \in SUBSET modelDatas : Drop(S, modelDatas) /\ \A s \in S : ~distributed
        BY <1>2, <2>1, ReleaseDrops DEF ControlInv
      <3>2. modelDatas' = modelDatas
        BY <1>2, <3>1 DEF Drop
      <3> QED
        BY <1>2, <2>1, <3>2, ReleaseDrops DEF ControlInv
    <2>3. LoadedInv'
      BY <1>1, <2>1, <2>2 DEF ModelsInv, LoadedInv
    <2>4. ASSUME NEW m \in Models
          PROVE  acquireCount'[m] = Uses(m)'
      <3>1. OfLoader(m) = Is(task, m) /\ OfLoader(m)' = 0
        BY <2>1 DEF OfLoader, Is
      <3>2. acquireCount'[m] = acquireCount[m] + (0 - Is(task, m))
        BY <1>2, <2>2 DEF TypeOK, Is
      <3>3. (Cardinality(UsersIn(nnEval', m)) - Cardinality(UsersIn(nnEval, m)))
              + (Cardinality(UsersIn(newNNEval', m)) - Cardinality(UsersIn(newNNEval, m)))
              + (Cardinality(TasksIn(gameTaskQueue', m)) - Cardinality(TasksIn(gameTaskQueue, m)))
              + (OfLoader(m)' - OfLoader(m)) = 0 - Is(task, m)
        BY <1>1, <1>5, <2>1, <3>1
      <3>4. 0 - Is(task, m) \in Int
        BY <1>5
      <3> QED
        BY <1>4, <3>2, <3>3, <3>4, Balance
    <2> QED
      BY <1>3, <2>3, <2>4 DEF ModelsInv, CountsInv
  <1> QED
    BY <1>6, <1>7, <1>8

(* A drop of models whose counts are 0, while nobody acquires or releases. *)
LEMMA ModelsDrop ==
  ASSUME TypeOK, ModelsInv, LoaderInv', NEW S \in SUBSET Models, NEW loaded,
         modelDatas \subseteq loaded, modelDatas' = loaded \ S,
         \A x \in S : acquireCount[x] <= 0, task # NoModel => S = {},
         UNCHANGED <<nnEval, newNNEval, gameTaskQueue, task, acquireCount, thread>>,
         loader' = "pushing" <=> loader = "pushing"
  PROVE  ModelsInv'
  <1>1. HoldersInv'
    BY DEF ModelsInv, HoldersInv
  <1>2. CountsInv'
    BY DEF ModelsInv, CountsInv, Uses, OfLoader
  <1>3. ASSUME NEW x \in S
        PROVE  /\ \A t \in Threads : nnEval'[t] # x /\ newNNEval'[t] # x
               /\ \A i \in DOMAIN gameTaskQueue' : gameTaskQueue'[i] # x
    <2>1. acquireCount'[x] <= 0 /\ acquireCount'[x] = Uses(x)'
      BY <1>2 DEF CountsInv
    <2>2. Uses(x)' = Cardinality(UsersIn(nnEval', x)) + Cardinality(UsersIn(newNNEval', x))
                       + Cardinality(TasksIn(gameTaskQueue', x)) + OfLoader(x)'
      BY DEF Uses, UsersIn, TasksIn
    <2>3. OfLoader(x)' \in {0, 1}
      BY DEF OfLoader
    <2>4. gameTaskQueue' = <<>> \/ \E y \in Models : gameTaskQueue' = <<y>>
      BY DEF LoaderInv
    <2> QED
      BY <2>1, <2>2, <2>3, <2>4, NobodyUses
  <1>4. LoadedInv'
    BY <1>3 DEF ModelsInv, LoadedInv
  <1> QED
    BY <1>1, <1>2, <1>4 DEF ModelsInv

(* The loader loads and drops models. *)
LEMMA ModelsLoad ==
  ASSUME TypeOK, ControlInv, ModelsInv,
         \/ LookForModel \/ loadModelAndStartDataWriting \/ LeaveLoadLoop \/ GiveUpLoading
         \/ \E S \in SUBSET Models : cleanupUnusedModelsOlderThan(S)
         \/ \E m \in Models : loadModelNoDataWritingLoop(m)
  PROVE  ModelsInv'
  <1>1. UNCHANGED <<thread, nnEval, newNNEval, gameTaskQueue, acquireCount, distributed>>
    BY DEF LookForModel, loadModelAndStartDataWriting, LeaveLoadLoop, GiveUpLoading,
           cleanupUnusedModelsOlderThan, loadModelNoDataWritingLoop, LoaderUnchanged, NoTaskMoves,
           manager, threads
  <1>2. loader \in {"polling", "loading"} /\ loader' # "pushing" /\ task = NoModel
    BY DEF LookForModel, loadModelAndStartDataWriting, LeaveLoadLoop, GiveUpLoading,
           cleanupUnusedModelsOlderThan, loadModelNoDataWritingLoop, ControlInv, LoaderInv
  <1>3. LoaderInv'
    BY ControlTaskLoop, ControlLoad DEF ControlInv
  <1>4. CASE LookForModel \/ LeaveLoadLoop \/ GiveUpLoading
    <2>1. UNCHANGED <<task, modelDatas>>
      BY <1>4 DEF LookForModel, LeaveLoadLoop, GiveUpLoading, manager
    <2> QED
      BY <1>1, <1>2, <2>1, ModelsFrame
  <1>5. CASE loadModelAndStartDataWriting
    <2> DEFINE loaded == modelDatas \cup {numLoaded + 1}
               S == {m \in loaded : ~distributed /\ m # Latest(loaded) /\ acquireCount[m] <= 0}
    <2>1. modelDatas' = loaded \ S /\ task' = task /\ numLoaded < MaxModels
      BY <1>5 DEF loadModelAndStartDataWriting, maybeAutoCleanupAlreadyLocked, Drop
    <2>2. S \in SUBSET Models
      <3>1. numLoaded + 1 \in Models /\ modelDatas \subseteq Models
        BY <2>1, BoundsAssumption DEF TypeOK, Models
      <3> QED
        BY <3>1
    <2>3. modelDatas \subseteq loaded /\ \A x \in S : acquireCount[x] <= 0
      OBVIOUS
    <2> HIDE DEF S, loaded
    <2> QED
      BY <1>1, <1>2, <1>3, <2>1, <2>2, <2>3, ModelsDrop
  <1>6. ASSUME NEW S \in SUBSET Models, cleanupUnusedModelsOlderThan(S)
        PROVE  ModelsInv'
    <2>1. modelDatas' = modelDatas \ S /\ task' = task /\ \A x \in S : acquireCount[x] <= 0
      BY <1>6 DEF cleanupUnusedModelsOlderThan, Drop
    <2> QED
      BY <1>1, <1>2, <1>3, <2>1, ModelsDrop
  <1>7. ASSUME NEW m \in Models, loadModelNoDataWritingLoop(m)
        PROVE  ModelsInv'
    <2>1. modelDatas \subseteq modelDatas' /\ m \in modelDatas' /\ task' \in {m, NoModel}
      BY <1>2, <1>7 DEF loadModelNoDataWritingLoop, Loaded
    <2>2. HoldersInv'
      BY <1>1 DEF ModelsInv, HoldersInv
    <2>3. LoadedInv'
      BY <1>1, <2>1 DEF ModelsInv, LoadedInv
    <2>4. \A n \in Models : OfLoader(n)' = OfLoader(n)
      BY <1>2 DEF OfLoader
    <2>5. CountsInv'
      BY <1>1, <2>4 DEF ModelsInv, CountsInv, Uses
    <2> QED
      BY <2>2, <2>3, <2>5 DEF ModelsInv
  <1> QED
    BY <1>4, <1>5, <1>6, <1>7

(* The manager is destroyed when all threads are gone and no task is left. *)
LEMMA ModelsMain ==
  ASSUME TypeOK, ControlInv, ModelsInv, Signal \/ MainStep
  PROVE  ModelsInv'
  <1>1. UNCHANGED <<thread, nnEval, newNNEval, gameTaskQueue, acquireCount, distributed, loader, task>>
    BY DEF Signal, MainStep, CloseTaskQueue, JoinThreads, DestroyManager, LoopsAreDone,
           MainUnchanged, manager, threads
  <1>2. CASE modelDatas' = modelDatas
    BY <1>1, <1>2, ModelsFrame
  <1>3. CASE DestroyManager
    <2>1. main = "joiningLoader" /\ loader = "gone"
      BY <1>3 DEF DestroyManager
    <2>2. \A t \in Threads : thread[t] = "gone"
      BY <2>1 DEF ControlInv, ThreadsInv, Joined
    <2>3. gameTaskQueue = <<>> /\ task = NoModel
      <3>1. PICK t \in Threads : TRUE
        BY ThreadsAssumption
      <3>2. distributed => gameTaskQueue = <<>>
        BY <2>2, <3>1 DEF ControlInv, ThreadsInv
      <3> QED
        BY <2>1, <3>2 DEF ControlInv, LoaderInv
    <2>4. \A t \in Threads : nnEval[t] = NoModel /\ newNNEval[t] = NoModel
      BY <2>2 DEF ModelsInv, HoldersInv
    <2>5. LoadedInv'
      <3>1. DOMAIN gameTaskQueue' = {}
        BY <1>1, <2>3
      <3> QED
        BY <1>1, <2>3, <2>4, <3>1 DEF LoadedInv
    <2>6. HoldersInv' /\ CountsInv'
      BY <1>1 DEF ModelsInv, HoldersInv, CountsInv, Uses, OfLoader
    <2> QED
      BY <2>5, <2>6 DEF ModelsInv
  <1>4. modelDatas' = modelDatas \/ DestroyManager
    BY DEF Signal, MainStep, CloseTaskQueue, JoinThreads, LoopsAreDone, manager
  <1> QED
    BY <1>2, <1>3, <1>4

LEMMA ModelsStep ==
  ASSUME TypeOK, ControlInv, ModelsInv, [Next]_vars
  PROVE  ModelsInv'
  <1>1. ASSUME NEW m \in Models, LoopStep(m)
        PROVE  ModelsInv'
    <2>1. UNCHANGED <<thread, nnEval, newNNEval, gameTaskQueue, task, acquireCount, modelDatas, loader>>
      BY <1>1 DEF LoopStep, PopGame, WriteGame, EndLoop, FreeModel, CheckIn, manager, threads, controls
    <2> QED
      BY <2>1, ModelsFrame
  <1>2. CASE UNCHANGED vars
    <2>1. UNCHANGED <<thread, nnEval, newNNEval, gameTaskQueue, task, acquireCount, modelDatas, loader>>
      BY <1>2 DEF vars
    <2> QED
      BY <2>1, ModelsFrame
  <1>3. ASSUME NEW t \in Threads, ThreadStep(t) \/ CheckForNewNNEval(t)
        PROVE  ModelsInv'
    BY <1>3, ModelsThread, ModelsAcquire, ModelsRelease, ModelsTask DEF ThreadStep
  <1>4. CASE \/ LookForModel \/ loadModelAndStartDataWriting \/ LoaderStep
             \/ \E S \in SUBSET Models : cleanupUnusedModelsOlderThan(S)
    BY <1>4, ModelsTaskLoop, ModelsLoad DEF LoaderStep
  <1> QED
    BY <1>1, <1>2, <1>3, <1>4, ModelsMain DEF Next

-----------------------------------------------------------------------------
(* Loops: the manager waits for as many as there are. *)

LEMMA ActiveIsFinite == IsFiniteSet(Active) /\ Cardinality(Active) \in Nat
  <1>1. IsFiniteSet(1 .. MaxModels)
    BY BoundsAssumption, FS_Interval
  <1>2. Active \in SUBSET (1 .. MaxModels)
    BY DEF Active, Models
  <1> QED
    BY <1>1, <1>2, FS_Subset, FS_CardinalityType

LEMMA LoopsInit == Init => LoopsCounted
  <1> SUFFICES ASSUME Init PROVE LoopsCounted
    OBVIOUS
  <1>1. CASE distributed
    <2>1. Active = {} /\ numDataWriteLoopsActive = 0
      BY <1>1 DEF Init, Active, Models
    <2>2. Cardinality({}) = 0
      BY FS_EmptySet
    <2> QED
      BY <2>1, <2>2 DEF LoopsCounted
  <1>2. CASE ~distributed
    <2>1. numLoaded = 1 /\ numDataWriteLoopsActive = 1
      BY <1>2 DEF Init
    <2>2. 1 \in Models /\ \A m \in Models : m <= 1 => m = 1
      BY BoundsAssumption DEF Models
    <2>3. Active = {1}
      BY <2>1, <2>2 DEF Init, Active
    <2>4. Cardinality({1}) = 1
      BY FS_Singleton
    <2> QED
      BY <2>1, <2>3, <2>4 DEF LoopsCounted
  <1> QED
    BY <1>1, <1>2

LEMMA LoopsStep ==
  ASSUME TypeOK, ControlInv, LoopsCounted, [Next]_vars
  PROVE  LoopsCounted'
  <1>1. ASSUME NEW m \in Models, PopGame(m) \/ WriteGame(m) \/ EndLoop(m) \/ FreeModel(m)
        PROVE  LoopsCounted'
    <2>1. numDataWriteLoopsActive' = numDataWriteLoopsActive
      BY <1>1 DEF PopGame, WriteGame, EndLoop, FreeModel
    <2>2. PICK pc \in {"writing", "popping", "closing", "checkingIn"} :
            writeLoop' = [writeLoop EXCEPT ![m] = pc] /\ writeLoop[m] \notin {"none", "gone"}
      BY <1>1 DEF PopGame, WriteGame, EndLoop, FreeModel, LoopGoes
    <2>3. Active' = Active
      BY <2>2 DEF Active, TypeOK
    <2> QED
      BY <2>1, <2>3 DEF LoopsCounted
  <1>2. ASSUME NEW m \in Models, CheckIn(m)
        PROVE  LoopsCounted'
    <2>1. /\ writeLoop[m] = "checkingIn" /\ writeLoop' = [writeLoop EXCEPT ![m] = "gone"]
          /\ numDataWriteLoopsActive' = numDataWriteLoopsActive - 1
      BY <1>2 DEF CheckIn, LoopGoes
    <2>2. m \in Active /\ Active' = Active \ {m}
      BY <2>1 DEF Active, TypeOK
    <2>3. Cardinality(Active \ {m}) = Cardinality(Active) - 1
      BY <2>2, ActiveIsFinite, FS_RemoveElement
    <2> QED
      BY <2>1, <2>2, <2>3 DEF LoopsCounted
  <1>3. CASE loadModelAndStartDataWriting
    <2> DEFINE new == numLoaded + 1
    <2>1. /\ ~distributed /\ numLoaded < MaxModels /\ writeLoop' = [writeLoop EXCEPT ![new] = "popping"]
          /\ numDataWriteLoopsActive' = numDataWriteLoopsActive + 1
      BY <1>3 DEF loadModelAndStartDataWriting, LoopGoes
    <2>2. new \in Models /\ ~(new <= numLoaded)
      BY <2>1, BoundsAssumption DEF TypeOK, Models
    <2>3. writeLoop[new] = "none"
      BY <2>2 DEF ControlInv, LoopsInv
    <2> HIDE DEF new
    <2>4. new \notin Active /\ Active' = Active \cup {new}
      BY <2>1, <2>2, <2>3 DEF Active, TypeOK
    <2>5. Cardinality(Active \cup {new}) = Cardinality(Active) + 1
      BY <2>4, ActiveIsFinite, FS_AddElement
    <2> QED
      BY <2>1, <2>4, <2>5 DEF LoopsCounted
  <1>4. CASE UNCHANGED <<writeLoop, numDataWriteLoopsActive>>
    BY <1>4 DEF LoopsCounted, Active
  <1>5. CASE \E t \in Threads : ThreadStep(t) \/ CheckForNewNNEval(t)
    <2>1. UNCHANGED loops
      BY <1>5 DEF ThreadStep, CheckForNewNNEval, AcquireForGame, StartGame, ReleaseOther, StopGame,
                  DiscardGame, FinishGame, enqueueDataToWrite, PushGame, withDataWriters,
                  ReleaseModel, PopTask, LeaveGameLoop
    <2> QED
      BY <1>4, <2>1 DEF loops
  <1>6. CASE LookForModel \/ LoaderStep \/ \E S \in SUBSET Models : cleanupUnusedModelsOlderThan(S)
    <2>1. UNCHANGED <<writeLoop, numDataWriteLoopsActive>>
      BY <1>6 DEF LookForModel, LoaderStep, LeaveLoadLoop, cleanupUnusedModelsOlderThan,
                  loadModelNoDataWritingLoop, GiveUpLoading, allocateGameTask, PushTask, freeGameTask
    <2> QED
      BY <1>4, <2>1
  <1>7. CASE Signal \/ MainStep \/ UNCHANGED vars
    <2>1. UNCHANGED <<writeLoop, numDataWriteLoopsActive>>
      BY <1>7 DEF Signal, MainStep, CloseTaskQueue, JoinThreads, DestroyManager, LoopsAreDone,
                  MainUnchanged, loops, vars
    <2> QED
      BY <1>4, <2>1
  <1> QED
    BY <1>1, <1>2, <1>3, <1>5, <1>6, <1>7 DEF Next, LoopStep

(* Main waits for the loops, and none begins once the loader is gone. *)
EndedInv == main = "ended" => Active = {}

LEMMA EndedStep ==
  ASSUME TypeOK, ControlInv, LoopsCounted, EndedInv, [Next]_vars
  PROVE  EndedInv'
  <1> SUFFICES ASSUME main' = "ended" PROVE Active' = {}
    BY DEF EndedInv
  <1>1. CASE main = "ended"
    <2>1. loader = "gone" /\ Active = {}
      BY <1>1 DEF ControlInv, LoaderInv, Destroyed, EndedInv
    <2>2. ~loadModelAndStartDataWriting
      BY <2>1 DEF loadModelAndStartDataWriting
    <2>3. ASSUME NEW m \in Models, LoopStep(m)
          PROVE  FALSE
      <3>1. writeLoop[m] \in {"popping", "writing", "closing", "checkingIn"}
        BY <2>3 DEF LoopStep, PopGame, WriteGame, EndLoop, FreeModel, CheckIn
      <3> QED
        BY <2>1, <3>1 DEF Active
    <2>4. writeLoop' = writeLoop
      BY <2>2, <2>3 DEF Next, ThreadStep, CheckForNewNNEval, AcquireForGame, StartGame, ReleaseOther,
             StopGame, DiscardGame, FinishGame, enqueueDataToWrite, PushGame, withDataWriters,
             ReleaseModel, PopTask, LeaveGameLoop, LookForModel, LoaderStep, LeaveLoadLoop,
             cleanupUnusedModelsOlderThan, loadModelNoDataWritingLoop, GiveUpLoading,
             allocateGameTask, PushTask, freeGameTask, Signal, MainStep, CloseTaskQueue,
             JoinThreads, DestroyManager, LoopsAreDone, MainUnchanged, loops, vars
    <2> QED
      BY <2>1, <2>4 DEF Active
  <1>2. CASE main # "ended"
    <2>1. LoopsAreDone
      BY <1>2 DEF Next, ThreadStep, CheckForNewNNEval, AcquireForGame, StartGame, ReleaseOther,
             StopGame, DiscardGame, FinishGame, enqueueDataToWrite, PushGame, withDataWriters,
             ReleaseModel, PopTask, LeaveGameLoop, LookForModel, loadModelAndStartDataWriting,
             LoaderStep, LeaveLoadLoop, cleanupUnusedModelsOlderThan, loadModelNoDataWritingLoop,
             GiveUpLoading, allocateGameTask, PushTask, freeGameTask, LoaderUnchanged, controls,
             LoopStep, PopGame, WriteGame, EndLoop, FreeModel, CheckIn,
             Signal, MainStep, CloseTaskQueue, JoinThreads, DestroyManager, vars
    <2>2. numDataWriteLoopsActive <= 0 /\ Active' = Active
      BY <2>1 DEF LoopsAreDone, MainUnchanged, loops, Active
    <2>3. Cardinality(Active) = 0
      BY <2>2, ActiveIsFinite DEF LoopsCounted
    <2> QED
      BY <2>2, <2>3, ActiveIsFinite, FS_EmptySet
  <1> QED
    BY <1>1, <1>2

-----------------------------------------------------------------------------
(* Games: a game that was started is with one thread until it is thrown    *)
(* away, or finished; a finished game is held by a thread, queued, with a  *)
(* loop, or in a file, and these hold no game twice.                       *)

InQueues(g) == \E m \in Models : \E i \in DOMAIN finishedGameQueue[m] : finishedGameQueue[m][i] = g
Held(g) == \E t \in Threads : game[t] = g
InLoops(g) == \E m \in Models : writing[m] = g
InFiles(g) == \E i \in DOMAIN written : written[i][1] = g

HeldInv ==
  /\ finished \subseteq 1 .. numGamesStarted
  /\ \A t \in Threads :
       /\ game[t] # NoGame <=>
            thread[t] \in {"playing", "comparing", "enqueuing", "pushing", "writing"}
       /\ game[t] <= numGamesStarted
       /\ game[t] # NoGame =>
            (game[t] \in finished <=> thread[t] \in {"enqueuing", "pushing", "writing"})
  /\ \A t, u \in Threads : game[t] # NoGame /\ game[t] = game[u] => t = u
QueuesInv ==
  /\ \A m \in Models : writeLoop[m] \notin {"popping", "writing"} => finishedGameQueue[m] = <<>>
  /\ \A m, n \in Models : \A i \in DOMAIN finishedGameQueue[m], j \in DOMAIN finishedGameQueue[n] :
       finishedGameQueue[m][i] = finishedGameQueue[n][j] => m = n /\ i = j
WritingInv ==
  /\ \A m \in Models : writing[m] # NoGame <=> writeLoop[m] = "writing"
  /\ \A m, n \in Models : writing[m] # NoGame /\ writing[m] = writing[n] => m = n
  /\ \A i, j \in DOMAIN written : written[i][1] = written[j][1] => i = j
InOnePlace(g) ==
  /\ g \in finished => Held(g) \/ InQueues(g) \/ InLoops(g) \/ InFiles(g)
  /\ InQueues(g) \/ InLoops(g) \/ InFiles(g) => g \in finished
  /\ ~(Held(g) /\ InQueues(g)) /\ ~(Held(g) /\ InLoops(g)) /\ ~(Held(g) /\ InFiles(g))
  /\ ~(InQueues(g) /\ InLoops(g)) /\ ~(InQueues(g) /\ InFiles(g))
  /\ ~(InLoops(g) /\ InFiles(g))
ApartInv ==
  /\ \A g \in Nat \ {NoGame} : InOnePlace(g)
  /\ ~InQueues(NoGame) /\ ~InFiles(NoGame)
GamesInv == HeldInv /\ QueuesInv /\ WritingInv /\ ApartInv

LEMMA GamesInit == Init => GamesInv
  <1> SUFFICES ASSUME Init PROVE GamesInv
    OBVIOUS
  <1>1. HeldInv
    BY DEF Init, HeldInv, NoGame
  <1>2. QueuesInv
    BY DEF Init, QueuesInv
  <1>3. WritingInv
    BY DEF Init, WritingInv
  <1>4. /\ \A g : ~InQueues(g) /\ ~InFiles(g)
        /\ \A g \in Nat \ {NoGame} : ~Held(g) /\ ~InLoops(g)
    BY DEF Init, InQueues, InFiles, Held, InLoops
  <1>5. ApartInv
    BY <1>4 DEF Init, ApartInv, InOnePlace
  <1> QED
    BY <1>1, <1>2, <1>3, <1>5 DEF GamesInv

(* Where a game is after a thread gives up its game, or gets one. *)
LEMMA GivesUp ==
  ASSUME TypeOK, HeldInv, NEW t \in Threads, game' = [game EXCEPT ![t] = NoGame],
         NEW g \in Nat \ {NoGame}
  PROVE  Held(g)' <=> Held(g) /\ g # game[t]
  <1>1. game'[t] = NoGame /\ \A u \in Threads \ {t} : game'[u] = game[u]
    BY DEF TypeOK
  <1>2. ASSUME NEW u \in Threads, u # t, game[u] = g
        PROVE  g # game[t]
    BY <1>2 DEF HeldInv
  <1> QED
    BY <1>1, <1>2 DEF Held

LEMMA GetsGame ==
  ASSUME TypeOK, NEW t \in Threads, game[t] = NoGame, NEW x, game' = [game EXCEPT ![t] = x],
         NEW g \in Nat \ {NoGame}
  PROVE  Held(g)' <=> Held(g) \/ g = x
  <1>1. game'[t] = x /\ \A u \in Threads \ {t} : game'[u] = game[u]
    BY DEF TypeOK
  <1> QED
    BY <1>1 DEF Held

(* A game is added to the queue of a model, whose loop is there. *)
LEMMA Enqueued ==
  ASSUME TypeOK, QueuesInv, NEW m \in Models, NEW x \in Nat, ~InQueues(x),
         finishedGameQueue' = [finishedGameQueue EXCEPT ![m] = Append(finishedGameQueue[m], x)],
         writeLoop[m] \in {"popping", "writing"}, writeLoop' = writeLoop
  PROVE  QueuesInv' /\ \A g : InQueues(g)' <=> InQueues(g) \/ g = x
  <1> DEFINE q == finishedGameQueue[m]
             r == finishedGameQueue'[m]
  <1>1. /\ Len(r) = Len(q) + 1 /\ r[Len(q) + 1] = x /\ \A i \in 1 .. Len(q) : r[i] = q[i]
        /\ DOMAIN q = 1 .. Len(q) /\ DOMAIN r = 1 .. Len(r) /\ Len(q) \in Nat
    <2>1. q \in Seq(Nat) /\ r = Append(q, x)
      BY DEF TypeOK
    <2> QED
      BY <2>1, AppendProperties
  <1>2. \A n \in Models \ {m} : finishedGameQueue'[n] = finishedGameQueue[n]
    BY DEF TypeOK
  <1>3. \A i \in DOMAIN r : (i \in DOMAIN q /\ r[i] = q[i]) \/ (i = Len(q) + 1 /\ r[i] = x)
    <2> HIDE DEF q, r
    <2> SUFFICES ASSUME NEW i \in DOMAIN r
                 PROVE  (i \in DOMAIN q /\ r[i] = q[i]) \/ (i = Len(q) + 1 /\ r[i] = x)
      OBVIOUS
    <2>1. i \in 1 .. Len(q) \/ i = Len(q) + 1
      BY <1>1
    <2> QED
      <3>1. DOMAIN q = 1 .. Len(q) /\ \A j \in 1 .. Len(q) : r[j] = q[j]
        BY <1>1
      <3>2. r[Len(q) + 1] = x
        BY <1>1
      <3> QED
        BY <2>1, <3>1, <3>2, Zenon
  <1>4. \A i \in DOMAIN q : i \in DOMAIN r
    <2> HIDE DEF q, r
    <2>1. \A i \in 1 .. Len(q) : i \in 1 .. Len(r)
      BY <1>1
    <2>2. DOMAIN q = 1 .. Len(q) /\ DOMAIN r = 1 .. Len(r)
      BY <1>1
    <2> QED
      BY <2>1, <2>2, Zenon
  <1>5. \A n \in Models : \A j \in DOMAIN finishedGameQueue[n] : finishedGameQueue[n][j] # x
    BY DEF InQueues
  <1>6. ASSUME NEW g PROVE InQueues(g)' <=> InQueues(g) \/ g = x
    <2>1. ASSUME InQueues(g)' PROVE InQueues(g) \/ g = x
      <3>1. PICK n \in Models : \E i \in DOMAIN finishedGameQueue'[n] : finishedGameQueue'[n][i] = g
        BY <2>1 DEF InQueues
      <3>2. CASE n = m
        BY <1>3, <3>1, <3>2 DEF InQueues
      <3>3. CASE n # m
        BY <1>2, <3>1, <3>3 DEF InQueues
      <3> QED
        BY <3>2, <3>3
    <2>2. ASSUME InQueues(g) PROVE InQueues(g)'
      <3>1. PICK n \in Models : \E i \in DOMAIN finishedGameQueue[n] : finishedGameQueue[n][i] = g
        BY <2>2 DEF InQueues
      <3>2. CASE n = m
        BY <1>1, <1>4, <3>1, <3>2 DEF InQueues
      <3>3. CASE n # m
        BY <1>2, <3>1, <3>3 DEF InQueues
      <3> QED
        BY <3>2, <3>3
    <2>3. ASSUME g = x PROVE InQueues(g)'
      <3>1. Len(q) + 1 \in DOMAIN r
        BY <1>1
      <3> QED
        BY <1>1, <2>3, <3>1 DEF InQueues
    <2> QED
      BY <2>1, <2>2, <2>3
  <1>7. ASSUME NEW n \in Models, writeLoop'[n] \notin {"popping", "writing"}
        PROVE  finishedGameQueue'[n] = <<>>
    BY <1>2, <1>7 DEF QueuesInv
  <1>8. ASSUME NEW n \in Models, NEW o \in Models, NEW i \in DOMAIN finishedGameQueue'[n],
               NEW j \in DOMAIN finishedGameQueue'[o],
               finishedGameQueue'[n][i] = finishedGameQueue'[o][j]
        PROVE  n = o /\ i = j
    <2>1. CASE n = m /\ o = m
      <3>1. i \in DOMAIN r /\ j \in DOMAIN r /\ r[i] = r[j]
        BY <1>8, <2>1
      <3>2. \A k, l \in DOMAIN q : q[k] = q[l] => k = l
        BY DEF QueuesInv
      <3>3. \A k \in DOMAIN q : q[k] # x
        BY <1>5
      <3> HIDE DEF q, r
      <3>4. i = j
        BY <1>3, <3>1, <3>2, <3>3
      <3> QED
        BY <2>1, <3>4
    <2>2. CASE n = m /\ o # m
      <3>1. i \in DOMAIN r /\ finishedGameQueue[o][j] = r[i] /\ j \in DOMAIN finishedGameQueue[o]
        BY <1>2, <1>8, <2>2
      <3>2. i \in DOMAIN q /\ r[i] = q[i]
        BY <1>3, <1>5, <3>1
      <3> QED
        BY <2>2, <3>1, <3>2 DEF QueuesInv
    <2>3. CASE n # m /\ o = m
      <3>1. j \in DOMAIN r /\ finishedGameQueue[n][i] = r[j] /\ i \in DOMAIN finishedGameQueue[n]
        BY <1>2, <1>8, <2>3
      <3>2. j \in DOMAIN q /\ r[j] = q[j]
        BY <1>3, <1>5, <3>1
      <3> QED
        BY <2>3, <3>1, <3>2 DEF QueuesInv
    <2>4. CASE n # m /\ o # m
      BY <1>2, <1>8, <2>4 DEF QueuesInv
    <2> QED
      BY <2>1, <2>2, <2>3, <2>4
  <1>9. QueuesInv'
    BY <1>7, <1>8 DEF QueuesInv
  <1> QED
    BY <1>6, <1>9

(* The first game of a queue leaves it. *)
LEMMA Dequeued ==
  ASSUME TypeOK, QueuesInv, NEW m \in Models, finishedGameQueue[m] # <<>>,
         finishedGameQueue' = [finishedGameQueue EXCEPT ![m] = Tail(finishedGameQueue[m])],
         \A n \in Models : writeLoop'[n] \in {"popping", "writing"} <=>
                             writeLoop[n] \in {"popping", "writing"}
  PROVE  /\ QueuesInv' /\ InQueues(Head(finishedGameQueue[m])) /\ Head(finishedGameQueue[m]) \in Nat
         /\ \A g : InQueues(g)' <=> InQueues(g) /\ g # Head(finishedGameQueue[m])
  <1> DEFINE q == finishedGameQueue[m]
             r == finishedGameQueue'[m]
  <1>1. q \in Seq(Nat) /\ q # <<>> /\ r = Tail(q)
    BY DEF TypeOK
  <1>2. \A n \in Models \ {m} : finishedGameQueue'[n] = finishedGameQueue[n]
    BY DEF TypeOK
  <1>3. \A n \in Models : \A i, j \in DOMAIN finishedGameQueue[n] :
          finishedGameQueue[n][i] = finishedGameQueue[n][j] => i = j
    BY DEF QueuesInv
  <1>4. \A i, j \in DOMAIN q : q[i] = q[j] => i = j
    BY <1>3
  <1>5. /\ Head(q) \in Nat /\ 1 \in DOMAIN q /\ q[1] = Head(q)
        /\ \A i \in DOMAIN r : i + 1 \in DOMAIN q /\ r[i] = q[i + 1] /\ i \in Nat \ {0}
        /\ \A i \in DOMAIN q : i = 1 \/ (i - 1 \in DOMAIN r /\ r[i - 1] = q[i])
    <2> HIDE DEF q, r
    <2>1. /\ Head(q) \in Nat /\ Len(r) = Len(q) - 1 /\ r \in Seq(Nat)
          /\ \A i \in 1 .. Len(r) : r[i] = q[i + 1]
      BY <1>1, HeadTailProperties
    <2>2. Len(q) \in Nat \ {0} /\ DOMAIN q = 1 .. Len(q) /\ DOMAIN r = 1 .. Len(r) /\ Head(q) = q[1]
      BY <1>1, <2>1, EmptySeq
    <2>3. \A i \in 1 .. Len(q) : i = 1 \/ (i - 1 \in 1 .. Len(r) /\ (i - 1) + 1 = i)
      BY <2>1, <2>2
    <2>4. \A i \in DOMAIN q : i = 1 \/ (i - 1 \in DOMAIN r /\ r[i - 1] = q[i])
      BY <2>1, <2>2, <2>3
    <2>5. \A i \in 1 .. Len(r) : i + 1 \in 1 .. Len(q) /\ i \in Nat \ {0}
      BY <2>1, <2>2
    <2>6. 1 \in 1 .. Len(q)
      BY <2>2
    <2> QED
      BY <2>1, <2>2, <2>4, <2>5, <2>6
  <1>6. InQueues(Head(q))
    BY <1>5 DEF InQueues
  <1>7. ASSUME NEW i \in DOMAIN r
        PROVE  r[i] # Head(q)
    <2> HIDE DEF q, r
    <2>1. i + 1 \in DOMAIN q /\ r[i] = q[i + 1] /\ i + 1 # 1 /\ 1 \in DOMAIN q /\ q[1] = Head(q)
      BY <1>5
    <2> QED
      BY <1>4, <2>1
  <1>8. ASSUME NEW g PROVE InQueues(g)' <=> InQueues(g) /\ g # Head(q)
    <2>1. ASSUME InQueues(g)' PROVE InQueues(g) /\ g # Head(q)
      <3>1. PICK n \in Models : \E i \in DOMAIN finishedGameQueue'[n] : finishedGameQueue'[n][i] = g
        BY <2>1 DEF InQueues
      <3>2. CASE n = m
        BY <1>5, <1>7, <3>1, <3>2 DEF InQueues
      <3>3. CASE n # m
        <4>1. PICK i \in DOMAIN finishedGameQueue[n] : finishedGameQueue[n][i] = g
          BY <1>2, <3>1, <3>3
        <4>2. 1 \in DOMAIN finishedGameQueue[m] /\ Head(q) = finishedGameQueue[m][1]
          BY <1>5
        <4>3. g # finishedGameQueue[m][1]
          BY <3>3, <4>1, <4>2 DEF QueuesInv
        <4> QED
          BY <4>1, <4>2, <4>3 DEF InQueues
      <3> QED
        BY <3>2, <3>3
    <2>2. ASSUME InQueues(g), g # Head(q) PROVE InQueues(g)'
      <3>1. PICK n \in Models : \E i \in DOMAIN finishedGameQueue[n] : finishedGameQueue[n][i] = g
        BY <2>2 DEF InQueues
      <3>2. CASE n = m
        <4>1. PICK i \in DOMAIN q : q[i] = g
          BY <3>1, <3>2
        <4>2. i - 1 \in DOMAIN r /\ r[i - 1] = g
          BY <1>5, <2>2, <4>1
        <4> QED
          BY <4>2 DEF InQueues
      <3>3. CASE n # m
        BY <1>2, <3>1, <3>3 DEF InQueues
      <3> QED
        BY <3>2, <3>3
    <2> QED
      BY <2>1, <2>2
  <1>9. ASSUME NEW n \in Models, writeLoop'[n] \notin {"popping", "writing"}
        PROVE  finishedGameQueue'[n] = <<>>
    <2>1. finishedGameQueue[n] = <<>> /\ n # m
      BY <1>9 DEF QueuesInv
    <2> QED
      BY <1>2, <2>1
  <1>10. ASSUME NEW n \in Models, NEW o \in Models, NEW i \in DOMAIN finishedGameQueue'[n],
                NEW j \in DOMAIN finishedGameQueue'[o],
                finishedGameQueue'[n][i] = finishedGameQueue'[o][j]
         PROVE  n = o /\ i = j
    <2>1. CASE n = m /\ o = m
      <3>1. i \in DOMAIN r /\ j \in DOMAIN r /\ r[i] = r[j]
        BY <1>10, <2>1
      <3> HIDE DEF q, r
      <3>2. i + 1 \in DOMAIN q /\ j + 1 \in DOMAIN q /\ q[i + 1] = q[j + 1] /\ i \in Nat /\ j \in Nat
        BY <1>5, <3>1
      <3>3. i + 1 = j + 1
        BY <1>4, <3>2
      <3> QED
        BY <2>1, <3>2, <3>3
    <2>2. CASE n = m /\ o # m
      <3>1. /\ i \in DOMAIN r /\ finishedGameQueue[o][j] = r[i] /\ j \in DOMAIN finishedGameQueue[o]
            /\ i + 1 \in DOMAIN q /\ r[i] = q[i + 1]
        BY <1>2, <1>5, <1>10, <2>2
      <3> QED
        BY <2>2, <3>1 DEF QueuesInv
    <2>3. CASE n # m /\ o = m
      <3>1. /\ j \in DOMAIN r /\ finishedGameQueue[n][i] = r[j] /\ i \in DOMAIN finishedGameQueue[n]
            /\ j + 1 \in DOMAIN q /\ r[j] = q[j + 1]
        BY <1>2, <1>5, <1>10, <2>3
      <3> QED
        BY <2>3, <3>1 DEF QueuesInv
    <2>4. CASE n # m /\ o # m
      BY <1>2, <1>10, <2>4 DEF QueuesInv
    <2> QED
      BY <2>1, <2>2, <2>3, <2>4
  <1>11. QueuesInv'
    BY <1>9, <1>10 DEF QueuesInv
  <1> QED
    BY <1>5, <1>6, <1>8, <1>11

(* A game is written. *)
LEMMA Written ==
  ASSUME TypeOK, NEW x \in Nat, NEW m \in Models, written' = Append(written, <<x, m>>), ~InFiles(x),
         \A i, j \in DOMAIN written : written[i][1] = written[j][1] => i = j
  PROVE  /\ \A g : InFiles(g)' <=> InFiles(g) \/ g = x
         /\ \A i, j \in DOMAIN written' : written'[i][1] = written'[j][1] => i = j
  <1>1. /\ Len(written') = Len(written) + 1 /\ written'[Len(written) + 1] = <<x, m>>
        /\ \A i \in 1 .. Len(written) : written'[i] = written[i]
        /\ DOMAIN written = 1 .. Len(written) /\ DOMAIN written' = 1 .. Len(written')
        /\ Len(written) \in Nat
    <2>1. written \in Seq(Nat \X Models) /\ <<x, m>> \in Nat \X Models
      BY DEF TypeOK
    <2> QED
      BY <2>1, AppendProperties
  <1>2. /\ \A i \in DOMAIN written' :
             (i \in DOMAIN written /\ written'[i] = written[i])
               \/ (i = Len(written) + 1 /\ written'[i] = <<x, m>>)
        /\ \A i \in DOMAIN written : i \in DOMAIN written' /\ written'[i] = written[i]
        /\ Len(written) + 1 \in DOMAIN written'
    <2>1. ASSUME NEW i \in DOMAIN written'
          PROVE  (i \in DOMAIN written /\ written'[i] = written[i])
                   \/ (i = Len(written) + 1 /\ written'[i] = <<x, m>>)
      <3>1. i \in 1 .. Len(written) \/ i = Len(written) + 1
        BY <1>1
      <3> QED
        <4>1. DOMAIN written = 1 .. Len(written) /\ \A j \in 1 .. Len(written) : written'[j] = written[j]
          BY <1>1
        <4>2. written'[Len(written) + 1] = <<x, m>>
          BY <1>1
        <4> QED
          BY <3>1, <4>1, <4>2, Zenon
    <2>2. ASSUME NEW i \in DOMAIN written
          PROVE  i \in DOMAIN written' /\ written'[i] = written[i]
      <3>1. i \in 1 .. Len(written')
        BY <1>1
      <3> QED
        BY <1>1, <3>1
    <2>3. Len(written) + 1 \in DOMAIN written'
      BY <1>1
    <2> QED
      BY <2>1, <2>2, <2>3
  <1>3. \A i \in DOMAIN written : written[i][1] # x
    BY DEF InFiles
  <1>4. <<x, m>>[1] = x
    OBVIOUS
  <1>5. \A g : InFiles(g)' <=> InFiles(g) \/ g = x
    BY <1>1, <1>2, <1>4 DEF InFiles
  <1>6. \A i, j \in DOMAIN written' : written'[i][1] = written'[j][1] => i = j
    BY <1>2, <1>3, <1>4
  <1> QED
    BY <1>5, <1>6

(* A loop takes a game, or is done with it. *)
LEMMA Takes ==
  ASSUME TypeOK, NEW m \in Models, writing[m] = NoGame, NEW x, writing' = [writing EXCEPT ![m] = x],
         NEW g \in Nat \ {NoGame}
  PROVE  InLoops(g)' <=> InLoops(g) \/ g = x
  <1>1. writing'[m] = x /\ \A n \in Models \ {m} : writing'[n] = writing[n]
    BY DEF TypeOK
  <1> QED
    BY <1>1 DEF InLoops

LEMMA IsDone ==
  ASSUME TypeOK, WritingInv, NEW m \in Models, writing' = [writing EXCEPT ![m] = NoGame],
         NEW g \in Nat \ {NoGame}
  PROVE  InLoops(g)' <=> InLoops(g) /\ g # writing[m]
  <1>1. writing'[m] = NoGame /\ \A n \in Models \ {m} : writing'[n] = writing[n]
    BY DEF TypeOK
  <1>2. ASSUME NEW n \in Models, n # m, writing[n] = g
        PROVE  g # writing[m]
    BY <1>2 DEF WritingInv
  <1> QED
    BY <1>1, <1>2 DEF InLoops

LEMMA Stays ==
  /\ game' = game => \A g : Held(g)' <=> Held(g)
  /\ finishedGameQueue' = finishedGameQueue => \A g : InQueues(g)' <=> InQueues(g)
  /\ writing' = writing => \A g : InLoops(g)' <=> InLoops(g)
  /\ written' = written => \A g : InFiles(g)' <=> InFiles(g)
  BY DEF Held, InQueues, InLoops, InFiles

(* One game goes elsewhere, and the others stay. *)
LEMMA OneMoves ==
  ASSUME ApartInv, NEW x \in Nat \ {NoGame}, InOnePlace(x)',
         \A g \in Nat \ {NoGame} : g # x =>
           /\ g \in finished' <=> g \in finished
           /\ Held(g)' <=> Held(g)
           /\ InQueues(g)' <=> InQueues(g)
           /\ InLoops(g)' <=> InLoops(g)
           /\ InFiles(g)' <=> InFiles(g),
         ~InQueues(NoGame)', ~InFiles(NoGame)'
  PROVE  ApartInv'
  <1>1. ASSUME NEW g \in Nat \ {NoGame}, g # x
        PROVE  InOnePlace(g)'
    <2>1. InOnePlace(g)
      BY DEF ApartInv
    <2> QED
      BY <1>1, <2>1 DEF InOnePlace
  <1> QED
    BY <1>1 DEF ApartInv

(* Steps that move no game. *)
LEMMA GamesFrame ==
  ASSUME GamesInv, HeldInv', UNCHANGED <<game, finishedGameQueue, writing, written, finished>>,
         \A m \in Models :
           /\ writeLoop'[m] \notin {"popping", "writing"} => finishedGameQueue[m] = <<>>
           /\ writeLoop'[m] = "writing" <=> writeLoop[m] = "writing"
  PROVE  GamesInv'
  <1>1. QueuesInv'
    BY DEF GamesInv, QueuesInv
  <1>2. WritingInv'
    BY DEF GamesInv, WritingInv
  <1>3. /\ \A g : (Held(g)' <=> Held(g)) /\ (InQueues(g)' <=> InQueues(g))
        /\ \A g : (InLoops(g)' <=> InLoops(g)) /\ (InFiles(g)' <=> InFiles(g))
    BY Stays
  <1>4. ApartInv'
    BY <1>3 DEF GamesInv, ApartInv, InOnePlace
  <1> QED
    BY <1>1, <1>2, <1>4 DEF GamesInv

Holding == {"playing", "comparing", "enqueuing", "pushing", "writing"}
HoldingFinished == {"enqueuing", "pushing", "writing"}

LEMMA HeldFrame ==
  ASSUME TypeOK, HeldInv, UNCHANGED <<game, numGamesStarted, finished>>,
         NEW t \in Threads, NEW pc, thread' = [thread EXCEPT ![t] = pc],
         pc \in Holding <=> thread[t] \in Holding,
         pc \in HoldingFinished <=> thread[t] \in HoldingFinished
  PROVE  HeldInv'
  <1>1. \A u \in Threads : /\ thread'[u] \in Holding <=> thread[u] \in Holding
                           /\ thread'[u] \in HoldingFinished <=> thread[u] \in HoldingFinished
    BY DEF TypeOK
  <1> QED
    BY <1>1 DEF HeldInv, Holding, HoldingFinished

LEMMA GamesThread ==
  ASSUME TypeOK, GamesInv, NEW t \in Threads,
         \/ AcquireForGame(t) \/ CheckForNewNNEval(t) \/ ReleaseOther(t) \/ ReleaseModel(t)
         \/ enqueueDataToWrite(t) \/ LeaveGameLoop(t)
         \/ StartGame(t) /\ numGamesStarted' = numGamesStarted
         \/ PopTask(t) /\ numGamesStarted' = numGamesStarted
  PROVE  GamesInv'
  <1>1. UNCHANGED <<game, finishedGameQueue, writing, written, finished, writeLoop, numGamesStarted>>
    BY DEF AcquireForGame, CheckForNewNNEval, ReleaseOther, ReleaseModel, enqueueDataToWrite,
           LeaveGameLoop, StartGame, PopTask, loops, history, TypeOK
  <1>2. PICK pc \in {"starting", "playing", "comparing", "pushing", "free", "gone", "leaving", "releasing"} :
          /\ thread' = [thread EXCEPT ![t] = pc]
          /\ pc \in Holding <=> thread[t] \in Holding
          /\ pc \in HoldingFinished <=> thread[t] \in HoldingFinished
    <2>1. CASE AcquireForGame(t)
      BY <2>1 DEF AcquireForGame, Goes, Holding, HoldingFinished
    <2>2. CASE CheckForNewNNEval(t)
      BY <2>2 DEF CheckForNewNNEval, Goes, Holding, HoldingFinished
    <2>3. CASE ReleaseOther(t)
      BY <2>3 DEF ReleaseOther, Goes, Holding, HoldingFinished
    <2>4. CASE ReleaseModel(t)
      BY <2>4 DEF ReleaseModel, Goes, Holding, HoldingFinished
    <2>5. CASE enqueueDataToWrite(t)
      BY <2>5 DEF enqueueDataToWrite, Goes, Holding, HoldingFinished
    <2>6. CASE LeaveGameLoop(t)
      BY <2>6 DEF LeaveGameLoop, Goes, Holding, HoldingFinished
    <2>7. CASE StartGame(t) /\ numGamesStarted' = numGamesStarted
      BY <2>7 DEF StartGame, Goes, Holding, HoldingFinished, TypeOK
    <2>8. CASE PopTask(t) /\ numGamesStarted' = numGamesStarted
      BY <2>8 DEF PopTask, Goes, Holding, HoldingFinished, TypeOK
    <2> QED
      BY <2>1, <2>2, <2>3, <2>4, <2>5, <2>6, <2>7, <2>8
  <1>3. HeldInv'
    BY <1>1, <1>2, HeldFrame DEF GamesInv
  <1> QED
    BY <1>1, <1>3, GamesFrame DEF GamesInv, QueuesInv

(* A game begins with a thread that has none. *)
LEMMA GamesBegin ==
  ASSUME TypeOK, GamesInv, NEW t \in Threads, StartGame(t) \/ PopTask(t),
         numGamesStarted' # numGamesStarted
  PROVE  GamesInv'
  <1>1. PICK x \in Nat : x = numGamesStarted + 1
    BY DEF TypeOK
  <1>2. /\ thread[t] \in {"free", "starting"} /\ thread' = [thread EXCEPT ![t] = "playing"]
        /\ numGamesStarted' = x /\ game' = [game EXCEPT ![t] = x]
        /\ UNCHANGED <<finishedGameQueue, writing, written, finished, writeLoop>>
    BY <1>1 DEF StartGame, PopTask, Goes, loops, history
  <1>3. x \in Nat \ {NoGame} /\ x \notin finished /\ numGamesStarted \in Nat
    BY <1>1 DEF TypeOK, GamesInv, HeldInv, NoGame
  <1>4. game[t] = NoGame
    BY <1>2 DEF GamesInv, HeldInv
  <1>5. \A g \in Nat \ {NoGame} : Held(g)' <=> Held(g) \/ g = x
    BY <1>2, <1>4, GetsGame
  <1>6. HeldInv'
    <2>1. /\ thread'[t] = "playing" /\ game'[t] = x
          /\ \A u \in Threads \ {t} : thread'[u] = thread[u] /\ game'[u] = game[u]
      BY <1>2 DEF TypeOK
    <2>2. \A u \in Threads : game[u] \in Nat /\ game[u] <= numGamesStarted
      BY DEF GamesInv, HeldInv, TypeOK
    <2>3. \A u \in Threads : game[u] # x
      BY <1>1, <1>3, <2>2
    <2>4. finished' \subseteq 1 .. numGamesStarted'
      BY <1>1, <1>2, <1>3 DEF GamesInv, HeldInv
    <2>5. \A u \in Threads : game'[u] <= numGamesStarted'
      BY <1>1, <1>2, <1>3, <2>1, <2>2
    <2>6. \A u, v \in Threads : game'[u] # NoGame /\ game'[u] = game'[v] => u = v
      BY <2>1, <2>3 DEF GamesInv, HeldInv
    <2>7. ASSUME NEW u \in Threads
          PROVE  /\ game'[u] # NoGame <=> thread'[u] \in Holding
                 /\ game'[u] # NoGame => (game'[u] \in finished' <=> thread'[u] \in HoldingFinished)
      BY <1>2, <1>3, <2>1 DEF GamesInv, HeldInv, Holding, HoldingFinished
    <2> QED
      BY <2>4, <2>5, <2>6, <2>7 DEF HeldInv, Holding, HoldingFinished
  <1>7. /\ \A g : (InQueues(g)' <=> InQueues(g)) /\ (InLoops(g)' <=> InLoops(g))
        /\ \A g : InFiles(g)' <=> InFiles(g)
    BY <1>2, Stays
  <1>8. finished' = finished
    BY <1>2
  <1>9. InOnePlace(x)'
    <2>1. InOnePlace(x)
      BY <1>3 DEF GamesInv, ApartInv
    <2>2. Held(x)'
      BY <1>3, <1>5
    <2>3. ~InQueues(x) /\ ~InLoops(x) /\ ~InFiles(x)
      BY <1>3, <2>1 DEF InOnePlace
    <2>4. ~InQueues(x)' /\ ~InLoops(x)' /\ ~InFiles(x)'
      BY <1>7, <2>3
    <2> QED
      BY <1>3, <1>8, <2>2, <2>4 DEF InOnePlace
  <1>10. ApartInv'
    <2>1. ApartInv /\ ~InQueues(NoGame)' /\ ~InFiles(NoGame)'
      BY <1>7 DEF GamesInv, ApartInv
    <2>2. \A g \in Nat \ {NoGame} : g # x =>
            /\ g \in finished' <=> g \in finished
            /\ Held(g)' <=> Held(g)
            /\ InQueues(g)' <=> InQueues(g)
            /\ InLoops(g)' <=> InLoops(g)
            /\ InFiles(g)' <=> InFiles(g)
      BY <1>5, <1>7, <1>8
    <2> QED
      BY <1>3, <1>9, <2>1, <2>2, OneMoves
  <1>11. QueuesInv' /\ WritingInv'
    BY <1>2 DEF GamesInv, QueuesInv, WritingInv
  <1> QED
    BY <1>6, <1>10, <1>11 DEF GamesInv

(* A thread gives its game up, or away. *)
LEMMA HeldGiven ==
  ASSUME TypeOK, HeldInv, UNCHANGED <<numGamesStarted, finished>>, NEW t \in Threads,
         game' = [game EXCEPT ![t] = NoGame],
         NEW pc, thread' = [thread EXCEPT ![t] = pc], pc \notin Holding
  PROVE  HeldInv'
  <1>1. /\ thread'[t] = pc /\ game'[t] = NoGame
        /\ \A u \in Threads \ {t} : thread'[u] = thread[u] /\ game'[u] = game[u]
    BY DEF TypeOK
  <1>2. NoGame <= numGamesStarted
    BY DEF TypeOK, NoGame
  <1> QED
    BY <1>1, <1>2 DEF HeldInv, Holding

LEMMA GamesDropped ==
  ASSUME TypeOK, GamesInv, NEW t \in Threads, StopGame(t) \/ DiscardGame(t)
  PROVE  GamesInv'
  <1>1. PICK x \in Nat : x = game[t]
    BY DEF TypeOK
  <1>2. /\ thread[t] = "playing" /\ game' = [game EXCEPT ![t] = NoGame]
        /\ UNCHANGED <<finishedGameQueue, writing, written, finished, writeLoop, numGamesStarted>>
    BY DEF StopGame, DiscardGame, loops, history
  <1>3. PICK pc \in {"releasing", "leaving"} : thread' = [thread EXCEPT ![t] = pc]
    BY DEF StopGame, DiscardGame, Goes
  <1>4. HeldInv'
    BY <1>2, <1>3, HeldGiven DEF GamesInv, Holding
  <1>5. x \in Nat \ {NoGame} /\ x \notin finished
    BY <1>1, <1>2 DEF GamesInv, HeldInv
  <1>6. \A g \in Nat \ {NoGame} : Held(g)' <=> Held(g) /\ g # x
    BY <1>1, <1>2, GivesUp DEF GamesInv
  <1>7. /\ \A g : (InQueues(g)' <=> InQueues(g)) /\ (InLoops(g)' <=> InLoops(g))
        /\ \A g : InFiles(g)' <=> InFiles(g)
    BY <1>2, Stays
  <1>8. finished' = finished
    BY <1>2
  <1>9. InOnePlace(x)'
    <2>1. InOnePlace(x)
      BY <1>5 DEF GamesInv, ApartInv
    <2> QED
      BY <1>5, <1>6, <1>7, <1>8, <2>1 DEF InOnePlace
  <1>10. ApartInv'
    <2>1. ApartInv /\ ~InQueues(NoGame)' /\ ~InFiles(NoGame)'
      BY <1>7 DEF GamesInv, ApartInv
    <2> QED
      BY <1>5, <1>6, <1>7, <1>8, <1>9, <2>1, OneMoves
  <1>11. QueuesInv' /\ WritingInv'
    BY <1>2 DEF GamesInv, QueuesInv, WritingInv
  <1> QED
    BY <1>4, <1>10, <1>11 DEF GamesInv

LEMMA GamesFinished ==
  ASSUME TypeOK, GamesInv, NEW t \in Threads, FinishGame(t)
  PROVE  GamesInv'
  <1>1. PICK x \in Nat : x = game[t]
    BY DEF TypeOK
  <1>2. /\ thread[t] = "playing" /\ finished' = finished \cup {x}
        /\ UNCHANGED <<game, finishedGameQueue, writing, written, writeLoop, numGamesStarted>>
    BY <1>1 DEF FinishGame, loops
  <1>3. PICK pc \in {"enqueuing", "writing"} : thread' = [thread EXCEPT ![t] = pc]
    BY DEF FinishGame, Goes
  <1>4. x \in Nat \ {NoGame} /\ x \notin finished /\ x <= numGamesStarted
    BY <1>1, <1>2 DEF GamesInv, HeldInv
  <1>5. HeldInv'
    <2>1. thread'[t] = pc /\ \A u \in Threads \ {t} : thread'[u] = thread[u]
      BY <1>3 DEF TypeOK
    <2>2. finished' \subseteq 1 .. numGamesStarted'
      BY <1>2, <1>4 DEF GamesInv, HeldInv, TypeOK, NoGame
    <2>3. \A u \in Threads \ {t} : game[u] # NoGame => game[u] # x
      BY <1>1 DEF GamesInv, HeldInv
    <2>4. ASSUME NEW u \in Threads
          PROVE  /\ game'[u] # NoGame <=> thread'[u] \in Holding
                 /\ game'[u] # NoGame => (game'[u] \in finished' <=> thread'[u] \in HoldingFinished)
      <3>1. CASE u = t
        BY <1>1, <1>2, <1>3, <1>4, <2>1, <3>1 DEF Holding, HoldingFinished
      <3>2. CASE u # t
        BY <1>2, <2>1, <2>3, <3>2 DEF GamesInv, HeldInv, Holding, HoldingFinished
      <3> QED
        BY <3>1, <3>2
    <2>5. /\ \A u \in Threads : game'[u] <= numGamesStarted'
          /\ \A u, v \in Threads : game'[u] # NoGame /\ game'[u] = game'[v] => u = v
      BY <1>2 DEF GamesInv, HeldInv
    <2> QED
      BY <2>2, <2>4, <2>5 DEF HeldInv, Holding, HoldingFinished
  <1>6. /\ \A g : (InQueues(g)' <=> InQueues(g)) /\ (InLoops(g)' <=> InLoops(g))
        /\ \A g : (InFiles(g)' <=> InFiles(g)) /\ (Held(g)' <=> Held(g))
    BY <1>2, Stays
  <1>7. InOnePlace(x)'
    <2>1. InOnePlace(x)
      BY <1>4 DEF GamesInv, ApartInv
    <2>2. Held(x)
      BY <1>1 DEF Held
    <2>3. x \in finished'
      BY <1>2
    <2> QED
      BY <1>6, <2>1, <2>2, <2>3 DEF InOnePlace
  <1>8. ApartInv'
    <2>1. ApartInv /\ ~InQueues(NoGame)' /\ ~InFiles(NoGame)'
      BY <1>6 DEF GamesInv, ApartInv
    <2>2. \A g : g # x => (g \in finished' <=> g \in finished)
      BY <1>2
    <2> QED
      BY <1>4, <1>6, <1>7, <2>1, <2>2, OneMoves
  <1>9. QueuesInv' /\ WritingInv'
    BY <1>2 DEF GamesInv, QueuesInv, WritingInv
  <1> QED
    BY <1>5, <1>8, <1>9 DEF GamesInv

(* A finished game is pushed to the queue of the model that the thread has *)
(* acquired: nobody told its loop to quit, so it is there and is writable. *)
LEMMA GamesPushed ==
  ASSUME TypeOK, ControlInv, ModelsInv, GamesInv, NEW t \in Threads, PushGame(t)
  PROVE  GamesInv'
  <1>1. PICK x \in Nat : x = game[t]
    BY DEF TypeOK
  <1>2. PICK m \in Models : m = nnEval[t] /\ m \in modelDatas
    <2>1. nnEval[t] \in modelDatas
      BY DEF PushGame, ModelsInv, HoldersInv, LoadedInv
    <2>2. nnEval[t] \in Models
      BY <2>1, BoundsAssumption DEF TypeOK, Models
    <2> QED
      BY <2>1, <2>2
  <1>3. m \notin readOnly
    BY <1>2 DEF ControlInv, LoopsInv
  <1>4. writeLoop[m] \in {"popping", "writing"}
    <2>1. ~distributed
      BY DEF PushGame, ControlInv, ThreadsInv
    <2>2. m <= numLoaded
      BY <1>2 DEF TypeOK
    <2> QED
      BY <1>3, <2>1, <2>2 DEF ControlInv, LoopsInv, TypeOK
  <1>5. /\ thread[t] = "pushing" /\ thread' = [thread EXCEPT ![t] = "releasing"]
        /\ game' = [game EXCEPT ![t] = NoGame]
        /\ finishedGameQueue' = [finishedGameQueue EXCEPT ![m] = Append(finishedGameQueue[m], x)]
        /\ UNCHANGED <<writing, written, finished, writeLoop, numGamesStarted>>
    BY <1>1, <1>2, <1>3 DEF PushGame, Goes, loops, history
  <1>6. HeldInv'
    BY <1>5, HeldGiven DEF GamesInv, Holding
  <1>7. x \in Nat \ {NoGame} /\ x \in finished /\ Held(x) /\ InOnePlace(x)
    BY <1>1, <1>5 DEF GamesInv, HeldInv, Held, ApartInv
  <1>8. ~InQueues(x) /\ ~InLoops(x) /\ ~InFiles(x)
    BY <1>7 DEF InOnePlace
  <1>9. QueuesInv' /\ \A g : InQueues(g)' <=> InQueues(g) \/ g = x
    <2>1. QueuesInv /\ writeLoop' = writeLoop
      BY <1>5 DEF GamesInv
    <2>2. finishedGameQueue' = [finishedGameQueue EXCEPT ![m] = Append(finishedGameQueue[m], x)]
      BY <1>5
    <2> QED
      BY <1>4, <1>8, <2>1, <2>2, Enqueued
  <1>10. \A g \in Nat \ {NoGame} : Held(g)' <=> Held(g) /\ g # x
    BY <1>1, <1>5, GivesUp DEF GamesInv
  <1>11. \A g : (InFiles(g)' <=> InFiles(g)) /\ (InLoops(g)' <=> InLoops(g))
    BY <1>5, Stays
  <1>12. finished' = finished
    BY <1>5
  <1>13. InOnePlace(x)'
    BY <1>7, <1>8, <1>9, <1>10, <1>11, <1>12 DEF InOnePlace
  <1>14. ApartInv'
    <2>1. ApartInv /\ ~InQueues(NoGame)' /\ ~InFiles(NoGame)'
      BY <1>7, <1>9, <1>11 DEF GamesInv, ApartInv
    <2> QED
      BY <1>7, <1>9, <1>10, <1>11, <1>12, <1>13, <2>1, OneMoves
  <1>15. WritingInv'
    BY <1>5 DEF GamesInv, WritingInv
  <1> QED
    BY <1>6, <1>9, <1>14, <1>15 DEF GamesInv

LEMMA GamesWritten ==
  ASSUME TypeOK, ControlInv, ModelsInv, GamesInv, NEW t \in Threads, withDataWriters(t)
  PROVE  GamesInv'
  <1>1. PICK x \in Nat : x = game[t]
    BY DEF TypeOK
  <1>2. PICK m \in Models : m = nnEval[t]
    BY BoundsAssumption DEF withDataWriters, Loaded, TypeOK, Models
  <1>3. /\ thread[t] = "writing" /\ thread' = [thread EXCEPT ![t] = "releasing"]
        /\ game' = [game EXCEPT ![t] = NoGame] /\ written' = Append(written, <<x, m>>)
        /\ UNCHANGED <<finishedGameQueue, writing, finished, writeLoop, numGamesStarted>>
    BY <1>1, <1>2 DEF withDataWriters, Goes, loops
  <1>4. HeldInv'
    BY <1>3, HeldGiven DEF GamesInv, Holding
  <1>5. x \in Nat \ {NoGame} /\ x \in finished /\ Held(x) /\ InOnePlace(x)
    BY <1>1, <1>3 DEF GamesInv, HeldInv, Held, ApartInv
  <1>6. ~InQueues(x) /\ ~InLoops(x) /\ ~InFiles(x)
    BY <1>5 DEF InOnePlace
  <1>7. /\ \A g : InFiles(g)' <=> InFiles(g) \/ g = x
        /\ \A i, j \in DOMAIN written' : written'[i][1] = written'[j][1] => i = j
    <2>1. \A i, j \in DOMAIN written : written[i][1] = written[j][1] => i = j
      BY DEF GamesInv, WritingInv
    <2> QED
      BY <1>3, <1>6, <2>1, Written
  <1>8. \A g \in Nat \ {NoGame} : Held(g)' <=> Held(g) /\ g # x
    BY <1>1, <1>3, GivesUp DEF GamesInv
  <1>9. \A g : (InQueues(g)' <=> InQueues(g)) /\ (InLoops(g)' <=> InLoops(g))
    BY <1>3, Stays
  <1>10. finished' = finished
    BY <1>3
  <1>11. InOnePlace(x)'
    BY <1>5, <1>6, <1>7, <1>8, <1>9, <1>10 DEF InOnePlace
  <1>12. ApartInv'
    <2>1. ApartInv /\ ~InQueues(NoGame)' /\ ~InFiles(NoGame)'
      BY <1>5, <1>7, <1>9 DEF GamesInv, ApartInv
    <2> QED
      BY <1>5, <1>7, <1>8, <1>9, <1>10, <1>11, <2>1, OneMoves
  <1>13. WritingInv'
    BY <1>3, <1>7 DEF GamesInv, WritingInv
  <1>14. QueuesInv'
    BY <1>3 DEF GamesInv, QueuesInv
  <1> QED
    BY <1>4, <1>12, <1>13, <1>14 DEF GamesInv

(* A loop takes the first game of its queue. *)
LEMMA GamesPopped ==
  ASSUME TypeOK, GamesInv, NEW m \in Models, PopGame(m)
  PROVE  GamesInv'
  <1>1. PICK x : x = Head(finishedGameQueue[m])
    OBVIOUS
  <1>2. /\ writeLoop[m] = "popping" /\ finishedGameQueue[m] # <<>>
        /\ writing' = [writing EXCEPT ![m] = x]
        /\ finishedGameQueue' = [finishedGameQueue EXCEPT ![m] = Tail(finishedGameQueue[m])]
        /\ writeLoop' = [writeLoop EXCEPT ![m] = "writing"]
        /\ UNCHANGED <<thread, game, numGamesStarted, finished, written>>
    BY <1>1 DEF PopGame, LoopGoes, threads, history
  <1>3. /\ QueuesInv' /\ InQueues(x) /\ x \in Nat
        /\ \A g : InQueues(g)' <=> InQueues(g) /\ g # x
    <2>1. \A n \in Models : writeLoop'[n] \in {"popping", "writing"} <=>
                              writeLoop[n] \in {"popping", "writing"}
      BY <1>2 DEF TypeOK
    <2>2. /\ QueuesInv /\ finishedGameQueue[m] # <<>>
          /\ finishedGameQueue' = [finishedGameQueue EXCEPT ![m] = Tail(finishedGameQueue[m])]
      BY <1>2 DEF GamesInv
    <2> QED
      BY <1>1, <2>1, <2>2, Dequeued
  <1>4. x \in Nat \ {NoGame} /\ InOnePlace(x)
    BY <1>3 DEF GamesInv, ApartInv
  <1>5. x \in finished /\ ~Held(x) /\ ~InLoops(x) /\ ~InFiles(x)
    BY <1>3, <1>4 DEF InOnePlace
  <1>6. writing[m] = NoGame
    BY <1>2 DEF GamesInv, WritingInv
  <1>7. \A g \in Nat \ {NoGame} : InLoops(g)' <=> InLoops(g) \/ g = x
    BY <1>2, <1>6, Takes
  <1>8. \A g : (InFiles(g)' <=> InFiles(g)) /\ (Held(g)' <=> Held(g))
    BY <1>2, Stays
  <1>9. finished' = finished
    BY <1>2
  <1>10. InOnePlace(x)'
    BY <1>3, <1>4, <1>5, <1>7, <1>8, <1>9 DEF InOnePlace
  <1>11. ApartInv'
    <2>1. ApartInv /\ ~InQueues(NoGame)' /\ ~InFiles(NoGame)'
      BY <1>3, <1>8 DEF GamesInv, ApartInv
    <2> QED
      BY <1>3, <1>4, <1>7, <1>8, <1>9, <1>10, <2>1, OneMoves
  <1>12. HeldInv'
    BY <1>2 DEF GamesInv, HeldInv
  <1>13. WritingInv'
    <2>1. /\ writing'[m] = x /\ writeLoop'[m] = "writing"
          /\ \A n \in Models \ {m} : writing'[n] = writing[n] /\ writeLoop'[n] = writeLoop[n]
      BY <1>2 DEF TypeOK
    <2>2. \A n \in Models : writing[n] # x
      BY <1>5 DEF InLoops
    <2>3. \A n, o \in Models : writing'[n] # NoGame /\ writing'[n] = writing'[o] => n = o
      BY <2>1, <2>2 DEF GamesInv, WritingInv
    <2>4. \A n \in Models : writing'[n] # NoGame <=> writeLoop'[n] = "writing"
      BY <1>4, <2>1 DEF GamesInv, WritingInv
    <2> QED
      BY <1>2, <2>3, <2>4 DEF GamesInv, WritingInv
  <1> QED
    BY <1>3, <1>11, <1>12, <1>13 DEF GamesInv

(* A loop writes its game. *)
LEMMA GamesLoopWrites ==
  ASSUME TypeOK, GamesInv, NEW m \in Models, WriteGame(m)
  PROVE  GamesInv'
  <1>1. PICK x \in Nat : x = writing[m]
    BY DEF TypeOK
  <1>2. /\ writeLoop[m] = "writing" /\ writing' = [writing EXCEPT ![m] = NoGame]
        /\ written' = Append(written, <<x, m>>)
        /\ writeLoop' = [writeLoop EXCEPT ![m] = "popping"]
        /\ UNCHANGED <<thread, game, numGamesStarted, finished, finishedGameQueue>>
    BY <1>1 DEF WriteGame, LoopGoes, threads
  <1>3. x \in Nat \ {NoGame} /\ InLoops(x) /\ InOnePlace(x)
    BY <1>1, <1>2 DEF GamesInv, WritingInv, InLoops, ApartInv
  <1>4. x \in finished /\ ~Held(x) /\ ~InQueues(x) /\ ~InFiles(x)
    BY <1>3 DEF InOnePlace
  <1>5. \A g \in Nat \ {NoGame} : InLoops(g)' <=> InLoops(g) /\ g # x
    BY <1>1, <1>2, IsDone DEF GamesInv
  <1>6. /\ \A g : InFiles(g)' <=> InFiles(g) \/ g = x
        /\ \A i, j \in DOMAIN written' : written'[i][1] = written'[j][1] => i = j
    <2>1. \A i, j \in DOMAIN written : written[i][1] = written[j][1] => i = j
      BY DEF GamesInv, WritingInv
    <2> QED
      BY <1>2, <1>4, <2>1, Written
  <1>7. \A g : (InQueues(g)' <=> InQueues(g)) /\ (Held(g)' <=> Held(g))
    BY <1>2, Stays
  <1>8. finished' = finished
    BY <1>2
  <1>9. InOnePlace(x)'
    BY <1>3, <1>4, <1>5, <1>6, <1>7, <1>8 DEF InOnePlace
  <1>10. ApartInv'
    <2>1. ApartInv /\ ~InQueues(NoGame)' /\ ~InFiles(NoGame)'
      BY <1>3, <1>6, <1>7 DEF GamesInv, ApartInv
    <2> QED
      BY <1>3, <1>5, <1>6, <1>7, <1>8, <1>9, <2>1, OneMoves
  <1>11. HeldInv'
    BY <1>2 DEF GamesInv, HeldInv
  <1>12. /\ writing'[m] = NoGame /\ writeLoop'[m] = "popping"
         /\ \A n \in Models \ {m} : writing'[n] = writing[n] /\ writeLoop'[n] = writeLoop[n]
    BY <1>2 DEF TypeOK
  <1>13. WritingInv'
    <2>1. \A n, o \in Models : writing'[n] # NoGame /\ writing'[n] = writing'[o] => n = o
      BY <1>12 DEF GamesInv, WritingInv
    <2>2. \A n \in Models : writing'[n] # NoGame <=> writeLoop'[n] = "writing"
      BY <1>12 DEF GamesInv, WritingInv
    <2> QED
      BY <1>6, <2>1, <2>2 DEF WritingInv
  <1>14. QueuesInv'
    BY <1>2, <1>12 DEF GamesInv, QueuesInv
  <1> QED
    BY <1>10, <1>11, <1>13, <1>14 DEF GamesInv

(* A loop ends when its queue is empty. *)
LEMMA GamesLoopEnds ==
  ASSUME TypeOK, ControlInv, GamesInv,
         \/ loadModelAndStartDataWriting
         \/ \E m \in Models : EndLoop(m) \/ FreeModel(m) \/ CheckIn(m)
  PROVE  GamesInv'
  <1>1. UNCHANGED <<thread, game, numGamesStarted, finished, finishedGameQueue, writing, written>>
    BY DEF loadModelAndStartDataWriting, LoaderUnchanged, EndLoop, FreeModel, CheckIn, threads, history
  <1>2. PICK m \in Models, pc \in {"popping", "closing", "checkingIn", "gone"} :
          /\ writeLoop' = [writeLoop EXCEPT ![m] = pc] /\ writeLoop[m] # "writing"
          /\ pc = "popping" \/ finishedGameQueue[m] = <<>>
    <2>1. CASE loadModelAndStartDataWriting
      <3>1. numLoaded + 1 \in Models /\ ~(numLoaded + 1 <= numLoaded)
        BY <2>1, BoundsAssumption DEF loadModelAndStartDataWriting, TypeOK, Models
      <3>2. writeLoop[numLoaded + 1] = "none"
        BY <3>1 DEF ControlInv, LoopsInv
      <3> QED
        BY <2>1, <3>1, <3>2 DEF loadModelAndStartDataWriting, LoopGoes
    <2>2. CASE \E m \in Models : EndLoop(m)
      BY <2>2 DEF EndLoop, AtEndOfQueue, LoopGoes
    <2>3. CASE \E m \in Models : FreeModel(m) \/ CheckIn(m)
      BY <2>3 DEF FreeModel, CheckIn, LoopGoes, GamesInv, QueuesInv
    <2> QED
      BY <2>1, <2>2, <2>3
  <1>3. writeLoop'[m] = pc /\ \A n \in Models \ {m} : writeLoop'[n] = writeLoop[n]
    BY <1>2 DEF TypeOK
  <1>4. HeldInv'
    BY <1>1 DEF GamesInv, HeldInv
  <1>5. \A n \in Models :
          /\ writeLoop'[n] \notin {"popping", "writing"} => finishedGameQueue[n] = <<>>
          /\ writeLoop'[n] = "writing" <=> writeLoop[n] = "writing"
    BY <1>2, <1>3 DEF GamesInv, QueuesInv
  <1> QED
    BY <1>1, <1>4, <1>5, GamesFrame

LEMMA GamesStep ==
  ASSUME TypeOK, ControlInv, ModelsInv, GamesInv, [Next]_vars
  PROVE  GamesInv'
  <1>1. ASSUME NEW t \in Threads, ThreadStep(t) \/ CheckForNewNNEval(t)
        PROVE  GamesInv'
    BY <1>1, GamesThread, GamesBegin, GamesDropped, GamesFinished, GamesPushed, GamesWritten
       DEF ThreadStep
  <1>2. CASE \/ loadModelAndStartDataWriting
             \/ \E m \in Models : LoopStep(m)
    BY <1>2, GamesPopped, GamesLoopWrites, GamesLoopEnds DEF LoopStep
  <1>3. CASE \/ LookForModel \/ LoaderStep \/ Signal \/ MainStep \/ UNCHANGED vars
             \/ \E S \in SUBSET Models : cleanupUnusedModelsOlderThan(S)
    <2>1. UNCHANGED <<thread, game, numGamesStarted, finished, finishedGameQueue, writing, written,
                      writeLoop>>
      BY <1>3 DEF LookForModel, LoaderStep, LeaveLoadLoop, cleanupUnusedModelsOlderThan,
           loadModelNoDataWritingLoop, GiveUpLoading, allocateGameTask, PushTask, freeGameTask,
           LoaderUnchanged, Signal, MainStep, CloseTaskQueue, JoinThreads, DestroyManager,
           LoopsAreDone, MainUnchanged, loops, threads, history, vars
    <2>2. HeldInv'
      BY <2>1 DEF GamesInv, HeldInv
    <2> QED
      BY <2>1, <2>2, GamesFrame DEF GamesInv, QueuesInv
  <1> QED
    BY <1>1, <1>2, <1>3 DEF Next

(* What the inductive invariant says of the places of a game. *)
LEMMA OnePlace ==
  ASSUME TypeOK, ControlInv, GamesInv, NEW g \in finished
  PROVE  Cardinality(HeldBy(g)) + Cardinality(QueuedAt(g))
           + Cardinality(LoopsOf(g)) + Cardinality(FilesOf(g)) = 1
  <1>1. g \in Nat \ {NoGame} /\ InOnePlace(g)
    BY DEF TypeOK, GamesInv, HeldInv, ApartInv, NoGame
  <1>2. /\ Held(g) => \E t : HeldBy(g) = {t}
        /\ ~Held(g) => HeldBy(g) = {}
    <2>1. \A t, u \in HeldBy(g) : t = u
      BY <1>1 DEF HeldBy, GamesInv, HeldInv
    <2> QED
      BY <2>1 DEF Held, HeldBy
  <1>3. /\ InLoops(g) => \E m : LoopsOf(g) = {m}
        /\ ~InLoops(g) => LoopsOf(g) = {}
    <2>1. \A m, n \in LoopsOf(g) : m = n
      BY <1>1 DEF LoopsOf, GamesInv, WritingInv
    <2> QED
      BY <2>1 DEF InLoops, LoopsOf
  <1>4. /\ InFiles(g) => \E i : FilesOf(g) = {i}
        /\ ~InFiles(g) => FilesOf(g) = {}
    <2>1. \A i, j \in FilesOf(g) : i = j
      BY DEF FilesOf, GamesInv, WritingInv
    <2> QED
      BY <2>1 DEF InFiles, FilesOf
  <1>5. /\ InQueues(g) => \E p : QueuedAt(g) = {p}
        /\ ~InQueues(g) => QueuedAt(g) = {}
    <2>1. \A m \in Models \cap freed : finishedGameQueue[m] = <<>>
      <3>1. \A m \in Models \cap freed : writeLoop[m] \notin {"popping", "writing"}
        BY DEF ControlInv, LoopsInv
      <3> QED
        BY <3>1 DEF GamesInv, QueuesInv
    <2>2. ASSUME InQueues(g)
          PROVE  \E p : QueuedAt(g) = {p}
      <3>1. PICK m \in Models : \E i \in DOMAIN finishedGameQueue[m] : finishedGameQueue[m][i] = g
        BY <2>2 DEF InQueues
      <3>2. PICK i \in DOMAIN finishedGameQueue[m] : finishedGameQueue[m][i] = g
        BY <3>1
      <3>3. m \notin freed
        BY <2>1, <3>2
      <3>4. \A n \in Models : \A j \in DOMAIN finishedGameQueue[n] :
              finishedGameQueue[n][j] = g => n = m /\ j = i
        BY <3>2 DEF GamesInv, QueuesInv
      <3>5. \A p \in QueuedAt(g) : p = <<m, i>>
        BY <3>4 DEF QueuedAt
      <3>6. <<m, i>> \in QueuedAt(g)
        BY <3>2, <3>3 DEF QueuedAt
      <3> QED
        BY <3>5, <3>6
    <2>3. ASSUME ~InQueues(g)
          PROVE  QueuedAt(g) = {}
      BY <2>3 DEF InQueues, QueuedAt
    <2> QED
      BY <2>2, <2>3
  <1>6. Cardinality({}) = 0 /\ \A x : Cardinality({x}) = 1
    BY FS_EmptySet, FS_Singleton
  <1>7. /\ Cardinality(HeldBy(g)) = IF Held(g) THEN 1 ELSE 0
        /\ Cardinality(QueuedAt(g)) = IF InQueues(g) THEN 1 ELSE 0
        /\ Cardinality(LoopsOf(g)) = IF InLoops(g) THEN 1 ELSE 0
        /\ Cardinality(FilesOf(g)) = IF InFiles(g) THEN 1 ELSE 0
    BY <1>2, <1>3, <1>4, <1>5, <1>6
  <1> HIDE DEF Held, InQueues, InLoops, InFiles, HeldBy, QueuedAt, LoopsOf, FilesOf
  <1> QED
    BY <1>1, <1>7 DEF InOnePlace

LEMMA GamesReach ==
  ASSUME TypeOK, ControlInv, GamesInv, EndedInv
  PROVE  GamesReachFiles
  <1>1. ASSUME NEW m \in Models, writeLoop[m] = "writing"
        PROVE  m \notin freed
    BY <1>1 DEF ControlInv, LoopsInv
  <1>2. ASSUME main = "ended"
        PROVE  finished = {written[i][1] : i \in DOMAIN written}
    <2>1. \A g \in Nat \ {NoGame} : ~Held(g)
      BY <1>2 DEF ControlInv, ThreadsInv, Joined, GamesInv, HeldInv, Held
    <2>2. \A m \in Models : writeLoop[m] \notin {"popping", "writing"}
      BY <1>2 DEF EndedInv, Active
    <2>3. \A g \in Nat \ {NoGame} : ~InQueues(g) /\ ~InLoops(g)
      BY <2>2 DEF GamesInv, QueuesInv, WritingInv, InQueues, InLoops
    <2>4. ASSUME NEW g \in finished
          PROVE  \E i \in DOMAIN written : written[i][1] = g
      <3>1. g \in Nat \ {NoGame} /\ InOnePlace(g)
        BY DEF TypeOK, GamesInv, HeldInv, ApartInv, NoGame
      <3>2. InFiles(g)
        BY <2>1, <2>3, <3>1 DEF InOnePlace
      <3> QED
        BY <3>2 DEF InFiles
    <2>5. ASSUME NEW i \in DOMAIN written
          PROVE  written[i][1] \in finished
      <3>1. written[i] \in Nat \X Models
        BY ElementOfSeq DEF TypeOK
      <3>2. PICK g \in Nat : g = written[i][1]
        BY <3>1
      <3>3. InFiles(g) /\ g # NoGame
        BY <3>2 DEF InFiles, GamesInv, ApartInv
      <3> QED
        BY <3>2, <3>3 DEF GamesInv, ApartInv, InOnePlace
    <2> QED
      BY <2>4, <2>5
  <1>3. \A g \in finished :
          Cardinality(HeldBy(g)) + Cardinality(QueuedAt(g))
            + Cardinality(LoopsOf(g)) + Cardinality(FilesOf(g)) = 1
    BY OnePlace
  <1> QED
    BY <1>1, <1>2, <1>3 DEF GamesReachFiles

(* What it says of the models: they outlive everybody who uses them. *)
LEMMA ModelsOutlive ==
  ASSUME TypeOK, ControlInv, ModelsInv, LoopsCounted
  PROVE  ModelsOutliveUse
  <1>1. ASSUME NEW m \in Models, m \notin modelDatas
        PROVE  acquireCount[m] = 0
    <2>1. UsersIn(nnEval, m) = {} /\ UsersIn(newNNEval, m) = {} /\ TasksIn(gameTaskQueue, m) = {}
      BY <1>1 DEF ModelsInv, LoadedInv, UsersIn, TasksIn, Models, NoModel
    <2>2. OfLoader(m) = 0
      BY <1>1 DEF ModelsInv, LoadedInv, OfLoader, Models, NoModel
    <2>3. Cardinality({}) = 0
      BY FS_EmptySet
    <2> QED
      BY <2>1, <2>2, <2>3 DEF ModelsInv, CountsInv, Uses
  <1>2. ASSUME NEW t \in Threads, nnEval[t] # NoModel
        PROVE  Loaded(nnEval[t]) /\ nnEval[t] \notin freed
    <2>1. nnEval[t] \in modelDatas
      BY <1>2 DEF ModelsInv, LoadedInv
    <2> QED
      BY <2>1 DEF Loaded, ControlInv, LoopsInv
  <1>3. ASSUME NEW m \in Models
        PROVE  acquireCount[m] = Cardinality({t \in Threads : nnEval[t] = m})
                                   + Cardinality({t \in Threads : newNNEval[t] = m})
                                   + Cardinality({i \in DOMAIN gameTaskQueue : gameTaskQueue[i] = m})
                                   + (IF loader = "pushing" /\ task = m THEN 1 ELSE 0)
    BY DEF ModelsInv, CountsInv, Uses, UsersIn, TasksIn, OfLoader
  <1>4. ASSUME NEW m \in Models, writeLoop[m] = "closing"
        PROVE  acquireCount[m] = 0 /\ ~Loaded(m)
    <2>1. m \notin modelDatas
      BY <1>4 DEF ControlInv, LoopsInv
    <2> QED
      BY <1>1, <2>1 DEF Loaded
  <1>5. task # NoModel => Loaded(task)
    BY DEF ModelsInv, LoadedInv, Loaded
  <1>6. numDataWriteLoopsActive = Cardinality({m \in Models : writeLoop[m] \notin {"none", "gone"}})
    BY DEF LoopsCounted, Active
  <1>7. ASSUME ~distributed, numDataWriteLoopsActive = 0
        PROVE  modelDatas = {}
    <2>1. Active = {}
      BY <1>7, ActiveIsFinite, FS_EmptySet DEF LoopsCounted
    <2>2. ASSUME NEW m \in modelDatas
          PROVE  FALSE
      <3>1. m \in Models /\ m <= numLoaded
        BY BoundsAssumption DEF TypeOK, Models
      <3>2. writeLoop[m] = "gone"
        BY <1>7, <2>1, <3>1 DEF ControlInv, LoopsInv, Active
      <3> QED
        BY <3>1, <3>2 DEF ControlInv, LoopsInv
    <2> QED
      BY <2>2
  <1>8. ASSUME main \in {"waiting", "ended"}, NEW m \in Models
        PROVE  acquireCount[m] = 0
    <2>1. modelDatas = {}
      BY <1>8 DEF ControlInv, LoaderInv, Destroyed
    <2> QED
      BY <1>1, <2>1
  <1> QED
    BY <1>2, <1>3, <1>4, <1>5, <1>6, <1>7, <1>8 DEF ModelsOutliveUse

(* No finished game is lost or written twice, and no model is freed while  *)
(* somebody uses it: with any number of threads, models and games, and     *)
(* wherever a stop, a new model or a cleanup comes in.                     *)
THEOREM NothingLost == Spec => []NothingIsLost
  <1> DEFINE Inv == TypeOK /\ ControlInv /\ ModelsInv /\ LoopsCounted /\ EndedInv /\ GamesInv
  <1>1. Init => Inv
    <2>1. Init => EndedInv
      BY DEF Init, EndedInv
    <2> QED
      BY <2>1, ControlInit, ModelsInit, LoopsInit, GamesInit
  <1>2. Inv /\ [Next]_vars => Inv'
    BY ControlStep, ModelsStep, LoopsStep, EndedStep, GamesStep
  <1>3. Inv => NothingIsLost
    BY GamesReach, ModelsOutlive DEF NothingIsLost
  <1> QED
    BY <1>1, <1>2, <1>3, PTL DEF Spec

=============================================================================
