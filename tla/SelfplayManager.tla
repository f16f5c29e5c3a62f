-------------------------- MODULE SelfplayManager --------------------------
(***************************************************************************)
(* program/selfplaymanager.cpp with its users.  The manager keeps the      *)
(* loaded models, counts who uses each, and frees those that nobody uses.  *)
(*  - command/selfplay.cpp: game threads take the latest model, may change *)
(*    to a newer one during a game, and push finished games to a queue of  *)
(*    the model, which a data write loop writes out.  The loop ends, and   *)
(*    frees the model, when the manager has dropped it.                    *)
(*  - command/contribute.cpp (distributed): the task loop loads and drops  *)
(*    models, and acquires one for each game that it queues; a game thread *)
(*    takes the task, writes the game itself, and releases the model.      *)
(*                                                                         *)
(* A critical section of managerMutex is one step.  A data queue is the    *)
(* FifoQueue that ThreadSafeQueue implements.                              *)
(***************************************************************************)
EXTENDS Integers, Sequences, FiniteSets

CONSTANTS Threads,           \* game threads
          MaxModels,         \* bound on the models that are loaded
          MaxGames,          \* bound on the games that are started
          maxDataQueueSize

ASSUME ThreadsAssumption == IsFiniteSet(Threads) /\ Threads # {}
ASSUME BoundsAssumption == MaxModels \in Nat \ {0} /\ MaxGames \in Nat
ASSUME QueueAssumption == maxDataQueueSize \in Nat \ {0}

Models == 1 .. MaxModels
NoModel == 0
NoGame == 0

VARIABLES distributed,             \* which of the two programs this is
          modelDatas,              \* models that are loaded
          numLoaded,               \* models loaded so far; they are numbered in this order
          acquireCount,
          finishedGameQueue, readOnly,
          freed,                   \* models that were deleted
          numDataWriteLoopsActive,
          writeLoop, writing,      \* where the loop of each model is, and its game
          thread,                  \* where each game thread is
          nnEval, newNNEval,       \* the models it has acquired
          game,                    \* its game
          numGamesStarted,
          loader, task,            \* where the model load or task loop is, its model
          gameTaskQueue,           \* the models of the tasks that are queued
          main,                    \* where main is
          shouldStop,
          finished, written        \* history: the games to write, and <<game, model>> written
manager == <<modelDatas, numLoaded, acquireCount, readOnly, freed>>
loops == <<numDataWriteLoopsActive, writeLoop, writing>>
threads == <<thread, nnEval, newNNEval, game, numGamesStarted>>
controls == <<distributed, loader, task, gameTaskQueue, main, shouldStop>>
history == <<finished, written>>
vars == <<distributed, modelDatas, numLoaded, acquireCount, finishedGameQueue, readOnly, freed,
          numDataWriteLoopsActive, writeLoop, writing, thread, nnEval, newNNEval, game,
          numGamesStarted, loader, task, gameTaskQueue, main, shouldStop, finished,
          written>>

(* Self-play loads a model before it starts its threads. *)
Init ==
  /\ distributed \in BOOLEAN
  /\ modelDatas = IF distributed THEN {} ELSE {1}
  /\ numLoaded = IF distributed THEN 0 ELSE 1
  /\ acquireCount = [m \in Models |-> 0]
  /\ finishedGameQueue = [m \in Models |-> <<>>] /\ readOnly = {} /\ freed = {}
  /\ numDataWriteLoopsActive = numLoaded
  /\ writeLoop = [m \in Models |-> IF m <= numLoaded THEN "popping" ELSE "none"]
  /\ writing = [m \in Models |-> NoGame]
  /\ thread = [t \in Threads |-> "free"]
  /\ nnEval = [t \in Threads |-> NoModel] /\ newNNEval = [t \in Threads |-> NoModel]
  /\ game = [t \in Threads |-> NoGame] /\ numGamesStarted = 0
  /\ loader = "polling" /\ task = NoModel /\ gameTaskQueue = <<>>
  /\ main = "joining" /\ shouldStop = FALSE
  /\ finished = {} /\ written = <<>>

-----------------------------------------------------------------------------
(* The manager *)

Loaded(m) == m \in modelDatas
Latest(models) == CHOOSE m \in models : \A n \in models : n <= m
HasDataWriteLoop(m) == writeLoop[m] # "none"

(* The models in S leave the manager.  A data write loop is told to quit   *)
(* at the end of its queue and then frees its model.                       *)
(* Fault: the loop is not told. *)
Drop_KeepWritable(S, loaded) ==
  /\ modelDatas' = loaded \ S
  /\ freed' = freed \cup {m \in S : ~HasDataWriteLoop(m)}
  /\ UNCHANGED readOnly
Drop(S, loaded) ==
  /\ modelDatas' = loaded \ S
  /\ readOnly' = readOnly \cup S
  /\ freed' = freed \cup {m \in S : ~HasDataWriteLoop(m)}

(* All but the latest model if unused, in self-play. *)
maybeAutoCleanupAlreadyLocked(loaded, counts) ==
  Drop({m \in loaded : ~distributed /\ m # Latest(loaded) /\ counts[m] <= 0}, loaded)

acquireLatest ==
  /\ acquireCount' = [acquireCount EXCEPT ![Latest(modelDatas)] = @ + 1]

(* Does nothing if the model is not loaded. *)
release(m) ==
  \E counts \in {IF Loaded(m) THEN [acquireCount EXCEPT ![m] = @ - 1] ELSE acquireCount} :
    /\ acquireCount' = counts
    /\ IF Loaded(m) THEN maybeAutoCleanupAlreadyLocked(modelDatas, counts)
       ELSE UNCHANGED <<modelDatas, readOnly, freed>>

-----------------------------------------------------------------------------
(* Game threads *)

Goes(t, pc) == thread' = [thread EXCEPT ![t] = pc]

AcquireForGame(t) ==
  /\ thread[t] = "free" /\ ~distributed /\ ~shouldStop
  /\ acquireLatest
  /\ nnEval' = [nnEval EXCEPT ![t] = Latest(modelDatas)]
  /\ Goes(t, "starting")
  /\ UNCHANGED <<modelDatas, numLoaded, readOnly, freed, finishedGameQueue, loops, newNNEval,
                 game, numGamesStarted, controls, history>>

(* MaxGames is maxGamesTotal here. *)
StartGame(t) ==
  /\ thread[t] = "starting"
  /\ IF numGamesStarted < MaxGames
     THEN /\ numGamesStarted' = numGamesStarted + 1
          /\ game' = [game EXCEPT ![t] = numGamesStarted + 1]
          /\ Goes(t, "playing")
     ELSE Goes(t, "leaving") /\ UNCHANGED <<numGamesStarted, game>>
  /\ UNCHANGED <<manager, finishedGameQueue, loops, nnEval, newNNEval, controls, history>>

(* checkForNewNNEval: a newer model takes the place of the one in use. *)
CheckForNewNNEval(t) ==
  /\ thread[t] = "playing" /\ ~distributed
  /\ acquireLatest
  /\ newNNEval' = [newNNEval EXCEPT ![t] = Latest(modelDatas)]
  /\ Goes(t, "comparing")
  /\ UNCHANGED <<modelDatas, numLoaded, readOnly, freed, finishedGameQueue, loops, nnEval,
                 game, numGamesStarted, controls, history>>
ReleaseOther(t) ==
  /\ thread[t] = "comparing"
  /\ release(nnEval[t])
  /\ nnEval' = [nnEval EXCEPT ![t] = newNNEval[t]]
  /\ newNNEval' = [newNNEval EXCEPT ![t] = NoModel]
  /\ Goes(t, "playing")
  /\ UNCHANGED <<numLoaded, finishedGameQueue, loops, game, numGamesStarted, controls, history>>

(* The game is thrown away at a stop, but finished if contribute stops     *)
(* gracefully; a game at the limit of moves is not written.                *)
StopGame(t) ==
  /\ thread[t] = "playing" /\ shouldStop
  /\ game' = [game EXCEPT ![t] = NoGame]
  /\ Goes(t, IF distributed THEN "releasing" ELSE "leaving")
  /\ UNCHANGED <<manager, finishedGameQueue, loops, nnEval, newNNEval, numGamesStarted,
                 controls, history>>
DiscardGame(t) ==
  /\ thread[t] = "playing"
  /\ game' = [game EXCEPT ![t] = NoGame]
  /\ Goes(t, "releasing")
  /\ UNCHANGED <<manager, finishedGameQueue, loops, nnEval, newNNEval, numGamesStarted,
                 controls, history>>
FinishGame(t) ==
  /\ thread[t] = "playing"
  /\ Goes(t, IF distributed THEN "writing" ELSE "enqueuing")
  /\ finished' = finished \cup {game[t]}
  /\ UNCHANGED <<manager, finishedGameQueue, loops, nnEval, newNNEval, game, numGamesStarted,
                 controls, written>>

(* The model is looked up under the mutex, and its queue used without it. *)
enqueueDataToWrite(t) ==
  /\ thread[t] = "enqueuing" /\ Loaded(nnEval[t])
  /\ Goes(t, "pushing")
  /\ UNCHANGED <<manager, finishedGameQueue, loops, nnEval, newNNEval, game, numGamesStarted,
                 controls, history>>
PushGame(t) ==
  /\ thread[t] = "pushing"
  /\ IF nnEval[t] \in readOnly THEN UNCHANGED finishedGameQueue
     ELSE /\ Len(finishedGameQueue[nnEval[t]]) < maxDataQueueSize
          /\ finishedGameQueue' = [finishedGameQueue EXCEPT ![nnEval[t]] = Append(@, game[t])]
  /\ game' = [game EXCEPT ![t] = NoGame]
  /\ Goes(t, "releasing")
  /\ UNCHANGED <<manager, loops, nnEval, newNNEval, numGamesStarted, controls, history>>

withDataWriters(t) ==
  /\ thread[t] = "writing" /\ Loaded(nnEval[t])
  /\ written' = Append(written, <<game[t], nnEval[t]>>)
  /\ game' = [game EXCEPT ![t] = NoGame]
  /\ Goes(t, "releasing")
  /\ UNCHANGED <<manager, finishedGameQueue, loops, nnEval, newNNEval, numGamesStarted,
                 controls, finished>>

ReleaseModel(t) ==
  /\ thread[t] \in {"releasing", "leaving"}
  /\ release(nnEval[t])
  /\ nnEval' = [nnEval EXCEPT ![t] = NoModel]
  /\ Goes(t, IF thread[t] = "leaving" THEN "gone" ELSE "free")
  /\ UNCHANGED <<numLoaded, finishedGameQueue, loops, newNNEval, game, numGamesStarted,
                 controls, history>>

(* A task that comes out of the queue after a stop is given up. *)
PopTask(t) ==
  /\ thread[t] = "free" /\ gameTaskQueue # <<>>
  /\ nnEval' = [nnEval EXCEPT ![t] = Head(gameTaskQueue)]
  /\ gameTaskQueue' = Tail(gameTaskQueue)
  /\ IF shouldStop THEN Goes(t, "releasing") /\ UNCHANGED <<game, numGamesStarted>>
     ELSE /\ numGamesStarted' = numGamesStarted + 1
          /\ game' = [game EXCEPT ![t] = numGamesStarted + 1]
          /\ Goes(t, "playing")
  /\ UNCHANGED <<manager, finishedGameQueue, loops, newNNEval, distributed, loader, task, main,
                 shouldStop, history>>

(* In contribute the queue of tasks is read only once main closed it. *)
TaskQueueIsOpen == main = "joining"
LeaveGameLoop(t) ==
  /\ thread[t] = "free"
  /\ IF distributed THEN gameTaskQueue = <<>> /\ ~TaskQueueIsOpen ELSE shouldStop
  /\ Goes(t, "gone")
  /\ UNCHANGED <<manager, finishedGameQueue, loops, nnEval, newNNEval, game, numGamesStarted,
                 controls, history>>

-----------------------------------------------------------------------------
(* runDataWriteLoopImpl *)

LoopGoes(m, pc) == writeLoop' = [writeLoop EXCEPT ![m] = pc]

PopGame(m) ==
  /\ writeLoop[m] = "popping" /\ finishedGameQueue[m] # <<>>
  /\ writing' = [writing EXCEPT ![m] = Head(finishedGameQueue[m])]
  /\ finishedGameQueue' = [finishedGameQueue EXCEPT ![m] = Tail(@)]
  /\ LoopGoes(m, "writing")
  /\ UNCHANGED <<manager, numDataWriteLoopsActive, threads, controls, history>>
WriteGame(m) ==
  /\ writeLoop[m] = "writing"
  /\ written' = Append(written, <<writing[m], m>>)
  /\ writing' = [writing EXCEPT ![m] = NoGame]
  /\ LoopGoes(m, "popping")
  /\ UNCHANGED <<manager, finishedGameQueue, numDataWriteLoopsActive, threads, controls, finished>>

(* Fault: a loop that was told to quit leaves what is queued. *)
AtEndOfQueue_ReadOnly(m) == m \in readOnly
AtEndOfQueue(m) == m \in readOnly /\ finishedGameQueue[m] = <<>>
EndLoop(m) ==
  /\ writeLoop[m] = "popping" /\ AtEndOfQueue(m)
  /\ LoopGoes(m, "closing")
  /\ UNCHANGED <<manager, finishedGameQueue, numDataWriteLoopsActive, writing, threads, controls,
                 history>>
FreeModel(m) ==
  /\ writeLoop[m] = "closing"
  /\ freed' = freed \cup {m}
  /\ LoopGoes(m, "checkingIn")
  /\ UNCHANGED <<modelDatas, numLoaded, acquireCount, readOnly, finishedGameQueue,
                 numDataWriteLoopsActive, writing, threads, controls, history>>
CheckIn(m) ==
  /\ writeLoop[m] = "checkingIn"
  /\ numDataWriteLoopsActive' = numDataWriteLoopsActive - 1
  /\ LoopGoes(m, "gone")
  /\ UNCHANGED <<manager, finishedGameQueue, writing, threads, controls, history>>

-----------------------------------------------------------------------------
(* The model load loop of selfplay *)

LoaderUnchanged ==
  UNCHANGED <<finishedGameQueue, writing, threads, distributed, main, shouldStop, history>>
NoTaskMoves == UNCHANGED gameTaskQueue

(* A new model is looked for and loaded, though a stop may come meanwhile. *)
LookForModel ==
  /\ loader = "polling" /\ ~distributed /\ ~shouldStop
  /\ loader' = "loading" /\ NoTaskMoves
  /\ UNCHANGED <<manager, numDataWriteLoopsActive, writeLoop, task>>
  /\ LoaderUnchanged
loadModelAndStartDataWriting ==
  /\ loader = "loading" /\ ~distributed
  /\ numLoaded < MaxModels
  /\ numLoaded' = numLoaded + 1
  /\ LoopGoes(numLoaded + 1, "popping")
  /\ numDataWriteLoopsActive' = numDataWriteLoopsActive + 1
  /\ maybeAutoCleanupAlreadyLocked(modelDatas \cup {numLoaded + 1}, acquireCount)
  /\ loader' = "polling" /\ NoTaskMoves
  /\ UNCHANGED <<acquireCount, task>>
  /\ LoaderUnchanged

LeaveLoadLoop ==
  /\ loader = "polling" /\ shouldStop
  /\ loader' = "gone" /\ UNCHANGED <<task, gameTaskQueue>>
  /\ UNCHANGED <<manager, numDataWriteLoopsActive, writeLoop>>
  /\ LoaderUnchanged

(* The task loop of contribute gets a task.  The unused models released    *)
(* long enough ago are any of the unused ones.                             *)
MoreTasks == numGamesStarted + Len(gameTaskQueue') < MaxGames
cleanupUnusedModelsOlderThan(S) ==
  /\ loader = "polling" /\ distributed /\ ~shouldStop
  /\ NoTaskMoves /\ MoreTasks
  /\ S \subseteq {m \in modelDatas : acquireCount[m] <= 0}
  /\ Drop(S, modelDatas)
  /\ loader' = "loading"
  /\ UNCHANGED <<numLoaded, acquireCount, numDataWriteLoopsActive, writeLoop, task>>
  /\ LoaderUnchanged

(* The task names model m, which is loaded unless it is already; the task  *)
(* is given up after a stop, or when its files are wrong.                  *)
loadModelNoDataWritingLoop(m) ==
  /\ loader = "loading" /\ distributed
  /\ IF Loaded(m) THEN UNCHANGED <<modelDatas, numLoaded>>
     ELSE /\ m = numLoaded + 1
          /\ numLoaded' = m
          /\ modelDatas' = modelDatas \cup {m}
  /\ \/ loader' = "acquiring" /\ task' = m
     \/ shouldStop /\ loader' = "polling" /\ UNCHANGED task
  /\ NoTaskMoves
  /\ UNCHANGED <<acquireCount, readOnly, freed, numDataWriteLoopsActive, writeLoop>>
  /\ LoaderUnchanged
GiveUpLoading ==
  /\ loader = "loading"
  /\ loader' = "polling"
  /\ NoTaskMoves
  /\ UNCHANGED <<manager, numDataWriteLoopsActive, writeLoop, task>>
  /\ LoaderUnchanged

allocateGameTask ==
  /\ loader = "acquiring"
  /\ acquireCount' = [acquireCount EXCEPT ![task] = @ + 1]
  /\ loader' = "pushing"
  /\ NoTaskMoves
  /\ UNCHANGED <<modelDatas, numLoaded, readOnly, freed, numDataWriteLoopsActive, writeLoop, task>>
  /\ LoaderUnchanged

(* The task is queued, and perhaps repeated, or its model is released when *)
(* the queue is closed.                                                    *)
PushTask ==
  /\ loader = "pushing" /\ TaskQueueIsOpen /\ gameTaskQueue = <<>>
  /\ gameTaskQueue' = <<task>>
  /\ \/ loader' = "acquiring" /\ MoreTasks /\ UNCHANGED task
     \/ loader' = "polling" /\ task' = NoModel
  /\ UNCHANGED <<manager, numDataWriteLoopsActive, writeLoop>>
  /\ LoaderUnchanged
freeGameTask ==
  /\ loader = "pushing" /\ ~TaskQueueIsOpen
  /\ release(task)
  /\ loader' = "polling" /\ task' = NoModel
  /\ NoTaskMoves
  /\ UNCHANGED <<numLoaded, numDataWriteLoopsActive, writeLoop>>
  /\ LoaderUnchanged

-----------------------------------------------------------------------------
(* A signal, and main, which joins the others and deletes the manager. *)

Signal ==
  /\ ~shouldStop
  /\ shouldStop' = TRUE
  /\ UNCHANGED <<manager, finishedGameQueue, loops, threads, distributed, loader, task,
                 gameTaskQueue, main, history>>

MainUnchanged ==
  UNCHANGED <<numLoaded, acquireCount, finishedGameQueue, loops, threads, distributed, loader, task,
              gameTaskQueue, history>>
CloseTaskQueue ==
  /\ main = "joining" /\ distributed /\ shouldStop
  /\ main' = "closed"
  /\ UNCHANGED <<modelDatas, readOnly, freed, shouldStop>>
  /\ MainUnchanged
JoinThreads ==
  /\ IF distributed THEN main = "closed" /\ loader = "gone" ELSE main = "joining"
  /\ \A t \in Threads : thread[t] = "gone"
  /\ shouldStop' = TRUE
  /\ main' = "joiningLoader"
  /\ UNCHANGED <<modelDatas, readOnly, freed>>
  /\ MainUnchanged
DestroyManager ==
  /\ main = "joiningLoader" /\ loader = "gone"
  /\ Drop(modelDatas, modelDatas)
  /\ main' = "waiting"
  /\ UNCHANGED shouldStop
  /\ MainUnchanged
LoopsAreDone ==
  /\ main = "waiting" /\ numDataWriteLoopsActive <= 0
  /\ main' = "ended"
  /\ UNCHANGED <<modelDatas, readOnly, freed, shouldStop>>
  /\ MainUnchanged

-----------------------------------------------------------------------------

(* A game ends, sooner or later, in one of three ways. *)
ThreadStep(t) ==
  \/ AcquireForGame(t) \/ StartGame(t) \/ ReleaseOther(t)
  \/ StopGame(t) \/ DiscardGame(t) \/ FinishGame(t)
  \/ enqueueDataToWrite(t) \/ PushGame(t) \/ withDataWriters(t)
  \/ ReleaseModel(t) \/ PopTask(t) \/ LeaveGameLoop(t)
LoopStep(m) == PopGame(m) \/ WriteGame(m) \/ EndLoop(m) \/ FreeModel(m) \/ CheckIn(m)
LoaderStep ==
  \/ LeaveLoadLoop
  \/ \E m \in Models : loadModelNoDataWritingLoop(m)
  \/ GiveUpLoading \/ allocateGameTask \/ PushTask \/ freeGameTask
MainStep == CloseTaskQueue \/ JoinThreads \/ DestroyManager \/ LoopsAreDone

Next ==
  \/ \E t \in Threads : ThreadStep(t) \/ CheckForNewNNEval(t)
  \/ \E m \in Models : LoopStep(m)
  \/ LookForModel \/ loadModelAndStartDataWriting
  \/ \E S \in SUBSET Models : cleanupUnusedModelsOlderThan(S)
  \/ LoaderStep
  \/ Signal
  \/ MainStep

Spec == Init /\ [][Next]_vars

(* Every thread goes on; nothing makes a signal come or a model appear. *)
FairSpec ==
  /\ Spec
  /\ \A t \in Threads : SF_vars(ThreadStep(t) /\ thread[t] = "playing") /\ WF_vars(ThreadStep(t))
  /\ \A m \in Models : WF_vars(LoopStep(m))
  /\ WF_vars(LoaderStep) /\ WF_vars(MainStep)

-----------------------------------------------------------------------------
(* Properties *)

(* Types, for the proofs. *)
TypeOK ==
  /\ distributed \in BOOLEAN /\ shouldStop \in BOOLEAN
  /\ numLoaded \in 0 .. MaxModels /\ modelDatas \subseteq 1 .. numLoaded
  /\ readOnly \subseteq 1 .. numLoaded /\ freed \subseteq 1 .. numLoaded
  /\ acquireCount \in [Models -> Int] /\ numDataWriteLoopsActive \in Int
  /\ finishedGameQueue \in [Models -> Seq(Nat)] /\ writing \in [Models -> Nat]
  /\ writeLoop \in [Models -> {"none", "popping", "writing", "closing", "checkingIn", "gone"}]
  /\ thread \in [Threads -> {"free", "starting", "playing", "comparing", "enqueuing", "pushing",
                             "writing", "releasing", "leaving", "gone"}]
  /\ nnEval \in [Threads -> 0 .. MaxModels] /\ newNNEval \in [Threads -> 0 .. MaxModels]
  /\ game \in [Threads -> Nat] /\ numGamesStarted \in Nat
  /\ loader \in {"polling", "loading", "acquiring", "pushing", "gone"}
  /\ task \in 0 .. MaxModels /\ gameTaskQueue \in Seq(Models)
  /\ main \in {"joining", "closed", "joiningLoader", "waiting", "ended"}
  /\ finished \subseteq Nat /\ written \in Seq(Nat \X Models)

(* The places of a game: threads, queues of models that exist, loops, files. *)
HeldBy(g) == {t \in Threads : game[t] = g}
QueuedAt(g) ==
  UNION {{<<m, i>> : i \in {j \in DOMAIN finishedGameQueue[m] : finishedGameQueue[m][j] = g}} :
           m \in Models \ freed}
LoopsOf(g) == {m \in Models : writing[m] = g}
FilesOf(g) == {i \in DOMAIN written : written[i][1] = g}

(* Every finished game is written exactly once, to the files of a model    *)
(* that still exists, and is in one place until then, though the thread    *)
(* that pushes it does so without the mutex and the loop that writes it    *)
(* was told to quit; it is written when the manager has been destroyed.    *)
GamesReachFiles ==
  /\ \A g \in finished :
       Cardinality(HeldBy(g)) + Cardinality(QueuedAt(g))
         + Cardinality(LoopsOf(g)) + Cardinality(FilesOf(g)) = 1
  /\ \A m \in Models : writeLoop[m] = "writing" => m \notin freed
  /\ main = "ended" => finished = {written[i][1] : i \in DOMAIN written}

(* Nobody uses a model that was freed; what the code asserts or throws an  *)
(* error about does not happen: a model in use is found under its name or  *)
(* pointer, it is not acquired when its loop or the manager ends, it has   *)
(* left the manager when it is freed, and no model is left when the last   *)
(* loop ends.                                                              *)
ModelsOutliveUse ==
  /\ \A t \in Threads : nnEval[t] # NoModel => Loaded(nnEval[t]) /\ nnEval[t] \notin freed
  /\ \A m \in Models :
       /\ acquireCount[m] = Cardinality({t \in Threads : nnEval[t] = m})
                              + Cardinality({t \in Threads : newNNEval[t] = m})
                              + Cardinality({i \in DOMAIN gameTaskQueue : gameTaskQueue[i] = m})
                              + (IF loader = "pushing" /\ task = m THEN 1 ELSE 0)
       /\ writeLoop[m] = "closing" => acquireCount[m] = 0 /\ ~Loaded(m)
  /\ task # NoModel => Loaded(task)
  /\ numDataWriteLoopsActive = Cardinality({m \in Models : writeLoop[m] \notin {"none", "gone"}})
  /\ ~distributed /\ numDataWriteLoopsActive = 0 => modelDatas = {}
  /\ main \in {"waiting", "ended"} => \A m \in Models : acquireCount[m] = 0

(* What an acquisition is for: no game is lost, and no model freed while   *)
(* in use, whatever the loader, the loops and the cleanups do meanwhile.   *)
NothingIsLost == GamesReachFiles /\ ModelsOutliveUse

(* A stop, or the end of the games, ends the program: queues that are full *)
(* drain, models are dropped, loops end.                                   *)
ShutdownEnds == shouldStop ~> main = "ended"

=============================================================================
