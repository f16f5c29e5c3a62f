--------------------------- MODULE AsyncBotProofs ---------------------------
(***************************************************************************)
(* Proofs about AsyncBot for any number of searches: who has the search    *)
(* object and who has been told of the move, whatever stops, kills and     *)
(* calls arrive in whatever order.                                         *)
(***************************************************************************)
EXTENDS AsyncBot, TLAPS

(* The inductive invariant.  The thread that is past the top of its loop   *)
(* has a running search, and a callback thread only in between; a user who *)
(* was released from his wait finds none; the move that is queued is that  *)
(* of the last search, and was not delivered before.                       *)
Searching == {"launch", "begin", "search", "stopCallbacks", "join", "report"}
Released == {"mutate", "kill", "notifyKill", "join", "gone"}
ThreadsAgree ==
  /\ searchThread \in Searching => isRunning
  /\ callbackThread # "none" =>
       usingCallbackLoop /\ searchThread \in {"begin", "search", "stopCallbacks", "join"}
  /\ user \in Released => ~isRunning
  /\ user \in {"asleep", "woken"} => searches < MaxSearches /\ call \in SearchCalls
MovesAgree ==
  /\ queuedOnMove \in {0, searches}
  /\ \A s \in 1 .. MaxSearches : s > searches => moves[s] = 0
  /\ queuedOnMove # 0 =>
       IF isRunning THEN moves[queuedOnMove] = 0
       ELSE moves[queuedOnMove] = 1 \/ (isKilled /\ searchThread = "exited")
BotInv == TypeOK /\ ThreadsAgree /\ MovesAgree

LEMMA BotInit == Init => BotInv
  <1> SUFFICES ASSUME Init PROVE BotInv
    OBVIOUS
  <1> USE SearchesAssumption DEF Init
  <1>1. TypeOK
    <2>1. moves \in [1 .. MaxSearches -> Nat]
      OBVIOUS
    <2>2. searches \in 0 .. MaxSearches /\ queuedOnMove \in 0 .. MaxSearches
      OBVIOUS
    <2> QED
      BY <2>1, <2>2 DEF TypeOK, UserStates, SearchStates, CallbackStates
  <1>2. ThreadsAgree
    BY DEF ThreadsAgree, Searching, Released
  <1>3. MovesAgree
    BY DEF MovesAgree
  <1> QED
    BY <1>1, <1>2, <1>3 DEF BotInv

-----------------------------------------------------------------------------
(* The user thread *)

(* A search starts only when none runs and the bot was not killed.  *)
LEMMA StartKeeps ==
  ASSUME BotInv, NEW c \in SearchCalls \cup {"ponder"}, StartSearch(c), ~isRunning, ~isKilled,
         searches < MaxSearches, call' = c,
         UNCHANGED <<isKilled, searchThread, callbackVars, moves>>
  PROVE  BotInv'
  <1> USE DEF BotInv, StartSearch, callbackVars
  <1>1. searches \in Nat /\ searches' = searches + 1 /\ searches' \in 1 .. MaxSearches
    BY SearchesAssumption DEF TypeOK
  <1>2. queuedOnMove' \in {0, searches'}
    BY <1>1
  <1>3. TypeOK'
    <2>1. isPondering' \in BOOLEAN
      BY Zenon
    <2>2. analyzeCallback' \in BOOLEAN
      <3>1. analyzeCallback' = (c \in {"genMoveAnalyze", "analyze"})
        OBVIOUS
      <3>2. CASE c \in {"genMoveAnalyze", "analyze"}
        BY <3>1, <3>2
      <3>3. CASE c \notin {"genMoveAnalyze", "analyze"}
        BY <3>1, <3>3
      <3> QED
        BY <3>2, <3>3
    <2>3. queuedOnMove' \in 0 .. MaxSearches /\ searches' \in 0 .. MaxSearches
      BY <1>1, <1>2, SearchesAssumption
    <2>4. call' \in SearchCalls \cup StopCalls \cup {"none", "ponder"}
      OBVIOUS
    <2>5. user' \in UserStates
      BY DEF UserStates
    <2> HIDE DEF StartSearch
    <2>6. isRunning' = TRUE /\ shouldStopNow' = FALSE
      BY DEF StartSearch
    <2> QED
      BY <2>1, <2>2, <2>3, <2>4, <2>5, <2>6 DEF TypeOK
  <1>4. ThreadsAgree'
    BY DEF ThreadsAgree, Released
  <1>5. MovesAgree'
    BY <1>1, <1>2, SearchesAssumption DEF MovesAgree, TypeOK
  <1> QED
    BY <1>3, <1>4, <1>5

LEMMA StopThenSearchKeeps ==
  ASSUME BotInv, NEW c \in SearchCalls, StopThenSearch(c), searches < MaxSearches, call' = c,
         UNCHANGED <<isKilled, searchThread, callbackVars, moves>>
  PROVE  BotInv'
  <1>1. CASE ~isRunning /\ ~isKilled
    BY <1>1, StartKeeps DEF StopThenSearch
  <1>2. CASE isRunning \/ isKilled
    <2> USE DEF BotInv, StopThenSearch, callbackVars, request
    <2>1. TypeOK'
      BY <1>2 DEF TypeOK, UserStates, SearchCalls, StopCalls
    <2>2. ThreadsAgree'
      BY <1>2 DEF ThreadsAgree, Released
    <2>3. MovesAgree'
      BY <1>2 DEF MovesAgree
    <2> QED
      BY <2>1, <2>2, <2>3
  <1> QED
    BY <1>1, <1>2

LEMMA UserCallsKeep == ASSUME BotInv, UserCalls PROVE BotInv'
  <1>1. ASSUME NEW c \in SearchCalls, CallSearch(c) PROVE BotInv'
    BY <1>1, StopThenSearchKeeps DEF CallSearch
  <1>2. ASSUME NEW c \in StopCalls, CallStop(c) PROVE BotInv'
    BY <1>2 DEF CallStop, BotInv, TypeOK, ThreadsAgree, MovesAgree, UserStates, Released,
                request, callbackVars
  <1>3. CASE ponder
    BY <1>3, StartKeeps DEF ponder
  <1> QED
    BY <1>1, <1>2, <1>3 DEF UserCalls

LEMMA UserContinuesKeeps == ASSUME BotInv, UserContinues PROVE BotInv'
  <1>1. CASE UserWakes /\ ~isRunning
    BY <1>1, StopThenSearchKeeps DEF UserWakes, BotInv, ThreadsAgree
  <1>2. CASE UserWakes /\ isRunning
    BY <1>2 DEF UserWakes, BotInv, TypeOK, ThreadsAgree, MovesAgree, UserStates, Released,
                request, callbackVars
  <1>3. CASE NotifySearchThread \/ DestructorNotify
    <2> USE <1>3 DEF NotifySearchThread, DestructorNotify, WakeSearchThread, BotInv, request,
                     callbackVars
    <2>1. TypeOK'
      BY DEF TypeOK, UserStates, SearchStates
    <2>2. ThreadsAgree'
      BY DEF ThreadsAgree, Searching, Released
    <2>3. MovesAgree'
      BY DEF MovesAgree
    <2> QED
      BY <2>1, <2>2, <2>3
  <1>4. CASE waitForSearchToEnd \/ SetUp \/ DestructorJoin
    <2> USE <1>4 DEF waitForSearchToEnd, SetUp, DestructorJoin, Returned, BotInv, request,
                     callbackVars
    <2>1. TypeOK'
      BY DEF TypeOK, UserStates
    <2>2. ThreadsAgree'
      BY DEF ThreadsAgree, Released
    <2>3. MovesAgree'
      BY DEF MovesAgree
    <2> QED
      BY <2>1, <2>2, <2>3
  <1>5. CASE DestructorKill
    BY <1>5 DEF DestructorKill, BotInv, TypeOK, ThreadsAgree, MovesAgree, UserStates, Released,
                request, callbackVars
  <1> QED
    BY <1>1, <1>2, <1>3, <1>4, <1>5 DEF UserContinues

LEMMA OthersKeep == ASSUME BotInv, stopWithoutWait \/ setKilled PROVE BotInv'
  <1> USE DEF stopWithoutWait, setKilled, WakeSearchThread, BotInv, request, userVars, callbackVars
  <1>1. TypeOK'
    BY DEF TypeOK, SearchStates
  <1>2. ThreadsAgree'
    BY DEF ThreadsAgree, Searching
  <1>3. MovesAgree'
    BY DEF MovesAgree
  <1> QED
    BY <1>1, <1>2, <1>3

-----------------------------------------------------------------------------
(* The search thread and the callback thread *)

LEMMA Woken ==
  ASSUME TypeOK, WakeUser
  PROVE  /\ user' \in UserStates
         /\ user \in Released <=> user' \in Released
         /\ user' \in {"asleep", "woken"} => user = "asleep" \/ user = "woken"
  <1>1. CASE user = "asleep"
    BY <1>1 DEF WakeUser, UserStates, Released
  <1>2. CASE user = "asleepInWait"
    BY <1>2 DEF WakeUser, UserStates, Released
  <1>3. CASE user \notin {"asleep", "asleepInWait"}
    BY <1>3 DEF WakeUser, TypeOK
  <1> QED
    BY <1>1, <1>2, <1>3

LEMMA TakeSearchKeeps == ASSUME BotInv, TakeSearch PROVE BotInv'
  <1> USE Woken DEF BotInv, TakeSearch
  <1>1. TypeOK'
    BY DEF TypeOK, SearchStates
  <1>2. ThreadsAgree'
    BY DEF TypeOK, ThreadsAgree, Searching
  <1>3. MovesAgree'
    BY DEF TypeOK, ThreadsAgree, MovesAgree
  <1> QED
    BY <1>1, <1>2, <1>3

LEMMA ReportKeeps == ASSUME BotInv, Report PROVE BotInv'
  <1> USE Woken DEF BotInv, Report
  <1>1. isRunning /\ callbackThread = "none"
    BY DEF ThreadsAgree, Searching
  <1>2. queuedOnMove # 0 => queuedOnMove \in 1 .. MaxSearches /\ moves[queuedOnMove] = 0
    BY <1>1 DEF TypeOK, MovesAgree
  <1>3. TypeOK'
    <2>1. moves' \in [1 .. MaxSearches -> Nat]
      BY <1>2 DEF TypeOK
    <2> QED
      BY <2>1 DEF TypeOK, SearchStates, callbackVars
  <1>4. ThreadsAgree'
    BY <1>1 DEF ThreadsAgree, Searching, callbackVars
  <1>5. MovesAgree'
    BY <1>2 DEF MovesAgree, TypeOK
  <1> QED
    BY <1>3, <1>4, <1>5

LEMMA SearchThreadKeeps == ASSUME BotInv, SearchThread \/ SearchFinishes PROVE BotInv'
  <1> USE DEF BotInv, TypeOK, ThreadsAgree, MovesAgree, SearchStates, CallbackStates, Searching,
              request, userVars
  <1>1. CASE Launch
    BY <1>1 DEF Launch
  <1>2. CASE SearchBegun
    BY <1>2 DEF SearchBegun
  <1>3. CASE SearchStops \/ SearchFinishes
    <2>1. searchThread = "search" /\ SearchEnds
      BY <1>3 DEF SearchStops, SearchFinishes
    <2> QED
      BY <2>1 DEF SearchEnds, callbackVars
  <1>4. CASE StopCallbacks
    BY <1>4 DEF StopCallbacks
  <1>5. CASE JoinCallbacks
    BY <1>5 DEF JoinCallbacks
  <1> QED
    BY <1>1, <1>2, <1>3, <1>4, <1>5, TakeSearchKeeps, ReportKeeps DEF SearchThread

LEMMA CallbacksKeep == ASSUME BotInv, CallbackLoop \/ PeriodElapses PROVE BotInv'
  <1>1. PICK from \in CallbackStates \ {"none"}, to \in CallbackStates : CallbackThread(from, to)
    BY DEF CallbackLoop, PeriodElapses, AwaitBegun, WokenAtBegun, AwaitPeriod, CallbackReturns,
           OnceBegun, CallbackStates
  <1> QED
    BY <1>1 DEF CallbackThread, BotInv, TypeOK, ThreadsAgree, MovesAgree, request, userVars

LEMMA BotStep == BotInv /\ [Next]_vars => BotInv'
  <1> SUFFICES ASSUME BotInv, [Next]_vars PROVE BotInv'
    OBVIOUS
  <1>1. CASE UNCHANGED vars
    BY <1>1 DEF vars, BotInv, TypeOK, ThreadsAgree, MovesAgree
  <1>2. CASE Next
    BY <1>2, UserCallsKeep, UserContinuesKeeps, OthersKeep, SearchThreadKeeps, CallbacksKeep,
       <1>1 DEF Next, Destroyed
  <1> QED
    BY <1>1, <1>2

(* Every field of the bot keeps its type, and the searches stay counted.   *)
THEOREM BotTypeCorrect == Spec => []TypeOK
  BY BotInit, BotStep, PTL DEF Spec, BotInv

(* Once a search has ended, the callback thread that reported on it is     *)
(* gone: stopAndWait returns to a bot that reports nothing.                *)
THEOREM NoLateCallback == Spec => []NoCallbackAfterStop
  <1>1. BotInv => NoCallbackAfterStop
    BY DEF BotInv, ThreadsAgree, NoCallbackAfterStop, Searching
  <1> QED
    BY <1>1, BotInit, BotStep, PTL DEF Spec

(* A search that has ended has delivered the move that was asked for,      *)
(* unless the bot was killed before it began.                              *)
THEOREM MoveDelivered == Spec => []MoveIsDelivered
  <1>1. BotInv => MoveIsDelivered
    BY DEF BotInv, MovesAgree, MoveIsDelivered
  <1> QED
    BY <1>1, BotInit, BotStep, PTL DEF Spec

-----------------------------------------------------------------------------
(* Hand-over *)

LEMMA IdleUnlessRunning == ASSUME BotInv, ~isRunning PROVE SearchIsIdle
  BY DEF BotInv, TypeOK, ThreadsAgree, SearchIsIdle, SearchStates, Searching

LEMMA OnlyUserStarts == ASSUME Next, UserStarts PROVE ~isRunning
  <1> USE DEF UserStarts
  <1>1. CASE UserCalls
    BY <1>1 DEF UserCalls, CallSearch, StopThenSearch, CallStop, ponder
  <1>2. CASE UserContinues
    BY <1>2 DEF UserContinues, UserWakes, StopThenSearch, NotifySearchThread, waitForSearchToEnd,
                SetUp, DestructorKill, DestructorNotify, DestructorJoin
  <1>3. CASE stopWithoutWait \/ setKilled
    BY <1>3 DEF stopWithoutWait, setKilled, userVars
  <1>4. CASE SearchThread \/ SearchFinishes
    BY <1>4 DEF SearchThread, TakeSearch, Launch, SearchBegun, SearchStops, SearchFinishes,
                SearchEnds, StopCallbacks, JoinCallbacks, Report, userVars
  <1>5. CASE CallbackLoop \/ PeriodElapses
    BY <1>5 DEF CallbackLoop, PeriodElapses, AwaitBegun, WokenAtBegun, AwaitPeriod,
                CallbackReturns, CallbackThread, userVars
  <1>6. CASE Destroyed
    BY <1>6 DEF Destroyed, vars
  <1> QED
    BY <1>1, <1>2, <1>3, <1>4, <1>5, <1>6 DEF Next

LEMMA OnlyReportMoves == ASSUME Next, moves' # moves PROVE Report
  <1>1. CASE UserCalls
    BY <1>1 DEF UserCalls, CallSearch, CallStop, ponder
  <1>2. CASE UserContinues
    BY <1>2 DEF UserContinues, UserWakes, NotifySearchThread, waitForSearchToEnd,
                SetUp, DestructorKill, DestructorNotify, DestructorJoin
  <1>3. CASE stopWithoutWait \/ setKilled
    BY <1>3 DEF stopWithoutWait, setKilled
  <1>4. CASE SearchThread \/ SearchFinishes
    BY <1>4 DEF SearchThread, TakeSearch, Launch, SearchBegun, SearchStops, SearchFinishes,
                SearchEnds, StopCallbacks, JoinCallbacks
  <1>5. CASE CallbackLoop \/ PeriodElapses
    BY <1>5 DEF CallbackLoop, PeriodElapses, AwaitBegun, WokenAtBegun, AwaitPeriod,
                CallbackReturns, CallbackThread
  <1>6. CASE Destroyed
    BY <1>6 DEF Destroyed, vars
  <1> QED
    BY <1>1, <1>2, <1>3, <1>4, <1>5, <1>6 DEF Next

(* What a step of the bot does to the search object and to the moves. *)
CleanStep ==
  /\ UserSetsUp \/ UserStarts => SearchIsIdle /\ ~isRunning
  /\ \A s \in 1..MaxSearches : moves'[s] # moves[s] =>
       /\ isRunning /\ s = queuedOnMove /\ s = searches
       /\ user \notin {"mutate", "kill", "notifyKill", "join", "gone"}

LEMMA StepIsClean == BotInv /\ [Next]_vars => [CleanStep]_vars
  <1> SUFFICES ASSUME BotInv, Next PROVE CleanStep
    OBVIOUS
  <1>1. UserSetsUp \/ UserStarts => ~isRunning
    BY OnlyUserStarts DEF UserSetsUp, BotInv, ThreadsAgree, Released
  <1>2. ASSUME NEW s \in 1 .. MaxSearches, moves'[s] # moves[s]
        PROVE  /\ isRunning /\ s = queuedOnMove /\ s = searches
               /\ user \notin Released
    <2>1. Report
      BY <1>2, OnlyReportMoves
    <2>2. isRunning /\ user \notin Released
      BY <2>1 DEF Report, BotInv, ThreadsAgree, Searching
    <2>3. s = queuedOnMove
      BY <1>2, <2>1 DEF Report, BotInv, TypeOK
    <2> QED
      BY <2>2, <2>3 DEF BotInv, MovesAgree
  <1> QED
    BY <1>1, <1>2, IdleUnlessRunning DEF CleanStep, Released

(* The search object is set up, and handed to the search thread, only when *)
(* neither thread of the bot uses it; a move is delivered while its search *)
(* is the running and the last one, before anybody who waits is released.  *)
THEOREM HandOverClean == Spec => HandOverIsClean
  <1>1. [CleanStep]_vars => [/\ UserSetsUp \/ UserStarts => SearchIsIdle /\ ~isRunning
     /\ \A s \in 1..MaxSearches : moves'[s] # moves[s] =>
          /\ isRunning /\ s = queuedOnMove /\ s = searches
          /\ user \notin {"mutate", "kill", "notifyKill", "join", "gone"}]_vars
    BY DEF CleanStep
  <1> QED
    BY <1>1, BotInit, BotStep, StepIsClean, PTL DEF Spec, HandOverIsClean

=============================================================================
