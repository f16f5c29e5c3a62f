------------------------------ MODULE AsyncBot ------------------------------
(***************************************************************************)
(* search/asyncbot.cpp: one search object that a user thread starts, stops *)
(* and sets up, a search thread that runs it, a callback thread that       *)
(* reports on it while it runs, and other threads, which may call only     *)
(* stopWithoutWait and setKilled.                                          *)
(*                                                                         *)
(* A critical section of controlMutex is one step; a wait on a condition   *)
(* variable ends it, and the thread that is woken evaluates its predicate  *)
(* again in a step of its own.  shouldStopNow is not under the mutex.      *)
(***************************************************************************)
EXTENDS Integers

CONSTANT MaxSearches   \* bound on the searches the user starts

ASSUME SearchesAssumption == MaxSearches \in Nat \ {0}

VARIABLES isRunning, isPondering, isKilled, shouldStopNow,
          queuedOnMove,      \* the search whose onMove is queued, 0 for none
          analyzeCallback,   \* whether the search was asked with a callback and a period
          user, call,        \* where the user thread is, and in which call
          searchThread,      \* where the search thread is
          usingCallbackLoop, isSearchBegun, callbackLoopShouldStop,
          callbackThread,    \* where the callback thread is
          searches,          \* searches started so far
          moves              \* moves[s]: times onMove was called for search s

request == <<isPondering, queuedOnMove, analyzeCallback>>
userVars == <<user, call, searches>>
callbackVars == <<usingCallbackLoop, isSearchBegun, callbackLoopShouldStop, callbackThread>>
vars == <<isRunning, isPondering, isKilled, shouldStopNow, queuedOnMove, analyzeCallback,
          user, call, searchThread, usingCallbackLoop, isSearchBegun, callbackLoopShouldStop,
          callbackThread, searches, moves>>

Init ==
  /\ isRunning = FALSE /\ isPondering = FALSE /\ isKilled = FALSE /\ shouldStopNow = FALSE
  /\ queuedOnMove = 0 /\ analyzeCallback = FALSE
  /\ user = "free" /\ call = "none"
  /\ searchThread = "top"
  /\ usingCallbackLoop = FALSE /\ isSearchBegun = FALSE /\ callbackLoopShouldStop = FALSE
  /\ callbackThread = "none"
  /\ searches = 0 /\ moves = [s \in 1..MaxSearches |-> 0]

SearchCalls == {"genMove", "genMoveAnalyze", "genMoveSync", "analyze"}
StopCalls == {"setPosition", "destroy"}

WakeSearchThread ==
  searchThread' = IF searchThread = "asleep" THEN "top" ELSE searchThread

-----------------------------------------------------------------------------
(* The user thread *)

StartSearch(c) ==
  /\ searches' = searches + 1
  /\ queuedOnMove' = IF c \in {"analyze", "ponder"} THEN 0 ELSE searches + 1
  /\ isRunning' = TRUE
  /\ isPondering' = (c = "ponder")
  /\ shouldStopNow' = FALSE
  /\ analyzeCallback' = (c \in {"genMoveAnalyze", "analyze"})
  /\ user' = "notify"

(* waitForSearchToEndAlreadyLocked, and what the call does after it, still *)
(* with the mutex.                                                         *)
StopThenSearch(c) ==
  IF isRunning
  THEN user' = "asleep" /\ shouldStopNow' = TRUE /\ UNCHANGED <<isRunning, request, searches>>
  ELSE IF isKilled
  THEN /\ user' = IF c = "genMoveSync" THEN "wait" ELSE "free"
       /\ shouldStopNow' = TRUE
       /\ UNCHANGED <<isRunning, request, searches>>
  ELSE StartSearch(c)

(* genMoveAsync, genMoveAsyncAnalyze, analyzeAsync: stop, wait, start. *)
CallSearch(c) ==
  /\ user = "free" /\ searches < MaxSearches
  /\ call' = c
  /\ StopThenSearch(c)
  /\ UNCHANGED <<isKilled, searchThread, callbackVars, moves>>

(* Awake in waitForSearchToEndAlreadyLocked: the predicate, then the rest. *)
UserWakes ==
  /\ user = "woken"
  /\ IF isRunning
     THEN user' = "asleep" /\ UNCHANGED <<isRunning, shouldStopNow, request, searches>>
     ELSE StopThenSearch(call)
  /\ UNCHANGED <<isKilled, call, searchThread, callbackVars, moves>>

(* ponder leaves a search that runs alone. *)
ponder ==
  /\ user = "free" /\ searches < MaxSearches
  /\ ~isRunning /\ ~isKilled
  /\ call' = "ponder"
  /\ StartSearch("ponder")
  /\ UNCHANGED <<isKilled, searchThread, callbackVars, moves>>

(* threadWaitingToSearch.notify_all, after the unlock. *)
NotifySearchThread ==
  /\ user = "notify"
  /\ WakeSearchThread
  /\ user' = IF call = "genMoveSync" THEN "wait" ELSE "free"
  /\ UNCHANGED <<isRunning, isKilled, shouldStopNow, request, call, searches, callbackVars, moves>>

(* stopAndWait of setPosition, clearSearch, ... and of the destructor. *)
CallStop(c) ==
  /\ user = "free"
  /\ call' = c /\ shouldStopNow' = TRUE
  /\ user' = "wait"
  /\ UNCHANGED <<isRunning, isKilled, request, searches, searchThread, callbackVars, moves>>

Returned(c) == CASE c = "setPosition" -> "mutate" [] c = "destroy" -> "kill" [] OTHER -> "free"

(* Fault: the predicate is not evaluated. *)
waitForSearchToEnd_NoCheck ==
  /\ user = "wait"
  /\ user' = Returned(call)
  /\ UNCHANGED <<isRunning, isKilled, shouldStopNow, request, call, searches, searchThread,
                 callbackVars, moves>>
waitForSearchToEnd ==
  /\ user = "wait"
  /\ user' = IF isRunning THEN "asleepInWait" ELSE Returned(call)
  /\ UNCHANGED <<isRunning, isKilled, shouldStopNow, request, call, searches, searchThread,
                 callbackVars, moves>>

(* search->setPosition and the other setup calls, without the mutex. *)
SetUp ==
  /\ user = "mutate"
  /\ user' = "free" /\ call' = "none"
  /\ UNCHANGED <<isRunning, isKilled, shouldStopNow, request, searches, searchThread,
                 callbackVars, moves>>

(* The destructor: isKilled under the mutex, notify_all, join. *)
DestructorKill ==
  /\ user = "kill"
  /\ isKilled' = TRUE /\ user' = "notifyKill"
  /\ UNCHANGED <<isRunning, shouldStopNow, request, call, searches, searchThread, callbackVars, moves>>
DestructorNotify ==
  /\ user = "notifyKill"
  /\ WakeSearchThread /\ user' = "join"
  /\ UNCHANGED <<isRunning, isKilled, shouldStopNow, request, call, searches, callbackVars, moves>>
DestructorJoin ==
  /\ user = "join" /\ searchThread = "exited"
  /\ user' = "gone"
  /\ UNCHANGED <<isRunning, isKilled, shouldStopNow, request, call, searches, searchThread,
                 callbackVars, moves>>

-----------------------------------------------------------------------------
(* Other threads *)

stopWithoutWait ==
  /\ user # "gone"
  /\ shouldStopNow' = TRUE
  /\ UNCHANGED <<isRunning, isKilled, request, userVars, searchThread, callbackVars, moves>>

(* Fault: kills the thread that waits, stops no search. *)
setKilled_NoStop ==
  /\ user # "gone"
  /\ isKilled' = TRUE /\ WakeSearchThread
  /\ UNCHANGED <<isRunning, shouldStopNow, request, userVars, callbackVars, moves>>
setKilled ==
  /\ user # "gone"
  /\ isKilled' = TRUE /\ shouldStopNow' = TRUE
  /\ WakeSearchThread
  /\ UNCHANGED <<isRunning, request, userVars, callbackVars, moves>>

-----------------------------------------------------------------------------
(* The search thread *)

(* userWaitingForStop.notify_all *)
WakeUser ==
  user' = CASE user = "asleep" -> "woken" [] user = "asleepInWait" -> "wait" [] OTHER -> user

(* Top of internalSearchThreadLoop, with the mutex. *)
TakeSearch ==
  /\ searchThread = "top"
  /\ IF isKilled
     THEN /\ searchThread' = "exited"
          /\ isRunning' = FALSE /\ isPondering' = FALSE
          /\ WakeUser
          /\ UNCHANGED <<usingCallbackLoop>>
     ELSE /\ searchThread' = IF isRunning THEN "launch" ELSE "asleep"
          /\ usingCallbackLoop' = IF isRunning THEN analyzeCallback ELSE usingCallbackLoop
          /\ UNCHANGED <<isRunning, isPondering, user>>
  /\ UNCHANGED <<isKilled, shouldStopNow, queuedOnMove, analyzeCallback, call, searches,
                 isSearchBegun, callbackLoopShouldStop, callbackThread, moves>>

Launch ==
  /\ searchThread = "launch"
  /\ isSearchBegun' = FALSE /\ callbackLoopShouldStop' = FALSE
  /\ callbackThread' = IF usingCallbackLoop THEN "start" ELSE "none"
  /\ searchThread' = "begin"
  /\ UNCHANGED <<isRunning, isKilled, shouldStopNow, request, userVars, usingCallbackLoop, moves>>

(* runWholeSearch, which calls searchBegun once the tree has its root. *)
SearchBegun ==
  /\ searchThread = "begin"
  /\ isSearchBegun' = usingCallbackLoop
  /\ callbackThread' = IF callbackThread = "asleepUntilBegun" THEN "woken" ELSE callbackThread
  /\ searchThread' = "search"
  /\ UNCHANGED <<isRunning, isKilled, shouldStopNow, request, userVars, usingCallbackLoop,
                 callbackLoopShouldStop, moves>>

SearchEnds ==
  /\ searchThread' = IF usingCallbackLoop THEN "stopCallbacks" ELSE "report"
  /\ UNCHANGED <<isRunning, isKilled, shouldStopNow, request, userVars, callbackVars, moves>>
SearchStops == searchThread = "search" /\ shouldStopNow /\ SearchEnds
(* Its limit of visits, playouts or time is reached. *)
SearchFinishes == searchThread = "search" /\ SearchEnds

(* Fault: the callback thread is left to find out at its next timeout. *)
StopCallbacks_NoNotify ==
  /\ searchThread = "stopCallbacks"
  /\ callbackLoopShouldStop' = TRUE
  /\ searchThread' = "join"
  /\ UNCHANGED <<isRunning, isKilled, shouldStopNow, request, userVars, usingCallbackLoop,
                 isSearchBegun, callbackThread, moves>>
StopCallbacks ==
  /\ searchThread = "stopCallbacks"
  /\ callbackLoopShouldStop' = TRUE
  /\ callbackThread' = CASE callbackThread = "asleepUntilBegun" -> "woken"
                         [] callbackThread = "asleepForPeriod" -> "period"
                         [] OTHER -> callbackThread
  /\ searchThread' = "join"
  /\ UNCHANGED <<isRunning, isKilled, shouldStopNow, request, userVars, usingCallbackLoop,
                 isSearchBegun, moves>>

(* Fault: the search thread goes on without the callback thread. *)
JoinCallbacks_Detach ==
  /\ searchThread = "join"
  /\ searchThread' = "report"
  /\ UNCHANGED <<isRunning, isKilled, shouldStopNow, request, userVars, callbackVars, moves>>
JoinCallbacks ==
  /\ searchThread = "join" /\ callbackThread = "done"
  /\ callbackThread' = "none"
  /\ searchThread' = "report"
  /\ UNCHANGED <<isRunning, isKilled, shouldStopNow, request, userVars, usingCallbackLoop,
                 isSearchBegun, callbackLoopShouldStop, moves>>

(* onMove under the mutex, then the end of the search. *)
(* Fault: a stopped search says nothing. *)
Report_NotWhenStopped ==
  /\ searchThread = "report"
  /\ moves' = IF queuedOnMove = 0 \/ shouldStopNow THEN moves ELSE [moves EXCEPT ![queuedOnMove] = @ + 1]
  /\ isRunning' = FALSE /\ isPondering' = FALSE
  /\ WakeUser
  /\ searchThread' = "top"
  /\ UNCHANGED <<isKilled, shouldStopNow, queuedOnMove, analyzeCallback, call, searches, callbackVars>>
Report ==
  /\ searchThread = "report"
  /\ moves' = IF queuedOnMove = 0 THEN moves ELSE [moves EXCEPT ![queuedOnMove] = @ + 1]
  /\ isRunning' = FALSE /\ isPondering' = FALSE
  /\ WakeUser
  /\ searchThread' = "top"
  /\ UNCHANGED <<isKilled, shouldStopNow, queuedOnMove, analyzeCallback, call, searches, callbackVars>>

-----------------------------------------------------------------------------
(* The callback thread *)

CallbackThread(from, to) ==
  /\ callbackThread = from
  /\ callbackThread' = to
  /\ UNCHANGED <<isRunning, isKilled, shouldStopNow, request, userVars, searchThread,
                 usingCallbackLoop, isSearchBegun, callbackLoopShouldStop, moves>>

(* The first wait: isSearchBegun is evaluated before it, the stop after it. *)
(* Without a first period there is nothing to wait for.                    *)
OnceBegun == IF isSearchBegun THEN {"period", "done"} ELSE {"asleepUntilBegun"}
AwaitBegun == \E to \in OnceBegun : CallbackThread("start", to)
WokenAtBegun ==
  \E to \in IF callbackLoopShouldStop THEN {"done"} ELSE OnceBegun : CallbackThread("woken", to)

(* wait_for evaluates its predicate before it sleeps and when notified. *)
AwaitPeriod == CallbackThread("period", IF callbackLoopShouldStop THEN "done" ELSE "asleepForPeriod")
(* The period is over: the stop, no values yet, or the callback. *)
PeriodElapses ==
  \E to \in {"callback", "asleepForPeriod"} :
    CallbackThread("asleepForPeriod", IF callbackLoopShouldStop THEN "done" ELSE to)
(* The callback has run without the mutex; a negative period ends the loop. *)
CallbackReturns == \E to \in {"done", "period"} : CallbackThread("callback", to)

-----------------------------------------------------------------------------
(* Nothing is left to do once the bot is destroyed. *)
Destroyed == user = "gone" /\ UNCHANGED vars

UserCalls == (\E c \in SearchCalls : CallSearch(c)) \/ (\E c \in StopCalls : CallStop(c)) \/ ponder
UserContinues ==
  \/ UserWakes \/ NotifySearchThread \/ waitForSearchToEnd \/ SetUp
  \/ DestructorKill \/ DestructorNotify \/ DestructorJoin
SearchThread ==
  \/ TakeSearch \/ Launch \/ SearchBegun \/ SearchStops \/ StopCallbacks \/ JoinCallbacks \/ Report
CallbackLoop == AwaitBegun \/ WokenAtBegun \/ AwaitPeriod \/ CallbackReturns

Next ==
  \/ UserCalls \/ UserContinues
  \/ stopWithoutWait \/ setKilled
  \/ SearchThread \/ SearchFinishes
  \/ CallbackLoop \/ PeriodElapses
  \/ Destroyed

Spec == Init /\ [][Next]_vars

(* Threads that can run do, and callbacks return.  A search need not reach *)
(* its limit, and a period need not elapse.                                *)
FairSpec == Spec /\ WF_vars(UserContinues) /\ WF_vars(SearchThread) /\ WF_vars(CallbackLoop)
-----------------------------------------------------------------------------
(* Types, for the proofs. *)
UserStates ==
  {"free", "asleep", "woken", "notify", "wait", "asleepInWait", "mutate", "kill", "notifyKill",
   "join", "gone"}
SearchStates ==
  {"top", "asleep", "exited", "launch", "begin", "search", "stopCallbacks", "join", "report"}
CallbackStates ==
  {"none", "start", "asleepUntilBegun", "woken", "period", "asleepForPeriod", "callback", "done"}
TypeOK ==
  /\ isRunning \in BOOLEAN /\ isPondering \in BOOLEAN /\ isKilled \in BOOLEAN
  /\ shouldStopNow \in BOOLEAN /\ analyzeCallback \in BOOLEAN
  /\ usingCallbackLoop \in BOOLEAN /\ isSearchBegun \in BOOLEAN
  /\ callbackLoopShouldStop \in BOOLEAN
  /\ user \in UserStates /\ call \in SearchCalls \cup StopCalls \cup {"none", "ponder"}
  /\ searchThread \in SearchStates /\ callbackThread \in CallbackStates
  /\ searches \in 0 .. MaxSearches /\ queuedOnMove \in 0 .. MaxSearches
  /\ moves \in [1..MaxSearches -> Nat]

(* No thread of the bot looks at the search object, and none is about to.  *)
SearchIsIdle ==
  /\ searchThread \in {"top", "asleep", "exited"} /\ callbackThread = "none"

(* Search object and result change hands only between searches.  The setup *)
(* calls and the calls that start a search change the search object        *)
(* without controlMutex or before they hand it over, and only while        *)
(* neither the search thread nor the callback thread uses it.  onMove is   *)
(* called while its search is still the running one, so that a caller who  *)
(* waits for the end of the search finds the move, and one who starts the  *)
(* next search never gets the move of the one before.                      *)
UserSetsUp == user = "mutate" /\ user' # "mutate"
UserStarts == searches' # searches
HandOverIsClean ==
  [][/\ UserSetsUp \/ UserStarts => SearchIsIdle /\ ~isRunning
     /\ \A s \in 1..MaxSearches : moves'[s] # moves[s] =>
          /\ isRunning /\ s = queuedOnMove /\ s = searches
          /\ user \notin {"mutate", "kill", "notifyKill", "join", "gone"}]_vars

(* Every move that was asked for is delivered: once the search no longer   *)
(* runs, stopped or not, onMove was called for it.  Only a bot that was    *)
(* killed drops one, the last.                                             *)
MoveIsDelivered ==
  queuedOnMove # 0 /\ ~isRunning =>
    moves[queuedOnMove] = 1 \/ (isKilled /\ searchThread = "exited")

(* The analysis callback only runs while its search is running: after a    *)
(* stop has returned no report of the old position can appear.             *)
NoCallbackAfterStop ==
  callbackThread # "none" => isRunning /\ searchThread \in {"begin", "search", "stopCallbacks", "join"}

(* A search that was stopped ends, and whoever waits for it is released,   *)
(* also if it never reaches a limit and no callback period elapses.        *)
Stopping ==
  user \in {"asleep", "woken"} \/ (user \in {"wait", "asleepInWait"} /\ call \in StopCalls)
StopReturns == Stopping ~> ~Stopping

(* setKilled is never undone by a search that starts at the same time: the *)
(* search thread exits, and no caller waits for it.                        *)
KilledBotEnds == isKilled ~> (searchThread = "exited" /\ user \notin {"asleep", "asleepInWait"})
=============================================================================
