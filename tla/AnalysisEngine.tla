--------------------------- MODULE AnalysisEngine ---------------------------
(***************************************************************************)
(* command/analysis.cpp: the request loop, which opens, queues, terminates *)
(* and refocuses requests, the analysis threads with a bot each, the write *)
(* thread, and the shutdown.                                               *)
(*                                                                         *)
(* A bot is what AsyncBot shows it to be: its stop and kill flags, a       *)
(* search that runs onSearchBegun once and ends when it was stopped or at  *)
(* its limit, and a thread that waits for it.  A request is a number, in   *)
(* the order of arrival.  The queues are ThreadSafeQueues: a blocking pop  *)
(* is a guard, since none of their wakeups is lost.  openRequestsMutex has *)
(* a holder only across the steps of the request loop; an analysis thread  *)
(* takes it for one step.                                                  *)
(***************************************************************************)
EXTENDS Integers, FiniteSets, Sequences

CONSTANTS Bots,                \* the analysis threads, each with its bot
          MaxRequests,         \* bound on the requests of a behaviour
          MaxTurns,            \* bound on the positions of one query
          Priorities,
          Focuses, NoFocus,    \* root focuses; NoFocus is one of them
          QuitWithoutWaiting   \* -quit-without-waiting

ASSUME FocusAssumption == NoFocus \in Focuses
ASSUME BoundsAssumption ==
  /\ MaxRequests \in Nat \ {0} /\ MaxTurns \in Nat \ {0} /\ Priorities \subseteq Int
  /\ Bots \cap {"IN_QUEUE", "POPPED", "TERMINATED"} = {} /\ QuitWithoutWaiting \in BOOLEAN
  /\ Bots # {}  \* numAnalysisThreads is at least 1

Requests == 1..MaxRequests

VARIABLES numRequests, priority, status, requestFocus,
          openRequests, deleted,
          mutexHeld,                        \* openRequestsMutex, by the request loop
          toAnalyzeQueue, analyzeReadOnly,
          toWriteQueue, writeReadOnly, printed, writeThread,
          at, has,                          \* analysis threads: place, request
          shouldStopNow, isKilled, botFocus, hasResult,
          api, todo, prevStatus, newFocus   \* the request loop, then the shutdown

requests == <<numRequests, priority>>
opened == <<openRequests, deleted>>
analyze == <<toAnalyzeQueue, analyzeReadOnly>>
output == <<toWriteQueue, writeReadOnly>>
writer == <<printed, writeThread>>
bots == <<at, has, shouldStopNow, isKilled, botFocus, hasResult>>
loop == <<api, todo, prevStatus, newFocus>>
vars == <<numRequests, priority, status, requestFocus, openRequests, deleted, mutexHeld,
          toAnalyzeQueue, analyzeReadOnly, toWriteQueue, writeReadOnly, printed, writeThread,
          at, has, shouldStopNow, isKilled, botFocus, hasResult, api, todo, prevStatus, newFocus>>

Init ==
  /\ numRequests = 0
  /\ priority \in [Requests -> Priorities]  \* read once the request is there
  /\ status = [r \in Requests |-> "IN_QUEUE"]
  /\ requestFocus = [r \in Requests |-> NoFocus]
  /\ openRequests = {} /\ deleted = {} /\ mutexHeld = FALSE
  /\ toAnalyzeQueue = {} /\ analyzeReadOnly = FALSE
  /\ toWriteQueue = <<>> /\ writeReadOnly = FALSE
  /\ printed = [r \in Requests |-> 0] /\ writeThread = "run"
  /\ at = [b \in Bots |-> "pop"] /\ has = [b \in Bots |-> 0]
  /\ shouldStopNow = [b \in Bots |-> FALSE] /\ isKilled = [b \in Bots |-> FALSE]
  /\ botFocus = [b \in Bots |-> NoFocus] /\ hasResult = [b \in Bots |-> FALSE]
  /\ api = "read" /\ todo = {} /\ prevStatus = "IN_QUEUE" /\ newFocus = NoFocus

pushToWrite(r) == toWriteQueue' = IF writeReadOnly THEN toWriteQueue ELSE Append(toWriteQueue, r)
Least(S) == CHOOSE x \in S : \A y \in S : x <= y

-----------------------------------------------------------------------------
(* The request loop *)

(* A query of n positions: all open at once, then queued one by one. *)
OpenQuery(n) ==
  /\ api = "read" /\ numRequests + n <= MaxRequests
  /\ LET new == numRequests + 1 .. numRequests + n IN
       /\ numRequests' = numRequests + n
       /\ \E f \in Focuses : requestFocus' = [r \in Requests |-> IF r \in new THEN f ELSE requestFocus[r]]
       /\ openRequests' = openRequests \cup new
       /\ todo' = new
  /\ api' = "enqueue"
  /\ UNCHANGED <<priority, status, deleted, mutexHeld, analyze, output, writer, bots, prevStatus, newFocus>>
Enqueue ==
  /\ api = "enqueue"
  /\ toAnalyzeQueue' = toAnalyzeQueue \cup {Least(todo)}
  /\ todo' = todo \ {Least(todo)}
  /\ api' = IF Cardinality(todo) = 1 THEN "read" ELSE "enqueue"
  /\ UNCHANGED <<requests, status, requestFocus, opened, mutexHeld, analyzeReadOnly, output, writer,
                 bots, prevStatus, newFocus>>

(* terminate, terminate_all, set_focus: the open requests that match. *)
StartAction(where) ==
  /\ api = "read" /\ ~mutexHeld
  /\ todo' \in (SUBSET openRequests) \ {{}}
  /\ mutexHeld' = TRUE /\ api' = where
  /\ newFocus' \in IF where = "setFocus" THEN Focuses ELSE {newFocus}
  /\ UNCHANGED <<requests, status, requestFocus, opened, analyze, output, writer, bots, prevStatus>>

(* The next request of the action, or the mutex is released. *)
NextOf(where) ==
  /\ todo' = todo \ {Least(todo)}
  /\ IF todo' = {} THEN api' = "read" /\ mutexHeld' = FALSE
                   ELSE api' = where /\ UNCHANGED mutexHeld

(* terminateRequest: the exchange of the status, then what it asks for.    *)
Terminate ==
  /\ api = "terminate"
  /\ prevStatus' = status[Least(todo)]
  /\ status' = [status EXCEPT ![Least(todo)] = "TERMINATED"]
  /\ api' = "act"
  /\ UNCHANGED <<requests, requestFocus, opened, mutexHeld, analyze, output, writer, bots, todo, newFocus>>
(* Fault: also answers for a popped request. *)
ActOnTerminated_AnswerPopped ==
  /\ api = "act"
  /\ IF prevStatus \in {"IN_QUEUE", "POPPED"} THEN pushToWrite(Least(todo)) ELSE UNCHANGED toWriteQueue
  /\ shouldStopNow' = [b \in Bots |-> shouldStopNow[b] \/ b = prevStatus]
  /\ NextOf("terminate")
  /\ UNCHANGED <<requests, status, requestFocus, opened, analyze, writeReadOnly, writer,
                 at, has, isKilled, botFocus, hasResult, prevStatus, newFocus>>
ActOnTerminated ==
  /\ api = "act"
  /\ IF prevStatus = "IN_QUEUE" THEN pushToWrite(Least(todo)) ELSE UNCHANGED toWriteQueue
  /\ shouldStopNow' = [b \in Bots |-> shouldStopNow[b] \/ b = prevStatus]  \* stopWithoutWait
  /\ NextOf("terminate")
  /\ UNCHANGED <<requests, status, requestFocus, opened, analyze, writeReadOnly, writer,
                 at, has, isKilled, botFocus, hasResult, prevStatus, newFocus>>

(* setRequestFocus: the fields of the request, then its status. *)
WriteFocus ==
  /\ api = "setFocus"
  /\ requestFocus' = [requestFocus EXCEPT ![Least(todo)] = newFocus]
  /\ api' = "focusBot"
  /\ UNCHANGED <<requests, status, opened, mutexHeld, analyze, output, writer, bots, todo, prevStatus, newFocus>>
FocusBot ==
  /\ api = "focusBot"
  /\ botFocus' = [b \in Bots |-> IF b = status[Least(todo)] THEN newFocus ELSE botFocus[b]]
  /\ NextOf("setFocus")
  /\ UNCHANGED <<requests, status, requestFocus, opened, analyze, output, writer,
                 at, has, shouldStopNow, isKilled, hasResult, prevStatus, newFocus>>

-----------------------------------------------------------------------------
(* An analysis thread *)

Before(r, s) == priority[r] > priority[s] \/ (priority[r] = priority[s] /\ r < s)

(* The part of the step that touches nothing but the threads. *)
OthersUnchanged ==
  UNCHANGED <<requests, requestFocus, writeReadOnly, analyzeReadOnly, mutexHeld, writer, loop>>
Goto(b, place) == at' = [at EXCEPT ![b] = place]

Pop(b) ==
  /\ at[b] = "pop" /\ toAnalyzeQueue # {}
  /\ \E r \in toAnalyzeQueue :
       /\ \A s \in toAnalyzeQueue \ {r} : Before(r, s)
       /\ has' = [has EXCEPT ![b] = r]
       /\ toAnalyzeQueue' = toAnalyzeQueue \ {r}
  /\ Goto(b, "popped")
  /\ OthersUnchanged
  /\ UNCHANGED <<status, opened, toWriteQueue, shouldStopNow, isKilled, botFocus, hasResult>>
Exit(b) ==
  /\ at[b] = "pop" /\ toAnalyzeQueue = {} /\ analyzeReadOnly
  /\ Goto(b, "exited")
  /\ OthersUnchanged
  /\ UNCHANGED <<status, opened, toAnalyzeQueue, toWriteQueue, has, shouldStopNow, isKilled,
                 botFocus, hasResult>>

(* compare_exchange from IN_QUEUE to POPPED; if it succeeds, the position. *)
ClaimPopped(b) ==
  /\ at[b] = "popped"
  /\ IF status[has[b]] = "IN_QUEUE"
     THEN /\ status' = [status EXCEPT ![has[b]] = "POPPED"]
          /\ shouldStopNow' = [shouldStopNow EXCEPT ![b] = TRUE]  \* stopAndWait of setPosition
          /\ hasResult' = [hasResult EXCEPT ![b] = FALSE]
          /\ Goto(b, "genMove")
     ELSE Goto(b, "clear") /\ UNCHANGED <<status, shouldStopNow, hasResult>>
  /\ OthersUnchanged
  /\ UNCHANGED <<opened, toAnalyzeQueue, toWriteQueue, has, isKilled, botFocus>>

(* genMoveAsync: not for a killed bot. *)
GenMove(b) ==
  /\ at[b] = "genMove"
  /\ Goto(b, IF isKilled[b] THEN "report" ELSE "start")
  /\ shouldStopNow' = [shouldStopNow EXCEPT ![b] = isKilled[b]]
  /\ OthersUnchanged
  /\ UNCHANGED <<status, opened, toAnalyzeQueue, toWriteQueue, has, isKilled, botFocus, hasResult>>

(* The search thread of the bot takes the search, unless killed meanwhile. *)
StartSearch(b) ==
  /\ at[b] = "start"
  /\ Goto(b, IF isKilled[b] THEN "report" ELSE "begin")
  /\ OthersUnchanged
  /\ UNCHANGED <<status, opened, toAnalyzeQueue, toWriteQueue, has, shouldStopNow, isKilled,
                 botFocus, hasResult>>

(* onSearchBegun: first the status, or the stop, then the focus.           *)
(* Fault: a request that was terminated meanwhile is searched to the end.  *)
OnSearchBegun_NoStop(b) ==
  /\ at[b] = "begin"
  /\ status' = [status EXCEPT ![has[b]] = IF @ = "POPPED" THEN b ELSE @]
  /\ Goto(b, "focus")
  /\ OthersUnchanged
  /\ UNCHANGED <<opened, toAnalyzeQueue, toWriteQueue, has, shouldStopNow, isKilled, botFocus, hasResult>>
OnSearchBegun(b) ==
  /\ at[b] = "begin"
  /\ IF status[has[b]] = "POPPED"
     THEN status' = [status EXCEPT ![has[b]] = b] /\ UNCHANGED shouldStopNow
     ELSE shouldStopNow' = [shouldStopNow EXCEPT ![b] = TRUE] /\ UNCHANGED status
  /\ Goto(b, "focus")
  /\ OthersUnchanged
  /\ UNCHANGED <<opened, toAnalyzeQueue, toWriteQueue, has, isKilled, botFocus, hasResult>>
(* Fault: a request without a focus leaves the bot the focus it has. *)
ApplyFocus_OnlyIfAny(b) ==
  /\ at[b] = "focus" /\ ~mutexHeld
  /\ botFocus' = IF requestFocus[has[b]] = NoFocus THEN botFocus
                 ELSE [botFocus EXCEPT ![b] = requestFocus[has[b]]]
  /\ Goto(b, "search")
  /\ OthersUnchanged
  /\ UNCHANGED <<status, opened, toAnalyzeQueue, toWriteQueue, has, shouldStopNow, isKilled, hasResult>>
ApplyFocus(b) ==
  /\ at[b] = "focus" /\ ~mutexHeld
  /\ botFocus' = [botFocus EXCEPT ![b] = requestFocus[has[b]]]
  /\ Goto(b, "search")
  /\ OthersUnchanged
  /\ UNCHANGED <<status, opened, toAnalyzeQueue, toWriteQueue, has, shouldStopNow, isKilled, hasResult>>

(* A stopped search may have no visits to report yet. *)
SearchEnds(b, results) ==
  /\ at[b] = "search"
  /\ \E res \in results : hasResult' = [hasResult EXCEPT ![b] = res]
  /\ Goto(b, "report")
  /\ OthersUnchanged
  /\ UNCHANGED <<status, opened, toAnalyzeQueue, toWriteQueue, has, shouldStopNow, isKilled, botFocus>>
SearchStops(b) == shouldStopNow[b] /\ SearchEnds(b, BOOLEAN)
SearchFinishes(b) == SearchEnds(b, {TRUE})

(* The final report, or noResults for a terminated request.                *)
Report(b) ==
  /\ at[b] = "report"
  /\ IF hasResult[b] \/ status[has[b]] = "TERMINATED" THEN pushToWrite(has[b]) ELSE UNCHANGED toWriteQueue
  /\ Goto(b, "clear")
  /\ OthersUnchanged
  /\ UNCHANGED <<status, opened, toAnalyzeQueue, has, shouldStopNow, isKilled, botFocus, hasResult>>

ClearSearch(b) ==
  /\ at[b] = "clear"
  /\ shouldStopNow' = [shouldStopNow EXCEPT ![b] = TRUE]
  /\ hasResult' = [hasResult EXCEPT ![b] = FALSE]
  /\ Goto(b, "erase")
  /\ OthersUnchanged
  /\ UNCHANGED <<status, opened, toAnalyzeQueue, toWriteQueue, has, isKilled, botFocus>>

(* Fault: erases without openRequestsMutex. *)
Erase_NoMutex(b) ==
  /\ at[b] = "erase"
  /\ openRequests' = openRequests \ {has[b]}
  /\ Goto(b, "delete")
  /\ OthersUnchanged
  /\ UNCHANGED <<status, deleted, toAnalyzeQueue, toWriteQueue, has, shouldStopNow, isKilled,
                 botFocus, hasResult>>
Erase(b) ==
  /\ at[b] = "erase" /\ ~mutexHeld
  /\ openRequests' = openRequests \ {has[b]}
  /\ Goto(b, "delete")
  /\ OthersUnchanged
  /\ UNCHANGED <<status, deleted, toAnalyzeQueue, toWriteQueue, has, shouldStopNow, isKilled,
                 botFocus, hasResult>>
Delete(b) ==
  /\ at[b] = "delete"
  /\ deleted' = deleted \cup {has[b]}
  /\ has' = [has EXCEPT ![b] = 0]
  /\ Goto(b, "pop")
  /\ OthersUnchanged
  /\ UNCHANGED <<status, openRequests, toAnalyzeQueue, toWriteQueue, shouldStopNow, isKilled,
                 botFocus, hasResult>>

-----------------------------------------------------------------------------
(* The write thread *)

Write ==
  /\ writeThread = "run" /\ toWriteQueue # <<>>
  /\ printed' = [printed EXCEPT ![Head(toWriteQueue)] = @ + 1]
  /\ toWriteQueue' = Tail(toWriteQueue)
  /\ UNCHANGED <<requests, status, requestFocus, opened, mutexHeld, analyze, writeReadOnly,
                 writeThread, bots, loop>>
WriteExit ==
  /\ writeThread = "run" /\ toWriteQueue = <<>> /\ writeReadOnly
  /\ writeThread' = "exited"
  /\ UNCHANGED <<requests, status, requestFocus, opened, mutexHeld, analyze, output, printed,
                 bots, loop>>

-----------------------------------------------------------------------------
(* The end of the input and the shutdown *)

Shutdown(from, to) ==
  /\ api = from /\ api' = to
  /\ UNCHANGED <<requests, status, requestFocus, opened, mutexHeld, writer, toAnalyzeQueue,
                 toWriteQueue, at, has, botFocus, hasResult, prevStatus, newFocus>>
BotsUnchanged == UNCHANGED <<shouldStopNow, isKilled, todo>>

EndOfInput ==
  /\ Shutdown("read", IF QuitWithoutWaiting THEN "closeQueue" ELSE "join")
  /\ writeReadOnly' = QuitWithoutWaiting
  /\ analyzeReadOnly' = ~QuitWithoutWaiting
  /\ BotsUnchanged
CloseQueue ==
  /\ Shutdown("closeQueue", "stopBots")
  /\ analyzeReadOnly' = TRUE /\ todo' = Bots
  /\ UNCHANGED <<writeReadOnly, shouldStopNow, isKilled>>
StopBot(b) ==
  /\ b \in todo
  /\ Shutdown("stopBots", IF todo = {b} THEN "killBots" ELSE "stopBots")
  /\ shouldStopNow' = [shouldStopNow EXCEPT ![b] = TRUE]
  /\ todo' = IF todo = {b} THEN Bots ELSE todo \ {b}
  /\ UNCHANGED <<writeReadOnly, analyzeReadOnly, isKilled>>
(* Fault: the bots are only stopped a second time. *)
KillBot_StopOnly(b) ==
  /\ b \in todo
  /\ Shutdown("killBots", IF todo = {b} THEN "join" ELSE "killBots")
  /\ shouldStopNow' = [shouldStopNow EXCEPT ![b] = TRUE]
  /\ todo' = todo \ {b}
  /\ UNCHANGED <<writeReadOnly, analyzeReadOnly, isKilled>>
KillBot(b) ==
  /\ b \in todo
  /\ Shutdown("killBots", IF todo = {b} THEN "join" ELSE "killBots")
  /\ shouldStopNow' = [shouldStopNow EXCEPT ![b] = TRUE]
  /\ isKilled' = [isKilled EXCEPT ![b] = TRUE]
  /\ todo' = todo \ {b}
  /\ UNCHANGED <<writeReadOnly, analyzeReadOnly>>
Join ==
  /\ \A b \in Bots : at[b] = "exited"
  /\ Shutdown("join", "joinWriter")
  /\ writeReadOnly' = TRUE
  /\ UNCHANGED analyzeReadOnly /\ BotsUnchanged
JoinWriter ==
  /\ writeThread = "exited"
  /\ Shutdown("joinWriter", "done")
  /\ UNCHANGED <<writeReadOnly, analyzeReadOnly>> /\ BotsUnchanged

Ended == api = "done" /\ UNCHANGED vars
-----------------------------------------------------------------------------
UserAsks == (\E n \in 1..MaxTurns : OpenQuery(n)) \/ StartAction("terminate") \/ StartAction("setFocus") \/ EndOfInput
RequestLoop ==
  \/ Enqueue \/ Terminate \/ ActOnTerminated \/ WriteFocus \/ FocusBot
  \/ CloseQueue \/ (\E b \in Bots : StopBot(b) \/ KillBot(b)) \/ Join \/ JoinWriter
AnalysisThread(b) ==
  \/ Pop(b) \/ Exit(b) \/ ClaimPopped(b) \/ GenMove(b) \/ StartSearch(b) \/ OnSearchBegun(b)
  \/ ApplyFocus(b) \/ SearchStops(b) \/ Report(b) \/ ClearSearch(b) \/ Erase(b) \/ Delete(b)
WriteThread == Write \/ WriteExit

Next ==
  \/ UserAsks \/ RequestLoop
  \/ \E b \in Bots : AnalysisThread(b) \/ SearchFinishes(b)
  \/ WriteThread
  \/ Ended

Spec == Init /\ [][Next]_vars

(* Every thread that can run does, except that the user need not ask and a *)
(* search need not reach its limit.  An analysis thread gets the mutex in  *)
(* the end: the request loop waits for input between two requests.         *)
FairSpec ==
  /\ Spec /\ WF_vars(RequestLoop) /\ WF_vars(WriteThread)
  /\ \A b \in Bots : WF_vars(AnalysisThread(b)) /\ SF_vars(ApplyFocus(b)) /\ SF_vars(Erase(b))
-----------------------------------------------------------------------------
(* Every field of a request, a queue, a thread and a bot has its type. *)
Places == {"pop", "popped", "genMove", "start", "begin", "focus", "search", "report", "clear", "erase",
           "delete", "exited"}
Statuses == {"IN_QUEUE", "POPPED", "TERMINATED"} \cup Bots
LoopPlaces == {"read", "enqueue", "terminate", "act", "setFocus", "focusBot", "closeQueue", "stopBots",
               "killBots", "join", "joinWriter", "done"}
TypeOK ==
  /\ numRequests \in 0..MaxRequests /\ priority \in [Requests -> Priorities]
  /\ status \in [Requests -> Statuses] /\ requestFocus \in [Requests -> Focuses]
  /\ openRequests \subseteq Requests /\ deleted \subseteq Requests /\ mutexHeld \in BOOLEAN
  /\ toAnalyzeQueue \subseteq Requests /\ analyzeReadOnly \in BOOLEAN
  /\ toWriteQueue \in Seq(Requests) /\ writeReadOnly \in BOOLEAN
  /\ printed \in [Requests -> Nat] /\ writeThread \in {"run", "exited"}
  /\ at \in [Bots -> Places] /\ has \in [Bots -> 0..MaxRequests]
  /\ shouldStopNow \in [Bots -> BOOLEAN] /\ isKilled \in [Bots -> BOOLEAN]
  /\ botFocus \in [Bots -> Focuses] /\ hasResult \in [Bots -> BOOLEAN]
  /\ api \in LoopPlaces /\ todo \subseteq (Requests \cup Bots)
  /\ prevStatus \in Statuses /\ newFocus \in Focuses

(* Final replies of a request, written or waiting to be. *)
Replies(r) == printed[r] + Cardinality({i \in 1..Len(toWriteQueue) : toWriteQueue[i] = r})

(* Every query is concluded by exactly one final reply, whether its search *)
(* ended, was terminated before, while or after it was popped, or ended    *)
(* without results: never two, and at the end of a patient shutdown every  *)
(* one is printed.  Until it is answered the request is in openRequests,   *)
(* where a termination finds it.                                           *)
ExactlyOneFinalReply ==
  /\ \A r \in Requests : Replies(r) <= 1
  /\ ~QuitWithoutWaiting =>
       /\ \A r \in 1..numRequests : Replies(r) = 1 \/ r \in openRequests
       /\ api = "done" => \A r \in 1..numRequests : printed[r] = 1

(* Nobody acts on a request that is gone.  It is deleted once, by the      *)
(* thread that popped it, while no other thread holds a pointer to it: not *)
(* the request loop, which finds it in openRequests, nor the queue, nor    *)
(* another thread.  And stopWithoutWait, which names a bot, not a request, *)
(* finds the bot still at that request: a search that will be stopped is   *)
(* one of a terminated request, or of a bot that shuts down.               *)
NoUseAfterDelete ==
  /\ deleted \cap (openRequests \cup toAnalyzeQueue) = {}
  /\ api \in {"terminate", "act", "setFocus", "focusBot", "enqueue"} => deleted \cap todo = {}
  /\ \A b \in Bots : has[b] # 0 =>
       has[b] \notin deleted \cup toAnalyzeQueue /\ \A c \in Bots \ {b} : has[c] # has[b]
StopHitsItsOwn ==
  \A b \in Bots : at[b] \in {"begin", "focus", "search"} /\ shouldStopNow[b] =>
    status[has[b]] = "TERMINATED" \/ api \notin {"read", "enqueue", "terminate", "act", "setFocus", "focusBot"}
NoActOnGoneRequest == NoUseAfterDelete /\ StopHitsItsOwn

(* A bot searches with the focus of its request, the one it came with or   *)
(* the one a set_focus gave it in the meantime: none is lost between the   *)
(* fields, the status and the bot.  A terminated request may miss one.     *)
FocusIsCurrent ==
  \A b \in Bots : at[b] = "search" /\ ~mutexHeld =>
    botFocus[b] = requestFocus[has[b]] \/ status[has[b]] = "TERMINATED"

(* A terminated request is answered although no search reaches its limit:  *)
(* the stop is not lost if it comes before the search begins.  Only a      *)
(* shutdown that does not wait may drop the answer.  (Again and again all  *)
(* terminated requests are answered: a status stays TERMINATED.)           *)
TerminatedIsAnswered ==
  []<>(\/ \A r \in Requests : status[r] = "TERMINATED" => printed[r] = 1
       \/ QuitWithoutWaiting /\ writeReadOnly)

(* The shutdown has begun and is not over. *)
Closing == api \in {"closeQueue", "stopBots", "killBots", "join", "joinWriter"}

(* With -quit-without-waiting the end of the input ends the program, also  *)
(* if no search reaches its limit and requests are still queued.  (The     *)
(* closing states lead only to "done", so to leave them is to end.)        *)
QuitEnds == []<>~Closing
=============================================================================
