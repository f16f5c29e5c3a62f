---------------------------- MODULE NNEvaluator ----------------------------
(***************************************************************************)
(* neuralnet/nneval.cpp: clients, the threads of searches, leave their     *)
(* positions in a queue; server threads take batches from it, evaluate     *)
(* them, and wake the clients.  A client whose leaf needs no network waits *)
(* for the end of somebody else's evaluation, so as not to run too fast.   *)
(* The owner starts the servers and kills them again, perhaps to start     *)
(* another number of them.                                                 *)
(*                                                                         *)
(* A critical section of bufferMutex, of a result buffer or of a slot of   *)
(* the cache is one step.  The query queue is the FifoQueue that           *)
(* ThreadSafeQueue implements.  What the network computes of a position is *)
(* represented by that position.                                           *)
(***************************************************************************)
EXTENDS Integers, Sequences, FiniteSets

CONSTANTS Clients,       \* threads that evaluate
          Servers,       \* server threads, of which some are started
          Positions,     \* positions, standing for their hashes as well
          Slots,         \* slots of the cache
          slotOf,        \* the slot of each position
          maxBatchSize

ASSUME ThreadsAssumption == IsFiniteSet(Clients) /\ IsFiniteSet(Servers)
ASSUME BatchAssumption == maxBatchSize \in Nat \ {0}
ASSUME SlotAssumption == slotOf \in [Positions -> Slots]

VARIABLES queryQueue, writable,
          isKilled, numServerThreadsStartingUp,
          numOngoingEvals, numWaitingEvals, numEvalsToAwaken,
          sleepers,    \* clients asleep on waitingForFinish
          client,      \* where each client is
          asked,       \* what its call asks: position, includeOwnerMap
          buf,         \* its result buffer: hasResult, result
          nnCacheTable,
          server,      \* where each server thread is
          batch, row,  \* the buffers it took, and how many it has answered
          owner        \* where the owner is
counters == <<numOngoingEvals, numWaitingEvals, numEvalsToAwaken, sleepers>>
clientVars == <<client, asked, buf, nnCacheTable>>
serverVars == <<server, batch, row>>
ownerVars == <<isKilled, owner>>
vars == <<queryQueue, writable, isKilled, numServerThreadsStartingUp, numOngoingEvals,
          numWaitingEvals, numEvalsToAwaken, sleepers, client, asked, buf, nnCacheTable,
          server, batch, row, owner>>

NoResult == [position |-> "none", ownerMap |-> FALSE]
NoQuery == [position |-> "none", includeOwnerMap |-> FALSE]

Init ==
  /\ queryQueue = <<>> /\ writable = FALSE
  /\ isKilled = FALSE /\ numServerThreadsStartingUp = 0
  /\ numOngoingEvals = 0 /\ numWaitingEvals = 0 /\ numEvalsToAwaken = 0
  /\ sleepers = {}
  /\ client = [c \in Clients |-> "idle"]
  /\ asked = [c \in Clients |-> NoQuery]
  /\ buf = [c \in Clients |-> [hasResult |-> FALSE, result |-> NoResult]]
  /\ nnCacheTable = [slot \in Slots |-> NoResult]
  /\ server = [s \in Servers |-> "off"]
  /\ batch = [s \in Servers |-> <<>>] /\ row = [s \in Servers |-> 0]
  /\ owner = "down"

Goes(c, pc) == client' = [client EXCEPT ![c] = pc]

-----------------------------------------------------------------------------
(* evaluate.  Clients call only while the servers are up. *)

(* The whole hash is compared, not only the slot. *)
(* Fault: any entry of the slot is taken for a hit. *)
Hit_SlotOnly(pos, own) ==
  LET entry == nnCacheTable[slotOf[pos]]
  IN  entry # NoResult /\ (own => entry.ownerMap)
Hit(pos, own) ==
  LET entry == nnCacheTable[slotOf[pos]]
  IN  entry.position = pos /\ (own => entry.ownerMap)

evaluate(c, pos, own, skipCache) ==
  /\ client[c] = "idle" /\ owner = "up"
  /\ asked' = [asked EXCEPT ![c] = [position |-> pos, includeOwnerMap |-> own]]
  /\ IF ~skipCache /\ Hit(pos, own)
     THEN /\ buf' = [buf EXCEPT ![c] = [hasResult |-> TRUE, result |-> nnCacheTable[slotOf[pos]]]]
          /\ Goes(c, "returned")
     ELSE /\ buf' = [buf EXCEPT ![c].hasResult = FALSE]
          /\ Goes(c, "counting")
  /\ UNCHANGED <<queryQueue, writable, numServerThreadsStartingUp, counters, nnCacheTable,
                 serverVars, ownerVars>>

CountEval(c) ==
  /\ client[c] = "counting"
  /\ numOngoingEvals' = numOngoingEvals + 1
  /\ Goes(c, "pushing")
  /\ UNCHANGED <<queryQueue, writable, numServerThreadsStartingUp, numWaitingEvals,
                 numEvalsToAwaken, sleepers, asked, buf, nnCacheTable, serverVars, ownerVars>>

(* The push must succeed: see EvaluationIsOwn. *)
PushQuery(c) ==
  /\ client[c] = "pushing" /\ writable
  /\ queryQueue' = Append(queryQueue, c)
  /\ Goes(c, "awaiting")
  /\ UNCHANGED <<writable, numServerThreadsStartingUp, counters, asked, buf, nnCacheTable,
                 serverVars, ownerVars>>

GetResult(c) ==
  /\ client[c] = "awaiting" /\ buf[c].hasResult
  /\ Goes(c, "recording")
  /\ UNCHANGED <<queryQueue, writable, numServerThreadsStartingUp, counters, asked, buf,
                 nnCacheTable, serverVars, ownerVars>>

RecordResult(c) ==
  /\ client[c] = "recording"
  /\ nnCacheTable' = [nnCacheTable EXCEPT ![slotOf[asked[c].position]] = buf[c].result]
  /\ Goes(c, "returned")
  /\ UNCHANGED <<queryQueue, writable, numServerThreadsStartingUp, counters, asked, buf,
                 serverVars, ownerVars>>

(* The caller moves the result out of the buffer. *)
MoveOut(c) ==
  /\ client[c] = "returned"
  /\ buf' = [buf EXCEPT ![c] = [hasResult |-> FALSE, result |-> NoResult]]
  /\ asked' = [asked EXCEPT ![c] = NoQuery]
  /\ Goes(c, "idle")
  /\ UNCHANGED <<queryQueue, writable, numServerThreadsStartingUp, counters, nnCacheTable,
                 serverVars, ownerVars>>

clearCache(slot) ==
  /\ nnCacheTable[slot] # NoResult
  /\ nnCacheTable' = [nnCacheTable EXCEPT ![slot] = NoResult]
  /\ UNCHANGED <<queryQueue, writable, numServerThreadsStartingUp, counters, client, asked, buf,
                 serverVars, ownerVars>>

-----------------------------------------------------------------------------
(* waitForNextNNEvalIfAny.  A waiter leaves with a token; it may be one    *)
(* that was meant for another waiter, which then waits for the next batch. *)

TestOfLoop(c) ==
  IF numEvalsToAwaken <= 0 /\ ~isKilled
  THEN /\ sleepers' = sleepers \cup {c}
       /\ Goes(c, "inWait")
       /\ UNCHANGED numEvalsToAwaken
  ELSE /\ numEvalsToAwaken' = numEvalsToAwaken - 1
       /\ Goes(c, "idle")
       /\ UNCHANGED sleepers

waitForNextNNEvalIfAny(c) ==
  /\ client[c] = "idle" /\ owner = "up"
  /\ numOngoingEvals > 0
  /\ numWaitingEvals' = numWaitingEvals + 1
  /\ TestOfLoop(c)
  /\ UNCHANGED <<queryQueue, writable, numServerThreadsStartingUp, numOngoingEvals, asked, buf,
                 nnCacheTable, serverVars, ownerVars>>

GoOnWaiting(c) ==
  /\ client[c] = "inWait" /\ c \notin sleepers
  /\ TestOfLoop(c)
  /\ UNCHANGED <<queryQueue, writable, numServerThreadsStartingUp, numOngoingEvals,
                 numWaitingEvals, asked, buf, nnCacheTable, serverVars, ownerVars>>

SpuriousWakeup(c) ==
  /\ c \in sleepers
  /\ sleepers' = sleepers \ {c}
  /\ UNCHANGED <<queryQueue, writable, numServerThreadsStartingUp, numOngoingEvals,
                 numWaitingEvals, numEvalsToAwaken, clientVars, serverVars, ownerVars>>

-----------------------------------------------------------------------------
(* serve *)

ReportStarted(s) ==
  /\ server[s] = "starting"
  /\ server' = [server EXCEPT ![s] = "looping"]
  /\ numServerThreadsStartingUp' = numServerThreadsStartingUp - 1
  /\ UNCHANGED <<queryQueue, writable, counters, clientVars, batch, row, ownerVars>>

(* At most n rows, maxRowsToSendPerBatch being set at any time. *)
TakeBatch(s, n) ==
  /\ server[s] = "looping" /\ queryQueue # <<>>
  /\ LET k == IF n < Len(queryQueue) THEN n ELSE Len(queryQueue)
     IN  /\ batch' = [batch EXCEPT ![s] = SubSeq(queryQueue, 1, k)]
         /\ queryQueue' = SubSeq(queryQueue, k + 1, Len(queryQueue))
  /\ server' = [server EXCEPT ![s] = "answering"]
  /\ UNCHANGED <<writable, numServerThreadsStartingUp, counters, clientVars, row, ownerVars>>

(* No batch, and the queue is read only: the thread is done. *)
LeaveLoop(s) ==
  /\ server[s] = "looping" /\ queryQueue = <<>> /\ ~writable
  /\ server' = [server EXCEPT ![s] = "done"]
  /\ UNCHANGED <<queryQueue, writable, numServerThreadsStartingUp, counters, clientVars,
                 batch, row, ownerVars>>

AnswerRow(s) ==
  /\ server[s] = "answering" /\ row[s] < Len(batch[s])
  /\ LET c == batch[s][row[s] + 1]
     IN  buf' = [buf EXCEPT ![c] =
           [hasResult |-> TRUE,
            result |-> [position |-> asked[c].position, ownerMap |-> asked[c].includeOwnerMap]]]
  /\ row' = [row EXCEPT ![s] = @ + 1]
  /\ UNCHANGED <<queryQueue, writable, numServerThreadsStartingUp, counters, client, asked,
                 nnCacheTable, server, batch, ownerVars>>

(* One token for everybody who waits. *)
(* Fault: they stay counted as waiting. *)
AwakenWaiters_KeepCount ==
  IF numWaitingEvals > 0
  THEN /\ numEvalsToAwaken' = numEvalsToAwaken + numWaitingEvals
       /\ sleepers' = {}
       /\ UNCHANGED numWaitingEvals
  ELSE UNCHANGED <<numEvalsToAwaken, numWaitingEvals, sleepers>>
(* Fault: one token for all of them. *)
AwakenWaiters_One ==
  IF numWaitingEvals > 0
  THEN /\ numEvalsToAwaken' = numEvalsToAwaken + 1
       /\ numWaitingEvals' = numWaitingEvals - 1
       /\ sleepers' = {}
  ELSE UNCHANGED <<numEvalsToAwaken, numWaitingEvals, sleepers>>
AwakenWaiters ==
  IF numWaitingEvals > 0
  THEN /\ numEvalsToAwaken' = numEvalsToAwaken + numWaitingEvals
       /\ numWaitingEvals' = 0
       /\ sleepers' = {}
  ELSE UNCHANGED <<numEvalsToAwaken, numWaitingEvals, sleepers>>

(* The clients that were answered may long have gone on, and asked again. *)
FinishBatch(s) ==
  /\ server[s] = "answering" /\ row[s] = Len(batch[s])
  /\ numOngoingEvals' = numOngoingEvals - Len(batch[s])
  /\ AwakenWaiters
  /\ server' = [server EXCEPT ![s] = "looping"]
  /\ batch' = [batch EXCEPT ![s] = <<>>] /\ row' = [row EXCEPT ![s] = 0]
  /\ UNCHANGED <<queryQueue, writable, numServerThreadsStartingUp, clientVars, ownerVars>>

-----------------------------------------------------------------------------
(* The owner: spawnServerThreads, and killServerThreads when no client is  *)
(* in a call (the searches have ended).                                    *)

AllIdle == \A c \in Clients : client[c] = "idle"

spawnServerThreads(started) ==
  /\ owner = "down"
  /\ writable' = TRUE
  /\ numServerThreadsStartingUp' = Cardinality(started)
  /\ server' = [s \in Servers |-> IF s \in started THEN "starting" ELSE "off"]
  /\ owner' = "spawning"
  /\ UNCHANGED <<queryQueue, isKilled, counters, clientVars, batch, row>>

ServersAreUp ==
  /\ owner = "spawning" /\ numServerThreadsStartingUp <= 0
  /\ owner' = "up"
  /\ UNCHANGED <<queryQueue, writable, isKilled, numServerThreadsStartingUp, counters, clientVars,
                 serverVars>>

killServerThreads ==
  /\ owner = "up" /\ AllIdle
  /\ isKilled' = TRUE
  /\ owner' = "killing"
  /\ UNCHANGED <<queryQueue, writable, numServerThreadsStartingUp, counters, clientVars, serverVars>>

SetQueueReadOnly ==
  /\ owner = "killing"
  /\ writable' = FALSE
  /\ owner' = "notifying"
  /\ UNCHANGED <<queryQueue, isKilled, numServerThreadsStartingUp, counters, clientVars, serverVars>>

NotifyKilled ==
  /\ owner = "notifying"
  /\ sleepers' = {}
  /\ owner' = "joining"
  /\ UNCHANGED <<queryQueue, writable, isKilled, numServerThreadsStartingUp, numOngoingEvals,
                 numWaitingEvals, numEvalsToAwaken, clientVars, serverVars>>

AllJoined == owner = "joining" /\ \A s \in Servers : server[s] \in {"off", "done"}
JoinServers ==
  /\ AllJoined
  /\ isKilled' = FALSE
  /\ server' = [s \in Servers |-> "off"]
  /\ owner' = "down"
  /\ UNCHANGED <<queryQueue, writable, numServerThreadsStartingUp, counters, clientVars, batch, row>>

-----------------------------------------------------------------------------

ClientStep(c) ==
  \/ CountEval(c) \/ PushQuery(c) \/ GetResult(c) \/ RecordResult(c) \/ MoveOut(c)
  \/ GoOnWaiting(c)
ServerStep(s) ==
  \/ ReportStarted(s) \/ LeaveLoop(s) \/ AnswerRow(s) \/ FinishBatch(s)
  \/ \E n \in 1 .. maxBatchSize : TakeBatch(s, n)
OwnerStep == ServersAreUp \/ SetQueueReadOnly \/ NotifyKilled \/ JoinServers

Next ==
  \/ \E c \in Clients :
       \/ \E pos \in Positions, own \in BOOLEAN, skipCache \in BOOLEAN :
            evaluate(c, pos, own, skipCache)
       \/ waitForNextNNEvalIfAny(c)
       \/ SpuriousWakeup(c)
       \/ ClientStep(c)
  \/ \E slot \in Slots : clearCache(slot)
  \/ \E s \in Servers : ServerStep(s)
  \/ \E started \in (SUBSET Servers) \ {{}} : spawnServerThreads(started)
  \/ killServerThreads
  \/ OwnerStep

Spec == Init /\ [][Next]_vars

(* The scheduler runs every thread that is inside a call, and the servers. *)
FairSpec ==
  /\ Spec
  /\ \A c \in Clients : WF_vars(ClientStep(c))
  /\ \A s \in Servers : WF_vars(ServerStep(s))
  /\ WF_vars(OwnerStep)

-----------------------------------------------------------------------------
(* Properties *)

Waiting == {c \in Clients : client[c] = "inWait"}

(* Types, for the proofs. *)
Results == [position : Positions \cup {"none"}, ownerMap : BOOLEAN]
Queries == [position : Positions \cup {"none"}, includeOwnerMap : BOOLEAN]
TypeOK ==
  /\ queryQueue \in Seq(Clients) /\ writable \in BOOLEAN
  /\ isKilled \in BOOLEAN /\ numServerThreadsStartingUp \in Int
  /\ numOngoingEvals \in Int /\ numWaitingEvals \in Nat /\ numEvalsToAwaken \in Int
  /\ sleepers \subseteq Waiting
  /\ client \in [Clients -> {"idle", "counting", "pushing", "awaiting", "recording", "returned",
                             "inWait"}]
  /\ asked \in [Clients -> Queries]
  /\ buf \in [Clients -> [hasResult : BOOLEAN, result : Results]]
  /\ nnCacheTable \in [Slots -> Results]
  /\ server \in [Servers -> {"off", "starting", "looping", "answering", "done"}]
  /\ batch \in [Servers -> Seq(Clients)] /\ row \in [Servers -> Nat]
  /\ owner \in {"down", "spawning", "up", "killing", "notifying", "joining"}

(* No waiter is forgotten: everybody in waitForNextNNEvalIfAny is counted  *)
(* as waiting or has a token, even if others take tokens meant for them;   *)
(* while one is only counted an evaluation is going on, whose end brings   *)
(* tokens; nobody sleeps beside a token; and nobody is left behind when    *)
(* the servers have been killed, as killServerThreads asserts.             *)
WaitersAreCounted ==
  /\ numWaitingEvals + numEvalsToAwaken = Cardinality(Waiting)
  /\ numWaitingEvals > 0 => numOngoingEvals > 0
  /\ sleepers # {} => numEvalsToAwaken = 0
  /\ AllJoined => numWaitingEvals = 0 /\ numEvalsToAwaken = 0

(* Where the query of c is: in the queue, or unanswered with a server. *)
QueuedAt(c) == {i \in DOMAIN queryQueue : queryQueue[i] = c}
TakenAt(c) ==
  UNION {{<<s, i>> : i \in {j \in DOMAIN batch[s] : j > row[s] /\ batch[s][j] = c}} : s \in Servers}

(* What numOngoingEvals counts besides the queue. *)
Pushing == {c \in Clients : client[c] = "pushing"}
Taken == UNION {{<<s, i>> : i \in DOMAIN batch[s]} : s \in Servers}

(* An evaluation is answered once, with the evaluation of the position     *)
(* that was asked and the owner map if that was asked, from the cache or a *)
(* server, whichever server or earlier query of any client filled it; a    *)
(* buffer is with one server or in the queue while it has no result        *)
(* (serve's assertion); a query can be pushed; and the count of            *)
(* evaluations is the true one, zero when the servers have been killed.    *)
EvaluationIsOwn ==
  /\ \A c \in Clients :
       /\ client[c] \in {"recording", "returned"} =>
            /\ buf[c].result.position = asked[c].position
            /\ asked[c].includeOwnerMap => buf[c].result.ownerMap
       /\ Cardinality(QueuedAt(c)) + Cardinality(TakenAt(c)) =
            IF client[c] = "awaiting" /\ ~buf[c].hasResult THEN 1 ELSE 0
       /\ client[c] = "pushing" => writable /\ ~isKilled
  /\ numOngoingEvals = Cardinality(Pushing) + Len(queryQueue) + Cardinality(Taken)
  /\ AllJoined => numOngoingEvals = 0

(* Every evaluation returns, whether a server computes it or the cache has *)
(* it, and every kill of the servers ends, whatever they are doing.  So    *)
(* does every wait, unless clients take tokens meant for the waiters for   *)
(* ever.                                                                   *)
TakesToken(c) == waitForNextNNEvalIfAny(c) /\ numEvalsToAwaken > 0
EveryCallReturns ==
  /\ \A c \in Clients :
       /\ client[c] \in {"counting", "pushing", "awaiting", "recording", "returned"}
            ~> client[c] = "idle"
       /\ \/ []<><<\E d \in Clients \ {c} : TakesToken(d)>>_vars
          \/ client[c] = "inWait" ~> client[c] = "idle"
  /\ owner = "killing" ~> owner = "down"

=============================================================================
