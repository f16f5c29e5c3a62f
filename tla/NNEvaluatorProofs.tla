------------------------- MODULE NNEvaluatorProofs -------------------------
(***************************************************************************)
(* Proofs about NNEvaluator, for any clients, servers, positions, cache    *)
(* and batch size: types, that no waiter is forgotten, and that every      *)
(* evaluation is answered once with its own result.                        *)
(***************************************************************************)
EXTENDS NNEvaluator, FiniteSetTheorems, SequenceTheorems, TLAPS

-----------------------------------------------------------------------------
(* Types *)

LEMMA TypeInit == Init => TypeOK
  <1> SUFFICES ASSUME Init PROVE TypeOK
    OBVIOUS
  <1> USE DEF Init
  <1>1. queryQueue \in Seq(Clients) /\ batch \in [Servers -> Seq(Clients)]
    BY EmptySeq
  <1>2. NoResult \in Results /\ NoQuery \in Queries
    BY DEF NoResult, NoQuery, Results, Queries
  <1>3. /\ asked \in [Clients -> Queries] /\ nnCacheTable \in [Slots -> Results]
        /\ buf \in [Clients -> [hasResult : BOOLEAN, result : Results]]
    BY <1>2
  <1>4. /\ client \in [Clients -> {"idle", "counting", "pushing", "awaiting", "recording",
                                  "returned", "inWait"}]
        /\ server \in [Servers -> {"off", "starting", "looping", "answering", "done"}]
        /\ row \in [Servers -> Nat]
    OBVIOUS
  <1>5. /\ writable \in BOOLEAN /\ isKilled \in BOOLEAN /\ sleepers \subseteq Waiting
        /\ owner \in {"down", "spawning", "up", "killing", "notifying", "joining"}
    OBVIOUS
  <1>6. /\ numServerThreadsStartingUp \in Int /\ numOngoingEvals \in Int
        /\ numWaitingEvals \in Nat /\ numEvalsToAwaken \in Int
    OBVIOUS
  <1> QED
    BY ONLY <1>1, <1>3, <1>4, <1>5, <1>6 DEF TypeOK

(* What a batch leaves in the queue, and what it takes. *)
LEMMA PartTyped ==
  ASSUME NEW S, NEW s \in Seq(S), NEW m \in 1 .. Len(s) + 1, NEW n \in 0 .. Len(s)
  PROVE  SubSeq(s, m, n) \in Seq(S)
  <1>1. \A i \in m .. n : s[i] \in S
    BY ElementOfSeq, LenProperties
  <1> QED
    BY <1>1, SubSeqProperties, LenProperties

(* A call keeps the types: evaluate and what follows it. *)
LEMMA TypeCall ==
  ASSUME TypeOK, NEW c \in Clients, NEW pos \in Positions, NEW own \in BOOLEAN,
         NEW skipCache \in BOOLEAN, evaluate(c, pos, own, skipCache)
  PROVE  TypeOK'
  <1> USE DEF TypeOK, Waiting, Goes, counters, clientVars, serverVars, ownerVars
  <1>1. nnCacheTable[slotOf[pos]] \in Results
    BY SlotAssumption
  <1>2. [position |-> pos, includeOwnerMap |-> own] \in Queries
    BY DEF Queries
  <1>3. buf' \in [Clients -> [hasResult : BOOLEAN, result : Results]]
    <2>1. CASE ~skipCache /\ Hit(pos, own)
      <3>1. buf' = [buf EXCEPT ![c] = [hasResult |-> TRUE, result |-> nnCacheTable[slotOf[pos]]]]
        BY <2>1, Zenon DEF evaluate
      <3> QED
        BY <1>1, <3>1
    <2>2. CASE ~(~skipCache /\ Hit(pos, own))
      <3>1. buf' = [buf EXCEPT ![c] = [buf[c] EXCEPT !.hasResult = FALSE]]
        BY <2>2, Zenon DEF evaluate
      <3>2. [buf[c] EXCEPT !.hasResult = FALSE] \in [hasResult : BOOLEAN, result : Results]
        OBVIOUS
      <3> QED
        BY <3>1, <3>2
    <2> QED
      BY <2>1, <2>2
  <1>4. asked' \in [Clients -> Queries]
    BY <1>2 DEF evaluate
  <1>5. client' \in [Clients -> {"idle", "counting", "pushing", "awaiting", "recording",
                                "returned", "inWait"}]
    BY DEF evaluate
  <1>6. sleepers' \subseteq Waiting'
    BY DEF evaluate
  <1>7. UNCHANGED <<queryQueue, writable, isKilled, numServerThreadsStartingUp, numOngoingEvals,
                      numWaitingEvals, numEvalsToAwaken, nnCacheTable, server, batch, row, owner>>
    BY DEF evaluate
  <1> QED
    BY <1>3, <1>4, <1>5, <1>6, <1>7

(* The test of the loop of waitForNextNNEvalIfAny, first or again. *)
LEMMA TypeTest ==
  ASSUME TypeOK, NEW c \in Clients, c \notin sleepers, TestOfLoop(c)
  PROVE  /\ client' \in [Clients -> {"idle", "counting", "pushing", "awaiting", "recording",
                                   "returned", "inWait"}]
         /\ sleepers' \subseteq Waiting' /\ numEvalsToAwaken' \in Int
  <1> USE DEF TypeOK, Waiting, Goes
  <1>1. CASE /\ sleepers' = sleepers \cup {c} /\ numEvalsToAwaken' = numEvalsToAwaken
             /\ client' = [client EXCEPT ![c] = "inWait"]
    BY <1>1
  <1>2. CASE /\ sleepers' = sleepers /\ numEvalsToAwaken' = numEvalsToAwaken - 1
             /\ client' = [client EXCEPT ![c] = "idle"]
    BY <1>2
  <1> QED
    BY <1>1, <1>2 DEF TestOfLoop

LEMMA TypeClient ==
  ASSUME TypeOK, NEW c \in Clients,
         waitForNextNNEvalIfAny(c) \/ SpuriousWakeup(c) \/ ClientStep(c)
  PROVE  TypeOK'
  <1> USE DEF TypeOK, Waiting, Goes, counters, clientVars, serverVars, ownerVars
  <1>1. CASE waitForNextNNEvalIfAny(c)
    <2>1. TestOfLoop(c) /\ c \notin sleepers
      BY <1>1 DEF waitForNextNNEvalIfAny
    <2>2. numWaitingEvals' \in Nat
      BY <1>1 DEF waitForNextNNEvalIfAny
    <2>3. UNCHANGED <<queryQueue, writable, isKilled, numServerThreadsStartingUp, numOngoingEvals,
                      asked, buf, nnCacheTable, server, batch, row, owner>>
      BY <1>1 DEF waitForNextNNEvalIfAny
    <2> QED
      BY <2>1, <2>2, <2>3, TypeTest
  <1>2. CASE SpuriousWakeup(c)
    BY <1>2 DEF SpuriousWakeup
  <1>3. CASE CountEval(c)
    BY <1>3 DEF CountEval
  <1>4. CASE PushQuery(c)
    BY <1>4, AppendProperties DEF PushQuery
  <1>5. CASE GetResult(c)
    BY <1>5 DEF GetResult
  <1>6. CASE RecordResult(c)
    BY <1>6 DEF RecordResult
  <1>7. CASE MoveOut(c)
    <2>1. NoResult \in Results /\ NoQuery \in Queries
      BY DEF NoResult, NoQuery, Results, Queries
    <2> QED
      BY <1>7, <2>1 DEF MoveOut
  <1>8. CASE GoOnWaiting(c)
    <2>1. TestOfLoop(c) /\ c \notin sleepers
      BY <1>8 DEF GoOnWaiting
    <2>2. UNCHANGED <<queryQueue, writable, isKilled, numServerThreadsStartingUp, numOngoingEvals,
                      numWaitingEvals, asked, buf, nnCacheTable, server, batch, row, owner>>
      BY <1>8 DEF GoOnWaiting
    <2> QED
      BY <2>1, <2>2, TypeTest
  <1> HIDE DEF TypeOK, Waiting, Goes, counters, clientVars, serverVars, ownerVars
  <1> QED
    BY <1>1, <1>2, <1>3, <1>4, <1>5, <1>6, <1>7, <1>8 DEF ClientStep

LEMMA TypeServer ==
  ASSUME TypeOK, NEW s \in Servers, ServerStep(s)
  PROVE  TypeOK'
  <1> USE DEF TypeOK, Waiting, counters, clientVars, serverVars, ownerVars
  <1>1. CASE ReportStarted(s)
    BY <1>1 DEF ReportStarted
  <1>2. CASE LeaveLoop(s)
    BY <1>2 DEF LeaveLoop
  <1>3. CASE AnswerRow(s)
    <2> DEFINE c == batch[s][row[s] + 1]
    <2>1. batch[s] \in Seq(Clients) /\ row[s] + 1 \in 1 .. Len(batch[s])
      BY <1>3, LenProperties DEF AnswerRow
    <2>2. c \in Clients
      BY <2>1, ElementOfSeq
    <2>3. [position |-> asked[c].position, ownerMap |-> asked[c].includeOwnerMap] \in Results
      BY <2>2 DEF Results, Queries
    <2> QED
      BY <1>3, <2>2, <2>3 DEF AnswerRow
  <1>4. CASE FinishBatch(s)
    <2>1. Len(batch[s]) \in Int
      BY LenProperties
    <2> QED
      BY <1>4, <2>1 DEF FinishBatch, AwakenWaiters
  <1>5. ASSUME NEW n \in 1 .. maxBatchSize, TakeBatch(s, n)
        PROVE  TypeOK'
    <2> DEFINE k == IF n < Len(queryQueue) THEN n ELSE Len(queryQueue)
    <2>1. Len(queryQueue) \in Nat /\ k \in 0 .. Len(queryQueue)
      BY LenProperties, BatchAssumption
    <2>2. SubSeq(queryQueue, 1, k) \in Seq(Clients)
      BY <2>1, PartTyped
    <2>3. SubSeq(queryQueue, k + 1, Len(queryQueue)) \in Seq(Clients)
      BY <2>1, PartTyped
    <2> HIDE DEF k
    <2>4. /\ batch' = [batch EXCEPT ![s] = SubSeq(queryQueue, 1, k)]
          /\ queryQueue' = SubSeq(queryQueue, k + 1, Len(queryQueue))
      BY <1>5 DEF TakeBatch, k
    <2> QED
      BY <1>5, <2>2, <2>3, <2>4 DEF TakeBatch
  <1> QED
    BY <1>1, <1>2, <1>3, <1>4, <1>5 DEF ServerStep

LEMMA TypeOwner ==
  ASSUME TypeOK,
         \/ \E slot \in Slots : clearCache(slot)
         \/ \E started \in (SUBSET Servers) \ {{}} : spawnServerThreads(started)
         \/ killServerThreads \/ OwnerStep
  PROVE  TypeOK'
  <1> USE DEF TypeOK, Waiting, counters, clientVars, serverVars, ownerVars
  <1>1. ASSUME NEW slot \in Slots, clearCache(slot)
        PROVE  TypeOK'
    BY <1>1 DEF clearCache, NoResult, Results
  <1>2. ASSUME NEW started \in (SUBSET Servers) \ {{}}, spawnServerThreads(started)
        PROVE  TypeOK'
    <2>1. Cardinality(started) \in Int
      BY ThreadsAssumption, FS_Subset, FS_CardinalityType
    <2> QED
      BY <1>2, <2>1 DEF spawnServerThreads
  <1>3. CASE killServerThreads
    BY <1>3 DEF killServerThreads
  <1>4. CASE ServersAreUp
    BY <1>4 DEF ServersAreUp
  <1>5. CASE SetQueueReadOnly
    BY <1>5 DEF SetQueueReadOnly
  <1>6. CASE NotifyKilled
    BY <1>6 DEF NotifyKilled
  <1>7. CASE JoinServers
    BY <1>7 DEF JoinServers
  <1> QED
    BY <1>1, <1>2, <1>3, <1>4, <1>5, <1>6, <1>7 DEF OwnerStep

LEMMA TypeStep == TypeOK /\ [Next]_vars => TypeOK'
  <1> SUFFICES ASSUME TypeOK, [Next]_vars PROVE TypeOK'
    OBVIOUS
  <1>1. CASE Next
    BY <1>1, TypeCall, TypeClient, TypeServer, TypeOwner DEF Next
  <1>2. CASE UNCHANGED vars
    BY <1>2 DEF vars, TypeOK, Waiting
  <1> QED
    BY <1>1, <1>2

(* The variables keep their types: buffers, batches and the queue hold     *)
(* only clients and results.                                               *)
THEOREM NNTypeCorrect == Spec => []TypeOK
  BY TypeInit, TypeStep, PTL DEF Spec

-----------------------------------------------------------------------------
(* Waiters *)

LEMMA WaitingIsFinite == IsFiniteSet(Waiting) /\ Cardinality(Waiting) \in Nat
  <1>1. Waiting \in SUBSET Clients
    BY DEF Waiting
  <1> QED
    BY <1>1, ThreadsAssumption, FS_Subset, FS_CardinalityType

LEMMA WaiterJoins ==
  ASSUME TypeOK, NEW c \in Clients, client[c] # "inWait",
         client' = [client EXCEPT ![c] = "inWait"]
  PROVE  Cardinality(Waiting') = Cardinality(Waiting) + 1
  <1>1. Waiting' = Waiting \cup {c} /\ c \notin Waiting
    BY DEF TypeOK, Waiting
  <1> QED
    BY <1>1, WaitingIsFinite, FS_AddElement

LEMMA WaiterStays ==
  ASSUME TypeOK, NEW c \in Clients, NEW pc, client' = [client EXCEPT ![c] = pc],
         client[c] = "inWait" <=> pc = "inWait"
  PROVE  Waiting' = Waiting
  BY DEF TypeOK, Waiting

LEMMA WaiterLeaves ==
  ASSUME TypeOK, NEW c \in Clients, client[c] = "inWait",
         client' = [client EXCEPT ![c] = "idle"]
  PROVE  Cardinality(Waiting') = Cardinality(Waiting) - 1
  <1>1. Waiting' = Waiting \ {c} /\ c \in Waiting
    BY DEF TypeOK, Waiting
  <1> QED
    BY <1>1, WaitingIsFinite, FS_RemoveElement

(* The inductive invariant.  The count alone is not preserved: a waiter    *)
(* that a kill lets go takes a token that is not there.  So it needs that  *)
(* the servers are killed only when no client is in a call; and that a     *)
(* waiter who is only counted has an evaluation before it.                 *)
Counted ==
  /\ numEvalsToAwaken >= 0
  /\ numWaitingEvals + numEvalsToAwaken = Cardinality(Waiting)
  /\ numWaitingEvals > 0 => numOngoingEvals > 0
  /\ sleepers # {} => numEvalsToAwaken = 0
KilledWhenIdle ==
  /\ isKilled => owner \in {"killing", "notifying", "joining"}
  /\ owner # "up" => AllIdle
WaitersInv == Counted /\ KilledWhenIdle

LEMMA NobodyWaits ==
  ASSUME TypeOK, Counted, AllIdle
  PROVE  numWaitingEvals = 0 /\ numEvalsToAwaken = 0
  <1>1. Waiting = {}
    BY DEF Waiting, AllIdle
  <1>2. Cardinality(Waiting) = 0
    BY <1>1, FS_EmptySet
  <1> QED
    BY <1>2 DEF TypeOK, Counted

LEMMA WaitersInvImplies == TypeOK /\ WaitersInv => WaitersAreCounted
  <1> SUFFICES ASSUME TypeOK, WaitersInv PROVE WaitersAreCounted
    OBVIOUS
  <1>1. AllJoined => AllIdle
    BY DEF AllJoined, WaitersInv, KilledWhenIdle
  <1> QED
    BY <1>1, NobodyWaits DEF WaitersInv, Counted, WaitersAreCounted

LEMMA WaitersInit == Init => WaitersInv
  <1> SUFFICES ASSUME Init PROVE WaitersInv
    OBVIOUS
  <1>1. Waiting = {}
    BY DEF Init, Waiting
  <1>2. Cardinality(Waiting) = 0
    BY <1>1, FS_EmptySet
  <1>3. Counted
    BY <1>2 DEF Init, Counted
  <1>4. KilledWhenIdle
    BY DEF Init, KilledWhenIdle, AllIdle
  <1> QED
    BY <1>3, <1>4 DEF WaitersInv

(* A client that is in a call: the servers are up and not killed. *)
LEMMA BusyWhileUp ==
  ASSUME KilledWhenIdle, NEW c \in Clients, client[c] # "idle"
  PROVE  owner = "up" /\ ~isKilled
  BY DEF KilledWhenIdle, AllIdle

(* What changes neither the waiters nor their counts. *)
LEMMA CountedKept ==
  ASSUME TypeOK, Counted, Waiting' = Waiting, sleepers' \subseteq sleepers,
         UNCHANGED <<numWaitingEvals, numEvalsToAwaken>>,
         numOngoingEvals' \in {numOngoingEvals, numOngoingEvals + 1}
  PROVE  Counted'
  BY DEF TypeOK, Counted

(* The test of the loop: a new waiter sleeps, an old one goes back to      *)
(* sleep, or one leaves with a token.                                      *)
LEMMA CountedTest ==
  ASSUME TypeOK, Counted, ~isKilled, numOngoingEvals' = numOngoingEvals,
         NEW c \in Clients, TestOfLoop(c),
         \/ client[c] = "idle" /\ numOngoingEvals > 0 /\ numWaitingEvals' = numWaitingEvals + 1
         \/ client[c] = "inWait" /\ numWaitingEvals' = numWaitingEvals
  PROVE  Counted'
  <1>1. Cardinality(Waiting) \in Nat
    BY WaitingIsFinite
  <1>2. CASE numEvalsToAwaken <= 0
    <2>1. /\ sleepers' = sleepers \cup {c} /\ numEvalsToAwaken' = numEvalsToAwaken
          /\ client' = [client EXCEPT ![c] = "inWait"] /\ numEvalsToAwaken = 0
      BY <1>2 DEF TestOfLoop, Goes, Counted, TypeOK
    <2>2. CASE client[c] = "idle"
      <3>1. Cardinality(Waiting') = Cardinality(Waiting) + 1
        BY <2>1, <2>2, WaiterJoins
      <3>2. numWaitingEvals' = numWaitingEvals + 1 /\ numOngoingEvals > 0
        BY <2>2
      <3> QED
        BY <1>1, <2>1, <3>1, <3>2 DEF Counted, TypeOK
    <2>3. CASE client[c] = "inWait"
      <3>1. Waiting' = Waiting
        BY <2>1, <2>3, WaiterStays
      <3> QED
        BY <2>1, <2>3, <3>1 DEF Counted, TypeOK
    <2> QED
      BY <2>2, <2>3
  <1>3. CASE numEvalsToAwaken > 0
    <2>1. /\ sleepers' = sleepers /\ numEvalsToAwaken' = numEvalsToAwaken - 1
          /\ client' = [client EXCEPT ![c] = "idle"] /\ sleepers = {}
      BY <1>3 DEF TestOfLoop, Goes, Counted, TypeOK
    <2>2. CASE client[c] = "idle"
      <3>1. Waiting' = Waiting
        BY <2>1, <2>2, WaiterStays
      <3> QED
        BY <1>3, <2>1, <2>2, <3>1 DEF Counted, TypeOK
    <2>3. CASE client[c] = "inWait"
      <3>1. Cardinality(Waiting') = Cardinality(Waiting) - 1
        BY <2>1, <2>3, WaiterLeaves
      <3>2. numWaitingEvals' = numWaitingEvals
        BY <2>3
      <3> QED
        BY <1>1, <1>3, <2>1, <3>1, <3>2 DEF Counted, TypeOK
    <2> QED
      BY <2>2, <2>3
  <1> QED
    BY <1>2, <1>3 DEF TypeOK

(* A step of a client: it begins a call only while the servers are up, and *)
(* is in one only then.                                                    *)
LEMMA WaitersCall ==
  ASSUME TypeOK, WaitersInv, NEW c \in Clients, NEW pos \in Positions, NEW own \in BOOLEAN,
         NEW skipCache \in BOOLEAN, evaluate(c, pos, own, skipCache)
  PROVE  WaitersInv'
  <1>1. PICK pc \in {"returned", "counting"} : client' = [client EXCEPT ![c] = pc]
    BY DEF evaluate, Goes
  <1>2. Waiting' = Waiting
    BY <1>1, WaiterStays DEF evaluate
  <1>3. Counted'
    BY <1>2, CountedKept DEF evaluate, counters, WaitersInv
  <1>4. KilledWhenIdle'
    BY DEF evaluate, ownerVars, WaitersInv, KilledWhenIdle
  <1> QED
    BY <1>3, <1>4 DEF WaitersInv

LEMMA WaitersClient ==
  ASSUME TypeOK, WaitersInv, NEW c \in Clients,
         waitForNextNNEvalIfAny(c) \/ SpuriousWakeup(c) \/ ClientStep(c)
  PROVE  WaitersInv'
  <1> USE DEF WaitersInv
  <1>1. CASE waitForNextNNEvalIfAny(c)
    <2>1. owner = "up" /\ owner' = owner /\ isKilled' = isKilled /\ ~isKilled
      BY <1>1 DEF waitForNextNNEvalIfAny, ownerVars, KilledWhenIdle
    <2>2. Counted'
      BY <1>1, <2>1, CountedTest DEF waitForNextNNEvalIfAny
    <2> QED
      BY <2>1, <2>2 DEF KilledWhenIdle
  <1>2. CASE SpuriousWakeup(c)
    <2>1. Counted'
      BY <1>2, CountedKept DEF SpuriousWakeup, clientVars, Waiting
    <2> QED
      BY <1>2, <2>1 DEF SpuriousWakeup, clientVars, ownerVars, KilledWhenIdle, AllIdle
  <1>3. ASSUME CountEval(c) \/ PushQuery(c) \/ GetResult(c) \/ RecordResult(c) \/ MoveOut(c)
        PROVE  WaitersInv'
    <2>1. PICK pc \in {"pushing", "awaiting", "recording", "returned", "idle"} :
            client' = [client EXCEPT ![c] = pc]
      BY <1>3 DEF CountEval, PushQuery, GetResult, RecordResult, MoveOut, Goes
    <2>2. client[c] \notin {"idle", "inWait"}
      BY <1>3 DEF CountEval, PushQuery, GetResult, RecordResult, MoveOut
    <2>3. Waiting' = Waiting
      BY <2>1, <2>2, WaiterStays
    <2>4. /\ UNCHANGED <<numWaitingEvals, numEvalsToAwaken, sleepers, isKilled, owner>>
          /\ numOngoingEvals' \in {numOngoingEvals, numOngoingEvals + 1}
      BY <1>3 DEF CountEval, PushQuery, GetResult, RecordResult, MoveOut, counters, ownerVars
    <2>5. Counted'
      BY <2>3, <2>4, CountedKept
    <2>6. owner = "up" /\ ~isKilled
      BY <2>2, BusyWhileUp
    <2> QED
      BY <2>4, <2>5, <2>6 DEF KilledWhenIdle
  <1>4. CASE GoOnWaiting(c)
    <2>1. owner = "up" /\ ~isKilled /\ owner' = owner /\ isKilled' = isKilled
      BY <1>4, BusyWhileUp DEF GoOnWaiting, ownerVars
    <2>2. Counted'
      BY <1>4, <2>1, CountedTest DEF GoOnWaiting
    <2> QED
      BY <2>1, <2>2 DEF KilledWhenIdle
  <1> QED
    BY <1>1, <1>2, <1>3, <1>4 DEF ClientStep

(* Only the end of a batch turns counts into tokens; then there are none   *)
(* left that are only counted, however many evaluations still go on.       *)
LEMMA WaitersServer ==
  ASSUME TypeOK, WaitersInv, NEW s \in Servers, ServerStep(s)
  PROVE  WaitersInv'
  <1> USE DEF WaitersInv
  <1>1. UNCHANGED <<client, isKilled, owner>>
    BY DEF ServerStep, ReportStarted, LeaveLoop, AnswerRow, FinishBatch, TakeBatch,
           clientVars, ownerVars
  <1>2. Waiting' = Waiting /\ KilledWhenIdle'
    BY <1>1 DEF Waiting, KilledWhenIdle, AllIdle
  <1>3. CASE FinishBatch(s)
    <2>1. CASE numWaitingEvals > 0
      BY <1>2, <1>3, <2>1, WaitingIsFinite DEF FinishBatch, AwakenWaiters, Counted, TypeOK
    <2>2. CASE ~(numWaitingEvals > 0)
      BY <1>2, <1>3, <2>2 DEF FinishBatch, AwakenWaiters, Counted, TypeOK
    <2> QED
      BY <1>2, <2>1, <2>2
  <1>4. CASE ~FinishBatch(s)
    <2>1. UNCHANGED counters
      BY <1>4 DEF ServerStep, ReportStarted, LeaveLoop, AnswerRow, TakeBatch, counters
    <2> QED
      BY <1>2, <2>1, CountedKept DEF counters
  <1> QED
    BY <1>3, <1>4

(* The owner kills only when no client is in a call. *)
LEMMA WaitersOwner ==
  ASSUME TypeOK, WaitersInv,
         \/ \E slot \in Slots : clearCache(slot)
         \/ \E started \in (SUBSET Servers) \ {{}} : spawnServerThreads(started)
         \/ killServerThreads \/ OwnerStep
  PROVE  WaitersInv'
  <1> USE DEF WaitersInv
  <1>1. client' = client
    BY DEF clearCache, spawnServerThreads, killServerThreads, OwnerStep, ServersAreUp,
           SetQueueReadOnly, NotifyKilled, JoinServers, clientVars
  <1>2. /\ sleepers' \subseteq sleepers
        /\ UNCHANGED <<numOngoingEvals, numWaitingEvals, numEvalsToAwaken>>
    BY DEF clearCache, spawnServerThreads, killServerThreads, OwnerStep, ServersAreUp,
           SetQueueReadOnly, NotifyKilled, JoinServers, counters
  <1>3. Counted'
    BY <1>1, <1>2, CountedKept DEF Waiting
  <1>4. AllIdle' <=> AllIdle
    BY <1>1 DEF AllIdle
  <1>5. KilledWhenIdle'
    <2>1. CASE \E slot \in Slots : clearCache(slot)
      BY <1>4, <2>1 DEF clearCache, ownerVars, KilledWhenIdle
    <2>2. CASE \E started \in (SUBSET Servers) \ {{}} : spawnServerThreads(started)
      BY <1>4, <2>2 DEF spawnServerThreads, KilledWhenIdle
    <2>3. CASE killServerThreads
      BY <1>4, <2>3 DEF killServerThreads, KilledWhenIdle
    <2>4. CASE OwnerStep
      BY <1>4, <2>4 DEF OwnerStep, ServersAreUp, SetQueueReadOnly, NotifyKilled, JoinServers,
                        AllJoined, KilledWhenIdle
    <2> QED
      BY <2>1, <2>2, <2>3, <2>4
  <1> QED
    BY <1>3, <1>5

LEMMA WaitersStep == TypeOK /\ WaitersInv /\ [Next]_vars => WaitersInv'
  <1> SUFFICES ASSUME TypeOK, WaitersInv, [Next]_vars PROVE WaitersInv'
    OBVIOUS
  <1>1. CASE Next
    BY <1>1, WaitersCall, WaitersClient, WaitersServer, WaitersOwner DEF Next
  <1>2. CASE UNCHANGED vars
    BY <1>2 DEF vars, WaitersInv, Counted, KilledWhenIdle, AllIdle, Waiting
  <1> QED
    BY <1>1, <1>2

(* No waiter of waitForNextNNEvalIfAny is forgotten, however many clients  *)
(* and servers there are, whatever tokens are taken by others: everybody   *)
(* who waits is counted or has a token, an evaluation is going on while    *)
(* one is only counted, and a kill leaves nobody behind.                   *)
THEOREM WaitersCounted == Spec => []WaitersAreCounted
  BY NNTypeCorrect, WaitersInit, WaitersStep, WaitersInvImplies, PTL DEF Spec

-----------------------------------------------------------------------------
(* Evaluations *)

Pending(c) == client[c] = "awaiting" /\ ~buf[c].hasResult
Unanswered(s) == {j \in DOMAIN batch[s] : j > row[s]}

(* The result in the buffer of c is that of its call. *)
Own(c) ==
  /\ buf[c].result.position = asked[c].position
  /\ asked[c].includeOwnerMap => buf[c].result.ownerMap

(* The inductive invariant.  The places of a query are given one by one:   *)
(* the queue and the unanswered rows hold pending queries, each once, and  *)
(* a pending query is in one of them.  A server holds rows only while it   *)
(* answers, and no server is left when the owner starts new ones.          *)
ResultsOwn ==
  \A c \in Clients :
    /\ client[c] \in {"recording", "returned"} => Own(c)
    /\ client[c] = "awaiting" /\ buf[c].hasResult => Own(c)
    /\ client[c] \in {"counting", "pushing"} => ~buf[c].hasResult
InQueueOnce ==
  /\ \A i \in DOMAIN queryQueue : Pending(queryQueue[i])
  /\ \A i, j \in DOMAIN queryQueue : queryQueue[i] = queryQueue[j] => i = j
TakenOnce ==
  /\ \A s \in Servers : \A i \in Unanswered(s) : Pending(batch[s][i])
  /\ \A s, t \in Servers : \A i \in Unanswered(s), j \in Unanswered(t) :
       batch[s][i] = batch[t][j] => s = t /\ i = j
QueuedOrTaken ==
  /\ \A s \in Servers : \A i \in DOMAIN queryQueue, j \in Unanswered(s) :
       batch[s][j] # queryQueue[i]
  /\ \A c \in Clients : Pending(c) =>
       \/ \E i \in DOMAIN queryQueue : queryQueue[i] = c
       \/ \E s \in Servers : \E j \in Unanswered(s) : batch[s][j] = c
ServersInv ==
  /\ \A s \in Servers :
       /\ row[s] <= Len(batch[s])
       /\ server[s] # "answering" => batch[s] = <<>>
       /\ owner = "down" => server[s] = "off"
  /\ owner \in {"spawning", "up", "killing"} => writable
EvalsCounted == numOngoingEvals = Cardinality(Pushing) + Len(queryQueue) + Cardinality(Taken)
PlacesInv == InQueueOnce /\ TakenOnce /\ QueuedOrTaken
EvalsInv == ResultsOwn /\ PlacesInv /\ ServersInv /\ EvalsCounted

LEMMA TakenAtMembers ==
  ASSUME NEW c, NEW p
  PROVE  p \in TakenAt(c) <=>
           \E s \in Servers : \E i \in Unanswered(s) : p = <<s, i>> /\ batch[s][i] = c
  BY DEF TakenAt, Unanswered

(* A query that has a place has one place. *)
LEMMA OnePlace ==
  ASSUME TypeOK, PlacesInv, NEW c \in Clients
  PROVE  Cardinality(QueuedAt(c)) + Cardinality(TakenAt(c)) = IF Pending(c) THEN 1 ELSE 0
  <1> USE DEF PlacesInv, InQueueOnce, TakenOnce, QueuedOrTaken
  <1>1. CASE ~Pending(c)
    <2>1. QueuedAt(c) = {}
      BY <1>1 DEF QueuedAt
    <2>2. TakenAt(c) = {}
      BY <1>1, TakenAtMembers
    <2> QED
      BY <1>1, <2>1, <2>2, FS_EmptySet
  <1>2. ASSUME Pending(c), NEW i \in DOMAIN queryQueue, queryQueue[i] = c
        PROVE  Cardinality(QueuedAt(c)) + Cardinality(TakenAt(c)) = 1
    <2>1. QueuedAt(c) = {i}
      BY <1>2 DEF QueuedAt
    <2>2. TakenAt(c) = {}
      BY <1>2, TakenAtMembers
    <2>3. Cardinality(QueuedAt(c)) = 1
      BY <2>1, FS_Singleton
    <2>4. Cardinality(TakenAt(c)) = 0
      BY <2>2, FS_EmptySet
    <2> QED
      BY <2>3, <2>4
  <1>3. ASSUME Pending(c), NEW s \in Servers, NEW j \in Unanswered(s), batch[s][j] = c
        PROVE  Cardinality(QueuedAt(c)) + Cardinality(TakenAt(c)) = 1
    <2>1. QueuedAt(c) = {}
      BY <1>3 DEF QueuedAt
    <2>2. <<s, j>> \in TakenAt(c)
      BY <1>3, TakenAtMembers
    <2>3. \A p \in TakenAt(c) : p = <<s, j>>
      BY <1>3, TakenAtMembers
    <2>4. TakenAt(c) = {<<s, j>>}
      BY <2>2, <2>3
    <2>5. Cardinality(QueuedAt(c)) = 0
      BY <2>1, FS_EmptySet
    <2>6. Cardinality(TakenAt(c)) = 1
      BY <2>4, FS_Singleton
    <2> QED
      BY <2>5, <2>6
  <1> QED
    BY <1>1, <1>2, <1>3

LEMMA PushingIsFinite == IsFiniteSet(Pushing) /\ Cardinality(Pushing) \in Nat
  <1>1. Pushing \in SUBSET Clients
    BY DEF Pushing
  <1> QED
    BY <1>1, ThreadsAssumption, FS_Subset, FS_CardinalityType

(* The rows of a batch of k. *)
LEMMA RowsAreFinite ==
  ASSUME NEW s, NEW k \in Nat
  PROVE  IsFiniteSet({s} \X (1 .. k)) /\ Cardinality({s} \X (1 .. k)) = k
  <1>1. IsFiniteSet(1 .. k) /\ Cardinality(1 .. k) = k
    BY FS_Interval
  <1>2. IsFiniteSet({s}) /\ Cardinality({s}) = 1
    BY FS_Singleton
  <1>3. Cardinality({s} \X (1 .. k)) = Cardinality({s}) * Cardinality(1 .. k)
    BY <1>1, <1>2, FS_Product
  <1> QED
    BY <1>1, <1>2, <1>3, FS_Product

LEMMA TakenMembers ==
  ASSUME NEW p
  PROVE  p \in Taken <=> \E s \in Servers : \E i \in DOMAIN batch[s] : p = <<s, i>>
  BY DEF Taken

LEMMA TakenIsFinite ==
  ASSUME TypeOK
  PROVE  IsFiniteSet(Taken) /\ Cardinality(Taken) \in Nat
  <1>1. \A s \in Servers : Len(batch[s]) \in Nat
    BY LenProperties DEF TypeOK
  <1> DEFINE S == {{s} \X (1 .. Len(batch[s])) : s \in Servers}
  <1> DEFINE rows == [s \in Servers |-> {s} \X (1 .. Len(batch[s]))]
  <1>2. rows \in Surjection(Servers, S)
    BY DEF Surjection
  <1>3. IsFiniteSet(S)
    <2> HIDE DEF S, rows
    <2>1. IsFiniteSet(Servers)
      BY ThreadsAssumption
    <2>2. \A f \in Surjection(Servers, S) : IsFiniteSet(S)
      BY <2>1, FS_Surjection
    <2> QED
      BY <1>2, <2>2, Zenon
  <1>4. \A T \in S : IsFiniteSet(T)
    <2>1. \A s \in Servers : IsFiniteSet({s} \X (1 .. Len(batch[s])))
      BY <1>1, RowsAreFinite
    <2> QED
      BY <2>1, Zenon
  <1>5. IsFiniteSet(UNION S)
    BY <1>3, <1>4, FS_UNION
  <1>6. \A s \in Servers : DOMAIN batch[s] = 1 .. Len(batch[s])
    BY LenProperties DEF TypeOK
  <1>7. ASSUME NEW p \in Taken PROVE p \in UNION S
    BY <1>6, <1>7, TakenMembers
  <1>8. Taken \in SUBSET UNION S
    BY <1>7
  <1> QED
    BY <1>5, <1>8, FS_Subset, FS_CardinalityType

LEMMA EvalsInit == Init => EvalsInv
  <1> SUFFICES ASSUME Init PROVE EvalsInv
    OBVIOUS
  <1>1. ResultsOwn
    BY DEF Init, ResultsOwn
  <1>2. PlacesInv
    BY DEF Init, PlacesInv, InQueueOnce, TakenOnce, QueuedOrTaken, Unanswered, Pending
  <1>3. ServersInv
    <2>1. \A s \in Servers : batch[s] = <<>> /\ Len(batch[s]) = 0 /\ row[s] = 0
      BY DEF Init
    <2> QED
      BY <2>1 DEF Init, ServersInv
  <1>4. EvalsCounted
    <2>1. Cardinality(Pushing) = 0
      <3>1. Pushing = {}
        BY DEF Init, Pushing
      <3> QED
        BY <3>1, FS_EmptySet
    <2>2. Cardinality(Taken) = 0
      <3>1. Taken = {}
        BY TakenMembers DEF Init
      <3> QED
        BY <3>1, FS_EmptySet
    <2>3. Len(queryQueue) = 0 /\ numOngoingEvals = 0
      BY DEF Init
    <2> QED
      BY <2>1, <2>2, <2>3 DEF EvalsCounted
  <1> QED
    BY <1>1, <1>2, <1>3, <1>4 DEF EvalsInv

LEMMA NobodyAsks ==
  ASSUME TypeOK, EvalsInv, AllIdle, \A s \in Servers : server[s] # "answering"
  PROVE  numOngoingEvals = 0
  <1>1. Cardinality(Pushing) = 0
    <2>1. Pushing = {}
      BY DEF Pushing, AllIdle
    <2> QED
      BY <2>1, FS_EmptySet
  <1>2. Cardinality(Taken) = 0
    <2>1. \A s \in Servers : batch[s] = <<>>
      BY DEF EvalsInv, ServersInv
    <2>2. Taken = {}
      BY <2>1, TakenMembers
    <2> QED
      BY <2>2, FS_EmptySet
  <1>3. Len(queryQueue) = 0
    <2>1. \A i \in 1 .. Len(queryQueue) : Pending(queryQueue[i]) /\ queryQueue[i] \in Clients
      BY LenProperties, ElementOfSeq DEF TypeOK, EvalsInv, PlacesInv, InQueueOnce
    <2>2. \A i \in 1 .. Len(queryQueue) : FALSE
      BY <2>1 DEF Pending, AllIdle
    <2>3. Len(queryQueue) \in Nat
      BY LenProperties DEF TypeOK
    <2> QED
      BY <2>2, <2>3
  <1> QED
    BY <1>1, <1>2, <1>3 DEF EvalsInv, EvalsCounted

LEMMA EvalsInvImplies == TypeOK /\ WaitersInv /\ EvalsInv => EvaluationIsOwn
  <1> SUFFICES ASSUME TypeOK, WaitersInv, EvalsInv PROVE EvaluationIsOwn
    OBVIOUS
  <1>1. ASSUME NEW c \in Clients, client[c] \in {"recording", "returned"}
        PROVE  Own(c)
    BY <1>1 DEF EvalsInv, ResultsOwn
  <1>2. ASSUME NEW c \in Clients
        PROVE  Cardinality(QueuedAt(c)) + Cardinality(TakenAt(c)) = IF Pending(c) THEN 1 ELSE 0
    BY OnePlace DEF EvalsInv
  <1>3. ASSUME NEW c \in Clients, client[c] = "pushing"
        PROVE  writable /\ ~isKilled
    <2>1. owner = "up" /\ ~isKilled
      BY <1>3, BusyWhileUp DEF WaitersInv
    <2> QED
      BY <2>1 DEF EvalsInv, ServersInv
  <1>4. ASSUME AllJoined
        PROVE  numOngoingEvals = 0
    <2>1. AllIdle /\ \A s \in Servers : server[s] # "answering"
      BY <1>4 DEF AllJoined, WaitersInv, KilledWhenIdle
    <2> QED
      BY <2>1, NobodyAsks
  <1>5. EvalsCounted
    BY DEF EvalsInv
  <1> QED
    BY <1>1, <1>2, <1>3, <1>4, <1>5 DEF EvaluationIsOwn, Own, Pending, EvalsCounted

(* A step that touches neither the queue nor the batches, nor who is       *)
(* pending, keeps the places.                                              *)
LEMMA PlacesKept ==
  ASSUME TypeOK, PlacesInv, UNCHANGED <<queryQueue, batch, row>>,
         \A c \in Clients : Pending(c)' <=> Pending(c)
  PROVE  PlacesInv'
  <1>1. /\ \A i \in DOMAIN queryQueue : queryQueue[i] \in Clients
        /\ \A s \in Servers : \A i \in DOMAIN batch[s] : batch[s][i] \in Clients
    BY ElementOfSeq, LenProperties DEF TypeOK
  <1>2. \A s \in Servers : Unanswered(s)' = Unanswered(s) /\ Unanswered(s) \subseteq DOMAIN batch[s]
    BY DEF Unanswered
  <1> HIDE DEF Pending, Unanswered
  <1>3. InQueueOnce'
    BY <1>1 DEF PlacesInv, InQueueOnce
  <1>4. TakenOnce'
    BY <1>1, <1>2 DEF PlacesInv, TakenOnce
  <1>5. QueuedOrTaken'
    BY <1>1, <1>2 DEF PlacesInv, QueuedOrTaken
  <1> QED
    BY <1>3, <1>4, <1>5 DEF PlacesInv

LEMMA EvalsCountedKept ==
  ASSUME EvalsCounted, UNCHANGED <<queryQueue, batch, numOngoingEvals>>, Pushing' = Pushing
  PROVE  EvalsCounted'
  BY DEF EvalsCounted, Taken

LEMMA ServersKept ==
  ASSUME ServersInv, UNCHANGED <<server, batch, row, owner, writable>>
  PROVE  ServersInv'
  BY DEF ServersInv

(* A call, up to the push: it is not pending. *)
LEMMA EvalsCall ==
  ASSUME TypeOK, EvalsInv, NEW c \in Clients, NEW pos \in Positions, NEW own \in BOOLEAN,
         NEW skipCache \in BOOLEAN, evaluate(c, pos, own, skipCache)
  PROVE  EvalsInv'
  <1>1. /\ client[c] = "idle"
        /\ asked' = [asked EXCEPT ![c] = [position |-> pos, includeOwnerMap |-> own]]
        /\ UNCHANGED <<queryQueue, writable, numOngoingEvals, server, batch, row, owner>>
    BY DEF evaluate, counters, serverVars, ownerVars
  <1>2. CASE ~skipCache /\ Hit(pos, own)
    <2>1. /\ buf' = [buf EXCEPT ![c] = [hasResult |-> TRUE, result |-> nnCacheTable[slotOf[pos]]]]
          /\ client' = [client EXCEPT ![c] = "returned"]
      BY <1>2 DEF evaluate, Goes
    <2>2. Own(c)'
      BY <1>1, <1>2, <2>1 DEF Own, Hit, TypeOK
    <2>3. \A d \in Clients \ {c} : client'[d] = client[d] /\ buf'[d] = buf[d] /\ asked'[d] = asked[d]
      BY <1>1, <2>1 DEF TypeOK
    <2>4. client'[c] = "returned"
      BY <2>1 DEF TypeOK
    <2>5. ResultsOwn'
      BY <2>2, <2>3, <2>4 DEF EvalsInv, ResultsOwn, Own
    <2>6. \A d \in Clients : Pending(d)' <=> Pending(d)
      BY <1>1, <2>3, <2>4 DEF Pending
    <2>7. Pushing' = Pushing
      BY <1>1, <2>3, <2>4 DEF Pushing
    <2> QED
      BY <1>1, <2>5, <2>6, <2>7, PlacesKept, EvalsCountedKept, ServersKept DEF EvalsInv
  <1>3. CASE ~(~skipCache /\ Hit(pos, own))
    <2>1. /\ buf' = [buf EXCEPT ![c] = [buf[c] EXCEPT !.hasResult = FALSE]]
          /\ client' = [client EXCEPT ![c] = "counting"]
      BY <1>3, Zenon DEF evaluate, Goes
    <2>2. \A d \in Clients \ {c} : client'[d] = client[d] /\ buf'[d] = buf[d] /\ asked'[d] = asked[d]
      BY <1>1, <2>1 DEF TypeOK
    <2>3. client'[c] = "counting" /\ buf'[c].hasResult = FALSE
      BY <2>1 DEF TypeOK
    <2>4. ResultsOwn'
      BY <2>2, <2>3 DEF EvalsInv, ResultsOwn, Own
    <2>5. \A d \in Clients : Pending(d)' <=> Pending(d)
      BY <1>1, <2>2, <2>3 DEF Pending
    <2>6. Pushing' = Pushing
      BY <1>1, <2>2, <2>3 DEF Pushing
    <2> QED
      BY <1>1, <2>4, <2>5, <2>6, PlacesKept, EvalsCountedKept, ServersKept DEF EvalsInv
  <1> QED
    BY <1>2, <1>3

LEMMA EvalsCount ==
  ASSUME TypeOK, EvalsInv, NEW c \in Clients, CountEval(c)
  PROVE  EvalsInv'
  <1>1. /\ client[c] = "counting" /\ client' = [client EXCEPT ![c] = "pushing"]
        /\ numOngoingEvals' = numOngoingEvals + 1
        /\ UNCHANGED <<queryQueue, writable, asked, buf, server, batch, row, owner>>
    BY DEF CountEval, Goes, serverVars, ownerVars
  <1>2. client'[c] = "pushing" /\ \A d \in Clients \ {c} : client'[d] = client[d]
    BY <1>1 DEF TypeOK
  <1>3. ResultsOwn'
    BY <1>1, <1>2 DEF EvalsInv, ResultsOwn, Own
  <1>4. \A d \in Clients : Pending(d)' <=> Pending(d)
    BY <1>1, <1>2 DEF Pending
  <1>5. EvalsCounted'
    <2>1. Pushing' = Pushing \cup {c} /\ c \notin Pushing
      BY <1>1, <1>2 DEF Pushing
    <2>2. Cardinality(Pushing') = Cardinality(Pushing) + 1
      BY <2>1, PushingIsFinite, FS_AddElement
    <2>3. Taken' = Taken
      BY <1>1 DEF Taken
    <2>4. Cardinality(Taken) \in Nat /\ Len(queryQueue) \in Nat
      BY TakenIsFinite, LenProperties DEF TypeOK
    <2> QED
      BY <1>1, <2>2, <2>3, <2>4, PushingIsFinite DEF EvalsInv, EvalsCounted
  <1> QED
    BY <1>1, <1>3, <1>4, <1>5, PlacesKept, ServersKept DEF EvalsInv

(* The push: the query is pending and has one place, the end of the queue. *)
LEMMA PlacesPush ==
  ASSUME TypeOK, PlacesInv, NEW c \in Clients, ~Pending(c), Pending(c)',
         queryQueue' = Append(queryQueue, c), UNCHANGED <<batch, row>>,
         \A d \in Clients \ {c} : Pending(d)' <=> Pending(d)
  PROVE  PlacesInv'
  <1>1. /\ \A i \in DOMAIN queryQueue : queryQueue[i] \in Clients
        /\ \A s \in Servers : \A i \in DOMAIN batch[s] : batch[s][i] \in Clients
    BY ElementOfSeq, LenProperties DEF TypeOK
  <1>2. \A s \in Servers : Unanswered(s)' = Unanswered(s) /\ Unanswered(s) \subseteq DOMAIN batch[s]
    BY DEF Unanswered
  <1> DEFINE n == Len(queryQueue) + 1
  <1>3. /\ n \in DOMAIN queryQueue' /\ queryQueue'[n] = c
        /\ DOMAIN queryQueue' = DOMAIN queryQueue \cup {n}
        /\ \A i \in DOMAIN queryQueue : i # n /\ queryQueue'[i] = queryQueue[i]
    <2>1. /\ Len(queryQueue') = n /\ queryQueue'[n] = c
          /\ \A i \in 1 .. Len(queryQueue) : queryQueue'[i] = queryQueue[i]
      BY AppendProperties DEF TypeOK
    <2>2. /\ DOMAIN queryQueue = 1 .. Len(queryQueue) /\ Len(queryQueue) \in Nat
          /\ DOMAIN queryQueue' = 1 .. Len(queryQueue')
      BY LenProperties, AppendProperties DEF TypeOK
    <2> QED
      BY <2>1, <2>2
  <1>4. \A i \in DOMAIN queryQueue : queryQueue[i] # c
    BY DEF PlacesInv, InQueueOnce
  <1>5. \A s \in Servers : \A j \in Unanswered(s) : batch[s][j] # c
    BY DEF PlacesInv, TakenOnce
  <1> HIDE DEF Pending, Unanswered, n
  <1>6. InQueueOnce'
    <2>1. ASSUME NEW i \in DOMAIN queryQueue'
          PROVE  Pending(queryQueue[i])'
      <3>1. CASE i = n
        BY <1>3, <3>1 DEF Pending
      <3>2. CASE i \in DOMAIN queryQueue
        <4>1. queryQueue[i] \in Clients \ {c} /\ Pending(queryQueue[i])
          BY <1>1, <1>4, <3>2 DEF PlacesInv, InQueueOnce
        <4>2. queryQueue'[i] = queryQueue[i]
          BY <1>3, <3>2
        <4> QED
          BY <4>1, <4>2 DEF Pending
      <3> QED
        BY <1>3, <3>1, <3>2
    <2>2. \A i, j \in DOMAIN queryQueue' : queryQueue'[i] = queryQueue'[j] => i = j
      BY <1>3, <1>4 DEF PlacesInv, InQueueOnce
    <2> QED
      BY <2>1, <2>2 DEF InQueueOnce
  <1>7. TakenOnce'
    BY <1>1, <1>2, <1>5 DEF PlacesInv, TakenOnce
  <1>8. QueuedOrTaken'
    <2>1. \A s \in Servers : \A i \in DOMAIN queryQueue', j \in Unanswered(s)' :
            batch'[s][j] # queryQueue'[i]
      BY <1>2, <1>3, <1>5 DEF PlacesInv, QueuedOrTaken
    <2>2. ASSUME NEW d \in Clients, Pending(d)'
          PROVE  \/ \E i \in DOMAIN queryQueue' : queryQueue'[i] = d
                 \/ \E s \in Servers : \E j \in Unanswered(s)' : batch'[s][j] = d
      <3>1. CASE d = c
        BY <1>3, <3>1
      <3>2. CASE d # c
        <4>1. \/ \E i \in DOMAIN queryQueue : queryQueue[i] = d
              \/ \E s \in Servers : \E j \in Unanswered(s) : batch[s][j] = d
          BY <2>2, <3>2 DEF PlacesInv, QueuedOrTaken
        <4> QED
          BY <1>2, <1>3, <4>1
      <3> QED
        BY <3>1, <3>2
    <2> QED
      BY <2>1, <2>2 DEF QueuedOrTaken
  <1> QED
    BY <1>6, <1>7, <1>8 DEF PlacesInv

LEMMA EvalsPush ==
  ASSUME TypeOK, EvalsInv, NEW c \in Clients, PushQuery(c)
  PROVE  EvalsInv'
  <1>1. /\ client[c] = "pushing" /\ client' = [client EXCEPT ![c] = "awaiting"]
        /\ queryQueue' = Append(queryQueue, c)
        /\ UNCHANGED <<numOngoingEvals, writable, asked, buf, server, batch, row, owner>>
    BY DEF PushQuery, Goes, counters, serverVars, ownerVars
  <1>2. client'[c] = "awaiting" /\ \A d \in Clients \ {c} : client'[d] = client[d]
    BY <1>1 DEF TypeOK
  <1>3. ~buf[c].hasResult
    BY <1>1 DEF EvalsInv, ResultsOwn
  <1>4. ResultsOwn'
    BY <1>1, <1>2, <1>3 DEF EvalsInv, ResultsOwn, Own
  <1>5. PlacesInv'
    <2>1. ~Pending(c) /\ Pending(c)' /\ \A d \in Clients \ {c} : Pending(d)' <=> Pending(d)
      BY <1>1, <1>2, <1>3 DEF Pending
    <2> QED
      BY <1>1, <2>1, PlacesPush DEF EvalsInv
  <1>6. EvalsCounted'
    <2>1. Pushing' = Pushing \ {c} /\ c \in Pushing
      BY <1>1, <1>2 DEF Pushing
    <2>2. Cardinality(Pushing') = Cardinality(Pushing) - 1
      BY <2>1, PushingIsFinite, FS_RemoveElement
    <2>3. Taken' = Taken
      BY <1>1 DEF Taken
    <2>4. Cardinality(Taken) \in Nat /\ Len(queryQueue) \in Nat
      BY TakenIsFinite, LenProperties DEF TypeOK
    <2>5. Len(queryQueue') = Len(queryQueue) + 1
      BY <1>1, AppendProperties DEF TypeOK
    <2> QED
      BY <1>1, <2>2, <2>3, <2>4, <2>5, PushingIsFinite DEF EvalsInv, EvalsCounted
  <1> QED
    BY <1>1, <1>4, <1>5, <1>6, ServersKept DEF EvalsInv

(* After the answer, and in the wait: the client is in no queue. *)
LEMMA EvalsReturn ==
  ASSUME TypeOK, EvalsInv, NEW c \in Clients,
         \/ GetResult(c) \/ RecordResult(c) \/ MoveOut(c)
         \/ GoOnWaiting(c) \/ waitForNextNNEvalIfAny(c) \/ SpuriousWakeup(c)
  PROVE  EvalsInv'
  <1>1. UNCHANGED <<queryQueue, writable, numOngoingEvals, server, batch, row, owner>>
    BY DEF GetResult, RecordResult, MoveOut, GoOnWaiting, waitForNextNNEvalIfAny,
           SpuriousWakeup, counters, serverVars, ownerVars
  <1>2. \A d \in Clients \ {c} : client'[d] = client[d] /\ buf'[d] = buf[d] /\ asked'[d] = asked[d]
    BY DEF GetResult, RecordResult, MoveOut, GoOnWaiting, waitForNextNNEvalIfAny, TestOfLoop,
           SpuriousWakeup, clientVars, Goes, TypeOK
  <1>3. \/ client[c] = "awaiting" /\ buf[c].hasResult /\ client'[c] = "recording"
        \/ client[c] = "recording" /\ client'[c] = "returned"
        \/ client[c] \in {"returned", "inWait", "idle"} /\ client'[c] \in {"idle", "inWait"}
    BY DEF GetResult, RecordResult, MoveOut, GoOnWaiting, waitForNextNNEvalIfAny, TestOfLoop,
           SpuriousWakeup, clientVars, Goes, TypeOK, Waiting
  <1>4. client'[c] \notin {"idle", "inWait"} => buf'[c] = buf[c] /\ asked'[c] = asked[c]
    BY DEF GetResult, RecordResult, MoveOut, GoOnWaiting, waitForNextNNEvalIfAny, TestOfLoop,
           SpuriousWakeup, clientVars, Goes, TypeOK, Waiting
  <1>5. ResultsOwn'
    BY <1>2, <1>3, <1>4 DEF EvalsInv, ResultsOwn, Own
  <1>6. \A d \in Clients : Pending(d)' <=> Pending(d)
    BY <1>2, <1>3, <1>4 DEF Pending
  <1>7. Pushing' = Pushing
    BY <1>2, <1>3 DEF Pushing
  <1> QED
    BY <1>1, <1>5, <1>6, <1>7, PlacesKept, EvalsCountedKept, ServersKept DEF EvalsInv

(* A batch: the first k queries leave the queue for the rows of s. *)
LEMMA BatchTaken ==
  ASSUME TypeOK, ServersInv, NEW s \in Servers, NEW n \in 1 .. maxBatchSize, TakeBatch(s, n)
  PROVE  \E k \in 1 .. Len(queryQueue) :
           /\ Len(queryQueue') = Len(queryQueue) - k
           /\ DOMAIN queryQueue' = 1 .. Len(queryQueue) - k
           /\ \A i \in 1 .. Len(queryQueue) - k : queryQueue'[i] = queryQueue[i + k]
           /\ DOMAIN batch'[s] = 1 .. k
           /\ \A j \in 1 .. k : batch'[s][j] = queryQueue[j]
           /\ Len(batch'[s]) = k
  <1> DEFINE k == IF n < Len(queryQueue) THEN n ELSE Len(queryQueue)
  <1> DEFINE taken == SubSeq(queryQueue, 1, k)
  <1> DEFINE left == SubSeq(queryQueue, k + 1, Len(queryQueue))
  <1>1. queryQueue \in Seq(Clients) /\ queryQueue # <<>> /\ Len(queryQueue) \in Nat
    BY LenProperties DEF TypeOK, TakeBatch
  <1>2. Len(queryQueue) > 0
    BY <1>1, EmptySeq
  <1>3. k \in 1 .. Len(queryQueue)
    BY <1>1, <1>2, BatchAssumption
  <1> HIDE DEF k
  <1>4. batch' = [batch EXCEPT ![s] = taken] /\ queryQueue' = left
    BY DEF TakeBatch, k
  <1>5. \A i \in 1 .. Len(queryQueue) : queryQueue[i] \in Clients
    BY <1>1, ElementOfSeq
  <1>6. /\ taken \in Seq(Clients) /\ Len(taken) = k
        /\ \A j \in 1 .. k : taken[j] = queryQueue[j]
    <2>1. \A i \in 1 .. k : queryQueue[i] \in Clients
      BY <1>1, <1>3, <1>5
    <2> QED
      BY <1>3, <2>1, SubSeqProperties
  <1>7. /\ left \in Seq(Clients) /\ Len(left) = Len(queryQueue) - k
        /\ \A i \in 1 .. Len(queryQueue) - k : left[i] = queryQueue[i + k]
    <2>1. \A i \in k + 1 .. Len(queryQueue) : queryQueue[i] \in Clients
      BY <1>1, <1>3, <1>5
    <2>2. /\ left \in Seq(Clients)
          /\ Len(left) = IF k + 1 <= Len(queryQueue) THEN Len(queryQueue) - (k + 1) + 1 ELSE 0
          /\ \A i \in 1 .. Len(queryQueue) - (k + 1) + 1 : left[i] = queryQueue[(k + 1) + i - 1]
      BY <1>1, <1>3, <2>1, SubSeqProperties
    <2>3. \A i \in 1 .. Len(queryQueue) - k : (k + 1) + i - 1 = i + k
      BY <1>1, <1>3
    <2> QED
      BY <1>1, <1>3, <2>2, <2>3
  <1>8. DOMAIN taken = 1 .. k /\ DOMAIN left = 1 .. Len(queryQueue) - k
    BY <1>6, <1>7, LenProperties
  <1> HIDE DEF taken, left
  <1>9. batch'[s] = taken
    BY <1>4 DEF TypeOK
  <1> QED
    BY <1>3, <1>4, <1>6, <1>7, <1>8, <1>9

LEMMA EvalsTake ==
  ASSUME TypeOK, EvalsInv, NEW s \in Servers, NEW n \in 1 .. maxBatchSize, TakeBatch(s, n)
  PROVE  EvalsInv'
  <1>1. PICK k \in 1 .. Len(queryQueue) :
           /\ Len(queryQueue') = Len(queryQueue) - k
           /\ DOMAIN queryQueue' = 1 .. Len(queryQueue) - k
           /\ \A i \in 1 .. Len(queryQueue) - k : queryQueue'[i] = queryQueue[i + k]
           /\ DOMAIN batch'[s] = 1 .. k
           /\ \A j \in 1 .. k : batch'[s][j] = queryQueue[j]
           /\ Len(batch'[s]) = k
    BY BatchTaken DEF EvalsInv
  <1>2. /\ server[s] = "looping" /\ server' = [server EXCEPT ![s] = "answering"]
        /\ \A t \in Servers \ {s} : batch'[t] = batch[t]
        /\ UNCHANGED <<client, asked, buf, numOngoingEvals, row, writable, owner>>
    BY DEF TakeBatch, counters, clientVars, ownerVars, TypeOK
  <1>3. batch[s] = <<>> /\ row[s] = 0
    <2>1. batch[s] = <<>> /\ row[s] <= Len(batch[s])
      BY <1>2 DEF EvalsInv, ServersInv
    <2> QED
      BY <2>1, EmptySeq DEF TypeOK
  <1>4. Len(queryQueue) \in Nat /\ DOMAIN queryQueue = 1 .. Len(queryQueue)
    BY LenProperties DEF TypeOK
  <1>5. \A i \in 1 .. Len(queryQueue) - k : i + k \in DOMAIN queryQueue
    BY <1>1, <1>4
  <1>6. \A j \in 1 .. k : j \in DOMAIN queryQueue
    BY <1>1, <1>4
  <1>7. Unanswered(s)' = 1 .. k /\ \A t \in Servers \ {s} : Unanswered(t)' = Unanswered(t)
    BY <1>1, <1>2, <1>3 DEF Unanswered
  <1>8. \A d \in Clients : Pending(d)' <=> Pending(d)
    BY <1>2 DEF Pending
  <1>9. /\ \A i \in DOMAIN queryQueue : queryQueue[i] \in Clients
        /\ \A t \in Servers : \A i \in Unanswered(t) : batch[t][i] \in Clients
    BY ElementOfSeq, LenProperties DEF TypeOK, Unanswered
  <1> HIDE DEF Pending, Unanswered
  <1>10. ResultsOwn'
    BY <1>2 DEF EvalsInv, ResultsOwn, Own
  <1>11. InQueueOnce'
    <2>1. ASSUME NEW i \in DOMAIN queryQueue'
          PROVE  Pending(queryQueue[i])'
      <3>1. queryQueue'[i] = queryQueue[i + k] /\ i + k \in DOMAIN queryQueue
        BY <1>1, <1>5
      <3>2. queryQueue[i + k] \in Clients /\ Pending(queryQueue[i + k])
        BY <1>9, <3>1 DEF EvalsInv, PlacesInv, InQueueOnce
      <3> QED
        BY <1>2, <3>1, <3>2 DEF Pending
    <2>2. ASSUME NEW i \in DOMAIN queryQueue', NEW j \in DOMAIN queryQueue',
                 queryQueue'[i] = queryQueue'[j]
          PROVE  i = j
      <3>1. /\ queryQueue'[i] = queryQueue[i + k] /\ i + k \in DOMAIN queryQueue
            /\ queryQueue'[j] = queryQueue[j + k] /\ j + k \in DOMAIN queryQueue
        BY <1>1, <1>5
      <3>2. queryQueue[i + k] = queryQueue[j + k] => i + k = j + k
        BY <3>1 DEF EvalsInv, PlacesInv, InQueueOnce
      <3>3. i + k = j + k
        BY <2>2, <3>1, <3>2, Zenon
      <3>4. i \in Int /\ j \in Int /\ k \in Int
        BY <1>1, <1>4
      <3> QED
        BY <3>3, <3>4
    <2> QED
      BY <2>1, <2>2 DEF InQueueOnce
  <1>12. TakenOnce'
    <2>1. ASSUME NEW t \in Servers, NEW i \in Unanswered(t)'
          PROVE  Pending(batch[t][i])'
      <3>1. CASE t = s
        <4>1. batch'[t][i] = queryQueue[i] /\ i \in DOMAIN queryQueue
          BY <1>1, <1>6, <1>7, <3>1
        <4>2. queryQueue[i] \in Clients /\ Pending(queryQueue[i])
          BY <1>9, <4>1 DEF EvalsInv, PlacesInv, InQueueOnce
        <4> QED
          BY <1>2, <4>1, <4>2 DEF Pending
      <3>2. CASE t # s
        <4>1. batch'[t][i] = batch[t][i] /\ i \in Unanswered(t)
          BY <1>2, <1>7, <3>2
        <4>2. Pending(batch[t][i])
          BY <4>1 DEF EvalsInv, PlacesInv, TakenOnce
        <4> QED
          BY <1>2, <4>1, <4>2 DEF Pending
      <3> QED
        BY <3>1, <3>2
    <2>2. ASSUME NEW t \in Servers, NEW u \in Servers, NEW i \in Unanswered(t)',
                 NEW j \in Unanswered(u)', batch'[t][i] = batch'[u][j]
          PROVE  t = u /\ i = j
      <3>1. CASE t = s /\ u = s
        <4>1. /\ i \in DOMAIN queryQueue /\ j \in DOMAIN queryQueue
              /\ batch'[t][i] = queryQueue[i] /\ batch'[u][j] = queryQueue[j]
          BY <1>1, <1>6, <1>7, <3>1
        <4>2. queryQueue[i] = queryQueue[j] => i = j
          BY <4>1 DEF EvalsInv, PlacesInv, InQueueOnce
        <4>3. queryQueue[i] = queryQueue[j]
          BY <2>2, <4>1, Zenon
        <4> QED
          BY <3>1, <4>2, <4>3
      <3>2. CASE t = s /\ u # s
        <4>1. i \in DOMAIN queryQueue /\ batch'[t][i] = queryQueue[i]
          BY <1>1, <1>6, <1>7, <3>2
        <4>2. j \in Unanswered(u) /\ batch'[u][j] = batch[u][j]
          BY <1>2, <1>7, <3>2
        <4>3. batch[u][j] # queryQueue[i]
          BY <4>1, <4>2 DEF EvalsInv, PlacesInv, QueuedOrTaken
        <4> QED
          BY <2>2, <4>1, <4>2, <4>3, Zenon
      <3>3. CASE t # s /\ u = s
        <4>1. j \in DOMAIN queryQueue /\ batch'[u][j] = queryQueue[j]
          BY <1>1, <1>6, <1>7, <3>3
        <4>2. i \in Unanswered(t) /\ batch'[t][i] = batch[t][i]
          BY <1>2, <1>7, <3>3
        <4>3. batch[t][i] # queryQueue[j]
          BY <4>1, <4>2 DEF EvalsInv, PlacesInv, QueuedOrTaken
        <4> QED
          BY <2>2, <4>1, <4>2, <4>3, Zenon
      <3>4. CASE t # s /\ u # s
        BY <1>2, <1>7, <2>2, <3>4 DEF EvalsInv, PlacesInv, TakenOnce
      <3> QED
        BY <3>1, <3>2, <3>3, <3>4
    <2> QED
      BY <2>1, <2>2 DEF TakenOnce
  <1>13. QueuedOrTaken'
    <2>1. ASSUME NEW t \in Servers, NEW i \in DOMAIN queryQueue', NEW j \in Unanswered(t)',
                 batch'[t][j] = queryQueue'[i]
          PROVE  FALSE
      <3>1. queryQueue'[i] = queryQueue[i + k] /\ i + k \in DOMAIN queryQueue
        BY <1>1, <1>5
      <3>2. CASE t = s
        <4>1. batch'[t][j] = queryQueue[j] /\ j \in DOMAIN queryQueue /\ j \in 1 .. k
          BY <1>1, <1>6, <1>7, <3>2
        <4>2. j = i + k
          BY <2>1, <3>1, <4>1 DEF EvalsInv, PlacesInv, InQueueOnce
        <4> QED
          BY <1>1, <1>4, <4>1, <4>2
      <3>3. CASE t # s
        BY <1>2, <1>7, <2>1, <3>1, <3>3 DEF EvalsInv, PlacesInv, QueuedOrTaken
      <3> QED
        BY <3>2, <3>3
    <2>2. ASSUME NEW d \in Clients, Pending(d)'
          PROVE  \/ \E i \in DOMAIN queryQueue' : queryQueue'[i] = d
                 \/ \E t \in Servers : \E j \in Unanswered(t)' : batch'[t][j] = d
      <3>1. CASE \E i \in DOMAIN queryQueue : queryQueue[i] = d
        <4>1. PICK i \in DOMAIN queryQueue : queryQueue[i] = d
          BY <3>1
        <4>2. CASE i <= k
          <5>1. i \in 1 .. k
            BY <1>4, <4>2
          <5>2. i \in Unanswered(s)' /\ batch'[s][i] = d
            BY <1>1, <1>7, <4>1, <5>1
          <5> QED
            BY <5>2
        <4>3. CASE i > k
          <5>1. i - k \in DOMAIN queryQueue' /\ i = (i - k) + k
            BY <1>1, <1>4, <4>3
          <5>2. queryQueue'[i - k] = d
            BY <1>1, <4>1, <5>1
          <5> QED
            BY <5>1, <5>2
        <4> QED
          BY <1>1, <1>4, <4>2, <4>3
      <3>2. CASE \E t \in Servers : \E j \in Unanswered(t) : batch[t][j] = d
        <4>1. PICK t \in Servers : \E j \in Unanswered(t) : batch[t][j] = d
          BY <3>2
        <4>2. t # s
          BY <1>3, <4>1 DEF Unanswered
        <4> QED
          BY <1>2, <1>7, <4>1, <4>2
      <3> QED
        BY <1>8, <2>2, <3>1, <3>2 DEF EvalsInv, PlacesInv, QueuedOrTaken
    <2> QED
      BY <2>1, <2>2 DEF QueuedOrTaken
  <1>14. ServersInv'
    <2>1. \A t \in Servers :
            /\ row'[t] <= Len(batch'[t])
            /\ server'[t] # "answering" => batch'[t] = <<>>
            /\ owner' = "down" => server'[t] = "off"
      BY <1>1, <1>2, <1>3 DEF EvalsInv, ServersInv, TypeOK
    <2> QED
      BY <1>2, <2>1 DEF EvalsInv, ServersInv
  <1>15. EvalsCounted'
    <2> DEFINE rows == {s} \X (1 .. k)
    <2>1. IsFiniteSet(rows) /\ Cardinality(rows) = k
      <3>1. k \in Nat
        BY <1>4
      <3> QED
        BY <3>1, RowsAreFinite
    <2>2. Taken' = Taken \cup rows
      <3>1. ASSUME NEW p PROVE p \in Taken' <=> p \in Taken \/ p \in rows
        BY <1>1, <1>2, <1>3 DEF Taken
      <3> QED
        BY <3>1
    <2>3. Taken \cap rows = {}
      BY <1>3, TakenMembers
    <2> HIDE DEF rows
    <2>4. Cardinality(Taken \cap rows) = 0
      BY <2>3, FS_EmptySet
    <2>5. Cardinality(Taken') = Cardinality(Taken) + k
      <3>1. Cardinality(Taken \cup rows) =
              Cardinality(Taken) + Cardinality(rows) - Cardinality(Taken \cap rows)
        BY <2>1, TakenIsFinite, FS_Union
      <3> QED
        BY <1>4, <2>1, <2>2, <2>4, <3>1, TakenIsFinite
    <2>6. Pushing' = Pushing
      BY <1>2 DEF Pushing
    <2> QED
      BY <1>1, <1>2, <1>4, <2>5, <2>6, PushingIsFinite, TakenIsFinite DEF EvalsInv, EvalsCounted
  <1> QED
    BY <1>10, <1>11, <1>12, <1>13, <1>14, <1>15 DEF EvalsInv, PlacesInv

(* An answer: the query of c loses its only place, and c has its result.   *)
LEMMA EvalsAnswer ==
  ASSUME TypeOK, EvalsInv, NEW s \in Servers, AnswerRow(s)
  PROVE  EvalsInv'
  <1> DEFINE r == row[s] + 1
             c == batch[s][r]
  <1>1. /\ server[s] = "answering" /\ row[s] < Len(batch[s])
        /\ buf' = [buf EXCEPT ![c] =
             [hasResult |-> TRUE,
              result |-> [position |-> asked[c].position, ownerMap |-> asked[c].includeOwnerMap]]]
        /\ row' = [row EXCEPT ![s] = row[s] + 1]
        /\ UNCHANGED <<queryQueue, writable, numOngoingEvals, client, asked, server, batch, owner>>
    BY DEF AnswerRow, counters, ownerVars
  <1>2. /\ row[s] \in Nat /\ Len(batch[s]) \in Nat /\ DOMAIN batch[s] = 1 .. Len(batch[s])
        /\ r \in DOMAIN batch[s] /\ c \in Clients
    <2>1. /\ row[s] \in Nat /\ Len(batch[s]) \in Nat /\ DOMAIN batch[s] = 1 .. Len(batch[s])
      BY LenProperties DEF TypeOK
    <2>2. r \in 1 .. Len(batch[s])
      BY <1>1, <2>1
    <2> QED
      BY <2>1, <2>2, ElementOfSeq DEF TypeOK
  <1>3. r \in Unanswered(s) /\ r \notin Unanswered(s)'
    BY <1>1, <1>2 DEF Unanswered, TypeOK
  <1>4. \A i : i \in Unanswered(s)' <=> i \in Unanswered(s) /\ i # r
    BY <1>1, <1>2 DEF Unanswered, TypeOK
  <1>5. \A t \in Servers \ {s} : Unanswered(t)' = Unanswered(t)
    BY <1>1 DEF Unanswered, TypeOK
  <1>6. Pending(c)
    BY <1>3 DEF EvalsInv, PlacesInv, TakenOnce
  <1> HIDE DEF r, c
  <1>7. /\ buf'[c].hasResult /\ buf'[c].result.position = asked[c].position
        /\ buf'[c].result.ownerMap = asked[c].includeOwnerMap
        /\ \A d \in Clients \ {c} : buf'[d] = buf[d]
    BY <1>1, <1>2 DEF TypeOK
  <1>8. \A d \in Clients : Pending(d)' <=> Pending(d) /\ d # c
    BY <1>1, <1>7 DEF Pending
  <1>9. /\ \A i \in DOMAIN queryQueue : queryQueue[i] \in Clients
        /\ \A t \in Servers : \A i \in Unanswered(t) : batch[t][i] \in Clients
    BY ElementOfSeq, LenProperties DEF TypeOK, Unanswered
  <1>10. batch[s][r] = c
    BY DEF c
  <1>11. ResultsOwn'
    BY <1>1, <1>2, <1>6, <1>7 DEF EvalsInv, ResultsOwn, Own, Pending
  <1> HIDE DEF Unanswered, Pending
  <1>12. \A i \in DOMAIN queryQueue : queryQueue[i] # c
    BY <1>3, <1>10 DEF EvalsInv, PlacesInv, QueuedOrTaken
  <1>13. \A t \in Servers : \A j \in Unanswered(t)' : j \in Unanswered(t) /\ batch[t][j] # c
    <2>1. ASSUME NEW t \in Servers, NEW j \in Unanswered(t)'
          PROVE  j \in Unanswered(t)
      BY <1>4, <1>5
    <2>2. ASSUME NEW t \in Servers, NEW j \in Unanswered(t)', batch[t][j] = c
          PROVE  FALSE
      <3>1. t = s /\ j = r
        BY <1>3, <1>10, <2>1, <2>2 DEF EvalsInv, PlacesInv, TakenOnce
      <3> QED
        BY <1>3, <3>1
    <2> QED
      BY <2>1, <2>2
  <1>14. InQueueOnce'
    BY <1>1, <1>8, <1>9, <1>12 DEF EvalsInv, PlacesInv, InQueueOnce
  <1>15. TakenOnce'
    <2>1. ASSUME NEW t \in Servers, NEW i \in Unanswered(t)'
          PROVE  Pending(batch[t][i])'
      <3>1. i \in Unanswered(t) /\ batch[t][i] \in Clients /\ batch[t][i] # c
        BY <1>9, <1>13
      <3>2. Pending(batch[t][i])
        BY <3>1 DEF EvalsInv, PlacesInv, TakenOnce
      <3> DEFINE d == batch[t][i]
      <3>3. client'[d] = client[d] /\ buf'[d] = buf[d] /\ batch'[t][i] = d
        BY <1>1, <1>7, <3>1
      <3> QED
        BY <3>2, <3>3 DEF Pending
    <2>2. \A t, u \in Servers : \A i \in Unanswered(t)', j \in Unanswered(u)' :
            batch'[t][i] = batch'[u][j] => t = u /\ i = j
      BY <1>1, <1>13 DEF EvalsInv, PlacesInv, TakenOnce
    <2> QED
      BY <2>1, <2>2 DEF TakenOnce
  <1>16. QueuedOrTaken'
    <2>1. \A t \in Servers : \A i \in DOMAIN queryQueue', j \in Unanswered(t)' :
            batch'[t][j] # queryQueue'[i]
      BY <1>1, <1>13 DEF EvalsInv, PlacesInv, QueuedOrTaken
    <2>2. ASSUME NEW d \in Clients, Pending(d)'
          PROVE  \/ \E i \in DOMAIN queryQueue' : queryQueue'[i] = d
                 \/ \E t \in Servers : \E j \in Unanswered(t)' : batch'[t][j] = d
      <3>1. Pending(d) /\ d # c
        BY <1>8, <2>2
      <3>2. ASSUME NEW t \in Servers, NEW j \in Unanswered(t), batch[t][j] = d
            PROVE  j \in Unanswered(t)'
        BY <1>4, <1>5, <1>10, <3>1, <3>2
      <3> QED
        BY <1>1, <3>1, <3>2 DEF EvalsInv, PlacesInv, QueuedOrTaken
    <2> QED
      BY <2>1, <2>2 DEF QueuedOrTaken
  <1>17. ServersInv'
    <2>1. row'[s] <= Len(batch[s]) /\ \A t \in Servers \ {s} : row'[t] = row[t]
      BY <1>1, <1>2 DEF TypeOK
    <2> QED
      BY <1>1, <2>1 DEF EvalsInv, ServersInv
  <1>18. EvalsCounted'
    BY <1>1, EvalsCountedKept DEF EvalsInv, Pushing
  <1> QED
    BY <1>11, <1>14, <1>15, <1>16, <1>17, <1>18 DEF EvalsInv, PlacesInv

(* The end of a batch: all its rows are answered. *)
LEMMA EvalsFinish ==
  ASSUME TypeOK, EvalsInv, NEW s \in Servers, FinishBatch(s)
  PROVE  EvalsInv'
  <1>1. /\ row[s] = Len(batch[s]) /\ numOngoingEvals' = numOngoingEvals - Len(batch[s])
        /\ server' = [server EXCEPT ![s] = "looping"]
        /\ batch' = [batch EXCEPT ![s] = <<>>] /\ row' = [row EXCEPT ![s] = 0]
        /\ UNCHANGED <<queryQueue, writable, client, asked, buf, owner>>
    BY DEF FinishBatch, clientVars, ownerVars
  <1>2. Len(batch[s]) \in Nat /\ DOMAIN batch[s] = 1 .. Len(batch[s])
    BY LenProperties DEF TypeOK
  <1>3. batch'[s] = <<>> /\ row'[s] = 0
    BY <1>1 DEF TypeOK
  <1>4. \A t \in Servers \ {s} : batch'[t] = batch[t] /\ row'[t] = row[t]
    BY <1>1 DEF TypeOK
  <1>5. /\ Unanswered(s) = {} /\ Unanswered(s)' = {}
        /\ \A t \in Servers \ {s} : Unanswered(t)' = Unanswered(t)
    BY <1>1, <1>2, <1>3, <1>4 DEF Unanswered
  <1>6. \A d \in Clients : Pending(d)' <=> Pending(d)
    BY <1>1 DEF Pending
  <1>7. /\ \A i \in DOMAIN queryQueue : queryQueue[i] \in Clients
        /\ \A t \in Servers : \A i \in Unanswered(t) : batch[t][i] \in Clients
    BY ElementOfSeq, LenProperties DEF TypeOK, Unanswered
  <1> HIDE DEF Unanswered, Pending
  <1>8. ResultsOwn'
    BY <1>1 DEF EvalsInv, ResultsOwn, Own
  <1>9. InQueueOnce'
    BY <1>1, <1>6, <1>7 DEF EvalsInv, PlacesInv, InQueueOnce
  <1>10. TakenOnce'
    BY <1>4, <1>5, <1>6, <1>7 DEF EvalsInv, PlacesInv, TakenOnce
  <1>11. QueuedOrTaken'
    BY <1>1, <1>4, <1>5, <1>6 DEF EvalsInv, PlacesInv, QueuedOrTaken
  <1>12. ServersInv'
    <2>1. row'[s] <= Len(batch'[s]) /\ server'[s] = "looping"
      BY <1>1, <1>3, EmptySeq DEF TypeOK
    <2>2. \A t \in Servers \ {s} : server'[t] = server[t]
      BY <1>1 DEF TypeOK
    <2>3. owner # "down"
      BY DEF FinishBatch, EvalsInv, ServersInv
    <2> QED
      BY <1>1, <1>3, <1>4, <2>1, <2>2, <2>3 DEF EvalsInv, ServersInv
  <1>13. EvalsCounted'
    <2> DEFINE rows == {s} \X (1 .. Len(batch[s]))
    <2>1. IsFiniteSet(rows) /\ Cardinality(rows) = Len(batch[s])
      BY <1>2, RowsAreFinite
    <2>2. Taken' = Taken \ rows
      <3>1. ASSUME NEW p PROVE p \in Taken' <=> p \in Taken /\ p \notin rows
        BY <1>2, <1>3, <1>4 DEF Taken
      <3> QED
        BY <3>1
    <2>3. Taken \cap rows = rows
      BY <1>2, TakenMembers
    <2> HIDE DEF rows
    <2>4. Cardinality(Taken') = Cardinality(Taken) - Len(batch[s])
      <3>1. Cardinality(Taken \ rows) = Cardinality(Taken) - Cardinality(Taken \cap rows)
        BY TakenIsFinite, FS_Difference
      <3> QED
        BY <2>1, <2>2, <2>3, <3>1
    <2>5. Pushing' = Pushing
      BY <1>1 DEF Pushing
    <2>6. Len(queryQueue) \in Nat
      BY LenProperties DEF TypeOK
    <2> QED
      BY <1>1, <1>2, <2>4, <2>5, <2>6, PushingIsFinite, TakenIsFinite DEF EvalsInv, EvalsCounted
  <1> QED
    BY <1>8, <1>9, <1>10, <1>11, <1>12, <1>13 DEF EvalsInv, PlacesInv

(* A step that leaves the clients, the queue and the rows alone. *)
LEMMA EvalsKept ==
  ASSUME TypeOK, EvalsInv, ServersInv',
         UNCHANGED <<queryQueue, batch, row, client, asked, buf, numOngoingEvals>>
  PROVE  EvalsInv'
  <1>1. ResultsOwn'
    BY DEF EvalsInv, ResultsOwn, Own
  <1>2. PlacesInv'
    BY PlacesKept DEF EvalsInv, Pending
  <1>3. EvalsCounted'
    BY EvalsCountedKept DEF EvalsInv, Pushing
  <1> QED
    BY <1>1, <1>2, <1>3 DEF EvalsInv

LEMMA EvalsServer ==
  ASSUME TypeOK, EvalsInv, NEW s \in Servers, ServerStep(s)
  PROVE  EvalsInv'
  <1>1. CASE ReportStarted(s) \/ LeaveLoop(s)
    <2>1. /\ server[s] \in {"starting", "looping"}
          /\ server' \in {[server EXCEPT ![s] = "looping"], [server EXCEPT ![s] = "done"]}
          /\ UNCHANGED <<queryQueue, batch, row, client, asked, buf, numOngoingEvals, owner, writable>>
      BY <1>1 DEF ReportStarted, LeaveLoop, counters, clientVars, ownerVars
    <2>2. batch[s] = <<>> /\ owner # "down" /\ server'[s] # "answering"
      BY <2>1 DEF EvalsInv, ServersInv, TypeOK
    <2>3. \A t \in Servers \ {s} : server'[t] = server[t]
      BY <2>1 DEF TypeOK
    <2>4. ServersInv'
      BY <2>1, <2>2, <2>3 DEF EvalsInv, ServersInv
    <2> QED
      BY <2>1, <2>4, EvalsKept
  <1> QED
    BY <1>1, EvalsAnswer, EvalsFinish, EvalsTake DEF ServerStep

LEMMA EvalsOwner ==
  ASSUME TypeOK, EvalsInv,
         \/ \E slot \in Slots : clearCache(slot)
         \/ \E started \in (SUBSET Servers) \ {{}} : spawnServerThreads(started)
         \/ killServerThreads \/ OwnerStep
  PROVE  EvalsInv'
  <1>1. UNCHANGED <<queryQueue, batch, row, client, asked, buf, numOngoingEvals>>
    BY DEF clearCache, spawnServerThreads, killServerThreads, OwnerStep, ServersAreUp,
           SetQueueReadOnly, NotifyKilled, JoinServers, counters, clientVars, serverVars
  <1>2. ServersInv'
    <2>1. CASE \E slot \in Slots : clearCache(slot)
      BY <2>1 DEF clearCache, serverVars, ownerVars, EvalsInv, ServersInv
    <2>2. ASSUME NEW started \in (SUBSET Servers) \ {{}}, spawnServerThreads(started)
          PROVE  ServersInv'
      BY <1>1, <2>2 DEF spawnServerThreads, EvalsInv, ServersInv
    <2>3. CASE killServerThreads
      BY <2>3 DEF killServerThreads, serverVars, EvalsInv, ServersInv
    <2>4. CASE ServersAreUp
      BY <2>4 DEF ServersAreUp, serverVars, EvalsInv, ServersInv
    <2>5. CASE SetQueueReadOnly
      BY <2>5 DEF SetQueueReadOnly, serverVars, EvalsInv, ServersInv
    <2>6. CASE NotifyKilled
      BY <2>6 DEF NotifyKilled, serverVars, EvalsInv, ServersInv
    <2>7. CASE JoinServers
      BY <1>1, <2>7 DEF JoinServers, AllJoined, EvalsInv, ServersInv
    <2> QED
      BY <2>1, <2>2, <2>3, <2>4, <2>5, <2>6, <2>7 DEF OwnerStep
  <1> QED
    BY <1>1, <1>2, EvalsKept

LEMMA EvalsStep == TypeOK /\ EvalsInv /\ [Next]_vars => EvalsInv'
  <1> SUFFICES ASSUME TypeOK, EvalsInv, [Next]_vars PROVE EvalsInv'
    OBVIOUS
  <1>1. CASE Next
    BY <1>1, EvalsCall, EvalsCount, EvalsPush, EvalsReturn, EvalsServer, EvalsOwner
       DEF Next, ClientStep
  <1>2. CASE UNCHANGED vars
    <2>1. ServersInv'
      BY <1>2, ServersKept DEF vars, EvalsInv
    <2> QED
      BY <1>2, <2>1, EvalsKept DEF vars
  <1> QED
    BY <1>1, <1>2

(* For any clients and servers: what a client gets is the evaluation of    *)
(* the position it asked for; its buffer is in one place, the queue or a   *)
(* batch, as long as it has no result and nowhere else; a push succeeds;   *)
(* numOngoingEvals counts the evaluations, and a kill leaves none.         *)
THEOREM EvaluationOwn == Spec => []EvaluationIsOwn
  BY NNTypeCorrect, WaitersInit, WaitersStep, EvalsInit, EvalsStep, EvalsInvImplies, PTL DEF Spec

=============================================================================
