------------------------ MODULE AnalysisEngineProofs ------------------------
(***************************************************************************)
(* Proofs about AnalysisEngine, for any number of analysis threads,        *)
(* requests, priorities and focuses, in whatever order queries,            *)
(* terminations and changes of focus come, and for both kinds of shutdown. *)
(***************************************************************************)
EXTENDS AnalysisEngine, FiniteSetTheorems, FunctionTheorems, SequenceTheorems, WellFoundedInduction, TLAPS

-----------------------------------------------------------------------------
(* Data *)

(* A set of numbers that is not empty has a least one: of its initial      *)
(* segments, which are finite, one has no other inside it.                 *)
LEMMA LeastIn ==
  ASSUME NEW S, S \subseteq Nat, S # {}
  PROVE  Least(S) \in S
  <1> DEFINE segments == {S \cap 0 .. n : n \in S}
  <1>1. segments \subseteq FiniteSubsetsOf(Nat) /\ segments # {}
    <2>1. ASSUME NEW n \in S PROVE S \cap 0 .. n \in FiniteSubsetsOf(Nat)
      <3>1. IsFiniteSet(0 .. n) /\ S \cap 0 .. n \in SUBSET (0 .. n)
        BY FS_Interval
      <3>2. IsFiniteSet(S \cap 0 .. n)
        BY <3>1, FS_Subset
      <3> QED
        BY <3>2 DEF FiniteSubsetsOf
    <2> QED
      BY <2>1
  <1>2. PICK segment \in segments :
          \A other \in segments : <<other, segment>> \notin StrictSubsetOrdering(Nat)
    <2> HIDE DEF segments
    <2> QED
      BY <1>1, FS_StrictSubsetOrderingWellFounded, WFMin
  <1>3. PICK x \in S : segment = S \cap 0 .. x
    OBVIOUS
  <1>4. ASSUME NEW y \in S, y < x PROVE FALSE
    <2>1. /\ S \cap 0 .. y \in segments /\ S \cap 0 .. y \subseteq segment
          /\ x \in segment /\ x \notin S \cap 0 .. y
      BY <1>3, <1>4
    <2>2. <<S \cap 0 .. y, segment>> \in (SUBSET Nat) \X (SUBSET Nat)
      BY <1>3
    <2>3. <<S \cap 0 .. y, segment>> \in StrictSubsetOrdering(Nat)
      BY <2>1, <2>2 DEF StrictSubsetOrdering
    <2> QED
      BY <1>2, <2>1, <2>3
  <1>5. \A y \in S : x <= y
    BY <1>4
  <1> QED
    BY <1>5 DEF Least

(* How often a request is in a queue. *)
Occurrences(q, r) == {i \in 1 .. Len(q) : q[i] = r}

LEMMA CountFinite ==
  ASSUME NEW S, NEW q \in Seq(S), NEW r
  PROVE  IsFiniteSet(Occurrences(q, r)) /\ Cardinality(Occurrences(q, r)) \in Nat
  <1>1. IsFiniteSet(1 .. Len(q)) /\ Occurrences(q, r) \in SUBSET (1 .. Len(q))
    BY FS_Interval, LenProperties DEF Occurrences
  <1> QED
    BY <1>1, FS_Subset, FS_CardinalityType

LEMMA CountAppend ==
  ASSUME NEW S, NEW q \in Seq(S), NEW s \in S, NEW r
  PROVE  Cardinality(Occurrences(Append(q, s), r)) = Cardinality(Occurrences(q, r)) + (IF r = s THEN 1 ELSE 0)
  <1>1. /\ Len(Append(q, s)) = Len(q) + 1 /\ Len(q) \in Nat
        /\ \A i \in 1 .. Len(q) : Append(q, s)[i] = q[i]
        /\ Append(q, s)[Len(q) + 1] = s
    BY AppendProperties, LenProperties
  <1>2. CASE r = s
    <2>1. Len(q) + 1 \notin Occurrences(q, r) /\ Occurrences(Append(q, s), r) = Occurrences(q, r) \cup {Len(q) + 1}
      BY <1>1, <1>2 DEF Occurrences
    <2> QED
      BY <1>2, <2>1, CountFinite, FS_AddElement
  <1>3. CASE r # s
    <2>1. Occurrences(Append(q, s), r) = Occurrences(q, r)
      BY <1>1, <1>3 DEF Occurrences
    <2> QED
      BY <1>3, <2>1, CountFinite
  <1> QED
    BY <1>2, <1>3

LEMMA CountTail ==
  ASSUME NEW S, NEW q \in Seq(S), q # <<>>, NEW r
  PROVE  Cardinality(Occurrences(q, r)) = Cardinality(Occurrences(Tail(q), r)) + (IF r = Head(q) THEN 1 ELSE 0)
  <1>1. /\ Tail(q) \in Seq(S) /\ Len(Tail(q)) = Len(q) - 1 /\ Len(q) \in Nat \ {0}
        /\ \A i \in 1 .. Len(Tail(q)) : Tail(q)[i] = q[i + 1]
        /\ Head(q) = q[1]
    BY HeadTailProperties, LenProperties, EmptySeq
  <1> DEFINE later == Occurrences(q, r) \ {1}
             shift == [i \in Occurrences(Tail(q), r) |-> i + 1]
  <1>2. shift \in Bijection(Occurrences(Tail(q), r), later)
    <2>1. \A i \in Occurrences(Tail(q), r) : i + 1 \in later
      BY <1>1 DEF Occurrences
    <2>2. \A j \in later : \E i \in Occurrences(Tail(q), r) : shift[i] = j
      <3> TAKE j \in later
      <3>1. j - 1 \in Occurrences(Tail(q), r) /\ shift[j - 1] = j
        BY <1>1 DEF Occurrences
      <3> QED
        BY <3>1
    <2>3. \A i, j \in Occurrences(Tail(q), r) : shift[i] = shift[j] => i = j
      BY DEF Occurrences
    <2> HIDE DEF later
    <2>4. shift \in [Occurrences(Tail(q), r) -> later]
      BY <2>1
    <2> HIDE DEF shift
    <2> QED
      BY <2>2, <2>3, <2>4, Fun_IsBij
  <1>3. Cardinality(later) = Cardinality(Occurrences(Tail(q), r))
    <2>1. IsFiniteSet(Occurrences(Tail(q), r))
      BY <1>1, CountFinite
    <2>2. ExistsBijection(Occurrences(Tail(q), r), later)
      BY <1>2, Fun_ExistsBij
    <2> QED
      BY <2>1, <2>2, FS_Bijection
  <1>4. 1 \in Occurrences(q, r) <=> r = Head(q)
    BY <1>1 DEF Occurrences
  <1>5. IsFiniteSet(Occurrences(q, r)) /\ Cardinality(Occurrences(q, r)) \in Nat
    BY CountFinite
  <1>6. Cardinality(later) = IF 1 \in Occurrences(q, r) THEN Cardinality(Occurrences(q, r)) - 1
                                                     ELSE Cardinality(Occurrences(q, r))
    BY <1>5, FS_RemoveElement
  <1> HIDE DEF later
  <1> QED
    BY <1>3, <1>4, <1>5, <1>6

-----------------------------------------------------------------------------
(* Types *)

LEMMA TypeInit == Init => TypeOK
  <1> SUFFICES ASSUME Init PROVE TypeOK
    OBVIOUS
  <1> USE FocusAssumption, BoundsAssumption DEF Init
  <1>1. toWriteQueue \in Seq(Requests)
    BY EmptySeq
  <1>2. /\ numRequests \in 0..MaxRequests /\ priority \in [Requests -> Priorities]
        /\ status \in [Requests -> Statuses] /\ requestFocus \in [Requests -> Focuses]
        /\ openRequests \subseteq Requests /\ deleted \subseteq Requests
        /\ toAnalyzeQueue \subseteq Requests
    BY DEF Statuses
  <1>3. mutexHeld \in BOOLEAN /\ analyzeReadOnly \in BOOLEAN /\ writeReadOnly \in BOOLEAN
    OBVIOUS
  <1>4. /\ at \in [Bots -> Places] /\ has \in [Bots -> 0..MaxRequests]
        /\ botFocus \in [Bots -> Focuses]
    BY DEF Places
  <1>5. /\ shouldStopNow \in [Bots -> BOOLEAN] /\ isKilled \in [Bots -> BOOLEAN]
        /\ hasResult \in [Bots -> BOOLEAN]
    OBVIOUS
  <1>6. /\ printed \in [Requests -> Nat] /\ writeThread \in {"run", "exited"}
        /\ api \in LoopPlaces /\ todo \subseteq (Requests \cup Bots)
        /\ prevStatus \in Statuses /\ newFocus \in Focuses
    BY DEF LoopPlaces, Statuses
  <1> QED
    BY ONLY <1>1, <1>2, <1>3, <1>4, <1>5, <1>6 DEF TypeOK

LEMMA TypePush ==
  ASSUME TypeOK, NEW r \in Requests, pushToWrite(r)
  PROVE  toWriteQueue' \in Seq(Requests)
  <1>1. Append(toWriteQueue, r) \in Seq(Requests)
    BY AppendProperties DEF TypeOK
  <1>2. toWriteQueue' = toWriteQueue \/ toWriteQueue' = Append(toWriteQueue, r)
    BY DEF pushToWrite
  <1> QED
    BY <1>1, <1>2 DEF TypeOK

LEMMA TypeThread ==
  ASSUME TypeOK, NEW b \in Bots, has[b] # 0 \/ at[b] = "pop",
         AnalysisThread(b) \/ SearchFinishes(b)
  PROVE  TypeOK'
  <1> USE DEF OthersUnchanged, requests, opened, writer, loop
  <1>1. ASSUME NEW place, Goto(b, place), place \in Places PROVE at' \in [Bots -> Places]
    BY <1>1 DEF Goto, TypeOK
  <1>2. CASE Pop(b) \/ Exit(b) \/ Delete(b)
    <2>1. PICK place \in {"popped", "exited", "pop"} : Goto(b, place)
      BY <1>2 DEF Pop, Exit, Delete
    <2>2. at' \in [Bots -> Places]
      BY <1>1, <2>1 DEF Places
    <2>3. toAnalyzeQueue' \subseteq Requests /\ deleted' \subseteq Requests
      <3>1. Delete(b) => has[b] \in Requests
        BY DEF Delete, TypeOK, Requests
      <3> QED
        BY <1>2, <3>1 DEF Pop, Exit, Delete, TypeOK
    <2>4. has' \in [Bots -> 0..MaxRequests]
      <3>1. 0 \in 0..MaxRequests /\ Requests \subseteq 0..MaxRequests
        BY BoundsAssumption DEF Requests
      <3>2. CASE Pop(b)
        BY <3>1, <3>2 DEF Pop, TypeOK
      <3>3. CASE Exit(b) \/ Delete(b)
        BY <3>1, <3>3 DEF Exit, Delete, TypeOK
      <3> QED
        BY <1>2, <3>2, <3>3
    <2>5. UNCHANGED <<toWriteQueue, status, openRequests, shouldStopNow, isKilled, botFocus, hasResult>>
      BY <1>2 DEF Pop, Exit, Delete
    <2> QED
      BY <1>2, <2>2, <2>3, <2>4, <2>5 DEF Pop, Exit, Delete, TypeOK
  <1>3. CASE ClaimPopped(b) \/ GenMove(b) \/ StartSearch(b) \/ OnSearchBegun(b) \/ ApplyFocus(b)
    <2>1. PICK place \in {"genMove", "clear", "report", "start", "begin", "focus", "search"} : Goto(b, place)
      BY <1>3 DEF ClaimPopped, GenMove, StartSearch, OnSearchBegun, ApplyFocus
    <2>2. at' \in [Bots -> Places]
      BY <1>1, <2>1 DEF Places
    <2>3. status' \in [Requests -> Statuses]
      BY <1>3 DEF ClaimPopped, GenMove, StartSearch, OnSearchBegun, ApplyFocus, TypeOK, Statuses
    <2>4. shouldStopNow' \in [Bots -> BOOLEAN] /\ hasResult' \in [Bots -> BOOLEAN]
      BY <1>3 DEF ClaimPopped, GenMove, StartSearch, OnSearchBegun, ApplyFocus, TypeOK
    <2>5. botFocus' \in [Bots -> Focuses]
      <3>1. CASE ApplyFocus(b)
        <4>1. has[b] \in Requests
          BY <3>1 DEF ApplyFocus, TypeOK, Requests
        <4> QED
          BY <3>1, <4>1 DEF ApplyFocus, TypeOK
      <3> QED
        BY <1>3, <3>1 DEF ClaimPopped, GenMove, StartSearch, OnSearchBegun, TypeOK
    <2>6. UNCHANGED <<toAnalyzeQueue, toWriteQueue, opened, has, isKilled>> /\ OthersUnchanged
      BY <1>3 DEF ClaimPopped, GenMove, StartSearch, OnSearchBegun, ApplyFocus
    <2> QED
      BY <2>2, <2>3, <2>4, <2>5, <2>6 DEF TypeOK
  <1>4. CASE SearchStops(b) \/ SearchFinishes(b) \/ Report(b)
    <2>1. PICK place \in {"report", "clear"} : Goto(b, place)
      BY <1>4 DEF SearchStops, SearchFinishes, SearchEnds, Report
    <2>2. at' \in [Bots -> Places]
      BY <1>1, <2>1 DEF Places
    <2>3. hasResult' \in [Bots -> BOOLEAN]
      BY <1>4 DEF SearchStops, SearchFinishes, SearchEnds, Report, TypeOK
    <2>4. toWriteQueue' \in Seq(Requests)
      <3>1. CASE Report(b)
        <4>1. has[b] \in Requests
          BY <3>1 DEF Report, TypeOK, Requests
        <4>2. pushToWrite(has[b]) \/ UNCHANGED toWriteQueue
          BY <3>1 DEF Report
        <4> QED
          BY <4>1, <4>2, TypePush DEF TypeOK
      <3> QED
        BY <1>4, <3>1 DEF SearchStops, SearchFinishes, SearchEnds, TypeOK
    <2>5. UNCHANGED <<status, toAnalyzeQueue, opened, has, shouldStopNow, isKilled, botFocus>> /\ OthersUnchanged
      BY <1>4 DEF SearchStops, SearchFinishes, SearchEnds, Report
    <2> QED
      BY <2>2, <2>3, <2>4, <2>5 DEF TypeOK
  <1>5. CASE ClearSearch(b) \/ Erase(b)
    <2>1. PICK place \in {"erase", "delete"} : Goto(b, place)
      BY <1>5 DEF ClearSearch, Erase
    <2>2. at' \in [Bots -> Places]
      BY <1>1, <2>1 DEF Places
    <2>3. shouldStopNow' \in [Bots -> BOOLEAN] /\ hasResult' \in [Bots -> BOOLEAN]
      BY <1>5 DEF ClearSearch, Erase, TypeOK
    <2>4. openRequests' \subseteq Requests /\ deleted' \subseteq Requests
      BY <1>5 DEF ClearSearch, Erase, TypeOK
    <2>5. UNCHANGED <<status, toAnalyzeQueue, toWriteQueue, has, isKilled, botFocus>> /\ OthersUnchanged
      BY <1>5 DEF ClearSearch, Erase
    <2> QED
      BY <2>2, <2>3, <2>4, <2>5 DEF TypeOK
  <1> QED
    BY <1>2, <1>3, <1>4, <1>5 DEF AnalysisThread

LEMMA TypeRequestLoop ==
  ASSUME TypeOK, UserAsks \/ RequestLoop,
         api \in {"enqueue", "terminate", "act", "setFocus", "focusBot"} => Least(todo) \in Requests
  PROVE  TypeOK'
  <1> USE DEF requests, opened, analyze, output, writer, bots, loop
  <1>1. ASSUME NEW n \in 1..MaxTurns, OpenQuery(n) PROVE TypeOK'
    <2> DEFINE new == numRequests + 1 .. numRequests + n
    <2>1. new \subseteq Requests /\ numRequests + n \in 0..MaxRequests
      BY <1>1, BoundsAssumption DEF OpenQuery, TypeOK, Requests
    <2>2. requestFocus' \in [Requests -> Focuses]
      BY <1>1 DEF OpenQuery, TypeOK
    <2> HIDE DEF new
    <2>3. numRequests' = numRequests + n /\ openRequests' = openRequests \cup new /\ todo' = new
      BY <1>1 DEF OpenQuery, new
    <2> QED
      BY <1>1, <2>1, <2>2, <2>3 DEF OpenQuery, TypeOK, LoopPlaces
  <1>2. CASE Enqueue
    BY <1>2 DEF Enqueue, TypeOK, LoopPlaces
  <1>3. CASE StartAction("terminate") \/ StartAction("setFocus")
    BY <1>3 DEF StartAction, TypeOK, LoopPlaces
  <1>4. CASE Terminate
    <2>1. status' \in [Requests -> Statuses] /\ prevStatus' \in Statuses
      BY <1>4 DEF Terminate, TypeOK, Statuses
    <2> QED
      BY <1>4, <2>1 DEF Terminate, TypeOK, LoopPlaces
  <1>5. ASSUME NEW where \in {"terminate", "setFocus"}, NextOf(where)
        PROVE  api' \in LoopPlaces /\ mutexHeld' \in BOOLEAN /\ todo' \subseteq (Requests \cup Bots)
    BY <1>5 DEF NextOf, TypeOK, LoopPlaces
  <1>6. CASE ActOnTerminated
    <2>1. toWriteQueue' \in Seq(Requests)
      <3>1. pushToWrite(Least(todo)) \/ UNCHANGED toWriteQueue
        BY <1>6 DEF ActOnTerminated
      <3> QED
        BY <1>6, <3>1, TypePush DEF ActOnTerminated, TypeOK
    <2>2. shouldStopNow' \in [Bots -> BOOLEAN]
      BY <1>6 DEF ActOnTerminated, TypeOK
    <2>3. NextOf("terminate") /\ UNCHANGED <<requests, status, requestFocus, opened, analyze, writeReadOnly,
                 writer, at, has, isKilled, botFocus, hasResult, prevStatus, newFocus>>
      BY <1>6 DEF ActOnTerminated
    <2> QED
      BY <1>5, <2>1, <2>2, <2>3 DEF TypeOK
  <1>7. CASE WriteFocus
    BY <1>7 DEF WriteFocus, TypeOK, LoopPlaces
  <1>8. CASE FocusBot
    <2>1. botFocus' \in [Bots -> Focuses] /\ NextOf("setFocus")
      BY <1>8 DEF FocusBot, TypeOK
    <2> QED
      BY <1>5, <1>8, <2>1 DEF FocusBot, TypeOK
  <1>9. ASSUME NEW to \in LoopPlaces, NEW from, Shutdown(from, to),
               writeReadOnly' \in BOOLEAN, analyzeReadOnly' \in BOOLEAN, todo' \subseteq (Requests \cup Bots),
               shouldStopNow' \in [Bots -> BOOLEAN], isKilled' \in [Bots -> BOOLEAN]
        PROVE  TypeOK'
    BY <1>9 DEF Shutdown, TypeOK
  <1>10. CASE EndOfInput \/ CloseQueue \/ Join \/ JoinWriter
    <2>1. PICK from, to \in {"read", "closeQueue", "join", "stopBots", "joinWriter", "done"} : Shutdown(from, to)
      BY <1>10 DEF EndOfInput, CloseQueue, Join, JoinWriter
    <2>2. writeReadOnly' \in BOOLEAN /\ analyzeReadOnly' \in BOOLEAN
      BY <1>10, BoundsAssumption DEF EndOfInput, CloseQueue, Join, JoinWriter, TypeOK
    <2>3. todo' \subseteq (Requests \cup Bots) /\ UNCHANGED <<shouldStopNow, isKilled>>
      BY <1>10 DEF EndOfInput, CloseQueue, Join, JoinWriter, BotsUnchanged, TypeOK
    <2>4. to \in LoopPlaces
      BY DEF LoopPlaces
    <2> QED
      BY <1>9, <2>1, <2>2, <2>3, <2>4 DEF TypeOK
  <1>11. ASSUME NEW b \in Bots, StopBot(b) \/ KillBot(b) PROVE TypeOK'
    <2>1. PICK from, to \in {"stopBots", "killBots", "join"} : Shutdown(from, to)
      BY <1>11 DEF StopBot, KillBot
    <2>2. UNCHANGED <<writeReadOnly, analyzeReadOnly>>
      BY <1>11 DEF StopBot, KillBot
    <2>3. shouldStopNow' \in [Bots -> BOOLEAN] /\ isKilled' \in [Bots -> BOOLEAN]
      BY <1>11 DEF StopBot, KillBot, TypeOK
    <2>4. todo' \subseteq (Requests \cup Bots)
      BY <1>11 DEF StopBot, KillBot, TypeOK
    <2>5. to \in LoopPlaces
      BY DEF LoopPlaces
    <2> QED
      BY <1>9, <2>1, <2>2, <2>3, <2>4, <2>5 DEF TypeOK
  <1> QED
    BY <1>1, <1>2, <1>3, <1>4, <1>6, <1>7, <1>8, <1>10, <1>11 DEF UserAsks, RequestLoop

LEMMA TypeWriter == ASSUME TypeOK, WriteThread PROVE TypeOK'
  <1> USE DEF requests, opened, analyze, output, bots, loop
  <1>1. CASE Write
    <2>1. Head(toWriteQueue) \in Requests /\ Tail(toWriteQueue) \in Seq(Requests)
      BY <1>1, HeadTailProperties DEF Write, TypeOK
    <2>2. printed' \in [Requests -> Nat]
      BY <1>1, <2>1 DEF Write, TypeOK
    <2> QED
      BY <1>1, <2>1, <2>2 DEF Write, TypeOK
  <1>2. CASE WriteExit
    BY <1>2 DEF WriteExit, TypeOK
  <1> QED
    BY <1>1, <1>2 DEF WriteThread

-----------------------------------------------------------------------------
(* Who has a request *)

(* Where the request loop holds the mutex, where it shuts down, and where  *)
(* an analysis thread has claimed a request and not yet reported on it.    *)
Acting == {"terminate", "act", "setFocus", "focusBot"}
Closed == {"closeQueue", "stopBots", "killBots", "join", "joinWriter", "done"}
Working == {"genMove", "start", "begin", "focus", "search", "report"}

(* An open request is in the queue, about to be queued or with one thread, *)
(* and the request loop acts on open requests only.                        *)
LoopOwns ==
  /\ mutexHeld <=> api \in Acting
  /\ api \in Acting \cup {"enqueue"} => todo # {} /\ todo \subseteq openRequests
  /\ api = "enqueue" => todo \cap toAnalyzeQueue = {}
RequestsKnown ==
  /\ openRequests \subseteq 1 .. numRequests /\ deleted \subseteq 1 .. numRequests
  /\ deleted \cap openRequests = {} /\ toAnalyzeQueue \subseteq openRequests
ThreadOwns(b) ==
  /\ has[b] = 0 <=> at[b] \in {"pop", "exited"}
  /\ has[b] # 0 =>
       /\ has[b] \notin toAnalyzeQueue /\ has[b] \notin deleted /\ has[b] <= numRequests
       /\ has[b] \in openRequests <=> at[b] # "delete"
       /\ api = "enqueue" => has[b] \notin todo
  /\ \A c \in Bots : has[b] # 0 /\ has[c] = has[b] => c = b
OwnInv == LoopOwns /\ RequestsKnown /\ \A b \in Bots : ThreadOwns(b)

LEMMA LeastTodo ==
  ASSUME TypeOK, OwnInv, api \in Acting \cup {"enqueue"}
  PROVE  Least(todo) \in todo /\ Least(todo) \in openRequests /\ Least(todo) \in Requests
  <1>1. todo # {} /\ todo \subseteq openRequests /\ openRequests \subseteq Requests
    BY DEF OwnInv, LoopOwns, TypeOK
  <1>2. todo \subseteq Nat
    BY <1>1 DEF Requests
  <1> QED
    BY <1>1, <1>2, LeastIn

LEMMA HasTyped ==
  ASSUME TypeOK, OwnInv, NEW b \in Bots
  PROVE  /\ at[b] \notin {"pop", "exited"} => has[b] \in Requests
         /\ at[b] \notin {"pop", "exited", "delete"} => has[b] \in openRequests
  BY DEF OwnInv, ThreadOwns, TypeOK, Requests

LEMMA TypeStep == TypeOK /\ OwnInv /\ [Next]_vars => TypeOK'
  <1> SUFFICES ASSUME TypeOK, OwnInv, [Next]_vars PROVE TypeOK'
    OBVIOUS
  <1>1. CASE UNCHANGED vars
    BY <1>1 DEF vars, TypeOK
  <1>2. ASSUME NEW b \in Bots, AnalysisThread(b) \/ SearchFinishes(b) PROVE TypeOK'
    <2>1. at[b] # "exited"
      BY <1>2 DEF AnalysisThread, SearchFinishes, SearchEnds, SearchStops, Pop, Exit, ClaimPopped,
                  GenMove, StartSearch, OnSearchBegun, ApplyFocus, Report, ClearSearch, Erase, Delete
    <2> QED
      BY <1>2, <2>1, TypeThread DEF OwnInv, ThreadOwns
  <1>3. CASE UserAsks \/ RequestLoop
    BY <1>3, LeastTodo, TypeRequestLoop DEF Acting
  <1> QED
    BY <1>1, <1>2, <1>3, TypeWriter DEF Next, Ended

(* Steps that leave requests where they are. *)
LEMMA OwnQuiet ==
  ASSUME OwnInv,
         UNCHANGED <<numRequests, opened, toAnalyzeQueue, has>>,
         mutexHeld' <=> api' \in Acting,
         api' \in Acting \cup {"enqueue"} =>
           api \in Acting \cup {"enqueue"} /\ todo' # {} /\ todo' \subseteq todo,
         api' = "enqueue" => api = "enqueue",
         \A b \in Bots : /\ at[b]' \in {"pop", "exited"} <=> at[b] \in {"pop", "exited"}
                         /\ at[b]' = "delete" <=> at[b] = "delete"
  PROVE  OwnInv'
  BY DEF OwnInv, LoopOwns, RequestsKnown, ThreadOwns, opened

LEMMA OwnThread ==
  ASSUME TypeOK, OwnInv, NEW b \in Bots, AnalysisThread(b) \/ SearchFinishes(b)
  PROVE  OwnInv'
  <1> USE DEF OthersUnchanged, requests, opened, loop
  <1>1. UNCHANGED <<numRequests, mutexHeld, api, todo>>
    BY DEF AnalysisThread, SearchFinishes, SearchEnds, SearchStops, Pop, Exit, ClaimPopped,
           GenMove, StartSearch, OnSearchBegun, ApplyFocus, Report, ClearSearch, Erase, Delete
  <1>2. ASSUME NEW place, Goto(b, place)
        PROVE  \A c \in Bots : at'[c] = IF c = b THEN place ELSE at[c]
    BY <1>2 DEF Goto, TypeOK
  <1>3. ASSUME UNCHANGED <<openRequests, deleted, toAnalyzeQueue, has>>,
               at[b] \notin {"pop", "exited", "delete"},
               \E place : place \notin {"pop", "exited", "delete"} /\ Goto(b, place)
        PROVE  OwnInv'
    <2>1. \A c \in Bots : /\ at[c]' \in {"pop", "exited"} <=> at[c] \in {"pop", "exited"}
                          /\ at[c]' = "delete" <=> at[c] = "delete"
      BY <1>2, <1>3
    <2>2. mutexHeld' <=> api' \in Acting
      BY <1>1 DEF OwnInv, LoopOwns
    <2>3. api' \in Acting \cup {"enqueue"} => todo' # {} /\ todo' \subseteq todo
      BY <1>1 DEF OwnInv, LoopOwns
    <2> QED
      BY <1>1, <1>3, <2>1, <2>2, <2>3, OwnQuiet
  <1>4. CASE \/ ClaimPopped(b) \/ GenMove(b) \/ StartSearch(b) \/ OnSearchBegun(b) \/ ApplyFocus(b)
             \/ SearchStops(b) \/ SearchFinishes(b) \/ Report(b) \/ ClearSearch(b)
    <2>1. UNCHANGED <<openRequests, deleted, toAnalyzeQueue, has>> /\ at[b] \notin {"pop", "exited", "delete"}
      BY <1>4 DEF SearchFinishes, SearchEnds, SearchStops, ClaimPopped, GenMove, StartSearch,
                  OnSearchBegun, ApplyFocus, Report, ClearSearch
    <2>2. \E place \in {"genMove", "clear", "report", "start", "begin", "focus", "search", "erase"} : Goto(b, place)
      BY <1>4 DEF SearchFinishes, SearchEnds, SearchStops, ClaimPopped, GenMove, StartSearch,
                  OnSearchBegun, ApplyFocus, Report, ClearSearch
    <2> QED
      BY <1>3, <2>1, <2>2
  <1> USE DEF OwnInv, LoopOwns, RequestsKnown, ThreadOwns
  <1>5. CASE Pop(b)
    <2>1. PICK r \in toAnalyzeQueue : has' = [has EXCEPT ![b] = r] /\ toAnalyzeQueue' = toAnalyzeQueue \ {r}
      BY <1>5 DEF Pop
    <2>2. /\ \A c \in Bots : at'[c] = IF c = b THEN "popped" ELSE at[c]
          /\ at[b] = "pop" /\ UNCHANGED <<openRequests, deleted>>
      BY <1>2, <1>5 DEF Pop
    <2>3. \A c \in Bots : has'[c] = IF c = b THEN r ELSE has[c]
      BY <2>1 DEF TypeOK
    <2>4. r \in openRequests /\ r # 0 /\ r <= numRequests
      BY DEF TypeOK, Requests
    <2>5. LoopOwns' /\ RequestsKnown'
      BY <1>1, <2>1, <2>2
    <2>6. ASSUME NEW c \in Bots PROVE ThreadOwns(c)'
      BY <1>1, <2>1, <2>2, <2>3, <2>4
    <2> QED
      BY <2>5, <2>6
  <1>6. CASE Exit(b)
    <2>1. /\ \A c \in Bots : at'[c] = IF c = b THEN "exited" ELSE at[c]
          /\ at[b] = "pop" /\ UNCHANGED <<openRequests, deleted, toAnalyzeQueue, has>>
      BY <1>2, <1>6 DEF Exit
    <2> QED
      BY <1>1, <2>1
  <1>7. CASE Erase(b)
    <2>1. /\ \A c \in Bots : at'[c] = IF c = b THEN "delete" ELSE at[c]
          /\ at[b] = "erase" /\ ~mutexHeld /\ openRequests' = openRequests \ {has[b]}
          /\ UNCHANGED <<deleted, toAnalyzeQueue, has>>
      BY <1>2, <1>7 DEF Erase
    <2>2. LoopOwns' /\ RequestsKnown'
      BY <1>1, <2>1
    <2>3. ASSUME NEW c \in Bots PROVE ThreadOwns(c)'
      BY <1>1, <2>1
    <2> QED
      BY <2>2, <2>3
  <1>8. CASE Delete(b)
    <2>1. /\ \A c \in Bots : at'[c] = IF c = b THEN "pop" ELSE at[c]
          /\ at[b] = "delete" /\ deleted' = deleted \cup {has[b]}
          /\ UNCHANGED <<openRequests, toAnalyzeQueue>>
      BY <1>2, <1>8 DEF Delete
    <2>2. \A c \in Bots : has'[c] = IF c = b THEN 0 ELSE has[c]
      BY <1>8 DEF Delete, TypeOK
    <2>3. has[b] \in 1 .. numRequests
      <3>1. has[b] # 0 /\ has[b] <= numRequests
        BY <2>1
      <3>2. has[b] \in 0 .. MaxRequests /\ numRequests \in Int
        BY DEF TypeOK
      <3> QED
        BY ONLY <3>1, <3>2, BoundsAssumption
    <2>4. LoopOwns' /\ RequestsKnown'
      BY <1>1, <2>1, <2>3
    <2>5. ASSUME NEW c \in Bots PROVE ThreadOwns(c)'
      BY <1>1, <2>1, <2>2, <2>3
    <2> QED
      BY <2>4, <2>5
  <1> QED
    BY <1>4, <1>5, <1>6, <1>7, <1>8 DEF AnalysisThread

LEMMA OwnRequestLoop ==
  ASSUME TypeOK, OwnInv, UserAsks \/ RequestLoop
  PROVE  OwnInv'
  <1> USE DEF requests, opened, analyze, bots, loop
  <1>1. ASSUME NEW n \in 1..MaxTurns, OpenQuery(n) PROVE OwnInv'
    <2> DEFINE new == numRequests + 1 .. numRequests + n
    <2>1. /\ api = "read" /\ api' = "enqueue" /\ numRequests' = numRequests + n
          /\ openRequests' = openRequests \cup new /\ todo' = new
          /\ UNCHANGED <<mutexHeld, deleted, toAnalyzeQueue, at, has>>
      BY <1>1 DEF OpenQuery
    <2>2. new # {} /\ numRequests \in Nat /\ \A r \in new : r > numRequests /\ r <= numRequests'
      <3>1. numRequests \in Nat /\ n \in Nat /\ n >= 1
        BY BoundsAssumption DEF TypeOK
      <3>2. numRequests + 1 \in new
        BY <3>1
      <3>3. \A r \in new : r > numRequests /\ r <= numRequests'
        BY <2>1, <3>1
      <3> QED
        BY <3>1, <3>2, <3>3
    <2> HIDE DEF new
    <2>3. \A r \in 1 .. numRequests : r \notin new
      BY <2>2
    <2>4. LoopOwns'
      BY <2>1, <2>2, <2>3 DEF OwnInv, LoopOwns, RequestsKnown, Acting
    <2>5. RequestsKnown'
      <3>1. new \subseteq 1 .. numRequests' /\ 1 .. numRequests \subseteq 1 .. numRequests'
        BY <2>1, <2>2 DEF new
      <3> QED
        BY <2>1, <2>3, <3>1 DEF OwnInv, RequestsKnown
    <2>6. ASSUME NEW b \in Bots PROVE ThreadOwns(b)'
      <3>1. has[b] # 0 => has[b] \in 1 .. numRequests /\ has[b] \notin new /\ has[b] <= numRequests'
        BY <2>1, <2>2 DEF OwnInv, ThreadOwns, TypeOK
      <3> QED
        BY <2>1, <3>1 DEF OwnInv, ThreadOwns
    <2> QED
      BY <2>4, <2>5, <2>6 DEF OwnInv
  <1>2. CASE Enqueue
    <2>1. Least(todo) \in todo /\ Least(todo) \in openRequests
      BY <1>2, LeastTodo DEF Enqueue
    <2>2. /\ api = "enqueue" /\ toAnalyzeQueue' = toAnalyzeQueue \cup {Least(todo)}
          /\ todo' = todo \ {Least(todo)} /\ api' \in {"read", "enqueue"}
          /\ UNCHANGED <<numRequests, openRequests, deleted, mutexHeld, at, has>>
      BY <1>2 DEF Enqueue
    <2>3. api' = "enqueue" => todo' # {}
      <3>1. ASSUME todo' = {} PROVE Cardinality(todo) = 1
        <4>1. todo = {Least(todo)}
          BY <2>1, <2>2, <3>1
        <4> QED
          BY <4>1, FS_Singleton
      <3> QED
        BY <1>2, <3>1 DEF Enqueue
    <2> QED
      BY <2>1, <2>2, <2>3 DEF OwnInv, LoopOwns, RequestsKnown, ThreadOwns, Acting
  <1>3. ASSUME NEW where \in {"terminate", "setFocus"}, StartAction(where) PROVE OwnInv'
    <2>1. todo' # {} /\ todo' \subseteq openRequests /\ api' = where
      BY <1>3 DEF StartAction
    <2>2. mutexHeld' = TRUE
      BY <1>3 DEF StartAction
    <2>3. UNCHANGED <<numRequests, openRequests, deleted, toAnalyzeQueue, at, has>>
      BY <1>3 DEF StartAction
    <2> QED
      BY <2>1, <2>2, <2>3 DEF OwnInv, LoopOwns, RequestsKnown, ThreadOwns, Acting
  <1>4. CASE Terminate \/ WriteFocus
    <2>1. /\ api \in {"terminate", "setFocus"} /\ api' \in {"act", "focusBot"}
          /\ UNCHANGED <<numRequests, openRequests, deleted, mutexHeld, toAnalyzeQueue, at, has, todo>>
      BY <1>4 DEF Terminate, WriteFocus
    <2> QED
      BY <2>1 DEF OwnInv, LoopOwns, RequestsKnown, ThreadOwns, Acting
  <1>5. CASE ActOnTerminated \/ FocusBot
    <2>1. PICK where \in {"terminate", "setFocus"} : NextOf(where)
      BY <1>5 DEF ActOnTerminated, FocusBot
    <2>2. /\ api \in {"act", "focusBot"}
          /\ UNCHANGED <<numRequests, openRequests, deleted, toAnalyzeQueue, at, has>>
      BY <1>5 DEF ActOnTerminated, FocusBot
    <2> QED
      BY <2>1, <2>2 DEF NextOf, OwnInv, LoopOwns, RequestsKnown, ThreadOwns, Acting
  <1>6. ASSUME NEW from \in Closed \cup {"read"}, NEW to \in Closed, Shutdown(from, to) PROVE OwnInv'
    BY <1>6 DEF Shutdown, OwnInv, LoopOwns, RequestsKnown, ThreadOwns, Acting, Closed
  <1>7. CASE EndOfInput \/ CloseQueue \/ Join \/ JoinWriter
    <2>1. PICK from \in Closed \cup {"read"}, to \in Closed : Shutdown(from, to)
      BY <1>7 DEF EndOfInput, CloseQueue, Join, JoinWriter, Closed
    <2> QED
      BY <1>6, <2>1
  <1>8. ASSUME NEW b \in Bots, StopBot(b) \/ KillBot(b) PROVE OwnInv'
    <2>1. PICK from \in Closed \cup {"read"}, to \in Closed : Shutdown(from, to)
      BY <1>8 DEF StopBot, KillBot, Closed
    <2> QED
      BY <1>6, <2>1
  <1> QED
    BY <1>1, <1>2, <1>3, <1>4, <1>5, <1>7, <1>8 DEF UserAsks, RequestLoop

LEMMA OwnStep == TypeOK /\ OwnInv /\ [Next]_vars => OwnInv'
  <1> SUFFICES ASSUME TypeOK, OwnInv, [Next]_vars PROVE OwnInv'
    OBVIOUS
  <1>1. CASE UNCHANGED vars
    BY <1>1 DEF vars, OwnInv, LoopOwns, RequestsKnown, ThreadOwns
  <1>2. CASE WriteThread
    <2>1. UNCHANGED <<numRequests, openRequests, deleted, mutexHeld, toAnalyzeQueue, at, has, api, todo>>
      BY <1>2 DEF WriteThread, Write, WriteExit, requests, opened, analyze, bots, loop
    <2> QED
      BY <2>1 DEF OwnInv, LoopOwns, RequestsKnown, ThreadOwns
  <1> QED
    BY <1>1, <1>2, OwnThread, OwnRequestLoop DEF Next, Ended

LEMMA OwnInit == Init => OwnInv
  BY DEF Init, OwnInv, LoopOwns, RequestsKnown, ThreadOwns, Acting

(* Requests, queues, threads and bots stay well-typed, for any number of   *)
(* threads, requests, priorities and focuses.                              *)
THEOREM AnalysisTypeCorrect == Spec => []TypeOK
  BY TypeInit, OwnInit, TypeStep, OwnStep, PTL DEF Spec

-----------------------------------------------------------------------------
(* What a status says *)

(* A status that names a bot is that of the request the bot has searched   *)
(* since; a claimed request was popped, and perhaps terminated, but never  *)
(* goes back; and a stop reaches a bot with the request it was meant for.  *)
Claimed == {"focus", "search", "report", "clear", "erase"}
NamesItsBot(r) == status[r] \in Bots => has[status[r]] = r /\ at[status[r]] \in Claimed
ActIsCurrent ==
  api = "act" =>
    /\ status[Least(todo)] = "TERMINATED"
    /\ prevStatus \in Bots => has[prevStatus] = Least(todo) /\ at[prevStatus] \in Claimed
    /\ prevStatus = "IN_QUEUE" => \A b \in Bots : has[b] = Least(todo) => at[b] \notin Working
StopIsMeant(b) ==
  at[b] \in {"start", "begin", "focus", "search"} /\ shouldStopNow[b] =>
    status[has[b]] = "TERMINATED" \/ (QuitWithoutWaiting /\ api \in Closed)
ClaimHolds(b) ==
  /\ at[b] \in {"genMove", "start", "begin"} => status[has[b]] \in {"POPPED", "TERMINATED"}
  /\ at[b] \in {"focus", "search"} => status[has[b]] \in {b, "TERMINATED"}
  /\ at[b] \in Working \cup {"clear", "erase"} => status[has[b]] # "IN_QUEUE"
PatientNeverStops ==
  ~QuitWithoutWaiting => api \notin {"closeQueue", "stopBots", "killBots"} /\ \A b \in Bots : ~isKilled[b]
StatusInv ==
  /\ \A r \in Requests : IF r > numRequests THEN status[r] = "IN_QUEUE"
                         ELSE r \in openRequests => NamesItsBot(r)
  /\ ActIsCurrent
  /\ \A b \in Bots : StopIsMeant(b) /\ ClaimHolds(b)
  /\ PatientNeverStops

LEMMA StatusInit == Init => StatusInv
  <1> SUFFICES ASSUME Init PROVE StatusInv
    OBVIOUS
  <1> USE DEF Init
  <1>1. \A r \in Requests : status[r] = "IN_QUEUE" /\ r \notin openRequests
    OBVIOUS
  <1>2. \A b \in Bots : at[b] = "pop" /\ isKilled[b] = FALSE
    OBVIOUS
  <1>3. api = "read"
    OBVIOUS
  <1> HIDE DEF Init
  <1> QED
    BY <1>1, <1>2, <1>3 DEF StatusInv, ActIsCurrent, StopIsMeant, ClaimHolds, PatientNeverStops, Working

(* Threads other than b keep what is said of them while b goes on.         *)
LEMMA StatusOther ==
  ASSUME TypeOK, OwnInv, StatusInv, NEW b \in Bots, at[b] \notin {"pop", "exited"},
         NEW c \in Bots \ {b}, at'[c] = at[c], has'[c] = has[c],
         shouldStopNow'[c] = shouldStopNow[c], UNCHANGED <<api, isKilled>>,
         \A r \in Requests : r # has[b] => status'[r] = status[r]
  PROVE  StopIsMeant(c)' /\ ClaimHolds(c)'
  <1>1. CASE at[c] \in Working \cup {"clear", "erase"}
    <2>1. has[c] \in Requests /\ has[c] # has[b]
      BY <1>1, HasTyped DEF OwnInv, ThreadOwns, Working
    <2> QED
      BY <2>1 DEF StatusInv, StopIsMeant, ClaimHolds
  <1>2. CASE at[c] \notin Working \cup {"clear", "erase"}
    BY <1>2 DEF StopIsMeant, ClaimHolds, Working
  <1> QED
    BY <1>1, <1>2

(* A thread that has a request goes on with it.                            *)
LEMMA StatusGoes ==
  ASSUME TypeOK, OwnInv, StatusInv, NEW b \in Bots, at[b] \notin {"pop", "exited", "delete"},
         NEW place \in {"genMove", "start", "begin", "focus", "search", "report", "clear", "erase"},
         Goto(b, place), UNCHANGED <<numRequests, openRequests, has, api, todo, prevStatus, isKilled>>,
         NEW s \in Statuses, status' = [status EXCEPT ![has[b]] = s],
         \A c \in Bots : c # b => shouldStopNow'[c] = shouldStopNow[c],
         at[b] \in Claimed => place \in Claimed /\ s = status[has[b]],
         s \in Bots => s = b /\ place \in Claimed,
         s # status[has[b]] => status[has[b]] # "TERMINATED",
         place \in Working => at[b] \in Working \/ status[has[b]] = "IN_QUEUE",
         StopIsMeant(b)', ClaimHolds(b)'
  PROVE  StatusInv'
  <1>1. \A c \in Bots : at'[c] = IF c = b THEN place ELSE at[c]
    BY DEF Goto, TypeOK
  <1>2. has[b] \in Requests /\ has[b] \in openRequests
    BY HasTyped
  <1>3. \A r \in Requests : status'[r] = IF r = has[b] THEN s ELSE status[r]
    BY DEF TypeOK
  <1>4. \A r \in Requests : IF r > numRequests' THEN status'[r] = "IN_QUEUE"
                            ELSE r \in openRequests' => NamesItsBot(r)'
    <2> SUFFICES ASSUME NEW r \in Requests
                 PROVE  IF r > numRequests' THEN status'[r] = "IN_QUEUE"
                        ELSE r \in openRequests' => NamesItsBot(r)'
      OBVIOUS
    <2>1. CASE r = has[b]
      <3>1. ~(r > numRequests)
        BY <1>2, <2>1 DEF OwnInv, RequestsKnown, TypeOK, Requests
      <3>2. status'[r] = s
        BY <1>3, <2>1
      <3> QED
        BY <1>1, <2>1, <3>1, <3>2 DEF NamesItsBot
    <2>2. CASE r # has[b]
      <3>1. status'[r] = status[r]
        BY <1>3, <2>2
      <3>2. ASSUME r \in openRequests, ~(r > numRequests) PROVE NamesItsBot(r)'
        <4>1. status[r] \in Bots => status[r] # b
          BY <2>2, <3>2 DEF StatusInv, NamesItsBot
        <4> QED
          BY <1>1, <3>1, <3>2, <4>1 DEF StatusInv, NamesItsBot
      <3> QED
        BY <3>1, <3>2 DEF StatusInv
    <2> QED
      BY <2>1, <2>2
  <1>5. ActIsCurrent'
    <2> SUFFICES ASSUME api = "act" PROVE ActIsCurrent'
      BY DEF ActIsCurrent
    <2>1. Least(todo) \in Requests /\ status[Least(todo)] = "TERMINATED"
      BY LeastTodo DEF Acting, StatusInv, ActIsCurrent
    <2>2. status'[Least(todo)] = "TERMINATED"
      BY <1>3, <2>1
    <2>3. prevStatus \in Bots => at'[prevStatus] \in Claimed
      BY <1>1 DEF StatusInv, ActIsCurrent
    <2>4. ASSUME prevStatus = "IN_QUEUE", NEW c \in Bots, has[c] = Least(todo) PROVE at'[c] \notin Working
      BY <1>1, <2>1, <2>4 DEF StatusInv, ActIsCurrent
    <2> QED
      BY <2>2, <2>3, <2>4 DEF StatusInv, ActIsCurrent
  <1>6. \A c \in Bots \ {b} : StopIsMeant(c)' /\ ClaimHolds(c)'
    BY <1>1, <1>3, StatusOther
  <1> QED
    BY <1>4, <1>5, <1>6 DEF StatusInv, PatientNeverStops

LEMMA StatusThread ==
  ASSUME TypeOK, OwnInv, StatusInv, NEW b \in Bots, AnalysisThread(b) \/ SearchFinishes(b)
  PROVE  StatusInv'
  <1> USE DEF OthersUnchanged, requests, opened, loop
  <1>1. UNCHANGED <<numRequests, api, todo, prevStatus, isKilled>>
    BY DEF AnalysisThread, SearchFinishes, SearchEnds, SearchStops, Pop, Exit, ClaimPopped,
           GenMove, StartSearch, OnSearchBegun, ApplyFocus, Report, ClearSearch, Erase, Delete
  <1>2. UNCHANGED status => status' = [status EXCEPT ![has[b]] = status[has[b]]]
    BY DEF TypeOK
  <1>3. at[b] \notin {"pop", "exited"} => has[b] \in Requests /\ status[has[b]] \in Statuses
    BY HasTyped DEF TypeOK
  <1>4. ASSUME UNCHANGED <<status, shouldStopNow>> \/ UNCHANGED status,
               UNCHANGED <<openRequests, has>>, at[b] \notin {"pop", "exited", "delete"},
               \A c \in Bots : c # b => shouldStopNow'[c] = shouldStopNow[c],
               NEW place \in {"genMove", "start", "begin", "focus", "search", "report", "clear", "erase"},
               Goto(b, place), at[b] \in Claimed => place \in Claimed,
               status[has[b]] \in Bots => status[has[b]] = b /\ place \in Claimed,
               place \in Working => at[b] \in Working,
               StopIsMeant(b)', ClaimHolds(b)'
        PROVE  StatusInv'
    <2>1. status[has[b]] \in Statuses /\ status' = [status EXCEPT ![has[b]] = status[has[b]]]
      BY <1>2, <1>3, <1>4
    <2> QED
      BY <1>1, <1>4, <2>1, StatusGoes
  <1>5. at[b] \notin {"pop", "exited", "delete"} /\ status[has[b]] \in Bots =>
          status[has[b]] = b /\ at[b] \in Claimed
    <2> SUFFICES ASSUME at[b] \notin {"pop", "exited", "delete"}, status[has[b]] \in Bots
                 PROVE  status[has[b]] = b /\ at[b] \in Claimed
      OBVIOUS
    <2>1. has[b] \in Requests /\ has[b] \in openRequests
      BY HasTyped
    <2>2. ~(has[b] > numRequests)
      BY <2>1 DEF OwnInv, RequestsKnown, TypeOK, Requests
    <2>3. NamesItsBot(has[b])
      BY <2>1, <2>2 DEF StatusInv
    <2>4. \A c \in Bots : has[c] = has[b] => c = b
      BY <2>1 DEF OwnInv, ThreadOwns, Requests
    <2> QED
      BY <2>3, <2>4 DEF NamesItsBot
  <1>6. StopIsMeant(b) /\ ClaimHolds(b)
    BY DEF StatusInv
  <1>7. ASSUME NEW place, Goto(b, place) PROVE at'[b] = place
    BY <1>7 DEF Goto, TypeOK
  <1>8. CASE ClaimPopped(b)
    <2>1. at[b] = "popped" /\ UNCHANGED <<openRequests, has>>
      BY <1>8 DEF ClaimPopped
    <2>2. \A c \in Bots : c # b => shouldStopNow'[c] = shouldStopNow[c]
      BY <1>8 DEF ClaimPopped, TypeOK
    <2>3. CASE status[has[b]] = "IN_QUEUE"
      <3>1. Goto(b, "genMove") /\ status' = [status EXCEPT ![has[b]] = "POPPED"]
        BY <1>8, <2>3 DEF ClaimPopped
      <3>2. at'[b] = "genMove" /\ status'[has'[b]] = "POPPED"
        BY <1>3, <1>7, <2>1, <3>1 DEF TypeOK
      <3>3. StopIsMeant(b)' /\ ClaimHolds(b)'
        BY <3>2 DEF StopIsMeant, ClaimHolds
      <3>4. "POPPED" \in Statuses /\ "POPPED" \notin Bots
        BY BoundsAssumption DEF Statuses
      <3>5. at[b] \notin Claimed
        BY <2>1 DEF Claimed
      <3> QED
        BY <1>1, <2>1, <2>2, <2>3, <3>1, <3>3, <3>4, <3>5, StatusGoes
    <2>4. CASE status[has[b]] # "IN_QUEUE"
      <3>1. Goto(b, "clear") /\ UNCHANGED <<status, shouldStopNow>>
        BY <1>8, <2>4 DEF ClaimPopped
      <3>2. at'[b] = "clear" /\ status'[has'[b]] # "IN_QUEUE"
        BY <1>7, <2>1, <2>4, <3>1
      <3>3. StopIsMeant(b)' /\ ClaimHolds(b)'
        BY <3>2 DEF StopIsMeant, ClaimHolds
      <3> QED
        BY <1>4, <1>5, <2>1, <2>2, <3>1, <3>3 DEF Claimed, Working
    <2> QED
      BY <2>3, <2>4
  <1>9. CASE GenMove(b) \/ StartSearch(b)
    <2>1. at[b] \in {"genMove", "start"} /\ UNCHANGED <<openRequests, has, status>>
      BY <1>9 DEF GenMove, StartSearch
    <2>2. \A c \in Bots : c # b => shouldStopNow'[c] = shouldStopNow[c]
      BY <1>9 DEF GenMove, StartSearch, TypeOK
    <2>3. PICK place \in {"report", "start", "begin"} : Goto(b, place)
      BY <1>9 DEF GenMove, StartSearch
    <2>4. StopIsMeant(b)'
      <3>1. CASE GenMove(b)
        <4>1. shouldStopNow'[b] = isKilled[b]
          BY <3>1 DEF GenMove, TypeOK
        <4>2. isKilled[b] => at'[b] = "report"
          BY <1>7, <3>1 DEF GenMove
        <4> QED
          BY <4>1, <4>2 DEF StopIsMeant
      <3>2. CASE StartSearch(b)
        BY <1>1, <1>6, <1>7, <2>1, <3>2 DEF StartSearch, StopIsMeant
      <3> QED
        BY <1>9, <3>1, <3>2
    <2>5. ClaimHolds(b)'
      BY <1>6, <1>7, <2>1, <2>3 DEF ClaimHolds, Working
    <2> QED
      BY <1>4, <1>5, <2>1, <2>2, <2>3, <2>4, <2>5 DEF Claimed, Working
  <1>10. CASE OnSearchBegun(b)
    <2>1. at[b] = "begin" /\ UNCHANGED <<openRequests, has>> /\ Goto(b, "focus")
      BY <1>10 DEF OnSearchBegun
    <2>2. \A c \in Bots : c # b => shouldStopNow'[c] = shouldStopNow[c]
      BY <1>10 DEF OnSearchBegun, TypeOK
    <2>3. at'[b] = "focus"
      BY <1>7, <2>1
    <2>4. CASE status[has[b]] = "POPPED"
      <3>1. status' = [status EXCEPT ![has[b]] = b] /\ UNCHANGED shouldStopNow
        BY <1>10, <2>4 DEF OnSearchBegun
      <3>2. status'[has'[b]] = b /\ b # "IN_QUEUE" /\ b \in Statuses
        BY <1>3, <2>1, <3>1, BoundsAssumption DEF TypeOK, Statuses
      <3>3. StopIsMeant(b)' /\ ClaimHolds(b)'
        BY <1>1, <1>6, <2>1, <2>3, <2>4, <3>1, <3>2 DEF StopIsMeant, ClaimHolds
      <3> QED
        BY <1>1, <2>1, <2>2, <2>4, <3>1, <3>2, <3>3, StatusGoes DEF Claimed, Working
    <2>5. CASE status[has[b]] # "POPPED"
      <3>1. UNCHANGED status /\ status[has[b]] = "TERMINATED"
        BY <1>6, <1>10, <2>1, <2>5 DEF OnSearchBegun, ClaimHolds
      <3>2. StopIsMeant(b)' /\ ClaimHolds(b)'
        BY <2>1, <2>3, <3>1 DEF StopIsMeant, ClaimHolds
      <3> QED
        BY <1>4, <1>5, <2>1, <2>2, <3>1, <3>2 DEF Claimed, Working
    <2> QED
      BY <2>4, <2>5
  <1>11. CASE ApplyFocus(b) \/ SearchStops(b) \/ SearchFinishes(b) \/ Report(b) \/ ClearSearch(b)
    <2>1. at[b] \in {"focus", "search", "report", "clear"} /\ UNCHANGED <<openRequests, has, status>>
      BY <1>11 DEF ApplyFocus, SearchStops, SearchFinishes, SearchEnds, Report, ClearSearch
    <2>2. \A c \in Bots : c # b => shouldStopNow'[c] = shouldStopNow[c]
      BY <1>11 DEF ApplyFocus, SearchStops, SearchFinishes, SearchEnds, Report, ClearSearch, TypeOK
    <2>3. \/ at[b] = "focus" /\ Goto(b, "search") /\ UNCHANGED shouldStopNow
          \/ at[b] = "search" /\ Goto(b, "report")
          \/ at[b] = "report" /\ Goto(b, "clear")
          \/ at[b] = "clear" /\ Goto(b, "erase")
      BY <1>11 DEF ApplyFocus, SearchStops, SearchFinishes, SearchEnds, Report, ClearSearch
    <2>4. PICK place \in {"search", "report", "clear", "erase"} : Goto(b, place)
      BY <2>3
    <2>5. place \in Working => at[b] \in Working
      BY <1>7, <2>3, <2>4 DEF Working
    <2>6. StopIsMeant(b)'
      BY <1>1, <1>6, <1>7, <2>1, <2>3 DEF StopIsMeant
    <2>7. ClaimHolds(b)'
      BY <1>6, <1>7, <2>1, <2>3 DEF ClaimHolds, Working
    <2> QED
      BY <1>4, <1>5, <2>1, <2>2, <2>4, <2>5, <2>6, <2>7 DEF Claimed
  <1>12. CASE Pop(b) \/ Exit(b) \/ Erase(b) \/ Delete(b)
    <2>1. UNCHANGED <<status, shouldStopNow>> /\ openRequests' \subseteq openRequests
      BY <1>12 DEF Pop, Exit, Erase, Delete
    <2>2. PICK place \in {"popped", "exited", "delete", "pop"} : Goto(b, place)
      BY <1>12 DEF Pop, Exit, Erase, Delete
    <2>3. \A c \in Bots : /\ at'[c] = IF c = b THEN place ELSE at[c]
                          /\ c # b => has'[c] = has[c]
      BY <1>12, <2>2 DEF Pop, Exit, Erase, Delete, Goto, TypeOK
    <2>4. at[b] \notin Claimed \/ (at[b] = "erase" /\ openRequests' = openRequests \ {has[b]} /\ ~mutexHeld)
      BY <1>12 DEF Pop, Exit, Erase, Delete, Claimed
    <2>5. ASSUME NEW r \in Requests, ~(r > numRequests), r \in openRequests' PROVE NamesItsBot(r)'
      <3>1. NamesItsBot(r)
        BY <2>1, <2>5 DEF StatusInv
      <3>2. status[r] \in Bots => status[r] # b
        BY <2>4, <2>5, <3>1 DEF NamesItsBot
      <3> QED
        BY <2>1, <2>3, <3>1, <3>2 DEF NamesItsBot
    <2>6. ActIsCurrent'
      <3> SUFFICES ASSUME api = "act" PROVE ActIsCurrent'
        BY <1>1 DEF ActIsCurrent
      <3>1. at[b] \notin Claimed
        BY <2>4 DEF OwnInv, LoopOwns, Acting
      <3>2. prevStatus \in Bots => prevStatus # b
        BY <3>1 DEF StatusInv, ActIsCurrent
      <3> QED
        BY <1>1, <2>1, <2>3, <3>2 DEF StatusInv, ActIsCurrent, Working
    <2>7. \A c \in Bots : StopIsMeant(c)' /\ ClaimHolds(c)'
      BY <1>1, <2>1, <2>3 DEF StatusInv, StopIsMeant, ClaimHolds, Working
    <2> QED
      BY <1>1, <2>1, <2>5, <2>6, <2>7 DEF StatusInv, PatientNeverStops
  <1> QED
    BY <1>8, <1>9, <1>10, <1>11, <1>12 DEF AnalysisThread

(* The loop opens requests, changes the status of one, or stops the bot a  *)
(* status named, which is still at that request.                           *)
LEMMA StatusRequestLoop ==
  ASSUME TypeOK, OwnInv, StatusInv, UserAsks \/ RequestLoop
  PROVE  StatusInv'
  <1> USE DEF requests, opened, analyze, output, writer, bots, loop
  <1>1. "TERMINATED" \notin Bots /\ "IN_QUEUE" \notin Bots /\ \A b \in Bots : b # "TERMINATED"
    BY BoundsAssumption
  <1>2. \A b \in Bots : at[b] \in Working \cup Claimed => has[b] \in Requests
    BY HasTyped DEF Working, Claimed
  <1>3. ASSUME NEW n \in 1..MaxTurns, OpenQuery(n) PROVE StatusInv'
    <2> DEFINE new == numRequests + 1 .. numRequests + n
    <2>1. /\ numRequests' = numRequests + n /\ openRequests' = openRequests \cup new
          /\ api' = "enqueue" /\ api = "read"
          /\ UNCHANGED <<status, at, has, shouldStopNow, isKilled>>
      BY <1>3 DEF OpenQuery
    <2>2. numRequests \in Nat /\ \A r \in new : r > numRequests
      BY <1>3, BoundsAssumption DEF TypeOK
    <2> HIDE DEF new
    <2>3. \A r \in Requests : IF r > numRequests' THEN status'[r] = "IN_QUEUE"
                              ELSE r \in openRequests' => NamesItsBot(r)'
      <3> SUFFICES ASSUME NEW r \in Requests
                   PROVE  IF r > numRequests' THEN status'[r] = "IN_QUEUE"
                          ELSE r \in openRequests' => NamesItsBot(r)'
        OBVIOUS
      <3>1. r > numRequests' => r > numRequests
        BY <1>3, <2>1, <2>2 DEF Requests
      <3>2. NamesItsBot(r) => NamesItsBot(r)'
        BY <2>1 DEF NamesItsBot
      <3>3. r > numRequests => NamesItsBot(r)
        BY <1>1 DEF StatusInv, NamesItsBot
      <3> QED
        BY <2>1, <2>2, <3>1, <3>2, <3>3 DEF StatusInv
    <2>4. ActIsCurrent'
      BY <2>1 DEF ActIsCurrent
    <2>5. \A b \in Bots : StopIsMeant(b)' /\ ClaimHolds(b)'
      BY <2>1 DEF StatusInv, StopIsMeant, ClaimHolds, Closed
    <2> QED
      BY <2>1, <2>3, <2>4, <2>5 DEF StatusInv, PatientNeverStops
  <1>4. ASSUME UNCHANGED <<numRequests, openRequests, status, at, has, shouldStopNow, isKilled>>,
               api' # "act", api \in Closed => api' \in Closed, PatientNeverStops'
        PROVE  StatusInv'
    <2>1. \A r \in Requests : IF r > numRequests' THEN status'[r] = "IN_QUEUE"
                              ELSE r \in openRequests' => NamesItsBot(r)'
      BY <1>4 DEF StatusInv, NamesItsBot
    <2>2. \A b \in Bots : StopIsMeant(b)' /\ ClaimHolds(b)'
      BY <1>4 DEF StatusInv, StopIsMeant, ClaimHolds
    <2> QED
      BY <1>4, <2>1, <2>2 DEF StatusInv, ActIsCurrent
  <1>5. CASE Enqueue \/ StartAction("terminate") \/ StartAction("setFocus") \/ WriteFocus \/ FocusBot
    <2>1. UNCHANGED <<numRequests, openRequests, status, at, has, shouldStopNow, isKilled>>
      BY <1>5 DEF Enqueue, StartAction, WriteFocus, FocusBot
    <2>2. api' \in {"read", "enqueue", "terminate", "setFocus", "focusBot"} /\ api \notin Closed
      BY <1>5 DEF Enqueue, StartAction, WriteFocus, FocusBot, NextOf, Closed
    <2> QED
      BY <1>4, <2>1, <2>2 DEF StatusInv, PatientNeverStops
  <1>6. CASE EndOfInput \/ CloseQueue \/ Join \/ JoinWriter
    <2>1. UNCHANGED <<numRequests, openRequests, status, at, has, shouldStopNow, isKilled>>
      BY <1>6 DEF EndOfInput, CloseQueue, Join, JoinWriter, Shutdown, BotsUnchanged
    <2>2. api' \in Closed /\ (api' \in {"closeQueue", "stopBots", "killBots"} => QuitWithoutWaiting \/ api = "closeQueue")
      BY <1>6 DEF EndOfInput, CloseQueue, Join, JoinWriter, Shutdown, Closed
    <2>3. api' # "act"
      BY <2>2 DEF Closed
    <2> QED
      BY <1>4, <2>1, <2>2, <2>3 DEF StatusInv, PatientNeverStops
  <1>7. CASE Terminate
    <2> DEFINE l == Least(todo)
    <2>1. l \in openRequests /\ l \in Requests /\ ~(l > numRequests)
      <3>1. l \in openRequests /\ l \in Requests
        BY <1>7, LeastTodo DEF Terminate, Acting
      <3> QED
        BY <3>1 DEF OwnInv, RequestsKnown, TypeOK, Requests
    <2>2. /\ api = "terminate" /\ api' = "act" /\ prevStatus' = status[l]
          /\ UNCHANGED <<numRequests, openRequests, at, has, shouldStopNow, isKilled, todo>>
      BY <1>7 DEF Terminate
    <2>3. \A r \in Requests : status'[r] = IF r = l THEN "TERMINATED" ELSE status[r]
      BY <1>7 DEF Terminate, TypeOK
    <2> HIDE DEF l
    <2>4. Least(todo') = l
      BY <2>2 DEF l
    <2>5. \A r \in Requests : IF r > numRequests' THEN status'[r] = "IN_QUEUE"
                              ELSE r \in openRequests' => NamesItsBot(r)'
      BY <1>1, <2>1, <2>2, <2>3 DEF StatusInv, NamesItsBot
    <2>6. ActIsCurrent'
      <3>1. prevStatus' \in Bots => has'[prevStatus'] = l /\ at'[prevStatus'] \in Claimed
        BY <2>1, <2>2 DEF StatusInv, NamesItsBot
      <3>2. ASSUME prevStatus' = "IN_QUEUE", NEW b \in Bots, has[b] = l PROVE at[b] \notin Working
        BY <2>2, <3>2 DEF StatusInv, ClaimHolds
      <3> QED
        BY <2>1, <2>2, <2>3, <2>4, <3>1, <3>2 DEF ActIsCurrent
    <2>7. ASSUME NEW b \in Bots PROVE StopIsMeant(b)' /\ ClaimHolds(b)'
      <3>1. CASE at[b] \in Working \cup Claimed
        <4>1. status'[has'[b]] = status[has[b]] \/ status'[has'[b]] = "TERMINATED"
          BY <1>2, <2>2, <2>3, <3>1
        <4>2. StopIsMeant(b) /\ ClaimHolds(b) /\ api \notin Closed
          BY <2>2 DEF StatusInv, Closed
        <4> QED
          BY <2>2, <4>1, <4>2 DEF StopIsMeant, ClaimHolds
      <3>2. CASE at[b] \notin Working \cup Claimed
        BY <2>2, <3>2 DEF StopIsMeant, ClaimHolds, Working, Claimed
      <3> QED
        BY <3>1, <3>2
    <2> QED
      BY <2>2, <2>5, <2>6, <2>7 DEF StatusInv, PatientNeverStops
  <1>8. CASE ActOnTerminated
    <2>1. /\ UNCHANGED <<numRequests, openRequests, status, at, has, isKilled>>
          /\ api = "act" /\ api' \in {"read", "terminate"}
          /\ \A b \in Bots : shouldStopNow'[b] = (shouldStopNow[b] \/ b = prevStatus)
      BY <1>8 DEF ActOnTerminated, NextOf
    <2>2. \A r \in Requests : IF r > numRequests' THEN status'[r] = "IN_QUEUE"
                              ELSE r \in openRequests' => NamesItsBot(r)'
      BY <2>1 DEF StatusInv, NamesItsBot
    <2>3. ASSUME NEW b \in Bots PROVE StopIsMeant(b)'
      <3>1. CASE b = prevStatus
        <4>1. status[has[b]] = "TERMINATED"
          BY <2>1, <3>1 DEF StatusInv, ActIsCurrent
        <4> QED
          BY <2>1, <4>1 DEF StopIsMeant
      <3>2. CASE b # prevStatus
        <4>1. shouldStopNow'[b] = shouldStopNow[b]
          BY <2>1, <3>2 DEF TypeOK
        <4> QED
          BY <2>1, <4>1 DEF StatusInv, StopIsMeant, Closed
      <3> QED
        BY <3>1, <3>2
    <2>4. \A b \in Bots : ClaimHolds(b)'
      BY <2>1 DEF StatusInv, ClaimHolds
    <2> QED
      BY <2>1, <2>2, <2>3, <2>4 DEF StatusInv, ActIsCurrent, PatientNeverStops
  <1>9. ASSUME NEW b \in Bots, StopBot(b) \/ KillBot(b) PROVE StatusInv'
    <2>1. /\ UNCHANGED <<numRequests, openRequests, status, at, has>>
          /\ api \in {"stopBots", "killBots"} /\ api' \in {"stopBots", "killBots", "join"}
      BY <1>9 DEF StopBot, KillBot, Shutdown
    <2>2. QuitWithoutWaiting
      BY <2>1, BoundsAssumption DEF StatusInv, PatientNeverStops
    <2>3. \A r \in Requests : IF r > numRequests' THEN status'[r] = "IN_QUEUE"
                              ELSE r \in openRequests' => NamesItsBot(r)'
      BY <2>1 DEF StatusInv, NamesItsBot
    <2>4. \A c \in Bots : StopIsMeant(c)'
      BY <2>1, <2>2 DEF StopIsMeant, Closed
    <2>5. \A c \in Bots : ClaimHolds(c)'
      BY <2>1 DEF StatusInv, ClaimHolds
    <2> QED
      BY <2>1, <2>2, <2>3, <2>4, <2>5 DEF StatusInv, ActIsCurrent, PatientNeverStops
  <1> QED
    BY <1>3, <1>5, <1>6, <1>7, <1>8, <1>9 DEF UserAsks, RequestLoop

LEMMA StatusStep == TypeOK /\ OwnInv /\ StatusInv /\ [Next]_vars => StatusInv'
  <1> SUFFICES ASSUME TypeOK, OwnInv, StatusInv, [Next]_vars PROVE StatusInv'
    OBVIOUS
  <1>1. CASE UNCHANGED vars \/ WriteThread
    <2>1. UNCHANGED <<numRequests, openRequests, status, at, has, shouldStopNow, isKilled, api, todo, prevStatus>>
      BY <1>1 DEF vars, WriteThread, Write, WriteExit, requests, opened, bots, loop
    <2> QED
      BY <2>1 DEF StatusInv, NamesItsBot, ActIsCurrent, StopIsMeant, ClaimHolds, PatientNeverStops
  <1> QED
    BY <1>1, StatusThread, StatusRequestLoop DEF Next, Ended

(* Nobody acts on a request that is gone, and a search that is stopped is  *)
(* one of a terminated request or of a bot that shuts down.                *)
THEOREM GoneIsGone == Spec => []NoActOnGoneRequest
  <1>1. OwnInv => NoUseAfterDelete
    BY DEF OwnInv, LoopOwns, RequestsKnown, ThreadOwns, NoUseAfterDelete, Acting
  <1>2. StatusInv => StopHitsItsOwn
    <2> SUFFICES ASSUME StatusInv, NEW b \in Bots, at[b] \in {"begin", "focus", "search"}, shouldStopNow[b]
                 PROVE  status[has[b]] = "TERMINATED"
                        \/ api \notin {"read", "enqueue", "terminate", "act", "setFocus", "focusBot"}
      BY DEF StopHitsItsOwn
    <2> QED
      BY DEF StatusInv, StopIsMeant, Closed
  <1>3. TypeOK /\ OwnInv /\ StatusInv => NoActOnGoneRequest
    BY <1>1, <1>2 DEF NoActOnGoneRequest
  <1> QED
    BY <1>3, TypeInit, OwnInit, StatusInit, TypeStep, OwnStep, StatusStep, PTL DEF Spec

-----------------------------------------------------------------------------
(* Replies *)

(* An open request is on its way to a thread or with one, a thread leaves  *)
(* nothing in the queue behind it, a thread that reports has something to  *)
(* say unless bots were killed, and the write queue is closed last.        *)
OnItsWay(r) == r \in toAnalyzeQueue \/ (api = "enqueue" /\ r \in todo) \/ \E b \in Bots : has[b] = r
ThreadEnds(b) ==
  /\ at[b] = "exited" => toAnalyzeQueue = {} /\ analyzeReadOnly
  /\ ~QuitWithoutWaiting /\ at[b] = "report" => hasResult[b] \/ status[has[b]] = "TERMINATED"
ClosedLast ==
  /\ analyzeReadOnly => api \in Closed
  /\ ~QuitWithoutWaiting /\ (writeReadOnly \/ api \in {"joinWriter", "done"}) =>
       api \in {"joinWriter", "done"} /\ \A b \in Bots : at[b] = "exited"
WriterEnds ==
  /\ writeThread = "exited" => toWriteQueue = <<>> /\ writeReadOnly
  /\ api = "done" => writeThread = "exited"
EndInv ==
  /\ \A r \in openRequests : OnItsWay(r)
  /\ \A b \in Bots : ThreadEnds(b)
  /\ ClosedLast /\ WriterEnds

LEMMA EndInit == Init => EndInv
  <1> SUFFICES ASSUME Init PROVE EndInv
    OBVIOUS
  <1>1. /\ openRequests = {} /\ ~analyzeReadOnly /\ ~writeReadOnly
        /\ api = "read" /\ writeThread = "run"
    BY DEF Init
  <1>2. \A b \in Bots : at[b] = "pop"
    BY DEF Init
  <1> QED
    BY <1>1, <1>2 DEF EndInv, ThreadEnds, ClosedLast, WriterEnds

(* A thread's step that keeps its request.                                 *)
LEMMA EndGoes ==
  ASSUME TypeOK, OwnInv, StatusInv, EndInv, NEW b \in Bots, at[b] \notin {"pop", "exited"},
         NEW place, place # "exited", Goto(b, place),
         UNCHANGED <<openRequests, toAnalyzeQueue, analyzeReadOnly, has, writeReadOnly, writeThread, api, todo>>,
         \A c \in Bots : c # b => hasResult'[c] = hasResult[c],
         \A r \in Requests : status[r] = "TERMINATED" \/ r # has[b] => status'[r] = status[r],
         ~writeReadOnly \/ UNCHANGED toWriteQueue,
         ~QuitWithoutWaiting /\ place = "report" => hasResult'[b] \/ status'[has[b]] = "TERMINATED"
  PROVE  EndInv'
  <1>1. \A c \in Bots : at'[c] = IF c = b THEN place ELSE at[c]
    BY DEF Goto, TypeOK
  <1>2. \A r \in openRequests' : OnItsWay(r)'
    BY DEF EndInv, OnItsWay
  <1>3. ASSUME NEW c \in Bots PROVE ThreadEnds(c)'
    <2>1. CASE c = b
      BY <1>1, <2>1 DEF ThreadEnds
    <2>2. CASE c # b
      <3>1. at[c] = "report" => has[c] \in Requests /\ has[c] # has[b]
        BY <2>2, HasTyped DEF OwnInv, ThreadOwns
      <3> QED
        BY <1>1, <2>2, <3>1 DEF EndInv, ThreadEnds
    <2> QED
      BY <2>1, <2>2
  <1>4. ClosedLast'
    BY <1>1 DEF EndInv, ClosedLast
  <1>5. WriterEnds'
    BY DEF EndInv, WriterEnds
  <1> QED
    BY <1>2, <1>3, <1>4, <1>5 DEF EndInv

LEMMA EndThread ==
  ASSUME TypeOK, OwnInv, StatusInv, EndInv, NEW b \in Bots, AnalysisThread(b) \/ SearchFinishes(b)
  PROVE  EndInv'
  <1> USE DEF OthersUnchanged, requests, opened, loop, writer
  <1>1. UNCHANGED <<analyzeReadOnly, writeReadOnly, writeThread, api, todo>>
    BY DEF AnalysisThread, SearchFinishes, SearchEnds, SearchStops, Pop, Exit, ClaimPopped,
           GenMove, StartSearch, OnSearchBegun, ApplyFocus, Report, ClearSearch, Erase, Delete
  <1>2. ASSUME NEW place, Goto(b, place)
        PROVE  \A c \in Bots : at'[c] = IF c = b THEN place ELSE at[c]
    BY <1>2 DEF Goto, TypeOK
  <1>3. ~QuitWithoutWaiting => ~isKilled[b]
    BY DEF StatusInv, PatientNeverStops
  <1>4. CASE ClaimPopped(b) \/ GenMove(b) \/ StartSearch(b) \/ OnSearchBegun(b) \/ ApplyFocus(b) \/ ClearSearch(b)
    <2>1. PICK place \in {"genMove", "clear", "report", "start", "begin", "focus", "search", "erase"} :
            Goto(b, place) /\ (place = "report" => isKilled[b])
      BY <1>4 DEF ClaimPopped, GenMove, StartSearch, OnSearchBegun, ApplyFocus, ClearSearch
    <2>2. /\ UNCHANGED <<openRequests, toAnalyzeQueue, has, toWriteQueue>>
          /\ at[b] \notin {"pop", "exited"}
      BY <1>4 DEF ClaimPopped, GenMove, StartSearch, OnSearchBegun, ApplyFocus, ClearSearch
    <2>3. \A c \in Bots : c # b => hasResult'[c] = hasResult[c]
      BY <1>4 DEF ClaimPopped, GenMove, StartSearch, OnSearchBegun, ApplyFocus, ClearSearch, TypeOK
    <2>4. \A r \in Requests : status[r] = "TERMINATED" \/ r # has[b] => status'[r] = status[r]
      BY <1>4 DEF ClaimPopped, GenMove, StartSearch, OnSearchBegun, ApplyFocus, ClearSearch, TypeOK
    <2> QED
      BY <1>1, <1>3, <2>1, <2>2, <2>3, <2>4, EndGoes
  <1>5. CASE SearchStops(b) \/ SearchFinishes(b)
    <2>1. /\ Goto(b, "report") /\ at[b] = "search"
          /\ UNCHANGED <<openRequests, toAnalyzeQueue, has, toWriteQueue, status>>
      BY <1>5 DEF SearchStops, SearchFinishes, SearchEnds
    <2>2. \A c \in Bots : c # b => hasResult'[c] = hasResult[c]
      BY <1>5 DEF SearchStops, SearchFinishes, SearchEnds, TypeOK
    <2>3. ~QuitWithoutWaiting => hasResult'[b] \/ status[has[b]] = "TERMINATED"
      <3>1. CASE SearchStops(b)
        <4>1. shouldStopNow[b]
          BY <3>1 DEF SearchStops
        <4> QED
          BY <2>1, <4>1 DEF StatusInv, StopIsMeant
      <3>2. CASE SearchFinishes(b)
        <4>1. hasResult' = [hasResult EXCEPT ![b] = TRUE]
          BY <3>2 DEF SearchFinishes, SearchEnds
        <4>2. hasResult'[b] = TRUE
          BY <4>1 DEF TypeOK
        <4> QED
          BY <4>2
      <3> QED
        BY <1>5, <3>1, <3>2
    <2> QED
      BY <1>1, <2>1, <2>2, <2>3, EndGoes
  <1>6. CASE Report(b)
    <2>1. /\ Goto(b, "clear") /\ at[b] = "report"
          /\ UNCHANGED <<openRequests, toAnalyzeQueue, has, status, hasResult>>
          /\ (~writeReadOnly \/ UNCHANGED toWriteQueue)
      BY <1>6 DEF Report, pushToWrite
    <2> QED
      BY <1>1, <2>1, EndGoes
  <1>7. CASE Delete(b)
    <2>1. /\ \A c \in Bots : at'[c] = IF c = b THEN "pop" ELSE at[c]
          /\ \A c \in Bots : has'[c] = IF c = b THEN 0 ELSE has[c]
      BY <1>2, <1>7 DEF Delete, TypeOK
    <2>2. UNCHANGED <<openRequests, toAnalyzeQueue, hasResult, status, toWriteQueue>> /\ at[b] = "delete"
      BY <1>7 DEF Delete
    <2>3. has[b] \notin openRequests
      BY <2>2 DEF OwnInv, ThreadOwns
    <2>4. \A r \in openRequests' : OnItsWay(r)'
      BY <1>1, <2>1, <2>2, <2>3 DEF EndInv, OnItsWay
    <2>5. \A c \in Bots : ThreadEnds(c)'
      BY <1>1, <2>1, <2>2 DEF EndInv, ThreadEnds
    <2>6. ClosedLast' /\ WriterEnds'
      BY <1>1, <2>1, <2>2 DEF EndInv, ClosedLast, WriterEnds
    <2> QED
      BY <2>4, <2>5, <2>6 DEF EndInv
  <1>8. CASE Erase(b)
    <2>1. /\ \A c \in Bots : at'[c] = IF c = b THEN "delete" ELSE at[c]
          /\ openRequests' \subseteq openRequests /\ at[b] = "erase"
          /\ UNCHANGED <<has, toAnalyzeQueue, hasResult, status, toWriteQueue>>
      BY <1>2, <1>8 DEF Erase
    <2>2. \A r \in openRequests' : OnItsWay(r)'
      BY <1>1, <2>1 DEF EndInv, OnItsWay
    <2>3. \A c \in Bots : ThreadEnds(c)'
      BY <1>1, <2>1 DEF EndInv, ThreadEnds
    <2>4. ClosedLast' /\ WriterEnds'
      BY <1>1, <2>1 DEF EndInv, ClosedLast, WriterEnds
    <2> QED
      BY <2>2, <2>3, <2>4 DEF EndInv
  <1>9. CASE Exit(b)
    <2>1. /\ \A c \in Bots : at'[c] = IF c = b THEN "exited" ELSE at[c]
          /\ toAnalyzeQueue = {} /\ analyzeReadOnly
          /\ UNCHANGED <<openRequests, has, toAnalyzeQueue, hasResult, status, toWriteQueue>>
      BY <1>2, <1>9 DEF Exit
    <2>2. \A r \in openRequests' : OnItsWay(r)'
      BY <1>1, <2>1 DEF EndInv, OnItsWay
    <2>3. \A c \in Bots : ThreadEnds(c)'
      BY <1>1, <2>1 DEF EndInv, ThreadEnds
    <2>4. ClosedLast' /\ WriterEnds'
      BY <1>1, <2>1 DEF EndInv, ClosedLast, WriterEnds
    <2> QED
      BY <2>2, <2>3, <2>4 DEF EndInv
  <1>10. CASE Pop(b)
    <2>1. PICK r \in toAnalyzeQueue : has' = [has EXCEPT ![b] = r] /\ toAnalyzeQueue' = toAnalyzeQueue \ {r}
      BY <1>10 DEF Pop
    <2>2. /\ \A c \in Bots : at'[c] = IF c = b THEN "popped" ELSE at[c]
          /\ at[b] = "pop" /\ UNCHANGED <<openRequests, hasResult, status, toWriteQueue>>
      BY <1>2, <1>10 DEF Pop
    <2>3. \A c \in Bots : has'[c] = IF c = b THEN r ELSE has[c]
      BY <2>1 DEF TypeOK
    <2>4. has[b] = 0 /\ 0 \notin openRequests
      BY <2>2 DEF OwnInv, ThreadOwns, TypeOK, Requests
    <2>5. ASSUME NEW q \in openRequests PROVE OnItsWay(q)'
      <3>1. CASE q = r
        BY <2>3, <3>1 DEF OnItsWay
      <3>2. CASE q # r
        BY <1>1, <2>1, <2>3, <2>4, <3>2 DEF EndInv, OnItsWay
      <3> QED
        BY <3>1, <3>2
    <2>6. \A c \in Bots : ThreadEnds(c)'
      BY <1>1, <2>1, <2>2, <2>3 DEF EndInv, ThreadEnds
    <2>7. ClosedLast' /\ WriterEnds'
      BY <1>1, <2>2 DEF EndInv, ClosedLast, WriterEnds
    <2> QED
      BY <2>2, <2>5, <2>6, <2>7 DEF EndInv
  <1> QED
    BY <1>4, <1>5, <1>6, <1>7, <1>8, <1>9, <1>10 DEF AnalysisThread

LEMMA EndRequestLoop ==
  ASSUME TypeOK, OwnInv, StatusInv, EndInv, UserAsks \/ RequestLoop
  PROVE  EndInv'
  <1> USE DEF requests, opened, analyze, output, writer, bots, loop
  <1>1. ASSUME UNCHANGED <<at, has, hasResult, writeThread, writeReadOnly, analyzeReadOnly>>,
               \A r \in openRequests' : OnItsWay(r)',
               \A b \in Bots : at[b] # "exited" \/ UNCHANGED toAnalyzeQueue,
               ~writeReadOnly \/ UNCHANGED toWriteQueue,
               \A r \in Requests : status[r] = "TERMINATED" => status'[r] = "TERMINATED",
               api \notin Closed, api' \notin Closed
        PROVE  EndInv'
    <2>1. ASSUME NEW b \in Bots PROVE ThreadEnds(b)'
      <3>1. at[b] = "report" => has[b] \in Requests
        BY HasTyped
      <3> QED
        BY <1>1, <3>1 DEF EndInv, ThreadEnds
    <2>2. ClosedLast' /\ WriterEnds'
      BY <1>1 DEF EndInv, ClosedLast, WriterEnds, Closed
    <2> QED
      BY <1>1, <2>1, <2>2 DEF EndInv
  <1>2. api \notin Closed => \A b \in Bots : at[b] # "exited"
    BY DEF EndInv, ThreadEnds, ClosedLast
  <1>3. ASSUME NEW n \in 1..MaxTurns, OpenQuery(n) PROVE EndInv'
    <2>1. /\ api = "read" /\ api' = "enqueue" /\ openRequests' = openRequests \cup todo'
          /\ UNCHANGED <<at, has, hasResult, writeThread, writeReadOnly, analyzeReadOnly, toAnalyzeQueue,
                         toWriteQueue, status>>
      BY <1>3 DEF OpenQuery
    <2>2. \A r \in openRequests' : OnItsWay(r)'
      BY <2>1 DEF EndInv, OnItsWay
    <2> QED
      BY <1>1, <2>1, <2>2 DEF Closed
  <1>4. CASE Enqueue
    <2>1. /\ api = "enqueue" /\ api' \in {"read", "enqueue"}
          /\ toAnalyzeQueue' = toAnalyzeQueue \cup {Least(todo)} /\ todo' = todo \ {Least(todo)}
          /\ UNCHANGED <<at, has, hasResult, writeThread, writeReadOnly, analyzeReadOnly, openRequests,
                         toWriteQueue, status>>
      BY <1>4 DEF Enqueue
    <2>2. Cardinality(todo) = 1 => todo' = {}
      <3>1. IsFiniteSet(todo)
        <4>1. IsFiniteSet(Requests) /\ todo \in SUBSET Requests
          BY <2>1, FS_Interval, BoundsAssumption DEF Requests, OwnInv, LoopOwns, TypeOK
        <4> QED
          BY <4>1, FS_Subset
      <3>2. Least(todo) \in todo
        BY <2>1, LeastTodo
      <3> SUFFICES ASSUME Cardinality(todo) = 1 PROVE todo' = {}
        OBVIOUS
      <3>3. PICK x : todo = {x}
        BY <3>1, FS_Singleton
      <3> QED
        BY <2>1, <3>2, <3>3
    <2>3. api' = "enqueue" \/ todo' = {}
      BY <1>4, <2>2 DEF Enqueue
    <2>4. \A r \in openRequests' : OnItsWay(r)'
      BY <2>1, <2>3 DEF EndInv, OnItsWay
    <2> QED
      BY <1>1, <1>2, <2>1, <2>4 DEF Closed
  <1>5. CASE StartAction("terminate") \/ StartAction("setFocus") \/ Terminate \/ WriteFocus \/ FocusBot
    <2>1. /\ UNCHANGED <<at, has, hasResult, writeThread, writeReadOnly, analyzeReadOnly, openRequests,
                         toWriteQueue, toAnalyzeQueue>>
          /\ api \in {"read", "terminate", "setFocus", "focusBot"}
          /\ api' \in {"read", "terminate", "act", "setFocus", "focusBot"}
      BY <1>5 DEF StartAction, Terminate, WriteFocus, FocusBot, NextOf
    <2>2. \A r \in openRequests' : OnItsWay(r)'
      BY <2>1 DEF EndInv, OnItsWay
    <2>3. \A r \in Requests : status[r] = "TERMINATED" => status'[r] = "TERMINATED"
      BY <1>5 DEF StartAction, Terminate, WriteFocus, FocusBot, TypeOK
    <2> QED
      BY <1>1, <2>1, <2>2, <2>3 DEF Closed
  <1>6. CASE ActOnTerminated
    <2>1. /\ UNCHANGED <<at, has, hasResult, writeThread, writeReadOnly, analyzeReadOnly, openRequests,
                         toAnalyzeQueue, status>>
          /\ api = "act" /\ api' \in {"read", "terminate"}
          /\ (~writeReadOnly \/ UNCHANGED toWriteQueue)
      BY <1>6 DEF ActOnTerminated, NextOf, pushToWrite
    <2>2. \A r \in openRequests' : OnItsWay(r)'
      BY <2>1 DEF EndInv, OnItsWay
    <2> QED
      BY <1>1, <2>1, <2>2 DEF Closed
  <1>7. ASSUME UNCHANGED <<at, has, hasResult, writeThread, openRequests, toAnalyzeQueue, toWriteQueue, status>>,
               api # "enqueue", api' \in Closed, analyzeReadOnly => analyzeReadOnly',
               writeReadOnly => writeReadOnly', ClosedLast', api' = "done" => writeThread = "exited"
        PROVE  EndInv'
    <2>1. \A r \in openRequests' : OnItsWay(r)'
      BY <1>7 DEF EndInv, OnItsWay
    <2>2. \A b \in Bots : ThreadEnds(b)'
      BY <1>7 DEF EndInv, ThreadEnds
    <2>3. WriterEnds'
      BY <1>7 DEF EndInv, WriterEnds
    <2> QED
      BY <1>7, <2>1, <2>2, <2>3 DEF EndInv
  <1>8. CASE EndOfInput \/ CloseQueue \/ Join \/ JoinWriter
    <2>1. UNCHANGED <<at, has, hasResult, writeThread, openRequests, toAnalyzeQueue, toWriteQueue, status>>
      BY <1>8 DEF EndOfInput, CloseQueue, Join, JoinWriter, Shutdown
    <2>2. api # "enqueue" /\ api' \in Closed /\ (api' = "done" => writeThread = "exited")
      BY <1>8 DEF EndOfInput, CloseQueue, Join, JoinWriter, Shutdown, Closed
    <2>3. CASE EndOfInput
      <3>1. /\ api = "read" /\ api' \notin {"joinWriter", "done"}
            /\ writeReadOnly' = QuitWithoutWaiting
        BY <2>3 DEF EndOfInput, Shutdown
      <3>2. ~analyzeReadOnly /\ (writeReadOnly => writeReadOnly')
        BY <3>1, BoundsAssumption DEF EndInv, ClosedLast, Closed
      <3>3. ClosedLast'
        BY <2>2, <3>1 DEF ClosedLast
      <3> QED
        BY <1>7, <2>1, <2>2, <3>2, <3>3
    <2>4. CASE CloseQueue
      <3>1. analyzeReadOnly' /\ writeReadOnly' = writeReadOnly /\ QuitWithoutWaiting
        BY <2>4, BoundsAssumption DEF CloseQueue, Shutdown, StatusInv, PatientNeverStops
      <3>2. ClosedLast'
        BY <2>2, <3>1 DEF ClosedLast
      <3> QED
        BY <1>7, <2>1, <2>2, <3>1, <3>2
    <2>5. CASE Join
      <3>1. /\ writeReadOnly' /\ analyzeReadOnly' = analyzeReadOnly /\ api' = "joinWriter"
            /\ \A b \in Bots : at[b] = "exited"
        BY <2>5 DEF Join, Shutdown
      <3>2. ClosedLast'
        BY <2>1, <2>2, <3>1 DEF ClosedLast
      <3> QED
        BY <1>7, <2>1, <2>2, <3>1, <3>2
    <2>6. CASE JoinWriter
      <3>1. /\ writeReadOnly' = writeReadOnly /\ analyzeReadOnly' = analyzeReadOnly
            /\ api = "joinWriter" /\ api' = "done"
        BY <2>6 DEF JoinWriter, Shutdown
      <3>2. ClosedLast'
        BY <2>1, <2>2, <3>1 DEF EndInv, ClosedLast
      <3> QED
        BY <1>7, <2>1, <2>2, <3>1, <3>2
    <2> QED
      BY <1>8, <2>3, <2>4, <2>5, <2>6
  <1>9. ASSUME NEW b \in Bots, StopBot(b) \/ KillBot(b) PROVE EndInv'
    <2>1. /\ UNCHANGED <<at, has, hasResult, writeThread, openRequests, toAnalyzeQueue, toWriteQueue, status,
                         writeReadOnly, analyzeReadOnly>>
          /\ api \in {"stopBots", "killBots"} /\ api' \in {"stopBots", "killBots", "join"}
      BY <1>9 DEF StopBot, KillBot, Shutdown
    <2>2. QuitWithoutWaiting
      BY <2>1, BoundsAssumption DEF StatusInv, PatientNeverStops
    <2>3. ClosedLast'
      BY <2>1, <2>2 DEF ClosedLast, Closed
    <2> QED
      BY <1>7, <2>1, <2>3 DEF Closed
  <1> QED
    BY <1>3, <1>4, <1>5, <1>6, <1>8, <1>9 DEF UserAsks, RequestLoop

LEMMA EndStep == TypeOK /\ OwnInv /\ StatusInv /\ EndInv /\ [Next]_vars => EndInv'
  <1> SUFFICES ASSUME TypeOK, OwnInv, StatusInv, EndInv, [Next]_vars PROVE EndInv'
    OBVIOUS
  <1>1. CASE UNCHANGED vars
    BY <1>1 DEF vars, EndInv, OnItsWay, ThreadEnds, ClosedLast, WriterEnds
  <1>2. CASE WriteThread
    <2>1. UNCHANGED <<openRequests, status, at, has, hasResult, api, todo, toAnalyzeQueue, analyzeReadOnly, writeReadOnly>>
      BY <1>2 DEF WriteThread, Write, WriteExit, opened, analyze, output, bots, loop
    <2>2. WriterEnds'
      BY <1>2, <2>1 DEF WriteThread, Write, WriteExit, output, EndInv, WriterEnds
    <2>3. \A r \in openRequests' : OnItsWay(r)'
      BY <2>1 DEF EndInv, OnItsWay
    <2> QED
      BY <2>1, <2>2, <2>3 DEF EndInv, ThreadEnds, ClosedLast
  <1> QED
    BY <1>1, <1>2, EndThread, EndRequestLoop DEF Next, Ended

(* A request is without an answer until it arrives, while no thread has    *)
(* claimed it, while the loop is about to answer for it, and while a       *)
(* thread works on it; then it has exactly one, unless the queue that      *)
(* takes it was closed by a shutdown that does not wait.                   *)
WorkedOn(r) == \E b \in Bots : has[b] = r /\ at[b] \in Working
Unanswered(r) ==
  \/ r > numRequests
  \/ /\ r \in openRequests
     /\ status[r] = "IN_QUEUE" \/ (api = "act" /\ prevStatus = "IN_QUEUE" /\ r = Least(todo)) \/ WorkedOn(r)
Answered(r) == Replies(r) <= 1 /\ (~QuitWithoutWaiting => Replies(r) = 1)
AnswerInv == \A r \in Requests : IF Unanswered(r) THEN Replies(r) = 0 ELSE Answered(r)

LEMMA RepliesNat == ASSUME TypeOK, NEW r \in Requests PROVE Replies(r) \in Nat
  <1>1. toWriteQueue \in Seq(Requests) /\ printed[r] \in Nat
    BY DEF TypeOK
  <1>2. Cardinality(Occurrences(toWriteQueue, r)) \in Nat
    BY <1>1, CountFinite
  <1> QED
    BY <1>1, <1>2 DEF Replies, Occurrences

LEMMA RepliesKept ==
  ASSUME UNCHANGED <<printed, toWriteQueue>>, NEW r
  PROVE  Replies(r)' = Replies(r)
  BY DEF Replies

LEMMA RepliesPush ==
  ASSUME TypeOK, NEW s \in Requests, pushToWrite(s), UNCHANGED printed, NEW r \in Requests
  PROVE  Replies(r)' = Replies(r) + (IF r = s /\ ~writeReadOnly THEN 1 ELSE 0)
  <1>1. toWriteQueue \in Seq(Requests) /\ printed[r] \in Nat /\ writeReadOnly \in BOOLEAN /\ Replies(r) \in Nat
    BY RepliesNat DEF TypeOK
  <1>2. CASE writeReadOnly
    BY <1>1, <1>2, RepliesKept DEF pushToWrite
  <1>3. CASE ~writeReadOnly
    <2>1. toWriteQueue' = Append(toWriteQueue, s)
      BY <1>3 DEF pushToWrite
    <2>2. Cardinality(Occurrences(toWriteQueue', r)) =
            Cardinality(Occurrences(toWriteQueue, r)) + (IF r = s THEN 1 ELSE 0)
      BY <1>1, <2>1, CountAppend
    <2>3. Cardinality(Occurrences(toWriteQueue, r)) \in Nat
      BY <1>1, CountFinite
    <2>4. /\ Replies(r)' = printed[r] + Cardinality(Occurrences(toWriteQueue', r))
          /\ Replies(r) = printed[r] + Cardinality(Occurrences(toWriteQueue, r))
      BY DEF Replies, Occurrences
    <2> QED
      BY <1>1, <1>3, <2>2, <2>3, <2>4
  <1> QED
    BY <1>2, <1>3

LEMMA RepliesWritten ==
  ASSUME TypeOK, WriteThread, NEW r \in Requests
  PROVE  Replies(r)' = Replies(r)
  <1>1. CASE WriteExit
    BY <1>1, RepliesKept DEF WriteExit, output
  <1>2. CASE Write
    <2>1. /\ toWriteQueue \in Seq(Requests) /\ toWriteQueue # <<>> /\ toWriteQueue' = Tail(toWriteQueue)
          /\ printed[r] \in Nat
      BY <1>2 DEF Write, TypeOK
    <2>2. Head(toWriteQueue) \in Requests
      BY <2>1, HeadTailProperties
    <2>3. printed'[r] = printed[r] + (IF r = Head(toWriteQueue) THEN 1 ELSE 0)
      BY <1>2, <2>2 DEF Write, TypeOK
    <2>4. Cardinality(Occurrences(toWriteQueue, r)) =
            Cardinality(Occurrences(toWriteQueue', r)) + (IF r = Head(toWriteQueue) THEN 1 ELSE 0)
      BY <2>1, CountTail
    <2>5. Cardinality(Occurrences(toWriteQueue', r)) \in Nat
      BY <2>1, HeadTailProperties, CountFinite
    <2>6. /\ Replies(r)' = printed'[r] + Cardinality(Occurrences(toWriteQueue', r))
          /\ Replies(r) = printed[r] + Cardinality(Occurrences(toWriteQueue, r))
      BY DEF Replies, Occurrences
    <2> QED
      BY <2>1, <2>3, <2>4, <2>5, <2>6
  <1> QED
    BY <1>1, <1>2 DEF WriteThread

LEMMA AnswerInit == Init => AnswerInv
  <1> SUFFICES ASSUME Init, NEW r \in Requests PROVE Unanswered(r) /\ Replies(r) = 0
    BY DEF AnswerInv
  <1>1. r > numRequests
    BY DEF Init, Requests
  <1>2. toWriteQueue = <<>> /\ printed[r] = 0
    BY DEF Init
  <1>3. {i \in 1 .. Len(toWriteQueue) : toWriteQueue[i] = r} = {}
    BY <1>2
  <1> QED
    BY <1>1, <1>2, <1>3, FS_EmptySet DEF Unanswered, Replies

(* Steps that answer nobody, and steps that answer for one request.        *)
LEMMA AnswerQuiet ==
  ASSUME AnswerInv, \A r \in Requests : Replies(r)' = Replies(r),
         \A r \in Requests : Unanswered(r)' <=> Unanswered(r)
  PROVE  AnswerInv'
  BY DEF AnswerInv, Answered

LEMMA AnswerOne ==
  ASSUME TypeOK, AnswerInv, NEW s \in Requests, UNCHANGED printed,
         pushToWrite(s) \/ (QuitWithoutWaiting /\ UNCHANGED toWriteQueue),
         writeReadOnly => QuitWithoutWaiting,
         Unanswered(s), ~Unanswered(s)',
         \A r \in Requests : r # s => (Unanswered(r)' <=> Unanswered(r))
  PROVE  AnswerInv'
  <1> SUFFICES ASSUME NEW r \in Requests
               PROVE  IF Unanswered(r)' THEN Replies(r)' = 0 ELSE Answered(r)'
    BY DEF AnswerInv
  <1>1. Replies(r) \in Nat /\ (r = s => Replies(r) = 0)
    BY RepliesNat DEF AnswerInv
  <1>2. \/ Replies(r)' = Replies(r) + (IF r = s /\ ~writeReadOnly THEN 1 ELSE 0)
        \/ QuitWithoutWaiting /\ Replies(r)' = Replies(r)
    BY RepliesPush, RepliesKept
  <1>3. CASE r = s
    BY <1>1, <1>2, <1>3 DEF Answered
  <1>4. CASE r # s
    <2>1. Replies(r)' = Replies(r)
      BY <1>1, <1>2, <1>4
    <2> QED
      BY <1>4, <2>1 DEF AnswerInv, Answered
  <1> QED
    BY <1>3, <1>4

(* A thread that goes on with its request without an answer.               *)
LEMMA AnswerGoes ==
  ASSUME TypeOK, OwnInv, AnswerInv, NEW b \in Bots, at[b] \notin {"pop", "exited", "delete"},
         NEW place, Goto(b, place),
         UNCHANGED <<numRequests, openRequests, has, api, todo, prevStatus, printed, toWriteQueue>>,
         \A r \in Requests : r # has[b] => status'[r] = status[r],
         IF place \in Working THEN at[b] \in Working \/ status[has[b]] = "IN_QUEUE"
                              ELSE at[b] \notin Working /\ status'[has[b]] = status[has[b]]
  PROVE  AnswerInv'
  <1>1. \A c \in Bots : at'[c] = IF c = b THEN place ELSE at[c]
    BY DEF Goto, TypeOK
  <1>2. has[b] \in Requests /\ has[b] \in openRequests /\ \A c \in Bots : has[c] = has[b] => c = b
    BY HasTyped DEF OwnInv, ThreadOwns, Requests
  <1>3. ASSUME NEW r \in Requests PROVE Unanswered(r)' <=> Unanswered(r)
    <2>1. CASE r # has[b]
      BY <1>1, <2>1 DEF Unanswered, WorkedOn
    <2>2. CASE r = has[b] /\ place \in Working
      <3>1. WorkedOn(r)' /\ (WorkedOn(r) \/ status[r] = "IN_QUEUE")
        BY <1>1, <2>2 DEF WorkedOn
      <3> QED
        BY <1>2, <2>2, <3>1 DEF Unanswered
    <2>3. CASE r = has[b] /\ place \notin Working
      <3>1. WorkedOn(r)' <=> WorkedOn(r)
        BY <1>1, <1>2, <2>3 DEF WorkedOn
      <3> QED
        BY <2>3, <3>1 DEF Unanswered
    <2> QED
      BY <2>1, <2>2, <2>3
  <1> QED
    BY <1>3, RepliesKept, AnswerQuiet

LEMMA AnswerThread ==
  ASSUME TypeOK, OwnInv, StatusInv, EndInv, AnswerInv, NEW b \in Bots, AnalysisThread(b) \/ SearchFinishes(b)
  PROVE  AnswerInv'
  <1> USE DEF OthersUnchanged, requests, opened, loop, writer
  <1>1. UNCHANGED <<numRequests, api, todo, prevStatus, mutexHeld, printed>>
    BY DEF AnalysisThread, SearchFinishes, SearchEnds, SearchStops, Pop, Exit, ClaimPopped,
           GenMove, StartSearch, OnSearchBegun, ApplyFocus, Report, ClearSearch, Erase, Delete
  <1>2. ASSUME NEW place, Goto(b, place)
        PROVE  \A c \in Bots : at'[c] = IF c = b THEN place ELSE at[c]
    BY <1>2 DEF Goto, TypeOK
  <1>3. at[b] \notin {"pop", "exited"} => has[b] \in Requests /\ ~(has[b] > numRequests)
    BY HasTyped DEF OwnInv, ThreadOwns, TypeOK, Requests
  <1>4. \A c \in Bots : has[b] # 0 /\ has[c] = has[b] => c = b
    BY DEF OwnInv, ThreadOwns
  <1>5. CASE ClaimPopped(b) \/ GenMove(b) \/ StartSearch(b) \/ OnSearchBegun(b) \/ ApplyFocus(b) \/ ClearSearch(b)
             \/ SearchStops(b) \/ SearchFinishes(b)
    <2>1. PICK place \in {"genMove", "clear", "report", "start", "begin", "focus", "search", "erase"} :
            /\ Goto(b, place)
            /\ IF place \in Working THEN at[b] \in Working \/ status[has[b]] = "IN_QUEUE"
                                    ELSE at[b] \notin Working /\ UNCHANGED status
      BY <1>5 DEF ClaimPopped, GenMove, StartSearch, OnSearchBegun, ApplyFocus, ClearSearch, SearchStops,
                  SearchFinishes, SearchEnds, Working
    <2>2. UNCHANGED <<openRequests, has, toWriteQueue>> /\ at[b] \notin {"pop", "exited", "delete"}
      BY <1>5 DEF ClaimPopped, GenMove, StartSearch, OnSearchBegun, ApplyFocus, ClearSearch, SearchStops,
                  SearchFinishes, SearchEnds
    <2>3. \A r \in Requests : r # has[b] => status'[r] = status[r]
      BY <1>5 DEF ClaimPopped, GenMove, StartSearch, OnSearchBegun, ApplyFocus, ClearSearch, SearchStops,
                  SearchFinishes, SearchEnds, TypeOK
    <2>4. IF place \in Working THEN at[b] \in Working \/ status[has[b]] = "IN_QUEUE"
                               ELSE at[b] \notin Working /\ status'[has[b]] = status[has[b]]
      BY <2>1
    <2> QED
      BY <1>1, <2>1, <2>2, <2>3, <2>4, AnswerGoes
  <1>6. CASE Report(b)
    <2>1. /\ at[b] = "report" /\ UNCHANGED <<openRequests, has, status>>
          /\ \A c \in Bots : at'[c] = IF c = b THEN "clear" ELSE at[c]
      BY <1>2, <1>6 DEF Report
    <2>2. has[b] \in Requests /\ has[b] \in openRequests /\ has[b] # 0 /\ has'[b] = has[b]
      BY <2>1, HasTyped DEF Requests
    <2>3. Unanswered(has[b])
      BY <2>1, <2>2 DEF Unanswered, WorkedOn, Working
    <2>4. ~Unanswered(has[b])'
      <3>1. ~WorkedOn(has[b])'
        BY <1>4, <2>1, <2>2 DEF WorkedOn, Working
      <3>2. status[has[b]] # "IN_QUEUE"
        BY <2>1 DEF StatusInv, ClaimHolds, Working
      <3>3. ~(api = "act" /\ prevStatus = "IN_QUEUE" /\ has[b] = Least(todo))
        BY <2>1 DEF StatusInv, ActIsCurrent, Working
      <3> QED
        BY <1>1, <1>3, <2>1, <2>2, <3>1, <3>2, <3>3 DEF Unanswered
    <2>5. \A r \in Requests : r # has[b] => (Unanswered(r)' <=> Unanswered(r))
      BY <1>1, <2>1 DEF Unanswered, WorkedOn
    <2>6. writeReadOnly => QuitWithoutWaiting
      BY <2>1 DEF EndInv, ClosedLast
    <2>7. pushToWrite(has[b]) \/ (QuitWithoutWaiting /\ UNCHANGED toWriteQueue)
      <3>1. ~QuitWithoutWaiting => hasResult[b] \/ status[has[b]] = "TERMINATED"
        BY <2>1 DEF EndInv, ThreadEnds
      <3> QED
        BY <1>6, <3>1, BoundsAssumption DEF Report
    <2> QED
      BY <1>1, <2>2, <2>3, <2>4, <2>5, <2>6, <2>7, AnswerOne
  <1>7. CASE Pop(b) \/ Exit(b)
    <2>1. at[b] = "pop" /\ UNCHANGED <<openRequests, status, toWriteQueue>>
      BY <1>7 DEF Pop, Exit
    <2>2. /\ \A c \in Bots : c # b => at'[c] = at[c] /\ has'[c] = has[c]
          /\ at'[b] \notin Working
      BY <1>7 DEF Pop, Exit, Goto, TypeOK, Working
    <2>3. ASSUME NEW r \in Requests PROVE WorkedOn(r)' <=> WorkedOn(r)
      BY <2>1, <2>2 DEF WorkedOn, Working
    <2>4. \A r \in Requests : Unanswered(r)' <=> Unanswered(r)
      BY <1>1, <2>1, <2>3 DEF Unanswered
    <2> QED
      BY <1>1, <2>1, <2>4, RepliesKept, AnswerQuiet
  <1>8. CASE Delete(b)
    <2>1. at[b] = "delete" /\ UNCHANGED <<openRequests, status, toWriteQueue>>
      BY <1>8 DEF Delete
    <2>2. /\ \A c \in Bots : c # b => at'[c] = at[c] /\ has'[c] = has[c]
          /\ at'[b] = "pop"
      BY <1>8 DEF Delete, Goto, TypeOK
    <2>3. ASSUME NEW r \in Requests PROVE WorkedOn(r)' <=> WorkedOn(r)
      BY <2>1, <2>2 DEF WorkedOn, Working
    <2>4. \A r \in Requests : Unanswered(r)' <=> Unanswered(r)
      BY <1>1, <2>1, <2>3 DEF Unanswered
    <2> QED
      BY <1>1, <2>1, <2>4, RepliesKept, AnswerQuiet
  <1>9. CASE Erase(b)
    <2>1. /\ at[b] = "erase" /\ ~mutexHeld /\ openRequests' = openRequests \ {has[b]}
          /\ UNCHANGED <<status, toWriteQueue, has>>
          /\ \A c \in Bots : at'[c] = IF c = b THEN "delete" ELSE at[c]
      BY <1>2, <1>9 DEF Erase
    <2>2. ASSUME NEW r \in Requests PROVE WorkedOn(r)' <=> WorkedOn(r)
      BY <2>1 DEF WorkedOn, Working
    <2>3. ~Unanswered(has[b])
      <3>1. api # "act"
        BY <2>1 DEF OwnInv, LoopOwns, Acting
      <3>2. status[has[b]] # "IN_QUEUE"
        BY <2>1 DEF StatusInv, ClaimHolds
      <3>3. ~WorkedOn(has[b])
        <4>1. has[b] # 0
          BY <1>3, <2>1 DEF Requests
        <4> QED
          BY <1>4, <2>1, <4>1 DEF WorkedOn, Working
      <3> QED
        BY <1>3, <2>1, <3>1, <3>2, <3>3 DEF Unanswered
    <2>4. ASSUME NEW r \in Requests PROVE Unanswered(r)' <=> Unanswered(r)
      <3>1. CASE r = has[b]
        BY <1>1, <1>3, <2>1, <2>3, <3>1 DEF Unanswered
      <3>2. CASE r # has[b]
        BY <1>1, <2>1, <2>2, <3>2 DEF Unanswered
      <3> QED
        BY <3>1, <3>2
    <2> QED
      BY <1>1, <2>1, <2>4, RepliesKept, AnswerQuiet
  <1> QED
    BY <1>5, <1>6, <1>7, <1>8, <1>9 DEF AnalysisThread

LEMMA AnswerRequestLoop ==
  ASSUME TypeOK, OwnInv, StatusInv, EndInv, AnswerInv, UserAsks \/ RequestLoop
  PROVE  AnswerInv'
  <1> USE DEF requests, opened, analyze, output, writer, bots, loop
  <1>1. ASSUME UNCHANGED <<printed, toWriteQueue>>, \A r \in Requests : Unanswered(r)' <=> Unanswered(r)
        PROVE  AnswerInv'
    BY <1>1, RepliesKept, AnswerQuiet
  <1>2. ASSUME NEW n \in 1..MaxTurns, OpenQuery(n) PROVE AnswerInv'
    <2> DEFINE new == numRequests + 1 .. numRequests + n
    <2>1. /\ api = "read" /\ api' = "enqueue" /\ numRequests' = numRequests + n
          /\ openRequests' = openRequests \cup new
          /\ UNCHANGED <<status, at, has, printed, toWriteQueue>>
      BY <1>2 DEF OpenQuery
    <2>2. numRequests \in Nat /\ n \in Nat
      BY BoundsAssumption DEF TypeOK
    <2>3. \A r \in Requests : r \in new <=> r > numRequests /\ ~(r > numRequests + n)
      BY <2>2 DEF Requests
    <2> HIDE DEF new
    <2>4. ASSUME NEW r \in Requests PROVE Unanswered(r)' <=> Unanswered(r)
      <3>1. WorkedOn(r)' <=> WorkedOn(r)
        BY <2>1 DEF WorkedOn
      <3>2. CASE r \in new
        <4>1. status[r] = "IN_QUEUE" /\ r > numRequests
          BY <2>3, <3>2 DEF StatusInv
        <4> QED
          BY <2>1, <3>2, <4>1 DEF Unanswered
      <3>3. CASE r \notin new
        <4>1. r > numRequests' <=> r > numRequests
          BY <2>1, <2>2, <2>3, <3>3 DEF Requests
        <4> QED
          BY <2>1, <3>1, <3>3, <4>1 DEF Unanswered
      <3> QED
        BY <3>2, <3>3
    <2> QED
      BY <1>1, <2>1, <2>4
  <1>3. ASSUME UNCHANGED <<numRequests, openRequests, status, at, has, printed, toWriteQueue>>,
               api # "act", api' # "act"
        PROVE  AnswerInv'
    <2>1. \A r \in Requests : Unanswered(r)' <=> Unanswered(r)
      BY <1>3 DEF Unanswered, WorkedOn
    <2> QED
      BY <1>1, <1>3, <2>1
  <1>4. CASE Enqueue \/ StartAction("terminate") \/ StartAction("setFocus") \/ WriteFocus \/ FocusBot
    <2>1. UNCHANGED <<numRequests, openRequests, status, at, has, printed, toWriteQueue>>
      BY <1>4 DEF Enqueue, StartAction, WriteFocus, FocusBot
    <2>2. api # "act" /\ api' # "act"
      BY <1>4 DEF Enqueue, StartAction, WriteFocus, FocusBot, NextOf
    <2> QED
      BY <1>3, <2>1, <2>2
  <1>5. CASE EndOfInput \/ CloseQueue \/ Join \/ JoinWriter
    <2>1. UNCHANGED <<numRequests, openRequests, status, at, has, printed, toWriteQueue>>
      BY <1>5 DEF EndOfInput, CloseQueue, Join, JoinWriter, Shutdown
    <2>2. api # "act" /\ api' # "act"
      BY <1>5 DEF EndOfInput, CloseQueue, Join, JoinWriter, Shutdown
    <2> QED
      BY <1>3, <2>1, <2>2
  <1>6. ASSUME NEW b \in Bots, StopBot(b) \/ KillBot(b) PROVE AnswerInv'
    <2>1. UNCHANGED <<numRequests, openRequests, status, at, has, printed, toWriteQueue>>
      BY <1>6 DEF StopBot, KillBot, Shutdown
    <2>2. api # "act" /\ api' # "act"
      BY <1>6 DEF StopBot, KillBot, Shutdown
    <2> QED
      BY <1>3, <2>1, <2>2
  <1>7. CASE Terminate
    <2> DEFINE l == Least(todo)
    <2>1. l \in openRequests /\ l \in Requests
      BY <1>7, LeastTodo DEF Terminate, Acting
    <2>2. /\ api = "terminate" /\ api' = "act" /\ prevStatus' = status[l]
          /\ UNCHANGED <<numRequests, openRequests, at, has, todo, printed, toWriteQueue>>
      BY <1>7 DEF Terminate
    <2>3. \A r \in Requests : status'[r] = IF r = l THEN "TERMINATED" ELSE status[r]
      BY <1>7 DEF Terminate, TypeOK
    <2> HIDE DEF l
    <2>4. Least(todo') = l
      BY <2>2 DEF l
    <2>5. ASSUME NEW r \in Requests PROVE Unanswered(r)' <=> Unanswered(r)
      <3>1. WorkedOn(r)' <=> WorkedOn(r)
        BY <2>2 DEF WorkedOn
      <3>2. CASE r = l
        <4>1. status'[r] # "IN_QUEUE"
          BY <2>3, <3>2
        <4> QED
          BY <2>1, <2>2, <2>4, <3>1, <3>2, <4>1 DEF Unanswered
      <3>3. CASE r # l
        BY <2>2, <2>3, <2>4, <3>1, <3>3 DEF Unanswered
      <3> QED
        BY <3>2, <3>3
    <2> QED
      BY <1>1, <2>2, <2>5
  <1>8. CASE ActOnTerminated
    <2>1. PICK l \in Requests : l = Least(todo) /\ l \in openRequests /\ ~(l > numRequests)
      <3>1. Least(todo) \in openRequests /\ Least(todo) \in Requests
        BY <1>8, LeastTodo DEF ActOnTerminated, Acting
      <3> QED
        BY <3>1 DEF OwnInv, RequestsKnown, TypeOK, Requests
    <2>2. /\ api = "act" /\ api' # "act"
          /\ UNCHANGED <<numRequests, openRequests, status, at, has, printed>>
          /\ IF prevStatus = "IN_QUEUE" THEN pushToWrite(l) ELSE UNCHANGED toWriteQueue
      BY <1>8, <2>1 DEF ActOnTerminated, NextOf
    <2>3. status[l] = "TERMINATED"
      BY <2>1, <2>2 DEF StatusInv, ActIsCurrent
    <2>4. prevStatus = "IN_QUEUE" => ~WorkedOn(l)
      BY <2>1, <2>2 DEF StatusInv, ActIsCurrent, WorkedOn
    <2>5. \A r \in Requests : WorkedOn(r)' <=> WorkedOn(r)
      BY <2>2 DEF WorkedOn
    <2>6. \A r \in Requests : r # l \/ prevStatus # "IN_QUEUE" => (Unanswered(r)' <=> Unanswered(r))
      BY <2>1, <2>2, <2>5 DEF Unanswered
    <2>7. CASE prevStatus = "IN_QUEUE"
      <3>1. Unanswered(l)
        BY <2>1, <2>2, <2>7 DEF Unanswered
      <3>2. ~Unanswered(l)'
        BY <2>1, <2>2, <2>3, <2>4, <2>5, <2>7 DEF Unanswered
      <3>3. writeReadOnly => QuitWithoutWaiting
        BY <2>2 DEF EndInv, ClosedLast
      <3> QED
        BY <2>2, <2>6, <2>7, <3>1, <3>2, <3>3, AnswerOne
    <2>8. CASE prevStatus # "IN_QUEUE"
      BY <1>1, <2>2, <2>6, <2>8
    <2> QED
      BY <2>7, <2>8
  <1> QED
    BY <1>2, <1>4, <1>5, <1>6, <1>7, <1>8 DEF UserAsks, RequestLoop

LEMMA AnswerStep == TypeOK /\ OwnInv /\ StatusInv /\ EndInv /\ AnswerInv /\ [Next]_vars => AnswerInv'
  <1> SUFFICES ASSUME TypeOK, OwnInv, StatusInv, EndInv, AnswerInv, [Next]_vars PROVE AnswerInv'
    OBVIOUS
  <1>1. CASE UNCHANGED vars
    <2>1. UNCHANGED <<printed, toWriteQueue, numRequests, openRequests, status, at, has, api, todo, prevStatus>>
      BY <1>1 DEF vars
    <2>2. \A r \in Requests : Unanswered(r)' <=> Unanswered(r)
      BY <2>1 DEF Unanswered, WorkedOn
    <2> QED
      BY <2>1, <2>2, RepliesKept, AnswerQuiet
  <1>2. CASE WriteThread
    <2>1. UNCHANGED <<numRequests, openRequests, status, at, has, api, todo, prevStatus>>
      BY <1>2 DEF WriteThread, Write, WriteExit, requests, opened, bots, loop
    <2>2. \A r \in Requests : Unanswered(r)' <=> Unanswered(r)
      BY <2>1 DEF Unanswered, WorkedOn
    <2> QED
      BY <1>2, <2>2, RepliesWritten, AnswerQuiet
  <1> QED
    BY <1>1, <1>2, AnswerThread, AnswerRequestLoop DEF Next, Ended

(* Every request gets exactly one final reply, and after a patient         *)
(* shutdown every one has been printed, in whatever order searches end,    *)
(* requests are terminated and the input ends.                             *)
THEOREM OneReply == Spec => []ExactlyOneFinalReply
  <1>1. ASSUME TypeOK, OwnInv, EndInv, AnswerInv PROVE ExactlyOneFinalReply
    <2>1. \A r \in Requests : Replies(r) <= 1
      BY <1>1 DEF AnswerInv, Answered
    <2>2. ASSUME ~QuitWithoutWaiting, NEW r \in 1 .. numRequests PROVE Replies(r) = 1 \/ r \in openRequests
      <3>1. r \in Requests /\ ~(r > numRequests)
        BY <1>1, BoundsAssumption DEF TypeOK, Requests
      <3> QED
        BY <1>1, <2>2, <3>1 DEF AnswerInv, Answered, Unanswered
    <2>3. ASSUME ~QuitWithoutWaiting, api = "done", NEW r \in 1 .. numRequests PROVE printed[r] = 1
      <3>1. \A b \in Bots : at[b] = "exited"
        BY <1>1, <2>3 DEF EndInv, ClosedLast
      <3>2. r \notin openRequests
        <4>1. PICK b \in Bots : TRUE
          BY BoundsAssumption
        <4>2. toAnalyzeQueue = {}
          BY <1>1, <3>1, <4>1 DEF EndInv, ThreadEnds
        <4>3. \A c \in Bots : has[c] = 0
          BY <1>1, <3>1 DEF OwnInv, ThreadOwns
        <4>4. r # 0
          BY <1>1 DEF TypeOK
        <4> QED
          BY <1>1, <2>3, <4>2, <4>3, <4>4 DEF EndInv, OnItsWay
      <3>3. Replies(r) = 1
        BY <2>2, <2>3, <3>2
      <3>4. toWriteQueue = <<>>
        BY <1>1, <2>3 DEF EndInv, WriterEnds
      <3>5. {i \in 1 .. Len(toWriteQueue) : toWriteQueue[i] = r} = {}
        BY <3>4
      <3>6. printed[r] \in Nat
        BY <1>1, BoundsAssumption DEF TypeOK, Requests
      <3>7. Replies(r) = printed[r] + Cardinality({})
        BY <3>5 DEF Replies
      <3> QED
        BY <3>3, <3>6, <3>7, FS_EmptySet
    <2> QED
      BY <2>1, <2>2, <2>3 DEF ExactlyOneFinalReply
  <1> QED
    BY <1>1, TypeInit, OwnInit, StatusInit, EndInit, AnswerInit, TypeStep, OwnStep, StatusStep, EndStep,
       AnswerStep, PTL DEF Spec

-----------------------------------------------------------------------------
(* Focuses *)

(* A bot that searches has the focus of its request, or the loop is about  *)
(* to give it the one it has just written into the request.                *)
FocusHolds(b) ==
  at[b] = "search" =>
    \/ botFocus[b] = requestFocus[has[b]] \/ status[has[b]] = "TERMINATED"
    \/ api = "focusBot" /\ has[b] = Least(todo)
FocusInv ==
  /\ \A b \in Bots : FocusHolds(b)
  /\ api = "focusBot" => requestFocus[Least(todo)] = newFocus

LEMMA FocusInit == Init => FocusInv
  BY DEF Init, FocusInv, FocusHolds

(* A step that changes no focus and wakes no bot.                          *)
LEMMA FocusQuiet ==
  ASSUME TypeOK, OwnInv, FocusInv, UNCHANGED <<requestFocus, botFocus>>,
         \A b \in Bots : at'[b] = "search" => at[b] = "search" /\ has'[b] = has[b],
         \A r \in Requests : status[r] = "TERMINATED" => status'[r] = "TERMINATED",
         (api # "focusBot" /\ api' # "focusBot") \/ UNCHANGED <<api, todo, newFocus>>
  PROVE  FocusInv'
  <1>1. ASSUME NEW b \in Bots PROVE FocusHolds(b)'
    <2>1. at[b] = "search" => has[b] \in Requests
      BY HasTyped
    <2> QED
      BY <2>1 DEF FocusInv, FocusHolds
  <1> QED
    BY <1>1 DEF FocusInv

LEMMA FocusThread ==
  ASSUME TypeOK, OwnInv, FocusInv, NEW b \in Bots, AnalysisThread(b) \/ SearchFinishes(b)
  PROVE  FocusInv'
  <1> USE DEF OthersUnchanged, requests, opened, loop, writer
  <1>1. UNCHANGED <<requestFocus, api, todo, newFocus>>
    BY DEF AnalysisThread, SearchFinishes, SearchEnds, SearchStops, Pop, Exit, ClaimPopped,
           GenMove, StartSearch, OnSearchBegun, ApplyFocus, Report, ClearSearch, Erase, Delete
  <1>2. CASE ApplyFocus(b)
    <2>1. /\ \A c \in Bots : at'[c] = IF c = b THEN "search" ELSE at[c]
          /\ \A c \in Bots : botFocus'[c] = IF c = b THEN requestFocus[has[b]] ELSE botFocus[c]
          /\ UNCHANGED <<status, has>>
      BY <1>2 DEF ApplyFocus, Goto, TypeOK
    <2>2. \A c \in Bots : FocusHolds(c)'
      BY <1>1, <2>1 DEF FocusInv, FocusHolds
    <2> QED
      BY <1>1, <2>2 DEF FocusInv
  <1>3. CASE ~ApplyFocus(b)
    <2>1. PICK place : Goto(b, place) /\ place # "search"
      BY <1>3 DEF AnalysisThread, SearchFinishes, SearchEnds, SearchStops, Pop, Exit, ClaimPopped,
                  GenMove, StartSearch, OnSearchBegun, Report, ClearSearch, Erase, Delete
    <2>2. \A c \in Bots : c # b => has'[c] = has[c]
      BY <1>3 DEF AnalysisThread, SearchFinishes, SearchEnds, SearchStops, Pop, Exit, ClaimPopped,
                  GenMove, StartSearch, OnSearchBegun, Report, ClearSearch, Erase, Delete, TypeOK
    <2>3. UNCHANGED botFocus
      BY <1>3 DEF AnalysisThread, SearchFinishes, SearchEnds, SearchStops, Pop, Exit, ClaimPopped,
                  GenMove, StartSearch, OnSearchBegun, Report, ClearSearch, Erase, Delete
    <2>4. \A r \in Requests : status[r] = "TERMINATED" => status'[r] = "TERMINATED"
      BY <1>3 DEF AnalysisThread, SearchFinishes, SearchEnds, SearchStops, Pop, Exit, ClaimPopped,
                  GenMove, StartSearch, OnSearchBegun, Report, ClearSearch, Erase, Delete, TypeOK
    <2>5. \A c \in Bots : at'[c] = IF c = b THEN place ELSE at[c]
      BY <2>1 DEF Goto, TypeOK
    <2> QED
      BY <1>1, <2>1, <2>2, <2>3, <2>4, <2>5, FocusQuiet
  <1> QED
    BY <1>2, <1>3

LEMMA FocusRequestLoop ==
  ASSUME TypeOK, OwnInv, StatusInv, FocusInv, UserAsks \/ RequestLoop
  PROVE  FocusInv'
  <1> USE DEF requests, opened, analyze, output, writer, bots, loop
  <1>1. ASSUME NEW n \in 1..MaxTurns, OpenQuery(n) PROVE FocusInv'
    <2>1. /\ api = "read" /\ api' = "enqueue" /\ UNCHANGED <<status, at, has, botFocus>>
          /\ \A r \in Requests : ~(r > numRequests) => requestFocus'[r] = requestFocus[r]
      BY <1>1 DEF OpenQuery, TypeOK
    <2>2. ASSUME NEW b \in Bots PROVE FocusHolds(b)'
      <3>1. at[b] = "search" => has[b] \in Requests /\ ~(has[b] > numRequests)
        <4> SUFFICES ASSUME at[b] = "search" PROVE has[b] \in Requests /\ ~(has[b] > numRequests)
          OBVIOUS
        <4>1. has[b] \in openRequests /\ has[b] \in Requests
          BY HasTyped
        <4> QED
          BY <4>1 DEF OwnInv, RequestsKnown, TypeOK, Requests
      <3> QED
        BY <2>1, <3>1 DEF FocusInv, FocusHolds
    <2> QED
      BY <2>1, <2>2 DEF FocusInv
  <1>2. CASE \/ Enqueue \/ StartAction("terminate") \/ StartAction("setFocus") \/ Terminate \/ ActOnTerminated
             \/ EndOfInput \/ CloseQueue \/ Join \/ JoinWriter
    <2>1. UNCHANGED <<requestFocus, botFocus, at, has>>
      BY <1>2 DEF Enqueue, StartAction, Terminate, ActOnTerminated, EndOfInput, CloseQueue, Join, JoinWriter, Shutdown
    <2>2. api # "focusBot" /\ api' # "focusBot"
      BY <1>2 DEF Enqueue, StartAction, Terminate, ActOnTerminated, NextOf, EndOfInput, CloseQueue, Join,
                  JoinWriter, Shutdown
    <2>3. \A r \in Requests : status[r] = "TERMINATED" => status'[r] = "TERMINATED"
      BY <1>2 DEF Enqueue, StartAction, Terminate, ActOnTerminated, EndOfInput, CloseQueue, Join, JoinWriter,
                  Shutdown, TypeOK
    <2> QED
      BY <2>1, <2>2, <2>3, FocusQuiet
  <1>3. ASSUME NEW b \in Bots, StopBot(b) \/ KillBot(b) PROVE FocusInv'
    <2>1. UNCHANGED <<requestFocus, botFocus, at, has, status>> /\ api # "focusBot" /\ api' # "focusBot"
      BY <1>3 DEF StopBot, KillBot, Shutdown
    <2> QED
      BY <2>1, FocusQuiet
  <1>4. CASE WriteFocus
    <2>1. PICK l \in Requests : l = Least(todo)
      BY <1>4, LeastTodo DEF WriteFocus, Acting
    <2>2. /\ api = "setFocus" /\ api' = "focusBot" /\ UNCHANGED <<status, at, has, botFocus, todo, newFocus>>
          /\ \A r \in Requests : requestFocus'[r] = IF r = l THEN newFocus ELSE requestFocus[r]
      BY <1>4, <2>1 DEF WriteFocus, TypeOK
    <2>3. Least(todo') = l
      BY <2>1, <2>2
    <2>4. ASSUME NEW b \in Bots PROVE FocusHolds(b)'
      <3>1. at[b] = "search" => has[b] \in Requests
        BY HasTyped
      <3> QED
        BY <2>2, <2>3, <3>1 DEF FocusInv, FocusHolds
    <2> QED
      BY <2>2, <2>3, <2>4 DEF FocusInv
  <1>5. CASE FocusBot
    <2>1. PICK l \in Requests : l = Least(todo) /\ l \in openRequests /\ ~(l > numRequests)
      <3>1. Least(todo) \in openRequests /\ Least(todo) \in Requests
        BY <1>5, LeastTodo DEF FocusBot, Acting
      <3> QED
        BY <3>1 DEF OwnInv, RequestsKnown, TypeOK, Requests
    <2>2. /\ api = "focusBot" /\ api' # "focusBot" /\ UNCHANGED <<status, at, has, requestFocus>>
          /\ \A b \in Bots : botFocus'[b] = IF b = status[l] THEN newFocus ELSE botFocus[b]
      BY <1>5, <2>1 DEF FocusBot, NextOf
    <2>3. requestFocus[l] = newFocus
      BY <2>1, <2>2 DEF FocusInv
    <2>4. ASSUME NEW b \in Bots PROVE FocusHolds(b)'
      <3> SUFFICES ASSUME at[b] = "search" PROVE FocusHolds(b)'
        BY <2>2 DEF FocusHolds
      <3>1. CASE has[b] = l
        <4>1. status[l] \in {b, "TERMINATED"}
          BY <3>1 DEF StatusInv, ClaimHolds
        <4> QED
          BY <2>2, <2>3, <3>1, <4>1 DEF FocusHolds
      <3>2. CASE has[b] # l
        <4>1. status[l] # b
          BY <2>1, <3>2 DEF StatusInv, NamesItsBot
        <4> QED
          BY <2>1, <2>2, <3>2, <4>1 DEF FocusInv, FocusHolds
      <3> QED
        BY <3>1, <3>2
    <2> QED
      BY <2>2, <2>4 DEF FocusInv
  <1> QED
    BY <1>1, <1>2, <1>3, <1>4, <1>5 DEF UserAsks, RequestLoop

LEMMA FocusStep == TypeOK /\ OwnInv /\ StatusInv /\ FocusInv /\ [Next]_vars => FocusInv'
  <1> SUFFICES ASSUME TypeOK, OwnInv, StatusInv, FocusInv, [Next]_vars PROVE FocusInv'
    OBVIOUS
  <1>1. CASE UNCHANGED vars \/ WriteThread
    <2>1. UNCHANGED <<requestFocus, botFocus, at, has, status, api, todo, newFocus>>
      BY <1>1 DEF vars, WriteThread, Write, WriteExit, requests, bots, loop
    <2> QED
      BY <2>1, FocusQuiet
  <1> QED
    BY <1>1, FocusThread, FocusRequestLoop DEF Next, Ended

(* No change of focus is lost between the request, its status and the bot, *)
(* wherever the request is when the change comes.                          *)
THEOREM FocusNotLost == Spec => []FocusIsCurrent
  <1>1. OwnInv /\ FocusInv => FocusIsCurrent
    BY DEF OwnInv, LoopOwns, Acting, FocusInv, FocusHolds, FocusIsCurrent
  <1> QED
    BY <1>1, TypeInit, OwnInit, StatusInit, FocusInit, TypeStep, OwnStep, StatusStep, FocusStep, PTL DEF Spec

=============================================================================
