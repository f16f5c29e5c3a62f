-------------------------- MODULE ThreadSafeQueue --------------------------
(***************************************************************************)
(* ThreadSafeContainer and ThreadSafeQueue of core/threadsafequeue.h.      *)
(*                                                                         *)
(* Every operation runs under the mutex of the queue, so that a critical   *)
(* section is one action.  A thread that waits on a condition variable     *)
(* gives the mutex up; it comes back, notified or spuriously, by running   *)
(* its critical section again from the test of the loop.  The queue is a   *)
(* pair of vectors: pops read eltsDequeue from headIdx on and swap the     *)
(* vectors when it is used up.                                             *)
(***************************************************************************)
EXTENDS Integers, Sequences, FiniteSets

CONSTANTS Threads,  \* threads that share the queue
          Elts,     \* elements, each pushed at most once
          maxSize,  \* at which waitPush blocks
          PopSizes, \* the n of the waitPopUpToN calls
          Modes     \* the calls among close, setReadOnly, unsetReadOnly that are made

ASSUME MaxSizeAssumption == maxSize \in Nat \ {0}
ASSUME PopSizesAssumption == PopSizes \subseteq Nat \ {0}

VARIABLES eltsDequeue, eltsEnqueue, headIdx,
          closed, readOnly,
          waitNotEmpty,  \* threads asleep on notEmptyCondVar
          waitNotFull,   \* threads asleep on notFullCondVar
          op,            \* the blocking call each thread is in, or NoOp
          pushed,        \* history: the elements pushed or being pushed
          popped         \* history: the elements popped, in order
storage == <<eltsDequeue, eltsEnqueue, headIdx>>
flags == <<closed, readOnly>>
waiters == <<waitNotEmpty, waitNotFull, op>>
vars == <<eltsDequeue, eltsEnqueue, headIdx, closed, readOnly,
          waitNotEmpty, waitNotFull, op, pushed, popped>>

NoOp == [call |-> "none", arg |-> 0]
PushOp(elt) == [call |-> "waitPush", arg |-> elt]
PopOp(n) == [call |-> "waitPopUpToN", arg |-> n]

Init ==
  /\ eltsDequeue = <<>> /\ eltsEnqueue = <<>> /\ headIdx = 0
  /\ closed = FALSE /\ readOnly = FALSE
  /\ waitNotEmpty = {} /\ waitNotFull = {}
  /\ op = [t \in Threads |-> NoOp]
  /\ pushed = {} /\ popped = <<>>

sizeUnsynchronized == Len(eltsDequeue) - headIdx + Len(eltsEnqueue)

(* A thread makes the call anew, or is awake inside it. *)
Awake(t) == t \notin waitNotEmpty \cup waitNotFull
Calls(t, o) == Awake(t) /\ op[t] \in {NoOp, o}
Returns(t) == op' = [op EXCEPT ![t] = NoOp]
Blocks(t, o) == op' = [op EXCEPT ![t] = o]

pushUnsynchronized(elt) ==
  /\ eltsEnqueue' = Append(eltsEnqueue, elt)
  /\ UNCHANGED <<eltsDequeue, headIdx>>

(* k elements popped one after the other: the vectors are swapped, once at *)
(* most when all pushes have ended, as soon as eltsDequeue is used up.     *)
(* Fault: the head index survives the swap. *)
popUnsynchronized_KeepHead(k) ==
  LET left == Len(eltsDequeue) - headIdx
      old == SubSeq(eltsDequeue, headIdx + 1, Len(eltsDequeue))
  IN  IF k <= left
      THEN /\ headIdx' = headIdx + k
           /\ popped' = popped \o SubSeq(old, 1, k)
           /\ UNCHANGED <<eltsDequeue, eltsEnqueue>>
      ELSE /\ headIdx' = headIdx + k
           /\ eltsDequeue' = eltsEnqueue /\ eltsEnqueue' = <<>>
           /\ popped' = popped \o old \o SubSeq(eltsEnqueue, 1, k - left)
popUnsynchronized(k) ==
  LET left == Len(eltsDequeue) - headIdx
      old == SubSeq(eltsDequeue, headIdx + 1, Len(eltsDequeue))
  IN  IF k <= left
      THEN /\ headIdx' = headIdx + k
           /\ popped' = popped \o SubSeq(old, 1, k)
           /\ UNCHANGED <<eltsDequeue, eltsEnqueue>>
      ELSE /\ headIdx' = k - left
           /\ eltsDequeue' = eltsEnqueue /\ eltsEnqueue' = <<>>
           /\ popped' = popped \o old \o SubSeq(eltsEnqueue, 1, k - left)

-----------------------------------------------------------------------------
(* Pushing *)

(* Poppers are told of an element only by the push that ends emptiness. *)
NotifyNotEmpty ==
  IF sizeUnsynchronized' = 1 THEN waitNotEmpty' = {} ELSE UNCHANGED waitNotEmpty

Push(elt) ==
  /\ pushUnsynchronized(elt)
  /\ NotifyNotEmpty
  /\ pushed' = pushed \cup {elt}
  /\ UNCHANGED <<closed, readOnly, waitNotFull, popped>>

Fresh(t, elt) == elt \notin pushed \/ op[t] = PushOp(elt)

waitPush(t, elt) ==
  /\ Calls(t, PushOp(elt)) /\ Fresh(t, elt)
  /\ IF closed \/ readOnly
     THEN Returns(t) /\ UNCHANGED <<storage, flags, waitNotEmpty, waitNotFull, pushed, popped>>
     ELSE IF sizeUnsynchronized >= maxSize
     THEN /\ waitNotFull' = waitNotFull \cup {t}
          /\ Blocks(t, PushOp(elt))
          /\ pushed' = pushed \cup {elt}
          /\ UNCHANGED <<storage, flags, waitNotEmpty, popped>>
     ELSE Push(elt) /\ Returns(t)

(* May grow the queue past maxSize. *)
forcePush(t, elt) ==
  /\ Awake(t) /\ op[t] = NoOp /\ elt \notin pushed
  /\ ~closed /\ ~readOnly
  /\ Push(elt)
  /\ UNCHANGED op

-----------------------------------------------------------------------------
(* Popping *)

(* Pushers are told of room by the pop that makes it. *)
(* Fault: the bulk pop notifies only from exactly maxSize, as the single pop does. *)
MakesRoom_ExactlyFull(n) == sizeUnsynchronized = maxSize
MakesRoom(n) == sizeUnsynchronized >= maxSize /\ sizeUnsynchronized < maxSize + n

PopSome(n) ==
  /\ popUnsynchronized(IF sizeUnsynchronized < n THEN sizeUnsynchronized ELSE n)
  /\ IF MakesRoom(n) THEN waitNotFull' = {} ELSE UNCHANGED waitNotFull
  /\ UNCHANGED <<closed, readOnly, waitNotEmpty, pushed>>

(* waitPop is the case n = 1: its test size == maxSize is MakesRoom(1). *)
waitPopUpToN(t, n) ==
  /\ Calls(t, PopOp(n))
  /\ IF closed \/ (readOnly /\ sizeUnsynchronized = 0)
     THEN Returns(t) /\ UNCHANGED <<storage, flags, waitNotEmpty, waitNotFull, pushed, popped>>
     ELSE IF sizeUnsynchronized = 0
     THEN /\ waitNotEmpty' = waitNotEmpty \cup {t}
          /\ Blocks(t, PopOp(n))
          /\ UNCHANGED <<storage, flags, waitNotFull, pushed, popped>>
     ELSE PopSome(n) /\ Returns(t)

tryPop(t) ==
  /\ Awake(t) /\ op[t] = NoOp
  /\ ~closed /\ sizeUnsynchronized > 0
  /\ PopSome(1)
  /\ UNCHANGED op

-----------------------------------------------------------------------------
(* Modes *)

(* Fault: only the poppers are woken. *)
WakeAll_PoppersOnly == waitNotEmpty' = {} /\ UNCHANGED waitNotFull
WakeAll == waitNotEmpty' = {} /\ waitNotFull' = {}

close(t) ==
  /\ "close" \in Modes
  /\ Awake(t) /\ op[t] = NoOp
  /\ closed' = TRUE
  /\ eltsDequeue' = <<>> /\ eltsEnqueue' = <<>>
  /\ WakeAll
  /\ UNCHANGED <<headIdx, readOnly, op, pushed, popped>>

setReadOnly(t) ==
  /\ "setReadOnly" \in Modes
  /\ Awake(t) /\ op[t] = NoOp
  /\ readOnly' = TRUE
  /\ WakeAll
  /\ UNCHANGED <<storage, closed, op, pushed, popped>>

unsetReadOnly(t) ==
  /\ "unsetReadOnly" \in Modes
  /\ Awake(t) /\ op[t] = NoOp
  /\ readOnly' = FALSE
  /\ UNCHANGED <<storage, closed, waitNotEmpty, waitNotFull, op, pushed, popped>>

(* A condition variable may wake a thread for no reason. *)
SpuriousWakeup(t) ==
  /\ ~Awake(t)
  /\ waitNotEmpty' = waitNotEmpty \ {t} /\ waitNotFull' = waitNotFull \ {t}
  /\ UNCHANGED <<storage, flags, op, pushed, popped>>

Next ==
  \E t \in Threads :
    \/ \E elt \in Elts : waitPush(t, elt) \/ forcePush(t, elt)
    \/ \E n \in PopSizes : waitPopUpToN(t, n)
    \/ tryPop(t)
    \/ close(t) \/ setReadOnly(t) \/ unsetReadOnly(t)
    \/ SpuriousWakeup(t)

(* The scheduler lets a thread that is awake inside a call go on. *)
Resume(t) ==
  /\ op[t] # NoOp
  /\ \/ \E elt \in Elts : waitPush(t, elt)
     \/ \E n \in PopSizes : waitPopUpToN(t, n)

Spec == Init /\ [][Next]_vars
FairSpec == Spec /\ \A t \in Threads : WF_vars(Resume(t))

-----------------------------------------------------------------------------
(* Properties *)

(* Type invariant, with the assertion of sizeUnsynchronized: until the     *)
(* queue is closed headIdx is not past the end of eltsDequeue.             *)
TypeOK ==
  /\ ~closed => headIdx <= Len(eltsDequeue)
  /\ eltsDequeue \in Seq(Elts) /\ eltsEnqueue \in Seq(Elts) /\ headIdx \in Nat
  /\ closed \in BOOLEAN /\ readOnly \in BOOLEAN
  /\ waitNotEmpty \subseteq Threads /\ waitNotFull \subseteq Threads
  /\ op \in [Threads -> {NoOp} \cup {PushOp(elt) : elt \in Elts} \cup {PopOp(n) : n \in PopSizes}]
  /\ pushed \subseteq Elts /\ popped \in Seq(Elts)

(* No wakeup is lost although notify is called only at the edges (size 1   *)
(* after a push, a full queue before a pop): a thread sleeps on            *)
(* notEmptyCondVar only while the queue is empty and on notFullCondVar     *)
(* only while it is full, and on neither once it is closed or read only.   *)
NoStrandedThread ==
  /\ waitNotEmpty # {} => sizeUnsynchronized = 0 /\ ~closed /\ ~readOnly
  /\ waitNotFull # {} => sizeUnsynchronized >= maxSize /\ ~closed /\ ~readOnly

(* The two vectors implement one first-in first-out queue. *)
Content == SubSeq(eltsDequeue, headIdx + 1, Len(eltsDequeue)) \o eltsEnqueue
Fifo == INSTANCE FifoQueue
          WITH content <- Content, taken <- popped,
               writable <- ~readOnly, readable <- ~closed
ImplementsFifo == Fifo!Spec

(* Every thread inside a blocking call leaves it once the queue is closed, *)
(* and keeps leaving them if the queue is read only for good: what close   *)
(* and setReadOnly promise and what joining the threads relies on.         *)
WaitersAreReleased ==
  \A t \in Threads :
    /\ closed ~> (op[t] = NoOp)
    /\ <>[]readOnly => []<>(op[t] = NoOp)


=============================================================================
