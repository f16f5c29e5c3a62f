----------------------------- MODULE FifoQueue -----------------------------
(***************************************************************************)
(* What core/threadsafequeue.h promises: a first-in first-out queue that   *)
(* can be made read only, made writable again, and closed for good, which  *)
(* drops what is in it.                                                    *)
(***************************************************************************)
EXTENDS Integers, Sequences

CONSTANT Elts   \* what may be pushed

VARIABLES content,  \* elements pushed and not popped, oldest first
          taken,    \* elements popped, in the order in which they were
          writable, \* pushes succeed
          readable  \* pops succeed
vars == <<content, taken, writable, readable>>

Init == content = <<>> /\ taken = <<>> /\ writable = TRUE /\ readable = TRUE

Push(elt) ==
  /\ readable /\ writable
  /\ content' = Append(content, elt)
  /\ UNCHANGED <<taken, writable, readable>>

(* The k oldest elements leave together. *)
Pop(k) ==
  /\ readable
  /\ k \in 1 .. Len(content)
  /\ taken' = taken \o SubSeq(content, 1, k)
  /\ content' = SubSeq(content, k + 1, Len(content))
  /\ UNCHANGED <<writable, readable>>

SetWritable(b) ==
  /\ writable' = b
  /\ UNCHANGED <<content, taken, readable>>

Close ==
  /\ readable' = FALSE
  /\ content' = <<>>
  /\ UNCHANGED <<taken, writable>>

Next ==
  \/ \E elt \in Elts : Push(elt)
  \/ \E k \in 1 .. Len(content) : Pop(k)
  \/ \E b \in BOOLEAN : SetWritable(b)
  \/ Close

Spec == Init /\ [][Next]_vars

=============================================================================
