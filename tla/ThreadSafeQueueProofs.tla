----------------------- MODULE ThreadSafeQueueProofs -----------------------
(***************************************************************************)
(* Proofs about ThreadSafeQueue, for any threads, elements and capacity:   *)
(* types, no lost wakeup, and that the two vectors are one FIFO queue.     *)
(***************************************************************************)
EXTENDS ThreadSafeQueue, SequenceTheorems, TLAPS

-----------------------------------------------------------------------------
(* Sequences: the start and the rest of a concatenation *)

LEMMA SubSeqTyped ==
  ASSUME NEW S, NEW s \in Seq(S), NEW m \in Nat \ {0}, NEW n \in 0 .. Len(s)
  PROVE  /\ SubSeq(s, m, n) \in Seq(S)
         /\ Len(SubSeq(s, m, n)) = IF m <= n THEN n - m + 1 ELSE 0
         /\ \A i \in 1 .. n - m + 1 : SubSeq(s, m, n)[i] = s[m + i - 1]
  <1>1. \A i \in m .. n : s[i] \in S
    BY ElementOfSeq
  <1> QED
    BY <1>1, SubSeqProperties

LEMMA StartOfConcat ==
  ASSUME NEW S, NEW s \in Seq(S), NEW t \in Seq(S), NEW k \in 0 .. Len(s)
  PROVE  /\ SubSeq(s \o t, 1, k) = SubSeq(s, 1, k)
         /\ SubSeq(s \o t, k + 1, Len(s \o t)) = SubSeq(s, k + 1, Len(s)) \o t
  <1> DEFINE st == s \o t
             rest == SubSeq(s, k + 1, Len(s))
  <1>1. Len(s) \in Nat /\ Len(t) \in Nat
    BY LenProperties
  <1>2. /\ st \in Seq(S) /\ Len(st) = Len(s) + Len(t)
        /\ \A i \in 1 .. Len(s) + Len(t) : st[i] = IF i <= Len(s) THEN s[i] ELSE t[i - Len(s)]
    BY ConcatProperties
  <1>3. /\ SubSeq(st, 1, k) \in Seq(S) /\ Len(SubSeq(st, 1, k)) = k
        /\ \A i \in 1 .. k : SubSeq(st, 1, k)[i] = st[i]
    BY <1>1, <1>2, SubSeqTyped
  <1>4. /\ SubSeq(s, 1, k) \in Seq(S) /\ Len(SubSeq(s, 1, k)) = k
        /\ \A i \in 1 .. k : SubSeq(s, 1, k)[i] = s[i]
    BY <1>1, SubSeqTyped
  <1>5. /\ SubSeq(st, k + 1, Len(st)) \in Seq(S)
        /\ Len(SubSeq(st, k + 1, Len(st))) = Len(s) + Len(t) - k
        /\ \A i \in 1 .. Len(s) + Len(t) - k : SubSeq(st, k + 1, Len(st))[i] = st[k + i]
    BY <1>1, <1>2, SubSeqTyped
  <1>6. /\ rest \in Seq(S) /\ Len(rest) = Len(s) - k
        /\ \A i \in 1 .. Len(s) - k : rest[i] = s[k + i]
    BY <1>1, SubSeqTyped
  <1>7. /\ rest \o t \in Seq(S) /\ Len(rest \o t) = Len(s) - k + Len(t)
        /\ \A i \in 1 .. Len(s) - k + Len(t) :
             (rest \o t)[i] = IF i <= Len(s) - k THEN rest[i] ELSE t[i - (Len(s) - k)]
    BY <1>6, ConcatProperties
  <1> HIDE DEF st, rest
  <1>8. SubSeq(st, 1, k) = SubSeq(s, 1, k)
    <2>1. \A i \in 1 .. k : SubSeq(st, 1, k)[i] = SubSeq(s, 1, k)[i]
      BY <1>1, <1>2, <1>3, <1>4
    <2> QED
      BY <2>1, <1>3, <1>4, SeqEqual
  <1>9. SubSeq(st, k + 1, Len(st)) = rest \o t
    <2> DEFINE lhs == SubSeq(st, k + 1, Len(st))
               rhs == rest \o t
    <2>1. ASSUME NEW i \in 1 .. Len(s) + Len(t) - k
          PROVE  lhs[i] = rhs[i]
      <3>1. k \in Nat /\ i \in Nat /\ k + i \in 1 .. Len(s) + Len(t)
        BY <1>1
      <3>2. lhs[i] = IF k + i <= Len(s) THEN s[k + i] ELSE t[k + i - Len(s)]
        BY <3>1, <1>2, <1>5
      <3>3. rhs[i] = IF i <= Len(s) - k THEN rest[i] ELSE t[i - (Len(s) - k)]
        BY <3>1, <1>1, <1>7
      <3>4. i - (Len(s) - k) = k + i - Len(s)
        BY <3>1, <1>1
      <3> HIDE DEF lhs, rhs
      <3>5. CASE i <= Len(s) - k
        <4>1. k + i <= Len(s) /\ i \in 1 .. Len(s) - k
          BY <3>1, <3>5, <1>1
        <4> QED
          BY <3>2, <3>3, <3>5, <4>1, <1>6
      <3>6. CASE ~(i <= Len(s) - k)
        <4>1. ~(k + i <= Len(s))
          BY <3>1, <3>6, <1>1
        <4> QED
          BY <3>2, <3>3, <3>4, <3>6, <4>1
      <3> QED
        BY <3>5, <3>6
    <2>2. /\ lhs \in Seq(S) /\ rhs \in Seq(S)
          /\ Len(lhs) = Len(s) + Len(t) - k /\ Len(rhs) = Len(s) + Len(t) - k
      BY <1>1, <1>5, <1>7
    <2> HIDE DEF lhs, rhs
    <2>3. lhs = rhs
      BY <2>1, <2>2, SeqEqual
    <2> QED
      BY <2>3 DEF lhs, rhs
  <1> QED
    BY <1>8, <1>9 DEF st, rest

LEMMA MoreOfConcat ==
  ASSUME NEW S, NEW s \in Seq(S), NEW t \in Seq(S), NEW k \in 0 .. Len(t)
  PROVE  /\ SubSeq(s \o t, 1, Len(s) + k) = s \o SubSeq(t, 1, k)
         /\ SubSeq(s \o t, Len(s) + k + 1, Len(s \o t)) = SubSeq(t, k + 1, Len(t))
  <1> DEFINE st == s \o t
             start == SubSeq(t, 1, k)
             rest == SubSeq(t, k + 1, Len(t))
  <1>1. Len(s) \in Nat /\ Len(t) \in Nat
    BY LenProperties
  <1>2. /\ st \in Seq(S) /\ Len(st) = Len(s) + Len(t)
        /\ \A i \in 1 .. Len(s) + Len(t) : st[i] = IF i <= Len(s) THEN s[i] ELSE t[i - Len(s)]
    BY ConcatProperties
  <1>3. /\ SubSeq(st, 1, Len(s) + k) \in Seq(S) /\ Len(SubSeq(st, 1, Len(s) + k)) = Len(s) + k
        /\ \A i \in 1 .. Len(s) + k : SubSeq(st, 1, Len(s) + k)[i] = st[i]
    BY <1>1, <1>2, SubSeqTyped
  <1>4. /\ start \in Seq(S) /\ Len(start) = k /\ \A i \in 1 .. k : start[i] = t[i]
    BY <1>1, SubSeqTyped
  <1>5. /\ s \o start \in Seq(S) /\ Len(s \o start) = Len(s) + k
        /\ \A i \in 1 .. Len(s) + k :
             (s \o start)[i] = IF i <= Len(s) THEN s[i] ELSE start[i - Len(s)]
    BY <1>4, ConcatProperties
  <1>6. /\ SubSeq(st, Len(s) + k + 1, Len(st)) \in Seq(S)
        /\ Len(SubSeq(st, Len(s) + k + 1, Len(st))) = Len(t) - k
        /\ \A i \in 1 .. Len(t) - k : SubSeq(st, Len(s) + k + 1, Len(st))[i] = st[Len(s) + k + i]
    BY <1>1, <1>2, SubSeqTyped
  <1>7. /\ rest \in Seq(S) /\ Len(rest) = Len(t) - k
        /\ \A i \in 1 .. Len(t) - k : rest[i] = t[k + i]
    BY <1>1, SubSeqTyped
  <1> HIDE DEF st, start, rest
  <1>8. SubSeq(st, 1, Len(s) + k) = s \o start
    <2>1. \A i \in 1 .. Len(s) + k : SubSeq(st, 1, Len(s) + k)[i] = (s \o start)[i]
      BY <1>1, <1>2, <1>3, <1>4, <1>5
    <2> QED
      BY <2>1, <1>3, <1>5, SeqEqual
  <1>9. SubSeq(st, Len(s) + k + 1, Len(st)) = rest
    <2>1. ASSUME NEW i \in 1 .. Len(t) - k
          PROVE  SubSeq(st, Len(s) + k + 1, Len(st))[i] = rest[i]
      <3>1. /\ Len(s) + k + i \in 1 .. Len(s) + Len(t) /\ ~(Len(s) + k + i <= Len(s))
            /\ Len(s) + k + i - Len(s) = k + i
        BY <1>1
      <3>2. st[Len(s) + k + i] = t[k + i]
        BY <3>1, <1>2
      <3> QED
        BY <3>2, <1>6, <1>7
    <2> QED
      BY <2>1, <1>6, <1>7, SeqEqual
  <1> QED
    BY <1>8, <1>9 DEF st, start, rest

-----------------------------------------------------------------------------
(* The queue as one sequence *)

LEMMA ContentTyped ==
  ASSUME TypeOK
  PROVE  /\ Content \in Seq(Elts)
         /\ ~closed => Len(Content) = sizeUnsynchronized /\ sizeUnsynchronized \in Nat
  <1> DEFINE old == SubSeq(eltsDequeue, headIdx + 1, Len(eltsDequeue))
  <1>1. /\ eltsDequeue \in Seq(Elts) /\ eltsEnqueue \in Seq(Elts) /\ headIdx \in Nat
        /\ ~closed => headIdx <= Len(eltsDequeue)
    BY DEF TypeOK
  <1>2. Len(eltsDequeue) \in Nat /\ Len(eltsEnqueue) \in Nat
    BY <1>1, LenProperties
  <1>3. old \in Seq(Elts) /\ (~closed => Len(old) = Len(eltsDequeue) - headIdx)
    BY <1>1, <1>2, SubSeqTyped
  <1> HIDE DEF old
  <1>4. old \o eltsEnqueue \in Seq(Elts) /\ Len(old \o eltsEnqueue) = Len(old) + Len(eltsEnqueue)
    BY <1>1, <1>3, ConcatProperties
  <1> QED
    BY <1>1, <1>2, <1>3, <1>4 DEF Content, old, sizeUnsynchronized

(* A push appends to the content. *)
LEMMA PushEffect ==
  ASSUME TypeOK, ~closed, NEW elt \in Elts, pushUnsynchronized(elt)
  PROVE  /\ eltsDequeue' \in Seq(Elts) /\ eltsEnqueue' \in Seq(Elts)
         /\ headIdx' \in Nat /\ headIdx' <= Len(eltsDequeue')
         /\ sizeUnsynchronized' = sizeUnsynchronized + 1
         /\ Content' = Append(Content, elt)
  <1> DEFINE old == SubSeq(eltsDequeue, headIdx + 1, Len(eltsDequeue))
  <1>1. /\ eltsDequeue \in Seq(Elts) /\ eltsEnqueue \in Seq(Elts) /\ headIdx \in Nat
        /\ headIdx <= Len(eltsDequeue)
    BY DEF TypeOK
  <1>2. Len(eltsDequeue) \in Nat /\ Len(eltsEnqueue) \in Nat
    BY <1>1, LenProperties
  <1>3. /\ eltsEnqueue' = Append(eltsEnqueue, elt)
        /\ eltsDequeue' = eltsDequeue /\ headIdx' = headIdx
    BY DEF pushUnsynchronized
  <1>4. old \in Seq(Elts)
    BY <1>1, <1>2, SubSeqTyped
  <1>5. /\ Append(eltsEnqueue, elt) \in Seq(Elts)
        /\ Len(Append(eltsEnqueue, elt)) = Len(eltsEnqueue) + 1
        /\ Append(eltsEnqueue, elt) = eltsEnqueue \o <<elt>>
    BY <1>1, AppendProperties, AppendIsConcat
  <1>6. Content' = old \o (eltsEnqueue \o <<elt>>)
    BY <1>3, <1>5 DEF Content
  <1>7. Content = old \o eltsEnqueue /\ Content \in Seq(Elts)
    BY ContentTyped DEF Content
  <1>8. <<elt>> \in Seq(Elts)
    OBVIOUS
  <1> HIDE DEF old
  <1>9. Content' = Append(Content, elt)
    <2>1. old \o (eltsEnqueue \o <<elt>>) = (old \o eltsEnqueue) \o <<elt>>
      BY <1>1, <1>4, <1>8, ConcatAssociative
    <2>2. Append(Content, elt) = Content \o <<elt>>
      BY <1>7, AppendIsConcat
    <2> QED
      BY <2>1, <2>2, <1>6, <1>7
  <1> QED
    BY <1>1, <1>2, <1>3, <1>5, <1>9 DEF sizeUnsynchronized

(* A pop of k elements takes the k first of the content. *)
LEMMA PopEffect ==
  ASSUME TypeOK, ~closed, NEW k \in 1 .. sizeUnsynchronized, popUnsynchronized(k)
  PROVE  /\ eltsDequeue' \in Seq(Elts) /\ eltsEnqueue' \in Seq(Elts)
         /\ headIdx' \in Nat /\ headIdx' <= Len(eltsDequeue')
         /\ popped' \in Seq(Elts)
         /\ sizeUnsynchronized' = sizeUnsynchronized - k
         /\ popped' = popped \o SubSeq(Content, 1, k)
         /\ Content' = SubSeq(Content, k + 1, Len(Content))
  <1> DEFINE old == SubSeq(eltsDequeue, headIdx + 1, Len(eltsDequeue))
             left == Len(eltsDequeue) - headIdx
  <1>1. /\ eltsDequeue \in Seq(Elts) /\ eltsEnqueue \in Seq(Elts) /\ headIdx \in Nat
        /\ headIdx <= Len(eltsDequeue) /\ popped \in Seq(Elts)
    BY DEF TypeOK
  <1>2. Len(eltsDequeue) \in Nat /\ Len(eltsEnqueue) \in Nat /\ left \in Nat /\ k \in Nat
    BY <1>1, LenProperties
  <1>3. sizeUnsynchronized = left + Len(eltsEnqueue) /\ k <= left + Len(eltsEnqueue)
    BY <1>2 DEF sizeUnsynchronized
  <1>4. old \in Seq(Elts) /\ Len(old) = left
    BY <1>1, <1>2, SubSeqTyped
  <1>5. Content = old \o eltsEnqueue
    BY DEF Content
  <1>6. CASE k <= left
    <2>1. /\ headIdx' = headIdx + k /\ popped' = popped \o SubSeq(old, 1, k)
          /\ eltsDequeue' = eltsDequeue /\ eltsEnqueue' = eltsEnqueue
      BY <1>6 DEF popUnsynchronized
    <2>2. /\ SubSeq(Content, 1, k) = SubSeq(old, 1, k)
          /\ SubSeq(Content, k + 1, Len(Content)) = SubSeq(old, k + 1, Len(old)) \o eltsEnqueue
      <3> HIDE DEF old, left
      <3>1. k \in 0 .. Len(old)
        BY <1>2, <1>4, <1>6
      <3> QED
        BY <3>1, <1>1, <1>4, <1>5, StartOfConcat
    <2>3. SubSeq(old, k + 1, Len(old)) = SubSeq(eltsDequeue, headIdx + k + 1, Len(eltsDequeue))
      <3> DEFINE lhs == SubSeq(old, k + 1, Len(old))
                 rhs == SubSeq(eltsDequeue, headIdx + k + 1, Len(eltsDequeue))
      <3>1. \A i \in 1 .. left : old[i] = eltsDequeue[headIdx + i]
        BY <1>1, <1>2, SubSeqTyped
      <3>2. lhs \in Seq(Elts) /\ Len(lhs) = left - k /\ \A i \in 1 .. left - k : lhs[i] = old[k + i]
        <4> HIDE DEF old, left
        <4>1. k + 1 \in Nat \ {0} /\ Len(old) \in 0 .. Len(old)
          BY <1>2, <1>4
        <4>2. /\ lhs \in Seq(Elts)
              /\ Len(lhs) = IF k + 1 <= Len(old) THEN Len(old) - (k + 1) + 1 ELSE 0
              /\ \A i \in 1 .. Len(old) - (k + 1) + 1 : lhs[i] = old[(k + 1) + i - 1]
          BY <1>4, <4>1, SubSeqTyped
        <4> HIDE DEF lhs
        <4> QED
          BY <4>2, <1>2, <1>4, <1>6
      <3>3. /\ rhs \in Seq(Elts) /\ Len(rhs) = left - k
            /\ \A i \in 1 .. left - k : rhs[i] = eltsDequeue[headIdx + k + i]
        BY <1>1, <1>2, <1>6, SubSeqTyped
      <3> HIDE DEF lhs, rhs, old, left
      <3>4. ASSUME NEW i \in 1 .. left - k
            PROVE  lhs[i] = rhs[i]
        <4>1. k + i \in 1 .. left /\ headIdx + (k + i) = headIdx + k + i
          BY <1>1, <1>2
        <4> QED
          BY <4>1, <3>1, <3>2, <3>3
      <3>5. lhs = rhs
        BY <3>2, <3>3, <3>4, SeqEqual
      <3> QED
        BY <3>5 DEF lhs, rhs
    <2>4. Content' = SubSeq(eltsDequeue, headIdx + k + 1, Len(eltsDequeue)) \o eltsEnqueue
      BY <2>1 DEF Content
    <2>5. SubSeq(old, 1, k) \in Seq(Elts)
      BY <1>2, <1>4, <1>6, SubSeqTyped
    <2>6. popped \o SubSeq(old, 1, k) \in Seq(Elts)
      BY <1>1, <2>5, ConcatProperties
    <2>7. headIdx + k \in Nat /\ headIdx + k <= Len(eltsDequeue)
      BY <1>1, <1>2, <1>6
    <2>8. sizeUnsynchronized' = sizeUnsynchronized - k
      BY <1>1, <1>2, <2>1 DEF sizeUnsynchronized
    <2> HIDE DEF old, left
    <2> QED
      BY <1>1, <2>1, <2>2, <2>3, <2>4, <2>6, <2>7, <2>8
  <1>7. CASE k > left
    <2> DEFINE more == k - left
    <2>1. /\ headIdx' = more /\ eltsDequeue' = eltsEnqueue /\ eltsEnqueue' = <<>>
          /\ popped' = popped \o old \o SubSeq(eltsEnqueue, 1, more)
      <3>1. ~(k <= left)
        BY <1>2, <1>7
      <3> QED
        BY <3>1, Zenon DEF popUnsynchronized
    <2>2. more \in 0 .. Len(eltsEnqueue) /\ k = Len(old) + more
      BY <1>2, <1>3, <1>4, <1>7
    <2> HIDE DEF more, old, left
    <2>3. /\ SubSeq(Content, 1, k) = old \o SubSeq(eltsEnqueue, 1, more)
          /\ SubSeq(Content, k + 1, Len(Content)) = SubSeq(eltsEnqueue, more + 1, Len(eltsEnqueue))
      BY <1>1, <1>4, <1>5, <2>2, MoreOfConcat
    <2>4. SubSeq(eltsEnqueue, 1, more) \in Seq(Elts) /\ SubSeq(eltsEnqueue, more + 1, Len(eltsEnqueue)) \in Seq(Elts)
      BY <1>1, <1>2, <2>2, SubSeqTyped
    <2>5. /\ popped' = popped \o (old \o SubSeq(eltsEnqueue, 1, more))
          /\ old \o SubSeq(eltsEnqueue, 1, more) \in Seq(Elts)
      <3> DEFINE start == SubSeq(eltsEnqueue, 1, more)
      <3> HIDE DEF start
      <3>1. start \in Seq(Elts)
        BY <2>4 DEF start
      <3>2. (popped \o old) \o start = popped \o (old \o start) /\ old \o start \in Seq(Elts)
        <4>1. (popped \o old) \o start = popped \o (old \o start)
          <5>1. popped \in Seq(Elts) /\ old \in Seq(Elts) /\ start \in Seq(Elts)
            BY <1>1, <1>4, <3>1
          <5>2. \A s, t, u \in Seq(Elts) : (s \o t) \o u = s \o (t \o u)
            BY ConcatAssociative
          <5> QED
            BY <5>1, <5>2, Zenon
        <4>2. old \o start \in Seq(Elts)
          BY <1>4, <3>1, ConcatProperties
        <4> QED
          BY <4>1, <4>2
      <3> QED
        BY <2>1, <3>2 DEF start
    <2>6. Content' = SubSeq(eltsEnqueue, more + 1, Len(eltsEnqueue))
      <3>1. Content' = SubSeq(eltsEnqueue, more + 1, Len(eltsEnqueue)) \o <<>>
        BY <2>1 DEF Content
      <3> QED
        BY <3>1, <2>4, ConcatEmptySeq
    <2>7. popped' \in Seq(Elts)
      BY <1>1, <2>5, ConcatProperties
    <2>8. sizeUnsynchronized' = sizeUnsynchronized - k
      <3>1. Len(<<>>) = 0
        OBVIOUS
      <3> QED
        BY <3>1, <1>2, <1>3, <2>1 DEF sizeUnsynchronized, more
    <2> QED
      <3>1. /\ eltsDequeue' \in Seq(Elts) /\ eltsEnqueue' \in Seq(Elts)
            /\ headIdx' \in Nat /\ headIdx' <= Len(eltsDequeue')
        BY <1>1, <1>2, <2>1, <2>2, EmptySeq
      <3> QED
        BY <3>1, <2>3, <2>5, <2>6, <2>7, <2>8
  <1> QED
    BY <1>2, <1>6, <1>7

-----------------------------------------------------------------------------
(* The invariant *)

QueueInv == TypeOK /\ NoStrandedThread

OpsAre(ops) ==
  ops \in [Threads -> {NoOp} \cup {PushOp(elt) : elt \in Elts} \cup {PopOp(n) : n \in PopSizes}]

LEMMA OpsTyped ==
  ASSUME OpsAre(op), NEW t \in Threads
  PROVE  /\ Returns(t) => OpsAre(op')
         /\ \A elt \in Elts : Blocks(t, PushOp(elt)) => OpsAre(op')
         /\ \A n \in PopSizes : Blocks(t, PopOp(n)) => OpsAre(op')
  BY DEF OpsAre, Returns, Blocks

LEMMA InitQueueInv == Init => QueueInv
  <1> SUFFICES ASSUME Init PROVE QueueInv
    OBVIOUS
  <1>1. <<>> \in Seq(Elts) /\ Len(<<>>) = 0
    BY EmptySeq
  <1>2. OpsAre(op)
    BY DEF Init, OpsAre
  <1>3. headIdx <= Len(eltsDequeue)
    BY <1>1 DEF Init
  <1>4. TypeOK
    BY <1>1, <1>2, <1>3 DEF Init, TypeOK, OpsAre
  <1> QED
    BY <1>4 DEF Init, QueueInv, NoStrandedThread

(* What a push, and what a pop, leaves of the invariant. *)
LEMMA PushKeeps ==
  ASSUME QueueInv, ~closed, ~readOnly, NEW elt \in Elts, Push(elt), OpsAre(op')
  PROVE  QueueInv'
  <1>1. /\ pushUnsynchronized(elt) /\ closed' = closed /\ readOnly' = readOnly
        /\ waitNotFull' = waitNotFull /\ popped' = popped /\ pushed' = pushed \cup {elt}
    BY DEF Push
  <1>2. /\ eltsDequeue' \in Seq(Elts) /\ eltsEnqueue' \in Seq(Elts)
        /\ headIdx' \in Nat /\ headIdx' <= Len(eltsDequeue')
        /\ sizeUnsynchronized' = sizeUnsynchronized + 1
    BY <1>1, PushEffect DEF QueueInv
  <1>3. sizeUnsynchronized \in Nat
    BY ContentTyped DEF QueueInv
  <1>4. waitNotEmpty' \in SUBSET Threads /\ (waitNotEmpty' # {} => sizeUnsynchronized' = 0)
    BY <1>2, <1>3 DEF Push, NotifyNotEmpty, QueueInv, TypeOK, NoStrandedThread
  <1>5. waitNotFull' # {} => sizeUnsynchronized' >= maxSize
    BY <1>1, <1>2, <1>3, MaxSizeAssumption DEF QueueInv, NoStrandedThread
  <1>6. TypeOK'
    BY <1>1, <1>2, <1>4 DEF QueueInv, TypeOK, OpsAre
  <1>7. NoStrandedThread'
    BY <1>1, <1>4, <1>5 DEF QueueInv, NoStrandedThread
  <1> QED
    BY <1>6, <1>7 DEF QueueInv

NumToPop(n) == IF sizeUnsynchronized < n THEN sizeUnsynchronized ELSE n

LEMMA PopKeeps ==
  ASSUME QueueInv, ~closed, sizeUnsynchronized # 0, NEW n \in Nat \ {0}, PopSome(n), OpsAre(op')
  PROVE  QueueInv'
  <1>1. /\ popUnsynchronized(NumToPop(n)) /\ closed' = closed /\ readOnly' = readOnly
        /\ waitNotEmpty' = waitNotEmpty /\ pushed' = pushed
    BY DEF PopSome, NumToPop
  <1>2. sizeUnsynchronized \in Nat
    BY ContentTyped DEF QueueInv
  <1>3. NumToPop(n) \in 1 .. sizeUnsynchronized
    BY <1>2 DEF NumToPop
  <1>4. /\ eltsDequeue' \in Seq(Elts) /\ eltsEnqueue' \in Seq(Elts)
        /\ headIdx' \in Nat /\ headIdx' <= Len(eltsDequeue')
        /\ popped' \in Seq(Elts)
        /\ sizeUnsynchronized' = sizeUnsynchronized - NumToPop(n)
    BY <1>1, <1>3, PopEffect DEF QueueInv
  <1>5. waitNotEmpty' = {}
    BY <1>1 DEF QueueInv, NoStrandedThread
  <1>6. /\ waitNotFull' \in SUBSET Threads
        /\ waitNotFull' # {} => sizeUnsynchronized' >= maxSize /\ ~readOnly
    <2>1. CASE MakesRoom(n)
      BY <2>1 DEF PopSome
    <2>2. CASE ~MakesRoom(n)
      <3>1. waitNotFull' = waitNotFull
        BY <2>2 DEF PopSome
      <3>2. waitNotFull # {} => sizeUnsynchronized >= maxSize + n
        BY <1>2, <2>2, MaxSizeAssumption DEF MakesRoom, QueueInv, NoStrandedThread
      <3> QED
        BY <1>2, <1>4, <3>1, <3>2, MaxSizeAssumption DEF NumToPop, QueueInv, NoStrandedThread, TypeOK
    <2> QED
      BY <2>1, <2>2
  <1>7. TypeOK'
    BY <1>1, <1>4, <1>5, <1>6 DEF QueueInv, TypeOK, OpsAre
  <1>8. NoStrandedThread'
    BY <1>1, <1>5, <1>6 DEF QueueInv, NoStrandedThread
  <1> QED
    BY <1>7, <1>8 DEF QueueInv

(* A call that returns or falls asleep without touching the queue. *)
LEMMA WaitKeeps ==
  ASSUME QueueInv, OpsAre(op'), UNCHANGED <<storage, flags, popped>>,
         pushed' \in SUBSET Elts,
         waitNotEmpty' \in SUBSET Threads, waitNotFull' \in SUBSET Threads,
         waitNotEmpty' \subseteq waitNotEmpty \/ (sizeUnsynchronized = 0 /\ ~closed /\ ~readOnly),
         waitNotFull' \subseteq waitNotFull \/ (sizeUnsynchronized >= maxSize /\ ~closed /\ ~readOnly)
  PROVE  QueueInv'
  <1>1. sizeUnsynchronized' = sizeUnsynchronized
    BY DEF storage, sizeUnsynchronized
  <1>2. TypeOK'
    BY DEF QueueInv, TypeOK, OpsAre, storage, flags
  <1>3. NoStrandedThread'
    BY <1>1 DEF QueueInv, NoStrandedThread, flags
  <1> QED
    BY <1>2, <1>3 DEF QueueInv

LEMMA NextQueueInv == QueueInv /\ [Next]_vars => QueueInv'
  <1> SUFFICES ASSUME QueueInv, [Next]_vars
               PROVE  QueueInv'
    OBVIOUS
  <1>1. OpsAre(op) /\ waitNotEmpty \in SUBSET Threads /\ waitNotFull \in SUBSET Threads /\ pushed \in SUBSET Elts
    BY DEF QueueInv, TypeOK, OpsAre
  <1>2. ASSUME NEW t \in Threads, NEW elt \in Elts, waitPush(t, elt)
        PROVE  QueueInv'
    <2>1. CASE closed \/ readOnly
      BY <1>1, <1>2, <2>1, OpsTyped, WaitKeeps DEF waitPush
    <2>2. CASE ~(closed \/ readOnly) /\ sizeUnsynchronized >= maxSize
      <3>1. /\ waitNotFull' = waitNotFull \cup {t} /\ Blocks(t, PushOp(elt)) /\ pushed' = pushed \cup {elt}
            /\ UNCHANGED <<storage, flags, waitNotEmpty, popped>>
        BY <1>2, <2>2 DEF waitPush
      <3>2. OpsAre(op')
        BY <1>1, <3>1, OpsTyped
      <3> QED
        BY <1>1, <2>2, <3>1, <3>2, WaitKeeps
    <2>3. CASE ~(closed \/ readOnly) /\ ~(sizeUnsynchronized >= maxSize)
      <3>1. Push(elt) /\ Returns(t)
        BY <1>2, <2>3 DEF waitPush
      <3> QED
        BY <1>1, <2>3, <3>1, OpsTyped, PushKeeps
    <2> QED
      BY <2>1, <2>2, <2>3
  <1>3. ASSUME NEW t \in Threads, NEW elt \in Elts, forcePush(t, elt)
        PROVE  QueueInv'
    <2>1. ~closed /\ ~readOnly /\ Push(elt) /\ op' = op
      BY <1>3 DEF forcePush
    <2> QED
      BY <1>1, <2>1, PushKeeps
  <1>4. ASSUME NEW t \in Threads, NEW n \in PopSizes, waitPopUpToN(t, n)
        PROVE  QueueInv'
    <2>1. CASE closed \/ (readOnly /\ sizeUnsynchronized = 0)
      BY <1>1, <1>4, <2>1, OpsTyped, WaitKeeps DEF waitPopUpToN
    <2>2. CASE ~(closed \/ (readOnly /\ sizeUnsynchronized = 0)) /\ sizeUnsynchronized = 0
      <3>1. /\ waitNotEmpty' = waitNotEmpty \cup {t} /\ Blocks(t, PopOp(n))
            /\ UNCHANGED <<storage, flags, waitNotFull, pushed, popped>>
        BY <1>4, <2>2 DEF waitPopUpToN
      <3>2. OpsAre(op')
        BY <1>1, <3>1, OpsTyped
      <3> QED
        BY <1>1, <2>2, <3>1, <3>2, WaitKeeps
    <2>3. CASE ~closed /\ sizeUnsynchronized # 0
      <3>1. PopSome(n) /\ Returns(t)
        BY <1>4, <2>3 DEF waitPopUpToN
      <3> QED
        BY <1>1, <2>3, <3>1, OpsTyped, PopKeeps, PopSizesAssumption
    <2> QED
      BY <2>1, <2>2, <2>3
  <1>5. ASSUME NEW t \in Threads, tryPop(t)
        PROVE  QueueInv'
    <2>1. ~closed /\ sizeUnsynchronized > 0 /\ PopSome(1) /\ op' = op
      BY <1>5 DEF tryPop
    <2>2. sizeUnsynchronized # 0
      BY <2>1
    <2> QED
      BY <1>1, <2>1, <2>2, PopKeeps
  <1>6. ASSUME NEW t \in Threads, close(t)
        PROVE  QueueInv'
    <2>1. /\ closed' = TRUE /\ eltsDequeue' = <<>> /\ eltsEnqueue' = <<>>
          /\ waitNotEmpty' = {} /\ waitNotFull' = {}
          /\ UNCHANGED <<headIdx, readOnly, op, pushed, popped>>
      BY <1>6 DEF close, WakeAll
    <2>2. <<>> \in Seq(Elts)
      BY EmptySeq
    <2>3. TypeOK'
      BY <2>1, <2>2 DEF QueueInv, TypeOK
    <2>4. NoStrandedThread'
      BY <2>1 DEF NoStrandedThread
    <2> QED
      BY <2>3, <2>4 DEF QueueInv
  <1>7. ASSUME NEW t \in Threads, setReadOnly(t)
        PROVE  QueueInv'
    <2>1. /\ readOnly' = TRUE /\ waitNotEmpty' = {} /\ waitNotFull' = {}
          /\ UNCHANGED <<storage, closed, op, pushed, popped>>
      BY <1>7 DEF setReadOnly, WakeAll
    <2>2. TypeOK'
      BY <2>1 DEF QueueInv, TypeOK, storage
    <2>3. NoStrandedThread'
      BY <2>1 DEF NoStrandedThread
    <2> QED
      BY <2>2, <2>3 DEF QueueInv
  <1>8. ASSUME NEW t \in Threads, unsetReadOnly(t)
        PROVE  QueueInv'
    <2>1. /\ readOnly' = FALSE
          /\ UNCHANGED <<storage, closed, waitNotEmpty, waitNotFull, op, pushed, popped>>
      BY <1>8 DEF unsetReadOnly
    <2>2. TypeOK' /\ sizeUnsynchronized' = sizeUnsynchronized
      BY <2>1 DEF QueueInv, TypeOK, storage, sizeUnsynchronized
    <2>3. NoStrandedThread'
      BY <2>1, <2>2 DEF QueueInv, NoStrandedThread
    <2> QED
      BY <2>2, <2>3 DEF QueueInv
  <1>9. ASSUME NEW t \in Threads, SpuriousWakeup(t)
        PROVE  QueueInv'
    <2>1. /\ waitNotEmpty' \subseteq waitNotEmpty /\ waitNotFull' \subseteq waitNotFull
          /\ UNCHANGED <<storage, flags, op, pushed, popped>>
      BY <1>9 DEF SpuriousWakeup
    <2> QED
      BY <1>1, <2>1, WaitKeeps
  <1>10. CASE UNCHANGED vars
    BY <1>1, <1>10, WaitKeeps DEF vars, storage, flags
  <1> QED
    BY <1>2, <1>3, <1>4, <1>5, <1>6, <1>7, <1>8, <1>9, <1>10 DEF Next

LEMMA QueueInvOfSpec == Spec => []QueueInv
  BY InitQueueInv, NextQueueInv, PTL DEF Spec

(* In every run of the queue, whatever threads use it, the fields have     *)
(* their types and sizeUnsynchronized never trips over its assertion.      *)
THEOREM QueueTypeCorrect == Spec => []TypeOK
  <1>1. QueueInv => TypeOK
    BY DEF QueueInv
  <1> QED
    BY <1>1, QueueInvOfSpec, PTL

(* Notifying only at the edges loses no wakeup: a thread sleeps in         *)
(* waitPush, waitPop or waitPopUpToN only while it has to.                 *)
THEOREM NoLostWakeup == Spec => []NoStrandedThread
  <1>1. QueueInv => NoStrandedThread
    BY DEF QueueInv
  <1> QED
    BY <1>1, QueueInvOfSpec, PTL

-----------------------------------------------------------------------------
(* The refinement *)

LEMMA InitIsFifo == Init => Fifo!Init
  <1>1. SubSeq(<<>>, 1, 0) = <<>>
    BY SubSeqEmpty
  <1>2. <<>> \in Seq(Elts)
    BY EmptySeq
  <1>3. <<>> \o <<>> = <<>>
    BY <1>2, ConcatEmptySeq
  <1>4. Init => Content = <<>>
    BY <1>1, <1>3 DEF Init, Content
  <1> QED
    BY <1>4 DEF Init, Fifo!Init

LEMMA PushIsFifo ==
  ASSUME QueueInv, ~closed, ~readOnly, NEW elt \in Elts, Push(elt)
  PROVE  Fifo!Next
  <1>1. Content' = Append(Content, elt)
    BY PushEffect DEF Push, QueueInv
  <1>2. Fifo!Push(elt)
    BY <1>1 DEF Push, Fifo!Push
  <1> QED
    BY <1>2 DEF Fifo!Next

LEMMA PopIsFifo ==
  ASSUME QueueInv, ~closed, sizeUnsynchronized # 0, NEW n \in Nat \ {0}, PopSome(n)
  PROVE  Fifo!Next
  <1>1. /\ sizeUnsynchronized \in Nat /\ Len(Content) = sizeUnsynchronized
    BY ContentTyped DEF QueueInv
  <1>2. NumToPop(n) \in 1 .. sizeUnsynchronized
    BY <1>1 DEF NumToPop
  <1>3. popUnsynchronized(NumToPop(n)) /\ UNCHANGED <<closed, readOnly>>
    BY DEF PopSome, NumToPop
  <1>4. /\ popped' = popped \o SubSeq(Content, 1, NumToPop(n))
        /\ Content' = SubSeq(Content, NumToPop(n) + 1, Len(Content))
    BY <1>2, <1>3, PopEffect DEF QueueInv
  <1>5. Fifo!Pop(NumToPop(n))
    BY <1>1, <1>2, <1>3, <1>4 DEF Fifo!Pop
  <1> QED
    BY <1>1, <1>2, <1>5 DEF Fifo!Next

LEMMA StepIsFifo == QueueInv /\ [Next]_vars => [Fifo!Next]_(Fifo!vars)
  <1> SUFFICES ASSUME QueueInv, [Next]_vars
               PROVE  Fifo!Next \/ UNCHANGED Fifo!vars
    OBVIOUS
  <1>1. UNCHANGED <<storage, flags, popped>> => UNCHANGED Fifo!vars
    BY DEF storage, flags, Content, Fifo!vars
  <1>2. ASSUME NEW t \in Threads, NEW elt \in Elts, waitPush(t, elt)
        PROVE  Fifo!Next \/ UNCHANGED Fifo!vars
    <2>1. CASE (closed \/ readOnly) \/ sizeUnsynchronized >= maxSize
      BY <1>1, <1>2, <2>1 DEF waitPush
    <2>2. CASE ~((closed \/ readOnly) \/ sizeUnsynchronized >= maxSize)
      BY <1>2, <2>2, PushIsFifo DEF waitPush
    <2> QED
      BY <2>1, <2>2
  <1>3. ASSUME NEW t \in Threads, NEW elt \in Elts, forcePush(t, elt)
        PROVE  Fifo!Next
    BY <1>3, PushIsFifo DEF forcePush
  <1>4. ASSUME NEW t \in Threads, NEW n \in PopSizes, waitPopUpToN(t, n)
        PROVE  Fifo!Next \/ UNCHANGED Fifo!vars
    <2>1. CASE closed \/ sizeUnsynchronized = 0
      BY <1>1, <1>4, <2>1 DEF waitPopUpToN
    <2>2. CASE ~(closed \/ sizeUnsynchronized = 0)
      BY <1>4, <2>2, PopIsFifo, PopSizesAssumption DEF waitPopUpToN
    <2> QED
      BY <2>1, <2>2
  <1>5. ASSUME NEW t \in Threads, tryPop(t)
        PROVE  Fifo!Next
    <2>1. ~closed /\ sizeUnsynchronized # 0 /\ PopSome(1)
      BY <1>5 DEF tryPop
    <2> QED
      BY <2>1, PopIsFifo
  <1>6. ASSUME NEW t \in Threads, close(t)
        PROVE  Fifo!Next
    <2>1. headIdx + 1 \in Int /\ 0 < headIdx + 1
      BY DEF QueueInv, TypeOK
    <2>2. SubSeq(<<>>, headIdx + 1, 0) = <<>>
      BY <2>1, SubSeqEmpty
    <2>3. <<>> \in Seq(Elts) /\ Len(<<>>) = 0
      BY EmptySeq
    <2>4. <<>> \o <<>> = <<>>
      BY <2>3, ConcatEmptySeq
    <2>5. Content' = <<>>
      BY <1>6, <2>2, <2>3, <2>4 DEF close, Content
    <2>6. Fifo!Close
      BY <1>6, <2>5 DEF close, Fifo!Close
    <2> QED
      BY <2>6 DEF Fifo!Next
  <1>7. ASSUME NEW t \in Threads, setReadOnly(t)
        PROVE  Fifo!Next
    <2>1. Content' = Content
      BY <1>7 DEF setReadOnly, storage, Content
    <2>2. Fifo!SetWritable(FALSE)
      BY <1>7, <2>1 DEF setReadOnly, Fifo!SetWritable
    <2> QED
      BY <2>2 DEF Fifo!Next
  <1>8. ASSUME NEW t \in Threads, unsetReadOnly(t)
        PROVE  Fifo!Next
    <2>1. Content' = Content
      BY <1>8 DEF unsetReadOnly, storage, Content
    <2>2. Fifo!SetWritable(TRUE)
      BY <1>8, <2>1 DEF unsetReadOnly, Fifo!SetWritable
    <2> QED
      BY <2>2 DEF Fifo!Next
  <1>9. ASSUME NEW t \in Threads, SpuriousWakeup(t)
        PROVE  UNCHANGED Fifo!vars
    BY <1>1, <1>9 DEF SpuriousWakeup
  <1>10. CASE UNCHANGED vars
    BY <1>1, <1>10 DEF vars, storage, flags
  <1> QED
    BY <1>2, <1>3, <1>4, <1>5, <1>6, <1>7, <1>8, <1>9, <1>10 DEF Next

(* The two vectors, the lazy swap between them and the bulk pop implement  *)
(* the abstract queue: elements come out once, in the order in which they  *)
(* went in, none goes in while it is read only, and none goes in or out    *)
(* once it is closed.                                                      *)
THEOREM QueueIsFifo == Spec => ImplementsFifo
  BY InitIsFifo, StepIsFifo, QueueInvOfSpec, PTL DEF Spec, ImplementsFifo, Fifo!Spec

=============================================================================
