------------------------- MODULE FutureDequeProofs -------------------------
(***************************************************************************)
(* Proofs about the future deque, for any number of futures, blocks,       *)
(* threads and tasks: a recycled metadata block is never reached through   *)
(* an old waker, every block returns to the pool, and no wake is lost on a *)
(* sleeping task.                                                          *)
(*                                                                         *)
(* IInv is taken in three layers, each of which only uses those before it: *)
(* the slots, the reference counts, the wakes.                             *)
(***************************************************************************)
EXTENDS FutureDeque, FiniteSetTheorems, TLAPS

----------------------------------------------------------------------------
(* The slots as a sequence. *)

\* push_back_handle() and push_front_handle() add one future and keep the others.
LEMMA PushedSlots ==
    ASSUME NEW s \in Seq(Futures), NEW f \in Futures, NEW p,
           p = Append(s, f) \/ p = <<f>> \o s,
           Distinct(s), ~Member(f, s)
    PROVE  /\ p \in Seq(Futures) /\ Len(p) = Len(s) + 1 /\ Distinct(p)
           /\ \A g : Member(g, p) <=> g = f \/ Member(g, s)
<1>1. CASE p = Append(s, f)
  <2>1. p \in Seq(Futures) /\ Len(p) = Len(s) + 1 /\ DOMAIN p = 1 .. (Len(s) + 1)
        /\ DOMAIN s = 1 .. Len(s) /\ Len(s) \in Nat
    BY <1>1
  <2>2. /\ \A i \in DOMAIN s : i \in DOMAIN p /\ p[i] = s[i]
        /\ p[Len(s) + 1] = f /\ Len(s) + 1 \in DOMAIN p
        /\ \A i \in DOMAIN p : i = Len(s) + 1 \/ i \in DOMAIN s
    BY <1>1, <2>1
  <2>3. Distinct(p)
    BY <2>1, <2>2 DEF Distinct, Member
  <2>4. \A g : Member(g, p) <=> g = f \/ Member(g, s)
    BY <2>1, <2>2 DEF Member
  <2> QED
    BY <2>1, <2>3, <2>4
<1>2. CASE p = <<f>> \o s
  <2>1. p \in Seq(Futures) /\ Len(p) = Len(s) + 1 /\ DOMAIN p = 1 .. (Len(s) + 1)
        /\ DOMAIN s = 1 .. Len(s) /\ Len(s) \in Nat
    BY <1>2
  <2>2. /\ \A i \in DOMAIN s : i + 1 \in DOMAIN p /\ p[i + 1] = s[i]
        /\ p[1] = f /\ 1 \in DOMAIN p
        /\ \A i \in DOMAIN p : i = 1 \/ (i - 1 \in DOMAIN s /\ p[i] = s[i - 1])
    BY <1>2, <2>1
  <2>3. Distinct(p)
    <3> SUFFICES ASSUME NEW i \in DOMAIN p, NEW j \in DOMAIN p, p[i] = p[j] PROVE i = j
      BY DEF Distinct
    <3>1. CASE i = 1 \/ j = 1
      BY <3>1, <2>2 DEF Member
    <3>2. CASE i # 1 /\ j # 1
      <4>1. i - 1 = j - 1
        BY <3>2, <2>2 DEF Distinct
      <4> QED
        BY <4>1, <2>1
    <3> QED
      BY <3>1, <3>2
  <2>4. ASSUME NEW g, Member(g, s) PROVE Member(g, p)
    <3>1. PICK i \in DOMAIN s : s[i] = g
      BY <2>4 DEF Member
    <3>2. i + 1 \in DOMAIN p /\ p[i + 1] = g
      BY <3>1, <2>2
    <3> QED
      BY <3>2 DEF Member
  <2>5. ASSUME NEW g, Member(g, p), g # f PROVE Member(g, s)
    <3>1. PICK i \in DOMAIN p : p[i] = g
      BY <2>5 DEF Member
    <3>2. i - 1 \in DOMAIN s /\ s[i - 1] = g
      BY <3>1, <2>5, <2>2
    <3> QED
      BY <3>2 DEF Member
  <2>6. Member(f, p)
    BY <2>2 DEF Member
  <2> QED
    BY <2>1, <2>3, <2>4, <2>5, <2>6
<1> QED
  BY <1>1, <1>2

\* pop_front(), pop_back() and the drop take one future out.
LEMMA PoppedSlots ==
    ASSUME NEW s \in Seq(Futures), s # <<>>, Distinct(s), NEW f, NEW p,
           \/ f = s[1] /\ p = Tail(s)
           \/ f = s[Len(s)] /\ p = SubSeq(s, 1, Len(s) - 1)
    PROVE  /\ p \in Seq(Futures) /\ Distinct(p) /\ f \in Futures
           /\ \A g : Member(g, p) <=> g # f /\ Member(g, s)
<1>0. Len(s) \in Nat \ {0} /\ DOMAIN s = 1 .. Len(s) /\ \A i \in 1 .. Len(s) : s[i] \in Futures
  OBVIOUS
<1>1. CASE f = s[1] /\ p = Tail(s)
  <2>1. p \in Seq(Futures) /\ DOMAIN p = 1 .. (Len(s) - 1)
        /\ \A i \in DOMAIN p : i + 1 \in DOMAIN s /\ p[i] = s[i + 1]
    BY <1>0, <1>1
  <2>2. \A i \in DOMAIN s : i # 1 => i - 1 \in DOMAIN p /\ p[i - 1] = s[i]
    BY <1>0, <1>1, <2>1
  <2>3. Distinct(p)
    <3> SUFFICES ASSUME NEW i \in DOMAIN p, NEW j \in DOMAIN p, p[i] = p[j] PROVE i = j
      BY DEF Distinct
    <3>1. i + 1 = j + 1
      BY <2>1 DEF Distinct
    <3> QED
      BY <3>1, <2>1, <1>0
  <2>4. \A i \in DOMAIN p : p[i] # f
    BY <1>0, <1>1, <2>1 DEF Distinct
  <2>5. \A g : Member(g, p) <=> g # f /\ Member(g, s)
    <3>1. ASSUME NEW g, g # f, Member(g, s) PROVE Member(g, p)
      <4>1. PICK i \in DOMAIN s : s[i] = g /\ i # 1
        BY <1>1, <3>1 DEF Member
      <4>2. i - 1 \in DOMAIN p /\ p[i - 1] = g
        BY <4>1, <2>2
      <4> QED
        BY <4>2 DEF Member
    <3>2. ASSUME NEW g, Member(g, p) PROVE Member(g, s)
      BY <3>2, <2>1 DEF Member
    <3> QED
      BY <3>1, <3>2, <2>4 DEF Member
  <2> QED
    BY <1>0, <1>1, <2>1, <2>3, <2>5
<1>2. CASE f = s[Len(s)] /\ p = SubSeq(s, 1, Len(s) - 1)
  <2>1. p \in Seq(Futures) /\ DOMAIN p = 1 .. (Len(s) - 1)
        /\ \A i \in DOMAIN p : i \in DOMAIN s /\ p[i] = s[i]
    BY <1>0, <1>2
  <2>2. \A i \in DOMAIN s : i # Len(s) => i \in DOMAIN p
    BY <1>0, <2>1
  <2>3. Len(s) \in DOMAIN s /\ Len(s) \notin DOMAIN p
    BY <1>0, <2>1
  <2>4. \A i \in DOMAIN p : p[i] # f
    BY <1>2, <2>1, <2>3 DEF Distinct
  <2>5. \A g : Member(g, p) <=> g # f /\ Member(g, s)
    BY <1>2, <2>1, <2>2, <2>3, <2>4 DEF Member
  <2>6. Distinct(p)
    BY <2>1 DEF Distinct
  <2> QED
    BY <1>0, <1>2, <2>1, <2>5, <2>6
<1> QED
  BY <1>1, <1>2

----------------------------------------------------------------------------
(* What the invariant says of one future, block or thread. *)

\* An index of the deque.
LEMMA PositionOf ==
    ASSUME TypeOK, NEW i \in DOMAIN slots
    PROVE  slots[i] \in Futures /\ Member(slots[i], slots) /\ i \in 1 .. Len(slots)
BY DEF TypeOK, Member

\* The slot poll() is visiting.
LEMMA Visited ==
    ASSUME TypeOK, SlotsInv, PointersAreCurrent, pc \in Visiting
    PROVE  /\ at \in DOMAIN slots /\ slots[at] \in Futures
           /\ meta[slots[at]] \in Metas /\ owner[meta[slots[at]]] = slots[at]
           /\ Member(slots[at], slots)
<1>1. at \in DOMAIN slots /\ slots[at] \in Futures /\ Member(slots[at], slots)
  BY PositionOf DEF SlotsInv
<1>2. meta[slots[at]] # Nobody
  BY <1>1 DEF SlotsInv, Pending, Visiting
<1> QED
  BY <1>1, <1>2 DEF TypeOK, PointersAreCurrent

\* The first slot, if its future is pending.
LEMMA FrontPending ==
    ASSUME TypeOK, SlotsInv, PointersAreCurrent, slots # <<>>, Pending(slots[1])
    PROVE  /\ slots[1] \in Futures /\ Member(slots[1], slots)
           /\ meta[slots[1]] \in Metas /\ owner[meta[slots[1]]] = slots[1]
<1>1. 1 \in DOMAIN slots
  BY DEF TypeOK
<1>2. slots[1] \in Futures /\ Member(slots[1], slots)
  BY <1>1, PositionOf
<1>3. meta[slots[1]] # Nobody
  BY <1>2 DEF SlotsInv
<1> QED
  BY <1>2, <1>3 DEF TypeOK, PointersAreCurrent

\* Only finitely many threads hold wakers.
LEMMA HoldersCount ==
    ASSUME NEW m PROVE IsFiniteSet(Holders(m)) /\ Cardinality(Holders(m)) \in Nat
<1>1. Holders(m) \subseteq Threads
  BY DEF Holders
<1> QED
  BY <1>1, DequeAssumption, FS_Subset, FS_CardinalityType

\* A block that is owned by its future's slot, or that a thread holds, has
\* references to release.
LEMMA SlotCounted ==
    ASSUME TypeOK, BlocksInv, NEW m \in Metas, owner[m] \in Futures, meta[owner[m]] = m
    PROVE  refs[m] = Cardinality(Holders(m)) + (IF HalfReleased(owner[m]) THEN 1 ELSE 2)
BY DEF BlocksInv, SlotRefs

\* A block that a thread holds is allocated.
LEMMA HolderCounted ==
    ASSUME TypeOK, BlocksInv, NEW t \in Threads, held[t] \in Metas
    PROVE  refs[held[t]] >= 1 /\ owner[held[t]] # Nobody
<1>1. t \in Holders(held[t])
  BY DEF Holders
<1>2. Cardinality(Holders(held[t])) >= 1
  BY <1>1, HoldersCount, FS_EmptySet
<1>3. SlotRefs(held[t]) \in Nat
  BY DEF SlotRefs
<1>4. refs[held[t]] = Cardinality(Holders(held[t])) + SlotRefs(held[t])
  BY DEF BlocksInv
<1>5. Cardinality(Holders(held[t])) \in Nat
  BY HoldersCount
<1> QED
  BY <1>2, <1>3, <1>4, <1>5 DEF BlocksInv

----------------------------------------------------------------------------
(* The slots. *)

\* push: one slot more.
LEMMA PushSlots ==
    ASSUME IInv, NEW f \in Futures, PushBack(f) \/ PushFront(f)
    PROVE  TypeOK' /\ SlotsInv'
<1>1. /\ pc = "idle" /\ status[f] = "new" /\ at = 1
      /\ slots' = Append(slots, f) \/ slots' = <<f>> \o slots
      /\ status' = [status EXCEPT ![f] = "pending"]
      /\ UNCHANGED <<parent, pc, at, cx, op, held, source, tpc, hand, woken, asleep, due>>
  BY DEF IInv, SlotsInv, Visiting, PushBack, PushFront, PushHandle, ownerVars, threadVars, taskVars
<1>2. PICK m \in Metas : Create(m, f) /\ meta' = [meta EXCEPT ![f] = m]
  BY DEF PushBack, PushFront, PushHandle
<1>3. slots \in Seq(Futures) /\ Distinct(slots) /\ ~Member(f, slots)
  BY <1>1 DEF IInv, TypeOK, SlotsInv
<1>4. /\ slots' \in Seq(Futures) /\ Len(slots') = Len(slots) + 1 /\ Distinct(slots')
      /\ \A g : Member(g, slots') <=> g = f \/ Member(g, slots)
  BY <1>1, <1>3, PushedSlots
<1>5. TypeOK'
  BY <1>1, <1>2, <1>4 DEF IInv, TypeOK, Create
<1>6. m # Nobody
  BY DequeAssumption
<1>7. SlotsInv'
  BY <1>1, <1>2, <1>4, <1>6 DEF IInv, SlotsInv, TypeOK, Visiting, Pending
<1> QED
  BY <1>5, <1>7

\* A pop takes out a completed future.
LEMMA PopTakes ==
    ASSUME TypeOK, SlotsInv, PopFrontIfReady \/ PopBackIfReady
    PROVE  \E f \in Futures :
              /\ status[f] = "ready" /\ Member(f, slots)
              /\ status' = [status EXCEPT ![f] = "popped"] /\ meta' = meta
              /\ slots' \in Seq(Futures) /\ Distinct(slots')
              /\ \A g : Member(g, slots') <=> g # f /\ Member(g, slots)
<1>1. PICK i \in DOMAIN slots :
         /\ status[slots[i]] = "ready"
         /\ status' = [status EXCEPT ![slots[i]] = "popped"] /\ meta' = meta
         /\ \/ i = 1 /\ slots' = Tail(slots)
            \/ i = Len(slots) /\ slots' = SubSeq(slots, 1, Len(slots) - 1)
  BY DEF PopFrontIfReady, PopBackIfReady, Ready
<1>2. slots # <<>> /\ Distinct(slots)
  BY DEF TypeOK, SlotsInv
<1>3. slots' \in Seq(Futures) /\ Distinct(slots')
      /\ \A g : Member(g, slots') <=> g # slots[i] /\ Member(g, slots)
  BY <1>1, <1>2, PoppedSlots DEF TypeOK
<1> QED
  BY <1>1, <1>3, PositionOf

\* pop_front() and pop_back(), outside a poll.
LEMMA PopSlots ==
    ASSUME IInv, Pop PROVE TypeOK' /\ SlotsInv'
<1>1. pc = "idle" /\ UNCHANGED <<refs, activated, owner, parent, pc, at, cx, op, held, source,
                                 tpc, hand, woken, asleep, due>>
  BY DEF Pop, poolVars, ownerVars, threadVars, taskVars
<1>2. PICK f \in Futures :
              /\ status[f] = "ready" /\ Member(f, slots)
              /\ status' = [status EXCEPT ![f] = "popped"] /\ meta' = meta
              /\ slots' \in Seq(Futures) /\ Distinct(slots')
              /\ \A g : Member(g, slots') <=> g # f /\ Member(g, slots)
  BY PopTakes DEF Pop, IInv
<1>3. at = 1
  BY <1>1 DEF IInv, SlotsInv, Visiting
<1>4. TypeOK'
  BY <1>1, <1>2, <1>3 DEF IInv, TypeOK
<1>5. SlotsInv'
  BY <1>1, <1>2, <1>3 DEF IInv, SlotsInv, TypeOK, Visiting, Pending
<1> QED
  BY <1>4, <1>5

\* poll() up to the visit of a future, and its ends that leave the slots alone.
LEMMA PollQuietSlots ==
    ASSUME IInv,
           \/ \E w \in Parents : Poll(w)
           \/ UpdateParent \/ Scan \/ FuturePending \/ FutureUnwinds \/ BeginDrop
    PROVE  TypeOK' /\ SlotsInv'
<1>0. slots \in Seq(Futures) /\ Len(slots) \in Nat /\ DOMAIN slots = 1 .. Len(slots)
  BY DEF IInv, TypeOK
<1>1. CASE \E w \in Parents : Poll(w)
  BY <1>0, <1>1, ZenonT(60) DEF Poll, IInv, TypeOK, SlotsInv, Visiting, Pending, Pcs,
     dequeVars, poolVars, ownerVars, threadVars, taskVars
<1>2. CASE UpdateParent
  BY <1>0, <1>2 DEF UpdateParent, IInv, TypeOK, SlotsInv, Visiting, Pending, Pcs,
     dequeVars, poolVars, ownerVars, threadVars, taskVars
<1>3. CASE Scan
  BY <1>0, <1>3 DEF Scan, IInv, TypeOK, SlotsInv, Visiting, Pending, Pcs,
     dequeVars, poolVars, ownerVars, threadVars, taskVars
<1>4. CASE FuturePending
  BY <1>0, <1>4 DEF FuturePending, IInv, TypeOK, SlotsInv, Visiting, Pending, Pcs,
     dequeVars, poolVars, ownerVars, threadVars, taskVars
<1>5. CASE FutureUnwinds
  BY <1>0, <1>5 DEF FutureUnwinds, IInv, TypeOK, SlotsInv, Visiting, Pending, Pcs,
     dequeVars, poolVars, ownerVars, threadVars, taskVars
<1>6. CASE BeginDrop
  BY <1>0, <1>6 DEF BeginDrop, IInv, TypeOK, SlotsInv, Visiting, Pending, Pcs,
     dequeVars, poolVars, ownerVars, threadVars, taskVars
<1> QED
  BY <1>1, <1>2, <1>3, <1>4, <1>5, <1>6

\* The references a slot can release are there.
LEMMA SlotReleases ==
    ASSUME IInv
    PROVE  /\ pc = "replaced" => refs[meta[slots[at]]] >= 2
           /\ pc = "old_waker" => refs[meta[slots[at]]] >= 1
           /\ pc = "drop" /\ slots # <<>> /\ ~Ready(1) =>
                Pending(slots[1]) /\ refs[meta[slots[1]]] >= 2
           /\ pc = "drop_waker" => refs[meta[slots[1]]] >= 1
<1>1. /\ pc = "replaced" => refs[meta[slots[at]]] >= 2
      /\ pc = "old_waker" => refs[meta[slots[at]]] >= 1
  <2> SUFFICES ASSUME pc \in {"replaced", "old_waker"}
               PROVE  refs[meta[slots[at]]] >= (IF pc = "replaced" THEN 2 ELSE 1)
    OBVIOUS
  <2> DEFINE m == meta[slots[at]]
  <2>1. m \in Metas /\ owner[m] \in Futures /\ owner[m] = slots[at] /\ meta[owner[m]] = m
    BY Visited DEF IInv, Visiting
  <2>2. refs[m] = Cardinality(Holders(m)) + (IF HalfReleased(owner[m]) THEN 1 ELSE 2)
    BY <2>1, SlotCounted DEF IInv
  <2>3. Cardinality(Holders(m)) \in Nat
    BY HoldersCount
  <2>4. pc = "replaced" => ~HalfReleased(owner[m])
    BY DEF HalfReleased
  <2> QED
    BY <2>2, <2>3, <2>4
<1>2. ASSUME pc \in {"drop", "drop_waker"}, slots # <<>>, Pending(slots[1])
      PROVE  refs[meta[slots[1]]] >= (IF pc = "drop" THEN 2 ELSE 1)
  <2> DEFINE m == meta[slots[1]]
  <2>1. m \in Metas /\ owner[m] \in Futures /\ owner[m] = slots[1] /\ meta[owner[m]] = m
    BY <1>2, FrontPending DEF IInv
  <2>2. refs[m] = Cardinality(Holders(m)) + (IF HalfReleased(owner[m]) THEN 1 ELSE 2)
    BY <2>1, SlotCounted DEF IInv
  <2>3. Cardinality(Holders(m)) \in Nat
    BY HoldersCount
  <2>4. pc = "drop" => ~HalfReleased(owner[m])
    BY DEF HalfReleased
  <2> QED
    BY <2>2, <2>3, <2>4
<1>3. slots # <<>> /\ ~Ready(1) => Pending(slots[1])
  <2> SUFFICES ASSUME slots # <<>>, ~Ready(1) PROVE Pending(slots[1])
    OBVIOUS
  <2>1. 1 \in DOMAIN slots
    BY DEF IInv, TypeOK
  <2>2. status[slots[1]] \in {"pending", "ready"}
    BY <2>1, PositionOf DEF IInv, SlotsInv
  <2> QED
    BY <2>1, <2>2 DEF Ready, Pending
<1>4. pc = "drop_waker" => slots # <<>> /\ Pending(slots[1])
  BY DEF IInv, SlotsInv
<1> QED
  BY <1>1, <1>2, <1>3, <1>4

\* release_ref() of a block with references keeps the counts natural numbers.
LEMMA ReleaseTypes ==
    ASSUME TypeOK, NEW m \in Metas, refs[m] >= 1, ReleaseRef(m)
    PROVE  refs' \in [Metas -> Nat] /\ owner' \in [Metas -> Futures \cup {Nobody}]
<1>1. refs[m] - 1 \in Nat
  BY DEF TypeOK
<1> QED
  BY <1>1 DEF ReleaseRef, TypeOK

\* The result takes the slot, then the old slot's references go.
LEMMA VisitSlots ==
    ASSUME IInv, FutureReady \/ ReleaseSlot \/ DropOldWaker
    PROVE  TypeOK' /\ SlotsInv'
<1>0. slots \in Seq(Futures) /\ Len(slots) \in Nat /\ DOMAIN slots = 1 .. Len(slots)
  BY DEF IInv, TypeOK
<1>1. /\ at \in DOMAIN slots /\ slots[at] \in Futures
      /\ meta[slots[at]] \in Metas /\ Member(slots[at], slots)
  BY Visited DEF IInv, FutureReady, ReleaseSlot, DropOldWaker, Visiting
<1>2. \A i \in DOMAIN slots : slots[i] = slots[at] => i = at
  BY <1>1 DEF IInv, SlotsInv, Distinct
<1>3. CASE FutureReady
  BY <1>0, <1>1, <1>2, <1>3 DEF FutureReady, IInv, TypeOK, SlotsInv, Visiting, Pending, Pcs,
     poolVars, threadVars, taskVars
<1>4. CASE ReleaseSlot
  <2>1. refs[meta[slots[at]]] >= 1
    BY <1>4, <1>1, SlotReleases DEF ReleaseSlot, IInv, TypeOK
  <2>2. refs' \in [Metas -> Nat] /\ owner' \in [Metas -> Futures \cup {Nobody}]
    BY <1>1, <1>4, <2>1, ReleaseTypes DEF IInv, ReleaseSlot
  <2> QED
    BY <1>0, <1>1, <1>4, <2>2 DEF ReleaseSlot, IInv, TypeOK, SlotsInv, Visiting, Pending, Pcs,
       dequeVars, threadVars, taskVars
<1>5. CASE DropOldWaker
  <2>1. refs[meta[slots[at]]] >= 1
    BY <1>5, <1>1, SlotReleases DEF DropOldWaker, IInv, TypeOK
  <2>2. refs' \in [Metas -> Nat] /\ owner' \in [Metas -> Futures \cup {Nobody}]
    BY <1>1, <1>5, <2>1, ReleaseTypes DEF IInv, DropOldWaker
  <2> QED
    BY <1>0, <1>1, <1>5, <2>2 DEF DropOldWaker, IInv, TypeOK, SlotsInv, Visiting, Pending, Pcs,
       threadVars, taskVars
<1> QED
  BY <1>3, <1>4, <1>5

\* A poll ends, with or without a pop.
LEMMA PollEndsSlots ==
    ASSUME IInv, PollEnds PROVE TypeOK' /\ SlotsInv'
<1>0. slots \in Seq(Futures) /\ Len(slots) \in Nat /\ DOMAIN slots = 1 .. Len(slots)
  BY DEF IInv, TypeOK
<1>1. pc = "scan" /\ pc' = "idle" /\ at' = 1 /\ asleep' \in BOOLEAN
      /\ UNCHANGED <<refs, activated, owner, parent, cx, op, held, source, tpc, hand, woken, due>>
  BY DEF PollEnds, AnyPending, poolVars, threadVars, taskVars
<1>2. CASE UNCHANGED dequeVars
  BY <1>0, <1>1, <1>2 DEF IInv, TypeOK, SlotsInv, Visiting, Pending, Pcs, dequeVars
<1>3. CASE (PopFrontIfReady \/ PopBackIfReady) /\ asleep' = FALSE
  <2>1. PICK f \in Futures :
              /\ status[f] = "ready" /\ Member(f, slots)
              /\ status' = [status EXCEPT ![f] = "popped"] /\ meta' = meta
              /\ slots' \in Seq(Futures) /\ Distinct(slots')
              /\ \A g : Member(g, slots') <=> g # f /\ Member(g, slots)
    BY <1>3, PopTakes DEF IInv
  <2>2. TypeOK'
    BY <1>1, <2>1 DEF IInv, TypeOK, Pcs
  <2>3. SlotsInv'
    BY <1>1, <1>3, <2>1 DEF IInv, SlotsInv, TypeOK, Visiting, Pending
  <2> QED
    BY <2>2, <2>3
<1> QED
  BY <1>2, <1>3 DEF PollEnds

\* What the drop of the first slot leaves.
LEMMA DiscardSlots ==
    ASSUME IInv, pc \in {"drop", "drop_waker"}, slots # <<>>, Discard(slots[1]), pc' = "drop",
           refs' \in [Metas -> Nat], owner' \in [Metas -> Futures \cup {Nobody}],
           UNCHANGED <<activated, parent, at, cx, op, threadVars, taskVars>>
    PROVE  TypeOK' /\ SlotsInv'
<1>1. slots' \in Seq(Futures) /\ Distinct(slots') /\ slots[1] \in Futures
      /\ \A g : Member(g, slots') <=> g # slots[1] /\ Member(g, slots)
  BY PoppedSlots, ZenonT(60) DEF Discard, IInv, TypeOK, SlotsInv
<1>2. at = 1 /\ asleep = FALSE
  BY DEF IInv, SlotsInv, Visiting, TypeOK
<1>3. TypeOK'
  BY <1>1, <1>2 DEF IInv, TypeOK, Discard, Pcs, threadVars, taskVars
<1>4. SlotsInv'
  BY <1>1, <1>2 DEF IInv, SlotsInv, TypeOK, Visiting, Pending, Discard, taskVars
<1> QED
  BY <1>3, <1>4

\* The drop of the deque, slot by slot.
LEMMA DropSlots ==
    ASSUME IInv, DropSlot \/ DropSlotWaker PROVE TypeOK' /\ SlotsInv'
<1>0. UNCHANGED <<activated, parent, at, cx, op, threadVars, taskVars>>
  BY DEF DropSlot, DropSlotWaker
<1>1. CASE DropSlotWaker
  <2>1. slots # <<>> /\ Pending(slots[1]) /\ refs[meta[slots[1]]] >= 1
    BY <1>1, SlotReleases DEF DropSlotWaker, IInv, SlotsInv
  <2>2. refs' \in [Metas -> Nat] /\ owner' \in [Metas -> Futures \cup {Nobody}]
    BY <1>1, <2>1, FrontPending, ReleaseTypes DEF DropSlotWaker, IInv
  <2> QED
    BY <1>0, <1>1, <2>1, <2>2, DiscardSlots DEF DropSlotWaker
<1>2. CASE DropSlot /\ slots = <<>>
  BY <1>0, <1>2 DEF DropSlot, Ready, IInv, TypeOK, SlotsInv, Visiting, Pending, Pcs,
     dequeVars, threadVars, taskVars
<1>3. CASE DropSlot /\ slots # <<>> /\ Ready(1)
  BY <1>0, <1>3, DiscardSlots DEF DropSlot, IInv, TypeOK
<1>4. CASE DropSlot /\ slots # <<>> /\ ~Ready(1)
  <2>1. Pending(slots[1]) /\ refs[meta[slots[1]]] >= 2 /\ pc = "drop" /\ pc' = "drop_waker"
        /\ ReleaseRef(meta[slots[1]]) /\ UNCHANGED <<slots, status, meta>>
    BY <1>4, SlotReleases DEF DropSlot, dequeVars
  <2>2. meta[slots[1]] \in Metas
    BY <1>4, <2>1, FrontPending DEF IInv
  <2>3. refs' \in [Metas -> Nat] /\ owner' \in [Metas -> Futures \cup {Nobody}]
    BY <2>1, <2>2, ReleaseTypes DEF IInv, TypeOK
  <2> QED
    BY <1>0, <1>4, <2>1, <2>3 DEF IInv, TypeOK, SlotsInv, Visiting, Pending, Pcs,
       threadVars, taskVars
<1> QED
  BY <1>1, <1>2, <1>3, <1>4

\* Threads do not touch the slots.
LEMMA ThreadSlots ==
    ASSUME IInv, NEW t \in Threads, NEW u \in Threads,
           \/ FutureClonesWaker(t) \/ Wake(t) \/ CloneParent(t) \/ WakeParent(t)
           \/ DropWaker(t) \/ CloneWaker(t, u)
    PROVE  TypeOK' /\ SlotsInv'
<1>1. UNCHANGED <<slots, status, meta, pc, at, asleep>>
  BY DEF FutureClonesWaker, Wake, CloneParent, WakeParent, DropWaker, CloneWaker,
     dequeVars, ownerVars, taskVars
<1>2. SlotsInv'
  BY <1>1 DEF IInv, SlotsInv, Pending
<1>3. CASE FutureClonesWaker(t)
  <2>1. slots[at] \in Futures /\ meta[slots[at]] \in Metas
    BY <1>3, Visited DEF FutureClonesWaker, IInv, Visiting
  <2> QED
    BY <1>2, <1>3, <2>1 DEF FutureClonesWaker, AddRef, IInv, TypeOK, dequeVars, ownerVars, taskVars
<1>4. CASE CloneWaker(t, u)
  BY <1>2, <1>4 DEF CloneWaker, AddRef, IInv, TypeOK, dequeVars, ownerVars, taskVars
<1>5. CASE DropWaker(t)
  <2>1. held[t] \in Metas /\ refs[held[t]] >= 1
    BY <1>5, HolderCounted DEF DropWaker, IInv, TypeOK
  <2>2. refs' \in [Metas -> Nat] /\ owner' \in [Metas -> Futures \cup {Nobody}]
    BY <1>5, <2>1, ReleaseTypes DEF DropWaker, IInv
  <2> QED
    BY <1>2, <1>5, <2>2 DEF DropWaker, IInv, TypeOK, dequeVars, ownerVars, taskVars
<1>6. CASE Wake(t)
  <2>1. held[t] \in Metas /\ source[t] \in Futures
    BY <1>6, HolderCounted DEF Wake, IInv, TypeOK, PointersAreCurrent
  <2> QED
    BY <1>2, <1>6, <2>1 DEF Wake, IInv, TypeOK, dequeVars, ownerVars
<1>7. CASE CloneParent(t) \/ WakeParent(t)
  BY <1>2, <1>7, ZenonT(60) DEF CloneParent, WakeParent, IInv, TypeOK, dequeVars, poolVars, ownerVars, taskVars
<1> QED
  BY <1>3, <1>4, <1>5, <1>6, <1>7

----------------------------------------------------------------------------
(* The blocks and their reference counts. *)

Half == {"old_waker", "drop_waker"}

\* A step that touches no pointer and no count.
LEMMA QuietBlocks ==
    ASSUME IInv, UNCHANGED <<meta, refs, owner, held, source>>,
           \A f \in Futures : status'[f] = "new" => status[f] = "new",
           (pc \notin Half /\ pc' \notin Half) \/ UNCHANGED <<pc, at, slots>>
    PROVE  PointersAreCurrent' /\ BlocksInv'
<1>1. \A f : HalfReleased(f)' <=> HalfReleased(f)
  BY DEF HalfReleased, Half
<1>2. \A m : Holders(m)' = Holders(m)
  BY DEF Holders
<1>3. \A m \in Metas : SlotRefs(m)' = SlotRefs(m)
  BY <1>1 DEF SlotRefs
<1>4. PointersAreCurrent'
  BY DEF IInv, PointersAreCurrent
<1>5. BlocksInv'
  BY <1>2, <1>3 DEF IInv, BlocksInv
<1> QED
  BY <1>4, <1>5

\* The slot's own reference goes: its waker keeps the block.
LEMMA FirstRelease ==
    ASSUME IInv, NEW f \in Futures, NEW m \in Metas, meta[f] = m, owner[m] = f, ReleaseRef(m),
           UNCHANGED <<meta, held, source>>,
           \A g \in Futures : status'[g] = "new" => status[g] = "new",
           \A g \in Futures : ~HalfReleased(g), \A g \in Futures : HalfReleased(g)' <=> g = f
    PROVE  PointersAreCurrent' /\ BlocksInv'
<1>1. refs[m] = Cardinality(Holders(m)) + 2 /\ Cardinality(Holders(m)) \in Nat
  BY SlotCounted, HoldersCount DEF IInv
<1>2. owner' = owner /\ refs' = [refs EXCEPT ![m] = refs[m] - 1] /\ refs[m] - 1 # 0 /\ refs[m] # 0
  BY <1>1 DEF ReleaseRef, IInv, TypeOK
<1>3. \A n : Holders(n)' = Holders(n)
  BY DEF Holders
<1>4. SlotRefs(m)' = 1
  BY <1>2 DEF SlotRefs
<1>5. \A n \in Metas : n # m => owner[n] # f
  BY DequeAssumption DEF IInv, BlocksInv
<1>6. \A n \in Metas : n # m => SlotRefs(n)' = SlotRefs(n)
  BY <1>2, <1>5 DEF SlotRefs
<1>7. PointersAreCurrent'
  BY <1>2 DEF IInv, PointersAreCurrent
<1>8. ASSUME NEW n \in Metas
      PROVE  refs'[n] = Cardinality(Holders(n))' + SlotRefs(n)' /\ (owner'[n] = Nobody <=> refs'[n] = 0)
  <2>1. CASE n = m
    BY <2>1, <1>1, <1>2, <1>3, <1>4 DEF IInv, BlocksInv, TypeOK
  <2>2. CASE n # m
    BY <2>2, <1>2, <1>3, <1>6 DEF IInv, BlocksInv, TypeOK
  <2> QED
    BY <2>1, <2>2
<1> QED
  BY <1>2, <1>7, <1>8 DEF IInv, BlocksInv

\* The slot's waker goes, and with it the slot's pointer to the block.
LEMMA LastRelease ==
    ASSUME IInv, NEW f \in Futures, NEW m \in Metas, meta[f] = m, owner[m] = f, ReleaseRef(m),
           meta' = [meta EXCEPT ![f] = Nobody], UNCHANGED <<held, source>>,
           \A g \in Futures : status'[g] = "new" => status[g] = "new",
           \A g \in Futures : HalfReleased(g) <=> g = f, \A g \in Futures : ~HalfReleased(g)'
    PROVE  PointersAreCurrent' /\ BlocksInv'
<1>1. refs[m] = Cardinality(Holders(m)) + 1 /\ Cardinality(Holders(m)) \in Nat
  BY SlotCounted, HoldersCount DEF IInv
<1>2. /\ refs' = [refs EXCEPT ![m] = refs[m] - 1]
      /\ owner' = [owner EXCEPT ![m] = IF refs[m] = 1 THEN Nobody ELSE f]
  BY DEF ReleaseRef, IInv, TypeOK
<1>3. \A n : Holders(n)' = Holders(n)
  BY DEF Holders
<1>4. m # Nobody /\ f # Nobody
  BY DequeAssumption
<1>5. SlotRefs(m)' = 0
  <2>1. owner'[m] \in {Nobody, f} /\ meta'[f] = Nobody
    BY <1>2 DEF IInv, TypeOK
  <2> QED
    BY <2>1, <1>4, DequeAssumption DEF SlotRefs
<1>6. \A n \in Metas : n # m => owner[n] # f /\ owner'[n] = owner[n]
  BY <1>2, <1>4 DEF IInv, BlocksInv, TypeOK
<1>7. \A n \in Metas : n # m => SlotRefs(n)' = SlotRefs(n)
  BY <1>6 DEF SlotRefs, IInv, TypeOK
<1>8. refs[m] = 1 => \A t \in Threads : held[t] # m
  <2>1. refs[m] = 1 => Cardinality(Holders(m)) = 0
    BY <1>1
  <2>2. refs[m] = 1 => Holders(m) = {}
    BY <2>1, HoldersCount, FS_EmptySet
  <2> QED
    BY <2>2 DEF Holders
<1>9. PointersAreCurrent'
  <2>1. ASSUME NEW t \in Threads, held[t] # Nobody PROVE owner'[held[t]] = source[t]
    <3>1. held[t] \in Metas /\ owner[held[t]] = source[t]
      BY <2>1 DEF IInv, PointersAreCurrent, TypeOK
    <3>2. CASE held[t] = m
      BY <3>1, <3>2, <1>2, <1>8 DEF IInv, TypeOK
    <3>3. CASE held[t] # m
      BY <3>1, <3>3, <1>6
    <3> QED
      BY <3>2, <3>3
  <2>2. ASSUME NEW g \in Futures, meta'[g] # Nobody PROVE owner'[meta'[g]] = g
    <3>1. g # f /\ meta'[g] = meta[g] /\ meta[g] \in Metas /\ owner[meta[g]] = g
      BY <2>2 DEF IInv, PointersAreCurrent, TypeOK
    <3>2. meta[g] # m
      BY <3>1
    <3> QED
      BY <3>1, <3>2, <1>6
  <2> QED
    BY <2>1, <2>2 DEF PointersAreCurrent
<1>10. ASSUME NEW n \in Metas
      PROVE  refs'[n] = Cardinality(Holders(n))' + SlotRefs(n)' /\ (owner'[n] = Nobody <=> refs'[n] = 0)
  <2>1. CASE n = m
    BY <2>1, <1>1, <1>2, <1>3, <1>4, <1>5 DEF IInv, TypeOK
  <2>2. CASE n # m
    BY <2>2, <1>2, <1>3, <1>6, <1>7 DEF IInv, BlocksInv, TypeOK
  <2> QED
    BY <2>1, <2>2
<1>11. \A n, k \in Metas : owner'[n] = owner'[k] /\ owner'[n] # Nobody => n = k
  BY <1>2, <1>6 DEF IInv, BlocksInv, TypeOK
<1>12. \A n \in Metas : \A g \in Futures : owner'[n] = g => status'[g] # "new"
  BY <1>2, <1>4, <1>6, DequeAssumption DEF IInv, BlocksInv, TypeOK
<1> QED
  BY <1>9, <1>10, <1>11, <1>12 DEF BlocksInv

\* push: a block that nothing points to is taken from the pool.
LEMMA PushBlocks ==
    ASSUME IInv, NEW f \in Futures, PushBack(f) \/ PushFront(f)
    PROVE  PointersAreCurrent' /\ BlocksInv'
<1>1. PICK m \in Metas : Create(m, f) /\ meta' = [meta EXCEPT ![f] = m]
  BY DEF PushBack, PushFront, PushHandle
<1>2. /\ pc = "idle" /\ pc' = "idle" /\ status[f] = "new" /\ UNCHANGED <<held, source>>
      /\ status' = [status EXCEPT ![f] = "pending"]
  BY DEF PushBack, PushFront, PushHandle, ownerVars, threadVars
<1>3. owner[m] = Nobody /\ owner' = [owner EXCEPT ![m] = f] /\ refs' = [refs EXCEPT ![m] = 2]
  BY <1>1 DEF Create
<1>4. f # Nobody /\ m # Nobody
  BY DequeAssumption
<1>5. \A t \in Threads : held[t] # m
  BY <1>3, <1>4, HolderCounted DEF IInv
<1>6. \A n : Holders(n)' = Holders(n)
  BY <1>2 DEF Holders
<1>7. Cardinality(Holders(m)) = 0
  <2>1. Holders(m) = {}
    BY <1>5 DEF Holders
  <2> QED
    BY <2>1, FS_EmptySet
<1>8. \A g : ~HalfReleased(g) /\ ~HalfReleased(g)'
  BY <1>2 DEF HalfReleased
<1>9. SlotRefs(m)' = 2
  BY <1>1, <1>3, <1>8 DEF SlotRefs, IInv, TypeOK
<1>10. \A n \in Metas : n # m => owner'[n] = owner[n] /\ owner[n] # f /\ refs'[n] = refs[n]
  BY <1>2, <1>3 DEF IInv, BlocksInv, TypeOK
<1>11. \A n \in Metas : n # m => SlotRefs(n)' = SlotRefs(n)
  BY <1>1, <1>8, <1>10 DEF SlotRefs, IInv, TypeOK
<1>12. ASSUME NEW n \in Metas
      PROVE  refs'[n] = Cardinality(Holders(n))' + SlotRefs(n)' /\ (owner'[n] = Nobody <=> refs'[n] = 0)
  <2>1. CASE n = m
    BY <2>1, <1>3, <1>4, <1>6, <1>7, <1>9 DEF IInv, TypeOK
  <2>2. CASE n # m
    BY <2>2, <1>6, <1>10, <1>11 DEF IInv, BlocksInv
  <2> QED
    BY <2>1, <2>2
<1>13. PointersAreCurrent'
  <2>1. \A t \in Threads : held'[t] # Nobody => owner'[held'[t]] = source'[t]
    BY <1>2, <1>5, <1>10 DEF IInv, PointersAreCurrent, TypeOK
  <2>2. ASSUME NEW g \in Futures, meta'[g] # Nobody PROVE owner'[meta'[g]] = g
    <3>1. CASE g = f
      BY <3>1, <1>1, <1>3 DEF IInv, TypeOK
    <3>2. CASE g # f
      <4>1. meta'[g] = meta[g] /\ meta[g] \in Metas /\ owner[meta[g]] = g
        BY <3>2, <2>2, <1>1 DEF IInv, PointersAreCurrent, TypeOK
      <4>2. meta[g] # m
        BY <4>1, <1>3, DequeAssumption
      <4> QED
        BY <4>1, <4>2, <1>10
    <3> QED
      BY <3>1, <3>2
  <2> QED
    BY <2>1, <2>2 DEF PointersAreCurrent
<1>14. \A n, k \in Metas : owner'[n] = owner'[k] /\ owner'[n] # Nobody => n = k
  BY <1>3, <1>10 DEF IInv, BlocksInv, TypeOK
<1>15. \A n \in Metas : \A g \in Futures : owner'[n] = g => status'[g] # "new"
  BY <1>2, <1>3, <1>10 DEF IInv, BlocksInv, TypeOK
<1> QED
  BY <1>12, <1>13, <1>14, <1>15 DEF BlocksInv

\* clone_raw_waker(): one more pointer to an allocated block, and one more reference.
LEMMA ClonedBlocks ==
    ASSUME IInv, NEW u \in Threads, NEW m \in Metas, held[u] = Nobody, AddRef(m),
           owner[m] # Nobody, held' = [held EXCEPT ![u] = m],
           source' = [source EXCEPT ![u] = owner[m]],
           UNCHANGED <<slots, status, meta, pc, at>>
    PROVE  PointersAreCurrent' /\ BlocksInv'
<1>1. owner' = owner /\ refs' = [refs EXCEPT ![m] = refs[m] + 1] /\ refs[m] \in Nat \ {0}
  BY DEF AddRef, IInv, TypeOK, BlocksInv
<1>2. m # Nobody
  BY DequeAssumption
<1>3. \A n \in Metas : SlotRefs(n)' = SlotRefs(n)
  BY <1>1 DEF SlotRefs, HalfReleased
<1>4. Holders(m)' = Holders(m) \cup {u} /\ u \notin Holders(m)
  BY <1>2 DEF Holders, IInv, TypeOK
<1>5. Cardinality(Holders(m))' = Cardinality(Holders(m)) + 1
  BY <1>4, HoldersCount, FS_AddElement
<1>6. \A n \in Metas : n # m => Holders(n)' = Holders(n)
  BY <1>2, DequeAssumption DEF Holders, IInv, TypeOK
<1>7. PointersAreCurrent'
  BY <1>1 DEF IInv, PointersAreCurrent, TypeOK
<1>8. ASSUME NEW n \in Metas
      PROVE  refs'[n] = Cardinality(Holders(n))' + SlotRefs(n)' /\ (owner'[n] = Nobody <=> refs'[n] = 0)
  <2>1. CASE n = m
    <3>1. refs[m] = Cardinality(Holders(m)) + SlotRefs(m) /\ SlotRefs(m) \in Nat
      BY DEF IInv, BlocksInv, SlotRefs
    <3>2. Cardinality(Holders(m)) \in Nat
      BY HoldersCount
    <3>3. refs'[m] = refs[m] + 1
      BY <1>1 DEF IInv, TypeOK
    <3> QED
      BY <2>1, <1>1, <1>3, <1>5, <3>1, <3>2, <3>3
  <2>2. CASE n # m
    BY <2>2, <1>1, <1>3, <1>6 DEF IInv, BlocksInv, TypeOK
  <2> QED
    BY <2>1, <2>2
<1> QED
  BY <1>1, <1>7, <1>8 DEF IInv, BlocksInv

\* drop_raw_waker(): the last pointer takes the block with it.
LEMMA DroppedBlocks ==
    ASSUME IInv, NEW t \in Threads, DropWaker(t)
    PROVE  PointersAreCurrent' /\ BlocksInv'
<1>0. PICK m \in Metas : m = held[t]
  BY DEF DropWaker, IInv, TypeOK
<1>1. m \in Metas /\ m # Nobody /\ owner[m] # Nobody /\ refs[m] \in Nat \ {0}
  BY <1>0, HolderCounted, DequeAssumption DEF DropWaker, IInv, TypeOK
<1>2. /\ refs' = [refs EXCEPT ![m] = refs[m] - 1]
      /\ owner' = [owner EXCEPT ![m] = IF refs[m] = 1 THEN Nobody ELSE owner[m]]
      /\ held' = [held EXCEPT ![t] = Nobody] /\ source' = [source EXCEPT ![t] = Nobody]
      /\ UNCHANGED <<slots, status, meta, pc, at>>
  BY <1>0 DEF DropWaker, ReleaseRef, dequeVars, ownerVars
<1>3. Holders(m)' = Holders(m) \ {t} /\ t \in Holders(m)
  BY <1>0, <1>1, <1>2 DEF Holders, IInv, TypeOK
<1>4. Cardinality(Holders(m))' = Cardinality(Holders(m)) - 1 /\ Cardinality(Holders(m)) \in Nat \ {0}
  BY <1>3, HoldersCount, FS_RemoveElement, FS_EmptySet
<1>5. \A n \in Metas : n # m => Holders(n)' = Holders(n) /\ owner'[n] = owner[n]
  BY <1>0, <1>2, DequeAssumption DEF Holders, IInv, TypeOK
<1>6. refs[m] = Cardinality(Holders(m)) + SlotRefs(m) /\ SlotRefs(m) \in Nat
  BY <1>1 DEF IInv, BlocksInv, SlotRefs
<1>7. refs[m] = 1 => SlotRefs(m) = 0 /\ Holders(m)' = {}
  <2>1. refs[m] = 1 => SlotRefs(m) = 0 /\ Cardinality(Holders(m))' = 0
    BY <1>4, <1>6
  <2>2. IsFiniteSet(Holders(m)')
    BY <1>3, HoldersCount, FS_RemoveElement
  <2> QED
    BY <2>1, <2>2, FS_EmptySet
<1>8. \A n \in Metas : SlotRefs(n)' = SlotRefs(n)
  <2>1. \A f : HalfReleased(f)' <=> HalfReleased(f)
    BY <1>2 DEF HalfReleased
  <2>2. CASE refs[m] # 1
    BY <2>1, <2>2, <1>2 DEF SlotRefs, IInv, TypeOK
  <2>3. CASE refs[m] = 1
    <3>1. SlotRefs(m) = 0 /\ SlotRefs(m)' = 0
      BY <2>3, <1>1, <1>2, <1>7, DequeAssumption DEF SlotRefs, IInv, TypeOK
    <3>2. \A n \in Metas : n # m => SlotRefs(n)' = SlotRefs(n)
      BY <2>1, <1>2, <1>5 DEF SlotRefs
    <3> QED
      BY <3>1, <3>2
  <2> QED
    BY <2>2, <2>3
<1>9. ASSUME NEW n \in Metas
      PROVE  refs'[n] = Cardinality(Holders(n))' + SlotRefs(n)' /\ (owner'[n] = Nobody <=> refs'[n] = 0)
  <2>1. CASE n = m
    <3>1. refs'[m] = refs[m] - 1 /\ owner'[m] = IF refs[m] = 1 THEN Nobody ELSE owner[m]
      BY <1>1, <1>2 DEF IInv, TypeOK
    <3> QED
      BY <2>1, <1>1, <1>4, <1>6, <1>8, <3>1
  <2>2. CASE n # m
    BY <2>2, <1>2, <1>5, <1>8 DEF IInv, BlocksInv, TypeOK
  <2> QED
    BY <2>1, <2>2
<1>10. PointersAreCurrent'
  <2>1. ASSUME NEW u \in Threads, held'[u] # Nobody PROVE owner'[held'[u]] = source'[u]
    <3>1. u # t /\ held'[u] = held[u] /\ source'[u] = source[u]
      BY <2>1, <1>2 DEF IInv, TypeOK
    <3>2. held[u] \in Metas /\ owner[held[u]] = source[u]
      BY <2>1, <3>1 DEF IInv, TypeOK, PointersAreCurrent
    <3>3. held[u] = m => refs[m] # 1
      BY <3>1, <1>7 DEF Holders
    <3> QED
      BY <3>1, <3>2, <3>3, <1>1, <1>2, <1>5 DEF IInv, TypeOK
  <2>2. ASSUME NEW f \in Futures, meta'[f] # Nobody PROVE owner'[meta'[f]] = f
    <3>1. meta[f] \in Metas /\ owner[meta[f]] = f /\ meta' = meta
      BY <2>2, <1>2 DEF IInv, TypeOK, PointersAreCurrent
    <3>2. SlotRefs(meta[f]) # 0
      BY <3>1 DEF SlotRefs
    <3>3. meta[f] = m => refs[m] # 1
      BY <3>2, <1>7
    <3> QED
      BY <3>1, <3>3, <1>1, <1>2, <1>5 DEF IInv, TypeOK
  <2> QED
    BY <2>1, <2>2 DEF PointersAreCurrent
<1>11. \A n \in Metas : owner'[n] \in {Nobody, owner[n]}
  BY <1>2 DEF IInv, TypeOK
<1>12. /\ \A n, k \in Metas : owner'[n] = owner'[k] /\ owner'[n] # Nobody => n = k
       /\ \A n \in Metas : \A g \in Futures : owner'[n] = g => status'[g] # "new"
  BY <1>2, <1>11, DequeAssumption DEF IInv, BlocksInv
<1> QED
  BY <1>9, <1>10, <1>12 DEF BlocksInv

\* The four releases of a slot, in a poll and in the drop.
LEMMA ReleaseBlocks ==
    ASSUME IInv, ReleaseSlot \/ DropOldWaker \/ DropSlot \/ DropSlotWaker
    PROVE  PointersAreCurrent' /\ BlocksInv'
<1>1. CASE ReleaseSlot
  <2>1. pc = "replaced" /\ pc' = "old_waker" /\ ReleaseRef(meta[slots[at]])
        /\ UNCHANGED <<slots, status, meta, at, held, source>>
    BY <1>1 DEF ReleaseSlot, dequeVars, threadVars
  <2>2. PICK f \in Futures : f = slots[at] /\ meta[f] \in Metas /\ owner[meta[f]] = f
    BY <2>1, Visited DEF IInv, Visiting
  <2>3. \A g \in Futures : ~HalfReleased(g) /\ (HalfReleased(g)' <=> g = f)
    BY <2>1, <2>2 DEF HalfReleased
  <2>4. PICK m \in Metas : m = meta[f]
    BY <2>2
  <2> QED
    BY <2>1, <2>2, <2>3, <2>4, FirstRelease
<1>2. CASE DropOldWaker
  <2>1. pc = "old_waker" /\ pc' = "scan" /\ ReleaseRef(meta[slots[at]])
        /\ meta' = [meta EXCEPT ![slots[at]] = Nobody]
        /\ UNCHANGED <<slots, status, held, source>>
    BY <1>2 DEF DropOldWaker, threadVars
  <2>2. PICK f \in Futures : f = slots[at] /\ meta[f] \in Metas /\ owner[meta[f]] = f
    BY <2>1, Visited DEF IInv, Visiting
  <2>3. \A g \in Futures : ~HalfReleased(g)' /\ (HalfReleased(g) <=> g = f)
    BY <2>1, <2>2 DEF HalfReleased
  <2>4. PICK m \in Metas : m = meta[f]
    BY <2>2
  <2> QED
    BY <2>1, <2>2, <2>3, <2>4, LastRelease
<1>3. CASE DropSlotWaker
  <2>1. pc = "drop_waker" /\ pc' = "drop" /\ ReleaseRef(meta[slots[1]])
        /\ meta' = [meta EXCEPT ![slots[1]] = Nobody]
        /\ status' = [status EXCEPT ![slots[1]] = "gone"] /\ UNCHANGED <<held, source>>
        /\ slots # <<>> /\ Pending(slots[1])
    BY <1>3 DEF DropSlotWaker, Discard, threadVars, IInv, SlotsInv
  <2>2. PICK f \in Futures : f = slots[1] /\ meta[f] \in Metas /\ owner[meta[f]] = f
    BY <2>1, FrontPending DEF IInv
  <2>3. \A g \in Futures : ~HalfReleased(g)' /\ (HalfReleased(g) <=> g = f)
    BY <2>1, <2>2 DEF HalfReleased
  <2>4. PICK m \in Metas : m = meta[f]
    BY <2>2
  <2>5. \A g \in Futures : status'[g] = "new" => status[g] = "new"
    BY <2>1 DEF IInv, TypeOK
  <2> QED
    BY <2>1, <2>2, <2>3, <2>4, <2>5, LastRelease
<1>4. CASE DropSlot /\ slots = <<>>
  <2>1. pc = "drop" /\ pc' = "dropped" /\ UNCHANGED <<meta, status, refs, owner, held, source>>
    BY <1>4 DEF DropSlot, Ready, dequeVars, threadVars
  <2> QED
    BY <2>1, QuietBlocks DEF Half
<1>5. CASE DropSlot /\ slots # <<>> /\ Ready(1)
  <2>1. /\ pc = "drop" /\ pc' = "drop" /\ UNCHANGED <<refs, owner, held, source>>
        /\ status[slots[1]] = "ready" /\ status' = [status EXCEPT ![slots[1]] = "gone"]
        /\ meta' = [meta EXCEPT ![slots[1]] = Nobody]
    BY <1>5 DEF DropSlot, Ready, Discard, threadVars
  <2>2. slots[1] \in Futures
    BY <1>5, PositionOf DEF Ready, IInv
  <2>3. meta[slots[1]] = Nobody
    BY <2>1, <2>2 DEF IInv, SlotsInv, Pending
  <2>4. meta' = meta /\ \A g \in Futures : status'[g] = "new" => status[g] = "new"
    BY <2>1, <2>2, <2>3 DEF IInv, TypeOK
  <2> QED
    BY <2>1, <2>4, QuietBlocks DEF Half
<1>6. CASE DropSlot /\ slots # <<>> /\ ~Ready(1)
  <2>1. pc = "drop" /\ pc' = "drop_waker" /\ ReleaseRef(meta[slots[1]])
        /\ UNCHANGED <<slots, status, meta, held, source>> /\ Pending(slots[1])
    BY <1>6, SlotReleases DEF DropSlot, dequeVars, threadVars
  <2>2. PICK f \in Futures : f = slots[1] /\ meta[f] \in Metas /\ owner[meta[f]] = f
    BY <1>6, <2>1, FrontPending DEF IInv
  <2>3. \A g \in Futures : ~HalfReleased(g) /\ (HalfReleased(g)' <=> g = f)
    BY <2>1, <2>2 DEF HalfReleased
  <2>4. PICK m \in Metas : m = meta[f]
    BY <2>2
  <2> QED
    BY <2>1, <2>2, <2>3, <2>4, FirstRelease
<1> QED
  BY <1>1, <1>2, <1>3, <1>4, <1>5, <1>6

\* The owner's other steps.
LEMMA OwnerQuietBlocks ==
    ASSUME IInv,
           \/ Pop \/ UpdateParent \/ Scan \/ FuturePending \/ FutureReady \/ FutureUnwinds
           \/ PollEnds \/ BeginDrop \/ \E w \in Parents : Poll(w)
    PROVE  PointersAreCurrent' /\ BlocksInv'
<1>1. UNCHANGED <<meta, refs, owner, held, source>> /\ pc \notin Half /\ pc' \notin Half
  BY DEF Pop, UpdateParent, Scan, FuturePending, FutureReady, FutureUnwinds, PollEnds,
     BeginDrop, Poll, PopFrontIfReady, PopBackIfReady, dequeVars, poolVars, ownerVars,
     threadVars, Half
<1>2. \A f \in Futures : status'[f] = "new" => status[f] = "new"
  BY DEF Pop, UpdateParent, Scan, FuturePending, FutureReady, FutureUnwinds, PollEnds,
     BeginDrop, Poll, PopFrontIfReady, PopBackIfReady, dequeVars, IInv, TypeOK
<1> QED
  BY <1>1, <1>2, QuietBlocks

\* Threads clone, wake and drop.
LEMMA ThreadBlocks ==
    ASSUME IInv, NEW t \in Threads, NEW u \in Threads,
           \/ FutureClonesWaker(t) \/ Wake(t) \/ CloneParent(t) \/ WakeParent(t)
           \/ DropWaker(t) \/ CloneWaker(t, u)
    PROVE  PointersAreCurrent' /\ BlocksInv'
<1>1. UNCHANGED <<slots, status, meta, pc, at>>
  BY DEF FutureClonesWaker, Wake, CloneParent, WakeParent, DropWaker, CloneWaker,
     dequeVars, ownerVars
<1>2. CASE FutureClonesWaker(t)
  <2>1. PICK f \in Futures : f = slots[at] /\ meta[f] \in Metas /\ owner[meta[f]] = f
    BY <1>2, Visited DEF IInv, FutureClonesWaker, Visiting
  <2>2. PICK m \in Metas : m = meta[f]
    BY <2>1
  <2> QED
    BY <1>1, <1>2, <2>1, <2>2, DequeAssumption, ClonedBlocks DEF FutureClonesWaker
<1>3. CASE CloneWaker(t, u)
  <2>1. PICK m \in Metas : m = held[t]
    BY <1>3 DEF CloneWaker, IInv, TypeOK
  <2>2. owner[m] = source[t] /\ owner[m] # Nobody
    BY <1>3, <2>1, HolderCounted DEF CloneWaker, IInv, PointersAreCurrent
  <2> QED
    BY <1>1, <1>3, <2>1, <2>2, ClonedBlocks DEF CloneWaker
<1>4. CASE Wake(t) \/ CloneParent(t) \/ WakeParent(t)
  <2>1. UNCHANGED <<refs, owner, held, source>>
    BY <1>4 DEF Wake, CloneParent, WakeParent, poolVars
  <2> QED
    BY <1>1, <2>1, QuietBlocks
<1> QED
  BY <1>2, <1>3, <1>4, DroppedBlocks

----------------------------------------------------------------------------
(* The wakes. *)

\* Blocks and the futures they were created for determine each other.
LEMMA OneFutureOf ==
    ASSUME IInv, NEW f \in Futures, NEW g \in Futures, meta[f] \in Metas, meta[f] = meta[g]
    PROVE  f = g
<1>1. meta[f] # Nobody
  BY DequeAssumption
<1> QED
  BY <1>1 DEF IInv, PointersAreCurrent

\* A pending future has the only block that was created for it.
LEMMA OneBlockOf ==
    ASSUME IInv, NEW f \in Futures, Pending(f)
    PROVE  /\ meta[f] \in Metas /\ owner[meta[f]] = f
           /\ \A m \in Metas : owner[m] = f => m = meta[f]
<1>1. meta[f] \in Metas /\ owner[meta[f]] = f
  BY DEF IInv, SlotsInv, TypeOK, PointersAreCurrent
<1> QED
  BY <1>1, DequeAssumption DEF IInv, BlocksInv

Scanning == Visiting \cup {"scan"}

\* A step that touches no flag and no waker, makes nothing pending, and after
\* which no further slot counts as passed.
LEMMA QuietWakes ==
    ASSUME IInv, UNCHANGED <<activated, parent, cx, held, source, tpc, hand, woken, due>>,
           \A f \in Futures : /\ status'[f] = "new" => status[f] = "new"
                              /\ status'[f] = "pending" => Pending(f) /\ meta'[f] = meta[f],
           pc' = "polling" => pc = "polling" /\ UNCHANGED <<slots, at>>,
           asleep' \/ pc' \in Scanning => asleep \/ pc \in Scanning,
           \A f \in Futures : status'[f] = "pending" /\ (asleep' \/ Passed(f)')
                              => asleep \/ Passed(f)
    PROVE  WakesInv'
<1>1. Coming => Coming'
  BY DEF Coming
<1>2. \A f \in due' : status'[f] # "new" /\ (Pending(f)' => meta'[f] \in activated')
  BY DEF IInv, WakesInv, Pending, TypeOK
<1>3. \A f \in Futures : /\ Pending(f)' /\ meta'[f] \in activated'
                         /\ \/ pc' = "polling" /\ f = slots'[at']
                            \/ \E t \in Threads : source'[t] = f
                         => f \in due'
  BY DEF IInv, WakesInv, Pending
<1>4. asleep' \/ pc' \in Scanning => parent' = cx'
  BY DEF IInv, WakesInv, Scanning
<1>5. \A f \in due' : Pending(f)' /\ (asleep' \/ Passed(f)') => Coming'
  BY <1>1 DEF IInv, WakesInv, Pending, TypeOK
<1> QED
  BY <1>2, <1>3, <1>4, <1>5 DEF IInv, WakesInv, Scanning

\* The end of a visit: the slot the poll was at now counts as passed in any case.
LEMMA VisitWakes ==
    ASSUME IInv, FuturePending \/ FutureReady \/ FutureUnwinds \/ ReleaseSlot \/ DropOldWaker
    PROVE  WakesInv'
<1>1. /\ UNCHANGED <<slots, activated, parent, cx, held, source, tpc, hand, woken, due, asleep>>
      /\ pc \in Visiting /\ pc' # "polling" /\ (pc' \in Scanning => pc \in Scanning)
  BY DEF FuturePending, FutureReady, FutureUnwinds, ReleaseSlot, DropOldWaker, dequeVars,
     poolVars, threadVars, taskVars, Visiting, Scanning
<1>2. at \in DOMAIN slots /\ slots[at] \in Futures /\ at \in Nat /\ DOMAIN slots = 1 .. Len(slots)
      /\ Len(slots) \in Nat /\ (pc # "polling" => status[slots[at]] = "ready")
  BY <1>1, Visited DEF IInv, SlotsInv, TypeOK
<1>3. \A f \in Futures : /\ status'[f] = "new" => status[f] = "new"
                         /\ status'[f] = "pending" => Pending(f) /\ meta'[f] = meta[f]
  <2>1. \/ UNCHANGED <<status, meta>>
        \/ UNCHANGED meta /\ status' = [status EXCEPT ![slots[at]] = "ready"]
        \/ UNCHANGED status /\ meta' = [meta EXCEPT ![slots[at]] = Nobody] /\ pc # "polling"
    BY DEF FuturePending, FutureReady, FutureUnwinds, ReleaseSlot, DropOldWaker, dequeVars
  <2> QED
    BY <1>2, <2>1 DEF IInv, TypeOK, Pending
<1>4. ASSUME NEW f \in Futures, status'[f] = "pending", asleep' \/ Passed(f)'
      PROVE  asleep \/ Passed(f)
  <2>1. CASE asleep'
    BY <1>1, <2>1
  <2>2. CASE Passed(f)'
    <3>1. PICK i \in DOMAIN slots : slots[i] = f /\ pc' \in Scanning /\ i < at'
      BY <1>1, <2>2 DEF Passed, Scanning
    <3>2. CASE FuturePending
      BY <1>1, <1>2, <3>1, <3>2 DEF FuturePending, Passed
    <3>3. CASE FutureReady \/ ReleaseSlot
      BY <1>1, <3>1, <3>3 DEF FutureReady, ReleaseSlot, Passed
    <3>4. CASE DropOldWaker
      <4>1. at' = at + 1 /\ status' = status /\ pc # "polling"
        BY <3>4 DEF DropOldWaker
      <4>2. i # at
        BY <1>2, <1>4, <3>1, <4>1
      <4>3. i < at
        BY <1>2, <3>1, <4>1, <4>2
      <4> QED
        BY <1>1, <3>1, <4>3 DEF Passed
    <3>5. CASE FutureUnwinds
      BY <3>1, <3>5 DEF FutureUnwinds, Scanning, Visiting
    <3> QED
      BY <3>2, <3>3, <3>4, <3>5
  <2> QED
    BY <1>4, <2>1, <2>2
<1> QED
  BY <1>1, <1>3, <1>4, QuietWakes

\* A poll that reports Pending has passed every slot.
LEMMA PollEndsWakes ==
    ASSUME IInv, PollEnds PROVE WakesInv'
<1>1. /\ UNCHANGED <<activated, parent, cx, held, source, tpc, hand, woken, due, meta>>
      /\ pc = "scan" /\ pc' = "idle" /\ at > Len(slots)
  BY DEF PollEnds, dequeVars, poolVars, threadVars, taskVars, PopFrontIfReady, PopBackIfReady
<1>2. \A f \in Futures : status'[f] \in {status[f], "popped"}
  BY DEF PollEnds, dequeVars, PopFrontIfReady, PopBackIfReady, IInv, TypeOK
<1>3. \A f \in Futures : Pending(f) => Passed(f)
  <2> SUFFICES ASSUME NEW f \in Futures, Pending(f) PROVE Passed(f)
    OBVIOUS
  <2>1. PICK i \in DOMAIN slots : slots[i] = f
    BY DEF IInv, SlotsInv, Pending, Member
  <2>2. i < at
    BY <1>1, <2>1 DEF IInv, TypeOK
  <2> QED
    BY <1>1, <2>1, <2>2 DEF Passed
<1> QED
  BY <1>1, <1>2, <1>3, QuietWakes DEF Pending, Scanning, Visiting

\* Between polls, and in the drop.
LEMMA OutsideWakes ==
    ASSUME IInv, Pop \/ BeginDrop \/ DropSlot \/ DropSlotWaker PROVE WakesInv'
<1>1. /\ UNCHANGED <<activated, parent, cx, held, source, tpc, hand, woken, due>>
      /\ pc \notin Scanning /\ pc' \notin Scanning /\ (asleep' => asleep)
  BY DEF Pop, BeginDrop, DropSlot, DropSlotWaker, Discard, dequeVars, poolVars, ownerVars,
     threadVars, taskVars, Visiting, Scanning
<1>2. \A f \in Futures : /\ status'[f] = "new" => status[f] = "new"
                         /\ status'[f] = "pending" => Pending(f) /\ meta'[f] = meta[f]
  <2>1. CASE Pop \/ BeginDrop
    BY <2>1 DEF Pop, BeginDrop, dequeVars, PopFrontIfReady, PopBackIfReady, IInv, TypeOK, Pending
  <2>2. CASE DropSlot \/ DropSlotWaker
    BY <2>2 DEF DropSlot, DropSlotWaker, Discard, dequeVars, IInv, TypeOK, Pending
  <2> QED
    BY <2>1, <2>2
<1>3. \A f : ~Passed(f)'
  BY <1>1 DEF Passed, Scanning, Visiting
<1> QED
  BY <1>1, <1>2, <1>3, QuietWakes DEF Scanning, Visiting

\* A poll begins: nothing has been looked at.
LEMMA PollWakes ==
    ASSUME IInv, UpdateParent \/ \E w \in Parents : Poll(w) PROVE WakesInv'
<1>1. /\ UNCHANGED <<slots, status, meta, activated, held, source, due>> /\ at' = 1 /\ asleep' = FALSE
      /\ \/ pc' = "update"
         \/ pc' = "scan" /\ parent' = cx /\ cx' = cx
  <2>1. CASE UpdateParent
    BY <2>1 DEF UpdateParent, dequeVars, poolVars, threadVars, taskVars, IInv, TypeOK, SlotsInv, Visiting
  <2>2. CASE \E w \in Parents : Poll(w)
    BY <2>2 DEF Poll, dequeVars, poolVars, threadVars
  <2> QED
    BY <2>1, <2>2
<1>2. \A f : ~Passed(f)'
  <2>1. \A i \in DOMAIN slots : ~(i < 1)
    BY DEF IInv, TypeOK
  <2> QED
    BY <1>1, <2>1 DEF Passed
<1> QED
  BY <1>1, <1>2 DEF IInv, WakesInv, Pending, Visiting

\* push: the new future's flag is set, but nobody can wake it yet.
LEMMA PushWakes ==
    ASSUME IInv, NEW f \in Futures, PushBack(f) \/ PushFront(f) PROVE WakesInv'
<1>1. PICK m \in Metas : Create(m, f) /\ meta' = [meta EXCEPT ![f] = m]
  BY DEF PushBack, PushFront, PushHandle
<1>2. /\ pc = "idle" /\ pc' = "idle" /\ status[f] = "new"
      /\ status' = [status EXCEPT ![f] = "pending"]
      /\ UNCHANGED <<parent, cx, held, source, tpc, hand, woken, asleep, due>>
  BY DEF PushBack, PushFront, PushHandle, ownerVars, threadVars, taskVars
<1>3. owner[m] = Nobody /\ activated' = activated \cup {m}
  BY <1>1 DEF Create
<1>4. f \notin due
  BY <1>2 DEF IInv, WakesInv
<1>5. \A t \in Threads : source[t] # f
  <2> SUFFICES ASSUME NEW t \in Threads, source[t] = f PROVE FALSE
    OBVIOUS
  <2>1. held[t] \in Metas /\ owner[held[t]] = f
    BY DequeAssumption DEF IInv, WakesInv, PointersAreCurrent, TypeOK
  <2> QED
    BY <2>1, <1>2 DEF IInv, BlocksInv
<1>6. \A g \in Futures : g # f => status'[g] = status[g] /\ meta'[g] = meta[g]
  BY <1>1, <1>2 DEF IInv, TypeOK
<1>7. \A g \in Futures : g # f /\ Pending(g) => meta[g] # m
  BY <1>3, OneBlockOf, DequeAssumption
<1>8. \A g : ~Passed(g)'
  BY <1>2 DEF Passed, Visiting
<1>9. \A g \in due : g \in Futures /\ g # f
  BY <1>4 DEF IInv, TypeOK
<1>10. \A g \in due : status'[g] # "new" /\ (Pending(g)' => meta'[g] \in activated')
  BY <1>3, <1>6, <1>9 DEF IInv, WakesInv, Pending
<1>11. \A g \in Futures : /\ Pending(g)' /\ meta'[g] \in activated'
                          /\ \E t \in Threads : source[t] = g
                          => g \in due
  BY <1>3, <1>5, <1>6, <1>7 DEF IInv, WakesInv, Pending
<1>12. \A g \in due : Pending(g)' /\ asleep => Coming'
  BY <1>2, <1>6, <1>9 DEF IInv, WakesInv, Pending, Coming
<1>13. pc' # "polling" /\ pc' \notin Visiting \cup {"scan"} /\ (asleep => parent = cx)
       /\ \A t \in Threads : held[t] = Nobody <=> source[t] = Nobody
  BY <1>2 DEF Visiting, IInv, WakesInv
<1> QED
  BY <1>2, <1>8, <1>10, <1>11, <1>12, <1>13 DEF WakesInv

\* One slot of the scan: passed over, or cleared of its flag and of its wakes.
LEMMA ScanWakes ==
    ASSUME IInv, Scan PROVE WakesInv'
<1>1. /\ pc = "scan" /\ at \in DOMAIN slots /\ slots[at] \in Futures
      /\ UNCHANGED <<slots, status, meta, parent, cx, held, source, tpc, hand, woken, asleep>>
  BY PositionOf DEF Scan, IInv, TypeOK, dequeVars, threadVars
<1>2. Coming => Coming'
  BY <1>1 DEF Coming
<1>3. parent = cx
  BY <1>1 DEF IInv, WakesInv
<1>4. asleep = FALSE
  BY <1>1 DEF IInv, SlotsInv, TypeOK
<1>5. CASE Pending(slots[at]) /\ meta[slots[at]] \in activated
  <2>1. /\ activated' = activated \ {meta[slots[at]]} /\ due' = due \ {slots[at]}
        /\ pc' = "polling" /\ at' = at
    BY <1>5 DEF Scan, Pending
  <2>2. \A f \in Futures : Pending(f) /\ f # slots[at] => meta[f] # meta[slots[at]]
    BY <1>1, <1>5, OneFutureOf, OneBlockOf
  <2>3. \A f \in due' : status'[f] # "new" /\ (Pending(f)' => meta'[f] \in activated')
    BY <1>1, <2>1, <2>2 DEF IInv, WakesInv, Pending, TypeOK
  <2>4. \A f \in Futures : Pending(f)' /\ meta'[f] \in activated' => f # slots[at] /\ Pending(f) /\ meta[f] \in activated
    BY <1>1, <2>1 DEF Pending
  <2>5. \A f \in Futures : /\ Pending(f)' /\ meta'[f] \in activated'
                           /\ \/ pc' = "polling" /\ f = slots'[at']
                              \/ \E t \in Threads : source'[t] = f
                           => f \in due'
    BY <1>1, <2>1, <2>4 DEF IInv, WakesInv
  <2>6. \A f : f # slots[at] /\ Passed(f)' => Passed(f)
    BY <1>1, <2>1 DEF Passed
  <2>7. \A f \in due' : Pending(f)' /\ (asleep' \/ Passed(f)') => Coming'
    BY <1>1, <1>2, <1>4, <2>1, <2>6 DEF IInv, WakesInv, Pending
  <2> QED
    BY <1>1, <1>3, <2>3, <2>5, <2>7 DEF IInv, WakesInv
<1>6. CASE ~(Pending(slots[at]) /\ meta[slots[at]] \in activated)
  <2>1. at' = at + 1 /\ UNCHANGED <<activated, pc, due>>
    BY <1>6 DEF Scan, Pending
  <2>2. \A f \in due : Pending(f) => f # slots[at]
    BY <1>6 DEF IInv, WakesInv
  <2>3. \A f : f # slots[at] /\ Passed(f)' => Passed(f)
    BY <1>1, <2>1 DEF Passed, IInv, TypeOK
  <2>4. \A f \in due' : Pending(f)' /\ (asleep' \/ Passed(f)') => Coming'
    BY <1>1, <1>2, <1>4, <2>1, <2>2, <2>3 DEF IInv, WakesInv, Pending
  <2> QED
    BY <1>1, <2>1, <2>4 DEF IInv, WakesInv, Pending
<1> QED
  BY <1>5, <1>6

\* wake(): the first wake of a passed or sleeping future takes the parent's way.
LEMMA WakeWakes ==
    ASSUME IInv, NEW t \in Threads, Wake(t) PROVE WakesInv'
<1>1. PICK f \in Futures, m \in Metas :
         f = source[t] /\ m = held[t] /\ owner[m] = f
  BY HolderCounted DEF Wake, IInv, TypeOK, PointersAreCurrent
<1>2. /\ tpc[t] = "idle" /\ activated' = activated \cup {m} /\ due' = due \cup {f}
      /\ tpc' = IF m \in activated THEN tpc ELSE [tpc EXCEPT ![t] = "parent"]
      /\ UNCHANGED <<slots, status, meta, parent, pc, at, cx, held, source, hand, woken, asleep>>
  BY <1>1 DEF Wake, dequeVars, ownerVars
<1>3. Coming => Coming'
  BY <1>2 DEF Coming, IInv, TypeOK
<1>4. status[f] # "new" /\ (Pending(f) => meta[f] = m)
  BY <1>1, OneBlockOf DEF IInv, BlocksInv
<1>5. \A g : Passed(g)' <=> Passed(g)
  BY <1>2 DEF Passed
<1>6. \A g \in due' : status'[g] # "new" /\ (Pending(g)' => meta'[g] \in activated')
  BY <1>2, <1>4 DEF IInv, WakesInv, Pending
<1>7. \A g \in Futures : Pending(g) /\ meta[g] = m => g = f
  BY <1>1, OneBlockOf
<1>8. \A g \in Futures : /\ Pending(g)' /\ meta'[g] \in activated'
                         /\ \/ pc' = "polling" /\ g = slots'[at']
                            \/ \E u \in Threads : source'[u] = g
                         => g \in due'
  BY <1>2, <1>7 DEF IInv, WakesInv, Pending
<1>9. Pending(f) /\ (asleep \/ Passed(f)) => Coming'
  <2> SUFFICES ASSUME Pending(f), asleep \/ Passed(f) PROVE Coming'
    OBVIOUS
  <2>1. CASE m \in activated
    <3>1. f \in due
      BY <1>1, <1>4, <2>1 DEF IInv, WakesInv
    <3> QED
      BY <1>3, <3>1 DEF IInv, WakesInv
  <2>2. CASE m \notin activated
    <3>1. parent' = cx'
      BY <1>2 DEF Passed, IInv, WakesInv, Visiting
    <3>2. tpc'[t] = "parent"
      BY <1>2, <2>2 DEF IInv, TypeOK
    <3> QED
      BY <3>1, <3>2 DEF Coming
  <2> QED
    BY <2>1, <2>2
<1>10. \A g \in due' : Pending(g)' /\ (asleep' \/ Passed(g)') => Coming'
  BY <1>2, <1>3, <1>5, <1>9 DEF IInv, WakesInv, Pending
<1> QED
  BY <1>2, <1>6, <1>8, <1>10 DEF IInv, WakesInv

\* The way to the parent is kept, waker by waker; and clones are of shared futures.
LEMMA ThreadWakes ==
    ASSUME IInv, NEW t \in Threads, NEW u \in Threads,
           \/ FutureClonesWaker(t) \/ CloneParent(t) \/ WakeParent(t)
           \/ DropWaker(t) \/ CloneWaker(t, u)
    PROVE  WakesInv'
<1>1. UNCHANGED <<slots, status, meta, activated, parent, pc, at, cx, asleep, due>>
  BY DEF FutureClonesWaker, CloneParent, WakeParent, DropWaker, CloneWaker, AddRef,
     dequeVars, poolVars, ownerVars, taskVars
<1>2. \A f : Passed(f)' <=> Passed(f)
  BY <1>1 DEF Passed
<1>3. parent = cx /\ Coming => Coming'
  <2>1. CASE CloneParent(t)
    BY <2>1 DEF CloneParent, Coming, IInv, TypeOK, ownerVars, taskVars
  <2>2. CASE WakeParent(t)
    BY <2>2 DEF WakeParent, Coming, IInv, TypeOK, ownerVars
  <2>3. CASE FutureClonesWaker(t) \/ DropWaker(t) \/ CloneWaker(t, u)
    BY <2>3 DEF FutureClonesWaker, DropWaker, CloneWaker, Coming, ownerVars, taskVars
  <2> QED
    BY <2>1, <2>2, <2>3
<1>4. \A f \in due : Pending(f) /\ (asleep \/ Passed(f)) => parent = cx
  BY DEF Passed, IInv, WakesInv, Visiting
<1>5. \A v \in Threads : held'[v] = Nobody <=> source'[v] = Nobody
  <2>1. CASE FutureClonesWaker(t)
    <3>1. slots[at] \in Futures /\ meta[slots[at]] \in Metas
      BY <2>1, Visited DEF IInv, FutureClonesWaker, Visiting
    <3> QED
      BY <2>1, <3>1, DequeAssumption DEF FutureClonesWaker, IInv, TypeOK, WakesInv
  <2>2. CASE CloneWaker(t, u)
    BY <2>2 DEF CloneWaker, IInv, TypeOK, WakesInv
  <2>3. CASE DropWaker(t)
    BY <2>3 DEF DropWaker, IInv, TypeOK, WakesInv
  <2>4. CASE CloneParent(t) \/ WakeParent(t)
    BY <2>4 DEF CloneParent, WakeParent, IInv, WakesInv
  <2> QED
    BY <2>1, <2>2, <2>3, <2>4
<1>6. \A v \in Threads : \A f \in Futures : source'[v] = f =>
          (pc = "polling" /\ f = slots[at]) \/ \E w \in Threads : source[w] = f
  BY DequeAssumption DEF FutureClonesWaker, CloneParent, WakeParent, DropWaker, CloneWaker, IInv, TypeOK
<1> QED
  BY <1>1, <1>2, <1>3, <1>4, <1>5, <1>6 DEF IInv, WakesInv, Pending

----------------------------------------------------------------------------
\* A new deque, with no block taken.
LEMMA InitIInv == Init => IInv
<1> SUFFICES ASSUME Init PROVE IInv
  OBVIOUS
<1>1. slots \in Seq(Futures) /\ Len(slots) = 0 /\ DOMAIN slots = {}
  BY DEF Init
<1>2. TypeOK
  <2>1. at \in 1 .. (Len(slots) + 1)
    BY <1>1 DEF Init
  <2> QED
    BY <1>1, <2>1 DEF Init, TypeOK, Pcs
<1>3. SlotsInv
  BY <1>1 DEF Init, SlotsInv, Distinct, Member, Pending, Visiting
<1>4. PointersAreCurrent
  BY DEF Init, PointersAreCurrent
<1>5. BlocksInv
  <2>1. \A m \in Metas : Holders(m) = {} /\ SlotRefs(m) = 0
    BY DequeAssumption DEF Init, Holders, SlotRefs
  <2>2. Cardinality({}) = 0
    BY FS_EmptySet
  <2>3. \A m \in Metas : refs[m] = 0 /\ owner[m] = Nobody
    BY DEF Init
  <2> QED
    BY <2>1, <2>2, <2>3, DequeAssumption DEF BlocksInv
<1>6. WakesInv
  BY DequeAssumption DEF Init, WakesInv, Visiting
<1> QED
  BY <1>2, <1>3, <1>4, <1>5, <1>6 DEF IInv

\* Every operation of the owner and of the threads.
LEMMA NextIInv == IInv /\ [Next]_vars => IInv'
<1> SUFFICES ASSUME IInv, [Next]_vars PROVE IInv'
  OBVIOUS
<1>1. CASE \E f \in Futures : PushBack(f) \/ PushFront(f)
  BY <1>1, PushSlots, PushBlocks, PushWakes DEF IInv
<1>2. CASE Pop
  BY <1>2, PopSlots, OwnerQuietBlocks, OutsideWakes DEF IInv
<1>3. CASE BeginDrop
  BY <1>3, PollQuietSlots, OwnerQuietBlocks, OutsideWakes DEF IInv
<1>4. CASE UpdateParent \/ \E w \in Parents : Poll(w)
  BY <1>4, PollQuietSlots, OwnerQuietBlocks, PollWakes DEF IInv
<1>5. CASE Scan
  BY <1>5, PollQuietSlots, OwnerQuietBlocks, ScanWakes DEF IInv
<1>6. CASE FuturePending \/ FutureUnwinds
  BY <1>6, PollQuietSlots, OwnerQuietBlocks, VisitWakes DEF IInv
<1>7. CASE FutureReady
  BY <1>7, VisitSlots, OwnerQuietBlocks, VisitWakes DEF IInv
<1>8. CASE ReleaseSlot \/ DropOldWaker
  BY <1>8, VisitSlots, ReleaseBlocks, VisitWakes DEF IInv
<1>9. CASE PollEnds
  BY <1>9, PollEndsSlots, OwnerQuietBlocks, PollEndsWakes DEF IInv
<1>10. CASE DropSlot \/ DropSlotWaker
  BY <1>10, DropSlots, ReleaseBlocks, OutsideWakes DEF IInv
<1>11. ASSUME NEW t \in Threads, NEW u \in Threads,
              \/ FutureClonesWaker(t) \/ Wake(t) \/ CloneParent(t) \/ WakeParent(t)
              \/ DropWaker(t) \/ CloneWaker(t, u)
       PROVE  IInv'
  BY <1>11, ThreadSlots, ThreadBlocks, WakeWakes, ThreadWakes DEF IInv
<1>12. CASE UNCHANGED vars
  <2>1. TypeOK'
    BY <1>12 DEF IInv, TypeOK, vars, dequeVars, poolVars, ownerVars, threadVars, taskVars
  <2>2. SlotsInv'
    BY <1>12 DEF IInv, SlotsInv, Pending, vars, dequeVars, ownerVars, taskVars
  <2>3. PointersAreCurrent' /\ BlocksInv'
    BY <1>12, QuietBlocks DEF vars, dequeVars, poolVars, ownerVars, threadVars
  <2>4. WakesInv'
    <3>1. \A f : Passed(f)' <=> Passed(f)
      BY <1>12 DEF Passed, vars, dequeVars, ownerVars
    <3>2. Coming' <=> Coming
      BY <1>12 DEF Coming, vars, ownerVars, threadVars, taskVars
    <3> QED
      BY <1>12, <3>1, <3>2 DEF IInv, WakesInv, Pending, vars, dequeVars, poolVars, ownerVars, threadVars, taskVars
  <2> QED
    BY <2>1, <2>2, <2>3, <2>4 DEF IInv
<1> QED
  BY <1>1, <1>2, <1>3, <1>4, <1>5, <1>6, <1>7, <1>8, <1>9, <1>10, <1>11, <1>12
     DEF Next, OwnerStep, ThreadStep, Finished

\* The invariant holds whenever the deque is used as FutureDequeCore allows.
THEOREM SpecIInv == Spec => []IInv
BY InitIInv, NextIInv, PTL DEF Spec

\* The deque keeps to its types; above all, no reference count goes below zero.
THEOREM DequeTypes == Spec => []TypeOK
<1>1. IInv => TypeOK
  BY DEF IInv
<1> QED
  BY <1>1, SpecIInv, PTL

\* No waker and no slot ever points to a block that was recycled for another
\* future (waker_meta.rs, release_ref).
THEOREM NoStalePointer == Spec => []PointersAreCurrent
<1>1. IInv => PointersAreCurrent
  BY DEF IInv
<1> QED
  BY <1>1, SpecIInv, PTL

\* When the deque is dropped and no waker is left, the pool has every block back.
THEOREM NoBlockLeaks == Spec => []BlocksReturn
<1>1. IInv => BlocksReturn
  <2> SUFFICES ASSUME IInv, pc = "dropped", \A t \in Threads : held[t] = Nobody, NEW m \in Metas
               PROVE  owner[m] = Nobody
    BY DEF BlocksReturn
  <2>1. Holders(m) = {}
    BY DequeAssumption DEF Holders
  <2>2. \A f \in Futures : meta[f] = Nobody
    <3>1. \A f \in Futures : ~Member(f, slots)
      BY DEF IInv, SlotsInv, Member
    <3> QED
      BY <3>1 DEF IInv, SlotsInv, Pending
  <2>3. SlotRefs(m) = 0
    BY <2>2, DequeAssumption DEF SlotRefs
  <2>4. refs[m] = 0
    BY <2>1, <2>3, FS_EmptySet DEF IInv, BlocksInv
  <2> QED
    BY <2>4 DEF IInv, BlocksInv
<1> QED
  BY <1>1, SpecIInv, PTL

\* A wake is never lost on a sleeping task (FutureDequeCore::poll, wake_by_ref).
THEOREM WakesReachTheTask == Spec => []NoLostActivation
<1>1. IInv => NoLostActivation
  BY DEF IInv, WakesInv, NoLostActivation, Coming
<1> QED
  BY <1>1, SpecIInv, PTL

=============================================================================
