-------------------------- MODULE AwaiterSetProofs --------------------------
(***************************************************************************)
(* Proofs about the intrusive list of awaiter_set, for any number of       *)
(* awaiters: whatever the order of registrations, removals from the middle *)
(* and notifications, the pointers spell out one sequence of the waiting   *)
(* awaiters, sorted by generation.                                         *)
(***************************************************************************)
EXTENDS AwaiterSet, TLAPS

\* AwaiterSet::new() makes an empty list.
LEMMA InitIInv == Init => IInv
<1> SUFFICES ASSUME Init PROVE IInv
  OBVIOUS
<1>1. TypeOK
  BY SetAssumption DEF Init, TypeOK, Null, IDLE, WAITING, NOTIFIED
<1>2. WellLinked /\ GenerationsSorted
  BY DEF Init, WellLinked, GenerationsSorted, Null
<1>3. LinkedIffWaiting
  BY SetAssumption DEF Init, LinkedIffWaiting, Members, IDLE, WAITING
<1> QED
  BY <1>1, <1>2, <1>3 DEF IInv

\* The facts about the list that every removal and every insertion uses.
LEMMA ListFacts ==
    ASSUME IInv
    PROVE  /\ order \in Seq(Awaiters) /\ Len(order) \in Nat /\ DOMAIN order = 1 .. Len(order)
           /\ \A i \in DOMAIN order : order[i] \in Awaiters
           /\ Null \notin Awaiters
           /\ order = <<>> <=> Len(order) = 0
  BY SetAssumption DEF IInv, TypeOK, Null

\* register() of an awaiter that is not linked: it becomes the last one.
LEMMA AppendInv ==
    ASSUME IInv, NEW a \in Awaiters, NEW w \in Wakers, Register(a, w), lifecycle[a] # WAITING
    PROVE  IInv'
<1> DEFINE n == Len(order)
<1>1. /\ order \in Seq(Awaiters) /\ n \in Nat /\ DOMAIN order = 1 .. n
      /\ \A i \in 1 .. n : order[i] \in Awaiters
      /\ Null \notin Awaiters
      /\ order = <<>> <=> n = 0
  BY ListFacts
<1>2. \A i \in 1 .. n : order[i] # a
  BY <1>1 DEF IInv, LinkedIffWaiting, Members
<1>3. /\ order' = Append(order, a) /\ tail' = a /\ head' = IF tail = Null THEN a ELSE head
      /\ next' = [b \in Awaiters |-> IF b = tail THEN a
                                     ELSE IF b = a THEN Null ELSE next[b]]
      /\ prev' = [prev EXCEPT ![a] = tail]
      /\ stamp' = [stamp EXCEPT ![a] = generation]
      /\ lifecycle' = [lifecycle EXCEPT ![a] = WAITING]
      /\ waker' = [waker EXCEPT ![a] = w] /\ generation' = generation
  BY DEF Register
<1>4. /\ Len(order') = n + 1 /\ DOMAIN order' = 1 .. (n + 1)
      /\ \A i \in 1 .. n : order'[i] = order[i]
      /\ order'[n + 1] = a /\ order' # <<>> /\ order' \in Seq(Awaiters)
  BY <1>1, <1>3
<1>5. /\ n = 0 => head = Null /\ tail = Null
      /\ n # 0 => head = order[1] /\ tail = order[n] /\ head # Null /\ tail # Null
  BY <1>1 DEF IInv, WellLinked
<1>6. TypeOK'
  BY <1>1, <1>3, <1>4, SetAssumption DEF IInv, TypeOK, WAITING
<1>7. WellLinked'
  <2>1. head' = order'[1] /\ tail' = order'[n + 1]
    BY <1>1, <1>3, <1>4, <1>5
  <2>2. ASSUME NEW i \in 1 .. (n + 1)
        PROVE  next'[order'[i]] = IF i = n + 1 THEN Null ELSE order'[i + 1]
    <3>1. CASE i = n + 1
      BY <1>1, <1>2, <1>3, <1>4, <1>5, <3>1 DEF IInv, TypeOK
    <3>2. CASE i = n
      <4>1. i \in 1 .. n /\ tail = order[n] /\ tail # Null /\ tail # a /\ tail \in Awaiters
        BY <1>1, <1>2, <1>5, <3>2
      <4>2. next'[tail] = a
        BY <1>3, <4>1 DEF IInv, TypeOK
      <4> QED
        BY <1>1, <1>4, <3>2, <4>1, <4>2
    <3>3. CASE i < n
      <4>1. order[i] # a /\ order[i] # order[n] /\ i + 1 \in 1 .. n /\ i \in 1 .. n
        BY <1>1, <1>2, <3>3 DEF IInv, LinkedIffWaiting
      <4>2. next'[order[i]] = next[order[i]]
        BY <1>1, <1>3, <1>5, <4>1 DEF IInv, TypeOK
      <4> QED
        BY <1>1, <1>4, <3>3, <4>1, <4>2 DEF IInv, WellLinked
    <3>4. i < n \/ i = n \/ i = n + 1
      <4> HIDE DEF n
      <4> QED
        BY <1>1
    <3> QED
      BY <3>1, <3>2, <3>3, <3>4
  <2>3. ASSUME NEW i \in 1 .. (n + 1)
        PROVE  prev'[order'[i]] = IF i = 1 THEN Null ELSE order'[i - 1]
    <3>1. CASE i = n + 1
      <4>1. prev'[order'[i]] = tail
        BY <1>3, <1>4, <3>1 DEF IInv, TypeOK
      <4>2. CASE n = 0
        BY <1>5, <3>1, <4>1, <4>2
      <4>3. CASE n # 0
        BY <1>1, <1>4, <1>5, <3>1, <4>1, <4>3
      <4> QED
        BY <4>2, <4>3
    <3>2. CASE i \in 1 .. n
      <4>1. prev'[order[i]] = prev[order[i]]
        BY <1>1, <1>2, <1>3, <3>2 DEF IInv, TypeOK
      <4> QED
        BY <1>1, <1>4, <3>2, <4>1 DEF IInv, WellLinked
    <3> QED
      BY <1>1, <3>1, <3>2
  <2> QED
    BY <1>1, <1>4, <2>1, <2>2, <2>3 DEF WellLinked
<1>8. LinkedIffWaiting'
  <2>1. \A i, j \in DOMAIN order' : order'[i] = order'[j] => i = j
    <3>1. \A i, j \in 1 .. n : order[i] = order[j] => i = j
      BY <1>1 DEF IInv, LinkedIffWaiting
    <3>2. \A i \in 1 .. (n + 1) : i \in 1 .. n \/ i = n + 1
      BY <1>1
    <3> HIDE DEF n
    <3> QED
      BY <1>2, <1>4, <3>1, <3>2
  <2>2. Members' = Members \cup {a}
    BY <1>1, <1>4 DEF Members
  <2>3. \A b \in Awaiters : /\ lifecycle'[b] = WAITING <=> b \in Members'
                            /\ waker'[b] # NoWaker <=> lifecycle'[b] = WAITING
    BY <1>3, <2>2, SetAssumption DEF IInv, TypeOK, LinkedIffWaiting
  <2> QED
    BY <2>1, <2>3 DEF LinkedIffWaiting
<1>9. GenerationsSorted'
  <2>1. \A i \in 1 .. n : stamp'[order'[i]] = stamp[order[i]] /\ stamp[order[i]] \in Nat
    <3>1. stamp \in [Awaiters -> Nat]
      BY SetAssumption DEF IInv, TypeOK
    <3> QED
      BY <1>1, <1>2, <1>3, <1>4, <3>1
  <2>2. stamp'[order'[n + 1]] = generation /\ generation \in Nat
    BY <1>3, <1>4, SetAssumption DEF IInv, TypeOK
  <2> QED
    BY <1>1, <1>3, <1>4, <2>1, <2>2 DEF IInv, GenerationsSorted
<1> QED
  BY <1>6, <1>7, <1>8, <1>9 DEF IInv

\* register(), on a waiting awaiter too: only its waker changes.
LEMMA RegisterInv ==
    ASSUME IInv, NEW a \in Awaiters, NEW w \in Wakers, Register(a, w)
    PROVE  IInv'
<1>1. CASE lifecycle[a] = WAITING
  <2>1. /\ UNCHANGED <<head, tail, next, prev, stamp, lifecycle, order, generation>>
        /\ waker' = [waker EXCEPT ![a] = w]
    BY <1>1 DEF Register
  <2>2. TypeOK' /\ WellLinked' /\ GenerationsSorted'
    BY <2>1 DEF IInv, TypeOK, WellLinked, GenerationsSorted
  <2>3. LinkedIffWaiting'
    BY <1>1, <2>1, SetAssumption DEF IInv, TypeOK, LinkedIffWaiting, Members
  <2> QED
    BY <2>2, <2>3 DEF IInv
<1> QED
  BY <1>1, AppendInv

\* A removal anywhere in the list: its neighbours are linked to each other, or
\* its only neighbour becomes an end of the list.
LEMMA TakeOutInv ==
    ASSUME IInv, NEW a \in Awaiters, NEW phase \in {IDLE, NOTIFIED}, TakeOut(a, phase)
    PROVE  IInv'
<1> DEFINE n == Len(order)
<1>1. /\ order \in Seq(Awaiters) /\ n \in Nat /\ DOMAIN order = 1 .. n
      /\ \A i \in 1 .. n : order[i] \in Awaiters
      /\ Null \notin Awaiters
      /\ order = <<>> <=> n = 0
  BY ListFacts
<1>2. PICK k \in 1 .. n :
          /\ order[k] = a
          /\ order' = [j \in 1 .. (n - 1) |-> IF j < k THEN order[j] ELSE order[j + 1]]
  BY <1>1 DEF TakeOut, OrderWithout
<1> DEFINE p == prev[a]
           q == next[a]
<1>3. /\ head' = IF p = Null THEN q ELSE head
      /\ next' = IF p = Null THEN next ELSE [next EXCEPT ![p] = q]
      /\ tail' = IF q = Null THEN p ELSE tail
      /\ prev' = IF q = Null THEN prev ELSE [prev EXCEPT ![q] = p]
      /\ waker' = [waker EXCEPT ![a] = NoWaker]
      /\ lifecycle' = [lifecycle EXCEPT ![a] = phase]
      /\ generation' = generation /\ stamp' = stamp
  BY DEF TakeOut, Unlink
<1>4. /\ p = IF k = 1 THEN Null ELSE order[k - 1]
      /\ q = IF k = n THEN Null ELSE order[k + 1]
  BY <1>1, <1>2 DEF IInv, WellLinked
<1>5. \A i, j \in 1 .. n : order[i] = order[j] => i = j
  BY <1>1 DEF IInv, LinkedIffWaiting
<1>6. n \in Nat /\ n - 1 \in Nat /\ k \in Int /\ 1 <= k /\ k <= n
  BY <1>1
<1>7. \A j \in 1 .. (n - 1) :
          /\ j \in 1 .. n /\ j + 1 \in 1 .. n /\ j \in Int
          /\ order'[j] = IF j < k THEN order[j] ELSE order[j + 1]
          /\ order'[j] \in Awaiters /\ order'[j] # a
  BY <1>1, <1>2, <1>5, <1>6
<1>8. DOMAIN order' = 1 .. (n - 1)
  BY <1>2
<1>9. order' \in Seq(Awaiters) /\ Len(order') = n - 1
  BY <1>2, <1>6, <1>7
<1>10. (k = 1 <=> p = Null) /\ (k = n <=> q = Null)
  <2>1. k # 1 => k - 1 \in 1 .. n
    BY <1>6
  <2>2. k # n => k + 1 \in 1 .. n
    BY <1>6
  <2> HIDE DEF n, p, q
  <2> QED
    BY <1>1, <1>4, <2>1, <2>2
<1>11. p \in Awaiters \cup {Null} /\ q \in Awaiters \cup {Null}
  BY DEF IInv, TypeOK
<1> HIDE DEF n, p, q
<1>12. TypeOK'
  BY <1>3, <1>9, <1>11, SetAssumption DEF IInv, TypeOK
<1>13. WellLinked'
  <2>1. ASSUME n = 1 PROVE order' = <<>> /\ head' = Null /\ tail' = Null
    <3>1. k = 1 /\ k = n
      BY <2>1
    <3> QED
      BY <1>3, <1>9, <1>10, <2>1, <3>1
  <2>2. ASSUME n # 1
        PROVE  order' # <<>> /\ head' = order'[1] /\ tail' = order'[n - 1]
    <3>1. 1 \in 1 .. (n - 1) /\ n - 1 \in 1 .. (n - 1) /\ order # <<>>
      BY <1>1, <1>6, <2>2
    <3>2. head = order[1] /\ tail = order[n]
      BY <3>1 DEF IInv, WellLinked, n
    <3>3. head' = order'[1]
      BY <1>1, <1>3, <1>4, <1>7, <1>10, <3>1, <3>2
    <3>4. tail' = order'[n - 1]
      BY <1>1, <1>3, <1>4, <1>7, <1>10, <3>1, <3>2
    <3> QED
      BY <1>8, <3>1, <3>3, <3>4
  <2>3. ASSUME NEW i \in 1 .. (n - 1)
        PROVE  next'[order'[i]] = IF i = n - 1 THEN Null ELSE order'[i + 1]
    <3>1. \A j \in 1 .. n : next[order[j]] = IF j = n THEN Null ELSE order[j + 1]
      BY <1>1 DEF IInv, WellLinked
    <3>2. CASE i = k - 1
      <4>1. order'[i] = p /\ p # Null
        BY <1>1, <1>4, <1>6, <1>7, <1>10, <3>2
      <4>2. next'[order'[i]] = q
        BY <1>3, <1>7, <4>1 DEF IInv, TypeOK
      <4>3. CASE i = n - 1
        BY <1>1, <1>4, <1>6, <3>2, <4>2, <4>3
      <4>4. CASE i # n - 1
        <5>1. i + 1 = k /\ i + 1 \in 1 .. (n - 1) /\ k # n
          BY <1>1, <1>6, <1>7, <3>2, <4>4
        <5> QED
          BY <1>4, <1>6, <1>7, <4>2, <4>4, <5>1
      <4> QED
        BY <4>3, <4>4
    <3>3. CASE i # k - 1
      <4>1. next'[order'[i]] = next[order'[i]]
        <5>1. CASE p = Null
          BY <1>3, <5>1
        <5>2. CASE p # Null
          <6>1. p = order[k - 1] /\ k - 1 \in 1 .. n
            BY <1>1, <1>4, <1>6, <1>10, <5>2
          <6>2. order'[i] # p
            BY <1>5, <1>6, <1>7, <3>3, <6>1
          <6> QED
            BY <1>3, <1>7, <5>2, <6>2 DEF IInv, TypeOK
        <5> QED
          BY <5>1, <5>2
      <4>2. CASE i < k
        <5>1. i + 1 < k /\ i # n /\ i # n - 1 /\ i + 1 \in 1 .. (n - 1)
          BY <1>1, <1>6, <1>7, <3>3, <4>2
        <5> QED
          BY <1>7, <3>1, <4>1, <4>2, <5>1
      <4>3. CASE ~(i < k)
        <5>1. order'[i] = order[i + 1] /\ i + 1 \in 1 .. n
          BY <1>7, <4>3
        <5>2. CASE i = n - 1
          BY <1>1, <1>6, <1>7, <3>1, <4>1, <5>1, <5>2
        <5>3. CASE i # n - 1
          <6>1. i + 1 \in 1 .. (n - 1) /\ ~(i + 1 < k) /\ i + 1 # n
            BY <1>1, <1>6, <1>7, <4>3, <5>3
          <6> QED
            BY <1>7, <3>1, <4>1, <5>1, <5>3, <6>1
        <5> QED
          BY <5>2, <5>3
      <4> QED
        BY <4>2, <4>3
    <3> QED
      BY <3>2, <3>3
  <2>4. ASSUME NEW i \in 1 .. (n - 1)
        PROVE  prev'[order'[i]] = IF i = 1 THEN Null ELSE order'[i - 1]
    <3>1. \A j \in 1 .. n : prev[order[j]] = IF j = 1 THEN Null ELSE order[j - 1]
      BY <1>1 DEF IInv, WellLinked
    <3>2. CASE i = k
      <4>1. k # n /\ order'[i] = order[k + 1] /\ order'[i] = q /\ q # Null
        BY <1>1, <1>4, <1>6, <1>7, <1>10, <3>2
      <4>2. prev'[order'[i]] = p
        BY <1>3, <1>7, <4>1 DEF IInv, TypeOK
      <4>3. CASE i = 1
        BY <1>4, <3>2, <4>2, <4>3
      <4>4. CASE i # 1
        <5>1. i - 1 \in 1 .. (n - 1) /\ i - 1 < k
          BY <1>1, <1>6, <1>7, <3>2, <4>4
        <5> QED
          BY <1>4, <1>7, <3>2, <4>2, <4>4, <5>1
      <4> QED
        BY <4>3, <4>4
    <3>3. CASE i # k
      <4>1. prev'[order'[i]] = prev[order'[i]]
        <5>1. CASE q = Null
          BY <1>3, <5>1
        <5>2. CASE q # Null
          <6>1. q = order[k + 1] /\ k + 1 \in 1 .. n
            BY <1>1, <1>4, <1>6, <1>10, <5>2
          <6>2. order'[i] # q
            BY <1>5, <1>6, <1>7, <3>3, <6>1
          <6> QED
            BY <1>3, <1>7, <5>2, <6>2 DEF IInv, TypeOK
        <5> QED
          BY <5>1, <5>2
      <4>2. CASE i < k
        <5>1. order'[i] = order[i] /\ (i # 1 => i - 1 \in 1 .. (n - 1) /\ i - 1 < k)
          BY <1>1, <1>6, <1>7, <4>2
        <5> QED
          BY <1>7, <3>1, <4>1, <4>2, <5>1
      <4>3. CASE ~(i < k)
        <5>1. /\ order'[i] = order[i + 1] /\ i + 1 \in 1 .. n /\ i + 1 # 1 /\ (i + 1) - 1 = i
              /\ i # 1 /\ i - 1 \in 1 .. (n - 1) /\ ~(i - 1 < k) /\ (i - 1) + 1 = i
          BY <1>1, <1>6, <1>7, <3>3, <4>3
        <5> QED
          BY <1>7, <3>1, <4>1, <5>1
      <4> QED
        BY <4>2, <4>3
    <3> QED
      BY <3>2, <3>3
  <2>5. order' = <<>> => n = 1
    BY <2>2
  <2>6. ASSUME n # 1 PROVE head' # Null /\ tail' # Null
    <3>1. 1 \in 1 .. (n - 1) /\ n - 1 \in 1 .. (n - 1)
      BY <1>1, <1>6, <2>6
    <3> QED
      BY <1>1, <1>7, <2>2, <2>6, <3>1
  <2> QED
    BY <1>8, <1>9, <2>1, <2>2, <2>3, <2>4, <2>5, <2>6 DEF WellLinked
<1>14. LinkedIffWaiting'
  <2>1. ASSUME NEW i \in 1 .. (n - 1), NEW j \in 1 .. (n - 1), order'[i] = order'[j]
        PROVE  i = j
    BY <1>5, <1>6, <1>7, <2>1
  <2>2. ASSUME NEW b \in Awaiters, b # a, b \in Members PROVE b \in Members'
    <3>1. PICK j \in 1 .. n : order[j] = b
      BY <1>1, <2>2 DEF Members
    <3>2. j # k
      BY <1>2, <2>2, <3>1
    <3>3. CASE j < k
      <4>1. j \in 1 .. (n - 1)
        BY <1>1, <1>6, <3>3
      <4> QED
        BY <1>7, <1>8, <3>1, <3>3, <4>1 DEF Members
    <3>4. CASE j > k
      <4>1. j - 1 \in 1 .. (n - 1) /\ ~(j - 1 < k) /\ (j - 1) + 1 = j
        BY <1>1, <1>6, <3>4
      <4>2. order'[j - 1] = b
        BY <1>7, <3>1, <4>1
      <4> QED
        BY <1>8, <4>1, <4>2 DEF Members
    <3> QED
      BY <1>1, <1>6, <3>2, <3>3, <3>4
  <2>3. Members' \subseteq Members \ {a}
    BY <1>1, <1>7, <1>8 DEF Members
  <2>4. \A b \in Awaiters : b \in Members' <=> b \in Members /\ b # a
    BY <2>2, <2>3
  <2>5. \A b \in Awaiters : /\ lifecycle'[b] = WAITING <=> b \in Members'
                            /\ waker'[b] # NoWaker <=> lifecycle'[b] = WAITING
    BY <1>3, <2>4 DEF IInv, TypeOK, LinkedIffWaiting, IDLE, WAITING, NOTIFIED
  <2> QED
    BY <1>8, <2>1, <2>5 DEF LinkedIffWaiting
<1>15. GenerationsSorted'
  <2>1. /\ \A i, j \in 1 .. n : i <= j => stamp[order[i]] <= stamp[order[j]]
        /\ \A i \in 1 .. n : stamp[order[i]] <= generation
    BY <1>1 DEF IInv, GenerationsSorted
  <2>2. ASSUME NEW i \in 1 .. (n - 1), NEW j \in 1 .. (n - 1), i <= j
        PROVE  stamp[order'[i]] <= stamp[order'[j]]
    <3> DEFINE x == IF i < k THEN i ELSE i + 1
               y == IF j < k THEN j ELSE j + 1
    <3>1. x \in 1 .. n /\ y \in 1 .. n /\ x <= y
      BY <1>6, <1>7, <2>2
    <3>2. order'[i] = order[x] /\ order'[j] = order[y]
      BY <1>7
    <3> QED
      BY <2>1, <3>1, <3>2
  <2>3. \A i \in 1 .. (n - 1) : stamp[order'[i]] <= generation
    BY <1>7, <2>1
  <2> QED
    BY <1>3, <1>8, <2>2, <2>3 DEF GenerationsSorted
<1> QED
  BY <1>12, <1>13, <1>14, <1>15 DEF IInv

\* Whoever is picked for a notification is in the list.
LEMMA PickOneLinked ==
    ASSUME IInv, head # Null
    PROVE  head \in Awaiters /\ PickOne \in Awaiters
<1>1. order # <<>> /\ tail # Null
  BY DEF IInv, WellLinked
<1> QED
  BY <1>1 DEF IInv, TypeOK, PickOne

\* Every step preserves the invariant.
LEMMA NextIInv == IInv /\ [Next]_vars => IInv'
<1> SUFFICES ASSUME IInv, [Next]_vars PROVE IInv'
  OBVIOUS
<1>1. CASE NotifyOne
  BY <1>1, PickOneLinked, TakeOutInv DEF NotifyOne
<1>2. CASE AdvanceGeneration
  <2>1. /\ UNCHANGED <<head, tail, next, prev, waker, stamp, lifecycle, order>>
        /\ generation \in Nat /\ generation' = generation + 1 /\ generation' \in 1 .. MaxGeneration
    BY <1>2, SetAssumption DEF AdvanceGeneration, IInv, TypeOK
  <2>2. TypeOK' /\ WellLinked' /\ LinkedIffWaiting'
    BY <2>1 DEF IInv, TypeOK, WellLinked, LinkedIffWaiting, Members
  <2>3. \A i \in DOMAIN order : stamp[order[i]] \in Int /\ stamp[order[i]] <= generation
    <3>1. stamp \in [Awaiters -> Int]
      BY SetAssumption DEF IInv, TypeOK
    <3> QED
      BY <3>1, ListFacts DEF IInv, GenerationsSorted
  <2>4. GenerationsSorted'
    BY <2>1, <2>3 DEF IInv, GenerationsSorted
  <2> QED
    BY <2>2, <2>4 DEF IInv
<1>3. CASE NotifyOnePriorGeneration
  BY <1>3, PickOneLinked, TakeOutInv DEF NotifyOnePriorGeneration
<1>4. ASSUME NEW a \in Awaiters, NEW w \in Wakers, Register(a, w) PROVE IInv'
  BY <1>4, RegisterInv
<1>5. CASE UNCHANGED vars
  BY <1>5 DEF vars, IInv, TypeOK, WellLinked, LinkedIffWaiting, GenerationsSorted, Members
<1>6. ASSUME NEW a \in Awaiters, Unregister(a) PROVE IInv'
  BY <1>5, <1>6, TakeOutInv DEF Unregister
<1>7. ASSUME NEW a \in Awaiters, TakeNotification(a) PROVE IInv'
  <2>1. TypeOK' /\ WellLinked' /\ GenerationsSorted'
    BY <1>7 DEF TakeNotification, IInv, TypeOK, WellLinked, GenerationsSorted, IDLE
  <2>2. LinkedIffWaiting'
    BY <1>7 DEF TakeNotification, IInv, TypeOK, LinkedIffWaiting, Members, IDLE, WAITING, NOTIFIED
  <2> QED
    BY <2>1, <2>2 DEF IInv
<1> QED
  BY <1>1, <1>2, <1>3, <1>4, <1>5, <1>6, <1>7 DEF Next

\* The inductive invariant of the linked list holds after every sequence of
\* register(), unregister(), notify_one(), drain and take_notification() calls.
THEOREM SpecIInv == Spec => []IInv
  BY InitIInv, NextIInv, PTL DEF Spec

\* The pointers of the list always spell out one sequence, in both directions.
THEOREM ListWellLinked == Spec => []WellLinked
<1>1. IInv => WellLinked
  BY DEF IInv
<1> QED
  BY <1>1, SpecIInv, PTL

\* An awaiter is linked, once and with a waker, exactly while it is WAITING.
THEOREM ListHoldsTheWaiting == Spec => []LinkedIffWaiting
<1>1. IInv => LinkedIffWaiting
  BY DEF IInv
<1> QED
  BY <1>1, SpecIInv, PTL

\* A drain may decide by the head: nobody older stands behind it.
THEOREM ListSorted == Spec => []GenerationsSorted
<1>1. IInv => GenerationsSorted
  BY DEF IInv
<1> QED
  BY <1>1, SpecIInv, PTL

\* All three at once, as the operations and their callers rely on them.
THEOREM ListStaysSound == Spec => []ListSound
<1>1. IInv => ListSound
  BY DEF IInv, ListSound
<1> QED
  BY <1>1, SpecIInv, PTL

----------------------------------------------------------------------------
(* The list implements the queue, operation by operation. *)

\* Members of the list, before and after a removal.
LEMMA MembersAreWaiting == IInv => Members = {b \in Awaiters : lifecycle[b] = WAITING}
  BY ListFacts DEF IInv, LinkedIffWaiting, Members

\* After an operation, too, the members of the list are the waiting awaiters.
LEMMA NextMembersAreWaiting == IInv' => Members' = {b \in Awaiters : lifecycle'[b] = WAITING}
<1> SUFFICES ASSUME IInv' PROVE Members' = {b \in Awaiters : lifecycle'[b] = WAITING}
  OBVIOUS
<1>1. \A i \in DOMAIN order' : order'[i] \in Awaiters
  BY DEF IInv, TypeOK
<1> QED
  BY <1>1 DEF IInv, LinkedIffWaiting, Members

\* A change of one awaiter's lifecycle is a change of its phase.
LEMMA PhaseChange ==
    ASSUME IInv, NEW a \in Awaiters, NEW l, NEW v,
           \/ l = IDLE /\ v = "idle"
           \/ l = WAITING /\ v = "waiting"
           \/ l = NOTIFIED /\ v = "notified",
           lifecycle' = [lifecycle EXCEPT ![a] = l]
    PROVE  PhaseOf' = [PhaseOf EXCEPT ![a] = v]
<1>1. lifecycle'[a] = l /\ \A b \in Awaiters : b # a => lifecycle'[b] = lifecycle[b]
  BY DEF IInv, TypeOK
<1>2. \A b \in Awaiters : PhaseOf'[b] = IF b = a THEN v ELSE PhaseOf[b]
  BY <1>1 DEF PhaseOf, IDLE, WAITING, NOTIFIED
<1> QED
  BY <1>2 DEF PhaseOf

\* remove() takes the awaiter out of the queue the list stands for.
LEMMA TakeOutIsLeave ==
    ASSUME IInv, NEW a \in Awaiters, NEW phase \in {IDLE, NOTIFIED}, TakeOut(a, phase)
    PROVE  Queue!Leave(a, IF phase = IDLE THEN "idle" ELSE "notified")
<1>1. IInv'
  BY TakeOutInv
<1>2. /\ lifecycle' = [lifecycle EXCEPT ![a] = phase]
      /\ waker' = [waker EXCEPT ![a] = NoWaker]
      /\ generation' = generation /\ stamp' = stamp
      /\ \E i \in DOMAIN order : order[i] = a /\ order' = Queue!Without(order, i)
  BY DEF TakeOut, OrderWithout, Queue!Without
<1>3. Members' = Members \ {a}
  <2>1. Members' = {b \in Awaiters : lifecycle'[b] = WAITING}
    BY <1>1, NextMembersAreWaiting
  <2>2. Members = {b \in Awaiters : lifecycle[b] = WAITING}
    BY MembersAreWaiting
  <2> QED
    BY <1>2, <2>1, <2>2 DEF IInv, TypeOK, IDLE, WAITING, NOTIFIED
<1>4. PriorMembers' = PriorMembers \ {a}
  BY <1>2, <1>3 DEF PriorMembers
<1>5. PhaseOf' = [PhaseOf EXCEPT ![a] = IF phase = IDLE THEN "idle" ELSE "notified"]
  <2>1. CASE phase = IDLE
    BY <1>2, <2>1, PhaseChange
  <2>2. CASE phase = NOTIFIED
    BY <1>2, <2>2, PhaseChange DEF IDLE, NOTIFIED
  <2> QED
    BY <2>1, <2>2
<1> QED
  BY <1>2, <1>4, <1>5 DEF Queue!Leave

\* register() on the list is register() on the queue.
LEMMA RegisterImplements ==
    ASSUME IInv, NEW a \in Awaiters, NEW w \in Wakers, Register(a, w)
    PROVE  Queue!Register(a, w)
<1>1. lifecycle[a] # NOTIFIED /\ waker' = [waker EXCEPT ![a] = w] /\ generation' = generation
  BY DEF Register
<1>2. PhaseOf[a] # "notified" /\ (PhaseOf[a] = "waiting" <=> lifecycle[a] = WAITING)
  BY <1>1 DEF PhaseOf, IInv, TypeOK, IDLE, WAITING, NOTIFIED
<1>3. lifecycle' = [lifecycle EXCEPT ![a] = WAITING]
  BY DEF Register, IInv, TypeOK
<1>4. PhaseOf' = [PhaseOf EXCEPT ![a] = "waiting"]
  BY <1>3, PhaseChange
<1>5. order' = IF lifecycle[a] = WAITING THEN order ELSE Append(order, a)
  BY DEF Register
<1>6. PriorMembers' = PriorMembers
  <2>1. CASE lifecycle[a] = WAITING
    BY <1>1, <2>1 DEF Register, PriorMembers, Members
  <2>2. CASE lifecycle[a] # WAITING
    <3>1. stamp' = [stamp EXCEPT ![a] = generation]
      BY <2>2 DEF Register
    <3>2. Members' = Members \cup {a} /\ a \notin Members /\ Members \subseteq Awaiters
      <4>1. IInv'
        BY RegisterInv
      <4>2. /\ Members' = {b \in Awaiters : lifecycle'[b] = WAITING}
            /\ Members = {b \in Awaiters : lifecycle[b] = WAITING}
        BY <4>1, MembersAreWaiting, NextMembersAreWaiting
      <4> QED
        BY <1>3, <2>2, <4>2 DEF IInv, TypeOK
    <3>3. ~(generation < generation)
      BY SetAssumption DEF IInv, TypeOK
    <3> QED
      BY <1>1, <3>1, <3>2, <3>3 DEF PriorMembers, IInv, TypeOK
  <2> QED
    BY <2>1, <2>2
<1> QED
  BY <1>1, <1>2, <1>4, <1>5, <1>6 DEF Queue!Register

\* unregister() on the list is unregister() on the queue.
LEMMA UnregisterImplements ==
    ASSUME IInv, NEW a \in Awaiters, Unregister(a)
    PROVE  Queue!Unregister(a)
<1>1. PhaseOf[a] # "idle" /\ (PhaseOf[a] = "waiting" <=> lifecycle[a] = WAITING)
  BY DEF Unregister, PhaseOf, IDLE, WAITING
<1>2. CASE lifecycle[a] = WAITING
  BY <1>1, <1>2, TakeOutIsLeave DEF Unregister, Queue!Unregister
<1>3. CASE lifecycle[a] # WAITING
  <2>1. UNCHANGED vars
    BY <1>3 DEF Unregister
  <2>2. UNCHANGED <<order, PriorMembers, PhaseOf, waker>>
    BY <2>1 DEF vars, PriorMembers, PhaseOf, Members
  <2> QED
    BY <1>1, <1>3, <2>2 DEF Queue!Unregister, Queue!queueVars
<1> QED
  BY <1>2, <1>3

\* notify_one() notifies the awaiter that pick_one() picks.
LEMMA NotifyOneImplements == IInv /\ NotifyOne => Queue!NotifyOne(PickOne)
<1> SUFFICES ASSUME IInv, NotifyOne PROVE Queue!NotifyOne(PickOne)
  OBVIOUS
<1>1. head # Null /\ order # <<>> /\ PickOne \in {order[1], order[Len(order)]}
  BY DEF NotifyOne, IInv, WellLinked, PickOne
<1>2. Queue!Leave(PickOne, "notified")
  BY <1>1, PickOneLinked, TakeOutIsLeave DEF NotifyOne, IDLE, NOTIFIED
<1> QED
  BY <1>1, <1>2 DEF Queue!NotifyOne

\* notify_one_prior_generation(): comparing the stamp of the head with the
\* current generation finds the awaiters of a prior generation.
LEMMA DrainImplements ==
    IInv /\ NotifyOnePriorGeneration => Queue!NotifyOnePriorGeneration(head)
<1> SUFFICES ASSUME IInv, NotifyOnePriorGeneration PROVE Queue!NotifyOnePriorGeneration(head)
  OBVIOUS
<1>1. head # Null /\ order # <<>> /\ head = order[1] /\ stamp[head] < generation
  BY DEF NotifyOnePriorGeneration, IInv, WellLinked
<1>2. order[1] \in PriorMembers
  <2>1. 1 \in DOMAIN order
    BY <1>1, ListFacts
  <2> QED
    BY <1>1, <2>1 DEF PriorMembers, Members
<1>3. Queue!Leave(head, "notified")
  BY <1>1, PickOneLinked, TakeOutIsLeave DEF NotifyOnePriorGeneration, IDLE, NOTIFIED
<1> QED
  BY <1>1, <1>2, <1>3 DEF Queue!NotifyOnePriorGeneration, Queue!HasPrior

\* advance_generation() makes everybody who waits of a prior generation.
LEMMA AdvanceImplements == IInv /\ AdvanceGeneration => Queue!AdvanceGeneration
<1> SUFFICES ASSUME IInv, AdvanceGeneration PROVE Queue!AdvanceGeneration
  OBVIOUS
<1>1. \A b \in Members : stamp[b] \in Int /\ stamp[b] <= generation /\ generation \in Int
  <2>1. stamp \in [Awaiters -> Int] /\ generation \in Int
    BY SetAssumption DEF IInv, TypeOK
  <2> QED
    BY <2>1, ListFacts DEF IInv, GenerationsSorted, Members
<1>2. PriorMembers' = Members
  BY <1>1 DEF AdvanceGeneration, PriorMembers, Members
<1>3. UNCHANGED <<order, PhaseOf, waker>>
  BY DEF AdvanceGeneration, PhaseOf
<1> QED
  BY <1>2, <1>3 DEF Queue!AdvanceGeneration, Queue!Waiting, Members

\* take_notification() on the list is take_notification() on the queue.
LEMMA TakeNotificationImplements ==
    ASSUME IInv, NEW a \in Awaiters, TakeNotification(a)
    PROVE  Queue!TakeNotification(a)
<1>1. PhaseOf[a] = "notified" /\ PhaseOf' = [PhaseOf EXCEPT ![a] = "idle"]
  <2>1. PhaseOf' = [PhaseOf EXCEPT ![a] = "idle"]
    BY PhaseChange DEF TakeNotification, IDLE
  <2>2. PhaseOf[a] = "notified"
    BY DEF TakeNotification, PhaseOf, IDLE, WAITING, NOTIFIED
  <2> QED
    BY <2>1, <2>2
<1>2. UNCHANGED <<order, PriorMembers, waker>>
  BY DEF TakeNotification, PriorMembers, Members
<1> QED
  BY <1>1, <1>2 DEF Queue!TakeNotification

\* Each operation of the list is the queue operation of the same name.
THEOREM OperationsRefine == Spec => OperationsImplementQueue
<1>1. IInv /\ [Next]_vars =>
        [/\ NotifyOne => Queue!NotifyOne(PickOne)
         /\ AdvanceGeneration => Queue!AdvanceGeneration
         /\ NotifyOnePriorGeneration => Queue!NotifyOnePriorGeneration(head)
         /\ \A a \in Awaiters :
              /\ \A w \in Wakers : Register(a, w) => Queue!Register(a, w)
              /\ Unregister(a) => Queue!Unregister(a)
              /\ TakeNotification(a) => Queue!TakeNotification(a)]_vars
  BY NotifyOneImplements, AdvanceImplements, DrainImplements, RegisterImplements,
     UnregisterImplements, TakeNotificationImplements
<1> QED
  BY <1>1, SpecIInv, PTL DEF Spec, OperationsImplementQueue

\* The intrusive list with its generation stamps implements the queue whose
\* drains see exactly the awaiters that were waiting when they began.
THEOREM ListRefinesQueue == Spec => ImplementsQueue
<1>1. Init => Queue!QueueInit
  BY DEF Init, Queue!QueueInit, PriorMembers, PhaseOf, Members
<1>2. IInv /\ [Next]_vars => [Queue!QueueNext]_(Queue!queueVars)
  <2> SUFFICES ASSUME IInv, [Next]_vars PROVE [Queue!QueueNext]_(Queue!queueVars)
    OBVIOUS
  <2>1. CASE NotifyOne
    <3>1. PickOne \in Awaiters
      BY <2>1, PickOneLinked DEF NotifyOne
    <3> QED
      BY <2>1, <3>1, NotifyOneImplements DEF Queue!QueueNext
  <2>2. CASE AdvanceGeneration
    BY <2>2, AdvanceImplements DEF Queue!QueueNext
  <2>3. CASE NotifyOnePriorGeneration
    <3>1. head \in Awaiters
      BY <2>3, PickOneLinked DEF NotifyOnePriorGeneration
    <3> QED
      BY <2>3, <3>1, DrainImplements DEF Queue!QueueNext
  <2>4. ASSUME NEW a \in Awaiters, NEW w \in Wakers, Register(a, w)
        PROVE  Queue!QueueNext
    BY <2>4, RegisterImplements DEF Queue!QueueNext
  <2>5. ASSUME NEW a \in Awaiters, Unregister(a) \/ TakeNotification(a)
        PROVE  Queue!QueueNext
    BY <2>5, UnregisterImplements, TakeNotificationImplements DEF Queue!QueueNext
  <2>6. CASE UNCHANGED vars
    BY <2>6 DEF vars, Queue!queueVars, PriorMembers, PhaseOf, Members
  <2> QED
    BY <2>1, <2>2, <2>3, <2>4, <2>5, <2>6 DEF Next
<1> QED
  BY <1>1, <1>2, SpecIInv, PTL DEF Spec, ImplementsQueue, Queue!QueueSpec

\* What the two events assume of their awaiter set, whose operations preserve it,
\* the list satisfies: nobody is linked twice, exactly the WAITING awaiters are
\* linked and hold a waker, and only they are of a prior generation.
THEOREM ListKeepsQueueInv == Spec => []Queue!QueueInv
<1>1. IInv => Queue!QueueInv
  <2> SUFFICES ASSUME IInv PROVE Queue!QueueInv
    OBVIOUS
  <2>1. Members = {b \in Awaiters : lifecycle[b] = WAITING}
    BY MembersAreWaiting
  <2>2. /\ PhaseOf \in [Awaiters -> {"idle", "waiting", "notified"}]
        /\ \A b \in Awaiters : PhaseOf[b] = "waiting" <=> lifecycle[b] = WAITING
    BY DEF PhaseOf, IDLE, WAITING
  <2>3. Queue!QueueTypeOK
    BY <2>1, <2>2 DEF IInv, TypeOK, Queue!QueueTypeOK, Queue!Phases, PriorMembers
  <2>4. \A b \in Awaiters : waker[b] \in Wakers <=> PhaseOf[b] = "waiting"
    BY <2>2, SetAssumption DEF IInv, TypeOK, LinkedIffWaiting
  <2>5. \A b \in Awaiters : PhaseOf[b] = "waiting" <=> \E i \in DOMAIN order : order[i] = b
    BY <2>2 DEF IInv, LinkedIffWaiting, Members
  <2> QED
    BY <2>1, <2>2, <2>3, <2>4, <2>5
       DEF IInv, LinkedIffWaiting, Queue!QueueInv, PriorMembers
<1> QED
  BY <1>1, SpecIInv, PTL
=============================================================================
