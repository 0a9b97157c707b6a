-------------------------- MODULE OnceEventProofs --------------------------
(* What OnceEvent promises, for every set of wakers.  The argument has two halves.  The   *)
(* first leaves the memory out: the values of the word that can still be read, the        *)
(* control points of the two endpoints and the places of the awaiter, the wakers and the  *)
(* payload determine each other (ControlInv), which gives NothingLeaks, NoLostWakeup,     *)
(* ReadinessIsStable and the refinement of OnceExchange.  The second adds which accesses  *)
(* each endpoint has seen the other end with (OrderInv), which gives StorageSound.        *)
EXTENDS OnceEvent, SequenceTheorems, TLAPS

USE WakerAssumption

\* The five values of the state word, as state.rs numbers them.
LEMMA Values == /\ EVENT_BOUND = 0 /\ EVENT_SET = 1 /\ EVENT_AWAITING = 2
                /\ EVENT_SIGNALING = 3 /\ EVENT_DISCONNECTED = 4
  BY DEF EVENT_BOUND, EVENT_SET, EVENT_AWAITING, EVENT_SIGNALING, EVENT_DISCONNECTED

\* The latest value is readable.
LEMMA Latest ==
    ASSUME ControlTypeOK
    PROVE  /\ DOMAIN mo = 1..Len(mo) /\ Len(mo) \in 1..3 /\ Len(mo) \in DOMAIN mo /\ 1 \in DOMAIN mo
           /\ state = mo[Len(mo)] /\ state \in 0..5 /\ \A i \in DOMAIN mo : mo[i] \in 0..5
<1>1. DOMAIN mo = 1..Len(mo) /\ \A i \in 1..Len(mo) : mo[i] \in 0..5
  BY LenProperties DEF ControlTypeOK
<1> QED
  BY <1>1 DEF ControlTypeOK, state

\* A store of the sender goes behind what is readable.
LEMMA Storing ==
    ASSUME ControlTypeOK, NEW x \in 0..5, mo' = Append(mo, x), Len(mo) \in 1..2
    PROVE  /\ mo' \in Seq(0..5) /\ Len(mo') = Len(mo) + 1 /\ Len(mo') \in 1..3
           /\ DOMAIN mo = 1..Len(mo) /\ DOMAIN mo' = 1..(Len(mo) + 1)
           /\ \A i \in 1..Len(mo) : mo'[i] = mo[i]
           /\ mo'[Len(mo) + 1] = x /\ state' = x
<1>1. mo \in Seq(0..5)
  BY DEF ControlTypeOK
<1>2. /\ Append(mo, x) \in Seq(0..5) /\ Len(Append(mo, x)) = Len(mo) + 1
      /\ \A i \in 1..Len(mo) : Append(mo, x)[i] = mo[i]
      /\ Append(mo, x)[Len(mo) + 1] = x
  BY <1>1, AppendProperties
<1>3. DOMAIN mo' = 1..Len(mo') /\ DOMAIN mo = 1..Len(mo)
  BY <1>1, <1>2, LenProperties
<1>4. state' = mo'[Len(mo')]
  BY DEF state
<1> QED
  BY <1>2, <1>3, <1>4

\* A write of the receiver leaves nothing older to read.
LEMMA Replacing ==
    ASSUME ControlTypeOK, NEW x \in 0..5, mo' = <<x>>
    PROVE  /\ mo' \in Seq(0..5) /\ Len(mo') = 1 /\ DOMAIN mo' = {1} /\ mo'[1] = x /\ state' = x
<1>1. <<x>> \in Seq(0..5) /\ Len(<<x>>) = 1 /\ <<x>>[1] = x /\ DOMAIN <<x>> = 1..1
  OBVIOUS
<1> QED
  BY <1>1 DEF state

\* A load leaves the values from the one it read.
LEMMA Reading ==
    ASSUME ControlTypeOK, NEW i \in DOMAIN mo, mo' = SubSeq(mo, i, Len(mo))
    PROVE  /\ mo' \in Seq(0..5) /\ Len(mo') = Len(mo) - i + 1 /\ Len(mo') \in 1..3
           /\ DOMAIN mo = 1..Len(mo) /\ DOMAIN mo' = 1..(Len(mo) - i + 1)
           /\ \A j \in 1..(Len(mo) - i + 1) : mo'[j] = mo[i + j - 1]
           /\ mo'[1] = mo[i] /\ state' = state
<1>1. /\ mo \in Seq(0..5) /\ DOMAIN mo = 1..Len(mo) /\ Len(mo) \in 1..3 /\ i \in 1..Len(mo)
      /\ \A j \in 1..Len(mo) : mo[j] \in 0..5
  BY Latest DEF ControlTypeOK
<1>2. \A j \in i..Len(mo) : mo[j] \in 0..5
  BY <1>1
<1>3. /\ mo' \in Seq(0..5) /\ Len(mo') = Len(mo) - i + 1
      /\ \A j \in 1..(Len(mo) - i + 1) : mo'[j] = mo[i + j - 1]
  <2>1. i \in Int /\ Len(mo) \in Int /\ i <= Len(mo) + 1
    BY <1>1
  <2> QED
    BY <1>1, <1>2, <2>1, SubSeqProperties
<1>4. DOMAIN mo' = 1..Len(mo')
  BY <1>3, LenProperties
<1>5. state = mo[Len(mo)] /\ state' = mo'[Len(mo')]
  BY DEF state
<1>6. Len(mo') \in 1..(Len(mo) - i + 1) /\ i + Len(mo') - 1 = Len(mo)
        /\ 1 \in 1..(Len(mo) - i + 1) /\ i + 1 - 1 = i
  BY <1>1, <1>3
<1>7. mo'[1] = mo[i] /\ mo'[Len(mo')] = mo[Len(mo)]
  BY <1>3, <1>6
<1>8. Len(mo') \in 1..3 /\ DOMAIN mo' = 1..(Len(mo) - i + 1)
  BY <1>1, <1>3, <1>4
<1> QED
  BY <1>1, <1>3, <1>4, <1>5, <1>7, <1>8

\* So does a store that becomes visible.
LEMMA Showing ==
    ASSUME ControlTypeOK, Len(mo) > 1, mo' = Tail(mo)
    PROVE  2 \in DOMAIN mo /\ mo' = SubSeq(mo, 2, Len(mo))
  BY Latest DEF ControlTypeOK

\* A terminal value is the last one, and the sender has ended or is waking.
LEMMA Terminal ==
    ASSUME ControlInv, rpc \notin Over, NEW i \in DOMAIN mo,
           mo[i] \in {EVENT_SET, EVENT_DISCONNECTED}
    PROVE  i = Len(mo) /\ state = mo[i] /\ spc \in {"wake", "done"}
<1>1. i = Len(mo) /\ state = mo[i]
  BY Latest DEF ControlInv, HistoryInv
<1>2. spc \notin Untouched
  BY <1>1, Values DEF ControlInv, WordInv
<1>3. spc \notin Locking
  BY <1>1, Values DEF ControlInv, WordInv
<1>4. spc \notin {"reclaim", "release_set", "release_drop", "drop_value", "unreachable"}
  BY DEF ControlInv, WordInv
<1>5. spc \in SenderPcs
  BY DEF ControlInv, ControlTypeOK
<1>6. spc \in {"wake", "done"}
  BY <1>2, <1>3, <1>4, <1>5 DEF SenderPcs, Untouched, Locking
<1> QED
  BY <1>1, <1>6

\* What a load can read, while the receiver is not done.
LEMMA Readable ==
    ASSUME ControlInv, rpc \notin Over, NEW i \in DOMAIN mo
    PROVE  /\ mo[i] \in 0..4
           /\ mo[i] \in {EVENT_SET, EVENT_DISCONNECTED} => i = Len(mo) /\ state = mo[i]
                /\ spc \in {"wake", "done"}
           /\ mo[i] \in {EVENT_BOUND, EVENT_AWAITING} => i = 1
<1>1. mo[i] \in 0..4 /\ (mo[i] \in {EVENT_BOUND, EVENT_AWAITING} => i = 1)
  BY DEF ControlInv, HistoryInv
<1> QED
  BY <1>1, Terminal

\* send() writes the value into the cell before it touches the state.
LEMMA WriteValueStep ==
    ASSUME ControlInv, WriteValue
    PROVE  ControlInv'
<1>1. spc = "idle" /\ spc' = "fetch_add" /\ payload' = "cell"
  BY DEF WriteValue, SenderGoto, ReceiverGoto
<1>2. UNCHANGED <<mo, awaiter, freed, swaker, rpc, rarg, rheld, rcur, rresult, armed, woken,
                  answer, clones>>
  BY DEF WriteValue, receiverVars, senderVars
<1>3. state' = state
  BY <1>2 DEF state
<1>4. ControlTypeOK'
  BY <1>1, <1>2 DEF ControlInv, ControlTypeOK, SenderPcs
<1>5. WordInv'
  BY <1>1, <1>2, <1>3 DEF ControlInv, WordInv, Locking, Untouched
<1>6. HistoryInv'
  BY <1>2 DEF ControlInv, HistoryInv
<1>7. SawInv'
  BY <1>2 DEF ControlInv, SawInv, Unread
<1>8. AwaiterInv'
  BY <1>1, <1>2, <1>3 DEF ControlInv, AwaiterInv, WakersInv
<1>9. WakersInv'
  BY <1>1, <1>2 DEF ControlInv, WakersInv
<1>10. PayloadInv'
  BY <1>1 DEF PayloadInv
<1>11. ResultInv'
  BY <1>1, <1>2 DEF ControlInv, ResultInv
<1> QED
  BY <1>4, <1>5, <1>6, <1>7, <1>8, <1>9, <1>10, <1>11 DEF ControlInv

\* send()'s fetch_add publishes the value: BOUND becomes SET, AWAITING becomes
\* SIGNALING, DISCONNECTED tells the sender that it is alone.
LEMMA FetchAddStep ==
    ASSUME ControlInv, FetchAdd
    PROVE  ControlInv'
<1>1. /\ spc = "fetch_add" /\ mo' = Append(mo, state + 1)
      /\ spc' = CASE state = EVENT_BOUND        -> "done"
                  [] state = EVENT_AWAITING     -> "set_take"
                  [] state = EVENT_DISCONNECTED -> "reclaim"
                  [] OTHER                      -> "unreachable"
  BY DEF FetchAdd, SenderGoto, ReceiverGoto
<1>2. UNCHANGED <<awaiter, payload, freed, swaker, rpc, rarg, rheld, rcur, rresult, armed, woken,
                  answer, clones>>
  BY DEF FetchAdd, receiverVars, senderVars
<1>3. Len(mo) = 1 /\ state \in {EVENT_BOUND, EVENT_AWAITING, EVENT_DISCONNECTED}
  BY <1>1 DEF ControlInv, WordInv, Untouched
<1>4. /\ Len(mo') = 2 /\ mo' \in Seq(0..5) /\ DOMAIN mo = {1} /\ DOMAIN mo' = {1, 2}
           /\ mo'[1] = mo[1]
      /\ mo'[2] = state + 1 /\ state' = state + 1
  <2>1. state + 1 \in 0..5
    BY <1>3, Values
  <2> QED
    BY <1>1, <1>3, <2>1, Storing DEF ControlInv
<1>5. ControlTypeOK'
  BY <1>1, <1>2, <1>4 DEF ControlInv, ControlTypeOK, SenderPcs
<1>6. WordInv'
  BY <1>1, <1>2, <1>4, Values DEF ControlInv, WordInv, Locking, Untouched
<1>7. HistoryInv'
  BY <1>1, <1>2, Latest, Values DEF ControlInv, HistoryInv, WordInv, Untouched
<1>8. SawInv'
  BY <1>2, <1>3, <1>4, Values DEF ControlInv, SawInv, Unread
<1>9. AwaiterInv'
  BY <1>1, <1>2, <1>3, <1>4, Latest, Values DEF ControlInv, AwaiterInv, Own, Holding, Unread, SawInv
<1>10. WakersInv'
  BY <1>1, <1>2 DEF ControlInv, WakersInv
<1>11. PayloadInv'
  BY <1>1, <1>2, <1>4, Latest, Values DEF ControlInv, PayloadInv, WordInv, Over, SawInv
<1>12. ResultInv'
  BY <1>1, <1>2 DEF ControlInv, ResultInv, WordInv
<1> QED
  BY <1>5, <1>6, <1>7, <1>8, <1>9, <1>10, <1>11, <1>12 DEF ControlInv

\* The sender owns the awaiter once it has signalled: it takes the waker out to deliver.
LEMMA TakeWakerToSetStep ==
    ASSUME ControlInv, TakeWakerToSet
    PROVE  ControlInv'
<1>1. spc = "set_take" /\ spc' = "set_store" /\ swaker' = awaiter /\ awaiter' = NoWaker
  BY DEF TakeWakerToSet, SenderGoto, ReceiverGoto, TakeWaker
<1>2. UNCHANGED <<mo, payload, freed, rpc, rarg, rheld, rcur, rresult, armed, woken, answer,
                  clones>>
  BY DEF TakeWakerToSet, receiverVars, senderVars, TakeWaker
<1>3. state' = state
  BY <1>2 DEF state
<1>4. ControlTypeOK'
  BY <1>1, <1>2 DEF ControlInv, ControlTypeOK, SenderPcs
<1>5. WordInv'
  BY <1>1, <1>2, <1>3 DEF ControlInv, WordInv, Locking, Untouched
<1>6. HistoryInv'
  BY <1>2 DEF ControlInv, HistoryInv
<1>7. SawInv'
  BY <1>2 DEF ControlInv, SawInv, Unread
<1>8. AwaiterInv'
  BY <1>1, <1>2, <1>3, Values DEF ControlInv, AwaiterInv, Own, Holding, Unread, WordInv, Locking
<1>9. WakersInv'
  BY <1>1, <1>2 DEF ControlInv, WakersInv, Held, AwaiterInv
<1>10. PayloadInv'
  BY <1>1, <1>2 DEF ControlInv, PayloadInv
<1>11. ResultInv'
  BY <1>1, <1>2 DEF ControlInv, ResultInv
<1> QED
  BY <1>4, <1>5, <1>6, <1>7, <1>8, <1>9, <1>10, <1>11 DEF ControlInv

\* A dropped sender takes the waker out of the awaiter it has claimed.
LEMMA TakeWakerToDropStep ==
    ASSUME ControlInv, TakeWakerToDrop
    PROVE  ControlInv'
<1>1. spc = "drop_take" /\ spc' = "drop_store" /\ swaker' = awaiter /\ awaiter' = NoWaker
  BY DEF TakeWakerToDrop, SenderGoto, ReceiverGoto, TakeWaker
<1>2. UNCHANGED <<mo, payload, freed, rpc, rarg, rheld, rcur, rresult, armed, woken, answer,
                  clones>>
  BY DEF TakeWakerToDrop, receiverVars, senderVars, TakeWaker
<1>3. state' = state
  BY <1>2 DEF state
<1>4. ControlTypeOK'
  BY <1>1, <1>2 DEF ControlInv, ControlTypeOK, SenderPcs
<1>5. WordInv'
  BY <1>1, <1>2, <1>3 DEF ControlInv, WordInv, Locking, Untouched
<1>6. HistoryInv'
  BY <1>2 DEF ControlInv, HistoryInv
<1>7. SawInv'
  BY <1>2 DEF ControlInv, SawInv, Unread
<1>8. AwaiterInv'
  BY <1>1, <1>2, <1>3, Values DEF ControlInv, AwaiterInv, Own, Holding, Unread, WordInv, Locking
<1>9. WakersInv'
  BY <1>1, <1>2 DEF ControlInv, WakersInv, Held
<1>10. PayloadInv'
  BY <1>1, <1>2 DEF ControlInv, PayloadInv
<1>11. ResultInv'
  BY <1>1, <1>2 DEF ControlInv, ResultInv
<1> QED
  BY <1>4, <1>5, <1>6, <1>7, <1>8, <1>9, <1>10, <1>11 DEF ControlInv

\* The signalling sender ends its critical section with SET.
LEMMA StoreSetStep ==
    ASSUME ControlInv, StoreSet
    PROVE  ControlInv'
<1>1. spc = "set_store" /\ spc' = "wake" /\ mo' = Append(mo, EVENT_SET)
  BY DEF StoreSet, SenderGoto, ReceiverGoto
<1>2. UNCHANGED <<awaiter, payload, freed, swaker, rpc, rarg, rheld, rcur, rresult, armed, woken,
                  answer, clones>>
  BY DEF StoreSet, receiverVars, senderVars
<1>3. Len(mo) \in 1..2
  BY <1>1, Latest DEF ControlInv, WordInv, Untouched, Locking
<1>4. /\ mo' \in Seq(0..5) /\ Len(mo') = Len(mo) + 1 /\ Len(mo') \in 1..3
      /\ DOMAIN mo' = 1..(Len(mo) + 1) /\ \A i \in 1..Len(mo) : mo'[i] = mo[i]
      /\ mo'[Len(mo) + 1] = EVENT_SET /\ state' = EVENT_SET
  BY <1>1, <1>3, Storing, Values DEF ControlInv
<1>5. ControlTypeOK'
  BY <1>1, <1>2, <1>4 DEF ControlInv, ControlTypeOK, SenderPcs
<1>6. WordInv'
  BY <1>1, <1>2, <1>4 DEF ControlInv, WordInv, Locking, Untouched
<1>7. HistoryInv'
  BY <1>1, Latest, Values DEF ControlInv, HistoryInv, WordInv, Locking
<1>8. SawInv'
  BY <1>1, <1>2, Latest, Values DEF ControlInv, SawInv, Unread
<1>9. AwaiterInv'
  BY <1>1, <1>2, <1>4, Values DEF ControlInv, AwaiterInv, Unread, WordInv, Locking
<1>10. WakersInv'
  BY <1>1, <1>2 DEF ControlInv, WakersInv
<1>11. PayloadInv'
  BY <1>1, <1>2, <1>4, Latest, Values DEF ControlInv, PayloadInv, WordInv, Over, Locking, SawInv,
       HistoryInv
<1>12. ResultInv'
  BY <1>1, <1>2 DEF ControlInv, ResultInv, WordInv, Locking
<1> QED
  BY <1>5, <1>6, <1>7, <1>8, <1>9, <1>10, <1>11, <1>12 DEF ControlInv

\* The sender wakes the waker it took out; this consumes the clone.
LEMMA WakeStep ==
    ASSUME ControlInv, Wake
    PROVE  ControlInv'
<1>1. /\ spc = "wake" /\ spc' = "done" /\ woken' = woken \cup ({swaker} \ {NoWaker})
      /\ swaker' = NoWaker /\ clones' = clones - 1
  BY DEF Wake, SenderGoto, ReceiverGoto
<1>2. UNCHANGED <<mo, awaiter, payload, freed, rpc, rarg, rheld, rcur, rresult, armed, answer>>
  BY DEF Wake, receiverVars, senderVars
<1>3. state' = state
  BY <1>2 DEF state
<1>4. ControlTypeOK'
  BY <1>1, <1>2 DEF ControlInv, ControlTypeOK, SenderPcs, WakersInv, Held
<1>5. WordInv'
  BY <1>1, <1>2, <1>3 DEF ControlInv, WordInv, Locking, Untouched
<1>6. HistoryInv'
  BY <1>2 DEF ControlInv, HistoryInv
<1>7. SawInv'
  BY <1>2 DEF ControlInv, SawInv, Unread
<1>8. AwaiterInv'
  BY <1>1, <1>2, <1>3 DEF ControlInv, AwaiterInv, Own
<1>9. WakersInv'
  BY <1>1, <1>2 DEF ControlInv, WakersInv, Held
<1>10. PayloadInv'
  BY <1>1, <1>2, <1>3 DEF ControlInv, PayloadInv, WordInv
<1>11. ResultInv'
  BY <1>1, <1>2 DEF ControlInv, ResultInv
<1> QED
  BY <1>4, <1>5, <1>6, <1>7, <1>8, <1>9, <1>10, <1>11 DEF ControlInv

\* A sender that met DISCONNECTED takes its own value back out of the cell.
LEMMA ReclaimStep ==
    ASSUME ControlInv, Reclaim
    PROVE  ControlInv'
<1>1. spc = "reclaim" /\ spc' = "release_set" /\ payload' = "snd"
  BY DEF Reclaim, SenderGoto, ReceiverGoto
<1>2. UNCHANGED <<mo, awaiter, freed, swaker, rpc, rarg, rheld, rcur, rresult, armed, woken,
                  answer, clones>>
  BY DEF Reclaim, receiverVars, senderVars
<1>3. state' = state
  BY <1>2 DEF state
<1>4. ControlTypeOK'
  BY <1>1, <1>2 DEF ControlInv, ControlTypeOK, SenderPcs
<1>5. WordInv'
  BY <1>1, <1>2, <1>3 DEF ControlInv, WordInv, Locking, Untouched
<1>6. HistoryInv'
  BY <1>2 DEF ControlInv, HistoryInv
<1>7. SawInv'
  BY <1>2 DEF ControlInv, SawInv, Unread
<1>8. AwaiterInv'
  BY <1>1, <1>2, <1>3 DEF ControlInv, AwaiterInv, WakersInv
<1>9. WakersInv'
  BY <1>1, <1>2 DEF ControlInv, WakersInv
<1>10. PayloadInv'
  BY <1>1 DEF PayloadInv
<1>11. ResultInv'
  BY <1>1, <1>2 DEF ControlInv, ResultInv
<1> QED
  BY <1>4, <1>5, <1>6, <1>7, <1>8, <1>9, <1>10, <1>11 DEF ControlInv

\* The sender releases the storage: the receiver has disconnected before it.
LEMMA SenderReleaseStep ==
    ASSUME ControlInv, SenderRelease
    PROVE  ControlInv'
<1>1. /\ freed' = TRUE
      /\ \/ spc = "release_set" /\ spc' = "drop_value"
         \/ spc = "release_drop" /\ spc' = "done"
  BY DEF SenderRelease, SenderGoto, ReceiverGoto
<1>2. UNCHANGED <<mo, awaiter, payload, swaker, rpc, rarg, rheld, rcur, rresult, armed, woken,
                  answer, clones>>
  BY DEF SenderRelease, receiverVars, senderVars
<1>3. state' = state
  BY <1>2 DEF state
<1>4. ControlTypeOK'
  BY <1>1, <1>2 DEF ControlInv, ControlTypeOK, SenderPcs
<1>5. WordInv'
  BY <1>1, <1>2, <1>3 DEF ControlInv, WordInv, Locking, Untouched
<1>6. HistoryInv'
  BY <1>2 DEF ControlInv, HistoryInv
<1>7. SawInv'
  BY <1>2 DEF ControlInv, SawInv, Unread
<1>8. AwaiterInv'
  BY <1>1, <1>2, <1>3 DEF ControlInv, AwaiterInv, WakersInv
<1>9. WakersInv'
  BY <1>1, <1>2 DEF ControlInv, WakersInv
<1>10. PayloadInv'
  BY <1>1, <1>2 DEF ControlInv, PayloadInv, WordInv, Over
<1>11. ResultInv'
  BY <1>1, <1>2 DEF ControlInv, ResultInv, WordInv
<1> QED
  BY <1>4, <1>5, <1>6, <1>7, <1>8, <1>9, <1>10, <1>11 DEF ControlInv

\* The sender drops the value it reclaimed, after the release.
LEMMA DropValueStep ==
    ASSUME ControlInv, DropValue
    PROVE  ControlInv'
<1>1. spc = "drop_value" /\ spc' = "done" /\ payload' = "dropped"
  BY DEF DropValue, SenderGoto, ReceiverGoto
<1>2. UNCHANGED <<mo, awaiter, freed, swaker, rpc, rarg, rheld, rcur, rresult, armed, woken,
                  answer, clones>>
  BY DEF DropValue, receiverVars, senderVars
<1>3. state' = state
  BY <1>2 DEF state
<1>4. ControlTypeOK'
  BY <1>1, <1>2 DEF ControlInv, ControlTypeOK, SenderPcs
<1>5. WordInv'
  BY <1>1, <1>2, <1>3 DEF ControlInv, WordInv, Locking, Untouched
<1>6. HistoryInv'
  BY <1>2 DEF ControlInv, HistoryInv
<1>7. SawInv'
  BY <1>2 DEF ControlInv, SawInv, Unread
<1>8. AwaiterInv'
  BY <1>1, <1>2, <1>3 DEF ControlInv, AwaiterInv, WakersInv
<1>9. WakersInv'
  BY <1>1, <1>2 DEF ControlInv, WakersInv
<1>10. PayloadInv'
  BY <1>1, <1>2 DEF ControlInv, PayloadInv, WordInv, Over
<1>11. ResultInv'
  BY <1>1, <1>2 DEF ControlInv, ResultInv
<1> QED
  BY <1>4, <1>5, <1>6, <1>7, <1>8, <1>9, <1>10, <1>11 DEF ControlInv

\* A sender dropped without a send swaps in SIGNALING and looks at what it replaced.
LEMMA SenderDroppedStep ==
    ASSUME ControlInv, SenderDropped
    PROVE  ControlInv'
<1>1. /\ spc = "idle" /\ mo' = Append(mo, EVENT_SIGNALING)
      /\ spc' = CASE state = EVENT_BOUND        -> "drop_store"
                  [] state = EVENT_AWAITING     -> "drop_take"
                  [] state = EVENT_DISCONNECTED -> "release_drop"
                  [] OTHER                      -> "unreachable"
  BY DEF SenderDropped, SenderGoto, ReceiverGoto
<1>2. UNCHANGED <<awaiter, payload, freed, swaker, rpc, rarg, rheld, rcur, rresult, armed, woken,
                  answer, clones>>
  BY DEF SenderDropped, receiverVars, senderVars
<1>3. Len(mo) \in 1..2
  BY <1>1, Latest DEF ControlInv, WordInv, Untouched, Locking
<1>4. /\ mo' \in Seq(0..5) /\ Len(mo') = Len(mo) + 1 /\ Len(mo') \in 1..3
      /\ DOMAIN mo' = 1..(Len(mo) + 1) /\ \A i \in 1..Len(mo) : mo'[i] = mo[i]
      /\ mo'[Len(mo) + 1] = EVENT_SIGNALING /\ state' = EVENT_SIGNALING
  BY <1>1, <1>3, Storing, Values DEF ControlInv
<1>5. ControlTypeOK'
  BY <1>1, <1>2, <1>4 DEF ControlInv, ControlTypeOK, SenderPcs
<1>6. WordInv'
  BY <1>1, <1>2, <1>4, Latest, Values DEF ControlInv, WordInv, Locking, Untouched
<1>7. HistoryInv'
  BY <1>1, <1>2, Latest, Values DEF ControlInv, HistoryInv, WordInv, Untouched
<1>8. SawInv'
  BY <1>1, <1>2, Latest, Values DEF ControlInv, SawInv, Unread
<1>9. AwaiterInv'
  BY <1>1, <1>2, <1>4, Latest, Values DEF ControlInv, AwaiterInv, Own, Holding, Unread, SawInv,
       HistoryInv, WordInv
<1>10. WakersInv'
  BY <1>1, <1>2 DEF ControlInv, WakersInv
<1>11. PayloadInv'
  BY <1>1, <1>2 DEF ControlInv, PayloadInv
<1>12. ResultInv'
  BY <1>1, <1>2 DEF ControlInv, ResultInv
<1> QED
  BY <1>5, <1>6, <1>7, <1>8, <1>9, <1>10, <1>11, <1>12 DEF ControlInv

\* A dropped sender ends its critical section with DISCONNECTED.
LEMMA StoreDisconnectedStep ==
    ASSUME ControlInv, StoreDisconnected
    PROVE  ControlInv'
<1>1. /\ spc = "drop_store" /\ mo' = Append(mo, EVENT_DISCONNECTED)
      /\ spc' = IF swaker = NoWaker THEN "done" ELSE "wake"
  BY DEF StoreDisconnected, SenderGoto, ReceiverGoto
<1>2. UNCHANGED <<awaiter, payload, freed, swaker, rpc, rarg, rheld, rcur, rresult, armed, woken,
                  answer, clones>>
  BY DEF StoreDisconnected, receiverVars, senderVars
<1>3. Len(mo) \in 1..2
  BY <1>1, Latest DEF ControlInv, WordInv, Untouched, Locking
<1>4. /\ mo' \in Seq(0..5) /\ Len(mo') = Len(mo) + 1 /\ Len(mo') \in 1..3
      /\ DOMAIN mo' = 1..(Len(mo) + 1) /\ \A i \in 1..Len(mo) : mo'[i] = mo[i]
      /\ mo'[Len(mo) + 1] = EVENT_DISCONNECTED /\ state' = EVENT_DISCONNECTED
  BY <1>1, <1>3, Storing, Values DEF ControlInv
<1>5. ControlTypeOK'
  BY <1>1, <1>2, <1>4 DEF ControlInv, ControlTypeOK, SenderPcs
<1>6. WordInv'
  BY <1>1, <1>2, <1>4 DEF ControlInv, WordInv, Locking, Untouched
<1>7. HistoryInv'
  BY <1>1, Latest, Values DEF ControlInv, HistoryInv, WordInv, Locking
<1>8. SawInv'
  BY <1>1, <1>2, Latest, Values DEF ControlInv, SawInv, Unread
<1>9. AwaiterInv'
  BY <1>1, <1>2, <1>4, Values DEF ControlInv, AwaiterInv, Unread, WordInv, Locking
<1>10. WakersInv'
  BY <1>1, <1>2 DEF ControlInv, WakersInv
<1>11. PayloadInv'
  BY <1>1, <1>2, <1>4, Latest, Values DEF ControlInv, PayloadInv, WordInv, Locking, SawInv,
       HistoryInv
<1>12. ResultInv'
  BY <1>1, <1>2 DEF ControlInv, ResultInv, WordInv, Locking
<1> QED
  BY <1>5, <1>6, <1>7, <1>8, <1>9, <1>10, <1>11, <1>12 DEF ControlInv

\* poll() writes the waker into the awaiter while the word still says BOUND; a clone
\* that panics leaves the awaiter as it was.
LEMMA WriteAwaiterStep ==
    ASSUME ControlInv, WriteAwaiter
    PROVE  ControlInv'
<1>1. /\ rpc = "bound_write"
      /\ \/ rpc' = "bound_cas" /\ awaiter' = rarg /\ clones' = clones + 1 /\ rresult' = rresult
         \/ rpc' = "idle" /\ rresult' = "none" /\ awaiter' = awaiter /\ clones' = clones
  BY DEF WriteAwaiter, SenderGoto, ReceiverGoto
<1>2. UNCHANGED <<mo, payload, freed, spc, swaker, rarg, rheld, rcur, armed, woken, answer>>
  BY DEF WriteAwaiter, receiverVars, senderVars
<1>3. state' = state
  BY <1>2 DEF state
<1>4. ControlTypeOK'
  BY <1>1, <1>2 DEF ControlInv, ControlTypeOK, ReceiverPcs
<1>5. WordInv'
  BY <1>1, <1>2, <1>3 DEF ControlInv, WordInv, Over
<1>6. HistoryInv'
  BY <1>1, <1>2 DEF ControlInv, HistoryInv, Over
<1>7. SawInv'
  BY <1>1, <1>2 DEF ControlInv, SawInv, Unread, Over
<1>8. AwaiterInv'
  BY <1>1, <1>2, <1>3 DEF ControlInv, AwaiterInv, Own, Holding
<1>9. WakersInv'
  BY <1>1, <1>2, Latest DEF ControlInv, WakersInv, Held, AwaiterInv, Own, Holding, Unread, SawInv
<1>10. PayloadInv'
  BY <1>1, <1>2, <1>3 DEF ControlInv, PayloadInv, WordInv
<1>11. ResultInv'
  BY <1>1, <1>2 DEF ControlInv, ResultInv, Over
<1> QED
  BY <1>4, <1>5, <1>6, <1>7, <1>8, <1>9, <1>10, <1>11 DEF ControlInv

\* poll() lost the race for BOUND: it destroys the awaiter it wrote.
LEMMA UnbindStep ==
    ASSUME ControlInv, Unbind
    PROVE  ControlInv'
<1>1. /\ \/ rpc = "unbind_set" /\ rpc' \in {"poll_set", "idle"}
         \/ rpc = "unbind_signaling" /\ rpc' \in {"signaling", "idle"}
         \/ rpc = "unbind_disconnected" /\ rpc' \in {"release", "idle"}
      /\ rresult' = IF rpc' = "idle" THEN "none" ELSE rresult
      /\ awaiter' = NoWaker /\ clones' = clones - 1
  BY DEF Unbind, SenderGoto, ReceiverGoto, DestroyAwaiter
<1>2. UNCHANGED <<mo, payload, freed, spc, swaker, rarg, rheld, rcur, armed, woken, answer>>
  BY DEF Unbind, receiverVars, senderVars, DestroyAwaiter
<1>3. state' = state
  BY <1>2 DEF state
<1>4. ControlTypeOK'
  BY <1>1, <1>2 DEF ControlInv, ControlTypeOK, ReceiverPcs, WakersInv, Held, AwaiterInv, Holding
<1>5. WordInv'
  BY <1>1, <1>2, <1>3 DEF ControlInv, WordInv, Over
<1>6. HistoryInv'
  BY <1>1, <1>2 DEF ControlInv, HistoryInv, Over
<1>7. SawInv'
  BY <1>1, <1>2 DEF ControlInv, SawInv, Unread, Over
<1>8. AwaiterInv'
  BY <1>1, <1>2, <1>3, Latest, Values DEF ControlInv, AwaiterInv, Own, Holding, Unread, SawInv,
       HistoryInv, Over
<1>9. WakersInv'
  BY <1>1, <1>2 DEF ControlInv, WakersInv, Held, AwaiterInv, Holding
<1>10. PayloadInv'
  BY <1>1, <1>2, <1>3, Latest, Values DEF ControlInv, PayloadInv, Over, SawInv, HistoryInv,
       ResultInv
<1>11. ResultInv'
  BY <1>1, <1>2 DEF ControlInv, ResultInv, Over
<1> QED
  BY <1>4, <1>5, <1>6, <1>7, <1>8, <1>9, <1>10, <1>11 DEF ControlInv

\* A poll() that took the awaiter back drops the old waker.
LEMMA DropOldAwaiterStep ==
    ASSUME ControlInv, DropOldAwaiter
    PROVE  ControlInv'
<1>1. /\ rpc = "awaiting_drop" /\ rpc' \in {"bound_write", "idle"}
      /\ rresult' = IF rpc' = "idle" THEN "none" ELSE rresult
      /\ awaiter' = NoWaker /\ clones' = clones - 1
  BY DEF DropOldAwaiter, SenderGoto, ReceiverGoto, DestroyAwaiter
<1>2. UNCHANGED <<mo, payload, freed, spc, swaker, rarg, rheld, rcur, armed, woken, answer>>
  BY DEF DropOldAwaiter, receiverVars, senderVars, DestroyAwaiter
<1>3. state' = state
  BY <1>2 DEF state
<1>4. ControlTypeOK'
  BY <1>1, <1>2 DEF ControlInv, ControlTypeOK, ReceiverPcs, WakersInv, Held, AwaiterInv, Holding
<1>5. WordInv'
  BY <1>1, <1>2, <1>3 DEF ControlInv, WordInv, Over
<1>6. HistoryInv'
  BY <1>1, <1>2 DEF ControlInv, HistoryInv, Over
<1>7. SawInv'
  BY <1>1, <1>2 DEF ControlInv, SawInv, Unread, Over
<1>8. AwaiterInv'
  BY <1>1, <1>2, <1>3, Latest DEF ControlInv, AwaiterInv, Own, Holding, Unread, SawInv
<1>9. WakersInv'
  BY <1>1, <1>2 DEF ControlInv, WakersInv, Held, AwaiterInv, Holding
<1>10. PayloadInv'
  BY <1>1, <1>2, <1>3 DEF ControlInv, PayloadInv, WordInv
<1>11. ResultInv'
  BY <1>1, <1>2 DEF ControlInv, ResultInv, Over
<1> QED
  BY <1>4, <1>5, <1>6, <1>7, <1>8, <1>9, <1>10, <1>11 DEF ControlInv

\* poll() moves the value out of the cell.
LEMMA TakeValueStep ==
    ASSUME ControlInv, TakeValue
    PROVE  ControlInv'
<1>1. rpc = "poll_set" /\ rpc' = "release" /\ payload' = "rcv" /\ rresult' = "value"
  BY DEF TakeValue, SenderGoto, ReceiverGoto
<1>2. UNCHANGED <<mo, awaiter, freed, spc, swaker, rarg, rheld, rcur, armed, woken, answer, clones>>
  BY DEF TakeValue, receiverVars, senderVars
<1>3. state' = state
  BY <1>2 DEF state
<1>4. ControlTypeOK'
  BY <1>1, <1>2 DEF ControlInv, ControlTypeOK, ReceiverPcs
<1>5. WordInv'
  BY <1>1, <1>2, <1>3 DEF ControlInv, WordInv, Over
<1>6. HistoryInv'
  BY <1>1, <1>2 DEF ControlInv, HistoryInv, Over
<1>7. SawInv'
  BY <1>1, <1>2 DEF ControlInv, SawInv
<1>8. AwaiterInv'
  BY <1>1, <1>2, <1>3 DEF ControlInv, AwaiterInv, Own, Holding, Unread
<1>9. WakersInv'
  BY <1>1, <1>2 DEF ControlInv, WakersInv
<1>10. PayloadInv'
  BY <1>1, <1>2, Latest, Values DEF ControlInv, PayloadInv, WordInv, Untouched, Locking, SawInv,
       HistoryInv, ResultInv
<1>11. ResultInv'
  BY <1>1, <1>2 DEF ControlInv, ResultInv, Over
<1> QED
  BY <1>4, <1>5, <1>6, <1>7, <1>8, <1>9, <1>10, <1>11 DEF ControlInv

\* The receiver releases the storage and hands the value to its caller.
LEMMA ReceiverReleaseStep ==
    ASSUME ControlInv, ReceiverRelease
    PROVE  ControlInv'
<1>1. /\ rpc = "release" /\ rpc' = "done" /\ freed' = TRUE
      /\ payload' = IF rresult = "value" THEN "delivered" ELSE payload
  BY DEF ReceiverRelease, SenderGoto, ReceiverGoto
<1>2. UNCHANGED <<mo, awaiter, spc, swaker, rarg, rheld, rcur, rresult, armed, woken, answer,
                  clones>>
  BY DEF ReceiverRelease, receiverVars, senderVars
<1>3. state' = state
  BY <1>2 DEF state
<1>4. ControlTypeOK'
  BY <1>1, <1>2 DEF ControlInv, ControlTypeOK, ReceiverPcs
<1>5. WordInv'
  BY <1>1, <1>2, <1>3, Latest, Values DEF ControlInv, WordInv, Over, HistoryInv, SawInv
<1>6. HistoryInv'
  BY <1>1 DEF HistoryInv, Over
<1>7. SawInv'
  BY <1>1 DEF SawInv, Over
<1>8. AwaiterInv'
  BY <1>1, <1>2, <1>3 DEF ControlInv, AwaiterInv, Own, Holding, Unread
<1>9. WakersInv'
  BY <1>1, <1>2 DEF ControlInv, WakersInv
<1>10. PayloadInv'
  BY <1>1, <1>2, Latest, Values DEF ControlInv, PayloadInv, WordInv, Untouched, Locking, SawInv,
       HistoryInv, ResultInv
<1>11. ResultInv'
  <2>1. spc \in {"wake", "done"}
    <3>1. rpc \notin Over /\ mo[1] \in {EVENT_SET, EVENT_DISCONNECTED} /\ 1 \in DOMAIN mo
      BY <1>1, Latest DEF ControlInv, SawInv, Over
    <3> QED
      BY <3>1, Terminal
  <2>2. rpc' \in Over => freed' /\ spc' \in {"wake", "done"}
    BY <1>1, <1>2, <2>1
  <2>3. rpc' \in Over
    BY <1>1 DEF Over
  <2> QED
    BY <1>1, <1>2, <2>1, <2>2, <2>3 DEF ControlInv, ResultInv
<1> QED
  BY <1>4, <1>5, <1>6, <1>7, <1>8, <1>9, <1>10, <1>11 DEF ControlInv

\* Dropping the receiver starts the cancellation.
LEMMA BeginCancelStep ==
    ASSUME ControlInv, BeginCancel
    PROVE  ControlInv'
<1>1. rpc = "idle" /\ rpc' = "cancel_cas" /\ rresult' = "cancelled" /\ armed' = NoWaker
  BY DEF BeginCancel, SenderGoto, ReceiverGoto
<1>2. UNCHANGED <<mo, awaiter, payload, freed, spc, swaker, rarg, rheld, rcur, woken, answer,
                  clones>>
  BY DEF BeginCancel, receiverVars, senderVars
<1>3. state' = state
  BY <1>2 DEF state
<1>4. ControlTypeOK'
  BY <1>1, <1>2 DEF ControlInv, ControlTypeOK, ReceiverPcs
<1>5. WordInv'
  BY <1>1, <1>2, <1>3 DEF ControlInv, WordInv, Over
<1>6. HistoryInv'
  BY <1>1, <1>2 DEF ControlInv, HistoryInv, Over
<1>7. SawInv'
  BY <1>1 DEF SawInv
<1>8. AwaiterInv'
  BY <1>1, <1>2, <1>3 DEF ControlInv, AwaiterInv, Own, Holding, Unread
<1>9. WakersInv'
  BY <1>1, <1>2 DEF ControlInv, WakersInv
<1>10. PayloadInv'
  BY <1>1, <1>2, <1>3 DEF ControlInv, PayloadInv, WordInv
<1>11. ResultInv'
  BY <1>1, <1>2 DEF ControlInv, ResultInv, Over
<1> QED
  BY <1>4, <1>5, <1>6, <1>7, <1>8, <1>9, <1>10, <1>11 DEF ControlInv

\* A cancelled receiver that took the word back moves its waker out of the awaiter.
LEMMA CancelTakeAwaiterStep ==
    ASSUME ControlInv, CancelTakeAwaiter
    PROVE  ControlInv'
<1>1. rpc = "cancel_awaiter" /\ rpc' = "cancel_load" /\ rheld' = awaiter /\ awaiter' = NoWaker
  BY DEF CancelTakeAwaiter, SenderGoto, ReceiverGoto
<1>2. UNCHANGED <<mo, payload, freed, spc, swaker, rarg, rcur, rresult, armed, woken, answer,
                  clones>>
  BY DEF CancelTakeAwaiter, receiverVars, senderVars
<1>3. state' = state
  BY <1>2 DEF state
<1>4. ControlTypeOK'
  BY <1>1, <1>2 DEF ControlInv, ControlTypeOK, ReceiverPcs
<1>5. WordInv'
  BY <1>1, <1>2, <1>3 DEF ControlInv, WordInv, Over
<1>6. HistoryInv'
  BY <1>1, <1>2 DEF ControlInv, HistoryInv, Over
<1>7. SawInv'
  BY <1>1, <1>2 DEF ControlInv, SawInv, Unread
<1>8. AwaiterInv'
  BY <1>1, <1>2, <1>3, Latest DEF ControlInv, AwaiterInv, Own, Holding, Unread, SawInv
<1>9. WakersInv'
  BY <1>1, <1>2 DEF ControlInv, WakersInv, Held
<1>10. PayloadInv'
  BY <1>1, <1>2, <1>3 DEF ControlInv, PayloadInv, WordInv
<1>11. ResultInv'
  BY <1>1, <1>2 DEF ControlInv, ResultInv, Over
<1> QED
  BY <1>4, <1>5, <1>6, <1>7, <1>8, <1>9, <1>10, <1>11 DEF ControlInv

\* A cancelled receiver that found SET moves the value out to drop it.
LEMMA CancelTakeValueStep ==
    ASSUME ControlInv, CancelTakeValue
    PROVE  ControlInv'
<1>1. rpc = "cancel_value" /\ rpc' = "cancel_release" /\ payload' = "rcv"
  BY DEF CancelTakeValue, SenderGoto, ReceiverGoto
<1>2. UNCHANGED <<mo, awaiter, freed, spc, swaker, rarg, rheld, rcur, rresult, armed, woken,
                  answer, clones>>
  BY DEF CancelTakeValue, receiverVars, senderVars
<1>3. state' = state
  BY <1>2 DEF state
<1>4. ControlTypeOK'
  BY <1>1, <1>2 DEF ControlInv, ControlTypeOK, ReceiverPcs
<1>5. WordInv'
  BY <1>1, <1>2, <1>3 DEF ControlInv, WordInv, Over
<1>6. HistoryInv'
  BY <1>1, <1>2 DEF ControlInv, HistoryInv, Over
<1>7. SawInv'
  BY <1>1, <1>2 DEF ControlInv, SawInv
<1>8. AwaiterInv'
  BY <1>1, <1>2, <1>3 DEF ControlInv, AwaiterInv, Own, Holding, Unread
<1>9. WakersInv'
  BY <1>1, <1>2 DEF ControlInv, WakersInv
<1>10. PayloadInv'
  BY <1>1, <1>2, Latest, Values DEF ControlInv, PayloadInv, WordInv, Over, Untouched, Locking,
       SawInv, HistoryInv
<1>11. ResultInv'
  BY <1>1, <1>2 DEF ControlInv, ResultInv, Over
<1> QED
  BY <1>4, <1>5, <1>6, <1>7, <1>8, <1>9, <1>10, <1>11 DEF ControlInv

\* A cancelled receiver that met SET or DISCONNECTED releases the storage.
LEMMA CancelReleaseStep ==
    ASSUME ControlInv, CancelRelease
    PROVE  ControlInv'
<1>1. rpc = "cancel_release" /\ rpc' = "cancel_drop" /\ freed' = TRUE
  BY DEF CancelRelease, SenderGoto, ReceiverGoto
<1>2. UNCHANGED <<mo, awaiter, payload, spc, swaker, rarg, rheld, rcur, rresult, armed, woken,
                  answer, clones>>
  BY DEF CancelRelease, receiverVars, senderVars
<1>3. state' = state
  BY <1>2 DEF state
<1>4. ControlTypeOK'
  BY <1>1, <1>2 DEF ControlInv, ControlTypeOK, ReceiverPcs
<1>5. WordInv'
  BY <1>1, <1>2, <1>3, Latest, Values DEF ControlInv, WordInv, Over, HistoryInv, SawInv
<1>6. HistoryInv'
  BY <1>1 DEF HistoryInv, Over
<1>7. SawInv'
  BY <1>1 DEF SawInv, Over
<1>8. AwaiterInv'
  BY <1>1, <1>2, <1>3 DEF ControlInv, AwaiterInv, Own, Holding, Unread
<1>9. WakersInv'
  BY <1>1, <1>2 DEF ControlInv, WakersInv
<1>10. PayloadInv'
  BY <1>1, <1>2 DEF ControlInv, PayloadInv
<1>11. ResultInv'
  <2>1. spc \in {"wake", "done"}
    <3>1. rpc \notin Over /\ mo[1] \in {EVENT_SET, EVENT_DISCONNECTED} /\ 1 \in DOMAIN mo
      BY <1>1, Latest DEF ControlInv, SawInv, Over
    <3> QED
      BY <3>1, Terminal
  <2>2. rpc' \in Over => freed' /\ spc' \in {"wake", "done"}
    BY <1>1, <1>2, <2>1
  <2>3. rpc' \in Over
    BY <1>1 DEF Over
  <2> QED
    BY <1>1, <1>2, <2>1, <2>2, <2>3 DEF ControlInv, ResultInv
<1> QED
  BY <1>4, <1>5, <1>6, <1>7, <1>8, <1>9, <1>10, <1>11 DEF ControlInv

\* A cancelled receiver drops what it still holds, value and waker, at the very end.
LEMMA CancelDropStep ==
    ASSUME ControlInv, CancelDrop
    PROVE  ControlInv'
<1>1. /\ rpc = "cancel_drop" /\ rpc' = "done" /\ rheld' = NoWaker
      /\ payload' = IF payload = "rcv" THEN "dropped" ELSE payload
      /\ clones' = IF rheld = NoWaker THEN clones ELSE clones - 1
  BY DEF CancelDrop, SenderGoto, ReceiverGoto
<1>2. UNCHANGED <<mo, awaiter, freed, spc, swaker, rarg, rcur, rresult, armed, woken, answer>>
  BY DEF CancelDrop, receiverVars, senderVars
<1>3. state' = state
  BY <1>2 DEF state
<1>4. ControlTypeOK'
  BY <1>1, <1>2 DEF ControlInv, ControlTypeOK, ReceiverPcs, WakersInv, Held
<1>5. WordInv'
  BY <1>1, <1>2, <1>3 DEF ControlInv, WordInv, Over
<1>6. HistoryInv'
  BY <1>1 DEF HistoryInv, Over
<1>7. SawInv'
  BY <1>1 DEF SawInv, Over
<1>8. AwaiterInv'
  BY <1>1, <1>2, <1>3 DEF ControlInv, AwaiterInv, Own, Holding, Unread
<1>9. WakersInv'
  BY <1>1, <1>2 DEF ControlInv, WakersInv, Held
<1>10. PayloadInv'
  BY <1>1, <1>2 DEF ControlInv, PayloadInv
<1>11. ResultInv'
  BY <1>1, <1>2 DEF ControlInv, ResultInv, Over
<1> QED
  BY <1>4, <1>5, <1>6, <1>7, <1>8, <1>9, <1>10, <1>11 DEF ControlInv

\* What a load of the i-th readable value leaves behind.
Loaded(i) ==
    /\ mo' \in Seq(0..5) /\ Len(mo') \in 1..3 /\ mo'[1] = mo[i] /\ state' = state
    /\ mo[i] \in 0..4
    /\ mo[i] \in {EVENT_SET, EVENT_DISCONNECTED} => state = mo[i] /\ spc \in {"wake", "done"}
    /\ mo[1] \in {EVENT_SET, EVENT_DISCONNECTED} => mo[i] = mo[1]
    /\ Unread({EVENT_BOUND}) => mo[i] # EVENT_BOUND
    /\ Unread({EVENT_AWAITING}) => mo[i] # EVENT_AWAITING
    /\ Unread({EVENT_BOUND, EVENT_AWAITING}) => mo[i] \notin {EVENT_BOUND, EVENT_AWAITING}
    /\ mo[i] # EVENT_BOUND => Unread({EVENT_BOUND})'
    /\ mo[i] # EVENT_AWAITING => Unread({EVENT_AWAITING})'
    /\ mo[i] \notin {EVENT_BOUND, EVENT_AWAITING} => Unread({EVENT_BOUND, EVENT_AWAITING})'
    /\ WordInv' /\ HistoryInv' /\ freed = FALSE /\ freed' = FALSE

\* Whatever load it is, while the receiver has not left.
LEMMA Loads ==
    ASSUME ControlInv, rpc \notin Over, rpc' \notin Over, NEW i \in DOMAIN mo,
           mo' = SubSeq(mo, i, Len(mo)), spc' = spc, freed' = freed
    PROVE  Loaded(i)
<1>1. /\ i \in 1..Len(mo) /\ Len(mo) \in 1..3 /\ DOMAIN mo = 1..Len(mo)
      /\ WordInv /\ HistoryInv /\ freed = FALSE
  BY Latest DEF ControlInv, ControlTypeOK, ResultInv
<1>2. /\ mo' \in Seq(0..5) /\ Len(mo') = Len(mo) - i + 1 /\ Len(mo') \in 1..3
      /\ DOMAIN mo' = 1..(Len(mo) - i + 1)
      /\ \A j \in 1..(Len(mo) - i + 1) : mo'[j] = mo[i + j - 1]
      /\ mo'[1] = mo[i] /\ state' = state
  BY Reading DEF ControlInv
<1>3. /\ mo[i] \in 0..4
      /\ mo[i] \in {EVENT_SET, EVENT_DISCONNECTED} => state = mo[i] /\ spc \in {"wake", "done"}
  BY Readable
<1>4. WordInv'
  <2>1. Len(mo') \in 1..Len(mo)
    BY <1>1, <1>2
  <2> QED
    BY <1>1, <1>2, <2>1 DEF WordInv
<1>5. HistoryInv'
  BY <1>1, <1>2 DEF HistoryInv
<1>6. mo[1] \in {EVENT_SET, EVENT_DISCONNECTED} => mo[i] = mo[1]
  <2>1. mo[1] \in {EVENT_SET, EVENT_DISCONNECTED} => Len(mo) = 1
    BY <1>1 DEF HistoryInv
  <2>2. Len(mo) = 1 => i = 1
    BY <1>1
  <2> QED
    BY <2>1, <2>2
<1>7. /\ Unread({EVENT_BOUND}) => mo[i] # EVENT_BOUND
      /\ Unread({EVENT_AWAITING}) => mo[i] # EVENT_AWAITING
      /\ Unread({EVENT_BOUND, EVENT_AWAITING}) => mo[i] \notin {EVENT_BOUND, EVENT_AWAITING}
  BY DEF Unread
<1>8. /\ mo[i] # EVENT_BOUND => Unread({EVENT_BOUND})'
      /\ mo[i] # EVENT_AWAITING => Unread({EVENT_AWAITING})'
      /\ mo[i] \notin {EVENT_BOUND, EVENT_AWAITING} => Unread({EVENT_BOUND, EVENT_AWAITING})'
  BY <1>2, <1>5, Values DEF HistoryInv, Unread
<1> QED
  BY <1>1, <1>2, <1>3, <1>4, <1>5, <1>6, <1>7, <1>8 DEF Loaded

\* The load in the loop of the cancellation.
LEMMA CancelLoadReads ==
    ASSUME ControlInv, rpc = "cancel_load", NEW i \in DOMAIN mo, mo' = SubSeq(mo, i, Len(mo)),
           \/ mo[i] = EVENT_SIGNALING /\ rpc' = rpc /\ rcur' = rcur
           \/ mo[i] # EVENT_SIGNALING /\ rpc' = "cancel_swap" /\ rcur' = mo[i],
           UNCHANGED <<awaiter, payload, freed, spc, swaker, rarg, rheld, rresult, armed, woken,
                       answer, clones>>
    PROVE  ControlInv'
<1>1. rpc \notin Over /\ rpc' \notin Over
  BY DEF Over
<1>2. Loaded(i)
  BY <1>1, Loads
<1>3. mo' \in Seq(0..5) /\ Len(mo') \in 1..3 /\ mo[i] \in 0..4 /\ freed' \in BOOLEAN
  BY <1>2 DEF Loaded
<1>4. ControlTypeOK'
  <2>1. ControlTypeOK /\ rpc' \in ReceiverPcs
    BY DEF ControlInv, ControlTypeOK, ReceiverPcs
  <2>2. mo[i] \in 0..5 /\ rcur \in 0..5
    BY <1>3, <2>1 DEF ControlTypeOK
  <2>3. rcur' \in 0..5
    BY <2>2
  <2> QED
    BY <1>3, <2>1, <2>3 DEF ControlTypeOK
<1>5. SawInv'
  <2>1. /\ mo'[1] = mo[i]
        /\ mo[1] \in {EVENT_SET, EVENT_DISCONNECTED} => mo[i] = mo[1]
        /\ Unread({EVENT_BOUND}) => mo[i] # EVENT_BOUND
        /\ Unread({EVENT_AWAITING}) => mo[i] # EVENT_AWAITING
        /\ Unread({EVENT_BOUND, EVENT_AWAITING}) => mo[i] \notin {EVENT_BOUND, EVENT_AWAITING}
        /\ mo[i] # EVENT_BOUND => Unread({EVENT_BOUND})'
        /\ mo[i] # EVENT_AWAITING => Unread({EVENT_AWAITING})'
        /\ mo[i] \notin {EVENT_BOUND, EVENT_AWAITING} => Unread({EVENT_BOUND, EVENT_AWAITING})'
    BY <1>2 DEF Loaded
  <2>2. SawInv /\ mo[i] \in 0..4
    BY <1>3 DEF ControlInv
  <2> QED
    BY <1>1, <2>1, <2>2, Values DEF SawInv, Over
<1>6. PayloadInv'
  <2>1. /\ state' = state
        /\ mo[i] \in {EVENT_SET, EVENT_DISCONNECTED} => state = mo[i] /\ spc \in {"wake", "done"}
    BY <1>2 DEF Loaded
  <2>2. PayloadInv /\ ResultInv /\ SawInv
    BY DEF ControlInv
  <2> QED
    BY <1>1, <2>1, <2>2, Values DEF PayloadInv, ResultInv, SawInv, Over
<1>7. AwaiterInv'
  BY <1>1, <1>2, Values DEF ControlInv, Loaded, AwaiterInv, Own, Holding, WordInv, SawInv, Over
<1>8. WakersInv'
  BY DEF ControlInv, WakersInv
<1>9. ResultInv'
  BY DEF ControlInv, ResultInv, Over
<1> QED
  BY <1>2, <1>4, <1>5, <1>6, <1>7, <1>8, <1>9 DEF ControlInv, Loaded

\* The load a poll() starts with.
LEMMA PollReads ==
    ASSUME ControlInv, rpc = "idle", NEW w \in Wakers, NEW i \in DOMAIN mo,
           mo' = SubSeq(mo, i, Len(mo)),
           /\ \/ mo[i] = EVENT_BOUND /\ rpc' = "bound_write"
              \/ mo[i] = EVENT_SET /\ rpc' = "poll_set"
              \/ mo[i] = EVENT_AWAITING /\ rpc' = "awaiting_cas"
              \/ mo[i] = EVENT_SIGNALING /\ rpc' = "signaling"
              \/ mo[i] = EVENT_DISCONNECTED /\ rpc' = "release"
           /\ rarg' = w /\ rresult' = "disconnected" /\ armed' = NoWaker /\ woken' = woken \ {w},
           UNCHANGED <<awaiter, payload, freed, spc, swaker, rheld, rcur, answer, clones>>
    PROVE  ControlInv'
<1>1. rpc \notin Over /\ rpc' \notin Over
  BY DEF Over
<1>2. Loaded(i)
  BY <1>1, Loads
<1>3. mo' \in Seq(0..5) /\ Len(mo') \in 1..3 /\ mo[i] \in 0..4 /\ freed' \in BOOLEAN
  BY <1>2 DEF Loaded
<1>4. ControlTypeOK'
  <2>1. ControlTypeOK /\ rpc' \in ReceiverPcs
    BY DEF ControlInv, ControlTypeOK, ReceiverPcs
  <2> QED
    BY <1>3, <2>1 DEF ControlTypeOK
<1>5. SawInv'
  <2>1. /\ mo'[1] = mo[i]
        /\ mo[1] \in {EVENT_SET, EVENT_DISCONNECTED} => mo[i] = mo[1]
        /\ Unread({EVENT_BOUND}) => mo[i] # EVENT_BOUND
        /\ Unread({EVENT_AWAITING}) => mo[i] # EVENT_AWAITING
        /\ Unread({EVENT_BOUND, EVENT_AWAITING}) => mo[i] \notin {EVENT_BOUND, EVENT_AWAITING}
        /\ mo[i] # EVENT_BOUND => Unread({EVENT_BOUND})'
        /\ mo[i] # EVENT_AWAITING => Unread({EVENT_AWAITING})'
        /\ mo[i] \notin {EVENT_BOUND, EVENT_AWAITING} => Unread({EVENT_BOUND, EVENT_AWAITING})'
    BY <1>2 DEF Loaded
  <2>2. SawInv /\ mo[i] \in 0..4
    BY <1>3 DEF ControlInv
  <2> QED
    BY <1>1, <2>1, <2>2, Values DEF SawInv, Over
<1>6. PayloadInv'
  <2>1. /\ state' = state
        /\ mo[i] \in {EVENT_SET, EVENT_DISCONNECTED} => state = mo[i] /\ spc \in {"wake", "done"}
    BY <1>2 DEF Loaded
  <2>2. PayloadInv /\ ResultInv /\ SawInv
    BY DEF ControlInv
  <2> QED
    BY <1>1, <2>1, <2>2, Values DEF PayloadInv, ResultInv, SawInv, Over
<1>7. AwaiterInv'
  BY <1>1, <1>2, Values DEF ControlInv, Loaded, AwaiterInv, Own, Holding, WordInv, SawInv, Over
<1>8. WakersInv'
  BY DEF ControlInv, WakersInv
<1>9. ResultInv'
  BY DEF ControlInv, ResultInv, Over
<1> QED
  BY <1>2, <1>4, <1>5, <1>6, <1>7, <1>8, <1>9 DEF ControlInv, Loaded

\* The failed compare_exchange of BOUND by AWAITING.
LEMMA BoundCasReads ==
    ASSUME ControlInv, rpc = "bound_cas", NEW i \in DOMAIN mo, mo' = SubSeq(mo, i, Len(mo)),
           \/ mo[i] = EVENT_SET /\ rpc' = "unbind_set"
           \/ mo[i] = EVENT_SIGNALING /\ rpc' = "unbind_signaling"
           \/ mo[i] = EVENT_DISCONNECTED /\ rpc' = "unbind_disconnected",
           UNCHANGED <<awaiter, payload, freed, spc, swaker, rarg, rheld, rcur, rresult, armed,
                       woken, answer, clones>>
    PROVE  ControlInv'
<1>1. rpc \notin Over /\ rpc' \notin Over
  BY DEF Over
<1>2. Loaded(i)
  BY <1>1, Loads
<1>3. mo' \in Seq(0..5) /\ Len(mo') \in 1..3 /\ mo[i] \in 0..4 /\ freed' \in BOOLEAN
  BY <1>2 DEF Loaded
<1>4. ControlTypeOK'
  <2>1. ControlTypeOK /\ rpc' \in ReceiverPcs
    BY DEF ControlInv, ControlTypeOK, ReceiverPcs
  <2> QED
    BY <1>3, <2>1 DEF ControlTypeOK
<1>5. SawInv'
  <2>1. /\ mo'[1] = mo[i]
        /\ mo[1] \in {EVENT_SET, EVENT_DISCONNECTED} => mo[i] = mo[1]
        /\ Unread({EVENT_BOUND}) => mo[i] # EVENT_BOUND
        /\ Unread({EVENT_AWAITING}) => mo[i] # EVENT_AWAITING
        /\ Unread({EVENT_BOUND, EVENT_AWAITING}) => mo[i] \notin {EVENT_BOUND, EVENT_AWAITING}
        /\ mo[i] # EVENT_BOUND => Unread({EVENT_BOUND})'
        /\ mo[i] # EVENT_AWAITING => Unread({EVENT_AWAITING})'
        /\ mo[i] \notin {EVENT_BOUND, EVENT_AWAITING} => Unread({EVENT_BOUND, EVENT_AWAITING})'
    BY <1>2 DEF Loaded
  <2>2. SawInv /\ mo[i] \in 0..4
    BY <1>3 DEF ControlInv
  <2> QED
    BY <1>1, <2>1, <2>2, Values DEF SawInv, Over
<1>6. PayloadInv'
  <2>1. /\ state' = state
        /\ mo[i] \in {EVENT_SET, EVENT_DISCONNECTED} => state = mo[i] /\ spc \in {"wake", "done"}
    BY <1>2 DEF Loaded
  <2>2. PayloadInv /\ ResultInv /\ SawInv
    BY DEF ControlInv
  <2> QED
    BY <1>1, <2>1, <2>2, Values DEF PayloadInv, ResultInv, SawInv, Over
<1>7. AwaiterInv'
  BY DEF ControlInv, AwaiterInv, Own, Holding
<1>8. WakersInv'
  BY DEF ControlInv, WakersInv
<1>9. ResultInv'
  BY DEF ControlInv, ResultInv, Over
<1> QED
  BY <1>2, <1>4, <1>5, <1>6, <1>7, <1>8, <1>9 DEF ControlInv, Loaded

\* The failed compare_exchange of AWAITING by BOUND.
LEMMA AwaitingCasReads ==
    ASSUME ControlInv, rpc = "awaiting_cas", NEW i \in DOMAIN mo, mo' = SubSeq(mo, i, Len(mo)),
           \/ mo[i] = EVENT_SET /\ rpc' = "poll_set"
           \/ mo[i] = EVENT_SIGNALING /\ rpc' = "signaling"
           \/ mo[i] = EVENT_DISCONNECTED /\ rpc' = "release",
           UNCHANGED <<awaiter, payload, freed, spc, swaker, rarg, rheld, rcur, rresult, armed,
                       woken, answer, clones>>
    PROVE  ControlInv'
<1>1. rpc \notin Over /\ rpc' \notin Over
  BY DEF Over
<1>2. Loaded(i)
  BY <1>1, Loads
<1>3. mo' \in Seq(0..5) /\ Len(mo') \in 1..3 /\ mo[i] \in 0..4 /\ freed' \in BOOLEAN
  BY <1>2 DEF Loaded
<1>4. ControlTypeOK'
  <2>1. ControlTypeOK /\ rpc' \in ReceiverPcs
    BY DEF ControlInv, ControlTypeOK, ReceiverPcs
  <2> QED
    BY <1>3, <2>1 DEF ControlTypeOK
<1>5. SawInv'
  <2>1. /\ mo'[1] = mo[i]
        /\ mo[1] \in {EVENT_SET, EVENT_DISCONNECTED} => mo[i] = mo[1]
        /\ Unread({EVENT_BOUND}) => mo[i] # EVENT_BOUND
        /\ Unread({EVENT_AWAITING}) => mo[i] # EVENT_AWAITING
        /\ Unread({EVENT_BOUND, EVENT_AWAITING}) => mo[i] \notin {EVENT_BOUND, EVENT_AWAITING}
        /\ mo[i] # EVENT_BOUND => Unread({EVENT_BOUND})'
        /\ mo[i] # EVENT_AWAITING => Unread({EVENT_AWAITING})'
        /\ mo[i] \notin {EVENT_BOUND, EVENT_AWAITING} => Unread({EVENT_BOUND, EVENT_AWAITING})'
    BY <1>2 DEF Loaded
  <2>2. SawInv /\ mo[i] \in 0..4
    BY <1>3 DEF ControlInv
  <2> QED
    BY <1>1, <2>1, <2>2, Values DEF SawInv, Over
<1>6. PayloadInv'
  <2>1. /\ state' = state
        /\ mo[i] \in {EVENT_SET, EVENT_DISCONNECTED} => state = mo[i] /\ spc \in {"wake", "done"}
    BY <1>2 DEF Loaded
  <2>2. PayloadInv /\ ResultInv /\ SawInv
    BY DEF ControlInv
  <2> QED
    BY <1>1, <2>1, <2>2, Values DEF PayloadInv, ResultInv, SawInv, Over
<1>7. AwaiterInv'
  BY <1>1, <1>2, Values DEF ControlInv, Loaded, AwaiterInv, Own, Holding, WordInv, SawInv, Over
<1>8. WakersInv'
  BY DEF ControlInv, WakersInv
<1>9. ResultInv'
  BY DEF ControlInv, ResultInv, Over
<1> QED
  BY <1>2, <1>4, <1>5, <1>6, <1>7, <1>8, <1>9 DEF ControlInv, Loaded

\* The load of the spin on SIGNALING.
LEMMA SpinOnSignalingReads ==
    ASSUME ControlInv, rpc = "signaling", NEW i \in DOMAIN mo, mo' = SubSeq(mo, i, Len(mo)),
           \/ mo[i] = EVENT_SIGNALING /\ rpc' = "signaling"
           \/ mo[i] = EVENT_SET /\ rpc' = "poll_set"
           \/ mo[i] = EVENT_DISCONNECTED /\ rpc' = "release",
           UNCHANGED <<awaiter, payload, freed, spc, swaker, rarg, rheld, rcur, rresult, armed,
                       woken, answer, clones>>
    PROVE  ControlInv'
<1>1. rpc \notin Over /\ rpc' \notin Over
  BY DEF Over
<1>2. Loaded(i)
  BY <1>1, Loads
<1>3. mo' \in Seq(0..5) /\ Len(mo') \in 1..3 /\ mo[i] \in 0..4 /\ freed' \in BOOLEAN
  BY <1>2 DEF Loaded
<1>4. ControlTypeOK'
  <2>1. ControlTypeOK /\ rpc' \in ReceiverPcs
    BY DEF ControlInv, ControlTypeOK, ReceiverPcs
  <2> QED
    BY <1>3, <2>1 DEF ControlTypeOK
<1>5. SawInv'
  <2>1. /\ mo'[1] = mo[i]
        /\ mo[1] \in {EVENT_SET, EVENT_DISCONNECTED} => mo[i] = mo[1]
        /\ Unread({EVENT_BOUND}) => mo[i] # EVENT_BOUND
        /\ Unread({EVENT_AWAITING}) => mo[i] # EVENT_AWAITING
        /\ Unread({EVENT_BOUND, EVENT_AWAITING}) => mo[i] \notin {EVENT_BOUND, EVENT_AWAITING}
        /\ mo[i] # EVENT_BOUND => Unread({EVENT_BOUND})'
        /\ mo[i] # EVENT_AWAITING => Unread({EVENT_AWAITING})'
        /\ mo[i] \notin {EVENT_BOUND, EVENT_AWAITING} => Unread({EVENT_BOUND, EVENT_AWAITING})'
    BY <1>2 DEF Loaded
  <2>2. SawInv /\ mo[i] \in 0..4
    BY <1>3 DEF ControlInv
  <2> QED
    BY <1>1, <2>1, <2>2, Values DEF SawInv, Over
<1>6. PayloadInv'
  <2>1. /\ state' = state
        /\ mo[i] \in {EVENT_SET, EVENT_DISCONNECTED} => state = mo[i] /\ spc \in {"wake", "done"}
    BY <1>2 DEF Loaded
  <2>2. PayloadInv /\ ResultInv /\ SawInv
    BY DEF ControlInv
  <2> QED
    BY <1>1, <2>1, <2>2, Values DEF PayloadInv, ResultInv, SawInv, Over
<1>7. AwaiterInv'
  BY <1>1, <1>2, Values DEF ControlInv, Loaded, AwaiterInv, Own, Holding, WordInv, SawInv, Over
<1>8. WakersInv'
  BY DEF ControlInv, WakersInv
<1>9. ResultInv'
  BY DEF ControlInv, ResultInv, Over
<1> QED
  BY <1>2, <1>4, <1>5, <1>6, <1>7, <1>8, <1>9 DEF ControlInv, Loaded

\* The load of is_ready().
LEMMA IsReadyReads ==
    ASSUME ControlInv, rpc = "idle", NEW i \in DOMAIN mo, mo' = SubSeq(mo, i, Len(mo)),
           answer' = IF mo[i] \in {EVENT_SET, EVENT_DISCONNECTED} THEN "ready" ELSE "pending",
           UNCHANGED <<awaiter, payload, freed, spc, swaker, rpc, rarg, rheld, rcur, rresult,
                       armed, woken, clones>>
    PROVE  ControlInv'
<1>1. rpc \notin Over /\ rpc' \notin Over
  BY DEF Over
<1>2. Loaded(i)
  BY <1>1, Loads
<1>3. mo' \in Seq(0..5) /\ Len(mo') \in 1..3 /\ mo[i] \in 0..4 /\ freed' \in BOOLEAN
  BY <1>2 DEF Loaded
<1>4. ControlTypeOK'
  <2>1. ControlTypeOK /\ rpc' \in ReceiverPcs
    BY DEF ControlInv, ControlTypeOK, ReceiverPcs
  <2> QED
    BY <1>3, <2>1 DEF ControlTypeOK
<1>5. SawInv'
  <2>1. /\ mo'[1] = mo[i]
        /\ mo[1] \in {EVENT_SET, EVENT_DISCONNECTED} => mo[i] = mo[1]
        /\ Unread({EVENT_BOUND}) => mo[i] # EVENT_BOUND
        /\ Unread({EVENT_AWAITING}) => mo[i] # EVENT_AWAITING
        /\ Unread({EVENT_BOUND, EVENT_AWAITING}) => mo[i] \notin {EVENT_BOUND, EVENT_AWAITING}
        /\ mo[i] # EVENT_BOUND => Unread({EVENT_BOUND})'
        /\ mo[i] # EVENT_AWAITING => Unread({EVENT_AWAITING})'
        /\ mo[i] \notin {EVENT_BOUND, EVENT_AWAITING} => Unread({EVENT_BOUND, EVENT_AWAITING})'
    BY <1>2 DEF Loaded
  <2>2. SawInv /\ mo[i] \in 0..4
    BY <1>3 DEF ControlInv
  <2> QED
    BY <1>1, <2>1, <2>2, Values DEF SawInv, Over
<1>6. PayloadInv'
  <2>1. /\ state' = state
        /\ mo[i] \in {EVENT_SET, EVENT_DISCONNECTED} => state = mo[i] /\ spc \in {"wake", "done"}
    BY <1>2 DEF Loaded
  <2>2. PayloadInv /\ ResultInv /\ SawInv
    BY DEF ControlInv
  <2> QED
    BY <1>1, <2>1, <2>2, Values DEF PayloadInv, ResultInv, SawInv, Over
<1>7. AwaiterInv'
  BY <1>2 DEF ControlInv, Loaded, AwaiterInv
<1>8. WakersInv'
  BY DEF ControlInv, WakersInv
<1>9. ResultInv'
  BY DEF ControlInv, ResultInv
<1> QED
  BY <1>2, <1>4, <1>5, <1>6, <1>7, <1>8, <1>9 DEF ControlInv, Loaded

\* The load of into_value().
LEMMA IntoValueReads ==
    ASSUME ControlInv, rpc = "idle", NEW i \in DOMAIN mo, mo' = SubSeq(mo, i, Len(mo)),
           \/ mo[i] \in {EVENT_BOUND, EVENT_AWAITING, EVENT_SIGNALING} /\ rpc' = "idle"
                /\ answer' = "pending"
           \/ mo[i] \in {EVENT_SET, EVENT_DISCONNECTED} /\ rpc' = "take_result"
                /\ answer' = "ready",
           UNCHANGED <<awaiter, payload, freed, spc, swaker, rarg, rheld, rcur, rresult, armed,
                       woken, clones>>
    PROVE  ControlInv'
<1>1. rpc \notin Over /\ rpc' \notin Over
  BY DEF Over
<1>2. Loaded(i)
  BY <1>1, Loads
<1>3. mo' \in Seq(0..5) /\ Len(mo') \in 1..3 /\ mo[i] \in 0..4 /\ freed' \in BOOLEAN
  BY <1>2 DEF Loaded
<1>4. ControlTypeOK'
  <2>1. ControlTypeOK /\ rpc' \in ReceiverPcs
    BY DEF ControlInv, ControlTypeOK, ReceiverPcs
  <2> QED
    BY <1>3, <2>1 DEF ControlTypeOK
<1>5. SawInv'
  <2>1. /\ mo'[1] = mo[i]
        /\ mo[1] \in {EVENT_SET, EVENT_DISCONNECTED} => mo[i] = mo[1]
        /\ Unread({EVENT_BOUND}) => mo[i] # EVENT_BOUND
        /\ Unread({EVENT_AWAITING}) => mo[i] # EVENT_AWAITING
        /\ Unread({EVENT_BOUND, EVENT_AWAITING}) => mo[i] \notin {EVENT_BOUND, EVENT_AWAITING}
        /\ mo[i] # EVENT_BOUND => Unread({EVENT_BOUND})'
        /\ mo[i] # EVENT_AWAITING => Unread({EVENT_AWAITING})'
        /\ mo[i] \notin {EVENT_BOUND, EVENT_AWAITING} => Unread({EVENT_BOUND, EVENT_AWAITING})'
    BY <1>2 DEF Loaded
  <2>2. SawInv /\ mo[i] \in 0..4
    BY <1>3 DEF ControlInv
  <2> QED
    BY <1>1, <2>1, <2>2, Values DEF SawInv, Over
<1>6. PayloadInv'
  <2>1. /\ state' = state
        /\ mo[i] \in {EVENT_SET, EVENT_DISCONNECTED} => state = mo[i] /\ spc \in {"wake", "done"}
    BY <1>2 DEF Loaded
  <2>2. PayloadInv /\ ResultInv /\ SawInv
    BY DEF ControlInv
  <2> QED
    BY <1>1, <2>1, <2>2, Values DEF PayloadInv, ResultInv, SawInv, Over
<1>7. AwaiterInv'
  BY <1>1, <1>2, Values DEF ControlInv, Loaded, AwaiterInv, Own, Holding, WordInv, SawInv, Over
<1>8. WakersInv'
  BY DEF ControlInv, WakersInv
<1>9. ResultInv'
  BY DEF ControlInv, ResultInv, Over
<1> QED
  BY <1>2, <1>4, <1>5, <1>6, <1>7, <1>8, <1>9 DEF ControlInv, Loaded

\* The failed compare_exchange of AWAITING by BOUND, at the start of the cancellation.
LEMMA CancelCasReads ==
    ASSUME ControlInv, rpc = "cancel_cas", NEW i \in DOMAIN mo, mo' = SubSeq(mo, i, Len(mo)),
           mo[i] # EVENT_AWAITING /\ rpc' = "cancel_load",
           UNCHANGED <<awaiter, payload, freed, spc, swaker, rarg, rheld, rcur, rresult, armed,
                       woken, answer, clones>>
    PROVE  ControlInv'
<1>1. rpc \notin Over /\ rpc' \notin Over
  BY DEF Over
<1>2. Loaded(i)
  BY <1>1, Loads
<1>3. mo' \in Seq(0..5) /\ Len(mo') \in 1..3 /\ mo[i] \in 0..4 /\ freed' \in BOOLEAN
  BY <1>2 DEF Loaded
<1>4. ControlTypeOK'
  <2>1. ControlTypeOK /\ rpc' \in ReceiverPcs
    BY DEF ControlInv, ControlTypeOK, ReceiverPcs
  <2> QED
    BY <1>3, <2>1 DEF ControlTypeOK
<1>5. SawInv'
  <2>1. /\ mo'[1] = mo[i]
        /\ mo[1] \in {EVENT_SET, EVENT_DISCONNECTED} => mo[i] = mo[1]
        /\ Unread({EVENT_BOUND}) => mo[i] # EVENT_BOUND
        /\ Unread({EVENT_AWAITING}) => mo[i] # EVENT_AWAITING
        /\ Unread({EVENT_BOUND, EVENT_AWAITING}) => mo[i] \notin {EVENT_BOUND, EVENT_AWAITING}
        /\ mo[i] # EVENT_BOUND => Unread({EVENT_BOUND})'
        /\ mo[i] # EVENT_AWAITING => Unread({EVENT_AWAITING})'
        /\ mo[i] \notin {EVENT_BOUND, EVENT_AWAITING} => Unread({EVENT_BOUND, EVENT_AWAITING})'
    BY <1>2 DEF Loaded
  <2>2. SawInv /\ mo[i] \in 0..4
    BY <1>3 DEF ControlInv
  <2> QED
    BY <1>1, <2>1, <2>2, Values DEF SawInv, Over
<1>6. PayloadInv'
  <2>1. /\ state' = state
        /\ mo[i] \in {EVENT_SET, EVENT_DISCONNECTED} => state = mo[i] /\ spc \in {"wake", "done"}
    BY <1>2 DEF Loaded
  <2>2. PayloadInv /\ ResultInv /\ SawInv
    BY DEF ControlInv
  <2> QED
    BY <1>1, <2>1, <2>2, Values DEF PayloadInv, ResultInv, SawInv, Over
<1>7. AwaiterInv'
  BY <1>2 DEF ControlInv, Loaded, AwaiterInv, Own, Holding
<1>8. WakersInv'
  BY DEF ControlInv, WakersInv
<1>9. ResultInv'
  BY DEF ControlInv, ResultInv, Over
<1> QED
  BY <1>2, <1>4, <1>5, <1>6, <1>7, <1>8, <1>9 DEF ControlInv, Loaded

\* The failed compare_exchange of the cancellation: the word has moved on.
LEMMA CancelSwapReads ==
    ASSUME ControlInv, rpc = "cancel_swap", NEW i \in DOMAIN mo, mo' = SubSeq(mo, i, Len(mo)),
           mo[i] # rcur /\ rpc' = "cancel_load",
           UNCHANGED <<awaiter, payload, freed, spc, swaker, rarg, rheld, rcur, rresult, armed,
                       woken, answer, clones>>
    PROVE  ControlInv'
<1>1. rpc \notin Over /\ rpc' \notin Over
  BY DEF Over
<1>2. Loaded(i)
  BY <1>1, Loads
<1>3. mo' \in Seq(0..5) /\ Len(mo') \in 1..3 /\ mo[i] \in 0..4 /\ freed' \in BOOLEAN
  BY <1>2 DEF Loaded
<1>4. ControlTypeOK'
  <2>1. ControlTypeOK /\ rpc' \in ReceiverPcs
    BY DEF ControlInv, ControlTypeOK, ReceiverPcs
  <2> QED
    BY <1>3, <2>1 DEF ControlTypeOK
<1>5. SawInv'
  <2>1. /\ mo'[1] = mo[i]
        /\ mo[1] \in {EVENT_SET, EVENT_DISCONNECTED} => mo[i] = mo[1]
        /\ Unread({EVENT_BOUND}) => mo[i] # EVENT_BOUND
        /\ Unread({EVENT_AWAITING}) => mo[i] # EVENT_AWAITING
        /\ Unread({EVENT_BOUND, EVENT_AWAITING}) => mo[i] \notin {EVENT_BOUND, EVENT_AWAITING}
        /\ mo[i] # EVENT_BOUND => Unread({EVENT_BOUND})'
        /\ mo[i] # EVENT_AWAITING => Unread({EVENT_AWAITING})'
        /\ mo[i] \notin {EVENT_BOUND, EVENT_AWAITING} => Unread({EVENT_BOUND, EVENT_AWAITING})'
    BY <1>2 DEF Loaded
  <2>2. SawInv /\ mo[i] \in 0..4
    BY <1>3 DEF ControlInv
  <2> QED
    BY <1>1, <2>1, <2>2, Values DEF SawInv, Over
<1>6. PayloadInv'
  <2>1. /\ state' = state
        /\ mo[i] \in {EVENT_SET, EVENT_DISCONNECTED} => state = mo[i] /\ spc \in {"wake", "done"}
    BY <1>2 DEF Loaded
  <2>2. PayloadInv /\ ResultInv /\ SawInv
    BY DEF ControlInv
  <2> QED
    BY <1>1, <2>1, <2>2, Values DEF PayloadInv, ResultInv, SawInv, Over
<1>7. AwaiterInv'
  BY <1>2 DEF ControlInv, Loaded, AwaiterInv, Own, Holding
<1>8. WakersInv'
  BY DEF ControlInv, WakersInv
<1>9. ResultInv'
  BY DEF ControlInv, ResultInv, Over
<1> QED
  BY <1>2, <1>4, <1>5, <1>6, <1>7, <1>8, <1>9 DEF ControlInv, Loaded

\* A store becomes visible: the receiver can no longer read the oldest value.
LEMMA VisibleStep ==
    ASSUME ControlInv, Visible
    PROVE  ControlInv'
<1>1. UNCHANGED <<awaiter, payload, freed, spc, swaker, rpc, rarg, rheld, rcur, rresult, armed,
                  woken, answer, clones>>
  BY DEF Visible, senderVars, receiverVars
<1>2. 2 \in DOMAIN mo /\ mo' = SubSeq(mo, 2, Len(mo))
  BY Showing DEF Visible, ControlInv
<1>3. /\ mo' \in Seq(0..5) /\ Len(mo') = Len(mo) - 1 /\ Len(mo') \in 1..3
      /\ DOMAIN mo = 1..Len(mo) /\ DOMAIN mo' = 1..(Len(mo) - 1)
      /\ \A j \in 1..(Len(mo) - 1) : mo'[j] = mo[j + 1]
      /\ mo'[1] = mo[2] /\ state' = state
  BY <1>2, Reading DEF ControlInv
<1>4. ControlTypeOK'
  BY <1>1, <1>2 DEF ControlInv, ControlTypeOK
<1>5. WordInv'
  BY <1>1, <1>3 DEF ControlInv, WordInv
<1>6. HistoryInv'
  BY <1>1, <1>2 DEF ControlInv, HistoryInv
<1>7. SawInv'
  BY <1>1, <1>2 DEF ControlInv, SawInv, Unread, Over, HistoryInv
<1>8. AwaiterInv'
  BY <1>1, <1>3 DEF ControlInv, AwaiterInv, Holding, Unread
<1>9. WakersInv'
  BY <1>1 DEF ControlInv, WakersInv
<1>10. PayloadInv'
  BY <1>1, <1>3 DEF ControlInv, PayloadInv
<1>11. ResultInv'
  BY <1>1 DEF ControlInv, ResultInv
<1> QED
  BY <1>4, <1>5, <1>6, <1>7, <1>8, <1>9, <1>10, <1>11 DEF ControlInv

\* The compare_exchange of BOUND by AWAITING: the awaiter is the event's now.
LEMMA BoundCasSwaps ==
    ASSUME ControlInv, rpc = "bound_cas" /\ state = EVENT_BOUND, mo' = <<EVENT_AWAITING>>,
           rpc' = "idle" /\ armed' = rarg /\ rresult' = "none",
           UNCHANGED <<awaiter, payload, freed, spc, swaker, rarg, rheld, rcur, woken, answer,
                       clones>>
    PROVE  ControlInv'
<1>1. mo' \in Seq(0..5) /\ Len(mo') = 1 /\ DOMAIN mo' = {1} /\ mo'[1] = EVENT_AWAITING
        /\ state' = EVENT_AWAITING
  BY Replacing, Values DEF ControlInv
<1>2. ControlTypeOK'
  BY Values DEF ControlInv, ControlTypeOK, ReceiverPcs
<1>3. WordInv'
  BY <1>1, Values DEF ControlInv, WordInv, Over
<1>4. HistoryInv'
  BY Values DEF HistoryInv
<1>5. SawInv'
  BY DEF ControlInv, SawInv, Over
<1>6. AwaiterInv'
  BY <1>1 DEF ControlInv, AwaiterInv, Own, Holding
<1>7. WakersInv'
  BY DEF ControlInv, WakersInv, AwaiterInv
<1>8. PayloadInv'
  BY Values DEF ControlInv, PayloadInv, WordInv
<1>9. ResultInv'
  BY DEF ControlInv, ResultInv, Over
<1> QED
  BY <1>2, <1>3, <1>4, <1>5, <1>6, <1>7, <1>8, <1>9 DEF ControlInv

\* The compare_exchange of AWAITING by BOUND: the awaiter is the receiver's again.
LEMMA AwaitingCasSwaps ==
    ASSUME ControlInv, rpc = "awaiting_cas" /\ state = EVENT_AWAITING, mo' = <<EVENT_BOUND>>,
           rpc' = "awaiting_drop",
           UNCHANGED <<awaiter, payload, freed, spc, swaker, rarg, rheld, rcur, rresult, armed,
                       woken, answer, clones>>
    PROVE  ControlInv'
<1>1. mo' \in Seq(0..5) /\ Len(mo') = 1 /\ DOMAIN mo' = {1} /\ mo'[1] = EVENT_BOUND
        /\ state' = EVENT_BOUND
  BY Replacing, Values DEF ControlInv
<1>2. ControlTypeOK'
  BY Values DEF ControlInv, ControlTypeOK, ReceiverPcs
<1>3. WordInv'
  BY <1>1, Values DEF ControlInv, WordInv, Over
<1>4. HistoryInv'
  BY Values DEF HistoryInv
<1>5. SawInv'
  BY Values DEF ControlInv, SawInv, Unread, Over
<1>6. AwaiterInv'
  BY Values DEF ControlInv, AwaiterInv, Holding, WordInv, Locking, WakersInv
<1>7. WakersInv'
  BY DEF ControlInv, WakersInv
<1>8. PayloadInv'
  BY Values DEF ControlInv, PayloadInv, WordInv
<1>9. ResultInv'
  BY DEF ControlInv, ResultInv, Over
<1> QED
  BY <1>2, <1>3, <1>4, <1>5, <1>6, <1>7, <1>8, <1>9 DEF ControlInv

\* The swap of into_value().
LEMMA TakeResultSwaps ==
    ASSUME ControlInv, rpc = "take_result", mo' = <<EVENT_DISCONNECTED>>,
           rpc' = CASE state = EVENT_SET          -> "poll_set"
                    [] state = EVENT_DISCONNECTED -> "release"
                    [] OTHER                      -> "unreachable",
           rresult' = "disconnected",
           UNCHANGED <<awaiter, payload, freed, spc, swaker, rarg, rheld, rcur, armed, woken,
                       answer, clones>>
    PROVE  ControlInv'
<1>1. mo' \in Seq(0..5) /\ Len(mo') = 1 /\ DOMAIN mo' = {1} /\ mo'[1] = EVENT_DISCONNECTED
        /\ state' = EVENT_DISCONNECTED
  BY Replacing, Values DEF ControlInv
<1>2. ControlTypeOK'
  BY Values DEF ControlInv, ControlTypeOK, ReceiverPcs
<1>3. WordInv'
  BY <1>1, Latest, Values DEF ControlInv, WordInv, Over, HistoryInv, SawInv
<1>4. HistoryInv'
  BY Values DEF HistoryInv
<1>5. SawInv'
  BY Latest DEF ControlInv, SawInv, Over, HistoryInv
<1>6. AwaiterInv'
  BY <1>1, Latest, Values DEF ControlInv, AwaiterInv, Own, Holding, Unread, SawInv, HistoryInv,
       WordInv
<1>7. WakersInv'
  BY Latest DEF ControlInv, WakersInv, Over, SawInv, HistoryInv
<1>8. PayloadInv'
  BY Values DEF ControlInv, PayloadInv, WordInv, Over
<1>9. ResultInv'
  BY DEF ControlInv, ResultInv, Over
<1> QED
  BY <1>2, <1>3, <1>4, <1>5, <1>6, <1>7, <1>8, <1>9 DEF ControlInv

\* The compare_exchange that takes the awaiter back for good.
LEMMA CancelCasSwaps ==
    ASSUME ControlInv, rpc = "cancel_cas" /\ state = EVENT_AWAITING, mo' = <<EVENT_BOUND>>,
           rpc' = "cancel_awaiter",
           UNCHANGED <<awaiter, payload, freed, spc, swaker, rarg, rheld, rcur, rresult, armed,
                       woken, answer, clones>>
    PROVE  ControlInv'
<1>1. mo' \in Seq(0..5) /\ Len(mo') = 1 /\ DOMAIN mo' = {1} /\ mo'[1] = EVENT_BOUND
        /\ state' = EVENT_BOUND
  BY Replacing, Values DEF ControlInv
<1>2. ControlTypeOK'
  BY Values DEF ControlInv, ControlTypeOK, ReceiverPcs
<1>3. WordInv'
  BY <1>1, Values DEF ControlInv, WordInv, Over
<1>4. HistoryInv'
  BY Values DEF HistoryInv
<1>5. SawInv'
  BY Values DEF SawInv, Unread
<1>6. AwaiterInv'
  BY Values DEF ControlInv, AwaiterInv, Holding, WordInv, Locking, WakersInv
<1>7. WakersInv'
  BY DEF ControlInv, WakersInv
<1>8. PayloadInv'
  BY Values DEF ControlInv, PayloadInv, WordInv
<1>9. ResultInv'
  BY DEF ControlInv, ResultInv, Over
<1> QED
  BY <1>2, <1>3, <1>4, <1>5, <1>6, <1>7, <1>8, <1>9 DEF ControlInv

\* The compare_exchange by which the receiver disconnects.
LEMMA CancelSwapSwaps ==
    ASSUME ControlInv, rpc = "cancel_swap" /\ state = rcur, mo' = <<EVENT_DISCONNECTED>>,
           rpc' = CASE rcur = EVENT_BOUND        -> "cancel_drop"
                    [] rcur = EVENT_SET          -> "cancel_value"
                    [] rcur = EVENT_DISCONNECTED -> "cancel_release"
                    [] OTHER                     -> "unreachable",
           UNCHANGED <<awaiter, payload, freed, spc, swaker, rarg, rheld, rcur, rresult, armed,
                       woken, answer, clones>>
    PROVE  ControlInv'
<1>1. mo' \in Seq(0..5) /\ Len(mo') = 1 /\ DOMAIN mo' = {1} /\ mo'[1] = EVENT_DISCONNECTED
        /\ state' = EVENT_DISCONNECTED
  BY Replacing, Values DEF ControlInv
<1>2. ControlTypeOK'
  BY Values DEF ControlInv, ControlTypeOK, ReceiverPcs
<1>3. WordInv'
  BY <1>1, Values DEF ControlInv, WordInv, Over, SawInv
<1>4. HistoryInv'
  BY Values DEF HistoryInv
<1>5. SawInv'
  BY DEF ControlInv, SawInv, Over
<1>6. AwaiterInv'
  BY <1>1, Values DEF ControlInv, AwaiterInv, Own, Holding, Unread, SawInv
<1>7. WakersInv'
  BY DEF ControlInv, WakersInv, SawInv
<1>8. PayloadInv'
  BY Values DEF ControlInv, PayloadInv, WordInv, Over
<1>9. ResultInv'
  BY DEF ControlInv, ResultInv, Over, WordInv
<1> QED
  BY <1>2, <1>3, <1>4, <1>5, <1>6, <1>7, <1>8, <1>9 DEF ControlInv

\* poll(), by what its load returned.
LEMMA PollStep ==
    ASSUME ControlInv, NEW w \in Wakers, Poll(w)
    PROVE  ControlInv'
<1>1. /\ rpc = "idle" /\ rarg' = w /\ rresult' = "disconnected" /\ armed' = NoWaker
      /\ woken' = woken \ {w}
      /\ UNCHANGED <<awaiter, payload, freed, spc, swaker, rheld, rcur, answer, clones>>
  BY DEF Poll, senderVars
<1>2. PICK i \in DOMAIN mo : mo' = SubSeq(mo, i, Len(mo)) /\ rpc' = PollDispatch(mo[i])
  BY DEF Poll, LoadState, ReceiverGoto
<1>3. mo[i] \in {EVENT_BOUND, EVENT_SET, EVENT_AWAITING, EVENT_SIGNALING, EVENT_DISCONNECTED}
  BY <1>1, Readable, Values DEF Over
<1>4. \/ mo[i] = EVENT_BOUND /\ rpc' = "bound_write"
      \/ mo[i] = EVENT_SET /\ rpc' = "poll_set"
      \/ mo[i] = EVENT_AWAITING /\ rpc' = "awaiting_cas"
      \/ mo[i] = EVENT_SIGNALING /\ rpc' = "signaling"
      \/ mo[i] = EVENT_DISCONNECTED /\ rpc' = "release"
  BY <1>2, <1>3, Values DEF PollDispatch
<1> QED
  BY <1>1, <1>2, <1>4, PollReads

\* The compare_exchange of BOUND by AWAITING, by whether it succeeds.
LEMMA BoundCasStep ==
    ASSUME ControlInv, BoundCas
    PROVE  ControlInv'
<1>1. /\ rpc = "bound_cas"
      /\ UNCHANGED <<awaiter, payload, freed, spc, swaker, rarg, rheld, rcur, woken, answer,
                     clones>>
  BY DEF BoundCas, senderVars
<1>2. CASE /\ state = EVENT_BOUND /\ mo' = <<EVENT_AWAITING>>
           /\ rpc' = "idle" /\ armed' = rarg /\ rresult' = "none"
  BY <1>1, <1>2, BoundCasSwaps
<1>3. CASE /\ \E i \in DOMAIN mo :
                 /\ mo[i] # EVENT_BOUND /\ mo' = SubSeq(mo, i, Len(mo))
                 /\ rpc' = CASE mo[i] = EVENT_SET          -> "unbind_set"
                             [] mo[i] = EVENT_SIGNALING    -> "unbind_signaling"
                             [] mo[i] = EVENT_DISCONNECTED -> "unbind_disconnected"
                             [] OTHER                      -> "unreachable"
           /\ armed' = armed /\ rresult' = rresult
  <2>1. PICK i \in DOMAIN mo :
                 /\ mo[i] # EVENT_BOUND /\ mo' = SubSeq(mo, i, Len(mo))
                 /\ rpc' = CASE mo[i] = EVENT_SET          -> "unbind_set"
                             [] mo[i] = EVENT_SIGNALING    -> "unbind_signaling"
                             [] mo[i] = EVENT_DISCONNECTED -> "unbind_disconnected"
                             [] OTHER                      -> "unreachable"
    BY <1>3
  <2>2. mo[i] # EVENT_AWAITING
    BY <1>1 DEF ControlInv, SawInv, Unread
  <2>3. mo[i] \in {EVENT_SET, EVENT_SIGNALING, EVENT_DISCONNECTED}
    BY <1>1, <2>1, <2>2, Readable, Values DEF Over
  <2>4. \/ mo[i] = EVENT_SET /\ rpc' = "unbind_set"
        \/ mo[i] = EVENT_SIGNALING /\ rpc' = "unbind_signaling"
        \/ mo[i] = EVENT_DISCONNECTED /\ rpc' = "unbind_disconnected"
    BY <2>1, <2>3, Values
  <2> QED
    BY <1>1, <1>3, <2>1, <2>4, BoundCasReads
<1> QED
  BY <1>2, <1>3 DEF BoundCas, CasSucceeds, CasFails, LoadState, ReceiverGoto

\* The compare_exchange of AWAITING by BOUND, by whether it succeeds.
LEMMA AwaitingCasStep ==
    ASSUME ControlInv, AwaitingCas
    PROVE  ControlInv'
<1>1. /\ rpc = "awaiting_cas"
      /\ UNCHANGED <<awaiter, payload, freed, spc, swaker, rarg, rheld, rcur, rresult, armed,
                     woken, answer, clones>>
  BY DEF AwaitingCas, senderVars
<1>2. CASE state = EVENT_AWAITING /\ mo' = <<EVENT_BOUND>> /\ rpc' = "awaiting_drop"
  BY <1>1, <1>2, AwaitingCasSwaps
<1>3. ASSUME NEW i \in DOMAIN mo, mo[i] # EVENT_AWAITING, mo' = SubSeq(mo, i, Len(mo)),
             rpc' = CASE mo[i] = EVENT_SET          -> "poll_set"
                      [] mo[i] = EVENT_SIGNALING    -> "signaling"
                      [] mo[i] = EVENT_DISCONNECTED -> "release"
                      [] OTHER                      -> "unreachable"
      PROVE  ControlInv'
  <2>1. mo[i] # EVENT_BOUND
    BY <1>1 DEF ControlInv, SawInv, Unread
  <2>2. mo[i] \in {EVENT_SET, EVENT_SIGNALING, EVENT_DISCONNECTED}
    BY <1>1, <1>3, <2>1, Readable, Values DEF Over
  <2>3. \/ mo[i] = EVENT_SET /\ rpc' = "poll_set"
        \/ mo[i] = EVENT_SIGNALING /\ rpc' = "signaling"
        \/ mo[i] = EVENT_DISCONNECTED /\ rpc' = "release"
    BY <1>3, <2>2, Values
  <2> QED
    BY <1>1, <1>3, <2>3, AwaitingCasReads
<1> QED
  BY <1>2, <1>3 DEF AwaitingCas, CasSucceeds, ReceiverGoto

\* The spin on SIGNALING, by what it reads.
LEMMA SpinOnSignalingStep ==
    ASSUME ControlInv, SpinOnSignaling
    PROVE  ControlInv'
<1>1. /\ rpc = "signaling"
      /\ UNCHANGED <<awaiter, payload, freed, spc, swaker, rarg, rheld, rcur, rresult, armed,
                     woken, answer, clones>>
  BY DEF SpinOnSignaling, senderVars
<1>2. PICK i \in DOMAIN mo :
         /\ mo' = SubSeq(mo, i, Len(mo))
         /\ rpc' = CASE mo[i] = EVENT_SIGNALING    -> "signaling"
                     [] mo[i] = EVENT_SET          -> "poll_set"
                     [] mo[i] = EVENT_DISCONNECTED -> "release"
                     [] OTHER                      -> "unreachable"
  BY DEF SpinOnSignaling, ReceiverGoto
<1>3. mo[i] \notin {EVENT_BOUND, EVENT_AWAITING}
  BY <1>1 DEF ControlInv, SawInv, Unread
<1>4. mo[i] \in {EVENT_SET, EVENT_SIGNALING, EVENT_DISCONNECTED}
  BY <1>1, <1>3, Readable, Values DEF Over
<1>5. \/ mo[i] = EVENT_SIGNALING /\ rpc' = "signaling"
      \/ mo[i] = EVENT_SET /\ rpc' = "poll_set"
      \/ mo[i] = EVENT_DISCONNECTED /\ rpc' = "release"
  BY <1>2, <1>4, Values
<1> QED
  BY <1>1, <1>2, <1>5, SpinOnSignalingReads

\* is_ready().
LEMMA IsReadyStep ==
    ASSUME ControlInv, IsReady
    PROVE  ControlInv'
<1>1. /\ rpc = "idle"
      /\ UNCHANGED <<awaiter, payload, freed, spc, swaker, rpc, rarg, rheld, rcur, rresult,
                     armed, woken, clones>>
  BY DEF IsReady, senderVars
<1>2. PICK i \in DOMAIN mo :
         /\ mo' = SubSeq(mo, i, Len(mo))
         /\ answer' = IF mo[i] \in {EVENT_SET, EVENT_DISCONNECTED} THEN "ready" ELSE "pending"
  BY DEF IsReady, LoadState
<1> QED
  BY <1>1, <1>2, IsReadyReads

\* into_value(), by what its load returned.
LEMMA IntoValueStep ==
    ASSUME ControlInv, IntoValue
    PROVE  ControlInv'
<1>1. /\ rpc = "idle"
      /\ UNCHANGED <<awaiter, payload, freed, spc, swaker, rarg, rheld, rcur, rresult,
                     armed, woken, clones>>
  BY DEF IntoValue, senderVars
<1>2. PICK i \in DOMAIN mo :
         /\ mo' = SubSeq(mo, i, Len(mo))
         /\ IF mo[i] \in {EVENT_BOUND, EVENT_AWAITING, EVENT_SIGNALING}
              THEN rpc' = "idle" /\ answer' = "pending"
              ELSE IF mo[i] \in {EVENT_SET, EVENT_DISCONNECTED}
                     THEN rpc' = "take_result" /\ answer' = "ready"
                     ELSE rpc' = "unreachable" /\ answer' = answer
  BY DEF IntoValue, LoadState, ReceiverGoto
<1>3. mo[i] \in {EVENT_BOUND, EVENT_SET, EVENT_AWAITING, EVENT_SIGNALING, EVENT_DISCONNECTED}
  BY <1>1, Readable, Values DEF Over
<1>4. \/ /\ mo[i] \in {EVENT_BOUND, EVENT_AWAITING, EVENT_SIGNALING}
         /\ rpc' = "idle" /\ answer' = "pending"
      \/ /\ mo[i] \in {EVENT_SET, EVENT_DISCONNECTED}
         /\ rpc' = "take_result" /\ answer' = "ready"
  BY <1>2, <1>3
<1> QED
  BY <1>1, <1>2, <1>4, IntoValueReads

\* The swap of into_value() that follows a terminal load.
LEMMA TakeResultStep ==
    ASSUME ControlInv, TakeResult
    PROVE  ControlInv'
  BY TakeResultSwaps DEF TakeResult, ReceiverGoto, senderVars

\* The first compare_exchange of the cancellation, by whether it succeeds.
LEMMA CancelCasStep ==
    ASSUME ControlInv, CancelCas
    PROVE  ControlInv'
<1>1. /\ rpc = "cancel_cas"
      /\ UNCHANGED <<awaiter, payload, freed, spc, swaker, rarg, rheld, rcur, rresult, armed,
                     woken, answer, clones>>
  BY DEF CancelCas, senderVars
<1>2. CASE state = EVENT_AWAITING /\ mo' = <<EVENT_BOUND>> /\ rpc' = "cancel_awaiter"
  BY <1>1, <1>2, CancelCasSwaps
<1>3. ASSUME NEW i \in DOMAIN mo, mo[i] # EVENT_AWAITING, mo' = SubSeq(mo, i, Len(mo)),
             rpc' = "cancel_load"
      PROVE  ControlInv'
  BY <1>1, <1>3, CancelCasReads
<1> QED
  BY <1>2, <1>3 DEF CancelCas, CasSucceeds, CasFails, LoadState, ReceiverGoto

\* The load of the cancellation, by what it reads.
LEMMA CancelLoadStep ==
    ASSUME ControlInv, CancelLoad
    PROVE  ControlInv'
<1>1. /\ rpc = "cancel_load"
      /\ UNCHANGED <<awaiter, payload, freed, spc, swaker, rarg, rheld, rresult, armed,
                     woken, answer, clones>>
  BY DEF CancelLoad, senderVars
<1>2. PICK i \in DOMAIN mo :
         /\ mo' = SubSeq(mo, i, Len(mo))
         /\ IF mo[i] = EVENT_SIGNALING THEN UNCHANGED <<rpc, rcur>>
            ELSE rpc' = "cancel_swap" /\ rcur' = mo[i]
  BY DEF CancelLoad, LoadState, ReceiverGoto
<1>3. \/ mo[i] = EVENT_SIGNALING /\ rpc' = rpc /\ rcur' = rcur
      \/ mo[i] # EVENT_SIGNALING /\ rpc' = "cancel_swap" /\ rcur' = mo[i]
  BY <1>2
<1> QED
  BY <1>1, <1>2, <1>3, CancelLoadReads

\* The second compare_exchange of the cancellation, by whether it succeeds.
LEMMA CancelSwapStep ==
    ASSUME ControlInv, CancelSwap
    PROVE  ControlInv'
<1>1. /\ rpc = "cancel_swap"
      /\ UNCHANGED <<awaiter, payload, freed, spc, swaker, rarg, rheld, rcur, rresult, armed,
                     woken, answer, clones>>
  BY DEF CancelSwap, senderVars
<1>2. CASE /\ state = rcur /\ mo' = <<EVENT_DISCONNECTED>>
           /\ rpc' = CASE rcur = EVENT_BOUND        -> "cancel_drop"
                       [] rcur = EVENT_SET          -> "cancel_value"
                       [] rcur = EVENT_DISCONNECTED -> "cancel_release"
                       [] OTHER                     -> "unreachable"
  BY <1>1, <1>2, CancelSwapSwaps
<1>3. ASSUME NEW i \in DOMAIN mo, mo[i] # rcur, mo' = SubSeq(mo, i, Len(mo)), rpc' = "cancel_load"
      PROVE  ControlInv'
  BY <1>1, <1>3, CancelSwapReads
<1> QED
  BY <1>2, <1>3 DEF CancelSwap, CasFails, LoadState, ReceiverGoto

----------------------------------------------------------------------------
\* A new event satisfies the control part.
LEMMA InitControlInv == Init => ControlInv
<1> SUFFICES ASSUME Init PROVE ControlInv
  OBVIOUS
<1>1. /\ mo = <<EVENT_BOUND>> /\ awaiter = NoWaker /\ payload = "unsent" /\ freed = FALSE
      /\ spc = "idle" /\ swaker = NoWaker
      /\ rpc = "idle" /\ rarg = NoWaker /\ rheld = NoWaker /\ rcur = EVENT_BOUND
      /\ rresult = "none" /\ armed = NoWaker /\ woken = {} /\ answer = "none" /\ clones = 0
  BY DEF Init
<1>2. mo \in Seq(0..5) /\ Len(mo) = 1 /\ DOMAIN mo = {1} /\ mo[1] = EVENT_BOUND
        /\ state = EVENT_BOUND
  <2>1. <<0>> \in Seq(0..5) /\ Len(<<0>>) = 1 /\ DOMAIN <<0>> = {1} /\ <<0>>[1] = 0
    OBVIOUS
  <2> QED
    BY <1>1, <2>1, Values DEF state
<1>3. ControlTypeOK
  <2>1. spc \in SenderPcs /\ rpc \in ReceiverPcs /\ freed \in BOOLEAN /\ woken \subseteq Wakers
    BY <1>1 DEF SenderPcs, ReceiverPcs
  <2> QED
    BY <1>1, <1>2, <2>1, Values DEF ControlTypeOK
<1>4. WordInv /\ HistoryInv
  <2>1. WordInv
    BY <1>1, <1>2, Values DEF WordInv, Untouched, Locking, Over
  <2> QED
    BY <1>2, <2>1, Values DEF HistoryInv
<1>5. SawInv
  BY <1>1, <1>2 DEF SawInv
<1>6. AwaiterInv
  BY <1>1, <1>2, Values DEF AwaiterInv, Holding, Own
<1>7. WakersInv
  BY <1>1 DEF WakersInv, Held
<1>8. PayloadInv /\ ResultInv
  BY <1>1 DEF PayloadInv, ResultInv, Over
<1> QED
  BY <1>3, <1>4, <1>5, <1>6, <1>7, <1>8 DEF ControlInv

\* The control part reads nothing of the memory.
LEMMA UnchangedControl ==
    ASSUME ControlInv, UNCHANGED vars
    PROVE  ControlInv'
  BY DEF vars, ControlInv, ControlTypeOK, WordInv, HistoryInv, SawInv, AwaiterInv, WakersInv,
         PayloadInv, ResultInv, Unread, state

\* Every step of the two endpoints keeps the control part.
LEMMA NextControlInv == ControlInv /\ [Next]_vars => ControlInv'
<1> SUFFICES ASSUME ControlInv, [Next]_vars PROVE ControlInv'
  OBVIOUS
<1>1. ASSUME SenderStep PROVE ControlInv'
  BY <1>1, FetchAddStep, TakeWakerToSetStep, StoreSetStep, WakeStep, ReclaimStep,
     SenderReleaseStep, DropValueStep, TakeWakerToDropStep, StoreDisconnectedStep DEF SenderStep
<1>2. ASSUME Sender PROVE ControlInv'
  BY <1>1, <1>2, WriteValueStep, SenderDroppedStep DEF Sender
<1>3. ASSUME ReceiverStep PROVE ControlInv'
  BY <1>3, WriteAwaiterStep, BoundCasStep, UnbindStep, AwaitingCasStep, DropOldAwaiterStep,
     SpinOnSignalingStep, TakeValueStep, ReceiverReleaseStep, TakeResultStep, CancelCasStep,
     CancelTakeAwaiterStep, CancelLoadStep, CancelSwapStep, CancelTakeValueStep,
     CancelReleaseStep, CancelDropStep DEF ReceiverStep
<1>4. ASSUME Receiver PROVE ControlInv'
  BY <1>3, <1>4, PollStep, IsReadyStep, IntoValueStep, BeginCancelStep DEF Receiver
<1>5. ASSUME UNCHANGED vars PROVE ControlInv'
  BY <1>5, UnchangedControl
<1> QED
  BY <1>2, <1>4, <1>5, VisibleStep DEF Next, Finished

\* The control part holds throughout.
LEMMA ControlHolds == Spec => []ControlInv
<1> QED
  BY InitControlInv, NextControlInv, PTL DEF Spec

\* When both endpoints are gone nothing is left: the storage is released, the payload has
\* been delivered or dropped, and every clone of a waker that poll() made has been woken
\* or dropped, unwinding clones and cancellations included.
THEOREM NothingIsLeaked == Spec => []NothingLeaks
<1>1. ControlInv => NothingLeaks
  <2> SUFFICES ASSUME ControlInv, spc = "done", rpc = "done"
               PROVE  /\ freed /\ awaiter = NoWaker /\ clones = 0
                      /\ payload \in {"unsent", "delivered", "dropped"}
    BY DEF NothingLeaks
  <2>1. freed
    BY DEF ControlInv, ResultInv, Over
  <2>2. payload \in {"unsent", "delivered", "dropped"}
    BY DEF ControlInv, PayloadInv
  <2>3. awaiter = NoWaker
    <3>1. state # EVENT_AWAITING
      BY DEF ControlInv, WordInv, Over
    <3> QED
      BY <3>1 DEF ControlInv, AwaiterInv, Holding
  <2> QED
    BY <2>1, <2>2, <2>3 DEF ControlInv, WakersInv, Held
<1> QED
  BY <1>1, ControlHolds, PTL

\* A receiver that returned Pending and waits, with the sender gone, has had the waker of
\* its latest poll woken: set() and the drop of the sender find it in the awaiter, or the
\* poll finds their outcome in the word.
THEOREM NoWakeupIsLost == Spec => []NoLostWakeup
<1>1. ControlInv => NoLostWakeup
  <2> SUFFICES ASSUME ControlInv, spc = "done", rpc = "idle", armed # NoWaker PROVE armed \in woken
    BY DEF NoLostWakeup
  <2>1. state # EVENT_AWAITING
    BY Values DEF ControlInv, WordInv, Over
  <2>2. awaiter = NoWaker /\ swaker = NoWaker
    BY <2>1 DEF ControlInv, AwaiterInv, WakersInv, Holding
  <2> QED
    BY <2>2 DEF ControlInv, WakersInv
<1> QED
  BY <1>1, ControlHolds, PTL

\* A step after a "ready" answer leaves the value or the disconnection in the word.
LEMMA ReadyStays ==
    ASSUME ControlInv, Next, answer = "ready"
    PROVE  answer' = "ready"
<1>1. CASE IsReady \/ IntoValue
  <2>1. rpc = "idle" /\ rpc \notin Over
    BY <1>1 DEF IsReady, IntoValue, Over
  <2>2. mo[1] \in {EVENT_SET, EVENT_DISCONNECTED}
    BY <2>1 DEF ControlInv, SawInv, Over
  <2>3. DOMAIN mo = {1}
    <3>1. 1 \in DOMAIN mo /\ DOMAIN mo = 1..Len(mo)
      BY Latest DEF ControlInv
    <3>2. Len(mo) = 1
      BY <2>1, <2>2, <3>1, Terminal
    <3> QED
      BY <3>1, <3>2
  <2> QED
    BY <1>1, <2>2, <2>3, Values DEF IsReady, IntoValue
<1>2. CASE answer' = answer
  BY <1>2
<1> QED
  BY <1>1, <1>2 DEF Next, Sender, SenderStep, Receiver, ReceiverStep, WriteValue, FetchAdd,
     TakeWakerToSet, TakeWakerToDrop, TakeWaker, StoreSet, Wake, Reclaim, SenderRelease,
     DropValue, SenderDropped, StoreDisconnected, Poll, WriteAwaiter, BoundCas, Unbind,
     DestroyAwaiter, AwaitingCas, DropOldAwaiter, SpinOnSignaling, TakeValue, ReceiverRelease,
     TakeResult, BeginCancel, CancelCas, CancelTakeAwaiter, CancelLoad, CancelSwap,
     CancelTakeValue, CancelRelease, CancelDrop, Visible, Finished, vars, receiverVars

\* Once is_ready() or into_value() has seen the outcome no later inspection takes it back,
\* although their loads are relaxed: a load never returns an older value than the one before.
THEOREM ReadyStaysReady == Spec => ReadinessIsStable
<1>1. ControlInv /\ [Next]_vars => [answer = "ready" => answer' = "ready"]_answer
  BY ReadyStays DEF vars
<1> QED
  BY <1>1, ControlHolds, PTL DEF Spec, ReadinessIsStable

----------------------------------------------------------------------------
(* The exchange that the event implements, step by step. *)

\* The abstract exchange sees nothing of the step.
ExchangeStays == UNCHANGED <<Sent, Got, Storage, Parcel>>

\* What the sender does without the receiver seeing the difference.
LEMMA SenderStutters ==
    ASSUME ControlInv, WriteValue \/ TakeWakerToSet \/ TakeWakerToDrop \/ StoreSet \/ Wake
                       \/ Reclaim \/ StoreDisconnected
    PROVE  ExchangeStays
<1>1. Storage' = Storage /\ Got' = Got
  BY DEF WriteValue, TakeWakerToSet, TakeWakerToDrop, TakeWaker, StoreSet, Wake, Reclaim,
         StoreDisconnected, Storage, Got, receiverVars
<1>2. CASE WriteValue
  <2>1. spc = "idle" /\ payload = "unsent" /\ spc' = "fetch_add" /\ payload' = "cell"
    BY <1>2 DEF WriteValue, SenderGoto, ControlInv, PayloadInv
  <2>2. Sent = "open" /\ Sent' = "open" /\ Parcel = "none" /\ Parcel' = "none"
    BY <2>1 DEF Sent, Parcel
  <2> QED
    BY <1>1, <2>2 DEF ExchangeStays
<1>3. CASE Reclaim
  <2>1. spc = "reclaim" /\ payload = "cell" /\ spc' = "release_set" /\ payload' = "snd"
    BY <1>3 DEF Reclaim, SenderGoto, ControlInv, PayloadInv
  <2>2. Sent = "value" /\ Sent' = "value" /\ Parcel = "in_transit" /\ Parcel' = "in_transit"
    BY <2>1 DEF Sent, Parcel
  <2> QED
    BY <1>1, <2>2 DEF ExchangeStays
<1>4. CASE TakeWakerToSet \/ TakeWakerToDrop \/ StoreSet \/ Wake \/ StoreDisconnected
  <2>1. payload' = payload /\ {spc, spc'} \cap {"idle", "fetch_add"} = {}
    BY <1>4 DEF TakeWakerToSet, TakeWakerToDrop, TakeWaker, StoreSet, Wake, StoreDisconnected,
         SenderGoto
  <2>2. spc \notin {"idle", "fetch_add"} /\ spc' \notin {"idle", "fetch_add"}
    BY <2>1
  <2>3. Sent' = Sent /\ Parcel' = Parcel
    BY <2>1, <2>2 DEF Sent, Parcel
  <2> QED
    BY <1>1, <2>3 DEF ExchangeStays
<1> QED
  BY <1>2, <1>3, <1>4

\* What the receiver does before it has an outcome.
LEMMA ReceiverStutters ==
    ASSUME ControlInv, WriteAwaiter \/ BoundCas \/ DropOldAwaiter \/ IsReady \/ IntoValue
                       \/ BeginCancel \/ CancelCas \/ CancelTakeAwaiter \/ CancelLoad
    PROVE  ExchangeStays
<1>1. Storage' = Storage /\ Sent' = Sent /\ Parcel' = Parcel
  BY DEF WriteAwaiter, BoundCas, DropOldAwaiter, DestroyAwaiter, IsReady, IntoValue, BeginCancel,
         CancelCas, CancelTakeAwaiter, CancelLoad, Storage, Sent, Parcel, senderVars
<1>2. {rpc, rpc'} \cap {"release", "cancel_value", "cancel_release", "cancel_drop", "done"} = {}
  BY DEF WriteAwaiter, BoundCas, DropOldAwaiter, DestroyAwaiter, IsReady, IntoValue, BeginCancel,
         CancelCas, CancelTakeAwaiter, CancelLoad, ReceiverGoto
<1> QED
  BY <1>1, <1>2 DEF ExchangeStays, Got

\* The increment of set() is the send.
LEMMA FetchAddSends == ControlInv /\ FetchAdd => Exchange!Send
<1> SUFFICES ASSUME ControlInv, FetchAdd PROVE Exchange!Send
  OBVIOUS
<1>1. spc = "fetch_add" /\ spc' \notin {"idle", "fetch_add"} /\ payload = "cell"
        /\ payload' = "cell"
  BY DEF FetchAdd, SenderGoto, ControlInv, PayloadInv
<1>2. Got' = Got /\ Storage' = Storage
  BY DEF FetchAdd, receiverVars, Got, Storage
<1> QED
  BY <1>1, <1>2 DEF Exchange!Send, Sent, Parcel

\* Dropping the sender unused is the close.
LEMMA SenderDroppedCloses == ControlInv /\ SenderDropped => Exchange!Close
<1> SUFFICES ASSUME ControlInv, SenderDropped PROVE Exchange!Close
  OBVIOUS
<1>1. spc = "idle" /\ spc' \notin {"idle", "fetch_add"} /\ payload = "unsent" /\ payload' = "unsent"
  BY DEF SenderDropped, SenderGoto, ControlInv, PayloadInv
<1>2. Got' = Got /\ Storage' = Storage
  BY DEF SenderDropped, receiverVars, Got, Storage
<1> QED
  BY <1>1, <1>2 DEF Exchange!Close, Sent, Parcel

\* Both releases come after both outcomes are settled.
LEMMA SenderReleases == ControlInv /\ SenderRelease => Exchange!Release
<1> SUFFICES ASSUME ControlInv, SenderRelease PROVE Exchange!Release
  OBVIOUS
<1>1. /\ spc \in {"release_set", "release_drop"} /\ spc' \in {"drop_value", "done"} /\ freed'
      /\ payload' = payload /\ rpc' = rpc /\ rresult' = rresult
  BY DEF SenderRelease, SenderGoto, receiverVars
<1>2. rpc \in Over /\ rresult = "cancelled" /\ ~freed
  BY <1>1 DEF ControlInv, WordInv, ResultInv, Over
<1>3. Got = "cancelled" /\ Got' = Got
  BY <1>1, <1>2 DEF Got, Over
<1>4. Sent # "open" /\ Sent' = Sent /\ Parcel' = Parcel
  BY <1>1 DEF Sent, Parcel
<1>5. Storage = "live" /\ Storage' = "freed"
  BY <1>1, <1>2 DEF Storage
<1> QED
  BY <1>3, <1>4, <1>5 DEF Exchange!Release

\* The receiver, or its cancellation, releases the storage once, after the sender has left it.
LEMMA ReceiverReleases == ControlInv /\ (ReceiverRelease \/ CancelRelease) => Exchange!Release
<1> SUFFICES ASSUME ControlInv, ReceiverRelease \/ CancelRelease PROVE Exchange!Release
  OBVIOUS
<1>1. rpc \in {"release", "cancel_release"} /\ rpc \notin Over
  BY DEF ReceiverRelease, CancelRelease, Over
<1>2. spc \in {"wake", "done"}
  <2>1. 1 \in DOMAIN mo /\ mo[1] \in {EVENT_SET, EVENT_DISCONNECTED}
    BY <1>1, Latest DEF ControlInv, SawInv
  <2> QED
    BY <1>1, <2>1, Terminal
<1>3. ~freed /\ freed' /\ spc' = spc
  BY <1>1 DEF ReceiverRelease, CancelRelease, ControlInv, ResultInv, senderVars
<1>4. Storage = "live" /\ Storage' = "freed" /\ Sent # "open"
  BY <1>2, <1>3 DEF Storage, Sent
<1>5. CASE ReceiverRelease
  <2>1. /\ rpc = "release" /\ rpc' = "done" /\ rresult' = rresult
        /\ payload' = IF rresult = "value" THEN "delivered" ELSE payload
        /\ rresult \in {"value", "disconnected"}
        /\ payload = IF rresult = "value" THEN "rcv" ELSE "unsent"
    BY <1>2, <1>5 DEF ReceiverRelease, ReceiverGoto, ControlInv, ResultInv, PayloadInv
  <2>2. Sent' = Sent /\ Got' = Got /\ Got # "open" /\ Got = rresult
    BY <1>2, <1>3, <2>1 DEF Sent, Got
  <2>3. Parcel' = IF Got = "value" THEN "delivered" ELSE Parcel
    BY <1>2, <1>3, <2>1, <2>2 DEF Parcel
  <2> QED
    BY <1>4, <2>2, <2>3 DEF Exchange!Release
<1>6. CASE CancelRelease
  <2>1. rpc = "cancel_release" /\ rpc' = "cancel_drop" /\ rresult' = rresult /\ payload' = payload
        /\ rresult = "cancelled"
    BY <1>6 DEF CancelRelease, ReceiverGoto, ControlInv, ResultInv
  <2>2. Sent' = Sent /\ Got' = Got /\ Got = "cancelled" /\ Parcel' = Parcel
    BY <1>3, <2>1 DEF Sent, Got, Parcel
  <2> QED
    BY <1>4, <2>2 DEF Exchange!Release
<1> QED
  BY <1>5, <1>6

\* A payload that was taken back is destroyed only once the event is released.
LEMMA DropValueDiscards == ControlInv /\ DropValue => Exchange!Discard
<1> SUFFICES ASSUME ControlInv, DropValue PROVE Exchange!Discard
  OBVIOUS
<1>1. spc = "drop_value" /\ spc' = "done" /\ payload' = "dropped" /\ payload = "snd"
      /\ freed' = freed /\ rpc' = rpc /\ rresult' = rresult
  BY DEF DropValue, SenderGoto, receiverVars, ControlInv, PayloadInv
<1>2. rpc \in Over /\ freed /\ rresult = "cancelled"
  BY <1>1 DEF ControlInv, WordInv, ResultInv
<1>3. Got = "cancelled" /\ Got' = Got /\ Storage = "freed" /\ Storage' = Storage
  BY <1>1, <1>2 DEF Got, Storage, Over
<1>4. Parcel = "in_transit" /\ Parcel' = "dropped" /\ Sent' = Sent
  BY <1>1 DEF Parcel, Sent
<1> QED
  BY <1>3, <1>4 DEF Exchange!Discard

\* A cancelled receiver discards the value it took, if there is one.
LEMMA CancelDropDiscards == ControlInv /\ CancelDrop => Exchange!Discard \/ ExchangeStays
<1> SUFFICES ASSUME ControlInv, CancelDrop PROVE Exchange!Discard \/ ExchangeStays
  OBVIOUS
<1>1. /\ rpc = "cancel_drop" /\ rpc' = "done" /\ rresult' = rresult /\ rresult = "cancelled"
      /\ freed' = freed /\ spc' = spc
      /\ payload' = IF payload = "rcv" THEN "dropped" ELSE payload
  BY DEF CancelDrop, ReceiverGoto, senderVars, ControlInv, ResultInv
<1>2. Got = "cancelled" /\ Got' = Got /\ Storage' = Storage
  BY <1>1 DEF Got, Storage
<1>3. CASE payload = "rcv"
  <2>1. spc \in {"wake", "done"}
    BY <1>1, <1>3 DEF ControlInv, PayloadInv, WordInv, Locking, ControlTypeOK, SenderPcs, Over
  <2>2. Storage = "freed"
    BY <1>1, <2>1 DEF ControlInv, ResultInv, Over, Storage
  <2>3. Parcel = "in_transit" /\ Parcel' = "dropped" /\ Sent' = Sent
    BY <1>1, <1>3, <2>1 DEF Parcel, Sent
  <2> QED
    BY <1>2, <2>2, <2>3 DEF Exchange!Discard
<1>4. CASE payload # "rcv"
  BY <1>1, <1>2, <1>4 DEF ExchangeStays, Parcel, Sent
<1> QED
  BY <1>3, <1>4

\* A receiver that finds the event disconnected obtains that: no payload was left.
LEMMA DisconnectedObtains ==
    ASSUME ControlInv, NEW i \in DOMAIN mo, mo[i] = EVENT_DISCONNECTED,
           rpc \notin Over \cup {"release", "poll_set", "cancel_value", "cancel_release"},
           rpc' = "release", rresult' = "disconnected", UNCHANGED <<spc, payload, freed>>
    PROVE  Exchange!Obtain
<1>1. state = EVENT_DISCONNECTED /\ spc \in {"wake", "done"}
  BY Terminal
<1>2. payload = "unsent"
  BY <1>1, Values DEF ControlInv, PayloadInv, Over
<1>3. Sent = "closed" /\ Sent' = Sent /\ Storage' = Storage /\ Parcel' = Parcel
  BY <1>1, <1>2 DEF Sent, Storage, Parcel
<1>4. Got = "open" /\ Got' = "disconnected"
  BY DEF Got, Over
<1> QED
  BY <1>3, <1>4 DEF Exchange!Obtain

\* The outcome of the receiver is still open, and stays so.
LEMMA OpenStays ==
    ASSUME {rpc,
           rpc'} \cap {"release", "cancel_value", "cancel_release", "cancel_drop", "done"} = {},
           UNCHANGED <<spc, payload, freed>>
    PROVE  ExchangeStays
  BY DEF ExchangeStays, Sent, Got, Storage, Parcel

\* A poll() or an into_value() whose load is DISCONNECTED obtains that answer.
LEMMA PollObtains ==
    ASSUME ControlInv, NEW w \in Wakers, Poll(w)
    PROVE  Exchange!Obtain \/ ExchangeStays
<1>1. rpc = "idle" /\ rresult' = "disconnected" /\ UNCHANGED <<spc, payload, freed>>
  BY DEF Poll, senderVars
<1>2. PICK i \in DOMAIN mo : rpc' = PollDispatch(mo[i])
  BY DEF Poll, ReceiverGoto
<1>3. CASE mo[i] = EVENT_DISCONNECTED
  BY <1>1, <1>2, <1>3, DisconnectedObtains, Values DEF PollDispatch, Over
<1>4. CASE mo[i] # EVENT_DISCONNECTED
  <2>1. rpc' \in {"bound_write", "poll_set", "awaiting_cas", "signaling", "unreachable"}
    BY <1>2, <1>4, Values DEF PollDispatch
  <2> QED
    BY <1>1, <2>1, OpenStays
<1> QED
  BY <1>3, <1>4

\* A poll() that lost the race obtains a disconnection or nothing.
LEMMA UnbindObtains == ControlInv /\ Unbind => Exchange!Obtain \/ ExchangeStays
<1> SUFFICES ASSUME ControlInv, Unbind PROVE Exchange!Obtain \/ ExchangeStays
  OBVIOUS
<1>1. UNCHANGED <<spc, payload,
                  freed>> /\ rpc \in {"unbind_set", "unbind_signaling", "unbind_disconnected"}
  BY DEF Unbind, DestroyAwaiter, senderVars
<1>2. CASE rpc' = "release"
  <2>1. rpc = "unbind_disconnected" /\ rresult' = "disconnected"
    BY <1>2 DEF Unbind, DestroyAwaiter, ReceiverGoto, ControlInv, ResultInv
  <2>2. 1 \in DOMAIN mo /\ mo[1] = EVENT_DISCONNECTED
    BY <2>1, Latest DEF ControlInv, SawInv
  <2> QED
    BY <1>1, <1>2, <2>1, <2>2, DisconnectedObtains DEF Over
<1>3. CASE rpc' # "release"
  <2>1. rpc' \in {"poll_set", "signaling", "idle"}
    BY <1>3 DEF Unbind, DestroyAwaiter, ReceiverGoto
  <2> QED
    BY <1>1, <2>1, OpenStays
<1> QED
  BY <1>2, <1>3

\* A failed take-back of the awaiter obtains a disconnection or nothing.
LEMMA AwaitingCasObtains == ControlInv /\ AwaitingCas => Exchange!Obtain \/ ExchangeStays
<1> SUFFICES ASSUME ControlInv, AwaitingCas PROVE Exchange!Obtain \/ ExchangeStays
  OBVIOUS
<1>1. UNCHANGED <<spc, payload, freed, rresult>> /\ rpc = "awaiting_cas" /\ rresult = "disconnected"
  BY DEF AwaitingCas, senderVars, ControlInv, ResultInv
<1>2. CASE rpc' = "awaiting_drop"
  BY <1>1, <1>2, OpenStays
<1>3. ASSUME NEW i \in DOMAIN mo,
             rpc' = CASE mo[i] = EVENT_SET          -> "poll_set"
                      [] mo[i] = EVENT_SIGNALING    -> "signaling"
                      [] mo[i] = EVENT_DISCONNECTED -> "release"
                      [] OTHER                      -> "unreachable"
      PROVE  Exchange!Obtain \/ ExchangeStays
  <2>1. CASE mo[i] = EVENT_DISCONNECTED
    BY <1>1, <1>3, <2>1, DisconnectedObtains, Values DEF Over
  <2>2. CASE mo[i] # EVENT_DISCONNECTED
    <3>1. rpc' \in {"poll_set", "signaling", "unreachable"}
      BY <1>3, <2>2, Values
    <3> QED
      BY <1>1, <3>1, OpenStays
  <2> QED
    BY <2>1, <2>2
<1> QED
  BY <1>2, <1>3 DEF AwaitingCas, ReceiverGoto

\* The spin obtains a disconnection or nothing.
LEMMA SpinObtains == ControlInv /\ SpinOnSignaling => Exchange!Obtain \/ ExchangeStays
<1> SUFFICES ASSUME ControlInv, SpinOnSignaling PROVE Exchange!Obtain \/ ExchangeStays
  OBVIOUS
<1>1. UNCHANGED <<spc, payload, freed, rresult>> /\ rpc = "signaling" /\ rresult = "disconnected"
  BY DEF SpinOnSignaling, senderVars, ControlInv, ResultInv
<1>2. PICK i \in DOMAIN mo :
         rpc' = CASE mo[i] = EVENT_SIGNALING    -> "signaling"
                  [] mo[i] = EVENT_SET          -> "poll_set"
                  [] mo[i] = EVENT_DISCONNECTED -> "release"
                  [] OTHER                      -> "unreachable"
  BY DEF SpinOnSignaling, ReceiverGoto
<1>3. CASE mo[i] = EVENT_DISCONNECTED
  BY <1>1, <1>2, <1>3, DisconnectedObtains, Values DEF Over
<1>4. CASE mo[i] # EVENT_DISCONNECTED
  <2>1. rpc' \in {"poll_set", "signaling", "unreachable"}
    BY <1>2, <1>4, Values
  <2> QED
    BY <1>1, <2>1, OpenStays
<1> QED
  BY <1>3, <1>4

\* into_value() obtains a disconnection or nothing: the value is taken one step later.
LEMMA TakeResultObtains == ControlInv /\ TakeResult => Exchange!Obtain \/ ExchangeStays
<1> SUFFICES ASSUME ControlInv, TakeResult PROVE Exchange!Obtain \/ ExchangeStays
  OBVIOUS
<1>1. /\ UNCHANGED <<spc, payload, freed>> /\ rpc = "take_result" /\ rresult' = "disconnected"
      /\ rpc' = CASE state = EVENT_SET          -> "poll_set"
                  [] state = EVENT_DISCONNECTED -> "release"
                  [] OTHER                      -> "unreachable"
  BY DEF TakeResult, senderVars, ReceiverGoto
<1>2. CASE state = EVENT_DISCONNECTED
  <2>1. Len(mo) \in DOMAIN mo /\ mo[Len(mo)] = EVENT_DISCONNECTED
    BY <1>2, Latest DEF ControlInv
  <2> QED
    BY <1>1, <1>2, <2>1, DisconnectedObtains, Values DEF Over
<1>3. CASE state # EVENT_DISCONNECTED
  <2>1. rpc' \in {"poll_set", "unreachable"}
    BY <1>1, <1>3, Values
  <2> QED
    BY <1>1, <2>1, OpenStays
<1> QED
  BY <1>2, <1>3

\* The value that poll_set moves out is the one that was sent.
LEMMA TakeValueObtains == ControlInv /\ TakeValue => Exchange!Obtain
<1> SUFFICES ASSUME ControlInv, TakeValue PROVE Exchange!Obtain
  OBVIOUS
<1>1. /\ rpc = "poll_set" /\ rpc' = "release" /\ rresult' = "value" /\ payload' = "rcv"
      /\ freed' = freed /\ spc' = spc
  BY DEF TakeValue, ReceiverGoto, senderVars
<1>2. spc \in {"wake", "done"}
  <2>1. 1 \in DOMAIN mo /\ mo[1] \in {EVENT_SET, EVENT_DISCONNECTED}
    BY <1>1, Latest DEF ControlInv, SawInv
  <2> QED
    BY <1>1, <2>1, Terminal DEF Over
<1>3. payload = "cell"
  BY <1>1, <1>2 DEF ControlInv, PayloadInv
<1>4. Sent = "value" /\ Sent' = Sent /\ Parcel' = Parcel
  BY <1>1, <1>2, <1>3 DEF Sent, Parcel
<1>5. Got = "open" /\ Got' = "value" /\ Storage' = Storage
  BY <1>1 DEF Got, Storage
<1> QED
  BY <1>4, <1>5 DEF Exchange!Obtain

\* The exchange of cancel() is where the receiver leaves.
LEMMA CancelSwapObtains == ControlInv /\ CancelSwap => Exchange!Obtain \/ ExchangeStays
<1> SUFFICES ASSUME ControlInv, CancelSwap PROVE Exchange!Obtain \/ ExchangeStays
  OBVIOUS
<1>1. UNCHANGED <<spc, payload, freed, rresult>> /\ rpc = "cancel_swap" /\ rresult = "cancelled"
  BY DEF CancelSwap, senderVars, ControlInv, ResultInv
<1>2. CASE rpc' = "cancel_load"
  BY <1>1, <1>2, OpenStays
<1>3. CASE rpc' # "cancel_load"
  <2>1. rpc' \in {"cancel_drop", "cancel_value", "cancel_release"}
    BY <1>1, <1>3 DEF CancelSwap, ReceiverGoto, ControlInv, SawInv
  <2>2. Got = "open" /\ Got' = "cancelled"
    BY <1>1, <2>1 DEF Got
  <2> QED
    BY <1>1, <2>2 DEF Exchange!Obtain, Sent, Storage, Parcel
<1> QED
  BY <1>2, <1>3

\* A cancelled receiver obtains nothing for its caller.
LEMMA CancelTakeValueStays == ControlInv /\ CancelTakeValue => ExchangeStays
<1> SUFFICES ASSUME ControlInv, CancelTakeValue PROVE ExchangeStays
  OBVIOUS
<1>1. /\ rpc = "cancel_value" /\ rpc' = "cancel_release" /\ payload' = "rcv"
      /\ UNCHANGED <<freed, spc, rresult>>
  BY DEF CancelTakeValue, ReceiverGoto, senderVars
<1>2. spc \in {"wake", "done"}
  <2>1. 1 \in DOMAIN mo /\ mo[1] \in {EVENT_SET, EVENT_DISCONNECTED}
    BY <1>1, Latest DEF ControlInv, SawInv
  <2> QED
    BY <1>1, <2>1, Terminal DEF Over
<1>3. payload = "cell"
  BY <1>1, <1>2 DEF ControlInv, PayloadInv
<1> QED
  BY <1>1, <1>2, <1>3 DEF ExchangeStays, Sent, Got, Storage, Parcel

\* Every step of the event is a step of the exchange or invisible to it.
LEMMA StepImplements ==
    ASSUME ControlInv, [Next]_vars
    PROVE  Exchange!Next \/ ExchangeStays
<1>1. CASE Sender
  BY <1>1, SenderStutters, FetchAddSends, SenderDroppedCloses, SenderReleases, DropValueDiscards
     DEF Sender, SenderStep, Exchange!Next
<1>2. CASE ReceiverStep
  BY <1>2, ReceiverStutters, ReceiverReleases, CancelDropDiscards, UnbindObtains,
     AwaitingCasObtains, SpinObtains, TakeResultObtains, TakeValueObtains, CancelSwapObtains,
     CancelTakeValueStays DEF ReceiverStep, Exchange!Next
<1>3. CASE Receiver
  BY <1>2, <1>3, ReceiverStutters, PollObtains DEF Receiver, Exchange!Next
<1>4. CASE Visible \/ Finished \/ UNCHANGED vars
  BY <1>4 DEF Visible, Finished, vars, senderVars, receiverVars, ExchangeStays, Sent, Got,
       Storage, Parcel
<1> QED
  BY <1>1, <1>3, <1>4 DEF Next

\* The lock-free event implements the exchange: one outcome each, the storage
\* released once and after both, the payload handed over or destroyed after that.  Each step
\* of send, drop, poll, into_value and of the cancellation is one of Exchange or a stutter.
THEOREM EventRefinesExchange == Spec => ImplementsExchange
<1>1. Init => Exchange!Init
  BY DEF Init, Exchange!Init, Sent, Got, Storage, Parcel
<1>2. ControlInv /\ [Next]_vars => [Exchange!Next]_(Exchange!exchangeVars)
  BY StepImplements DEF ExchangeStays, Exchange!exchangeVars
<1> QED
  BY <1>1, <1>2, ControlHolds, PTL DEF Spec, ImplementsExchange, Exchange!Spec

----------------------------------------------------------------------------
(* What the operations on the memory do, access by access. *)

\* A memory with a message in it.
Live(m) == m \in Memory /\ Len(m.carry) \in Nat \ {0}

\* The two endpoints.
LEMMA Names == /\ Other("snd") = "rcv" /\ Other("rcv") = "snd" /\ "snd" # "rcv"
               /\ "snd" \in Endpoints /\ "rcv" \in Endpoints
               /\ \A e \in Endpoints : Other(e) \in Endpoints /\ Other(e) # e
  BY DEF Other, Endpoints

\* The parts of a memory.
LEMMA LiveParts ==
    ASSUME NEW m, Live(m)
    PROVE  /\ m.carry \in Seq([Endpoints -> SUBSET Cells]) /\ DOMAIN m.carry = 1..Len(m.carry)
           /\ m.known \in [Endpoints -> SUBSET Cells] /\ m.pend \in [Endpoints -> SUBSET Cells]
           /\ m.races \subseteq Sites /\ Len(m.carry) \in Nat \ {0}
           /\ \A i \in 1..Len(m.carry) : m.carry[i] \in [Endpoints -> SUBSET Cells]
           /\ m = [carry |-> m.carry, known |-> m.known, pend |-> m.pend, races |-> m.races]
<1>1. m.carry \in Seq([Endpoints -> SUBSET Cells])
  BY DEF Live, Memory
<1>2. DOMAIN m.carry = 1..Len(m.carry)
        /\ \A i \in 1..Len(m.carry) : m.carry[i] \in [Endpoints -> SUBSET Cells]
  BY <1>1, LenProperties
<1> QED
  BY <1>1, <1>2 DEF Live, Memory

\* An access takes its cells from what the other endpoint has seen of e.
LEMMA Touching ==
    ASSUME NEW m, Live(m), NEW e \in Endpoints, NEW C \in SUBSET Cells
    PROVE  /\ Live(Touch(m, e, C)) /\ Len(Touch(m, e, C).carry) = Len(m.carry)
           /\ \A i \in 1..Len(m.carry) : /\ Touch(m, e, C).carry[i][e] = m.carry[i][e] \ C
                                         /\ Touch(m, e, C).carry[i][Other(e)] = m.carry[i][Other(e)]
           /\ Touch(m, e, C).known[e] = m.known[e] /\ Touch(m, e, C).pend[e] = m.pend[e]
           /\ Touch(m, e, C).known[Other(e)] = m.known[Other(e)] \ C
           /\ Touch(m, e, C).pend[Other(e)] = m.pend[Other(e)] \ C
           /\ Touch(m, e, C).races = m.races
<1> DEFINE t == Touch(m, e, C)
           c == [i \in 1..Len(m.carry) |-> [m.carry[i] EXCEPT ![e] = @ \ C]]
           k == [m.known EXCEPT ![Other(e)] = @ \ C]
           p == [m.pend EXCEPT ![Other(e)] = @ \ C]
<1>1. t = [carry |-> c, known |-> k, pend |-> p, races |-> m.races]
  <2>1. DOMAIN m.carry = 1..Len(m.carry)
        /\ m = [carry |-> m.carry, known |-> m.known, pend |-> m.pend, races |-> m.races]
    BY LiveParts
  <2>2. t = [m EXCEPT !.carry = [i \in DOMAIN m.carry |-> [m.carry[i] EXCEPT ![e] = @ \ C]],
                      !.known[Other(e)] = @ \ C, !.pend[Other(e)] = @ \ C]
    BY DEF Touch
  <2>3. t = [m EXCEPT !.carry = c, !.known[Other(e)] = @ \ C, !.pend[Other(e)] = @ \ C]
    BY <2>1, <2>2
  <2> HIDE DEF c, t
  <2> QED
    BY <2>1, <2>3
<1>2. t.carry = c /\ t.known = k /\ t.pend = p /\ t.races = m.races
  BY <1>1
<1>3. Other(e) \in Endpoints /\ Other(e) # e
  BY Names
<1>4. \A i \in 1..Len(m.carry) : [m.carry[i] EXCEPT ![e] = @ \ C] \in [Endpoints -> SUBSET Cells]
  BY LiveParts
<1>5. c \in Seq([Endpoints -> SUBSET Cells]) /\ Len(c) = Len(m.carry)
  BY <1>4, LiveParts
<1>6. k \in [Endpoints -> SUBSET Cells] /\ p \in [Endpoints -> SUBSET Cells]
  <2>1. m.known \in [Endpoints -> SUBSET Cells] /\ m.pend \in [Endpoints -> SUBSET Cells]
    BY LiveParts
  <2> QED
    BY <2>1
<1>7. Live(t)
  BY <1>1, <1>2, <1>5, <1>6, LiveParts DEF Live, Memory
<1>8. \A i \in 1..Len(m.carry) : c[i][e] = m.carry[i][e] \ C
        /\ c[i][Other(e)] = m.carry[i][Other(e)]
  BY <1>3, LiveParts
<1>9. k[e] = m.known[e] /\ p[e] = m.pend[e] /\ k[Other(e)] = m.known[Other(e)] \ C
      /\ p[Other(e)] = m.pend[Other(e)] \ C
  BY <1>3, LiveParts
<1> QED
  BY <1>2, <1>5, <1>7, <1>8, <1>9

\* The same with the names of the endpoints, for the atomic word.
LEMMA TouchingWord ==
    ASSUME NEW m, Live(m)
    PROVE  LET s == Touch(m, "snd", {"state"})
               r == Touch(m, "rcv", {"state"})
           IN  /\ Live(s) /\ Len(s.carry) = Len(m.carry)
               /\ \A i \in 1..Len(m.carry) : /\ s.carry[i]["snd"] = m.carry[i]["snd"] \ {"state"}
                                             /\ s.carry[i]["rcv"] = m.carry[i]["rcv"]
               /\ s.known["snd"] = m.known["snd"] /\ s.known["rcv"] = m.known["rcv"] \ {"state"}
               /\ s.pend["snd"] = m.pend["snd"] /\ s.pend["rcv"] = m.pend["rcv"] \ {"state"}
               /\ s.races = m.races
               /\ Live(r) /\ Len(r.carry) = Len(m.carry)
               /\ \A i \in 1..Len(m.carry) : /\ r.carry[i]["rcv"] = m.carry[i]["rcv"] \ {"state"}
                                             /\ r.carry[i]["snd"] = m.carry[i]["snd"]
               /\ r.known["rcv"] = m.known["rcv"] /\ r.known["snd"] = m.known["snd"] \ {"state"}
               /\ r.pend["rcv"] = m.pend["rcv"] /\ r.pend["snd"] = m.pend["snd"] \ {"state"}
               /\ r.races = m.races
<1>1. {"state"} \in SUBSET Cells /\ "snd" \in Endpoints /\ "rcv" \in Endpoints
  BY DEF Cells, Endpoints
<1>2. Other("snd") = "rcv" /\ Other("rcv") = "snd"
  BY Names
<1> QED
  BY <1>1, <1>2, Touching

\* A plain access of e.
Accessed(a, m, e, d, C, site) ==
    /\ Live(a) /\ Size(a) = Size(m)
    /\ \A i \in 1..Size(m) : /\ Carried(a, i, e) = Carried(m, i, e) \ C
                            /\ Carried(a, i, d) = Carried(m, i, d)
    /\ Known(a, e) = Known(m, e) /\ Pend(a, e) = Pend(m, e)
    /\ Known(a, d) = Known(m, d) \ C /\ Pend(a, d) = Pend(m, d) \ C
    /\ Races(a) \subseteq Races(m) \cup {site}
    /\ C \subseteq Known(m, e) => Races(a) = Races(m)

\* What a plain access by e of the cells C, whoever e is, does to the memory.
LEMMA Accessing ==
    ASSUME NEW m, Live(m), NEW e \in Endpoints, NEW C \in SUBSET Cells, NEW site \in Sites
    PROVE  Accessed(Access(m, e, C, site), m, e, Other(e), C, site)
<1> DEFINE t == Touch(m, e, C)
           a == Access(m, e, C, site)
<1>1. Live(t) /\ t.races = m.races
  BY Touching
<1>2. a = [carry |-> t.carry, known |-> t.known, pend |-> t.pend,
           races |-> IF C \subseteq m.known[e] THEN m.races ELSE m.races \cup {site}]
  <2>1. t = [carry |-> t.carry, known |-> t.known, pend |-> t.pend, races |-> t.races]
    BY <1>1, LiveParts
  <2> HIDE DEF t
  <2>2. a = [t EXCEPT !.races = IF C \subseteq m.known[e] THEN @ ELSE @ \cup {site}]
    BY DEF Access, t
  <2> QED
    BY <1>1, <2>1, <2>2
<1>3. Live(a)
  BY <1>1, <1>2, LiveParts DEF Live, Memory
<1>5. /\ Len(t.carry) = Len(m.carry)
      /\ \A i \in 1..Len(m.carry) : t.carry[i][e] = m.carry[i][e] \ C
           /\ t.carry[i][Other(e)] = m.carry[i][Other(e)]
      /\ t.known[e] = m.known[e] /\ t.pend[e] = m.pend[e]
      /\ t.known[Other(e)] = m.known[Other(e)] \ C /\ t.pend[Other(e)] = m.pend[Other(e)] \ C
  BY Touching
<1>6. a.carry = t.carry /\ a.known = t.known /\ a.pend = t.pend
  BY <1>2
<1>7. a.races \subseteq m.races \cup {site} /\ (C \subseteq m.known[e] => a.races = m.races)
  BY <1>2
<1> HIDE DEF t, a
<1>8. /\ Size(a) = Size(m)
      /\ \A i \in 1..Size(m) : Carried(a, i, e) = Carried(m, i, e) \ C
           /\ Carried(a, i, Other(e)) = Carried(m, i, Other(e))
  BY <1>5, <1>6 DEF Size, Carried
<1>9. /\ Known(a, e) = Known(m, e) /\ Pend(a, e) = Pend(m, e)
      /\ Known(a, Other(e)) = Known(m, Other(e)) \ C /\ Pend(a, Other(e)) = Pend(m, Other(e)) \ C
  BY <1>5, <1>6 DEF Known, Pend
<1>10. Races(a) \subseteq Races(m) \cup {site} /\ (C \subseteq Known(m, e) => Races(a) = Races(m))
  BY <1>7 DEF Races, Known
<1> QED
  BY <1>3, <1>8, <1>9, <1>10 DEF Accessed, a

\* The receiver's plain access.
LEMMA ReceiverAccessing ==
    ASSUME NEW m, Live(m), NEW C \in SUBSET Cells, NEW site \in Sites
    PROVE  Accessed(Access(m, "rcv", C, site), m, "rcv", "snd", C, site)
<1>1. "rcv" \in Endpoints /\ Other("rcv") = "snd"
  BY Names
<1> QED
  BY <1>1, Accessing

\* The sender's plain access.
LEMMA SenderAccessing ==
    ASSUME NEW m, Live(m), NEW C \in SUBSET Cells, NEW site \in Sites
    PROVE  Accessed(Access(m, "snd", C, site), m, "snd", "rcv", C, site)
<1>1. "snd" \in Endpoints /\ Other("snd") = "rcv"
  BY Names
<1> QED
  BY <1>1, Accessing

\* An acquire fence turns what could be known into what is.
LEMMA Fencing ==
    ASSUME NEW m, Live(m), NEW e \in Endpoints, NEW d \in Endpoints, d # e
    PROVE  /\ Live(Fence(m, e)) /\ Size(Fence(m, e)) = Size(m)
           /\ \A i, x : Carried(Fence(m, e), i, x) = Carried(m, i, x)
           /\ \A x : Pend(Fence(m, e), x) = Pend(m, x)
           /\ Known(Fence(m, e), e) = Known(m, e) \cup Pend(m, e)
           /\ Known(Fence(m, e), d) = Known(m, d)
           /\ Races(Fence(m, e)) = Races(m)
<1> DEFINE k == [m.known EXCEPT ![e] = @ \cup m.pend[e]]
<1>1. Fence(m, e) = [carry |-> m.carry, known |-> k, pend |-> m.pend, races |-> m.races]
  <2>1. m = [carry |-> m.carry, known |-> m.known, pend |-> m.pend, races |-> m.races]
    BY LiveParts
  <2> QED
    BY <2>1 DEF Fence
<1>2. k \in [Endpoints -> SUBSET Cells]
  BY LiveParts
<1>3. Other(e) # e /\ Other(e) \in Endpoints
  BY Names
<1>4. k[e] = m.known[e] \cup m.pend[e] /\ k[Other(e)] = m.known[Other(e)]
  BY <1>3, LiveParts
<1>5. d = Other(e)
  BY DEF Other, Endpoints
<1>6. Live(Fence(m, e))
  BY <1>1, <1>2, LiveParts DEF Live, Memory
<1> QED
  BY <1>1, <1>4, <1>5, <1>6 DEF Size, Carried, Known, Pend, Races

\* Reading a message.
LEMMA Observing ==
    ASSUME NEW m, Live(m), NEW message \in [Endpoints -> SUBSET Cells], NEW e \in Endpoints,
           NEW order
    PROVE  /\ Live(Observe(m, e, message, order))
           /\ Observe(m, e, message, order).carry = m.carry
           /\ Observe(m, e, message, order).races = m.races
           /\ Observe(m, e, message, order).pend[e] = m.pend[e] \cup message[Other(e)]
           /\ Observe(m, e, message, order).known[Other(e)] = m.known[Other(e)]
           /\ Observe(m, e, message, order).pend[Other(e)] = m.pend[Other(e)]
           /\ Acquires(order) => Observe(m, e, message, order).known[e] = m.known[e]
                \cup message[Other(e)]
           /\ ~Acquires(order) => Observe(m, e, message, order).known[e] = m.known[e]
<1> DEFINE d == Other(e)
           k == IF Acquires(order) THEN [m.known EXCEPT ![e] = @ \cup message[d]] ELSE m.known
           p == [m.pend EXCEPT ![e] = @ \cup message[d]]
           o == Observe(m, e, message, order)
<1>1. o = [carry |-> m.carry, known |-> k, pend |-> p, races |-> m.races]
  <2>1. m = [carry |-> m.carry, known |-> m.known, pend |-> m.pend, races |-> m.races]
    BY LiveParts
  <2>3. CASE Acquires(order)
    <3>1. o = [m EXCEPT !.known[e] = @ \cup message[d], !.pend[e] = @ \cup message[d]]
      BY <2>3 DEF Observe, Acquires
    <3>2. k = [m.known EXCEPT ![e] = @ \cup message[d]]
      BY <2>3
    <3> HIDE DEF o, k
    <3> QED
      BY <2>1, <3>1, <3>2
  <2>4. CASE ~Acquires(order)
    <3>1. o = [m EXCEPT !.pend[e] = @ \cup message[d]]
      BY <2>4 DEF Observe, Acquires
    <3>2. k = m.known
      BY <2>4
    <3> HIDE DEF o, k
    <3> QED
      BY <2>1, <3>1, <3>2
  <2> QED
    BY <2>3, <2>4
<1>2. d \in Endpoints /\ d # e
  BY Names
<1> HIDE DEF d
<1>3. k \in [Endpoints -> SUBSET Cells] /\ p \in [Endpoints -> SUBSET Cells]
  BY <1>2, LiveParts
<1>4. /\ Acquires(order) => k[e] = m.known[e] \cup message[d]
      /\ ~Acquires(order) => k[e] = m.known[e]
      /\ k[d] = m.known[d] /\ p[e] = m.pend[e] \cup message[d] /\ p[d] = m.pend[d]
  BY <1>2, LiveParts
<1> HIDE DEF k, p, o
<1>5. o.carry = m.carry /\ o.known = k /\ o.pend = p /\ o.races = m.races
  BY <1>1
<1>6. Live(o)
  BY <1>1, <1>3, <1>5, LiveParts DEF Live, Memory
<1> QED
  BY <1>4, <1>5, <1>6 DEF o, d

\* The receiver reads a message.
LEMMA ReceiverObserving ==
    ASSUME NEW m, Live(m), NEW message \in [Endpoints -> SUBSET Cells], NEW order
    PROVE  /\ Live(Observe(m, "rcv", message, order))
           /\ Observe(m, "rcv", message, order).carry = m.carry
           /\ Observe(m, "rcv", message, order).races = m.races
           /\ Observe(m, "rcv", message, order).pend["rcv"] = m.pend["rcv"] \cup message["snd"]
           /\ Observe(m, "rcv", message, order).known["snd"] = m.known["snd"]
           /\ Observe(m, "rcv", message, order).pend["snd"] = m.pend["snd"]
           /\ Acquires(order) => Observe(m, "rcv", message, order).known["rcv"] = m.known["rcv"]
                \cup message["snd"]
           /\ ~Acquires(order) => Observe(m, "rcv", message, order).known["rcv"] = m.known["rcv"]
<1>1. "rcv" \in Endpoints /\ Other("rcv") = "snd"
  BY Names
<1> QED
  BY <1>1, Observing

\* The sender reads a message.
LEMMA SenderObserving ==
    ASSUME NEW m, Live(m), NEW message \in [Endpoints -> SUBSET Cells], NEW order
    PROVE  /\ Live(Observe(m, "snd", message, order))
           /\ Observe(m, "snd", message, order).carry = m.carry
           /\ Observe(m, "snd", message, order).races = m.races
           /\ Observe(m, "snd", message, order).pend["snd"] = m.pend["snd"] \cup message["rcv"]
           /\ Observe(m, "snd", message, order).known["rcv"] = m.known["rcv"]
           /\ Observe(m, "snd", message, order).pend["rcv"] = m.pend["rcv"]
           /\ Acquires(order) => Observe(m, "snd", message, order).known["snd"] = m.known["snd"]
                \cup message["rcv"]
           /\ ~Acquires(order) => Observe(m, "snd", message, order).known["snd"] = m.known["snd"]
<1>1. "snd" \in Endpoints /\ Other("snd") = "rcv"
  BY Names
<1> QED
  BY <1>1, Observing

\* The receiver's load of the i-th readable message.
LEMMA Loading ==
    ASSUME NEW m, Live(m), NEW i \in 1..Size(m), NEW order
    PROVE  /\ Live(Load(m, i, order)) /\ Size(Load(m, i, order)) = Size(m) - i + 1
           /\ \A j \in 1..(Size(m) - i + 1) :
                 /\ Carried(Load(m, i, order), j, "snd") = Carried(m, i + j - 1, "snd")
                 /\ Carried(Load(m, i, order), j, "rcv") = Carried(m, i + j - 1, "rcv") \ {"state"}
           /\ Acquires(order) => Known(Load(m, i, order), "rcv") = Known(m, "rcv")
                \cup Carried(m, i, "snd")
           /\ ~Acquires(order) => Known(Load(m, i, order), "rcv") = Known(m, "rcv")
           /\ Pend(Load(m, i, order), "rcv") = Pend(m, "rcv") \cup Carried(m, i, "snd")
           /\ Known(Load(m, i, order), "snd") = Known(m, "snd") \ {"state"}
           /\ Pend(Load(m, i, order), "snd") = Pend(m, "snd") \ {"state"}
           /\ Races(Load(m, i, order)) = Races(m)
<1>0. i \in 1..Len(m.carry)
  BY DEF Size
<1> DEFINE t == Touch(m, "rcv", {"state"})
           o == Observe(t, "rcv", t.carry[i], order)
           l == Load(m, i, order)
<1>1. /\ Live(t) /\ Len(t.carry) = Len(m.carry) /\ Len(m.carry) \in Nat
      /\ \A j \in 1..Len(m.carry) : /\ t.carry[j]["snd"] = m.carry[j]["snd"]
                                    /\ t.carry[j]["rcv"] = m.carry[j]["rcv"] \ {"state"}
      /\ t.known["rcv"] = m.known["rcv"] /\ t.known["snd"] = m.known["snd"] \ {"state"}
      /\ t.pend["rcv"] = m.pend["rcv"] /\ t.pend["snd"] = m.pend["snd"] \ {"state"}
      /\ t.races = m.races
  BY TouchingWord, LiveParts
<1>2. t.carry[i] \in [Endpoints -> SUBSET Cells]
  BY <1>0, <1>1, LiveParts
<1>3. /\ Live(o) /\ o.carry = t.carry /\ o.races = t.races
      /\ Acquires(order) => o.known["rcv"] = t.known["rcv"] \cup t.carry[i]["snd"]
      /\ ~Acquires(order) => o.known["rcv"] = t.known["rcv"]
      /\ o.pend["rcv"] = t.pend["rcv"] \cup t.carry[i]["snd"]
      /\ o.known["snd"] = t.known["snd"] /\ o.pend["snd"] = t.pend["snd"]
  <2>1. Live(t)
    BY <1>1
  <2> HIDE DEF t
  <2> QED
    BY <2>1, <1>2, ReceiverObserving
<1>4. l = [carry |-> SubSeq(t.carry, i, Len(t.carry)),
           known |-> o.known, pend |-> o.pend, races |-> o.races]
  <2>1. o = [carry |-> o.carry, known |-> o.known, pend |-> o.pend, races |-> o.races]
    BY <1>3, LiveParts
  <2>2. l = [o EXCEPT !.carry = SubSeq(@, i, Len(@))]
    BY DEF Load
  <2> HIDE DEF o, l
  <2> QED
    BY <1>3, <2>1, <2>2
<1>5. \A j \in i..Len(t.carry) : t.carry[j] \in [Endpoints -> SUBSET Cells]
  BY <1>0, <1>1, LiveParts
<1>6. /\ SubSeq(t.carry, i, Len(t.carry)) \in Seq([Endpoints -> SUBSET Cells])
      /\ Len(SubSeq(t.carry, i, Len(t.carry))) = Len(m.carry) - i + 1
      /\ \A j \in 1..(Len(m.carry) - i + 1) :
            SubSeq(t.carry, i, Len(t.carry))[j] = t.carry[i + j - 1]
  <2> HIDE DEF t
  <2>1. i \in Int /\ Len(t.carry) \in Int /\ i <= Len(t.carry) /\ Len(t.carry) = Len(m.carry)
    BY <1>0, <1>1
  <2>2. Len(t.carry) - i + 1 = Len(m.carry) - i + 1
    BY <2>1
  <2> QED
    BY <2>1, <2>2, <1>5, SubSeqProperties
<1>7. Live(l)
  <2>1. Len(m.carry) - i + 1 \in Nat \ {0}
    BY <1>0, <1>1
  <2> HIDE DEF t, o, l
  <2> QED
    BY <1>1, <1>3, <1>4, <1>6, <2>1, LiveParts DEF Live, Memory
<1>8. \A j \in 1..(Len(m.carry) - i + 1) : i + j - 1 \in 1..Len(m.carry)
  BY <1>0, <1>1
<1> HIDE DEF t, o
<1>9. /\ l.carry = SubSeq(t.carry, i, Len(t.carry)) /\ l.known = o.known /\ l.pend = o.pend
           /\ l.races = o.races
  BY <1>4
<1>10. \A j \in 1..(Len(m.carry) - i + 1) :
          /\ l.carry[j]["snd"] = m.carry[i + j - 1]["snd"]
          /\ l.carry[j]["rcv"] = m.carry[i + j - 1]["rcv"] \ {"state"}
  BY <1>1, <1>6, <1>8, <1>9
<1> HIDE DEF l
<1>11. Size(l) = Size(m) - i + 1
  BY <1>6, <1>9 DEF Size
<1>12. \A j \in 1..(Size(m) - i + 1) :
          /\ Carried(l, j, "snd") = Carried(m, i + j - 1, "snd")
          /\ Carried(l, j, "rcv") = Carried(m, i + j - 1, "rcv") \ {"state"}
  BY <1>10 DEF Size, Carried
<1>13. /\ Acquires(order) => Known(l, "rcv") = Known(m, "rcv") \cup Carried(m, i, "snd")
       /\ ~Acquires(order) => Known(l, "rcv") = Known(m, "rcv")
       /\ Pend(l, "rcv") = Pend(m, "rcv") \cup Carried(m, i, "snd")
  BY <1>0, <1>1, <1>3, <1>9 DEF Known, Pend, Carried
<1>14. /\ Known(l, "snd") = Known(m, "snd") \ {"state"}
            /\ Pend(l, "snd") = Pend(m, "snd") \ {"state"}
       /\ Races(l) = Races(m)
  BY <1>1, <1>3, <1>9 DEF Known, Pend, Races
<1> QED
  BY <1>7, <1>11, <1>12, <1>13, <1>14 DEF l

\* The sender's read-modify-write: it never acquires, and its message is the last one.
LEMMA SenderUpdating ==
    ASSUME NEW m, Live(m), NEW order, ~Acquires(order)
    PROVE  /\ Live(Rmw(m, "snd", order)) /\ Size(Rmw(m, "snd", order)) = Size(m) + 1
           /\ \A j \in 1..Size(m) :
                 /\ Carried(Rmw(m, "snd", order), j, "snd") = Carried(m, j, "snd") \ {"state"}
                 /\ Carried(Rmw(m, "snd", order), j, "rcv") = Carried(m, j, "rcv")
           /\ Releases(order) => Carried(Rmw(m, "snd", order), Size(m) + 1, "snd") = Cells
           /\ Known(Rmw(m, "snd", order), "snd") = Known(m, "snd")
           /\ Pend(Rmw(m, "snd", order), "snd") = Pend(m, "snd") \cup Carried(m, Size(m), "rcv")
           /\ Known(Rmw(m, "snd", order), "rcv") = Known(m, "rcv") \ {"state"}
           /\ Races(Rmw(m, "snd", order)) = Races(m)
<1> DEFINE t == Touch(m, "snd", {"state"})
           n == Len(m.carry)
           last == t.carry[n]
           o == Observe(t, "snd", last, order)
           new == IF Releases(order)
             THEN [last EXCEPT !["snd"] = Cells, !["rcv"] = @ \cup o.known["snd"]] ELSE last
           r == Rmw(m, "snd", order)
<1>1. /\ Live(t) /\ Len(t.carry) = n /\ n \in Nat \ {0}
      /\ \A j \in 1..n : /\ t.carry[j]["rcv"] = m.carry[j]["rcv"]
                         /\ t.carry[j]["snd"] = m.carry[j]["snd"] \ {"state"}
      /\ t.known["snd"] = m.known["snd"] /\ t.known["rcv"] = m.known["rcv"] \ {"state"}
      /\ t.pend["snd"] = m.pend["snd"] /\ t.pend["rcv"] = m.pend["rcv"] \ {"state"}
      /\ t.races = m.races
  BY TouchingWord, LiveParts
<1>2. last \in [Endpoints -> SUBSET Cells]
  BY <1>1, LiveParts
<1>3. /\ Live(o) /\ o.carry = t.carry /\ o.races = t.races
      /\ o.known["snd"] = t.known["snd"] /\ o.pend["snd"] = t.pend["snd"] \cup t.carry[n]["rcv"]
      /\ o.known["rcv"] = t.known["rcv"] /\ o.pend["rcv"] = t.pend["rcv"]
  <2>1. Live(t)
    BY <1>1
  <2> HIDE DEF t
  <2>2. /\ Live(o) /\ o.carry = t.carry /\ o.races = t.races
        /\ o.known["snd"] = t.known["snd"] /\ o.pend["snd"] = t.pend["snd"] \cup last["rcv"]
        /\ o.known["rcv"] = t.known["rcv"] /\ o.pend["rcv"] = t.pend["rcv"]
    BY <2>1, <1>2, SenderObserving
  <2> QED
    BY <2>2 DEF last
<1>4. new \in [Endpoints -> SUBSET Cells] /\ (Releases(order) => new["snd"] = Cells)
  <2>1. o.known["snd"] \subseteq Cells
    <3> HIDE DEF o
    <3> QED
      BY <1>3, LiveParts, Names
  <2> HIDE DEF o, last
  <2> QED
    BY <1>2, <2>1, Names DEF new
<1>5. r = [carry |-> Append(t.carry, new), known |-> o.known, pend |-> o.pend, races |-> o.races]
  <2>1. o = [carry |-> o.carry, known |-> o.known, pend |-> o.pend, races |-> o.races]
    BY <1>3, LiveParts
  <2>2. r = [o EXCEPT !.carry = Append(@, new)]
    BY <1>1, Names DEF Rmw, Publish, Releases
  <2> HIDE DEF o, r, new
  <2> QED
    BY <1>3, <2>1, <2>2
<1>6. t.carry \in Seq([Endpoints -> SUBSET Cells])
  BY <1>1, LiveParts
<1> HIDE DEF t, o, new, last, r
<1>7. /\ Append(t.carry, new) \in Seq([Endpoints -> SUBSET Cells])
           /\ Len(Append(t.carry, new)) = n + 1
      /\ \A j \in 1..n : Append(t.carry, new)[j] = t.carry[j]
      /\ Append(t.carry, new)[n + 1] = new
  BY <1>1, <1>4, <1>6, AppendProperties
<1>8. /\ r.carry = Append(t.carry, new) /\ r.known = o.known /\ r.pend = o.pend /\ r.races = o.races
  BY <1>5
<1>9. Live(r)
  <2>1. n + 1 \in Nat \ {0}
    BY <1>1
  <2>2. /\ o.known \in [Endpoints -> SUBSET Cells] /\ o.pend \in [Endpoints -> SUBSET Cells]
        /\ o.races \in SUBSET Sites
    BY <1>3, LiveParts
  <2> QED
    BY <1>5, <1>7, <2>1, <2>2 DEF Live, Memory
<1>10. /\ r.known["snd"] = m.known["snd"] /\ r.pend["snd"] = m.pend["snd"] \cup m.carry[n]["rcv"]
       /\ r.known["rcv"] = m.known["rcv"] \ {"state"} /\ r.pend["rcv"] = m.pend["rcv"] \ {"state"}
       /\ r.races = m.races
  BY <1>1, <1>3, <1>8
<1>11. \A j \in 1..n : /\ r.carry[j]["snd"] = m.carry[j]["snd"] \ {"state"}
                      /\ r.carry[j]["rcv"] = m.carry[j]["rcv"]
  BY <1>1, <1>7, <1>8
<1>12. Len(r.carry) = n + 1 /\ (Releases(order) => r.carry[n + 1]["snd"] = Cells)
  BY <1>4, <1>7, <1>8
<1> HIDE DEF n
<1>13. n = Len(m.carry)
  BY DEF n
<1>14. /\ Size(r) = Size(m) + 1
       /\ Releases(order) => Carried(r, Size(m) + 1, "snd") = Cells
       /\ \A j \in 1..Size(m) : /\ Carried(r, j, "snd") = Carried(m, j, "snd") \ {"state"}
                               /\ Carried(r, j, "rcv") = Carried(m, j, "rcv")
  BY <1>11, <1>12, <1>13 DEF Size, Carried
<1>15. /\ Known(r, "snd") = Known(m, "snd")
       /\ Pend(r, "snd") = Pend(m, "snd") \cup Carried(m, Size(m), "rcv")
       /\ Known(r, "rcv") = Known(m, "rcv") \ {"state"} /\ Races(r) = Races(m)
  BY <1>10, <1>13 DEF Size, Carried, Known, Pend, Races
<1> QED
  BY <1>9, <1>14, <1>15 DEF r

\* The receiver's: its message is the only one left to read.
LEMMA ReceiverUpdating ==
    ASSUME NEW m, Live(m), NEW order
    PROVE  /\ Live(Rmw(m, "rcv", order)) /\ Size(Rmw(m, "rcv", order)) = 1
           /\ Releases(order) => Carried(Rmw(m, "rcv", order), 1, "rcv") = Cells
           /\ Acquires(order) => Known(Rmw(m, "rcv", order), "rcv") = Known(m, "rcv")
                \cup Carried(m, Size(m), "snd")
           /\ ~Acquires(order) => Known(Rmw(m, "rcv", order), "rcv") = Known(m, "rcv")
           /\ Pend(Rmw(m, "rcv", order), "rcv") = Pend(m, "rcv") \cup Carried(m, Size(m), "snd")
           /\ Known(Rmw(m, "rcv", order), "snd") = Known(m, "snd") \ {"state"}
           /\ Pend(Rmw(m, "rcv", order), "snd") = Pend(m, "snd") \ {"state"}
           /\ Races(Rmw(m, "rcv", order)) = Races(m)
<1> DEFINE t == Touch(m, "rcv", {"state"})
           n == Len(m.carry)
           last == t.carry[n]
           o == Observe(t, "rcv", last, order)
           new == IF Releases(order)
             THEN [last EXCEPT !["rcv"] = Cells, !["snd"] = @ \cup o.known["rcv"]] ELSE last
           r == Rmw(m, "rcv", order)
<1>1. /\ Live(t) /\ Len(t.carry) = n /\ n \in Nat \ {0}
      /\ t.carry[n]["snd"] = m.carry[n]["snd"]
      /\ t.known["rcv"] = m.known["rcv"] /\ t.known["snd"] = m.known["snd"] \ {"state"}
      /\ t.pend["rcv"] = m.pend["rcv"] /\ t.pend["snd"] = m.pend["snd"] \ {"state"}
      /\ t.races = m.races
  BY TouchingWord, LiveParts
<1>2. last \in [Endpoints -> SUBSET Cells]
  BY <1>1, LiveParts
<1>3. /\ Live(o) /\ o.carry = t.carry /\ o.races = t.races
      /\ Acquires(order) => o.known["rcv"] = t.known["rcv"] \cup t.carry[n]["snd"]
      /\ ~Acquires(order) => o.known["rcv"] = t.known["rcv"]
      /\ o.pend["rcv"] = t.pend["rcv"] \cup t.carry[n]["snd"]
      /\ o.known["snd"] = t.known["snd"] /\ o.pend["snd"] = t.pend["snd"]
  <2>1. Live(t)
    BY <1>1
  <2> HIDE DEF t
  <2> QED
    BY <2>1, <1>2, ReceiverObserving
<1>4. new \in [Endpoints -> SUBSET Cells] /\ (Releases(order) => new["rcv"] = Cells)
  <2>1. o.known["rcv"] \subseteq Cells
    <3> HIDE DEF o
    <3> QED
      BY <1>3, LiveParts, Names
  <2> HIDE DEF o, last
  <2> QED
    BY <1>2, <2>1, Names DEF new
<1>5. r = [carry |-> <<new>>, known |-> o.known, pend |-> o.pend, races |-> o.races]
  <2>1. o = [carry |-> o.carry, known |-> o.known, pend |-> o.pend, races |-> o.races]
    BY <1>3, LiveParts
  <2>2. r = [o EXCEPT !.carry = <<new>>]
    BY <1>1, Names DEF Rmw, Publish, Releases
  <2> HIDE DEF o, r, new
  <2> QED
    BY <1>3, <2>1, <2>2
<1> HIDE DEF t, o, new, last, r
<1>6. <<new>> \in Seq([Endpoints -> SUBSET Cells]) /\ Len(<<new>>) = 1 /\ <<new>>[1] = new
  BY <1>4
<1>7. /\ r.carry = <<new>> /\ r.known = o.known /\ r.pend = o.pend /\ r.races = o.races
  BY <1>5
<1>8. Live(r)
  <2>1. /\ o.known \in [Endpoints -> SUBSET Cells] /\ o.pend \in [Endpoints -> SUBSET Cells]
        /\ o.races \in SUBSET Sites
    BY <1>3, LiveParts
  <2>2. 1 \in Nat \ {0}
    OBVIOUS
  <2> QED
    BY <1>5, <1>6, <2>1, <2>2 DEF Live, Memory
<1> HIDE DEF n
<1>9. n = Len(m.carry)
  BY DEF n
<1>10. Size(r) = 1 /\ (Releases(order) => Carried(r, 1, "rcv") = Cells)
  BY <1>4, <1>6, <1>7 DEF Size, Carried
<1>11. /\ Acquires(order) => Known(r, "rcv") = Known(m, "rcv") \cup Carried(m, Size(m), "snd")
       /\ ~Acquires(order) => Known(r, "rcv") = Known(m, "rcv")
       /\ Pend(r, "rcv") = Pend(m, "rcv") \cup Carried(m, Size(m), "snd")
  BY <1>1, <1>3, <1>7, <1>9 DEF Known, Pend, Carried, Size
<1>12. /\ Known(r, "snd") = Known(m, "snd") \ {"state"}
            /\ Pend(r, "snd") = Pend(m, "snd") \ {"state"}
       /\ Races(r) = Races(m)
  BY <1>1, <1>3, <1>7 DEF Known, Pend, Races
<1> QED
  BY <1>8, <1>10, <1>11, <1>12 DEF r

\* The sender's release store carries all it has done.
LEMMA Releasing ==
    ASSUME NEW m, Live(m)
    PROVE  /\ Live(StoreRelease(m, "snd")) /\ Size(StoreRelease(m, "snd")) = Size(m) + 1
           /\ \A j \in 1..Size(m) :
                 /\ Carried(StoreRelease(m, "snd"), j, "snd") = Carried(m, j, "snd") \ {"state"}
                 /\ Carried(StoreRelease(m, "snd"), j, "rcv") = Carried(m, j, "rcv")
           /\ Carried(StoreRelease(m, "snd"), Size(m) + 1, "snd") = Cells
           /\ Known(StoreRelease(m, "snd"), "snd") = Known(m, "snd")
           /\ Known(StoreRelease(m, "snd"), "rcv") = Known(m, "rcv") \ {"state"}
           /\ Races(StoreRelease(m, "snd")) = Races(m)
<1> DEFINE t == Touch(m, "snd", {"state"})
           n == Len(m.carry)
           new == [x \in Endpoints |-> IF x = "snd" THEN Cells ELSE t.known["snd"]]
           r == StoreRelease(m, "snd")
<1>1. /\ Live(t) /\ Len(t.carry) = n /\ n \in Nat \ {0}
      /\ \A j \in 1..n : /\ t.carry[j]["rcv"] = m.carry[j]["rcv"]
                         /\ t.carry[j]["snd"] = m.carry[j]["snd"] \ {"state"}
      /\ t.known["snd"] = m.known["snd"] /\ t.known["rcv"] = m.known["rcv"] \ {"state"}
      /\ t.pend["snd"] = m.pend["snd"] /\ t.pend["rcv"] = m.pend["rcv"] \ {"state"}
      /\ t.races = m.races
  BY TouchingWord, LiveParts
<1>2. new \in [Endpoints -> SUBSET Cells] /\ new["snd"] = Cells
  BY <1>1, LiveParts, Names
<1>3. r = [carry |-> Append(t.carry, new), known |-> t.known, pend |-> t.pend, races |-> t.races]
  <2>1. t = [carry |-> t.carry, known |-> t.known, pend |-> t.pend, races |-> t.races]
    BY <1>1, LiveParts
  <2>2. r = [t EXCEPT !.carry = Append(@, new)]
    BY DEF StoreRelease, Publish
  <2> HIDE DEF t, r, new
  <2> QED
    BY <2>1, <2>2
<1>4. t.carry \in Seq([Endpoints -> SUBSET Cells])
  BY <1>1, LiveParts
<1> HIDE DEF t, new, r
<1>5. /\ Append(t.carry, new) \in Seq([Endpoints -> SUBSET Cells])
           /\ Len(Append(t.carry, new)) = n + 1
      /\ \A j \in 1..n : Append(t.carry, new)[j] = t.carry[j]
      /\ Append(t.carry, new)[n + 1] = new
  BY <1>1, <1>2, <1>4, AppendProperties
<1>6. /\ r.carry = Append(t.carry, new) /\ r.known = t.known /\ r.pend = t.pend /\ r.races = t.races
  BY <1>3
<1>7. Live(r)
  <2>1. n + 1 \in Nat \ {0}
    BY <1>1
  <2>2. /\ t.known \in [Endpoints -> SUBSET Cells] /\ t.pend \in [Endpoints -> SUBSET Cells]
        /\ t.races \in SUBSET Sites
    BY <1>1, LiveParts
  <2> QED
    BY <1>3, <1>5, <2>1, <2>2 DEF Live, Memory
<1>8. /\ \A j \in 1..n : /\ r.carry[j]["snd"] = m.carry[j]["snd"] \ {"state"}
                        /\ r.carry[j]["rcv"] = m.carry[j]["rcv"]
      /\ Len(r.carry) = n + 1 /\ r.carry[n + 1]["snd"] = Cells
  BY <1>1, <1>2, <1>5, <1>6
<1>9. /\ r.known["snd"] = m.known["snd"] /\ r.pend["snd"] = m.pend["snd"]
      /\ r.known["rcv"] = m.known["rcv"] \ {"state"} /\ r.pend["rcv"] = m.pend["rcv"] \ {"state"}
      /\ r.races = m.races
  BY <1>1, <1>6
<1> HIDE DEF n
<1>10. n = Len(m.carry)
  BY DEF n
<1>11. /\ Size(r) = Size(m) + 1 /\ Carried(r, Size(m) + 1, "snd") = Cells
       /\ \A j \in 1..Size(m) : /\ Carried(r, j, "snd") = Carried(m, j, "snd") \ {"state"}
                               /\ Carried(r, j, "rcv") = Carried(m, j, "rcv")
  BY <1>8, <1>10 DEF Size, Carried
<1>12. /\ Known(r, "snd") = Known(m, "snd") /\ Known(r, "rcv") = Known(m, "rcv") \ {"state"}
       /\ Races(r) = Races(m)
  BY <1>9 DEF Known, Races
<1> QED
  BY <1>7, <1>11, <1>12 DEF r

\* A store becomes visible.
LEMMA Exposing ==
    ASSUME NEW m, Live(m), Size(m) > 1
    PROVE  /\ Live(Expose(m)) /\ Size(Expose(m)) = Size(m) - 1
           /\ \A j \in 1..(Size(m) - 1) : \A x : Carried(Expose(m), j, x) = Carried(m, j + 1, x)
           /\ \A x : Known(Expose(m), x) = Known(m, x) /\ Pend(Expose(m), x) = Pend(m, x)
           /\ Races(Expose(m)) = Races(m)
<1>1. Expose(m) = [carry |-> Tail(m.carry), known |-> m.known, pend |-> m.pend, races |-> m.races]
  <2>1. m = [carry |-> m.carry, known |-> m.known, pend |-> m.pend, races |-> m.races]
    BY LiveParts
  <2>2. Expose(m) = [m EXCEPT !.carry = Tail(m.carry)]
    BY DEF Expose
  <2> QED
    BY <2>1, <2>2
<1>2. m.carry \in Seq([Endpoints -> SUBSET Cells]) /\ m.carry # <<>> /\ Len(m.carry) \in Nat
        /\ Len(m.carry) > 1
  BY LiveParts DEF Size
<1>3. /\ Tail(m.carry) \in Seq([Endpoints -> SUBSET Cells]) /\ Len(Tail(m.carry)) = Len(m.carry) - 1
      /\ \A j \in 1..(Len(m.carry) - 1) : Tail(m.carry)[j] = m.carry[j + 1]
  BY <1>2, HeadTailProperties
<1>4. Live(Expose(m))
  BY <1>1, <1>2, <1>3, LiveParts DEF Live, Memory
<1> QED
  BY <1>1, <1>3, <1>4 DEF Size, Carried, Known, Pend, Races

----------------------------------------------------------------------------
(* The order of the accesses: the inductive invariant IInv and StorageSound. *)

\* The memory of a reachable state.
LEMMA Remembered ==
    ASSUME IInv
    PROVE  /\ Live(mem) /\ Size(mem) = Len(mo) /\ Len(mo) \in 1..3 /\ DOMAIN mo = 1..Len(mo)
           /\ state = mo[Len(mo)] /\ mo \in Seq(0..5)
           /\ Known(mem, "snd") \subseteq Cells /\ Known(mem, "rcv") \subseteq Cells
           /\ Pend(mem, "snd") \subseteq Cells /\ Pend(mem, "rcv") \subseteq Cells
           /\ \A i \in 1..Len(mo) : Carried(mem, i, "snd") \subseteq Cells
                /\ Carried(mem, i, "rcv") \subseteq Cells
<1>1. ControlTypeOK /\ mem \in Memory /\ Len(mem.carry) = Len(mo)
  BY DEF IInv, TypeOK
<1>2. mo \in Seq(0..5) /\ Len(mo) \in 1..3
  BY <1>1 DEF ControlTypeOK
<1>3. Live(mem)
  <2>1. Len(mo) \in Nat \ {0}
    BY <1>2
  <2> QED
    BY <1>1, <2>1 DEF Live
<1>4. "snd" \in Endpoints /\ "rcv" \in Endpoints
  BY Names
<1>5. Size(mem) = Len(mo)
  BY <1>1 DEF Size
<1>6. /\ Known(mem, "snd") \subseteq Cells /\ Known(mem, "rcv") \subseteq Cells
      /\ Pend(mem, "snd") \subseteq Cells /\ Pend(mem, "rcv") \subseteq Cells
      /\ \A i \in 1..Len(mo) : Carried(mem, i, "snd") \subseteq Cells
           /\ Carried(mem, i, "rcv") \subseteq Cells
  BY <1>1, <1>3, <1>4, LiveParts DEF Known, Pend, Carried
<1> QED
  BY <1>2, <1>3, <1>5, <1>6, LenProperties DEF state

\* What a live memory knows are cells.
LEMMA Bounded ==
    ASSUME NEW m, Live(m)
    PROVE  /\ Known(m, "snd") \subseteq Cells /\ Known(m, "rcv") \subseteq Cells
           /\ Pend(m, "snd") \subseteq Cells /\ Pend(m, "rcv") \subseteq Cells
           /\ Size(m) \in Nat \ {0}
  BY LiveParts, Names DEF Known, Pend, Size

\* The memory stays a memory of the word.
LEMMA StillTyped ==
    ASSUME ControlInv', Live(mem'), Size(mem') = Len(mo')
    PROVE  TypeOK'
  BY DEF ControlInv, Live, Size, TypeOK

\* A load, with or without a fence after it: what the receiver knows only grows,
\* and a terminal value that it acquires tells it everything.
LEMMA LoadKeepsOrder ==
    ASSUME IInv, ControlInv', rpc \notin Over \cup Settled, rpc' \notin Over, spc' = spc,
           NEW i \in DOMAIN mo, mo' = SubSeq(mo, i, Len(mo)), NEW order,
           mem' = Load(mem, i, order) \/ mem' = Fence(Load(mem, i, order), "rcv"),
           rpc' \in {"unbind_set", "unbind_disconnected"} \cup Settled =>
              /\ mo[i] \in {EVENT_SET, EVENT_DISCONNECTED}
              /\ Acquires(order) \/ mem' = Fence(Load(mem, i, order), "rcv"),
           rpc' \in Own => rpc \in Own \/ mo[i] = EVENT_BOUND
    PROVE  TypeOK' /\ OrderInv'
<1> DEFINE l == Load(mem, i, order)
           n == Len(mo)
           k == n - i + 1
<1>1. /\ Live(mem) /\ Size(mem) = n /\ n \in 1..3 /\ DOMAIN mo = 1..n /\ i \in 1..n
      /\ Known(mem, "rcv") \subseteq Cells /\ Pend(mem, "rcv") \subseteq Cells
  BY Remembered
<1>2. /\ Live(l) /\ Size(l) = k
      /\ \A j \in 1..k : /\ Carried(l, j, "snd") = Carried(mem, i + j - 1, "snd")
                         /\ Carried(l, j, "rcv") = Carried(mem, i + j - 1, "rcv") \ {"state"}
      /\ Acquires(order) => Known(l, "rcv") = Known(mem, "rcv") \cup Carried(mem, i, "snd")
      /\ ~Acquires(order) => Known(l, "rcv") = Known(mem, "rcv")
      /\ Pend(l, "rcv") = Pend(mem, "rcv") \cup Carried(mem, i, "snd")
      /\ Known(l, "snd") = Known(mem, "snd") \ {"state"}
      /\ Pend(l, "snd") = Pend(mem, "snd") \ {"state"}
      /\ Races(l) = Races(mem)
  BY <1>1, Loading
<1> HIDE DEF l
<1>3. /\ Live(Fence(l, "rcv")) /\ Size(Fence(l, "rcv")) = Size(l)
      /\ \A j, x : Carried(Fence(l, "rcv"), j, x) = Carried(l, j, x)
      /\ \A x : Pend(Fence(l, "rcv"), x) = Pend(l, x)
      /\ Known(Fence(l, "rcv"), "rcv") = Known(l, "rcv") \cup Pend(l, "rcv")
      /\ Known(Fence(l, "rcv"), "snd") = Known(l, "snd") /\ Races(Fence(l, "rcv")) = Races(l)
  BY <1>2, Fencing, Names
<1>4. mem' = l \/ mem' = Fence(l, "rcv")
  BY DEF l
<1>5. /\ Live(mem') /\ Size(mem') = k
      /\ \A j \in 1..k : /\ Carried(mem', j, "snd") = Carried(mem, i + j - 1, "snd")
                         /\ Carried(mem', j, "rcv") = Carried(mem, i + j - 1, "rcv") \ {"state"}
      /\ Known(mem, "rcv") \subseteq Known(mem', "rcv")
      /\ Known(mem', "snd") = Known(mem, "snd") \ {"state"}
      /\ Pend(mem', "snd") = Pend(mem, "snd") \ {"state"}
      /\ Races(mem') = Races(mem)
  BY <1>2, <1>3, <1>4
<1>6. Acquires(order) \/ mem' = Fence(l, "rcv") =>
        Carried(mem, i, "snd") \subseteq Known(mem', "rcv")
  BY <1>2, <1>3, <1>4
<1>7. /\ mo \in Seq(0..5) /\ Len(mo') = k /\ DOMAIN mo' = 1..k
      /\ \A j \in 1..k : mo'[j] = mo[i + j - 1]
  BY <1>1, Remembered
<1>8. ControlInv /\ OrderInv
  BY DEF IInv
<1>9. TypeOK'
  BY <1>5, <1>7, StillTyped
<1>10. TerminalCarries'
  BY <1>1, <1>5, <1>7, <1>8 DEF OrderInv, TerminalCarries
<1>11. OutcomeKnown'
  <2>1. CASE rpc' \in {"unbind_set", "unbind_disconnected"} \cup Settled
    <3>1. Carried(mem, i, "snd") = Cells
      BY <2>1, <1>8 DEF OrderInv, TerminalCarries
    <3>2. Known(mem', "rcv") \subseteq Cells
      BY <1>5, Bounded
    <3> QED
      BY <2>1, <3>1, <3>2, <1>6 DEF OutcomeKnown, l
  <2> QED
    BY <2>1 DEF OutcomeKnown
<1>12. AwaiterKnown'
  <2>1. Unread({EVENT_BOUND}) => Unread({EVENT_BOUND})'
    BY <1>1, <1>7 DEF Unread
  <2>2. mo[i] = EVENT_BOUND => ~Unread({EVENT_BOUND})
    BY DEF Unread
  <2> QED
    BY <2>1, <2>2, <1>5, <1>8 DEF OrderInv, AwaiterKnown
<1>13. ValueKnown'
  BY <1>5, <1>8 DEF OrderInv, ValueKnown
<1>14. AnnouncedCarries'
  <2>1. state' = state
    BY <1>1, <1>7 DEF state
  <2>2. Carried(mem', Len(mo'), "rcv") = Carried(mem, n, "rcv") \ {"state"}
    <3>1. k \in 1..k /\ i + k - 1 = n
      BY <1>1
    <3> HIDE DEF n, k
    <3> QED
      BY <3>1, <1>5, <1>7
  <2> QED
    BY <2>1, <2>2, <1>5, <1>8 DEF OrderInv, AnnouncedCarries
<1>15. DepartureCarries'
  <2>1. spc \notin {"reclaim", "release_set"}
    BY DEF IInv, ControlInv, WordInv
  <2> QED
    BY <2>1 DEF DepartureCarries
<1>16. RacesInv'
  BY <1>5, <1>8 DEF OrderInv, RacesInv
<1> QED
  BY <1>9, <1>10, <1>11, <1>12, <1>13, <1>14, <1>15, <1>16 DEF OrderInv

\* What the pieces of the protocol's invariant say that the order of accesses needs.
LEMMA Phases ==
    ASSUME IInv
    PROVE  /\ spc \in Untouched =>
                 /\ Len(mo) = 1 /\ state = mo[1]
                      /\ (Unread({EVENT_SET, EVENT_DISCONNECTED}) \/ rpc \in Over)
                 /\ rpc \notin Over => rpc \notin {"unbind_set", "unbind_disconnected"} \cup Settled
                 /\ state = EVENT_DISCONNECTED => rpc \in Over
                 /\ state \in {EVENT_BOUND, EVENT_AWAITING, EVENT_DISCONNECTED}
           /\ spc \in Locking =>
                 /\ Unread({EVENT_SET, EVENT_DISCONNECTED}) /\ rpc \notin Over
                 /\ rpc \notin {"unbind_set", "unbind_disconnected"} \cup Settled
           /\ spc \in {"reclaim", "release_set", "release_drop", "drop_value"} => rpc \in Over
           /\ rpc \in Own =>
                 /\ state # EVENT_AWAITING /\ rpc \notin Over
                 /\ spc \notin {"set_take", "drop_take"}
           /\ rpc \in Settled => rpc \notin Over /\ spc \notin Untouched /\ spc \notin Locking
           /\ rpc \notin Over /\ state = EVENT_AWAITING => spc \in Untouched
<1>1. ControlInv
  BY DEF IInv
<1>2. /\ DOMAIN mo = 1..Len(mo) /\ Len(mo) \in 1..3 /\ state = mo[Len(mo)] /\ 1 \in DOMAIN mo
      /\ Len(mo) \in DOMAIN mo
  BY <1>1, Latest DEF ControlInv
<1>3. WordInv /\ HistoryInv /\ SawInv /\ AwaiterInv /\ spc \in SenderPcs
  BY <1>1 DEF ControlInv, ControlTypeOK
<1>4. rpc \in Settled \cup Own => rpc \notin Over
  BY DEF Settled, Own, Holding, Over
<1>5. rpc \in {"unbind_set", "unbind_disconnected"} \cup Settled =>
         mo[1] \in {EVENT_SET, EVENT_DISCONNECTED} /\ state = mo[1]
  <2>1. rpc \in {"unbind_set", "unbind_disconnected"} \cup Settled =>
          mo[1] \in {EVENT_SET, EVENT_DISCONNECTED}
    BY <1>3 DEF SawInv, Settled
  <2>2. rpc \in {"unbind_set", "unbind_disconnected"} \cup Settled => rpc \notin Over
    BY DEF Settled, Over
  <2> QED
    BY <2>1, <2>2, <1>2, <1>3 DEF HistoryInv
<1>6. spc \in Untouched =>
        /\ Len(mo) = 1 /\ state = mo[1] /\ (Unread({EVENT_SET, EVENT_DISCONNECTED}) \/ rpc \in Over)
        /\ rpc \notin Over => rpc \notin {"unbind_set", "unbind_disconnected"} \cup Settled
        /\ state = EVENT_DISCONNECTED => rpc \in Over
        /\ state \in {EVENT_BOUND, EVENT_AWAITING, EVENT_DISCONNECTED}
  <2>1. SUFFICES ASSUME spc \in Untouched
                 PROVE  /\ Len(mo) = 1 /\ state = mo[1]
                             /\ (Unread({EVENT_SET, EVENT_DISCONNECTED}) \/ rpc \in Over)
                        /\ rpc \notin Over => rpc \notin {"unbind_set", "unbind_disconnected"}
                             \cup Settled
                        /\ state = EVENT_DISCONNECTED => rpc \in Over
                        /\ state \in {EVENT_BOUND, EVENT_AWAITING, EVENT_DISCONNECTED}
    OBVIOUS
  <2>2. /\ Len(mo) = 1
        /\ rpc \in Over => state = EVENT_DISCONNECTED
        /\ rpc \notin Over => state \in {EVENT_BOUND, EVENT_AWAITING}
    BY <2>1, <1>3 DEF WordInv
  <2>3. state = mo[1] /\ DOMAIN mo = {1}
    BY <2>2, <1>2
  <2>4. rpc \notin Over => Unread({EVENT_SET, EVENT_DISCONNECTED})
    BY <2>2, <2>3, Values DEF Unread
  <2> QED
    BY <2>2, <2>3, <2>4, <1>5, Values
<1>7. spc \in Locking =>
        /\ Unread({EVENT_SET, EVENT_DISCONNECTED}) /\ rpc \notin Over
        /\ rpc \notin {"unbind_set", "unbind_disconnected"} \cup Settled
  BY <1>2, <1>3, <1>5, Values DEF WordInv, HistoryInv, Unread
<1>8. spc \in {"reclaim", "release_set", "release_drop", "drop_value"} => rpc \in Over
  BY <1>3 DEF WordInv
<1>9. rpc \in Own => state # EVENT_AWAITING /\ rpc \notin Over
        /\ spc \notin {"set_take", "drop_take"}
  <2>1. rpc \in {"unbind_set", "unbind_disconnected"} => state # EVENT_AWAITING
    BY <1>5, Values
  <2>2. rpc \in {"bound_write", "bound_cas", "awaiting_drop", "cancel_awaiter", "unbind_signaling"} =>
           state # EVENT_AWAITING
    BY <1>2, <1>3 DEF SawInv, Unread
  <2> QED
    BY <2>1, <2>2, <1>3, <1>4 DEF Own, Holding, AwaiterInv
<1>10. rpc \in Settled => rpc \notin Over /\ spc \notin Untouched /\ spc \notin Locking
  BY <1>4, <1>6, <1>7
<1>11. rpc \notin Over /\ state = EVENT_AWAITING => spc \in Untouched
  BY <1>3, Values DEF WordInv, Locking, Untouched, SenderPcs
<1> QED
  BY <1>6, <1>7, <1>8, <1>9, <1>10, <1>11

\* The receiver's access to a cell that it knows the sender to be done with.
LEMMA ReceiverAccessKeepsOrder ==
    ASSUME IInv, ControlInv', mo' = mo, spc' = spc,
           NEW C \in SUBSET Cells, NEW site \in Sites,
           mem' = Access(mem, "rcv", C, site) \/ mem' = Access(Fence(mem, "rcv"), "rcv", C, site),
           C \subseteq Known(mem, "rcv"), rpc \notin Over,
           "awaiter" \in C => spc \notin {"set_take", "drop_take"}
             /\ ~(spc \in Untouched /\ state = EVENT_AWAITING),
           "value" \in C => spc \notin Untouched,
           rpc' \in Over => spc \notin Untouched,
           rpc' \in {"unbind_set", "unbind_disconnected"} \cup Settled => Known(mem, "rcv") = Cells,
           rpc' \in Own => "awaiter" \in Known(mem, "rcv"),
           rpc \in Settled => rpc' \in Settled \cup Over
    PROVE  TypeOK' /\ OrderInv'
<1> DEFINE f == Fence(mem, "rcv")
           n == Len(mo)
<1>1. /\ Live(mem) /\ Size(mem) = n /\ n \in 1..3 /\ DOMAIN mo = 1..n
      /\ Known(mem, "rcv") \subseteq Cells /\ Pend(mem, "rcv") \subseteq Cells
  BY Remembered
<1>2. /\ Live(f) /\ Size(f) = n
      /\ \A j, x : Carried(f, j, x) = Carried(mem, j, x)
      /\ \A x : Pend(f, x) = Pend(mem, x)
      /\ Known(f, "rcv") = Known(mem, "rcv") \cup Pend(mem, "rcv")
      /\ Known(f, "snd") = Known(mem, "snd") /\ Races(f) = Races(mem)
  BY <1>1, Fencing, Names
<1> HIDE DEF f
<1>3. PICK m : /\ m = mem \/ m = f
               /\ mem' = Access(m, "rcv", C, site)
  BY DEF f
<1>4. /\ Live(m) /\ Size(m) = n
      /\ \A j \in 1..n : /\ Carried(m, j, "snd") = Carried(mem, j, "snd")
                         /\ Carried(m, j, "rcv") = Carried(mem, j, "rcv")
      /\ Pend(m, "snd") = Pend(mem, "snd") /\ Known(m, "snd") = Known(mem, "snd")
      /\ Known(mem, "rcv") \subseteq Known(m, "rcv") /\ Races(m) = Races(mem)
  BY <1>1, <1>2, <1>3
<1>5. /\ Live(mem') /\ Size(mem') = n
      /\ \A j \in 1..n : /\ Carried(mem', j, "snd") = Carried(m, j, "snd")
                         /\ Carried(mem', j, "rcv") = Carried(m, j, "rcv") \ C
      /\ Known(mem', "rcv") = Known(m, "rcv")
      /\ Known(mem', "snd") = Known(m, "snd") \ C /\ Pend(mem', "snd") = Pend(m, "snd") \ C
      /\ Races(mem') = Races(m)
  <2>1. Accessed(mem', m, "rcv", "snd", C, site)
    BY <1>3, <1>4, ReceiverAccessing
  <2> QED
    BY <2>1, <1>4 DEF Accessed
<1>6. ControlInv /\ OrderInv
  BY DEF IInv
<1>7. Len(mo') = n /\ DOMAIN mo' = 1..n /\ state' = state
        /\ (Unread({EVENT_BOUND})' <=> Unread({EVENT_BOUND}))
  BY <1>1 DEF state, Unread
<1>8. TypeOK'
  BY <1>5, <1>7, StillTyped
<1>9. TerminalCarries'
  BY <1>1, <1>4, <1>5, <1>6, <1>7 DEF OrderInv, TerminalCarries
<1>10. OutcomeKnown'
  <2>1. Known(mem', "rcv") \subseteq Cells
    BY <1>5, Bounded
  <2> QED
    BY <2>1, <1>4, <1>5 DEF OutcomeKnown
<1>11. AwaiterKnown'
  BY <1>4, <1>5, <1>6, <1>7 DEF OrderInv, AwaiterKnown
<1>12. ValueKnown'
  <2>1. spc # "reclaim"
    BY Phases
  <2> QED
    BY <2>1, <1>4, <1>5, <1>6 DEF OrderInv, ValueKnown
<1>13. AnnouncedCarries'
  BY <1>1, <1>4, <1>5, <1>6, <1>7 DEF OrderInv, AnnouncedCarries
<1>14. DepartureCarries'
  <2>1. spc \notin {"reclaim", "release_set"}
    BY Phases
  <2> QED
    BY <2>1 DEF DepartureCarries
<1>15. RacesInv'
  BY <1>4, <1>5, <1>6 DEF OrderInv, RacesInv
<1> QED
  BY <1>8, <1>9, <1>10, <1>11, <1>12, <1>13, <1>14, <1>15 DEF OrderInv

\* The same for the sender, where nothing that the receiver relies on is terminal.
LEMMA SenderAccessKeepsOrder ==
    ASSUME IInv, ControlInv', mo' = mo, rpc' = rpc,
           NEW C \in SUBSET Cells, NEW site \in Sites,
           mem' = Access(mem, "snd", C, site) \/ mem' = Access(Fence(mem, "snd"), "snd", C, site),
           \/ C \subseteq Known(mem, "snd") \/ site = "snd_release_drop"
           \/ C \subseteq Pend(mem, "snd") /\ mem' = Access(Fence(mem, "snd"), "snd", C, site),
           rpc \in Over \/ Unread({EVENT_SET, EVENT_DISCONNECTED}),
           rpc \notin {"unbind_set", "unbind_disconnected"} \cup Settled,
           "awaiter" \in C => rpc \in Over \/ (rpc \notin Own /\ Unread({EVENT_BOUND})),
           spc' \in {"fetch_add", "set_store", "drop_store", "drop_value", "done"},
           spc' = "fetch_add" => spc = "idle" /\ "awaiter" \notin C
    PROVE  TypeOK' /\ OrderInv'
<1> DEFINE f == Fence(mem, "snd")
           n == Len(mo)
<1>1. Live(mem) /\ Size(mem) = n /\ n \in 1..3 /\ DOMAIN mo = 1..n
  BY Remembered
<1>2. /\ Live(f) /\ Size(f) = n
      /\ \A j, x : Carried(f, j, x) = Carried(mem, j, x)
      /\ \A x : Pend(f, x) = Pend(mem, x)
      /\ Known(f, "snd") = Known(mem, "snd") \cup Pend(mem, "snd")
      /\ Known(f, "rcv") = Known(mem, "rcv") /\ Races(f) = Races(mem)
  BY <1>1, Fencing, Names
<1>3. PICK m : /\ m = mem \/ m = f
               /\ mem' = Access(m, "snd", C, site)
               /\ site = "snd_release_drop" \/ C \subseteq Known(m, "snd")
  BY <1>2
<1> HIDE DEF f
<1>4. /\ Live(m) /\ Size(m) = n
      /\ \A j \in 1..n : /\ Carried(m, j, "snd") = Carried(mem, j, "snd")
                         /\ Carried(m, j, "rcv") = Carried(mem, j, "rcv")
      /\ Pend(m, "snd") = Pend(mem, "snd") /\ Known(m, "rcv") = Known(mem, "rcv")
      /\ Known(mem, "snd") \subseteq Known(m, "snd") /\ Races(m) = Races(mem)
  BY <1>1, <1>2, <1>3
<1>5. /\ Live(mem') /\ Size(mem') = n
      /\ \A j \in 1..n : /\ Carried(mem', j, "snd") = Carried(m, j, "snd") \ C
                         /\ Carried(mem', j, "rcv") = Carried(m, j, "rcv")
      /\ Known(mem', "snd") = Known(m, "snd") /\ Pend(mem', "snd") = Pend(m, "snd")
      /\ Known(mem', "rcv") = Known(m, "rcv") \ C
      /\ Races(mem') \subseteq Races(m) \cup {site}
      /\ C \subseteq Known(m, "snd") => Races(mem') = Races(m)
  <2>1. Accessed(mem', m, "snd", "rcv", C, site)
    BY <1>3, <1>4, SenderAccessing
  <2> QED
    BY <2>1, <1>4 DEF Accessed
<1>6. ControlInv /\ OrderInv
  BY DEF IInv
<1>7. Len(mo') = n /\ DOMAIN mo' = 1..n /\ state' = state /\ (\A vs : Unread(vs)' <=> Unread(vs))
  BY <1>1 DEF state, Unread
<1>8. TypeOK'
  BY <1>5, <1>7, StillTyped
<1>9. TerminalCarries'
  BY <1>7 DEF TerminalCarries, Unread
<1>10. OutcomeKnown'
  BY DEF OutcomeKnown
<1>11. AwaiterKnown'
  <2>1. rpc \in Own => rpc \notin Over
    BY Phases
  <2>2. ~Unread({EVENT_BOUND})' => ~Unread({EVENT_BOUND})
    BY <1>7
  <2> QED
    BY <2>1, <2>2, <1>4, <1>5, <1>6 DEF OrderInv, AwaiterKnown, Untouched
<1>12. ValueKnown'
  BY <1>4, <1>5, <1>6 DEF OrderInv, ValueKnown, Untouched
<1>13. AnnouncedCarries'
  BY <1>1, <1>4, <1>5, <1>6, <1>7 DEF OrderInv, AnnouncedCarries, Untouched
<1>14. DepartureCarries'
  BY <1>1, <1>4, <1>5, <1>6, <1>7 DEF OrderInv, DepartureCarries, Untouched
<1>15. RacesInv'
  BY <1>3, <1>4, <1>5, <1>6 DEF OrderInv, RacesInv
<1> QED
  BY <1>8, <1>9, <1>10, <1>11, <1>12, <1>13, <1>14, <1>15 DEF OrderInv

\* Steps of user code, and of endpoints that only change what they do next.
LEMMA NoAccessKeepsOrder ==
    ASSUME IInv, ControlInv', mo' = mo, mem' = mem,
           rpc' \in Over <=> rpc \in Over,
           rpc' \notin {"unbind_set", "unbind_disconnected"} \cup Settled \cup Own \/ rpc' = rpc,
           rpc \notin Settled \/ rpc' = rpc,
           spc' = spc \/ spc' = "done"
    PROVE  TypeOK' /\ OrderInv'
<1>1. ControlInv /\ OrderInv
  BY DEF IInv
<1>2. state' = state /\ (Unread({EVENT_BOUND})' <=> Unread({EVENT_BOUND}))
  BY DEF state, Unread
<1>3. TypeOK'
  BY StillTyped, Remembered
<1>4. TerminalCarries'
  BY <1>1 DEF OrderInv, TerminalCarries
<1>5. OutcomeKnown'
  BY <1>1 DEF OrderInv, OutcomeKnown
<1>6. AwaiterKnown'
  BY <1>1, <1>2 DEF OrderInv, AwaiterKnown, Untouched
<1>7. ValueKnown' /\ AnnouncedCarries'
  BY <1>1, <1>2 DEF OrderInv, ValueKnown, AnnouncedCarries, Untouched
<1>8. DepartureCarries' /\ RacesInv'
  BY <1>1 DEF OrderInv, DepartureCarries, RacesInv, Untouched
<1> QED
  BY <1>3, <1>4, <1>5, <1>6, <1>7, <1>8 DEF OrderInv

\* The value is written before the word is touched.
LEMMA WriteValueOrder == ASSUME IInv, ControlInv', WriteValue PROVE TypeOK' /\ OrderInv'
<1>1. /\ spc = "idle" /\ spc' = "fetch_add" /\ mo' = mo /\ rpc' = rpc
      /\ mem' = Access(mem, "snd", {"value"}, "value_write")
  BY DEF WriteValue, SenderGoto, receiverVars
<1>2. "value" \in Known(mem, "snd")
  BY <1>1 DEF IInv, OrderInv, ValueKnown, Untouched
<1>3. /\ rpc \in Over \/ Unread({EVENT_SET, EVENT_DISCONNECTED})
      /\ rpc \notin {"unbind_set", "unbind_disconnected"} \cup Settled
  BY <1>1, Phases DEF Untouched, Over, Settled
<1>4. {"value"} \in SUBSET Cells /\ "value_write" \in Sites
  BY DEF Cells, Sites
<1> QED
  BY <1>1, <1>2, <1>3, <1>4, SenderAccessKeepsOrder

\* The waker is taken out of an awaiter that the sender has locked.
LEMMA TakeWakerOrder ==
    ASSUME IInv, ControlInv', TakeWakerToSet \/ TakeWakerToDrop
    PROVE  TypeOK' /\ OrderInv'
<1>1. PICK site \in {"set_take", "drop_take"} :
         /\ spc \in {"set_take", "drop_take"} /\ spc' \in {"set_store", "drop_store"}
         /\ mo' = mo /\ rpc' = rpc
         /\ mem' = Access(Fence(mem, "snd"), "snd", {"awaiter"}, site)
  BY DEF TakeWakerToSet, TakeWakerToDrop, TakeWaker, SenderGoto, receiverVars
<1>2. {"awaiter"} \subseteq Pend(mem, "snd")
  BY <1>1 DEF IInv, OrderInv, AnnouncedCarries
<1>3. /\ Unread({EVENT_SET, EVENT_DISCONNECTED})
      /\ rpc \notin {"unbind_set", "unbind_disconnected"} \cup Settled
  BY <1>1, Phases DEF Locking
<1>4. rpc \notin Own /\ Unread({EVENT_BOUND})
  BY <1>1 DEF IInv, ControlInv, AwaiterInv
<1>5. {"awaiter"} \in SUBSET Cells /\ site \in Sites
  BY DEF Cells, Sites
<1> QED
  BY <1>1, <1>2, <1>3, <1>4, <1>5, SenderAccessKeepsOrder

\* The sender releases the storage after the receiver's departure is known to it.
LEMMA SenderReleaseOrder == ASSUME IInv, ControlInv', SenderRelease PROVE TypeOK' /\ OrderInv'
<1>1. PICK site \in {"snd_release_set", "snd_release_drop"} :
         /\ spc \in {"release_set", "release_drop"} /\ spc' \in {"drop_value", "done"}
         /\ mo' = mo /\ rpc' = rpc
         /\ mem' = Access(mem, "snd", Cells, site)
         /\ site = "snd_release_drop" \/ spc = "release_set"
  BY DEF SenderRelease, SenderGoto, receiverVars
<1>2. site = "snd_release_drop" \/ Cells \subseteq Known(mem, "snd")
  BY <1>1 DEF IInv, OrderInv, DepartureCarries
<1>3. rpc \in Over /\ rpc \notin {"unbind_set", "unbind_disconnected"} \cup Settled
  <2>1. rpc \in Over
    BY <1>1, Phases
  <2> QED
    BY <2>1 DEF Over, Settled
<1>4. Cells \in SUBSET Cells /\ site \in Sites
  BY DEF Cells, Sites
<1> QED
  BY <1>1, <1>2, <1>3, <1>4, SenderAccessKeepsOrder

\* The fence comes after the value is read back, and before the release.
LEMMA ReclaimOrder == ASSUME IInv, ControlInv', Reclaim PROVE TypeOK' /\ OrderInv'
<1> DEFINE a == Access(mem, "snd", {"value"}, "reclaim")
<1>1. /\ spc = "reclaim" /\ spc' = "release_set" /\ mo' = mo /\ rpc' = rpc
      /\ mem' = Fence(a, "snd")
  BY DEF Reclaim, SenderGoto, receiverVars
<1>2. ControlInv /\ OrderInv /\ rpc \in Over
  BY <1>1, Phases DEF IInv
<1>3. Live(mem) /\ Size(mem) = Len(mo)
  BY Remembered
<1>4. {"value"} \in SUBSET Cells /\ "reclaim" \in Sites
  BY DEF Cells, Sites
<1>5. Accessed(a, mem, "snd", "rcv", {"value"}, "reclaim")
  BY <1>3, <1>4, SenderAccessing
<1>6. "value" \in Known(mem, "snd") /\ Pend(mem, "snd") = Cells
  BY <1>1, <1>2 DEF OrderInv, ValueKnown, DepartureCarries
<1>7. Live(a) /\ Size(a) = Len(mo) /\ Pend(a, "snd") = Cells /\ Races(a) = Races(mem)
  BY <1>3, <1>5, <1>6 DEF Accessed
<1> HIDE DEF a
<1>8. /\ Live(Fence(a, "snd")) /\ Size(Fence(a, "snd")) = Size(a)
      /\ Known(Fence(a, "snd"), "snd") = Known(a, "snd") \cup Pend(a, "snd")
      /\ Races(Fence(a, "snd")) = Races(a)
  BY <1>7, Fencing, Names
<1>9. Live(mem') /\ Size(mem') = Len(mo') /\ Known(mem', "snd") = Cells /\ Races(mem') = Races(mem)
  <2>1. Known(mem', "snd") \subseteq Cells
    BY <1>1, <1>8, Bounded
  <2> QED
    BY <2>1, <1>1, <1>7, <1>8
<1>10. TypeOK'
  BY <1>9, StillTyped
<1>11. rpc' \in Over /\ rpc' \notin {"unbind_set", "unbind_disconnected"} \cup Settled \cup Own
  BY <1>1, <1>2 DEF Over, Settled, Own, Holding
<1> QED
  BY <1>1, <1>2, <1>9, <1>10, <1>11
     DEF OrderInv, TerminalCarries, OutcomeKnown, AwaiterKnown, ValueKnown, AnnouncedCarries,
         DepartureCarries, RacesInv, Untouched

\* The sender's first operation on the word takes what the receiver left there.
LEMMA SenderUpdateKeepsOrder ==
    ASSUME IInv, ControlInv', rpc' = rpc, spc \in Untouched, NEW v, mo' = Append(mo, v),
           NEW order, ~Acquires(order), mem' = Rmw(mem, "snd", order),
           Releases(order) \/ v \notin {EVENT_SET, EVENT_DISCONNECTED},
           spc' \in {"set_take", "drop_take"} => state = EVENT_AWAITING,
           spc' = "reclaim" => state = EVENT_DISCONNECTED,
           spc' \notin Untouched \cup {"release_set"}
    PROVE  TypeOK' /\ OrderInv'
<1> DEFINE n == Len(mo)
<1>1. /\ Live(mem) /\ Size(mem) = n /\ n \in 1..3 /\ DOMAIN mo = 1..n /\ mo \in Seq(0..5)
      /\ \A i \in 1..n : Carried(mem, i, "rcv") \subseteq Cells
  BY Remembered
<1>2. /\ Live(mem') /\ Size(mem') = n + 1
      /\ \A j \in 1..n : /\ Carried(mem', j, "snd") = Carried(mem, j, "snd") \ {"state"}
                         /\ Carried(mem', j, "rcv") = Carried(mem, j, "rcv")
      /\ Releases(order) => Carried(mem', n + 1, "snd") = Cells
      /\ Known(mem', "snd") = Known(mem, "snd")
      /\ Pend(mem', "snd") = Pend(mem, "snd") \cup Carried(mem, n, "rcv")
      /\ Known(mem', "rcv") = Known(mem, "rcv") \ {"state"}
      /\ Races(mem') = Races(mem)
  BY <1>1, SenderUpdating
<1>3. ControlInv /\ OrderInv
  BY DEF IInv
<1>4. mo' \in Seq(0..5)
  BY DEF ControlInv, ControlTypeOK
<1>5. Len(mo') = n + 1 /\ DOMAIN mo' = 1..(n + 1) /\ mo'[n + 1] = v
        /\ (\A i \in 1..n : mo'[i] = mo[i])
  BY <1>1, <1>4
<1>6. TypeOK'
  BY <1>2, <1>5, StillTyped
<1>7. /\ Unread({EVENT_SET, EVENT_DISCONNECTED}) \/ rpc \in Over
      /\ rpc \notin Over => rpc \notin {"unbind_set", "unbind_disconnected"} \cup Settled
      /\ state = EVENT_DISCONNECTED => rpc \in Over
  BY Phases
<1>8. TerminalCarries'
  BY <1>1, <1>2, <1>5, <1>7 DEF TerminalCarries, Unread
<1>9. OutcomeKnown'
  BY <1>7 DEF OutcomeKnown, Over, Settled
<1>10. AwaiterKnown'
  <2>1. rpc \in Own => rpc \notin Over
    BY Phases
  <2>2. rpc \notin Over => "awaiter" \in Known(mem, "rcv")
    BY <1>3 DEF OrderInv, AwaiterKnown
  <2> QED
    BY <2>1, <2>2, <1>2 DEF AwaiterKnown
<1>11. ValueKnown'
  BY <1>2, <1>3 DEF OrderInv, ValueKnown
<1>12. AnnouncedCarries'
  BY <1>1, <1>2, <1>3 DEF OrderInv, AnnouncedCarries
<1>13. DepartureCarries'
  <2>1. Pend(mem', "snd") \subseteq Cells
    BY <1>2, Bounded
  <2> QED
    BY <2>1, <1>1, <1>2, <1>3, <1>7 DEF OrderInv, DepartureCarries
<1>14. RacesInv'
  BY <1>2, <1>3 DEF OrderInv, RacesInv
<1> QED
  BY <1>6, <1>8, <1>9, <1>10, <1>11, <1>12, <1>13, <1>14 DEF OrderInv

\* fetch_add is AcqRel.
LEMMA FetchAddOrder == ASSUME IInv, ControlInv', FetchAdd PROVE TypeOK' /\ OrderInv'
<1>1. /\ spc = "fetch_add" /\ mo' = Append(mo, state + 1) /\ rpc' = rpc
      /\ mem' = Rmw(mem, "snd", "Release")
      /\ spc' \in {"done", "set_take", "reclaim", "unreachable"}
      /\ spc' = "set_take" => state = EVENT_AWAITING
      /\ spc' = "reclaim" => state = EVENT_DISCONNECTED
  BY Values DEF FetchAdd, SenderGoto, receiverVars
<1>2. Releases("Release") /\ ~Acquires("Release")
  BY DEF Releases, Acquires
<1> QED
  BY <1>1, <1>2, SenderUpdateKeepsOrder DEF Untouched

\* The swap of a dropped sender is AcqRel.
LEMMA SenderDroppedOrder == ASSUME IInv, ControlInv', SenderDropped PROVE TypeOK' /\ OrderInv'
<1>1. /\ spc = "idle" /\ mo' = Append(mo, EVENT_SIGNALING) /\ rpc' = rpc
      /\ mem' = Rmw(mem, "snd", "Relaxed")
      /\ spc' \in {"drop_store", "drop_take", "release_drop", "unreachable"}
      /\ spc' = "drop_take" => state = EVENT_AWAITING
  BY Values DEF SenderDropped, SenderGoto, receiverVars
<1>2. ~Acquires("Relaxed") /\ EVENT_SIGNALING \notin {EVENT_SET, EVENT_DISCONNECTED}
  BY Values DEF Acquires
<1> QED
  BY <1>1, <1>2, SenderUpdateKeepsOrder DEF Untouched

\* The terminal value carries everything before it.
LEMMA StoreOrder ==
    ASSUME IInv, ControlInv', StoreSet \/ StoreDisconnected
    PROVE  TypeOK' /\ OrderInv'
<1> DEFINE n == Len(mo)
<1>1. PICK v : /\ spc \in {"set_store", "drop_store"} /\ spc' \in {"wake", "done"} /\ rpc' = rpc
               /\ mo' = Append(mo, v) /\ mem' = StoreRelease(mem, "snd")
  BY DEF StoreSet, StoreDisconnected, SenderGoto, receiverVars
<1>2. /\ Live(mem) /\ Size(mem) = n /\ n \in 1..3 /\ DOMAIN mo = 1..n /\ mo \in Seq(0..5)
  BY Remembered
<1>3. /\ Live(mem') /\ Size(mem') = n + 1
      /\ Carried(mem', n + 1, "snd") = Cells
      /\ Known(mem', "rcv") = Known(mem, "rcv") \ {"state"}
      /\ Races(mem') = Races(mem)
  BY <1>1, <1>2, Releasing
<1>4. ControlInv /\ OrderInv
  BY DEF IInv
<1>5. Len(mo') = n + 1 /\ DOMAIN mo' = 1..(n + 1) /\ (\A i \in 1..n : mo'[i] = mo[i])
  BY <1>1, <1>2
<1>6. TypeOK'
  BY <1>3, <1>5, StillTyped
<1>7. /\ Unread({EVENT_SET, EVENT_DISCONNECTED}) /\ rpc \notin Over
      /\ rpc \notin {"unbind_set", "unbind_disconnected"} \cup Settled
  BY <1>1, Phases DEF Locking
<1>8. TerminalCarries'
  BY <1>2, <1>3, <1>5, <1>7 DEF TerminalCarries, Unread
<1>9. OutcomeKnown'
  BY <1>1, <1>7 DEF OutcomeKnown
<1>10. AwaiterKnown'
  <2>1. Unread({EVENT_BOUND}) => Unread({EVENT_BOUND})' \/ mo'[n + 1] = EVENT_BOUND
    BY <1>2, <1>5 DEF Unread
  <2>2. mo'[n + 1] # EVENT_BOUND
    BY <1>2, Values DEF StoreSet, StoreDisconnected
  <2> QED
    BY <2>1, <2>2, <1>1, <1>3, <1>4, <1>7 DEF OrderInv, AwaiterKnown, Untouched
<1> QED
  BY <1>1, <1>3, <1>4, <1>6, <1>8, <1>9, <1>10
     DEF OrderInv, ValueKnown, AnnouncedCarries, DepartureCarries, RacesInv, Untouched

\* The receiver's access to the awaiter cell while it is its own.
LEMMA OwnAwaiterOrder ==
    ASSUME IInv, ControlInv', rpc \in Own, spc' = spc, mo' = mo, NEW site \in Sites,
           \/ mem' = Access(mem, "rcv", {"awaiter"}, site)
           \/ mem' = Access(Fence(mem, "rcv"), "rcv", {"awaiter"}, site),
           rpc' \notin Over,
           rpc' \in {"unbind_set", "unbind_disconnected"} \cup Settled =>
              rpc \in {"unbind_set", "unbind_disconnected"}
    PROVE  TypeOK' /\ OrderInv'
<1>1. "awaiter" \in Known(mem, "rcv")
  BY DEF IInv, OrderInv, AwaiterKnown
<1>2. /\ state # EVENT_AWAITING /\ rpc \notin Over /\ spc \notin {"set_take", "drop_take"}
  BY Phases
<1>3. rpc \notin Settled
  BY DEF Own, Holding, Settled
<1>4. rpc \in {"unbind_set", "unbind_disconnected"} => Known(mem, "rcv") = Cells
  BY DEF IInv, OrderInv, OutcomeKnown
<1>5. {"awaiter"} \in SUBSET Cells /\ {"awaiter"} \subseteq Known(mem, "rcv")
        /\ "value" \notin {"awaiter"}
  BY <1>1 DEF Cells
<1> QED
  BY <1>1, <1>2, <1>3, <1>4, <1>5, ReceiverAccessKeepsOrder

\* poll() writes an awaiter that the word does not announce.
LEMMA WriteAwaiterOrder == ASSUME IInv, ControlInv', WriteAwaiter PROVE TypeOK' /\ OrderInv'
<1>1. /\ rpc = "bound_write" /\ rpc' \in {"bound_cas", "idle"} /\ spc' = spc /\ mo' = mo
      /\ \/ rpc' = "idle" /\ mem' = mem
         \/ mem' = Access(mem, "rcv", {"awaiter"}, "awaiter_write")
  BY DEF WriteAwaiter, ReceiverGoto, senderVars
<1>2. rpc \in Own /\ rpc \notin Over /\ rpc' \notin Over /\ rpc \notin Settled
        /\ "awaiter_write" \in Sites
      /\ rpc' \notin {"unbind_set", "unbind_disconnected"} \cup Settled
  BY <1>1 DEF Own, Holding, Over, Settled, Sites
<1>3. CASE mem' = Access(mem, "rcv", {"awaiter"}, "awaiter_write")
  BY <1>1, <1>2, <1>3, OwnAwaiterOrder
<1>4. CASE rpc' = "idle" /\ mem' = mem
  <2>1. rpc' \notin Own
    BY <1>4 DEF Own, Holding
  <2> QED
    BY <1>1, <1>2, <1>4, <2>1, NoAccessKeepsOrder
<1> QED
  BY <1>1, <1>3, <1>4

\* poll() destroys the awaiter the sender has never seen.
LEMMA UnbindOrder == ASSUME IInv, ControlInv', Unbind PROVE TypeOK' /\ OrderInv'
<1>1. /\ rpc \in {"unbind_set", "unbind_signaling", "unbind_disconnected"}
      /\ rpc' \in {"poll_set", "release"} => rpc \in {"unbind_set", "unbind_disconnected"}
      /\ rpc' \in {"idle", "poll_set", "signaling", "release"} /\ spc' = spc /\ mo' = mo
      /\ mem' = Access(mem, "rcv", {"awaiter"}, "awaiter_drop")
  BY DEF Unbind, DestroyAwaiter, ReceiverGoto, senderVars
<1>2. rpc \in Own /\ rpc' \notin Over /\ "awaiter_drop" \in Sites
      /\ (rpc' \in {"unbind_set", "unbind_disconnected"} \cup Settled =>
           rpc' \in {"poll_set", "release"})
  BY <1>1 DEF Own, Holding, Over, Settled, Sites
<1> QED
  BY <1>1, <1>2, OwnAwaiterOrder

\* poll() destroys the awaiter that it took back.
LEMMA DropOldAwaiterOrder == ASSUME IInv, ControlInv', DropOldAwaiter PROVE TypeOK' /\ OrderInv'
<1>1. /\ rpc = "awaiting_drop" /\ rpc' \in {"bound_write", "idle"} /\ spc' = spc /\ mo' = mo
      /\ mem' = Access(Fence(mem, "rcv"), "rcv", {"awaiter"}, "awaiter_drop")
  BY DEF DropOldAwaiter, DestroyAwaiter, ReceiverGoto, senderVars
<1>2. rpc \in Own /\ rpc' \notin Over /\ "awaiter_drop" \in Sites
      /\ rpc' \notin {"unbind_set", "unbind_disconnected"} \cup Settled
  BY <1>1 DEF Own, Holding, Over, Settled, Sites
<1> QED
  BY <1>1, <1>2, OwnAwaiterOrder

\* So does the cancellation.
LEMMA CancelTakeAwaiterOrder ==
    ASSUME IInv, ControlInv', CancelTakeAwaiter
    PROVE  TypeOK' /\ OrderInv'
<1>1. /\ rpc = "cancel_awaiter" /\ rpc' = "cancel_load" /\ spc' = spc /\ mo' = mo
      /\ mem' = Access(mem, "rcv", {"awaiter"}, "awaiter_take")
  BY DEF CancelTakeAwaiter, ReceiverGoto, senderVars
<1>2. rpc \in Own /\ rpc' \notin Over /\ "awaiter_take" \in Sites
      /\ rpc' \notin {"unbind_set", "unbind_disconnected"} \cup Settled
  BY <1>1 DEF Own, Holding, Over, Settled, Sites
<1> QED
  BY <1>1, <1>2, OwnAwaiterOrder

\* With a terminal value acquired everything is the receiver's.
LEMMA SettledOrder ==
    ASSUME IInv, ControlInv', rpc \in Settled, rpc' \in Settled \cup Over, spc' = spc, mo' = mo,
           NEW C \in SUBSET Cells, NEW site \in Sites, mem' = Access(mem, "rcv", C, site)
    PROVE  TypeOK' /\ OrderInv'
<1>1. Known(mem, "rcv") = Cells
  BY DEF IInv, OrderInv, OutcomeKnown
<1>2. rpc \notin Over /\ spc \notin Untouched /\ spc \notin Locking
  BY Phases
<1>3. rpc' \notin Own /\ spc \notin {"set_take", "drop_take"} /\ C \subseteq Known(mem, "rcv")
  BY <1>1, <1>2 DEF Own, Holding, Settled, Over, Locking
<1> QED
  BY <1>1, <1>2, <1>3, ReceiverAccessKeepsOrder

\* The value is read after a terminal value of the word is acquired.
LEMMA TakeValueOrder ==
    ASSUME IInv, ControlInv', TakeValue \/ CancelTakeValue PROVE TypeOK' /\ OrderInv'
<1>1. /\ rpc \in {"poll_set", "cancel_value"} /\ rpc' \in {"release", "cancel_release"}
      /\ spc' = spc /\ mo' = mo /\ mem' = Access(mem, "rcv", {"value"}, "value_take")
  BY DEF TakeValue, CancelTakeValue, ReceiverGoto, senderVars
<1>2. rpc \in Settled /\ rpc' \in Settled /\ {"value"} \in SUBSET Cells /\ "value_take" \in Sites
  BY <1>1 DEF Settled, Cells, Sites
<1> QED
  BY <1>1, <1>2, SettledOrder

\* The storage is released after a terminal value of the word is acquired.
LEMMA ReceiverReleaseOrder ==
    ASSUME IInv, ControlInv', ReceiverRelease \/ CancelRelease PROVE TypeOK' /\ OrderInv'
<1>1. /\ rpc \in {"release", "cancel_release"} /\ rpc' \in {"done", "cancel_drop"}
      /\ spc' = spc /\ mo' = mo /\ mem' = Access(mem, "rcv", Cells, "rcv_release")
  BY DEF ReceiverRelease, CancelRelease, ReceiverGoto, senderVars
<1>2. rpc \in Settled /\ rpc' \in Over /\ Cells \in SUBSET Cells /\ "rcv_release" \in Sites
  BY <1>1 DEF Settled, Over, Cells, Sites
<1> QED
  BY <1>1, <1>2, SettledOrder

\* The receiver's successful operation on the word, with or without a fence after it.
LEMMA ReceiverUpdateKeepsOrder ==
    ASSUME IInv, ControlInv', rpc \notin Over \cup Settled, spc' = spc, NEW v, mo' = <<v>>,
           NEW order,
           \/ mem' = Rmw(mem, "rcv", order)
           \/ mem' = Fence(Rmw(mem, "rcv", order), "rcv"),
           v \in {EVENT_SET, EVENT_DISCONNECTED} => rpc' \in Over \cup Settled,
           v = EVENT_AWAITING \/ rpc' \in Over => Releases(order),
           rpc' \in Settled => /\ state \in {EVENT_SET, EVENT_DISCONNECTED}
                               /\ Acquires(order) \/ mem' = Fence(Rmw(mem, "rcv", order), "rcv"),
           rpc' \notin {"unbind_set", "unbind_disconnected"},
           v = EVENT_BOUND \/ rpc' \in Own => state = EVENT_AWAITING
    PROVE  TypeOK' /\ OrderInv'
<1> DEFINE u == Rmw(mem, "rcv", order)
           n == Len(mo)
<1>1. Live(mem) /\ Size(mem) = n /\ n \in 1..3 /\ DOMAIN mo = 1..n /\ state = mo[n]
  BY Remembered
<1>2. /\ Live(u) /\ Size(u) = 1
      /\ Releases(order) => Carried(u, 1, "rcv") = Cells
      /\ Acquires(order) => Known(u, "rcv") = Known(mem, "rcv") \cup Carried(mem, n, "snd")
      /\ ~Acquires(order) => Known(u, "rcv") = Known(mem, "rcv")
      /\ Pend(u, "rcv") = Pend(mem, "rcv") \cup Carried(mem, n, "snd")
      /\ Known(u, "snd") = Known(mem, "snd") \ {"state"}
      /\ Pend(u, "snd") = Pend(mem, "snd") \ {"state"}
      /\ Races(u) = Races(mem)
  BY <1>1, ReceiverUpdating
<1> HIDE DEF u
<1>3. /\ Live(Fence(u, "rcv")) /\ Size(Fence(u, "rcv")) = Size(u)
      /\ \A j, x : Carried(Fence(u, "rcv"), j, x) = Carried(u, j, x)
      /\ \A x : Pend(Fence(u, "rcv"), x) = Pend(u, x)
      /\ Known(Fence(u, "rcv"), "rcv") = Known(u, "rcv") \cup Pend(u, "rcv")
      /\ Known(Fence(u, "rcv"), "snd") = Known(u, "snd") /\ Races(Fence(u, "rcv")) = Races(u)
  BY <1>2, Fencing, Names
<1>4. mem' = u \/ mem' = Fence(u, "rcv")
  BY DEF u
<1>5. /\ Live(mem') /\ Size(mem') = 1
      /\ Releases(order) => Carried(mem', 1, "rcv") = Cells
      /\ Known(mem, "rcv") \subseteq Known(mem', "rcv")
      /\ Known(mem', "snd") = Known(mem, "snd") \ {"state"}
      /\ Pend(mem', "snd") = Pend(mem, "snd") \ {"state"}
      /\ Races(mem') = Races(mem)
  BY <1>2, <1>3, <1>4
<1>6. Acquires(order) \/ mem' = Fence(u, "rcv") =>
        Carried(mem, n, "snd") \subseteq Known(mem', "rcv")
  BY <1>2, <1>3, <1>4
<1>7. Len(mo') = 1 /\ DOMAIN mo' = {1} /\ mo'[1] = v /\ state' = v
  BY DEF state
<1>8. ControlInv /\ OrderInv
  BY DEF IInv
<1>9. TypeOK'
  BY <1>5, <1>7, StillTyped
<1>10. TerminalCarries'
  BY <1>7 DEF TerminalCarries
<1>11. OutcomeKnown'
  <2>1. CASE rpc' \in Settled
    <3>1. Carried(mem, n, "snd") = Cells
      BY <2>1, <1>1, <1>8 DEF OrderInv, TerminalCarries
    <3>2. Known(mem', "rcv") \subseteq Cells
      BY <1>5, Bounded
    <3> QED
      BY <2>1, <3>1, <3>2, <1>6 DEF OutcomeKnown, u
  <2> QED
    BY <2>1 DEF OutcomeKnown
<1>12. AwaiterKnown'
  <2>1. state = EVENT_AWAITING => "awaiter" \in Known(mem, "rcv")
    BY <1>8, Phases DEF OrderInv, AwaiterKnown
  <2>2. ~Unread({EVENT_BOUND})' => v = EVENT_BOUND
    BY <1>7 DEF Unread
  <2> QED
    BY <2>1, <2>2, <1>5, <1>8 DEF OrderInv, AwaiterKnown
<1>13. ValueKnown'
  BY <1>5, <1>8 DEF OrderInv, ValueKnown
<1>14. AnnouncedCarries'
  <2>1. "awaiter" \in Cells
    BY DEF Cells
  <2> QED
    BY <2>1, <1>5, <1>7, <1>8 DEF OrderInv, AnnouncedCarries
<1>15. DepartureCarries'
  <2>1. spc \notin {"reclaim", "release_set"}
    BY Phases
  <2> QED
    BY <2>1, <1>5, <1>7 DEF DepartureCarries
<1>16. RacesInv'
  BY <1>5, <1>8 DEF OrderInv, RacesInv
<1> QED
  BY <1>9, <1>10, <1>11, <1>12, <1>13, <1>14, <1>15, <1>16 DEF OrderInv

\* The orderings that the code passes.
LEMMA Orders == /\ Acquires("Acquire") /\ Acquires("AcqRel") /\ Releases("Release")
  /\ Releases("AcqRel")
                /\ ~Acquires("Relaxed") /\ ~Acquires("Release")
  BY DEF Acquires, Releases

\* poll()'s load acquires.
LEMMA PollOrder == ASSUME IInv, ControlInv', NEW w \in Wakers, Poll(w) PROVE TypeOK' /\ OrderInv'
<1>1. PICK i \in DOMAIN mo : /\ rpc = "idle" /\ spc' = spc /\ mo' = SubSeq(mo, i, Len(mo))
                             /\ mem' = Load(mem, i, "Acquire") /\ rpc' = PollDispatch(mo[i])
  BY DEF Poll, LoadState, ReceiverGoto, senderVars
<1>2. /\ rpc' \in {"bound_write", "poll_set", "awaiting_cas", "signaling", "release", "unreachable"}
      /\ rpc' \in {"poll_set", "release"} => mo[i] \in {EVENT_SET, EVENT_DISCONNECTED}
      /\ rpc' = "bound_write" => mo[i] = EVENT_BOUND
  BY <1>1, Values DEF PollDispatch
<1>3. /\ rpc \notin Over \cup Settled /\ rpc' \notin Over
      /\ rpc' \in {"unbind_set", "unbind_disconnected"} \cup Settled =>
           rpc' \in {"poll_set", "release"}
      /\ rpc' \in Own => rpc' = "bound_write"
  BY <1>1, <1>2 DEF Over, Settled, Own, Holding
<1> QED
  BY <1>1, <1>2, <1>3, Orders, LoadKeepsOrder

\* The compare_exchange that announces the awaiter: Release, or Relaxed and a fence.
LEMMA BoundCasOrder == ASSUME IInv, ControlInv', BoundCas PROVE TypeOK' /\ OrderInv'
<1>1. rpc = "bound_cas" /\ spc' = spc /\ rpc \notin Over \cup Settled /\ rpc \in Own
  BY DEF BoundCas, senderVars, Over, Settled, Own, Holding
<1>2. CASE CasSucceeds(EVENT_BOUND, EVENT_AWAITING, "Release") /\ rpc' = "idle"
  <2>1. mo' = <<EVENT_AWAITING>> /\ mem' = Rmw(mem, "rcv", "Release")
    BY <1>2 DEF CasSucceeds
  <2>2. rpc' \notin Over \cup Settled \cup Own \cup {"unbind_set", "unbind_disconnected"}
    BY <1>2 DEF Over, Settled, Own, Holding
  <2> QED
    BY <1>1, <2>1, <2>2, Orders, Values, ReceiverUpdateKeepsOrder
<1>3. CASE \E i \in DOMAIN mo : /\ CasFails(EVENT_BOUND, i, "Acquire")
                                /\ ReceiverGoto(CASE mo[i] = EVENT_SET          -> "unbind_set"
                                                  [] mo[i] = EVENT_SIGNALING    -> "unbind_signaling"
                                                  [] mo[i] = EVENT_DISCONNECTED -> "unbind_disconnected"
                                                  [] OTHER                      -> "unreachable")
  <2>1. PICK i \in DOMAIN mo : /\ mo' = SubSeq(mo, i, Len(mo)) /\ mem' = Load(mem, i, "Acquire")
                               /\ rpc' \in {"unbind_set", "unbind_signaling", "unbind_disconnected", "unreachable"}
                               /\ rpc' \in {"unbind_set", "unbind_disconnected"} =>
                                     mo[i] \in {EVENT_SET, EVENT_DISCONNECTED}
    BY <1>3, Values DEF CasFails, LoadState, ReceiverGoto
  <2>2. rpc' \notin Over \cup Settled
    BY <2>1 DEF Over, Settled
  <2> QED
    BY <1>1, <2>1, <2>2, Orders, LoadKeepsOrder
<1> QED
  BY <1>2, <1>3 DEF BoundCas, ReceiverGoto

\* The compare_exchange that takes the awaiter back.
LEMMA AwaitingCasOrder == ASSUME IInv, ControlInv', AwaitingCas PROVE TypeOK' /\ OrderInv'
<1>1. rpc = "awaiting_cas" /\ spc' = spc /\ rpc \notin Over \cup Settled
  BY DEF AwaitingCas, senderVars, Over, Settled
<1>2. CASE CasSucceeds(EVENT_AWAITING, EVENT_BOUND, "Relaxed") /\ rpc' = "awaiting_drop"
  <2>1. state = EVENT_AWAITING /\ mo' = <<EVENT_BOUND>> /\ mem' = Rmw(mem, "rcv", "Relaxed")
    BY <1>2 DEF CasSucceeds
  <2>2. rpc' \notin Over \cup Settled \cup {"unbind_set", "unbind_disconnected"}
    BY <1>2 DEF Over, Settled
  <2> QED
    BY <1>1, <2>1, <2>2, Values, ReceiverUpdateKeepsOrder
<1>3. CASE \E i \in DOMAIN mo :
              /\ mo[i] # EVENT_AWAITING
              /\ mo' = SubSeq(mo, i, Len(mo))
              /\ mem' = IF mo[i] \in {EVENT_SET, EVENT_DISCONNECTED}
                          THEN Fence(Load(mem, i, "Relaxed"), "rcv")
                          ELSE Load(mem, i, "Relaxed")
              /\ ReceiverGoto(CASE mo[i] = EVENT_SET          -> "poll_set"
                                [] mo[i] = EVENT_SIGNALING    -> "signaling"
                                [] mo[i] = EVENT_DISCONNECTED -> "release"
                                [] OTHER                      -> "unreachable")
  <2>1. PICK i \in DOMAIN mo :
           /\ mo' = SubSeq(mo, i, Len(mo))
           /\ mem' = Load(mem, i, "Relaxed") \/ mem' = Fence(Load(mem, i, "Relaxed"), "rcv")
           /\ rpc' \in {"poll_set", "signaling", "release", "unreachable"}
           /\ rpc' \in {"poll_set", "release"} => /\ mo[i] \in {EVENT_SET, EVENT_DISCONNECTED}
                                                  /\ mem' = Fence(Load(mem, i, "Relaxed"), "rcv")
    BY <1>3, Values DEF ReceiverGoto
  <2>2. /\ rpc' \notin Over \cup Own
        /\ rpc' \in {"unbind_set", "unbind_disconnected"} \cup Settled =>
             rpc' \in {"poll_set", "release"}
    BY <2>1 DEF Over, Settled, Own, Holding
  <2> QED
    BY <1>1, <2>1, <2>2, LoadKeepsOrder
<1> QED
  BY <1>2, <1>3 DEF AwaitingCas, ReceiverGoto

\* The load of the spin acquires.
LEMMA SpinOnSignalingOrder == ASSUME IInv, ControlInv', SpinOnSignaling PROVE TypeOK' /\ OrderInv'
<1>1. PICK i \in DOMAIN mo :
         /\ rpc = "signaling" /\ spc' = spc /\ mo' = SubSeq(mo, i, Len(mo))
         /\ mem' = Load(mem, i, "Relaxed") \/ mem' = Fence(Load(mem, i, "Relaxed"), "rcv")
         /\ rpc' \in {"poll_set", "signaling", "release", "unreachable"}
         /\ rpc' \in {"poll_set", "release"} => /\ mo[i] \in {EVENT_SET, EVENT_DISCONNECTED}
                                                /\ mem' = Fence(Load(mem, i, "Relaxed"), "rcv")
  BY Values DEF SpinOnSignaling, ReceiverGoto, senderVars
<1>2. /\ rpc \notin Over \cup Settled /\ rpc' \notin Over \cup Own
      /\ rpc' \in {"unbind_set", "unbind_disconnected"} \cup Settled =>
           rpc' \in {"poll_set", "release"}
  BY <1>1 DEF Over, Settled, Own, Holding
<1> QED
  BY <1>1, <1>2, LoadKeepsOrder

\* The load of is_ready() is relaxed: nothing is accessed because of it.
LEMMA IsReadyOrder == ASSUME IInv, ControlInv', IsReady PROVE TypeOK' /\ OrderInv'
<1>1. PICK i \in DOMAIN mo : /\ rpc = "idle" /\ rpc' = "idle" /\ spc' = spc
                             /\ mo' = SubSeq(mo, i, Len(mo)) /\ mem' = Load(mem, i, "Relaxed")
  BY DEF IsReady, LoadState, senderVars
<1>2. rpc \notin Over \cup Settled /\ rpc' \notin {"unbind_set", "unbind_disconnected"} \cup Over
        \cup Settled \cup Own
  BY <1>1 DEF Over, Settled, Own, Holding
<1> QED
  BY <1>1, <1>2, LoadKeepsOrder

\* So is the load of into_value(): the swap after it acquires.
LEMMA IntoValueOrder == ASSUME IInv, ControlInv', IntoValue PROVE TypeOK' /\ OrderInv'
<1>1. PICK i \in DOMAIN mo : /\ rpc = "idle" /\ rpc' \in {"idle", "take_result", "unreachable"}
                                  /\ spc' = spc
                             /\ mo' = SubSeq(mo, i, Len(mo)) /\ mem' = Load(mem, i, "Acquire")
  BY DEF IntoValue, LoadState, ReceiverGoto, senderVars
<1>2. rpc \notin Over \cup Settled /\ rpc' \notin {"unbind_set", "unbind_disconnected"} \cup Over
        \cup Settled \cup Own
  BY <1>1 DEF Over, Settled, Own, Holding
<1> QED
  BY <1>1, <1>2, LoadKeepsOrder

\* The swap of into_value() acquires and releases.
LEMMA TakeResultOrder == ASSUME IInv, ControlInv', TakeResult PROVE TypeOK' /\ OrderInv'
<1>1. /\ rpc = "take_result" /\ spc' = spc /\ mo' = <<EVENT_DISCONNECTED>>
           /\ mem' = Rmw(mem, "rcv", "AcqRel")
      /\ rpc' \in {"poll_set", "release", "unreachable"}
      /\ rpc' \in {"poll_set", "release"} => state \in {EVENT_SET, EVENT_DISCONNECTED}
  BY Values DEF TakeResult, ReceiverGoto, senderVars
<1>2. rpc' # "unreachable"
  BY DEF ControlInv, SawInv
<1>3. /\ rpc \notin Over \cup Settled /\ rpc' \in Settled
      /\ rpc' \notin {"unbind_set", "unbind_disconnected"} \cup Over \cup Own
  BY <1>1, <1>2 DEF Over, Settled, Own, Holding
<1> QED
  BY <1>1, <1>2, <1>3, Orders, Values, ReceiverUpdateKeepsOrder

\* The first compare_exchange of the cancellation.
LEMMA CancelCasOrder == ASSUME IInv, ControlInv', CancelCas PROVE TypeOK' /\ OrderInv'
<1>1. rpc = "cancel_cas" /\ spc' = spc /\ rpc \notin Over \cup Settled
  BY DEF CancelCas, senderVars, Over, Settled
<1>2. CASE CasSucceeds(EVENT_AWAITING, EVENT_BOUND, "Acquire") /\ rpc' = "cancel_awaiter"
  <2>1. state = EVENT_AWAITING /\ mo' = <<EVENT_BOUND>> /\ mem' = Rmw(mem, "rcv", "Acquire")
    BY <1>2 DEF CasSucceeds
  <2>2. rpc' \notin Over \cup Settled \cup {"unbind_set", "unbind_disconnected"}
    BY <1>2 DEF Over, Settled
  <2> QED
    BY <1>1, <2>1, <2>2, Values, ReceiverUpdateKeepsOrder
<1>3. CASE (\E i \in DOMAIN mo : CasFails(EVENT_AWAITING, i, "Relaxed")) /\ rpc' = "cancel_load"
  <2>1. PICK i \in DOMAIN mo : mo' = SubSeq(mo, i, Len(mo)) /\ mem' = Load(mem, i, "Relaxed")
    BY <1>3 DEF CasFails, LoadState
  <2>2. rpc' \notin {"unbind_set", "unbind_disconnected"} \cup Over \cup Settled \cup Own
    BY <1>3 DEF Over, Settled, Own, Holding
  <2> QED
    BY <1>1, <2>1, <2>2, LoadKeepsOrder
<1> QED
  BY <1>2, <1>3 DEF CancelCas, ReceiverGoto

\* The load of the cancellation is relaxed.
LEMMA CancelLoadOrder == ASSUME IInv, ControlInv', CancelLoad PROVE TypeOK' /\ OrderInv'
<1>1. PICK i \in DOMAIN mo : /\ rpc = "cancel_load" /\ rpc' \in {"cancel_load", "cancel_swap"}
                                  /\ spc' = spc
                             /\ mo' = SubSeq(mo, i, Len(mo)) /\ mem' = Load(mem, i, "Relaxed")
  BY DEF CancelLoad, LoadState, ReceiverGoto, senderVars
<1>2. rpc \notin Over \cup Settled /\ rpc' \notin {"unbind_set", "unbind_disconnected"} \cup Over
        \cup Settled \cup Own
  BY <1>1 DEF Over, Settled, Own, Holding
<1> QED
  BY <1>1, <1>2, LoadKeepsOrder

\* The compare_exchange of the departure releases, and acquires what it replaces.
LEMMA CancelSwapOrder == ASSUME IInv, ControlInv', CancelSwap PROVE TypeOK' /\ OrderInv'
<1>1. rpc = "cancel_swap" /\ spc' = spc /\ rpc \notin Over \cup Settled
  BY DEF CancelSwap, senderVars, Over, Settled
<1>2. CASE /\ state = rcur /\ mo' = <<EVENT_DISCONNECTED>>
           /\ LET m == Rmw(mem, "rcv", "Release")
              IN  mem' = IF rcur = EVENT_BOUND THEN m ELSE Fence(m, "rcv")
           /\ ReceiverGoto(CASE rcur = EVENT_BOUND        -> "cancel_drop"
                             [] rcur = EVENT_SET          -> "cancel_value"
                             [] rcur = EVENT_DISCONNECTED -> "cancel_release"
                             [] OTHER                     -> "unreachable")
  <2>1. /\ mem' = Rmw(mem, "rcv", "Release") \/ mem' = Fence(Rmw(mem, "rcv", "Release"), "rcv")
        /\ rpc' \in {"cancel_drop", "cancel_value", "cancel_release", "unreachable"}
        /\ rpc' \in {"cancel_value", "cancel_release"} =>
              /\ state \in {EVENT_SET, EVENT_DISCONNECTED}
              /\ mem' = Fence(Rmw(mem, "rcv", "Release"), "rcv")
    BY <1>2, Values DEF ReceiverGoto
  <2>2. rpc' # "unreachable"
    BY DEF ControlInv, SawInv
  <2>3. /\ rpc' \in Over \cup Settled /\ rpc' \notin {"unbind_set", "unbind_disconnected"} \cup Own
        /\ rpc' \in Settled => rpc' \in {"cancel_value", "cancel_release"}
    BY <2>1, <2>2 DEF Over, Settled, Own, Holding
  <2> QED
    BY <1>1, <1>2, <2>1, <2>3, Orders, Values, ReceiverUpdateKeepsOrder
<1>3. CASE (\E i \in DOMAIN mo : CasFails(rcur, i, "Relaxed")) /\ rpc' = "cancel_load"
  <2>1. PICK i \in DOMAIN mo : mo' = SubSeq(mo, i, Len(mo)) /\ mem' = Load(mem, i, "Relaxed")
    BY <1>3 DEF CasFails, LoadState
  <2>2. rpc' \notin {"unbind_set", "unbind_disconnected"} \cup Over \cup Settled \cup Own
    BY <1>3 DEF Over, Settled, Own, Holding
  <2> QED
    BY <1>1, <2>1, <2>2, LoadKeepsOrder
<1> QED
  BY <1>2, <1>3 DEF CancelSwap, ReceiverGoto

\* Steps that touch no memory: wakers, payloads and the caller's own code.
LEMMA PrivateOrder ==
    ASSUME IInv, ControlInv', Wake \/ DropValue \/ BeginCancel \/ CancelDrop
    PROVE  TypeOK' /\ OrderInv'
<1>1. /\ mo' = mo /\ mem' = mem /\ (spc' = spc \/ spc' = "done")
      /\ \/ rpc' = rpc
         \/ rpc = "idle" /\ rpc' = "cancel_cas"
         \/ rpc = "cancel_drop" /\ rpc' = "done"
  BY DEF Wake, DropValue, BeginCancel, CancelDrop, SenderGoto, ReceiverGoto, senderVars,
       receiverVars
<1>2. /\ rpc' \in Over <=> rpc \in Over
      /\ rpc' \notin {"unbind_set", "unbind_disconnected"} \cup Settled \cup Own \/ rpc' = rpc
      /\ rpc \notin Settled \/ rpc' = rpc
  <2>1. {"unbind_set", "unbind_disconnected"} \cup Settled
          \cup Own \subseteq ReceiverPcs \ {"idle", "cancel_cas", "cancel_drop", "done"}
    BY DEF Settled, Own, Holding, ReceiverPcs
  <2>2. Settled \subseteq ReceiverPcs \ {"idle", "cancel_cas", "cancel_drop", "done"}
    BY DEF Settled, ReceiverPcs
  <2> QED
    BY <1>1, <2>1, <2>2 DEF Over
<1> QED
  BY <1>1, <1>2, NoAccessKeepsOrder

\* What becomes visible is what was there.
LEMMA VisibleOrder == ASSUME IInv, ControlInv', Visible PROVE TypeOK' /\ OrderInv'
<1> DEFINE n == Len(mo)
<1>1. n > 1 /\ mo' = Tail(mo) /\ mem' = Expose(mem) /\ spc' = spc /\ rpc' = rpc
  BY DEF Visible, senderVars, receiverVars
<1>2. Live(mem) /\ Size(mem) = n /\ n \in 1..3 /\ DOMAIN mo = 1..n /\ mo \in Seq(0..5)
  BY Remembered
<1>3. /\ Live(mem') /\ Size(mem') = n - 1
      /\ \A j \in 1..(n - 1) : \A x : Carried(mem', j, x) = Carried(mem, j + 1, x)
      /\ \A x : Known(mem', x) = Known(mem, x) /\ Pend(mem', x) = Pend(mem, x)
      /\ Races(mem') = Races(mem)
  BY <1>1, <1>2, Exposing
<1>4. ControlInv /\ OrderInv
  BY DEF IInv
<1>5. Len(mo') = n - 1 /\ DOMAIN mo' = 1..(n - 1) /\ (\A j \in 1..(n - 1) : mo'[j] = mo[j + 1])
  <2>1. mo # <<>>
    BY <1>1, <1>2
  <2> QED
    BY <2>1, <1>1, <1>2, HeadTailProperties
<1>6. TypeOK'
  BY <1>3, <1>5, StillTyped
<1>7. Len(mo') \in 1..2 /\ Len(mo') + 1 = n /\ state' = state
  BY <1>1, <1>2, <1>5 DEF state
<1>8. TerminalCarries'
  BY <1>1, <1>2, <1>3, <1>4, <1>5 DEF OrderInv, TerminalCarries
<1>9. OutcomeKnown'
  BY <1>1, <1>3, <1>4 DEF OrderInv, OutcomeKnown
<1>10. AwaiterKnown'
  <2>1. Unread({EVENT_BOUND}) => Unread({EVENT_BOUND})'
    BY <1>2, <1>5 DEF Unread
  <2> QED
    BY <2>1, <1>1, <1>3, <1>4 DEF OrderInv, AwaiterKnown
<1>11. Carried(mem', Len(mo'), "rcv") = Carried(mem, n, "rcv")
  BY <1>2, <1>3, <1>5, <1>7
<1>12. ValueKnown' /\ AnnouncedCarries'
  BY <1>1, <1>3, <1>4, <1>7, <1>11 DEF OrderInv, ValueKnown, AnnouncedCarries
<1>13. DepartureCarries' /\ RacesInv'
  BY <1>1, <1>3, <1>4, <1>11 DEF OrderInv, DepartureCarries, RacesInv
<1> QED
  BY <1>6, <1>8, <1>9, <1>10, <1>12, <1>13 DEF OrderInv

\* A fresh memory has no access to order.
LEMMA FreshOrder == Init => TypeOK /\ OrderInv
<1> SUFFICES ASSUME Init PROVE TypeOK /\ OrderInv
  OBVIOUS
<1>1. mo = <<EVENT_BOUND>> /\ mem = FreshMemory /\ spc = "idle" /\ rpc = "idle" /\ ControlInv
  BY InitControlInv DEF Init
<1>2. /\ mem \in Memory /\ Len(mem.carry) = 1 /\ Known(mem, "rcv") = Cells
           /\ Known(mem, "snd") = Cells
      /\ Races(mem) = {}
  BY <1>1, Names DEF FreshMemory, Memory, Known, Races, Cells
<1>3. Len(mo) = 1 /\ DOMAIN mo = {1} /\ mo[1] = EVENT_BOUND /\ state = EVENT_BOUND
  BY <1>1 DEF state
<1>4. TypeOK
  BY <1>1, <1>2, <1>3 DEF TypeOK, ControlInv
<1>5. /\ rpc \notin {"unbind_set", "unbind_disconnected"} \cup Settled \cup Over
      /\ "awaiter" \in Cells /\ "value" \in Cells
  BY <1>1 DEF Settled, Over, Cells
<1> QED
  BY <1>1, <1>2, <1>3, <1>4, <1>5, Values
     DEF OrderInv, TerminalCarries, OutcomeKnown, AwaiterKnown, ValueKnown, AnnouncedCarries,
         DepartureCarries, RacesInv

\* Every step keeps the inductive invariant.
LEMMA NextIInv == IInv /\ [Next]_vars => IInv'
<1> SUFFICES ASSUME IInv, [Next]_vars PROVE IInv'
  OBVIOUS
<1>1. ControlInv'
  BY NextControlInv DEF IInv
<1>2. TypeOK' /\ OrderInv'
  <2>1. CASE Sender
    BY <2>1, <1>1, WriteValueOrder, FetchAddOrder, TakeWakerOrder, StoreOrder, PrivateOrder,
       ReclaimOrder, SenderReleaseOrder, SenderDroppedOrder DEF Sender, SenderStep
  <2>2. CASE ReceiverStep
    BY <2>2, <1>1, WriteAwaiterOrder, BoundCasOrder, UnbindOrder, AwaitingCasOrder,
         DropOldAwaiterOrder,
       SpinOnSignalingOrder, TakeValueOrder, ReceiverReleaseOrder, TakeResultOrder, CancelCasOrder,
       CancelTakeAwaiterOrder, CancelLoadOrder, CancelSwapOrder, PrivateOrder DEF ReceiverStep
  <2>3. CASE Receiver /\ ~ReceiverStep
    BY <2>3, <1>1, PollOrder, IsReadyOrder, IntoValueOrder, PrivateOrder DEF Receiver
  <2>4. CASE Visible
    BY <2>4, <1>1, VisibleOrder
  <2>5. CASE Finished \/ UNCHANGED vars
    <3>1. mo' = mo /\ mem' = mem /\ spc' = spc /\ rpc' = rpc
      BY <2>5 DEF Finished, vars
    <3> QED
      BY <3>1, <1>1, NoAccessKeepsOrder
  <2> QED
    BY <2>1, <2>2, <2>3, <2>4, <2>5 DEF Next
<1> QED
  BY <1>1, <1>2 DEF IInv

\* The inductive invariant holds throughout.
LEMMA OrderHolds == Spec => []IInv
<1>1. Init => IInv
  BY InitControlInv, FreshOrder DEF IInv
<1> QED
  BY <1>1, NextIInv, PTL DEF Spec

\* The unsafe blocks of event.rs and state.rs keep their rules: no access to the value or
\* the awaiter races with one of the other endpoint, what is read has been written, nothing
\* follows the release, and the release is ordered behind every access (but for the unused
\* sender's, see SenderDropReleaseOrdered), whatever older value a load still returns.
THEOREM StorageIsSound == Spec => []StorageSound
<1>1. IInv => StorageSound
  <2> SUFFICES ASSUME IInv PROVE StorageSound
    OBVIOUS
  <2>1. ControlInv /\ RacesInv
    BY DEF IInv, OrderInv
  <2>2. NoUseAfterRelease
    BY <2>1 DEF ControlInv, ResultInv, NoUseAfterRelease, Over
  <2>3. CellsInitialized
    <3>1. spc = "reclaim" => payload = "cell"
      BY <2>1 DEF ControlInv, PayloadInv
    <3>2. rpc = "bound_write" => awaiter = NoWaker
      BY <2>1, Phases DEF ControlInv, AwaiterInv, Own, Holding
    <3>3. rpc \in {"poll_set", "cancel_value"} => payload = "cell"
      <4>1. SUFFICES ASSUME rpc \in {"poll_set", "cancel_value"} PROVE payload = "cell"
        OBVIOUS
      <4>2. rpc \in Settled
        BY <4>1 DEF Settled
      <4>3. spc \in {"wake", "done"}
        BY <2>1, <4>2, Phases DEF ControlInv, ControlTypeOK, WordInv, SenderPcs, Untouched, Locking
      <4> QED
        BY <2>1, <4>1, <4>3 DEF ControlInv, PayloadInv
    <3>4. /\ spc \in {"set_take", "drop_take"} => awaiter # NoWaker
          /\ rpc \in {"unbind_set", "unbind_signaling", "unbind_disconnected",
                     "awaiting_drop", "cancel_awaiter"} => awaiter # NoWaker
      BY <2>1 DEF ControlInv, AwaiterInv, Holding
    <3> QED
      BY <3>1, <3>2, <3>3, <3>4 DEF CellsInitialized
  <2>4. DefensiveBranchesUnreachable
    BY <2>1 DEF ControlInv, WordInv, SawInv, DefensiveBranchesUnreachable
  <2>5. CellsRaceFree /\ ReleaseOrderedAfterUse
    BY <2>1 DEF RacesInv, Races, CellsRaceFree, ReleaseOrderedAfterUse
  <2> QED
    BY <2>2, <2>3, <2>4, <2>5 DEF StorageSound
<1> QED
  BY <1>1, OrderHolds, PTL

============================================================================
