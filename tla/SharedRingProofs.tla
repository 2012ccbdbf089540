--------------------------- MODULE SharedRingProofs ---------------------------
(***************************************************************************)
(* Proofs about SharedRing, for every number of slots, of NAL units and of *)
(* packets, and for every wrap-around of the futex word above Slots + 2;   *)
(* and about RingGenerations, the rings of a session, for every number of  *)
(* generations and every set of inode numbers.                             *)
(***************************************************************************)
EXTENDS SharedRing, RingGenerations, Sequences, SequenceTheorems, TLAPS

-------------------------------------------------------------------------------
(* Arithmetic: ring indices and the wrap-around of the futex word. *)

\* Two sequence numbers less than k apart have different remainders modulo k:
\* packets in flight are in different slots, and the futex word cannot return
\* to the value the consumer saw.
LEMMA ModDistinct ==
  ASSUME NEW k \in Nat \ {0}, NEW a \in Nat, NEW b \in Nat, a < b, b - a < k
  PROVE  a % k # b % k
<1> DEFINE p == a \div k
           q == b \div k
<1>1. p \in Int /\ q \in Int /\ a % k \in 0 .. k - 1 /\ b % k \in 0 .. k - 1
  OBVIOUS
<1>2. a = k * p + (a % k) /\ b = k * q + (b % k)
  OBVIOUS
<1>3. SUFFICES ASSUME a % k = b % k PROVE FALSE
  OBVIOUS
<1> HIDE DEF p, q
<1>4. b - a = k * (q - p)
  <2>1. b - a = k * q - k * p
    BY <1>1, <1>2, <1>3
  <2>2. k * q - k * p = k * (q - p)
    BY <1>1
  <2>3. QED BY <2>1, <2>2
<1>5. q - p \in Int /\ k * (q - p) > 0 /\ k * (q - p) < k
  BY <1>1, <1>4
<1>6. CASE q - p >= 1
  <2>1. k * (q - p) >= k
    BY <1>1, <1>6
  <2>2. QED BY <2>1, <1>5
<1>7. CASE q - p <= 0
  <2>1. k * (q - p) <= 0
    BY <1>1, <1>7
  <2>2. QED BY <2>1, <1>5
<1>8. QED BY <1>5, <1>6, <1>7

\* Counting modulo k commutes with adding one.
LEMMA ModSuccessor ==
  ASSUME NEW k \in Nat \ {0}, NEW n \in Nat, k > 1
  PROVE  ((n % k) + 1) % k = (n + 1) % k
<1> DEFINE p == n \div k
           r == n % k
           q == (n + 1) \div k
           t == (n + 1) % k
<1>1. p \in Int /\ q \in Int /\ r \in 0 .. k - 1 /\ t \in 0 .. k - 1
  OBVIOUS
<1>2. n = k * p + r /\ n + 1 = k * q + t
  OBVIOUS
<1>3. CASE r + 1 < k
  <2>1. (r + 1) % k = r + 1
    BY <1>1, <1>3
  <2>2. t = r + 1
    <3> HIDE DEF p, q, r, t
    <3>1. k * (q - p) = r + 1 - t
      <4>1. k * q - k * p = r + 1 - t
        BY <1>1, <1>2
      <4>2. k * (q - p) = k * q - k * p
        BY <1>1
      <4>3. QED BY <4>1, <4>2
    <3>2. CASE q - p >= 1
      <4>1. k * (q - p) >= k
        BY <1>1, <3>2
      <4>2. QED BY <4>1, <3>1, <1>1, <1>3
    <3>3. CASE q - p <= -1
      <4>1. k * (q - p) <= -k
        BY <1>1, <3>3
      <4>2. QED BY <4>1, <3>1, <1>1, <1>3
    <3>4. CASE q - p = 0
      <4>1. k * (q - p) = 0
        BY <3>4
      <4>2. QED BY <4>1, <3>1, <1>1
    <3>5. QED BY <1>1, <3>2, <3>3, <3>4
  <2>3. QED BY <2>1, <2>2
<1>4. CASE r + 1 = k
  <2>1. (r + 1) % k = 0
    BY <1>4
  <2>2. t = 0
    <3> HIDE DEF p, q, r, t
    <3>1. k * (q - p - 1) = -t
      <4>1. k * q - k * p - k = -t
        BY <1>1, <1>2, <1>4
      <4>2. k * (q - p - 1) = k * q - k * p - k
        BY <1>1
      <4>3. QED BY <4>1, <4>2
    <3>2. CASE q - p - 1 >= 1
      <4>1. k * (q - p - 1) >= k
        BY <1>1, <3>2
      <4>2. QED BY <4>1, <3>1, <1>1
    <3>3. CASE q - p - 1 <= -1
      <4>1. k * (q - p - 1) <= -k
        BY <1>1, <3>3
      <4>2. QED BY <4>1, <3>1, <1>1
    <3>4. CASE q - p - 1 = 0
      <4>1. k * (q - p - 1) = 0
        BY <3>4
      <4>2. QED BY <4>1, <3>1, <1>1
    <3>5. QED BY <1>1, <3>2, <3>3, <3>4
  <2>3. QED BY <2>1, <2>2
<1>5. QED BY <1>1, <1>3, <1>4

-------------------------------------------------------------------------------
(* Type correctness. *)

\* The ring starts empty, with both processes at their first step.
LEMMA TypeInit == Init => TypeOK
  BY SlotsAssumption, NalsAssumption, NotifyAssumption
  DEF Init, TypeOK, EmptySlot, ProducerSteps, ConsumerSteps

\* Each step keeps the ring, the two processes and the flags in their sets.
LEMMA TypeStep == TypeOK /\ [Next]_vars => TypeOK'
<1> SUFFICES ASSUME TypeOK, [Next]_vars PROVE TypeOK'
  OBVIOUS
<1>1. SlotOf(writeSeq) \in 0 .. Slots - 1 /\ SlotOf(readSeq) \in 0 .. Slots - 1
  BY SlotsAssumption DEF TypeOK, SlotOf
<1>2. CASE Encode
  BY <1>2 DEF Encode, ProducerGoes, TypeOK, ProducerSteps, ConsumerSteps,
     ringVars, producerVars, consumerVars
<1>3. CASE LeaveLoop
  BY <1>3 DEF LeaveLoop, ProducerGoes, TypeOK, ProducerSteps, ConsumerSteps,
     ringVars, producerVars, consumerVars
<1>4. CASE FindRoom
  BY <1>4 DEF FindRoom, ProducerGoes, TypeOK, ProducerSteps, ConsumerSteps,
     ringVars, producerVars, consumerVars
<1>5. CASE GiveUpRoom
  BY <1>5 DEF GiveUpRoom, ProducerGoes, TypeOK, ProducerSteps, ConsumerSteps,
     ringVars, producerVars, consumerVars
<1>6. CASE WriteLength
  <2>1. slots' \in [0 .. Slots - 1 -> [length : Nat, payload : Nat]]
    <3>1. slots' = [slots EXCEPT ![SlotOf(writeSeq)].length = writeSeq + 1]
      BY <1>6 DEF WriteLength
    <3>2. /\ slots \in [0 .. Slots - 1 -> [length : Nat, payload : Nat]]
          /\ writeSeq + 1 \in Nat
      BY DEF TypeOK
    <3> QED BY <1>1, <3>1, <3>2
  <2>2. QED
    BY <1>6, <2>1 DEF WriteLength, ProducerGoes, TypeOK, ProducerSteps, consumerVars
<1>7. CASE WritePayload
  <2>1. slots' \in [0 .. Slots - 1 -> [length : Nat, payload : Nat]]
    <3>1. slots' = [slots EXCEPT ![SlotOf(writeSeq)].payload = writeSeq + 1]
      BY <1>7 DEF WritePayload
    <3>2. /\ slots \in [0 .. Slots - 1 -> [length : Nat, payload : Nat]]
          /\ writeSeq + 1 \in Nat
      BY DEF TypeOK
    <3> QED BY <1>1, <3>1, <3>2
  <2>2. QED
    BY <1>7, <2>1 DEF WritePayload, ProducerGoes, TypeOK, ProducerSteps, consumerVars
<1>8. CASE Publish
  BY <1>8 DEF Publish, ProducerGoes, TypeOK, ProducerSteps, ConsumerSteps,
     ringVars, producerVars, consumerVars
<1>9. CASE Notify
  BY <1>9, NotifyAssumption, SlotsAssumption DEF Notify, ProducerGoes, TypeOK, ProducerSteps, ConsumerSteps,
     ringVars, producerVars, consumerVars
<1>10. CASE Wake
  BY <1>10 DEF Wake, ProducerGoes, TypeOK, ProducerSteps, ConsumerSteps,
     ringVars, producerVars, consumerVars
<1>11. CASE Close
  BY <1>11 DEF Close, ProducerGoes, TypeOK, ProducerSteps, ConsumerSteps,
     ringVars, producerVars, consumerVars
<1>12. CASE Proceed
  BY <1>12 DEF Proceed, ConsumerGoes, TypeOK, ProducerSteps, ConsumerSteps,
     ringVars, producerVars, consumerVars
<1>13. CASE Quit
  BY <1>13 DEF Quit, ConsumerGoes, TypeOK, ProducerSteps, ConsumerSteps,
     ringVars, producerVars, consumerVars
<1>14. CASE LoadWriteSeq
  BY <1>14 DEF LoadWriteSeq, ConsumerGoes, TypeOK, ProducerSteps, ConsumerSteps,
     ringVars, producerVars, consumerVars
<1>15. CASE ReadLength
  <2>1. slots[SlotOf(readSeq)].length \in Nat
    BY <1>1 DEF TypeOK
  <2>2. QED
    BY <1>15, <2>1, NalsAssumption
    DEF ReadLength, ConsumerGoes, TypeOK, ConsumerSteps, ringVars, producerVars
<1>16. CASE Emit
  <2>1. slots[SlotOf(readSeq)].payload \in Nat
    BY <1>1 DEF TypeOK
  <2>2. QED
    BY <1>16, <2>1, NalsAssumption
    DEF Emit, ConsumerGoes, TypeOK, ConsumerSteps, ringVars, producerVars
<1>17. CASE QuitEmit
  BY <1>17 DEF QuitEmit, ConsumerGoes, TypeOK, ProducerSteps, ConsumerSteps,
     ringVars, producerVars, consumerVars
<1>18. CASE Advance
  BY <1>18 DEF Advance, ConsumerGoes, TypeOK, ProducerSteps, ConsumerSteps,
     ringVars, producerVars, consumerVars
<1>19. CASE LoadClosed
  BY <1>19 DEF LoadClosed, ConsumerGoes, TypeOK, ProducerSteps, ConsumerSteps,
     ringVars, producerVars, consumerVars
<1>20. CASE LoadNotify
  BY <1>20 DEF LoadNotify, ConsumerGoes, TypeOK, ProducerSteps, ConsumerSteps,
     ringVars, producerVars, consumerVars
<1>21. CASE RecheckWriteSeq
  BY <1>21 DEF RecheckWriteSeq, ConsumerGoes, TypeOK, ProducerSteps, ConsumerSteps,
     ringVars, producerVars, consumerVars
<1>22. CASE RecheckClosed
  BY <1>22 DEF RecheckClosed, ConsumerGoes, TypeOK, ProducerSteps, ConsumerSteps,
     ringVars, producerVars, consumerVars
<1>23. CASE FutexWait
  BY <1>23 DEF FutexWait, ConsumerGoes, TypeOK, ProducerSteps, ConsumerSteps,
     ringVars, producerVars, consumerVars
<1>24. CASE WaitEnds
  BY <1>24 DEF WaitEnds, ConsumerGoes, TypeOK, ProducerSteps, ConsumerSteps,
     ringVars, producerVars, consumerVars
<1>25. CASE Signal
  BY <1>25 DEF Signal, TypeOK, ProducerSteps, ConsumerSteps,
     ringVars, producerVars, consumerVars
<1>26. CASE Cancel
  BY <1>26 DEF Cancel, TypeOK, ProducerSteps, ConsumerSteps,
     ringVars, producerVars, consumerVars
<1>27. CASE Crash
  BY <1>27 DEF Crash, TypeOK, ProducerSteps, ConsumerSteps,
     ringVars, producerVars, consumerVars
<1>28. CASE Reap
  BY <1>28 DEF Reap, TypeOK, ProducerSteps, ConsumerSteps,
     ringVars, producerVars, consumerVars
<1>29. CASE UNCHANGED vars
  BY <1>29 DEF vars, TypeOK, ringVars, producerVars, consumerVars
<1>30. QED
  BY <1>2, <1>3, <1>4, <1>5, <1>6, <1>7, <1>8, <1>9, <1>10, <1>11, <1>12,
     <1>13, <1>14, <1>15, <1>16, <1>17, <1>18, <1>19, <1>20, <1>21, <1>22,
     <1>23, <1>24, <1>25, <1>26, <1>27, <1>28, <1>29 DEF Next, ProducerStep,
     ConsumerStep

\* For every number of slots, the two processes and the shared words stay in
\* their types; in particular the futex word stays below its modulus.
THEOREM TypeCorrect == Spec => []TypeOK
<1>1. QED BY TypeInit, TypeStep, PTL DEF Spec

-------------------------------------------------------------------------------
(* The ring: the producer fills only slots the consumer has left. *)

RingInv ==
  /\ UnreadIntact
  /\ ppc \in {"length", "payload", "publish"} => HasRoom
  /\ ppc \in {"payload", "publish"} => slots[SlotOf(writeSeq)].length = writeSeq + 1
  /\ ppc = "publish" => slots[SlotOf(writeSeq)].payload = writeSeq + 1
  /\ cpc \in {"slot", "emit", "advance"} => readSeq < writeSeq
  /\ cpc = "emit" => length = readSeq + 1

\* The slot being filled holds no unread packet.
LEMMA FreeSlot ==
  ASSUME TypeOK, HasRoom, NEW seq \in readSeq .. writeSeq - 1
  PROVE  SlotOf(seq) # SlotOf(writeSeq)
<1>1. seq \in Nat /\ writeSeq \in Nat /\ seq < writeSeq /\ writeSeq - seq < Slots
  BY SlotsAssumption DEF TypeOK, HasRoom
<1>2. QED BY <1>1, ModDistinct, SlotsAssumption DEF SlotOf

\* An empty ring has nothing in it to be torn.
LEMMA RingInit == Init => RingInv
  BY SlotsAssumption DEF Init, RingInv, UnreadIntact

\* The producer touches only the slot after the published ones, and the consumer
\* frees a slot only after its last NAL unit: no step disturbs an unread packet.
LEMMA RingStep == TypeOK /\ RingInv /\ [Next]_vars => RingInv'
<1> SUFFICES ASSUME TypeOK, RingInv, [Next]_vars PROVE RingInv'
  OBVIOUS
<1>1. SlotOf(writeSeq) \in 0 .. Slots - 1 /\ SlotOf(readSeq) \in 0 .. Slots - 1
      /\ \A seq \in readSeq .. writeSeq - 1 : SlotOf(seq) \in 0 .. Slots - 1
  BY SlotsAssumption DEF TypeOK, SlotOf
<1>2. CASE Encode
  BY <1>2 DEF Encode, ProducerGoes, RingInv, UnreadIntact, HasRoom, SlotOf,
     ringVars, producerVars, consumerVars
<1>3. CASE LeaveLoop
  BY <1>3 DEF LeaveLoop, ProducerGoes, RingInv, UnreadIntact, HasRoom,
     SlotOf, ringVars, producerVars, consumerVars
<1>4. CASE FindRoom
  BY <1>4 DEF FindRoom, ProducerGoes, RingInv, UnreadIntact, HasRoom,
     SlotOf, ringVars, producerVars, consumerVars
<1>5. CASE GiveUpRoom
  BY <1>5 DEF GiveUpRoom, ProducerGoes, RingInv, UnreadIntact, HasRoom,
     SlotOf, ringVars, producerVars, consumerVars
<1>6. CASE WriteLength
  <2>1. \A seq \in readSeq .. writeSeq - 1 : slots'[SlotOf(seq)] = slots[SlotOf(seq)]
    BY <1>1, <1>6, FreeSlot DEF WriteLength, ProducerGoes, RingInv, TypeOK
  <2>2. slots'[SlotOf(writeSeq)].length = writeSeq + 1
    BY <1>1, <1>6 DEF WriteLength, TypeOK
  <2>3. QED
    BY <1>6, <2>1, <2>2
    DEF WriteLength, ProducerGoes, RingInv, UnreadIntact, HasRoom, SlotOf, TypeOK,
        consumerVars
<1>7. CASE WritePayload
  <2>1. \A seq \in readSeq .. writeSeq - 1 : slots'[SlotOf(seq)] = slots[SlotOf(seq)]
    BY <1>1, <1>7, FreeSlot DEF WritePayload, ProducerGoes, RingInv, TypeOK
  <2>2. slots'[SlotOf(writeSeq)].payload = writeSeq + 1
        /\ slots'[SlotOf(writeSeq)].length = slots[SlotOf(writeSeq)].length
    BY <1>1, <1>7 DEF WritePayload, TypeOK
  <2>3. QED
    BY <1>7, <2>1, <2>2
    DEF WritePayload, ProducerGoes, RingInv, UnreadIntact, HasRoom, SlotOf, TypeOK,
        consumerVars
<1>8. CASE Publish
  <2>1. slots[SlotOf(writeSeq)] = [length |-> writeSeq + 1, payload |-> writeSeq + 1]
    BY <1>1, <1>8 DEF Publish, ProducerGoes, RingInv, TypeOK
  <2>2. readSeq <= writeSeq' /\ writeSeq' - readSeq <= Slots
    BY <1>8, SlotsAssumption DEF Publish, ProducerGoes, RingInv, UnreadIntact, HasRoom, TypeOK
  <2>3. ASSUME NEW seq \in readSeq .. writeSeq' - 1
        PROVE  slots[SlotOf(seq)] = [length |-> seq + 1, payload |-> seq + 1]
    <3>1. seq \in readSeq .. writeSeq - 1 \/ seq = writeSeq
      BY <1>8 DEF Publish, TypeOK
    <3>2. QED BY <2>1, <3>1 DEF RingInv, UnreadIntact
  <2>4. QED
    BY <1>8, <2>2, <2>3
    DEF Publish, ProducerGoes, RingInv, UnreadIntact, SlotOf, TypeOK, consumerVars
<1>9. CASE Notify
  BY <1>9 DEF Notify, ProducerGoes, RingInv, UnreadIntact, HasRoom, SlotOf,
     ringVars, producerVars, consumerVars
<1>10. CASE Wake
  BY <1>10 DEF Wake, ProducerGoes, RingInv, UnreadIntact, HasRoom, SlotOf,
     ringVars, producerVars, consumerVars
<1>11. CASE Close
  BY <1>11 DEF Close, ProducerGoes, RingInv, UnreadIntact, HasRoom, SlotOf,
     ringVars, producerVars, consumerVars
<1>12. CASE Proceed
  BY <1>12 DEF Proceed, ConsumerGoes, RingInv, UnreadIntact, HasRoom,
     SlotOf, ringVars, producerVars, consumerVars
<1>13. CASE Quit
  BY <1>13 DEF Quit, ConsumerGoes, RingInv, UnreadIntact, HasRoom, SlotOf,
     ringVars, producerVars, consumerVars
<1>14. CASE LoadWriteSeq
  BY <1>14 DEF LoadWriteSeq, ConsumerGoes, RingInv, UnreadIntact, HasRoom,
     SlotOf, ringVars, producerVars, consumerVars
<1>15. CASE ReadLength
  <2>1. readSeq \in readSeq .. writeSeq - 1
    BY <1>15 DEF ReadLength, ConsumerGoes, RingInv, TypeOK
  <2>2. slots[SlotOf(readSeq)] = [length |-> readSeq + 1, payload |-> readSeq + 1]
    BY <2>1 DEF RingInv, UnreadIntact
  <2>3. QED
    BY <1>15, <2>2
    DEF ReadLength, ConsumerGoes, RingInv, UnreadIntact, HasRoom, SlotOf, ringVars,
        producerVars
<1>16. CASE Emit
  BY <1>16 DEF Emit, ConsumerGoes, RingInv, UnreadIntact, HasRoom, SlotOf,
     ringVars, producerVars, consumerVars
<1>17. CASE QuitEmit
  BY <1>17 DEF QuitEmit, ConsumerGoes, RingInv, UnreadIntact, HasRoom,
     SlotOf, ringVars, producerVars, consumerVars
<1>18. CASE Advance
  <2>1. readSeq \in Nat /\ writeSeq \in Nat /\ readSeq < writeSeq /\ Slots \in Nat
    BY <1>18, SlotsAssumption DEF Advance, ConsumerGoes, RingInv, TypeOK
  <2>2. readSeq' = readSeq + 1 /\ writeSeq' = writeSeq /\ slots' = slots
        /\ ppc' = ppc /\ cpc' = "top"
    BY <1>18 DEF Advance, ConsumerGoes, producerVars
  <2>3. readSeq' <= writeSeq' /\ writeSeq' - readSeq' <= Slots
    BY <2>1, <2>2 DEF RingInv, UnreadIntact
  <2>4. ASSUME NEW seq \in readSeq' .. writeSeq' - 1
        PROVE  slots'[SlotOf(seq)] = [length |-> seq + 1, payload |-> seq + 1]
    <3>1. seq \in readSeq .. writeSeq - 1
      BY <2>1, <2>2
    <3>2. QED BY <2>2, <3>1 DEF RingInv, UnreadIntact
  <2>5. UnreadIntact'
    BY <2>3, <2>4 DEF UnreadIntact, SlotOf
  <2>6. ppc \in {"length", "payload", "publish"} => writeSeq' - readSeq' < Slots
    BY <2>1, <2>2 DEF RingInv, HasRoom
  <2>7. QED
    BY <2>2, <2>5, <2>6 DEF RingInv, HasRoom, SlotOf
<1>19. CASE LoadClosed
  BY <1>19 DEF LoadClosed, ConsumerGoes, RingInv, UnreadIntact, HasRoom,
     SlotOf, ringVars, producerVars, consumerVars
<1>20. CASE LoadNotify
  BY <1>20 DEF LoadNotify, ConsumerGoes, RingInv, UnreadIntact, HasRoom,
     SlotOf, ringVars, producerVars, consumerVars
<1>21. CASE RecheckWriteSeq
  BY <1>21 DEF RecheckWriteSeq, ConsumerGoes, RingInv, UnreadIntact,
     HasRoom, SlotOf, ringVars, producerVars, consumerVars
<1>22. CASE RecheckClosed
  BY <1>22 DEF RecheckClosed, ConsumerGoes, RingInv, UnreadIntact, HasRoom,
     SlotOf, ringVars, producerVars, consumerVars
<1>23. CASE FutexWait
  BY <1>23 DEF FutexWait, ConsumerGoes, RingInv, UnreadIntact, HasRoom,
     SlotOf, ringVars, producerVars, consumerVars
<1>24. CASE WaitEnds
  BY <1>24 DEF WaitEnds, ConsumerGoes, RingInv, UnreadIntact, HasRoom,
     SlotOf, ringVars, producerVars, consumerVars
<1>25. CASE Signal
  BY <1>25 DEF Signal, RingInv, UnreadIntact, HasRoom, SlotOf, ringVars,
     producerVars, consumerVars
<1>26. CASE Cancel
  BY <1>26 DEF Cancel, RingInv, UnreadIntact, HasRoom, SlotOf, ringVars,
     producerVars, consumerVars
<1>27. CASE Crash
  BY <1>27 DEF Crash, RingInv, UnreadIntact, HasRoom, SlotOf, ringVars,
     producerVars, consumerVars
<1>28. CASE Reap
  BY <1>28 DEF Reap, RingInv, UnreadIntact, HasRoom, SlotOf, ringVars,
     producerVars, consumerVars
<1>29. CASE UNCHANGED vars
  BY <1>29
  DEF vars, RingInv, UnreadIntact, HasRoom, SlotOf, ringVars, producerVars,
      consumerVars
<1>30. QED
  BY <1>2, <1>3, <1>4, <1>5, <1>6, <1>7, <1>8, <1>9, <1>10, <1>11, <1>12,
     <1>13, <1>14, <1>15, <1>16, <1>17, <1>18, <1>19, <1>20, <1>21, <1>22,
     <1>23, <1>24, <1>25, <1>26, <1>27, <1>28, <1>29 DEF Next, ProducerStep,
     ConsumerStep
-------------------------------------------------------------------------------
(* The stream: where the consumer is in a packet and what it last emitted. *)

StreamInv ==
  /\ cpc = "emit" =>
       emitted = IF nal = 1 THEN [packet |-> readSeq, nal |-> NalsPerPacket]
                            ELSE [packet |-> readSeq + 1, nal |-> nal - 1]
  /\ cpc = "advance" => nal = 1 /\ emitted = [packet |-> readSeq + 1, nal |-> NalsPerPacket]
  /\ cpc \notin {"emit", "advance", "done"} =>
       nal = 1 /\ emitted = [packet |-> readSeq, nal |-> NalsPerPacket]

\* Before the first NAL unit the history stands at the end of packet 0.
LEMMA StreamInit == Init => StreamInv
  BY DEF Init, StreamInv

\* The payload the consumer reads is that of the packet after readSeq.
LEMMA PayloadRead ==
  ASSUME TypeOK, RingInv, cpc = "emit"
  PROVE  slots[SlotOf(readSeq)] = [length |-> readSeq + 1, payload |-> readSeq + 1]
<1>1. readSeq \in readSeq .. writeSeq - 1
  BY DEF TypeOK, RingInv
<1>2. QED BY <1>1 DEF RingInv, UnreadIntact

\* Each step keeps the history in line with readSeq and the next NAL unit.
LEMMA StreamStep == TypeOK /\ RingInv /\ StreamInv /\ [Next]_vars => StreamInv'
<1> SUFFICES ASSUME TypeOK, RingInv, StreamInv, [Next]_vars PROVE StreamInv'
  OBVIOUS
<1>1. CASE Encode
  BY <1>1 DEF Encode, ProducerGoes, StreamInv, ringVars, producerVars,
     consumerVars
<1>2. CASE LeaveLoop
  BY <1>2 DEF LeaveLoop, ProducerGoes, StreamInv, ringVars, producerVars,
     consumerVars
<1>3. CASE FindRoom
  BY <1>3 DEF FindRoom, ProducerGoes, StreamInv, ringVars, producerVars,
     consumerVars
<1>4. CASE GiveUpRoom
  BY <1>4 DEF GiveUpRoom, ProducerGoes, StreamInv, ringVars, producerVars,
     consumerVars
<1>5. CASE WriteLength
  BY <1>5 DEF WriteLength, ProducerGoes, StreamInv, ringVars, producerVars,
     consumerVars
<1>6. CASE WritePayload
  BY <1>6 DEF WritePayload, ProducerGoes, StreamInv, ringVars, producerVars,
     consumerVars
<1>7. CASE Publish
  BY <1>7 DEF Publish, ProducerGoes, StreamInv, ringVars, producerVars,
     consumerVars
<1>8. CASE Notify
  BY <1>8 DEF Notify, ProducerGoes, StreamInv, ringVars, producerVars,
     consumerVars
<1>9. CASE Wake
  BY <1>9 DEF Wake, ProducerGoes, StreamInv, ringVars, producerVars,
     consumerVars
<1>10. CASE Close
  BY <1>10 DEF Close, ProducerGoes, StreamInv, ringVars, producerVars,
     consumerVars
<1>11. CASE Proceed
  BY <1>11 DEF Proceed, ConsumerGoes, StreamInv, ringVars, producerVars,
     consumerVars
<1>12. CASE Quit
  BY <1>12 DEF Quit, ConsumerGoes, StreamInv, ringVars, producerVars,
     consumerVars
<1>13. CASE LoadWriteSeq
  BY <1>13 DEF LoadWriteSeq, ConsumerGoes, StreamInv, ringVars,
     producerVars, consumerVars
<1>14. CASE ReadLength
  BY <1>14 DEF ReadLength, ConsumerGoes, StreamInv, ringVars, producerVars,
     consumerVars
<1>15. CASE Emit
  <2>1. emitted' = [packet |-> readSeq + 1, nal |-> nal] /\ readSeq' = readSeq
    BY <1>15, PayloadRead DEF Emit, ConsumerGoes, ringVars
  <2>2. nal \in 1 .. NalsPerPacket /\ NalsPerPacket \in Nat \ {0} /\ cpc = "emit"
    BY <1>15, NalsAssumption DEF TypeOK, Emit, ConsumerGoes
  <2>3. CASE nal = NalsPerPacket
    BY <1>15, <2>1, <2>2, <2>3 DEF Emit, ConsumerGoes, StreamInv
  <2>4. CASE nal # NalsPerPacket
    <3>1. nal' = nal + 1 /\ nal' # 1 /\ nal' - 1 = nal /\ cpc' = "emit"
      BY <1>15, <2>2, <2>4 DEF Emit, ConsumerGoes
    <3>2. QED BY <2>1, <3>1 DEF StreamInv
  <2>5. QED BY <2>3, <2>4
<1>16. CASE QuitEmit
  BY <1>16 DEF QuitEmit, ConsumerGoes, StreamInv, ringVars, producerVars,
     consumerVars
<1>17. CASE Advance
  BY <1>17 DEF Advance, ConsumerGoes, StreamInv, ringVars, producerVars,
     consumerVars
<1>18. CASE LoadClosed
  BY <1>18 DEF LoadClosed, ConsumerGoes, StreamInv, ringVars, producerVars,
     consumerVars
<1>19. CASE LoadNotify
  BY <1>19 DEF LoadNotify, ConsumerGoes, StreamInv, ringVars, producerVars,
     consumerVars
<1>20. CASE RecheckWriteSeq
  BY <1>20 DEF RecheckWriteSeq, ConsumerGoes, StreamInv, ringVars,
     producerVars, consumerVars
<1>21. CASE RecheckClosed
  BY <1>21 DEF RecheckClosed, ConsumerGoes, StreamInv, ringVars,
     producerVars, consumerVars
<1>22. CASE FutexWait
  BY <1>22 DEF FutexWait, ConsumerGoes, StreamInv, ringVars, producerVars,
     consumerVars
<1>23. CASE WaitEnds
  BY <1>23 DEF WaitEnds, ConsumerGoes, StreamInv, ringVars, producerVars,
     consumerVars
<1>24. CASE Signal
  BY <1>24 DEF Signal, StreamInv, ringVars, producerVars, consumerVars
<1>25. CASE Cancel
  BY <1>25 DEF Cancel, StreamInv, ringVars, producerVars, consumerVars
<1>26. CASE Crash
  BY <1>26 DEF Crash, StreamInv, ringVars, producerVars, consumerVars
<1>27. CASE Reap
  BY <1>27 DEF Reap, StreamInv, ringVars, producerVars, consumerVars
<1>28. CASE UNCHANGED vars
  BY <1>28 DEF vars, StreamInv, ringVars, producerVars, consumerVars
<1>29. QED
  BY <1>1, <1>2, <1>3, <1>4, <1>5, <1>6, <1>7, <1>8, <1>9, <1>10, <1>11,
     <1>12, <1>13, <1>14, <1>15, <1>16, <1>17, <1>18, <1>19, <1>20, <1>21,
     <1>22, <1>23, <1>24, <1>25, <1>26, <1>27, <1>28 DEF Next, ProducerStep,
     ConsumerStep

-------------------------------------------------------------------------------
(* The wakeup: notifySeq counts, modulo NotifyModulus, the publications and *)
(* the close that were notified; the consumer remembers such a count.       *)

\* Everything the consumer may have to be told: packets, and the close.
Events == writeSeq + closed

\* notifySeq stands for the count n: it lags by the event being notified.
Notified(n) ==
  /\ notifySeq = n % NotifyModulus
  /\ ppc = "notify" => n = Events - 1
  /\ ppc \notin {"notify", "dead"} => n = Events

\* seen stands for the count m, one the consumer read while, or just before,
\* the ring was empty.
Seen(m) ==
  /\ seen = m % NotifyModulus
  /\ cpc = "open?" => writeSeq >= readSeq /\ m <= readSeq + 1 /\ (m = readSeq + 1 => closed = 1)
  /\ cpc = "futex" => m <= readSeq

\* The consumer between its read of notifySeq and its wait.
Watching == cpc \in {"again?", "open?", "futex"}

Counted(n) == n \in Events - 1 .. Events /\ n \in Nat /\ Notified(n)
Remembered(n) == Watching => \E m \in readSeq - 1 .. n : m \in Nat /\ Seen(m)

WakeInv ==
  /\ closed = 1 => ppc \in {"notify", "wake", "gone", "dead"}
  /\ \E n \in Events - 1 .. Events : Counted(n) /\ Remembered(n)
  /\ NoLostWakeup

\* No notification has been made, and the consumer is not about to wait.
LEMMA WakeInit == Init => WakeInv
<1> SUFFICES ASSUME Init PROVE WakeInv
  OBVIOUS
<1>1. Events = 0 /\ 0 \in Events - 1 .. Events
  BY DEF Init, Events
<1>2. 0 % NotifyModulus = 0
  BY NotifyAssumption, SlotsAssumption
<1>3. Counted(0) /\ Remembered(0)
  BY <1>1, <1>2 DEF Init, Counted, Notified, Remembered, Watching
<1>4. QED BY <1>1, <1>3 DEF Init, WakeInv, NoLostWakeup

\* The kernel compares the futex word with the one the consumer read; they are
\* equal only if no event was notified in between.
LEMMA SameCount ==
  ASSUME NEW m \in Nat, NEW n \in Nat, m <= n, n - m <= Slots + 2,
         m % NotifyModulus = n % NotifyModulus
  PROVE  m = n
<1>1. NotifyModulus \in Nat \ {0} /\ n - m < NotifyModulus
  BY NotifyAssumption, SlotsAssumption
<1>2. CASE m < n
  <2>1. m % NotifyModulus # n % NotifyModulus
    BY <1>1, <1>2, ModDistinct
  <2>2. QED BY <2>1
<1>3. QED BY <1>2

\* Each step keeps the account of notifications: a consumer past its re-checks
\* remembers a futex word that something still to be notified will change.
LEMMA WakeStep == TypeOK /\ RingInv /\ WakeInv /\ [Next]_vars => WakeInv'
<1> SUFFICES ASSUME TypeOK, RingInv, WakeInv, [Next]_vars PROVE WakeInv'
  OBVIOUS
<1>0. PICK n \in Events - 1 .. Events : Counted(n) /\ Remembered(n)
  BY DEF WakeInv
<1>a. writeSeq \in Nat /\ readSeq \in Nat /\ closed \in {0, 1} /\ Events \in Nat
      /\ n \in Nat /\ readSeq <= writeSeq /\ writeSeq - readSeq <= Slots /\ Slots \in Nat
  BY <1>0, SlotsAssumption DEF TypeOK, Events, Counted, RingInv, UnreadIntact
<1>b. ASSUME NEW k \in Nat, k \in Events' - 1 .. Events', Notified(k)', Remembered(k)',
             closed' = 1 => ppc' \in {"notify", "wake", "gone", "dead"}, NoLostWakeup'
      PROVE  WakeInv'
  BY <1>b DEF WakeInv, Counted
<1>1. CASE Encode
  <2>1. UNCHANGED <<writeSeq, readSeq, closed, notifySeq, cpc, seen>>
    BY <1>1 DEF Encode, ringVars, consumerVars
  <2>2. ppc \notin {"notify", "wake", "gone", "dead"} /\ ppc' \notin {"notify", "wake", "gone", "dead"}
    BY <1>1 DEF Encode, ProducerGoes
  <2>3. Notified(n)' /\ Remembered(n)'
    BY <1>0, <2>1, <2>2 DEF Counted, Notified, Remembered, Watching, Seen, Events
  <2>4. NoLostWakeup' /\ closed' # 1
    BY <2>1, <2>2 DEF WakeInv, NoLostWakeup
  <2>5. QED BY <1>0, <1>a, <1>b, <2>1, <2>3, <2>4 DEF Events
<1>2. CASE LeaveLoop
  <2>1. UNCHANGED <<writeSeq, readSeq, closed, notifySeq, cpc, seen>>
    BY <1>2 DEF LeaveLoop, ringVars, consumerVars
  <2>2. ppc \notin {"notify", "wake", "gone", "dead"} /\ ppc' \notin {"notify", "wake", "gone", "dead"}
    BY <1>2 DEF LeaveLoop, ProducerGoes
  <2>3. Notified(n)' /\ Remembered(n)'
    BY <1>0, <2>1, <2>2 DEF Counted, Notified, Remembered, Watching, Seen, Events
  <2>4. NoLostWakeup' /\ closed' # 1
    BY <2>1, <2>2 DEF WakeInv, NoLostWakeup
  <2>5. QED BY <1>0, <1>a, <1>b, <2>1, <2>3, <2>4 DEF Events
<1>3. CASE FindRoom
  <2>1. UNCHANGED <<writeSeq, readSeq, closed, notifySeq, cpc, seen>>
    BY <1>3 DEF FindRoom, ringVars, consumerVars
  <2>2. ppc \notin {"notify", "wake", "gone", "dead"} /\ ppc' \notin {"notify", "wake", "gone", "dead"}
    BY <1>3 DEF FindRoom, ProducerGoes
  <2>3. Notified(n)' /\ Remembered(n)'
    BY <1>0, <2>1, <2>2 DEF Counted, Notified, Remembered, Watching, Seen, Events
  <2>4. NoLostWakeup' /\ closed' # 1
    BY <2>1, <2>2 DEF WakeInv, NoLostWakeup
  <2>5. QED BY <1>0, <1>a, <1>b, <2>1, <2>3, <2>4 DEF Events
<1>4. CASE GiveUpRoom
  <2>1. UNCHANGED <<writeSeq, readSeq, closed, notifySeq, cpc, seen>>
    BY <1>4 DEF GiveUpRoom, ringVars, consumerVars
  <2>2. ppc \notin {"notify", "wake", "gone", "dead"} /\ ppc' \notin {"notify", "wake", "gone", "dead"}
    BY <1>4 DEF GiveUpRoom, ProducerGoes
  <2>3. Notified(n)' /\ Remembered(n)'
    BY <1>0, <2>1, <2>2 DEF Counted, Notified, Remembered, Watching, Seen, Events
  <2>4. NoLostWakeup' /\ closed' # 1
    BY <2>1, <2>2 DEF WakeInv, NoLostWakeup
  <2>5. QED BY <1>0, <1>a, <1>b, <2>1, <2>3, <2>4 DEF Events
<1>5. CASE WriteLength
  <2>1. UNCHANGED <<writeSeq, readSeq, closed, notifySeq, cpc, seen>>
    BY <1>5 DEF WriteLength, ringVars, consumerVars
  <2>2. ppc \notin {"notify", "wake", "gone", "dead"} /\ ppc' \notin {"notify", "wake", "gone", "dead"}
    BY <1>5 DEF WriteLength, ProducerGoes
  <2>3. Notified(n)' /\ Remembered(n)'
    BY <1>0, <2>1, <2>2 DEF Counted, Notified, Remembered, Watching, Seen, Events
  <2>4. NoLostWakeup' /\ closed' # 1
    BY <2>1, <2>2 DEF WakeInv, NoLostWakeup
  <2>5. QED BY <1>0, <1>a, <1>b, <2>1, <2>3, <2>4 DEF Events
<1>6. CASE WritePayload
  <2>1. UNCHANGED <<writeSeq, readSeq, closed, notifySeq, cpc, seen>>
    BY <1>6 DEF WritePayload, ringVars, consumerVars
  <2>2. ppc \notin {"notify", "wake", "gone", "dead"} /\ ppc' \notin {"notify", "wake", "gone", "dead"}
    BY <1>6 DEF WritePayload, ProducerGoes
  <2>3. Notified(n)' /\ Remembered(n)'
    BY <1>0, <2>1, <2>2 DEF Counted, Notified, Remembered, Watching, Seen, Events
  <2>4. NoLostWakeup' /\ closed' # 1
    BY <2>1, <2>2 DEF WakeInv, NoLostWakeup
  <2>5. QED BY <1>0, <1>a, <1>b, <2>1, <2>3, <2>4 DEF Events
<1>7. CASE Publish
  <2>1. UNCHANGED <<readSeq, closed, notifySeq, cpc, seen>> /\ Events' = Events + 1
    BY <1>7, <1>a DEF Publish, ProducerGoes, WakeInv, Events, consumerVars
  <2>2. ppc \notin {"notify", "wake", "gone", "dead"} /\ ppc' = "notify" /\ n = Events
    BY <1>0, <1>7 DEF Publish, ProducerGoes, Counted, Notified
  <2>3. Notified(n)'
    BY <1>0, <1>a, <2>1, <2>2 DEF Counted, Notified
  <2>4. Remembered(n)'
    <3>1. SUFFICES ASSUME Watching PROVE \E m \in readSeq - 1 .. n : m \in Nat /\ Seen(m)'
      BY <2>1 DEF Remembered, Watching
    <3>2. PICK m \in readSeq - 1 .. n : m \in Nat /\ Seen(m)
      BY <1>0, <3>1 DEF Remembered
    <3>3. Seen(m)'
      BY <1>a, <1>7, <2>1, <3>2 DEF Seen, Publish
    <3>4. QED BY <3>2, <3>3
  <2>5. QED BY <1>0, <1>a, <1>b, <2>1, <2>2, <2>3, <2>4 DEF NoLostWakeup
<1>8. CASE Notify
  <2>1. UNCHANGED <<writeSeq, readSeq, closed, cpc, seen>> /\ ppc = "notify" /\ ppc' = "wake"
    BY <1>8 DEF Notify, ProducerGoes, consumerVars
  <2>2. n = Events - 1 /\ n + 1 = Events /\ Events' = Events
    BY <1>0, <1>a, <2>1 DEF Counted, Notified, Events
  <2>3. notifySeq' = (n + 1) % NotifyModulus
    <3>1. NotifyModulus \in Nat \ {0} /\ NotifyModulus > 1
      BY NotifyAssumption, SlotsAssumption
    <3>2. notifySeq = n % NotifyModulus /\ notifySeq' = (notifySeq + 1) % NotifyModulus
      BY <1>0, <1>8 DEF Notify, Counted, Notified
    <3>3. QED BY <1>a, <3>1, <3>2, ModSuccessor
  <2>4. Notified(n + 1)'
    BY <2>1, <2>2, <2>3 DEF Notified, Events
  <2>5. Remembered(n + 1)'
    BY <1>0, <1>a, <2>1 DEF Remembered, Watching, Seen
  <2>6. QED BY <1>a, <1>b, <2>1, <2>2, <2>4, <2>5 DEF WakeInv, NoLostWakeup, Events
<1>9. CASE Wake
  <2>1. UNCHANGED <<writeSeq, readSeq, closed, notifySeq, seen>> /\ ppc = "wake"
        /\ ppc' \in {"gone", "encode"} /\ (closed = 1 => ppc' = "gone") /\ Events' = Events
    BY <1>9 DEF Wake, ProducerGoes, ringVars, Events
  <2>2. Notified(n)'
    BY <1>0, <2>1 DEF Counted, Notified
  <2>3. cpc' # "asleep" /\ (Watching' => Watching /\ cpc' = cpc)
    BY <1>9 DEF Wake, Watching
  <2>4. Remembered(n)'
    BY <1>0, <2>1, <2>3 DEF Remembered, Seen
  <2>5. QED BY <1>0, <1>a, <1>b, <2>1, <2>2, <2>3, <2>4 DEF NoLostWakeup
<1>10. CASE Close
  <2>1. UNCHANGED <<readSeq, writeSeq, notifySeq, cpc, seen>> /\ Events' = Events + 1
    BY <1>10, <1>a DEF Close, ProducerGoes, WakeInv, Events, consumerVars
  <2>2. ppc \notin {"notify", "wake", "gone", "dead"} /\ ppc' = "notify" /\ n = Events
    BY <1>0, <1>10 DEF Close, ProducerGoes, Counted, Notified
  <2>3. Notified(n)'
    BY <1>0, <1>a, <2>1, <2>2 DEF Counted, Notified
  <2>4. Remembered(n)'
    <3>1. SUFFICES ASSUME Watching PROVE \E m \in readSeq - 1 .. n : m \in Nat /\ Seen(m)'
      BY <2>1 DEF Remembered, Watching
    <3>2. PICK m \in readSeq - 1 .. n : m \in Nat /\ Seen(m)
      BY <1>0, <3>1 DEF Remembered
    <3>3. Seen(m)'
      BY <1>a, <1>10, <2>1, <3>2 DEF Seen, Close
    <3>4. QED BY <3>2, <3>3
  <2>5. QED BY <1>0, <1>a, <1>b, <2>1, <2>2, <2>3, <2>4 DEF NoLostWakeup
<1>11. CASE Proceed
  <2>1. UNCHANGED <<writeSeq, closed, notifySeq, ppc>> /\ ~Watching' /\ cpc' # "asleep" /\ Events' = Events
    BY <1>11 DEF Proceed, ConsumerGoes, ringVars, producerVars, Events, Watching
  <2>2. Notified(n)' /\ Remembered(n)' /\ NoLostWakeup'
    BY <1>0, <2>1 DEF Counted, Notified, Remembered, NoLostWakeup
  <2>3. QED BY <1>0, <1>a, <1>b, <2>1, <2>2 DEF WakeInv
<1>12. CASE Quit
  <2>1. UNCHANGED <<writeSeq, closed, notifySeq, ppc>> /\ ~Watching' /\ cpc' # "asleep" /\ Events' = Events
    BY <1>12 DEF Quit, ConsumerGoes, ringVars, producerVars, Events, Watching
  <2>2. Notified(n)' /\ Remembered(n)' /\ NoLostWakeup'
    BY <1>0, <2>1 DEF Counted, Notified, Remembered, NoLostWakeup
  <2>3. QED BY <1>0, <1>a, <1>b, <2>1, <2>2 DEF WakeInv
<1>13. CASE LoadWriteSeq
  <2>1. UNCHANGED <<writeSeq, closed, notifySeq, ppc>> /\ ~Watching' /\ cpc' # "asleep" /\ Events' = Events
    BY <1>13 DEF LoadWriteSeq, ConsumerGoes, ringVars, producerVars, Events, Watching
  <2>2. Notified(n)' /\ Remembered(n)' /\ NoLostWakeup'
    BY <1>0, <2>1 DEF Counted, Notified, Remembered, NoLostWakeup
  <2>3. QED BY <1>0, <1>a, <1>b, <2>1, <2>2 DEF WakeInv
<1>14. CASE ReadLength
  <2>1. UNCHANGED <<writeSeq, closed, notifySeq, ppc>> /\ ~Watching' /\ cpc' # "asleep" /\ Events' = Events
    BY <1>14 DEF ReadLength, ConsumerGoes, ringVars, producerVars, Events, Watching
  <2>2. Notified(n)' /\ Remembered(n)' /\ NoLostWakeup'
    BY <1>0, <2>1 DEF Counted, Notified, Remembered, NoLostWakeup
  <2>3. QED BY <1>0, <1>a, <1>b, <2>1, <2>2 DEF WakeInv
<1>15. CASE Emit
  <2>1. UNCHANGED <<writeSeq, closed, notifySeq, ppc>> /\ ~Watching' /\ cpc' # "asleep" /\ Events' = Events
    BY <1>15 DEF Emit, ConsumerGoes, ringVars, producerVars, Events, Watching
  <2>2. Notified(n)' /\ Remembered(n)' /\ NoLostWakeup'
    BY <1>0, <2>1 DEF Counted, Notified, Remembered, NoLostWakeup
  <2>3. QED BY <1>0, <1>a, <1>b, <2>1, <2>2 DEF WakeInv
<1>16. CASE QuitEmit
  <2>1. UNCHANGED <<writeSeq, closed, notifySeq, ppc>> /\ ~Watching' /\ cpc' # "asleep" /\ Events' = Events
    BY <1>16 DEF QuitEmit, ConsumerGoes, ringVars, producerVars, Events, Watching
  <2>2. Notified(n)' /\ Remembered(n)' /\ NoLostWakeup'
    BY <1>0, <2>1 DEF Counted, Notified, Remembered, NoLostWakeup
  <2>3. QED BY <1>0, <1>a, <1>b, <2>1, <2>2 DEF WakeInv
<1>17. CASE Advance
  <2>1. UNCHANGED <<writeSeq, closed, notifySeq, ppc>> /\ ~Watching' /\ cpc' # "asleep" /\ Events' = Events
    BY <1>17 DEF Advance, ConsumerGoes, ringVars, producerVars, Events, Watching
  <2>2. Notified(n)' /\ Remembered(n)' /\ NoLostWakeup'
    BY <1>0, <2>1 DEF Counted, Notified, Remembered, NoLostWakeup
  <2>3. QED BY <1>0, <1>a, <1>b, <2>1, <2>2 DEF WakeInv
<1>18. CASE LoadClosed
  <2>1. UNCHANGED <<writeSeq, closed, notifySeq, ppc>> /\ ~Watching' /\ cpc' # "asleep" /\ Events' = Events
    BY <1>18 DEF LoadClosed, ConsumerGoes, ringVars, producerVars, Events, Watching
  <2>2. Notified(n)' /\ Remembered(n)' /\ NoLostWakeup'
    BY <1>0, <2>1 DEF Counted, Notified, Remembered, NoLostWakeup
  <2>3. QED BY <1>0, <1>a, <1>b, <2>1, <2>2 DEF WakeInv
<1>19. CASE LoadNotify
  <2>1. UNCHANGED <<writeSeq, readSeq, closed, notifySeq, ppc>> /\ cpc' = "again?"
        /\ seen' = notifySeq /\ Events' = Events
    BY <1>19 DEF LoadNotify, ConsumerGoes, ringVars, producerVars, Events
  <2>2. Notified(n)' /\ Seen(n)'
    BY <1>0, <2>1 DEF Counted, Notified, Seen
  <2>3. n \in readSeq - 1 .. n
    BY <1>0, <1>a DEF Events
  <2>4. Remembered(n)'
    BY <1>a, <2>1, <2>2, <2>3 DEF Remembered
  <2>5. QED BY <1>0, <1>a, <1>b, <2>1, <2>2, <2>4 DEF WakeInv, NoLostWakeup
<1>20. CASE RecheckWriteSeq
  <2>1. UNCHANGED <<writeSeq, readSeq, closed, notifySeq, ppc, seen>> /\ Events' = Events
        /\ cpc' # "asleep" /\ Watching
    BY <1>20 DEF RecheckWriteSeq, ConsumerGoes, ringVars, producerVars, Events, Watching
  <2>2. Notified(n)'
    BY <1>0, <2>1 DEF Counted, Notified
  <2>3. Remembered(n)'
    <3>1. SUFFICES ASSUME Watching' PROVE \E m \in readSeq - 1 .. n : m \in Nat /\ Seen(m)'
      BY <2>1 DEF Remembered
    <3>2. PICK m \in readSeq - 1 .. n : m \in Nat /\ Seen(m)
      BY <1>0, <2>1 DEF Remembered
    <3>3. writeSeq = readSeq /\ m <= readSeq + 1 /\ (m = readSeq + 1 => closed = 1)
      BY <1>0, <1>a, <1>20, <3>1, <3>2 DEF RecheckWriteSeq, ConsumerGoes, Watching, Events
    <3>4. Seen(m)'
      BY <1>a, <1>20, <2>1, <3>2, <3>3 DEF Seen, RecheckWriteSeq, ConsumerGoes
    <3>5. QED BY <3>2, <3>4
  <2>4. QED BY <1>0, <1>a, <1>b, <2>1, <2>2, <2>3 DEF WakeInv, NoLostWakeup
<1>21. CASE RecheckClosed
  <2>1. UNCHANGED <<writeSeq, readSeq, closed, notifySeq, ppc, seen>> /\ Events' = Events
        /\ cpc' # "asleep" /\ Watching
    BY <1>21 DEF RecheckClosed, ConsumerGoes, ringVars, producerVars, Events, Watching
  <2>2. Notified(n)'
    BY <1>0, <2>1 DEF Counted, Notified
  <2>3. Remembered(n)'
    <3>1. SUFFICES ASSUME Watching' PROVE \E m \in readSeq - 1 .. n : m \in Nat /\ Seen(m)'
      BY <2>1 DEF Remembered
    <3>2. PICK m \in readSeq - 1 .. n : m \in Nat /\ Seen(m)
      BY <1>0, <2>1 DEF Remembered
    <3>3. closed # 1 /\ m <= readSeq
      BY <1>a, <1>21, <3>1, <3>2 DEF RecheckClosed, ConsumerGoes, Watching, Seen
    <3>4. Seen(m)'
      BY <1>a, <1>21, <2>1, <3>2, <3>3 DEF Seen, RecheckClosed, ConsumerGoes
    <3>5. QED BY <3>2, <3>4
  <2>4. QED BY <1>0, <1>a, <1>b, <2>1, <2>2, <2>3 DEF WakeInv, NoLostWakeup
<1>22. CASE FutexWait
  <2>1. UNCHANGED <<writeSeq, readSeq, closed, notifySeq, ppc>> /\ ~Watching'
        /\ Watching /\ cpc = "futex" /\ Events' = Events
    BY <1>22 DEF FutexWait, ConsumerGoes, ringVars, producerVars, Events, Watching
  <2>2. PICK m \in readSeq - 1 .. n : m \in Nat /\ Seen(m)
    BY <1>0, <2>1 DEF Remembered
  <2>3. m <= readSeq
    BY <2>1, <2>2 DEF Seen
  <2>4. NoLostWakeup'
    <3>1. SUFFICES ASSUME cpc' = "asleep", closed = 1 \/ readSeq < writeSeq
                   PROVE  ppc \in {"notify", "wake", "dead"}
      BY <2>1 DEF NoLostWakeup
    <3>2. notifySeq = seen
      BY <1>22, <3>1 DEF FutexWait, ConsumerGoes
    <3>3. m % NotifyModulus = n % NotifyModulus
      BY <1>0, <2>2, <3>2 DEF Counted, Notified, Seen
    <3>4. m <= n /\ n - m <= Slots + 2
      BY <1>0, <1>a, <2>2 DEF Events
    <3>5. m = n
      BY <1>a, <2>2, <3>3, <3>4, SameCount
    <3>6. n # Events
      BY <1>a, <2>3, <3>1, <3>5 DEF Events
    <3>7. QED BY <1>0, <3>6 DEF Counted, Notified
  <2>5. Notified(n)' /\ Remembered(n)'
    BY <1>0, <2>1 DEF Counted, Notified, Remembered
  <2>6. QED BY <1>0, <1>a, <1>b, <2>1, <2>4, <2>5 DEF WakeInv
<1>23. CASE WaitEnds
  <2>1. UNCHANGED <<writeSeq, closed, notifySeq, ppc>> /\ ~Watching' /\ cpc' # "asleep" /\ Events' = Events
    BY <1>23 DEF WaitEnds, ConsumerGoes, ringVars, producerVars, Events, Watching
  <2>2. Notified(n)' /\ Remembered(n)' /\ NoLostWakeup'
    BY <1>0, <2>1 DEF Counted, Notified, Remembered, NoLostWakeup
  <2>3. QED BY <1>0, <1>a, <1>b, <2>1, <2>2 DEF WakeInv
<1>24. CASE Signal
  <2>1. UNCHANGED <<writeSeq, readSeq, closed, notifySeq, ppc, cpc, seen>> /\ Events' = Events
    BY <1>24 DEF Signal, ringVars, producerVars, consumerVars, Events
  <2>2. Notified(n)' /\ Remembered(n)' /\ NoLostWakeup'
    BY <1>0, <2>1 DEF Counted, Notified, Remembered, Watching, Seen, WakeInv, NoLostWakeup
  <2>3. QED BY <1>0, <1>a, <1>b, <2>1, <2>2 DEF WakeInv
<1>25. CASE Cancel
  <2>1. UNCHANGED <<writeSeq, readSeq, closed, notifySeq, ppc, cpc, seen>> /\ Events' = Events
    BY <1>25 DEF Cancel, ringVars, producerVars, consumerVars, Events
  <2>2. Notified(n)' /\ Remembered(n)' /\ NoLostWakeup'
    BY <1>0, <2>1 DEF Counted, Notified, Remembered, Watching, Seen, WakeInv, NoLostWakeup
  <2>3. QED BY <1>0, <1>a, <1>b, <2>1, <2>2 DEF WakeInv
<1>26. CASE Crash
  <2>1. UNCHANGED <<writeSeq, readSeq, closed, notifySeq, cpc, seen>> /\ ppc' = "dead" /\ Events' = Events
    BY <1>26 DEF Crash, ringVars, consumerVars, Events
  <2>2. Notified(n)' /\ Remembered(n)' /\ NoLostWakeup'
    BY <1>0, <2>1 DEF Counted, Notified, Remembered, Watching, Seen, NoLostWakeup
  <2>3. QED BY <1>0, <1>a, <1>b, <2>1, <2>2
<1>27. CASE Reap
  <2>1. UNCHANGED <<writeSeq, readSeq, closed, notifySeq, ppc, cpc, seen>> /\ Events' = Events
    BY <1>27 DEF Reap, ringVars, producerVars, consumerVars, Events
  <2>2. Notified(n)' /\ Remembered(n)' /\ NoLostWakeup'
    BY <1>0, <2>1 DEF Counted, Notified, Remembered, Watching, Seen, WakeInv, NoLostWakeup
  <2>3. QED BY <1>0, <1>a, <1>b, <2>1, <2>2 DEF WakeInv
<1>28. CASE UNCHANGED vars
  <2>1. UNCHANGED <<writeSeq, readSeq, closed, notifySeq, ppc, cpc, seen>> /\ Events' = Events
    BY <1>28 DEF vars, ringVars, producerVars, consumerVars, Events
  <2>2. Notified(n)' /\ Remembered(n)' /\ NoLostWakeup'
    BY <1>0, <2>1 DEF Counted, Notified, Remembered, Watching, Seen, WakeInv, NoLostWakeup
  <2>3. QED BY <1>0, <1>a, <1>b, <2>1, <2>2 DEF WakeInv
<1>29. QED
  BY <1>1, <1>2, <1>3, <1>4, <1>5, <1>6, <1>7, <1>8, <1>9, <1>10, <1>11,
     <1>12, <1>13, <1>14, <1>15, <1>16, <1>17, <1>18, <1>19, <1>20, <1>21,
     <1>22, <1>23, <1>24, <1>25, <1>26, <1>27, <1>28 DEF Next, ProducerStep,
     ConsumerStep

-------------------------------------------------------------------------------
(* The theorems. *)

IInv == TypeOK /\ RingInv /\ StreamInv /\ WakeInv

\* The inductive invariant holds at all times.
LEMMA Inductive == Spec => []IInv
<1>1. Init => IInv
  BY TypeInit, RingInit, StreamInit, WakeInit DEF IInv
<1>2. IInv /\ [Next]_vars => IInv'
  BY TypeStep, RingStep, StreamStep, WakeStep DEF IInv
<1>3. QED BY <1>1, <1>2, PTL DEF Spec

\* A published packet stays whole in its slot until it is consumed, for every
\* number of slots and packets.
THEOREM UnreadStaysWhole == Spec => []UnreadIntact
<1>1. IInv => UnreadIntact
  BY DEF IInv, RingInv
<1>2. QED
  BY <1>1, Inductive, PTL

\* The consumer never works with the length of another packet.
THEOREM ReadsAreWhole == Spec => []NoTornRead
<1>1. IInv => NoTornRead
  BY PayloadRead DEF IInv, NoTornRead, RingInv
<1>2. QED
  BY <1>1, Inductive, PTL

\* No wakeup of the futex protocol is lost, for every number of slots and every
\* futex modulus that exceeds it by more than two.
THEOREM WakeupsArrive == Spec => []NoLostWakeup
<1>1. IInv => NoLostWakeup
  BY DEF IInv, WakeInv
<1>2. QED
  BY <1>1, Inductive, PTL

\* The forwarder receives every NAL unit once, in stream order.
THEOREM StreamOrder == Spec => InStreamOrder
<1>1. IInv /\ [Next]_vars => [NalOrder]_vars
  <2> SUFFICES ASSUME IInv, [Next]_vars, emitted' # emitted PROVE NalOrder
    BY DEF NalOrder
  <2>1. CASE Emit
    <3>1. cpc = "emit" /\ emitted' = [packet |-> readSeq + 1, nal |-> nal]
      BY <2>1, PayloadRead DEF Emit, ConsumerGoes, IInv
    <3>2. nal \in 1 .. NalsPerPacket /\ readSeq \in Nat /\ NalsPerPacket \in Nat \ {0}
      BY NalsAssumption DEF IInv, TypeOK
    <3>3. CASE nal = 1
      BY <3>1, <3>2, <3>3 DEF IInv, StreamInv, NalOrder
    <3>4. CASE nal # 1
      <4>1. emitted = [packet |-> readSeq + 1, nal |-> nal - 1]
        BY <3>1, <3>4 DEF IInv, StreamInv
      <4>2. emitted.nal < NalsPerPacket /\ emitted' = [emitted EXCEPT !.nal = @ + 1]
        BY <3>1, <3>2, <3>4, <4>1
      <4>3. QED BY <4>2 DEF NalOrder
    <3>5. QED BY <3>3, <3>4
  <2>2. CASE ~Emit
    <3>1. emitted' = emitted
      BY <2>2 DEF Next, ProducerStep, ConsumerStep, vars, consumerVars,
         Encode, LeaveLoop, FindRoom, GiveUpRoom, WriteLength, WritePayload,
         Publish, Notify, Wake, Close, Proceed, Quit, LoadWriteSeq, ReadLength,
         QuitEmit, Advance, LoadClosed, LoadNotify, RecheckWriteSeq,
         RecheckClosed, FutexWait, WaitEnds, Signal, Cancel, Crash, Reap
    <3>2. QED BY <3>1
  <2>3. QED BY <2>1, <2>2
<1>2. QED BY <1>1, Inductive, PTL DEF Spec, InStreamOrder

-------------------------------------------------------------------------------
(* Refinement: the ring is a bounded FIFO. *)

\* The packets from one number to another, in order.
Packets(first, last) == [i \in 1 .. last - first |-> first + i]

\* What the slots hold between the two sequence numbers is the packets between
\* them, in order.
LEMMA InFlightIs ==
  ASSUME NEW r \in Nat, NEW w \in Nat, NEW ring,
         \A seq \in r .. w - 1 : ring[SlotOf(seq)] = [length |-> seq + 1, payload |-> seq + 1]
  PROVE  [i \in 1 .. w - r |-> ring[SlotOf(r + i - 1)].payload] = Packets(r, w)
<1>1. ASSUME NEW i \in 1 .. w - r PROVE ring[SlotOf(r + i - 1)].payload = r + i
  <2>1. r + i - 1 \in r .. w - 1 /\ r + i - 1 + 1 = r + i
    OBVIOUS
  <2>2. ring[SlotOf(r + i - 1)] = [length |-> r + i, payload |-> r + i]
    BY <2>1
  <2>3. QED BY <2>2
<1>2. QED BY <1>1 DEF Packets

\* Publishing a packet appends it to the channel's queue.
LEMMA PacketsAppend ==
  ASSUME NEW r \in Nat, NEW w \in Nat, r <= w
  PROVE  /\ Len(Packets(r, w)) = w - r
         /\ Packets(r, w + 1) = Append(Packets(r, w), w + 1)
<1>1. Packets(r, w) \in Seq(Nat) /\ Len(Packets(r, w)) = w - r
  BY DEF Packets
<1>2. Packets(r, w + 1) = Append(Packets(r, w), w + 1)
  BY <1>1 DEF Packets
<1>3. QED BY <1>1, <1>2

\* Moving past a packet takes the head off the channel's queue.
LEMMA PacketsTail ==
  ASSUME NEW r \in Nat, NEW w \in Nat, r < w
  PROVE  /\ Packets(r, w) # <<>>
         /\ Head(Packets(r, w)) = r + 1
         /\ Tail(Packets(r, w)) = Packets(r + 1, w)
<1>1. Packets(r, w) \in Seq(Nat) /\ Len(Packets(r, w)) = w - r
  BY DEF Packets
<1>2. Head(Packets(r, w)) = r + 1
  BY <1>1 DEF Packets
<1>3. Tail(Packets(r, w)) = Packets(r + 1, w)
  <2>1. Packets(r + 1, w) \in Seq(Nat) /\ Len(Packets(r + 1, w)) = w - r - 1
    BY DEF Packets
  <2>2. /\ Tail(Packets(r, w)) \in Seq(Nat)
        /\ Len(Tail(Packets(r, w))) = w - r - 1
        /\ \A i \in 1 .. w - r - 1 : Tail(Packets(r, w))[i] = Packets(r, w)[i + 1]
    <3>1. Packets(r, w) # <<>>
      BY <1>1
    <3>2. QED BY <1>1, <3>1, HeadTailProperties
  <2>3. \A i \in 1 .. w - r - 1 : Packets(r, w)[i + 1] = Packets(r + 1, w)[i]
    BY DEF Packets
  <2>4. QED BY <2>1, <2>2, <2>3, SeqEqual
<1>4. QED BY <1>1, <1>2, <1>3

\* Publishing a packet, moving past one and closing the ring are the Send, the
\* Receive and the End of the channel; every other step leaves it alone.
THEOREM Refinement == Spec => ImplementsChannel
<1>1. Init => Channel!Init
  <2> SUFFICES ASSUME Init PROVE Channel!Init
    OBVIOUS
  <2>1. InFlight = <<>>
    BY DEF Init, InFlight
  <2>2. QED BY <2>1 DEF Init, Channel!Init
<1>2. IInv /\ IInv' /\ [Next]_vars => [Channel!Next]_(Channel!channelVars)
  <2> SUFFICES ASSUME IInv, IInv', [Next]_vars
               PROVE  Channel!Next \/ UNCHANGED Channel!channelVars
    OBVIOUS
  <2>1. InFlight = Packets(readSeq, writeSeq) /\ InFlight' = Packets(readSeq', writeSeq')
    <3>1. InFlight = Packets(readSeq, writeSeq)
      <4>1. readSeq \in Nat /\ writeSeq \in Nat /\ UnreadIntact
        BY DEF IInv, RingInv, TypeOK
      <4>2. QED BY <4>1, InFlightIs DEF InFlight, UnreadIntact
    <3>2. InFlight' = Packets(readSeq', writeSeq')
      <4>1. readSeq' \in Nat /\ writeSeq' \in Nat /\ UnreadIntact'
        BY DEF IInv, RingInv, TypeOK
      <4>2. \A seq \in readSeq' .. writeSeq' - 1 :
              slots'[SlotOf(seq)] = [length |-> seq + 1, payload |-> seq + 1]
        BY <4>1 DEF UnreadIntact, SlotOf
      <4>3. InFlight' = [i \in 1 .. writeSeq' - readSeq' |-> slots'[SlotOf(readSeq' + i - 1)].payload]
        BY DEF InFlight, SlotOf
      <4>4. QED BY <4>1, <4>2, <4>3, InFlightIs
    <3>3. QED BY <3>1, <3>2
  <2>2. readSeq \in Nat /\ writeSeq \in Nat /\ readSeq <= writeSeq /\ closed \in {0, 1}
    BY DEF IInv, RingInv, UnreadIntact, TypeOK
  <2>3. CASE Publish
    <3>1. closed = 0 /\ writeSeq' = writeSeq + 1 /\ readSeq' = readSeq /\ closed' = closed
          /\ writeSeq - readSeq < Slots
      BY <2>2, <2>3 DEF Publish, ProducerGoes, IInv, RingInv, WakeInv, HasRoom
    <3>2. Channel!Send
      BY <2>1, <2>2, <3>1, PacketsAppend DEF Channel!Send
    <3>3. QED BY <3>2 DEF Channel!Next
  <2>4. CASE Advance
    <3>1. readSeq < writeSeq /\ writeSeq' = writeSeq /\ readSeq' = readSeq + 1 /\ closed' = closed
      BY <2>4 DEF Advance, ConsumerGoes, IInv, RingInv
    <3>2. Channel!Receive
      BY <2>1, <2>2, <3>1, PacketsTail DEF Channel!Receive
    <3>3. QED BY <3>2 DEF Channel!Next
  <2>5. CASE Close
    <3>1. closed = 0 /\ closed' = 1 /\ writeSeq' = writeSeq /\ readSeq' = readSeq
      BY <2>2, <2>5 DEF Close, ProducerGoes, IInv, WakeInv
    <3>2. Channel!End
      BY <2>1, <3>1 DEF Channel!End
    <3>3. QED BY <3>2 DEF Channel!Next
  <2>6. CASE ~(Publish \/ Advance \/ Close)
    <3>1. UNCHANGED <<writeSeq, readSeq, closed>>
      BY <2>6 DEF Next, ProducerStep, ConsumerStep, vars, ringVars,
         Encode, LeaveLoop, FindRoom, GiveUpRoom, WriteLength, WritePayload,
         Notify, Wake, Proceed, Quit, LoadWriteSeq, ReadLength, Emit,
         QuitEmit, LoadClosed, LoadNotify, RecheckWriteSeq,
         RecheckClosed, FutexWait, WaitEnds, Signal, Cancel, Crash, Reap
    <3>2. QED BY <2>1, <3>1 DEF Channel!channelVars
  <2>7. QED BY <2>3, <2>4, <2>5, <2>6
<1>3. QED BY <1>1, <1>2, Inductive, PTL DEF Spec, ImplementsChannel, Channel!Spec

-------------------------------------------------------------------------------
(* RingGenerations: the rings of one session, one after the other. *)

\* An encoder has its generation's number, a file once it has created one, and its
\* magic when it is live; and no path leads back to a ring before the one consumed
\* last.
GenerationsInv ==
  /\ RGTypeOK
  /\ enc # "none" => gen >= 1
  /\ enc \in {"fill", "live"} => ino[gen] # 0
  /\ enc = "live" => gen \in filled
  /\ path # 0 => path >= cgen

\* The start of an encoder: the old file goes, and a new one takes its place.
LEMMA RingsStartStep ==
  ASSUME GenerationsInv, EncoderStart
  PROVE  GenerationsInv'
<1> USE GenerationsAssumption, InodesAssumption DEF GenerationsInv, RGTypeOK
<1>1. CASE Unlink
  BY <1>1 DEF Unlink, readerVars
<1>2. CASE Create
  <2>1. PICK i \in Inodes : ino' = [ino EXCEPT ![gen] = i]
    BY <1>2 DEF Create, FreeInodes
  <2>2. gen \in 1 .. MaxGen /\ i # 0
    BY <1>2 DEF Create
  <2>3. /\ ino' \in [1 .. MaxGen -> Inodes \union {0}] /\ ino'[gen] = i
        /\ \A g \in 1 .. MaxGen : ino[g] # 0 => ino'[g] # 0
    BY <2>1, <2>2
  <2> QED BY <1>2, <2>2, <2>3 DEF Create, readerVars
<1>3. CASE Fill
  BY <1>3 DEF Fill, readerVars
<1> QED BY <1>1, <1>2, <1>3 DEF EncoderStart

\* The end of an encoder, which may close its ring.
LEMMA RingsEndStep ==
  ASSUME GenerationsInv, EncoderEnd
  PROVE  GenerationsInv'
BY DEF GenerationsInv, RGTypeOK, EncoderEnd, Stops, Dies, readerVars

\* The wrapper, and the end of the session.
LEMMA RingsWrapperStep ==
  ASSUME GenerationsInv, Start \/ WrapperStep \/ CancelSession
  PROVE  GenerationsInv'
<1> USE GenerationsAssumption, InodesAssumption DEF GenerationsInv, RGTypeOK, encoderVars, readerVars
<1>1. CASE Start
  BY <1>1 DEF Start
<1>2. CASE Reaps \/ Retries \/ ExitsOnTerm
  BY <1>2 DEF Reaps, Retries, ExitsOnTerm
<1>3. CASE CommandReaped \/ CancelSession
  BY <1>3 DEF CommandReaped, CancelSession
<1> QED BY <1>1, <1>2, <1>3 DEF WrapperStep

\* The consumer, which takes the ring at the path unless it is the one it has left.
LEMMA RingsConsumerStep ==
  ASSUME GenerationsInv, ReaderStep
  PROVE  GenerationsInv'
<1> USE DEF GenerationsInv, RGTypeOK, encoderVars, readerVars
<1>1. CASE Attach
  BY <1>1 DEF Attach
<1>2. ASSUME QuitSession PROVE GenerationsInv'
  BY <1>2 DEF QuitSession
<1>3. ASSUME Leave PROVE GenerationsInv'
  <2>1. CASE doneChannels = {}
    <3>1. /\ consumer' = "open" /\ wrapper' = wrapper /\ term' = term /\ enc' = enc
          /\ status' = status /\ gen' = gen /\ ino' = ino /\ filled' = filled
          /\ closedRings' = closedRings /\ path' = path /\ cgen' = cgen
          /\ doneChannels' = doneChannels
      BY <1>3, <2>1, Zenon DEF Leave
    <3> QED BY <3>1
  <2>2. CASE doneChannels # {}
    BY <1>2, <1>3, <2>2 DEF Leave
  <2> QED BY <2>1, <2>2
<1>4. CASE LeaveClosed \/ LeaveReplaced \/ QuitFired
  BY <1>2, <1>3, <1>4 DEF LeaveClosed, LeaveReplaced, QuitFired
<1> QED BY <1>1, <1>4 DEF ReaderStep

\* The invariant holds in every behaviour.
LEMMA GenerationsInductive == RGSpec => []GenerationsInv
<1>1. RGInit => GenerationsInv
  <2> SUFFICES ASSUME RGInit PROVE GenerationsInv
    OBVIOUS
  <2> USE GenerationsAssumption, InodesAssumption DEF RGInit
  <2>1. term \in BOOLEAN /\ doneChannels \subseteq {"ctx", "cmdDone"}
    OBVIOUS
  <2>2. ino \in [1 .. MaxGen -> Inodes \union {0}]
    OBVIOUS
  <2>3. filled \subseteq {g \in 1 .. gen : ino[g] # 0} /\ closedRings \subseteq filled
    OBVIOUS
  <2> QED BY <2>1, <2>2, <2>3 DEF GenerationsInv, RGTypeOK
<1>2. GenerationsInv /\ [RGNext]_rgVars => GenerationsInv'
  <2> SUFFICES ASSUME GenerationsInv, [RGNext]_rgVars
               PROVE  GenerationsInv'
    OBVIOUS
  <2>1. CASE RGNext
    BY <2>1, RingsStartStep, RingsEndStep, RingsWrapperStep, RingsConsumerStep DEF RGNext
  <2>2. CASE UNCHANGED rgVars
    BY <2>2 DEF GenerationsInv, RGTypeOK, rgVars, encoderVars, readerVars
  <2> QED BY <2>1, <2>2
<1> QED BY <1>1, <1>2, PTL DEF RGSpec

\* A ring has its magic only when it has a file, and is closed or consumed only when
\* it has its magic, wherever in its start an encoder is killed.
THEOREM GenerationsTyped == RGSpec => []RGTypeOK
<1>1. GenerationsInv => RGTypeOK
  BY DEF GenerationsInv
<1> QED BY <1>1, GenerationsInductive, PTL

\* The forwarder never gets a ring twice, nor one of an earlier generation after one
\* of a later one, however starts, failures and the end of the session interleave,
\* and even when the file system gives a new ring the inode number of an old one.
THEOREM GenerationsInOrder == RGSpec => NoReplay
<1>1. GenerationsInv /\ [RGNext]_rgVars
        => [consumer = "open" /\ consumer' = "attached" => cgen' > cgen]_rgVars
  <2> SUFFICES ASSUME GenerationsInv, RGNext, consumer = "open", consumer' = "attached"
               PROVE  cgen' > cgen
    OBVIOUS
  <2>1. Attach
    BY DEF RGNext, EncoderStart, Unlink, Create, Fill,
         EncoderEnd, Stops, Dies, Start, WrapperStep, Reaps,
         Retries, ExitsOnTerm, CommandReaped, CancelSession,
         ReaderStep, LeaveClosed, LeaveReplaced, QuitFired,
         Leave, QuitSession, readerVars
  <2>2. path \in filled /\ cgen' = path /\ ino[path] # Previous
    BY <2>1 DEF Attach
  <2>3. path # cgen
    BY <2>2 DEF Previous, GenerationsInv, RGTypeOK
  <2> QED BY <2>2, <2>3 DEF GenerationsInv, RGTypeOK
<1> QED BY <1>1, GenerationsInductive, PTL DEF RGSpec, NoReplay

\* No two rings have had the same inode number, if the file system gives none out
\* again.
InodesDiffer ==
  \A g, h \in 1 .. MaxGen : ino[g] # 0 /\ ino[g] = ino[h] => g = h

\* Only the creation of a ring gives it a number.
LEMMA InodesStep ==
  ASSUME ~Recycled, GenerationsInv, InodesDiffer, [RGNext]_rgVars
  PROVE  InodesDiffer'
<1>1. CASE Create
  <2>1. PICK i \in Inodes \ {ino[g] : g \in 1 .. MaxGen} : ino' = [ino EXCEPT ![gen] = i]
    BY <1>1 DEF Create, FreeInodes
  <2>2. /\ ino \in [1 .. MaxGen -> Inodes \union {0}]
        /\ \A g \in 1 .. MaxGen : i # ino[g]
    BY <2>1 DEF GenerationsInv, RGTypeOK
  <2>3. \A g \in 1 .. MaxGen : ino'[g] = IF g = gen THEN i ELSE ino[g]
    BY <2>1, <2>2
  <2> QED BY <2>2, <2>3 DEF InodesDiffer
<1>2. CASE ~Create
  <2>1. ino' = ino
    BY <1>2 DEF RGNext, EncoderStart, Unlink, Fill,
         EncoderEnd, Stops, Dies, Start, WrapperStep, Reaps,
         Retries, ExitsOnTerm, CommandReaped, CancelSession,
         ReaderStep, Attach, LeaveClosed, LeaveReplaced,
         QuitFired, Leave, QuitSession, encoderVars, rgVars
  <2> QED BY <2>1 DEF InodesDiffer
<1> QED BY <1>1, <1>2

\* What NewGenerationIsNoticed rests on: as long as inode numbers are not given out
\* again, the ring of a new generation passes the consumer's comparison with the one
\* it has left, or ends its wait at that one.
NewRingIsTold ==
  path \in filled /\ path # cgen => ino[path] # Previous

\* A consumer can tell every ring from the one it has consumed last by its inode
\* number, for every number of generations, if none is given out again.
THEOREM NewRingsAreTold ==
  ~Recycled /\ RGSpec => []NewRingIsTold
<1>1. RGInit => InodesDiffer
  BY DEF RGInit, InodesDiffer
<1>2. ~Recycled /\ GenerationsInv /\ InodesDiffer /\ [RGNext]_rgVars
        => InodesDiffer'
  <2> SUFFICES ASSUME ~Recycled, GenerationsInv, InodesDiffer,
                      [RGNext]_rgVars
               PROVE  InodesDiffer'
    OBVIOUS
  <2> QED BY InodesStep
<1>3. GenerationsInv /\ InodesDiffer => NewRingIsTold
  <2> SUFFICES ASSUME GenerationsInv, InodesDiffer, path \in filled, path # cgen
               PROVE  ino[path] # Previous
    BY DEF NewRingIsTold
  <2>1. \A g \in filled : g \in 1 .. MaxGen /\ ino[g] # 0
    BY GenerationsAssumption DEF GenerationsInv, RGTypeOK
  <2>2. cgen = 0 \/ cgen \in filled
    BY DEF GenerationsInv, RGTypeOK
  <2> QED BY <2>1, <2>2 DEF InodesDiffer, Previous
<1>4. ~Recycled => [](~Recycled)
  <2>1. ~Recycled => (~Recycled)'
    OBVIOUS
  <2> QED BY <2>1, PTL
<1> QED BY <1>1, <1>2, <1>3, <1>4, GenerationsInductive, PTL DEF RGSpec
================================================================================
