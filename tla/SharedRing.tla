------------------------------ MODULE SharedRing ------------------------------
(***************************************************************************)
(* The single-producer single-consumer ring in shared memory that carries  *)
(* H.264 packets from the C encoder (native/desktop-streamer/              *)
(* drm_rga_mpp_stream.c, stream_writer functions) to the Go publisher     *)
(* (native/webrtc-publisher/main.go, consumeSharedRing), for one           *)
(* generation of the encoder.  The two processes share no lock: they meet  *)
(* in the words writeSeq, readSeq, closed and in the futex word notifySeq. *)
(* One action is one access to a shared word, so that every interleaving   *)
(* of the two processes is a behaviour.                                    *)
(*                                                                         *)
(* A packet is its number in the stream.  A slot keeps apart the length    *)
(* word and the payload, which the producer writes one after the other,    *)
(* and the consumer copies the payload one NAL unit at a time.             *)
(***************************************************************************)
EXTENDS Integers

CONSTANTS
  Slots,           \* REMYDESK_RING_SLOTS
  NotifyModulus,   \* notify_seq wraps at this value: 2^32 in the code
  NalsPerPacket,   \* NAL units in one packet
  MaxPackets       \* bound on the packets the encoder emits

ASSUME SlotsAssumption == Slots \in Nat \ {0}
ASSUME NalsAssumption == NalsPerPacket \in Nat \ {0}
ASSUME BoundAssumption == MaxPackets \in Nat
\* From the value the consumer reads to the one the kernel compares it with
\* there can be the notifications of a full ring, of the packet before it and
\* of the close: the futex word must not come back to the same value.
ASSUME NotifyAssumption == NotifyModulus \in Nat /\ NotifyModulus > Slots + 2

VARIABLES
  slots,       \* the slots: length word and payload, each the packet it is of
  writeSeq,    \* packets published
  readSeq,     \* packets consumed
  closed,      \* the header's closed flag, 0 or 1
  notifySeq,   \* the futex word
  ppc,         \* the producer's next step
  stop,        \* stop_requested, 0 or 1, set by the producer's signal handler
  cpc,         \* the consumer's next step
  seen,        \* notify: the futex word the consumer read
  length,      \* length: the length word the consumer read
  nal,         \* the NAL unit of the current packet to deliver next
  emitted,     \* the last NAL unit sent to the forwarder's channel
  fired        \* the done channels that are closed: "ctx" of the session,
               \* "cmdDone" of the reaped encoder command

ringVars == <<slots, writeSeq, readSeq, closed, notifySeq>>
producerVars == <<ppc, stop>>
consumerVars == <<cpc, seen, length, nal, emitted>>
vars == <<ringVars, producerVars, consumerVars, fired>>

ProducerSteps == {"encode", "room", "length", "payload", "publish", "notify",
                  "wake", "close", "gone", "dead"}
ConsumerSteps == {"top", "load", "slot", "emit", "advance", "closed?",
                  "notify?", "again?", "open?", "futex", "asleep", "done"}

SlotOf(seq) == seq % Slots
EmptySlot == [length |-> 0, payload |-> 0]

\* stream_writer_init: the file is created, zeroed and filled in before the
\* magic makes it visible to the consumer, which maps it afterwards.
Init ==
  /\ slots = [s \in 0 .. Slots - 1 |-> EmptySlot]
  /\ writeSeq = 0
  /\ readSeq = 0
  /\ closed = 0
  /\ notifySeq = 0
  /\ ppc = "encode"
  /\ stop = 0
  /\ cpc = "top"
  /\ seen = 0
  /\ length = 0
  /\ nal = 1
  /\ emitted = [packet |-> 0, nal |-> NalsPerPacket]
  /\ fired = {}

-------------------------------------------------------------------------------
(* The producer: the capture loop and stream_writer_write, _notify, _close. *)

ProducerGoes(from, to) == ppc = from /\ ppc' = to

\* The capture loop encodes a frame; every packet of it is handed to
\* stream_writer_write.
Encode ==
  /\ writeSeq < MaxPackets
  /\ stop = 0
  /\ ProducerGoes("encode", "room")
  /\ UNCHANGED <<ringVars, stop, consumerVars, fired>>

\* The capture loop ends: a signal, a mode change, a capture or encoder error,
\* or a packet larger than a slot.
LeaveLoop ==
  /\ ProducerGoes("encode", "close")
  /\ UNCHANGED <<ringVars, stop, consumerVars, fired>>

\* Mutant: one packet too many in the ring.
HasRoomOffByOne == writeSeq - readSeq <= Slots

\* The wait for a free slot: left when there is one, or when asked to stop.
HasRoom == writeSeq - readSeq < Slots

\* Mutant: the sequence number is published before the slot is filled.
FindRoomPublishFirst ==
  /\ stop = 0
  /\ HasRoom
  /\ ProducerGoes("room", "publish")
  /\ UNCHANGED <<ringVars, stop, consumerVars, fired>>

FindRoom ==
  /\ stop = 0
  /\ HasRoom
  /\ ProducerGoes("room", "length")
  /\ UNCHANGED <<ringVars, stop, consumerVars, fired>>

\* Mutant: the wait looks at stop_requested only when there is room.
GiveUpRoomLate ==
  /\ stop = 1
  /\ HasRoom
  /\ ProducerGoes("room", "close")
  /\ UNCHANGED <<ringVars, stop, consumerVars, fired>>

GiveUpRoom ==
  /\ stop = 1
  /\ ProducerGoes("room", "close")
  /\ UNCHANGED <<ringVars, stop, consumerVars, fired>>

WriteLength ==
  /\ ProducerGoes("length", "payload")
  /\ slots' = [slots EXCEPT ![SlotOf(writeSeq)].length = writeSeq + 1]
  /\ UNCHANGED <<writeSeq, readSeq, closed, notifySeq, stop, consumerVars, fired>>

WritePayload ==
  /\ ProducerGoes("payload", "publish")
  /\ slots' = [slots EXCEPT ![SlotOf(writeSeq)].payload = writeSeq + 1]
  /\ UNCHANGED <<writeSeq, readSeq, closed, notifySeq, stop, consumerVars, fired>>

Publish ==
  /\ ProducerGoes("publish", "notify")
  /\ writeSeq' = writeSeq + 1
  /\ UNCHANGED <<slots, readSeq, closed, notifySeq, stop, consumerVars, fired>>

Notify ==
  /\ ProducerGoes("notify", "wake")
  /\ notifySeq' = (notifySeq + 1) % NotifyModulus
  /\ UNCHANGED <<slots, writeSeq, readSeq, closed, stop, consumerVars, fired>>

\* Mutant: no FUTEX_WAKE follows the increment.
WakeNobody ==
  /\ ProducerGoes("wake", IF closed = 1 THEN "gone" ELSE "encode")
  /\ UNCHANGED <<ringVars, stop, consumerVars, fired>>

\* FUTEX_WAKE of the one waiter, if it is waiting.
Wake ==
  /\ ProducerGoes("wake", IF closed = 1 THEN "gone" ELSE "encode")
  /\ cpc' = IF cpc = "asleep" THEN "top" ELSE cpc
  /\ UNCHANGED <<ringVars, stop, seen, length, nal, emitted, fired>>

Close ==
  /\ ProducerGoes("close", "notify")
  /\ closed' = 1
  /\ UNCHANGED <<slots, writeSeq, readSeq, notifySeq, stop, consumerVars, fired>>

ProducerStep ==
  \/ Encode \/ LeaveLoop \/ FindRoom \/ GiveUpRoom \/ WriteLength
  \/ WritePayload \/ Publish \/ Notify \/ Wake \/ Close

-------------------------------------------------------------------------------
(* The consumer: the loop of consumeSharedRing. *)

ConsumerGoes(from, to) == cpc = from /\ cpc' = to

\* The select at the top of the loop.
Proceed ==
  /\ fired = {}
  /\ ConsumerGoes("top", "load")
  /\ UNCHANGED <<ringVars, producerVars, seen, length, nal, emitted, fired>>

Quit ==
  /\ fired # {}
  /\ ConsumerGoes("top", "done")
  /\ UNCHANGED <<ringVars, producerVars, seen, length, nal, emitted, fired>>

\* Mutant: an empty ring is taken for one with a packet.
LoadWriteSeqInclusive ==
  /\ ConsumerGoes("load", IF readSeq <= writeSeq THEN "slot" ELSE "closed?")
  /\ UNCHANGED <<ringVars, producerVars, seen, length, nal, emitted, fired>>

LoadWriteSeq ==
  /\ ConsumerGoes("load", IF readSeq < writeSeq THEN "slot" ELSE "closed?")
  /\ UNCHANGED <<ringVars, producerVars, seen, length, nal, emitted, fired>>

\* The length word decides how much of the slot is read; a length that is not
\* the one of the packet to read would cut or overrun it.
ReadLength ==
  /\ ConsumerGoes("slot", "emit")
  /\ length' = slots[SlotOf(readSeq)].length
  /\ UNCHANGED <<ringVars, producerVars, seen, nal, emitted, fired>>

\* popAnnexBNAL copies the next NAL unit out of the slot and sends it to the
\* forwarder.
Emit ==
  /\ ConsumerGoes("emit", IF nal = NalsPerPacket THEN "advance" ELSE "emit")
  /\ emitted' = [packet |-> slots[SlotOf(readSeq)].payload, nal |-> nal]
  /\ nal' = IF nal = NalsPerPacket THEN 1 ELSE nal + 1
  /\ UNCHANGED <<ringVars, producerVars, seen, length, fired>>

\* The session ends while the forwarder's channel is full.
QuitEmit ==
  /\ "ctx" \in fired
  /\ ConsumerGoes("emit", "done")
  /\ UNCHANGED <<ringVars, producerVars, seen, length, nal, emitted, fired>>

Advance ==
  /\ ConsumerGoes("advance", "top")
  /\ readSeq' = readSeq + 1
  /\ UNCHANGED <<slots, writeSeq, closed, notifySeq, producerVars, seen, length, nal, emitted, fired>>

LoadClosed ==
  /\ ConsumerGoes("closed?", IF closed = 1 THEN "done" ELSE "notify?")
  /\ UNCHANGED <<ringVars, producerVars, seen, length, nal, emitted, fired>>

LoadNotify ==
  /\ ConsumerGoes("notify?", "again?")
  /\ seen' = notifySeq
  /\ UNCHANGED <<ringVars, producerVars, length, nal, emitted, fired>>

\* Mutant: the ring is not looked at again before the wait.
RecheckNothing ==
  /\ ConsumerGoes("again?", "open?")
  /\ UNCHANGED <<ringVars, producerVars, seen, length, nal, emitted, fired>>

\* "Close the race between observing an empty ring and entering FUTEX_WAIT."
RecheckWriteSeq ==
  /\ ConsumerGoes("again?", IF writeSeq # readSeq THEN "top" ELSE "open?")
  /\ UNCHANGED <<ringVars, producerVars, seen, length, nal, emitted, fired>>

\* Mutant: the closed flag is not looked at again before the wait.
RecheckNotClosed ==
  /\ ConsumerGoes("open?", "futex")
  /\ UNCHANGED <<ringVars, producerVars, seen, length, nal, emitted, fired>>

RecheckClosed ==
  /\ ConsumerGoes("open?", IF closed = 1 THEN "top" ELSE "futex")
  /\ UNCHANGED <<ringVars, producerVars, seen, length, nal, emitted, fired>>

\* FUTEX_WAIT: the kernel compares and sleeps in one step.
FutexWait ==
  /\ ConsumerGoes("futex", IF notifySeq = seen THEN "asleep" ELSE "top")
  /\ UNCHANGED <<ringVars, producerVars, seen, length, nal, emitted, fired>>

\* The 100 ms timeout, or a signal; the path still names this ring.
WaitEnds ==
  /\ ConsumerGoes("asleep", "top")
  /\ UNCHANGED <<ringVars, producerVars, seen, length, nal, emitted, fired>>

ConsumerStep ==
  \/ Proceed \/ Quit \/ LoadWriteSeq \/ ReadLength \/ Emit \/ QuitEmit
  \/ Advance \/ LoadClosed \/ LoadNotify \/ RecheckWriteSeq \/ RecheckClosed
  \/ FutexWait

-------------------------------------------------------------------------------
(* The environment. *)

\* SIGINT or SIGTERM of the encoder.
Signal ==
  /\ stop = 0
  /\ stop' = 1
  /\ UNCHANGED <<ringVars, ppc, consumerVars, fired>>

\* The session is closed: its context is cancelled, and the command's Cancel
\* sends SIGTERM to the process group.
Cancel ==
  /\ "ctx" \notin fired
  /\ fired' = fired \union {"ctx"}
  /\ stop' = 1
  /\ UNCHANGED <<ringVars, ppc, consumerVars>>

\* The encoder dies without closing the ring (SIGKILL after WaitDelay, or the
\* early error returns of main).
Crash ==
  /\ ppc \notin {"gone", "dead"}
  /\ ppc' = "dead"
  /\ UNCHANGED <<ringVars, stop, consumerVars, fired>>

\* cmd.Wait returns.
Reap ==
  /\ ppc \in {"gone", "dead"}
  /\ "cmdDone" \notin fired
  /\ fired' = fired \union {"cmdDone"}
  /\ UNCHANGED <<ringVars, producerVars, consumerVars>>

Next == ProducerStep \/ ConsumerStep \/ WaitEnds \/ Signal \/ Cancel \/ Crash \/ Reap

Spec == Init /\ [][Next]_vars

\* Both processes are scheduled by the kernel, and the forwarder keeps taking
\* from the channel.  Nothing obliges the encoder to encode, to fail or to be
\* stopped, and the 100 ms timeout of the wait is not relied upon.
ProducerProgress ==
  \/ FindRoom \/ GiveUpRoom \/ WriteLength \/ WritePayload \/ Publish
  \/ Notify \/ Wake \/ Close \/ (stop = 1 /\ LeaveLoop)

FairSpec == Spec /\ WF_vars(ProducerProgress) /\ WF_vars(ConsumerStep)

-------------------------------------------------------------------------------
(* Properties. *)

TypeOK ==
  /\ slots \in [0 .. Slots - 1 -> [length : Nat, payload : Nat]]
  /\ writeSeq \in Nat
  /\ readSeq \in Nat
  /\ closed \in {0, 1}
  /\ notifySeq \in 0 .. NotifyModulus - 1
  /\ ppc \in ProducerSteps
  /\ stop \in {0, 1}
  /\ cpc \in ConsumerSteps
  /\ seen \in 0 .. NotifyModulus - 1
  /\ length \in Nat
  /\ nal \in 1 .. NalsPerPacket
  /\ emitted \in [packet : Nat, nal : 1 .. NalsPerPacket]
  /\ fired \subseteq {"ctx", "cmdDone"}

\* The producer never overruns the consumer: a published packet stays whole in
\* its slot, length and payload, until the consumer moves past it.
UnreadIntact ==
  /\ readSeq <= writeSeq
  /\ writeSeq - readSeq <= Slots
  /\ \A seq \in readSeq .. writeSeq - 1 :
       slots[SlotOf(seq)] = [length |-> seq + 1, payload |-> seq + 1]

\* While the consumer copies NAL units out of a slot, the length it works with
\* is the length of the packet that is in the slot.
NoTornRead ==
  cpc = "emit" => length = slots[SlotOf(readSeq)].payload

\* The futex protocol loses no wakeup: whenever the consumer sleeps and has
\* something to do, the producer still has the notification or the wake of it
\* ahead, unless it was killed there.
NoLostWakeup ==
  cpc = "asleep" /\ (closed = 1 \/ readSeq < writeSeq)
    => ppc \in {"notify", "wake", "dead"}

\* The forwarder gets every NAL unit in stream order, none twice and none
\* skipped, across slot reuse and whatever the two processes interleave.
NalOrder ==
  emitted' # emitted =>
    emitted' = IF emitted.nal < NalsPerPacket
               THEN [emitted EXCEPT !.nal = @ + 1]
               ELSE [packet |-> emitted.packet + 1, nal |-> 1]

InStreamOrder == [][NalOrder]_vars

\* A published packet is consumed without the help of the timeout, unless the
\* consumer has left or the producer was killed.
PublishedIsConsumed ==
  \A k \in 1 .. MaxPackets :
    writeSeq >= k ~> (readSeq >= k \/ cpc = "done" \/ ppc = "dead")

\* An encoder asked to stop ends even when nobody empties its ring.
StopIsHonoured == stop = 1 ~> ppc \in {"gone", "dead"}

\* A closed ring ends its consumer.
CloseIsSeen == closed = 1 ~> (cpc = "done" \/ ppc = "dead")

\* The packets in the ring, oldest first, read off the slots.
InFlight ==
  [i \in 1 .. writeSeq - readSeq |-> slots[SlotOf(readSeq + i - 1)].payload]

\* The ring implements the bounded FIFO of PacketChannel.
Channel == INSTANCE PacketChannel WITH
  Capacity <- Slots,
  queue <- InFlight,
  sent <- writeSeq,
  received <- readSeq,
  open <- closed = 0

ImplementsChannel == Channel!Spec
===============================================================================
