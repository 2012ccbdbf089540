---------------------------- MODULE PacketChannel ----------------------------
(***************************************************************************)
(* What the shared-memory H.264 transport promises: a bounded FIFO of      *)
(* encoded packets between one encoder process and one consumer, which the *)
(* encoder may end.  Packets are told apart by their number in the stream, *)
(* the first one being 1.                                                  *)
(***************************************************************************)
EXTENDS Naturals, Sequences

CONSTANT Capacity   \* packets the channel can hold

VARIABLES
  queue,            \* packets sent and not yet received, oldest first
  sent,             \* number of packets sent so far
  received,         \* the last packet received, 0 before the first
  open              \* FALSE once the encoder has ended the stream

channelVars == <<queue, sent, received, open>>

Init ==
  /\ queue = <<>>
  /\ sent = 0
  /\ received = 0
  /\ open = TRUE

Send ==
  /\ open
  /\ Len(queue) < Capacity
  /\ queue' = Append(queue, sent + 1)
  /\ sent' = sent + 1
  /\ UNCHANGED <<received, open>>

Receive ==
  /\ queue # <<>>
  /\ received' = Head(queue)
  /\ queue' = Tail(queue)
  /\ UNCHANGED <<sent, open>>

End ==
  /\ open
  /\ open' = FALSE
  /\ UNCHANGED <<queue, sent, received>>

Next == Send \/ Receive \/ End

\* Packets arrive in the order they were sent, each exactly once, never more
\* than Capacity of them in flight and none sent after the end.
Spec == Init /\ [][Next]_channelVars
=============================================================================
