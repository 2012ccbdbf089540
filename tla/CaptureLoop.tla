------------------------------ MODULE CaptureLoop ------------------------------
(***************************************************************************)
(* The capture loop of the encoder (native/desktop-streamer/               *)
(* drm_rga_mpp_stream.c, main and encode_one_frame): the bitrate the       *)
(* publisher requests, the frame submitted to the hardware encoder (MPP),  *)
(* the packets drained from it into the ring, and the dynamic frame rate,  *)
(* all of it interrupted by the signals the publisher sends.  The ring     *)
(* appears as its number of free slots; SharedRing has its details.        *)
(*                                                                         *)
(* The publisher's half of the bitrate exchange is consumeSharedRing       *)
(* (native/webrtc-publisher/main.go).                                      *)
(***************************************************************************)
EXTENDS Integers

CONSTANTS
  Slots,       \* slots of the ring
  MaxParts,    \* bound on the packets MPP splits a frame into
  IdleAfter,   \* idle_after_ms, in frame intervals
  Bitrates     \* bitrates in play, all of them between 100000 and 200000000

ASSUME SlotsAssumption == Slots \in Nat \ {0}
ASSUME PartsAssumption == MaxParts \in Nat \ {0}
ASSUME IdleAssumption == IdleAfter \in Nat \ {0}

VARIABLES
  pc,          \* next step of the loop; "left" when the teardown is next
  rc,          \* exit_code
  stop,        \* stop_requested
  forceIdr,    \* force_idr_requested
  nextIdr,     \* MPP was told to encode the next frame as an IDR
  owed,        \* history: an IDR was requested, and neither encoded nor refused since
  parts,       \* packets of the submitted frame that are still in MPP
  room,        \* free slots of the ring
  activity,    \* activity_requested
  idle,        \* idle_mode
  tracking,    \* quiet_tracking
  quiet,       \* time since quiet_since, up to IdleAfter
  sinceInput,  \* history: time since the last activity signal, up to IdleAfter
  target,      \* session.targetBitrate
  published,   \* lastPublishedBitrate
  requested,   \* the ring's requested_bitrate
  wanted,      \* the bitrate the loop read from it
  applied,     \* applied_bitrate
  refused      \* history: MPP refused an update since the last publication

idrVars == <<forceIdr, nextIdr, owed>>
frameVars == <<parts, room>>
rateVars == <<activity, idle, tracking, quiet, sinceInput>>
publisherVars == <<target, published>>
bitrateVars == <<publisherVars, requested, wanted, applied, refused>>
vars == <<pc, rc, stop, idrVars, frameVars, rateVars, bitrateVars>>

Steps == {"top", "update", "activity", "capture", "idr", "control", "put", "drain",
          "write", "rate", "sleep", "left"}

Init ==
  /\ pc = "top" /\ rc = 0
  /\ stop = 0
  /\ forceIdr = 0 /\ nextIdr = 0 /\ owed = 0
  /\ parts = 0 /\ room = Slots
  /\ activity = 0 /\ idle = 0 /\ tracking = 0
  /\ quiet = 0 /\ sinceInput = IdleAfter
  /\ target \in Bitrates
  /\ applied \in Bitrates
  /\ requested = applied /\ published = applied /\ wanted = applied
  /\ refused = 0

-------------------------------------------------------------------------------
Goes(from, to) == pc = from /\ pc' = to

\* The loop is left with an exit code: 0 for a signal, 1 for an error, which
\* makes the wrapper start the encoder again.
Leaves(code) == pc' = "left" /\ rc' = code

\* The head of the loop, and the value stream_writer_requested_bitrate loads.
Top ==
  /\ Goes("top", "update")
  /\ stop = 0
  /\ wanted' = requested
  /\ UNCHANGED <<rc, stop, idrVars, frameVars, rateVars, publisherVars, requested, applied, refused>>

Stops ==
  /\ pc = "top"
  /\ stop = 1
  /\ Leaves(0)
  /\ UNCHANGED <<stop, idrVars, frameVars, rateVars, bitrateVars>>

BitrateKept ==
  /\ Goes("update", "activity")
  /\ wanted = applied
  /\ UNCHANGED <<rc, stop, idrVars, frameVars, rateVars, bitrateVars>>

\* update_encoder_bitrate succeeds.
BitrateApplied ==
  /\ Goes("update", "activity")
  /\ wanted # applied
  /\ applied' = wanted
  /\ UNCHANGED <<rc, stop, idrVars, frameVars, rateVars, publisherVars, requested, wanted, refused>>

\* It fails, and the request is withdrawn, together with a later one that the
\* publisher may have stored in the meantime.
BitrateRefused ==
  /\ Goes("update", "activity")
  /\ wanted # applied
  /\ requested' = applied
  /\ refused' = 1
  /\ UNCHANGED <<rc, stop, idrVars, frameVars, rateVars, publisherVars, wanted, applied>>

\* Mutant: input does not restart the measurement of quiet time.
SeeActivityOnly ==
  /\ Goes("activity", "capture")
  /\ activity' = 0
  /\ idle' = IF activity = 1 THEN 0 ELSE idle
  /\ UNCHANGED <<rc, stop, idrVars, frameVars, tracking, quiet, sinceInput, bitrateVars>>

\* Mutant: input does not end the idle mode.
SeeActivityStillIdle ==
  /\ Goes("activity", "capture")
  /\ activity' = 0
  /\ tracking' = IF activity = 1 THEN 0 ELSE tracking
  /\ UNCHANGED <<rc, stop, idrVars, frameVars, idle, quiet, sinceInput, bitrateVars>>

SeeActivity ==
  /\ Goes("activity", "capture")
  /\ activity' = 0
  /\ idle' = IF activity = 1 THEN 0 ELSE idle
  /\ tracking' = IF activity = 1 THEN 0 ELSE tracking
  /\ UNCHANGED <<rc, stop, idrVars, frameVars, quiet, sinceInput, bitrateVars>>

\* DRM capture, import, cursor and colour conversion.
Capture ==
  /\ Goes("capture", "idr")
  /\ UNCHANGED <<rc, stop, idrVars, frameVars, rateVars, bitrateVars>>

\* An error of the capture, a mode change, an error of MPP, a packet larger than
\* a slot, or a frame without end of image.
Fails ==
  /\ pc \in {"capture", "put", "drain"}
  /\ Leaves(IF pc # "capture" /\ stop = 1 THEN 0 ELSE 1)
  /\ UNCHANGED <<stop, idrVars, frameVars, rateVars, bitrateVars>>

-------------------------------------------------------------------------------
(* encode_one_frame. *)

\* The request is taken before MPP is told, so that one that comes in between
\* is kept for the next frame.
TakeIdrRequest ==
  /\ pc = "idr"
  /\ pc' = IF forceIdr = 1 THEN "control" ELSE "put"
  /\ forceIdr' = 0
  /\ UNCHANGED <<rc, stop, nextIdr, owed, frameVars, rateVars, bitrateVars>>

\* MPP_ENC_SET_IDR_FRAME
Control ==
  /\ Goes("control", "put")
  /\ \/ nextIdr' = 1 /\ UNCHANGED owed
     \/ owed' = 0 /\ UNCHANGED nextIdr
  /\ UNCHANGED <<rc, stop, forceIdr, frameVars, rateVars, bitrateVars>>

\* Mutant: the request is taken back only when the frame is submitted.
PutAndForget ==
  /\ Goes("put", "drain")
  /\ \E n \in 1 .. MaxParts : parts' = parts + n
  /\ nextIdr' = 0
  /\ owed' = IF nextIdr = 1 THEN 0 ELSE owed
  /\ forceIdr' = 0
  /\ UNCHANGED <<rc, stop, room, rateVars, bitrateVars>>

\* encode_put_frame
Put ==
  /\ Goes("put", "drain")
  /\ \E n \in 1 .. MaxParts : parts' = parts + n
  /\ nextIdr' = 0
  /\ owed' = IF nextIdr = 1 THEN 0 ELSE owed
  /\ UNCHANGED <<rc, stop, forceIdr, room, rateVars, bitrateVars>>

\* encode_get_packet
GetPacket ==
  /\ Goes("drain", "write")
  /\ parts > 0
  /\ parts' = parts - 1
  /\ UNCHANGED <<rc, stop, idrVars, room, rateVars, bitrateVars>>

\* Mutant: only the first packet of a frame is drained.
WritePacketOnce ==
  /\ pc = "write"
  /\ stop = 0
  /\ room > 0
  /\ room' = room - 1
  /\ pc' = "rate"
  /\ UNCHANGED <<rc, stop, idrVars, parts, rateVars, bitrateVars>>

\* stream_writer_write waits for a slot; the last packet carries the end of
\* image, or is no partition.
WritePacket ==
  /\ pc = "write"
  /\ stop = 0
  /\ room > 0
  /\ room' = room - 1
  /\ pc' = IF parts > 0 THEN "drain" ELSE "rate"
  /\ UNCHANGED <<rc, stop, idrVars, parts, rateVars, bitrateVars>>

\* stream_writer_write gives up as soon as it sees the stop request, whether
\* there is room or not, and encode_one_frame returns without the other packets.
WriteGivesUp ==
  /\ pc = "write"
  /\ stop = 1
  /\ Leaves(0)
  /\ UNCHANGED <<stop, idrVars, frameVars, rateVars, bitrateVars>>

-------------------------------------------------------------------------------
(* The dynamic frame rate, and the pause until the next frame. *)

LargeFrame ==
  /\ Goes("rate", "sleep")
  /\ tracking' = 0
  /\ idle' = 0
  /\ UNCHANGED <<rc, stop, idrVars, frameVars, activity, quiet, sinceInput, bitrateVars>>

\* encoded_size <= idle_frame_bytes
SmallFrame ==
  /\ Goes("rate", "sleep")
  /\ tracking' = 1
  /\ quiet' = IF tracking = 0 THEN 0 ELSE quiet
  /\ idle' = IF tracking = 1 /\ quiet = IdleAfter THEN 1 ELSE idle
  /\ UNCHANGED <<rc, stop, idrVars, frameVars, activity, sinceInput, bitrateVars>>

Later(time) == IF time < IdleAfter THEN time + 1 ELSE time

\* clock_nanosleep, which a signal may cut short at any moment.
Sleep ==
  /\ Goes("sleep", "top")
  /\ \/ activity = 0 /\ stop = 0 /\ quiet' = Later(quiet) /\ sinceInput' = Later(sinceInput)
     \/ activity + stop > 0 /\ UNCHANGED <<quiet, sinceInput>>
  /\ UNCHANGED <<rc, stop, idrVars, frameVars, activity, idle, tracking, bitrateVars>>

-------------------------------------------------------------------------------
(* The publisher: signals, the consumer of the ring, the bitrate. *)

\* SIGTERM, of a session that is closed.
SignalStop ==
  /\ stop = 0
  /\ stop' = 1
  /\ UNCHANGED <<pc, rc, idrVars, frameVars, rateVars, bitrateVars>>

\* SIGUSR1, of requestIDR.
SignalIdr ==
  /\ pc # "left"
  /\ forceIdr' = 1
  /\ owed' = 1
  /\ UNCHANGED <<pc, rc, stop, nextIdr, frameVars, rateVars, bitrateVars>>

\* SIGUSR2, of requestActiveFPS.
SignalActivity ==
  /\ pc # "left"
  /\ activity' = 1
  /\ sinceInput' = 0
  /\ UNCHANGED <<pc, rc, stop, idrVars, frameVars, idle, tracking, quiet, bitrateVars>>

TakePacket ==
  /\ room < Slots
  /\ room' = room + 1
  /\ UNCHANGED <<pc, rc, stop, idrVars, parts, rateVars, bitrateVars>>

\* The congestion controller decides on another bitrate.
Retarget ==
  /\ \E b \in Bitrates \ {target} : target' = b
  /\ UNCHANGED <<pc, rc, stop, idrVars, frameVars, rateVars, published, requested, wanted, applied, refused>>

\* Mutant: only a higher bitrate is published.
PublishHigher ==
  /\ target > published
  /\ requested' = target
  /\ published' = target
  /\ refused' = 0
  /\ UNCHANGED <<pc, rc, stop, idrVars, frameVars, rateVars, target, wanted, applied>>

\* The head of the consumer's loop.
Publish ==
  /\ target # published
  /\ requested' = target
  /\ published' = target
  /\ refused' = 0
  /\ UNCHANGED <<pc, rc, stop, idrVars, frameVars, rateVars, target, wanted, applied>>

-------------------------------------------------------------------------------
LoopStep ==
  \/ Top \/ Stops \/ BitrateKept \/ BitrateApplied \/ BitrateRefused
  \/ SeeActivity \/ Capture \/ Fails
  \/ TakeIdrRequest \/ Control \/ Put \/ GetPacket \/ WritePacket \/ WriteGivesUp
  \/ LargeFrame \/ SmallFrame \/ Sleep

Signal == SignalStop \/ SignalIdr \/ SignalActivity

Next == LoopStep \/ Signal \/ TakePacket \/ Retarget \/ Publish

Spec == Init /\ [][Next]_vars

\* The encoder is scheduled, and the consumer takes packets and looks at the
\* target bitrate.  Nobody has to send a signal or change the bitrate.
FairSpec ==
  /\ Spec
  /\ WF_vars(LoopStep)
  /\ WF_vars(TakePacket)
  /\ WF_vars(Publish)

-------------------------------------------------------------------------------
(* Properties. *)

TypeOK ==
  /\ pc \in Steps
  /\ {rc, stop, forceIdr, nextIdr, owed, activity, idle, tracking, refused} \subseteq {0, 1}
  /\ parts \in 0 .. MaxParts
  /\ room \in 0 .. Slots
  /\ {quiet, sinceInput} \subseteq 0 .. IdleAfter
  /\ {target, published, requested, wanted, applied} \subseteq Bitrates

\* "Draining only the first packet leaves the remaining partitions queued, so the
\* next input frame receives stale data": from the end of a frame to the submission
\* of the next one MPP has nothing left of it.
NoStaleFrame == pc \notin {"drain", "write", "left"} => parts = 0

\* A request for an IDR that comes at any moment, also while one is being
\* served, is followed by an IDR frame, unless MPP refuses it or the loop ends.
IdrIsServed == owed = 1 ~> owed = 0 \/ pc = "left"

\* The loop slows down only after IdleAfter without input, unless it has input
\* it has not looked at yet.
IdleIsEarned ==
  [][idle = 0 /\ idle' = 1 => sinceInput = IdleAfter \/ activity = 1]_vars

\* Input brings the loop back to the full frame rate, however it interleaves
\* with the frame at hand and the pause after it.
ActivityResumes == activity = 1 ~> idle = 0 \/ pc = "left"

\* A bitrate the controller stays with is the one the encoder runs at in the
\* end, unless MPP refused an update after it was published.
BitrateFollows ==
  \A b \in Bitrates :
    <>[](target = b /\ refused = 0 /\ pc # "left") => <>[](applied = b)
===============================================================================
