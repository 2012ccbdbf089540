----------------------------- MODULE VideoForwarder -----------------------------
(***************************************************************************)
(* From the NAL units of the encoder command to the RTP packets of one     *)
(* viewer, and back (native/webrtc-publisher/main.go): forwardAnnexBNALs   *)
(* caches parameter sets, opens the stream at the first clean IDR and      *)
(* gathers units; h264RTPWriter numbers, stamps and fragments them; the    *)
(* viewer's loss reports and input come back as the signals of requestIDR  *)
(* and requestActiveFPS.                                                   *)
(*                                                                         *)
(* A NAL unit is its kind, the encoder generation whose parameter sets it  *)
(* has or needs, its frame number and its length.  The queue between the   *)
(* reader and the forwarder is left out (SharedRing has it): the encoder's *)
(* next unit is the one the forwarder takes next.                          *)
(***************************************************************************)
EXTENDS Integers, Sequences

CONSTANTS
  Encoders,      \* backends in play, of "native" and "portable"
  Corruptible,   \* those whose first packet may carry unusable parameter sets
  MaxGen,        \* bound on the encoder generations
  Gop,           \* pictures between the IDRs of the portable backends
  Sizes,         \* lengths of the slices
  IdrSize,       \* length of an IDR
  Mtu,           \* h264RTPWriter.mtu
  Ticks,         \* RTP clock between two units: frameTicks, or 1 .. 90000
  TsModulus,     \* 2^32
  SeqModulus,    \* 2^16
  IdrPause,      \* the second between two IDR requests, in ticks of the clock
  ActivityPause, \* the 100 ms between two activity requests
  MaxFailures    \* bound on the failed writes of a packet

ASSUME EncodersAssumption == Encoders \subseteq {"native", "portable"} /\ Corruptible \subseteq Encoders
ASSUME CountAssumption == MaxGen \in Nat \ {0} /\ Gop \in Nat /\ Gop > 1 /\ MaxFailures \in Nat
\* The publisher raises an mtu under 256 to 1200.
ASSUME SizeAssumption ==
  Mtu \in Nat /\ Mtu > 2 /\ Sizes \subseteq Nat \ {0} /\ IdrSize \in Nat \ {0}
ASSUME ClockAssumption ==
  /\ TsModulus \in Nat /\ TsModulus > 1 /\ Ticks \subseteq 1 .. TsModulus - 1
  /\ SeqModulus \in Nat /\ SeqModulus > MaxFailures + 1
  /\ IdrPause \in Nat /\ ActivityPause \in Nat

VARIABLES
  encoder,       \* the backend of this session
  command,       \* "running", or "ended" and all it has written is read
  gen, stage,    \* the encoder: its generation, and the kind of unit it emits next
  frame,         \* its last frame number
  corrupt,       \* 1 while its first packet has unusable parameter sets
  asked,         \* 1 from a SIGUSR1 to the next IDR
  pc,            \* forwarder: "next", "write" in writeAccessUnit, or "done"
  sps, pps,      \* startupSPS, startupPPS: the generation they are of, 0 for none
  ready,         \* startupReady
  au, hasVCL,    \* the unit being gathered
  held,          \* the NAL unit whose arrival made it be written
  index, offset, \* writer: the NAL unit of au it is at, and how much is sent of it
  started, timestamp, lastTS, sequence,
  failures,      \* writes that failed
  wire,          \* the last packet sent: sequence number, timestamp and marker
  mediaReady,    \* session.mediaReady
  sinceIdr,      \* time since lastIDRReq, up to IdrPause
  sinceActivity, \* time since lastActiveFPSReq, up to ActivityPause
  viewer         \* the browser: what its depacketizer and its decoder hold

encoderVars == <<gen, stage, frame, corrupt>>
cacheVars == <<sps, pps, ready>>
unitVars == <<au, hasVCL, held>>
clockVars == <<started, timestamp, lastTS>>
writerVars == <<index, offset, clockVars, sequence, failures, wire>>
requestVars == <<sinceIdr, sinceActivity>>
vars == <<encoder, command, encoderVars, asked, pc, cacheVars, unitVars, writerVars,
          mediaReady, requestVars, viewer>>

Kinds == {"sps", "pps", "oversps", "overpps", "sei", "idr", "slice"}
IsVCL(nal) == nal.kind \in {"idr", "slice"}
NoNal == [kind |-> "none", gen |-> 0, frame |-> 0, size |-> 1]

Init ==
  /\ encoder \in Encoders
  /\ command = "running"
  /\ gen = 1 /\ stage = "sps" /\ frame = 0
  /\ corrupt \in IF encoder \in Corruptible THEN {0, 1} ELSE {0}
  /\ asked = 0
  /\ pc = "next"
  /\ sps = 0 /\ pps = 0 /\ ready = 0
  /\ au = <<>> /\ hasVCL = 0 /\ held = NoNal
  /\ index = 1 /\ offset = 0
  /\ started = 0 /\ timestamp = 0 /\ lastTS = 0 /\ sequence = 0 /\ failures = 0
  /\ wire = [seq |-> SeqModulus - 1, ts |-> TsModulus - 1, marker |-> 1]
  /\ mediaReady = 0
  /\ sinceIdr = IdrPause /\ sinceActivity = ActivityPause
  /\ viewer = [sps |-> 0, pps |-> 0, gen |-> 0, frame |-> 0, got |-> 0, intact |-> 0]

-------------------------------------------------------------------------------
(* The encoder. *)

\* The unit emitted and what follows it.  The native encoder emits its parameter
\* sets once (MPP_ENC_HEADER_MODE_DEFAULT) and, with a GOP of an hour, an IDR
\* only when it starts and when asked; the portable backends emit an IDR with
\* its parameter sets every Gop pictures.
Asked == encoder = "native" /\ asked = 1

Emits(nal) ==
  /\ command = "running"
  /\ nal.gen = gen
  /\ CASE nal.kind \in {"sps", "oversps"} -> stage = "sps" /\ stage' = "pps"
       [] nal.kind \in {"pps", "overpps"} -> stage = "pps" /\ stage' = "idr"
       [] nal.kind = "sei" -> stage = "run" /\ stage' = "picture"
       [] nal.kind = "idr" -> (stage = "idr" \/ (Asked /\ stage \in {"run", "picture"})) /\ stage' = "run"
       [] nal.kind = "slice" ->
            /\ stage \in {"run", "picture"} /\ ~Asked
            /\ stage' = IF encoder = "portable" /\ nal.frame = Gop - 1 THEN "sps" ELSE "run"
  /\ nal.kind \in {"oversps", "overpps"} => corrupt = 1
  /\ nal.frame = CASE nal.kind = "idr" -> 0
                    [] nal.kind = "slice" -> (frame + 1) % Gop
                    [] OTHER -> frame
  /\ nal.size \in CASE nal.kind = "idr" -> {IdrSize}
                    [] nal.kind = "slice" -> Sizes
                    [] OTHER -> {1}
  /\ frame' = nal.frame
  /\ corrupt' = IF nal.kind = "idr" THEN 0 ELSE corrupt
  /\ asked' = IF nal.kind = "idr" THEN 0 ELSE asked
  /\ UNCHANGED gen

\* The hotplug wrapper starts the native encoder again.
Restart ==
  /\ command = "running" /\ encoder = "native"
  /\ gen < MaxGen
  /\ gen' = gen + 1
  /\ stage' = "sps" /\ frame' = 0 /\ asked' = 0
  /\ corrupt' \in IF encoder \in Corruptible THEN {0, 1} ELSE {0}
  /\ UNCHANGED <<encoder, command, pc, cacheVars, unitVars, writerVars, mediaReady, requestVars, viewer>>

\* The command ends, of its own or because the context is cancelled.
CommandEnds ==
  /\ command = "running"
  /\ command' = "ended"
  /\ mediaReady' = 0
  /\ UNCHANGED <<encoder, encoderVars, asked, pc, cacheVars, unitVars, writerVars, requestVars, viewer>>

-------------------------------------------------------------------------------
(* The forwarder. *)

ParameterSets ==
  << [kind |-> "sps", gen |-> sps, frame |-> 0, size |-> 1],
     [kind |-> "pps", gen |-> pps, frame |-> 0, size |-> 1] >>

\* Mutant: the parameter sets are sent before the first IDR only.
WithParameterSetsOnce(unit, nal) ==
  unit \o (IF nal.kind = "idr" /\ ready = 0 THEN ParameterSets ELSE <<>>) \o <<nal>>

\* A unit with one more NAL unit, before an IDR the cached parameter sets.
WithParameterSets(unit, nal) ==
  unit \o (IF nal.kind = "idr" /\ sps # 0 /\ pps # 0 THEN ParameterSets ELSE <<>>) \o <<nal>>

Put(unit, nal) ==
  /\ au' = WithParameterSets(unit, nal)
  /\ hasVCL' = IF IsVCL(nal) THEN 1 ELSE 0

\* The head of writeAccessUnit: the first unit has the base timestamp.
Stamp ==
  /\ \E t \in Ticks : timestamp' = IF started = 1 THEN (lastTS + t) % TsModulus ELSE lastTS
  /\ started' = 1

\* flush, up to the first packet.
BeginUnit(nal) ==
  /\ pc' = "write"
  /\ held' = nal
  /\ Stamp
  /\ UNCHANGED <<au, hasVCL, index, offset, lastTS, sequence, failures, wire>>

\* A parameter set is cached, unless it is too long to be one.
Cache(nal) ==
  /\ nal.kind \in {"sps", "pps", "oversps", "overpps"}
  /\ sps' = IF nal.kind = "sps" THEN nal.gen ELSE sps
  /\ pps' = IF nal.kind = "pps" THEN nal.gen ELSE pps
  /\ UNCHANGED <<pc, ready, unitVars, writerVars, mediaReady>>

\* Before the first IDR with both parameter sets everything is dropped.
StartUp(nal) ==
  /\ nal.kind \in {"sei", "idr", "slice"}
  /\ ready = 0
  /\ IF nal.kind = "idr" /\ sps # 0 /\ pps # 0
       THEN /\ Put(<<>>, nal)
            /\ ready' = 1 /\ mediaReady' = 1
       ELSE UNCHANGED <<au, hasVCL, ready, mediaReady>>
  /\ UNCHANGED <<pc, sps, pps, held, writerVars>>

\* Mutant: only a picture ends the unit before it, not what precedes a picture.
GatherLoose(nal) ==
  /\ nal.kind \in {"sei", "idr", "slice"}
  /\ ready = 1
  /\ IF hasVCL = 1 /\ nal.kind = "slice"
       THEN BeginUnit(nal)
       ELSE Put(au, nal) /\ UNCHANGED <<pc, held, writerVars>>
  /\ UNCHANGED <<cacheVars, mediaReady>>

\* A unit is written when the one after it begins: with a picture, or with what
\* precedes a picture.
Gather(nal) ==
  /\ nal.kind \in {"sei", "idr", "slice"}
  /\ ready = 1
  /\ IF hasVCL = 1
       THEN BeginUnit(nal)
       ELSE Put(au, nal) /\ UNCHANGED <<pc, held, writerVars>>
  /\ UNCHANGED <<cacheVars, mediaReady>>

\* One turn of the loop.  Access unit delimiters, fillers and empty units are
\* dropped without effect.
Take ==
  /\ pc = "next"
  /\ \E kind \in Kinds, f \in 0 .. Gop - 1, size \in Sizes \union {1, IdrSize} :
       LET nal == [kind |-> kind, gen |-> gen, frame |-> f, size |-> size]
       IN  /\ Emits(nal)
           /\ Cache(nal) \/ StartUp(nal) \/ Gather(nal)
  /\ UNCHANGED <<encoder, command, requestVars, viewer>>

\* The channel is closed: what is gathered is written.
StreamEnds ==
  /\ pc = "next" /\ command = "ended"
  /\ IF au = <<>>
       THEN pc' = "done" /\ UNCHANGED <<unitVars, writerVars>>
       ELSE BeginUnit(NoNal)
  /\ UNCHANGED <<encoder, command, encoderVars, asked, cacheVars, mediaReady, requestVars, viewer>>

\* The session is closed, which cancels the context.
Quit ==
  /\ pc = "next"
  /\ pc' = "done"
  /\ mediaReady' = 0
  /\ UNCHANGED <<encoder, command, encoderVars, asked, cacheVars, unitVars, writerVars,
                 requestVars, viewer>>

-------------------------------------------------------------------------------
(* h264RTPWriter and the viewer that gets its packets. *)

Nal == au[index]
Whole == Nal.size <= Mtu

\* Mutant: the FU-A headers are not reckoned in.
FragmentWide == IF Whole THEN Nal.size
                ELSE IF Nal.size - 1 - offset < Mtu THEN Nal.size - 1 - offset ELSE Mtu

\* How much of the NAL unit the next packet carries; without its header byte,
\* which the FU-A headers stand for, when it is fragmented.
Fragment == IF Whole THEN Nal.size
            ELSE IF Nal.size - 1 - offset < Mtu - 2 THEN Nal.size - 1 - offset ELSE Mtu - 2

LastFragment == Whole \/ offset + Fragment = Nal.size - 1

\* The marker bit, on the last packet of a unit.
Marker == IF LastFragment /\ index = Len(au) THEN 1 ELSE 0

\* The packets the depacketizer misses tell it that something is lost.
Gap == sequence # (wire.seq + 1) % SeqModulus

\* The viewer takes a packet (external).  A decoder that has lost nothing since
\* an IDR it could decode is intact.
Reassembled == IF offset = 0 THEN (IF Whole THEN Fragment ELSE 1 + Fragment) ELSE viewer.got + Fragment

Fits ==
  /\ viewer.sps = Nal.gen /\ viewer.pps = Nal.gen
  /\ Nal.kind = "slice" => viewer.gen = Nal.gen /\ Nal.frame = (viewer.frame + 1) % Gop

ViewerTakes ==
  LET trusted == IF Gap THEN 0 ELSE viewer.intact
  IN  viewer' = IF ~LastFragment THEN [viewer EXCEPT !.got = Reassembled, !.intact = trusted]
                ELSE [viewer EXCEPT
                        !.got = 0,
                        !.sps = IF Nal.kind = "sps" THEN Nal.gen ELSE viewer.sps,
                        !.pps = IF Nal.kind = "pps" THEN Nal.gen ELSE viewer.pps,
                        !.gen = IF IsVCL(Nal) THEN Nal.gen ELSE viewer.gen,
                        !.frame = IF IsVCL(Nal) THEN Nal.frame ELSE viewer.frame,
                        !.intact = IF Nal.kind = "idr" THEN (IF Fits THEN 1 ELSE 0)
                                   ELSE IF Nal.kind = "slice" /\ ~Fits THEN 0 ELSE trusted]

\* writePacket
SendPacket ==
  /\ pc = "write" /\ index <= Len(au)
  /\ wire' = [seq |-> sequence, ts |-> timestamp, marker |-> Marker]
  /\ sequence' = (sequence + 1) % SeqModulus
  /\ index' = IF LastFragment THEN index + 1 ELSE index
  /\ offset' = IF LastFragment THEN 0 ELSE offset + Fragment
  /\ ViewerTakes
  /\ UNCHANGED <<encoder, command, encoderVars, asked, pc, cacheVars, unitVars, clockVars,
                 failures, mediaReady, requestVars>>

\* The end of flush, and of the turn of the loop that called it.
GoOn ==
  /\ pc' = IF held = NoNal THEN "done" ELSE "next"
  /\ IF held = NoNal THEN au' = <<>> /\ hasVCL' = 0 ELSE Put(<<>>, held)
  /\ held' = NoNal
  /\ index' = 1 /\ offset' = 0

FinishUnit ==
  /\ pc = "write" /\ index > Len(au)
  /\ lastTS' = timestamp
  /\ GoOn
  /\ UNCHANGED <<encoder, command, encoderVars, asked, cacheVars, started, timestamp,
                 sequence, failures, wire, mediaReady, requestVars, viewer>>

\* WriteRTP returns an error: the rest of the unit is not sent, and the clock
\* stays where it was before the unit.
WriteFails ==
  /\ pc = "write" /\ index <= Len(au)
  /\ failures < MaxFailures
  /\ failures' = failures + 1
  /\ sequence' = (sequence + 1) % SeqModulus
  /\ GoOn
  /\ UNCHANGED <<encoder, command, encoderVars, asked, cacheVars, clockVars,
                 wire, mediaReady, requestVars, viewer>>

\* Packets are lost on the way for good.
Lose ==
  /\ viewer.intact = 1
  /\ viewer' = [viewer EXCEPT !.intact = 0]
  /\ UNCHANGED <<encoder, command, encoderVars, asked, pc, cacheVars, unitVars, writerVars,
                 mediaReady, requestVars>>

-------------------------------------------------------------------------------
(* The requests of the viewer. *)

\* The signal goes to the process of the command, which is the hotplug wrapper
\* or, with the portable backends, a script or a program without a handler.
Signal ==
  /\ command' = IF command = "running" /\ encoder = "portable" THEN "ended" ELSE command
  /\ mediaReady' = IF command' = command THEN mediaReady ELSE 0

\* Mutant: a request that comes too early starts the pause again.
RequestIdrAlways ==
  /\ viewer.intact = 0
  /\ mediaReady = 1
  /\ sinceIdr' = 0
  /\ IF sinceIdr = IdrPause
       THEN Signal /\ asked' = IF command = "running" THEN 1 ELSE asked
       ELSE UNCHANGED <<command, mediaReady, asked>>
  /\ UNCHANGED <<encoder, encoderVars, pc, cacheVars, unitVars, writerVars, sinceActivity, viewer>>

\* requestIDR, for the PLI of a viewer whose decoder is not intact.  A PLI that
\* comes earlier has no effect.
RequestIdr ==
  /\ viewer.intact = 0
  /\ mediaReady = 1 /\ sinceIdr = IdrPause
  /\ sinceIdr' = 0
  /\ Signal
  /\ asked' = IF command = "running" THEN 1 ELSE asked
  /\ UNCHANGED <<encoder, encoderVars, pc, cacheVars, unitVars, writerVars, sinceActivity, viewer>>

\* requestActiveFPS, for a message of the viewer on the data channel.
RequestActiveFps ==
  /\ mediaReady = 1 /\ sinceActivity = ActivityPause
  /\ sinceActivity' = 0
  /\ Signal
  /\ UNCHANGED <<encoder, encoderVars, asked, pc, cacheVars, unitVars, writerVars, sinceIdr, viewer>>

\* Time passes (external).
Tick ==
  /\ sinceIdr < IdrPause \/ sinceActivity < ActivityPause
  /\ sinceIdr' = IF sinceIdr < IdrPause THEN sinceIdr + 1 ELSE sinceIdr
  /\ sinceActivity' = IF sinceActivity < ActivityPause THEN sinceActivity + 1 ELSE sinceActivity
  /\ UNCHANGED <<encoder, command, encoderVars, asked, pc, cacheVars, unitVars, writerVars,
                 mediaReady, viewer>>

-------------------------------------------------------------------------------
Forward == Take \/ StreamEnds \/ SendPacket \/ FinishUnit

Next ==
  \/ Forward \/ Quit \/ WriteFails \/ Lose
  \/ Restart \/ CommandEnds
  \/ RequestIdr \/ RequestActiveFps \/ Tick

Spec == Init /\ [][Next]_vars

\* The encoder goes on encoding, the publisher is scheduled, and a browser that
\* cannot decode keeps asking.  No command has to end, no write to fail.
FairSpec ==
  /\ Spec
  /\ WF_vars(Forward)
  /\ WF_vars(RequestIdr)
  /\ WF_vars(Tick)

-------------------------------------------------------------------------------
(* Properties. *)

TypeOK ==
  /\ encoder \in Encoders
  /\ command \in {"running", "ended"}
  /\ gen \in 1 .. MaxGen
  /\ stage \in {"sps", "pps", "idr", "run", "picture"}
  /\ frame \in 0 .. Gop - 1
  /\ {corrupt, asked, ready, hasVCL, started, mediaReady} \subseteq {0, 1}
  /\ pc \in {"next", "write", "done"}
  /\ {sps, pps} \subseteq 0 .. gen
  /\ au \in Seq([kind : Kinds, gen : 1 .. gen, frame : 0 .. Gop - 1, size : Nat \ {0}])
  /\ held \in [kind : Kinds \union {"none"}, gen : 0 .. gen, frame : 0 .. Gop - 1, size : Nat \ {0}]
  /\ index \in Nat \ {0}
  /\ offset \in Nat
  /\ {timestamp, lastTS} \subseteq 0 .. TsModulus - 1
  /\ sequence \in 0 .. SeqModulus - 1
  /\ failures \in 0 .. MaxFailures
  /\ wire \in [seq : 0 .. SeqModulus - 1, ts : 0 .. TsModulus - 1, marker : {0, 1}]
  /\ sinceIdr \in 0 .. IdrPause
  /\ sinceActivity \in 0 .. ActivityPause
  /\ viewer \in [sps : 0 .. gen, pps : 0 .. gen, gen : 0 .. gen, frame : 0 .. Gop - 1,
                 got : Nat, intact : {0, 1}]

\* A picture the viewer gets whole, having missed nothing since the last IDR, can
\* be decoded: the viewer has the parameter sets of the encoder generation it
\* comes from and the picture before it; and an IDR can always be decoded,
\* whatever was lost or restarted before.
EveryPictureDecodes ==
  [][wire' # wire /\ LastFragment /\ IsVCL(Nal) /\ ~Gap /\ (viewer.intact = 1 \/ Nal.kind = "idr")
       => Fits]_vars

\* Where no packet is missing, the timestamp changes exactly after a marker, also
\* across failed writes; and the packet that completes a picture has the marker,
\* so that the viewer need not wait for the next one.
UnitsTellApart ==
  [][wire' # wire => /\ ~Gap => (wire'.ts # wire.ts <=> wire.marker = 1)
                     /\ LastFragment /\ IsVCL(Nal) => wire'.marker = 1]_vars

\* Fragments are never empty, never longer than the mtu with their two headers,
\* at least two, and the viewer puts the NAL unit together again to its length.
FragmentsRebuild ==
  [][wire' # wire => /\ Fragment > 0
                     /\ Fragment + (IF Whole THEN 0 ELSE 2) <= Mtu
                     /\ ~Whole /\ LastFragment => offset > 0
                     /\ LastFragment => Reassembled = Nal.size]_vars

\* A viewer that cannot decode, at the start or after losses, failed writes or a
\* restart of the encoder, gets an IDR it can decode, unless the command ends.
Recovers == viewer.intact = 0 ~> viewer.intact = 1 \/ command = "ended" \/ pc = "done"

\* "Cache only plausible SPS/PPS NALs and begin RTP output at the first clean
\* IDR": a first packet with unusable parameter sets does not keep the output
\* from beginning.
StartsUp == <>(ready = 1 \/ command = "ended" \/ pc = "done")

\* "The browser's PLI/FIR triggers SIGUSR1 through RTCP, the encoder requests a
\* new IDR": the signal does not end the command.
SignalsAreTaken == [][asked = 0 /\ asked' = 1 => command' = "running"]_vars
=============================================================================
