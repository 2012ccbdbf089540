-------------------------- MODULE VideoForwarderProofs --------------------------
(***************************************************************************)
(* Proofs about the video forwarder: its types with the wrap-around of the *)
(* RTP clock, the fragmentation, and what tells access units apart, for    *)
(* every mtu, slice length, clock and number of failed writes.             *)
(***************************************************************************)
EXTENDS VideoForwarder, SequenceTheorems, TLAPS

\* The NAL units of the encoder up to a generation.
Units(g) == [kind : Kinds, gen : 1 .. g, frame : 0 .. Gop - 1, size : Nat \ {0}]

\* Where the writer is: it is within the unit, and in the middle of a NAL unit
\* only if that one is fragmented, with as much of it sent as the viewer has.
Cursor ==
  /\ held = NoNal \/ held \in Units(gen)
  /\ pc # "write" => index = 1 /\ offset = 0
  /\ pc = "write" \/ hasVCL = 1 => au # <<>>
  /\ index <= Len(au) + 1
  /\ offset > 0 => /\ index <= Len(au)
                   /\ au[index].size > Mtu
                   /\ offset < au[index].size - 1
                   /\ viewer.got = 1 + offset

CursorInv == TypeOK /\ Cursor

\* A gathered unit ends with the NAL unit put into it, after what was there and
\* perhaps the parameter sets, which are no pictures.
LEMMA Gathered ==
  ASSUME NEW g \in Nat, NEW unit \in Seq(Units(g)), NEW nal \in Units(g),
         sps \in 0 .. g, pps \in 0 .. g
  PROVE  LET longer == WithParameterSets(unit, nal)
         IN  /\ longer \in Seq(Units(g))
             /\ Len(longer) \in Nat /\ Len(longer) > Len(unit)
             /\ longer # <<>>
             /\ longer[Len(longer)] = nal
             /\ \A i \in 1 .. Len(unit) : longer[i] = unit[i]
             /\ \A i \in Len(unit) + 1 .. Len(longer) - 1 : ~IsVCL(longer[i])
<1> DEFINE middle == IF nal.kind = "idr" /\ sps # 0 /\ pps # 0 THEN ParameterSets ELSE <<>>
           both == unit \o middle
           longer == WithParameterSets(unit, nal)
<1>1. middle \in Seq(Units(g)) /\ \A i \in 1 .. Len(middle) : ~IsVCL(middle[i])
  <2>1. CASE nal.kind = "idr" /\ sps # 0 /\ pps # 0
    <3>1. middle = ParameterSets
      BY <2>1
    <3>2. /\ [kind |-> "sps", gen |-> sps, frame |-> 0, size |-> 1] \in Units(g)
          /\ [kind |-> "pps", gen |-> pps, frame |-> 0, size |-> 1] \in Units(g)
      BY <2>1, CountAssumption DEF Units, Kinds
    <3>3. ParameterSets \in Seq(Units(g)) /\ Len(ParameterSets) = 2
      BY <3>2 DEF ParameterSets
    <3>4. ParameterSets[1].kind = "sps" /\ ParameterSets[2].kind = "pps"
      BY DEF ParameterSets
    <3>5. \A i \in 1 .. Len(ParameterSets) : ~IsVCL(ParameterSets[i])
      BY <3>3, <3>4 DEF IsVCL
    <3> HIDE DEF middle
    <3> QED
      BY <3>1, <3>3, <3>5
  <2>2. CASE ~(nal.kind = "idr" /\ sps # 0 /\ pps # 0)
    <3>1. middle = <<>>
      BY <2>2
    <3>2. <<>> \in Seq(Units(g)) /\ Len(<<>>) = 0
      OBVIOUS
    <3> HIDE DEF middle
    <3> QED
      BY <3>1, <3>2
  <2> QED
    BY <2>1, <2>2
<1>2. /\ both \in Seq(Units(g)) /\ Len(both) = Len(unit) + Len(middle)
      /\ \A i \in 1 .. Len(unit) + Len(middle) :
           both[i] = IF i <= Len(unit) THEN unit[i] ELSE middle[i - Len(unit)]
  <2> HIDE DEF middle
  <2> QED
    BY <1>1, ConcatProperties
<1>3. <<nal>> \in Seq(Units(g)) /\ Len(<<nal>>) = 1 /\ <<nal>>[1] = nal
  OBVIOUS
<1>4. longer = both \o <<nal>>
  BY DEF WithParameterSets
<1>5. /\ longer \in Seq(Units(g)) /\ Len(longer) = Len(both) + 1
      /\ \A i \in 1 .. Len(both) + 1 :
           longer[i] = IF i <= Len(both) THEN both[i] ELSE <<nal>>[i - Len(both)]
  <2> HIDE DEF both, longer
  <2> QED
    BY <1>2, <1>3, <1>4, ConcatProperties
<1>6. Len(unit) \in Nat /\ Len(middle) \in Nat
  BY <1>1, LenProperties
<1>7. longer # <<>>
  BY <1>5, <1>6, <1>2
<1> HIDE DEF middle, both, longer
<1>8. longer[Len(longer)] = nal
  BY <1>2, <1>3, <1>5, <1>6
<1>9. ASSUME NEW i \in 1 .. Len(unit) PROVE longer[i] = unit[i]
  BY <1>2, <1>5, <1>6
<1>10. ASSUME NEW i \in Len(unit) + 1 .. Len(longer) - 1 PROVE ~IsVCL(longer[i])
  <2>1. i - Len(unit) \in 1 .. Len(middle) /\ longer[i] = middle[i - Len(unit)]
    BY <1>2, <1>5, <1>6
  <2> QED
    BY <2>1, <1>1
<1>11. Len(longer) \in Nat /\ Len(longer) > Len(unit)
  BY <1>2, <1>5, <1>6
<1> QED
  BY <1>5, <1>7, <1>8, <1>9, <1>10, <1>11 DEF longer

\* The number after n, counting modulo k.
LEMMA Successor ==
  ASSUME NEW k \in Nat \ {0}, NEW n \in 0 .. k - 1, NEW t \in 0 .. k - 1
  PROVE  (n + t) % k = IF n + t < k THEN n + t ELSE n + t - k
<1> DEFINE q == (n + t) \div k
           r == (n + t) % k
<1>1. q \in Int /\ r \in 0 .. k - 1 /\ n + t = k * q + r
  OBVIOUS
<1> HIDE DEF q, r
<1>2. q < 2
  <2>1. SUFFICES ASSUME q >= 2 PROVE FALSE
    BY <1>1
  <2>2. k * q >= k * 2
    BY <2>1, <1>1
  <2> QED
    BY <2>2, <1>1
<1>3. q > -1
  <2>1. SUFFICES ASSUME q <= -1 PROVE FALSE
    BY <1>1
  <2>2. k * q <= k * (-1)
    BY <2>1, <1>1
  <2> QED
    BY <2>2, <1>1
<1>4. q = 0 \/ q = 1
  BY <1>1, <1>2, <1>3
<1> QED
  BY <1>1, <1>4 DEF r

-------------------------------------------------------------------------------
(* The types, with the cursor. *)

\* What an action of the encoder leaves of its own variables.
LEMMA Emitted ==
  ASSUME TypeOK, NEW nal \in Units(gen), Emits(nal)
  PROVE  /\ command = "running" /\ gen' = gen
         /\ stage' \in {"sps", "pps", "idr", "run", "picture"}
         /\ frame' \in 0 .. Gop - 1
         /\ {corrupt', asked'} \subseteq {0, 1}
<1>1. stage' \in {"sps", "pps", "idr", "run", "picture"}
  BY DEF Emits, Units, Kinds, TypeOK
<1>2. command = "running" /\ gen' = gen /\ frame' \in 0 .. Gop - 1
  BY DEF Emits, Units
<1>3. corrupt' \in {0, 1} /\ asked' \in {0, 1}
  BY DEF Emits, TypeOK
<1> QED
  BY <1>1, <1>2, <1>3

\* A turn of the loop takes one unit of the encoder's generation.
LEMMA Taken ==
  ASSUME TypeOK, Take
  PROVE  \E nal \in Units(gen) :
           Emits(nal) /\ (Cache(nal) \/ StartUp(nal) \/ Gather(nal)) /\ nal # NoNal
<1>1. PICK kind \in Kinds, f \in 0 .. Gop - 1, size \in Sizes \union {1, IdrSize} :
        LET nal == [kind |-> kind, gen |-> gen, frame |-> f, size |-> size]
        IN  Emits(nal) /\ (Cache(nal) \/ StartUp(nal) \/ Gather(nal))
  BY DEF Take
<1> DEFINE nal == [kind |-> kind, gen |-> gen, frame |-> f, size |-> size]
<1>2. gen \in 1 .. gen /\ size \in Nat \ {0}
  <2>1. gen \in 1 .. MaxGen /\ MaxGen \in Nat
    BY CountAssumption DEF TypeOK
  <2>2. size \in Nat \ {0}
    BY SizeAssumption
  <2> QED
    BY <2>1, <2>2
<1>3. nal \in Units(gen)
  BY <1>2 DEF Units
<1>4. nal # NoNal
  <2>1. nal.kind = kind /\ NoNal.kind = "none"
    BY DEF NoNal
  <2> QED
    BY <2>1 DEF Kinds
<1> QED
  BY <1>1, <1>3, <1>4

\* The timestamp of a unit is a value of the RTP clock, other than that of the last
\* unit unless it is the first.
LEMMA Stamped ==
  ASSUME TypeOK, Stamp
  PROVE  /\ started' = 1
         /\ timestamp' \in 0 .. TsModulus - 1
         /\ started = 1 => timestamp' # lastTS
         /\ started = 0 => timestamp' = lastTS
<1>1. started \in {0, 1} /\ lastTS \in 0 .. TsModulus - 1
  BY DEF TypeOK
<1>2. PICK t \in Ticks : timestamp' = IF started = 1 THEN (lastTS + t) % TsModulus ELSE lastTS
  BY DEF Stamp
<1>3. t \in 1 .. TsModulus - 1 /\ TsModulus \in Nat \ {0}
  BY ClockAssumption
<1>4. (lastTS + t) % TsModulus = IF lastTS + t < TsModulus THEN lastTS + t ELSE lastTS + t - TsModulus
  <2>1. t \in 0 .. TsModulus - 1
    BY <1>3
  <2> QED
    BY <1>1, <1>3, <2>1, Successor, Zenon
<1> QED
  BY <1>1, <1>2, <1>3, <1>4 DEF Stamp

\* The next sequence number.
LEMMA Numbered ==
  ASSUME TypeOK
  PROVE  /\ (sequence + 1) % SeqModulus \in 0 .. SeqModulus - 1
         /\ (sequence + 1) % SeqModulus = IF sequence + 1 < SeqModulus THEN sequence + 1
                                          ELSE sequence + 1 - SeqModulus
<1>1. sequence \in 0 .. SeqModulus - 1 /\ SeqModulus \in Nat \ {0} /\ 1 \in 0 .. SeqModulus - 1
  BY ClockAssumption, CountAssumption DEF TypeOK
<1>2. (sequence + 1) % SeqModulus = IF sequence + 1 < SeqModulus THEN sequence + 1
                                    ELSE sequence + 1 - SeqModulus
  BY <1>1, Successor, Zenon
<1> QED
  BY <1>1, <1>2

\* What a fragment is at the cursor: never empty, within the mtu, and the last one
\* exactly when the NAL unit is all sent.
LEMMA Fragments ==
  ASSUME CursorInv, index <= Len(au)
  PROVE  /\ Nal \in Units(gen)
         /\ Fragment \in Nat \ {0}
         /\ Fragment + (IF Whole THEN 0 ELSE 2) <= Mtu
         /\ Reassembled \in Nat
         /\ ~Whole /\ LastFragment => offset > 0
         /\ LastFragment => Reassembled = Nal.size
         /\ ~LastFragment => /\ Nal.size > Mtu
                             /\ offset + Fragment < Nal.size - 1
                             /\ Reassembled = 1 + offset + Fragment
<1>1. Nal \in Units(gen)
  <2>1. au \in Seq(Units(gen)) /\ index \in 1 .. Len(au)
    BY DEF CursorInv, TypeOK, Units
  <2> QED
    BY <2>1, ElementOfSeq DEF Nal
<1>2. /\ Nal.size \in Nat \ {0} /\ offset \in Nat /\ Mtu \in Nat /\ Mtu > 2
      /\ offset > 0 => Nal.size > Mtu /\ offset < Nal.size - 1 /\ viewer.got = 1 + offset
  BY <1>1, SizeAssumption DEF CursorInv, TypeOK, Cursor, Units, Nal
<1>3. CASE Whole
  BY <1>1, <1>2, <1>3 DEF Fragment, LastFragment, Reassembled, Whole
<1>4. CASE ~Whole
  <2>1. /\ Fragment = IF Nal.size - 1 - offset < Mtu - 2 THEN Nal.size - 1 - offset ELSE Mtu - 2
        /\ LastFragment <=> offset + Fragment = Nal.size - 1
        /\ Reassembled = IF offset = 0 THEN 1 + Fragment ELSE viewer.got + Fragment
        /\ Nal.size > Mtu
    BY <1>2, <1>4 DEF Fragment, LastFragment, Reassembled, Whole
  <2>2. Fragment \in Nat \ {0} /\ Fragment <= Mtu - 2 /\ Fragment <= Nal.size - 1 - offset
    <3>1. Nal.size - 1 - offset \in Nat \ {0} /\ Mtu - 2 \in Nat \ {0}
      BY <1>2, <2>1
    <3> QED
      BY <3>1, <2>1
  <2>3. offset = 0 => ~LastFragment
    BY <1>2, <2>1, <2>2
  <2>4. Reassembled = 1 + offset + Fragment
    BY <1>2, <2>1
  <2>5. Reassembled \in Nat /\ (LastFragment => Reassembled = Nal.size)
    <3>1. Reassembled \in Nat
      BY <1>2, <2>2, <2>4
    <3>2. offset + Fragment = Nal.size - 1 => Reassembled = Nal.size
      BY <1>2, <2>2, <2>4
    <3> QED
      BY <3>1, <3>2, <1>4 DEF LastFragment
  <2>6. ~LastFragment => offset + Fragment < Nal.size - 1
    <3>1. offset + Fragment <= Nal.size - 1
      BY <1>2, <2>2
    <3>2. offset + Fragment # Nal.size - 1 => offset + Fragment < Nal.size - 1
      BY <3>1, <1>2, <2>2
    <3> QED
      BY <3>2, <1>4 DEF LastFragment
  <2>7. Fragment + (IF Whole THEN 0 ELSE 2) <= Mtu
    BY <1>2, <1>4, <2>2
  <2>8. ~Whole /\ LastFragment => offset > 0
    BY <1>2, <2>3
  <2> QED
    BY <1>1, <2>1, <2>2, <2>4, <2>5, <2>6, <2>7, <2>8
<1> QED
  BY <1>3, <1>4

\* Only writePacket puts a packet on the wire.
LEMMA OnlySendPacket ==
  ASSUME [Next]_vars, wire' # wire
  PROVE  SendPacket
<1>1. ASSUME Take PROVE UNCHANGED wire
  BY <1>1 DEF Take, Cache, StartUp, Gather, BeginUnit, writerVars
<1>2. ASSUME StreamEnds PROVE UNCHANGED wire
  BY <1>2 DEF StreamEnds, BeginUnit, writerVars
<1>3. ASSUME FinishUnit \/ WriteFails PROVE UNCHANGED wire
  BY <1>3 DEF FinishUnit, WriteFails
<1>4. ASSUME Quit \/ Lose \/ Restart \/ CommandEnds PROVE UNCHANGED wire
  BY <1>4 DEF Quit, Lose, Restart, CommandEnds, writerVars
<1>5. ASSUME RequestIdr \/ RequestActiveFps \/ Tick \/ UNCHANGED vars PROVE UNCHANGED wire
  BY <1>5 DEF RequestIdr, RequestActiveFps, Tick, vars, writerVars
<1> QED
  BY <1>1, <1>2, <1>3, <1>4, <1>5 DEF Next, Forward

\* The start: everything empty.
LEMMA CursorInit ==
  Init => CursorInv
<1> SUFFICES ASSUME Init PROVE CursorInv
  OBVIOUS
<1>1. /\ encoder \in Encoders /\ command \in {"running", "ended"}
      /\ gen \in 1 .. MaxGen /\ gen = 1 /\ frame \in 0 .. Gop - 1
      /\ stage \in {"sps", "pps", "idr", "run", "picture"}
      /\ {corrupt, asked, ready, hasVCL, started, mediaReady} \subseteq {0, 1}
      /\ {sps, pps} \subseteq 0 .. gen
  BY CountAssumption DEF Init
<1>2. /\ timestamp \in 0 .. TsModulus - 1 /\ lastTS \in 0 .. TsModulus - 1
      /\ sequence \in 0 .. SeqModulus - 1 /\ failures \in 0 .. MaxFailures
      /\ SeqModulus - 1 \in 0 .. SeqModulus - 1 /\ TsModulus - 1 \in 0 .. TsModulus - 1
      /\ sinceIdr \in 0 .. IdrPause /\ sinceActivity \in 0 .. ActivityPause
  BY CountAssumption, ClockAssumption DEF Init
<1>3. wire \in [seq : 0 .. SeqModulus - 1, ts : 0 .. TsModulus - 1, marker : {0, 1}]
  BY <1>2 DEF Init
<1>4. viewer \in [sps : 0 .. gen, pps : 0 .. gen, gen : 0 .. gen, frame : 0 .. Gop - 1,
                  got : Nat, intact : {0, 1}]
  BY CountAssumption DEF Init
<1>5. held \in [kind : Kinds \union {"none"}, gen : 0 .. gen, frame : 0 .. Gop - 1, size : Nat \ {0}]
  BY CountAssumption DEF Init, NoNal
<1>6. /\ au \in Seq([kind : Kinds, gen : 1 .. gen, frame : 0 .. Gop - 1, size : Nat \ {0}])
      /\ Len(au) = 0 /\ pc = "next" /\ index = 1 /\ offset = 0 /\ hasVCL = 0 /\ held = NoNal
  BY DEF Init
<1>7. TypeOK
  BY <1>1, <1>2, <1>3, <1>4, <1>5, <1>6 DEF TypeOK
<1> QED
  BY <1>6, <1>7 DEF CursorInv, Cursor

\* A turn of the loop.
LEMMA CursorTake ==
  ASSUME CursorInv, Take
  PROVE  CursorInv'
<1>1. TypeOK /\ Cursor /\ pc = "next" /\ index = 1 /\ offset = 0
  BY DEF CursorInv, Cursor, Take
<1>2. PICK nal \in Units(gen) :
        Emits(nal) /\ (Cache(nal) \/ StartUp(nal) \/ Gather(nal)) /\ nal # NoNal
  BY <1>1, Taken
<1>3. /\ command = "running" /\ gen' = gen
      /\ stage' \in {"sps", "pps", "idr", "run", "picture"}
      /\ frame' \in 0 .. Gop - 1
      /\ {corrupt', asked'} \subseteq {0, 1}
  BY <1>1, <1>2, Emitted
<1>4. UNCHANGED <<encoder, command, requestVars, viewer>>
  BY DEF Take
<1>5. au \in Seq(Units(gen)) /\ gen \in Nat /\ sps \in 0 .. gen /\ pps \in 0 .. gen /\ nal.gen \in 1 .. gen
  <2>1. au \in Seq(Units(gen)) /\ nal.gen \in 1 .. gen
    BY <1>1, <1>2 DEF TypeOK, Units
  <2>2. gen \in Nat /\ sps \in 0 .. gen /\ pps \in 0 .. gen
    BY <1>1, CountAssumption DEF TypeOK
  <2> QED
    BY <2>1, <2>2
<1>6. CASE Cache(nal)
  <2>1. /\ {sps', pps'} \subseteq 0 .. gen
        /\ UNCHANGED <<pc, ready, unitVars, writerVars, mediaReady>>
    BY <1>5, <1>6 DEF Cache
  <2>2. TypeOK'
    BY <1>1, <1>3, <1>4, <2>1 DEF TypeOK, unitVars, writerVars, clockVars, requestVars
  <2>3. Cursor'
    BY <1>1, <1>3, <1>4, <2>1 DEF Cursor, unitVars, writerVars, clockVars
  <2> QED
    BY <2>2, <2>3 DEF CursorInv
<1>7. ASSUME NEW unit \in Seq(Units(gen)), Put(unit, nal)
      PROVE  /\ au' \in Seq(Units(gen)) /\ au' # <<>> /\ Len(au') \in Nat
             /\ hasVCL' \in {0, 1}
  BY <1>5, <1>7, Gathered DEF Put
<1>8. ASSUME Put(<<>>, nal) \/ Put(au, nal) \/ UNCHANGED <<au, hasVCL>>, {ready', mediaReady'} \subseteq {0, 1},
             UNCHANGED <<pc, sps, pps, held, writerVars>>
      PROVE  CursorInv'
  <2>1. /\ au' \in Seq(Units(gen)) /\ Len(au') \in Nat /\ hasVCL' \in {0, 1}
        /\ hasVCL' = 1 => au' # <<>>
    <3>1. CASE Put(<<>>, nal)
      <4>1. <<>> \in Seq(Units(gen))
        OBVIOUS
      <4> QED
        BY <3>1, <4>1, <1>7
    <3>2. CASE Put(au, nal)
      BY <3>2, <1>5, <1>7
    <3>3. CASE UNCHANGED <<au, hasVCL>>
      BY <3>3, <1>1, <1>5 DEF Cursor, TypeOK
    <3> QED
      BY <1>8, <3>1, <3>2, <3>3
  <2>2. TypeOK'
    BY <1>1, <1>3, <1>4, <1>8, <2>1 DEF TypeOK, Units, unitVars, writerVars, clockVars, requestVars
  <2>3. Cursor'
    BY <1>1, <1>3, <1>4, <1>8, <2>1 DEF Cursor, writerVars, clockVars
  <2> QED
    BY <2>2, <2>3 DEF CursorInv
<1>9. CASE StartUp(nal)
  BY <1>1, <1>9, <1>8 DEF StartUp, TypeOK
<1>10. CASE Gather(nal)
  <2>1. CASE hasVCL = 1
    <3>1. /\ BeginUnit(nal) /\ UNCHANGED <<cacheVars, mediaReady>>
      BY <1>10, <2>1 DEF Gather
    <3>2. started' = 1 /\ timestamp' \in 0 .. TsModulus - 1
      BY <1>1, <3>1, Stamped DEF BeginUnit
    <3>3. held' = nal /\ nal \in [kind : Kinds \union {"none"}, gen : 0 .. gen, frame : 0 .. Gop - 1, size : Nat \ {0}]
      BY <1>2, <1>5, <3>1 DEF BeginUnit, Units
    <3>4. TypeOK'
      BY <1>1, <1>3, <1>4, <3>1, <3>2, <3>3 DEF TypeOK, BeginUnit, cacheVars, requestVars
    <3>5. Cursor'
      BY <1>1, <1>2, <1>3, <1>4, <2>1, <3>1 DEF Cursor, BeginUnit
    <3> QED
      BY <3>4, <3>5 DEF CursorInv
  <2>2. CASE hasVCL # 1
    BY <1>1, <1>10, <2>2, <1>8 DEF Gather, TypeOK, cacheVars
  <2> QED
    BY <2>1, <2>2
<1> QED
  BY <1>2, <1>6, <1>9, <1>10

\* A packet is sent.
LEMMA CursorSendPacket ==
  ASSUME CursorInv, SendPacket
  PROVE  CursorInv'
<1>1. TypeOK /\ Cursor /\ pc = "write" /\ index <= Len(au)
  BY DEF CursorInv, SendPacket
<1>2. /\ Nal \in Units(gen)
      /\ Fragment \in Nat \ {0}
      /\ Reassembled \in Nat
      /\ ~LastFragment => /\ Nal.size > Mtu
                          /\ offset + Fragment < Nal.size - 1
                          /\ Reassembled = 1 + offset + Fragment
  BY <1>1, Fragments
<1>3. /\ wire' = [seq |-> sequence, ts |-> timestamp, marker |-> Marker]
      /\ Marker \in {0, 1}
      /\ sequence' \in 0 .. SeqModulus - 1
      /\ UNCHANGED <<encoder, command, encoderVars, asked, pc, cacheVars, unitVars, clockVars,
                     failures, mediaReady, requestVars>>
  BY <1>1, Numbered DEF SendPacket, Marker
<1>4. /\ viewer' \in [sps : 0 .. gen, pps : 0 .. gen, gen : 0 .. gen, frame : 0 .. Gop - 1,
                      got : Nat, intact : {0, 1}]
      /\ ~LastFragment => viewer'.got = Reassembled
  <2> DEFINE trusted == IF Gap THEN 0 ELSE viewer.intact
  <2>1. /\ viewer \in [sps : 0 .. gen, pps : 0 .. gen, gen : 0 .. gen, frame : 0 .. Gop - 1,
                       got : Nat, intact : {0, 1}]
        /\ trusted \in {0, 1}
        /\ Nal.gen \in 0 .. gen /\ Nal.frame \in 0 .. Gop - 1
    <3>1. viewer \in [sps : 0 .. gen, pps : 0 .. gen, gen : 0 .. gen, frame : 0 .. Gop - 1,
                      got : Nat, intact : {0, 1}]
      BY <1>1 DEF TypeOK
    <3>2. Nal.gen \in 1 .. gen /\ Nal.frame \in 0 .. Gop - 1
      BY <1>2 DEF Units
    <3> QED
      BY <3>1, <3>2
  <2>2. CASE ~LastFragment
    <3>1. viewer' = [viewer EXCEPT !.got = Reassembled, !.intact = trusted]
      BY <2>2 DEF SendPacket, ViewerTakes
    <3> HIDE DEF trusted
    <3> QED
      BY <1>2, <2>1, <2>2, <3>1
  <2>3. CASE LastFragment
    <3> DEFINE intact == IF Nal.kind = "idr" THEN (IF Fits THEN 1 ELSE 0)
                         ELSE IF Nal.kind = "slice" /\ ~Fits THEN 0 ELSE trusted
               newSps == IF Nal.kind = "sps" THEN Nal.gen ELSE viewer.sps
               newPps == IF Nal.kind = "pps" THEN Nal.gen ELSE viewer.pps
               newGen == IF IsVCL(Nal) THEN Nal.gen ELSE viewer.gen
               newFrame == IF IsVCL(Nal) THEN Nal.frame ELSE viewer.frame
    <3>1. viewer' = [viewer EXCEPT !.got = 0, !.sps = newSps, !.pps = newPps, !.gen = newGen,
                                   !.frame = newFrame, !.intact = intact]
      BY <2>3 DEF SendPacket, ViewerTakes
    <3>2. /\ newSps \in 0 .. gen /\ newPps \in 0 .. gen /\ newGen \in 0 .. gen
          /\ newFrame \in 0 .. Gop - 1 /\ intact \in {0, 1}
      BY <2>1
    <3> HIDE DEF intact, newSps, newPps, newGen, newFrame, trusted
    <3> QED
      BY <2>1, <2>3, <3>1, <3>2
  <2> QED
    BY <2>2, <2>3
<1>5. /\ index' = IF LastFragment THEN index + 1 ELSE index
      /\ offset' = IF LastFragment THEN 0 ELSE offset + Fragment
  BY DEF SendPacket
<1>6. index' \in Nat \ {0} /\ offset' \in Nat
  BY <1>1, <1>2, <1>5 DEF TypeOK
<1>7. wire' \in [seq : 0 .. SeqModulus - 1, ts : 0 .. TsModulus - 1, marker : {0, 1}]
  BY <1>1, <1>3 DEF TypeOK
<1>8. TypeOK'
  BY <1>1, <1>3, <1>4, <1>6, <1>7
     DEF TypeOK, encoderVars, cacheVars, unitVars, clockVars, requestVars
<1>9. Cursor'
  <2>1. index' <= Len(au') + 1
    <3>1. au' = au /\ Len(au) \in Nat /\ index \in Nat
      BY <1>1, <1>3 DEF TypeOK, unitVars
    <3> QED
      BY <1>1, <1>5, <3>1
  <2>2. offset' > 0 => /\ index' <= Len(au')
                       /\ au'[index'].size > Mtu
                       /\ offset' < au'[index'].size - 1
                       /\ viewer'.got = 1 + offset'
    <3>1. CASE LastFragment
      BY <1>5, <3>1
    <3>2. CASE ~LastFragment
      BY <1>1, <1>2, <1>3, <1>4, <1>5, <3>2 DEF Nal, TypeOK, unitVars
    <3> QED
      BY <3>1, <3>2
  <2> QED
    BY <1>1, <1>3, <2>1, <2>2 DEF Cursor, unitVars, encoderVars
<1> QED
  BY <1>8, <1>9 DEF CursorInv

\* A unit is written, or given up: the cursor is back at the start, and the NAL unit
\* that was held begins the next unit.
LEMMA CursorGoOn ==
  ASSUME CursorInv, pc = "write", GoOn, UNCHANGED <<encoderVars, cacheVars, viewer>>
  PROVE  /\ au' \in Seq(Units(gen)) /\ hasVCL' \in {0, 1} /\ pc' \in {"next", "done"}
         /\ held' = NoNal
         /\ index' \in Nat \ {0} /\ offset' \in Nat
         /\ Cursor'
<1>1. TypeOK /\ Cursor
  BY DEF CursorInv
<1>2. gen \in Nat /\ sps \in 0 .. gen /\ pps \in 0 .. gen
  BY <1>1, CountAssumption DEF TypeOK
<1>3. index' = 1 /\ offset' = 0 /\ held' = NoNal /\ pc' \in {"next", "done"}
  BY DEF GoOn
<1>4. au' \in Seq(Units(gen)) /\ Len(au') \in Nat /\ hasVCL' \in {0, 1} /\ (hasVCL' = 1 => au' # <<>>)
  <2>1. CASE held = NoNal
    BY <2>1 DEF GoOn
  <2>2. CASE held # NoNal
    <3>1. held \in Units(gen) /\ Put(<<>>, held)
      BY <1>1, <2>2 DEF Cursor, GoOn
    <3>2. <<>> \in Seq(Units(gen))
      OBVIOUS
    <3> QED
      BY <1>2, <3>1, <3>2, Gathered DEF Put
  <2> QED
    BY <2>1, <2>2
<1>5. Cursor'
  BY <1>3, <1>4 DEF Cursor
<1> QED
  BY <1>3, <1>4, <1>5

\* A generation more keeps what is gathered.
LEMMA CursorRestart ==
  ASSUME CursorInv, Restart
  PROVE  CursorInv'
<1>1. TypeOK /\ Cursor
  BY DEF CursorInv
<1>2. /\ gen \in Nat /\ gen' = gen + 1 /\ gen' \in 1 .. MaxGen
      /\ stage' = "sps" /\ frame' \in 0 .. Gop - 1 /\ asked' = 0 /\ corrupt' \in {0, 1}
      /\ UNCHANGED <<encoder, command, pc, cacheVars, unitVars, writerVars, mediaReady, requestVars, viewer>>
  BY <1>1, CountAssumption DEF TypeOK, Restart
<1>3. Units(gen) \subseteq Units(gen')
  BY <1>2 DEF Units
<1>4. au' \in Seq(Units(gen'))
  <2>1. au \in Seq(Units(gen)) /\ au' = au
    BY <1>1, <1>2 DEF TypeOK, Units, unitVars
  <2> QED
    BY <2>1, <1>3, SeqMonotonic
<1>5. /\ held' \in [kind : Kinds \union {"none"}, gen : 0 .. gen', frame : 0 .. Gop - 1, size : Nat \ {0}]
      /\ viewer' \in [sps : 0 .. gen', pps : 0 .. gen', gen : 0 .. gen', frame : 0 .. Gop - 1,
                      got : Nat, intact : {0, 1}]
      /\ {sps', pps'} \subseteq 0 .. gen'
  <2>1. 0 .. gen \subseteq 0 .. gen'
    BY <1>2
  <2>2. held' = held /\ viewer' = viewer /\ sps' = sps /\ pps' = pps
    BY <1>2 DEF unitVars, cacheVars
  <2>3. /\ held \in [kind : Kinds \union {"none"}, gen : 0 .. gen, frame : 0 .. Gop - 1, size : Nat \ {0}]
        /\ viewer \in [sps : 0 .. gen, pps : 0 .. gen, gen : 0 .. gen, frame : 0 .. Gop - 1,
                       got : Nat, intact : {0, 1}]
        /\ {sps, pps} \subseteq 0 .. gen
    BY <1>1 DEF TypeOK
  <2> QED
    BY <2>1, <2>2, <2>3
<1>6. TypeOK'
  BY <1>1, <1>2, <1>4, <1>5
     DEF TypeOK, Units, cacheVars, unitVars, writerVars, clockVars, requestVars
<1>7. Cursor'
  BY <1>1, <1>2, <1>3 DEF Cursor, unitVars, writerVars
<1> QED
  BY <1>6, <1>7 DEF CursorInv

\* Every step keeps the types and the cursor.
LEMMA CursorStep ==
  CursorInv /\ [Next]_vars => CursorInv'
<1> SUFFICES ASSUME CursorInv, [Next]_vars PROVE CursorInv'
  OBVIOUS
<1>t. TypeOK /\ Cursor
  BY DEF CursorInv
<1>1. CASE Take
  BY <1>1, CursorTake
<1>2. CASE StreamEnds
  <2>1. UNCHANGED <<encoder, command, encoderVars, asked, cacheVars, mediaReady, requestVars, viewer>>
        /\ pc = "next"
    BY <1>2 DEF StreamEnds
  <2>2. CASE au = <<>>
    <3>1. pc' = "done" /\ UNCHANGED <<unitVars, writerVars>>
      BY <1>2, <2>2 DEF StreamEnds
    <3>2. TypeOK'
      BY <1>t, <2>1, <3>1
         DEF TypeOK, encoderVars, cacheVars, unitVars, writerVars, clockVars, requestVars
    <3>3. Cursor'
      BY <1>t, <2>1, <3>1 DEF Cursor, encoderVars, unitVars, writerVars
    <3> QED
      BY <3>2, <3>3 DEF CursorInv
  <2>3. CASE au # <<>>
    <3>1. BeginUnit(NoNal)
      BY <1>2, <2>3 DEF StreamEnds
    <3>2. started' = 1 /\ timestamp' \in 0 .. TsModulus - 1
      BY <1>t, <3>1, Stamped DEF BeginUnit
    <3>3. held' = NoNal
          /\ NoNal \in [kind : Kinds \union {"none"}, gen : 0 .. gen, frame : 0 .. Gop - 1, size : Nat \ {0}]
      <4>1. 0 \in 0 .. gen /\ 0 \in 0 .. Gop - 1
        BY <1>t, CountAssumption DEF TypeOK
      <4> QED
        BY <3>1, <4>1 DEF BeginUnit, NoNal
    <3>4. TypeOK'
      BY <1>t, <2>1, <3>1, <3>2, <3>3
         DEF TypeOK, BeginUnit, encoderVars, cacheVars, requestVars
    <3>5. Cursor'
      BY <1>t, <2>1, <2>3, <3>1 DEF Cursor, BeginUnit, encoderVars
    <3> QED
      BY <3>4, <3>5 DEF CursorInv
  <2> QED
    BY <2>2, <2>3
<1>3. CASE SendPacket
  BY <1>3, CursorSendPacket
<1>4. CASE FinishUnit
  <2>1. /\ pc = "write" /\ GoOn /\ lastTS' = timestamp
        /\ UNCHANGED <<encoder, command, encoderVars, asked, cacheVars, started, timestamp,
                       sequence, failures, wire, mediaReady, requestVars, viewer>>
    BY <1>4 DEF FinishUnit
  <2>2. /\ au' \in Seq(Units(gen)) /\ hasVCL' \in {0, 1} /\ pc' \in {"next", "done"}
        /\ held' = NoNal /\ index' \in Nat \ {0} /\ offset' \in Nat /\ Cursor'
    BY <2>1, CursorGoOn
  <2>3. held' \in [kind : Kinds \union {"none"}, gen : 0 .. gen, frame : 0 .. Gop - 1, size : Nat \ {0}]
    BY <2>2, <1>t, CountAssumption DEF TypeOK, NoNal
  <2>4. TypeOK'
    BY <1>t, <2>1, <2>2, <2>3 DEF TypeOK, Units, encoderVars, cacheVars, requestVars
  <2> QED
    BY <2>2, <2>4 DEF CursorInv
<1>5. CASE WriteFails
  <2>1. /\ pc = "write" /\ GoOn /\ failures < MaxFailures /\ failures' = failures + 1
        /\ sequence' \in 0 .. SeqModulus - 1
        /\ UNCHANGED <<encoder, command, encoderVars, asked, cacheVars, clockVars,
                       wire, mediaReady, requestVars, viewer>>
    BY <1>5, <1>t, Numbered DEF WriteFails
  <2>2. /\ au' \in Seq(Units(gen)) /\ hasVCL' \in {0, 1} /\ pc' \in {"next", "done"}
        /\ held' = NoNal /\ index' \in Nat \ {0} /\ offset' \in Nat /\ Cursor'
    BY <2>1, CursorGoOn
  <2>3. held' \in [kind : Kinds \union {"none"}, gen : 0 .. gen, frame : 0 .. Gop - 1, size : Nat \ {0}]
    BY <2>2, <1>t, CountAssumption DEF TypeOK, NoNal
  <2>4. failures' \in 0 .. MaxFailures
    BY <1>t, <2>1, CountAssumption DEF TypeOK
  <2>5. TypeOK'
    BY <1>t, <2>1, <2>2, <2>3, <2>4 DEF TypeOK, Units, encoderVars, cacheVars, clockVars, requestVars
  <2> QED
    BY <2>2, <2>5 DEF CursorInv
<1>6. CASE Lose
  <2>1. /\ viewer' = [viewer EXCEPT !.intact = 0]
        /\ UNCHANGED <<encoder, command, encoderVars, asked, pc, cacheVars, unitVars, writerVars,
                       mediaReady, requestVars>>
    BY <1>6 DEF Lose
  <2>2. viewer'.got = viewer.got
        /\ viewer' \in [sps : 0 .. gen, pps : 0 .. gen, gen : 0 .. gen, frame : 0 .. Gop - 1,
                        got : Nat, intact : {0, 1}]
    BY <1>t, <2>1 DEF TypeOK
  <2>3. TypeOK'
    BY <1>t, <2>1, <2>2
       DEF TypeOK, encoderVars, cacheVars, unitVars, writerVars, clockVars, requestVars
  <2>4. Cursor'
    BY <1>t, <2>1, <2>2 DEF Cursor, encoderVars, unitVars, writerVars
  <2> QED
    BY <2>3, <2>4 DEF CursorInv
<1>7. CASE Restart
  BY <1>7, CursorRestart
<1>8. ASSUME command' \in {"running", "ended"}, {asked', mediaReady'} \subseteq {0, 1},
             pc' = pc \/ (pc = "next" /\ pc' = "done"),
             sinceIdr' \in 0 .. IdrPause, sinceActivity' \in 0 .. ActivityPause,
             UNCHANGED <<encoder, encoderVars, cacheVars, unitVars, writerVars, viewer>>
      PROVE  CursorInv'
  <2>1. TypeOK'
    BY <1>t, <1>8 DEF TypeOK, encoderVars, cacheVars, unitVars, writerVars, clockVars
  <2>2. Cursor'
    BY <1>t, <1>8 DEF Cursor, encoderVars, unitVars, writerVars
  <2> QED
    BY <2>1, <2>2 DEF CursorInv
<1>9. CASE Quit
  BY <1>t, <1>9, <1>8 DEF Quit, TypeOK, requestVars
<1>10. CASE CommandEnds
  BY <1>t, <1>10, <1>8 DEF CommandEnds, TypeOK, requestVars
<1>11. CASE RequestIdr
  <2>1. 0 \in 0 .. IdrPause
    BY ClockAssumption
  <2> QED
    BY <1>t, <1>11, <1>8, <2>1 DEF RequestIdr, Signal, TypeOK
<1>12. CASE RequestActiveFps
  <2>1. 0 \in 0 .. ActivityPause
    BY ClockAssumption
  <2> QED
    BY <1>t, <1>12, <1>8, <2>1 DEF RequestActiveFps, Signal, TypeOK
<1>13. CASE Tick
  <2>1. sinceIdr' \in 0 .. IdrPause /\ sinceActivity' \in 0 .. ActivityPause
    <3>1. /\ IdrPause \in Nat /\ ActivityPause \in Nat
          /\ sinceIdr \in 0 .. IdrPause /\ sinceActivity \in 0 .. ActivityPause
      BY <1>t, ClockAssumption DEF TypeOK
    <3>2. /\ sinceIdr' = IF sinceIdr < IdrPause THEN sinceIdr + 1 ELSE sinceIdr
          /\ sinceActivity' = IF sinceActivity < ActivityPause THEN sinceActivity + 1 ELSE sinceActivity
      BY <1>13 DEF Tick
    <3> QED
      BY <3>1, <3>2
  <2> QED
    BY <1>t, <1>13, <1>8, <2>1 DEF Tick, TypeOK
<1>14. CASE UNCHANGED vars
  BY <1>t, <1>14, <1>8 DEF vars, TypeOK, requestVars
<1> QED
  BY <1>1, <1>2, <1>3, <1>4, <1>5, <1>6, <1>7, <1>9, <1>10, <1>11, <1>12, <1>13, <1>14
     DEF Next, Forward

\* The variables keep their types; above all, the RTP clock and the sequence number
\* wrap around where Go's do.
THEOREM TypeCorrect == Spec => []TypeOK
<1>1. CursorInv => TypeOK
  BY DEF CursorInv
<1> QED
  BY <1>1, CursorInit, CursorStep, PTL DEF Spec

\* Whatever the mtu and the length of a slice: no fragment is empty or longer than
\* the mtu, none is alone, and together they have the length of the NAL unit.
THEOREM FragmentsAreWhole == Spec => FragmentsRebuild
<1>1. CursorInv /\ [Next]_vars =>
        [wire' # wire => /\ Fragment > 0
                         /\ Fragment + (IF Whole THEN 0 ELSE 2) <= Mtu
                         /\ ~Whole /\ LastFragment => offset > 0
                         /\ LastFragment => Reassembled = Nal.size]_vars
  <2> SUFFICES ASSUME CursorInv, [Next]_vars, wire' # wire
               PROVE  /\ Fragment > 0
                      /\ Fragment + (IF Whole THEN 0 ELSE 2) <= Mtu
                      /\ ~Whole /\ LastFragment => offset > 0
                      /\ LastFragment => Reassembled = Nal.size
    OBVIOUS
  <2>1. SendPacket
    BY OnlySendPacket
  <2> QED
    BY <2>1, Fragments DEF SendPacket
<1> QED
  BY <1>1, CursorInit, CursorStep, PTL DEF Spec, FragmentsRebuild

-------------------------------------------------------------------------------
(* What tells access units apart. *)

\* Only the last NAL unit of an access unit is a picture.
Pictures ==
  /\ hasVCL = 0 => \A i \in 1 .. Len(au) : ~IsVCL(au[i])
  /\ \A i \in 1 .. Len(au) - 1 : ~IsVCL(au[i])

\* Each failed write puts the sequence number one further ahead of the wire.
Ahead ==
  \E k \in 0 .. failures :
    sequence = wire.seq + 1 + k \/ sequence = wire.seq + 1 + k - SeqModulus

\* The last packet and the clock, where no packet is missing.
Between == wire.marker = 1 /\ (IF started = 1 THEN lastTS = wire.ts ELSE lastTS # wire.ts)
Within ==
  /\ started = 1
  /\ index = 1 /\ offset = 0 => wire.marker = 1 /\ timestamp # wire.ts
  /\ index > 1 \/ offset > 0 => /\ timestamp = wire.ts
                                /\ wire.marker = IF index > Len(au) THEN 1 ELSE 0
Clock == ~Gap => IF pc = "write" THEN Within ELSE Between

\* The first unit has started the clock.
Begun == pc = "write" => started = 1

ClockInv == CursorInv /\ Pictures /\ Ahead /\ Clock /\ Begun

\* Putting a NAL unit into a unit without a picture leaves at most one, at the end.
LEMMA PutPictures ==
  ASSUME TypeOK, NEW unit \in Seq(Units(gen)), NEW nal \in Units(gen), Put(unit, nal),
         \A i \in 1 .. Len(unit) : ~IsVCL(unit[i])
  PROVE  Pictures'
<1>1. gen \in Nat /\ sps \in 0 .. gen /\ pps \in 0 .. gen
  BY CountAssumption DEF TypeOK
<1>2. /\ au' \in Seq(Units(gen))
      /\ Len(au') \in Nat /\ Len(au') > Len(unit)
      /\ au'[Len(au')] = nal
      /\ \A i \in 1 .. Len(unit) : au'[i] = unit[i]
      /\ \A i \in Len(unit) + 1 .. Len(au') - 1 : ~IsVCL(au'[i])
  BY <1>1, Gathered DEF Put
<1>3. hasVCL' = 0 => ~IsVCL(nal)
  BY DEF Put
<1>4. Len(unit) \in Nat
  BY LenProperties
<1>5. ASSUME NEW i \in 1 .. Len(au') - 1 PROVE ~IsVCL(au'[i])
  <2>1. CASE i \in 1 .. Len(unit)
    BY <1>2, <2>1
  <2>2. CASE i \in Len(unit) + 1 .. Len(au') - 1
    BY <1>2, <2>2
  <2> QED
    BY <1>2, <1>4, <2>1, <2>2
<1>6. ASSUME hasVCL' = 0, NEW i \in 1 .. Len(au') PROVE ~IsVCL(au'[i])
  <2>1. CASE i = Len(au')
    BY <1>2, <1>3, <1>6, <2>1
  <2>2. CASE i # Len(au')
    <3>1. i \in 1 .. Len(au') - 1
      BY <1>2, <2>2
    <3> QED
      BY <3>1, <1>5
  <2> QED
    BY <2>1, <2>2
<1> QED
  BY <1>5, <1>6 DEF Pictures, IsVCL

\* A new unit begins with what was held, or with nothing.
LEMMA GoOnPictures ==
  ASSUME CursorInv, GoOn
  PROVE  Pictures'
<1>1. CASE held = NoNal
  BY <1>1 DEF GoOn, Pictures
<1>2. CASE held # NoNal
  <2>1. held \in Units(gen) /\ Put(<<>>, held) /\ TypeOK
    BY <1>2 DEF GoOn, CursorInv, Cursor
  <2>2. <<>> \in Seq(Units(gen)) /\ \A i \in 1 .. Len(<<>>) : ~IsVCL(<<>>[i])
    OBVIOUS
  <2> QED
    BY <2>1, <2>2, PutPictures
<1> QED
  BY <1>1, <1>2

\* Every step keeps the pictures at the end.
LEMMA PicturesStep ==
  CursorInv /\ Pictures /\ [Next]_vars => Pictures'
<1> SUFFICES ASSUME CursorInv, Pictures, [Next]_vars PROVE Pictures'
  OBVIOUS
<1>t. TypeOK /\ au \in Seq(Units(gen))
  BY DEF CursorInv, TypeOK, Units
<1>1. ASSUME UNCHANGED <<au, hasVCL>> PROVE Pictures'
  BY <1>1 DEF Pictures
<1>2. CASE Take
  <2>1. PICK nal \in Units(gen) :
          Emits(nal) /\ (Cache(nal) \/ StartUp(nal) \/ Gather(nal)) /\ nal # NoNal
    BY <1>t, <1>2, Taken
  <2>2. CASE Cache(nal)
    BY <2>2, <1>1 DEF Cache, unitVars
  <2>3. CASE StartUp(nal)
    <3>1. CASE Put(<<>>, nal)
      <4>1. <<>> \in Seq(Units(gen)) /\ \A i \in 1 .. Len(<<>>) : ~IsVCL(<<>>[i])
        OBVIOUS
      <4> QED
        BY <3>1, <4>1, <1>t, PutPictures
    <3> QED
      BY <2>3, <3>1, <1>1 DEF StartUp
  <2>4. CASE Gather(nal)
    <3>1. CASE hasVCL = 1
      BY <2>4, <3>1, <1>1 DEF Gather, BeginUnit
    <3>2. CASE hasVCL # 1
      <4>1. hasVCL = 0 /\ Put(au, nal)
        BY <1>t, <2>4, <3>2 DEF Gather, TypeOK
      <4> QED
        BY <1>t, <4>1, PutPictures DEF Pictures
    <3> QED
      BY <3>1, <3>2
  <2> QED
    BY <2>1, <2>2, <2>3, <2>4
<1>3. CASE FinishUnit \/ WriteFails
  BY <1>3, GoOnPictures DEF FinishUnit, WriteFails
<1>4. CASE StreamEnds
  BY <1>4, <1>1 DEF StreamEnds, BeginUnit, unitVars
<1>5. CASE SendPacket
  BY <1>5, <1>1 DEF SendPacket, unitVars
<1>6. CASE Quit \/ Lose \/ Restart \/ CommandEnds
  BY <1>6, <1>1 DEF Quit, Lose, Restart, CommandEnds, unitVars
<1>7. CASE RequestIdr \/ RequestActiveFps \/ Tick \/ UNCHANGED vars
  BY <1>7, <1>1 DEF RequestIdr, RequestActiveFps, Tick, vars, unitVars
<1> QED
  BY <1>2, <1>3, <1>4, <1>5, <1>6, <1>7 DEF Next, Forward

\* A gap is a sequence number that is not the next one.
LEMMA GapIs ==
  ASSUME TypeOK
  PROVE  /\ wire.seq \in 0 .. SeqModulus - 1
         /\ Gap <=> sequence # IF wire.seq + 1 < SeqModulus THEN wire.seq + 1 ELSE wire.seq + 1 - SeqModulus
<1>1. wire.seq \in 0 .. SeqModulus - 1 /\ SeqModulus \in Nat \ {0} /\ 1 \in 0 .. SeqModulus - 1
  BY ClockAssumption, CountAssumption DEF TypeOK
<1>2. (wire.seq + 1) % SeqModulus = IF wire.seq + 1 < SeqModulus THEN wire.seq + 1
                                    ELSE wire.seq + 1 - SeqModulus
  BY <1>1, Successor, Zenon
<1> QED
  BY <1>1, <1>2 DEF Gap

\* A failed write leaves a gap, as there are fewer of them than sequence numbers.
LEMMA FailureIsGap ==
  ASSUME TypeOK, TypeOK', Ahead, WriteFails
  PROVE  Ahead' /\ Gap'
<1>1. PICK k \in 0 .. failures :
        sequence = wire.seq + 1 + k \/ sequence = wire.seq + 1 + k - SeqModulus
  BY DEF Ahead
<1>2. /\ failures \in Nat /\ failures + 1 <= MaxFailures /\ failures' = failures + 1
      /\ wire' = wire /\ MaxFailures \in Nat /\ SeqModulus \in Nat /\ SeqModulus > MaxFailures + 1
      /\ sequence' = (sequence + 1) % SeqModulus
      /\ sequence \in 0 .. SeqModulus - 1
  BY CountAssumption, ClockAssumption DEF TypeOK, WriteFails
<1>3. wire.seq \in 0 .. SeqModulus - 1
  BY GapIs
<1>4. sequence' = sequence + 1 \/ sequence' = sequence + 1 - SeqModulus
  BY <1>2, Numbered
<1>5. sequence' \in 0 .. SeqModulus - 1
  BY DEF TypeOK
<1>6. k + 1 \in 0 .. failures'
  BY <1>2
<1>7. sequence' = wire.seq + 1 + (k + 1) \/ sequence' = wire.seq + 1 + (k + 1) - SeqModulus
  <2>1. k \in Nat /\ k < SeqModulus - 2
    BY <1>2
  <2>2. CASE sequence = wire.seq + 1 + k
    BY <1>2, <1>3, <1>4, <2>1, <2>2
  <2>3. CASE sequence = wire.seq + 1 + k - SeqModulus
    <3>1. sequence < SeqModulus - 1
      BY <1>2, <1>3, <2>1, <2>3
    <3>2. sequence' = sequence + 1
      BY <1>2, <1>4, <1>5, <3>1
    <3> QED
      BY <1>2, <1>3, <2>1, <2>3, <3>2
  <2> QED
    BY <1>1, <2>2, <2>3
<1>8. Ahead'
  BY <1>2, <1>6, <1>7 DEF Ahead
<1>9. sequence' # wire.seq + 1 /\ sequence' # wire.seq + 1 - SeqModulus
  BY <1>1, <1>2, <1>3, <1>5, <1>7
<1>10. (wire.seq + 1) % SeqModulus = wire.seq + 1 \/ (wire.seq + 1) % SeqModulus = wire.seq + 1 - SeqModulus
  <2>1. SeqModulus \in Nat \ {0} /\ 1 \in 0 .. SeqModulus - 1
    BY <1>2
  <2> QED
    BY <1>3, <2>1, Successor, Zenon
<1>11. Gap'
  BY <1>2, <1>9, <1>10 DEF Gap
<1> QED
  BY <1>8, <1>11

\* A packet that is sent closes the gap, and moves the writer on.
LEMMA SentIsNext ==
  ASSUME CursorInv, CursorInv', Begun, SendPacket
  PROVE  Ahead' /\ Clock'
<1>1. TypeOK /\ Cursor /\ TypeOK' /\ Cursor'
  BY DEF CursorInv
<1>2. /\ wire'.seq = sequence /\ wire'.ts = timestamp /\ wire'.marker = Marker
      /\ sequence' = (sequence + 1) % SeqModulus
      /\ index <= Len(au) /\ pc = "write" /\ pc' = pc /\ au' = au /\ UNCHANGED clockVars
      /\ index' = IF LastFragment THEN index + 1 ELSE index
      /\ offset' = IF LastFragment THEN 0 ELSE offset + Fragment
      /\ failures' = failures
  BY DEF SendPacket, unitVars
<1>3. Ahead'
  <2>1. sequence' = sequence + 1 \/ sequence' = sequence + 1 - SeqModulus
    BY <1>1, <1>2, Numbered
  <2>2. 0 \in 0 .. failures' /\ sequence \in Int /\ SeqModulus \in Int
    BY <1>1, <1>2, ClockAssumption, CountAssumption DEF TypeOK
  <2>3. sequence' = wire'.seq + 1 + 0 \/ sequence' = wire'.seq + 1 + 0 - SeqModulus
    BY <1>2, <2>1, <2>2
  <2> QED
    BY <2>2, <2>3 DEF Ahead
<1>4. Len(au) \in Nat /\ index \in Nat \ {0} /\ offset \in Nat /\ Fragment \in Nat \ {0}
  BY <1>1, Fragments, <1>2 DEF TypeOK
<1>5. index' > 1 \/ offset' > 0
  BY <1>2, <1>4
<1>6. wire'.marker = IF index' > Len(au') THEN 1 ELSE 0
  BY <1>2, <1>4 DEF Marker
<1>7. started' = 1 /\ timestamp' = wire'.ts
  BY <1>2 DEF clockVars, Begun
<1>8. index' \in Nat /\ offset' \in Nat
  BY <1>1 DEF TypeOK
<1>9. Within'
  BY <1>5, <1>6, <1>7, <1>8 DEF Within
<1> QED
  BY <1>2, <1>3, <1>9 DEF Clock

\* A unit begins with a timestamp that differs from the last one sent.
LEMMA BegunIsNew ==
  ASSUME CursorInv, pc # "write", Clock, Stamp, pc' = "write",
         UNCHANGED <<index, offset, lastTS, sequence, wire>>
  PROVE  Clock'
<1>1. TypeOK /\ index = 1 /\ offset = 0
  BY DEF CursorInv, Cursor
<1>2. /\ started' = 1
      /\ started = 1 => timestamp' # lastTS
      /\ started = 0 => timestamp' = lastTS
  BY <1>1, Stamped
<1>3. Gap' <=> Gap
  BY DEF Gap
<1>4. started \in {0, 1}
  BY <1>1 DEF TypeOK
<1>5. Between => wire'.marker = 1 /\ timestamp' # wire'.ts
  BY <1>2, <1>4 DEF Between
<1>6. index' = 1 /\ offset' = 0 /\ ~(index' > 1 \/ offset' > 0)
  BY <1>1
<1>7. Between => Within'
  BY <1>2, <1>5, <1>6 DEF Within
<1> QED
  BY <1>3, <1>7 DEF Clock

\* Every step keeps the order of packets, timestamps and markers.
LEMMA ClockStep ==
  ClockInv /\ [Next]_vars => Ahead' /\ Clock' /\ Begun'
<1> SUFFICES ASSUME ClockInv, [Next]_vars PROVE Ahead' /\ Clock' /\ Begun'
  OBVIOUS
<1>t. CursorInv /\ CursorInv' /\ TypeOK /\ TypeOK' /\ Cursor /\ Ahead /\ Clock /\ Begun
  <2>1. CursorInv /\ CursorInv'
    BY CursorStep DEF ClockInv
  <2> QED
    BY <2>1 DEF CursorInv, ClockInv
<1>1. ASSUME UNCHANGED <<wire, sequence, failures>> PROVE Ahead' /\ (Gap' <=> Gap)
  BY <1>t, <1>1 DEF Ahead, Gap
<1>2. ASSUME UNCHANGED <<wire, sequence, failures, clockVars>>,
             \/ pc' = pc /\ UNCHANGED <<au, index, offset>>
             \/ pc # "write" /\ pc' # "write"
      PROVE  Ahead' /\ Clock' /\ Begun'
  <2>1. Ahead' /\ (Gap' <=> Gap)
    BY <1>1, <1>2
  <2>2. Between => Between'
    BY <1>2 DEF Between, clockVars
  <2>3. CASE pc' = pc /\ UNCHANGED <<au, index, offset>>
    <3>1. Within => Within'
      BY <1>2, <2>3 DEF Within, clockVars
    <3> QED
      BY <1>t, <1>2, <2>1, <2>2, <2>3, <3>1 DEF Clock, Begun, clockVars
  <2>4. CASE pc # "write" /\ pc' # "write"
    BY <1>t, <2>1, <2>2, <2>4 DEF Clock, Begun
  <2> QED
    BY <1>2, <2>3, <2>4
<1>3. CASE Take
  <2>1. PICK nal \in Units(gen) :
          Emits(nal) /\ (Cache(nal) \/ StartUp(nal) \/ Gather(nal)) /\ nal # NoNal
    BY <1>t, <1>3, Taken
  <2>2. pc = "next"
    BY <1>3 DEF Take
  <2>3. CASE Cache(nal) \/ StartUp(nal) \/ (Gather(nal) /\ hasVCL # 1)
    BY <2>2, <2>3, <1>2 DEF Cache, StartUp, Gather, writerVars
  <2>4. CASE Gather(nal) /\ hasVCL = 1
    <3>1. /\ Stamp /\ pc' = "write"
          /\ UNCHANGED <<index, offset, lastTS, sequence, failures, wire>>
      BY <2>4 DEF Gather, BeginUnit
    <3>2. Ahead' /\ started' = 1
      BY <1>t, <1>1, <3>1, Stamped
    <3> QED
      BY <1>t, <2>2, <3>1, <3>2, BegunIsNew DEF Begun
  <2> QED
    BY <2>1, <2>3, <2>4
<1>4. CASE StreamEnds
  <2>1. CASE au = <<>>
    BY <1>4, <2>1, <1>2 DEF StreamEnds, writerVars
  <2>2. CASE au # <<>>
    <3>1. /\ Stamp /\ pc = "next" /\ pc' = "write"
          /\ UNCHANGED <<index, offset, lastTS, sequence, failures, wire>>
      BY <1>4, <2>2 DEF StreamEnds, BeginUnit
    <3>2. Ahead' /\ started' = 1
      BY <1>t, <1>1, <3>1, Stamped
    <3> QED
      BY <1>t, <3>1, <3>2, BegunIsNew DEF Begun
  <2> QED
    BY <2>1, <2>2
<1>5. CASE SendPacket
  <2>1. pc = "write" /\ started' = started
    BY <1>5 DEF SendPacket, clockVars
  <2> QED
    BY <1>t, <1>5, <2>1, SentIsNext DEF Begun
<1>6. CASE FinishUnit
  <2>1. /\ pc = "write" /\ index > Len(au) /\ lastTS' = timestamp
        /\ pc' # "write"
        /\ UNCHANGED <<started, sequence, failures, wire>>
    BY <1>6 DEF FinishUnit, GoOn
  <2>2. Ahead' /\ (Gap' <=> Gap)
    BY <1>1, <2>1
  <2>3. index > 1
    <3>1. Len(au) \in Nat \ {0} /\ index \in Nat
      BY <1>t, <2>1, EmptySeq DEF TypeOK, Cursor
    <3> QED
      BY <2>1, <3>1
  <2>4. Within => Between'
    BY <2>1, <2>3 DEF Within, Between
  <2> QED
    BY <1>t, <2>1, <2>2, <2>4 DEF Clock, Begun
<1>7. CASE WriteFails
  <2>1. Ahead' /\ Gap'
    BY <1>t, <1>7, FailureIsGap
  <2>2. pc' # "write"
    BY <1>7 DEF WriteFails, GoOn
  <2> QED
    BY <2>1, <2>2 DEF Clock, Begun
<1>8. CASE Quit \/ Lose \/ Restart \/ CommandEnds
  BY <1>8, <1>2 DEF Quit, Lose, Restart, CommandEnds, unitVars, writerVars
<1>9. CASE RequestIdr \/ RequestActiveFps \/ Tick \/ UNCHANGED vars
  BY <1>9, <1>2 DEF RequestIdr, RequestActiveFps, Tick, vars, unitVars, writerVars
<1> QED
  BY <1>3, <1>4, <1>5, <1>6, <1>7, <1>8, <1>9 DEF Next, Forward

\* The start: the wire stands for a last packet with the number before the first.
LEMMA ClockInit ==
  Init => ClockInv
<1> SUFFICES ASSUME Init PROVE ClockInv
  OBVIOUS
<1>1. CursorInv
  BY CursorInit
<1>2. Pictures
  BY DEF Init, Pictures
<1>3. /\ wire.seq = SeqModulus - 1 /\ wire.ts = TsModulus - 1 /\ wire.marker = 1
      /\ sequence = 0 /\ failures = 0 /\ started = 0 /\ lastTS = 0 /\ pc = "next"
  BY DEF Init
<1>4. Ahead
  <2>1. sequence = wire.seq + 1 + 0 - SeqModulus
    BY <1>3, ClockAssumption
  <2>2. 0 \in 0 .. failures
    BY <1>3
  <2> QED
    BY <2>1, <2>2 DEF Ahead
<1>5. Between
  BY <1>3, ClockAssumption DEF Between
<1> QED
  BY <1>1, <1>2, <1>3, <1>4, <1>5 DEF ClockInv, Clock, Begun

\* Also across failed writes, where no packet is missing the timestamp changes
\* exactly after a marker, and the last packet of a picture has one.
THEOREM UnitsAreToldApart == Spec => UnitsTellApart
<1> DEFINE Told == /\ ~Gap => (wire'.ts # wire.ts <=> wire.marker = 1)
                   /\ LastFragment /\ IsVCL(Nal) => wire'.marker = 1
<1>1. Init => ClockInv
  BY ClockInit
<1>2. ClockInv /\ [Next]_vars => ClockInv'
  BY CursorStep, PicturesStep, ClockStep DEF ClockInv
<1>3. ClockInv /\ [Next]_vars => [wire' # wire => Told]_vars
  <2> SUFFICES ASSUME ClockInv, [Next]_vars, wire' # wire PROVE Told
    OBVIOUS
  <2>1. SendPacket
    BY OnlySendPacket
  <2>2. /\ wire'.ts = timestamp /\ wire'.marker = Marker /\ pc = "write" /\ index <= Len(au)
        /\ TypeOK /\ Clock /\ Pictures
    BY <2>1 DEF SendPacket, ClockInv, CursorInv
  <2>3. index \in Nat \ {0} /\ offset \in Nat /\ Len(au) \in Nat
    BY <2>2 DEF TypeOK
  <2>4. ASSUME ~Gap PROVE wire'.ts # wire.ts <=> wire.marker = 1
    <3>1. Within
      BY <2>2, <2>4 DEF Clock
    <3>2. CASE index = 1 /\ offset = 0
      BY <2>2, <3>1, <3>2 DEF Within
    <3>3. CASE index > 1 \/ offset > 0
      BY <2>2, <2>3, <3>1, <3>3 DEF Within
    <3> QED
      BY <2>3, <3>2, <3>3
  <2>5. ASSUME LastFragment, IsVCL(Nal) PROVE wire'.marker = 1
    <3>1. index = Len(au)
      <4>1. index \notin 1 .. Len(au) - 1
        BY <2>2, <2>5 DEF Pictures, Nal
      <4> QED
        BY <4>1, <2>2, <2>3
    <3> QED
      BY <2>2, <2>5, <3>1 DEF Marker
  <2> QED
    BY <2>4, <2>5
<1>4. UnitsTellApart <=> [][wire' # wire => Told]_vars
  BY DEF UnitsTellApart
<1> HIDE DEF Told
<1> QED
  BY <1>1, <1>2, <1>3, <1>4, PTL DEF Spec

-------------------------------------------------------------------------------
(* What a decoder needs. *)

\* An encoder that can start again sends no unusable parameter sets.
RestartsAreClean == "native" \in Corruptible => MaxGen = 1

\* The forwarder has the parameter sets of an encoder that is past them, and after
\* a restart it has no others by the time of the first IDR.
Fresh ==
  /\ corrupt = 1 => encoder \in Corruptible
  /\ ready = 1 => sps # 0 /\ pps # 0
  /\ gen > 1 => /\ encoder = "native"
                /\ stage # "sps" => sps = gen
                /\ stage \notin {"sps", "pps"} => pps = gen

Last == au[Len(au)]

\* A slice follows picture f of generation g when it is the next one of that
\* generation; an IDR or SEI follows anything.
Follows(nal, g, f) == nal.kind = "slice" => nal.gen = g /\ nal.frame = (f + 1) % Gop

\* In a unit an IDR comes last, right after the parameter sets of its generation,
\* and nothing but an IDR brings parameter sets.
Dressed ==
  /\ hasVCL = 1 => au # <<>> /\ IsVCL(Last)
  /\ \A i \in 1 .. Len(au) :
       /\ au[i].kind = "idr" => /\ i > 2
                                /\ au[i - 2].kind = "sps" /\ au[i - 2].gen = au[i].gen
                                /\ au[i - 1].kind = "pps" /\ au[i - 1].gen = au[i].gen
       /\ au[i].kind = "sps" => i = Len(au) - 2 /\ Last.kind = "idr"
       /\ au[i].kind = "pps" => i = Len(au) - 1 /\ Last.kind = "idr"

\* What is held while a unit is written follows the picture of that unit, and the
\* parameter sets for it are still in the cache.
HeldNext ==
  /\ pc # "write" => held = NoNal
  /\ held # NoNal => hasVCL = 1 /\ Follows(held, Last.gen, Last.frame)
  /\ held # NoNal => held.kind \in {"sei", "idr", "slice"}
  /\ held.kind = "idr" => sps = held.gen /\ pps = held.gen

\* Nothing is missing between the viewer and the writer.
Chained == ~Gap /\ viewer.intact = 1

\* The last picture of the encoder is the last one held, gathered or, with nothing
\* lost since, shown.
LatestIs(g, f) ==
  IF held.kind \in {"idr", "slice"} THEN held.gen = g /\ held.frame = f
  ELSE IF hasVCL = 1 THEN Last.gen = g /\ Last.frame = f
  ELSE Chained => viewer.gen = g /\ viewer.frame = f

EncoderNext == ready = 1 /\ stage \in {"run", "picture"} => LatestIs(gen, frame)

\* The picture of the unit follows the one the viewer has, and is it at the end.
WriterNext ==
  Chained /\ hasVCL = 1 =>
    IF index > Len(au) THEN viewer.gen = Last.gen /\ viewer.frame = Last.frame
    ELSE Follows(Last, viewer.gen, viewer.frame)

\* The viewer has the parameter sets of the pictures it shows, or while the writer
\* is between them and their IDR, those of the IDR.
Dressing == hasVCL = 1 /\ Last.kind = "idr" /\ index \in {Len(au) - 1, Len(au)}

ViewerSets ==
  /\ Dressing => viewer.sps = Last.gen /\ (index = Len(au) => viewer.pps = Last.gen)
  /\ Chained /\ ~Dressing => viewer.sps = viewer.gen /\ viewer.pps = viewer.gen

PictureInv == ClockInv /\ Fresh /\ Dressed /\ HeldNext /\ EncoderNext /\ WriterNext /\ ViewerSets

\* What exactly is put into a unit.
LEMMA Composed ==
  ASSUME NEW g \in Nat, NEW unit \in Seq(Units(g)), NEW nal \in Units(g),
         sps \in 0 .. g, pps \in 0 .. g
  PROVE  LET longer == WithParameterSets(unit, nal)
             n == Len(unit)
         IN  /\ \A i \in 1 .. n : longer[i] = unit[i]
             /\ IF nal.kind = "idr" /\ sps # 0 /\ pps # 0
                  THEN /\ Len(longer) = n + 3 /\ longer[n + 3] = nal
                       /\ longer[n + 1] = [kind |-> "sps", gen |-> sps, frame |-> 0, size |-> 1]
                       /\ longer[n + 2] = [kind |-> "pps", gen |-> pps, frame |-> 0, size |-> 1]
                  ELSE Len(longer) = n + 1 /\ longer[n + 1] = nal
<1> DEFINE longer == WithParameterSets(unit, nal)
           n == Len(unit)
           setS == [kind |-> "sps", gen |-> sps, frame |-> 0, size |-> 1]
           setP == [kind |-> "pps", gen |-> pps, frame |-> 0, size |-> 1]
<1>0. n \in Nat
  BY LenProperties
<1>1. CASE nal.kind = "idr" /\ sps # 0 /\ pps # 0
  <2>1. longer = (unit \o ParameterSets) \o <<nal>>
    BY <1>1 DEF WithParameterSets
  <2>2. setS \in Units(g) /\ setP \in Units(g)
    BY <1>1, CountAssumption DEF Units, Kinds
  <2>3. /\ ParameterSets \in Seq(Units(g)) /\ Len(ParameterSets) = 2
        /\ ParameterSets[1] = setS /\ ParameterSets[2] = setP
    BY <2>2 DEF ParameterSets
  <2> DEFINE both == unit \o ParameterSets
  <2> HIDE DEF setS, setP, longer
  <2>4. /\ both \in Seq(Units(g)) /\ Len(both) = n + 2
        /\ \A i \in 1 .. n + 2 : both[i] = IF i <= n THEN unit[i] ELSE ParameterSets[i - n]
    <3>1. /\ both \in Seq(Units(g)) /\ Len(both) = Len(unit) + Len(ParameterSets)
          /\ \A i \in 1 .. Len(unit) + Len(ParameterSets) :
               both[i] = IF i <= Len(unit) THEN unit[i] ELSE ParameterSets[i - Len(unit)]
      BY <2>3, ConcatProperties
    <3> HIDE DEF both
    <3> QED
      BY <2>3, <3>1
  <2> HIDE DEF both
  <2>5. <<nal>> \in Seq(Units(g)) /\ Len(<<nal>>) = 1 /\ <<nal>>[1] = nal
    OBVIOUS
  <2>6. /\ Len(longer) = n + 3
        /\ \A i \in 1 .. n + 3 : longer[i] = IF i <= n + 2 THEN both[i] ELSE <<nal>>[i - (n + 2)]
    <3>1. longer = both \o <<nal>>
      BY <2>1 DEF both
    <3>2. /\ Len(longer) = Len(both) + Len(<<nal>>)
          /\ \A i \in 1 .. Len(both) + Len(<<nal>>) :
               longer[i] = IF i <= Len(both) THEN both[i] ELSE <<nal>>[i - Len(both)]
      BY <2>4, <2>5, <3>1, ConcatProperties
    <3> QED
      BY <1>0, <2>4, <2>5, <3>2
  <2> HIDE DEF n
  <2>7. \A i \in 1 .. n : longer[i] = unit[i]
    BY <1>0, <2>4, <2>6
  <2>8. longer[n + 1] = setS /\ longer[n + 2] = setP
    BY <1>0, <2>3, <2>4, <2>6
  <2>9. longer[n + 3] = nal
    BY <1>0, <2>5, <2>6
  <2> QED
    BY <1>1, <2>6, <2>7, <2>8, <2>9 DEF longer, n, setS, setP
<1>2. CASE ~(nal.kind = "idr" /\ sps # 0 /\ pps # 0)
  <2>1. longer = (unit \o <<>>) \o <<nal>>
    BY <1>2 DEF WithParameterSets
  <2>2. longer = Append(unit, nal)
    BY <2>1
  <2> QED
    BY <1>0, <1>2, <2>2
<1> QED
  BY <1>1, <1>2

\* A unit that has no picture yet has nothing a viewer would keep.
LEMMA NothingYet ==
  ASSUME Pictures, Dressed, hasVCL = 0, au \in Seq(Units(gen))
  PROVE  \A i \in 1 .. Len(au) : au[i].kind \notin {"sps", "pps", "idr", "slice"}
<1> SUFFICES ASSUME NEW i \in 1 .. Len(au) PROVE au[i].kind \notin {"sps", "pps", "idr", "slice"}
  OBVIOUS
<1>1. ~IsVCL(au[i]) /\ ~IsVCL(Last)
  <2>1. Len(au) \in 1 .. Len(au)
    BY LenProperties
  <2> QED
    BY <2>1 DEF Pictures, Last
<1> QED
  BY <1>1 DEF Dressed, IsVCL

\* What Put makes of such a unit.
LEMMA PutDressed ==
  ASSUME TypeOK, NEW unit \in Seq(Units(gen)), NEW nal \in Units(gen), Put(unit, nal),
         nal.kind \in {"sei", "idr", "slice"},
         nal.kind = "idr" => sps = nal.gen /\ pps = nal.gen,
         \A i \in 1 .. Len(unit) : unit[i].kind \notin {"sps", "pps", "idr", "slice"}
  PROVE  /\ Dressed'
         /\ au' # <<>> /\ Last' = nal
         /\ hasVCL' = IF nal.kind \in {"idr", "slice"} THEN 1 ELSE 0
         /\ Len(au') \in Nat \ {0}
         /\ nal.kind = "idr" => Len(au') > 2
<1>1. gen \in Nat /\ sps \in 0 .. gen /\ pps \in 0 .. gen /\ nal.gen \in 1 .. gen
  BY CountAssumption DEF TypeOK, Units
<1>2. Len(unit) \in Nat
  BY LenProperties
<1>3. au' = WithParameterSets(unit, nal) /\ hasVCL' = IF nal.kind \in {"idr", "slice"} THEN 1 ELSE 0
  BY DEF Put, IsVCL
<1>4. au' \in Seq(Units(gen)) /\ au' # <<>>
  BY <1>1, <1>3, Gathered
<1>5. \A i \in 1 .. Len(unit) : au'[i] = unit[i]
  BY <1>1, <1>3, Composed
<1>6. CASE nal.kind = "idr"
  <2>0. sps = nal.gen /\ pps = nal.gen /\ sps # 0 /\ pps # 0
    BY <1>1, <1>6
  <2>1. /\ Len(au') = Len(unit) + 3 /\ au'[Len(unit) + 3] = nal
        /\ au'[Len(unit) + 1] = [kind |-> "sps", gen |-> sps, frame |-> 0, size |-> 1]
        /\ au'[Len(unit) + 2] = [kind |-> "pps", gen |-> pps, frame |-> 0, size |-> 1]
    BY <1>1, <1>3, <1>6, <2>0, Composed
  <2>2. /\ au'[Len(unit) + 1].kind = "sps" /\ au'[Len(unit) + 1].gen = nal.gen
        /\ au'[Len(unit) + 2].kind = "pps" /\ au'[Len(unit) + 2].gen = nal.gen
    BY <2>0, <2>1
  <2>3. Last' = nal
    BY <2>1 DEF Last
  <2>4. ASSUME NEW i \in 1 .. Len(au')
        PROVE  /\ au'[i].kind = "idr" => /\ i > 2
                                         /\ au'[i - 2].kind = "sps" /\ au'[i - 2].gen = au'[i].gen
                                         /\ au'[i - 1].kind = "pps" /\ au'[i - 1].gen = au'[i].gen
               /\ au'[i].kind = "sps" => i = Len(au') - 2
               /\ au'[i].kind = "pps" => i = Len(au') - 1
    <3>1. CASE i <= Len(unit)
      <4>1. au'[i].kind \notin {"sps", "pps", "idr", "slice"}
        BY <1>2, <1>5, <3>1
      <4> QED
        BY <4>1
    <3>2. CASE i = Len(unit) + 1
      BY <1>2, <2>1, <2>2, <3>2
    <3>3. CASE i = Len(unit) + 2
      BY <1>2, <2>1, <2>2, <3>3
    <3>4. CASE i = Len(unit) + 3
      <4>1. au'[i] = nal /\ i - 2 = Len(unit) + 1 /\ i - 1 = Len(unit) + 2 /\ i > 2
        BY <1>2, <2>1, <3>4
      <4> QED
        BY <1>6, <2>2, <4>1
    <3> QED
      BY <1>2, <2>1, <3>1, <3>2, <3>3, <3>4
  <2> QED
    BY <1>2, <1>3, <1>4, <1>6, <2>1, <2>3, <2>4 DEF Dressed, IsVCL
<1>7. CASE nal.kind # "idr"
  <2>1. Len(au') = Len(unit) + 1 /\ au'[Len(unit) + 1] = nal
    BY <1>1, <1>3, <1>7, Composed
  <2>3. Last' = nal
    BY <2>1 DEF Last
  <2>4. ASSUME NEW i \in 1 .. Len(au') PROVE au'[i].kind \notin {"sps", "pps", "idr"}
    <3>1. CASE i <= Len(unit)
      BY <1>2, <1>5, <3>1
    <3>2. CASE i = Len(unit) + 1
      BY <1>7, <2>1, <3>2
    <3> QED
      BY <1>2, <2>1, <3>1, <3>2
  <2> QED
    BY <1>2, <1>3, <1>4, <1>7, <2>1, <2>3, <2>4 DEF Dressed, IsVCL
<1> QED
  BY <1>6, <1>7

\* What the encoder's next unit is to its last picture.
LEMMA EmittedNext ==
  ASSUME TypeOK, NEW nal \in Units(gen), Emits(nal)
  PROVE  /\ nal.gen = gen /\ gen' = gen /\ frame' = nal.frame
         /\ nal.kind \in {"sei", "slice"} => stage \in {"run", "picture"}
         /\ nal.kind = "sei" => nal.frame = frame
         /\ nal.kind = "slice" => nal.frame = (frame + 1) % Gop
         /\ nal.kind \in {"sps", "pps", "oversps", "overpps"} => stage' \notin {"run", "picture"}
BY DEF Emits, Units

\* A forwarder that has parameter sets when an IDR comes has those of its encoder.
LEMMA SetsOfIdr ==
  ASSUME TypeOK, Fresh, NEW nal \in Units(gen), Emits(nal), nal.kind = "idr", sps # 0, pps # 0
  PROVE  sps = nal.gen /\ pps = nal.gen
<1>1. nal.gen = gen /\ gen \in Nat \ {0} /\ sps \in 0 .. gen /\ pps \in 0 .. gen
  <2>1. nal.gen = gen
    BY EmittedNext
  <2> QED
    BY <2>1, CountAssumption DEF TypeOK
<1>2. stage \notin {"sps", "pps"}
  BY DEF Emits
<1>3. CASE gen = 1
  BY <1>1, <1>3
<1>4. CASE gen > 1
  BY <1>1, <1>2, <1>4 DEF Fresh
<1> QED
  BY <1>1, <1>3, <1>4

\* The cache keeps up with the encoder.
LEMMA FreshTake ==
  ASSUME RestartsAreClean, TypeOK, Fresh, NEW nal \in Units(gen), Emits(nal),
         Cache(nal) \/ StartUp(nal) \/ Gather(nal), encoder' = encoder
  PROVE  Fresh'
<1>1. gen' = gen /\ nal.gen = gen /\ gen \in 1 .. MaxGen /\ corrupt \in {0, 1} /\ MaxGen \in Nat
  BY CountAssumption DEF TypeOK, Emits
<1>2. corrupt' = 1 => encoder' \in Corruptible
  BY <1>1 DEF Emits, Fresh
<1>3. ready' = 1 => sps' # 0 /\ pps' # 0
  BY <1>1 DEF Fresh, Cache, StartUp, Gather, cacheVars
<1>4. ASSUME gen' > 1
      PROVE  /\ encoder' = "native"
             /\ stage' # "sps" => sps' = gen'
             /\ stage' \notin {"sps", "pps"} => pps' = gen'
  <2>1. /\ encoder = "native" /\ corrupt = 0
        /\ stage # "sps" => sps = gen
        /\ stage \notin {"sps", "pps"} => pps = gen
    BY <1>1, <1>4 DEF Fresh, RestartsAreClean
  <2>2. nal.kind \in Kinds \ {"oversps", "overpps"}
    BY <2>1 DEF Emits, Units
  <2>3. CASE nal.kind = "sps"
    BY <1>1, <2>1, <2>3 DEF Emits, Cache, StartUp, Gather
  <2>4. CASE nal.kind = "pps"
    BY <1>1, <2>1, <2>4 DEF Emits, Cache, StartUp, Gather
  <2>5. CASE nal.kind \in {"sei", "idr", "slice"}
    <3>1. sps' = sps /\ pps' = pps
      BY <2>5 DEF Cache, StartUp, Gather, cacheVars
    <3>2. stage \notin {"sps", "pps"}
      BY <2>5 DEF Emits
    <3> QED
      BY <1>1, <2>1, <3>1, <3>2
  <2> QED
    BY <2>2, <2>3, <2>4, <2>5 DEF Kinds
<1> QED
  BY <1>2, <1>3, <1>4 DEF Fresh

\* Between units nothing is held.
LEMMA NothingHeld ==
  NoNal.kind = "none" /\ NoNal.kind \notin {"sei", "idr", "slice"}
BY DEF NoNal

\* What does not touch the forwarder, the writer and the encoder keeps PictureInv; so
\* does what the viewer loses.
LEMMA PictureKept ==
  ASSUME PictureInv, ClockInv', Fresh', HeldNext',
         UNCHANGED <<au, hasVCL, held, index, sequence, wire>>,
         viewer' = viewer \/ (Lose /\ viewer'.intact = 0),
         EncoderNext'
  PROVE  PictureInv'
<1>1. Dressed /\ WriterNext /\ ViewerSets
  BY DEF PictureInv
<1>2. Dressed'
  BY <1>1 DEF Dressed, Last
<1>3. (Gap' <=> Gap) /\ Last' = Last
  BY DEF Gap, Last
<1>4. Dressing' <=> Dressing
  BY <1>3 DEF Dressing
<1>5. CASE viewer' = viewer
  <2>1. Chained' <=> Chained
    BY <1>3, <1>5 DEF Chained
  <2>2. WriterNext' /\ ViewerSets'
    BY <1>1, <1>3, <1>4, <1>5, <2>1 DEF WriterNext, ViewerSets, Follows
  <2> QED
    BY <1>2, <2>2 DEF PictureInv
<1>6. CASE Lose /\ viewer'.intact = 0
  <2>1. ~Chained'
    BY <1>6 DEF Chained
  <2>2. viewer'.sps = viewer.sps /\ viewer'.pps = viewer.pps
    BY <1>6 DEF Lose, PictureInv, ClockInv, CursorInv, TypeOK
  <2>3. WriterNext' /\ ViewerSets'
    BY <1>1, <1>3, <1>4, <2>1, <2>2 DEF WriterNext, ViewerSets
  <2> QED
    BY <1>2, <2>3 DEF PictureInv
<1> QED
  BY <1>5, <1>6

\* The first of three is none of the last two.
LEMMA FirstOfThree ==
  \A n \in Nat : n > 2 => 1 # n - 1 /\ 1 # n
OBVIOUS

\* A turn of the loop.
LEMMA PictureTake ==
  ASSUME RestartsAreClean, PictureInv, ClockInv', Take
  PROVE  PictureInv'
<1>1. /\ TypeOK /\ Cursor /\ Pictures /\ Fresh /\ Dressed /\ HeldNext
      /\ EncoderNext /\ WriterNext /\ ViewerSets
      /\ pc = "next" /\ index = 1 /\ held = NoNal
  BY DEF PictureInv, ClockInv, CursorInv, Cursor, HeldNext, Take
<1>2. PICK nal \in Units(gen) :
        Emits(nal) /\ (Cache(nal) \/ StartUp(nal) \/ Gather(nal)) /\ nal # NoNal
  BY <1>1, Taken
<1>3. encoder' = encoder /\ viewer' = viewer
  BY DEF Take
<1>4. /\ nal.gen = gen /\ gen' = gen /\ frame' = nal.frame
      /\ nal.kind \in {"sei", "slice"} => stage \in {"run", "picture"}
      /\ nal.kind = "sei" => nal.frame = frame
      /\ nal.kind = "slice" => nal.frame = (frame + 1) % Gop
      /\ nal.kind \in {"sps", "pps", "oversps", "overpps"} => stage' \notin {"run", "picture"}
  BY <1>1, <1>2, EmittedNext
<1>5. Fresh'
  BY <1>1, <1>2, <1>3, FreshTake
<1>6. nal.kind = "idr" /\ sps # 0 /\ pps # 0 => sps = nal.gen /\ pps = nal.gen
  BY <1>1, <1>2, SetsOfIdr
<1>7. au \in Seq(Units(gen)) /\ gen \in Nat /\ hasVCL \in {0, 1} /\ ready \in {0, 1}
  BY <1>1, CountAssumption DEF TypeOK, Units
<1>8. CASE Cache(nal)
  <2>1. /\ UNCHANGED <<au, hasVCL, held, index, sequence, wire>> /\ pc' = pc
        /\ nal.kind \in {"sps", "pps", "oversps", "overpps"}
    BY <1>8 DEF Cache, unitVars, writerVars
  <2>2. HeldNext' /\ EncoderNext'
    BY <1>1, <1>4, <2>1, NothingHeld DEF HeldNext, EncoderNext
  <2> QED
    BY <1>3, <1>5, <2>1, <2>2, PictureKept
<1>9. ASSUME NEW unit \in Seq(Units(gen)), Put(unit, nal),
             \A i \in 1 .. Len(unit) : unit[i].kind \notin {"sps", "pps", "idr", "slice"},
             nal.kind \in {"sei", "idr", "slice"},
             nal.kind = "idr" => sps # 0 /\ pps # 0,
             UNCHANGED <<pc, sps, pps, held, writerVars>>,
             \/ hasVCL = 0 /\ ready = 1
             \/ nal.kind = "idr" /\ ready = 0
      PROVE  PictureInv'
  <2>1. UNCHANGED <<held, index, sequence, wire, pc>>
    BY <1>9 DEF writerVars
  <2>2. /\ Dressed'
        /\ au' # <<>> /\ Last' = nal
        /\ hasVCL' = IF nal.kind \in {"idr", "slice"} THEN 1 ELSE 0
        /\ Len(au') \in Nat \ {0}
        /\ nal.kind = "idr" => Len(au') > 2
    BY <1>1, <1>6, <1>9, PutDressed
  <2>3. Chained' <=> Chained
    BY <1>3, <2>1 DEF Chained, Gap
  <2>4. HeldNext'
    BY <1>1, <2>1, NothingHeld DEF HeldNext
  <2>5. ASSUME nal.kind \in {"sei", "slice"}, Chained PROVE viewer.gen = gen /\ viewer.frame = frame
    <3>1. stage \in {"run", "picture"} /\ ready = 1 /\ hasVCL = 0
      BY <1>4, <1>9, <2>5
    <3>2. LatestIs(gen, frame)
      BY <1>1, <3>1 DEF EncoderNext
    <3> QED
      BY <1>1, <2>5, <3>1, <3>2, NothingHeld DEF LatestIs
  <2>6. LatestIs(gen, frame)'
    <3>1. CASE nal.kind = "sei"
      BY <1>1, <1>3, <1>4, <2>1, <2>2, <2>3, <2>5, <3>1, NothingHeld DEF LatestIs
    <3>2. CASE nal.kind \in {"idr", "slice"}
      BY <1>1, <1>4, <2>1, <2>2, <3>2, NothingHeld DEF LatestIs
    <3> QED
      BY <1>9, <3>1, <3>2
  <2>7. WriterNext'
    <3>1. index' <= Len(au') /\ ~(index' > Len(au'))
      BY <1>1, <2>1, <2>2
    <3>2. Chained => Follows(nal, viewer.gen, viewer.frame)
      BY <1>4, <2>5 DEF Follows
    <3> QED
      BY <1>3, <2>2, <2>3, <3>1, <3>2 DEF WriterNext
  <2>8. ~Dressing'
    <3>1. SUFFICES ASSUME nal.kind = "idr" PROVE index' # Len(au') - 1 /\ index' # Len(au')
      BY <2>2 DEF Dressing
    <3>2. index' = 1 /\ Len(au') \in Nat /\ Len(au') > 2
      BY <1>1, <2>1, <2>2, <3>1
    <3> QED
      BY <3>2, FirstOfThree
  <2>9. ~Dressing
    <3>1. SUFFICES ASSUME hasVCL = 1, Last.kind = "idr" PROVE index # Len(au) - 1 /\ index # Len(au)
      BY DEF Dressing
    <3>2. Len(au) \in 1 .. Len(au) /\ Len(au) \in Nat
      BY <1>1, <1>7, <3>1, EmptySeq, LenProperties DEF Dressed
    <3>3. Len(au) > 2
      BY <1>1, <3>1, <3>2 DEF Dressed, Last
    <3>4. index = 1
      BY <1>1
    <3> QED
      BY <3>2, <3>3, <3>4, FirstOfThree
  <2>10. ViewerSets'
    BY <1>1, <1>3, <2>3, <2>8, <2>9 DEF ViewerSets
  <2> QED
    BY <1>5, <2>2, <2>4, <2>6, <2>7, <2>10 DEF PictureInv, EncoderNext
<1>10. CASE StartUp(nal)
  <2>1. CASE nal.kind = "idr" /\ sps # 0 /\ pps # 0
    <3>1. <<>> \in Seq(Units(gen)) /\ \A i \in 1 .. Len(<<>>) : <<>>[i].kind \notin {"sps", "pps", "idr", "slice"}
      OBVIOUS
    <3>2. /\ Put(<<>>, nal) /\ ready = 0 /\ nal.kind \in {"sei", "idr", "slice"}
          /\ UNCHANGED <<pc, sps, pps, held, writerVars>>
      BY <1>10, <2>1 DEF StartUp
    <3> QED
      BY <2>1, <3>1, <3>2, <1>9
  <2>2. CASE ~(nal.kind = "idr" /\ sps # 0 /\ pps # 0)
    <3>1. /\ UNCHANGED <<au, hasVCL, held, index, sequence, wire>> /\ pc' = pc /\ ready' = 0
          /\ sps' = sps /\ pps' = pps
      BY <1>10, <2>2 DEF StartUp, writerVars
    <3>2. HeldNext' /\ EncoderNext'
      BY <1>1, <3>1, NothingHeld DEF HeldNext, EncoderNext
    <3> QED
      BY <1>3, <1>5, <3>1, <3>2, PictureKept
  <2> QED
    BY <2>1, <2>2
<1>11. CASE Gather(nal)
  <2>1. CASE hasVCL = 1
    <3>1. /\ UNCHANGED <<au, hasVCL, index, sequence, wire, cacheVars>>
          /\ pc' = "write" /\ held' = nal /\ ready = 1
          /\ nal.kind \in {"sei", "idr", "slice"}
      BY <1>11, <2>1 DEF Gather, BeginUnit
    <3>2. (Gap' <=> Gap) /\ (Chained' <=> Chained) /\ Last' = Last
      BY <1>3, <3>1 DEF Gap, Chained, Last
    <3>3. nal.kind \in {"sei", "slice"} => Last.gen = gen /\ Last.frame = frame
      BY <1>1, <1>4, <2>1, <3>1, NothingHeld DEF EncoderNext, LatestIs
    <3>4. HeldNext'
      BY <1>1, <1>2, <1>4, <1>6, <2>1, <3>1, <3>2, <3>3 DEF HeldNext, Follows, Fresh, cacheVars
    <3>5. LatestIs(gen, frame)'
      BY <1>4, <2>1, <3>1, <3>2, <3>3 DEF LatestIs
    <3>6. Dressed'
      BY <1>1, <3>1, <3>2 DEF Dressed
    <3>7. WriterNext' /\ ViewerSets'
      BY <1>1, <1>3, <3>1, <3>2 DEF WriterNext, ViewerSets, Dressing, Follows
    <3> QED
      BY <1>5, <3>4, <3>5, <3>6, <3>7 DEF PictureInv, EncoderNext
  <2>2. CASE hasVCL # 1
    <3>1. /\ Put(au, nal) /\ ready = 1 /\ hasVCL = 0 /\ nal.kind \in {"sei", "idr", "slice"}
          /\ UNCHANGED <<pc, sps, pps, held, writerVars>>
      BY <1>7, <1>11, <2>2 DEF Gather, cacheVars
    <3>2. \A i \in 1 .. Len(au) : au[i].kind \notin {"sps", "pps", "idr", "slice"}
      BY <1>1, <1>7, <3>1, NothingYet
    <3>3. sps # 0 /\ pps # 0
      BY <1>1, <3>1 DEF Fresh
    <3> QED
      BY <1>7, <1>9, <3>1, <3>2, <3>3
  <2> QED
    BY <2>1, <2>2
<1> QED
  BY <1>2, <1>8, <1>10, <1>11

\* What a packet changes at the viewer.
LEMMA ViewerAfter ==
  ASSUME CursorInv, SendPacket
  PROVE  /\ ~LastFragment => /\ viewer'.sps = viewer.sps /\ viewer'.pps = viewer.pps
                             /\ viewer'.gen = viewer.gen /\ viewer'.frame = viewer.frame
         /\ LastFragment => /\ viewer'.sps = IF Nal.kind = "sps" THEN Nal.gen ELSE viewer.sps
                            /\ viewer'.pps = IF Nal.kind = "pps" THEN Nal.gen ELSE viewer.pps
                            /\ viewer'.gen = IF IsVCL(Nal) THEN Nal.gen ELSE viewer.gen
                            /\ viewer'.frame = IF IsVCL(Nal) THEN Nal.frame ELSE viewer.frame
         /\ Chained' => Chained \/ (LastFragment /\ Nal.kind = "idr")
<1> DEFINE trusted == IF Gap THEN 0 ELSE viewer.intact
<1>1. viewer \in [sps : 0 .. gen, pps : 0 .. gen, gen : 0 .. gen, frame : 0 .. Gop - 1,
                  got : Nat, intact : {0, 1}]
  BY DEF CursorInv, TypeOK
<1>2. trusted = 1 => Chained
  BY DEF Chained
<1>3. Chained' => viewer'.intact = 1
  BY DEF Chained
<1>4. CASE ~LastFragment
  <2>1. viewer' = [viewer EXCEPT !.got = Reassembled, !.intact = trusted]
    BY <1>4 DEF SendPacket, ViewerTakes
  <2> HIDE DEF trusted
  <2> QED
    BY <1>1, <1>2, <1>3, <1>4, <2>1
<1>5. CASE LastFragment
  <2> DEFINE intact == IF Nal.kind = "idr" THEN (IF Fits THEN 1 ELSE 0)
                       ELSE IF Nal.kind = "slice" /\ ~Fits THEN 0 ELSE trusted
             newSps == IF Nal.kind = "sps" THEN Nal.gen ELSE viewer.sps
             newPps == IF Nal.kind = "pps" THEN Nal.gen ELSE viewer.pps
             newGen == IF IsVCL(Nal) THEN Nal.gen ELSE viewer.gen
             newFrame == IF IsVCL(Nal) THEN Nal.frame ELSE viewer.frame
  <2>1. viewer' = [viewer EXCEPT !.got = 0, !.sps = newSps, !.pps = newPps, !.gen = newGen,
                                 !.frame = newFrame, !.intact = intact]
    BY <1>5 DEF SendPacket, ViewerTakes
  <2>2. intact = 1 => trusted = 1 \/ Nal.kind = "idr"
    OBVIOUS
  <2> HIDE DEF intact, newSps, newPps, newGen, newFrame, trusted
  <2>3. /\ viewer'.sps = newSps /\ viewer'.pps = newPps /\ viewer'.gen = newGen
        /\ viewer'.frame = newFrame /\ viewer'.intact = intact
    BY <1>1, <2>1
  <2> QED
    BY <1>2, <1>3, <1>5, <2>2, <2>3 DEF newSps, newPps, newGen, newFrame
<1> QED
  BY <1>4, <1>5

\* Whenever the last fragment of a picture is sent to a viewer that has missed
\* nothing, or that of an IDR, the picture can be decoded.
LEMMA PictureFits ==
  ASSUME PictureInv, SendPacket, LastFragment, IsVCL(Nal), Chained \/ Nal.kind = "idr"
  PROVE  Fits
<1>1. /\ index <= Len(au) /\ index \in Nat /\ Len(au) \in Nat
      /\ Pictures /\ Dressed /\ WriterNext /\ ViewerSets /\ TypeOK
  BY DEF SendPacket, PictureInv, ClockInv, CursorInv, TypeOK
<1>2. index = Len(au) /\ Nal = Last /\ hasVCL = 1
  <2>1. index \in 1 .. Len(au)
    BY <1>1 DEF TypeOK
  <2>2. hasVCL \in {0, 1} /\ hasVCL # 0
    BY <1>1, <2>1 DEF Pictures, Nal, TypeOK
  <2>3. index \notin 1 .. Len(au) - 1
    BY <1>1 DEF Pictures, Nal
  <2>4. index = Len(au)
    BY <1>1, <2>1, <2>3
  <2> QED
    BY <2>2, <2>4 DEF Nal, Last
<1>3. CASE Nal.kind = "idr"
  <2>1. Dressing
    BY <1>2, <1>3 DEF Dressing
  <2> QED
    BY <1>1, <1>2, <1>3, <2>1 DEF ViewerSets, Fits
<1>4. CASE Nal.kind = "slice"
  <2>1. ~Dressing /\ Chained
    BY <1>2, <1>4 DEF Dressing
  <2>2. ~(index > Len(au))
    BY <1>1, <1>2
  <2> QED
    BY <1>1, <1>2, <1>4, <2>1, <2>2 DEF ViewerSets, WriterNext, Follows, Fits
<1> QED
  BY <1>3, <1>4 DEF IsVCL

\* A packet is sent.
LEMMA PictureSend ==
  ASSUME PictureInv, ClockInv', SendPacket
  PROVE  PictureInv'
<1>1. /\ TypeOK /\ Cursor /\ Pictures /\ Fresh /\ Dressed /\ HeldNext /\ CursorInv
      /\ EncoderNext /\ WriterNext /\ ViewerSets
      /\ pc = "write" /\ index \in 1 .. Len(au) /\ Len(au) \in Nat /\ hasVCL \in {0, 1}
  BY DEF PictureInv, ClockInv, CursorInv, TypeOK, SendPacket
<1>2. /\ UNCHANGED <<encoder, encoderVars, pc, cacheVars, unitVars>>
      /\ index' = IF LastFragment THEN index + 1 ELSE index
  BY DEF SendPacket
<1>3. Last' = Last /\ au' = au /\ hasVCL' = hasVCL /\ held' = held
  BY <1>2 DEF Last, unitVars
<1>4. Fresh' /\ Dressed' /\ HeldNext'
  BY <1>1, <1>2, <1>3 DEF Fresh, Dressed, HeldNext, Follows, encoderVars, cacheVars
<1>5. /\ ~LastFragment => /\ viewer'.sps = viewer.sps /\ viewer'.pps = viewer.pps
                          /\ viewer'.gen = viewer.gen /\ viewer'.frame = viewer.frame
      /\ LastFragment => /\ viewer'.sps = IF Nal.kind = "sps" THEN Nal.gen ELSE viewer.sps
                         /\ viewer'.pps = IF Nal.kind = "pps" THEN Nal.gen ELSE viewer.pps
                         /\ viewer'.gen = IF IsVCL(Nal) THEN Nal.gen ELSE viewer.gen
                         /\ viewer'.frame = IF IsVCL(Nal) THEN Nal.frame ELSE viewer.frame
      /\ Chained' => Chained \/ (LastFragment /\ Nal.kind = "idr")
  BY <1>1, ViewerAfter
<1>6. ASSUME viewer'.gen = viewer.gen, viewer'.frame = viewer.frame, Chained' => Chained
      PROVE  EncoderNext'
  BY <1>1, <1>2, <1>3, <1>6 DEF EncoderNext, LatestIs, encoderVars, cacheVars
<1>7. ASSUME hasVCL = 1 PROVE EncoderNext'
  BY <1>1, <1>2, <1>3, <1>7 DEF EncoderNext, LatestIs, encoderVars, cacheVars
<1>8. CASE ~LastFragment
  <2>1. /\ viewer'.sps = viewer.sps /\ viewer'.pps = viewer.pps
        /\ viewer'.gen = viewer.gen /\ viewer'.frame = viewer.frame
        /\ Chained' => Chained
        /\ index' = index
    BY <1>2, <1>5, <1>8
  <2>2. WriterNext' /\ ViewerSets'
    BY <1>1, <1>3, <2>1 DEF WriterNext, ViewerSets, Dressing, Follows
  <2> QED
    BY <1>4, <1>6, <2>1, <2>2 DEF PictureInv
<1>9. CASE LastFragment /\ IsVCL(Nal)
  <2>1. index = Len(au) /\ Nal = Last /\ hasVCL = 1
    <3>1. hasVCL # 0 /\ index \notin 1 .. Len(au) - 1
      BY <1>1, <1>9 DEF Pictures, Nal
    <3>2. index = Len(au)
      BY <1>1, <3>1
    <3> QED
      BY <1>1, <3>1, <3>2 DEF Nal, Last
  <2>2. index' > Len(au') /\ ~Dressing'
    <3>1. index' = Len(au) + 1
      BY <1>2, <1>9, <2>1
    <3> QED
      BY <1>1, <1>3, <3>1 DEF Dressing
  <2>3. Nal.kind \notin {"sps", "pps"}
    BY <1>9 DEF IsVCL
  <2>4. /\ viewer'.sps = viewer.sps /\ viewer'.pps = viewer.pps
        /\ viewer'.gen = Last.gen /\ viewer'.frame = Last.frame
    BY <1>5, <1>9, <2>1, <2>3
  <2>5. WriterNext'
    BY <1>3, <2>2, <2>4 DEF WriterNext
  <2>6. Chained' => Fits
    BY <1>5, <1>9, PictureFits
  <2>7. ViewerSets'
    BY <2>1, <2>2, <2>4, <2>6 DEF ViewerSets, Fits
  <2> QED
    BY <1>4, <1>7, <2>1, <2>5, <2>7 DEF PictureInv
<1>10. CASE LastFragment /\ ~IsVCL(Nal)
  <2>1. /\ viewer'.gen = viewer.gen /\ viewer'.frame = viewer.frame
        /\ Chained' => Chained
        /\ index' = index + 1
    BY <1>2, <1>5, <1>10 DEF IsVCL
  <2>2. /\ Nal.kind = "sps" => index = Len(au) - 2 /\ Last.kind = "idr"
        /\ Nal.kind = "pps" => index = Len(au) - 1 /\ Last.kind = "idr"
    BY <1>1 DEF Dressed, Nal
  <2>3. ASSUME Last.kind = "idr", hasVCL = 1
        PROVE  /\ Len(au) > 2 /\ index # Len(au)
               /\ index = Len(au) - 2 => Nal.kind = "sps" /\ Nal.gen = Last.gen
               /\ index = Len(au) - 1 => Nal.kind = "pps" /\ Nal.gen = Last.gen
    <3>1. Len(au) \in 1 .. Len(au)
      BY <1>1
    <3>2. /\ Len(au) > 2
          /\ au[Len(au) - 2].kind = "sps" /\ au[Len(au) - 2].gen = Last.gen
          /\ au[Len(au) - 1].kind = "pps" /\ au[Len(au) - 1].gen = Last.gen
      BY <1>1, <2>3, <3>1 DEF Dressed, Last
    <3>3. index # Len(au)
      BY <1>10, <2>3 DEF Nal, Last, IsVCL
    <3> QED
      BY <3>2, <3>3 DEF Nal
  <2>4. WriterNext'
    <3>1. SUFFICES ASSUME Chained', hasVCL = 1
                   PROVE  ~(index' > Len(au)) /\ Follows(Last, viewer.gen, viewer.frame)
      BY <1>3, <2>1 DEF WriterNext
    <3>2. index # Len(au)
      BY <1>1, <1>10, <3>1 DEF Dressed, Last, Nal
    <3>3. ~(index > Len(au)) /\ ~(index + 1 > Len(au))
      BY <1>1, <3>2
    <3> QED
      BY <1>1, <2>1, <3>1, <3>3 DEF WriterNext
  <2>5. Dressing' => /\ viewer'.sps = Last.gen
                     /\ index' = Len(au) => viewer'.pps = Last.gen
    <3>1. SUFFICES ASSUME Dressing'
                   PROVE  viewer'.sps = Last.gen /\ (index' = Len(au) => viewer'.pps = Last.gen)
      OBVIOUS
    <3>2. hasVCL = 1 /\ Last.kind = "idr" /\ index + 1 \in {Len(au) - 1, Len(au)}
      BY <1>3, <2>1, <3>1 DEF Dressing
    <3>3. CASE index = Len(au) - 2
      <4>1. Nal.kind = "sps" /\ Nal.gen = Last.gen
        BY <2>3, <3>2, <3>3
      <4>2. index' # Len(au)
        BY <1>1, <2>1, <3>3
      <4> QED
        BY <1>5, <1>10, <4>1, <4>2
    <3>4. CASE index = Len(au) - 1
      <4>1. Nal.kind = "pps" /\ Nal.gen = Last.gen
        BY <2>3, <3>2, <3>4
      <4>2. Dressing
        BY <3>2, <3>4 DEF Dressing
      <4> QED
        BY <1>1, <1>5, <1>10, <4>1, <4>2 DEF ViewerSets
    <3> QED
      BY <1>1, <3>2, <3>3, <3>4
  <2>6. Chained' /\ ~Dressing' => viewer'.sps = viewer'.gen /\ viewer'.pps = viewer'.gen
    <3>1. SUFFICES ASSUME Chained', ~Dressing'
                   PROVE  viewer'.sps = viewer'.gen /\ viewer'.pps = viewer'.gen
      OBVIOUS
    <3>2. ~(hasVCL = 1 /\ Last.kind = "idr" /\ index + 1 \in {Len(au) - 1, Len(au)})
      BY <1>3, <2>1, <3>1 DEF Dressing
    <3>3. Last.kind = "idr" => hasVCL = 1
      <4>1. Len(au) \in 1 .. Len(au)
        BY <1>1
      <4> QED
        BY <1>1, <4>1 DEF Pictures, Last, IsVCL
    <3>4. Nal.kind \notin {"sps", "pps"}
      BY <1>1, <2>2, <3>2, <3>3
    <3>5. ~Dressing
      <4>1. SUFFICES ASSUME hasVCL = 1, Last.kind = "idr" PROVE index # Len(au) /\ index # Len(au) - 1
        BY DEF Dressing
      <4> QED
        BY <2>3, <3>4, <4>1
    <3> QED
      BY <1>1, <1>5, <1>10, <2>1, <3>1, <3>4, <3>5 DEF ViewerSets
  <2>7. ViewerSets'
    BY <1>3, <2>5, <2>6 DEF ViewerSets
  <2> QED
    BY <1>4, <1>6, <2>1, <2>4, <2>7 DEF PictureInv
<1> QED
  BY <1>8, <1>9, <1>10

\* The unit is written or given up, and what was held begins the next one.
LEMMA PictureGoOn ==
  ASSUME PictureInv, ClockInv', FinishUnit \/ WriteFails
  PROVE  PictureInv'
<1>1. /\ TypeOK /\ TypeOK' /\ Cursor /\ Pictures /\ Fresh /\ Dressed /\ HeldNext /\ CursorInv /\ Ahead
      /\ EncoderNext /\ WriterNext /\ ViewerSets
      /\ hasVCL \in {0, 1} /\ gen \in Nat
  BY CountAssumption DEF PictureInv, ClockInv, CursorInv, TypeOK
<1>2. /\ GoOn /\ UNCHANGED <<encoder, encoderVars, cacheVars, viewer>>
  BY DEF FinishUnit, WriteFails
<1>3. index' = 1 /\ held' = NoNal /\ pc' # "write"
  BY <1>2 DEF GoOn
<1>4. Chained' => Chained /\ index > Len(au)
  <2>1. CASE FinishUnit
    BY <1>2, <2>1 DEF FinishUnit, Chained, Gap
  <2>2. CASE WriteFails
    BY <1>1, <2>2, FailureIsGap DEF Chained
  <2> QED
    BY <2>1, <2>2
<1>5. Chained' /\ hasVCL = 1 => viewer.gen = Last.gen /\ viewer.frame = Last.frame
  BY <1>1, <1>4 DEF WriterNext
<1>6. Chained' => ~Dressing
  <2>1. index \in Nat /\ Len(au) \in Nat
    BY <1>1 DEF TypeOK
  <2>2. index > Len(au) => index # Len(au) - 1 /\ index # Len(au)
    BY <2>1
  <2> QED
    BY <1>4, <2>2 DEF Dressing
<1>7. Fresh' /\ HeldNext'
  BY <1>1, <1>2, <1>3, NothingHeld DEF Fresh, HeldNext, encoderVars, cacheVars
<1>8. CASE held = NoNal
  <2>1. au' = <<>> /\ hasVCL' = 0
    BY <1>2, <1>8 DEF GoOn
  <2>2. Dressed' /\ WriterNext' /\ ~Dressing'
    BY <2>1 DEF Dressed, WriterNext, Dressing
  <2>3. ViewerSets'
    BY <1>1, <1>2, <1>4, <1>6, <2>2 DEF ViewerSets
  <2>4. LatestIs(gen, frame) => LatestIs(gen, frame)'
    BY <1>1, <1>2, <1>3, <1>4, <1>5, <1>8, <2>1, NothingHeld DEF LatestIs, encoderVars
  <2>5. EncoderNext'
    BY <1>1, <1>2, <2>4 DEF EncoderNext, LatestIs, encoderVars, cacheVars
  <2> QED
    BY <1>7, <2>2, <2>3, <2>5 DEF PictureInv
<1>9. CASE held # NoNal
  <2>1. /\ held \in Units(gen) /\ Put(<<>>, held)
        /\ held.kind \in {"sei", "idr", "slice"}
        /\ held.kind = "idr" => sps = held.gen /\ pps = held.gen
        /\ hasVCL = 1 /\ Follows(held, Last.gen, Last.frame)
    BY <1>1, <1>2, <1>9 DEF GoOn, Cursor, HeldNext
  <2>2. <<>> \in Seq(Units(gen)) /\ \A i \in 1 .. Len(<<>>) : <<>>[i].kind \notin {"sps", "pps", "idr", "slice"}
    OBVIOUS
  <2>3. /\ Dressed'
        /\ au' # <<>> /\ Last' = held
        /\ hasVCL' = IF held.kind \in {"idr", "slice"} THEN 1 ELSE 0
        /\ Len(au') \in Nat \ {0}
        /\ held.kind = "idr" => Len(au') > 2
    BY <1>1, <2>1, <2>2, PutDressed
  <2>4. WriterNext'
    <3>1. ~(index' > Len(au'))
      BY <1>3, <2>3
    <3>2. Chained' => Follows(held, viewer.gen, viewer.frame)
      BY <1>5, <2>1 DEF Follows
    <3> QED
      BY <1>2, <2>3, <3>1, <3>2 DEF WriterNext
  <2>5. ~Dressing'
    <3>1. SUFFICES ASSUME held.kind = "idr" PROVE index' # Len(au') - 1 /\ index' # Len(au')
      BY <2>3 DEF Dressing
    <3>2. index' = 1 /\ Len(au') \in Nat /\ Len(au') > 2
      BY <1>3, <2>3, <3>1
    <3> QED
      BY <3>2, FirstOfThree
  <2>6. ViewerSets'
    BY <1>1, <1>2, <1>4, <1>6, <2>5 DEF ViewerSets
  <2>7. LatestIs(gen, frame) => LatestIs(gen, frame)'
    <3>1. CASE held.kind = "sei"
      BY <1>2, <1>3, <1>5, <2>1, <2>3, <3>1, NothingHeld DEF LatestIs, encoderVars
    <3>2. CASE held.kind \in {"idr", "slice"}
      BY <1>2, <1>3, <2>3, <3>2, NothingHeld DEF LatestIs, encoderVars
    <3> QED
      BY <2>1, <3>1, <3>2
  <2>8. EncoderNext'
    BY <1>1, <1>2, <2>7 DEF EncoderNext, LatestIs, encoderVars, cacheVars
  <2> QED
    BY <1>7, <2>3, <2>4, <2>6, <2>8 DEF PictureInv
<1> QED
  BY <1>8, <1>9

\* Every step keeps the pictures decodable.
LEMMA PictureStep ==
  ASSUME RestartsAreClean, PictureInv, [Next]_vars
  PROVE  PictureInv'
<1>t. /\ Fresh /\ HeldNext /\ EncoderNext /\ ClockInv /\ TypeOK
  BY DEF PictureInv, ClockInv, CursorInv
<1>c. ClockInv'
  BY <1>t, CursorStep, PicturesStep, ClockStep DEF ClockInv
<1>1. CASE Take
  BY <1>c, <1>1, PictureTake
<1>2. CASE StreamEnds
  <2>1. /\ UNCHANGED <<encoder, encoderVars, cacheVars, viewer>> /\ pc = "next"
        /\ UNCHANGED <<au, hasVCL, index, sequence, wire>>
        /\ held' = held \/ held' = NoNal
    BY <1>2 DEF StreamEnds, BeginUnit, unitVars, writerVars
  <2>2. held' = held
    BY <1>t, <2>1 DEF HeldNext
  <2>3. Last' = Last /\ (Chained' <=> Chained)
    BY <2>1 DEF Last, Chained, Gap
  <2>4. Fresh' /\ HeldNext'
    BY <1>t, <2>1, <2>2, NothingHeld DEF Fresh, HeldNext, encoderVars, cacheVars
  <2>5. EncoderNext'
    BY <1>t, <2>1, <2>2, <2>3 DEF EncoderNext, LatestIs, encoderVars, cacheVars
  <2> QED
    BY <1>c, <2>1, <2>2, <2>4, <2>5, PictureKept
<1>3. CASE SendPacket
  BY <1>c, <1>3, PictureSend
<1>4. CASE FinishUnit \/ WriteFails
  BY <1>c, <1>4, PictureGoOn
<1>5. CASE Restart
  <2>1. /\ UNCHANGED <<au, hasVCL, held, index, sequence, wire, viewer, pc, cacheVars, encoder>>
        /\ encoder = "native" /\ stage' = "sps"
        /\ corrupt' = 1 => encoder \in Corruptible
    BY <1>5 DEF Restart, unitVars, writerVars
  <2>2. Fresh'
    BY <1>t, <2>1 DEF Fresh, cacheVars
  <2>3. HeldNext' /\ EncoderNext'
    BY <1>t, <2>1 DEF HeldNext, EncoderNext, Follows, Last, cacheVars
  <2> QED
    BY <1>c, <2>1, <2>2, <2>3, PictureKept
<1>6. ASSUME UNCHANGED <<encoder, encoderVars, cacheVars, unitVars, writerVars, viewer>>,
             pc' = pc \/ (pc = "next" /\ pc' = "done")
      PROVE  PictureInv'
  <2>1. UNCHANGED <<au, hasVCL, held, index, sequence, wire, viewer>>
    BY <1>6 DEF unitVars, writerVars
  <2>2. Last' = Last /\ (Chained' <=> Chained)
    BY <2>1 DEF Last, Chained, Gap
  <2>3. Fresh'
    BY <1>t, <1>6 DEF Fresh, encoderVars, cacheVars
  <2>4. HeldNext'
    BY <1>t, <1>6, <2>1, <2>2 DEF HeldNext, Follows, cacheVars
  <2>5. EncoderNext'
    BY <1>t, <1>6, <2>1, <2>2 DEF EncoderNext, LatestIs, encoderVars, cacheVars
  <2> QED
    BY <1>c, <2>1, <2>3, <2>4, <2>5, PictureKept
<1>7. CASE Lose
  <2>1. /\ UNCHANGED <<encoder, encoderVars, cacheVars, au, hasVCL, held, index, sequence, wire, pc>>
        /\ viewer'.intact = 0
    BY <1>t, <1>7 DEF Lose, unitVars, writerVars, TypeOK
  <2>2. Last' = Last /\ ~Chained'
    BY <2>1 DEF Last, Chained
  <2>3. Fresh'
    BY <1>t, <2>1 DEF Fresh, encoderVars, cacheVars
  <2>4. HeldNext'
    BY <1>t, <2>1, <2>2 DEF HeldNext, Follows, cacheVars
  <2>5. EncoderNext'
    BY <1>t, <2>1, <2>2 DEF EncoderNext, LatestIs, encoderVars, cacheVars
  <2> QED
    BY <1>c, <1>7, <2>1, <2>3, <2>4, <2>5, PictureKept
<1>8. CASE Quit \/ CommandEnds
  BY <1>6, <1>8 DEF Quit, CommandEnds
<1>9. CASE RequestIdr \/ RequestActiveFps \/ Tick \/ UNCHANGED vars
  BY <1>6, <1>9 DEF RequestIdr, RequestActiveFps, Tick, vars
<1> QED
  BY <1>1, <1>2, <1>3, <1>4, <1>5, <1>7, <1>8, <1>9 DEF Next, Forward

\* The start: nothing gathered, nothing shown.
LEMMA PictureInit ==
  Init => PictureInv
<1> SUFFICES ASSUME Init PROVE PictureInv
  OBVIOUS
<1>1. ClockInv
  BY ClockInit
<1>2. /\ au = <<>> /\ hasVCL = 0 /\ held = NoNal /\ ready = 0 /\ gen = 1
      /\ viewer.intact = 0 /\ corrupt \in IF encoder \in Corruptible THEN {0, 1} ELSE {0}
  BY DEF Init
<1>3. Fresh
  BY <1>2 DEF Fresh
<1>4. Dressed /\ HeldNext
  BY <1>2, NothingHeld DEF Dressed, HeldNext
<1>5. EncoderNext /\ WriterNext /\ ViewerSets
  BY <1>2 DEF EncoderNext, WriterNext, ViewerSets, Dressing, Chained
<1> QED
  BY <1>1, <1>3, <1>4, <1>5 DEF PictureInv

\* Whatever is lost, fails to be written or is restarted: a picture that comes to
\* a viewer with nothing missing before it can be decoded, and an IDR always can.
\* An encoder that can start again must not send unusable parameter sets, since the
\* forwarder would put those of the encoder before in their place.
THEOREM PicturesDecode == RestartsAreClean /\ Spec => EveryPictureDecodes
<1> DEFINE Shown == wire' # wire /\ LastFragment /\ IsVCL(Nal) /\ ~Gap /\ (viewer.intact = 1 \/ Nal.kind = "idr")
                      => Fits
<1>1. Init => PictureInv
  BY PictureInit
<1>2. RestartsAreClean /\ PictureInv /\ [Next]_vars => PictureInv'
  BY PictureStep
<1>3. PictureInv /\ [Next]_vars => [Shown]_vars
  <2> SUFFICES ASSUME PictureInv, [Next]_vars, wire' # wire PROVE Shown
    OBVIOUS
  <2>1. SendPacket
    BY OnlySendPacket
  <2> QED
    BY <2>1, PictureFits DEF Chained
<1>4. EveryPictureDecodes <=> [][Shown]_vars
  BY DEF EveryPictureDecodes
<1> HIDE DEF Shown
<1>5. CASE RestartsAreClean
  <2>1. PictureInv /\ [Next]_vars => PictureInv'
    BY <1>2, <1>5
  <2> QED
    BY <1>1, <2>1, <1>3, <1>4, PTL DEF Spec
<1> QED
  BY <1>5

===============================================================================
