------------------------------- MODULE Congestion -------------------------------
(***************************************************************************)
(* The congestion controller of a peer session (native/webrtc-publisher/   *)
(* congestion.go), driven by drainVideoRTCP (main.go) with the feedback    *)
(* packets of the viewer's browser.  It decides the bitrate that the       *)
(* publisher then asks the encoder for (CaptureLoop).                      *)
(*                                                                         *)
(* Fractions lost are in 256ths as on the wire, round-trip times in        *)
(* milliseconds.  Time passes in ticks; bitrates and the smallest raise    *)
(* are in a unit of their own.                                             *)
(***************************************************************************)
EXTENDS Integers

CONSTANTS
  MinBitrate, MaxBitrate, StartBitrate,  \* cfg.H264BitrateMin, Max and Start
  SmallestRaise,  \* 250000 bit/s
  Interval,       \* cfg.H264CCInterval, in ticks
  ThreeSeconds,   \* 3 s, in ticks
  Losses,         \* fractions lost that reports carry
  RoundTrips,     \* round-trip times of the reports that have one
  NackCounts,     \* packets that the NACKs of one read ask for
  Estimates       \* bitrates that REMB packets carry

\* The configuration is clamped at start-up.
ASSUME BitrateAssumption ==
  /\ MinBitrate \in Nat \ {0} /\ MaxBitrate \in Nat /\ StartBitrate \in Nat
  /\ MinBitrate <= StartBitrate /\ StartBitrate <= MaxBitrate
  /\ SmallestRaise \in Nat \ {0}
ASSUME TimeAssumption == Interval \in Nat \ {0} /\ ThreeSeconds \in Nat \ {0}
ASSUME FeedbackAssumption ==
  /\ Losses \subseteq 0 .. 255
  /\ RoundTrips \subseteq Nat
  /\ NackCounts \subseteq Nat
  /\ Estimates \subseteq Nat

VARIABLES
  target,      \* the controller's target, stored in session.targetBitrate
  sinceEval,   \* time since lastEval, up to Interval
  hasRR, maxLoss, nacks, rtt,   \* what the window has seen; rtt 0 for none
  remb,        \* the last estimate, 0 for none
  rembAge,     \* time since rembAt, up to FreshFor + 1
  goodCount,   \* clean windows in a row
  judged,      \* history: what the last judged window was
  calm         \* history: time since the last window that spoke against a raise
               \* or raised the bitrate, up to 2 * Interval

windowVars == <<hasRR, maxLoss, nacks, rtt>>
vars == <<target, sinceEval, windowVars, remb, rembAge, goodCount, judged, calm>>

LowerOf(a, b) == IF a < b THEN a ELSE b
HigherOf(a, b) == IF a < b THEN b ELSE a

\* clampInt
Clamp(bitrate) == LowerOf(HigherOf(bitrate, MinBitrate), MaxBitrate)

\* receiverReportRTT of a report without a usable round-trip time.
NoTrip == -1

FreshFor == HigherOf(ThreeSeconds, 3 * Interval)

\* NACKs are counted up to the 20 that make a window severe.
ManyNacks == 20

Init ==
  /\ target = StartBitrate
  /\ sinceEval = 0
  /\ hasRR = 0 /\ maxLoss = 0 /\ nacks = 0 /\ rtt = 0
  /\ remb = 0 /\ rembAge = 0
  /\ goodCount = 0
  /\ judged = "silent"
  /\ calm = 0

-------------------------------------------------------------------------------
(* maybeUpdate, as functions of the window it judges. *)

\* How bad the window is.
Kind(report, loss, asked, trip) ==
  IF loss * 100 >= 8 * 256 \/ asked >= ManyNacks \/ trip >= 450 THEN "severe"
  ELSE IF loss * 100 >= 2 * 256 \/ asked >= 5 \/ trip >= 250 THEN "moderate"
  ELSE IF report = 0 THEN "silent"
  ELSE IF loss * 100 < 256 /\ asked = 0 /\ trip < 180 THEN "clean" ELSE "mixed"

Congested(kind) == kind \in {"severe", "moderate"}

\* Mutant: any fresh estimate caps the bitrate.
CappedAlways(desired, kind, estimate, age) ==
  IF estimate > 0 /\ age <= FreshFor
    THEN LowerOf(desired, Clamp((estimate * 9) \div 10)) ELSE desired

\* freshREMBCap, and when it applies.
Capped(desired, kind, estimate, age) ==
  IF estimate > 0 /\ age <= FreshFor /\ Congested(kind)
    THEN LowerOf(desired, Clamp((estimate * 9) \div 10)) ELSE desired

Raised(bitrate) == bitrate + HigherOf(bitrate \div 10, SmallestRaise)

\* The new target.
Decide(kind, estimate, age) ==
  LET desired == CASE kind = "severe" -> (target * 70) \div 100
                   [] kind = "moderate" -> (target * 85) \div 100
                   [] kind = "clean" /\ goodCount = 1 -> Raised(target)
                   [] OTHER -> target
  IN  Clamp(Capped(desired, kind, estimate, age))

\* Mutant: only congestion starts the count again, as if the last branch of
\* maybeUpdate were not there.
CountKeepsMixed(kind) ==
  IF Congested(kind) THEN 0 ELSE IF kind = "clean" THEN 1 - goodCount ELSE goodCount

\* Mutant: whatever is not clean starts the count again, a window without a
\* report too.
CountStopsAtSilence(kind) == IF kind = "clean" THEN 1 - goodCount ELSE 0

\* The new count of clean windows: a raise uses the two up, and a window without
\* a report and without congestion leaves it.
Count(kind) ==
  CASE kind = "clean" -> 1 - goodCount
    [] kind = "silent" -> goodCount
    [] OTHER -> 0

Due == sinceEval = Interval

Update(kind, estimate, age) ==
  /\ target' = Decide(kind, estimate, age)
  /\ goodCount' = Count(kind)
  /\ judged' = kind
  /\ calm' = IF Congested(kind) \/ kind = "mixed" \/ (kind = "clean" /\ goodCount = 1)
               THEN 0 ELSE calm
  /\ sinceEval' = 0
  /\ hasRR' = 0 /\ maxLoss' = 0 /\ nacks' = 0 /\ rtt' = 0

\* The window goes on.
Collect(report, loss, asked, trip) ==
  /\ hasRR' = report /\ maxLoss' = loss /\ nacks' = asked /\ rtt' = trip
  /\ UNCHANGED <<target, sinceEval, goodCount, judged, calm>>

\* One read of drainVideoRTCP: observeReceiverReport, observeNACK and observeREMB
\* for the packets in it, then maybeUpdate.  loss is the worst of its reports and
\* trip the last of their round-trip times; report, asked and bitrate are 0 when
\* the read has no such packet (or an estimate of 0).
Feedback(report, loss, trip, asked, bitrate) ==
  LET worst    == IF report = 1 THEN HigherOf(maxLoss, loss) ELSE maxLoss
      lastTrip == IF report = 1 /\ trip # NoTrip THEN trip ELSE rtt
      missing  == LowerOf(nacks + asked, ManyNacks)
      reported == HigherOf(hasRR, report)
  IN  /\ remb' = IF bitrate > 0 THEN bitrate ELSE remb
      /\ rembAge' = IF bitrate > 0 THEN 0 ELSE rembAge
      /\ IF Due THEN Update(Kind(reported, worst, missing, lastTrip), remb', rembAge')
                ELSE Collect(reported, worst, missing, lastTrip)

\* Time passes (external).
Tick ==
  /\ sinceEval' = LowerOf(sinceEval + 1, Interval)
  /\ rembAge' = IF remb = 0 THEN 0 ELSE LowerOf(rembAge + 1, FreshFor + 1)
  /\ calm' = LowerOf(calm + 1, 2 * Interval)
  /\ UNCHANGED <<target, windowVars, remb, goodCount, judged>>

-------------------------------------------------------------------------------
\* What one read may hold: reports or not, NACKs or not, an estimate or not.
Reported == \E loss \in Losses, trip \in RoundTrips \union {NoTrip}, n \in NackCounts \union {0},
               b \in Estimates \union {0} : Feedback(1, loss, trip, n, b)
Unreported == \E n \in NackCounts \union {0}, b \in Estimates \union {0} :
                Feedback(0, 0, NoTrip, n, b)

Next == Reported \/ Unreported \/ Tick

Spec == Init /\ [][Next]_vars

\* Time passes, and a browser that gets the stream reports on it again and again;
\* in between are windows old enough to be judged.
FairSpec ==
  /\ Spec
  /\ WF_vars(Tick)
  /\ SF_vars(Due /\ Reported)

-------------------------------------------------------------------------------
(* Properties. *)

TypeOK ==
  /\ target \in MinBitrate .. MaxBitrate
  /\ sinceEval \in 0 .. Interval
  /\ hasRR \in {0, 1}
  /\ maxLoss \in 0 .. 255
  /\ nacks \in 0 .. ManyNacks
  /\ rtt \in Nat
  /\ remb \in Nat
  /\ rembAge \in 0 .. FreshFor + 1
  /\ goodCount \in {0, 1}
  /\ judged \in {"silent", "clean", "mixed", "moderate", "severe"}
  /\ calm \in 0 .. 2 * Interval

\* "A clean connection must produce two consecutive receiver-report windows
\* before bitrate can rise": between a raise and the window before it that raised
\* the bitrate or saw losses lie two whole intervals, whatever the reads between.
RaisesAreSpaced == [][target' > target => calm = 2 * Interval]_vars

\* The bitrate falls only in a congested window, whatever the estimates say and
\* however fresh they are: a static desktop does not talk itself down.
EstimateAloneNeverLowers == [][target' < target => Congested(judged')]_vars

\* When every window is clean or silent from some time on, the bitrate gets back
\* to its maximum: windows in which no report arrives, however they alternate with
\* clean ones, hold the raises up but do not keep them off for good.
Recovers == <>[](judged \in {"clean", "silent"}) => <>(target = MaxBitrate)
===============================================================================
