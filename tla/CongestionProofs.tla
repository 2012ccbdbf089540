---------------------------- MODULE CongestionProofs ----------------------------
(***************************************************************************)
(* Proofs about the congestion controller: the bitrate stays in its range, *)
(* raises are two intervals apart from what spoke against them, and an     *)
(* estimate alone lowers nothing, for every configuration and every        *)
(* feedback.                                                               *)
(***************************************************************************)
EXTENDS Congestion, TLAPS

\* Time adds up: the calm lasts at least the current window and the clean window
\* before it that goodCount remembers.
CalmInv ==
  /\ calm >= sinceEval
  /\ goodCount = 1 => calm >= Interval + sinceEval

IInv == TypeOK /\ CalmInv

\* clampInt gives a bitrate of the range, and does not lower one that is.
LEMMA ClampRange ==
  ASSUME NEW b \in Int
  PROVE  /\ Clamp(b) \in MinBitrate .. MaxBitrate
         /\ target \in Int /\ target <= MaxBitrate /\ b >= target => Clamp(b) >= target
  BY BitrateAssumption DEF Clamp, LowerOf, HigherOf

\* freshREMBCap leaves an integer, never a higher one, and the same one without
\* congestion.
LEMMA CappedInt ==
  ASSUME NEW d \in Int, NEW kind, NEW e \in Nat, NEW age
  PROVE  /\ Capped(d, kind, e, age) \in Int
         /\ Capped(d, kind, e, age) <= d
         /\ ~Congested(kind) => Capped(d, kind, e, age) = d
  <1>1. (e * 9) \div 10 \in Int
    OBVIOUS
  <1>2. Clamp((e * 9) \div 10) \in Int
    BY <1>1, ClampRange
  <1> QED
    BY <1>2 DEF Capped, LowerOf

\* The target that maybeUpdate decides on: in the range, higher only after a second
\* clean window, lower only after a congested one.
LEMMA Decided ==
  ASSUME TypeOK, NEW kind, NEW e \in Nat, NEW age
  PROVE  /\ Decide(kind, e, age) \in MinBitrate .. MaxBitrate
         /\ Decide(kind, e, age) > target => kind = "clean" /\ goodCount = 1
         /\ Decide(kind, e, age) < target => Congested(kind)
  <1> DEFINE desired == CASE kind = "severe" -> (target * 70) \div 100
                          [] kind = "moderate" -> (target * 85) \div 100
                          [] kind = "clean" /\ goodCount = 1 -> Raised(target)
                          [] OTHER -> target
  <1>t. target \in Int /\ target >= MinBitrate /\ target <= MaxBitrate /\ target > 0
    BY BitrateAssumption DEF TypeOK
  <1>1. Decide(kind, e, age) = Clamp(Capped(desired, kind, e, age))
    BY DEF Decide
  <1>2. Raised(target) \in Int /\ Raised(target) > target
    BY <1>t, BitrateAssumption DEF Raised, HigherOf
  <1>3. CASE kind = "severe"
    <2>1. desired \in Int /\ desired <= target
      BY <1>3, <1>t
    <2>2. Capped(desired, kind, e, age) \in Int /\ Capped(desired, kind, e, age) <= target
      <3>1. Capped(desired, kind, e, age) \in Int /\ Capped(desired, kind, e, age) <= desired
        <4> HIDE DEF desired
        <4> QED
          BY <2>1, CappedInt
      <3> QED
        BY <3>1, <2>1, <1>t
    <2> QED
      BY <1>1, <1>3, <1>t, <2>2, BitrateAssumption DEF Clamp, LowerOf, HigherOf, Congested
  <1>4. CASE kind = "moderate"
    <2>1. desired \in Int /\ desired <= target
      BY <1>4, <1>t
    <2>2. Capped(desired, kind, e, age) \in Int /\ Capped(desired, kind, e, age) <= target
      <3>1. Capped(desired, kind, e, age) \in Int /\ Capped(desired, kind, e, age) <= desired
        <4> HIDE DEF desired
        <4> QED
          BY <2>1, CappedInt
      <3> QED
        BY <3>1, <2>1, <1>t
    <2> QED
      BY <1>1, <1>4, <1>t, <2>2, BitrateAssumption DEF Clamp, LowerOf, HigherOf, Congested
  <1>5. CASE kind = "clean" /\ goodCount = 1
    <2>1. desired = Raised(target) /\ ~Congested(kind)
      BY <1>5 DEF Congested
    <2>2. Capped(desired, kind, e, age) = Raised(target)
      BY <2>1, <1>2, CappedInt
    <2> QED
      BY <1>1, <1>2, <1>5, <1>t, <2>2, BitrateAssumption DEF Clamp, LowerOf, HigherOf
  <1>6. CASE kind \notin {"severe", "moderate"} /\ ~(kind = "clean" /\ goodCount = 1)
    <2>1. desired = target /\ ~Congested(kind)
      BY <1>6 DEF Congested
    <2>2. Capped(desired, kind, e, age) = target
      BY <2>1, <1>t, CappedInt
    <2> QED
      BY <1>1, <1>t, <2>2, BitrateAssumption DEF Clamp, LowerOf, HigherOf
  <1> QED
    BY <1>3, <1>4, <1>5, <1>6

\* A window is of one of the five kinds.
LEMMA KindType ==
  ASSUME NEW report, NEW loss, NEW asked, NEW trip
  PROVE  Kind(report, loss, asked, trip) \in {"silent", "clean", "mixed", "moderate", "severe"}
  BY DEF Kind

\* What a judged window does.
LEMMA UpdateStep ==
  ASSUME IInv, Due, NEW kind \in {"silent", "clean", "mixed", "moderate", "severe"},
         NEW e \in Nat, NEW age, Update(kind, e, age)
  PROVE  /\ target' \in MinBitrate .. MaxBitrate
         /\ sinceEval' = 0 /\ hasRR' = 0 /\ maxLoss' = 0 /\ nacks' = 0 /\ rtt' = 0
         /\ goodCount' \in {0, 1}
         /\ judged' = kind
         /\ calm' \in 0 .. 2 * Interval
         /\ CalmInv'
         /\ target' > target => calm = 2 * Interval
         /\ target' < target => Congested(judged')
  <1>1. target' = Decide(kind, e, age) /\ judged' = kind
    BY DEF Update
  <1>2. goodCount \in {0, 1} /\ goodCount' = Count(kind)
    BY DEF Update, IInv, TypeOK
  <1>3. Interval \in Nat \ {0} /\ calm \in 0 .. 2 * Interval /\ sinceEval = Interval
    BY TimeAssumption DEF IInv, TypeOK, Due
  <1>4. calm >= Interval /\ (goodCount = 1 => calm = 2 * Interval)
    BY <1>3 DEF IInv, CalmInv
  <1>5. goodCount' \in {0, 1}
    BY <1>2 DEF Count
  <1>6. goodCount' = 1 => (kind = "clean" /\ goodCount = 0) \/ (kind = "silent" /\ goodCount = 1)
    BY <1>2 DEF Count
  <1>7. calm' \in {0, calm} /\ (goodCount' = 1 => calm' = calm)
    BY <1>6 DEF Update, Congested
  <1>8. CalmInv'
    <2>1. sinceEval' = 0
      BY DEF Update
    <2> QED
      BY <2>1, <1>3, <1>4, <1>7 DEF CalmInv
  <1>9. /\ target' \in MinBitrate .. MaxBitrate
        /\ target' > target => goodCount = 1
        /\ target' < target => Congested(judged')
    BY <1>1, Decided DEF IInv
  <1>10. sinceEval' = 0 /\ hasRR' = 0 /\ maxLoss' = 0 /\ nacks' = 0 /\ rtt' = 0
    BY DEF Update
  <1>11. calm' \in 0 .. 2 * Interval
    BY <1>3, <1>7
  <1> QED
    BY <1>1, <1>4, <1>5, <1>8, <1>9, <1>10, <1>11

\* What a read does that ends no window, or ends one.
LEMMA FeedbackStep ==
  ASSUME IInv,
         NEW report \in {0, 1}, NEW loss \in 0 .. 255, NEW trip \in Nat \union {NoTrip},
         NEW asked \in Nat, NEW bitrate \in Nat, Feedback(report, loss, trip, asked, bitrate)
  PROVE  /\ IInv'
         /\ target' > target => calm = 2 * Interval
         /\ target' < target => Congested(judged')
  <1> DEFINE worst    == IF report = 1 THEN HigherOf(maxLoss, loss) ELSE maxLoss
             lastTrip == IF report = 1 /\ trip # NoTrip THEN trip ELSE rtt
             missing  == LowerOf(nacks + asked, ManyNacks)
             reported == HigherOf(hasRR, report)
             kind     == Kind(reported, worst, missing, lastTrip)
  <1>1. remb' \in Nat /\ rembAge' \in 0 .. FreshFor + 1
    BY TimeAssumption DEF Feedback, IInv, TypeOK, FreshFor, HigherOf
  <1>2. CASE Due
    <2>1. Update(kind, remb', rembAge')
      BY <1>2 DEF Feedback
    <2>2. kind \in {"silent", "clean", "mixed", "moderate", "severe"}
      BY KindType
    <2>3. /\ target' \in MinBitrate .. MaxBitrate
          /\ sinceEval' = 0 /\ hasRR' = 0 /\ maxLoss' = 0 /\ nacks' = 0 /\ rtt' = 0
          /\ goodCount' \in {0, 1}
          /\ judged' = kind
          /\ calm' \in 0 .. 2 * Interval
          /\ CalmInv'
          /\ target' > target => calm = 2 * Interval
          /\ target' < target => Congested(judged')
      <3> HIDE DEF kind
      <3> QED
        BY <1>1, <1>2, <2>1, <2>2, UpdateStep
    <2>4. TypeOK'
      <3> HIDE DEF kind
      <3> QED
        BY <1>1, <2>2, <2>3, TimeAssumption DEF TypeOK, ManyNacks, FreshFor
    <2> QED
      BY <2>3, <2>4 DEF IInv
  <1>3. CASE ~Due
    <2>1. /\ hasRR' = reported /\ maxLoss' = worst /\ nacks' = missing /\ rtt' = lastTrip
          /\ UNCHANGED <<target, sinceEval, goodCount, judged, calm>>
      BY <1>3 DEF Feedback, Collect
    <2>2. /\ reported \in {0, 1} /\ worst \in 0 .. 255
          /\ missing \in 0 .. ManyNacks /\ lastTrip \in Nat
      BY DEF IInv, TypeOK, HigherOf, LowerOf, ManyNacks
    <2>3. TypeOK'
      <3> HIDE DEF reported, worst, missing, lastTrip
      <3> QED
        BY <1>1, <2>1, <2>2 DEF IInv, TypeOK, FreshFor
    <2>4. CalmInv'
      BY <2>1 DEF IInv, CalmInv
    <2>5. target' = target /\ target \in Int
      BY <2>1, BitrateAssumption DEF IInv, TypeOK
    <2> QED
      BY <2>3, <2>4, <2>5 DEF IInv
  <1> QED
    BY <1>2, <1>3

\* What a tick does.
LEMMA TickStep ==
  ASSUME IInv, Tick
  PROVE  IInv' /\ target' = target
  <1>1. Interval \in Nat \ {0} /\ FreshFor \in Nat
    BY TimeAssumption DEF FreshFor, HigherOf
  <1>2. /\ sinceEval \in 0 .. Interval /\ calm \in 0 .. 2 * Interval
        /\ rembAge \in 0 .. FreshFor + 1
    BY DEF IInv, TypeOK
  <1>3. /\ sinceEval' \in 0 .. Interval /\ calm' \in 0 .. 2 * Interval
        /\ rembAge' \in 0 .. FreshFor + 1
    BY <1>1, <1>2 DEF Tick, LowerOf
  <1>4. TypeOK'
    BY <1>3 DEF IInv, TypeOK, Tick, windowVars, FreshFor
  <1>5. CalmInv'
    BY <1>1, <1>2 DEF IInv, CalmInv, Tick, LowerOf, TypeOK
  <1> QED
    BY <1>4, <1>5 DEF IInv, Tick

\* Every step keeps the invariant, and moves the bitrate only as it may.
LEMMA Step ==
  ASSUME IInv, [Next]_vars
  PROVE  /\ IInv'
         /\ target' > target => calm = 2 * Interval
         /\ target' < target => Congested(judged')
  <1>t. target \in Int
    BY BitrateAssumption DEF IInv, TypeOK
  <1>1. CASE Reported
    <2>1. PICK loss \in Losses, trip \in RoundTrips \union {NoTrip},
               n \in NackCounts \union {0}, b \in Estimates \union {0} :
                 Feedback(1, loss, trip, n, b)
      BY <1>1 DEF Reported
    <2>2. loss \in 0 .. 255 /\ trip \in Nat \union {NoTrip} /\ n \in Nat /\ b \in Nat
      BY FeedbackAssumption
    <2> QED
      BY <2>1, <2>2, FeedbackStep
  <1>2. CASE Unreported
    <2>1. PICK n \in NackCounts \union {0}, b \in Estimates \union {0} :
                 Feedback(0, 0, NoTrip, n, b)
      BY <1>2 DEF Unreported
    <2>2. n \in Nat /\ b \in Nat
      BY FeedbackAssumption
    <2>3. 0 \in {0, 1} /\ 0 \in 0 .. 255 /\ NoTrip \in Nat \union {NoTrip}
      OBVIOUS
    <2> QED
      BY <2>1, <2>2, <2>3, FeedbackStep
  <1>3. CASE Tick
    BY <1>3, <1>t, TickStep
  <1>4. CASE UNCHANGED vars
    <2>1. TypeOK' /\ CalmInv'
      BY <1>4 DEF IInv, TypeOK, CalmInv, vars, windowVars, FreshFor
    <2> QED
      BY <1>4, <1>t, <2>1 DEF IInv, vars
  <1> QED
    BY <1>1, <1>2, <1>3, <1>4 DEF Next

\* The invariant holds at all times.
LEMMA Inductive == Spec => []IInv
  <1>1. Init => IInv
    BY BitrateAssumption, TimeAssumption
    DEF Init, IInv, TypeOK, CalmInv, FreshFor, HigherOf, ManyNacks
  <1>2. IInv /\ [Next]_vars => IInv'
    BY Step
  <1> QED
    BY <1>1, <1>2, PTL DEF Spec

\* For every range, interval and feedback the target stays within
\* H264BitrateMin .. H264BitrateMax, and the window's counters in their types.
THEOREM BitrateInRange == Spec => []TypeOK
  <1>1. IInv => TypeOK
    BY DEF IInv
  <1> QED
    BY <1>1, Inductive, PTL

\* For every range, interval and feedback, two whole intervals without congestion
\* or loss go before a raise.
THEOREM RaisesComeSlowly == Spec => RaisesAreSpaced
  <1>1. IInv /\ [Next]_vars => [target' > target => calm = 2 * Interval]_vars
    BY Step
  <1> QED
    BY <1>1, Inductive, PTL DEF Spec, RaisesAreSpaced

\* For every range, interval and feedback, the bitrate falls only after a window
\* with congestion in it.
THEOREM FallsNeedCongestion == Spec => EstimateAloneNeverLowers
  <1>1. IInv /\ [Next]_vars => [target' < target => Congested(judged')]_vars
    BY Step
  <1> QED
    BY <1>1, Inductive, PTL DEF Spec, EstimateAloneNeverLowers
===============================================================================
