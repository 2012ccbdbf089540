--------------------------- MODULE CaptureLoopProofs ---------------------------
(***************************************************************************)
(* Proofs about CaptureLoop, for every number of slots and of packets in a *)
(* frame, every idle delay and every set of bitrates.                      *)
(***************************************************************************)
EXTENDS CaptureLoop, TLAPS

\* While quiet time is being measured, the last input is at least as old as the
\* measurement, or has not been looked at yet.
QuietInv == tracking = 1 /\ activity = 0 => sinceInput >= quiet

IInv == TypeOK /\ NoStaleFrame /\ QuietInv

-------------------------------------------------------------------------------
(* The parts of the invariant. *)

\* Each step keeps the variables in their sets; the frame submitted is the only
\* one in MPP, because nothing was left of the one before.
LEMMA TypeStep == TypeOK /\ NoStaleFrame /\ [Next]_vars => TypeOK'
<1> SUFFICES ASSUME TypeOK, NoStaleFrame, [Next]_vars PROVE TypeOK'
  OBVIOUS
<1> USE SlotsAssumption, PartsAssumption, IdleAssumption
<1>1. CASE Top
  BY <1>1 DEF Top, Goes, idrVars, frameVars, rateVars, publisherVars, TypeOK,
      Steps, NoStaleFrame
<1>2. CASE Stops
  BY <1>2 DEF Stops, Leaves, idrVars, frameVars, rateVars, bitrateVars,
      publisherVars, TypeOK, Steps, NoStaleFrame
<1>3. CASE BitrateKept
  BY <1>3 DEF BitrateKept, Goes, idrVars, frameVars, rateVars, bitrateVars,
      publisherVars, TypeOK, Steps, NoStaleFrame
<1>4. CASE BitrateApplied
  BY <1>4 DEF BitrateApplied, Goes, idrVars, frameVars, rateVars, publisherVars,
      TypeOK, Steps, NoStaleFrame
<1>5. CASE BitrateRefused
  BY <1>5 DEF BitrateRefused, Goes, idrVars, frameVars, rateVars, publisherVars,
      TypeOK, Steps, NoStaleFrame
<1>6. CASE SeeActivity
  BY <1>6 DEF SeeActivity, Goes, idrVars, frameVars, bitrateVars, publisherVars,
      TypeOK, Steps, NoStaleFrame
<1>7. CASE Capture
  BY <1>7 DEF Capture, Goes, idrVars, frameVars, rateVars, bitrateVars,
      publisherVars, TypeOK, Steps, NoStaleFrame
<1>8. CASE Fails
  BY <1>8 DEF Fails, Leaves, idrVars, frameVars, rateVars, bitrateVars,
      publisherVars, TypeOK, Steps, NoStaleFrame
<1>9. CASE TakeIdrRequest
  BY <1>9 DEF TakeIdrRequest, frameVars, rateVars, bitrateVars, publisherVars,
      TypeOK, Steps, NoStaleFrame
<1>10. CASE Control
  BY <1>10 DEF Control, Goes, frameVars, rateVars, bitrateVars, publisherVars,
      TypeOK, Steps, NoStaleFrame
<1>11. CASE Put
  BY <1>11 DEF Put, Goes, rateVars, bitrateVars, publisherVars, TypeOK, Steps,
      NoStaleFrame
<1>12. CASE GetPacket
  BY <1>12 DEF GetPacket, Goes, idrVars, rateVars, bitrateVars, publisherVars,
      TypeOK, Steps, NoStaleFrame
<1>13. CASE WritePacket
  BY <1>13 DEF WritePacket, idrVars, rateVars, bitrateVars, publisherVars,
      TypeOK, Steps, NoStaleFrame
<1>14. CASE WriteGivesUp
  BY <1>14 DEF WriteGivesUp, Leaves, idrVars, frameVars, rateVars, bitrateVars,
      publisherVars, TypeOK, Steps, NoStaleFrame
<1>15. CASE LargeFrame
  BY <1>15 DEF LargeFrame, Goes, idrVars, frameVars, bitrateVars, publisherVars,
      TypeOK, Steps, NoStaleFrame
<1>16. CASE SmallFrame
  BY <1>16 DEF SmallFrame, Goes, idrVars, frameVars, bitrateVars, publisherVars,
      TypeOK, Steps, NoStaleFrame
<1>17. CASE Sleep
  BY <1>17 DEF Sleep, Goes, Later, idrVars, frameVars, bitrateVars,
      publisherVars, TypeOK, Steps, NoStaleFrame
<1>18. CASE SignalStop
  BY <1>18 DEF SignalStop, idrVars, frameVars, rateVars, bitrateVars,
      publisherVars, TypeOK, Steps, NoStaleFrame
<1>19. CASE SignalIdr
  BY <1>19 DEF SignalIdr, frameVars, rateVars, bitrateVars, publisherVars,
      TypeOK, Steps, NoStaleFrame
<1>20. CASE SignalActivity
  BY <1>20 DEF SignalActivity, idrVars, frameVars, bitrateVars, publisherVars,
      TypeOK, Steps, NoStaleFrame
<1>21. CASE TakePacket
  BY <1>21 DEF TakePacket, idrVars, rateVars, bitrateVars, publisherVars,
      TypeOK, Steps, NoStaleFrame
<1>22. CASE Retarget
  BY <1>22 DEF Retarget, idrVars, frameVars, rateVars, TypeOK, Steps,
      NoStaleFrame
<1>23. CASE Publish
  BY <1>23 DEF Publish, idrVars, frameVars, rateVars, TypeOK, Steps,
      NoStaleFrame
<1>24. CASE UNCHANGED vars
  BY <1>24 DEF vars, idrVars, frameVars, rateVars, publisherVars, bitrateVars,
      TypeOK, Steps, NoStaleFrame
<1>25. QED
  BY <1>1, <1>2, <1>3, <1>4, <1>5, <1>6, <1>7, <1>8, <1>9, <1>10, <1>11, <1>12,
      <1>13, <1>14, <1>15, <1>16, <1>17, <1>18, <1>19, <1>20, <1>21, <1>22,
      <1>23, <1>24 DEF Next, LoopStep, Signal

\* Only the last packet of a frame lets the loop go on to the next frame.
LEMMA FrameStep == TypeOK /\ NoStaleFrame /\ [Next]_vars => NoStaleFrame'
<1> SUFFICES ASSUME TypeOK, NoStaleFrame, [Next]_vars PROVE NoStaleFrame'
  OBVIOUS
<1>1. CASE Top
  BY <1>1 DEF Top, Goes, idrVars, frameVars, rateVars, publisherVars, TypeOK,
      NoStaleFrame
<1>2. CASE Stops
  BY <1>2 DEF Stops, Leaves, idrVars, frameVars, rateVars, bitrateVars,
      publisherVars, TypeOK, NoStaleFrame
<1>3. CASE BitrateKept
  BY <1>3 DEF BitrateKept, Goes, idrVars, frameVars, rateVars, bitrateVars,
      publisherVars, TypeOK, NoStaleFrame
<1>4. CASE BitrateApplied
  BY <1>4 DEF BitrateApplied, Goes, idrVars, frameVars, rateVars, publisherVars,
      TypeOK, NoStaleFrame
<1>5. CASE BitrateRefused
  BY <1>5 DEF BitrateRefused, Goes, idrVars, frameVars, rateVars, publisherVars,
      TypeOK, NoStaleFrame
<1>6. CASE SeeActivity
  BY <1>6 DEF SeeActivity, Goes, idrVars, frameVars, bitrateVars, publisherVars,
      TypeOK, NoStaleFrame
<1>7. CASE Capture
  BY <1>7 DEF Capture, Goes, idrVars, frameVars, rateVars, bitrateVars,
      publisherVars, TypeOK, NoStaleFrame
<1>8. CASE Fails
  BY <1>8 DEF Fails, Leaves, idrVars, frameVars, rateVars, bitrateVars,
      publisherVars, TypeOK, NoStaleFrame
<1>9. CASE TakeIdrRequest
  BY <1>9 DEF TakeIdrRequest, frameVars, rateVars, bitrateVars, publisherVars,
      TypeOK, NoStaleFrame
<1>10. CASE Control
  BY <1>10 DEF Control, Goes, frameVars, rateVars, bitrateVars, publisherVars,
      TypeOK, NoStaleFrame
<1>11. CASE Put
  BY <1>11 DEF Put, Goes, rateVars, bitrateVars, publisherVars, TypeOK,
      NoStaleFrame
<1>12. CASE GetPacket
  BY <1>12 DEF GetPacket, Goes, idrVars, rateVars, bitrateVars, publisherVars,
      TypeOK, NoStaleFrame
<1>13. CASE WritePacket
  BY <1>13 DEF WritePacket, idrVars, rateVars, bitrateVars, publisherVars,
      TypeOK, NoStaleFrame
<1>14. CASE WriteGivesUp
  BY <1>14 DEF WriteGivesUp, Leaves, idrVars, frameVars, rateVars, bitrateVars,
      publisherVars, TypeOK, NoStaleFrame
<1>15. CASE LargeFrame
  BY <1>15 DEF LargeFrame, Goes, idrVars, frameVars, bitrateVars, publisherVars,
      TypeOK, NoStaleFrame
<1>16. CASE SmallFrame
  BY <1>16 DEF SmallFrame, Goes, idrVars, frameVars, bitrateVars, publisherVars,
      TypeOK, NoStaleFrame
<1>17. CASE Sleep
  BY <1>17 DEF Sleep, Goes, frameVars, TypeOK, NoStaleFrame
<1>18. CASE SignalStop
  BY <1>18 DEF SignalStop, idrVars, frameVars, rateVars, bitrateVars,
      publisherVars, TypeOK, NoStaleFrame
<1>19. CASE SignalIdr
  BY <1>19 DEF SignalIdr, frameVars, rateVars, bitrateVars, publisherVars,
      TypeOK, NoStaleFrame
<1>20. CASE SignalActivity
  BY <1>20 DEF SignalActivity, idrVars, frameVars, bitrateVars, publisherVars,
      TypeOK, NoStaleFrame
<1>21. CASE TakePacket
  BY <1>21 DEF TakePacket, idrVars, rateVars, bitrateVars, publisherVars,
      TypeOK, NoStaleFrame
<1>22. CASE Retarget
  BY <1>22 DEF Retarget, idrVars, frameVars, rateVars, TypeOK, NoStaleFrame
<1>23. CASE Publish
  BY <1>23 DEF Publish, idrVars, frameVars, rateVars, TypeOK, NoStaleFrame
<1>24. CASE UNCHANGED vars
  BY <1>24 DEF vars, idrVars, frameVars, rateVars, publisherVars, bitrateVars,
      TypeOK, NoStaleFrame
<1>25. QED
  BY <1>1, <1>2, <1>3, <1>4, <1>5, <1>6, <1>7, <1>8, <1>9, <1>10, <1>11, <1>12,
      <1>13, <1>14, <1>15, <1>16, <1>17, <1>18, <1>19, <1>20, <1>21, <1>22,
      <1>23, <1>24 DEF Next, LoopStep, Signal

\* The measurement starts after the last input was looked at, and the two ages
\* grow together.
LEMMA QuietStep == TypeOK /\ QuietInv /\ [Next]_vars => QuietInv'
<1> SUFFICES ASSUME TypeOK, QuietInv, [Next]_vars PROVE QuietInv'
  OBVIOUS
<1> USE IdleAssumption
<1>1. CASE Top
  BY <1>1 DEF Top, Goes, idrVars, frameVars, rateVars, publisherVars, TypeOK,
      QuietInv
<1>2. CASE Stops
  BY <1>2 DEF Stops, Leaves, idrVars, frameVars, rateVars, bitrateVars,
      publisherVars, TypeOK, QuietInv
<1>3. CASE BitrateKept
  BY <1>3 DEF BitrateKept, Goes, idrVars, frameVars, rateVars, bitrateVars,
      publisherVars, TypeOK, QuietInv
<1>4. CASE BitrateApplied
  BY <1>4 DEF BitrateApplied, Goes, idrVars, frameVars, rateVars, publisherVars,
      TypeOK, QuietInv
<1>5. CASE BitrateRefused
  BY <1>5 DEF BitrateRefused, Goes, idrVars, frameVars, rateVars, publisherVars,
      TypeOK, QuietInv
<1>6. CASE SeeActivity
  BY <1>6 DEF SeeActivity, Goes, idrVars, frameVars, bitrateVars, publisherVars,
      TypeOK, QuietInv
<1>7. CASE Capture
  BY <1>7 DEF Capture, Goes, idrVars, frameVars, rateVars, bitrateVars,
      publisherVars, TypeOK, QuietInv
<1>8. CASE Fails
  BY <1>8 DEF Fails, Leaves, idrVars, frameVars, rateVars, bitrateVars,
      publisherVars, TypeOK, QuietInv
<1>9. CASE TakeIdrRequest
  BY <1>9 DEF TakeIdrRequest, frameVars, rateVars, bitrateVars, publisherVars,
      TypeOK, QuietInv
<1>10. CASE Control
  BY <1>10 DEF Control, Goes, frameVars, rateVars, bitrateVars, publisherVars,
      TypeOK, QuietInv
<1>11. CASE Put
  BY <1>11 DEF Put, Goes, rateVars, bitrateVars, publisherVars, TypeOK, QuietInv
<1>12. CASE GetPacket
  BY <1>12 DEF GetPacket, Goes, idrVars, rateVars, bitrateVars, publisherVars,
      TypeOK, QuietInv
<1>13. CASE WritePacket
  BY <1>13 DEF WritePacket, idrVars, rateVars, bitrateVars, publisherVars,
      TypeOK, QuietInv
<1>14. CASE WriteGivesUp
  BY <1>14 DEF WriteGivesUp, Leaves, idrVars, frameVars, rateVars, bitrateVars,
      publisherVars, TypeOK, QuietInv
<1>15. CASE LargeFrame
  BY <1>15 DEF LargeFrame, Goes, idrVars, frameVars, bitrateVars, publisherVars,
      TypeOK, QuietInv
<1>16. CASE SmallFrame
  BY <1>16 DEF SmallFrame, Goes, idrVars, frameVars, bitrateVars, publisherVars,
      TypeOK, QuietInv
<1>17. CASE Sleep
  <2>1. SUFFICES ASSUME tracking' = 1, activity' = 0 PROVE sinceInput' >= quiet'
    BY DEF QuietInv
  <2>2. tracking = 1 /\ activity = 0
    BY <1>17, <2>1 DEF Sleep
  <2>3. sinceInput >= quiet /\ quiet \in 0 .. IdleAfter /\ sinceInput \in 0 .. IdleAfter
    BY <2>2 DEF TypeOK, QuietInv
  <2>4. CASE quiet' = Later(quiet) /\ sinceInput' = Later(sinceInput)
    BY <2>3, <2>4 DEF Later
  <2>5. CASE UNCHANGED <<quiet, sinceInput>>
    BY <2>3, <2>5
  <2>6. QED
    BY <1>17, <2>4, <2>5 DEF Sleep
<1>18. CASE SignalStop
  BY <1>18 DEF SignalStop, idrVars, frameVars, rateVars, bitrateVars,
      publisherVars, TypeOK, QuietInv
<1>19. CASE SignalIdr
  BY <1>19 DEF SignalIdr, frameVars, rateVars, bitrateVars, publisherVars,
      TypeOK, QuietInv
<1>20. CASE SignalActivity
  BY <1>20 DEF SignalActivity, idrVars, frameVars, bitrateVars, publisherVars,
      TypeOK, QuietInv
<1>21. CASE TakePacket
  BY <1>21 DEF TakePacket, idrVars, rateVars, bitrateVars, publisherVars,
      TypeOK, QuietInv
<1>22. CASE Retarget
  BY <1>22 DEF Retarget, idrVars, frameVars, rateVars, TypeOK, QuietInv
<1>23. CASE Publish
  BY <1>23 DEF Publish, idrVars, frameVars, rateVars, TypeOK, QuietInv
<1>24. CASE UNCHANGED vars
  BY <1>24 DEF vars, idrVars, frameVars, rateVars, publisherVars, bitrateVars,
      TypeOK, QuietInv
<1>25. QED
  BY <1>1, <1>2, <1>3, <1>4, <1>5, <1>6, <1>7, <1>8, <1>9, <1>10, <1>11, <1>12,
      <1>13, <1>14, <1>15, <1>16, <1>17, <1>18, <1>19, <1>20, <1>21, <1>22,
      <1>23, <1>24 DEF Next, LoopStep, Signal

\* The invariant holds in every behaviour.
LEMMA Inductive == Spec => []IInv
<1>1. Init => IInv
  BY SlotsAssumption, PartsAssumption, IdleAssumption
  DEF Init, IInv, TypeOK, Steps, NoStaleFrame, QuietInv
<1>2. IInv /\ [Next]_vars => IInv'
  BY TypeStep, FrameStep, QuietStep DEF IInv
<1>3. QED
  BY <1>1, <1>2, PTL DEF Spec

-------------------------------------------------------------------------------
(* The theorems. *)

\* MPP never gets a frame while it holds packets of the one before, and the
\* variables keep their types.
THEOREM FramesAreDrained == Spec => [](TypeOK /\ NoStaleFrame)
<1>1. IInv => TypeOK /\ NoStaleFrame
  BY DEF IInv
<1>2. QED
  BY <1>1, Inductive, PTL

\* The idle rate is entered only IdleAfter frame intervals after the last input,
\* wherever in the loop the input signal came.
THEOREM IdleRateIsEarned == Spec => IdleIsEarned
<1>1. IInv /\ [Next]_vars => [idle = 0 /\ idle' = 1 => sinceInput = IdleAfter \/ activity = 1]_vars
  <2> SUFFICES ASSUME IInv, Next, idle = 0, idle' = 1
               PROVE  sinceInput = IdleAfter \/ activity = 1
    OBVIOUS
  <2>1. SmallFrame
    BY DEF Next, LoopStep, Signal, Top, Stops, BitrateKept, BitrateApplied, BitrateRefused,
      SeeActivity, Capture, Fails, TakeIdrRequest, Control, Put, GetPacket, WritePacket,
      WriteGivesUp, LargeFrame, Sleep, SignalStop, SignalIdr, SignalActivity, TakePacket,
      Retarget, Publish, rateVars
  <2>2. tracking = 1 /\ quiet = IdleAfter
    BY <2>1 DEF SmallFrame
  <2>3. QED
    BY <2>2, IdleAssumption DEF IInv, TypeOK, QuietInv
<1>2. QED
  BY <1>1, Inductive, PTL DEF Spec, IdleIsEarned

\* Until a request for an IDR is served or refused, the encoder knows of it: the
\* flag is up, the loop is about to tell MPP, or MPP was told and the next frame is
\* an IDR.  It is never lost between two of them.
RequestIsKept == owed = 1 => forceIdr = 1 \/ pc = "control" \/ nextIdr = 1

\* A request for an IDR is in the flag, on its way to MPP, or in MPP, until an IDR is
\* encoded or MPP refuses: the flag is taken back before MPP is told, never after, so
\* that no request that comes meanwhile is wiped out.
THEOREM RequestsAreKept == Spec => []RequestIsKept
<1>1. Init => RequestIsKept
  BY DEF Init, RequestIsKept
<1>2. TypeOK /\ RequestIsKept /\ [Next]_vars => RequestIsKept'
  <2> SUFFICES ASSUME TypeOK, RequestIsKept, [Next]_vars PROVE RequestIsKept'
    OBVIOUS
  <2>1. CASE TakeIdrRequest
    BY <2>1 DEF TakeIdrRequest, RequestIsKept, TypeOK
  <2>2. CASE Control
    BY <2>2 DEF Control, Goes, RequestIsKept
  <2>3. CASE Put
    <3>1. pc = "put" /\ forceIdr' = forceIdr /\ owed' = IF nextIdr = 1 THEN 0 ELSE owed
      BY <2>3 DEF Put, Goes
    <3> QED BY <3>1 DEF RequestIsKept
  <2>4. CASE SignalIdr
    BY <2>4 DEF SignalIdr, RequestIsKept
  <2>5. CASE ~TakeIdrRequest /\ ~Control /\ ~Put /\ ~SignalIdr
    <3>1. forceIdr' = forceIdr /\ nextIdr' = nextIdr /\ owed' = owed
      BY <2>5 DEF Next, LoopStep, Signal, Top, Stops, BitrateKept, BitrateApplied, BitrateRefused,
        SeeActivity, Capture, Fails, GetPacket, WritePacket, WriteGivesUp, LargeFrame, SmallFrame,
        Sleep, SignalStop, SignalActivity, TakePacket, Retarget, Publish, idrVars, vars
    <3>2. pc = "control" => pc' = "control"
      BY <2>5 DEF Next, LoopStep, Signal, Goes, Top, Stops, BitrateKept, BitrateApplied,
        BitrateRefused, SeeActivity, Capture, Fails, GetPacket, WritePacket, WriteGivesUp,
        LargeFrame, SmallFrame, Sleep, SignalStop, SignalActivity, TakePacket, Retarget, Publish,
        vars
    <3> QED BY <3>1, <3>2 DEF RequestIsKept
  <2> QED BY <2>1, <2>2, <2>3, <2>4, <2>5
<1>3. IInv => TypeOK
  BY DEF IInv
<1> QED BY <1>1, <1>2, <1>3, Inductive, PTL DEF Spec

===============================================================================
