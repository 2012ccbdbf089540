----------------------------- MODULE FramesProofs -----------------------------
(***************************************************************************)
(* Proofs about Frames, for every number of framebuffers, handles, buffers *)
(* and modes, with and without GETFB2, and every size of screen and cursor.*)
(***************************************************************************)
EXTENDS Frames, TLAPS

\* A framebuffer and an open handle have a buffer behind them, a framebuffer its
\* own, and a call that asks for a framebuffer has its id.
KernelInv ==
  /\ \A i \in Ids : fbs[i] # 0 => kind[fbs[i]].mode # "none"
  /\ \A i, j \in Ids : fbs[i] # 0 /\ fbs[i] = fbs[j] => i = j
  /\ \A h \in Handles : handles[h] # 0 => kind[handles[h]].mode # "none"
  /\ pc \in {"first", "getfb", "getcursor"} => plane \in Ids

\* Frame f says what buffer o is, and its handle keeps o open.
Describes(f, o) ==
  /\ f.handle \in Handles /\ o # 0 /\ o = handles[f.handle]
  /\ f.mode = kind[o].mode
  /\ HasFb2 = 1 /\ try_fb2 = 1 => f.format = kind[o].format

\* The frame at hand and the keys of both imports describe their buffers, and
\* what has passed the check has the mode of the start.
ImportInv ==
  /\ src.object # 0 => Describes(src.key, src.object)
  /\ cursor.object # 0 => Describes(cursor.key, cursor.object)
  /\ pc \in {"check", "import", "stage", "ensure", "blend"} => Describes(cur, handles[cur.handle])
  /\ pc \in {"import", "stage"} => cur.mode = cap.mode /\ cur.format = cap.format
  /\ pc = "stage" => src.key = cur
  /\ pc \in {"stage", "plane", "getcursor", "ensure", "blend", "convert"} =>
       src.object # 0 /\ src.key.mode = cap.mode /\ src.key.format = cap.format
  /\ pc = "blend" => cursor.key = cur /\ cursor.object # 0

\* MPP is empty from the end of a frame to the submission of the next one, and
\* the buffers are released last.
MppInv ==
  /\ pc \notin {"drain", "release", "reset"} => encoding = -1
  /\ pc \in {"find", "first", "setup", "free", "ended"} => owned = {}
  /\ freed = 1 => pc = "ended"

IInv == TypeOK /\ KernelInv /\ ImportInv /\ MppInv /\ BlendFits

-------------------------------------------------------------------------------
(* Cursors at the edge of the screen. *)

\* Whatever the place and the size of a cursor, what is blended of it lies within
\* its picture and the screen, and is even.
LEMMA BlendedFits ==
  ASSUME NEW x \in Int, NEW size \in Nat, NEW image \in Nat, x <= Screen
  PROVE  LET r == Blended(x, size, image)
         IN  /\ r \in [src : Int, dst : Int, len : Int, image : Int]
             /\ r.src >= 0 /\ r.src + r.len <= r.image
             /\ r.dst >= 0 /\ r.dst + r.len <= Screen
             /\ r.src % 2 = 0 /\ r.len % 2 = 0
<1> DEFINE c == Clipped(x, size, image)
           odd == c.src % 2
           len == c.len + odd
           room == c.src - odd + len < image /\ c.dst + len < Screen
           even == IF len % 2 = 0 THEN len ELSE IF room THEN len + 1 ELSE len - 1
<1>1. Screen \in Nat /\ Screen % 2 = 0
  BY FramesAssumption
<1>2. /\ c.src \in Nat /\ c.dst \in Nat /\ c.len \in Int
      /\ c.len <= image - c.src /\ c.len <= Screen - c.dst
      /\ c.src = 0 \/ c.dst = 0
  BY <1>1 DEF Clipped, Least
<1>3. odd \in {0, 1} /\ (c.src - odd) % 2 = 0 /\ c.src - odd >= 0
  <2> HIDE DEF c
  <2>1. QED
    BY <1>2
<1>4. CASE c.on = 0 \/ c.len <= 0 \/ even < 2
  <2>1. Blended(x, size, image) = NoRect
    BY <1>4 DEF Blended
  <2>2. QED
    BY <2>1, <1>1 DEF NoRect
<1>5. CASE ~(c.on = 0 \/ c.len <= 0 \/ even < 2)
  <2>1. Blended(x, size, image) =
          [src |-> c.src - odd, dst |-> c.dst, len |-> even, image |-> image]
    BY <1>5 DEF Blended
  <2> HIDE DEF c, odd
  <2>2. len \in Int /\ c.src - odd + len = c.src + c.len
    BY <1>2, <1>3
  <2>3. even \in Int /\ even % 2 = 0
    BY <2>2
  <2>4. c.src - odd + even <= image
    BY <2>2, <1>2, <1>3
  <2>5. c.dst + even <= Screen
    <3>1. CASE odd = 0
      <4>1. len <= Screen - c.dst
        BY <3>1, <1>2, <1>1
      <4>2. QED
        BY <4>1, <2>2, <1>1, <1>2
    <3>2. CASE odd = 1
      <4>1. c.dst = 0 /\ len <= Screen + 1
        <5>1. c.src # 0
          BY <3>2 DEF odd
        <5>2. QED
          BY <5>1, <3>2, <1>1, <1>2
      <4>2. len % 2 = 0 => len <= Screen
        BY <4>1, <2>2, <1>1
      <4>3. QED
        BY <4>1, <4>2, <2>2, <1>1
    <3>3. QED
      BY <3>1, <3>2, <1>3
  <2> HIDE DEF even
  <2>6. QED
    BY <2>1, <2>3, <2>4, <2>5, <1>2, <1>3
<1>6. QED
  BY <1>4, <1>5

-------------------------------------------------------------------------------
(* The parts of the invariant. *)

\* get_capture_fb yields a frame, by a handle that was open or is now.
LEMMA GotType ==
  ASSUME TypeOK, plane \in Ids, Got
  PROVE  /\ handles' \in [Handles -> Objects \cup {0}]
         /\ cur' \in FrameType
         /\ try_fb2' \in {0, 1} /\ plane' = 0
<1>1. PICK h \in Handles :
        /\ fbs[plane] \in Objects
        /\ Opened(h, fbs[plane])
        /\ \E f \in Formats : cur' = [id |-> plane, handle |-> h, mode |-> kind[fbs[plane]].mode, format |-> f]
        /\ try_fb2' \in {0, 1} /\ plane' = 0
  BY DEF Got, TypeOK, Legacy, Formats
<1>2. handles' \in [Handles -> Objects \cup {0}]
  BY <1>1 DEF Opened, TypeOK
<1>3. cur' \in FrameType
  BY <1>1 DEF TypeOK, FrameType
<1>4. QED
  BY <1>1, <1>2, <1>3

\* Each step keeps the variables in their sets.
LEMMA TypeStep == TypeOK /\ KernelInv /\ ImportInv /\ [Next]_vars => TypeOK'
<1> SUFFICES ASSUME TypeOK, KernelInv, ImportInv, [Next]_vars PROVE TypeOK'
  OBVIOUS
<1>1. CASE AddFb
  BY <1>1 DEF AddFb, None, Watched, kernelVars, encoderVars, importVars, mppVars,
      endVars, TypeOK, FrameType, Formats
<1>2. CASE \E p \in Planes : Flip(p)
  BY <1>2 DEF Flip, Watched, kernelVars, encoderVars, importVars, mppVars, endVars,
      TypeOK, FrameType, Formats
<1>3. CASE \E i \in Ids : RmFb(i)
  BY <1>3 DEF RmFb, None, Watched, kernelVars, encoderVars, importVars, mppVars,
      endVars, TypeOK, FrameType, Formats
<1>4. CASE FindDisplay
  BY <1>4 DEF FindDisplay, Goto, kernelVars, importVars, mppVars, TypeOK, Planes
<1>5. CASE FirstFrame
  <2> USE <1>5 DEF FirstFrame
  <2>1. CASE Got
    <3>1. plane \in Ids
      BY DEF KernelInv
    <3>2. /\ handles' \in [Handles -> Objects \cup {0}] /\ cur' \in FrameType
          /\ try_fb2' \in {0, 1} /\ plane' = 0
      BY <2>1, <3>1, GotType
    <3>3. QED
      BY <3>2, <2>1 DEF Goto, Fail, TypeOK, kernelVars, importVars, mppVars, endVars
  <2>2. CASE NotGot
    BY <2>2 DEF NotGot, TypeOK, Goto, Fail, kernelVars, importVars, mppVars, endVars
  <2>3. QED
    BY <2>1, <2>2
<1>6. CASE SetUp
  BY <1>6 DEF SetUp, Goto, kernelVars, encoderVars, importVars, mppVars, endVars,
      TypeOK, FrameType, Formats
<1>7. CASE ReadCrtc
  BY <1>7 DEF ReadCrtc, Goto, Fail, kernelVars, importVars, mppVars, TypeOK, Planes
<1>8. CASE GetFrame
  <2> USE <1>8 DEF GetFrame
  <2>1. CASE Got
    <3>1. plane \in Ids
      BY DEF KernelInv
    <3>2. /\ handles' \in [Handles -> Objects \cup {0}] /\ cur' \in FrameType
          /\ try_fb2' \in {0, 1} /\ plane' = 0
      BY <2>1, <3>1, GotType
    <3>3. QED
      BY <3>2, <2>1 DEF Goto, Fail, TypeOK, kernelVars, importVars, mppVars, endVars
  <2>2. CASE NotGot
    BY <2>2 DEF NotGot, TypeOK, Goto, Fail, kernelVars, importVars, mppVars, endVars
  <2>3. QED
    BY <2>1, <2>2
<1>9. CASE CheckMode
  BY <1>9 DEF CheckMode, Goto, Fail, kernelVars, encoderVars, importVars, mppVars,
      endVars, TypeOK, FrameType, Formats
<1>10. CASE EnsureSrc
  <2>1. Imported \in [key : FrameType, object : Objects \cup {0}]
    BY <1>10 DEF EnsureSrc, Imported, ImportInv, Describes, TypeOK
  <2>2. NoImport \in [key : FrameType, object : Objects \cup {0}]
    BY DEF NoImport, NoFrame, FrameType, Formats
  <2>3. QED
    BY <1>10, <2>1, <2>2 DEF EnsureSrc, Goto, Fail, TypeOK, kernelVars, mppVars
<1>11. CASE CopyToStage
  BY <1>11 DEF CopyToStage, Goto, Fail, kernelVars, encoderVars, importVars, mppVars,
      endVars, TypeOK, FrameType, Formats
<1>12. CASE FindCursor
  <2>1. NoFrame \in FrameType /\ NoImport \in [key : FrameType, object : Objects \cup {0}]
    BY DEF NoImport, NoFrame, FrameType, Formats
  <2>2. QED
    BY <1>12, <2>1 DEF FindCursor, Fail, Goto, kernelVars, mppVars, endVars, TypeOK,
        Planes
<1>13. CASE GetCursor
  <2> USE <1>13 DEF GetCursor
  <2>1. CASE Got
    <3>1. plane \in Ids
      BY DEF KernelInv
    <3>2. /\ handles' \in [Handles -> Objects \cup {0}] /\ cur' \in FrameType
          /\ try_fb2' \in {0, 1} /\ plane' = 0
      BY <2>1, <3>1, GotType
    <3>3. QED
      BY <3>2, <2>1 DEF Goto, Fail, TypeOK, kernelVars, importVars, mppVars, endVars,
          NoImport, NoFrame, FrameType, Formats
  <2>2. CASE NotGot
    BY <2>2 DEF NotGot, TypeOK, Goto, Fail, kernelVars, importVars, mppVars, endVars,
        NoImport, NoFrame, FrameType, Formats
  <2>3. QED
    BY <2>1, <2>2
<1>14. CASE EnsureCursor
  <2>1. Imported \in [key : FrameType, object : Objects \cup {0}]
    BY <1>14 DEF EnsureCursor, Imported, ImportInv, Describes, TypeOK
  <2>2. NoImport \in [key : FrameType, object : Objects \cup {0}]
    BY DEF NoImport, NoFrame, FrameType, Formats
  <2>3. QED
    BY <1>14, <2>1, <2>2 DEF EnsureCursor, Goto, Fail, TypeOK, kernelVars, mppVars
<1>15. CASE Blend
  <2>1. NoFrame \in FrameType /\ NoRect \in [src : Int, dst : Int, len : Int, image : Int]
    BY DEF NoFrame, FrameType, Formats, NoRect
  <2>2. rect' \in [src : Int, dst : Int, len : Int, image : Int]
    <3>1. CASE rect' = NoRect
      BY <3>1, <2>1
    <3>2. CASE \E x \in Places : \E size, image \in Images : rect' = Blended(x, size, image)
      <4>1. PICK x \in Places, size \in Images, image \in Images : rect' = Blended(x, size, image)
        BY <3>2
      <4>2. x \in Int /\ x <= Screen /\ size \in Nat /\ image \in Nat
        BY FramesAssumption DEF Places
      <4>3. QED
        BY <4>1, <4>2, BlendedFits
    <3>3. QED
      BY <1>15, <3>1, <3>2 DEF Blend
  <2>3. QED
    BY <1>15, <2>1, <2>2 DEF Blend, Goto, kernelVars, mppVars, endVars, TypeOK
<1>16. CASE Convert
  BY <1>16 DEF Convert, NoRect, Goto, Fail, kernelVars, mppVars, TypeOK
<1>17. CASE Put
  BY <1>17 DEF Put, Goto, kernelVars, encoderVars, importVars, mppVars, endVars,
      TypeOK, FrameType, Formats
<1>18. CASE Drain
  <2>1. frame' \in Buffers
    BY <1>18, FramesAssumption DEF Drain, Buffers, TypeOK
  <2>2. QED
    BY <1>18, <2>1 DEF Drain, Goto, kernelVars, importVars, endVars, TypeOK
<1>19. CASE BreakOff
  BY <1>19 DEF BreakOff, Goto, kernelVars, encoderVars, importVars, mppVars, endVars,
      TypeOK, FrameType, Formats
<1>20. CASE ReleaseImports
  BY <1>20 DEF ReleaseImports, NoImport, NoFrame, Goto, kernelVars, encoderVars,
      importVars, mppVars, endVars, TypeOK, FrameType, Formats
<1>21. CASE ResetMpp
  BY <1>21 DEF ResetMpp, Goto, kernelVars, encoderVars, importVars, mppVars, endVars,
      TypeOK, FrameType, Formats
<1>22. CASE FreeBuffers
  BY <1>22 DEF FreeBuffers, Goto, kernelVars, encoderVars, importVars, mppVars,
      endVars, TypeOK, FrameType, Formats
<1>23. CASE OnSignal
  BY <1>23 DEF OnSignal, kernelVars, encoderVars, importVars, mppVars, endVars,
      TypeOK, FrameType, Formats
<1>24. CASE UNCHANGED vars
  BY <1>24 DEF vars, kernelVars, encoderVars, importVars, mppVars, endVars, TypeOK,
      FrameType, Formats
<1>25. QED
  BY <1>1, <1>2, <1>3, <1>4, <1>5, <1>6, <1>7, <1>8, <1>9, <1>10, <1>11, <1>12, <1>13,
      <1>14, <1>15, <1>16, <1>17, <1>18, <1>19, <1>20, <1>21, <1>22, <1>23, <1>24
    DEF Next, Compositor, Encoder

\* A number that is given out again names the new buffer only.
LEMMA KernelStep == TypeOK /\ KernelInv /\ [Next]_vars => KernelInv'
<1> SUFFICES ASSUME TypeOK, KernelInv, [Next]_vars PROVE KernelInv'
  OBVIOUS
<1>1. CASE AddFb
  <2>1. PICK o \in Objects, i \in Ids, m \in Modes, f \in Formats :
          /\ kind[o] = None /\ fbs[i] = 0
          /\ kind' = [kind EXCEPT ![o] = [mode |-> m, format |-> f]]
          /\ fbs' = [fbs EXCEPT ![i] = o]
          /\ UNCHANGED <<handles, pc, plane>>
    BY <1>1 DEF AddFb, encoderVars
  <2>2. kind[o].mode = "none" /\ m # "none"
    BY <2>1, FramesAssumption DEF None
  <2>3. /\ \A j \in Ids : fbs[j] # o
        /\ \A h \in Handles : handles[h] # o
    BY <2>2, FramesAssumption DEF KernelInv, Objects
  <2>4. \A n \in Objects : kind'[n].mode = IF n = o THEN m ELSE kind[n].mode
    BY <2>1 DEF TypeOK
  <2>5. \A j \in Ids : fbs'[j] = IF j = i THEN o ELSE fbs[j]
    BY <2>1 DEF TypeOK
  <2>6. QED
    BY <2>1, <2>2, <2>3, <2>4, <2>5 DEF KernelInv, TypeOK
<1>2. CASE \E p \in Planes : Flip(p)
  BY <1>2 DEF Flip, Watched, kernelVars, encoderVars, importVars, mppVars, endVars,
      TypeOK, KernelInv
<1>3. CASE \E i \in Ids : RmFb(i)
  BY <1>3 DEF RmFb, None, Watched, kernelVars, encoderVars, importVars, mppVars,
      endVars, TypeOK, KernelInv
<1>4. CASE FindDisplay
  BY <1>4 DEF FindDisplay, Goto, kernelVars, TypeOK, KernelInv, Planes
<1>5. CASE FirstFrame
  BY <1>5 DEF FirstFrame, Got, NotGot, Opened, Fb2, Legacy, Goto, kernelVars,
      encoderVars, importVars, mppVars, endVars, TypeOK, KernelInv
<1>6. CASE SetUp
  BY <1>6 DEF SetUp, Goto, kernelVars, encoderVars, importVars, mppVars, endVars,
      TypeOK, KernelInv
<1>7. CASE ReadCrtc
  BY <1>7 DEF ReadCrtc, Goto, Fail, kernelVars, TypeOK, KernelInv, Planes
<1>8. CASE GetFrame
  BY <1>8 DEF GetFrame, Got, NotGot, Opened, Fb2, Legacy, Goto, Fail, kernelVars,
      encoderVars, importVars, mppVars, endVars, TypeOK, KernelInv
<1>9. CASE CheckMode
  BY <1>9 DEF CheckMode, Goto, Fail, kernelVars, encoderVars, importVars, mppVars,
      endVars, TypeOK, KernelInv
<1>10. CASE EnsureSrc
  BY <1>10 DEF EnsureSrc, Hit, Imported, NoImport, NoFrame, Goto, Fail, kernelVars,
      encoderVars, importVars, mppVars, endVars, TypeOK, KernelInv
<1>11. CASE CopyToStage
  BY <1>11 DEF CopyToStage, Goto, Fail, kernelVars, encoderVars, importVars, mppVars,
      endVars, TypeOK, KernelInv
<1>12. CASE FindCursor
  BY <1>12 DEF FindCursor, Fail, Goto, kernelVars, TypeOK, KernelInv, Planes
<1>13. CASE GetCursor
  BY <1>13 DEF GetCursor, Got, NotGot, Opened, Fb2, Legacy, NoImport, NoFrame, Goto,
      kernelVars, encoderVars, importVars, mppVars, endVars, TypeOK, KernelInv
<1>14. CASE EnsureCursor
  BY <1>14 DEF EnsureCursor, Hit, Imported, NoImport, NoFrame, Goto, Fail, kernelVars,
      encoderVars, importVars, mppVars, endVars, TypeOK, KernelInv
<1>15. CASE Blend
  BY <1>15 DEF Blend, NoFrame, Goto, kernelVars, encoderVars, importVars, mppVars,
      endVars, TypeOK, KernelInv
<1>16. CASE Convert
  BY <1>16 DEF Convert, Goto, Fail, kernelVars, encoderVars, importVars, mppVars,
      endVars, TypeOK, KernelInv
<1>17. CASE Put
  BY <1>17 DEF Put, Goto, kernelVars, encoderVars, importVars, mppVars, endVars,
      TypeOK, KernelInv
<1>18. CASE Drain
  BY <1>18 DEF Drain, Goto, kernelVars, encoderVars, importVars, mppVars, endVars,
      TypeOK, KernelInv
<1>19. CASE BreakOff
  BY <1>19 DEF BreakOff, Goto, kernelVars, encoderVars, importVars, mppVars, endVars,
      TypeOK, KernelInv
<1>20. CASE ReleaseImports
  BY <1>20 DEF ReleaseImports, NoImport, NoFrame, Goto, kernelVars, encoderVars,
      importVars, mppVars, endVars, TypeOK, KernelInv
<1>21. CASE ResetMpp
  BY <1>21 DEF ResetMpp, Goto, kernelVars, encoderVars, importVars, mppVars, endVars,
      TypeOK, KernelInv
<1>22. CASE FreeBuffers
  BY <1>22 DEF FreeBuffers, Goto, kernelVars, encoderVars, importVars, mppVars,
      endVars, TypeOK, KernelInv
<1>23. CASE OnSignal
  BY <1>23 DEF OnSignal, kernelVars, encoderVars, importVars, mppVars, endVars,
      TypeOK, KernelInv
<1>24. CASE UNCHANGED vars
  BY <1>24 DEF vars, kernelVars, encoderVars, importVars, mppVars, endVars, TypeOK,
      KernelInv
<1>25. QED
  BY <1>1, <1>2, <1>3, <1>4, <1>5, <1>6, <1>7, <1>8, <1>9, <1>10, <1>11, <1>12, <1>13,
      <1>14, <1>15, <1>16, <1>17, <1>18, <1>19, <1>20, <1>21, <1>22, <1>23, <1>24
    DEF Next, Compositor, Encoder

\* A handle that is open keeps its buffer, so that what describes it goes on doing so.
LEMMA ImportStep == TypeOK /\ KernelInv /\ ImportInv /\ [Next]_vars => ImportInv'
<1> SUFFICES ASSUME TypeOK, KernelInv, ImportInv, [Next]_vars PROVE ImportInv'
  OBVIOUS
<1>1. CASE AddFb
  BY <1>1 DEF AddFb, None, Watched, kernelVars, encoderVars, importVars, mppVars,
      endVars, TypeOK, KernelInv, ImportInv, Describes
<1>2. CASE \E p \in Planes : Flip(p)
  BY <1>2 DEF Flip, Watched, kernelVars, encoderVars, importVars, mppVars, endVars,
      TypeOK, KernelInv, ImportInv, Describes
<1>3. CASE \E i \in Ids : RmFb(i)
  BY <1>3 DEF RmFb, None, Watched, kernelVars, encoderVars, importVars, mppVars,
      endVars, TypeOK, KernelInv, ImportInv, Describes
<1>4. CASE FindDisplay
  BY <1>4 DEF FindDisplay, Goto, kernelVars, encoderVars, importVars, mppVars,
      endVars, TypeOK, KernelInv, ImportInv, Describes
<1>5. CASE FirstFrame
  BY <1>5 DEF FirstFrame, Got, NotGot, Opened, Fb2, Legacy, Goto, kernelVars,
      encoderVars, importVars, mppVars, endVars, TypeOK, KernelInv, ImportInv, Describes
<1>6. CASE SetUp
  BY <1>6 DEF SetUp, Goto, kernelVars, encoderVars, importVars, mppVars, endVars,
      TypeOK, KernelInv, ImportInv, Describes
<1>7. CASE ReadCrtc
  BY <1>7 DEF ReadCrtc, Goto, Fail, kernelVars, encoderVars, importVars, mppVars,
      endVars, TypeOK, KernelInv, ImportInv, Describes
<1>8. CASE GetFrame
  BY <1>8 DEF GetFrame, Got, NotGot, Opened, Fb2, Legacy, Goto, Fail, kernelVars,
      encoderVars, importVars, mppVars, endVars, TypeOK, KernelInv, ImportInv, Describes
<1>9. CASE CheckMode
  BY <1>9 DEF CheckMode, Goto, Fail, kernelVars, encoderVars, importVars, mppVars,
      endVars, TypeOK, KernelInv, ImportInv, Describes
<1>10. CASE EnsureSrc
  BY <1>10 DEF EnsureSrc, Hit, Imported, NoImport, NoFrame, Goto, Fail, kernelVars,
      encoderVars, importVars, mppVars, endVars, TypeOK, KernelInv, ImportInv, Describes
<1>11. CASE CopyToStage
  BY <1>11 DEF CopyToStage, Goto, Fail, kernelVars, encoderVars, importVars, mppVars,
      endVars, TypeOK, KernelInv, ImportInv, Describes
<1>12. CASE FindCursor
  BY <1>12 DEF FindCursor, Fail, NoImport, NoFrame, Goto, kernelVars, encoderVars,
      importVars, mppVars, endVars, TypeOK, KernelInv, ImportInv, Describes
<1>13. CASE GetCursor
  BY <1>13 DEF GetCursor, Got, NotGot, Opened, Fb2, Legacy, NoImport, NoFrame, Goto,
      kernelVars, encoderVars, importVars, mppVars, endVars, TypeOK, KernelInv,
      ImportInv, Describes
<1>14. CASE EnsureCursor
  BY <1>14 DEF EnsureCursor, Hit, Imported, NoImport, NoFrame, Goto, Fail, kernelVars,
      encoderVars, importVars, mppVars, endVars, TypeOK, KernelInv, ImportInv, Describes
<1>15. CASE Blend
  BY <1>15 DEF Blend, NoFrame, Goto, kernelVars, encoderVars, importVars, mppVars,
      endVars, TypeOK, KernelInv, ImportInv, Describes
<1>16. CASE Convert
  BY <1>16 DEF Convert, Goto, Fail, kernelVars, encoderVars, importVars, mppVars,
      endVars, TypeOK, KernelInv, ImportInv, Describes
<1>17. CASE Put
  BY <1>17 DEF Put, Goto, kernelVars, encoderVars, importVars, mppVars, endVars,
      TypeOK, KernelInv, ImportInv, Describes
<1>18. CASE Drain
  BY <1>18 DEF Drain, Goto, kernelVars, encoderVars, importVars, mppVars, endVars,
      TypeOK, KernelInv, ImportInv, Describes
<1>19. CASE BreakOff
  BY <1>19 DEF BreakOff, Goto, kernelVars, encoderVars, importVars, mppVars, endVars,
      TypeOK, KernelInv, ImportInv, Describes
<1>20. CASE ReleaseImports
  BY <1>20 DEF ReleaseImports, NoImport, NoFrame, Goto, kernelVars, encoderVars,
      importVars, mppVars, endVars, TypeOK, KernelInv, ImportInv, Describes
<1>21. CASE ResetMpp
  BY <1>21 DEF ResetMpp, Goto, kernelVars, encoderVars, importVars, mppVars, endVars,
      TypeOK, KernelInv, ImportInv, Describes
<1>22. CASE FreeBuffers
  BY <1>22 DEF FreeBuffers, Goto, kernelVars, encoderVars, importVars, mppVars,
      endVars, TypeOK, KernelInv, ImportInv, Describes
<1>23. CASE OnSignal
  BY <1>23 DEF OnSignal, kernelVars, encoderVars, importVars, mppVars, endVars,
      TypeOK, KernelInv, ImportInv, Describes
<1>24. CASE UNCHANGED vars
  BY <1>24 DEF vars, kernelVars, encoderVars, importVars, mppVars, endVars, TypeOK,
      KernelInv, ImportInv, Describes
<1>25. QED
  BY <1>1, <1>2, <1>3, <1>4, <1>5, <1>6, <1>7, <1>8, <1>9, <1>10, <1>11, <1>12, <1>13,
      <1>14, <1>15, <1>16, <1>17, <1>18, <1>19, <1>20, <1>21, <1>22, <1>23, <1>24
    DEF Next, Compositor, Encoder

\* A frame is out of MPP before the next one, and MPP is reset before the end.
LEMMA MppStep == TypeOK /\ MppInv /\ [Next]_vars => MppInv'
<1> SUFFICES ASSUME TypeOK, MppInv, [Next]_vars PROVE MppInv'
  OBVIOUS
<1>1. CASE AddFb
  BY <1>1 DEF AddFb, None, Watched, kernelVars, encoderVars, importVars, mppVars,
      endVars, TypeOK, MppInv
<1>2. CASE \E p \in Planes : Flip(p)
  BY <1>2 DEF Flip, Watched, kernelVars, encoderVars, importVars, mppVars, endVars,
      TypeOK, MppInv
<1>3. CASE \E i \in Ids : RmFb(i)
  BY <1>3 DEF RmFb, None, Watched, kernelVars, encoderVars, importVars, mppVars,
      endVars, TypeOK, MppInv
<1>4. CASE FindDisplay
  BY <1>4 DEF FindDisplay, Goto, kernelVars, encoderVars, importVars, mppVars,
      endVars, TypeOK, MppInv
<1>5. CASE FirstFrame
  BY <1>5 DEF FirstFrame, Got, NotGot, Opened, Fb2, Legacy, Goto, kernelVars,
      encoderVars, importVars, mppVars, endVars, TypeOK, MppInv
<1>6. CASE SetUp
  BY <1>6 DEF SetUp, Goto, kernelVars, encoderVars, importVars, mppVars, endVars,
      TypeOK, MppInv
<1>7. CASE ReadCrtc
  BY <1>7 DEF ReadCrtc, Goto, Fail, kernelVars, encoderVars, importVars, mppVars,
      endVars, TypeOK, MppInv
<1>8. CASE GetFrame
  BY <1>8 DEF GetFrame, Got, NotGot, Opened, Fb2, Legacy, Goto, Fail, kernelVars,
      encoderVars, importVars, mppVars, endVars, TypeOK, MppInv
<1>9. CASE CheckMode
  BY <1>9 DEF CheckMode, Goto, Fail, kernelVars, encoderVars, importVars, mppVars,
      endVars, TypeOK, MppInv
<1>10. CASE EnsureSrc
  BY <1>10 DEF EnsureSrc, Hit, Imported, NoImport, NoFrame, Goto, Fail, kernelVars,
      encoderVars, importVars, mppVars, endVars, TypeOK, MppInv
<1>11. CASE CopyToStage
  BY <1>11 DEF CopyToStage, Goto, Fail, kernelVars, encoderVars, importVars, mppVars,
      endVars, TypeOK, MppInv
<1>12. CASE FindCursor
  BY <1>12 DEF FindCursor, Fail, NoImport, NoFrame, Goto, kernelVars, encoderVars,
      importVars, mppVars, endVars, TypeOK, MppInv
<1>13. CASE GetCursor
  BY <1>13 DEF GetCursor, Got, NotGot, Opened, Fb2, Legacy, NoImport, NoFrame, Goto,
      kernelVars, encoderVars, importVars, mppVars, endVars, TypeOK, MppInv
<1>14. CASE EnsureCursor
  BY <1>14 DEF EnsureCursor, Hit, Imported, NoImport, NoFrame, Goto, Fail, kernelVars,
      encoderVars, importVars, mppVars, endVars, TypeOK, MppInv
<1>15. CASE Blend
  BY <1>15 DEF Blend, NoFrame, Goto, kernelVars, encoderVars, importVars, mppVars,
      endVars, TypeOK, MppInv
<1>16. CASE Convert
  BY <1>16 DEF Convert, Goto, Fail, kernelVars, encoderVars, importVars, mppVars,
      endVars, TypeOK, MppInv
<1>17. CASE Put
  BY <1>17 DEF Put, Goto, kernelVars, encoderVars, importVars, mppVars, endVars,
      TypeOK, MppInv
<1>18. CASE Drain
  BY <1>18 DEF Drain, Goto, kernelVars, encoderVars, importVars, mppVars, endVars,
      TypeOK, MppInv
<1>19. CASE BreakOff
  BY <1>19 DEF BreakOff, Goto, kernelVars, encoderVars, importVars, mppVars, endVars,
      TypeOK, MppInv
<1>20. CASE ReleaseImports
  BY <1>20 DEF ReleaseImports, NoImport, NoFrame, Goto, kernelVars, encoderVars,
      importVars, mppVars, endVars, TypeOK, MppInv
<1>21. CASE ResetMpp
  BY <1>21 DEF ResetMpp, Goto, kernelVars, encoderVars, importVars, mppVars, endVars,
      TypeOK, MppInv
<1>22. CASE FreeBuffers
  BY <1>22 DEF FreeBuffers, Goto, kernelVars, encoderVars, importVars, mppVars,
      endVars, TypeOK, MppInv
<1>23. CASE OnSignal
  BY <1>23 DEF OnSignal, kernelVars, encoderVars, importVars, mppVars, endVars,
      TypeOK, MppInv
<1>24. CASE UNCHANGED vars
  BY <1>24 DEF vars, kernelVars, encoderVars, importVars, mppVars, endVars, TypeOK,
      MppInv
<1>25. QED
  BY <1>1, <1>2, <1>3, <1>4, <1>5, <1>6, <1>7, <1>8, <1>9, <1>10, <1>11, <1>12, <1>13,
      <1>14, <1>15, <1>16, <1>17, <1>18, <1>19, <1>20, <1>21, <1>22, <1>23, <1>24
    DEF Next, Compositor, Encoder

\* Only a blended cursor gives a rectangle, which fits.
LEMMA BlendStep == TypeOK /\ BlendFits /\ [Next]_vars => BlendFits'
<1> SUFFICES ASSUME TypeOK, BlendFits, [Next]_vars PROVE BlendFits'
  OBVIOUS
<1>1. CASE AddFb
  BY <1>1 DEF AddFb, None, Watched, kernelVars, encoderVars, importVars, mppVars,
      endVars, TypeOK, BlendFits
<1>2. CASE \E p \in Planes : Flip(p)
  BY <1>2 DEF Flip, Watched, kernelVars, encoderVars, importVars, mppVars, endVars,
      TypeOK, BlendFits
<1>3. CASE \E i \in Ids : RmFb(i)
  BY <1>3 DEF RmFb, None, Watched, kernelVars, encoderVars, importVars, mppVars,
      endVars, TypeOK, BlendFits
<1>4. CASE FindDisplay
  BY <1>4 DEF FindDisplay, Goto, kernelVars, encoderVars, importVars, mppVars,
      endVars, TypeOK, BlendFits
<1>5. CASE FirstFrame
  BY <1>5 DEF FirstFrame, Got, NotGot, Opened, Fb2, Legacy, Goto, kernelVars,
      encoderVars, importVars, mppVars, endVars, TypeOK, BlendFits
<1>6. CASE SetUp
  BY <1>6 DEF SetUp, Goto, kernelVars, encoderVars, importVars, mppVars, endVars,
      TypeOK, BlendFits
<1>7. CASE ReadCrtc
  BY <1>7 DEF ReadCrtc, Goto, Fail, kernelVars, encoderVars, importVars, mppVars,
      endVars, TypeOK, BlendFits
<1>8. CASE GetFrame
  BY <1>8 DEF GetFrame, Got, NotGot, Opened, Fb2, Legacy, Goto, Fail, kernelVars,
      encoderVars, importVars, mppVars, endVars, TypeOK, BlendFits
<1>9. CASE CheckMode
  BY <1>9 DEF CheckMode, Goto, Fail, kernelVars, encoderVars, importVars, mppVars,
      endVars, TypeOK, BlendFits
<1>10. CASE EnsureSrc
  BY <1>10 DEF EnsureSrc, Hit, Imported, NoImport, NoFrame, Goto, Fail, kernelVars,
      encoderVars, importVars, mppVars, endVars, TypeOK, BlendFits
<1>11. CASE CopyToStage
  BY <1>11 DEF CopyToStage, Goto, Fail, kernelVars, encoderVars, importVars, mppVars,
      endVars, TypeOK, BlendFits
<1>12. CASE FindCursor
  BY <1>12 DEF FindCursor, Fail, NoImport, NoFrame, Goto, kernelVars, encoderVars,
      importVars, mppVars, endVars, TypeOK, BlendFits
<1>13. CASE GetCursor
  BY <1>13 DEF GetCursor, Got, NotGot, Opened, Fb2, Legacy, NoImport, NoFrame, Goto,
      kernelVars, encoderVars, importVars, mppVars, endVars, TypeOK, BlendFits
<1>14. CASE EnsureCursor
  BY <1>14 DEF EnsureCursor, Hit, Imported, NoImport, NoFrame, Goto, Fail, kernelVars,
      encoderVars, importVars, mppVars, endVars, TypeOK, BlendFits
<1>15. CASE Blend
  <2>1. CASE rect' = NoRect
    BY <2>1, FramesAssumption DEF NoRect, BlendFits
  <2>2. CASE \E x \in Places : \E size, image \in Images : rect' = Blended(x, size, image)
    <3>1. PICK x \in Places, size \in Images, image \in Images : rect' = Blended(x, size, image)
      BY <2>2
    <3>2. x \in Int /\ x <= Screen /\ size \in Nat /\ image \in Nat
      BY FramesAssumption DEF Places
    <3>3. QED
      BY <3>1, <3>2, BlendedFits DEF BlendFits
  <2>3. QED
    BY <1>15, <2>1, <2>2 DEF Blend
<1>16. CASE Convert
  BY <1>16, FramesAssumption DEF Convert, NoRect, BlendFits
<1>17. CASE Put
  BY <1>17 DEF Put, Goto, kernelVars, encoderVars, importVars, mppVars, endVars,
      TypeOK, BlendFits
<1>18. CASE Drain
  BY <1>18 DEF Drain, Goto, kernelVars, encoderVars, importVars, mppVars, endVars,
      TypeOK, BlendFits
<1>19. CASE BreakOff
  BY <1>19 DEF BreakOff, Goto, kernelVars, encoderVars, importVars, mppVars, endVars,
      TypeOK, BlendFits
<1>20. CASE ReleaseImports
  BY <1>20 DEF ReleaseImports, NoImport, NoFrame, Goto, kernelVars, encoderVars,
      importVars, mppVars, endVars, TypeOK, BlendFits
<1>21. CASE ResetMpp
  BY <1>21 DEF ResetMpp, Goto, kernelVars, encoderVars, importVars, mppVars, endVars,
      TypeOK, BlendFits
<1>22. CASE FreeBuffers
  BY <1>22 DEF FreeBuffers, Goto, kernelVars, encoderVars, importVars, mppVars,
      endVars, TypeOK, BlendFits
<1>23. CASE OnSignal
  BY <1>23 DEF OnSignal, kernelVars, encoderVars, importVars, mppVars, endVars,
      TypeOK, BlendFits
<1>24. CASE UNCHANGED vars
  BY <1>24 DEF vars, kernelVars, encoderVars, importVars, mppVars, endVars, TypeOK,
      BlendFits
<1>25. QED
  BY <1>1, <1>2, <1>3, <1>4, <1>5, <1>6, <1>7, <1>8, <1>9, <1>10, <1>11, <1>12, <1>13,
      <1>14, <1>15, <1>16, <1>17, <1>18, <1>19, <1>20, <1>21, <1>22, <1>23, <1>24
    DEF Next, Compositor, Encoder

\* The invariant holds in every behaviour.
LEMMA Inductive == Spec => []IInv
<1>1. Init => IInv
  <2> SUFFICES ASSUME Init PROVE IInv
    OBVIOUS
  <2>1. TypeOK
    <3>1. 0 \in Buffers /\ 1 \in Objects /\ 1 \in Ids
      BY FramesAssumption DEF Buffers, Objects, Ids
    <3>2. QED
      BY <3>1 DEF Init, TypeOK, FrameType, Formats, Planes, None, NoFrame, NoImport,
          NoRect
  <2>2. KernelInv
    <3>1. PICK m \in Modes, f \in Formats :
            kind = [o \in Objects |-> IF o = 1 THEN [mode |-> m, format |-> f] ELSE None]
      BY DEF Init
    <3>2. 1 \in Objects /\ m # "none"
      BY FramesAssumption DEF Objects
    <3>3. kind[1].mode # "none"
      BY <3>1, <3>2
    <3>4. QED
      BY <3>3 DEF Init, KernelInv
  <2>3. ImportInv /\ MppInv
    BY DEF Init, ImportInv, MppInv, NoImport
  <2>4. BlendFits
    BY FramesAssumption DEF Init, BlendFits, NoRect
  <2>5. QED
    BY <2>1, <2>2, <2>3, <2>4 DEF IInv
<1>2. IInv /\ [Next]_vars => IInv'
  BY TypeStep, KernelStep, ImportStep, MppStep, BlendStep DEF IInv
<1>3. QED
  BY <1>1, <1>2, PTL DEF Spec

-------------------------------------------------------------------------------
(* The theorems. *)

\* The variables keep their types.
THEOREM TypeCorrect == Spec => []TypeOK
<1>1. IInv => TypeOK
  BY DEF IInv
<1>2. QED
  BY <1>1, Inductive, PTL

\* Whatever numbers the kernel gives out again, the import that is copied or
\* blended is that of the buffer asked for.
THEOREM ImportsAreFresh == Spec => []NoStaleImport
<1>1. IInv => NoStaleImport
  BY DEF IInv, ImportInv, Describes, NoStaleImport
<1>2. QED
  BY <1>1, Inductive, PTL

\* What is copied has the size the stream was set up for, and its colours as long
\* as GETFB2 works.
THEOREM CopiesFit == Spec => []FrameFits
<1>1. IInv => FrameFits
  BY DEF IInv, ImportInv, Describes, FrameFits
<1>2. QED
  BY <1>1, Inductive, PTL

\* A cursor is blended within its picture and within the screen, for every size
\* and place.
THEOREM CursorsFit == Spec => []BlendFits
<1>1. IInv => BlendFits
  BY DEF IInv
<1>2. QED
  BY <1>1, Inductive, PTL

\* No buffer is released or written while MPP has it.
THEOREM BuffersOutliveMpp == Spec => []BuffersAreKept
<1>1. IInv => BuffersAreKept
  BY DEF IInv, TypeOK, MppInv, BuffersAreKept, Buffers
<1>2. QED
  BY <1>1, Inductive, PTL
===============================================================================
