-------------------------------- MODULE Frames ---------------------------------
(* How the encoder gets at the pixels of a frame: it asks the display driver,  *)
(* by one call after the other, which buffers are scanned out, imports them    *)
(* into the blitter, blends the cursor, and hands one of its own buffers to    *)
(* MPP.  The compositor goes on meanwhile: it shows other buffers, removes     *)
(* them, and the kernel gives their numbers to new ones.                       *)
EXTENDS Integers

CONSTANTS
  NIds,        \* bound: framebuffer ids
  NHandles,    \* bound: GEM handles of the encoder's file
  NObjects,    \* bound: buffers of the compositor at a time
  Modes,       \* sizes of a buffer
  HasFb2,      \* 1: the kernel has GETFB2
  BufferCount, \* --buffer-count
  Screen,      \* pixels of the screen along an axis
  Images       \* and of the pictures of a cursor

ASSUME FramesAssumption ==
  /\ {NIds, NHandles, NObjects} \subseteq Nat \ {0}
  /\ "none" \notin Modes
  /\ HasFb2 \in {0, 1}
  /\ BufferCount \in Nat \ {0}
  /\ Screen \in Nat /\ Screen % 2 = 0
  /\ Images \subseteq 1 .. Screen

Ids == 1 .. NIds
Handles == 1 .. NHandles
Objects == 1 .. NObjects
Buffers == 0 .. BufferCount - 1

\* Bound: a cursor is at most a screen's width off the screen.
Places == -Screen .. Screen
Planes == {"primary", "cursor"}

\* XRGB8888 and XBGR8888, which both have 32 bits and depth 24.  A format that
\* RGA cannot read fails like an import.
Formats == {"XR", "XB"}

VARIABLES
  kind,     \* size and format of each buffer of the compositor
  fbs,      \* the buffer of each framebuffer id, or 0
  shown,    \* the framebuffer id each plane scans out, or 0
  handles,  \* the buffer of each GEM handle, or 0
  pc,       \* what the encoder does next
  plane,    \* the id it has read from the CRTC or the cursor plane
  try_fb2,
  cap,      \* the frame the stream was set up for
  cur,      \* the frame or cursor it has asked for last
  src,      \* the import of the screen
  cursor,   \* the import of the cursor
  rect,     \* what was blended, along one axis
  frame,    \* frame_index % buffer_count
  encoding, \* the buffer of the frame in MPP, or -1
  owned,    \* the buffers MPP has references to
  freed,    \* the encode buffers have been released
  stop, exitCode

kernelVars == <<kind, fbs, shown>>
importVars == <<src, cursor, rect>>
mppVars == <<frame, encoding, owned, freed>>
endVars == <<stop, exitCode>>
encoderVars == <<handles, pc, plane, try_fb2, cap, cur, importVars, mppVars, endVars>>
vars == <<kernelVars, encoderVars>>

FrameType ==
  [id : Ids \cup {0}, handle : Handles \cup {0}, mode : Modes \cup {"none"}, format : Formats]

None == [mode |-> "none", format |-> "XR"]
NoFrame == [id |-> 0, handle |-> 0, mode |-> "none", format |-> "XR"]
NoImport == [key |-> NoFrame, object |-> 0]
NoRect == [src |-> 0, dst |-> 0, len |-> 0, image |-> 0]

Init ==
  /\ \E m \in Modes : \E f \in Formats :
       kind = [o \in Objects |-> IF o = 1 THEN [mode |-> m, format |-> f] ELSE None]
  /\ fbs = [i \in Ids |-> IF i = 1 THEN 1 ELSE 0]
  /\ shown = [p \in Planes |-> IF p = "primary" THEN 1 ELSE 0]
  /\ handles = [h \in Handles |-> 0]
  /\ pc = "find" /\ plane = 0 /\ try_fb2 = 1
  /\ cap = NoFrame /\ cur = NoFrame
  /\ src = NoImport /\ cursor = NoImport /\ rect = NoRect
  /\ frame = 0 /\ encoding = -1 /\ owned = {} /\ freed = 0
  /\ stop = 0 /\ exitCode = 0

-------------------------------------------------------------------------------
(* The compositor and the kernel.  The kernel gives out the least free number.  *)

\* Bound: what the encoder does at its end does not depend on them any more.
Watched == pc \notin {"release", "reset", "free", "ended"}

AddFb ==
  /\ Watched
  /\ \E o \in Objects : \E i \in Ids : \E m \in Modes : \E f \in Formats :
       /\ kind[o] = None /\ \A n \in 1 .. o - 1 : kind[n] # None
       /\ fbs[i] = 0 /\ \A j \in 1 .. i - 1 : fbs[j] # 0
       /\ kind' = [kind EXCEPT ![o] = [mode |-> m, format |-> f]]
       /\ fbs' = [fbs EXCEPT ![i] = o]
  /\ UNCHANGED <<shown, encoderVars>>

\* A plane shows another buffer, or none.
Flip(p) ==
  /\ Watched
  /\ \E i \in {0} \cup {j \in Ids : fbs[j] # 0} :
       /\ i # shown[p]
       /\ shown' = [shown EXCEPT ![p] = i]
  /\ UNCHANGED <<kind, fbs, encoderVars>>

\* A buffer lives on as long as somebody has a handle of it.
RmFb(i) ==
  /\ Watched
  /\ fbs[i] # 0
  /\ \A p \in Planes : shown[p] # i
  /\ fbs' = [fbs EXCEPT ![i] = 0]
  /\ kind' = [kind EXCEPT ![fbs[i]] =
       IF \E h \in Handles : handles[h] = fbs[i] THEN @ ELSE None]
  /\ UNCHANGED <<shown, encoderVars>>

\* Handle h for buffer o: a new one, or, as some drivers do, the one it has.
Opened(h, o) ==
  \/ handles[h] = o /\ UNCHANGED handles
  \/ /\ handles[h] = 0 /\ \A g \in 1 .. h - 1 : handles[g] # 0
     /\ handles' = [handles EXCEPT ![h] = o]

-------------------------------------------------------------------------------
(* get_capture_fb, which never closes the handle it gets. *)

\* legacy_fourcc_for_fb: bits and depth do not tell the order of the colours.
Legacy(f) == "XR"

Fb2 == HasFb2 = 1 /\ try_fb2 = 1 /\ fbs[plane] # 0

Got ==
  \E h \in Handles :
    LET o == fbs[plane]
        format == IF Fb2 THEN kind[o].format ELSE Legacy(kind[o].format)
    IN  /\ o # 0
        /\ Opened(h, o)
        /\ cur' = [id |-> plane, handle |-> h, mode |-> kind[o].mode, format |-> format]
        /\ try_fb2' = IF Fb2 THEN try_fb2 ELSE 0
        /\ plane' = 0

\* The framebuffer has gone, or it cannot be exported; a failed GETFB2 is not
\* tried again.
NotGot ==
  /\ \/ fbs[plane] = 0 /\ try_fb2' = 0
     \/ UNCHANGED try_fb2
  /\ plane' = 0
  /\ UNCHANGED <<handles, cur>>

Goto(l) == pc' = l
Fail == pc' = "release" /\ exitCode' = 1

-------------------------------------------------------------------------------
(* Start *)

\* find_connected_display_fb: connector, encoder, CRTC.
FindDisplay ==
  /\ pc = "find"
  /\ plane' = shown["primary"]
  /\ IF shown["primary"] = 0
     THEN Goto("ended") /\ exitCode' = 1
     ELSE Goto("first") /\ UNCHANGED exitCode
  /\ UNCHANGED <<kernelVars, handles, try_fb2, cap, cur, importVars, mppVars, stop>>

FirstFrame ==
  /\ pc = "first"
  /\ \/ Got /\ Goto("setup") /\ UNCHANGED exitCode
     \/ NotGot /\ Goto("ended") /\ exitCode' = 1
  /\ UNCHANGED <<kernelVars, cap, importVars, mppVars, stop>>

\* MPP, encode buffers, packet buffer, the stage.  What fails ends the process.
SetUp ==
  /\ pc = "setup"
  /\ cap' = cur
  /\ \/ Goto("top") /\ UNCHANGED <<exitCode, freed>>
     \/ Goto("ended") /\ exitCode' = 1 /\ freed' = 1
  /\ UNCHANGED <<kernelVars, handles, plane, try_fb2, cur, importVars, frame, encoding, owned, stop>>

-------------------------------------------------------------------------------
(* The loop *)

\* get_crtc_capture_fb, unless a stop was requested.
ReadCrtc ==
  /\ pc = "top"
  /\ IF stop = 1
     THEN Goto("release") /\ UNCHANGED <<plane, exitCode>>
     ELSE IF shown["primary"] = 0
     THEN Fail /\ UNCHANGED plane
     ELSE Goto("getfb") /\ plane' = shown["primary"] /\ UNCHANGED exitCode
  /\ UNCHANGED <<kernelVars, handles, try_fb2, cap, cur, importVars, mppVars, stop>>

GetFrame ==
  /\ pc = "getfb"
  /\ \/ Got /\ Goto("check") /\ UNCHANGED exitCode
     \/ NotGot /\ Fail
  /\ UNCHANGED <<kernelVars, cap, importVars, mppVars, stop>>

\* Mutant: a change of the mode is not looked at.
CheckNothing ==
  /\ pc = "check"
  /\ Goto("import") /\ UNCHANGED exitCode
  /\ UNCHANGED <<kernelVars, handles, plane, try_fb2, cap, cur, importVars, mppVars, stop>>

CheckMode ==
  /\ pc = "check"
  /\ IF cur.mode = cap.mode /\ cur.format = cap.format
     THEN Goto("import") /\ UNCHANGED exitCode
     ELSE Fail
  /\ UNCHANGED <<kernelVars, handles, plane, try_fb2, cap, cur, importVars, mppVars, stop>>

\* Mutant: the framebuffer id decides alone.
HitById(import) == import.object # 0 /\ import.key.id = cur.id

\* The import at hand is that of this framebuffer.
Hit(import) == import.object # 0 /\ import.key = cur

Imported == [key |-> cur, object |-> handles[cur.handle]]

\* ensure_src_import
EnsureSrc ==
  /\ pc = "import"
  /\ \/ Hit(src) /\ Goto("stage") /\ UNCHANGED <<src, exitCode>>
     \/ ~Hit(src) /\ src' = Imported /\ Goto("stage") /\ UNCHANGED exitCode
     \/ ~Hit(src) /\ src' = NoImport /\ Fail
  /\ UNCHANGED <<kernelVars, handles, plane, try_fb2, cap, cur, cursor, rect, mppVars, stop>>

\* The copy to the stage, by the blitter or row by row.
CopyToStage ==
  /\ pc = "stage"
  /\ \/ Goto("plane") /\ UNCHANGED exitCode
     \/ Fail
  /\ UNCHANGED <<kernelVars, handles, plane, try_fb2, cap, cur, importVars, mppVars, stop>>

-------------------------------------------------------------------------------
(* The cursor *)

\* find_cursor_plane, which may not get at the planes.
FindCursor ==
  /\ pc = "plane"
  /\ \/ /\ shown["cursor"] = 0
        /\ cursor' = NoImport
        /\ Goto("convert") /\ UNCHANGED <<plane, exitCode>>
     \/ /\ shown["cursor"] # 0
        /\ plane' = shown["cursor"]
        /\ Goto("getcursor") /\ UNCHANGED <<cursor, exitCode>>
     \/ Fail /\ UNCHANGED <<plane, cursor>>
  /\ cur' = NoFrame
  /\ UNCHANGED <<kernelVars, handles, try_fb2, cap, src, rect, mppVars, stop>>

\* A plane that cannot be read is passed over, and no cursor is active.
GetCursor ==
  /\ pc = "getcursor"
  /\ \/ Got /\ Goto("ensure") /\ UNCHANGED cursor
     \/ NotGot /\ Goto("convert") /\ cursor' = NoImport
  /\ UNCHANGED <<kernelVars, cap, src, rect, mppVars, endVars>>

EnsureCursor ==
  /\ pc = "ensure"
  /\ \/ Hit(cursor) /\ Goto("blend") /\ UNCHANGED <<cursor, exitCode>>
     \/ ~Hit(cursor) /\ cursor' = Imported /\ Goto("blend") /\ UNCHANGED exitCode
     \/ ~Hit(cursor) /\ cursor' = NoImport /\ Fail
  /\ UNCHANGED <<kernelVars, handles, plane, try_fb2, cap, cur, src, rect, mppVars, stop>>

Least(a, b) == IF a < b THEN a ELSE b

\* The part of the cursor that is on the screen, along one axis.
Clipped(x, size, image) ==
  LET from == IF x < 0 THEN -x ELSE 0
      to == IF x < 0 THEN 0 ELSE x
      onScreen == Least(IF x < 0 THEN size + x ELSE size, Screen - to)
  IN  [src |-> from, dst |-> to, len |-> Least(onScreen, image - from),
       image |-> image, on |-> IF onScreen > 0 THEN 1 ELSE 0]

\* Mutant: an odd length is made even upwards whatever there is room for.
EvenUp(x, size, image) ==
  LET c == Clipped(x, size, image)
      odd == c.src % 2
      len == c.len + odd
  IN  IF c.on = 0 \/ c.len <= 0 THEN NoRect
      ELSE [src |-> c.src - odd, dst |-> c.dst, len |-> len + (len % 2), image |-> image]

\* Even offsets and lengths, as RGA wants them, within picture and screen.
Blended(x, size, image) ==
  LET c == Clipped(x, size, image)
      odd == c.src % 2
      len == c.len + odd
      room == c.src - odd + len < image /\ c.dst + len < Screen
      even == IF len % 2 = 0 THEN len ELSE IF room THEN len + 1 ELSE len - 1
  IN  IF c.on = 0 \/ c.len <= 0 \/ even < 2 THEN NoRect
      ELSE [src |-> c.src - odd, dst |-> c.dst, len |-> even, image |-> image]

\* blend_cursor_with_rga; what RGA says of it is not looked at.  Either axis can
\* make it do nothing.
Blend ==
  /\ pc = "blend"
  /\ \/ \E x \in Places : \E size, image \in Images : rect' = Blended(x, size, image)
     \/ rect' = NoRect
  /\ cur' = NoFrame
  /\ Goto("convert")
  /\ UNCHANGED <<kernelVars, handles, plane, try_fb2, cap, src, cursor, mppVars, endVars>>

-------------------------------------------------------------------------------
(* To MPP *)

\* rga_convert_frame writes to the encode buffer of the frame.
Convert ==
  /\ pc = "convert"
  /\ \/ Goto("put") /\ UNCHANGED exitCode
     \/ Fail
  /\ rect' = NoRect
  /\ UNCHANGED <<kernelVars, handles, plane, try_fb2, cap, cur, src, cursor, mppVars, stop>>

Put ==
  /\ pc = "put"
  /\ \/ /\ encoding' = frame /\ owned' = owned \cup {frame}
        /\ Goto("drain") /\ UNCHANGED exitCode
     \/ /\ UNCHANGED <<encoding, owned>>
        /\ Goto("release") /\ exitCode' = IF stop = 1 THEN 0 ELSE 1
  /\ UNCHANGED <<kernelVars, handles, plane, try_fb2, cap, cur, importVars, frame, freed, stop>>

\* All packets of the frame are out.
Drain ==
  /\ pc = "drain"
  /\ encoding' = -1
  /\ frame' = (frame + 1) % BufferCount
  /\ Goto("top")
  /\ UNCHANGED <<kernelVars, handles, plane, try_fb2, cap, cur, importVars, owned, freed, endVars>>

\* An error, or the ring's writer gives up at a stop.
BreakOff ==
  /\ pc = "drain"
  /\ Goto("release") /\ exitCode' = IF stop = 1 THEN 0 ELSE 1
  /\ UNCHANGED <<kernelVars, handles, plane, try_fb2, cap, cur, importVars, mppVars, stop>>

-------------------------------------------------------------------------------
(* The end *)

ReleaseImports ==
  /\ pc = "release"
  /\ src' = NoImport /\ cursor' = NoImport /\ cur' = NoFrame
  /\ Goto("reset")
  /\ UNCHANGED <<kernelVars, handles, plane, try_fb2, cap, rect, mppVars, endVars>>

\* Mutant: the buffers are released first.
FreeBuffersFirst ==
  /\ pc = "reset"
  /\ freed' = 1
  /\ Goto("free")
  /\ UNCHANGED <<kernelVars, handles, plane, try_fb2, cap, cur, importVars, frame, encoding, owned,
                 endVars>>

ResetMpp ==
  /\ pc = "reset"
  /\ owned' = {} /\ encoding' = -1
  /\ Goto("free")
  /\ UNCHANGED <<kernelVars, handles, plane, try_fb2, cap, cur, importVars, frame, freed, endVars>>

FreeBuffers ==
  /\ pc = "free"
  /\ freed' = 1
  /\ Goto("ended")
  /\ UNCHANGED <<kernelVars, handles, plane, try_fb2, cap, cur, importVars, frame, encoding, owned,
                 endVars>>

OnSignal ==
  /\ stop = 0 /\ pc # "ended"
  /\ stop' = 1
  /\ UNCHANGED <<kernelVars, handles, pc, plane, try_fb2, cap, cur, importVars, mppVars, exitCode>>

-------------------------------------------------------------------------------
Compositor == AddFb \/ (\E p \in Planes : Flip(p)) \/ \E i \in Ids : RmFb(i)

Encoder ==
  \/ FindDisplay \/ FirstFrame \/ SetUp
  \/ ReadCrtc \/ GetFrame \/ CheckMode \/ EnsureSrc \/ CopyToStage
  \/ FindCursor \/ GetCursor \/ EnsureCursor \/ Blend
  \/ Convert \/ Put \/ Drain \/ BreakOff
  \/ ReleaseImports \/ ResetMpp \/ FreeBuffers

Next == Compositor \/ Encoder \/ OnSignal

Spec == Init /\ [][Next]_vars

-------------------------------------------------------------------------------
(* Properties *)

TypeOK ==
  /\ kind \in [Objects -> [mode : Modes \cup {"none"}, format : Formats]]
  /\ fbs \in [Ids -> Objects \cup {0}]
  /\ shown \in [Planes -> Ids \cup {0}]
  /\ handles \in [Handles -> Objects \cup {0}]
  /\ plane \in Ids \cup {0}
  /\ {cap, cur} \subseteq FrameType
  /\ {src, cursor} \subseteq [key : FrameType, object : Objects \cup {0}]
  /\ rect \in [src : Int, dst : Int, len : Int, image : Int]
  /\ {try_fb2, freed, stop, exitCode} \subseteq {0, 1}
  /\ frame \in Buffers /\ encoding \in Buffers \cup {-1} /\ owned \subseteq Buffers

\* The framebuffer id and the handle that the cache of imports goes by are given
\* out again by the kernel; still the pixels that are copied are those of the
\* buffer that was asked for, of the screen as of the cursor.
NoStaleImport ==
  /\ pc = "stage" => src.object = handles[cur.handle]
  /\ pc = "blend" => cursor.object = handles[cur.handle]

\* What is copied fits the stage and the encoder, which were set up once: the
\* buffer has the size of then, whatever the compositor has changed to between
\* the calls, and as long as GETFB2 works, the colours are read in its order.
FrameFits ==
  pc \in {"stage", "plane", "getcursor", "ensure", "blend", "convert"} =>
    /\ kind[src.object].mode = cap.mode
    /\ HasFb2 = 1 /\ try_fb2 = 1 => kind[src.object].format = cap.format

\* A cursor at the edge of the screen is blended from within its picture to
\* within the screen, by even offsets and lengths.
BlendFits ==
  /\ rect.src >= 0 /\ rect.src + rect.len <= rect.image
  /\ rect.dst >= 0 /\ rect.dst + rect.len <= Screen
  /\ rect.src % 2 = 0 /\ rect.len % 2 = 0

\* "MPP owns references to the input and output buffers until reset and destroy
\* complete": none of them is released before, also when a stop or an error
\* leaves a frame in MPP, and the blitter writes to none that MPP reads.
BuffersAreKept ==
  /\ freed = 1 => owned = {}
  /\ pc = "convert" => encoding # frame
===============================================================================
