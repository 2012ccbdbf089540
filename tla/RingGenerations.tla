---------------------------- MODULE RingGenerations ----------------------------
(***************************************************************************)
(* One viewer session over several encoder generations.  The hotplug       *)
(* wrapper (drm_hotplug_stream.sh) starts the encoder again whenever it    *)
(* fails, for instance after a mode change; every encoder unlinks the ring *)
(* file and creates its own (stream_writer_init); the Go consumer keeps    *)
(* opening the path until the file there is not the one it has just left   *)
(* (readSharedAnnexBNALs, openSharedRing), which it decides by inode       *)
(* number.  What is inside a ring is the module SharedRing; names with RG  *)
(* are those that would be the same there.                                 *)
(***************************************************************************)
EXTENDS Integers, FiniteSets

CONSTANTS
  MaxGen,      \* bound on the encoder generations
  Inodes,      \* inode numbers of the file system
  Recycled     \* TRUE if a freed inode number may be given to a new file

ASSUME GenerationsAssumption == MaxGen \in Nat \ {0}
ASSUME InodesAssumption ==
  Recycled \in BOOLEAN /\ IsFiniteSet(Inodes) /\ Cardinality(Inodes) >= MaxGen /\ 0 \notin Inodes

VARIABLES
  wrapper,     \* the shell wrapper: "probe", "run", "sleep" or "exit"
  term,        \* SIGTERM was sent to the process group
  enc,         \* the running encoder: the next step of its start, "live", or "none"
  status,      \* exit status of the last encoder, 0 or 1
  gen,         \* generation of the last encoder started
  ino,         \* inode number of each generation's ring file, 0 before it exists
  path,        \* generation whose file the path names, 0 for none
  filled,      \* generations whose ring has its magic
  closedRings, \* generations whose ring has its closed flag
  consumer,    \* "open", "attached" or "done"
  cgen,        \* generation the consumer attached to last, 0 before the first
  doneChannels \* closed done channels: "ctx", "cmdDone"

encoderVars == <<enc, status, gen, ino, filled, closedRings>>
readerVars == <<consumer, cgen>>
rgVars == <<wrapper, term, encoderVars, path, readerVars, doneChannels>>

RGInit ==
  /\ wrapper = "probe"
  /\ term = FALSE
  /\ enc = "none"
  /\ status = 0
  /\ gen = 0
  /\ ino = [g \in 1 .. MaxGen |-> 0]
  /\ path = 0
  /\ filled = {}
  /\ closedRings = {}
  /\ consumer = "open"
  /\ cgen = 0
  /\ doneChannels = {}

-------------------------------------------------------------------------------
(* The encoder. *)

\* Files with a name, or open in a process, keep their inode number.
Pinned ==
  {path} \union (IF consumer = "attached" THEN {cgen} ELSE {})
         \union (IF enc \in {"fill", "live"} THEN {gen} ELSE {})

FreeInodes ==
  IF Recycled THEN Inodes \ {ino[g] : g \in Pinned \ {0}}
              ELSE Inodes \ {ino[g] : g \in 1 .. MaxGen}

Unlink ==
  /\ enc = "unlink"
  /\ enc' = "create"
  /\ path' = 0
  /\ UNCHANGED <<wrapper, term, status, gen, ino, filled, closedRings, readerVars, doneChannels>>

Create ==
  /\ enc = "create"
  /\ enc' = "fill"
  /\ path' = gen
  /\ \E i \in FreeInodes : ino' = [ino EXCEPT ![gen] = i]
  /\ UNCHANGED <<wrapper, term, status, gen, filled, closedRings, readerVars, doneChannels>>

\* ftruncate, mmap, the header and at last the magic.
Fill ==
  /\ enc = "fill"
  /\ enc' = "live"
  /\ filled' = filled \union {gen}
  /\ UNCHANGED <<wrapper, term, status, gen, ino, path, closedRings, readerVars, doneChannels>>

\* The capture loop ends, with 0 when asked to stop and 1 after an error or a
\* mode change; stream_writer_close marks the ring.
Stops(rc) ==
  /\ enc = "live"
  /\ enc' = "none"
  /\ status' = rc
  /\ closedRings' = closedRings \union {gen}
  /\ UNCHANGED <<wrapper, term, gen, ino, path, filled, readerVars, doneChannels>>

\* The error returns of main leave the ring open, and so does a signal that
\* kills: SIGTERM, or a forwarded SIGUSR1 or SIGUSR2, before the handlers are
\* installed.
Dies ==
  /\ enc # "none"
  /\ enc' = "none"
  /\ status' = 1
  /\ UNCHANGED <<wrapper, term, gen, ino, path, filled, closedRings, readerVars, doneChannels>>

-------------------------------------------------------------------------------
(* The wrapper. *)

Start ==
  /\ wrapper = "probe" /\ ~term
  /\ gen < MaxGen
  /\ wrapper' = "run"
  /\ gen' = gen + 1
  /\ enc' = "unlink"
  /\ UNCHANGED <<term, status, ino, path, filled, closedRings, readerVars, doneChannels>>

Reaps ==
  /\ wrapper = "run" /\ enc = "none"
  /\ wrapper' = IF status = 0 \/ term THEN "exit" ELSE "sleep"
  /\ UNCHANGED <<term, encoderVars, path, readerVars, doneChannels>>

Retries ==
  /\ wrapper = "sleep"
  /\ wrapper' = "probe"
  /\ UNCHANGED <<term, encoderVars, path, readerVars, doneChannels>>

\* Mutant: the trap on SIGTERM is missing.
ExitsUntrapped == FALSE /\ UNCHANGED rgVars

\* trap 'cleanup; exit 0' INT TERM
ExitsOnTerm ==
  /\ term
  /\ wrapper \in {"probe", "sleep"}
  /\ wrapper' = "exit"
  /\ UNCHANGED <<term, encoderVars, path, readerVars, doneChannels>>

CommandReaped ==
  /\ wrapper = "exit"
  /\ "cmdDone" \notin doneChannels
  /\ doneChannels' = doneChannels \union {"cmdDone"}
  /\ UNCHANGED <<wrapper, term, encoderVars, path, readerVars>>

-------------------------------------------------------------------------------
(* The consumer. *)

\* previous: the FileInfo of the ring consumed last, of which os.SameFile
\* compares the inode number.
Previous == IF cgen = 0 THEN 0 ELSE ino[cgen]

\* Mutant: the ring just left is taken again.
AttachAgain ==
  /\ consumer = "open"
  /\ path \in filled
  /\ consumer' = "attached"
  /\ cgen' = path
  /\ UNCHANGED <<wrapper, term, encoderVars, path, doneChannels>>

\* openSharedRing returns: a file that is not the previous one, with the magic.
Attach ==
  /\ consumer = "open"
  /\ path \in filled
  /\ ino[path] # Previous
  /\ consumer' = "attached"
  /\ cgen' = path
  /\ UNCHANGED <<wrapper, term, encoderVars, path, doneChannels>>

\* The deferred os.Remove(path) of forwardSharedAnnexB.
QuitSession ==
  /\ consumer' = "done"
  /\ path' = 0
  /\ UNCHANGED <<wrapper, term, encoderVars, cgen, doneChannels>>

\* consumeSharedRing returns without an error, and the session goes on to the
\* next ring unless a done channel is closed by now.
Leave == IF doneChannels = {}
         THEN consumer' = "open" /\ UNCHANGED <<wrapper, term, encoderVars, path, cgen, doneChannels>>
         ELSE QuitSession

LeaveClosed ==
  /\ consumer = "attached"
  /\ cgen \in closedRings
  /\ Leave

\* Mutant: only a closed ring is left.
LeaveNever == FALSE /\ UNCHANGED rgVars

\* The wait timed out and the path names another file.
LeaveReplaced ==
  /\ consumer = "attached"
  /\ path # 0
  /\ ino[path] # ino[cgen]
  /\ Leave

QuitFired ==
  /\ consumer \in {"open", "attached"}
  /\ doneChannels # {}
  /\ QuitSession

\* The session is closed; its command's Cancel signals the process group.
CancelSession ==
  /\ "ctx" \notin doneChannels
  /\ doneChannels' = doneChannels \union {"ctx"}
  /\ term' = TRUE
  /\ UNCHANGED <<wrapper, encoderVars, path, readerVars>>

-------------------------------------------------------------------------------
EncoderStart == Unlink \/ Create \/ Fill
EncoderEnd == \/ \E rc \in {0, 1} : Stops(rc)
              \/ Dies
WrapperStep == Reaps \/ Retries \/ ExitsOnTerm \/ CommandReaped
ReaderStep == Attach \/ LeaveClosed \/ LeaveReplaced \/ QuitFired

RGNext == EncoderStart \/ EncoderEnd \/ Start \/ WrapperStep \/ ReaderStep \/ CancelSession

RGSpec == RGInit /\ [][RGNext]_rgVars

\* The processes are scheduled; an encoder told to stop stops.  No encoder has
\* to fail and no session has to be closed.
RGFairSpec ==
  /\ RGSpec
  /\ WF_rgVars(EncoderStart)
  /\ WF_rgVars(term /\ Stops(0))
  /\ WF_rgVars(WrapperStep)
  /\ WF_rgVars(ReaderStep)

-------------------------------------------------------------------------------
(* Properties. *)

RGTypeOK ==
  /\ wrapper \in {"probe", "run", "sleep", "exit"}
  /\ term \in BOOLEAN
  /\ enc \in {"unlink", "create", "fill", "live", "none"}
  /\ status \in {0, 1}
  /\ gen \in 0 .. MaxGen
  /\ ino \in [1 .. MaxGen -> Inodes \union {0}]
  /\ path \in 0 .. gen
  /\ filled \subseteq {g \in 1 .. gen : ino[g] # 0}
  /\ closedRings \subseteq filled
  /\ consumer \in {"open", "attached", "done"}
  /\ cgen \in filled \union {0}
  /\ doneChannels \subseteq {"ctx", "cmdDone"}

\* A ring the consumer has left is never consumed again, and generations are
\* consumed in the order in which they were started: the forwarder never gets
\* the video of an earlier generation after that of a later one.
NoReplay ==
  [][consumer = "open" /\ consumer' = "attached" => cgen' > cgen]_rgVars

\* "Each encoder generation gets a new inode. This lets the Go consumer
\* distinguish a hotplug restart from an idle producer": a generation that
\* stays alive is eventually consumed, unless the session ends.
NewGenerationIsNoticed ==
  \A g \in 1 .. MaxGen :
    (gen = g /\ enc = "live") ~> (cgen = g \/ gen # g \/ enc # "live" \/ consumer = "done")

\* A closed session leaves neither a consumer nor a wrapper, whatever the
\* generation at hand was doing.
SessionEnds == "ctx" \in doneChannels ~> consumer = "done" /\ wrapper = "exit"
===============================================================================
