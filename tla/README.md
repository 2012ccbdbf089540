# RemyDesk: models, checks and proofs

RemyDesk streams the desktop of a small ARM board to a browser in the local
network and lets the browser control the board. This directory holds TLA+
models of its concurrent core, the TLC configurations that check them on small
instances, and TLAPS proofs of the properties that matter most.

Paths below are relative to `src/`. `main.go` is
`native/webrtc-publisher/main.go`, the *encoder* is
`native/desktop-streamer/drm_rga_mpp_stream.c`, the *wrapper* is
`native/desktop-streamer/drm_hotplug_stream.sh`, the *daemon* is `src/core/*`.

## 1. The system

    browser --HTTP--> daemon (C++): files, downloads, network, services
    browser --WS, WebRTC--> publisher (Go, main.go)
                               |  starts, signals     ^ H.264 ring or pipe
                               v                      |
                    wrapper (bash) --starts--> encoder (C)

| component | state | operations | meets others through |
|---|---|---|---|
| Shared-memory ring (encoder `stream_writer_*`, publisher `consumeSharedRing`) | slots, `write_seq`, `read_seq`, `closed`, `notify_seq`, `requested_bitrate` | write, notify, close; read, wait | memory shared by two processes, a futex, no lock |
| Encoder generations (wrapper, `stream_writer_init`, `readSharedAnnexBNALs`, `openSharedRing`) | the file at the ring's path, the child process, exit status | start, die, retry, stop; attach, leave | the file system, signals, exit codes |
| Capture loop (encoder `main`, `encode_one_frame`) | signal flags, bitrate in force, frame in MPP, idle mode | capture, encode, drain, slow down | signals, ring, the vendor library |
| Frames of the encoder (`get_capture_fb`, `ensure_*_import`, `blend_cursor_with_rga`, MPP set-up and teardown) | imports of screen and cursor, stage, encode buffers, MPP's references | query, import, copy, blend, convert, submit, release | DRM ids and handles, which the compositor and the kernel change meanwhile |
| Forwarder and RTP writer (`forwardAnnexBNALs`, `h264RTPWriter`), requests (`requestIDR`, `requestActiveFPS`) | cached parameter sets, gathered unit, RTP numbers and clock, rate limits | gather, flush, fragment; request | NAL channel, RTP, RTCP, signals |
| Congestion controller (`congestion.go`) | target, window of feedback, estimate, count of clean windows | observe, judge | RTCP in, `targetBitrate` out |
| LAN server and sessions (`lanServer`, `createPeerSession`, `session.Close`) | desktop slot, session table, peer connections, command | offer, claim, create, close, callbacks | goroutines under one mutex, callbacks of pion |
| Audio forwarder (`setAudioEnabled` and below) | socket, FFmpeg process, on/off | enable, disable, process ends | a process, a UDP socket |
| Input device (`input_linux.go`) | keys and buttons that are down | move, press, type, all up | uinput, all sessions share it |
| Downloads (`download_manager.cpp`), files and uploads (`file_service.cpp`, `http_server.cpp`) | queue, task of the worker, its curl; directory tree | add, transfer, publish, stop; upload, make, move, delete | one directory tree without locks, one mutex, a worker thread, a process |
| Network manager, process runner (`network_manager.cpp`, `process.cpp`) | settings file, state of the attempt, seen-a-Wi-Fi flag; NetworkManager's profiles and the interface | status, scan, connect, hotspot, boot mode, IPv4 | nmcli, one call after the other, handlers and two threads of its own |
| Service manager, configuration, routes, hardware probe, scripts, web interface | none of their own, or start-up only | calls and parsing | - |

What is hard in it:

* **Two processes on one ring without a lock.** Publication order, the wait on
  the futex and the wrap of its word, an encoder that stops or is killed at any
  instruction, a session that ends while either side waits.
* **Restarts.** The encoder is restarted under a running session; the reader
  must change over to the new ring, cached parameter sets outlive their encoder.
* **Callbacks that come late.** The state-change callbacks of a peer connection
  run in goroutines of their own and act on the viewer's *name*, not on the
  session they belong to.
* **Signals as messages.** IDR and activity requests are signals: they coalesce,
  come between any two instructions, and end a process that has no handler.
* **Numbers that are used again.** Framebuffer ids, GEM handles, inode numbers
  and process-wide names are compared where the thing behind them may have changed.
* **Names that are looked up twice.** A path is checked and used later, while
  other handlers move and delete directories; uploads and downloads become visible
  by a rename alone.
* **Sequences of calls that each may fail.** A change of the Wi-Fi connection takes
  the only way to the board down before it knows whether there is another one.
* **Feedback loops.** PLI to IDR to picture; loss to bitrate to loss; each loop
  has a rate limit or a gate that can starve it.

For each component, what makes it correct is stated as its properties (section
3). `PROJECT.json` lists every component and every hazard at its line, those
without a property included.

## 2. Modules

| module | models | proofs |
|---|---|---|
| `PacketChannel` | abstract: a bounded FIFO that the sender may end | - |
| `SharedRing` | the ring, one action per access to a shared word | `SharedRingProofs` |
| `RingGenerations` | wrapper, ring files, changing over of the reader | in `SharedRingProofs` |
| `CaptureLoop` | the encoder's loop and the publisher's half of the bitrate exchange | `CaptureLoopProofs` |
| `Frames`, `MCFrames` | from the display driver's buffers to MPP, against a compositor that goes on; `MCFrames` makes the modes interchangeable | `FramesProofs` |
| `FileTree` | the directory tree and the system calls on it | in `StorageProofs` |
| `Storage` | `FileTree` composed with HTTP handlers, download worker, curl and main thread | `StorageProofs` |
| `Network` | network manager: handlers, connection attempt, rejoining thread, NetworkManager | `NetworkProofs` |
| `VideoForwarder` | NAL units to RTP packets to the viewer, and its requests back | `VideoForwarderProofs` |
| `Congestion` | the congestion controller | `CongestionProofs` |
| `LanServer` | desktop slot, sessions, handlers, callbacks | `LanServerProofs` |

How state and actions correspond to the code:

* `SharedRing`: `writeSeq`, `readSeq`, `closed`, `notifySeq` are the header's
  words; a slot keeps its length word and its payload apart, since the producer
  writes them one after the other. `ppc` and `cpc` are the next shared access of
  either process; every load and store of a shared word is one action
  (`LoadWriteSeq`, `RecheckClosed`, `Publish`, `Notify`...), `FutexWait` compares
  and sleeps in one step, as the kernel does. `Crash` kills the encoder anywhere,
  `Cancel` is the end of the session, `Reap` closes `cmdDone`.
* `RingGenerations`: `path` is the generation whose file the path names, `ino`
  the inode numbers that `os.SameFile` compares. `Recycled` says whether the file
  system hands out freed numbers again. The encoder appears as the steps of its
  start (unlink, create, fill in) and its two ways to end. Names that `SharedRing`
  has too begin with `RG`, so that one module of proofs can extend both.
* `CaptureLoop`: `pc` is the step of the loop between two of which a signal can
  make a difference; `forceIdr`, `activity`, `stop` are the signal flags; `parts`
  the packets of the frame in MPP. The ring is its number of free slots.
* `Frames`: `kind`, `fbs`, `shown` are the compositor's buffers, the kernel's
  framebuffer ids and what the planes scan out; `handles` the encoder's GEM handles,
  which it never closes. `pc` is the next driver call, and between any two of them
  the compositor may do anything. `src` and `cursor` are the caches with the key
  they go by and the buffer they really lead to; `owned`, `freed` what MPP has and
  what was released. `Blended` is the cursor arithmetic along one axis.
* `FileTree` and `Storage`: `ent` is the tree; an open file is found again by its
  writer wherever it has been moved (`Grown`), while handlers and the worker hold
  *paths*, which they walk at each call. A move or a deletion may take any name, those of
  unfinished files too (`list` shows them like others); what it takes away from under a
  writer is marked (`stray`), as is what a dead daemon leaves. `req` is what a handler has resolved, `pc`,
  `cur` and `child` the worker, its download and its curl, `main` the main thread
  from the start to the destructors. `pc = "falling"` is the worker between its test
  of the predicate and its sleep, with the mutex held.
* `Network`: `radio` is what is active on the interface, `saved` the autoconnect of
  each profile, `file` the settings file (`"unset"` while it is truncated), `state`
  the polled `connectState_`. Every thread is a record in `proc`: what it is for and
  its next nmcli call. Each call may fail; a query that fails shows nothing, as the
  code takes it. An attempt that fails may have made a profile that connects by itself
  (`Associate`), which nobody then makes fit; such networks are in `left`.
* `VideoForwarder`: `au`, `hasVCL`, `sps`, `pps`, `ready` are the locals of
  `forwardAnnexBNALs`; `sequence`, `timestamp`, `lastTS` the writer's; each packet
  is one action. `viewer` is the other end: an RFC 6184 depacketizer and a
  decoder that knows its parameter sets and the frame before.
* `Congestion`: one action `Feedback` per read of `drainVideoRTCP`; the
  arithmetic is the code's, in 256ths for losses.
* `LanServer`: one action per section under `sessMu`; `victim` and `condemned` are
  the sessions that a handler or a callback took out of the table and has not
  closed yet. That is the window in which the interesting interleavings are.

Variables commented *history* record what happened for a property's sake and
influence nothing. Operators commented *Mutant* are wrong variants that show that
the properties can fail: with the one put in the place of the right one, its
property is violated (`PROJECT.json`, "mutants").

## 3. Runs

| run | bounds | shows |
|---|---|---|
| `shared_ring` | 2 slots, 6 packets of 2 NAL units, futex word modulo 5 | Unread slots stay whole (`UnreadIntact`), no length is used with another packet's payload (`NoTornRead`), no wakeup is lost (`NoLostWakeup`), NAL units come in stream order, each once (`InStreamOrder`); the ring implements `PacketChannel`; what is published is consumed, a stop is honoured, a close is seen |
| `ring_generations` | 3 generations, inode numbers not recycled | No ring is consumed twice, later ones never before earlier ones (`NoReplay`); a live encoder is noticed; the end of the session ends reader and wrapper |
| `capture_loop` | 1 slot, 2 packets a frame, 2 bitrates | No frame is submitted over an undrained one, an IDR request is served, the idle rate is earned, input ends it, the encoder runs at the bitrate asked for |
| `frames` | 2 framebuffer ids, 2 handles, 3 buffers of 2 modes and 2 formats, 2 encode buffers, a screen of 4 and cursors of 2 and 3 pixels | The caches never give the pixels of another buffer (`NoStaleImport`), what is copied fits what was set up (`FrameFits`), the cursor stays within its picture and the screen (`BlendFits`), MPP's buffers are neither released nor written (`BuffersAreKept`) |
| `storage` | 2 handlers, 3 directories, 3 names for a file, 2 downloads of which 1 may wait, 3 requests or crashes, a file unfinished or whole | What users see is whole (`VisibleIsWhole`), a leftover was moved or its daemon died (`NoLeftover`), the worker sleeps over nothing but for a reason (`SleepsWithReason`), every download ends, a stop ends the daemon |
| `network` | 2 networks, 2 handlers, 2 requests, 1 change from outside or crash | The board stays in reach (`NoStranding`), boot mode and profiles agree but for what failed attempts leave (`BootModeAgrees`), one attempt at a time (`OneAttempt`), which ends (`AttemptEnds`) |
| `forwarder` | native and portable encoder, 2 generations, GOP of 2, mtu 4 with NAL units of 4 and 6, 1 failed write, RTP numbers modulo 3 and 2 | Every picture that the viewer gets whole it can decode, every IDR carries its own encoder's parameter sets (`EveryPictureDecodes`); timestamps change exactly at markers (`UnitsTellApart`); fragments rebuild (`FragmentsRebuild`); a viewer that cannot decode gets an IDR (`Recovers`) |
| `forwarder_warm_up` | native, first packet may be unusable | *violated*: the stream never starts |
| `forwarder_signal` | portable | *violated*: the IDR request ends the command |
| `congestion` | bitrates 4 to 9, evaluation every 2 ticks | The target rises only two calm intervals after the last raise or loss, falls only in congestion, gets back to the maximum though windows without a report come in between |
| `lan_sessions` | a websocket viewer with 2 offers and an `/api/offer` viewer, 2 sessions | No session is leaked, a viewer of one offer keeps the slot while its session is in the table, who leaves is cleaned up, a lost peer is closed |
| `lan_reoffer` | the same, 3 sessions | *violated*: a second offer can let a second viewer in |

Why these bounds are enough. The ring wraps twice and more with six packets in
two slots, its futex word wraps too, and the consumer meets a slot in every
stage of being written; what more slots could add is excluded by the proofs,
which hold for any number. Two sessions of one viewer and one of another are the
least for an old callback to meet a new session and a stranger; three
generations the least for a reader to miss one in between. One slot makes the
encoder wait as often as possible; two packets a frame are the least that can
be torn apart. NAL units of exactly the mtu and of three fragments are the two
sides of the boundary. In `frames` two ids and two handles make the kernel give a number out again after
one removal, and three buffers let a new one take the place of a removed one while
another is shown; the sizes of screen and cursor are even and odd, and the cursor
lies anywhere from wholly off the screen on one side to wholly off on the other. In
`storage` two handlers and three requests are the least for a directory to be moved
and another made in its place while an upload into it is received, and for an upload
to take the name a download has chosen. In `network`
two handlers, the attempt and the rejoining thread are all the actors that can meet
twice; the proofs of both lift the bounds on handlers, networks and requests. That a
download publishes a file that is not its own takes a crash and more requests than
`storage` has; there the proof alone covers it. Where a
counter is bounded (`MaxPackets`, `MaxSessions`,
`MaxOffers`, `MaxGen`, `MaxFailures`, `MaxEvents`, `MaxRequests`, `MaxChanges`) the guard of one action names the bound.
`CHECK_DEADLOCK FALSE` stands where the system may stop: an ended session, an
encoder out of packets, a viewer that is gone.

### Fairness

Processes and goroutines are scheduled (`WF` of their steps). Never assumed: that
an encoder encodes on its own account in `SharedRing`, that anybody fails, sends a
signal, closes a session or changes a bitrate. The 100 ms timeout of the futex
wait is not used, so that `PublishedIsConsumed` shows that wakeups suffice.
`VideoForwarder` assumes that the encoder goes on encoding (it does so also when
the screen is still, at the idle rate) and that a browser which cannot decode
repeats its PLI, which is what WebRTC receivers do. `Congestion` assumes that a
viewer keeps sending reports (`SF` since windows must be due again and again);
`LanServer` assumes nothing of browsers. `Storage` assumes that some thread that can
go on does: a client that sends nothing meets the server's read timeout, a transfer
its deadline; it assumes nothing of curl, of users, or of the sleeping worker.
`Network` assumes that each nmcli call returns, which `runCommand`'s deadline sees
to, and that a sleep ends; nobody has to send a request or switch a Wi-Fi on.

### What the violated runs found

* `lan_reoffer` (`main.go:742`): `closeSession`, called by the late callback of a
  viewer's *previous* peer connection, releases the slot that the viewer has just
  claimed for its next one. A second viewer gets in beside the first, against
  `main_test.go:100`. The bundled page makes one offer per websocket, for which
  `OneOfferKeepsSlot` is checked and proved.
* `forwarder_warm_up` (`main.go:1580`): a circular wait. Output starts with an
  IDR and both parameter sets; a request for an IDR is ignored until output has
  started; the native encoder sends a second IDR only on request.
* `forwarder_signal` (`main.go:1597`): the signals are sent to any backend, only
  the native one has handlers; the default action ends the others.

Two comments are known to promise more than the code does; no run is spent on them.
The comment at encoder line 1597 promises to drain a frame before a stop is honoured,
but `stream_writer_write` (1165) gives up on a stop request in the middle of one; what
is left for the vendor library's sake is the reset before the release, which `frames`
checks. The comment at 1065 takes a new ring file for a new inode number; on a file
system that gives a freed number out at once a live encoder is never noticed
(`RingGenerations` with `Recycled = TRUE` violates `NewGenerationIsNoticed`). On tmpfs,
where the default directory lies, numbers are not reused soon.

What three safety properties excuse, and so what the code does not promise:

* A temporary file is removed by its path (`http_server.cpp:198`,
  `download_manager.cpp:230`). Moved through `/api/move`, by itself or with a directory
  above it, it stays wherever it has got to; so does what a killed daemon leaves.
  `NoLeftover` excuses these and no others.
* The ids in the names of downloads start again with the daemon. An old leftover, moved
  away and back into the place of a running download's file (which must be moved away
  first), is published in its stead, whole or not. `VisibleIsWhole` excuses files
  published this way, which bear the mark of it.
* `nmcli device wifi connect` makes a profile that connects by itself before it tries the
  network. When that fails (`network_manager.cpp:310`, `326`) the profile stays as it is,
  although the boot mode may be the hotspot, up to the next change of the mode or the next
  attempt at that network that succeeds. And a board whose boot mode is the hotspot by
  configuration, without a settings file, keeps the profiles it came with. `BootModeAgrees` excuses
  the first per network (`left`) and the second until the first change of the mode
  (`tangled`, set by `Init`).

Smaller ones in the network manager, met while modelling and allowed for in its
properties: the recovery window (`network_manager.cpp:331`) takes any network that
comes up for the success of the requested one; `status` reads the SSID before the
state (190, 195) and can call a fresh success stale; two overlapping changes of the
boot mode, or one that meets an attempt, can leave "Wi-Fi at boot" with a profile that
does not connect, or the reverse (`tangled`); the rejoining thread of an IPv4 change
brings its profile up a second later whatever has become active meanwhile (452); and
an exception of `runCommand` in that thread (no `pipe` or `fork` left) ends the daemon.
In the encoder, GEM handles are never closed: a leak until the process ends, which
`NoStaleImport` happens to rest on, as it keeps the buffer behind a handle from being
replaced; and one failed GETFB2 (310) makes it guess the colour order from then on.

If the native encoder could send an unusable first packet also after a restart,
`EveryPictureDecodes` would fail too: its IDR would go out with the parameter
sets of the encoder before. `forwarder` excludes this (`Corruptible`).

## 4. Proofs

TLAPS proves the theorems below for all values of the constants, under the named
assumptions of the modules. Each safety theorem follows the same lines: the
invariant is strengthened to an inductive `IInv`; one lemma or step per action
shows that the action keeps it; the theorem combines initial states, steps and
stuttering with PTL.

| module | theorem | property |
|---|---|---|
| `SharedRingProofs` | `TypeCorrect`, `UnreadStaysWhole`, `ReadsAreWhole`, `WakeupsArrive`, `StreamOrder`, `Refinement` | `TypeOK`, `UnreadIntact`, `NoTornRead`, `NoLostWakeup`, `InStreamOrder`, `ImplementsChannel` of `SharedRing` |
| | `GenerationsTyped`, `GenerationsInOrder`, `NewRingsAreTold` | `RGTypeOK`, `NoReplay`, *`NewRingIsTold`* of `RingGenerations` |
| `LanServerProofs` | `TypeCorrect`, `NoLeak`, `SlotKept` | `TypeOK`, `NoLeakedSession`, `OneOfferKeepsSlot` |
| `CaptureLoopProofs` | `FramesAreDrained`, `IdleRateIsEarned`, `RequestsAreKept` | `TypeOK` and `NoStaleFrame`, `IdleIsEarned`, *`RequestIsKept`* |
| `CongestionProofs` | `BitrateInRange`, `RaisesComeSlowly`, `FallsNeedCongestion` | `TypeOK`, `RaisesAreSpaced`, `EstimateAloneNeverLowers` |
| `FramesProofs` | `TypeCorrect`, `ImportsAreFresh`, `CopiesFit`, `CursorsFit`, `BuffersOutliveMpp` | `TypeOK`, `NoStaleImport`, `FrameFits`, `BlendFits`, `BuffersAreKept` |
| `NetworkProofs` | `TypeCorrect`, `AttemptsAreSerial`, `StaysInReach`, `BootIsUnambiguous` | `TypeOK`, `OneAttempt`, `NoStranding`, `BootModeAgrees` |
| `StorageProofs` | `TypeCorrect`, `WholeFiles`, `TemporariesOwned`, `WakeupsArrive`, `DownloadsInOrder` | `TypeOK`, `VisibleIsWhole`, `NoLeftover`, `SleepsWithReason`, *`QueueIsExact`* |
| `VideoForwarderProofs` | `TypeCorrect`, `FragmentsAreWhole`, `UnitsAreToldApart`, `PicturesDecode` | `TypeOK`, `FragmentsRebuild`, `UnitsTellApart`, `EveryPictureDecodes` |

Type invariants and properties in italics are in no run: they were checked by TLC on
the way to their proofs, which say more.

The inductive invariants, and why they are needed:

* `SharedRing`. `RingInv` adds to `UnreadIntact` what the slot under way holds at
  each step of the producer, and that a consumer past its check has a packet to
  read. `StreamInv` ties the NAL unit to come to the packet in the slot.
  `WakeInv` counts: between the consumer's load of the futex word and its wait at
  most `Slots + 2` notifications can pass (a full ring, the packet before it and
  the close), so that with a modulus above that the word cannot have come back to
  the value it had (`NotifyAssumption`; the code's modulus is 2^32).
* `RingGenerations`. `GenerationsInv`: an encoder under way has a file, a live one a
  ring with its magic, and what the path names is never older than the ring consumed
  last, since only the newest encoder creates a file there. With that `NoReplay` needs
  no more than that the reader refuses the inode number of the ring it has left, and
  holds even when numbers are recycled. That a *new* ring is never taken for the old one
  does need that they are not (`InodesDiffer`): `NewRingsAreTold` has `~Recycled` as
  its hypothesis. It is the safe half of `NewGenerationIsNoticed`.
* `LanServer`. `NoLeakedSession` is not inductive: one must know that a session
  under construction is the viewer's own and newest (`LocalInv`, `FreshInv`), that
  the table names sessions of their viewers only (`TableInv`), and that a viewer
  which made one offer has no other session whose callbacks could release its
  slot (`ClaimInv`).
* `CaptureLoop`. Quiet time never exceeds the time since the last input that the
  loop has looked at; from there `IdleIsEarned` follows in one step. `RequestIsKept`,
  the safe half of `IdrIsServed`, is inductive once types are known.
* `Congestion`. `CalmInv`: the time since the last loss or raise is at least the
  time since the last evaluation, plus a whole interval once one clean window is
  counted. `TypeOK` needs the arithmetic of `Clamp` for every range.
* `VideoForwarder`. `Cursor` says that the writer is in the middle of a NAL unit
  only when that one is fragmented, and that the viewer has as much of it as is
  sent; the fragmentation, and the types of what it yields, follow for every mtu
  and length. `ClockInv` adds that only the last NAL unit of a unit is a picture
  (`Pictures`), that each failed write puts the sequence number one ahead of the
  wire (`Ahead`: with fewer failures than sequence numbers a failed write is a
  gap, never the next number again), and how timestamp and marker of the last
  packet relate to the clock between units and within one (`Clock`). `Successor`
  gives what the two wrap-arounds compute.
  `PictureInv` is the chain of pictures from the encoder to the viewer; each part says
  that what comes next follows what came before, or is an IDR with its own parameter
  sets: what the encoder sends next (`EncoderNext`), what the forwarder holds back or
  is writing (`HeldNext`, `WriterNext`), and, while the viewer has missed nothing, how
  far it has got with the unit under way (`Chained`). `Fresh`, `Dressed` and `Dressing`
  say which encoder the cached parameter sets and those of the viewer are of. The
  theorem has the hypothesis `RestartsAreClean`: the first packet of the native encoder
  may be unusable only if it is never restarted. Without it the property is false, see
  the end of section 3.
* `Frames`. `KernelInv`: a framebuffer id names a buffer that exists, and so does a
  handle, since a buffer lives as long as somebody has a handle of it. `ImportInv`:
  an import leads to the buffer behind the handle of its key and has the size and
  format the key says, and so does the frame just asked for; with handles that never
  change, an equal key then is the same buffer, whatever the id. `MppInv`: MPP has
  references only until its reset, and a frame in it is the current one.
  `BlendedFits` is the cursor arithmetic for every size and place.
* `Network`. `RoleInv` says which thread can be at which call, with which network. `CareInv`: when
  nothing is active, no Wi-Fi was seen and nobody is excused, some thread is
  `Responsible`, at a call from which every way out either brings the hotspot up or
  writes an excuse; `NoStranding` is the case that no thread is left. `ModeInv`:
  each profile agrees with the boot mode, was left by a failed attempt, or is still on the
  list of the one thread that spreads the mode. `OneAttempt` is inductive with `RoleInv`: the state says "running"
  before the thread exists and until its last step.
* `Storage`. That visible files are whole rests on who writes what. `NamesInv`: files
  under users' names have no writer and are whole or marked, a temporary name never leads
  to a directory, and a file under an upload's temporary name is that upload's. Of what
  lies at the path of curl's output nothing of the kind can be said, as users may put
  another file there. `Sized`: a writer's file has the size the writer has written, wherever
  it is. `WritersApart`: no two threads have the same writer. `CurlInv`: curl ends well only
  with the last piece. So what is published is its writer's and whole, or another's and marked.
  Every step on the tree is one of four kinds (entries moved or removed, one file published,
  one writer's files grown, one new entry), each with a lemma.
  `NoLeftover` needs to know *where* files lie. `PlacedInv`: an unmarked file under a
  temporary name is where the path of its upload leads, or in the root under the name
  curl was told to write, so that whoever gives up removes just that file. Paths through
  directories survive the steps of others (`WalkChanges`): a move takes away the file moved,
  or what lies in or `Below` the directory moved, and marks it, a removal removes it. For this `Below`
  is defined as the least set of directories closed under containment, not by a bounded
  number of rounds. `SleepInv` and `QueueInv`, the safe halves of `StopEnds` and
  `EveryDownloadEnds`, add to the properties what holds between the worker's test and
  its sleep, when it keeps the mutex, and that a worker without a download has none.

Every invariant and every action property of a passing run is proved.

Only model-checked: the liveness properties (`PublishedIsConsumed`, `StopIsHonoured`,
`CloseIsSeen`, `NewGenerationIsNoticed`, `SessionEnds`, `LeaverIsCleaned`,
`LostPeerIsClosed`, `IdrIsServed`, `ActivityResumes`, `BitrateFollows`, both `Recovers`,
`EveryDownloadEnds`, `StopEnds`, `AttemptEnds`). They rest on fairness and so on
ENABLED, which the prover cannot do. For several the theorems above have the safe half:
nothing that is waited for gets lost (`NoLostWakeup`, `NewRingIsTold`, `RequestIsKept`,
`NoLeakedSession`, `OneAttempt`, `SleepsWithReason`, `QueueIsExact`).

## 5. What is not modelled

* In the modelled components: display probing and xrandr in the wrapper; the
  encoder's options (no cursor, CPU-only and test modes, a limit of frames), its vblank
  wait and the choice among RGA cores, which change no state; the pipe transport (`H264_TRANSPORT=stdout`),
  whose order the kernel keeps; ICE candidates and `closeSessions` at shutdown;
  passwords; the scan for start codes and the NAL buffer pools. In
  `VideoForwarder` the queue of NAL units between reader and forwarder.
* In the daemon: notes and the desktop layout (each one file, overwritten in place;
  the last writer wins and a crash may truncate it), the read-only routes, the
  characters of names and URLs, IPv4 addresses and the lists shown to users, and the
  pipe of `runCommand`: a grandchild of a helper that keeps it open blocks the caller.
* The input device and the audio forwarder: each guards a file descriptor or a socket
  by one mutex and keeps no record that a property could relate to; their hazards are
  in `PROJECT.json`.
* Not at all: the service manager and parsing in routes and configuration (no state
  of their own), hardware probe and one-shot tools (pure input and output), web
  interface, packaging, vendored code. `PROJECT.json` has one line for each.

## 6. Plan

Done, in this order: `PacketChannel` and `SharedRing` with refinement and proofs,
`RingGenerations`, `LanServer` with proofs, `CaptureLoop` with proofs, `Congestion`
with proofs, `VideoForwarder` with proofs, `FileTree` and `Storage` with proofs,
`Network` with proofs, `Frames` with proofs.

Left, most important first:

1. `SessionControl`: input device and audio of a session, composed with the end of
   the session from `LanServer`: keys held down when a connection breaks, a uinput
   write that fails between press and release, an FFmpeg that ends by itself.
2. Shutdown in `LanServer` (`closeSessions` against hijacked websockets).
3. `AnnexB`: the scan for start codes as operators, checked against a reference
   definition over all short byte strings.
4. An abstract store that shows whole files only, and `Storage` as an implementation
   of it; an abstract slot with one holder for `LanServer` with viewers of one offer.
5. Safe halves of `BitrateFollows` and of `Recovers` in both modules.
