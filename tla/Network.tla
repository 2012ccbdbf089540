-------------------------------- MODULE Network --------------------------------
(* The network manager of the daemon: HTTP handlers, the thread of a           *)
(* connection attempt, the thread that brings a profile up again, and the main *)
(* thread work on one Wi-Fi interface, on the profiles of NetworkManager and on *)
(* the settings file, each by a sequence of nmcli calls.  Any call may fail or  *)
(* time out, one that asks for something then shows nothing, and no lock is     *)
(* held from one call to the next.                                             *)
EXTENDS Naturals

CONSTANTS
  Ssids,       \* the networks
  NHandlers,   \* threads of the HTTP server
  Default,     \* Config::autoHotspot, "yes" or "no"
  MaxRequests, \* bound: requests
  MaxChanges   \* bound: networks that come and go, crashes

ASSUME NetworkAssumption ==
  /\ {"none", "hotspot"} \cap Ssids = {}
  /\ {NHandlers, MaxRequests, MaxChanges} \subseteq Nat
  /\ Default \in {"yes", "no"}

Main == 0
Handlers == 1 .. NHandlers
Connector == NHandlers + 1
Rejoiner == NHandlers + 2
Procs == 0 .. NHandlers + 2

VARIABLES
  radio,     \* what is active on the interface: a network, the hotspot, or "none"
  saved,     \* autoconnect of the profile of each network, or "none"
  file,      \* auto_hotspot in the settings file; "unset": missing or cut short
  connected, \* wifiConnectedThisBoot_
  state,     \* connectState_
  proc,      \* what each thread is at
  requests, changes,
  excused,   \* history: why nothing is active is known
  left,      \* history: networks with a profile that a failed attempt has left behind
  tangled    \* history: changes of the boot mode have overlapped or failed, or the
             \* first start found profiles that do not go with it

bounds == <<requests, changes>>
air == <<radio, excused>>
profiles == <<saved, left, tangled>>
vars == <<radio, file, connected, state, proc, bounds, excused, profiles>>

-------------------------------------------------------------------------------
(* Threads *)

Idle == [op |-> "none", at |-> "idle", ssid |-> "none", plain |-> 0, auto |-> "no",
         had |-> 0, todo |-> {}]

Ops == {"none", "boot", "exit", "start", "stop", "scan", "auto", "connect", "ipv4"}
Places ==
  {"idle", "boot", "look", "up", "status", "leave", "wait", "empty", "catch", "write", "list",
   "each", "lock", "join", "queued", "choose", "rejoin", "associate", "fit", "modify", "verify",
   "window", "expired", "settle", "closing", "ended"}

ThreadType ==
  [op : Ops, at : Places, ssid : Ssids \cup {"none"}, plain : {0, 1}, auto : {"yes", "no"},
   had : {0, 1}, todo : SUBSET Ssids]

New(op, at) == [Idle EXCEPT !.op = op, !.at = at]
Running(p, op, at) == proc[p].op = op /\ proc[p].at = at
At(p, at) == proc[p].at = at
Goto(p, at) == proc' = [proc EXCEPT ![p].at = at]
Done(p) == proc' = [proc EXCEPT ![p] = Idle]

\* The threads are alike: a request goes to the first one that is idle.
Accept(h) ==
  /\ proc[Main] = Idle
  /\ proc[h] = Idle
  /\ \A g \in 1 .. h - 1 : proc[g] # Idle
  /\ requests < MaxRequests
  /\ requests' = requests + 1
  /\ UNCHANGED changes

\* settings().value("auto_hotspot", ...)
AutoHotspot == IF file = "unset" THEN Default ELSE file

\* Whoever is between reading or writing the boot mode and the last profile.
Writing(p) == proc[p].at \in {"write", "list", "each", "fit", "modify"}
OtherWrites(p) == \E q \in Procs \ {p} : Writing(q)

\* Autoconnect as it goes with the boot mode.
Fitting(auto) == IF auto = "yes" THEN "no" ELSE "yes"

\* The interface gets to r; a failure that nobody makes up for is an excuse.
Tune(r) == radio' = r /\ excused' = IF r = "none" THEN excused ELSE 0
Lose(r) == radio' = r /\ excused' = IF r = "none" THEN 1 ELSE 0
GiveUp == UNCHANGED radio /\ excused' = IF radio = "none" THEN 1 ELSE excused

\* connection down <hotspot>, its result not looked at.
AfterDown == IF radio = "hotspot" THEN {"none", "hotspot"} ELSE {radio}

\* An activation that fails may have ended the one before.
AfterFailure == {radio, "none"}

\* currentSsid(), which sees nothing when nmcli fails.
SeeWifi == UNCHANGED connected \/ (radio \in Ssids /\ connected' = 1)

Init ==
  /\ radio = "none"
  /\ \/ file = "unset" /\ saved \in [Ssids -> {"none", "yes"}]
     \/ file = "yes" /\ saved \in [Ssids -> {"none", "no"}]
  /\ tangled = IF \A s \in Ssids : saved[s] \in {"none", Fitting(AutoHotspot)} THEN 0 ELSE 1
  /\ left = {}
  /\ connected = 0
  /\ state = [running |-> 0, ssid |-> "none", ok |-> 0]
  /\ proc = [p \in Procs |-> IF p = Main THEN New("boot", "boot") ELSE Idle]
  /\ requests = 0 /\ changes = 0
  /\ excused = 0

-------------------------------------------------------------------------------
(* startHotspot: its callers are handlers, a deep scan, the connection attempt *)
(* and the main thread.                                                        *)

\* Where an exception of it leads: out of the try block of scan, which tries
\* again, and else to the caller's end.
Caught(p) ==
  IF proc[p].op = "connect" THEN Goto(p, "settle")
  ELSE IF proc[p].op = "scan" /\ proc[p].plain = 1
       THEN proc' = [proc EXCEPT ![p].at = "catch", ![p].plain = 0]
  ELSE Done(p)

LookForHotspot(p) ==
  /\ At(p, "look")
  /\ \/ radio = "hotspot" /\ Goto(p, "status") /\ UNCHANGED air
     \/ Goto(p, "up") /\ UNCHANGED air
     \/ Caught(p) /\ GiveUp
  /\ UNCHANGED <<profiles, file, connected, state, bounds>>

HotspotUp(p) ==
  /\ At(p, "up")
  /\ \/ Goto(p, "status") /\ Tune("hotspot")
     \/ Caught(p) /\ \E r \in AfterFailure : Lose(r)
  /\ UNCHANGED <<profiles, file, connected, state, bounds>>

\* status()
Report(p) ==
  /\ At(p, "status")
  /\ SeeWifi
  /\ IF proc[p].op = "connect" THEN Goto(p, "settle") ELSE Done(p)
  /\ UNCHANGED <<air, profiles, file, state, bounds>>

\* maybeStartHotspot
Boot ==
  /\ At(Main, "boot")
  /\ \/ (AutoHotspot = "no" \/ radio # "none") /\ Done(Main) /\ GiveUp
     \/ AutoHotspot = "yes" /\ Goto(Main, "look") /\ UNCHANGED air
  /\ UNCHANGED <<profiles, file, connected, state, bounds>>

-------------------------------------------------------------------------------
(* Requests that look, and those that start and stop the hotspot *)

Status(h) ==
  /\ Accept(h)
  /\ SeeWifi
  /\ UNCHANGED <<air, profiles, file, state, proc>>

StartHotspot(h) ==
  /\ Accept(h)
  /\ proc' = [proc EXCEPT ![h] = New("start", "look")]
  /\ UNCHANGED <<air, profiles, file, connected, state>>

StopHotspot(h) ==
  /\ Accept(h)
  /\ \E r \in AfterDown : Lose(r)
  /\ proc' = [proc EXCEPT ![h] = New("stop", "status")]
  /\ UNCHANGED <<profiles, file, connected, state>>

-------------------------------------------------------------------------------
(* scan(deep) *)

\* Without an interface it fails at once, which changes nothing.  "plain": it
\* is in its try block.
DeepScan(h) ==
  /\ Accept(h)
  /\ \E had \in {0, 1} :
       /\ had = 1 => radio = "hotspot"
       /\ proc' = [proc EXCEPT ![h] =
            [New("scan", IF had = 1 THEN "leave" ELSE "wait") EXCEPT !.plain = 1, !.had = had]]
  /\ UNCHANGED <<air, profiles, file, connected, state>>

LeaveHotspot(h) ==
  /\ Running(h, "scan", "leave")
  /\ \E r \in AfterDown : Tune(r)
  /\ Goto(h, "wait")
  /\ UNCHANGED <<profiles, file, connected, state, bounds>>

ListNetworks(h) ==
  LET had == proc[h].had = 1
  IN  /\ Running(h, "scan", "wait")
      /\ \/ Done(h) /\ (IF had THEN GiveUp ELSE UNCHANGED air)  \* there are some
         \/ /\ IF had THEN Goto(h, "empty") ELSE Done(h)
            /\ UNCHANGED air
         \/ /\ proc' = [proc EXCEPT ![h].at = "catch", ![h].plain = 0]
            /\ UNCHANGED air
      /\ UNCHANGED <<profiles, file, connected, state, bounds>>

\* The hotspot comes back when there are no networks, or after an exception.
ReturnToHotspot(h) ==
  /\ proc[h].op = "scan" /\ proc[h].at \in {"empty", "catch"}
  /\ IF proc[h].had = 1 /\ AutoHotspot = "yes"
     THEN Goto(h, "look") /\ UNCHANGED air
     ELSE Done(h) /\ (IF proc[h].had = 1 THEN GiveUp ELSE UNCHANGED air)
  /\ UNCHANGED <<profiles, file, connected, state, bounds>>

-------------------------------------------------------------------------------
(* setAutoHotspot *)

\* saveSettings opens, and truncates, the file first.
OpenSettings(h) ==
  /\ Accept(h)
  /\ \E v \in {"yes", "no"} :
       proc' = [proc EXCEPT ![h] = [New("auto", "write") EXCEPT !.auto = v]]
  /\ file' = "unset"
  /\ tangled' = IF OtherWrites(h) THEN 1 ELSE 0
  /\ UNCHANGED <<air, saved, left, connected, state>>

\* Whether the text has reached the disk is not looked at.
WriteSettings(h) ==
  /\ At(h, "write")
  /\ \/ file' = proc[h].auto /\ UNCHANGED tangled
     \/ UNCHANGED file /\ tangled' = 1
  /\ Goto(h, "list")
  /\ UNCHANGED <<air, saved, left, connected, state, bounds>>

ListProfiles(h) ==
  /\ At(h, "list")
  /\ \/ /\ proc' = [proc EXCEPT ![h].at = "each", ![h].todo = {s \in Ssids : saved[s] # "none"}]
        /\ UNCHANGED tangled
     \/ Done(h) /\ tangled' = 1
  /\ UNCHANGED <<air, saved, left, file, connected, state, bounds>>

\* connection modify ... autoconnect, its result not looked at.
Modify(s, v) ==
  \/ saved' = [saved EXCEPT ![s] = v] /\ left' = left \ {s} /\ UNCHANGED tangled
  \/ UNCHANGED <<saved, left>> /\ tangled' = 1

ModifyNext(h) ==
  /\ At(h, "each")
  /\ IF proc[h].todo = {}
     THEN Done(h) /\ UNCHANGED profiles
     ELSE \E s \in proc[h].todo :
            /\ Modify(s, Fitting(proc[h].auto))
            /\ proc' = [proc EXCEPT ![h].todo = @ \ {s}]
  /\ UNCHANGED <<air, file, connected, state, bounds>>

-------------------------------------------------------------------------------
(* connectWifi: the handler *)

\* Mutant: whether an attempt is running is not looked at.
ConnectAnyway(h) ==
  /\ Accept(h)
  /\ \E s \in Ssids : \E plain \in {0, 1} :
       /\ state' = [running |-> 1, ssid |-> s, ok |-> 0]
       /\ proc' = [proc EXCEPT ![h] =
            [New("connect", "lock") EXCEPT !.ssid = s, !.plain = plain]]
  /\ UNCHANGED <<air, profiles, file, connected>>

ConnectWifi(h) ==
  /\ Accept(h)
  /\ state.running = 0
  /\ \E s \in Ssids : \E plain \in {0, 1} :
       /\ state' = [running |-> 1, ssid |-> s, ok |-> 0]
       /\ proc' = [proc EXCEPT ![h] =
            [New("connect", "lock") EXCEPT !.ssid = s, !.plain = plain]]
  /\ UNCHANGED <<air, profiles, file, connected>>

\* workerMutex_ is held while a thread is waited for.
Lock(h) ==
  /\ At(h, "lock")
  /\ \A g \in Handlers : ~At(g, "join")
  /\ Goto(h, "join")
  /\ UNCHANGED <<air, profiles, file, connected, state, bounds>>

\* The attempt before has ended, and the next one starts.
StartAttempt(h) ==
  /\ Running(h, "connect", "join")
  /\ proc[Connector] = Idle
  /\ proc' = [proc EXCEPT ![h] = Idle, ![Connector] = [proc[h] EXCEPT !.at = "queued"]]
  /\ UNCHANGED <<air, profiles, file, connected, state, bounds>>

-------------------------------------------------------------------------------
(* connectWifi: the attempt *)

Attempt == proc[Connector]
To(at) == Goto(Connector, at)

FindHotspot ==
  /\ Running(Connector, "connect", "queued")
  /\ (radio = "hotspot" /\ To("leave")) \/ To("choose")
  /\ UNCHANGED <<air, profiles, file, connected, state, bounds>>

QuitHotspot ==
  /\ Running(Connector, "connect", "leave")
  /\ \E r \in AfterDown : Tune(r)
  /\ To("choose")
  /\ UNCHANGED <<profiles, file, connected, state, bounds>>

\* No interface is an exception.  "plain": the network is known or there is no
\* password.
Choose ==
  /\ Running(Connector, "connect", "choose")
  /\ \/ Attempt.plain = 1 /\ saved[Attempt.ssid] # "none" /\ To("rejoin")
     \/ To("associate")
     \/ To("window")
  /\ UNCHANGED <<air, profiles, file, connected, state, bounds>>

\* connection up, or device wifi connect, which makes a profile that connects by
\* itself before it activates it, and leaves it behind when that fails.
Associate ==
  LET s == Attempt.ssid
      new == Attempt.at = "associate" /\ saved[s] = "none"
  IN  /\ Attempt.op = "connect" /\ Attempt.at \in {"rejoin", "associate"}
      /\ \/ /\ Tune(s)
            /\ saved' = IF new THEN [saved EXCEPT ![s] = "yes"] ELSE saved
            /\ tangled' = IF OtherWrites(Connector) THEN 1 ELSE tangled
            /\ UNCHANGED left
            /\ To("fit")
         \/ /\ \E r \in AfterFailure : Tune(r)
            /\ \/ UNCHANGED <<saved, left>>
               \/ new /\ saved' = [saved EXCEPT ![s] = "yes"] /\ left' = left \cup {s}
            /\ UNCHANGED tangled
            /\ To("window")
      /\ UNCHANGED <<file, connected, state, bounds>>

\* Mutant: the configured mode is taken for the one in force.
ReadConfig ==
  /\ At(Connector, "fit")
  /\ proc' = [proc EXCEPT ![Connector].at = "modify", ![Connector].auto = Default]
  /\ UNCHANGED <<air, profiles, file, connected, state, bounds>>

\* Where the profile is seen, the boot mode is read.
ReadBootMode ==
  /\ At(Connector, "fit")
  /\ \/ /\ proc' = [proc EXCEPT ![Connector].at = "modify", ![Connector].auto = AutoHotspot]
        /\ UNCHANGED tangled
     \/ To("verify") /\ tangled' = 1
  /\ UNCHANGED <<air, saved, left, file, connected, state, bounds>>

FitProfile ==
  /\ At(Connector, "modify")
  /\ Modify(Attempt.ssid, Fitting(Attempt.auto))
  /\ To("verify")
  /\ UNCHANGED <<air, file, connected, state, bounds>>

Settled(ok) ==
  /\ state' = [running |-> 0, ssid |-> Attempt.ssid, ok |-> ok]
  /\ Done(Connector)

Verify ==
  /\ At(Connector, "verify")
  /\ \/ radio = Attempt.ssid /\ Settled(1) /\ connected' = 1
     \/ Settled(0) /\ UNCHANGED connected
  /\ UNCHANGED <<air, profiles, file, bounds>>

\* The manual-recovery-window: any network will do.
SeeRecovery ==
  /\ At(Connector, "window")
  /\ radio \in Ssids
  /\ connected' = 1
  /\ Settled(1)
  /\ UNCHANGED <<air, profiles, file, bounds>>

EndWindow ==
  /\ At(Connector, "window")
  /\ To("expired")
  /\ UNCHANGED <<air, profiles, file, connected, state, bounds>>

\* Mutant: the hotspot is not restored after a failure.
RestoreNothing ==
  /\ At(Connector, "expired")
  /\ To("settle")
  /\ UNCHANGED <<air, profiles, file, connected, state, bounds>>

RestoreHotspot ==
  /\ At(Connector, "expired")
  /\ IF connected = 0 /\ AutoHotspot = "yes"
     THEN To("look") /\ UNCHANGED air
     ELSE To("settle") /\ (IF connected = 0 THEN GiveUp ELSE UNCHANGED air)
  /\ UNCHANGED <<profiles, file, connected, state, bounds>>

\* Mutant: the end of a failed attempt is not noted.
SettleSilently ==
  /\ At(Connector, "settle")
  /\ Done(Connector)
  /\ UNCHANGED <<air, profiles, file, connected, state, bounds>>

Settle ==
  /\ At(Connector, "settle")
  /\ Settled(0)
  /\ UNCHANGED <<air, profiles, file, connected, bounds>>

-------------------------------------------------------------------------------
(* setIpv4, of a profile that is active *)

SetIpv4(h) ==
  /\ Accept(h)
  /\ radio \in Ssids
  /\ proc' = [proc EXCEPT ![h] = [New("ipv4", "lock") EXCEPT !.ssid = radio]]
  /\ UNCHANGED <<air, profiles, file, connected, state>>

StartRejoin(h) ==
  /\ Running(h, "ipv4", "join")
  /\ proc[Rejoiner] = Idle
  /\ proc' = [proc EXCEPT ![h] = Idle, ![Rejoiner] = [proc[h] EXCEPT !.at = "rejoin"]]
  /\ UNCHANGED <<air, profiles, file, connected, state, bounds>>

\* A second later, whatever has become active meanwhile.
Rejoin ==
  /\ At(Rejoiner, "rejoin")
  /\ Tune(proc[Rejoiner].ssid) \/ \E r \in AfterFailure : Lose(r)
  /\ Done(Rejoiner)
  /\ UNCHANGED <<profiles, file, connected, state, bounds>>

-------------------------------------------------------------------------------
(* The end *)

\* No more requests are taken.
StopServer ==
  /\ proc[Main] = Idle
  /\ proc' = [proc EXCEPT ![Main] = New("exit", "closing")]
  /\ UNCHANGED <<air, profiles, file, connected, state, bounds>>

\* ~NetworkManager, when the handlers have ended, waits for both threads.
Destroy ==
  /\ At(Main, "closing")
  /\ \A p \in Procs \ {Main} : proc[p] = Idle
  /\ Goto(Main, "ended")
  /\ UNCHANGED <<air, profiles, file, connected, state, bounds>>

-------------------------------------------------------------------------------
(* The surroundings *)

Change == changes < MaxChanges /\ changes' = changes + 1 /\ UNCHANGED requests

\* NetworkManager by itself, late, or somebody at the board.
WifiComes ==
  /\ Change
  /\ \E s \in Ssids : saved[s] # "none" /\ radio # s /\ Tune(s)
  /\ UNCHANGED <<profiles, file, connected, state, proc>>

WifiGoes ==
  /\ Change
  /\ radio \in Ssids
  /\ Lose("none")
  /\ UNCHANGED <<profiles, file, connected, state, proc>>

\* The daemon dies, or the board starts again.
Crash ==
  /\ Change
  /\ radio' \in {radio, "none"} /\ excused' = 0
  /\ connected' = 0
  /\ state' = [running |-> 0, ssid |-> "none", ok |-> 0]
  /\ proc' = [p \in Procs |-> IF p = Main THEN New("boot", "boot") ELSE Idle]
  /\ tangled' = IF \E p \in Procs : Writing(p) THEN 1 ELSE tangled
  /\ UNCHANGED <<saved, left, file>>

-------------------------------------------------------------------------------
Request(h) ==
  \/ Status(h) \/ StartHotspot(h) \/ StopHotspot(h) \/ DeepScan(h) \/ OpenSettings(h)
  \/ ConnectWifi(h) \/ SetIpv4(h)

HandlerStep(h) ==
  \/ LeaveHotspot(h) \/ ListNetworks(h) \/ ReturnToHotspot(h)
  \/ WriteSettings(h) \/ ListProfiles(h) \/ ModifyNext(h)
  \/ Lock(h) \/ StartAttempt(h) \/ StartRejoin(h)

AttemptStep ==
  \/ FindHotspot \/ QuitHotspot \/ Choose \/ Associate \/ ReadBootMode \/ FitProfile
  \/ Verify \/ SeeRecovery \/ EndWindow \/ RestoreHotspot \/ Settle

HotspotStep(p) == LookForHotspot(p) \/ HotspotUp(p) \/ Report(p)

Progress ==
  \/ \E h \in Handlers : HandlerStep(h)
  \/ \E p \in Procs : HotspotStep(p)
  \/ AttemptStep \/ Rejoin \/ Boot \/ Destroy

Next ==
  \/ Progress
  \/ \E h \in Handlers : Request(h)
  \/ StopServer \/ WifiComes \/ WifiGoes \/ Crash

Spec == Init /\ [][Next]_vars

\* Each nmcli call has a deadline, each sleep an end.
FairSpec == Spec /\ WF_vars(Progress)

-------------------------------------------------------------------------------
(* Properties *)

TypeOK ==
  /\ radio \in Ssids \cup {"none", "hotspot"}
  /\ saved \in [Ssids -> {"none", "yes", "no"}] /\ left \subseteq Ssids
  /\ file \in {"unset", "yes", "no"}
  /\ state \in [running : {0, 1}, ssid : Ssids \cup {"none"}, ok : {0, 1}]
  /\ proc \in [Procs -> ThreadType]
  /\ requests \in 0 .. MaxRequests /\ changes \in 0 .. MaxChanges
  /\ {connected, excused, tangled} \subseteq {0, 1}

\* The board stays within reach: as long as no Wi-Fi has been seen since the
\* start and the hotspot is wanted, an interface that is left with nothing has
\* a reason: somebody stopped the hotspot or asked for networks and got some, a
\* Wi-Fi went away, or the hotspot itself could not be started.  In particular
\* the failure of a connection attempt, at whatever call, is no such reason.
NoStranding ==
  (\A p \in Procs : proc[p] = Idle) /\ radio = "none" /\ connected = 0 /\ AutoHotspot = "yes"
    => excused = 1

\* "Hotspot at boot" and the profiles that connect by themselves go together:
\* where changes of the mode neither overlap with each other or with a connection
\* attempt nor fail in part, the next start of the board finds either the
\* hotspot wanted and no profile that connects, or the reverse.  Two things are
\* excused, up to the next change of the mode.  A network that an attempt failed
\* to join may have a new profile that connects whatever the mode, since only an
\* attempt that succeeds makes it fit.  And so may the profiles that were there
\* before the daemon first ran, without a settings file.
BootModeAgrees ==
  tangled = 0 /\ (\A p \in Procs : ~Writing(p)) =>
    \A s \in Ssids \ left : saved[s] \in {"none", Fitting(AutoHotspot)}

\* At most one attempt is under way, and the state that the web interface polls
\* says so and names its network.
OneAttempt ==
  \A p \in Procs : proc[p].op = "connect" =>
    /\ \A q \in Procs : proc[q].op = "connect" => p = q
    /\ state.running = 1 /\ state.ssid = proc[p].ssid

\* An attempt ends and says so, so that the next one is not refused for ever.
AttemptEnds == state.running = 1 ~> state.running = 0
===============================================================================
