---------------------------- MODULE NetworkProofs -----------------------------
(***************************************************************************)
(* Proofs about Network, for every set of networks and number of handlers, *)
(* and for any number of requests and of networks that come and go.        *)
(***************************************************************************)
EXTENDS Network, TLAPS

\* What the threads do: the connection attempt and the new start of a profile
\* have a thread each, and the modes are written by handlers and the attempt.
RoleInv ==
  /\ proc[Connector] = Idle \/ proc[Connector].op = "connect"
  /\ proc[Rejoiner] = Idle \/ proc[Rejoiner].op = "ipv4"
  /\ proc[Main].op # "connect"
  /\ \A p \in Procs :
       /\ proc[p].op \in {"connect", "ipv4"} => proc[p].ssid \in Ssids
       /\ proc[p].at \in {"write", "list", "each"} => p \in Handlers
       /\ proc[p].at \in {"fit", "modify"} => p = Connector
       /\ proc[p].op = "scan" /\ proc[p].at = "leave" => proc[p].had = 1

\* A thread that will bring something up, or give a reason why not.
Responsible(p) ==
  \/ proc[p].at \in {"boot", "look", "up", "choose", "associate", "window", "expired"}
  \/ p = Connector /\ proc[p].at = "rejoin"
  \/ proc[p].at \in {"wait", "empty", "catch"} /\ proc[p].had = 1

\* An interface with nothing on it has a reason, or somebody takes care of it.
CareInv == radio = "none" /\ excused = 0 /\ connected = 0 => \E p \in Procs : Responsible(p)

Agrees(s) == s \in left \/ saved[s] \in {"none", Fitting(AutoHotspot)}

\* As long as changes of the boot mode do not meet, there is one writer, and what
\* it has not yet written, or a failed attempt has left, is all that can disagree.
ModeInv ==
  tangled = 0 =>
    /\ \A p, q \in Procs : Writing(p) /\ Writing(q) => p = q
    /\ (\A p \in Procs : ~Writing(p)) => \A s \in Ssids : Agrees(s)
    /\ \A p \in Procs :
         /\ proc[p].at \in {"list", "each"} => file = proc[p].auto
         /\ proc[p].at = "each" => \A s \in Ssids \ proc[p].todo : Agrees(s)
         /\ proc[p].at \in {"fit", "modify"} => \A s \in Ssids \ {proc[p].ssid} : Agrees(s)
         /\ proc[p].at = "modify" => proc[p].auto = AutoHotspot

IInv == TypeOK /\ RoleInv /\ OneAttempt /\ CareInv /\ ModeInv

\* The threads are different ones.
LEMMA Threads ==
  /\ Main \in Procs /\ Connector \in Procs /\ Rejoiner \in Procs /\ Handlers \subseteq Procs
  /\ Main \notin Handlers /\ Connector \notin Handlers /\ Rejoiner \notin Handlers
  /\ Main # Connector /\ Main # Rejoiner /\ Connector # Rejoiner
BY NetworkAssumption DEF Main, Connector, Rejoiner, Handlers, Procs

-------------------------------------------------------------------------------
(* The parts of the invariant. *)

\* A thread that ends, or goes on with what it is at, keeps to its role.
LEMMA RoleOne ==
  ASSUME TypeOK, RoleInv, NEW p \in Procs,
         \A q \in Procs \ {p} : proc'[q] = proc[q],
         \/ proc'[p] = Idle
         \/ /\ proc[p] # Idle
            /\ proc'[p].op = proc[p].op /\ proc'[p].ssid = proc[p].ssid
            /\ proc'[p].at \in {"write", "list", "each"} => p \in Handlers
            /\ proc'[p].at \in {"fit", "modify"} => p = Connector
            /\ proc'[p].op # "scan" \/ proc'[p].at # "leave"
  PROVE  RoleInv'
BY Threads DEF RoleInv, Idle

\* What the three ways to go on do.
LEMMA GotoIs ==
  ASSUME TypeOK, NEW p \in Procs, NEW l \in Places, Goto(p, l)
  PROVE  /\ proc' \in [Procs -> ThreadType]
         /\ \A q \in Procs \ {p} : proc'[q] = proc[q]
         /\ proc'[p].at = l
         /\ proc'[p].op = proc[p].op /\ proc'[p].ssid = proc[p].ssid
         /\ proc'[p].auto = proc[p].auto /\ proc'[p].had = proc[p].had
BY DEF Goto, TypeOK, ThreadType

\* A thread that is done has nothing in hand.
LEMMA DoneIs ==
  ASSUME TypeOK, NEW p \in Procs, Done(p)
  PROVE  /\ proc' \in [Procs -> ThreadType]
         /\ \A q \in Procs \ {p} : proc'[q] = proc[q]
         /\ proc'[p] = Idle
BY DEF Done, TypeOK, ThreadType, Idle, Ops, Places

\* An exception sends a thread on to settle or catch it, or ends it.
LEMMA CaughtIs ==
  ASSUME TypeOK, NEW p \in Procs, Caught(p)
  PROVE  /\ proc' \in [Procs -> ThreadType]
         /\ \A q \in Procs \ {p} : proc'[q] = proc[q]
         /\ \/ proc'[p] = Idle /\ proc[p].op # "connect"
            \/ /\ proc'[p].at \in {"settle", "catch"}
               /\ proc'[p].op = proc[p].op /\ proc'[p].ssid = proc[p].ssid
               /\ proc'[p].auto = proc[p].auto /\ proc'[p].had = proc[p].had
<1>1. CASE proc[p].op = "connect"
  BY <1>1, GotoIs DEF Caught, Places
<1>2. CASE proc[p].op = "scan" /\ proc[p].plain = 1
  <2> DEFINE t == [proc[p] EXCEPT !.at = "catch"]
             u == [t EXCEPT !.plain = 0]
  <2>1. proc[p] \in ThreadType
    BY DEF TypeOK
  <2>2. t \in ThreadType /\ t.at = "catch" /\ t.op = proc[p].op /\ t.ssid = proc[p].ssid
        /\ t.auto = proc[p].auto /\ t.had = proc[p].had
    BY <2>1 DEF ThreadType, Places
  <2> HIDE DEF t
  <2>3. u \in ThreadType /\ u.at = "catch" /\ u.op = proc[p].op /\ u.ssid = proc[p].ssid
        /\ u.auto = proc[p].auto /\ u.had = proc[p].had
    BY <2>2 DEF ThreadType
  <2>4. proc' = [proc EXCEPT ![p] = u]
    BY <1>2 DEF Caught, t, TypeOK
  <2> HIDE DEF u
  <2>5. QED
    BY <2>3, <2>4 DEF TypeOK
<1>3. CASE proc[p].op # "connect" /\ ~(proc[p].op = "scan" /\ proc[p].plain = 1)
  BY <1>3, DoneIs DEF Caught
<1>4. QED
  BY <1>1, <1>2, <1>3

\* A handler that has the list of profiles ends or goes through them.
LEMMA ListIs ==
  ASSUME TypeOK, NEW h \in Handlers, ListProfiles(h)
  PROVE  /\ proc' \in [Procs -> ThreadType]
         /\ \A q \in Procs \ {h} : proc'[q] = proc[q]
         /\ proc[h].at = "list"
         /\ \/ proc'[h] = Idle
            \/ /\ proc'[h].at = "each"
               /\ proc'[h].op = proc[h].op /\ proc'[h].ssid = proc[h].ssid
               /\ proc'[h].auto = proc[h].auto /\ proc'[h].had = proc[h].had
<1>1. proc[h].at = "list"
  BY DEF ListProfiles, At
<1>2. CASE Done(h)
  BY <1>1, <1>2, DoneIs, Threads
<1>3. CASE proc' = [proc EXCEPT ![h].at = "each", ![h].todo = {s \in Ssids : saved[s] # "none"}]
  <2> DEFINE t == [proc[h] EXCEPT !.at = "each"]
             u == [t EXCEPT !.todo = {s \in Ssids : saved[s] # "none"}]
  <2>1. proc[h] \in ThreadType
    BY Threads DEF TypeOK
  <2>2. t \in ThreadType /\ t.at = "each" /\ t.op = proc[h].op /\ t.ssid = proc[h].ssid
        /\ t.auto = proc[h].auto /\ t.had = proc[h].had
    BY <2>1 DEF ThreadType, Places
  <2>3. proc' = [proc EXCEPT ![h] = u]
    BY <1>3, Threads DEF TypeOK
  <2> HIDE DEF t
  <2>4. u \in ThreadType /\ u.at = "each" /\ u.op = proc[h].op /\ u.ssid = proc[h].ssid
        /\ u.auto = proc[h].auto /\ u.had = proc[h].had
    BY <2>2 DEF ThreadType
  <2> HIDE DEF u
  <2>5. QED
    BY <1>1, <2>3, <2>4, Threads DEF TypeOK
<1>4. QED
  BY <1>2, <1>3 DEF ListProfiles

\* The attempt reads the boot mode and decides whether the profile fits.
LEMMA ReadIs ==
  ASSUME TypeOK, ReadBootMode
  PROVE  /\ proc' \in [Procs -> ThreadType]
         /\ \A q \in Procs \ {Connector} : proc'[q] = proc[q]
         /\ proc[Connector].at = "fit"
         /\ proc'[Connector].at \in {"modify", "verify"}
         /\ proc'[Connector].op = proc[Connector].op
         /\ proc'[Connector].ssid = proc[Connector].ssid
<1>1. proc[Connector].at = "fit"
  BY DEF ReadBootMode, At
<1>2. CASE To("verify")
  BY <1>1, <1>2, GotoIs, Threads DEF To, Places
<1>3. CASE proc' = [proc EXCEPT ![Connector].at = "modify", ![Connector].auto = AutoHotspot]
  <2> DEFINE t == [proc[Connector] EXCEPT !.at = "modify"]
             u == [t EXCEPT !.auto = AutoHotspot]
  <2>1. proc[Connector] \in ThreadType /\ AutoHotspot \in {"yes", "no"}
    BY NetworkAssumption, Threads DEF AutoHotspot, TypeOK
  <2>2. t \in ThreadType /\ t.at = "modify" /\ t.op = proc[Connector].op
        /\ t.ssid = proc[Connector].ssid
    BY <2>1 DEF ThreadType, Places
  <2>3. proc' = [proc EXCEPT ![Connector] = u]
    BY <1>3, Threads DEF TypeOK
  <2> HIDE DEF t
  <2>4. u \in ThreadType /\ u.at = "modify" /\ u.op = proc[Connector].op
        /\ u.ssid = proc[Connector].ssid
    BY <2>1, <2>2 DEF ThreadType
  <2> HIDE DEF u
  <2>5. QED
    BY <1>1, <2>3, <2>4, Threads DEF TypeOK
<1>4. QED
  BY <1>2, <1>3 DEF ReadBootMode

\* A thread that begins.
LEMMA NewIs ==
  ASSUME NEW op \in Ops, NEW at \in Places
  PROVE  /\ Idle \in ThreadType /\ Idle.op = "none" /\ Idle.at = "idle"
         /\ New(op, at) \in ThreadType
         /\ New(op, at).op = op /\ New(op, at).at = at
<1> DEFINE t == [Idle EXCEPT !.op = op]
           u == [t EXCEPT !.at = at]
<1>1. Idle \in ThreadType /\ Idle.op = "none" /\ Idle.at = "idle"
  BY DEF Idle, ThreadType, Ops, Places
<1>2. t \in ThreadType /\ t.op = op
  BY <1>1 DEF ThreadType
<1>3. New(op, at) = u
  BY <1>1 DEF New, ThreadType
<1> HIDE DEF t
<1>4. u \in ThreadType /\ u.op = op /\ u.at = at
  BY <1>2 DEF ThreadType
<1> HIDE DEF u
<1>5. QED
  BY <1>1, <1>3, <1>4

\* A request that takes several steps.
Begin(h) ==
  \/ StartHotspot(h) \/ StopHotspot(h) \/ DeepScan(h) \/ OpenSettings(h) \/ ConnectWifi(h)
  \/ SetIpv4(h)

\* It has its thread, with the network it is about; an attempt starts only where
\* none is running, and only setAutoHotspot starts with the settings.
LEMMA Begins ==
  ASSUME TypeOK, NEW h \in Handlers, Begin(h)
  PROVE  \E t \in ThreadType :
           /\ proc[h] = Idle
           /\ \A q \in Procs : proc'[q] = IF q = h THEN t ELSE proc[q]
           /\ proc' \in [Procs -> ThreadType]
           /\ t.op \in {"start", "stop", "scan", "auto", "connect", "ipv4"}
           /\ t.at \in {"look", "status", "leave", "wait", "write", "lock"}
           /\ t.op \in {"connect", "ipv4"} => t.ssid \in Ssids
           /\ t.op = "scan" /\ t.at = "leave" => t.had = 1
           /\ IF t.op = "connect"
              THEN state.running = 0 /\ state'.running = 1 /\ state'.ssid = t.ssid
              ELSE state' = state
           /\ saved' = saved /\ left' = left
           /\ IF t.at = "write"
              THEN tangled' = IF OtherWrites(h) THEN 1 ELSE 0
              ELSE tangled' = tangled /\ file' = file
<1>1. \A t \in ThreadType : proc' = [proc EXCEPT ![h] = t] =>
        /\ \A q \in Procs : proc'[q] = IF q = h THEN t ELSE proc[q]
        /\ proc' \in [Procs -> ThreadType]
  BY Threads DEF TypeOK
<1>2. proc[h] = Idle
  BY DEF Begin, StartHotspot, StopHotspot, DeepScan, OpenSettings, ConnectWifi,
      SetIpv4, Accept
<1>3. CASE StartHotspot(h)
  <2> DEFINE t == New("start", "look")
  <2>1. proc' = [proc EXCEPT ![h] = t] /\ UNCHANGED <<state, saved, left, tangled, file>>
    BY <1>3 DEF StartHotspot, profiles
  <2>2. t \in ThreadType /\ t.op = "start" /\ t.at = "look"
    BY NewIs DEF Ops, Places
  <2> HIDE DEF t
  <2>3. QED
    BY <1>1, <1>2, <2>1, <2>2
<1>4. CASE StopHotspot(h)
  <2> DEFINE t == New("stop", "status")
  <2>1. proc' = [proc EXCEPT ![h] = t] /\ UNCHANGED <<state, saved, left, tangled, file>>
    BY <1>4 DEF StopHotspot, profiles
  <2>2. t \in ThreadType /\ t.op = "stop" /\ t.at = "status"
    BY NewIs DEF Ops, Places
  <2> HIDE DEF t
  <2>3. QED
    BY <1>1, <1>2, <2>1, <2>2
<1>5. CASE DeepScan(h)
  <2>1. PICK had \in {0, 1} :
          proc' = [proc EXCEPT ![h] =
            [New("scan", IF had = 1 THEN "leave" ELSE "wait") EXCEPT !.plain = 1, !.had = had]]
    BY <1>5 DEF DeepScan
  <2> DEFINE t == New("scan", IF had = 1 THEN "leave" ELSE "wait")
             u == [t EXCEPT !.plain = 1]
             w == [u EXCEPT !.had = had]
  <2>2. t \in ThreadType /\ t.op = "scan" /\ t.at \in {"leave", "wait"}
        /\ (t.at = "leave" => had = 1)
    BY NewIs DEF Ops, Places
  <2>3. proc' = [proc EXCEPT ![h] = w] /\ UNCHANGED <<state, saved, left, tangled, file>>
    BY <1>5, <2>1 DEF DeepScan, profiles
  <2> HIDE DEF t
  <2>4. u \in ThreadType /\ u.op = "scan" /\ u.at \in {"leave", "wait"}
        /\ (u.at = "leave" => had = 1)
    BY <2>2 DEF ThreadType
  <2> HIDE DEF u
  <2>5. w \in ThreadType /\ w.op = "scan" /\ w.at \in {"leave", "wait"} /\ (w.at = "leave" => w.had = 1)
    BY <2>4 DEF ThreadType
  <2> HIDE DEF w
  <2>6. QED
    BY <1>1, <1>2, <2>3, <2>5
<1>6. CASE OpenSettings(h)
  <2> DEFINE t == New("auto", "write")
  <2>1. PICK v \in {"yes", "no"} : proc' = [proc EXCEPT ![h] = [t EXCEPT !.auto = v]]
    BY <1>6 DEF OpenSettings
  <2>2. t \in ThreadType /\ t.op = "auto" /\ t.at = "write"
    BY NewIs DEF Ops, Places
  <2> HIDE DEF t
  <2> DEFINE u == [t EXCEPT !.auto = v]
  <2>3. u \in ThreadType /\ u.op = "auto" /\ u.at = "write"
    BY <2>2 DEF ThreadType
  <2>4. proc' = [proc EXCEPT ![h] = u]
    BY <2>1
  <2>5. UNCHANGED <<state, saved, left>> /\ tangled' = IF OtherWrites(h) THEN 1 ELSE 0
    BY <1>6 DEF OpenSettings
  <2> HIDE DEF u
  <2>6. QED
    BY <1>1, <1>2, <2>3, <2>4, <2>5
<1>7. CASE ConnectWifi(h)
  <2> DEFINE t == New("connect", "lock")
  <2>1. PICK s \in Ssids, plain \in {0, 1} :
          /\ proc' = [proc EXCEPT ![h] = [t EXCEPT !.ssid = s, !.plain = plain]]
          /\ state' = [running |-> 1, ssid |-> s, ok |-> 0]
    BY <1>7 DEF ConnectWifi
  <2>2. t \in ThreadType /\ t.op = "connect" /\ t.at = "lock"
    BY NewIs DEF Ops, Places
  <2> HIDE DEF t
  <2> DEFINE u == [t EXCEPT !.ssid = s]
             w == [u EXCEPT !.plain = plain]
  <2>3. u \in ThreadType /\ u.op = "connect" /\ u.at = "lock" /\ u.ssid = s
    BY <2>2 DEF ThreadType
  <2>4. proc' = [proc EXCEPT ![h] = w]
    BY <2>1
  <2> HIDE DEF u
  <2>5. w \in ThreadType /\ w.op = "connect" /\ w.at = "lock" /\ w.ssid = s
    BY <2>3 DEF ThreadType
  <2>6. UNCHANGED <<saved, left, tangled, file>> /\ state.running = 0
    BY <1>7 DEF ConnectWifi, profiles
  <2>7. state'.running = 1 /\ state'.ssid = s
    BY <2>1
  <2> HIDE DEF w
  <2>8. QED
    BY <1>1, <1>2, <2>4, <2>5, <2>6, <2>7
<1>8. CASE SetIpv4(h)
  <2> DEFINE t == New("ipv4", "lock")
             u == [t EXCEPT !.ssid = radio]
  <2>1. /\ proc' = [proc EXCEPT ![h] = u] /\ radio \in Ssids
        /\ UNCHANGED <<state, saved, left, tangled, file>>
    BY <1>8 DEF SetIpv4, profiles
  <2>2. t \in ThreadType /\ t.op = "ipv4" /\ t.at = "lock"
    BY NewIs DEF Ops, Places
  <2> HIDE DEF t
  <2>3. u \in ThreadType /\ u.op = "ipv4" /\ u.at = "lock" /\ u.ssid = radio
    BY <2>1, <2>2 DEF ThreadType
  <2> HIDE DEF u
  <2>4. QED
    BY <1>1, <1>2, <2>1, <2>3
<1>9. QED
  BY <1>3, <1>4, <1>5, <1>6, <1>7, <1>8 DEF Begin

\* Who is not at the boot mode does not disturb those who are.
LEMMA ModeKept ==
  ASSUME ModeInv, UNCHANGED <<saved, left, tangled, file>>,
         \A q \in Procs : proc'[q] = proc[q] \/ (~Writing(q) /\ ~Writing(q)')
  PROVE  ModeInv'
<1>1. \A q \in Procs : Writing(q) <=> Writing(q)'
  BY DEF Writing
<1>2. \A q \in Procs : Writing(q)' => proc'[q] = proc[q]
  OBVIOUS
<1>3. \A s : Agrees(s)' <=> Agrees(s)
  BY DEF Agrees, AutoHotspot, Fitting
<1>4. AutoHotspot' = AutoHotspot
  BY DEF AutoHotspot
<1>5. QED
  BY <1>1, <1>2, <1>3, <1>4 DEF ModeInv, Writing

\* What a request that begins does to the invariant.
LEMMA RoleNew ==
  ASSUME TypeOK, RoleInv, NEW h \in Handlers, Begin(h)
  PROVE  RoleInv'
<1>1. PICK t \in ThreadType :
        /\ \A q \in Procs : proc'[q] = IF q = h THEN t ELSE proc[q]
        /\ t.op \in {"start", "stop", "scan", "auto", "connect", "ipv4"}
        /\ t.at \in {"look", "status", "leave", "wait", "write", "lock"}
        /\ t.op \in {"connect", "ipv4"} => t.ssid \in Ssids
        /\ t.op = "scan" /\ t.at = "leave" => t.had = 1
  BY Begins
<1>2. QED
  BY <1>1, Threads DEF RoleInv

\* A request begins an attempt only when none is under way.
LEMMA AttemptNew ==
  ASSUME TypeOK, OneAttempt, NEW h \in Handlers, Begin(h)
  PROVE  OneAttempt'
<1>1. PICK t \in ThreadType :
        /\ \A q \in Procs : proc'[q] = IF q = h THEN t ELSE proc[q]
        /\ IF t.op = "connect"
           THEN state.running = 0 /\ state'.running = 1 /\ state'.ssid = t.ssid
           ELSE state' = state
  BY Begins
<1>2. QED
  BY <1>1, Threads DEF OneAttempt

\* A request that begins has written nothing of the boot mode yet.
LEMMA ModeNew ==
  ASSUME TypeOK, ModeInv, NEW h \in Handlers, Begin(h)
  PROVE  ModeInv'
<1>1. PICK t \in ThreadType :
        /\ proc[h] = Idle
        /\ \A q \in Procs : proc'[q] = IF q = h THEN t ELSE proc[q]
        /\ t.at \in {"look", "status", "leave", "wait", "write", "lock"}
        /\ saved' = saved /\ left' = left
        /\ IF t.at = "write"
           THEN tangled' = IF OtherWrites(h) THEN 1 ELSE 0
           ELSE tangled' = tangled /\ file' = file
  BY Begins
<1>2. CASE t.at = "write"
  BY <1>1, <1>2, Threads DEF ModeInv, OtherWrites, Writing
<1>3. CASE t.at # "write"
  <2>1. ~Writing(h) /\ ~Writing(h)'
    BY <1>1, <1>3, Threads DEF Writing, Idle
  <2>2. QED
    BY <1>1, <1>3, <2>1, ModeKept
<1>4. QED
  BY <1>2, <1>3

\* The threads of a process that starts.
LEMMA Starts ==
  ASSUME NEW f, f = [p \in Procs |-> IF p = Main THEN New("boot", "boot") ELSE Idle]
  PROVE  /\ f \in [Procs -> ThreadType]
         /\ \A p \in Procs : f[p].op \in {"boot", "none"} /\ f[p].at \in {"boot", "idle"}
         /\ f[Main].at = "boot"
         /\ \A p \in Procs \ {Main} : f[p] = Idle
<1>1. /\ Idle \in ThreadType /\ Idle.op = "none" /\ Idle.at = "idle"
      /\ New("boot", "boot") \in ThreadType /\ New("boot", "boot").op = "boot"
      /\ New("boot", "boot").at = "boot"
  BY NewIs DEF Ops, Places
<1>2. QED
  BY <1>1, Threads

\* The main thread goes to the end.
LEMMA StopIs ==
  ASSUME TypeOK, StopServer
  PROVE  /\ proc' \in [Procs -> ThreadType]
         /\ \A q \in Procs \ {Main} : proc'[q] = proc[q]
         /\ proc[Main] = Idle /\ proc'[Main].op = "exit" /\ proc'[Main].at = "closing"
         /\ UNCHANGED <<radio, excused, saved, left, tangled, file, connected, state>>
        /\ UNCHANGED <<requests, changes>>
<1>1. /\ New("exit", "closing") \in ThreadType /\ New("exit", "closing").op = "exit"
      /\ New("exit", "closing").at = "closing"
  BY NewIs DEF Ops, Places
<1>2. QED
  BY <1>1, Threads DEF StopServer, TypeOK, air, profiles, bounds


\* Each step keeps the variables in their sets.
LEMMA TypeStep == TypeOK /\ RoleInv /\ [Next]_vars => TypeOK'
<1> SUFFICES ASSUME TypeOK, RoleInv, [Next]_vars PROVE TypeOK'
  OBVIOUS
<1>1. ASSUME NEW p \in Procs, LookForHotspot(p) PROVE TypeOK'
  <2>1. proc' \in [Procs -> ThreadType]
    BY <1>1, CaughtIs, GotoIs DEF LookForHotspot, Places
  <2>2. QED
    BY <1>1, <2>1 DEF LookForHotspot, GiveUp, air, profiles, bounds, TypeOK
<1>2. ASSUME NEW p \in Procs, HotspotUp(p) PROVE TypeOK'
  BY <1>2, Threads, NetworkAssumption DEF HotspotUp, Caught, AfterFailure, Lose, Tune,
      Goto, Done, At, Idle, bounds, profiles, TypeOK, ThreadType, Ops, Places, Change
<1>3. ASSUME NEW p \in Procs, Report(p) PROVE TypeOK'
  BY <1>3, Threads, NetworkAssumption DEF Report, SeeWifi, Goto, Done, At, air, Idle,
      bounds, profiles, TypeOK, ThreadType, Ops, Places, Change
<1>4. CASE Boot
  BY <1>4, Threads, NetworkAssumption DEF Boot, Done, GiveUp, Goto, At, AutoHotspot,
      air, Idle, bounds, profiles, TypeOK, ThreadType, Ops, Places, Change
<1>5. ASSUME NEW h \in Handlers, Status(h) PROVE TypeOK'
  BY <1>5, Threads, NetworkAssumption DEF Status, Accept, SeeWifi, air, Idle, bounds,
      profiles, TypeOK, ThreadType, Ops, Places, Change
<1>6. ASSUME NEW h \in Handlers, StartHotspot(h) PROVE TypeOK'
  <2>1. proc' \in [Procs -> ThreadType]
    BY <1>6, Begins DEF Begin
  <2>2. QED
    BY <1>6, <2>1, NetworkAssumption DEF StartHotspot, Accept, TypeOK, air, profiles,
        AfterDown, Lose
<1>7. ASSUME NEW h \in Handlers, StopHotspot(h) PROVE TypeOK'
  <2>1. proc' \in [Procs -> ThreadType]
    BY <1>7, Begins DEF Begin
  <2>2. QED
    BY <1>7, <2>1, NetworkAssumption DEF StopHotspot, Accept, TypeOK, air, profiles,
        AfterDown, Lose
<1>8. ASSUME NEW h \in Handlers, DeepScan(h) PROVE TypeOK'
  <2>1. proc' \in [Procs -> ThreadType]
    BY <1>8, Begins DEF Begin
  <2>2. QED
    BY <1>8, <2>1, NetworkAssumption DEF DeepScan, Accept, TypeOK, air, profiles,
        AfterDown, Lose
<1>9. ASSUME NEW h \in Handlers, LeaveHotspot(h) PROVE TypeOK'
  BY <1>9, Threads, NetworkAssumption DEF LeaveHotspot, Running, AfterDown, Tune,
      Goto, Idle, bounds, profiles, TypeOK, ThreadType, Ops, Places, Change
<1>10. ASSUME NEW h \in Handlers, ListNetworks(h) PROVE TypeOK'
  BY <1>10, Threads, NetworkAssumption DEF ListNetworks, Running, Done, GiveUp, Goto,
      air, Idle, bounds, profiles, TypeOK, ThreadType, Ops, Places, Change
<1>11. ASSUME NEW h \in Handlers, ReturnToHotspot(h) PROVE TypeOK'
  BY <1>11, Threads, NetworkAssumption DEF ReturnToHotspot, AutoHotspot, Goto, Done,
      GiveUp, air, Idle, bounds, profiles, TypeOK, ThreadType, Ops, Places, Change
<1>12. ASSUME NEW h \in Handlers, OpenSettings(h) PROVE TypeOK'
  <2>1. proc' \in [Procs -> ThreadType]
    BY <1>12, Begins DEF Begin
  <2>2. QED
    BY <1>12, <2>1, NetworkAssumption DEF OpenSettings, Accept, TypeOK, air, profiles,
        AfterDown, Lose
<1>13. ASSUME NEW h \in Handlers, WriteSettings(h) PROVE TypeOK'
  BY <1>13, Threads, NetworkAssumption DEF WriteSettings, At, Goto, air, Idle, bounds,
      profiles, TypeOK, ThreadType, Ops, Places, Change
<1>14. ASSUME NEW h \in Handlers, ListProfiles(h) PROVE TypeOK'
  <2>1. proc' \in [Procs -> ThreadType]
    BY <1>14, ListIs
  <2>2. QED
    BY <1>14, <2>1 DEF ListProfiles, TypeOK, air, bounds
<1>15. ASSUME NEW h \in Handlers, ModifyNext(h) PROVE TypeOK'
  BY <1>15, Threads, NetworkAssumption DEF ModifyNext, At, Done, Modify, Fitting, air,
      Idle, bounds, profiles, TypeOK, ThreadType, Ops, Places, Change
<1>16. ASSUME NEW h \in Handlers, ConnectWifi(h) PROVE TypeOK'
  <2>1. proc' \in [Procs -> ThreadType]
    BY <1>16, Begins DEF Begin
  <2>2. QED
    BY <1>16, <2>1, NetworkAssumption DEF ConnectWifi, Accept, TypeOK, air, profiles,
        AfterDown, Lose
<1>17. ASSUME NEW h \in Handlers, Lock(h) PROVE TypeOK'
  BY <1>17, Threads, NetworkAssumption DEF Lock, At, Goto, air, Idle, bounds,
      profiles, TypeOK, ThreadType, Ops, Places, Change
<1>18. ASSUME NEW h \in Handlers, StartAttempt(h) PROVE TypeOK'
  <2>1. proc[h] \in ThreadType /\ Idle \in ThreadType
    BY Threads, NewIs DEF TypeOK, Ops, Places
  <2>2. [proc[h] EXCEPT !.at = "queued"] \in ThreadType
    BY <2>1 DEF ThreadType, Places
  <2>3. proc' \in [Procs -> ThreadType]
    BY <1>18, <2>1, <2>2 DEF StartAttempt, TypeOK
  <2>4. QED
    BY <1>18, <2>3 DEF StartAttempt, TypeOK, air, profiles, bounds
<1>19. CASE FindHotspot
  BY <1>19, Threads, NetworkAssumption DEF FindHotspot, Running, To, Goto, air, Idle,
      bounds, profiles, TypeOK, ThreadType, Ops, Places, Change
<1>20. CASE QuitHotspot
  BY <1>20, Threads, NetworkAssumption DEF QuitHotspot, Running, AfterDown, Tune, To,
      Goto, Idle, bounds, profiles, TypeOK, ThreadType, Ops, Places, Change
<1>21. CASE Choose
  BY <1>21, Threads, NetworkAssumption DEF Choose, Running, Attempt, To, Goto, air,
      Idle, bounds, profiles, TypeOK, ThreadType, Ops, Places, Change
<1>22. CASE Associate
  <2>1. Attempt.ssid \in Ssids
    BY <1>22, Threads DEF Associate, Attempt, RoleInv, Idle
  <2>2. proc' \in [Procs -> ThreadType]
    BY <1>22, GotoIs, Threads DEF Associate, To, Places
  <2>3. radio' \in Ssids \cup {"none", "hotspot"} /\ excused' \in {0, 1}
    BY <1>22, <2>1 DEF Associate, Tune, AfterFailure, TypeOK
  <2>4. saved' \in [Ssids -> {"none", "yes", "no"}] /\ left' \subseteq Ssids
    BY <1>22, <2>1 DEF Associate, TypeOK
  <2>5. tangled' \in {0, 1}
    BY <1>22 DEF Associate, TypeOK
  <2>6. QED
    BY <1>22, <2>2, <2>3, <2>4, <2>5 DEF Associate, bounds, TypeOK
<1>23. CASE ReadBootMode
  <2>1. proc' \in [Procs -> ThreadType]
    BY <1>23, ReadIs
  <2>2. QED
    BY <1>23, <2>1 DEF ReadBootMode, TypeOK, air, bounds
<1>24. CASE FitProfile
  BY <1>24, Threads, NetworkAssumption DEF FitProfile, At, Attempt, Modify, Fitting,
      To, Goto, air, Idle, bounds, profiles, TypeOK, ThreadType, Ops, Places, Change
<1>25. CASE Verify
  BY <1>25, Threads, NetworkAssumption DEF Verify, At, Settled, Attempt, Done, air,
      Idle, bounds, profiles, TypeOK, ThreadType, Ops, Places, Change
<1>26. CASE SeeRecovery
  BY <1>26, Threads, NetworkAssumption DEF SeeRecovery, At, Settled, Attempt, Done,
      air, Idle, bounds, profiles, TypeOK, ThreadType, Ops, Places, Change
<1>27. CASE EndWindow
  BY <1>27, Threads, NetworkAssumption DEF EndWindow, At, To, Goto, air, Idle, bounds,
      profiles, TypeOK, ThreadType, Ops, Places, Change
<1>28. CASE RestoreHotspot
  BY <1>28, Threads, NetworkAssumption DEF RestoreHotspot, At, AutoHotspot, To, Goto,
      GiveUp, air, Idle, bounds, profiles, TypeOK, ThreadType, Ops, Places, Change
<1>29. CASE Settle
  BY <1>29, Threads, NetworkAssumption DEF Settle, At, Settled, Attempt, Done, air,
      Idle, bounds, profiles, TypeOK, ThreadType, Ops, Places, Change
<1>30. ASSUME NEW h \in Handlers, SetIpv4(h) PROVE TypeOK'
  <2>1. proc' \in [Procs -> ThreadType]
    BY <1>30, Begins DEF Begin
  <2>2. QED
    BY <1>30, <2>1, NetworkAssumption DEF SetIpv4, Accept, TypeOK, air, profiles,
        AfterDown, Lose
<1>31. ASSUME NEW h \in Handlers, StartRejoin(h) PROVE TypeOK'
  <2>1. proc[h] \in ThreadType /\ Idle \in ThreadType
    BY Threads, NewIs DEF TypeOK, Ops, Places
  <2>2. [proc[h] EXCEPT !.at = "rejoin"] \in ThreadType
    BY <2>1 DEF ThreadType, Places
  <2>3. proc' \in [Procs -> ThreadType]
    BY <1>31, <2>1, <2>2 DEF StartRejoin, TypeOK
  <2>4. QED
    BY <1>31, <2>3 DEF StartRejoin, TypeOK, air, profiles, bounds
<1>32. CASE Rejoin
  BY <1>32, Threads, NetworkAssumption DEF Rejoin, At, AfterFailure, Lose, Tune, Done,
      Idle, bounds, profiles, TypeOK, ThreadType, Ops, Places, Change
<1>33. CASE StopServer
  BY <1>33, StopIs DEF TypeOK
<1>34. CASE Destroy
  BY <1>34, Threads, NetworkAssumption DEF Destroy, At, Goto, air, Idle, bounds,
      profiles, TypeOK, ThreadType, Ops, Places, Change
<1>35. CASE WifiComes
  BY <1>35, Threads, NetworkAssumption DEF WifiComes, Change, Tune, Idle, bounds,
      profiles, TypeOK, ThreadType, Ops, Places, Change
<1>36. CASE WifiGoes
  BY <1>36, Threads, NetworkAssumption DEF WifiGoes, Change, Lose, Idle, bounds,
      profiles, TypeOK, ThreadType, Ops, Places, Change
<1>37. CASE Crash
  <2>1. proc' \in [Procs -> ThreadType]
    BY <1>37, Starts DEF Crash
  <2>2. QED
    BY <1>37, <2>1, NetworkAssumption DEF Crash, Change, TypeOK
<1>38. CASE UNCHANGED vars
  BY <1>38 DEF vars, bounds, profiles, TypeOK, ThreadType, Ops, Places, Change
<1>39. QED
  BY <1>1, <1>2, <1>3, <1>4, <1>5, <1>6, <1>7, <1>8, <1>9, <1>10, <1>11, <1>12, <1>13,
      <1>14, <1>15, <1>16, <1>17, <1>18, <1>19, <1>20, <1>21, <1>22, <1>23, <1>24,
      <1>25, <1>26, <1>27, <1>28, <1>29, <1>30, <1>31, <1>32, <1>33, <1>34, <1>35,
      <1>36, <1>37, <1>38 DEF Next, Progress, HotspotStep, HandlerStep, AttemptStep,
      Request

\* The threads keep to what they are for.
LEMMA RoleStep == TypeOK /\ RoleInv /\ [Next]_vars => RoleInv'
<1> SUFFICES ASSUME TypeOK, RoleInv, [Next]_vars PROVE RoleInv'
  OBVIOUS
<1>1. ASSUME NEW p \in Procs, LookForHotspot(p) PROVE RoleInv'
  <2>1. /\ \A q \in Procs \ {p} : proc'[q] = proc[q]
        /\ \/ proc'[p] = Idle
           \/ /\ proc[p] # Idle
              /\ proc'[p].op = proc[p].op /\ proc'[p].ssid = proc[p].ssid
              /\ proc'[p].at \in {"write", "list", "each"} => p \in Handlers
              /\ proc'[p].at \in {"fit", "modify"} => p = Connector
              /\ proc'[p].op # "scan" \/ proc'[p].at # "leave"
    BY <1>1, Threads, CaughtIs, GotoIs, DoneIs DEF LookForHotspot, GiveUp, At, air,
        Idle, Places
  <2>2. QED
    BY <2>1, RoleOne, Threads
<1>2. ASSUME NEW p \in Procs, HotspotUp(p) PROVE RoleInv'
  <2>1. /\ \A q \in Procs \ {p} : proc'[q] = proc[q]
        /\ \/ proc'[p] = Idle
           \/ /\ proc[p] # Idle
              /\ proc'[p].op = proc[p].op /\ proc'[p].ssid = proc[p].ssid
              /\ proc'[p].at \in {"write", "list", "each"} => p \in Handlers
              /\ proc'[p].at \in {"fit", "modify"} => p = Connector
              /\ proc'[p].op # "scan" \/ proc'[p].at # "leave"
    BY <1>2, Threads, CaughtIs, GotoIs, DoneIs DEF HotspotUp, AfterFailure, Lose,
        Tune, At, Idle, Places
  <2>2. QED
    BY <2>1, RoleOne, Threads
<1>3. ASSUME NEW p \in Procs, Report(p) PROVE RoleInv'
  <2>1. /\ \A q \in Procs \ {p} : proc'[q] = proc[q]
        /\ \/ proc'[p] = Idle
           \/ /\ proc[p] # Idle
              /\ proc'[p].op = proc[p].op /\ proc'[p].ssid = proc[p].ssid
              /\ proc'[p].at \in {"write", "list", "each"} => p \in Handlers
              /\ proc'[p].at \in {"fit", "modify"} => p = Connector
              /\ proc'[p].op # "scan" \/ proc'[p].at # "leave"
    BY <1>3, Threads, GotoIs, DoneIs DEF Report, SeeWifi, At, air, Idle, Places
  <2>2. QED
    BY <2>1, RoleOne, Threads
<1>4. CASE Boot
  <2>1. /\ \A q \in Procs \ {Main} : proc'[q] = proc[q]
        /\ \/ proc'[Main] = Idle
           \/ /\ proc[Main] # Idle
              /\ proc'[Main].op = proc[Main].op /\ proc'[Main].ssid = proc[Main].ssid
              /\ proc'[Main].at \in {"write", "list", "each"} => Main \in Handlers
              /\ proc'[Main].at \in {"fit", "modify"} => Main = Connector
              /\ proc'[Main].op # "scan" \/ proc'[Main].at # "leave"
    BY <1>4, Threads, GotoIs, DoneIs DEF Boot, GiveUp, At, AutoHotspot, air, Idle,
        Places
  <2>2. QED
    BY <2>1, RoleOne, Threads
<1>5. ASSUME NEW h \in Handlers, Status(h) PROVE RoleInv'
  BY <1>5, Threads DEF Status, Accept, SeeWifi, air, Idle, bounds, profiles, TypeOK,
      RoleInv, ThreadType
<1>6. ASSUME NEW h \in Handlers, StartHotspot(h) PROVE RoleInv'
  BY <1>6, RoleNew DEF Begin
<1>7. ASSUME NEW h \in Handlers, StopHotspot(h) PROVE RoleInv'
  BY <1>7, RoleNew DEF Begin
<1>8. ASSUME NEW h \in Handlers, DeepScan(h) PROVE RoleInv'
  BY <1>8, RoleNew DEF Begin
<1>9. ASSUME NEW h \in Handlers, LeaveHotspot(h) PROVE RoleInv'
  <2>1. /\ \A q \in Procs \ {h} : proc'[q] = proc[q]
        /\ \/ proc'[h] = Idle
           \/ /\ proc[h] # Idle
              /\ proc'[h].op = proc[h].op /\ proc'[h].ssid = proc[h].ssid
              /\ proc'[h].at \in {"write", "list", "each"} => h \in Handlers
              /\ proc'[h].at \in {"fit", "modify"} => h = Connector
              /\ proc'[h].op # "scan" \/ proc'[h].at # "leave"
    BY <1>9, Threads, GotoIs DEF LeaveHotspot, Running, AfterDown, Tune, Idle, Places
  <2>2. QED
    BY <2>1, RoleOne, Threads
<1>10. ASSUME NEW h \in Handlers, ListNetworks(h) PROVE RoleInv'
  <2>1. CASE Done(h) \/ Goto(h, "empty")
    BY <1>10, <2>1, GotoIs, DoneIs, RoleOne, Threads DEF ListNetworks, Running, Idle,
        Places
  <2>2. CASE proc' = [proc EXCEPT ![h].at = "catch", ![h].plain = 0]
    <3> DEFINE t == [proc[h] EXCEPT !.at = "catch"]
               u == [t EXCEPT !.plain = 0]
    <3>1. proc[h] \in ThreadType
      BY Threads DEF TypeOK
    <3>2. t \in ThreadType /\ t.at = "catch" /\ t.op = proc[h].op /\ t.ssid = proc[h].ssid
      BY <3>1 DEF ThreadType, Places
    <3>3. proc' = [proc EXCEPT ![h] = u]
      BY <2>2, Threads DEF TypeOK
    <3> HIDE DEF t
    <3>4. u.at = "catch" /\ u.op = proc[h].op /\ u.ssid = proc[h].ssid
      BY <3>2 DEF ThreadType
    <3> HIDE DEF u
    <3>5. proc'[h] = u /\ \A q \in Procs \ {h} : proc'[q] = proc[q]
      BY <3>3, Threads DEF TypeOK
    <3>6. QED
      BY <1>10, <3>4, <3>5, RoleOne, Threads DEF ListNetworks, Running, Idle
  <2>3. QED
    BY <1>10, <2>1, <2>2 DEF ListNetworks
<1>11. ASSUME NEW h \in Handlers, ReturnToHotspot(h) PROVE RoleInv'
  <2>1. /\ \A q \in Procs \ {h} : proc'[q] = proc[q]
        /\ \/ proc'[h] = Idle
           \/ /\ proc[h] # Idle
              /\ proc'[h].op = proc[h].op /\ proc'[h].ssid = proc[h].ssid
              /\ proc'[h].at \in {"write", "list", "each"} => h \in Handlers
              /\ proc'[h].at \in {"fit", "modify"} => h = Connector
              /\ proc'[h].op # "scan" \/ proc'[h].at # "leave"
    BY <1>11, Threads, GotoIs, DoneIs DEF ReturnToHotspot, AutoHotspot, GiveUp, air,
        Idle, Places
  <2>2. QED
    BY <2>1, RoleOne, Threads
<1>12. ASSUME NEW h \in Handlers, OpenSettings(h) PROVE RoleInv'
  BY <1>12, RoleNew DEF Begin
<1>13. ASSUME NEW h \in Handlers, WriteSettings(h) PROVE RoleInv'
  <2>1. /\ \A q \in Procs \ {h} : proc'[q] = proc[q]
        /\ \/ proc'[h] = Idle
           \/ /\ proc[h] # Idle
              /\ proc'[h].op = proc[h].op /\ proc'[h].ssid = proc[h].ssid
              /\ proc'[h].at \in {"write", "list", "each"} => h \in Handlers
              /\ proc'[h].at \in {"fit", "modify"} => h = Connector
              /\ proc'[h].op # "scan" \/ proc'[h].at # "leave"
    BY <1>13, Threads, GotoIs DEF WriteSettings, At, air, Idle, Places
  <2>2. QED
    BY <2>1, RoleOne, Threads
<1>14. ASSUME NEW h \in Handlers, ListProfiles(h) PROVE RoleInv'
  BY <1>14, ListIs, RoleOne, Threads DEF Idle
<1>15. ASSUME NEW h \in Handlers, ModifyNext(h) PROVE RoleInv'
  <2>1. /\ \A q \in Procs \ {h} : proc'[q] = proc[q]
        /\ \/ proc'[h] = Idle
           \/ /\ proc[h] # Idle
              /\ proc'[h].op = proc[h].op /\ proc'[h].ssid = proc[h].ssid
              /\ proc'[h].at \in {"write", "list", "each"} => h \in Handlers
              /\ proc'[h].at \in {"fit", "modify"} => h = Connector
              /\ proc'[h].op # "scan" \/ proc'[h].at # "leave"
    BY <1>15, Threads, DoneIs DEF ModifyNext, At, Modify, Fitting, air, Idle, Places,
        TypeOK, ThreadType
  <2>2. QED
    BY <2>1, RoleOne, Threads
<1>16. ASSUME NEW h \in Handlers, ConnectWifi(h) PROVE RoleInv'
  BY <1>16, RoleNew DEF Begin
<1>17. ASSUME NEW h \in Handlers, Lock(h) PROVE RoleInv'
  <2>1. /\ \A q \in Procs \ {h} : proc'[q] = proc[q]
        /\ \/ proc'[h] = Idle
           \/ /\ proc[h] # Idle
              /\ proc'[h].op = proc[h].op /\ proc'[h].ssid = proc[h].ssid
              /\ proc'[h].at \in {"write", "list", "each"} => h \in Handlers
              /\ proc'[h].at \in {"fit", "modify"} => h = Connector
              /\ proc'[h].op # "scan" \/ proc'[h].at # "leave"
    BY <1>17, Threads, GotoIs DEF Lock, At, air, Idle, Places
  <2>2. QED
    BY <2>1, RoleOne, Threads
<1>18. ASSUME NEW h \in Handlers, StartAttempt(h) PROVE RoleInv'
  <2> DEFINE t == [proc[h] EXCEPT !.at = "queued"]
  <2>1. t.op = "connect" /\ t.at = "queued" /\ t.ssid = proc[h].ssid
    BY <1>18, Threads DEF StartAttempt, Running, TypeOK, ThreadType
  <2>2. \A q \in Procs : proc'[q] = IF q = Connector THEN t ELSE IF q = h THEN Idle ELSE proc[q]
    BY <1>18, Threads DEF StartAttempt, TypeOK
  <2>3. proc[h].op = "connect"
    BY <1>18 DEF StartAttempt, Running
  <2> HIDE DEF t
  <2>4. QED
    BY <2>1, <2>2, <2>3, Threads DEF RoleInv, Idle
<1>19. CASE FindHotspot
  <2>1. /\ \A q \in Procs \ {Connector} : proc'[q] = proc[q]
        /\ \/ proc'[Connector] = Idle
           \/ /\ proc[Connector] # Idle
              /\ proc'[Connector].op = proc[Connector].op /\ proc'[Connector].ssid = proc[Connector].ssid
              /\ proc'[Connector].at \in {"write", "list", "each"} => Connector \in Handlers
              /\ proc'[Connector].at \in {"fit", "modify"} => Connector = Connector
              /\ proc'[Connector].op # "scan" \/ proc'[Connector].at # "leave"
    BY <1>19, Threads, GotoIs DEF FindHotspot, Running, To, air, Idle, Places, RoleInv
  <2>2. QED
    BY <2>1, RoleOne, Threads
<1>20. CASE QuitHotspot
  <2>1. /\ \A q \in Procs \ {Connector} : proc'[q] = proc[q]
        /\ \/ proc'[Connector] = Idle
           \/ /\ proc[Connector] # Idle
              /\ proc'[Connector].op = proc[Connector].op /\ proc'[Connector].ssid = proc[Connector].ssid
              /\ proc'[Connector].at \in {"write", "list", "each"} => Connector \in Handlers
              /\ proc'[Connector].at \in {"fit", "modify"} => Connector = Connector
              /\ proc'[Connector].op # "scan" \/ proc'[Connector].at # "leave"
    BY <1>20, Threads, GotoIs DEF QuitHotspot, Running, AfterDown, Tune, To, Idle,
        Places, RoleInv
  <2>2. QED
    BY <2>1, RoleOne, Threads
<1>21. CASE Choose
  <2>1. /\ \A q \in Procs \ {Connector} : proc'[q] = proc[q]
        /\ \/ proc'[Connector] = Idle
           \/ /\ proc[Connector] # Idle
              /\ proc'[Connector].op = proc[Connector].op /\ proc'[Connector].ssid = proc[Connector].ssid
              /\ proc'[Connector].at \in {"write", "list", "each"} => Connector \in Handlers
              /\ proc'[Connector].at \in {"fit", "modify"} => Connector = Connector
              /\ proc'[Connector].op # "scan" \/ proc'[Connector].at # "leave"
    BY <1>21, Threads, GotoIs DEF Choose, Running, Attempt, To, air, Idle, Places,
        RoleInv
  <2>2. QED
    BY <2>1, RoleOne, Threads
<1>22. CASE Associate
  <2>1. /\ \A q \in Procs \ {Connector} : proc'[q] = proc[q]
        /\ \/ proc'[Connector] = Idle
           \/ /\ proc[Connector] # Idle
              /\ proc'[Connector].op = proc[Connector].op /\ proc'[Connector].ssid = proc[Connector].ssid
              /\ proc'[Connector].at \in {"write", "list", "each"} => Connector \in Handlers
              /\ proc'[Connector].at \in {"fit", "modify"} => Connector = Connector
              /\ proc'[Connector].op # "scan" \/ proc'[Connector].at # "leave"
    BY <1>22, Threads, GotoIs DEF Associate, Attempt, AfterFailure, Tune, To, Idle,
        Places, RoleInv
  <2>2. QED
    BY <2>1, RoleOne, Threads
<1>23. CASE ReadBootMode
  <2>1. proc[Connector] # Idle
    BY <1>23, ReadIs DEF Idle
  <2>2. QED
    BY <1>23, <2>1, ReadIs, RoleOne, Threads
<1>24. CASE FitProfile
  <2>1. /\ \A q \in Procs \ {Connector} : proc'[q] = proc[q]
        /\ \/ proc'[Connector] = Idle
           \/ /\ proc[Connector] # Idle
              /\ proc'[Connector].op = proc[Connector].op /\ proc'[Connector].ssid = proc[Connector].ssid
              /\ proc'[Connector].at \in {"write", "list", "each"} => Connector \in Handlers
              /\ proc'[Connector].at \in {"fit", "modify"} => Connector = Connector
              /\ proc'[Connector].op # "scan" \/ proc'[Connector].at # "leave"
    BY <1>24, Threads, GotoIs DEF FitProfile, At, Attempt, Modify, Fitting, To, air,
        Idle, Places, RoleInv
  <2>2. QED
    BY <2>1, RoleOne, Threads
<1>25. CASE Verify
  <2>1. /\ \A q \in Procs \ {Connector} : proc'[q] = proc[q]
        /\ \/ proc'[Connector] = Idle
           \/ /\ proc[Connector] # Idle
              /\ proc'[Connector].op = proc[Connector].op /\ proc'[Connector].ssid = proc[Connector].ssid
              /\ proc'[Connector].at \in {"write", "list", "each"} => Connector \in Handlers
              /\ proc'[Connector].at \in {"fit", "modify"} => Connector = Connector
              /\ proc'[Connector].op # "scan" \/ proc'[Connector].at # "leave"
    BY <1>25, Threads, DoneIs DEF Verify, At, Settled, Attempt, air, Idle, Places,
        RoleInv
  <2>2. QED
    BY <2>1, RoleOne, Threads
<1>26. CASE SeeRecovery
  BY <1>26, Threads DEF SeeRecovery, At, Settled, Attempt, Done, air, Idle, bounds,
      profiles, TypeOK, RoleInv, ThreadType
<1>27. CASE EndWindow
  <2>1. /\ \A q \in Procs \ {Connector} : proc'[q] = proc[q]
        /\ \/ proc'[Connector] = Idle
           \/ /\ proc[Connector] # Idle
              /\ proc'[Connector].op = proc[Connector].op /\ proc'[Connector].ssid = proc[Connector].ssid
              /\ proc'[Connector].at \in {"write", "list", "each"} => Connector \in Handlers
              /\ proc'[Connector].at \in {"fit", "modify"} => Connector = Connector
              /\ proc'[Connector].op # "scan" \/ proc'[Connector].at # "leave"
    BY <1>27, Threads, GotoIs DEF EndWindow, At, To, air, Idle, Places, RoleInv
  <2>2. QED
    BY <2>1, RoleOne, Threads
<1>28. CASE RestoreHotspot
  <2>1. /\ \A q \in Procs \ {Connector} : proc'[q] = proc[q]
        /\ \/ proc'[Connector] = Idle
           \/ /\ proc[Connector] # Idle
              /\ proc'[Connector].op = proc[Connector].op /\ proc'[Connector].ssid = proc[Connector].ssid
              /\ proc'[Connector].at \in {"write", "list", "each"} => Connector \in Handlers
              /\ proc'[Connector].at \in {"fit", "modify"} => Connector = Connector
              /\ proc'[Connector].op # "scan" \/ proc'[Connector].at # "leave"
    BY <1>28, Threads, GotoIs DEF RestoreHotspot, At, AutoHotspot, To, GiveUp, air,
        Idle, Places, RoleInv
  <2>2. QED
    BY <2>1, RoleOne, Threads
<1>29. CASE Settle
  BY <1>29, Threads DEF Settle, At, Settled, Attempt, Done, air, Idle, bounds,
      profiles, TypeOK, RoleInv, ThreadType
<1>30. ASSUME NEW h \in Handlers, SetIpv4(h) PROVE RoleInv'
  BY <1>30, RoleNew DEF Begin
<1>31. ASSUME NEW h \in Handlers, StartRejoin(h) PROVE RoleInv'
  <2> DEFINE t == [proc[h] EXCEPT !.at = "rejoin"]
  <2>1. t.op = "ipv4" /\ t.at = "rejoin" /\ t.ssid = proc[h].ssid
    BY <1>31, Threads DEF StartRejoin, Running, TypeOK, ThreadType
  <2>2. \A q \in Procs : proc'[q] = IF q = Rejoiner THEN t ELSE IF q = h THEN Idle ELSE proc[q]
    BY <1>31, Threads DEF StartRejoin, TypeOK
  <2>3. proc[h].op = "ipv4"
    BY <1>31 DEF StartRejoin, Running
  <2> HIDE DEF t
  <2>4. QED
    BY <2>1, <2>2, <2>3, Threads DEF RoleInv, Idle
<1>32. CASE Rejoin
  BY <1>32, Threads DEF Rejoin, At, AfterFailure, Lose, Tune, Done, Idle, bounds,
      profiles, TypeOK, RoleInv, ThreadType
<1>33. CASE StopServer
  BY <1>33, StopIs, Threads DEF RoleInv
<1>34. CASE Destroy
  <2>1. /\ \A q \in Procs \ {Main} : proc'[q] = proc[q]
        /\ \/ proc'[Main] = Idle
           \/ /\ proc[Main] # Idle
              /\ proc'[Main].op = proc[Main].op /\ proc'[Main].ssid = proc[Main].ssid
              /\ proc'[Main].at \in {"write", "list", "each"} => Main \in Handlers
              /\ proc'[Main].at \in {"fit", "modify"} => Main = Connector
              /\ proc'[Main].op # "scan" \/ proc'[Main].at # "leave"
    BY <1>34, Threads, GotoIs DEF Destroy, At, air, Idle, Places
  <2>2. QED
    BY <2>1, RoleOne, Threads
<1>35. CASE WifiComes
  BY <1>35, Threads DEF WifiComes, Change, Tune, Idle, bounds, profiles, TypeOK,
      RoleInv, ThreadType
<1>36. CASE WifiGoes
  BY <1>36, Threads DEF WifiGoes, Change, Lose, Idle, bounds, profiles, TypeOK,
      RoleInv, ThreadType
<1>37. CASE Crash
  <2>1. /\ \A p \in Procs : proc'[p].op \in {"boot", "none"} /\ proc'[p].at \in {"boot", "idle"}
        /\ proc'[Main].at = "boot"
        /\ \A p \in Procs \ {Main} : proc'[p] = Idle
    BY <1>37, Starts DEF Crash
  <2>2. QED
    BY <1>37, <2>1, Threads, NetworkAssumption DEF RoleInv
<1>38. CASE UNCHANGED vars
  BY <1>38 DEF vars, bounds, profiles, TypeOK, RoleInv, ThreadType
<1>39. QED
  BY <1>1, <1>2, <1>3, <1>4, <1>5, <1>6, <1>7, <1>8, <1>9, <1>10, <1>11, <1>12, <1>13,
      <1>14, <1>15, <1>16, <1>17, <1>18, <1>19, <1>20, <1>21, <1>22, <1>23, <1>24,
      <1>25, <1>26, <1>27, <1>28, <1>29, <1>30, <1>31, <1>32, <1>33, <1>34, <1>35,
      <1>36, <1>37, <1>38 DEF Next, Progress, HotspotStep, HandlerStep, AttemptStep,
      Request

\* An attempt begins when none is under way, and says when it ends.
LEMMA AttemptsStep == TypeOK /\ RoleInv /\ OneAttempt /\ [Next]_vars => OneAttempt'
<1> SUFFICES ASSUME TypeOK, RoleInv, OneAttempt, [Next]_vars PROVE OneAttempt'
  OBVIOUS
<1>1. ASSUME NEW p \in Procs, LookForHotspot(p) PROVE OneAttempt'
  <2>1. /\ \A q \in Procs \ {p} : proc'[q] = proc[q]
        /\ \/ proc'[p] = Idle /\ proc[p].op # "connect"
           \/ proc'[p].op = proc[p].op /\ proc'[p].ssid = proc[p].ssid
    BY <1>1, Threads, CaughtIs, GotoIs, DoneIs DEF LookForHotspot, GiveUp, At, air,
        Idle, Places, RoleInv
  <2>2. state' = state
    BY <1>1 DEF LookForHotspot
  <2>3. QED
    BY <2>1, <2>2, Threads DEF OneAttempt, Idle
<1>2. ASSUME NEW p \in Procs, HotspotUp(p) PROVE OneAttempt'
  BY <1>2, Threads DEF HotspotUp, Caught, AfterFailure, Lose, Tune, Goto, Done, At,
      Idle, bounds, profiles, TypeOK, ThreadType, Ops, Places, RoleInv, OneAttempt
<1>3. ASSUME NEW p \in Procs, Report(p) PROVE OneAttempt'
  BY <1>3, Threads DEF Report, SeeWifi, Goto, Done, At, air, Idle, bounds, profiles,
      TypeOK, ThreadType, Ops, Places, RoleInv, OneAttempt
<1>4. CASE Boot
  <2>1. /\ \A q \in Procs \ {Main} : proc'[q] = proc[q]
        /\ \/ proc'[Main] = Idle /\ proc[Main].op # "connect"
           \/ proc'[Main].op = proc[Main].op /\ proc'[Main].ssid = proc[Main].ssid
    BY <1>4, Threads, GotoIs, DoneIs DEF Boot, GiveUp, At, AutoHotspot, air, Idle,
        Places, RoleInv
  <2>2. state' = state
    BY <1>4 DEF Boot
  <2>3. QED
    BY <2>1, <2>2, Threads DEF OneAttempt, Idle
<1>5. ASSUME NEW h \in Handlers, Status(h) PROVE OneAttempt'
  BY <1>5, Threads DEF Status, Accept, SeeWifi, air, Idle, bounds, profiles, TypeOK,
      ThreadType, Ops, Places, RoleInv, OneAttempt
<1>6. ASSUME NEW h \in Handlers, StartHotspot(h) PROVE OneAttempt'
  BY <1>6, AttemptNew DEF Begin
<1>7. ASSUME NEW h \in Handlers, StopHotspot(h) PROVE OneAttempt'
  BY <1>7, AttemptNew DEF Begin
<1>8. ASSUME NEW h \in Handlers, DeepScan(h) PROVE OneAttempt'
  BY <1>8, AttemptNew DEF Begin
<1>9. ASSUME NEW h \in Handlers, LeaveHotspot(h) PROVE OneAttempt'
  BY <1>9, Threads DEF LeaveHotspot, Running, AfterDown, Tune, Goto, Idle, bounds,
      profiles, TypeOK, ThreadType, Ops, Places, RoleInv, OneAttempt
<1>10. ASSUME NEW h \in Handlers, ListNetworks(h) PROVE OneAttempt'
  BY <1>10, Threads DEF ListNetworks, Running, Done, GiveUp, Goto, air, Idle, bounds,
      profiles, TypeOK, ThreadType, Ops, Places, RoleInv, OneAttempt
<1>11. ASSUME NEW h \in Handlers, ReturnToHotspot(h) PROVE OneAttempt'
  BY <1>11, Threads DEF ReturnToHotspot, AutoHotspot, Goto, Done, GiveUp, air, Idle,
      bounds, profiles, TypeOK, ThreadType, Ops, Places, RoleInv, OneAttempt
<1>12. ASSUME NEW h \in Handlers, OpenSettings(h) PROVE OneAttempt'
  BY <1>12, AttemptNew DEF Begin
<1>13. ASSUME NEW h \in Handlers, WriteSettings(h) PROVE OneAttempt'
  BY <1>13, Threads DEF WriteSettings, At, Goto, air, Idle, bounds, profiles, TypeOK,
      ThreadType, Ops, Places, RoleInv, OneAttempt
<1>14. ASSUME NEW h \in Handlers, ListProfiles(h) PROVE OneAttempt'
  <2>1. state' = state
    BY <1>14 DEF ListProfiles
  <2>2. QED
    BY <1>14, <2>1, ListIs, Threads DEF OneAttempt, Idle
<1>15. ASSUME NEW h \in Handlers, ModifyNext(h) PROVE OneAttempt'
  BY <1>15, Threads DEF ModifyNext, At, Done, Modify, Fitting, air, Idle, bounds,
      profiles, TypeOK, ThreadType, Ops, Places, RoleInv, OneAttempt
<1>16. ASSUME NEW h \in Handlers, ConnectWifi(h) PROVE OneAttempt'
  BY <1>16, AttemptNew DEF Begin
<1>17. ASSUME NEW h \in Handlers, Lock(h) PROVE OneAttempt'
  BY <1>17, Threads DEF Lock, At, Goto, air, Idle, bounds, profiles, TypeOK,
      ThreadType, Ops, Places, RoleInv, OneAttempt
<1>18. ASSUME NEW h \in Handlers, StartAttempt(h) PROVE OneAttempt'
  BY <1>18, Threads DEF StartAttempt, Running, air, Idle, bounds, profiles, TypeOK,
      ThreadType, Ops, Places, RoleInv, OneAttempt
<1>19. CASE FindHotspot
  BY <1>19, Threads DEF FindHotspot, Running, To, Goto, air, Idle, bounds, profiles,
      TypeOK, ThreadType, Ops, Places, RoleInv, OneAttempt
<1>20. CASE QuitHotspot
  BY <1>20, Threads DEF QuitHotspot, Running, AfterDown, Tune, To, Goto, Idle, bounds,
      profiles, TypeOK, ThreadType, Ops, Places, RoleInv, OneAttempt
<1>21. CASE Choose
  BY <1>21, Threads DEF Choose, Running, Attempt, To, Goto, air, Idle, bounds,
      profiles, TypeOK, ThreadType, Ops, Places, RoleInv, OneAttempt
<1>22. CASE Associate
  BY <1>22, Threads DEF Associate, Attempt, AfterFailure, Tune, To, Goto, Idle,
      bounds, profiles, TypeOK, ThreadType, Ops, Places, RoleInv, OneAttempt
<1>23. CASE ReadBootMode
  <2>1. state' = state
    BY <1>23 DEF ReadBootMode
  <2>2. QED
    BY <1>23, <2>1, ReadIs, Threads DEF OneAttempt
<1>24. CASE FitProfile
  BY <1>24, Threads DEF FitProfile, At, Attempt, Modify, Fitting, To, Goto, air, Idle,
      bounds, profiles, TypeOK, ThreadType, Ops, Places, RoleInv, OneAttempt
<1>25. CASE Verify
  BY <1>25, Threads DEF Verify, At, Settled, Attempt, Done, air, Idle, bounds,
      profiles, TypeOK, ThreadType, Ops, Places, RoleInv, OneAttempt
<1>26. CASE SeeRecovery
  BY <1>26, Threads DEF SeeRecovery, At, Settled, Attempt, Done, air, Idle, bounds,
      profiles, TypeOK, ThreadType, Ops, Places, RoleInv, OneAttempt
<1>27. CASE EndWindow
  BY <1>27, Threads DEF EndWindow, At, To, Goto, air, Idle, bounds, profiles, TypeOK,
      ThreadType, Ops, Places, RoleInv, OneAttempt
<1>28. CASE RestoreHotspot
  BY <1>28, Threads DEF RestoreHotspot, At, AutoHotspot, To, Goto, GiveUp, air, Idle,
      bounds, profiles, TypeOK, ThreadType, Ops, Places, RoleInv, OneAttempt
<1>29. CASE Settle
  BY <1>29, Threads DEF Settle, At, Settled, Attempt, Done, air, Idle, bounds,
      profiles, TypeOK, ThreadType, Ops, Places, RoleInv, OneAttempt
<1>30. ASSUME NEW h \in Handlers, SetIpv4(h) PROVE OneAttempt'
  BY <1>30, AttemptNew DEF Begin
<1>31. ASSUME NEW h \in Handlers, StartRejoin(h) PROVE OneAttempt'
  BY <1>31, Threads DEF StartRejoin, Running, air, Idle, bounds, profiles, TypeOK,
      ThreadType, Ops, Places, RoleInv, OneAttempt
<1>32. CASE Rejoin
  BY <1>32, Threads DEF Rejoin, At, AfterFailure, Lose, Tune, Done, Idle, bounds,
      profiles, TypeOK, ThreadType, Ops, Places, RoleInv, OneAttempt
<1>33. CASE StopServer
  BY <1>33, StopIs, Threads DEF OneAttempt
<1>34. CASE Destroy
  BY <1>34, Threads DEF Destroy, At, Goto, air, Idle, bounds, profiles, TypeOK,
      ThreadType, Ops, Places, RoleInv, OneAttempt
<1>35. CASE WifiComes
  BY <1>35, Threads DEF WifiComes, Change, Tune, Idle, bounds, profiles, TypeOK,
      ThreadType, Ops, Places, RoleInv, OneAttempt
<1>36. CASE WifiGoes
  BY <1>36, Threads DEF WifiGoes, Change, Lose, Idle, bounds, profiles, TypeOK,
      ThreadType, Ops, Places, RoleInv, OneAttempt
<1>37. CASE Crash
  <2>1. /\ \A p \in Procs : proc'[p].op \in {"boot", "none"} /\ proc'[p].at \in {"boot", "idle"}
        /\ proc'[Main].at = "boot"
        /\ \A p \in Procs \ {Main} : proc'[p] = Idle
    BY <1>37, Starts DEF Crash
  <2>2. QED
    BY <1>37, <2>1, Threads, NetworkAssumption DEF OneAttempt
<1>38. CASE UNCHANGED vars
  BY <1>38 DEF vars, bounds, profiles, TypeOK, ThreadType, Ops, Places, RoleInv, OneAttempt
<1>39. QED
  BY <1>1, <1>2, <1>3, <1>4, <1>5, <1>6, <1>7, <1>8, <1>9, <1>10, <1>11, <1>12, <1>13,
      <1>14, <1>15, <1>16, <1>17, <1>18, <1>19, <1>20, <1>21, <1>22, <1>23, <1>24,
      <1>25, <1>26, <1>27, <1>28, <1>29, <1>30, <1>31, <1>32, <1>33, <1>34, <1>35,
      <1>36, <1>37, <1>38 DEF Next, Progress, HotspotStep, HandlerStep, AttemptStep,
      Request

\* Who takes the hotspot down, or fails, takes care of what comes next.
LEMMA CareStep == TypeOK /\ RoleInv /\ CareInv /\ [Next]_vars => CareInv'
<1> SUFFICES ASSUME TypeOK, RoleInv, CareInv, [Next]_vars PROVE CareInv'
  OBVIOUS
<1>1. ASSUME NEW p \in Procs, LookForHotspot(p) PROVE CareInv'
  BY <1>1, Threads, NetworkAssumption DEF LookForHotspot, Caught, GiveUp, Goto, Done,
      At, air, Idle, bounds, profiles, TypeOK, ThreadType, Ops, Places, RoleInv,
      CareInv, Responsible
<1>2. ASSUME NEW p \in Procs, HotspotUp(p) PROVE CareInv'
  BY <1>2, Threads, NetworkAssumption DEF HotspotUp, Caught, AfterFailure, Lose, Tune,
      Goto, Done, At, Idle, bounds, profiles, TypeOK, ThreadType, Ops, Places,
      RoleInv, CareInv, Responsible
<1>3. ASSUME NEW p \in Procs, Report(p) PROVE CareInv'
  BY <1>3, Threads, NetworkAssumption DEF Report, SeeWifi, Goto, Done, At, air, Idle,
      bounds, profiles, TypeOK, ThreadType, Ops, Places, RoleInv, CareInv, Responsible
<1>4. CASE Boot
  BY <1>4, Threads, NetworkAssumption DEF Boot, Done, GiveUp, Goto, At, AutoHotspot,
      air, Idle, bounds, profiles, TypeOK, ThreadType, Ops, Places, RoleInv, CareInv,
      Responsible
<1>5. ASSUME NEW h \in Handlers, Status(h) PROVE CareInv'
  BY <1>5, Threads, NetworkAssumption DEF Status, Accept, SeeWifi, air, Idle, bounds,
      profiles, TypeOK, ThreadType, Ops, Places, RoleInv, CareInv, Responsible
<1>6. ASSUME NEW h \in Handlers, StartHotspot(h) PROVE CareInv'
  BY <1>6, Threads, NetworkAssumption DEF StartHotspot, Accept, air, Idle, bounds,
      profiles, TypeOK, ThreadType, Ops, Places, RoleInv, CareInv, Responsible
<1>7. ASSUME NEW h \in Handlers, StopHotspot(h) PROVE CareInv'
  BY <1>7, Threads, NetworkAssumption DEF StopHotspot, Accept, AfterDown, Lose, Idle,
      bounds, profiles, TypeOK, ThreadType, Ops, Places, RoleInv, CareInv, Responsible
<1>8. ASSUME NEW h \in Handlers, DeepScan(h) PROVE CareInv'
  BY <1>8, Threads, NetworkAssumption DEF DeepScan, Accept, air, Idle, bounds,
      profiles, TypeOK, ThreadType, Ops, Places, RoleInv, CareInv, Responsible
<1>9. ASSUME NEW h \in Handlers, LeaveHotspot(h) PROVE CareInv'
  <2>1. proc'[h].at = "wait" /\ proc'[h].had = 1
    BY <1>9, GotoIs, Threads DEF LeaveHotspot, Running, RoleInv, Places
  <2>2. QED
    BY <2>1, Threads DEF CareInv, Responsible
<1>10. ASSUME NEW h \in Handlers, ListNetworks(h) PROVE CareInv'
  BY <1>10, Threads, NetworkAssumption DEF ListNetworks, Running, Done, GiveUp, Goto,
      air, Idle, bounds, profiles, TypeOK, ThreadType, Ops, Places, RoleInv, CareInv,
      Responsible
<1>11. ASSUME NEW h \in Handlers, ReturnToHotspot(h) PROVE CareInv'
  <2>1. CASE Goto(h, "look")
    <3>1. proc'[h].at = "look"
      BY <2>1, GotoIs, Threads DEF Places
    <3>2. QED
      BY <3>1, Threads DEF CareInv, Responsible
  <2>2. CASE Done(h) /\ proc[h].had = 1 /\ GiveUp
    BY <2>2 DEF CareInv, GiveUp
  <2>3. CASE Done(h) /\ proc[h].had # 1 /\ UNCHANGED air
    <3>1. ~Responsible(h)
      BY <1>11, <2>3, Threads DEF ReturnToHotspot, Responsible, TypeOK
    <3>2. \A q \in Procs \ {h} : proc'[q] = proc[q]
      BY <2>3, DoneIs, Threads
    <3>3. UNCHANGED <<radio, excused, connected>>
      BY <1>11, <2>3 DEF ReturnToHotspot, air
    <3>4. QED
      BY <3>1, <3>2, <3>3 DEF CareInv, Responsible
  <2>4. QED
    BY <1>11, <2>1, <2>2, <2>3 DEF ReturnToHotspot
<1>12. ASSUME NEW h \in Handlers, OpenSettings(h) PROVE CareInv'
  BY <1>12, Threads, NetworkAssumption DEF OpenSettings, Accept, air, Idle, bounds,
      profiles, TypeOK, ThreadType, Ops, Places, RoleInv, CareInv, Responsible
<1>13. ASSUME NEW h \in Handlers, WriteSettings(h) PROVE CareInv'
  BY <1>13, Threads, NetworkAssumption DEF WriteSettings, At, Goto, air, Idle, bounds,
      profiles, TypeOK, ThreadType, Ops, Places, RoleInv, CareInv, Responsible
<1>14. ASSUME NEW h \in Handlers, ListProfiles(h) PROVE CareInv'
  <2>1. UNCHANGED <<radio, excused, connected>>
    BY <1>14 DEF ListProfiles, air
  <2>2. QED
    BY <1>14, <2>1, ListIs, Threads DEF CareInv, Responsible
<1>15. ASSUME NEW h \in Handlers, ModifyNext(h) PROVE CareInv'
  BY <1>15, Threads, NetworkAssumption DEF ModifyNext, At, Done, Modify, Fitting, air,
      Idle, bounds, profiles, TypeOK, ThreadType, Ops, Places, RoleInv, CareInv,
      Responsible
<1>16. ASSUME NEW h \in Handlers, ConnectWifi(h) PROVE CareInv'
  BY <1>16, Threads, NetworkAssumption DEF ConnectWifi, Accept, air, Idle, bounds,
      profiles, TypeOK, ThreadType, Ops, Places, RoleInv, CareInv, Responsible
<1>17. ASSUME NEW h \in Handlers, Lock(h) PROVE CareInv'
  BY <1>17, Threads, NetworkAssumption DEF Lock, At, Goto, air, Idle, bounds,
      profiles, TypeOK, ThreadType, Ops, Places, RoleInv, CareInv, Responsible
<1>18. ASSUME NEW h \in Handlers, StartAttempt(h) PROVE CareInv'
  BY <1>18, Threads, NetworkAssumption DEF StartAttempt, Running, air, Idle, bounds,
      profiles, TypeOK, ThreadType, Ops, Places, RoleInv, CareInv, Responsible
<1>19. CASE FindHotspot
  BY <1>19, Threads, NetworkAssumption DEF FindHotspot, Running, To, Goto, air, Idle,
      bounds, profiles, TypeOK, ThreadType, Ops, Places, RoleInv, CareInv, Responsible
<1>20. CASE QuitHotspot
  BY <1>20, Threads, NetworkAssumption DEF QuitHotspot, Running, AfterDown, Tune, To,
      Goto, Idle, bounds, profiles, TypeOK, ThreadType, Ops, Places, RoleInv, CareInv,
      Responsible
<1>21. CASE Choose
  BY <1>21, Threads, NetworkAssumption DEF Choose, Running, Attempt, To, Goto, air,
      Idle, bounds, profiles, TypeOK, ThreadType, Ops, Places, RoleInv, CareInv,
      Responsible
<1>22. CASE Associate
  BY <1>22, Threads, NetworkAssumption DEF Associate, Attempt, AfterFailure, Tune, To,
      Goto, Idle, bounds, profiles, TypeOK, ThreadType, Ops, Places, RoleInv, CareInv,
      Responsible
<1>23. CASE ReadBootMode
  <2>1. UNCHANGED <<radio, excused, connected>>
    BY <1>23 DEF ReadBootMode, air
  <2>2. QED
    BY <1>23, <2>1, ReadIs, Threads DEF CareInv, Responsible
<1>24. CASE FitProfile
  BY <1>24, Threads, NetworkAssumption DEF FitProfile, At, Attempt, Modify, Fitting,
      To, Goto, air, Idle, bounds, profiles, TypeOK, ThreadType, Ops, Places, RoleInv,
      CareInv, Responsible
<1>25. CASE Verify
  BY <1>25, Threads, NetworkAssumption DEF Verify, At, Settled, Attempt, Done, air,
      Idle, bounds, profiles, TypeOK, ThreadType, Ops, Places, RoleInv, CareInv,
      Responsible
<1>26. CASE SeeRecovery
  BY <1>26, Threads, NetworkAssumption DEF SeeRecovery, At, Settled, Attempt, Done,
      air, Idle, bounds, profiles, TypeOK, ThreadType, Ops, Places, RoleInv, CareInv,
      Responsible
<1>27. CASE EndWindow
  BY <1>27, Threads, NetworkAssumption DEF EndWindow, At, To, Goto, air, Idle, bounds,
      profiles, TypeOK, ThreadType, Ops, Places, RoleInv, CareInv, Responsible
<1>28. CASE RestoreHotspot
  BY <1>28, Threads, NetworkAssumption DEF RestoreHotspot, At, AutoHotspot, To, Goto,
      GiveUp, air, Idle, bounds, profiles, TypeOK, ThreadType, Ops, Places, RoleInv,
      CareInv, Responsible
<1>29. CASE Settle
  BY <1>29, Threads, NetworkAssumption DEF Settle, At, Settled, Attempt, Done, air,
      Idle, bounds, profiles, TypeOK, ThreadType, Ops, Places, RoleInv, CareInv,
      Responsible
<1>30. ASSUME NEW h \in Handlers, SetIpv4(h) PROVE CareInv'
  BY <1>30, Threads, NetworkAssumption DEF SetIpv4, Accept, air, Idle, bounds,
      profiles, TypeOK, ThreadType, Ops, Places, RoleInv, CareInv, Responsible
<1>31. ASSUME NEW h \in Handlers, StartRejoin(h) PROVE CareInv'
  BY <1>31, Threads, NetworkAssumption DEF StartRejoin, Running, air, Idle, bounds,
      profiles, TypeOK, ThreadType, Ops, Places, RoleInv, CareInv, Responsible
<1>32. CASE Rejoin
  BY <1>32, Threads, NetworkAssumption DEF Rejoin, At, AfterFailure, Lose, Tune, Done,
      Idle, bounds, profiles, TypeOK, ThreadType, Ops, Places, RoleInv, CareInv,
      Responsible
<1>33. CASE StopServer
  BY <1>33, Threads, NetworkAssumption DEF StopServer, air, Idle, bounds, profiles,
      TypeOK, ThreadType, Ops, Places, RoleInv, CareInv, Responsible
<1>34. CASE Destroy
  BY <1>34, Threads, NetworkAssumption DEF Destroy, At, Goto, air, Idle, bounds,
      profiles, TypeOK, ThreadType, Ops, Places, RoleInv, CareInv, Responsible
<1>35. CASE WifiComes
  BY <1>35, Threads, NetworkAssumption DEF WifiComes, Change, Tune, Idle, bounds,
      profiles, TypeOK, ThreadType, Ops, Places, RoleInv, CareInv, Responsible
<1>36. CASE WifiGoes
  BY <1>36, Threads, NetworkAssumption DEF WifiGoes, Change, Lose, Idle, bounds,
      profiles, TypeOK, ThreadType, Ops, Places, RoleInv, CareInv, Responsible
<1>37. CASE Crash
  <2>1. /\ \A p \in Procs : proc'[p].op \in {"boot", "none"} /\ proc'[p].at \in {"boot", "idle"}
        /\ proc'[Main].at = "boot"
        /\ \A p \in Procs \ {Main} : proc'[p] = Idle
    BY <1>37, Starts DEF Crash
  <2>2. QED
    BY <1>37, <2>1, Threads, NetworkAssumption DEF CareInv, Responsible
<1>38. CASE UNCHANGED vars
  BY <1>38 DEF vars, bounds, profiles, TypeOK, ThreadType, Ops, Places, RoleInv, CareInv,
      Responsible
<1>39. QED
  BY <1>1, <1>2, <1>3, <1>4, <1>5, <1>6, <1>7, <1>8, <1>9, <1>10, <1>11, <1>12, <1>13,
      <1>14, <1>15, <1>16, <1>17, <1>18, <1>19, <1>20, <1>21, <1>22, <1>23, <1>24,
      <1>25, <1>26, <1>27, <1>28, <1>29, <1>30, <1>31, <1>32, <1>33, <1>34, <1>35,
      <1>36, <1>37, <1>38 DEF Next, Progress, HotspotStep, HandlerStep, AttemptStep,
      Request

\* A writer writes all profiles, unless another one meets it.
LEMMA ModeStep == TypeOK /\ RoleInv /\ ModeInv /\ [Next]_vars => ModeInv'
<1> SUFFICES ASSUME TypeOK, RoleInv, ModeInv, [Next]_vars PROVE ModeInv'
  OBVIOUS
<1>1. ASSUME NEW p \in Procs, LookForHotspot(p) PROVE ModeInv'
  <2>1. ~Writing(p) /\ ~Writing(p)' /\ \A q \in Procs \ {p} : proc'[q] = proc[q]
    BY <1>1, Threads, CaughtIs, GotoIs, DoneIs DEF LookForHotspot, GiveUp, At, air,
        Idle, Places, Writing
  <2>2. QED
    BY <1>1, <2>1, ModeKept, Threads DEF LookForHotspot, profiles
<1>2. ASSUME NEW p \in Procs, HotspotUp(p) PROVE ModeInv'
  <2>1. ~Writing(p) /\ ~Writing(p)' /\ \A q \in Procs \ {p} : proc'[q] = proc[q]
    BY <1>2, Threads, CaughtIs, GotoIs, DoneIs DEF HotspotUp, AfterFailure, Lose,
        Tune, At, Idle, Places, Writing
  <2>2. QED
    BY <1>2, <2>1, ModeKept, Threads DEF HotspotUp, profiles
<1>3. ASSUME NEW p \in Procs, Report(p) PROVE ModeInv'
  <2>1. ~Writing(p) /\ ~Writing(p)' /\ \A q \in Procs \ {p} : proc'[q] = proc[q]
    BY <1>3, Threads, GotoIs, DoneIs DEF Report, SeeWifi, At, air, Idle, Places, Writing
  <2>2. QED
    BY <1>3, <2>1, ModeKept, Threads DEF Report, profiles
<1>4. CASE Boot
  BY <1>4, Threads DEF Boot, Done, GiveUp, Goto, At, AutoHotspot, air, Idle, bounds,
      profiles, TypeOK, ThreadType, Ops, Places, RoleInv, ModeInv, Writing,
      OtherWrites, Agrees, AutoHotspot, Fitting
<1>5. ASSUME NEW h \in Handlers, Status(h) PROVE ModeInv'
  BY <1>5, Threads DEF Status, Accept, SeeWifi, air, Idle, bounds, profiles, TypeOK,
      ThreadType, Ops, Places, RoleInv, ModeInv, Writing, OtherWrites, Agrees,
      AutoHotspot, Fitting
<1>6. ASSUME NEW h \in Handlers, StartHotspot(h) PROVE ModeInv'
  BY <1>6, ModeNew DEF Begin
<1>7. ASSUME NEW h \in Handlers, StopHotspot(h) PROVE ModeInv'
  BY <1>7, ModeNew DEF Begin
<1>8. ASSUME NEW h \in Handlers, DeepScan(h) PROVE ModeInv'
  BY <1>8, ModeNew DEF Begin
<1>9. ASSUME NEW h \in Handlers, LeaveHotspot(h) PROVE ModeInv'
  BY <1>9, Threads DEF LeaveHotspot, Running, AfterDown, Tune, Goto, Idle, bounds,
      profiles, TypeOK, ThreadType, Ops, Places, RoleInv, ModeInv, Writing,
      OtherWrites, Agrees, AutoHotspot, Fitting
<1>10. ASSUME NEW h \in Handlers, ListNetworks(h) PROVE ModeInv'
  BY <1>10, Threads DEF ListNetworks, Running, Done, GiveUp, Goto, air, Idle, bounds,
      profiles, TypeOK, ThreadType, Ops, Places, RoleInv, ModeInv, Writing,
      OtherWrites, Agrees, AutoHotspot, Fitting
<1>11. ASSUME NEW h \in Handlers, ReturnToHotspot(h) PROVE ModeInv'
  <2>1. ~Writing(h) /\ ~Writing(h)' /\ \A q \in Procs \ {h} : proc'[q] = proc[q]
    BY <1>11, Threads, GotoIs, DoneIs DEF ReturnToHotspot, AutoHotspot, GiveUp, air,
        Idle, Places, Writing
  <2>2. QED
    BY <1>11, <2>1, ModeKept, Threads DEF ReturnToHotspot, profiles
<1>12. ASSUME NEW h \in Handlers, OpenSettings(h) PROVE ModeInv'
  BY <1>12, ModeNew DEF Begin
<1>13. ASSUME NEW h \in Handlers, WriteSettings(h) PROVE ModeInv'
  BY <1>13, Threads DEF WriteSettings, At, Goto, air, Idle, bounds, profiles, TypeOK,
      ThreadType, Ops, Places, RoleInv, ModeInv, Writing, OtherWrites, Agrees,
      AutoHotspot, Fitting
<1>14. ASSUME NEW h \in Handlers, ListProfiles(h) PROVE ModeInv'
  <2> SUFFICES ASSUME tangled' = 0 PROVE ModeInv'
    BY DEF ModeInv
  <2> DEFINE listed == {s \in Ssids : saved[s] # "none"}
  <2>1. /\ proc' = [proc EXCEPT ![h].at = "each", ![h].todo = listed]
        /\ UNCHANGED <<saved, left, file, tangled>> /\ proc[h].at = "list"
    BY <1>14 DEF ListProfiles, At
  <2>2. /\ proc'[h].at = "each" /\ proc'[h].auto = proc[h].auto /\ proc'[h].todo = listed
        /\ \A q \in Procs \ {h} : proc'[q] = proc[q]
    BY <2>1, Threads DEF TypeOK, ThreadType
  <2> HIDE DEF listed
  <2>3. AutoHotspot' = AutoHotspot /\ \A s : Agrees(s)' <=> Agrees(s)
    BY <2>1 DEF Agrees, AutoHotspot, Fitting
  <2>4. \A q \in Procs : Writing(q)' <=> Writing(q)
    BY <2>1, <2>2 DEF Writing
  <2>5. \A s \in Ssids \ proc'[h].todo : Agrees(s)'
    BY <2>2, <2>3 DEF listed, Agrees
  <2>6. \A q \in Procs \ {h} : Writing(q) => FALSE
    BY <2>1, Threads DEF ModeInv, Writing
  <2>7. QED
    BY <2>1, <2>2, <2>3, <2>4, <2>5, <2>6, Threads DEF ModeInv, Writing
<1>15. ASSUME NEW h \in Handlers, ModifyNext(h) PROVE ModeInv'
  BY <1>15, Threads DEF ModifyNext, At, Done, Modify, Fitting, air, Idle, bounds,
      profiles, TypeOK, ThreadType, Ops, Places, RoleInv, ModeInv, Writing,
      OtherWrites, Agrees, AutoHotspot, Fitting
<1>16. ASSUME NEW h \in Handlers, ConnectWifi(h) PROVE ModeInv'
  BY <1>16, ModeNew DEF Begin
<1>17. ASSUME NEW h \in Handlers, Lock(h) PROVE ModeInv'
  BY <1>17, Threads DEF Lock, At, Goto, air, Idle, bounds, profiles, TypeOK,
      ThreadType, Ops, Places, RoleInv, ModeInv, Writing, OtherWrites, Agrees,
      AutoHotspot, Fitting
<1>18. ASSUME NEW h \in Handlers, StartAttempt(h) PROVE ModeInv'
  <2>1. \A q \in Procs \ {h, Connector} : proc'[q] = proc[q]
    BY <1>18, Threads DEF StartAttempt, TypeOK
  <2>2. proc[h].at = "join" /\ proc[Connector] = Idle
    BY <1>18 DEF StartAttempt, Running
  <2>3. proc'[h] = Idle /\ proc'[Connector].at \in {"queued", "rejoin"}
    BY <1>18, Threads DEF StartAttempt, TypeOK, ThreadType
  <2>4. \A q \in Procs : proc'[q] = proc[q] \/ (~Writing(q) /\ ~Writing(q)')
    BY <2>1, <2>2, <2>3 DEF Writing, Idle
  <2>5. QED
    BY <1>18, <2>4, ModeKept DEF StartAttempt, profiles
<1>19. CASE FindHotspot
  BY <1>19, Threads DEF FindHotspot, Running, To, Goto, air, Idle, bounds, profiles,
      TypeOK, ThreadType, Ops, Places, RoleInv, ModeInv, Writing, OtherWrites, Agrees,
      AutoHotspot, Fitting
<1>20. CASE QuitHotspot
  BY <1>20, Threads DEF QuitHotspot, Running, AfterDown, Tune, To, Goto, Idle, bounds,
      profiles, TypeOK, ThreadType, Ops, Places, RoleInv, ModeInv, Writing,
      OtherWrites, Agrees, AutoHotspot, Fitting
<1>21. CASE Choose
  BY <1>21, Threads DEF Choose, Running, Attempt, To, Goto, air, Idle, bounds,
      profiles, TypeOK, ThreadType, Ops, Places, RoleInv, ModeInv, Writing,
      OtherWrites, Agrees, AutoHotspot, Fitting
<1>22. CASE Associate
  <2>1. ~Writing(Connector) /\ UNCHANGED file
    BY <1>22 DEF Associate, Attempt, Writing
  <2>2. CASE To("window") /\ UNCHANGED tangled /\ \A s \in Ssids : Agrees(s) => Agrees(s)'
    <3>1. ~Writing(Connector)' /\ \A q \in Procs \ {Connector} : proc'[q] = proc[q]
      BY <2>2, GotoIs, Threads DEF To, Places, Writing
    <3>2. \A q \in Procs : (Writing(q)' <=> Writing(q)) /\ (Writing(q)' => proc'[q] = proc[q])
      BY <2>1, <3>1 DEF Writing
    <3>3. AutoHotspot' = AutoHotspot
      BY <2>1 DEF AutoHotspot
    <3>4. QED
      BY <2>2, <3>2, <3>3, <2>1 DEF ModeInv, Writing
  <2>3. CASE /\ tangled' = (IF OtherWrites(Connector) THEN 1 ELSE tangled)
             /\ To("fit")
             /\ left' = left /\ \A s \in Ssids \ {Attempt.ssid} : saved'[s] = saved[s]
    <3>1. /\ proc'[Connector].at = "fit" /\ proc'[Connector].ssid = Attempt.ssid
          /\ \A q \in Procs \ {Connector} : proc'[q] = proc[q]
      BY <2>3, GotoIs, Threads DEF To, Places, Attempt
    <3>2. SUFFICES ASSUME tangled' = 0 PROVE ModeInv'
      BY DEF ModeInv
    <3>3. tangled = 0 /\ \A q \in Procs : ~Writing(q)
      BY <2>1, <2>3, <3>2 DEF OtherWrites
    <3>4. \A q \in Procs : Writing(q)' <=> q = Connector
      BY <3>1, <3>3, Threads DEF Writing
    <3>5. \A s \in Ssids : Agrees(s)
      BY <3>3 DEF ModeInv
    <3>6. \A s \in Ssids \ {Attempt.ssid} : Agrees(s)'
      BY <2>1, <2>3, <3>5 DEF Agrees, AutoHotspot
    <3>7. QED
      BY <3>1, <3>4, <3>6, Threads DEF ModeInv, Writing
  <2>4. Attempt.ssid \in Ssids
    BY <1>22, Threads DEF Associate, Attempt, RoleInv, Idle
  <2>5. \/ /\ tangled' = (IF OtherWrites(Connector) THEN 1 ELSE tangled)
           /\ To("fit")
           /\ left' = left /\ \A s \in Ssids \ {Attempt.ssid} : saved'[s] = saved[s]
        \/ /\ To("window") /\ UNCHANGED tangled
           /\ \/ UNCHANGED <<saved, left>>
              \/ /\ saved' = [saved EXCEPT ![Attempt.ssid] = "yes"]
                 /\ left' = left \cup {Attempt.ssid}
    BY <1>22 DEF Associate, TypeOK
  <2>6. UNCHANGED <<saved, left>> => \A s \in Ssids : Agrees(s) => Agrees(s)'
    BY <2>1 DEF Agrees, AutoHotspot
  <2>7. /\ saved' = [saved EXCEPT ![Attempt.ssid] = "yes"]
        /\ left' = left \cup {Attempt.ssid}
        => \A s \in Ssids : Agrees(s) => Agrees(s)'
    BY <2>1, <2>4 DEF Agrees, AutoHotspot, TypeOK
  <2>8. QED
    BY <2>2, <2>3, <2>5, <2>6, <2>7
<1>23. CASE ReadBootMode
  BY <1>23, Threads DEF ReadBootMode, At, AutoHotspot, air, Idle, bounds, profiles,
      TypeOK, ThreadType, Ops, Places, RoleInv, ModeInv, Writing, OtherWrites, Agrees,
      AutoHotspot, Fitting
<1>24. CASE FitProfile
  BY <1>24, Threads DEF FitProfile, At, Attempt, Modify, Fitting, To, Goto, air, Idle,
      bounds, profiles, TypeOK, ThreadType, Ops, Places, RoleInv, ModeInv, Writing,
      OtherWrites, Agrees, AutoHotspot, Fitting
<1>25. CASE Verify
  BY <1>25, Threads DEF Verify, At, Settled, Attempt, Done, air, Idle, bounds,
      profiles, TypeOK, ThreadType, Ops, Places, RoleInv, ModeInv, Writing,
      OtherWrites, Agrees, AutoHotspot, Fitting
<1>26. CASE SeeRecovery
  BY <1>26, Threads DEF SeeRecovery, At, Settled, Attempt, Done, air, Idle, bounds,
      profiles, TypeOK, ThreadType, Ops, Places, RoleInv, ModeInv, Writing,
      OtherWrites, Agrees, AutoHotspot, Fitting
<1>27. CASE EndWindow
  BY <1>27, Threads DEF EndWindow, At, To, Goto, air, Idle, bounds, profiles, TypeOK,
      ThreadType, Ops, Places, RoleInv, ModeInv, Writing, OtherWrites, Agrees,
      AutoHotspot, Fitting
<1>28. CASE RestoreHotspot
  BY <1>28, Threads DEF RestoreHotspot, At, AutoHotspot, To, Goto, GiveUp, air, Idle,
      bounds, profiles, TypeOK, ThreadType, Ops, Places, RoleInv, ModeInv, Writing,
      OtherWrites, Agrees, AutoHotspot, Fitting
<1>29. CASE Settle
  BY <1>29, Threads DEF Settle, At, Settled, Attempt, Done, air, Idle, bounds,
      profiles, TypeOK, ThreadType, Ops, Places, RoleInv, ModeInv, Writing,
      OtherWrites, Agrees, AutoHotspot, Fitting
<1>30. ASSUME NEW h \in Handlers, SetIpv4(h) PROVE ModeInv'
  BY <1>30, ModeNew DEF Begin
<1>31. ASSUME NEW h \in Handlers, StartRejoin(h) PROVE ModeInv'
  <2>1. \A q \in Procs \ {h, Rejoiner} : proc'[q] = proc[q]
    BY <1>31, Threads DEF StartRejoin, TypeOK
  <2>2. proc[h].at = "join" /\ proc[Rejoiner] = Idle
    BY <1>31 DEF StartRejoin, Running
  <2>3. proc'[h] = Idle /\ proc'[Rejoiner].at \in {"queued", "rejoin"}
    BY <1>31, Threads DEF StartRejoin, TypeOK, ThreadType
  <2>4. \A q \in Procs : proc'[q] = proc[q] \/ (~Writing(q) /\ ~Writing(q)')
    BY <2>1, <2>2, <2>3 DEF Writing, Idle
  <2>5. QED
    BY <1>31, <2>4, ModeKept DEF StartRejoin, profiles
<1>32. CASE Rejoin
  BY <1>32, Threads DEF Rejoin, At, AfterFailure, Lose, Tune, Done, Idle, bounds,
      profiles, TypeOK, ThreadType, Ops, Places, RoleInv, ModeInv, Writing,
      OtherWrites, Agrees, AutoHotspot, Fitting
<1>33. CASE StopServer
  <2>1. \A q \in Procs : proc'[q] = proc[q] \/ (~Writing(q) /\ ~Writing(q)')
    BY <1>33, StopIs, Threads DEF Writing, Idle
  <2>2. QED
    BY <1>33, <2>1, StopIs, ModeKept
<1>34. CASE Destroy
  BY <1>34, Threads DEF Destroy, At, Goto, air, Idle, bounds, profiles, TypeOK,
      ThreadType, Ops, Places, RoleInv, ModeInv, Writing, OtherWrites, Agrees,
      AutoHotspot, Fitting
<1>35. CASE WifiComes
  BY <1>35, Threads DEF WifiComes, Change, Tune, Idle, bounds, profiles, TypeOK,
      ThreadType, Ops, Places, RoleInv, ModeInv, Writing, OtherWrites, Agrees,
      AutoHotspot, Fitting
<1>36. CASE WifiGoes
  BY <1>36, Threads DEF WifiGoes, Change, Lose, Idle, bounds, profiles, TypeOK,
      ThreadType, Ops, Places, RoleInv, ModeInv, Writing, OtherWrites, Agrees,
      AutoHotspot, Fitting
<1>37. CASE Crash
  <2>1. \A p \in Procs : proc'[p].at \in {"boot", "idle"}
    BY <1>37, Starts DEF Crash
  <2>2. UNCHANGED <<saved, left, file>>
    BY <1>37 DEF Crash
  <2>3. tangled' = IF \E p \in Procs : Writing(p) THEN 1 ELSE tangled
    BY <1>37 DEF Crash
  <2>4. QED
    BY <2>1, <2>2, <2>3 DEF ModeInv, Writing, Agrees, AutoHotspot, Fitting
<1>38. CASE UNCHANGED vars
  BY <1>38 DEF vars, bounds, profiles, TypeOK, ThreadType, Ops, Places, RoleInv, ModeInv,
      Writing, OtherWrites, Agrees, AutoHotspot, Fitting
<1>39. QED
  BY <1>1, <1>2, <1>3, <1>4, <1>5, <1>6, <1>7, <1>8, <1>9, <1>10, <1>11, <1>12, <1>13,
      <1>14, <1>15, <1>16, <1>17, <1>18, <1>19, <1>20, <1>21, <1>22, <1>23, <1>24,
      <1>25, <1>26, <1>27, <1>28, <1>29, <1>30, <1>31, <1>32, <1>33, <1>34, <1>35,
      <1>36, <1>37, <1>38 DEF Next, Progress, HotspotStep, HandlerStep, AttemptStep,
      Request

\* The invariant holds in every behaviour.
LEMMA Inductive == Spec => []IInv
<1>1. Init => IInv
  <2> SUFFICES ASSUME Init PROVE IInv
    OBVIOUS
  <2>0. /\ proc \in [Procs -> ThreadType]
        /\ \A p \in Procs : proc[p].op \in {"boot", "none"} /\ proc[p].at \in {"boot", "idle"}
        /\ proc[Main].at = "boot"
        /\ \A p \in Procs \ {Main} : proc[p] = Idle
    BY Starts DEF Init
  <2>1. TypeOK
    BY <2>0, NetworkAssumption DEF Init, TypeOK
  <2>2. RoleInv /\ OneAttempt
    BY <2>0, Threads DEF RoleInv, OneAttempt
  <2>3. CareInv
    BY <2>0, Threads DEF CareInv, Responsible
  <2>4. ModeInv
    BY <2>0, Threads, NetworkAssumption DEF Init, ModeInv, Writing, Agrees, Fitting,
        AutoHotspot
  <2>5. QED
    BY <2>1, <2>2, <2>3, <2>4 DEF IInv
<1>2. IInv /\ [Next]_vars => IInv'
  BY TypeStep, RoleStep, AttemptsStep, CareStep, ModeStep DEF IInv
<1>3. QED
  BY <1>1, <1>2, PTL DEF Spec

-------------------------------------------------------------------------------
(* The theorems. *)

\* The variables keep their types.
THEOREM TypeCorrect == Spec => []TypeOK
<1>1. IInv => TypeOK
  BY DEF IInv
<1>2. QED
  BY <1>1, Inductive, PTL

\* However many requests come at once, one attempt is under way, and the state
\* that is polled names it.
THEOREM AttemptsAreSerial == Spec => []OneAttempt
<1>1. IInv => OneAttempt
  BY DEF IInv
<1>2. QED
  BY <1>1, Inductive, PTL

\* Whichever nmcli calls fail, in whatever order the threads make them, the board
\* is not left without a connection for no reason.
THEOREM StaysInReach == Spec => []NoStranding
<1>1. IInv => NoStranding
  BY DEF IInv, TypeOK, CareInv, Responsible, NoStranding, Idle
<1>2. QED
  BY <1>1, Inductive, PTL

\* Changes of the boot mode that neither meet nor fail leave all profiles as it
\* says, except those that failed attempts have left behind since.
THEOREM BootIsUnambiguous == Spec => []BootModeAgrees
<1>1. IInv => BootModeAgrees
  BY DEF IInv, ModeInv, Agrees, BootModeAgrees
<1>2. QED
  BY <1>1, Inductive, PTL
===============================================================================
