------------------------------- MODULE LanServer -------------------------------
(***************************************************************************)
(* The LAN signalling server of the publisher (native/webrtc-publisher/    *)
(* main.go): one desktop slot, one peer session per viewer.  A viewer is   *)
(* one websocket, or one request to /api/offer.  Three kinds of goroutine  *)
(* meet in lanServer.sessMu: the handlers of the viewers, the state-change *)
(* callbacks of the peer connections, each of which pion runs in a         *)
(* goroutine of its own, and whoever calls session.Close for a session     *)
(* that was taken out of the table before.                                 *)
(*                                                                         *)
(* One action is one section under sessMu, or the steps of one goroutine   *)
(* between two of them that no other one can see.                          *)
(***************************************************************************)
EXTENDS Integers

CONSTANTS
  SocketViewers,   \* viewers connected through /ws
  OfferViewers,    \* viewers of one POST to /api/offer
  NoViewer,        \* activeViewer == ""
  MaxSessions,     \* bound on the peer sessions created
  MaxOffers        \* bound on the offers over one websocket

Viewers == SocketViewers \union OfferViewers
Sessions == 1 .. MaxSessions

ASSUME ViewersAssumption == SocketViewers \intersect OfferViewers = {} /\ NoViewer \notin Viewers
ASSUME SessionsAssumption == MaxSessions \in Nat
ASSUME OffersAssumption == MaxOffers \in Nat

VARIABLES
  at,            \* the next step of each viewer's handler
  offers,        \* offers a viewer has sent
  making,        \* createPeerSession: the session it builds, 0 for none
  victim,        \* closeSession in a handler: the session it took out, 0 for none
  sessions,      \* lanServer.sessions: the session of each viewer, 0 for none
  activeViewer,  \* lanServer.activeViewer
  created,       \* sessions created so far
  owner,         \* session.viewerID
  peer,          \* state of each session's peer connection; "closed" by session.Close
  callbacks,     \* state-change callbacks that have not run yet
  condemned,     \* sessions a callback took out and has not closed yet
  command        \* the H.264 command of each session; mediaOn once it is not "none"

handlerVars == <<at, offers, making, victim>>
tableVars == <<sessions, activeViewer>>
sessionVars == <<created, owner, peer, command>>
callbackVars == <<callbacks, condemned>>
vars == <<handlerVars, tableVars, sessionVars, callbackVars>>

HandlerSteps == {"idle", "reading", "replace", "replacing", "claim", "create",
                 "setup", "abort", "aborting", "leave", "leaving", "gone"}
Events == {"connected", "lost", "closed"}

Init ==
  /\ at = [v \in Viewers |-> "idle"]
  /\ offers = [v \in Viewers |-> 0]
  /\ making = [v \in Viewers |-> 0]
  /\ victim = [v \in Viewers |-> 0]
  /\ sessions = [v \in Viewers |-> 0]
  /\ activeViewer = NoViewer
  /\ created = 0
  /\ owner = [s \in Sessions |-> NoViewer]
  /\ peer = [s \in Sessions |-> "none"]
  /\ callbacks = {}
  /\ condemned = {}
  /\ command = [s \in Sessions |-> "none"]

-------------------------------------------------------------------------------
(* What the goroutines share. *)

Goes(v, from, to) == at[v] = from /\ at' = [at EXCEPT ![v] = to]

\* Mutant: the slot is released whoever has it.
TakeOutAndRelease(v) ==
  /\ sessions' = [sessions EXCEPT ![v] = 0]
  /\ activeViewer' = NoViewer

\* The section of closeSession under sessMu: the session of the viewer is taken
\* out of the table, and the slot is released if it is the viewer's.
TakeOut(v) ==
  /\ sessions' = [sessions EXCEPT ![v] = 0]
  /\ activeViewer' = IF activeViewer = v THEN NoViewer ELSE activeViewer

\* session.Close, once per session: the context is cancelled, which terminates
\* the command, and closing the peer connection calls back with "closed".
Close(S) ==
  /\ peer' = [s \in Sessions |-> IF s \in S THEN "closed" ELSE peer[s]]
  /\ callbacks' = callbacks \union {<<s, "closed">> : s \in {t \in S : peer[t] # "closed"}}

-------------------------------------------------------------------------------
(* handleWS and handleOffer. *)

Connect(v) ==
  /\ v \in SocketViewers
  /\ Goes(v, "idle", "reading")
  /\ UNCHANGED <<offers, making, victim, tableVars, sessionVars, callbackVars>>

\* Mutant: an offer does not close the viewer's earlier session.
OfferKeepsOld(v) ==
  /\ \/ v \in SocketViewers /\ Goes(v, "reading", "claim")
     \/ v \in OfferViewers /\ Goes(v, "idle", "claim")
  /\ offers[v] < MaxOffers
  /\ offers' = [offers EXCEPT ![v] = @ + 1]
  /\ UNCHANGED <<making, victim, tableVars, sessionVars, callbackVars>>

\* An offer over the websocket closes the viewer's earlier session first.
Offer(v) ==
  /\ \/ v \in SocketViewers /\ Goes(v, "reading", "replace")
     \/ v \in OfferViewers /\ Goes(v, "idle", "claim")
  /\ offers[v] < MaxOffers
  /\ offers' = [offers EXCEPT ![v] = @ + 1]
  /\ UNCHANGED <<making, victim, tableVars, sessionVars, callbackVars>>

\* closeSession in a handler: before a new session, after a failed one, and
\* deferred for the end of the websocket.
HandlerTakesOut(v) ==
  /\ \/ Goes(v, "replace", "replacing")
     \/ Goes(v, "abort", "aborting")
     \/ Goes(v, "leave", "leaving")
  /\ TakeOut(v)
  /\ victim' = [victim EXCEPT ![v] = sessions[v]]
  /\ UNCHANGED <<offers, making, sessionVars, callbackVars>>

\* Mutant: closeSession forgets to close the session it took out.
HandlerForgets(v) ==
  /\ \/ Goes(v, "replacing", "claim")
     \/ v \in SocketViewers /\ Goes(v, "aborting", "reading")
     \/ v \in OfferViewers /\ Goes(v, "aborting", "gone")
     \/ Goes(v, "leaving", "gone")
  /\ victim' = [victim EXCEPT ![v] = 0]
  /\ UNCHANGED <<offers, making, tableVars, sessionVars, callbackVars>>

HandlerCloses(v) ==
  /\ \/ Goes(v, "replacing", "claim")
     \/ v \in SocketViewers /\ Goes(v, "aborting", "reading")
     \/ v \in OfferViewers /\ Goes(v, "aborting", "gone")
     \/ Goes(v, "leaving", "gone")
  /\ Close({victim[v]} \ {0})
  /\ victim' = [victim EXCEPT ![v] = 0]
  /\ UNCHANGED <<offers, making, tableVars, created, owner, command, condemned>>

\* claimViewerSlot.
Claim(v) ==
  /\ Goes(v, "claim", "create")
  /\ activeViewer \in {NoViewer, v}
  /\ activeViewer' = v
  /\ UNCHANGED <<offers, making, victim, sessions, sessionVars, callbackVars>>

\* "desktop already in use"
Refused(v) ==
  /\ \/ v \in SocketViewers /\ Goes(v, "claim", "reading")
     \/ v \in OfferViewers /\ Goes(v, "claim", "gone")
  /\ activeViewer \notin {NoViewer, v}
  /\ UNCHANGED <<offers, making, victim, tableVars, sessionVars, callbackVars>>

\* createPeerSession up to storeSession and the registration of the callbacks.
CreateSession(v) ==
  /\ created < MaxSessions
  /\ Goes(v, "create", "setup")
  /\ created' = created + 1
  /\ making' = [making EXCEPT ![v] = created + 1]
  /\ owner' = [owner EXCEPT ![created + 1] = v]
  /\ peer' = [peer EXCEPT ![created + 1] = "new"]
  /\ sessions' = [sessions EXCEPT ![v] = created + 1]
  /\ UNCHANGED <<offers, victim, activeViewer, command, callbackVars>>

\* webrtc.NewPeerConnection fails: there is no session yet.
CreateFails(v) ==
  /\ Goes(v, "create", "abort")
  /\ UNCHANGED <<offers, making, victim, tableVars, sessionVars, callbackVars>>

\* The descriptions are exchanged and the tracks added, which a closed peer
\* connection refuses; the answer is sent to the viewer.  The handler leaves
\* when the websocket does not take it.
Answer(v) ==
  /\ \/ v \in SocketViewers /\ Goes(v, "setup", "reading")
     \/ v \in SocketViewers /\ Goes(v, "setup", "leave")
     \/ v \in OfferViewers /\ Goes(v, "setup", "gone")
  /\ peer[making[v]] = "new"
  /\ making' = [making EXCEPT ![v] = 0]
  /\ peer' = [peer EXCEPT ![making[v]] = "negotiated"]
  /\ UNCHANGED <<offers, victim, tableVars, created, owner, command, callbackVars>>

\* A step of createPeerSession fails, closes the session and returns the error.
SetupFails(v) ==
  /\ Goes(v, "setup", "abort")
  /\ Close({making[v]})
  /\ making' = [making EXCEPT ![v] = 0]
  /\ UNCHANGED <<offers, victim, tableVars, created, owner, command, condemned>>

\* The websocket ends: ReadJSON returns an error.
HangUp(v) ==
  /\ v \in SocketViewers
  /\ Goes(v, "reading", "leave")
  /\ UNCHANGED <<offers, making, victim, tableVars, sessionVars, callbackVars>>

-------------------------------------------------------------------------------
(* The peer connections, and the callbacks createPeerSession registers. *)

\* The connection comes up, for the first time or again after an interruption.
PeerConnects(s) ==
  /\ peer[s] \in {"negotiated", "lost"}
  /\ peer' = [peer EXCEPT ![s] = "connected"]
  /\ callbacks' = callbacks \union {<<s, "connected">>}
  /\ UNCHANGED <<handlerVars, tableVars, created, owner, command, condemned>>

\* Disconnected, or failed to connect at all.
PeerIsLost(s) ==
  /\ peer[s] \in {"negotiated", "connected"}
  /\ peer' = [peer EXCEPT ![s] = "lost"]
  /\ callbacks' = callbacks \union {<<s, "lost">>}
  /\ UNCHANGED <<handlerVars, tableVars, created, owner, command, condemned>>

\* startMediaForwarderOnce starts the command, or finds it started.
OnConnected(s) ==
  /\ <<s, "connected">> \in callbacks
  /\ \/ command[s] # "none" /\ UNCHANGED command
     \/ command[s] = "none" /\ peer[s] # "closed" /\ command' = [command EXCEPT ![s] = "running"]
  /\ callbacks' = callbacks \ {<<s, "connected">>}
  /\ UNCHANGED <<handlerVars, tableVars, created, owner, peer, condemned>>

\* closeSession(viewerID) in a callback: it takes out whatever session the
\* viewer has now, and releases the slot if the viewer has it now.
CallbackTakesOut(s) ==
  /\ TakeOut(owner[s])
  /\ condemned' = condemned \union ({sessions[owner[s]]} \ {0})

\* The command cannot be started, for one because the context is cancelled.
StartFails(s) ==
  /\ <<s, "connected">> \in callbacks
  /\ command[s] = "none"
  /\ callbacks' = callbacks \ {<<s, "connected">>}
  /\ CallbackTakesOut(s)
  /\ UNCHANGED <<handlerVars, sessionVars>>

\* Mutant: a callback of a viewer that has lost the slot is ignored.
OnDownActive(s) ==
  /\ \E e \in {"lost", "closed"} :
       /\ <<s, e>> \in callbacks
       /\ callbacks' = callbacks \ {<<s, e>>}
  /\ IF activeViewer = owner[s] THEN CallbackTakesOut(s) ELSE UNCHANGED <<tableVars, condemned>>
  /\ UNCHANGED <<handlerVars, sessionVars>>

\* Failed, Closed or Disconnected.
OnDown(s) ==
  /\ \E e \in {"lost", "closed"} :
       /\ <<s, e>> \in callbacks
       /\ callbacks' = callbacks \ {<<s, e>>}
  /\ CallbackTakesOut(s)
  /\ UNCHANGED <<handlerVars, sessionVars>>

CallbackCloses(s) ==
  /\ s \in condemned
  /\ Close({s})
  /\ condemned' = condemned \ {s}
  /\ UNCHANGED <<handlerVars, tableVars, created, owner, command>>

\* The process group of the command is terminated.  A command may exit earlier:
\* nobody starts another one, mediaOn stays set, so it counts as running here.
CommandEnds(s) ==
  /\ peer[s] = "closed"
  /\ command[s] = "running"
  /\ command' = [command EXCEPT ![s] = "ended"]
  /\ UNCHANGED <<handlerVars, tableVars, created, owner, peer, callbackVars>>

-------------------------------------------------------------------------------
HandlerStep(v) ==
  \/ HandlerTakesOut(v) \/ HandlerCloses(v)
  \/ Claim(v) \/ Refused(v)
  \/ CreateSession(v) \/ CreateFails(v)
  \/ Answer(v) \/ SetupFails(v)

CallbackStep(s) == OnConnected(s) \/ StartFails(s) \/ OnDown(s) \/ CallbackCloses(s)

Next ==
  \/ \E v \in Viewers : Connect(v) \/ Offer(v) \/ HangUp(v) \/ HandlerStep(v)
  \/ \E s \in Sessions : PeerConnects(s) \/ PeerIsLost(s) \/ CommandEnds(s) \/ CallbackStep(s)

Spec == Init /\ [][Next]_vars

\* Goroutines run, and a command whose context is cancelled is terminated.
\* Browsers owe the server nothing.
FairSpec ==
  /\ Spec
  /\ \A v \in Viewers : WF_vars(HandlerStep(v))
  /\ \A s \in Sessions :
       /\ WF_vars(OnConnected(s) \/ StartFails(s))
       /\ WF_vars(OnDown(s))
       /\ WF_vars(CallbackCloses(s))
       /\ WF_vars(CommandEnds(s))

-------------------------------------------------------------------------------
(* Properties. *)

TypeOK ==
  /\ at \in [Viewers -> HandlerSteps]
  /\ offers \in [Viewers -> 0 .. MaxOffers]
  /\ created \in 0 .. MaxSessions
  /\ making \in [Viewers -> 0 .. created]
  /\ victim \in [Viewers -> 0 .. created]
  /\ sessions \in [Viewers -> 0 .. created]
  /\ activeViewer \in Viewers \union {NoViewer}
  /\ owner \in [Sessions -> Viewers \union {NoViewer}]
  /\ peer \in [Sessions -> {"none", "new", "negotiated", "connected", "lost", "closed"}]
  /\ callbacks \subseteq (1 .. created) \X Events
  /\ condemned \subseteq 1 .. created
  /\ command \in [Sessions -> {"none", "running", "ended"}]

\* A session that is not closed can still be reached by someone who will close
\* it: it is in the table under its viewer's name, or a goroutine that took it
\* out is about to close it.
NoLeakedSession ==
  \A s \in 1 .. created :
    \/ peer[s] = "closed"
    \/ sessions[owner[s]] = s
    \/ s \in condemned
    \/ \E v \in Viewers : victim[v] = s

\* A viewer that made one offer, as the bundled page does on each websocket,
\* has the desktop slot for as long as its session is in the table: no other
\* viewer's closing, failing or late callback gives the slot away.
OneOfferKeepsSlot ==
  \A v \in Viewers : offers[v] = 1 /\ sessions[v] # 0 => activeViewer = v

\* A websocket that ends takes its sessions with it: the slot is released, every
\* session of the viewer is closed and its encoder command is over.
LeaverIsCleaned ==
  \A v \in SocketViewers :
    at[v] = "leave" ~> /\ activeViewer # v
                       /\ \A s \in 1 .. created :
                            owner[s] = v => peer[s] = "closed" /\ command[s] # "running"

\* A peer connection that goes down closes its session, also the session of an
\* /api/offer viewer, which has no websocket to notice.
LostPeerIsClosed ==
  \A s \in Sessions : <<s, "lost">> \in callbacks ~> peer[s] = "closed"

\* Two viewers never hold the desktop together: "second viewer must not displace
\* the active viewer".
OneViewerAtATime ==
  \A v, w \in Viewers : sessions[v] # 0 /\ sessions[w] # 0 => v = w
===============================================================================
