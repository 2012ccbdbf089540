---------------------------- MODULE LanServerProofs ----------------------------
(***************************************************************************)
(* Proofs about LanServer, for every set of viewers and every number of    *)
(* sessions and offers.                                                    *)
(***************************************************************************)
EXTENDS LanServer, TLAPS

-------------------------------------------------------------------------------
(* The inductive invariant. *)

\* The locals of the handlers: a handler has taken a session out only between
\* the two halves of closeSession, and builds one exactly in createPeerSession.
LocalInv ==
  \A v \in Viewers :
    /\ victim[v] # 0 => at[v] \in {"replacing", "aborting", "leaving"}
    /\ at[v] = "setup" => making[v] # 0

\* The table: the sessions created have a viewer; a session is stored under its own viewer's name, and a handler
\* about to store one finds none there.
TableInv ==
  /\ \A s \in Sessions : IF s <= created THEN owner[s] \in Viewers ELSE peer[s] = "none"
  /\ \A v \in Viewers : sessions[v] # 0 => owner[sessions[v]] = v
  /\ \A v \in Viewers :
       at[v] \in {"idle", "replacing", "claim", "create"} => sessions[v] = 0

\* Before its first call of createPeerSession a viewer has had no session, so
\* no callback in its name is on its way.
NoSessionYet(v) ==
  \/ offers[v] = 0
  \/ offers[v] = 1 /\ at[v] \in {"replace", "replacing", "claim", "create"}

FreshInv ==
  \A v \in Viewers :
    /\ at[v] = "idle" => offers[v] = 0
    /\ offers[v] = 0 => at[v] \in {"idle", "reading", "leave", "leaving", "gone"}
    /\ NoSessionYet(v) => \A s \in 1 .. created : owner[s] # v

\* Between the claim and createPeerSession a first offer has the slot.
ClaimInv ==
  \A v \in Viewers : offers[v] = 1 /\ at[v] = "create" => activeViewer = v

IInv ==
  TypeOK /\ LocalInv /\ TableInv /\ FreshInv /\ ClaimInv /\ NoLeakedSession /\ OneOfferKeepsSlot

-------------------------------------------------------------------------------
(* Type correctness. *)

\* The server starts with no viewer and no session.
LEMMA TypeInit == Init => TypeOK
  BY SessionsAssumption, OffersAssumption DEF Init, TypeOK, HandlerSteps, Sessions

\* closeSession leaves the table well typed.
LEMMA TakeOutType ==
  ASSUME TypeOK, NEW v \in Viewers, TakeOut(v)
  PROVE  sessions' \in [Viewers -> 0 .. created] /\ activeViewer' \in Viewers \union {NoViewer}
  BY DEF TakeOut, TypeOK

\* So does session.Close with the peer connections and the callbacks.
LEMMA CloseType ==
  ASSUME TypeOK, NEW S, S \subseteq 1 .. created, Close(S)
  PROVE  /\ peer' \in [Sessions -> {"none", "new", "negotiated", "connected", "lost", "closed"}]
         /\ callbacks' \subseteq (1 .. created) \X Events
<1>1. peer' \in [Sessions -> {"none", "new", "negotiated", "connected", "lost", "closed"}]
  BY DEF Close, TypeOK
<1>2. callbacks' \subseteq (1 .. created) \X Events
  BY DEF Close, TypeOK, Events
<1>3. QED
  BY <1>1, <1>2

\* Each step keeps the handlers, the table, the sessions and the callbacks in
\* their sets; the handler in createPeerSession works on a session that exists.
LEMMA TypeStep == TypeOK /\ LocalInv /\ TableInv /\ [Next]_vars => TypeOK'
<1> SUFFICES ASSUME TypeOK, LocalInv, TableInv, [Next]_vars PROVE TypeOK'
  OBVIOUS
<1> USE SessionsAssumption, OffersAssumption
<1>1. CASE \E u \in Viewers : Connect(u)
  BY <1>1 DEF Connect, Goes, tableVars, sessionVars, callbackVars, TypeOK,
      HandlerSteps, Events, Sessions, Viewers
<1>2. CASE \E u \in Viewers : Offer(u)
  <2>1. PICK u \in Viewers : Offer(u)
    BY <1>2
  <2>2. offers' \in [Viewers -> 0 .. MaxOffers]
    BY <2>1 DEF Offer, TypeOK
  <2>3. at' \in [Viewers -> HandlerSteps]
    BY <2>1 DEF Offer, Goes, TypeOK, HandlerSteps
  <2>4. QED
    BY <2>1, <2>2, <2>3 DEF Offer, tableVars, sessionVars, callbackVars, TypeOK
<1>3. CASE \E u \in Viewers : HangUp(u)
  BY <1>3 DEF HangUp, Goes, tableVars, sessionVars, callbackVars, TypeOK,
      HandlerSteps, Events, Sessions, Viewers
<1>4. CASE \E u \in Viewers : HandlerTakesOut(u)
  <2>1. PICK u \in Viewers : HandlerTakesOut(u)
    BY <1>4
  <2>2. sessions' \in [Viewers -> 0 .. created] /\ activeViewer' \in Viewers \union {NoViewer}
    BY <2>1, TakeOutType DEF HandlerTakesOut
  <2>3. at' \in [Viewers -> HandlerSteps]
    BY <2>1 DEF HandlerTakesOut, Goes, TypeOK, HandlerSteps
  <2>4. victim' \in [Viewers -> 0 .. created]
    BY <2>1 DEF HandlerTakesOut, TypeOK
  <2>5. QED
    BY <2>1, <2>2, <2>3, <2>4 DEF HandlerTakesOut, sessionVars, callbackVars, TypeOK
<1>5. CASE \E u \in Viewers : HandlerCloses(u)
  <2>1. PICK u \in Viewers : HandlerCloses(u)
    BY <1>5
  <2>2. {victim[u]} \ {0} \subseteq 1 .. created
    BY <2>1 DEF TypeOK
  <2>3. /\ peer' \in [Sessions -> {"none", "new", "negotiated", "connected", "lost", "closed"}]
        /\ callbacks' \subseteq (1 .. created) \X Events
    BY <2>1, <2>2, CloseType DEF HandlerCloses
  <2>4. at' \in [Viewers -> HandlerSteps]
    BY <2>1 DEF HandlerCloses, Goes, TypeOK, HandlerSteps
  <2>5. victim' \in [Viewers -> 0 .. created]
    BY <2>1 DEF HandlerCloses, TypeOK
  <2>6. QED
    BY <2>1, <2>3, <2>4, <2>5 DEF HandlerCloses, tableVars, TypeOK
<1>6. CASE \E u \in Viewers : Claim(u)
  BY <1>6 DEF Claim, Goes, sessionVars, callbackVars, TypeOK, HandlerSteps,
      Events, Sessions, Viewers
<1>7. CASE \E u \in Viewers : Refused(u)
  BY <1>7 DEF Refused, Goes, tableVars, sessionVars, callbackVars, TypeOK,
      HandlerSteps, Events, Sessions, Viewers
<1>8. CASE \E u \in Viewers : CreateSession(u)
  <2>1. PICK u \in Viewers : CreateSession(u)
    BY <1>8
  <2>2. created + 1 \in Sessions /\ created' = created + 1
    BY <2>1 DEF CreateSession, TypeOK, Sessions
  <2>3. at' \in [Viewers -> HandlerSteps]
    BY <2>1 DEF CreateSession, Goes, TypeOK, HandlerSteps
  <2>4. /\ making' \in [Viewers -> 0 .. created + 1]
        /\ sessions' \in [Viewers -> 0 .. created + 1]
        /\ victim' \in [Viewers -> 0 .. created + 1]
    BY <2>1, <2>2 DEF CreateSession, TypeOK
  <2>5. /\ owner' \in [Sessions -> Viewers \union {NoViewer}]
        /\ peer' \in [Sessions -> {"none", "new", "negotiated", "connected", "lost", "closed"}]
    BY <2>1, <2>2 DEF CreateSession, TypeOK
  <2>6. callbacks' \subseteq (1 .. created + 1) \X Events /\ condemned' \subseteq 1 .. created + 1
    BY <2>1, <2>2 DEF CreateSession, callbackVars, TypeOK
  <2>7. created + 1 \in 0 .. MaxSessions
    BY <2>2 DEF Sessions
  <2>8. QED
    BY <2>1, <2>2, <2>3, <2>4, <2>5, <2>6, <2>7 DEF CreateSession, TypeOK
<1>9. CASE \E u \in Viewers : CreateFails(u)
  BY <1>9 DEF CreateFails, Goes, tableVars, sessionVars, callbackVars, TypeOK,
      HandlerSteps, Events, Sessions, Viewers
<1>10. CASE \E u \in Viewers : Answer(u)
  <2>1. PICK u \in Viewers : Answer(u)
    BY <1>10
  <2>2. peer' \in [Sessions -> {"none", "new", "negotiated", "connected", "lost", "closed"}]
    BY <2>1 DEF Answer, TypeOK
  <2>3. at' \in [Viewers -> HandlerSteps]
    BY <2>1 DEF Answer, Goes, TypeOK, HandlerSteps
  <2>4. making' \in [Viewers -> 0 .. created]
    BY <2>1 DEF Answer, TypeOK
  <2>5. QED
    BY <2>1, <2>2, <2>3, <2>4 DEF Answer, tableVars, callbackVars, TypeOK
<1>11. CASE \E u \in Viewers : SetupFails(u)
  <2>1. PICK u \in Viewers : SetupFails(u)
    BY <1>11
  <2>2. {making[u]} \subseteq 1 .. created
    BY <2>1 DEF SetupFails, Goes, TypeOK, LocalInv
  <2>3. /\ peer' \in [Sessions -> {"none", "new", "negotiated", "connected", "lost", "closed"}]
        /\ callbacks' \subseteq (1 .. created) \X Events
    BY <2>1, <2>2, CloseType DEF SetupFails
  <2>4. at' \in [Viewers -> HandlerSteps]
    BY <2>1 DEF SetupFails, Goes, TypeOK, HandlerSteps
  <2>5. making' \in [Viewers -> 0 .. created]
    BY <2>1 DEF SetupFails, TypeOK
  <2>6. QED
    BY <2>1, <2>3, <2>4, <2>5 DEF SetupFails, tableVars, TypeOK
<1>12. CASE \E r \in Sessions : PeerConnects(r)
  <2>1. PICK r \in Sessions : PeerConnects(r)
    BY <1>12
  <2>2. r \in 1 .. created
    BY <2>1 DEF PeerConnects, TableInv, TypeOK, Sessions
  <2>3. callbacks' \subseteq (1 .. created) \X Events
    BY <2>1, <2>2 DEF PeerConnects, TypeOK, Events
  <2>4. peer' \in [Sessions -> {"none", "new", "negotiated", "connected", "lost", "closed"}]
    BY <2>1 DEF PeerConnects, TypeOK
  <2>5. QED
    BY <2>1, <2>3, <2>4 DEF PeerConnects, handlerVars, tableVars, TypeOK
<1>13. CASE \E r \in Sessions : PeerIsLost(r)
  <2>1. PICK r \in Sessions : PeerIsLost(r)
    BY <1>13
  <2>2. r \in 1 .. created
    BY <2>1 DEF PeerIsLost, TableInv, TypeOK, Sessions
  <2>3. callbacks' \subseteq (1 .. created) \X Events
    BY <2>1, <2>2 DEF PeerIsLost, TypeOK, Events
  <2>4. peer' \in [Sessions -> {"none", "new", "negotiated", "connected", "lost", "closed"}]
    BY <2>1 DEF PeerIsLost, TypeOK
  <2>5. QED
    BY <2>1, <2>3, <2>4 DEF PeerIsLost, handlerVars, tableVars, TypeOK
<1>14. CASE \E r \in Sessions : CommandEnds(r)
  BY <1>14 DEF CommandEnds, handlerVars, tableVars, callbackVars, TypeOK,
      HandlerSteps, Events, Sessions, Viewers
<1>15. CASE \E r \in Sessions : OnConnected(r)
  BY <1>15 DEF OnConnected, handlerVars, tableVars, TypeOK, HandlerSteps,
      Events, Sessions, Viewers
<1>16. CASE \E r \in Sessions : StartFails(r)
  <2>1. PICK r \in Sessions : StartFails(r)
    BY <1>16
  <2>2. r \in 1 .. created /\ owner[r] \in Viewers
    BY <2>1 DEF StartFails, TableInv, TypeOK, Sessions
  <2>3. sessions' \in [Viewers -> 0 .. created] /\ activeViewer' \in Viewers \union {NoViewer}
    BY <2>1, <2>2, TakeOutType DEF StartFails, CallbackTakesOut
  <2>4. condemned' \subseteq 1 .. created
    <3>1. sessions[owner[r]] \in 0 .. created
      BY <2>2 DEF TypeOK
    <3>2. condemned' = condemned \union ({sessions[owner[r]]} \ {0})
      BY <2>1 DEF StartFails, CallbackTakesOut
    <3>3. {sessions[owner[r]]} \ {0} \subseteq 1 .. created
      BY <3>1
    <3>4. QED
      BY <3>2, <3>3 DEF TypeOK
  <2>5. callbacks' \subseteq (1 .. created) \X Events
    BY <2>1 DEF StartFails, TypeOK
  <2>6. QED
    BY <2>1, <2>3, <2>4, <2>5 DEF StartFails, handlerVars, sessionVars, TypeOK
<1>17. CASE \E r \in Sessions : OnDown(r)
  <2>1. PICK r \in Sessions : OnDown(r)
    BY <1>17
  <2>2. r \in 1 .. created /\ owner[r] \in Viewers
    BY <2>1 DEF OnDown, TableInv, TypeOK, Sessions
  <2>3. sessions' \in [Viewers -> 0 .. created] /\ activeViewer' \in Viewers \union {NoViewer}
    BY <2>1, <2>2, TakeOutType DEF OnDown, CallbackTakesOut
  <2>4. condemned' \subseteq 1 .. created
    <3>1. sessions[owner[r]] \in 0 .. created
      BY <2>2 DEF TypeOK
    <3>2. condemned' = condemned \union ({sessions[owner[r]]} \ {0})
      BY <2>1 DEF OnDown, CallbackTakesOut
    <3>3. {sessions[owner[r]]} \ {0} \subseteq 1 .. created
      BY <3>1
    <3>4. QED
      BY <3>2, <3>3 DEF TypeOK
  <2>5. callbacks' \subseteq (1 .. created) \X Events
    BY <2>1 DEF OnDown, TypeOK
  <2>6. QED
    BY <2>1, <2>3, <2>4, <2>5 DEF OnDown, handlerVars, sessionVars, TypeOK
<1>18. CASE \E r \in Sessions : CallbackCloses(r)
  <2>1. PICK r \in Sessions : CallbackCloses(r)
    BY <1>18
  <2>2. {r} \subseteq 1 .. created
    BY <2>1 DEF CallbackCloses, TypeOK
  <2>3. /\ peer' \in [Sessions -> {"none", "new", "negotiated", "connected", "lost", "closed"}]
        /\ callbacks' \subseteq (1 .. created) \X Events
    BY <2>1, <2>2, CloseType DEF CallbackCloses
  <2>4. QED
    BY <2>1, <2>3 DEF CallbackCloses, handlerVars, tableVars, TypeOK
<1>19. CASE UNCHANGED vars
  BY <1>19 DEF vars, handlerVars, tableVars, sessionVars, callbackVars, TypeOK,
      HandlerSteps, Events, Sessions, Viewers
<1>20. QED
  BY <1>1, <1>2, <1>3, <1>4, <1>5, <1>6, <1>7, <1>8, <1>9, <1>10, <1>11, <1>12,
      <1>13, <1>14, <1>15, <1>16, <1>17, <1>18, <1>19 DEF Next, HandlerStep,
      CallbackStep

-------------------------------------------------------------------------------
(* The parts of the invariant. *)

\* A handler takes a session out and closes it in turn.
LEMMA LocalStep == TypeOK /\ LocalInv /\ [Next]_vars => LocalInv'
<1> SUFFICES ASSUME TypeOK, LocalInv, [Next]_vars PROVE LocalInv'
  OBVIOUS
<1>1. CASE \E u \in Viewers : Connect(u)
  BY <1>1 DEF Connect, Goes, tableVars, sessionVars, callbackVars, TypeOK,
      LocalInv, Viewers
<1>2. CASE \E u \in Viewers : Offer(u)
  BY <1>2 DEF Offer, Goes, tableVars, sessionVars, callbackVars, TypeOK,
      LocalInv, Viewers
<1>3. CASE \E u \in Viewers : HangUp(u)
  BY <1>3 DEF HangUp, Goes, tableVars, sessionVars, callbackVars, TypeOK,
      LocalInv, Viewers
<1>4. CASE \E u \in Viewers : HandlerTakesOut(u)
  BY <1>4 DEF HandlerTakesOut, TakeOut, Goes, sessionVars, callbackVars, TypeOK,
      LocalInv, Viewers
<1>5. CASE \E u \in Viewers : HandlerCloses(u)
  BY <1>5 DEF HandlerCloses, Close, Goes, tableVars, TypeOK, LocalInv, Viewers
<1>6. CASE \E u \in Viewers : Claim(u)
  BY <1>6 DEF Claim, Goes, sessionVars, callbackVars, TypeOK, LocalInv, Viewers
<1>7. CASE \E u \in Viewers : Refused(u)
  BY <1>7 DEF Refused, Goes, tableVars, sessionVars, callbackVars, TypeOK,
      LocalInv, Viewers
<1>8. CASE \E u \in Viewers : CreateSession(u)
  BY <1>8 DEF CreateSession, Goes, callbackVars, TypeOK, LocalInv, Viewers
<1>9. CASE \E u \in Viewers : CreateFails(u)
  BY <1>9 DEF CreateFails, Goes, tableVars, sessionVars, callbackVars, TypeOK,
      LocalInv, Viewers
<1>10. CASE \E u \in Viewers : Answer(u)
  BY <1>10 DEF Answer, Goes, tableVars, callbackVars, TypeOK, LocalInv, Viewers
<1>11. CASE \E u \in Viewers : SetupFails(u)
  BY <1>11 DEF SetupFails, Close, Goes, tableVars, TypeOK, LocalInv, Viewers
<1>12. CASE \E r \in Sessions : PeerConnects(r)
  BY <1>12 DEF PeerConnects, handlerVars, tableVars, TypeOK, LocalInv, Viewers
<1>13. CASE \E r \in Sessions : PeerIsLost(r)
  BY <1>13 DEF PeerIsLost, handlerVars, tableVars, TypeOK, LocalInv, Viewers
<1>14. CASE \E r \in Sessions : CommandEnds(r)
  BY <1>14 DEF CommandEnds, handlerVars, tableVars, callbackVars, TypeOK,
      LocalInv, Viewers
<1>15. CASE \E r \in Sessions : OnConnected(r)
  BY <1>15 DEF OnConnected, handlerVars, tableVars, TypeOK, LocalInv, Viewers
<1>16. CASE \E r \in Sessions : StartFails(r)
  BY <1>16 DEF StartFails, CallbackTakesOut, TakeOut, handlerVars, sessionVars,
      TypeOK, LocalInv, Viewers
<1>17. CASE \E r \in Sessions : OnDown(r)
  BY <1>17 DEF OnDown, CallbackTakesOut, TakeOut, handlerVars, sessionVars,
      TypeOK, LocalInv, Viewers
<1>18. CASE \E r \in Sessions : CallbackCloses(r)
  BY <1>18 DEF CallbackCloses, Close, handlerVars, tableVars, TypeOK, LocalInv,
      Viewers
<1>19. CASE UNCHANGED vars
  BY <1>19 DEF vars, handlerVars, tableVars, sessionVars, callbackVars, TypeOK,
      LocalInv, Viewers
<1>20. QED
  BY <1>1, <1>2, <1>3, <1>4, <1>5, <1>6, <1>7, <1>8, <1>9, <1>10, <1>11, <1>12,
      <1>13, <1>14, <1>15, <1>16, <1>17, <1>18, <1>19 DEF Next, HandlerStep,
      CallbackStep

\* Only a viewer's own handler puts a session in the table, and only where there is none.
LEMMA TableStep == TypeOK /\ TableInv /\ FreshInv /\ [Next]_vars => TableInv'
<1> SUFFICES ASSUME TypeOK, TableInv, FreshInv, [Next]_vars PROVE TableInv'
  OBVIOUS
<1> USE SessionsAssumption
<1>1. CASE \E u \in Viewers : Connect(u)
  BY <1>1 DEF Connect, Goes, tableVars, sessionVars, callbackVars, TypeOK,
      TableInv, FreshInv, NoSessionYet, Viewers, Sessions
<1>2. CASE \E u \in Viewers : Offer(u)
  BY <1>2 DEF Offer, Goes, tableVars, sessionVars, callbackVars, TypeOK,
      TableInv, FreshInv, NoSessionYet, Viewers, Sessions
<1>3. CASE \E u \in Viewers : HangUp(u)
  BY <1>3 DEF HangUp, Goes, tableVars, sessionVars, callbackVars, TypeOK,
      TableInv, FreshInv, NoSessionYet, Viewers, Sessions
<1>4. CASE \E u \in Viewers : HandlerTakesOut(u)
  BY <1>4 DEF HandlerTakesOut, TakeOut, Goes, sessionVars, callbackVars, TypeOK,
      TableInv, FreshInv, NoSessionYet, Viewers, Sessions
<1>5. CASE \E u \in Viewers : HandlerCloses(u)
  <2>1. PICK u \in Viewers : HandlerCloses(u)
    BY <1>5
  <2>2. UNCHANGED <<sessions, created, owner>>
    BY <2>1 DEF HandlerCloses, tableVars
  <2>3. \A s \in Sessions : IF s <= created' THEN owner'[s] \in Viewers ELSE peer'[s] = "none"
    <3>1. \A s \in Sessions : peer'[s] = IF s \in {victim[u]} \ {0} THEN "closed" ELSE peer[s]
      BY <2>1 DEF HandlerCloses, Close
    <3>2. victim[u] \in 0 .. created
      BY DEF TypeOK
    <3>3. QED
      BY <2>2, <3>1, <3>2 DEF TableInv, TypeOK, Sessions
  <2>4. \A v \in Viewers :
          at'[v] \in {"idle", "replacing", "claim", "create"} => sessions'[v] = 0
    BY <2>1, <2>2 DEF HandlerCloses, Goes, TableInv, TypeOK
  <2>5. QED
    BY <2>2, <2>3, <2>4 DEF TableInv
<1>6. CASE \E u \in Viewers : Claim(u)
  BY <1>6 DEF Claim, Goes, sessionVars, callbackVars, TypeOK, TableInv,
      FreshInv, NoSessionYet, Viewers, Sessions
<1>7. CASE \E u \in Viewers : Refused(u)
  BY <1>7 DEF Refused, Goes, tableVars, sessionVars, callbackVars, TypeOK,
      TableInv, FreshInv, NoSessionYet, Viewers, Sessions
<1>8. CASE \E u \in Viewers : CreateSession(u)
  BY <1>8 DEF CreateSession, Goes, callbackVars, TypeOK, TableInv, FreshInv,
      NoSessionYet, Viewers, Sessions
<1>9. CASE \E u \in Viewers : CreateFails(u)
  BY <1>9 DEF CreateFails, Goes, tableVars, sessionVars, callbackVars, TypeOK,
      TableInv, FreshInv, NoSessionYet, Viewers, Sessions
<1>10. CASE \E u \in Viewers : Answer(u)
  BY <1>10 DEF Answer, Goes, tableVars, callbackVars, TypeOK, TableInv,
      FreshInv, NoSessionYet, Viewers, Sessions
<1>11. CASE \E u \in Viewers : SetupFails(u)
  BY <1>11 DEF SetupFails, Close, Goes, tableVars, TypeOK, TableInv, FreshInv,
      NoSessionYet, Viewers, Sessions
<1>12. CASE \E r \in Sessions : PeerConnects(r)
  BY <1>12 DEF PeerConnects, handlerVars, tableVars, TypeOK, TableInv, FreshInv,
      NoSessionYet, Viewers, Sessions
<1>13. CASE \E r \in Sessions : PeerIsLost(r)
  BY <1>13 DEF PeerIsLost, handlerVars, tableVars, TypeOK, TableInv, FreshInv,
      NoSessionYet, Viewers, Sessions
<1>14. CASE \E r \in Sessions : CommandEnds(r)
  BY <1>14 DEF CommandEnds, handlerVars, tableVars, callbackVars, TypeOK,
      TableInv, FreshInv, NoSessionYet, Viewers, Sessions
<1>15. CASE \E r \in Sessions : OnConnected(r)
  BY <1>15 DEF OnConnected, handlerVars, tableVars, TypeOK, TableInv, FreshInv,
      NoSessionYet, Viewers, Sessions
<1>16. CASE \E r \in Sessions : StartFails(r)
  BY <1>16 DEF StartFails, CallbackTakesOut, TakeOut, handlerVars, sessionVars,
      TypeOK, TableInv, FreshInv, NoSessionYet, Viewers, Sessions
<1>17. CASE \E r \in Sessions : OnDown(r)
  BY <1>17 DEF OnDown, CallbackTakesOut, TakeOut, handlerVars, sessionVars,
      TypeOK, TableInv, FreshInv, NoSessionYet, Viewers, Sessions
<1>18. CASE \E r \in Sessions : CallbackCloses(r)
  BY <1>18 DEF CallbackCloses, Close, handlerVars, tableVars, TypeOK, TableInv,
      FreshInv, NoSessionYet, Viewers, Sessions
<1>19. CASE UNCHANGED vars
  BY <1>19 DEF vars, handlerVars, tableVars, sessionVars, callbackVars, TypeOK,
      TableInv, FreshInv, NoSessionYet, Viewers, Sessions
<1>20. QED
  BY <1>1, <1>2, <1>3, <1>4, <1>5, <1>6, <1>7, <1>8, <1>9, <1>10, <1>11, <1>12,
      <1>13, <1>14, <1>15, <1>16, <1>17, <1>18, <1>19 DEF Next, HandlerStep,
      CallbackStep

\* A viewer has no session before its first createPeerSession.
LEMMA FreshStep == TypeOK /\ TableInv /\ FreshInv /\ [Next]_vars => FreshInv'
<1> SUFFICES ASSUME TypeOK, TableInv, FreshInv, [Next]_vars PROVE FreshInv'
  OBVIOUS
<1> USE SessionsAssumption
<1>1. CASE \E u \in Viewers : Connect(u)
  BY <1>1 DEF Connect, Goes, tableVars, sessionVars, callbackVars, TypeOK,
      TableInv, FreshInv, NoSessionYet, Viewers, Sessions
<1>2. CASE \E u \in Viewers : Offer(u)
  BY <1>2 DEF Offer, Goes, tableVars, sessionVars, callbackVars, TypeOK,
      TableInv, FreshInv, NoSessionYet, Viewers, Sessions
<1>3. CASE \E u \in Viewers : HangUp(u)
  BY <1>3 DEF HangUp, Goes, tableVars, sessionVars, callbackVars, TypeOK,
      TableInv, FreshInv, NoSessionYet, Viewers, Sessions
<1>4. CASE \E u \in Viewers : HandlerTakesOut(u)
  BY <1>4 DEF HandlerTakesOut, TakeOut, Goes, sessionVars, callbackVars, TypeOK,
      TableInv, FreshInv, NoSessionYet, Viewers, Sessions
<1>5. CASE \E u \in Viewers : HandlerCloses(u)
  <2>1. PICK u \in Viewers : HandlerCloses(u)
    BY <1>5
  <2>2. UNCHANGED <<offers, created, owner>>
    BY <2>1 DEF HandlerCloses
  <2>3. /\ at[u] \in {"replacing", "aborting", "leaving"}
        /\ at'[u] \in {"claim", "reading", "gone"}
        /\ at'[u] = "claim" => at[u] = "replacing"
        /\ \A v \in Viewers \ {u} : at'[v] = at[v]
    BY <2>1 DEF HandlerCloses, Goes, TypeOK
  <2>4. offers[u] # 0 \/ at[u] = "leaving"
    BY <2>3 DEF FreshInv
  <2>5. \A v \in Viewers : NoSessionYet(v)' => NoSessionYet(v)
    BY <2>2, <2>3 DEF NoSessionYet
  <2>6. ASSUME NEW v \in Viewers, offers'[v] = 0
        PROVE  at'[v] \in {"idle", "reading", "leave", "leaving", "gone"}
    <3>1. CASE v = u
      <4>1. at[u] = "leaving"
        BY <2>2, <2>4, <2>6, <3>1
      <4>2. QED
        BY <2>1, <3>1, <4>1 DEF HandlerCloses, Goes, TypeOK
    <3>2. CASE v # u
      BY <2>2, <2>3, <2>6, <3>2 DEF FreshInv
    <3>3. QED
      BY <3>1, <3>2
  <2>7. QED
    BY <2>2, <2>3, <2>5, <2>6 DEF FreshInv
<1>6. CASE \E u \in Viewers : Claim(u)
  BY <1>6 DEF Claim, Goes, sessionVars, callbackVars, TypeOK, TableInv,
      FreshInv, NoSessionYet, Viewers, Sessions
<1>7. CASE \E u \in Viewers : Refused(u)
  BY <1>7 DEF Refused, Goes, tableVars, sessionVars, callbackVars, TypeOK,
      TableInv, FreshInv, NoSessionYet, Viewers, Sessions
<1>8. CASE \E u \in Viewers : CreateSession(u)
  BY <1>8 DEF CreateSession, Goes, callbackVars, TypeOK, TableInv, FreshInv,
      NoSessionYet, Viewers, Sessions
<1>9. CASE \E u \in Viewers : CreateFails(u)
  BY <1>9 DEF CreateFails, Goes, tableVars, sessionVars, callbackVars, TypeOK,
      TableInv, FreshInv, NoSessionYet, Viewers, Sessions
<1>10. CASE \E u \in Viewers : Answer(u)
  BY <1>10 DEF Answer, Goes, tableVars, callbackVars, TypeOK, TableInv,
      FreshInv, NoSessionYet, Viewers, Sessions
<1>11. CASE \E u \in Viewers : SetupFails(u)
  BY <1>11 DEF SetupFails, Close, Goes, tableVars, TypeOK, TableInv, FreshInv,
      NoSessionYet, Viewers, Sessions
<1>12. CASE \E r \in Sessions : PeerConnects(r)
  BY <1>12 DEF PeerConnects, handlerVars, tableVars, TypeOK, TableInv, FreshInv,
      NoSessionYet, Viewers, Sessions
<1>13. CASE \E r \in Sessions : PeerIsLost(r)
  BY <1>13 DEF PeerIsLost, handlerVars, tableVars, TypeOK, TableInv, FreshInv,
      NoSessionYet, Viewers, Sessions
<1>14. CASE \E r \in Sessions : CommandEnds(r)
  BY <1>14 DEF CommandEnds, handlerVars, tableVars, callbackVars, TypeOK,
      TableInv, FreshInv, NoSessionYet, Viewers, Sessions
<1>15. CASE \E r \in Sessions : OnConnected(r)
  BY <1>15 DEF OnConnected, handlerVars, tableVars, TypeOK, TableInv, FreshInv,
      NoSessionYet, Viewers, Sessions
<1>16. CASE \E r \in Sessions : StartFails(r)
  BY <1>16 DEF StartFails, CallbackTakesOut, TakeOut, handlerVars, sessionVars,
      TypeOK, TableInv, FreshInv, NoSessionYet, Viewers, Sessions
<1>17. CASE \E r \in Sessions : OnDown(r)
  BY <1>17 DEF OnDown, CallbackTakesOut, TakeOut, handlerVars, sessionVars,
      TypeOK, TableInv, FreshInv, NoSessionYet, Viewers, Sessions
<1>18. CASE \E r \in Sessions : CallbackCloses(r)
  BY <1>18 DEF CallbackCloses, Close, handlerVars, tableVars, TypeOK, TableInv,
      FreshInv, NoSessionYet, Viewers, Sessions
<1>19. CASE UNCHANGED vars
  BY <1>19 DEF vars, handlerVars, tableVars, sessionVars, callbackVars, TypeOK,
      TableInv, FreshInv, NoSessionYet, Viewers, Sessions
<1>20. QED
  BY <1>1, <1>2, <1>3, <1>4, <1>5, <1>6, <1>7, <1>8, <1>9, <1>10, <1>11, <1>12,
      <1>13, <1>14, <1>15, <1>16, <1>17, <1>18, <1>19 DEF Next, HandlerStep,
      CallbackStep

\* A first claim lasts until createPeerSession: nobody else releases the slot.
LEMMA ClaimStep == TypeOK /\ TableInv /\ FreshInv /\ ClaimInv /\ [Next]_vars => ClaimInv'
<1> SUFFICES ASSUME TypeOK, TableInv, FreshInv, ClaimInv, [Next]_vars PROVE ClaimInv'
  OBVIOUS
<1> USE SessionsAssumption, ViewersAssumption
<1>1. CASE \E u \in Viewers : Connect(u)
  BY <1>1 DEF Connect, Goes, tableVars, sessionVars, callbackVars, TypeOK,
      TableInv, FreshInv, NoSessionYet, ClaimInv, Viewers
<1>2. CASE \E u \in Viewers : Offer(u)
  BY <1>2 DEF Offer, Goes, tableVars, sessionVars, callbackVars, TypeOK,
      TableInv, FreshInv, NoSessionYet, ClaimInv, Viewers
<1>3. CASE \E u \in Viewers : HangUp(u)
  BY <1>3 DEF HangUp, Goes, tableVars, sessionVars, callbackVars, TypeOK,
      TableInv, FreshInv, NoSessionYet, ClaimInv, Viewers
<1>4. CASE \E u \in Viewers : HandlerTakesOut(u)
  BY <1>4 DEF HandlerTakesOut, TakeOut, Goes, sessionVars, callbackVars, TypeOK,
      TableInv, FreshInv, NoSessionYet, ClaimInv, Viewers
<1>5. CASE \E u \in Viewers : HandlerCloses(u)
  BY <1>5 DEF HandlerCloses, Close, Goes, tableVars, TypeOK, TableInv, FreshInv,
      NoSessionYet, ClaimInv, Viewers
<1>6. CASE \E u \in Viewers : Claim(u)
  BY <1>6 DEF Claim, Goes, sessionVars, callbackVars, TypeOK, TableInv,
      FreshInv, NoSessionYet, ClaimInv, Viewers
<1>7. CASE \E u \in Viewers : Refused(u)
  BY <1>7 DEF Refused, Goes, tableVars, sessionVars, callbackVars, TypeOK,
      TableInv, FreshInv, NoSessionYet, ClaimInv, Viewers
<1>8. CASE \E u \in Viewers : CreateSession(u)
  BY <1>8 DEF CreateSession, Goes, callbackVars, TypeOK, TableInv, FreshInv,
      NoSessionYet, ClaimInv, Viewers
<1>9. CASE \E u \in Viewers : CreateFails(u)
  BY <1>9 DEF CreateFails, Goes, tableVars, sessionVars, callbackVars, TypeOK,
      TableInv, FreshInv, NoSessionYet, ClaimInv, Viewers
<1>10. CASE \E u \in Viewers : Answer(u)
  BY <1>10 DEF Answer, Goes, tableVars, callbackVars, TypeOK, TableInv,
      FreshInv, NoSessionYet, ClaimInv, Viewers
<1>11. CASE \E u \in Viewers : SetupFails(u)
  BY <1>11 DEF SetupFails, Close, Goes, tableVars, TypeOK, TableInv, FreshInv,
      NoSessionYet, ClaimInv, Viewers
<1>12. CASE \E r \in Sessions : PeerConnects(r)
  BY <1>12 DEF PeerConnects, handlerVars, tableVars, TypeOK, TableInv, FreshInv,
      NoSessionYet, ClaimInv, Viewers
<1>13. CASE \E r \in Sessions : PeerIsLost(r)
  BY <1>13 DEF PeerIsLost, handlerVars, tableVars, TypeOK, TableInv, FreshInv,
      NoSessionYet, ClaimInv, Viewers
<1>14. CASE \E r \in Sessions : CommandEnds(r)
  BY <1>14 DEF CommandEnds, handlerVars, tableVars, callbackVars, TypeOK,
      TableInv, FreshInv, NoSessionYet, ClaimInv, Viewers
<1>15. CASE \E r \in Sessions : OnConnected(r)
  BY <1>15 DEF OnConnected, handlerVars, tableVars, TypeOK, TableInv, FreshInv,
      NoSessionYet, ClaimInv, Viewers
<1>16. CASE \E r \in Sessions : StartFails(r)
  BY <1>16 DEF StartFails, CallbackTakesOut, TakeOut, handlerVars, sessionVars,
      TypeOK, TableInv, FreshInv, NoSessionYet, ClaimInv, Viewers
<1>17. CASE \E r \in Sessions : OnDown(r)
  BY <1>17 DEF OnDown, CallbackTakesOut, TakeOut, handlerVars, sessionVars,
      TypeOK, TableInv, FreshInv, NoSessionYet, ClaimInv, Viewers
<1>18. CASE \E r \in Sessions : CallbackCloses(r)
  BY <1>18 DEF CallbackCloses, Close, handlerVars, tableVars, TypeOK, TableInv,
      FreshInv, NoSessionYet, ClaimInv, Viewers
<1>19. CASE UNCHANGED vars
  BY <1>19 DEF vars, handlerVars, tableVars, sessionVars, callbackVars, TypeOK,
      TableInv, FreshInv, NoSessionYet, ClaimInv, Viewers
<1>20. QED
  BY <1>1, <1>2, <1>3, <1>4, <1>5, <1>6, <1>7, <1>8, <1>9, <1>10, <1>11, <1>12,
      <1>13, <1>14, <1>15, <1>16, <1>17, <1>18, <1>19 DEF Next, HandlerStep,
      CallbackStep

\* Whoever takes a session out of the table remembers it until it is closed.
LEMMA LeakStep == TypeOK /\ LocalInv /\ TableInv /\ NoLeakedSession /\ [Next]_vars => NoLeakedSession'
<1> SUFFICES ASSUME TypeOK, LocalInv, TableInv, NoLeakedSession, [Next]_vars PROVE NoLeakedSession'
  OBVIOUS
<1> USE SessionsAssumption
<1>1. CASE \E u \in Viewers : Connect(u)
  BY <1>1 DEF Connect, Goes, tableVars, sessionVars, callbackVars, TypeOK,
      LocalInv, TableInv, NoLeakedSession, Viewers, Sessions
<1>2. CASE \E u \in Viewers : Offer(u)
  BY <1>2 DEF Offer, Goes, tableVars, sessionVars, callbackVars, TypeOK,
      LocalInv, TableInv, NoLeakedSession, Viewers, Sessions
<1>3. CASE \E u \in Viewers : HangUp(u)
  BY <1>3 DEF HangUp, Goes, tableVars, sessionVars, callbackVars, TypeOK,
      LocalInv, TableInv, NoLeakedSession, Viewers, Sessions
<1>4. CASE \E u \in Viewers : HandlerTakesOut(u)
  <2>1. PICK u \in Viewers : HandlerTakesOut(u)
    BY <1>4
  <2>2. UNCHANGED <<created, owner, peer, condemned>>
    BY <2>1 DEF HandlerTakesOut, sessionVars, callbackVars
  <2>3. /\ sessions' = [sessions EXCEPT ![u] = 0]
        /\ victim' = [victim EXCEPT ![u] = sessions[u]]
        /\ victim[u] = 0
    BY <2>1 DEF HandlerTakesOut, TakeOut, Goes, LocalInv, TypeOK
  <2>4. SUFFICES ASSUME NEW s \in 1 .. created, peer[s] # "closed", s \notin condemned
                 PROVE  sessions'[owner[s]] = s \/ \E v \in Viewers : victim'[v] = s
    BY <2>2 DEF NoLeakedSession
  <2>5. owner[s] \in Viewers
    BY DEF TableInv, TypeOK, Sessions
  <2>6. CASE sessions[owner[s]] = s
    BY <2>3, <2>5, <2>6 DEF TypeOK
  <2>7. CASE \E v \in Viewers : victim[v] = s
    BY <2>3, <2>7 DEF TypeOK
  <2>8. QED
    BY <2>4, <2>6, <2>7 DEF NoLeakedSession
<1>5. CASE \E u \in Viewers : HandlerCloses(u)
  BY <1>5 DEF HandlerCloses, Close, Goes, tableVars, TypeOK, LocalInv, TableInv,
      NoLeakedSession, Viewers, Sessions
<1>6. CASE \E u \in Viewers : Claim(u)
  BY <1>6 DEF Claim, Goes, sessionVars, callbackVars, TypeOK, LocalInv,
      TableInv, NoLeakedSession, Viewers, Sessions
<1>7. CASE \E u \in Viewers : Refused(u)
  BY <1>7 DEF Refused, Goes, tableVars, sessionVars, callbackVars, TypeOK,
      LocalInv, TableInv, NoLeakedSession, Viewers, Sessions
<1>8. CASE \E u \in Viewers : CreateSession(u)
  BY <1>8 DEF CreateSession, Goes, callbackVars, TypeOK, LocalInv, TableInv,
      NoLeakedSession, Viewers, Sessions
<1>9. CASE \E u \in Viewers : CreateFails(u)
  BY <1>9 DEF CreateFails, Goes, tableVars, sessionVars, callbackVars, TypeOK,
      LocalInv, TableInv, NoLeakedSession, Viewers, Sessions
<1>10. CASE \E u \in Viewers : Answer(u)
  BY <1>10 DEF Answer, Goes, tableVars, callbackVars, TypeOK, LocalInv,
      TableInv, NoLeakedSession, Viewers, Sessions
<1>11. CASE \E u \in Viewers : SetupFails(u)
  BY <1>11 DEF SetupFails, Close, Goes, tableVars, TypeOK, LocalInv, TableInv,
      NoLeakedSession, Viewers, Sessions
<1>12. CASE \E r \in Sessions : PeerConnects(r)
  BY <1>12 DEF PeerConnects, handlerVars, tableVars, TypeOK, LocalInv, TableInv,
      NoLeakedSession, Viewers, Sessions
<1>13. CASE \E r \in Sessions : PeerIsLost(r)
  BY <1>13 DEF PeerIsLost, handlerVars, tableVars, TypeOK, LocalInv, TableInv,
      NoLeakedSession, Viewers, Sessions
<1>14. CASE \E r \in Sessions : CommandEnds(r)
  BY <1>14 DEF CommandEnds, handlerVars, tableVars, callbackVars, TypeOK,
      LocalInv, TableInv, NoLeakedSession, Viewers, Sessions
<1>15. CASE \E r \in Sessions : OnConnected(r)
  BY <1>15 DEF OnConnected, handlerVars, tableVars, TypeOK, LocalInv, TableInv,
      NoLeakedSession, Viewers, Sessions
<1>16. CASE \E r \in Sessions : StartFails(r)
  BY <1>16 DEF StartFails, CallbackTakesOut, TakeOut, handlerVars, sessionVars,
      TypeOK, LocalInv, TableInv, NoLeakedSession, Viewers, Sessions
<1>17. CASE \E r \in Sessions : OnDown(r)
  BY <1>17 DEF OnDown, CallbackTakesOut, TakeOut, handlerVars, sessionVars,
      TypeOK, LocalInv, TableInv, NoLeakedSession, Viewers, Sessions
<1>18. CASE \E r \in Sessions : CallbackCloses(r)
  BY <1>18 DEF CallbackCloses, Close, handlerVars, tableVars, TypeOK, LocalInv,
      TableInv, NoLeakedSession, Viewers, Sessions
<1>19. CASE UNCHANGED vars
  BY <1>19 DEF vars, handlerVars, tableVars, sessionVars, callbackVars, TypeOK,
      LocalInv, TableInv, NoLeakedSession, Viewers, Sessions
<1>20. QED
  BY <1>1, <1>2, <1>3, <1>4, <1>5, <1>6, <1>7, <1>8, <1>9, <1>10, <1>11, <1>12,
      <1>13, <1>14, <1>15, <1>16, <1>17, <1>18, <1>19 DEF Next, HandlerStep,
      CallbackStep

\* The slot of a first offer is released only together with its session.
LEMMA SlotStep ==
  TypeOK /\ TableInv /\ FreshInv /\ ClaimInv /\ OneOfferKeepsSlot /\ [Next]_vars => OneOfferKeepsSlot'
<1> SUFFICES ASSUME TypeOK, TableInv, FreshInv, ClaimInv, OneOfferKeepsSlot, [Next]_vars
             PROVE  OneOfferKeepsSlot'
  OBVIOUS
<1> USE SessionsAssumption, ViewersAssumption
<1>1. CASE \E u \in Viewers : Connect(u)
  BY <1>1 DEF Connect, Goes, tableVars, sessionVars, callbackVars, TypeOK,
      TableInv, FreshInv, NoSessionYet, ClaimInv, OneOfferKeepsSlot, Viewers
<1>2. CASE \E u \in Viewers : Offer(u)
  BY <1>2 DEF Offer, Goes, tableVars, sessionVars, callbackVars, TypeOK,
      TableInv, FreshInv, NoSessionYet, ClaimInv, OneOfferKeepsSlot, Viewers
<1>3. CASE \E u \in Viewers : HangUp(u)
  BY <1>3 DEF HangUp, Goes, tableVars, sessionVars, callbackVars, TypeOK,
      TableInv, FreshInv, NoSessionYet, ClaimInv, OneOfferKeepsSlot, Viewers
<1>4. CASE \E u \in Viewers : HandlerTakesOut(u)
  BY <1>4 DEF HandlerTakesOut, TakeOut, Goes, sessionVars, callbackVars, TypeOK,
      TableInv, FreshInv, NoSessionYet, ClaimInv, OneOfferKeepsSlot, Viewers
<1>5. CASE \E u \in Viewers : HandlerCloses(u)
  BY <1>5 DEF HandlerCloses, Close, Goes, tableVars, TypeOK, TableInv, FreshInv,
      NoSessionYet, ClaimInv, OneOfferKeepsSlot, Viewers
<1>6. CASE \E u \in Viewers : Claim(u)
  BY <1>6 DEF Claim, Goes, sessionVars, callbackVars, TypeOK, TableInv,
      FreshInv, NoSessionYet, ClaimInv, OneOfferKeepsSlot, Viewers
<1>7. CASE \E u \in Viewers : Refused(u)
  BY <1>7 DEF Refused, Goes, tableVars, sessionVars, callbackVars, TypeOK,
      TableInv, FreshInv, NoSessionYet, ClaimInv, OneOfferKeepsSlot, Viewers
<1>8. CASE \E u \in Viewers : CreateSession(u)
  BY <1>8 DEF CreateSession, Goes, callbackVars, TypeOK, TableInv, FreshInv,
      NoSessionYet, ClaimInv, OneOfferKeepsSlot, Viewers
<1>9. CASE \E u \in Viewers : CreateFails(u)
  BY <1>9 DEF CreateFails, Goes, tableVars, sessionVars, callbackVars, TypeOK,
      TableInv, FreshInv, NoSessionYet, ClaimInv, OneOfferKeepsSlot, Viewers
<1>10. CASE \E u \in Viewers : Answer(u)
  BY <1>10 DEF Answer, Goes, tableVars, callbackVars, TypeOK, TableInv,
      FreshInv, NoSessionYet, ClaimInv, OneOfferKeepsSlot, Viewers
<1>11. CASE \E u \in Viewers : SetupFails(u)
  BY <1>11 DEF SetupFails, Close, Goes, tableVars, TypeOK, TableInv, FreshInv,
      NoSessionYet, ClaimInv, OneOfferKeepsSlot, Viewers
<1>12. CASE \E r \in Sessions : PeerConnects(r)
  BY <1>12 DEF PeerConnects, handlerVars, tableVars, TypeOK, TableInv, FreshInv,
      NoSessionYet, ClaimInv, OneOfferKeepsSlot, Viewers
<1>13. CASE \E r \in Sessions : PeerIsLost(r)
  BY <1>13 DEF PeerIsLost, handlerVars, tableVars, TypeOK, TableInv, FreshInv,
      NoSessionYet, ClaimInv, OneOfferKeepsSlot, Viewers
<1>14. CASE \E r \in Sessions : CommandEnds(r)
  BY <1>14 DEF CommandEnds, handlerVars, tableVars, callbackVars, TypeOK,
      TableInv, FreshInv, NoSessionYet, ClaimInv, OneOfferKeepsSlot, Viewers
<1>15. CASE \E r \in Sessions : OnConnected(r)
  BY <1>15 DEF OnConnected, handlerVars, tableVars, TypeOK, TableInv, FreshInv,
      NoSessionYet, ClaimInv, OneOfferKeepsSlot, Viewers
<1>16. CASE \E r \in Sessions : StartFails(r)
  BY <1>16 DEF StartFails, CallbackTakesOut, TakeOut, handlerVars, sessionVars,
      TypeOK, TableInv, FreshInv, NoSessionYet, ClaimInv, OneOfferKeepsSlot,
      Viewers
<1>17. CASE \E r \in Sessions : OnDown(r)
  BY <1>17 DEF OnDown, CallbackTakesOut, TakeOut, handlerVars, sessionVars,
      TypeOK, TableInv, FreshInv, NoSessionYet, ClaimInv, OneOfferKeepsSlot,
      Viewers
<1>18. CASE \E r \in Sessions : CallbackCloses(r)
  BY <1>18 DEF CallbackCloses, Close, handlerVars, tableVars, TypeOK, TableInv,
      FreshInv, NoSessionYet, ClaimInv, OneOfferKeepsSlot, Viewers
<1>19. CASE UNCHANGED vars
  BY <1>19 DEF vars, handlerVars, tableVars, sessionVars, callbackVars, TypeOK,
      TableInv, FreshInv, NoSessionYet, ClaimInv, OneOfferKeepsSlot, Viewers
<1>20. QED
  BY <1>1, <1>2, <1>3, <1>4, <1>5, <1>6, <1>7, <1>8, <1>9, <1>10, <1>11, <1>12,
      <1>13, <1>14, <1>15, <1>16, <1>17, <1>18, <1>19 DEF Next, HandlerStep,
      CallbackStep

-------------------------------------------------------------------------------
(* The theorems. *)

\* The invariant holds in every behaviour.
LEMMA Inductive == Spec => []IInv
<1>1. Init => IInv
  <2> SUFFICES ASSUME Init PROVE IInv
    OBVIOUS
  <2>1. TypeOK
    BY TypeInit
  <2>2. created = 0 /\ \A v \in Viewers : at[v] = "idle" /\ offers[v] = 0 /\ victim[v] = 0 /\ sessions[v] = 0
    BY DEF Init
  <2>3. TableInv
    BY <2>2, SessionsAssumption DEF Init, TableInv, Sessions
  <2>4. FreshInv
    BY <2>2 DEF FreshInv, NoSessionYet
  <2>5. LocalInv /\ ClaimInv /\ NoLeakedSession /\ OneOfferKeepsSlot
    BY <2>2 DEF LocalInv, ClaimInv, NoLeakedSession, OneOfferKeepsSlot
  <2>6. QED
    BY <2>1, <2>3, <2>4, <2>5 DEF IInv
<1>2. IInv /\ [Next]_vars => IInv'
  BY TypeStep, LocalStep, TableStep, FreshStep, ClaimStep, LeakStep, SlotStep
      DEF IInv
<1>3. QED
  BY <1>1, <1>2, PTL DEF Spec

\* The variables keep their types, whatever the viewers do.
THEOREM TypeCorrect == Spec => []TypeOK
<1>1. IInv => TypeOK
  BY DEF IInv
<1>2. QED
  BY <1>1, Inductive, PTL

\* No interleaving of handlers, callbacks and closings loses a session that is
\* not closed.
THEOREM NoLeak == Spec => []NoLeakedSession
<1>1. IInv => NoLeakedSession
  BY DEF IInv
<1>2. QED
  BY <1>1, Inductive, PTL

\* A viewer that makes one offer keeps the slot as long as its session is in the
\* table, whatever the other viewers do, those that offer again included.
THEOREM SlotKept == Spec => []OneOfferKeepsSlot
<1>1. IInv => OneOfferKeepsSlot
  BY DEF IInv
<1>2. QED
  BY <1>1, Inductive, PTL
================================================================================
