------------------------------ MODULE ScreenHub ------------------------------
(***************************************************************************)
(* The screen lifecycle kept by the Hub of allrelay-server                 *)
(* (internal/web/hub.go): generation-scoped screen sessions, the control   *)
(* route to the phone, the automatic display OFF/ON commands and the       *)
(* decoder replay cache.                                                   *)
(*                                                                         *)
(* Locks.  displayMu serialises every operation that may write a display   *)
(* command.  EndScreenSession releases controlMu before its (possibly      *)
(* blocked) route write and keeps displayMu, so it is two steps here, with *)
(* "ending" standing for displayMu being held in between.  The other       *)
(* operations hold controlMu for their whole body and are one step.        *)
(*                                                                         *)
(* Abstractions.  A route is an identifier; whether a write through it     *)
(* succeeds is the caller's choice (ok).  The content of an access unit is *)
(* only its two flags, its size class, and the generation and header under *)
(* which it was broadcast.  The channel behind BroadcastEvent is modelled  *)
(* in ViewerFeed.                                                          *)
(***************************************************************************)
EXTENDS Naturals, Sequences

CONSTANTS
  Routes,           \* identities of the routes RegisterControlRoute creates
  Viewers,          \* WebSocket clients that forward control input
  NoRoute,          \* the nil *controlRoute
  MaxGeneration,    \* bound: screen sessions begun
  MaxHeaders,       \* bound: session headers accepted in one generation
  MaxReplayConfigs  \* maxScreenReplayConfigFrames

ASSUME HubAssumption ==
  /\ NoRoute \notin Routes
  /\ MaxGeneration \in Nat
  /\ MaxHeaders \in Nat
  /\ MaxReplayConfigs \in Nat \ {0}

VARIABLES
  screenGeneration,   \* Hub.screenGeneration
  screenActive,       \* Hub.screenActive
  screenHeaderReady,  \* Hub.screenHeaderReady
  displayOffDesired,  \* Hub.displayOffDesired
  displayPowerOff,    \* Hub.displayPowerOff
  controlRoute,       \* Hub.controlRoute
  routes,             \* controlRoute.closed of every route ever created
  offSent,            \* routes whose displayOffSent is set
  ending,             \* EndScreenSession between its two critical sections
  input,              \* the route WriteControl read for each viewer's message
  lastInput,          \* history: the route the last input was written to
  replay,             \* screenSession, screenConfigFrames, screenKeyFrame
  headers,            \* headers accepted in this generation
  phoneDark,          \* the phone obeyed OFF and has not obeyed ON since
  offFailed,          \* history: routes whose display OFF write failed
  restoreFailed       \* history: the last attempt to restore the display had
                      \* no route, or its write failed

sessionVars == <<screenGeneration, screenActive, screenHeaderReady,
                 displayOffDesired, headers>>
displayVars == <<displayPowerOff, phoneDark, restoreFailed>>
routeVars   == <<controlRoute, routes, offSent, offFailed>>
inputVars   == <<input, lastInput>>
hubVars     == <<sessionVars, displayVars, routeVars, inputVars, ending, replay>>

Idle == [busy |-> FALSE, route |-> NoRoute]

EmptyReplay == [session |-> 0, configs |-> <<>>, key |-> <<>>]

(* A frame is identified by the generation and header it was sent under;   *)
(* Stamp is what a frame of the current session carries.                   *)
Stamp == <<screenGeneration, headers>>

Stamps == (0 .. MaxGeneration) \X (0 .. MaxHeaders)

ReplayType ==
  {e \in [session : 0 .. MaxHeaders, configs : Seq(Stamps), key : Seq(Stamps)] :
     Len(e.configs) <= MaxReplayConfigs /\ Len(e.key) <= 1}

HubTypeOK ==
  /\ screenGeneration \in 0 .. MaxGeneration
  /\ screenActive \in BOOLEAN
  /\ screenHeaderReady \in BOOLEAN
  /\ displayOffDesired \in BOOLEAN
  /\ displayPowerOff \in BOOLEAN
  /\ controlRoute \in Routes \cup {NoRoute}
  /\ routes \in [Routes -> {"fresh", "open", "closed"}]
  /\ offSent \in SUBSET Routes
  /\ ending \in [busy : BOOLEAN, route : Routes \cup {NoRoute}]
  /\ input \in [Viewers -> Routes \cup {NoRoute}]
  /\ lastInput \in Routes \cup {NoRoute}
  /\ replay \in ReplayType
  /\ headers \in 0 .. MaxHeaders
  /\ phoneDark \in BOOLEAN
  /\ offFailed \in SUBSET Routes
  /\ restoreFailed \in BOOLEAN

HubInit ==
  /\ screenGeneration = 0
  /\ screenActive = FALSE
  /\ screenHeaderReady = FALSE
  /\ displayOffDesired = FALSE
  /\ displayPowerOff = FALSE
  /\ controlRoute = NoRoute
  /\ routes = [r \in Routes |-> "fresh"]
  /\ offSent = {}
  /\ ending = Idle
  /\ input = [v \in Viewers |-> NoRoute]
  /\ lastInput = NoRoute
  /\ replay = EmptyReplay
  /\ headers = 0
  /\ phoneDark = FALSE
  /\ offFailed = {}
  /\ restoreFailed = FALSE

-----------------------------------------------------------------------------
(* Helpers: the locks, and what the route methods do.                      *)

DisplayFree == ~ending.busy

IsCurrent(g) == screenActive /\ g = screenGeneration

(* sendDisplayOff through r: no error, either because this route has sent  *)
(* OFF before or because the write goes through.                           *)
OffSucceeds(r, ok) == routes[r] = "open" /\ (r \in offSent \/ ok)

NoDisplayWrite == UNCHANGED <<offSent, offFailed, displayVars>>

SendDisplayOff(r, ok) ==
  /\ offSent' = IF OffSucceeds(r, ok) THEN offSent \cup {r} ELSE offSent
  /\ offFailed' = IF OffSucceeds(r, ok) THEN offFailed \ {r}
                                        ELSE offFailed \cup {r}
  /\ phoneDark' = (phoneDark \/ (OffSucceeds(r, ok) /\ r \notin offSent))
  /\ displayPowerOff' = (displayPowerOff \/ OffSucceeds(r, ok))
  /\ UNCHANGED restoreFailed

OffWanted == screenHeaderReady /\ displayOffDesired

(* restoreDisplay through r: nothing to do unless OFF was sent; no route   *)
(* or a failed write leaves displayPowerOff set for a later route.         *)
Restored(r, ok) == r # NoRoute /\ routes[r] = "open" /\ ok

RestoreDisplay(r, ok) ==
  IF displayPowerOff
  THEN /\ displayPowerOff' = ~Restored(r, ok)
       /\ phoneDark' = (phoneDark /\ ~Restored(r, ok))
       /\ restoreFailed' = (r = NoRoute \/ ~ok)
  ELSE UNCHANGED displayVars

Closed(r) == IF r = NoRoute THEN routes ELSE [routes EXCEPT ![r] = "closed"]

-----------------------------------------------------------------------------
(* Operations.                                                             *)

BeginScreenSession(ok) ==
  /\ DisplayFree
  /\ screenGeneration < MaxGeneration
  /\ IF screenActive
     THEN RestoreDisplay(controlRoute, ok) /\ routes' = Closed(controlRoute)
     ELSE UNCHANGED <<displayVars, routes>>
  /\ screenGeneration' = screenGeneration + 1
  /\ screenActive' = TRUE
  /\ screenHeaderReady' = FALSE
  /\ displayOffDesired' = TRUE
  /\ controlRoute' = NoRoute
  /\ replay' = EmptyReplay
  /\ headers' = 0
  /\ UNCHANGED <<offSent, offFailed, ending, inputVars>>

SetScreenSession(g, ok) ==
  /\ DisplayFree
  /\ IsCurrent(g)
  /\ headers < MaxHeaders
  /\ replay' = [EmptyReplay EXCEPT !.session = headers + 1]
  /\ headers' = headers + 1
  /\ screenHeaderReady' = TRUE
  /\ IF controlRoute # NoRoute /\ displayOffDesired
     THEN SendDisplayOff(controlRoute, ok)
     ELSE NoDisplayWrite
  /\ UNCHANGED <<screenGeneration, screenActive, displayOffDesired,
                 controlRoute, routes, ending, inputVars>>

(* endScreenSessionLocked and the cache reset, under controlMu. *)
DetachSession ==
  /\ screenActive' = FALSE
  /\ screenHeaderReady' = FALSE
  /\ displayOffDesired' = FALSE
  /\ controlRoute' = NoRoute
  /\ replay' = EmptyReplay
  /\ UNCHANGED <<screenGeneration, headers, offSent, offFailed, inputVars>>

EndScreenSessionDetach(g) ==
  /\ DisplayFree
  /\ IsCurrent(g)
  /\ ending' = [busy |-> TRUE, route |-> controlRoute]
  /\ DetachSession
  /\ UNCHANGED <<displayVars, routes>>

EndWithoutClose(ok) ==   \* mutant: the route stays open
  /\ ending.busy
  /\ RestoreDisplay(ending.route, ok)
  /\ ending' = Idle
  /\ UNCHANGED <<sessionVars, controlRoute, routes, offSent, offFailed,
                 inputVars, replay>>

EndScreenSessionRestore(ok) ==
  /\ ending.busy
  /\ RestoreDisplay(ending.route, ok)
  /\ routes' = Closed(ending.route)
  /\ ending' = Idle
  /\ UNCHANGED <<sessionVars, controlRoute, offSent, offFailed, inputVars, replay>>

RegisterControlRoute(g, r, ok) ==
  /\ DisplayFree
  /\ IsCurrent(g)
  /\ routes[r] = "fresh"
  /\ controlRoute' = r
  /\ routes' = [Closed(controlRoute) EXCEPT ![r] = "open"]
  /\ IF OffWanted
     THEN /\ offSent' = IF ok THEN offSent \cup {r} ELSE offSent
          /\ offFailed' = IF ok THEN offFailed ELSE offFailed \cup {r}
          /\ phoneDark' = (phoneDark \/ ok)
          /\ displayPowerOff' = (displayPowerOff \/ ok)
          /\ UNCHANGED restoreFailed
     ELSE NoDisplayWrite
  /\ UNCHANGED <<sessionVars, ending, inputVars, replay>>

(* A call whose generation has been replaced or ended changes nothing. *)
StaleCall(g) ==
  /\ DisplayFree
  /\ ~IsCurrent(g)
  /\ UNCHANGED hubVars

(* ClearControlRoute: detaches and closes the route if it is the current. *)
ClearControlRoute(r) ==
  /\ DisplayFree
  /\ controlRoute = r
  /\ controlRoute' = NoRoute
  /\ routes' = Closed(r)
  /\ UNCHANGED <<sessionVars, displayVars, offSent, offFailed, ending,
                 inputVars, replay>>

(* WriteControl reads the route under controlMu and writes after releasing *)
(* it; a route closed in between refuses the write.                        *)
ReadRoute(v) ==
  /\ input[v] = NoRoute
  /\ controlRoute # NoRoute
  /\ input' = [input EXCEPT ![v] = controlRoute]
  /\ UNCHANGED <<lastInput, sessionVars, displayVars, routeVars, ending, replay>>

WriteInput(v) ==
  /\ input[v] # NoRoute
  /\ input' = [input EXCEPT ![v] = NoRoute]
  /\ lastInput' = IF routes[input[v]] = "open" THEN input[v] ELSE lastInput
  /\ UNCHANGED <<sessionVars, displayVars, routeVars, ending, replay>>

(* BroadcastScreenFrame's cache update; config and key are the flag bits.  *)

Keep(s, x, n) == IF Len(s) < n THEN Append(s, x) ELSE Append(Tail(s), x)

Cache(x, config, key, small) ==
  replay' = [replay EXCEPT
               !.configs = IF config THEN Keep(@, x, MaxReplayConfigs) ELSE @,
               !.key = IF key /\ small THEN <<x>> ELSE @]

BroadcastScreenFrame(g, config, key, small) ==
  /\ IsCurrent(g)
  /\ Cache(<<g, headers>>, config, key, small)
  /\ UNCHANGED <<sessionVars, displayVars, routeVars, ending, inputVars>>

-----------------------------------------------------------------------------

Generations == 1 .. screenGeneration

HubNext ==
  \/ \E ok \in BOOLEAN : BeginScreenSession(ok) \/ EndScreenSessionRestore(ok)
  \/ \E g \in Generations, ok \in BOOLEAN : SetScreenSession(g, ok)
  \/ \E g \in Generations : EndScreenSessionDetach(g) \/ StaleCall(g)
  \/ \E g \in Generations, r \in Routes, ok \in BOOLEAN :
       RegisterControlRoute(g, r, ok)
  \/ \E r \in Routes : ClearControlRoute(r)
  \/ \E v \in Viewers : ReadRoute(v) \/ WriteInput(v)
  \/ \E g \in Generations, config, key, small \in BOOLEAN :
       BroadcastScreenFrame(g, config, key, small)

HubSpec == HubInit /\ [][HubNext]_hubVars

-----------------------------------------------------------------------------
(* Properties.                                                             *)

(* The host's record of the display is what the phone was last told.       *)
(* restoreDisplay trusts displayPowerOff alone, so if it were ever FALSE   *)
(* with the phone dark no later stop would light it again.                 *)
HostTracksPhone == displayPowerOff = phoneDark

(* With no screen session running or being ended, the phone is dark only   *)
(* if the last attempt to restore it had no route left or its write failed *)
(* on the wire: every way out of a session (stop, failure of the worker,   *)
(* replacement by a newer session) restores the display through the route  *)
(* that session had, before that route is closed.                          *)
DarkOnlyAfterFailedRestore ==
  phoneDark => screenActive \/ ending.busy \/ restoreFailed

(* Input can only reach the phone through the route of the session that is *)
(* running, or of the one EndScreenSession is closing: every other route   *)
(* is closed, so a WriteControl that read its route earlier is refused.    *)
OpenRouteIsCurrent ==
  \A r \in Routes : routes[r] = "open" =>
    \/ screenActive /\ r = controlRoute
    \/ ending.busy /\ r = ending.route

(* A message that was read before its session ended or was replaced is     *)
(* never written afterwards: "stale sessions cannot forward input"         *)
(* (CHANGELOG.md:40).                                                      *)
StaleInputRefused ==
  [][lastInput' # lastInput =>
       lastInput' \in {controlRoute, ending.route}]_hubVars

(* Whichever of the video header and the control route arrives last, the   *)
(* display is turned off as soon as both are there, unless the write fails.*)
OffOnceBothReady ==
  screenActive /\ screenHeaderReady /\ controlRoute # NoRoute
    => controlRoute \in offSent \cup offFailed

(* A viewer that joins late is replayed only frames that were sent in the  *)
(* current generation and after its last header, and only while a session  *)
(* runs: no decoder is set up with the data of another session or size.    *)
ReplayIsCurrent ==
  LET current == \A f \in {replay.configs[i] : i \in DOMAIN replay.configs}
                     \cup {replay.key[i] : i \in DOMAIN replay.key} :
                   f = Stamp
  IN current /\ (~screenActive => replay = EmptyReplay)
             /\ (screenActive => replay.session = headers)

(* The phone's display, the route for input and the replay cache always    *)
(* belong to one and the same session: what the lifecycle of a session in  *)
(* hub.go is there for.                                                    *)
SessionOwnsTheHub ==
  /\ HubTypeOK /\ HostTracksPhone /\ DarkOnlyAfterFailedRestore
  /\ OpenRouteIsCurrent /\ OffOnceBothReady /\ ReplayIsCurrent

(* The phone is darkened only while a session has both its header and its  *)
(* route: "the host turns the phone display off only after the active      *)
(* video session and control route are ready" (CHANGELOG.md:39).           *)
DarkensOnlyWhenReady ==
  [][~phoneDark /\ phoneDark' =>
       screenActive' /\ screenHeaderReady' /\ controlRoute' \in offSent']_hubVars
=============================================================================
