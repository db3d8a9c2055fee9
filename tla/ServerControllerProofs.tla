----------------------- MODULE ServerControllerProofs -----------------------
(***************************************************************************)
(* The screen hub, for every set of routes and viewers and every bound,    *)
(* and the controller that uses it, for any number of overlapping Connect, *)
(* Disconnect and ToggleStream calls, and whatever fails.                  *)
(*                                                                         *)
(* HubInv: which fields of the hub move together, and what the history of  *)
(* a route tells about the phone.                                          *)
(*                                                                         *)
(* PInv: a stream of a connection never has two workers, and every worker  *)
(* of the current connection can be joined.  SInv adds what slots and      *)
(* sockets hold, from which no overtaken call changes anything.  CInv adds *)
(* the sessions; it says of a Connection that an overlapping Connect has   *)
(* overwritten (controller.go:96, and the README) what is left of it.      *)
(***************************************************************************)
EXTENDS ServerController, TLAPS

-----------------------------------------------------------------------------
(* The screen hub.                                                         *)

USE HubAssumption DEF HubAssumption

(* Type correctness.                                                       *)

(* Keeping the last n elements of a sequence that gets one more.           *)
LEMMA KeepType ==
  ASSUME NEW S, NEW s \in Seq(S), NEW x \in S, NEW n \in Nat \ {0},
         Len(s) <= n
  PROVE  Keep(s, x, n) \in Seq(S) /\ Len(Keep(s, x, n)) <= n
<1>1. CASE Len(s) < n
  BY <1>1 DEF Keep
<1>2. CASE ~(Len(s) < n)
  <2>1. s # << >> /\ Len(s) = n
    BY <1>2
  <2>2. Tail(s) \in Seq(S) /\ Len(Tail(s)) = n - 1
    BY <2>1
  <2>3. Append(Tail(s), x) \in Seq(S) /\ Len(Append(Tail(s), x)) = n
    BY <2>2
  <2> QED BY <1>2, <2>3 DEF Keep
<1> QED BY <1>1, <1>2

(* The cache of a session that has shown nothing yet.                      *)
LEMMA EmptyReplayType ==
  ASSUME NEW n \in 0 .. MaxHeaders
  PROVE  [EmptyReplay EXCEPT !.session = n] \in ReplayType
<1>1. << >> \in Seq(Stamps) /\ Len(<< >>) = 0
  OBVIOUS
<1>2. ASSUME NEW q \in Seq(Stamps), Len(q) = 0
      PROVE  [session |-> n, configs |-> q, key |-> q] \in ReplayType
  BY <1>2 DEF ReplayType
<1>3. [EmptyReplay EXCEPT !.session = n]
        = [session |-> n, configs |-> << >>, key |-> << >>]
  BY DEF EmptyReplay
<1> QED BY <1>1, <1>2, <1>3

LEMMA EmptyReplayTyped == EmptyReplay \in ReplayType
<1>1. EmptyReplay = [EmptyReplay EXCEPT !.session = 0]
  BY DEF EmptyReplay
<1> QED BY <1>1, EmptyReplayType

LEMMA TypeInit == HubInit => HubTypeOK
<1> SUFFICES ASSUME HubInit PROVE HubTypeOK
  OBVIOUS
<1>1. replay \in ReplayType
  BY EmptyReplayTyped DEF HubInit
<1>2. headers \in 0 .. MaxHeaders /\ screenGeneration \in 0 .. MaxGeneration
  BY DEF HubInit
<1> QED BY <1>1, <1>2 DEF HubInit, HubTypeOK, Idle

LEMMA TypeNext == HubTypeOK /\ [HubNext]_hubVars => HubTypeOK'
<1> SUFFICES ASSUME HubTypeOK, [HubNext]_hubVars PROVE HubTypeOK'
  OBVIOUS
<1>1. ASSUME NEW ok \in BOOLEAN, BeginScreenSession(ok) PROVE HubTypeOK'
  <2>1. replay' \in ReplayType
    BY <1>1, EmptyReplayTyped DEF BeginScreenSession, ReplayType, Stamps
  <2>2. headers' \in 0 .. MaxHeaders /\ screenGeneration' \in 0 .. MaxGeneration
    BY <1>1 DEF HubTypeOK, BeginScreenSession
  <2>3. routes' \in [Routes -> {"fresh", "open", "closed"}]
    BY <1>1 DEF HubTypeOK, BeginScreenSession, Closed
  <2>4. displayPowerOff' \in BOOLEAN /\ phoneDark' \in BOOLEAN
        /\ restoreFailed' \in BOOLEAN
    BY <1>1
    DEF HubTypeOK, BeginScreenSession, RestoreDisplay, Restored, displayVars
  <2> QED
    BY <1>1, <2>1, <2>2, <2>3, <2>4 DEF HubTypeOK, BeginScreenSession, inputVars
<1>2. ASSUME NEW ok \in BOOLEAN, EndScreenSessionRestore(ok) PROVE HubTypeOK'
  BY <1>2 DEF HubTypeOK, EndScreenSessionRestore, RestoreDisplay, Restored,
              Closed, Idle, displayVars, inputVars, sessionVars
<1>3. ASSUME NEW g \in Generations, NEW ok \in BOOLEAN, SetScreenSession(g, ok)
      PROVE  HubTypeOK'
  <2>1. headers + 1 \in 0 .. MaxHeaders
    BY <1>3 DEF HubTypeOK, SetScreenSession
  <2> QED
    BY <1>3, <2>1, EmptyReplayType
    DEF HubTypeOK, SetScreenSession, SendDisplayOff, OffSucceeds,
        NoDisplayWrite, OffWanted, displayVars, inputVars
<1>4. ASSUME NEW g \in Generations, EndScreenSessionDetach(g) PROVE HubTypeOK'
  BY <1>4, EmptyReplayTyped
  DEF HubTypeOK, EndScreenSessionDetach, DetachSession, displayVars, inputVars
<1>5. ASSUME NEW g \in Generations, StaleCall(g) PROVE HubTypeOK'
  BY <1>5 DEF HubTypeOK, StaleCall, hubVars, sessionVars, displayVars,
              routeVars, inputVars, Stamps
<1>6. ASSUME NEW g \in Generations, NEW r \in Routes, NEW ok \in BOOLEAN,
             RegisterControlRoute(g, r, ok)
      PROVE  HubTypeOK'
  BY <1>6 DEF HubTypeOK, RegisterControlRoute, NoDisplayWrite, OffWanted, Closed,
              sessionVars, displayVars, inputVars
<1>7. ASSUME NEW r \in Routes, ClearControlRoute(r) PROVE HubTypeOK'
  BY <1>7 DEF HubTypeOK, ClearControlRoute, Closed, sessionVars, displayVars,
              inputVars
<1>8. ASSUME NEW v \in Viewers, ReadRoute(v) PROVE HubTypeOK'
  BY <1>8 DEF HubTypeOK, ReadRoute, sessionVars, displayVars, routeVars
<1>9. ASSUME NEW v \in Viewers, WriteInput(v) PROVE HubTypeOK'
  BY <1>9 DEF HubTypeOK, WriteInput, sessionVars, displayVars, routeVars
<1>10. ASSUME NEW g \in Generations, NEW config \in BOOLEAN,
              NEW key \in BOOLEAN, NEW small \in BOOLEAN,
              BroadcastScreenFrame(g, config, key, small)
       PROVE  HubTypeOK'
  <2>1. Stamp \in Stamps
    BY DEF HubTypeOK, Stamp, Stamps
  <2>2. /\ Keep(replay.configs, Stamp, MaxReplayConfigs) \in Seq(Stamps)
        /\ Len(Keep(replay.configs, Stamp, MaxReplayConfigs))
             <= MaxReplayConfigs
    BY <2>1, KeepType DEF HubTypeOK, ReplayType
  <2>3. <<Stamp>> \in Seq(Stamps) /\ Len(<<Stamp>>) <= 1
    BY <2>1
  <2>4. replay' \in ReplayType
    BY <1>10, <2>2, <2>3 DEF HubTypeOK, BroadcastScreenFrame, ReplayType, Cache, Stamp, IsCurrent
  <2> QED
    BY <1>10, <2>4
    DEF HubTypeOK, BroadcastScreenFrame, sessionVars, displayVars, routeVars,
        inputVars
<1>11. CASE UNCHANGED hubVars
  BY <1>11 DEF HubTypeOK, hubVars, sessionVars, displayVars, routeVars,
               inputVars
<1> QED
  BY <1>1, <1>2, <1>3, <1>4, <1>5, <1>6, <1>7, <1>8, <1>9, <1>10, <1>11
  DEF HubNext

(* Every variable of the hub keeps its type, and the replay cache never    *)
(* grows past its limits (hub.go:186-187).                                 *)
THEOREM HubTypeCorrect == HubSpec => []HubTypeOK
BY TypeInit, TypeNext, PTL DEF HubSpec

-----------------------------------------------------------------------------
(* The inductive invariant.  The five checked invariants are not inductive *)
(* together: what is missing is which of the hub's fields move together    *)
(* (SessionFields) and what the history of a route says about the phone    *)
(* (RouteHistory).                                                         *)

SessionFields ==
  /\ displayOffDesired = screenActive
  /\ ~screenActive => controlRoute = NoRoute
  /\ controlRoute # NoRoute => routes[controlRoute] = "open"
  /\ ending.busy => ~screenActive
  /\ ending.busy /\ ending.route # NoRoute => routes[ending.route] = "open"

RouteHistory ==
  /\ \A r \in offSent \cup offFailed : routes[r] # "fresh"
  /\ controlRoute \in offSent => phoneDark

DisplayInv ==
  /\ HostTracksPhone
  /\ DarkOnlyAfterFailedRestore
  /\ OpenRouteIsCurrent
  /\ OffOnceBothReady
  /\ SessionFields
  /\ RouteHistory

HubInv == HubTypeOK /\ DisplayInv /\ ReplayIsCurrent

LEMMA InvInit == HubInit => HubInv
<1> SUFFICES ASSUME HubInit PROVE HubInv
  OBVIOUS
<1>1. HubTypeOK
  BY TypeInit
<1>2. DisplayInv
  BY DEF HubInit, DisplayInv, HostTracksPhone, DarkOnlyAfterFailedRestore,
         OpenRouteIsCurrent, OffOnceBothReady, SessionFields, RouteHistory, Idle
<1>3. ReplayIsCurrent
  BY DEF HubInit, ReplayIsCurrent, EmptyReplay
<1> QED BY <1>1, <1>2, <1>3 DEF HubInv

(* The display and the route: each operation preserves DisplayInv.         *)
LEMMA DisplayNext ==
  HubTypeOK /\ DisplayInv /\ [HubNext]_hubVars => DisplayInv'
<1> SUFFICES ASSUME HubTypeOK, DisplayInv, [HubNext]_hubVars PROVE DisplayInv'
  OBVIOUS
<1> USE DEF DisplayInv, HostTracksPhone, DarkOnlyAfterFailedRestore,
            OpenRouteIsCurrent, OffOnceBothReady, SessionFields, RouteHistory,
            HubTypeOK
<1>1. ASSUME NEW ok \in BOOLEAN, BeginScreenSession(ok) PROVE DisplayInv'
  <2>1. HostTracksPhone' /\ DarkOnlyAfterFailedRestore'
    BY <1>1 DEF BeginScreenSession, RestoreDisplay, Restored, displayVars
  <2>2. \A r \in Routes : routes'[r] # "open"
    BY <1>1 DEF BeginScreenSession, Closed, DisplayFree
  <2>3. \A r \in Routes : routes[r] # "fresh" => routes'[r] # "fresh"
    BY <1>1 DEF BeginScreenSession, Closed
  <2>4. NoRoute \notin offSent'
    BY <1>1 DEF BeginScreenSession
  <2> QED BY <1>1, <2>1, <2>2, <2>3, <2>4 DEF BeginScreenSession, DisplayFree
<1>2. ASSUME NEW ok \in BOOLEAN, EndScreenSessionRestore(ok) PROVE DisplayInv'
  <2>1. HostTracksPhone' /\ DarkOnlyAfterFailedRestore'
    BY <1>2 DEF EndScreenSessionRestore, RestoreDisplay, Restored, displayVars,
                sessionVars
  <2>2. \A r \in Routes : routes'[r] # "open"
    BY <1>2 DEF EndScreenSessionRestore, Closed, sessionVars
  <2>3. \A r \in Routes : routes[r] # "fresh" => routes'[r] # "fresh"
    BY <1>2 DEF EndScreenSessionRestore, Closed
  <2> QED
    BY <1>2, <2>1, <2>2, <2>3 DEF EndScreenSessionRestore, Idle, sessionVars
<1>3. ASSUME NEW g \in Generations, NEW ok \in BOOLEAN, SetScreenSession(g, ok)
      PROVE  DisplayInv'
  BY <1>3 DEF SetScreenSession, IsCurrent, SendDisplayOff, OffSucceeds,
              NoDisplayWrite, OffWanted, displayVars
<1>4. ASSUME NEW g \in Generations, EndScreenSessionDetach(g) PROVE DisplayInv'
  BY <1>4 DEF EndScreenSessionDetach, DetachSession, IsCurrent, displayVars
<1>5. ASSUME NEW g \in Generations, StaleCall(g) PROVE DisplayInv'
  BY <1>5 DEF StaleCall, hubVars, sessionVars, displayVars, routeVars
<1>6. ASSUME NEW g \in Generations, NEW r \in Routes, NEW ok \in BOOLEAN,
             RegisterControlRoute(g, r, ok)
      PROVE  DisplayInv'
  <2>1. \A q \in Routes : routes'[q] = "open" <=> q = r
    BY <1>6 DEF RegisterControlRoute, Closed, DisplayFree
  <2>2. \A q \in Routes : q # r /\ routes[q] # "fresh" => routes'[q] # "fresh"
    BY <1>6 DEF RegisterControlRoute, Closed
  <2>3. HostTracksPhone' /\ DarkOnlyAfterFailedRestore'
    BY <1>6 DEF RegisterControlRoute, NoDisplayWrite, OffWanted, displayVars, IsCurrent,
                sessionVars
  <2>4. OffOnceBothReady' /\ RouteHistory'
    BY <1>6, <2>1, <2>2
    DEF RegisterControlRoute, NoDisplayWrite, OffWanted, displayVars, sessionVars
  <2> QED
    BY <1>6, <2>1, <2>2, <2>3, <2>4
    DEF RegisterControlRoute, IsCurrent, DisplayFree, sessionVars
<1>7. ASSUME NEW r \in Routes, ClearControlRoute(r) PROVE DisplayInv'
  BY <1>7 DEF ClearControlRoute, Closed, sessionVars, displayVars
<1>8. ASSUME NEW v \in Viewers, ReadRoute(v) PROVE DisplayInv'
  BY <1>8 DEF ReadRoute, sessionVars, displayVars, routeVars
<1>9. ASSUME NEW v \in Viewers, WriteInput(v) PROVE DisplayInv'
  BY <1>9 DEF WriteInput, sessionVars, displayVars, routeVars
<1>10. ASSUME NEW g \in Generations, NEW config \in BOOLEAN,
              NEW key \in BOOLEAN, NEW small \in BOOLEAN,
              BroadcastScreenFrame(g, config, key, small)
       PROVE  DisplayInv'
  BY <1>10 DEF BroadcastScreenFrame, sessionVars, displayVars, routeVars
<1>11. CASE UNCHANGED hubVars
  BY <1>11 DEF hubVars, sessionVars, displayVars, routeVars
<1> QED
  BY <1>1, <1>2, <1>3, <1>4, <1>5, <1>6, <1>7, <1>8, <1>9, <1>10, <1>11
  DEF HubNext

(* The frames of a replay cache, and what the last n of them plus one are. *)
Elements(s) == {s[i] : i \in DOMAIN s}

LEMMA KeepElements ==
  ASSUME NEW S, NEW s \in Seq(S), NEW x \in S, NEW n \in Nat \ {0},
         Len(s) <= n
  PROVE  Elements(Keep(s, x, n)) \subseteq Elements(s) \cup {x}
<1> SUFFICES ASSUME NEW i \in DOMAIN Keep(s, x, n)
             PROVE  Keep(s, x, n)[i] \in Elements(s) \cup {x}
  BY DEF Elements
<1>1. CASE Len(s) < n
  BY <1>1 DEF Keep, Elements
<1>2. CASE ~(Len(s) < n)
  <2>1. s # << >> /\ Len(s) = n
    BY <1>2
  <2>2. Tail(s) \in Seq(S) /\ Len(Tail(s)) = n - 1
    BY <2>1
  <2>3. \A j \in 1 .. n - 1 : Tail(s)[j] = s[j + 1]
    BY <2>1
  <2>4. i \in 1 .. n
    BY <1>2, <2>2 DEF Keep
  <2>5. CASE i = n
    BY <1>2, <2>2, <2>5 DEF Keep
  <2>6. CASE i # n
    <3>1. Keep(s, x, n)[i] = s[i + 1]
      BY <1>2, <2>2, <2>3, <2>4, <2>6 DEF Keep
    <3>2. i + 1 \in DOMAIN s
      BY <2>1, <2>4, <2>6
    <3> QED BY <3>1, <3>2 DEF Elements
  <2> QED BY <2>5, <2>6
<1> QED BY <1>1, <1>2

(* The same invariant with the two caches named. *)
LEMMA ReplayElements ==
  ReplayIsCurrent <=>
    /\ \A f \in Elements(replay.configs) \cup Elements(replay.key) : f = Stamp
    /\ ~screenActive => replay = EmptyReplay
    /\ screenActive => replay.session = headers
BY DEF ReplayIsCurrent, Elements

(* The replay cache: only the current session and header are in it.        *)
LEMMA ReplayNext ==
  HubTypeOK /\ ReplayIsCurrent /\ [HubNext]_hubVars => ReplayIsCurrent'
<1> SUFFICES ASSUME HubTypeOK, ReplayIsCurrent, [HubNext]_hubVars
             PROVE  ReplayIsCurrent'
  OBVIOUS
<1> DEFINE Unmoved == UNCHANGED <<sessionVars, replay>>
<1>1. ASSUME NEW ok \in BOOLEAN, BeginScreenSession(ok) PROVE ReplayIsCurrent'
  BY <1>1 DEF BeginScreenSession, ReplayIsCurrent, EmptyReplay
<1>2. ASSUME NEW g \in Generations, NEW ok \in BOOLEAN, SetScreenSession(g, ok)
      PROVE  ReplayIsCurrent'
  <2>1. replay'.session = headers' /\ replay'.configs = << >>
        /\ replay'.key = << >> /\ screenActive'
    BY <1>2 DEF SetScreenSession, IsCurrent, EmptyReplay
  <2> QED BY <2>1 DEF ReplayIsCurrent
<1>3. ASSUME NEW g \in Generations, EndScreenSessionDetach(g)
      PROVE  ReplayIsCurrent'
  BY <1>3 DEF EndScreenSessionDetach, DetachSession, ReplayIsCurrent,
              EmptyReplay
<1>4. ASSUME NEW g \in Generations, NEW config \in BOOLEAN,
             NEW key \in BOOLEAN, NEW small \in BOOLEAN,
             BroadcastScreenFrame(g, config, key, small)
      PROVE  ReplayIsCurrent'
  <2>1. Stamp \in Stamps
    BY DEF HubTypeOK, Stamp, Stamps
  <2>2. replay.configs \in Seq(Stamps) /\ Len(replay.configs) <= MaxReplayConfigs
    BY DEF HubTypeOK, ReplayType
  <2>3. Elements(Keep(replay.configs, Stamp, MaxReplayConfigs))
          \subseteq Elements(replay.configs) \cup {Stamp}
    BY <2>1, <2>2, KeepElements
  <2>4. Elements(<<Stamp>>) = {Stamp}
    BY DEF Elements
  <2>5. /\ replay'.configs \in {replay.configs,
                                Keep(replay.configs, Stamp, MaxReplayConfigs)}
        /\ replay'.key \in {replay.key, <<Stamp>>}
        /\ replay'.session = replay.session
    BY <1>4 DEF BroadcastScreenFrame, HubTypeOK, ReplayType, Cache, Stamp,
                IsCurrent
  <2>6. Stamp' = Stamp /\ screenActive /\ screenActive' /\ headers' = headers
    BY <1>4 DEF BroadcastScreenFrame, IsCurrent, sessionVars, Stamp
  <2>7. /\ \A f \in Elements(replay.configs) \cup Elements(replay.key) : f = Stamp
        /\ replay.session = headers
    BY <2>6, ReplayElements
  <2>8. \A f \in Elements(replay'.configs) \cup Elements(replay'.key) : f = Stamp
    BY <2>3, <2>4, <2>5, <2>7
  <2> QED BY <2>5, <2>6, <2>7, <2>8 DEF ReplayIsCurrent, Elements
<1>5. CASE Unmoved
  BY <1>5 DEF ReplayIsCurrent, Stamp, sessionVars, EmptyReplay
<1>6. CASE ~Unmoved
  <2>1. ASSUME NEW ok \in BOOLEAN, EndScreenSessionRestore(ok) PROVE Unmoved
    BY <2>1 DEF EndScreenSessionRestore
  <2>2. ASSUME NEW g \in Generations, StaleCall(g) PROVE Unmoved
    BY <2>2 DEF StaleCall, hubVars
  <2>3. ASSUME NEW g \in Generations, NEW r \in Routes, NEW ok \in BOOLEAN,
               RegisterControlRoute(g, r, ok)
        PROVE  Unmoved
    BY <2>3 DEF RegisterControlRoute
  <2>4. ASSUME NEW r \in Routes, ClearControlRoute(r) PROVE Unmoved
    BY <2>4 DEF ClearControlRoute
  <2>5. ASSUME NEW v \in Viewers, ReadRoute(v) \/ WriteInput(v) PROVE Unmoved
    BY <2>5 DEF ReadRoute, WriteInput
  <2>6. ASSUME UNCHANGED hubVars PROVE Unmoved
    BY <2>6 DEF hubVars
  <2> HIDE DEF Unmoved
  <2> QED
    BY <1>1, <1>2, <1>3, <1>4, <1>6, <2>1, <2>2, <2>3, <2>4, <2>5, <2>6
    DEF HubNext
<1> QED BY <1>5, <1>6

THEOREM HubInvariant == HubSpec => []HubInv
<1>1. HubInv /\ [HubNext]_hubVars => HubInv'
  BY TypeNext, DisplayNext, ReplayNext DEF HubInv
<1> QED BY InvInit, <1>1, PTL DEF HubSpec

-----------------------------------------------------------------------------
(* The checked properties, for every instance.                             *)

(* The host never believes the display is on while the phone is dark.      *)
THEOREM HubHostTracksPhone == HubSpec => []HostTracksPhone
<1>1. HubInv => HostTracksPhone
  BY DEF HubInv, DisplayInv
<1> QED BY <1>1, HubInvariant, PTL

(* No sequence of sessions, routes and failed writes leaves the phone dark *)
(* after its session unless a display ON write failed.                     *)
THEOREM HubDarkOnlyAfterFailedRestore == HubSpec => []DarkOnlyAfterFailedRestore
<1>1. HubInv => DarkOnlyAfterFailedRestore
  BY DEF HubInv, DisplayInv
<1> QED BY <1>1, HubInvariant, PTL

(* At most the current route, or the one being closed, accepts writes.     *)
THEOREM HubOpenRouteIsCurrent == HubSpec => []OpenRouteIsCurrent
<1>1. HubInv => OpenRouteIsCurrent
  BY DEF HubInv, DisplayInv
<1> QED BY <1>1, HubInvariant, PTL

(* Header and route in either order: the display is turned off once.       *)
THEOREM HubOffOnceBothReady == HubSpec => []OffOnceBothReady
<1>1. HubInv => OffOnceBothReady
  BY DEF HubInv, DisplayInv
<1> QED BY <1>1, HubInvariant, PTL

(* A late viewer is never replayed frames of another session or size.      *)
THEOREM HubReplayIsCurrent == HubSpec => []ReplayIsCurrent
<1>1. HubInv => ReplayIsCurrent
  BY DEF HubInv
<1> QED BY <1>1, HubInvariant, PTL

(* Display, route and replay belong to one session, for any number of them.*)
THEOREM HubBelongsToItsSession == HubSpec => []SessionOwnsTheHub
<1>1. HubInv => SessionOwnsTheHub
  BY DEF HubInv, DisplayInv, SessionOwnsTheHub
<1> QED BY <1>1, HubInvariant, PTL

(* Input that waited while its session ended or was replaced is refused.   *)
THEOREM HubStaleInputRefused == HubSpec => StaleInputRefused
<1> DEFINE NeverStale == lastInput' # lastInput =>
                           lastInput' \in {controlRoute, ending.route}
<1>1. HubInv /\ [HubNext]_hubVars => [NeverStale]_hubVars
  <2> SUFFICES ASSUME HubInv, [HubNext]_hubVars, lastInput' # lastInput
               PROVE  lastInput' \in {controlRoute, ending.route}
    OBVIOUS
  <2>1. PICK v \in Viewers : WriteInput(v)
    BY DEF HubNext, hubVars, inputVars, BeginScreenSession,
           EndScreenSessionRestore, SetScreenSession, EndScreenSessionDetach,
           DetachSession, StaleCall, RegisterControlRoute, ClearControlRoute,
           ReadRoute, BroadcastScreenFrame
  <2>2. lastInput' = input[v] /\ routes[input[v]] = "open" /\ input[v] \in Routes
    BY <2>1 DEF WriteInput, HubInv, HubTypeOK
  <2> QED BY <2>2 DEF HubInv, DisplayInv, OpenRouteIsCurrent
<1> QED BY <1>1, HubInvariant, PTL DEF HubSpec, StaleInputRefused

(* The phone is never darkened before the header and the route are there.  *)
THEOREM HubDarkensOnlyWhenReady == HubSpec => DarkensOnlyWhenReady
<1> DEFINE Ready == ~phoneDark /\ phoneDark' =>
                      /\ screenActive' /\ screenHeaderReady'
                      /\ controlRoute' \in offSent'
<1>1. HubInv /\ [HubNext]_hubVars => [Ready]_hubVars
  <2> SUFFICES ASSUME HubInv, [HubNext]_hubVars, ~phoneDark, phoneDark'
               PROVE  /\ screenActive' /\ screenHeaderReady'
                      /\ controlRoute' \in offSent'
    OBVIOUS
  <2>1. ASSUME NEW g \in Generations, NEW ok \in BOOLEAN, SetScreenSession(g, ok)
        PROVE  screenActive' /\ screenHeaderReady' /\ controlRoute' \in offSent'
    BY <2>1 DEF SetScreenSession, SendDisplayOff, OffSucceeds, NoDisplayWrite,
                displayVars, IsCurrent
  <2>2. ASSUME NEW g \in Generations, NEW r \in Routes, NEW ok \in BOOLEAN,
               RegisterControlRoute(g, r, ok)
        PROVE  screenActive' /\ screenHeaderReady' /\ controlRoute' \in offSent'
    BY <2>2 DEF RegisterControlRoute, NoDisplayWrite, OffWanted, displayVars, sessionVars,
                IsCurrent
  <2>3. ASSUME NEW ok \in BOOLEAN,
               BeginScreenSession(ok) \/ EndScreenSessionRestore(ok)
        PROVE  FALSE
    BY <2>3 DEF BeginScreenSession, EndScreenSessionRestore, RestoreDisplay,
                displayVars
  <2> QED
    BY <2>1, <2>2, <2>3
    DEF HubNext, EndScreenSessionDetach, StaleCall, ClearControlRoute,
        ReadRoute, WriteInput, BroadcastScreenFrame, hubVars, displayVars
<1> QED BY <1>1, HubInvariant, PTL DEF HubSpec, DarkensOnlyWhenReady

HIDE HubAssumption DEF HubAssumption

-----------------------------------------------------------------------------
(* The controller.                                                         *)

CallType == [op : {"none", "connect", "disconnect", "on", "off"}, str : Streams,
             pc : Pcs, gen : Nat, conn : Calls \cup {None}, wait : SUBSET Calls]

StreamType == [active : BOOLEAN, running : BOOLEAN, gen : Nat,
               cancel : Calls \cup {None}, done : Calls \cup {None}]

TypeInv ==
  /\ conn \in Calls \cup {None} /\ connectGen \in Nat
  /\ stream \in [Streams -> StreamType]
  /\ call \in [Calls -> CallType]
  /\ worker = [c \in Calls |-> worker[c]]
  /\ \A c \in Calls :
       /\ worker[c].str \in Streams
       /\ worker[c] = [phase |-> worker[c].phase, str |-> worker[c].str,
                       gen |-> worker[c].gen, conn |-> worker[c].conn,
                       sock |-> worker[c].sock, hubGen |-> worker[c].hubGen]

(* The Connect call that made a Connection has reached its installation. *)
Installed(k) ==
  k \in Calls /\ call[k].op = "connect" /\ Pc(k) \in {"announce", "returned"}

(* A worker, and the controller, use installed Connections only; each is new
   when it is installed. *)
ConnsAreInstalled ==
  /\ connected => conn # None
  /\ conn # None => Installed(conn)
  /\ \A c \in Calls : Alive(c) => Installed(worker[c].conn)

(* A call that may still change the stream's worker, if nobody has taken a newer
   generation of the stream. *)
Joining(c) == Pc(c) \in {"restart", "stop"}
Starting(c) == call[c].op = "on" /\ Pc(c) \in {"dial", "dialed"}
Owns(c) == Joining(c) \/ Starting(c)

(* Two calls never have the same generation of a stream. *)
GenerationsDiffer ==
  /\ \A c \in Calls : Owns(c) => call[c].gen <= stream[call[c].str].gen
  /\ \A c, d \in Calls :
       Owns(c) /\ Owns(d) /\ c # d /\ call[c].str = call[d].str =>
         call[c].gen # call[d].gen

(* Who owns the stream's generation waits for its worker, or has done so. *)
OwnersWait ==
  \A c \in Calls :
    call[c].gen = stream[call[c].str].gen =>
      /\ Joining(c) => stream[call[c].str].done \in call[c].wait \cup {None}
      /\ Starting(c) => stream[call[c].str].done = None

PInv ==
  TypeInv /\ ConnsAreInstalled /\ GenerationsDiffer /\ OwnersWait
    /\ OneWorkerPerStream /\ WorkerIsJoinable

-----------------------------------------------------------------------------
(* Steps that change neither generations nor workers.                      *)

(* Nothing that a step of a worker or of a reconnect does to the controller. *)
StreamsKept ==
  /\ stream' \in [Streams -> StreamType]
  /\ \A s \in Streams : stream'[s].gen = stream[s].gen /\ stream'[s].done = stream[s].done

WorkersKept ==
  /\ worker' = [c \in Calls |-> worker'[c]]
  /\ \A c \in Calls :
       /\ worker'[c].str = worker[c].str /\ worker'[c].conn = worker[c].conn
       /\ worker'[c] = [phase |-> worker'[c].phase, str |-> worker'[c].str,
                        gen |-> worker'[c].gen, conn |-> worker'[c].conn,
                        sock |-> worker'[c].sock, hubGen |-> worker'[c].hubGen]
       /\ Alive(c)' => Alive(c)

(* Call c goes on without taking a generation, or returns. *)
Proceeds(c) ==
  /\ call' \in [Calls -> CallType]
  /\ \A d \in Calls \ {c} : call'[d] = call[d]
  /\ Installed(c) => Installed(c)'
  /\ Owns(c)' => /\ call'[c].gen = call[c].gen /\ call'[c].str = call[c].str
                 /\ call'[c].wait = call[c].wait
  /\ Joining(c)' => Joining(c)
  /\ Starting(c)' => Starting(c)

(* None is no call, and Connect starts the speaker. *)
LEMMA Basics == None \notin Calls /\ "speaker" \in Streams /\ "screen" \in Streams
BY DEF None, Calls, Streams

(* A step that keeps the streams and the workers, and in which at most one call
   proceeds, preserves the invariant. *)
LEMMA KeptIsSafe ==
  ASSUME PInv, StreamsKept, WorkersKept, UNCHANGED <<connected, conn>>,
         connectGen' \in Nat, NEW c \in Calls, Proceeds(c)
  PROVE  PInv'
<1>1. TypeInv'
  BY DEF PInv, TypeInv, StreamsKept, WorkersKept, Proceeds
<1>2. \A k \in Calls : Installed(k) => Installed(k)'
  BY DEF Proceeds, Installed, Pc
<1>3. ConnsAreInstalled'
  <2>1. conn' # None => Installed(conn)'
    BY <1>2 DEF PInv, ConnsAreInstalled, TypeInv
  <2>2. ASSUME NEW d \in Calls, Alive(d)'
        PROVE  Installed(worker[d].conn)'
    <3>1. Installed(worker[d].conn) /\ worker'[d].conn = worker[d].conn
      BY <2>2 DEF PInv, ConnsAreInstalled, WorkersKept
    <3>2. worker[d].conn \in Calls
      BY <3>1 DEF Installed
    <3> QED BY <1>2, <3>1, <3>2
  <2>3. \A d \in Calls : Alive(d)' => Installed(worker[d].conn)' /\ worker'[d].conn = worker[d].conn
    BY <2>2 DEF WorkersKept
  <2> QED BY <2>1, <2>3 DEF PInv, ConnsAreInstalled, Installed
<1>4. \A d \in Calls :
        /\ Joining(d)' => Joining(d)
        /\ Starting(d)' => Starting(d)
        /\ Owns(d)' => /\ Owns(d) /\ call'[d].gen = call[d].gen
                       /\ call'[d].str = call[d].str /\ call'[d].wait = call[d].wait
  BY DEF Proceeds, Joining, Starting, Owns, Pc
<1>5. \A d \in Calls : call[d].str \in Streams
  BY DEF PInv, TypeInv, CallType
<1>6. GenerationsDiffer'
  BY <1>4, <1>5 DEF PInv, GenerationsDiffer, StreamsKept
<1>7. OwnersWait'
  BY <1>4, <1>5 DEF PInv, OwnersWait, StreamsKept, Owns
<1>8. OneWorkerPerStream'
  BY DEF PInv, OneWorkerPerStream, WorkersKept
<1>9. WorkerIsJoinable'
  BY DEF PInv, WorkerIsJoinable, WorkersKept, StreamsKept, TypeInv
<1> QED BY <1>1, <1>3, <1>6, <1>7, <1>8, <1>9 DEF PInv

(* What does not change is kept. *)
LEMMA UnchangedIsKept ==
  ASSUME TypeInv
  PROVE  /\ UNCHANGED stream => StreamsKept
         /\ UNCHANGED worker => WorkersKept
         /\ UNCHANGED call => \A c \in Calls : Proceeds(c)
BY DEF TypeInv, StreamsKept, WorkersKept, Alive, Phase, Proceeds, Installed, Owns,
       Joining, Starting, Pc

(* A stream that is no longer active keeps its generation and its worker. *)
LEMMA EndingKeepsStreams ==
  ASSUME TypeInv, NEW s \in Streams, NEW cancel \in Calls \cup {None},
         \/ stream' = [stream EXCEPT ![s] =
                        [@ EXCEPT !.running = FALSE, !.active = FALSE]]
         \/ stream' = [stream EXCEPT ![s] =
                        [@ EXCEPT !.active = FALSE, !.running = FALSE,
                                  !.cancel = cancel]]
  PROVE  StreamsKept
<1>1. stream[s] \in StreamType
  BY DEF TypeInv
<1>2. \A t \in Streams \ {s} : stream'[t] = stream[t]
  BY DEF TypeInv
<1>3. /\ stream'[s] \in StreamType
      /\ stream'[s].gen = stream[s].gen /\ stream'[s].done = stream[s].done
  <2>1. CASE stream' = [stream EXCEPT ![s] =
                         [@ EXCEPT !.running = FALSE, !.active = FALSE]]
    <3>1. stream'[s] = [stream[s] EXCEPT !.running = FALSE, !.active = FALSE]
      BY <2>1 DEF TypeInv
    <3> QED BY <1>1, <3>1 DEF StreamType
  <2>2. CASE stream' = [stream EXCEPT ![s] =
                         [@ EXCEPT !.active = FALSE, !.running = FALSE,
                                   !.cancel = cancel]]
    <3>1. stream'[s] = [stream[s] EXCEPT !.active = FALSE, !.running = FALSE,
                                         !.cancel = cancel]
      BY <2>2 DEF TypeInv
    <3> QED BY <1>1, <3>1 DEF StreamType
  <2> QED BY <2>1, <2>2
<1>4. stream' = [t \in Streams |-> stream'[t]]
  BY DEF TypeInv
<1>5. \A t \in Streams : stream'[t] \in StreamType
  BY <1>2, <1>3 DEF TypeInv
<1> QED BY <1>2, <1>3, <1>4, <1>5 DEF StreamsKept

(* A worker goes on. *)
LEMMA StepKeepsWorkers ==
  ASSUME TypeInv, NEW c \in Calls, NEW from, NEW to, Step(c, from, to),
         from \notin {"none", "exited"}
  PROVE  WorkersKept
<1>1. worker' = [worker EXCEPT ![c].phase = to] /\ worker[c].phase = from
  BY DEF Step, Phase
<1>2. \A d \in Calls \ {c} : worker'[d] = worker[d]
  BY <1>1 DEF TypeInv
<1>3. worker'[c] = [phase |-> to, str |-> worker[c].str,
                    gen |-> worker[c].gen, conn |-> worker[c].conn,
                    sock |-> worker[c].sock, hubGen |-> worker[c].hubGen]
  BY <1>1 DEF TypeInv
<1>4. worker' = [d \in Calls |-> worker'[d]]
  BY <1>1 DEF TypeInv
<1> QED BY <1>1, <1>2, <1>3, <1>4 DEF TypeInv, WorkersKept, Alive, Phase

(* Every step of the workers and of the control reconnects is such a step. *)
LEMMA WorkersAndReconnects ==
  ASSUME PInv, NEW c \in Calls,
         WorkerContinues(c) \/ CaptureFails(c) \/ CaptureHeader(c) \/ ReconContinues(c)
  PROVE  PInv'
<1>1. UNCHANGED <<connected, conn, connectGen, call>>
  BY DEF WorkerContinues, CaptureStops, WorkerEndSession, WorkerCloseControl,
         WorkerCloseSocket, WorkerLast, WorkerExit, CaptureFails, CaptureHeader,
         ReconContinues, ReconClosePrevious, ReconDialSucceeds, ReconDialFails,
         ReconInstall, ReconCheck, ReconRegister, ReconDiscard, ctlVars, procVars
<1>2. WorkersKept
  <2>1. CASE UNCHANGED worker
    BY <2>1, UnchangedIsKept DEF PInv
  <2>2. ASSUME NEW to, Step(c, "run", to) \/ Step(c, "end", to) \/ Step(c, "control", to)
                       \/ Step(c, "socket", to) \/ Step(c, "last", to) \/ Step(c, "exit", to)
        PROVE  WorkersKept
    BY <2>2, StepKeepsWorkers DEF PInv
  <2>3. CASE WorkerContinues(c)
    BY <2>2, <2>3 DEF WorkerContinues, CaptureStops, WorkerEndSession,
                      WorkerCloseControl, WorkerCloseSocket, WorkerLast, WorkerExit
  <2>4. CASE CaptureFails(c)
    BY <2>2, <2>4 DEF CaptureFails
  <2>5. CASE CaptureHeader(c) \/ ReconContinues(c)
    BY <2>1, <2>5 DEF CaptureHeader, ReconContinues, ReconClosePrevious,
                      ReconDialSucceeds, ReconDialFails, ReconInstall, ReconCheck,
                      ReconRegister, ReconDiscard, procVars
  <2> QED BY <2>3, <2>4, <2>5
<1>3. StreamsKept
  <2>1. CASE WorkerLast(c)
    <3>1. stream' = Finished(worker[c].str) \/ UNCHANGED stream
      BY <2>1 DEF WorkerLast
    <3>2. worker[c].str \in Streams
      BY DEF PInv, TypeInv
    <3>3. CASE stream' = Finished(worker[c].str)
      BY <3>2, <3>3, EndingKeepsStreams DEF Finished, PInv
    <3> QED BY <3>1, <3>3, UnchangedIsKept DEF PInv
  <2>2. CASE ~WorkerLast(c)
    <3>1. UNCHANGED stream
      BY <2>2 DEF WorkerContinues, CaptureStops, WorkerEndSession, WorkerCloseControl,
         WorkerCloseSocket, WorkerExit, CaptureFails, CaptureHeader,
         ReconContinues, ReconClosePrevious, ReconDialSucceeds, ReconDialFails,
         ReconInstall, ReconCheck, ReconRegister, ReconDiscard, ctlVars
    <3> QED BY <3>1, UnchangedIsKept DEF PInv
  <2> QED BY <2>1, <2>2
<1>4. Proceeds(c) /\ connectGen' \in Nat
  BY <1>1, UnchangedIsKept DEF PInv, TypeInv
<1> QED BY <1>1, <1>2, <1>3, <1>4, KeptIsSafe

-----------------------------------------------------------------------------
(* Calls.                                                                  *)

(* A call that only changes its program counter. *)
LEMMA GotoChanges ==
  ASSUME TypeInv, NEW c \in Calls, NEW pc \in Pcs, Goto(c, pc)
  PROVE  /\ call' \in [Calls -> CallType]
         /\ \A d \in Calls \ {c} : call'[d] = call[d]
         /\ call'[c] = [call[c] EXCEPT !.pc = pc]
         /\ call'[c].pc = pc /\ call'[c].op = call[c].op /\ call'[c].str = call[c].str
         /\ call'[c].gen = call[c].gen /\ call'[c].wait = call[c].wait
<1>1. call' = [call EXCEPT ![c].pc = pc] /\ call[c] \in CallType
  BY DEF Goto, TypeInv
<1>2. call'[c] = [call[c] EXCEPT !.pc = pc]
  BY <1>1 DEF TypeInv
<1>3. [call[c] EXCEPT !.pc = pc] \in CallType
  BY <1>1 DEF CallType
<1>4. \A d \in Calls \ {c} : call'[d] = call[d]
  BY <1>1 DEF TypeInv
<1>5. call' = [d \in Calls |-> call'[d]]
  BY <1>1 DEF TypeInv
<1>6. call' \in [Calls -> CallType]
  BY <1>2, <1>3, <1>4, <1>5 DEF TypeInv
<1> QED BY <1>1, <1>2, <1>4, <1>6 DEF CallType

(* A call that returns, waits for something else than a worker, or whose dial
   is over, proceeds. *)
LEMMA GotoProceeds ==
  ASSUME TypeInv, NEW c \in Calls, NEW pc \in Pcs \ {"restart", "stop", "dial"},
         Goto(c, pc), pc = "dialed" => Pc(c) = "dial",
         Pc(c) \in {"announce", "returned"} => pc = "returned"
  PROVE  Proceeds(c)
BY GotoChanges DEF Proceeds, Installed, Owns, Joining, Starting, Pc, Pcs

(* The steps of a call that neither take a generation nor touch a worker. *)
LEMMA CallProceeds ==
  ASSUME PInv, NEW c \in Calls,
         \/ DialSucceeds(c) \/ ConnectFails(c) \/ ConnectAnnounce(c)
         \/ DisconnectUnpublish(c) \/ DisconnectClose(c) \/ DisconnectJoin(c)
         \/ StartFails(c) \/ StartAbort(c)
  PROVE  PInv'
<1>1. UNCHANGED <<connected, conn, connectGen, worker>>
  BY DEF DialSucceeds, ConnectFails, ConnectAnnounce, DisconnectUnpublish,
         DisconnectClose, DisconnectJoin, StartFails, StartAbort, ctlVars
<1>2. Proceeds(c)
  <2>1. PICK pc \in {"dialed", "returned", "close", "join", "reconnect"} :
          /\ Goto(c, pc)
          /\ pc = "dialed" => Pc(c) = "dial"
          /\ Pc(c) \in {"dial", "announce", "unpublish", "close", "join", "dialed"}
          /\ Pc(c) = "announce" => pc = "returned"
    BY DEF DialSucceeds, ConnectFails, ConnectAnnounce, DisconnectUnpublish,
           DisconnectClose, DisconnectJoin, AfterDisconnect, StartFails, StartAbort
  <2> QED BY <2>1, GotoProceeds DEF PInv, Pcs
<1>3. StreamsKept
  <2>1. call[c].str \in Streams
    BY DEF PInv, TypeInv, CallType
  <2>2. \/ UNCHANGED stream
        \/ stream' = [stream EXCEPT ![call[c].str] =
                       [@ EXCEPT !.active = FALSE, !.running = FALSE,
                                 !.cancel = None]]
    BY DEF DialSucceeds, ConnectFails, ConnectAnnounce, DisconnectUnpublish,
           DisconnectClose, DisconnectJoin, StartFails, StartAbort, ctlVars
  <2> QED BY <2>1, <2>2, UnchangedIsKept, EndingKeepsStreams DEF PInv
<1> QED BY <1>1, <1>2, <1>3, UnchangedIsKept, KeptIsSafe DEF PInv, TypeInv

(* A Connect that takes a connect generation, or goes to disconnect first. *)
LEMMA ConnectProceeds ==
  ASSUME PInv, NEW c \in Calls, ConnectEnter(c) \/ ConnectAgain(c)
  PROVE  PInv'
<1>1. UNCHANGED <<connected, conn, stream, worker>>
  BY DEF ConnectEnter, ConnectAgain
<1>2. connectGen \in Nat /\ connectGen' \in Nat
  BY DEF ConnectEnter, ConnectAgain, BeginDial, PInv, TypeInv
<1>3. Pc(c) \in {"idle", "reconnect"}
  BY DEF ConnectEnter, ConnectAgain, Fresh
<1>4. \/ call' = [call EXCEPT ![c] =
                   [@ EXCEPT !.op = "connect", !.pc = "disconnect"]]
      \/ call' = [call EXCEPT ![c] =
                   [@ EXCEPT !.op = "connect", !.pc = "dial",
                             !.gen = connectGen + 1, !.conn = c]]
  BY DEF ConnectEnter, ConnectAgain, BeginDial
<1>6. /\ call' \in [Calls -> CallType]
      /\ \A d \in Calls \ {c} : call'[d] = call[d]
      /\ call'[c].op = "connect" /\ call'[c].pc \in {"disconnect", "dial"}
  <2>1. call[c] \in CallType
    BY DEF PInv, TypeInv
  <2>2. \/ call'[c] = [call[c] EXCEPT !.op = "connect", !.pc = "disconnect"]
        \/ call'[c] = [call[c] EXCEPT !.op = "connect", !.pc = "dial",
                                      !.gen = connectGen + 1, !.conn = c]
    BY <1>4 DEF PInv, TypeInv
  <2>3. call'[c] \in CallType /\ call'[c].op = "connect"
        /\ call'[c].pc \in {"disconnect", "dial"}
    <3>1. CASE call'[c] = [call[c] EXCEPT !.op = "connect", !.pc = "disconnect"]
      BY <2>1, <3>1 DEF CallType, Pcs
    <3>2. CASE call'[c] = [call[c] EXCEPT !.op = "connect", !.pc = "dial",
                                          !.gen = connectGen + 1, !.conn = c]
      <4>1. connectGen + 1 \in Nat /\ c \in Calls \cup {None} /\ "dial" \in Pcs
        BY <1>2 DEF Pcs
      <4>2. \A n \in Nat : [call[c] EXCEPT !.op = "connect", !.pc = "dial",
                                           !.gen = n, !.conn = c] \in CallType
        BY <2>1, <4>1 DEF CallType
      <4>3. [call[c] EXCEPT !.op = "connect", !.pc = "dial",
                            !.gen = connectGen + 1, !.conn = c] \in CallType
        BY <4>1, <4>2
      <4> QED BY <2>1, <3>2, <4>3 DEF CallType
    <3> QED BY <2>2, <3>1, <3>2
  <2>4. /\ call' = [d \in Calls |-> call'[d]]
        /\ \A d \in Calls \ {c} : call'[d] = call[d]
    BY <1>4 DEF PInv, TypeInv
  <2> QED BY <2>3, <2>4 DEF PInv, TypeInv
<1>5. Proceeds(c)
  BY <1>3, <1>6 DEF Proceeds, Installed, Owns, Joining, Starting, Pc
<1> QED BY <1>1, <1>2, <1>5, UnchangedIsKept, KeptIsSafe DEF PInv

-----------------------------------------------------------------------------
(* Steps that take a generation.                                           *)

(* Call c takes the next generation of stream s and owns it, or returns; it may
   forget a worker that has exited. *)
Takes(c, s) ==
  /\ call' \in [Calls -> CallType]
  /\ \A d \in Calls \ {c} : call'[d] = call[d]
  /\ stream' \in [Streams -> StreamType]
  /\ \A t \in Streams \ {s} : stream'[t] = stream[t]
  /\ stream'[s].gen = stream[s].gen + 1
  /\ \/ stream'[s].done = stream[s].done
     \/ stream'[s].done = None /\ (stream[s].done # None => Exited(stream[s].done))
  /\ Owns(c)' => call'[c].str = s /\ call'[c].gen = stream[s].gen + 1
  /\ Joining(c)' => stream'[s].done \in call'[c].wait \cup {None}
  /\ Starting(c)' => stream'[s].done = None

(* Taking a generation preserves the invariant: all older owners lose. *)
LEMMA TakesIsSafe ==
  ASSUME PInv, UNCHANGED <<connected, conn, connectGen, worker>>,
         NEW c \in Calls, NEW s \in Streams, Takes(c, s), ~Installed(c)
  PROVE  PInv'
<1>1. TypeInv'
  BY DEF PInv, TypeInv, Takes
<1>2. \A k \in Calls : Installed(k) => Installed(k)'
  BY DEF Takes, Installed, Pc
<1>3. ConnsAreInstalled'
  BY <1>2 DEF PInv, ConnsAreInstalled, Alive, Phase, Installed
<1>4. \A d \in Calls \ {c} :
        /\ Joining(d)' <=> Joining(d)
        /\ Starting(d)' <=> Starting(d)
        /\ Owns(d)' <=> Owns(d)
        /\ call'[d] = call[d]
  BY DEF Takes, Joining, Starting, Owns, Pc
<1>5. \A d \in Calls : call[d].str \in Streams /\ call[d].gen \in Nat
  BY DEF PInv, TypeInv, CallType
<1>6. \A t \in Streams : stream[t].gen \in Nat /\ stream'[t].gen \in Nat
  BY DEF PInv, TypeInv, Takes, StreamType
<1>7. \A d \in Calls : Owns(d) => call[d].gen <= stream[call[d].str].gen
  BY DEF PInv, GenerationsDiffer
<1>8. GenerationsDiffer'
  <2>1. ASSUME NEW d \in Calls, Owns(d)'
        PROVE  call'[d].gen <= stream'[call'[d].str].gen
    <3>1. CASE d = c
      BY <1>6, <2>1, <3>1 DEF Takes
    <3>2. CASE d # c
      <4>1. call'[d] = call[d] /\ call[d].gen <= stream[call[d].str].gen
        BY <1>4, <1>7, <2>1, <3>2
      <4>2. stream'[call[d].str].gen = stream[call[d].str].gen
            \/ stream'[call[d].str].gen = stream[call[d].str].gen + 1
        BY <1>5 DEF Takes
      <4> QED BY <1>5, <1>6, <4>1, <4>2
    <3> QED BY <3>1, <3>2
  <2>2. ASSUME NEW d \in Calls \ {c}, Owns(c)', Owns(d)', call'[c].str = call'[d].str
        PROVE  call'[c].gen # call'[d].gen
    <3>1. call'[c].str = s /\ call'[c].gen = stream[s].gen + 1
      BY <2>2 DEF Takes
    <3>2. call'[d] = call[d] /\ call[d].str = s /\ call[d].gen <= stream[s].gen
      BY <1>4, <1>7, <2>2, <3>1
    <3> QED BY <1>5, <1>6, <3>1, <3>2
  <2>3. ASSUME NEW d \in Calls \ {c}, NEW e \in Calls \ {c}, Owns(d)', Owns(e)', d # e,
               call'[d].str = call'[e].str
        PROVE  call'[d].gen # call'[e].gen
    BY <1>4, <2>3 DEF PInv, GenerationsDiffer
  <2> QED BY <2>1, <2>2, <2>3 DEF GenerationsDiffer
<1>9. OwnersWait'
  <2> SUFFICES ASSUME NEW d \in Calls, Owns(d)',
                      call'[d].gen = stream'[call'[d].str].gen
               PROVE  /\ Joining(d)' => stream'[call'[d].str].done
                                          \in call'[d].wait \cup {None}
                      /\ Starting(d)' => stream'[call'[d].str].done = None
    BY DEF OwnersWait, Owns
  <2>1. CASE d = c
    BY <2>1 DEF Takes
  <2>2. CASE d # c
    <3>1. call'[d] = call[d] /\ call[d].gen <= stream[call[d].str].gen
          /\ (Joining(d)' <=> Joining(d)) /\ (Starting(d)' <=> Starting(d))
      BY <1>4, <1>7, <2>2
    <3>2. call[d].str # s
      BY <1>5, <1>6, <3>1 DEF Takes
    <3>3. stream'[call[d].str] = stream[call[d].str]
      BY <1>5, <3>2 DEF Takes
    <3> QED BY <3>1, <3>3 DEF PInv, OwnersWait
  <2> QED BY <2>1, <2>2
<1>10. OneWorkerPerStream'
  BY DEF PInv, OneWorkerPerStream, Alive, Phase
<1>11. WorkerIsJoinable'
  <2> SUFFICES ASSUME NEW d \in Calls, Alive(d), worker[d].conn = conn
               PROVE  stream'[worker[d].str].done = d
    BY DEF WorkerIsJoinable, Alive, Phase
  <2>1. stream[worker[d].str].done = d /\ worker[d].str \in Streams
    BY DEF PInv, WorkerIsJoinable, TypeInv
  <2>2. CASE worker[d].str = s
    BY <2>1, <2>2, Basics DEF Takes, Exited, Alive, Phase
  <2>3. CASE worker[d].str # s
    BY <2>1, <2>3 DEF Takes
  <2> QED BY <2>2, <2>3
<1> QED BY <1>1, <1>3, <1>8, <1>9, <1>10, <1>11 DEF PInv

(* A step that gives call c another record leaves the other calls alone. *)
LEMMA CallUpdate ==
  ASSUME TypeInv, NEW c \in Calls, NEW r \in CallType, call' = [call EXCEPT ![c] = r]
  PROVE  /\ call' \in [Calls -> CallType] /\ call'[c] = r
         /\ \A d \in Calls \ {c} : call'[d] = call[d]
BY DEF TypeInv

(* A step that gives stream s another record leaves the other streams alone. *)
LEMMA StreamUpdate ==
  ASSUME TypeInv, NEW s \in Streams, NEW r \in StreamType,
         stream' = [stream EXCEPT ![s] = r]
  PROVE  /\ stream' \in [Streams -> StreamType] /\ stream'[s] = r
         /\ \A t \in Streams \ {s} : stream'[t] = stream[t]
BY DEF TypeInv

(* startStream and stopStream join the worker of the stream, if it has one. *)
LEMMA DonesOfOne ==
  ASSUME TypeInv, NEW s \in Streams
  PROVE  Dones({s}) \subseteq Calls /\ stream[s].done \in Dones({s}) \cup {None}
<1>1. stream[s].done \in Calls \cup {None}
  BY DEF TypeInv, StreamType
<1> QED BY <1>1 DEF Dones

(* startStream owns a fresh generation once no worker is left. *)
LEMMA BeginStartIsSafe ==
  ASSUME PInv, NEW c \in Calls, NEW s \in Streams, ~Installed(c),
         UNCHANGED <<connected, conn, connectGen, worker>>,
         NEW stm, BeginStart(c, s, stm),
         \/ stm = stream /\ stream[s].done = None
         \/ /\ stm = [stream EXCEPT ![s] =
                       [@ EXCEPT !.done = None, !.running = FALSE]]
            /\ stream[s].done # None => Exited(stream[s].done)
  PROVE  PInv'
<1>1. stream[s] \in StreamType /\ call[c] \in CallType /\ conn \in Calls \cup {None}
  BY DEF PInv, TypeInv
<1>2. PICK pc \in {"dial", "dialed"} :
        call' = [call EXCEPT ![c] =
                  [@ EXCEPT !.op = "on", !.str = s, !.conn = conn,
                            !.gen = stm[s].gen + 1, !.pc = pc]]
  BY DEF BeginStart
<1>3. stream' = [stm EXCEPT ![s] =
                  [@ EXCEPT !.gen = stm[s].gen + 1, !.cancel = c]]
  BY DEF BeginStart
<1>4. stm[s].gen = stream[s].gen /\ stm[s].done = None /\ stream[s].gen \in Nat
  <2>1. stream[s].gen \in Nat
    BY <1>1 DEF StreamType
  <2>2. CASE stm = stream /\ stream[s].done = None
    <3>1. stm[s] = stream[s]
      BY <2>2
    <3> QED BY <2>1, <2>2, <3>1
  <2>3. CASE stm = [stream EXCEPT ![s] = [@ EXCEPT !.done = None, !.running = FALSE]]
    <3>1. stm[s] = [stream[s] EXCEPT !.done = None, !.running = FALSE]
      BY <2>3 DEF PInv, TypeInv
    <3>2. stm[s].gen = stream[s].gen /\ stm[s].done = None
      BY <1>1, <3>1 DEF StreamType
    <3> QED BY <2>1, <3>2
  <2> QED BY <2>2, <2>3
<1>5. /\ call' \in [Calls -> CallType]
      /\ \A d \in Calls \ {c} : call'[d] = call[d]
      /\ call'[c].str = s /\ call'[c].gen = stream[s].gen + 1 /\ call'[c].op = "on"
      /\ call'[c].pc \in {"dial", "dialed"}
  <2> DEFINE r == [call[c] EXCEPT !.op = "on", !.str = s, !.conn = conn,
                                  !.gen = stm[s].gen + 1, !.pc = pc]
  <2>1. call' = [call EXCEPT ![c] = r]
    BY <1>2 DEF PInv, TypeInv
  <2>2. r \in CallType /\ r.str = s /\ r.gen = stream[s].gen + 1 /\ r.op = "on" /\ r.pc = pc
    <3>1. stm[s].gen + 1 \in Nat /\ stm[s].gen + 1 = stream[s].gen + 1 /\ pc \in Pcs
      BY <1>2, <1>4 DEF Pcs
    <3>2. \A n \in Nat : [call[c] EXCEPT !.op = "on", !.str = s, !.conn = conn,
                                         !.gen = n, !.pc = pc] \in CallType
      BY <1>1, <3>1 DEF CallType
    <3>3. r \in CallType
      BY <3>1, <3>2
    <3> QED BY <1>1, <3>1, <3>3 DEF CallType
  <2> HIDE DEF r
  <2> QED BY <1>2, <2>1, <2>2, CallUpdate DEF PInv
<1>6. /\ stream' \in [Streams -> StreamType]
      /\ \A t \in Streams \ {s} : stream'[t] = stream[t]
      /\ stream'[s].gen = stream[s].gen + 1 /\ stream'[s].done = None
  <2> DEFINE r == [stm[s] EXCEPT !.gen = stm[s].gen + 1, !.cancel = c]
  <2>1. stm[s] \in StreamType
    <3>1. CASE stm = stream
      BY <1>1, <3>1
    <3>2. CASE stm = [stream EXCEPT ![s] =
                       [@ EXCEPT !.done = None, !.running = FALSE]]
      <4>1. stm[s] = [stream[s] EXCEPT !.done = None, !.running = FALSE]
        BY <3>2 DEF PInv, TypeInv
      <4> QED BY <1>1, <4>1 DEF StreamType
    <3> QED BY <3>1, <3>2
  <2>2. r \in StreamType /\ r.gen = stream[s].gen + 1 /\ r.done = None
    <3>1. stm[s].gen + 1 \in Nat /\ stm[s].gen + 1 = stream[s].gen + 1
      BY <1>4
    <3>2. \A n \in Nat : [stm[s] EXCEPT !.gen = n, !.cancel = c] \in StreamType
      BY <2>1 DEF StreamType
    <3>3. r \in StreamType
      BY <3>1, <3>2
    <3> QED BY <1>4, <2>1, <3>1, <3>3 DEF StreamType
  <2>3. stream' = [stream EXCEPT ![s] = r]
    <3>1. /\ DOMAIN stm = Streams /\ \A t \in Streams \ {s} : stm[t] = stream[t]
          /\ stm = [t \in Streams |-> stm[t]]
      BY DEF PInv, TypeInv
    <3>2. stream' = [stm EXCEPT ![s] = r]
      BY <1>3, <3>1
    <3> HIDE DEF r
    <3> QED BY <3>1, <3>2 DEF PInv, TypeInv
  <2> HIDE DEF r
  <2> QED BY <2>2, <2>3, StreamUpdate DEF PInv
<1>7. Takes(c, s)
  BY <1>4, <1>5, <1>6 DEF Takes, Owns, Joining, Starting, Pc
<1> QED BY <1>7, TakesIsSafe

(* A call that returns at once, before it takes anything, preserves the invariant. *)
LEMMA ReturningIsSafe ==
  ASSUME PInv, NEW c \in Calls, Pc(c) \in {"idle", "disconnect"},
         NEW op \in {"none", "connect", "disconnect", "on", "off"},
         NEW pc \in {"returned", "reconnect"},
         Pc(c) = "idle" \/ op = call[c].op \/ op = "disconnect",
         call' = [call EXCEPT ![c] = [@ EXCEPT !.op = op, !.pc = pc]],
         UNCHANGED <<connected, conn, stream, worker>>, connectGen' \in Nat
  PROVE  PInv'
<1> DEFINE r == [call[c] EXCEPT !.op = op, !.pc = pc]
<1>1. call[c] \in CallType /\ pc \in Pcs
  BY DEF PInv, TypeInv, Pcs
<1>2. r \in CallType /\ r.op = op /\ r.pc = pc
  BY <1>1 DEF CallType
<1>3. call' = [call EXCEPT ![c] = r]
  BY DEF PInv, TypeInv
<1> HIDE DEF r
<1>4. /\ call' \in [Calls -> CallType] /\ call'[c] = r
      /\ \A d \in Calls \ {c} : call'[d] = call[d]
  BY <1>2, <1>3, CallUpdate DEF PInv
<1>5. Proceeds(c)
  BY <1>2, <1>4 DEF Proceeds, Installed, Owns, Joining, Starting, Pc
<1> QED BY <1>5, UnchangedIsKept, KeptIsSafe DEF PInv

(* A call that takes the next generation of a stream whose worker it will join,
   or that has none, preserves the invariant. *)
LEMMA JoiningIsSafe ==
  ASSUME PInv, NEW c \in Calls, NEW s \in Streams, Pc(c) = "idle",
         UNCHANGED <<connected, conn, connectGen, worker>>,
         NEW op \in {"on", "off"}, NEW pc \in {"restart", "stop", "returned"},
         NEW k \in Calls \cup {None},
         \/ /\ call' = [call EXCEPT ![c] =
                         [@ EXCEPT !.op = op, !.str = s, !.pc = pc, !.conn = k,
                                   !.gen = stream[s].gen + 1,
                                   !.wait = Dones({s})]]
         \/ /\ call' = [call EXCEPT ![c] =
                         [@ EXCEPT !.op = op, !.str = s, !.pc = pc]]
            /\ pc = "returned",
         \/ stream' = [stream EXCEPT ![s] =
                        [@ EXCEPT !.cancel = None, !.gen = stream[s].gen + 1]]
         \/ stream' = [stream EXCEPT ![s] =
                        [@ EXCEPT !.cancel = None, !.gen = stream[s].gen + 1,
                                  !.active = FALSE]]
  PROVE  PInv'
<1>1. /\ stream[s] \in StreamType /\ call[c] \in CallType /\ pc \in Pcs
      /\ stream[s].gen \in Nat /\ stream[s].gen + 1 \in Nat
  BY DEF PInv, TypeInv, Pcs, StreamType
<1>2. Dones({s}) \subseteq Calls /\ stream[s].done \in Dones({s}) \cup {None}
  BY DonesOfOne DEF PInv
<1>3. PICK rc \in CallType :
        /\ call' = [call EXCEPT ![c] = rc]
        /\ rc.op = op /\ rc.str = s /\ rc.pc = pc
        /\ pc # "returned" => rc.gen = stream[s].gen + 1 /\ rc.wait = Dones({s})
  <2>1. CASE call' = [call EXCEPT ![c] =
                       [@ EXCEPT !.op = op, !.str = s, !.pc = pc, !.conn = k,
                                 !.gen = stream[s].gen + 1, !.wait = Dones({s})]]
    <3> DEFINE q == [call[c] EXCEPT !.op = op, !.str = s, !.pc = pc, !.conn = k,
                                    !.gen = stream[s].gen + 1, !.wait = Dones({s})]
    <3>1. call' = [call EXCEPT ![c] = q]
      BY <2>1 DEF PInv, TypeInv
    <3>2. \A n \in Nat, W \in SUBSET Calls :
            [call[c] EXCEPT !.op = op, !.str = s, !.pc = pc, !.conn = k,
                            !.gen = n, !.wait = W] \in CallType
      BY <1>1 DEF CallType
    <3>3. q \in CallType
      BY <1>1, <1>2, <3>2
    <3>4. /\ q.op = op /\ q.str = s /\ q.pc = pc
          /\ q.gen = stream[s].gen + 1 /\ q.wait = Dones({s})
      BY <1>1 DEF CallType
    <3> HIDE DEF q
    <3> QED BY <3>1, <3>3, <3>4
  <2>2. CASE /\ call' = [call EXCEPT ![c] =
                          [@ EXCEPT !.op = op, !.str = s, !.pc = pc]]
             /\ pc = "returned"
    <3> DEFINE q == [call[c] EXCEPT !.op = op, !.str = s, !.pc = pc]
    <3>1. call' = [call EXCEPT ![c] = q]
      BY <2>2 DEF PInv, TypeInv
    <3>2. q \in CallType /\ q.op = op /\ q.str = s /\ q.pc = pc
      BY <1>1 DEF CallType
    <3> HIDE DEF q
    <3> QED BY <2>2, <3>1, <3>2
  <2> QED BY <2>1, <2>2
<1>4. PICK rs \in StreamType :
        /\ stream' = [stream EXCEPT ![s] = rs]
        /\ rs.gen = stream[s].gen + 1 /\ rs.done = stream[s].done
  <2>1. CASE stream' = [stream EXCEPT ![s] =
                         [@ EXCEPT !.cancel = None, !.gen = stream[s].gen + 1]]
    <3> DEFINE q == [stream[s] EXCEPT !.cancel = None, !.gen = stream[s].gen + 1]
    <3>1. stream' = [stream EXCEPT ![s] = q]
      BY <2>1 DEF PInv, TypeInv
    <3>2. \A n \in Nat : [stream[s] EXCEPT !.cancel = None, !.gen = n] \in StreamType
      BY <1>1 DEF StreamType
    <3>3. q \in StreamType
      BY <1>1, <3>2
    <3>4. q.gen = stream[s].gen + 1 /\ q.done = stream[s].done
      BY <1>1 DEF StreamType
    <3> HIDE DEF q
    <3> QED BY <3>1, <3>3, <3>4
  <2>2. CASE stream' = [stream EXCEPT ![s] =
                         [@ EXCEPT !.cancel = None, !.gen = stream[s].gen + 1,
                                   !.active = FALSE]]
    <3> DEFINE q == [stream[s] EXCEPT !.cancel = None, !.gen = stream[s].gen + 1,
                                      !.active = FALSE]
    <3>1. stream' = [stream EXCEPT ![s] = q]
      BY <2>2 DEF PInv, TypeInv
    <3>2. \A n \in Nat : [stream[s] EXCEPT !.cancel = None, !.gen = n,
                                           !.active = FALSE] \in StreamType
      BY <1>1 DEF StreamType
    <3>3. q \in StreamType
      BY <1>1, <3>2
    <3>4. q.gen = stream[s].gen + 1 /\ q.done = stream[s].done
      BY <1>1 DEF StreamType
    <3> HIDE DEF q
    <3> QED BY <3>1, <3>3, <3>4
  <2> QED BY <2>1, <2>2
<1>5. /\ call' \in [Calls -> CallType]
      /\ \A d \in Calls \ {c} : call'[d] = call[d]
      /\ call'[c].op = op /\ call'[c].str = s /\ call'[c].pc = pc
      /\ pc # "returned" => /\ call'[c].gen = stream[s].gen + 1
                            /\ call'[c].wait = Dones({s})
  BY <1>3, CallUpdate DEF PInv
<1>6. /\ stream' \in [Streams -> StreamType]
      /\ \A t \in Streams \ {s} : stream'[t] = stream[t]
      /\ stream'[s].gen = stream[s].gen + 1 /\ stream'[s].done = stream[s].done
  BY <1>4, StreamUpdate DEF PInv
<1>7. Takes(c, s)
  BY <1>2, <1>5, <1>6 DEF Takes, Owns, Joining, Starting, Pc
<1>8. ~Installed(c)
  BY DEF Installed
<1> QED BY <1>7, <1>8, TakesIsSafe

(* startStream, up to its join or dial. *)
LEMMA StartEnterIsSafe ==
  ASSUME PInv, NEW c \in Calls, NEW s \in Streams, StartEnter(c, s)
  PROVE  PInv'
<1>1. UNCHANGED <<connected, conn, connectGen, worker>> /\ Pc(c) = "idle"
  BY DEF StartEnter, Fresh
<1>2. CASE ~connected \/ (stream[s].running /\ stream[s].active)
  BY <1>1, <1>2, ReturningIsSafe DEF StartEnter, PInv, TypeInv
<1>3. CASE ~(~connected \/ (stream[s].running /\ stream[s].active))
  <2>1. CASE stream[s].running \/ stream[s].done # None
    <3>1. /\ stream' = [stream EXCEPT ![s] =
                         [@ EXCEPT !.cancel = None, !.gen = stream[s].gen + 1]]
          /\ call' = [call EXCEPT ![c] =
                       [@ EXCEPT !.op = "on", !.str = s, !.pc = "restart",
                                 !.conn = conn, !.gen = stream[s].gen + 1,
                                 !.wait = Dones({s})]]
      BY <1>3, <2>1 DEF StartEnter, PInv, TypeInv
    <3>2. conn \in Calls \cup {None}
      BY DEF PInv, TypeInv
    <3> QED BY <1>1, <3>1, <3>2, JoiningIsSafe
  <2>2. CASE ~(stream[s].running \/ stream[s].done # None)
    <3>1. BeginStart(c, s, stream) /\ stream[s].done = None
      BY <1>3, <2>2 DEF StartEnter
    <3>2. ~Installed(c)
      BY <1>1 DEF Installed
    <3> QED BY <1>1, <3>1, <3>2, BeginStartIsSafe
  <2> QED BY <2>1, <2>2
<1> QED BY <1>2, <1>3

(* startStream, after the join of the previous worker. *)
LEMMA StartJoinIsSafe ==
  ASSUME PInv, NEW c \in Calls, StartJoin(c)
  PROVE  PInv'
<1> DEFINE s == call[c].str
<1>1. /\ UNCHANGED <<connected, conn, connectGen, worker>>
      /\ Pc(c) = "restart" /\ Joined(c) /\ s \in Streams
  BY DEF StartJoin, PInv, TypeInv, CallType
<1>2. CASE ~connected \/ conn # call[c].conn \/ stream[s].gen # call[c].gen
  <2>1. Goto(c, "returned") /\ UNCHANGED stream
    BY <1>2 DEF StartJoin
  <2>2. Proceeds(c)
    BY <1>1, <2>1, GotoProceeds DEF PInv, Pcs
  <2> QED BY <1>1, <2>1, <2>2, UnchangedIsKept, KeptIsSafe DEF PInv, TypeInv
<1>3. CASE ~(~connected \/ conn # call[c].conn \/ stream[s].gen # call[c].gen)
  <2>1. BeginStart(c, s, [stream EXCEPT ![s] =
                           [@ EXCEPT !.done = None, !.running = FALSE]])
    BY <1>3 DEF StartJoin
  <2>2. ~Installed(c)
    BY <1>1 DEF Installed
  <2>3. stream[s].done # None => Exited(stream[s].done)
    <3>1. stream[s].done \in call[c].wait \cup {None}
      BY <1>1, <1>3 DEF PInv, OwnersWait, Joining
    <3> QED BY <1>1, <3>1 DEF Joined
  <2> HIDE DEF s
  <2> QED BY <1>1, <2>1, <2>2, <2>3, BeginStartIsSafe
<1> QED BY <1>2, <1>3

(* stopStream, up to its join. *)
LEMMA StopEnterIsSafe ==
  ASSUME PInv, NEW c \in Calls, NEW s \in Streams, StopEnter(c, s)
  PROVE  PInv'
<1>1. UNCHANGED <<connected, conn, connectGen, worker>> /\ Pc(c) = "idle"
  BY DEF StopEnter, Fresh
<1>2. CASE ~connected
  BY <1>1, <1>2, ReturningIsSafe DEF StopEnter, PInv, TypeInv
<1>3. CASE connected
  <2>1. stream' = [stream EXCEPT ![s] =
                    [@ EXCEPT !.cancel = None, !.gen = stream[s].gen + 1,
                              !.active = FALSE]]
    BY <1>3 DEF StopEnter, PInv, TypeInv
  <2>2. \/ call' = [call EXCEPT ![c] =
                     [@ EXCEPT !.op = "off", !.str = s, !.pc = "returned"]]
        \/ call' = [call EXCEPT ![c] =
                     [@ EXCEPT !.op = "off", !.str = s, !.pc = "stop",
                               !.conn = conn, !.gen = stream[s].gen + 1,
                               !.wait = Dones({s})]]
    BY <1>3 DEF StopEnter
  <2>3. conn \in Calls \cup {None}
    BY DEF PInv, TypeInv
  <2> QED BY <1>1, <2>1, <2>2, <2>3, JoiningIsSafe
<1> QED BY <1>2, <1>3

(* stopStream, after the join: the owner of the generation forgets a worker that
   has exited. *)
LEMMA StopJoinIsSafe ==
  ASSUME PInv, NEW c \in Calls, StopJoin(c)
  PROVE  PInv'
<1> DEFINE s == call[c].str
<1>1. /\ UNCHANGED <<connected, conn, connectGen, worker>>
      /\ Pc(c) = "stop" /\ Joined(c) /\ s \in Streams /\ Goto(c, "returned")
  BY DEF StopJoin, PInv, TypeInv, CallType
<1>2. Proceeds(c)
  BY <1>1, GotoProceeds DEF PInv, Pcs
<1>3. CASE stream[s].gen # call[c].gen
  <2>1. UNCHANGED stream
    BY <1>3 DEF StopJoin
  <2> QED BY <1>1, <1>2, <2>1, UnchangedIsKept, KeptIsSafe DEF PInv, TypeInv
<1>4. CASE stream[s].gen = call[c].gen
  <2> DEFINE r == [stream[s] EXCEPT !.running = FALSE, !.active = FALSE, !.done = None]
  <2>1. stream[s] \in StreamType
    BY <1>1 DEF PInv, TypeInv
  <2>2. r \in StreamType /\ r.gen = stream[s].gen /\ r.done = None
    BY <2>1 DEF StreamType
  <2>3. stream' = [stream EXCEPT ![s] = r]
    BY <1>1, <1>4 DEF StopJoin, PInv, TypeInv
  <2>4. /\ stream' \in [Streams -> StreamType]
        /\ \A t \in Streams \ {s} : stream'[t] = stream[t]
        /\ stream'[s].gen = stream[s].gen /\ stream'[s].done = None
    <3> HIDE DEF r
    <3> QED BY <1>1, <2>2, <2>3, StreamUpdate DEF PInv
  <2>5. stream[s].done # None => Exited(stream[s].done)
    <3>1. stream[s].done \in call[c].wait \cup {None}
      BY <1>1, <1>4 DEF PInv, OwnersWait, Joining
    <3> QED BY <1>1, <3>1 DEF Joined
  <2> HIDE DEF r, s
  <2>6. TypeInv'
    BY <1>1, <1>2, <2>4 DEF PInv, TypeInv, Proceeds
  <2>7. ConnsAreInstalled'
    BY <1>1, <1>2 DEF PInv, ConnsAreInstalled, Proceeds, Installed, Alive, Phase, Pc
  <2>8. \A d \in Calls :
          /\ Joining(d)' => Joining(d)
          /\ Starting(d)' => Starting(d)
          /\ Owns(d)' => /\ Owns(d) /\ call'[d].gen = call[d].gen
                         /\ call'[d].str = call[d].str /\ call'[d].wait = call[d].wait
    BY <1>2 DEF Proceeds, Joining, Starting, Owns, Pc
  <2>9. \A d \in Calls : call[d].str \in Streams
    BY DEF PInv, TypeInv, CallType
  <2>10. \A t \in Streams : stream'[t].gen = stream[t].gen
                            /\ stream'[t].done \in {stream[t].done, None}
    BY <2>4
  <2>11. GenerationsDiffer'
    BY <2>8, <2>9, <2>10 DEF PInv, GenerationsDiffer
  <2>12. OwnersWait'
    BY <2>8, <2>9, <2>10 DEF PInv, OwnersWait, Owns
  <2>13. OneWorkerPerStream'
    BY <1>1 DEF PInv, OneWorkerPerStream, Alive, Phase
  <2>14. WorkerIsJoinable'
    <3> SUFFICES ASSUME NEW d \in Calls, Alive(d), worker[d].conn = conn
                 PROVE  stream'[worker[d].str].done = d
      BY <1>1 DEF WorkerIsJoinable, Alive, Phase
    <3>1. stream[worker[d].str].done = d /\ worker[d].str \in Streams
      BY DEF PInv, WorkerIsJoinable, TypeInv
    <3>2. worker[d].str # s
      BY <2>5, <3>1, Basics DEF Exited, Alive, Phase
    <3> QED BY <2>4, <3>1, <3>2
  <2> QED BY <2>6, <2>7, <2>11, <2>12, <2>13, <2>14 DEF PInv
<1> QED BY <1>3, <1>4

(* A worker is launched for an installed connection k that has no other worker of
   the stream, whose done channel it becomes. *)
LEMMA LaunchIsSafe ==
  ASSUME PInv, NEW c \in Calls, NEW s \in Streams, Goto(c, Pc(c)'),
         Pc(c)' \in {"announce", "returned"}, NEW k \in Calls,
         connected', conn' = k, UNCHANGED connectGen, Installed(k)',
         stream' \in [Streams -> StreamType],
         \A t \in Streams \ {s} : stream'[t] = stream[t],
         stream'[s].gen \in {stream[s].gen, stream[s].gen + 1}, stream'[s].done = c,
         \A d \in Calls \ {c} :
           Owns(d) => call[d].str # s \/ call[d].gen # stream'[s].gen,
         NEW w, w = [phase |-> w.phase, str |-> s, gen |-> w.gen, conn |-> k,
                     sock |-> w.sock, hubGen |-> w.hubGen],
         worker' = [worker EXCEPT ![c] = w],
         \A d \in Calls : Alive(d) /\ worker[d].conn = k =>
           worker[d].str # s /\ k = conn
  PROVE  PInv'
<1>1. Pc(c)' \in Pcs
  BY DEF Pcs
<1>2. /\ call' \in [Calls -> CallType]
      /\ \A d \in Calls \ {c} : call'[d] = call[d]
      /\ call'[c].op = call[c].op /\ call'[c].str = call[c].str
      /\ call'[c].gen = call[c].gen /\ call'[c].wait = call[c].wait
  BY <1>1, GotoChanges DEF PInv
<1>3. /\ worker'[c] = w /\ \A d \in Calls \ {c} : worker'[d] = worker[d]
      /\ worker' = [d \in Calls |-> worker'[d]]
  BY DEF PInv, TypeInv
<1>4. TypeInv'
  BY <1>2, <1>3 DEF PInv, TypeInv
<1>5. \A j \in Calls : Installed(j) => Installed(j)'
  BY <1>2 DEF Installed, Pc
<1>6. ConnsAreInstalled'
  <2>1. ASSUME NEW d \in Calls, Alive(d)'
        PROVE  (Installed(worker[d].conn))'
    <3>1. CASE d = c
      BY <1>3, <3>1
    <3>2. CASE d # c
      <4>1. Alive(d) /\ worker'[d] = worker[d]
        BY <1>3, <2>1, <3>2 DEF Alive, Phase
      <4>2. Installed(worker[d].conn)
        BY <4>1 DEF PInv, ConnsAreInstalled
      <4>3. Installed(worker[d].conn) => worker[d].conn \in Calls
        BY DEF Installed
      <4> QED BY <1>5, <4>1, <4>2, <4>3 DEF Installed
    <3> QED BY <3>1, <3>2
  <2> QED BY <2>1, Basics DEF ConnsAreInstalled
<1>7. /\ ~Owns(c)'
      /\ \A d \in Calls \ {c} :
           /\ Joining(d)' <=> Joining(d)
           /\ Starting(d)' <=> Starting(d)
           /\ Owns(d)' <=> Owns(d)
  BY <1>2 DEF Owns, Joining, Starting, Pc
<1>8. \A d \in Calls : call[d].str \in Streams /\ call[d].gen \in Nat
  BY DEF PInv, TypeInv, CallType
<1>9. \A t \in Streams : stream[t].gen \in Nat /\ stream'[t].gen \in Nat
                         /\ stream[t].gen <= stream'[t].gen
  BY DEF PInv, TypeInv, StreamType
<1>10. GenerationsDiffer'
  <2>1. ASSUME NEW d \in Calls \ {c}, Owns(d)
        PROVE  call[d].gen <= stream'[call[d].str].gen
    <3>1. call[d].gen <= stream[call[d].str].gen
      BY <2>1 DEF PInv, GenerationsDiffer
    <3> QED BY <1>8, <1>9, <3>1
  <2>2. \A d \in Calls : Owns(d)' => d # c
    BY <1>7
  <2>3. \A d, e \in Calls \ {c} : Owns(d) /\ Owns(e) /\ d # e /\ call[d].str = call[e].str =>
                                    call[d].gen # call[e].gen
    BY DEF PInv, GenerationsDiffer
  <2> QED BY <1>2, <1>7, <2>1, <2>2, <2>3 DEF GenerationsDiffer
<1>11. OwnersWait'
  <2> SUFFICES ASSUME NEW d \in Calls, Owns(d)',
                      call'[d].gen = stream'[call'[d].str].gen
               PROVE  /\ Joining(d)' => stream'[call'[d].str].done
                                          \in call'[d].wait \cup {None}
                      /\ Starting(d)' => stream'[call'[d].str].done = None
    BY DEF OwnersWait, Owns
  <2>1. d # c /\ call'[d] = call[d] /\ Owns(d)
        /\ (Joining(d)' <=> Joining(d)) /\ (Starting(d)' <=> Starting(d))
    BY <1>2, <1>7
  <2>2. call[d].str # s
    BY <2>1
  <2>3. stream'[call[d].str] = stream[call[d].str]
    BY <1>8, <2>2
  <2> QED BY <2>1, <2>3 DEF PInv, OwnersWait
<1>12. \A d \in Calls \ {c} : Alive(d)' => Alive(d) /\ worker'[d] = worker[d]
  BY <1>3 DEF Alive, Phase
<1>13. OneWorkerPerStream'
  <2>1. ASSUME NEW d \in Calls \ {c}, Alive(d)'
        PROVE  worker'[d].str # worker'[c].str \/ worker'[d].conn # worker'[c].conn
    <3>1. Alive(d) /\ worker'[d] = worker[d]
      BY <1>12, <2>1
    <3>2. worker'[c].str = s /\ worker'[c].conn = k
      BY <1>3
    <3> QED BY <3>1, <3>2
  <2>2. ASSUME NEW d \in Calls \ {c}, NEW e \in Calls \ {c}, Alive(d)', Alive(e)', d # e
        PROVE  worker'[d].str # worker'[e].str \/ worker'[d].conn # worker'[e].conn
    BY <1>12, <2>2 DEF PInv, OneWorkerPerStream
  <2> QED BY <2>1, <2>2 DEF OneWorkerPerStream
<1>14. WorkerIsJoinable'
  <2> SUFFICES ASSUME NEW d \in Calls, Alive(d)', worker'[d].conn = k
               PROVE  stream'[worker'[d].str].done = d
    BY DEF WorkerIsJoinable
  <2>1. CASE d = c
    BY <1>3, <2>1
  <2>2. CASE d # c
    <3>1. Alive(d) /\ worker'[d] = worker[d]
      BY <1>12, <2>2
    <3>2. worker[d].str # s /\ worker[d].conn = conn
      BY <3>1
    <3>3. stream[worker[d].str].done = d /\ worker[d].str \in Streams
      BY <3>1, <3>2 DEF PInv, WorkerIsJoinable, TypeInv
    <3> QED BY <3>1, <3>2, <3>3
  <2> QED BY <2>1, <2>2
<1> QED BY <1>4, <1>6, <1>10, <1>11, <1>13, <1>14 DEF PInv

(* startStream, after the dial: the worker is launched for the current connection. *)
LEMMA StartInstallIsSafe ==
  ASSUME PInv, NEW c \in Calls, StartInstall(c)
  PROVE  PInv'
<1> DEFINE s == call[c].str
<1>1. /\ Pc(c) = "dialed" /\ call[c].op = "on" /\ connected /\ stream[s].gen = call[c].gen
      /\ UNCHANGED <<connected, conn, connectGen>> /\ Goto(c, "returned") /\ s \in Streams
  BY DEF StartInstall, StillOwned, PInv, TypeInv, CallType
<1>2. Starting(c) /\ Owns(c)
  BY <1>1 DEF Owns, Starting
<1>3. stream[s].done = None
  BY <1>1, <1>2 DEF PInv, OwnersWait
<1>4. conn \in Calls /\ Installed(conn) /\ conn # c
  BY <1>1, Basics DEF PInv, ConnsAreInstalled, Installed
<1>5. Pc(c)' = "returned" /\ Goto(c, Pc(c)') /\ \A d \in Calls \ {c} : call'[d] = call[d]
  BY <1>1, GotoChanges DEF PInv, Pcs, Pc
<1>6. Installed(conn)'
  BY <1>1, <1>4, <1>5 DEF Installed, Pc
<1>7. /\ stream' \in [Streams -> StreamType]
      /\ \A t \in Streams \ {s} : stream'[t] = stream[t]
      /\ stream'[s].gen = stream[s].gen /\ stream'[s].done = c
  <2> DEFINE r == [stream[s] EXCEPT !.running = TRUE, !.active = TRUE, !.done = c]
  <2>1. stream[s] \in StreamType
    BY <1>1 DEF PInv, TypeInv
  <2>2. r \in StreamType /\ r.gen = stream[s].gen /\ r.done = c
    BY <2>1 DEF StreamType
  <2>3. stream' = [stream EXCEPT ![s] = r]
    BY <1>1 DEF StartInstall, PInv, TypeInv
  <2> HIDE DEF r, s
  <2> QED BY <1>1, <2>2, <2>3, StreamUpdate DEF PInv
<1>8. PICK w : /\ w = [phase |-> w.phase, str |-> s, gen |-> w.gen, conn |-> conn,
                       sock |-> w.sock, hubGen |-> w.hubGen]
               /\ worker' = [worker EXCEPT ![c] = w]
  BY DEF StartInstall
<1>9. \A d \in Calls \ {c} : Owns(d) => call[d].str # s \/ call[d].gen # stream'[s].gen
  BY <1>1, <1>2, <1>7 DEF PInv, GenerationsDiffer
<1>10. \A d \in Calls : Alive(d) /\ worker[d].conn = conn => worker[d].str # s
  BY <1>3, Basics DEF PInv, WorkerIsJoinable
<1> HIDE DEF s
<1> QED BY <1>1, <1>4, <1>5, <1>6, <1>7, <1>8, <1>9, <1>10, LaunchIsSafe

(* Connect, after its dial: a new connection starts with a speaker worker. *)
LEMMA ConnectInstallIsSafe ==
  ASSUME PInv, NEW c \in Calls, ConnectInstall(c)
  PROVE  PInv'
<1>1. Pc(c) = "dialed" /\ call[c].op = "connect" /\ ~Installed(c)
  BY DEF ConnectInstall, Installed
<1>2. CASE connectGen # call[c].gen \/ Cancelled(c)
  <2>1. Goto(c, "returned") /\ UNCHANGED <<connected, conn, connectGen, stream, worker>>
    BY <1>2 DEF ConnectInstall, ctlVars
  <2>2. Proceeds(c)
    BY <1>1, <2>1, GotoProceeds DEF PInv, Pcs
  <2> QED BY <2>1, <2>2, UnchangedIsKept, KeptIsSafe DEF PInv, TypeInv
<1>3. CASE ~(connectGen # call[c].gen \/ Cancelled(c))
  <2> DEFINE s == "speaker"
  <2>1. /\ connected' = TRUE /\ conn' = c /\ UNCHANGED connectGen /\ Goto(c, "announce")
        /\ s \in Streams
    BY <1>3, Basics DEF ConnectInstall
  <2>2. /\ Pc(c)' = "announce" /\ Goto(c, Pc(c)') /\ call'[c].op = "connect"
        /\ \A d \in Calls \ {c} : call'[d] = call[d]
    BY <1>1, <2>1, GotoChanges DEF PInv, Pcs, Pc
  <2>3. Installed(c)'
    BY <2>2 DEF Installed, Pc
  <2>4. stream[s] \in StreamType /\ stream[s].gen \in Nat
    BY <2>1 DEF PInv, TypeInv, StreamType
  <2>5. /\ stream' \in [Streams -> StreamType]
        /\ \A t \in Streams \ {s} : stream'[t] = stream[t]
        /\ stream'[s].gen = stream[s].gen + 1 /\ stream'[s].done = c
    <3> DEFINE r == [active |-> TRUE, running |-> TRUE, gen |-> stream[s].gen + 1,
                     cancel |-> c, done |-> c]
    <3>1. r \in StreamType /\ r.gen = stream[s].gen + 1 /\ r.done = c
      BY <2>4 DEF StreamType
    <3>2. stream' = [stream EXCEPT ![s] = r]
      BY <1>3, <2>1 DEF ConnectInstall, PInv, TypeInv
    <3> HIDE DEF r, s
    <3> QED BY <2>1, <3>1, <3>2, StreamUpdate DEF PInv
  <2>6. PICK w : /\ w = [phase |-> w.phase, str |-> s, gen |-> w.gen, conn |-> c,
                         sock |-> w.sock, hubGen |-> w.hubGen]
                 /\ worker' = [worker EXCEPT ![c] = w]
    BY <1>3 DEF ConnectInstall
  <2> HIDE DEF s
  <2>7. \A d \in Calls \ {c} : Owns(d) => call[d].str # s \/ call[d].gen # stream'[s].gen
    <3>1. \A d \in Calls : call[d].gen \in Nat
      BY DEF PInv, TypeInv, CallType
    <3> QED BY <2>4, <2>5, <3>1 DEF PInv, GenerationsDiffer
  <2>8. \A d \in Calls : ~(Alive(d) /\ worker[d].conn = c)
    BY <1>1 DEF PInv, ConnsAreInstalled
  <2> QED BY <2>1, <2>2, <2>3, <2>5, <2>6, <2>7, <2>8, LaunchIsSafe, ZenonT(60)
<1> QED BY <1>2, <1>3

(* Disconnect takes the next generation of every stream: all owners lose, and no
   worker belongs to the current connection any more. *)
LEMMA DisconnectIsSafe ==
  ASSUME PInv, NEW c \in Calls, DisconnectEnter(c)
  PROVE  PInv'
<1> DEFINE op == IF Pc(c) = "idle" THEN "disconnect" ELSE call[c].op
           next == IF op = "connect" THEN "reconnect" ELSE "returned"
<1>1. /\ Pc(c) \in {"idle", "disconnect"} /\ UNCHANGED worker /\ ~Installed(c)
      /\ connectGen' \in Nat
  BY DEF DisconnectEnter, Fresh, Installed, PInv, TypeInv
<1>2. call[c] \in CallType /\ op \in {"none", "connect", "disconnect", "on", "off"}
      /\ (Pc(c) = "idle" \/ op = call[c].op) /\ next \in {"returned", "reconnect"}
  BY DEF PInv, TypeInv, CallType
<1>3. CASE ~connected
  <2>1. /\ call' = [call EXCEPT ![c] = [@ EXCEPT !.op = op, !.pc = next]]
        /\ UNCHANGED <<connected, conn, stream>>
    BY <1>3 DEF DisconnectEnter
  <2> HIDE DEF op, next
  <2> QED BY <1>1, <1>2, <2>1, ReturningIsSafe
<1>4. CASE connected
  <2>1. /\ call' = [call EXCEPT ![c] =
                     [@ EXCEPT !.op = op, !.pc = "unpublish", !.conn = conn,
                               !.wait = Dones(Streams)]]
        /\ stream' = [t \in Streams |-> [Stopped EXCEPT !.gen = stream[t].gen + 1]]
        /\ conn' = None /\ connected' = FALSE
    BY <1>4 DEF DisconnectEnter
  <2>2. conn \in Calls \cup {None} /\ Dones(Streams) \subseteq Calls
    BY DEF PInv, TypeInv, StreamType, Dones
  <2> DEFINE r == [call[c] EXCEPT !.op = op, !.pc = "unpublish", !.conn = conn,
                                  !.wait = Dones(Streams)]
  <2> HIDE DEF op, next
  <2>3. call' = [call EXCEPT ![c] = r]
    BY <2>1 DEF PInv, TypeInv
  <2>4. r \in CallType /\ r.pc = "unpublish"
    BY <1>2, <2>2 DEF CallType, Pcs
  <2>5. /\ call' \in [Calls -> CallType] /\ Pc(c)' = "unpublish"
        /\ \A d \in Calls \ {c} : call'[d] = call[d]
    <3> HIDE DEF r
    <3> QED BY <2>3, <2>4, CallUpdate DEF PInv, Pc
  <2>6. \A t \in Streams : stream[t].gen \in Nat
    BY DEF PInv, TypeInv, StreamType
  <2>7. stream' \in [Streams -> StreamType]
        /\ \A t \in Streams : stream'[t].gen = stream[t].gen + 1
    <3>1. \A n \in Nat : [Stopped EXCEPT !.gen = n] \in StreamType
                         /\ [Stopped EXCEPT !.gen = n].gen = n
      BY DEF Stopped, StreamType
    <3>2. \A t \in Streams :
            /\ stream'[t] = [Stopped EXCEPT !.gen = stream[t].gen + 1]
            /\ stream[t].gen + 1 \in Nat
      BY <2>1, <2>6
    <3>3. \A t \in Streams : stream'[t] \in StreamType /\ stream'[t].gen = stream[t].gen + 1
      BY <3>1, <3>2
    <3>4. stream' = [t \in Streams |-> stream'[t]]
      BY <2>1
    <3> QED BY <3>3, <3>4
  <2>8. TypeInv'
    BY <1>1, <2>1, <2>5, <2>7 DEF PInv, TypeInv
  <2>9. \A j \in Calls : Installed(j) => Installed(j)'
    BY <1>1, <2>5 DEF Installed, Pc
  <2>10. ConnsAreInstalled'
    <3>1. ASSUME NEW d \in Calls, Alive(d)
          PROVE  worker[d].conn \in Calls /\ Installed(worker[d].conn)
      BY <3>1 DEF PInv, ConnsAreInstalled, Installed
    <3> QED BY <1>1, <2>1, <2>9, <3>1 DEF ConnsAreInstalled, Alive, Phase, Installed
  <2>11. /\ ~Owns(c)'
         /\ \A d \in Calls \ {c} :
              Owns(d)' => Owns(d) /\ call'[d] = call[d]
    BY <2>5 DEF Owns, Joining, Starting, Pc
  <2>12. \A d \in Calls : call[d].str \in Streams /\ call[d].gen \in Nat
    BY DEF PInv, TypeInv, CallType
  <2>13. \A d \in Calls \ {c} : Owns(d) => call[d].gen < stream'[call[d].str].gen
    BY <2>6, <2>7, <2>12 DEF PInv, GenerationsDiffer
  <2>14. GenerationsDiffer'
    <3>1. \A d \in Calls : Owns(d)' => call'[d].gen <= stream'[call'[d].str].gen
      BY <2>6, <2>7, <2>11, <2>12, <2>13
    <3>2. \A d, e \in Calls : Owns(d)' /\ Owns(e)' /\ d # e /\ call'[d].str = call'[e].str =>
                                call'[d].gen # call'[e].gen
      BY <2>11 DEF PInv, GenerationsDiffer
    <3> QED BY <3>1, <3>2 DEF GenerationsDiffer
  <2>15. OwnersWait'
    <3>1. \A d \in Calls : Owns(d)' => call'[d].gen # stream'[call'[d].str].gen
      BY <2>6, <2>7, <2>11, <2>12, <2>13
    <3> QED BY <3>1 DEF OwnersWait, Owns
  <2>16. OneWorkerPerStream'
    BY <1>1 DEF PInv, OneWorkerPerStream, Alive, Phase
  <2>17. WorkerIsJoinable'
    BY <1>1, <2>1, Basics DEF PInv, WorkerIsJoinable, ConnsAreInstalled, Installed, Alive, Phase
  <2> QED BY <2>8, <2>10, <2>14, <2>15, <2>16, <2>17 DEF PInv
<1> QED BY <1>3, <1>4

-----------------------------------------------------------------------------
(* The invariant.                                                          *)

(* Before the first call nobody owns anything and there is no worker. *)
LEMMA InitPInv == Init => PInv
<1> SUFFICES ASSUME Init PROVE PInv
  OBVIOUS
<1>1. \A c \in Calls : Pc(c) = "idle" /\ ~Alive(c) /\ ~Owns(c) /\ ~Joining(c) /\ ~Starting(c)
  BY DEF Init, NoCall, NoWorker, Pc, Alive, Phase, Owns, Joining, Starting
<1>2. TypeInv
  BY DEF Init, TypeInv, NoCall, NoWorker, Stopped, CallType, StreamType, Pcs, Streams, None
<1>3. ConnsAreInstalled /\ GenerationsDiffer /\ OwnersWait /\ OneWorkerPerStream
      /\ WorkerIsJoinable
  BY <1>1 DEF Init, ConnsAreInstalled, GenerationsDiffer, OwnersWait, OneWorkerPerStream,
              WorkerIsJoinable
<1> QED BY <1>2, <1>3 DEF PInv

(* Every step of every call, worker and reconnect preserves the invariant. *)
LEMMA StepPInv == PInv /\ [Next]_vars => PInv'
<1> SUFFICES ASSUME PInv, [Next]_vars PROVE PInv'
  OBVIOUS
<1>1. CASE UNCHANGED vars
  <2>1. UNCHANGED <<connected, conn, connectGen, stream, call, worker>>
    BY <1>1 DEF vars, ctlVars, procVars
  <2> QED BY <2>1 DEF PInv, TypeInv, ConnsAreInstalled, GenerationsDiffer, OwnersWait,
               OneWorkerPerStream, WorkerIsJoinable, Installed, Alive, Phase, Owns,
               Joining, Starting, Pc
<1>2. ASSUME NEW c \in Calls, CallBegins(c)
      PROVE  PInv'
  <2>1. CASE ConnectEnter(c)
    BY <2>1, ConnectProceeds
  <2>2. CASE DisconnectEnter(c)
    BY <2>2, DisconnectIsSafe
  <2>3. ASSUME NEW s \in Toggles, StartEnter(c, s) \/ StopEnter(c, s)
        PROVE  PInv'
    <3>1. s \in Streams
      BY ControllerAssumption
    <3> QED BY <2>3, <3>1, StartEnterIsSafe, StopEnterIsSafe
  <2> QED BY <1>2, <2>1, <2>2, <2>3 DEF CallBegins
<1>3. ASSUME NEW c \in Calls, CallContinues(c)
      PROVE  PInv'
  BY <1>3, ConnectProceeds, CallProceeds, ConnectInstallIsSafe, DisconnectIsSafe,
     StartJoinIsSafe, StartInstallIsSafe, StopJoinIsSafe DEF CallContinues
<1>4. ASSUME NEW c \in Calls,
             WorkerContinues(c) \/ CaptureFails(c) \/ CaptureHeader(c) \/ ReconContinues(c)
      PROVE  PInv'
  BY <1>4, WorkersAndReconnects
<1> QED BY <1>1, <1>2, <1>3, <1>4 DEF Next, Terminating

(* Every behaviour satisfies the inductive invariant. *)
THEOREM ControllerInvariant == Spec => []PInv
<1> QED BY InitPInv, StepPInv, PTL DEF Spec

(* However many calls overlap and whatever fails, two live workers never capture
   the same stream of the same connection. *)
THEOREM NeverTwoWorkers == Spec => []OneWorkerPerStream
<1>1. PInv => OneWorkerPerStream
  BY DEF PInv
<1> QED BY <1>1, ControllerInvariant, PTL

(* A live worker of the current connection is always the one whose done channel
   its stream holds, so a stop or a disconnect waits for it. *)
THEOREM WorkersCanBeJoined == Spec => []WorkerIsJoinable
<1>1. PInv => WorkerIsJoinable
  BY DEF PInv
<1> QED BY <1>1, ControllerInvariant, PTL

-----------------------------------------------------------------------------
(* What calls, workers and reconnects hold.                                *)

(* The call is done with its streams: it has returned, or has only the status to publish. *)
Settled(c) == Pc(c) \in {"announce", "returned"}

(* What a call is called with stays, and Disconnect closes a Connection that is no
   longer the current one. *)
CallsKeepTheirName ==
  \A c \in Calls :
    /\ Pc(c) = "idle" => call[c] = NoCall
    /\ Pc(c) \in {"disconnect", "reconnect", "announce"} => call[c].op = "connect"
    /\ Pc(c) \in {"dial", "dialed"} => call[c].op \in {"connect", "on"}
    /\ Pc(c) = "restart" => call[c].op = "on"
    /\ call[c].op = "connect" => call[c].str = "speaker"
    /\ call[c].op = "connect" /\ Pc(c) \in {"dial", "dialed"} => call[c].conn = c
    /\ Pc(c) \in {"unpublish", "close"} => Installed(call[c].conn) /\ call[c].conn # conn

(* A call that was overtaken no longer owns its stream. *)
OvertakenHaveLost ==
  \A c \in superseded :
    /\ Pc(c) # "idle" /\ call[c].op = "on"
    /\ Owns(c) => call[c].gen < stream[call[c].str].gen

(* Workers and reconnects belong to calls that are done. *)
LaunchedHaveReturned ==
  \A c \in Calls :
    /\ Phase(c) # "none" => Settled(c) /\ Installed(worker[c].conn)
    /\ Phase(c) \in {"end", "control", "socket"} => worker[c].str = "screen"
    /\ recon[c] # "none" => Phase(c) # "none" /\ worker[c].str = "screen"

(* The reconnect has put its socket into the control slot at some time. *)
HasSocket(c) == recon[c] \in {"check", "register", "discard", "done"}

(* A slot holds the socket that a call dialed for this very Connection and stream, or
   that a worker's reconnect dialed for it. *)
SlotsAreNamed ==
  \A k, d \in Calls :
    /\ \A s \in Streams : slot[k][s] = d =>
         Settled(d) /\ call[d].conn = k /\ call[d].str = s
    /\ slot[k]["control"] = d => HasSocket(d) /\ worker[d].conn = k

(* When a call or a reconnect has a socket, and when that socket must be open. *)
DialedSockets ==
  \A c \in Calls :
    /\ sock[c] # "none" => Pc(c) = "dialed" \/ Settled(c)
    /\ Pc(c) = "dialed" => sock[c] # "closed"
    /\ Pc(c) = "dialed" /\ call[c].str = "screen" => sock[c] = "open"
    /\ Pc(c) = "dialed" /\ call[c].op = "connect" => sock[c] = "open"
    /\ csock[c] # "none" => recon[c] = "install" \/ HasSocket(c)
    /\ recon[c] = "install" => csock[c] = "open"

(* While a screen worker lives, no other socket is in its screen slot. *)
ScreenSlotIsOwn ==
  \A c \in Calls : Alive(c) /\ worker[c].str = "screen" =>
    slot[worker[c].conn]["screen"] \in {None, c}

(* A session of the hub has a generation. *)
HubHasBegun == screenActive => screenGeneration > 0

(* The invariant of calls, workers, slots and sockets. *)
SInv ==
  PInv /\ TypeOK /\ CallsKeepTheirName /\ OvertakenHaveLost /\ LaunchedHaveReturned
    /\ SlotsAreNamed /\ DialedSockets /\ ScreenSlotIsOwn /\ HubHasBegun

-----------------------------------------------------------------------------
(* Types.                                                                  *)

(* The types of the tables. *)
Phases == {"none", "run", "end", "control", "socket", "last", "exit", "exited"}

WorkerType == [phase : Phases, str : Streams, gen : Nat, conn : Calls \cup {None},
               sock : Calls \cup {None}, hubGen : Nat]

SlotType == [Slots -> Calls \cup {None}]

(* A worker's step changes its phase and nothing else of the workers. *)
LEMMA StepPhase ==
  ASSUME TypeOK, NEW c \in Calls, NEW from, NEW to \in Phases, Step(c, from, to)
  PROVE  /\ worker' \in [Calls -> WorkerType]
         /\ worker[c].phase = from /\ worker'[c].phase = to
         /\ worker'[c].str = worker[c].str /\ worker'[c].gen = worker[c].gen
         /\ worker'[c].conn = worker[c].conn /\ worker'[c].sock = worker[c].sock
         /\ worker'[c].hubGen = worker[c].hubGen
         /\ \A d \in Calls \ {c} : worker'[d] = worker[d]
<1>1. worker \in [Calls -> WorkerType]
  BY DEF TypeOK, WorkerType, Phases
<1> QED BY <1>1 DEF Step, Phase, WorkerType

(* Closing a slot keeps the types of the tables. *)
LEMMA CloseStreamType ==
  ASSUME TypeOK, NEW k, NEW s \in Slots, CloseStream(k, s)
  PROVE  /\ slot' \in [Calls -> SlotType]
         /\ sock' \in [Calls -> SocketStates] /\ csock' \in [Calls -> SocketStates]
<1>1. slot' \in [Calls -> SlotType]
  BY DEF TypeOK, CloseStream, SlotType
<1>2. sock' \in [Calls -> SocketStates] /\ csock' \in [Calls -> SocketStates]
  BY DEF TypeOK, CloseStream, CloseSockets, SocketStates
<1> QED BY <1>1, <1>2

(* While connected there is a Connection, the work of a call. *)
LEMMA ConnectedHasConn == PInv /\ connected => conn \in Calls /\ Installed(conn)
BY DEF PInv, ConnsAreInstalled, Installed

(* One step of one call, worker or reconnect. *)
CallStep(c)   == CallBegins(c) \/ CallContinues(c)
WorkerStep(c) == WorkerContinues(c) \/ CaptureFails(c) \/ CaptureHeader(c)
StepOf(c)     == CallStep(c) \/ WorkerStep(c) \/ ReconContinues(c)

(* The workers' records keep their type. *)
LEMMA TypeOfWorkers ==
  ASSUME PInv, TypeOK, NEW c \in Calls, StepOf(c)
  PROVE  worker' \in [Calls -> WorkerType]
<1>1. worker \in [Calls -> WorkerType]
  BY DEF TypeOK, WorkerType, Phases
<1>2. CASE UNCHANGED worker
  BY <1>1, <1>2
<1>3. CASE WorkerContinues(c) \/ CaptureFails(c)
  <2>1. PICK from, to \in Phases : Step(c, from, to)
    BY <1>3 DEF WorkerContinues, CaptureStops, WorkerEndSession, WorkerCloseControl,
                WorkerCloseSocket, WorkerLast, WorkerExit, CaptureFails, AfterCapture, Phases
  <2> QED BY <2>1, StepPhase
<1>4. CASE ConnectInstall(c)
  <2>1. stream["speaker"].gen + 1 \in Nat
    BY Basics DEF TypeOK
  <2>2. \A n \in Nat : [phase |-> "run", str |-> "speaker", gen |-> n, conn |-> c,
                        sock |-> c, hubGen |-> 0] \in WorkerType
    BY Basics DEF WorkerType, Phases
  <2> QED BY <1>1, <1>4, <2>1, <2>2 DEF ConnectInstall
<1>5. CASE StartInstall(c)
  <2> DEFINE own == IF sock[c] = "open" THEN c ELSE slot[conn][call[c].str]
             hub == IF call[c].str = "screen" THEN screenGeneration + 1 ELSE 0
             r   == [phase |-> "run", str |-> call[c].str, gen |-> call[c].gen,
                     conn |-> conn, sock |-> own, hubGen |-> hub]
  <2>1. /\ conn \in Calls \cup {None} /\ call[c].gen \in Nat /\ call[c].str \in Streams
    BY DEF TypeOK
  <2>2. conn \in Calls /\ screenGeneration \in Nat
    BY <1>5, ConnectedHasConn DEF StartInstall, StillOwned, TypeOK, HubTypeOK
  <2>3. own \in Calls \cup {None} /\ hub \in Nat
    BY <2>1, <2>2 DEF TypeOK, Slots
  <2>4. worker' = [worker EXCEPT ![c] = r]
    BY <1>5 DEF StartInstall
  <2> HIDE DEF own, hub
  <2>5. r \in WorkerType
    BY <2>1, <2>3 DEF WorkerType, Phases
  <2> QED BY <1>1, <2>4, <2>5
<1> QED
  BY <1>2, <1>3, <1>4, <1>5
  DEF StepOf, CallStep, WorkerStep, CallBegins, CallContinues, ConnectEnter, ConnectAgain,
      DialSucceeds, ConnectFails, ConnectAnnounce, DisconnectEnter,
      DisconnectUnpublish, DisconnectClose, DisconnectJoin, StartEnter, StartJoin,
      StartFails, StartAbort, StopEnter, StopJoin, CaptureHeader, ReconContinues,
      ReconClosePrevious, ReconDialSucceeds, ReconDialFails, ReconInstall, ReconCheck,
      ReconRegister, ReconDiscard, procVars

(* Cancelling contexts that calls have stored keeps the set of contexts. *)
LEMMA CancelType ==
  ASSUME TypeOK, NEW S \in SUBSET (Calls \cup {None}), Cancel(S)
  PROVE  ctxDone' \in SUBSET Calls
BY DEF TypeOK, Cancel

(* The sets of calls stay sets of calls. *)
LEMMA TypeOfSets ==
  ASSUME PInv, TypeOK, CallsKeepTheirName, NEW c \in Calls, StepOf(c)
  PROVE  /\ ctxDone' \in SUBSET Calls
         /\ closed' \in SUBSET Calls
         /\ superseded' \in SUBSET Calls
         /\ overwritten' \in SUBSET Calls
<1>1. closed' \in SUBSET Calls
  <2>1. CASE DisconnectClose(c)
    BY <2>1 DEF DisconnectClose, CallsKeepTheirName, Installed, TypeOK
  <2> QED
    BY <2>1
    DEF TypeOK, StepOf, CallStep, WorkerStep, CallBegins, CallContinues, ConnectEnter,
        ConnectAgain, DialSucceeds, ConnectFails, ConnectInstall, ConnectAnnounce,
        DisconnectEnter, DisconnectUnpublish, DisconnectJoin, StartEnter, StartJoin,
        StartFails, StartAbort, StartInstall, StopEnter, StopJoin, WorkerContinues,
        CaptureStops, WorkerEndSession, WorkerCloseControl, WorkerCloseSocket, WorkerLast,
        WorkerExit, CaptureFails, CaptureHeader, ReconContinues, ReconClosePrevious,
        ReconDialSucceeds, ReconDialFails, ReconInstall, ReconCheck, ReconRegister,
        ReconDiscard, netVars
<1>2. superseded' \in SUBSET Calls
  BY DEF TypeOK, Overtake, StepOf, CallStep, WorkerStep, CallBegins, CallContinues,
        ConnectEnter, ConnectAgain, DialSucceeds, ConnectFails, ConnectInstall,
        ConnectAnnounce, DisconnectEnter, DisconnectUnpublish, DisconnectClose,
        DisconnectJoin, StartEnter, StartJoin, StartFails, StartAbort, StartInstall,
        StopEnter, StopJoin, WorkerContinues, CaptureStops, WorkerEndSession,
        WorkerCloseControl, WorkerCloseSocket, WorkerLast, WorkerExit, CaptureFails,
        CaptureHeader, ReconContinues, ReconClosePrevious, ReconDialSucceeds,
        ReconDialFails, ReconInstall, ReconCheck, ReconRegister, ReconDiscard, procVars
<1>3. ctxDone' \in SUBSET Calls
  <2>1. \A s \in Streams : stream[s].cancel \in Calls \cup {None}
    BY DEF TypeOK
  <2>2. call[c].str \in Streams /\ connectCancel \in Calls \cup {None}
    BY DEF TypeOK
  <2>3. ASSUME NEW s \in Streams, NEW stm, BeginStart(c, s, stm),
               stm = stream \/ stm = [stream EXCEPT ![s] =
                                      [@ EXCEPT !.done = None, !.running = FALSE]]
        PROVE  ctxDone' \in SUBSET Calls
    <3>1. CASE stm = stream
      BY <2>1, <2>3, <3>1, CancelType DEF BeginStart
    <3>2. CASE stm = [stream EXCEPT ![s] = [@ EXCEPT !.done = None, !.running = FALSE]]
      <4>1. stream[s] \in StreamType /\ stream \in [Streams -> StreamType]
        BY DEF TypeOK, StreamType
      <4>2. stm[s] = [stream[s] EXCEPT !.done = None, !.running = FALSE]
        BY <3>2, <4>1
      <4>3. stm[s].cancel = stream[s].cancel
        BY <4>1, <4>2 DEF StreamType
      <4> QED BY <2>1, <2>3, <4>3, CancelType DEF BeginStart
    <3> QED BY <2>3, <3>1, <3>2
  <2>4. CASE UNCHANGED ctxDone
    BY <2>4 DEF TypeOK
  <2>5. CASE \E S \in SUBSET (Calls \cup {None}) : Cancel(S)
    BY <2>5, CancelType
  <2>6. ASSUME NEW s \in Streams, StartEnter(c, s)
        PROVE  ctxDone' \in SUBSET Calls
    <3>1. \/ UNCHANGED ctxDone \/ Cancel({stream[s].cancel}) \/ BeginStart(c, s, stream)
      BY <2>6 DEF StartEnter
    <3> QED BY <2>1, <2>3, <2>4, <3>1, CancelType
  <2>7. CASE StartJoin(c)
    <3>1. \/ UNCHANGED ctxDone
          \/ BeginStart(c, call[c].str, [stream EXCEPT ![call[c].str] =
                                                  [@ EXCEPT !.done = None, !.running = FALSE]])
      BY <2>7 DEF StartJoin
    <3> QED BY <2>2, <2>3, <2>4, <3>1
  <2>8. ASSUME NEW s \in Streams, StopEnter(c, s)
        PROVE  ctxDone' \in SUBSET Calls
    <3>1. \/ UNCHANGED ctxDone \/ Cancel({stream[s].cancel})
      BY <2>8 DEF StopEnter
    <3> QED BY <2>1, <2>4, <3>1, CancelType
  <2>9. CASE DisconnectEnter(c)
    <3>1. \/ Cancel({connectCancel})
          \/ Cancel({connectCancel} \cup {stream[s].cancel : s \in Streams})
      BY <2>9 DEF DisconnectEnter
    <3> QED BY <2>1, <2>2, <3>1, CancelType
  <2>10. CASE ConnectEnter(c) \/ StartFails(c) \/ StartAbort(c) \/ WorkerExit(c)
    <3>1. Cancel({connectCancel}) \/ Cancel({c})
      BY <2>10 DEF ConnectEnter, StartFails, StartAbort, WorkerExit
    <3> QED BY <2>2, <3>1, CancelType
  <2>11. \A s \in Toggles : s \in Streams
    BY ControllerAssumption
  <2> QED
    BY <2>4, <2>6, <2>7, <2>8, <2>9, <2>10, <2>11
    DEF StepOf, CallStep, WorkerStep, CallBegins, CallContinues,
        ConnectAgain, DialSucceeds, ConnectFails, ConnectInstall,
        ConnectAnnounce, DisconnectUnpublish, DisconnectClose,
        DisconnectJoin, StartInstall, StopJoin, WorkerContinues, CaptureStops,
        WorkerEndSession, WorkerCloseControl, WorkerCloseSocket, WorkerLast, CaptureFails,
        CaptureHeader, ReconContinues, ReconClosePrevious, ReconDialSucceeds,
        ReconDialFails, ReconInstall, ReconCheck, ReconRegister, ReconDiscard, netVars
<1>4. overwritten' \in SUBSET Calls
  <2>1. CASE ConnectInstall(c)
    <3>1. UNCHANGED overwritten \/ overwritten' = overwritten \cup ({conn} \ {None})
      BY <2>1 DEF ConnectInstall
    <3> QED BY <3>1 DEF TypeOK
  <2> QED
    BY <2>1
    DEF TypeOK, StepOf, CallStep, WorkerStep, CallBegins, CallContinues, ConnectEnter,
        ConnectAgain, DialSucceeds, ConnectFails, ConnectAnnounce, DisconnectEnter,
        DisconnectUnpublish, DisconnectClose, DisconnectJoin, StartEnter, StartJoin,
        StartFails, StartAbort, StartInstall, StopEnter, StopJoin, WorkerContinues,
        CaptureStops, WorkerEndSession, WorkerCloseControl, WorkerCloseSocket, WorkerLast,
        WorkerExit, CaptureFails, CaptureHeader, ReconContinues, ReconClosePrevious,
        ReconDialSucceeds, ReconDialFails, ReconInstall, ReconCheck, ReconRegister,
        ReconDiscard, procVars
<1> QED BY <1>1, <1>2, <1>3, <1>4

-----------------------------------------------------------------------------
(* The tables of sockets.                                                  *)

(* The slots S of Connection k are emptied and their sockets closed. *)
Empties(k, S) ==
  /\ slot' \in [Calls -> SlotType]
  /\ sock' \in [Calls -> SocketStates] /\ csock' \in [Calls -> SocketStates]
  /\ \A j \in Calls, t \in Slots :
       slot'[j][t] = IF j = k /\ t \in S THEN None ELSE slot[j][t]
  /\ \A d \in Calls :
       /\ sock'[d] = IF \E t \in S \ {"control"} : slot[k][t] = d THEN "closed" ELSE sock[d]
       /\ csock'[d] = IF "control" \in S /\ slot[k]["control"] = d
                      THEN "closed" ELSE csock[d]

(* Connection.CloseStream empties one slot. *)
LEMMA CloseStreamEmpties ==
  ASSUME TypeOK, NEW k \in Calls, NEW s \in Slots, CloseStream(k, s)
  PROVE  Empties(k, {s})
<1>1. slot' \in [Calls -> SlotType] /\ sock' \in [Calls -> SocketStates]
      /\ csock' \in [Calls -> SocketStates]
  BY CloseStreamType
<1>2. \A j \in Calls, t \in Slots :
        slot'[j][t] = IF j = k /\ t \in {s} THEN None ELSE slot[j][t]
  BY DEF TypeOK, CloseStream
<1>3. \A d \in Calls : d \in SocketsOf(k, {s}) <=> slot[k][s] = d
  BY Basics DEF SocketsOf
<1>4. CASE s = "control"
  <2>1. /\ \A d \in Calls : sock'[d] = sock[d]
        /\ \A d \in Calls : csock'[d] = IF slot[k]["control"] = d THEN "closed" ELSE csock[d]
    BY <1>3, <1>4 DEF TypeOK, CloseStream, CloseSockets
  <2> QED BY <1>1, <1>2, <1>4, <2>1 DEF Empties
<1>5. CASE s # "control"
  <2>1. /\ \A d \in Calls : sock'[d] = IF slot[k][s] = d THEN "closed" ELSE sock[d]
        /\ \A d \in Calls : csock'[d] = csock[d]
    BY <1>3, <1>5 DEF TypeOK, CloseStream, CloseSockets
  <2> QED BY <1>1, <1>2, <1>5, <2>1 DEF Empties
<1> QED BY <1>4, <1>5

(* Connection.Close empties all of them. *)
LEMMA DisconnectCloseEmpties ==
  ASSUME TypeOK, CallsKeepTheirName, NEW c \in Calls, DisconnectClose(c)
  PROVE  call[c].conn \in Calls /\ Empties(call[c].conn, Slots)
<1> DEFINE k == call[c].conn
<1>1. k \in Calls
  BY DEF DisconnectClose, CallsKeepTheirName, Installed
<1>2. /\ slot' = [slot EXCEPT ![k] = [s \in Slots |-> None]]
      /\ CloseSockets(SocketsOf(k, Streams), SocketsOf(k, {"control"}))
  BY DEF DisconnectClose
<1> HIDE DEF k
<1>3. slot' \in [Calls -> SlotType]
  BY <1>1, <1>2 DEF TypeOK, SlotType
<1>4. \A j \in Calls, t \in Slots :
        slot'[j][t] = IF j = k /\ t \in Slots THEN None ELSE slot[j][t]
  BY <1>1, <1>2 DEF TypeOK
<1>5. /\ sock' \in [Calls -> SocketStates] /\ csock' \in [Calls -> SocketStates]
  BY <1>2 DEF TypeOK, CloseSockets, SocketStates
<1>6. Streams = Slots \ {"control"}
  BY DEF Streams, Slots
<1>7. \A d \in Calls :
        /\ d \in SocketsOf(k, Streams) <=> \E t \in Slots \ {"control"} : slot[k][t] = d
        /\ d \in SocketsOf(k, {"control"}) <=> slot[k]["control"] = d
  BY <1>6, Basics DEF SocketsOf
<1>8. \A d \in Calls :
        /\ sock'[d] = IF \E t \in Slots \ {"control"} : slot[k][t] = d THEN "closed" ELSE sock[d]
        /\ csock'[d] = IF "control" \in Slots /\ slot[k]["control"] = d
                       THEN "closed" ELSE csock[d]
  BY <1>2, <1>7 DEF TypeOK, CloseSockets, Slots
<1> QED BY <1>1, <1>3, <1>4, <1>5, <1>8 DEF Empties, k

(* The socket own is put in slot s of Connection k, and the one it replaces closed. *)
Installs(k, s, own) ==
  /\ slot' \in [Calls -> SlotType]
  /\ sock' \in [Calls -> SocketStates] /\ csock' \in [Calls -> SocketStates]
  /\ \A j \in Calls, t \in Slots :
       slot'[j][t] = IF j = k /\ t = s THEN own ELSE slot[j][t]
  /\ \A d \in Calls :
       /\ sock'[d] = IF s # "control" /\ slot[k][s] = d /\ d # own THEN "closed" ELSE sock[d]
       /\ csock'[d] = IF s = "control" /\ slot[k][s] = d /\ d # own
                      THEN "closed" ELSE csock[d]

(* InstallStream for a stream of the current Connection... *)
LEMMA StartInstallInstalls ==
  ASSUME PInv, TypeOK, NEW c \in Calls, StartInstall(c)
  PROVE  Installs(conn, call[c].str, IF sock[c] = "open" THEN c ELSE slot[conn][call[c].str])
<1> DEFINE s == call[c].str
           own == IF sock[c] = "open" THEN c ELSE slot[conn][s]
<1>1. s \in Streams /\ s \in Slots /\ s # "control" /\ conn \in Calls
  BY ConnectedHasConn DEF TypeOK, Slots, Streams, StartInstall, StillOwned
<1>2. own \in Calls \cup {None}
  BY <1>1 DEF TypeOK
<1>3. /\ slot' = [slot EXCEPT ![conn][s] = own]
      /\ CloseSockets(SocketsOf(conn, {s}) \ {own}, {})
  BY DEF StartInstall
<1> HIDE DEF s, own
<1>4. slot' \in [Calls -> SlotType]
  BY <1>1, <1>2, <1>3 DEF TypeOK, SlotType
<1>5. \A j \in Calls, t \in Slots :
        slot'[j][t] = IF j = conn /\ t = s THEN own ELSE slot[j][t]
  BY <1>1, <1>3 DEF TypeOK
<1>6. \A d \in Calls : d \in SocketsOf(conn, {s}) \ {own} <=> slot[conn][s] = d /\ d # own
  BY Basics DEF SocketsOf
<1>7. /\ sock' \in [Calls -> SocketStates] /\ csock' \in [Calls -> SocketStates]
      /\ \A d \in Calls :
           /\ sock'[d] = IF slot[conn][s] = d /\ d # own THEN "closed" ELSE sock[d]
           /\ csock'[d] = csock[d]
  BY <1>3, <1>6 DEF TypeOK, CloseSockets, SocketStates
<1> QED BY <1>1, <1>4, <1>5, <1>7 DEF Installs, own, s

(* ... and for the control stream. *)
LEMMA ReconInstallInstalls ==
  ASSUME TypeOK, NEW c \in Calls, ReconInstall(c), ReconGoto(c, "install", "check"),
         worker[c].conn \in Calls
  PROVE  Installs(worker[c].conn, "control", c)
<1> DEFINE k == worker[c].conn
<1>1. /\ slot' = [slot EXCEPT ![k]["control"] = c]
      /\ CloseSockets({}, SocketsOf(k, {"control"}) \ {c})
  <2>1. ~ReconGoto(c, "install", "done")
    BY DEF ReconGoto, TypeOK
  <2> QED BY <2>1 DEF ReconInstall
<1> HIDE DEF k
<1>2. k \in Calls /\ "control" \in Slots
  BY DEF k, Slots
<1>3. slot' \in [Calls -> SlotType]
  BY <1>1, <1>2 DEF TypeOK, SlotType
<1>4. \A j \in Calls, t \in Slots :
        slot'[j][t] = IF j = k /\ t = "control" THEN c ELSE slot[j][t]
  BY <1>1, <1>2 DEF TypeOK
<1>5. \A d \in Calls : d \in SocketsOf(k, {"control"}) \ {c} <=> slot[k]["control"] = d /\ d # c
  BY Basics DEF SocketsOf
<1>6. /\ sock' \in [Calls -> SocketStates] /\ csock' \in [Calls -> SocketStates]
      /\ \A d \in Calls :
           /\ csock'[d] = IF slot[k]["control"] = d /\ d # c THEN "closed" ELSE csock[d]
           /\ sock'[d] = sock[d]
  BY <1>1, <1>5 DEF TypeOK, CloseSockets, SocketStates
<1> QED BY <1>2, <1>3, <1>4, <1>6 DEF Installs, k

(* Every step leaves the sockets alone, empties slots of a Connection, or is one
   of the few that dial, install or drop a socket. *)
LEMMA SocketSteps ==
  ASSUME PInv, TypeOK, CallsKeepTheirName, LaunchedHaveReturned, NEW c \in Calls, StepOf(c)
  PROVE  \/ UNCHANGED <<slot, sock, csock>>
         \/ \E k \in Calls, S \in SUBSET Slots : Empties(k, S)
         \/ DialSucceeds(c) \/ StartAbort(c) \/ ConnectInstall(c) \/ StartInstall(c)
         \/ ReconDialSucceeds(c) \/ ReconInstall(c) \/ ReconDiscard(c)
<1>1. Streams \subseteq Slots /\ "control" \in Slots /\ Toggles \subseteq Streams
  BY ControllerAssumption DEF Slots
<1>2. ASSUME NEW k \in Calls, NEW s \in Slots, CloseStream(k, s)
      PROVE  \E j \in Calls, S \in SUBSET Slots : Empties(j, S)
  BY <1>2, CloseStreamEmpties
<1>3. connected => conn \in Calls
  BY ConnectedHasConn
<1>4. Phase(c) # "none" => worker[c].conn \in Calls /\ worker[c].str \in Streams
  BY DEF LaunchedHaveReturned, Installed, TypeOK
<1>5. ASSUME NEW s \in Streams, StartEnter(c, s) \/ StopEnter(c, s)
      PROVE  UNCHANGED <<slot, sock, csock>> \/ \E j \in Calls, S \in SUBSET Slots : Empties(j, S)
  <2>1. UNCHANGED <<slot, sock, csock>> \/ (connected /\ CloseStream(conn, s))
    BY <1>5 DEF StartEnter, BeginStart, StopEnter
  <2> QED BY <1>1, <1>2, <1>3, <2>1
<1>6. CASE StartJoin(c)
  <2>1. UNCHANGED <<slot, sock, csock>> \/ (connected /\ CloseStream(conn, call[c].str))
    BY <1>6 DEF StartJoin, BeginStart
  <2>2. call[c].str \in Slots
    BY <1>1 DEF TypeOK
  <2> QED BY <1>2, <1>3, <2>1, <2>2
<1>7. CASE DisconnectClose(c)
  BY <1>7, DisconnectCloseEmpties
<1>8. CASE WorkerCloseControl(c) \/ WorkerCloseSocket(c) \/ WorkerLast(c)
  <2>1. Phase(c) \in {"control", "socket", "last"}
    BY <1>8 DEF WorkerCloseControl, WorkerCloseSocket, WorkerLast, Step
  <2>2. \/ UNCHANGED <<slot, sock, csock>>
        \/ CloseStream(worker[c].conn, "control") \/ CloseStream(worker[c].conn, "screen")
        \/ CloseStream(worker[c].conn, worker[c].str)
    BY <1>8 DEF WorkerCloseControl, WorkerCloseSocket, WorkerLast, WasRunning
  <2> QED BY <1>1, <1>2, <1>4, <2>1, <2>2, Basics
<1>9. CASE ReconClosePrevious(c)
  <2>1. Phase(c) # "none"
    BY <1>9 DEF ReconClosePrevious, LaunchedHaveReturned
  <2>2. UNCHANGED <<slot, sock, csock>> \/ CloseStream(worker[c].conn, "control")
    BY <1>9 DEF ReconClosePrevious
  <2> QED BY <1>1, <1>2, <1>4, <2>1, <2>2
<1> QED
  BY <1>1, <1>5, <1>6, <1>7, <1>8, <1>9
  DEF StepOf, CallStep, WorkerStep, CallBegins, CallContinues, ConnectEnter, ConnectAgain,
      ConnectFails, ConnectAnnounce, DisconnectEnter, DisconnectUnpublish, DisconnectJoin,
      StartFails, StopJoin, WorkerContinues, CaptureStops, WorkerEndSession, WorkerExit,
      CaptureFails, CaptureHeader, ReconContinues, ReconDialFails, ReconCheck,
      ReconRegister, netVars

(* The tables of slots and sockets keep their types. *)
LEMMA TypeOfTables ==
  ASSUME PInv, TypeOK, CallsKeepTheirName, LaunchedHaveReturned, NEW c \in Calls, StepOf(c)
  PROVE  /\ slot' \in [Calls -> SlotType]
         /\ sock' \in [Calls -> SocketStates] /\ csock' \in [Calls -> SocketStates]
<1>1. /\ slot \in [Calls -> SlotType]
      /\ sock \in [Calls -> SocketStates] /\ csock \in [Calls -> SocketStates]
  BY DEF TypeOK, SlotType
<1>2. "open" \in SocketStates /\ "closed" \in SocketStates /\ "speaker" \in Slots
  BY DEF SocketStates, Slots, Streams
<1>3. CASE DialSucceeds(c) \/ StartAbort(c) \/ ConnectInstall(c) \/ ReconDialSucceeds(c)
           \/ ReconDiscard(c)
  <2>1. /\ UNCHANGED sock \/ sock' = [sock EXCEPT ![c] = "open"] \/ CloseDialed(c)
        /\ UNCHANGED csock \/ csock' = [csock EXCEPT ![c] = "open"]
             \/ csock' = [csock EXCEPT ![c] = "closed"]
        /\ UNCHANGED slot \/ slot' = [slot EXCEPT ![c]["speaker"] = c]
             \/ slot' = [slot EXCEPT ![worker[c].conn]["control"] = None]
    BY <1>3 DEF DialSucceeds, StartAbort, ConnectInstall, ReconDialSucceeds, ReconDiscard
  <2>2. sock' \in [Calls -> SocketStates]
    BY <1>1, <1>2, <2>1 DEF CloseDialed
  <2>3. csock' \in [Calls -> SocketStates]
    BY <1>1, <1>2, <2>1
  <2>4. slot' \in [Calls -> SlotType]
    BY <1>1, <1>2, <2>1 DEF SlotType
  <2> QED BY <2>2, <2>3, <2>4
<1>4. CASE StartInstall(c)
  BY <1>4, StartInstallInstalls DEF Installs
<1>5. CASE ReconInstall(c)
  <2>1. CASE ReconGoto(c, "install", "check")
    <3>1. worker[c].conn \in Calls
      BY <2>1 DEF ReconGoto, LaunchedHaveReturned, Installed
    <3> QED BY <1>5, <2>1, <3>1, ReconInstallInstalls DEF Installs
  <2>2. CASE ~ReconGoto(c, "install", "check")
    BY <1>1, <1>2, <1>5, <2>2 DEF ReconInstall
  <2> QED BY <2>1, <2>2
<1>6. CASE UNCHANGED <<slot, sock, csock>>
  BY <1>1, <1>6
<1>7. CASE \E k \in Calls, S \in SUBSET Slots : Empties(k, S)
  BY <1>7 DEF Empties
<1> QED BY <1>3, <1>4, <1>5, <1>6, <1>7, SocketSteps

(* The progress of a reconnection stays one of its steps. *)
LEMMA ReconTypeNext ==
  ASSUME TypeOK, NEW c \in Calls, StepOf(c)
  PROVE  recon' \in [Calls -> {"none", "close", "dial", "install", "check",
                              "register", "discard", "done"}]
<1> DEFINE R == {"none", "close", "dial", "install", "check", "register", "discard", "done"}
<1>0. recon \in [Calls -> R]
  BY DEF TypeOK
<1>1. ASSUME NEW to \in R, recon' = [recon EXCEPT ![c] = to]
      PROVE  recon' \in [Calls -> R]
  BY <1>0, <1>1
<1> USE DEF StepOf, CallStep, WorkerStep, CallBegins, CallContinues, WorkerContinues,
      ReconContinues
<1>2. CASE StartInstall(c)
  <2>1. UNCHANGED recon \/ recon' = [recon EXCEPT ![c] = "close"]
    BY <1>2 DEF StartInstall
  <2> QED BY <1>0, <1>1, <2>1
<1>3. CASE ReconContinues(c)
  <2>1. \E to \in R : recon' = [recon EXCEPT ![c] = to]
    BY <1>3 DEF ReconClosePrevious, ReconDialSucceeds, ReconDialFails, ReconInstall,
      ReconCheck, ReconRegister, ReconDiscard, ReconGoto
  <2> QED BY <1>1, <2>1
<1>4. CASE WorkerStep(c)
  <2>1. UNCHANGED recon
    BY <1>4 DEF CaptureStops, WorkerEndSession, WorkerCloseControl, WorkerCloseSocket,
      WorkerLast, WorkerExit, CaptureFails, CaptureHeader, procVars
  <2> QED BY <1>0, <2>1
<1>5. CASE CallStep(c) /\ ~StartInstall(c)
  <2>1. UNCHANGED recon
    BY <1>5 DEF ConnectEnter, ConnectAgain, DialSucceeds, ConnectFails, ConnectInstall,
      ConnectAnnounce, DisconnectEnter, DisconnectUnpublish, DisconnectClose,
      DisconnectJoin, StartEnter, StartJoin, StartFails, StartAbort, StopEnter, StopJoin,
      procVars
  <2> QED BY <1>0, <2>1
<1> QED BY <1>2, <1>3, <1>4, <1>5

(* What the steps do to the other variables of the controller. *)
LEMMA TypeOfScalars ==
  ASSUME PInv, TypeOK, NEW c \in Calls, StepOf(c)
  PROVE  /\ connected' \in BOOLEAN /\ phoneShown' \in BOOLEAN
         /\ connectCancel' \in Calls \cup {None} /\ controlOwner' \in Calls \cup {None}
         /\ screenHubGen' \in Nat
         /\ recon' \in [Calls -> {"none", "close", "dial", "install", "check",
                                  "register", "discard", "done"}]
<1>0. screenGeneration + 1 \in Nat
  BY HubAssumption DEF TypeOK, HubTypeOK
<1> USE DEF StepOf, CallStep, WorkerStep, CallBegins, CallContinues, ConnectEnter,
      ConnectAgain, BeginDial, DialSucceeds, ConnectFails, ConnectInstall, ConnectAnnounce,
      DisconnectEnter, DisconnectUnpublish, DisconnectClose, DisconnectJoin,
      StartEnter, StartJoin, StartFails, StartAbort, StartInstall, StopEnter, StopJoin,
      WorkerContinues, CaptureStops, WorkerEndSession, WorkerCloseControl,
      WorkerCloseSocket, WorkerLast, WorkerExit, CaptureFails, CaptureHeader,
      ReconContinues, ReconClosePrevious, ReconDialSucceeds, ReconDialFails,
      ReconInstall, ReconCheck, ReconRegister, ReconDiscard
<1>1. connected' \in BOOLEAN /\ phoneShown' \in BOOLEAN
  BY DEF TypeOK, ctlVars
<1>2. connectCancel' \in Calls \cup {None} /\ controlOwner' \in Calls \cup {None}
  BY DEF TypeOK, ctlVars
<1>3. screenHubGen' \in Nat
  <2>1. UNCHANGED screenHubGen \/ screenHubGen' = 0 \/ screenHubGen' = screenGeneration + 1
    BY DEF ctlVars
  <2>2. screenHubGen \in Nat
    BY DEF TypeOK
  <2> QED BY ONLY <1>0, <2>1, <2>2
<1>4. recon' \in [Calls -> {"none", "close", "dial", "install", "check",
                            "register", "discard", "done"}]
  BY ONLY TypeOK, StepOf(c), ReconTypeNext
<1> QED BY <1>1, <1>2, <1>3, <1>4

(* What the controller does to the hub in one step. *)
LEMMA HubSteps ==
  ASSUME TypeOK, HubHasBegun, NEW c \in Calls, StepOf(c)
  PROVE  \/ [HubNext]_hubVars
         \/ \E g \in Nat, ok \in BOOLEAN : EndScreenSession(g, ok)
<1>1. CASE DisconnectEnter(c) \/ WorkerEndSession(c) \/ \E s \in Toggles : StopEnter(c, s)
  <2>1. \/ UNCHANGED hubVars
        \/ \E ok \in WriteOutcomes : EndScreenSession(screenHubGen, ok)
        \/ \E ok \in WriteOutcomes : EndScreenSession(worker[c].hubGen, ok)
    BY <1>1 DEF DisconnectEnter, WorkerEndSession, StopEnter
  <2>2. WriteOutcomes \subseteq BOOLEAN
    BY DEF WriteOutcomes
  <2>3. screenHubGen \in Nat /\ worker[c].hubGen \in Nat
    BY DEF TypeOK
  <2> QED BY <2>1, <2>2, <2>3
<1>2. CASE CaptureHeader(c)
  <2>1. PICK ok \in WriteOutcomes : SetScreenSession(worker[c].hubGen, ok)
    BY <1>2 DEF CaptureHeader
  <2>2. ok \in BOOLEAN
    BY DEF WriteOutcomes
  <2>3. worker[c].hubGen \in Generations
    BY <2>1, HubAssumption DEF SetScreenSession, IsCurrent, Generations, HubHasBegun, TypeOK, HubTypeOK
  <2> QED BY <2>1, <2>2, <2>3 DEF HubNext
<1>3. CASE StartInstall(c)
  <2>1. UNCHANGED hubVars \/ \E ok \in WriteOutcomes : BeginScreenSession(ok)
    BY <1>3 DEF StartInstall
  <2> QED BY <2>1 DEF HubNext, WriteOutcomes
<1>4. CASE ReconRegister(c)
  <2>1. CASE ~IsCurrent(worker[c].hubGen)
    BY <1>4, <2>1 DEF ReconRegister, HubUnchanged
  <2>2. CASE IsCurrent(worker[c].hubGen)
    <3>1. PICK ok \in BOOLEAN : RegisterControlRoute(worker[c].hubGen, c, ok)
      BY <1>4, <2>2 DEF ReconRegister
    <3>2. worker[c].hubGen \in Generations /\ c \in Routes
      BY <2>2, HubAssumption, ControllerAssumption
      DEF IsCurrent, Generations, HubHasBegun, TypeOK, HubTypeOK
    <3> QED BY <3>1, <3>2 DEF HubNext
  <2> QED BY <2>1, <2>2
<1> QED
  BY <1>1, <1>2, <1>3, <1>4
  DEF StepOf, CallStep, WorkerStep, CallBegins, CallContinues, ConnectEnter, ConnectAgain,
      DialSucceeds, ConnectFails, ConnectInstall, ConnectAnnounce,
      DisconnectUnpublish, DisconnectClose, DisconnectJoin, StartEnter, StartJoin,
      StartFails, StartAbort, StopJoin, WorkerContinues, CaptureStops, WorkerCloseControl,
      WorkerCloseSocket, WorkerLast, WorkerExit, CaptureFails, ReconContinues,
      ReconClosePrevious, ReconDialSucceeds, ReconDialFails, ReconInstall, ReconCheck,
      ReconDiscard

(* Ending a session, both halves of it at once, keeps the hub's types. *)
LEMMA EndSessionType ==
  ASSUME HubTypeOK, NEW g, NEW ok \in BOOLEAN, EndScreenSession(g, ok)
  PROVE  HubTypeOK'
<1>1. CASE UNCHANGED hubVars
  BY <1>1, TypeNext
<1>2. CASE ~UNCHANGED hubVars
  <2>1. DetachSession /\ RestoreDisplay(controlRoute, ok) /\ routes' = Closed(controlRoute)
        /\ UNCHANGED ending
    BY <1>2 DEF EndScreenSession, HubUnchanged
  <2>2. replay' \in ReplayType
    BY <2>1, EmptyReplayTyped DEF DetachSession
  <2>3. routes' \in [Routes -> {"fresh", "open", "closed"}]
    BY <2>1 DEF HubTypeOK, Closed
  <2>4. displayPowerOff' \in BOOLEAN /\ phoneDark' \in BOOLEAN /\ restoreFailed' \in BOOLEAN
    BY <2>1 DEF RestoreDisplay, displayVars, HubTypeOK
  <2> QED BY <2>1, <2>2, <2>3, <2>4 DEF DetachSession, HubTypeOK, inputVars
<1> QED BY <1>1, <1>2

(* Every step keeps every variable in its type. *)
LEMMA StepTypeOK ==
  ASSUME PInv, PInv', TypeOK, CallsKeepTheirName, LaunchedHaveReturned, HubHasBegun,
         NEW c \in Calls, StepOf(c)
  PROVE  TypeOK'
<1>1. HubTypeOK'
  BY HubSteps, EndSessionType, TypeNext DEF TypeOK
<1>2. worker' \in [Calls -> WorkerType]
  BY TypeOfWorkers
<1>3. TypeInv'
  BY DEF PInv
<1> QED BY <1>1, <1>2, <1>3, TypeOfSets, TypeOfTables, TypeOfScalars
        DEF TypeOK, TypeInv, WorkerType, Phases, SlotType, CallType, StreamType

-----------------------------------------------------------------------------
(* The record of a call.                                                   *)

(* What the first step of a call, and those that take a generation later, write in
   its record. *)
LEMMA ConnectEnterRecord ==
  ASSUME call \in [Calls -> CallType], NEW c \in Calls, ConnectEnter(c)
  PROVE  /\ \A d \in Calls \ {c} : call'[d] = call[d]
         /\ call'[c].op = "connect" /\ call'[c].str = call[c].str
         /\ call'[c].pc \in {"disconnect", "dial"}
         /\ call'[c].pc = "dial" => call'[c].conn = c
<1>1. call[c] \in CallType
  OBVIOUS
<1>2. \/ call' = [call EXCEPT ![c] = [@ EXCEPT !.op = "connect", !.pc = "disconnect"]]
      \/ call' = [call EXCEPT ![c] =
                   [@ EXCEPT !.op = "connect", !.pc = "dial", !.gen = connectGen + 1,
                             !.conn = c]]
  BY DEF ConnectEnter, BeginDial
<1>3. /\ \A d \in Calls \ {c} : call'[d] = call[d]
      /\ \/ call'[c] = [call[c] EXCEPT !.op = "connect", !.pc = "disconnect"]
         \/ call'[c] = [call[c] EXCEPT !.op = "connect", !.pc = "dial",
                                       !.gen = connectGen + 1, !.conn = c]
  BY <1>2
<1> QED BY <1>1, <1>3 DEF CallType

(* ... of Disconnect... *)
LEMMA DisconnectEnterRecord ==
  ASSUME call \in [Calls -> CallType], NEW c \in Calls, DisconnectEnter(c)
  PROVE  /\ \A d \in Calls \ {c} : call'[d] = call[d]
         /\ call'[c].op = (IF Pc(c) = "idle" THEN "disconnect" ELSE call[c].op)
         /\ call'[c].str = call[c].str
         /\ ~connected => /\ call'[c].pc \in {"reconnect", "returned"}
                          /\ call'[c].pc = "reconnect" => call'[c].op = "connect"
         /\ connected => call'[c].pc = "unpublish" /\ call'[c].conn = conn
<1> DEFINE op == IF Pc(c) = "idle" THEN "disconnect" ELSE call[c].op
           next == IF op = "connect" THEN "reconnect" ELSE "returned"
<1>1. /\ ~connected => call' = [call EXCEPT ![c] = [@ EXCEPT !.op = op, !.pc = next]]
      /\ connected => call' = [call EXCEPT ![c] =
                        [@ EXCEPT !.op = op, !.pc = "unpublish", !.conn = conn,
                                  !.wait = Dones(Streams)]]
  BY DEF DisconnectEnter
<1>2. next \in {"reconnect", "returned"} /\ (next = "reconnect" => op = "connect")
  OBVIOUS
<1>0. call[c] \in CallType
  OBVIOUS
<1> HIDE DEF op, next
<1>3. CASE connected
  <2>1. /\ \A d \in Calls \ {c} : call'[d] = call[d]
        /\ call'[c] = [call[c] EXCEPT !.op = op, !.pc = "unpublish", !.conn = conn,
                                      !.wait = Dones(Streams)]
    BY <1>1, <1>3
  <2>2. /\ call'[c].op = op /\ call'[c].str = call[c].str
        /\ call'[c].pc = "unpublish" /\ call'[c].conn = conn
    BY <1>0, <2>1 DEF CallType
  <2> QED BY <1>3, <2>1, <2>2 DEF op
<1>4. CASE ~connected
  <2>1. /\ \A d \in Calls \ {c} : call'[d] = call[d]
        /\ call'[c] = [call[c] EXCEPT !.op = op, !.pc = next]
    BY <1>1, <1>4
  <2>2. call'[c].op = op /\ call'[c].str = call[c].str /\ call'[c].pc = next
    BY <1>0, <2>1 DEF CallType
  <2> QED BY <1>2, <1>4, <2>1, <2>2 DEF op
<1> QED BY <1>3, <1>4

(* ... of a start that takes a generation... *)
LEMMA BeginStartRecord ==
  ASSUME call \in [Calls -> CallType], NEW c \in Calls, NEW s, NEW stm, BeginStart(c, s, stm)
  PROVE  /\ \A d \in Calls \ {c} : call'[d] = call[d]
         /\ call'[c].op = "on" /\ call'[c].str = s /\ call'[c].conn = conn
         /\ call'[c].gen = stm[s].gen + 1
         /\ call'[c].pc = IF s = "screen" \/ slot[conn][s] = None THEN "dial" ELSE "dialed"
<1>1. call' = [call EXCEPT ![c] =
                [@ EXCEPT !.op = "on", !.str = s, !.conn = conn, !.gen = stm[s].gen + 1,
                          !.pc = IF s = "screen" \/ slot[conn][s] = None
                                 THEN "dial" ELSE "dialed"]]
  BY DEF BeginStart
<1> QED BY <1>1 DEF CallType

(* ... of a start... *)
LEMMA StartEnterRecord ==
  ASSUME call \in [Calls -> CallType], NEW c \in Calls, NEW s, StartEnter(c, s)
  PROVE  /\ \A d \in Calls \ {c} : call'[d] = call[d]
         /\ call'[c].op = "on" /\ call'[c].pc \in {"returned", "restart", "dial", "dialed"}
         /\ ~connected => call'[c].pc = "returned"
         /\ call'[c].pc # "returned" => call'[c].str = s /\ call'[c].conn = conn
         /\ call'[c].pc = "dialed" => s # "screen" /\ slot[conn][s] # None
<1>1. CASE BeginStart(c, s, stream) /\ connected
  BY <1>1, BeginStartRecord
<1>2. CASE ~(BeginStart(c, s, stream) /\ connected)
  <2>1. \/ call' = [call EXCEPT ![c] = [@ EXCEPT !.op = "on", !.pc = "returned"]]
        \/ /\ connected
           /\ call' = [call EXCEPT ![c] =
                        [@ EXCEPT !.op = "on", !.str = s, !.pc = "restart", !.conn = conn,
                                  !.gen = stream[s].gen + 1, !.wait = Dones({s})]]
    BY <1>2 DEF StartEnter
  <2>2. /\ \A d \in Calls \ {c} : call'[d] = call[d]
        /\ \/ call'[c] = [call[c] EXCEPT !.op = "on", !.pc = "returned"]
           \/ /\ connected
              /\ call'[c] = [call[c] EXCEPT !.op = "on", !.str = s, !.pc = "restart",
                             !.conn = conn, !.gen = stream[s].gen + 1, !.wait = Dones({s})]
    BY <2>1
  <2>3. call[c] \in CallType
    OBVIOUS
  <2> QED BY <2>2, <2>3 DEF CallType
<1> QED BY <1>1, <1>2

(* ... of a start that has joined the old worker... *)
LEMMA StartJoinRecord ==
  ASSUME call \in [Calls -> CallType], NEW c \in Calls, StartJoin(c)
  PROVE  /\ \A d \in Calls \ {c} : call'[d] = call[d]
         /\ call'[c].str = call[c].str
         /\ \/ call'[c].pc = "returned" /\ call'[c].op = call[c].op
            \/ /\ connected /\ conn = call[c].conn
               /\ call'[c].op = "on" /\ call'[c].pc \in {"dial", "dialed"}
               /\ call'[c].conn = conn
               /\ call'[c].pc = "dialed" =>
                    call[c].str # "screen" /\ slot[conn][call[c].str] # None
<1>1. \/ call' = [call EXCEPT ![c].pc = "returned"]
      \/ /\ connected /\ conn = call[c].conn
         /\ BeginStart(c, call[c].str, [stream EXCEPT ![call[c].str] =
                                         [@ EXCEPT !.done = None, !.running = FALSE]])
  BY DEF StartJoin, Goto
<1> QED BY <1>1, BeginStartRecord DEF CallType

(* ... and of a stop. *)
LEMMA StopEnterRecord ==
  ASSUME call \in [Calls -> CallType], NEW c \in Calls, NEW s, StopEnter(c, s)
  PROVE  /\ \A d \in Calls \ {c} : call'[d] = call[d]
         /\ call'[c].op = "off" /\ call'[c].pc \in {"returned", "stop"}
         /\ call'[c].pc = "stop" => call'[c].str = s /\ connected
<1>1. \/ call' = [call EXCEPT ![c] = [@ EXCEPT !.op = "off", !.pc = "returned"]]
      \/ call' = [call EXCEPT ![c] =
                   [@ EXCEPT !.op = "off", !.str = s, !.pc = "returned"]]
      \/ /\ connected
         /\ call' = [call EXCEPT ![c] =
                      [@ EXCEPT !.op = "off", !.str = s, !.pc = "stop", !.conn = conn,
                                !.gen = stream[s].gen + 1, !.wait = Dones({s})]]
  BY DEF StopEnter
<1>2. /\ \A d \in Calls \ {c} : call'[d] = call[d]
      /\ \/ call'[c] = [call[c] EXCEPT !.op = "off", !.pc = "returned"]
         \/ call'[c] = [call[c] EXCEPT !.op = "off", !.str = s, !.pc = "returned"]
         \/ /\ connected
            /\ call'[c] = [call[c] EXCEPT !.op = "off", !.str = s, !.pc = "stop",
                           !.conn = conn, !.gen = stream[s].gen + 1, !.wait = Dones({s})]
  BY <1>1
<1>3. call[c] \in CallType
  OBVIOUS
<1> QED BY <1>2, <1>3 DEF CallType

(* What never changes again: a call that has done its work, a launched worker but
   for its phase, a control socket that has reached its slot. *)
KeepsHistory ==
  \A d \in Calls :
    /\ Settled(d) => /\ Settled(d)' /\ call'[d].conn = call[d].conn
                     /\ call'[d].str = call[d].str /\ call'[d].op = call[d].op
    /\ Phase(d) # "none" =>
         /\ Phase(d)' # "none" /\ worker'[d].str = worker[d].str
         /\ worker'[d].gen = worker[d].gen /\ worker'[d].conn = worker[d].conn
         /\ worker'[d].sock = worker[d].sock /\ worker'[d].hubGen = worker[d].hubGen
    /\ HasSocket(d) => HasSocket(d)'

-----------------------------------------------------------------------------
(* What one step does to calls, workers and reconnects.                    *)

(* A step of a call leaves the other calls alone, and its own record is one of
   those that its operation writes. *)
LEMMA CallMoves ==
  ASSUME TypeOK, CallsKeepTheirName, NEW c \in Calls, StepOf(c)
  PROVE  /\ \A d \in Calls \ {c} : call'[d] = call[d]
         /\ \/ UNCHANGED call
            \/ /\ CallStep(c) /\ ~Settled(c) /\ Pc(c)' # "idle"
               /\ Pc(c) # "idle" => call'[c].op = call[c].op /\ call'[c].str = call[c].str
            \/ ConnectAnnounce(c) /\ Goto(c, "returned")
<1>0. call \in [Calls -> CallType]
  BY DEF TypeOK, CallType
<1>1. CASE WorkerStep(c) \/ ReconContinues(c)
  BY <1>1
  DEF WorkerStep, WorkerContinues, CaptureStops, WorkerEndSession, WorkerCloseControl,
      WorkerCloseSocket, WorkerLast, WorkerExit, CaptureFails, CaptureHeader,
      ReconContinues, ReconClosePrevious, ReconDialSucceeds, ReconDialFails,
      ReconInstall, ReconCheck, ReconRegister, ReconDiscard, procVars
<1>2. CASE ConnectAnnounce(c)
  BY <1>2 DEF ConnectAnnounce, Goto, TypeOK
<1>3. CASE CallBegins(c)
  <2>1. CASE ConnectEnter(c)
    BY <2>1, <1>0, <1>3, ConnectEnterRecord DEF ConnectEnter, Fresh, Settled, CallStep, Pc
  <2>2. CASE Fresh(c) /\ DisconnectEnter(c)
    BY <2>2, <1>0, <1>3, DisconnectEnterRecord DEF Fresh, Settled, CallStep, Pc
  <2>3. ASSUME NEW s \in Toggles, StartEnter(c, s)
        PROVE  /\ \A d \in Calls \ {c} : call'[d] = call[d]
               /\ Pc(c) = "idle" /\ Pc(c)' # "idle"
    BY <2>3, <1>0, StartEnterRecord DEF StartEnter, Fresh, Pc
  <2>4. ASSUME NEW s \in Toggles, StopEnter(c, s)
        PROVE  /\ \A d \in Calls \ {c} : call'[d] = call[d]
               /\ Pc(c) = "idle" /\ Pc(c)' # "idle"
    BY <2>4, <1>0, StopEnterRecord DEF StopEnter, Fresh, Pc
  <2> QED BY <1>3, <2>1, <2>2, <2>3, <2>4 DEF CallBegins, CallStep, Settled
<1>4. CASE CallContinues(c) /\ ~ConnectAnnounce(c)
  <2>1. CASE ConnectAgain(c)
    <3>1. call[c] \in CallType
      BY <1>0
    <3>2. /\ \A d \in Calls \ {c} : call'[d] = call[d]
          /\ call'[c] = [call[c] EXCEPT !.op = "connect", !.pc = "dial",
                                        !.gen = connectGen + 1, !.conn = c]
      BY <1>0, <2>1 DEF ConnectAgain, BeginDial
    <3>3. call'[c].op = "connect" /\ call'[c].str = call[c].str /\ call'[c].pc = "dial"
      BY <3>1, <3>2 DEF CallType
    <3> QED BY <1>4, <2>1, <3>2, <3>3 DEF ConnectAgain, CallsKeepTheirName, Settled, CallStep, Pc
  <2>2. CASE Pc(c) = "disconnect" /\ DisconnectEnter(c)
    BY <2>2, <1>0, <1>4, DisconnectEnterRecord DEF Settled, CallStep, Pc
  <2>3. CASE StartJoin(c)
    <3>1. Pc(c) = "restart" /\ call[c].op = "on"
      BY <2>3 DEF StartJoin, CallsKeepTheirName
    <3> QED BY <2>3, <1>0, <1>4, <3>1, StartJoinRecord DEF Settled, CallStep, Pc
  <2>4. ASSUME NEW pc \in Pcs \ {"idle"}, Goto(c, pc), ~Settled(c)
        PROVE  /\ \A d \in Calls \ {c} : call'[d] = call[d]
               /\ Pc(c)' # "idle" /\ call'[c].op = call[c].op /\ call'[c].str = call[c].str
    BY <2>4 DEF Goto, TypeOK, Pc
  <2>5. CASE DialSucceeds(c) \/ ConnectFails(c) \/ ConnectInstall(c) \/ DisconnectUnpublish(c)
             \/ DisconnectClose(c) \/ DisconnectJoin(c) \/ StartFails(c)
             \/ StartAbort(c) \/ StartInstall(c) \/ StopJoin(c)
    <3>1. ~Settled(c)
      BY <2>5 DEF Settled, DialSucceeds, ConnectFails, ConnectInstall, DisconnectUnpublish,
                  DisconnectClose, DisconnectJoin, StartFails, StartAbort, StartInstall, StopJoin
    <3>2. PICK pc \in Pcs \ {"idle"} : Goto(c, pc)
      BY <2>5 DEF Pcs, AfterDisconnect, DialSucceeds, ConnectFails, ConnectInstall,
                  DisconnectUnpublish,
                  DisconnectClose, DisconnectJoin, StartFails, StartAbort, StartInstall, StopJoin
    <3> QED BY <1>4, <2>4, <3>1, <3>2 DEF CallStep
  <2> QED BY <1>4, <2>1, <2>2, <2>3, <2>5 DEF CallContinues
<1> QED BY <1>1, <1>2, <1>3, <1>4 DEF StepOf, CallStep

(* A step leaves the other workers alone; the call that launches one has none. *)
LEMMA WorkerMoves ==
  ASSUME TypeOK, LaunchedHaveReturned, NEW c \in Calls, StepOf(c)
  PROVE  /\ \A d \in Calls \ {c} : worker'[d] = worker[d]
         /\ \/ UNCHANGED worker
            \/ \E from \in Phases \ {"none", "exited"}, to \in Phases \ {"none", "run"} :
                 Step(c, from, to) /\ WorkerStep(c)
            \/ (ConnectInstall(c) \/ StartInstall(c)) /\ Phase(c) = "none" /\ Phase(c)' = "run"
<1>1. CASE UNCHANGED worker
  BY <1>1
<1>2. CASE WorkerContinues(c) \/ CaptureFails(c)
  <2>1. PICK from \in Phases \ {"none", "exited"}, to \in Phases \ {"none", "run"} :
          Step(c, from, to)
    BY <1>2 DEF WorkerContinues, CaptureStops, WorkerEndSession, WorkerCloseControl,
                WorkerCloseSocket, WorkerLast, WorkerExit, CaptureFails, AfterCapture, Phases
  <2> QED BY <1>2, <2>1, StepPhase DEF WorkerStep
<1>3. CASE ConnectInstall(c) \/ StartInstall(c)
  <2>1. Phase(c) = "none"
    BY <1>3 DEF ConnectInstall, StartInstall, LaunchedHaveReturned, Settled
  <2>2. \/ UNCHANGED worker
        \/ \E w : w.phase = "run" /\ worker' = [worker EXCEPT ![c] = w]
    BY <1>3 DEF ConnectInstall, StartInstall
  <2> QED BY <1>1, <1>3, <2>1, <2>2 DEF TypeOK, Phase
<1> QED
  BY <1>1, <1>2, <1>3
  DEF StepOf, CallStep, WorkerStep, CallBegins, CallContinues, ConnectEnter, ConnectAgain,
      DialSucceeds, ConnectFails, ConnectAnnounce, DisconnectEnter,
      DisconnectUnpublish, DisconnectClose, DisconnectJoin, StartEnter, StartJoin,
      StartFails, StartAbort, StopEnter, StopJoin, CaptureHeader, ReconContinues,
      ReconClosePrevious, ReconDialSucceeds, ReconDialFails, ReconInstall, ReconCheck,
      ReconRegister, ReconDiscard, procVars

(* A step leaves the other reconnects alone, and never takes one back. *)
LEMMA ReconMoves ==
  ASSUME TypeOK, LaunchedHaveReturned, NEW c \in Calls, StepOf(c)
  PROVE  /\ \A d \in Calls \ {c} : recon'[d] = recon[d]
         /\ \/ UNCHANGED recon
            \/ ReconContinues(c) /\ recon[c] # "none"
            \/ StartInstall(c) /\ recon[c] = "none" /\ recon'[c] = "close"
         /\ HasSocket(c) => HasSocket(c)'
<1>1. CASE UNCHANGED recon
  BY <1>1 DEF HasSocket
<1>2. CASE StartInstall(c)
  <2>1. recon[c] = "none"
    BY <1>2 DEF StartInstall, LaunchedHaveReturned, Settled
  <2>2. UNCHANGED recon \/ recon' = [recon EXCEPT ![c] = "close"]
    BY <1>2 DEF StartInstall
  <2> QED BY <1>1, <1>2, <2>1, <2>2 DEF TypeOK, HasSocket
<1>3. CASE ReconContinues(c)
  BY <1>3 DEF TypeOK, HasSocket, ReconContinues, ReconClosePrevious, ReconDialSucceeds,
         ReconDialFails, ReconInstall, ReconCheck, ReconRegister, ReconDiscard, ReconGoto
<1> QED
  BY <1>1, <1>2, <1>3
  DEF StepOf, CallStep, WorkerStep, CallBegins, CallContinues, ConnectEnter, ConnectAgain,
      DialSucceeds, ConnectFails, ConnectInstall, ConnectAnnounce, DisconnectEnter,
      DisconnectUnpublish, DisconnectClose, DisconnectJoin, StartEnter, StartJoin,
      StartFails, StartAbort, StopEnter, StopJoin, CaptureHeader, WorkerContinues,
      CaptureStops, WorkerEndSession, WorkerCloseControl, WorkerCloseSocket, WorkerLast,
      WorkerExit, CaptureFails, procVars

(* So history is kept. *)
LEMMA HistoryIsKept ==
  ASSUME TypeOK, CallsKeepTheirName, LaunchedHaveReturned, NEW c \in Calls, StepOf(c)
  PROVE  KeepsHistory
<1>1. \A d \in Calls :
        Settled(d) => /\ Settled(d)' /\ call'[d].conn = call[d].conn
                      /\ call'[d].str = call[d].str /\ call'[d].op = call[d].op
  <2>1. CASE ConnectAnnounce(c) /\ Goto(c, "returned")
    BY <2>1 DEF Goto, Settled, Pc, TypeOK
  <2> QED BY <2>1, CallMoves DEF Settled, Pc
<1>2. \A d \in Calls :
        Phase(d) # "none" =>
          /\ Phase(d)' # "none" /\ worker'[d].str = worker[d].str
          /\ worker'[d].gen = worker[d].gen /\ worker'[d].conn = worker[d].conn
          /\ worker'[d].sock = worker[d].sock /\ worker'[d].hubGen = worker[d].hubGen
  <2>1. ASSUME NEW from, NEW to \in Phases \ {"none"}, Step(c, from, to)
        PROVE  /\ worker'[c].phase # "none" /\ worker'[c].str = worker[c].str
               /\ worker'[c].gen = worker[c].gen /\ worker'[c].conn = worker[c].conn
               /\ worker'[c].sock = worker[c].sock /\ worker'[c].hubGen = worker[c].hubGen
    BY <2>1, StepPhase
  <2> QED BY <2>1, WorkerMoves DEF Phase
<1>3. \A d \in Calls : HasSocket(d) => HasSocket(d)'
  BY ReconMoves DEF HasSocket
<1> QED BY <1>1, <1>2, <1>3 DEF KeepsHistory

(* The controller's Connection changes only when one is installed or let go. *)
LEMMA ConnMoves ==
  ASSUME NEW c \in Calls, StepOf(c)
  PROVE  \/ UNCHANGED <<connected, conn>>
         \/ DisconnectEnter(c) /\ conn' = None /\ connected' = FALSE
         \/ ConnectInstall(c) /\ Pc(c) = "dialed" /\ conn' = c /\ connected' = TRUE
<1> USE DEF StepOf, CallStep, WorkerStep, CallBegins, CallContinues, WorkerContinues,
      ReconContinues
<1>1. CASE DisconnectEnter(c)
  BY <1>1 DEF DisconnectEnter
<1>2. CASE ConnectInstall(c)
  BY <1>2 DEF ConnectInstall, ctlVars
<1>3. CASE ~DisconnectEnter(c) /\ ~ConnectInstall(c)
  <2>1. CASE CallBegins(c)
    BY <1>3, <2>1 DEF ConnectEnter, StartEnter, StopEnter, ctlVars
  <2>2. CASE CallContinues(c)
    BY <1>3, <2>2 DEF ConnectAgain, DialSucceeds, ConnectFails, ConnectAnnounce,
      DisconnectUnpublish, DisconnectClose, DisconnectJoin, StartJoin, StartFails,
      StartAbort, StartInstall, StopJoin, ctlVars
  <2>3. CASE WorkerStep(c)
    BY <2>3 DEF CaptureStops, WorkerEndSession, WorkerCloseControl, WorkerCloseSocket,
      WorkerLast, WorkerExit, CaptureFails, CaptureHeader, ctlVars
  <2>4. CASE ReconContinues(c)
    BY <2>4 DEF ReconClosePrevious, ReconDialSucceeds, ReconDialFails, ReconInstall,
      ReconCheck, ReconRegister, ReconDiscard, ctlVars
  <2> QED BY <2>1, <2>2, <2>3, <2>4
<1> QED BY <1>1, <1>2, <1>3

(* The Connections that have been replaced are those that a Connect found there when it
   installed its own. *)
LEMMA OverwrittenMoves ==
  ASSUME NEW c \in Calls, StepOf(c)
  PROVE  \/ /\ UNCHANGED overwritten
            /\ \/ UNCHANGED <<connected, conn>>
               \/ DisconnectEnter(c) /\ conn' = None /\ connected' = FALSE
         \/ /\ ConnectInstall(c) /\ Pc(c) = "dialed" /\ conn' = c /\ connected' = TRUE
            /\ overwritten' = overwritten \cup ({conn} \ {None})
<1>1. CASE ConnectInstall(c)
  BY <1>1 DEF ConnectInstall, ctlVars
<1>2. CASE ~ConnectInstall(c)
  <2>1. UNCHANGED overwritten
    BY <1>2 DEF StepOf, CallStep, WorkerStep, CallBegins, CallContinues, ConnectEnter,
      ConnectAgain, DialSucceeds, ConnectFails, ConnectAnnounce, DisconnectEnter,
      DisconnectUnpublish, DisconnectClose, DisconnectJoin, StartEnter, StartJoin,
      StartFails, StartAbort, StartInstall, StopEnter, StopJoin, WorkerContinues,
      CaptureStops, WorkerEndSession, WorkerCloseControl, WorkerCloseSocket, WorkerLast,
      WorkerExit, CaptureFails, CaptureHeader, ReconContinues, ReconClosePrevious,
      ReconDialSucceeds, ReconDialFails, ReconInstall, ReconCheck, ReconRegister,
      ReconDiscard, procVars
  <2> QED BY <1>2, <2>1, ConnMoves
<1> QED BY <1>1, <1>2

(* The current Connection stays the current one until a Disconnect takes it or a
   Connect overwrites it, and what has been overwritten stays so. *)
LEMMA CurrentOrOverwritten ==
  ASSUME NEW c \in Calls, StepOf(c), NEW k \in Calls, k \in {conn} \cup overwritten
  PROVE  \/ k \in overwritten'
         \/ /\ k = conn
            /\ \/ UNCHANGED <<connected, conn>>
               \/ DisconnectEnter(c) /\ conn' = None /\ connected' = FALSE
BY OverwrittenMoves, Basics

(* An installed Connection stays one. *)
LEMMA InstalledStays ==
  ASSUME KeepsHistory, NEW k, Installed(k)
  PROVE  Installed(k)'
BY DEF KeepsHistory, Installed, Settled

(* The names that calls give to what they create are preserved. *)
LEMMA NamesAreKept ==
  ASSUME PInv, TypeOK, CallsKeepTheirName, LaunchedHaveReturned, NEW c \in Calls, StepOf(c)
  PROVE  CallsKeepTheirName'
<1>0. call \in [Calls -> CallType]
  BY DEF TypeOK, CallType
<1>1. KeepsHistory
  BY HistoryIsKept
<1>2. \A k \in Calls :
        Installed(k) => /\ call'[k].op = "connect" /\ call'[k].pc \in {"announce", "returned"}
                        /\ conn # k => conn' # k
  <2>1. \A k \in Calls : Installed(k) /\ conn # k => conn' # k
    BY ConnMoves, Basics DEF Installed
  <2> QED BY <1>1, <2>1 DEF Installed, KeepsHistory, Settled, Pc
<1>3. \A d \in Calls \ {c} : call'[d] = call[d]
  BY CallMoves
<1> DEFINE N(d) == /\ Pc(d) = "idle" => call[d] = NoCall
                   /\ Pc(d) \in {"disconnect", "reconnect", "announce"} => call[d].op = "connect"
                   /\ Pc(d) \in {"dial", "dialed"} => call[d].op \in {"connect", "on"}
                   /\ Pc(d) = "restart" => call[d].op = "on"
                   /\ call[d].op = "connect" => call[d].str = "speaker"
                   /\ call[d].op = "connect" /\ Pc(d) \in {"dial", "dialed"} => call[d].conn = d
                   /\ Pc(d) \in {"unpublish", "close"} =>
                        Installed(call[d].conn) /\ call[d].conn # conn
<1>4. \A d \in Calls : N(d)
  BY DEF CallsKeepTheirName
<1>5. ASSUME NEW d \in Calls, call'[d] = call[d]
      PROVE  N(d)'
  BY <1>2, <1>4, <1>5 DEF Installed, Pc
<1>6. ASSUME ConnectAnnounce(c)
      PROVE  N(c)'
  BY <1>6, <1>4 DEF ConnectAnnounce, Goto, TypeOK, Pc
<1>7. ASSUME ConnectEnter(c)
      PROVE  N(c)'
  <2>1. call[c].str = "speaker"
    BY <1>7, <1>4 DEF ConnectEnter, Fresh, NoCall
  <2>2. /\ call'[c].op = "connect" /\ call'[c].str = call[c].str
        /\ call'[c].pc \in {"disconnect", "dial"}
        /\ call'[c].pc = "dial" => call'[c].conn = c
    BY <1>0, <1>7, ConnectEnterRecord
  <2> QED BY <2>1, <2>2 DEF Pc
<1>8. ASSUME ConnectAgain(c)
      PROVE  N(c)'
  BY <1>8, <1>4 DEF ConnectAgain, BeginDial, TypeOK, Pc
<1>9. ASSUME DialSucceeds(c) \/ ConnectFails(c) \/ ConnectInstall(c) \/ StartFails(c)
           \/ StartAbort(c) \/ StartInstall(c) \/ StopJoin(c)
      PROVE  N(c)'
  <2>1. PICK pc \in {"dialed", "returned", "announce"} :
          /\ Goto(c, pc) /\ Pc(c) \in {"dial", "dialed", "stop"}
          /\ pc = "announce" => call[c].op = "connect"
          /\ pc = "dialed" => Pc(c) = "dial"
    BY <1>9 DEF DialSucceeds, ConnectFails, ConnectInstall, StartFails, StartAbort,
                StartInstall, StopJoin
  <2>2. /\ call'[c].pc = pc /\ call'[c].conn = call[c].conn
        /\ call'[c].op = call[c].op /\ call'[c].str = call[c].str
    BY <2>1 DEF Goto, TypeOK
  <2> QED BY <1>4, <2>1, <2>2 DEF Pc
<1>10. ASSUME DisconnectEnter(c)
      PROVE  N(c)'
  <2>1. CASE ~connected
    BY <1>0, <1>4, <1>10, <2>1, DisconnectEnterRecord DEF DisconnectEnter, Fresh, NoCall, Pc
  <2>2. CASE connected
    <3>1. Installed(conn) /\ conn # None /\ conn' = None
      BY <1>10, <2>2, ConnectedHasConn, Basics DEF DisconnectEnter
    <3>2. /\ call'[c].pc = "unpublish" /\ call'[c].conn = conn
          /\ call'[c].op = (IF Pc(c) = "idle" THEN "disconnect" ELSE call[c].op)
          /\ call'[c].str = call[c].str
      BY <1>0, <1>10, <2>2, DisconnectEnterRecord
    <3>3. conn \in Calls /\ call'[conn].op = "connect"
          /\ call'[conn].pc \in {"announce", "returned"}
      BY <1>2, <3>1 DEF Installed
    <3>4. call'[c].op = "connect" => call'[c].str = "speaker"
      BY <1>4, <3>2
    <3> QED BY <3>1, <3>2, <3>3, <3>4 DEF Pc, Installed
  <2> QED BY <2>1, <2>2
<1>11. ASSUME DisconnectUnpublish(c) \/ DisconnectClose(c) \/ DisconnectJoin(c)
      PROVE  N(c)'
  <2>1. PICK pc \in {"close", "join", "reconnect", "returned"} :
          /\ Goto(c, pc)
          /\ pc = "reconnect" => call[c].op = "connect"
          /\ pc = "close" => Pc(c) = "unpublish"
    BY <1>11 DEF DisconnectUnpublish, DisconnectClose, DisconnectJoin, AfterDisconnect
  <2>2. /\ call'[c].pc = pc /\ call'[c].conn = call[c].conn
        /\ call'[c].op = call[c].op /\ call'[c].str = call[c].str
    BY <2>1 DEF Goto, TypeOK
  <2> QED BY <1>2, <1>4, <2>1, <2>2 DEF Pc, Installed
<1>12. ASSUME NEW s \in Streams, StartEnter(c, s)
       PROVE  N(c)'
  <2>1. /\ call'[c].op = "on" /\ call'[c].pc \in {"returned", "restart", "dial", "dialed"}
    BY <1>0, <1>12, StartEnterRecord
  <2> QED BY <2>1 DEF Pc
<1>13. ASSUME StartJoin(c)
      PROVE  N(c)'
  <2>1. \/ /\ call'[c].pc = "returned" /\ call'[c].op = call[c].op
           /\ call'[c].str = call[c].str
        \/ call'[c].op = "on" /\ call'[c].pc \in {"dial", "dialed"}
    BY <1>0, <1>13, StartJoinRecord
  <2> QED BY <1>4, <2>1 DEF Pc
<1>14. ASSUME NEW s \in Streams, StopEnter(c, s)
       PROVE  N(c)'
  <2>1. call'[c].op = "off" /\ call'[c].pc \in {"returned", "stop"}
    BY <1>0, <1>14, StopEnterRecord
  <2> QED BY <2>1 DEF Pc
<1>15. N(c)'
  <2>1. \A s \in Toggles : s \in Streams
    BY ControllerAssumption
  <2>2. CASE UNCHANGED call
    BY <1>5, <2>2
  <2>3. CASE CallStep(c)
    <3> HIDE DEF N
    <3>1. CASE CallBegins(c)
      BY <1>7, <1>10, <1>12, <1>14, <2>1, <3>1 DEF CallBegins
    <3>2. CASE CallContinues(c)
      BY <1>6, <1>8, <1>9, <1>10, <1>11, <1>13, <3>2 DEF CallContinues
    <3> QED BY <2>3, <3>1, <3>2 DEF CallStep
  <2>4. UNCHANGED call \/ CallStep(c) \/ ConnectAnnounce(c)
    BY CallMoves
  <2> HIDE DEF N
  <2> QED BY <1>6, <2>2, <2>3, <2>4
<1>16. \A d \in Calls : N(d)'
  BY <1>3, <1>5, <1>15
<1> QED BY <1>16 DEF CallsKeepTheirName

-----------------------------------------------------------------------------
(* What one step does to the streams.                                      *)

(* The record of a stream that a step changes. *)
LEMMA StreamWritten ==
  ASSUME TypeOK, NEW s \in Streams, NEW r, stream' = [stream EXCEPT ![s] = r]
  PROVE  stream'[s] = r /\ \A t \in Streams \ {s} : stream'[t] = stream[t]
BY DEF TypeOK

(* startStream takes the next generation of its stream, leaving the worker alone. *)
LEMMA BeginStartStream ==
  ASSUME TypeOK, NEW c \in Calls, NEW s \in Streams, BeginStart(c, s, stream)
  PROVE  /\ stream'[s].gen = stream[s].gen + 1 /\ stream'[s].done = stream[s].done
         /\ stream'[s].running = stream[s].running /\ stream'[s].active = stream[s].active
         /\ stream'[s].cancel = c
         /\ \A t \in Streams \ {s} : stream'[t] = stream[t]
<1>1. stream'[s] = [stream[s] EXCEPT !.gen = stream[s].gen + 1, !.cancel = c]
      /\ \A t \in Streams \ {s} : stream'[t] = stream[t]
  BY StreamWritten DEF BeginStart
<1>2. stream[s] \in StreamType
  BY DEF TypeOK, StreamType
<1> QED BY <1>1, <1>2 DEF StreamType

(* What a start does to its stream, before... *)
LEMMA StartEnterStream ==
  ASSUME TypeOK, NEW c \in Calls, NEW s \in Streams, StartEnter(c, s)
  PROVE  \/ UNCHANGED <<stream, superseded, slot, sock, csock>> /\ call'[c].pc = "returned"
         \/ /\ Overtake(c, {s}) /\ connected
            /\ ~(stream[s].running /\ stream[s].active)
            /\ stream'[s].gen = stream[s].gen + 1 /\ stream'[s].done = stream[s].done
            /\ stream'[s].running = stream[s].running /\ stream'[s].active = stream[s].active
            /\ \A t \in Streams \ {s} : stream'[t] = stream[t]
            /\ \/ /\ stream[s].running \/ stream[s].done # None
                  /\ CloseStream(conn, s) /\ stream'[s].cancel = None
                  /\ call'[c].pc = "restart" /\ Cancel({stream[s].cancel})
                  /\ call'[c].gen = stream[s].gen + 1
               \/ /\ ~stream[s].running /\ stream[s].done = None
                  /\ BeginStart(c, s, stream)
<1>1. stream[s] \in StreamType /\ call \in [Calls -> CallType]
  BY DEF TypeOK, StreamType, CallType
<1>2. \/ /\ UNCHANGED <<stream, superseded, slot, sock, csock>>
         /\ call' = [call EXCEPT ![c] = [@ EXCEPT !.op = "on", !.pc = "returned"]]
      \/ /\ Overtake(c, {s}) /\ connected
         /\ ~(stream[s].running /\ stream[s].active)
         /\ \/ /\ stream[s].running \/ stream[s].done # None
               /\ CloseStream(conn, s)
               /\ stream' = [stream EXCEPT ![s] =
                              [@ EXCEPT !.cancel = None, !.gen = stream[s].gen + 1]]
               /\ Cancel({stream[s].cancel})
               /\ call' = [call EXCEPT ![c] =
                            [@ EXCEPT !.op = "on", !.str = s, !.pc = "restart",
                                      !.conn = conn, !.gen = stream[s].gen + 1,
                                      !.wait = Dones({s})]]
            \/ /\ ~stream[s].running /\ stream[s].done = None
               /\ BeginStart(c, s, stream)
  BY DEF StartEnter
<1>3. ASSUME stream' = [stream EXCEPT ![s] =
                         [@ EXCEPT !.cancel = None, !.gen = stream[s].gen + 1]]
      PROVE  /\ stream'[s].gen = stream[s].gen + 1 /\ stream'[s].done = stream[s].done
             /\ stream'[s].running = stream[s].running /\ stream'[s].active = stream[s].active
             /\ stream'[s].cancel = None
             /\ \A t \in Streams \ {s} : stream'[t] = stream[t]
  <2>1. stream'[s] = [stream[s] EXCEPT !.cancel = None, !.gen = stream[s].gen + 1]
        /\ \A t \in Streams \ {s} : stream'[t] = stream[t]
    BY <1>3, StreamWritten
  <2> QED BY <1>1, <2>1 DEF StreamType
<1>4. ASSUME call' = [call EXCEPT ![c] =
                       [@ EXCEPT !.op = "on", !.str = s, !.pc = "restart",
                                 !.conn = conn, !.gen = stream[s].gen + 1,
                                 !.wait = Dones({s})]]
      PROVE  call'[c].pc = "restart" /\ call'[c].gen = stream[s].gen + 1
  <2>1. call'[c] = [call[c] EXCEPT !.op = "on", !.str = s, !.pc = "restart",
                                   !.conn = conn, !.gen = stream[s].gen + 1,
                                   !.wait = Dones({s})]
    BY <1>1, <1>4
  <2>2. call[c] \in CallType
    BY <1>1
  <2> QED BY <2>1, <2>2 DEF CallType
<1>5. ASSUME call' = [call EXCEPT ![c] = [@ EXCEPT !.op = "on", !.pc = "returned"]]
      PROVE  call'[c].pc = "returned"
  BY <1>1, <1>5 DEF CallType
<1> QED BY <1>2, <1>3, <1>4, <1>5, BeginStartStream

(* ... and after it has joined the old worker. *)
LEMMA StartJoinStream ==
  ASSUME TypeOK, NEW c \in Calls, StartJoin(c)
  PROVE  LET s == call[c].str IN
         /\ UNCHANGED superseded
         /\ \/ UNCHANGED <<stream, slot, sock, csock>> /\ Goto(c, "returned")
            \/ /\ connected /\ conn = call[c].conn /\ stream[s].gen = call[c].gen
               /\ stream'[s].gen = stream[s].gen + 1 /\ stream'[s].done = None
               /\ stream'[s].running = FALSE /\ stream'[s].active = stream[s].active
               /\ \A t \in Streams \ {s} : stream'[t] = stream[t]
               /\ IF s = "screen" THEN CloseStream(conn, s) ELSE UNCHANGED <<slot, sock, csock>>
               /\ stream'[s].cancel = c /\ Cancel({stream[s].cancel})
<1> DEFINE s == call[c].str
           stm == [stream EXCEPT ![s] = [@ EXCEPT !.done = None, !.running = FALSE]]
<1>1. s \in Streams /\ stream[s] \in StreamType
  BY DEF TypeOK, StreamType
<1>2. UNCHANGED superseded
  BY DEF StartJoin
<1>3. \/ UNCHANGED <<stream, slot, sock, csock>> /\ Goto(c, "returned")
      \/ /\ connected /\ conn = call[c].conn /\ stream[s].gen = call[c].gen
         /\ BeginStart(c, s, stm)
  BY DEF StartJoin
<1>4. /\ stm[s] = [stream[s] EXCEPT !.done = None, !.running = FALSE]
      /\ \A t \in Streams \ {s} : stm[t] = stream[t]
      /\ stm = [t \in Streams |-> stm[t]]
  BY <1>1 DEF TypeOK
<1>5. /\ stm[s].gen = stream[s].gen /\ stm[s].done = None /\ stm[s].running = FALSE
      /\ stm[s].active = stream[s].active /\ stm[s].cancel = stream[s].cancel
      /\ stm[s] \in StreamType
  BY <1>1, <1>4 DEF StreamType
<1> HIDE DEF s, stm
<1>6. ASSUME BeginStart(c, s, stm)
      PROVE  /\ stream'[s].gen = stream[s].gen + 1 /\ stream'[s].done = None
             /\ stream'[s].running = FALSE /\ stream'[s].active = stream[s].active
             /\ \A t \in Streams \ {s} : stream'[t] = stream[t]
             /\ IF s = "screen" THEN CloseStream(conn, s) ELSE UNCHANGED <<slot, sock, csock>>
             /\ stream'[s].cancel = c /\ Cancel({stream[s].cancel})
  <2>1. stream' = [stm EXCEPT ![s] = [@ EXCEPT !.gen = stm[s].gen + 1, !.cancel = c]]
    BY <1>6 DEF BeginStart
  <2>2. /\ stream'[s] = [stm[s] EXCEPT !.gen = stm[s].gen + 1, !.cancel = c]
        /\ \A t \in Streams \ {s} : stream'[t] = stm[t]
    BY <1>1, <1>4, <2>1
  <2>3. /\ stream'[s].gen = stm[s].gen + 1 /\ stream'[s].done = stm[s].done
        /\ stream'[s].running = stm[s].running /\ stream'[s].active = stm[s].active
        /\ stream'[s].cancel = c
    BY <1>5, <2>2 DEF StreamType
  <2>4. /\ IF s = "screen" THEN CloseStream(conn, s) ELSE UNCHANGED <<slot, sock, csock>>
        /\ Cancel({stream[s].cancel})
    BY <1>5, <1>6 DEF BeginStart
  <2> QED BY <1>4, <1>5, <2>2, <2>3, <2>4
<1> QED BY <1>2, <1>3, <1>6 DEF s

(* What a stop does to its stream. *)
LEMMA StopEnterStream ==
  ASSUME TypeOK, NEW c \in Calls, NEW s \in Streams, StopEnter(c, s)
  PROVE  \/ /\ UNCHANGED <<stream, superseded, slot, sock, csock, hubVars, screenHubGen>>
            /\ call'[c].pc = "returned"
         \/ /\ Overtake(c, {s}) /\ connected /\ Cancel({stream[s].cancel})
            /\ stream'[s].gen = stream[s].gen + 1 /\ stream'[s].done = stream[s].done
            /\ stream'[s].running = stream[s].running /\ stream'[s].active = FALSE
            /\ stream'[s].cancel = None
            /\ \A t \in Streams \ {s} : stream'[t] = stream[t]
            /\ \/ /\ ~stream[s].running /\ stream[s].done = None
                  /\ call'[c].pc = "returned"
                  /\ UNCHANGED <<slot, sock, csock, hubVars, screenHubGen>>
               \/ /\ CloseStream(conn, s)
                  /\ call'[c].pc = "stop"
                  /\ IF s = "screen"
                     THEN /\ \E ok \in WriteOutcomes : EndScreenSession(screenHubGen, ok)
                          /\ screenHubGen' = 0
                     ELSE UNCHANGED <<screenHubGen, hubVars>>
<1>1. stream[s] \in StreamType /\ call \in [Calls -> CallType]
  BY DEF TypeOK, StreamType, CallType
<1>2. ASSUME stream' = [stream EXCEPT ![s] =
                         [@ EXCEPT !.cancel = None, !.gen = stream[s].gen + 1,
                                   !.active = FALSE]]
      PROVE  /\ stream'[s].gen = stream[s].gen + 1 /\ stream'[s].done = stream[s].done
             /\ stream'[s].running = stream[s].running /\ stream'[s].active = FALSE
             /\ stream'[s].cancel = None
             /\ \A t \in Streams \ {s} : stream'[t] = stream[t]
  <2>1. stream'[s] = [stream[s] EXCEPT !.cancel = None, !.gen = stream[s].gen + 1,
                                       !.active = FALSE]
        /\ \A t \in Streams \ {s} : stream'[t] = stream[t]
    BY <1>2, StreamWritten
  <2> QED BY <1>1, <2>1 DEF StreamType
<1>3. CASE ~connected
  <2>1. call' = [call EXCEPT ![c] = [@ EXCEPT !.op = "off", !.pc = "returned"]]
        /\ UNCHANGED <<stream, superseded, slot, sock, csock, hubVars, screenHubGen>>
    BY <1>3 DEF StopEnter
  <2>2. call'[c] = [call[c] EXCEPT !.op = "off", !.pc = "returned"] /\ call[c] \in CallType
    BY <1>1, <2>1
  <2> QED BY <2>1, <2>2 DEF CallType
<1>4. CASE connected
  <2>1. /\ Overtake(c, {s}) /\ Cancel({stream[s].cancel})
        /\ stream' = [stream EXCEPT ![s] =
                       [@ EXCEPT !.cancel = None, !.gen = stream[s].gen + 1,
                                 !.active = FALSE]]
        /\ \/ /\ ~stream[s].running /\ stream[s].done = None
              /\ call' = [call EXCEPT ![c] =
                           [@ EXCEPT !.op = "off", !.str = s, !.pc = "returned"]]
              /\ UNCHANGED <<slot, sock, csock, hubVars, screenHubGen>>
           \/ /\ CloseStream(conn, s)
              /\ IF s = "screen"
                 THEN /\ \E ok \in WriteOutcomes : EndScreenSession(screenHubGen, ok)
                      /\ screenHubGen' = 0
                 ELSE UNCHANGED <<screenHubGen, hubVars>>
              /\ call' = [call EXCEPT ![c] =
                           [@ EXCEPT !.op = "off", !.str = s, !.pc = "stop",
                                     !.conn = conn, !.gen = stream[s].gen + 1,
                                     !.wait = Dones({s})]]
    BY <1>4 DEF StopEnter
  <2>2. call[c] \in CallType
    BY <1>1
  <2>3. ASSUME call' = [call EXCEPT ![c] =
                         [@ EXCEPT !.op = "off", !.str = s, !.pc = "returned"]]
        PROVE  call'[c].pc = "returned"
    BY <1>1, <2>2, <2>3 DEF CallType
  <2>4. ASSUME call' = [call EXCEPT ![c] =
                           [@ EXCEPT !.op = "off", !.str = s, !.pc = "stop",
                                     !.conn = conn, !.gen = stream[s].gen + 1,
                                     !.wait = Dones({s})]]
        PROVE  call'[c].pc = "stop"
    <3>1. call'[c] = [call[c] EXCEPT !.op = "off", !.str = s, !.pc = "stop",
                                     !.conn = conn, !.gen = stream[s].gen + 1,
                                     !.wait = Dones({s})]
      BY <1>1, <2>4
    <3> QED BY <2>2, <3>1 DEF CallType
  <2>5. \/ /\ ~stream[s].running /\ stream[s].done = None
           /\ call'[c].pc = "returned"
           /\ UNCHANGED <<slot, sock, csock, hubVars, screenHubGen>>
        \/ /\ CloseStream(conn, s)
           /\ call'[c].pc = "stop"
           /\ IF s = "screen"
              THEN /\ \E ok \in WriteOutcomes : EndScreenSession(screenHubGen, ok)
                   /\ screenHubGen' = 0
              ELSE UNCHANGED <<screenHubGen, hubVars>>
    BY <2>1, <2>3, <2>4
  <2> QED BY <1>2, <1>4, <2>1, <2>5
<1> QED BY <1>3, <1>4

(* Disconnect takes a generation of every stream. *)
LEMMA DisconnectStream ==
  ASSUME TypeOK, NEW c \in Calls, DisconnectEnter(c)
  PROVE  /\ ~connected => UNCHANGED <<stream, superseded>>
         /\ connected =>
              /\ Overtake(c, Streams)
              /\ \A s \in Streams :
                   /\ stream'[s].gen = stream[s].gen + 1 /\ stream'[s].done = None
                   /\ ~stream'[s].running /\ ~stream'[s].active /\ stream'[s].cancel = None
<1>1. CASE ~connected
  BY <1>1 DEF DisconnectEnter
<1>2. CASE connected
  <2>1. stream' = [s \in Streams |-> [Stopped EXCEPT !.gen = stream[s].gen + 1]]
        /\ Overtake(c, Streams)
    BY <1>2 DEF DisconnectEnter
  <2>2. \A s \in Streams : stream'[s] = [Stopped EXCEPT !.gen = stream[s].gen + 1]
    BY <2>1
  <2> QED BY <1>2, <2>1, <2>2 DEF Stopped
<1> QED BY <1>1, <1>2

(* A stream whose start failed, or whose worker has ended, keeps its worker. *)
EndsStream(s) ==
  /\ stream'[s].gen = stream[s].gen /\ stream'[s].done = stream[s].done
  /\ ~stream'[s].running /\ ~stream'[s].active
  /\ stream'[s].cancel \in {None, stream[s].cancel}
  /\ \A t \in Streams \ {s} : stream'[t] = stream[t]

(* Both ways of ending do so. *)
LEMMA EndingEnds ==
  ASSUME TypeOK, NEW s \in Streams,
         \/ stream' = [stream EXCEPT ![s] =
                        [@ EXCEPT !.running = FALSE, !.active = FALSE]]
         \/ stream' = [stream EXCEPT ![s] =
                        [@ EXCEPT !.active = FALSE, !.running = FALSE, !.cancel = None]]
  PROVE  EndsStream(s)
<1>1. /\ \A t \in Streams \ {s} : stream'[t] = stream[t]
      /\ \/ stream'[s] = [stream[s] EXCEPT !.running = FALSE, !.active = FALSE]
         \/ stream'[s] = [stream[s] EXCEPT !.active = FALSE, !.running = FALSE, !.cancel = None]
  BY StreamWritten
<1>2. stream[s] \in StreamType
  BY DEF TypeOK, StreamType
<1> QED BY <1>1, <1>2 DEF EndsStream, StreamType

(* A stop that has joined the worker resets the stream, if it still owns it. *)
LEMMA StopJoinStream ==
  ASSUME TypeOK, NEW c \in Calls, StopJoin(c)
  PROVE  \/ UNCHANGED stream
         \/ LET s == call[c].str IN
            /\ stream[s].gen = call[c].gen
            /\ stream'[s].gen = stream[s].gen /\ stream'[s].done = None
            /\ ~stream'[s].running /\ ~stream'[s].active
            /\ stream'[s].cancel = stream[s].cancel
            /\ \A t \in Streams \ {s} : stream'[t] = stream[t]
<1> DEFINE s == call[c].str
<1>1. s \in Streams /\ stream[s] \in StreamType
  BY DEF TypeOK, StreamType
<1>2. \/ UNCHANGED stream
      \/ /\ stream[s].gen = call[c].gen
         /\ stream' = [stream EXCEPT ![s] =
                        [@ EXCEPT !.running = FALSE, !.active = FALSE, !.done = None]]
  BY DEF StopJoin
<1> HIDE DEF s
<1>3. ASSUME stream' = [stream EXCEPT ![s] =
                         [@ EXCEPT !.running = FALSE, !.active = FALSE, !.done = None]]
      PROVE  /\ stream'[s].gen = stream[s].gen /\ stream'[s].done = None
             /\ ~stream'[s].running /\ ~stream'[s].active
             /\ stream'[s].cancel = stream[s].cancel
             /\ \A t \in Streams \ {s} : stream'[t] = stream[t]
  <2>1. /\ \A t \in Streams \ {s} : stream'[t] = stream[t]
        /\ stream'[s] = [stream[s] EXCEPT !.running = FALSE, !.active = FALSE, !.done = None]
    BY <1>1, <1>3, StreamWritten
  <2> QED BY <1>1, <2>1 DEF StreamType
<1> QED BY <1>2, <1>3 DEF s

(* A launch keeps the generation and names the worker. *)
LEMMA StartInstallStream ==
  ASSUME TypeOK, NEW c \in Calls, StartInstall(c)
  PROVE  LET s == call[c].str IN
         /\ stream'[s].gen = stream[s].gen /\ stream'[s].done = c
         /\ stream'[s].running /\ stream'[s].active
         /\ stream'[s].cancel = stream[s].cancel
         /\ \A t \in Streams \ {s} : stream'[t] = stream[t]
<1> DEFINE s == call[c].str
<1>1. s \in Streams /\ stream[s] \in StreamType
  BY DEF TypeOK, StreamType
<1>2. stream' = [stream EXCEPT ![s] =
                  [@ EXCEPT !.running = TRUE, !.active = TRUE, !.done = c]]
  BY DEF StartInstall
<1> HIDE DEF s
<1>3. /\ \A t \in Streams \ {s} : stream'[t] = stream[t]
      /\ stream'[s] = [stream[s] EXCEPT !.running = TRUE, !.active = TRUE, !.done = c]
  BY <1>1, <1>2, StreamWritten
<1>4. /\ stream'[s].gen = stream[s].gen /\ stream'[s].done = c
      /\ stream'[s].running /\ stream'[s].active
      /\ stream'[s].cancel = stream[s].cancel
  BY <1>1, <1>3 DEF StreamType
<1> QED BY <1>3, <1>4 DEF s

(* The speaker that Connect starts gets a new generation. *)
LEMMA ConnectInstallStream ==
  ASSUME TypeOK, NEW c \in Calls, ConnectInstall(c)
  PROVE  \/ UNCHANGED stream
         \/ /\ stream'["speaker"].gen = stream["speaker"].gen + 1
            /\ stream'["speaker"].done = c /\ stream'["speaker"].cancel = c
            /\ stream'["speaker"].running /\ stream'["speaker"].active
            /\ \A t \in Streams \ {"speaker"} : stream'[t] = stream[t]
<1>1. \/ UNCHANGED stream
      \/ stream' = [stream EXCEPT !["speaker"] =
                     [active |-> TRUE, running |-> TRUE, gen |-> @.gen + 1,
                      cancel |-> c, done |-> c]]
  BY DEF ConnectInstall, ctlVars
<1>2. ASSUME stream' = [stream EXCEPT !["speaker"] =
                         [active |-> TRUE, running |-> TRUE, gen |-> @.gen + 1,
                          cancel |-> c, done |-> c]]
      PROVE  /\ stream'["speaker"] = [active |-> TRUE, running |-> TRUE,
                                      gen |-> stream["speaker"].gen + 1,
                                      cancel |-> c, done |-> c]
             /\ \A t \in Streams \ {"speaker"} : stream'[t] = stream[t]
  BY <1>2, StreamWritten, Basics
<1> QED BY <1>1, <1>2

(* What a step does to a stream: nothing, taking a generation, ending it, forgetting
   its joined worker, or launching one. *)
LEMMA StreamSteps ==
  ASSUME TypeOK, NEW c \in Calls, StepOf(c)
  PROVE  \/ UNCHANGED stream
         \/ \E s \in Toggles : StartEnter(c, s) \/ StopEnter(c, s)
         \/ StartJoin(c) \/ StopJoin(c) \/ StartInstall(c) \/ ConnectInstall(c)
         \/ DisconnectEnter(c)
         \/ EndsStream(call[c].str) /\ (StartFails(c) \/ StartAbort(c))
                                    /\ stream[call[c].str].gen = call[c].gen
         \/ EndsStream(worker[c].str) /\ WorkerLast(c) /\ WasRunning(c)
<1>1. call[c].str \in Streams /\ worker[c].str \in Streams
  BY DEF TypeOK
<1>2. CASE StartFails(c) \/ StartAbort(c)
  <2>1. \/ UNCHANGED stream
        \/ /\ stream[call[c].str].gen = call[c].gen
           /\ stream' = [stream EXCEPT ![call[c].str] =
                       [@ EXCEPT !.active = FALSE, !.running = FALSE, !.cancel = None]]
    BY <1>2 DEF StartFails, StartAbort
  <2> QED BY <1>1, <1>2, <2>1, EndingEnds
<1>3. CASE WorkerLast(c)
  <2>1. UNCHANGED stream \/ (WasRunning(c) /\ stream' = Finished(worker[c].str))
    BY <1>3 DEF WorkerLast
  <2> QED BY <1>1, <1>3, <2>1, EndingEnds DEF Finished
<1> QED BY <1>2, <1>3
  DEF StepOf, CallStep, WorkerStep, CallBegins, CallContinues, ConnectEnter, ConnectAgain,
      DialSucceeds, ConnectFails, ConnectAnnounce,
      DisconnectUnpublish, DisconnectClose, DisconnectJoin, WorkerContinues, CaptureStops,
      WorkerEndSession, WorkerCloseControl, WorkerCloseSocket, WorkerExit, CaptureFails,
      CaptureHeader, ReconContinues, ReconClosePrevious, ReconDialSucceeds,
      ReconDialFails, ReconInstall, ReconCheck, ReconRegister, ReconDiscard, ctlVars

(* Generations only grow, and whoever is overtaken has lost its stream. *)
LEMMA GenerationsGrow ==
  ASSUME TypeOK, NEW c \in Calls, StepOf(c)
  PROVE  /\ \A s \in Streams : stream'[s].gen \in {stream[s].gen, stream[s].gen + 1}
         /\ \/ UNCHANGED superseded
            \/ \E S \in SUBSET Streams :
                 Overtake(c, S) /\ \A s \in S : stream'[s].gen = stream[s].gen + 1
<1>0. \A s \in Toggles : s \in Streams
  BY ControllerAssumption
<1>1. call[c].str \in Streams /\ worker[c].str \in Streams
  BY DEF TypeOK
<1>2. \A s \in Streams : stream'[s].gen \in {stream[s].gen, stream[s].gen + 1}
  <2>1. ASSUME NEW s \in Streams, StartEnter(c, s)
        PROVE  \A t \in Streams : stream'[t].gen \in {stream[t].gen, stream[t].gen + 1}
    BY <2>1, StartEnterStream
  <2>2. ASSUME NEW s \in Streams, StopEnter(c, s)
        PROVE  \A t \in Streams : stream'[t].gen \in {stream[t].gen, stream[t].gen + 1}
    BY <2>2, StopEnterStream
  <2>3. CASE StartJoin(c)
    BY <2>3, StartJoinStream
  <2>4. CASE StopJoin(c)
    BY <2>4, StopJoinStream
  <2>5. CASE StartInstall(c)
    BY <2>5, StartInstallStream
  <2>6. CASE ConnectInstall(c)
    BY <2>6, ConnectInstallStream
  <2>7. CASE DisconnectEnter(c)
    BY <2>7, DisconnectStream
  <2>8. ASSUME NEW s \in Streams, EndsStream(s)
        PROVE  \A t \in Streams : stream'[t].gen \in {stream[t].gen, stream[t].gen + 1}
    BY <2>8 DEF EndsStream
  <2> QED BY <1>0, <1>1, <2>1, <2>2, <2>3, <2>4, <2>5, <2>6, <2>7, <2>8, StreamSteps
<1>3. \/ UNCHANGED superseded
      \/ \E S \in SUBSET Streams :
           Overtake(c, S) /\ \A s \in S : stream'[s].gen = stream[s].gen + 1
  <2>1. ASSUME NEW s \in Streams, StartEnter(c, s)
        PROVE  UNCHANGED superseded \/ (Overtake(c, {s}) /\ stream'[s].gen = stream[s].gen + 1)
    BY <2>1, StartEnterStream
  <2>2. ASSUME NEW s \in Streams, StopEnter(c, s)
        PROVE  UNCHANGED superseded \/ (Overtake(c, {s}) /\ stream'[s].gen = stream[s].gen + 1)
    BY <2>2, StopEnterStream
  <2>3. CASE DisconnectEnter(c)
    BY <2>3, DisconnectStream
  <2>4. ASSUME NEW s \in Streams, StartEnter(c, s) \/ StopEnter(c, s)
        PROVE  \/ UNCHANGED superseded
               \/ \E S \in SUBSET Streams :
                    Overtake(c, S) /\ \A t \in S : stream'[t].gen = stream[t].gen + 1
    <3>1. UNCHANGED superseded \/ (Overtake(c, {s}) /\ stream'[s].gen = stream[s].gen + 1)
      BY <2>1, <2>2, <2>4
    <3>2. {s} \in SUBSET Streams /\ \A t \in {s} : t = s
      OBVIOUS
    <3> QED BY <3>1, <3>2
  <2>5. CASE \E s \in Toggles : StartEnter(c, s) \/ StopEnter(c, s)
    BY <1>0, <2>4, <2>5
  <2> QED BY <2>3, <2>5
    DEF StepOf, CallStep, WorkerStep, CallBegins, CallContinues, ConnectEnter, ConnectAgain,
        DialSucceeds, ConnectFails, ConnectInstall, ConnectAnnounce, DisconnectUnpublish,
        DisconnectClose, DisconnectJoin, StartJoin, StartFails, StartAbort, StartInstall,
        StopJoin, WorkerContinues, CaptureStops, WorkerEndSession, WorkerCloseControl,
        WorkerCloseSocket, WorkerLast, WorkerExit, CaptureFails, CaptureHeader,
        ReconContinues, ReconClosePrevious, ReconDialSucceeds, ReconDialFails,
        ReconInstall, ReconCheck, ReconRegister, ReconDiscard, procVars
<1> QED BY <1>2, <1>3

-----------------------------------------------------------------------------
(* Overtaken calls, and launched ones.                                     *)

(* A call under way owns no more than it did, but for a start that has joined the
   worker of a stream it still owns. *)
LEMMA OwnersPersist ==
  ASSUME TypeOK, CallsKeepTheirName, NEW c \in Calls, StepOf(c), Pc(c) # "idle", Owns(c)'
  PROVE  \/ /\ Owns(c) /\ call'[c].gen = call[c].gen /\ call'[c].str = call[c].str
            /\ Starting(c)' => Starting(c) /\ call'[c].conn = call[c].conn
            /\ Joining(c)' => Joining(c) /\ call'[c].wait = call[c].wait
         \/ /\ StartJoin(c) /\ Owns(c) /\ stream[call[c].str].gen = call[c].gen
            /\ connected /\ conn = call[c].conn
            /\ call'[c].gen = call[c].gen + 1 /\ call'[c].conn = conn
            /\ call'[c].str = call[c].str /\ Starting(c)'
<1>0. call \in [Calls -> CallType]
  BY DEF TypeOK, CallType
<1>1. CASE UNCHANGED call
  BY <1>1 DEF Owns, Joining, Starting, Pc
<1>2. CASE StartJoin(c)
  <2>1. Goto(c, "returned") => ~Owns(c)'
    BY <1>0 DEF Goto, CallType, Owns, Joining, Starting, Pc
  <2>2. connected /\ conn = call[c].conn /\ stream[call[c].str].gen = call[c].gen
    BY <1>2, <2>1 DEF StartJoin
  <2>3. PICK stm : BeginStart(c, call[c].str, stm) /\ stm[call[c].str].gen = stream[call[c].str].gen
    <3>1. call[c].str \in Streams /\ stream[call[c].str] \in StreamType
      BY DEF TypeOK, StreamType
    <3> DEFINE s == call[c].str
               stm == [stream EXCEPT ![s] = [@ EXCEPT !.done = None, !.running = FALSE]]
    <3>2. BeginStart(c, s, stm)
      BY <1>2, <2>1, <2>2 DEF StartJoin
    <3>3. stm[s] = [stream[s] EXCEPT !.done = None, !.running = FALSE]
      BY <3>1 DEF TypeOK
    <3>4. stm[s].gen = stream[s].gen
      BY <3>1, <3>3 DEF StreamType
    <3> QED BY <3>2, <3>4
  <2>4. call'[c].gen = call[c].gen + 1 /\ call'[c].conn = conn /\ call'[c].str = call[c].str
        /\ call'[c].op = "on" /\ call'[c].pc \in {"dial", "dialed"}
    BY <1>0, <2>2, <2>3, BeginStartRecord
  <2>5. Owns(c) /\ Starting(c)'
    BY <1>2, <2>4 DEF StartJoin, Owns, Joining, Starting, Pc
  <2> QED BY <1>2, <2>2, <2>4, <2>5
<1>3. ASSUME NEW pc \in Pcs \ {"idle", "restart", "stop"}, Goto(c, pc), pc \in {"dial", "dialed"} => Pc(c) = "dial"
      PROVE  /\ Owns(c) /\ call'[c].gen = call[c].gen /\ call'[c].str = call[c].str
             /\ Starting(c)' => Starting(c) /\ call'[c].conn = call[c].conn
             /\ Joining(c)' => Joining(c) /\ call'[c].wait = call[c].wait
  <2>1. call'[c] = [call[c] EXCEPT !.pc = pc] /\ call[c] \in CallType
    BY <1>0, <1>3 DEF Goto
  <2>2. /\ call'[c].pc = pc /\ call'[c].op = call[c].op /\ call'[c].gen = call[c].gen
        /\ call'[c].str = call[c].str /\ call'[c].conn = call[c].conn
    BY <2>1 DEF CallType
  <2> QED BY <1>3, <2>2 DEF Owns, Joining, Starting, Pc
<1>4. CASE ConnectAgain(c)
  <2>1. call'[c].op = "connect" /\ call'[c].pc = "dial"
    <3>1. call'[c] = [call[c] EXCEPT !.op = "connect", !.pc = "dial",
                                     !.gen = connectGen + 1, !.conn = c]
          /\ call[c] \in CallType
      BY <1>0, <1>4 DEF ConnectAgain, BeginDial
    <3> QED BY <3>1 DEF CallType
  <2> QED BY <2>1 DEF Owns, Joining, Starting, Pc
<1>5. CASE DisconnectEnter(c)
  <2>1. call'[c].pc \in {"reconnect", "returned", "unpublish"}
    BY <1>0, <1>5, DisconnectEnterRecord DEF TypeOK
  <2> QED BY <2>1 DEF Owns, Joining, Starting, Pc
<1>6. CASE DialSucceeds(c) \/ ConnectFails(c) \/ ConnectInstall(c) \/ ConnectAnnounce(c)
           \/ DisconnectUnpublish(c) \/ DisconnectClose(c) \/ DisconnectJoin(c)
           \/ StartFails(c) \/ StartAbort(c) \/ StartInstall(c) \/ StopJoin(c)
  <2>1. PICK pc \in Pcs \ {"idle", "restart", "stop"} :
          Goto(c, pc) /\ (pc \in {"dial", "dialed"} => Pc(c) = "dial")
    BY <1>6 DEF Pcs, AfterDisconnect, DialSucceeds, ConnectFails, ConnectInstall,
                ConnectAnnounce, DisconnectUnpublish, DisconnectClose, DisconnectJoin,
                StartFails, StartAbort, StartInstall, StopJoin
  <2> QED BY <1>3, <2>1
<1>7. CASE CallStep(c)
  <2>1. ~CallBegins(c)
    BY DEF CallBegins, ConnectEnter, StartEnter, StopEnter, Fresh
  <2> QED BY <1>2, <1>4, <1>5, <1>6, <1>7, <2>1 DEF CallStep, CallContinues
<1>8. CASE ConnectAnnounce(c)
  BY <1>6, <1>8
<1> QED BY <1>1, <1>7, <1>8, CallMoves

(* A start that a later call has overtaken never owns its stream again. *)
LEMMA OvertakenStayLost ==
  ASSUME PInv, TypeOK, CallsKeepTheirName, OvertakenHaveLost, NEW c \in Calls, StepOf(c)
  PROVE  OvertakenHaveLost'
<1>1. \A d \in Calls \ {c} : call'[d] = call[d]
  BY CallMoves
<1>2. \A s \in Streams : /\ stream[s].gen \in Nat
                         /\ stream'[s].gen \in {stream[s].gen, stream[s].gen + 1}
  BY GenerationsGrow DEF TypeOK
<1>3. \A d \in Calls : call[d].str \in Streams /\ call[d].gen \in Nat
  BY DEF TypeOK
<1>4. \A d \in Calls : Owns(d) => call[d].gen <= stream[call[d].str].gen
  BY DEF PInv, GenerationsDiffer
<1>5. ASSUME NEW d \in superseded, d \in Calls
      PROVE  /\ Pc(d)' # "idle" /\ call'[d].op = "on"
             /\ Owns(d)' => call'[d].gen < stream'[call'[d].str].gen
  <2>0. /\ Pc(d) # "idle" /\ call[d].op = "on"
        /\ Owns(d) => call[d].gen < stream[call[d].str].gen
    BY DEF OvertakenHaveLost
  <2>1. CASE call'[d] = call[d]
    <3>1. Pc(d)' = Pc(d) /\ (Owns(d)' <=> Owns(d))
      BY <2>1 DEF Owns, Joining, Starting, Pc
    <3>2. \A n \in Nat : \A g \in Nat : \A h \in {g, g + 1} : n < g => n < h
      OBVIOUS
    <3>3. Owns(d) => call[d].gen < stream'[call[d].str].gen
      <4>1. call[d].str \in Streams /\ call[d].gen \in Nat
        BY <1>3, <1>5
      <4>2. /\ stream[call[d].str].gen \in Nat
            /\ stream'[call[d].str].gen \in {stream[call[d].str].gen, stream[call[d].str].gen + 1}
        BY <1>2, <4>1
      <4> QED BY ONLY <2>0, <3>2, <4>1, <4>2
    <3> QED BY <2>0, <2>1, <3>1, <3>3
  <2>2. CASE d = c
    <3>1. Pc(c)' # "idle" /\ call'[c].op = "on"
      <4>1. CASE ConnectAnnounce(c)
        BY <2>0, <2>2, <4>1 DEF ConnectAnnounce, CallsKeepTheirName
      <4> QED BY <2>0, <2>2, <4>1, CallMoves DEF Pc
    <3>2. ASSUME Owns(c)'
          PROVE  call'[c].gen < stream'[call'[c].str].gen
      <4>1. Owns(c) /\ call'[c].gen = call[c].gen /\ call'[c].str = call[c].str
        BY <1>2, <1>3, <2>0, <2>2, <3>2, OwnersPersist
      <4> QED BY <1>2, <1>3, <2>0, <2>2, <4>1
    <3> QED BY <2>2, <3>1, <3>2 DEF Owns, Joining, Starting, Pc
  <2> QED BY <1>1, <1>5, <2>1, <2>2
<1>6. ASSUME NEW S \in SUBSET Streams, Overtake(c, S),
             \A s \in S : stream'[s].gen = stream[s].gen + 1,
             NEW d \in superseded' \ superseded
      PROVE  /\ d \in Calls /\ Pc(d)' # "idle" /\ call'[d].op = "on"
             /\ Owns(d)' => call'[d].gen < stream'[call'[d].str].gen
  <2>1. d \in Calls \ {c} /\ InFlight(d) /\ call[d].op = "on" /\ call[d].str \in S
    BY <1>6 DEF Overtake
  <2>2. call'[d] = call[d]
    BY <1>1, <2>1
  <2>3. Owns(d) => call[d].gen < stream'[call[d].str].gen
    BY <1>2, <1>3, <1>4, <1>6, <2>1
  <2> QED BY <2>1, <2>2, <2>3 DEF InFlight, Owns, Joining, Starting, Pc
<1>7. superseded \subseteq Calls
  BY DEF TypeOK
<1> QED BY <1>5, <1>6, <1>7, GenerationsGrow DEF OvertakenHaveLost

(* A worker exists once its call has done its work, and so does a reconnect. *)
LEMMA LaunchedStayReturned ==
  ASSUME PInv, TypeOK, CallsKeepTheirName, LaunchedHaveReturned, NEW c \in Calls, StepOf(c)
  PROVE  LaunchedHaveReturned'
<1>1. KeepsHistory
  BY HistoryIsKept
<1>2. \A k : Installed(k) => Installed(k)'
  BY <1>1, InstalledStays
<1> DEFINE L(d) == /\ Phase(d) # "none" => Settled(d) /\ Installed(worker[d].conn)
                   /\ Phase(d) \in {"end", "control", "socket"} => worker[d].str = "screen"
                   /\ recon[d] # "none" => Phase(d) # "none" /\ worker[d].str = "screen"
<1>3. \A d \in Calls : L(d)
  BY DEF LaunchedHaveReturned
<1>4. ASSUME NEW d \in Calls, Phase(d) # "none"
      PROVE  Settled(d)' /\ Installed(worker[d].conn)' /\ Phase(d)' # "none"
             /\ worker'[d].str = worker[d].str
  <2>1. worker'[d].conn = worker[d].conn /\ Installed(worker[d].conn)
    BY <1>1, <1>3, <1>4 DEF KeepsHistory
  <2>2. /\ worker[d].conn \in Calls /\ call'[worker[d].conn].op = "connect"
        /\ call'[worker[d].conn].pc \in {"announce", "returned"}
    BY <1>1, <2>1 DEF KeepsHistory, Installed, Settled, Pc
  <2> QED BY <1>1, <1>3, <1>4, <2>1, <2>2 DEF KeepsHistory, Installed, Pc
<1>5. ASSUME NEW d \in Calls, worker'[d] = worker[d], recon'[d] = recon[d]
      PROVE  L(d)'
  <2>1. Phase(d)' = Phase(d)
    BY <1>5 DEF Phase
  <2> QED BY <1>3, <1>4, <1>5, <2>1
<1>6. L(c)'
  <2>1. CASE UNCHANGED worker
    <3>1. recon'[c] # "none" => recon[c] # "none" \/ StartInstall(c)
      BY ReconMoves
    <3>2. ~StartInstall(c) \/ recon'[c] = "none"
      <4>1. ~StartInstall(c)
        <5>1. ASSUME StartInstall(c)
              PROVE  FALSE
          <6>1. Phase(c) = "none"
            BY <5>1 DEF StartInstall, LaunchedHaveReturned, Settled
          <6>2. worker'[c].phase = "run"
            BY <5>1 DEF StartInstall, TypeOK
          <6> QED BY <2>1, <6>1, <6>2 DEF Phase
        <5> QED BY <5>1
      <4> QED BY <4>1
    <3>3. recon'[c] # "none" => recon[c] # "none"
      BY <3>1, <3>2
    <3>4. Phase(c)' = Phase(c) /\ worker'[c].str = worker[c].str
      BY <2>1 DEF Phase
    <3> QED BY <1>3, <1>4, <3>3, <3>4
  <2>2. ASSUME NEW from \in Phases \ {"none", "exited"}, NEW to \in Phases \ {"none", "run"},
               Step(c, from, to), WorkerStep(c)
        PROVE  L(c)'
    <3>1. Phase(c) = from /\ Phase(c)' = to /\ Phase(c) # "none"
      BY <2>2, StepPhase DEF Phase, Step
    <3>2. to \in {"end", "control", "socket"} => worker[c].str = "screen"
      <4>1. \/ Step(c, "run", AfterCapture(c)) \/ Step(c, "end", "control")
            \/ Step(c, "control", "socket") \/ Step(c, "socket", "last")
            \/ Step(c, "last", "exit") \/ Step(c, "exit", "exited")
            \/ UNCHANGED worker
        BY <2>2 DEF WorkerStep, WorkerContinues, CaptureStops, WorkerEndSession,
           WorkerCloseControl, WorkerCloseSocket, WorkerLast, WorkerExit, CaptureFails,
           CaptureHeader, procVars
      <4>2. \/ from = "run" /\ to = AfterCapture(c)
            \/ from \in {"end", "control", "socket", "last", "exit"}
                 /\ (to \in {"end", "control", "socket"} => from \in {"end", "control", "socket"})
            \/ to = from
        <5>1. ASSUME NEW a, NEW b \in Phases, Step(c, a, b)
              PROVE  a = from /\ b = to
          BY <3>1, <5>1, StepPhase DEF Phase
        <5>2. AfterCapture(c) \in Phases
          BY DEF AfterCapture, Phases
        <5>3. CASE UNCHANGED worker
          BY <3>1, <5>3 DEF Phase
        <5>4. CASE Step(c, "run", AfterCapture(c))
          BY <5>1, <5>2, <5>4
        <5>5. CASE Step(c, "end", "control") \/ Step(c, "control", "socket")
                   \/ Step(c, "socket", "last") \/ Step(c, "last", "exit")
                   \/ Step(c, "exit", "exited")
          BY <5>1, <5>5 DEF Phases
        <5> QED BY <4>1, <5>3, <5>4, <5>5
      <4> QED BY <1>3, <3>1, <4>2 DEF AfterCapture
    <3>3. recon'[c] = recon[c]
      BY <2>2 DEF WorkerStep, WorkerContinues, CaptureStops, WorkerEndSession,
         WorkerCloseControl, WorkerCloseSocket, WorkerLast, WorkerExit, CaptureFails,
         CaptureHeader, procVars
    <3> QED BY <1>3, <1>4, <3>1, <3>2, <3>3
  <2>3. CASE ConnectInstall(c) /\ ~UNCHANGED worker
    <3>0. /\ Goto(c, "announce") /\ call[c].op = "connect" /\ UNCHANGED recon
          /\ Pc(c) = "dialed"
          /\ \/ UNCHANGED worker
             \/ \E g, k : worker' = [worker EXCEPT ![c] =
                  [phase |-> "run", str |-> "speaker", gen |-> g, conn |-> c,
                   sock |-> k, hubGen |-> 0]]
      BY <2>3 DEF ConnectInstall
    <3>1. /\ worker'[c].phase = "run" /\ worker'[c].conn = c /\ worker'[c].str = "speaker"
          /\ Goto(c, "announce") /\ call[c].op = "connect" /\ UNCHANGED recon
          /\ Phase(c) = "none"
      <4>1. Phase(c) = "none"
        BY <3>0 DEF LaunchedHaveReturned, Settled, Pc
      <4>2. worker'[c].phase = "run" /\ worker'[c].conn = c /\ worker'[c].str = "speaker"
        BY <2>3, <3>0 DEF TypeOK
      <4> QED BY <3>0, <4>1, <4>2
    <3>2. call'[c].pc = "announce" /\ call'[c].op = "connect"
      BY <3>1 DEF Goto, TypeOK
    <3> QED BY <1>3, <3>1, <3>2 DEF Installed, Settled, Pc, Phase
  <2>4. CASE StartInstall(c)
    <3>1. /\ worker'[c].phase = "run" /\ worker'[c].conn = conn
          /\ worker'[c].str = call[c].str
          /\ Goto(c, "returned") /\ connected
      BY <2>4 DEF StartInstall, StillOwned, TypeOK
    <3>2. call'[c].pc = "returned"
      BY <3>1 DEF Goto, TypeOK
    <3>3. /\ conn \in Calls /\ call'[conn].op = "connect"
          /\ call'[conn].pc \in {"announce", "returned"}
      BY <3>1, <1>1, ConnectedHasConn DEF KeepsHistory, Installed, Settled, Pc
    <3>4. recon[c] = "none"
      BY <2>4, <1>3 DEF StartInstall, Settled
    <3>5. recon'[c] # "none" => call[c].str = "screen"
      BY <2>4, <3>4 DEF StartInstall
    <3> QED BY <3>1, <3>2, <3>3, <3>5 DEF Installed, Settled, Pc, Phase
  <2> HIDE DEF L
  <2> QED BY <2>1, <2>2, <2>3, <2>4, WorkerMoves
<1>7. \A d \in Calls : L(d)'
  <2> HIDE DEF L
  <2> QED BY <1>5, <1>6, WorkerMoves, ReconMoves
<1> QED BY <1>7 DEF LaunchedHaveReturned

(* What a Goto writes. *)
LEMMA GotoRecord ==
  ASSUME TypeOK, NEW c \in Calls, NEW pc, Goto(c, pc)
  PROVE  /\ \A d \in Calls \ {c} : call'[d] = call[d]
         /\ call'[c].pc = pc /\ call'[c].op = call[c].op /\ call'[c].str = call[c].str
         /\ call'[c].conn = call[c].conn /\ call'[c].gen = call[c].gen
         /\ call'[c].wait = call[c].wait
<1>1. call \in [Calls -> CallType] /\ call[c] \in CallType
  BY DEF TypeOK, CallType
<1>2. call'[c] = [call[c] EXCEPT !.pc = pc] /\ \A d \in Calls \ {c} : call'[d] = call[d]
  BY <1>1 DEF Goto
<1> QED BY <1>1, <1>2 DEF CallType

-----------------------------------------------------------------------------
(* What one step does to slots and sockets.                                *)

(* A launch: the call's socket goes into the slot of its stream. *)
Launches(c) ==
  /\ ConnectInstall(c) \/ StartInstall(c)
  /\ call[c].str \in Streams /\ call[c].conn \in Calls
  /\ Pc(c) = "dialed" /\ Settled(c)' /\ call'[c].conn = call[c].conn
  /\ call'[c].str = call[c].str

(* A control reconnect puts its socket into the control slot. *)
Reconnects(c) ==
  /\ ReconInstall(c)
  /\ recon[c] = "install" /\ recon'[c] = "check" /\ controlOwner = c
  /\ ~Cancelled(c) /\ worker[c].conn \in Calls \ closed

(* A slot is emptied, or filled by a launch or a reconnect with its own socket. *)
LEMMA SlotSteps ==
  ASSUME PInv, TypeOK, CallsKeepTheirName, LaunchedHaveReturned, DialedSockets,
         NEW c \in Calls, StepOf(c), NEW j \in Calls, NEW t \in Slots
  PROVE  \/ slot'[j][t] \in {None, slot[j][t]}
         \/ /\ Launches(c) /\ slot'[j][t] = c /\ j = call[c].conn /\ t = call[c].str
            /\ sock[c] = "open" /\ sock'[c] = "open"
         \/ /\ Reconnects(c) /\ slot'[j][t] = c /\ j = worker[c].conn /\ t = "control"
<1>1. CASE UNCHANGED <<slot, sock, csock>>
  BY <1>1
<1>2. CASE \E k \in Calls, S \in SUBSET Slots : Empties(k, S)
  BY <1>2 DEF Empties
<1>3. CASE DialSucceeds(c) \/ StartAbort(c) \/ ReconDialSucceeds(c)
  BY <1>3 DEF DialSucceeds, StartAbort, ReconDialSucceeds
<1>4. CASE ConnectInstall(c)
  <2>1. CASE UNCHANGED slot
    BY <2>1
  <2>2. CASE ~UNCHANGED slot
    <3>1. /\ slot' = [slot EXCEPT ![c]["speaker"] = c] /\ Goto(c, "announce")
          /\ UNCHANGED sock /\ Pc(c) = "dialed" /\ call[c].op = "connect"
      BY <1>4, <2>2 DEF ConnectInstall
    <3>2. call[c].conn = c /\ call[c].str = "speaker" /\ sock[c] = "open"
      BY <3>1 DEF CallsKeepTheirName, DialedSockets
    <3>3. Launches(c)
      BY <1>4, <3>1, <3>2, GotoRecord, Basics DEF Launches, Settled, Pc
    <3>4. slot'[j][t] = IF j = c /\ t = "speaker" THEN c ELSE slot[j][t]
      BY <3>1 DEF TypeOK
    <3> QED BY <3>1, <3>2, <3>3, <3>4
  <2> QED BY <2>1, <2>2
<1>5. CASE StartInstall(c)
  <2> DEFINE own == IF sock[c] = "open" THEN c ELSE slot[conn][call[c].str]
  <2>1. Installs(conn, call[c].str, own)
    BY <1>5, StartInstallInstalls
  <2>2. conn = call[c].conn /\ connected /\ conn \in Calls /\ call[c].str \in Streams
        /\ call[c].str # "control" /\ Pc(c) = "dialed" /\ Goto(c, "returned")
    BY <1>5, ConnectedHasConn DEF StartInstall, StillOwned, TypeOK, Streams
  <2>3. slot'[j][t] = IF j = conn /\ t = call[c].str THEN own ELSE slot[j][t]
    BY <2>1 DEF Installs
  <2>4. Launches(c)
    BY <1>5, <2>2, GotoRecord DEF Launches, Settled, Pc
  <2>5. sock[c] = "open" => sock'[c] = "open"
    BY <2>1 DEF Installs
  <2> QED BY <2>2, <2>3, <2>4, <2>5
<1>6. CASE ReconInstall(c)
  <2>1. CASE ReconGoto(c, "install", "check")
    <3>1. worker[c].conn \in Calls
      BY <2>1 DEF ReconGoto, LaunchedHaveReturned, Installed
    <3>2. Installs(worker[c].conn, "control", c)
      BY <1>6, <2>1, <3>1, ReconInstallInstalls
    <3>3. Reconnects(c)
      <4>1. recon[c] = "install" /\ recon'[c] = "check"
        BY <2>1 DEF ReconGoto, TypeOK
      <4>2. ~ReconGoto(c, "install", "done")
        BY <4>1 DEF ReconGoto, TypeOK
      <4> QED BY <1>6, <3>1, <4>1, <4>2 DEF ReconInstall, Reconnects
    <3> QED BY <3>2, <3>3 DEF Installs
  <2>2. CASE ~ReconGoto(c, "install", "check")
    BY <1>6, <2>2 DEF ReconInstall
  <2> QED BY <2>1, <2>2
<1>7. CASE ReconDiscard(c)
  <2>1. UNCHANGED slot \/ slot' = [slot EXCEPT ![worker[c].conn]["control"] = None]
    BY <1>7 DEF ReconDiscard
  <2>2. slot' = [slot EXCEPT ![worker[c].conn]["control"] = None]
          => slot'[j][t] \in {None, slot[j][t]}
    BY DEF TypeOK
  <2> QED BY <2>1, <2>2
<1> QED BY <1>1, <1>2, <1>3, <1>4, <1>5, <1>6, <1>7, SocketSteps

(* A socket in a slot keeps the name of the call that dialed it. *)
LEMMA SlotsStayNamed ==
  ASSUME PInv, TypeOK, CallsKeepTheirName, LaunchedHaveReturned, DialedSockets,
         SlotsAreNamed, NEW c \in Calls, StepOf(c)
  PROVE  SlotsAreNamed'
<1>1. KeepsHistory
  BY HistoryIsKept
<1>2. ASSUME NEW k \in Calls, NEW d \in Calls, NEW s \in Streams, slot'[k][s] = d
      PROVE  Settled(d)' /\ call'[d].conn = k /\ call'[d].str = s
  <2>1. s \in Slots /\ s # "control" /\ d # None
    BY Basics DEF Slots, Streams
  <2>2. CASE slot[k][s] = d
    <3>1. Settled(d) /\ call[d].conn = k /\ call[d].str = s
      BY <2>2 DEF SlotsAreNamed
    <3> QED BY <1>1, <3>1 DEF KeepsHistory
  <2>3. CASE Launches(c) /\ d = c /\ k = call[c].conn /\ s = call[c].str
    BY <2>3 DEF Launches
  <2> QED BY <1>2, <2>1, <2>2, <2>3, SlotSteps
<1>3. ASSUME NEW k \in Calls, NEW d \in Calls, slot'[k]["control"] = d
      PROVE  HasSocket(d)' /\ worker'[d].conn = k
  <2>1. "control" \in Slots /\ d # None /\ "control" \notin Streams
    BY Basics DEF Slots, Streams
  <2>2. CASE slot[k]["control"] = d
    <3>1. HasSocket(d) /\ worker[d].conn = k
      BY <2>2 DEF SlotsAreNamed
    <3>2. Phase(d) # "none"
      BY <3>1 DEF HasSocket, LaunchedHaveReturned
    <3> QED BY <1>1, <3>1, <3>2 DEF KeepsHistory
  <2>3. CASE Reconnects(c) /\ d = c /\ k = worker[c].conn
    <3>1. HasSocket(c)'
      BY <2>3 DEF Reconnects, HasSocket
    <3>2. Phase(c) # "none"
      BY <2>3 DEF Reconnects, LaunchedHaveReturned
    <3> QED BY <1>1, <2>3, <3>1, <3>2 DEF KeepsHistory
  <2>4. CASE Launches(c) /\ "control" = call[c].str
    BY <2>1, <2>4 DEF Launches
  <2> QED BY <1>3, <2>1, <2>2, <2>3, <2>4, SlotSteps
<1> QED BY <1>2, <1>3 DEF SlotsAreNamed

(* A step opens only the socket its own call dials, and closes only sockets in slots
   and the one that its own call is not going to use. *)
LEMMA SockSteps ==
  ASSUME PInv, TypeOK, CallsKeepTheirName, LaunchedHaveReturned, SlotsAreNamed,
         DialedSockets, NEW c \in Calls, StepOf(c), NEW d \in Calls
  PROVE  /\ \/ sock'[d] = sock[d]
            \/ sock'[d] = "closed" /\ Settled(d)
            \/ d = c /\ DialSucceeds(c) /\ sock'[d] = "open"
            \/ d = c /\ Pc(c) = "dialed" /\ call'[c].pc = "returned"
         /\ \/ csock'[d] = csock[d]
            \/ csock'[d] = "closed" /\ HasSocket(d)
            \/ d = c /\ recon[c] = "dial" /\ recon'[c] = "install" /\ csock'[d] = "open"
            \/ d = c /\ recon[c] = "install" /\ recon'[c] = "done"
<1>0. \A k \in Calls, s \in Slots :
        /\ slot[k][s] = d /\ s # "control" => Settled(d)
        /\ slot[k]["control"] = d => HasSocket(d)
  BY DEF SlotsAreNamed, Slots
<1>1. CASE UNCHANGED <<slot, sock, csock>>
  BY <1>1
<1>2. CASE \E k \in Calls, S \in SUBSET Slots : Empties(k, S)
  BY <1>0, <1>2 DEF Empties
<1>3. CASE DialSucceeds(c)
  <2>1. sock' = [sock EXCEPT ![c] = "open"] /\ UNCHANGED csock
    BY <1>3 DEF DialSucceeds
  <2> QED BY <1>3, <2>1 DEF TypeOK
<1>4. CASE StartAbort(c) \/ ConnectInstall(c)
  <2>1. UNCHANGED sock \/ (CloseDialed(c) /\ Pc(c) = "dialed" /\ Goto(c, "returned"))
    BY <1>4 DEF StartAbort, ConnectInstall
  <2>2. UNCHANGED csock
    BY <1>4 DEF StartAbort, ConnectInstall
  <2>3. CloseDialed(c) => d = c \/ sock'[d] = sock[d]
    BY DEF CloseDialed, TypeOK
  <2> QED BY <2>1, <2>2, <2>3, GotoRecord
<1>5. CASE StartInstall(c)
  <2>1. PICK own : Installs(conn, call[c].str, own)
    BY <1>5, StartInstallInstalls
  <2>2. conn \in Calls /\ call[c].str \in Slots /\ call[c].str # "control"
    BY <1>5, ConnectedHasConn DEF StartInstall, StillOwned, TypeOK, Slots, Streams
  <2> QED BY <1>0, <2>1, <2>2 DEF Installs
<1>6. CASE ReconDialSucceeds(c)
  <2>1. csock' = [csock EXCEPT ![c] = "open"] /\ UNCHANGED sock
        /\ ReconGoto(c, "dial", "install")
    BY <1>6 DEF ReconDialSucceeds
  <2> QED BY <2>1 DEF TypeOK, ReconGoto
<1>7. CASE ReconInstall(c)
  <2>1. CASE ReconGoto(c, "install", "check")
    <3>1. worker[c].conn \in Calls
      BY <2>1 DEF ReconGoto, LaunchedHaveReturned, Installed
    <3> QED BY <1>0, <1>7, <2>1, <3>1, ReconInstallInstalls DEF Installs, Slots
  <2>2. CASE ~ReconGoto(c, "install", "check")
    <3>1. ReconGoto(c, "install", "done") /\ csock' = [csock EXCEPT ![c] = "closed"]
          /\ UNCHANGED sock
      BY <1>7, <2>2 DEF ReconInstall
    <3> QED BY <3>1 DEF ReconGoto, TypeOK
  <2> QED BY <2>1, <2>2
<1>8. CASE ReconDiscard(c)
  <2>1. HasSocket(c) /\ csock' = [csock EXCEPT ![c] = "closed"] /\ UNCHANGED sock
    BY <1>8 DEF ReconDiscard, ReconGoto, HasSocket
  <2> QED BY <2>1 DEF TypeOK
<1> QED BY <1>1, <1>2, <1>3, <1>4, <1>5, <1>6, <1>7, <1>8, SocketSteps

(* A call is ready to check its session once it has dialed, or because the slot of
   its stream, never the screen's, holds a socket to reuse. *)
LEMMA DialedMoves ==
  ASSUME TypeOK, CallsKeepTheirName, NEW c \in Calls, StepOf(c), NEW d \in Calls
  PROVE  /\ Pc(d)' = "dialed" =>
              \/ /\ Pc(d) = "dialed" /\ call'[d].op = call[d].op /\ call'[d].str = call[d].str
              \/ d = c /\ DialSucceeds(c)
              \/ d = c /\ ~Settled(c) /\ Pc(c) # "dialed"
                       /\ call'[c].op = "on" /\ call'[c].str # "screen"
         /\ Pc(d) = "dialed" => Pc(d)' = "dialed" \/ Settled(d)'
<1>0. call \in [Calls -> CallType] /\ \A s \in Toggles : s \in Streams
  BY ControllerAssumption DEF TypeOK, CallType
<1>1. CASE d # c \/ UNCHANGED call
  BY <1>1, CallMoves DEF Pc
<1>2. ASSUME NEW pc, Goto(c, pc)
      PROVE  call'[c].pc = pc /\ call'[c].op = call[c].op /\ call'[c].str = call[c].str
  BY <1>2, GotoRecord
<1>3. CASE d = c /\ DialSucceeds(c)
  BY <1>3 DEF DialSucceeds, Pc
<1>4. CASE d = c /\ (ConnectFails(c) \/ ConnectInstall(c) \/ ConnectAnnounce(c)
           \/ DisconnectUnpublish(c) \/ DisconnectClose(c) \/ DisconnectJoin(c)
           \/ StartFails(c) \/ StartAbort(c) \/ StartInstall(c) \/ StopJoin(c))
  <2>1. PICK pc \in {"returned", "announce", "close", "join", "reconnect"} :
          Goto(c, pc) /\ (Pc(c) = "dialed" => pc \in {"returned", "announce"})
    BY <1>4 DEF AfterDisconnect, ConnectFails, ConnectInstall,
                ConnectAnnounce, DisconnectUnpublish, DisconnectClose, DisconnectJoin,
                StartFails, StartAbort, StartInstall, StopJoin
  <2> QED BY <1>2, <1>4, <2>1 DEF Pc, Settled
<1>5. CASE d = c /\ ConnectEnter(c)
  <2>1. Pc(c) = "idle"
    BY <1>5 DEF ConnectEnter, Fresh
  <2> QED BY <1>0, <1>5, <2>1, ConnectEnterRecord DEF Pc
<1>6. CASE d = c /\ ConnectAgain(c)
  <2>1. call'[c] = [call[c] EXCEPT !.op = "connect", !.pc = "dial",
                                   !.gen = connectGen + 1, !.conn = c]
        /\ call[c] \in CallType /\ Pc(c) = "reconnect"
    BY <1>0, <1>6 DEF ConnectAgain, BeginDial
  <2>2. call'[c].pc = "dial"
    BY <2>1 DEF CallType
  <2> QED BY <1>6, <2>1, <2>2 DEF Pc
<1>7. CASE d = c /\ DisconnectEnter(c)
  <2>1. Pc(c) \in {"idle", "disconnect"}
    BY <1>7 DEF DisconnectEnter, Fresh
  <2>2. call'[c].pc \in {"reconnect", "returned", "unpublish"}
    BY <1>0, <1>7, DisconnectEnterRecord DEF TypeOK
  <2> QED BY <1>7, <2>1, <2>2 DEF Pc
<1>8. ASSUME NEW s \in Streams, StartEnter(c, s)
      PROVE  Pc(c) = "idle" /\ (Pc(c)' = "dialed" => call'[c].op = "on" /\ call'[c].str # "screen")
  <2>1. Pc(c) = "idle"
    BY <1>8 DEF StartEnter, Fresh
  <2> QED BY <1>0, <1>8, <2>1, StartEnterRecord DEF Pc
<1>9. CASE d = c /\ StartJoin(c)
  <2>1. Pc(c) = "restart"
    BY <1>9 DEF StartJoin
  <2>2. Pc(c)' = "dialed" => call'[c].op = "on" /\ call'[c].str # "screen"
    BY <1>0, <1>9, StartJoinRecord DEF Pc
  <2> QED BY <1>9, <2>1, <2>2 DEF Settled
<1>10. ASSUME NEW s \in Streams, StopEnter(c, s)
      PROVE  Pc(c) = "idle" /\ Pc(c)' # "dialed"
  <2>1. Pc(c) = "idle"
    BY <1>10 DEF StopEnter, Fresh
  <2> QED BY <1>0, <1>10, <2>1, StopEnterRecord DEF Pc
<1>11. CASE d = c /\ CallBegins(c)
  BY <1>0, <1>5, <1>7, <1>8, <1>10, <1>11 DEF CallBegins, Settled
<1>12. CASE d = c /\ CallContinues(c)
  BY <1>3, <1>4, <1>6, <1>7, <1>9, <1>12 DEF CallContinues
<1>13. UNCHANGED call \/ CallStep(c) \/ ConnectAnnounce(c)
  BY CallMoves
<1> QED BY <1>1, <1>4, <1>11, <1>12, <1>13 DEF CallStep

(* A reconnect's socket is open from the dial to its installation. *)
LEMMA ReconDials ==
  ASSUME TypeOK, LaunchedHaveReturned, NEW c \in Calls, StepOf(c), NEW d \in Calls
  PROVE  /\ recon'[d] = "install" =>
              recon[d] = "install" \/ (d = c /\ ReconDialSucceeds(c))
         /\ recon[d] = "install" => recon'[d] = "install" \/ HasSocket(d)'
<1>1. CASE d # c \/ UNCHANGED recon \/ StartInstall(c)
  BY <1>1, ReconMoves DEF StartInstall, LaunchedHaveReturned, Settled
<1>2. CASE d = c /\ ReconContinues(c)
  BY <1>2 DEF TypeOK, HasSocket, ReconContinues, ReconClosePrevious, ReconDialSucceeds,
         ReconDialFails, ReconInstall, ReconCheck, ReconRegister, ReconDiscard, ReconGoto
<1> QED BY <1>1, <1>2, ReconMoves

(* A socket that was dialed stays open until it is used, or its call returns. *)
LEMMA DialedStayOpen ==
  ASSUME PInv, TypeOK, CallsKeepTheirName, LaunchedHaveReturned, SlotsAreNamed,
         DialedSockets, NEW c \in Calls, StepOf(c)
  PROVE  DialedSockets'
<1>1. KeepsHistory
  BY HistoryIsKept
<1>2. ASSUME NEW d \in Calls
      PROVE  /\ sock'[d] # "none" => Pc(d)' = "dialed" \/ Settled(d)'
             /\ Pc(d)' = "dialed" => sock'[d] # "closed"
             /\ Pc(d)' = "dialed" /\ call'[d].str = "screen" => sock'[d] = "open"
             /\ Pc(d)' = "dialed" /\ call'[d].op = "connect" => sock'[d] = "open"
  <2>1. /\ sock[d] # "none" => Pc(d) = "dialed" \/ Settled(d)
        /\ Pc(d) = "dialed" => sock[d] # "closed"
        /\ Pc(d) = "dialed" /\ call[d].str = "screen" => sock[d] = "open"
        /\ Pc(d) = "dialed" /\ call[d].op = "connect" => sock[d] = "open"
    BY DEF DialedSockets
  <2>2. Settled(d) => Settled(d)' /\ Pc(d)' # "dialed"
    BY <1>1 DEF KeepsHistory, Settled
  <2>3. CASE d = c /\ DialSucceeds(c)
    <3>1. sock'[c] = "open" /\ Goto(c, "dialed")
      BY <2>3 DEF DialSucceeds, TypeOK
    <3>2. Pc(c)' = "dialed"
      BY <3>1, GotoRecord DEF Pc
    <3> QED BY <2>3, <3>1, <3>2
  <2>4. CASE d = c /\ Pc(c) = "dialed" /\ call'[c].pc = "returned"
    BY <2>4 DEF Settled, Pc
  <2>5. CASE sock'[d] = "closed" /\ Settled(d)
    BY <2>2, <2>5
  <2>6. CASE sock'[d] = sock[d] /\ ~(d = c /\ DialSucceeds(c))
    BY <2>1, <2>2, <2>6, DialedMoves
  <2> QED BY <2>3, <2>4, <2>5, <2>6, SockSteps
<1>3. ASSUME NEW d \in Calls
      PROVE  /\ csock'[d] # "none" => recon'[d] = "install" \/ HasSocket(d)'
             /\ recon'[d] = "install" => csock'[d] = "open"
  <2>1. /\ csock[d] # "none" => recon[d] = "install" \/ HasSocket(d)
        /\ recon[d] = "install" => csock[d] = "open"
    BY DEF DialedSockets
  <2>2. HasSocket(d) => HasSocket(d)' /\ recon'[d] # "install"
    BY <1>1 DEF KeepsHistory, HasSocket
  <2>3. CASE d = c /\ recon[c] = "dial" /\ recon'[c] = "install" /\ csock'[d] = "open"
    BY <2>3
  <2>4. CASE d = c /\ recon[c] = "install" /\ recon'[c] = "done"
    BY <2>4 DEF HasSocket
  <2>5. CASE csock'[d] = "closed" /\ HasSocket(d)
    BY <2>2, <2>5
  <2>6. CASE csock'[d] = csock[d]
    <3>1. ASSUME d = c, ReconDialSucceeds(c)
          PROVE  csock'[c] = "open" /\ recon'[c] = "install"
      BY <3>1 DEF ReconDialSucceeds, ReconGoto, TypeOK
    <3> QED BY <2>1, <2>2, <2>6, <3>1, ReconDials
  <2> QED BY <2>3, <2>4, <2>5, <2>6, SockSteps
<1> QED BY <1>2, <1>3 DEF DialedSockets

(* No screen worker is left on the connection when the next one is launched. *)
LEMMA ScreenSlotStaysOwn ==
  ASSUME PInv, TypeOK, CallsKeepTheirName, LaunchedHaveReturned, SlotsAreNamed,
         DialedSockets, ScreenSlotIsOwn, NEW c \in Calls, StepOf(c)
  PROVE  ScreenSlotIsOwn'
<1>0. "screen" \in Slots /\ "screen" \in Streams /\ "screen" # "speaker"
  BY DEF Slots, Streams
<1>1. KeepsHistory
  BY HistoryIsKept
<1>2. ASSUME NEW d \in Calls, Alive(d)', worker'[d].str = "screen"
      PROVE  slot'[worker'[d].conn]["screen"] \in {None, d}
  <2>1. CASE Alive(d)
    <3>1. /\ worker'[d].conn = worker[d].conn /\ worker[d].str = "screen"
          /\ worker[d].conn \in Calls
      BY <1>1, <1>2, <2>1 DEF KeepsHistory, Alive, LaunchedHaveReturned, Installed
    <3>2. slot[worker[d].conn]["screen"] \in {None, d}
      BY <2>1, <3>1 DEF ScreenSlotIsOwn
    <3>3. CASE Launches(c) /\ worker[d].conn = call[c].conn /\ "screen" = call[c].str
      <4>1. StartInstall(c)
        BY <1>0, <3>3 DEF Launches, ConnectInstall, CallsKeepTheirName
      <4>2. conn = call[c].conn /\ stream["screen"].gen = call[c].gen /\ Starting(c)
        BY <3>3, <4>1 DEF StartInstall, StillOwned, Starting
      <4>3. stream["screen"].done = None
        BY <3>3, <4>2 DEF PInv, OwnersWait
      <4>4. stream["screen"].done = d
        BY <2>1, <3>1, <3>3, <4>2 DEF PInv, WorkerIsJoinable
      <4> QED BY <4>3, <4>4, Basics
    <3> QED BY <1>0, <3>1, <3>2, <3>3, SlotSteps
  <2>2. CASE ~Alive(d)
    <3>1. d = c /\ Launches(c) /\ worker'[c].conn = call[c].conn /\ call[c].str = "screen"
          /\ StartInstall(c)
      <4>1. d = c /\ Phase(c) = "none" /\ (ConnectInstall(c) \/ StartInstall(c))
            /\ ~UNCHANGED worker
        <5>1. ASSUME NEW from \in Phases \ {"none", "exited"}, NEW to, Step(c, from, to)
              PROVE  Alive(c)
          BY <5>1 DEF Step, Alive, Phase
        <5> QED BY <1>2, <2>2, <5>1, WorkerMoves DEF Alive, Phase
      <4>2. StartInstall(c)
        <5>1. ASSUME ConnectInstall(c)
              PROVE  FALSE
          <6>1. worker'[c].str = "speaker"
            BY <4>1, <5>1 DEF ConnectInstall, TypeOK
          <6> QED BY <1>2, <4>1, <6>1
        <5> QED BY <4>1, <5>1
      <4>3. worker'[c].str = call[c].str /\ worker'[c].conn = conn /\ conn = call[c].conn
        BY <4>2 DEF StartInstall, StillOwned, TypeOK
      <4>4. Launches(c)
        <5>1. Pc(c) = "dialed" /\ Goto(c, "returned") /\ call[c].conn \in Calls /\ call[c].str \in Streams
          BY <4>2, <4>3, ConnectedHasConn DEF StartInstall, StillOwned, TypeOK
        <5> QED BY <4>2, <5>1, GotoRecord DEF Launches, Settled, Pc
      <4> QED BY <1>2, <4>1, <4>2, <4>3, <4>4
    <3>2. sock[c] = "open" /\ conn = call[c].conn /\ conn \in Calls
      BY <3>1, ConnectedHasConn DEF StartInstall, StillOwned, DialedSockets
    <3>3. slot'[conn]["screen"] = c
      BY <1>0, <3>1, <3>2, StartInstallInstalls DEF Installs
    <3> QED BY <3>1, <3>2, <3>3
  <2> QED BY <2>1, <2>2
<1> QED BY <1>2 DEF ScreenSlotIsOwn

(* A screen session has a generation. *)
LEMMA HubStaysBegun ==
  ASSUME TypeOK, HubHasBegun, NEW c \in Calls, StepOf(c)
  PROVE  HubHasBegun'
<1>1. UNCHANGED <<screenActive, screenGeneration>> \/ ~screenActive'
      \/ screenGeneration' = screenGeneration + 1
  <2>1. CASE [HubNext]_hubVars
    BY <2>1 DEF HubNext, BeginScreenSession, EndScreenSessionRestore, SetScreenSession,
       EndScreenSessionDetach, StaleCall, RegisterControlRoute, ClearControlRoute,
       ReadRoute, WriteInput, BroadcastScreenFrame, DetachSession, hubVars, sessionVars
  <2>2. CASE \E g \in Nat, ok \in BOOLEAN : EndScreenSession(g, ok)
    BY <2>2 DEF EndScreenSession, DetachSession, HubUnchanged, hubVars, sessionVars
  <2> QED BY <2>1, <2>2, HubSteps
<1>2. screenGeneration \in Nat
  BY HubAssumption DEF TypeOK, HubTypeOK
<1>3. CASE UNCHANGED <<screenActive, screenGeneration>>
  BY <1>3 DEF HubHasBegun
<1>4. CASE ~screenActive'
  BY <1>4 DEF HubHasBegun
<1>5. CASE screenGeneration' = screenGeneration + 1
  BY <1>2, <1>5 DEF HubHasBegun
<1> QED BY <1>1, <1>3, <1>4, <1>5

-----------------------------------------------------------------------------
(* The invariant of calls, workers, slots and sockets.                     *)

(* Nothing has been called yet. *)
LEMMA InitSInv == Init => SInv
<1> SUFFICES ASSUME Init
             PROVE  SInv
  OBVIOUS
<1>1. PInv
  BY InitPInv
<1>2. \A c \in Calls :
        /\ call[c] = NoCall /\ worker[c] = NoWorker /\ recon[c] = "none"
        /\ sock[c] = "none" /\ csock[c] = "none" /\ \A s \in Slots : slot[c][s] = None
        /\ ~Alive(c)
  BY DEF Init, Alive, Phase, NoWorker
<1>3. TypeOK
  <2>1. HubTypeOK
    BY TypeInit DEF Init
  <2>2. /\ connected \in BOOLEAN /\ conn \in Calls \cup {None} /\ connectGen \in Nat
        /\ connectCancel \in Calls \cup {None} /\ screenHubGen \in Nat
        /\ controlOwner \in Calls \cup {None} /\ phoneShown \in BOOLEAN
        /\ ctxDone \in SUBSET Calls /\ closed \in SUBSET Calls /\ superseded \in SUBSET Calls
        /\ overwritten \in SUBSET Calls
    BY DEF Init
  <2>3. stream \in [Streams -> StreamType]
    BY DEF Init, StreamType, Stopped
  <2>4. call \in [Calls -> CallType]
    BY Basics DEF Init, CallType, NoCall, Pcs
  <2>5. worker \in [Calls -> WorkerType]
    BY Basics DEF Init, WorkerType, NoWorker, Phases
  <2>6. /\ slot \in [Calls -> SlotType]
        /\ sock \in [Calls -> SocketStates] /\ csock \in [Calls -> SocketStates]
    BY DEF Init, SlotType, SocketStates
  <2>7. recon \in [Calls -> {"none", "close", "dial", "install", "check", "register",
                             "discard", "done"}]
    BY DEF Init
  <2> QED BY <2>1, <2>2, <2>3, <2>4, <2>5, <2>6, <2>7
          DEF TypeOK, StreamType, CallType, WorkerType, Phases, SlotType
<1>4. CallsKeepTheirName
  BY <1>2 DEF CallsKeepTheirName, NoCall, Pc
<1>5. OvertakenHaveLost
  BY DEF OvertakenHaveLost, Init
<1>6. LaunchedHaveReturned
  BY <1>2 DEF LaunchedHaveReturned, NoWorker, Phase
<1>7. SlotsAreNamed
  BY <1>2, Basics DEF SlotsAreNamed, Slots
<1>8. DialedSockets
  BY <1>2 DEF DialedSockets, NoCall, Pc
<1>9. ScreenSlotIsOwn
  BY <1>2 DEF ScreenSlotIsOwn
<1>10. HubHasBegun
  BY DEF Init, HubInit, HubHasBegun
<1> QED BY <1>1, <1>3, <1>4, <1>5, <1>6, <1>7, <1>8, <1>9, <1>10 DEF SInv

(* A step of the system is one of a call, a worker or a reconnect. *)
LEMMA NextIsAStep == Next => UNCHANGED vars \/ \E c \in Calls : StepOf(c)
BY DEF Next, Terminating, StepOf, CallStep, WorkerStep

(* Every step preserves the invariant. *)
LEMMA StepSInv == SInv /\ [Next]_vars => SInv'
<1> SUFFICES ASSUME SInv, [Next]_vars
             PROVE  SInv'
  OBVIOUS
<1>1. PInv'
  BY StepPInv DEF SInv
<1>2. ASSUME NEW c \in Calls, StepOf(c)
      PROVE  SInv'
  BY <1>1, <1>2, StepTypeOK, NamesAreKept, OvertakenStayLost, LaunchedStayReturned,
     SlotsStayNamed, DialedStayOpen, ScreenSlotStaysOwn, HubStaysBegun DEF SInv
<1>3. CASE UNCHANGED vars
  <2>1. UNCHANGED <<ctlVars, netVars, procVars, phoneShown, hubVars>>
    BY <1>3 DEF vars
  <2>2. HubTypeOK'
    BY <2>1, TypeNext DEF SInv, TypeOK
  <2>3. TypeOK'
    BY <2>1, <2>2 DEF SInv, TypeOK, ctlVars, netVars, procVars
  <2>4. CallsKeepTheirName' /\ OvertakenHaveLost' /\ LaunchedHaveReturned'
    BY <2>1 DEF SInv, CallsKeepTheirName, OvertakenHaveLost, LaunchedHaveReturned,
       ctlVars, netVars, procVars, Pc, Phase, Installed, Settled, Owns, Joining, Starting
  <2>5. SlotsAreNamed' /\ DialedSockets' /\ ScreenSlotIsOwn' /\ HubHasBegun'
    BY <2>1 DEF SInv, SlotsAreNamed, DialedSockets, ScreenSlotIsOwn, HubHasBegun,
       ctlVars, netVars, procVars, hubVars, sessionVars, Pc, Phase, Settled, HasSocket, Alive
  <2> QED BY <1>1, <2>3, <2>4, <2>5 DEF SInv
<1> QED BY <1>2, <1>3, NextIsAStep

(* Whatever overlaps and fails, every slot of a Connection holds a socket dialed for it
   by the call or reconnect it is named after, a screen worker never finds another's
   socket in its slot, and an overtaken start has lost its stream. *)
THEOREM ControllerSockets == Spec => []SInv
<1> QED BY InitSInv, StepSInv, PTL DEF Spec

(* The controller's state, the Connections' and the hub's keep their types. *)
THEOREM ControllerTypes == Spec => []TypeOK
<1>1. SInv => TypeOK
  BY DEF SInv
<1> QED BY <1>1, ControllerSockets, PTL

(* The screen worker's unconditional CloseStream closes its own socket only. *)
LEMMA StaleCloses ==
  ASSUME SInv, NEW c \in Calls, StepOf(c), NEW w \in Calls,
         Phase(w) = "socket", Phase(w)' = "last", NEW d \in Calls,
         sock[d] = "open", sock'[d] = "closed"
  PROVE  d = w
<1> USE DEF SInv
<1>1. w = c
  BY WorkerMoves DEF Phase
<1>2. WorkerCloseSocket(c)
  <2>1. ~UNCHANGED worker /\ Phase(c) # "none"
    BY <1>1 DEF Phase
  <2>2. PICK from \in Phases, to \in Phases : Step(c, from, to) /\ WorkerStep(c)
    BY <2>1, WorkerMoves
  <2>3. Step(c, "socket", "last")
    BY <1>1, <2>2, StepPhase DEF Phase, Step
  <2>4. ASSUME NEW a, NEW b \in Phases, a # "socket", Step(c, a, b)
        PROVE  FALSE
    BY <1>1, <2>4 DEF Step
  <2>5. AfterCapture(c) \in Phases
    BY DEF AfterCapture, Phases
  <2> QED BY <2>1, <2>2, <2>4, <2>5 DEF WorkerStep, WorkerContinues, CaptureStops, WorkerEndSession,
     WorkerCloseControl, WorkerLast, WorkerExit, CaptureFails, CaptureHeader, procVars, Phases
<1>3. worker[c].conn \in Calls /\ worker[c].str = "screen" /\ Alive(c)
  BY <1>1 DEF LaunchedHaveReturned, Installed, Alive
<1>4. Empties(worker[c].conn, {"screen"})
  BY <1>2, <1>3, CloseStreamEmpties DEF WorkerCloseSocket, Slots, Streams
<1>5. slot[worker[c].conn]["screen"] = d
  BY <1>4 DEF Empties
<1>6. slot[worker[c].conn]["screen"] \in {None, c}
  BY <1>3 DEF ScreenSlotIsOwn
<1> QED BY <1>1, <1>5, <1>6, Basics

(* A start that was overtaken launches nothing. *)
LEMMA OvertakenLaunch ==
  ASSUME SInv, NEW c \in Calls, StepOf(c), NEW d \in Calls,
         Phase(d) = "none", Phase(d)' = "run"
  PROVE  d \notin superseded
<1> USE DEF SInv
<1>1. d = c /\ (ConnectInstall(c) \/ StartInstall(c))
  <2>1. d = c /\ ~UNCHANGED worker
    BY WorkerMoves DEF Phase
  <2>2. ASSUME NEW from, NEW to, from # "none", Step(c, from, to)
        PROVE  FALSE
    BY <2>1, <2>2 DEF Step
  <2> QED BY <2>1, <2>2, WorkerMoves
<1>2. CASE ConnectInstall(c)
  BY <1>1, <1>2 DEF ConnectInstall, OvertakenHaveLost
<1>3. CASE StartInstall(c)
  <2>1. Owns(c) /\ stream[call[c].str].gen = call[c].gen /\ call[c].gen \in Nat
    BY <1>3 DEF StartInstall, StillOwned, Owns, Starting, TypeOK
  <2> QED BY <1>1, <2>1 DEF OvertakenHaveLost
<1> QED BY <1>1, <1>2, <1>3

(* What has been overtaken changes nothing, for any number of calls, of Connects that
   overlap too: the end of a stale screen worker closes no socket but its own, and a
   start overtaken by a later call never launches its worker (controller.go:452-466,
   653). *)
THEOREM StaleCallsAreHarmless == Spec => StaleCallsChangeNothing
<1>1. SInv /\ [Next]_vars =>
        [\A c \in Calls : Phase(c) = "socket" /\ Phase(c)' = "last" =>
           \A d \in Calls : sock[d] = "open" /\ sock'[d] = "closed" => d = c]_vars
  BY NextIsAStep, StaleCloses
<1>2. SInv /\ [Next]_vars =>
        [\A c \in Calls : Phase(c) = "none" /\ Phase(c)' = "run" => c \notin superseded]_vars
  BY NextIsAStep, OvertakenLaunch
<1> QED BY <1>1, <1>2, ControllerSockets, PTL
        DEF Spec, StaleCallsChangeNothing, StaleWorkerClosesNothing, OvertakenStartAborts

-----------------------------------------------------------------------------
(* Sessions.                                                               *)

(* There is a connection while sc.connected.  One that has been overwritten was
   installed, is not the current one, and no Disconnect will close it. *)
OverwrittenAreLost ==
  /\ connected <=> conn # None
  /\ \A k \in overwritten : Installed(k) /\ k # conn
  /\ \A k \in overwritten, d \in Calls :
       Pc(d) \in {"unpublish", "close"} => call[d].conn # k

(* Only an installed Connection has sockets. *)
SlotsAreInstalled == \A k \in Calls, s \in Slots : slot[k][s] # None => Installed(k)

(* An active stream has a worker of its generation: of this connection, not through
   with it and over the socket in its slot, unless its connection was overwritten. *)
Captures(w, s) ==
  /\ stream[s].running /\ connected /\ w \in Calls /\ Phase(w) # "none"
  /\ worker[w].str = s /\ worker[w].gen = stream[s].gen
  /\ s = "screen" => screenHubGen = worker[w].hubGen
  /\ \/ worker[w].conn \in overwritten
     \/ /\ worker[w].conn = conn
        /\ Phase(w) \in {"run", "end", "control", "socket", "last"}
        /\ Phase(w) = "run" => slot[conn][s] = worker[w].sock

(* Every active stream has such a worker. *)
ActiveHasWorker ==
  \A s \in Streams : stream[s].active => Captures(stream[s].done, s)

(* While a call owns the stream's generation the stream is not active. *)
OwnersInactive ==
  \A c \in Calls :
    Owns(c) /\ call[c].gen = stream[call[c].str].gen => ~stream[call[c].str].active

(* Every screen worker began a hub session of its own. *)
HubGens ==
  /\ \A c \in Calls : Phase(c) # "none" /\ worker[c].str = "screen" =>
       worker[c].hubGen \in 1 .. screenGeneration
  /\ \A c, d \in Calls :
       Phase(c) # "none" /\ worker[c].str = "screen"
         /\ Phase(d) # "none" /\ worker[d].str = "screen"
         /\ worker[c].hubGen = worker[d].hubGen => c = d

(* The control connection and the hub's session belong to the screen worker of the
   current connection, or of one that was overwritten. *)
OwnerHasWorker ==
  /\ controlOwner # None =>
       /\ connected /\ worker[controlOwner].conn \in {conn} \cup overwritten
       /\ worker[controlOwner].str = "screen"
       /\ Phase(controlOwner) \in {"run", "end", "control"}
  /\ screenActive =>
       /\ controlOwner # None /\ screenHubGen = screenGeneration
       /\ worker[controlOwner].hubGen = screenGeneration
       /\ Phase(controlOwner) \in {"run", "end"}
  /\ ~screenActive => controlRoute = None

(* Its socket is open in the control slot of a Connection. *)
HoldsControl(o) ==
  slot[worker[o].conn]["control"] = o /\ csock[o] = "open"

(* And stays there from the installation on. *)
ControlOpen ==
  /\ controlRoute # None =>
       /\ controlRoute = controlOwner /\ recon[controlOwner] = "done"
       /\ HoldsControl(controlOwner)
  /\ screenActive /\ recon[controlOwner] \in {"check", "register"} =>
       HoldsControl(controlOwner)

(* The invariant of sessions: all of the above. *)
CInv ==
  /\ SInv /\ OverwrittenAreLost /\ SlotsAreInstalled /\ ActiveHasWorker /\ OwnersInactive
  /\ HubGens /\ OwnerHasWorker /\ ControlOpen /\ NothingLeaks

-----------------------------------------------------------------------------
(* What one step does to the hub and to the session the controller keeps.  *)

(* What a step does to the hub. *)
LEMMA HubMoves ==
  ASSUME TypeOK, NEW c \in Calls, StepOf(c)
  PROVE  \/ UNCHANGED hubVars
         \/ /\ DisconnectEnter(c) \/ \E s \in Toggles : StopEnter(c, s) /\ s = "screen"
            /\ connected /\ screenHubGen' = 0 /\ \E ok \in BOOLEAN : EndScreenSession(screenHubGen, ok)
         \/ WorkerEndSession(c) /\ \E ok \in BOOLEAN : EndScreenSession(worker[c].hubGen, ok)
         \/ CaptureHeader(c) /\ \E ok \in BOOLEAN : SetScreenSession(worker[c].hubGen, ok)
         \/ /\ StartInstall(c) /\ call[c].str = "screen"
            /\ \E ok \in BOOLEAN : BeginScreenSession(ok)
         \/ /\ ReconRegister(c) /\ IsCurrent(worker[c].hubGen)
            /\ \E ok \in BOOLEAN : RegisterControlRoute(worker[c].hubGen, c, ok)
<1>1. WriteOutcomes \subseteq BOOLEAN
  BY DEF WriteOutcomes
<1>2. CASE DisconnectEnter(c)
  <2>1. \/ UNCHANGED hubVars
        \/ connected /\ screenHubGen' = 0 /\ \E ok \in WriteOutcomes : EndScreenSession(screenHubGen, ok)
    BY <1>2 DEF DisconnectEnter
  <2> QED BY <1>1, <1>2, <2>1
<1>3. ASSUME NEW s \in Toggles, StopEnter(c, s)
      PROVE  \/ UNCHANGED hubVars
             \/ /\ s = "screen" /\ connected /\ screenHubGen' = 0
                /\ \E ok \in BOOLEAN : EndScreenSession(screenHubGen, ok)
  <2>1. \/ UNCHANGED hubVars
        \/ /\ s = "screen" /\ connected /\ screenHubGen' = 0
           /\ \E ok \in WriteOutcomes : EndScreenSession(screenHubGen, ok)
    BY <1>3 DEF StopEnter
  <2> QED BY <1>1, <2>1
<1>4. CASE WorkerEndSession(c) \/ CaptureHeader(c)
  BY <1>1, <1>4 DEF WorkerEndSession, CaptureHeader
<1>5. CASE StartInstall(c)
  <2>1. \/ UNCHANGED hubVars
        \/ call[c].str = "screen" /\ \E ok \in WriteOutcomes : BeginScreenSession(ok)
    BY <1>5 DEF StartInstall
  <2> QED BY <1>1, <1>5, <2>1
<1>6. CASE ReconRegister(c)
  BY <1>6 DEF ReconRegister, HubUnchanged
<1> QED
  BY <1>2, <1>3, <1>4, <1>5, <1>6
  DEF StepOf, CallStep, WorkerStep, CallBegins, CallContinues, ConnectEnter, ConnectAgain,
      DialSucceeds, ConnectFails, ConnectInstall, ConnectAnnounce,
      DisconnectUnpublish, DisconnectClose, DisconnectJoin, StartEnter, StartJoin,
      StartFails, StartAbort, StopJoin, WorkerContinues, CaptureStops, WorkerCloseControl,
      WorkerCloseSocket, WorkerLast, WorkerExit, CaptureFails, ReconContinues,
      ReconClosePrevious, ReconDialSucceeds, ReconDialFails, ReconInstall, ReconCheck,
      ReconDiscard

(* What a step does to the session the controller keeps. *)
LEMMA OwnerMoves ==
  ASSUME NEW c \in Calls, StepOf(c)
  PROVE  /\ \/ UNCHANGED controlOwner
            \/ DisconnectEnter(c) /\ connected /\ controlOwner' = None
            \/ WorkerCloseControl(c) /\ controlOwner = c /\ controlOwner' = None
            \/ StartInstall(c) /\ call[c].str = "screen" /\ controlOwner' = c
         /\ \/ UNCHANGED screenHubGen
            \/ DisconnectEnter(c) /\ connected /\ screenHubGen' = 0
            \/ \E s \in Toggles : StopEnter(c, s) /\ s = "screen" /\ connected /\ screenHubGen' = 0
            \/ WorkerLast(c) /\ WasRunning(c) /\ worker[c].str = "screen" /\ screenHubGen' = 0
            \/ StartInstall(c) /\ call[c].str = "screen" /\ screenHubGen' = screenGeneration + 1
<1> USE DEF StepOf, CallStep, WorkerStep, CallBegins, CallContinues, WorkerContinues,
      ReconContinues
<1>1. CASE DisconnectEnter(c)
  BY <1>1 DEF DisconnectEnter
<1>2. CASE \E s \in Toggles : StopEnter(c, s)
  <2>1. PICK s \in Toggles : StopEnter(c, s)
    BY <1>2
  <2>2. UNCHANGED controlOwner
    BY <2>1 DEF StopEnter
  <2>3. UNCHANGED screenHubGen \/ (s = "screen" /\ connected /\ screenHubGen' = 0)
    BY <2>1 DEF StopEnter
  <2> QED BY <2>1, <2>2, <2>3
<1>3. CASE WorkerCloseControl(c) \/ WorkerLast(c)
  BY <1>3 DEF WorkerCloseControl, WorkerLast
<1>4. CASE StartInstall(c)
  BY <1>4 DEF StartInstall
<1>5. CASE ~(DisconnectEnter(c) \/ WorkerCloseControl(c) \/ WorkerLast(c) \/ StartInstall(c)
             \/ \E s \in Toggles : StopEnter(c, s))
  <2>1. UNCHANGED <<controlOwner, screenHubGen>>
    BY <1>5 DEF ConnectEnter, ConnectAgain, DialSucceeds, ConnectFails, ConnectInstall,
      ConnectAnnounce, DisconnectUnpublish, DisconnectClose, DisconnectJoin, StartEnter,
      StartJoin, StartFails, StartAbort, StopJoin, CaptureStops, WorkerEndSession,
      WorkerCloseSocket, WorkerExit, CaptureFails, CaptureHeader, ReconClosePrevious,
      ReconDialSucceeds, ReconDialFails, ReconInstall, ReconCheck, ReconRegister,
      ReconDiscard, ctlVars
  <2> QED BY <2>1
<1> QED BY <1>1, <1>2, <1>3, <1>4, <1>5

(* Who has a Connection to close: a Disconnect that has just taken it, or that has
   published this. *)
LEMMA ClosingSteps ==
  ASSUME SInv, NEW c \in Calls, StepOf(c), Pc(c)' \in {"unpublish", "close"},
         call'[c] # call[c]
  PROVE  DisconnectEnter(c) \/ DisconnectUnpublish(c)
<1> USE DEF SInv
<1>0. call \in [Calls -> CallType] /\ \A s \in Toggles : s \in Streams
  BY ControllerAssumption DEF TypeOK, CallType
<1>1. ASSUME NEW pc \in Pcs \ {"unpublish", "close"}, Goto(c, pc)
      PROVE  FALSE
  BY <1>1, GotoRecord DEF Pc
<1>2. CASE CallBegins(c)
  <2>1. ~ConnectEnter(c)
    BY <1>0, ConnectEnterRecord DEF Pc
  <2>2. ASSUME NEW s \in Toggles, StartEnter(c, s) \/ StopEnter(c, s)
        PROVE  FALSE
    <3>1. s \in Streams
      BY <1>0
    <3> QED BY <1>0, <2>2, <3>1, StartEnterRecord, StopEnterRecord DEF Pc
  <2> QED BY <1>2, <2>1, <2>2 DEF CallBegins
<1>3. CASE CallContinues(c)
  <2>1. ~ConnectAgain(c)
    BY <1>0 DEF ConnectAgain, BeginDial, CallType, Pc
  <2>2. ~StartJoin(c)
    BY <1>0, StartJoinRecord DEF Pc
  <2>3. ~(DialSucceeds(c) \/ ConnectFails(c) \/ ConnectInstall(c) \/ ConnectAnnounce(c)
          \/ DisconnectClose(c) \/ DisconnectJoin(c) \/ StartFails(c) \/ StartAbort(c)
          \/ StartInstall(c) \/ StopJoin(c))
    BY <1>1 DEF Pcs, AfterDisconnect, DialSucceeds, ConnectFails, ConnectInstall,
       ConnectAnnounce, DisconnectClose, DisconnectJoin, StartFails, StartAbort,
       StartInstall, StopJoin
  <2> QED BY <1>3, <2>1, <2>2, <2>3 DEF CallContinues
<1> QED BY <1>2, <1>3, CallMoves DEF CallStep, CallContinues

(* Nobody finds an overwritten Connection again. *)
LEMMA OverwrittenStayLost ==
  ASSUME SInv, OverwrittenAreLost, NEW c \in Calls, StepOf(c)
  PROVE  OverwrittenAreLost'
<1> USE DEF SInv
<1>0. call \in [Calls -> CallType]
  BY DEF TypeOK, CallType
<1>1. (connected <=> conn # None)'
  BY ConnMoves, Basics DEF OverwrittenAreLost
<1>2. /\ \A k \in overwritten' : k \in Calls /\ Installed(k)
      /\ \A k \in overwritten' : k \in overwritten \/ (k = conn /\ ConnectInstall(c))
  <2>1. conn # None => conn \in Calls /\ Installed(conn)
    BY ConnectedHasConn DEF OverwrittenAreLost
  <2>2. \A k \in overwritten : k \in Calls /\ Installed(k)
    BY DEF OverwrittenAreLost, TypeOK
  <2>3. \/ overwritten' = overwritten
        \/ ConnectInstall(c) /\ overwritten' = overwritten \cup ({conn} \ {None})
    BY OverwrittenMoves
  <2>4. ASSUME NEW k \in overwritten'
        PROVE  k \in overwritten \/ (k = conn /\ conn # None /\ ConnectInstall(c))
    BY <2>3
  <2> QED BY <2>1, <2>2, <2>4
<1>3. ASSUME NEW k \in overwritten'
      PROVE  Installed(k)' /\ k # conn'
  <2>1. Installed(k)'
    BY <1>2, HistoryIsKept, InstalledStays
  <2>2. CASE k \in overwritten /\ conn' \in {conn, None}
    BY <1>2, <1>3, <2>1, <2>2, Basics DEF OverwrittenAreLost
  <2>3. CASE conn' = c /\ Pc(c) = "dialed"
    <3>1. ~Installed(c)
      BY <2>3 DEF Installed
    <3> QED BY <1>2, <1>3, <2>1, <2>3, <3>1
  <2>4. \/ overwritten' = overwritten /\ conn' \in {conn, None}
        \/ conn' = c /\ Pc(c) = "dialed"
    BY OverwrittenMoves
  <2> QED BY <1>3, <2>1, <2>2, <2>3, <2>4
<1>4. ASSUME NEW k \in overwritten', NEW d \in Calls, Pc(d)' \in {"unpublish", "close"}
      PROVE  call'[d].conn # k
  <2>1. CASE call'[d] = call[d]
    BY <1>2, <1>4, <2>1 DEF OverwrittenAreLost, CallsKeepTheirName, Pc
  <2>2. CASE DisconnectEnter(c) /\ d = c
    <3>1. k \in overwritten
      BY <1>2, <2>2, OverwrittenMoves DEF DisconnectEnter, ConnectInstall, Fresh
    <3>2. call'[c].conn = conn
      BY <1>0, <1>4, <2>2, DisconnectEnterRecord DEF Pc
    <3> QED BY <2>2, <3>1, <3>2 DEF OverwrittenAreLost
  <2>3. CASE DisconnectUnpublish(c) /\ d = c
    <3>1. call'[c].conn = call[c].conn /\ k \in overwritten
      BY <1>2, <2>3, GotoRecord DEF DisconnectUnpublish, ConnectInstall
    <3> QED BY <2>3, <3>1 DEF OverwrittenAreLost, DisconnectUnpublish
  <2>4. CASE d = c /\ ~DisconnectEnter(c) /\ ~DisconnectUnpublish(c)
    BY <1>4, <2>1, <2>4, ClosingSteps
  <2> QED BY <2>1, <2>2, <2>3, <2>4, CallMoves
<1> QED BY <1>1, <1>3, <1>4 DEF OverwrittenAreLost

(* CloseStream changes one slot. *)
LEMMA CloseStreamChanges ==
  ASSUME TypeOK, NEW k, NEW s, CloseStream(k, s),
         NEW j \in Calls, NEW t \in Slots, slot'[j][t] # slot[j][t]
  PROVE  j = k /\ t = s
BY DEF TypeOK, CloseStream

(* Who changes a slot. *)
LEMMA SlotChanges ==
  ASSUME PInv, TypeOK, CallsKeepTheirName, LaunchedHaveReturned, SlotsAreNamed,
         DialedSockets, NEW c \in Calls, StepOf(c),
         NEW j \in Calls, NEW t \in Slots, slot'[j][t] # slot[j][t]
  PROVE  \/ /\ \/ \E s \in Toggles : t = s /\ (StartEnter(c, s) \/ StopEnter(c, s))
               \/ StartJoin(c) /\ t = call[c].str
            /\ t \in Streams /\ j = conn /\ connected /\ stream'[t].gen = stream[t].gen + 1
         \/ DisconnectClose(c) /\ j = call[c].conn
         \/ WorkerCloseControl(c) /\ controlOwner = c /\ t = "control" /\ j = worker[c].conn
         \/ WorkerCloseSocket(c) /\ t = "screen" /\ j = worker[c].conn
         \/ WorkerLast(c) /\ WasRunning(c) /\ t = worker[c].str /\ j = conn
         \/ ReconClosePrevious(c) /\ controlOwner = c /\ t = "control" /\ j = worker[c].conn
         \/ ReconDiscard(c) /\ t = "control" /\ slot[j][t] = c
         \/ /\ Launches(c) /\ slot'[j][t] = c /\ j = call[c].conn /\ t = call[c].str
            /\ sock[c] = "open" /\ sock'[c] = "open"
         \/ Reconnects(c) /\ slot'[j][t] = c /\ j = worker[c].conn /\ t = "control"
<1>0. \A s \in Toggles : s \in Streams
  BY ControllerAssumption
<1>1. ASSUME NEW s \in Toggles, StartEnter(c, s)
      PROVE  t = s /\ j = conn /\ connected /\ stream'[t].gen = stream[t].gen + 1
  <2>1. s \in Streams
    BY <1>0
  <2>2. connected /\ stream'[s].gen = stream[s].gen + 1
        /\ (CloseStream(conn, s) \/ BeginStart(c, s, stream))
    BY <1>1, <2>1, StartEnterStream
  <2>3. CloseStream(conn, s)
    BY <2>2 DEF BeginStart
  <2> QED BY <2>2, <2>3, CloseStreamChanges
<1>2. ASSUME NEW s \in Toggles, StopEnter(c, s)
      PROVE  t = s /\ j = conn /\ connected /\ stream'[t].gen = stream[t].gen + 1
  <2>1. s \in Streams
    BY <1>0
  <2>2. connected /\ stream'[s].gen = stream[s].gen + 1 /\ CloseStream(conn, s)
    BY <1>2, <2>1, StopEnterStream
  <2> QED BY <2>2, CloseStreamChanges
<1>3. CASE StartJoin(c)
  <2>1. /\ connected /\ stream'[call[c].str].gen = stream[call[c].str].gen + 1
        /\ CloseStream(conn, call[c].str)
    BY <1>3, StartJoinStream
  <2>2. call[c].str \in Streams
    BY DEF TypeOK
  <2> QED BY <1>3, <2>1, <2>2, CloseStreamChanges
<1>4. CASE DisconnectClose(c)
  BY <1>4, DisconnectCloseEmpties DEF Empties
<1>5. CASE WorkerCloseControl(c)
  <2>1. controlOwner = c /\ CloseStream(worker[c].conn, "control")
    BY <1>5 DEF WorkerCloseControl
  <2> QED BY <1>5, <2>1, CloseStreamChanges
<1>6. CASE WorkerCloseSocket(c)
  <2>1. CloseStream(worker[c].conn, "screen")
    BY <1>6 DEF WorkerCloseSocket
  <2> QED BY <1>6, <2>1, CloseStreamChanges
<1>7. CASE WorkerLast(c)
  <2>1. WasRunning(c) /\ CloseStream(conn, worker[c].str)
    BY <1>7 DEF WorkerLast
  <2> QED BY <1>7, <2>1, CloseStreamChanges
<1>8. CASE ReconClosePrevious(c)
  <2>1. controlOwner = c /\ CloseStream(worker[c].conn, "control")
    BY <1>8 DEF ReconClosePrevious
  <2> QED BY <1>8, <2>1, CloseStreamChanges
<1>9. CASE ReconDiscard(c)
  <2>1. slot' = [slot EXCEPT ![worker[c].conn]["control"] = None]
        /\ slot[worker[c].conn]["control"] = c
    BY <1>9 DEF ReconDiscard
  <2>2. j = worker[c].conn /\ t = "control"
    BY <2>1 DEF TypeOK
  <2> QED BY <1>9, <2>1, <2>2
<1>10. CASE ConnectInstall(c) \/ StartInstall(c)
  <2>1. slot'[j][t] = None => slot[j][t] = None
    <3>1. CASE ConnectInstall(c)
      <4>1. slot' = [slot EXCEPT ![c]["speaker"] = c]
        BY <3>1 DEF ConnectInstall
      <4> QED BY <4>1, Basics DEF TypeOK
    <3>2. CASE StartInstall(c)
      <4>1. PICK own : own = (IF sock[c] = "open" THEN c ELSE slot[conn][call[c].str])
                       /\ Installs(conn, call[c].str, own)
        BY <3>2, StartInstallInstalls
      <4>2. conn \in Calls /\ call[c].str \in Streams
        BY <3>2, ConnectedHasConn DEF StartInstall, StillOwned, TypeOK
      <4> QED BY <4>1, <4>2, Basics DEF Installs
    <3> QED BY <1>10, <3>1, <3>2
  <2>2. ~Reconnects(c)
    BY <1>10 DEF Reconnects, ConnectInstall, StartInstall, LaunchedHaveReturned, Settled
  <2> QED BY <2>1, <2>2, SlotSteps
<1>11. CASE ReconInstall(c)
  <2>1. ReconGoto(c, "install", "check")
    BY <1>11 DEF ReconInstall
  <2>2. worker[c].conn \in Calls
    BY <2>1 DEF ReconGoto, LaunchedHaveReturned, Installed
  <2>3. Installs(worker[c].conn, "control", c)
    BY <1>11, <2>1, <2>2, ReconInstallInstalls
  <2>4. slot'[j][t] = c
    BY <2>3 DEF Installs
  <2>5. ~Launches(c)
    BY <1>11, <2>1 DEF Launches, LaunchedHaveReturned, ReconGoto, Settled
  <2> QED BY <2>4, <2>5, SlotSteps, Basics
<1>12. UNCHANGED slot \/ (\E s \in Toggles : StartEnter(c, s) \/ StopEnter(c, s))
       \/ StartJoin(c) \/ DisconnectClose(c) \/ WorkerCloseControl(c)
       \/ WorkerCloseSocket(c) \/ WorkerLast(c) \/ ReconClosePrevious(c) \/ ReconDiscard(c)
       \/ ConnectInstall(c) \/ StartInstall(c) \/ ReconInstall(c)
  BY DEF StepOf, CallStep, WorkerStep, CallBegins, CallContinues, ConnectEnter, ConnectAgain,
      DialSucceeds, ConnectFails, ConnectAnnounce, DisconnectEnter, DisconnectUnpublish,
      DisconnectJoin, StartFails, StartAbort, StopJoin, WorkerContinues, CaptureStops,
      WorkerEndSession, WorkerExit, CaptureFails, CaptureHeader, ReconContinues,
      ReconDialSucceeds, ReconDialFails, ReconCheck, ReconRegister, netVars
<1>13. CASE \E s \in Toggles : StartEnter(c, s) \/ StopEnter(c, s)
  BY <1>0, <1>1, <1>2, <1>13
<1> QED BY <1>3, <1>4, <1>5, <1>6, <1>7, <1>8, <1>9, <1>10, <1>11, <1>12, <1>13

(* A socket is put in the slot of an installed Connection. *)
LEMMA SlotsStayInstalled ==
  ASSUME SInv, SlotsAreInstalled, NEW c \in Calls, StepOf(c)
  PROVE  SlotsAreInstalled'
<1> USE DEF SInv
<1>1. KeepsHistory
  BY HistoryIsKept
<1>2. \A k \in Calls :
        Installed(k) => call'[k].op = "connect" /\ call'[k].pc \in {"announce", "returned"}
  BY <1>1 DEF KeepsHistory, Installed, Settled, Pc
<1>3. ASSUME NEW k \in Calls, NEW s \in Slots, slot'[k][s] # None
      PROVE  call'[k].op = "connect" /\ call'[k].pc \in {"announce", "returned"}
  <2>1. CASE slot[k][s] # None
    BY <1>2, <2>1 DEF SlotsAreInstalled
  <2>2. CASE Launches(c) /\ k = call[c].conn
    <3>1. CASE StartInstall(c)
      BY <1>2, <2>2, <3>1, ConnectedHasConn DEF StartInstall, StillOwned
    <3>2. CASE ConnectInstall(c)
      <4>1. k = c /\ call[c].op = "connect" /\ (Goto(c, "announce") \/ Goto(c, "returned"))
        BY <2>2, <3>2 DEF ConnectInstall, CallsKeepTheirName
      <4> QED BY <4>1, GotoRecord
    <3> QED BY <2>2, <3>1, <3>2 DEF Launches
  <2>3. CASE Reconnects(c) /\ k = worker[c].conn
    BY <1>2, <2>3 DEF Reconnects, LaunchedHaveReturned
  <2>4. CASE slot'[k][s] \in {None, slot[k][s]}
    BY <1>3, <2>1, <2>4
  <2> QED BY <2>2, <2>3, <2>4, SlotSteps
<1> QED BY <1>3 DEF SlotsAreInstalled, Installed, Pc

(* Every screen worker keeps a hub session of its own. *)
LEMMA HubGensStay ==
  ASSUME SInv, HubGens, NEW c \in Calls, StepOf(c)
  PROVE  HubGens'
<1> USE DEF SInv
<1>1. KeepsHistory /\ screenGeneration \in Nat
  BY HistoryIsKept, HubAssumption DEF TypeOK, HubTypeOK
<1>2. \/ screenGeneration' = screenGeneration
      \/ StartInstall(c) /\ call[c].str = "screen" /\ screenGeneration' = screenGeneration + 1
  <2>1. ASSUME NEW g \in Nat, NEW ok \in BOOLEAN, EndScreenSession(g, ok)
        PROVE  screenGeneration' = screenGeneration
    BY <2>1 DEF EndScreenSession, DetachSession, HubUnchanged, hubVars, sessionVars
  <2>2. ASSUME NEW g \in Nat, NEW ok \in BOOLEAN,
               SetScreenSession(g, ok) \/ RegisterControlRoute(g, c, ok)
        PROVE  screenGeneration' = screenGeneration
    BY <2>2 DEF SetScreenSession, RegisterControlRoute, sessionVars
  <2>3. ASSUME NEW ok \in BOOLEAN, BeginScreenSession(ok)
        PROVE  screenGeneration' = screenGeneration + 1
    BY <2>3 DEF BeginScreenSession
  <2>4. UNCHANGED hubVars => screenGeneration' = screenGeneration
    BY DEF hubVars, sessionVars
  <2>5. screenHubGen \in Nat /\ worker[c].hubGen \in Nat
    BY DEF TypeOK
  <2>6. CASE StartInstall(c)
    <3>1. UNCHANGED hubVars
          \/ (call[c].str = "screen" /\ \E ok \in WriteOutcomes : BeginScreenSession(ok))
      BY <2>6 DEF StartInstall
    <3>2. WriteOutcomes \subseteq BOOLEAN
      BY DEF WriteOutcomes
    <3>3. CASE UNCHANGED hubVars
      BY <2>4, <3>3
    <3>4. CASE call[c].str = "screen" /\ \E ok \in WriteOutcomes : BeginScreenSession(ok)
      <4>1. PICK ok \in WriteOutcomes : BeginScreenSession(ok)
        BY <3>4
      <4>2. screenGeneration' = screenGeneration + 1
        BY <2>3, <3>2, <4>1
      <4> QED BY <2>6, <3>4, <4>2
    <3> QED BY <3>1, <3>3, <3>4
  <2>7. CASE ~StartInstall(c)
    <3>1. \/ UNCHANGED hubVars
          \/ \E ok \in BOOLEAN : EndScreenSession(screenHubGen, ok)
          \/ \E ok \in BOOLEAN : EndScreenSession(worker[c].hubGen, ok)
          \/ \E ok \in BOOLEAN : SetScreenSession(worker[c].hubGen, ok)
          \/ \E ok \in BOOLEAN : RegisterControlRoute(worker[c].hubGen, c, ok)
      BY <2>7, HubMoves
    <3>2. CASE UNCHANGED hubVars
      BY <2>4, <3>2
    <3>3. CASE \E ok \in BOOLEAN : EndScreenSession(screenHubGen, ok)
      <4>1. PICK ok \in BOOLEAN : EndScreenSession(screenHubGen, ok)
        BY <3>3
      <4> QED BY <2>1, <2>5, <4>1
    <3>4. CASE \E ok \in BOOLEAN : EndScreenSession(worker[c].hubGen, ok)
      <4>1. PICK ok \in BOOLEAN : EndScreenSession(worker[c].hubGen, ok)
        BY <3>4
      <4> QED BY <2>1, <2>5, <4>1
    <3>5. CASE \E ok \in BOOLEAN : SetScreenSession(worker[c].hubGen, ok)
      <4>1. PICK ok \in BOOLEAN : SetScreenSession(worker[c].hubGen, ok)
        BY <3>5
      <4> QED BY <2>2, <2>5, <4>1
    <3>6. CASE \E ok \in BOOLEAN : RegisterControlRoute(worker[c].hubGen, c, ok)
      <4>1. PICK ok \in BOOLEAN : RegisterControlRoute(worker[c].hubGen, c, ok)
        BY <3>6
      <4> QED BY <2>2, <2>5, <4>1
    <3> QED BY <3>1, <3>2, <3>3, <3>4, <3>5, <3>6
  <2> QED BY <2>6, <2>7
<1>3. ASSUME NEW d \in Calls, Phase(d)' # "none", worker'[d].str = "screen", Phase(d) = "none"
      PROVE  /\ d = c /\ screenGeneration' = screenGeneration + 1
             /\ worker'[c].hubGen = screenGeneration + 1
  <2>1. d = c /\ (ConnectInstall(c) \/ StartInstall(c)) /\ ~UNCHANGED worker
    <3>1. ASSUME NEW from, NEW to, from # "none", Step(c, from, to)
          PROVE  d # c
      BY <1>3, <3>1 DEF Step
    <3>2. d = c /\ ~UNCHANGED worker
      BY <1>3, WorkerMoves DEF Phase
    <3> QED BY <3>1, <3>2, WorkerMoves
  <2>2. StartInstall(c)
    <3>1. ASSUME ConnectInstall(c)
          PROVE  FALSE
      <4>1. worker'[c].str = "speaker"
        BY <2>1, <3>1 DEF ConnectInstall, TypeOK
      <4> QED BY <1>3, <2>1, <4>1
    <3> QED BY <2>1, <3>1
  <2>3. worker'[c].str = call[c].str
        /\ (call[c].str = "screen" => worker'[c].hubGen = screenGeneration + 1)
    BY <2>2 DEF StartInstall, TypeOK
  <2>4. call[c].str = "screen"
    BY <1>3, <2>1, <2>3
  <2>5. screenGeneration' = screenGeneration + 1
    BY <2>2, <2>4 DEF StartInstall, BeginScreenSession
  <2> QED BY <2>1, <2>3, <2>4, <2>5
<1>4. ASSUME NEW d \in Calls, Phase(d) # "none", worker'[d].str = "screen"
      PROVE  worker[d].hubGen \in 1 .. screenGeneration /\ worker'[d].hubGen = worker[d].hubGen
             /\ worker[d].str = "screen"
  BY <1>1, <1>4 DEF KeepsHistory, HubGens
<1>5. \A d \in Calls : Phase(d)' # "none" /\ worker'[d].str = "screen" =>
        worker'[d].hubGen \in 1 .. screenGeneration'
  BY <1>1, <1>2, <1>3, <1>4
<1>6. ASSUME NEW d \in Calls, NEW e \in Calls,
             Phase(d)' # "none", worker'[d].str = "screen",
             Phase(e)' # "none", worker'[e].str = "screen",
             worker'[d].hubGen = worker'[e].hubGen
      PROVE  d = e
  <2>1. CASE Phase(d) # "none" /\ Phase(e) # "none"
    BY <1>4, <1>6, <2>1 DEF HubGens
  <2>2. CASE Phase(d) = "none" /\ Phase(e) = "none"
    BY <1>3, <1>6, <2>2
  <2>3. CASE Phase(d) = "none" /\ Phase(e) # "none"
    <3>1. worker'[d].hubGen = screenGeneration + 1 /\ worker'[e].hubGen \in 1 .. screenGeneration
      BY <1>3, <1>4, <1>6, <2>3
    <3> QED BY <1>1, <1>6, <3>1
  <2>4. CASE Phase(d) # "none" /\ Phase(e) = "none"
    <3>1. worker'[e].hubGen = screenGeneration + 1 /\ worker'[d].hubGen \in 1 .. screenGeneration
      BY <1>3, <1>4, <1>6, <2>4
    <3> QED BY <1>1, <1>6, <3>1
  <2> QED BY <2>1, <2>2, <2>3, <2>4
<1>7. (\A d \in Calls : Phase(d) # "none" /\ worker[d].str = "screen" =>
         worker[d].hubGen \in 1 .. screenGeneration)'
  BY <1>5
<1>8. (\A d, e \in Calls :
        Phase(d) # "none" /\ worker[d].str = "screen"
          /\ Phase(e) # "none" /\ worker[e].str = "screen"
          /\ worker[d].hubGen = worker[e].hubGen => d = e)'
  <2>1. SUFFICES ASSUME NEW d \in Calls, NEW e \in Calls,
             Phase(d)' # "none", worker'[d].str = "screen",
             Phase(e)' # "none", worker'[e].str = "screen",
             worker'[d].hubGen = worker'[e].hubGen
      PROVE  d = e
    OBVIOUS
  <2> QED BY <1>6, <2>1
<1> QED BY <1>7, <1>8 DEF HubGens

-----------------------------------------------------------------------------
(* Active streams.                                                         *)

(* A stream is active after a step because it was, or because it is launched. *)
LEMMA ActiveMoves ==
  ASSUME SInv, ActiveHasWorker, OwnersInactive, NEW c \in Calls, StepOf(c),
         NEW s \in Streams, stream'[s].active
  PROVE  \/ stream'[s] = stream[s] /\ stream[s].active
         \/ StartInstall(c) /\ s = call[c].str
         \/ /\ ConnectInstall(c) /\ s = "speaker" /\ conn' = c /\ connected'
            /\ stream'[s].gen = stream[s].gen + 1
<1> USE DEF SInv
<1>0. \A t \in Toggles : t \in Streams
  BY ControllerAssumption
<1>1. call[c].str \in Streams /\ worker[c].str \in Streams
  BY DEF TypeOK
<1>2. ASSUME NEW t \in Streams, StartEnter(c, t)
      PROVE  stream'[s] = stream[s]
  <2>1. \/ UNCHANGED stream
        \/ /\ connected /\ ~(stream[t].running /\ stream[t].active)
           /\ stream'[t].active = stream[t].active
           /\ \A u \in Streams \ {t} : stream'[u] = stream[u]
    <3>1. TypeOK
      OBVIOUS
    <3> QED BY <1>2, <3>1, StartEnterStream
  <2>2. stream[t].active => stream[t].running
    BY DEF ActiveHasWorker, Captures
  <2>3. CASE s = t
    BY <2>1, <2>2, <2>3
  <2> QED BY <2>1, <2>3
<1>3. ASSUME NEW t \in Streams, StopEnter(c, t)
      PROVE  stream'[s] = stream[s]
  <2>1. \/ UNCHANGED stream
        \/ stream'[t].active = FALSE /\ \A u \in Streams \ {t} : stream'[u] = stream[u]
    <3>1. TypeOK
      OBVIOUS
    <3> QED BY <1>3, <3>1, StopEnterStream
  <2> QED BY <2>1
<1>4. CASE StartJoin(c)
  <2>1. stream[call[c].str].gen = call[c].gen => ~stream[call[c].str].active
    BY <1>4 DEF StartJoin, OwnersInactive, Owns, Joining
  <2> DEFINE t == call[c].str
  <2>2. \/ UNCHANGED stream
        \/ /\ stream[t].gen = call[c].gen
           /\ stream'[t].active = stream[t].active
           /\ \A u \in Streams \ {t} : stream'[u] = stream[u]
    <3>1. TypeOK
      OBVIOUS
    <3> QED BY <1>4, <3>1, StartJoinStream
  <2> HIDE DEF t
  <2>3. CASE UNCHANGED stream
    BY <2>3
  <2>4. ASSUME stream[t].gen = call[c].gen, stream'[t].active = stream[t].active,
               \A u \in Streams \ {t} : stream'[u] = stream[u]
        PROVE  stream'[s] = stream[s]
    <3>1. ~stream'[t].active
      BY <2>1, <2>4 DEF t
    <3>2. s # t
      BY <3>1
    <3> QED BY <2>4, <3>2
  <2> QED BY <2>2, <2>3, <2>4
<1>5. CASE StopJoin(c)
  BY <1>1, <1>5, StopJoinStream
<1>6. CASE StartInstall(c)
  BY <1>1, <1>6, StartInstallStream
<1>7. CASE ConnectInstall(c)
  <2>1. UNCHANGED stream \/ (conn' = c /\ connected' = TRUE)
    BY <1>7 DEF ConnectInstall, ctlVars
  <2> QED BY <1>7, <2>1, ConnectInstallStream
<1>8. CASE DisconnectEnter(c)
  BY <1>8, DisconnectStream DEF TypeOK
<1>9. ASSUME NEW t \in Streams, EndsStream(t)
      PROVE  stream'[s] = stream[s]
  BY <1>9 DEF EndsStream
<1> QED BY <1>0, <1>1, <1>2, <1>3, <1>4, <1>5, <1>6, <1>7, <1>8, <1>9, StreamSteps

(* Who takes over a stream finds it inactive, and it stays so until the launch. *)
LEMMA OwnersStayInactive ==
  ASSUME SInv, ActiveHasWorker, OwnersInactive, NEW c \in Calls, StepOf(c)
  PROVE  OwnersInactive'
<1> USE DEF SInv
<1>0. /\ \A t \in Toggles : t \in Streams
      /\ \A d \in Calls : call[d].str \in Streams /\ call[d].gen \in Nat
      /\ \A t \in Streams : stream[t].gen \in Nat
      /\ call \in [Calls -> CallType]
  BY ControllerAssumption DEF TypeOK, CallType
<1>1. \A d \in Calls \ {c} : call'[d] = call[d]
  BY CallMoves
<1>2. \A d \in Calls \ {c} : Owns(d)' <=> Owns(d)
  BY <1>1 DEF Owns, Joining, Starting, Pc
<1>3. ASSUME NEW d \in Calls, Owns(d)', call'[d].gen = stream'[call'[d].str].gen,
             stream'[call'[d].str].active
      PROVE  FALSE
  <2> DEFINE s == call'[d].str
  <2>1. s \in Streams
    <3>1. d # c => s \in Streams
      BY <1>0, <1>1
    <3>2. Pc(c) # "idle" /\ d = c => s \in Streams
      BY <1>0, <1>3, OwnersPersist
    <3>3. ASSUME Pc(c) = "idle", d = c
          PROVE  s \in Streams
      <4>1. CASE UNCHANGED call
        BY <1>0, <4>1
      <4>2. ASSUME NEW t \in Toggles, StartEnter(c, t) \/ StopEnter(c, t)
            PROVE  s \in Streams
        BY <1>0, <1>3, <3>3, <4>2, StartEnterRecord, StopEnterRecord DEF Owns, Joining, Starting, Pc
      <4>3. CASE ConnectEnter(c) \/ DisconnectEnter(c)
        BY <1>0, <3>3, <4>3, ConnectEnterRecord, DisconnectEnterRecord
      <4>4. CallStep(c) => CallBegins(c)
        BY <3>3 DEF CallStep, CallContinues, ConnectAgain, DialSucceeds, ConnectFails,
         ConnectInstall, ConnectAnnounce, DisconnectUnpublish, DisconnectClose,
         DisconnectJoin, StartJoin, StartFails, StartAbort, StartInstall, StopJoin
      <4>5. ~ConnectAnnounce(c)
        BY <3>3 DEF ConnectAnnounce
      <4> QED BY <4>1, <4>2, <4>3, <4>4, <4>5, CallMoves DEF CallBegins
    <3> QED BY <3>1, <3>2, <3>3
  <2>2. CASE d = c /\ Pc(c) = "idle"
    <3>1. ASSUME NEW t \in Toggles, StartEnter(c, t)
          PROVE  s = t /\ stream'[s].gen = stream[s].gen + 1 /\ ~StartInstall(c) /\ ~ConnectInstall(c)
      <4>1. call'[c].pc # "returned"
        BY <1>3, <2>2 DEF Owns, Joining, Starting, Pc
      <4>2. s = t
        BY <1>0, <2>2, <3>1, <4>1, StartEnterRecord
      <4>3. stream'[t].gen = stream[t].gen + 1
        BY <1>0, <3>1, <4>1, StartEnterStream
      <4> QED BY <2>2, <4>2, <4>3 DEF StartInstall, ConnectInstall
    <3>2. ASSUME NEW t \in Toggles, StopEnter(c, t)
          PROVE  s = t /\ stream'[s].gen = stream[s].gen + 1 /\ ~StartInstall(c) /\ ~ConnectInstall(c)
      <4>1. call'[c].pc # "returned"
        BY <1>3, <2>2 DEF Owns, Joining, Starting, Pc
      <4>2. s = t
        BY <1>0, <2>2, <3>2, <4>1, StopEnterRecord
      <4>3. stream'[t].gen = stream[t].gen + 1
        BY <1>0, <3>2, <4>1, StopEnterStream
      <4> QED BY <2>2, <4>2, <4>3 DEF StartInstall, ConnectInstall
    <3>3. CASE \E t \in Toggles : StartEnter(c, t) \/ StopEnter(c, t)
      <4>1. stream'[s].gen = stream[s].gen + 1 /\ ~StartInstall(c) /\ ~ConnectInstall(c)
        BY <3>1, <3>2, <3>3
      <4> QED BY <1>0, <1>3, <2>1, <4>1, ActiveMoves
    <3>4. CASE ConnectEnter(c) \/ DisconnectEnter(c)
      <4>1. call'[c].op \in {"connect", "disconnect"}
        BY <1>0, <2>2, <3>4, ConnectEnterRecord, DisconnectEnterRecord
      <4>2. call'[c].pc \notin {"restart", "stop"}
        BY <1>0, <2>2, <3>4, ConnectEnterRecord, DisconnectEnterRecord DEF TypeOK
      <4> QED BY <1>3, <2>2, <4>1, <4>2 DEF Owns, Joining, Starting, Pc
    <3>5. CASE UNCHANGED call \/ ConnectAnnounce(c)
      BY <1>3, <2>2, <3>5 DEF Owns, Joining, Starting, Pc, ConnectAnnounce
    <3>6. CallStep(c) => CallBegins(c)
      BY <2>2 DEF CallStep, CallContinues, ConnectAgain, DialSucceeds, ConnectFails,
         ConnectInstall, ConnectAnnounce, DisconnectUnpublish, DisconnectClose,
         DisconnectJoin, StartJoin, StartFails, StartAbort, StartInstall, StopJoin
    <3> QED BY <3>3, <3>4, <3>5, <3>6, CallMoves DEF CallBegins
  <2>3. CASE ~(d = c /\ Pc(c) = "idle") /\ stream'[s] = stream[s] /\ stream[s].active
    <3>1. CASE d # c
      BY <1>1, <1>2, <1>3, <2>3, <3>1 DEF OwnersInactive
    <3>2. CASE d = c /\ Pc(c) # "idle"
      BY <1>3, <2>3, <3>2, OwnersPersist DEF OwnersInactive
    <3> QED BY <2>3, <3>1, <3>2
  <2>4. CASE StartInstall(c) /\ s = call[c].str
    <3>1. stream'[s].gen = stream[s].gen /\ stream[s].gen = call[c].gen /\ Owns(c)
      <4>1. stream'[call[c].str].gen = stream[call[c].str].gen
        BY <2>4, StartInstallStream
      <4>2. stream[call[c].str].gen = call[c].gen /\ Owns(c)
        BY <2>4 DEF StartInstall, StillOwned, Owns, Starting
      <4> QED BY <2>4, <4>1, <4>2
    <3>2. CASE d = c
      <4>1. call'[c].pc = "returned"
        BY <2>4, GotoRecord DEF StartInstall
      <4> QED BY <1>3, <3>2, <4>1 DEF Owns, Joining, Starting, Pc
    <3>3. CASE d # c
      <4>1. Owns(d) /\ call[d].str = call[c].str /\ call[d].gen = call[c].gen
        BY <1>1, <1>2, <1>3, <2>4, <3>1, <3>3
      <4> QED BY <3>1, <3>3, <4>1 DEF PInv, GenerationsDiffer
    <3> QED BY <3>2, <3>3
  <2>5. CASE ConnectInstall(c) /\ stream'[s].gen = stream[s].gen + 1
    <3>1. CASE d = c
      <4>1. call'[c].pc \in {"announce", "returned"}
        BY <2>5, GotoRecord DEF ConnectInstall
      <4> QED BY <1>3, <3>1, <4>1 DEF Owns, Joining, Starting, Pc
    <3>2. CASE d # c
      <4>1. Owns(d) /\ call[d].str = s /\ call[d].gen = stream[s].gen + 1
        BY <1>1, <1>2, <1>3, <2>5, <3>2
      <4> QED BY <1>0, <2>1, <4>1 DEF PInv, GenerationsDiffer
    <3> QED BY <3>1, <3>2
  <2> QED BY <1>3, <2>1, <2>2, <2>3, <2>4, <2>5, ActiveMoves
<1> QED BY <1>3 DEF OwnersInactive

(* The life of a worker: what each of its steps leads to. *)
LEMMA PhaseMoves ==
  ASSUME TypeOK, LaunchedHaveReturned, NEW c \in Calls, StepOf(c), NEW w \in Calls
  PROVE  \/ Phase(w)' = Phase(w)
         \/ /\ w = c
            /\ \/ Phase(c) = "run" /\ Phase(c)' = AfterCapture(c)
               \/ WorkerEndSession(c) /\ Phase(c) = "end" /\ Phase(c)' = "control"
               \/ WorkerCloseControl(c) /\ Phase(c) = "control" /\ Phase(c)' = "socket"
               \/ WorkerCloseSocket(c) /\ Phase(c) = "socket" /\ Phase(c)' = "last"
               \/ WorkerLast(c) /\ Phase(c) = "last" /\ Phase(c)' = "exit"
               \/ WorkerExit(c) /\ Phase(c) = "exit" /\ Phase(c)' = "exited"
               \/ (ConnectInstall(c) \/ StartInstall(c)) /\ Phase(c) = "none"
                    /\ Phase(c)' = "run"
<1>1. ASSUME NEW from \in Phases, NEW to \in Phases, Step(c, from, to)
      PROVE  Phase(c) = from /\ Phase(c)' = to
  BY <1>1, StepPhase DEF Phase
<1>2. CASE CaptureStops(c) \/ CaptureFails(c)
  <2>1. Step(c, "run", AfterCapture(c)) /\ AfterCapture(c) \in Phases /\ "run" \in Phases
    BY <1>2 DEF CaptureStops, CaptureFails, AfterCapture, Phases
  <2>2. Phase(c) = "run" /\ Phase(c)' = AfterCapture(c)
    BY <1>1, <2>1
  <2> QED BY <2>2, WorkerMoves DEF Phase
<1>3. CASE WorkerEndSession(c)
  BY <1>1, <1>3, WorkerMoves DEF WorkerEndSession, Phases, Phase
<1>4. CASE WorkerCloseControl(c)
  BY <1>1, <1>4, WorkerMoves DEF WorkerCloseControl, Phases, Phase
<1>5. CASE WorkerCloseSocket(c)
  BY <1>1, <1>5, WorkerMoves DEF WorkerCloseSocket, Phases, Phase
<1>6. CASE WorkerLast(c)
  BY <1>1, <1>6, WorkerMoves DEF WorkerLast, Phases, Phase
<1>7. CASE WorkerExit(c)
  BY <1>1, <1>7, WorkerMoves DEF WorkerExit, Phases, Phase
<1>8. CASE CaptureHeader(c)
  BY <1>8 DEF CaptureHeader, procVars, Phase
<1> QED
  BY <1>2, <1>3, <1>4, <1>5, <1>6, <1>7, <1>8, WorkerMoves
  DEF WorkerStep, WorkerContinues, Phase

(* The current connection's worker of an active stream goes on, but never past its last
   check. *)
LEMMA ActivePhase ==
  ASSUME SInv, OverwrittenAreLost, ActiveHasWorker, NEW c \in Calls, StepOf(c),
         NEW s \in Streams, stream[s].active, stream'[s].active,
         NEW w \in Calls, w = stream[s].done, worker[w].conn = conn
  PROVE  /\ Phase(w)' \in {"run", "end", "control", "socket", "last"}
         /\ Phase(w)' = "run" => Phase(w) = "run"
<1> USE DEF SInv
<1>1. /\ Phase(w) \in {"run", "end", "control", "socket", "last"}
      /\ stream[s].running /\ worker[w].str = s /\ worker[w].conn = conn
      /\ worker[w].gen = stream[s].gen
      /\ s = "screen" => screenHubGen = worker[w].hubGen
  BY DEF ActiveHasWorker, Captures, OverwrittenAreLost
<1>2. ~(w = c /\ WorkerLast(c))
  <2>1. SUFFICES ASSUME w = c, WorkerLast(c) PROVE FALSE
    OBVIOUS
  <2>2. WasRunning(c)
    BY <1>1, <2>1 DEF WasRunning
  <2>3. stream' = [stream EXCEPT ![s] = [@ EXCEPT !.running = FALSE, !.active = FALSE]]
    BY <1>1, <2>1, <2>2 DEF WorkerLast, Finished
  <2>4. EndsStream(s)
    BY <2>3, EndingEnds
  <2> QED BY <2>4 DEF EndsStream
<1> QED BY <1>1, <1>2, PhaseMoves DEF AfterCapture

(* The slot of an active stream keeps its worker's socket while the worker captures. *)
LEMMA ActiveSlot ==
  ASSUME SInv, ActiveHasWorker, OwnersInactive, NEW c \in Calls, StepOf(c),
         NEW s \in Streams, stream[s].active, stream'[s] = stream[s],
         NEW w \in Calls, w = stream[s].done, Phase(w) = "run", worker[w].conn = conn
  PROVE  slot'[conn][s] = slot[conn][s]
<1> USE DEF SInv
<1>1. /\ connected /\ stream[s].running /\ worker[w].str = s /\ worker[w].conn = conn
      /\ worker[w].gen = stream[s].gen
      /\ s = "screen" => screenHubGen = worker[w].hubGen
  BY DEF ActiveHasWorker, Captures
<1>2. conn \in Calls /\ Installed(conn) /\ s \in Slots /\ s # "control"
  BY <1>1, ConnectedHasConn DEF Streams, Slots
<1>3. stream'[s].gen = stream[s].gen /\ stream[s].gen \in Nat /\ stream'[s].active
  BY DEF TypeOK
<1>4. SUFFICES ASSUME slot'[conn][s] # slot[conn][s] PROVE FALSE
  OBVIOUS
<1>5. CASE DisconnectClose(c) /\ conn = call[c].conn
  BY <1>5 DEF DisconnectClose, CallsKeepTheirName
<1>6. CASE WorkerCloseSocket(c) /\ s = "screen" /\ conn = worker[c].conn
  <2>1. Phase(c) = "socket"
    BY <1>6 DEF WorkerCloseSocket, Step
  <2>2. worker[c].str = "screen" /\ Alive(c)
    BY <2>1 DEF LaunchedHaveReturned, Alive
  <2>3. stream["screen"].done = c
    BY <1>6, <2>2 DEF PInv, WorkerIsJoinable
  <2> QED BY <1>6, <2>1, <2>3
<1>7. CASE WorkerLast(c) /\ WasRunning(c) /\ s = worker[c].str
  <2>1. stream' = [stream EXCEPT ![s] = [@ EXCEPT !.running = FALSE, !.active = FALSE]]
    BY <1>7 DEF WorkerLast, Finished
  <2>2. EndsStream(s)
    BY <2>1, EndingEnds
  <2> QED BY <1>3, <2>2 DEF EndsStream
<1>8. CASE Launches(c) /\ conn = call[c].conn /\ s = call[c].str
  <2>1. CASE StartInstall(c)
    <3>1. Owns(c) /\ call[c].gen = stream[s].gen
      BY <1>8, <2>1 DEF StartInstall, StillOwned, Owns, Starting
    <3> QED BY <1>8, <3>1 DEF OwnersInactive
  <2>2. CASE ConnectInstall(c)
    <3>1. conn = c /\ Pc(c) = "dialed"
      BY <1>8, <2>2 DEF ConnectInstall, CallsKeepTheirName
    <3> QED BY <1>2, <3>1 DEF Installed
  <2> QED BY <1>8, <2>1, <2>2 DEF Launches
<1> QED BY <1>2, <1>3, <1>4, <1>5, <1>6, <1>7, <1>8, SlotChanges

(* The hub generation of an active screen stream stays. *)
LEMMA ActiveHubGen ==
  ASSUME SInv, ActiveHasWorker, OwnersInactive, NEW c \in Calls, StepOf(c),
         stream["screen"].active, stream'["screen"] = stream["screen"]
  PROVE  UNCHANGED screenHubGen
<1> USE DEF SInv
<1>0. "screen" \in Streams /\ stream["screen"].gen \in Nat /\ stream'["screen"].active
  BY Basics DEF TypeOK
<1>1. CASE DisconnectEnter(c) /\ connected
  BY <1>0, <1>1, DisconnectStream
<1>2. CASE StopEnter(c, "screen")
  <2>1. UNCHANGED screenHubGen
    BY <1>0, <1>2, StopEnterStream
  <2> QED BY <2>1
<1>3. CASE WorkerLast(c) /\ WasRunning(c) /\ worker[c].str = "screen"
  <2>1. stream' = [stream EXCEPT !["screen"] = [@ EXCEPT !.running = FALSE, !.active = FALSE]]
    BY <1>3 DEF WorkerLast, Finished
  <2>2. EndsStream("screen")
    BY <1>0, <2>1, EndingEnds
  <2> QED BY <1>0, <2>2 DEF EndsStream
<1>4. CASE StartInstall(c) /\ call[c].str = "screen"
  <2>1. Owns(c) /\ call[c].gen = stream["screen"].gen
    BY <1>4 DEF StartInstall, StillOwned, Owns, Starting
  <2> QED BY <1>4, <2>1 DEF OwnersInactive
<1> QED BY <1>1, <1>2, <1>3, <1>4, OwnerMoves

(* A launch makes the stream active with the worker it starts. *)
LEMMA LaunchActivates ==
  ASSUME SInv, NEW c \in Calls, StepOf(c), StartInstall(c), NEW s, s = call[c].str
  PROVE  /\ stream'[s].done = c /\ stream'[s].running /\ connected'
         /\ Phase(c)' = "run" /\ worker'[c].str = s /\ worker'[c].conn = conn'
         /\ worker'[c].gen = stream'[s].gen
         /\ s = "screen" => screenHubGen' = worker'[c].hubGen
         /\ slot'[conn'][s] = worker'[c].sock
<1> USE DEF SInv
<1>1. s \in Streams /\ s \in Slots /\ conn \in Calls /\ connected
  BY ConnectedHasConn DEF TypeOK, StartInstall, StillOwned, Slots
<1>2. stream'[s].gen = stream[s].gen /\ stream'[s].done = c /\ stream'[s].running
      /\ stream[s].gen = call[c].gen
  <2>1. stream[s].gen = call[c].gen
    BY DEF StartInstall, StillOwned
  <2>2. TypeOK
    OBVIOUS
  <2> QED BY <2>1, <2>2, StartInstallStream
<1>3. UNCHANGED <<connected, conn>>
  BY DEF StartInstall
<1>4. /\ worker' = [worker EXCEPT ![c] =
                  [phase |-> "run", str |-> s, gen |-> call[c].gen,
                   conn |-> conn,
                   sock |-> IF sock[c] = "open" THEN c ELSE slot[conn][s],
                   hubGen |-> IF s = "screen" THEN screenGeneration + 1 ELSE 0]]
      /\ s = "screen" => screenHubGen' = screenGeneration + 1
  BY DEF StartInstall
<1>5. worker'[c] = [phase |-> "run", str |-> s, gen |-> call[c].gen,
                   conn |-> conn,
                   sock |-> IF sock[c] = "open" THEN c ELSE slot[conn][s],
                   hubGen |-> IF s = "screen" THEN screenGeneration + 1 ELSE 0]
  BY <1>4 DEF TypeOK
<1>6. slot'[conn][s] = IF sock[c] = "open" THEN c ELSE slot[conn][s]
  BY <1>1, StartInstallInstalls DEF Installs
<1> QED BY <1>1, <1>2, <1>3, <1>4, <1>5, <1>6 DEF Phase

(* The same for the speaker that Connect starts. *)
LEMMA ConnectActivates ==
  ASSUME SInv, NEW c \in Calls, StepOf(c), ConnectInstall(c), conn' = c, connected',
         stream'["speaker"].gen = stream["speaker"].gen + 1
  PROVE  /\ stream'["speaker"].done = c /\ stream'["speaker"].running
         /\ Phase(c)' = "run" /\ worker'[c].str = "speaker" /\ worker'[c].conn = c
         /\ worker'[c].gen = stream'["speaker"].gen
         /\ slot'[c]["speaker"] = worker'[c].sock
<1> USE DEF SInv
<1>0. "speaker" \in Streams /\ "speaker" \in Slots /\ stream["speaker"].gen \in Nat
  BY Basics DEF TypeOK, Slots
<1>1. ~UNCHANGED stream
  BY <1>0
<1>2. /\ worker' = [worker EXCEPT ![c] =
                          [phase |-> "run", str |-> "speaker",
                           gen |-> stream["speaker"].gen + 1, conn |-> c,
                           sock |-> c, hubGen |-> 0]]
      /\ slot' = [slot EXCEPT ![c]["speaker"] = c]
  BY <1>1 DEF ConnectInstall, ctlVars
<1>3. worker'[c] = [phase |-> "run", str |-> "speaker",
                    gen |-> stream["speaker"].gen + 1, conn |-> c, sock |-> c, hubGen |-> 0]
  BY <1>2 DEF TypeOK
<1>4. slot'[c]["speaker"] = c
  BY <1>0, <1>2 DEF TypeOK
<1> QED BY <1>1, <1>3, <1>4, ConnectInstallStream DEF Phase

(* What is shown as active has a worker of its own, from the launch to the end. *)
LEMMA ActiveStaysCaptured ==
  ASSUME SInv, OverwrittenAreLost, ActiveHasWorker, OwnersInactive, NEW c \in Calls,
         StepOf(c)
  PROVE  ActiveHasWorker'
<1> USE DEF SInv
<1>0. /\ KeepsHistory
      /\ \A s \in Streams : stream'[s].active /\ stream[s].active => stream[s].gen \in Nat
  BY HistoryIsKept DEF TypeOK
<1>1. ASSUME NEW s \in Streams, stream'[s].active, stream'[s] = stream[s], stream[s].active,
             NEW w, w = stream[s].done
      PROVE  w \in Calls /\ Captures(w, s)'
  <2>1. /\ stream[s].running /\ connected /\ w \in Calls /\ Phase(w) # "none"
        /\ worker[w].str = s /\ worker[w].gen = stream[s].gen
        /\ s = "screen" => screenHubGen = worker[w].hubGen
        /\ \/ worker[w].conn \in overwritten
           \/ /\ worker[w].conn = conn
              /\ Phase(w) \in {"run", "end", "control", "socket", "last"}
              /\ Phase(w) = "run" => slot[conn][s] = worker[w].sock
    BY <1>1 DEF ActiveHasWorker, Captures
  <2>2. /\ worker'[w].str = worker[w].str /\ worker'[w].conn = worker[w].conn
        /\ worker'[w].gen = worker[w].gen /\ worker'[w].hubGen = worker[w].hubGen
        /\ worker'[w].sock = worker[w].sock /\ Phase(w)' # "none"
    BY <1>0, <2>1 DEF KeepsHistory
  <2>3. ~DisconnectEnter(c)
    BY <1>1, <2>1, DisconnectStream
  <2>4. connected'
    BY <2>1, <2>3, ConnMoves
  <2>5. s = "screen" => UNCHANGED screenHubGen
    BY <1>1, ActiveHubGen
  <2>6. worker[w].conn \in Calls
    BY <2>1 DEF LaunchedHaveReturned, Installed
  <2>7. CASE worker[w].conn \in overwritten'
    BY <1>1, <2>1, <2>2, <2>4, <2>5, <2>7 DEF Captures
  <2>8. CASE worker[w].conn = conn /\ UNCHANGED conn /\ worker[w].conn \notin overwritten
    <3>1. /\ Phase(w)' \in {"run", "end", "control", "socket", "last"}
          /\ Phase(w)' = "run" => Phase(w) = "run"
      BY <1>1, <2>1, <2>8, ActivePhase
    <3>2. Phase(w) = "run" => slot'[conn][s] = slot[conn][s]
      BY <1>1, <2>1, <2>8, ActiveSlot
    <3>3. Phase(w)' = "run" => slot'[conn'][s] = worker'[w].sock
      BY <2>1, <2>2, <2>8, <3>1, <3>2
    <3> QED BY <1>1, <2>1, <2>2, <2>4, <2>5, <2>8, <3>1, <3>3 DEF Captures
  <2>9. CASE worker[w].conn \in overwritten
    BY <2>6, <2>7, <2>9, CurrentOrOverwritten DEF OverwrittenAreLost
  <2> QED BY <2>1, <2>3, <2>6, <2>7, <2>8, <2>9, CurrentOrOverwritten
<1>2. ASSUME NEW s \in Streams, StartInstall(c), s = call[c].str
      PROVE  \E w \in Calls : w = stream'[s].done /\ Captures(w, s)'
  BY <1>2, LaunchActivates DEF Captures, Phase
<1>3. ASSUME NEW s \in Streams, ConnectInstall(c), s = "speaker", conn' = c, connected',
             stream'[s].gen = stream[s].gen + 1
      PROVE  \E w \in Calls : w = stream'[s].done /\ Captures(w, s)'
  BY <1>3, ConnectActivates DEF Captures, Phase
<1>4. ASSUME NEW s \in Streams, stream'[s].active
      PROVE  \E w \in Calls : w = stream'[s].done /\ Captures(w, s)'
  BY <1>1, <1>2, <1>3, <1>4, ActiveMoves
<1> QED BY <1>4 DEF ActiveHasWorker

-----------------------------------------------------------------------------
(* The session's owner and its control socket.                             *)

(* The hub's session and its route. *)
sessionNow == <<screenActive, screenGeneration, controlRoute>>

(* What the hub's operations do to its session and its route. *)
LEMMA HubOperations ==
  ASSUME NEW g, NEW r, NEW ok \in BOOLEAN
  PROVE  /\ UNCHANGED hubVars => UNCHANGED sessionNow
         /\ EndScreenSession(g, ok) =>
              IF IsCurrent(g) THEN screenActive' = FALSE /\ controlRoute' = NoRoute
                              ELSE UNCHANGED sessionNow
         /\ SetScreenSession(g, ok) => IsCurrent(g) /\ UNCHANGED sessionNow
         /\ RegisterControlRoute(g, r, ok) =>
              /\ IsCurrent(g) /\ UNCHANGED <<screenActive, screenGeneration>>
              /\ controlRoute' = r
         /\ BeginScreenSession(ok) =>
              /\ screenActive' = TRUE /\ screenGeneration' = screenGeneration + 1
              /\ controlRoute' = NoRoute
BY DEF hubVars, sessionVars, routeVars, displayVars, EndScreenSession, DetachSession, HubUnchanged, SetScreenSession,
       RegisterControlRoute, BeginScreenSession, sessionNow

(* What a step of the controller does to them. *)
LEMMA SessionMoves ==
  ASSUME TypeOK, NEW c \in Calls, StepOf(c)
  PROVE  /\ \/ UNCHANGED sessionNow
            \/ screenActive /\ screenActive' = FALSE /\ controlRoute' = NoRoute
            \/ /\ StartInstall(c) /\ call[c].str = "screen" /\ controlRoute' = NoRoute
               /\ screenActive' = TRUE /\ screenGeneration' = screenGeneration + 1
            \/ /\ ReconRegister(c) /\ IsCurrent(worker[c].hubGen) /\ controlRoute' = c
               /\ UNCHANGED <<screenActive, screenGeneration>>
         /\ DisconnectEnter(c) /\ connected /\ IsCurrent(screenHubGen) => screenActive' = FALSE
         /\ WorkerEndSession(c) /\ IsCurrent(worker[c].hubGen) => screenActive' = FALSE
         /\ StartInstall(c) /\ call[c].str = "screen" =>
              /\ controlRoute' = NoRoute
              /\ screenActive' = TRUE /\ screenGeneration' = screenGeneration + 1
<1>0. \A g : IsCurrent(g) => screenActive
  BY DEF IsCurrent
<1>1. ASSUME NEW g, \E ok \in BOOLEAN : EndScreenSession(g, ok)
      PROVE  IF IsCurrent(g) THEN screenActive' = FALSE /\ controlRoute' = NoRoute
                              ELSE UNCHANGED sessionNow
  <2>1. PICK ok \in BOOLEAN : EndScreenSession(g, ok)
    BY <1>1
  <2> QED BY <2>1, HubOperations
<1>2. ASSUME NEW g, \E ok \in BOOLEAN : SetScreenSession(g, ok)
      PROVE  UNCHANGED sessionNow
  <2>1. PICK ok \in BOOLEAN : SetScreenSession(g, ok)
    BY <1>2
  <2> QED BY <2>1, HubOperations
<1>3. ASSUME NEW g, \E ok \in BOOLEAN : RegisterControlRoute(g, c, ok)
      PROVE  UNCHANGED <<screenActive, screenGeneration>> /\ controlRoute' = c
  <2>1. PICK ok \in BOOLEAN : RegisterControlRoute(g, c, ok)
    BY <1>3
  <2> QED BY <2>1, HubOperations
<1>4. ASSUME \E ok \in BOOLEAN : BeginScreenSession(ok)
      PROVE  /\ controlRoute' = NoRoute
             /\ screenActive' = TRUE /\ screenGeneration' = screenGeneration + 1
  <2>1. PICK ok \in BOOLEAN : BeginScreenSession(ok)
    BY <1>4
  <2> QED BY <2>1, HubOperations
<1>5. UNCHANGED hubVars => UNCHANGED sessionNow
  BY HubOperations
<1>6. WriteOutcomes \subseteq BOOLEAN
  BY DEF WriteOutcomes
<1>7. DisconnectEnter(c) /\ connected => \E ok \in BOOLEAN : EndScreenSession(screenHubGen, ok)
  <2>1. DisconnectEnter(c) /\ connected => \E ok \in WriteOutcomes : EndScreenSession(screenHubGen, ok)
    BY DEF DisconnectEnter
  <2> QED BY <1>6, <2>1
<1>8. WorkerEndSession(c) => \E ok \in BOOLEAN : EndScreenSession(worker[c].hubGen, ok)
  BY <1>6 DEF WorkerEndSession
<1>9. StartInstall(c) /\ call[c].str = "screen" => \E ok \in BOOLEAN : BeginScreenSession(ok)
  BY <1>6 DEF StartInstall
<1> QED BY <1>0, <1>1, <1>2, <1>3, <1>4, <1>5, <1>7, <1>8, <1>9, HubMoves

(* The session's owner, while it has one, is a screen worker that has not closed its
   control socket. *)
LEMMA OwnerStays ==
  ASSUME SInv, OwnerHasWorker, NEW c \in Calls, StepOf(c),
         NEW o \in Calls, controlOwner' = o
  PROVE  \/ /\ controlOwner = o /\ connected' /\ worker[o].conn \in Calls
            /\ worker[o].conn \in {conn'} \cup overwritten'
            /\ Phase(o)' \in {"run", "end", "control"}
            /\ \/ Phase(o)' = Phase(o)
               \/ o = c /\ Phase(c) = "run" /\ Phase(c)' = "end"
               \/ o = c /\ Phase(c) = "end" /\ WorkerEndSession(c)
            /\ worker'[o].conn = worker[o].conn /\ worker'[o].str = worker[o].str
            /\ worker'[o].hubGen = worker[o].hubGen
         \/ StartInstall(c) /\ call[c].str = "screen" /\ o = c
<1> USE DEF SInv
<1>1. CASE UNCHANGED controlOwner
  <2>1. /\ o = controlOwner /\ connected /\ worker[o].str = "screen"
        /\ worker[o].conn \in {conn} \cup overwritten
        /\ Phase(o) \in {"run", "end", "control"}
    BY <1>1, Basics DEF OwnerHasWorker
  <2>2. ~DisconnectEnter(c)
    BY <1>1, <2>1, Basics DEF DisconnectEnter
  <2>3. ~(o = c /\ WorkerCloseControl(c))
    BY <1>1, <2>1, Basics DEF WorkerCloseControl
  <2>4. /\ worker'[o].str = worker[o].str /\ worker'[o].conn = worker[o].conn
        /\ worker'[o].hubGen = worker[o].hubGen
    BY <2>1, HistoryIsKept DEF KeepsHistory
  <2>5. \/ Phase(o)' = Phase(o)
        \/ o = c /\ Phase(c) = "run" /\ Phase(c)' = "end"
        \/ o = c /\ Phase(c) = "end" /\ WorkerEndSession(c) /\ Phase(c)' = "control"
    BY <2>1, <2>3, PhaseMoves DEF AfterCapture
  <2>6. Phase(o)' \in {"run", "end", "control"}
    BY <2>1, <2>5
  <2>7. worker[o].conn \in Calls
    BY <2>1 DEF LaunchedHaveReturned, Installed
  <2>8. connected' /\ worker[o].conn \in {conn'} \cup overwritten'
    BY <2>1, <2>2, <2>7, ConnMoves, CurrentOrOverwritten
  <2> QED BY <2>1, <2>4, <2>5, <2>6, <2>7, <2>8
<1> QED BY <1>1, OwnerMoves, Basics

(* The hub generation the controller keeps is the current session's. *)
LEMMA HubGenStays ==
  ASSUME SInv, HubGens, OwnerHasWorker, NEW c \in Calls, StepOf(c),
         screenActive, screenActive', UNCHANGED screenGeneration
  PROVE  UNCHANGED screenHubGen /\ UNCHANGED controlOwner
<1> USE DEF SInv
<1>0. /\ controlOwner \in Calls /\ connected /\ screenHubGen = screenGeneration
      /\ worker[controlOwner].hubGen = screenGeneration
      /\ worker[controlOwner].str = "screen"
      /\ Phase(controlOwner) \in {"run", "end"}
      /\ screenGeneration \in Nat
  BY HubAssumption DEF OwnerHasWorker, TypeOK, HubTypeOK
<1>1. ~(DisconnectEnter(c) /\ connected)
  BY <1>0, SessionMoves DEF IsCurrent
<1>2. ASSUME NEW s \in Toggles, StopEnter(c, s), s = "screen", screenHubGen' = 0
      PROVE  UNCHANGED screenHubGen
  <2>1. "screen" \in Streams
    BY Basics
  <2>2. CASE \E ok \in WriteOutcomes : EndScreenSession(screenHubGen, ok)
    <3>1. PICK ok \in WriteOutcomes : EndScreenSession(screenHubGen, ok)
      BY <2>2
    <3>2. ok \in BOOLEAN
      BY DEF WriteOutcomes
    <3>3. screenActive' = FALSE
      BY <1>0, <3>1, <3>2, HubOperations DEF IsCurrent
    <3> QED BY <3>3
  <2> QED BY <1>2, <2>1, <2>2, StopEnterStream
<1>3. ~(WorkerLast(c) /\ WasRunning(c) /\ worker[c].str = "screen")
  <2>1. SUFFICES ASSUME WorkerLast(c), WasRunning(c), worker[c].str = "screen" PROVE FALSE
    OBVIOUS
  <2>2. Phase(c) = "last" /\ worker[c].hubGen = screenGeneration
    BY <1>0, <2>1 DEF WorkerLast, Step, WasRunning
  <2>3. c = controlOwner
    BY <1>0, <2>1, <2>2 DEF HubGens
  <2> QED BY <1>0, <2>2, <2>3
<1>4. ~(StartInstall(c) /\ call[c].str = "screen")
  BY <1>0, SessionMoves
<1>5. ~(WorkerCloseControl(c) /\ controlOwner = c)
  BY <1>0 DEF WorkerCloseControl, Step
<1> QED BY <1>1, <1>2, <1>3, <1>4, <1>5, OwnerMoves

(* The owner of the session keeps its worker. *)
LEMMA OwnerKeepsWorker ==
  ASSUME SInv, HubGens, OwnerHasWorker, NEW c \in Calls, StepOf(c)
  PROVE  OwnerHasWorker'
<1> USE DEF SInv
<1>0. controlOwner' \in Calls \cup {None} /\ screenGeneration \in Nat /\ NoRoute = None
  BY TypeOfScalars, HubAssumption, ControllerAssumption DEF TypeOK, HubTypeOK
<1>1. ASSUME NEW o \in Calls, controlOwner' = o
      PROVE  /\ connected' /\ worker'[o].conn \in {conn'} \cup overwritten'
             /\ worker'[o].str = "screen"
             /\ Phase(o)' \in {"run", "end", "control"}
  <2>1. CASE controlOwner = o
    BY <1>1, <2>1, OwnerStays, LaunchActivates, Basics DEF OwnerHasWorker
  <2>2. CASE StartInstall(c) /\ call[c].str = "screen" /\ o = c
    BY <2>2, LaunchActivates
  <2> QED BY <1>1, <2>1, <2>2, OwnerStays
<1>2. ASSUME screenActive'
      PROVE  \E o \in Calls :
               /\ controlOwner' = o /\ screenHubGen' = screenGeneration'
               /\ worker'[o].hubGen = screenGeneration' /\ Phase(o)' \in {"run", "end"}
  <2>1. CASE StartInstall(c) /\ call[c].str = "screen"
    <3>1. /\ controlOwner' = c /\ screenHubGen' = screenGeneration + 1
      BY <2>1 DEF StartInstall
    <3>2. screenGeneration' = screenGeneration + 1
      BY <2>1, SessionMoves
    <3>3. screenHubGen' = worker'[c].hubGen /\ Phase(c)' = "run"
      BY <2>1, LaunchActivates
    <3> QED BY <3>1, <3>2, <3>3
  <2>2. CASE ~(StartInstall(c) /\ call[c].str = "screen")
    <3>1. screenActive /\ UNCHANGED screenGeneration
      BY <1>2, <2>2, SessionMoves DEF IsCurrent, sessionNow
    <3>2. UNCHANGED screenHubGen /\ UNCHANGED controlOwner
      BY <1>2, <3>1, HubGenStays
    <3>3. PICK o \in Calls : o = controlOwner /\ controlOwner' = o
            /\ screenHubGen = screenGeneration /\ worker[o].hubGen = screenGeneration
            /\ Phase(o) \in {"run", "end"}
      BY <3>1, <3>2 DEF OwnerHasWorker, TypeOK
    <3>4. ~(o = c /\ Phase(c) = "end" /\ WorkerEndSession(c))
      BY <1>2, <3>1, <3>3, SessionMoves DEF IsCurrent
    <3>5. worker'[o].hubGen = worker[o].hubGen /\ Phase(o)' \in {"run", "end"}
      BY <2>2, <3>3, <3>4, OwnerStays
    <3> QED BY <3>1, <3>2, <3>3, <3>5
  <2> QED BY <2>1, <2>2
<1>3. ~screenActive' => controlRoute' = None
  <2>1. CASE UNCHANGED sessionNow
    BY <2>1 DEF OwnerHasWorker, sessionNow
  <2>2. CASE IsCurrent(worker[c].hubGen) /\ UNCHANGED screenActive
    BY <2>2 DEF IsCurrent
  <2> QED BY <1>0, <2>1, <2>2, SessionMoves
<1>4. controlOwner' # None =>
       /\ connected' /\ worker'[controlOwner'].conn \in {conn'} \cup overwritten'
       /\ worker'[controlOwner'].str = "screen"
       /\ Phase(controlOwner)' \in {"run", "end", "control"}
  BY <1>0, <1>1 DEF Phase
<1>5. screenActive' =>
       /\ controlOwner' # None /\ screenHubGen' = screenGeneration'
       /\ worker'[controlOwner'].hubGen = screenGeneration'
       /\ Phase(controlOwner)' \in {"run", "end"}
  BY <1>2, Basics DEF Phase
<1> QED BY <1>3, <1>4, <1>5 DEF OwnerHasWorker, Phase

(* How a reconnect comes to hold its socket, and that it ends for good. *)
LEMMA ReconSteps ==
  ASSUME TypeOK, LaunchedHaveReturned, NEW c \in Calls, StepOf(c), NEW o \in Calls
  PROVE  /\ recon'[o] \in {"check", "register"} =>
              \/ recon[o] \in {"check", "register"}
              \/ o = c /\ ReconInstall(c) /\ ReconGoto(c, "install", "check")
         /\ recon[o] = "done" => recon'[o] = "done"
<1>1. ASSUME NEW from, NEW to, ReconGoto(c, from, to)
      PROVE  recon[c] = from /\ recon'[c] = to
  BY <1>1 DEF ReconGoto, TypeOK
<1>2. CASE ReconContinues(c)
  <2>1. CASE ReconInstall(c)
    <3>1. ReconGoto(c, "install", "check") \/ ReconGoto(c, "install", "done")
      BY <2>1 DEF ReconInstall
    <3> QED BY <1>1, <2>1, <3>1, ReconMoves
  <2>2. CASE ReconCheck(c)
    <3>1. ReconGoto(c, "check", "register") \/ ReconGoto(c, "check", "discard")
      BY <2>2 DEF ReconCheck
    <3> QED BY <1>1, <3>1, ReconMoves
  <2>3. CASE ReconRegister(c)
    <3>1. ReconGoto(c, "register", "done") \/ ReconGoto(c, "register", "discard")
      BY <2>3 DEF ReconRegister
    <3> QED BY <1>1, <3>1, ReconMoves
  <2>4. CASE ReconClosePrevious(c) \/ ReconDialSucceeds(c) \/ ReconDialFails(c) \/ ReconDiscard(c)
    <3>1. \/ ReconGoto(c, "close", "dial") \/ ReconGoto(c, "close", "done")
          \/ ReconGoto(c, "dial", "install") \/ ReconGoto(c, "dial", "done")
          \/ ReconGoto(c, "discard", "done")
      BY <2>4 DEF ReconClosePrevious, ReconDialSucceeds, ReconDialFails, ReconDiscard
    <3> QED BY <1>1, <3>1, ReconMoves
  <2> QED BY <1>2, <2>1, <2>2, <2>3, <2>4 DEF ReconContinues
<1> QED BY <1>2, ReconMoves

(* The owner's control socket stays in its slot, and open. *)
LEMMA ControlKept ==
  ASSUME SInv, OverwrittenAreLost, OwnerHasWorker, NEW c \in Calls, StepOf(c),
         NEW o \in Calls, controlOwner = o, controlOwner' = o,
         ~(StartInstall(c) /\ call[c].str = "screen"), HoldsControl(o),
         recon[o] \in {"check", "register", "done"}
  PROVE  HoldsControl(o)'
<1> USE DEF SInv
<1> DEFINE k == worker[o].conn
<1>0. /\ "control" \in Slots /\ "control" \notin Streams
      /\ \A d \in Calls : call[d].str \in Streams /\ worker[d].str \in Streams
  BY DEF Streams, Slots, TypeOK
<1>1. /\ worker'[o].conn = k /\ k \in Calls
      /\ slot[k]["control"] = o /\ csock[o] = "open"
  BY OwnerStays DEF HoldsControl
<1> HIDE DEF k
<1>2. slot'[k]["control"] = o
  <2>1. SUFFICES ASSUME slot'[k]["control"] # slot[k]["control"] PROVE FALSE
    BY <1>1
  <2>2. ~(DisconnectClose(c) /\ k = call[c].conn)
    <3>1. k \in {conn} \cup overwritten
      BY Basics DEF OwnerHasWorker, k
    <3> QED BY <3>1 DEF DisconnectClose, CallsKeepTheirName, OverwrittenAreLost
  <2>3. ~(WorkerCloseControl(c) /\ controlOwner = c)
    BY Basics DEF WorkerCloseControl
  <2>4. ~(ReconClosePrevious(c) /\ controlOwner = c)
    BY DEF ReconClosePrevious
  <2>5. ~(ReconDiscard(c) /\ c = o)
    BY DEF ReconDiscard, ReconGoto
  <2>6. ~(Reconnects(c) /\ controlOwner = c)
    BY DEF Reconnects
  <2>7. Reconnects(c) => controlOwner = c
    BY DEF Reconnects
  <2>8. "control" # "screen"
    OBVIOUS
  <2> QED BY <1>0, <1>1, <2>1, <2>2, <2>3, <2>4, <2>5, <2>6, <2>7, <2>8, SlotChanges
<1>3. \A j \in Calls : slot[j]["control"] = o => j = k
  BY DEF SlotsAreNamed, k
<1>4. csock'[o] = "open"
  <2> USE <1>1
  <2>1. CASE UNCHANGED csock
    BY <2>1
  <2>2. ASSUME NEW j \in Calls, NEW S \in SUBSET Slots, Empties(j, S)
        PROVE  csock'[o] = csock[o]
    <3>1. SUFFICES ASSUME csock'[o] # csock[o] PROVE FALSE
      OBVIOUS
    <3>2. "control" \in S /\ slot[j]["control"] = o
      BY <2>2, <3>1 DEF Empties
    <3>3. slot'[k]["control"] = None
      BY <1>0, <1>1, <1>3, <2>2, <3>2 DEF Empties
    <3> QED BY <1>2, <3>3, Basics
  <2>3. CASE DialSucceeds(c) \/ StartAbort(c) \/ ConnectInstall(c)
    BY <2>3 DEF DialSucceeds, StartAbort, ConnectInstall
  <2>4. CASE StartInstall(c)
    <3>1. PICK own : Installs(conn, call[c].str, own)
      BY <2>4, StartInstallInstalls
    <3> QED BY <1>0, <1>1, <3>1 DEF Installs
  <2>5. CASE ReconDialSucceeds(c)
    <3>1. c # o /\ csock' = [csock EXCEPT ![c] = "open"]
      BY <2>5 DEF ReconDialSucceeds, ReconGoto
    <3> QED BY <3>1 DEF TypeOK
  <2>6. CASE ReconInstall(c)
    <3>1. c # o
      BY <2>6 DEF ReconInstall
    <3>2. CASE csock' = [csock EXCEPT ![c] = "closed"]
      BY <3>1, <3>2 DEF TypeOK
    <3>3. CASE ReconGoto(c, "install", "check")
      <4>1. worker[c].conn \in Calls
        BY <3>3 DEF ReconGoto, LaunchedHaveReturned, Installed
      <4>2. Installs(worker[c].conn, "control", c)
        BY <2>6, <3>3, <4>1, ReconInstallInstalls
      <4>3. ASSUME csock'[o] # csock[o] PROVE FALSE
        <5>1. slot[worker[c].conn]["control"] = o
          BY <4>2, <4>3 DEF Installs
        <5>2. slot'[k]["control"] = c
          BY <1>0, <1>1, <1>3, <4>1, <4>2, <5>1 DEF Installs
        <5> QED BY <1>2, <3>1, <5>2
      <4> QED BY <4>3
    <3>4. csock' = [csock EXCEPT ![c] = "closed"] \/ ReconGoto(c, "install", "check")
      BY <2>6 DEF ReconInstall
    <3> QED BY <3>2, <3>3, <3>4
  <2>7. CASE ReconDiscard(c)
    <3>1. c # o /\ csock' = [csock EXCEPT ![c] = "closed"]
      BY <2>7 DEF ReconDiscard, ReconGoto
    <3> QED BY <3>1 DEF TypeOK
  <2> QED BY <2>1, <2>2, <2>3, <2>4, <2>5, <2>6, <2>7, SocketSteps
<1> QED BY <1>1, <1>2, <1>4 DEF HoldsControl, k

(* A live route writes to an open socket, in the slot from which it will be closed. *)
LEMMA ControlStaysOpen ==
  ASSUME SInv, OverwrittenAreLost, HubGens, OwnerHasWorker, ControlOpen,
         NEW c \in Calls, StepOf(c)
  PROVE  ControlOpen'
<1> USE DEF SInv
<1>0. NoRoute = None /\ None \notin Calls /\ "control" \in Slots
  BY ControllerAssumption, Basics DEF Slots
<1>1. ASSUME screenActive, screenActive', UNCHANGED screenGeneration
      PROVE  \E o \in Calls : /\ controlOwner = o /\ controlOwner' = o
                              /\ worker'[o].conn = worker[o].conn /\ worker[o].conn \in Calls
                              /\ worker[o].hubGen = screenGeneration
                              /\ worker[o].str = "screen" /\ Phase(o) # "none"
                              /\ ~(StartInstall(c) /\ call[c].str = "screen")
  <2>1. PICK o \in Calls : controlOwner = o
    BY <1>1 DEF OwnerHasWorker, TypeOK
  <2>2. controlOwner' = o
    BY <1>1, <2>1, HubGenStays
  <2>3. ~(StartInstall(c) /\ call[c].str = "screen")
    <3>1. screenGeneration \in Nat
      BY HubAssumption DEF TypeOK, HubTypeOK
    <3> QED BY <1>1, <3>1, SessionMoves
  <2>4. worker'[o].conn = worker[o].conn /\ worker[o].conn \in Calls
    BY <2>1, <2>2, <2>3, OwnerStays
  <2> QED BY <1>0, <1>1, <2>1, <2>2, <2>3, <2>4 DEF OwnerHasWorker
<1>2. ASSUME controlRoute' # None
      PROVE  \E o \in Calls : /\ controlRoute' = o /\ controlOwner' = o /\ recon'[o] = "done"
                              /\ HoldsControl(o)'
  <2>1. CASE UNCHANGED sessionNow
    <3>1. screenActive /\ screenActive' /\ UNCHANGED screenGeneration /\ controlRoute' = controlRoute
      BY <1>2, <2>1 DEF OwnerHasWorker, sessionNow
    <3>2. PICK o \in Calls : /\ controlOwner = o /\ controlOwner' = o
                             /\ ~(StartInstall(c) /\ call[c].str = "screen")
      BY <1>1, <3>1
    <3>3. controlRoute = o /\ recon[o] = "done" /\ HoldsControl(o)
      BY <1>2, <3>1, <3>2 DEF ControlOpen
    <3>4. recon'[o] = "done"
      BY <3>3, ReconSteps
    <3>5. HoldsControl(o)'
      BY <3>2, <3>3, ControlKept
    <3> QED BY <3>1, <3>2, <3>3, <3>4, <3>5
  <2>2. CASE ReconRegister(c) /\ IsCurrent(worker[c].hubGen) /\ controlRoute' = c
             /\ UNCHANGED <<screenActive, screenGeneration>>
    <3>1. /\ screenActive /\ worker[c].hubGen = screenGeneration
          /\ recon[c] = "register" /\ UNCHANGED netVars /\ recon'[c] = "done"
          /\ UNCHANGED <<ctlVars, worker>>
      BY <2>2 DEF IsCurrent, ReconRegister, ReconGoto, TypeOK
    <3>2. PICK o \in Calls : /\ controlOwner = o /\ worker[o].hubGen = screenGeneration
                             /\ worker[o].str = "screen" /\ Phase(o) # "none"
      BY <1>1, <2>2, <3>1
    <3>3. Phase(c) # "none" /\ worker[c].str = "screen"
      BY <3>1 DEF LaunchedHaveReturned
    <3>4. o = c
      BY <3>1, <3>2, <3>3 DEF HubGens
    <3>5. HoldsControl(c)
      BY <3>1, <3>2, <3>4 DEF ControlOpen
    <3> QED BY <2>2, <3>1, <3>2, <3>4, <3>5 DEF netVars, ctlVars, HoldsControl
  <2> QED BY <1>0, <1>2, <2>1, <2>2, SessionMoves
<1>3. ASSUME screenActive', NEW o \in Calls, controlOwner' = o, recon'[o] \in {"check", "register"}
      PROVE  HoldsControl(o)'
  <2>1. ~(StartInstall(c) /\ call[c].str = "screen")
    <3>1. SUFFICES ASSUME StartInstall(c), call[c].str = "screen" PROVE FALSE
      OBVIOUS
    <3>2. controlOwner' = c /\ recon' = [recon EXCEPT ![c] = "close"]
      BY <3>1 DEF StartInstall
    <3>3. recon'[o] = "close"
      BY <1>3, <3>2 DEF TypeOK
    <3> QED BY <1>3, <3>3
  <2>2. screenActive /\ UNCHANGED screenGeneration
    BY <1>3, <2>1, SessionMoves DEF IsCurrent, sessionNow
  <2>3. controlOwner = o /\ worker'[o].conn = worker[o].conn /\ worker[o].conn \in Calls
    BY <1>1, <1>3, <2>2
  <2>4. CASE recon[o] \in {"check", "register"}
    <3>1. HoldsControl(o)
      BY <2>2, <2>3, <2>4 DEF ControlOpen
    <3> QED BY <1>3, <2>1, <2>3, <2>4, <3>1, ControlKept
  <2>5. CASE o = c /\ ReconInstall(c) /\ ReconGoto(c, "install", "check")
    <3>1. Installs(worker[o].conn, "control", o) /\ csock[o] = "open"
      BY <2>3, <2>5, ReconInstallInstalls DEF ReconGoto, DialedSockets
    <3> QED BY <1>0, <2>3, <3>1 DEF Installs, HoldsControl
  <2> QED BY <1>3, <2>4, <2>5, ReconSteps
<1>4. controlRoute' # None =>
       /\ controlRoute' = controlOwner' /\ recon'[controlOwner'] = "done"
       /\ HoldsControl(controlOwner)'
  BY <1>2 DEF HoldsControl
<1>5. screenActive' /\ recon'[controlOwner'] \in {"check", "register"} =>
       HoldsControl(controlOwner)'
  <2>1. screenActive' => controlOwner' \in Calls
    BY OwnerKeepsWorker, TypeOfScalars DEF OwnerHasWorker
  <2> QED BY <1>3, <2>1 DEF HoldsControl
<1> QED BY <1>4, <1>5 DEF ControlOpen

-----------------------------------------------------------------------------
(* Sockets that will be closed.                                            *)

(* A Connection that will be closed, or was overwritten. *)
Held(k) == Reachable(k) \/ k \in overwritten

(* It stays so, until it is closed. *)
LEMMA HeldStays ==
  ASSUME SInv, OverwrittenAreLost, NEW c \in Calls, StepOf(c), NEW k \in Calls, Held(k)
  PROVE  Held(k)' \/ (DisconnectClose(c) /\ k = call[c].conn)
<1> USE DEF SInv
<1>0. call \in [Calls -> CallType]
  BY DEF TypeOK, CallType
<1>1. CASE k \in {conn} \cup overwritten
  <2>1. CASE k \in overwritten' \/ (k = conn /\ UNCHANGED conn)
    BY <2>1 DEF Held, Reachable
  <2>2. CASE k = conn /\ DisconnectEnter(c)
    <3>1. connected
      BY <2>2, Basics DEF OverwrittenAreLost
    <3>2. call'[c].pc = "unpublish" /\ call'[c].conn = conn
      BY <1>0, <2>2, <3>1, DisconnectEnterRecord
    <3> QED BY <2>2, <3>2 DEF Held, Reachable, Pc
  <2> QED BY <1>1, <2>1, <2>2, CurrentOrOverwritten
<1>2. ASSUME NEW e \in Calls, Pc(e) \in {"unpublish", "close"}, call[e].conn = k
      PROVE  Held(k)' \/ (DisconnectClose(c) /\ k = call[c].conn)
  <2>1. CASE call'[e] = call[e]
    BY <1>2, <2>1 DEF Held, Reachable, Pc
  <2>2. CASE e = c /\ CallStep(c)
    <3>1. DisconnectUnpublish(c) \/ DisconnectClose(c)
      BY <1>2, <2>2 DEF CallStep, CallBegins, CallContinues, ConnectEnter, ConnectAgain,
         DialSucceeds, ConnectFails, ConnectInstall, ConnectAnnounce, DisconnectEnter,
         DisconnectJoin, StartEnter, StartJoin, StartFails, StartAbort, StartInstall,
         StopEnter, StopJoin, Fresh
    <3>2. CASE DisconnectUnpublish(c)
      <4>1. call'[c].pc = "close" /\ call'[c].conn = k
        BY <1>2, <2>2, <3>2, GotoRecord DEF DisconnectUnpublish
      <4> QED BY <4>1 DEF Held, Reachable, Pc
    <3> QED BY <1>2, <2>2, <3>1, <3>2
  <2>3. ~(e = c /\ ConnectAnnounce(c))
    BY <1>2 DEF ConnectAnnounce
  <2> QED BY <2>1, <2>2, <2>3, CallMoves
<1> QED BY <1>1, <1>2 DEF Held, Reachable

(* A socket that leaves its slot is closed. *)
LEMMA EmptiedIsClosed ==
  ASSUME SInv, SlotsAreInstalled, NEW c \in Calls, StepOf(c), NEW d \in Calls, NEW k \in Calls,
         NEW s \in Slots, slot[k][s] = d, slot'[k][s] # d
  PROVE  IF s = "control" THEN csock'[d] = "closed" ELSE sock'[d] = "closed"
<1> USE DEF SInv
<1>1. ASSUME NEW j \in Calls, NEW S \in SUBSET Slots, Empties(j, S)
      PROVE  IF s = "control" THEN csock'[d] = "closed" ELSE sock'[d] = "closed"
  BY <1>1 DEF Empties
<1>2. ASSUME NEW j \in Calls, NEW t \in Slots, NEW own, Installs(j, t, own)
      PROVE  IF s = "control" THEN csock'[d] = "closed" ELSE sock'[d] = "closed"
  BY <1>2 DEF Installs
<1>3. ~(DialSucceeds(c) \/ StartAbort(c) \/ ReconDialSucceeds(c))
  BY DEF DialSucceeds, StartAbort, ReconDialSucceeds
<1>4. ~ConnectInstall(c)
  <2>1. SUFFICES ASSUME ConnectInstall(c) PROVE FALSE
    OBVIOUS
  <2>2. k = c
    <3>1. slot' = [slot EXCEPT ![c]["speaker"] = c] \/ UNCHANGED slot
      BY <2>1 DEF ConnectInstall
    <3> QED BY <3>1 DEF TypeOK
  <2>3. Installed(c)
    BY <2>2, Basics DEF SlotsAreInstalled
  <2> QED BY <2>1, <2>3 DEF ConnectInstall, Installed
<1>5. CASE StartInstall(c)
  <2>1. conn \in Calls /\ call[c].str \in Slots
    BY <1>5, ConnectedHasConn DEF StartInstall, StillOwned, TypeOK, Slots
  <2> QED BY <1>2, <1>5, <2>1, StartInstallInstalls
<1>6. CASE ReconInstall(c)
  <2>1. ReconGoto(c, "install", "check")
    BY <1>6 DEF ReconInstall
  <2>2. worker[c].conn \in Calls /\ "control" \in Slots
    BY <2>1 DEF ReconGoto, LaunchedHaveReturned, Installed, Slots
  <2> QED BY <1>2, <1>6, <2>1, <2>2, ReconInstallInstalls
<1>7. CASE ReconDiscard(c)
  <2>1. /\ csock' = [csock EXCEPT ![c] = "closed"]
        /\ slot' = [slot EXCEPT ![worker[c].conn]["control"] = None]
        /\ slot[worker[c].conn]["control"] = c
    BY <1>7 DEF ReconDiscard
  <2>2. k = worker[c].conn /\ s = "control"
    BY <2>1 DEF TypeOK
  <2> QED BY <2>1, <2>2 DEF TypeOK
<1> QED BY <1>1, <1>3, <1>4, <1>5, <1>6, <1>7, SocketSteps

(* Only a dial opens a socket. *)
LEMMA OnlyDialsOpen ==
  ASSUME SInv, NEW c \in Calls, StepOf(c), NEW d \in Calls
  PROVE  /\ sock'[d] = "open" => sock[d] = "open" \/ (d = c /\ DialSucceeds(c))
         /\ csock'[d] = "open" => csock[d] = "open" \/ (d = c /\ ReconDialSucceeds(c))
<1> USE DEF SInv
<1>1. ASSUME NEW j \in Calls, NEW S \in SUBSET Slots, Empties(j, S)
      PROVE  (sock'[d] = "open" => sock[d] = "open") /\ (csock'[d] = "open" => csock[d] = "open")
  BY <1>1 DEF Empties
<1>2. ASSUME NEW j, NEW t, NEW own, Installs(j, t, own)
      PROVE  (sock'[d] = "open" => sock[d] = "open") /\ (csock'[d] = "open" => csock[d] = "open")
  BY <1>2 DEF Installs
<1>3. CASE DialSucceeds(c)
  BY <1>3 DEF DialSucceeds, TypeOK
<1>4. CASE StartAbort(c)
  BY <1>4 DEF StartAbort, CloseDialed, TypeOK
<1>5. CASE ConnectInstall(c)
  BY <1>5 DEF ConnectInstall, CloseDialed, TypeOK
<1>6. CASE StartInstall(c)
  BY <1>2, <1>6, StartInstallInstalls
<1>7. CASE ReconDialSucceeds(c)
  BY <1>7 DEF ReconDialSucceeds, TypeOK
<1>8. CASE ReconInstall(c)
  <2>1. CASE ReconGoto(c, "install", "check")
    <3>1. worker[c].conn \in Calls
      BY <2>1 DEF ReconGoto, LaunchedHaveReturned, Installed
    <3> QED BY <1>2, <1>8, <2>1, <3>1, ReconInstallInstalls
  <2>2. CASE csock' = [csock EXCEPT ![c] = "closed"] /\ UNCHANGED sock
    BY <2>2 DEF TypeOK
  <2>3. ReconGoto(c, "install", "check")
        \/ (csock' = [csock EXCEPT ![c] = "closed"] /\ UNCHANGED sock)
    BY <1>8 DEF ReconInstall
  <2> QED BY <2>1, <2>2, <2>3
<1>9. CASE ReconDiscard(c)
  BY <1>9 DEF ReconDiscard, TypeOK
<1>10. CASE UNCHANGED <<slot, sock, csock>>
  BY <1>10
<1> QED BY <1>1, <1>3, <1>4, <1>5, <1>6, <1>7, <1>8, <1>9, <1>10, SocketSteps

(* What is in the slot of such a Connection stays there, or is closed. *)
LEMMA SocketStays ==
  ASSUME SInv, OverwrittenAreLost, SlotsAreInstalled, NEW c \in Calls, StepOf(c),
         NEW d \in Calls, NEW k \in Calls, NEW s \in Slots, slot[k][s] = d, Held(k)
  PROVE  \/ slot'[k][s] = d /\ Held(k)'
         \/ IF s = "control" THEN csock'[d] = "closed" ELSE sock'[d] = "closed"
<1> USE DEF SInv
<1>1. CASE slot'[k][s] # d
  BY <1>1, EmptiedIsClosed
<1>2. CASE slot'[k][s] = d
  <2>1. ~(DisconnectClose(c) /\ k = call[c].conn)
    BY <1>2, DisconnectCloseEmpties, Basics DEF Empties
  <2> QED BY <1>2, <2>1, HeldStays
<1> QED BY <1>1, <1>2

(* A dialed socket is used, or closed. *)
LEMMA DialedIsUsed ==
  ASSUME SInv, NEW c \in Calls, StepOf(c), NEW d \in Calls, Pc(d) = "dialed",
         sock[d] = "open", sock'[d] = "open"
  PROVE  Pc(d)' = "dialed" \/ \E k \in Calls, s \in Streams : slot'[k][s] = d /\ Held(k)'
<1> USE DEF SInv
<1>0. \A e \in Calls : call[e].str \in Streams /\ call[e].str \in Slots
  BY DEF TypeOK, Slots
<1>1. CASE call'[d] = call[d]
  BY <1>1 DEF Pc
<1>2. CASE d = c /\ CallStep(c)
  <2>1. ConnectInstall(c) \/ StartAbort(c) \/ StartInstall(c)
    BY <1>2 DEF CallStep, CallBegins, CallContinues, ConnectEnter, ConnectAgain, DialSucceeds,
       ConnectFails, ConnectAnnounce, DisconnectEnter, DisconnectUnpublish, DisconnectClose,
       DisconnectJoin, StartEnter, StartJoin, StartFails, StopEnter, StopJoin, Fresh
  <2>2. ~CloseDialed(c)
    BY <1>2 DEF CloseDialed, TypeOK
  <2>3. CASE ConnectInstall(c)
    <3>1. conn' = c /\ slot' = [slot EXCEPT ![c]["speaker"] = c]
      BY <2>2, <2>3 DEF ConnectInstall
    <3>2. slot'[c]["speaker"] = c
      BY <3>1, Basics DEF TypeOK, Slots
    <3> QED BY <1>2, <3>1, <3>2, Basics DEF Held, Reachable
  <2>4. CASE StartInstall(c)
    <3>1. UNCHANGED conn /\ conn \in Calls
      BY <2>4, ConnectedHasConn DEF StartInstall, StillOwned
    <3>2. slot'[conn][call[c].str] = c
      BY <1>0, <1>2, <2>4, <3>1, StartInstallInstalls DEF Installs
    <3> QED BY <1>0, <1>2, <3>1, <3>2 DEF Held, Reachable
  <2> QED BY <2>1, <2>2, <2>3, <2>4 DEF StartAbort
<1>3. ~(d = c /\ ConnectAnnounce(c))
  BY DEF ConnectAnnounce
<1> QED BY <1>1, <1>2, <1>3, CallMoves

(* No stream socket is forgotten. *)
LEMMA SocketsStayHeld ==
  ASSUME SInv, OverwrittenAreLost, SlotsAreInstalled, NoSocketLeak, NEW c \in Calls, StepOf(c)
  PROVE  NoSocketLeak'
<1> USE DEF SInv
<1>1. ASSUME NEW d \in Calls, sock'[d] = "open"
      PROVE  Pc(d)' = "dialed" \/ \E k \in Calls, s \in Streams : slot'[k][s] = d /\ Held(k)'
  <2>1. CASE sock[d] = "open" /\ Pc(d) = "dialed"
    BY <1>1, <2>1, DialedIsUsed
  <2>2. CASE sock[d] = "open" /\ Pc(d) # "dialed"
    <3>1. PICK k \in Calls, s \in Streams : slot[k][s] = d /\ Held(k)
      BY <2>2 DEF NoSocketLeak, Held
    <3>2. s \in Slots /\ s # "control"
      BY DEF Slots, Streams
    <3> QED BY <1>1, <3>1, <3>2, SocketStays
  <2>3. CASE d = c /\ DialSucceeds(c)
    <3>1. call'[c].pc = "dialed"
      BY <2>3, GotoRecord DEF DialSucceeds
    <3> QED BY <2>3, <3>1 DEF Pc
  <2> QED BY <1>1, <2>1, <2>2, <2>3, OnlyDialsOpen
<1> QED BY <1>1 DEF NoSocketLeak, Held, Pc

(* No control socket is forgotten. *)
LEMMA ControlsStayHeld ==
  ASSUME SInv, OverwrittenAreLost, SlotsAreInstalled, OwnerHasWorker, NoControlLeak,
         NEW c \in Calls, StepOf(c)
  PROVE  NoControlLeak'
<1> USE DEF SInv
<1>0. "control" \in Slots
  BY DEF Slots
<1>1. ASSUME NEW d \in Calls, csock'[d] = "open"
      PROVE  recon'[d] \in {"install", "discard"}
             \/ \E k \in Calls : slot'[k]["control"] = d /\ Held(k)'
  <2>1. CASE csock[d] = "open" /\ recon[d] \notin {"install", "discard"}
    <3>1. PICK k \in Calls : slot[k]["control"] = d /\ Held(k)
      BY <2>1 DEF NoControlLeak, Held
    <3> QED BY <1>0, <1>1, <3>1, SocketStays
  <2>2. CASE recon[d] \in {"install", "discard"} /\ recon'[d] # recon[d]
    <3>1. d = c /\ ReconContinues(c)
      BY <2>2, ReconMoves
    <3>2. ReconInstall(c) \/ ReconDiscard(c)
      BY <2>2, <3>1 DEF ReconContinues, ReconClosePrevious, ReconDialSucceeds, ReconDialFails,
         ReconCheck, ReconRegister, ReconGoto
    <3>3. csock' # [csock EXCEPT ![c] = "closed"]
      BY <1>1, <3>1 DEF TypeOK
    <3>4. /\ ReconInstall(c) /\ controlOwner = c /\ ReconGoto(c, "install", "check")
          /\ UNCHANGED <<ctlVars, overwritten>>
      BY <3>2, <3>3 DEF ReconInstall, ReconDiscard
    <3>5. worker[c].conn \in {conn} \cup overwritten /\ UNCHANGED <<conn, overwritten>>
      BY <3>4, Basics DEF OwnerHasWorker, ctlVars
    <3>6. worker[c].conn \in Calls
      BY <3>4 DEF ReconGoto, LaunchedHaveReturned, Installed
    <3>7. slot'[worker[c].conn]["control"] = c
      BY <1>0, <3>4, <3>6, ReconInstallInstalls DEF Installs
    <3> QED BY <3>1, <3>5, <3>6, <3>7 DEF Held, Reachable
  <2>3. CASE d = c /\ ReconDialSucceeds(c)
    BY <2>3 DEF ReconDialSucceeds, ReconGoto, TypeOK
  <2>4. CASE recon[d] \in {"install", "discard"} /\ recon'[d] = recon[d]
    BY <2>4
  <2> QED BY <1>1, <2>1, <2>2, <2>3, <2>4, OnlyDialsOpen
<1> QED BY <1>1 DEF NoControlLeak, Held

-----------------------------------------------------------------------------
(* The invariant of sessions.                                              *)

(* Nothing has been started yet. *)
LEMMA InitCInv == Init => CInv
<1> SUFFICES ASSUME Init PROVE CInv
  OBVIOUS
<1>1. SInv
  BY InitSInv
<1>2. OverwrittenAreLost
  BY DEF Init, OverwrittenAreLost
<1>3. SlotsAreInstalled
  BY DEF Init, SlotsAreInstalled
<1>4. ActiveHasWorker
  BY DEF Init, ActiveHasWorker, Stopped
<1>5. OwnersInactive
  BY DEF Init, OwnersInactive, Owns, Joining, Starting, Pc, NoCall
<1>6. HubGens
  BY DEF Init, HubGens, Phase, NoWorker
<1>7. OwnerHasWorker /\ ControlOpen
  BY ControllerAssumption DEF Init, HubInit, OwnerHasWorker, ControlOpen
<1>8. NothingLeaks
  BY DEF Init, NothingLeaks, NoSocketLeak, NoControlLeak
<1> QED BY <1>1, <1>2, <1>3, <1>4, <1>5, <1>6, <1>7, <1>8 DEF CInv

(* Every step preserves it. *)
LEMMA StepCInv ==
  ASSUME CInv, [Next]_vars
  PROVE  CInv'
<1>1. SInv'
  BY StepSInv DEF CInv
<1>2. ASSUME NEW c \in Calls, StepOf(c)
      PROVE  CInv'
  <2> USE DEF CInv
  <2>1. OverwrittenAreLost'
    BY <1>2, OverwrittenStayLost
  <2>2. SlotsAreInstalled'
    BY <1>2, SlotsStayInstalled
  <2>3. ActiveHasWorker'
    BY <1>2, ActiveStaysCaptured
  <2>4. OwnersInactive'
    BY <1>2, OwnersStayInactive
  <2>5. HubGens'
    BY <1>2, HubGensStay
  <2>6. OwnerHasWorker'
    BY <1>2, OwnerKeepsWorker
  <2>7. ControlOpen'
    BY <1>2, ControlStaysOpen
  <2>8. NothingLeaks'
    BY <1>2, SocketsStayHeld, ControlsStayHeld DEF NothingLeaks
  <2> QED BY <1>1, <2>1, <2>2, <2>3, <2>4, <2>5, <2>6, <2>7, <2>8
<1>3. CASE UNCHANGED vars
  <2> QED BY <1>1, <1>3 DEF CInv, vars, ctlVars, netVars, procVars, hubVars, sessionVars, routeVars,
     OverwrittenAreLost, SlotsAreInstalled, ActiveHasWorker, Captures, OwnersInactive, HubGens,
     OwnerHasWorker, ControlOpen, HoldsControl, NothingLeaks, NoSocketLeak, NoControlLeak,
     Reachable, Installed, Settled, Owns, Joining, Starting, Pc, Phase
<1> QED BY <1>2, <1>3, NextIsAStep

(* However calls overlap and whatever fails, calls, workers, slots and the hub's session
   are tied together in every state. *)
THEOREM SessionsAreTied == Spec => []CInv
<1>1. Init => CInv
  BY InitCInv
<1>2. CInv /\ [Next]_vars => CInv'
  BY StepCInv
<1> QED BY <1>1, <1>2, PTL DEF Spec

(* So workers, streams, slots and the hub's session always agree: what is shown as
   active is captured, unless its worker's connection was overwritten by an overlapping
   Connect, a live control route writes to an open socket, and the hub's session has the
   worker that feeds it (controller.go:642-745). *)
THEOREM WorkersAndSessions == Spec => []WorkersMatchSessions
<1>1. CInv => WorkersMatchSessions
  <2> SUFFICES ASSUME CInv PROVE WorkersMatchSessions
    OBVIOUS
  <2> USE DEF CInv, SInv
  <2>1. ActiveIsCaptured
    BY Basics DEF ActiveHasWorker, Captures, ActiveIsCaptured, Alive, Phase
  <2>2. LiveRouteIsOpen
    BY DEF ControlOpen, HoldsControl, LiveRouteIsOpen
  <2>3. SessionHasWorker
    <3>1. controlOwner # None => controlOwner \in Calls
      BY DEF TypeOK
    <3> QED BY <3>1 DEF OwnerHasWorker, SessionHasWorker
  <2> QED BY <2>1, <2>2, <2>3 DEF PInv, WorkersMatchSessions
<1> QED BY <1>1, SessionsAreTied, PTL

(* And no socket is forgotten: every open one is in a slot of a Connection that will
   be closed, or its dialer has yet to check its session; but for the sockets of a
   Connection that an overlapping Connect has overwritten. *)
THEOREM SocketsAreNeverForgotten == Spec => []NothingLeaks
<1>1. CInv => NothingLeaks
  BY DEF CInv
<1> QED BY <1>1, SessionsAreTied, PTL

-----------------------------------------------------------------------------
(* Only Connects that overlap overwrite a Connection.                      *)

ConnectsOneAtATime == \A c, d \in Calls : Connecting(c) /\ Connecting(d) => c = d

(* A Connect on its own dials, and installs, only while there is no connection. *)
DialsUnconnected ==
  \A c \in Calls : Connecting(c) /\ Pc(c) \notin {"disconnect", "announce"} => ~connected

(* It stays so. *)
LEMMA DialsStayUnconnected ==
  ASSUME SInv, ConnectsOneAtATime, DialsUnconnected, NEW c \in Calls, StepOf(c)
  PROVE  DialsUnconnected'
<1> USE DEF SInv
<1>0. call \in [Calls -> CallType] /\ \A s \in Toggles : s \in Streams
  BY ControllerAssumption DEF TypeOK, CallType
<1>1. \A d \in Calls \ {c} : call'[d] = call[d]
  BY CallMoves
<1>2. Connecting(c)' => Connecting(c) \/ ConnectEnter(c)
  <2>1. CASE UNCHANGED call
    BY <2>1 DEF Connecting, InFlight, Pc
  <2>2. CASE ConnectAnnounce(c)
    BY <2>2, GotoRecord DEF ConnectAnnounce, Connecting, InFlight, Pc
  <2>3. CASE CallStep(c) /\ ~Settled(c) /\ Pc(c) # "idle"
              /\ call'[c].op = call[c].op
    BY <2>3 DEF Connecting, InFlight, Settled
  <2>4. CASE CallStep(c) /\ Pc(c) = "idle"
    <3>1. ASSUME NEW s \in Streams, StartEnter(c, s) \/ StopEnter(c, s)
          PROVE  call'[c].op \in {"on", "off"}
      BY <1>0, <3>1, StartEnterRecord, StopEnterRecord
    <3>2. DisconnectEnter(c) => call'[c].op = "disconnect"
      BY <1>0, <2>4, DisconnectEnterRecord
    <3>3. CallBegins(c)
      BY <2>4 DEF CallStep, CallContinues, ConnectAgain, DialSucceeds, ConnectFails,
         ConnectInstall, ConnectAnnounce, DisconnectUnpublish, DisconnectClose,
         DisconnectJoin, StartJoin, StartFails, StartAbort, StartInstall, StopJoin
    <3> QED BY <1>0, <3>1, <3>2, <3>3 DEF CallBegins, Connecting
  <2> QED BY <2>1, <2>2, <2>3, <2>4, CallMoves
<1>3. \A d \in Calls \ {c} : Connecting(d)' <=> Connecting(d)
  BY <1>1 DEF Connecting, InFlight, Pc
<1>4. connected' => connected \/ (ConnectInstall(c) /\ Pc(c) = "dialed" /\ connected')
  BY ConnMoves
<1>5. ASSUME NEW d \in Calls, Connecting(d)', Pc(d)' \notin {"disconnect", "announce"}, connected'
      PROVE  FALSE
  <2>1. CASE d # c
    <3>1. Connecting(d) /\ Pc(d) \notin {"disconnect", "announce"}
      BY <1>1, <1>3, <1>5, <2>1 DEF Pc
    <3>2. ~connected
      BY <3>1 DEF DialsUnconnected
    <3>3. Connecting(c)
      BY <1>4, <1>5, <3>2 DEF ConnectInstall, Connecting, InFlight
    <3> QED BY <2>1, <3>1, <3>3 DEF ConnectsOneAtATime
  <2>2. CASE d = c /\ ConnectInstall(c)
    <3>1. Goto(c, "announce") \/ Goto(c, "returned")
      BY <2>2 DEF ConnectInstall
    <3> QED BY <1>5, <2>2, <3>1, GotoRecord DEF Pc, Connecting, InFlight
  <2>3. CASE d = c /\ ~ConnectInstall(c)
    <3>1. connected
      BY <1>4, <1>5, <2>3
    <3>2. CASE ConnectEnter(c)
      <4>1. call'[c].pc = "disconnect"
        <5>1. call' = [call EXCEPT ![c] = [@ EXCEPT !.op = "connect", !.pc = "disconnect"]]
          BY <3>1, <3>2 DEF ConnectEnter
        <5>2. call'[c] = [call[c] EXCEPT !.op = "connect", !.pc = "disconnect"] /\ call[c] \in CallType
          BY <1>0, <5>1
        <5> QED BY <5>2 DEF CallType
      <4> QED BY <1>5, <2>3, <4>1 DEF Pc
    <3>3. CASE Connecting(c)
      <4>1. Pc(c) \in {"disconnect", "announce"}
        BY <3>1, <3>3 DEF DialsUnconnected
      <4>2. call'[c].op = "connect" /\ Pc(c)' # Pc(c)
        BY <1>5, <2>3, <4>1 DEF Connecting
      <4>3. CASE ConnectAnnounce(c)
        BY <1>5, <2>3, <4>3, GotoRecord DEF ConnectAnnounce, Connecting, InFlight, Pc
      <4>4. CASE CallStep(c) /\ Pc(c) = "disconnect"
        <5>1. DisconnectEnter(c) /\ ~connected'
          <6>1. DisconnectEnter(c)
            BY <4>4 DEF CallStep, CallBegins, CallContinues, ConnectEnter, ConnectAgain,
               DialSucceeds, ConnectFails, ConnectInstall, ConnectAnnounce,
               DisconnectUnpublish, DisconnectClose, DisconnectJoin, StartEnter, StartJoin,
               StartFails, StartAbort, StartInstall, StopEnter, StopJoin, Fresh
          <6> QED BY <3>1, <6>1 DEF DisconnectEnter
        <5> QED BY <1>5, <5>1
      <4>5. CallStep(c) => Pc(c) = "disconnect" \/ ConnectAnnounce(c)
        BY <4>1 DEF CallStep, CallBegins, CallContinues, ConnectEnter, ConnectAgain,
               DialSucceeds, ConnectFails, ConnectInstall, DisconnectEnter,
               DisconnectUnpublish, DisconnectClose, DisconnectJoin, StartEnter, StartJoin,
               StartFails, StartAbort, StartInstall, StopEnter, StopJoin, Fresh
      <4>6. ~UNCHANGED call
        BY <4>2 DEF Pc
      <4> QED BY <4>3, <4>4, <4>5, <4>6, CallMoves
    <3> QED BY <1>2, <1>5, <2>3, <3>2, <3>3
  <2> QED BY <2>1, <2>2, <2>3
<1> QED BY <1>5 DEF DialsUnconnected

(* So as long as Connects are made one at a time, the connection that a Connect finds is
   disconnected before another takes its place (controller.go:89), for any number of
   other calls and whatever fails. *)
THEOREM OnlyOverlappingConnectsOverwrite ==
  Spec /\ []ConnectsOneAtATime => []NoConnectionIsOverwritten
<1> DEFINE J == DialsUnconnected /\ NoConnectionIsOverwritten
<1>1. Init => J
  BY DEF Init, DialsUnconnected, NoConnectionIsOverwritten, Connecting, InFlight, Pc, NoCall
<1>2. CInv /\ ConnectsOneAtATime /\ J /\ [Next]_vars => J'
  <2> SUFFICES ASSUME CInv, ConnectsOneAtATime, J, [Next]_vars
               PROVE  J'
    OBVIOUS
  <2> USE DEF CInv
  <2>1. ASSUME NEW c \in Calls, StepOf(c)
        PROVE  J'
    <3>1. DialsUnconnected'
      BY <2>1, DialsStayUnconnected
    <3>2. ASSUME ConnectInstall(c), Pc(c) = "dialed"
          PROVE  conn = None
      <4>1. Connecting(c)
        BY <3>2 DEF ConnectInstall, Connecting, InFlight
      <4> QED BY <3>2, <4>1 DEF DialsUnconnected, OverwrittenAreLost
    <3>3. NoConnectionIsOverwritten'
      BY <2>1, <3>2, OverwrittenMoves DEF NoConnectionIsOverwritten
    <3> QED BY <3>1, <3>3
  <2>2. CASE UNCHANGED vars
    BY <2>2 DEF vars, ctlVars, procVars, DialsUnconnected, NoConnectionIsOverwritten,
       Connecting, InFlight, Pc
  <2> QED BY <2>1, <2>2, NextIsAStep
<1>3. J => NoConnectionIsOverwritten
  OBVIOUS
<1> HIDE DEF J
<1> QED BY <1>1, <1>2, <1>3, SessionsAreTied, PTL DEF Spec
=============================================================================
