----------------------------- MODULE ADBMonitor -----------------------------
(***************************************************************************)
(* The lease monitor of wireless ADB (internal/web/adb.go): while the host *)
(* sees the phone as an ADB device, a goroutine of the web server renews   *)
(* the phone's ADB lease every adbHeartbeatInterval.  HTTP handlers start  *)
(* and stop it, each in its own goroutine; a monitor is known by its       *)
(* number, and the cancel function that is stored is that of one monitor.  *)
(*                                                                         *)
(* A status is [ip, beat]: the phone it is about and whether               *)
(* shouldHeartbeatADB says to renew.  What the phone and the adb server    *)
(* answer is any value.  controller.Connect and Disconnect are modelled by *)
(* the calls of SetConnectionStatus they make (see ServerController).      *)
(***************************************************************************)
EXTENDS Naturals

CONSTANTS
  Phones,     \* IP addresses
  NoPhone,
  Handlers,   \* goroutines that serve HTTP requests
  Requests,   \* the requests they are sent
  MaxID       \* bound: starts and stops of a monitor

Ops == {"connect", "disconnect", "adbConnect", "adbDisconnect", "adbStatus"}

ASSUME ADBAssumption ==
  NoPhone \notin Phones /\ Requests \subseteq Ops /\ MaxID \in Nat

VARIABLES
  phone,       \* currentConn.Phone
  adb,         \* currentConn.ADB
  cancel,      \* adbMonitorCancel: the monitor it cancels, or 0
  monitorID,   \* adbMonitorID
  cancelled,   \* monitors whose context is done
  mon,         \* the monitors: where they are, the status they have queried
  hnd,         \* the handlers, likewise; "held" is the cancel function that
               \* stopADBMonitor has taken and not called yet
  epoch        \* history: how often the phone has changed

monitorVars == <<phone, adb, cancel, monitorID, cancelled, mon, hnd, epoch>>

IDs    == 1 .. MaxID
IPs    == Phones \cup {NoPhone}
NoStatus == [ip |-> NoPhone, beat |-> FALSE]

MonitorInit ==
  /\ phone = NoPhone
  /\ adb = NoStatus
  /\ cancel = 0
  /\ monitorID = 0
  /\ cancelled = {}
  /\ mon = [m \in IDs |-> [pc |-> "none", ip |-> NoPhone, beat |-> FALSE, epoch |-> 0]]
  /\ hnd = [h \in Handlers |-> [pc |-> "idle", op |-> "adbStatus", to |-> NoPhone,
                                ip |-> NoPhone, beat |-> FALSE, held |-> 0]]
  /\ epoch = 0

-----------------------------------------------------------------------------
(* The monitor: refreshADBLease in a loop.                                 *)

(* adbMonitorOwnsPhone; the same test guards setADBStatusForMonitor. *)
Owns(m) == monitorID = m /\ cancel # 0 /\ phone # NoPhone /\ phone = mon[m].ip

At(m, pc) == mon' = [mon EXCEPT ![m].pc = pc]

(* queryADBStatus reads the phone, asks it and the adb server, and the     *)
(* answer comes later.                                                     *)
Queries(m) ==
  /\ mon[m].pc = "refresh"
  /\ mon' = [mon EXCEPT ![m] = [pc |-> "query", ip |-> phone, beat |-> FALSE,
                                epoch |-> epoch]]
  /\ UNCHANGED <<phone, adb, cancel, monitorID, cancelled, hnd, epoch>>

AnsweredSkips(m) ==   \* mutant: who does not own the phone tries again later
  /\ mon[m].pc = "query"
  /\ \E beat \in IF mon[m].ip = NoPhone THEN {FALSE} ELSE BOOLEAN :
       mon' = [mon EXCEPT ![m] =
                [@ EXCEPT !.beat = beat,
                          !.pc = IF ~Owns(m) THEN "waiting"
                                 ELSE IF beat THEN "beating" ELSE "set"]]
  /\ UNCHANGED <<phone, adb, cancel, monitorID, cancelled, hnd, epoch>>

(* Without a phone there is nothing to renew; otherwise the lease is       *)
(* renewed if the answer says so.                                          *)
Answered(m) ==
  /\ mon[m].pc = "query"
  /\ \E beat \in IF mon[m].ip = NoPhone THEN {FALSE} ELSE BOOLEAN :
       mon' = [mon EXCEPT ![m] =
                [@ EXCEPT !.beat = beat,
                          !.pc = IF ~Owns(m) THEN "ending"
                                 ELSE IF beat THEN "beating" ELSE "set"]]
  /\ UNCHANGED <<phone, adb, cancel, monitorID, cancelled, hnd, epoch>>

(* The heartbeat has failed, or its answer is the status to store. *)
Renewed(m) ==
  /\ mon[m].pc = "beating"
  /\ \E beat \in BOOLEAN :
       mon' = [mon EXCEPT ![m] =
                [@ EXCEPT !.beat = beat,
                          !.pc = IF m \in cancelled \/ ~Owns(m) THEN "ending" ELSE "set"]]
  /\ UNCHANGED <<phone, adb, cancel, monitorID, cancelled, hnd, epoch>>

Sets(m) ==
  /\ mon[m].pc = "set"
  /\ adb' = IF Owns(m) THEN [ip |-> mon[m].ip, beat |-> mon[m].beat] ELSE adb
  /\ At(m, IF Owns(m) /\ mon[m].beat THEN "waiting" ELSE "ending")
  /\ UNCHANGED <<phone, cancel, monitorID, cancelled, hnd, epoch>>

(* The select between the context and the ticker. *)
Ticks(m) ==
  /\ mon[m].pc = "waiting"
  /\ At(m, "refresh")
  /\ UNCHANGED <<phone, adb, cancel, monitorID, cancelled, hnd, epoch>>

Leaves(m) ==
  /\ mon[m].pc = "waiting" /\ m \in cancelled
  /\ At(m, "over")
  /\ UNCHANGED <<phone, adb, cancel, monitorID, cancelled, hnd, epoch>>

(* finishADBMonitor *)
Finishes(m) ==
  /\ mon[m].pc = "ending"
  /\ cancel' = IF monitorID = m THEN 0 ELSE cancel
  /\ At(m, "over")
  /\ UNCHANGED <<phone, adb, monitorID, cancelled, hnd, epoch>>

MonitorStep(m) == \/ Queries(m) \/ Answered(m) \/ Renewed(m) \/ Sets(m)
                  \/ Ticks(m) \/ Leaves(m) \/ Finishes(m)

-----------------------------------------------------------------------------
(* The handlers.                                                           *)

Goes(h, pc) == hnd' = [hnd EXCEPT ![h].pc = pc]

(* Where a handler goes after its first stopADBMonitor, if it has one. *)
AfterStop(h) == CASE hnd[h].op = "connect"       -> "leave"
                  [] hnd[h].op = "disconnect"    -> "leave"
                  [] hnd[h].op = "adbDisconnect" -> "read"
                  [] hnd[h].op = "adbStatus"     -> "idle"

Request(h, op, p) ==
  /\ hnd[h].pc = "idle"
  /\ hnd' = [hnd EXCEPT ![h] = [pc |-> IF op \in {"adbConnect", "adbStatus"}
                                       THEN "read" ELSE "stop",
                                op |-> op, to |-> p, ip |-> NoPhone,
                                beat |-> FALSE, held |-> 0]]
  /\ UNCHANGED <<phone, adb, cancel, monitorID, cancelled, mon, epoch>>

(* stopADBMonitor: takes the cancel function under mu, calls it after. *)
StopMonitor(h) ==
  /\ hnd[h].pc = "stop"
  /\ monitorID < MaxID
  /\ hnd' = [hnd EXCEPT ![h] = [@ EXCEPT !.pc = "cancel", !.held = cancel]]
  /\ cancel' = 0
  /\ monitorID' = monitorID + 1
  /\ UNCHANGED <<phone, adb, cancelled, mon, epoch>>

CallCancel(h) ==
  /\ hnd[h].pc = "cancel"
  /\ cancelled' = IF hnd[h].held = 0 THEN cancelled ELSE cancelled \cup {hnd[h].held}
  /\ hnd' = [hnd EXCEPT ![h] = [@ EXCEPT !.pc = AfterStop(h), !.held = 0]]
  /\ UNCHANGED <<phone, adb, cancel, monitorID, mon, epoch>>

Becomes(p) == phone' = p /\ epoch' = IF p = phone THEN epoch ELSE epoch + 1

(* controller.Disconnect, by itself or at the start of controller.Connect; *)
(* handleDisconnect then resets the ADB status.                            *)
Disconnects(h) ==
  /\ hnd[h].pc = "leave"
  /\ Becomes(NoPhone)
  /\ Goes(h, IF hnd[h].op = "connect" THEN "dial" ELSE "reset")
  /\ UNCHANGED <<adb, cancel, monitorID, cancelled, mon>>

Dialed(h, ok) ==
  /\ hnd[h].pc = "dial"
  /\ IF ok THEN Becomes(hnd[h].to) ELSE UNCHANGED <<phone, epoch>>
  /\ Goes(h, IF ok THEN "read" ELSE "idle")
  /\ UNCHANGED <<adb, cancel, monitorID, cancelled, mon>>

ResetStatus(h) ==
  /\ hnd[h].pc = "reset"
  /\ adb' = NoStatus
  /\ Goes(h, "idle")
  /\ UNCHANGED <<phone, cancel, monitorID, cancelled, mon, epoch>>

(* The last queryADBStatus of connectADB, disconnectADB or of the handler  *)
(* reads the phone ...                                                     *)
Reads(h) ==
  /\ hnd[h].pc = "read"
  /\ hnd' = [hnd EXCEPT ![h] = [@ EXCEPT !.pc = "query", !.ip = phone]]
  /\ UNCHANGED <<phone, adb, cancel, monitorID, cancelled, mon, epoch>>

(* ... and setADBStatus stores what was answered.  connectADB may have     *)
(* failed; disconnectADB has disabled ADB on the phone.                    *)
SetsStatus(h, beat, ok) ==
  /\ hnd[h].pc = "query"
  /\ beat => hnd[h].ip # NoPhone /\ hnd[h].op # "adbDisconnect"
  /\ ok => hnd[h].ip # NoPhone
  /\ adb' = [ip |-> hnd[h].ip, beat |-> beat]
  /\ Goes(h, CASE hnd[h].op = "adbConnect"    -> IF ok THEN "start" ELSE "idle"
               [] hnd[h].op = "connect"       -> IF beat THEN "start" ELSE "idle"
               [] hnd[h].op = "adbStatus"     -> IF beat THEN "start" ELSE "stop"
               [] hnd[h].op = "adbDisconnect" -> "idle")
  /\ UNCHANGED <<phone, cancel, monitorID, cancelled, mon, epoch>>

StartAnyway(h) ==   \* mutant: does not look for a running monitor
  /\ hnd[h].pc = "start"
  /\ monitorID < MaxID
  /\ monitorID' = monitorID + 1
  /\ cancel' = monitorID + 1
  /\ mon' = [mon EXCEPT ![monitorID + 1].pc = "refresh"]
  /\ Goes(h, "idle")
  /\ UNCHANGED <<phone, adb, cancelled, epoch>>

StartMonitor(h) ==
  /\ hnd[h].pc = "start"
  /\ IF cancel # 0
     THEN UNCHANGED <<cancel, monitorID, mon>>
     ELSE /\ monitorID < MaxID
          /\ monitorID' = monitorID + 1
          /\ cancel' = monitorID + 1
          /\ mon' = [mon EXCEPT ![monitorID + 1].pc = "refresh"]
  /\ Goes(h, "idle")
  /\ UNCHANGED <<phone, adb, cancelled, epoch>>

HandlerStep(h) ==
  \/ \E op \in Requests, p \in Phones : Request(h, op, p)
  \/ StopMonitor(h) \/ CallCancel(h) \/ Disconnects(h) \/ ResetStatus(h)
  \/ \E ok \in BOOLEAN : Dialed(h, ok)
  \/ Reads(h) \/ StartMonitor(h)
  \/ \E beat, ok \in BOOLEAN : SetsStatus(h, beat, ok)

(* A request that the bound on the numbers keeps from going on. *)
Bounded == /\ \A h \in Handlers : hnd[h].pc \in {"stop", "start"}
           /\ monitorID = MaxID /\ UNCHANGED monitorVars

MonitorNext ==
  \/ \E m \in IDs : MonitorStep(m)
  \/ \E h \in Handlers : HandlerStep(h)
  \/ Bounded

MonitorSpec == MonitorInit /\ [][MonitorNext]_monitorVars
MonitorFairSpec == MonitorSpec /\ \A m \in IDs : WF_monitorVars(MonitorStep(m))

-----------------------------------------------------------------------------
(* Properties.                                                             *)

Monitors == [pc : {"none", "refresh", "query", "beating", "set", "waiting",
                   "ending", "over"},
             ip : IPs, beat : BOOLEAN, epoch : Nat]
Serving  == [pc : {"idle", "stop", "cancel", "leave", "dial", "reset", "read",
                   "query", "start"},
             op : Ops, to : IPs, ip : IPs, beat : BOOLEAN, held : 0 .. MaxID]

MonitorTypeOK ==
  /\ phone \in IPs
  /\ adb \in [ip : IPs, beat : BOOLEAN]
  /\ cancel \in 0 .. MaxID
  /\ monitorID \in 0 .. MaxID
  /\ cancelled \subseteq IDs
  /\ mon \in [IDs -> Monitors]
  /\ hnd \in [Handlers -> Serving]
  /\ epoch \in Nat

Running(m) == mon[m].pc \in {"refresh", "query", "beating", "set", "waiting"}

(* No monitor renews the lease that nobody can stop: its cancel function   *)
(* is the stored one, or a handler is about to call it.  So there is one   *)
(* monitor at a time, up to those being stopped.                           *)
RunningCanBeStopped ==
  \A m \in IDs : Running(m) /\ m \notin cancelled =>
    m = cancel \/ \E h \in Handlers : hnd[h].held = m

(* The cancel function of a monitor that has returned is never left        *)
(* behind: startADBMonitor, which does nothing while there is one, would   *)
(* never start a monitor again.                                            *)
NoDeadMonitorStored == cancel # 0 => Running(cancel) \/ mon[cancel].pc = "ending"

(* The stored cancel function is that of the one monitor that runs: none   *)
(* is lost while its monitor runs, and none outlives its monitor.          *)
CancelFollowsMonitor == MonitorTypeOK /\ RunningCanBeStopped /\ NoDeadMonitorStored

(* A monitor that has been stopped or replaced ends, even if its ticker    *)
(* wins the select against its context again and again.                    *)
ReplacedMonitorsEnd ==
  \A m \in IDs : (Running(m) /\ monitorID # m) ~> mon[m].pc = "over"

(* A promise that does not hold (README, Known deviations):                *)
(* "The dashboard lease monitor now synchronize[s] state across reconnects *)
(* without stale monitor updates" (CHANGELOG.md:62): the status a monitor  *)
(* is about to store was queried since the phone was last connected.       *)
NoStaleMonitorUpdate ==
  \A m \in IDs : mon[m].pc = "set" /\ Owns(m) => mon[m].epoch = epoch

(* A promise that does not hold (README, Known deviations):                *)
(* "Connected hosts keep ADB alive" (AllRelayService.kt:168): when the     *)
(* status says to renew the lease and no request is being served, there is *)
(* a monitor that does.                                                    *)
ConnectedHostRenews ==
  adb.beat /\ adb.ip = phone /\ (\A h \in Handlers : hnd[h].pc = "idle") =>
    \E m \in IDs : Running(m) /\ monitorID = m /\ cancel = m
=============================================================================
