-------------------------- MODULE ServerPartProofs --------------------------
(***************************************************************************)
(* The parts of the server beside its controller: the lease monitor of     *)
(* wireless ADB, a speaker session, and the feed of the viewers.  Each of  *)
(* them stands for itself; the proofs share nothing but the module.        *)
(***************************************************************************)
EXTENDS ADBMonitor, SpeakerCapture, ViewerFeed, TLAPS

-----------------------------------------------------------------------------
(***************************************************************************)
(* The safety of the lease monitor, for any number of phones, handlers and *)
(* starts.  RunningCanBeStopped is not inductive by itself: a handler that *)
(* takes the stored cancel function must not lose one it already holds     *)
(* (HeldOnce), and a new monitor's number must be one that no monitor and  *)
(* no cancel function has had (NumbersGrow).                               *)
(***************************************************************************)

(* The places at which the requests of each kind can be. *)
Routed ==
  \A h \in Handlers :
    /\ hnd[h].pc \in {"stop", "cancel"} => hnd[h].op # "adbConnect"
    /\ hnd[h].pc \in {"read", "query"} => hnd[h].op # "disconnect"
    /\ hnd[h].pc \in {"leave", "reset"} => hnd[h].op \in {"connect", "disconnect"}
    /\ hnd[h].pc = "dial" => hnd[h].op = "connect"

(* Only between the two halves of stopADBMonitor does a handler hold one.  *)
HeldOnce == \A h \in Handlers : hnd[h].pc # "cancel" => hnd[h].held = 0

(* The stored cancel function is the last monitor's; those held or called  *)
(* are of earlier ones; no monitor has a number that is still to come.     *)
NumbersGrow ==
  /\ cancel # 0 => cancel = monitorID
  /\ \A h \in Handlers : hnd[h].held # 0 => hnd[h].held < monitorID
  /\ \A m \in cancelled : m < monitorID
  /\ \A m \in IDs : mon[m].pc # "none" => m <= monitorID

MonitorInv == /\ MonitorTypeOK /\ Routed /\ HeldOnce /\ NumbersGrow
              /\ RunningCanBeStopped /\ NoDeadMonitorStored

-----------------------------------------------------------------------------

LEMMA InitInv == MonitorInit => MonitorInv
<1> SUFFICES ASSUME MonitorInit PROVE MonitorInv
  OBVIOUS
<1>1. MonitorTypeOK
  BY ADBAssumption DEF MonitorInit, MonitorTypeOK, IDs, IPs, NoStatus, Ops, Monitors, Serving
<1>2. HeldOnce /\ NumbersGrow /\ RunningCanBeStopped /\ NoDeadMonitorStored
  BY ADBAssumption DEF MonitorInit, HeldOnce, NumbersGrow, RunningCanBeStopped,
     NoDeadMonitorStored, Running, IDs
<1>3. Routed
  BY DEF MonitorInit, Routed
<1> QED BY <1>1, <1>2, <1>3 DEF MonitorInv

-----------------------------------------------------------------------------
(* Types.                                                                  *)

(* A monitor with an answer goes on to another place.                      *)
LEMMA AnsweredRecord ==
  ASSUME MonitorTypeOK, NEW m \in IDs, NEW beat \in BOOLEAN,
         NEW pc \in {"waiting", "ending", "beating", "set"},
         mon' = [mon EXCEPT ![m] = [@ EXCEPT !.beat = beat, !.pc = pc]]
  PROVE  mon' \in [IDs -> Monitors]
<1>1. mon[m] \in Monitors
  BY DEF MonitorTypeOK
<1>2. ASSUME NEW q \in Monitors PROVE [q EXCEPT !.beat = beat] \in Monitors
  BY DEF Monitors
<1>3. ASSUME NEW q \in Monitors PROVE [q EXCEPT !.pc = pc] \in Monitors
  BY DEF Monitors
<1>4. [mon[m] EXCEPT !.beat = beat, !.pc = pc] = [[mon[m] EXCEPT !.beat = beat] EXCEPT !.pc = pc]
  BY <1>1 DEF Monitors
<1>5. [mon[m] EXCEPT !.beat = beat, !.pc = pc] \in Monitors
  BY <1>1, <1>2, <1>3, <1>4
<1> QED BY <1>5 DEF MonitorTypeOK

LEMMA TypeMonitor ==
  ASSUME MonitorTypeOK, NEW m \in IDs, MonitorStep(m)
  PROVE  MonitorTypeOK'
<1>2. CASE Answered(m)
  <2>1. PICK beat \in BOOLEAN, pc \in {"waiting", "ending", "beating", "set"} :
          mon' = [mon EXCEPT ![m] = [@ EXCEPT !.beat = beat, !.pc = pc]]
    BY <1>2 DEF Answered
  <2> QED BY <1>2, <2>1, AnsweredRecord DEF Answered, MonitorTypeOK
<1>3. CASE Renewed(m)
  <2>1. PICK beat \in BOOLEAN, pc \in {"waiting", "ending", "beating", "set"} :
          mon' = [mon EXCEPT ![m] = [@ EXCEPT !.beat = beat, !.pc = pc]]
    BY <1>3 DEF Renewed
  <2> QED BY <1>3, <2>1, AnsweredRecord DEF Renewed, MonitorTypeOK
<1> USE ADBAssumption DEF MonitorTypeOK, IPs, Monitors
<1>1. CASE Queries(m)  BY <1>1 DEF Queries
<1>4. CASE Sets(m)     BY <1>4 DEF Sets, At
<1>5. CASE Ticks(m)    BY <1>5 DEF Ticks, At
<1>6. CASE Leaves(m)   BY <1>6 DEF Leaves, At
<1>7. CASE Finishes(m) BY <1>7 DEF Finishes, At
<1> QED BY <1>1, <1>2, <1>3, <1>4, <1>5, <1>6, <1>7 DEF MonitorStep

(* What a handler keeps of itself when it goes on to another place.        *)
LEMMA ServingStep ==
  ASSUME MonitorTypeOK, NEW h \in Handlers, NEW r \in Serving,
         hnd' = [hnd EXCEPT ![h] = r]
  PROVE  hnd' \in [Handlers -> Serving]
BY DEF MonitorTypeOK

LEMMA CalledRecord ==
  ASSUME NEW r \in Serving, NEW pc \in {"leave", "read", "idle"}
  PROVE  [r EXCEPT !.pc = pc, !.held = 0] \in Serving
<1>1. 0 \in 0 .. MaxID
  BY ADBAssumption
<1>2. [r EXCEPT !.pc = pc] \in Serving
  BY DEF Serving
<1>3. ASSUME NEW q \in Serving PROVE [q EXCEPT !.held = 0] \in Serving
  BY <1>1 DEF Serving
<1>4. [r EXCEPT !.pc = pc, !.held = 0] = [[r EXCEPT !.pc = pc] EXCEPT !.held = 0]
  BY DEF Serving
<1> QED BY <1>2, <1>3, <1>4

LEMMA TypeHandler ==
  ASSUME MonitorTypeOK, Routed, NEW h \in Handlers, HandlerStep(h)
  PROVE  MonitorTypeOK' /\ Routed'
<1> USE ADBAssumption DEF MonitorTypeOK, Routed, IPs
<1>1. ASSUME NEW op \in Requests, NEW p \in Phones, Request(h, op, p)
      PROVE  MonitorTypeOK' /\ Routed'
  BY <1>1 DEF Request, Ops, Serving
<1>2. CASE StopMonitor(h)
  <2>1. [hnd[h] EXCEPT !.pc = "cancel", !.held = cancel] \in Serving
    BY DEF Serving
  <2>2. hnd' \in [Handlers -> Serving]
    BY <1>2, <2>1, ServingStep DEF StopMonitor
  <2>3. Routed'
    BY <1>2 DEF StopMonitor, Serving
  <2> QED BY <1>2, <2>2, <2>3 DEF StopMonitor
<1>3. CASE CallCancel(h)
  <2>1. AfterStop(h) \in {"leave", "read", "idle"}
    BY <1>3 DEF CallCancel, AfterStop, Ops, Serving
  <2>2. /\ AfterStop(h) = "leave" => hnd[h].op \in {"connect", "disconnect"}
        /\ AfterStop(h) = "read" => hnd[h].op # "disconnect"
    BY <1>3 DEF CallCancel, AfterStop, Ops, Serving
  <2>3. cancelled' \subseteq IDs
    BY <1>3 DEF CallCancel, IDs, Serving
  <2>4. [hnd[h] EXCEPT !.pc = AfterStop(h), !.held = 0] \in Serving
    BY <2>1, CalledRecord
  <2>5. hnd' \in [Handlers -> Serving]
    BY <1>3, <2>4, ServingStep DEF CallCancel
  <2>6. Routed'
    BY <1>3, <2>1, <2>2 DEF CallCancel, Serving
  <2> QED BY <1>3, <2>3, <2>5, <2>6 DEF CallCancel
<1>4. CASE Disconnects(h)
  BY <1>4 DEF Disconnects, Becomes, Goes, Serving
<1>5. ASSUME NEW ok \in BOOLEAN, Dialed(h, ok) PROVE MonitorTypeOK' /\ Routed'
  BY <1>5 DEF Dialed, Becomes, Goes, Serving
<1>6. CASE ResetStatus(h)
  BY <1>6 DEF ResetStatus, Goes, NoStatus, Serving
<1>7. CASE Reads(h)
  BY <1>7, ZenonT(30) DEF Reads, Serving
<1>8. CASE StartMonitor(h)
  <2>1. cancel' \in 0 .. MaxID /\ monitorID' \in 0 .. MaxID
    BY <1>8 DEF StartMonitor
  <2>2. mon' \in [IDs -> Monitors]
    <3>1. CASE cancel # 0
      BY <1>8, <3>1 DEF StartMonitor
    <3>2. CASE cancel = 0
      <4>1. monitorID + 1 \in IDs
        BY <1>8, <3>2 DEF StartMonitor, IDs
      <4>2. [mon[monitorID + 1] EXCEPT !.pc = "refresh"] \in Monitors
        BY <4>1 DEF Monitors
      <4> QED BY <1>8, <3>2, <4>1, <4>2 DEF StartMonitor
    <3> QED BY <3>1, <3>2
  <2>3. hnd' \in [Handlers -> Serving] /\ Routed'
    BY <1>8 DEF StartMonitor, Goes, Serving
  <2> QED BY <1>8, <2>1, <2>2, <2>3 DEF StartMonitor
<1>9. ASSUME NEW beat \in BOOLEAN, NEW ok \in BOOLEAN, SetsStatus(h, beat, ok)
      PROVE  MonitorTypeOK' /\ Routed'
  <2>1. PICK pc \in {"start", "idle", "stop"} :
          /\ pc = "stop" => hnd[h].op = "adbStatus"
          /\ hnd' = [hnd EXCEPT ![h].pc = pc]
    <3> USE <1>9 DEF SetsStatus, Goes
    <3>1. CASE hnd[h].op = "adbConnect"
      BY <3>1
    <3>2. CASE hnd[h].op = "connect"
      BY <3>2
    <3>3. CASE hnd[h].op = "adbStatus"
      BY <3>3
    <3>4. CASE hnd[h].op = "adbDisconnect"
      BY <3>4
    <3> QED BY <3>1, <3>2, <3>3, <3>4 DEF Ops, Serving
  <2>2. adb' \in [ip : IPs, beat : BOOLEAN]
    BY <1>9 DEF SetsStatus, Serving
  <2>3. hnd' \in [Handlers -> Serving] /\ Routed'
    BY <2>1 DEF Serving
  <2> QED BY <1>9, <2>2, <2>3 DEF SetsStatus
<1> QED BY <1>1, <1>2, <1>3, <1>4, <1>5, <1>6, <1>7, <1>8, <1>9 DEF HandlerStep

-----------------------------------------------------------------------------
(* Cancel functions and numbers.                                           *)

StoredInv == HeldOnce /\ NumbersGrow /\ RunningCanBeStopped /\ NoDeadMonitorStored

(* A monitor goes round its loop, or to its end: nothing it shares changes. *)
LEMMA LoopInv ==
  ASSUME MonitorTypeOK, StoredInv, NEW m \in IDs, Running(m),
         mon' \in [IDs -> Monitors],
         \A n \in IDs \ {m} : mon'[n].pc = mon[n].pc,
         Running(m)' \/ mon'[m].pc = "ending",
         UNCHANGED <<cancel, monitorID, cancelled, hnd>>
  PROVE  StoredInv'
<1>1. HeldOnce' /\ NumbersGrow'
  BY DEF StoredInv, HeldOnce, NumbersGrow, Running
<1>2. RunningCanBeStopped'
  BY DEF StoredInv, RunningCanBeStopped, Running
<1>3. NoDeadMonitorStored'
  BY DEF StoredInv, NoDeadMonitorStored, Running, MonitorTypeOK, IDs
<1> QED BY <1>1, <1>2, <1>3 DEF StoredInv

(* The end of a monitor.  One that leaves because it was cancelled is not  *)
(* the stored one, since the stored number is above all cancelled ones;    *)
(* one that finishes clears the stored one if it is the last monitor.      *)
LEMMA EndInv ==
  ASSUME MonitorTypeOK, StoredInv, NEW m \in IDs, Leaves(m) \/ Finishes(m)
  PROVE  StoredInv'
<1> USE DEF StoredInv
<1>1. cancel' # m /\ (cancel' = cancel \/ cancel' = 0)
  BY DEF Leaves, Finishes, NumbersGrow, MonitorTypeOK, IDs
<1>2. /\ UNCHANGED <<monitorID, cancelled, hnd>>
      /\ \A n \in IDs \ {m} : mon'[n].pc = mon[n].pc
      /\ mon[m].pc \in {"waiting", "ending"} /\ mon'[m].pc = "over"
  BY DEF Leaves, Finishes, At, MonitorTypeOK, Monitors
<1>3. HeldOnce' /\ NumbersGrow'
  BY <1>1, <1>2 DEF HeldOnce, NumbersGrow
<1>4. NoDeadMonitorStored'
  BY <1>1, <1>2 DEF NoDeadMonitorStored, Running, MonitorTypeOK, IDs
<1>5. ASSUME NEW n \in IDs, Running(n)', n \notin cancelled'
      PROVE  n = cancel' \/ \E h \in Handlers : hnd'[h].held = n
  <2>1. Running(n) /\ n # m
    BY <1>2, <1>5 DEF Running
  <2>2. n = cancel \/ \E h \in Handlers : hnd[h].held = n
    BY <1>2, <1>5, <2>1 DEF RunningCanBeStopped
  <2>3. cancel = n => cancel' = n
    BY <2>1 DEF Leaves, Finishes, NumbersGrow, IDs
  <2> QED BY <1>2, <2>2, <2>3
<1> QED BY <1>3, <1>4, <1>5 DEF RunningCanBeStopped

LEMMA StoredMonitor ==
  ASSUME MonitorTypeOK, StoredInv, NEW m \in IDs, MonitorStep(m)
  PROVE  StoredInv'
<1>1. mon' \in [IDs -> Monitors]
  BY TypeMonitor DEF MonitorTypeOK
<1> USE DEF MonitorTypeOK, Monitors, Running
<1>2. CASE Queries(m)  BY <1>1, <1>2, LoopInv DEF Queries
<1>3. CASE Answered(m) BY <1>1, <1>3, LoopInv DEF Answered
<1>4. CASE Renewed(m)  BY <1>1, <1>4, LoopInv DEF Renewed, At
<1>5. CASE Sets(m)     BY <1>1, <1>5, LoopInv DEF Sets, At
<1>6. CASE Ticks(m)    BY <1>1, <1>6, LoopInv DEF Ticks, At
<1>7. CASE Leaves(m) \/ Finishes(m) BY <1>7, EndInv
<1> QED BY <1>2, <1>3, <1>4, <1>5, <1>6, <1>7 DEF MonitorStep

(* A step of a handler that takes, calls and starts nothing.               *)
LEMMA OtherHandler ==
  ASSUME MonitorTypeOK, StoredInv, NEW h \in Handlers,
         UNCHANGED <<cancel, monitorID, cancelled, mon>>,
         \A g \in Handlers \ {h} : hnd'[g] = hnd[g],
         hnd[h].held = 0, hnd'[h].held = 0
  PROVE  StoredInv'
<1>1. HeldOnce' /\ NumbersGrow' /\ NoDeadMonitorStored'
  BY DEF StoredInv, HeldOnce, NumbersGrow, NoDeadMonitorStored, Running
<1>2. RunningCanBeStopped'
  BY DEF StoredInv, RunningCanBeStopped, Running, IDs
<1> QED BY <1>1, <1>2 DEF StoredInv

LEMMA StopInv ==
  ASSUME MonitorTypeOK, StoredInv, NEW h \in Handlers, StopMonitor(h)
  PROVE  StoredInv'
<1> USE DEF StoredInv
<1>1. /\ hnd[h].held = 0 /\ hnd'[h].held = cancel /\ hnd'[h].pc = "cancel"
      /\ \A g \in Handlers \ {h} : hnd'[g] = hnd[g]
      /\ cancel' = 0 /\ monitorID' = monitorID + 1
      /\ UNCHANGED <<cancelled, mon>>
  BY DEF StopMonitor, HeldOnce, MonitorTypeOK, Serving
<1>2. HeldOnce'
  BY <1>1 DEF HeldOnce
<1>3. NumbersGrow'
  BY <1>1 DEF NumbersGrow, MonitorTypeOK, Serving, IDs
<1>4. NoDeadMonitorStored'
  BY <1>1 DEF NoDeadMonitorStored
<1>5. ASSUME NEW n \in IDs, Running(n)', n \notin cancelled'
      PROVE  \E g \in Handlers : hnd'[g].held = n
  <2>1. n = cancel \/ \E g \in Handlers : hnd[g].held = n
    BY <1>1, <1>5 DEF RunningCanBeStopped, Running
  <2>2. CASE n = cancel
    BY <1>1, <2>2
  <2>3. ASSUME NEW g \in Handlers, hnd[g].held = n
        PROVE  hnd'[g].held = n
    BY <1>1, <2>3 DEF IDs
  <2> QED BY <2>1, <2>2, <2>3
<1> QED BY <1>2, <1>3, <1>4, <1>5 DEF RunningCanBeStopped

LEMMA CallInv ==
  ASSUME MonitorTypeOK, StoredInv, NEW h \in Handlers, CallCancel(h)
  PROVE  StoredInv'
<1> USE DEF StoredInv
<1>1. /\ hnd'[h].held = 0
      /\ \A g \in Handlers \ {h} : hnd'[g] = hnd[g]
      /\ cancelled' = IF hnd[h].held = 0 THEN cancelled
                                         ELSE cancelled \cup {hnd[h].held}
      /\ UNCHANGED <<cancel, monitorID, mon>>
  BY DEF CallCancel, MonitorTypeOK, Serving
<1>2. HeldOnce'
  BY <1>1 DEF HeldOnce
<1>3. NumbersGrow'
  BY <1>1 DEF NumbersGrow
<1>4. NoDeadMonitorStored'
  BY <1>1 DEF NoDeadMonitorStored, Running
<1>5. ASSUME NEW n \in IDs, Running(n)', n \notin cancelled'
      PROVE  n = cancel' \/ \E g \in Handlers : hnd'[g].held = n
  <2>1. n = cancel \/ \E g \in Handlers : hnd[g].held = n
    BY <1>1, <1>5 DEF RunningCanBeStopped, Running
  <2>2. hnd[h].held # n
    BY <1>1, <1>5 DEF IDs
  <2> QED BY <1>1, <2>1, <2>2
<1> QED BY <1>2, <1>3, <1>4, <1>5 DEF RunningCanBeStopped

(* A new monitor gets a number that nothing has had, and only when no      *)
(* cancel function is stored.                                              *)
LEMMA StartInv ==
  ASSUME MonitorTypeOK, StoredInv, NEW h \in Handlers, StartMonitor(h)
  PROVE  StoredInv'
<1> USE DEF StoredInv
<1>1. /\ hnd[h].held = 0 /\ hnd'[h].held = 0
      /\ \A g \in Handlers \ {h} : hnd'[g] = hnd[g]
  BY DEF StartMonitor, Goes, HeldOnce, MonitorTypeOK, Serving
<1>2. CASE cancel # 0
  BY <1>1, <1>2, OtherHandler DEF StartMonitor
<1>3. CASE cancel = 0
  <2> DEFINE new == monitorID + 1
  <2>1. /\ monitorID < MaxID
        /\ cancel' = new /\ monitorID' = new
        /\ mon' = [mon EXCEPT ![new].pc = "refresh"]
        /\ UNCHANGED cancelled
    BY <1>3 DEF StartMonitor
  <2>2. new \in IDs /\ new > monitorID
    BY <2>1, ADBAssumption DEF MonitorTypeOK, IDs
  <2>3. /\ new \in IDs /\ new > monitorID
        /\ cancel' = new /\ monitorID' = new
        /\ mon'[new].pc = "refresh"
        /\ \A n \in IDs \ {new} : mon'[n] = mon[n]
        /\ UNCHANGED cancelled
    <3> HIDE DEF new
    <3> QED BY <2>1, <2>2 DEF MonitorTypeOK, Monitors
  <2>4. HeldOnce'
    BY <1>1 DEF HeldOnce
  <2>5. NumbersGrow'
    BY <1>1, <2>3 DEF NumbersGrow, MonitorTypeOK, Serving, IDs
  <2>6. NoDeadMonitorStored'
    BY <2>3 DEF NoDeadMonitorStored, Running
  <2>7. ASSUME NEW n \in IDs, Running(n)', n \notin cancelled'
        PROVE  n = cancel' \/ \E g \in Handlers : hnd'[g].held = n
    <3>1. CASE n = new
      BY <2>3, <3>1
    <3>2. CASE n # new
      <4>1. \E g \in Handlers : hnd[g].held = n
        BY <1>3, <2>3, <2>7, <3>2 DEF RunningCanBeStopped, Running, IDs
      <4> QED BY <1>1, <4>1 DEF IDs
    <3> QED BY <3>1, <3>2
  <2> QED BY <2>4, <2>5, <2>6, <2>7 DEF RunningCanBeStopped
<1> QED BY <1>2, <1>3

LEMMA StoredHandler ==
  ASSUME MonitorTypeOK, StoredInv, NEW h \in Handlers, HandlerStep(h)
  PROVE  StoredInv'
<1> USE DEF MonitorTypeOK, Serving, Goes
<1>1. hnd[h].pc # "cancel" => hnd[h].held = 0
  BY DEF StoredInv, HeldOnce
<1>2. CASE StopMonitor(h)  BY <1>2, StopInv
<1>3. CASE CallCancel(h)   BY <1>3, CallInv
<1>4. CASE StartMonitor(h) BY <1>4, StartInv
<1>5. ASSUME NEW op \in Requests, NEW p \in Phones, Request(h, op, p)
      PROVE  StoredInv'
  BY <1>1, <1>5, OtherHandler DEF Request
<1>6. CASE Disconnects(h)  BY <1>1, <1>6, OtherHandler DEF Disconnects
<1>7. CASE ResetStatus(h)  BY <1>1, <1>7, OtherHandler DEF ResetStatus
<1>8. CASE Reads(h)        BY <1>1, <1>8, OtherHandler DEF Reads
<1>9. ASSUME NEW ok \in BOOLEAN, Dialed(h, ok) PROVE StoredInv'
  BY <1>1, <1>9, OtherHandler DEF Dialed
<1>10. ASSUME NEW beat \in BOOLEAN, NEW ok \in BOOLEAN, SetsStatus(h, beat, ok)
       PROVE  StoredInv'
  BY <1>1, <1>10, OtherHandler DEF SetsStatus
<1> QED BY <1>2, <1>3, <1>4, <1>5, <1>6, <1>7, <1>8, <1>9, <1>10 DEF HandlerStep

-----------------------------------------------------------------------------
(* The theorems.                                                           *)

LEMMA NextInv == MonitorInv /\ [MonitorNext]_monitorVars => MonitorInv'
<1> SUFFICES ASSUME MonitorInv, [MonitorNext]_monitorVars PROVE MonitorInv'
  OBVIOUS
<1>1. MonitorTypeOK /\ Routed /\ StoredInv
  BY DEF MonitorInv, StoredInv
<1>2. ASSUME NEW m \in IDs, MonitorStep(m) PROVE MonitorInv'
  <2>1. hnd' = hnd
    BY <1>2 DEF MonitorStep, Queries, Answered, Renewed, Sets, Ticks, Leaves, Finishes
  <2>2. Routed'
    BY <1>1, <2>1 DEF Routed
  <2> QED BY <1>1, <1>2, <2>2, TypeMonitor, StoredMonitor DEF MonitorInv, StoredInv
<1>3. ASSUME NEW h \in Handlers, HandlerStep(h) PROVE MonitorInv'
  BY <1>1, <1>3, TypeHandler, StoredHandler DEF MonitorInv, StoredInv
<1>4. CASE UNCHANGED monitorVars
  BY <1>4 DEF monitorVars, MonitorInv, MonitorTypeOK, Routed, HeldOnce, NumbersGrow,
     RunningCanBeStopped, NoDeadMonitorStored, Running
<1> QED BY <1>2, <1>3, <1>4 DEF MonitorNext, Bounded

(* MonitorInv holds in every reachable state.                              *)
THEOREM MonitorInvariant == MonitorSpec => []MonitorInv
<1>1. MonitorInit => MonitorInv
  BY InitInv
<1> QED BY <1>1, NextInv, PTL DEF MonitorSpec

(* Every variable of the monitor keeps its type.                           *)
THEOREM MonitorTypeCorrect == MonitorSpec => []MonitorTypeOK
<1>1. MonitorInv => MonitorTypeOK
  BY DEF MonitorInv
<1> QED BY <1>1, MonitorInvariant, PTL

(* No monitor renews the lease of a phone that no request can stop, with   *)
(* any number of requests served at once.                                  *)
THEOREM MonitorCanBeStopped == MonitorSpec => []RunningCanBeStopped
<1>1. MonitorInv => RunningCanBeStopped
  BY DEF MonitorInv
<1> QED BY <1>1, MonitorInvariant, PTL

(* A monitor that has returned does not keep the next from being started.  *)
THEOREM MonitorNotDead == MonitorSpec => []NoDeadMonitorStored
<1>1. MonitorInv => NoDeadMonitorStored
  BY DEF MonitorInv
<1> QED BY <1>1, MonitorInvariant, PTL

(* The stored cancel function and the running monitor belong together, for *)
(* any number of handlers, phones and monitors.                            *)
THEOREM MonitorCancelFollows == MonitorSpec => []CancelFollowsMonitor
<1>1. MonitorInv => CancelFollowsMonitor
  BY DEF MonitorInv, CancelFollowsMonitor
<1> QED BY <1>1, MonitorInvariant, PTL

-----------------------------------------------------------------------------
(***************************************************************************)
(* Proofs that a speaker session keeps its queue the newest frames, never  *)
(* blocks its capture loop on the connection, returns alone, and           *)
(* implements RecentFeed, for every queue length and number of frames.     *)
(***************************************************************************)

(* The inductive invariant: between the frame in hand and the newest one   *)
(* there are only frames that have been queued, and the loop knows that    *)
(* the other goroutines have not started, or have ended.                   *)
HandIsBehind == inHand <= LastPut
Counted      == loop \in Queueing => frameCount >= 1
NotStarted   == loop = "head" => sender = "none"

SpeakerInv == /\ CaptureTypeOK /\ QueueIsNewest /\ NeverBlocksOnSend /\ ReturnsAlone
              /\ HandIsBehind /\ Counted /\ NotStarted

LEMMA SpeakerInit == CaptureInit => SpeakerInv
<1> SUFFICES ASSUME CaptureInit PROVE SpeakerInv
  OBVIOUS
<1>1. CaptureTypeOK
  <2>1. queue \in Seq(1 .. MaxFrames) /\ Len(queue) = 0
    BY DEF CaptureInit
  <2>2. loop \in Loops /\ sender \in Senders /\ pipe \in Pipes
        /\ ctxWatch \in Watches /\ fatalWatch \in Watches
    BY DEF CaptureInit, Loops, Senders, Watches, Pipes
  <2>3. open \in BOOLEAN /\ fatal \in BOOLEAN /\ ctxDone \in BOOLEAN
    BY DEF CaptureInit
  <2>4. frameCount \in 0 .. MaxFrames /\ inHand \in 0 .. MaxFrames
    BY SpeakerAssumption DEF CaptureInit
  <2>5. Len(queue) <= QueueFrames /\ conn \in {"up", "closed"}
    BY <2>1, SpeakerAssumption DEF CaptureInit
  <2> QED  BY <2>1, <2>2, <2>3, <2>4, <2>5 DEF CaptureTypeOK
<1>2. LastPut = 0
  BY DEF CaptureInit, LastPut, Queueing
<1>3. QueueIsNewest
  <2>1. Len(queue) = 0
    BY DEF CaptureInit
  <2> QED  BY <2>1 DEF CaptureInit, QueueIsNewest
<1>4. NeverBlocksOnSend /\ ReturnsAlone /\ Counted /\ NotStarted
  BY DEF CaptureInit, NeverBlocksOnSend, ReturnsAlone, Counted, NotStarted, Queueing
<1>5. HandIsBehind
  BY <1>2 DEF CaptureInit, HandIsBehind
<1> QED  BY <1>1, <1>3, <1>4, <1>5 DEF SpeakerInv

(* Appending the newest frame keeps the queue without a gap. *)
LEMMA AppendNewest ==
  ASSUME NEW q \in Seq(Nat), NEW n \in Nat, n >= 1, NEW h \in Nat, h <= n - 1,
         \A i \in 1 .. Len(q) : q[i] = n - 1 - Len(q) + i,
         q # <<>> => h < q[1]
  PROVE  LET r == Append(q, n) IN
         /\ Len(r) = Len(q) + 1
         /\ \A i \in 1 .. Len(r) : r[i] = n - Len(r) + i
         /\ h < r[1]
OBVIOUS

(* Taking the oldest frame keeps the rest without a gap, behind it. *)
LEMMA TailNewest ==
  ASSUME NEW q \in Seq(Nat), q # <<>>, NEW n \in Nat,
         \A i \in 1 .. Len(q) : q[i] = n - Len(q) + i
  PROVE  LET r == Tail(q) IN
         /\ Len(r) = Len(q) - 1
         /\ \A i \in 1 .. Len(r) : r[i] = n - Len(r) + i
         /\ q[1] <= n
         /\ r # <<>> => q[1] < r[1]
BY SMTT(30)

(* A step that leaves the frames alone and does not leave the queueing     *)
(* part of the loop disturbs nothing that is said about them.              *)
LEMMA FramesUntouched ==
  ASSUME SpeakerInv, UNCHANGED <<queue, frameCount, inHand>>,
         loop' \in Queueing <=> loop \in Queueing
  PROVE  QueueIsNewest' /\ HandIsBehind' /\ Counted'
BY DEF SpeakerInv, QueueIsNewest, HandIsBehind, Counted, LastPut

(* What the proofs below use of the types. *)
LEMMA Numbers ==
  ASSUME SpeakerInv
  PROVE  /\ queue \in Seq(Nat) /\ queue \in Seq(1 .. MaxFrames)
         /\ frameCount \in Nat /\ inHand \in Nat /\ LastPut \in Nat
         /\ MaxFrames \in Nat /\ QueueFrames \in Nat \ {0}
<1>1. queue \in Seq(Nat)
  BY SpeakerAssumption DEF SpeakerInv, CaptureTypeOK
<1> QED  BY <1>1, SpeakerAssumption DEF SpeakerInv, CaptureTypeOK, LastPut, Counted

(* The steps of the capture loop that move frames.                         *)

LEMMA ReadFrameKeeps == ASSUME SpeakerInv, ReadFrame PROVE SpeakerInv'
<1> USE Numbers DEF SpeakerInv
<1>1. LastPut' = LastPut /\ UNCHANGED <<queue, inHand>>
  BY DEF ReadFrame, LastPut, Queueing
<1>2. QueueIsNewest' /\ HandIsBehind'
  BY <1>1 DEF QueueIsNewest, HandIsBehind
<1>3. CaptureTypeOK'
  BY SpeakerAssumption DEF ReadFrame, CaptureTypeOK, watchVars, Loops, Queueing
<1>4. NeverBlocksOnSend' /\ ReturnsAlone' /\ Counted' /\ NotStarted'
  BY DEF ReadFrame, NeverBlocksOnSend, ReturnsAlone, Counted, NotStarted, Queueing
<1> QED  BY <1>2, <1>3, <1>4

LEMMA PutKeeps == ASSUME SpeakerInv, Put \/ PutAgain PROVE SpeakerInv'
<1> USE Numbers DEF SpeakerInv
<1>1. loop \in Queueing /\ frameCount >= 1 /\ LastPut = frameCount - 1
  BY DEF Put, PutAgain, Queueing, LastPut, Counted
<1>2. UNCHANGED <<frameCount, inHand, open, sender>>
  BY DEF Put, PutAgain
<1>3. CASE Len(queue) < QueueFrames
  <2>1. loop' = "read" /\ queue' = Append(queue, frameCount)
    BY <1>3 DEF Put, PutAgain
  <2>2. LastPut' = frameCount
    BY <2>1, <1>2 DEF LastPut, Queueing
  <2>3. /\ Len(queue') = Len(queue) + 1
        /\ \A i \in 1 .. Len(queue') : queue'[i] = frameCount - Len(queue') + i
        /\ inHand < queue'[1]
    BY <1>1, <2>1, AppendNewest DEF QueueIsNewest, HandIsBehind
  <2>4. QueueIsNewest' /\ HandIsBehind'
    BY <1>1, <1>2, <2>2, <2>3 DEF QueueIsNewest, HandIsBehind
  <2>5. frameCount \in 1 .. MaxFrames
    BY <1>1 DEF CaptureTypeOK
  <2>6. queue' \in Seq(1 .. MaxFrames)
    BY <2>1, <2>5 DEF CaptureTypeOK
  <2>7. CaptureTypeOK'
    BY <1>3, <2>1, <2>3, <2>6 DEF CaptureTypeOK, Put, PutAgain, watchVars, Loops
  <2>8. NeverBlocksOnSend' /\ ReturnsAlone' /\ Counted' /\ NotStarted'
    BY <2>1 DEF NeverBlocksOnSend, ReturnsAlone, Counted, NotStarted, Queueing
  <2> QED  BY <2>4, <2>7, <2>8
<1>4. CASE ~(Len(queue) < QueueFrames)
  <2>1. loop' = "full" /\ UNCHANGED queue
    BY <1>4 DEF Put, PutAgain, NeverBlocksOnSend
  <2>2. QueueIsNewest' /\ HandIsBehind' /\ Counted'
    BY <1>1, <1>2, <2>1, FramesUntouched DEF Queueing
  <2>3. CaptureTypeOK'
    BY <2>1 DEF CaptureTypeOK, Put, PutAgain, watchVars, Loops, Queueing
  <2>4. NeverBlocksOnSend' /\ ReturnsAlone' /\ NotStarted'
    BY <2>1 DEF NeverBlocksOnSend, ReturnsAlone, NotStarted
  <2> QED  BY <2>2, <2>3, <2>4
<1> QED  BY <1>3, <1>4

LEMMA DropOldestKeeps == ASSUME SpeakerInv, DropOldest PROVE SpeakerInv'
<1> USE Numbers DEF SpeakerInv
<1>1. /\ loop = "full" /\ loop' \in {"room", "retry"}
      /\ UNCHANGED <<frameCount, inHand, open, sender>>
  BY DEF DropOldest
<1>2. LastPut' = LastPut
  BY <1>1 DEF LastPut, Queueing
<1>3. CASE queue = <<>>
  <2>1. UNCHANGED queue /\ Len(queue) = 0
    BY <1>3 DEF DropOldest
  <2>2. QueueIsNewest' /\ HandIsBehind' /\ Counted'
    BY <1>1, <2>1, FramesUntouched DEF Queueing
  <2>3. NeverBlocksOnSend'
    BY <2>1 DEF NeverBlocksOnSend
  <2>4. CaptureTypeOK'
    BY <1>1, <2>1 DEF CaptureTypeOK, DropOldest, watchVars, Loops, Queueing
  <2> QED  BY <1>1, <2>2, <2>3, <2>4 DEF ReturnsAlone, NotStarted
<1>4. CASE queue # <<>>
  <2>1. queue' = Tail(queue)
    BY <1>4 DEF DropOldest
  <2>2. /\ Len(queue') = Len(queue) - 1
        /\ \A i \in 1 .. Len(queue') : queue'[i] = LastPut - Len(queue') + i
        /\ queue[1] <= LastPut
        /\ queue' # <<>> => queue[1] < queue'[1]
    BY <1>4, <2>1, TailNewest DEF QueueIsNewest
  <2>3. queue[1] \in Nat /\ (queue' # <<>> => queue'[1] \in Nat)
    BY <1>4, <2>1, SMTT(30)
  <2>4. QueueIsNewest' /\ HandIsBehind'
    BY <1>1, <1>2, <1>4, <2>2, <2>3 DEF QueueIsNewest, HandIsBehind
  <2>5. NeverBlocksOnSend' /\ Counted'
    BY <1>1, <2>2 DEF NeverBlocksOnSend, Counted, Queueing, CaptureTypeOK
  <2>6. queue' \in Seq(1 .. MaxFrames)
    BY <1>4, <2>1
  <2>7. CaptureTypeOK'
    BY <1>1, <2>2, <2>6 DEF CaptureTypeOK, DropOldest, watchVars, Loops, Queueing
  <2> QED  BY <1>1, <2>4, <2>5, <2>7 DEF ReturnsAlone, NotStarted
<1> QED  BY <1>3, <1>4

LEMMA TakeKeeps == ASSUME SpeakerInv, Take \/ Drain PROVE SpeakerInv'
<1> USE Numbers DEF SpeakerInv
<1>1. /\ queue # <<>> /\ queue' = Tail(queue)
      /\ UNCHANGED <<loop, frameCount>>
      /\ inHand' = queue[1] \/ inHand' = inHand
      /\ sender \in {"take", "drain"} /\ sender' \in {"write", "drain"}
  BY DEF Take, Drain, loopVars
<1>2. LastPut' = LastPut
  BY <1>1 DEF LastPut
<1>3. /\ Len(queue') = Len(queue) - 1
      /\ \A i \in 1 .. Len(queue') : queue'[i] = LastPut - Len(queue') + i
      /\ queue[1] <= LastPut
      /\ queue' # <<>> => queue[1] < queue'[1]
  BY <1>1, TailNewest DEF QueueIsNewest
<1>4. queue[1] \in 1 .. MaxFrames /\ (queue' # <<>> => queue'[1] \in Nat)
  BY <1>1, SMTT(30)
<1>5. QueueIsNewest' /\ HandIsBehind'
  <2>1. inHand < queue[1] /\ inHand <= LastPut
    BY <1>1 DEF QueueIsNewest, HandIsBehind
  <2>2. inHand' <= queue[1]
    BY <1>1, <1>4, <2>1
  <2>3. queue' # <<>> => inHand' < queue'[1]
    BY <1>1, <1>3, <1>4, <2>1, <2>2, SMTT(30)
  <2>4. inHand' <= LastPut
    BY <1>1, <1>3, <2>1
  <2> QED  BY <1>2, <1>3, <2>3, <2>4 DEF QueueIsNewest, HandIsBehind
<1>6. queue' \in Seq(1 .. MaxFrames)
  BY <1>1
<1>7. CaptureTypeOK'
  <2>1. inHand' \in 0 .. MaxFrames
    BY <1>1, <1>4 DEF CaptureTypeOK
  <2>2. UNCHANGED <<loopVars, open, watchVars, fatal, pipe, ctxDone, conn>>
    BY DEF Take, Drain
  <2>3. Len(queue') <= QueueFrames
    BY <1>1, <1>3, <1>6 DEF CaptureTypeOK
  <2>4. sender' \in Senders
    BY <1>1 DEF Senders
  <2>5. /\ loop' \in Loops /\ frameCount' \in 0 .. MaxFrames /\ open' \in BOOLEAN
        /\ ctxWatch' \in Watches /\ fatalWatch' \in Watches /\ fatal' \in BOOLEAN
        /\ pipe' \in Pipes /\ ctxDone' \in BOOLEAN /\ conn' \in {"up", "closed"}
    BY <2>2 DEF CaptureTypeOK, loopVars, watchVars
  <2> QED  BY <1>6, <2>1, <2>3, <2>4, <2>5 DEF CaptureTypeOK
<1>8. NeverBlocksOnSend'
  BY <1>1, <1>3 DEF NeverBlocksOnSend, CaptureTypeOK
<1> QED  BY <1>1, <1>5, <1>7, <1>8 DEF ReturnsAlone, Counted, NotStarted

(* The others move no frame: they are judged by where the goroutines are.  *)

LEMMA LoopKeeps ==
  ASSUME SpeakerInv,
         \/ \E ok \in BOOLEAN : SendHead(ok)
         \/ \E encode \in BOOLEAN : Breaks(encode)
         \/ CloseQueue \/ Join \/ Defers \/ Returns
  PROVE  SpeakerInv'
<1> USE DEF SpeakerInv
<1>1. /\ UNCHANGED <<queue, frameCount, inHand>>
      /\ loop \notin Queueing /\ loop' \notin Queueing
      /\ loop' # "head"
  BY DEF SendHead, Breaks, CloseQueue, Join, Defers, Returns, Queueing
<1>2. QueueIsNewest' /\ HandIsBehind' /\ Counted'
  BY <1>1, FramesUntouched
<1>3. CaptureTypeOK'
  <2>1. /\ loop' \in Loops /\ sender' \in Senders /\ pipe' \in Pipes
        /\ ctxWatch' \in Watches /\ fatalWatch' \in Watches
    BY DEF CaptureTypeOK, SendHead, Breaks, CloseQueue, Join, Defers, Returns,
           watchVars, Loops, Senders, Watches, Pipes, ClosePipe
  <2>2. UNCHANGED <<fatal, conn>> /\ open' \in BOOLEAN /\ ctxDone' \in BOOLEAN
    BY DEF CaptureTypeOK, SendHead, Breaks, CloseQueue, Join, Defers, Returns
  <2> QED  BY <1>1, <2>1, <2>2 DEF CaptureTypeOK
<1>4. ReturnsAlone'
  BY DEF ReturnsAlone, NotStarted, SendHead, Breaks, CloseQueue, Join, Defers,
         Returns
<1>5. NeverBlocksOnSend' /\ NotStarted'
  BY <1>1 DEF NeverBlocksOnSend, NotStarted, Queueing
<1> QED  BY <1>2, <1>3, <1>4, <1>5

LEMMA SenderKeeps ==
  ASSUME SpeakerInv, WriteFails \/ SenderEnds \/ Written
  PROVE  SpeakerInv'
<1> USE DEF SpeakerInv
<1>1. /\ UNCHANGED <<loop, queue, frameCount, inHand>>
      /\ sender \notin {"none", "over"}
  BY DEF WriteFails, SenderEnds, Written, loopVars
<1>2. QueueIsNewest' /\ HandIsBehind' /\ Counted'
  BY <1>1, FramesUntouched
<1>3. CaptureTypeOK'
  BY <1>1 DEF CaptureTypeOK, WriteFails, SenderEnds, Written, loopVars, watchVars, Senders
<1> QED  BY <1>1, <1>2, <1>3 DEF NeverBlocksOnSend, ReturnsAlone, NotStarted

LEMMA OthersKeep ==
  ASSUME SpeakerInv,
         \/ ContextDone \/ FatalSeen \/ FFmpegExits \/ Reaped
         \/ Cancel \/ CloseStream \/ Over \/ UNCHANGED captureVars
  PROVE  SpeakerInv'
<1> USE DEF SpeakerInv
<1>1. UNCHANGED <<loop, sender, queue, frameCount, inHand>>
  BY DEF ContextDone, FatalSeen, FFmpegExits, Reaped, Cancel, CloseStream, Over,
         captureVars, loopVars
<1>2. QueueIsNewest' /\ HandIsBehind' /\ Counted'
  BY <1>1, FramesUntouched
<1>3. CaptureTypeOK'
  BY <1>1, ZenonT(30) DEF CaptureTypeOK, ContextDone, FatalSeen, FFmpegExits, Reaped, Cancel,
              CloseStream, Over, captureVars, loopVars, watchVars, Watches, Pipes, ClosePipe
<1> QED  BY <1>1, <1>2, <1>3 DEF NeverBlocksOnSend, ReturnsAlone, NotStarted

LEMMA SpeakerStep == SpeakerInv /\ [CaptureNext]_captureVars => SpeakerInv'
<1> SUFFICES ASSUME SpeakerInv, [CaptureNext]_captureVars PROVE SpeakerInv'
  OBVIOUS
<1>1. CASE LoopStep
  BY <1>1, LoopKeeps, ReadFrameKeeps, PutKeeps, DropOldestKeeps DEF LoopStep
<1>2. CASE SenderStep \/ Written
  BY <1>2, SenderKeeps, TakeKeeps DEF SenderStep
<1>3. CASE \/ ContextDone \/ FatalSeen \/ FFmpegExits \/ Reaped
            \/ Cancel \/ CloseStream \/ Over \/ UNCHANGED captureVars
  BY <1>3, OthersKeep
<1> QED  BY <1>1, <1>2, <1>3 DEF CaptureNext

-----------------------------------------------------------------------------

(* The inductive invariant holds in every reachable state of a session.    *)
THEOREM SpeakerInvariant == CaptureSpec => []SpeakerInv
BY SpeakerInit, SpeakerStep, PTL DEF CaptureSpec

(* Every variable keeps its type, and the queue its length: a phone that   *)
(* does not read cannot make the server hold more than QueueFrames frames. *)
THEOREM SpeakerTypeCorrect == CaptureSpec => []CaptureTypeOK
<1>1. SpeakerInv => CaptureTypeOK
  BY DEF SpeakerInv
<1> QED  BY <1>1, SpeakerInvariant, PTL

(* What waits to be sent is the newest audio, without a gap.               *)
THEOREM SpeakerQueueIsNewest == CaptureSpec => []QueueIsNewest
<1>1. SpeakerInv => QueueIsNewest
  BY DEF SpeakerInv
<1> QED  BY <1>1, SpeakerInvariant, PTL

(* The capture loop never waits for the connection and never gives up the  *)
(* newest frame: the innermost default of its select is dead code.         *)
THEOREM SpeakerNeverBlocks == CaptureSpec => []NeverBlocksOnSend
<1>1. SpeakerInv => NeverBlocksOnSend
  BY DEF SpeakerInv
<1> QED  BY <1>1, SpeakerInvariant, PTL

(* When the deferred calls run, nothing is being written to the phone.     *)
THEOREM SpeakerReturnsAlone == CaptureSpec => []ReturnsAlone
<1>1. SpeakerInv => ReturnsAlone
  BY DEF SpeakerInv
<1> QED  BY <1>1, SpeakerInvariant, PTL

(* A step of the session hands the phone a newer frame that is at most     *)
(* QueueFrames behind, captures one, or does neither.                      *)
LEMMA FeedStep ==
  SpeakerInv /\ [CaptureNext]_captureVars => [Feed!Next]_<<frameCount, inHand>>
<1> SUFFICES ASSUME SpeakerInv, [CaptureNext]_captureVars
             PROVE  [Feed!Next]_<<frameCount, inHand>>
  OBVIOUS
<1>1. CASE ReadFrame
  BY <1>1 DEF ReadFrame, Feed!Next, Feed!Capture
<1>2. CASE Take
  <2>1. /\ queue # <<>> /\ inHand' = queue[1] /\ frameCount' = frameCount
    BY <1>2 DEF Take, loopVars
  <2>2. queue[1] = LastPut - Len(queue) + 1 /\ inHand < queue[1]
    BY <2>1, Numbers DEF SpeakerInv, QueueIsNewest
  <2>3. LastPut <= frameCount /\ frameCount <= LastPut + 1
    BY Numbers DEF LastPut
  <2>4. Len(queue) \in 1 .. QueueFrames
    BY <2>1, Numbers DEF SpeakerInv, CaptureTypeOK
  <2>5. inHand \in Nat /\ frameCount \in Nat /\ QueueFrames \in Nat
    BY Numbers
  <2>6. PICK h \in Nat, n \in Nat, w \in Nat : h = inHand /\ n = frameCount /\ w = QueueFrames
    BY <2>5
  <2>7. PICK p \in Nat, k \in Nat : p = LastPut /\ k = Len(queue) /\ k >= 1 /\ k <= w
    BY <2>3, <2>4, <2>6, Numbers
  <2>8. inHand' = p - k + 1 /\ h < p - k + 1 /\ p <= n /\ n <= p + 1
    BY <2>1, <2>2, <2>3, <2>6, <2>7
  <2>9. p - k + 1 \in h + 1 .. n /\ n <= (p - k + 1) + w
    BY <2>6, <2>7, <2>8
  <2> QED  BY <2>1, <2>6, <2>8, <2>9 DEF Feed!Next, Feed!Give
<1>3. CASE UNCHANGED <<frameCount, inHand>>
  BY <1>3
<1>4. ReadFrame \/ Take \/ UNCHANGED <<frameCount, inHand>>
  BY DEF CaptureNext, LoopStep, SendHead, Breaks, Put, DropOldest, PutAgain, CloseQueue,
         Join, Defers, Returns, SenderStep, WriteFails, Drain, SenderEnds, Written,
         ContextDone, FatalSeen, FFmpegExits, Reaped, Cancel, CloseStream, Over,
         captureVars, loopVars
<1> QED  BY <1>1, <1>2, <1>3, <1>4

(* A speaker session implements RecentFeed: whatever the connection does,  *)
(* the phone is given the frames in order and never old ones.              *)
THEOREM SpeakerImplementsFeed == CaptureSpec => FeedSpec
<1>1. CaptureInit => Feed!Init
  BY DEF CaptureInit, Feed!Init
<1> QED  BY <1>1, FeedStep, SpeakerInvariant, PTL DEF CaptureSpec, FeedSpec, Feed!Spec

-----------------------------------------------------------------------------
(***************************************************************************)
(* The feed of the viewers, for any number of viewers, publishers, queue   *)
(* lengths and sessions.  What a viewer gets is followed from where an     *)
(* event comes from: the events published are ordered by the session and   *)
(* header they carry, and the hub is at the last one or at the next        *)
(* (EventsGrow); Hub.broadcast holds those that Run has not taken, in that *)
(* order (ChannelGrows); and a viewer that is registered and not closed    *)
(* has been written, or has in its queue, those that Run has taken since   *)
(* it came in (ViewersTold).  Put together, nothing is missing, twice or   *)
(* out of order.  A full queue closes its client, so it owes it nothing    *)
(* more.                                                                   *)
(***************************************************************************)

(* The messages of the broadcast channel. *)
Queued == [kind : {"status", "session"}, on : BOOLEAN, id : Stamps, replay : {EmptyReplay}]

(* The types of the hub's loop and of the clients' goroutines, and what    *)
(* they owe each other: a client that Run has received is registered, is   *)
(* being registered or torn down, or is closed; and no slow client is left *)
(* over when Run ends.                                                     *)
Goroutines ==
  /\ pub \in [Publishers -> {"idle", "on", "off"}]
  /\ run \in {"loop", "stop", "stopped"}
  /\ adding \in Clients \cup {NoClient}
  /\ slow \subseteq Clients /\ clients \subseteq Clients
  /\ phase \in [Clients -> {"none", "register", "greet", "on", "off", "up"}]
  /\ leaving \subseteq closed /\ closed \subseteq Clients

Registered ==
  /\ run = "stopped" => clients = {} /\ adding = NoClient /\ slow = {}
  /\ \A c \in Clients : phase[c] \in {"greet", "on", "off", "up"} =>
       c \in clients \cup slow \cup closed \cup {adding}

Pages ==
  /\ asks \in [Clients -> 0 .. MaxAsks]
  /\ page \in [Clients -> [on : BOOLEAN, asked : BOOLEAN]]
  /\ encoder \in {"none", "header", "config", "key"}

(* The session events grow, up to the session and header the hub is at;    *)
(* the one that waits for room is the next.                                *)
EventsGrow ==
  /\ waiting \in Seq(Queued) /\ Len(waiting) <= 1
  /\ published \in Seq(Stamps)
  /\ \A i, j \in 1 .. Len(published) : i < j => Earlier(published[i], published[j])
  /\ \A i \in 1 .. Len(published) : Before(published[i], Stamp)
  /\ waiting # <<>> =>
       /\ waiting[1] = Session(Stamp)
       /\ \A i \in 1 .. Len(published) : Earlier(published[i], Stamp)

FramesGrow ==
  /\ bin \in [Clients -> Seq([kind : Kinds, id : Stamps])]
  /\ \A c \in Clients : /\ Len(bin[c]) <= BinCap
                        /\ \A i \in 1 .. Len(bin[c]) : Before(bin[c][i].id, Stamp)
  /\ FramesInOrder

(* Stamps are ordered, by session and then by header.                      *)
LEMMA StampsAre ==
  ASSUME NEW a \in Stamps, NEW b \in Stamps, NEW c \in Stamps
  PROVE  /\ Before(a, a) /\ ~Earlier(a, a)
         /\ Before(a, b) /\ Before(b, c) => Before(a, c)
         /\ Earlier(a, b) /\ Before(b, c) => Earlier(a, c)
         /\ Before(a, b) /\ Earlier(b, c) => Earlier(a, c)
         /\ Earlier(a, b) => Before(a, b) /\ ~Before(b, a)
<1>1. PICK x \in 0 .. MaxGeneration, y \in 0 .. MaxHeaders : a = <<x, y>>
  BY DEF Stamps
<1>2. PICK u \in 0 .. MaxGeneration, v \in 0 .. MaxHeaders : b = <<u, v>>
  BY DEF Stamps
<1>3. PICK w \in 0 .. MaxGeneration, z \in 0 .. MaxHeaders : c = <<w, z>>
  BY DEF Stamps
<1>4. /\ Before(a, b) <=> x < u \/ (x = u /\ y <= v)
      /\ Before(b, c) <=> u < w \/ (u = w /\ v <= z)
      /\ Before(a, c) <=> x < w \/ (x = w /\ y <= z)
      /\ Before(b, a) <=> u < x \/ (x = u /\ v <= y)
      /\ Before(a, a) <=> x < x \/ (x = x /\ y <= y)
  BY <1>1, <1>2, <1>3 DEF Before
<1>5. /\ a = b <=> x = u /\ y = v
      /\ b = c <=> u = w /\ v = z
      /\ a = c <=> x = w /\ y = z
  BY <1>1, <1>2, <1>3
<1>6. x \in Nat /\ y \in Nat /\ u \in Nat /\ v \in Nat /\ w \in Nat /\ z \in Nat
  BY HubAssumption
<1> HIDE DEF Before
<1>7. Before(a, a) /\ (Before(a, b) /\ Before(b, c) => Before(a, c))
  BY <1>4, <1>6
<1>8. Before(a, b) /\ Before(b, c) /\ a = c => a = b
  BY <1>4, <1>5, <1>6
<1>9. Before(a, b) /\ Before(b, a) => a = b
  BY <1>4, <1>5, <1>6
<1> QED BY <1>7, <1>8, <1>9 DEF Earlier

(* The stamp of the session and header the hub is at is one.               *)
LEMMA StampIs == HubTypeOK => Stamp \in Stamps
BY DEF HubTypeOK, Stamp, Stamps

(* A new session or a new header has a later stamp.                        *)
LEMMA NewStamps ==
  ASSUME HubTypeOK,
         (screenGeneration' = screenGeneration + 1 /\ headers' = 0)
           \/ (screenGeneration' = screenGeneration /\ headers' = headers + 1),
         screenGeneration' <= MaxGeneration, headers' <= MaxHeaders
  PROVE  Stamp' \in Stamps /\ Earlier(Stamp, Stamp')
<1>1. PICK x \in Nat, y \in Nat : x = screenGeneration /\ y = headers
  BY HubAssumption DEF HubTypeOK
<1>2. Stamp = <<x, y>> /\ (Stamp' = <<x + 1, 0>> \/ Stamp' = <<x, y + 1>>)
  BY <1>1 DEF Stamp
<1>3. screenGeneration' \in 0 .. MaxGeneration /\ headers' \in 0 .. MaxHeaders
  BY <1>1, HubAssumption
<1>4. Stamp' \in Stamps
  BY <1>3 DEF Stamp, Stamps
<1>5. Before(Stamp, Stamp') /\ Stamp # Stamp'
  BY <1>2 DEF Before
<1> QED BY <1>4, <1>5 DEF Earlier

-----------------------------------------------------------------------------
(* The steps that call the hub; no other step changes it.                  *)
HubStep ==
  \/ SessionBegins \/ SessionEnded
  \/ \E g \in Generations : SessionEnds(g) \/ HeaderAccepted(g)
  \/ \E g \in Generations, kind \in Kinds : FrameArrives(g, kind)

(* The steps of a client's own goroutines and of its page.                 *)
ClientStep(c) ==
  \/ Upgrade(c) \/ Snapshot(c) \/ Greet(c) \/ TextPump(c) \/ BinaryPump(c)
  \/ AnswerInit(c) \/ Teardown(c) \/ Removes(c)

(* Every step is one of the hub, of the loop, of a publisher or of a       *)
(* client.                                                                 *)
LEMMA Steps ==
  ASSUME [Next]_vars
  PROVE  \/ HubStep \/ HeaderQueued
         \/ \E p \in Publishers : TakeSnapshot(p) \/ QueueStatus(p)
         \/ RunContinues \/ Stop \/ RunStops
         \/ \E c \in Clients : ClientStep(c)
         \/ UNCHANGED vars
BY DEF Next, HubStep, ClientStep, Stopped

(* No other step changes the session.                                      *)
LEMMA HubRests ==
  ASSUME [Next]_vars, ~HubStep
  PROVE  UNCHANGED hubVars
<1>1. ASSUME HeaderQueued \/ Stop \/ RunStops PROVE UNCHANGED hubVars
  BY <1>1 DEF HeaderQueued, Stop, RunStops
<1>2. ASSUME NEW p \in Publishers, TakeSnapshot(p) \/ QueueStatus(p) PROVE UNCHANGED hubVars
  BY <1>2 DEF TakeSnapshot, QueueStatus
<1>3. ASSUME RunContinues PROVE UNCHANGED hubVars
  BY <1>3 DEF RunContinues, RunReceives, RunAdds, RunBroadcasts, RunTearsDown
<1>4. ASSUME NEW c \in Clients, ClientStep(c) PROVE UNCHANGED hubVars
  BY <1>4 DEF ClientStep, Upgrade, Snapshot, Greet, TextPump, BinaryPump, AnswerInit,
              Teardown, Removes
<1>5. ASSUME UNCHANGED vars PROVE UNCHANGED hubVars
  BY <1>5 DEF vars
<1> QED BY <1>1, <1>2, <1>3, <1>4, <1>5, Steps

(* The hub keeps its types: as in ServerControllerProofs, for the steps    *)
(* that are taken here.                                                    *)
LEMMA CacheKeeps ==
  ASSUME NEW q \in Seq(Stamps), NEW x \in Stamps, Len(q) <= MaxReplayConfigs
  PROVE  /\ Keep(q, x, MaxReplayConfigs) \in Seq(Stamps)
         /\ Len(Keep(q, x, MaxReplayConfigs)) <= MaxReplayConfigs
<1>1. CASE Len(q) < MaxReplayConfigs
  <2>1. Append(q, x) \in Seq(Stamps) /\ Len(Append(q, x)) = Len(q) + 1
    OBVIOUS
  <2> QED BY <1>1, <2>1, HubAssumption DEF Keep
<1>2. CASE ~ (Len(q) < MaxReplayConfigs)
  <2>1. Len(q) >= 1 /\ q # << >>
    BY <1>2, HubAssumption
  <2>2. Tail(q) \in Seq(Stamps) /\ Len(Tail(q)) = Len(q) - 1
    BY <2>1
  <2>3. /\ Append(Tail(q), x) \in Seq(Stamps)
        /\ Len(Append(Tail(q), x)) = Len(Tail(q)) + 1
    BY <2>2
  <2>4. Len(Append(Tail(q), x)) = Len(q)
    BY <2>1, <2>2, <2>3
  <2> QED BY <1>2, <2>3, <2>4 DEF Keep
<1> QED BY <1>1, <1>2

(* A session begins with nothing cached ...                                *)
LEMMA EmptyCache ==
  ASSUME NEW n \in 0 .. MaxHeaders
  PROVE  [EmptyReplay EXCEPT !.session = n] \in ReplayType
<1>1. << >> \in Seq(Stamps) /\ Len(<< >>) = 0
  OBVIOUS
<1>2. ASSUME NEW q \in Seq(Stamps), Len(q) = 0
      PROVE  [session |-> n, configs |-> q, key |-> q] \in ReplayType
  BY <1>2, HubAssumption DEF ReplayType
<1>3. [EmptyReplay EXCEPT !.session = n] = [session |-> n, configs |-> << >>, key |-> << >>]
  BY DEF EmptyReplay
<1> QED BY <1>1, <1>2, <1>3

(* ... and so does the server.                                             *)
LEMMA NothingCached == EmptyReplay \in ReplayType
<1>1. EmptyReplay = [EmptyReplay EXCEPT !.session = 0]
  BY DEF EmptyReplay
<1>2. 0 \in 0 .. MaxHeaders
  BY HubAssumption
<1> QED BY <1>1, <1>2, EmptyCache

(* Its first state, and its steps.                                         *)
LEMMA HubStarts == HubInit => HubTypeOK
<1> SUFFICES ASSUME HubInit PROVE HubTypeOK
  OBVIOUS
<1>1. replay \in ReplayType
  BY NothingCached DEF HubInit
<1>2. headers \in 0 .. MaxHeaders /\ screenGeneration \in 0 .. MaxGeneration
  BY HubAssumption DEF HubInit
<1> QED BY <1>1, <1>2 DEF HubInit, HubTypeOK, Idle

(* No step of the feed gives the session a state it cannot have.           *)
LEMMA HubKeeps ==
  ASSUME HubTypeOK, [Next]_vars
  PROVE  HubTypeOK'
<1>1. ASSUME SessionBegins PROVE HubTypeOK'
  <2>0. BeginScreenSession(FALSE)
    BY <1>1 DEF SessionBegins
  <2>1. replay' \in ReplayType
    BY <2>0, NothingCached DEF BeginScreenSession, ReplayType, Stamps
  <2>2. headers' \in 0 .. MaxHeaders /\ screenGeneration' \in 0 .. MaxGeneration
    BY <2>0, HubAssumption DEF HubTypeOK, BeginScreenSession
  <2>3. routes' \in [Routes -> {"fresh", "open", "closed"}]
    BY <2>0 DEF HubTypeOK, BeginScreenSession, Closed
  <2>4. displayPowerOff' \in BOOLEAN /\ phoneDark' \in BOOLEAN /\ restoreFailed' \in BOOLEAN
    BY <2>0 DEF HubTypeOK, BeginScreenSession, RestoreDisplay, Restored, displayVars
  <2> QED
    BY <2>0, <2>1, <2>2, <2>3, <2>4 DEF HubTypeOK, BeginScreenSession, inputVars
<1>2. ASSUME SessionEnded PROVE HubTypeOK'
  <2>0. EndScreenSessionRestore(FALSE)
    BY <1>2 DEF SessionEnded
  <2>1. /\ displayPowerOff' \in BOOLEAN /\ phoneDark' \in BOOLEAN /\ restoreFailed' \in BOOLEAN
    BY <2>0 DEF HubTypeOK, EndScreenSessionRestore, RestoreDisplay, Restored, displayVars
  <2>2. routes' \in [Routes -> {"fresh", "open", "closed"}]
    BY <2>0 DEF HubTypeOK, EndScreenSessionRestore, Closed
  <2> QED BY <2>0, <2>1, <2>2 DEF HubTypeOK, EndScreenSessionRestore, Idle, inputVars, sessionVars
<1>3. ASSUME NEW g \in Generations, HeaderAccepted(g) PROVE HubTypeOK'
  <2>0. SetScreenSession(g, FALSE)
    BY <1>3 DEF HeaderAccepted
  <2>1. headers + 1 \in 0 .. MaxHeaders
    BY <2>0, HubAssumption DEF HubTypeOK, SetScreenSession
  <2>2. replay' \in ReplayType /\ headers' \in 0 .. MaxHeaders
    BY <2>0, <2>1, EmptyCache DEF SetScreenSession
  <2>3. /\ offSent' \in SUBSET Routes /\ offFailed' \in SUBSET Routes
        /\ displayPowerOff' \in BOOLEAN /\ phoneDark' \in BOOLEAN /\ restoreFailed' \in BOOLEAN
    BY <2>0 DEF HubTypeOK, SetScreenSession, SendDisplayOff, OffSucceeds, NoDisplayWrite,
                displayVars
  <2> QED BY <2>0, <2>2, <2>3 DEF HubTypeOK, SetScreenSession, inputVars
<1>4. ASSUME NEW g \in Generations, SessionEnds(g) PROVE HubTypeOK'
  <2>0. EndScreenSessionDetach(g)
    BY <1>4 DEF SessionEnds
  <2> QED BY <2>0, NothingCached
          DEF HubTypeOK, EndScreenSessionDetach, DetachSession, displayVars, inputVars
<1>5. ASSUME NEW g \in Generations, NEW kind \in Kinds, FrameArrives(g, kind) PROVE HubTypeOK'
  <2>0. BroadcastScreenFrame(g, kind = "config", kind = "key", TRUE)
    BY <1>5 DEF FrameArrives
  <2>1. Stamp \in Stamps
    BY StampIs
  <2>2. /\ Keep(replay.configs, Stamp, MaxReplayConfigs) \in Seq(Stamps)
        /\ Len(Keep(replay.configs, Stamp, MaxReplayConfigs)) <= MaxReplayConfigs
    BY <2>1, CacheKeeps DEF HubTypeOK, ReplayType
  <2>3. <<Stamp>> \in Seq(Stamps) /\ Len(<<Stamp>>) <= 1
    BY <2>1
  <2>4. <<g, headers>> = Stamp
    BY <2>0 DEF BroadcastScreenFrame, IsCurrent, Stamp
  <2>5. replay' = [replay EXCEPT
             !.configs = IF kind = "config" THEN Keep(@, Stamp, MaxReplayConfigs) ELSE @,
             !.key = IF kind = "key" THEN <<Stamp>> ELSE @]
    BY <2>0, <2>4 DEF BroadcastScreenFrame, Cache
  <2>6. replay' \in ReplayType
    BY <2>2, <2>3, <2>5 DEF HubTypeOK, ReplayType
  <2> QED BY <2>0, <2>6
          DEF HubTypeOK, BroadcastScreenFrame, sessionVars, displayVars, routeVars, inputVars
<1>6. ASSUME UNCHANGED hubVars PROVE HubTypeOK'
  BY <1>6 DEF HubTypeOK, hubVars, sessionVars, displayVars, routeVars, inputVars
<1> QED BY <1>1, <1>2, <1>3, <1>4, <1>5, <1>6, HubRests DEF HubStep

-----------------------------------------------------------------------------
(* The session events on their way to the broadcast channel.               *)
LEMMA EventsStart == Init => EventsGrow
<1> SUFFICES ASSUME Init PROVE EventsGrow
  OBVIOUS
<1>1. waiting = <<>> /\ published = <<>>
  BY DEF Init
<1> QED BY <1>1 DEF EventsGrow

(* A step that neither publishes nor begins a session.                     *)
LEMMA EventsRest ==
  ASSUME EventsGrow, UNCHANGED <<waiting, published, screenGeneration, headers>>
  PROVE  EventsGrow'
<1>1. Stamp' = Stamp
  BY DEF Stamp
<1> QED BY <1>1 DEF EventsGrow, Session

(* What the other lemmas use of the session.                               *)
LEMMA HubQuiet ==
  ASSUME UNCHANGED hubVars
  PROVE  UNCHANGED <<screenGeneration, headers, replay, screenActive>>
BY DEF hubVars, sessionVars

(* SessionBegins and HeaderAccepted move the hub to a later stamp.         *)
LEMMA NewSession ==
  ASSUME HubTypeOK, HubTypeOK', SessionBegins \/ \E g \in Generations : HeaderAccepted(g)
  PROVE  Stamp \in Stamps /\ Stamp' \in Stamps /\ Earlier(Stamp, Stamp')
<1>1. /\ (screenGeneration' = screenGeneration + 1 /\ headers' = 0)
           \/ (screenGeneration' = screenGeneration /\ headers' = headers + 1)
  BY DEF SessionBegins, HeaderAccepted, BeginScreenSession, SetScreenSession
<1>2. screenGeneration' <= MaxGeneration /\ headers' <= MaxHeaders
  BY HubAssumption DEF HubTypeOK
<1> QED BY <1>1, <1>2, NewStamps, StampIs

(* Every step keeps the published events in order.                         *)
LEMMA EventsKeep ==
  ASSUME HubTypeOK, HubTypeOK', EventsGrow, [Next]_vars
  PROVE  EventsGrow'
<1>s. Stamp \in Stamps
  BY StampIs
<1>p. published \in Seq(Stamps) /\ \A i \in 1 .. Len(published) : published[i] \in Stamps
  BY DEF EventsGrow
<1>1. ASSUME Earlier(Stamp, Stamp'), Stamp' \in Stamps, published' = published
      PROVE  \A i \in 1 .. Len(published) : /\ Earlier(published'[i], Stamp')
                                            /\ Before(published'[i], Stamp')
  <2> TAKE i \in 1 .. Len(published)
  <2>1. published[i] \in Stamps /\ Before(published[i], Stamp)
    BY <1>p DEF EventsGrow
  <2> QED BY <1>s, <1>1, <2>1, StampsAre
<1>2. ASSUME SessionBegins PROVE EventsGrow'
  <2>1. waiting = <<>> /\ UNCHANGED <<waiting, published>>
    BY <1>2 DEF SessionBegins, LocksFree
  <2>2. \A i \in 1 .. Len(published) : Before(published'[i], Stamp')
    BY <1>1, <1>2, <2>1, NewSession
  <2> QED BY <2>1, <2>2 DEF EventsGrow
<1>3. ASSUME NEW g \in Generations, HeaderAccepted(g) PROVE EventsGrow'
  <2>1. waiting' = <<Session(<<g, headers + 1>>)>> /\ published' = published
    BY <1>3 DEF HeaderAccepted
  <2>2. Stamp' = <<g, headers + 1>>
    BY <1>3 DEF HeaderAccepted, SetScreenSession, IsCurrent, Stamp
  <2>3. Stamp' \in Stamps /\ Earlier(Stamp, Stamp')
    BY <1>3, NewSession
  <2>4. waiting' = <<Session(Stamp')>> /\ Session(Stamp') \in Queued
    BY <2>1, <2>2, <2>3 DEF Session, Queued
  <2>5. waiting' \in Seq(Queued) /\ Len(waiting') <= 1 /\ waiting'[1] = Session(Stamp')
    BY <2>4
  <2>6. \A i \in 1 .. Len(published) : /\ Earlier(published'[i], Stamp')
                                       /\ Before(published'[i], Stamp')
    BY <1>1, <2>1, <2>3
  <2>7. Session(Stamp)' = Session(Stamp')
    BY DEF Session
  <2> QED BY <2>1, <2>5, <2>6, <2>7 DEF EventsGrow
<1>4. ASSUME HeaderQueued PROVE EventsGrow'
  <2>1. waiting # <<>> /\ waiting' = <<>> /\ published' = Append(published, waiting[1].id)
    BY <1>4 DEF HeaderQueued
  <2>2. waiting[1].id = Stamp
    BY <2>1 DEF EventsGrow, Session
  <2>3. UNCHANGED <<screenGeneration, headers>>
    BY <1>4, HubQuiet DEF HeaderQueued
  <2>4. Stamp' = Stamp
    BY <2>3 DEF Stamp
  <2>5. /\ published' \in Seq(Stamps) /\ Len(published') = Len(published) + 1
        /\ \A i \in 1 .. Len(published) : published'[i] = published[i]
        /\ published'[Len(published) + 1] = Stamp
    BY <1>s, <1>p, <2>1, <2>2
  <2>6. \A i \in 1 .. Len(published) : Earlier(published'[i], Stamp) /\ Before(published'[i], Stamp)
    BY <2>1, <2>5 DEF EventsGrow
  <2>7. Before(Stamp, Stamp)
    BY <1>s, StampsAre
  <2>8. \A i \in 1 .. Len(published') : Before(published'[i], Stamp')
    BY <2>4, <2>5, <2>6, <2>7
  <2>9. \A i, j \in 1 .. Len(published') : i < j => Earlier(published'[i], published'[j])
    <3> TAKE i, j \in 1 .. Len(published')
    <3> HAVE i < j
    <3>1. i \in 1 .. Len(published)
      BY <2>5
    <3>2. CASE j = Len(published) + 1
      BY <2>5, <2>6, <3>1, <3>2
    <3>3. CASE j \in 1 .. Len(published)
      BY <2>5, <3>1, <3>3 DEF EventsGrow
    <3> QED BY <2>5, <3>2, <3>3
  <2> QED BY <2>1, <2>5, <2>8, <2>9 DEF EventsGrow
<1>5. ASSUME SessionEnded \/ (\E g \in Generations : SessionEnds(g))
                \/ (\E g \in Generations, kind \in Kinds : FrameArrives(g, kind))
      PROVE  EventsGrow'
  BY <1>5, EventsRest
  DEF SessionEnded, SessionEnds, FrameArrives, EndScreenSessionRestore, EndScreenSessionDetach,
      DetachSession, BroadcastScreenFrame, sessionVars, feedVars
<1>6. ASSUME ~HubStep, ~HeaderQueued PROVE EventsGrow'
  <2>1. UNCHANGED <<screenGeneration, headers>>
    BY <1>6, HubRests, HubQuiet
  <2>2. UNCHANGED <<waiting, published>>
    <3>1. ASSUME NEW p \in Publishers, TakeSnapshot(p) \/ QueueStatus(p)
          PROVE UNCHANGED <<waiting, published>>
      BY <3>1 DEF TakeSnapshot, QueueStatus
    <3>2. ASSUME RunContinues \/ Stop \/ RunStops PROVE UNCHANGED <<waiting, published>>
      BY <3>2 DEF RunContinues, RunReceives, RunAdds, RunBroadcasts, RunTearsDown, Stop, RunStops
    <3>3. ASSUME NEW c \in Clients, ClientStep(c) PROVE UNCHANGED <<waiting, published>>
      BY <3>3 DEF ClientStep, Upgrade, Snapshot, Greet, TextPump, BinaryPump, AnswerInit,
                  Teardown, Removes
    <3>4. ASSUME UNCHANGED vars PROVE UNCHANGED <<waiting, published>>
      BY <3>4 DEF vars, feedVars
    <3> QED BY <1>6, <3>1, <3>2, <3>3, <3>4, Steps
  <2> QED BY <2>1, <2>2, EventsRest
<1> QED BY <1>2, <1>3, <1>4, <1>5, <1>6 DEF HubStep

(* The frames waiting for the viewers.                                     *)
LEMMA FramesStart == Init => FramesGrow
<1> SUFFICES ASSUME Init PROVE FramesGrow
  OBVIOUS
<1>1. \A c \in Clients : bin[c] = <<>>
  BY DEF Init
<1>2. bin \in [Clients -> Seq([kind : Kinds, id : Stamps])]
  BY DEF Init
<1>3. 0 <= BinCap
  BY FeedAssumption
<1> QED BY <1>1, <1>2, <1>3 DEF FramesGrow, FramesInOrder

(* A frame of the present session at the end of a queue.                   *)
LEMMA FrameAppended ==
  ASSUME HubTypeOK, NEW q \in Seq([kind : Kinds, id : Stamps]), NEW kind \in Kinds,
         \A i \in 1 .. Len(q) : Before(q[i].id, Stamp),
         \A i, j \in 1 .. Len(q) : i <= j => Before(q[i].id, q[j].id),
         NEW r, r = Append(q, Frame(kind, Stamp))
  PROVE  /\ r \in Seq([kind : Kinds, id : Stamps]) /\ Len(r) = Len(q) + 1
         /\ \A i \in 1 .. Len(r) : Before(r[i].id, Stamp)
         /\ \A i, j \in 1 .. Len(r) : i <= j => Before(r[i].id, r[j].id)
<1>1. Stamp \in Stamps /\ Before(Stamp, Stamp)
  BY StampIs, StampsAre
<1>2. Frame(kind, Stamp) \in [kind : Kinds, id : Stamps] /\ Frame(kind, Stamp).id = Stamp
  BY <1>1 DEF Frame
<1>3. /\ r \in Seq([kind : Kinds, id : Stamps]) /\ Len(r) = Len(q) + 1
      /\ \A i \in 1 .. Len(q) : r[i] = q[i]
      /\ r[Len(q) + 1] = Frame(kind, Stamp)
  BY <1>2
<1>4. \A i \in 1 .. Len(q) : Before(r[i].id, Stamp)
  BY <1>3
<1>5. r[Len(q) + 1].id = Stamp
  BY <1>2, <1>3
<1>6. \A i \in 1 .. Len(r) : Before(r[i].id, Stamp)
  BY <1>1, <1>3, <1>4, <1>5
<1>7. ASSUME NEW i \in 1 .. Len(r), NEW j \in 1 .. Len(r), i <= j
      PROVE  Before(r[i].id, r[j].id)
  <2>1. CASE j = Len(q) + 1
    BY <1>5, <1>6, <2>1
  <2>2. CASE j \in 1 .. Len(q)
    <3>1. i \in 1 .. Len(q)
      BY <1>7, <2>2
    <3> QED BY <1>3, <1>7, <2>2, <3>1
  <2> QED BY <1>3, <2>1, <2>2
<1> QED BY <1>3, <1>6, <1>7

(* What a queue holds.                                                     *)
LEMMA Elements ==
  ASSUME NEW S, NEW q \in Seq(S)
  PROVE  Len(q) \in Nat /\ DOMAIN q = 1 .. Len(q) /\ \A i \in 1 .. Len(q) : q[i] \in S
OBVIOUS

(* What one client's queue needs, for the steps that change one.           *)
FramesOf(q, s) ==
  /\ q \in Seq([kind : Kinds, id : Stamps]) /\ Len(q) <= BinCap
  /\ \A i \in 1 .. Len(q) : Before(q[i].id, s)
  /\ \A i, j \in 1 .. Len(q) : i <= j => Before(q[i].id, q[j].id)

(* FramesGrow, one client at a time.                                       *)
LEMMA FramesEach ==
  /\ FramesGrow => bin \in [Clients -> Seq([kind : Kinds, id : Stamps])]
                     /\ \A c \in Clients : FramesOf(bin[c], Stamp)
  /\ (\A c \in Clients : FramesOf(bin'[c], Stamp')) /\ (\E f : bin' = [c \in Clients |-> f[c]])
       => FramesGrow'
<1>1. ASSUME FramesGrow, NEW c \in Clients PROVE FramesOf(bin[c], Stamp)
  <2>1. bin[c] \in Seq([kind : Kinds, id : Stamps])
    BY <1>1 DEF FramesGrow
  <2>2. DOMAIN bin[c] = 1 .. Len(bin[c])
    BY <2>1
  <2> QED BY <1>1, <2>1, <2>2 DEF FramesGrow, FramesInOrder, FramesOf
<1>2. ASSUME \A c \in Clients : FramesOf(bin'[c], Stamp'), NEW f, bin' = [c \in Clients |-> f[c]]
      PROVE FramesGrow'
  <2>1. \A c \in Clients : bin'[c] \in Seq([kind : Kinds, id : Stamps])
    BY <1>2 DEF FramesOf
  <2>2. bin' \in [Clients -> Seq([kind : Kinds, id : Stamps])]
    BY <1>2, <2>1
  <2>3. \A c \in Clients : DOMAIN bin'[c] = 1 .. Len(bin'[c])
    BY <2>1
  <2>4. FramesInOrder'
    BY <1>2, <2>3 DEF FramesInOrder, FramesOf
  <2> QED BY <1>2, <2>2, <2>4 DEF FramesGrow, FramesOf
<1>3. FramesGrow => bin \in [Clients -> Seq([kind : Kinds, id : Stamps])]
  BY DEF FramesGrow
<1> QED BY <1>1, <1>2, <1>3

(* A step that touches neither the frames nor the session.                 *)
LEMMA FramesRest ==
  ASSUME FramesGrow, UNCHANGED <<bin, screenGeneration, headers>>
  PROVE  FramesGrow'
<1>1. Stamp' = Stamp
  BY DEF Stamp
<1> QED BY <1>1 DEF FramesGrow, FramesInOrder

(* Every step keeps the frames in order: a frame that gets in carries the  *)
(* present session, and no frame there is of a later one.                  *)
LEMMA FramesKeep ==
  ASSUME HubTypeOK, HubTypeOK', FramesGrow, [Next]_vars
  PROVE  FramesGrow'
<1>1. bin \in [Clients -> Seq([kind : Kinds, id : Stamps])] /\ \A c \in Clients : FramesOf(bin[c], Stamp)
  BY FramesEach
<1>2. ASSUME SessionBegins \/ \E g \in Generations : HeaderAccepted(g) PROVE FramesGrow'
  <2>1. Stamp \in Stamps /\ Stamp' \in Stamps /\ Earlier(Stamp, Stamp')
    BY <1>2, NewSession
  <2>2. bin' = bin
    BY <1>2 DEF SessionBegins, HeaderAccepted
  <2>3. ASSUME NEW c \in Clients PROVE FramesOf(bin'[c], Stamp')
    <3> DEFINE q == bin[c]
    <3>0. q \in Seq([kind : Kinds, id : Stamps]) /\ \A i \in 1 .. Len(q) : Before(q[i].id, Stamp)
      BY <1>1 DEF FramesOf
    <3> HIDE DEF q
    <3>e. \A i \in 1 .. Len(q) : q[i] \in [kind : Kinds, id : Stamps]
      BY <3>0, Elements
    <3>1. \A i \in 1 .. Len(q) : q[i].id \in Stamps /\ Before(q[i].id, Stamp)
      BY <3>0, <3>e
    <3>2. \A i \in 1 .. Len(q) : Before(q[i].id, Stamp')
      BY <2>1, <3>1, StampsAre
    <3> QED BY <1>1, <2>2, <3>2 DEF FramesOf, q
  <2>4. bin' = [c \in Clients |-> bin'[c]]
    BY <1>1, <2>2
  <2> QED BY <2>3, <2>4, FramesEach
<1>3. ASSUME NEW g \in Generations, NEW kind \in Kinds, FrameArrives(g, kind) PROVE FramesGrow'
  <2>1. BroadcastScreenFrame(g, kind = "config", kind = "key", TRUE)
    BY <1>3 DEF FrameArrives
  <2>2. <<g, headers>> = Stamp /\ UNCHANGED <<screenGeneration, headers>>
    BY <2>1 DEF BroadcastScreenFrame, IsCurrent, Stamp, sessionVars
  <2>3. Stamp' = Stamp
    BY <2>2 DEF Stamp
  <2>4. bin' = [c \in Clients |->
               IF c \in clients
               THEN Enqueue(bin, c, Frame(kind, Stamp), BinCap)[c]
               ELSE bin[c]]
    BY <1>3, <2>2 DEF FrameArrives
  <2>5. ASSUME NEW c \in Clients PROVE FramesOf(bin'[c], Stamp')
    <3>1. \/ bin'[c] = bin[c]
          \/ Len(bin[c]) < BinCap /\ bin'[c] = Append(bin[c], Frame(kind, Stamp))
      BY <1>1, <2>4 DEF Enqueue
    <3>2. CASE bin'[c] = bin[c]
      BY <1>1, <2>3, <3>2
    <3>3. CASE Len(bin[c]) < BinCap /\ bin'[c] = Append(bin[c], Frame(kind, Stamp))
      <4> DEFINE q == bin[c]  r == bin'[c]
      <4>1. /\ q \in Seq([kind : Kinds, id : Stamps]) /\ Len(q) <= BinCap
            /\ \A i \in 1 .. Len(q) : Before(q[i].id, Stamp)
            /\ \A i, j \in 1 .. Len(q) : i <= j => Before(q[i].id, q[j].id)
        BY <1>1 DEF FramesOf
      <4>2. r = Append(q, Frame(kind, Stamp)) /\ Len(q) < BinCap
        BY <3>3
      <4> HIDE DEF q, r
      <4>3. /\ r \in Seq([kind : Kinds, id : Stamps]) /\ Len(r) = Len(q) + 1
            /\ \A i \in 1 .. Len(r) : Before(r[i].id, Stamp)
            /\ \A i, j \in 1 .. Len(r) : i <= j => Before(r[i].id, r[j].id)
        BY <4>1, <4>2, FrameAppended
      <4>4. Len(q) \in Nat /\ BinCap \in Nat
        BY <4>1, FeedAssumption
      <4>5. Len(r) <= BinCap
        BY <4>2, <4>3, <4>4
      <4> QED BY <2>3, <4>3, <4>5 DEF FramesOf, r
    <3> QED BY <3>1, <3>2, <3>3
  <2>6. bin' = [c \in Clients |-> bin'[c]]
    BY <2>4
  <2> QED BY <2>5, <2>6, FramesEach
<1>4. ASSUME NEW c \in Clients, BinaryPump(c) PROVE FramesGrow'
  <2>1. bin[c] # <<>> /\ bin' = [bin EXCEPT ![c] = Tail(@)] /\ UNCHANGED hubVars
    BY <1>4 DEF BinaryPump
  <2>2. Stamp' = Stamp
    BY <2>1, HubQuiet DEF Stamp
  <2>3. FramesOf(Tail(bin[c]), Stamp)
    <3> DEFINE q == bin[c]  r == Tail(q)
    <3>1. /\ q \in Seq([kind : Kinds, id : Stamps]) /\ Len(q) <= BinCap /\ q # <<>>
          /\ \A i \in 1 .. Len(q) : Before(q[i].id, Stamp)
          /\ \A i, j \in 1 .. Len(q) : i <= j => Before(q[i].id, q[j].id)
      BY <1>1, <2>1 DEF FramesOf
    <3> HIDE DEF q
    <3>2. /\ r \in Seq([kind : Kinds, id : Stamps]) /\ Len(r) = Len(q) - 1 /\ Len(q) \in Nat
          /\ \A i \in 1 .. Len(r) : r[i] = q[i + 1]
      BY <3>1
    <3> HIDE DEF r
    <3>3. \A i \in 1 .. Len(r) : i + 1 \in 1 .. Len(q)
      BY <3>2
    <3>4. \A i \in 1 .. Len(r) : Before(r[i].id, Stamp)
      BY <3>1, <3>2, <3>3
    <3>5. \A i, j \in 1 .. Len(r) : i <= j => Before(r[i].id, r[j].id)
      BY <3>1, <3>2, <3>3
    <3>6. BinCap \in Nat
      BY FeedAssumption
    <3>7. Len(r) <= BinCap
      BY <3>1, <3>2, <3>6
    <3> QED BY <3>2, <3>4, <3>5, <3>7 DEF FramesOf, r, q
  <2>4. \A d \in Clients : FramesOf(bin'[d], Stamp')
    BY <1>1, <2>1, <2>2, <2>3
  <2>5. bin' = [d \in Clients |-> bin'[d]]
    BY <1>1, <2>1
  <2> QED BY <2>4, <2>5, FramesEach
<1>5. ASSUME SessionEnded \/ \E g \in Generations : SessionEnds(g) PROVE FramesGrow'
  BY <1>5, FramesRest
  DEF SessionEnded, SessionEnds, EndScreenSessionRestore, EndScreenSessionDetach,
      DetachSession, sessionVars, feedVars
<1>6. ASSUME ~HubStep, \A c \in Clients : ~BinaryPump(c) PROVE FramesGrow'
  <2>1. UNCHANGED <<screenGeneration, headers>>
    BY <1>6, HubRests, HubQuiet
  <2>2. UNCHANGED bin
    <3>1. ASSUME NEW p \in Publishers, TakeSnapshot(p) \/ QueueStatus(p) PROVE UNCHANGED bin
      BY <3>1 DEF TakeSnapshot, QueueStatus
    <3>2. ASSUME RunContinues \/ Stop \/ RunStops PROVE UNCHANGED bin
      BY <3>2 DEF RunContinues, RunReceives, RunAdds, RunBroadcasts, RunTearsDown, Stop, RunStops
    <3>3. ASSUME NEW c \in Clients, ClientStep(c), ~BinaryPump(c) PROVE UNCHANGED bin
      BY <3>3 DEF ClientStep, Upgrade, Snapshot, Greet, TextPump, AnswerInit,
                  Teardown, Removes
    <3>4. ASSUME UNCHANGED vars PROVE UNCHANGED bin
      BY <3>4 DEF vars, feedVars
    <3>5. ASSUME HeaderQueued PROVE UNCHANGED bin
      BY <3>5 DEF HeaderQueued
    <3> QED BY <1>6, <3>1, <3>2, <3>3, <3>4, <3>5, Steps
  <2> QED BY <2>1, <2>2, FramesRest
<1> QED BY <1>2, <1>3, <1>4, <1>5, <1>6 DEF HubStep

(* The loop, the goroutines of the clients and their pages begin well.     *)
LEMMA FeedTypesStart == Init => Goroutines /\ Pages /\ Registered
<1> SUFFICES ASSUME Init PROVE Goroutines /\ Pages /\ Registered
  OBVIOUS
<1>1. Goroutines
  BY DEF Init, Goroutines
<1>2. Registered
  BY DEF Init, Registered
<1>3. 0 \in 0 .. MaxAsks
  BY FeedAssumption
<1>4. page \in [Clients -> [on : BOOLEAN, asked : BOOLEAN]]
  BY DEF Init, BlankPage
<1>5. Pages
  BY <1>3, <1>4 DEF Init, Pages
<1> QED BY <1>1, <1>2, <1>5

(* Every step keeps the types of the goroutines, and tears down only       *)
(* clients that are closed.                                                *)
LEMMA GoroutinesKeep ==
  ASSUME Goroutines, [Next]_vars
  PROVE  Goroutines'
<1>1. ASSUME HubStep PROVE Goroutines'
  BY <1>1 DEF HubStep, SessionBegins, SessionEnded, SessionEnds, HeaderAccepted, FrameArrives,
              feedVars, runVars, closing, Goroutines
<1>2. ASSUME HeaderQueued \/ Stop \/ RunStops \/ UNCHANGED vars PROVE Goroutines'
  BY <1>2 DEF HeaderQueued, Stop, RunStops, vars, feedVars, runVars, closing, Goroutines
<1>3. ASSUME NEW p \in Publishers, TakeSnapshot(p) \/ QueueStatus(p) PROVE Goroutines'
  <2>1. pub' \in [Publishers -> {"idle", "on", "off"}]
    BY <1>3 DEF TakeSnapshot, QueueStatus, Goroutines
  <2> QED BY <1>3, <2>1 DEF TakeSnapshot, QueueStatus, runVars, closing, Goroutines
<1>4. ASSUME RunContinues PROVE Goroutines'
  <2>1. ASSUME NEW c \in Clients, RunReceives(c) PROVE Goroutines'
    BY <2>1 DEF RunReceives, closing, Goroutines
  <2>2. ASSUME RunAdds PROVE Goroutines'
    BY <2>2 DEF RunAdds, Goroutines
  <2>3. ASSUME RunBroadcasts PROVE Goroutines'
    <3>1. slow' \subseteq Clients /\ clients' \subseteq Clients
      BY <2>3 DEF RunBroadcasts, Goroutines
    <3> QED BY <2>3, <3>1 DEF RunBroadcasts, closing, Goroutines
  <2>4. ASSUME RunTearsDown PROVE Goroutines'
    BY <2>4 DEF RunTearsDown, Goroutines
  <2> QED BY <1>4, <2>1, <2>2, <2>3, <2>4 DEF RunContinues
<1>5. ASSUME NEW c \in Clients, ClientStep(c) PROVE Goroutines'
  <2>1. ASSUME Upgrade(c) \/ Snapshot(c) \/ Greet(c) PROVE Goroutines'
    BY <2>1 DEF Upgrade, Snapshot, Greet, runVars, closing, Goroutines
  <2>2. ASSUME TextPump(c) \/ BinaryPump(c) \/ AnswerInit(c) PROVE Goroutines'
    BY <2>2 DEF TextPump, BinaryPump, AnswerInit, runVars, closing, Goroutines
  <2>3. ASSUME Teardown(c) \/ Removes(c) PROVE Goroutines'
    BY <2>3 DEF Teardown, Removes, runVars, Goroutines
  <2> QED BY <1>5, <2>1, <2>2, <2>3 DEF ClientStep
<1> QED BY <1>1, <1>2, <1>3, <1>4, <1>5, Steps

(* Every step keeps the pages, and the requests of a page within the bound.*)
LEMMA PagesKeep ==
  ASSUME Pages, [Next]_vars, FramesGrow
  PROVE  Pages'
<1>0. Kinds \subseteq {"config", "key", "delta"}
  BY FeedAssumption
<1>1. ASSUME HubStep PROVE Pages'
  <2>1. encoder' \in {"none", "header", "config", "key"}
    BY <1>0, <1>1 DEF HubStep, SessionBegins, SessionEnded, SessionEnds, HeaderAccepted, FrameArrives,
              feedVars, Pages
  <2> QED BY <1>1, <2>1 DEF HubStep, SessionBegins, SessionEnded, SessionEnds, HeaderAccepted,
              FrameArrives, feedVars, Pages
<1>2. ASSUME HeaderQueued \/ Stop \/ RunStops \/ UNCHANGED vars PROVE Pages'
  BY <1>2 DEF HeaderQueued, Stop, RunStops, vars, feedVars, Pages
<1>3. ASSUME NEW p \in Publishers, TakeSnapshot(p) \/ QueueStatus(p) PROVE Pages'
  BY <1>3 DEF TakeSnapshot, QueueStatus, Pages
<1>4. ASSUME RunContinues PROVE Pages'
  BY <1>4 DEF RunContinues, RunReceives, RunAdds, RunBroadcasts, RunTearsDown, Pages
<1>5. ASSUME NEW c \in Clients, ClientStep(c) PROVE Pages'
  <2>1. ASSUME TextPump(c) PROVE Pages'
    <3> DEFINE m == text[c][1]
    <3>1. /\ Asks(page[c], m) => asks[c] < MaxAsks
          /\ page' = [page EXCEPT ![c] = OnText(page[c], m)]
          /\ asks' = [asks EXCEPT ![c] = IF Asks(page[c], m) THEN asks[c] + 1 ELSE asks[c]]
          /\ encoder' = encoder
      BY <2>1 DEF TextPump
    <3> HIDE DEF m
    <3>2. page[c] \in [on : BOOLEAN, asked : BOOLEAN] /\ asks[c] \in 0 .. MaxAsks
      BY DEF Pages
    <3>3. OnText(page[c], m) \in [on : BOOLEAN, asked : BOOLEAN]
      BY <3>2 DEF OnText, BlankPage
    <3>4. (IF Asks(page[c], m) THEN asks[c] + 1 ELSE asks[c]) \in 0 .. MaxAsks
      <4>1. PICK n \in Nat : n = asks[c] /\ n <= MaxAsks
        BY <3>2, FeedAssumption
      <4>2. MaxAsks \in Nat
        BY FeedAssumption
      <4>3. n < MaxAsks => n + 1 \in 0 .. MaxAsks
        BY <4>1, <4>2
      <4> QED BY <3>1, <3>2, <4>1, <4>3
    <3>5. page' \in [Clients -> [on : BOOLEAN, asked : BOOLEAN]]
      BY <3>1, <3>3 DEF Pages
    <3>6. asks' \in [Clients -> 0 .. MaxAsks]
      BY <3>1, <3>4 DEF Pages
    <3> QED BY <3>1, <3>5, <3>6 DEF Pages
  <2>2. ASSUME AnswerInit(c) PROVE Pages'
    <3>1. /\ asks' = [asks EXCEPT ![c] = asks[c] - 1] /\ asks[c] > 0
          /\ UNCHANGED <<page, encoder>>
      BY <2>2 DEF AnswerInit
    <3>2. asks[c] \in 0 .. MaxAsks
      BY DEF Pages
    <3>3. asks[c] - 1 \in 0 .. MaxAsks
      BY <3>1, <3>2, FeedAssumption
    <3>4. asks' \in [Clients -> 0 .. MaxAsks]
      BY <3>1, <3>3 DEF Pages
    <3> QED BY <3>1, <3>4 DEF Pages
  <2>3. ASSUME \/ Upgrade(c) \/ Snapshot(c) \/ Greet(c) \/ BinaryPump(c)
               \/ Teardown(c) \/ Removes(c)
        PROVE Pages'
    BY <2>3 DEF Upgrade, Snapshot, Greet, BinaryPump, Teardown, Removes, Pages
  <2> QED BY <1>5, <2>1, <2>2, <2>3 DEF ClientStep
<1> QED BY <1>1, <1>2, <1>3, <1>4, <1>5, Steps

(* No step loses a client: whoever leaves Hub.clients is being torn down   *)
(* or is closed.                                                           *)
LEMMA RegisteredKeeps ==
  ASSUME Goroutines, Registered, [Next]_vars
  PROVE  Registered'
<1> DEFINE Held(c) == phase[c] \in {"greet", "on", "off", "up"} =>
                        c \in clients \cup slow \cup closed \cup {adding}
           Ended == run = "stopped" => clients = {} /\ adding = NoClient /\ slow = {}
<1>0. Ended /\ (\A c \in Clients : Held(c)) /\ NoClient \notin Clients
  BY FeedAssumption DEF Registered
<1>1. ASSUME UNCHANGED <<runVars, phase, closed>> PROVE Registered'
  BY <1>1 DEF Registered, runVars
<1>2. ASSUME HubStep PROVE Registered'
  BY <1>1, <1>2 DEF HubStep, SessionBegins, SessionEnded, SessionEnds, HeaderAccepted, FrameArrives,
              feedVars, closing
<1>3. ASSUME HeaderQueued \/ UNCHANGED vars PROVE Registered'
  BY <1>1, <1>3 DEF HeaderQueued, vars, feedVars, closing
<1>4. ASSUME NEW p \in Publishers, TakeSnapshot(p) \/ QueueStatus(p) PROVE Registered'
  BY <1>1, <1>4 DEF TakeSnapshot, QueueStatus, closing
<1>5. ASSUME Stop PROVE Registered'
  BY <1>5 DEF Stop, Registered, closing
<1>6. ASSUME RunStops PROVE Registered'
  BY <1>6 DEF RunStops, RunFree, Registered
<1>7. ASSUME NEW c \in Clients, RunReceives(c) PROVE Registered'
  <2>1. /\ run # "stopped" /\ adding = NoClient /\ adding' = c
        /\ phase' = [phase EXCEPT ![c] = "greet"]
        /\ UNCHANGED <<run, slow, clients, closed>>
    BY <1>7 DEF RunReceives, RunFree, closing
  <2>2. ASSUME NEW d \in Clients, d # c PROVE Held(d)'
    <3>1. phase'[d] = phase[d]
      BY <2>1, <2>2 DEF Goroutines
    <3> QED BY <1>0, <2>1, <3>1
  <2>3. Held(c)'
    BY <2>1
  <2> QED BY <2>1, <2>2, <2>3 DEF Registered
<1>8. ASSUME RunAdds PROVE Registered'
  <2>1. run # "stopped" /\ run' = run /\ slow' = slow /\ phase' = phase /\ adding' = NoClient
    BY <1>0, <1>8 DEF RunAdds
  <2>2. clients' \cup closed' = clients \cup closed \cup {adding}
    BY <1>8 DEF RunAdds
  <2> QED BY <1>0, <2>1, <2>2 DEF Registered
<1>9. ASSUME RunBroadcasts PROVE Registered'
  <2>1. PICK gone \in SUBSET (clients \cap closed) :
          slow' \subseteq clients /\ clients' = clients \ (gone \cup slow')
    BY <1>9 DEF RunBroadcasts
  <2>2. run # "stopped" /\ slow = {} /\ UNCHANGED <<run, adding, phase, closed>>
    BY <1>9 DEF RunBroadcasts, RunFree, closing
  <2>3. clients \cup slow \cup closed \cup {adding} = clients' \cup slow' \cup closed' \cup {adding'}
    BY <2>1, <2>2
  <2> QED BY <1>0, <2>2, <2>3 DEF Registered
<1>10. ASSUME RunTearsDown PROVE Registered'
  BY <1>10 DEF RunTearsDown, Registered
<1>11. ASSUME NEW c \in Clients, ClientStep(c) PROVE Registered'
  <2>1. ASSUME TextPump(c) \/ BinaryPump(c) \/ AnswerInit(c) PROVE Registered'
    BY <1>1, <2>1 DEF TextPump, BinaryPump, AnswerInit, closing
  <2>2. ASSUME Upgrade(c) \/ Snapshot(c) \/ Greet(c) PROVE Registered'
    <3>1. UNCHANGED <<run, adding, slow, clients, closed>>
      BY <2>2 DEF Upgrade, Snapshot, Greet, runVars, closing
    <3>2. \/ \E v : v = "register" /\ phase' = [phase EXCEPT ![c] = v]
          \/ phase[c] \in {"greet", "on", "off"} /\ \E v : phase' = [phase EXCEPT ![c] = v]
      BY <2>2 DEF Upgrade, Snapshot, Greet
    <3>3. \A d \in Clients : Held(d)'
      BY <1>0, <3>1, <3>2 DEF Goroutines
    <3> QED BY <1>0, <3>1, <3>3 DEF Registered
  <2>3. ASSUME Teardown(c) PROVE Registered'
    BY <2>3 DEF Teardown, Registered, runVars
  <2>4. ASSUME Removes(c) PROVE Registered'
    <3>1. /\ c \in closed /\ clients' = clients \ {c}
          /\ UNCHANGED <<run, adding, slow, phase, closed>>
      BY <2>4 DEF Removes, Goroutines
    <3> QED BY <1>0, <3>1 DEF Registered
  <2> QED BY <1>11, <2>1, <2>2, <2>3, <2>4 DEF ClientStep
<1> QED BY <1>2, <1>3, <1>4, <1>5, <1>6, <1>7, <1>8, <1>9, <1>10, <1>11, Steps DEF RunContinues

(* The events of a queue when a message is put at its end ...              *)
LEMMA EventsAppended ==
  ASSUME NEW S, NEW q \in Seq(S), NEW m \in S
  PROVE  Events(Append(q, m)) = IF m.kind = "session" THEN Events(q) \cup {m.id} ELSE Events(q)
<1> DEFINE r == Append(q, m)
<1>1. /\ Len(r) = Len(q) + 1 /\ Len(q) \in Nat /\ r[Len(q) + 1] = m
      /\ DOMAIN q = 1 .. Len(q) /\ DOMAIN r = 1 .. Len(q) + 1
      /\ \A i \in 1 .. Len(q) : r[i] = q[i]
  OBVIOUS
<1> HIDE DEF r
<1>2. DOMAIN r = DOMAIN q \cup {Len(q) + 1}
  BY <1>1
<1>3. \A i \in DOMAIN q : r[i] = q[i]
  BY <1>1
<1>4. PICK k : k = Len(q) + 1
  OBVIOUS
<1>5. DOMAIN r = DOMAIN q \cup {k} /\ r[k] = m
  BY <1>1, <1>2, <1>4
<1>6. Events(r) = IF m.kind = "session" THEN Events(q) \cup {m.id} ELSE Events(q)
  BY <1>3, <1>5 DEF Events
<1> QED BY <1>6 DEF r

(* It stays in order if the message is an event behind all the others.     *)
LEMMA OrderAppended ==
  ASSUME NEW S, NEW q \in Seq(S), NEW m \in S, NEW r, r = Append(q, m), InOrder(q),
         m.kind = "session" => \A a \in Events(q) : Earlier(a, m.id)
  PROVE  InOrder(r)
<1>1. /\ Len(r) = Len(q) + 1 /\ Len(q) \in Nat /\ r[Len(q) + 1] = m
      /\ DOMAIN q = 1 .. Len(q) /\ DOMAIN r = 1 .. Len(q) + 1
      /\ \A i \in 1 .. Len(q) : r[i] = q[i]
  OBVIOUS
<1>2. ASSUME NEW i \in DOMAIN r, NEW j \in DOMAIN r, i < j,
             r[i].kind = "session", r[j].kind = "session"
      PROVE  Earlier(r[i].id, r[j].id)
  <2>1. i \in DOMAIN q /\ r[i] = q[i]
    BY <1>1, <1>2
  <2>2. q[i].id \in Events(q)
    BY <1>2, <2>1 DEF Events
  <2>3. CASE j = Len(q) + 1
    BY <1>1, <1>2, <2>1, <2>2, <2>3
  <2>4. CASE j \in DOMAIN q
    <3>1. r[j] = q[j]
      BY <1>1, <2>4
    <3> QED BY <1>2, <2>1, <2>4, <3>1 DEF InOrder
  <2> QED BY <1>1, <2>3, <2>4
<1> QED BY <1>2 DEF InOrder

(* ... and when its first message is taken.                                *)
LEMMA FirstTaken ==
  ASSUME NEW S, NEW q \in Seq(S), q # <<>>, NEW r, r = Tail(q), InOrder(q)
  PROVE  /\ r \in Seq(S) /\ InOrder(r)
         /\ q[1].kind = "session" => /\ Events(q) = Events(r) \cup {q[1].id}
                                     /\ \A b \in Events(r) : Earlier(q[1].id, b)
         /\ q[1].kind # "session" => Events(q) = Events(r)
<1>1. /\ Len(q) = Len(r) + 1 /\ Len(r) \in Nat /\ r \in Seq(S)
      /\ DOMAIN q = 1 .. Len(r) + 1 /\ DOMAIN r = 1 .. Len(r)
      /\ \A i \in 1 .. Len(r) : r[i] = q[i + 1]
  OBVIOUS
<1>2. \A i \in DOMAIN r : i + 1 \in DOMAIN q /\ r[i] = q[i + 1] /\ 1 < i + 1
  BY <1>1
<1>3. 1 \in DOMAIN q /\ \A j \in DOMAIN q : j = 1 \/ \E i \in DOMAIN r : j = i + 1
  <2>1. 1 \in DOMAIN q
    BY <1>1
  <2>2. ASSUME NEW j \in DOMAIN q, j # 1 PROVE j - 1 \in DOMAIN r /\ j = (j - 1) + 1
    BY <1>1, <2>2
  <2> QED BY <2>1, <2>2
<1>4. \A b \in Events(r) : \E i \in DOMAIN r : r[i].kind = "session" /\ b = r[i].id
  BY DEF Events
<1>5. ASSUME NEW b \in Events(r), q[1].kind = "session" PROVE Earlier(q[1].id, b)
  <2>1. PICK i \in DOMAIN r : r[i].kind = "session" /\ b = r[i].id
    BY <1>4
  <2>2. i + 1 \in DOMAIN q /\ r[i] = q[i + 1] /\ 1 < i + 1
    BY <1>2
  <2> QED BY <1>3, <1>5, <2>1, <2>2 DEF InOrder
<1>6. ASSUME NEW b \in Events(r) PROVE b \in Events(q)
  <2>1. PICK i \in DOMAIN r : r[i].kind = "session" /\ b = r[i].id
    BY <1>4
  <2>2. PICK j \in DOMAIN q : r[i] = q[j]
    BY <1>2
  <2> QED BY <2>1, <2>2 DEF Events
<1>7. ASSUME NEW b \in Events(q) PROVE (q[1].kind = "session" /\ b = q[1].id) \/ b \in Events(r)
  <2>1. PICK j \in DOMAIN q : q[j].kind = "session" /\ b = q[j].id
    BY DEF Events
  <2>2. ASSUME j # 1 PROVE b \in Events(r)
    <3>1. PICK i \in DOMAIN r : j = i + 1
      BY <1>3, <2>2
    <3>2. r[i] = q[j]
      BY <1>2, <3>1
    <3> QED BY <2>1, <3>2 DEF Events
  <2> QED BY <2>1, <2>2
<1>8. q[1].kind = "session" => q[1].id \in Events(q)
  BY <1>3 DEF Events
<1>9. ASSUME NEW i \in DOMAIN r, NEW j \in DOMAIN r, i < j,
             r[i].kind = "session", r[j].kind = "session"
      PROVE  Earlier(r[i].id, r[j].id)
  <2>1. i + 1 \in DOMAIN q /\ r[i] = q[i + 1] /\ j + 1 \in DOMAIN q /\ r[j] = q[j + 1]
    BY <1>2
  <2>2. i + 1 < j + 1
    BY <1>1, <1>9
  <2>3. PICK u \in DOMAIN q, v \in DOMAIN q : u < v /\ r[i] = q[u] /\ r[j] = q[v]
    BY <2>1, <2>2
  <2> QED BY <1>9, <2>3 DEF InOrder
<1>10. InOrder(r)
  BY <1>9 DEF InOrder
<1> QED BY <1>1, <1>5, <1>6, <1>7, <1>8, <1>10

-----------------------------------------------------------------------------
(* Stretches of the events published: those after the first a, up to the   *)
(* b-th.                                                                   *)
Span(p, a, b) == {p[i] : i \in a + 1 .. b}

(* A sequence of events in order.                                          *)
Sorted(p) == \A i, j \in 1 .. Len(p) : i < j => Earlier(p[i], p[j])

(* How stretches begin, grow, join and follow each other.                  *)
LEMMA SpanEmpty ==
  ASSUME NEW p, NEW a \in Nat
  PROVE  Span(p, a, a) = {}
<1>1. a + 1 .. a = {}
  OBVIOUS
<1> QED BY <1>1 DEF Span

(* One more.                                                               *)
LEMMA SpanNext ==
  ASSUME NEW p, NEW a \in Nat, NEW b \in Nat, a <= b, NEW k, k = b + 1
  PROVE  Span(p, a, k) = Span(p, a, b) \cup {p[k]}
<1>1. a + 1 .. k = (a + 1 .. b) \cup {k}
  OBVIOUS
<1> QED BY <1>1 DEF Span

(* Two that meet.                                                          *)
LEMMA SpanJoins ==
  ASSUME NEW p, NEW a \in Nat, NEW b \in Nat, NEW n \in Nat, a <= b, b <= n
  PROVE  Span(p, a, n) = Span(p, a, b) \cup Span(p, b, n)
<1>1. a + 1 .. n = (a + 1 .. b) \cup (b + 1 .. n)
  OBVIOUS
<1> QED BY <1>1 DEF Span

(* The events of an earlier stretch come before those of a later one.      *)
LEMMA SpanSorted ==
  ASSUME NEW S, NEW p \in Seq(S), Sorted(p), NEW a \in Nat, NEW b \in Nat, NEW n \in Nat,
         a <= b, b <= n, n <= Len(p)
  PROVE  \A x \in Span(p, a, b) : \A y \in Span(p, b, n) : Earlier(x, y)
<1> TAKE x \in Span(p, a, b)
<1> TAKE y \in Span(p, b, n)
<1>1. PICK i \in a + 1 .. b : x = p[i]
  BY DEF Span
<1>2. PICK j \in b + 1 .. n : y = p[j]
  BY DEF Span
<1>3. i \in 1 .. Len(p) /\ j \in 1 .. Len(p) /\ i < j
  <2>1. Len(p) \in Nat
    OBVIOUS
  <2> QED BY <2>1
<1> QED BY <1>1, <1>2, <1>3 DEF Sorted

(* Publishing one more event leaves the stretches that end before it.      *)
LEMMA SpanKeeps ==
  ASSUME NEW S, NEW p \in Seq(S), NEW s \in S, NEW a \in Nat, a <= Len(p)
  PROVE  /\ \A b \in Nat : b <= Len(p) => Span(Append(p, s), a, b) = Span(p, a, b)
         /\ Span(Append(p, s), a, Len(p) + 1) = Span(p, a, Len(p)) \cup {s}
<1> DEFINE q == Append(p, s)
<1>n. PICK n \in Nat, k \in Nat : n = Len(p) /\ k = n + 1
  OBVIOUS
<1>1. /\ Len(q) = Len(p) + 1 /\ Len(p) \in Nat /\ q[Len(p) + 1] = s
      /\ \A i \in 1 .. Len(p) : q[i] = p[i]
  OBVIOUS
<1>2. ASSUME NEW c \in Nat, c <= Len(p) PROVE Span(q, a, c) = Span(p, a, c)
  <2>1. \A i \in a + 1 .. c : i \in 1 .. Len(p)
    BY <1>1, <1>2
  <2>2. \A i \in a + 1 .. c : q[i] = p[i]
    BY <1>1, <2>1
  <2> QED BY <2>2 DEF Span
<1> HIDE DEF q
<1>3. q[k] = s /\ a <= n
  BY <1>n, <1>1
<1>4. Span(q, a, k) = Span(q, a, n) \cup {q[k]}
  <2>1. a + 1 .. k = (a + 1 .. n) \cup {k}
    BY <1>n, <1>3
  <2> QED BY <2>1 DEF Span
<1>5. Span(q, a, n) = Span(p, a, n)
  BY <1>n, <1>2
<1>6. Span(q, a, k) = Span(p, a, n) \cup {s}
  BY <1>3, <1>4, <1>5
<1> QED BY <1>n, <1>2, <1>6 DEF q

-----------------------------------------------------------------------------
(* The broadcast channel holds the events that Run has not taken, in order. *)
ChannelGrows ==
  /\ broadcast \in Seq(Queued) /\ Len(broadcast) <= BroadcastCap
  /\ taken \in Nat /\ taken <= Len(published)
  /\ Events(broadcast) = Span(published, taken, Len(published))
  /\ InOrder(broadcast)

(* Nothing is in the channel at first.                                     *)
LEMMA ChannelStarts == Init => ChannelGrows
<1> SUFFICES ASSUME Init PROVE ChannelGrows
  OBVIOUS
<1>1. broadcast = <<>> /\ published = <<>> /\ taken = 0
  BY DEF Init
<1>2. Len(published) = 0 /\ Len(broadcast) = 0 /\ 0 <= BroadcastCap /\ broadcast \in Seq(Queued)
  BY <1>1, FeedAssumption
<1>3. Events(broadcast) = {} /\ InOrder(broadcast)
  BY <1>1 DEF Events, InOrder
<1>4. Span(published, 0, 0) = {}
  BY SpanEmpty
<1>5. Events(broadcast) = Span(published, taken, Len(published))
  BY <1>1, <1>2, <1>3, <1>4
<1>6. taken \in Nat /\ taken <= Len(published) /\ Len(broadcast) <= BroadcastCap
  BY <1>1, <1>2
<1> QED BY <1>2, <1>3, <1>5, <1>6 DEF ChannelGrows

(* A step that does not touch the channel.                                 *)
LEMMA ChannelRests ==
  ASSUME ChannelGrows, UNCHANGED <<broadcast, published, taken>>
  PROVE  ChannelGrows'
BY DEF ChannelGrows, Span, Events, InOrder

(* A message is put in the channel.                                        *)
LEMMA ChannelFills ==
  ASSUME NEW q \in Seq(Queued), NEW m \in Queued, Len(q) < BroadcastCap, NEW r, r = Append(q, m)
  PROVE  r \in Seq(Queued) /\ Len(r) <= BroadcastCap
<1>1. r \in Seq(Queued) /\ Len(r) = Len(q) + 1 /\ Len(q) \in Nat
  OBVIOUS
<1>2. BroadcastCap \in Nat
  BY FeedAssumption
<1> QED BY <1>1, <1>2

(* The event of a header goes behind all that were published.              *)
LEMMA HeaderInChannel ==
  ASSUME HubTypeOK, EventsGrow, ChannelGrows, HeaderQueued
  PROVE  ChannelGrows'
<1>1. /\ waiting # <<>> /\ Len(broadcast) < BroadcastCap
      /\ broadcast' = broadcast \o waiting
      /\ published' = Append(published, waiting[1].id) /\ taken' = taken
  BY DEF HeaderQueued
<1>2. PICK m \in Queued : waiting = <<m>> /\ m = Session(Stamp)
  <2>1. waiting \in Seq(Queued) /\ Len(waiting) <= 1 /\ waiting[1] = Session(Stamp)
    BY <1>1 DEF EventsGrow
  <2>2. Len(waiting) = 1
    <3>1. Len(waiting) \in Nat /\ Len(waiting) # 0
      BY <1>1, <2>1
    <3>2. PICK k \in Nat : k = Len(waiting) /\ k # 0 /\ k <= 1
      BY <2>1, <3>1
    <3>3. k = 1
      BY <3>2
    <3> QED BY <3>2, <3>3
  <2>3. waiting = <<waiting[1]>> /\ waiting[1] \in Queued
    BY <2>1, <2>2
  <2> QED BY <2>1, <2>3
<1>3. m.kind = "session" /\ m.id = Stamp /\ waiting[1] = m
  BY <1>2 DEF Session
<1>4. /\ broadcast \in Seq(Queued) /\ taken \in Nat /\ taken <= Len(published)
      /\ Events(broadcast) = Span(published, taken, Len(published)) /\ InOrder(broadcast)
  BY DEF ChannelGrows
<1>5. broadcast' = Append(broadcast, m)
  BY <1>1, <1>2, <1>4
<1>6. published \in Seq(Stamps) /\ Stamp \in Stamps /\ published' = Append(published, Stamp)
  BY <1>1, <1>3, StampIs DEF EventsGrow
<1>7. broadcast' \in Seq(Queued) /\ Len(broadcast') <= BroadcastCap
  BY <1>1, <1>4, <1>5, ChannelFills
<1>8. Events(broadcast') = Events(broadcast) \cup {Stamp}
  <2>1. m \in Queued /\ broadcast \in Seq(Queued)
    BY <1>2, <1>4
  <2>2. Events(Append(broadcast, m)) = Events(broadcast) \cup {m.id}
    BY <1>3, <2>1, EventsAppended
  <2> QED BY <1>3, <1>5, <2>2
<1>9. Len(published) \in Nat /\ Len(published') = Len(published) + 1
  BY <1>6
<1>10. Span(published', taken, Len(published')) = Span(published, taken, Len(published)) \cup {Stamp}
  <2>1. published \in Seq(Stamps) /\ Stamp \in Stamps /\ taken \in Nat /\ taken <= Len(published)
    BY <1>4, <1>6
  <2>2. Span(Append(published, Stamp), taken, Len(published) + 1)
          = Span(published, taken, Len(published)) \cup {Stamp}
    BY <2>1, SpanKeeps
  <2> QED BY <1>6, <1>9, <2>2
<1>11. ASSUME NEW a \in Events(broadcast) PROVE Earlier(a, Stamp)
  <2>1. PICK i \in taken + 1 .. Len(published) : a = published[i]
    BY <1>4 DEF Span
  <2>2. i \in 1 .. Len(published)
    BY <1>4, <1>9
  <2> QED BY <1>1, <2>1, <2>2 DEF EventsGrow
<1>12. InOrder(broadcast')
  BY <1>2, <1>3, <1>4, <1>5, <1>11, OrderAppended
<1>13. taken' \in Nat /\ taken' <= Len(published')
  BY <1>1, <1>4, <1>9
<1>14. Events(broadcast)' = Events(broadcast') /\ InOrder(broadcast)' = InOrder(broadcast')
  BY DEF Events, InOrder
<1>15. Span(published, taken, Len(published))' = Span(published', taken, Len(published'))
  BY <1>1 DEF Span
<1> QED BY <1>4, <1>7, <1>8, <1>10, <1>12, <1>13, <1>14, <1>15 DEF ChannelGrows

(* A status is no event.                                                   *)
LEMMA StatusInChannel ==
  ASSUME NEW p \in Publishers, ChannelGrows, QueueStatus(p)
  PROVE  ChannelGrows'
<1>1. /\ Len(broadcast) < BroadcastCap /\ broadcast' = Append(broadcast, Status(pub[p] = "on"))
      /\ UNCHANGED <<published, taken>>
  BY DEF QueueStatus
<1>2. PICK m : m = Status(pub[p] = "on")
  OBVIOUS
<1>3. (pub[p] = "on") \in BOOLEAN
  OBVIOUS
<1>4. NoStamp \in Stamps
  BY HubAssumption DEF NoStamp, Stamps
<1>5. m \in Queued /\ m.kind = "status"
  BY <1>2, <1>3, <1>4 DEF Status, Queued
<1>6. broadcast \in Seq(Queued) /\ InOrder(broadcast) /\ broadcast' = Append(broadcast, m)
  BY <1>1, <1>2 DEF ChannelGrows
<1>7. broadcast' \in Seq(Queued) /\ Len(broadcast') <= BroadcastCap
  BY <1>1, <1>5, <1>6, ChannelFills
<1>8. Events(broadcast') = Events(broadcast)
  <2>1. Events(Append(broadcast, m)) = Events(broadcast)
    BY <1>5, <1>6, EventsAppended
  <2> QED BY <1>6, <2>1
<1>9. InOrder(broadcast')
  BY <1>5, <1>6, OrderAppended
<1>10. Events(broadcast)' = Events(broadcast') /\ InOrder(broadcast)' = InOrder(broadcast')
  BY DEF Events, InOrder
<1>11. Span(published, taken, Len(published))' = Span(published, taken, Len(published))
  BY <1>1 DEF Span
<1> QED BY <1>1, <1>7, <1>8, <1>9, <1>10, <1>11 DEF ChannelGrows

(* What Run takes from the channel: if it is an event, it is the next one. *)
LEMMA NextTaken ==
  ASSUME EventsGrow, ChannelGrows, broadcast # <<>>
  PROVE  broadcast[1].kind = "session" =>
           /\ taken + 1 <= Len(published)
           /\ broadcast[1].id = published[taken + 1]
           /\ Events(Tail(broadcast)) = Span(published, taken + 1, Len(published))
<1> SUFFICES ASSUME broadcast[1].kind = "session"
             PROVE  /\ taken + 1 <= Len(published)
                    /\ broadcast[1].id = published[taken + 1]
                    /\ Events(Tail(broadcast)) = Span(published, taken + 1, Len(published))
  OBVIOUS
<1>1. PICK b, r, n, t : b = broadcast[1].id /\ r = Tail(broadcast) /\ n = Len(published) /\ t = taken
  OBVIOUS
<1>2. /\ broadcast \in Seq(Queued) /\ t \in Nat /\ t <= n
      /\ Events(broadcast) = Span(published, t, n) /\ InOrder(broadcast)
  BY <1>1 DEF ChannelGrows
<1>3. Events(broadcast) = Events(r) \cup {b} /\ \A x \in Events(r) : Earlier(b, x)
  BY <1>1, <1>2, FirstTaken
<1>4. published \in Seq(Stamps) /\ Sorted(published)
  BY DEF EventsGrow, Sorted
<1>5. n \in Nat /\ \A i \in 1 .. n : published[i] \in Stamps
  BY <1>1, <1>4, Elements
<1>6. PICK j \in t + 1 .. n : b = published[j]
  BY <1>2, <1>3 DEF Span
<1>7. t + 1 <= n /\ t + 1 \in 1 .. n /\ j \in 1 .. n /\ t + 1 \in t + 1 .. n /\ t + 1 <= j
  BY <1>2, <1>5, <1>6
<1>8. b \in Stamps /\ published[t + 1] \in Stamps
  BY <1>5, <1>6, <1>7
<1>9. b = published[t + 1]
  <2> SUFFICES ASSUME b # published[t + 1] PROVE FALSE
    OBVIOUS
  <2>1. published[t + 1] \in Events(r)
    BY <1>2, <1>3, <1>7 DEF Span
  <2>2. Earlier(b, published[t + 1])
    BY <1>3, <2>1
  <2>3. t + 1 < j
    BY <1>2, <1>6, <1>7
  <2>4. Earlier(published[t + 1], b)
    BY <1>1, <1>4, <1>6, <1>7, <2>3 DEF Sorted
  <2> QED BY <1>8, <2>2, <2>4, StampsAre
<1>10. b \notin Events(r)
  BY <1>3, <1>8, StampsAre
<1>11. t + 1 \in Nat
  BY <1>2
<1>12. Span(published, t, n) = Span(published, t, t + 1) \cup Span(published, t + 1, n)
  <2>1. PICK k \in Nat : k = t + 1 /\ t <= k /\ k <= n
    BY <1>2, <1>7
  <2>2. k \in Nat /\ n \in Nat /\ t \in Nat /\ t <= k /\ k <= n
    BY <1>2, <1>5, <2>1
  <2>3. t + 1 .. n = (t + 1 .. k) \cup (k + 1 .. n)
    BY <2>2
  <2>4. Span(published, t, n) = Span(published, t, k) \cup Span(published, k, n)
    BY <2>3 DEF Span
  <2> QED BY <2>1, <2>4
<1>13. Span(published, t, t + 1) = {b}
  <2>1. t \in Nat /\ t <= t
    BY <1>2
  <2>2. Span(published, t, t) = {}
    BY <2>1, SpanEmpty
  <2>3. PICK k : k = t + 1
    OBVIOUS
  <2>4. Span(published, t, k) = Span(published, t, t) \cup {published[k]}
    BY <2>1, <2>3, SpanNext
  <2> QED BY <1>9, <2>2, <2>3, <2>4
<1>14. b \notin Span(published, t + 1, n)
  <2> SUFFICES ASSUME b \in Span(published, t + 1, n) PROVE FALSE
    OBVIOUS
  <2>1. PICK i \in (t + 1) + 1 .. n : b = published[i]
    BY DEF Span
  <2>2. i \in 1 .. n /\ t + 1 < i
    BY <1>2, <1>5, <2>1
  <2>3. Earlier(b, b)
    BY <1>1, <1>4, <1>7, <1>9, <2>1, <2>2 DEF Sorted
  <2> QED BY <1>8, <2>3, StampsAre
<1>15. Events(r) = Span(published, t + 1, n)
  <2>1. PICK A, B : A = Events(r) /\ B = Span(published, t + 1, n)
    OBVIOUS
  <2>2. A \cup {b} = {b} \cup B /\ b \notin A /\ b \notin B
    BY <1>2, <1>3, <1>10, <1>12, <1>13, <1>14, <2>1
  <2>3. A = B
    BY <2>2
  <2> QED BY <2>1, <2>3
<1> QED BY <1>1, <1>7, <1>9, <1>15

(* Run takes the first message.                                            *)
LEMMA ChannelEmpties ==
  ASSUME EventsGrow, ChannelGrows, broadcast # <<>>, broadcast' = Tail(broadcast),
         CountTaken, published' = published
  PROVE  ChannelGrows'
<1>1. /\ broadcast \in Seq(Queued) /\ Len(broadcast) <= BroadcastCap /\ InOrder(broadcast)
      /\ taken \in Nat /\ taken <= Len(published)
      /\ Events(broadcast) = Span(published, taken, Len(published))
  BY DEF ChannelGrows
<1>2. broadcast' \in Seq(Queued) /\ Len(broadcast') = Len(broadcast) - 1 /\ Len(broadcast) \in Nat
  BY <1>1
<1>3. Len(broadcast') <= BroadcastCap
  BY <1>1, <1>2, FeedAssumption
<1>4. InOrder(broadcast') /\ (broadcast[1].kind # "session" => Events(broadcast') = Events(broadcast))
  BY <1>1, FirstTaken
<1>5. /\ taken' \in Nat /\ taken' <= Len(published)
      /\ Events(broadcast') = Span(published, taken', Len(published))
  <2>1. CASE broadcast[1].kind = "session"
    <3>1. taken' = taken + 1
      BY <2>1 DEF CountTaken
    <3> QED BY <1>1, <2>1, <3>1, NextTaken
  <2>2. CASE broadcast[1].kind # "session"
    <3>1. taken' = taken
      BY <2>2 DEF CountTaken
    <3> QED BY <1>1, <1>4, <2>2, <3>1
  <2> QED BY <2>1, <2>2
<1>6. Events(broadcast)' = Events(broadcast') /\ InOrder(broadcast)' = InOrder(broadcast')
  BY DEF Events, InOrder
<1>7. Span(published, taken, Len(published))' = Span(published, taken', Len(published))
  BY DEF Span
<1> QED BY <1>2, <1>3, <1>4, <1>5, <1>6, <1>7 DEF ChannelGrows

(* Every step keeps the channel.                                           *)
LEMMA ChannelKeeps ==
  ASSUME HubTypeOK, EventsGrow, ChannelGrows, [Next]_vars
  PROVE  ChannelGrows'
<1>1. ASSUME HubStep PROVE ChannelGrows'
  BY <1>1, ChannelRests DEF HubStep, SessionBegins, SessionEnded, SessionEnds, HeaderAccepted,
                            FrameArrives, feedVars
<1>2. ASSUME Stop \/ RunStops \/ UNCHANGED vars PROVE ChannelGrows'
  BY <1>2, ChannelRests DEF Stop, RunStops, vars, feedVars
<1>3. ASSUME NEW p \in Publishers, TakeSnapshot(p) PROVE ChannelGrows'
  BY <1>3, ChannelRests DEF TakeSnapshot
<1>4. ASSUME (\E c \in Clients : RunReceives(c)) \/ RunAdds \/ RunTearsDown PROVE ChannelGrows'
  BY <1>4, ChannelRests DEF RunReceives, RunAdds, RunTearsDown
<1>5. ASSUME RunBroadcasts PROVE ChannelGrows'
  <2>1. /\ broadcast # <<>> /\ broadcast' = Tail(broadcast) /\ CountTaken
        /\ published' = published
    BY <1>5 DEF RunBroadcasts
  <2> QED BY <2>1, ChannelEmpties
<1>6. ASSUME NEW c \in Clients, ClientStep(c) PROVE ChannelGrows'
  BY <1>6, ChannelRests DEF ClientStep, Upgrade, Snapshot, Greet, TextPump, BinaryPump,
                            AnswerInit, Teardown, Removes
<1> QED BY <1>1, <1>2, <1>3, <1>4, <1>5, <1>6, Steps, HeaderInChannel, StatusInChannel DEF RunContinues

(* A page that came in after the first "from" events has been told those   *)
(* in ids, has the others up to the n-th in its queue, and gets them all   *)
(* in order.                                                               *)
Told(from, ids, q, p, n) ==
  /\ from \in Nat /\ from <= n
  /\ Range(ids) \cup Events(q) = Span(p, from, n)
  /\ Sorted(ids) /\ InOrder(q)
  /\ \A a \in Range(ids) : \A b \in Events(q) : Earlier(a, b)

(* A page that gets one more event.                                        *)
LEMMA RangeAppended ==
  ASSUME NEW S, NEW p \in Seq(S), NEW s \in S
  PROVE  Range(Append(p, s)) = Range(p) \cup {s}
<1> DEFINE q == Append(p, s)
<1>1. /\ Len(p) \in Nat /\ DOMAIN p = 1 .. Len(p) /\ DOMAIN q = 1 .. Len(p) + 1
      /\ q[Len(p) + 1] = s /\ \A i \in 1 .. Len(p) : q[i] = p[i]
  OBVIOUS
<1> HIDE DEF q
<1>2. PICK k : k = Len(p) + 1
  OBVIOUS
<1>3. DOMAIN q = DOMAIN p \cup {k} /\ q[k] = s /\ \A i \in DOMAIN p : q[i] = p[i]
  BY <1>1, <1>2
<1>4. Range(q) = Range(p) \cup {s}
  BY <1>3 DEF Range
<1> QED BY <1>4 DEF q

(* It is in order if the event is later than those it has.                 *)
LEMMA SortedAppended ==
  ASSUME NEW S, NEW p \in Seq(S), NEW s \in S, Sorted(p), \A a \in Range(p) : Earlier(a, s)
  PROVE  Sorted(Append(p, s))
<1> DEFINE q == Append(p, s)
<1>1. /\ Len(p) \in Nat /\ DOMAIN p = 1 .. Len(p) /\ Len(q) = Len(p) + 1
      /\ q[Len(p) + 1] = s /\ \A i \in 1 .. Len(p) : q[i] = p[i]
  OBVIOUS
<1> HIDE DEF q
<1>2. \A i \in 1 .. Len(p) : Earlier(p[i], s)
  BY <1>1 DEF Range
<1>3. ASSUME NEW i \in 1 .. Len(q), NEW j \in 1 .. Len(q), i < j PROVE Earlier(q[i], q[j])
  <2>1. i \in 1 .. Len(p)
    BY <1>1, <1>3
  <2>2. CASE j = Len(p) + 1
    BY <1>1, <1>2, <2>1, <2>2
  <2>3. CASE j \in 1 .. Len(p)
    BY <1>1, <1>3, <2>1, <2>3 DEF Sorted
  <2> QED BY <1>1, <2>2, <2>3
<1>4. Sorted(q)
  BY <1>3 DEF Sorted
<1> QED BY <1>4 DEF q

(* One that comes in now has been told nothing and needs nothing.          *)
LEMMA ToldNothing ==
  ASSUME NEW q, NEW p, NEW n \in Nat, Events(q) = {}, NEW ids, ids = <<>>
  PROVE  Told(n, ids, q, p, n)
<1>1. Span(p, n, n) = {}
  BY SpanEmpty
<1>2. Range(ids) = {} /\ Sorted(ids)
  <2>1. DOMAIN ids = {} /\ Len(ids) = 0
    OBVIOUS
  <2> QED BY <2>1 DEF Range, Sorted
<1>3. InOrder(q)
  BY DEF InOrder, Events
<1> QED BY <1>1, <1>2, <1>3 DEF Told

(* A message that is no event changes nothing.                             *)
LEMMA ToldQuiet ==
  ASSUME NEW S, NEW q \in Seq(S), NEW m \in S, m.kind # "session",
         NEW from, NEW ids, NEW p, NEW n, Told(from, ids, q, p, n)
  PROVE  Told(from, ids, Append(q, m), p, n)
<1>1. Events(Append(q, m)) = Events(q)
  BY EventsAppended
<1>2. InOrder(Append(q, m))
  <2>1. InOrder(q)
    BY DEF Told
  <2>2. PICK r : r = Append(q, m)
    OBVIOUS
  <2>3. InOrder(r)
    BY <2>1, <2>2, OrderAppended
  <2> QED BY <2>2, <2>3
<1> QED BY <1>1, <1>2 DEF Told

(* Run puts the next event in its queue.                                   *)
LEMMA ToldNext ==
  ASSUME NEW S, NEW q \in Seq(S), NEW m \in S, m.kind = "session",
         NEW T, NEW p \in Seq(T), Sorted(p), NEW n \in Nat, NEW k, k = n + 1,
         k <= Len(p), m.id = p[k],
         NEW from, NEW ids, Told(from, ids, q, p, n)
  PROVE  Told(from, ids, Append(q, m), p, k)
<1>1. Events(Append(q, m)) = Events(q) \cup {p[k]}
  BY EventsAppended
<1>2. /\ from \in Nat /\ from <= n /\ Range(ids) \cup Events(q) = Span(p, from, n)
      /\ Sorted(ids) /\ InOrder(q) /\ \A a \in Range(ids) : \A b \in Events(q) : Earlier(a, b)
  BY DEF Told
<1>3. Span(p, from, k) = Span(p, from, n) \cup {p[k]}
  <2>1. from \in Nat /\ from <= n
    BY <1>2
  <2> QED BY <2>1, SpanNext
<1>4. \A a \in Span(p, from, n) : Earlier(a, p[k])
  <2> TAKE a \in Span(p, from, n)
  <2>1. PICK i \in from + 1 .. n : a = p[i]
    BY DEF Span
  <2>2. i \in 1 .. Len(p) /\ k \in 1 .. Len(p) /\ i < k
    <3>1. Len(p) \in Nat
      OBVIOUS
    <3> QED BY <1>2, <3>1
  <2> QED BY <2>1, <2>2 DEF Sorted
<1>5. InOrder(Append(q, m))
  <2>1. InOrder(q) /\ \A a \in Events(q) : Earlier(a, m.id)
    BY <1>2, <1>4
  <2>2. PICK r : r = Append(q, m)
    OBVIOUS
  <2>3. InOrder(r)
    BY <2>1, <2>2, OrderAppended
  <2> QED BY <2>2, <2>3
<1>6. from <= k
  BY <1>2
<1>7. Range(ids) \cup Events(Append(q, m)) = Span(p, from, k)
  BY <1>1, <1>2, <1>3
<1>8. \A a \in Range(ids) : \A b \in Events(Append(q, m)) : Earlier(a, b)
  BY <1>1, <1>2, <1>4
<1> QED BY <1>2, <1>5, <1>6, <1>7, <1>8 DEF Told

(* Its pump writes the first message of the queue.                         *)
LEMMA ToldWritten ==
  ASSUME NEW S, NEW q \in Seq(S), q # <<>>, NEW T, NEW ids \in Seq(T), q[1].id \in T,
         NEW from, NEW p, NEW n, Told(from, ids, q, p, n)
  PROVE  /\ q[1].kind = "session" => Told(from, Append(ids, q[1].id), Tail(q), p, n)
         /\ q[1].kind # "session" => Told(from, ids, Tail(q), p, n)
<1> DEFINE r == Tail(q)  s == q[1].id
<1>1. /\ from \in Nat /\ from <= n /\ Range(ids) \cup Events(q) = Span(p, from, n)
      /\ Sorted(ids) /\ InOrder(q) /\ \A a \in Range(ids) : \A b \in Events(q) : Earlier(a, b)
  BY DEF Told
<1>2. /\ r \in Seq(S) /\ InOrder(r)
      /\ q[1].kind = "session" => /\ Events(q) = Events(r) \cup {s}
                                  /\ \A b \in Events(r) : Earlier(s, b)
      /\ q[1].kind # "session" => Events(q) = Events(r)
  BY <1>1, FirstTaken
<1> HIDE DEF r, s
<1>3. ASSUME q[1].kind # "session" PROVE Told(from, ids, r, p, n)
  BY <1>1, <1>2, <1>3 DEF Told
<1>4. ASSUME q[1].kind = "session" PROVE Told(from, Append(ids, s), r, p, n)
  <2>1. ids \in Seq(T) /\ s \in T
    BY DEF s
  <2>2. Range(Append(ids, s)) = Range(ids) \cup {s}
    BY <2>1, RangeAppended
  <2>3. \A a \in Range(ids) : Earlier(a, s)
    BY <1>1, <1>2, <1>4
  <2>4. Sorted(Append(ids, s))
    BY <1>1, <2>1, <2>3, SortedAppended
  <2>5. Range(Append(ids, s)) \cup Events(r) = Span(p, from, n)
    BY <1>1, <1>2, <1>4, <2>2
  <2>6. \A a \in Range(Append(ids, s)) : \A b \in Events(r) : Earlier(a, b)
    BY <1>1, <1>2, <1>4, <2>2
  <2> QED BY <1>1, <1>2, <2>4, <2>5, <2>6 DEF Told
<1> QED BY <1>3, <1>4 DEF r, s

(* More is published.                                                      *)
LEMMA ToldStill ==
  ASSUME NEW T, NEW p \in Seq(T), NEW s \in T, NEW n \in Nat, n <= Len(p),
         NEW from, NEW ids, NEW q, Told(from, ids, q, p, n)
  PROVE  Told(from, ids, q, Append(p, s), n)
<1>1. from \in Nat /\ from <= Len(p)
  <2>1. from \in Nat /\ from <= n /\ Len(p) \in Nat
    BY DEF Told
  <2> QED BY <2>1
<1>2. Span(Append(p, s), from, n) = Span(p, from, n)
  BY <1>1, SpanKeeps
<1> QED BY <1>2 DEF Told

(* The queues of the clients and what their pages got.                     *)
TextTypes ==
  /\ text \in [Clients -> Seq(Messages)]
  /\ \A c \in Clients : Len(text[c]) <= SendCap
  /\ heard \in [Clients -> [from : Nat, ids : Seq(Stamps)]]

(* Nothing is queued at first.                                             *)
LEMMA TextStarts == Init => TextTypes
<1> SUFFICES ASSUME Init PROVE TextTypes
  OBVIOUS
<1>1. text \in [Clients -> Seq(Messages)] /\ \A c \in Clients : Len(text[c]) = 0
  BY DEF Init
<1>2. <<>> \in Seq(Stamps)
  OBVIOUS
<1>3. heard \in [Clients -> [from : Nat, ids : Seq(Stamps)]]
  BY <1>2 DEF Init
<1>4. 0 <= SendCap
  BY FeedAssumption
<1> QED BY <1>1, <1>3, <1>4 DEF TextTypes

(* What is put in a queue is a message.                                    *)
LEMMA MessagesAre ==
  ASSUME HubTypeOK
  PROVE  /\ \A on \in BOOLEAN : Status(on) \in Messages /\ Status(on).kind = "status"
         /\ InitReply(replay) \in Messages /\ InitReply(replay).kind = "init"
         /\ Queued \subseteq Messages
<1>1. NoStamp \in Stamps /\ Stamp \in Stamps
  BY StampIs, HubAssumption DEF NoStamp, Stamps
<1>2. EmptyReplay \in ReplayType /\ replay \in ReplayType
  BY NothingCached DEF HubTypeOK
<1>3. ASSUME NEW on \in BOOLEAN PROVE Status(on) \in Messages /\ Status(on).kind = "status"
  BY <1>1, <1>2 DEF Status, Messages
<1>4. InitReply(replay) \in Messages /\ InitReply(replay).kind = "init"
  BY <1>1, <1>2 DEF InitReply, Messages
<1>5. Queued \subseteq Messages
  BY <1>2 DEF Queued, Messages
<1> QED BY <1>3, <1>4, <1>5

(* A queue with a message more or less.                                    *)
LEMMA QueueFills ==
  ASSUME NEW q \in Seq(Messages), NEW m \in Messages, Len(q) < SendCap
  PROVE  Append(q, m) \in Seq(Messages) /\ Len(Append(q, m)) <= SendCap
<1>1. Append(q, m) \in Seq(Messages) /\ Len(Append(q, m)) = Len(q) + 1 /\ Len(q) \in Nat
  OBVIOUS
<1>2. SendCap \in Nat
  BY FeedAssumption
<1> QED BY <1>1, <1>2

(* Its first message is taken.                                             *)
LEMMA QueueDrains ==
  ASSUME NEW q \in Seq(Messages), q # <<>>, Len(q) <= SendCap
  PROVE  Tail(q) \in Seq(Messages) /\ Len(Tail(q)) <= SendCap /\ q[1] \in Messages
<1>1. Tail(q) \in Seq(Messages) /\ Len(Tail(q)) = Len(q) - 1 /\ Len(q) \in Nat
  OBVIOUS
<1>2. SendCap \in Nat
  BY FeedAssumption
<1>3. q[1] \in Messages
  OBVIOUS
<1> QED BY <1>1, <1>2, <1>3

(* enqueueText changes the queue of one client, or none.                   *)
LEMMA Enqueued ==
  ASSUME TextTypes, NEW c \in Clients, NEW m \in Messages,
         text' = Enqueue(text, c, m, SendCap)
  PROVE  /\ text' \in [Clients -> Seq(Messages)]
         /\ \A d \in Clients : Len(text'[d]) <= SendCap
         /\ \A d \in Clients : text'[d] = text[d] \/ text'[d] = Append(text[d], m)
<1>1. CASE c \notin closed /\ Len(text[c]) < SendCap
  <2>1. text' = [text EXCEPT ![c] = Append(text[c], m)]
    BY <1>1 DEF Enqueue
  <2>2. Append(text[c], m) \in Seq(Messages) /\ Len(Append(text[c], m)) <= SendCap
    BY <1>1, QueueFills DEF TextTypes
  <2> QED BY <2>1, <2>2 DEF TextTypes
<1>2. CASE ~(c \notin closed /\ Len(text[c]) < SendCap)
  <2>1. text' = text
    BY <1>2 DEF Enqueue
  <2> QED BY <2>1 DEF TextTypes
<1> QED BY <1>1, <1>2

(* What a broadcast does to the queue of each client.                      *)
LEMMA Broadcasts ==
  ASSUME TextTypes, ChannelGrows, HubTypeOK, Goroutines, RunBroadcasts
  PROVE  /\ broadcast # <<>> /\ broadcast[1] \in Messages /\ broadcast[1] \in Queued
         /\ clients' \subseteq clients
         /\ \A c \in Clients : IF c \in clients' THEN /\ Len(text[c]) < SendCap
                                                      /\ text'[c] = Append(text[c], broadcast[1])
                                                 ELSE text'[c] = text[c]
         /\ text' = [c \in Clients |-> text'[c]]
<1>1. broadcast # <<>> /\ broadcast \in Seq(Queued)
  BY DEF RunBroadcasts, ChannelGrows
<1>2. broadcast[1] \in Queued
  BY <1>1
<1>3. broadcast[1] \in Messages
  BY <1>2, MessagesAre
<1>4. PICK gone \in SUBSET (clients \cap closed) :
       /\ \A c \in clients \cap closed : Full(c) => c \in gone
       /\ slow' = {c \in clients \ closed : Full(c)}
       /\ clients' = clients \ (gone \cup slow')
       /\ text' = [c \in Clients |-> IF c \in clients' THEN Append(text[c], broadcast[1])
                                                       ELSE text[c]]
  BY DEF RunBroadcasts
<1>5. ASSUME NEW c \in clients', c \in Clients PROVE Len(text[c]) < SendCap
  <2>1. ~Full(c)
    BY <1>4, <1>5
  <2>2. text[c] \in Seq(Messages)
    BY <1>5 DEF TextTypes
  <2>3. PICK n \in Nat, k \in Nat : n = Len(text[c]) /\ k = SendCap
    BY <2>2, FeedAssumption
  <2>4. ~(n >= k)
    BY <2>1, <2>3 DEF Full
  <2> QED BY <2>3, <2>4
<1>6. clients' \subseteq clients
  BY <1>4
<1>7. \A c \in Clients : text'[c] = IF c \in clients' THEN Append(text[c], broadcast[1])
                                                      ELSE text[c]
  BY <1>4
<1>8. text' = [c \in Clients |-> text'[c]]
  BY <1>4
<1> QED BY <1>1, <1>2, <1>3, <1>5, <1>6, <1>7, <1>8

(* Every step keeps the queues within their length.                        *)
LEMMA TextTypesKeep ==
  ASSUME TextTypes, ChannelGrows, HubTypeOK, Goroutines, [Next]_vars
  PROVE  TextTypes'
<1>1. ASSUME HubStep \/ HeaderQueued PROVE TextTypes'
  BY <1>1 DEF HubStep, SessionBegins, SessionEnded, SessionEnds, HeaderAccepted, FrameArrives,
              HeaderQueued, feedVars, TextTypes
<1>2. ASSUME Stop \/ RunStops \/ UNCHANGED vars PROVE TextTypes'
  BY <1>2 DEF Stop, RunStops, vars, feedVars, TextTypes
<1>3. ASSUME NEW p \in Publishers, TakeSnapshot(p) \/ QueueStatus(p) PROVE TextTypes'
  BY <1>3 DEF TakeSnapshot, QueueStatus, TextTypes
<1>4. ASSUME (\E c \in Clients : RunReceives(c)) \/ RunTearsDown PROVE TextTypes'
  BY <1>4 DEF RunReceives, RunTearsDown, TextTypes
<1>5. ASSUME RunAdds PROVE TextTypes'
  <2>1. heard' = [heard EXCEPT ![adding].from = taken] /\ text' = text /\ adding \in Clients
    BY <1>5 DEF RunAdds, Goroutines
  <2>2. taken \in Nat
    BY DEF ChannelGrows
  <2>3. heard' \in [Clients -> [from : Nat, ids : Seq(Stamps)]]
    BY <2>1, <2>2 DEF TextTypes
  <2> QED BY <2>1, <2>3 DEF TextTypes
<1>6. ASSUME RunBroadcasts PROVE TextTypes'
  <2>1. broadcast[1] \in Messages /\ text' = [c \in Clients |-> text'[c]]
    BY <1>6, Broadcasts
  <2>2. ASSUME NEW c \in Clients PROVE text'[c] \in Seq(Messages) /\ Len(text'[c]) <= SendCap
    <3>1. text[c] \in Seq(Messages) /\ Len(text[c]) <= SendCap
      BY DEF TextTypes
    <3>2. \/ text'[c] = text[c]
          \/ Len(text[c]) < SendCap /\ text'[c] = Append(text[c], broadcast[1])
      BY <1>6, Broadcasts
    <3> QED BY <2>1, <3>1, <3>2, QueueFills
  <2>3. text' \in [Clients -> Seq(Messages)]
    BY <2>1, <2>2
  <2>4. heard' = heard
    BY <1>6 DEF RunBroadcasts
  <2> QED BY <2>2, <2>3, <2>4 DEF TextTypes
<1>7. ASSUME NEW c \in Clients, ClientStep(c) PROVE TextTypes'
  <2>1. ASSUME Greet(c) PROVE TextTypes'
    <3>1. text' = Enqueue(text, c, Status(phase[c] = "on"), SendCap) /\ heard' = heard
      BY <2>1 DEF Greet
    <3>2. Status(phase[c] = "on") \in Messages
      BY MessagesAre
    <3> QED BY <3>1, <3>2, Enqueued DEF TextTypes
  <2>2. ASSUME AnswerInit(c) PROVE TextTypes'
    <3>1. text' = Enqueue(text, c, InitReply(replay), SendCap) /\ heard' = heard
      BY <2>2 DEF AnswerInit
    <3>2. InitReply(replay) \in Messages
      BY MessagesAre
    <3> QED BY <3>1, <3>2, Enqueued DEF TextTypes
  <2>3. ASSUME TextPump(c) PROVE TextTypes'
    <3>1. /\ text[c] # <<>> /\ text' = [text EXCEPT ![c] = Tail(text[c])]
          /\ heard' = IF text[c][1].kind = "session"
                      THEN [heard EXCEPT ![c].ids = Append(heard[c].ids, text[c][1].id)] ELSE heard
      BY <2>3 DEF TextPump
    <3>2. text[c] \in Seq(Messages) /\ Len(text[c]) <= SendCap
      BY DEF TextTypes
    <3>3. Tail(text[c]) \in Seq(Messages) /\ Len(Tail(text[c])) <= SendCap /\ text[c][1] \in Messages
      BY <3>1, <3>2, QueueDrains
    <3>4. text' \in [Clients -> Seq(Messages)] /\ \A d \in Clients : Len(text'[d]) <= SendCap
      BY <3>1, <3>3 DEF TextTypes
    <3>5. text[c][1].id \in Stamps
      BY <3>3 DEF Messages
    <3>6. heard[c] \in [from : Nat, ids : Seq(Stamps)]
      BY DEF TextTypes
    <3>7. Append(heard[c].ids, text[c][1].id) \in Seq(Stamps)
      BY <3>5, <3>6
    <3>8. heard' \in [Clients -> [from : Nat, ids : Seq(Stamps)]]
      BY <3>1, <3>7 DEF TextTypes
    <3> QED BY <3>4, <3>8 DEF TextTypes
  <2>4. ASSUME \/ Upgrade(c) \/ Snapshot(c) \/ BinaryPump(c) \/ Teardown(c) \/ Removes(c)
        PROVE TextTypes'
    BY <2>4 DEF Upgrade, Snapshot, BinaryPump, Teardown, Removes, TextTypes
  <2> QED BY <1>7, <2>1, <2>2, <2>3, <2>4 DEF ClientStep
<1> QED BY <1>1, <1>2, <1>3, <1>4, <1>5, <1>6, <1>7, Steps DEF RunContinues

-----------------------------------------------------------------------------
(* A client that Run has not added has been told nothing; one it has added *)
(* and that is not closed has been told, or has in its queue, every event  *)
(* that Run has taken since.                                               *)
Fresh(c) == phase[c] \in {"none", "register"} \/ adding = c

ViewersTold ==
  /\ adding # NoClient => phase[adding] \notin {"none", "register"}
  /\ \A c \in Clients : Fresh(c) => /\ c \notin clients /\ heard[c].ids = <<>>
                                    /\ Events(text[c]) = {}
  /\ \A c \in clients \ closed : Told(heard[c].from, heard[c].ids, text[c], published, taken)

(* Nobody is registered at first.                                          *)
LEMMA ViewersStart == Init => ViewersTold
BY DEF Init, ViewersTold, Events

(* A step that at most drops or closes clients.                            *)
LEMMA ViewersRest ==
  ASSUME ViewersTold, UNCHANGED <<text, heard, published, taken, phase, adding>>,
         clients' \subseteq clients, closed \subseteq closed'
  PROVE  ViewersTold'
<1>1. \A c \in Clients : Fresh(c)' <=> Fresh(c)
  BY DEF Fresh
<1>2. ASSUME NEW c \in clients' \ closed'
      PROVE  Told(heard'[c].from, heard'[c].ids, text'[c], published', taken')
  <2>1. c \in clients \ closed
    OBVIOUS
  <2> QED BY <2>1 DEF ViewersTold
<1>3. adding' # NoClient => phase'[adding'] \notin {"none", "register"}
  BY DEF ViewersTold
<1>4. \A c \in Clients : Fresh(c)' => /\ c \notin clients' /\ heard'[c].ids = <<>>
                                      /\ Events(text'[c]) = {}
  BY <1>1 DEF ViewersTold
<1> QED BY <1>2, <1>3, <1>4 DEF ViewersTold

(* The same for a step that changes the queues or what a page has got: it  *)
(* is enough to look at one client at a time.                              *)
LEMMA ViewersEach ==
  ASSUME ViewersTold,
         adding' # NoClient => phase'[adding'] \notin {"none", "register"},
         \A c \in Clients : Fresh(c)' =>
           /\ Fresh(c) /\ c \notin clients' /\ heard'[c].ids = heard[c].ids
           /\ Events(text'[c]) = Events(text[c]),
         \A c \in clients' \ closed' :
           Told(heard'[c].from, heard'[c].ids, text'[c], published', taken')
  PROVE  ViewersTold'
<1>1. \A c \in Clients : Fresh(c)' => /\ c \notin clients' /\ heard'[c].ids = <<>>
                                      /\ Events(text'[c]) = {}
  BY DEF ViewersTold
<1> QED BY <1>1 DEF ViewersTold

(* An event is published.                                                  *)
LEMMA ViewersHear ==
  ASSUME EventsGrow, ChannelGrows, ViewersTold, HeaderQueued, HubTypeOK, Goroutines
  PROVE  ViewersTold'
<1>1. /\ waiting # <<>> /\ published' = Append(published, waiting[1].id)
      /\ UNCHANGED <<text, heard, taken, phase, adding, clients, closed>>
  BY DEF HeaderQueued, runVars, closing
<1>2. published \in Seq(Stamps) /\ waiting[1].id \in Stamps
  <2>1. waiting[1].id = Stamp
    BY <1>1 DEF EventsGrow, Session
  <2> QED BY <2>1, StampIs DEF EventsGrow
<1>3. taken \in Nat /\ taken <= Len(published)
  BY DEF ChannelGrows
<1>4. ASSUME NEW c \in clients' \ closed'
      PROVE  Told(heard'[c].from, heard'[c].ids, text'[c], published', taken')
  <2>1. Told(heard[c].from, heard[c].ids, text[c], published, taken)
    BY <1>1, <1>4 DEF ViewersTold
  <2>2. Told(heard[c].from, heard[c].ids, text[c], Append(published, waiting[1].id), taken)
    BY <1>2, <1>3, <2>1, ToldStill
  <2> QED BY <1>1, <2>2
<1>5. adding' # NoClient => phase'[adding'] \notin {"none", "register"}
  BY <1>1 DEF ViewersTold
<1>6. \A c \in Clients : Fresh(c)' => /\ Fresh(c) /\ c \notin clients'
  BY <1>1 DEF ViewersTold, Fresh
<1> QED BY <1>1, <1>4, <1>5, <1>6, ViewersEach

(* Run adds a client: it has been told nothing, and its stretch begins     *)
(* here.                                                                   *)
LEMMA ViewersAdded ==
  ASSUME ChannelGrows, ViewersTold, TextTypes, Goroutines, RunAdds
  PROVE  ViewersTold'
<1>1. /\ adding \in Clients /\ adding # NoClient /\ adding' = NoClient
      /\ heard' = [heard EXCEPT ![adding].from = taken]
      /\ clients' \subseteq clients \cup {adding} /\ closed \subseteq closed'
      /\ UNCHANGED <<text, phase, published, taken>>
  BY DEF RunAdds, Goroutines
<1>2. PICK a : a = adding
  OBVIOUS
<1>3. \A c \in Clients : heard'[c].ids = heard[c].ids /\ (c # a => heard'[c] = heard[c])
  BY <1>1, <1>2 DEF TextTypes
<1>4. heard'[a].from = taken
  BY <1>1, <1>2 DEF TextTypes
<1>5. Fresh(a) /\ heard[a].ids = <<>> /\ Events(text[a]) = {}
  BY <1>1, <1>2 DEF ViewersTold, Fresh
<1>6. ASSUME NEW c \in clients' \ closed'
      PROVE  Told(heard'[c].from, heard'[c].ids, text'[c], published', taken')
  <2>1. CASE c = a
    <3>1. heard'[a].ids = <<>> /\ taken \in Nat
      BY <1>1, <1>2, <1>3, <1>5 DEF ChannelGrows
    <3>2. Told(taken, heard'[a].ids, text[a], published, taken)
      BY <1>5, <3>1, ToldNothing
    <3> QED BY <1>1, <1>4, <2>1, <3>2
  <2>2. CASE c # a
    <3>1. c \in clients \ closed /\ c \in Clients
      BY <1>1, <1>2, <1>6, <2>2 DEF Goroutines
    <3>2. Told(heard[c].from, heard[c].ids, text[c], published, taken)
      BY <3>1 DEF ViewersTold
    <3> QED BY <1>1, <1>3, <2>2, <3>1, <3>2
  <2> QED BY <2>1, <2>2
<1>7. ASSUME NEW c \in Clients, Fresh(c)' PROVE Fresh(c) /\ c \notin clients'
  <2>1. phase[c] \in {"none", "register"}
    BY <1>1, <1>7, FeedAssumption DEF Fresh
  <2>2. c # a /\ c \notin clients
    BY <1>1, <1>2, <2>1 DEF ViewersTold, Fresh
  <2> QED BY <1>1, <1>2, <2>1, <2>2 DEF Fresh
<1> QED BY <1>1, <1>3, <1>6, <1>7, ViewersEach

(* Run hands out a message: whoever stays in Hub.clients gets it.          *)
LEMMA ViewersServed ==
  ASSUME EventsGrow, ChannelGrows, ViewersTold, TextTypes, HubTypeOK, Goroutines, RunBroadcasts
  PROVE  ViewersTold'
<1>1. /\ CountTaken /\ UNCHANGED <<heard, published, phase, adding, closed>>
  BY DEF RunBroadcasts, closing
<1>2. PICK m : m = broadcast[1]
  OBVIOUS
<1>3. /\ broadcast # <<>> /\ m \in Messages /\ clients' \subseteq clients
      /\ \A c \in Clients : text'[c] = IF c \in clients' THEN Append(text[c], m) ELSE text[c]
  BY <1>2, Broadcasts
<1>4. published \in Seq(Stamps) /\ Sorted(published) /\ taken \in Nat
  BY DEF EventsGrow, Sorted, ChannelGrows
<1>5. \A c \in Clients : text[c] \in Seq(Messages)
  BY DEF TextTypes
<1>6. ASSUME NEW c \in clients' \ closed'
      PROVE  Told(heard'[c].from, heard'[c].ids, text'[c], published', taken')
  <2>1. c \in clients \ closed /\ c \in Clients
    BY <1>1, <1>3, <1>6 DEF Goroutines
  <2>2. Told(heard[c].from, heard[c].ids, text[c], published, taken) /\ text[c] \in Seq(Messages)
    BY <1>5, <2>1 DEF ViewersTold
  <2>3. text'[c] = Append(text[c], m)
    BY <1>3, <1>6, <2>1
  <2>4. CASE m.kind = "session"
    <3>1. PICK k : k = taken + 1
      OBVIOUS
    <3>2. taken' = k /\ k <= Len(published) /\ m.id = published[k]
      BY <1>1, <1>2, <1>3, <2>4, <3>1, NextTaken DEF CountTaken
    <3>3. Told(heard[c].from, heard[c].ids, Append(text[c], m), published, k)
      BY <1>3, <1>4, <2>2, <2>4, <3>1, <3>2, ToldNext
    <3> QED BY <1>1, <2>3, <3>2, <3>3
  <2>5. CASE m.kind # "session"
    <3>1. taken' = taken
      BY <1>1, <1>2, <2>5 DEF CountTaken
    <3>2. Told(heard[c].from, heard[c].ids, Append(text[c], m), published, taken)
      BY <1>3, <2>2, <2>5, ToldQuiet
    <3> QED BY <1>1, <2>3, <3>1, <3>2
  <2> QED BY <2>4, <2>5
<1>7. ASSUME NEW c \in Clients, Fresh(c)'
      PROVE  Fresh(c) /\ c \notin clients' /\ Events(text'[c]) = Events(text[c])
  <2>1. Fresh(c)
    BY <1>1, <1>7 DEF Fresh
  <2>2. c \notin clients'
    BY <1>3, <2>1 DEF ViewersTold
  <2> QED BY <1>3, <2>1, <2>2
<1>8. adding' # NoClient => phase'[adding'] \notin {"none", "register"}
  BY <1>1 DEF ViewersTold
<1> QED BY <1>1, <1>6, <1>7, <1>8, ViewersEach

(* A status or a screen_init reply changes nothing.                        *)
LEMMA ViewersGreeted ==
  ASSUME ViewersTold, TextTypes, NEW c \in Clients, NEW m \in Messages, m.kind # "session",
         text' = Enqueue(text, c, m, SendCap), Goroutines,
         UNCHANGED <<heard, published, taken, adding, clients, closed>>,
         adding' # NoClient => phase'[adding'] \notin {"none", "register"},
         \A d \in Clients : Fresh(d)' => Fresh(d)
  PROVE  ViewersTold'
<1>1. \A d \in Clients : text'[d] = text[d] \/ text'[d] = Append(text[d], m)
  BY Enqueued
<1>2. ASSUME NEW d \in clients' \ closed'
      PROVE  Told(heard'[d].from, heard'[d].ids, text'[d], published', taken')
  <2>1. d \in clients \ closed /\ d \in Clients
    BY <1>2 DEF Goroutines
  <2>2. Told(heard[d].from, heard[d].ids, text[d], published, taken) /\ text[d] \in Seq(Messages)
    BY <2>1 DEF ViewersTold, TextTypes
  <2>3. Told(heard[d].from, heard[d].ids, Append(text[d], m), published, taken)
    BY <2>2, ToldQuiet
  <2> QED BY <1>1, <2>1, <2>2, <2>3
<1>3. ASSUME NEW d \in Clients PROVE Events(text'[d]) = Events(text[d])
  <2>1. text[d] \in Seq(Messages)
    BY DEF TextTypes
  <2>2. Events(Append(text[d], m)) = Events(text[d])
    BY <2>1, EventsAppended
  <2> QED BY <1>1, <2>2
<1>4. \A d \in Clients : Fresh(d) => d \notin clients
  BY DEF ViewersTold
<1> QED BY <1>2, <1>3, <1>4, ViewersEach

(* A text pump writes the first message of its queue.                      *)
LEMMA ViewersRead ==
  ASSUME ViewersTold, TextTypes, Goroutines, NEW c \in Clients, TextPump(c)
  PROVE  ViewersTold'
<1> DEFINE q == text[c]  ids == heard[c].ids
<1>1. /\ q # <<>> /\ phase[c] = "up" /\ text' = [text EXCEPT ![c] = Tail(q)]
      /\ heard' = IF q[1].kind = "session"
                  THEN [heard EXCEPT ![c].ids = Append(ids, q[1].id)] ELSE heard
      /\ UNCHANGED <<published, taken, adding, clients, closed, phase>>
  BY DEF TextPump, Connected, runVars, closing
<1>2. q \in Seq(Messages) /\ ids \in Seq(Stamps) /\ q[1].id \in Stamps /\ q[1] \in Messages
  <2>1. q \in Seq(Messages) /\ Len(q) <= SendCap /\ heard[c] \in [from : Nat, ids : Seq(Stamps)]
    BY DEF TextTypes
  <2>2. q[1] \in Messages
    BY <1>1, <2>1, QueueDrains
  <2> QED BY <2>1, <2>2 DEF Messages
<1>3. /\ \A d \in Clients : d # c => text'[d] = text[d] /\ heard'[d] = heard[d]
      /\ text'[c] = Tail(q) /\ heard'[c].from = heard[c].from
      /\ heard'[c].ids = IF q[1].kind = "session" THEN Append(ids, q[1].id) ELSE ids
  BY <1>1 DEF TextTypes
<1>4. ASSUME NEW d \in clients' \ closed'
      PROVE  Told(heard'[d].from, heard'[d].ids, text'[d], published', taken')
  <2>1. d \in clients \ closed /\ d \in Clients
    BY <1>1, <1>4 DEF Goroutines
  <2>2. Told(heard[d].from, heard[d].ids, text[d], published, taken)
    BY <2>1 DEF ViewersTold
  <2>3. CASE d # c
    BY <1>1, <1>3, <2>1, <2>2, <2>3
  <2>4. CASE d = c
    <3>1. Told(heard[c].from, ids, q, published, taken)
      BY <2>2, <2>4
    <3> HIDE DEF q, ids
    <3>2. Told(heard[c].from, IF q[1].kind = "session" THEN Append(ids, q[1].id) ELSE ids,
               Tail(q), published, taken)
      BY <1>1, <1>2, <3>1, ToldWritten
    <3> QED BY <1>1, <1>3, <2>4, <3>2
  <2> QED BY <2>3, <2>4
<1>5. ASSUME NEW d \in Clients, Fresh(d)'
      PROVE  /\ Fresh(d) /\ d \notin clients' /\ heard'[d].ids = heard[d].ids
             /\ Events(text'[d]) = Events(text[d])
  <2>1. Fresh(d)
    BY <1>1, <1>5 DEF Fresh
  <2>2. d \notin clients' /\ Events(text[d]) = {}
    BY <1>1, <2>1 DEF ViewersTold
  <2>3. CASE d # c
    BY <1>3, <2>1, <2>2, <2>3
  <2>4. CASE d = c
    <3>1. Events(q) = {}
      BY <2>2, <2>4
    <3> HIDE DEF q, ids
    <3>2. InOrder(q)
      BY <3>1 DEF InOrder, Events
    <3>3. q[1].kind # "session" /\ Events(Tail(q)) = {}
      <4>1. q \in Seq(Messages) /\ q # <<>>
        BY <1>1, <1>2
      <4>2. PICK r, s : r = Tail(q) /\ s = q[1].id
        OBVIOUS
      <4>3. /\ q[1].kind = "session" => Events(q) = Events(r) \cup {s}
            /\ q[1].kind # "session" => Events(q) = Events(r)
        BY <3>2, <4>1, <4>2, FirstTaken
      <4> QED BY <3>1, <4>2, <4>3
    <3> QED BY <1>3, <2>1, <2>2, <2>4, <3>1, <3>3 DEF ids, q
  <2> QED BY <2>3, <2>4
<1>6. adding' # NoClient => phase'[adding'] \notin {"none", "register"}
  BY <1>1 DEF ViewersTold
<1> QED BY <1>4, <1>5, <1>6, ViewersEach

(* Every step keeps what the viewers have been told.                       *)
LEMMA ViewersKeep ==
  ASSUME EventsGrow, ChannelGrows, ViewersTold, TextTypes, HubTypeOK, Goroutines, [Next]_vars
  PROVE  ViewersTold'
<1>1. ASSUME HubStep PROVE ViewersTold'
  BY <1>1, ViewersRest DEF HubStep, SessionBegins, SessionEnded, SessionEnds, HeaderAccepted,
                           FrameArrives, feedVars, runVars, closing
<1>2. ASSUME Stop \/ UNCHANGED vars PROVE ViewersTold'
  BY <1>2, ViewersRest DEF Stop, vars, feedVars, runVars, closing
<1>3. ASSUME RunStops \/ RunTearsDown PROVE ViewersTold'
  BY <1>3, ViewersRest DEF RunStops, RunTearsDown
<1>4. ASSUME NEW p \in Publishers, TakeSnapshot(p) \/ QueueStatus(p) PROVE ViewersTold'
  BY <1>4, ViewersRest DEF TakeSnapshot, QueueStatus, runVars, closing
<1>5. ASSUME NEW c \in Clients, RunReceives(c) PROVE ViewersTold'
  <2>1. /\ phase[c] = "register" /\ adding = NoClient /\ adding' = c
        /\ phase' = [phase EXCEPT ![c] = "greet"]
        /\ UNCHANGED <<text, heard, published, taken, clients, closed>>
    BY <1>5 DEF RunReceives, RunFree, closing
  <2>2. phase'[c] = "greet" /\ \A d \in Clients : d # c => phase'[d] = phase[d]
    BY <2>1 DEF Goroutines
  <2>3. ASSUME NEW d \in Clients, Fresh(d)' PROVE Fresh(d) /\ d \notin clients'
    <3>1. Fresh(d)
      BY <2>1, <2>2, <2>3 DEF Fresh
    <3> QED BY <2>1, <3>1 DEF ViewersTold
  <2>4. \A d \in clients' \ closed' : Told(heard'[d].from, heard'[d].ids, text'[d], published', taken')
    BY <2>1 DEF ViewersTold
  <2>5. adding' # NoClient => phase'[adding'] \notin {"none", "register"}
    BY <2>1, <2>2
  <2> QED BY <2>1, <2>3, <2>4, <2>5, ViewersEach
<1>6. ASSUME NEW c \in Clients, ClientStep(c) PROVE ViewersTold'
  <2>1. ASSUME Upgrade(c) \/ Snapshot(c) PROVE ViewersTold'
    <3>1. /\ UNCHANGED <<text, heard, published, taken, clients, closed, adding>>
          /\ \/ phase[c] = "none" /\ phase' = [phase EXCEPT ![c] = "register"]
             \/ /\ phase[c] = "greet"
                /\ \E v \in {"on", "off"} : phase' = [phase EXCEPT ![c] = v]
      BY <2>1 DEF Upgrade, Snapshot, runVars, closing
    <3>2. \A d \in Clients : phase'[d] \in {"none", "register"} <=> phase[d] \in {"none", "register"}
      BY <3>1 DEF Goroutines
    <3>3. ASSUME NEW d \in Clients, Fresh(d)' PROVE Fresh(d) /\ d \notin clients'
      <4>1. Fresh(d)
        BY <3>1, <3>2, <3>3 DEF Fresh
      <4> QED BY <3>1, <4>1 DEF ViewersTold
    <3>4. \A d \in clients' \ closed' : Told(heard'[d].from, heard'[d].ids, text'[d], published', taken')
      BY <3>1 DEF ViewersTold
    <3>5. adding' # NoClient => phase'[adding'] \notin {"none", "register"}
      BY <3>1, <3>2 DEF ViewersTold, Goroutines
    <3> QED BY <3>1, <3>3, <3>4, <3>5, ViewersEach
  <2>2. ASSUME Greet(c) PROVE ViewersTold'
    <3>1. /\ text' = Enqueue(text, c, Status(phase[c] = "on"), SendCap)
          /\ phase[c] \in {"on", "off"} /\ phase' = [phase EXCEPT ![c] = "up"]
          /\ UNCHANGED <<heard, published, taken, adding, clients, closed>>
      BY <2>2 DEF Greet, runVars, closing
    <3>2. PICK m \in Messages : m = Status(phase[c] = "on") /\ m.kind # "session"
      BY MessagesAre
    <3>3. \A d \in Clients : phase'[d] \in {"none", "register"} <=> phase[d] \in {"none", "register"}
      BY <3>1 DEF Goroutines
    <3>4. \A d \in Clients : Fresh(d)' => Fresh(d)
      BY <3>1, <3>3 DEF Fresh
    <3>5. adding' # NoClient => phase'[adding'] \notin {"none", "register"}
      BY <3>1, <3>3 DEF ViewersTold, Goroutines
    <3> QED BY <3>1, <3>2, <3>4, <3>5, ViewersGreeted
  <2>3. ASSUME AnswerInit(c) PROVE ViewersTold'
    <3>1. /\ text' = Enqueue(text, c, InitReply(replay), SendCap)
          /\ UNCHANGED <<phase, heard, published, taken, adding, clients, closed>>
      BY <2>3 DEF AnswerInit, runVars, closing
    <3>2. PICK m \in Messages : m = InitReply(replay) /\ m.kind # "session"
      BY MessagesAre
    <3>3. \A d \in Clients : Fresh(d)' => Fresh(d)
      BY <3>1 DEF Fresh
    <3>4. adding' # NoClient => phase'[adding'] \notin {"none", "register"}
      BY <3>1 DEF ViewersTold
    <3> QED BY <3>1, <3>2, <3>3, <3>4, ViewersGreeted
  <2>4. ASSUME BinaryPump(c) \/ Teardown(c) \/ Removes(c) PROVE ViewersTold'
    BY <2>4, ViewersRest DEF BinaryPump, Teardown, Removes, runVars, closing
  <2> QED BY <1>6, <2>1, <2>2, <2>3, <2>4, ViewersRead DEF ClientStep
<1> QED BY <1>1, <1>2, <1>3, <1>4, <1>5, <1>6, Steps, ViewersHear, ViewersAdded, ViewersServed
        DEF RunContinues

(* All of it together: the inductive invariant of the feed.                *)
FeedInv ==
  /\ HubTypeOK /\ Goroutines /\ Registered /\ Pages /\ EventsGrow /\ FramesGrow
  /\ ChannelGrows /\ TextTypes /\ ViewersTold

(* It holds at first, and every step keeps it.                             *)
LEMMA FeedInit == Init => FeedInv
<1>1. Init => HubTypeOK
  BY HubStarts DEF Init
<1> QED BY <1>1, FeedTypesStart, EventsStart, FramesStart, ChannelStarts, TextStarts, ViewersStart
        DEF FeedInv

(* Each part is kept by the parts it rests on.                             *)
LEMMA FeedNext == FeedInv /\ [Next]_vars => FeedInv'
<1> SUFFICES ASSUME FeedInv, [Next]_vars PROVE FeedInv'
  OBVIOUS
<1>1. /\ HubTypeOK /\ Goroutines /\ Registered /\ Pages /\ EventsGrow /\ FramesGrow
      /\ ChannelGrows /\ TextTypes /\ ViewersTold
  BY DEF FeedInv
<1>2. HubTypeOK'
  BY <1>1, HubKeeps
<1>3. Goroutines' /\ Registered'
  BY <1>1, GoroutinesKeep, RegisteredKeeps
<1>4. Pages'
  BY <1>1, PagesKeep
<1>5. EventsGrow'
  BY <1>1, <1>2, EventsKeep
<1>6. FramesGrow'
  BY <1>1, <1>2, FramesKeep
<1>7. ChannelGrows'
  BY <1>1, ChannelKeeps
<1>8. TextTypes'
  BY <1>1, TextTypesKeep
<1>9. ViewersTold'
  BY <1>1, ViewersKeep
<1> QED BY <1>2, <1>3, <1>4, <1>5, <1>6, <1>7, <1>8, <1>9 DEF FeedInv

(* What a viewer has, what waits in its queue and what waits in the        *)
(* channel are three stretches, one behind the other.                      *)
LEMMA EventsComplete ==
  ASSUME EventsGrow, ChannelGrows, ViewersTold, TextTypes, Goroutines
  PROVE  EveryEventInOrder
<1> SUFFICES ASSUME NEW c \in clients \ closed
             PROVE
    LET ids == heard[c].ids
        got == Range(ids) IN
    /\ got \cup Events(text[c]) \cup Events(broadcast)
         = {published[i] : i \in heard[c].from + 1 .. Len(published)}
    /\ \A i, j \in DOMAIN ids : i < j => Earlier(ids[i], ids[j])
    /\ InOrder(text[c]) /\ InOrder(broadcast)
    /\ \A a \in got : \A b \in Events(text[c]) \cup Events(broadcast) : Earlier(a, b)
    /\ \A a \in Events(text[c]) : \A b \in Events(broadcast) : Earlier(a, b)
  BY DEF EveryEventInOrder
<1> DEFINE from == heard[c].from  ids == heard[c].ids  n == Len(published)
<1>1. Told(from, ids, text[c], published, taken)
  BY DEF ViewersTold
<1>2. /\ from \in Nat /\ from <= taken /\ Range(ids) \cup Events(text[c]) = Span(published, from, taken)
      /\ Sorted(ids) /\ InOrder(text[c])
      /\ \A a \in Range(ids) : \A b \in Events(text[c]) : Earlier(a, b)
  BY <1>1 DEF Told
<1>3. /\ taken \in Nat /\ taken <= n /\ Events(broadcast) = Span(published, taken, n)
      /\ InOrder(broadcast)
  BY DEF ChannelGrows
<1>4. published \in Seq(Stamps) /\ Sorted(published) /\ n \in Nat /\ n <= Len(published)
  BY DEF EventsGrow, Sorted
<1>5. Sorted(ids) /\ DOMAIN ids = 1 .. Len(ids)
  <2>1. c \in Clients
    BY DEF Goroutines
  <2>2. ids \in Seq(Stamps)
    BY <2>1 DEF TextTypes
  <2> QED BY <1>2, <2>2
<1> HIDE DEF from, ids, n
<1>6. Span(published, from, n) = Span(published, from, taken) \cup Span(published, taken, n)
  BY <1>2, <1>3, <1>4, SpanJoins
<1>7. \A a \in Span(published, from, taken) : \A b \in Span(published, taken, n) : Earlier(a, b)
  BY <1>2, <1>3, <1>4, SpanSorted
<1>8. Range(ids) \cup Events(text[c]) \cup Events(broadcast) = Span(published, from, n)
  BY <1>2, <1>3, <1>6
<1>9. \A a \in Range(ids) \cup Events(text[c]) : \A b \in Events(broadcast) : Earlier(a, b)
  BY <1>2, <1>3, <1>7
<1>10. \A i, j \in DOMAIN ids : i < j => Earlier(ids[i], ids[j])
  BY <1>5 DEF Sorted
<1>11. Span(published, from, n) = {published[i] : i \in from + 1 .. n}
  BY DEF Span
<1> QED BY <1>2, <1>3, <1>8, <1>9, <1>10, <1>11 DEF from, ids, n

(* The types of all the variables.                                         *)
LEMMA FeedTyped == FeedInv => TypeOK
<1> SUFFICES ASSUME FeedInv PROVE TypeOK
  OBVIOUS
<1>1. /\ broadcast \in Seq(Queued) /\ Len(broadcast) <= BroadcastCap /\ Len(waiting) <= 1
  BY DEF FeedInv, ChannelGrows, EventsGrow
<1>2. ASSUME NEW c \in Clients
      PROVE  /\ Len(text[c]) <= SendCap /\ \A i \in DOMAIN text[c] : text[c][i] \in Messages
             /\ Len(bin[c]) <= BinCap
  <2>1. text[c] \in Seq(Messages) /\ Len(text[c]) <= SendCap /\ Len(bin[c]) <= BinCap
    BY DEF FeedInv, TextTypes, FramesGrow
  <2>2. \A i \in DOMAIN text[c] : text[c][i] \in Messages
    BY <2>1, Elements
  <2> QED BY <2>1, <2>2
<1>3. Goroutines /\ Pages /\ HubTypeOK
  BY DEF FeedInv
<1> QED BY <1>1, <1>2, <1>3 DEF TypeOK, Queued, Goroutines, Pages

(* What the invariant says of the feed.                                    *)
LEMMA FeedImplies == FeedInv => MessagesInOrder /\ StopClosesEveryone
<1>1. FeedInv => EveryEventInOrder
  BY EventsComplete DEF FeedInv
<1>2. FeedInv => FramesInOrder
  BY DEF FeedInv, FramesGrow
<1>3. FeedInv => StopClosesEveryone
  BY FeedAssumption DEF FeedInv, Goroutines, Registered, StopClosesEveryone, ReceivedByRun
<1> QED BY <1>1, <1>2, <1>3, FeedTyped DEF MessagesInOrder

(* The inductive invariant holds in every reachable state of the feed.     *)
THEOREM FeedInvariant == Spec => []FeedInv
BY FeedInit, FeedNext, PTL DEF Spec

(* Every viewer that stays connected gets every session event accepted     *)
(* since it was registered, once and in order, and its frames in the order *)
(* of their sessions, for any number of viewers and any queue lengths.     *)
THEOREM MessagesInOrderHolds == Spec => []MessagesInOrder
BY FeedInvariant, FeedImplies, PTL

(* When the hub's loop has ended everyone it ever received has been closed, *)
(* also a client received after Stop and one that was found slow.  (A       *)
(* client it never received is not closed: StopReleasesRegistering.)        *)
THEOREM StopClosesEveryoneHolds == Spec => []StopClosesEveryone
BY FeedInvariant, FeedImplies, PTL

=============================================================================
