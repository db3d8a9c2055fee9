---------------------------- MODULE ServerThread ----------------------------
(***************************************************************************)
(* What the rest of the client may count on from the server thread         *)
(* (server.c): it connects or fails, once, and says so; once it has been   *)
(* stopped it ends, whatever adb and the device do.  What it says comes    *)
(* before it ends, and the streams it announced are open until it has been *)
(* told to stop.                                                           *)
(***************************************************************************)
VARIABLES
  phase,    \* "starting", "connected", "listed", "failed"
  running,  \* the thread
  stopped   \* sc_server_stop has been called

vars == <<phase, running, stopped>>

Init == phase = "starting" /\ running = TRUE /\ stopped = FALSE

Connect == /\ phase = "starting" /\ running
           /\ phase' = "connected"
           /\ UNCHANGED <<running, stopped>>

(* --list-*: the device has printed what was asked, there is nothing to wait
   for. *)
List == /\ phase = "starting" /\ running
        /\ phase' = "listed"
        /\ UNCHANGED <<running, stopped>>

Fail == /\ phase = "starting" /\ running
        /\ phase' = "failed"
        /\ UNCHANGED <<running, stopped>>

Stop == /\ ~stopped
        /\ stopped' = TRUE
        /\ UNCHANGED <<phase, running>>

End == /\ running
       /\ phase \in {"failed", "listed"} \/ (phase = "connected" /\ stopped)
       /\ running' = FALSE
       /\ UNCHANGED <<phase, stopped>>

Next == Connect \/ List \/ Fail \/ Stop \/ End

Settle == stopped /\ (Connect \/ List \/ Fail)

Safety == Init /\ [][Next]_vars

Spec == Safety /\ WF_vars(Settle) /\ WF_vars(End)
=============================================================================
