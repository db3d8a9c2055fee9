---------------------------- MODULE MCADBMonitor ----------------------------
(* Small instances of ADBMonitor: one or two handlers, one phone, and a    *)
(* bound on the starts and stops.                                          *)
EXTENDS ADBMonitor
=============================================================================
