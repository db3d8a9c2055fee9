---------------------------- MODULE MCServerLink ----------------------------
(* Command lines: over adb with each direction of the tunnel, over TCP/IP with
   and without an address, over Wi-Fi, and --list-*. *)
EXTENDS ServerLink
Plain == [wifi |-> FALSE, multistream |-> FALSE, list |-> FALSE, forward |-> FALSE,
          killAdb |-> FALSE, tcpip |-> "no", plus |-> FALSE, by |-> [how |-> "all"],
          video |-> TRUE, audio |-> TRUE, control |-> TRUE]
UserOptions ==
  {Plain,
   [Plain EXCEPT !.forward = TRUE, !.killAdb = TRUE, !.by = [how |-> "usb"]],
   [Plain EXCEPT !.video = FALSE, !.control = FALSE, !.tcpip = "unknown"],
   [Plain EXCEPT !.audio = FALSE, !.tcpip = "known", !.plus = TRUE],
   [Plain EXCEPT !.list = TRUE, !.by = [how |-> "serial", host |-> "phone", port |-> 0]],
   [Plain EXCEPT !.wifi = TRUE, !.multistream = TRUE, !.by = [how |-> "tcpip"]],
   [Plain EXCEPT !.wifi = TRUE, !.video = FALSE, !.audio = FALSE, !.killAdb = TRUE]}
Device(host, at, kind, state) ==
  [host |-> host, port |-> at, kind |-> kind, state |-> state]
SomeLists ==
  {<<>>,
   <<Device("phone", 0, "usb", "device"), Device("phone", 5555, "tcpip", "device")>>,
   <<Device("phone", 0, "usb", "device")>>,
   <<Device("phone", 5555, "tcpip", "unauthorized")>>}
=============================================================================
