--------------------------- MODULE MCClientSession ---------------------------
(* Sessions of the client for TLC: every command line of at most three of     *)
(* the options below is parsed; the sessions that are followed have every     *)
(* part of the client between them.                                           *)
EXTENDS ClientSession

MoreOptions == {
  "serial", "tcpip=addr", "no-window", "no-video", "no-playback", "no-video-playback",
  "no-audio", "no-control", "record", "record-format=opus", "v4l2-sink", "otg",
  "keyboard=sdk", "keyboard=aoa", "mouse=sdk", "mouse=uhid_or_aoa", "gamepad=aoa",
  "video-source=camera", "new-display", "flex-display", "audio-dup", "wifi",
  "tunnel-host", "start-app", "require-audio", "time-limit", "list"}

SomeCommandLines ==
  {{}} \cup {{a, b, c} : a, b, c \in MoreOptions}
  \cup {{"no-audio", "no-video-playback", "v4l2-sink", "record", "time-limit"}}

SomeSessions == {
  {"video", "playback", "window", "control", "time_limit", "audio"},
  {"video", "playback", "window", "record"},
  {"audio"},
  {"control", "window"},
  {"video", "playback", "window", "control", "aoa"},
  {"video", "v4l2", "record", "time_limit", "window", "control"},
  {"otg", "control", "window", "video", "audio", "playback"},
  {"list", "video", "playback", "audio", "window", "control"}}
=============================================================================
