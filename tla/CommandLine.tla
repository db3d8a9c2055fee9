---------------------------- MODULE CommandLine ----------------------------
(***************************************************************************)
(* What the client makes of its command line (cli.c): the options that are *)
(* derived from others, and the combinations it refuses.  Everything after *)
(* it -- scrcpy.c, scrcpy_otg.c, server.c, the screen and the recorder --   *)
(* relies on what it lets through.                                         *)
(*                                                                         *)
(* A command line is the set of options given; of an option with several   *)
(* values it holds one.  Options that no decision looks at (titles, bit    *)
(* rates, buffers) are left out.                                           *)
(***************************************************************************)
EXTENDS Naturals, Sequences, FiniteSets

Modes == {"sdk", "uhid", "aoa", "uhid_or_aoa", "disabled"}
GamepadModes == {"uhid", "aoa", "uhid_or_aoa"}
AudioCodecs == {"opus", "aac", "flac", "raw"}
AudioSources == {"output", "mic", "playback"}
Formats == {"mkv", "mp4", "m4a", "opus", "aac", "flac", "wav"}
AudioOnly == {"m4a", "opus", "aac", "flac", "wav"}

(* The value given for an option, or its default. *)
Value(given, option, values, default) ==
  LET chosen == {v \in values : option \o v \in given}
  IN IF chosen = {} THEN default ELSE CHOOSE v \in chosen : TRUE

(* The options after getopt(): the defaults of options.c and what was given, in
   the order of the switch: the device, the inputs and the outputs, ... *)
BasicOptions(given) == [
  selectors |-> given \cap {"serial", "select-usb", "select-tcpip", "tcpip=addr"},
  display_id |-> "display-id" \in given,
  crop |-> "crop" \in given,
  max_size |-> "max-size" \in given,
  keyboard |-> Value(given, "keyboard=", Modes, "auto"),
  mouse |-> Value(given, "mouse=", Modes, "auto"),
  mouse_hover |-> "no-mouse-hover" \notin given,
  wifi |-> "wifi" \in given,
  tunnel_host |-> "tunnel-host" \in given,
  multistream |-> "multistream" \in given,
  control |-> "no-control" \notin given,
  video_playback |-> given \cap {"no-playback", "no-video-playback"} = {},
  audio_playback |-> given \cap {"no-playback", "no-audio-playback"} = {},
  record |-> "record" \in given,
  record_format |-> Value(given, "record-format=", Formats, "auto"),
  device |-> given \cap {"turn-screen-off", "stay-awake", "show-touches",
                         "power-off-on-close", "start-app", "keep-active"}]

(* ... the streams, ... *)
StreamOptions(given) == [
  window_size |-> "window-width" \in given,
  key_inject |-> given \cap {"prefer-text", "raw-key-events", "no-key-repeat"},
  video |-> "no-video" \notin given,
  audio |-> "no-audio" \notin given,
  audio_codec |-> Value(given, "audio-codec=", AudioCodecs, "opus"),
  otg |-> "otg" \in given,
  v4l2 |-> "v4l2-sink" \in given,
  v4l2_buffer |-> "v4l2-buffer" \in given]

(* ... where they come from, ... *)
SourceOptions(given) == [
  list |-> "list" \in given,
  require_audio |-> "require-audio" \in given,
  source |-> IF "video-source=camera" \in given THEN "camera" ELSE "display",
  audio_source |-> Value(given, "audio-source=", AudioSources, "auto"),
  time_limit |-> "time-limit" \in given,
  camera |-> given \cap {"camera-id", "camera-facing", "camera-size", "camera-ar",
                         "camera-fps", "camera-high-speed"},
  window |-> "no-window" \notin given,
  audio_dup |-> "audio-dup" \in given,
  gamepad |-> Value(given, "gamepad=", GamepadModes, "disabled")]

(* ... and the new display. *)
DisplayOptions(given) == [
  new_display |-> "new-display" \in given,
  ime |-> "display-ime-policy" \in given,
  flex |-> "flex-display" \in given]

(* As @@ of the module TLC, which the provers do not know. *)
Together(f, g) ==
  [x \in DOMAIN f \cup DOMAIN g |-> IF x \in DOMAIN f THEN f[x] ELSE g[x]]

Given(given) ==
  Together(Together(BasicOptions(given), StreamOptions(given)),
           Together(SourceOptions(given), DisplayOptions(given)))

-----------------------------------------------------------------------------
(* Mutant: --no-window leaves the video playback on. *)
CapturedWithoutWindow(o) ==
  LET playback == o.video_playback /\ o.video
      audible == o.audio_playback /\ o.audio
      video == o.video /\ (playback \/ o.record \/ o.v4l2)
  IN [o EXCEPT !.video = video, !.video_playback = playback,
               !.audio_playback = audible,
               !.audio = @ /\ (audible \/ o.record),
               !.require_audio = @ \/ (~video /\ ~o.otg)]

(* Mutant: audio stays optional without video. *)
CapturedOptionally(o) ==
  LET playback == o.video_playback /\ o.window /\ o.video
      audible == o.audio_playback /\ o.audio
      video == o.video /\ (playback \/ o.record \/ o.v4l2)
  IN [o EXCEPT !.video = video, !.video_playback = playback,
               !.audio_playback = audible, !.audio = @ /\ (audible \/ o.record)]

(* What is neither shown nor recorded is not captured; without video, the
   session may not outlive the audio. *)
CaptureOf(o) ==
  LET playback == o.video_playback /\ o.window /\ o.video
      audible == o.audio_playback /\ o.audio
      video == o.video /\ (playback \/ o.record \/ o.v4l2)
  IN [o EXCEPT !.video = video, !.video_playback = playback,
               !.audio_playback = audible,
               !.audio = @ /\ (audible \/ o.record),
               !.require_audio = @ \/ (~video /\ ~o.otg)]

(* The mode of an input device: AUTO and UHID_OR_AOA are resolved here. *)
Resolved(mode, o, default) ==
  CASE mode = "auto" -> IF o.otg THEN "aoa" ELSE default
    [] mode = "uhid_or_aoa" -> IF o.otg THEN "aoa" ELSE "uhid"
    [] OTHER -> mode

InputsOf(o) ==
  IF ~o.control \/ o.source # "display" THEN o
  ELSE [o EXCEPT !.keyboard = Resolved(@, o, "sdk"),
                 !.mouse = Resolved(@, o, IF o.video_playback THEN "sdk" ELSE "disabled"),
                 !.gamepad = Resolved(@, o, "disabled")]

(* "Disable all inputs for camera". *)
CameraOf(o) ==
  IF o.source = "camera" /\ o.control
  THEN [o EXCEPT !.keyboard = "disabled", !.mouse = "disabled", !.gamepad = "disabled"]
  ELSE o

AudioOf(o) ==
  IF ~o.audio \/ o.audio_source # "auto" THEN o
  ELSE [o EXCEPT !.audio_source = IF o.source # "display" THEN "mic"
                                  ELSE IF o.audio_dup THEN "playback" ELSE "output"]

(* The options as the checks on the inputs see them, and as they end up. *)
Options(given) == InputsOf(CaptureOf(Given(given)))
Parsed(given) == AudioOf(CameraOf(Options(given)))

-----------------------------------------------------------------------------
(* The combinations that are refused, in the order of the code. *)
OneDevice(o) == Cardinality(o.selectors) <= 1

SomethingToDo(o) == o.video \/ o.audio \/ o.control \/ o.otg

V4l2Allowed(o) == /\ o.v4l2 => o.video /\ ~o.flex
                  /\ o.v4l2_buffer => o.v4l2

(* Before AUTO is resolved: an explicit --mouse=sdk needs a video. *)
SdkMouseAllowed(o, mouse) ==
  o.control /\ o.source = "display" /\ mouse = "sdk" => o.video_playback

DisplayAllowed(o) ==
  /\ o.new_display => o.source = "display" /\ o.video /\ ~o.display_id
  /\ o.flex => /\ o.source = "display" /\ o.new_display /\ o.control
               /\ ~o.crop /\ ~o.window_size
  /\ o.ime => o.display_id \/ o.new_display

OtgAllowed(o) ==
  o.otg => /\ o.control
           /\ {o.keyboard, o.mouse, o.gamepad} \subseteq {"aoa", "disabled"}
           /\ "aoa" \in {o.keyboard, o.mouse, o.gamepad}
           /\ ~o.record /\ ~o.display_id /\ ~o.v4l2
           /\ o.device \subseteq {"start-app", "keep-active"}

InputAllowed(o) == /\ ~({"prefer-text", "raw-key-events"} \subseteq o.key_inject)
                   /\ o.keyboard # "sdk" => o.key_inject = {}
                   /\ o.mouse # "sdk" => o.mouse_hover

WifiAllowed(o) == /\ o.wifi => o.tunnel_host
                  /\ o.multistream => o.wifi

CameraAllowed(o) ==
  IF o.source = "camera"
  THEN /\ ~o.display_id /\ ~o.ime
       /\ ~({"camera-id", "camera-facing"} \subseteq o.camera)
       /\ "camera-size" \in o.camera => ~o.max_size /\ "camera-ar" \notin o.camera
       /\ "camera-high-speed" \in o.camera => "camera-fps" \in o.camera
  ELSE o.camera = {}

AudioAllowed(o) == o.audio_dup => o.audio /\ o.audio_source = "playback"

(* The format of a file without an extension is not known: "auto" stands for
   a file name that tells, here ".mkv". *)
RecordAllowed(o) ==
  /\ o.record_format # "auto" => o.record
  /\ o.record =>
       /\ o.video \/ o.audio
       /\ o.video => o.record_format \notin AudioOnly
       /\ o.record_format \in {"opus", "aac", "flac"} => o.audio_codec = o.record_format
       /\ o.record_format = "wav" => o.audio_codec = "raw"
       /\ o.record_format \in {"mp4", "m4a"} => o.audio_codec # "raw"

DeviceAllowed(o) == ~o.control => o.device = {}

Accepted(given) ==
  LET o == Options(given) p == Parsed(given)
  IN /\ OneDevice(o) /\ SomethingToDo(o) /\ V4l2Allowed(o)
     /\ SdkMouseAllowed(o, Given(given).mouse)
     /\ DisplayAllowed(o) /\ OtgAllowed(o) /\ InputAllowed(o) /\ WifiAllowed(o)
     /\ CameraAllowed(o) /\ AudioAllowed(p) /\ RecordAllowed(p) /\ DeviceAllowed(p)

-----------------------------------------------------------------------------
(* What the rest of the client asserts or dereferences. *)
Assertions(o) ==
  /\ o.video_playback => o.video          \* scrcpy.c:443
  /\ o.audio_playback => o.audio          \* scrcpy.c:444
  /\ o.video_playback => o.window         \* the frames go to the screen
  /\ o.v4l2 => o.video                    \* ... or to a sink of the decoder
  /\ o.record => o.video \/ o.audio       \* recorder.c:774
  /\ o.flex => o.control /\ o.source = "display"           \* screen.c:315
  /\ o.otg => {o.keyboard, o.mouse, o.gamepad} \subseteq {"aoa", "disabled"}
                                          \* scrcpy_otg.c:139
  /\ o.control /\ o.mouse = "sdk" => o.video_playback
                                          \* positions are those of the video
  /\ o.control /\ ~o.otg => "auto" \notin {o.keyboard, o.mouse}
                            /\ "uhid_or_aoa" \notin {o.keyboard, o.mouse, o.gamepad}
                                          \* scrcpy.c:688: every mode has its processor
=============================================================================
