------------------------------ MODULE Recorder ------------------------------
(***************************************************************************)
(* Recording: the video and the audio demuxer threads (demuxer.c), which   *)
(* push every packet to their sinks in turn (trait/packet_source.c), and   *)
(* the recorder thread (recorder.c), which takes the packets from its two  *)
(* queues and muxes them into one file.                                    *)
(*                                                                         *)
(* An action is what a thread does under the recorder's mutex, or between  *)
(* two such sections.  The decoder, the sink in front of the recorder,     *)
(* only succeeds or fails here.  libavformat is external: opening a file,  *)
(* writing to it and adding a stream may each fail.  A condition variable  *)
(* is its condition: a signal is sent wherever the condition may change.   *)
(* The recorder thread is taken to have opened its file before the device  *)
(* answers a demuxer (recorder->ctx is set without the mutex).             *)
(***************************************************************************)
EXTENDS VecDeque, Integers

CONSTANTS
  Ptses,        \* timestamps the device may send, in ticks of its time base
  Ticks,        \* ticks of the device's time base in one of the file's
  NoPts,        \* AV_NOPTS_VALUE
  MaxVideo,     \* bound: packets the video demuxer receives
  MaxAudio      \* bound: packets the audio demuxer receives

(* A packet: pts is NoPts for a config packet; config is the one merged in. *)
Packets == [id: Nat, pts: Int, config: Nat]

(* av_packet_rescale_ts to the coarser time base of the file, to nearest. *)
Rescale(pts) == (pts + Ticks \div 2) \div Ticks

(* AV_NOPTS_VALUE is INT64_MIN, and the device's timestamps have 61 bits. *)
ASSUME RecorderAssumption ==
  /\ Ptses \subseteq Nat /\ Ticks \in Nat \ {0}
  /\ NoPts \in Int /\ NoPts < 0 /\ \A a, b \in Ptses : NoPts < Rescale(a - b)
  /\ {MaxVideo, MaxAudio} \subseteq Nat
  /\ Hole \notin Packets

Streams == {"video", "audio"}
None == Hole     \* no packet

VARIABLES
  demuxer,    \* where run_demuxer of each stream is
  merger,     \* sc_packet_merger: the config that waits for a media packet
  received,   \* bound: packets each demuxer has received
  wanted,     \* recorder->video and recorder->audio
  init,       \* video_init and audio_init
  expects,    \* audio_expects_config_packet
  stopped,    \* recorder->stopped
  queue,      \* video_queue and audio_queue
  thread,     \* where run_recorder is
  packet,     \* its video_pkt and audio_pkt
  previous,   \* its video_pkt_previous
  origin,     \* its pts_origin
  last,       \* last_pts of both streams
  failed,     \* its error, and every way not to get to the trailer
  file,       \* history: "none", "open", "closed", and what was written of
  written,    \* each stream
  accepted,   \* history: media packets a sink has accepted, in order
  ioError     \* history: the library has failed, or a first packet is no config

demuxing  == <<demuxer, merger, received, accepted>>
shared    == <<wanted, init, expects, stopped, queue>>
recording == <<thread, packet, previous, origin, last, failed, file, written,
               ioError>>
vars      == <<demuxing, shared, recording>>

Init ==
  /\ demuxer = [s \in Streams |-> "codec"]
  /\ merger = [s \in Streams |-> 0]
  /\ received = [s \in Streams |-> 0]
  /\ wanted \in {[s \in Streams |-> s \in w] : w \in (SUBSET Streams) \ {{}}}
  /\ init = [s \in Streams |-> FALSE]
  /\ expects = FALSE
  /\ stopped = FALSE
  /\ queue = [s \in Streams |-> EmptyDeque]
  /\ thread = "open"
  /\ packet = [s \in Streams |-> None]
  /\ previous = None
  /\ origin = NoPts
  /\ last = [s \in Streams |-> NoPts]
  /\ failed = FALSE
  /\ file = "none"
  /\ written = [s \in Streams |-> <<>>]
  /\ accepted = [s \in Streams |-> <<>>]
  /\ ioError = FALSE

-----------------------------------------------------------------------------
(* The demuxers.                                                           *)

Goes(s, to) == demuxer' = [demuxer EXCEPT ![s] = to]

(* A stream that is not recorded has no demuxer in this module. *)
Runs(s, at) == demuxer[s] = at /\ file # "none" /\ (at = "codec" => wanted[s])

(* No codec id, a configuration error on the device (1), no memory, or no  *)
(* session header: the sinks are told nothing.                             *)
DemuxerFails(s) ==
  /\ Runs(s, "codec")
  /\ Goes(s, "ended")
  /\ UNCHANGED <<merger, received, accepted, shared, recording>>

(* The device disables the stream (0), or its codec is not supported:      *)
(* sc_packet_source_sinks_disable, which the video sink does not have.     *)
DemuxerDisables(s) ==
  /\ Runs(s, "codec")
  /\ Goes(s, "ended")
  /\ IF s = "audio"
     THEN /\ wanted' = [wanted EXCEPT ![s] = FALSE]
          /\ init' = [init EXCEPT ![s] = TRUE]
     ELSE UNCHANGED <<wanted, init>>
  /\ UNCHANGED <<merger, received, accepted, expects, stopped, queue, recording>>

(* sc_packet_source_sinks_open: the decoder, then the recorder; one that   *)
(* fails has those before it closed.  Only the video sink looks at stopped.*)
SinksOpen(s) ==
  /\ Runs(s, "codec")
  /\ IF s = "video" /\ stopped
     THEN Goes(s, "ended") /\ UNCHANGED <<init, expects, ioError>>
     ELSE \/ /\ Goes(s, "loop")
             /\ init' = [init EXCEPT ![s] = TRUE]
             /\ expects' \in IF s = "audio" THEN BOOLEAN ELSE {expects}
             /\ UNCHANGED ioError
          \/ Goes(s, "ended") /\ ioError' = TRUE /\ UNCHANGED <<init, expects>>
  /\ UNCHANGED <<merger, received, accepted, wanted, stopped, queue, thread,
                 packet, previous, origin, last, failed, file, written>>

(* sc_packet_merger_merge: a config packet waits, and goes with the next   *)
(* media packet as well.                                                   *)
Merged(s, p) == IF p.pts = NoPts THEN p ELSE [p EXCEPT !.config = merger[s]]

(* One packet: received, merged, pushed to the decoder (which may refuse   *)
(* it) and then to the recorder, which refuses it once stopped.            *)
DemuxerPushes(s, pts) ==
  LET id == received[s] + 1
      p  == Merged(s, [id |-> id, pts |-> pts, config |-> 0])
  IN
  /\ Runs(s, "loop")
  /\ received[s] < IF s = "video" THEN MaxVideo ELSE MaxAudio
  /\ received' = [received EXCEPT ![s] = id]
  /\ merger' = [merger EXCEPT ![s] = IF s = "audio" THEN 0
                                     ELSE IF pts = NoPts THEN id ELSE 0]
  /\ IF stopped \/ ~CanPush(queue[s])
     THEN Goes(s, "close") /\ UNCHANGED <<queue, accepted>>
     ELSE /\ queue' = [queue EXCEPT ![s] = Push(@, p)]
          /\ accepted' = IF pts = NoPts THEN accepted
                         ELSE [accepted EXCEPT ![s] = Append(@, p)]
          /\ UNCHANGED demuxer
  /\ UNCHANGED <<wanted, init, expects, stopped, recording>>

(* The end of the stream, a broken packet, or a decoder that fails. *)
DemuxerBreaks(s) ==
  /\ Runs(s, "loop")
  /\ Goes(s, "close")
  /\ UNCHANGED <<merger, received, accepted, shared, recording>>

(* sc_packet_source_sinks_close; EOS of one stream stops the recorder. *)
SinksClose(s) ==
  /\ Runs(s, "close")
  /\ Goes(s, "ended")
  /\ stopped' = TRUE
  /\ UNCHANGED <<merger, received, accepted, wanted, init, expects, queue,
                 recording>>

(* sc_recorder_stop, from the main thread. *)
RecorderStop ==
  /\ ~stopped
  /\ stopped' = TRUE
  /\ UNCHANGED <<demuxing, wanted, init, expects, queue, recording>>

-----------------------------------------------------------------------------
(* The recorder thread.                                                    *)

OpenOutputFile ==
  /\ thread = "open"
  /\ \/ file' = "open" /\ thread' = "header" /\ UNCHANGED <<failed, ioError>>
     \/ file' = "closed" /\ thread' = "clear" /\ failed' = TRUE /\ ioError' = TRUE
  /\ UNCHANGED <<demuxing, shared, packet, previous, origin, last, written>>

MustWaitForConfig ==
  \/ wanted["video"] /\ IsEmpty(queue["video"])
  \/ wanted["audio"] /\ expects /\ IsEmpty(queue["audio"])

(* sc_recorder_process_header. *)
ProcessHeader ==
  LET first == {s \in Streams : ~IsEmpty(queue[s]) /\ (s = "audio" => expects)}
      ready == \A s \in first : FirstItem(queue[s]).pts = NoPts
  IN
  /\ thread = "header"
  /\ stopped \/ ~(MustWaitForConfig \/ \E s \in Streams : wanted[s] /\ ~init[s])
  /\ IF wanted["video"] /\ IsEmpty(queue["video"])
     THEN thread' = "close" /\ failed' = TRUE /\ UNCHANGED <<queue, ioError>>
     ELSE /\ queue' = [s \in Streams |-> IF s \in first THEN Pop(queue[s])
                                         ELSE queue[s]]
          /\ \/ ready /\ thread' = "wait" /\ UNCHANGED <<failed, ioError>>
             \/ thread' = "close" /\ failed' = TRUE /\ ioError' = TRUE
  /\ UNCHANGED <<demuxing, wanted, init, expects, stopped, packet, previous,
                 origin, last, file, written>>

(* The wait of sc_recorder_process_packets, and what it pops. *)
Available(s) == packet[s] = None /\ ~IsEmpty(queue[s])

MayTakeRunning ==   \* mutant: the wait does not end with the recorder
  \E s \in Streams : wanted[s] /\ Available(s)

MayTake == stopped \/ \E s \in Streams : wanted[s] /\ Available(s)

TakePackets ==
  LET now == [s \in Streams |-> IF Available(s) THEN FirstItem(queue[s])
                                ELSE packet[s]]
  IN
  /\ thread = "wait"
  /\ MayTake
  /\ packet' = now
  /\ queue' = [s \in Streams |-> IF Available(s) THEN Pop(queue[s]) ELSE queue[s]]
  /\ thread' = IF stopped /\ \A s \in Streams : now[s] = None
               THEN "trailer" ELSE "process"
  /\ UNCHANGED <<demuxing, wanted, init, expects, stopped, previous, origin, last,
                 failed, file, written, ioError>>

(* Further config packets are ignored. *)
Media(s) == IF packet[s] # None /\ packet[s].pts = NoPts THEN None ELSE packet[s]

(* The first timestamp: of the only stream, the smaller of the two, or,    *)
(* when the recorder is stopped without audio, of the video.               *)
Origins(v, a) ==
  IF origin # NoPts THEN {origin}
  ELSE IF ~wanted["audio"] /\ v # None THEN {v.pts}
  ELSE IF ~wanted["video"] /\ a # None THEN {a.pts}
  ELSE IF wanted = [s \in Streams |-> TRUE] /\ v # None /\ a # None
       THEN {IF v.pts < a.pts THEN v.pts ELSE a.pts}
  ELSE IF stopped /\ v # None THEN {v.pts} ELSE {}

FilePtsEqual(s, pts) ==   \* mutant: a timestamp may come twice
  IF last[s] # NoPts /\ Rescale(pts) < last[s] THEN last[s] + 1 ELSE Rescale(pts)

(* sc_recorder_write_stream, which keeps the timestamps increasing. *)
FilePts(s, pts) == IF last[s] # NoPts /\ Rescale(pts) <= last[s]
                   THEN last[s] + 1 ELSE Rescale(pts)

Entry(s, p) == [p EXCEPT !.pts = FilePts(s, @)]

(* The video packet before this one, now that its duration is known, and   *)
(* then the audio packet; the first write that fails ends the recording.   *)
ProcessPackets ==
  LET v == Media("video")
      a == Media("audio")
  IN
  /\ thread = "process"
  /\ IF Origins(v, a) = {}
     THEN /\ packet' = [video |-> v, audio |-> a]
          /\ thread' = IF stopped THEN "close" ELSE "wait"
          /\ failed' = stopped
          /\ UNCHANGED <<previous, origin, last, written, ioError>>
     ELSE \E o \in Origins(v, a), fails \in Streams \cup {"none"} :
          LET shift(p) == IF p = None THEN None ELSE [p EXCEPT !.pts = @ - o]
              out == [video |-> IF v = None THEN None ELSE previous,
                      audio |-> shift(a)]
              writes(s) == /\ out[s] # None
                           /\ fails = "none" \/ (fails = "audio" /\ s = "video")
          IN
          /\ fails # "none" => out[fails] # None
          /\ origin' = o
          /\ previous' = IF v # None THEN shift(v) ELSE previous
          /\ packet' = [s \in Streams |-> None]
          /\ written' = [s \in Streams |-> IF writes(s)
               THEN Append(written[s], Entry(s, out[s])) ELSE written[s]]
          /\ last' = [s \in Streams |-> IF writes(s)
               THEN FilePts(s, out[s].pts) ELSE last[s]]
          /\ thread' = IF fails = "none" THEN "wait" ELSE "close"
          /\ failed' = (fails # "none") /\ ioError' = (ioError \/ fails # "none")
  /\ UNCHANGED <<demuxing, shared, file>>

(* The last video packet, which need not be written, and the trailer. *)
WriteTrailer ==
  /\ thread = "trailer"
  /\ \E lastFrame, trailer \in BOOLEAN :
       /\ written' = IF previous # None /\ lastFrame
                     THEN [written EXCEPT !["video"] = Append(@, Entry("video", previous))]
                     ELSE written
       /\ failed' = ~trailer
       /\ ioError' = (ioError \/ ~lastFrame \/ ~trailer)
  /\ previous' = None
  /\ thread' = "close"
  /\ UNCHANGED <<demuxing, shared, packet, origin, last, file>>

CloseOutputFile ==
  /\ thread = "close"
  /\ file' = "closed"
  /\ thread' = "clear"
  /\ UNCHANGED <<demuxing, shared, packet, previous, origin, last, failed,
                 written, ioError>>

(* No producer can push any more; the pending packets are discarded. *)
ClearQueues ==
  /\ thread = "clear"
  /\ stopped' = TRUE
  /\ queue' = [s \in Streams |-> EmptyDeque]
  /\ thread' = "ended"
  /\ UNCHANGED <<demuxing, wanted, init, expects, packet, previous, origin, last,
                 failed, file, written, ioError>>

RecorderStep ==
  \/ OpenOutputFile \/ ProcessHeader \/ TakePackets \/ ProcessPackets
  \/ WriteTrailer \/ CloseOutputFile \/ ClearQueues

Next ==
  \/ \E s \in Streams :
       \/ DemuxerFails(s) \/ DemuxerDisables(s) \/ SinksOpen(s)
       \/ DemuxerBreaks(s) \/ SinksClose(s)
       \/ \E pts \in Ptses \cup {NoPts} : DemuxerPushes(s, pts)
  \/ RecorderStop
  \/ RecorderStep

Spec == Init /\ [][Next]_vars

(* The recorder thread runs; the device and the user owe it nothing. *)
FairSpec == Spec /\ WF_vars(RecorderStep)

-----------------------------------------------------------------------------
(* Properties.                                                             *)

(* A recording that is reported complete holds every media packet that a   *)
(* sink has accepted, once and in order, with the config data that came    *)
(* before it: whatever the recorder held, and whatever was queued, when it *)
(* was stopped.  Only the last video frame may be missing, and only after  *)
(* a write error (recorder.c:320, 353, 436).                               *)
CompleteRecordingIsComplete ==
  thread = "ended" /\ ~failed =>
    \A s \in Streams :
      LET got == [i \in DOMAIN written[s] |->
                    <<written[s][i].id, written[s][i].config>>]
          all == [i \in DOMAIN accepted[s] |->
                    <<accepted[s][i].id, accepted[s][i].config>>]
      IN got = all \/ (ioError /\ s = "video" /\ all # <<>>
                       /\ got = SubSeq(all, 1, Len(all) - 1))

(* The timestamps of a stream increase in the file, although the device's  *)
(* may stand still or become equal in the time base of the file.           *)
FileTimestampsIncrease ==
  \A s \in Streams : \A i \in 1 .. Len(written[s]) - 1 :
    written[s][i].pts < written[s][i + 1].pts

(* The file is what the device sent.                                       *)
RecordingIsFaithful == CompleteRecordingIsComplete /\ FileTimestampsIncrease

(* Once the recorder thread has ended no packet is in its queues, and none *)
(* gets there, whenever the demuxers notice: "Prevent the producer to push *)
(* any new packet" (recorder.c:484).                                       *)
NothingLeftBehind ==
  thread = "ended" => \A s \in Streams : IsEmpty(queue[s])

(* The assertions of the loop: a stream that is not recorded has no packet *)
(* (325, 330), there is something to process (348), and nothing is queued  *)
(* when the loop ends (342).                                               *)
LoopAssertions ==
  /\ thread \in {"wait", "process"} =>
       \A s \in Streams : ~wanted[s] => packet[s] = None /\ IsEmpty(queue[s])
  /\ thread = "process" => \E s \in Streams : packet[s] # None
  /\ thread = "trailer" => \A s \in Streams : IsEmpty(queue[s])

(* The queues hold what the recorder's loop takes them to hold, from the   *)
(* first packet to the end of the thread.                                  *)
QueuesMatchTheLoop == LoopAssertions /\ NothingLeftBehind

(* Once it is stopped, by the user or by the end of either stream, the     *)
(* recorder thread ends, so that it can be joined.                         *)
RecorderEnds == stopped ~> thread = "ended"

(* A promise that does not hold (README, Known deviations):                *)
(* "If stopped is set, continue to process the remaining events (to finish *)
(* the recording) before actually stopping" (recorder.c:320): a recording  *)
(* with video frames fails only if the library does.                       *)
StopFinishesRecording ==
  thread = "ended" /\ failed /\ wanted["video"] /\ accepted["video"] # <<>> => ioError
=============================================================================
