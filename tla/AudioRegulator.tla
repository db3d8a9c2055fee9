--------------------------- MODULE AudioRegulator ---------------------------
(***************************************************************************)
(* Playing audio on the desktop: the audio demuxer thread pushes decoded   *)
(* frames (audio_player.c, sc_audio_regulator_push), SDL's audio thread    *)
(* pulls samples (sc_audio_regulator_pull), and between them is a ring of  *)
(* samples with one writer and one reader (util/audiobuf.c).  The ring     *)
(* needs no lock, except that the writer may take old samples out of it,   *)
(* which is the reader's work: for that, and for every pull, there is the  *)
(* mutex.                                                                  *)
(*                                                                         *)
(* A sample is its number; 0 is silence.  Loading a cursor, copying        *)
(* samples and storing a cursor are separate steps of a thread where the   *)
(* other may run in between; what the writer does under the mutex is one   *)
(* step, because the reader then holds neither a cursor nor a count.  The  *)
(* resampler is external: it returns as many samples as it is given, or    *)
(* one more or less while a compensation is set.  The average buffering,   *)
(* which decides about the compensation, is left out: its sign is free     *)
(* within what the code allows.                                            *)
(***************************************************************************)
EXTENDS Integers, Sequences, FiniteSetsExt

CONSTANTS
  TargetBuffering,   \* target_buffering, in samples
  SampleRate,        \* sample_rate: samples in a second
  FrameSizes,        \* samples in a frame of the device
  PullSizes,         \* samples SDL asks for
  MaxSamples         \* bound: samples the device sends

ASSUME RegulatorAssumption ==
  /\ {TargetBuffering, SampleRate} \subseteq Nat \ {0}
  /\ FrameSizes \subseteq Nat \ {0} /\ PullSizes \subseteq Nat \ {0}
  /\ MaxSamples \in Nat

Capacity == TargetBuffering + SampleRate
Alloc == Capacity + 1          \* one slot stays free: head = tail is empty
Slots == 0 .. Alloc - 1
None == <<>>

VARIABLES
  data, head, tail,   \* sc_audiobuf
  mutex,              \* whether the consumer holds it
  played, received,   \* the two flags
  compensation,       \* sign of the compensation the resampler applies
  resync,             \* samples_since_resync
  player,             \* sink of the audio decoder: "new", "open" or "closed"
  producer,           \* sc_audio_regulator_push: what it does next
  frame,              \* the samples it has still to write
  fresh,              \* how many it has copied but not yet published
  written,            \* its count of samples written
  seen,               \* its can_read and played, once it has looked
  consumer,           \* sc_audio_regulator_pull: what it does next
  from, found,        \* the tail it has read, and how much it may copy
  out,                \* the samples it has copied
  sent,               \* history: samples the device has sent
  heard,              \* history: the last one played, and how many were
  dropped             \* history: how many were taken out unplayed

ring    == <<data, head, tail>>
tuning  == <<compensation, resync>>
pushing == <<producer, frame, fresh, written, seen>>
pulling == <<consumer, from, found, out>>
history == <<sent, heard, dropped>>
regulatorVars == <<ring, mutex, played, received, tuning, player, pushing, pulling,
                  history>>

(* sc_audiobuf_can_read, and what a write may put into the ring. *)
CanRead == (Alloc + head - tail) % Alloc
CanWrite == (Alloc + tail - head - 1) % Alloc

Smaller(a, b) == IF a < b THEN a ELSE b

(* The memcpys of a write at a cursor, and of a read. *)
Filled(at, q) == [i \in Slots |-> IF (Alloc + i - at) % Alloc < Len(q)
                                  THEN q[((Alloc + i - at) % Alloc) + 1] ELSE data[i]]
Copied(at, n) == [i \in 1 .. n |-> data[(at + (i - 1)) % Alloc]]
Buffered == Copied(tail, CanRead)

(* The samples, without the silence; there is one of each number. *)
RealsOf(q) == Range(q) \ {0}
Reals(q) == Cardinality(RealsOf(q))

RegulatorInit ==
  /\ data = [i \in Slots |-> 0]
  /\ head = 0 /\ tail = 0
  /\ mutex = FALSE
  /\ played = FALSE /\ received = FALSE
  /\ compensation = 0 /\ resync = 0
  /\ player = "new"
  /\ producer = "idle" /\ frame = None /\ fresh = 0 /\ written = 0
  /\ seen = [canRead |-> 0, played |-> FALSE]
  /\ consumer = "idle" /\ from = 0 /\ found = 0 /\ out = None
  /\ sent = 0
  /\ heard = [last |-> 0, number |-> 0]
  /\ dropped = 0

-----------------------------------------------------------------------------
(* The sink: opened and closed by the demuxer thread.  SDL lets a callback *)
(* return before it destroys the stream.                                   *)

SinkOpens ==
  /\ player = "new"
  /\ player' \in {"open", "closed"}
  /\ UNCHANGED <<ring, mutex, played, received, tuning, pushing, pulling, history>>

SinkCloses ==
  /\ player = "open" /\ producer = "idle" /\ consumer = "idle"
  /\ player' = "closed"
  /\ UNCHANGED <<ring, mutex, played, received, tuning, pushing, pulling, history>>

-----------------------------------------------------------------------------
(* The producer.                                                           *)

(* A frame arrives.  After a gap of more than 100 ms the ring is filled    *)
(* with silence up to the target, and the compensation is reset.  A frame  *)
(* that exceeds the whole ring loses its first samples.                    *)
PushBegins(n, gap) ==
  LET samples == n + compensation
      first   == sent + 1 + (IF samples > Capacity THEN samples - Capacity ELSE 0)
      missing == Smaller(TargetBuffering - CanRead - n, CanWrite)
      fill    == gap /\ TargetBuffering > CanRead + n
  IN
  /\ player = "open" /\ producer = "idle"
  /\ samples > 0 /\ sent + samples <= MaxSamples
  /\ sent' = sent + samples
  /\ frame' = [i \in 1 .. sent' + 1 - first |-> first + i - 1]
  /\ dropped' = dropped + first - 1 - sent
  /\ written' = 0
  /\ producer' = "write"
  /\ data' = IF fill THEN Filled(head, [i \in 1 .. missing |-> 0]) ELSE data
  /\ head' = IF fill THEN (head + missing) % Alloc ELSE head
  /\ compensation' = IF gap THEN 0 ELSE compensation
  /\ resync' = IF gap THEN 0 ELSE resync
  /\ UNCHANGED <<tail, mutex, played, received, player, fresh, seen, pulling, heard>>

(* sc_audiobuf_write copies what there is room for ...                     *)
WriteCopies ==
  LET n == Smaller(Len(frame), CanWrite)
  IN
  /\ producer \in {"write", "rest"}
  /\ data' = Filled(head, SubSeq(frame, 1, n))
  /\ frame' = SubSeq(frame, n + 1, Len(frame))
  /\ fresh' = n
  /\ written' = IF producer = "write" THEN written + n ELSE written
  /\ producer' = IF producer = "write" THEN "publish" ELSE "publishRest"
  /\ UNCHANGED <<head, tail, mutex, played, received, tuning, player, seen, pulling,
                 history>>

(* ... and moves the cursor when the data is there. *)
WritePublishes ==
  /\ producer \in {"publish", "publishRest"}
  /\ head' = (head + fresh) % Alloc
  /\ fresh' = 0
  /\ producer' = IF producer = "publish" /\ frame # None THEN "full" ELSE "look"
  /\ UNCHANGED <<data, tail, mutex, played, received, tuning, player, frame, written,
                 seen, pulling, history>>

(* Full: with the mutex, try once more, then drop old samples to make room *)
(* for what is left of the frame.                                          *)
NeedsNoLock == TRUE   \* mutant: drops samples without the mutex
MayLock == ~mutex

(* sc_audiobuf_read without a destination: what it skips. *)
Skip(n, available) == Smaller(n, available)

DropOld ==
  LET n    == Smaller(Len(frame), CanWrite)
      rest == Len(frame) - n
      skip == Skip(rest, CanRead + n)
  IN
  /\ producer = "full" /\ MayLock
  /\ data' = Filled(head, SubSeq(frame, 1, n))
  /\ head' = (head + n) % Alloc
  /\ frame' = SubSeq(frame, n + 1, Len(frame))
  /\ written' = written + n
  /\ tail' = (tail + skip) % Alloc
  /\ dropped' = dropped + Reals(Copied(tail, skip))
  /\ producer' = IF rest > 0 THEN "rest" ELSE "look"
  /\ UNCHANGED <<mutex, played, received, tuning, player, fresh, seen, pulling,
                 sent, heard>>

(* The most the ring may hold after a push: 1.1 of the target and 60 ms,   *)
(* or the target and 10 ms as long as nothing has been played.             *)
MaxBuffered(playing) ==
  IF playing THEN ((TargetBuffering * 11) \div 10) + ((60 * SampleRate) \div 1000)
  ELSE TargetBuffering + ((10 * SampleRate) \div 1000)

LookAtBuffer ==
  /\ producer = "look"
  /\ seen' = [canRead |-> CanRead, played |-> played]
  /\ producer' = IF CanRead > MaxBuffered(played) THEN "trim" ELSE "tune"
  /\ UNCHANGED <<ring, mutex, played, received, tuning, player, frame, fresh, written,
                 pulling, history>>

(* With the mutex: look again, and drop what is too much. *)
TrimSeen ==   \* mutant: drops what was too much before it had the mutex
  LET skip == seen.canRead - MaxBuffered(seen.played)
  IN
  /\ producer = "trim" /\ MayLock
  /\ tail' = (tail + skip) % Alloc
  /\ dropped' = dropped + Reals(Copied(tail, Smaller(skip, CanRead)))
  /\ producer' = "tune"
  /\ UNCHANGED <<data, head, mutex, played, received, tuning, player, frame, fresh,
                 written, seen, pulling, sent, heard>>

Trim ==
  LET skip == CanRead - MaxBuffered(seen.played)
  IN
  /\ producer = "trim" /\ MayLock
  /\ IF skip > 0
     THEN tail' = (tail + skip) % Alloc /\ dropped' = dropped + Reals(Copied(tail, skip))
     ELSE UNCHANGED <<tail, dropped>>
  /\ seen' = [seen EXCEPT !.canRead = CanRead]
  /\ producer' = "tune"
  /\ UNCHANGED <<data, head, mutex, played, received, tuning, player, frame, fresh,
                 written, pulling, sent, heard>>

(* Once a second a new compensation, never an acceleration while the ring  *)
(* holds less than the target.                                             *)
Tune ==
  /\ producer = "tune"
  /\ received' = TRUE
  /\ IF seen.played
     THEN LET total == resync + written
          IN /\ resync' = IF total >= SampleRate THEN 0 ELSE total
             /\ compensation' \in
                  IF total < SampleRate THEN {compensation}
                  ELSE IF seen.canRead < TargetBuffering THEN {0, 1} ELSE {-1, 0, 1}
     ELSE UNCHANGED tuning
  /\ producer' = "idle"
  /\ UNCHANGED <<ring, mutex, played, player, frame, fresh, written, seen, pulling,
                 history>>

-----------------------------------------------------------------------------
(* The consumer.                                                           *)

(* Nothing but silence, and nothing changes, until the ring holds the      *)
(* target for the first time.                                              *)
PullBegins(n) ==
  /\ player = "open" /\ consumer = "idle" /\ ~mutex
  /\ played \/ CanRead >= TargetBuffering
  /\ mutex' = TRUE
  /\ from' = tail
  /\ found' = Smaller(n, CanRead)
  /\ consumer' = "copy"
  /\ UNCHANGED <<ring, played, received, tuning, player, pushing, out, history>>

PullCopies ==
  /\ consumer = "copy"
  /\ out' = Copied(from, found)
  /\ consumer' = "store"
  /\ UNCHANGED <<ring, mutex, played, received, tuning, player, pushing, from,
                 found, history>>

(* The cursor moves, the mutex is released; the rest of the samples asked  *)
(* for is silence, which only the average counts.                          *)
PullStores ==
  /\ consumer = "store"
  /\ tail' = (from + found) % Alloc
  /\ mutex' = FALSE
  /\ heard' = [last |-> Max(RealsOf(out) \cup {heard.last}),
               number |-> heard.number + Reals(out)]
  /\ consumer' = "mark"
  /\ UNCHANGED <<data, head, played, received, tuning, player, pushing, from,
                 found, out, sent, dropped>>

PullEnds ==
  /\ consumer = "mark"
  /\ played' = TRUE
  /\ from' = 0 /\ found' = 0 /\ out' = None
  /\ consumer' = "idle"
  /\ UNCHANGED <<ring, mutex, received, tuning, player, pushing, history>>

ProducerStep == WriteCopies \/ WritePublishes \/ DropOld \/ LookAtBuffer \/ Trim \/ Tune
ConsumerStep == PullCopies \/ PullStores \/ PullEnds

RegulatorNext ==
  \/ SinkOpens \/ SinkCloses
  \/ \E n \in FrameSizes, gap \in BOOLEAN : PushBegins(n, gap)
  \/ \E n \in PullSizes : PullBegins(n)
  \/ ProducerStep \/ ConsumerStep

RegulatorSpec == RegulatorInit /\ [][RegulatorNext]_regulatorVars

-----------------------------------------------------------------------------
(* Properties.                                                             *)

(* What is played is what the device has sent, in order: each sample at    *)
(* most once and never after a later one, although the writer overwrites   *)
(* and drops samples while a pull is under way.                            *)
PlayedInOrder ==
  consumer = "store" =>
    \A i \in DOMAIN out : out[i] # 0 =>
      out[i] > heard.last /\ \A j \in 1 .. i - 1 : out[j] < out[i]

(* No sample is lost but those the writer counts as dropped: everything    *)
(* the device has sent has been played, has been dropped, is in the ring   *)
(* or is still to be written.                                              *)
EverySampleAccounted ==
  consumer \in {"idle", "copy", "mark"} =>
    sent = heard.number + dropped + Reals(Buffered) + fresh + Len(frame)

(* The assertions of sc_audio_regulator_push: the samples to be dropped    *)
(* are there (225, 267), and then there is room for the rest (235).        *)
PushAssertions ==
  /\ producer = "full" => Len(frame) <= Capacity
  /\ producer = "rest" => Len(frame) <= CanWrite
  /\ producer = "look" => frame = None

(* The two threads play the stream: in order, no sample lost silently, and *)
(* no read or write past the ring.                                         *)
PlaysTheStream == PlayedInOrder /\ EverySampleAccounted /\ PushAssertions

(* The latency stays bounded: after a push the ring holds at most a tenth  *)
(* and 60 ms more than the target, however late the consumer is.           *)
LatencyBounded ==
  producer \in {"tune", "idle"} => CanRead <= MaxBuffered(TRUE)
=============================================================================
