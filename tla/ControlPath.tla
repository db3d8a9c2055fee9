---------------------------- MODULE ControlPath ----------------------------
(***************************************************************************)
(* From an SDL event to the device: the input manager (input_manager.c)    *)
(* hands keys, mouse and gamepads to a processor, which injects them over  *)
(* the control socket (keyboard_sdk.c, mouse_sdk.c), as UHID reports over  *)
(* the same socket (uhid), or as HID reports over USB (usb/aoa_hid.c).     *)
(* The controller sends what is queued, and drops what does not fit        *)
(* (controller.c).  The receiver takes what the device answers             *)
(* (receiver.c): acknowledgements of the clipboard, which the AOA thread   *)
(* waits for (util/acksync.c), and what must run on the main thread        *)
(* (events.c).                                                             *)
(*                                                                         *)
(* Four threads: main, controller, receiver and AOA.  An action is a whole *)
(* event handler of the main thread, or one turn of another thread's loop: *)
(* what it takes from its queue is its own until it is sent, so taking and *)
(* sending are one action.  The device takes a message when it is sent.    *)
(* Keyboard, mouse and gamepads are all of one mode; the keyboard has the  *)
(* keys v (with Ctrl) and caps lock; the clipboard is synchronised before  *)
(* Ctrl+v and --legacy-paste is off.                                       *)
(***************************************************************************)
EXTENDS Naturals, Sequences, FiniteSets, SequencesExt

CONSTANTS
  Pads,         \* gamepads, as SDL tells them apart
  MaxGamepads,  \* SC_MAX_GAMEPADS
  MaxKeys,      \* SC_HID_KEYBOARD_MAX_KEYS
  Limit,        \* SC_CONTROL_MSG_QUEUE_LIMIT and SC_AOA_EVENT_QUEUE_LIMIT
  Modes,        \* of "sdk", "uhid" and "aoa": the ones --keyboard=... may choose
  MaxInputs,    \* bound: SDL events of the user
  Habits,       \* bound: the kinds of event that occur together in a run, of
                \* "key", "request", "pause", "mouse" and "pad"
  Failing,      \* BOOLEAN: the device may disappear, and one USB transfer fail
  None          \* no gamepad, no report, no keys

ASSUME ControlAssumption ==
  /\ {MaxGamepads, MaxKeys, Limit} \subseteq Nat \ {0} /\ MaxInputs \in Nat
  /\ Modes \subseteq {"sdk", "uhid", "aoa"} /\ Failing \in BOOLEAN
  /\ None \notin Pads /\ \A keys \in SUBSET {"caps", "v"} : None # keys
  /\ None \notin [keys : (SUBSET {"caps", "v"}) \cup {None}, n : Nat]

(* The identifiers of the HID devices (hid/hid_event.h). *)
Keyboard == 1
Mouse == 2
Gamepad(slot) == 2 + slot
Slots == 1..MaxGamepads

(* The main thread's phases, in the order of scrcpy(): the event loop is over
   when sc_main_thread_stop runs; then sc_aoa_stop, sc_controller_stop and
   sc_server_stop, which shuts the socket; the joins are last. *)
Loop == 0
TasksStopped == 1
AoaStopped == 2
ControllerStopped == 3
ServerStopped == 4
Destroyed == 5

VARIABLES
  mode,       \* of the processors
  user,       \* what the user holds, the locks, the gamepads connected, the
              \* kinds of event and the events so far
  im,         \* the input manager: paused, vfinger_down, next_sequence, and the
              \* clipboard requested by the last Ctrl+v
  kb,         \* the keyboard: keys pressed, and what it knows of the locks
  slots,      \* sc_hid_gamepad: the gamepad of each slot
  queue,      \* controller->queue
  resize,     \* controller->resize_display is set
  controller, \* where its thread is
  aoa,        \* sc_aoa: its queue, where its thread is, the event whose ack it
              \* waits for, vec_open
  acksync,    \* its last ack
  answers,    \* what the device has sent and the receiver has not read
  receiver,   \* where its thread is
  tasks,      \* what SDL will run on the main thread
  phase,      \* how far the main thread is: what it has stopped
  device,     \* what the device has
  link,       \* the device is there
  lossy       \* history: a keyboard report was dropped, or given up because its
              \* ack came too late; a lock key was pressed or released while
              \* paused or in a phantom state; a USB transfer failed

ui == <<user, im, kb, slots>>
threads == <<queue, resize, controller, aoa, acksync, receiver, tasks>>
outside == <<answers, device, link>>
vars == <<mode, ui, threads, phase, outside, lossy>>

-----------------------------------------------------------------------------
(* What the device receives.  A message of the controller and an event of
   sc_aoa about the same HID device are the same record; pad and n are not
   sent: they say whose the message is. *)

Create(id, pad) == [type |-> "create", id |-> id, pad |-> pad]
Destroy(id, pad) == [type |-> "destroy", id |-> id, pad |-> pad]
Input(id, pad, report, ack) ==
  [type |-> "input", id |-> id, pad |-> pad, report |-> report, ack |-> ack]
Clipboard(sequence, n) == [type |-> "clipboard", sequence |-> sequence, n |-> n]
Finger(action) == [type |-> "finger", action |-> action]
Inject == [type |-> "inject"]   \* a touch, a scroll, a text, a request
GetClipboard == [type |-> "get clipboard"]

(* What the shortcuts make: keycodes, panels, power, rotation, settings, a reset
   of the video; and get_device_clipboard. *)
Requests == {Inject, GetClipboard}

(* What the keyboard's and the mouse's init push. *)
OpenKeyboard == Create(Keyboard, None)
OpenMouse == Create(Mouse, None)

(* The report of a motion, a click or a scroll. *)
MouseInput == Input(Mouse, None, None, 0)

(* sc_hid_keyboard_generate_input_from_key: too many keys are a phantom state,
   that says of no key whether it is pressed. *)
Report(keys, n) == [keys |-> IF Cardinality(keys) > MaxKeys THEN None ELSE keys,
                    n |-> n]

(* sc_hid_keyboard_generate_input_from_mods *)
LockReport == Report({"caps"}, 0)

-----------------------------------------------------------------------------
(* The two queues.                                                         *)

Droppable(msg) == msg.type \notin {"create", "destroy"}

Fits(q, msg) == Len(q) < Limit \/ ~Droppable(msg)

Offer(q, msg) == IF Fits(q, msg) THEN Append(q, msg) ELSE q

OfferAll(q, msgs) == FoldLeft(Offer, q, msgs)

(* Some message is dropped. *)
Overflows(q, msgs) == Len(OfferAll(q, msgs)) < Len(q) + Len(msgs)

(* sc_cond_signal *)
Wake(at) == IF at = "wait" THEN "run" ELSE at

(* Mutant: the condition is signalled when the queue was not empty. *)
SignalLate(at, q, r) == IF q # <<>> /\ r # q THEN Wake(at) ELSE at

(* The condition is signalled when the queue was empty. *)
SignalIfWasEmpty(at, q, r) == IF q = <<>> /\ r # <<>> THEN Wake(at) ELSE at

(* sc_controller_push_msg, for each message of a handler. *)
ToController(msgs) ==
  /\ queue' = OfferAll(queue, msgs)
  /\ controller' = SignalIfWasEmpty(controller, queue, queue')

(* sc_aoa_push_input, sc_aoa_push_open and sc_aoa_push_close *)
ToAoa(events) ==
  LET q == OfferAll(aoa.queue, events)
  IN aoa' = [aoa EXCEPT !.queue = q,
                        !.at = SignalIfWasEmpty(@, aoa.queue, q)]

(* A HID device's messages: its processor is a UHID or an AOA one. *)
ToHid(msgs) ==
  IF mode = "uhid" THEN ToController(msgs) /\ UNCHANGED aoa
  ELSE ToAoa(msgs) /\ UNCHANGED <<queue, controller>>

-----------------------------------------------------------------------------
(* The device (external).  "bad" collects what it could not make sense of. *)

Mark(d, what, wrong) == IF wrong THEN [d EXCEPT !.bad = @ \cup {what}] ELSE d

(* Android toggles a lock when its key is released, pastes when v is pressed,
   and keeps what it knows in a phantom state. *)
TakesReport(d, report) ==
  IF report = None \/ report.keys = None THEN d
  ELSE LET released == d.keys \ report.keys
           pressed == report.keys \ d.keys
       IN Mark([d EXCEPT !.keys = report.keys,
                         !.lock = IF "caps" \in released THEN ~@ ELSE @],
               "paste", "v" \in pressed /\ d.set < report.n)

Takes(d, msg) ==
  CASE msg.type = "create" ->
         Mark([d EXCEPT !.hid = @ \cup {<<msg.id, msg.pad>>}], "hid",
              \E pad \in Pads \cup {None} : <<msg.id, pad>> \in d.hid)
    [] msg.type = "destroy" ->
         Mark([d EXCEPT !.hid = @ \ {<<msg.id, msg.pad>>}], "hid",
              <<msg.id, msg.pad>> \notin d.hid)
    [] msg.type = "input" ->
         Mark(TakesReport(d, msg.report), "hid",
              <<msg.id, msg.pad>> \notin d.hid)
    [] msg.type = "clipboard" -> [d EXCEPT !.set = msg.n]
    [] msg.type = "key" -> Mark(d, "paste", d.set < msg.n)
    [] msg.type = "finger" ->
         Mark([d EXCEPT !.finger = msg.action # "up"], "finger",
              d.finger = (msg.action = "down"))
    [] OTHER -> d

(* What it answers: the LED of a lock when it changes, an acknowledgement of
   the clipboard when it was asked for one, the clipboard. *)
Answer(d, msg) ==
  CASE msg.type = "input" /\ Takes(d, msg).lock # d.lock ->
         <<[type |-> "led", lock |-> Takes(d, msg).lock]>>
    [] msg.type = "clipboard" /\ msg.sequence # 0 ->
         <<[type |-> "ack", sequence |-> msg.sequence]>>
    [] msg.type = "get clipboard" -> <<[type |-> "clipboard"]>>
    [] OTHER -> <<>>

-----------------------------------------------------------------------------
Init ==
  /\ mode \in Modes
  /\ \E kinds \in Habits :
       user = [held |-> {}, lock |-> FALSE, pads |-> {}, button |-> FALSE,
               kinds |-> kinds, inputs |-> 0]
  /\ im = [paused |-> FALSE, vfinger |-> FALSE, sequence |-> 1, pastes |-> 0]
  /\ kb = [keys |-> {}, lock |-> FALSE, synchronized |-> FALSE]
  /\ slots = [s \in Slots |-> None]
  /\ LET opens == <<OpenKeyboard, OpenMouse>> IN
       /\ queue = IF mode = "uhid" THEN opens ELSE <<>>
       /\ aoa = [queue |-> IF mode = "aoa" THEN opens ELSE <<>>,
                 at |-> IF mode = "aoa" THEN "run" ELSE "ended",
                 event |-> None, open |-> <<>>]
  /\ resize = FALSE /\ controller = "run" /\ receiver = "run"
  /\ acksync = 0 /\ answers = <<>> /\ tasks = <<>> /\ phase = Loop
  /\ device = [hid |-> {}, keys |-> {}, lock |-> FALSE, set |-> 0,
               finger |-> FALSE, bad |-> {}]
  /\ link = TRUE
  /\ lossy = [report |-> FALSE, lock |-> FALSE, usb |-> FALSE]

(* The main thread handles one more event of the user. *)
Happens(kind, new) ==
  /\ phase = Loop /\ user.inputs < MaxInputs /\ kind \in user.kinds
  /\ user' = [new EXCEPT !.inputs = @ + 1]

Event(kind, new) ==
  /\ Happens(kind, new)
  /\ UNCHANGED <<mode, resize, acksync, answers, receiver, tasks, phase, device,
                 link>>

-----------------------------------------------------------------------------
(* Keys: sc_input_manager_process_key, when the key is no shortcut.        *)

(* sc_keyboard_uhid_synchronize_mod, before any key but a lock: a report that
   presses the lock when the device's differs. *)
UhidReports(k, keys, n) ==
  IF k # "caps" /\ kb.lock # user.lock
  THEN <<LockReport, Report(keys, n)>> ELSE <<Report(keys, n)>>

UhidLock(k) == IF k = "caps" THEN ~kb.lock ELSE user'.lock

(* push_mod_lock_state: the locks that are on, before the first key. *)
AoaReports(keys, n) ==
  IF ~kb.synchronized /\ user'.lock
  THEN <<LockReport, Report(keys, n)>> ELSE <<Report(keys, n)>>

AoaSynchronized == kb.synchronized \/ ~user'.lock \/ Len(aoa.queue) < Limit

(* The reports a key makes, the last of them after the acknowledgement. *)
Inputs(reports, ack) ==
  [i \in DOMAIN reports |->
     Input(Keyboard, None, reports[i], IF i = Len(reports) THEN ack ELSE 0)]

(* sc_key_processor_process_key, of each processor. *)
ProcessKey(k, keys, n) ==
  CASE mode = "sdk" ->
         ToController(<<[type |-> "key", n |-> 0]>>) /\ UNCHANGED <<kb, aoa, lossy>>
    [] mode = "uhid" ->
         LET msgs == Inputs(UhidReports(k, keys, n), 0) IN
           /\ kb' = [kb EXCEPT !.keys = keys, !.lock = UhidLock(k)]
           /\ ToController(msgs) /\ UNCHANGED aoa
           /\ lossy' = [lossy EXCEPT
                !.report = @ \/ Overflows(queue, msgs),
                !.lock = @ \/ (k = "caps" /\ Report(keys, n).keys = None)]
    [] mode = "aoa" ->
         LET events == Inputs(AoaReports(keys, n), 0) IN
           /\ kb' = [kb EXCEPT !.keys = keys, !.synchronized = AoaSynchronized]
           /\ ToAoa(events) /\ UNCHANGED <<queue, controller>>
           /\ lossy' = [lossy EXCEPT !.report = @ \/ Overflows(aoa.queue, events)]

(* A press or a release that asks for no clipboard.  The locks of the computer
   change when caps lock is pressed. *)
Key(k) ==
  /\ k = "v" => k \in user.held
  /\ LET down == k \notin user.held
         keys == IF down THEN kb.keys \cup {k} ELSE kb.keys \ {k}
     IN /\ Event("key", [user EXCEPT !.held = IF down THEN @ \cup {k} ELSE @ \ {k},
                              !.lock = IF down /\ k = "caps" THEN ~@ ELSE @])
        /\ IF im.paused
           THEN /\ lossy' = [lossy EXCEPT !.lock = @ \/ k = "caps"]
                /\ UNCHANGED <<kb, queue, controller, aoa>>
           ELSE ProcessKey(k, keys, im.pastes)
  /\ UNCHANGED <<im, slots>>

(* The same for Ctrl+v, whose clipboard is already queued. *)
ProcessCtrlV(keys, n, clipboard) ==
  CASE mode = "sdk" ->
         /\ ToController(<<clipboard, [type |-> "key", n |-> n]>>)
         /\ UNCHANGED <<kb, aoa, lossy>>
    [] mode = "uhid" ->
         LET msgs == <<clipboard>> \o Inputs(UhidReports("v", keys, n), 0) IN
           /\ kb' = [kb EXCEPT !.keys = keys, !.lock = UhidLock("v")]
           /\ ToController(msgs) /\ UNCHANGED aoa
           /\ lossy' = [lossy EXCEPT !.report = @ \/ Overflows(queue, msgs)]
    [] mode = "aoa" ->
         LET events == Inputs(AoaReports(keys, n), clipboard.sequence) IN
           /\ kb' = [kb EXCEPT !.keys = keys, !.synchronized = AoaSynchronized]
           /\ ToController(<<clipboard>>) /\ ToAoa(events)
           /\ lossy' = [lossy EXCEPT !.report = @ \/ Overflows(aoa.queue, events)]

(* Ctrl+v is pressed: set_device_clipboard first; an AOA keyboard (async_paste)
   asks for its acknowledgement.  When it is dropped, so is the key. *)
CtrlV ==
  /\ "v" \notin user.held
  /\ Event("key", [user EXCEPT !.held = @ \cup {"v"}])
  /\ LET async == mode = "aoa"
         n == im.pastes + 1
         clipboard == Clipboard(IF async THEN im.sequence ELSE 0, n)
     IN IF im.paused \/ ~Fits(queue, clipboard)
        THEN UNCHANGED <<im, kb, queue, controller, aoa, lossy>>
        ELSE /\ im' = [im EXCEPT !.pastes = n,
                                 !.sequence = IF async THEN @ + 1 ELSE @]
             /\ ProcessCtrlV(kb.keys \cup {"v"}, n, clipboard)
  /\ UNCHANGED slots

(* The shortcuts that ask the device for something, which they do not while
   paused. *)
Request(msg) ==
  /\ ~im.paused
  /\ Event("request", user) /\ ToController(<<msg>>)
  /\ UNCHANGED <<im, kb, slots, aoa, lossy>>

(* sc_input_manager_process_text_input: only the SDK keyboard takes a text. *)
TextInput ==
  /\ mode = "sdk" /\ ~im.paused
  /\ Event("request", user) /\ ToController(<<Inject>>)
  /\ UNCHANGED <<im, kb, slots, aoa, lossy>>

(* sc_screen_set_paused *)
TogglePause ==
  /\ Event("pause", user) /\ im' = [im EXCEPT !.paused = ~@]
  /\ UNCHANGED <<kb, slots, queue, controller, aoa, lossy>>

-----------------------------------------------------------------------------
(* The mouse.                                                              *)

(* sc_mouse_uhid_send_input, sc_aoa_push_input *)
ToMouse == ToHid(<<MouseInput>>)

(* Mutant: vfinger_down is set before the virtual finger's event is pushed. *)
VFingerBlind(down, msgs) == down

(* vfinger_down, once the virtual finger's event, the last of them, is pushed. *)
VFinger(down, msgs) == IF Overflows(queue, msgs) THEN im.vfinger ELSE down

(* A click of the left button, with Ctrl or Shift or without: the virtual
   finger goes down with one, and up with the button. *)
ClickSdk(down, mod) ==
  LET change == (down /\ ~im.vfinger /\ mod) \/ (~down /\ im.vfinger)
      msgs == <<Inject>> \o
              IF change THEN <<Finger(IF down THEN "down" ELSE "up")>> ELSE <<>>
  IN /\ ToController(msgs)
     /\ im' = [im EXCEPT !.vfinger =
                 IF change THEN VFinger(down, msgs) ELSE @]

(* sc_input_manager_process_mouse_button: nothing while paused, but the
   release is remembered. *)
Click(mod) ==
  /\ Event("mouse", [user EXCEPT !.button = ~@])
  /\ CASE im.paused -> UNCHANGED <<im, queue, controller, aoa>>
       [] ~im.paused /\ mode = "sdk" ->
            ClickSdk(~user.button, mod) /\ UNCHANGED aoa
       [] ~im.paused /\ mode # "sdk" ->
            ToMouse /\ UNCHANGED im
  /\ UNCHANGED <<kb, slots, lossy>>

(* sc_input_manager_process_mouse_motion *)
Motion ==
  /\ ~im.paused /\ Event("mouse", user)
  /\ IF mode = "sdk"
     THEN /\ ToController(<<Inject>> \o
               IF im.vfinger THEN <<Finger("move")>> ELSE <<>>)
          /\ UNCHANGED aoa
     ELSE ToMouse
  /\ UNCHANGED <<im, kb, slots, lossy>>

(* sc_input_manager_process_mouse_wheel; a HID mouse has no report for less than
   a whole step. *)
Wheel ==
  /\ ~im.paused /\ Event("mouse", user)
  /\ \/ mode = "sdk" /\ ToController(<<Inject>>) /\ UNCHANGED aoa
     \/ mode # "sdk" /\ ToMouse
     \/ mode # "sdk" /\ UNCHANGED <<queue, controller, aoa>>
  /\ UNCHANGED <<im, kb, slots, lossy>>

(* sc_input_manager_process_touch: only the SDK mouse takes a touch. *)
Touch ==
  /\ mode = "sdk" /\ ~im.paused
  /\ Event("mouse", user) /\ ToController(<<Inject>>)
  /\ UNCHANGED <<im, kb, slots, aoa, lossy>>

-----------------------------------------------------------------------------
(* Gamepads.                                                               *)

(* sc_hid_gamepad_slot_find *)
SlotsOf(pad) == {s \in Slots : slots[s] = pad}
SlotOf(pad) == CHOOSE s \in SlotsOf(pad) : \A t \in SlotsOf(pad) : s <= t

(* process_gamepad_added and sc_hid_gamepad_generate_open *)
GamepadAdded(pad) ==
  /\ mode # "sdk" /\ pad \notin user.pads
  /\ Event("pad", [user EXCEPT !.pads = @ \cup {pad}])
  /\ IF SlotsOf(None) = {} THEN UNCHANGED <<slots, queue, controller, aoa>>
     ELSE LET s == SlotOf(None) IN
          /\ slots' = [slots EXCEPT ![s] = pad]
          /\ ToHid(<<Create(Gamepad(s), pad)>>)
  /\ UNCHANGED <<im, kb, lossy>>

(* process_gamepad_removed and sc_hid_gamepad_generate_close *)
GamepadRemoved(pad) ==
  /\ pad \in user.pads
  /\ Event("pad", [user EXCEPT !.pads = @ \ {pad}])
  /\ IF SlotsOf(pad) = {} THEN UNCHANGED <<slots, queue, controller, aoa>>
     ELSE LET s == SlotOf(pad) IN
          /\ slots' = [slots EXCEPT ![s] = None]
          /\ ToHid(<<Destroy(Gamepad(s), pad)>>)
  /\ UNCHANGED <<im, kb, lossy>>

(* process_gamepad_axis and process_gamepad_button *)
GamepadInput(pad) ==
  /\ pad \in user.pads /\ ~im.paused /\ SlotsOf(pad) # {}
  /\ Event("pad", user)
  /\ ToHid(<<Input(Gamepad(SlotOf(pad)), pad, None, 0)>>)
  /\ UNCHANGED <<im, kb, slots, lossy>>

(* sc_controller_resize_display, of a window with --flex-display. *)
ResizeDisplay ==
  /\ Happens("request", user)
  /\ resize' = TRUE
  /\ controller' = IF resize THEN controller ELSE Wake(controller)
  /\ UNCHANGED <<mode, im, kb, slots, queue, aoa, acksync, receiver, tasks,
                 phase, outside, lossy>>

(* Mutant: to_sc_mod takes the LED of num lock for that of caps lock. *)
AfterTaskOfNumLock(task) ==
  IF task.type = "led" THEN [kb EXCEPT !.lock = FALSE] ELSE kb

(* SDL runs a task: task_set_clipboard, or task_uhid_output, which ends in
   sc_keyboard_uhid_process_hid_output. *)
AfterTask(task) ==
  IF task.type = "led" THEN [kb EXCEPT !.lock = task.lock] ELSE kb

RunTask ==
  /\ phase = Loop /\ tasks # <<>>
  /\ kb' = AfterTask(Head(tasks)) /\ tasks' = Tail(tasks)
  /\ UNCHANGED <<mode, user, im, slots, queue, resize, controller, aoa, acksync,
                 receiver, phase, outside, lossy>>

-----------------------------------------------------------------------------
(* The controller's thread, run_controller.                                *)

Reachable == link /\ phase < ServerStopped   \* net_send_all succeeds

(* Nothing to do: it waits on msg_cond. *)
ControllerWaits ==
  /\ controller = "run" /\ phase < ControllerStopped
  /\ queue = <<>> /\ ~resize
  /\ controller' = "wait"
  /\ UNCHANGED <<mode, ui, queue, resize, aoa, acksync, receiver, tasks, phase,
                 outside, lossy>>

(* The pending size goes before the queue. *)
ControllerResizes ==
  /\ controller = "run" /\ phase < ControllerStopped /\ resize
  /\ resize' = FALSE
  /\ controller' = IF Reachable THEN "run" ELSE "ended"
  /\ UNCHANGED <<mode, ui, queue, aoa, acksync, receiver, tasks, phase, outside,
                 lossy>>

(* sc_vecdeque_pop, and process_msg without the lock. *)
ControllerSends ==
  /\ controller = "run" /\ phase < ControllerStopped
  /\ ~resize /\ queue # <<>>
  /\ queue' = Tail(queue)
  /\ IF Reachable
     THEN /\ device' = Takes(device, Head(queue))
          /\ answers' = answers \o Answer(device, Head(queue))
          /\ UNCHANGED controller
     ELSE controller' = "ended" /\ UNCHANGED <<device, answers>>
  /\ UNCHANGED <<mode, ui, resize, aoa, acksync, receiver, tasks, phase, link,
                 lossy>>

ControllerEnds ==
  /\ controller = "run" /\ phase >= ControllerStopped
  /\ controller' = "ended"
  /\ UNCHANGED <<mode, ui, queue, resize, aoa, acksync, receiver, tasks, phase,
                 outside, lossy>>

-----------------------------------------------------------------------------
(* The receiver's thread, run_receiver.                                    *)

(* Mutant: sc_run_on_main_thread does not look whether the loop is over. *)
RunOnMainAlways(task) == Append(tasks, task)

(* sc_run_on_main_thread *)
RunOnMain(task) == IF phase >= TasksStopped THEN tasks ELSE Append(tasks, task)

(* process_msg: sc_acksync_ack, or a task of the main thread. *)
ReceiverTakes ==
  /\ receiver = "run" /\ answers # <<>>
  /\ LET msg == Head(answers) IN
       IF msg.type = "ack"
       THEN acksync' = msg.sequence /\ UNCHANGED tasks
       ELSE tasks' = RunOnMain(msg) /\ UNCHANGED acksync
  /\ answers' = Tail(answers)
  /\ UNCHANGED <<mode, ui, queue, resize, controller, aoa, receiver, phase,
                 device, link, lossy>>

ReceiverEnds ==
  /\ receiver = "run" /\ ~Reachable
  /\ receiver' = "ended"
  /\ UNCHANGED <<mode, ui, queue, resize, controller, aoa, acksync, tasks, phase,
                 outside, lossy>>

-----------------------------------------------------------------------------
(* The AOA thread, run_aoa_thread.                                         *)

(* A control transfer to the device: that of an open or a close may fail once. *)
Transfers(event, ok) ==
  ~ok => Failing /\ ~lossy.usb /\ event.type # "input"

(* vec_open after an event: sc_vector_push, and sc_vector_remove of the first
   occurrence. *)
OpenAfter(event, ok) ==
  CASE event.type = "create" /\ ok -> Append(aoa.open, event.id)
    [] event.type = "destroy" /\ ok ->
         IF Contains(aoa.open, event.id)
         THEN RemoveAt(aoa.open, SelectInSeq(aoa.open, LAMBDA id : id = event.id))
         ELSE aoa.open
    [] OTHER -> aoa.open

(* sc_aoa_process_event.  A device whose setup fails half-way is unregistered
   again. *)
AoaProcesses(event) ==
  \E ok \in BOOLEAN :
    /\ Transfers(event, ok)
    /\ device' = IF ok THEN Takes(device, event) ELSE device
    /\ aoa' = [aoa EXCEPT !.queue = IF aoa.at = "run" THEN Tail(@) ELSE @,
                          !.at = "run", !.event = None,
                          !.open = OpenAfter(event, ok)]
    /\ lossy' = [lossy EXCEPT !.usb = @ \/ ~ok]

AoaWaits ==
  /\ aoa.at = "run" /\ phase < AoaStopped /\ aoa.queue = <<>>
  /\ aoa' = [aoa EXCEPT !.at = "wait"]
  /\ UNCHANGED <<mode, ui, queue, resize, controller, acksync, receiver, tasks,
                 phase, outside, lossy>>

AwaitsAck(event) == event.type = "input" /\ event.ack # 0

AoaSends ==
  /\ aoa.at = "run" /\ phase < AoaStopped /\ aoa.queue # <<>>
  /\ ~AwaitsAck(Head(aoa.queue))
  /\ AoaProcesses(Head(aoa.queue))
  /\ UNCHANGED <<mode, ui, queue, resize, controller, acksync, receiver, tasks,
                 phase, answers, link>>

(* It has taken an event that must wait: sc_acksync_wait. *)
AoaAwaits ==
  /\ aoa.at = "run" /\ phase < AoaStopped /\ aoa.queue # <<>>
  /\ AwaitsAck(Head(aoa.queue))
  /\ aoa' = [aoa EXCEPT !.queue = Tail(@), !.at = "ack", !.event = Head(aoa.queue)]
  /\ UNCHANGED <<mode, ui, queue, resize, controller, acksync, receiver, tasks,
                 phase, outside, lossy>>

AoaAcked ==
  /\ aoa.at = "ack" /\ phase < AoaStopped /\ acksync >= aoa.event.ack
  /\ AoaProcesses(aoa.event)
  /\ UNCHANGED <<mode, ui, queue, resize, controller, acksync, receiver, tasks,
                 phase, answers, link>>

(* SC_ACKSYNC_WAIT_TIMEOUT: the event is discarded. *)
AoaTimesOut ==
  /\ aoa.at = "ack" /\ phase < AoaStopped /\ acksync < aoa.event.ack
  /\ aoa' = [aoa EXCEPT !.at = "run", !.event = None]
  /\ lossy' = [lossy EXCEPT !.report = TRUE]
  /\ UNCHANGED <<mode, ui, queue, resize, controller, acksync, receiver, tasks,
                 phase, outside>>

(* It is stopped, or its wait is interrupted: all of vec_open is unregistered. *)
AoaEnds ==
  /\ aoa.at \in {"run", "ack"} /\ phase >= AoaStopped
  /\ aoa' = [aoa EXCEPT !.at = "ended", !.event = None]
  /\ device' = [device EXCEPT !.hid = {h \in @ : ~Contains(aoa.open, h[1])}]
  /\ UNCHANGED <<mode, ui, queue, resize, controller, acksync, receiver, tasks,
                 phase, answers, link, lossy>>

-----------------------------------------------------------------------------
(* The end of scrcpy().                                                    *)

(* sc_main_thread_stop runs what is left on the main thread. *)
StopTasks ==
  /\ phase = Loop /\ phase' = TasksStopped
  /\ kb' = IF tasks = <<>> THEN kb ELSE AfterTask(Last(tasks))
  /\ tasks' = <<>>
  /\ UNCHANGED <<mode, user, im, slots, queue, resize, controller, aoa, acksync,
                 receiver, outside, lossy>>

(* sc_aoa_stop interrupts the wait for an ack as well. *)
StopAoa ==
  /\ phase = TasksStopped /\ phase' = AoaStopped
  /\ aoa' = [aoa EXCEPT !.at = Wake(@)]
  /\ UNCHANGED <<mode, ui, queue, resize, controller, acksync, receiver, tasks,
                 outside, lossy>>

(* Mutant: sc_controller_stop does not signal. *)
StopControllerSilently ==
  /\ phase = AoaStopped /\ phase' = ControllerStopped
  /\ UNCHANGED <<mode, ui, threads, outside, lossy>>

StopController ==
  /\ phase = AoaStopped /\ phase' = ControllerStopped
  /\ controller' = Wake(controller)
  /\ UNCHANGED <<mode, ui, queue, resize, aoa, acksync, receiver, tasks, outside,
                 lossy>>

StopServer ==
  /\ phase = ControllerStopped /\ phase' = ServerStopped
  /\ UNCHANGED <<mode, ui, threads, outside, lossy>>

(* sc_aoa_join, sc_controller_join and what follows. *)
Join ==
  /\ phase = ServerStopped /\ phase' = Destroyed
  /\ aoa.at = "ended" /\ controller = "ended" /\ receiver = "ended"
  /\ UNCHANGED <<mode, ui, threads, outside, lossy>>

(* The device disappears (bound: what fails over USB is one transfer). *)
Unplug ==
  /\ Failing /\ link /\ phase = Loop /\ mode # "aoa"
  /\ link' = FALSE
  /\ UNCHANGED <<mode, ui, threads, phase, answers, device, lossy>>

UserInput ==
  \/ \E k \in {"caps", "v"} : Key(k)
  \/ CtrlV
  \/ \E msg \in Requests : Request(msg)
  \/ TextInput \/ TogglePause \/ Motion \/ Wheel \/ Touch \/ ResizeDisplay
  \/ \E mod \in BOOLEAN : Click(mod)
  \/ \E pad \in Pads : GamepadAdded(pad) \/ GamepadRemoved(pad) \/ GamepadInput(pad)

ControllerThread ==
  ControllerWaits \/ ControllerResizes \/ ControllerSends \/ ControllerEnds
ReceiverThread == ReceiverTakes \/ ReceiverEnds
AoaThread ==
  AoaWaits \/ AoaSends \/ AoaAwaits \/ AoaAcked \/ AoaTimesOut \/ AoaEnds
Stops == StopAoa \/ StopController \/ StopServer \/ Join

Next ==
  \/ UserInput \/ RunTask \/ StopTasks \/ Stops \/ Unplug
  \/ ControllerThread \/ ReceiverThread \/ AoaThread

Spec == Init /\ [][Next]_vars

(* The threads run, and the main thread goes on stopping once it has begun. *)
FairSpec ==
  /\ Spec
  /\ WF_vars(Stops) /\ WF_vars(ControllerThread)
  /\ WF_vars(ReceiverThread) /\ WF_vars(AoaThread)

-----------------------------------------------------------------------------
(* A thread that waits has nothing to do: no message, size or event is left in
   a queue whose thread sleeps, and no thread that is to stop sleeps on. *)
NothingStranded ==
  /\ controller = "wait" => queue = <<>> /\ ~resize /\ phase < ControllerStopped
  /\ aoa.at = "wait" => aoa.queue = <<>> /\ phase < AoaStopped

(* However full the queues were and however gamepads came and went, the device
   gets reports only for HID devices it was told to create, each from the
   gamepad it was created for, and creates none that exists
   (control_msg.c:351).  A failed USB transfer excepted. *)
HidDevicesMatch == lossy.usb \/ "hid" \notin device.bad

(* When the device sees Ctrl+v it already has the clipboard that was requested
   before it, over the socket (keyboard_sdk.c:274) and over USB
   (keyboard_aoa.c:53): unless, over USB, a report was dropped or given up
   because its acknowledgement came too late. *)
PasteIsFresh ==
  (mode = "aoa" /\ lossy.report) \/ "paste" \notin device.bad

(* A promise that does not hold (README, Known deviations): keyboard_aoa.c:53,
   Ctrl+v never pastes the old clipboard. *)
NeverPastesTheOld == "paste" \notin device.bad

(* The virtual finger moves and goes up only when the device has it down, even
   when its events are dropped (input_manager.c:1004). *)
FingerIsDown == "finger" \notin device.bad

(* The device is never sent what only makes sense after something it was not
   sent: no report without its device, no move of a finger that is up, no
   Ctrl+v before the clipboard. *)
DeviceCanFollow == HidDevicesMatch /\ FingerIsDown /\ PasteIsFresh

Quiet == queue = <<>> /\ answers = <<>> /\ tasks = <<>> /\ phase = Loop /\ link

(* Whatever raced, once everything has arrived and no lock key is down, the
   UHID keyboard knows the device's locks (keyboard_uhid.c:41), unless a report
   was dropped, or a lock key was pressed or released while paused or with too
   many others. *)
LocksAreKnown ==
  mode = "uhid" /\ Quiet /\ "caps" \notin kb.keys /\ ~lossy.report /\ ~lossy.lock
    => kb.lock = device.lock

(* A promise that does not hold (README, Known deviations):
   keyboard_uhid.c:41, the locks "will re-synchronize on next key press": when
   everything has arrived and the device's locks differ from the computer's, the
   next key finds that what it knows of the device differs too. *)
NextKeyResynchronizes ==
  mode = "uhid" /\ Quiet /\ "caps" \notin kb.keys /\ ~lossy.report
    /\ device.lock # user.lock => kb.lock # user.lock

(* receiver.c:140: nothing that points to the keyboard is left to run on the
   main thread when the processors are about to be destroyed. *)
NoTaskIsLeft == phase >= TasksStopped => tasks = <<>>

(* Once the AOA thread has ended, none of its HID devices is registered on the
   device any more, although a transfer failed (aoa_hid.c:435). *)
NothingStaysRegistered ==
  mode = "aoa" /\ aoa.at = "ended" => device.hid = {}

(* What must not outlive its thread is gone when the thread is. *)
NothingIsLeft == NoTaskIsLeft /\ NothingStaysRegistered

(* Once the main thread stops, every thread ends and is joined. *)
EveryThreadEnds == phase = TasksStopped ~> phase = Destroyed
=============================================================================
