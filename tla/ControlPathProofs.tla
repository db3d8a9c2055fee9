-------------------------- MODULE ControlPathProofs --------------------------
(***************************************************************************)
(* Whatever the limits of the queues, the number of gamepads and the       *)
(* number of events are: no wakeup is lost between the input manager and   *)
(* the threads that send what it pushes, although a push signals only when *)
(* the queue was empty; the device can follow what it is sent; and the     *)
(* UHID keyboard knows the device's locks once everything has arrived.     *)
(*                                                                         *)
(* The second rests on one fact of each queue: from what the device has,   *)
(* its messages lead, each of them one the device can follow, to what the  *)
(* main thread takes it to have.  A handler extends that path at its end,  *)
(* or leaves it alone when its messages are dropped; a thread that sends   *)
(* takes the path's first step.  The third follows the lock key along the  *)
(* same path, and the LEDs on their way back.                              *)
(***************************************************************************)
EXTENDS ControlPath, WellFoundedInduction, FiniteSetTheorems, TLAPS

(* The two parts of NothingStranded. *)
ControllerAwake ==
  controller = "wait" => queue = <<>> /\ ~resize /\ phase < ControllerStopped

AoaAwake == aoa.at = "wait" => aoa.queue = <<>> /\ phase < AoaStopped

TypeInv ==
  /\ mode \in {"sdk", "uhid", "aoa"} /\ phase \in 0..5 /\ resize \in BOOLEAN
  /\ aoa = [queue |-> aoa.queue, at |-> aoa.at, event |-> aoa.event, open |-> aoa.open]

CInv == TypeInv /\ ControllerAwake /\ AoaAwake /\ NoTaskIsLeft

(* What a handler of the main thread may do to the threads. *)
PushesToController ==
  /\ UNCHANGED resize
  /\ \/ UNCHANGED <<queue, controller>>
     \/ controller' = SignalIfWasEmpty(controller, queue, queue')

PushesToAoa ==
  \/ UNCHANGED aoa
  \/ \E q : aoa' = [aoa EXCEPT !.queue = q,
                               !.at = SignalIfWasEmpty(@, aoa.queue, q)]

Pushes ==
  /\ PushesToController /\ PushesToAoa
  /\ UNCHANGED <<mode, phase, tasks>>

-----------------------------------------------------------------------------
(* Pushing.                                                                *)

(* sc_controller_push_msg is a push, whatever the messages are. *)
LEMMA ToControllerPushes ==
  ASSUME NEW msgs, ToController(msgs), UNCHANGED resize
  PROVE  PushesToController
BY DEF ToController, PushesToController

(* sc_aoa_push_input, sc_aoa_push_open and sc_aoa_push_close are. *)
LEMMA ToAoaPushes ==
  ASSUME NEW events, ToAoa(events)
  PROVE  PushesToAoa
BY DEF ToAoa, PushesToAoa

(* The messages of a HID device go to one of the two. *)
LEMMA ToHidPushes ==
  ASSUME NEW msgs, ToHid(msgs), UNCHANGED resize
  PROVE  PushesToController /\ PushesToAoa
<1>1. CASE mode = "uhid"
  <2>1. ToController(msgs) /\ UNCHANGED aoa
    BY <1>1 DEF ToHid
  <2> QED BY <2>1, ToControllerPushes DEF PushesToAoa
<1>2. CASE mode # "uhid"
  <2>1. ToAoa(msgs) /\ UNCHANGED <<queue, controller>>
    BY <1>2 DEF ToHid
  <2> QED BY <2>1, ToAoaPushes DEF PushesToController
<1> QED BY <1>1, <1>2

(* A push to a thread that waits wakes it, and one that pushes nothing leaves
   its queue empty. *)
LEMMA PushesKeepAwake ==
  ASSUME CInv, Pushes
  PROVE  CInv'
<1>1. ControllerAwake'
  BY DEF Pushes, PushesToController, CInv, ControllerAwake, SignalIfWasEmpty, Wake
<1>2. TypeInv' /\ AoaAwake'
  <2>1. CASE UNCHANGED aoa
    BY <2>1 DEF Pushes, PushesToController, CInv, TypeInv, AoaAwake
  <2>2. ASSUME NEW q,
               aoa' = [aoa EXCEPT !.queue = q,
                                  !.at = SignalIfWasEmpty(@, aoa.queue, q)]
        PROVE  TypeInv' /\ AoaAwake'
    <3>1. /\ aoa'.queue = q /\ aoa'.at = SignalIfWasEmpty(aoa.at, aoa.queue, q)
          /\ aoa' = [queue |-> aoa'.queue, at |-> aoa'.at, event |-> aoa'.event,
                     open |-> aoa'.open]
      BY <2>2 DEF CInv, TypeInv
    <3> QED BY <3>1 DEF Pushes, PushesToController, CInv, TypeInv, AoaAwake,
                        SignalIfWasEmpty, Wake
  <2> QED BY <2>1, <2>2 DEF Pushes, PushesToAoa
<1>3. NoTaskIsLeft'
  BY DEF Pushes, CInv, NoTaskIsLeft
<1> QED BY <1>1, <1>2, <1>3 DEF CInv

-----------------------------------------------------------------------------
(* The handlers.                                                           *)

(* sc_key_processor_process_key of each processor pushes. *)
LEMMA ProcessKeyPushes ==
  ASSUME TypeInv, NEW k, NEW keys, NEW n, ProcessKey(k, keys, n), UNCHANGED resize
  PROVE  PushesToController /\ PushesToAoa
<1>1. CASE mode = "sdk"
  <2>1. ToController(<<[type |-> "key", n |-> 0]>>) /\ UNCHANGED aoa
    BY <1>1 DEF ProcessKey
  <2> QED BY <2>1, ToControllerPushes DEF PushesToAoa
<1>2. CASE mode = "uhid"
  <2>1. ToController(Inputs(UhidReports(k, keys, n), 0)) /\ UNCHANGED aoa
    BY <1>2 DEF ProcessKey
  <2> QED BY <2>1, ToControllerPushes DEF PushesToAoa
<1>3. CASE mode = "aoa"
  <2>1. ToAoa(Inputs(AoaReports(keys, n), 0)) /\ UNCHANGED <<queue, controller>>
    BY <1>3 DEF ProcessKey
  <2> QED BY <2>1, ToAoaPushes DEF PushesToController
<1> QED BY <1>1, <1>2, <1>3 DEF TypeInv

(* The clipboard and the key of Ctrl+v are pushed, to one queue or to two. *)
LEMMA ProcessCtrlVPushes ==
  ASSUME TypeInv, NEW keys, NEW n, NEW clipboard, ProcessCtrlV(keys, n, clipboard),
         UNCHANGED resize
  PROVE  PushesToController /\ PushesToAoa
<1>1. CASE mode = "sdk"
  <2>1. ToController(<<clipboard, [type |-> "key", n |-> n]>>) /\ UNCHANGED aoa
    BY <1>1 DEF ProcessCtrlV
  <2> QED BY <2>1, ToControllerPushes DEF PushesToAoa
<1>2. CASE mode = "uhid"
  <2>1. /\ ToController(<<clipboard>> \o Inputs(UhidReports("v", keys, n), 0))
        /\ UNCHANGED aoa
    BY <1>2 DEF ProcessCtrlV
  <2> QED BY <2>1, ToControllerPushes DEF PushesToAoa
<1>3. CASE mode = "aoa"
  <2>1. /\ ToController(<<clipboard>>)
        /\ ToAoa(Inputs(AoaReports(keys, n), clipboard.sequence))
    BY <1>3 DEF ProcessCtrlV
  <2> QED BY <2>1, ToControllerPushes, ToAoaPushes
<1> QED BY <1>1, <1>2, <1>3 DEF TypeInv

(* The click of an SDK mouse pushes. *)
LEMMA ClickPushes ==
  ASSUME NEW mod \in BOOLEAN, Click(mod), UNCHANGED resize
  PROVE  PushesToController /\ PushesToAoa
<1>1. CASE im.paused
  BY <1>1 DEF Click, PushesToController, PushesToAoa
<1>2. CASE ~im.paused /\ mode = "sdk"
  <2>1. ClickSdk(~user.button, mod) /\ UNCHANGED aoa
    BY <1>2 DEF Click
  <2> QED BY <2>1, ToControllerPushes DEF ClickSdk, PushesToAoa
<1>3. CASE ~im.paused /\ mode # "sdk"
  <2>1. ToHid(<<MouseInput>>)
    BY <1>3 DEF Click, ToMouse
  <2> QED BY <2>1, ToHidPushes
<1> QED BY <1>1, <1>2, <1>3

(* Every event of the user that is no resize of the window pushes. *)
LEMMA UserPushes ==
  ASSUME TypeInv, UserInput, ~ResizeDisplay
  PROVE  Pushes
<1>1. UNCHANGED <<mode, resize, tasks, phase>>
  BY DEF UserInput, Key, CtrlV, Request, TextInput, TogglePause, Motion, Wheel, Touch,
         Click, GamepadAdded, GamepadRemoved, GamepadInput, Event
<1> SUFFICES PushesToController /\ PushesToAoa
  BY <1>1 DEF Pushes
<1>0. UNCHANGED <<queue, controller, aoa>> => PushesToController /\ PushesToAoa
  BY <1>1 DEF PushesToController, PushesToAoa
<1>11. ASSUME NEW msgs, ToController(msgs), UNCHANGED aoa
      PROVE  PushesToController /\ PushesToAoa
  BY <1>1, <1>11, ToControllerPushes DEF PushesToAoa
<1>12. ASSUME NEW msgs, ToHid(msgs)
      PROVE  PushesToController /\ PushesToAoa
  BY <1>1, <1>12, ToHidPushes
<1>2. ASSUME NEW k \in {"caps", "v"}, Key(k)
      PROVE  PushesToController /\ PushesToAoa
  <2>1. CASE im.paused
    BY <1>0, <1>2, <2>1 DEF Key
  <2>2. CASE ~im.paused
    <3> DEFINE keys == IF k \notin user.held THEN kb.keys \cup {k} ELSE kb.keys \ {k}
    <3>1. ProcessKey(k, keys, im.pastes)
      BY <1>2, <2>2 DEF Key
    <3> QED BY <1>1, <3>1, ProcessKeyPushes
  <2> QED BY <2>1, <2>2
<1>3. CASE CtrlV
  <2> DEFINE n == im.pastes + 1
             clipboard == Clipboard(IF mode = "aoa" THEN im.sequence ELSE 0, n)
  <2>1. \/ UNCHANGED <<queue, controller, aoa>>
        \/ ProcessCtrlV(kb.keys \cup {"v"}, n, clipboard)
    BY <1>3 DEF CtrlV
  <2> HIDE DEF n, clipboard
  <2>2. ASSUME NEW keys, ProcessCtrlV(keys, n, clipboard)
        PROVE  PushesToController /\ PushesToAoa
    BY <1>1, <2>2, ProcessCtrlVPushes
  <2> QED BY <1>0, <2>1, <2>2
<1>4. ASSUME NEW msg \in Requests, Request(msg)
      PROVE  PushesToController /\ PushesToAoa
  <2>1. ToController(<<msg>>) /\ UNCHANGED aoa
    BY <1>4 DEF Request
  <2> QED BY <1>11, <2>1
<1>5. CASE TextInput \/ Touch
  <2>1. ToController(<<Inject>>) /\ UNCHANGED aoa
    BY <1>5 DEF TextInput, Touch
  <2> QED BY <1>11, <2>1
<1>6. CASE TogglePause
  BY <1>0, <1>6 DEF TogglePause
<1>7. CASE Motion
  <2> DEFINE msgs == <<Inject>> \o IF im.vfinger THEN <<Finger("move")>> ELSE <<>>
  <2>1. (ToController(msgs) /\ UNCHANGED aoa) \/ ToHid(<<MouseInput>>)
    BY <1>7 DEF Motion, ToMouse
  <2> HIDE DEF msgs
  <2> QED BY <1>0, <1>11, <1>12, <2>1
<1>8. CASE Wheel
  <2>1. \/ ToController(<<Inject>>) /\ UNCHANGED aoa
        \/ ToHid(<<MouseInput>>)
        \/ UNCHANGED <<queue, controller, aoa>>
    BY <1>8 DEF Wheel, ToMouse
  <2> QED BY <1>0, <1>11, <1>12, <2>1
<1>9. ASSUME NEW mod \in BOOLEAN, Click(mod)
      PROVE  PushesToController /\ PushesToAoa
  BY <1>1, <1>9, ClickPushes
<1>10. ASSUME NEW pad \in Pads,
              GamepadAdded(pad) \/ GamepadRemoved(pad) \/ GamepadInput(pad)
       PROVE  PushesToController /\ PushesToAoa
  <2>1. UNCHANGED <<queue, controller, aoa>> \/ \E msgs : ToHid(msgs)
    BY <1>10 DEF GamepadAdded, GamepadRemoved, GamepadInput
  <2> QED BY <1>0, <1>12, <2>1
<1> QED BY <1>1, <1>2, <1>3, <1>4, <1>5, <1>6, <1>7, <1>8, <1>9, <1>10
        DEF UserInput

-----------------------------------------------------------------------------
(* The inductive invariant.                                                *)

(* Initially nothing waits. *)
LEMMA InitCInv == Init => CInv
<1> SUFFICES ASSUME Init PROVE CInv
  OBVIOUS
<1>1. /\ mode \in {"sdk", "uhid", "aoa"}
      /\ resize = FALSE /\ controller = "run" /\ tasks = <<>> /\ phase = 0
  BY ControlAssumption DEF Init, Loop
<1>2. PICK q, at : aoa = [queue |-> q, at |-> at, event |-> None, open |-> <<>>]
                   /\ at \in {"run", "ended"}
  BY DEF Init
<1>3. aoa = [queue |-> aoa.queue, at |-> aoa.at, event |-> aoa.event, open |-> aoa.open]
      /\ aoa.at # "wait"
  BY <1>2
<1>4. TypeInv
  <2>1. phase \in 0..5
    BY <1>1, SMT
  <2>2. resize \in BOOLEAN
    BY <1>1, Zenon
  <2> QED BY <1>1, <1>3, <2>1, <2>2, Zenon DEF TypeInv
<1>5. ControllerAwake /\ AoaAwake
  BY <1>1, <1>3 DEF ControllerAwake, AoaAwake
<1>6. NoTaskIsLeft
  BY <1>1 DEF NoTaskIsLeft, TasksStopped
<1> QED BY <1>4, <1>5, <1>6 DEF CInv

(* Every step of the four threads, of the user and of the device preserves the
   invariant. *)
LEMMA StepCInv == CInv /\ [Next]_vars => CInv'
<1> SUFFICES ASSUME CInv, [Next]_vars PROVE CInv'
  OBVIOUS
<1> USE DEF CInv, ui, threads, outside, Loop, TasksStopped, AoaStopped, ControllerStopped,
            ServerStopped, Destroyed
<1>1. CASE UserInput
  <2>1. CASE ResizeDisplay
    BY <2>1 DEF ResizeDisplay, Happens, TypeInv, ControllerAwake, AoaAwake,
                NoTaskIsLeft, Wake
  <2>2. CASE ~ResizeDisplay
    BY <1>1, <2>2, UserPushes, PushesKeepAwake
  <2> QED BY <2>1, <2>2
<1>2. CASE RunTask
  BY <1>2 DEF RunTask, TypeInv, ControllerAwake, AoaAwake, NoTaskIsLeft
<1>3. CASE StopTasks
  BY <1>3 DEF StopTasks, TypeInv, ControllerAwake, AoaAwake, NoTaskIsLeft
<1>4. CASE StopAoa
  <2>1. /\ phase = 1 /\ phase' = 2 /\ aoa' = [aoa EXCEPT !.at = Wake(aoa.at)]
        /\ UNCHANGED <<mode, queue, resize, controller, tasks>>
    BY <1>4 DEF StopAoa
  <2>2. /\ aoa'.at = Wake(aoa.at)
        /\ aoa' = [queue |-> aoa'.queue, at |-> aoa'.at, event |-> aoa'.event,
                   open |-> aoa'.open]
    BY <2>1 DEF TypeInv
  <2> QED BY <2>1, <2>2 DEF TypeInv, ControllerAwake, AoaAwake, NoTaskIsLeft, Wake
<1>5. CASE StopController
  BY <1>5 DEF StopController, TypeInv, ControllerAwake, AoaAwake, NoTaskIsLeft, Wake
<1>6. CASE StopServer \/ Join
  BY <1>6 DEF StopServer, Join, TypeInv, ControllerAwake, AoaAwake, NoTaskIsLeft
<1>7. CASE Unplug
  BY <1>7 DEF Unplug, TypeInv, ControllerAwake, AoaAwake, NoTaskIsLeft
<1>8. CASE ControllerThread
  <2>1. UNCHANGED <<mode, aoa, tasks, phase>>
    BY <1>8 DEF ControllerThread, ControllerWaits, ControllerResizes, ControllerSends,
                ControllerEnds
  <2>2. resize' \in BOOLEAN /\ ControllerAwake'
    <3>1. CASE ControllerWaits
      BY <3>1 DEF ControllerWaits, TypeInv, ControllerAwake
    <3>2. CASE ControllerResizes
      BY <3>2 DEF ControllerResizes, TypeInv, ControllerAwake
    <3>3. CASE ControllerSends
      BY <3>3 DEF ControllerSends, TypeInv, ControllerAwake
    <3>4. CASE ControllerEnds
      BY <3>4 DEF ControllerEnds, TypeInv, ControllerAwake
    <3> QED BY <1>8, <3>1, <3>2, <3>3, <3>4 DEF ControllerThread
  <2> QED BY <2>1, <2>2 DEF TypeInv, AoaAwake, NoTaskIsLeft
<1>9. CASE ReceiverThread
  BY <1>9 DEF ReceiverThread, ReceiverTakes, ReceiverEnds, RunOnMain, TypeInv,
              ControllerAwake, AoaAwake, NoTaskIsLeft
<1>10. CASE AoaThread
  <2>1. UNCHANGED <<mode, queue, resize, controller, tasks, phase>>
    BY <1>10 DEF AoaThread, AoaWaits, AoaSends, AoaAwaits, AoaAcked, AoaTimesOut, AoaEnds
  <2>2. /\ aoa'.at = "wait" => aoa'.queue = <<>> /\ phase < AoaStopped
        /\ aoa' = [queue |-> aoa'.queue, at |-> aoa'.at, event |-> aoa'.event,
                   open |-> aoa'.open]
    <3>1. CASE AoaWaits
      BY <3>1 DEF AoaWaits, TypeInv
    <3>2. ASSUME NEW event, AoaProcesses(event)
          PROVE  /\ aoa'.at = "run"
                 /\ aoa' = [queue |-> aoa'.queue, at |-> aoa'.at, event |-> aoa'.event,
                            open |-> aoa'.open]
      BY <3>2 DEF AoaProcesses, TypeInv
    <3>3. CASE AoaSends \/ AoaAcked
      BY <3>2, <3>3 DEF AoaSends, AoaAcked
    <3>4. CASE AoaAwaits
      BY <3>4 DEF AoaAwaits, TypeInv
    <3>5. CASE AoaTimesOut \/ AoaEnds
      BY <3>5 DEF AoaTimesOut, AoaEnds, TypeInv
    <3> QED BY <1>10, <3>1, <3>3, <3>4, <3>5 DEF AoaThread
  <2> QED BY <2>1, <2>2 DEF TypeInv, ControllerAwake, AoaAwake, NoTaskIsLeft
<1>11. CASE UNCHANGED vars
  BY <1>11 DEF vars, TypeInv, ControllerAwake, AoaAwake, NoTaskIsLeft
<1> QED BY <1>1, <1>2, <1>3, <1>4, <1>5, <1>6, <1>7, <1>8, <1>9, <1>10, <1>11
        DEF Next, Stops

-----------------------------------------------------------------------------
(* The lemmas about the operators of the library.                          *)

(* A set of numbers that is not empty has a least element. *)
LEMMA LeastExists ==
  ASSUME NEW S \in SUBSET Nat, S # {}
  PROVE  \E x \in S : \A y \in S : x <= y
<1>1. PICK x \in S : \A y \in S : ~(<<y, x>> \in OpToRel(<, Nat))
  BY NatLessThanWellFounded, WFMin
<1>2. ASSUME NEW y \in S PROVE x <= y
  <2>1. ~(y < x)
    BY <1>1 DEF OpToRel
  <2> QED BY <2>1
<1> QED BY <1>2

(* The largest of a set of numbers is the one that no other exceeds. *)
LEMMA MaxIs ==
  ASSUME NEW S \in SUBSET Nat, NEW m \in S, \A y \in S : m >= y
  PROVE  Max(S) = m
<1>1. Max(S) \in S /\ \A y \in S : Max(S) >= y
  BY DEF Max
<1>2. Max(S) \in Nat /\ m \in Nat /\ Max(S) >= m /\ m >= Max(S)
  BY <1>1
<1> HIDE DEF Max
<1> QED BY <1>2

(* OfferAll offers one message after the other: one, two and three of them, as
   many as a handler has. *)
LEMMA OfferOne == ASSUME NEW q, NEW a PROVE OfferAll(q, <<a>>) = Offer(q, a)
<1> DEFINE body(iter) ==
             [s \in SUBSET {1} |->
                IF s = {} THEN q ELSE Offer(iter[s \ {Max(s)}], <<a>>[Max(s)])]
           w == [s \in SUBSET {1} |-> IF s = {} THEN q ELSE Offer(q, a)]
           it == CHOOSE iter : iter = body(iter)
<1>1. DOMAIN <<a>> = {1} /\ SUBSET {1} = {{}, {1}} /\ {1} \ {1} = {} /\ {1} # {}
  OBVIOUS
<1>2. Max({1}) = 1
  BY DEF Max
<1>3. w = body(w)
  <2>1. ASSUME NEW s \in SUBSET {1} PROVE w[s] = body(w)[s]
    <3>1. CASE s = {}
      BY <3>1
    <3>2. CASE s = {1}
      BY <3>2, <1>1, <1>2
    <3> QED BY <3>1, <3>2, <1>1
  <2> QED BY <2>1
<1>4. it = body(it)
  BY <1>3
<1>5. it[{1}] = Offer(it[{}], <<a>>[1]) /\ it[{}] = q
  <2>1. {} \in SUBSET {1} /\ {1} \in SUBSET {1}
    OBVIOUS
  <2> HIDE DEF it
  <2> QED BY <1>1, <1>2, <1>4, <2>1
<1>6. OfferAll(q, <<a>>) = it[{1}]
  BY <1>1 DEF OfferAll, FoldLeft, MapThenFoldSet
<1> QED BY <1>5, <1>6

LEMMA OfferTwo ==
  ASSUME NEW q, NEW a, NEW b
  PROVE  OfferAll(q, <<a, b>>) = Offer(Offer(q, a), b)
<1> DEFINE msgs == <<a, b>>
           body(iter) ==
             [s \in SUBSET (1..2) |->
                IF s = {} THEN q ELSE Offer(iter[s \ {Max(s)}], msgs[Max(s)])]
           first(s) == IF 1 \in s THEN Offer(q, a) ELSE q
           w == [s \in SUBSET (1..2) |-> IF 2 \in s THEN Offer(first(s), b) ELSE first(s)]
           it == CHOOSE iter : iter = body(iter)
<1>1. DOMAIN msgs = 1..2 /\ msgs[1] = a /\ msgs[2] = b
  OBVIOUS
<1>2. ASSUME NEW s \in SUBSET (1..2), s # {}
      PROVE  Max(s) = (IF 2 \in s THEN 2 ELSE 1) /\ Max(s) \in s
  <2>1. \A x \in s : x = 1 \/ x = 2
    OBVIOUS
  <2>2. CASE 2 \in s
    BY <2>1, <2>2, MaxIs
  <2>3. CASE 2 \notin s
    <3>1. PICK x \in s : TRUE
      BY <1>2
    <3>2. 1 \in s /\ \A y \in s : 1 >= y
      BY <2>1, <2>3, <3>1
    <3> QED BY <2>3, <3>2, MaxIs
  <2> QED BY <2>2, <2>3
<1>3. w = body(w)
  <2>1. ASSUME NEW s \in SUBSET (1..2) PROVE w[s] = body(w)[s]
    <3>1. CASE s = {}
      BY <3>1
    <3>2. CASE 2 \in s
      <4>1. s \ {2} \in SUBSET (1..2) /\ 2 \notin s \ {2} /\ (1 \in s <=> 1 \in s \ {2})
        OBVIOUS
      <4> QED BY <1>1, <1>2, <3>2, <4>1
    <3>3. CASE s # {} /\ 2 \notin s
      <4>1. \A x \in s : x = 1
        BY <3>3
      <4>2. s \ {1} = {} /\ 1 \in s
        BY <3>3, <4>1
      <4> QED BY <1>1, <1>2, <3>3, <4>2
    <3> QED BY <3>1, <3>2, <3>3
  <2> QED BY <2>1
<1>4. it = body(it)
  BY <1>3
<1>5. OfferAll(q, msgs) = it[1..2]
  BY <1>1 DEF OfferAll, FoldLeft, MapThenFoldSet
<1> HIDE DEF it
<1>6. it[1..2] = Offer(it[1..1], b) /\ it[1..1] = Offer(it[{}], a) /\ it[{}] = q
  <2>1. /\ {} \in SUBSET (1..2) /\ 1..1 \in SUBSET (1..2) /\ 1..2 \in SUBSET (1..2)
        /\ 2 \in 1..2 /\ 1 \in 1..1 /\ 2 \notin 1..1
        /\ (1..2) \ {2} = 1..1 /\ (1..1) \ {1} = {}
    OBVIOUS
  <2>2. \A s \in SUBSET (1..2) :
          it[s] = IF s = {} THEN q ELSE Offer(it[s \ {Max(s)}], msgs[Max(s)])
    BY <1>4
  <2> QED BY <1>1, <1>2, <2>1, <2>2
<1> QED BY <1>5, <1>6

LEMMA OfferThree ==
  ASSUME NEW q, NEW a, NEW b, NEW c
  PROVE  OfferAll(q, <<a, b, c>>) = Offer(Offer(Offer(q, a), b), c)
<1> DEFINE msgs == <<a, b, c>>
           body(iter) ==
             [s \in SUBSET (1..3) |->
                IF s = {} THEN q ELSE Offer(iter[s \ {Max(s)}], msgs[Max(s)])]
           one(s) == IF 1 \in s THEN Offer(q, a) ELSE q
           two(s) == IF 2 \in s THEN Offer(one(s), b) ELSE one(s)
           w == [s \in SUBSET (1..3) |-> IF 3 \in s THEN Offer(two(s), c) ELSE two(s)]
           it == CHOOSE iter : iter = body(iter)
<1>1. DOMAIN msgs = 1..3 /\ msgs[1] = a /\ msgs[2] = b /\ msgs[3] = c
  OBVIOUS
<1>2. ASSUME NEW s \in SUBSET (1..3), s # {}
      PROVE  Max(s) = (IF 3 \in s THEN 3 ELSE IF 2 \in s THEN 2 ELSE 1) /\ Max(s) \in s
  <2>1. \A x \in s : x = 1 \/ x = 2 \/ x = 3
    OBVIOUS
  <2>2. CASE 3 \in s
    BY <2>1, <2>2, MaxIs
  <2>3. CASE 3 \notin s /\ 2 \in s
    <3>1. \A y \in s : 2 >= y
      BY <2>1, <2>3
    <3> QED BY <2>3, <3>1, MaxIs
  <2>4. CASE 3 \notin s /\ 2 \notin s
    <3>1. PICK x \in s : TRUE
      BY <1>2
    <3>2. 1 \in s /\ \A y \in s : 1 >= y
      BY <2>1, <2>4, <3>1
    <3> QED BY <2>4, <3>2, MaxIs
  <2> QED BY <2>2, <2>3, <2>4
<1>3. w = body(w)
  <2>1. ASSUME NEW s \in SUBSET (1..3) PROVE w[s] = body(w)[s]
    <3>1. CASE s = {}
      BY <3>1
    <3>2. CASE 3 \in s
      <4>1. /\ s \ {3} \in SUBSET (1..3) /\ 3 \notin s \ {3}
            /\ (1 \in s <=> 1 \in s \ {3}) /\ (2 \in s <=> 2 \in s \ {3})
        OBVIOUS
      <4> QED BY <1>1, <1>2, <3>2, <4>1
    <3>3. CASE 3 \notin s /\ 2 \in s
      <4>1. /\ s \ {2} \in SUBSET (1..3) /\ 2 \notin s \ {2} /\ 3 \notin s \ {2}
            /\ (1 \in s <=> 1 \in s \ {2})
        BY <3>3
      <4> QED BY <1>1, <1>2, <3>3, <4>1
    <3>4. CASE s # {} /\ 3 \notin s /\ 2 \notin s
      <4>1. \A x \in s : x = 1
        BY <3>4
      <4>2. s \ {1} = {} /\ 1 \in s
        BY <3>4, <4>1
      <4> QED BY <1>1, <1>2, <3>4, <4>2
    <3> QED BY <3>1, <3>2, <3>3, <3>4
  <2> QED BY <2>1
<1>4. it = body(it)
  BY <1>3
<1>5. OfferAll(q, msgs) = it[1..3]
  BY <1>1 DEF OfferAll, FoldLeft, MapThenFoldSet
<1> HIDE DEF it
<1>6. /\ it[1..3] = Offer(it[1..2], c) /\ it[1..2] = Offer(it[1..1], b)
      /\ it[1..1] = Offer(it[{}], a) /\ it[{}] = q
  <2>1. /\ {} \in SUBSET (1..3) /\ 1..1 \in SUBSET (1..3) /\ 1..2 \in SUBSET (1..3)
        /\ 1..3 \in SUBSET (1..3) /\ 3 \in 1..3 /\ 2 \in 1..2 /\ 1 \in 1..1
        /\ 3 \notin 1..2 /\ 3 \notin 1..1 /\ 2 \notin 1..1
        /\ (1..3) \ {3} = 1..2 /\ (1..2) \ {2} = 1..1 /\ (1..1) \ {1} = {}
    OBVIOUS
  <2>2. \A s \in SUBSET (1..3) :
          it[s] = IF s = {} THEN q ELSE Offer(it[s \ {Max(s)}], msgs[Max(s)])
    BY <1>4
  <2>3. it[{}] = q /\ it[1..1] = Offer(it[{}], a)
    <3>1. 1..1 # {} /\ Max(1..1) = 1
      BY <1>2, <2>1
    <3> QED BY <1>1, <2>1, <2>2, <3>1
  <2>4. it[1..2] = Offer(it[1..1], b)
    <3>1. 1..2 # {} /\ Max(1..2) = 2
      BY <1>2, <2>1
    <3> QED BY <1>1, <2>1, <2>2, <3>1
  <2>5. it[1..3] = Offer(it[1..2], c)
    <3>1. 1..3 # {} /\ Max(1..3) = 3
      BY <1>2, <2>1
    <3> QED BY <1>1, <2>1, <2>2, <3>1
  <2> QED BY <2>3, <2>4, <2>5
<1> QED BY <1>5, <1>6

-----------------------------------------------------------------------------
(* What is sent, and what whoever sends it takes the device to have.       *)

Reports == [keys : (SUBSET {"caps", "v"}) \cup {None}, n : Nat]

HidMessages ==
  [type : {"create", "destroy"}, id : Nat, pad : Pads \cup {None}]
    \cup [type : {"input"}, id : Nat, pad : Pads \cup {None},
          report : Reports \cup {None}, ack : Nat]

PlainMessages ==
  [type : {"clipboard"}, sequence : Nat, n : Nat] \cup [type : {"key"}, n : Nat]
    \cup [type : {"finger"}, action : {"down", "move", "up"}] \cup Requests

Messages == HidMessages \cup PlainMessages

(* The HID devices the device was told to create, whether the virtual finger is
   down, and the last clipboard that was set. *)
Views == [hid : SUBSET (Nat \X (Pads \cup {None})), finger : BOOLEAN, set : Nat]

(* The device after a message; over USB, the clipboard whose acknowledgement a
   report has waited for is set. *)
After(s, msg) ==
  [hid |-> IF msg.type = "create" THEN s.hid \cup {<<msg.id, msg.pad>>}
           ELSE IF msg.type = "destroy" THEN s.hid \ {<<msg.id, msg.pad>>}
           ELSE s.hid,
   finger |-> IF msg.type = "finger" THEN msg.action # "up" ELSE s.finger,
   set |-> IF msg.type = "clipboard" THEN msg.n
           ELSE IF msg.type = "input" /\ msg.ack # 0 THEN msg.ack
           ELSE s.set]

(* The device can follow a message; that Ctrl+v comes after its clipboard is
   not promised when late. *)
Legal(s, msg, late) ==
  /\ msg.type = "create" =>
       \A pad \in Pads \cup {None} : <<msg.id, pad>> \notin s.hid
  /\ msg.type \in {"destroy", "input"} => <<msg.id, msg.pad>> \in s.hid
  /\ msg.type = "input" =>
       late \/ msg.report = None \/ msg.report.n <= After(s, msg).set
  /\ msg.type = "key" => msg.n <= s.set
  /\ msg.type = "finger" => s.finger = (msg.action # "down")
  /\ msg.type = "clipboard" => s.set <= msg.n /\ msg.sequence \in {0, msg.n}

(* From s, the messages of q take the device to e, and it can follow each. *)
Leads(s, q, e, late) ==
  \E t \in [0..Len(q) -> Views] :
    /\ t[0] = s /\ t[Len(q)] = e
    /\ \A i \in 1..Len(q) :
         Legal(t[i - 1], q[i], late) /\ t[i] = After(t[i - 1], q[i])

(* A message the device can follow and that changes nothing it has. *)
Neutral(s, msg, late) == Legal(s, msg, late) /\ After(s, msg) = s

(* The fields a message has. *)
LEMMA MessageFields ==
  ASSUME NEW msg \in Messages
  PROVE  /\ msg.type \in {"create", "destroy", "input", "clipboard", "key", "finger",
                          "inject", "get clipboard"}
         /\ msg.type \in {"create", "destroy", "input"} =>
              msg.id \in Nat /\ msg.pad \in Pads \cup {None}
         /\ msg.type = "input" => msg.report \in Reports \cup {None} /\ msg.ack \in Nat
         /\ msg.type = "clipboard" => msg.sequence \in Nat /\ msg.n \in Nat
         /\ msg.type = "key" => msg.n \in Nat
         /\ msg.type = "finger" => msg.action \in {"down", "move", "up"}
         /\ msg.type \in {"create", "destroy", "input"} <=> msg \in HidMessages
<1>1. CASE msg \in [type : {"create", "destroy"}, id : Nat, pad : Pads \cup {None}]
  BY <1>1 DEF HidMessages
<1>2. CASE msg \in [type : {"input"}, id : Nat, pad : Pads \cup {None},
                   report : Reports \cup {None}, ack : Nat]
  BY <1>2 DEF HidMessages
<1> DEFINE plain == /\ msg.type \in {"clipboard", "key", "finger", "inject", "get clipboard"}
                    /\ msg.type = "clipboard" => msg.sequence \in Nat /\ msg.n \in Nat
                    /\ msg.type = "key" => msg.n \in Nat
                    /\ msg.type = "finger" => msg.action \in {"down", "move", "up"}
<1>3. CASE msg \in PlainMessages
  <2>1. plain
    <3>1. CASE msg \in [type : {"clipboard"}, sequence : Nat, n : Nat]
      BY <3>1
    <3>2. CASE msg \in [type : {"key"}, n : Nat]
      BY <3>2
    <3>3. CASE msg \in [type : {"finger"}, action : {"down", "move", "up"}]
      BY <3>3
    <3>4. CASE msg \in Requests
      <4>1. msg = [type |-> "inject"] \/ msg = [type |-> "get clipboard"]
        BY <3>4 DEF Requests, Inject, GetClipboard
      <4>0. [type |-> "inject"].type = "inject"
            /\ [type |-> "get clipboard"].type = "get clipboard"
        OBVIOUS
      <4>2. msg.type = "inject" \/ msg.type = "get clipboard"
        BY <4>0, <4>1, Zenon
      <4>3. msg.type # "clipboard" /\ msg.type # "key" /\ msg.type # "finger"
        BY <4>2
      <4> QED BY <4>2, <4>3
    <3> QED BY <1>3, <3>1, <3>2, <3>3, <3>4 DEF PlainMessages
  <2>2. msg \notin HidMessages
    BY <2>1 DEF HidMessages
  <2> QED BY <2>1, <2>2
<1> QED BY <1>1, <1>2, <1>3 DEF Messages, HidMessages

(* The device after a message is one it can be. *)
LEMMA AfterType ==
  ASSUME NEW s \in Views, NEW msg \in Messages
  PROVE  After(s, msg) \in Views
<1>1. After(s, msg).hid \in SUBSET (Nat \X (Pads \cup {None}))
  <2>1. s.hid \in SUBSET (Nat \X (Pads \cup {None}))
    BY DEF Views
  <2>2. CASE msg.type \in {"create", "destroy"}
    <3>1. <<msg.id, msg.pad>> \in Nat \X (Pads \cup {None})
      BY <2>2, MessageFields
    <3>2. /\ s.hid \cup {<<msg.id, msg.pad>>} \in SUBSET (Nat \X (Pads \cup {None}))
          /\ s.hid \ {<<msg.id, msg.pad>>} \in SUBSET (Nat \X (Pads \cup {None}))
      BY <2>1, <3>1
    <3>3. \/ After(s, msg).hid = s.hid \cup {<<msg.id, msg.pad>>}
          \/ After(s, msg).hid = s.hid \ {<<msg.id, msg.pad>>}
      BY <2>2 DEF After
    <3> HIDE DEF After
    <3> QED BY <3>2, <3>3
  <2>3. CASE msg.type \notin {"create", "destroy"}
    BY <2>1, <2>3 DEF After
  <2> QED BY <2>2, <2>3
<1>2. After(s, msg).finger \in BOOLEAN /\ After(s, msg).set \in Nat
  BY MessageFields DEF After, Views
<1> QED BY <1>1, <1>2 DEF After, Views

(* Nothing is sent. *)
LEMMA LeadsNil ==
  ASSUME NEW s \in Views, NEW late
  PROVE  Leads(s, <<>>, s, late)
<1> DEFINE t == [i \in 0..0 |-> s]
<1>1. t \in [0..0 -> Views] /\ t[0] = s /\ Len(<<>>) = 0 /\ 1..0 = {}
  OBVIOUS
<1> HIDE DEF t
<1> QED BY <1>1 DEF Leads

(* Both ends are views of a device. *)
LEMMA LeadsTypes ==
  ASSUME NEW q \in Seq(Messages), NEW s, NEW e, NEW late, Leads(s, q, e, late)
  PROVE  s \in Views /\ e \in Views
<1>1. Len(q) \in Nat /\ 0 \in 0..Len(q) /\ Len(q) \in 0..Len(q)
  OBVIOUS
<1> QED BY <1>1 DEF Leads

(* One more message. *)
LEMMA LeadsAppend ==
  ASSUME NEW q \in Seq(Messages), NEW msg \in Messages, NEW s, NEW e, NEW late,
         Leads(s, q, e, late), Legal(e, msg, late)
  PROVE  Leads(s, Append(q, msg), After(e, msg), late)
<1>1. PICK t \in [0..Len(q) -> Views] :
        /\ t[0] = s /\ t[Len(q)] = e
        /\ \A i \in 1..Len(q) :
             Legal(t[i - 1], q[i], late) /\ t[i] = After(t[i - 1], q[i])
  BY DEF Leads
<1> DEFINE r == Append(q, msg)
           u == [i \in 0..Len(r) |-> IF i <= Len(q) THEN t[i] ELSE After(e, msg)]
<1>2. /\ Len(q) \in Nat /\ Len(r) = Len(q) + 1 /\ r[Len(r)] = msg
      /\ \A i \in 1..Len(q) : r[i] = q[i]
  OBVIOUS
<1>3. After(e, msg) \in Views
  BY AfterType, LeadsTypes
<1>4. u \in [0..Len(r) -> Views] /\ u[0] = s /\ u[Len(r)] = After(e, msg)
  BY <1>1, <1>2, <1>3
<1>5. ASSUME NEW i \in 1..Len(r)
      PROVE  Legal(u[i - 1], r[i], late) /\ u[i] = After(u[i - 1], r[i])
  <2>1. CASE i \in 1..Len(q)
    <3>1. u[i - 1] = t[i - 1] /\ u[i] = t[i] /\ r[i] = q[i]
      BY <1>2, <2>1
    <3> QED BY <1>1, <2>1, <3>1
  <2>2. CASE i = Len(r)
    <3>1. u[i - 1] = e /\ u[i] = After(e, msg) /\ r[i] = msg
      BY <1>1, <1>2, <2>2
    <3> QED BY <3>1
  <2> QED BY <1>2, <2>1, <2>2
<1> HIDE DEF u, r
<1>6. Leads(s, r, After(e, msg), late)
  BY <1>4, <1>5 DEF Leads
<1> QED BY <1>6 DEF r

(* The first message is received. *)
LEMMA LeadsPop ==
  ASSUME NEW q \in Seq(Messages), q # <<>>, NEW s, NEW e, NEW late, Leads(s, q, e, late)
  PROVE  /\ Legal(s, Head(q), late) /\ After(s, Head(q)) \in Views
         /\ Leads(After(s, Head(q)), Tail(q), e, late)
<1>1. PICK t \in [0..Len(q) -> Views] :
        /\ t[0] = s /\ t[Len(q)] = e
        /\ \A i \in 1..Len(q) :
             Legal(t[i - 1], q[i], late) /\ t[i] = After(t[i - 1], q[i])
  BY DEF Leads
<1> DEFINE r == Tail(q)
           u == [i \in 0..Len(r) |-> t[i + 1]]
<1>2. /\ Len(q) \in Nat \ {0} /\ Len(r) = Len(q) - 1 /\ Head(q) = q[1]
      /\ \A i \in 1..Len(r) : r[i] = q[i + 1]
  OBVIOUS
<1>3. Legal(s, Head(q), late) /\ After(s, Head(q)) = t[1] /\ t[1] \in Views
  <2>1. 1 \in 1..Len(q) /\ 1 - 1 = 0 /\ 1 \in 0..Len(q)
    BY <1>2
  <2> QED BY <1>1, <1>2, <2>1
<1>4. u \in [0..Len(r) -> Views] /\ u[0] = After(s, Head(q)) /\ u[Len(r)] = e
  BY <1>1, <1>2, <1>3
<1>5. ASSUME NEW i \in 1..Len(r)
      PROVE  Legal(u[i - 1], r[i], late) /\ u[i] = After(u[i - 1], r[i])
  <2>1. i + 1 \in 1..Len(q) /\ u[i - 1] = t[i] /\ u[i] = t[i + 1] /\ (i + 1) - 1 = i
    BY <1>2
  <2>2. Legal(t[i], q[i + 1], late) /\ t[i + 1] = After(t[i], q[i + 1])
    BY <1>1, <2>1
  <2> QED BY <1>2, <2>1, <2>2
<1> HIDE DEF u, r
<1>6. Leads(After(s, Head(q)), r, e, late)
  BY <1>4, <1>5 DEF Leads
<1> QED BY <1>3, <1>6 DEF r

(* What can be followed can be when less is promised. *)
LEMMA LeadsLate ==
  ASSUME NEW q, NEW s, NEW e, Leads(s, q, e, FALSE)
  PROVE  Leads(s, q, e, TRUE)
<1>1. ASSUME NEW a, NEW msg, Legal(a, msg, FALSE)
      PROVE  Legal(a, msg, TRUE)
  BY <1>1 DEF Legal
<1> QED BY <1>1 DEF Leads

-----------------------------------------------------------------------------
(* Offering messages that change nothing.                                  *)

(* A queue that is offered a message holds what it held and that message. *)
LEMMA OfferType ==
  ASSUME NEW S, NEW q \in Seq(S), NEW msg \in S
  PROVE  Offer(q, msg) \in Seq(S)
BY DEF Offer

(* A message that changes nothing, pushed or dropped. *)
LEMMA LeadsOffer ==
  ASSUME NEW p \in Seq(Messages), NEW q \in Seq(Messages), NEW msg \in Messages,
         NEW s, NEW e, NEW late, Leads(s, p \o q, e, late), Neutral(e, msg, late)
  PROVE  Leads(s, p \o Offer(q, msg), e, late)
<1>1. CASE Fits(q, msg)
  <2>1. p \o q \in Seq(Messages) /\ p \o Append(q, msg) = Append(p \o q, msg)
    OBVIOUS
  <2>2. Leads(s, Append(p \o q, msg), e, late)
    BY <2>1, LeadsAppend DEF Neutral
  <2> QED BY <1>1, <2>1, <2>2 DEF Offer
<1>2. CASE ~Fits(q, msg)
  BY <1>2 DEF Offer
<1> QED BY <1>1, <1>2

(* What a handler pushes, message by message. *)
LEMMA ShortSequences ==
  ASSUME NEW S, NEW msgs \in Seq(S), Len(msgs) \in 1..3
  PROVE  /\ \A i \in 1..Len(msgs) : msgs[i] \in S
         /\ \/ Len(msgs) = 1 /\ msgs = <<msgs[1]>>
            \/ Len(msgs) = 2 /\ msgs = <<msgs[1], msgs[2]>>
            \/ Len(msgs) = 3 /\ msgs = <<msgs[1], msgs[2], msgs[3]>>
<1>1. Len(msgs) = 1 \/ Len(msgs) = 2 \/ Len(msgs) = 3
  OBVIOUS
<1> QED BY <1>1

(* The same as OfferType, of what a handler pushes. *)
LEMMA OfferAllType ==
  ASSUME NEW S, NEW q \in Seq(S), NEW msgs \in Seq(S), Len(msgs) \in 1..3
  PROVE  OfferAll(q, msgs) \in Seq(S)
<1>1. CASE Len(msgs) = 1 /\ msgs = <<msgs[1]>>
  <2>1. OfferAll(q, <<msgs[1]>>) \in Seq(S)
    BY <1>1, ShortSequences, OfferOne, OfferType
  <2> QED BY <1>1, <2>1
<1>2. CASE Len(msgs) = 2 /\ msgs = <<msgs[1], msgs[2]>>
  <2>1. msgs[1] \in S /\ msgs[2] \in S
    BY <1>2, ShortSequences
  <2>2. Offer(q, msgs[1]) \in Seq(S)
    BY <2>1, OfferType
  <2>3. Offer(Offer(q, msgs[1]), msgs[2]) \in Seq(S)
    BY <2>1, <2>2, OfferType
  <2> QED BY <1>2, <2>3, OfferTwo
<1>3. CASE Len(msgs) = 3 /\ msgs = <<msgs[1], msgs[2], msgs[3]>>
  <2>1. msgs[1] \in S /\ msgs[2] \in S /\ msgs[3] \in S
    BY <1>3, ShortSequences
  <2>2. Offer(q, msgs[1]) \in Seq(S)
    BY <2>1, OfferType
  <2>4. Offer(Offer(q, msgs[1]), msgs[2]) \in Seq(S)
    BY <2>1, <2>2, OfferType
  <2>3. Offer(Offer(Offer(q, msgs[1]), msgs[2]), msgs[3]) \in Seq(S)
    BY <2>1, <2>4, OfferType
  <2> QED BY <1>3, <2>3, OfferThree
<1> QED BY <1>1, <1>2, <1>3, ShortSequences

(* The same as LeadsOffer: any of the messages may be dropped. *)
LEMMA LeadsOfferAll ==
  ASSUME NEW p \in Seq(Messages), NEW q \in Seq(Messages), NEW msgs \in Seq(Messages),
         Len(msgs) \in 1..3, NEW s, NEW e, NEW late, Leads(s, p \o q, e, late),
         \A i \in 1..Len(msgs) : Neutral(e, msgs[i], late)
  PROVE  Leads(s, p \o OfferAll(q, msgs), e, late)
<1>1. msgs[1] \in Messages /\ Neutral(e, msgs[1], late)
  BY ShortSequences
<1>2. /\ Offer(q, msgs[1]) \in Seq(Messages)
      /\ Leads(s, p \o Offer(q, msgs[1]), e, late)
  BY <1>1, LeadsOffer, OfferType
<1>3. CASE Len(msgs) = 1 /\ msgs = <<msgs[1]>>
  BY <1>2, <1>3, OfferOne
<1>4. ASSUME Len(msgs) >= 2
      PROVE  LET r == Offer(Offer(q, msgs[1]), msgs[2])
             IN  r \in Seq(Messages) /\ Leads(s, p \o r, e, late)
  <2>1. msgs[2] \in Messages /\ Neutral(e, msgs[2], late)
    BY <1>4, ShortSequences
  <2> QED BY <1>2, <2>1, LeadsOffer, OfferType
<1>5. CASE Len(msgs) = 2 /\ msgs = <<msgs[1], msgs[2]>>
  BY <1>4, <1>5, OfferTwo
<1>6. CASE Len(msgs) = 3 /\ msgs = <<msgs[1], msgs[2], msgs[3]>>
  <2>1. msgs[3] \in Messages /\ Neutral(e, msgs[3], late)
    BY <1>6, ShortSequences
  <2>2. Leads(s, p \o Offer(Offer(Offer(q, msgs[1]), msgs[2]), msgs[3]), e, late)
    BY <1>4, <1>6, <2>1, LeadsOffer
  <2> QED BY <1>6, <2>2, OfferThree
<1> QED BY <1>3, <1>5, <1>6, ShortSequences

-----------------------------------------------------------------------------
(* What the device makes of a message.                                     *)

Devices ==
  [hid : SUBSET (Nat \X (Pads \cup {None})), keys : SUBSET {"caps", "v"},
   lock : BOOLEAN, set : Nat, finger : BOOLEAN, bad : SUBSET {"hid", "paste", "finger"}]

ViewOf(d) == [hid |-> d.hid, finger |-> d.finger, set |-> d.set]

(* A device that collects what it could not make sense of is one. *)
LEMMA MarkType ==
  ASSUME NEW d \in Devices, NEW what \in {"hid", "paste", "finger"}
  PROVE  LET marked == [d EXCEPT !.bad = @ \cup {what}]
         IN  /\ marked \in Devices /\ ViewOf(marked) = ViewOf(d)
             /\ marked.bad = d.bad \cup {what}
BY DEF Devices, ViewOf

(* A report of keys pastes the old clipboard only when it is of a Ctrl+v whose
   clipboard is not set. *)
LEMMA TakesReportIs ==
  ASSUME NEW d \in Devices, NEW report \in Reports \cup {None}
  PROVE  /\ TakesReport(d, report) \in Devices
         /\ ViewOf(TakesReport(d, report)) = ViewOf(d)
         /\ TakesReport(d, report).bad \in {d.bad, d.bad \cup {"paste"}}
         /\ report = None \/ report.n <= d.set => TakesReport(d, report).bad = d.bad
<1>1. CASE report = None \/ report.keys = None
  BY <1>1 DEF TakesReport
<1>2. CASE ~(report = None \/ report.keys = None)
  <2> DEFINE released == d.keys \ report.keys
             pressed == report.keys \ d.keys
             taken == [d EXCEPT !.keys = report.keys,
                                !.lock = IF "caps" \in released THEN ~@ ELSE @]
             wrong == "v" \in pressed /\ d.set < report.n
  <2>1. report \in Reports /\ report.keys \in SUBSET {"caps", "v"} /\ report.n \in Nat
    BY <1>2 DEF Reports
  <2>2. taken \in Devices /\ ViewOf(taken) = ViewOf(d) /\ taken.bad = d.bad
    BY <2>1 DEF Devices, ViewOf
  <2>3. report.n <= d.set => ~wrong
    BY <2>1 DEF Devices
  <2>4. TakesReport(d, report) =
          IF wrong THEN [taken EXCEPT !.bad = @ \cup {"paste"}] ELSE taken
    BY <1>2 DEF TakesReport, Mark
  <2> HIDE DEF taken, wrong
  <2> QED BY <1>2, <2>2, <2>3, <2>4, MarkType
<1> QED BY <1>1, <1>2

(* A message that is no report of a key, and one that is. *)
LEMMA TakesPlain ==
  ASSUME NEW d \in Devices, NEW msg \in Messages, msg.type # "input"
  PROVE  /\ Takes(d, msg) \in Devices
         /\ ViewOf(Takes(d, msg)) = After(ViewOf(d), msg)
         /\ Takes(d, msg).bad \subseteq d.bad \cup {"hid", "paste", "finger"}
         /\ msg.type \in {"create", "destroy"} =>
              Takes(d, msg).bad \in {d.bad, d.bad \cup {"hid"}}
         /\ Legal(ViewOf(d), msg, FALSE) => Takes(d, msg).bad = d.bad
<1>0. d.hid \in SUBSET (Nat \X (Pads \cup {None})) /\ d.set \in Nat /\ d.finger \in BOOLEAN
  BY DEF Devices
<1>1. CASE msg.type = "create"
  <2> DEFINE taken == [d EXCEPT !.hid = @ \cup {<<msg.id, msg.pad>>}]
             wrong == \E pad \in Pads \cup {None} : <<msg.id, pad>> \in d.hid
  <2>1. <<msg.id, msg.pad>> \in Nat \X (Pads \cup {None})
    BY <1>1, MessageFields
  <2>2. d.hid \cup {<<msg.id, msg.pad>>} \in SUBSET (Nat \X (Pads \cup {None}))
    BY <1>0, <2>1
  <2>3. taken \in Devices /\ taken.bad = d.bad /\ ViewOf(taken) = After(ViewOf(d), msg)
    BY <1>1, <2>2 DEF Devices, ViewOf, After
  <2>4. Takes(d, msg) =
          IF wrong THEN [taken EXCEPT !.bad = @ \cup {"hid"}] ELSE taken
    BY <1>1 DEF Takes, Mark
  <2>5. Legal(ViewOf(d), msg, FALSE) => ~wrong
    BY <1>1 DEF Legal, ViewOf
  <2> HIDE DEF taken, wrong
  <2> QED BY <2>3, <2>4, <2>5, MarkType
<1>2. CASE msg.type = "destroy"
  <2> DEFINE taken == [d EXCEPT !.hid = @ \ {<<msg.id, msg.pad>>}]
             wrong == <<msg.id, msg.pad>> \notin d.hid
  <2>2. d.hid \ {<<msg.id, msg.pad>>} \in SUBSET (Nat \X (Pads \cup {None}))
    BY <1>0
  <2>3. taken \in Devices /\ taken.bad = d.bad /\ ViewOf(taken) = After(ViewOf(d), msg)
    BY <1>2, <2>2 DEF Devices, ViewOf, After
  <2>4. Takes(d, msg) =
          IF wrong THEN [taken EXCEPT !.bad = @ \cup {"hid"}] ELSE taken
    BY <1>2 DEF Takes, Mark
  <2>5. Legal(ViewOf(d), msg, FALSE) => ~wrong
    BY <1>2 DEF Legal, ViewOf
  <2> HIDE DEF taken, wrong
  <2> QED BY <2>3, <2>4, <2>5, MarkType
<1>3. CASE msg.type = "clipboard"
  <2>1. Takes(d, msg) = [d EXCEPT !.set = msg.n] /\ msg.n \in Nat
    BY <1>3, MessageFields DEF Takes
  <2> QED BY <1>3, <2>1 DEF Devices, ViewOf, After
<1>4. CASE msg.type = "key"
  <2>1. /\ msg.n \in Nat
        /\ Takes(d, msg) =
             IF d.set < msg.n THEN [d EXCEPT !.bad = @ \cup {"paste"}] ELSE d
    BY <1>4, MessageFields DEF Takes, Mark
  <2>2. Legal(ViewOf(d), msg, FALSE) => ~(d.set < msg.n)
    BY <1>0, <1>4, <2>1 DEF Legal, ViewOf
  <2>3. After(ViewOf(d), msg) = ViewOf(d)
    BY <1>4 DEF After, ViewOf
  <2> QED BY <1>4, <2>1, <2>2, <2>3, MarkType
<1>5. CASE msg.type = "finger"
  <2> DEFINE taken == [d EXCEPT !.finger = msg.action # "up"]
             wrong == d.finger = (msg.action = "down")
  <2>1. taken \in Devices /\ taken.bad = d.bad /\ ViewOf(taken) = After(ViewOf(d), msg)
    BY <1>5 DEF Devices, ViewOf, After
  <2>2. Takes(d, msg) =
          IF wrong THEN [taken EXCEPT !.bad = @ \cup {"finger"}] ELSE taken
    BY <1>5 DEF Takes, Mark
  <2>3. Legal(ViewOf(d), msg, FALSE) => ~wrong
    BY <1>0, <1>5 DEF Legal, ViewOf
  <2> HIDE DEF taken, wrong
  <2> QED BY <1>5, <2>1, <2>2, <2>3, MarkType
<1>6. CASE msg.type \in {"inject", "get clipboard"}
  <2>1. Takes(d, msg) = d
    BY <1>6 DEF Takes
  <2>2. After(ViewOf(d), msg) = ViewOf(d)
    BY <1>6 DEF After, ViewOf
  <2> QED BY <1>6, <2>1, <2>2
<1> QED BY <1>1, <1>2, <1>3, <1>4, <1>5, <1>6, MessageFields

(* A report of a HID device that is registered is made sense of. *)
LEMMA TakesInput ==
  ASSUME NEW d \in Devices, NEW msg \in Messages, msg.type = "input"
  PROVE  /\ Takes(d, msg) \in Devices /\ ViewOf(Takes(d, msg)) = ViewOf(d)
         /\ "finger" \in Takes(d, msg).bad => "finger" \in d.bad
         /\ <<msg.id, msg.pad>> \in d.hid =>
              ("hid" \in Takes(d, msg).bad => "hid" \in d.bad)
         /\ msg.report = None \/ msg.report.n <= d.set =>
              ("paste" \in Takes(d, msg).bad => "paste" \in d.bad)
<1> DEFINE taken == TakesReport(d, msg.report)
           wrong == <<msg.id, msg.pad>> \notin d.hid
<1>1. msg.report \in Reports \cup {None}
  BY MessageFields
<1>2. Takes(d, msg) =
          IF wrong THEN [taken EXCEPT !.bad = @ \cup {"hid"}] ELSE taken
  BY DEF Takes, Mark
<1>3. /\ taken \in Devices /\ ViewOf(taken) = ViewOf(d)
      /\ taken.bad \in {d.bad, d.bad \cup {"paste"}}
      /\ msg.report = None \/ msg.report.n <= d.set => taken.bad = d.bad
  BY <1>1, TakesReportIs
<1> HIDE DEF taken
<1>4. /\ Takes(d, msg) \in Devices /\ ViewOf(Takes(d, msg)) = ViewOf(d)
      /\ Takes(d, msg).bad = IF wrong THEN taken.bad \cup {"hid"} ELSE taken.bad
  BY <1>2, <1>3, MarkType
<1> QED BY <1>3, <1>4

-----------------------------------------------------------------------------
(* The invariant.                                                          *)

(* What is sent over the socket: with an AOA keyboard, no HID message. *)
SocketMessages ==
  {msg \in Messages :
     IF mode = "aoa" THEN msg.type \in {"clipboard", "inject", "get clipboard"}
     ELSE msg.type = "input" => msg.ack = 0}

Answers == [type : {"led"}, lock : BOOLEAN] \cup [type : {"ack"}, sequence : Nat]
             \cup [type : {"clipboard"}]

DataOK ==
  /\ slots \in [Slots -> Pads \cup {None}]
  /\ im \in [paused : BOOLEAN, vfinger : BOOLEAN, sequence : Nat, pastes : Nat]
  /\ kb = [keys |-> kb.keys, lock |-> kb.lock, synchronized |-> kb.synchronized]
  /\ kb.keys \in SUBSET {"caps", "v"}
  /\ queue \in Seq(SocketMessages)
  /\ aoa.queue \in Seq(HidMessages) /\ aoa.open \in Seq(Nat)
  /\ aoa.at = "ack" => aoa.event \in HidMessages /\ AwaitsAck(aoa.event)
  /\ device \in Devices
  /\ acksync \in Nat /\ answers \in Seq(Answers)
  /\ lossy \in [report : BOOLEAN, lock : BOOLEAN, usb : BOOLEAN]
  /\ mode # "aoa" => aoa.at = "ended" /\ ~lossy.usb
  /\ mode = "sdk" => \A s \in Slots : slots[s] = None

(* The HID devices, once all that was pushed is received. *)
Registered ==
  IF mode = "sdk" THEN {}
  ELSE {<<Keyboard, None>>, <<Mouse, None>>}
         \cup {<<Gamepad(s), slots[s]>> : s \in {t \in Slots : slots[t] # None}}

(* The socket: what is queued takes the device to what the input manager takes
   it to have.  With an AOA keyboard it carries the clipboard alone. *)
NoHid(n) == [hid |-> {}, finger |-> FALSE, set |-> n]
SocketView == IF mode = "aoa" THEN NoHid(device.set) ELSE ViewOf(device)
SocketGoal ==
  IF mode = "aoa" THEN NoHid(im.pastes)
  ELSE [hid |-> Registered, finger |-> im.vfinger, set |-> im.pastes]

SocketFollows == controller # "ended" => Leads(SocketView, queue, SocketGoal, FALSE)

(* Over USB the same, from a view s of the device that differs from what it has
   after a transfer has failed.  Then vec_open has each device's identifier, and
   twice when two gamepads of one slot may be registered. *)
Has(open, id) == \E i \in 1..Len(open) : open[i] = id
HasTwice(open, id) ==
  \E i, j \in 1..Len(open) : i # j /\ open[i] = id /\ open[j] = id

OneEach(hid) == \A x, y \in hid : x[1] = y[1] => x = y

UsbView(s) ==
  /\ s.finger = FALSE /\ OneEach(s.hid)
  /\ ~lossy.usb => s.hid = device.hid
  /\ lossy.report \/ s.set <= device.set

OpenCovers(hid, open, known) ==
  /\ \A x \in hid : Has(open, x[1])
  /\ \A x \in known, y \in hid : x[1] = y[1] /\ x # y => HasTwice(open, x[1])

UsbGoal(e) ==
  /\ e.hid = Registered /\ e.finger = FALSE
  /\ lossy.report \/ e.set = im.pastes

Taken == IF aoa.at = "ack" THEN <<aoa.event>> ELSE <<>>

UsbFollows ==
  mode = "aoa" =>
    IF aoa.at = "ended" THEN device.hid = {}
    ELSE \E s, e \in Views :
           /\ UsbView(s) /\ OpenCovers(device.hid, aoa.open, s.hid)
           /\ Leads(s, Taken \o aoa.queue, e, lossy.report) /\ UsbGoal(e)

(* A clipboard is acknowledged when it is set; over USB its sequence counts the
   clipboards requested. *)
Acked ==
  /\ acksync <= device.set
  /\ \A i \in 1..Len(answers) :
       answers[i].type = "ack" => answers[i].sequence <= device.set
  /\ mode = "aoa" => im.sequence = im.pastes + 1

FInv == CInv /\ DataOK /\ SocketFollows /\ UsbFollows /\ Acked /\ DeviceCanFollow

-----------------------------------------------------------------------------
(* The slots and what is registered.                                       *)

(* sc_hid_gamepad_slot_find finds a slot of that gamepad. *)
LEMMA SlotOfIs ==
  ASSUME NEW pad, SlotsOf(pad) # {}
  PROVE  SlotOf(pad) \in Slots /\ slots[SlotOf(pad)] = pad
<1>1. SlotsOf(pad) \in SUBSET Nat
  BY ControlAssumption DEF SlotsOf, Slots
<1>2. SlotOf(pad) \in SlotsOf(pad)
  BY <1>1, LeastExists DEF SlotOf
<1> QED BY <1>2 DEF SlotsOf

(* The keyboard, the mouse and each gamepad that has a slot. *)
LEMMA RegisteredHas ==
  ASSUME mode # "sdk"
  PROVE  /\ <<Keyboard, None>> \in Registered /\ <<Mouse, None>> \in Registered
         /\ \A s \in Slots : slots[s] # None => <<Gamepad(s), slots[s]>> \in Registered
BY DEF Registered

(* A gamepad that takes a free slot: nothing was registered under its
   identifier. *)
LEMMA RegisteredAdds ==
  ASSUME DataOK, mode # "sdk", UNCHANGED mode, NEW s \in Slots, slots[s] = None,
         NEW pad \in Pads, slots' = [slots EXCEPT ![s] = pad]
  PROVE  /\ Registered' = Registered \cup {<<Gamepad(s), pad>>}
         /\ \A p : <<Gamepad(s), p>> \notin Registered
<1>1. s \in Nat /\ s >= 1 /\ \A t \in Slots : t \in Nat /\ t >= 1
  BY ControlAssumption DEF Slots
<1>2. /\ pad # None /\ slots'[s] = pad
      /\ \A t \in Slots : t # s => slots'[t] = slots[t]
  BY ControlAssumption DEF DataOK
<1>3. {<<Gamepad(t), slots'[t]>> : t \in {u \in Slots : slots'[u] # None}}
        = {<<Gamepad(t), slots[t]>> : t \in {u \in Slots : slots[u] # None}}
            \cup {<<Gamepad(s), pad>>}
  BY <1>2
<1>4. Registered' = Registered \cup {<<Gamepad(s), pad>>}
  BY <1>3 DEF Registered, Slots, Gamepad, Keyboard, Mouse
<1>5. ASSUME NEW p, <<Gamepad(s), p>> \in Registered PROVE FALSE
  <2>1. Gamepad(s) # Keyboard /\ Gamepad(s) # Mouse
    BY <1>1 DEF Gamepad, Keyboard, Mouse
  <2>2. PICK t \in Slots : slots[t] # None /\ Gamepad(t) = Gamepad(s)
    BY <1>5, <2>1 DEF Registered
  <2>3. t = s
    BY <1>1, <2>2 DEF Gamepad
  <2> QED BY <2>2, <2>3
<1> QED BY <1>4, <1>5

(* A gamepad that leaves its slot was registered. *)
LEMMA RegisteredRemoves ==
  ASSUME DataOK, mode # "sdk", UNCHANGED mode, NEW s \in Slots, NEW pad \in Pads,
         slots[s] = pad, slots' = [slots EXCEPT ![s] = None]
  PROVE  /\ Registered' = Registered \ {<<Gamepad(s), pad>>}
         /\ <<Gamepad(s), pad>> \in Registered
<1>1. s \in Nat /\ s >= 1 /\ \A t \in Slots : t \in Nat /\ t >= 1
  BY ControlAssumption DEF Slots
<1>2. /\ pad # None /\ slots'[s] = None
      /\ \A t \in Slots : t # s => slots'[t] = slots[t]
  BY ControlAssumption DEF DataOK
<1>3. {<<Gamepad(t), slots'[t]>> : t \in {u \in Slots : slots'[u] # None}}
        = {<<Gamepad(t), slots[t]>> : t \in {u \in Slots : slots[u] # None}}
            \ {<<Gamepad(s), pad>>}
  BY <1>1, <1>2 DEF Gamepad
<1>4. <<Gamepad(s), pad>> # <<Keyboard, None>> /\ <<Gamepad(s), pad>> # <<Mouse, None>>
  BY <1>2
<1>5. Registered' = Registered \ {<<Gamepad(s), pad>>}
  BY <1>3, <1>4 DEF Registered, Slots, Gamepad, Keyboard, Mouse
<1> QED BY <1>2, <1>5, RegisteredHas

(* What is registered is a set of pairs, one of an identifier. *)
LEMMA RegisteredType ==
  ASSUME DataOK
  PROVE  Registered \in SUBSET (Nat \X (Pads \cup {None}))
<1>1. \A s \in Slots : Gamepad(s) \in Nat /\ slots[s] \in Pads \cup {None}
  BY ControlAssumption DEF Slots, Gamepad, DataOK
<1> QED BY <1>1 DEF Registered, Keyboard, Mouse

(* What the device has and what it should have are views of a device. *)
LEMMA ViewTypes ==
  ASSUME DataOK
  PROVE  SocketView \in Views /\ SocketGoal \in Views
BY RegisteredType DEF DataOK, SocketView, SocketGoal, NoHid, Views, ViewOf, Devices

-----------------------------------------------------------------------------
(* The reports of a key.                                                   *)

KeyInput(msg, n) ==
  /\ msg \in HidMessages /\ msg.type = "input" /\ msg.id = Keyboard /\ msg.pad = None
  /\ msg.report \in Reports /\ msg.report.n <= n

(* The messages a key makes; only the last waits for an acknowledgement. *)
KeyMessages(msgs, n, ack) ==
  /\ msgs \in Seq(HidMessages) /\ Len(msgs) \in 1..2
  /\ \A i \in 1..Len(msgs) : KeyInput(msgs[i], n)
  /\ msgs[Len(msgs)].ack = ack
  /\ Len(msgs) = 2 => msgs[1].ack = 0 /\ msgs[1].report.n = 0

KeyReports(keys, n) == {<<Report(keys, n)>>, <<LockReport, Report(keys, n)>>}

(* A key makes one report or two, and only the last waits. *)
LEMMA KeyInputs ==
  ASSUME NEW keys \in SUBSET {"caps", "v"}, NEW n \in Nat, NEW ack \in Nat,
         NEW reports \in KeyReports(keys, n)
  PROVE  KeyMessages(Inputs(reports, ack), n, ack)
<1>1. /\ Report(keys, n) \in Reports /\ Report(keys, n).n <= n
      /\ LockReport \in Reports /\ LockReport.n <= n /\ LockReport.n = 0
  BY DEF Report, LockReport, Reports
<1>2. ASSUME NEW r \in Reports, r.n <= n, NEW a \in Nat
      PROVE  /\ KeyInput(Input(Keyboard, None, r, a), n)
             /\ Input(Keyboard, None, r, a).ack = a /\ Input(Keyboard, None, r, a).report = r
  BY <1>2 DEF Input, Keyboard, HidMessages, KeyInput
<1> DEFINE msgs == Inputs(reports, ack)
           last == Input(Keyboard, None, Report(keys, n), ack)
           lock == Input(Keyboard, None, LockReport, 0)
<1>3. /\ KeyInput(last, n) /\ last.ack = ack /\ KeyInput(lock, n) /\ lock.ack = 0
      /\ lock.report.n = 0
      /\ last \in HidMessages /\ lock \in HidMessages
  BY <1>1, <1>2 DEF KeyInput
<1> SUFFICES KeyMessages(msgs, n, ack)
  OBVIOUS
<1>4. CASE reports = <<Report(keys, n)>>
  <2>1. msgs = <<last>>
    BY <1>4 DEF Inputs
  <2> HIDE DEF msgs, last, lock
  <2>2. Len(msgs) = 1 /\ msgs[1] = last /\ msgs \in Seq(HidMessages)
    BY <1>3, <2>1
  <2> QED BY <1>3, <2>2 DEF KeyMessages
<1>5. CASE reports = <<LockReport, Report(keys, n)>>
  <2>1. msgs = <<lock, last>>
    BY <1>5 DEF Inputs
  <2> HIDE DEF msgs, last, lock
  <2>2. Len(msgs) = 2 /\ msgs[1] = lock /\ msgs[2] = last /\ msgs \in Seq(HidMessages)
    BY <1>3, <2>1
  <2> QED BY <1>3, <2>2 DEF KeyMessages
<1> QED BY <1>4, <1>5 DEF KeyReports

(* What the UHID and the AOA keyboard make of a key. *)
LEMMA KeyReportsAre ==
  ASSUME NEW k, NEW keys, NEW n
  PROVE  UhidReports(k, keys, n) \in KeyReports(keys, n)
         /\ AoaReports(keys, n) \in KeyReports(keys, n)
BY DEF UhidReports, AoaReports, KeyReports

-----------------------------------------------------------------------------
(* The threads' sides, when a handler pushes and when it does not.         *)

(* What is sent over the socket is a message. *)
LEMMA SocketMessagesAre ==
  ASSUME NEW msgs \in Seq(SocketMessages)
  PROVE  msgs \in Seq(Messages)
<1>1. SocketMessages \subseteq Messages
  BY DEF SocketMessages
<1> QED BY <1>1

(* So is what is sent over USB. *)
LEMMA HidMessagesAre ==
  ASSUME NEW msgs \in Seq(HidMessages)
  PROVE  msgs \in Seq(Messages)
<1>1. HidMessages \subseteq Messages
  BY DEF Messages
<1> QED BY <1>1

(* The controller is pushed what changes nothing. *)
LEMMA SocketPush ==
  ASSUME DataOK, SocketFollows, UNCHANGED <<mode, device>>, SocketGoal' = SocketGoal,
         NEW msgs \in Seq(SocketMessages), Len(msgs) \in 1..3, ToController(msgs),
         \A i \in 1..Len(msgs) : Neutral(SocketGoal, msgs[i], FALSE)
  PROVE  SocketFollows' /\ queue' \in Seq(SocketMessages)
<1>1. queue' = OfferAll(queue, msgs) /\ (controller' = "ended" <=> controller = "ended")
  BY DEF ToController, SignalIfWasEmpty, Wake
<1>2. queue' \in Seq(SocketMessages)
  BY <1>1, OfferAllType DEF DataOK
<1>3. SocketView' = SocketView
  BY DEF SocketView, NoHid, ViewOf
<1>4. queue \in Seq(Messages) /\ msgs \in Seq(Messages)
  BY SocketMessagesAre DEF DataOK
<1>5. ASSUME controller # "ended" PROVE Leads(SocketView, queue', SocketGoal, FALSE)
  <2>1. <<>> \o queue = queue /\ <<>> \in Seq(Messages)
    BY <1>4
  <2>2. Leads(SocketView, <<>> \o queue, SocketGoal, FALSE)
    BY <1>5, <2>1 DEF SocketFollows
  <2>3. Leads(SocketView, <<>> \o OfferAll(queue, msgs), SocketGoal, FALSE)
    BY <1>4, <2>1, <2>2, LeadsOfferAll
  <2>4. <<>> \o OfferAll(queue, msgs) = OfferAll(queue, msgs)
    BY <1>1, <1>2
  <2> QED BY <1>1, <2>3, <2>4
<1> QED BY <1>1, <1>2, <1>3, <1>5 DEF SocketFollows

(* The controller is pushed nothing. *)
LEMMA SocketKept ==
  ASSUME SocketFollows, UNCHANGED <<mode, device, queue>>,
         controller' = "ended" <=> controller = "ended", SocketGoal' = SocketGoal
  PROVE  SocketFollows'
<1>1. SocketView' = SocketView
  BY DEF SocketView, NoHid, ViewOf
<1> QED BY <1>1 DEF SocketFollows

(* Less is promised from now on. *)
LEMMA StillLeads ==
  ASSUME DataOK, lossy.report => lossy'.report, lossy'.report \in BOOLEAN,
         NEW s, NEW q, NEW e, Leads(s, q, e, lossy.report)
  PROVE  Leads(s, q, e, lossy'.report)
<1>1. lossy.report \in BOOLEAN
  BY DEF DataOK
<1>2. CASE lossy'.report = lossy.report
  BY <1>2
<1>3. CASE lossy.report = FALSE /\ lossy'.report = TRUE
  <2>1. Leads(s, q, e, FALSE)
    BY <1>3
  <2>2. Leads(s, q, e, TRUE)
    BY <2>1, LeadsLate
  <2> QED BY <1>3, <2>2
<1>4. lossy'.report = lossy.report \/ (lossy.report = FALSE /\ lossy'.report = TRUE)
  BY <1>1
<1> QED BY <1>2, <1>3, <1>4

(* A view that is right stays right when less is promised. *)
LEMMA UsbKept ==
  ASSUME DataOK, UsbFollows, UNCHANGED <<mode, device, aoa, lossy.usb>>,
         lossy.report => lossy'.report, lossy'.report \in BOOLEAN,
         Registered' = Registered, UNCHANGED im.pastes
  PROVE  UsbFollows'
<1>1. CASE mode # "aoa" \/ aoa.at = "ended"
  BY <1>1 DEF UsbFollows
<1>2. CASE mode = "aoa" /\ aoa.at # "ended"
  <2>1. PICK s, e \in Views :
           /\ UsbView(s) /\ OpenCovers(device.hid, aoa.open, s.hid)
           /\ Leads(s, Taken \o aoa.queue, e, lossy.report) /\ UsbGoal(e)
    BY <1>2 DEF UsbFollows
  <2>2. Taken' \o aoa'.queue = Taken \o aoa.queue
    BY DEF Taken
  <2>3. Taken \o aoa.queue \in Seq(Messages)
    <3>1. Taken \in Seq(HidMessages) /\ aoa.queue \in Seq(HidMessages)
      BY DEF Taken, DataOK
    <3> QED BY <3>1, HidMessagesAre
  <2>4. Leads(s, Taken \o aoa.queue, e, lossy'.report)
    BY <2>1, StillLeads
  <2>5. UsbView(s)' /\ UsbGoal(e)'
    BY <2>1 DEF UsbView, UsbGoal
  <2>6. OpenCovers(device'.hid, aoa'.open, s.hid)
    BY <2>1
  <2> QED BY <1>2, <2>2, <2>4, <2>5, <2>6 DEF UsbFollows
<1> QED BY <1>1, <1>2

(* The AOA thread is pushed what takes a device that has what is registered to
   one that has what is registered next. *)
LEMMA UsbPushed ==
  ASSUME CInv, DataOK, UsbFollows, UNCHANGED <<mode, device, lossy.usb>>,
         lossy.report => lossy'.report, lossy'.report \in BOOLEAN,
         NEW events, ToAoa(events),
         ASSUME NEW p \in Seq(Messages), NEW s \in Views, NEW e \in Views, UsbGoal(e),
                Leads(s, p \o aoa.queue, e, lossy'.report)
         PROVE  \E f \in Views : /\ Leads(s, p \o OfferAll(aoa.queue, events), f, lossy'.report)
                                 /\ UsbGoal(f)'
  PROVE  UsbFollows'
<1>0. /\ aoa'.queue = OfferAll(aoa.queue, events)
      /\ aoa'.at = SignalIfWasEmpty(aoa.at, aoa.queue, aoa'.queue)
      /\ UNCHANGED <<aoa.open, aoa.event>>
  BY DEF ToAoa, CInv, TypeInv
<1>1. (aoa'.at = "ended" <=> aoa.at = "ended") /\ (aoa'.at = "ack" <=> aoa.at = "ack")
  BY <1>0 DEF SignalIfWasEmpty, Wake
<1>2. CASE mode # "aoa" \/ aoa.at = "ended"
  BY <1>1, <1>2 DEF UsbFollows
<1>3. CASE mode = "aoa" /\ aoa.at # "ended"
  <2>1. PICK s, e \in Views :
           /\ UsbView(s) /\ OpenCovers(device.hid, aoa.open, s.hid)
           /\ Leads(s, Taken \o aoa.queue, e, lossy.report) /\ UsbGoal(e)
    BY <1>3 DEF UsbFollows
  <2>2. Taken' = Taken
    BY <1>0, <1>1 DEF Taken
  <2>3. Taken \in Seq(Messages) /\ Taken \o aoa.queue \in Seq(Messages)
    <3>1. Taken \in Seq(HidMessages) /\ aoa.queue \in Seq(HidMessages)
      BY DEF Taken, DataOK
    <3> QED BY <3>1, HidMessagesAre
  <2>4. Leads(s, Taken \o aoa.queue, e, lossy'.report)
    BY <2>1, StillLeads
  <2>5. PICK f \in Views : Leads(s, Taken \o aoa'.queue, f, lossy'.report) /\ UsbGoal(f)'
    BY <1>0, <2>1, <2>3, <2>4
  <2>6. UsbView(s)' /\ OpenCovers(device'.hid, aoa'.open, s.hid)
    BY <1>0, <2>1 DEF UsbView
  <2> QED BY <1>1, <1>3, <2>2, <2>5, <2>6 DEF UsbFollows
<1> QED BY <1>2, <1>3

(* The AOA thread is pushed what changes nothing. *)
LEMMA UsbPush ==
  ASSUME CInv, DataOK, UsbFollows, UNCHANGED <<mode, device, lossy.usb>>,
         lossy.report => lossy'.report, lossy'.report \in BOOLEAN,
         Registered' = Registered, UNCHANGED im.pastes,
         NEW events \in Seq(HidMessages), Len(events) \in 1..3, ToAoa(events),
         ASSUME NEW e \in Views, UsbGoal(e), NEW i \in 1..Len(events)
         PROVE  Neutral(e, events[i], lossy'.report)
  PROVE  UsbFollows' /\ aoa'.queue \in Seq(HidMessages)
<1>1. ASSUME NEW p \in Seq(Messages), NEW s \in Views, NEW e \in Views, UsbGoal(e),
             Leads(s, p \o aoa.queue, e, lossy'.report)
      PROVE  \E f \in Views : /\ Leads(s, p \o OfferAll(aoa.queue, events), f, lossy'.report)
                              /\ UsbGoal(f)'
  <2>1. aoa.queue \in Seq(Messages) /\ events \in Seq(Messages)
    BY HidMessagesAre DEF DataOK
  <2>2. \A i \in 1..Len(events) : Neutral(e, events[i], lossy'.report)
    BY <1>1
  <2>3. Leads(s, p \o OfferAll(aoa.queue, events), e, lossy'.report)
    BY <1>1, <2>1, <2>2, LeadsOfferAll
  <2>4. UsbGoal(e)'
    BY <1>1 DEF UsbGoal
  <2> QED BY <2>3, <2>4
<1>2. UsbFollows'
  BY <1>1, UsbPushed
<1>3. aoa'.queue = OfferAll(aoa.queue, events)
  BY DEF ToAoa, CInv, TypeInv
<1> QED BY <1>2, <1>3, OfferAllType DEF DataOK

(* What a handler leaves of the two sides. *)
Sides ==
  /\ SocketFollows' /\ queue' \in Seq(SocketMessages')
  /\ UsbFollows' /\ aoa'.queue \in Seq(HidMessages)

(* A handler that pushes nothing. *)
LEMMA SidesKept ==
  ASSUME DataOK, SocketFollows, UsbFollows,
         UNCHANGED <<mode, device, slots, im, queue, controller, aoa, lossy.usb>>,
         lossy.report => lossy'.report, lossy'.report \in BOOLEAN
  PROVE  Sides
<1>1. SocketGoal' = SocketGoal /\ Registered' = Registered /\ SocketMessages' = SocketMessages
  BY DEF SocketGoal, Registered, NoHid, SocketMessages, Slots
<1> QED BY <1>1, SocketKept, UsbKept DEF Sides, DataOK

(* A message of the SDK processors, or a request. *)
LEMMA SocketSides ==
  ASSUME DataOK, SocketFollows, UsbFollows,
         UNCHANGED <<mode, device, slots, im, aoa, lossy.usb>>,
         lossy.report => lossy'.report, lossy'.report \in BOOLEAN,
         NEW msgs \in Seq(SocketMessages), Len(msgs) \in 1..3, ToController(msgs),
         \A i \in 1..Len(msgs) : Neutral(SocketGoal, msgs[i], FALSE)
  PROVE  Sides
<1>1. SocketGoal' = SocketGoal /\ Registered' = Registered /\ SocketMessages' = SocketMessages
  BY DEF SocketGoal, Registered, NoHid, SocketMessages, Slots
<1>2. SocketFollows' /\ queue' \in Seq(SocketMessages)
  BY <1>1, SocketPush
<1>3. UsbFollows'
  BY <1>1, UsbKept
<1> QED BY <1>1, <1>2, <1>3 DEF Sides, DataOK

(* A request changes nothing of what is followed. *)
LEMMA RequestsNeutral ==
  ASSUME NEW s \in Views, NEW msg \in Requests, NEW late
  PROVE  /\ msg \in SocketMessages /\ Neutral(s, msg, late)
         /\ <<msg>> \in Seq(SocketMessages) /\ Len(<<msg>>) \in 1..3
         /\ \A i \in 1..Len(<<msg>>) : <<msg>>[i] = msg
<1>0. [type |-> "inject"].type = "inject" /\ [type |-> "get clipboard"].type = "get clipboard"
  OBVIOUS
<1>1. msg.type = "inject" \/ msg.type = "get clipboard"
  BY <1>0, Zenon DEF Requests, Inject, GetClipboard
<1>2. msg \in Messages
  BY DEF Messages, PlainMessages
<1>3. msg \in SocketMessages
  BY <1>1, <1>2 DEF SocketMessages
<1>4. Neutral(s, msg, late)
  BY <1>1 DEF Neutral, Legal, After, Views
<1> QED BY <1>3, <1>4

(* A report of no key, from a device that is registered. *)
LEMMA ToHidSides ==
  ASSUME CInv, DataOK, SocketFollows, UsbFollows, mode # "sdk",
         UNCHANGED <<mode, device, slots, im, lossy>>,
         NEW msg \in HidMessages, msg.type = "input", msg.report = None, msg.ack = 0,
         <<msg.id, msg.pad>> \in Registered, ToHid(<<msg>>)
  PROVE  Sides
<1>0. <<msg>> \in Seq(HidMessages) /\ Len(<<msg>>) \in 1..3
      /\ (\A i \in 1..Len(<<msg>>) : <<msg>>[i] = msg) /\ lossy.report \in BOOLEAN
  BY DEF DataOK
<1>1. ASSUME NEW e \in Views, e.hid = Registered, NEW late
      PROVE  Neutral(e, msg, late)
  BY <1>1 DEF Neutral, Legal, After, Views
<1>2. CASE mode = "uhid"
  <2>1. ToController(<<msg>>) /\ UNCHANGED aoa
    BY <1>2 DEF ToHid
  <2>2. <<msg>> \in Seq(SocketMessages)
    BY <1>2 DEF SocketMessages, Messages
  <2>3. Neutral(SocketGoal, msg, FALSE)
    BY <1>1, <1>2, ViewTypes DEF SocketGoal
  <2> QED BY <1>0, <2>1, <2>2, <2>3, SocketSides
<1>3. CASE mode = "aoa"
  <2>1. ToAoa(<<msg>>) /\ UNCHANGED <<queue, controller>>
    BY <1>3 DEF ToHid
  <2>2. SocketGoal' = SocketGoal /\ Registered' = Registered /\ SocketMessages' = SocketMessages
    BY DEF SocketGoal, Registered, NoHid, SocketMessages, Slots
  <2>3. ASSUME NEW e \in Views, UsbGoal(e), NEW i \in 1..Len(<<msg>>)
        PROVE  Neutral(e, <<msg>>[i], lossy'.report)
    BY <1>0, <1>1, <2>3 DEF UsbGoal
  <2>4. UsbFollows' /\ aoa'.queue \in Seq(HidMessages)
    BY <1>0, <2>1, <2>2, <2>3, UsbPush
  <2> QED BY <2>1, <2>2, <2>4, SocketKept DEF Sides, DataOK
<1> QED BY <1>2, <1>3 DEF CInv, TypeInv

-----------------------------------------------------------------------------
(* Keys.                                                                   *)

(* What a handler leaves of the keyboard and of the history. *)
Fields ==
  /\ kb' = [keys |-> kb'.keys, lock |-> kb'.lock, synchronized |-> kb'.synchronized]
  /\ kb'.keys \in SUBSET {"caps", "v"}
  /\ lossy' \in [report : BOOLEAN, lock : BOOLEAN, usb : BOOLEAN]
  /\ lossy'.usb = lossy.usb /\ (lossy.report => lossy'.report)

(* A report of a key that is not newer than the clipboard changes nothing. *)
LEMMA KeyNeutral ==
  ASSUME NEW e \in Views, <<Keyboard, None>> \in e.hid, NEW n \in Nat, NEW late,
         late = TRUE \/ n <= e.set, NEW msg, KeyInput(msg, n), msg.ack = 0
  PROVE  Neutral(e, msg, late)
<1>1. After(e, msg) = e
  BY DEF After, Views, KeyInput
<1>2. late = TRUE \/ msg.report.n <= e.set
  BY DEF Reports, Views, KeyInput
<1> QED BY <1>1, <1>2 DEF Neutral, Legal, KeyInput

(* Over USB the set of what is acknowledged is that of the requests, unless a
   report was lost. *)
LEMMA UsbSet ==
  ASSUME DataOK, NEW e, UsbGoal(e), lossy.report => lossy'.report, lossy'.report \in BOOLEAN
  PROVE  lossy'.report = TRUE \/ im.pastes <= e.set
<1>1. lossy.report \in BOOLEAN /\ im.pastes \in Nat
  BY DEF DataOK
<1>2. CASE lossy.report
  BY <1>2
<1>3. CASE ~lossy.report
  BY <1>1, <1>3 DEF UsbGoal
<1> QED BY <1>2, <1>3

(* sc_key_processor_process_key of the three keyboards. *)
LEMMA ProcessKeySides ==
  ASSUME CInv, DataOK, SocketFollows, UsbFollows, UNCHANGED <<mode, device, slots, im>>,
         NEW k, NEW keys \in SUBSET {"caps", "v"}, ProcessKey(k, keys, im.pastes)
  PROVE  Sides /\ Fields
<1>0. /\ im.pastes \in Nat /\ lossy \in [report : BOOLEAN, lock : BOOLEAN, usb : BOOLEAN]
      /\ kb = [keys |-> kb.keys, lock |-> kb.lock, synchronized |-> kb.synchronized]
      /\ kb.keys \in SUBSET {"caps", "v"}
  BY DEF DataOK
<1> DEFINE n == im.pastes
<1>1. CASE mode = "sdk"
  <2> DEFINE msg == [type |-> "key", n |-> 0]
  <2>1. ToController(<<msg>>) /\ UNCHANGED <<kb, aoa, lossy>>
    BY <1>1 DEF ProcessKey
  <2>2. msg \in [type : {"key"}, n : Nat] /\ msg.type = "key" /\ msg.n = 0
    OBVIOUS
  <2> HIDE DEF msg
  <2>3. msg \in SocketMessages
    BY <1>1, <2>2 DEF SocketMessages, Messages, PlainMessages
  <2>4. SocketGoal \in Views
    BY ViewTypes
  <2>5. Neutral(SocketGoal, msg, FALSE)
    BY <2>2, <2>4 DEF Neutral, Legal, After, Views
  <2>6. /\ <<msg>> \in Seq(SocketMessages) /\ Len(<<msg>>) \in 1..3
        /\ \A i \in 1..Len(<<msg>>) : <<msg>>[i] = msg
    BY <2>3
  <2>7. Sides
    BY <1>0, <2>1, <2>5, <2>6, SocketSides
  <2> QED BY <1>0, <2>1, <2>7 DEF Fields
<1>2. CASE mode = "uhid"
  <2> DEFINE msgs == Inputs(UhidReports(k, keys, n), 0)
  <2>1. /\ kb' = [kb EXCEPT !.keys = keys, !.lock = UhidLock(k)]
        /\ ToController(msgs) /\ UNCHANGED aoa
        /\ lossy' = [lossy EXCEPT
                !.report = @ \/ Overflows(queue, msgs),
                !.lock = @ \/ (k = "caps" /\ Report(keys, n).keys = None)]
    BY <1>2 DEF ProcessKey
  <2>2. KeyMessages(msgs, n, 0)
    <3>1. UhidReports(k, keys, n) \in KeyReports(keys, n)
      BY KeyReportsAre
    <3> QED BY <1>0, <3>1, KeyInputs
  <2>10. /\ msgs \in Seq(HidMessages) /\ Len(msgs) \in 1..2
         /\ \A i \in 1..Len(msgs) : KeyInput(msgs[i], n) /\ msgs[i].ack = 0
    BY <2>2 DEF KeyMessages
  <2>3. Fields
    BY <1>0, <2>1 DEF Fields, Overflows
  <2> HIDE DEF msgs
  <2>4. msgs \in Seq(SocketMessages)
    <3>1. \A i \in 1..Len(msgs) : msgs[i] \in SocketMessages
      BY <1>2, <2>10 DEF KeyInput, SocketMessages, Messages
    <3> QED BY <2>10, <3>1
  <2>5. SocketGoal \in Views /\ SocketGoal.hid = Registered /\ SocketGoal.set = n
    BY <1>2, ViewTypes DEF SocketGoal
  <2>6. \A i \in 1..Len(msgs) : Neutral(SocketGoal, msgs[i], FALSE)
    <3>1. <<Keyboard, None>> \in SocketGoal.hid /\ n <= SocketGoal.set
      BY <1>0, <1>2, <2>5, RegisteredHas
    <3> HIDE DEF n
    <3>3. n \in Nat
      BY <1>0 DEF n
    <3> QED BY <2>5, <2>10, <3>1, <3>3, KeyNeutral
  <2>7. Len(msgs) \in 1..3
    BY <2>10
  <2>8. /\ UNCHANGED <<mode, device, slots, im, aoa, lossy.usb>>
        /\ lossy.report => lossy'.report
    BY <2>1, <2>3 DEF Fields
  <2>9. lossy'.report \in BOOLEAN
    BY <2>3 DEF Fields
  <2> QED BY <2>1, <2>3, <2>4, <2>6, <2>7, <2>8, <2>9, SocketSides
<1>3. CASE mode = "aoa"
  <2> DEFINE msgs == Inputs(AoaReports(keys, n), 0)
  <2>1. /\ kb' = [kb EXCEPT !.keys = keys, !.synchronized = AoaSynchronized]
        /\ ToAoa(msgs) /\ UNCHANGED <<queue, controller>>
        /\ lossy' = [lossy EXCEPT !.report = @ \/ Overflows(aoa.queue, msgs)]
    BY <1>3 DEF ProcessKey
  <2>2. KeyMessages(msgs, n, 0)
    <3>1. AoaReports(keys, n) \in KeyReports(keys, n)
      BY KeyReportsAre
    <3> QED BY <1>0, <3>1, KeyInputs
  <2>10. /\ msgs \in Seq(HidMessages) /\ Len(msgs) \in 1..2
         /\ \A i \in 1..Len(msgs) : KeyInput(msgs[i], n) /\ msgs[i].ack = 0
    BY <2>2 DEF KeyMessages
  <2>3. Fields
    BY <1>0, <2>1 DEF Fields, Overflows
  <2> HIDE DEF msgs
  <2>4. lossy'.report \in BOOLEAN
    BY <2>3 DEF Fields
  <2>5. SocketGoal' = SocketGoal /\ Registered' = Registered /\ SocketMessages' = SocketMessages
    BY DEF SocketGoal, Registered, NoHid, SocketMessages, Slots
  <2>6. ASSUME NEW e \in Views, UsbGoal(e), NEW i \in 1..Len(msgs)
        PROVE  Neutral(e, msgs[i], lossy'.report)
    <3>1. <<Keyboard, None>> \in e.hid
      BY <1>3, <2>6, RegisteredHas DEF UsbGoal
    <3>2. lossy'.report = TRUE \/ n <= e.set
      BY <2>3, <2>4, <2>6, UsbSet DEF Fields
    <3>3. n \in Nat
      BY <1>0
    <3> HIDE DEF n
    <3> QED BY <2>10, <3>1, <3>2, <3>3, KeyNeutral
  <2>7. Len(msgs) \in 1..3
    BY <2>10
  <2>8. UsbFollows' /\ aoa'.queue \in Seq(HidMessages)
    BY <2>1, <2>3, <2>4, <2>5, <2>6, <2>7, <2>10, UsbPush DEF Fields
  <2> QED BY <2>1, <2>3, <2>5, <2>8, SocketKept DEF Sides, DataOK
<1> QED BY <1>1, <1>2, <1>3 DEF CInv, TypeInv

-----------------------------------------------------------------------------
(* Ctrl+v.                                                                 *)

(* A sequence of one, of two, and how they are put together. *)
LEMMA OneOf ==
  ASSUME NEW S, NEW msgs \in Seq(S), Len(msgs) = 1
  PROVE  msgs = <<msgs[1]>> /\ msgs[1] \in S
OBVIOUS

LEMMA TwoOf ==
  ASSUME NEW S, NEW msgs \in Seq(S), Len(msgs) = 2
  PROVE  msgs = <<msgs[1], msgs[2]>> /\ msgs[1] \in S /\ msgs[2] \in S
OBVIOUS

LEMMA TwoInARow ==
  ASSUME NEW S, NEW a \in S, NEW b \in S
  PROVE  <<a>> \o <<b>> = <<a, b>>
<1> DEFINE r == <<a>> \o <<b>>
<1>1. r \in Seq(S) /\ Len(r) = 2 /\ r[1] = a /\ r[2] = b
  <2>1. <<a>> \in Seq(S) /\ <<b>> \in Seq(S) /\ Len(<<a>>) = 1 /\ Len(<<b>>) = 1
    OBVIOUS
  <2> QED BY <2>1
<1> HIDE DEF r
<1>2. r = <<a, b>>
  BY <1>1
<1> QED BY <1>2 DEF r

LEMMA ThreeInARow ==
  ASSUME NEW S, NEW a \in S, NEW b \in S, NEW c \in S
  PROVE  <<a>> \o <<b, c>> = <<a, b, c>>
<1> DEFINE r == <<a>> \o <<b, c>>
<1>1. r \in Seq(S) /\ Len(r) = 3 /\ r[1] = a /\ r[2] = b /\ r[3] = c
  <2>1. <<a>> \in Seq(S) /\ <<b, c>> \in Seq(S) /\ Len(<<a>>) = 1 /\ Len(<<b, c>>) = 2
    OBVIOUS
  <2> QED BY <2>1
<1> HIDE DEF r
<1>2. r = <<a, b, c>>
  BY <1>1
<1> QED BY <1>2 DEF r

(* The first of several messages fits: it is pushed, then the others. *)
LEMMA OfferFirst ==
  ASSUME NEW S, NEW q \in Seq(S), NEW first \in S, Fits(q, first),
         NEW msgs \in Seq(S), Len(msgs) \in 1..2
  PROVE  OfferAll(q, <<first>> \o msgs) = OfferAll(Append(q, first), msgs)
<1>1. Offer(q, first) = Append(q, first)
  BY DEF Offer
<1>2. CASE Len(msgs) = 1
  <2>1. msgs = <<msgs[1]>> /\ msgs[1] \in S
    BY <1>2, OneOf
  <2>2. <<first>> \o <<msgs[1]>> = <<first, msgs[1]>>
    BY <2>1, TwoInARow
  <2>3. OfferAll(q, <<first, msgs[1]>>) = Offer(Append(q, first), msgs[1])
    <3>1. OfferAll(q, <<first, msgs[1]>>) = Offer(Offer(q, first), msgs[1])
      BY OfferTwo
    <3> QED BY <1>1, <3>1
  <2>4. OfferAll(Append(q, first), <<msgs[1]>>) = Offer(Append(q, first), msgs[1])
    BY OfferOne
  <2> QED BY <2>1, <2>2, <2>3, <2>4, Zenon
<1>3. CASE Len(msgs) = 2
  <2>1. msgs = <<msgs[1], msgs[2]>> /\ msgs[1] \in S /\ msgs[2] \in S
    BY <1>3, TwoOf
  <2>2. <<first>> \o <<msgs[1], msgs[2]>> = <<first, msgs[1], msgs[2]>>
    BY <2>1, ThreeInARow
  <2>3. OfferAll(q, <<first, msgs[1], msgs[2]>>)
          = Offer(Offer(Append(q, first), msgs[1]), msgs[2])
    <3>1. OfferAll(q, <<first, msgs[1], msgs[2]>>)
            = Offer(Offer(Offer(q, first), msgs[1]), msgs[2])
      BY OfferThree
    <3> QED BY <1>1, <3>1
  <2>4. OfferAll(Append(q, first), <<msgs[1], msgs[2]>>)
          = Offer(Offer(Append(q, first), msgs[1]), msgs[2])
    BY OfferTwo
  <2> QED BY <2>1, <2>2, <2>3, <2>4, Zenon
<1>4. Len(msgs) = 1 \/ Len(msgs) = 2
  OBVIOUS
<1> QED BY <1>2, <1>3, <1>4

(* The clipboard, and what follows it over the socket. *)
LEMMA SocketClipboard ==
  ASSUME DataOK, SocketFollows, UNCHANGED <<mode, device, slots>>,
         NEW n \in Nat, n = im.pastes + 1, NEW sequence \in {0, n},
         UNCHANGED im.vfinger, im'.pastes = n
  PROVE  LET clipboard == Clipboard(sequence, n)
             r == Append(queue, clipboard)
         IN  /\ clipboard \in SocketMessages
             /\ r \in Seq(SocketMessages) /\ SocketGoal' \in Views
             /\ controller # "ended" => Leads(SocketView, r, SocketGoal', FALSE)
<1> DEFINE clipboard == Clipboard(sequence, n)
<1> SUFFICES /\ clipboard \in SocketMessages
             /\ Append(queue, clipboard) \in Seq(SocketMessages) /\ SocketGoal' \in Views
             /\ controller # "ended" =>
                  Leads(SocketView, Append(queue, clipboard), SocketGoal', FALSE)
  OBVIOUS
<1>1. /\ clipboard \in [type : {"clipboard"}, sequence : Nat, n : Nat]
      /\ clipboard.type = "clipboard" /\ clipboard.n = n /\ clipboard.sequence = sequence
  BY DEF Clipboard
<1> HIDE DEF clipboard
<1>2. clipboard \in Messages /\ clipboard \in SocketMessages
  BY <1>1 DEF SocketMessages, Messages, PlainMessages
<1>3. SocketGoal \in Views /\ im.pastes \in Nat /\ SocketGoal.set = im.pastes
  BY ViewTypes DEF DataOK, SocketGoal, NoHid
<1>4. Registered' = Registered
  BY DEF Registered, Slots
<1>5. SocketGoal' = [hid |-> SocketGoal.hid, finger |-> SocketGoal.finger, set |-> n]
  BY <1>4 DEF SocketGoal, NoHid
<1>6. After(SocketGoal, clipboard) = SocketGoal'
  BY <1>1, <1>5 DEF After
<1>7. Legal(SocketGoal, clipboard, FALSE)
  BY <1>1, <1>3 DEF Legal
<1>8. queue \in Seq(Messages) /\ queue \in Seq(SocketMessages)
  BY SocketMessagesAre DEF DataOK
<1>9. Append(queue, clipboard) \in Seq(SocketMessages)
  BY <1>2, <1>8
<1>10. SocketGoal' \in Views
  BY <1>2, <1>3, <1>6, AfterType
<1>11. ASSUME controller # "ended"
       PROVE  Leads(SocketView, Append(queue, clipboard), SocketGoal', FALSE)
  <2>1. Leads(SocketView, queue, SocketGoal, FALSE)
    BY <1>11 DEF SocketFollows
  <2> QED BY <1>2, <1>6, <1>7, <1>8, <2>1, LeadsAppend
<1> QED BY <1>2, <1>9, <1>10, <1>11

(* What is pushed to the controller after a clipboard leads where it should. *)
LEMMA SocketAfter ==
  ASSUME NEW r \in Seq(SocketMessages), NEW e,
         controller # "ended" => Leads(SocketView, r, e, FALSE),
         NEW msgs \in Seq(SocketMessages), Len(msgs) \in 1..3,
         \A i \in 1..Len(msgs) : Neutral(e, msgs[i], FALSE)
  PROVE  /\ controller # "ended" => Leads(SocketView, OfferAll(r, msgs), e, FALSE)
         /\ OfferAll(r, msgs) \in Seq(SocketMessages)
<1>1. OfferAll(r, msgs) \in Seq(SocketMessages)
  BY OfferAllType
<1>2. r \in Seq(Messages) /\ msgs \in Seq(Messages) /\ <<>> \in Seq(Messages)
  BY SocketMessagesAre
<1>3. ASSUME controller # "ended" PROVE Leads(SocketView, OfferAll(r, msgs), e, FALSE)
  <2>1. <<>> \o r = r /\ <<>> \o OfferAll(r, msgs) = OfferAll(r, msgs)
    BY <1>1, <1>2
  <2>2. Leads(SocketView, <<>> \o r, e, FALSE)
    BY <1>3, <2>1
  <2>3. Leads(SocketView, <<>> \o OfferAll(r, msgs), e, FALSE)
    BY <1>2, <2>2, LeadsOfferAll
  <2> QED BY <2>1, <2>3
<1> QED BY <1>1, <1>3

(* The reports of Ctrl+v, over USB: the last, when nothing is lost, waits for
   the acknowledgement of its clipboard. *)
LEMMA UsbCtrlV ==
  ASSUME DataOK, mode = "aoa", UNCHANGED <<mode, slots>>,
         NEW n \in Nat, n # 0, im'.pastes = n,
         NEW events, KeyMessages(events, n, n),
         Overflows(aoa.queue, events) => lossy'.report, lossy.report => lossy'.report,
         NEW p \in Seq(Messages), NEW s \in Views, NEW e \in Views, UsbGoal(e),
         Leads(s, p \o aoa.queue, e, lossy'.report)
  PROVE  \E f \in Views : /\ Leads(s, p \o OfferAll(aoa.queue, events), f, lossy'.report)
                          /\ UsbGoal(f)'
<1> DEFINE q == aoa.queue
<1>0. q \in Seq(Messages) /\ Registered' = Registered
  BY HidMessagesAre DEF DataOK, Registered, Slots
<1>1. ASSUME NEW r \in Seq(Messages), NEW msg, KeyInput(msg, n), msg.ack = n,
             Leads(s, p \o r, e, lossy'.report), ~Fits(r, msg) => lossy'.report
      PROVE  \E f \in Views : Leads(s, p \o Offer(r, msg), f, lossy'.report) /\ UsbGoal(f)'
  <2>0. msg \in Messages
    BY <1>1 DEF KeyInput, Messages
  <2>1. CASE Fits(r, msg)
    <3> DEFINE f == After(e, msg)
    <3>1. f = [hid |-> e.hid, finger |-> e.finger, set |-> n] /\ f \in Views
      BY <1>1, <2>0, AfterType DEF KeyInput, After
    <3>2. <<Keyboard, None>> \in e.hid
      BY RegisteredHas DEF UsbGoal
    <3>3. Legal(e, msg, lossy'.report)
      BY <1>1, <3>1, <3>2 DEF Legal, KeyInput
    <3>4. p \o r \in Seq(Messages) /\ p \o Append(r, msg) = Append(p \o r, msg)
      BY <1>1, <2>0
    <3>5. Leads(s, p \o Append(r, msg), f, lossy'.report)
      BY <1>1, <2>0, <3>3, <3>4, LeadsAppend
    <3>6. UsbGoal(f)'
      BY <1>0, <3>1 DEF UsbGoal
    <3> HIDE DEF f
    <3> QED BY <2>1, <3>1, <3>5, <3>6 DEF Offer
  <2>2. CASE ~Fits(r, msg)
    <3>1. UsbGoal(e)'
      BY <1>0, <1>1, <2>2 DEF UsbGoal
    <3> QED BY <1>1, <2>2, <3>1 DEF Offer
  <2> QED BY <2>1, <2>2
<1>2. CASE Len(events) = 1
  <2>1. events = <<events[1]>> /\ KeyInput(events[1], n) /\ events[1].ack = n
    BY <1>2 DEF KeyMessages
  <2>2. OfferAll(q, events) = Offer(q, events[1])
    BY <2>1, OfferOne
  <2>3. ~Fits(q, events[1]) => lossy'.report
    <3>1. ~Fits(q, events[1]) => Overflows(q, events)
      BY <1>0, <1>2, <2>2 DEF Offer, Overflows
    <3> QED BY <3>1
  <2> HIDE DEF q
  <2>4. Leads(s, p \o q, e, lossy'.report)
    BY DEF q
  <2> QED BY <1>0, <1>1, <2>1, <2>2, <2>3, <2>4 DEF q
<1>3. CASE Len(events) = 2
  <2>1. /\ events = <<events[1], events[2]>>
        /\ KeyInput(events[1], n) /\ events[1].ack = 0 /\ events[1].report.n = 0
        /\ KeyInput(events[2], n) /\ events[2].ack = n
    BY <1>3 DEF KeyMessages
  <2> DEFINE r == Offer(q, events[1])
  <2>2. OfferAll(q, events) = Offer(r, events[2])
    BY <2>1, OfferTwo
  <2>3. events[1] \in Messages
    BY <2>1 DEF KeyInput, Messages
  <2>4. r \in Seq(Messages) /\ Len(r) <= Len(q) + 1
    BY <1>0, <2>3 DEF Offer
  <2>5. ~Fits(r, events[2]) => lossy'.report
    <3>1. ~Fits(r, events[2]) => OfferAll(q, events) = r
      BY <2>2 DEF Offer
    <3>2. ~Fits(r, events[2]) => Overflows(q, events)
      BY <1>0, <1>3, <2>4, <3>1 DEF Overflows
    <3> QED BY <3>2
  <2>6. Neutral(e, events[1], lossy'.report)
    <3>1. <<Keyboard, None>> \in e.hid
      BY RegisteredHas DEF UsbGoal
    <3> QED BY <2>1, <3>1 DEF Neutral, Legal, After, Views, KeyInput
  <2>7. Leads(s, p \o r, e, lossy'.report)
    BY <1>0, <2>3, <2>6, LeadsOffer
  <2> HIDE DEF r
  <2> QED BY <1>1, <2>1, <2>2, <2>4, <2>5, <2>7
<1>4. Len(events) = 1 \/ Len(events) = 2
  BY DEF KeyMessages
<1> QED BY <1>2, <1>3, <1>4

(* Ctrl+v, its clipboard first. *)
LEMMA CtrlVSides ==
  ASSUME CInv, DataOK, SocketFollows, UsbFollows, Acked, CtrlV
  PROVE  /\ Sides /\ Fields /\ (mode = "aoa" => im'.sequence = im'.pastes + 1)
         /\ im' \in [paused : BOOLEAN, vfinger : BOOLEAN, sequence : Nat, pastes : Nat]
<1> DEFINE n == im.pastes + 1
           sequence == IF mode = "aoa" THEN im.sequence ELSE 0
           clipboard == Clipboard(sequence, n)
           keys == kb.keys \cup {"v"}
<1>0. /\ im.pastes \in Nat /\ n \in Nat /\ n # 0 /\ sequence \in {0, n}
      /\ im \in [paused : BOOLEAN, vfinger : BOOLEAN, sequence : Nat, pastes : Nat]
      /\ lossy \in [report : BOOLEAN, lock : BOOLEAN, usb : BOOLEAN]
      /\ kb = [keys |-> kb.keys, lock |-> kb.lock, synchronized |-> kb.synchronized]
      /\ kb.keys \in SUBSET {"caps", "v"} /\ keys \in SUBSET {"caps", "v"}
  BY DEF DataOK, Acked
<1>1. UNCHANGED <<mode, device, slots>>
  BY DEF CtrlV, Event
<1>2. CASE UNCHANGED <<im, kb, queue, controller, aoa, lossy>>
  <2>1. Sides
    BY <1>0, <1>1, <1>2, SidesKept
  <2> QED BY <1>0, <1>1, <1>2, <2>1 DEF Fields, Acked
<1>3. CASE /\ Fits(queue, clipboard)
           /\ im' = [im EXCEPT !.pastes = n,
                               !.sequence = IF mode = "aoa" THEN @ + 1 ELSE @]
           /\ ProcessCtrlV(keys, n, clipboard)
  <2>1. /\ im'.pastes = n /\ im'.vfinger = im.vfinger
        /\ mode = "aoa" => im'.sequence = im.sequence + 1
        /\ im' \in [paused : BOOLEAN, vfinger : BOOLEAN, sequence : Nat, pastes : Nat]
    <3>1. /\ im' = [paused |-> im.paused, vfinger |-> im.vfinger,
                    sequence |-> IF mode = "aoa" THEN im.sequence + 1 ELSE im.sequence,
                    pastes |-> n]
          /\ im.sequence \in Nat /\ im.paused \in BOOLEAN /\ im.vfinger \in BOOLEAN
      BY <1>0, <1>3
    <3> HIDE DEF n
    <3> QED BY <1>0, <3>1
  <2>2. mode = "aoa" => im'.sequence = im'.pastes + 1
    BY <2>1 DEF Acked
  <2> DEFINE r == Append(queue, clipboard)
  <2>3. /\ clipboard \in SocketMessages /\ r \in Seq(SocketMessages) /\ SocketGoal' \in Views
        /\ controller # "ended" => Leads(SocketView, r, SocketGoal', FALSE)
    <3> HIDE DEF n, sequence
    <3>1. n = im.pastes + 1
      BY DEF n
    <3> QED BY <1>0, <1>1, <2>1, <3>1, SocketClipboard
  <2>4. clipboard.sequence = sequence
    BY DEF Clipboard
  <2>5. /\ SocketView' = SocketView /\ Registered' = Registered
        /\ SocketMessages' = SocketMessages
    BY <1>1 DEF SocketView, NoHid, ViewOf, Registered, Slots, SocketMessages
  <2> HIDE DEF clipboard, r
  <2>6. queue \in Seq(SocketMessages) /\ Offer(queue, clipboard) = r
    BY <1>3 DEF DataOK, Offer, r
  <2>7. ASSUME NEW msgs \in Seq(SocketMessages), Len(msgs) \in 1..2,
               ToController(<<clipboard>> \o msgs), mode # "aoa", UNCHANGED aoa,
               \A i \in 1..Len(msgs) : Neutral(SocketGoal', msgs[i], FALSE)
        PROVE  Sides
    <3>1. OfferAll(queue, <<clipboard>> \o msgs) = OfferAll(r, msgs)
      BY <1>3, <2>3, <2>6, <2>7, OfferFirst DEF r
    <3>2. queue' = OfferAll(r, msgs) /\ (controller' = "ended" <=> controller = "ended")
      BY <2>7, <3>1 DEF ToController, SignalIfWasEmpty, Wake
    <3>3. Len(msgs) \in 1..3
      BY <2>7
    <3>4. /\ controller # "ended" => Leads(SocketView, OfferAll(r, msgs), SocketGoal', FALSE)
          /\ OfferAll(r, msgs) \in Seq(SocketMessages)
      BY <2>3, <2>7, <3>3, SocketAfter
    <3>5. SocketFollows'
      BY <2>5, <3>2, <3>4 DEF SocketFollows
    <3>6. UsbFollows' /\ aoa'.queue \in Seq(HidMessages)
      BY <1>1, <2>7 DEF UsbFollows, DataOK
    <3> QED BY <2>5, <3>2, <3>4, <3>5, <3>6 DEF Sides
  <2>8. SocketGoal'.set = n
    BY <2>1 DEF SocketGoal, NoHid
  <2>9. CASE mode = "sdk"
    <3> DEFINE msg == [type |-> "key", n |-> n]
    <3>1. ToController(<<clipboard, msg>>) /\ UNCHANGED <<kb, aoa, lossy>>
      BY <1>3, <2>9 DEF ProcessCtrlV
    <3>2. msg \in [type : {"key"}, n : Nat] /\ msg.type = "key" /\ msg.n = n
      BY <1>0
    <3> HIDE DEF msg
    <3>3. msg \in SocketMessages
      BY <2>9, <3>2 DEF SocketMessages, Messages, PlainMessages
    <3>4. Neutral(SocketGoal', msg, FALSE)
      BY <1>0, <2>3, <2>8, <3>2 DEF Neutral, Legal, After, Views
    <3>5. /\ <<msg>> \in Seq(SocketMessages) /\ Len(<<msg>>) \in 1..2
          /\ \A i \in 1..Len(<<msg>>) : <<msg>>[i] = msg
      BY <3>3
    <3>6. <<clipboard>> \o <<msg>> = <<clipboard, msg>>
      BY <2>3, <3>3, TwoInARow
    <3>7. Sides
      BY <2>7, <2>9, <3>1, <3>4, <3>5, <3>6
    <3> QED BY <1>0, <2>1, <2>2, <3>1, <3>7 DEF Fields
  <2>10. CASE mode = "uhid"
    <3> DEFINE reports == Inputs(UhidReports("v", keys, n), 0)
    <3>1. /\ kb' = [kb EXCEPT !.keys = keys, !.lock = UhidLock("v")]
          /\ ToController(<<clipboard>> \o reports) /\ UNCHANGED aoa
          /\ lossy' = [lossy EXCEPT !.report =
                         @ \/ Overflows(queue, <<clipboard>> \o reports)]
      BY <1>3, <2>10 DEF ProcessCtrlV
    <3>2. KeyMessages(reports, n, 0)
      <4>1. UhidReports("v", keys, n) \in KeyReports(keys, n)
        BY KeyReportsAre
      <4> QED BY <1>0, <4>1, KeyInputs
    <3>3. Fields
      BY <1>0, <3>1 DEF Fields, Overflows
    <3> HIDE DEF reports
    <3>4. /\ reports \in Seq(HidMessages) /\ Len(reports) \in 1..2
          /\ \A i \in 1..Len(reports) : KeyInput(reports[i], n) /\ reports[i].ack = 0
      BY <3>2 DEF KeyMessages
    <3>5. reports \in Seq(SocketMessages)
      <4>1. \A i \in 1..Len(reports) : reports[i] \in SocketMessages
        BY <2>10, <3>4 DEF KeyInput, SocketMessages, Messages
      <4> QED BY <3>4, <4>1
    <3>6. <<Keyboard, None>> \in SocketGoal'.hid
      BY <1>1, <2>5, <2>10, RegisteredHas DEF SocketGoal
    <3>7. \A i \in 1..Len(reports) : Neutral(SocketGoal', reports[i], FALSE)
      <4> HIDE DEF n
      <4>1. n <= SocketGoal'.set
        BY <1>0, <2>8
      <4> QED BY <1>0, <2>3, <3>4, <3>6, <4>1, KeyNeutral
    <3>8. Sides
      BY <2>7, <2>10, <3>1, <3>4, <3>5, <3>7
    <3> QED BY <2>1, <2>2, <3>3, <3>8
  <2>11. CASE mode = "aoa"
    <3> DEFINE events == Inputs(AoaReports(keys, n), clipboard.sequence)
    <3>1. /\ kb' = [kb EXCEPT !.keys = keys, !.synchronized = AoaSynchronized]
          /\ ToController(<<clipboard>>) /\ ToAoa(events)
          /\ lossy' = [lossy EXCEPT !.report = @ \/ Overflows(aoa.queue, events)]
      BY <1>3, <2>11 DEF ProcessCtrlV
    <3>2. KeyMessages(events, n, n)
      <4>1. AoaReports(keys, n) \in KeyReports(keys, n)
        BY KeyReportsAre
      <4>2. clipboard.sequence = n
        BY <2>4, <2>11 DEF Acked
      <4> QED BY <1>0, <4>1, <4>2, KeyInputs
    <3>3. /\ Fields /\ (Overflows(aoa.queue, events) => lossy'.report)
          /\ lossy'.report \in BOOLEAN
      BY <1>0, <3>1 DEF Fields, Overflows
    <3> HIDE DEF events
    <3>4. queue' = r /\ (controller' = "ended" <=> controller = "ended")
      BY <2>6, <3>1, OfferOne DEF ToController, SignalIfWasEmpty, Wake
    <3>5. SocketFollows' /\ queue' \in Seq(SocketMessages')
      BY <2>3, <2>5, <3>4 DEF SocketFollows
    <3>6. UsbFollows'
      <4>1. ASSUME NEW p \in Seq(Messages), NEW s \in Views, NEW e \in Views, UsbGoal(e),
                   Leads(s, p \o aoa.queue, e, lossy'.report)
            PROVE  \E f \in Views :
                      /\ Leads(s, p \o OfferAll(aoa.queue, events), f, lossy'.report)
                      /\ UsbGoal(f)'
        <5> HIDE DEF n
        <5> QED BY <1>0, <1>1, <2>1, <2>11, <3>2, <3>3, <4>1, UsbCtrlV DEF Fields
      <4> QED BY <1>1, <3>1, <3>3, <4>1, UsbPushed DEF Fields
    <3>7. aoa'.queue \in Seq(HidMessages)
      <4>1. aoa'.queue = OfferAll(aoa.queue, events)
        BY <3>1 DEF ToAoa, CInv, TypeInv
      <4>2. events \in Seq(HidMessages) /\ Len(events) \in 1..3
        BY <3>2 DEF KeyMessages
      <4> QED BY <4>1, <4>2, OfferAllType DEF DataOK
    <3> QED BY <2>1, <2>2, <3>3, <3>5, <3>6, <3>7 DEF Sides
  <2> QED BY <2>9, <2>10, <2>11 DEF CInv, TypeInv
<1> QED BY <1>2, <1>3 DEF CtrlV

-----------------------------------------------------------------------------
(* The mouse.                                                              *)

(* A request is pushed. *)
LEMMA RequestSides ==
  ASSUME DataOK, SocketFollows, UsbFollows,
         UNCHANGED <<mode, device, slots, im, aoa, lossy>>,
         NEW msg \in Requests, ToController(<<msg>>)
  PROVE  Sides
<1>1. SocketGoal \in Views /\ lossy.report \in BOOLEAN
  BY ViewTypes DEF DataOK
<1>2. /\ Neutral(SocketGoal, msg, FALSE)
      /\ <<msg>> \in Seq(SocketMessages) /\ Len(<<msg>>) \in 1..3
      /\ \A i \in 1..Len(<<msg>>) : <<msg>>[i] = msg
  BY <1>1, RequestsNeutral
<1> QED BY <1>1, <1>2, SocketSides

(* A HID mouse pushes its report. *)
LEMMA ToMouseSides ==
  ASSUME CInv, DataOK, SocketFollows, UsbFollows, mode # "sdk",
         UNCHANGED <<mode, device, slots, im, lossy>>, ToMouse
  PROVE  Sides
<1>1. /\ MouseInput \in HidMessages /\ MouseInput.type = "input"
      /\ MouseInput.report = None /\ MouseInput.ack = 0
      /\ MouseInput.id = Mouse /\ MouseInput.pad = None
  BY DEF MouseInput, Input, HidMessages, Mouse
<1>2. <<MouseInput.id, MouseInput.pad>> \in Registered
  BY <1>1, RegisteredHas
<1>3. ToHid(<<MouseInput>>)
  BY DEF ToMouse
<1> HIDE DEF MouseInput
<1> QED BY <1>1, <1>2, <1>3, ToHidSides

(* The virtual finger's events. *)
LEMMA FingerIs ==
  ASSUME mode = "sdk", NEW action \in {"down", "move", "up"}
  PROVE  /\ Finger(action) \in SocketMessages /\ Finger(action).type = "finger"
         /\ Finger(action).action = action
<1>1. /\ Finger(action) \in [type : {"finger"}, action : {"down", "move", "up"}]
      /\ Finger(action).type = "finger" /\ Finger(action).action = action
  BY DEF Finger
<1> HIDE DEF Finger
<1> QED BY <1>1 DEF SocketMessages, Messages, PlainMessages

LEMMA InjectAlone == <<Inject>> \o <<>> = <<Inject>>
OBVIOUS

(* The virtual finger moves only when it is down. *)
LEMMA MotionSides ==
  ASSUME CInv, DataOK, SocketFollows, UsbFollows, Motion
  PROVE  Sides
<1>1. UNCHANGED <<mode, device, slots, im, kb, lossy>>
  BY DEF Motion, Event
<1>2. CASE mode # "sdk"
  BY <1>1, <1>2, ToMouseSides DEF Motion
<1>3. CASE mode = "sdk" /\ ~im.vfinger
  <2>1. ToController(<<Inject>>) /\ UNCHANGED aoa
    BY <1>3, InjectAlone DEF Motion
  <2> QED BY <1>1, <2>1, RequestSides DEF Requests
<1>4. CASE mode = "sdk" /\ im.vfinger
  <2> DEFINE msg == Finger("move")
  <2>1. ToController(<<Inject>> \o <<msg>>) /\ UNCHANGED aoa
    BY <1>4 DEF Motion
  <2>2. msg \in SocketMessages /\ msg.type = "finger" /\ msg.action = "move"
    BY <1>4, FingerIs
  <2>3. SocketGoal \in Views /\ im.vfinger \in BOOLEAN /\ lossy.report \in BOOLEAN
    BY ViewTypes DEF DataOK
  <2>4. SocketGoal.finger = TRUE
    BY <1>4, <2>3 DEF SocketGoal
  <2> HIDE DEF msg
  <2>5. Neutral(SocketGoal, msg, FALSE)
    BY <2>2, <2>3, <2>4 DEF Neutral, Legal, After, Views
  <2>6. Inject \in SocketMessages /\ Neutral(SocketGoal, Inject, FALSE)
    BY <2>3, RequestsNeutral DEF Requests
  <2>7. <<Inject>> \o <<msg>> = <<Inject, msg>>
    BY <2>2, <2>6, TwoInARow
  <2> DEFINE msgs == <<Inject, msg>>
  <2>8. msgs \in Seq(SocketMessages) /\ Len(msgs) = 2 /\ msgs[1] = Inject /\ msgs[2] = msg
    BY <2>2, <2>6
  <2>9. ToController(msgs)
    BY <2>1, <2>7
  <2> HIDE DEF msgs
  <2>10. Len(msgs) \in 1..3 /\ \A i \in 1..Len(msgs) : Neutral(SocketGoal, msgs[i], FALSE)
    <3>1. ASSUME NEW i \in 1..Len(msgs) PROVE msgs[i] = Inject \/ msgs[i] = msg
      BY <2>8
    <3>2. ASSUME NEW i \in 1..Len(msgs) PROVE Neutral(SocketGoal, msgs[i], FALSE)
      BY <2>5, <2>6, <3>1, Zenon
    <3>3. Len(msgs) \in 1..3
      BY <2>8
    <3> QED BY <3>2, <3>3, Zenon
  <2> QED BY <1>1, <2>1, <2>3, <2>8, <2>9, <2>10, SocketSides
<1>5. im.vfinger \in BOOLEAN
  BY DEF DataOK
<1> QED BY <1>2, <1>3, <1>4, <1>5

(* The virtual finger is what it is on the device once all is received. *)
LEMMA ClickSides ==
  ASSUME CInv, DataOK, SocketFollows, UsbFollows, NEW mod \in BOOLEAN, Click(mod)
  PROVE  /\ Sides
         /\ im' \in [paused : BOOLEAN, vfinger : BOOLEAN, sequence : Nat, pastes : Nat]
         /\ im'.sequence = im.sequence /\ im'.pastes = im.pastes
<1>1. UNCHANGED <<mode, device, slots, kb, lossy>>
  BY DEF Click, Event
<1>2. /\ im \in [paused : BOOLEAN, vfinger : BOOLEAN, sequence : Nat, pastes : Nat]
      /\ lossy.report \in BOOLEAN
  BY DEF DataOK
<1>3. CASE im.paused
  <2>1. UNCHANGED <<im, queue, controller, aoa>>
    BY <1>3 DEF Click
  <2> QED BY <1>1, <1>2, <2>1, SidesKept
<1>4. CASE ~im.paused /\ mode # "sdk"
  <2>1. ToMouse /\ UNCHANGED im
    BY <1>4 DEF Click
  <2> QED BY <1>1, <1>2, <1>4, <2>1, ToMouseSides
<1>5. CASE ~im.paused /\ mode = "sdk"
  <2> DEFINE down == ~user.button
             change == (down /\ ~im.vfinger /\ mod) \/ (~down /\ im.vfinger)
             action == IF down THEN "down" ELSE "up"
  <2>1. ClickSdk(down, mod) /\ UNCHANGED aoa
    BY <1>5 DEF Click
  <2>2. CASE ~change
    <3>1. ToController(<<Inject>>) /\ im' = im
      <4>1. /\ ToController(<<Inject>> \o <<>>)
            /\ im' = [im EXCEPT !.vfinger = im.vfinger]
        BY <2>1, <2>2 DEF ClickSdk
      <4> QED BY <1>2, <4>1, InjectAlone
    <3> QED BY <1>1, <1>2, <2>1, <3>1, RequestSides DEF Requests
  <2>3. CASE change
    <3> DEFINE msg == Finger(action)
    <3>1. /\ ToController(<<Inject>> \o <<msg>>)
          /\ im' = [im EXCEPT !.vfinger =
                      IF Overflows(queue, <<Inject>> \o <<msg>>) THEN im.vfinger ELSE down]
      BY <2>1, <2>3 DEF ClickSdk, VFinger
    <3>2. /\ msg \in SocketMessages /\ msg.type = "finger" /\ msg.action = action
          /\ action \in {"down", "up"}
      BY <1>5, FingerIs
    <3>3. SocketGoal \in Views
      BY ViewTypes
    <3>4. Inject \in SocketMessages /\ Neutral(SocketGoal, Inject, FALSE)
      BY <3>3, RequestsNeutral DEF Requests
    <3> HIDE DEF msg
    <3>5. <<Inject>> \o <<msg>> = <<Inject, msg>>
      BY <3>2, <3>4, TwoInARow
    <3> DEFINE q == Offer(queue, Inject)
               r == Offer(q, msg)
               lost == Overflows(queue, <<Inject, msg>>)
    <3>6. OfferAll(queue, <<Inject, msg>>) = r
      BY OfferTwo
    <3>7. queue \in Seq(SocketMessages) /\ q \in Seq(SocketMessages) /\ r \in Seq(SocketMessages)
      BY <3>2, <3>4, OfferType DEF DataOK
    <3>8. (lost <=> ~Fits(q, msg)) /\ Inject.type = "inject"
      <4>1. Len(<<Inject, msg>>) = 2 /\ Inject.type = "inject"
        BY DEF Inject
      <4>2. lost <=> Len(r) < Len(queue) + 2
        BY <3>6, <4>1 DEF Overflows
      <4>3. Limit \in Nat /\ Len(queue) \in Nat /\ queue \in Seq(SocketMessages)
        BY <3>7, ControlAssumption
      <4>4. Droppable(Inject) /\ Droppable(msg)
        BY <3>2, <4>1 DEF Droppable
      <4> HIDE DEF lost
      <4>5. CASE Len(queue) < Limit
        <5>1. Len(q) = Len(queue) + 1
          BY <3>4, <4>3, <4>5 DEF Offer, Fits
        <5>2. r = IF Len(q) < Limit THEN Append(q, msg) ELSE q
          BY <4>4 DEF Offer, Fits
        <5> HIDE DEF q, r
        <5>3. CASE Len(q) < Limit
          <6>1. Len(r) = Len(q) + 1 /\ Fits(q, msg)
            BY <3>2, <3>7, <5>2, <5>3 DEF Fits
          <6> QED BY <4>1, <4>2, <4>3, <5>1, <6>1
        <5>4. CASE ~(Len(q) < Limit)
          <6>1. Len(r) = Len(q) /\ ~Fits(q, msg)
            BY <4>4, <5>2, <5>4 DEF Fits
          <6> QED BY <4>1, <4>2, <4>3, <5>1, <6>1
        <5> QED BY <5>3, <5>4
      <4>6. CASE ~(Len(queue) < Limit)
        <5>1. q = queue /\ r = queue /\ ~Fits(q, msg)
          BY <4>4, <4>6 DEF Offer, Fits
        <5> QED BY <4>1, <4>2, <4>3, <5>1
      <4> QED BY <4>5, <4>6
    <3>9. /\ im' \in [paused : BOOLEAN, vfinger : BOOLEAN, sequence : Nat, pastes : Nat]
          /\ im'.sequence = im.sequence /\ im'.pastes = im.pastes
          /\ im'.vfinger = IF lost THEN im.vfinger ELSE down
      <4>1. im' = [im EXCEPT !.vfinger = IF lost THEN im.vfinger ELSE down]
        BY <3>1, <3>5
      <4> HIDE DEF lost
      <4> QED BY <1>2, <4>1
    <3> HIDE DEF lost
    <3>10. queue' = r /\ (controller' = "ended" <=> controller = "ended")
      BY <3>1, <3>5, <3>6 DEF ToController, SignalIfWasEmpty, Wake
    <3>11. /\ Registered' = Registered /\ SocketMessages' = SocketMessages
           /\ SocketView' = SocketView
      BY <1>1 DEF Registered, SocketMessages, SocketView, NoHid, ViewOf, Slots
    <3>12. ASSUME controller # "ended" PROVE Leads(SocketView, r, SocketGoal', FALSE)
      <4>1. queue \in Seq(Messages) /\ <<>> \in Seq(Messages) /\ q \in Seq(Messages)
            /\ Inject \in Messages /\ msg \in Messages
        <5> HIDE DEF q
        <5>1. queue \in Seq(Messages) /\ q \in Seq(Messages)
          BY <3>7, SocketMessagesAre
        <5>2. Inject \in Messages /\ msg \in Messages
          BY <3>2, <3>4 DEF SocketMessages
        <5> QED BY <5>1, <5>2
      <4>2. Leads(SocketView, q, SocketGoal, FALSE)
        <5>1. <<>> \o queue = queue /\ <<>> \o q = q
          BY <4>1
        <5>2. Leads(SocketView, <<>> \o queue, SocketGoal, FALSE)
          BY <3>12, <5>1 DEF SocketFollows
        <5>3. Leads(SocketView, <<>> \o Offer(queue, Inject), SocketGoal, FALSE)
          BY <3>4, <4>1, <5>2, LeadsOffer
        <5> QED BY <5>1, <5>3
      <4>3. CASE lost
        <5>1. SocketGoal' = SocketGoal
          BY <1>1, <1>5, <3>9, <3>11, <4>3 DEF SocketGoal
        <5>2. r = q
          BY <3>8, <4>3 DEF Offer
        <5> QED BY <4>2, <5>1, <5>2
      <4>4. CASE ~lost
        <5> HIDE DEF q
        <5>1. r = Append(q, msg)
          BY <3>8, <4>4 DEF Offer
        <5>2. SocketGoal.finger = im.vfinger /\ im.vfinger \in BOOLEAN
              /\ SocketGoal' = [hid |-> SocketGoal.hid, finger |-> down, set |-> SocketGoal.set]
          BY <1>1, <1>2, <1>5, <3>9, <3>11, <4>4 DEF SocketGoal
        <5>3. After(SocketGoal, msg) = [hid |-> SocketGoal.hid, finger |-> action # "up",
                                        set |-> SocketGoal.set]
          BY <3>2 DEF After
        <5>4. action # "up" <=> down
          OBVIOUS
        <5>5. After(SocketGoal, msg) = SocketGoal'
          <6>1. (action # "up") = down
            BY <5>4
          <6> QED BY <5>2, <5>3, <6>1
        <5>6. Legal(SocketGoal, msg, FALSE)
          <6>1. CASE down
            <7>1. im.vfinger = FALSE /\ action = "down"
              BY <1>2, <2>3, <6>1
            <7> QED BY <3>2, <5>2, <7>1 DEF Legal
          <6>2. CASE ~down
            <7>1. im.vfinger = TRUE /\ action = "up"
              BY <1>2, <2>3, <6>2
            <7> QED BY <3>2, <5>2, <7>1 DEF Legal
          <6> QED BY <6>1, <6>2
        <5>7. Leads(SocketView, Append(q, msg), After(SocketGoal, msg), FALSE)
          BY <4>1, <4>2, <5>6, LeadsAppend
        <5> QED BY <5>1, <5>5, <5>7
      <4> QED BY <4>3, <4>4
    <3>13. SocketFollows' /\ queue' \in Seq(SocketMessages')
      BY <3>7, <3>10, <3>11, <3>12 DEF SocketFollows
    <3>14. UsbFollows' /\ aoa'.queue \in Seq(HidMessages)
      BY <1>1, <1>5, <2>1 DEF UsbFollows, DataOK
    <3> QED BY <3>9, <3>13, <3>14 DEF Sides
  <2> QED BY <2>2, <2>3
<1> QED BY <1>3, <1>4, <1>5

-----------------------------------------------------------------------------
(* The gamepads.                                                           *)

(* A HID device is opened or closed: the message is never dropped. *)
LEMMA ToHidChanges ==
  ASSUME CInv, DataOK, SocketFollows, UsbFollows, mode # "sdk",
         UNCHANGED <<mode, device, im, lossy>>,
         NEW msg \in HidMessages, msg.type \in {"create", "destroy"},
         msg.type = "create" =>
           /\ \A p \in Pads \cup {None} : <<msg.id, p>> \notin Registered
           /\ Registered' = Registered \cup {<<msg.id, msg.pad>>},
         msg.type = "destroy" =>
           /\ <<msg.id, msg.pad>> \in Registered
           /\ Registered' = Registered \ {<<msg.id, msg.pad>>},
         ToHid(<<msg>>)
  PROVE  Sides
<1>0. msg \in Messages /\ lossy.report \in BOOLEAN
  BY DEF Messages, DataOK
<1>1. ASSUME NEW e \in Views, e.hid = Registered, NEW late
      PROVE  /\ Legal(e, msg, late)
             /\ After(e, msg) = [hid |-> Registered', finger |-> e.finger, set |-> e.set]
             /\ After(e, msg) \in Views
  <2>1. Legal(e, msg, late)
    BY <1>1 DEF Legal
  <2>2. After(e, msg) = [hid |-> Registered', finger |-> e.finger, set |-> e.set]
    BY <1>1 DEF After
  <2> QED BY <1>0, <2>1, <2>2, AfterType
<1>2. ASSUME NEW q PROVE OfferAll(q, <<msg>>) = Append(q, msg)
  <2>1. Fits(q, msg)
    BY DEF Fits, Droppable
  <2> QED BY <2>1, OfferOne DEF Offer
<1>3. SocketMessages' = SocketMessages /\ SocketView' = SocketView
  BY DEF SocketMessages, SocketView, NoHid, ViewOf
<1>4. CASE mode = "uhid"
  <2>1. ToController(<<msg>>) /\ UNCHANGED aoa
    BY <1>4 DEF ToHid
  <2>2. queue' = Append(queue, msg) /\ (controller' = "ended" <=> controller = "ended")
    BY <1>2, <2>1 DEF ToController, SignalIfWasEmpty, Wake
  <2>3. msg \in SocketMessages /\ queue' \in Seq(SocketMessages)
    BY <1>0, <1>4, <2>2 DEF SocketMessages, DataOK
  <2>4. SocketGoal \in Views /\ SocketGoal.hid = Registered
    BY <1>4, ViewTypes DEF SocketGoal
  <2>5. After(SocketGoal, msg) = SocketGoal' /\ Legal(SocketGoal, msg, FALSE)
    BY <1>1, <1>4, <2>4 DEF SocketGoal
  <2>6. controller # "ended" => Leads(SocketView, queue', SocketGoal', FALSE)
    <3>1. queue \in Seq(Messages)
      BY SocketMessagesAre DEF DataOK
    <3> QED BY <1>0, <2>2, <2>5, <3>1, LeadsAppend DEF SocketFollows
  <2>7. UsbFollows' /\ aoa'.queue \in Seq(HidMessages)
    BY <1>4, <2>1 DEF UsbFollows, DataOK
  <2> QED BY <1>3, <2>2, <2>3, <2>6, <2>7 DEF Sides, SocketFollows
<1>5. CASE mode = "aoa"
  <2>1. ToAoa(<<msg>>) /\ UNCHANGED <<queue, controller>>
    BY <1>5 DEF ToHid
  <2>2. SocketGoal' = SocketGoal
    BY <1>5 DEF SocketGoal, NoHid
  <2>3. SocketFollows' /\ queue' \in Seq(SocketMessages')
    BY <1>3, <2>1, <2>2, SocketKept DEF DataOK
  <2>4. aoa'.queue = Append(aoa.queue, msg)
    BY <1>2, <2>1 DEF ToAoa, CInv, TypeInv
  <2>5. ASSUME NEW p \in Seq(Messages), NEW s \in Views, NEW e \in Views, UsbGoal(e),
               Leads(s, p \o aoa.queue, e, lossy'.report)
        PROVE  \E f \in Views : /\ Leads(s, p \o OfferAll(aoa.queue, <<msg>>), f, lossy'.report)
                                /\ UsbGoal(f)'
    <3> DEFINE f == After(e, msg)
    <3>1. /\ f = [hid |-> Registered', finger |-> e.finger, set |-> e.set]
          /\ f \in Views /\ Legal(e, msg, lossy'.report)
      BY <1>1, <2>5 DEF UsbGoal
    <3>2. UsbGoal(f)'
      BY <2>5, <3>1 DEF UsbGoal
    <3> HIDE DEF f
    <3>3. aoa.queue \in Seq(Messages)
      BY HidMessagesAre DEF DataOK
    <3>4. p \o aoa.queue \in Seq(Messages)
          /\ p \o Append(aoa.queue, msg) = Append(p \o aoa.queue, msg)
      BY <1>0, <3>3
    <3>5. Leads(s, p \o Append(aoa.queue, msg), f, lossy'.report)
      <4> DEFINE q == p \o aoa.queue
                 late == lossy'.report
      <4>1. q \in Seq(Messages) /\ Leads(s, q, e, late) /\ Legal(e, msg, late)
        BY <2>5, <3>1, <3>4
      <4>2. p \o Append(aoa.queue, msg) = Append(q, msg)
        BY <3>4
      <4> HIDE DEF q, late
      <4>3. Leads(s, Append(q, msg), After(e, msg), late)
        BY <1>0, <4>1, LeadsAppend
      <4> QED BY <4>2, <4>3 DEF f, late
    <3> QED BY <1>2, <3>1, <3>2, <3>5
  <2>6. UsbFollows'
    BY <1>0, <2>1, <2>5, UsbPushed
  <2> QED BY <2>3, <2>4, <2>6 DEF Sides, DataOK
<1> QED BY <1>4, <1>5 DEF CInv, TypeInv

(* What is left of the slots. *)
SlotsOK ==
  /\ slots' \in [Slots -> Pads \cup {None}]
  /\ mode = "sdk" => \A s \in Slots : slots'[s] = None

(* A gamepad is connected: a slot is free, or none is. *)
LEMMA AddedSides ==
  ASSUME CInv, DataOK, SocketFollows, UsbFollows, NEW pad \in Pads, GamepadAdded(pad)
  PROVE  Sides /\ SlotsOK
<1>1. mode # "sdk" /\ UNCHANGED <<mode, device, im, kb, lossy>>
  BY DEF GamepadAdded, Event
<1>2. CASE SlotsOf(None) = {}
  <2>1. UNCHANGED <<slots, queue, controller, aoa>>
    BY <1>2 DEF GamepadAdded
  <2>2. lossy.report \in BOOLEAN
    BY DEF DataOK
  <2> QED BY <1>1, <2>1, <2>2, SidesKept DEF SlotsOK, DataOK
<1>3. CASE SlotsOf(None) # {}
  <2> DEFINE s == SlotOf(None)
             msg == Create(Gamepad(s), pad)
  <2>1. s \in Slots /\ slots[s] = None
    BY <1>3, SlotOfIs
  <2>2. slots' = [slots EXCEPT ![s] = pad] /\ ToHid(<<msg>>)
    BY <1>3 DEF GamepadAdded
  <2> HIDE DEF s
  <2>3. /\ Registered' = Registered \cup {<<Gamepad(s), pad>>}
        /\ \A p : <<Gamepad(s), p>> \notin Registered
    BY <1>1, <2>1, <2>2, RegisteredAdds
  <2>4. /\ msg \in HidMessages /\ msg.type = "create" /\ msg.id = Gamepad(s)
        /\ msg.pad = pad
    <3>1. Gamepad(s) \in Nat
      BY <2>1, ControlAssumption DEF Gamepad, Slots
    <3> QED BY <3>1 DEF Create, HidMessages
  <2> HIDE DEF msg
  <2>5. Sides
    BY <1>1, <2>2, <2>3, <2>4, ToHidChanges
  <2>6. SlotsOK
    BY <1>1, <2>1, <2>2 DEF SlotsOK, DataOK
  <2> QED BY <2>5, <2>6
<1> QED BY <1>2, <1>3

(* A gamepad is disconnected: it had a slot, or had none. *)
LEMMA RemovedSides ==
  ASSUME CInv, DataOK, SocketFollows, UsbFollows, NEW pad \in Pads, GamepadRemoved(pad)
  PROVE  Sides /\ SlotsOK
<1>1. UNCHANGED <<mode, device, im, kb, lossy>>
  BY DEF GamepadRemoved, Event
<1>2. CASE SlotsOf(pad) = {}
  <2>1. UNCHANGED <<slots, queue, controller, aoa>>
    BY <1>2 DEF GamepadRemoved
  <2>2. lossy.report \in BOOLEAN
    BY DEF DataOK
  <2> QED BY <1>1, <2>1, <2>2, SidesKept DEF SlotsOK, DataOK
<1>3. CASE SlotsOf(pad) # {}
  <2> DEFINE s == SlotOf(pad)
             msg == Destroy(Gamepad(s), pad)
  <2>1. s \in Slots /\ slots[s] = pad
    BY <1>3, SlotOfIs
  <2>2. slots' = [slots EXCEPT ![s] = None] /\ ToHid(<<msg>>)
    BY <1>3 DEF GamepadRemoved
  <2> HIDE DEF s
  <2>3. mode # "sdk"
    BY <2>1, ControlAssumption DEF DataOK
  <2>4. /\ Registered' = Registered \ {<<Gamepad(s), pad>>}
        /\ <<Gamepad(s), pad>> \in Registered
    BY <1>1, <2>1, <2>2, <2>3, RegisteredRemoves
  <2>5. /\ msg \in HidMessages /\ msg.type = "destroy" /\ msg.id = Gamepad(s)
        /\ msg.pad = pad
    <3>1. Gamepad(s) \in Nat
      BY <2>1, ControlAssumption DEF Gamepad, Slots
    <3> QED BY <3>1 DEF Destroy, HidMessages
  <2> HIDE DEF msg
  <2>6. Sides
    BY <1>1, <2>2, <2>3, <2>4, <2>5, ToHidChanges
  <2>7. SlotsOK
    BY <2>1, <2>2, <2>3 DEF SlotsOK, DataOK
  <2> QED BY <2>6, <2>7
<1> QED BY <1>2, <1>3

(* An axis or a button of a gamepad that has a slot. *)
LEMMA PadInputSides ==
  ASSUME CInv, DataOK, SocketFollows, UsbFollows, NEW pad \in Pads, GamepadInput(pad)
  PROVE  Sides
<1> DEFINE s == SlotOf(pad)
           msg == Input(Gamepad(s), pad, None, 0)
<1>1. /\ UNCHANGED <<mode, device, slots, im, lossy>> /\ SlotsOf(pad) # {}
      /\ ToHid(<<msg>>)
  BY DEF GamepadInput, Event
<1>2. s \in Slots /\ slots[s] = pad /\ pad # None
  BY <1>1, SlotOfIs, ControlAssumption
<1> HIDE DEF s
<1>3. mode # "sdk"
  BY <1>2 DEF DataOK
<1>4. <<Gamepad(s), pad>> \in Registered
  BY <1>2, <1>3, RegisteredHas
<1>5. /\ msg \in HidMessages /\ msg.type = "input" /\ msg.report = None /\ msg.ack = 0
      /\ msg.id = Gamepad(s) /\ msg.pad = pad
  <2>1. Gamepad(s) \in Nat
    BY <1>2, ControlAssumption DEF Gamepad, Slots
  <2> QED BY <2>1 DEF Input, HidMessages
<1> HIDE DEF msg
<1> QED BY <1>1, <1>3, <1>4, <1>5, ToHidSides

-----------------------------------------------------------------------------
(* An event of the user.                                                   *)

InputOK ==
  /\ im' \in [paused : BOOLEAN, vfinger : BOOLEAN, sequence : Nat, pastes : Nat]
  /\ mode = "aoa" => im'.sequence = im'.pastes + 1

HandlerOK == Sides /\ Fields /\ SlotsOK /\ InputOK

(* What a handler does not touch. *)
LEMMA FieldsKept ==
  ASSUME DataOK, Acked
  PROVE  /\ UNCHANGED <<kb, lossy>> => Fields
         /\ UNCHANGED slots => SlotsOK
         /\ UNCHANGED im => InputOK
<1>1. ASSUME UNCHANGED <<kb, lossy>> PROVE Fields
  BY <1>1 DEF DataOK, Fields
<1>2. ASSUME UNCHANGED slots PROVE SlotsOK
  BY <1>2 DEF DataOK, SlotsOK
<1>3. ASSUME UNCHANGED im PROVE InputOK
  BY <1>3 DEF DataOK, Acked, InputOK
<1> QED BY <1>1, <1>2, <1>3

(* Every handler of the main thread leaves the sides as they should be. *)
LEMMA UserHandlers ==
  ASSUME FInv, UserInput
  PROVE  HandlerOK
<1>0. CInv /\ DataOK /\ SocketFollows /\ UsbFollows /\ Acked
  BY DEF FInv
<1>1. ASSUME NEW k \in {"caps", "v"}, Key(k) PROVE HandlerOK
  <2>1. UNCHANGED <<mode, device, slots, im>>
    BY <1>1 DEF Key, Event
  <2>2. CASE im.paused
    <3>1. /\ lossy' = [lossy EXCEPT !.lock = @ \/ k = "caps"]
          /\ UNCHANGED <<kb, queue, controller, aoa>>
      BY <1>1, <2>2 DEF Key
    <3>2. lossy'.usb = lossy.usb /\ lossy'.report = lossy.report /\ lossy'.report \in BOOLEAN
          /\ lossy' \in [report : BOOLEAN, lock : BOOLEAN, usb : BOOLEAN]
      BY <1>0, <3>1 DEF DataOK
    <3>3. Sides
      BY <1>0, <2>1, <3>1, <3>2, SidesKept
    <3>4. Fields
      BY <1>0, <3>1, <3>2 DEF Fields, DataOK
    <3> QED BY <1>0, <2>1, <3>3, <3>4, FieldsKept DEF HandlerOK
  <2>3. CASE ~im.paused
    <3> DEFINE keys == IF k \notin user.held THEN kb.keys \cup {k} ELSE kb.keys \ {k}
    <3>1. ProcessKey(k, keys, im.pastes)
      BY <1>1, <2>3 DEF Key
    <3>2. keys \in SUBSET {"caps", "v"}
      BY <1>0 DEF DataOK
    <3> HIDE DEF keys
    <3>3. Sides /\ Fields
      BY <1>0, <2>1, <3>1, <3>2, ProcessKeySides
    <3> QED BY <1>0, <2>1, <3>3, FieldsKept DEF HandlerOK
  <2> QED BY <2>2, <2>3
<1>2. CASE CtrlV
  <2>1. /\ Sides /\ Fields /\ (mode = "aoa" => im'.sequence = im'.pastes + 1)
        /\ im' \in [paused : BOOLEAN, vfinger : BOOLEAN, sequence : Nat, pastes : Nat]
    BY <1>0, <1>2, CtrlVSides
  <2>2. UNCHANGED slots
    BY <1>2 DEF CtrlV
  <2> QED BY <1>0, <2>1, <2>2, FieldsKept DEF HandlerOK, InputOK
<1>3. ASSUME NEW msg \in Requests, ToController(<<msg>>),
             UNCHANGED <<mode, device, im, kb, slots, aoa, lossy>>
      PROVE  HandlerOK
  BY <1>0, <1>3, RequestSides, FieldsKept DEF HandlerOK
<1>4. ASSUME NEW msg \in Requests, Request(msg) PROVE HandlerOK
  BY <1>3, <1>4 DEF Request, Event
<1>5. CASE TextInput \/ Touch
  <2>1. ToController(<<Inject>>) /\ UNCHANGED <<mode, device, im, kb, slots, aoa, lossy>>
    BY <1>5 DEF TextInput, Touch, Event
  <2>2. Inject \in Requests
    BY DEF Requests
  <2> QED BY <1>3, <2>1, <2>2
<1>6. CASE TogglePause
  <2>1. /\ im' = [im EXCEPT !.paused = ~@]
        /\ UNCHANGED <<mode, device, kb, slots, queue, controller, aoa, lossy>>
    BY <1>6 DEF TogglePause, Event
  <2>2. im' \in [paused : BOOLEAN, vfinger : BOOLEAN, sequence : Nat, pastes : Nat]
        /\ im'.vfinger = im.vfinger /\ im'.pastes = im.pastes /\ im'.sequence = im.sequence
    BY <1>0, <2>1 DEF DataOK
  <2>3. SocketGoal' = SocketGoal /\ Registered' = Registered /\ SocketMessages' = SocketMessages
    BY <2>1, <2>2 DEF SocketGoal, Registered, NoHid, SocketMessages, Slots
  <2>4. lossy.report \in BOOLEAN
    BY <1>0 DEF DataOK
  <2>5. SocketFollows' /\ UsbFollows'
    BY <1>0, <2>1, <2>2, <2>3, <2>4, SocketKept, UsbKept
  <2>6. Sides
    BY <1>0, <2>1, <2>3, <2>5 DEF Sides, DataOK
  <2>7. InputOK
    BY <1>0, <2>2 DEF InputOK, Acked
  <2> QED BY <1>0, <2>1, <2>6, <2>7, FieldsKept DEF HandlerOK
<1>7. CASE Motion
  <2>1. UNCHANGED <<im, kb, slots, lossy>>
    BY <1>7 DEF Motion
  <2> QED BY <1>0, <1>7, <2>1, MotionSides, FieldsKept DEF HandlerOK
<1>8. CASE Wheel
  <2>1. UNCHANGED <<mode, device, im, kb, slots, lossy>>
    BY <1>8 DEF Wheel, Event
  <2>2. Inject \in Requests /\ lossy.report \in BOOLEAN
    BY <1>0 DEF Requests, DataOK
  <2>3. CASE ToController(<<Inject>>) /\ UNCHANGED aoa
    BY <1>3, <2>1, <2>2, <2>3
  <2>4. CASE mode # "sdk" /\ ToMouse
    BY <1>0, <2>1, <2>4, ToMouseSides, FieldsKept DEF HandlerOK
  <2>5. CASE UNCHANGED <<queue, controller, aoa>>
    BY <1>0, <2>1, <2>2, <2>5, SidesKept, FieldsKept DEF HandlerOK
  <2> QED BY <1>8, <2>3, <2>4, <2>5 DEF Wheel
<1>9. CASE ResizeDisplay
  <2>1. /\ UNCHANGED <<mode, device, im, kb, slots, queue, aoa, lossy>>
        /\ controller' = "ended" <=> controller = "ended"
    BY <1>9 DEF ResizeDisplay, Happens, outside, Wake
  <2>2. SocketGoal' = SocketGoal /\ Registered' = Registered /\ SocketMessages' = SocketMessages
    BY <2>1 DEF SocketGoal, Registered, NoHid, SocketMessages, Slots
  <2>3. lossy.report \in BOOLEAN
    BY <1>0 DEF DataOK
  <2>4. SocketFollows' /\ UsbFollows'
    BY <1>0, <2>1, <2>2, <2>3, SocketKept, UsbKept
  <2>5. Sides
    BY <1>0, <2>1, <2>2, <2>4 DEF Sides, DataOK
  <2> QED BY <1>0, <2>1, <2>5, FieldsKept DEF HandlerOK
<1>10. ASSUME NEW mod \in BOOLEAN, Click(mod) PROVE HandlerOK
  <2>1. UNCHANGED <<kb, slots, lossy>>
    BY <1>10 DEF Click
  <2>2. /\ Sides
        /\ im' \in [paused : BOOLEAN, vfinger : BOOLEAN, sequence : Nat, pastes : Nat]
        /\ im'.sequence = im.sequence /\ im'.pastes = im.pastes
    BY <1>0, <1>10, ClickSides
  <2>3. InputOK
    BY <1>0, <2>2 DEF InputOK, Acked
  <2> QED BY <1>0, <2>1, <2>2, <2>3, FieldsKept DEF HandlerOK
<1>11. ASSUME NEW pad \in Pads,
              GamepadAdded(pad) \/ GamepadRemoved(pad) \/ GamepadInput(pad)
       PROVE  HandlerOK
  <2>1. UNCHANGED <<im, kb, lossy>>
    BY <1>11 DEF GamepadAdded, GamepadRemoved, GamepadInput
  <2>2. Sides /\ SlotsOK
    <3>1. CASE GamepadAdded(pad)
      BY <1>0, <3>1, AddedSides
    <3>2. CASE GamepadRemoved(pad)
      BY <1>0, <3>2, RemovedSides
    <3>3. CASE GamepadInput(pad)
      BY <1>0, <3>3, PadInputSides, FieldsKept DEF GamepadInput
    <3> QED BY <1>11, <3>1, <3>2, <3>3
  <2> QED BY <1>0, <2>1, <2>2, FieldsKept DEF HandlerOK
<1> QED BY <1>1, <1>2, <1>4, <1>5, <1>6, <1>7, <1>8, <1>9, <1>10, <1>11 DEF UserInput

(* What no handler of the main thread touches. *)
LEMMA UserOutside ==
  ASSUME FInv, UserInput
  PROVE  /\ UNCHANGED <<mode, device, acksync, answers>>
         /\ UNCHANGED <<aoa.open, aoa.event>>
         /\ (aoa'.at = "ended" <=> aoa.at = "ended") /\ (aoa'.at = "ack" <=> aoa.at = "ack")
<1>1. CASE ResizeDisplay
  BY <1>1 DEF ResizeDisplay, Happens, outside
<1>2. CASE ~ResizeDisplay
  <2>1. UNCHANGED <<mode, device, acksync, answers>>
    BY <1>2 DEF UserInput, Key, CtrlV, Request, TextInput, TogglePause, Motion, Wheel, Touch,
                Click, GamepadAdded, GamepadRemoved, GamepadInput, Event
  <2>2. TypeInv
    BY DEF FInv, CInv
  <2>3. PushesToAoa
    BY <1>2, <2>2, UserPushes DEF Pushes
  <2>4. CASE UNCHANGED aoa
    BY <2>1, <2>4
  <2>5. ASSUME NEW q, aoa' = [aoa EXCEPT !.queue = q,
                                         !.at = SignalIfWasEmpty(@, aoa.queue, q)]
        PROVE  /\ UNCHANGED <<aoa.open, aoa.event>>
               /\ aoa'.at = SignalIfWasEmpty(aoa.at, aoa.queue, q)
    BY <2>2, <2>5 DEF TypeInv
  <2> QED BY <2>1, <2>3, <2>4, <2>5 DEF PushesToAoa, SignalIfWasEmpty, Wake
<1> QED BY <1>1, <1>2

(* Every event of the user preserves the invariant. *)
LEMMA UserFollows ==
  ASSUME FInv, UserInput, CInv'
  PROVE  FInv'
<1>1. HandlerOK
  BY UserHandlers
<1>2. /\ UNCHANGED <<mode, device, acksync, answers>>
      /\ UNCHANGED <<aoa.open, aoa.event>>
      /\ (aoa'.at = "ended" <=> aoa.at = "ended") /\ (aoa'.at = "ack" <=> aoa.at = "ack")
  BY UserOutside
<1>3. DataOK /\ Acked /\ DeviceCanFollow
  BY DEF FInv
<1>4. DataOK'
  BY <1>1, <1>2, <1>3 DEF DataOK, HandlerOK, Sides, Fields, SlotsOK, InputOK, AwaitsAck
<1>5. Acked'
  BY <1>1, <1>2, <1>3 DEF Acked, HandlerOK, InputOK
<1>6. DeviceCanFollow'
  BY <1>1, <1>2, <1>3 DEF DeviceCanFollow, HidDevicesMatch, FingerIsDown, PasteIsFresh,
                          HandlerOK, Fields
<1> QED BY <1>1, <1>4, <1>5, <1>6 DEF FInv, HandlerOK, Sides

-----------------------------------------------------------------------------
(* The controller and the receiver.                                        *)

(* What the device answers; an acknowledgement is of the clipboard it has. *)
LEMMA AnswerIs ==
  ASSUME NEW msg \in Messages, Takes(device, msg) \in Devices, device \in Devices,
         msg.type = "clipboard" => msg.sequence \in {0, msg.n} /\ Takes(device, msg).set = msg.n
  PROVE  /\ Answer(device, msg) \in Seq(Answers)
         /\ \A i \in 1..Len(Answer(device, msg)) :
              Answer(device, msg)[i].type = "ack" =>
                Answer(device, msg)[i].sequence <= Takes(device, msg).set
<1> DEFINE d == Takes(device, msg)
<1>0. d.set \in Nat /\ d.lock \in BOOLEAN
  BY DEF Devices
<1>1. CASE msg.type = "input" /\ d.lock # device.lock
  <2> DEFINE led == [type |-> "led", lock |-> d.lock]
  <2>1. Answer(device, msg) = <<led>>
    BY <1>1 DEF Answer
  <2>2. led \in Answers /\ led.type # "ack"
    BY <1>0 DEF Answers
  <2> HIDE DEF led
  <2>3. <<led>> \in Seq(Answers) /\ Len(<<led>>) = 1 /\ <<led>>[1] = led
    BY <2>2
  <2>4. \A i \in 1..Len(<<led>>) : <<led>>[i].type # "ack"
    BY <2>2, <2>3
  <2> HIDE DEF d
  <2> QED BY <2>1, <2>3, <2>4
<1>2. CASE msg.type = "clipboard" /\ msg.sequence # 0
  <2> DEFINE ack == [type |-> "ack", sequence |-> msg.sequence]
  <2>1. Answer(device, msg) = <<ack>>
    BY <1>2 DEF Answer
  <2>2. ack \in Answers /\ ack.sequence <= d.set
    <3>1. msg.sequence \in Nat /\ msg.sequence = d.set
      BY <1>2, MessageFields
    <3>2. ack \in [type : {"ack"}, sequence : Nat] /\ ack.sequence = msg.sequence
      BY <3>1
    <3> HIDE DEF ack, d
    <3> QED BY <3>1, <3>2 DEF Answers
  <2> HIDE DEF ack
  <2>3. <<ack>> \in Seq(Answers) /\ Len(<<ack>>) = 1 /\ <<ack>>[1] = ack
    BY <2>2
  <2>4. \A i \in 1..Len(<<ack>>) : <<ack>>[i].sequence <= d.set
    BY <2>2, <2>3
  <2> HIDE DEF d
  <2> QED BY <2>1, <2>3, <2>4 DEF d
<1>3. CASE msg.type = "get clipboard"
  <2> DEFINE got == [type |-> "clipboard"]
  <2>1. Answer(device, msg) = <<got>>
    BY <1>3 DEF Answer
  <2>2. got \in Answers /\ got.type = "clipboard"
    BY DEF Answers
  <2> HIDE DEF got
  <2>3. <<got>> \in Seq(Answers) /\ Len(<<got>>) = 1 /\ <<got>>[1] = got
    BY <2>2
  <2>4. \A i \in 1..Len(<<got>>) : <<got>>[i].type # "ack"
    BY <2>2, <2>3
  <2> HIDE DEF d
  <2> QED BY <2>1, <2>3, <2>4
<1>4. CASE ~ \/ msg.type = "input" /\ d.lock # device.lock
             \/ msg.type = "clipboard" /\ msg.sequence # 0
             \/ msg.type = "get clipboard"
  <2>1. Answer(device, msg) = <<>>
    BY <1>4 DEF Answer
  <2> QED BY <2>1
<1> QED BY <1>1, <1>2, <1>3, <1>4

(* The first message of the queue, when the device takes it. *)
LEMMA SentIs ==
  ASSUME DataOK, SocketFollows, controller = "run", queue # <<>>,
         HidDevicesMatch, FingerIsDown, PasteIsFresh,
         NEW msg, msg = Head(queue), UNCHANGED <<mode, lossy>>, device' = Takes(device, msg)
  PROVE  /\ msg \in Messages /\ device' \in Devices
         /\ SocketView' = After(SocketView, msg)
         /\ Leads(After(SocketView, msg), Tail(queue), SocketGoal, FALSE)
         /\ device.set <= device'.set
         /\ mode = "aoa" => device'.hid = device.hid
         /\ msg.type = "clipboard" => msg.sequence \in {0, msg.n} /\ device'.set = msg.n
         /\ DeviceCanFollow'
<1>1. queue \in Seq(Messages) /\ queue \in Seq(SocketMessages) /\ device \in Devices
  BY SocketMessagesAre DEF DataOK
<1>2. msg \in SocketMessages /\ msg \in Messages
  <2>1. msg \in SocketMessages
    BY <1>1
  <2> QED BY <2>1 DEF SocketMessages
<1>3. /\ Legal(SocketView, msg, FALSE)
      /\ Leads(After(SocketView, msg), Tail(queue), SocketGoal, FALSE)
  <2>1. Leads(SocketView, queue, SocketGoal, FALSE)
    BY DEF SocketFollows
  <2> QED BY <1>1, <2>1, LeadsPop
<1>4. CASE mode = "aoa"
  <2>1. msg.type \in {"clipboard", "inject", "get clipboard"}
    BY <1>2, <1>4 DEF SocketMessages
  <2>2. device' = IF msg.type = "clipboard" THEN [device EXCEPT !.set = msg.n] ELSE device
    BY <2>1 DEF Takes
  <2>3. msg.type = "clipboard" =>
          msg.n \in Nat /\ msg.sequence \in {0, msg.n} /\ device.set <= msg.n
    BY <1>2, <1>3, <1>4, MessageFields DEF Legal, SocketView, NoHid
  <2>4. /\ device' \in Devices /\ device'.hid = device.hid /\ device'.bad = device.bad
        /\ device'.set = IF msg.type = "clipboard" THEN msg.n ELSE device.set
        /\ device.set <= device'.set
    BY <1>1, <2>2, <2>3 DEF Devices
  <2>5. SocketView' = After(SocketView, msg)
    BY <1>4, <2>1, <2>4 DEF SocketView, NoHid, After
  <2>6. DeviceCanFollow'
    BY <2>4 DEF DeviceCanFollow, HidDevicesMatch, FingerIsDown, PasteIsFresh
  <2> QED BY <1>2, <1>3, <2>3, <2>4, <2>5, <2>6
<1>5. CASE mode # "aoa" /\ msg.type # "input"
  <2>1. SocketView = ViewOf(device) /\ SocketView' = ViewOf(device')
    BY <1>5 DEF SocketView
  <2>2. /\ device' \in Devices /\ ViewOf(device') = After(ViewOf(device), msg)
        /\ device'.bad = device.bad
    BY <1>1, <1>2, <1>3, <1>5, <2>1, TakesPlain
  <2>3. device'.set = After(ViewOf(device), msg).set /\ device.set = ViewOf(device).set
        /\ device.set \in Nat
    BY <1>1, <2>2 DEF ViewOf, Devices
  <2>4. /\ device.set <= device'.set
        /\ msg.type = "clipboard" => msg.sequence \in {0, msg.n} /\ device'.set = msg.n
    BY <1>3, <1>5, <2>1, <2>3 DEF After, Legal
  <2>5. DeviceCanFollow'
    BY <2>2 DEF DeviceCanFollow, HidDevicesMatch, FingerIsDown, PasteIsFresh
  <2> QED BY <1>2, <1>3, <1>5, <2>1, <2>2, <2>4, <2>5
<1>6. CASE mode # "aoa" /\ msg.type = "input"
  <2>1. SocketView = ViewOf(device) /\ SocketView' = ViewOf(device')
    BY <1>6 DEF SocketView
  <2>2. msg.ack = 0
    BY <1>2, <1>6 DEF SocketMessages
  <2>3. After(ViewOf(device), msg) = ViewOf(device)
    BY <1>6, <2>2 DEF After, ViewOf
  <2>4. /\ <<msg.id, msg.pad>> \in device.hid
        /\ msg.report = None \/ msg.report.n <= device.set
    BY <1>3, <1>6, <2>1, <2>3 DEF Legal, ViewOf
  <2>5. /\ device' \in Devices /\ ViewOf(device') = ViewOf(device)
        /\ "finger" \in device'.bad => "finger" \in device.bad
        /\ "hid" \in device'.bad => "hid" \in device.bad
        /\ "paste" \in device'.bad => "paste" \in device.bad
    BY <1>1, <1>2, <1>6, <2>4, TakesInput
  <2>6. device'.set = device.set /\ device.set \in Nat
    BY <1>1, <2>5 DEF ViewOf, Devices
  <2>7. DeviceCanFollow'
    BY <2>5 DEF DeviceCanFollow, HidDevicesMatch, FingerIsDown, PasteIsFresh
  <2>8. SocketView' = After(SocketView, msg) /\ device.set <= device'.set
    BY <2>1, <2>3, <2>5, <2>6
  <2> QED BY <1>2, <1>3, <1>6, <2>5, <2>7, <2>8
<1> QED BY <1>4, <1>5, <1>6

(* The controller sends the first of its queue, or the socket is closed. *)
LEMMA SendFollows ==
  ASSUME FInv, ControllerSends, CInv'
  PROVE  FInv'
<1>0. /\ CInv /\ DataOK /\ SocketFollows /\ UsbFollows /\ Acked
      /\ HidDevicesMatch /\ FingerIsDown /\ PasteIsFresh
  BY DEF FInv, DeviceCanFollow
<1>1. /\ controller = "run" /\ queue # <<>> /\ queue' = Tail(queue)
      /\ UNCHANGED <<mode, im, kb, slots, aoa, acksync, lossy>>
  BY DEF ControllerSends, ui
<1>2. /\ SocketGoal' = SocketGoal /\ Registered' = Registered
      /\ SocketMessages' = SocketMessages
  BY <1>1 DEF SocketGoal, Registered, NoHid, SocketMessages, Slots
<1>3. queue \in Seq(SocketMessages) /\ Tail(queue) \in Seq(SocketMessages)
  BY <1>0, <1>1 DEF DataOK
<1>4. CASE Reachable
  <2> DEFINE msg == Head(queue)
  <2>1. /\ device' = Takes(device, msg) /\ answers' = answers \o Answer(device, msg)
        /\ UNCHANGED controller
    BY <1>4 DEF ControllerSends
  <2> HIDE DEF msg
  <2>2. /\ msg \in Messages /\ device' \in Devices
        /\ SocketView' = After(SocketView, msg)
        /\ Leads(After(SocketView, msg), Tail(queue), SocketGoal, FALSE)
        /\ device.set <= device'.set
        /\ mode = "aoa" => device'.hid = device.hid
        /\ msg.type = "clipboard" => msg.sequence \in {0, msg.n} /\ device'.set = msg.n
        /\ DeviceCanFollow'
    BY <1>0, <1>1, <2>1, SentIs DEF msg
  <2>3. device \in Devices
    BY <1>0 DEF DataOK
  <2> DEFINE answer == Answer(device, msg)
  <2>4. /\ answer \in Seq(Answers)
        /\ \A i \in 1..Len(answer) : answer[i].type = "ack" => answer[i].sequence <= device'.set
    BY <2>1, <2>2, <2>3, AnswerIs
  <2> HIDE DEF answer
  <2>5. answers' = answers \o answer
    BY <2>1 DEF answer
  <2>6. answers \in Seq(Answers) /\ answers' \in Seq(Answers)
    BY <1>0, <2>4, <2>5 DEF DataOK
  <2>7. device.set \in Nat /\ device'.set \in Nat
    BY <2>2, <2>3 DEF Devices
  <2>8. \A a \in Answers : a.type = "ack" => a.sequence \in Nat
    <3>1. ASSUME NEW a \in Answers, a.type = "ack" PROVE a.sequence \in Nat
      BY <3>1 DEF Answers
    <3> QED BY <3>1
  <2>9. ASSUME NEW i \in 1..Len(answers'), answers'[i].type = "ack"
        PROVE  answers'[i].sequence <= device'.set
    <3>1. CASE i \in 1..Len(answers)
      <4>1. answers'[i] = answers[i] /\ answers[i] \in Answers
        BY <2>4, <2>5, <2>6, <3>1
      <4>2. answers[i].sequence <= device.set
        BY <1>0, <2>9, <3>1, <4>1 DEF Acked
      <4> QED BY <2>2, <2>7, <2>8, <2>9, <4>1, <4>2
    <3>2. CASE i \notin 1..Len(answers)
      <4>1. i - Len(answers) \in 1..Len(answer) /\ answers'[i] = answer[i - Len(answers)]
        BY <2>4, <2>5, <2>6, <3>2
      <4> QED BY <2>4, <2>9, <4>1
    <3> QED BY <3>1, <3>2
  <2>10. Acked'
    <3>1. acksync \in Nat /\ acksync <= device.set
      BY <1>0 DEF Acked, DataOK
    <3>2. acksync' <= device'.set
      BY <1>1, <2>2, <2>7, <3>1
    <3>3. mode' = "aoa" => im'.sequence = im'.pastes + 1
      BY <1>0, <1>1 DEF Acked
    <3> QED BY <2>9, <3>2, <3>3 DEF Acked
  <2>11. DataOK'
    BY <1>0, <1>1, <1>2, <1>3, <2>2, <2>6 DEF DataOK
  <2>12. SocketFollows'
    BY <1>1, <1>2, <2>2 DEF SocketFollows
  <2>13. UsbFollows'
    <3>1. CASE mode # "aoa"
      BY <1>1, <3>1 DEF UsbFollows
    <3>2. CASE mode = "aoa" /\ aoa.at = "ended"
      BY <1>0, <1>1, <2>2, <3>2 DEF UsbFollows
    <3>3. CASE mode = "aoa" /\ aoa.at # "ended"
      <4>1. PICK s, e \in Views :
               /\ UsbView(s) /\ OpenCovers(device.hid, aoa.open, s.hid)
               /\ Leads(s, Taken \o aoa.queue, e, lossy.report) /\ UsbGoal(e)
        BY <1>0, <3>3 DEF UsbFollows
      <4>2. s.set \in Nat
        BY DEF Views
      <4>3. UsbView(s)'
        BY <1>1, <2>2, <2>7, <3>3, <4>1, <4>2 DEF UsbView
      <4>4. UsbGoal(e)' /\ Taken' = Taken
        BY <1>1, <1>2, <4>1 DEF UsbGoal, Taken
      <4>5. OpenCovers(device'.hid, aoa'.open, s.hid)
        BY <1>1, <2>2, <3>3, <4>1
      <4> QED BY <1>1, <3>3, <4>1, <4>3, <4>4, <4>5 DEF UsbFollows
    <3> QED BY <3>1, <3>2, <3>3
  <2> QED BY <2>2, <2>10, <2>11, <2>12, <2>13 DEF FInv
<1>5. CASE ~Reachable
  <2>1. controller' = "ended" /\ UNCHANGED <<device, answers>>
    BY <1>5 DEF ControllerSends
  <2>2. DataOK'
    BY <1>0, <1>1, <1>2, <1>3, <2>1 DEF DataOK
  <2>3. SocketFollows' /\ Acked' /\ DeviceCanFollow'
    BY <1>0, <1>1, <2>1 DEF SocketFollows, Acked, DeviceCanFollow, HidDevicesMatch,
                             FingerIsDown, PasteIsFresh
  <2>4. UsbFollows'
    <3>1. lossy.report \in BOOLEAN
      BY <1>0 DEF DataOK
    <3> QED BY <1>0, <1>1, <1>2, <2>1, <3>1, UsbKept
  <2> QED BY <2>2, <2>3, <2>4 DEF FInv
<1> QED BY <1>4, <1>5

-----------------------------------------------------------------------------
(* Steps that leave both queues alone.                                     *)

(* A step that moves a thread on, and touches neither queue nor the device. *)
AnswersOK(a) ==
  /\ a \in Seq(Answers)
  /\ \A i \in 1..Len(a) : a[i].type = "ack" => a[i].sequence <= device.set

MovesOn ==
  /\ UNCHANGED <<mode, im, slots, queue, device, lossy>>
  /\ UNCHANGED <<aoa.queue, aoa.open, aoa.event>>
  /\ (aoa'.at = "ended" <=> aoa.at = "ended") /\ (aoa'.at = "ack" <=> aoa.at = "ack")
  /\ controller = "ended" => controller' = "ended"
  /\ kb' = [keys |-> kb.keys, lock |-> kb'.lock, synchronized |-> kb'.synchronized]
  /\ AnswersOK(answers') /\ acksync' \in Nat /\ acksync' <= device.set

(* Such a step preserves the invariant. *)
LEMMA MovesOnFollows ==
  ASSUME FInv, MovesOn, CInv'
  PROVE  FInv'
<1>0. DataOK /\ SocketFollows /\ UsbFollows /\ Acked /\ DeviceCanFollow
  BY DEF FInv
<1>1. /\ SocketGoal' = SocketGoal /\ SocketView' = SocketView /\ Registered' = Registered
      /\ SocketMessages' = SocketMessages /\ Taken' = Taken
  BY DEF MovesOn, SocketGoal, SocketView, Registered, NoHid, ViewOf, SocketMessages, Slots, Taken
<1>2. DataOK'
  BY <1>0, <1>1 DEF MovesOn, AnswersOK, DataOK, AwaitsAck
<1>3. SocketFollows'
  BY <1>0, <1>1 DEF MovesOn, SocketFollows
<1>4. Acked'
  BY <1>0 DEF MovesOn, AnswersOK, Acked
<1>5. DeviceCanFollow'
  BY <1>0 DEF MovesOn, DeviceCanFollow, HidDevicesMatch, FingerIsDown, PasteIsFresh
<1>6. UsbFollows'
  <2>1. CASE mode # "aoa" \/ aoa.at = "ended"
    BY <1>0, <2>1 DEF MovesOn, UsbFollows
  <2>2. CASE mode = "aoa" /\ aoa.at # "ended"
    <3>1. PICK s, e \in Views :
             /\ UsbView(s) /\ OpenCovers(device.hid, aoa.open, s.hid)
             /\ Leads(s, Taken \o aoa.queue, e, lossy.report) /\ UsbGoal(e)
      BY <1>0, <2>2 DEF UsbFollows
    <3>2. UsbView(s)' /\ UsbGoal(e)'
      BY <1>1, <3>1 DEF MovesOn, UsbView, UsbGoal
    <3> QED BY <1>1, <2>2, <3>1, <3>2 DEF MovesOn, UsbFollows
  <2> QED BY <2>1, <2>2
<1> QED BY <1>2, <1>3, <1>4, <1>5, <1>6 DEF FInv

(* What such a step keeps. *)
LEMMA KeptAnswers ==
  ASSUME FInv
  PROVE  /\ AnswersOK(answers) /\ acksync \in Nat /\ acksync <= device.set
         /\ kb = [keys |-> kb.keys, lock |-> kb.lock, synchronized |-> kb.synchronized]
BY DEF FInv, DataOK, Acked, AnswersOK

(* The keyboard takes what the device answered. *)
LEMMA TaskKeepsKeys ==
  ASSUME FInv, NEW task, kb' = AfterTask(task)
  PROVE  kb' = [keys |-> kb.keys, lock |-> kb'.lock, synchronized |-> kb'.synchronized]
<1>1. kb = [keys |-> kb.keys, lock |-> kb.lock, synchronized |-> kb.synchronized]
  BY KeptAnswers
<1> QED BY <1>1 DEF AfterTask

(* The receiver gives the AOA thread what the device has acknowledged. *)
LEMMA ReceiverMovesOn ==
  ASSUME FInv, ReceiverTakes
  PROVE  MovesOn
<1>1. /\ UNCHANGED <<mode, im, kb, slots, queue, controller, aoa, device, lossy>>
      /\ answers # <<>> /\ answers' = Tail(answers)
      /\ acksync' = IF Head(answers).type = "ack" THEN Head(answers).sequence ELSE acksync
  BY DEF ReceiverTakes, ui
<1>2. AnswersOK(answers) /\ acksync \in Nat /\ acksync <= device.set
  BY KeptAnswers
<1>3. /\ answers \in Seq(Answers) /\ Head(answers) = answers[1] /\ 1 \in 1..Len(answers)
      /\ Head(answers) \in Answers
  BY <1>1, <1>2 DEF AnswersOK
<1>4. Head(answers).type = "ack" =>
        Head(answers).sequence \in Nat /\ Head(answers).sequence <= device.set
  <2>1. ASSUME NEW a \in Answers, a.type = "ack" PROVE a.sequence \in Nat
    BY <2>1 DEF Answers
  <2> QED BY <1>2, <1>3, <2>1 DEF AnswersOK
<1>5. AnswersOK(answers')
  <2>1. answers' \in Seq(Answers) /\ Len(answers') = Len(answers) - 1
        /\ \A i \in 1..Len(answers') : i + 1 \in 1..Len(answers) /\ answers'[i] = answers[i + 1]
    BY <1>1, <1>3
  <2> QED BY <1>2, <2>1 DEF AnswersOK
<1> QED BY <1>1, <1>2, <1>4, <1>5, KeptAnswers DEF MovesOn

(* The other steps of the threads and the end of scrcpy(). *)
LEMMA OthersMoveOn ==
  ASSUME FInv,
         \/ RunTask \/ StopTasks \/ Stops \/ Unplug
         \/ ControllerWaits \/ ControllerResizes \/ ControllerEnds
         \/ ReceiverEnds \/ AoaWaits \/ UNCHANGED vars
  PROVE  MovesOn
<1>0. /\ AnswersOK(answers) /\ acksync \in Nat /\ acksync <= device.set
      /\ kb = [keys |-> kb.keys, lock |-> kb.lock, synchronized |-> kb.synchronized]
      /\ aoa = [queue |-> aoa.queue, at |-> aoa.at, event |-> aoa.event, open |-> aoa.open]
  BY KeptAnswers DEF FInv, CInv, TypeInv
<1> USE DEF ui, threads, outside
<1>1. ASSUME NEW task, kb' = AfterTask(task),
             UNCHANGED <<mode, im, slots, queue, device, lossy, aoa, controller, answers, acksync>>
      PROVE  MovesOn
  BY <1>0, <1>1, TaskKeepsKeys DEF MovesOn
<1>2. ASSUME UNCHANGED <<mode, im, kb, slots, queue, device, lossy, aoa, answers, acksync>>,
             controller = "ended" => controller' = "ended"
      PROVE  MovesOn
  BY <1>0, <1>2 DEF MovesOn
<1>3. CASE RunTask
  BY <1>1, <1>3 DEF RunTask
<1>4. CASE StopTasks
  BY <1>1, <1>2, <1>4 DEF StopTasks
<1>5. CASE StopController \/ StopServer \/ Join
  BY <1>2, <1>5 DEF StopController, StopServer, Join, Wake
<1>6. CASE StopAoa \/ AoaWaits
  <2>1. /\ UNCHANGED <<mode, im, kb, slots, queue, device, lossy, controller, answers, acksync>>
        /\ \/ aoa' = [aoa EXCEPT !.at = Wake(aoa.at)]
           \/ aoa.at = "run" /\ aoa' = [aoa EXCEPT !.at = "wait"]
    BY <1>6 DEF StopAoa, AoaWaits
  <2>2. /\ UNCHANGED <<aoa.queue, aoa.open, aoa.event>>
        /\ aoa'.at = Wake(aoa.at) \/ (aoa.at = "run" /\ aoa'.at = "wait")
    BY <1>0, <2>1
  <2> QED BY <1>0, <2>1, <2>2 DEF MovesOn, Wake
<1>7. CASE Unplug \/ ReceiverEnds
  BY <1>2, <1>7 DEF Unplug, ReceiverEnds
<1>8. CASE ControllerWaits \/ ControllerResizes \/ ControllerEnds
  BY <1>2, <1>8 DEF ControllerWaits, ControllerResizes, ControllerEnds
<1>9. CASE UNCHANGED vars
  BY <1>2, <1>9 DEF vars
<1> QED BY <1>3, <1>4, <1>5, <1>6, <1>7, <1>8, <1>9 DEF Stops

-----------------------------------------------------------------------------
(* Initially, and every step.                                              *)

(* Initially the devices of the keyboard and the mouse are queued to be opened. *)
LEMMA InitFollows == Init => FInv
<1> SUFFICES ASSUME Init PROVE FInv
  OBVIOUS
<1> DEFINE opens == <<OpenKeyboard, OpenMouse>>
<1>1. /\ im = [paused |-> FALSE, vfinger |-> FALSE, sequence |-> 1, pastes |-> 0]
      /\ kb = [keys |-> {}, lock |-> FALSE, synchronized |-> FALSE]
      /\ slots = [s \in Slots |-> None]
      /\ queue = (IF mode = "uhid" THEN opens ELSE <<>>)
      /\ aoa.queue = (IF mode = "aoa" THEN opens ELSE <<>>)
      /\ aoa.at = (IF mode = "aoa" THEN "run" ELSE "ended")
      /\ aoa.open = <<>>
      /\ controller = "run" /\ acksync = 0 /\ answers = <<>>
      /\ device = [hid |-> {}, keys |-> {}, lock |-> FALSE, set |-> 0,
                   finger |-> FALSE, bad |-> {}]
      /\ lossy = [report |-> FALSE, lock |-> FALSE, usb |-> FALSE]
      /\ mode \in {"sdk", "uhid", "aoa"}
  BY ControlAssumption DEF Init
<1>2. /\ OpenKeyboard \in HidMessages /\ OpenKeyboard.type = "create"
      /\ OpenKeyboard.id = 1 /\ OpenKeyboard.pad = None
      /\ OpenMouse \in HidMessages /\ OpenMouse.type = "create"
      /\ OpenMouse.id = 2 /\ OpenMouse.pad = None
  BY DEF OpenKeyboard, OpenMouse, Create, Keyboard, Mouse, HidMessages
<1>3. opens \in Seq(HidMessages) /\ opens = Append(<<OpenKeyboard>>, OpenMouse)
      /\ <<OpenKeyboard>> = Append(<<>>, OpenKeyboard) /\ <<OpenKeyboard>> \in Seq(HidMessages)
  BY <1>2
<1> HIDE DEF opens
<1> DEFINE none == NoHid(0)
           both == [hid |-> {<<1, None>>, <<2, None>>}, finger |-> FALSE, set |-> 0]
<1>4. none \in Views /\ both \in Views
  BY DEF NoHid, Views
<1>5. Registered = IF mode = "sdk" THEN {} ELSE {<<1, None>>, <<2, None>>}
  BY <1>1 DEF Registered, Keyboard, Mouse
<1>6. Leads(none, opens, both, FALSE)
  <2> DEFINE one == [hid |-> {<<1, None>>}, finger |-> FALSE, set |-> 0]
  <2>1. After(none, OpenKeyboard) = one /\ Legal(none, OpenKeyboard, FALSE)
    BY <1>2 DEF After, Legal, NoHid
  <2>2. After(one, OpenMouse) = both /\ Legal(one, OpenMouse, FALSE)
    <3>1. {<<1, None>>} \cup {<<2, None>>} = {<<1, None>>, <<2, None>>}
      OBVIOUS
    <3>2. After(one, OpenMouse) = both
      BY <1>2, <3>1 DEF After
    <3>3. \A pad : <<2, pad>> \notin one.hid
      OBVIOUS
    <3> QED BY <1>2, <3>2, <3>3 DEF Legal
  <2> HIDE DEF none, one, both
  <2>3. OpenKeyboard \in Messages /\ OpenMouse \in Messages /\ <<>> \in Seq(Messages)
        /\ <<OpenKeyboard>> \in Seq(Messages)
    BY <1>2 DEF Messages
  <2>4. Leads(none, <<>>, none, FALSE)
    BY <1>4, LeadsNil
  <2>5. Leads(none, <<OpenKeyboard>>, one, FALSE)
    BY <1>3, <2>1, <2>3, <2>4, LeadsAppend
  <2>6. Leads(none, opens, both, FALSE)
    BY <1>3, <2>2, <2>3, <2>5, LeadsAppend
  <2> QED BY <2>6
<1>7. ViewOf(device) = none /\ device.set = 0 /\ device.hid = {} /\ device.bad = {}
      /\ im.pastes = 0 /\ im.vfinger = FALSE /\ im.sequence = 1 /\ lossy.report = FALSE
      /\ lossy.usb = FALSE
  BY <1>1 DEF ViewOf, NoHid
<1>8. DataOK
  <2>1. queue \in Seq(SocketMessages)
    <3>1. CASE mode = "uhid"
      <4>1. OpenKeyboard \in SocketMessages /\ OpenMouse \in SocketMessages
        BY <1>2, <3>1 DEF SocketMessages, Messages
      <4>2. <<OpenKeyboard>> \in Seq(SocketMessages)
        BY <4>1
      <4>3. Append(<<OpenKeyboard>>, OpenMouse) \in Seq(SocketMessages)
        BY <4>1, <4>2
      <4> QED BY <1>1, <1>3, <3>1, <4>3
    <3>2. CASE mode # "uhid"
      BY <1>1, <3>2
    <3> QED BY <3>1, <3>2
  <2>2. aoa.queue \in Seq(HidMessages) /\ aoa.open \in Seq(Nat)
    BY <1>1, <1>3
  <2>3. device \in Devices
    BY <1>1 DEF Devices
  <2>4. answers \in Seq(Answers) /\ acksync \in Nat
    BY <1>1
  <2>5. /\ lossy \in [report : BOOLEAN, lock : BOOLEAN, usb : BOOLEAN]
        /\ im \in [paused : BOOLEAN, vfinger : BOOLEAN, sequence : Nat, pastes : Nat]
        /\ slots \in [Slots -> Pads \cup {None}]
    BY <1>1
  <2>6. /\ kb = [keys |-> kb.keys, lock |-> kb.lock, synchronized |-> kb.synchronized]
        /\ kb.keys \in SUBSET {"caps", "v"}
    BY <1>1
  <2>7. aoa.at # "ack" /\ (mode # "aoa" => aoa.at = "ended" /\ ~lossy.usb)
        /\ \A s \in Slots : slots[s] = None
    BY <1>1
  <2> QED BY <2>1, <2>2, <2>3, <2>4, <2>5, <2>6, <2>7 DEF DataOK
<1> HIDE DEF none, both
<1>9. SocketFollows
  <2>1. CASE mode = "uhid"
    <3>1. SocketView = none /\ SocketGoal = both
      BY <1>5, <1>7, <2>1 DEF SocketView, SocketGoal, both
    <3> QED BY <1>1, <1>6, <2>1, <3>1 DEF SocketFollows
  <2>2. CASE mode # "uhid"
    <3>1. SocketView = none /\ SocketGoal = none
      BY <1>1, <1>5, <1>7, <2>2 DEF SocketView, SocketGoal, none, NoHid
    <3> QED BY <1>1, <1>4, <2>2, <3>1, LeadsNil DEF SocketFollows
  <2> QED BY <2>1, <2>2
<1>10. UsbFollows
  <2>1. CASE mode # "aoa"
    BY <2>1 DEF UsbFollows
  <2>2. CASE mode = "aoa"
    <3>1. UsbView(none) /\ UsbGoal(both)
      BY <1>5, <1>7, <2>2 DEF UsbView, UsbGoal, none, both, NoHid, OneEach
    <3>2. OpenCovers(device.hid, aoa.open, none.hid)
      BY <1>7 DEF OpenCovers, none, NoHid
    <3>3. Taken \o aoa.queue = opens
      <4>1. Taken = <<>> /\ aoa.queue = opens /\ opens \in Seq(HidMessages)
        BY <1>1, <1>3, <2>2 DEF Taken
      <4> QED BY <4>1
    <3> QED BY <1>1, <1>4, <1>6, <1>7, <2>2, <3>1, <3>2, <3>3 DEF UsbFollows
  <2> QED BY <2>1, <2>2
<1>11. Acked
  <2>1. acksync <= device.set /\ Len(answers) = 0
    BY <1>1, <1>7
  <2>2. im.sequence = im.pastes + 1
    BY <1>7
  <2> QED BY <2>1, <2>2 DEF Acked
<1>12. DeviceCanFollow
  BY <1>7 DEF DeviceCanFollow, HidDevicesMatch, FingerIsDown, PasteIsFresh
<1> QED BY <1>8, <1>9, <1>10, <1>11, <1>12, InitCInv DEF FInv

-----------------------------------------------------------------------------
(* The AOA thread.                                                         *)

(* vec_open, with its first occurrence of an identifier removed. *)
FirstOf(open, id) == SelectInSeq(open, LAMBDA x : x = id)

(* It is an index of that identifier. *)
LEMMA FirstOfIs ==
  ASSUME NEW open \in Seq(Nat), NEW id, Contains(open, id)
  PROVE  FirstOf(open, id) \in 1..Len(open) /\ open[FirstOf(open, id)] = id
<1> DEFINE I == {i \in 1..Len(open) : open[i] = id}
<1>1. I \in SUBSET Nat /\ I # {}
  BY DEF Contains
<1>2. FirstOf(open, id) = Min(I)
  BY <1>1 DEF FirstOf, SelectInSeq
<1>3. Min(I) \in I
  <2> HIDE DEF I
  <2> QED BY <1>1, LeastExists DEF Min
<1> QED BY <1>2, <1>3

(* The elements of a concatenation. *)
LEMMA Concatenated ==
  ASSUME NEW a \in Seq(Nat), NEW b \in Seq(Nat)
  PROVE  /\ a \o b \in Seq(Nat) /\ Len(a \o b) = Len(a) + Len(b)
         /\ \A i \in 1..Len(a) : (a \o b)[i] = a[i]
         /\ \A i \in 1..Len(b) : (a \o b)[Len(a) + i] = b[i]
OBVIOUS

(* sc_vector_remove *)
LEMMA RemoveAtIs ==
  ASSUME NEW open \in Seq(Nat), NEW k \in 1..Len(open)
  PROVE  /\ RemoveAt(open, k) \in Seq(Nat) /\ Len(RemoveAt(open, k)) = Len(open) - 1
         /\ \A i \in 1..(Len(open) - 1) :
              RemoveAt(open, k)[i] = IF i < k THEN open[i] ELSE open[i + 1]
<1> DEFINE a == SubSeq(open, 1, k - 1)
           b == SubSeq(open, k + 1, Len(open))
<1>1. /\ a \in Seq(Nat) /\ Len(a) = k - 1
      /\ \A i \in 1..(k - 1) : a[i] = open[i]
  OBVIOUS
<1>2. /\ b \in Seq(Nat) /\ Len(b) = Len(open) - k
      /\ \A i \in 1..(Len(open) - k) : b[i] = open[k + i]
  OBVIOUS
<1> HIDE DEF a, b
<1>3. /\ a \o b \in Seq(Nat) /\ Len(a \o b) = Len(open) - 1
      /\ \A i \in 1..(Len(open) - 1) :
           (a \o b)[i] = IF i < k THEN open[i] ELSE open[i + 1]
  <2>1. a \o b \in Seq(Nat) /\ Len(a \o b) = Len(open) - 1
    <3>1. a \o b \in Seq(Nat) /\ Len(a \o b) = Len(a) + Len(b)
      BY <1>1, <1>2, Concatenated
    <3> QED BY <1>1, <1>2, <3>1
  <2>2. ASSUME NEW i \in 1..(Len(open) - 1), i < k PROVE (a \o b)[i] = open[i]
    <3>1. i \in 1..(k - 1)
      BY <2>2
    <3>2. (a \o b)[i] = a[i]
      BY <1>1, <1>2, <3>1, Concatenated
    <3> QED BY <1>1, <3>1, <3>2
  <2>3. ASSUME NEW i \in 1..(Len(open) - 1), ~(i < k) PROVE (a \o b)[i] = open[i + 1]
    <3>1. i - (k - 1) \in 1..(Len(open) - k) /\ k + (i - (k - 1)) = i + 1
      BY <2>3
    <3>2. (a \o b)[i] = b[i - (k - 1)]
      <4>1. Len(a) + (i - (k - 1)) = i
        BY <1>1
      <4> DEFINE j == i - (k - 1)
      <4>2. j \in 1..Len(b) /\ Len(a) + j = i
        BY <1>2, <3>1, <4>1
      <4> HIDE DEF j
      <4>3. (a \o b)[Len(a) + j] = b[j]
        BY <1>1, <1>2, <4>2, Concatenated
      <4> QED BY <4>2, <4>3 DEF j
    <3> QED BY <1>2, <3>1, <3>2
  <2> QED BY <2>1, <2>2, <2>3
<1>4. RemoveAt(open, k) = a \o b
  BY DEF RemoveAt, a, b
<1> QED BY <1>3, <1>4

(* What vec_open still has. *)
LEMMA RemovedHas ==
  ASSUME NEW open \in Seq(Nat), NEW id \in Nat, Contains(open, id)
  PROVE  LET r == RemoveAt(open, FirstOf(open, id)) IN
         /\ r \in Seq(Nat)
         /\ HasTwice(open, id) => Has(r, id)
         /\ \A x : x # id /\ Has(open, x) => Has(r, x)
         /\ \A x : x # id /\ HasTwice(open, x) => HasTwice(r, x)
<1> DEFINE k == FirstOf(open, id)
           r == RemoveAt(open, k)
<1>1. k \in 1..Len(open) /\ open[k] = id
  BY FirstOfIs
<1> HIDE DEF k
<1>2. /\ r \in Seq(Nat) /\ Len(r) = Len(open) - 1
      /\ \A i \in 1..(Len(open) - 1) : r[i] = IF i < k THEN open[i] ELSE open[i + 1]
  BY <1>1, RemoveAtIs
<1> HIDE DEF r
<1> DEFINE at(i) == IF i < k THEN i ELSE i - 1
<1>3. ASSUME NEW i \in 1..Len(open), i # k
      PROVE  at(i) \in 1..Len(r) /\ r[at(i)] = open[i]
  <2>1. CASE i < k
    BY <1>1, <1>2, <2>1
  <2>2. CASE i > k
    <3>1. i - 1 \in 1..(Len(open) - 1) /\ ~(i - 1 < k) /\ (i - 1) + 1 = i
      BY <1>1, <2>2
    <3>2. r[i - 1] = open[(i - 1) + 1]
      BY <1>2, <3>1
    <3>3. at(i) = i - 1
      BY <1>1, <2>2
    <3>4. i - 1 \in 1..Len(r)
      BY <1>2, <3>1
    <3>5. r[i - 1] = open[i]
      BY <3>1, <3>2
    <3> HIDE DEF at
    <3> QED BY <3>3, <3>4, <3>5
  <2> QED BY <1>1, <1>3, <2>1, <2>2
<1>4. ASSUME NEW i \in 1..Len(open), NEW j \in 1..Len(open), i # j, i # k, j # k
      PROVE  at(i) # at(j)
  BY <1>1, <1>4
<1> HIDE DEF at
<1>5. ASSUME HasTwice(open, id) PROVE Has(r, id)
  <2>1. PICK i, j \in 1..Len(open) : i # j /\ open[i] = id /\ open[j] = id
    BY <1>5 DEF HasTwice
  <2>2. CASE i # k
    BY <1>3, <2>1, <2>2 DEF Has
  <2>3. CASE i = k
    <3>1. j # k
      BY <2>1, <2>3
    <3> QED BY <1>3, <2>1, <3>1 DEF Has
  <2> QED BY <2>2, <2>3
<1>6. ASSUME NEW x, x # id, Has(open, x) PROVE Has(r, x)
  <2>1. PICK i \in 1..Len(open) : open[i] = x
    BY <1>6 DEF Has
  <2>2. i # k
    BY <1>1, <1>6, <2>1
  <2> QED BY <1>3, <2>1, <2>2 DEF Has
<1>7. ASSUME NEW x, x # id, HasTwice(open, x) PROVE HasTwice(r, x)
  <2>1. PICK i, j \in 1..Len(open) : i # j /\ open[i] = x /\ open[j] = x
    BY <1>7 DEF HasTwice
  <2>2. i # k /\ j # k
    BY <1>1, <1>7, <2>1
  <2>3. at(i) \in 1..Len(r) /\ at(j) \in 1..Len(r) /\ at(i) # at(j)
        /\ r[at(i)] = x /\ r[at(j)] = x
    BY <1>3, <1>4, <2>1, <2>2
  <2> QED BY <2>3 DEF HasTwice
<1> QED BY <1>2, <1>5, <1>6, <1>7 DEF r, k

(* sc_vector_push *)
LEMMA AppendedHas ==
  ASSUME NEW open \in Seq(Nat), NEW id \in Nat
  PROVE  /\ Append(open, id) \in Seq(Nat) /\ Has(Append(open, id), id)
         /\ Has(open, id) => HasTwice(Append(open, id), id)
         /\ \A x : Has(open, x) => Has(Append(open, id), x)
         /\ \A x : HasTwice(open, x) => HasTwice(Append(open, id), x)
<1> DEFINE r == Append(open, id)
           n == Len(open) + 1
<1>1. /\ r \in Seq(Nat) /\ Len(r) = n /\ r[n] = id /\ n \in 1..Len(r)
      /\ \A i \in 1..Len(open) : i \in 1..Len(r) /\ r[i] = open[i] /\ i # n
  OBVIOUS
<1> HIDE DEF r, n
<1>2. Has(r, id)
  BY <1>1 DEF Has
<1>3. Has(open, id) => HasTwice(r, id)
  BY <1>1 DEF Has, HasTwice
<1>4. \A x : Has(open, x) => Has(r, x)
  BY <1>1 DEF Has
<1>5. \A x : HasTwice(open, x) => HasTwice(r, x)
  BY <1>1 DEF HasTwice
<1> QED BY <1>1, <1>2, <1>3, <1>4, <1>5 DEF r

(* A transfer that does what it should or fails, the first that fails. *)
LEMMA OpenStillCovers ==
  ASSUME NEW s \in Views, NEW msg \in HidMessages, NEW ok \in BOOLEAN, NEW late,
         Legal(s, msg, late), OneEach(s.hid),
         NEW hid \in SUBSET (Nat \X (Pads \cup {None})), NEW open \in Seq(Nat),
         OpenCovers(hid, open, s.hid), ok = FALSE => s.hid = hid,
         aoa.open = open
  PROVE  /\ OpenAfter(msg, ok) \in Seq(Nat)
         /\ OpenCovers(IF ok THEN After([hid |-> hid, finger |-> FALSE, set |-> 0], msg).hid
                       ELSE hid,
                       OpenAfter(msg, ok), After(s, msg).hid)
<1> DEFINE id == msg.id
           pair == <<id, msg.pad>>
           known == After(s, msg).hid
<1>0. /\ id \in Nat /\ msg.pad \in Pads \cup {None}
      /\ msg.type \in {"create", "destroy", "input"}
  BY MessageFields DEF Messages
<1>1. CASE msg.type = "input"
  BY <1>1 DEF After, OpenAfter
<1>2. CASE msg.type = "create" /\ ok = TRUE
  <2> DEFINE r == Append(open, id)
  <2>1. OpenAfter(msg, ok) = r /\ known = s.hid \cup {pair}
    BY <1>2 DEF OpenAfter, After
  <2>2. /\ r \in Seq(Nat) /\ Has(r, id)
        /\ Has(open, id) => HasTwice(r, id)
        /\ \A x : Has(open, x) => Has(r, x)
        /\ \A x : HasTwice(open, x) => HasTwice(r, x)
    BY <1>0, AppendedHas
  <2>3. After([hid |-> hid, finger |-> FALSE, set |-> 0], msg).hid = hid \cup {pair}
    BY <1>2 DEF After
  <2>4. \A x \in s.hid : x[1] # id
    <3>1. ASSUME NEW x \in s.hid PROVE x[1] # id
      <4>1. x \in Nat \X (Pads \cup {None})
        BY DEF Views
      <4>2. x = <<x[1], x[2]>> /\ x[2] \in Pads \cup {None}
        BY <4>1
      <4>3. <<id, x[2]>> \notin s.hid
        BY <1>2, <4>2 DEF Legal
      <4> QED BY <4>2, <4>3
    <3> QED BY <3>1
  <2> HIDE DEF r
  <2>5. pair[1] = id
    OBVIOUS
  <2> HIDE DEF id, pair
  <2>6. ASSUME NEW x \in hid \cup {pair} PROVE Has(r, x[1])
    BY <2>2, <2>5 DEF OpenCovers
  <2>7. ASSUME NEW x \in s.hid \cup {pair}, NEW y \in hid \cup {pair}, x[1] = y[1], x # y
        PROVE  HasTwice(r, x[1])
    <3>1. CASE x \in s.hid /\ y \in hid
      BY <2>2, <2>7, <3>1 DEF OpenCovers
    <3>2. CASE x = pair /\ y \in hid
      BY <2>2, <2>5, <2>7, <3>2 DEF OpenCovers
    <3>3. CASE x \in s.hid /\ y = pair
      BY <2>4, <2>5, <2>7, <3>3
    <3> QED BY <2>7, <3>1, <3>2, <3>3
  <2>8. OpenCovers(hid \cup {pair}, r, s.hid \cup {pair})
    BY <2>6, <2>7 DEF OpenCovers
  <2> QED BY <1>2, <2>1, <2>2, <2>3, <2>8
<1>3. CASE msg.type = "create" /\ ok = FALSE
  <2>1. OpenAfter(msg, ok) = open /\ known = s.hid \cup {pair} /\ s.hid = hid
    BY <1>3 DEF OpenAfter, After
  <2>2. \A x \in s.hid : x[1] # id
    <3>1. ASSUME NEW x \in s.hid PROVE x[1] # id
      <4>1. x \in Nat \X (Pads \cup {None})
        BY DEF Views
      <4>2. x = <<x[1], x[2]>> /\ x[2] \in Pads \cup {None}
        BY <4>1
      <4>3. <<id, x[2]>> \notin s.hid
        BY <1>3, <4>2 DEF Legal
      <4> QED BY <4>2, <4>3
    <3> QED BY <3>1
  <2>3. pair[1] = id
    OBVIOUS
  <2> HIDE DEF id, pair
  <2>4. OpenCovers(hid, open, s.hid \cup {pair})
    <3>1. ASSUME NEW x \in s.hid \cup {pair}, NEW y \in hid, x[1] = y[1], x # y
          PROVE  HasTwice(open, x[1])
      BY <2>1, <2>2, <2>3, <3>1 DEF OneEach
    <3> QED BY <3>1 DEF OpenCovers
  <2> QED BY <1>3, <2>1, <2>4
<1>4. CASE msg.type = "destroy" /\ ok = TRUE
  <2>1. known = s.hid \ {pair} /\ pair \in s.hid
        /\ After([hid |-> hid, finger |-> FALSE, set |-> 0], msg).hid = hid \ {pair}
    BY <1>4 DEF After, Legal
  <2>2. pair[1] = id
    OBVIOUS
  <2>3. CASE Contains(open, id)
    <3> DEFINE r == RemoveAt(open, FirstOf(open, id))
    <3>1. OpenAfter(msg, ok) = r
      BY <1>4, <2>3 DEF OpenAfter, FirstOf
    <3>2. /\ r \in Seq(Nat)
          /\ HasTwice(open, id) => Has(r, id)
          /\ \A x : x # id /\ Has(open, x) => Has(r, x)
          /\ \A x : x # id /\ HasTwice(open, x) => HasTwice(r, x)
      BY <1>0, <2>3, RemovedHas
    <3> HIDE DEF r, id, pair
    <3>3. ASSUME NEW x \in hid \ {pair} PROVE Has(r, x[1])
      <4>1. CASE x[1] = id
        <5>1. HasTwice(open, pair[1])
          BY <2>1, <2>2, <3>3, <4>1 DEF OpenCovers
        <5> QED BY <2>2, <3>2, <4>1, <5>1
      <4>2. CASE x[1] # id
        BY <3>2, <3>3, <4>2 DEF OpenCovers
      <4> QED BY <4>1, <4>2
    <3>4. ASSUME NEW x \in s.hid \ {pair}, NEW y \in hid \ {pair}, x[1] = y[1], x # y
          PROVE  HasTwice(r, x[1])
      <4>1. x[1] # id
        BY <2>1, <2>2, <3>4 DEF OneEach
      <4>2. HasTwice(open, x[1])
        BY <3>4 DEF OpenCovers
      <4> QED BY <3>2, <4>1, <4>2
    <3>5. OpenCovers(hid \ {pair}, r, s.hid \ {pair})
      BY <3>3, <3>4 DEF OpenCovers
    <3> QED BY <1>4, <2>1, <3>1, <3>2, <3>5
  <2>4. CASE ~Contains(open, id)
    <3>1. OpenAfter(msg, ok) = open
      BY <1>4, <2>4 DEF OpenAfter
    <3>2. OpenCovers(hid \ {pair}, open, s.hid \ {pair})
      BY DEF OpenCovers
    <3> QED BY <1>4, <2>1, <3>1, <3>2
  <2> QED BY <2>3, <2>4
<1>5. CASE msg.type = "destroy" /\ ok = FALSE
  <2>1. OpenAfter(msg, ok) = open /\ known = s.hid \ {pair}
    BY <1>5 DEF OpenAfter, After
  <2>2. OpenCovers(hid, open, s.hid \ {pair})
    BY DEF OpenCovers
  <2> QED BY <1>5, <2>1, <2>2
<1> QED BY <1>0, <1>1, <1>2, <1>3, <1>4, <1>5

(* What the AOA thread leaves alone. *)
AoaAlone ==
  /\ UNCHANGED <<mode, im, kb, slots, queue, controller, answers, acksync>>
  /\ aoa.at # "ended" /\ mode = "aoa"

(* Only its side and what the device has are left to show. *)
LEMMA AoaSide ==
  ASSUME FInv, CInv', AoaAlone, device' \in Devices, device'.set = device.set,
         aoa'.queue \in Seq(HidMessages), aoa'.open \in Seq(Nat),
         aoa'.at = "ack" => aoa'.event \in HidMessages /\ AwaitsAck(aoa'.event),
         lossy' \in [report : BOOLEAN, lock : BOOLEAN, usb : BOOLEAN],
         DeviceCanFollow', UsbFollows'
  PROVE  FInv'
<1>0. DataOK /\ SocketFollows /\ Acked
  BY DEF FInv
<1>1. /\ SocketGoal' = SocketGoal /\ SocketView' = SocketView
      /\ SocketMessages' = SocketMessages
  BY DEF AoaAlone, SocketGoal, SocketView, NoHid, SocketMessages
<1>2. DataOK'
  BY <1>0, <1>1 DEF AoaAlone, DataOK, AwaitsAck
<1>3. SocketFollows' /\ Acked'
  BY <1>0, <1>1 DEF AoaAlone, SocketFollows, Acked
<1> QED BY <1>2, <1>3 DEF FInv

(* The thread takes the first of what it has and what is queued. *)
LEMMA AoaFirst ==
  ASSUME FInv, aoa.at \in {"run", "ack"}, aoa.at = "run" => aoa.queue # <<>>
  PROVE  LET q == Taken \o aoa.queue
             event == IF aoa.at = "run" THEN Head(aoa.queue) ELSE aoa.event
             rest == IF aoa.at = "run" THEN Tail(aoa.queue) ELSE aoa.queue
         IN /\ mode = "aoa" /\ q \in Seq(Messages) /\ q # <<>>
            /\ event = Head(q) /\ event \in HidMessages
            /\ rest = Tail(q) /\ rest \in Seq(HidMessages)
            /\ aoa.open \in Seq(Nat)
<1>0. DataOK
  BY DEF FInv
<1>1. mode = "aoa" /\ aoa.open \in Seq(Nat) /\ aoa.queue \in Seq(HidMessages)
  BY <1>0 DEF DataOK
<1> DEFINE queued == aoa.queue
<1>2. CASE aoa.at = "run"
  <2>1. Taken = <<>>
    BY <1>2 DEF Taken
  <2>2. queued \in Seq(HidMessages) /\ queued # <<>>
    BY <1>1, <1>2
  <2> HIDE DEF queued
  <2>3. <<>> \o queued = queued /\ Head(queued) \in HidMessages
        /\ Tail(queued) \in Seq(HidMessages) /\ queued \in Seq(Messages)
    BY <2>2, HidMessagesAre
  <2> QED BY <1>1, <1>2, <2>1, <2>2, <2>3 DEF queued
<1>3. CASE aoa.at = "ack"
  <2> DEFINE event == aoa.event
  <2>1. Taken = <<event>> /\ event \in HidMessages
    BY <1>0, <1>3 DEF Taken, DataOK
  <2>2. queued \in Seq(HidMessages)
    BY <1>1
  <2> HIDE DEF queued, event
  <2> DEFINE q == <<event>> \o queued
  <2>3. /\ q \in Seq(HidMessages) /\ Len(q) = Len(queued) + 1 /\ q[1] = event
        /\ \A i \in 1..Len(queued) : q[i + 1] = queued[i]
    BY <2>1, <2>2
  <2> HIDE DEF q
  <2>4. /\ q # <<>> /\ Head(q) = event /\ Tail(q) \in Seq(HidMessages)
        /\ Len(Tail(q)) = Len(queued)
        /\ \A i \in 1..Len(queued) : Tail(q)[i] = queued[i]
    BY <2>2, <2>3
  <2>5. Tail(q) = queued
    BY <2>2, <2>4
  <2>6. q \in Seq(Messages)
    BY <2>3, HidMessagesAre
  <2> QED BY <1>1, <1>3, <2>1, <2>2, <2>4, <2>5, <2>6 DEF queued, event, q
<1> QED BY <1>2, <1>3

(* An event is transferred, or its transfer fails. *)
LEMMA ProcessFollows ==
  ASSUME FInv, CInv', aoa.at \in {"run", "ack"}, aoa.at = "run" => aoa.queue # <<>>,
         NEW event, event = IF aoa.at = "run" THEN Head(aoa.queue) ELSE aoa.event,
         AwaitsAck(event) => event.ack <= device.set,
         AoaProcesses(event), AoaAlone
  PROVE  FInv'
<1>0. /\ DataOK /\ UsbFollows /\ HidDevicesMatch /\ FingerIsDown /\ PasteIsFresh
      /\ aoa = [queue |-> aoa.queue, at |-> aoa.at, event |-> aoa.event, open |-> aoa.open]
      /\ device \in Devices /\ lossy \in [report : BOOLEAN, lock : BOOLEAN, usb : BOOLEAN]
  BY DEF FInv, DeviceCanFollow, CInv, TypeInv, DataOK
<1> DEFINE q == Taken \o aoa.queue
           rest == IF aoa.at = "run" THEN Tail(aoa.queue) ELSE aoa.queue
<1>1. /\ mode = "aoa" /\ q \in Seq(Messages) /\ q # <<>>
      /\ event = Head(q) /\ event \in HidMessages
      /\ rest = Tail(q) /\ rest \in Seq(HidMessages)
      /\ aoa.open \in Seq(Nat)
  BY AoaFirst
<1>2. PICK ok \in BOOLEAN :
        /\ Transfers(event, ok)
        /\ device' = IF ok THEN Takes(device, event) ELSE device
        /\ aoa' = [aoa EXCEPT !.queue = IF aoa.at = "run" THEN Tail(@) ELSE @,
                              !.at = "run", !.event = None,
                              !.open = OpenAfter(event, ok)]
        /\ lossy' = [lossy EXCEPT !.usb = @ \/ ~ok]
  BY DEF AoaProcesses
<1>3. /\ aoa'.queue = rest /\ aoa'.at = "run" /\ aoa'.open = OpenAfter(event, ok)
      /\ lossy'.report = lossy.report /\ lossy'.usb = (lossy.usb \/ ~ok)
      /\ lossy' \in [report : BOOLEAN, lock : BOOLEAN, usb : BOOLEAN]
  BY <1>0, <1>2
<1>4. PICK s, e \in Views :
         /\ UsbView(s) /\ OpenCovers(device.hid, aoa.open, s.hid)
         /\ Leads(s, q, e, lossy.report) /\ UsbGoal(e)
  BY <1>0, <1>1 DEF UsbFollows
<1> HIDE DEF q, rest
<1> DEFINE t == After(s, event)
<1>5. /\ Legal(s, event, lossy.report) /\ t \in Views
      /\ Leads(t, Tail(q), e, lossy.report)
  BY <1>1, <1>4, LeadsPop
<1>6. event \in Messages /\ event.type \in {"create", "destroy", "input"}
  BY <1>1, MessageFields DEF Messages
<1>7. ok = FALSE => ~lossy.usb /\ event.type # "input"
  BY <1>2 DEF Transfers
<1>8. ~lossy.usb => s.hid = device.hid
  BY <1>4 DEF UsbView
<1>9. /\ t.set \in Nat /\ device.set \in Nat
      /\ lossy.report \/ t.set <= device.set
  BY <1>0, <1>4, <1>5, <1>6 DEF UsbView, After, AwaitsAck, Views, Devices
(* The device. *)
<1>10. /\ device' \in Devices /\ device'.set = device.set
       /\ device'.hid = IF ok THEN After(ViewOf(device), event).hid ELSE device.hid
       /\ "finger" \in device'.bad => "finger" \in device.bad
       /\ lossy.report \/ ("paste" \in device'.bad => "paste" \in device.bad)
       /\ lossy'.usb \/ ("hid" \in device'.bad => "hid" \in device.bad)
  <2>1. CASE ok = FALSE
    BY <1>0, <1>2, <2>1
  <2>2. CASE ok = TRUE /\ event.type # "input"
    <3>1. device' = Takes(device, event)
      BY <1>2, <2>2
    <3>2. /\ device' \in Devices /\ ViewOf(device') = After(ViewOf(device), event)
          /\ device'.bad \in {device.bad, device.bad \cup {"hid"}}
          /\ Legal(ViewOf(device), event, FALSE) => device'.bad = device.bad
      BY <1>0, <1>6, <2>2, <3>1, TakesPlain
    <3>3. lossy.usb \/ Legal(ViewOf(device), event, FALSE)
      BY <1>5, <1>6, <1>8, <2>2 DEF Legal, ViewOf
    <3>4. device'.set = device.set /\ device'.hid = After(ViewOf(device), event).hid
      <4>1. device'.set = After(ViewOf(device), event).set
        BY <3>2 DEF ViewOf
      <4>2. After(ViewOf(device), event).set = device.set
        BY <1>6, <2>2 DEF After, ViewOf
      <4>3. device'.hid = After(ViewOf(device), event).hid
        BY <3>2 DEF ViewOf
      <4> QED BY <4>1, <4>2, <4>3
    <3> QED BY <1>3, <2>2, <3>2, <3>3, <3>4
  <2>3. CASE ok = TRUE /\ event.type = "input"
    <3>1. device' = Takes(device, event)
      BY <1>2, <2>3
    <3>2. /\ device' \in Devices /\ ViewOf(device') = ViewOf(device)
          /\ "finger" \in device'.bad => "finger" \in device.bad
          /\ <<event.id, event.pad>> \in device.hid =>
               ("hid" \in device'.bad => "hid" \in device.bad)
          /\ event.report = None \/ event.report.n <= device.set =>
               ("paste" \in device'.bad => "paste" \in device.bad)
      BY <1>0, <1>6, <2>3, <3>1, TakesInput
    <3>3. lossy.usb \/ <<event.id, event.pad>> \in device.hid
      BY <1>5, <1>8, <2>3 DEF Legal
    <3>4. lossy.report \/ event.report = None \/ event.report.n <= device.set
      <4>1. event.report = None \/ event.report.n \in Nat
        BY <1>6, <2>3, MessageFields DEF Reports
      <4>2. lossy.report \/ event.report = None \/ event.report.n <= t.set
        BY <1>5, <2>3 DEF Legal
      <4> HIDE DEF t
      <4> QED BY <1>9, <4>1, <4>2
    <3>5. device'.set = device.set /\ device'.hid = After(ViewOf(device), event).hid
      BY <2>3, <3>2 DEF ViewOf, After
    <3> QED BY <1>3, <2>3, <3>2, <3>3, <3>4, <3>5
  <2> QED BY <2>1, <2>2, <2>3
<1>11. DeviceCanFollow'
  BY <1>0, <1>1, <1>3, <1>10 DEF AoaAlone, DeviceCanFollow, HidDevicesMatch, FingerIsDown,
                                 PasteIsFresh
(* The thread's side. *)
<1>12. UsbView(t)'
  <2>1. t.finger = FALSE
    BY <1>4, <1>6 DEF UsbView, After
  <2>2. OneEach(t.hid)
    <3>1. OneEach(s.hid)
      BY <1>4 DEF UsbView
    <3>2. CASE event.type = "create"
      <4>1. t.hid = s.hid \cup {<<event.id, event.pad>>}
        BY <3>2 DEF After
      <4>2. ASSUME NEW x \in s.hid PROVE x[1] # event.id
        <5>1. x \in Nat \X (Pads \cup {None})
          BY DEF Views
        <5>2. x = <<x[1], x[2]>> /\ x[2] \in Pads \cup {None}
          BY <5>1
        <5>3. <<event.id, x[2]>> \notin s.hid
          BY <1>5, <3>2, <5>2 DEF Legal
        <5> QED BY <5>2, <5>3
      <4> QED BY <3>1, <4>1, <4>2 DEF OneEach
    <3>3. CASE event.type # "create"
      <4>1. t.hid \subseteq s.hid
        BY <3>3 DEF After
      <4> QED BY <3>1, <4>1 DEF OneEach
    <3> QED BY <3>2, <3>3
  <2>3. ~lossy'.usb => t.hid = device'.hid
    <3>1. ASSUME ~lossy'.usb PROVE ok = TRUE /\ s.hid = device.hid
      BY <1>3, <1>8, <3>1
    <3>2. s.hid = device.hid => After(ViewOf(device), event).hid = t.hid
      BY DEF After, ViewOf
    <3> HIDE DEF t
    <3> QED BY <1>10, <3>1, <3>2
  <2> HIDE DEF t
  <2> QED BY <1>3, <1>9, <1>10, <2>1, <2>2, <2>3 DEF UsbView
<1>13. OpenAfter(event, ok) \in Seq(Nat) /\ OpenCovers(device'.hid, OpenAfter(event, ok), t.hid)
  <2> DEFINE bare == [hid |-> device.hid, finger |-> FALSE, set |-> 0]
  <2>1. device.hid \in SUBSET (Nat \X (Pads \cup {None}))
    BY <1>0 DEF Devices
  <2>2. ok = FALSE => s.hid = device.hid
    BY <1>7, <1>8
  <2>3. OneEach(s.hid)
    BY <1>4 DEF UsbView
  <2>4. /\ OpenAfter(event, ok) \in Seq(Nat)
        /\ OpenCovers(IF ok THEN After(bare, event).hid ELSE device.hid,
                      OpenAfter(event, ok), t.hid)
    BY <1>1, <1>4, <1>5, <2>1, <2>2, <2>3, OpenStillCovers
  <2>5. After(bare, event).hid = After(ViewOf(device), event).hid
    BY DEF After, ViewOf
  <2> HIDE DEF bare, t
  <2> QED BY <1>10, <2>4, <2>5
<1>14. UsbFollows'
  <2>1. Taken' \o aoa'.queue = Tail(q)
    <3>1. Taken' = <<>> /\ aoa'.queue = rest /\ rest \in Seq(HidMessages)
      BY <1>1, <1>3 DEF Taken
    <3> QED BY <1>1, <3>1
  <2>2. UsbGoal(e)'
    <3>1. Registered' = Registered
      BY DEF AoaAlone, Registered, Slots
    <3> QED BY <1>3, <1>4, <3>1 DEF AoaAlone, UsbGoal
  <2> HIDE DEF t
  <2>3. mode' = "aoa" /\ aoa'.at # "ended"
    BY <1>3 DEF AoaAlone
  <2>4. /\ OpenCovers(device'.hid, aoa'.open, t.hid)
        /\ Leads(t, Taken' \o aoa'.queue, e, lossy'.report)
    BY <1>3, <1>5, <1>13, <2>1
  <2> QED BY <1>4, <1>5, <1>12, <2>2, <2>3, <2>4 DEF UsbFollows
<1> QED BY <1>1, <1>3, <1>10, <1>11, <1>13, <1>14, AoaSide

(* The thread takes a report that must wait. *)
LEMMA AwaitFollows ==
  ASSUME FInv, AoaAwaits, CInv'
  PROVE  FInv'
<1>0. /\ DataOK /\ UsbFollows /\ DeviceCanFollow
      /\ aoa = [queue |-> aoa.queue, at |-> aoa.at, event |-> aoa.event, open |-> aoa.open]
  BY DEF FInv, CInv, TypeInv
<1> DEFINE event == Head(aoa.queue)
<1>1. /\ aoa.at = "run" /\ aoa.queue # <<>> /\ AwaitsAck(event)
      /\ aoa' = [aoa EXCEPT !.queue = Tail(@), !.at = "ack", !.event = event]
      /\ UNCHANGED <<mode, im, kb, slots, queue, controller, acksync, answers, device, lossy>>
  BY DEF AoaAwaits, ui, outside
<1>2. /\ aoa'.queue = Tail(aoa.queue) /\ aoa'.at = "ack" /\ aoa'.event = event
      /\ aoa'.open = aoa.open
  BY <1>0, <1>1
<1>3. /\ mode = "aoa" /\ aoa.queue \in Seq(HidMessages) /\ aoa.open \in Seq(Nat)
      /\ event \in HidMessages /\ Tail(aoa.queue) \in Seq(HidMessages)
      /\ device \in Devices /\ lossy \in [report : BOOLEAN, lock : BOOLEAN, usb : BOOLEAN]
  BY <1>0, <1>1, AoaFirst DEF DataOK
<1>4. Taken' \o aoa'.queue = Taken \o aoa.queue
  <2>1. Taken' = <<event>> /\ Taken = <<>>
    BY <1>1, <1>2 DEF Taken
  <2> DEFINE queued == aoa.queue
  <2>2. queued \in Seq(HidMessages) /\ queued # <<>>
    BY <1>1, <1>3
  <2> HIDE DEF queued
  <2>3. <<Head(queued)>> \o Tail(queued) = queued /\ <<>> \o queued = queued
    BY <2>2
  <2> QED BY <1>2, <2>1, <2>3 DEF queued
<1>5. PICK s, e \in Views :
         /\ UsbView(s) /\ OpenCovers(device.hid, aoa.open, s.hid)
         /\ Leads(s, Taken \o aoa.queue, e, lossy.report) /\ UsbGoal(e)
  BY <1>0, <1>1, <1>3 DEF UsbFollows
<1>6. UsbView(s)' /\ UsbGoal(e)'
  BY <1>1, <1>5 DEF UsbView, UsbGoal, Registered, Slots
<1>7. UsbFollows'
  BY <1>1, <1>2, <1>3, <1>4, <1>5, <1>6 DEF UsbFollows
<1>8. DeviceCanFollow'
  BY <1>0, <1>1 DEF DeviceCanFollow, HidDevicesMatch, FingerIsDown, PasteIsFresh
<1>9. AoaAlone
  BY <1>1, <1>3 DEF AoaAlone
<1> HIDE DEF event
<1> QED BY <1>1, <1>2, <1>3, <1>7, <1>8, <1>9, AoaSide

(* The report is given up; the clipboard it waited for is taken as set. *)
LEMMA TimeOutFollows ==
  ASSUME FInv, AoaTimesOut, CInv'
  PROVE  FInv'
<1>0. /\ DataOK /\ UsbFollows /\ DeviceCanFollow
      /\ aoa = [queue |-> aoa.queue, at |-> aoa.at, event |-> aoa.event, open |-> aoa.open]
  BY DEF FInv, CInv, TypeInv
<1>1. /\ aoa.at = "ack"
      /\ aoa' = [aoa EXCEPT !.at = "run", !.event = None]
      /\ lossy' = [lossy EXCEPT !.report = TRUE]
      /\ UNCHANGED <<mode, im, kb, slots, queue, controller, acksync, answers, device>>
  BY DEF AoaTimesOut, ui, outside
<1>2. /\ aoa'.queue = aoa.queue /\ aoa'.at = "run" /\ aoa'.open = aoa.open
  BY <1>0, <1>1
<1> DEFINE q == Taken \o aoa.queue
<1>e. PICK event : event = aoa.event
  OBVIOUS
<1>3. /\ mode = "aoa" /\ aoa.queue \in Seq(HidMessages) /\ aoa.open \in Seq(Nat)
      /\ q \in Seq(Messages) /\ q # <<>> /\ event = Head(q) /\ event \in HidMessages
      /\ aoa.queue = Tail(q) /\ AwaitsAck(event)
      /\ device \in Devices /\ lossy \in [report : BOOLEAN, lock : BOOLEAN, usb : BOOLEAN]
  BY <1>0, <1>1, <1>e, AoaFirst DEF DataOK
<1>4. /\ lossy'.report = TRUE /\ lossy'.usb = lossy.usb
      /\ lossy' \in [report : BOOLEAN, lock : BOOLEAN, usb : BOOLEAN]
  BY <1>1, <1>3
<1>5. PICK s, e \in Views :
         /\ UsbView(s) /\ OpenCovers(device.hid, aoa.open, s.hid)
         /\ Leads(s, q, e, lossy.report) /\ UsbGoal(e)
  BY <1>0, <1>1, <1>3 DEF UsbFollows
<1> HIDE DEF q
<1> DEFINE t == After(s, event)
<1>6. t \in Views /\ Leads(t, Tail(q), e, lossy.report)
  BY <1>3, <1>5, LeadsPop
<1>7. t.hid = s.hid /\ t.finger = s.finger
  BY <1>3 DEF AwaitsAck, After
<1> HIDE DEF t
<1>8. Leads(t, Tail(q), e, lossy'.report)
  BY <1>0, <1>4, <1>6, StillLeads
<1>9. UsbView(t)' /\ UsbGoal(e)'
  <2>1. t.finger = FALSE /\ OneEach(t.hid) /\ (~lossy.usb => t.hid = device.hid)
    BY <1>5, <1>7 DEF UsbView, OneEach
  <2>2. e.hid = Registered /\ e.finger = FALSE /\ Registered' = Registered
    BY <1>1, <1>5 DEF UsbGoal, Registered, Slots
  <2> QED BY <1>1, <1>4, <2>1, <2>2 DEF UsbView, UsbGoal
<1>10. Taken' \o aoa'.queue = Tail(q)
  <2>1. Taken' = <<>> /\ aoa'.queue = Tail(q) /\ aoa'.queue \in Seq(HidMessages)
    BY <1>2, <1>3 DEF Taken
  <2> QED BY <2>1
<1>11. UsbFollows'
  <2>1. /\ OpenCovers(device'.hid, aoa'.open, t.hid)
        /\ Leads(t, Taken' \o aoa'.queue, e, lossy'.report)
    BY <1>1, <1>2, <1>5, <1>7, <1>8, <1>10
  <2>2. mode' = "aoa" /\ aoa'.at # "ended"
    BY <1>1, <1>2, <1>3
  <2> QED BY <1>6, <1>9, <2>1, <2>2 DEF UsbFollows
<1>12. DeviceCanFollow'
  BY <1>0, <1>1, <1>3, <1>4 DEF DeviceCanFollow, HidDevicesMatch, FingerIsDown, PasteIsFresh
<1>13. AoaAlone
  BY <1>1, <1>3 DEF AoaAlone
<1> QED BY <1>1, <1>2, <1>3, <1>4, <1>11, <1>12, <1>13, AoaSide

(* vec_open has every device that is registered: none is left. *)
LEMMA EndFollows ==
  ASSUME FInv, AoaEnds, CInv'
  PROVE  FInv'
<1>0. /\ DataOK /\ UsbFollows /\ DeviceCanFollow
      /\ aoa = [queue |-> aoa.queue, at |-> aoa.at, event |-> aoa.event, open |-> aoa.open]
  BY DEF FInv, CInv, TypeInv
<1>1. /\ aoa.at \in {"run", "ack"}
      /\ aoa' = [aoa EXCEPT !.at = "ended", !.event = None]
      /\ device' = [device EXCEPT !.hid = {h \in @ : ~Contains(aoa.open, h[1])}]
      /\ UNCHANGED <<mode, im, kb, slots, queue, controller, acksync, answers, lossy>>
  BY DEF AoaEnds, ui
<1>2. aoa'.queue = aoa.queue /\ aoa'.at = "ended" /\ aoa'.open = aoa.open
  BY <1>0, <1>1
<1>3. /\ mode = "aoa" /\ aoa.queue \in Seq(HidMessages) /\ aoa.open \in Seq(Nat)
      /\ device \in Devices /\ lossy \in [report : BOOLEAN, lock : BOOLEAN, usb : BOOLEAN]
  BY <1>0, <1>1 DEF DataOK
<1>4. PICK s, e \in Views :
         /\ UsbView(s) /\ OpenCovers(device.hid, aoa.open, s.hid)
         /\ Leads(s, Taken \o aoa.queue, e, lossy.report) /\ UsbGoal(e)
  BY <1>0, <1>1, <1>3 DEF UsbFollows
<1>5. {h \in device.hid : ~Contains(aoa.open, h[1])} = {}
  BY <1>4 DEF OpenCovers, Has, Contains
<1>6. device' = [device EXCEPT !.hid = {}]
  BY <1>1, <1>5
<1>7. /\ device'.hid = {} /\ device'.set = device.set /\ device'.bad = device.bad
      /\ device' \in Devices
  BY <1>3, <1>6 DEF Devices
<1>8. UsbFollows'
  BY <1>2, <1>7 DEF UsbFollows
<1>9. DeviceCanFollow'
  BY <1>0, <1>1, <1>7 DEF DeviceCanFollow, HidDevicesMatch, FingerIsDown, PasteIsFresh
<1>10. AoaAlone
  BY <1>1, <1>3 DEF AoaAlone
<1> QED BY <1>1, <1>2, <1>3, <1>7, <1>8, <1>9, <1>10, AoaSide

(* Every turn of the AOA thread preserves the invariant. *)
LEMMA AoaThreadFollows ==
  ASSUME FInv, AoaThread, CInv'
  PROVE  FInv'
<1>0. DataOK /\ Acked
  BY DEF FInv
<1>1. CASE AoaWaits
  BY <1>1, OthersMoveOn, MovesOnFollows
<1>2. CASE AoaSends
  <2>1. /\ aoa.at = "run" /\ aoa.queue # <<>> /\ ~AwaitsAck(Head(aoa.queue))
        /\ AoaProcesses(Head(aoa.queue))
        /\ UNCHANGED <<mode, im, kb, slots, queue, controller, answers, acksync>>
    BY <1>2 DEF AoaSends, ui
  <2>2. AoaAlone
    BY <1>0, <2>1 DEF AoaAlone, DataOK
  <2> QED BY <2>1, <2>2, ProcessFollows
<1>3. CASE AoaAwaits
  BY <1>3, AwaitFollows
<1>4. CASE AoaAcked
  <2>1. /\ aoa.at = "ack" /\ acksync >= aoa.event.ack /\ AoaProcesses(aoa.event)
        /\ UNCHANGED <<mode, im, kb, slots, queue, controller, answers, acksync>>
    BY <1>4 DEF AoaAcked, ui
  <2>2. AoaAlone
    BY <1>0, <2>1 DEF AoaAlone, DataOK
  <2>3. aoa.event.ack <= device.set
    <3>1. aoa.event \in HidMessages /\ aoa.event.type = "input"
      BY <1>0, <2>1 DEF DataOK, AwaitsAck
    <3>2. aoa.event.ack \in Nat
      BY <3>1, MessageFields DEF Messages
    <3> QED BY <1>0, <2>1, <3>2 DEF Acked, DataOK, Devices
  <2> QED BY <2>1, <2>2, <2>3, ProcessFollows
<1>5. CASE AoaTimesOut
  BY <1>5, TimeOutFollows
<1>6. CASE AoaEnds
  BY <1>6, EndFollows
<1> QED BY <1>1, <1>2, <1>3, <1>4, <1>5, <1>6 DEF AoaThread

(* Every step preserves the invariant. *)
LEMMA StepFollows == FInv /\ [Next]_vars => FInv'
<1> SUFFICES ASSUME FInv, [Next]_vars PROVE FInv'
  OBVIOUS
<1>0. CInv'
  BY StepCInv DEF FInv
<1>1. CASE UserInput
  BY <1>0, <1>1, UserFollows
<1>2. CASE \/ RunTask \/ StopTasks \/ Stops \/ Unplug
           \/ ControllerWaits \/ ControllerResizes \/ ControllerEnds
           \/ ReceiverEnds \/ UNCHANGED vars
  BY <1>0, <1>2, OthersMoveOn, MovesOnFollows
<1>3. CASE ControllerSends
  BY <1>0, <1>3, SendFollows
<1>4. CASE ReceiverTakes
  BY <1>0, <1>4, ReceiverMovesOn, MovesOnFollows
<1>5. CASE AoaThread
  BY <1>0, <1>5, AoaThreadFollows
<1> QED BY <1>1, <1>2, <1>3, <1>4, <1>5 DEF Next, ControllerThread, ReceiverThread

-----------------------------------------------------------------------------
(* What the keyboard knows of the locks: the invariant.                    *)

Keys == SUBSET {"caps", "v"}

(* The keys that are down after a message, and that the lock key goes up with it. *)
KeysAfter(keys, msg) ==
  IF msg.type = "input" /\ msg.report # None /\ msg.report.keys # None
  THEN msg.report.keys ELSE keys

Released(keys, msg) == "caps" \in keys /\ "caps" \notin KeysAfter(keys, msg)

(* With the keys s down, the messages of q lead to the keys e, by way of t. *)
KeysLead(s, q, e, t) ==
  /\ t[0] = s /\ t[Len(q)] = e
  /\ \A i \in 1..Len(q) : t[i] = KeysAfter(t[i - 1], q[i])

(* They leave the lock as it is; the lock key goes up with one of them. *)
LeavesLock(s, q, e) ==
  \E t \in [0..Len(q) -> Keys] :
    KeysLead(s, q, e, t) /\ \A i \in 1..Len(q) : ~Released(t[i - 1], q[i])

TogglesLock(s, q, e) ==
  \E t \in [0..Len(q) -> Keys] :
    KeysLead(s, q, e, t) /\ \E i \in 1..Len(q) : Released(t[i - 1], q[i])

(* Some answer tells of the lock; the last that does says v. *)
HasLed(s) == \E i \in 1..Len(s) : s[i].type = "led"

LastLed(s, v) ==
  \A i \in 1..Len(s) :
    s[i].type = "led" /\ (\A j \in 1..Len(s) : j > i => s[j].type # "led") => s[i].lock = v

(* What has been answered last is the lock the device has. *)
LedsTell ==
  LastLed(answers, device.lock) /\ (~HasLed(answers) => LastLed(tasks, device.lock))

(* What the keyboard knows is the device's lock when no LED is on its way, and
   no release of the lock key. *)
Knows ==
  "caps" \notin kb.keys /\ ~HasLed(tasks) /\ ~HasLed(answers) => kb.lock = device.lock

LockFollows ==
  \E e \in Keys :
    /\ "caps" \in e <=> "caps" \in kb.keys
    /\ \/ TogglesLock(device.keys, queue, e)
       \/ LeavesLock(device.keys, queue, e) /\ Knows

Undisturbed ==
  mode = "uhid" /\ phase = Loop /\ link /\ ~lossy.report /\ ~lossy.lock

(* As long as nothing has disturbed it (the exceptions of LocksAreKnown), what
   has been answered, what is queued and what the keyboard knows agree, and the
   keyboard has the lock key down when the user has. *)
LInv ==
  /\ user = [held |-> user.held, lock |-> user.lock, pads |-> user.pads,
             button |-> user.button, kinds |-> user.kinds, inputs |-> user.inputs]
  /\ tasks \in Seq(Answers)
  /\ Undisturbed =>
       LedsTell /\ LockFollows /\ ("caps" \in user.held => "caps" \in kb.keys)

(* A message leaves some of the keys down. *)
LEMMA KeysAfterType ==
  ASSUME NEW keys \in Keys, NEW msg \in Messages
  PROVE  KeysAfter(keys, msg) \in Keys
<1>1. CASE msg.type = "input" /\ msg.report # None /\ msg.report.keys # None
  <2>1. msg.report \in Reports
    BY <1>1, MessageFields
  <2>2. msg.report.keys \in Keys
    BY <1>1, <2>1 DEF Reports, Keys
  <2> QED BY <1>1, <2>2 DEF KeysAfter
<1>2. CASE ~(msg.type = "input" /\ msg.report # None /\ msg.report.keys # None)
  BY <1>2 DEF KeysAfter
<1> QED BY <1>1, <1>2

(* Nothing is sent. *)
LEMMA LockLeft ==
  ASSUME NEW s \in Keys
  PROVE  /\ LeavesLock(s, <<>>, s)
         /\ \A e : ~TogglesLock(s, <<>>, e)
<1> DEFINE t == [i \in 0..0 |-> s]
<1>1. t \in [0..0 -> Keys] /\ t[0] = s /\ Len(<<>>) = 0 /\ 1..0 = {}
  OBVIOUS
<1> HIDE DEF t
<1> QED BY <1>1 DEF LeavesLock, TogglesLock, KeysLead

(* One more message: the keys go by the same way, and on to what it leaves down. *)
LEMMA KeysLeadOn ==
  ASSUME NEW q \in Seq(Messages), NEW msg \in Messages, NEW s, NEW e,
         NEW t \in [0..Len(q) -> Keys], KeysLead(s, q, e, t)
  PROVE  \E u \in [0..Len(Append(q, msg)) -> Keys] :
           /\ KeysLead(s, Append(q, msg), KeysAfter(e, msg), u)
           /\ \A i \in 1..Len(q) :
                Released(u[i - 1], Append(q, msg)[i]) <=> Released(t[i - 1], q[i])
           /\ Released(u[Len(q)], Append(q, msg)[Len(q) + 1]) <=> Released(e, msg)
<1> DEFINE r == Append(q, msg)
           u == [i \in 0..Len(r) |-> IF i <= Len(q) THEN t[i] ELSE KeysAfter(e, msg)]
<1>1. /\ t[0] = s /\ t[Len(q)] = e
      /\ \A i \in 1..Len(q) : t[i] = KeysAfter(t[i - 1], q[i])
  BY DEF KeysLead
<1>2. /\ Len(q) \in Nat /\ Len(r) = Len(q) + 1 /\ r[Len(r)] = msg
      /\ \A i \in 1..Len(q) : r[i] = q[i]
  OBVIOUS
<1>3. e \in Keys /\ KeysAfter(e, msg) \in Keys
  BY <1>1, <1>2, KeysAfterType
<1>4. /\ u \in [0..Len(r) -> Keys] /\ u[0] = s /\ u[Len(r)] = KeysAfter(e, msg)
      /\ u[Len(q)] = e
      /\ \A i \in 1..Len(q) : u[i] = t[i] /\ u[i - 1] = t[i - 1]
  BY <1>1, <1>2, <1>3
<1> HIDE DEF u, r
<1>5. ASSUME NEW i \in 1..Len(r) PROVE u[i] = KeysAfter(u[i - 1], r[i])
  <2>1. CASE i \in 1..Len(q)
    BY <1>1, <1>2, <1>4, <2>1
  <2>2. CASE i = Len(r)
    BY <1>2, <1>4, <2>2
  <2> QED BY <1>2, <2>1, <2>2
<1>6. KeysLead(s, r, KeysAfter(e, msg), u)
  BY <1>4, <1>5 DEF KeysLead
<1>7. /\ \A i \in 1..Len(q) : Released(u[i - 1], r[i]) <=> Released(t[i - 1], q[i])
      /\ Released(u[Len(q)], r[Len(q) + 1]) <=> Released(e, msg)
  BY <1>2, <1>4
<1> QED BY <1>4, <1>6, <1>7 DEF r

(* The lock is toggled when the lock key was down and the message lifts it. *)
LEMMA LockAppend ==
  ASSUME NEW q \in Seq(Messages), NEW msg \in Messages, NEW s, NEW e
  PROVE  /\ TogglesLock(s, q, e) => TogglesLock(s, Append(q, msg), KeysAfter(e, msg))
         /\ LeavesLock(s, q, e) /\ Released(e, msg) =>
              TogglesLock(s, Append(q, msg), KeysAfter(e, msg))
         /\ LeavesLock(s, q, e) /\ ~Released(e, msg) =>
              LeavesLock(s, Append(q, msg), KeysAfter(e, msg))
<1> DEFINE r == Append(q, msg)
<1>0. Len(q) \in Nat /\ Len(r) = Len(q) + 1
  OBVIOUS
<1>1. ASSUME NEW t \in [0..Len(q) -> Keys], KeysLead(s, q, e, t)
      PROVE  \E u \in [0..Len(r) -> Keys] :
           /\ KeysLead(s, r, KeysAfter(e, msg), u)
           /\ \A i \in 1..Len(q) : Released(u[i - 1], r[i]) <=> Released(t[i - 1], q[i])
           /\ Released(u[Len(q)], r[Len(q) + 1]) <=> Released(e, msg)
  BY <1>1, KeysLeadOn
<1> HIDE DEF r
<1>2. ASSUME TogglesLock(s, q, e) PROVE TogglesLock(s, r, KeysAfter(e, msg))
  <2>1. PICK t \in [0..Len(q) -> Keys] :
          KeysLead(s, q, e, t) /\ \E i \in 1..Len(q) : Released(t[i - 1], q[i])
    BY <1>2 DEF TogglesLock
  <2>2. PICK u \in [0..Len(r) -> Keys] :
           /\ KeysLead(s, r, KeysAfter(e, msg), u)
           /\ \A i \in 1..Len(q) : Released(u[i - 1], r[i]) <=> Released(t[i - 1], q[i])
    BY <1>1, <2>1
  <2>3. \E i \in 1..Len(r) : Released(u[i - 1], r[i])
    <3>1. PICK i \in 1..Len(q) : Released(t[i - 1], q[i])
      BY <2>1
    <3>2. Released(u[i - 1], r[i])
      BY <2>2, <3>1
    <3>3. i \in 1..Len(r)
      BY <1>0
    <3> QED BY <3>2, <3>3
  <2> QED BY <2>2, <2>3 DEF TogglesLock
<1>3. ASSUME LeavesLock(s, q, e)
      PROVE  /\ Released(e, msg) => TogglesLock(s, r, KeysAfter(e, msg))
             /\ ~Released(e, msg) => LeavesLock(s, r, KeysAfter(e, msg))
  <2>1. PICK t \in [0..Len(q) -> Keys] :
          KeysLead(s, q, e, t) /\ \A i \in 1..Len(q) : ~Released(t[i - 1], q[i])
    BY <1>3 DEF LeavesLock
  <2>2. PICK u \in [0..Len(r) -> Keys] :
           /\ KeysLead(s, r, KeysAfter(e, msg), u)
           /\ \A i \in 1..Len(q) : Released(u[i - 1], r[i]) <=> Released(t[i - 1], q[i])
           /\ Released(u[Len(q)], r[Len(q) + 1]) <=> Released(e, msg)
    BY <1>1, <2>1
  <2>3. CASE Released(e, msg)
    <3>1. Len(r) \in 1..Len(r) /\ Len(r) - 1 = Len(q)
      BY <1>0
    <3>2. \E i \in 1..Len(r) : Released(u[i - 1], r[i])
      BY <1>0, <2>2, <2>3, <3>1
    <3> QED BY <2>2, <2>3, <3>2 DEF TogglesLock
  <2>4. CASE ~Released(e, msg)
    <3>1. ASSUME NEW i \in 1..Len(r) PROVE ~Released(u[i - 1], r[i])
      <4>1. CASE i \in 1..Len(q)
        BY <2>1, <2>2, <4>1
      <4>2. CASE i = Len(q) + 1
        BY <1>0, <2>2, <2>4, <4>2
      <4> QED BY <1>0, <4>1, <4>2
    <3> QED BY <2>2, <2>4, <3>1 DEF LeavesLock
  <2> QED BY <2>3, <2>4
<1> QED BY <1>2, <1>3 DEF r

(* The first message is received. *)
LEMMA LockPop ==
  ASSUME NEW q \in Seq(Messages), q # <<>>, NEW s, NEW e
  PROVE  /\ LeavesLock(s, q, e) =>
              ~Released(s, Head(q)) /\ LeavesLock(KeysAfter(s, Head(q)), Tail(q), e)
         /\ TogglesLock(s, q, e) =>
              \/ TogglesLock(KeysAfter(s, Head(q)), Tail(q), e)
              \/ Released(s, Head(q)) /\ LeavesLock(KeysAfter(s, Head(q)), Tail(q), e)
<1> DEFINE r == Tail(q)
<1>0. /\ Len(q) \in Nat \ {0} /\ Len(r) = Len(q) - 1 /\ Head(q) = q[1]
      /\ \A i \in 1..Len(r) : r[i] = q[i + 1]
  OBVIOUS
<1> HIDE DEF r
<1>1. ASSUME NEW t \in [0..Len(q) -> Keys], KeysLead(s, q, e, t)
      PROVE  \E u \in [0..Len(r) -> Keys] :
               /\ KeysLead(KeysAfter(s, Head(q)), r, e, u)
               /\ \A i \in 1..Len(r) : Released(u[i - 1], r[i]) <=> Released(t[i], q[i + 1])
               /\ t[0] = s
  <2> DEFINE u == [i \in 0..Len(r) |-> t[i + 1]]
  <2>1. /\ t[0] = s /\ t[Len(q)] = e
        /\ \A i \in 1..Len(q) : t[i] = KeysAfter(t[i - 1], q[i])
    BY <1>1 DEF KeysLead
  <2>2. 1 \in 1..Len(q) /\ 1 - 1 = 0
    BY <1>0
  <2>3. t[1] = KeysAfter(s, Head(q))
    BY <1>0, <2>1, <2>2
  <2>4. /\ u \in [0..Len(r) -> Keys] /\ u[0] = t[1] /\ u[Len(r)] = e
        /\ \A i \in 1..Len(r) : u[i] = t[i + 1] /\ u[i - 1] = t[i]
    BY <1>0, <2>1
  <2> HIDE DEF u
  <2>5. ASSUME NEW i \in 1..Len(r) PROVE u[i] = KeysAfter(u[i - 1], r[i])
    <3>1. i + 1 \in 1..Len(q) /\ (i + 1) - 1 = i
      BY <1>0
    <3>2. t[i + 1] = KeysAfter(t[i], q[i + 1])
      BY <2>1, <3>1
    <3> QED BY <1>0, <2>4, <3>2
  <2>6. KeysLead(KeysAfter(s, Head(q)), r, e, u)
    BY <2>3, <2>4, <2>5 DEF KeysLead
  <2> QED BY <1>0, <2>1, <2>4, <2>6
<1>2. ASSUME LeavesLock(s, q, e)
      PROVE  ~Released(s, Head(q)) /\ LeavesLock(KeysAfter(s, Head(q)), r, e)
  <2>1. PICK t \in [0..Len(q) -> Keys] :
          KeysLead(s, q, e, t) /\ \A i \in 1..Len(q) : ~Released(t[i - 1], q[i])
    BY <1>2 DEF LeavesLock
  <2>2. PICK u \in [0..Len(r) -> Keys] :
               /\ KeysLead(KeysAfter(s, Head(q)), r, e, u)
               /\ \A i \in 1..Len(r) : Released(u[i - 1], r[i]) <=> Released(t[i], q[i + 1])
               /\ t[0] = s
    BY <1>1, <2>1
  <2>3. ASSUME NEW i \in 1..Len(r) PROVE ~Released(u[i - 1], r[i])
    <3>1. i + 1 \in 1..Len(q) /\ (i + 1) - 1 = i
      BY <1>0
    <3> QED BY <2>1, <2>2, <3>1
  <2>4. ~Released(s, Head(q))
    <3>1. 1 \in 1..Len(q) /\ 1 - 1 = 0
      BY <1>0
    <3> QED BY <1>0, <2>1, <2>2, <3>1
  <2> QED BY <2>2, <2>3, <2>4 DEF LeavesLock
<1>3. ASSUME TogglesLock(s, q, e)
      PROVE  \/ TogglesLock(KeysAfter(s, Head(q)), r, e)
             \/ Released(s, Head(q)) /\ LeavesLock(KeysAfter(s, Head(q)), r, e)
  <2>1. PICK t \in [0..Len(q) -> Keys] :
          KeysLead(s, q, e, t) /\ \E i \in 1..Len(q) : Released(t[i - 1], q[i])
    BY <1>3 DEF TogglesLock
  <2>2. PICK u \in [0..Len(r) -> Keys] :
               /\ KeysLead(KeysAfter(s, Head(q)), r, e, u)
               /\ \A i \in 1..Len(r) : Released(u[i - 1], r[i]) <=> Released(t[i], q[i + 1])
               /\ t[0] = s
    BY <1>1, <2>1
  <2>3. CASE \E i \in 1..Len(r) : Released(u[i - 1], r[i])
    BY <2>2, <2>3 DEF TogglesLock
  <2>4. CASE ~ \E i \in 1..Len(r) : Released(u[i - 1], r[i])
    <3>1. PICK i \in 1..Len(q) : Released(t[i - 1], q[i])
      BY <2>1
    <3>2. i = 1
      <4>1. SUFFICES ASSUME i # 1 PROVE FALSE
        OBVIOUS
      <4>2. i - 1 \in 1..Len(r) /\ (i - 1) + 1 = i
        BY <1>0, <4>1
      <4> QED BY <2>2, <2>4, <3>1, <4>2
    <3>3. Released(s, Head(q))
      BY <1>0, <2>2, <3>1, <3>2
    <3> QED BY <2>2, <2>4, <3>3 DEF LeavesLock
  <2> QED BY <2>3, <2>4
<1> QED BY <1>2, <1>3 DEF r

-----------------------------------------------------------------------------
(* The LEDs that are on their way.                                         *)

(* One more answer, and the first one taken. *)
LEMMA LastLedAppend ==
  ASSUME NEW s \in Seq(Answers), NEW a \in Answers, NEW v
  PROVE  LET r == Append(s, a)
         IN  /\ r \in Seq(Answers)
             /\ a.type # "led" /\ LastLed(s, v) => LastLed(r, v)
             /\ a.type = "led" /\ a.lock = v => LastLed(r, v) /\ HasLed(r)
             /\ a.type # "led" => (HasLed(r) <=> HasLed(s))
<1> DEFINE r == Append(s, a)
<1>1. /\ r \in Seq(Answers) /\ Len(s) \in Nat /\ Len(r) = Len(s) + 1 /\ r[Len(s) + 1] = a
      /\ \A i \in 1..Len(s) : r[i] = s[i]
  OBVIOUS
<1> HIDE DEF r
<1>2. ASSUME a.type # "led", LastLed(s, v) PROVE LastLed(r, v)
  <2>1. ASSUME NEW i \in 1..Len(r), r[i].type = "led",
               \A j \in 1..Len(r) : j > i => r[j].type # "led"
        PROVE  r[i].lock = v
    <3>1. i \in 1..Len(s)
      BY <1>1, <1>2, <2>1
    <3>2. \A j \in 1..Len(s) : j > i => s[j].type # "led"
      BY <1>1, <2>1
    <3> QED BY <1>1, <1>2, <2>1, <3>1, <3>2 DEF LastLed
  <2> QED BY <2>1 DEF LastLed
<1>3. ASSUME a.type = "led", a.lock = v PROVE LastLed(r, v) /\ HasLed(r)
  BY <1>1, <1>3 DEF LastLed, HasLed
<1>4. ASSUME a.type # "led" PROVE HasLed(r) <=> HasLed(s)
  <2>1. ASSUME HasLed(r) PROVE HasLed(s)
    <3>1. PICK i \in 1..Len(r) : r[i].type = "led"
      BY <2>1 DEF HasLed
    <3>2. i \in 1..Len(s)
      BY <1>1, <1>4, <3>1
    <3> QED BY <1>1, <3>1, <3>2 DEF HasLed
  <2>2. ASSUME HasLed(s) PROVE HasLed(r)
    BY <1>1, <2>2 DEF HasLed
  <2> QED BY <2>1, <2>2
<1> QED BY <1>1, <1>2, <1>3, <1>4 DEF r

(* The first answer is taken: when no LED is left, it told the last lock. *)
LEMMA LastLedPop ==
  ASSUME NEW s \in Seq(Answers), s # <<>>, NEW v, LastLed(s, v)
  PROVE  /\ Tail(s) \in Seq(Answers) /\ Head(s) \in Answers
         /\ LastLed(Tail(s), v)
         /\ HasLed(Tail(s)) => HasLed(s)
         /\ Head(s).type = "led" /\ ~HasLed(Tail(s)) => Head(s).lock = v
         /\ Head(s).type # "led" => (HasLed(s) => HasLed(Tail(s)))
<1> DEFINE r == Tail(s)
<1>1. /\ r \in Seq(Answers) /\ Len(s) \in Nat \ {0} /\ Len(r) = Len(s) - 1
      /\ Head(s) = s[1] /\ s[1] \in Answers /\ \A i \in 1..Len(r) : r[i] = s[i + 1]
  OBVIOUS
<1>0. \A i \in 1..Len(s) : i # 1 => i - 1 \in 1..Len(r) /\ (i - 1) + 1 = i
  BY <1>1
<1> HIDE DEF r
<1>2. LastLed(r, v)
  <2>1. ASSUME NEW i \in 1..Len(r), r[i].type = "led",
               \A j \in 1..Len(r) : j > i => r[j].type # "led"
        PROVE  r[i].lock = v
    <3>1. i + 1 \in 1..Len(s) /\ s[i + 1].type = "led"
      BY <1>1, <2>1
    <3>2. ASSUME NEW j \in 1..Len(s), j > i + 1 PROVE s[j].type # "led"
      <4>1. j - 1 \in 1..Len(r) /\ j - 1 > i /\ r[j - 1] = s[j]
        BY <1>0, <1>1, <3>2
      <4> QED BY <2>1, <4>1
    <3> QED BY <1>1, <2>1, <3>1, <3>2 DEF LastLed
  <2> QED BY <2>1 DEF LastLed
<1>3. ASSUME HasLed(r) PROVE HasLed(s)
  <2>1. PICK i \in 1..Len(r) : r[i].type = "led"
    BY <1>3 DEF HasLed
  <2>2. i + 1 \in 1..Len(s) /\ s[i + 1].type = "led"
    BY <1>1, <2>1
  <2> QED BY <2>2 DEF HasLed
<1>4. ASSUME Head(s).type = "led", ~HasLed(r) PROVE Head(s).lock = v
  <2>1. 1 \in 1..Len(s) /\ s[1].type = "led"
    BY <1>1, <1>4
  <2>2. ASSUME NEW j \in 1..Len(s), j > 1 PROVE s[j].type # "led"
    <3>1. j - 1 \in 1..Len(r) /\ r[j - 1] = s[j]
      BY <1>0, <1>1, <2>2
    <3> QED BY <1>4, <3>1 DEF HasLed
  <2> QED BY <1>1, <2>1, <2>2 DEF LastLed
<1>5. ASSUME Head(s).type # "led", HasLed(s) PROVE HasLed(r)
  <2>1. PICK i \in 1..Len(s) : s[i].type = "led"
    BY <1>5 DEF HasLed
  <2>2. i - 1 \in 1..Len(r) /\ r[i - 1] = s[i]
    BY <1>0, <1>1, <1>5, <2>1
  <2> QED BY <2>1, <2>2 DEF HasLed
<1> QED BY <1>1, <1>2, <1>3, <1>4, <1>5 DEF r

(* Android toggles the lock when the lock key goes up. *)
LEMMA TakesKeys ==
  ASSUME NEW d \in Devices, NEW msg \in Messages
  PROVE  /\ Takes(d, msg).keys = KeysAfter(d.keys, msg)
         /\ Released(d.keys, msg) => Takes(d, msg).lock # d.lock /\ msg.type = "input"
         /\ ~Released(d.keys, msg) => Takes(d, msg).lock = d.lock
<1>0. d.keys \in Keys /\ d.lock \in BOOLEAN
  BY DEF Devices, Keys
<1>2. CASE msg.type # "input"
  <2>1. KeysAfter(d.keys, msg) = d.keys /\ ~Released(d.keys, msg)
    BY <1>2 DEF KeysAfter, Released
  <2>2. Takes(d, msg).keys = d.keys /\ Takes(d, msg).lock = d.lock
    <3>1. CASE msg.type = "create"
      BY <3>1 DEF Takes, Devices, Mark
    <3>2. CASE msg.type = "destroy"
      BY <3>2 DEF Takes, Devices, Mark
    <3>3. CASE msg.type = "clipboard"
      BY <3>3 DEF Takes, Devices
    <3>4. CASE msg.type = "key"
      BY <3>4 DEF Takes, Devices, Mark
    <3>5. CASE msg.type = "finger"
      BY <3>5 DEF Takes, Devices, Mark
    <3>6. CASE msg.type \in {"inject", "get clipboard"}
      BY <3>6 DEF Takes
    <3> QED BY <1>2, <3>1, <3>2, <3>3, <3>4, <3>5, <3>6, MessageFields
  <2> QED BY <2>1, <2>2
<1>3. CASE msg.type = "input"
  <2> DEFINE taken == TakesReport(d, msg.report)
  <2>1. msg.report \in Reports \cup {None}
    BY <1>3, MessageFields
  <2>2. taken \in Devices
    BY <2>1, TakesReportIs
  <2>3. Takes(d, msg) = Mark(taken, "hid", <<msg.id, msg.pad>> \notin d.hid)
    BY <1>3 DEF Takes
  <2>4. Takes(d, msg).keys = taken.keys /\ Takes(d, msg).lock = taken.lock
    <3> HIDE DEF taken
    <3>1. CASE <<msg.id, msg.pad>> \notin d.hid
      BY <2>2, <2>3, <3>1 DEF Mark, Devices
    <3>2. CASE <<msg.id, msg.pad>> \in d.hid
      BY <2>3, <3>2 DEF Mark
    <3> QED BY <3>1, <3>2
  <2>5. CASE msg.report = None \/ msg.report.keys = None
    <3>1. taken = d /\ KeysAfter(d.keys, msg) = d.keys /\ ~Released(d.keys, msg)
      BY <2>5 DEF TakesReport, KeysAfter, Released
    <3> QED BY <2>4, <3>1
  <2>6. CASE ~(msg.report = None \/ msg.report.keys = None)
    <3> DEFINE keys == msg.report.keys
               next == [d EXCEPT !.keys = keys,
                                 !.lock = IF "caps" \in d.keys \ keys THEN ~@ ELSE @]
               wrong == "v" \in keys \ d.keys /\ d.set < msg.report.n
    <3>1. keys \in Keys
      BY <2>1, <2>6 DEF Reports, Keys
    <3>2. taken = Mark(next, "paste", wrong)
      BY <2>6 DEF TakesReport
    <3>3. /\ next \in Devices /\ next.keys = keys
          /\ next.lock = IF "caps" \in d.keys \ keys THEN ~d.lock ELSE d.lock
      BY <3>1 DEF Devices, Keys
    <3>4. taken.keys = next.keys /\ taken.lock = next.lock
      <4> HIDE DEF taken, next
      <4>1. CASE wrong
        BY <3>2, <3>3, <4>1 DEF Mark, Devices
      <4>2. CASE ~wrong
        BY <3>2, <4>2 DEF Mark
      <4> QED BY <4>1, <4>2
    <3>5. KeysAfter(d.keys, msg) = keys /\ (Released(d.keys, msg) <=> "caps" \in d.keys \ keys)
      BY <1>3, <2>6 DEF KeysAfter, Released
    <3> HIDE DEF taken, next, keys
    <3>6. next.lock # d.lock <=> "caps" \in d.keys \ keys
      BY <1>0, <3>3
    <3> QED BY <1>3, <2>4, <3>3, <3>4, <3>5, <3>6
  <2> QED BY <2>5, <2>6
<1> QED BY <1>2, <1>3

-----------------------------------------------------------------------------
(* The threads' steps, and the locks.                                      *)

(* What the device answers about the lock. *)
LEMMA LedAnswers ==
  ASSUME NEW d \in Devices, NEW msg \in Messages
  PROVE  \/ Answer(d, msg) = <<>> /\ ~Released(d.keys, msg)
         \/ \E a \in Answers :
              /\ Answer(d, msg) = <<a>>
              /\ Released(d.keys, msg) => a.type = "led" /\ a.lock = Takes(d, msg).lock
              /\ ~Released(d.keys, msg) => a.type # "led"
<1>0. Takes(d, msg) \in Devices
  BY TakesPlain, TakesInput
<1>1. CASE Released(d.keys, msg)
  <2> DEFINE a == [type |-> "led", lock |-> Takes(d, msg).lock]
  <2>1. Answer(d, msg) = <<a>>
    BY <1>1, TakesKeys DEF Answer
  <2>2. a \in Answers /\ a.type = "led" /\ a.lock = Takes(d, msg).lock
    BY <1>0 DEF Answers, Devices
  <2> HIDE DEF a
  <2> QED BY <1>1, <2>1, <2>2
<1>2. CASE ~Released(d.keys, msg)
  <2>1. Takes(d, msg).lock = d.lock
    BY <1>2, TakesKeys
  <2>2. CASE msg.type = "clipboard" /\ msg.sequence # 0
    <3> DEFINE a == [type |-> "ack", sequence |-> msg.sequence]
    <3>1. Answer(d, msg) = <<a>> /\ msg.sequence \in Nat
      BY <2>1, <2>2, MessageFields DEF Answer
    <3>2. a \in Answers /\ a.type # "led"
      BY <3>1 DEF Answers
    <3> HIDE DEF a
    <3> QED BY <1>2, <3>1, <3>2
  <2>3. CASE msg.type = "get clipboard"
    <3> DEFINE a == [type |-> "clipboard"]
    <3>1. Answer(d, msg) = <<a>>
      BY <2>1, <2>3 DEF Answer
    <3>2. a \in Answers /\ a.type # "led"
      BY DEF Answers
    <3> HIDE DEF a
    <3> QED BY <1>2, <3>1, <3>2
  <2>4. CASE ~ \/ msg.type = "clipboard" /\ msg.sequence # 0
               \/ msg.type = "get clipboard"
    BY <1>2, <2>1, <2>4 DEF Answer
  <2> QED BY <2>2, <2>3, <2>4
<1> QED BY <1>1, <1>2

(* The device takes the first message. *)
LEMMA SendsLock ==
  ASSUME FInv, LInv, ControllerSends
  PROVE  LInv'
<1>0. DataOK
  BY DEF FInv
<1>1. /\ queue # <<>> /\ queue' = Tail(queue)
      /\ UNCHANGED <<mode, user, kb, tasks, phase, link, lossy>>
  BY DEF ControllerSends, ui
<1>2. Answers = Answers' /\ tasks' \in Seq(Answers)
  BY <1>1 DEF LInv, Answers
<1>3. CASE ~Undisturbed
  BY <1>1, <1>2, <1>3 DEF LInv, Undisturbed
<1>4. CASE Undisturbed
  <2>1. LedsTell /\ LockFollows /\ ("caps" \in user.held => "caps" \in kb.keys)
    BY <1>4 DEF LInv
  <2>2. PICK msg : msg = Head(queue)
    OBVIOUS
  <2>3. /\ device' = Takes(device, msg)
        /\ answers' = answers \o Answer(device, msg)
    BY <1>4, <2>2 DEF ControllerSends, Undisturbed, Reachable, Loop, ServerStopped
  <2>4. queue \in Seq(Messages) /\ msg \in Messages /\ device \in Devices
        /\ answers \in Seq(Answers) /\ tasks \in Seq(Answers)
    <3>1. queue \in Seq(Messages)
      BY <1>0, SocketMessagesAre DEF DataOK
    <3> QED BY <1>0, <1>1, <2>2, <3>1 DEF DataOK, LInv
  <2>5. /\ device'.keys = KeysAfter(device.keys, msg)
        /\ ~Released(device.keys, msg) => device'.lock = device.lock
    BY <2>3, <2>4, TakesKeys
  <2>6. PICK e \in Keys :
          /\ "caps" \in e <=> "caps" \in kb.keys
          /\ \/ TogglesLock(device.keys, queue, e)
             \/ LeavesLock(device.keys, queue, e) /\ Knows
    BY <2>1 DEF LockFollows
  <2>7. /\ LeavesLock(device.keys, queue, e) =>
              ~Released(device.keys, msg) /\ LeavesLock(device'.keys, queue', e)
        /\ TogglesLock(device.keys, queue, e) =>
              \/ TogglesLock(device'.keys, queue', e)
              \/ Released(device.keys, msg) /\ LeavesLock(device'.keys, queue', e)
    BY <1>1, <2>2, <2>4, <2>5, LockPop
  <2>8. LedsTell' /\ LockFollows'
    <3>1. CASE Answer(device, msg) = <<>> /\ ~Released(device.keys, msg)
      <4>1. answers' = answers
        BY <2>3, <2>4, <3>1
      <4>2. LedsTell' /\ (Knows => Knows')
        BY <1>1, <2>1, <2>5, <3>1, <4>1 DEF LedsTell, Knows
      <4> QED BY <1>1, <2>6, <2>7, <3>1, <4>2 DEF LockFollows
    <3>2. ASSUME NEW a \in Answers, Answer(device, msg) = <<a>>,
                 Released(device.keys, msg) => a.type = "led" /\ a.lock = Takes(device, msg).lock,
                 ~Released(device.keys, msg) => a.type # "led"
          PROVE  LedsTell' /\ LockFollows'
      <4>1. answers' = Append(answers, a)
        BY <2>3, <2>4, <3>2
      <4>2. CASE Released(device.keys, msg)
        <5>1. a.type = "led" /\ a.lock = device'.lock
          BY <2>3, <3>2, <4>2
        <5>2. LastLed(answers', device'.lock) /\ HasLed(answers')
          BY <2>4, <4>1, <5>1, LastLedAppend
        <5>3. LedsTell' /\ Knows'
          BY <5>2 DEF LedsTell, Knows
        <5> QED BY <1>1, <2>6, <2>7, <5>3 DEF LockFollows
      <4>3. CASE ~Released(device.keys, msg)
        <5>1. a.type # "led" /\ device'.lock = device.lock
          BY <2>5, <3>2, <4>3
        <5>2. /\ LastLed(answers, device.lock) => LastLed(answers', device'.lock)
              /\ HasLed(answers') <=> HasLed(answers)
          BY <2>4, <4>1, <5>1, LastLedAppend
        <5>3. LedsTell' /\ (Knows => Knows')
          BY <1>1, <2>1, <5>1, <5>2 DEF LedsTell, Knows
        <5> QED BY <1>1, <2>6, <2>7, <4>3, <5>3 DEF LockFollows
      <4> QED BY <4>2, <4>3
    <3> QED BY <2>4, <3>1, <3>2, LedAnswers
  <2> QED BY <1>1, <1>2, <2>1, <2>8 DEF LInv
<1> QED BY <1>3, <1>4

(* An answer moves on to the main thread. *)
LEMMA ReceivesLock ==
  ASSUME FInv, LInv, ReceiverTakes
  PROVE  LInv'
<1>0. DataOK
  BY DEF FInv
<1>1. /\ answers # <<>> /\ answers' = Tail(answers)
      /\ UNCHANGED <<mode, user, kb, queue, device, phase, link, lossy>>
      /\ tasks' = IF Head(answers).type = "ack" THEN tasks ELSE RunOnMain(Head(answers))
  BY DEF ReceiverTakes, ui
<1>2. /\ answers \in Seq(Answers) /\ tasks \in Seq(Answers) /\ Head(answers) \in Answers
      /\ Answers = Answers'
  BY <1>0, <1>1 DEF DataOK, LInv, Answers
<1>3. tasks' \in Seq(Answers')
  BY <1>1, <1>2 DEF RunOnMain
<1>4. CASE ~Undisturbed
  BY <1>1, <1>3, <1>4 DEF LInv, Undisturbed
<1>5. CASE Undisturbed
  <2>1. LedsTell /\ LockFollows /\ ("caps" \in user.held => "caps" \in kb.keys)
    BY <1>5 DEF LInv
  <2>2. /\ LastLed(Tail(answers), device.lock)
        /\ HasLed(Tail(answers)) => HasLed(answers)
        /\ Head(answers).type = "led" /\ ~HasLed(Tail(answers)) =>
             Head(answers).lock = device.lock
        /\ Head(answers).type # "led" => (HasLed(answers) => HasLed(Tail(answers)))
    BY <1>1, <1>2, <2>1, LastLedPop DEF LedsTell
  <2>3. tasks' = IF Head(answers).type = "ack" THEN tasks ELSE Append(tasks, Head(answers))
    BY <1>1, <1>5 DEF RunOnMain, Undisturbed, Loop, TasksStopped
  <2>4. PICK a \in Answers : a = Head(answers)
    BY <1>2
  <2>5. CASE a.type = "led"
    <3>1. tasks' = Append(tasks, a)
      BY <2>3, <2>4, <2>5
    <3>2. HasLed(tasks') /\ (a.lock = device.lock => LastLed(tasks', device.lock))
      BY <1>2, <2>5, <3>1, LastLedAppend
    <3>3. LedsTell' /\ Knows'
      BY <1>1, <2>2, <2>4, <2>5, <3>2 DEF LedsTell, Knows
    <3> QED BY <1>1, <1>3, <2>1, <3>3 DEF LInv, LockFollows
  <2>6. CASE a.type # "led"
    <3>1. /\ LastLed(tasks, device.lock) => LastLed(tasks', device.lock)
          /\ HasLed(tasks') <=> HasLed(tasks)
      BY <1>2, <2>3, <2>4, <2>6, LastLedAppend
    <3>2. LedsTell' /\ (Knows => Knows')
      BY <1>1, <2>1, <2>2, <2>4, <2>6, <3>1 DEF LedsTell, Knows
    <3> QED BY <1>1, <1>3, <2>1, <3>2 DEF LInv, LockFollows
  <2> QED BY <2>5, <2>6
<1> QED BY <1>4, <1>5

(* The keyboard is told of the lock. *)
LEMMA TaskLock ==
  ASSUME FInv, LInv, RunTask
  PROVE  LInv'
<1>0. DataOK
  BY DEF FInv
<1>1. /\ tasks # <<>> /\ tasks' = Tail(tasks) /\ kb' = AfterTask(Head(tasks))
      /\ UNCHANGED <<mode, user, queue, answers, device, phase, link, lossy>>
  BY DEF RunTask, outside
<1>2. /\ tasks \in Seq(Answers) /\ Head(tasks) \in Answers /\ tasks' \in Seq(Answers)
      /\ Answers = Answers'
  BY <1>1 DEF LInv, Answers
<1>3. /\ kb'.keys = kb.keys
      /\ kb'.lock = IF Head(tasks).type = "led" THEN Head(tasks).lock ELSE kb.lock
  BY <1>0, <1>1 DEF DataOK, AfterTask
<1>4. CASE ~Undisturbed
  BY <1>1, <1>2, <1>4 DEF LInv, Undisturbed
<1>5. CASE Undisturbed
  <2>1. LedsTell /\ LockFollows /\ ("caps" \in user.held => "caps" \in kb.keys)
    BY <1>5 DEF LInv
  <2>2. ~HasLed(answers) =>
          /\ LastLed(tasks', device.lock)
          /\ Head(tasks).type = "led" /\ ~HasLed(tasks') => Head(tasks).lock = device.lock
          /\ Head(tasks).type # "led" => (HasLed(tasks) => HasLed(tasks'))
    BY <1>1, <1>2, <2>1, LastLedPop DEF LedsTell
  <2>3. LedsTell'
    BY <1>1, <2>1, <2>2 DEF LedsTell
  <2>4. Knows => Knows'
    BY <1>1, <1>3, <2>2 DEF Knows
  <2>5. LockFollows'
    BY <1>1, <1>3, <2>1, <2>4 DEF LockFollows
  <2> QED BY <1>1, <1>2, <1>3, <2>1, <2>3, <2>5 DEF LInv
<1> QED BY <1>4, <1>5

(* A step that leaves alone what the lock depends on, or disturbs it for good. *)
LEMMA KeepsLock ==
  ASSUME LInv, UNCHANGED user, tasks' \in Seq(Answers),
         Undisturbed' => Undisturbed /\ UNCHANGED <<kb, queue, device, answers, tasks>>
  PROVE  LInv'
<1>1. Answers = Answers'
  BY DEF Answers
<1>2. ASSUME Undisturbed'
      PROVE  LedsTell' /\ LockFollows' /\ ("caps" \in user'.held => "caps" \in kb'.keys)
  <2>1. /\ Undisturbed /\ UNCHANGED <<kb, queue, device, answers, tasks>>
        /\ LedsTell /\ LockFollows /\ ("caps" \in user.held => "caps" \in kb.keys)
    BY <1>2 DEF LInv
  <2> QED BY <2>1 DEF LedsTell, LockFollows, Knows
<1> QED BY <1>1, <1>2 DEF LInv

(* The other steps of the threads and the end of scrcpy(). *)
LEMMA OthersKeepLock ==
  ASSUME FInv, LInv,
         \/ StopTasks \/ Stops \/ Unplug \/ AoaThread \/ ReceiverEnds
         \/ ControllerWaits \/ ControllerResizes \/ ControllerEnds \/ UNCHANGED vars
  PROVE  LInv'
<1>0. tasks \in Seq(Answers) /\ (mode # "aoa" => aoa.at = "ended")
  BY DEF LInv, FInv, DataOK
<1>1. CASE StopTasks
  <2>1. tasks' = <<>> /\ phase' = 1 /\ UNCHANGED user
    BY <1>1 DEF StopTasks, TasksStopped
  <2>2. tasks' \in Seq(Answers) /\ ~Undisturbed'
    BY <2>1 DEF Undisturbed, Loop
  <2> QED BY <2>1, <2>2, KeepsLock
<1>2. CASE AoaThread
  <2>1. UNCHANGED <<mode, user, tasks>> /\ aoa.at # "ended"
    BY <1>2 DEF AoaThread, AoaWaits, AoaSends, AoaAwaits, AoaAcked, AoaTimesOut, AoaEnds, ui
  <2>2. ~Undisturbed'
    BY <1>0, <2>1 DEF Undisturbed
  <2> QED BY <1>0, <2>1, <2>2, KeepsLock
<1>3. CASE Unplug
  <2>1. ~Undisturbed' /\ UNCHANGED <<user, tasks>>
    BY <1>3 DEF Unplug, Undisturbed, ui, threads
  <2> QED BY <1>0, <2>1, KeepsLock
<1>4. CASE Stops
  <2>1. phase' # Loop /\ UNCHANGED <<user, tasks>>
    BY <1>4 DEF Stops, StopAoa, StopController, StopServer, Join, ui, threads, Loop,
                AoaStopped, ControllerStopped, ServerStopped, Destroyed
  <2>2. ~Undisturbed'
    BY <2>1 DEF Undisturbed
  <2> QED BY <1>0, <2>1, <2>2, KeepsLock
<1>5. CASE ReceiverEnds \/ ControllerWaits \/ ControllerResizes \/ ControllerEnds
            \/ UNCHANGED vars
  <2>1. UNCHANGED <<user, mode, phase, link, lossy, kb, queue, device, answers, tasks>>
    BY <1>5 DEF ReceiverEnds, ControllerWaits, ControllerResizes, ControllerEnds, vars,
                ui, threads, outside
  <2>2. Undisturbed' => Undisturbed
    BY <2>1 DEF Undisturbed
  <2> QED BY <1>0, <2>1, <2>2, KeepsLock
<1> QED BY <1>1, <1>2, <1>3, <1>4, <1>5

-----------------------------------------------------------------------------
(* The reports of a key, and the locks.                                    *)

(* When nothing is dropped, what is offered is appended. *)
LEMMA AllFit ==
  ASSUME NEW q \in Seq(Messages), NEW msgs \in Seq(Messages), ~Overflows(q, msgs)
  PROVE  /\ Len(msgs) = 1 => OfferAll(q, msgs) = Append(q, msgs[1])
         /\ Len(msgs) = 2 => OfferAll(q, msgs) = Append(Append(q, msgs[1]), msgs[2])
<1>1. CASE Len(msgs) = 1
  <2>1. msgs = <<msgs[1]>> /\ msgs[1] \in Messages
    BY <1>1, OneOf
  <2>2. OfferAll(q, msgs) = Offer(q, msgs[1])
    <3>1. OfferAll(q, <<msgs[1]>>) = Offer(q, msgs[1])
      BY OfferOne
    <3> QED BY <2>1, <3>1
  <2>3. ~(Len(OfferAll(q, msgs)) < Len(q) + 1)
    BY <1>1 DEF Overflows
  <2> QED BY <1>1, <2>1, <2>2, <2>3 DEF Offer
<1>2. CASE Len(msgs) = 2
  <2>1. msgs = <<msgs[1], msgs[2]>> /\ msgs[1] \in Messages /\ msgs[2] \in Messages
    BY <1>2, TwoOf
  <2>2. OfferAll(q, msgs) = Offer(Offer(q, msgs[1]), msgs[2])
    <3>1. OfferAll(q, <<msgs[1], msgs[2]>>) = Offer(Offer(q, msgs[1]), msgs[2])
      BY OfferTwo
    <3> QED BY <2>1, <3>1
  <2>3. ~(Len(OfferAll(q, msgs)) < Len(q) + 2)
    BY <1>2 DEF Overflows
  <2>4. ASSUME NEW r \in Seq(Messages), NEW a \in Messages
        PROVE  /\ Offer(r, a) \in Seq(Messages)
               /\ Offer(r, a) = r \/ Offer(r, a) = Append(r, a)
               /\ Len(Append(r, a)) = Len(r) + 1
    BY DEF Offer
  <2>5. Len(q) \in Nat /\ Len(Offer(q, msgs[1])) \in Nat
    <3>1. Offer(q, msgs[1]) \in Seq(Messages)
      BY <2>1, <2>4
    <3> QED BY <3>1
  <2>6. Offer(q, msgs[1]) = Append(q, msgs[1])
    <3>1. CASE Offer(q, msgs[1]) = q
      <4>1. Len(Offer(q, msgs[2])) <= Len(q) + 1
        BY <2>1, <2>4, <2>5
      <4>2. Len(Offer(q, msgs[2])) \in Nat
        BY <2>1, <2>4
      <4> QED BY <2>2, <2>3, <2>5, <3>1, <4>1, <4>2
    <3> QED BY <2>1, <2>4, <3>1
  <2>7. CASE Offer(Append(q, msgs[1]), msgs[2]) = Append(q, msgs[1])
    BY <2>1, <2>2, <2>3, <2>4, <2>5, <2>6, <2>7
  <2>8. Append(q, msgs[1]) \in Seq(Messages)
    BY <2>1
  <2>9. \/ Offer(Append(q, msgs[1]), msgs[2]) = Append(q, msgs[1])
        \/ Offer(Append(q, msgs[1]), msgs[2]) = Append(Append(q, msgs[1]), msgs[2])
    BY <2>1, <2>4, <2>8
  <2> QED BY <1>2, <2>2, <2>6, <2>7, <2>9
<1> QED BY <1>1, <1>2

(* A report of the keys that are down; one of too many has the lock key. *)
LEMMA ReportIs ==
  ASSUME NEW keys \in Keys, NEW n \in Nat, NEW a \in Nat, NEW e \in Keys
  PROVE  LET msg == Input(Keyboard, None, Report(keys, n), a)
         IN  /\ msg \in Messages
             /\ Report(keys, n).keys # None => KeysAfter(e, msg) = keys
             /\ Report(keys, n).keys = None => KeysAfter(e, msg) = e /\ "caps" \in keys
<1> DEFINE msg == Input(Keyboard, None, Report(keys, n), a)
<1>1. Report(keys, n) \in Reports /\ Report(keys, n) # None
  BY ControlAssumption DEF Report, Reports, Keys
<1>2. /\ msg.type = "input" /\ msg.report = Report(keys, n)
      /\ msg \in Messages
  BY <1>1 DEF Input, Keyboard, Messages, HidMessages
<1> HIDE DEF msg
<1>3. Report(keys, n).keys = None => "caps" \in keys
  <2>1. SUFFICES ASSUME "caps" \notin keys PROVE Report(keys, n).keys # None
    OBVIOUS
  <2>2. keys = {} \/ keys = {"v"}
    BY <2>1 DEF Keys
  <2>3. Cardinality(keys) \in {0, 1}
    BY <2>2, FS_EmptySet, FS_Singleton
  <2>4. ~(Cardinality(keys) > MaxKeys)
    BY <2>3, ControlAssumption
  <2>5. Report(keys, n).keys = keys
    BY <2>4 DEF Report
  <2> QED BY <2>5, ControlAssumption DEF Keys
<1>4. Report(keys, n).keys # None => Report(keys, n).keys = keys
  BY DEF Report
<1> QED BY <1>1, <1>2, <1>3, <1>4 DEF KeysAfter, msg

(* A report of the lock key alone. *)
LEMMA LockReportIs ==
  ASSUME NEW a \in Nat, NEW e \in Keys
  PROVE  LET msg == Input(Keyboard, None, LockReport, a)
         IN  msg \in Messages /\ KeysAfter(e, msg) = {"caps"}
<1>1. {"caps"} \in Keys /\ Cardinality({"caps"}) = 1
  BY FS_Singleton DEF Keys
<1>2. Report({"caps"}, 0).keys = {"caps"}
  BY <1>1, ControlAssumption DEF Report
<1>3. {"caps"} # None
  BY <1>1, ControlAssumption DEF Keys
<1> QED BY <1>1, <1>2, <1>3, ReportIs DEF LockReport

KeyReport(keys, n) == Input(Keyboard, None, Report(keys, n), 0)
LockKey == Input(Keyboard, None, LockReport, 0)

(* The UHID keyboard makes one report, or two when it has to change the lock. *)
LEMMA UhidInputsAre ==
  ASSUME NEW k, NEW keys \in Keys, NEW n \in Nat
  PROVE  LET msgs == Inputs(UhidReports(k, keys, n), 0)
         IN  /\ msgs \in Seq(Messages)
             /\ k = "caps" \/ kb.lock = user.lock =>
                  Len(msgs) = 1 /\ msgs[1] = KeyReport(keys, n)
             /\ ~(k = "caps" \/ kb.lock = user.lock) =>
                  Len(msgs) = 2 /\ msgs[1] = LockKey /\ msgs[2] = KeyReport(keys, n)
<1> DEFINE msgs == Inputs(UhidReports(k, keys, n), 0)
<1>1. KeyReport(keys, n) \in Messages /\ LockKey \in Messages
  <2>1. {} \in Keys
    BY DEF Keys
  <2> QED BY <2>1, ReportIs, LockReportIs DEF KeyReport, LockKey
<1>2. CASE k = "caps" \/ kb.lock = user.lock
  <2>1. UhidReports(k, keys, n) = <<Report(keys, n)>>
    BY <1>2 DEF UhidReports
  <2>2. msgs = <<KeyReport(keys, n)>>
    BY <2>1 DEF Inputs, KeyReport
  <2> HIDE DEF msgs
  <2>3. Len(msgs) = 1 /\ msgs[1] = KeyReport(keys, n) /\ msgs \in Seq(Messages)
    BY <1>1, <2>2
  <2> QED BY <1>2, <2>3 DEF msgs
<1>3. CASE ~(k = "caps" \/ kb.lock = user.lock)
  <2>1. UhidReports(k, keys, n) = <<LockReport, Report(keys, n)>>
    BY <1>3 DEF UhidReports
  <2>2. msgs = <<LockKey, KeyReport(keys, n)>>
    BY <2>1 DEF Inputs, KeyReport, LockKey
  <2> HIDE DEF msgs
  <2>3. Len(msgs) = 2 /\ msgs[1] = LockKey /\ msgs[2] = KeyReport(keys, n)
        /\ msgs \in Seq(Messages)
    BY <1>1, <2>2
  <2> QED BY <1>3, <2>3 DEF msgs
<1> QED BY <1>2, <1>3

(* What q leads to agrees with what the keyboard takes to be down. *)
Agrees(q, e) ==
  /\ "caps" \in e <=> "caps" \in kb.keys
  /\ \/ TogglesLock(device.keys, q, e)
     \/ LeavesLock(device.keys, q, e) /\ Knows

(* The reports of a key that is no lock key, after those of q. *)
LEMMA PlainKeyLock ==
  ASSUME NEW q \in Seq(Messages), NEW e \in Keys, Agrees(q, e),
         NEW keys \in Keys, "caps" \in keys <=> "caps" \in kb.keys, NEW n \in Nat,
         NEW msgs, msgs = Inputs(UhidReports("v", keys, n), 0), ~Overflows(q, msgs),
         queue' = OfferAll(q, msgs), kb'.keys = keys, kb'.lock = user.lock,
         UNCHANGED <<device, answers, tasks>>
  PROVE  LockFollows'
<1> DEFINE msg == KeyReport(keys, n)
<1>0. Keys' = Keys
  BY DEF Keys
<1>1. ASSUME NEW f \in Keys
      PROVE  /\ msg \in Messages /\ KeysAfter(f, msg) \in Keys
             /\ KeysAfter(f, msg) = keys \/ (KeysAfter(f, msg) = f /\ "caps" \in keys)
  <2>1. /\ msg \in Messages
        /\ KeysAfter(f, msg) = keys \/ (KeysAfter(f, msg) = f /\ "caps" \in keys)
    BY <1>1, ReportIs DEF KeyReport
  <2> QED BY <2>1
<1>2. msg \in Messages
  BY <1>1
<1>3. msgs \in Seq(Messages)
  BY UhidInputsAre
<1> HIDE DEF msg
<1>4. CASE kb.lock = user.lock
  <2>1. Len(msgs) = 1 /\ msgs[1] = msg
    BY <1>4, UhidInputsAre DEF msg
  <2>2. queue' = Append(q, msg)
    BY <1>3, <2>1, AllFit
  <2> DEFINE f == KeysAfter(e, msg)
  <2>3. f \in Keys /\ ("caps" \in f <=> "caps" \in kb'.keys) /\ ~Released(e, msg)
    BY <1>1 DEF Agrees, Released
  <2>4. /\ TogglesLock(device.keys, q, e) => TogglesLock(device.keys, queue', f)
        /\ LeavesLock(device.keys, q, e) => LeavesLock(device.keys, queue', f)
    BY <1>2, <2>2, <2>3, LockAppend
  <2>5. Knows => Knows'
    BY <1>4 DEF Knows
  <2> HIDE DEF f
  <2>6. \/ TogglesLock(device'.keys, queue', f)
        \/ LeavesLock(device'.keys, queue', f) /\ Knows'
    BY <2>4, <2>5 DEF Agrees
  <2> QED BY <1>0, <2>3, <2>6 DEF LockFollows
<1>5. CASE kb.lock # user.lock
  <2>1. Len(msgs) = 2 /\ msgs[1] = LockKey /\ msgs[2] = msg
    BY <1>5, UhidInputsAre DEF msg
  <2>2. queue' = Append(Append(q, LockKey), msg)
    BY <1>3, <2>1, AllFit
  <2>3. LockKey \in Messages /\ KeysAfter(e, LockKey) = {"caps"} /\ {"caps"} \in Keys
    BY LockReportIs DEF LockKey, Keys
  <2>4. ~Released(e, LockKey)
    BY <2>3 DEF Released
  <2> DEFINE r == Append(q, LockKey)
             f == KeysAfter({"caps"}, msg)
  <2>5. r \in Seq(Messages)
    BY <2>3
  <2>6. TogglesLock(device.keys, r, {"caps"}) \/ LeavesLock(device.keys, r, {"caps"})
    BY <2>3, <2>4, LockAppend DEF Agrees
  <2>7. f \in Keys /\ ("caps" \in f <=> "caps" \in keys)
    BY <1>1, <2>3
  <2> HIDE DEF r
  <2>8. /\ TogglesLock(device.keys, r, {"caps"}) => TogglesLock(device.keys, queue', f)
        /\ LeavesLock(device.keys, r, {"caps"}) =>
             \/ TogglesLock(device.keys, queue', f)
             \/ LeavesLock(device.keys, queue', f) /\ ~Released({"caps"}, msg)
    BY <1>2, <2>2, <2>5, LockAppend DEF r
  <2>9. ~Released({"caps"}, msg) => Knows'
    BY <2>7 DEF Released, Knows
  <2> HIDE DEF f
  <2>10. \/ TogglesLock(device'.keys, queue', f)
         \/ LeavesLock(device'.keys, queue', f) /\ Knows'
    BY <2>6, <2>8, <2>9
  <2> QED BY <1>0, <2>7, <2>10 DEF LockFollows
<1> QED BY <1>4, <1>5

(* The report of the lock key: pressed, or released after it was down. *)
LEMMA LockKeyLock ==
  ASSUME NEW q \in Seq(Messages), NEW e \in Keys, Agrees(q, e),
         NEW keys \in Keys, "caps" \in keys \/ "caps" \in kb.keys, NEW n \in Nat,
         Report(keys, n).keys # None,
         NEW msgs, msgs = Inputs(UhidReports("caps", keys, n), 0), ~Overflows(q, msgs),
         queue' = OfferAll(q, msgs), kb'.keys = keys,
         UNCHANGED <<device, answers, tasks>>
  PROVE  LockFollows'
<1> DEFINE msg == KeyReport(keys, n)
<1>1. msg \in Messages /\ KeysAfter(e, msg) = keys
  BY ReportIs DEF KeyReport
<1>2. msgs \in Seq(Messages) /\ Len(msgs) = 1 /\ msgs[1] = msg
  BY UhidInputsAre
<1> HIDE DEF msg
<1>3. queue' = Append(q, msg)
  BY <1>2, AllFit
<1>4. /\ TogglesLock(device.keys, q, e) => TogglesLock(device.keys, queue', keys)
      /\ LeavesLock(device.keys, q, e) =>
           \/ TogglesLock(device.keys, queue', keys)
           \/ LeavesLock(device.keys, queue', keys) /\ ~Released(e, msg)
  BY <1>1, <1>3, LockAppend
<1>5. ~Released(e, msg) => Knows'
  BY <1>1 DEF Agrees, Released, Knows
<1>6. \/ TogglesLock(device'.keys, queue', keys)
      \/ LeavesLock(device'.keys, queue', keys) /\ Knows'
  BY <1>4, <1>5 DEF Agrees
<1> QED BY <1>6 DEF LockFollows, Keys

-----------------------------------------------------------------------------
(* The handlers, and the locks.                                            *)

(* A message of the main thread that is no report of keys. *)
Keyless(msg) == msg \in Messages /\ \A keys : KeysAfter(keys, msg) = keys

OffersKeyless ==
  UNCHANGED queue \/ \E msg : Keyless(msg) /\ queue' = Offer(queue, msg)

(* It may be dropped or not. *)
LEMMA KeylessLock ==
  ASSUME queue \in Seq(Messages), LockFollows, OffersKeyless,
         UNCHANGED <<kb, device, answers, tasks>>
  PROVE  LockFollows'
<1>1. Knows => Knows'
  BY DEF Knows
<1>2. PICK e \in Keys :
        /\ "caps" \in e <=> "caps" \in kb.keys
        /\ \/ TogglesLock(device.keys, queue, e)
           \/ LeavesLock(device.keys, queue, e) /\ Knows
  BY DEF LockFollows
<1>3. CASE queue' = queue
  BY <1>1, <1>2, <1>3 DEF LockFollows
<1>4. ASSUME NEW msg, Keyless(msg), queue' = Append(queue, msg)
      PROVE  LockFollows'
  <2>1. msg \in Messages /\ KeysAfter(e, msg) = e /\ ~Released(e, msg)
    BY <1>4 DEF Keyless, Released
  <2>2. /\ TogglesLock(device.keys, queue, e) => TogglesLock(device.keys, queue', e)
        /\ LeavesLock(device.keys, queue, e) => LeavesLock(device.keys, queue', e)
    BY <1>4, <2>1, LockAppend
  <2> QED BY <1>1, <1>2, <2>2 DEF LockFollows
<1> QED BY <1>3, <1>4 DEF OffersKeyless, Offer

(* What is no report is keyless, and so is a report without keys. *)
LEMMA KeylessIs ==
  ASSUME NEW msg \in Messages, msg.type # "input" \/ msg.report = None
  PROVE  Keyless(msg)
BY DEF Keyless, KeysAfter

(* A request is no report. *)
LEMMA RequestKeyless ==
  ASSUME NEW msg \in Requests, ToController(<<msg>>)
  PROVE  OffersKeyless
<1>0. [type |-> "inject"].type = "inject" /\ [type |-> "get clipboard"].type = "get clipboard"
  OBVIOUS
<1>1. msg.type = "inject" \/ msg.type = "get clipboard"
  BY <1>0, Zenon DEF Requests, Inject, GetClipboard
<1>2. msg \in Messages
  BY DEF Messages, PlainMessages
<1>3. Keyless(msg)
  BY <1>1, <1>2, KeylessIs
<1>4. queue' = Offer(queue, msg)
  BY OfferOne DEF ToController
<1> QED BY <1>3, <1>4 DEF OffersKeyless

(* A message of a HID device that is no report of keys. *)
LEMMA HidKeyless ==
  ASSUME mode = "uhid", NEW msg \in Messages, msg.type # "input" \/ msg.report = None,
         ToHid(<<msg>>)
  PROVE  OffersKeyless
<1>1. queue' = Offer(queue, msg)
  BY OfferOne DEF ToHid, ToController
<1> QED BY <1>1, KeylessIs DEF OffersKeyless

(* The messages of the mouse and of the gamepads. *)
LEMMA PadMessages ==
  ASSUME NEW id \in Nat, NEW pad \in Pads \cup {None}
  PROVE  /\ Create(id, pad) \in Messages /\ Create(id, pad).type = "create"
         /\ Destroy(id, pad) \in Messages /\ Destroy(id, pad).type = "destroy"
         /\ Input(id, pad, None, 0) \in Messages /\ Input(id, pad, None, 0).report = None
BY DEF Create, Destroy, Input, Messages, HidMessages

(* Every handler but those of keys. *)
LEMMA OtherEvents ==
  ASSUME mode = "uhid", UserInput, \A k \in {"caps", "v"} : ~Key(k), ~CtrlV
  PROVE  OffersKeyless /\ UNCHANGED <<kb, lossy>>
<1>1. ASSUME NEW msg \in Requests, Request(msg) PROVE OffersKeyless /\ UNCHANGED <<kb, lossy>>
  BY <1>1, RequestKeyless DEF Request
<1>2. CASE TextInput \/ Touch
  BY <1>2 DEF TextInput, Touch
<1>3. CASE TogglePause
  BY <1>3 DEF TogglePause, OffersKeyless
<1>4. ASSUME ToMouse PROVE OffersKeyless
  <2>1. MouseInput \in Messages /\ MouseInput.report = None
    BY PadMessages DEF MouseInput, Mouse
  <2> QED BY <1>4, <2>1, HidKeyless DEF ToMouse
<1>5. CASE Motion
  BY <1>4, <1>5 DEF Motion
<1>6. CASE Wheel
  BY <1>4, <1>6 DEF Wheel, OffersKeyless
<1>7. ASSUME NEW mod \in BOOLEAN, Click(mod) PROVE OffersKeyless /\ UNCHANGED <<kb, lossy>>
  <2>1. UNCHANGED <<kb, lossy>>
    BY <1>7 DEF Click
  <2>2. CASE im.paused
    BY <1>7, <2>2 DEF Click, OffersKeyless
  <2>3. CASE ~im.paused
    <3>1. ToMouse
      BY <1>7, <2>3 DEF Click
    <3> QED BY <1>4, <2>1, <3>1
  <2> QED BY <2>1, <2>2, <2>3
<1>8. CASE ResizeDisplay
  BY <1>8 DEF ResizeDisplay, OffersKeyless
<1>9. ASSUME NEW pad \in Pads,
             GamepadAdded(pad) \/ GamepadRemoved(pad) \/ GamepadInput(pad)
      PROVE  OffersKeyless /\ UNCHANGED <<kb, lossy>>
  <2>0. ASSUME NEW s \in Slots PROVE Gamepad(s) \in Nat
    BY ControlAssumption DEF Gamepad, Slots
  <2>1. CASE GamepadAdded(pad)
    <3>1. UNCHANGED <<kb, lossy>>
      BY <2>1 DEF GamepadAdded
    <3>2. CASE SlotsOf(None) = {}
      BY <2>1, <3>1, <3>2 DEF GamepadAdded, OffersKeyless
    <3>3. CASE SlotsOf(None) # {}
      <4>1. ToHid(<<Create(Gamepad(SlotOf(None)), pad)>>) /\ Gamepad(SlotOf(None)) \in Nat
        BY <2>0, <2>1, <3>3, SlotOfIs DEF GamepadAdded
      <4> QED BY <3>1, <4>1, PadMessages, HidKeyless
    <3> QED BY <3>2, <3>3
  <2>2. CASE GamepadRemoved(pad)
    <3>1. UNCHANGED <<kb, lossy>>
      BY <2>2 DEF GamepadRemoved
    <3>2. CASE SlotsOf(pad) = {}
      BY <2>2, <3>1, <3>2 DEF GamepadRemoved, OffersKeyless
    <3>3. CASE SlotsOf(pad) # {}
      <4>1. ToHid(<<Destroy(Gamepad(SlotOf(pad)), pad)>>) /\ Gamepad(SlotOf(pad)) \in Nat
        BY <2>0, <2>2, <3>3, SlotOfIs DEF GamepadRemoved
      <4> QED BY <3>1, <4>1, PadMessages, HidKeyless
    <3> QED BY <3>2, <3>3
  <2>3. CASE GamepadInput(pad)
    <3>1. /\ UNCHANGED <<kb, lossy>> /\ SlotsOf(pad) # {}
          /\ ToHid(<<Input(Gamepad(SlotOf(pad)), pad, None, 0)>>)
      BY <2>3 DEF GamepadInput
    <3>2. Gamepad(SlotOf(pad)) \in Nat
      BY <2>0, <3>1, SlotOfIs
    <3> QED BY <3>1, <3>2, PadMessages, HidKeyless
  <2> QED BY <1>9, <2>1, <2>2, <2>3
<1> QED BY <1>1, <1>2, <1>3, <1>5, <1>6, <1>7, <1>8, <1>9 DEF UserInput

(* What every event leaves of the user. *)
UserKept ==
  /\ user' = [held |-> user'.held, lock |-> user'.lock, pads |-> user'.pads,
              button |-> user'.button, kinds |-> user'.kinds, inputs |-> user'.inputs]
  /\ UNCHANGED <<mode, phase, link, device, answers, tasks>>

(* Only keys change what the user holds. *)
LEMMA UserIs ==
  ASSUME LInv, UserInput
  PROVE  UserKept /\ ((\A k \in {"caps", "v"} : ~Key(k)) /\ ~CtrlV => user'.held = user.held)
<1>0. user = [held |-> user.held, lock |-> user.lock, pads |-> user.pads,
              button |-> user.button, kinds |-> user.kinds, inputs |-> user.inputs]
  BY DEF LInv
<1>1. ASSUME NEW k \in {"caps", "v"}, Key(k) PROVE UserKept
  BY <1>0, <1>1 DEF Key, Event, Happens, UserKept
<1>2. CASE CtrlV
  BY <1>0, <1>2 DEF CtrlV, Event, Happens, UserKept
<1>3. ASSUME NEW msg, Request(msg) \/ TextInput \/ TogglePause \/ Motion \/ Wheel \/ Touch
      PROVE UserKept /\ user'.held = user.held
  <2>1. user' = [user EXCEPT !.inputs = @ + 1]
        /\ UNCHANGED <<mode, phase, link, device, answers, tasks>>
    BY <1>3 DEF Request, TextInput, TogglePause, Motion, Wheel, Touch, Event, Happens
  <2> QED BY <1>0, <2>1 DEF UserKept
<1>4. CASE ResizeDisplay
  <2>1. user' = [user EXCEPT !.inputs = @ + 1]
        /\ UNCHANGED <<mode, phase, link, device, answers, tasks>>
    BY <1>4 DEF ResizeDisplay, Happens, outside
  <2> QED BY <1>0, <2>1 DEF UserKept
<1>5. ASSUME NEW mod, Click(mod) PROVE UserKept /\ user'.held = user.held
  BY <1>0, <1>5 DEF Click, Event, Happens, UserKept
<1>6. ASSUME NEW pad, GamepadAdded(pad) \/ GamepadRemoved(pad) \/ GamepadInput(pad)
      PROVE  UserKept /\ user'.held = user.held
  BY <1>0, <1>6 DEF GamepadAdded, GamepadRemoved, GamepadInput, Event, Happens, UserKept
<1>7. user'.held = user.held \/ (\E k \in {"caps", "v"} : Key(k)) \/ CtrlV
  <2>1. CASE ResizeDisplay
    <3>1. user' = [user EXCEPT !.inputs = @ + 1]
      BY <2>1 DEF ResizeDisplay, Happens
    <3> QED BY <1>0, <3>1
  <2> QED BY <1>3, <1>5, <1>6, <2>1 DEF UserInput
<1> QED BY <1>1, <1>2, <1>3, <1>4, <1>5, <1>6, <1>7 DEF UserInput

(* A key that is no shortcut. *)
LEMMA KeyLock ==
  ASSUME FInv, LInv, NEW k \in {"caps", "v"}, Key(k), UserKept
  PROVE  LInv'
<1>0. /\ DataOK /\ Answers = Answers'
      /\ kb = [keys |-> kb.keys, lock |-> kb.lock, synchronized |-> kb.synchronized]
      /\ kb.keys \in Keys /\ im.pastes \in Nat
      /\ lossy \in [report : BOOLEAN, lock : BOOLEAN, usb : BOOLEAN]
  BY DEF FInv, DataOK, Answers, Keys
<1>1. queue \in Seq(Messages)
  BY <1>0, SocketMessagesAre DEF DataOK
<1> DEFINE down == k \notin user.held
           keys == IF down THEN kb.keys \cup {k} ELSE kb.keys \ {k}
           n == im.pastes
           msgs == Inputs(UhidReports(k, keys, n), 0)
<1>2. /\ user'.held = IF down THEN user.held \cup {k} ELSE user.held \ {k}
      /\ user'.lock = IF down /\ k = "caps" THEN ~user.lock ELSE user.lock
  BY DEF LInv, Key, Event, Happens
<1>3. CASE ~Undisturbed'
  BY <1>0, <1>3 DEF LInv, UserKept
<1>4. CASE Undisturbed' /\ im.paused
  <2>1. lossy' = [lossy EXCEPT !.lock = @ \/ k = "caps"]
        /\ UNCHANGED <<kb, queue>>
    BY <1>4 DEF Key
  <2>2. ~lossy'.lock /\ ~lossy'.report
    BY <1>4 DEF Undisturbed
  <2>3. k # "caps" /\ ~lossy.lock /\ ~lossy.report
    BY <1>0, <2>1, <2>2
  <2>4. Undisturbed
    BY <1>4, <2>3 DEF Undisturbed, UserKept
  <2>5. LedsTell /\ LockFollows /\ ("caps" \in user.held => "caps" \in kb.keys)
    BY <2>4 DEF LInv
  <2>6. LedsTell' /\ LockFollows'
    BY <2>1, <2>5 DEF LedsTell, LockFollows, Knows, UserKept
  <2> QED BY <1>0, <1>2, <2>1, <2>3, <2>5, <2>6 DEF LInv, UserKept
<1>5. CASE Undisturbed' /\ ~im.paused
  <2>1. mode = "uhid"
    BY <1>5 DEF Undisturbed, UserKept
  <2>2. /\ kb' = [kb EXCEPT !.keys = keys, !.lock = UhidLock(k)]
        /\ queue' = OfferAll(queue, msgs)
        /\ lossy' = [lossy EXCEPT
                !.report = @ \/ Overflows(queue, msgs),
                !.lock = @ \/ (k = "caps" /\ Report(keys, n).keys = None)]
    <3>1. ProcessKey(k, keys, n)
      BY <1>5 DEF Key
    <3> QED BY <2>1, <3>1 DEF ProcessKey, ToController
  <2>3. keys \in Keys
    BY <1>0 DEF Keys
  <2> HIDE DEF msgs, n
  <2>4. kb'.keys = keys /\ kb'.lock = UhidLock(k)
    BY <1>0, <2>2
  <2>5. ~lossy'.lock /\ ~lossy'.report
    BY <1>5 DEF Undisturbed
  <2>6. /\ ~lossy.lock /\ ~lossy.report /\ ~Overflows(queue, msgs)
        /\ k = "caps" => Report(keys, n).keys # None
    <3>1. /\ lossy'.report = (lossy.report \/ Overflows(queue, msgs))
          /\ lossy'.lock = (lossy.lock \/ (k = "caps" /\ Report(keys, n).keys = None))
      BY <1>0, <2>2
    <3> QED BY <2>5, <3>1
  <2>7. Undisturbed
    BY <1>5, <2>6 DEF Undisturbed, UserKept
  <2>8. LedsTell /\ LockFollows /\ ("caps" \in user.held => "caps" \in kb.keys)
    BY <2>7 DEF LInv
  <2>9. LedsTell'
    BY <2>8 DEF LedsTell, UserKept
  <2>10. PICK e \in Keys : Agrees(queue, e)
    BY <2>8 DEF LockFollows, Agrees
  <2>11. n \in Nat /\ UNCHANGED <<device, answers, tasks>>
    BY <1>0 DEF n, UserKept
  <2>12. LockFollows'
    <3>1. CASE k = "v"
      <4>1. "caps" \in keys <=> "caps" \in kb.keys
        BY <3>1
      <4>2. kb'.lock = user.lock
        BY <1>2, <2>4, <3>1 DEF UhidLock
      <4>3. msgs = Inputs(UhidReports("v", keys, n), 0)
        BY <3>1 DEF msgs
      <4> HIDE DEF keys
      <4> QED BY <1>1, <2>2, <2>3, <2>4, <2>6, <2>10, <2>11, <4>1, <4>2, <4>3, PlainKeyLock
    <3>2. CASE k = "caps"
      <4>1. "caps" \in keys \/ "caps" \in kb.keys
        BY <2>8, <3>2
      <4>2. msgs = Inputs(UhidReports("caps", keys, n), 0)
        BY <3>2 DEF msgs
      <4> HIDE DEF keys
      <4> QED BY <1>1, <2>2, <2>3, <2>4, <2>6, <2>10, <2>11, <3>2, <4>1, <4>2, LockKeyLock
    <3> QED BY <3>1, <3>2
  <2>13. "caps" \in user'.held => "caps" \in kb'.keys
    BY <1>2, <2>4, <2>8
  <2> QED BY <1>0, <2>9, <2>12, <2>13 DEF LInv, UserKept
<1> QED BY <1>3, <1>4, <1>5

(* Ctrl+v, whose clipboard comes first. *)
LEMMA CtrlVLock ==
  ASSUME FInv, LInv, CtrlV, UserKept
  PROVE  LInv'
<1>0. /\ DataOK /\ Answers = Answers'
      /\ kb = [keys |-> kb.keys, lock |-> kb.lock, synchronized |-> kb.synchronized]
      /\ kb.keys \in Keys /\ im.pastes \in Nat
      /\ lossy \in [report : BOOLEAN, lock : BOOLEAN, usb : BOOLEAN]
  BY DEF FInv, DataOK, Answers, Keys
<1>1. queue \in Seq(Messages)
  BY <1>0, SocketMessagesAre DEF DataOK
<1> DEFINE n == im.pastes + 1
           clipboard == Clipboard(0, n)
           keys == kb.keys \cup {"v"}
           msgs == Inputs(UhidReports("v", keys, n), 0)
<1>2. user'.held = user.held \cup {"v"} /\ user'.lock = user.lock
  BY DEF LInv, CtrlV, Event, Happens
<1>3. CASE ~Undisturbed'
  BY <1>0, <1>3 DEF LInv, UserKept
<1>4. CASE Undisturbed' /\ UNCHANGED <<kb, queue, lossy>>
  <2>1. Undisturbed
    BY <1>4 DEF Undisturbed, UserKept
  <2>2. LedsTell /\ LockFollows /\ ("caps" \in user.held => "caps" \in kb.keys)
    BY <2>1 DEF LInv
  <2>3. LedsTell' /\ LockFollows'
    BY <1>4, <2>2 DEF LedsTell, LockFollows, Knows, UserKept
  <2> QED BY <1>0, <1>2, <1>4, <2>2, <2>3 DEF LInv, UserKept
<1>5. CASE Undisturbed' /\ ~UNCHANGED <<kb, queue, lossy>>
  <2>1. mode = "uhid"
    BY <1>5 DEF Undisturbed, UserKept
  <2>2. /\ Fits(queue, clipboard)
        /\ kb' = [kb EXCEPT !.keys = keys, !.lock = UhidLock("v")]
        /\ queue' = OfferAll(queue, <<clipboard>> \o msgs)
        /\ lossy' = [lossy EXCEPT !.report = @ \/ Overflows(queue, <<clipboard>> \o msgs)]
    <3>1. Fits(queue, clipboard) /\ ProcessCtrlV(keys, n, clipboard)
      BY <1>5, <2>1 DEF CtrlV
    <3> QED BY <2>1, <3>1 DEF ProcessCtrlV, ToController
  <2>3. keys \in Keys /\ n \in Nat
    BY <1>0 DEF Keys
  <2>4. clipboard \in Messages /\ clipboard.type = "clipboard"
    BY <2>3 DEF Clipboard, Messages, PlainMessages
  <2>5. msgs \in Seq(Messages) /\ Len(msgs) \in 1..2
    BY <2>3, UhidInputsAre
  <2> HIDE DEF msgs, clipboard, n
  <2>6. kb'.keys = keys /\ kb'.lock = user.lock
    BY <1>0, <1>2, <2>2 DEF UhidLock
  <2>7. ~lossy'.lock /\ ~lossy'.report
    BY <1>5 DEF Undisturbed
  <2>8. ~lossy.lock /\ ~lossy.report /\ ~Overflows(queue, <<clipboard>> \o msgs)
    <3>1. /\ lossy'.report = (lossy.report \/ Overflows(queue, <<clipboard>> \o msgs))
          /\ lossy'.lock = lossy.lock
      BY <1>0, <2>2
    <3> QED BY <2>7, <3>1
  <2>9. Undisturbed
    BY <1>5, <2>8 DEF Undisturbed, UserKept
  <2>10. LedsTell /\ LockFollows /\ ("caps" \in user.held => "caps" \in kb.keys)
    BY <2>9 DEF LInv
  <2>11. LedsTell'
    BY <2>10 DEF LedsTell, UserKept
  <2> DEFINE q == Append(queue, clipboard)
  <2>12. q \in Seq(Messages) /\ Len(q) = Len(queue) + 1
    BY <1>1, <2>4
  <2>13. OfferAll(queue, <<clipboard>> \o msgs) = OfferAll(q, msgs)
    BY <1>1, <2>2, <2>4, <2>5, OfferFirst
  <2>14. ~Overflows(q, msgs)
    <3>1. Len(<<clipboard>> \o msgs) = 1 + Len(msgs)
      <4>1. <<clipboard>> \in Seq(Messages) /\ Len(<<clipboard>>) = 1
        BY <2>4
      <4> QED BY <2>5, <4>1
    <3>2. ~(Len(OfferAll(q, msgs)) < Len(queue) + (1 + Len(msgs)))
      BY <2>8, <2>13, <3>1 DEF Overflows
    <3>3. Len(queue) \in Nat /\ Len(msgs) \in Nat
      BY <1>1, <2>5
    <3>4. Len(queue) + (1 + Len(msgs)) = Len(q) + Len(msgs)
      BY <2>12, <3>3
    <3> QED BY <3>2, <3>4 DEF Overflows
  <2>15. PICK e \in Keys : Agrees(queue, e)
    BY <2>10 DEF LockFollows, Agrees
  <2>16. Agrees(q, e)
    <3>1. KeysAfter(e, clipboard) = e /\ ~Released(e, clipboard)
      BY <2>4 DEF KeysAfter, Released
    <3>2. /\ TogglesLock(device.keys, queue, e) => TogglesLock(device.keys, q, e)
          /\ LeavesLock(device.keys, queue, e) => LeavesLock(device.keys, q, e)
      BY <1>1, <2>4, <3>1, LockAppend
    <3> QED BY <2>15, <3>2 DEF Agrees
  <2> HIDE DEF q
  <2>17. "caps" \in keys <=> "caps" \in kb.keys
    OBVIOUS
  <2> HIDE DEF keys
  <2>18. UNCHANGED <<device, answers, tasks>> /\ queue' = OfferAll(q, msgs)
    BY <2>2, <2>13 DEF UserKept
  <2>19. msgs = Inputs(UhidReports("v", keys, n), 0)
    BY DEF msgs
  <2>20. LockFollows'
    BY <2>3, <2>6, <2>12, <2>14, <2>16, <2>17, <2>18, <2>19, PlainKeyLock
  <2>21. "caps" \in user'.held => "caps" \in kb'.keys
    BY <1>2, <2>6, <2>10, <2>17
  <2> QED BY <1>0, <2>11, <2>20, <2>21 DEF LInv, UserKept
<1> QED BY <1>3, <1>4, <1>5

(* Every event of the user preserves the invariant of the locks. *)
LEMMA UserLock ==
  ASSUME FInv, LInv, UserInput
  PROVE  LInv'
<1>1. UserKept /\ ((\A k \in {"caps", "v"} : ~Key(k)) /\ ~CtrlV => user'.held = user.held)
  BY UserIs
<1>2. CASE (\E k \in {"caps", "v"} : Key(k)) \/ CtrlV
  BY <1>1, <1>2, KeyLock, CtrlVLock
<1>3. CASE (\A k \in {"caps", "v"} : ~Key(k)) /\ ~CtrlV
  <2>0. Answers = Answers' /\ queue \in Seq(Messages)
    BY SocketMessagesAre DEF Answers, FInv, DataOK
  <2>1. ASSUME Undisturbed'
        PROVE  LedsTell' /\ LockFollows' /\ ("caps" \in user'.held => "caps" \in kb'.keys)
    <3>1. OffersKeyless /\ UNCHANGED <<kb, lossy>>
      BY <1>1, <1>3, <2>1, OtherEvents DEF Undisturbed, UserKept
    <3>2. Undisturbed
      BY <1>1, <2>1, <3>1 DEF Undisturbed, UserKept
    <3>3. LedsTell /\ LockFollows /\ ("caps" \in user.held => "caps" \in kb.keys)
      BY <3>2 DEF LInv
    <3>4. LockFollows'
      BY <1>1, <2>0, <3>1, <3>3, KeylessLock DEF UserKept
    <3> QED BY <1>1, <1>3, <3>1, <3>3, <3>4 DEF LedsTell, UserKept
  <2> QED BY <1>1, <2>0, <2>1 DEF LInv, UserKept
<1> QED BY <1>2, <1>3

(* Initially the device has no lock on, and what is queued presses no key. *)
LEMMA InitLock == Init => LInv
<1> SUFFICES ASSUME Init PROVE LInv
  OBVIOUS
<1>1. /\ user.held = {}
      /\ user = [held |-> user.held, lock |-> user.lock, pads |-> user.pads,
                 button |-> user.button, kinds |-> user.kinds, inputs |-> user.inputs]
      /\ tasks = <<>> /\ answers = <<>> /\ kb.keys = {} /\ kb.lock = FALSE
      /\ device.keys = {} /\ device.lock = FALSE
  BY DEF Init
<1>2. tasks \in Seq(Answers) /\ Len(<<>>) = 0
  BY <1>1
<1>3. LedsTell
  BY <1>1, <1>2 DEF LedsTell, LastLed
<1>4. CASE mode # "uhid"
  BY <1>1, <1>2, <1>4 DEF LInv, Undisturbed
<1>5. CASE mode = "uhid"
  <2>1. queue = <<OpenKeyboard, OpenMouse>>
    BY <1>5 DEF Init
  <2>2. Keyless(OpenKeyboard) /\ Keyless(OpenMouse)
    BY PadMessages, KeylessIs DEF OpenKeyboard, OpenMouse, Keyboard, Mouse
  <2>3. {} \in Keys
    BY DEF Keys
  <2>4. LeavesLock({}, <<>>, {})
    BY <2>3, LockLeft
  <2> DEFINE q == Append(<<>>, OpenKeyboard)
  <2>5. q \in Seq(Messages) /\ queue = Append(q, OpenMouse)
    BY <2>1, <2>2 DEF Keyless
  <2>6. ASSUME NEW msg, Keyless(msg)
        PROVE  KeysAfter({}, msg) = {} /\ ~Released({}, msg) /\ msg \in Messages
    BY <2>6 DEF Keyless, Released
  <2>7. LeavesLock({}, q, {})
    <3>1. <<>> \in Seq(Messages)
      OBVIOUS
    <3> QED BY <2>2, <2>4, <2>6, <3>1, LockAppend
  <2> HIDE DEF q
  <2>8. LeavesLock({}, queue, {})
    BY <2>2, <2>5, <2>6, <2>7, LockAppend
  <2>9. LockFollows
    BY <1>1, <2>3, <2>8 DEF LockFollows, Knows
  <2> QED BY <1>1, <1>2, <1>3, <2>9 DEF LInv
<1> QED BY <1>4, <1>5

(* So does every step. *)
LEMMA StepLock == FInv /\ LInv /\ [Next]_vars => LInv'
<1> SUFFICES ASSUME FInv, LInv, [Next]_vars PROVE LInv'
  OBVIOUS
<1> QED BY UserLock, SendsLock, ReceivesLock, TaskLock, OthersKeepLock
        DEF Next, ControllerThread, ReceiverThread

-----------------------------------------------------------------------------
(* The theorems.                                                           *)

(* Every reachable state satisfies the invariant. *)
THEOREM ControlInvariant == Spec => []CInv
<1>1. Init => CInv
  BY InitCInv
<1>2. CInv /\ [Next]_vars => CInv'
  BY StepCInv
<1> QED BY <1>1, <1>2, PTL DEF Spec

(* No thread sleeps while its queue holds something for it, or once it is to
   stop (controller.c:106 and aoa_hid.c:238): a push that signals only when the
   queue was empty loses no wakeup. *)
THEOREM NoWakeupIsLost == Spec => []NothingStranded
<1>1. CInv => NothingStranded
  BY DEF CInv, ControllerAwake, AoaAwake, NothingStranded
<1> QED BY <1>1, ControlInvariant, PTL

(* Once sc_main_thread_stop has run, no task of the receiver is queued, nor will
   be, that could reach a processor that is destroyed (receiver.c:140). *)
THEOREM NoTaskAfterTheLoop == Spec => []NoTaskIsLeft
<1>1. CInv => NoTaskIsLeft
  BY DEF CInv
<1> QED BY <1>1, ControlInvariant, PTL

(* Every reachable state satisfies the invariant: what is queued takes the device
   to what the main thread takes it to have, message by message. *)
THEOREM ControlFollows == Spec => []FInv
<1>1. Init => FInv
  BY InitFollows
<1>2. FInv /\ [Next]_vars => FInv'
  BY StepFollows
<1> QED BY <1>1, <1>2, PTL DEF Spec

(* The device is never sent what only makes sense after something it was not
   sent, however full the queues are and whatever order the threads run in
   (control_msg.c:351, input_manager.c:1004, keyboard_sdk.c:274,
   keyboard_aoa.c:53); what a failed transfer or a late acknowledgement undoes
   over USB is excepted. *)
THEOREM DeviceFollows == Spec => []DeviceCanFollow
<1>1. FInv => DeviceCanFollow
  BY DEF FInv
<1> QED BY <1>1, ControlFollows, PTL

(* Once the AOA thread has ended, none of its HID devices stays registered on
   the device although a transfer failed (aoa_hid.c:435), and once the event loop
   is over no task is left to reach a processor (receiver.c:140). *)
THEOREM NothingOutlives == Spec => []NothingIsLeft
<1>1. FInv => NothingIsLeft
  BY DEF FInv, CInv, UsbFollows, NothingIsLeft, NothingStaysRegistered
<1> QED BY <1>1, ControlFollows, PTL

(* Once everything has arrived and no lock key is down, the UHID keyboard knows
   the device's locks, whatever keys, LEDs and other inputs crossed
   (keyboard_uhid.c:41): unless a report was dropped, or a lock key was pressed
   or released while paused or with too many others. *)
THEOREM LocksStayKnown == Spec => []LocksAreKnown
<1>1. Init => LInv
  BY InitLock
<1>2. FInv /\ LInv /\ [Next]_vars => LInv'
  BY StepLock
<1>3. FInv /\ LInv => LocksAreKnown
  <2> SUFFICES ASSUME FInv, LInv, mode = "uhid", Quiet, "caps" \notin kb.keys,
                      ~lossy.report, ~lossy.lock
               PROVE  kb.lock = device.lock
    BY DEF LocksAreKnown
  <2>1. queue = <<>> /\ answers = <<>> /\ tasks = <<>> /\ LockFollows
    BY DEF Quiet, LInv, Undisturbed
  <2>2. ~HasLed(<<>>)
    BY DEF HasLed
  <2>3. \A s \in Keys : \A e : ~TogglesLock(s, <<>>, e)
    BY LockLeft
  <2>4. device.keys \in Keys
    BY DEF FInv, DataOK, Devices, Keys
  <2> QED BY <2>1, <2>2, <2>3, <2>4 DEF LockFollows, Knows
<1> QED BY <1>1, <1>2, <1>3, ControlFollows, PTL DEF Spec
=============================================================================
