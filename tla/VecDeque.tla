------------------------------ MODULE VecDeque ------------------------------
(***************************************************************************)
(* The growing ring buffer of the desktop client (util/vecdeque.h): the    *)
(* queue of the recorder, the controller, the AOA thread and the delay     *)
(* buffer.  A deque is a record of its allocation, indexed from 0, its     *)
(* capacity, the slot of its first item and its size.  A popped slot keeps *)
(* its old item in the code; here it becomes Hole, so that reading it      *)
(* would show.                                                             *)
(***************************************************************************)
EXTENDS Naturals, Sequences

CONSTANTS
  MinCap,   \* SC_VECDEQUE_MINCAP_ (10 in the code)
  MaxCap,   \* sc_vecdeque_max_cap_
  Hole      \* the content of a slot that holds no item

ASSUME CapAssumption ==
  MinCap \in Nat /\ MaxCap \in Nat /\ 2 <= MinCap /\ MinCap <= MaxCap

EmptyDeque == [data |-> [i \in {} |-> Hole], cap |-> 0, origin |-> 0, size |-> 0]

IsEmpty(q) == q.size = 0
IsFull(q)  == q.size = q.cap

(* sc_vecdeque_growsize_, clamped as by sc_vecdeque_grow_. *)
NewCap(cap) == LET grown == cap + cap \div 2
               IN IF grown < MinCap THEN MinCap
                  ELSE IF grown > MaxCap THEN MaxCap ELSE grown

ReallocInPlace(q, cap) ==   \* mutant: takes wrapped content to be in place
  [q EXCEPT !.cap = cap,
            !.data = [i \in 0 .. cap - 1 |-> IF i < q.cap THEN q.data[i] ELSE Hole]]

(* The content stays in place, or, if it wraps, is copied to the start. *)
Realloc(q, cap) ==
  IF q.origin + q.size <= q.cap
  THEN [q EXCEPT !.cap = cap,
                 !.data = [i \in 0 .. cap - 1 |->
                             IF i < q.cap THEN q.data[i] ELSE Hole]]
  ELSE LET right == q.cap - q.origin
       IN [q EXCEPT !.cap = cap, !.origin = 0,
                    !.data = [i \in 0 .. cap - 1 |->
                                IF i < right THEN q.data[q.origin + i]
                                ELSE IF i < q.size THEN q.data[i - right]
                                ELSE Hole]]

CanPush(q) == IsFull(q) => q.cap < MaxCap

Push(q, item) ==
  LET g == IF IsFull(q) THEN Realloc(q, NewCap(q.cap)) ELSE q
  IN [g EXCEPT !.data[(g.origin + g.size) % g.cap] = item, !.size = @ + 1]

FirstItem(q) == q.data[q.origin]

Pop(q) == [q EXCEPT !.data[q.origin] = Hole,
                    !.origin = (@ + 1) % q.cap,
                    !.size = @ - 1]

(* What the deque holds, as a sequence: for properties. *)
Content(q) == [i \in 1 .. q.size |-> q.data[(q.origin + i - 1) % q.cap]]
=============================================================================
