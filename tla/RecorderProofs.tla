--------------------------- MODULE RecorderProofs ---------------------------
(***************************************************************************)
(* The recorder, for any number of packets, any capacity of its queues,    *)
(* any timestamps and any failure of the library.  First, its ring buffer  *)
(* is a queue: pushing appends to its content and popping removes the      *)
(* head, although the content wraps around the end and moves when the      *)
(* buffer grows.  Then the queues hold what the loop takes them to hold,   *)
(* and a recording that is reported complete is complete.                  *)
(***************************************************************************)
EXTENDS Recorder, SequenceTheorems, TLAPS

-----------------------------------------------------------------------------
(* The ring buffer.                                                        *)

(* A deque in a state the macros of vecdeque.h can leave it in; S has its
   items, and Hole. *)
IsDeque(q, S) ==
  /\ q = [data |-> q.data, cap |-> q.cap, origin |-> q.origin, size |-> q.size]
  /\ q.cap \in {0} \cup MinCap .. MaxCap
  /\ q.data \in [0 .. q.cap - 1 -> S]
  /\ q.origin \in Nat /\ (q.origin < q.cap \/ q.origin = 0)
  /\ q.size \in 0 .. q.cap

(* A sequence with one more element, as the function it is. *)
LEMMA AppendAsFunction ==
  ASSUME NEW S, NEW s \in Seq(S), NEW e, NEW n \in Nat, Len(s) = n
  PROVE  Append(s, e) = [i \in 1 .. n + 1 |-> IF i = n + 1 THEN e ELSE s[i]]
<1> DEFINE r == Append(s, e)
<1>1. r \in Seq(S \cup {e}) /\ Len(r) = n + 1 /\ r[n + 1] = e
      /\ \A i \in 1 .. n : r[i] = s[i]
  <2>1. s \in Seq(S \cup {e}) /\ e \in S \cup {e}
    OBVIOUS
  <2> QED BY <2>1, AppendProperties
<1> HIDE DEF r
<1>2. \A i \in 1 .. n + 1 : r[i] = IF i = n + 1 THEN e ELSE s[i]
  BY <1>1
<1>3. r = [i \in 1 .. n + 1 |-> r[i]]
  BY <1>1
<1> QED BY <1>2, <1>3 DEF r

(* The remainder of an index that has passed the end at most once. *)
LEMMA Wraps ==
  ASSUME NEW i \in Nat, NEW c \in Nat, c > 0
  PROVE  /\ i % c \in 0 .. c - 1
         /\ i < c => i % c = i
         /\ c <= i /\ i < 2 * c => i % c = i - c
OBVIOUS

(* The same of a sum: an origin and an offset of at most the capacity. *)
LEMMA WrapsSum ==
  ASSUME NEW a \in Nat, NEW b \in Nat, NEW c \in Nat, a < c, b <= c
  PROVE  /\ a + b < c => (a + b) % c = a + b
         /\ c <= a + b => (a + b) % c = a + b - c
<1>1. PICK i \in Nat : i = a + b
  OBVIOUS
<1>2. c > 0 /\ i < 2 * c
  BY <1>1
<1>3. /\ i < c => i % c = i
      /\ c <= i => i % c = i - c
  BY <1>2, Wraps
<1> QED BY <1>1, <1>3

(* Where the i-th item is. *)
LEMMA Slot ==
  ASSUME NEW c \in Nat, NEW o \in Nat, o < c, NEW i \in 1 .. c
  PROVE  /\ i - 1 < c - o => (o + i - 1) % c = o + (i - 1)
         /\ ~(i - 1 < c - o) => (o + i - 1) % c = (i - 1) - (c - o)
<1>1. o + i - 1 \in Nat /\ c > 0 /\ o + i - 1 < 2 * c
  OBVIOUS
<1>2. /\ o + i - 1 < c => (o + i - 1) % c = o + i - 1
      /\ c <= o + i - 1 => (o + i - 1) % c = o + i - 1 - c
  BY <1>1, Wraps
<1> QED BY <1>2

(* The items of a buffer whose origin is 0 are in their order. *)
LEMMA SlotFromZero ==
  ASSUME NEW c \in Nat, NEW i \in 1 .. c
  PROVE  (0 + i - 1) % c = i - 1
<1>1. i - 1 \in Nat /\ i - 1 < c /\ c > 0
  OBVIOUS
<1>2. (i - 1) % c = i - 1
  BY <1>1, Wraps
<1>3. 0 + i - 1 = i - 1
  OBVIOUS
<1> QED BY <1>2, <1>3

(* SC_VECDEQUE_INITIALIZER is a deque that holds nothing. *)
LEMMA EmptyIsDeque ==
  ASSUME NEW S
  PROVE  IsDeque(EmptyDeque, S) /\ Content(EmptyDeque) = <<>>
BY CapAssumption DEF EmptyDeque, IsDeque, Content

(* The content is a sequence of items, as long as the size says. *)
LEMMA ContentIsSeq ==
  ASSUME NEW S, NEW q, IsDeque(q, S)
  PROVE  Content(q) \in Seq(S) /\ Len(Content(q)) = q.size
<1>1. \A i \in 1 .. q.size : q.data[(q.origin + i - 1) % q.cap] \in S
  <2> SUFFICES ASSUME NEW i \in 1 .. q.size
               PROVE  q.data[(q.origin + i - 1) % q.cap] \in S
    OBVIOUS
  <2>1. q.cap \in Nat /\ q.cap > 0 /\ q.origin + i - 1 \in Nat
    BY CapAssumption DEF IsDeque
  <2>2. (q.origin + i - 1) % q.cap \in 0 .. q.cap - 1
    BY <2>1, Wraps
  <2> QED BY <2>2 DEF IsDeque
<1>2. q.size \in Nat
  BY CapAssumption DEF IsDeque
<1> QED BY <1>1, <1>2 DEF Content

(* sc_vecdeque_growsize_: a full deque that may still grow does. *)
LEMMA NewCapGrows ==
  ASSUME NEW cap \in {0} \cup MinCap .. MaxCap, cap < MaxCap
  PROVE  NewCap(cap) \in MinCap .. MaxCap /\ cap < NewCap(cap)
<1>1. cap \div 2 \in Nat /\ (cap >= 2 => cap \div 2 >= 1)
  BY CapAssumption
<1> QED BY <1>1, CapAssumption DEF NewCap

(* sc_vecdeque_reallocdata_, content in one piece: it stays in place. *)
LEMMA ReallocExtends ==
  ASSUME NEW S, NEW q, Hole \in S, IsDeque(q, S),
         NEW cap \in MinCap .. MaxCap, q.cap < cap,
         q.origin + q.size <= q.cap,
         NEW r, r = Realloc(q, cap)
  PROVE  /\ IsDeque(r, S)
         /\ r.cap = cap /\ r.size = q.size
         /\ Content(r) = Content(q)
<1>0. /\ q.cap \in Nat /\ cap \in Nat /\ cap >= 2 /\ q.size \in Nat
      /\ q.size <= q.cap /\ q.origin \in Nat
  BY CapAssumption DEF IsDeque
<1>1. r = [data |-> [i \in 0 .. cap - 1 |-> IF i < q.cap THEN q.data[i] ELSE Hole],
           cap |-> cap, origin |-> q.origin, size |-> q.size]
  BY DEF Realloc, IsDeque
<1>2. /\ r.cap = cap /\ r.size = q.size /\ r.origin = q.origin
      /\ r.data = [i \in 0 .. cap - 1 |-> IF i < q.cap THEN q.data[i] ELSE Hole]
  BY <1>1
<1>3. IsDeque(r, S)
  BY <1>0, <1>1 DEF IsDeque
<1>4. ASSUME NEW i \in 1 .. q.size
      PROVE  r.data[(r.origin + i - 1) % r.cap] = q.data[(q.origin + i - 1) % q.cap]
  <2>1. q.origin + i - 1 \in Nat /\ q.origin + i - 1 < q.cap
    BY <1>0
  <2>2. (q.origin + i - 1) % q.cap = q.origin + i - 1
        /\ (q.origin + i - 1) % cap = q.origin + i - 1
    BY <1>0, <2>1, Wraps
  <2>3. q.origin + i - 1 \in 0 .. cap - 1
    BY <1>0, <2>1
  <2> HIDE DEF IsDeque
  <2> DEFINE k == q.origin + i - 1
  <2>4. r.data[k] = q.data[k]
    BY <1>2, <2>1, <2>3
  <2> QED BY <1>2, <2>2, <2>4
<1>5. Content(r) = Content(q)
  BY <1>2, <1>4 DEF Content
<1> QED BY <1>2, <1>3, <1>5

(* sc_vecdeque_reallocdata_, content that wraps: its two pieces are copied,
   one after the other, to the start of the new allocation. *)
LEMMA ReallocUnwraps ==
  ASSUME NEW S, NEW q, Hole \in S, IsDeque(q, S),
         NEW cap \in MinCap .. MaxCap, q.cap < cap,
         ~(q.origin + q.size <= q.cap),
         NEW r, r = Realloc(q, cap)
  PROVE  /\ IsDeque(r, S)
         /\ r.cap = cap /\ r.size = q.size
         /\ Content(r) = Content(q)
<1> DEFINE right == q.cap - q.origin
           item(i) == IF i < right THEN q.data[q.origin + i]
                      ELSE IF i < q.size THEN q.data[i - right] ELSE Hole
<1>0. /\ q.cap \in Nat /\ cap \in Nat /\ cap >= 2 /\ q.size \in Nat
      /\ q.size <= q.cap /\ q.origin \in Nat /\ q.origin < q.cap
      /\ q.data \in [0 .. q.cap - 1 -> S]
      /\ right \in Nat /\ right < q.size
  BY CapAssumption DEF IsDeque
<1>1. r = [data |-> [i \in 0 .. cap - 1 |-> item(i)],
           cap |-> cap, origin |-> 0, size |-> q.size]
  <2>1. r = [q EXCEPT !.cap = cap, !.origin = 0,
                      !.data = [i \in 0 .. cap - 1 |-> item(i)]]
    BY DEF Realloc
  <2> HIDE DEF item
  <2> QED BY <2>1 DEF IsDeque
<1>2. /\ r.cap = cap /\ r.size = q.size /\ r.origin = 0
      /\ r.data = [i \in 0 .. cap - 1 |-> item(i)]
  BY <1>1
<1>3. ASSUME NEW i \in 0 .. cap - 1
      PROVE  item(i) \in S
  <2>1. CASE i < right
    <3>1. q.origin + i \in 0 .. q.cap - 1
      BY <1>0, <2>1
    <3> QED BY <1>0, <2>1, <3>1
  <2>2. CASE ~(i < right) /\ i < q.size
    <3>1. i - right \in 0 .. q.cap - 1
      BY <1>0, <2>2
    <3> QED BY <1>0, <2>2, <3>1
  <2>3. CASE ~(i < right) /\ ~(i < q.size)
    BY <2>3
  <2> QED BY <2>1, <2>2, <2>3
<1>4. IsDeque(r, S)
  <2> HIDE DEF item
  <2>1. [i \in 0 .. cap - 1 |-> item(i)] \in [0 .. cap - 1 -> S]
    BY <1>3
  <2> QED BY <1>0, <1>1, <2>1 DEF IsDeque
<1>5. ASSUME NEW i \in 1 .. q.size
      PROVE  r.data[(r.origin + i - 1) % r.cap] = q.data[(q.origin + i - 1) % q.cap]
  <2>1. i \in 1 .. cap /\ i \in 1 .. q.cap /\ i - 1 \in 0 .. cap - 1
    BY <1>0
  <2>2. (0 + i - 1) % cap = i - 1
    BY <1>0, <2>1, SlotFromZero
  <2>3. r.data[(r.origin + i - 1) % r.cap] = item(i - 1)
    <3> HIDE DEF item
    <3> QED BY <1>2, <2>1, <2>2
  <2>4. CASE i - 1 < right
    <3>2. (q.origin + i - 1) % q.cap = q.origin + (i - 1)
      BY <1>0, <2>1, <2>4, Slot
    <3> QED BY <2>3, <2>4, <3>2
  <2>5. CASE ~(i - 1 < right)
    <3>2. (q.origin + i - 1) % q.cap = (i - 1) - right
      BY <1>0, <2>1, <2>5, Slot
    <3>3. i - 1 < q.size
      BY <1>0
    <3> QED BY <2>3, <2>5, <3>2, <3>3
  <2> QED BY <2>4, <2>5
<1>6. Content(r) = Content(q)
  BY <1>2, <1>5 DEF Content
<1> QED BY <1>2, <1>4, <1>6

(* sc_vecdeque_reallocdata_: in both cases the content is the same. *)
LEMMA ReallocKeepsContent ==
  ASSUME NEW S, NEW q, Hole \in S, IsDeque(q, S),
         NEW cap \in MinCap .. MaxCap, q.cap < cap
  PROVE  /\ IsDeque(Realloc(q, cap), S)
         /\ Realloc(q, cap).cap = cap /\ Realloc(q, cap).size = q.size
         /\ Content(Realloc(q, cap)) = Content(q)
BY ReallocExtends, ReallocUnwraps

(* Pushing appends, whether the buffer grows or not. *)
THEOREM PushAppends ==
  ASSUME NEW S, NEW q, Hole \in S, IsDeque(q, S), CanPush(q), NEW item \in S
  PROVE  /\ IsDeque(Push(q, item), S)
         /\ Content(Push(q, item)) = Append(Content(q), item)
<1> DEFINE g == IF IsFull(q) THEN Realloc(q, NewCap(q.cap)) ELSE q
           p == Push(q, item)
<1>1. /\ IsDeque(g, S) /\ Content(g) = Content(q)
      /\ g.size < g.cap /\ g.size = q.size
  <2>1. q.cap \in {0} \cup MinCap .. MaxCap /\ q.size \in 0 .. q.cap
        /\ q.cap \in Nat /\ q.size \in Nat
    BY CapAssumption DEF IsDeque
  <2>2. CASE IsFull(q)
    <3>1. q.cap < MaxCap /\ q.size = q.cap
      BY <2>2 DEF CanPush, IsFull
    <3>2. NewCap(q.cap) \in MinCap .. MaxCap /\ q.cap < NewCap(q.cap)
      BY <2>1, <3>1, NewCapGrows
    <3> QED BY <2>2, <3>1, <3>2, ReallocKeepsContent
  <2>3. CASE ~IsFull(q)
    BY <2>1, <2>3 DEF IsFull
  <2> QED BY <2>2, <2>3
<1>2. p = [g EXCEPT !.data[(g.origin + g.size) % g.cap] = item, !.size = @ + 1]
  BY DEF Push
<1> HIDE DEF g, p
<1>3. /\ g.cap \in Nat /\ g.cap > 0 /\ g.size \in Nat /\ g.origin \in Nat
      /\ g.origin < g.cap /\ g.data \in [0 .. g.cap - 1 -> S]
      /\ g.cap \in MinCap .. MaxCap
      /\ g = [data |-> g.data, cap |-> g.cap, origin |-> g.origin, size |-> g.size]
  BY <1>1, CapAssumption DEF IsDeque
<1> DEFINE end == (g.origin + g.size) % g.cap
<1>4. end \in 0 .. g.cap - 1
  <2>1. g.origin + g.size \in Nat
    BY <1>3
  <2> QED BY <1>3, <2>1, Wraps
<1> HIDE DEF end
<1>5. p = [data |-> [g.data EXCEPT ![end] = item], cap |-> g.cap,
           origin |-> g.origin, size |-> g.size + 1]
  <2>1. p = [g EXCEPT !.data[end] = item, !.size = @ + 1]
    BY <1>2 DEF end
  <2> QED BY <1>3, <2>1
<1>6. IsDeque(p, S)
  BY <1>1, <1>3, <1>4, <1>5 DEF IsDeque
<1>7. /\ p.data = [g.data EXCEPT ![end] = item] /\ p.cap = g.cap
      /\ p.origin = g.origin /\ p.size = g.size + 1
  BY <1>5
<1>8. ASSUME NEW i \in 1 .. g.size + 1
      PROVE  p.data[(p.origin + i - 1) % p.cap] =
               IF i = g.size + 1 THEN item ELSE g.data[(g.origin + i - 1) % g.cap]
  <2>1. i \in 1 .. g.cap /\ g.size + 1 \in 1 .. g.cap
    BY <1>1, <1>3
  <2> DEFINE at(n) == (g.origin + n - 1) % g.cap
  <2>2. at(g.size + 1) = end
    BY <1>3, g.origin + (g.size + 1) - 1 = g.origin + g.size DEF end
  <2>3. at(i) \in 0 .. g.cap - 1
    <3>1. g.origin + i - 1 \in Nat
      BY <1>3
    <3> QED BY <1>3, <3>1, Wraps
  <2>4. i # g.size + 1 => at(i) # at(g.size + 1)
    <3>1. /\ i - 1 < g.cap - g.origin => at(i) = g.origin + (i - 1)
          /\ ~(i - 1 < g.cap - g.origin) => at(i) = (i - 1) - (g.cap - g.origin)
      BY <1>3, <2>1, Slot
    <3>2. /\ g.origin + g.size < g.cap => end = g.origin + g.size
          /\ g.cap <= g.origin + g.size => end = g.origin + g.size - g.cap
      <4>1. g.size <= g.cap
        BY <1>1, <1>3
      <4> QED BY <1>3, <4>1, WrapsSum DEF end
    <3> HIDE DEF at
    <3>3. SUFFICES ASSUME i # g.size + 1
                   PROVE  at(i) # end
      BY <2>2
    <3>4. i \in Nat /\ 1 <= i /\ i <= g.size
      BY <1>3, <3>3
    <3>5. CASE i - 1 < g.cap - g.origin
      <4>1. at(i) = g.origin + (i - 1)
        BY <3>1, <3>5
      <4> QED BY <1>1, <1>3, <3>2, <3>4, <4>1
    <3>6. CASE ~(i - 1 < g.cap - g.origin)
      <4>1. at(i) = (i - 1) - (g.cap - g.origin)
        BY <3>1, <3>6
      <4> QED BY <1>1, <1>3, <3>2, <3>4, <3>6, <4>1
    <3> QED BY <3>5, <3>6
  <2> HIDE DEF at
  <2>5. p.data[at(i)] = IF i = g.size + 1 THEN item ELSE g.data[at(i)]
    BY <1>3, <1>4, <1>7, <2>2, <2>3, <2>4
  <2> QED BY <1>7, <2>5 DEF at
<1>9. Content(p) = Append(Content(g), item)
  <2>1. Content(g) \in Seq(S) /\ Len(Content(g)) = g.size
    BY <1>1, ContentIsSeq
  <2>2. Append(Content(g), item)
          = [i \in 1 .. g.size + 1 |->
               IF i = g.size + 1 THEN item ELSE g.data[(g.origin + i - 1) % g.cap]]
    <3>1. \A i \in 1 .. g.size :
            Content(g)[i] = g.data[(g.origin + i - 1) % g.cap]
      BY DEF Content
    <3>2. Append(Content(g), item)
            = [i \in 1 .. g.size + 1 |-> IF i = g.size + 1 THEN item ELSE Content(g)[i]]
      BY <1>3, <2>1, AppendAsFunction
    <3>3. ASSUME NEW i \in 1 .. g.size + 1
          PROVE  (IF i = g.size + 1 THEN item ELSE Content(g)[i])
                   = (IF i = g.size + 1 THEN item ELSE g.data[(g.origin + i - 1) % g.cap])
      <4>1. CASE i = g.size + 1
        BY <4>1
      <4>2. CASE i # g.size + 1
        <5>1. i \in 1 .. g.size
          BY <1>3, <4>2
        <5> QED BY <3>1, <4>2, <5>1
      <4> QED BY <4>1, <4>2
    <3> QED BY <3>2, <3>3
  <2> QED BY <1>7, <1>8, <2>2 DEF Content
<1> QED BY <1>1, <1>6, <1>9 DEF p

(* Popping removes the first item, which popref returned. *)
THEOREM PopRemovesFirst ==
  ASSUME NEW S, NEW q, Hole \in S, IsDeque(q, S), ~IsEmpty(q)
  PROVE  /\ IsDeque(Pop(q), S)
         /\ FirstItem(q) = Head(Content(q))
         /\ Content(Pop(q)) = Tail(Content(q))
<1> DEFINE p == Pop(q)
<1>1. /\ q.cap \in Nat /\ q.cap > 0 /\ q.size \in Nat /\ q.size >= 1 /\ q.origin \in Nat
      /\ q.origin < q.cap /\ q.data \in [0 .. q.cap - 1 -> S] /\ q.size <= q.cap
      /\ q.cap \in MinCap .. MaxCap
      /\ q = [data |-> q.data, cap |-> q.cap, origin |-> q.origin, size |-> q.size]
  BY CapAssumption DEF IsDeque, IsEmpty
<1> DEFINE next == (q.origin + 1) % q.cap
<1>2. next \in 0 .. q.cap - 1
  <2>1. q.origin + 1 \in Nat
    BY <1>1
  <2> QED BY <1>1, <2>1, Wraps
<1>3. p = [data |-> [q.data EXCEPT ![q.origin] = Hole], cap |-> q.cap,
           origin |-> next, size |-> q.size - 1]
  <2>1. p = [q EXCEPT !.data[q.origin] = Hole, !.origin = next, !.size = q.size - 1]
    BY <1>1 DEF Pop
  <2> HIDE DEF next
  <2> QED BY <1>1, <2>1
<1> HIDE DEF p
<1>4. /\ p.data = [q.data EXCEPT ![q.origin] = Hole] /\ p.cap = q.cap
      /\ p.origin = next /\ p.size = q.size - 1
  BY <1>3
<1>5. IsDeque(p, S)
  <2> HIDE DEF next
  <2> QED BY <1>1, <1>2, <1>3 DEF IsDeque
<1>6. Content(q) \in Seq(S) /\ Len(Content(q)) = q.size
  BY ContentIsSeq
<1>7. FirstItem(q) = Head(Content(q))
  <2>1. q.origin + 1 - 1 = q.origin /\ q.origin % q.cap = q.origin
    BY <1>1, Wraps
  <2>2. Content(q)[1] = q.data[q.origin]
    BY <1>1, <2>1 DEF Content
  <2> QED BY <1>1, <1>6, <2>2 DEF FirstItem
<1>8. ASSUME NEW i \in 1 .. q.size - 1
      PROVE  p.data[(p.origin + i - 1) % p.cap] = q.data[(q.origin + (i + 1) - 1) % q.cap]
  <2> DEFINE at(n) == (q.origin + n - 1) % q.cap
             from(n) == (next + n - 1) % q.cap
  <2>1. i \in 1 .. q.cap /\ i + 1 \in 1 .. q.cap /\ next \in Nat /\ next < q.cap
    BY <1>1, <1>2
  <2>2. /\ q.origin + 1 < q.cap => next = q.origin + 1
        /\ ~(q.origin + 1 < q.cap) => next = 0
    <3>1. 1 <= q.cap /\ 1 \in Nat
      BY <1>1
    <3>2. /\ q.origin + 1 < q.cap => next = q.origin + 1
          /\ q.cap <= q.origin + 1 => next = q.origin + 1 - q.cap
      BY <1>1, <3>1, WrapsSum
    <3> HIDE DEF next
    <3> QED BY <1>1, <3>2
  <2>3. /\ (i + 1) - 1 < q.cap - q.origin => at(i + 1) = q.origin + ((i + 1) - 1)
        /\ ~((i + 1) - 1 < q.cap - q.origin)
             => at(i + 1) = ((i + 1) - 1) - (q.cap - q.origin)
    BY <1>1, <2>1, Slot
  <2> HIDE DEF next
  <2>4. /\ i - 1 < q.cap - next => from(i) = next + (i - 1)
        /\ ~(i - 1 < q.cap - next) => from(i) = (i - 1) - (q.cap - next)
    BY <1>1, <2>1, Slot
  <2> HIDE DEF at, from
  <2>5. from(i) = at(i + 1) /\ at(i + 1) # q.origin /\ at(i + 1) \in 0 .. q.cap - 1
    <3>1. /\ q.cap \in Nat /\ q.origin \in Nat /\ q.origin < q.cap /\ q.size <= q.cap
          /\ q.size \in Nat /\ i \in Nat /\ 1 <= i /\ i < q.size
      BY <1>1
    <3>2. CASE q.origin + 1 < q.cap
      <4>1. next = q.origin + 1
        BY <2>2, <3>2
      <4>2. CASE i < q.cap - q.origin
        <5>1. at(i + 1) = q.origin + i /\ from(i) = q.origin + i
          BY <2>3, <2>4, <3>1, <4>1, <4>2
        <5> QED BY <3>1, <4>2, <5>1
      <4>3. CASE ~(i < q.cap - q.origin)
        <5>1. at(i + 1) = i - (q.cap - q.origin) /\ from(i) = i - (q.cap - q.origin)
          BY <2>3, <2>4, <3>1, <4>1, <4>3
        <5> QED BY <3>1, <4>3, <5>1
      <4> QED BY <4>2, <4>3
    <3>3. CASE ~(q.origin + 1 < q.cap)
      <4>1. next = 0 /\ q.origin = q.cap - 1
        BY <2>2, <3>1, <3>3
      <4>2. at(i + 1) = i - 1 /\ from(i) = i - 1
        BY <2>3, <2>4, <3>1, <4>1
      <4> QED BY <3>1, <4>1, <4>2
    <3> QED BY <3>2, <3>3
  <2>6. p.data[from(i)] = q.data[at(i + 1)]
    BY <1>1, <1>4, <2>5
  <2> QED BY <1>4, <2>6 DEF at, from
<1>9. Content(p) = Tail(Content(q))
  <2>1. Tail(Content(q)) = [i \in 1 .. q.size - 1 |-> Content(q)[i + 1]]
    <3>1. Content(q) # <<>>
      BY <1>1, <1>6
    <3>2. /\ Tail(Content(q)) \in Seq(S) /\ Len(Tail(Content(q))) = q.size - 1
          /\ \A i \in 1 .. Len(Tail(Content(q))) : Tail(Content(q))[i] = Content(q)[i + 1]
      BY <1>6, <3>1, HeadTailProperties
    <3> DEFINE t == Tail(Content(q))
    <3> HIDE DEF t
    <3>3. t \in Seq(S) /\ Len(t) = q.size - 1
          /\ \A i \in 1 .. q.size - 1 : t[i] = Content(q)[i + 1]
      BY <3>2 DEF t
    <3>4. t \in [1 .. q.size - 1 -> S]
      BY <3>3, LenProperties
    <3>5. t = [i \in 1 .. q.size - 1 |-> t[i]]
      BY <3>4
    <3>6. [i \in 1 .. q.size - 1 |-> t[i]] = [i \in 1 .. q.size - 1 |-> Content(q)[i + 1]]
      BY <3>3
    <3> QED BY <3>5, <3>6 DEF t
  <2>2. ASSUME NEW i \in 1 .. q.size - 1
        PROVE  Content(q)[i + 1] = q.data[(q.origin + (i + 1) - 1) % q.cap]
    BY <1>1 DEF Content
  <2> QED BY <1>4, <1>8, <2>1, <2>2 DEF Content
<1> QED BY <1>5, <1>7, <1>9 DEF p

-----------------------------------------------------------------------------
(* The recorder: what its variables hold.                                  *)

(* A packet as the device sends it. *)
Sent == [id : Nat, pts : Ptses \cup {NoPts}, config : Nat]

(* A queue that holds packets only. *)
HoldsPackets(q) ==
  IsDeque(q, Packets \cup {Hole}) /\ Content(q) \in Seq(Sent)

TypeInv ==
  /\ demuxer \in [Streams -> {"codec", "loop", "close", "ended"}]
  /\ merger \in [Streams -> Nat]
  /\ received \in [Streams -> Nat]
  /\ wanted \in [Streams -> BOOLEAN]
  /\ accepted \in [Streams -> Seq(Sent)]
  /\ queue = [s \in Streams |-> queue[s]]
  /\ \A s \in Streams : HoldsPackets(queue[s])
  /\ packet \in [Streams -> Sent \cup {None}]
  /\ previous \in Packets \cup {None}
  /\ previous # None => \E a, b \in Ptses : previous.pts = a - b
  /\ origin \in Ptses \cup {NoPts}
  /\ written \in [Streams -> Seq(Packets)]
  /\ last \in [Streams -> Int]
  /\ stopped \in BOOLEAN /\ failed \in BOOLEAN /\ ioError \in BOOLEAN

(* A stream has packets only once its demuxer has opened its sinks, which the
   demuxer of a stream that is not recorded never does. *)
OnlyOpenStreamsHavePackets ==
  \A s \in Streams :
    /\ demuxer[s] = "loop" => wanted[s]
    /\ demuxer[s] = "codec" \/ ~wanted[s] => IsEmpty(queue[s]) /\ packet[s] = None

(* The threads's states in which it may still write; it fails by leaving them. *)
Recording == {"open", "header", "wait", "process", "trailer"}

(* The loop ends, and the thread, after the recorder is stopped. *)
EndsStopped ==
  /\ thread \in Recording \cup {"close", "clear", "ended"}
  /\ thread \in {"trailer", "ended"} => stopped /\ \A s \in Streams : IsEmpty(queue[s])
  /\ thread = "trailer" => \A s \in Streams : packet[s] = None
  /\ thread = "process" => \E s \in Streams : packet[s] # None
  /\ thread \notin Recording /\ ~failed => stopped
  /\ thread \in Recording => ~failed

(* Packets are numbered as they are received. *)
Numbered(q, n) ==
  /\ \A i, j \in 1 .. Len(q) : i < j => q[i].id < q[j].id
  /\ \A i \in 1 .. Len(q) : q[i].id <= n

(* The media packets of q are those of a behind the first m, in their order. *)
RestIn(a, q, m) ==
  /\ \A k \in 1 .. Len(q) : q[k].pts # NoPts => \E i \in m + 1 .. Len(a) : a[i] = q[k]
  /\ \A i \in m + 1 .. Len(a) : \E k \in 1 .. Len(q) : a[i] = q[k]

(* How many accepted packets have been written, or are the last video packet, or
   have been taken from the queue. *)
Behind(s) == Len(written[s]) + (IF s = "video" /\ previous # None THEN 1 ELSE 0)
HasMedia(s) == packet[s] # None /\ packet[s].pts # NoPts
Gone(s) == Behind(s) + (IF HasMedia(s) THEN 1 ELSE 0)

Same(e, p) == e.id = p.id /\ e.config = p.config

WrittenInOrder(s) ==
  /\ Len(written[s]) <= Len(accepted[s])
  /\ \A i \in 1 .. Len(written[s]) : Same(written[s][i], accepted[s][i])

(* Each accepted packet of a stream is written, or held, or queued, in the order
   in which it was accepted. *)
Flows(s) ==
  /\ WrittenInOrder(s)
  /\ Gone(s) <= Len(accepted[s])
  /\ s = "video" /\ previous # None => Same(previous, accepted[s][Len(written[s]) + 1])
  /\ HasMedia(s) => packet[s] = accepted[s][Behind(s) + 1]
  /\ RestIn(accepted[s], Content(queue[s]), Gone(s))

(* ... and written when the recording has not failed. *)
Complete(s) ==
  /\ WrittenInOrder(s)
  /\ \/ Len(written[s]) = Len(accepted[s])
     \/ ioError /\ s = "video" /\ Len(written[s]) = Len(accepted[s]) - 1

NothingIsLost ==
  \A s \in Streams :
    /\ Numbered(accepted[s], received[s]) /\ Numbered(Content(queue[s]), received[s])
    /\ \A i \in 1 .. Len(accepted[s]) : accepted[s][i].pts # NoPts
    /\ thread \in Recording => Flows(s)
    /\ thread \notin Recording /\ ~failed => Complete(s)

(* The timestamps in the file grow, and last has the greatest. *)
TimestampsGrow ==
  \A s \in Streams :
    /\ \A i \in 1 .. Len(written[s]) - 1 : written[s][i].pts < written[s][i + 1].pts
    /\ thread \in Recording => /\ last[s] = NoPts => written[s] = <<>>
                               /\ written[s] # <<>> => last[s] = written[s][Len(written[s])].pts
                               /\ NoPts <= last[s]

RInv ==
  TypeInv /\ OnlyOpenStreamsHavePackets /\ EndsStopped /\ NothingIsLost /\ TimestampsGrow

-----------------------------------------------------------------------------
(* The queues.                                                             *)

(* What the device sends is a packet, and no packet is the absence of one. *)
LEMMA SentPackets ==
  /\ Sent \subseteq Packets /\ None \notin Packets /\ None = Hole
  /\ NoPts \notin Ptses /\ Ptses \subseteq Int /\ NoPts \in Int
<1>1. NoPts \notin Ptses /\ Ptses \subseteq Int /\ NoPts \in Int
  BY RecorderAssumption
<1>2. Ptses \cup {NoPts} \subseteq Int
  BY <1>1
<1>3. Sent \subseteq Packets
  BY <1>2 DEF Sent, Packets
<1> QED BY <1>1, <1>3, RecorderAssumption DEF None

(* Packets have a number. *)
LEMMA SentIds == ASSUME NEW q \in Seq(Sent) PROVE \A i \in 1 .. Len(q) : q[i].id \in Nat
<1>1. \A p \in Sent : p.id \in Nat
  BY DEF Sent
<1>2. \A i \in 1 .. Len(q) : q[i] \in Sent
  OBVIOUS
<1> QED BY <1>1, <1>2

(* A queue is empty when its content is. *)
LEMMA EmptyContent ==
  ASSUME NEW q, HoldsPackets(q)
  PROVE  q.size \in Nat /\ (IsEmpty(q) <=> Content(q) = <<>>)
<1>1. Len(Content(q)) = q.size /\ Content(q) \in Seq(Sent)
  BY ContentIsSeq DEF HoldsPackets
<1> QED BY <1>1 DEF IsEmpty

(* A new queue holds no packet. *)
LEMMA EmptyHolds ==
  HoldsPackets(EmptyDeque) /\ IsEmpty(EmptyDeque) /\ Content(EmptyDeque) = <<>>
<1>1. IsDeque(EmptyDeque, Packets \cup {Hole}) /\ Content(EmptyDeque) = <<>>
  BY EmptyIsDeque
<1>2. <<>> \in Seq(Sent)
  OBVIOUS
<1> QED BY <1>1, <1>2 DEF HoldsPackets, IsEmpty, EmptyDeque

(* sc_vecdeque_push *)
LEMMA PushHolds ==
  ASSUME NEW q, HoldsPackets(q), CanPush(q), NEW p \in Sent
  PROVE  HoldsPackets(Push(q, p)) /\ Content(Push(q, p)) = Append(Content(q), p)
<1>1. /\ IsDeque(Push(q, p), Packets \cup {Hole})
      /\ Content(Push(q, p)) = Append(Content(q), p)
  BY PushAppends, SentPackets DEF HoldsPackets
<1> QED BY <1>1 DEF HoldsPackets

(* sc_vecdeque_pop, which returns a packet. *)
LEMMA PopHolds ==
  ASSUME NEW q, HoldsPackets(q), ~IsEmpty(q)
  PROVE  /\ HoldsPackets(Pop(q)) /\ FirstItem(q) \in Sent /\ FirstItem(q) # None
         /\ FirstItem(q) = Head(Content(q)) /\ Content(Pop(q)) = Tail(Content(q))
         /\ Content(q) \in Seq(Sent) /\ Content(q) # <<>>
<1>1. /\ IsDeque(Pop(q), Packets \cup {Hole})
      /\ FirstItem(q) = Head(Content(q))
      /\ Content(Pop(q)) = Tail(Content(q))
  BY PopRemovesFirst DEF HoldsPackets
<1>2. Content(q) \in Seq(Sent) /\ Content(q) # <<>>
  BY EmptyContent DEF HoldsPackets
<1>3. Head(Content(q)) \in Sent /\ Tail(Content(q)) \in Seq(Sent)
  BY <1>2
<1> QED BY <1>1, <1>2, <1>3, SentPackets DEF HoldsPackets

(* A packet is numbered higher than those before it. *)
LEMMA NumberedAppend ==
  ASSUME NEW q \in Seq(Sent), NEW p \in Sent, NEW n \in Nat, Numbered(q, n), p.id = n + 1
  PROVE  Numbered(Append(q, p), n + 1) /\ Numbered(q, n + 1)
<1> DEFINE r == Append(q, p)
<1>1. /\ Len(q) \in Nat /\ Len(r) = Len(q) + 1 /\ r[Len(q) + 1] = p
      /\ \A i \in 1 .. Len(q) : r[i] = q[i] /\ q[i].id \in Nat
  BY SentIds
<1> HIDE DEF r
<1>2. Numbered(q, n + 1)
  BY <1>1 DEF Numbered
<1>3. \A i \in 1 .. Len(r) : r[i].id <= n + 1
  BY <1>1 DEF Numbered
<1>4. ASSUME NEW i \in 1 .. Len(r), NEW j \in 1 .. Len(r), i < j
      PROVE  r[i].id < r[j].id
  <2>1. i \in 1 .. Len(q)
    BY <1>1, <1>4
  <2>2. CASE j \in 1 .. Len(q)
    BY <1>1, <1>4, <2>1, <2>2 DEF Numbered
  <2>3. CASE j = Len(q) + 1
    BY <1>1, <2>1, <2>3 DEF Numbered
  <2> QED BY <1>1, <2>2, <2>3
<1> QED BY <1>2, <1>3, <1>4 DEF Numbered, r

(* ... also when the one in front has gone. *)
LEMMA NumberedTail ==
  ASSUME NEW q \in Seq(Sent), q # <<>>, NEW n \in Nat, Numbered(q, n)
  PROVE  Numbered(Tail(q), n)
<1> DEFINE r == Tail(q)
<1>1. /\ Len(q) \in Nat /\ Len(q) > 0 /\ Len(r) = Len(q) - 1
      /\ \A i \in 1 .. Len(r) : r[i] = q[i + 1]
  OBVIOUS
<1> HIDE DEF r
<1>2. \A i \in 1 .. Len(r) : i + 1 \in 1 .. Len(q)
  BY <1>1
<1>3. \A i, j \in 1 .. Len(r) : i < j => r[i].id < r[j].id
  <2> SUFFICES ASSUME NEW i \in 1 .. Len(r), NEW j \in 1 .. Len(r), i < j
               PROVE  r[i].id < r[j].id
    OBVIOUS
  <2>1. i + 1 \in 1 .. Len(q) /\ j + 1 \in 1 .. Len(q) /\ i + 1 < j + 1
    BY <1>2
  <2> QED BY <1>1, <2>1 DEF Numbered
<1>4. \A i \in 1 .. Len(r) : r[i].id <= n
  BY <1>1, <1>2 DEF Numbered
<1> QED BY <1>3, <1>4 DEF Numbered, r

(* What the demuxer pushes goes behind the rest of the stream. *)
LEMMA RestAppend ==
  ASSUME NEW a \in Seq(Sent), NEW q \in Seq(Sent), NEW p \in Sent, NEW m \in Nat,
         m <= Len(a), RestIn(a, q, m)
  PROVE  RestIn(IF p.pts = NoPts THEN a ELSE Append(a, p), Append(q, p), m)
<1> DEFINE r == Append(q, p)
           b == IF p.pts = NoPts THEN a ELSE Append(a, p)
<1>1. /\ Len(q) \in Nat /\ Len(r) = Len(q) + 1 /\ r[Len(q) + 1] = p
      /\ \A i \in 1 .. Len(q) : r[i] = q[i]
  OBVIOUS
<1>2. /\ Len(a) \in Nat /\ \A i \in 1 .. Len(a) : b[i] = a[i]
      /\ p.pts = NoPts => b = a
      /\ p.pts # NoPts => Len(b) = Len(a) + 1 /\ b[Len(a) + 1] = p
  OBVIOUS
<1> HIDE DEF r, b
<1>3. \A i \in m + 1 .. Len(a) : i \in m + 1 .. Len(b) /\ b[i] = a[i]
  BY <1>2
<1>4. ASSUME NEW k \in 1 .. Len(r), r[k].pts # NoPts
      PROVE  \E i \in m + 1 .. Len(b) : b[i] = r[k]
  <2>1. CASE k \in 1 .. Len(q)
    <3>1. PICK i \in m + 1 .. Len(a) : a[i] = q[k]
      BY <1>1, <1>4, <2>1 DEF RestIn
    <3> QED BY <1>1, <1>3, <2>1, <3>1
  <2>2. CASE k = Len(q) + 1
    <3>1. Len(a) + 1 \in m + 1 .. Len(b) /\ b[Len(a) + 1] = r[k]
      BY <1>1, <1>2, <1>4, <2>2
    <3> QED BY <3>1
  <2> QED BY <1>1, <2>1, <2>2
<1>5. ASSUME NEW i \in m + 1 .. Len(b)
      PROVE  \E k \in 1 .. Len(r) : b[i] = r[k]
  <2>1. CASE i \in m + 1 .. Len(a)
    <3>1. PICK k \in 1 .. Len(q) : a[i] = q[k]
      BY <2>1 DEF RestIn
    <3> QED BY <1>1, <1>3, <2>1, <3>1
  <2>2. CASE i \notin m + 1 .. Len(a)
    <3>1. i = Len(a) + 1 /\ p.pts # NoPts /\ Len(q) + 1 \in 1 .. Len(r)
      BY <1>1, <1>2, <2>2
    <3> QED BY <1>1, <1>2, <3>1
  <2> QED BY <2>1, <2>2
<1>6. RestIn(b, r, m)
  BY <1>4, <1>5 DEF RestIn
<1> QED BY <1>6 DEF b, r

(* What the recorder pops is a config packet or the next of the rest. *)
LEMMA RestTail ==
  ASSUME NEW a \in Seq(Sent), NEW q \in Seq(Sent), q # <<>>, NEW m \in Nat, NEW n \in Nat,
         Numbered(a, n), Numbered(q, n), RestIn(a, q, m),
         \A i \in 1 .. Len(a) : a[i].pts # NoPts
  PROVE  IF Head(q).pts = NoPts THEN RestIn(a, Tail(q), m)
         ELSE m + 1 <= Len(a) /\ a[m + 1] = Head(q) /\ RestIn(a, Tail(q), m + 1)
<1> DEFINE r == Tail(q)
<1>1. /\ Len(q) \in Nat /\ Len(q) > 0 /\ Len(r) = Len(q) - 1 /\ Head(q) = q[1]
      /\ \A i \in 1 .. Len(r) : r[i] = q[i + 1]
      /\ Len(a) \in Nat
  OBVIOUS
<1>t. /\ \A i \in 1 .. Len(q) : q[i].id \in Nat
      /\ \A i \in 1 .. Len(a) : a[i].id \in Nat
  BY SentIds
<1> HIDE DEF r
<1>2. ASSUME q[1].pts = NoPts PROVE RestIn(a, r, m)
  <2>1. ASSUME NEW k \in 1 .. Len(r), r[k].pts # NoPts
        PROVE  \E i \in m + 1 .. Len(a) : a[i] = r[k]
    <3>1. k + 1 \in 1 .. Len(q) /\ r[k] = q[k + 1]
      BY <1>1
    <3> QED BY <2>1, <3>1 DEF RestIn
  <2>2. ASSUME NEW i \in m + 1 .. Len(a)
        PROVE  \E k \in 1 .. Len(r) : a[i] = r[k]
    <3>1. PICK k \in 1 .. Len(q) : a[i] = q[k]
      BY DEF RestIn
    <3>2. k # 1
      BY <1>1, <1>2, <3>1
    <3>3. k - 1 \in 1 .. Len(r) /\ r[k - 1] = q[k]
      BY <1>1, <3>1, <3>2
    <3> QED BY <3>1, <3>3
  <2> QED BY <2>1, <2>2 DEF RestIn
<1>3. ASSUME q[1].pts # NoPts
      PROVE  m + 1 <= Len(a) /\ a[m + 1] = q[1] /\ RestIn(a, r, m + 1)
  <2>1. PICK i \in m + 1 .. Len(a) : a[i] = q[1]
    BY <1>1, <1>3 DEF RestIn
  <2>2. m + 1 \in m + 1 .. Len(a) /\ m + 1 \in 1 .. Len(a) /\ i \in 1 .. Len(a)
    BY <1>1, <2>1
  <2>3. PICK k \in 1 .. Len(q) : a[m + 1] = q[k]
    BY <2>2 DEF RestIn
  <2>4. i = m + 1
    <3>1. q[1].id <= q[k].id
      BY <1>1, <1>t, <2>3 DEF Numbered
    <3>2. i # m + 1 => a[m + 1].id < a[i].id
      BY <2>2, <2>1 DEF Numbered
    <3>3. a[i].id \in Nat /\ a[m + 1].id \in Nat
      BY <1>t, <2>2
    <3> QED BY <2>1, <2>3, <3>1, <3>2, <3>3
  <2>5. ASSUME NEW j \in 1 .. Len(r), r[j].pts # NoPts
        PROVE  \E h \in (m + 1) + 1 .. Len(a) : a[h] = r[j]
    <3>1. j + 1 \in 1 .. Len(q) /\ r[j] = q[j + 1] /\ 1 \in 1 .. Len(q) /\ 1 < j + 1
      BY <1>1
    <3>2. PICK h \in m + 1 .. Len(a) : a[h] = q[j + 1]
      BY <2>5, <3>1 DEF RestIn
    <3>3. q[1].id < q[j + 1].id /\ q[1].id \in Nat
      BY <1>t, <3>1 DEF Numbered
    <3>4. h # m + 1
      BY <2>1, <2>4, <3>2, <3>3
    <3>5. h \in (m + 1) + 1 .. Len(a)
      BY <1>1, <3>2, <3>4
    <3> QED BY <3>1, <3>2, <3>5
  <2>6. ASSUME NEW h \in (m + 1) + 1 .. Len(a)
        PROVE  \E j \in 1 .. Len(r) : a[h] = r[j]
    <3>1. h \in m + 1 .. Len(a) /\ h \in 1 .. Len(a) /\ m + 1 < h
      BY <1>1
    <3>2. PICK j \in 1 .. Len(q) : a[h] = q[j]
      BY <3>1 DEF RestIn
    <3>3. a[m + 1].id < a[h].id /\ a[m + 1].id \in Nat
      BY <1>t, <2>2, <3>1 DEF Numbered
    <3>4. j # 1
      BY <2>1, <2>4, <3>2, <3>3
    <3>5. j - 1 \in 1 .. Len(r) /\ r[j - 1] = q[j]
      BY <1>1, <3>2, <3>4
    <3> QED BY <3>2, <3>5
  <2> QED BY <2>1, <2>2, <2>4, <2>5, <2>6 DEF RestIn
<1> QED BY <1>1, <1>2, <1>3 DEF r
-----------------------------------------------------------------------------
(* The inductive invariant.                                                *)

(* No demuxer has opened its sinks, and nothing is queued or written. *)
LEMMA InitRInv == Init => RInv
<1> SUFFICES ASSUME Init PROVE RInv
  OBVIOUS
<1>0. \A s \in Streams : /\ Content(queue[s]) = <<>> /\ Len(Content(queue[s])) = 0
                         /\ HoldsPackets(queue[s]) /\ IsEmpty(queue[s])
                         /\ accepted[s] = <<>> /\ written[s] = <<>> /\ packet[s] = None
                         /\ Len(written[s]) = 0 /\ Len(accepted[s]) = 0 /\ received[s] = 0
                         /\ last[s] = NoPts /\ demuxer[s] = "codec"
  BY EmptyHolds DEF Init
<1>1. TypeInv
  <2>1. wanted \in [Streams -> BOOLEAN]
    <3>1. PICK w \in (SUBSET Streams) \ {{}} : wanted = [s \in Streams |-> s \in w]
      BY DEF Init
    <3>2. \A s \in Streams : (s \in w) \in BOOLEAN
      OBVIOUS
    <3> HIDE DEF Streams
    <3> QED BY ONLY <3>1, <3>2, Zenon
  <2>2. /\ demuxer \in [Streams -> {"codec", "loop", "close", "ended"}]
        /\ merger \in [Streams -> Nat] /\ received \in [Streams -> Nat]
        /\ queue = [s \in Streams |-> queue[s]]
        /\ packet \in [Streams -> Sent \cup {None}]
        /\ previous = None /\ origin = NoPts
        /\ stopped = FALSE /\ failed = FALSE /\ ioError = FALSE
    BY DEF Init
  <2>3. accepted \in [Streams -> Seq(Sent)] /\ written \in [Streams -> Seq(Packets)]
    <3>1. <<>> \in Seq(Sent) /\ <<>> \in Seq(Packets)
      OBVIOUS
    <3> QED BY <3>1 DEF Init
  <2>4. last \in [Streams -> Int]
    BY SentPackets DEF Init
  <2> QED BY <1>0, <2>1, <2>2, <2>3, <2>4 DEF TypeInv
<1>2. OnlyOpenStreamsHavePackets
  BY <1>0 DEF OnlyOpenStreamsHavePackets
<1>3. EndsStopped
  BY DEF Init, EndsStopped, Recording
<1>4. NothingIsLost
  <2>1. thread = "open" /\ previous = None
    BY DEF Init
  <2>2. ASSUME NEW s \in Streams PROVE Flows(s)
    <3>m. ~HasMedia(s)
      BY <1>0 DEF HasMedia
    <3>b. Behind(s) = 0
      BY <1>0, <2>1 DEF Behind
    <3>1. Gone(s) = 0 /\ ~HasMedia(s)
      BY <3>m, <3>b DEF Gone
    <3>2. 0 + 1 .. 0 = {} /\ 1 .. 0 = {}
      OBVIOUS
    <3>3. RestIn(accepted[s], Content(queue[s]), Gone(s))
      BY <1>0, <3>1, <3>2 DEF RestIn
    <3>4. WrittenInOrder(s)
      BY <1>0, <3>2 DEF WrittenInOrder
    <3> QED BY <1>0, <2>1, <3>1, <3>3, <3>4 DEF Flows
  <2> QED BY <1>0, <2>1, <2>2 DEF NothingIsLost, Numbered, Recording
<1>5. TimestampsGrow
  BY <1>0, SentPackets DEF TimestampsGrow
<1> QED BY <1>1, <1>2, <1>3, <1>4, <1>5 DEF RInv

(* What sc_recorder_process_packets does to a packet that is not written yet, and
   what it writes: the video packet before the new one, and the audio packet. *)
LEMMA Processed ==
  ASSUME TypeInv, ProcessPackets
  PROVE  LET v == Media("video")
             a == Media("audio") IN
         /\ v \in Sent \cup {None} /\ (v # None => v.pts \in Ptses)
         /\ a \in Sent \cup {None} /\ (a # None => a.pts \in Ptses)
         /\ \/ /\ packet' = [video |-> v, audio |-> a]
               /\ UNCHANGED <<previous, origin, last, written, ioError>>
               /\ \/ thread' = "wait" /\ ~failed'
                  \/ thread' = "close" /\ failed' /\ failed' \in BOOLEAN
            \/ \E o \in Ptses, wv, wa \in BOOLEAN :
               /\ packet' = [s \in Streams |-> None] /\ origin' = o
               /\ previous' = IF v # None THEN [v EXCEPT !.pts = @ - o] ELSE previous
               /\ wv => v # None /\ previous # None
               /\ wa => a # None
               /\ written' = [s \in Streams |-> written'[s]]
               /\ last' = [s \in Streams |-> last'[s]]
               /\ written'["video"] = IF wv THEN Append(written["video"], Entry("video", previous))
                                      ELSE written["video"]
               /\ last'["video"] = IF wv THEN FilePts("video", previous.pts) ELSE last["video"]
               /\ written'["audio"] =
                    IF wa THEN Append(written["audio"], Entry("audio", [a EXCEPT !.pts = @ - o]))
                    ELSE written["audio"]
               /\ last'["audio"] = IF wa THEN FilePts("audio", a.pts - o) ELSE last["audio"]
               /\ ioError' \in BOOLEAN
               /\ \/ /\ thread' = "wait" /\ ~failed' /\ UNCHANGED ioError
                     /\ wv <=> v # None /\ previous # None
                     /\ wa <=> a # None
                  \/ thread' = "close" /\ failed' /\ failed' \in BOOLEAN
<1> DEFINE v == Media("video")
           a == Media("audio")
<1>0. /\ v \in Sent \cup {None} /\ (v # None => v.pts \in Ptses)
      /\ a \in Sent \cup {None} /\ (a # None => a.pts \in Ptses)
  BY SentPackets DEF TypeInv, Media, Streams, Sent
<1> HIDE DEF v, a
<1>1. CASE Origins(v, a) = {}
  <2>1. /\ packet' = [video |-> v, audio |-> a]
        /\ UNCHANGED <<previous, origin, last, written, ioError>>
        /\ thread' = IF stopped THEN "close" ELSE "wait"
        /\ failed' = stopped
    BY <1>1 DEF ProcessPackets, v, a
  <2>2. stopped \in BOOLEAN
    BY DEF TypeInv
  <2> QED BY <1>0, <2>1, <2>2 DEF v, a
<1>2. CASE Origins(v, a) # {}
  <2> DEFINE shift(p, o) == IF p = None THEN None ELSE [p EXCEPT !.pts = @ - o]
             out(o) == [video |-> IF v = None THEN None ELSE previous, audio |-> shift(a, o)]
             writes(s, o, fails) == /\ out(o)[s] # None
                                    /\ fails = "none" \/ (fails = "audio" /\ s = "video")
  <2>1. PICK o \in Origins(v, a), fails \in Streams \cup {"none"} :
          /\ fails # "none" => out(o)[fails] # None
          /\ origin' = o
          /\ previous' = IF v # None THEN shift(v, o) ELSE previous
          /\ packet' = [s \in Streams |-> None]
          /\ written' = [s \in Streams |-> IF writes(s, o, fails)
               THEN Append(written[s], Entry(s, out(o)[s])) ELSE written[s]]
          /\ last' = [s \in Streams |-> IF writes(s, o, fails)
               THEN FilePts(s, out(o)[s].pts) ELSE last[s]]
          /\ thread' = IF fails = "none" THEN "wait" ELSE "close"
          /\ failed' = (fails # "none") /\ ioError' = (ioError \/ fails # "none")
    BY <1>2 DEF ProcessPackets, v, a
  <2>2. o \in Ptses
    <3>1. origin # NoPts => origin \in Ptses
      BY DEF TypeInv
    <3> QED BY <1>0, <3>1 DEF Origins
  <2> DEFINE wv == writes("video", o, fails)
             wa == writes("audio", o, fails)
  <2>3. /\ wv <=> v # None /\ previous # None /\ fails # "video"
        /\ wa <=> a # None /\ fails = "none"
    <3>1. /\ out(o)["video"] = IF v = None THEN None ELSE previous
          /\ out(o)["audio"] = shift(a, o)
      OBVIOUS
    <3>2. a # None => [a EXCEPT !.pts = @ - o] # None
      <4>0. SUFFICES ASSUME a # None PROVE [a EXCEPT !.pts = @ - o] # None
        OBVIOUS
      <4>1. a.pts - o \in Int /\ a \in Sent
        <5>1. a.pts \in Int /\ o \in Int
          BY <1>0, <2>2, <4>0, SentPackets
        <5> QED BY <1>0, <4>0, <5>1
      <4>2. [a EXCEPT !.pts = @ - o] \in Packets
        BY <4>1, SentPackets DEF Packets, Sent
      <4> QED BY <4>2, SentPackets
    <3> HIDE DEF out
    <3> QED BY <2>1, <3>1, <3>2 DEF Streams
  <2>4. /\ wv => out(o)["video"] = previous
        /\ wa => out(o)["audio"] = [a EXCEPT !.pts = @ - o]
    BY <2>3
  <2>5. wa => [a EXCEPT !.pts = @ - o].pts = a.pts - o
    BY <1>0, <2>3 DEF Sent
  <2> HIDE DEF out, writes
  <2>6. /\ written'["video"] = IF wv THEN Append(written["video"], Entry("video", previous))
                               ELSE written["video"]
        /\ last'["video"] = IF wv THEN FilePts("video", previous.pts) ELSE last["video"]
        /\ written'["audio"] =
             IF wa THEN Append(written["audio"], Entry("audio", [a EXCEPT !.pts = @ - o]))
             ELSE written["audio"]
        /\ last'["audio"] = IF wa THEN FilePts("audio", a.pts - o) ELSE last["audio"]
    BY <2>1, <2>4, <2>5 DEF Streams
  <2>7. /\ written' = [s \in Streams |-> written'[s]] /\ last' = [s \in Streams |-> last'[s]]
    BY <2>1
  <2>8. /\ ioError' \in BOOLEAN /\ failed' \in BOOLEAN
        /\ \/ thread' = "wait" /\ ~failed' /\ UNCHANGED ioError /\ fails = "none"
           \/ thread' = "close" /\ failed'
    BY <2>1 DEF TypeInv
  <2>9. previous' = IF v # None THEN [v EXCEPT !.pts = @ - o] ELSE previous
    BY <2>1
  <2>10. wv \in BOOLEAN /\ wa \in BOOLEAN
    BY DEF writes
  <2>11. \E x, y \in BOOLEAN : x = wv /\ y = wa
    BY <2>10
  <2>12. PICK x, y \in BOOLEAN : x = wv /\ y = wa
    BY <2>11
  <2> HIDE DEF wv, wa
  <2>13. /\ packet' = [s \in Streams |-> None] /\ origin' = o
         /\ previous' = IF v # None THEN [v EXCEPT !.pts = @ - o] ELSE previous
         /\ x => v # None /\ previous # None
         /\ y => a # None
         /\ written' = [s \in Streams |-> written'[s]]
         /\ last' = [s \in Streams |-> last'[s]]
         /\ written'["video"] = IF x THEN Append(written["video"], Entry("video", previous))
                                ELSE written["video"]
         /\ last'["video"] = IF x THEN FilePts("video", previous.pts) ELSE last["video"]
         /\ written'["audio"] =
              IF y THEN Append(written["audio"], Entry("audio", [a EXCEPT !.pts = @ - o]))
              ELSE written["audio"]
         /\ last'["audio"] = IF y THEN FilePts("audio", a.pts - o) ELSE last["audio"]
         /\ ioError' \in BOOLEAN
         /\ \/ /\ thread' = "wait" /\ ~failed' /\ UNCHANGED ioError
               /\ x <=> v # None /\ previous # None
               /\ y <=> a # None
            \/ thread' = "close" /\ failed' /\ failed' \in BOOLEAN
    BY <2>1, <2>3, <2>6, <2>7, <2>8, <2>9, <2>12
  <2> QED BY <1>0, <2>2, <2>13 DEF v, a
<1> QED BY <1>1, <1>2
(* A timestamp that is written is above the last one, and is one. *)
LEMMA EntryGrows ==
  ASSUME NEW s \in Streams, NEW w \in Seq(Packets), NEW p \in Packets,
         \E a, b \in Ptses : p.pts = a - b,
         last[s] \in Int, NoPts <= last[s],
         last[s] = NoPts => w = <<>>, w # <<>> => last[s] = w[Len(w)].pts,
         \A i \in 1 .. Len(w) - 1 : w[i].pts < w[i + 1].pts
  PROVE  LET e == Entry(s, p)
             x == Append(w, e) IN
         /\ e \in Packets /\ Same(e, p)
         /\ x \in Seq(Packets) /\ x # <<>> /\ Len(x) = Len(w) + 1 /\ x[Len(x)] = e
         /\ \A i \in 1 .. Len(w) : x[i] = w[i]
         /\ \A i \in 1 .. Len(x) - 1 : x[i].pts < x[i + 1].pts
         /\ FilePts(s, p.pts) \in Int /\ FilePts(s, p.pts) = e.pts /\ NoPts < e.pts
<1> DEFINE e == Entry(s, p)
           x == Append(w, e)
<1>1. NoPts < Rescale(p.pts) /\ Rescale(p.pts) \in Int
  <2>1. NoPts < Rescale(p.pts)
    BY RecorderAssumption
  <2>2. p.pts \in Int /\ Ticks \in Int /\ Ticks > 0
    BY RecorderAssumption DEF Packets
  <2>3. Ticks \div 2 \in Int
    BY <2>2
  <2>4. p.pts + Ticks \div 2 \in Int
    BY <2>2, <2>3
  <2>5. \A i \in Int : i \div Ticks \in Int
    BY <2>2
  <2> QED BY <2>1, <2>4, <2>5 DEF Rescale
<1>2. /\ FilePts(s, p.pts) \in Int /\ NoPts < FilePts(s, p.pts)
      /\ last[s] # NoPts => last[s] < FilePts(s, p.pts)
  BY <1>1, SentPackets DEF FilePts
<1>3. e \in Packets /\ Same(e, p) /\ e.pts = FilePts(s, p.pts)
  BY <1>2 DEF Entry, Packets, Same
<1> HIDE DEF e
<1>4. /\ x \in Seq(Packets) /\ x # <<>> /\ Len(x) = Len(w) + 1 /\ x[Len(x)] = e /\ Len(w) \in Nat
      /\ \A i \in 1 .. Len(w) : x[i] = w[i]
  <2>1. e \in Packets /\ w \in Seq(Packets)
    BY <1>3
  <2>2. x \in Seq(Packets) /\ Len(x) = Len(w) + 1 /\ Len(w) \in Nat /\ x[Len(w) + 1] = e
        /\ \A i \in 1 .. Len(w) : x[i] = w[i]
    BY ONLY <2>1
  <2> QED BY <2>2
<1> HIDE DEF x
<1>5. ASSUME NEW i \in 1 .. Len(x) - 1 PROVE x[i].pts < x[i + 1].pts
  <2>1. CASE i \in 1 .. Len(w) - 1
    <3>1. i \in 1 .. Len(w) /\ i + 1 \in 1 .. Len(w)
      BY <1>4, <2>1
    <3> QED BY <1>4, <2>1, <3>1
  <2>2. CASE i = Len(w)
    <3>1. i \in 1 .. Len(w) /\ w # <<>> /\ i + 1 = Len(x)
      BY <1>4, <2>2
    <3>2. x[i].pts = last[s] /\ last[s] # NoPts /\ x[i + 1].pts = FilePts(s, p.pts)
      BY <1>3, <1>4, <2>2, <3>1
    <3> QED BY <1>2, <3>2
  <2> QED BY <1>4, <2>1, <2>2
<1> QED BY <1>2, <1>3, <1>4, <1>5 DEF e, x

(* A timestamp without its origin is still one. *)
LEMMA Shifted ==
  ASSUME NEW p \in Sent, p.pts \in Ptses, NEW o \in Ptses
  PROVE  LET q == [p EXCEPT !.pts = @ - o] IN
         /\ q \in Packets /\ q # None /\ Same(q, p) /\ q.pts = p.pts - o
         /\ \E a, b \in Ptses : q.pts = a - b
<1> DEFINE q == [p EXCEPT !.pts = @ - o]
<1>0. p.pts \in Int /\ o \in Int
  BY SentPackets
<1>1. p.pts \in Int /\ o \in Int /\ p.pts - o \in Int
  BY <1>0
<1>2. q.pts = p.pts - o /\ q.id = p.id /\ q.config = p.config /\ q \in Packets
  BY <1>1 DEF Sent, Packets
<1> HIDE DEF q
<1>3. q # None
  BY <1>2, SentPackets
<1>4. \E a, b \in Ptses : q.pts = a - b
  BY <1>2
<1> QED BY <1>2, <1>3, <1>4 DEF Same, q

(* What the timestamps and the variables of the recorder thread are, when it writes
   the packets it has, or may write. *)
LEMMA ProcessedTypes ==
  ASSUME TypeInv, TimestampsGrow, thread = "process", ProcessPackets
  PROVE  /\ TimestampsGrow'
         /\ packet' \in [Streams -> Sent \cup {None}]
         /\ previous' \in Packets \cup {None}
         /\ previous' # None => \E a, b \in Ptses : previous'.pts = a - b
         /\ origin' \in Ptses \cup {NoPts}
         /\ written' \in [Streams -> Seq(Packets)] /\ last' \in [Streams -> Int]
         /\ failed' \in BOOLEAN /\ ioError' \in BOOLEAN
<1> DEFINE v == Media("video")
           a == Media("audio")
<1>0. /\ v \in Sent \cup {None} /\ (v # None => v.pts \in Ptses)
      /\ a \in Sent \cup {None} /\ (a # None => a.pts \in Ptses)
  BY Processed
<1>1. CASE /\ packet' = [video |-> v, audio |-> a]
           /\ UNCHANGED <<previous, origin, last, written, ioError>>
           /\ \/ thread' = "wait" /\ ~failed'
              \/ thread' = "close" /\ failed' /\ failed' \in BOOLEAN
  <2>1. failed' \in BOOLEAN
    BY DEF ProcessPackets, TypeInv
  <2>2. packet' \in [Streams -> Sent \cup {None}]
    BY <1>0, <1>1 DEF Streams
  <2> QED BY <1>1, <2>1, <2>2 DEF TypeInv, TimestampsGrow, Recording
<1>2. ASSUME NEW o \in Ptses, NEW wv \in BOOLEAN, NEW wa \in BOOLEAN,
             /\ packet' = [s \in Streams |-> None] /\ origin' = o
             /\ previous' = IF v # None THEN [v EXCEPT !.pts = @ - o] ELSE previous
             /\ wv => v # None /\ previous # None
             /\ wa => a # None
             /\ written' = [s \in Streams |-> written'[s]]
             /\ last' = [s \in Streams |-> last'[s]]
             /\ written'["video"] = IF wv THEN Append(written["video"], Entry("video", previous))
                                    ELSE written["video"]
             /\ last'["video"] = IF wv THEN FilePts("video", previous.pts) ELSE last["video"]
             /\ written'["audio"] =
                  IF wa THEN Append(written["audio"], Entry("audio", [a EXCEPT !.pts = @ - o]))
                  ELSE written["audio"]
             /\ last'["audio"] = IF wa THEN FilePts("audio", a.pts - o) ELSE last["audio"]
             /\ ioError' \in BOOLEAN
      PROVE  /\ TimestampsGrow'
             /\ packet' \in [Streams -> Sent \cup {None}]
             /\ previous' \in Packets \cup {None}
             /\ previous' # None => \E x, y \in Ptses : previous'.pts = x - y
             /\ origin' \in Ptses \cup {NoPts}
             /\ written' \in [Streams -> Seq(Packets)] /\ last' \in [Streams -> Int]
  <2> DEFINE q == [a EXCEPT !.pts = @ - o]
  <2>1. wa => /\ q \in Packets /\ q.pts = a.pts - o
              /\ \E x, y \in Ptses : q.pts = x - y
    BY <1>0, <1>2, Shifted
  <2>2. wv => previous \in Packets /\ \E x, y \in Ptses : previous.pts = x - y
    BY <1>2 DEF TypeInv
  <2>3. /\ previous' \in Packets \cup {None}
        /\ previous' # None => \E x, y \in Ptses : previous'.pts = x - y
    <3>1. CASE v = None
      BY <1>2, <3>1 DEF TypeInv
    <3>2. CASE v # None
      BY <1>0, <1>2, <3>2, Shifted
    <3> QED BY <3>1, <3>2
  <2> HIDE DEF v, a, q
  <2>4. ASSUME NEW s \in Streams
        PROVE  /\ written[s] \in Seq(Packets) /\ last[s] \in Int /\ NoPts <= last[s]
               /\ last[s] = NoPts => written[s] = <<>>
               /\ written[s] # <<>> => last[s] = written[s][Len(written[s])].pts
               /\ \A i \in 1 .. Len(written[s]) - 1 : written[s][i].pts < written[s][i + 1].pts
    BY DEF TypeInv, TimestampsGrow, Recording
  <2> DEFINE Good(w, l) ==
               /\ w \in Seq(Packets) /\ l \in Int /\ NoPts <= l
               /\ l = NoPts => w = <<>>
               /\ w # <<>> => l = w[Len(w)].pts
               /\ \A i \in 1 .. Len(w) - 1 : w[i].pts < w[i + 1].pts
  <2>5. \A s \in Streams : Good(written[s], last[s])
    BY <2>4
  <2>6. ASSUME NEW s \in Streams, NEW p \in Packets, \E x, y \in Ptses : p.pts = x - y
        PROVE  Good(Append(written[s], Entry(s, p)), FilePts(s, p.pts))
    <3> DEFINE x == Append(written[s], Entry(s, p))
    <3> HIDE DEF Good
    <3>0. /\ x \in Seq(Packets) /\ x # <<>> /\ x[Len(x)] = Entry(s, p)
          /\ \A i \in 1 .. Len(x) - 1 : x[i].pts < x[i + 1].pts
          /\ FilePts(s, p.pts) \in Int /\ FilePts(s, p.pts) = Entry(s, p).pts
          /\ NoPts < Entry(s, p).pts
      <4> DEFINE w == written[s]
      <4>1. /\ w \in Seq(Packets) /\ last[s] \in Int /\ NoPts <= last[s]
            /\ last[s] = NoPts => w = <<>>
            /\ w # <<>> => last[s] = w[Len(w)].pts
            /\ \A i \in 1 .. Len(w) - 1 : w[i].pts < w[i + 1].pts
        BY <2>4
      <4> HIDE DEF w
      <4>2. /\ Append(w, Entry(s, p)) \in Seq(Packets) /\ Append(w, Entry(s, p)) # <<>>
            /\ Append(w, Entry(s, p))[Len(Append(w, Entry(s, p)))] = Entry(s, p)
            /\ \A i \in 1 .. Len(Append(w, Entry(s, p))) - 1 :
                 Append(w, Entry(s, p))[i].pts < Append(w, Entry(s, p))[i + 1].pts
            /\ FilePts(s, p.pts) \in Int /\ FilePts(s, p.pts) = Entry(s, p).pts
            /\ NoPts < Entry(s, p).pts
        BY <2>6, <4>1, EntryGrows
      <4> QED BY <4>2 DEF w
    <3>1. /\ x \in Seq(Packets) /\ x # <<>> /\ x[Len(x)].pts = FilePts(s, p.pts)
          /\ \A i \in 1 .. Len(x) - 1 : x[i].pts < x[i + 1].pts
          /\ FilePts(s, p.pts) \in Int /\ NoPts < FilePts(s, p.pts)
      BY <3>0
    <3> USE DEF Good
    <3> HIDE DEF x
    <3>2. NoPts <= FilePts(s, p.pts) /\ FilePts(s, p.pts) # NoPts
      BY <3>1, SentPackets
    <3>3. Good(x, FilePts(s, p.pts))
      BY <3>1, <3>2
    <3> QED BY <3>3 DEF x
  <2> HIDE DEF Good
  <2>7. Good(written'["video"], last'["video"])
    BY <1>2, <2>2, <2>5, <2>6 DEF Streams
  <2>8. Good(written'["audio"], last'["audio"])
    <3>1. wa => Good(Append(written["audio"], Entry("audio", q)), FilePts("audio", q.pts))
      BY <2>1, <2>6 DEF Streams
    <3> QED BY <1>2, <2>1, <2>5, <3>1 DEF Streams, q
  <2>9. \A s \in Streams : Good(written'[s], last'[s])
    BY <2>7, <2>8 DEF Streams
  <2>10. TimestampsGrow'
    BY <2>9 DEF TimestampsGrow, Good
  <2>11. written' \in [Streams -> Seq(Packets)] /\ last' \in [Streams -> Int]
    BY <1>2, <2>9 DEF Good
  <2> QED BY <1>2, <2>3, <2>10, <2>11
<1>3. failed' \in BOOLEAN /\ ioError' \in BOOLEAN
  BY DEF ProcessPackets, TypeInv
<1> HIDE DEF v, a
<1> QED BY <1>1, <1>2, <1>3, Processed DEF v, a
(* The packet that the demuxer pushes: config data goes with the media packet that
   follows it. *)
LEMMA MergedPacket ==
  ASSUME TypeInv, NEW s \in Streams, NEW pts \in Ptses \cup {NoPts}, NEW n \in Nat
  PROVE  LET p == Merged(s, [id |-> n, pts |-> pts, config |-> 0]) IN
         p \in Sent /\ p.id = n /\ p.pts = pts
<1> DEFINE b == [id |-> n, pts |-> pts, config |-> 0]
<1>1. b \in Sent /\ b.id = n /\ b.pts = pts /\ merger[s] \in Nat
  BY DEF Sent, TypeInv
<1> HIDE DEF b
<1>2. [b EXCEPT !.config = merger[s]] \in Sent /\ [b EXCEPT !.config = merger[s]].id = n
      /\ [b EXCEPT !.config = merger[s]].pts = pts
  BY <1>1 DEF Sent
<1>3. Merged(s, b) \in Sent /\ Merged(s, b).id = n /\ Merged(s, b).pts = pts
  BY <1>1, <1>2 DEF Merged
<1> QED BY <1>3 DEF b

(* What WriteTrailer writes is a packet of the stream. *)
LEMMA TrailerTypes ==
  ASSUME TypeInv, TimestampsGrow, WriteTrailer
  PROVE  /\ written' = [s \in Streams |-> written'[s]]
         /\ written'["audio"] = written["audio"]
         /\ \/ written'["video"] = written["video"] /\ (previous # None => ioError')
            \/ LET e == Entry("video", previous) IN
               /\ previous # None /\ previous \in Packets
               /\ written'["video"] = Append(written["video"], e)
               /\ e \in Packets /\ Same(e, previous)
               /\ written'["video"] \in Seq(Packets)
               /\ \A i \in 1 .. Len(written'["video"]) - 1 :
                    written'["video"][i].pts < written'["video"][i + 1].pts
         /\ failed' \in BOOLEAN /\ ioError' \in BOOLEAN /\ (ioError => ioError')
<1>1. PICK lastFrame, trailer \in BOOLEAN :
        /\ written' = IF previous # None /\ lastFrame
                      THEN [written EXCEPT !["video"] = Append(@, Entry("video", previous))]
                      ELSE written
        /\ failed' = ~trailer
        /\ ioError' = (ioError \/ ~lastFrame \/ ~trailer)
  BY DEF WriteTrailer
<1>2. failed' \in BOOLEAN /\ ioError' \in BOOLEAN /\ (ioError => ioError')
  BY <1>1 DEF TypeInv
<1>3. written = [s \in Streams |-> written[s]] /\ "video" \in Streams /\ "audio" \in Streams
  BY DEF TypeInv, Streams
<1>4. CASE previous # None /\ lastFrame
  <2>1. written' = [written EXCEPT !["video"] = Append(written["video"], Entry("video", previous))]
    BY <1>1, <1>4
  <2>2. /\ written' = [s \in Streams |-> written'[s]]
        /\ written'["audio"] = written["audio"]
        /\ written'["video"] = Append(written["video"], Entry("video", previous))
    BY <1>3, <2>1
  <2>3. previous \in Packets /\ \E x, y \in Ptses : previous.pts = x - y
    BY <1>4 DEF TypeInv
  <2> DEFINE w == written["video"]
             e == Entry("video", previous)
  <2>4. /\ w \in Seq(Packets) /\ last["video"] \in Int /\ NoPts <= last["video"]
        /\ last["video"] = NoPts => w = <<>>
        /\ w # <<>> => last["video"] = w[Len(w)].pts
        /\ \A i \in 1 .. Len(w) - 1 : w[i].pts < w[i + 1].pts
    BY <1>3 DEF TypeInv, TimestampsGrow, Recording, WriteTrailer
  <2> HIDE DEF w
  <2>5. /\ e \in Packets /\ Same(e, previous) /\ Append(w, e) \in Seq(Packets)
        /\ \A i \in 1 .. Len(Append(w, e)) - 1 : Append(w, e)[i].pts < Append(w, e)[i + 1].pts
    BY <1>3, <2>3, <2>4, EntryGrows
  <2> QED BY <1>2, <1>4, <2>2, <2>3, <2>5 DEF w
<1>5. CASE ~(previous # None /\ lastFrame)
  BY <1>1, <1>2, <1>3, <1>5
<1> QED BY <1>4, <1>5

(* Types. *)
LEMMA TypeStep == RInv /\ [Next]_vars => TypeInv'
<1> SUFFICES ASSUME RInv, [Next]_vars PROVE TypeInv'
  OBVIOUS
<1>0. TypeInv /\ TimestampsGrow /\ EndsStopped
  BY DEF RInv
<1>1. ASSUME NEW s \in Streams, DemuxerFails(s)
      PROVE  TypeInv'
  BY <1>0, <1>1 DEF DemuxerFails, Goes, shared, recording, TypeInv
<1>2. ASSUME NEW s \in Streams, DemuxerDisables(s)
      PROVE  TypeInv'
  BY <1>0, <1>2 DEF DemuxerDisables, Goes, recording, TypeInv
<1>3. ASSUME NEW s \in Streams, SinksOpen(s)
      PROVE  TypeInv'
  <2>1. ioError' \in BOOLEAN /\ demuxer' \in [Streams -> {"codec", "loop", "close", "ended"}]
    BY <1>0, <1>3 DEF SinksOpen, Goes, TypeInv
  <2>2. UNCHANGED <<merger, received, accepted, wanted, stopped, queue, thread,
                    packet, previous, origin, last, failed, file, written>>
    BY <1>3 DEF SinksOpen
  <2> QED BY <1>0, <2>1, <2>2 DEF TypeInv
<1>4. ASSUME NEW s \in Streams, NEW pts \in Ptses \cup {NoPts}, DemuxerPushes(s, pts)
      PROVE  TypeInv'
  <2> DEFINE id == received[s] + 1
             p == Merged(s, [id |-> id, pts |-> pts, config |-> 0])
  <2>0. id \in Nat
    BY <1>0 DEF TypeInv
  <2>1. p \in Sent
    BY <1>0, <2>0, MergedPacket
  <2>2. /\ received' = [received EXCEPT ![s] = id]
        /\ merger' = [merger EXCEPT ![s] = IF s = "audio" THEN 0
                                           ELSE IF pts = NoPts THEN id ELSE 0]
        /\ UNCHANGED <<wanted, stopped, recording>>
        /\ IF stopped \/ ~CanPush(queue[s])
           THEN Goes(s, "close") /\ UNCHANGED <<queue, accepted>>
           ELSE /\ queue' = [queue EXCEPT ![s] = Push(queue[s], p)]
                /\ accepted' = IF pts = NoPts THEN accepted
                               ELSE [accepted EXCEPT ![s] = Append(accepted[s], p)]
                /\ UNCHANGED demuxer
    BY <1>4 DEF DemuxerPushes
  <2> HIDE DEF id, p
  <2>3. received' \in [Streams -> Nat] /\ merger' \in [Streams -> Nat]
    BY <1>0, <2>0, <2>2 DEF TypeInv
  <2>4. CASE stopped \/ ~CanPush(queue[s])
    BY <1>0, <2>2, <2>3, <2>4 DEF Goes, TypeInv, recording
  <2>5. CASE ~(stopped \/ ~CanPush(queue[s]))
    <3>1. HoldsPackets(Push(queue[s], p))
      BY <1>0, <2>1, <2>5, PushHolds DEF TypeInv
    <3>2. queue' = [t \in Streams |-> queue'[t]] /\ \A t \in Streams : HoldsPackets(queue'[t])
      BY <1>0, <2>2, <2>5, <3>1 DEF TypeInv
    <3>3. Append(accepted[s], p) \in Seq(Sent)
      BY <1>0, <2>1 DEF TypeInv
    <3>4. accepted' \in [Streams -> Seq(Sent)]
      BY <1>0, <2>2, <2>5, <3>3 DEF TypeInv
    <3> QED BY <1>0, <2>2, <2>3, <2>5, <3>2, <3>4 DEF TypeInv, recording
  <2> QED BY <2>4, <2>5
<1>5. ASSUME NEW s \in Streams, DemuxerBreaks(s)
      PROVE  TypeInv'
  BY <1>0, <1>5 DEF DemuxerBreaks, Goes, shared, recording, TypeInv
<1>6. ASSUME NEW s \in Streams, SinksClose(s)
      PROVE  TypeInv'
  BY <1>0, <1>6 DEF SinksClose, Goes, recording, TypeInv
<1>7. CASE RecorderStop
  BY <1>0, <1>7 DEF RecorderStop, demuxing, recording, TypeInv
<1>8. CASE OpenOutputFile
  BY <1>0, <1>8 DEF OpenOutputFile, demuxing, shared, TypeInv
<1>9. CASE ProcessHeader
  <2>1. /\ UNCHANGED <<demuxing, wanted, packet, stopped, previous, origin, last, written>>
        /\ failed' \in BOOLEAN /\ ioError' \in BOOLEAN
    BY <1>0, <1>9 DEF ProcessHeader, TypeInv
  <2>2. /\ queue' = [s \in Streams |-> queue'[s]]
        /\ \A s \in Streams : \/ queue'[s] = queue[s]
                              \/ ~IsEmpty(queue[s]) /\ queue'[s] = Pop(queue[s])
    BY <1>0, <1>9 DEF ProcessHeader, TypeInv
  <2>3. \A s \in Streams : HoldsPackets(queue'[s])
    BY <1>0, <2>2, PopHolds DEF TypeInv
  <2> QED BY <1>0, <2>1, <2>2, <2>3 DEF TypeInv, demuxing
<1>10. CASE TakePackets
  <2>1. /\ UNCHANGED <<demuxing, wanted, stopped, previous, origin, last, failed, written, ioError>>
        /\ packet' = [s \in Streams |-> IF Available(s) THEN FirstItem(queue[s]) ELSE packet[s]]
        /\ queue' = [s \in Streams |-> IF Available(s) THEN Pop(queue[s]) ELSE queue[s]]
    BY <1>10 DEF TakePackets
  <2>2. ASSUME NEW s \in Streams
        PROVE  packet'[s] \in Sent \cup {None} /\ HoldsPackets(queue'[s])
    BY <1>0, <2>1, PopHolds DEF Available, TypeInv
  <2>3. packet' \in [Streams -> Sent \cup {None}] /\ queue' = [s \in Streams |-> queue'[s]]
    BY <2>1, <2>2
  <2> QED BY <1>0, <2>1, <2>2, <2>3 DEF TypeInv, demuxing
<1>11. CASE ProcessPackets
  <2>1. thread = "process" /\ UNCHANGED <<demuxing, shared>>
    BY <1>11 DEF ProcessPackets
  <2> QED BY <1>0, <1>11, <2>1, ProcessedTypes DEF TypeInv, demuxing, shared
<1>12. CASE WriteTrailer
  <2>1. previous' = None /\ UNCHANGED <<demuxing, shared, packet, origin, last>>
    BY <1>12 DEF WriteTrailer
  <2>2. written' \in [Streams -> Seq(Packets)] /\ failed' \in BOOLEAN /\ ioError' \in BOOLEAN
    <3>1. \A s \in Streams : written[s] \in Seq(Packets)
      BY <1>0 DEF TypeInv
    <3>2. \A s \in Streams : written'[s] \in Seq(Packets)
      BY <1>0, <1>12, <3>1, TrailerTypes DEF Streams
    <3> QED BY <1>0, <1>12, <3>2, TrailerTypes
  <2> QED BY <1>0, <2>1, <2>2 DEF TypeInv, demuxing, shared
<1>13. CASE CloseOutputFile
  BY <1>0, <1>13 DEF CloseOutputFile, demuxing, shared, TypeInv
<1>14. CASE ClearQueues
  <2>1. /\ queue' = [s \in Streams |-> EmptyDeque] /\ stopped' = TRUE
        /\ UNCHANGED <<demuxing, wanted, packet, previous, origin, last, failed, written, ioError>>
    BY <1>14 DEF ClearQueues
  <2>2. queue' = [s \in Streams |-> queue'[s]] /\ \A s \in Streams : HoldsPackets(queue'[s])
    BY <2>1, EmptyHolds
  <2> QED BY <1>0, <2>1, <2>2 DEF demuxing, TypeInv
<1>15. CASE UNCHANGED vars
  BY <1>0, <1>15 DEF vars, demuxing, shared, recording, TypeInv
<1> QED
  BY <1>1, <1>2, <1>3, <1>4, <1>5, <1>6, <1>7, <1>8, <1>9, <1>10, <1>11, <1>12,
     <1>13, <1>14, <1>15 DEF Next, RecorderStep
(* Which streams have packets, and when the thread may end. *)
LEMMA EndsStep ==
  RInv /\ [Next]_vars => OnlyOpenStreamsHavePackets' /\ EndsStopped'
<1> SUFFICES ASSUME RInv, [Next]_vars PROVE OnlyOpenStreamsHavePackets' /\ EndsStopped'
  OBVIOUS
<1> DEFINE Goal == OnlyOpenStreamsHavePackets' /\ EndsStopped'
<1>0. TypeInv /\ OnlyOpenStreamsHavePackets /\ EndsStopped
  BY DEF RInv
<1>1. ASSUME NEW s \in Streams, DemuxerFails(s)
      PROVE  Goal
  BY <1>0, <1>1 DEF DemuxerFails, Goes, Runs, shared, recording, TypeInv,
              OnlyOpenStreamsHavePackets, EndsStopped
<1>2. ASSUME NEW s \in Streams, DemuxerDisables(s)
      PROVE  Goal
  BY <1>0, <1>2 DEF DemuxerDisables, Goes, Runs, recording, TypeInv,
              OnlyOpenStreamsHavePackets, EndsStopped
<1>3. ASSUME NEW s \in Streams, SinksOpen(s)
      PROVE  Goal
  BY <1>0, <1>3 DEF SinksOpen, Goes, Runs, TypeInv, OnlyOpenStreamsHavePackets, EndsStopped
<1>4. ASSUME NEW s \in Streams, NEW pts \in Ptses \cup {NoPts}, DemuxerPushes(s, pts)
      PROVE  Goal
  <2>1. /\ demuxer[s] = "loop"
        /\ UNCHANGED <<wanted, stopped, thread, packet, failed>>
        /\ \A t \in Streams : t # s => queue'[t] = queue[t] /\ demuxer'[t] = demuxer[t]
        /\ demuxer'[s] \in {"loop", "close"}
        /\ stopped => UNCHANGED queue
    BY <1>0, <1>4 DEF DemuxerPushes, Runs, Goes, recording, TypeInv
  <2>2. OnlyOpenStreamsHavePackets'
    BY <1>0, <2>1 DEF OnlyOpenStreamsHavePackets
  <2> QED BY <1>0, <2>1, <2>2 DEF EndsStopped
<1>5. ASSUME NEW s \in Streams, DemuxerBreaks(s)
      PROVE  Goal
  BY <1>0, <1>5 DEF DemuxerBreaks, Goes, Runs, shared, recording, TypeInv,
              OnlyOpenStreamsHavePackets, EndsStopped
<1>6. ASSUME NEW s \in Streams, SinksClose(s)
      PROVE  Goal
  BY <1>0, <1>6 DEF SinksClose, Goes, Runs, recording, TypeInv,
              OnlyOpenStreamsHavePackets, EndsStopped
<1>7. CASE RecorderStop
  BY <1>0, <1>7 DEF RecorderStop, demuxing, recording,
              OnlyOpenStreamsHavePackets, EndsStopped
<1>8. CASE OpenOutputFile
  BY <1>0, <1>8 DEF OpenOutputFile, demuxing, shared,
              OnlyOpenStreamsHavePackets, EndsStopped, Recording
<1>9. CASE ProcessHeader
  <2>1. /\ thread = "header"
        /\ \/ thread' = "wait" /\ UNCHANGED failed
           \/ thread' = "close" /\ failed'
        /\ UNCHANGED <<demuxing, wanted, packet, stopped>>
    BY <1>9 DEF ProcessHeader
  <2>2. \A s \in Streams : queue'[s] = queue[s] \/ ~IsEmpty(queue[s])
    BY <1>0, <1>9 DEF ProcessHeader, TypeInv
  <2>3. OnlyOpenStreamsHavePackets'
    BY <1>0, <2>1, <2>2 DEF OnlyOpenStreamsHavePackets, demuxing
  <2> QED BY <1>0, <2>1, <2>3 DEF EndsStopped, Recording
<1>10. CASE TakePackets
  <2> DEFINE now == [s \in Streams |-> IF Available(s) THEN FirstItem(queue[s])
                                       ELSE packet[s]]
  <2>1. /\ MayTake /\ packet' = now /\ thread = "wait"
        /\ queue' = [s \in Streams |-> IF Available(s) THEN Pop(queue[s]) ELSE queue[s]]
        /\ thread' = IF stopped /\ \A s \in Streams : now[s] = None
                     THEN "trailer" ELSE "process"
        /\ UNCHANGED <<demuxing, wanted, stopped, failed>>
    BY <1>10 DEF TakePackets
  <2>2. ASSUME NEW s \in Streams
        PROVE  /\ Available(s) => now[s] # None
               /\ ~Available(s) => now[s] = packet[s]
               /\ now[s] = None => IsEmpty(queue[s])
    BY <1>0, PopHolds DEF Available, TypeInv
  <2> HIDE DEF now
  <2>4. OnlyOpenStreamsHavePackets'
    BY <1>0, <2>1, <2>2 DEF OnlyOpenStreamsHavePackets, demuxing, Available
  <2>5. EndsStopped'
    <3>1. CASE stopped /\ \A s \in Streams : now[s] = None
      BY <1>0, <2>1, <2>2, <3>1 DEF EndsStopped, Available, Recording
    <3>2. CASE ~stopped
      BY <1>0, <2>1, <2>2, <3>2 DEF EndsStopped, MayTake, Recording
    <3>3. CASE \E s \in Streams : now[s] # None
      BY <1>0, <2>1, <3>3 DEF EndsStopped, Recording
    <3> QED BY <3>1, <3>2, <3>3
  <2> QED BY <2>4, <2>5
<1>11. CASE ProcessPackets
  <2>1. /\ (thread' = "wait" /\ ~failed') \/ (thread' = "close" /\ failed')
        /\ UNCHANGED <<demuxing, shared>>
        /\ \/ packet' = [video |-> Media("video"), audio |-> Media("audio")]
           \/ packet' = [s \in Streams |-> None]
    <3>1. (thread' = "wait" /\ ~failed') \/ (thread' = "close" /\ failed')
      BY <1>0, <1>11, Processed
    <3> QED BY <1>11, <3>1 DEF ProcessPackets
  <2>2. /\ packet' = [s \in Streams |-> packet'[s]]
        /\ \A s \in Streams : packet[s] = None => packet'[s] = None
    BY <2>1 DEF Streams, Media
  <2>3. OnlyOpenStreamsHavePackets'
    BY <1>0, <2>1, <2>2 DEF demuxing, shared, OnlyOpenStreamsHavePackets
  <2> QED BY <2>1, <2>3 DEF shared, EndsStopped, Recording
<1>12. CASE WriteTrailer
  BY <1>0, <1>12 DEF WriteTrailer, demuxing, shared,
               OnlyOpenStreamsHavePackets, EndsStopped, Recording
<1>13. CASE CloseOutputFile
  BY <1>0, <1>13 DEF CloseOutputFile, demuxing, shared,
               OnlyOpenStreamsHavePackets, EndsStopped, Recording
<1>14. CASE ClearQueues
  <2>1. /\ queue' = [s \in Streams |-> EmptyDeque] /\ stopped' = TRUE
        /\ UNCHANGED <<demuxing, wanted, packet, failed>> /\ thread' = "ended"
    BY <1>14 DEF ClearQueues
  <2> QED BY <1>0, <2>1, EmptyHolds DEF demuxing,
                             OnlyOpenStreamsHavePackets, EndsStopped, Recording
<1>15. CASE UNCHANGED vars
  BY <1>0, <1>15 DEF vars, demuxing, shared, recording,
               OnlyOpenStreamsHavePackets, EndsStopped
<1> QED
  BY <1>1, <1>2, <1>3, <1>4, <1>5, <1>6, <1>7, <1>8, <1>9, <1>10, <1>11, <1>12,
     <1>13, <1>14, <1>15 DEF Next, RecorderStep

(* Only the recorder thread writes. *)
LEMMA GrowStep == RInv /\ [Next]_vars => TimestampsGrow'
<1> SUFFICES ASSUME RInv, [Next]_vars PROVE TimestampsGrow'
  OBVIOUS
<1>0. TypeInv /\ TimestampsGrow
  BY DEF RInv
<1>1. ASSUME UNCHANGED <<written, last>>, thread' \in Recording => thread \in Recording
      PROVE  TimestampsGrow'
  BY <1>0, <1>1 DEF TimestampsGrow
<1>2. CASE ProcessPackets
  <2>1. thread = "process"
    BY <1>2 DEF ProcessPackets
  <2> QED BY <1>0, <1>2, <2>1, ProcessedTypes
<1>3. CASE WriteTrailer
  <2>1. thread' = "close"
    BY <1>3 DEF WriteTrailer
  <2>2. ASSUME NEW s \in Streams
        PROVE  \A i \in 1 .. Len(written'[s]) - 1 : written'[s][i].pts < written'[s][i + 1].pts
    <3>1. CASE s = "audio" \/ written'["video"] = written["video"]
      <4>1. written'[s] = written[s]
        BY <1>0, <1>3, <3>1, TrailerTypes DEF Streams
      <4> QED BY <1>0, <4>1 DEF TimestampsGrow
    <3>2. CASE s = "video" /\ written'["video"] # written["video"]
      BY <1>0, <1>3, <3>2, TrailerTypes
    <3> QED BY <3>1, <3>2 DEF Streams
  <2> QED BY <2>1, <2>2 DEF TimestampsGrow, Recording
<1>4. CASE OpenOutputFile \/ ProcessHeader \/ TakePackets \/ CloseOutputFile \/ ClearQueues
  BY <1>1, <1>4 DEF OpenOutputFile, ProcessHeader, TakePackets, CloseOutputFile, ClearQueues,
                    Recording
<1>5. ASSUME NEW s \in Streams,
             \/ DemuxerFails(s) \/ DemuxerDisables(s) \/ SinksOpen(s)
             \/ DemuxerBreaks(s) \/ SinksClose(s)
             \/ \E pts \in Ptses \cup {NoPts} : DemuxerPushes(s, pts)
      PROVE  TimestampsGrow'
  BY <1>1, <1>5 DEF DemuxerFails, DemuxerDisables, SinksOpen, DemuxerBreaks, SinksClose,
                    DemuxerPushes, recording
<1>6. CASE RecorderStop \/ UNCHANGED vars
  BY <1>1, <1>6 DEF RecorderStop, vars, recording
<1> QED BY <1>2, <1>3, <1>4, <1>5, <1>6 DEF Next, RecorderStep
(* A step that moves no packet, and does not get to a complete recording, loses
   none. *)
LEMMA NothingMoves ==
  ASSUME NothingIsLost,
         UNCHANGED <<received, accepted, queue, packet, previous, written>>,
         ioError => ioError',
         thread' \in Recording => thread \in Recording,
         thread' \notin Recording /\ ~failed' => thread \notin Recording /\ ~failed
  PROVE  NothingIsLost'
<1> SUFFICES ASSUME NEW s \in Streams
             PROVE  /\ (Numbered(accepted[s], received[s]) /\ Numbered(Content(queue[s]), received[s]))'
                    /\ \A i \in 1 .. Len(accepted'[s]) : accepted'[s][i].pts # NoPts
                    /\ thread' \in Recording => Flows(s)'
                    /\ thread' \notin Recording /\ ~failed' => Complete(s)'
  BY DEF NothingIsLost
<1>1. /\ Numbered(accepted[s], received[s]) /\ Numbered(Content(queue[s]), received[s])
      /\ \A i \in 1 .. Len(accepted[s]) : accepted[s][i].pts # NoPts
      /\ thread \in Recording => Flows(s)
      /\ thread \notin Recording /\ ~failed => Complete(s)
  BY DEF NothingIsLost
<1>2. WrittenInOrder(s)' <=> WrittenInOrder(s)
  BY DEF WrittenInOrder
<1>3. Flows(s) => Flows(s)'
  BY <1>2 DEF Flows, Gone, Behind, HasMedia
<1>4. Complete(s) => Complete(s)'
  BY <1>2 DEF Complete
<1> QED BY <1>1, <1>3, <1>4

(* A step that fails, or was to fail, has to keep the numbers only. *)
LEMMA OnlyNumbers ==
  ASSUME NEW s \in Streams, thread' \notin Recording, failed',
         Numbered(accepted[s], received[s])', Numbered(Content(queue[s]), received[s])',
         \A i \in 1 .. Len(accepted'[s]) : accepted'[s][i].pts # NoPts
  PROVE  /\ (Numbered(accepted[s], received[s]) /\ Numbered(Content(queue[s]), received[s]))'
         /\ \A i \in 1 .. Len(accepted'[s]) : accepted'[s][i].pts # NoPts
         /\ thread' \in Recording => Flows(s)'
         /\ thread' \notin Recording /\ ~failed' => Complete(s)'
OBVIOUS

(* How far a stream has got. *)
LEMMA Counts ==
  ASSUME TypeInv, NEW s \in Streams
  PROVE  /\ Len(written[s]) \in Nat /\ Behind(s) \in Nat /\ Gone(s) \in Nat
         /\ Behind(s) = IF s = "video" /\ previous # None THEN Len(written[s]) + 1
                        ELSE Len(written[s])
         /\ Gone(s) = IF HasMedia(s) THEN Behind(s) + 1 ELSE Behind(s)
<1>1. Len(written[s]) \in Nat
  <2>1. written[s] \in Seq(Packets)
    BY DEF TypeInv
  <2> QED BY <2>1
<1>2. /\ Behind(s) \in Nat
      /\ Behind(s) = IF s = "video" /\ previous # None THEN Len(written[s]) + 1
                     ELSE Len(written[s])
  <2>1. Len(written[s]) + 0 = Len(written[s]) /\ Len(written[s]) + 1 \in Nat
    BY <1>1
  <2> QED BY <1>1, <2>1 DEF Behind
<1>3. Gone(s) \in Nat /\ Gone(s) = IF HasMedia(s) THEN Behind(s) + 1 ELSE Behind(s)
  <2>1. Behind(s) + 0 = Behind(s) /\ Behind(s) + 1 \in Nat
    BY <1>2
  <2> QED BY <1>2, <2>1 DEF Gone
<1> QED BY <1>1, <1>2, <1>3

(* A demuxer pushes a packet that the recorder accepts, or not. *)
LEMMA PushLosesNothing ==
  ASSUME RInv, NEW s \in Streams, NEW pts \in Ptses \cup {NoPts}, DemuxerPushes(s, pts)
  PROVE  NothingIsLost'
<1> DEFINE id == received[s] + 1
           p == Merged(s, [id |-> id, pts |-> pts, config |-> 0])
<1>0. TypeInv /\ NothingIsLost /\ EndsStopped
  BY DEF RInv
<1>1. id \in Nat /\ p \in Sent /\ p.id = id /\ p.pts = pts
  <2>1. id \in Nat
    BY <1>0 DEF TypeInv
  <2> HIDE DEF id
  <2> QED BY <1>0, <2>1, MergedPacket
<1>2. /\ received' = [received EXCEPT ![s] = id]
      /\ UNCHANGED <<wanted, stopped, recording>>
      /\ IF stopped \/ ~CanPush(queue[s])
         THEN UNCHANGED <<queue, accepted>>
         ELSE /\ queue' = [queue EXCEPT ![s] = Push(queue[s], p)]
              /\ accepted' = IF pts = NoPts THEN accepted
                             ELSE [accepted EXCEPT ![s] = Append(accepted[s], p)]
  BY DEF DemuxerPushes
<1>3. /\ UNCHANGED <<thread, packet, previous, written, failed, ioError>>
      /\ received'[s] = received[s] + 1 /\ received[s] \in Nat
      /\ \A t \in Streams : t # s => received'[t] = received[t]
  BY <1>0, <1>2 DEF recording, TypeInv
<1> HIDE DEF id, p
<1>4. SUFFICES ASSUME NEW t \in Streams
      PROVE  /\ (Numbered(accepted[t], received[t]) /\ Numbered(Content(queue[t]), received[t]))'
             /\ \A i \in 1 .. Len(accepted'[t]) : accepted'[t][i].pts # NoPts
             /\ thread' \in Recording => Flows(t)'
             /\ thread' \notin Recording /\ ~failed' => Complete(t)'
  BY DEF NothingIsLost
<1>5. /\ Numbered(accepted[t], received[t]) /\ Numbered(Content(queue[t]), received[t])
      /\ \A i \in 1 .. Len(accepted[t]) : accepted[t][i].pts # NoPts
      /\ thread \in Recording => Flows(t)
      /\ thread \notin Recording /\ ~failed => Complete(t)
      /\ accepted[t] \in Seq(Sent) /\ Content(queue[t]) \in Seq(Sent) /\ HoldsPackets(queue[t])
      /\ Len(written[t]) \in Nat /\ Len(accepted[t]) \in Nat
  <2>1. accepted[t] \in Seq(Sent) /\ written[t] \in Seq(Packets) /\ HoldsPackets(queue[t])
    BY <1>0 DEF TypeInv
  <2>2. Content(queue[t]) \in Seq(Sent)
    BY <2>1 DEF HoldsPackets
  <2>3. Len(written[t]) \in Nat /\ Len(accepted[t]) \in Nat
    BY <2>1
  <2> QED BY <1>0, <2>1, <2>2, <2>3 DEF NothingIsLost
<1>6. ASSUME UNCHANGED <<accepted[t], queue[t]>>
      PROVE  /\ thread' \in Recording => Flows(t)'
             /\ thread' \notin Recording /\ ~failed' => Complete(t)'
  <2>1. WrittenInOrder(t)' <=> WrittenInOrder(t)
    BY <1>3, <1>6 DEF WrittenInOrder
  <2>2. Flows(t) => Flows(t)'
    BY <1>3, <1>6, <2>1 DEF Flows, Gone, Behind, HasMedia
  <2>3. Complete(t) => Complete(t)'
    BY <1>3, <1>6, <2>1 DEF Complete
  <2> QED BY <1>3, <1>5, <2>2, <2>3
<1>7. CASE t # s
  <2>1. accepted'[t] = accepted[t] /\ queue'[t] = queue[t] /\ received'[t] = received[t]
    BY <1>0, <1>2, <1>3, <1>7 DEF TypeInv
  <2> QED BY <1>5, <1>6, <2>1
<1>8. CASE t = s /\ (stopped \/ ~CanPush(queue[s]))
  <2>1. accepted'[t] = accepted[t] /\ queue'[t] = queue[t]
    BY <1>2, <1>8
  <2>2. /\ \A i \in 1 .. Len(accepted[t]) : accepted[t][i].id \in Nat
        /\ \A i \in 1 .. Len(Content(queue[t])) : Content(queue[t])[i].id \in Nat
    BY <1>5, SentIds
  <2>r. received'[t] = received[t] + 1 /\ received[t] \in Nat
    BY <1>3, <1>8
  <2>n. ASSUME NEW x, Numbered(x, received[t]), \A i \in 1 .. Len(x) : x[i].id \in Nat
        PROVE  Numbered(x, received'[t])
    <3>1. \A i \in 1 .. Len(x) : x[i].id <= received[t]
      BY <2>n DEF Numbered
    <3>2. \A i \in 1 .. Len(x) : x[i].id <= received'[t]
      BY <2>n, <2>r, <3>1
    <3> QED BY <2>n, <3>2 DEF Numbered
  <2>3. (Numbered(accepted[t], received[t]) /\ Numbered(Content(queue[t]), received[t]))'
    BY <1>5, <2>1, <2>2, <2>n
  <2> QED BY <1>5, <1>6, <2>1, <2>3
<1>9. CASE t = s /\ ~(stopped \/ ~CanPush(queue[s]))
  <2> DEFINE a == accepted[t]
             q == Content(queue[t])
             b == IF p.pts = NoPts THEN a ELSE Append(a, p)
             r == Append(q, p)
  <2>1. accepted'[t] = b /\ Content(queue[t])' = r
    <3>1. queue'[t] = Push(queue[t], p) /\ accepted'[t] = b
      BY <1>0, <1>1, <1>2, <1>9 DEF TypeInv
    <3>2. Content(Push(queue[t], p)) = r
      BY <1>1, <1>5, <1>9, PushHolds
    <3> QED BY <3>1, <3>2
  <2>2. /\ a \in Seq(Sent) /\ q \in Seq(Sent) /\ p \in Sent /\ p.id = received[t] + 1
        /\ received[t] \in Nat /\ received'[t] = received[t] + 1
        /\ Numbered(a, received[t]) /\ Numbered(q, received[t])
        /\ \A i \in 1 .. Len(a) : a[i].pts # NoPts
        /\ Len(a) \in Nat
    BY <1>1, <1>3, <1>5, <1>9 DEF id
  <2>3. thread \in Recording => RestIn(a, q, Gone(t)) /\ Gone(t) <= Len(a)
    BY <1>5 DEF Flows
  <2>4. Gone(t) \in Nat /\ Behind(t) \in Nat
    BY <1>0, Counts
  <2> HIDE DEF a, q
  <2>5. Numbered(b, received'[t]) /\ Numbered(r, received'[t])
    BY <2>2, NumberedAppend
  <2>6. /\ \A i \in 1 .. Len(a) : b[i] = a[i]
        /\ Len(a) <= Len(b)
        /\ \A i \in 1 .. Len(b) : b[i].pts # NoPts
    BY <2>2
  <2>7. thread \in Recording => RestIn(b, r, Gone(t)) /\ Gone(t) <= Len(b)
    <3>1. thread \in Recording => RestIn(b, r, Gone(t))
      BY <2>2, <2>3, <2>4, RestAppend
    <3>2. Len(b) \in Nat
      BY <2>2
    <3> QED BY <2>2, <2>3, <2>4, <2>6, <3>1, <3>2
  <2>8. thread \notin Recording => failed
    BY <1>0, <1>9 DEF EndsStopped
  <2>9. ASSUME thread \in Recording PROVE Flows(t)'
    <3> HIDE DEF b, r
    <3>1. Gone(t)' = Gone(t) /\ Behind(t)' = Behind(t) /\ HasMedia(t)' = HasMedia(t)
      BY <1>3 DEF Gone, Behind, HasMedia
    <3>2. Flows(t) /\ WrittenInOrder(t)
      BY <1>5, <2>9 DEF Flows
    <3>3. WrittenInOrder(t)'
      <4>1. Len(written[t]) <= Len(a) /\ \A i \in 1 .. Len(written[t]) : Same(written[t][i], a[i])
        BY <3>2 DEF WrittenInOrder, a
      <4>2. Len(b) \in Nat
        BY <2>2 DEF b
      <4>3. Len(written[t]) <= Len(b)
        BY <1>5, <2>2, <2>6, <4>1, <4>2
      <4>4. \A i \in 1 .. Len(written[t]) : i \in 1 .. Len(a) /\ b[i] = a[i]
        BY <1>5, <2>2, <2>6, <4>1
      <4>5. \A i \in 1 .. Len(written[t]) : Same(written[t][i], b[i])
        BY <4>1, <4>4
      <4> QED BY <1>3, <2>1, <4>3, <4>5 DEF WrittenInOrder
    <3>4. /\ t = "video" /\ previous # None => Len(written[t]) + 1 \in 1 .. Len(a)
          /\ HasMedia(t) => Behind(t) + 1 \in 1 .. Len(a)
      <4>1. Gone(t) <= Len(a)
        BY <2>3, <2>9
      <4>2. Len(written[t]) \in Nat /\ Len(a) \in Nat
        BY <1>5, <2>2
      <4>3. /\ t = "video" /\ previous # None => Len(written[t]) + 1 <= Gone(t)
            /\ HasMedia(t) => Behind(t) + 1 <= Gone(t)
        BY <1>0, <2>4, Counts
      <4> QED BY <2>4, <4>1, <4>2, <4>3
    <3>5. /\ t = "video" /\ previous # None => Same(previous, b[Len(written[t]) + 1])
          /\ HasMedia(t) => packet[t] = b[Behind(t) + 1]
      BY <2>6, <3>2, <3>4 DEF Flows, a
    <3> QED BY <1>3, <2>1, <2>7, <2>9, <3>1, <3>3, <3>5 DEF Flows
  <2> QED BY <1>3, <2>1, <2>5, <2>6, <2>8, <2>9
<1> QED BY <1>7, <1>8, <1>9
(* The packets that are popped for the header are config packets. *)
LEMMA HeaderLosesNothing == ASSUME RInv, ProcessHeader PROVE NothingIsLost'
<1>0. TypeInv /\ NothingIsLost
  BY DEF RInv
<1> DEFINE first == {s \in Streams : ~IsEmpty(queue[s]) /\ (s = "audio" => expects)}
           ready == \A s \in first : FirstItem(queue[s]).pts = NoPts
<1>1. /\ thread = "header"
      /\ UNCHANGED <<received, accepted, packet, previous, written>>
  BY DEF ProcessHeader, demuxing
<1>2. CASE UNCHANGED queue /\ thread' = "close" /\ failed' /\ UNCHANGED ioError
  BY <1>0, <1>1, <1>2, NothingMoves DEF Recording
<1>3. CASE /\ queue' = [s \in Streams |-> IF s \in first THEN Pop(queue[s]) ELSE queue[s]]
           /\ \/ ready /\ thread' = "wait"
              \/ thread' = "close" /\ failed'
  <2> SUFFICES ASSUME NEW s \in Streams
               PROVE  /\ (Numbered(accepted[s], received[s])
                            /\ Numbered(Content(queue[s]), received[s]))'
                      /\ \A i \in 1 .. Len(accepted'[s]) : accepted'[s][i].pts # NoPts
                      /\ thread' \in Recording => Flows(s)'
                      /\ thread' \notin Recording /\ ~failed' => Complete(s)'
    BY DEF NothingIsLost
  <2> DEFINE a == accepted[s]
             q == Content(queue[s])
             n == received[s]
  <2>1. /\ Numbered(a, n) /\ Numbered(q, n) /\ n \in Nat
        /\ \A i \in 1 .. Len(a) : a[i].pts # NoPts
        /\ Flows(s) /\ a \in Seq(Sent) /\ HoldsPackets(queue[s])
    BY <1>0, <1>1 DEF NothingIsLost, TypeInv, Recording
  <2>2. s \in first => /\ q \in Seq(Sent) /\ q # <<>> /\ FirstItem(queue[s]) = Head(q)
                       /\ Content(Pop(queue[s])) = Tail(q)
    BY <2>1, PopHolds
  <2>3. RestIn(a, q, Gone(s)) /\ Gone(s) \in Nat
    BY <1>0, <2>1, Counts DEF Flows
  <2>4. Content(queue[s])' = IF s \in first THEN Tail(q) ELSE q
    <3>1. queue'[s] = IF s \in first THEN Pop(queue[s]) ELSE queue[s]
      BY <1>3
    <3> QED BY <2>2, <3>1
  <2> HIDE DEF a, q, n
  <2>5. Numbered(Content(queue[s]), received[s])'
    <3>1. s \in first => Numbered(Tail(q), n)
      BY <2>1, <2>2, NumberedTail
    <3> QED BY <1>1, <2>1, <2>4, <3>1 DEF n
  <2>6. CASE thread' = "close" /\ failed'
    BY <1>1, <2>1, <2>5, <2>6 DEF Recording, a, n
  <2>7. CASE ready /\ thread' = "wait"
    <3>1. s \in first => Head(q).pts = NoPts
      BY <2>2, <2>7
    <3>2. s \in first => RestIn(a, Tail(q), Gone(s))
      BY <2>1, <2>2, <2>3, <3>1, RestTail
    <3>3. RestIn(a, Content(queue[s])', Gone(s))
      BY <2>3, <2>4, <3>2
    <3>4. Gone(s)' = Gone(s) /\ Behind(s)' = Behind(s) /\ HasMedia(s)' = HasMedia(s)
      BY <1>1 DEF Gone, Behind, HasMedia
    <3>5. WrittenInOrder(s)'
      BY <1>1, <2>1 DEF Flows, WrittenInOrder
    <3>6. Flows(s)'
      BY <1>1, <2>1, <3>3, <3>4, <3>5 DEF Flows, a
    <3> QED BY <1>1, <2>1, <2>5, <2>7, <3>6 DEF Recording, a, n
  <2> QED BY <1>3, <2>6, <2>7
<1> QED BY <1>2, <1>3 DEF ProcessHeader

(* The packet that is taken from a queue is a config packet, or the next one. *)
LEMMA TakeLosesNothing == ASSUME RInv, TakePackets PROVE NothingIsLost'
<1>0. TypeInv /\ NothingIsLost
  BY DEF RInv
<1>1. /\ thread = "wait" /\ thread' \in Recording
      /\ UNCHANGED <<received, accepted, previous, written>>
      /\ packet' = [s \in Streams |-> IF Available(s) THEN FirstItem(queue[s]) ELSE packet[s]]
      /\ queue' = [s \in Streams |-> IF Available(s) THEN Pop(queue[s]) ELSE queue[s]]
  BY DEF TakePackets, demuxing, Recording
<1> SUFFICES ASSUME NEW s \in Streams
             PROVE  /\ (Numbered(accepted[s], received[s])
                          /\ Numbered(Content(queue[s]), received[s]))'
                    /\ \A i \in 1 .. Len(accepted'[s]) : accepted'[s][i].pts # NoPts
                    /\ thread' \in Recording => Flows(s)'
                    /\ thread' \notin Recording /\ ~failed' => Complete(s)'
  BY DEF NothingIsLost
<1> DEFINE a == accepted[s]
           q == Content(queue[s])
           n == received[s]
<1>2. /\ Numbered(a, n) /\ Numbered(q, n) /\ n \in Nat
      /\ \A i \in 1 .. Len(a) : a[i].pts # NoPts
      /\ Flows(s) /\ a \in Seq(Sent) /\ HoldsPackets(queue[s])
  BY <1>0, <1>1 DEF NothingIsLost, TypeInv, Recording
<1>3. RestIn(a, q, Gone(s)) /\ Gone(s) \in Nat /\ Behind(s) \in Nat
      /\ Gone(s) = (IF HasMedia(s) THEN Behind(s) + 1 ELSE Behind(s)) /\ WrittenInOrder(s)
      /\ (s = "video" /\ previous # None => Same(previous, a[Len(written[s]) + 1]))
      /\ Gone(s) <= Len(a)
  BY <1>0, <1>2, Counts DEF Flows
<1>4. Behind(s)' = Behind(s)
  BY <1>1 DEF Behind
<1>5. WrittenInOrder(s)'
  BY <1>1, <1>3 DEF WrittenInOrder
<1>6. CASE ~Available(s)
  <2>1. packet'[s] = packet[s] /\ queue'[s] = queue[s]
    BY <1>1, <1>6
  <2>2. Gone(s)' = Gone(s) /\ HasMedia(s)' = HasMedia(s)
    BY <1>4, <2>1 DEF Gone, HasMedia
  <2>3. Flows(s)'
    BY <1>1, <1>2, <1>4, <1>5, <2>1, <2>2 DEF Flows
  <2> QED BY <1>1, <1>2, <2>1, <2>3
<1>7. CASE Available(s)
  <2>1. /\ packet'[s] = Head(q) /\ Content(queue[s])' = Tail(q) /\ Head(q) # None
        /\ q \in Seq(Sent) /\ q # <<>> /\ packet[s] = None
    <3>1. packet'[s] = FirstItem(queue[s]) /\ queue'[s] = Pop(queue[s])
      BY <1>1, <1>7
    <3>2. ~IsEmpty(queue[s]) /\ packet[s] = None
      BY <1>7 DEF Available
    <3>3. /\ FirstItem(queue[s]) # None /\ FirstItem(queue[s]) = Head(q)
          /\ Content(Pop(queue[s])) = Tail(q) /\ q \in Seq(Sent) /\ q # <<>>
      BY <1>2, <3>2, PopHolds
    <3> HIDE DEF q
    <3> QED BY <3>1, <3>2, <3>3
  <2>2. ~HasMedia(s) /\ Gone(s) = Behind(s)
    BY <1>3, <2>1 DEF HasMedia
  <2> HIDE DEF a, q, n
  <2>3. Numbered(Tail(q), n)
    BY <1>2, <2>1, NumberedTail
  <2>4. IF Head(q).pts = NoPts THEN RestIn(a, Tail(q), Behind(s))
        ELSE Behind(s) + 1 <= Len(a) /\ a[Behind(s) + 1] = Head(q)
             /\ RestIn(a, Tail(q), Behind(s) + 1)
    BY <1>2, <1>3, <2>1, <2>2, RestTail
  <2>5. HasMedia(s)' = (Head(q).pts # NoPts)
    BY <2>1 DEF HasMedia
  <2>6. Gone(s)' = IF Head(q).pts = NoPts THEN Behind(s) ELSE Behind(s) + 1
    <3>1. Behind(s) + 0 = Behind(s)
      BY <1>3
    <3> QED BY <1>4, <2>5, <3>1 DEF Gone
  <2>7. RestIn(a, Tail(q), Gone(s)') /\ Gone(s)' <= Len(a)
    BY <1>3, <2>2, <2>4, <2>6
  <2>8. HasMedia(s)' => packet'[s] = a[Behind(s)' + 1]
    BY <1>4, <2>1, <2>4, <2>5
  <2>9. Flows(s)'
    BY <1>1, <1>3, <1>5, <2>1, <2>7, <2>8 DEF Flows, a
  <2> QED BY <1>1, <1>2, <2>1, <2>3, <2>9 DEF a, n
<1> QED BY <1>6, <1>7
(* One more packet of the stream is written. *)
LEMMA WritesNext ==
  ASSUME NEW s \in Streams, NEW w \in Seq(Packets), NEW a \in Seq(Sent), NEW e \in Packets,
         Len(w) <= Len(a), \A i \in 1 .. Len(w) : Same(w[i], a[i]),
         Len(w) + 1 <= Len(a), Same(e, a[Len(w) + 1])
  PROVE  /\ Len(Append(w, e)) = Len(w) + 1 /\ Len(w) \in Nat
         /\ \A i \in 1 .. Len(w) + 1 : Same(Append(w, e)[i], a[i])
<1>1. /\ Len(Append(w, e)) = Len(w) + 1 /\ Len(w) \in Nat /\ Append(w, e)[Len(w) + 1] = e
      /\ \A i \in 1 .. Len(w) : Append(w, e)[i] = w[i]
  OBVIOUS
<1>2. ASSUME NEW i \in 1 .. Len(w) + 1 PROVE Same(Append(w, e)[i], a[i])
  <2>1. CASE i \in 1 .. Len(w)
    BY <1>1, <2>1
  <2>2. CASE i = Len(w) + 1
    BY <1>1, <2>2
  <2> QED BY <1>1, <2>1, <2>2
<1> QED BY <1>1, <1>2

(* Writing what was taken keeps the order, or fails. *)
LEMMA ProcessLosesNothing == ASSUME RInv, ProcessPackets PROVE NothingIsLost'
<1>0. TypeInv /\ NothingIsLost
  BY DEF RInv
<1>1. thread = "process" /\ UNCHANGED <<received, accepted, queue>>
  BY DEF ProcessPackets, demuxing, shared
<1>2. ASSUME NEW s \in Streams
      PROVE  /\ Numbered(accepted[s], received[s]) /\ Numbered(Content(queue[s]), received[s])
             /\ \A i \in 1 .. Len(accepted[s]) : accepted[s][i].pts # NoPts
             /\ Flows(s) /\ accepted[s] \in Seq(Sent) /\ Len(accepted[s]) \in Nat
  BY <1>0, <1>1 DEF NothingIsLost, TypeInv, Recording
<1>3. ASSUME NEW s \in Streams
      PROVE  (Numbered(accepted[s], received[s]) /\ Numbered(Content(queue[s]), received[s]))'
  BY <1>1, <1>2
<1>4. ASSUME thread' = "close", failed' PROVE NothingIsLost'
  BY <1>1, <1>2, <1>3, <1>4 DEF NothingIsLost, Recording
<1>5. ASSUME thread' = "wait", \A s \in Streams : Flows(s)' PROVE NothingIsLost'
  BY <1>1, <1>2, <1>3, <1>5 DEF NothingIsLost, Recording
<1> DEFINE v == Media("video")
           a == Media("audio")
<1>6. CASE /\ packet' = [video |-> v, audio |-> a]
           /\ UNCHANGED <<previous, origin, last, written, ioError>>
           /\ \/ thread' = "wait" /\ ~failed'
              \/ thread' = "close" /\ failed' /\ failed' \in BOOLEAN
  <2>1. ASSUME NEW s \in Streams PROVE Flows(s)'
    <3>1. packet'[s] = IF packet[s] # None /\ packet[s].pts = NoPts THEN None ELSE packet[s]
      BY <1>6 DEF Streams, Media
    <3>2. HasMedia(s)' = HasMedia(s) /\ (HasMedia(s) => packet'[s] = packet[s])
      BY <3>1 DEF HasMedia
    <3>3. Behind(s)' = Behind(s)
      BY <1>6 DEF Behind
    <3>4. Gone(s)' = Gone(s)
      BY <3>2, <3>3 DEF Gone
    <3>5. WrittenInOrder(s)'
      BY <1>1, <1>2, <1>6 DEF Flows, WrittenInOrder
    <3> QED BY <1>1, <1>2, <1>6, <3>2, <3>3, <3>4, <3>5 DEF Flows
  <2> QED BY <1>4, <1>5, <1>6, <2>1
<1>7. ASSUME NEW o \in Ptses, NEW wv \in BOOLEAN, NEW wa \in BOOLEAN,
             /\ packet' = [s \in Streams |-> None] /\ origin' = o
             /\ previous' = IF v # None THEN [v EXCEPT !.pts = @ - o] ELSE previous
             /\ wv => v # None /\ previous # None
             /\ wa => a # None
             /\ written'["video"] = IF wv THEN Append(written["video"], Entry("video", previous))
                                    ELSE written["video"]
             /\ written'["audio"] =
                  IF wa THEN Append(written["audio"], Entry("audio", [a EXCEPT !.pts = @ - o]))
                  ELSE written["audio"],
             \/ /\ thread' = "wait" /\ ~failed' /\ UNCHANGED ioError
                /\ wv <=> v # None /\ previous # None
                /\ wa <=> a # None
             \/ thread' = "close" /\ failed' /\ failed' \in BOOLEAN
      PROVE  NothingIsLost'
  <2>1. CASE thread' = "close" /\ failed'
    BY <1>4, <2>1
  <2>2. CASE /\ thread' = "wait"
             /\ wv <=> v # None /\ previous # None
             /\ wa <=> a # None
    <3>v. /\ v # None <=> HasMedia("video")
          /\ v # None => v = packet["video"]
          /\ v # None => v \in Sent /\ v.pts \in Ptses
      BY <1>0, Processed DEF Media, HasMedia
    <3>a. /\ a # None <=> HasMedia("audio")
          /\ a # None => a = packet["audio"]
          /\ a # None => a \in Sent /\ a.pts \in Ptses
      BY <1>0, Processed DEF Media, HasMedia
    <3> HIDE DEF v, a
    <3>0. "video" \in Streams /\ "audio" \in Streams /\ "video" # "audio"
      BY DEF Streams
    <3>1. ASSUME NEW s \in Streams
          PROVE  /\ written[s] \in Seq(Packets) /\ last[s] \in Int /\ NoPts <= last[s]
                 /\ last[s] = NoPts => written[s] = <<>>
                 /\ written[s] # <<>> => last[s] = written[s][Len(written[s])].pts
                 /\ \A i \in 1 .. Len(written[s]) - 1 : written[s][i].pts < written[s][i + 1].pts
      BY <1>1 DEF RInv, TypeInv, TimestampsGrow, Recording
    <3>2. \A s \in Streams : packet'[s] = None
      BY <1>7
    <3>3. ASSUME NEW s \in Streams PROVE ~HasMedia(s)'
      BY <3>2 DEF HasMedia
    <3>4. ASSUME NEW s \in Streams, written'[s] = written[s], Gone(s)' = Gone(s),
                 s = "video" => previous' = previous
          PROVE  Flows(s)'
      <4>1. WrittenInOrder(s)'
        BY <1>1, <1>2, <3>4 DEF Flows, WrittenInOrder
      <4> QED BY <1>1, <1>2, <3>3, <3>4, <4>1 DEF Flows
    <3>5. Flows("video")'
      <4> DEFINE w == written["video"]
                 b == accepted["video"]
      <4>1. /\ w \in Seq(Packets) /\ b \in Seq(Sent) /\ Len(w) \in Nat /\ Len(b) \in Nat
            /\ Len(w) <= Len(b) /\ \A i \in 1 .. Len(w) : Same(w[i], b[i])
            /\ Gone("video") <= Len(b)
            /\ previous # None => Same(previous, b[Len(w) + 1])
            /\ HasMedia("video") => packet["video"] = b[Behind("video") + 1]
            /\ RestIn(b, Content(queue["video"]), Gone("video"))
        BY <1>2, <3>0, <3>1 DEF Flows, WrittenInOrder
      <4>2. /\ Behind("video") = (IF previous # None THEN Len(w) + 1 ELSE Len(w))
            /\ Gone("video") = (IF HasMedia("video") THEN Behind("video") + 1 ELSE Behind("video"))
        BY <1>0, <3>0, Counts
      <4>3. CASE v = None
        <5>1. written'["video"] = w /\ previous' = previous
          BY <1>7, <2>2, <4>3
        <5>2. Behind("video")' = Behind("video")
          BY <5>1 DEF Behind
        <5>3. Gone("video")' = Behind("video")' + 0
          BY <3>0, <3>3 DEF Gone
        <5>4. Gone("video")' = Gone("video")
          BY <3>v, <4>1, <4>2, <4>3, <5>2, <5>3
        <5> QED BY <3>0, <3>4, <5>1, <5>4
      <4>4. CASE v # None
        <5>1. previous' # None /\ Same(previous', v)
          <6>1. previous' = [v EXCEPT !.pts = @ - o]
            BY <1>7, <4>4
          <6> QED BY <3>v, <4>4, <6>1, Shifted
        <5>2. Same(previous', b[Behind("video") + 1])
          BY <3>v, <4>1, <4>4, <5>1
        <5>3. Gone("video") = Behind("video") + 1 /\ Behind("video") + 1 <= Len(b)
          BY <3>v, <4>1, <4>2, <4>4
        <5>4. /\ Len(written'["video"]) = Behind("video")
              /\ \A i \in 1 .. Behind("video") : Same(written'["video"][i], b[i])
          <6>1. CASE previous = None
            <7>1. written'["video"] = w /\ Behind("video") = Len(w)
              BY <1>7, <4>2, <6>1
            <7> QED BY <4>1, <7>1
          <6>2. CASE previous # None
            <7>1. written'["video"] = Append(w, Entry("video", previous))
                  /\ Behind("video") = Len(w) + 1
              BY <1>7, <2>2, <4>2, <4>4, <6>2
            <7>2. previous \in Packets /\ \E x, y \in Ptses : previous.pts = x - y
              BY <1>0, <6>2 DEF TypeInv
            <7>3. Entry("video", previous) \in Packets /\ Same(Entry("video", previous), previous)
              BY <3>0, <3>1, <7>2, EntryGrows
            <7>4. Same(Entry("video", previous), b[Len(w) + 1])
              BY <4>1, <6>2, <7>3 DEF Same
            <7>5. Len(w) + 1 <= Len(b)
              BY <4>1, <5>3, <7>1
            <7> HIDE DEF w, b
            <7> QED BY <3>0, <4>1, <7>1, <7>3, <7>4, <7>5, WritesNext
          <6> QED BY <6>1, <6>2
        <5>5. Behind("video") \in Nat
          BY <1>0, <3>0, Counts
        <5>6. Behind("video")' = Behind("video") + 1
          BY <5>1, <5>4 DEF Behind
        <5>7. Gone("video")' = Gone("video")
          <6>1. Gone("video")' = Behind("video")' + 0
            BY <3>0, <3>3 DEF Gone
          <6> QED BY <5>3, <5>5, <5>6, <6>1
        <5>8. WrittenInOrder("video")'
          <6>1. Behind("video") <= Len(b)
            BY <4>1, <5>3, <5>5
          <6> QED BY <1>1, <5>4, <6>1 DEF WrittenInOrder
        <5> QED BY <1>1, <3>0, <3>3, <4>1, <5>2, <5>4, <5>7, <5>8 DEF Flows
      <4> QED BY <4>3, <4>4
    <3>6. Flows("audio")'
      <4> DEFINE w == written["audio"]
                 b == accepted["audio"]
      <4>1. /\ w \in Seq(Packets) /\ b \in Seq(Sent) /\ Len(w) \in Nat /\ Len(b) \in Nat
            /\ Len(w) <= Len(b) /\ \A i \in 1 .. Len(w) : Same(w[i], b[i])
            /\ Gone("audio") <= Len(b)
            /\ HasMedia("audio") => packet["audio"] = b[Behind("audio") + 1]
            /\ RestIn(b, Content(queue["audio"]), Gone("audio"))
        BY <1>2, <3>0, <3>1 DEF Flows, WrittenInOrder
      <4>2. /\ Behind("audio") = Len(w)
            /\ Gone("audio") = (IF HasMedia("audio") THEN Behind("audio") + 1 ELSE Behind("audio"))
        BY <1>0, <3>0, Counts
      <4>m. Gone("audio")' = Len(written'["audio"]) + 0 + 0
        BY <3>0, <3>3 DEF Gone, Behind
      <4>3. CASE a = None
        <5>1. written'["audio"] = w
          BY <1>7, <2>2, <4>3
        <5>2. Gone("audio")' = Gone("audio")
          BY <3>a, <4>1, <4>2, <4>3, <4>m, <5>1
        <5> QED BY <3>0, <3>4, <5>1, <5>2
      <4>4. CASE a # None
        <5> DEFINE x == [a EXCEPT !.pts = @ - o]
                   e == Entry("audio", x)
        <5>1. x \in Packets /\ Same(x, a) /\ \E y, z \in Ptses : x.pts = y - z
          BY <3>a, <4>4, Shifted
        <5>2. written'["audio"] = Append(w, e)
          BY <1>7, <2>2, <4>4
        <5> HIDE DEF x
        <5>3. e \in Packets /\ Same(e, x)
          BY <3>0, <3>1, <5>1, EntryGrows
        <5> HIDE DEF e
        <5>4. Same(e, b[Len(w) + 1]) /\ Len(w) + 1 <= Len(b)
          BY <3>a, <4>1, <4>2, <4>4, <5>1, <5>3 DEF Same
        <5> HIDE DEF w, b
        <5>5. /\ Len(written'["audio"]) = Len(w) + 1
              /\ \A i \in 1 .. Len(w) + 1 : Same(written'["audio"][i], b[i])
          BY <3>0, <4>1, <5>2, <5>3, <5>4, WritesNext
        <5>6. Gone("audio")' = Gone("audio")
          BY <3>a, <4>1, <4>2, <4>4, <4>m, <5>5
        <5>7. WrittenInOrder("audio")'
          BY <1>1, <5>4, <5>5 DEF WrittenInOrder, b
        <5> QED BY <1>1, <3>0, <3>3, <4>1, <5>6, <5>7 DEF Flows, b
      <4> QED BY <4>3, <4>4
    <3> QED BY <1>5, <2>2, <3>5, <3>6 DEF Streams
  <2> QED BY <1>7, <2>1, <2>2
<1> HIDE DEF v, a
<1> QED BY <1>0, <1>6, <1>7, Processed DEF v, a
(* Nothing is queued or held but the last video packet when the trailer is written. *)
LEMMA TrailerLosesNothing == ASSUME RInv, WriteTrailer PROVE NothingIsLost'
<1>0. TypeInv /\ NothingIsLost /\ EndsStopped /\ TimestampsGrow
  BY DEF RInv
<1>1. /\ thread = "trailer" /\ thread' = "close" /\ thread' \notin Recording
      /\ previous' = None
      /\ UNCHANGED <<received, accepted, queue, packet>>
  BY DEF WriteTrailer, demuxing, shared, Recording
<1> SUFFICES ASSUME NEW s \in Streams
             PROVE  /\ (Numbered(accepted[s], received[s])
                          /\ Numbered(Content(queue[s]), received[s]))'
                    /\ \A i \in 1 .. Len(accepted'[s]) : accepted'[s][i].pts # NoPts
                    /\ Complete(s)'
  BY <1>1 DEF NothingIsLost
<1> DEFINE w == written[s]
           b == accepted[s]
<1>2. /\ Numbered(b, received[s]) /\ Numbered(Content(queue[s]), received[s])
      /\ \A i \in 1 .. Len(b) : b[i].pts # NoPts
      /\ Flows(s) /\ b \in Seq(Sent) /\ Len(b) \in Nat /\ w \in Seq(Packets)
  BY <1>0, <1>1 DEF NothingIsLost, TypeInv, Recording
<1>3. Content(queue[s]) = <<>> /\ ~HasMedia(s)
  <2>1. IsEmpty(queue[s]) /\ packet[s] = None /\ HoldsPackets(queue[s])
    BY <1>0, <1>1 DEF EndsStopped, TypeInv
  <2> QED BY <2>1, EmptyContent DEF HasMedia
<1>4. /\ Len(w) \in Nat /\ Behind(s) \in Nat
      /\ Behind(s) = IF s = "video" /\ previous # None THEN Len(w) + 1 ELSE Len(w)
      /\ Gone(s) = Behind(s)
  BY <1>0, <1>3, Counts
<1>5. /\ RestIn(b, <<>>, Behind(s)) /\ Behind(s) <= Len(b)
      /\ Len(w) <= Len(b) /\ \A i \in 1 .. Len(w) : Same(w[i], b[i])
      /\ s = "video" /\ previous # None => Same(previous, b[Len(w) + 1])
  BY <1>2, <1>3, <1>4 DEF Flows, WrittenInOrder
<1> HIDE DEF w, b
<1>6. Len(b) = Behind(s)
  <2> SUFFICES ASSUME Len(b) # Behind(s) PROVE FALSE
    OBVIOUS
  <2>1. Behind(s) + 1 \in Behind(s) + 1 .. Len(b)
    BY <1>2, <1>4, <1>5
  <2>2. PICK k \in 1 .. Len(<<>>) : b[Behind(s) + 1] = <<>>[k]
    BY <1>5, <2>1 DEF RestIn
  <2>3. 1 .. Len(<<>>) = {}
    OBVIOUS
  <2> QED BY <2>2, <2>3
<1>7. Complete(s)'
  <2>1. CASE ~(s = "video" /\ previous # None)
    <3>1. written'[s] = w
      BY <1>0, <2>1, TrailerTypes DEF Streams, w
    <3>2. Len(w) = Len(b)
      BY <1>4, <1>6, <2>1
    <3> QED BY <1>1, <1>5, <3>1, <3>2 DEF Complete, WrittenInOrder, b
  <2>2. CASE s = "video" /\ previous # None
    <3>1. Len(b) = Len(w) + 1
      BY <1>4, <1>6, <2>2
    <3>2. CASE written'[s] = w /\ ioError'
      <4>1. Len(w) = Len(b) - 1
        BY <1>4, <3>1
      <4> QED BY <1>1, <1>5, <2>2, <3>2, <4>1 DEF Complete, WrittenInOrder, b
    <3>3. CASE LET e == Entry("video", previous) IN
               written'[s] = Append(w, e) /\ e \in Packets /\ Same(e, previous)
      <4> DEFINE e == Entry("video", previous)
      <4>1. written'[s] = Append(w, e) /\ e \in Packets /\ Same(e, b[Len(w) + 1])
        BY <1>5, <2>2, <3>3 DEF Same
      <4> HIDE DEF e
      <4>2. /\ Len(Append(w, e)) = Len(w) + 1
            /\ \A i \in 1 .. Len(w) + 1 : Same(Append(w, e)[i], b[i])
        <5>1. w \in Seq(Packets) /\ b \in Seq(Sent) /\ Len(w) + 1 <= Len(b)
          BY <1>2, <1>4, <3>1 DEF w, b
        <5> QED BY <1>5, <4>1, <5>1, WritesNext
      <4>3. Len(b) <= Len(b)
        BY <1>2 DEF b
      <4> QED BY <1>1, <3>1, <4>1, <4>2, <4>3 DEF Complete, WrittenInOrder, b
    <3> QED BY <1>0, <2>2, <3>2, <3>3, TrailerTypes DEF w
  <2> QED BY <2>1, <2>2
<1> QED BY <1>1, <1>2, <1>7 DEF b

(* No step loses a packet of a recording that is still to succeed. *)
LEMMA LostStep == RInv /\ [Next]_vars => NothingIsLost'
<1> SUFFICES ASSUME RInv, [Next]_vars PROVE NothingIsLost'
  OBVIOUS
<1>0. NothingIsLost /\ ioError \in BOOLEAN
  BY DEF RInv, TypeInv
<1>1. ASSUME NEW s \in Streams,
             DemuxerFails(s) \/ DemuxerDisables(s) \/ DemuxerBreaks(s) \/ SinksClose(s)
      PROVE  NothingIsLost'
  <2>1. UNCHANGED <<received, accepted, queue, recording>>
    BY <1>1 DEF DemuxerFails, DemuxerDisables, DemuxerBreaks, SinksClose, shared
  <2> QED BY <1>0, <2>1, NothingMoves DEF recording
<1>2. ASSUME NEW s \in Streams, SinksOpen(s)
      PROVE  NothingIsLost'
  <2>1. /\ UNCHANGED <<received, accepted, queue, packet, previous, written, thread, failed>>
        /\ ioError => ioError'
    BY <1>2 DEF SinksOpen
  <2> QED BY <1>0, <2>1, NothingMoves
<1>3. ASSUME NEW s \in Streams, NEW pts \in Ptses \cup {NoPts}, DemuxerPushes(s, pts)
      PROVE  NothingIsLost'
  BY <1>3, PushLosesNothing
<1>4. CASE RecorderStop \/ UNCHANGED vars
  <2>1. UNCHANGED <<demuxing, queue, recording>>
    BY <1>4 DEF RecorderStop, vars, shared
  <2> QED BY <1>0, <2>1, NothingMoves DEF demuxing, recording
<1>5. CASE OpenOutputFile
  <2>1. /\ UNCHANGED <<demuxing, queue, packet, previous, written>> /\ thread = "open"
        /\ \/ thread' = "header" /\ UNCHANGED <<failed, ioError>>
           \/ thread' = "clear" /\ failed' /\ ioError'
    BY <1>5 DEF OpenOutputFile, shared
  <2> QED BY <1>0, <2>1, NothingMoves DEF demuxing, Recording
<1>6. CASE ProcessHeader
  BY <1>6, HeaderLosesNothing
<1>7. CASE TakePackets
  BY <1>7, TakeLosesNothing
<1>8. CASE ProcessPackets
  BY <1>8, ProcessLosesNothing
<1>9. CASE WriteTrailer
  BY <1>9, TrailerLosesNothing
<1>10. CASE CloseOutputFile
  <2>1. /\ UNCHANGED <<demuxing, queue, packet, previous, written, failed, ioError>>
        /\ thread = "close" /\ thread' = "clear"
    BY <1>10 DEF CloseOutputFile, shared
  <2> QED BY <1>0, <2>1, NothingMoves DEF demuxing, Recording
<1>11. CASE ClearQueues
  <2>1. /\ UNCHANGED <<demuxing, written, failed, ioError>>
        /\ thread = "clear" /\ thread' = "ended"
        /\ \A s \in Streams : queue'[s] = EmptyDeque
    BY <1>11 DEF ClearQueues
  <2> SUFFICES ASSUME NEW s \in Streams
               PROVE  /\ (Numbered(accepted[s], received[s])
                            /\ Numbered(Content(queue[s]), received[s]))'
                      /\ \A i \in 1 .. Len(accepted'[s]) : accepted'[s][i].pts # NoPts
                      /\ ~failed' => Complete(s)'
    BY <2>1 DEF NothingIsLost, Recording
  <2>2. /\ Numbered(accepted[s], received[s])
        /\ \A i \in 1 .. Len(accepted[s]) : accepted[s][i].pts # NoPts
        /\ ~failed => Complete(s)
    BY <1>0, <2>1 DEF NothingIsLost, Recording
  <2>3. Content(queue[s])' = <<>>
    BY <2>1, EmptyHolds
  <2>4. Numbered(Content(queue[s]), received[s])'
    <3>1. 1 .. Len(<<>>) = {}
      OBVIOUS
    <3> QED BY <2>3, <3>1 DEF Numbered
  <2>5. Complete(s) => Complete(s)'
    BY <2>1 DEF demuxing, Complete, WrittenInOrder
  <2> QED BY <2>1, <2>2, <2>4, <2>5 DEF demuxing
<1> QED
  BY <1>1, <1>2, <1>3, <1>4, <1>5, <1>6, <1>7, <1>8, <1>9, <1>10, <1>11
  DEF Next, RecorderStep
-----------------------------------------------------------------------------
(* The theorems.                                                           *)

(* Every reachable state satisfies the invariant. *)
THEOREM RecorderInvariant == Spec => []RInv
<1>1. Init => RInv
  BY InitRInv
<1>2. RInv /\ [Next]_vars => RInv'
  BY TypeStep, EndsStep, LostStep, GrowStep DEF RInv
<1> QED BY <1>1, <1>2, PTL DEF Spec

(* The assertions of sc_recorder_process_packets hold (recorder.c:325, 330, 342
   and 348), and once the thread has ended its queues are empty and stay so
   (recorder.c:484), however many packets the demuxers push and whenever the
   recorder is stopped. *)
THEOREM LoopAssertionsHold == Spec => []QueuesMatchTheLoop
<1>1. RInv => QueuesMatchTheLoop
  BY DEF RInv, OnlyOpenStreamsHavePackets, EndsStopped, QueuesMatchTheLoop,
         LoopAssertions, NothingLeftBehind
<1> QED BY <1>1, RecorderInvariant, PTL

(* A recording that ends without a failure holds every media packet a sink has
   accepted, once and in order, with its config data; only the last video frame may
   be missing, after a write error (recorder.c:320, 353, 436).  The timestamps of a
   stream increase in the file whatever the device's do.  For any number of
   packets, any timestamps, and any order of the threads' steps. *)
THEOREM RecordingHoldsTheStream == Spec => []RecordingIsFaithful
<1>1. RInv => FileTimestampsIncrease
  BY DEF RInv, TimestampsGrow, FileTimestampsIncrease
<1>2. RInv => CompleteRecordingIsComplete
  <2> SUFFICES ASSUME RInv, thread = "ended", ~failed, NEW s \in Streams
               PROVE  LET got == [i \in DOMAIN written[s] |->
                                    <<written[s][i].id, written[s][i].config>>]
                          all == [i \in DOMAIN accepted[s] |->
                                    <<accepted[s][i].id, accepted[s][i].config>>]
                      IN got = all \/ (ioError /\ s = "video" /\ all # <<>>
                                       /\ got = SubSeq(all, 1, Len(all) - 1))
    BY DEF CompleteRecordingIsComplete
  <2> DEFINE w == written[s]
             b == accepted[s]
             got == [i \in DOMAIN w |-> <<w[i].id, w[i].config>>]
             all == [i \in DOMAIN b |-> <<b[i].id, b[i].config>>]
  <2>1. /\ w \in Seq(Packets) /\ b \in Seq(Sent)
        /\ Len(w) <= Len(b) /\ \A i \in 1 .. Len(w) : Same(w[i], b[i])
        /\ \/ Len(w) = Len(b)
           \/ ioError /\ s = "video" /\ Len(w) = Len(b) - 1
    BY DEF RInv, TypeInv, NothingIsLost, Complete, WrittenInOrder, Recording
  <2> HIDE DEF w, b
  <2>2. /\ DOMAIN w = 1 .. Len(w) /\ DOMAIN b = 1 .. Len(b)
        /\ Len(w) \in Nat /\ Len(b) \in Nat
    BY <2>1
  <2>3. got = [i \in 1 .. Len(w) |-> <<b[i].id, b[i].config>>]
    BY <2>1, <2>2 DEF Same
  <2>4. CASE Len(w) = Len(b)
    BY <2>2, <2>3, <2>4 DEF w, b
  <2>5. CASE ioError /\ s = "video" /\ Len(w) = Len(b) - 1
    <3>1. all \in Seq({<<b[i].id, b[i].config>> : i \in 1 .. Len(b)}) /\ Len(all) = Len(b)
      <4>1. all \in [1 .. Len(b) -> {<<b[i].id, b[i].config>> : i \in 1 .. Len(b)}]
        BY <2>2
      <4> QED BY <2>2, <4>1
    <3>2. all # <<>>
      BY <2>2, <2>5, <3>1
    <3>3. SubSeq(all, 1, Len(all) - 1) = [i \in 1 .. Len(b) - 1 |-> all[i]]
      <4>1. SubSeq(all, 1, Len(all) - 1) = [i \in 1 .. Len(all) - 1 |-> all[i]]
        BY <2>2, <3>1
      <4> QED BY <3>1, <4>1
    <3>4. got = SubSeq(all, 1, Len(all) - 1)
      BY <2>2, <2>3, <2>5, <3>3
    <3> QED BY <2>5, <3>2, <3>4 DEF w, b
  <2> QED BY <2>1, <2>4, <2>5
<1> QED BY <1>1, <1>2, RecorderInvariant, PTL DEF RecordingIsFaithful
=============================================================================
