-------------------------- MODULE ClientPartProofs --------------------------
(***************************************************************************)
(* Parts of the desktop client: the regulator of its audio, the command    *)
(* line its sessions start from, and the life of a session.                *)
(*                                                                         *)
(* The audio regulator has a ring of samples with a lock on one side only. *)
(* The proof is in three layers: arithmetic around a ring of any size;     *)
(* what copying into it, publishing, playing and dropping do to the        *)
(* samples in it; and the steps of the two threads.  The inductive         *)
(* invariant RegInv says what the threads rely on between their steps: the *)
(* samples wait in the order they were sent (RingOrder), those that are    *)
(* copied but not yet published continue them (FreshIsNext), the writer's  *)
(* frame continues those (FrameIsNext), every sample is in one place       *)
(* (Counted), and what a reader holds is still in the ring (ReaderHolds).  *)
(***************************************************************************)
EXTENDS AudioRegulator, ClientSession, FiniteSetTheorems, WellFoundedInduction,
        TLAPS

(* The remainder of a number below twice the modulus. *)
LEMMA OnceAround ==
  ASSUME NEW c \in Nat, c > 0, NEW i \in Nat, i < 2 * c
  PROVE  /\ i < c => i % c = i
         /\ c <= i => i % c = i - c
OBVIOUS

(* The distance from t forward to h around a ring of c cells ... *)
LEMMA OnceBack ==
  ASSUME NEW c \in Nat, NEW t \in Nat, NEW h \in Nat, t < c, h < c
  PROVE  /\ t <= h => (c + h - t) % c = h - t
         /\ h < t => (c + h - t) % c = c + h - t
<1>1. c + h - t \in Nat /\ c + h - t < 2 * c /\ c > 0
  OBVIOUS
<1>2. t <= h => (c + h - t) - c = h - t /\ c <= c + h - t
  OBVIOUS
<1>3. h < t => c + h - t < c
  OBVIOUS
<1> QED BY <1>1, <1>2, <1>3, OnceAround

(* ... and the cells that are left when one stays free. *)
LEMMA RoomBack ==
  ASSUME NEW c \in Nat, NEW t \in Nat, NEW h \in Nat, t < c, h < c
  PROVE  /\ t <= h => (c + t - h - 1) % c = c + t - h - 1
         /\ h < t => (c + t - h - 1) % c = t - h - 1
<1>1. c + t - h - 1 \in Nat /\ c + t - h - 1 < 2 * c /\ c > 0
  OBVIOUS
<1>2. h < t => (c + t - h - 1) - c = t - h - 1 /\ c <= c + t - h - 1
  OBVIOUS
<1>3. t <= h => c + t - h - 1 < c
  OBVIOUS
<1> QED BY <1>1, <1>2, <1>3, OnceAround

(* How far h is ahead of t on a ring of c cells, how many cells a head at  *)
(* h may still fill, and the cell k steps after t.                         *)
Ahead(c, t, h) == (c + h - t) % c
Room(c, t, h)  == (c + t - h - 1) % c
After(c, t, k) == (t + k) % c

(* A step of less than a turn wraps at most once. *)
LEMMA AfterIs ==
  ASSUME NEW c \in Nat, NEW t \in Nat, NEW k \in Nat, t < c, k < c
  PROVE  /\ After(c, t, k) \in Nat /\ After(c, t, k) < c
         /\ t + k < c => After(c, t, k) = t + k
         /\ c <= t + k => After(c, t, k) = t + k - c
<1>1. t + k \in Nat /\ t + k < 2 * c /\ c > 0
  OBVIOUS
<1>2. /\ t + k < c => After(c, t, k) = t + k
      /\ c <= t + k => After(c, t, k) = t + k - c
  BY <1>1, OnceAround DEF After
<1> HIDE DEF After
<1>3. CASE t + k < c
  BY <1>2, <1>3
<1>4. CASE c <= t + k
  BY <1>2, <1>4
<1> QED BY <1>1, <1>3, <1>4

(* The distance between two cursors, by which of them is the greater. *)
LEMMA AheadIs ==
  ASSUME NEW c \in Nat, NEW t \in Nat, NEW h \in Nat, t < c, h < c
  PROVE  /\ Ahead(c, t, h) \in Nat /\ Ahead(c, t, h) < c
         /\ t <= h => Ahead(c, t, h) = h - t
         /\ h < t => Ahead(c, t, h) = c + h - t
         /\ Room(c, t, h) = c - 1 - Ahead(c, t, h)
<1>1. /\ t <= h => Ahead(c, t, h) = h - t
      /\ h < t => Ahead(c, t, h) = c + h - t
  BY OnceBack DEF Ahead
<1>2. /\ t <= h => Room(c, t, h) = c + t - h - 1
      /\ h < t => Room(c, t, h) = t - h - 1
  BY RoomBack DEF Room
<1>3. CASE t <= h
  BY <1>1, <1>2, <1>3
<1>4. CASE h < t
  BY <1>1, <1>2, <1>4
<1> QED BY <1>3, <1>4

(* The head is where its distance from the tail says. *)
LEMMA HeadIsAhead ==
  ASSUME NEW c \in Nat, NEW t \in Nat, NEW h \in Nat, t < c, h < c
  PROVE  h = After(c, t, Ahead(c, t, h))
<1>1. CASE t <= h
  <2>1. Ahead(c, t, h) = h - t
    BY <1>1, AheadIs
  <2>2. h - t \in Nat /\ h - t < c /\ t + (h - t) < c /\ t + (h - t) = h
    BY <1>1
  <2>3. After(c, t, h - t) = h
    BY <2>2, AfterIs
  <2> QED BY <2>1, <2>3
<1>2. CASE h < t
  <2>1. Ahead(c, t, h) = c + h - t
    BY <1>2, AheadIs
  <2>2. c + h - t \in Nat /\ c + h - t < c /\ c <= t + (c + h - t) /\ t + (c + h - t) - c = h
    BY <1>2
  <2>3. After(c, t, c + h - t) = h
    BY <2>2, AfterIs
  <2> QED BY <2>1, <2>3
<1> QED BY <1>1, <1>2

(* AheadIs for every head, from one tail ... *)
LEMMA AheadFrom ==
  ASSUME NEW c \in Nat, NEW t \in Nat, t < c
  PROVE  \A g \in Nat : g < c =>
            /\ Ahead(c, t, g) \in Nat
            /\ t <= g => Ahead(c, t, g) = g - t
            /\ g < t => Ahead(c, t, g) = c + g - t
            /\ Room(c, t, g) = c - 1 - Ahead(c, t, g)
BY AheadIs

(* ... and for every tail, to one head. *)
LEMMA AheadTo ==
  ASSUME NEW c \in Nat, NEW h \in Nat, h < c
  PROVE  \A u \in Nat : u < c =>
            /\ Ahead(c, u, h) \in Nat
            /\ u <= h => Ahead(c, u, h) = h - u
            /\ h < u => Ahead(c, u, h) = c + h - u
            /\ Room(c, u, h) = c - 1 - Ahead(c, u, h)
BY AheadIs

(* The arithmetic of a head that moves m cells on ... *)
LEMMA HeadSum ==
  ASSUME NEW c \in Nat, NEW t \in Nat, NEW h \in Nat, t < c, h < c,
         NEW m \in Nat, NEW g \in Nat, g < c,
         h + m < c => g = h + m, c <= h + m => g = h + m - c,
         NEW a \in Nat, t <= h => a = h - t, h < t => a = c + h - t, m + a < c,
         NEW b \in Nat, t <= g => b = g - t, g < t => b = c + g - t
  PROVE  b = a + m
<1>1. CASE t <= h /\ h + m < c
  BY <1>1
<1>2. CASE t <= h /\ c <= h + m
  BY <1>2
<1>3. CASE h < t
  BY <1>3
<1> QED BY <1>1, <1>2, <1>3

(* ... and of a tail that moves s cells on. *)
LEMMA TailSum ==
  ASSUME NEW c \in Nat, NEW t \in Nat, NEW h \in Nat, t < c, h < c,
         NEW s \in Nat, NEW u \in Nat, u < c,
         t + s < c => u = t + s, c <= t + s => u = t + s - c,
         NEW a \in Nat, t <= h => a = h - t, h < t => a = c + h - t, s <= a,
         NEW b \in Nat, u <= h => b = h - u, h < u => b = c + h - u
  PROVE  b = a - s
<1>1. CASE t <= h
  BY <1>1
<1>2. CASE h < t /\ t + s < c
  BY <1>2
<1>3. CASE h < t /\ c <= t + s
  BY <1>3
<1> QED BY <1>1, <1>2, <1>3

(* A head that moves into free room is that much further ahead. *)
LEMMA HeadMoves ==
  ASSUME NEW c \in Nat, NEW t \in Nat, NEW h \in Nat, t < c, h < c,
         NEW m \in Nat, m <= Room(c, t, h)
  PROVE  /\ After(c, h, m) \in Nat /\ After(c, h, m) < c
         /\ Ahead(c, t, After(c, h, m)) = Ahead(c, t, h) + m
         /\ Room(c, t, After(c, h, m)) = Room(c, t, h) - m
<1>1. /\ Ahead(c, t, h) \in Nat
      /\ t <= h => Ahead(c, t, h) = h - t
      /\ h < t => Ahead(c, t, h) = c + h - t
      /\ Room(c, t, h) = c - 1 - Ahead(c, t, h)
  BY AheadIs
<1>2. m + Ahead(c, t, h) < c /\ m < c
  BY <1>1
<1>3. /\ After(c, h, m) \in Nat /\ After(c, h, m) < c
      /\ h + m < c => After(c, h, m) = h + m
      /\ c <= h + m => After(c, h, m) = h + m - c
  BY <1>2, AfterIs
<1>4. \A g \in Nat : g < c =>
         /\ Ahead(c, t, g) \in Nat
         /\ t <= g => Ahead(c, t, g) = g - t
         /\ g < t => Ahead(c, t, g) = c + g - t
         /\ Room(c, t, g) = c - 1 - Ahead(c, t, g)
  BY AheadFrom
<1>5. \A g \in Nat : g < c /\ (h + m < c => g = h + m) /\ (c <= h + m => g = h + m - c)
         => Ahead(c, t, g) = Ahead(c, t, h) + m
  <2> TAKE g \in Nat
  <2> HAVE g < c /\ (h + m < c => g = h + m) /\ (c <= h + m => g = h + m - c)
  <2>1. /\ Ahead(c, t, g) \in Nat
        /\ t <= g => Ahead(c, t, g) = g - t
        /\ g < t => Ahead(c, t, g) = c + g - t
    BY <1>4
  <2> QED BY <1>1, <1>2, <2>1, HeadSum
<1>6. Ahead(c, t, After(c, h, m)) = Ahead(c, t, h) + m
  BY <1>3, <1>5
<1>7. Room(c, t, After(c, h, m)) = c - 1 - Ahead(c, t, After(c, h, m))
  BY <1>3, <1>4
<1>8. Room(c, t, After(c, h, m)) = Room(c, t, h) - m
  BY <1>1, <1>6, <1>7
<1> QED BY <1>3, <1>6, <1>8

(* A tail that moves towards the head is that much nearer to it. *)
LEMMA TailMoves ==
  ASSUME NEW c \in Nat, NEW t \in Nat, NEW h \in Nat, t < c, h < c,
         NEW s \in Nat, s <= Ahead(c, t, h)
  PROVE  /\ After(c, t, s) \in Nat /\ After(c, t, s) < c
         /\ Ahead(c, After(c, t, s), h) = Ahead(c, t, h) - s
         /\ Room(c, After(c, t, s), h) = Room(c, t, h) + s
<1>1. /\ Ahead(c, t, h) \in Nat /\ Ahead(c, t, h) < c
      /\ t <= h => Ahead(c, t, h) = h - t
      /\ h < t => Ahead(c, t, h) = c + h - t
      /\ Room(c, t, h) = c - 1 - Ahead(c, t, h)
  BY AheadIs
<1>2. s < c
  BY <1>1
<1>3. /\ After(c, t, s) \in Nat /\ After(c, t, s) < c
      /\ t + s < c => After(c, t, s) = t + s
      /\ c <= t + s => After(c, t, s) = t + s - c
  BY <1>2, AfterIs
<1>4. \A u \in Nat : u < c =>
         /\ Ahead(c, u, h) \in Nat
         /\ u <= h => Ahead(c, u, h) = h - u
         /\ h < u => Ahead(c, u, h) = c + h - u
         /\ Room(c, u, h) = c - 1 - Ahead(c, u, h)
  BY AheadTo
<1>5. \A u \in Nat : u < c /\ (t + s < c => u = t + s) /\ (c <= t + s => u = t + s - c)
         => Ahead(c, u, h) = Ahead(c, t, h) - s
  <2> TAKE u \in Nat
  <2> HAVE u < c /\ (t + s < c => u = t + s) /\ (c <= t + s => u = t + s - c)
  <2>1. /\ Ahead(c, u, h) \in Nat
        /\ u <= h => Ahead(c, u, h) = h - u
        /\ h < u => Ahead(c, u, h) = c + h - u
    BY <1>4
  <2> QED BY <1>1, <2>1, TailSum
<1>6. Ahead(c, After(c, t, s), h) = Ahead(c, t, h) - s
  BY <1>3, <1>5
<1>7. Room(c, After(c, t, s), h) = c - 1 - Ahead(c, After(c, t, s), h)
  BY <1>3, <1>4
<1>8. Room(c, After(c, t, s), h) = Room(c, t, h) + s
  BY <1>1, <1>6, <1>7
<1> QED BY <1>3, <1>6, <1>8

(* The arithmetic of two steps after one another. *)
LEMMA TwiceAt ==
  ASSUME NEW c \in Nat, NEW t \in Nat, NEW s \in Nat, NEW k \in Nat, t < c, s + k < c,
         NEW u \in Nat, u < c, t + s < c => u = t + s, c <= t + s => u = t + s - c
  PROVE  After(c, u, k) = After(c, t, s + k)
<1>1. s < c /\ k < c /\ s + k \in Nat
  OBVIOUS
<1>4. /\ u + k < c => After(c, u, k) = u + k
      /\ c <= u + k => After(c, u, k) = u + k - c
  BY <1>1, AfterIs
<1>5. /\ t + (s + k) < c => After(c, t, s + k) = t + (s + k)
      /\ c <= t + (s + k) => After(c, t, s + k) = t + (s + k) - c
  BY <1>1, AfterIs
<1>6. CASE t + s < c
  BY <1>1, <1>4, <1>5, <1>6
<1>7. CASE c <= t + s
  BY <1>1, <1>4, <1>5, <1>7
<1> QED BY <1>6, <1>7

(* Two steps are one step of their sum. *)
LEMMA Twice ==
  ASSUME NEW c \in Nat, NEW t \in Nat, NEW s \in Nat, NEW k \in Nat, t < c, s + k < c
  PROVE  After(c, After(c, t, s), k) = After(c, t, s + k)
<1>1. s < c
  OBVIOUS
<1>2. /\ After(c, t, s) \in Nat /\ After(c, t, s) < c
      /\ t + s < c => After(c, t, s) = t + s
      /\ c <= t + s => After(c, t, s) = t + s - c
  BY <1>1, AfterIs
<1> QED BY <1>2, TwiceAt

(* The cell k steps after t is k ahead of it. *)
LEMMA PlaceOf ==
  ASSUME NEW c \in Nat, NEW t \in Nat, NEW k \in Nat, t < c, k < c
  PROVE  Ahead(c, t, After(c, t, k)) = k
<1>1. Ahead(c, t, t) = 0 /\ Room(c, t, t) = c - 1
  BY AheadIs
<1>2. k <= Room(c, t, t)
  BY <1>1
<1>3. Ahead(c, t, After(c, t, k)) = Ahead(c, t, t) + k
  BY <1>2, HeadMoves
<1> QED BY <1>1, <1>3

(* What is ahead of one cursor is behind the other. *)
LEMMA Opposite ==
  ASSUME NEW c \in Nat, NEW i \in Nat, NEW h \in Nat, i < c, h < c, Ahead(c, i, h) # 0
  PROVE  Ahead(c, h, i) = c - Ahead(c, i, h)
<1>1. CASE i < h
  <2>1. Ahead(c, i, h) = h - i /\ Ahead(c, h, i) = c + i - h
    BY <1>1, AheadIs
  <2> QED BY <2>1
<1>2. CASE h < i
  <2>1. Ahead(c, i, h) = c + h - i /\ Ahead(c, h, i) = i - h
    BY <1>2, AheadIs
  <2> QED BY <2>1
<1>3. CASE h = i
  <2>1. Ahead(c, i, h) = h - i
    BY <1>3, AheadIs
  <2> QED BY <1>3, <2>1
<1> QED BY <1>1, <1>2, <1>3

(* A cell between the tail and the head is not among those a write fills. *)
LEMMA BehindHead ==
  ASSUME NEW c \in Nat, NEW t \in Nat, NEW h \in Nat, t < c, h < c,
         NEW k \in Nat, k < Ahead(c, t, h), NEW n \in Nat, n <= Room(c, t, h)
  PROVE  ~ (Ahead(c, h, After(c, t, k)) < n)
<1>1. /\ Ahead(c, t, h) \in Nat /\ Ahead(c, t, h) < c
      /\ Room(c, t, h) = c - 1 - Ahead(c, t, h)
  BY AheadIs
<1>2. /\ After(c, t, k) \in Nat /\ After(c, t, k) < c
      /\ Ahead(c, After(c, t, k), h) = Ahead(c, t, h) - k
  BY <1>1, TailMoves
<1>3. Ahead(c, After(c, t, k), h) # 0
  BY <1>1, <1>2
<1>4. Ahead(c, h, After(c, t, k)) = c - Ahead(c, After(c, t, k), h)
  BY <1>2, <1>3, Opposite
<1>5. Ahead(c, h, After(c, t, k)) = c - (Ahead(c, t, h) - k)
  BY <1>2, <1>4
<1> QED BY <1>1, <1>5

(* The sample k cells after t, and the three helpers on the ring of the    *)
(* model.                                                                  *)
Cell(d, t, k) == d[After(Alloc, t, k)]
Hold(t, h) == Ahead(Alloc, t, h)
Free(t, h) == Room(Alloc, t, h)
Move(t, k) == After(Alloc, t, k)

(* The ring has at least two cells, one of which stays free. *)
LEMMA RingSize == Alloc \in Nat /\ Alloc > 1 /\ Capacity = Alloc - 1 /\ Capacity \in Nat
BY RegulatorAssumption DEF Alloc, Capacity

(* The cursors are below the size of the ring. *)
LEMMA Slot == \A s : s \in Slots <=> s \in Nat /\ s < Alloc
BY RingSize DEF Slots

(* What can be read and what can be written add up to the capacity. *)
LEMMA Cursors ==
  ASSUME NEW t \in Slots, NEW h \in Slots
  PROVE  /\ Hold(t, h) \in Nat /\ Hold(t, h) <= Capacity
         /\ Free(t, h) = Capacity - Hold(t, h) /\ Free(t, h) \in Nat
         /\ Move(t, Hold(t, h)) = h
<1>1. /\ Hold(t, h) \in Nat /\ Hold(t, h) < Alloc
      /\ Free(t, h) = Alloc - 1 - Hold(t, h)
  BY RingSize, Slot, AheadIs DEF Hold, Free
<1>2. Move(t, Hold(t, h)) = h
  BY RingSize, Slot, HeadIsAhead DEF Hold, Move
<1> QED BY <1>1, <1>2, RingSize

(* Publishing m samples: there is that much more to read and less to       *)
(* write.                                                                  *)
LEMMA MoveHead ==
  ASSUME NEW t \in Slots, NEW h \in Slots, NEW m \in Nat, m <= Free(t, h)
  PROVE  /\ Move(h, m) \in Slots
         /\ Hold(t, Move(h, m)) = Hold(t, h) + m
         /\ Free(t, Move(h, m)) = Free(t, h) - m
BY RingSize, Slot, HeadMoves DEF Hold, Free, Move

(* Taking s samples out: there is that much less to read and more to       *)
(* write.                                                                  *)
LEMMA MoveTail ==
  ASSUME NEW t \in Slots, NEW h \in Slots, NEW s \in Nat, s <= Hold(t, h)
  PROVE  /\ Move(t, s) \in Slots
         /\ Hold(Move(t, s), h) = Hold(t, h) - s
         /\ Free(Move(t, s), h) = Free(t, h) + s
BY RingSize, Slot, TailMoves DEF Hold, Free, Move

(* A cell counted from a tail that has moved. *)
LEMMA CellNearer ==
  ASSUME NEW d, NEW t \in Slots, NEW s \in Nat, NEW k \in Nat, s + k <= Capacity
  PROVE  Cell(d, Move(t, s), k) = Cell(d, t, s + k)
<1>1. s + k < Alloc /\ t \in Nat /\ t < Alloc /\ Alloc \in Nat
  BY RingSize, Slot
<1>2. After(Alloc, After(Alloc, t, s), k) = After(Alloc, t, s + k)
  BY <1>1, Twice
<1> QED BY <1>2 DEF Cell, Move

(* Every cell holds a sample or silence. *)
LEMMA CellNat ==
  ASSUME NEW d \in [Slots -> Nat], NEW t \in Slots, NEW k \in Nat, k <= Capacity
  PROVE  Cell(d, t, k) \in Nat
<1>1. k < Alloc /\ t \in Nat /\ t < Alloc /\ Alloc \in Nat
  BY RingSize, Slot
<1>2. After(Alloc, t, k) \in Slots
  BY <1>1, Slot, AfterIs
<1> QED BY <1>2 DEF Cell

(* The buffer d after the samples q have been copied in from the cell at   *)
(* on: Filled, for any buffer.                                             *)
FilledIn(d, at, q) == [i \in Slots |-> IF Hold(at, i) < Len(q) THEN q[Hold(at, i) + 1] ELSE d[i]]

(* A filled buffer is a buffer. *)
LEMMA FilledType ==
  ASSUME NEW d \in [Slots -> Nat], NEW h \in Slots, NEW q \in Seq(Nat)
  PROVE  FilledIn(d, h, q) \in [Slots -> Nat]
<1>1. ASSUME NEW i \in Slots
      PROVE  (IF Hold(h, i) < Len(q) THEN q[Hold(h, i) + 1] ELSE d[i]) \in Nat
  <2>1. Hold(h, i) \in Nat
    BY Cursors
  <2>2. CASE Hold(h, i) < Len(q)
    <3>1. Hold(h, i) + 1 \in 1 .. Len(q)
      BY <2>1, <2>2
    <3>2. q[Hold(h, i) + 1] \in Nat
      BY <3>1
    <3> QED BY <2>2, <3>2
  <2>3. CASE ~ (Hold(h, i) < Len(q))
    BY <2>3
  <2> QED BY <2>2, <2>3
<1> QED BY <1>1 DEF FilledIn

(* Filling free cells changes none that is waiting to be read, and puts    *)
(* the samples right behind them.                                          *)
LEMMA FilledCells ==
  ASSUME NEW d \in [Slots -> Nat], NEW t \in Slots, NEW h \in Slots, NEW q \in Seq(Nat),
         Len(q) <= Free(t, h)
  PROVE  /\ \A k \in Nat : k < Hold(t, h) => Cell(FilledIn(d, h, q), t, k) = Cell(d, t, k)
         /\ \A k \in Nat : k < Len(q) => Cell(FilledIn(d, h, q), t, Hold(t, h) + k) = q[k + 1]
<1>0. /\ Len(q) \in Nat /\ Hold(t, h) \in Nat
      /\ Len(q) + Hold(t, h) <= Capacity /\ Alloc \in Nat /\ Capacity = Alloc - 1
      /\ t \in Nat /\ h \in Nat /\ t < Alloc /\ h < Alloc
  <2>1. Len(q) \in Nat
    OBVIOUS
  <2>2. /\ Hold(t, h) \in Nat /\ Free(t, h) = Capacity - Hold(t, h)
    BY Cursors
  <2>3. Len(q) + Hold(t, h) <= Capacity
    BY <2>1, <2>2, RingSize
  <2>4. t \in Nat /\ h \in Nat /\ t < Alloc /\ h < Alloc
    BY Slot
  <2> QED BY <2>1, <2>2, <2>3, <2>4, RingSize
<1>1. ASSUME NEW k \in Nat, k < Hold(t, h)
      PROVE  Cell(FilledIn(d, h, q), t, k) = Cell(d, t, k)
  <2>1. k < Alloc
    BY <1>0, <1>1
  <2>2. After(Alloc, t, k) \in Slots
    BY <1>0, <2>1, Slot, AfterIs
  <2>3. ~ (Hold(h, After(Alloc, t, k)) < Len(q))
    BY <1>0, <1>1, BehindHead DEF Hold, Free
  <2> QED BY <2>2, <2>3 DEF FilledIn, Cell
<1>2. ASSUME NEW k \in Nat, k < Len(q)
      PROVE  Cell(FilledIn(d, h, q), t, Hold(t, h) + k) = q[k + 1]
  <2>1. k < Alloc /\ Hold(t, h) + k <= Capacity
    BY <1>0, <1>2
  <2>2. After(Alloc, h, k) \in Slots
    BY <1>0, <2>1, Slot, AfterIs
  <2>3. Hold(h, After(Alloc, h, k)) = k
    BY <1>0, <2>1, PlaceOf DEF Hold
  <2>4. Cell(FilledIn(d, h, q), h, k) = q[k + 1]
    BY <1>2, <2>2, <2>3 DEF FilledIn, Cell
  <2>5. Cell(FilledIn(d, h, q), Move(t, Hold(t, h)), k)
          = Cell(FilledIn(d, h, q), t, Hold(t, h) + k)
    BY <1>0, <2>1, CellNearer
  <2>6. Move(t, Hold(t, h)) = h
    BY Cursors
  <2> QED BY <2>4, <2>5, <2>6
<1> QED BY <1>1, <1>2

(* The first n cells after t hold samples after last and up to b, in the   *)
(* order in which they were sent, with silence between them.               *)
Ordered(d, t, n, last, b) ==
  /\ \A k \in Nat : k < n =>
       /\ Cell(d, t, k) \in Nat /\ Cell(d, t, k) <= b
       /\ Cell(d, t, k) # 0 => last < Cell(d, t, k)
  /\ \A k, j \in Nat : k < n /\ j < k /\ Cell(d, t, k) # 0 => Cell(d, t, j) < Cell(d, t, k)

(* The samples among them, without the silence. *)
Content(d, t, n) == {Cell(d, t, k) : k \in 0 .. n - 1} \ {0}

(* A sample is in the content if and only if one of the cells holds it. *)
LEMMA Held ==
  ASSUME NEW d, NEW t, NEW n \in Nat, NEW x
  PROVE  x \in Content(d, t, n) <=> x # 0 /\ \E k \in Nat : k < n /\ x = Cell(d, t, k)
<1>1. \A k : k \in 0 .. n - 1 <=> k \in Nat /\ k < n
  OBVIOUS
<1> QED BY <1>1 DEF Content

(* Both depend on the cells alone. *)
LEMMA SameCells ==
  ASSUME NEW d, NEW t, NEW e, NEW u, NEW n \in Nat, NEW last, NEW b,
         \A k \in Nat : k < n => Cell(e, u, k) = Cell(d, t, k)
  PROVE  /\ Ordered(d, t, n, last, b) => Ordered(e, u, n, last, b)
         /\ Content(e, u, n) = Content(d, t, n)
<1>1. ASSUME Ordered(d, t, n, last, b) PROVE Ordered(e, u, n, last, b)
  <2>1. ASSUME NEW k \in Nat, k < n
        PROVE  /\ Cell(e, u, k) \in Nat /\ Cell(e, u, k) <= b
               /\ Cell(e, u, k) # 0 => last < Cell(e, u, k)
    <3>1. Cell(e, u, k) = Cell(d, t, k)
      BY <2>1
    <3> QED BY <1>1, <2>1, <3>1 DEF Ordered
  <2>2. ASSUME NEW k \in Nat, NEW j \in Nat, k < n, j < k, Cell(e, u, k) # 0
        PROVE  Cell(e, u, j) < Cell(e, u, k)
    <3>1. j < n
      BY <2>2
    <3>2. Cell(e, u, k) = Cell(d, t, k) /\ Cell(e, u, j) = Cell(d, t, j)
      BY <2>2, <3>1
    <3>3. Cell(d, t, j) < Cell(d, t, k)
      BY <1>1, <2>2, <3>2 DEF Ordered
    <3> QED BY <3>2, <3>3
  <2> QED BY <2>1, <2>2 DEF Ordered
<1>2. \A x : x \in Content(e, u, n) <=> x \in Content(d, t, n)
  BY Held
<1> QED BY <1>1, <1>2

(* The m cells after the first n hold the samples that come after b. *)
Continues(d, t, n, m, b) == \A k \in Nat : k < m => Cell(d, t, n + k) = b + k + 1

(* Samples that continue the content keep its order, and are added to it. *)
LEMMA Grows ==
  ASSUME NEW d, NEW t, NEW n \in Nat, NEW m \in Nat, NEW last \in Nat, NEW b \in Nat, last <= b,
         Ordered(d, t, n, last, b), Continues(d, t, n, m, b)
  PROVE  /\ Ordered(d, t, n + m, last, b + m)
         /\ Content(d, t, n + m) = Content(d, t, n) \cup (b + 1 .. b + m)
<1>1. ASSUME NEW k \in Nat, k < n + m
      PROVE  \/ k < n
             \/ ~ (k < n) /\ k - n \in Nat /\ k - n < m /\ Cell(d, t, k) = b + (k - n) + 1
  <2>1. CASE k < n
    BY <2>1
  <2>2. CASE ~ (k < n)
    <3>1. k - n \in Nat /\ k - n < m /\ n + (k - n) = k
      BY <1>1, <2>2
    <3>2. Cell(d, t, n + (k - n)) = b + (k - n) + 1
      BY <3>1 DEF Continues
    <3> QED BY <2>2, <3>1, <3>2
  <2> QED BY <2>1, <2>2
<1>2. ASSUME NEW k \in Nat, k < n + m
      PROVE  /\ Cell(d, t, k) \in Nat /\ Cell(d, t, k) <= b + m
             /\ Cell(d, t, k) # 0 => last < Cell(d, t, k)
  <2>1. CASE k < n
    BY <2>1 DEF Ordered
  <2>2. CASE ~ (k < n)
    <3>1. k - n \in Nat /\ k - n < m /\ Cell(d, t, k) = b + (k - n) + 1
      BY <1>1, <1>2, <2>2
    <3> QED BY <3>1
  <2> QED BY <2>1, <2>2
<1>3. ASSUME NEW k \in Nat, NEW j \in Nat, k < n + m, j < k, Cell(d, t, k) # 0
      PROVE  Cell(d, t, j) < Cell(d, t, k)
  <2>1. CASE k < n
    BY <1>3, <2>1 DEF Ordered
  <2>2. CASE ~ (k < n) /\ j < n
    <3>1. k - n \in Nat /\ Cell(d, t, k) = b + (k - n) + 1
      BY <1>1, <1>3, <2>2
    <3>2. Cell(d, t, j) \in Nat /\ Cell(d, t, j) <= b
      BY <2>2 DEF Ordered
    <3> QED BY <3>1, <3>2
  <2>3. CASE ~ (k < n) /\ ~ (j < n)
    <3>1. k - n \in Nat /\ Cell(d, t, k) = b + (k - n) + 1
      BY <1>1, <1>3, <2>3
    <3>2. j < n + m
      BY <1>3
    <3>3. j - n \in Nat /\ Cell(d, t, j) = b + (j - n) + 1
      BY <1>1, <3>2, <2>3
    <3>4. j - n < k - n
      BY <1>3
    <3> QED BY <3>1, <3>3, <3>4
  <2> QED BY <2>1, <2>2, <2>3
<1>4. Ordered(d, t, n + m, last, b + m)
  BY <1>2, <1>3 DEF Ordered
<1>5. ASSUME NEW x \in Content(d, t, n + m)
      PROVE  x \in Content(d, t, n) \/ x \in b + 1 .. b + m
  <2>1. PICK k \in Nat : k < n + m /\ x = Cell(d, t, k) /\ x # 0
    BY Held
  <2>2. CASE k < n
    BY <2>1, <2>2, Held
  <2>3. CASE ~ (k < n)
    <3>1. k - n \in Nat /\ k - n < m /\ Cell(d, t, k) = b + (k - n) + 1
      BY <1>1, <2>1, <2>3
    <3> QED BY <2>1, <3>1
  <2> QED BY <2>2, <2>3
<1>6. ASSUME NEW x \in Content(d, t, n)
      PROVE  x \in Content(d, t, n + m)
  <2>1. PICK k \in Nat : k < n /\ x = Cell(d, t, k) /\ x # 0
    BY Held
  <2>2. k < n + m /\ n + m \in Nat
    BY <2>1
  <2> QED BY <2>1, <2>2, Held
<1>7. ASSUME NEW x \in b + 1 .. b + m
      PROVE  x \in Content(d, t, n + m)
  <2>1. x - b - 1 \in Nat /\ x - b - 1 < m /\ b + (x - b - 1) + 1 = x /\ x # 0
    OBVIOUS
  <2>2. Cell(d, t, n + (x - b - 1)) = b + (x - b - 1) + 1
    BY <2>1 DEF Continues
  <2>3. n + (x - b - 1) \in Nat /\ n + (x - b - 1) < n + m /\ n + m \in Nat
    BY <2>1
  <2> QED BY <2>1, <2>2, <2>3, Held
<1> QED BY <1>4, <1>5, <1>6, <1>7

(* Silence behind the content changes nothing about it. *)
LEMMA GrowsSilent ==
  ASSUME NEW d, NEW t, NEW n \in Nat, NEW m \in Nat, NEW last \in Nat, NEW b \in Nat,
         Ordered(d, t, n, last, b), \A k \in Nat : k < m => Cell(d, t, n + k) = 0
  PROVE  /\ Ordered(d, t, n + m, last, b)
         /\ Content(d, t, n + m) = Content(d, t, n)
<1>1. ASSUME NEW k \in Nat, k < n + m, ~ (k < n)
      PROVE  Cell(d, t, k) = 0
  <2>1. k - n \in Nat /\ k - n < m /\ n + (k - n) = k
    BY <1>1
  <2>2. Cell(d, t, n + (k - n)) = 0
    BY <2>1
  <2> QED BY <2>1, <2>2
<1>2. ASSUME NEW k \in Nat, k < n + m
      PROVE  /\ Cell(d, t, k) \in Nat /\ Cell(d, t, k) <= b
             /\ Cell(d, t, k) # 0 => last < Cell(d, t, k)
  <2>1. CASE k < n
    BY <2>1 DEF Ordered
  <2>2. CASE ~ (k < n)
    BY <1>1, <1>2, <2>2
  <2> QED BY <2>1, <2>2
<1>3. ASSUME NEW k \in Nat, NEW j \in Nat, k < n + m, j < k, Cell(d, t, k) # 0
      PROVE  Cell(d, t, j) < Cell(d, t, k)
  <2>1. k < n
    BY <1>1, <1>3
  <2> QED BY <1>3, <2>1 DEF Ordered
<1>4. \A x : x \in Content(d, t, n + m) <=> x \in Content(d, t, n)
  <2> TAKE x
  <2>1. ASSUME x \in Content(d, t, n + m) PROVE x \in Content(d, t, n)
    <3>1. PICK k \in Nat : k < n + m /\ x = Cell(d, t, k) /\ x # 0
      BY <2>1, Held
    <3>2. k < n
      BY <1>1, <3>1
    <3> QED BY <3>1, <3>2, Held
  <2>2. ASSUME x \in Content(d, t, n) PROVE x \in Content(d, t, n + m)
    <3>1. PICK k \in Nat : k < n /\ x = Cell(d, t, k) /\ x # 0
      BY <2>2, Held
    <3>2. k < n + m /\ n + m \in Nat
      BY <3>1
    <3> QED BY <3>1, <3>2, Held
  <2> QED BY <2>1, <2>2
<1> QED BY <1>2, <1>3, <1>4 DEF Ordered

(* Taking the first s out leaves the order, and leaves only later samples. *)
LEMMA Drops ==
  ASSUME NEW d, NEW t \in Slots, NEW n \in Nat, NEW s \in Nat, s <= n, n <= Capacity,
         NEW last \in Nat, NEW b \in Nat, Ordered(d, t, n, last, b)
  PROVE  /\ Ordered(d, Move(t, s), n - s, last, b)
         /\ Content(d, t, n) = Content(d, t, s) \cup Content(d, Move(t, s), n - s)
         /\ \A x \in Content(d, t, s), y \in Content(d, Move(t, s), n - s) : x < y
<1> DEFINE u == Move(t, s)
<1>0. n - s \in Nat /\ Capacity \in Nat
  BY RingSize
<1>1. ASSUME NEW k \in Nat, k < n - s
      PROVE  Cell(d, u, k) = Cell(d, t, s + k) /\ s + k \in Nat /\ s + k < n
  <2>1. s + k \in Nat /\ s + k < n /\ s + k <= Capacity
    BY <1>0, <1>1
  <2> QED BY <2>1, CellNearer
<1> HIDE DEF u
<1>2. ASSUME NEW k \in Nat, k < n - s
      PROVE  /\ Cell(d, u, k) \in Nat /\ Cell(d, u, k) <= b
             /\ Cell(d, u, k) # 0 => last < Cell(d, u, k)
  BY <1>1, <1>2 DEF Ordered
<1>3. ASSUME NEW k \in Nat, NEW j \in Nat, k < n - s, j < k, Cell(d, u, k) # 0
      PROVE  Cell(d, u, j) < Cell(d, u, k)
  <2>1. j < n - s /\ s + j < s + k
    BY <1>0, <1>3
  <2>2. Cell(d, u, k) = Cell(d, t, s + k) /\ s + k \in Nat /\ s + k < n
    BY <1>1, <1>3
  <2>3. Cell(d, u, j) = Cell(d, t, s + j) /\ s + j \in Nat
    BY <1>1, <2>1
  <2>4. Cell(d, t, s + j) < Cell(d, t, s + k)
    BY <1>3, <2>1, <2>2, <2>3 DEF Ordered
  <2> QED BY <2>2, <2>3, <2>4
<1>4. Ordered(d, u, n - s, last, b)
  BY <1>2, <1>3 DEF Ordered
<1>5. ASSUME NEW x \in Content(d, t, n)
      PROVE  x \in Content(d, t, s) \/ x \in Content(d, u, n - s)
  <2>1. PICK k \in Nat : k < n /\ x = Cell(d, t, k) /\ x # 0
    BY Held
  <2>2. CASE k < s
    BY <2>1, <2>2, Held
  <2>3. CASE ~ (k < s)
    <3>1. k - s \in Nat /\ k - s < n - s /\ s + (k - s) = k
      BY <2>1, <2>3
    <3>2. Cell(d, u, k - s) = Cell(d, t, s + (k - s))
      BY <1>1, <3>1
    <3>3. x = Cell(d, u, k - s)
      BY <2>1, <3>1, <3>2
    <3> QED BY <1>0, <2>1, <3>1, <3>3, Held
  <2> QED BY <2>2, <2>3
<1>6. ASSUME NEW x \in Content(d, t, s)
      PROVE  x \in Content(d, t, n)
  <2>1. PICK k \in Nat : k < s /\ x = Cell(d, t, k) /\ x # 0
    BY Held
  <2>2. k < n
    BY <2>1
  <2> QED BY <2>1, <2>2, Held
<1>7. ASSUME NEW x \in Content(d, u, n - s)
      PROVE  x \in Content(d, t, n)
  <2>1. PICK k \in Nat : k < n - s /\ x = Cell(d, u, k) /\ x # 0
    BY <1>0, Held
  <2>2. Cell(d, u, k) = Cell(d, t, s + k) /\ s + k \in Nat /\ s + k < n
    BY <1>1, <2>1
  <2> QED BY <2>1, <2>2, Held
<1>8. ASSUME NEW x \in Content(d, t, s), NEW y \in Content(d, u, n - s)
      PROVE  x < y
  <2>1. PICK j \in Nat : j < s /\ x = Cell(d, t, j) /\ x # 0
    BY Held
  <2>2. PICK k \in Nat : k < n - s /\ y = Cell(d, u, k) /\ y # 0
    BY <1>0, Held
  <2>3. Cell(d, u, k) = Cell(d, t, s + k) /\ s + k \in Nat /\ s + k < n
    BY <1>1, <2>2
  <2>4. j < s + k
    BY <2>1
  <2>5. Cell(d, t, j) < Cell(d, t, s + k)
    BY <2>2, <2>3, <2>4 DEF Ordered
  <2> QED BY <2>1, <2>2, <2>3, <2>5
<1> QED BY <1>4, <1>5, <1>6, <1>7, <1>8 DEF u

(* The content is a finite set of samples after last and up to b. *)
LEMMA ContentBounded ==
  ASSUME NEW d, NEW t, NEW n \in Nat, NEW last \in Nat, NEW b \in Nat, Ordered(d, t, n, last, b)
  PROVE  /\ \A x \in Content(d, t, n) : x \in Nat /\ x <= b /\ last < x
         /\ IsFiniteSet(Content(d, t, n)) /\ Cardinality(Content(d, t, n)) \in Nat
<1>1. ASSUME NEW x \in Content(d, t, n) PROVE x \in Nat /\ x <= b /\ last < x
  <2>1. PICK k \in Nat : k < n /\ x = Cell(d, t, k) /\ x # 0
    BY Held
  <2> QED BY <2>1 DEF Ordered
<1>2. Content(d, t, n) \subseteq Nat
  BY <1>1
<1>3. IsFiniteSet(Content(d, t, n))
  BY <1>1, <1>2, FS_BoundedSetOfNaturals
<1>4. Cardinality(Content(d, t, n)) \in Nat
  BY <1>3, FS_CardinalityType
<1> QED BY <1>1, <1>3, <1>4

(* A bounded set of numbers that is not empty has a greatest one. *)
LEMMA MaxIs ==
  ASSUME NEW T, NEW b \in Nat, T \subseteq 0 .. b, T # {}
  PROVE  Max(T) \in T /\ \A y \in T : y <= Max(T)
<1> DEFINE F == {x .. b : x \in T}
<1>1. F # {} /\ F \subseteq FiniteSubsetsOf(0 .. b)
  <2>1. ASSUME NEW x \in T PROVE x .. b \in FiniteSubsetsOf(0 .. b)
    <3>1. x \in Int /\ x .. b \subseteq 0 .. b
      OBVIOUS
    <3>2. IsFiniteSet(x .. b)
      BY <3>1, FS_Interval
    <3> QED BY <3>1, <3>2 DEF FiniteSubsetsOf
  <2> QED BY <2>1
<1>2. IsWellFoundedOn(StrictSubsetOrdering(0 .. b), FiniteSubsetsOf(0 .. b))
  BY FS_StrictSubsetOrderingWellFounded
<1> HIDE DEF F
<1>3. PICK m \in F : \A y \in F : ~ (<<y, m>> \in StrictSubsetOrdering(0 .. b))
  BY <1>1, <1>2, WFMin
<1>4. PICK x \in T : m = x .. b
  BY DEF F
<1>5. ASSUME NEW y \in T PROVE y <= x
  <2> SUFFICES ASSUME ~ (y <= x) PROVE FALSE
    OBVIOUS
  <2>1. x \in 0 .. b /\ y \in 0 .. b /\ x < y
    OBVIOUS
  <2>2. y .. b \subseteq x .. b /\ x .. b \subseteq 0 .. b /\ x \in x .. b /\ x \notin y .. b
    BY <2>1
  <2>3. y .. b \in F
    BY DEF F
  <2>4. <<y .. b, x .. b>> \in StrictSubsetOrdering(0 .. b)
    <3>1. y .. b \in SUBSET (0 .. b) /\ x .. b \in SUBSET (0 .. b) /\ y .. b # x .. b
      BY <2>2
    <3> QED BY <2>2, <3>1 DEF StrictSubsetOrdering
  <2> QED BY <1>3, <1>4, <2>3, <2>4
<1>6. \A y \in T : x >= y
  <2>1. x \in 0 .. b /\ \A y \in T : y \in 0 .. b
    OBVIOUS
  <2> QED BY <1>5, <2>1
<1>7. Max(T) \in T /\ \A y \in T : Max(T) >= y
  BY <1>6 DEF Max
<1> QED BY <1>7

(* What copying samples into free cells does to the ring: nothing to see   *)
(* for the reader.                                                         *)
LEMMA Writes ==
  ASSUME NEW d \in [Slots -> Nat], NEW t \in Slots, NEW h \in Slots, NEW q \in Seq(Nat),
         Len(q) <= Free(t, h), NEW last, NEW b, Ordered(d, t, Hold(t, h), last, b)
  PROVE  /\ FilledIn(d, h, q) \in [Slots -> Nat]
         /\ Ordered(FilledIn(d, h, q), t, Hold(t, h), last, b)
         /\ Content(FilledIn(d, h, q), t, Hold(t, h)) = Content(d, t, Hold(t, h))
         /\ \A k \in Nat : k < Len(q) => Cell(FilledIn(d, h, q), t, Hold(t, h) + k) = q[k + 1]
         /\ \A k \in Nat : k < Hold(t, h) => Cell(FilledIn(d, h, q), t, k) = Cell(d, t, k)
<1>1. Hold(t, h) \in Nat
  BY Cursors
<1>2. FilledIn(d, h, q) \in [Slots -> Nat]
  BY FilledType
<1>3. /\ \A k \in Nat : k < Hold(t, h) => Cell(FilledIn(d, h, q), t, k) = Cell(d, t, k)
      /\ \A k \in Nat : k < Len(q) => Cell(FilledIn(d, h, q), t, Hold(t, h) + k) = q[k + 1]
  BY FilledCells
<1>4. /\ Ordered(FilledIn(d, h, q), t, Hold(t, h), last, b)
      /\ Content(FilledIn(d, h, q), t, Hold(t, h)) = Content(d, t, Hold(t, h))
  BY <1>1, <1>3, SameCells
<1> QED BY <1>2, <1>3, <1>4

(* What moving the head over them does: they are appended. *)
LEMMA Publishes ==
  ASSUME NEW d, NEW t \in Slots, NEW h \in Slots, NEW m \in Nat, m <= Free(t, h),
         NEW last \in Nat, NEW b \in Nat, last <= b, Ordered(d, t, Hold(t, h), last, b),
         Continues(d, t, Hold(t, h), m, b)
  PROVE  /\ Ordered(d, t, Hold(t, Move(h, m)), last, b + m)
         /\ \E c \in Nat : /\ c = Cardinality(Content(d, t, Hold(t, h)))
                           /\ c + m = Cardinality(Content(d, t, Hold(t, Move(h, m))))
<1> DEFINE n == Hold(t, h)
           New == b + 1 .. b + m
<1>1. n \in Nat /\ Hold(t, Move(h, m)) = n + m
  BY Cursors, MoveHead
<1>2. Ordered(d, t, n, last, b) /\ Continues(d, t, n, m, b)
  OBVIOUS
<1> HIDE DEF n
<1>3. Ordered(d, t, n + m, last, b + m) /\ Content(d, t, n + m) = Content(d, t, n) \cup New
  BY <1>1, <1>2, Grows
<1>4. /\ \A x \in Content(d, t, n) : x \in Nat /\ x <= b
      /\ IsFiniteSet(Content(d, t, n)) /\ Cardinality(Content(d, t, n)) \in Nat
  BY <1>1, <1>2, ContentBounded
<1>5. IsFiniteSet(New) /\ Cardinality(New) = m
  <2>1. b + 1 \in Int /\ b + m \in Int
    OBVIOUS
  <2>2. /\ IsFiniteSet(New)
        /\ Cardinality(New) = IF b + 1 > b + m THEN 0 ELSE (b + m) - (b + 1) + 1
    BY <2>1, FS_Interval
  <2>3. (IF b + 1 > b + m THEN 0 ELSE (b + m) - (b + 1) + 1) = m
    OBVIOUS
  <2> QED BY <2>2, <2>3
<1>6. Content(d, t, n) \cap New = {}
  BY <1>4
<1> HIDE DEF New
<1>7. Cardinality(Content(d, t, n) \cup New) = Cardinality(Content(d, t, n)) + m
  <2>1. Cardinality(Content(d, t, n) \cap New) = 0
    BY <1>6, FS_EmptySet
  <2>2. Cardinality(Content(d, t, n) \cup New)
          = Cardinality(Content(d, t, n)) + Cardinality(New)
            - Cardinality(Content(d, t, n) \cap New)
    BY <1>4, <1>5, FS_Union
  <2>3. Cardinality(Content(d, t, n)) + m - 0 = Cardinality(Content(d, t, n)) + m
    BY <1>4
  <2> QED BY <1>5, <2>1, <2>2, <2>3
<1>8. \E c \in Nat : c = Cardinality(Content(d, t, n)) /\ c + m = Cardinality(Content(d, t, n + m))
  BY <1>3, <1>4, <1>7
<1> QED BY <1>1, <1>3, <1>8 DEF n

(* Moving the head over silence: nothing is appended. *)
LEMMA Silences ==
  ASSUME NEW d, NEW t \in Slots, NEW h \in Slots, NEW m \in Nat, m <= Free(t, h),
         NEW last \in Nat, NEW b \in Nat, Ordered(d, t, Hold(t, h), last, b),
         \A k \in Nat : k < m => Cell(d, t, Hold(t, h) + k) = 0
  PROVE  /\ Ordered(d, t, Hold(t, Move(h, m)), last, b)
         /\ Content(d, t, Hold(t, Move(h, m))) = Content(d, t, Hold(t, h))
<1>1. Hold(t, h) \in Nat /\ Hold(t, Move(h, m)) = Hold(t, h) + m
  BY Cursors, MoveHead
<1> DEFINE n == Hold(t, h)
<1>2. n \in Nat /\ Ordered(d, t, n, last, b) /\ \A k \in Nat : k < m => Cell(d, t, n + k) = 0
  BY <1>1
<1> HIDE DEF n
<1>3. Ordered(d, t, n + m, last, b) /\ Content(d, t, n + m) = Content(d, t, n)
  BY <1>2, GrowsSilent
<1> QED BY <1>1, <1>3 DEF n

(* What moving the tail does: the oldest are gone ... *)
LEMMA Skips ==
  ASSUME NEW d, NEW t \in Slots, NEW h \in Slots, NEW s \in Nat, s <= Hold(t, h),
         NEW last \in Nat, NEW b \in Nat, Ordered(d, t, Hold(t, h), last, b)
  PROVE  /\ Ordered(d, Move(t, s), Hold(Move(t, s), h), last, b)
         /\ Cardinality(Content(d, t, Hold(t, h)))
              = Cardinality(Content(d, t, s))
                + Cardinality(Content(d, Move(t, s), Hold(Move(t, s), h)))
         /\ \A x \in Content(d, t, s), y \in Content(d, Move(t, s), Hold(Move(t, s), h)) : x < y
         /\ Cardinality(Content(d, t, s)) \in Nat
         /\ \A x \in Content(d, t, s) : x \in Nat /\ x <= b /\ last < x
<1>1. /\ Hold(t, h) \in Nat /\ Hold(t, h) <= Capacity
      /\ Move(t, s) \in Slots /\ Hold(Move(t, s), h) = Hold(t, h) - s
  BY Cursors, MoveTail
<1>2. /\ Ordered(d, Move(t, s), Hold(t, h) - s, last, b)
      /\ Content(d, t, Hold(t, h)) = Content(d, t, s) \cup Content(d, Move(t, s), Hold(t, h) - s)
      /\ \A x \in Content(d, t, s), y \in Content(d, Move(t, s), Hold(t, h) - s) : x < y
  BY <1>1, Drops
<1>3. Hold(t, h) - s \in Nat
  BY <1>1
<1>4. /\ IsFiniteSet(Content(d, Move(t, s), Hold(t, h) - s))
      /\ Cardinality(Content(d, Move(t, s), Hold(t, h) - s)) \in Nat
      /\ \A y \in Content(d, Move(t, s), Hold(t, h) - s) : y \in Nat
  BY <1>2, <1>3, ContentBounded
<1>5. Ordered(d, t, s, last, b)
  <2>1. ASSUME NEW k \in Nat, k < s PROVE k < Hold(t, h)
    BY <1>1, <2>1
  <2> QED BY <2>1 DEF Ordered
<1>6. /\ IsFiniteSet(Content(d, t, s)) /\ Cardinality(Content(d, t, s)) \in Nat
      /\ \A x \in Content(d, t, s) : x \in Nat /\ x <= b /\ last < x
  BY <1>5, ContentBounded
<1>7. Content(d, t, s) \cap Content(d, Move(t, s), Hold(t, h) - s) = {}
  <2>1. ASSUME NEW x \in Content(d, t, s), x \in Content(d, Move(t, s), Hold(t, h) - s)
        PROVE  FALSE
    <3>1. x < x /\ x \in Nat
      BY <1>2, <1>6, <2>1
    <3> QED BY <3>1
  <2> QED BY <2>1
<1>8. Cardinality(Content(d, t, Hold(t, h)))
        = Cardinality(Content(d, t, s)) + Cardinality(Content(d, Move(t, s), Hold(t, h) - s))
  <2>1. Cardinality({}) = 0
    BY FS_EmptySet
  <2>2. Cardinality(Content(d, t, s) \cup Content(d, Move(t, s), Hold(t, h) - s))
          = Cardinality(Content(d, t, s)) + Cardinality(Content(d, Move(t, s), Hold(t, h) - s))
            - Cardinality(Content(d, t, s) \cap Content(d, Move(t, s), Hold(t, h) - s))
    BY <1>4, <1>6, FS_Union
  <2> QED BY <1>2, <1>4, <1>6, <1>7, <2>1, <2>2
<1> QED BY <1>1, <1>2, <1>6, <1>8

(* ... and counted, they and the rest are as many as there were. *)
LEMMA SkipsCount ==
  ASSUME NEW d, NEW t \in Slots, NEW h \in Slots, NEW s \in Nat, s <= Hold(t, h),
         NEW last \in Nat, NEW b \in Nat, Ordered(d, t, Hold(t, h), last, b)
  PROVE  \E x, y \in Nat :
            /\ x = Cardinality(Content(d, t, s))
            /\ y = Cardinality(Content(d, Move(t, s), Hold(Move(t, s), h)))
            /\ x + y = Cardinality(Content(d, t, Hold(t, h)))
<1> DEFINE u == Move(t, s)
           n == Hold(u, h)
<1>1. /\ Ordered(d, u, n, last, b) /\ Cardinality(Content(d, t, s)) \in Nat
      /\ Cardinality(Content(d, t, Hold(t, h)))
            = Cardinality(Content(d, t, s)) + Cardinality(Content(d, u, n))
  BY Skips
<1>2. n \in Nat
  <2>1. u \in Slots
    BY MoveTail
  <2> QED BY <2>1, Cursors
<1> HIDE DEF u, n
<1>3. Cardinality(Content(d, u, n)) \in Nat
  BY <1>1, <1>2, ContentBounded
<1>4. \E x, y \in Nat : /\ x = Cardinality(Content(d, t, s)) /\ y = Cardinality(Content(d, u, n))
                        /\ x + y = Cardinality(Content(d, t, Hold(t, h)))
  BY <1>1, <1>3
<1> QED BY <1>4 DEF u, n

(* After the oldest have been played, what is left comes after the last of *)
(* them.                                                                   *)
LEMMA Plays ==
  ASSUME NEW d, NEW t \in Slots, NEW h \in Slots, NEW s \in Nat, s <= Hold(t, h),
         NEW last \in Nat, NEW b \in Nat, last <= b, Ordered(d, t, Hold(t, h), last, b)
  PROVE  /\ Max(Content(d, t, s) \cup {last}) \in Nat
         /\ Max(Content(d, t, s) \cup {last}) <= b
         /\ Ordered(d, Move(t, s), Hold(Move(t, s), h), Max(Content(d, t, s) \cup {last}), b)
<1> DEFINE T == Content(d, t, s) \cup {last}
           u == Move(t, s)
           n == Hold(u, h)
<1>1. /\ Ordered(d, u, n, last, b)
      /\ \A x \in Content(d, t, s), y \in Content(d, u, n) : x < y
      /\ \A x \in Content(d, t, s) : x \in Nat /\ x <= b /\ last < x
  BY Skips
<1>2. n \in Nat
  <2>1. u \in Slots
    BY MoveTail
  <2> QED BY <2>1, Cursors
<1> HIDE DEF u, n
<1>3. T # {} /\ T \subseteq 0 .. b
  BY <1>1
<1>4. Max(T) \in T
  BY <1>3, MaxIs
<1> DEFINE l == Max(T)
<1>5. l \in Nat /\ l <= b
  BY <1>3, <1>4
<1>6. \A y \in Content(d, u, n) : l < y
  <2>1. CASE l = last
    BY <1>1, <1>2, <2>1, ContentBounded
  <2>2. CASE l \in Content(d, t, s)
    BY <1>1, <2>2
  <2> QED BY <1>4, <2>1, <2>2
<1> HIDE DEF l
<1>7. ASSUME NEW k \in Nat, k < n
      PROVE  /\ Cell(d, u, k) \in Nat /\ Cell(d, u, k) <= b
             /\ Cell(d, u, k) # 0 => l < Cell(d, u, k)
  <2>1. Cell(d, u, k) # 0 => Cell(d, u, k) \in Content(d, u, n)
    BY <1>2, <1>7, Held
  <2> QED BY <1>1, <1>6, <1>7, <2>1 DEF Ordered
<1>8. Ordered(d, u, n, l, b)
  BY <1>1, <1>7 DEF Ordered
<1> QED BY <1>5, <1>8 DEF l, u, n

(* The samples a reader copies are the content of those cells. *)
LEMMA CopiedIs ==
  ASSUME NEW t, NEW s \in Nat
  PROVE  /\ RealsOf(Copied(t, s)) = Content(data, t, s)
         /\ DOMAIN Copied(t, s) = 1 .. s
         /\ \A k \in Nat : k < s => Copied(t, s)[k + 1] = Cell(data, t, k)
<1>1. /\ DOMAIN Copied(t, s) = 1 .. s
      /\ \A i \in 1 .. s : Copied(t, s)[i] = Cell(data, t, i - 1)
  BY DEF Copied, Cell, After
<1>2. ASSUME NEW k \in Nat, k < s PROVE Copied(t, s)[k + 1] = Cell(data, t, k)
  <2>1. k + 1 \in 1 .. s /\ (k + 1) - 1 = k
    BY <1>2
  <2> QED BY <1>1, <2>1
<1>3. ASSUME NEW x PROVE x \in RealsOf(Copied(t, s)) <=> x \in Content(data, t, s)
  <2>1. x \in RealsOf(Copied(t, s)) <=> x # 0 /\ \E i \in 1 .. s : x = Copied(t, s)[i]
    BY <1>1 DEF RealsOf, Range
  <2>2. ASSUME NEW i \in 1 .. s, x = Copied(t, s)[i]
        PROVE  \E k \in Nat : k < s /\ x = Cell(data, t, k)
    <3>1. i - 1 \in Nat /\ i - 1 < s
      OBVIOUS
    <3> QED BY <1>1, <2>2, <3>1
  <2>3. ASSUME NEW k \in Nat, k < s, x = Cell(data, t, k)
        PROVE  \E i \in 1 .. s : x = Copied(t, s)[i]
    <3>1. k + 1 \in 1 .. s
      BY <2>3
    <3> QED BY <1>2, <2>3, <3>1
  <2> QED BY <2>1, <2>2, <2>3, Held
<1> QED BY <1>1, <1>2, <1>3

(* The samples the writer has published. *)
Published == sent - Len(frame) - fresh

(* The parts of the inductive invariant.  The types: *)
RegTypes ==
  /\ data \in [Slots -> Nat] /\ head \in Slots /\ tail \in Slots
  /\ mutex \in BOOLEAN /\ played \in BOOLEAN
  /\ compensation \in {-1, 0, 1}
  /\ producer \in {"idle", "write", "publish", "full", "rest", "publishRest", "look", "trim", "tune"}
  /\ consumer \in {"idle", "copy", "store", "mark"}
  /\ frame \in Seq(Nat) /\ fresh \in Nat /\ sent \in Nat /\ dropped \in Nat
  /\ heard \in [last : Nat, number : Nat]
  /\ seen \in [canRead : Nat, played : BOOLEAN]

(* what waits in the ring is in order, after what was played and before    *)
(* what is still to be published;                                          *)
RingOrder ==
  /\ Published \in Nat /\ heard.last <= Published
  /\ Ordered(data, tail, CanRead, heard.last, Published)

(* the samples the writer has still to write are the last ones that were   *)
(* sent;                                                                   *)
FrameIsNext == \A i \in 1 .. Len(frame) : frame[i] = sent - Len(frame) + i

(* those it has copied stand right behind the head, where the reader does  *)
(* not look;                                                               *)
FreshIsNext == fresh <= CanWrite /\ Continues(data, tail, CanRead, fresh, Published)

(* every sample sent is in one place; *)
Counted ==
  sent = heard.number + dropped + Cardinality(Content(data, tail, CanRead)) + fresh + Len(frame)

(* a reader between its two cursors holds the mutex, the tail is still     *)
(* where it has read it, and what it has copied is still in the ring;      *)
ReaderHolds ==
  /\ consumer \in {"copy", "store"} =>
       mutex /\ from = tail /\ found \in Nat /\ found <= CanRead
  /\ consumer \in {"idle", "mark"} => ~ mutex
  /\ consumer = "store" =>
       DOMAIN out = 1 .. found /\ \A k \in Nat : k < found => out[k + 1] = Cell(data, tail, k)

(* and where the writer is says what it has still to write. *)
WriterAt ==
  /\ producer \in {"idle", "look", "trim", "tune", "publishRest"} => frame = None
  /\ producer \in {"write", "publish", "full"} => Len(frame) <= Capacity
  /\ producer = "rest" => Len(frame) <= CanWrite
  /\ producer \notin {"publish", "publishRest"} => fresh = 0

RingPart == RingOrder /\ FrameIsNext /\ FreshIsNext /\ Counted
RegInv == RegTypes /\ RingPart /\ ReaderHolds /\ WriterAt /\ LatencyBounded

(* What can be read and written, in the terms of the ring. *)
LEMMA CanIs ==
  /\ CanRead = Hold(tail, head) /\ CanWrite = Free(tail, head)
  /\ CanRead' = Hold(tail', head') /\ CanWrite' = Free(tail', head')
BY DEF CanRead, CanWrite, Hold, Free, Ahead, Room

(* The two values of MaxBuffered: after the first pull, and before it. *)
Long  == ((TargetBuffering * 11) \div 10) + ((60 * SampleRate) \div 1000)
Short == TargetBuffering + ((10 * SampleRate) \div 1000)

(* The longer one is the bound. *)
LEMMA Limits == Long \in Nat /\ Short \in Nat /\ Short <= Long
<1>1. TargetBuffering \in Nat /\ SampleRate \in Nat
  BY RegulatorAssumption
<1>2. \A n \in Nat : (n * 11) \div 10 \in Nat /\ n <= (n * 11) \div 10
  OBVIOUS
<1>3. \A n \in Nat : /\ (60 * n) \div 1000 \in Nat /\ (10 * n) \div 1000 \in Nat
                     /\ (10 * n) \div 1000 <= (60 * n) \div 1000
  OBVIOUS
<1>4. /\ (TargetBuffering * 11) \div 10 \in Nat
      /\ TargetBuffering <= (TargetBuffering * 11) \div 10
  BY <1>1, <1>2
<1>5. /\ (60 * SampleRate) \div 1000 \in Nat /\ (10 * SampleRate) \div 1000 \in Nat
      /\ (10 * SampleRate) \div 1000 <= (60 * SampleRate) \div 1000
  BY <1>1, <1>3
<1> QED BY <1>1, <1>4, <1>5 DEF Long, Short

(* LatencyBounded in the terms of the longer one. *)
LEMMA Limit ==
  /\ LatencyBounded <=> (producer \in {"tune", "idle"} => CanRead <= Long)
  /\ LatencyBounded' <=> (producer' \in {"tune", "idle"} => CanRead' <= Long)
  /\ played => MaxBuffered(played) = Long
  /\ ~ played => MaxBuffered(played) = Short
  /\ seen.played => MaxBuffered(seen.played) = Long
  /\ ~ seen.played => MaxBuffered(seen.played) = Short
<1>1. LatencyBounded <=> (producer \in {"tune", "idle"} => CanRead <= Long)
  BY DEF LatencyBounded, MaxBuffered, Long
<1>2. LatencyBounded' <=> (producer' \in {"tune", "idle"} => CanRead' <= Long)
  BY DEF LatencyBounded, MaxBuffered, Long
<1>3. (played => MaxBuffered(played) = Long) /\ (~ played => MaxBuffered(played) = Short)
  BY DEF MaxBuffered, Long, Short
<1>4. /\ seen.played => MaxBuffered(seen.played) = Long
      /\ ~ seen.played => MaxBuffered(seen.played) = Short
  BY DEF MaxBuffered, Long, Short
<1> QED BY <1>1, <1>2, <1>3, <1>4

(* The part about the ring holds on when nothing it speaks of changes. *)
LEMMA RingStays ==
  ASSUME RingPart, UNCHANGED <<data, head, tail, frame, fresh, sent, heard, dropped>>
  PROVE  RingPart'
<1>1. CanRead' = CanRead /\ CanWrite' = CanWrite
  BY DEF CanRead, CanWrite
<1>2. Published' = Published
  BY DEF Published
<1>3. RingOrder' /\ FrameIsNext'
  BY <1>1, <1>2 DEF RingPart, RingOrder, FrameIsNext
<1>4. FreshIsNext'
  BY <1>1, <1>2 DEF RingPart, FreshIsNext
<1>5. Counted'
  BY <1>1 DEF RingPart, Counted
<1> QED BY <1>3, <1>4, <1>5 DEF RingPart

(* The part about the reader holds on while only what comes behind its     *)
(* cells changes ...                                                       *)
LEMMA ReaderStays ==
  ASSUME ReaderHolds, tail \in Slots, head \in Slots, head' \in Slots,
         UNCHANGED <<tail, mutex, consumer, from, found, out>>, CanRead <= CanRead',
         \A k \in Nat : k < CanRead => Cell(data', tail, k) = Cell(data, tail, k)
  PROVE  ReaderHolds'
<1>1. CanRead \in Nat /\ CanRead' \in Nat
  BY CanIs, Cursors
<1>2. ASSUME consumer \in {"copy", "store"}
      PROVE  mutex /\ from = tail /\ found \in Nat /\ found <= CanRead'
  BY <1>1, <1>2 DEF ReaderHolds
<1>3. ASSUME consumer = "store"
      PROVE  /\ DOMAIN out = 1 .. found
             /\ \A k \in Nat : k < found => out[k + 1] = Cell(data', tail, k)
  <2>1. found \in Nat /\ found <= CanRead
    BY <1>3 DEF ReaderHolds
  <2>2. ASSUME NEW k \in Nat, k < found PROVE out[k + 1] = Cell(data', tail, k)
    <3>1. k < CanRead
      BY <1>1, <2>1, <2>2
    <3> QED BY <1>3, <2>2, <3>1 DEF ReaderHolds
  <2> QED BY <1>3, <2>2 DEF ReaderHolds
<1> QED BY <1>2, <1>3 DEF ReaderHolds

(* ... and while it is not between its cursors, whatever changes. *)
LEMMA ReaderAway ==
  ASSUME ReaderHolds, RegTypes, ~ mutex, UNCHANGED <<mutex, consumer>>
  PROVE  ReaderHolds'
<1>1. consumer \in {"idle", "mark"}
  BY DEF ReaderHolds, RegTypes
<1> QED BY <1>1 DEF ReaderHolds

(* A greater bound is a bound. *)
LEMMA Later ==
  ASSUME NEW d, NEW t, NEW n, NEW last, NEW b \in Nat, NEW c \in Nat, b <= c, Ordered(d, t, n, last, b)
  PROVE  Ordered(d, t, n, last, c)
<1>1. ASSUME NEW k \in Nat, k < n
      PROVE  /\ Cell(d, t, k) \in Nat /\ Cell(d, t, k) <= c
             /\ Cell(d, t, k) # 0 => last < Cell(d, t, k)
  BY <1>1 DEF Ordered
<1> QED BY <1>1 DEF Ordered

(* The two parts a frame is cut into. *)
LEMMA FrameParts ==
  ASSUME NEW q \in Seq(Nat), NEW n \in Nat, n <= Len(q)
  PROVE  /\ SubSeq(q, 1, n) \in Seq(Nat) /\ Len(SubSeq(q, 1, n)) = n
         /\ \A k \in Nat : k < n => SubSeq(q, 1, n)[k + 1] = q[k + 1]
         /\ SubSeq(q, n + 1, Len(q)) \in Seq(Nat) /\ Len(SubSeq(q, n + 1, Len(q))) = Len(q) - n
         /\ \A i \in 1 .. Len(q) - n : SubSeq(q, n + 1, Len(q))[i] = q[n + i]
<1>1. SubSeq(q, 1, n) \in Seq(Nat) /\ Len(SubSeq(q, 1, n)) = n
  OBVIOUS
<1>2. \A i \in 1 .. n : SubSeq(q, 1, n)[i] = q[i]
  OBVIOUS
<1>3. ASSUME NEW k \in Nat, k < n PROVE SubSeq(q, 1, n)[k + 1] = q[k + 1]
  <2>1. k + 1 \in 1 .. n
    BY <1>3
  <2> QED BY <1>2, <2>1
<1>4. SubSeq(q, n + 1, Len(q)) \in Seq(Nat) /\ Len(SubSeq(q, n + 1, Len(q))) = Len(q) - n
  OBVIOUS
<1>5. \A i \in 1 .. Len(q) - n : SubSeq(q, n + 1, Len(q))[i] = q[n + i]
  OBVIOUS
<1> QED BY <1>1, <1>3, <1>4, <1>5

(* Smaller is the lesser of two numbers. *)
LEMMA SmallerIs ==
  ASSUME NEW a \in Nat, NEW b \in Nat
  PROVE  /\ Smaller(a, b) \in Nat /\ Smaller(a, b) <= a /\ Smaller(a, b) <= b
         /\ Smaller(a, b) = a \/ Smaller(a, b) = b
BY DEF Smaller

(* The invariant holds at the start. *)
LEMMA RegulatorStarts == RegulatorInit => RegInv
<1> SUFFICES ASSUME RegulatorInit PROVE RegInv
  OBVIOUS
<1>1. 0 \in Slots
  BY RingSize, Slot
<1>2. data \in [Slots -> Nat] /\ frame = <<>> /\ frame \in Seq(Nat)
  BY DEF RegulatorInit, None
<1>3. RegTypes
  BY <1>1, <1>2 DEF RegulatorInit, RegTypes
<1>4. CanRead = 0 /\ CanWrite \in Nat
  <2>1. CanRead = Ahead(Alloc, 0, 0) /\ CanWrite = Free(0, 0)
    BY CanIs DEF RegulatorInit, Hold
  <2>2. Ahead(Alloc, 0, 0) = 0
    BY RingSize, AheadIs
  <2> QED BY <1>1, <2>1, <2>2, Cursors
<1>5. Published = 0 /\ Len(frame) = 0
  <2>1. Len(frame) = 0
    BY <1>2
  <2> QED BY <2>1 DEF RegulatorInit, Published
<1>6. RingOrder
  BY <1>4, <1>5 DEF RegulatorInit, RingOrder, Ordered
<1>7. FrameIsNext /\ FreshIsNext
  BY <1>4, <1>5 DEF RegulatorInit, FrameIsNext, FreshIsNext, Continues
<1>8. Counted
  <2>1. Content(data, tail, 0) = {}
    BY DEF Content
  <2>2. Cardinality({}) = 0
    BY FS_EmptySet
  <2>3. sent = 0 /\ heard.number = 0 /\ dropped = 0 /\ fresh = 0
    BY DEF RegulatorInit
  <2>4. Cardinality(Content(data, tail, CanRead)) = 0
    BY <1>4, <2>1, <2>2
  <2>5. 0 = 0 + 0 + 0 + 0 + 0
    OBVIOUS
  <2> QED BY <1>5, <2>3, <2>4, <2>5 DEF Counted
<1>9. ReaderHolds /\ WriterAt
  BY DEF RegulatorInit, ReaderHolds, WriterAt, None
<1>10. LatencyBounded
  BY <1>4, Limit, Limits
<1> QED BY <1>3, <1>6, <1>7, <1>8, <1>9, <1>10 DEF RegInv, RingPart

(* What does not touch the ring. *)
LEMMA SinkSteps == ASSUME RegInv, SinkOpens \/ SinkCloses PROVE RegInv'
<1>1. UNCHANGED <<ring, mutex, played, received, tuning, pushing, pulling, history>>
  BY DEF SinkOpens, SinkCloses
<1>2. RingPart'
  BY <1>1, RingStays DEF RegInv, ring, pushing, history
<1>3. RegTypes'
  BY <1>1 DEF RegInv, RegTypes, ring, tuning, pushing, pulling, history
<1>4. CanRead' = CanRead /\ CanWrite' = CanWrite
  BY <1>1 DEF CanRead, CanWrite, ring
<1>5. ReaderHolds'
  BY <1>1, <1>4 DEF RegInv, ReaderHolds, ring, pulling
<1>6. WriterAt'
  BY <1>1, <1>4 DEF RegInv, WriterAt, pushing
<1>7. LatencyBounded'
  BY <1>1, <1>4, Limit DEF RegInv, pushing
<1> QED BY <1>2, <1>3, <1>5, <1>6, <1>7 DEF RegInv

(* What the writer has seen is a count of samples that were waiting. *)
LEMMA LookStep == ASSUME RegInv, LookAtBuffer PROVE RegInv'
<1>1. /\ UNCHANGED <<ring, mutex, played, received, tuning, player, frame, fresh, written, pulling, history>>
      /\ producer = "look" /\ seen' = [canRead |-> CanRead, played |-> played]
      /\ producer' = IF CanRead > MaxBuffered(played) THEN "trim" ELSE "tune"
  BY DEF LookAtBuffer
<1>2. RingPart'
  BY <1>1, RingStays DEF RegInv, ring, history
<1>3. CanRead' = CanRead /\ CanWrite' = CanWrite
  BY <1>1 DEF CanRead, CanWrite, ring
<1>4. CanRead \in Nat
  BY CanIs, Cursors DEF RegInv, RegTypes
<1>5. producer' \in {"trim", "tune"}
  BY <1>1
<1>6. RegTypes'
  <2>1. seen' \in [canRead : Nat, played : BOOLEAN]
    BY <1>1, <1>4 DEF RegInv, RegTypes
  <2> QED BY <1>1, <1>5, <2>1 DEF RegInv, RegTypes, ring, tuning, pulling, history
<1>7. ReaderHolds'
  BY <1>1, <1>3 DEF RegInv, ReaderHolds, ring, pulling
<1>8. WriterAt'
  BY <1>1, <1>5 DEF RegInv, WriterAt
<1>9. LatencyBounded'
  <2> SUFFICES ASSUME producer' = "tune" PROVE CanRead <= Long
    BY <1>3, <1>5, Limit
  <2>1. ~ (CanRead > MaxBuffered(played))
    BY <1>1
  <2>2. ~ (CanRead > IF played THEN Long ELSE Short)
    BY <2>1 DEF MaxBuffered, Long, Short
  <2> QED BY <1>4, <2>2, Limits
<1> QED BY <1>2, <1>6, <1>7, <1>8, <1>9 DEF RegInv

(* Without waiting samples to take out, the buffer is within its bound. *)
LEMMA TuneStep == ASSUME RegInv, Tune PROVE RegInv'
<1>1. /\ UNCHANGED <<ring, mutex, played, player, frame, fresh, written, seen, pulling, history>>
      /\ producer = "tune" /\ producer' = "idle"
  BY DEF Tune
<1>2. RingPart'
  BY <1>1, RingStays DEF RegInv, ring, history
<1>3. CanRead' = CanRead /\ CanWrite' = CanWrite
  BY <1>1 DEF CanRead, CanWrite, ring
<1>4. compensation' \in {-1, 0, 1}
  BY DEF RegInv, RegTypes, Tune, tuning
<1>5. RegTypes'
  BY <1>1, <1>4 DEF RegInv, RegTypes, ring, pulling, history
<1>6. ReaderHolds'
  BY <1>1, <1>3 DEF RegInv, ReaderHolds, ring, pulling
<1>7. WriterAt'
  BY <1>1 DEF RegInv, WriterAt
<1>8. LatencyBounded'
  BY <1>1, <1>3, Limit DEF RegInv
<1> QED BY <1>2, <1>5, <1>6, <1>7, <1>8 DEF RegInv

(* The reader's steps before it moves its cursor, and after. *)
LEMMA PullSteps ==
  ASSUME RegInv, (\E n \in PullSizes : PullBegins(n)) \/ PullCopies \/ PullEnds
  PROVE  RegInv'
<1>1. /\ UNCHANGED <<ring, received, tuning, player, pushing, history>>
      /\ played' \in BOOLEAN /\ mutex' \in BOOLEAN
      /\ consumer' \in {"idle", "copy", "store", "mark"}
  <2>1. CASE \E n \in PullSizes : PullBegins(n)
    BY <2>1 DEF PullBegins, RegInv, RegTypes
  <2>2. CASE PullCopies \/ PullEnds
    BY <2>2 DEF PullCopies, PullEnds, RegInv, RegTypes
  <2> QED BY <2>1, <2>2
<1>2. RingPart'
  BY <1>1, RingStays DEF RegInv, ring, pushing, history
<1>3. CanRead' = CanRead /\ CanWrite' = CanWrite
  BY <1>1 DEF CanRead, CanWrite, ring
<1>4. RegTypes'
  BY <1>1 DEF RegInv, RegTypes, ring, tuning, pushing, history
<1>5. WriterAt'
  BY <1>1, <1>3 DEF RegInv, WriterAt, pushing
<1>6. LatencyBounded'
  BY <1>1, <1>3, Limit DEF RegInv, pushing
<1>7. CanRead \in Nat
  BY CanIs, Cursors DEF RegInv, RegTypes
<1>8. ReaderHolds'
  <2>1. CASE \E n \in PullSizes : PullBegins(n)
    <3>1. PICK n \in PullSizes : PullBegins(n)
      BY <2>1
    <3>2. n \in Nat
      BY RegulatorAssumption
    <3>3. Smaller(n, CanRead) \in Nat /\ Smaller(n, CanRead) <= CanRead
      BY <1>7, <3>2, SmallerIs
    <3>4. /\ mutex' = TRUE /\ from' = tail /\ tail' = tail /\ found' = Smaller(n, CanRead)
          /\ consumer' = "copy"
      BY <3>1, <1>1 DEF PullBegins, ring
    <3> QED BY <1>3, <3>3, <3>4 DEF ReaderHolds
  <2>2. CASE PullCopies
    <3>1. /\ consumer = "copy" /\ consumer' = "store" /\ out' = Copied(from, found)
          /\ UNCHANGED <<data, head, tail, mutex, from, found>>
      BY <2>2 DEF PullCopies, ring
    <3>2. mutex /\ from = tail /\ found \in Nat /\ found <= CanRead
      BY <3>1 DEF RegInv, ReaderHolds
    <3>3. /\ DOMAIN Copied(from, found) = 1 .. found
          /\ \A k \in Nat : k < found => Copied(from, found)[k + 1] = Cell(data, from, k)
      BY <3>2, CopiedIs
    <3> QED BY <1>3, <3>1, <3>2, <3>3 DEF ReaderHolds
  <2>3. CASE PullEnds
    <3>1. consumer = "mark" /\ consumer' = "idle" /\ mutex' = mutex
      BY <2>3 DEF PullEnds
    <3> QED BY <3>1 DEF RegInv, ReaderHolds
  <2> QED BY <2>1, <2>2, <2>3
<1> QED BY <1>2, <1>4, <1>5, <1>6, <1>8 DEF RegInv

(* The writer moves its cursor over what it has copied. *)
LEMMA PublishStep == ASSUME RegInv, WritePublishes PROVE RegInv'
<1>0. /\ data \in [Slots -> Nat] /\ tail \in Slots /\ head \in Slots /\ fresh \in Nat
      /\ sent \in Nat /\ frame \in Seq(Nat) /\ Len(frame) \in Nat /\ heard.last \in Nat
      /\ heard.number \in Nat /\ dropped \in Nat
      /\ Published \in Nat /\ heard.last <= Published /\ fresh <= Free(tail, head)
      /\ Ordered(data, tail, Hold(tail, head), heard.last, Published)
      /\ Continues(data, tail, Hold(tail, head), fresh, Published)
  BY CanIs DEF RegInv, RegTypes, RingPart, RingOrder, FreshIsNext
<1>1. /\ UNCHANGED <<data, tail, mutex, played, received, tuning, player, frame, written, seen, pulling, history>>
      /\ producer \in {"publish", "publishRest"}
      /\ head' = Move(head, fresh) /\ fresh' = 0
      /\ producer' = IF producer = "publish" /\ frame # None THEN "full" ELSE "look"
  BY DEF WritePublishes, Move, After
<1>2. /\ head' \in Slots /\ CanRead' = CanRead + fresh /\ CanWrite' = CanWrite - fresh
  BY <1>0, <1>1, CanIs, MoveHead
<1>3. CanRead \in Nat /\ CanWrite \in Nat /\ CanRead' \in Nat /\ CanWrite' \in Nat
  BY <1>0, <1>1, <1>2, CanIs, Cursors
<1>4. /\ Ordered(data, tail, CanRead', heard.last, Published + fresh)
      /\ \E c \in Nat : /\ c = Cardinality(Content(data, tail, CanRead))
                        /\ c + fresh = Cardinality(Content(data, tail, CanRead'))
  <2>1. PICK last \in Nat, b \in Nat :
           /\ last = heard.last /\ b = Published /\ last <= b
           /\ Ordered(data, tail, Hold(tail, head), last, b)
           /\ Continues(data, tail, Hold(tail, head), fresh, b)
    BY <1>0
  <2>2. tail \in Slots /\ head \in Slots /\ fresh \in Nat /\ fresh <= Free(tail, head)
    BY <1>0
  <2>3. /\ Ordered(data, tail, Hold(tail, Move(head, fresh)), last, b + fresh)
        /\ \E c \in Nat : /\ c = Cardinality(Content(data, tail, Hold(tail, head)))
                          /\ c + fresh = Cardinality(Content(data, tail, Hold(tail, Move(head, fresh))))
    BY <2>1, <2>2, Publishes
  <2>4. CanRead = Hold(tail, head) /\ CanRead' = Hold(tail, Move(head, fresh))
    BY <1>1, CanIs
  <2> QED BY <2>1, <2>3, <2>4
<1>5. Published' = Published + fresh /\ sent' = sent /\ frame' = frame /\ heard' = heard /\ dropped' = dropped
  <2>1. sent' = sent /\ frame' = frame /\ heard' = heard /\ dropped' = dropped
    BY <1>1 DEF history
  <2>2. Published' = sent - Len(frame) - 0 /\ Published = sent - Len(frame) - fresh
    BY <1>1, <2>1 DEF Published
  <2> QED BY <1>0, <2>1, <2>2
<1>6. RingOrder'
  <2>1. Published + fresh \in Nat /\ heard.last <= Published + fresh
    BY <1>0
  <2> QED BY <1>1, <1>4, <1>5, <2>1 DEF RingOrder
<1>7. FrameIsNext'
  BY <1>5 DEF RegInv, RingPart, FrameIsNext
<1>8. FreshIsNext'
  BY <1>1, <1>3 DEF FreshIsNext, Continues
<1>9. Counted'
  <2>1. sent = heard.number + dropped + Cardinality(Content(data, tail, CanRead)) + fresh + Len(frame)
    BY DEF RegInv, RingPart, Counted
  <2>2. PICK c \in Nat : /\ c = Cardinality(Content(data, tail, CanRead))
                         /\ c + fresh = Cardinality(Content(data, tail, CanRead'))
    BY <1>4
  <2>3. sent = heard.number + dropped + (c + fresh) + 0 + Len(frame)
    BY <1>0, <2>1, <2>2
  <2> QED BY <1>1, <1>5, <2>2, <2>3 DEF Counted
<1>10. producer' \in {"full", "look"}
  BY <1>1
<1>11. RegTypes'
  BY <1>0, <1>1, <1>2, <1>5, <1>10 DEF RegInv, RegTypes, tuning, pulling, history
<1>12. ReaderHolds'
  <2>1. CanRead <= CanRead'
    BY <1>0, <1>2, <1>3
  <2> QED BY <1>0, <1>1, <1>2, <2>1, ReaderStays DEF RegInv, pulling
<1>13. WriterAt'
  <2>1. producer' = "look" => frame = None
    BY <1>1 DEF RegInv, WriterAt
  <2>2. producer' = "full" => Len(frame) <= Capacity
    BY <1>1 DEF RegInv, WriterAt
  <2> QED BY <1>1, <1>5, <1>10, <2>1, <2>2 DEF WriterAt
<1>14. LatencyBounded'
  BY <1>10, Limit
<1> QED BY <1>6, <1>7, <1>8, <1>9, <1>11, <1>12, <1>13, <1>14 DEF RegInv, RingPart

(* What the steps of the writer start from. *)
LEMMA TypeFacts ==
  ASSUME RegInv
  PROVE  /\ data \in [Slots -> Nat] /\ tail \in Slots /\ head \in Slots
         /\ fresh \in Nat /\ sent \in Nat /\ frame \in Seq(Nat) /\ Len(frame) \in Nat
         /\ heard.last \in Nat /\ heard.number \in Nat /\ dropped \in Nat
BY DEF RegInv, RegTypes

(* They use the counts one at a time, so that the provers see little else. *)
LEMMA CanFacts ==
  ASSUME RegInv
  PROVE  /\ CanRead \in Nat /\ CanWrite \in Nat /\ Capacity \in Nat
         /\ CanWrite = Capacity - CanRead
<1>1. CanRead = Hold(tail, head) /\ CanWrite = Free(tail, head)
  BY CanIs
<1>2. tail \in Slots /\ head \in Slots
  BY TypeFacts
<1> QED BY <1>1, <1>2, Cursors, RingSize

(* The samples published, *)
LEMMA SentFacts ==
  ASSUME RegInv
  PROVE  Published \in Nat /\ heard.last <= Published /\ Published = sent - Len(frame) - fresh
BY DEF RegInv, RingPart, RingOrder, Published

(* their order in the ring, *)
LEMMA OrderFacts ==
  ASSUME RegInv
  PROVE  Ordered(data, tail, Hold(tail, head), heard.last, Published)
BY CanIs DEF RegInv, RingPart, RingOrder

(* and their number. *)
LEMMA CountFacts ==
  ASSUME RegInv
  PROVE  \E c \in Nat : /\ c = Cardinality(Content(data, tail, Hold(tail, head)))
                        /\ sent = heard.number + dropped + c + fresh + Len(frame)
<1>1. PICK n \in Nat, last \in Nat, b \in Nat :
         n = Hold(tail, head) /\ last = heard.last /\ b = Published /\ Ordered(data, tail, n, last, b)
  BY OrderFacts, SentFacts, TypeFacts, Cursors
<1>2. Cardinality(Content(data, tail, n)) \in Nat
  BY <1>1, ContentBounded
<1>3. sent = heard.number + dropped + Cardinality(Content(data, tail, Hold(tail, head)))
             + fresh + Len(frame)
  BY CanIs DEF RegInv, RingPart, Counted
<1> QED BY <1>1, <1>2, <1>3

(* The writer copies as much of its frame as there is room for. *)
LEMMA CopiesStep == ASSUME RegInv, WriteCopies PROVE RegInv'
<1>0. /\ data \in [Slots -> Nat] /\ tail \in Slots /\ head \in Slots /\ frame \in Seq(Nat)
  BY TypeFacts
<1>a. CanRead \in Nat /\ CanWrite \in Nat /\ Len(frame) \in Nat /\ sent \in Nat
  BY CanFacts, TypeFacts
<1>1. PICK n \in Nat : /\ n = Smaller(Len(frame), CanWrite)
                       /\ n <= Len(frame) /\ n <= CanWrite /\ (n = Len(frame) \/ n = CanWrite)
  <2>1. /\ Smaller(Len(frame), CanWrite) \in Nat
        /\ Smaller(Len(frame), CanWrite) <= Len(frame)
        /\ Smaller(Len(frame), CanWrite) <= CanWrite
        /\ Smaller(Len(frame), CanWrite) = Len(frame) \/ Smaller(Len(frame), CanWrite) = CanWrite
    BY <1>a, SmallerIs
  <2> QED BY <2>1
<1> DEFINE q == SubSeq(frame, 1, n)
<1>2. /\ UNCHANGED <<head, tail, mutex, played, received, tuning, player, seen, pulling, history>>
      /\ producer \in {"write", "rest"}
      /\ data' = FilledIn(data, head, q)
      /\ frame' = SubSeq(frame, n + 1, Len(frame)) /\ fresh' = n
      /\ producer' = IF producer = "write" THEN "publish" ELSE "publishRest"
  BY <1>1 DEF WriteCopies, Filled, FilledIn, Hold, Ahead
<1>b. n <= Len(frame) /\ n <= CanWrite
  BY <1>1
<1>3. /\ q \in Seq(Nat) /\ Len(q) = n
      /\ \A k \in Nat : k < n => q[k + 1] = frame[k + 1]
      /\ SubSeq(frame, n + 1, Len(frame)) \in Seq(Nat)
      /\ Len(SubSeq(frame, n + 1, Len(frame))) = Len(frame) - n
      /\ \A i \in 1 .. Len(frame) - n : SubSeq(frame, n + 1, Len(frame))[i] = frame[n + i]
  BY <1>0, <1>b, FrameParts
<1>c. frame' \in Seq(Nat) /\ Len(frame') = Len(frame) - n
  BY <1>2, <1>3
<1> HIDE DEF q
<1>4. fresh = 0
  BY <1>2 DEF RegInv, WriterAt
<1>5. CanRead' = CanRead /\ CanWrite' = CanWrite /\ CanRead = Hold(tail, head)
  BY <1>2, CanIs DEF CanRead, CanWrite
<1>6. Published' = Published /\ Published = sent - Len(frame) /\ sent' = sent
  <2>1. sent' = sent
    BY <1>2 DEF history
  <2>2. Published' = sent - (Len(frame) - n) - n
    BY <1>2, <1>c, <2>1 DEF Published
  <2>3. Published = sent - Len(frame) - 0
    BY <1>4, SentFacts
  <2> QED BY <1>a, <2>1, <2>2, <2>3
<1>7. /\ data' \in [Slots -> Nat]
      /\ Ordered(data', tail, Hold(tail, head), heard.last, Published)
      /\ Content(data', tail, Hold(tail, head)) = Content(data, tail, Hold(tail, head))
      /\ \A k \in Nat : k < n => Cell(data', tail, Hold(tail, head) + k) = q[k + 1]
      /\ \A k \in Nat : k < Hold(tail, head) => Cell(data', tail, k) = Cell(data, tail, k)
  <2>1. Len(q) <= Free(tail, head)
    BY <1>b, <1>3, CanIs
  <2>2. Ordered(data, tail, Hold(tail, head), heard.last, Published)
    BY OrderFacts
  <2>3. q \in Seq(Nat)
    BY <1>3
  <2>4. /\ FilledIn(data, head, q) \in [Slots -> Nat]
        /\ Ordered(FilledIn(data, head, q), tail, Hold(tail, head), heard.last, Published)
        /\ Content(FilledIn(data, head, q), tail, Hold(tail, head)) = Content(data, tail, Hold(tail, head))
        /\ \A k \in Nat : k < Len(q) => Cell(FilledIn(data, head, q), tail, Hold(tail, head) + k) = q[k + 1]
        /\ \A k \in Nat : k < Hold(tail, head) => Cell(FilledIn(data, head, q), tail, k) = Cell(data, tail, k)
    BY <1>0, <2>1, <2>2, <2>3, Writes
  <2> QED BY <1>2, <1>3, <2>4
<1>8. \A i \in 1 .. Len(frame) : frame[i] = sent - Len(frame) + i
  BY DEF RegInv, RingPart, FrameIsNext
<1>9. RingOrder'
  <2>1. heard' = heard
    BY <1>2 DEF history
  <2>2. tail' = tail
    BY <1>2
  <2> QED BY <1>5, <1>6, <1>7, <2>1, <2>2, SentFacts DEF RingOrder
<1>10. FrameIsNext'
  <2>1. ASSUME NEW i \in 1 .. Len(frame') PROVE frame'[i] = sent' - Len(frame') + i
    <3>1. i \in 1 .. Len(frame) - n
      BY <1>c
    <3>2. i \in Nat /\ n + i \in 1 .. Len(frame)
      BY <1>a, <3>1
    <3>3. frame'[i] = frame[n + i]
      BY <1>2, <1>3, <3>1
    <3>4. frame[n + i] = sent - Len(frame) + (n + i)
      BY <1>8, <3>2
    <3>5. sent - Len(frame) + (n + i) = sent - (Len(frame) - n) + i
      BY <1>a, <3>2
    <3> QED BY <1>c, <1>6, <3>3, <3>4, <3>5
  <2> QED BY <2>1 DEF FrameIsNext
<1>11. FreshIsNext'
  <2>1. ASSUME NEW k \in Nat, k < n
        PROVE  Cell(data', tail, Hold(tail, head) + k) = Published + k + 1
    <3>1. k + 1 \in 1 .. Len(frame)
      BY <1>a, <1>b, <2>1
    <3>2. frame[k + 1] = sent - Len(frame) + (k + 1)
      BY <1>8, <3>1
    <3>3. Cell(data', tail, Hold(tail, head) + k) = frame[k + 1]
      BY <1>3, <1>7, <2>1
    <3>4. sent - Len(frame) + (k + 1) = (sent - Len(frame)) + k + 1
      BY <1>a
    <3> QED BY <1>6, <3>2, <3>3, <3>4
  <2>2. Continues(data', tail, Hold(tail, head), n, Published)
    BY <2>1 DEF Continues
  <2>3. fresh' = n /\ tail' = tail
    BY <1>2
  <2> QED BY <1>b, <1>5, <1>6, <2>2, <2>3 DEF FreshIsNext
<1>12. Counted'
  <2>1. PICK c \in Nat : /\ c = Cardinality(Content(data, tail, Hold(tail, head)))
                         /\ sent = heard.number + dropped + c + fresh + Len(frame)
    BY CountFacts
  <2>2. Cardinality(Content(data', tail', CanRead')) = c /\ fresh' = n
    BY <1>2, <1>5, <1>7, <2>1
  <2>3. heard' = heard /\ dropped' = dropped
    BY <1>2 DEF history
  <2>4. heard.number \in Nat /\ dropped \in Nat
    BY TypeFacts
  <2>5. sent = heard.number + dropped + c + n + (Len(frame) - n)
    BY <1>a, <1>4, <2>1, <2>4
  <2> QED BY <1>c, <1>6, <2>2, <2>3, <2>5 DEF Counted
<1>13. producer' \in {"publish", "publishRest"}
  BY <1>2
<1>14. RegTypes'
  BY <1>0, <1>1, <1>2, <1>c, <1>7, <1>13 DEF RegInv, RegTypes, tuning, pulling, history
<1>15. ReaderHolds'
  <2>1. CanRead <= CanRead'
    BY <1>a, <1>5
  <2>2. \A k \in Nat : k < CanRead => Cell(data', tail, k) = Cell(data, tail, k)
    BY <1>5, <1>7
  <2>3. UNCHANGED <<head, tail, mutex, consumer, from, found, out>>
    BY <1>2 DEF pulling
  <2> QED BY <1>0, <2>1, <2>2, <2>3, ReaderStays DEF RegInv
<1>16. WriterAt'
  <2>1. producer' = "publish" => Len(frame') <= Capacity
    <3> SUFFICES ASSUME producer = "write" PROVE Len(frame) - n <= Capacity
      BY <1>2, <1>c
    <3>1. Len(frame) <= Capacity /\ Capacity \in Nat
      BY RingSize DEF RegInv, WriterAt
    <3> QED BY <1>a, <3>1
  <2>2. producer' = "publishRest" => frame' = None
    <3> SUFFICES ASSUME producer = "rest" PROVE frame' = <<>>
      BY <1>2 DEF None
    <3>1. Len(frame) <= CanWrite
      BY DEF RegInv, WriterAt
    <3>2. Len(frame) - n = 0
      BY <1>a, <1>1, <3>1
    <3> QED BY <1>c, <3>2
  <2> QED BY <1>13, <2>1, <2>2 DEF WriterAt
<1>17. LatencyBounded'
  BY <1>13, Limit
<1> QED BY <1>9, <1>10, <1>11, <1>12, <1>14, <1>15, <1>16, <1>17 DEF RegInv, RingPart

(* Some of the oldest are taken out: what that leaves of the ring. *)
LEMMA TakenOut ==
  ASSUME RegInv, NEW s \in Nat, s <= CanRead, tail' = Move(tail, s),
         UNCHANGED <<data, head, frame, fresh, sent>>, heard' \in [last : Nat, number : Nat],
         dropped' \in Nat, heard'.last <= Published,
         Ordered(data, tail', Hold(tail', head), heard'.last, Published),
         heard'.number + dropped' = heard.number + dropped + Cardinality(Content(data, tail, s))
  PROVE  /\ RingPart' /\ tail' \in Slots /\ CanRead' = CanRead - s /\ CanWrite' = CanWrite + s
         /\ CanRead' \in Nat /\ CanWrite' \in Nat
<1>0. /\ data \in [Slots -> Nat] /\ tail \in Slots /\ head \in Slots
  BY TypeFacts
<1>a. CanRead \in Nat /\ CanWrite \in Nat /\ CanWrite = Capacity - CanRead /\ Capacity \in Nat
  BY CanFacts
<1>b. s \in Nat /\ s <= CanRead
  OBVIOUS
<1>1. tail' \in Slots /\ CanRead' = CanRead - s /\ CanWrite' = CanWrite + s
  <2>1. s <= Hold(tail, head)
    BY CanIs
  <2>2. /\ Move(tail, s) \in Slots
        /\ Hold(Move(tail, s), head) = Hold(tail, head) - s
        /\ Free(Move(tail, s), head) = Free(tail, head) + s
    BY <1>0, <2>1, MoveTail
  <2> QED BY <2>2, CanIs
<1>2. CanRead' \in Nat /\ CanWrite' \in Nat
  BY <1>a, <1>b, <1>1
<1>3. CanRead' = Hold(tail', head) /\ CanRead = Hold(tail, head)
  BY CanIs
<1>4. Published' = Published
  BY DEF Published
<1>5. RingOrder'
  BY <1>3, <1>4, SentFacts DEF RingOrder
<1>6. FrameIsNext'
  BY DEF RegInv, RingPart, FrameIsNext
<1>7. FreshIsNext'
  <2>1. fresh <= CanWrite /\ Continues(data, tail, CanRead, fresh, Published)
    BY DEF RegInv, RingPart, FreshIsNext
  <2>a. fresh \in Nat
    BY TypeFacts
  <2>2. ASSUME NEW k \in Nat, k < fresh PROVE Cell(data, tail', CanRead' + k) = Published + k + 1
    <3>1. /\ CanRead - s + k \in Nat /\ s + (CanRead - s + k) = CanRead + k
          /\ s + (CanRead - s + k) <= Capacity
      BY <1>a, <1>b, <2>1, <2>2, <2>a
    <3>2. Cell(data, Move(tail, s), CanRead - s + k) = Cell(data, tail, s + (CanRead - s + k))
      BY <1>0, <3>1, CellNearer
    <3>3. Cell(data, tail, CanRead + k) = Published + k + 1
      BY <2>1, <2>2 DEF Continues
    <3> QED BY <1>1, <3>1, <3>2, <3>3
  <2>3. Continues(data, tail', CanRead', fresh, Published)
    BY <2>2 DEF Continues
  <2>4. fresh <= CanWrite'
    BY <1>a, <1>b, <1>1, <2>1, <2>a
  <2> QED BY <1>4, <2>3, <2>4 DEF FreshIsNext
<1>8. Counted'
  <2>1. PICK last \in Nat, b \in Nat :
           last = heard.last /\ b = Published /\ Ordered(data, tail, Hold(tail, head), last, b)
    BY TypeFacts, SentFacts, OrderFacts
  <2>a. s <= Hold(tail, head) /\ Ordered(data, tail, Hold(tail, head), last, b)
    BY <1>b, <1>3, <2>1
  <2>2. PICK x, y \in Nat :
           /\ x = Cardinality(Content(data, tail, s))
           /\ y = Cardinality(Content(data, Move(tail, s), Hold(Move(tail, s), head)))
           /\ x + y = Cardinality(Content(data, tail, Hold(tail, head)))
    BY <1>0, <2>a, SkipsCount
  <2>4. PICK c \in Nat : /\ c = Cardinality(Content(data, tail, Hold(tail, head)))
                         /\ sent = heard.number + dropped + c + fresh + Len(frame)
    BY CountFacts
  <2>5. /\ x = Cardinality(Content(data, tail, s)) /\ c = x + y
        /\ y = Cardinality(Content(data, tail', Hold(tail', head)))
    BY <2>2, <2>4
  <2>6. PICK h \in Nat, g \in Nat, d \in Nat, e \in Nat :
           /\ h = heard.number /\ g = heard'.number /\ d = dropped /\ e = dropped'
           /\ g + e = h + d + x
    BY <2>5, TypeFacts
  <2>7. fresh \in Nat /\ Len(frame) \in Nat
    BY TypeFacts
  <2>c. h + d + c = g + e + y
    BY <2>5, <2>6
  <2>8. sent = g + e + y + fresh + Len(frame)
    BY <2>4, <2>6, <2>7, <2>c
  <2> QED BY <1>3, <2>5, <2>6, <2>8 DEF Counted
<1> QED BY <1>1, <1>2, <1>5, <1>6, <1>7, <1>8 DEF RingPart

(* The reader moves its cursor: what it has copied has been played. *)
LEMMA StoresStep == ASSUME RegInv, PullStores PROVE RegInv'
<1>1. /\ consumer = "store" /\ consumer' = "mark" /\ mutex' = FALSE
      /\ tail' = Move(from, found)
      /\ heard' = [last |-> Max(RealsOf(out) \cup {heard.last}),
                   number |-> heard.number + Reals(out)]
      /\ UNCHANGED <<data, head, played, received, tuning, player, pushing, from, found, out, sent, dropped>>
  BY DEF PullStores, Move, After
<1>2. /\ from = tail /\ found \in Nat /\ found <= CanRead
      /\ DOMAIN out = 1 .. found /\ \A k \in Nat : k < found => out[k + 1] = Cell(data, tail, k)
  BY <1>1 DEF RegInv, ReaderHolds
<1>3. RealsOf(out) = Content(data, tail, found)
  <2>1. ASSUME NEW x PROVE x \in RealsOf(out) <=> x \in Content(data, tail, found)
    <3>1. x \in RealsOf(out) <=> x # 0 /\ \E i \in 1 .. found : x = out[i]
      BY <1>2 DEF RealsOf, Range
    <3>2. ASSUME NEW i \in 1 .. found, x = out[i]
          PROVE  \E k \in Nat : k < found /\ x = Cell(data, tail, k)
      <4>1. i - 1 \in Nat /\ i - 1 < found /\ (i - 1) + 1 = i
        BY <1>2
      <4>2. out[(i - 1) + 1] = Cell(data, tail, i - 1)
        BY <1>2, <4>1
      <4> QED BY <3>2, <4>1, <4>2
    <3>3. ASSUME NEW k \in Nat, k < found, x = Cell(data, tail, k)
          PROVE  \E i \in 1 .. found : x = out[i]
      <4>1. k + 1 \in 1 .. found
        BY <1>2, <3>3
      <4> QED BY <1>2, <3>3, <4>1
    <3>4. x \in Content(data, tail, found)
            <=> x # 0 /\ \E k \in Nat : k < found /\ x = Cell(data, tail, k)
      BY <1>2, Held
    <3> QED BY <3>1, <3>2, <3>3, <3>4
  <2> QED BY <2>1
<1>4. data \in [Slots -> Nat] /\ tail \in Slots /\ head \in Slots
  BY TypeFacts
<1>5. PICK last \in Nat, b \in Nat : /\ last = heard.last /\ b = Published /\ last <= b
                                     /\ Ordered(data, tail, Hold(tail, head), last, b)
  BY TypeFacts, SentFacts, OrderFacts
<1>6. found <= Hold(tail, head)
  BY <1>2, CanIs
<1> DEFINE l == Max(Content(data, tail, found) \cup {last})
<1>7. l \in Nat /\ l <= b /\ Ordered(data, Move(tail, found), Hold(Move(tail, found), head), l, b)
  BY <1>2, <1>4, <1>5, <1>6, Plays
<1>8. PICK x, y \in Nat :
         /\ x = Cardinality(Content(data, tail, found))
         /\ y = Cardinality(Content(data, Move(tail, found), Hold(Move(tail, found), head)))
         /\ x + y = Cardinality(Content(data, tail, Hold(tail, head)))
  <2>1. found \in Nat /\ found <= Hold(tail, head)
    BY <1>2, <1>6
  <2>2. Ordered(data, tail, Hold(tail, head), last, b)
    BY <1>5
  <2> QED BY <1>4, <2>1, <2>2, SkipsCount
<1> HIDE DEF l
<1>9. heard' = [last |-> l, number |-> heard.number + x]
  BY <1>1, <1>3, <1>5, <1>8 DEF l, Reals
<1>10. /\ heard' \in [last : Nat, number : Nat] /\ heard'.last = l
       /\ heard'.number = heard.number + x
  <2>1. heard.number \in Nat /\ heard.number + x \in Nat
    BY TypeFacts
  <2> QED BY <1>7, <1>9, <2>1
<1>11. /\ tail' = Move(tail, found)
       /\ UNCHANGED <<data, head, frame, fresh, sent, dropped>>
  BY <1>1, <1>2 DEF pushing
<1>12. /\ RingPart' /\ tail' \in Slots /\ CanRead' = CanRead - found /\ CanWrite' = CanWrite + found
       /\ CanRead' \in Nat /\ CanWrite' \in Nat
  <2>1. heard'.last <= Published /\ Ordered(data, tail', Hold(tail', head), heard'.last, Published)
    BY <1>5, <1>7, <1>10, <1>11
  <2>2. heard'.number + dropped' = heard.number + dropped + Cardinality(Content(data, tail, found))
    <3>1. PICK h \in Nat, d \in Nat : h = heard.number /\ d = dropped
      BY TypeFacts
    <3>2. (h + x) + d = h + d + x
      OBVIOUS
    <3> QED BY <1>8, <1>10, <1>11, <3>1, <3>2
  <2>3. dropped' \in Nat
    BY <1>11, TypeFacts
  <2> QED BY <1>2, <1>10, <1>11, <2>1, <2>2, <2>3, TakenOut
<1>13. RegTypes'
  BY <1>1, <1>10, <1>11, <1>12 DEF RegInv, RegTypes, tuning, pushing
<1>14. ReaderHolds'
  BY <1>1 DEF ReaderHolds
<1>15. WriterAt'
  <2>1. UNCHANGED <<producer, frame, fresh>>
    BY <1>1 DEF pushing
  <2>2. CanWrite \in Nat /\ CanWrite <= CanWrite' /\ Len(frame) \in Nat
    BY <1>2, <1>12, CanFacts, TypeFacts
  <2>3. producer = "rest" => Len(frame) <= CanWrite'
    BY <1>12, <2>2 DEF RegInv, WriterAt
  <2> QED BY <2>1, <2>3 DEF RegInv, WriterAt
<1>16. LatencyBounded'
  <2>1. producer' = producer
    BY <1>1 DEF pushing
  <2>2. CanRead \in Nat /\ CanRead' <= CanRead
    BY <1>2, <1>12, CanFacts
  <2>3. producer \in {"tune", "idle"} => CanRead <= Long
    BY Limit DEF RegInv
  <2>4. producer \in {"tune", "idle"} => CanRead' <= Long
    BY <1>12, <2>2, <2>3, Limits
  <2> QED BY <2>1, <2>4, Limit
<1> QED BY <1>12, <1>13, <1>14, <1>15, <1>16 DEF RegInv

(* What is taken out unplayed is counted as dropped. *)
LEMMA Dropped ==
  ASSUME RegInv, NEW s \in Nat, s <= CanRead, tail' = Move(tail, s),
         UNCHANGED <<data, head, frame, fresh, sent, heard>>,
         dropped' = dropped + Reals(Copied(tail, s))
  PROVE  /\ RingPart' /\ tail' \in Slots /\ CanRead' = CanRead - s /\ CanWrite' = CanWrite + s
         /\ CanRead' \in Nat /\ CanWrite' \in Nat /\ dropped' \in Nat
<1>4. data \in [Slots -> Nat] /\ tail \in Slots /\ head \in Slots
  BY TypeFacts
<1>5. PICK last \in Nat, b \in Nat : /\ last = heard.last /\ b = Published /\ last <= b
                                     /\ Ordered(data, tail, Hold(tail, head), last, b)
  BY TypeFacts, SentFacts, OrderFacts
<1>6. s <= Hold(tail, head)
  BY CanIs
<1>7. Ordered(data, Move(tail, s), Hold(Move(tail, s), head), last, b)
  BY <1>4, <1>5, <1>6, Skips
<1>8. PICK x \in Nat : x = Cardinality(Content(data, tail, s))
  <2>1. Ordered(data, tail, Hold(tail, head), last, b)
    BY <1>5
  <2>2. \E x, y \in Nat :
           /\ x = Cardinality(Content(data, tail, s))
           /\ y = Cardinality(Content(data, Move(tail, s), Hold(Move(tail, s), head)))
           /\ x + y = Cardinality(Content(data, tail, Hold(tail, head)))
    BY <1>4, <1>6, <2>1, SkipsCount
  <2> QED BY <2>2
<1>9. dropped' = dropped + x
  BY <1>8, CopiedIs DEF Reals
<1>10. dropped' \in Nat
  BY <1>9, TypeFacts
<1>11. heard'.last <= Published /\ Ordered(data, tail', Hold(tail', head), heard'.last, Published)
  BY <1>5, <1>7
<1>12. heard'.number + dropped' = heard.number + dropped + Cardinality(Content(data, tail, s))
  <2>1. PICK h \in Nat, d \in Nat : h = heard.number /\ d = dropped
    BY TypeFacts
  <2>2. h + (d + x) = h + d + x
    OBVIOUS
  <2> QED BY <1>8, <1>9, <2>1, <2>2
<1>13. heard' \in [last : Nat, number : Nat]
  BY DEF RegInv, RegTypes
<1> QED BY <1>10, <1>11, <1>12, <1>13, TakenOut

(* The writer takes out what is too much. *)
LEMMA TrimStep == ASSUME RegInv, Trim PROVE RegInv'
<1>1. /\ producer = "trim" /\ producer' = "tune" /\ ~ mutex
      /\ UNCHANGED <<data, head, mutex, played, received, tuning, player, frame, fresh, written, pulling, sent, heard>>
      /\ seen' = [seen EXCEPT !.canRead = CanRead]
  BY DEF Trim, MayLock
<1>a. CanRead \in Nat /\ CanWrite \in Nat
  BY CanFacts
<1>2. /\ RingPart' /\ tail' \in Slots /\ dropped' \in Nat /\ CanRead' \in Nat
      /\ CanRead' <= Long
  <2>1. PICK m \in Nat : m = MaxBuffered(seen.played) /\ m <= Long
    <3>1. MaxBuffered(seen.played) = IF seen.played THEN Long ELSE Short
      BY DEF MaxBuffered, Long, Short
    <3>2. /\ (IF seen.played THEN Long ELSE Short) \in Nat
          /\ (IF seen.played THEN Long ELSE Short) <= Long
      BY Limits
    <3> QED BY <3>1, <3>2
  <2>2. CASE CanRead - m > 0
    <3>1. CanRead - m \in Nat /\ CanRead - m <= CanRead
      BY <1>a, <2>2
    <3>2. tail' = Move(tail, CanRead - m) /\ dropped' = dropped + Reals(Copied(tail, CanRead - m))
      BY <2>1, <2>2 DEF Trim, Move, After
    <3>3. /\ RingPart' /\ tail' \in Slots /\ CanRead' = CanRead - (CanRead - m)
          /\ CanRead' \in Nat /\ dropped' \in Nat
      BY <1>1, <3>1, <3>2, Dropped
    <3>4. CanRead - (CanRead - m) = m
      BY <1>a
    <3> QED BY <2>1, <3>3, <3>4
  <2>3. CASE ~ (CanRead - m > 0)
    <3>1. UNCHANGED <<tail, dropped>>
      BY <2>1, <2>3 DEF Trim
    <3>2. CanRead <= Long
      BY <1>a, <2>1, <2>3, Limits
    <3>3. CanRead' = CanRead
      BY <1>1, <3>1 DEF CanRead
    <3>4. RingPart'
      BY <1>1, <3>1, RingStays DEF RegInv
    <3> QED BY <1>a, <3>1, <3>2, <3>3, <3>4, TypeFacts
  <2> QED BY <2>2, <2>3
<1>3. RegTypes'
  <2>1. seen' \in [canRead : Nat, played : BOOLEAN]
    BY <1>1, <1>a DEF RegInv, RegTypes
  <2> QED BY <1>1, <1>2, <2>1 DEF RegInv, RegTypes, tuning, pulling
<1>4. ReaderHolds'
  <2>1. UNCHANGED <<mutex, consumer>>
    BY <1>1 DEF pulling
  <2> QED BY <1>1, <2>1, ReaderAway DEF RegInv
<1>5. WriterAt'
  BY <1>1 DEF RegInv, WriterAt
<1>6. LatencyBounded'
  BY <1>2, Limit
<1> QED BY <1>2, <1>3, <1>4, <1>5, <1>6 DEF RegInv

(* The rest of a frame is still the last that was sent. *)
LEMMA FrameCut ==
  ASSUME RegInv, NEW n \in Nat, n <= Len(frame),
         frame' = SubSeq(frame, n + 1, Len(frame)), sent' = sent
  PROVE  frame' \in Seq(Nat) /\ Len(frame') = Len(frame) - n /\ FrameIsNext'
<1>0. frame \in Seq(Nat) /\ Len(frame) \in Nat /\ sent \in Nat
  BY TypeFacts
<1>1. /\ SubSeq(frame, n + 1, Len(frame)) \in Seq(Nat)
      /\ Len(SubSeq(frame, n + 1, Len(frame))) = Len(frame) - n
      /\ \A i \in 1 .. Len(frame) - n : SubSeq(frame, n + 1, Len(frame))[i] = frame[n + i]
  BY <1>0, FrameParts
<1>2. \A i \in 1 .. Len(frame) : frame[i] = sent - Len(frame) + i
  BY DEF RegInv, RingPart, FrameIsNext
<1>3. ASSUME NEW i \in 1 .. Len(frame') PROVE frame'[i] = sent' - Len(frame') + i
  <2>1. i \in 1 .. Len(frame) - n
    BY <1>1
  <2>2. i \in Nat /\ n + i \in 1 .. Len(frame)
    BY <1>0, <2>1
  <2>3. frame'[i] = frame[n + i]
    BY <1>1, <2>1
  <2>4. frame[n + i] = sent - Len(frame) + (n + i)
    BY <1>2, <2>2
  <2>5. sent - Len(frame) + (n + i) = sent - (Len(frame) - n) + i
    BY <1>0, <2>2
  <2> QED BY <1>1, <2>3, <2>4, <2>5
<1> QED BY <1>1, <1>3 DEF FrameIsNext

(* What a write of the first n samples leaves in the ring. *)
LEMMA FirstCopied ==
  ASSUME RegInv, fresh = 0, NEW n \in Nat, n <= Len(frame), n <= CanWrite,
         NEW e, e = FilledIn(data, head, SubSeq(frame, 1, n))
  PROVE  /\ e \in [Slots -> Nat] /\ Published = sent - Len(frame)
         /\ Ordered(e, tail, Hold(tail, head), heard.last, Published)
         /\ Content(e, tail, Hold(tail, head)) = Content(data, tail, Hold(tail, head))
         /\ Continues(e, tail, Hold(tail, head), n, Published)
         /\ \A k \in Nat : k < Hold(tail, head) => Cell(e, tail, k) = Cell(data, tail, k)
<1> DEFINE q == SubSeq(frame, 1, n)
<1>0. /\ data \in [Slots -> Nat] /\ tail \in Slots /\ head \in Slots /\ frame \in Seq(Nat)
  BY TypeFacts
<1>a. Len(frame) \in Nat /\ sent \in Nat
  BY TypeFacts
<1>1. q \in Seq(Nat) /\ Len(q) = n /\ \A k \in Nat : k < n => q[k + 1] = frame[k + 1]
  BY <1>0, FrameParts
<1> HIDE DEF q
<1>2. Len(q) <= Free(tail, head)
  BY <1>1, CanIs
<1>3. Ordered(data, tail, Hold(tail, head), heard.last, Published)
  BY OrderFacts
<1>4. q \in Seq(Nat)
  BY <1>1
<1>5. /\ FilledIn(data, head, q) \in [Slots -> Nat]
      /\ Ordered(FilledIn(data, head, q), tail, Hold(tail, head), heard.last, Published)
      /\ Content(FilledIn(data, head, q), tail, Hold(tail, head)) = Content(data, tail, Hold(tail, head))
      /\ \A k \in Nat : k < Len(q) => Cell(FilledIn(data, head, q), tail, Hold(tail, head) + k) = q[k + 1]
      /\ \A k \in Nat : k < Hold(tail, head) => Cell(FilledIn(data, head, q), tail, k) = Cell(data, tail, k)
  BY <1>0, <1>2, <1>3, <1>4, Writes
<1>b. e = FilledIn(data, head, q)
  BY DEF q
<1>6. Published = sent - Len(frame)
  <2>1. Published = sent - Len(frame) - 0
    BY SentFacts
  <2> QED BY <1>a, <2>1
<1>7. ASSUME NEW k \in Nat, k < n
      PROVE  Cell(e, tail, Hold(tail, head) + k) = Published + k + 1
  <2>1. k + 1 \in 1 .. Len(frame)
    BY <1>a, <1>7
  <2>2. frame[k + 1] = sent - Len(frame) + (k + 1)
    BY <2>1 DEF RegInv, RingPart, FrameIsNext
  <2>3. Cell(e, tail, Hold(tail, head) + k) = frame[k + 1]
    BY <1>1, <1>5, <1>7, <1>b
  <2>4. sent - Len(frame) + (k + 1) = (sent - Len(frame)) + k + 1
    BY <1>a
  <2> QED BY <1>6, <2>2, <2>3, <2>4
<1>8. Continues(e, tail, Hold(tail, head), n, Published)
  BY <1>7 DEF Continues
<1> QED BY <1>5, <1>6, <1>8, <1>b

(* The writer takes out the oldest to make room for the rest of its frame. *)
LEMMA DropStep == ASSUME RegInv, DropOld PROVE RegInv'
<1>0. /\ data \in [Slots -> Nat] /\ tail \in Slots /\ head \in Slots /\ frame \in Seq(Nat)
  BY TypeFacts
<1>a. /\ CanRead \in Nat /\ CanWrite \in Nat /\ Len(frame) \in Nat /\ sent \in Nat
      /\ Capacity \in Nat /\ CanWrite = Capacity - CanRead
  BY CanFacts, TypeFacts
<1>b. producer = "full" /\ fresh = 0 /\ Len(frame) <= Capacity
  BY DEF DropOld, RegInv, WriterAt
<1>1. PICK n \in Nat : /\ n = Smaller(Len(frame), CanWrite)
                       /\ n <= Len(frame) /\ n <= CanWrite /\ (n = Len(frame) \/ n = CanWrite)
  <2>1. /\ Smaller(Len(frame), CanWrite) \in Nat
        /\ Smaller(Len(frame), CanWrite) <= Len(frame)
        /\ Smaller(Len(frame), CanWrite) <= CanWrite
        /\ Smaller(Len(frame), CanWrite) = Len(frame) \/ Smaller(Len(frame), CanWrite) = CanWrite
    BY <1>a, SmallerIs
  <2> QED BY <2>1
<1>2. PICK r \in Nat : r = Len(frame) - n
  BY <1>a, <1>1
<1>3. PICK s \in Nat : /\ s = Smaller(r, CanRead + n)
                       /\ s <= r /\ s <= CanRead /\ (r > 0 => s = r /\ n = CanWrite)
  <2>1. /\ Smaller(r, CanRead + n) \in Nat
        /\ Smaller(r, CanRead + n) <= r /\ Smaller(r, CanRead + n) <= CanRead + n
        /\ Smaller(r, CanRead + n) = r \/ Smaller(r, CanRead + n) = CanRead + n
    BY <1>a, SmallerIs
  <2>2. r <= CanRead /\ (r > 0 => n = CanWrite)
    BY <1>a, <1>b, <1>1, <1>2
  <2> QED BY <1>a, <2>1, <2>2
<1>4. /\ ~ mutex
      /\ data' = FilledIn(data, head, SubSeq(frame, 1, n))
      /\ head' = Move(head, n)
      /\ frame' = SubSeq(frame, n + 1, Len(frame))
      /\ tail' = Move(tail, s)
      /\ dropped' = dropped + Reals(Copied(tail, s))
      /\ producer' = IF r > 0 THEN "rest" ELSE "look"
      /\ UNCHANGED <<mutex, played, received, tuning, player, fresh, seen, pulling, sent, heard>>
  BY <1>1, <1>2, <1>3 DEF DropOld, MayLock, Skip, Filled, FilledIn, Hold, Ahead, Move, After
<1>5. frame' \in Seq(Nat) /\ Len(frame') = Len(frame) - n /\ FrameIsNext'
  <2>1. n <= Len(frame)
    BY <1>1
  <2> QED BY <1>4, <2>1, FrameCut
<1>6. /\ data' \in [Slots -> Nat] /\ Published = sent - Len(frame)
      /\ Ordered(data', tail, Hold(tail, head), heard.last, Published)
      /\ Content(data', tail, Hold(tail, head)) = Content(data, tail, Hold(tail, head))
      /\ Continues(data', tail, Hold(tail, head), n, Published)
      /\ \A k \in Nat : k < Hold(tail, head) => Cell(data', tail, k) = Cell(data, tail, k)
  <2>1. n <= Len(frame) /\ n <= CanWrite
    BY <1>1
  <2> QED BY <1>4, <1>b, <2>1, FirstCopied
<1>7. PICK last \in Nat, b \in Nat :
         /\ last = heard.last /\ b = Published /\ last <= b
         /\ Ordered(data', tail, Hold(tail, head), last, b)
         /\ Continues(data', tail, Hold(tail, head), n, b)
  BY <1>6, TypeFacts, SentFacts
<1> DEFINE g == Move(head, n)
           u == Move(tail, s)
<1>8. /\ g \in Slots /\ Hold(tail, g) = CanRead + n /\ Free(tail, g) = CanWrite - n
  <2>1. n <= Free(tail, head)
    BY <1>1, CanIs
  <2>2. /\ Move(head, n) \in Slots
        /\ Hold(tail, Move(head, n)) = Hold(tail, head) + n
        /\ Free(tail, Move(head, n)) = Free(tail, head) - n
    BY <1>0, <2>1, MoveHead
  <2> QED BY <2>2, CanIs
<1>9. Ordered(data', tail, Hold(tail, g), last, b + n)
      /\ \E c \in Nat : /\ c = Cardinality(Content(data', tail, Hold(tail, head)))
                        /\ c + n = Cardinality(Content(data', tail, Hold(tail, g)))
  <2>1. n <= Free(tail, head) /\ tail \in Slots /\ head \in Slots
    BY <1>0, <1>1, CanIs
  <2>2. last <= b /\ Ordered(data', tail, Hold(tail, head), last, b)
    BY <1>7
  <2>3. Continues(data', tail, Hold(tail, head), n, b)
    BY <1>7
  <2> QED BY <2>1, <2>2, <2>3, Publishes
<1>10. /\ s <= Hold(tail, g) /\ b + n \in Nat /\ last <= b + n
  <2>1. s <= CanRead + n
    BY <1>a, <1>3
  <2> QED BY <1>7, <1>8, <2>1
<1> HIDE DEF g
<1>11. /\ u \in Slots /\ Hold(u, g) = CanRead + n - s /\ Free(u, g) = CanWrite - n + s
  <2>1. /\ Move(tail, s) \in Slots
        /\ Hold(Move(tail, s), g) = Hold(tail, g) - s
        /\ Free(Move(tail, s), g) = Free(tail, g) + s
    BY <1>0, <1>8, <1>10, MoveTail
  <2>2. PICK a \in Nat, f \in Int : /\ Hold(tail, g) = a /\ a = CanRead + n
                                  /\ Free(tail, g) = f /\ f = CanWrite - n
    BY <1>a, <1>8
  <2>3. Hold(u, g) = a - s /\ Free(u, g) = f + s /\ u \in Slots
    BY <2>1, <2>2
  <2>4. a - s = CanRead + n - s /\ f + s = CanWrite - n + s
    BY <1>a, <2>2
  <2> QED BY <2>3, <2>4
<1>12. Ordered(data', u, Hold(u, g), last, b + n)
  <2>1. Ordered(data', tail, Hold(tail, g), last, b + n) /\ b + n \in Nat
    BY <1>9, <1>10
  <2> QED BY <1>0, <1>8, <1>10, <2>1, Skips
<1>13. PICK x, y \in Nat :
         /\ x = Cardinality(Content(data', tail, s))
         /\ y = Cardinality(Content(data', u, Hold(u, g)))
         /\ x + y = Cardinality(Content(data', tail, Hold(tail, g)))
  <2>1. s <= Hold(tail, g)
    BY <1>10
  <2>2. PICK c \in Nat : c = b + n
    BY <1>10
  <2>3. Ordered(data', tail, Hold(tail, g), last, c)
    BY <1>9, <2>2
  <2>4. tail \in Slots /\ g \in Slots
    BY <1>0, <1>8
  <2>5. \E x, y \in Nat :
           /\ x = Cardinality(Content(data', tail, s))
           /\ y = Cardinality(Content(data', Move(tail, s), Hold(Move(tail, s), g)))
           /\ x + y = Cardinality(Content(data', tail, Hold(tail, g)))
    BY <2>1, <2>3, <2>4, SkipsCount
  <2> QED BY <2>5
<1>14. dropped' = dropped + x
  <2>1. ASSUME NEW k \in Nat, k < s PROVE Cell(data', tail, k) = Cell(data, tail, k)
    <3>1. k < Hold(tail, head)
      BY <1>a, <1>3, <2>1, CanIs
    <3> QED BY <1>6, <3>1
  <2>2. Content(data', tail, s) = Content(data, tail, s)
    BY <2>1, SameCells
  <2> QED BY <1>4, <1>13, <2>2, CopiedIs DEF Reals
<1>15. /\ CanRead' = CanRead + n - s /\ CanWrite' = CanWrite - n + s
       /\ CanRead' = Hold(u, g) /\ tail' = u /\ head' = g
  BY <1>4, <1>11, CanIs DEF g
<1> HIDE DEF u
<1>16. Published' = b + n
  <2>1. Published' = sent - (Len(frame) - n) - 0
    BY <1>4, <1>5, <1>b DEF Published
  <2>2. b = sent - Len(frame)
    BY <1>6, <1>7
  <2> QED BY <1>a, <2>1, <2>2
<1>17. RingOrder'
  <2>1. heard'.last = last /\ b + n \in Nat /\ last <= b + n
    BY <1>4, <1>7, <1>10
  <2>2. Ordered(data', tail', CanRead', last, b + n)
    BY <1>12, <1>15
  <2> QED BY <1>16, <2>1, <2>2 DEF RingOrder
<1>18. FreshIsNext'
  <2>1. CanWrite' \in Nat
    BY <1>a, <1>1, <1>15
  <2>2. fresh' = 0
    BY <1>4, <1>b
  <2> QED BY <2>1, <2>2 DEF FreshIsNext, Continues
<1>19. Counted'
  <2>1. PICK c \in Nat : /\ c = Cardinality(Content(data, tail, Hold(tail, head)))
                         /\ sent = heard.number + dropped + c + fresh + Len(frame)
    BY CountFacts
  <2>2. x + y = c + n
    BY <1>6, <1>9, <1>13, <2>1
  <2>3. PICK h \in Nat, d \in Nat : h = heard.number /\ d = dropped
    BY TypeFacts
  <2>4. sent = h + d + c + 0 + Len(frame)
    BY <1>b, <2>1, <2>3
  <2>5. sent = h + (d + x) + y + 0 + (Len(frame) - n)
    BY <1>a, <2>2, <2>4
  <2>6. Cardinality(Content(data', tail', CanRead')) = y
    BY <1>13, <1>15
  <2>7. heard'.number = h /\ dropped' = d + x /\ fresh' = 0 /\ sent' = sent
    BY <1>4, <1>14, <1>b, <2>3
  <2> QED BY <1>5, <2>5, <2>6, <2>7 DEF Counted
<1>20. producer' \in {"rest", "look"}
  BY <1>4
<1>21. RegTypes'
  <2>1. dropped' \in Nat
    BY <1>14, TypeFacts
  <2> QED BY <1>4, <1>5, <1>6, <1>8, <1>11, <1>15, <1>20, <2>1
          DEF RegInv, RegTypes, tuning, pulling
<1>22. ReaderHolds'
  <2>1. UNCHANGED <<mutex, consumer>>
    BY <1>4 DEF pulling
  <2> QED BY <1>4, <2>1, ReaderAway DEF RegInv
<1>23. WriterAt'
  <2>1. producer' = "rest" => Len(frame') <= CanWrite'
    <3> SUFFICES ASSUME r > 0 PROVE Len(frame') <= CanWrite'
      BY <1>4
    <3>1. s = r /\ n = CanWrite
      BY <1>3
    <3>2. CanWrite - n + s = r
      BY <1>a, <3>1
    <3>3. r <= r
      BY <1>2
    <3> QED BY <1>2, <1>5, <1>15, <3>2, <3>3
  <2>2. producer' = "look" => frame' = None
    <3> SUFFICES ASSUME ~ (r > 0) PROVE frame' = <<>>
      BY <1>4 DEF None
    <3>1. Len(frame') = 0
      BY <1>2, <1>5
    <3> QED BY <1>5, <3>1
  <2>3. fresh' = 0
    BY <1>4, <1>b
  <2> QED BY <1>20, <2>1, <2>2, <2>3 DEF WriterAt
<1>24. LatencyBounded'
  BY <1>20, Limit
<1> QED BY <1>5, <1>17, <1>18, <1>19, <1>21, <1>22, <1>23, <1>24 DEF RegInv, RingPart

(* Silence that is put into the ring is no sample. *)
LEMMA Filling ==
  ASSUME RegInv, fresh = 0, NEW w \in Nat, w <= CanWrite,
         data' = FilledIn(data, head, [i \in 1 .. w |-> 0]), head' = Move(head, w)
  PROVE  /\ data' \in [Slots -> Nat] /\ head' \in Slots
         /\ Hold(tail, head) <= Hold(tail, head')
         /\ Ordered(data', tail, Hold(tail, head'), heard.last, Published)
         /\ Content(data', tail, Hold(tail, head')) = Content(data, tail, Hold(tail, head))
         /\ \A k \in Nat : k < Hold(tail, head) => Cell(data', tail, k) = Cell(data, tail, k)
<1> DEFINE z == [i \in 1 .. w |-> 0]
<1>0. data \in [Slots -> Nat] /\ tail \in Slots /\ head \in Slots
  BY TypeFacts
<1>1. z \in Seq(Nat) /\ Len(z) = w /\ \A k \in Nat : k < w => z[k + 1] = 0
  OBVIOUS
<1>2. data' = FilledIn(data, head, z)
  OBVIOUS
<1> HIDE DEF z
<1>3. w <= Free(tail, head)
  BY CanIs
<1>4. PICK last \in Nat, b \in Nat : /\ last = heard.last /\ b = Published /\ last <= b
                                     /\ Ordered(data, tail, Hold(tail, head), last, b)
  BY TypeFacts, SentFacts, OrderFacts
<1>5. z \in Seq(Nat) /\ Len(z) <= Free(tail, head) /\ Ordered(data, tail, Hold(tail, head), last, b)
  BY <1>1, <1>3, <1>4
<1>6. /\ FilledIn(data, head, z) \in [Slots -> Nat]
      /\ Ordered(FilledIn(data, head, z), tail, Hold(tail, head), last, b)
      /\ Content(FilledIn(data, head, z), tail, Hold(tail, head)) = Content(data, tail, Hold(tail, head))
      /\ \A k \in Nat : k < Len(z) => Cell(FilledIn(data, head, z), tail, Hold(tail, head) + k) = z[k + 1]
      /\ \A k \in Nat : k < Hold(tail, head) => Cell(FilledIn(data, head, z), tail, k) = Cell(data, tail, k)
  BY <1>0, <1>5, Writes
<1>7. \A k \in Nat : k < w => Cell(data', tail, Hold(tail, head) + k) = 0
  BY <1>1, <1>2, <1>6
<1>8. Ordered(data', tail, Hold(tail, head), last, b)
  BY <1>2, <1>6
<1>9. /\ Ordered(data', tail, Hold(tail, Move(head, w)), last, b)
      /\ Content(data', tail, Hold(tail, Move(head, w))) = Content(data', tail, Hold(tail, head))
  BY <1>0, <1>3, <1>7, <1>8, Silences
<1>10. Move(head, w) \in Slots /\ Hold(tail, Move(head, w)) = Hold(tail, head) + w
  BY <1>0, <1>3, MoveHead
<1>11. Hold(tail, head) <= Hold(tail, Move(head, w))
  <2>1. Hold(tail, head) \in Nat
    BY <1>0, Cursors
  <2> QED BY <1>10, <2>1
<1>12. data' \in [Slots -> Nat] /\ head' \in Slots
  BY <1>2, <1>6, <1>10
<1>13. Ordered(data', tail, Hold(tail, head'), heard.last, Published)
  BY <1>4, <1>9
<1>14. Content(data', tail, Hold(tail, head')) = Content(data, tail, Hold(tail, head))
  BY <1>2, <1>6, <1>9
<1>15. \A k \in Nat : k < Hold(tail, head) => Cell(data', tail, k) = Cell(data, tail, k)
  BY <1>2, <1>6
<1> QED BY <1>11, <1>12, <1>13, <1>14, <1>15

(* A frame arrives; a gap before it is filled with silence. *)
LEMMA BeginsStep ==
  ASSUME RegInv, NEW n \in FrameSizes, NEW gap \in BOOLEAN, PushBegins(n, gap)
  PROVE  RegInv'
<1>0. data \in [Slots -> Nat] /\ tail \in Slots /\ head \in Slots
  BY TypeFacts
<1>a. /\ CanRead \in Nat /\ CanWrite \in Nat /\ sent \in Nat /\ dropped \in Nat
      /\ Capacity \in Nat /\ TargetBuffering \in Nat /\ n \in Nat
  BY CanFacts, TypeFacts, RegulatorAssumption
<1>b. producer = "idle" /\ fresh = 0 /\ frame = <<>> /\ Len(frame) = 0
  <2>1. producer = "idle"
    BY DEF PushBegins
  <2>2. fresh = 0 /\ frame = <<>>
    BY <2>1 DEF RegInv, WriterAt, None
  <2> QED BY <2>1, <2>2
<1>c. Published = sent
  <2>1. Published = sent - 0 - 0
    BY <1>b, SentFacts
  <2> QED BY <1>a, <2>1
<1>1. PICK m \in Nat : m = n + compensation /\ m > 0
  BY <1>a DEF PushBegins, RegInv, RegTypes
<1>2. PICK x \in Nat : /\ x = IF m > Capacity THEN m - Capacity ELSE 0
                       /\ x <= m /\ m - x <= Capacity
  <2>1. CASE m > Capacity
    <3>1. m - Capacity \in Nat /\ m - Capacity <= m /\ m - (m - Capacity) <= Capacity
      BY <1>a, <2>1
    <3> QED BY <2>1, <3>1
  <2>2. CASE ~ (m > Capacity)
    <3>1. 0 <= m /\ m - 0 <= Capacity
      BY <1>a, <2>2
    <3> QED BY <2>2, <3>1
  <2> QED BY <2>1, <2>2
<1>3. PICK l \in Nat : l = m - x
  BY <1>2
<1>4. /\ sent' = sent + m
      /\ dropped' = dropped + (sent + 1 + x) - 1 - sent
      /\ frame' = [i \in 1 .. sent' + 1 - (sent + 1 + x) |-> (sent + 1 + x) + i - 1]
      /\ producer' = "write"
      /\ compensation' = IF gap THEN 0 ELSE compensation
      /\ UNCHANGED <<tail, mutex, played, received, player, fresh, seen, pulling, heard>>
  BY <1>1, <1>2 DEF PushBegins
<1>5. dropped' = dropped + x
  BY <1>a, <1>4
<1>6. frame' \in Seq(Nat) /\ Len(frame') = l /\ \A i \in 1 .. l : frame'[i] = sent + x + i
  <2>1. sent' + 1 - (sent + 1 + x) = l
    BY <1>a, <1>3, <1>4
  <2>2. frame' = [i \in 1 .. l |-> (sent + 1 + x) + i - 1]
    BY <1>4, <2>1
  <2>3. \A i \in 1 .. l : (sent + 1 + x) + i - 1 = sent + x + i /\ (sent + 1 + x) + i - 1 \in Nat
    BY <1>a
  <2>4. frame' \in [1 .. l -> Nat]
    BY <2>2, <2>3
  <2>5. frame' \in Seq(Nat) /\ Len(frame') = l
    BY <2>2, <2>4
  <2>6. \A i \in 1 .. l : frame'[i] = (sent + 1 + x) + i - 1
    BY <2>2
  <2> QED BY <2>3, <2>5, <2>6
<1>7. Published' = sent + x
  <2>1. Published' = (sent + m) - l - 0
    BY <1>4, <1>6, <1>b DEF Published
  <2> QED BY <1>a, <1>3, <2>1
<1>8. /\ data' \in [Slots -> Nat] /\ head' \in Slots
      /\ Hold(tail, head) <= Hold(tail, head')
      /\ Ordered(data', tail, Hold(tail, head'), heard.last, Published)
      /\ Content(data', tail, Hold(tail, head')) = Content(data, tail, Hold(tail, head))
      /\ \A k \in Nat : k < Hold(tail, head) => Cell(data', tail, k) = Cell(data, tail, k)
  <2>1. CASE gap /\ TargetBuffering > CanRead + n
    <3>1. TargetBuffering - CanRead - n \in Nat
      BY <1>a, <2>1
    <3>2. PICK w \in Nat : w = Smaller(TargetBuffering - CanRead - n, CanWrite) /\ w <= CanWrite
      BY <1>a, <3>1, SmallerIs
    <3>3. data' = FilledIn(data, head, [i \in 1 .. w |-> 0]) /\ head' = Move(head, w)
      BY <2>1, <3>2 DEF PushBegins, Filled, FilledIn, Hold, Ahead, Move, After
    <3> QED BY <1>b, <3>2, <3>3, Filling
  <2>2. CASE ~ (gap /\ TargetBuffering > CanRead + n)
    <3>1. data' = data /\ head' = head
      BY <2>2 DEF PushBegins
    <3>2. Hold(tail, head) <= Hold(tail, head)
      BY <1>a, CanIs
    <3> QED BY <1>0, <3>1, <3>2, OrderFacts
  <2> QED BY <2>1, <2>2
<1>9. CanRead' = Hold(tail, head') /\ CanRead = Hold(tail, head)
  BY <1>4, CanIs
<1>10. RingOrder'
  <2>1. sent + x \in Nat /\ sent <= sent + x /\ heard.last \in Nat /\ heard.last <= sent
    BY <1>a, <1>c, SentFacts, TypeFacts
  <2>2. heard.last <= sent + x
    BY <1>a, <2>1
  <2>3. Ordered(data', tail, Hold(tail, head'), heard.last, sent)
    BY <1>8, <1>c
  <2>4. Ordered(data', tail, Hold(tail, head'), heard.last, sent + x)
    BY <1>a, <2>1, <2>3, Later
  <2> QED BY <1>4, <1>7, <1>9, <2>1, <2>2, <2>4 DEF RingOrder
<1>11. FrameIsNext'
  <2>1. (sent + m) - l = sent + x
    BY <1>a, <1>3
  <2> QED BY <1>4, <1>6, <2>1 DEF FrameIsNext
<1>12. FreshIsNext'
  <2>1. CanWrite' \in Nat
    BY <1>0, <1>4, <1>8, CanIs, Cursors
  <2>2. fresh' = 0
    BY <1>4, <1>b
  <2> QED BY <2>1, <2>2 DEF FreshIsNext, Continues
<1>13. Counted'
  <2>1. PICK c \in Nat : /\ c = Cardinality(Content(data, tail, Hold(tail, head)))
                         /\ sent = heard.number + dropped + c + fresh + Len(frame)
    BY CountFacts
  <2>2. PICK h \in Nat : h = heard.number
    BY TypeFacts
  <2>3. sent = h + dropped + c
    BY <1>a, <1>b, <2>1, <2>2
  <2>4. sent + m = h + (dropped + x) + c + 0 + l
    BY <1>a, <1>3, <2>3
  <2>5. Cardinality(Content(data', tail', CanRead')) = c
    BY <1>4, <1>8, <1>9, <2>1
  <2>6. heard'.number = h /\ fresh' = 0
    BY <1>4, <1>b, <2>2
  <2> QED BY <1>4, <1>5, <1>6, <2>4, <2>5, <2>6 DEF Counted
<1>14. RegTypes'
  <2>1. dropped' \in Nat /\ sent' \in Nat /\ fresh' \in Nat
    BY <1>a, <1>4, <1>5, <1>b
  <2>2. compensation' \in {-1, 0, 1}
    BY <1>4 DEF RegInv, RegTypes
  <2> QED BY <1>4, <1>6, <1>8, <2>1, <2>2 DEF RegInv, RegTypes, pulling
<1>15. ReaderHolds'
  <2>1. CanRead <= CanRead' /\ \A k \in Nat : k < CanRead => Cell(data', tail, k) = Cell(data, tail, k)
    BY <1>8, <1>9
  <2>2. UNCHANGED <<tail, mutex, consumer, from, found, out>>
    BY <1>4 DEF pulling
  <2> QED BY <1>0, <1>8, <2>1, <2>2, ReaderStays DEF RegInv
<1>16. WriterAt'
  <2>1. Len(frame') <= Capacity
    BY <1>2, <1>3, <1>6
  <2> QED BY <1>4, <1>b, <2>1 DEF WriterAt
<1>17. LatencyBounded'
  BY <1>4, Limit
<1> QED BY <1>10, <1>11, <1>12, <1>13, <1>14, <1>15, <1>16, <1>17 DEF RegInv, RingPart

(* A step that changes nothing. *)
LEMMA Stutters == ASSUME RegInv, UNCHANGED regulatorVars PROVE RegInv'
<1>1. UNCHANGED <<ring, mutex, played, received, tuning, pushing, pulling, history>>
  BY DEF regulatorVars
<1>2. RingPart'
  BY <1>1, RingStays DEF RegInv, ring, pushing, history
<1>3. RegTypes'
  BY <1>1 DEF RegInv, RegTypes, ring, tuning, pushing, pulling, history
<1>4. CanRead' = CanRead /\ CanWrite' = CanWrite
  BY <1>1 DEF CanRead, CanWrite, ring
<1>5. ReaderHolds'
  BY <1>1, <1>4 DEF RegInv, ReaderHolds, ring, pulling
<1>6. WriterAt'
  BY <1>1, <1>4 DEF RegInv, WriterAt, pushing
<1>7. LatencyBounded'
  BY <1>1, <1>4, Limit DEF RegInv, pushing
<1> QED BY <1>2, <1>3, <1>5, <1>6, <1>7 DEF RegInv

(* The ring keeps the stream in order and complete, the reader's cells are *)
(* not touched while it copies them, and no more is buffered than the      *)
(* bound, in every reachable state.                                        *)
THEOREM RegulatorInvariant == RegulatorSpec => []RegInv
<1>1. RegInv /\ [RegulatorNext]_regulatorVars => RegInv'
  <2> SUFFICES ASSUME RegInv, [RegulatorNext]_regulatorVars PROVE RegInv'
    OBVIOUS
  <2>1. CASE SinkOpens \/ SinkCloses
    BY <2>1, SinkSteps
  <2>2. CASE \E n \in FrameSizes, gap \in BOOLEAN : PushBegins(n, gap)
    BY <2>2, BeginsStep
  <2>3. CASE (\E n \in PullSizes : PullBegins(n)) \/ PullCopies \/ PullEnds
    BY <2>3, PullSteps
  <2>4. CASE WriteCopies
    BY <2>4, CopiesStep
  <2>5. CASE WritePublishes
    BY <2>5, PublishStep
  <2>6. CASE DropOld
    BY <2>6, DropStep
  <2>7. CASE LookAtBuffer
    BY <2>7, LookStep
  <2>8. CASE Trim
    BY <2>8, TrimStep
  <2>9. CASE Tune
    BY <2>9, TuneStep
  <2>10. CASE PullStores
    BY <2>10, StoresStep
  <2>11. CASE UNCHANGED regulatorVars
    BY <2>11, Stutters
  <2> QED BY <2>1, <2>2, <2>3, <2>4, <2>5, <2>6, <2>7, <2>8, <2>9, <2>10, <2>11
          DEF RegulatorNext, ProducerStep, ConsumerStep
<1> QED BY <1>1, RegulatorStarts, PTL DEF RegulatorSpec

(* What was played, is waiting or is to be written is in order. *)
LEMMA OrderOfPlayed == RegInv => PlayedInOrder
<1> SUFFICES ASSUME RegInv, consumer = "store", NEW i \in DOMAIN out, out[i] # 0
             PROVE  out[i] > heard.last /\ \A j \in 1 .. i - 1 : out[j] < out[i]
  BY DEF PlayedInOrder
<1>1. /\ found \in Nat /\ found <= CanRead /\ DOMAIN out = 1 .. found
      /\ \A k \in Nat : k < found => out[k + 1] = Cell(data, tail, k)
  BY DEF RegInv, ReaderHolds
<1>2. /\ CanRead \in Nat /\ Ordered(data, tail, CanRead, heard.last, Published)
      /\ heard.last \in Nat
  BY CanFacts, OrderFacts, CanIs, TypeFacts
<1>3. ASSUME NEW j \in 1 .. found
      PROVE  j - 1 \in Nat /\ j - 1 < CanRead /\ out[j] = Cell(data, tail, j - 1)
  <2>1. j - 1 \in Nat /\ j - 1 < found /\ j - 1 < CanRead /\ (j - 1) + 1 = j
    BY <1>1, <1>2
  <2> QED BY <1>1, <2>1
<1>4. /\ i - 1 \in Nat /\ i - 1 < CanRead /\ out[i] = Cell(data, tail, i - 1)
      /\ Cell(data, tail, i - 1) # 0
  BY <1>1, <1>3
<1>5. Cell(data, tail, i - 1) \in Nat /\ heard.last < Cell(data, tail, i - 1)
  BY <1>2, <1>4 DEF Ordered
<1>6. ASSUME NEW j \in 1 .. i - 1 PROVE out[j] < out[i]
  <2>1. j \in 1 .. found /\ j - 1 < i - 1
    BY <1>1
  <2>2. j - 1 \in Nat /\ out[j] = Cell(data, tail, j - 1)
    BY <1>3, <2>1
  <2>3. Cell(data, tail, j - 1) < Cell(data, tail, i - 1)
    BY <1>2, <1>4, <2>1, <2>2 DEF Ordered
  <2> QED BY <1>4, <2>2, <2>3
<1>7. out[i] > heard.last
  BY <1>2, <1>4, <1>5
<1> QED BY <1>6, <1>7

(* The invariant counts every sample. *)
LEMMA AllAccounted == RegInv => EverySampleAccounted
<1> SUFFICES ASSUME RegInv
             PROVE  sent = heard.number + dropped + Reals(Buffered) + fresh + Len(frame)
  BY DEF EverySampleAccounted
<1>1. CanRead \in Nat
  BY CanFacts
<1>2. Reals(Buffered) = Cardinality(Content(data, tail, CanRead))
  BY <1>1, CopiedIs DEF Reals, Buffered
<1> QED BY <1>2 DEF RegInv, RingPart, Counted

(* The assertions of the code hold where the writer stands. *)
LEMMA Asserted == RegInv => PushAssertions
BY DEF RegInv, WriterAt, PushAssertions

(* What is played is what was sent, in order and without a sample twice;   *)
(* every sample is played, waiting or dropped, and the assertions of       *)
(* sc_audio_regulator_push hold, whatever the two threads do in between.   *)
THEOREM PlaysTheStreamHolds == RegulatorSpec => []PlaysTheStream
<1>1. RegInv => PlaysTheStream
  BY OrderOfPlayed, AllAccounted, Asserted DEF PlaysTheStream
<1> QED BY <1>1, RegulatorInvariant, PTL

(* After each push no more than the target and the tolerance are waiting. *)
THEOREM LatencyBoundedHolds == RegulatorSpec => []LatencyBounded
<1>1. RegInv => LatencyBounded
  BY DEF RegInv
<1> QED BY <1>1, RegulatorInvariant, PTL

-----------------------------------------------------------------------------
(* The command line.                                                       *)

(* The options the promises of the rest of the client are about.           *)
Told == {"video", "audio", "control", "video_playback", "audio_playback", "window",
         "record", "v4l2", "v4l2_buffer", "otg", "flex", "source", "keyboard", "mouse", "gamepad"}

(* Those that are on or off. *)
Switches == {"video", "audio", "control", "video_playback", "audio_playback", "window",
             "record", "v4l2", "otg", "flex"}

(* The default of an option, or one of its values. *)
LEMMA ValueIsKnown ==
  ASSUME NEW words, NEW option, NEW values, NEW default
  PROVE  Value(words, option, values, default) \in values \cup {default}
<1> DEFINE chosen == {v \in values : option \o v \in words}
<1>1. CASE chosen = {}
  BY <1>1 DEF Value
<1>2. CASE chosen # {}
  <2>1. (CHOOSE v \in chosen : TRUE) \in chosen
    BY <1>2
  <2> QED BY <1>2, <2>1 DEF Value
<1> QED BY <1>1, <1>2

(* The fields of the options as getopt() leaves them. *)
LEMMA GivenFields ==
  ASSUME NEW words
  PROVE  LET o == Given(words) IN
         /\ Told \subseteq DOMAIN o
         /\ \A f \in Switches : o[f] \in BOOLEAN
         /\ o.source \in {"camera", "display"}
         /\ o.keyboard \in Modes \cup {"auto"}
         /\ o.mouse \in Modes \cup {"auto"}
         /\ o.gamepad \in GamepadModes \cup {"disabled"}
<1> DEFINE b == BasicOptions(words)  s == StreamOptions(words)
           c == SourceOptions(words) d == DisplayOptions(words)
           o == Given(words)
<1>1. /\ {"control", "video_playback", "audio_playback", "record", "keyboard", "mouse"}
            \subseteq DOMAIN b
      /\ {"video", "audio", "otg", "v4l2", "v4l2_buffer"} \subseteq DOMAIN s \ DOMAIN b
  BY DEF BasicOptions, StreamOptions
<1>2. /\ {"source", "window", "gamepad"} \subseteq DOMAIN c \ (DOMAIN b \cup DOMAIN s)
      /\ {"flex"} \subseteq DOMAIN d \ (DOMAIN b \cup DOMAIN s \cup DOMAIN c)
  BY DEF BasicOptions, StreamOptions, SourceOptions, DisplayOptions
<1>3. /\ b.control \in BOOLEAN /\ b.video_playback \in BOOLEAN /\ b.audio_playback \in BOOLEAN
      /\ b.record \in BOOLEAN
      /\ b.keyboard \in Modes \cup {"auto"} /\ b.mouse \in Modes \cup {"auto"}
  <2>1. /\ b.keyboard = Value(words, "keyboard=", Modes, "auto")
        /\ b.mouse = Value(words, "mouse=", Modes, "auto")
    BY DEF BasicOptions
  <2>2. /\ b.control \in BOOLEAN /\ b.video_playback \in BOOLEAN /\ b.audio_playback \in BOOLEAN
        /\ b.record \in BOOLEAN
    BY DEF BasicOptions
  <2> QED BY <2>1, <2>2, ValueIsKnown
<1>4. s.video \in BOOLEAN /\ s.audio \in BOOLEAN /\ s.otg \in BOOLEAN /\ s.v4l2 \in BOOLEAN
  BY DEF StreamOptions
<1>5. /\ c.source \in {"camera", "display"} /\ c.window \in BOOLEAN
      /\ c.gamepad \in GamepadModes \cup {"disabled"}
  <2>1. c.gamepad = Value(words, "gamepad=", GamepadModes, "disabled")
    BY DEF SourceOptions
  <2>2. c.source \in {"camera", "display"} /\ c.window \in BOOLEAN
    BY DEF SourceOptions
  <2> QED BY <2>1, <2>2, ValueIsKnown
<1>6. d.flex \in BOOLEAN
  BY DEF DisplayOptions
<1>7. o = Together(Together(b, s), Together(c, d))
  BY DEF Given
<1> HIDE DEF b, s, c, d, o
<1>8. /\ DOMAIN o = DOMAIN b \cup DOMAIN s \cup DOMAIN c \cup DOMAIN d
      /\ \A f \in DOMAIN b : o[f] = b[f]
      /\ \A f \in DOMAIN s \ DOMAIN b : o[f] = s[f]
      /\ \A f \in DOMAIN c \ (DOMAIN b \cup DOMAIN s) : o[f] = c[f]
      /\ \A f \in DOMAIN d \ (DOMAIN b \cup DOMAIN s \cup DOMAIN c) : o[f] = d[f]
  BY <1>7 DEF Together
<1>9. Told \subseteq DOMAIN o
  BY <1>1, <1>2, <1>8 DEF Told
<1>10. \A f \in Switches : o[f] \in BOOLEAN
  <2>1. o.control \in BOOLEAN /\ o.video_playback \in BOOLEAN /\ o.audio_playback \in BOOLEAN
        /\ o.record \in BOOLEAN
    BY <1>1, <1>3, <1>8
  <2>2. o.video \in BOOLEAN /\ o.audio \in BOOLEAN /\ o.otg \in BOOLEAN /\ o.v4l2 \in BOOLEAN
    BY <1>1, <1>4, <1>8
  <2>3. o.window \in BOOLEAN /\ o.flex \in BOOLEAN
    BY <1>2, <1>5, <1>6, <1>8
  <2> QED BY <2>1, <2>2, <2>3 DEF Switches
<1>11. /\ o.keyboard \in Modes \cup {"auto"} /\ o.mouse \in Modes \cup {"auto"}
  BY <1>1, <1>3, <1>8
<1>12. o.source \in {"camera", "display"} /\ o.gamepad \in GamepadModes \cup {"disabled"}
  BY <1>2, <1>5, <1>8
<1> QED BY <1>9, <1>10, <1>11, <1>12 DEF o

(* What a step of the parser leaves alone, and what it sets.               *)
LEMMA CaptureFields ==
  ASSUME NEW o, Told \subseteq DOMAIN o, \A f \in Switches : o[f] \in BOOLEAN
  PROVE  LET p == CaptureOf(o) IN
         /\ DOMAIN p = DOMAIN o
         /\ \A f \in Told \ {"video", "video_playback", "audio_playback", "audio"} : p[f] = o[f]
         /\ p.video_playback \in BOOLEAN /\ p.video \in BOOLEAN
         /\ p.audio_playback \in BOOLEAN /\ p.audio \in BOOLEAN
         /\ p.video_playback => p.video /\ p.window
         /\ p.audio_playback => p.audio
<1> DEFINE p == CaptureOf(o)
           playback == o.video_playback /\ o.window /\ o.video
           audible == o.audio_playback /\ o.audio
           video == o.video /\ (playback \/ o.record \/ o.v4l2)
           audio == o.audio /\ (audible \/ o.record)
           require == o.require_audio \/ (~video /\ ~o.otg)
<1>1. p = [o EXCEPT !.video = video, !.video_playback = playback,
                    !.audio_playback = audible, !.audio = audio, !.require_audio = require]
  BY DEF CaptureOf
<1>2. /\ o.video \in BOOLEAN /\ o.video_playback \in BOOLEAN /\ o.window \in BOOLEAN
      /\ o.audio \in BOOLEAN /\ o.audio_playback \in BOOLEAN /\ o.record \in BOOLEAN
      /\ o.v4l2 \in BOOLEAN
  BY DEF Switches
<1>3. /\ video \in BOOLEAN /\ playback \in BOOLEAN /\ audible \in BOOLEAN /\ audio \in BOOLEAN
  OBVIOUS
<1>4. (playback => video /\ o.window) /\ (audible => audio)
  BY <1>2
<1> HIDE DEF p, video, playback, audible, audio, require
<1>5. DOMAIN p = DOMAIN o
  BY <1>1
<1>6. /\ p.video = video /\ p.video_playback = playback
      /\ p.audio_playback = audible /\ p.audio = audio
  BY <1>1 DEF Told
<1>7. \A f \in Told \ {"video", "video_playback", "audio_playback", "audio"} : p[f] = o[f]
  BY <1>1 DEF Told
<1>8. p.window = o.window
  BY <1>7 DEF Told
<1> QED BY <1>3, <1>4, <1>5, <1>6, <1>7, <1>8 DEF p

(* The modes of the input devices once they are resolved. *)
LEMMA ResolvedModes ==
  ASSUME NEW mode, NEW o, NEW default
  PROVE  LET r == Resolved(mode, o, default) IN
         /\ mode \in {"auto", "uhid_or_aoa"} => r \in {"aoa", "uhid", default}
         /\ mode \notin {"auto", "uhid_or_aoa"} => r = mode
BY DEF Resolved

(* An input is resolved only when there is something to control on a       *)
(* display ...                                                             *)
LEMMA InputFields ==
  ASSUME NEW o, Told \subseteq DOMAIN o
  PROVE  LET p == InputsOf(o) IN
         /\ DOMAIN p = DOMAIN o
         /\ \A f \in Told \ {"keyboard", "mouse", "gamepad"} : p[f] = o[f]
         /\ ~(o.control /\ o.source = "display") => p = o
         /\ o.control /\ o.source = "display" =>
              /\ p.keyboard = Resolved(o.keyboard, o, "sdk")
              /\ p.mouse = Resolved(o.mouse, o, IF o.video_playback THEN "sdk" ELSE "disabled")
              /\ p.gamepad = Resolved(o.gamepad, o, "disabled")
<1> DEFINE p == InputsOf(o)
           k == Resolved(o.keyboard, o, "sdk")
           m == Resolved(o.mouse, o, IF o.video_playback THEN "sdk" ELSE "disabled")
           g == Resolved(o.gamepad, o, "disabled")
<1>1. p = IF ~o.control \/ o.source # "display" THEN o
          ELSE [o EXCEPT !.keyboard = k, !.mouse = m, !.gamepad = g]
  BY DEF InputsOf
<1> HIDE DEF p, k, m, g
<1>2. CASE ~(o.control /\ o.source = "display")
  BY <1>1, <1>2 DEF p, k, m, g
<1>3. CASE o.control /\ o.source = "display"
  <2>1. p = [o EXCEPT !.keyboard = k, !.mouse = m, !.gamepad = g]
    BY <1>1, <1>3
  <2>2. DOMAIN p = DOMAIN o
    BY <2>1
  <2>3. p.keyboard = k /\ p.mouse = m /\ p.gamepad = g
    BY <2>1 DEF Told
  <2>4. \A f \in Told \ {"keyboard", "mouse", "gamepad"} : p[f] = o[f]
    BY <2>1 DEF Told
  <2> QED BY <1>3, <2>2, <2>3, <2>4 DEF p, k, m, g
<1> QED BY <1>2, <1>3

(* ... and disabled with a camera. *)
LEMMA CameraFields ==
  ASSUME NEW o, Told \subseteq DOMAIN o
  PROVE  LET p == CameraOf(o) IN
         /\ DOMAIN p = DOMAIN o
         /\ \A f \in Told \ {"keyboard", "mouse", "gamepad"} : p[f] = o[f]
         /\ IF o.source = "camera" /\ o.control
            THEN p.keyboard = "disabled" /\ p.mouse = "disabled" /\ p.gamepad = "disabled"
            ELSE p = o
<1> DEFINE p == CameraOf(o)
<1>1. CASE o.source = "camera" /\ o.control
  <2>1. p = [o EXCEPT !.keyboard = "disabled", !.mouse = "disabled", !.gamepad = "disabled"]
    BY <1>1 DEF CameraOf
  <2> HIDE DEF p
  <2>2. DOMAIN p = DOMAIN o
    BY <2>1
  <2>3. p.keyboard = "disabled" /\ p.mouse = "disabled" /\ p.gamepad = "disabled"
    BY <2>1 DEF Told
  <2>4. \A f \in Told \ {"keyboard", "mouse", "gamepad"} : p[f] = o[f]
    BY <2>1 DEF Told
  <2> QED BY <1>1, <2>2, <2>3, <2>4 DEF p
<1>2. CASE ~(o.source = "camera" /\ o.control)
  BY <1>2 DEF CameraOf
<1> QED BY <1>1, <1>2

(* The audio source is no option the promises are about. *)
LEMMA AudioFields ==
  ASSUME NEW o, Told \subseteq DOMAIN o
  PROVE  LET p == AudioOf(o) IN
         /\ DOMAIN p = DOMAIN o
         /\ \A f \in Told : p[f] = o[f]
<1> DEFINE p == AudioOf(o)
           source == IF o.source # "display" THEN "mic"
                     ELSE IF o.audio_dup THEN "playback" ELSE "output"
<1>1. p = o \/ p = [o EXCEPT !.audio_source = source]
  BY DEF AudioOf
<1> HIDE DEF p, source
<1>2. ASSUME p = [o EXCEPT !.audio_source = source], NEW f \in DOMAIN o, f # "audio_source"
      PROVE  p[f] = o[f]
  BY <1>2
<1>3. DOMAIN p = DOMAIN o
  BY <1>1
<1>4. ASSUME NEW f \in Told, p # o
      PROVE  p[f] = o[f]
  <2>1. f # "audio_source"
    BY DEF Told
  <2>2. p = [o EXCEPT !.audio_source = source] /\ f \in DOMAIN o
    BY <1>1, <1>4
  <2> QED BY <2>1, <2>2, <1>2
<1> QED BY <1>3, <1>4 DEF p

(* What the command line lets through satisfies what is asserted later,    *)
(* whatever options are given.                                             *)
THEOREM AcceptedConsistent ==
  ASSUME NEW words, Accepted(words)
  PROVE  Assertions(Parsed(words))
<1> DEFINE g == Given(words)
           c == CaptureOf(g)
           o == Options(words)
           q == CameraOf(o)
           p == Parsed(words)
<1>1. /\ Told \subseteq DOMAIN g /\ \A f \in Switches : g[f] \in BOOLEAN
      /\ g.source \in {"camera", "display"}
      /\ g.keyboard \in Modes \cup {"auto"} /\ g.mouse \in Modes \cup {"auto"}
      /\ g.gamepad \in GamepadModes \cup {"disabled"}
  BY GivenFields
<1>2. o = InputsOf(c) /\ p = AudioOf(q)
  BY DEF Options, Parsed
<1>3. /\ V4l2Allowed(o) /\ SdkMouseAllowed(o, g.mouse) /\ DisplayAllowed(o) /\ OtgAllowed(o)
      /\ RecordAllowed(p)
  BY DEF Accepted
<1> HIDE DEF g, c, o, q, p
<1>4. /\ DOMAIN c = DOMAIN g
      /\ \A f \in Told \ {"video", "video_playback", "audio_playback", "audio"} : c[f] = g[f]
      /\ c.video_playback \in BOOLEAN /\ c.video \in BOOLEAN
      /\ c.audio_playback \in BOOLEAN /\ c.audio \in BOOLEAN
      /\ c.video_playback => c.video /\ c.window
      /\ c.audio_playback => c.audio
  BY <1>1, CaptureFields DEF c
<1>5. /\ DOMAIN o = DOMAIN c
      /\ \A f \in Told \ {"keyboard", "mouse", "gamepad"} : o[f] = c[f]
      /\ ~(c.control /\ c.source = "display") => o = c
      /\ c.control /\ c.source = "display" =>
           /\ o.keyboard = Resolved(c.keyboard, c, "sdk")
           /\ o.mouse = Resolved(c.mouse, c, IF c.video_playback THEN "sdk" ELSE "disabled")
           /\ o.gamepad = Resolved(c.gamepad, c, "disabled")
  BY <1>1, <1>2, <1>4, InputFields
<1>6. /\ DOMAIN q = DOMAIN o
      /\ \A f \in Told \ {"keyboard", "mouse", "gamepad"} : q[f] = o[f]
      /\ IF o.source = "camera" /\ o.control
         THEN q.keyboard = "disabled" /\ q.mouse = "disabled" /\ q.gamepad = "disabled"
         ELSE q = o
  BY <1>1, <1>4, <1>5, CameraFields DEF q
<1>7. \A f \in Told : p[f] = q[f]
  BY <1>1, <1>2, <1>4, <1>5, <1>6, AudioFields
<1>8. /\ p.video = c.video /\ p.audio = c.audio /\ p.video_playback = c.video_playback
      /\ p.audio_playback = c.audio_playback /\ p.window = c.window /\ p.v4l2 = o.v4l2
      /\ p.video = o.video /\ p.flex = o.flex /\ p.otg = o.otg /\ p.control = o.control
      /\ p.source = o.source /\ p.video_playback = o.video_playback
  BY <1>5, <1>6, <1>7 DEF Told
<1>9. p.keyboard = q.keyboard /\ p.mouse = q.mouse /\ p.gamepad = q.gamepad
  BY <1>7 DEF Told
<1>10. /\ c.control \in BOOLEAN /\ c.source \in {"camera", "display"} /\ c.otg \in BOOLEAN
       /\ c.keyboard = g.keyboard /\ c.mouse = g.mouse /\ c.gamepad = g.gamepad
  BY <1>1, <1>4 DEF Told, Switches
<1>11. /\ p.control = c.control /\ p.source = c.source /\ p.otg = c.otg
  BY <1>5, <1>8 DEF Told
<1>a. (p.video_playback => p.video) /\ (p.audio_playback => p.audio) /\ (p.video_playback => p.window)
  BY <1>4, <1>8
<1>b. p.v4l2 => p.video
  BY <1>3, <1>8 DEF V4l2Allowed
<1>c. p.record => p.video \/ p.audio
  BY <1>3 DEF RecordAllowed
<1>d. p.flex => p.control /\ p.source = "display"
  BY <1>3, <1>8 DEF DisplayAllowed
<1>e. p.otg => {p.keyboard, p.mouse, p.gamepad} \subseteq {"aoa", "disabled"}
  <2>1. p.otg => {o.keyboard, o.mouse, o.gamepad} \subseteq {"aoa", "disabled"}
    BY <1>3, <1>8 DEF OtgAllowed
  <2> QED BY <1>6, <1>9, <2>1
<1>f. p.control /\ p.mouse = "sdk" => p.video_playback
  <2>1. ASSUME p.control, p.mouse = "sdk" PROVE p.video_playback
    <3>1. q = o /\ p.source = "display" /\ o.mouse = "sdk"
      BY <1>6, <1>8, <1>9, <1>10, <1>11, <2>1
    <3>2. o.mouse = Resolved(g.mouse, c, IF c.video_playback THEN "sdk" ELSE "disabled")
      BY <1>5, <1>10, <1>11, <2>1, <3>1
    <3>3. g.mouse = "sdk" => p.video_playback
      BY <1>3, <1>8, <2>1, <3>1 DEF SdkMouseAllowed
    <3>4. g.mouse # "sdk" => c.video_playback
      BY <3>1, <3>2, ResolvedModes
    <3> QED BY <1>8, <3>3, <3>4
  <2> QED BY <2>1
<1>g. p.control /\ ~p.otg => /\ "auto" \notin {p.keyboard, p.mouse}
                             /\ "uhid_or_aoa" \notin {p.keyboard, p.mouse, p.gamepad}
  <2>1. ASSUME p.control PROVE /\ "auto" \notin {p.keyboard, p.mouse}
                               /\ "uhid_or_aoa" \notin {p.keyboard, p.mouse, p.gamepad}
    <3>1. CASE p.source = "camera"
      BY <1>6, <1>8, <1>9, <2>1, <3>1
    <3>2. CASE p.source = "display"
      <4>1. q = o
        BY <1>6, <1>8, <3>2
      <4>2. /\ o.keyboard = Resolved(g.keyboard, c, "sdk")
            /\ o.mouse = Resolved(g.mouse, c, IF c.video_playback THEN "sdk" ELSE "disabled")
            /\ o.gamepad = Resolved(g.gamepad, c, "disabled")
        BY <1>5, <1>10, <1>11, <2>1, <3>2
      <4>3. o.keyboard \notin {"auto", "uhid_or_aoa"}
        BY <4>2, ResolvedModes
      <4>4. o.mouse \notin {"auto", "uhid_or_aoa"}
        <5>1. (IF c.video_playback THEN "sdk" ELSE "disabled") \in {"sdk", "disabled"}
          OBVIOUS
        <5> QED BY <4>2, <5>1, ResolvedModes
      <4>5. o.gamepad # "uhid_or_aoa"
        BY <4>2, ResolvedModes
      <4> QED BY <1>9, <4>1, <4>3, <4>4, <4>5
    <3> QED BY <1>10, <1>11, <3>1, <3>2
  <2> QED BY <2>1
<1> QED BY <1>a, <1>b, <1>c, <1>d, <1>e, <1>f, <1>g DEF Assertions, p

(* The promises the rest of the client relies on hold of every command     *)
(* line that a session goes on with.                                       *)
THEOREM SessionAcceptedIsConsistent == Spec => []AcceptedIsConsistent
<1>1. AcceptedIsConsistent
  BY AcceptedConsistent DEF AcceptedIsConsistent
<1> QED BY <1>1, PTL

-----------------------------------------------------------------------------
(* A session, whatever it was asked for and wherever it fails.  What has    *)
(* been done is what was wanted, in order (DoneInOrder), up to where the    *)
(* main thread is (DoneSoFar), and all of it in the loop (AllDone); a       *)
(* thread that runs is joined further on (JoinAhead), and an object that is *)
(* there is destroyed further on and until then is there (ObjectsAhead).    *)
AllObjects == {"file_pusher", "recorder", "controller", "acksync", "usb", "usb_handle",
               "aoa", "screen", "v4l2", "timeout"}

(* Where the end joins a thread. *)
ScrcpyJoin(t) ==
  CASE t = "timeout" -> 9 [] t = "video_demuxer" -> 11 [] t = "audio_demuxer" -> 12
    [] t = "aoa" -> 14 [] t = "fps" -> 19 [] t = "disconnect" -> 20
    [] t = "controller" -> 22 [] t = "receiver" -> 23 [] t = "recorder" -> 25
    [] t = "file_pusher" -> 27 [] t = "server" -> 29

OtgJoin(t) ==
  CASE t = "aoa" -> 5 [] t = "usb_events" -> 7 [] t = "fps" -> 10 [] t = "disconnect" -> 11

JoinAt(t) == IF "otg" \in opt THEN OtgJoin(t) ELSE ScrcpyJoin(t)

ThreadNames ==
  IF "otg" \in opt THEN {"aoa", "usb_events", "fps", "disconnect"}
  ELSE {"timeout", "video_demuxer", "audio_demuxer", "aoa", "fps", "disconnect",
        "controller", "receiver", "recorder", "file_pusher", "server"}

(* Where it shows the dialog, and where it destroys an object. *)
DialogAt == IF "otg" \in opt THEN 4 ELSE 8

ScrcpyDestroy(o) ==
  CASE o = "timeout" -> 10 [] o = "v4l2" -> 13 [] o = "aoa" -> 15 [] o = "usb_handle" -> 16
    [] o = "usb" -> 17 [] o = "acksync" -> 18 [] o = "screen" -> 21 [] o = "controller" -> 24
    [] o = "recorder" -> 26 [] o = "file_pusher" -> 28

OtgDestroy(o) ==
  CASE o = "aoa" -> 6 [] o = "usb_handle" -> 8 [] o = "usb" -> 9 [] o = "screen" -> 12

DestroyAt(o) == IF "otg" \in opt THEN OtgDestroy(o) ELSE ScrcpyDestroy(o)

ObjectNames == IF "otg" \in opt THEN {"aoa", "usb_handle", "usb", "screen"} ELSE AllObjects

(* The duty p is still ahead, and will be done.                             *)
StillAhead(p) == main.i <= p /\ Applies(Ending[p])

(* What never finds its way into the end: acksync, when there is no device. *)
Lost(o) == o = "acksync" /\ main.failed = "usb_device"

(* Nothing is there before the session and after it.                        *)
MainAt ==
  /\ DOMAIN main = {"phase", "i", "lost", "failed"}
  /\ main.phase \in {"parse", "up", "loop", "down", "done"}
  /\ main.i \in Nat /\ main.i >= 1
  /\ main.phase = "parse" => did = {} /\ made = {} /\ threads = {} /\ ~shown
  /\ main.phase = "done" => threads = {} /\ \A o \in made : Lost(o)
  /\ "playback" \in opt => "window" \in opt

(* What is done besides the steps rests on one of them.                     *)
DoneOnTop ==
  /\ "usb_callback" \in did => "otg" \in opt /\ "usb_handle" \in did
  /\ "file_thread" \in did => "file_pusher" \in did
  /\ "file_pusher" \in did => "otg" \notin opt
  /\ "disconnect" \in did => "screen" \in did
  /\ shown => "screen" \in did

(* The await for the connection leaves no mark.                             *)
Due(j) == Wanted(Steps[j]) /\ Steps[j] # "connection"

(* In a set of things done no step is without those before it. *)
InStepOrder(done) ==
  \A j \in DOMAIN Steps : Steps[j] \in done =>
    Wanted(Steps[j]) /\ \A k \in DOMAIN Steps : k < j /\ Due(k) => Steps[k] \in done

DoneInOrder == InStepOrder(did)

(* What is wanted is done up to where the initialization is, *)
DoneSoFar ==
  main.phase = "up" => \A j \in DOMAIN Steps : Steps[j] \in did <=> Due(j) /\ j < main.i

(* and all of it in the loop.                                               *)
AllDone ==
  main.phase = "loop" => \A j \in DOMAIN Steps : Due(j) => Steps[j] \in did

ObjectsMade == made \subseteq ObjectNames /\ made \subseteq did

(* A thread that runs is still to be joined; the window is shown until the  *)
(* dialog has been.                                                         *)
JoinAhead ==
  /\ threads \subseteq ThreadNames
  /\ \A t \in threads : Applies(Ending[JoinAt(t)])
  /\ main.phase = "down" => \A t \in threads : main.i <= JoinAt(t)
  /\ shown /\ main.phase = "down" => main.i <= DialogAt

(* What was made is there until its turn to be destroyed comes.             *)
ObjectsAhead ==
  /\ main.phase \in {"up", "loop"} => \A o \in ObjectNames : o \in did => o \in made
  /\ main.phase = "down" => \A o \in ObjectNames : o \in did /\ StillAhead(DestroyAt(o)) => o \in made
  /\ main.phase = "down" => \A o \in made : StillAhead(DestroyAt(o)) \/ Lost(o)

SessionInv == MainAt /\ DoneOnTop /\ DoneInOrder /\ DoneSoFar /\ AllDone /\ ObjectsMade
              /\ JoinAhead /\ ObjectsAhead

(* The steps, one by one, *)
LEMMA OtgStepsAre ==
  /\ Len(OtgSteps) = 6 /\ DOMAIN OtgSteps = 1 .. 6
  /\ OtgSteps[1] = "usb" /\ OtgSteps[2] = "usb_device"
  /\ OtgSteps[3] = "usb_handle" /\ OtgSteps[4] = "aoa"
  /\ OtgSteps[5] = "aoa_thread" /\ OtgSteps[6] = "screen"
BY DEF OtgSteps

(* of a session over sockets, *)
LEMMA ScrcpyStepsAre ==
  /\ Len(ScrcpySteps) = 19 /\ DOMAIN ScrcpySteps = 1 .. 19
  /\ ScrcpySteps[1] = "server_thread" /\ ScrcpySteps[2] = "connection"
  /\ ScrcpySteps[3] = "file_pusher" /\ ScrcpySteps[4] = "recorder"
  /\ ScrcpySteps[5] = "recorder_thread" /\ ScrcpySteps[6] = "controller"
  /\ ScrcpySteps[7] = "acksync" /\ ScrcpySteps[8] = "usb"
  /\ ScrcpySteps[9] = "usb_device" /\ ScrcpySteps[10] = "usb_handle"
  /\ ScrcpySteps[11] = "aoa" /\ ScrcpySteps[12] = "aoa_thread"
  /\ ScrcpySteps[13] = "controller_threads" /\ ScrcpySteps[14] = "screen"
  /\ ScrcpySteps[15] = "v4l2" /\ ScrcpySteps[16] = "video_demuxer"
  /\ ScrcpySteps[17] = "audio_demuxer" /\ ScrcpySteps[18] = "timeout"
  /\ ScrcpySteps[19] = "timeout_thread"
BY DEF ScrcpySteps

(* and the duties of the end. *)
LEMMA OtgEndIs ==
  /\ Len(OtgEnd) = 12 /\ DOMAIN OtgEnd = 1 .. 12
  /\ OtgEnd[1] = <<"stop", "aoa", "aoa_thread">>
  /\ OtgEnd[2] = <<"stop", "usb_events", "usb_callback">>
  /\ OtgEnd[3] = <<"interrupt", "fps", "screen">>
  /\ OtgEnd[4] = <<"dialog", "screen", "screen">>
  /\ OtgEnd[5] = <<"join", "aoa", "aoa">>
  /\ OtgEnd[6] = <<"destroy", "aoa", "aoa">>
  /\ OtgEnd[7] = <<"join", "usb_events", "usb_callback">>
  /\ OtgEnd[8] = <<"destroy", "usb_handle", "usb_handle">>
  /\ OtgEnd[9] = <<"destroy", "usb", "usb">>
  /\ OtgEnd[10] = <<"join", "fps", "screen">>
  /\ OtgEnd[11] = <<"join", "disconnect", "disconnect">>
  /\ OtgEnd[12] = <<"destroy", "screen", "screen">>
BY DEF OtgEnd

(* of both sessions. *)
LEMMA ScrcpyEndIs ==
  /\ Len(ScrcpyEnd) = 29 /\ DOMAIN ScrcpyEnd = 1 .. 29
  /\ ScrcpyEnd[1] = <<"stop", "timeout", "timeout_thread">>
  /\ ScrcpyEnd[2] = <<"stop", "aoa", "aoa_thread">>
  /\ ScrcpyEnd[3] = <<"stop", "controller", "controller_threads">>
  /\ ScrcpyEnd[4] = <<"stop", "file_pusher", "file_thread">>
  /\ ScrcpyEnd[5] = <<"stop", "recorder", "recorder">>
  /\ ScrcpyEnd[6] = <<"interrupt", "fps", "screen">>
  /\ ScrcpyEnd[7] = <<"stop", "server", "server_thread">>
  /\ ScrcpyEnd[8] = <<"dialog", "screen", "screen">>
  /\ ScrcpyEnd[9] = <<"join", "timeout", "timeout_thread">>
  /\ ScrcpyEnd[10] = <<"destroy", "timeout", "timeout">>
  /\ ScrcpyEnd[11] = <<"join", "video_demuxer", "video_demuxer">>
  /\ ScrcpyEnd[12] = <<"join", "audio_demuxer", "audio_demuxer">>
  /\ ScrcpyEnd[13] = <<"destroy", "v4l2", "v4l2">>
  /\ ScrcpyEnd[14] = <<"join", "aoa", "aoa_thread">>
  /\ ScrcpyEnd[15] = <<"destroy", "aoa", "aoa_thread">>
  /\ ScrcpyEnd[16] = <<"destroy", "usb_handle", "aoa_thread">>
  /\ ScrcpyEnd[17] = <<"destroy", "usb", "aoa_thread">>
  /\ ScrcpyEnd[18] = <<"destroy", "acksync", "aoa_thread">>
  /\ ScrcpyEnd[19] = <<"join", "fps", "screen">>
  /\ ScrcpyEnd[20] = <<"join", "disconnect", "disconnect">>
  /\ ScrcpyEnd[21] = <<"destroy", "screen", "screen">>
  /\ ScrcpyEnd[22] = <<"join", "controller", "controller_threads">>
  /\ ScrcpyEnd[23] = <<"join", "receiver", "controller_threads">>
  /\ ScrcpyEnd[24] = <<"destroy", "controller", "controller">>
  /\ ScrcpyEnd[25] = <<"join", "recorder", "recorder_thread">>
  /\ ScrcpyEnd[26] = <<"destroy", "recorder", "recorder">>
  /\ ScrcpyEnd[27] = <<"join", "file_pusher", "file_thread">>
  /\ ScrcpyEnd[28] = <<"destroy", "file_pusher", "file_pusher">>
  /\ ScrcpyEnd[29] = <<"join", "server", "server_thread">>
BY DEF ScrcpyEnd

(* A number is one of those up to the last. *)
LEMMA UpTo6 == \A j \in 1 .. 6 :
     \/ j = 1 \/ j = 2 \/ j = 3 \/ j = 4 \/ j = 5 \/ j = 6
OBVIOUS

(* Twelve, *)
LEMMA UpTo12 == \A j \in 1 .. 12 :
     \/ j = 1 \/ j = 2 \/ j = 3 \/ j = 4 \/ j = 5 \/ j = 6 \/ j = 7
     \/ j = 8 \/ j = 9 \/ j = 10 \/ j = 11 \/ j = 12
OBVIOUS

(* nineteen *)
LEMMA UpTo19 == \A j \in 1 .. 19 :
     \/ j = 1 \/ j = 2 \/ j = 3 \/ j = 4 \/ j = 5 \/ j = 6 \/ j = 7
     \/ j = 8 \/ j = 9 \/ j = 10 \/ j = 11 \/ j = 12 \/ j = 13 \/ j = 14
     \/ j = 15 \/ j = 16 \/ j = 17 \/ j = 18 \/ j = 19
OBVIOUS

(* and twenty-nine of them. *)
LEMMA UpTo29 == \A j \in 1 .. 29 :
     \/ j = 1 \/ j = 2 \/ j = 3 \/ j = 4 \/ j = 5 \/ j = 6 \/ j = 7
     \/ j = 8 \/ j = 9 \/ j = 10 \/ j = 11 \/ j = 12 \/ j = 13 \/ j = 14
     \/ j = 15 \/ j = 16 \/ j = 17 \/ j = 18 \/ j = 19 \/ j = 20 \/ j = 21
     \/ j = 22 \/ j = 23 \/ j = 24 \/ j = 25 \/ j = 26 \/ j = 27 \/ j = 28
     \/ j = 29
OBVIOUS

(* The number of a step. *)
OtgNumber(s) ==
  CASE s = "usb" -> 1 [] s = "usb_device" -> 2 [] s = "usb_handle" -> 3
    [] s = "aoa" -> 4 [] s = "aoa_thread" -> 5 [] s = "screen" -> 6

ScrcpyNumber(s) ==
  CASE s = "server_thread" -> 1 [] s = "connection" -> 2 [] s = "file_pusher" -> 3
    [] s = "recorder" -> 4 [] s = "recorder_thread" -> 5 [] s = "controller" -> 6
    [] s = "acksync" -> 7 [] s = "usb" -> 8 [] s = "usb_device" -> 9
    [] s = "usb_handle" -> 10 [] s = "aoa" -> 11 [] s = "aoa_thread" -> 12
    [] s = "controller_threads" -> 13 [] s = "screen" -> 14 [] s = "v4l2" -> 15
    [] s = "video_demuxer" -> 16 [] s = "audio_demuxer" -> 17 [] s = "timeout" -> 18
    [] s = "timeout_thread" -> 19

(* No step comes twice. *)
LEMMA StepOnce ==
  /\ DOMAIN Steps = 1 .. Len(Steps) /\ Len(Steps) \in Nat
  /\ \A j, k \in DOMAIN Steps : Steps[j] = Steps[k] => j = k
  /\ \A j \in DOMAIN Steps : Steps[j] \notin {"usb_callback", "file_thread", "disconnect"}
<1> DEFINE OnTop == {"usb_callback", "file_thread", "disconnect"}
<1>1. \A j \in 1 .. 6 : OtgNumber(OtgSteps[j]) = j /\ OtgSteps[j] \notin OnTop
  <2> SUFFICES ASSUME NEW j \in 1 .. 6
               PROVE  OtgNumber(OtgSteps[j]) = j /\ OtgSteps[j] \notin OnTop
    OBVIOUS
  <2>1. CASE j = 1
    BY <2>1, OtgStepsAre DEF OtgNumber
  <2>2. CASE j = 2
    BY <2>2, OtgStepsAre DEF OtgNumber
  <2>3. CASE j = 3
    BY <2>3, OtgStepsAre DEF OtgNumber
  <2>4. CASE j = 4
    BY <2>4, OtgStepsAre DEF OtgNumber
  <2>5. CASE j = 5
    BY <2>5, OtgStepsAre DEF OtgNumber
  <2>6. CASE j = 6
    BY <2>6, OtgStepsAre DEF OtgNumber
  <2> QED BY UpTo6, <2>1, <2>2, <2>3, <2>4, <2>5, <2>6
<1>2. \A j \in 1 .. 19 : ScrcpyNumber(ScrcpySteps[j]) = j /\ ScrcpySteps[j] \notin OnTop
  <2> SUFFICES ASSUME NEW j \in 1 .. 19
               PROVE  ScrcpyNumber(ScrcpySteps[j]) = j /\ ScrcpySteps[j] \notin OnTop
    OBVIOUS
  <2>1. CASE j = 1
    BY <2>1, ScrcpyStepsAre DEF ScrcpyNumber
  <2>2. CASE j = 2
    BY <2>2, ScrcpyStepsAre DEF ScrcpyNumber
  <2>3. CASE j = 3
    BY <2>3, ScrcpyStepsAre DEF ScrcpyNumber
  <2>4. CASE j = 4
    BY <2>4, ScrcpyStepsAre DEF ScrcpyNumber
  <2>5. CASE j = 5
    BY <2>5, ScrcpyStepsAre DEF ScrcpyNumber
  <2>6. CASE j = 6
    BY <2>6, ScrcpyStepsAre DEF ScrcpyNumber
  <2>7. CASE j = 7
    BY <2>7, ScrcpyStepsAre DEF ScrcpyNumber
  <2>8. CASE j = 8
    BY <2>8, ScrcpyStepsAre DEF ScrcpyNumber
  <2>9. CASE j = 9
    BY <2>9, ScrcpyStepsAre DEF ScrcpyNumber
  <2>10. CASE j = 10
    BY <2>10, ScrcpyStepsAre DEF ScrcpyNumber
  <2>11. CASE j = 11
    BY <2>11, ScrcpyStepsAre DEF ScrcpyNumber
  <2>12. CASE j = 12
    BY <2>12, ScrcpyStepsAre DEF ScrcpyNumber
  <2>13. CASE j = 13
    BY <2>13, ScrcpyStepsAre DEF ScrcpyNumber
  <2>14. CASE j = 14
    BY <2>14, ScrcpyStepsAre DEF ScrcpyNumber
  <2>15. CASE j = 15
    BY <2>15, ScrcpyStepsAre DEF ScrcpyNumber
  <2>16. CASE j = 16
    BY <2>16, ScrcpyStepsAre DEF ScrcpyNumber
  <2>17. CASE j = 17
    BY <2>17, ScrcpyStepsAre DEF ScrcpyNumber
  <2>18. CASE j = 18
    BY <2>18, ScrcpyStepsAre DEF ScrcpyNumber
  <2>19. CASE j = 19
    BY <2>19, ScrcpyStepsAre DEF ScrcpyNumber
  <2> QED
    BY UpTo19, <2>1, <2>2, <2>3, <2>4, <2>5, <2>6, <2>7, <2>8, <2>9, <2>10,
       <2>11, <2>12, <2>13, <2>14, <2>15, <2>16, <2>17, <2>18, <2>19
<1>3. CASE "otg" \in opt
  <2>1. Steps = OtgSteps /\ DOMAIN Steps = 1 .. 6 /\ Len(Steps) = 6
    BY <1>3, OtgStepsAre DEF Steps
  <2>2. \A j \in DOMAIN Steps : OtgNumber(Steps[j]) = j
    BY <1>1, <2>1
  <2>3. \A j, k \in DOMAIN Steps : Steps[j] = Steps[k] => j = k
    BY <2>2
  <2> QED BY <1>1, <2>1, <2>3
<1>4. CASE "otg" \notin opt
  <2>1. Steps = ScrcpySteps /\ DOMAIN Steps = 1 .. 19 /\ Len(Steps) = 19
    BY <1>4, ScrcpyStepsAre DEF Steps
  <2>2. \A j \in DOMAIN Steps : ScrcpyNumber(Steps[j]) = j
    BY <1>2, <2>1
  <2>3. \A j, k \in DOMAIN Steps : Steps[j] = Steps[k] => j = k
    BY <2>2
  <2> QED BY <1>2, <2>1, <2>3
<1> QED BY <1>3, <1>4

(* Every thread is joined in one place. *)
LEMMA JoinIs ==
  ASSUME NEW t \in ThreadNames
  PROVE  /\ JoinAt(t) \in DOMAIN Ending /\ JoinAt(t) \in Nat
         /\ Ending[JoinAt(t)][1] = "join" /\ Ending[JoinAt(t)][2] = t
<1>1. CASE "otg" \in opt
  <2>1. /\ JoinAt(t) = OtgJoin(t) /\ Ending = OtgEnd
        /\ t \in {"aoa", "usb_events", "fps", "disconnect"}
    BY <1>1 DEF JoinAt, Ending, ThreadNames
  <2>2. /\ OtgJoin(t) \in 1 .. 12 
        /\ OtgEnd[OtgJoin(t)][1] = "join" /\ OtgEnd[OtgJoin(t)][2] = t
    <3>1. CASE t = "aoa"
      BY <3>1, <2>1, OtgEndIs DEF OtgJoin
    <3>2. CASE t = "usb_events"
      BY <3>2, <2>1, OtgEndIs DEF OtgJoin
    <3>3. CASE t = "fps"
      BY <3>3, <2>1, OtgEndIs DEF OtgJoin
    <3>4. CASE t = "disconnect"
      BY <3>4, <2>1, OtgEndIs DEF OtgJoin
    <3> QED BY <2>1, <3>1, <3>2, <3>3, <3>4
  <2> QED BY <2>1, <2>2, OtgEndIs
<1>2. CASE "otg" \notin opt
  <2>1. /\ JoinAt(t) = ScrcpyJoin(t) /\ Ending = ScrcpyEnd
        /\ t \in {"timeout", "video_demuxer", "audio_demuxer", "aoa", "fps", "disconnect",
                   "controller", "receiver", "recorder", "file_pusher", "server"}
    BY <1>2 DEF JoinAt, Ending, ThreadNames
  <2>2. /\ ScrcpyJoin(t) \in 1 .. 29
        /\ ScrcpyEnd[ScrcpyJoin(t)][1] = "join" /\ ScrcpyEnd[ScrcpyJoin(t)][2] = t
    <3>1. CASE t = "timeout"
      BY <3>1, <2>1, ScrcpyEndIs DEF ScrcpyJoin
    <3>2. CASE t = "video_demuxer"
      BY <3>2, <2>1, ScrcpyEndIs DEF ScrcpyJoin
    <3>3. CASE t = "audio_demuxer"
      BY <3>3, <2>1, ScrcpyEndIs DEF ScrcpyJoin
    <3>4. CASE t = "aoa"
      BY <3>4, <2>1, ScrcpyEndIs DEF ScrcpyJoin
    <3>5. CASE t = "fps"
      BY <3>5, <2>1, ScrcpyEndIs DEF ScrcpyJoin
    <3>6. CASE t = "disconnect"
      BY <3>6, <2>1, ScrcpyEndIs DEF ScrcpyJoin
    <3>7. CASE t = "controller"
      BY <3>7, <2>1, ScrcpyEndIs DEF ScrcpyJoin
    <3>8. CASE t = "receiver"
      BY <3>8, <2>1, ScrcpyEndIs DEF ScrcpyJoin
    <3>9. CASE t = "recorder"
      BY <3>9, <2>1, ScrcpyEndIs DEF ScrcpyJoin
    <3>10. CASE t = "file_pusher"
      BY <3>10, <2>1, ScrcpyEndIs DEF ScrcpyJoin
    <3>11. CASE t = "server"
      BY <3>11, <2>1, ScrcpyEndIs DEF ScrcpyJoin
    <3> QED BY <2>1, <3>1, <3>2, <3>3, <3>4, <3>5, <3>6, <3>7, <3>8, <3>9, <3>10, <3>11
  <2> QED BY <2>1, <2>2, ScrcpyEndIs
<1> QED BY <1>1, <1>2

(* Every object is destroyed in one place ... *)
LEMMA DestroyIs ==
  ASSUME NEW o \in ObjectNames
  PROVE  /\ DestroyAt(o) \in DOMAIN Ending /\ DestroyAt(o) \in Nat
         /\ Ending[DestroyAt(o)][1] = "destroy" /\ Ending[DestroyAt(o)][2] = o
<1>1. CASE "otg" \in opt
  <2>1. /\ DestroyAt(o) = OtgDestroy(o) /\ Ending = OtgEnd
        /\ o \in {"aoa", "usb_handle", "usb", "screen"}
    BY <1>1 DEF DestroyAt, Ending, ObjectNames
  <2>2. /\ OtgDestroy(o) \in 1 .. 12
        /\ OtgEnd[OtgDestroy(o)][1] = "destroy" /\ OtgEnd[OtgDestroy(o)][2] = o
    <3>1. CASE o = "aoa"
      BY <3>1, <2>1, OtgEndIs DEF OtgDestroy
    <3>2. CASE o = "usb_handle"
      BY <3>2, <2>1, OtgEndIs DEF OtgDestroy
    <3>3. CASE o = "usb"
      BY <3>3, <2>1, OtgEndIs DEF OtgDestroy
    <3>4. CASE o = "screen"
      BY <3>4, <2>1, OtgEndIs DEF OtgDestroy
    <3> QED BY <2>1, <3>1, <3>2, <3>3, <3>4
  <2> QED BY <2>1, <2>2, OtgEndIs
<1>2. CASE "otg" \notin opt
  <2>1. /\ DestroyAt(o) = ScrcpyDestroy(o) /\ Ending = ScrcpyEnd
        /\ o \in AllObjects
    BY <1>2 DEF DestroyAt, Ending, ObjectNames
  <2>2. /\ ScrcpyDestroy(o) \in 1 .. 29
        /\ ScrcpyEnd[ScrcpyDestroy(o)][1] = "destroy" /\ ScrcpyEnd[ScrcpyDestroy(o)][2] = o
    <3>1. CASE o = "timeout"
      BY <3>1, <2>1, ScrcpyEndIs DEF ScrcpyDestroy
    <3>2. CASE o = "v4l2"
      BY <3>2, <2>1, ScrcpyEndIs DEF ScrcpyDestroy
    <3>3. CASE o = "aoa"
      BY <3>3, <2>1, ScrcpyEndIs DEF ScrcpyDestroy
    <3>4. CASE o = "usb_handle"
      BY <3>4, <2>1, ScrcpyEndIs DEF ScrcpyDestroy
    <3>5. CASE o = "usb"
      BY <3>5, <2>1, ScrcpyEndIs DEF ScrcpyDestroy
    <3>6. CASE o = "acksync"
      BY <3>6, <2>1, ScrcpyEndIs DEF ScrcpyDestroy
    <3>7. CASE o = "screen"
      BY <3>7, <2>1, ScrcpyEndIs DEF ScrcpyDestroy
    <3>8. CASE o = "controller"
      BY <3>8, <2>1, ScrcpyEndIs DEF ScrcpyDestroy
    <3>9. CASE o = "recorder"
      BY <3>9, <2>1, ScrcpyEndIs DEF ScrcpyDestroy
    <3>10. CASE o = "file_pusher"
      BY <3>10, <2>1, ScrcpyEndIs DEF ScrcpyDestroy
    <3> QED BY <2>1, <3>1, <3>2, <3>3, <3>4, <3>5, <3>6, <3>7, <3>8, <3>9, <3>10 DEF AllObjects
  <2> QED BY <2>1, <2>2, ScrcpyEndIs
<1> QED BY <1>1, <1>2

(* ... and every such duty is the one of its object; there is one dialog ... *)
LEMMA DutyIs ==
  ASSUME NEW j \in DOMAIN Ending
  PROVE  /\ j \in Nat /\ j \in 1 .. Len(Ending)
         /\ Ending[j][1] = "destroy" => Ending[j][2] \in ObjectNames /\ DestroyAt(Ending[j][2]) = j
         /\ Ending[j][1] = "dialog" => j = DialogAt
<1>1. CASE "otg" \in opt
  <2>1. /\ Ending = OtgEnd /\ j \in 1 .. 12 /\ ObjectNames = {"aoa", "usb_handle", "usb", "screen"}
        /\ DialogAt = 4 /\ Len(Ending) = 12
    BY <1>1, OtgEndIs DEF Ending, ObjectNames, DialogAt
  <2>2. /\ OtgEnd[j][1] = "destroy" => /\ OtgEnd[j][2] \in {"aoa", "usb_handle", "usb", "screen"}
                                        /\ OtgDestroy(OtgEnd[j][2]) = j
        /\ OtgEnd[j][1] = "dialog" => j = 4
    <3>1. CASE j = 1
      BY <3>1, OtgEndIs
    <3>2. CASE j = 2
      BY <3>2, OtgEndIs
    <3>3. CASE j = 3
      BY <3>3, OtgEndIs
    <3>4. CASE j = 4
      BY <3>4, OtgEndIs
    <3>5. CASE j = 5
      BY <3>5, OtgEndIs
    <3>6. CASE j = 6
      BY <3>6, OtgEndIs DEF OtgDestroy
    <3>7. CASE j = 7
      BY <3>7, OtgEndIs
    <3>8. CASE j = 8
      BY <3>8, OtgEndIs DEF OtgDestroy
    <3>9. CASE j = 9
      BY <3>9, OtgEndIs DEF OtgDestroy
    <3>10. CASE j = 10
      BY <3>10, OtgEndIs
    <3>11. CASE j = 11
      BY <3>11, OtgEndIs
    <3>12. CASE j = 12
      BY <3>12, OtgEndIs DEF OtgDestroy
    <3> QED
      BY <2>1, UpTo12, <3>1, <3>2, <3>3, <3>4, <3>5, <3>6, <3>7, <3>8, <3>9, <3>10,
         <3>11, <3>12
  <2> QED BY <1>1, <2>1, <2>2 DEF DestroyAt
<1>2. CASE "otg" \notin opt
  <2>1. /\ Ending = ScrcpyEnd /\ j \in 1 .. 29 /\ ObjectNames = AllObjects
        /\ DialogAt = 8 /\ Len(Ending) = 29
    BY <1>2, ScrcpyEndIs DEF Ending, ObjectNames, DialogAt
  <2>2. /\ ScrcpyEnd[j][1] = "destroy" => /\ ScrcpyEnd[j][2] \in AllObjects
                                           /\ ScrcpyDestroy(ScrcpyEnd[j][2]) = j
        /\ ScrcpyEnd[j][1] = "dialog" => j = 8
    <3>1. CASE j = 1
      BY <3>1, ScrcpyEndIs
    <3>2. CASE j = 2
      BY <3>2, ScrcpyEndIs
    <3>3. CASE j = 3
      BY <3>3, ScrcpyEndIs
    <3>4. CASE j = 4
      BY <3>4, ScrcpyEndIs
    <3>5. CASE j = 5
      BY <3>5, ScrcpyEndIs
    <3>6. CASE j = 6
      BY <3>6, ScrcpyEndIs
    <3>7. CASE j = 7
      BY <3>7, ScrcpyEndIs
    <3>8. CASE j = 8
      BY <3>8, ScrcpyEndIs
    <3>9. CASE j = 9
      BY <3>9, ScrcpyEndIs
    <3>10. CASE j = 10
      BY <3>10, ScrcpyEndIs DEF ScrcpyDestroy, AllObjects
    <3>11. CASE j = 11
      BY <3>11, ScrcpyEndIs
    <3>12. CASE j = 12
      BY <3>12, ScrcpyEndIs
    <3>13. CASE j = 13
      BY <3>13, ScrcpyEndIs DEF ScrcpyDestroy, AllObjects
    <3>14. CASE j = 14
      BY <3>14, ScrcpyEndIs
    <3>15. CASE j = 15
      BY <3>15, ScrcpyEndIs DEF ScrcpyDestroy, AllObjects
    <3>16. CASE j = 16
      BY <3>16, ScrcpyEndIs DEF ScrcpyDestroy, AllObjects
    <3>17. CASE j = 17
      BY <3>17, ScrcpyEndIs DEF ScrcpyDestroy, AllObjects
    <3>18. CASE j = 18
      BY <3>18, ScrcpyEndIs DEF ScrcpyDestroy, AllObjects
    <3>19. CASE j = 19
      BY <3>19, ScrcpyEndIs
    <3>20. CASE j = 20
      BY <3>20, ScrcpyEndIs
    <3>21. CASE j = 21
      BY <3>21, ScrcpyEndIs DEF ScrcpyDestroy, AllObjects
    <3>22. CASE j = 22
      BY <3>22, ScrcpyEndIs
    <3>23. CASE j = 23
      BY <3>23, ScrcpyEndIs
    <3>24. CASE j = 24
      BY <3>24, ScrcpyEndIs DEF ScrcpyDestroy, AllObjects
    <3>25. CASE j = 25
      BY <3>25, ScrcpyEndIs
    <3>26. CASE j = 26
      BY <3>26, ScrcpyEndIs DEF ScrcpyDestroy, AllObjects
    <3>27. CASE j = 27
      BY <3>27, ScrcpyEndIs
    <3>28. CASE j = 28
      BY <3>28, ScrcpyEndIs DEF ScrcpyDestroy, AllObjects
    <3>29. CASE j = 29
      BY <3>29, ScrcpyEndIs
    <3> QED
      BY <2>1, UpTo29, <3>1, <3>2, <3>3, <3>4, <3>5, <3>6, <3>7, <3>8, <3>9, <3>10,
         <3>11, <3>12, <3>13, <3>14, <3>15, <3>16, <3>17, <3>18, <3>19, <3>20, <3>21, <3>22,
         <3>23, <3>24, <3>25, <3>26, <3>27, <3>28, <3>29
  <2> QED BY <1>2, <2>1, <2>2 DEF DestroyAt
<1> QED BY <1>1, <1>2

(* ... if there is a screen, before the FPS counter is joined.              *)
LEMMA DialogIs ==
  /\ DialogAt \in DOMAIN Ending /\ DialogAt \in Nat /\ DialogAt >= 1
  /\ Ending[DialogAt][1] = "dialog" /\ Ending[DialogAt][3] = "screen"
  /\ "fps" \in ThreadNames /\ JoinAt("fps") \in Nat /\ DialogAt < JoinAt("fps")
  /\ Ending[JoinAt("fps")][3] = "screen"
<1>1. CASE "otg" \in opt
  <2>1. /\ DialogAt = 4 /\ Ending = OtgEnd /\ JoinAt("fps") = 10 /\ "fps" \in ThreadNames
    BY <1>1 DEF DialogAt, Ending, JoinAt, OtgJoin, ThreadNames
  <2> QED BY <2>1, OtgEndIs
<1>2. CASE "otg" \notin opt
  <2>1. /\ DialogAt = 8 /\ Ending = ScrcpyEnd /\ JoinAt("fps") = 19 /\ "fps" \in ThreadNames
    BY <1>2 DEF DialogAt, Ending, JoinAt, ScrcpyJoin, ThreadNames
  <2> QED BY <2>1, ScrcpyEndIs
<1> QED BY <1>1, <1>2

-----------------------------------------------------------------------------
(* Parts that are asked for together. *)
LEMMA AskedTogether ==
  /\ "otg" \in opt => /\ Wanted("usb") /\ Wanted("usb_handle") /\ Wanted("aoa")
                      /\ Wanted("aoa_thread") /\ Wanted("screen")
  /\ Wanted("usb") <=> Wanted("aoa_thread")
  /\ Wanted("usb_device") <=> Wanted("aoa_thread")
  /\ Wanted("usb_handle") <=> Wanted("aoa_thread")
  /\ Wanted("aoa") <=> Wanted("aoa_thread")
  /\ Wanted("acksync") <=> Wanted("aoa_thread")
  /\ Wanted("controller") <=> Wanted("controller_threads")
  /\ Wanted("recorder") <=> Wanted("recorder_thread")
  /\ Wanted("timeout") <=> Wanted("timeout_thread")
<1>1. \A s : s \notin {"server_thread", "connection"} =>
        (Wanted(s) <=> ("list" \in opt => "otg" \in opt) /\ Asked(s))
  BY DEF Wanted
<1>2. \A s : s \in {"acksync", "usb", "usb_device", "usb_handle", "aoa", "aoa_thread"} =>
        (Asked(s) <=> opt \cap {"aoa", "otg"} # {})
  BY DEF Asked
<1>3. /\ Asked("controller") <=> "control" \in opt
      /\ Asked("controller_threads") <=> "control" \in opt
      /\ Asked("recorder") <=> "record" \in opt
      /\ Asked("recorder_thread") <=> "record" \in opt
      /\ Asked("timeout") <=> "time_limit" \in opt
      /\ Asked("timeout_thread") <=> "time_limit" \in opt
  BY DEF Asked
<1>4. Asked("screen") <=> opt \cap {"window", "otg"} # {}
  BY DEF Asked
<1> QED BY <1>1, <1>2, <1>3, <1>4

(* What a stream of a session is for is asked for with it. *)
LEMMA AskedBySinks ==
  ASSUME "otg" \notin opt, "playback" \in opt => "window" \in opt,
         Wanted("video_demuxer") \/ Wanted("audio_demuxer")
  PROVE  /\ "playback" \in opt => Wanted("screen")
         /\ "v4l2" \in opt => Wanted("v4l2")
         /\ "record" \in opt => Wanted("recorder")
<1>1. "list" \notin opt
  BY DEF Wanted
<1>2. /\ Asked("screen") <=> opt \cap {"window", "otg"} # {}
      /\ Asked("v4l2") <=> "v4l2" \in opt
      /\ Asked("recorder") <=> "record" \in opt
  BY DEF Asked
<1> QED BY <1>1, <1>2 DEF Wanted

(* So in a set of steps in order, whoever uses an object comes with it.     *)
LEMMA ComesAfter ==
  ASSUME NEW done, InStepOrder(done), NEW j \in DOMAIN Steps, NEW k \in DOMAIN Steps, k < j,
         NEW s, NEW r, s = Steps[j], r = Steps[k], s \in done, r # "connection",
         Wanted(s) => Wanted(r)
  PROVE  r \in done
BY DEF InStepOrder, Due

(* In OTG mode AOA needs the device. *)
LEMMA OtgNeeds ==
  ASSUME NEW done, InStepOrder(done), "otg" \in opt
  PROVE  /\ "aoa_thread" \in done => "aoa" \in done
         /\ "aoa" \in done => "usb" \in done /\ "usb_handle" \in done
         /\ "usb_handle" \in done => "usb" \in done
<1>1. /\ Steps[1] = "usb" /\ Steps[3] = "usb_handle" /\ Steps[4] = "aoa" /\ Steps[5] = "aoa_thread"
      /\ DOMAIN Steps = 1 .. 6
  BY OtgStepsAre DEF Steps
<1>2. /\ 1 \in DOMAIN Steps /\ 3 \in DOMAIN Steps /\ 4 \in DOMAIN Steps /\ 5 \in DOMAIN Steps
  BY <1>1
<1>3. Wanted("usb") /\ Wanted("usb_handle") /\ Wanted("aoa")
  BY AskedTogether
<1>4. "aoa_thread" \in done => "aoa" \in done
  BY <1>1, <1>2, <1>3, ComesAfter
<1>5. "aoa" \in done => "usb" \in done
  BY <1>1, <1>2, <1>3, ComesAfter
<1>6. "aoa" \in done => "usb_handle" \in done
  BY <1>1, <1>2, <1>3, ComesAfter
<1>7. "usb_handle" \in done => "usb" \in done
  BY <1>1, <1>2, <1>3, ComesAfter
<1> QED BY <1>4, <1>5, <1>6, <1>7

(* Otherwise every thread comes after the objects it uses. *)
LEMMA ScrcpyNeeds ==
  ASSUME NEW done, InStepOrder(done), "otg" \notin opt,
         "playback" \in opt => "window" \in opt
  PROVE  /\ "aoa_thread" \in done => "aoa" \in done /\ "usb" \in done /\ "usb_handle" \in done
         /\ "aoa_thread" \in done => "acksync" \in done
         /\ "controller_threads" \in done /\ "aoa" \in opt => "aoa_thread" \in done
         /\ "controller_threads" \in done => "controller" \in done
         /\ "recorder_thread" \in done => "recorder" \in done
         /\ "timeout_thread" \in done => "timeout" \in done
         /\ "video_demuxer" \in done => /\ "playback" \in opt => "screen" \in done
                                        /\ "v4l2" \in opt => "v4l2" \in done
                                        /\ "record" \in opt => "recorder" \in done
         /\ "audio_demuxer" \in done => ("record" \in opt => "recorder" \in done)
<1>1. Steps = ScrcpySteps /\ DOMAIN Steps = 1 .. 19
  BY ScrcpyStepsAre DEF Steps
<1>2. /\ Steps[4] = "recorder" /\ Steps[5] = "recorder_thread" /\ Steps[6] = "controller"
      /\ Steps[7] = "acksync" /\ Steps[8] = "usb" /\ Steps[10] = "usb_handle"
      /\ Steps[11] = "aoa" /\ Steps[12] = "aoa_thread" /\ Steps[13] = "controller_threads" /\ Steps[14] = "screen"
      /\ Steps[15] = "v4l2" /\ Steps[16] = "video_demuxer" /\ Steps[17] = "audio_demuxer"
      /\ Steps[18] = "timeout" /\ Steps[19] = "timeout_thread"
  BY <1>1, ScrcpyStepsAre
<1>3. \A k \in 4 .. 19 : k \in DOMAIN Steps
  BY <1>1
<1>4. \A s \in done, j \in DOMAIN Steps : s = Steps[j] => Wanted(s)
  BY DEF InStepOrder
<1>a. "aoa_thread" \in done => "aoa" \in done
  <2>1. Steps[12] = "aoa_thread" /\ Steps[11] = "aoa" /\ 12 \in DOMAIN Steps /\ 11 \in DOMAIN Steps
    BY <1>2, <1>3
  <2> QED BY <2>1, AskedTogether, ComesAfter
<1>b. "aoa_thread" \in done => "usb" \in done
  <2>1. Steps[12] = "aoa_thread" /\ Steps[8] = "usb" /\ 12 \in DOMAIN Steps /\ 8 \in DOMAIN Steps
    BY <1>2, <1>3
  <2> QED BY <2>1, AskedTogether, ComesAfter
<1>c. "aoa_thread" \in done => "usb_handle" \in done
  <2>1. /\ Steps[12] = "aoa_thread" /\ Steps[10] = "usb_handle"
        /\ 12 \in DOMAIN Steps /\ 10 \in DOMAIN Steps
    BY <1>2, <1>3
  <2> QED BY <2>1, AskedTogether, ComesAfter
<1>d. "controller_threads" \in done => "controller" \in done
  <2>1. /\ Steps[13] = "controller_threads" /\ Steps[6] = "controller"
        /\ 13 \in DOMAIN Steps /\ 6 \in DOMAIN Steps
    BY <1>2, <1>3
  <2> QED BY <2>1, AskedTogether, ComesAfter
<1>e. "recorder_thread" \in done => "recorder" \in done
  <2>1. /\ Steps[5] = "recorder_thread" /\ Steps[4] = "recorder"
        /\ 5 \in DOMAIN Steps /\ 4 \in DOMAIN Steps
    BY <1>2, <1>3
  <2> QED BY <2>1, AskedTogether, ComesAfter
<1>f. "timeout_thread" \in done => "timeout" \in done
  <2>1. /\ Steps[19] = "timeout_thread" /\ Steps[18] = "timeout"
        /\ 19 \in DOMAIN Steps /\ 18 \in DOMAIN Steps
    BY <1>2, <1>3
  <2> QED BY <2>1, AskedTogether, ComesAfter
<1>g. ASSUME "video_demuxer" \in done
      PROVE  /\ "playback" \in opt => "screen" \in done
             /\ "v4l2" \in opt => "v4l2" \in done
             /\ "record" \in opt => "recorder" \in done
  <2>1. /\ Steps[16] = "video_demuxer" /\ Steps[14] = "screen" /\ Steps[15] = "v4l2"
        /\ Steps[4] = "recorder" /\ 16 \in DOMAIN Steps /\ 14 \in DOMAIN Steps
        /\ 15 \in DOMAIN Steps /\ 4 \in DOMAIN Steps
    BY <1>2, <1>3
  <2>2. Wanted("video_demuxer")
    BY <1>4, <1>g, <2>1
  <2>3. /\ "playback" \in opt => Wanted("screen")
        /\ "v4l2" \in opt => Wanted("v4l2")
        /\ "record" \in opt => Wanted("recorder")
    BY <2>2, AskedBySinks
  <2>4. "playback" \in opt => "screen" \in done
    BY <1>g, <2>1, <2>3, ComesAfter
  <2>5. "v4l2" \in opt => "v4l2" \in done
    BY <1>g, <2>1, <2>3, ComesAfter
  <2>6. "record" \in opt => "recorder" \in done
    BY <1>g, <2>1, <2>3, ComesAfter
  <2> QED BY <2>4, <2>5, <2>6
<1>h. ASSUME "audio_demuxer" \in done, "record" \in opt PROVE "recorder" \in done
  <2>1. /\ Steps[17] = "audio_demuxer" /\ Steps[4] = "recorder"
        /\ 17 \in DOMAIN Steps /\ 4 \in DOMAIN Steps
    BY <1>2, <1>3
  <2>2. Wanted("audio_demuxer")
    BY <1>4, <1>h, <2>1
  <2>3. Wanted("recorder")
    BY <1>h, <2>2, AskedBySinks
  <2> QED BY <1>h, <2>1, <2>3, ComesAfter
<1>i. "aoa_thread" \in done => "acksync" \in done
  <2>1. Steps[12] = "aoa_thread" /\ Steps[7] = "acksync" /\ 12 \in DOMAIN Steps /\ 7 \in DOMAIN Steps
    BY <1>2, <1>3
  <2> QED BY <2>1, AskedTogether, ComesAfter
<1>j. ASSUME "controller_threads" \in done, "aoa" \in opt PROVE "aoa_thread" \in done
  <2>1. /\ Steps[13] = "controller_threads" /\ Steps[12] = "aoa_thread"
        /\ 13 \in DOMAIN Steps /\ 12 \in DOMAIN Steps
    BY <1>2, <1>3
  <2>2. Wanted("controller_threads")
    BY <1>4, <1>j, <2>1
  <2>3. Wanted("aoa_thread")
    BY <1>j, <2>2 DEF Wanted, Asked
  <2> QED BY <1>j, <2>1, <2>3, ComesAfter
<1> QED BY <1>a, <1>b, <1>c, <1>d, <1>e, <1>f, <1>g, <1>h, <1>i, <1>j

-----------------------------------------------------------------------------
(* What a running thread uses is there, and will be until it is joined. *)
LEMMA OtgUses ==
  ASSUME MainAt, DoneOnTop, DoneInOrder, JoinAhead, "otg" \in opt,
         NEW t \in threads, NEW o \in Uses(t)
  PROVE  /\ o \in did /\ o \in ObjectNames
         /\ JoinAt(t) < DestroyAt(o) /\ Applies(Ending[DestroyAt(o)])
<1>1. /\ t \in {"aoa", "usb_events", "fps", "disconnect"} /\ Ending = OtgEnd
      /\ JoinAt(t) = OtgJoin(t) /\ DestroyAt(o) = OtgDestroy(o)
      /\ ObjectNames = {"aoa", "usb_handle", "usb", "screen"}
  BY DEF JoinAhead, ThreadNames, Ending, JoinAt, DestroyAt, ObjectNames
<1>2. OtgEnd[OtgJoin(t)][3] \in did
  BY <1>1 DEF JoinAhead, Applies
<1>3. /\ "aoa" \in did => "usb" \in did /\ "usb_handle" \in did
      /\ "usb_handle" \in did => "usb" \in did
  BY OtgNeeds DEF DoneInOrder
<1>4. CASE t = "aoa"
  <2>1. OtgJoin(t) = 5 /\ "aoa" \in did
    BY <1>2, <1>4, OtgEndIs DEF OtgJoin
  <2>2. o = "aoa" \/ o = "usb_handle" \/ o = "usb"
    BY <1>4 DEF Uses, WithAcks
  <2>3. OtgDestroy(o) \in {6, 8, 9} /\ OtgEnd[OtgDestroy(o)][3] \in did
    BY <1>3, <2>1, <2>2, OtgEndIs DEF OtgDestroy
  <2> QED BY <1>1, <1>3, <2>1, <2>2, <2>3 DEF Applies
<1>5. CASE t = "usb_events"
  <2>1. OtgJoin(t) = 7 /\ "usb_callback" \in did
    BY <1>2, <1>5, OtgEndIs DEF OtgJoin
  <2>2. o = "usb_handle" \/ o = "usb"
    BY <1>5 DEF Uses
  <2>3. "usb_handle" \in did /\ "usb" \in did
    BY <1>3, <2>1 DEF DoneOnTop
  <2>4. OtgDestroy(o) \in {8, 9} /\ OtgEnd[OtgDestroy(o)][3] \in did
    BY <2>2, <2>3, OtgEndIs DEF OtgDestroy
  <2> QED BY <1>1, <2>1, <2>2, <2>3, <2>4 DEF Applies
<1>6. CASE t = "fps" \/ t = "disconnect"
  <2>1. OtgJoin(t) \in {10, 11} /\ "screen" \in did
    BY <1>2, <1>6, OtgEndIs DEF OtgJoin, DoneOnTop
  <2>2. o = "screen"
    BY <1>6 DEF Uses
  <2>3. OtgDestroy(o) = 12 /\ OtgEnd[12][3] = "screen"
    BY <2>2, OtgEndIs DEF OtgDestroy
  <2> QED BY <1>1, <2>1, <2>2, <2>3 DEF Applies
<1> QED BY <1>1, <1>4, <1>5, <1>6

(* The same of a session over sockets, where the receiver is joined later  *)
(* than the acksync it uses is destroyed.                                   *)
LEMMA ScrcpyUses ==
  ASSUME MainAt, DoneOnTop, DoneInOrder, JoinAhead, "otg" \notin opt,
         NEW t \in threads, NEW o \in Uses(t)
  PROVE  /\ o \in did /\ o \in ObjectNames
         /\ \/ JoinAt(t) < DestroyAt(o)
            \/ t = "receiver" /\ o = "acksync"
         /\ Applies(Ending[DestroyAt(o)])
<1>1. /\ t \in {"timeout", "video_demuxer", "audio_demuxer", "aoa", "fps", "disconnect",
                "controller", "receiver", "recorder", "file_pusher", "server"}
      /\ Ending = ScrcpyEnd /\ ObjectNames = AllObjects
      /\ JoinAt(t) = ScrcpyJoin(t) /\ DestroyAt(o) = ScrcpyDestroy(o)
  BY DEF JoinAhead, ThreadNames, Ending, JoinAt, DestroyAt, ObjectNames
<1>2. ScrcpyEnd[ScrcpyJoin(t)][3] \in did
  BY <1>1 DEF JoinAhead, Applies
<1>3. /\ "aoa_thread" \in did => "aoa" \in did /\ "usb" \in did /\ "usb_handle" \in did
      /\ "aoa_thread" \in did => "acksync" \in did
      /\ "controller_threads" \in did /\ "aoa" \in opt => "aoa_thread" \in did
      /\ "controller_threads" \in did => "controller" \in did
      /\ "recorder_thread" \in did => "recorder" \in did
      /\ "timeout_thread" \in did => "timeout" \in did
      /\ "video_demuxer" \in did => /\ "playback" \in opt => "screen" \in did
                                    /\ "v4l2" \in opt => "v4l2" \in did
                                    /\ "record" \in opt => "recorder" \in did
      /\ "audio_demuxer" \in did => ("record" \in opt => "recorder" \in did)
  BY ScrcpyNeeds DEF DoneInOrder, MainAt
<1>4. CASE t = "timeout"
  <2>1. ScrcpyJoin(t) = 9 /\ "timeout" \in did
    BY <1>2, <1>3, <1>4, ScrcpyEndIs DEF ScrcpyJoin
  <2>2. o = "timeout"
    BY <1>4 DEF Uses
  <2>3. ScrcpyDestroy(o) = 10 /\ ScrcpyEnd[10][3] = "timeout" /\ o \in AllObjects
    BY <2>2, ScrcpyEndIs DEF ScrcpyDestroy, AllObjects
  <2> QED BY <1>1, <2>1, <2>2, <2>3 DEF Applies
<1>5. CASE t = "video_demuxer"
  <2>1. ScrcpyJoin(t) = 11 /\ "video_demuxer" \in did
    BY <1>2, <1>5, ScrcpyEndIs DEF ScrcpyJoin
  <2>2. \/ o = "screen" /\ "playback" \in opt
        \/ o = "v4l2" /\ "v4l2" \in opt
        \/ o = "recorder" /\ "record" \in opt
    BY <1>5 DEF Uses
  <2>3. o \in did /\ o \in AllObjects
    BY <1>3, <2>1, <2>2 DEF AllObjects
  <2>4. ScrcpyDestroy(o) \in {13, 21, 26} /\ ScrcpyEnd[ScrcpyDestroy(o)][3] = o
    BY <2>2, ScrcpyEndIs DEF ScrcpyDestroy
  <2> QED BY <1>1, <2>1, <2>3, <2>4 DEF Applies
<1>6. CASE t = "audio_demuxer"
  <2>1. ScrcpyJoin(t) = 12 /\ "audio_demuxer" \in did
    BY <1>2, <1>6, ScrcpyEndIs DEF ScrcpyJoin
  <2>2. o = "recorder" /\ "record" \in opt
    BY <1>6 DEF Uses
  <2>3. o \in did /\ o \in AllObjects
    BY <1>3, <2>1, <2>2 DEF AllObjects
  <2>4. ScrcpyDestroy(o) = 26 /\ ScrcpyEnd[26][3] = o
    BY <2>2, ScrcpyEndIs DEF ScrcpyDestroy
  <2> QED BY <1>1, <2>1, <2>3, <2>4 DEF Applies
<1>7. CASE t = "aoa"
  <2>1. ScrcpyJoin(t) = 14 /\ "aoa_thread" \in did
    BY <1>2, <1>7, ScrcpyEndIs DEF ScrcpyJoin
  <2>2. o = "aoa" \/ o = "usb_handle" \/ o = "usb" \/ o = "acksync"
    BY <1>7 DEF Uses
  <2>3. o \in did /\ o \in AllObjects
    BY <1>3, <2>1, <2>2 DEF AllObjects
  <2>4. ScrcpyDestroy(o) \in {15, 16, 17, 18} /\ ScrcpyEnd[ScrcpyDestroy(o)][3] = "aoa_thread"
    BY <2>2, ScrcpyEndIs DEF ScrcpyDestroy
  <2> QED BY <1>1, <2>1, <2>3, <2>4 DEF Applies
<1>8. CASE t = "fps" \/ t = "disconnect"
  <2>1. ScrcpyJoin(t) \in {19, 20} /\ "screen" \in did
    BY <1>2, <1>8, ScrcpyEndIs DEF ScrcpyJoin, DoneOnTop
  <2>2. o = "screen"
    BY <1>8 DEF Uses
  <2>3. ScrcpyDestroy(o) = 21 /\ ScrcpyEnd[21][3] = "screen" /\ o \in AllObjects
    BY <2>2, ScrcpyEndIs DEF ScrcpyDestroy, AllObjects
  <2> QED BY <1>1, <2>1, <2>2, <2>3 DEF Applies
<1>9. CASE t = "controller" \/ t = "receiver"
  <2>1. ScrcpyJoin(t) \in {22, 23} /\ "controller" \in did /\ "controller_threads" \in did
    BY <1>2, <1>3, <1>9, ScrcpyEndIs DEF ScrcpyJoin
  <2>2. \/ o = "controller"
        \/ t = "receiver" /\ o = "acksync" /\ "aoa" \in opt
    BY <1>9 DEF Uses, WithAcks
  <2>3. CASE o = "controller"
    <3>1. ScrcpyDestroy(o) = 24 /\ ScrcpyEnd[24][3] = "controller" /\ o \in AllObjects
      BY <2>3, ScrcpyEndIs DEF ScrcpyDestroy, AllObjects
    <3> QED BY <1>1, <2>1, <2>3, <3>1 DEF Applies
  <2>4. CASE t = "receiver" /\ o = "acksync" /\ "aoa" \in opt
    <3>1. ScrcpyDestroy(o) = 18 /\ ScrcpyEnd[18][3] = "aoa_thread" /\ o \in AllObjects
      BY <2>4, ScrcpyEndIs DEF ScrcpyDestroy, AllObjects
    <3>2. "aoa_thread" \in did /\ "acksync" \in did
      BY <1>3, <2>1, <2>4
    <3> QED BY <1>1, <2>4, <3>1, <3>2 DEF Applies
  <2> QED BY <2>2, <2>3, <2>4
<1>10. CASE t = "recorder"
  <2>1. ScrcpyJoin(t) = 25 /\ "recorder" \in did
    BY <1>2, <1>3, <1>10, ScrcpyEndIs DEF ScrcpyJoin
  <2>2. o = "recorder"
    BY <1>10 DEF Uses
  <2>3. ScrcpyDestroy(o) = 26 /\ ScrcpyEnd[26][3] = "recorder" /\ o \in AllObjects
    BY <2>2, ScrcpyEndIs DEF ScrcpyDestroy, AllObjects
  <2> QED BY <1>1, <2>1, <2>2, <2>3 DEF Applies
<1>11. CASE t = "file_pusher"
  <2>1. ScrcpyJoin(t) = 27 /\ "file_pusher" \in did
    BY <1>2, <1>11, ScrcpyEndIs DEF ScrcpyJoin, DoneOnTop
  <2>2. o = "file_pusher"
    BY <1>11 DEF Uses
  <2>3. ScrcpyDestroy(o) = 28 /\ ScrcpyEnd[28][3] = "file_pusher" /\ o \in AllObjects
    BY <2>2, ScrcpyEndIs DEF ScrcpyDestroy, AllObjects
  <2> QED BY <1>1, <2>1, <2>2, <2>3 DEF Applies
<1>12. CASE t = "server"
  BY <1>12 DEF Uses
<1> QED BY <1>1, <1>4, <1>5, <1>6, <1>7, <1>8, <1>9, <1>10, <1>11, <1>12

(* Only over sockets is there an acksync to destroy. *)
LEMMA AckIsDestroyed ==
  ASSUME "otg" \notin opt, main.phase = "down", main.i \in Nat, ~AckDestroyed
  PROVE  main.i <= DestroyAt("acksync")
<1>1. DestroyAt("acksync") = 18 /\ Ending = ScrcpyEnd
  BY DEF DestroyAt, ScrcpyDestroy, Ending
<1>2. 18 \in DOMAIN ScrcpyEnd /\ ScrcpyEnd[18] = <<"destroy", "acksync", "aoa_thread">>
  BY ScrcpyEndIs
<1>3. ~(18 < main.i)
  BY <1>1, <1>2 DEF AckDestroyed, In
<1> QED BY <1>1, <1>3

(* So whatever a thread uses is there, *)
LEMMA UsedIsThere == SessionInv => UsedObjectsLive
<1> SUFFICES ASSUME SessionInv, NEW t \in threads, NEW o \in Uses(t),
                    ~(t = "receiver" /\ AckDestroyed /\ o = "acksync")
             PROVE  o \in made
  BY DEF UsedObjectsLive
<1>1. MainAt /\ DoneOnTop /\ DoneInOrder /\ JoinAhead /\ ObjectsAhead
  BY DEF SessionInv
<1>2. /\ o \in did /\ o \in ObjectNames /\ Applies(Ending[DestroyAt(o)])
      /\ \/ JoinAt(t) < DestroyAt(o)
         \/ t = "receiver" /\ o = "acksync" /\ "otg" \notin opt
  BY <1>1, OtgUses, ScrcpyUses
<1>3. t \in ThreadNames /\ JoinAt(t) \in Nat /\ DestroyAt(o) \in Nat /\ main.i \in Nat
  BY <1>1, <1>2, JoinIs, DestroyIs DEF JoinAhead, MainAt
<1>4. CASE main.phase = "down"
  <2>1. main.i <= JoinAt(t)
    BY <1>1, <1>4 DEF JoinAhead
  <2>2. CASE JoinAt(t) < DestroyAt(o)
    <3>1. main.i <= DestroyAt(o)
      BY <1>3, <2>1, <2>2
    <3> QED BY <1>1, <1>2, <1>4, <3>1 DEF ObjectsAhead, StillAhead
  <2>3. CASE t = "receiver" /\ o = "acksync" /\ "otg" \notin opt
    <3>1. main.i <= DestroyAt(o)
      BY <1>3, <1>4, <2>3, AckIsDestroyed
    <3> QED BY <1>1, <1>2, <1>4, <3>1 DEF ObjectsAhead, StillAhead
  <2> QED BY <1>2, <2>2, <2>3
<1>5. CASE main.phase # "down"
  <2>1. main.phase \in {"up", "loop"}
    BY <1>1, <1>5 DEF MainAt
  <2> QED BY <1>1, <1>2, <2>1 DEF ObjectsAhead
<1> QED BY <1>4, <1>5

(* and nothing is left when all is done. *)
LEMMA NothingIsLeft == SessionInv => NothingSurvives
BY DEF SessionInv, MainAt, NothingSurvives, In, Lost

-----------------------------------------------------------------------------
(* The lists depend on the options only, which stay once they are parsed.   *)
LEMMA SameOptions ==
  ASSUME opt' = opt
  PROVE  /\ Steps' = Steps /\ Ending' = Ending /\ ThreadNames' = ThreadNames
         /\ ObjectNames' = ObjectNames /\ DialogAt' = DialogAt
         /\ \A t : JoinAt(t)' = JoinAt(t)
         /\ \A o : DestroyAt(o)' = DestroyAt(o)
         /\ \A s : Wanted(s)' = Wanted(s)
         /\ \A done : InStepOrder(done)' = InStepOrder(done)
<1>1. /\ Steps' = Steps /\ Ending' = Ending /\ ThreadNames' = ThreadNames
      /\ ObjectNames' = ObjectNames /\ DialogAt' = DialogAt
  BY DEF Steps, Ending, ThreadNames, ObjectNames, DialogAt
<1>2. /\ \A t : JoinAt(t)' = JoinAt(t)
      /\ \A o : DestroyAt(o)' = DestroyAt(o)
  BY DEF JoinAt, DestroyAt
<1>3. \A s : Wanted(s)' = Wanted(s)
  BY DEF Wanted, Asked
<1>4. \A done : InStepOrder(done)' = InStepOrder(done)
  BY <1>1, <1>3 DEF InStepOrder, Due
<1> QED BY <1>1, <1>2, <1>3, <1>4

(* A step that does nothing to the session but end threads or hide the window. *)
LEMMA SessionRests ==
  ASSUME SessionInv, UNCHANGED <<opt, main, did, made>>, threads' \subseteq threads,
         shown' => shown
  PROVE  SessionInv'
<1>1. /\ MainAt /\ DoneOnTop /\ DoneInOrder /\ DoneSoFar /\ AllDone /\ ObjectsMade
      /\ JoinAhead /\ ObjectsAhead
  BY DEF SessionInv
<1>2. MainAt' /\ DoneOnTop'
  BY <1>1 DEF MainAt, DoneOnTop, Lost
<1>3. DoneInOrder'
  BY <1>1, SameOptions DEF DoneInOrder
<1>4. DoneSoFar' /\ AllDone'
  BY <1>1, SameOptions DEF DoneSoFar, AllDone, Due
<1>5. ObjectsMade'
  BY <1>1, SameOptions DEF ObjectsMade
<1>6. JoinAhead'
  BY <1>1, SameOptions DEF JoinAhead, Applies
<1>7. ObjectsAhead'
  BY <1>1, SameOptions DEF ObjectsAhead, StillAhead, Applies, Lost
<1> QED BY <1>2, <1>3, <1>4, <1>5, <1>6, <1>7 DEF SessionInv

(* The steps of the other threads are of this kind. *)
LEMMA ThreadsRest == ASSUME SessionInv, Threads PROVE SessionInv'
<1>1. UNCHANGED <<opt, main, did, made, shown>>
  BY DEF Threads, ServerSettles, ServerEnds, VideoDemuxer, AudioDemuxer, Controller, Receiver,
         Recorder, AoaReports, Aoa, UsbReports, UsbEvents, Timeout, FilePusher, Fps, Disconnect,
         Rest
<1>2. threads' \subseteq threads
  BY DEF Threads, ServerSettles, ServerEnds, VideoDemuxer, AudioDemuxer, Controller, Receiver,
         Recorder, AoaReports, Aoa, UsbReports, UsbEvents, Timeout, FilePusher, Fps, Disconnect,
         Leave
<1> QED BY <1>1, <1>2, SessionRests

(* At first nothing has been done. *)
LEMMA SessionStarts == Init => SessionInv
<1> SUFFICES ASSUME Init PROVE SessionInv
  OBVIOUS
<1>1. /\ opt = {} /\ main.phase = "parse" /\ main.i = 1
      /\ DOMAIN main = {"phase", "i", "lost", "failed"}
      /\ did = {} /\ made = {} /\ threads = {} /\ shown = FALSE
  BY DEF Init
<1>2. MainAt /\ DoneOnTop
  BY <1>1 DEF MainAt, DoneOnTop
<1>3. DoneInOrder /\ DoneSoFar /\ AllDone /\ ObjectsMade
  BY <1>1 DEF DoneInOrder, InStepOrder, DoneSoFar, AllDone, ObjectsMade
<1>4. JoinAhead /\ ObjectsAhead
  BY <1>1 DEF JoinAhead, ObjectsAhead
<1> QED BY <1>2, <1>3, <1>4 DEF SessionInv

(* The options that a session goes on with are consistent. *)
LEMMA PlaybackHasWindow ==
  ASSUME NEW words, Accepted(words), "playback" \in Features(Parsed(words))
  PROVE  "window" \in Features(Parsed(words))
<1> DEFINE p == Parsed(words)
<1>1. p.video_playback => p.window
  BY AcceptedConsistent DEF Assertions
<1> HIDE DEF p
<1>2. "playback" \in Features(p)
  BY DEF p
<1>3. p.video_playback
  BY <1>2 DEF Features
<1>4. "window" \in Features(p)
  BY <1>1, <1>3 DEF Features
<1> QED BY <1>4 DEF p

(* The command line is parsed. *)
LEMMA ParseStep == ASSUME SessionInv, Parse PROVE SessionInv'
<1>1. /\ did = {} /\ made = {} /\ threads = {} /\ ~shown
      /\ main.phase = "parse" /\ main.i \in Nat /\ ("playback" \in opt => "window" \in opt)
      /\ DOMAIN main = {"phase", "i", "lost", "failed"}
  BY DEF SessionInv, MainAt, Parse, In
<1>2. did' = {} /\ made' = {} /\ threads' = {} /\ ~shown'
  BY <1>1 DEF Parse
<1>3. \/ main'.phase = "up" /\ opt' = Features(Parsed(given)) /\ Accepted(given)
      \/ main'.phase = "done" /\ opt' = opt
  BY <1>1 DEF Parse, Enter
<1>4. main'.i = 1 /\ DOMAIN main' = DOMAIN main
  BY <1>1 DEF Parse, Enter
<1>5. "playback" \in opt' => "window" \in opt'
  BY <1>1, <1>3, PlaybackHasWindow
<1>6. MainAt' /\ DoneOnTop'
  BY <1>1, <1>2, <1>3, <1>4, <1>5 DEF MainAt, DoneOnTop
<1>7. DoneInOrder' /\ AllDone' /\ ObjectsMade'
  BY <1>2, <1>3 DEF DoneInOrder, InStepOrder, AllDone, ObjectsMade
<1>8. DoneSoFar'
  <2>1. \A j \in DOMAIN Steps' : j \in Nat /\ j >= 1
    BY OtgStepsAre, ScrcpyStepsAre DEF Steps
  <2> QED BY <1>2, <1>4, <2>1 DEF DoneSoFar
<1>9. JoinAhead' /\ ObjectsAhead'
  BY <1>2, <1>3 DEF JoinAhead, ObjectsAhead
<1> QED BY <1>6, <1>7, <1>8, <1>9 DEF SessionInv

-----------------------------------------------------------------------------
(* The initialization.  What is done so far is in order. *)
LEMMA SoFarInOrder ==
  ASSUME NEW done, NEW i \in Nat,
         \A j \in DOMAIN Steps : Steps[j] \in done <=> Due(j) /\ j < i
  PROVE  InStepOrder(done)
<1> SUFFICES ASSUME NEW j \in DOMAIN Steps, Steps[j] \in done
             PROVE  /\ Wanted(Steps[j])
                    /\ \A k \in DOMAIN Steps : k < j /\ Due(k) => Steps[k] \in done
  BY DEF InStepOrder
<1>1. Due(j) /\ j < i
  OBVIOUS
<1>2. ASSUME NEW k \in DOMAIN Steps, k < j, Due(k) PROVE Steps[k] \in done
  <2>1. k \in Nat /\ j \in Nat
    BY StepOnce
  <2>2. k < i
    BY <1>1, <1>2, <2>1
  <2> QED BY <1>2, <2>2
<1> QED BY <1>1, <1>2 DEF Due

(* What a step makes is an object that the end knows, *)
LEMMA StepObject ==
  ASSUME NEW j \in DOMAIN Steps
  PROVE  ObjectOf(Steps[j]) = {Steps[j]} \cap ObjectNames
<1>1. CASE "otg" \in opt
  <2>1. Steps = OtgSteps /\ j \in 1 .. 6 /\ ObjectNames = {"aoa", "usb_handle", "usb", "screen"}
    BY <1>1, OtgStepsAre DEF Steps, ObjectNames
  <2>2. Steps[j] \in {"usb", "usb_device", "usb_handle", "aoa", "aoa_thread", "screen"}
    BY <2>1, UpTo6, OtgStepsAre
  <2> QED BY <2>1, <2>2 DEF ObjectOf
<1>2. CASE "otg" \notin opt
  BY <1>2 DEF ObjectOf, ObjectNames, AllObjects
<1> QED BY <1>1, <1>2

(* the threads it starts are joined if it was done, *)
LEMMA StepThreads ==
  ASSUME NEW j \in DOMAIN Steps, NEW t \in ThreadsOf(Steps[j])
  PROVE  /\ t \in ThreadNames
         /\ \/ Ending[JoinAt(t)][3] = Steps[j]
            \/ /\ "otg" \in opt /\ Steps[j] = "aoa_thread"
               /\ Ending[JoinAt(t)][3] = "aoa"
<1> DEFINE s == Steps[j]
<1>1. \/ s = "server_thread" /\ t = "server"
      \/ s = "recorder_thread" /\ t = "recorder"
      \/ s = "controller_threads" /\ t \in {"controller", "receiver"}
      \/ s = "aoa_thread" /\ t = "aoa"
      \/ s = "timeout_thread" /\ t = "timeout"
      \/ s = "video_demuxer" /\ t = "video_demuxer"
      \/ s = "audio_demuxer" /\ t = "audio_demuxer"
  BY DEF ThreadsOf
<1>2. CASE "otg" \in opt
  <2>1. /\ Steps = OtgSteps /\ Ending = OtgEnd /\ j \in 1 .. 6 /\ JoinAt(t) = OtgJoin(t)
        /\ ThreadNames = {"aoa", "usb_events", "fps", "disconnect"}
    BY <1>2, OtgStepsAre DEF Steps, Ending, JoinAt, ThreadNames
  <2>2. s \in {"usb", "usb_device", "usb_handle", "aoa", "aoa_thread", "screen"}
    BY <2>1, UpTo6, OtgStepsAre
  <2>3. s = "aoa_thread" /\ t = "aoa"
    BY <1>1, <2>2
  <2>4. OtgJoin(t) = 5 /\ OtgEnd[5][3] = "aoa"
    BY <2>3, OtgEndIs DEF OtgJoin
  <2> QED BY <1>2, <2>1, <2>3, <2>4
<1>3. CASE "otg" \notin opt
  <2>1. Ending = ScrcpyEnd /\ JoinAt(t) = ScrcpyJoin(t)
    BY <1>3 DEF Ending, JoinAt
  <2>2. t \in ThreadNames
    BY <1>1, <1>3 DEF ThreadNames
  <2>3. ScrcpyEnd[ScrcpyJoin(t)][3] = s
    <3> HIDE DEF s
    <3>1. CASE s = "server_thread" /\ t = "server"
      BY <3>1, ScrcpyEndIs DEF ScrcpyJoin
    <3>2. CASE s = "recorder_thread" /\ t = "recorder"
      BY <3>2, ScrcpyEndIs DEF ScrcpyJoin
    <3>3. CASE s = "controller_threads" /\ t = "controller"
      BY <3>3, ScrcpyEndIs DEF ScrcpyJoin
    <3>4. CASE s = "controller_threads" /\ t = "receiver"
      BY <3>4, ScrcpyEndIs DEF ScrcpyJoin
    <3>5. CASE s = "aoa_thread" /\ t = "aoa"
      BY <3>5, ScrcpyEndIs DEF ScrcpyJoin
    <3>6. CASE s = "timeout_thread" /\ t = "timeout"
      BY <3>6, ScrcpyEndIs DEF ScrcpyJoin
    <3>7. CASE s = "video_demuxer" /\ t = "video_demuxer"
      BY <3>7, ScrcpyEndIs DEF ScrcpyJoin
    <3>8. CASE s = "audio_demuxer" /\ t = "audio_demuxer"
      BY <3>8, ScrcpyEndIs DEF ScrcpyJoin
    <3> QED BY <1>1, <3>1, <3>2, <3>3, <3>4, <3>5, <3>6, <3>7, <3>8 DEF s
  <2> QED BY <2>1, <2>2, <2>3
<1> QED BY <1>2, <1>3

(* and an object is destroyed if it was made, but what AOA needs if its     *)
(* thread was started.                                                      *)
ForAoa == {"aoa", "usb_handle", "usb", "acksync"}

LEMMA DestroyFlag ==
  ASSUME NEW o \in ObjectNames
  PROVE  /\ Ending[DestroyAt(o)][3] =
              IF "otg" \notin opt /\ o \in ForAoa THEN "aoa_thread" ELSE o
         /\ Ending[DestroyAt(o)][3] # "disconnect"
         /\ o \notin {"usb_callback", "file_thread", "disconnect"}
<1>1. CASE "otg" \in opt
  <2>1. /\ o \in {"aoa", "usb_handle", "usb", "screen"} /\ Ending = OtgEnd
        /\ DestroyAt(o) = OtgDestroy(o)
    BY <1>1 DEF ObjectNames, Ending, DestroyAt
  <2>2. OtgEnd[OtgDestroy(o)][3] = o
    BY <2>1, OtgEndIs DEF OtgDestroy
  <2> QED BY <1>1, <2>1, <2>2
<1>2. CASE "otg" \notin opt
  <2>1. o \in AllObjects /\ Ending = ScrcpyEnd /\ DestroyAt(o) = ScrcpyDestroy(o)
    BY <1>2 DEF ObjectNames, Ending, DestroyAt
  <2>2. ScrcpyEnd[ScrcpyDestroy(o)][3] = IF o \in ForAoa THEN "aoa_thread" ELSE o
    <3>1. CASE o \in ForAoa
      BY <3>1, ScrcpyEndIs DEF ScrcpyDestroy, ForAoa
    <3>2. CASE o \in {"timeout", "v4l2", "screen"}
      BY <3>2, ScrcpyEndIs DEF ScrcpyDestroy, ForAoa
    <3>3. CASE o \in {"controller", "recorder", "file_pusher"}
      BY <3>3, ScrcpyEndIs DEF ScrcpyDestroy, ForAoa
    <3> QED BY <2>1, <3>1, <3>2, <3>3 DEF AllObjects, ForAoa
  <2> QED BY <1>2, <2>1, <2>2 DEF AllObjects
<1> QED BY <1>1, <1>2

(* The next step that is wanted is done. *)
LEMMA InitializeStep == ASSUME SessionInv, InitializeOne PROVE SessionInv'
<1>0. /\ MainAt /\ DoneOnTop /\ DoneInOrder /\ DoneSoFar /\ AllDone /\ ObjectsMade
      /\ JoinAhead /\ ObjectsAhead
  BY DEF SessionInv
<1>1. main.phase = "up" /\ opt' = opt
  BY DEF InitializeOne, In
<1>2. PICK j \in DOMAIN Steps :
        /\ NextStep(j) /\ Steps[j] # "connection"
        /\ \E callback \in IF Steps[j] = "usb_handle" /\ "otg" \in opt THEN BOOLEAN ELSE {FALSE} :
             /\ threads' = threads \cup ThreadsOf(Steps[j])
                           \cup (IF callback THEN {"usb_events"} ELSE {})
             /\ did' = did \cup {Steps[j]} \cup (IF callback THEN {"usb_callback"} ELSE {})
        /\ made' = made \cup ObjectOf(Steps[j])
        /\ shown' = (shown \/ (Steps[j] = "screen" /\ "playback" \notin opt))
        /\ AdvancePast(j)
  BY DEF InitializeOne
<1> DEFINE s == Steps[j]
<1>3. PICK callback \in BOOLEAN :
        /\ callback => s = "usb_handle" /\ "otg" \in opt
        /\ threads' = threads \cup ThreadsOf(s) \cup (IF callback THEN {"usb_events"} ELSE {})
        /\ did' = did \cup {s} \cup (IF callback THEN {"usb_callback"} ELSE {})
  BY <1>2
<1>4. made' = made \cup ({s} \cap ObjectNames) /\ (shown' => shown \/ s = "screen")
  BY <1>2, StepObject
<1>5. /\ main.i \in Nat /\ j \in Nat /\ main.i <= j /\ Wanted(s) /\ s # "connection"
      /\ \A k \in main.i .. j - 1 : ~Wanted(Steps[k])
  BY <1>0, <1>2, StepOnce DEF MainAt, NextStep
<1>6. /\ main'.phase = "up" /\ main'.i = j + 1 /\ DOMAIN main' = DOMAIN main
  BY <1>0, <1>1, <1>2 DEF AdvancePast, MainAt
<1>7. MainAt'
  BY <1>0, <1>1, <1>5, <1>6 DEF MainAt
<1>8. DoneOnTop'
  <2>1. s \notin {"usb_callback", "file_thread", "disconnect"}
    BY StepOnce
  <2>2. "otg" \in opt => s # "file_pusher"
    BY UpTo6, OtgStepsAre DEF Steps
  <2> HIDE DEF s
  <2> QED BY <1>0, <1>1, <1>3, <1>4, <2>1, <2>2 DEF DoneOnTop
<1>9. \A k \in DOMAIN Steps : Steps[k] \in did' <=> Due(k) /\ k < j + 1
  <2> SUFFICES ASSUME NEW k \in DOMAIN Steps PROVE Steps[k] \in did' <=> Due(k) /\ k < j + 1
    OBVIOUS
  <2>1. k \in Nat /\ Steps[k] # "usb_callback" /\ (Steps[k] = s <=> k = j)
    BY StepOnce
  <2>2. Steps[k] \in did' <=> Steps[k] \in did \/ k = j
    BY <1>3, <2>1
  <2>3. Steps[k] \in did <=> Due(k) /\ k < main.i
    BY <1>0, <1>1 DEF DoneSoFar
  <2>4. main.i <= k /\ k < j => ~Due(k)
    BY <1>5, <2>1 DEF Due
  <2>5. k = j => Due(k)
    BY <1>5 DEF Due
  <2> QED BY <1>5, <2>1, <2>2, <2>3, <2>4, <2>5
<1>10. InStepOrder(did')
  <2>1. j + 1 \in Nat
    BY <1>5
  <2> QED BY <1>9, <2>1, SoFarInOrder
<1>11. DoneInOrder'
  BY <1>1, <1>10, SameOptions DEF DoneInOrder
<1>12. DoneSoFar' /\ AllDone'
  BY <1>1, <1>6, <1>9, SameOptions DEF DoneSoFar, AllDone, Due
<1>13. ObjectsMade'
  BY <1>0, <1>1, <1>3, <1>4, SameOptions DEF ObjectsMade
<1>14. JoinAhead'
  <2>1. ASSUME NEW t \in threads' PROVE t \in ThreadNames /\ Ending[JoinAt(t)][3] \in did'
    <3>1. CASE t \in threads
      BY <1>0, <1>3, <3>1 DEF JoinAhead, Applies
    <3>2. CASE t \in ThreadsOf(s)
      <4>1. /\ t \in ThreadNames
            /\ Ending[JoinAt(t)][3] = s \/ ("otg" \in opt /\ s = "aoa_thread" /\ Ending[JoinAt(t)][3] = "aoa")
        BY <3>2, StepThreads
      <4>2. "otg" \in opt /\ "aoa_thread" \in did' => "aoa" \in did'
        BY <1>10, OtgNeeds
      <4> QED BY <1>3, <4>1, <4>2
    <3>3. CASE callback /\ t = "usb_events"
      <4>1. /\ JoinAt(t) = 7 /\ Ending = OtgEnd /\ t \in ThreadNames
        BY <1>3, <3>3 DEF JoinAt, OtgJoin, Ending, ThreadNames
      <4> QED BY <1>3, <3>3, <4>1, OtgEndIs
    <3> QED BY <1>3, <2>1, <3>1, <3>2, <3>3
  <2> QED BY <1>1, <1>6, <2>1, SameOptions DEF JoinAhead, Applies
<1>15. ObjectsAhead'
  <2>1. ASSUME NEW o \in ObjectNames, o \in did' PROVE o \in made'
    <3>1. o # "usb_callback"
      BY DestroyFlag
    <3>2. o \in did \/ o = s
      BY <1>3, <2>1, <3>1
    <3>3. o \in did => o \in made
      BY <1>0, <1>1 DEF ObjectsAhead
    <3> QED BY <1>4, <3>2, <3>3
  <2> QED BY <1>1, <1>6, <2>1, SameOptions DEF ObjectsAhead
<1> QED BY <1>7, <1>8, <1>11, <1>12, <1>13, <1>14, <1>15 DEF SessionInv

(* A step that fails destroys what AOA has needed so far, unless its thread *)
(* has been started; but for acksync when there is no device. *)
LEMMA Undoing ==
  ASSUME MainAt, DoneSoFar, main.phase = "up", "otg" \notin opt,
         NEW j \in DOMAIN Steps, NextStep(j)
  PROVE  /\ Undone(Steps[j]) \subseteq ForAoa
         /\ "aoa_thread" \in did => Undone(Steps[j]) = {}
         /\ "aoa_thread" \notin did =>
              \A o \in ForAoa : o \in did =>
                \/ o \in Undone(Steps[j])
                \/ o = "acksync" /\ Steps[j] = "usb_device"
         /\ Steps[j] = "connection" => \A o \in ForAoa : o \notin did
<1>1. Steps = ScrcpySteps /\ DOMAIN Steps = 1 .. 19 /\ j \in 1 .. 19
  BY ScrcpyStepsAre DEF Steps
<1>2. /\ main.i \in Nat /\ main.i <= j /\ Wanted(Steps[j]) 
      /\ \A k \in main.i .. j - 1 : ~Wanted(Steps[k])
  BY DEF MainAt, NextStep
<1>3. \A k \in 1 .. 19 : Steps[k] \in did <=> Due(k) /\ k < main.i
  BY <1>1 DEF DoneSoFar
<1>4. /\ Steps[2] = "connection" /\ Steps[7] = "acksync" /\ Steps[8] = "usb"
      /\ Steps[9] = "usb_device" /\ Steps[10] = "usb_handle" /\ Steps[11] = "aoa"
      /\ Steps[12] = "aoa_thread"
  BY <1>1, ScrcpyStepsAre
<1>5. \A k \in 1 .. 19 : Steps[j] = Steps[k] => j = k
  BY <1>1, StepOnce
<1>6. \A s : s \notin {"usb", "usb_device", "usb_handle", "aoa", "aoa_thread"} => Undone(s) = {}
  BY DEF Undone
<1>7. /\ Undone("usb") = {"acksync"} /\ Undone("usb_device") = {"usb"}
      /\ Undone("usb_handle") = {"usb", "acksync"}
      /\ Undone("aoa") = {"usb_handle", "usb", "acksync"}
      /\ Undone("aoa_thread") = {"acksync", "usb_handle", "usb", "aoa"}
  BY DEF Undone
<1>8. Undone(Steps[j]) \subseteq ForAoa
  BY <1>6, <1>7 DEF ForAoa
<1>9. ASSUME "aoa_thread" \in did PROVE Undone(Steps[j]) = {}
  <2>1. j > 12
    <3>1. 12 < main.i
      BY <1>3, <1>4, <1>9
    <3> QED BY <1>1, <1>2, <3>1
  <2>2. Steps[j] \notin {"usb", "usb_device", "usb_handle", "aoa", "aoa_thread"}
    BY <1>4, <1>5, <2>1
  <2> QED BY <1>6, <2>2
<1>10. \A o \in ForAoa : o \in did =>
         Wanted("aoa_thread") /\ (o = "acksync" => 7 < j) /\ (o = "usb" => 8 < j)
         /\ (o = "usb_handle" => 10 < j) /\ (o = "aoa" => 11 < j)
  <2>1. \A k \in 1 .. 19 : Steps[k] \in did => Wanted(Steps[k]) /\ k < j
    BY <1>1, <1>2, <1>3 DEF Due
  <2>2. /\ "acksync" \in did => Wanted("acksync") /\ 7 < j
        /\ "usb" \in did => Wanted("usb") /\ 8 < j
        /\ "usb_handle" \in did => Wanted("usb_handle") /\ 10 < j
        /\ "aoa" \in did => Wanted("aoa") /\ 11 < j
    BY <1>4, <2>1
  <2> QED BY <2>2, AskedTogether DEF ForAoa
<1>11. ASSUME "aoa_thread" \notin did, NEW o \in ForAoa, o \in did
       PROVE  o \in Undone(Steps[j]) \/ (o = "acksync" /\ Steps[j] = "usb_device")
  <2>1. Wanted("aoa_thread") /\ j > 7
    BY <1>1, <1>10, <1>11 DEF ForAoa
  <2>2. j <= 12
    <3>1. ~(12 < main.i)
      BY <1>3, <1>4, <1>11, <2>1 DEF Due
    <3>2. 12 \notin main.i .. j - 1
      BY <1>2, <1>4, <2>1
    <3> QED BY <1>1, <1>2, <3>1, <3>2
  <2>3. j = 8 \/ j = 9 \/ j = 10 \/ j = 11 \/ j = 12
    BY <1>1, <2>1, <2>2
  <2>4. CASE j = 8
    BY <1>4, <1>7, <1>10, <1>11, <2>4 DEF ForAoa
  <2>5. CASE j = 9
    BY <1>4, <1>7, <1>10, <1>11, <2>5 DEF ForAoa
  <2>6. CASE j = 10
    BY <1>4, <1>7, <1>10, <1>11, <2>6 DEF ForAoa
  <2>7. CASE j = 11
    BY <1>4, <1>7, <1>10, <1>11, <2>7 DEF ForAoa
  <2>8. CASE j = 12
    BY <1>4, <1>7, <1>10, <1>11, <2>8 DEF ForAoa
  <2> QED BY <2>3, <2>4, <2>5, <2>6, <2>7, <2>8
<1>12. ASSUME Steps[j] = "connection", NEW o \in ForAoa PROVE o \notin did
  <2>1. j = 2
    BY <1>4, <1>5, <1>12
  <2> QED BY <1>10, <2>1 DEF ForAoa
<1> QED BY <1>8, <1>9, <1>11, <1>12

(* The session goes down, from wherever it is: what is there will be        *)
(* destroyed, and what will be destroyed is there. *)
LEMMA GoesDown ==
  ASSUME SessionInv, opt' = opt, main.phase \in {"up", "loop"},
         main'.phase = "down", main'.i = 1, DOMAIN main' = DOMAIN main,
         shown' = shown, made' \subseteq made,
         \/ did' = did /\ threads' = threads
         \/ /\ "screen" \in did
            /\ did' = did \cup {"disconnect"} /\ threads' = threads \cup {"disconnect"},
         \A o \in ObjectNames : o \in did /\ Ending[DestroyAt(o)][3] \in did => o \in made',
         \A o \in made' : Ending[DestroyAt(o)][3] \in did \/ Lost(o)'
  PROVE  SessionInv'
<1>0. /\ MainAt /\ DoneOnTop /\ DoneInOrder /\ DoneSoFar /\ AllDone /\ ObjectsMade
      /\ JoinAhead /\ ObjectsAhead
  BY DEF SessionInv
<1>1. did \subseteq did' /\ did' \subseteq did \cup {"disconnect"}
  OBVIOUS
<1>2. MainAt'
  BY <1>0 DEF MainAt
<1>3. DoneOnTop'
  BY <1>0, <1>1 DEF DoneOnTop
<1>4. DoneInOrder'
  <2>1. \A k \in DOMAIN Steps : Steps[k] \in did' <=> Steps[k] \in did
    BY <1>1, StepOnce
  <2>2. InStepOrder(did')
    BY <1>0, <2>1 DEF DoneInOrder, InStepOrder
  <2> QED BY <2>2, SameOptions DEF DoneInOrder
<1>5. DoneSoFar' /\ AllDone'
  BY DEF DoneSoFar, AllDone
<1>6. ObjectsMade'
  BY <1>0, <1>1, SameOptions DEF ObjectsMade
<1>7. JoinAhead'
  <2>1. ASSUME NEW t \in threads' PROVE t \in ThreadNames /\ Ending[JoinAt(t)][3] \in did'
    <3>1. CASE t \in threads
      BY <1>0, <1>1, <3>1 DEF JoinAhead, Applies
    <3>2. CASE t = "disconnect" /\ t \in threads' /\ t \notin threads
      <4>1. "disconnect" \in did'
        BY <3>2
      <4>2. "disconnect" \in ThreadNames /\ Ending[JoinAt("disconnect")][3] = "disconnect"
        <5>1. CASE "otg" \in opt
          <6>1. Ending = OtgEnd /\ JoinAt("disconnect") = 11 /\ "disconnect" \in ThreadNames
            BY <5>1 DEF Ending, JoinAt, OtgJoin, ThreadNames
          <6> QED BY <6>1, OtgEndIs
        <5>2. CASE "otg" \notin opt
          <6>1. Ending = ScrcpyEnd /\ JoinAt("disconnect") = 20 /\ "disconnect" \in ThreadNames
            BY <5>2 DEF Ending, JoinAt, ScrcpyJoin, ThreadNames
          <6> QED BY <6>1, ScrcpyEndIs
        <5> QED BY <5>1, <5>2
      <4> QED BY <3>2, <4>1, <4>2
    <3> QED BY <2>1, <3>1, <3>2
  <2>2. \A t \in ThreadNames : 1 <= JoinAt(t)
    <3>1. \A k \in DOMAIN Ending : k \in Nat /\ 1 <= k
      BY DutyIs
    <3> QED BY <3>1, JoinIs
  <2>3. 1 <= DialogAt
    BY DialogIs
  <2> QED BY <2>1, <2>2, <2>3, SameOptions DEF JoinAhead, Applies
<1>8. ObjectsAhead'
  <2>1. ASSUME NEW o \in ObjectNames, o \in did', Ending[DestroyAt(o)][3] \in did'
        PROVE  o \in made'
    <3>1. o # "disconnect" /\ Ending[DestroyAt(o)][3] # "disconnect"
      BY DestroyFlag
    <3>2. o \in did /\ Ending[DestroyAt(o)][3] \in did
      BY <1>1, <2>1, <3>1
    <3> QED BY <3>2
  <2>2. ASSUME NEW o \in made' PROVE (1 <= DestroyAt(o) /\ Ending[DestroyAt(o)][3] \in did') \/ Lost(o)'
    <3>1. o \in ObjectNames
      BY <1>0, <2>2 DEF ObjectsMade
    <3>2. 1 <= DestroyAt(o)
      BY <3>1, DestroyIs, DutyIs
    <3> QED BY <1>1, <2>2, <3>2
  <2>3. (\A o \in ObjectNames : o \in did /\ StillAhead(DestroyAt(o)) => o \in made)'
    BY <2>1, SameOptions DEF StillAhead, Applies
  <2>4. (\A o \in made : StillAhead(DestroyAt(o)) \/ Lost(o))'
    BY <2>2, SameOptions DEF StillAhead, Applies
  <2> QED BY <2>3, <2>4 DEF ObjectsAhead
<1> QED BY <1>2, <1>3, <1>4, <1>5, <1>6, <1>7, <1>8 DEF SessionInv

LEMMA FailStep == ASSUME SessionInv, StepFails PROVE SessionInv'
<1>0. MainAt /\ DoneSoFar /\ ObjectsMade /\ ObjectsAhead
  BY DEF SessionInv
<1>1. main.phase = "up" /\ UNCHANGED <<opt, did, threads, shown>>
  BY DEF StepFails, In
<1>2. PICK j \in DOMAIN Steps :
        /\ NextStep(j) /\ Steps[j] # "connection"
        /\ made' = made \ Undone(Steps[j])
        /\ main' = [main EXCEPT !.phase = "down", !.i = 1, !.failed = Steps[j]]
  BY DEF StepFails
<1>3. /\ main'.phase = "down" /\ main'.i = 1 /\ main'.failed = Steps[j]
      /\ DOMAIN main' = DOMAIN main
  BY <1>0, <1>2 DEF MainAt
<1>4. "otg" \in opt => Undone(Steps[j]) = {}
  BY DEF Undone
<1>5. "otg" \notin opt =>
        /\ Undone(Steps[j]) \subseteq ForAoa
        /\ "aoa_thread" \in did => Undone(Steps[j]) = {}
        /\ "aoa_thread" \notin did =>
             \A o \in ForAoa : o \in did =>
               \/ o \in Undone(Steps[j])
               \/ o = "acksync" /\ Steps[j] = "usb_device"
  BY <1>0, <1>1, <1>2, Undoing
<1>6. ASSUME NEW o \in ObjectNames, o \in did, Ending[DestroyAt(o)][3] \in did PROVE o \in made'
  <2>1. o \in made
    BY <1>0, <1>1, <1>6 DEF ObjectsAhead
  <2>2. o \notin Undone(Steps[j])
    BY <1>4, <1>5, <1>6, DestroyFlag
  <2> QED BY <1>2, <2>1, <2>2
<1>7. ASSUME NEW o \in made' PROVE Ending[DestroyAt(o)][3] \in did \/ Lost(o)'
  <2>1. o \in made /\ o \notin Undone(Steps[j]) /\ o \in did /\ o \in ObjectNames
    BY <1>0, <1>2, <1>7 DEF ObjectsMade
  <2>2. Lost(o)' <=> o = "acksync" /\ Steps[j] = "usb_device"
    BY <1>3 DEF Lost
  <2> QED BY <1>5, <2>1, <2>2, DestroyFlag
<1> QED BY <1>1, <1>2, <1>3, <1>6, <1>7, GoesDown

(* The server has connected, or the session ends here. *)
LEMMA AwaitStep == ASSUME SessionInv, AwaitServer PROVE SessionInv'
<1>0. /\ MainAt /\ DoneOnTop /\ DoneInOrder /\ DoneSoFar /\ AllDone /\ ObjectsMade
      /\ JoinAhead /\ ObjectsAhead
  BY DEF SessionInv
<1>1. main.phase = "up" /\ UNCHANGED <<opt, did, made, threads, shown>>
  BY DEF AwaitServer, In
<1>2. PICK j \in DOMAIN Steps :
        NextStep(j) /\ Steps[j] = "connection" /\ (AdvancePast(j) \/ Enter("down"))
  BY DEF AwaitServer
<1>3. CASE AdvancePast(j)
  <2>1. /\ main'.phase = "up" /\ main'.i = j + 1 /\ DOMAIN main' = DOMAIN main
        /\ main'.failed = main.failed
    BY <1>0, <1>1, <1>3 DEF AdvancePast, MainAt
  <2>2. /\ main.i \in Nat /\ j \in Nat /\ main.i <= j
        /\ \A k \in main.i .. j - 1 : ~Wanted(Steps[k])
    BY <1>0, <1>2, StepOnce DEF MainAt, NextStep
  <2>3. MainAt' /\ DoneOnTop'
    BY <1>0, <1>1, <2>1, <2>2 DEF MainAt, DoneOnTop
  <2>4. DoneInOrder' /\ ObjectsMade'
    BY <1>0, <1>1, SameOptions DEF DoneInOrder, ObjectsMade
  <2>5. \A k \in DOMAIN Steps : Steps[k] \in did <=> Due(k) /\ k < j + 1
    <3> SUFFICES ASSUME NEW k \in DOMAIN Steps PROVE Steps[k] \in did <=> Due(k) /\ k < j + 1
      OBVIOUS
    <3>1. k \in Nat /\ (Steps[k] \in did <=> Due(k) /\ k < main.i)
      BY <1>0, <1>1, StepOnce DEF DoneSoFar
    <3>2. main.i <= k /\ k < j => ~Due(k)
      BY <2>2, <3>1 DEF Due
    <3>3. k = j => ~Due(k)
      BY <1>2 DEF Due
    <3> QED BY <2>2, <3>1, <3>2, <3>3
  <2>6. DoneSoFar' /\ AllDone'
    BY <1>1, <2>1, <2>5, SameOptions DEF DoneSoFar, AllDone, Due
  <2>7. JoinAhead'
    BY <1>0, <1>1, <2>1, SameOptions DEF JoinAhead, Applies
  <2>8. ObjectsAhead'
    BY <1>0, <1>1, <2>1, SameOptions DEF ObjectsAhead
  <2> QED BY <2>3, <2>4, <2>6, <2>7, <2>8 DEF SessionInv
<1>4. CASE Enter("down")
  <2>1. /\ main'.phase = "down" /\ main'.i = 1 /\ DOMAIN main' = DOMAIN main
    BY <1>0, <1>4 DEF Enter, MainAt
  <2>2. "otg" \notin opt => \A o \in ForAoa : o \notin did
    BY <1>0, <1>1, <1>2, Undoing
  <2>3. \A o \in ObjectNames : o \in did => o \in made' /\ Ending[DestroyAt(o)][3] \in did
    BY <1>0, <1>1, <2>2, DestroyFlag DEF ObjectsAhead
  <2>4. \A o \in made' : Ending[DestroyAt(o)][3] \in did
    BY <1>0, <1>1, <2>3 DEF ObjectsMade
  <2> QED BY <1>1, <2>1, <2>3, <2>4, GoesDown
<1> QED BY <1>2, <1>3, <1>4

(* Nothing is left to do: the loop begins. *)
LEMMA LoopStep == ASSUME SessionInv, EnterLoop PROVE SessionInv'
<1>0. /\ MainAt /\ DoneOnTop /\ DoneInOrder /\ DoneSoFar /\ AllDone /\ ObjectsMade
      /\ JoinAhead /\ ObjectsAhead
  BY DEF SessionInv
<1>1. /\ main.phase = "up" /\ UNCHANGED <<opt, did, made, threads, shown>>
      /\ \A k \in main.i .. Len(Steps) : ~Wanted(Steps[k])
  BY DEF EnterLoop, In
<1>2. main'.phase = "loop" /\ main'.i = 1 /\ DOMAIN main' = DOMAIN main
  BY <1>0 DEF EnterLoop, Enter, MainAt
<1>3. MainAt' /\ DoneOnTop'
  BY <1>0, <1>1, <1>2 DEF MainAt, DoneOnTop
<1>4. DoneInOrder' /\ ObjectsMade'
  BY <1>0, <1>1, SameOptions DEF DoneInOrder, ObjectsMade
<1>5. ASSUME NEW k \in DOMAIN Steps, Due(k) PROVE Steps[k] \in did
  <2>1. k \in Nat /\ k <= Len(Steps) /\ main.i \in Nat
    BY <1>0, StepOnce DEF MainAt
  <2>2. k < main.i
    <3>1. Len(Steps) \in Nat /\ k \notin main.i .. Len(Steps)
      BY <1>1, <1>5, StepOnce DEF Due
    <3> QED BY <2>1, <3>1
  <2> QED BY <1>0, <1>1, <1>5, <2>2 DEF DoneSoFar
<1>6. DoneSoFar' /\ AllDone'
  BY <1>1, <1>2, <1>5, SameOptions DEF DoneSoFar, AllDone, Due
<1>7. JoinAhead'
  BY <1>0, <1>1, <1>2, SameOptions DEF JoinAhead, Applies
<1>8. ObjectsAhead'
  BY <1>0, <1>1, <1>2, SameOptions DEF ObjectsAhead
<1> QED BY <1>3, <1>4, <1>6, <1>7, <1>8 DEF SessionInv

-----------------------------------------------------------------------------
(* In the loop all that was asked for is done, and so is what AOA is        *)
(* destroyed for.                                                           *)
LEMMA LoopHas ==
  ASSUME SessionInv, main.phase = "loop"
  PROVE  /\ \A o \in ObjectNames : o \in did => o \in made /\ Ending[DestroyAt(o)][3] \in did
         /\ \A o \in made : Ending[DestroyAt(o)][3] \in did
<1>0. MainAt /\ DoneInOrder /\ AllDone /\ ObjectsMade /\ ObjectsAhead
  BY DEF SessionInv
<1>1. ASSUME "otg" \notin opt, NEW o \in ForAoa, o \in did PROVE "aoa_thread" \in did
  <2>1. /\ Steps = ScrcpySteps /\ DOMAIN Steps = 1 .. 19
    BY <1>1, ScrcpyStepsAre DEF Steps
  <2>2. /\ Steps[7] = "acksync" /\ Steps[8] = "usb" /\ Steps[10] = "usb_handle"
        /\ Steps[11] = "aoa" /\ Steps[12] = "aoa_thread"
    BY <2>1, ScrcpyStepsAre
  <2>3. \A k \in 1 .. 19 : Steps[k] \in did => Wanted(Steps[k])
    BY <1>0, <2>1 DEF DoneInOrder, InStepOrder
  <2>4. Wanted(o)
    BY <1>1, <2>2, <2>3 DEF ForAoa
  <2>5. Wanted("aoa_thread")
    BY <2>4, AskedTogether DEF ForAoa
  <2>6. 12 \in DOMAIN Steps /\ Due(12)
    BY <2>1, <2>2, <2>5 DEF Due
  <2> QED BY <1>0, <2>2, <2>6 DEF AllDone
<1>2. ASSUME NEW o \in ObjectNames, o \in did PROVE o \in made /\ Ending[DestroyAt(o)][3] \in did
  <2>1. o \in made
    BY <1>0, <1>2 DEF ObjectsAhead
  <2>2. Ending[DestroyAt(o)][3] \in did
    BY <1>1, <1>2, DestroyFlag
  <2> QED BY <2>1, <2>2
<1> QED BY <1>0, <1>2 DEF ObjectsMade

(* The device leaves, and the dialog may need a thread, *)
LEMMA DisconnectedStep == ASSUME SessionInv, HandleDisconnected PROVE SessionInv'
<1>0. MainAt
  BY DEF SessionInv
<1>1. main.phase = "loop" /\ UNCHANGED <<opt, made, shown>>
  BY DEF HandleDisconnected, In
<1>2. main'.phase = "down" /\ main'.i = 1 /\ DOMAIN main' = DOMAIN main
  BY <1>0 DEF HandleDisconnected, MainAt
<1>3. \/ did' = did /\ threads' = threads
      \/ /\ "screen" \in did
         /\ did' = did \cup {"disconnect"} /\ threads' = threads \cup {"disconnect"}
  BY DEF HandleDisconnected
<1> QED BY <1>1, <1>2, <1>3, LoopHas, GoesDown

(* or anything else ends the loop. *)
LEMMA LeaveStep == ASSUME SessionInv, LeaveLoop PROVE SessionInv'
<1>0. MainAt
  BY DEF SessionInv
<1>1. main.phase = "loop" /\ UNCHANGED <<opt, did, made, threads, shown>>
  BY DEF LeaveLoop, In
<1>2. main'.phase = "down" /\ main'.i = 1 /\ DOMAIN main' = DOMAIN main
  BY <1>0 DEF LeaveLoop, Enter, MainAt
<1> QED BY <1>1, <1>2, LoopHas, GoesDown

(* The window is opened, on a screen that is there. *)
LEMMA OpenStep == ASSUME SessionInv, OpenWindow PROVE SessionInv'
<1>0. /\ MainAt /\ DoneOnTop /\ DoneInOrder /\ DoneSoFar /\ AllDone /\ ObjectsMade
      /\ JoinAhead /\ ObjectsAhead
  BY DEF SessionInv
<1>1. /\ main.phase = "loop" /\ UNCHANGED <<opt, main, did, made, threads>>
      /\ "playback" \in opt /\ "video_demuxer" \in did
  BY DEF OpenWindow, In
<1>2. "screen" \in did
  <2>1. CASE "otg" \in opt
    <3>1. 6 \in DOMAIN Steps /\ Steps[6] = "screen"
      BY <2>1, OtgStepsAre DEF Steps
    <3>2. Due(6)
      BY <2>1, <3>1, AskedTogether DEF Due
    <3> QED BY <1>0, <1>1, <3>1, <3>2 DEF AllDone
  <2>2. CASE "otg" \notin opt
    BY <1>0, <1>1, <2>2, ScrcpyNeeds DEF MainAt, DoneInOrder
  <2> QED BY <2>1, <2>2
<1>3. MainAt' /\ DoneOnTop'
  BY <1>0, <1>1, <1>2 DEF MainAt, DoneOnTop, Lost
<1>4. DoneInOrder' /\ ObjectsMade' /\ DoneSoFar' /\ AllDone'
  BY <1>0, <1>1, SameOptions DEF DoneInOrder, ObjectsMade, DoneSoFar, AllDone, Due
<1>5. JoinAhead'
  BY <1>0, <1>1, SameOptions DEF JoinAhead, Applies
<1>6. ObjectsAhead'
  BY <1>0, <1>1, SameOptions DEF ObjectsAhead
<1> QED BY <1>3, <1>4, <1>5, <1>6 DEF SessionInv

(* The FPS counter starts, before its turn to be joined. *)
LEMMA FpsStep == ASSUME SessionInv, ToggleFps PROVE SessionInv'
<1>0. /\ MainAt /\ DoneOnTop /\ DoneInOrder /\ DoneSoFar /\ AllDone /\ ObjectsMade
      /\ JoinAhead /\ ObjectsAhead
  BY DEF SessionInv
<1>1. UNCHANGED <<opt, main, did, made, shown>> /\ shown
  BY DEF ToggleFps
<1>2. threads' \subseteq threads \cup {"fps"}
  BY DEF ToggleFps, StartFps
<1>3. main.phase = "loop" \/ main.phase = "down"
  BY DEF ToggleFps, InDialog, In
<1>4. MainAt' /\ DoneOnTop'
  BY <1>0, <1>1, <1>3 DEF MainAt, DoneOnTop
<1>5. DoneInOrder' /\ ObjectsMade' /\ DoneSoFar' /\ AllDone'
  BY <1>0, <1>1, SameOptions DEF DoneInOrder, ObjectsMade, DoneSoFar, AllDone, Due
<1>6. /\ "fps" \in ThreadNames /\ Ending[JoinAt("fps")][3] \in did
      /\ main.phase = "down" => main.i <= JoinAt("fps")
  <2>1. "screen" \in did /\ (main.phase = "down" => main.i <= DialogAt) /\ main.i \in Nat
    BY <1>0, <1>1 DEF DoneOnTop, JoinAhead, MainAt
  <2> QED BY <2>1, DialogIs
<1>7. JoinAhead'
  BY <1>0, <1>1, <1>2, <1>6, SameOptions DEF JoinAhead, Applies
<1>8. ObjectsAhead'
  BY <1>0, <1>1, SameOptions DEF ObjectsAhead, StillAhead, Applies, Lost
<1> QED BY <1>4, <1>5, <1>7, <1>8 DEF SessionInv

(* The thread of the file pusher starts. *)
LEMMA DropFileStep == ASSUME SessionInv, DropFile PROVE SessionInv'
<1>0. /\ MainAt /\ DoneOnTop /\ DoneInOrder /\ DoneSoFar /\ AllDone /\ ObjectsMade
      /\ JoinAhead /\ ObjectsAhead
  BY DEF SessionInv
<1>1. /\ main.phase = "loop" /\ UNCHANGED <<opt, main, made, shown>>
      /\ "file_pusher" \in did
      /\ did' = did \cup {"file_thread"} /\ threads' = threads \cup {"file_pusher"}
  BY DEF DropFile, In
<1>2. \A k \in DOMAIN Steps : Steps[k] \in did' <=> Steps[k] \in did
  BY <1>1, StepOnce
<1>3. MainAt' /\ DoneOnTop'
  BY <1>0, <1>1 DEF MainAt, DoneOnTop
<1>4. DoneInOrder'
  <2>1. InStepOrder(did')
    BY <1>0, <1>2 DEF DoneInOrder, InStepOrder
  <2> QED BY <1>1, <2>1, SameOptions DEF DoneInOrder
<1>5. DoneSoFar' /\ AllDone' /\ ObjectsMade'
  BY <1>0, <1>1, SameOptions DEF DoneSoFar, AllDone, Due, ObjectsMade
<1>6. JoinAhead'
  <2>1. "otg" \notin opt
    BY <1>0, <1>1 DEF DoneOnTop
  <2>2. /\ "file_pusher" \in ThreadNames /\ Ending = ScrcpyEnd /\ JoinAt("file_pusher") = 27
    BY <2>1 DEF ThreadNames, Ending, JoinAt, ScrcpyJoin
  <2>3. Ending[JoinAt("file_pusher")][3] \in did'
    BY <1>1, <2>2, ScrcpyEndIs
  <2>4. \A t \in threads' : t \in ThreadNames /\ Ending[JoinAt(t)][3] \in did'
    BY <1>0, <1>1, <2>2, <2>3 DEF JoinAhead, Applies
  <2> QED BY <1>1, <2>4, SameOptions DEF JoinAhead, Applies
<1>7. ObjectsAhead'
  <2>1. \A o \in ObjectNames : o \in did' => o \in did
    BY <1>1, DestroyFlag
  <2> QED BY <1>0, <1>1, <2>1, SameOptions DEF ObjectsAhead
<1> QED BY <1>3, <1>4, <1>5, <1>6, <1>7 DEF SessionInv

-----------------------------------------------------------------------------
(* The end.  A duty that is ahead is not passed over: it is the one that is *)
(* done next, or it stays ahead. *)
LEMMA DutyStays ==
  ASSUME MainAt, NEW j \in DOMAIN Ending, NextDuty(j), NEW p \in DOMAIN Ending, StillAhead(p)
  PROVE  p = j \/ j + 1 <= p
<1>1. /\ main.i \in Nat /\ j \in Nat /\ p \in Nat /\ main.i <= p /\ Applies(Ending[p])
  BY DutyIs DEF MainAt, StillAhead
<1>2. p \notin main.i .. j - 1
  BY <1>1 DEF NextDuty
<1> QED BY <1>1, <1>2

(* The main thread does a duty of the end: what it joins has ended, what it *)
(* destroys is gone, after the dialog the window is hidden.                 *)
LEMMA DutyDone ==
  ASSUME SessionInv, opt' = opt, did' = did, threads' = threads, main.phase = "down",
         NEW j \in DOMAIN Ending, NextDuty(j), AdvancePast(j),
         shown' => shown /\ Ending[j][1] # "dialog",
         Ending[j][1] = "join" => Ending[j][2] \notin threads,
         made' = IF Ending[j][1] = "destroy" THEN made \ {Ending[j][2]} ELSE made
  PROVE  SessionInv'
<1>0. /\ MainAt /\ DoneOnTop /\ DoneInOrder /\ DoneSoFar /\ AllDone /\ ObjectsMade
      /\ JoinAhead /\ ObjectsAhead
  BY DEF SessionInv
<1>1. /\ main'.phase = "down" /\ main'.i = j + 1 /\ main'.failed = main.failed
      /\ DOMAIN main' = DOMAIN main
  BY <1>0 DEF AdvancePast, MainAt
<1>2. main.i \in Nat /\ j \in Nat /\ main.i <= j
  BY <1>0, DutyIs DEF MainAt, NextDuty
<1>3. MainAt' /\ DoneOnTop'
  BY <1>0, <1>1, <1>2 DEF MainAt, DoneOnTop
<1>4. DoneInOrder' /\ DoneSoFar' /\ AllDone'
  BY <1>0, <1>1, SameOptions DEF DoneInOrder, DoneSoFar, AllDone
<1>5. ObjectsMade'
  BY <1>0, SameOptions DEF ObjectsMade
<1>6. ASSUME NEW t \in threads PROVE j + 1 <= JoinAt(t)
  <2>1. /\ t \in ThreadNames /\ JoinAt(t) \in DOMAIN Ending
        /\ Ending[JoinAt(t)][1] = "join" /\ Ending[JoinAt(t)][2] = t
    BY <1>0, JoinIs DEF JoinAhead
  <2>2. StillAhead(JoinAt(t))
    BY <1>0 DEF JoinAhead, StillAhead
  <2>3. JoinAt(t) # j
    BY <2>1
  <2> QED BY <1>0, <2>1, <2>2, <2>3, DutyStays
<1>7. shown' => j + 1 <= DialogAt
  <2>1. SUFFICES ASSUME shown' PROVE j + 1 <= DialogAt
    OBVIOUS
  <2>2. StillAhead(DialogAt)
    BY <1>0, <2>1, DialogIs DEF JoinAhead, DoneOnTop, StillAhead, Applies
  <2>3. DialogAt # j
    BY <2>1, DialogIs
  <2> QED BY <1>0, <2>2, <2>3, DialogIs, DutyStays
<1>8. JoinAhead'
  BY <1>0, <1>1, <1>6, <1>7, SameOptions DEF JoinAhead, Applies
<1>9. ASSUME NEW o \in ObjectNames, o \in did, j + 1 <= DestroyAt(o), Applies(Ending[DestroyAt(o)])
      PROVE  o \in made'
  <2>1. DestroyAt(o) \in Nat /\ DestroyAt(o) \in DOMAIN Ending
    BY DestroyIs
  <2>2. StillAhead(DestroyAt(o)) /\ DestroyAt(o) # j
    BY <1>2, <1>9, <2>1 DEF StillAhead
  <2>3. o \in made
    BY <1>0, <1>9, <2>2 DEF ObjectsAhead
  <2>4. Ending[j][1] = "destroy" => Ending[j][2] # o
    BY <2>2, DutyIs
  <2> QED BY <2>3, <2>4
<1>10. ASSUME NEW o \in made'
       PROVE  (j + 1 <= DestroyAt(o) /\ Applies(Ending[DestroyAt(o)])) \/ Lost(o)
  <2>1. o \in made /\ o \in ObjectNames
    BY <1>0, <1>10 DEF ObjectsMade
  <2>2. StillAhead(DestroyAt(o)) \/ Lost(o)
    BY <1>0, <2>1 DEF ObjectsAhead
  <2>3. /\ DestroyAt(o) \in DOMAIN Ending /\ Ending[DestroyAt(o)][1] = "destroy"
        /\ Ending[DestroyAt(o)][2] = o
    BY <2>1, DestroyIs
  <2>4. DestroyAt(o) # j
    BY <1>10, <2>3
  <2>5. StillAhead(DestroyAt(o)) => j + 1 <= DestroyAt(o)
    BY <1>0, <2>3, <2>4, DutyStays
  <2> QED BY <2>2, <2>5 DEF StillAhead
<1>11. ObjectsAhead'
  <2>1. (\A o \in ObjectNames : o \in did /\ StillAhead(DestroyAt(o)) => o \in made)'
    BY <1>1, <1>9, SameOptions DEF StillAhead, Applies
  <2>2. (\A o \in made : StillAhead(DestroyAt(o)) \/ Lost(o))'
    BY <1>1, <1>10, SameOptions DEF StillAhead, Applies, Lost
  <2> QED BY <1>1, <2>1, <2>2 DEF ObjectsAhead
<1> QED BY <1>3, <1>4, <1>5, <1>8, <1>11 DEF SessionInv

(* The five kinds of duties. *)
LEMMA EndSteps ==
  ASSUME SessionInv, StopOne \/ InterruptFps \/ EndDialog \/ JoinOne \/ DestroyOne
  PROVE  SessionInv'
<1>1. CASE StopOne
  <2>1. PICK j \in DOMAIN Ending : Doing("stop", j) /\ AdvancePast(j)
    BY <1>1 DEF StopOne
  <2>2. main.phase = "down" /\ NextDuty(j) /\ Ending[j][1] = "stop"
    BY <1>1, <2>1 DEF StopOne, Doing, In
  <2>3. UNCHANGED <<opt, did, threads, made, shown>>
    BY <1>1 DEF StopOne
  <2> QED BY <2>1, <2>2, <2>3, DutyDone
<1>2. CASE InterruptFps
  <2>1. PICK j \in DOMAIN Ending : Doing("interrupt", j) /\ AdvancePast(j)
    BY <1>2 DEF InterruptFps
  <2>2. main.phase = "down" /\ NextDuty(j) /\ Ending[j][1] = "interrupt"
    BY <1>2, <2>1 DEF InterruptFps, Doing, In
  <2>3. UNCHANGED <<opt, did, threads, made, shown>>
    BY <1>2 DEF InterruptFps
  <2> QED BY <2>1, <2>2, <2>3, DutyDone
<1>3. CASE EndDialog
  <2>1. PICK j \in DOMAIN Ending : Doing("dialog", j) /\ AdvancePast(j)
    BY <1>3 DEF EndDialog
  <2>2. main.phase = "down" /\ NextDuty(j) /\ Ending[j][1] = "dialog"
    BY <1>3, <2>1 DEF EndDialog, Doing, In
  <2>3. UNCHANGED <<opt, did, threads, made>> /\ shown' = FALSE
    BY <1>3 DEF EndDialog
  <2> QED BY <2>1, <2>2, <2>3, DutyDone
<1>4. CASE JoinOne
  <2>1. PICK j \in DOMAIN Ending : Doing("join", j) /\ Ending[j][2] \notin threads /\ AdvancePast(j)
    BY <1>4 DEF JoinOne
  <2>2. main.phase = "down" /\ NextDuty(j) /\ Ending[j][1] = "join"
    BY <1>4, <2>1 DEF JoinOne, Doing, In
  <2>3. UNCHANGED <<opt, did, threads, made, shown>>
    BY <1>4 DEF JoinOne
  <2> QED BY <2>1, <2>2, <2>3, DutyDone
<1>5. CASE DestroyOne
  <2>1. PICK j \in DOMAIN Ending :
          Doing("destroy", j) /\ made' = made \ {Ending[j][2]} /\ AdvancePast(j)
    BY <1>5 DEF DestroyOne
  <2>2. main.phase = "down" /\ NextDuty(j) /\ Ending[j][1] = "destroy"
    BY <1>5, <2>1 DEF DestroyOne, Doing, In
  <2>3. UNCHANGED <<opt, did, threads, shown>>
    BY <1>5 DEF DestroyOne
  <2> QED BY <2>1, <2>2, <2>3, DutyDone
<1> QED BY <1>1, <1>2, <1>3, <1>4, <1>5

(* Nothing is ahead at the end. *)
LEMMA ReturnStep == ASSUME SessionInv, Return PROVE SessionInv'
<1>0. /\ MainAt /\ DoneOnTop /\ DoneInOrder /\ DoneSoFar /\ AllDone /\ ObjectsMade
      /\ JoinAhead /\ ObjectsAhead
  BY DEF SessionInv
<1>1. /\ main.phase = "down" /\ UNCHANGED <<opt, did, made, threads, shown>>
      /\ \A k \in main.i .. Len(Ending) : ~Applies(Ending[k])
  BY DEF Return, In
<1>2. /\ main'.phase = "done" /\ main'.i = 1 /\ main'.failed = main.failed
      /\ DOMAIN main' = DOMAIN main
  BY <1>0 DEF Return, Enter, MainAt
<1>3. \A p \in DOMAIN Ending : ~StillAhead(p)
  <2> SUFFICES ASSUME NEW p \in DOMAIN Ending, StillAhead(p) PROVE FALSE
    OBVIOUS
  <2>1. p \in 1 .. Len(Ending) /\ main.i \in Nat /\ main.i <= p /\ Applies(Ending[p])
    BY <1>0, DutyIs DEF StillAhead, MainAt
  <2>2. Len(Ending) \in Nat
    <3>1. Ending = OtgEnd \/ Ending = ScrcpyEnd
      BY DEF Ending
    <3>2. Len(OtgEnd) \in Nat /\ Len(ScrcpyEnd) \in Nat
      BY OtgEndIs, ScrcpyEndIs
    <3> QED BY <3>1, <3>2
  <2>3. p \in main.i .. Len(Ending)
    BY <2>1, <2>2
  <2> QED BY <1>1, <2>1, <2>3
<1>4. threads = {}
  <2> SUFFICES ASSUME NEW t \in threads PROVE FALSE
    OBVIOUS
  <2>1. t \in ThreadNames /\ StillAhead(JoinAt(t))
    BY <1>0, <1>1 DEF JoinAhead, StillAhead
  <2> QED BY <1>3, <2>1, JoinIs
<1>5. \A o \in made : Lost(o)
  <2>1. \A o \in made : DestroyAt(o) \in DOMAIN Ending
    BY <1>0, DestroyIs DEF ObjectsMade
  <2> QED BY <1>0, <1>1, <1>3, <2>1 DEF ObjectsAhead
<1>6. MainAt' /\ DoneOnTop'
  BY <1>0, <1>1, <1>2, <1>4, <1>5 DEF MainAt, DoneOnTop, Lost
<1>7. DoneInOrder' /\ DoneSoFar' /\ AllDone' /\ ObjectsMade'
  BY <1>0, <1>1, <1>2, SameOptions DEF DoneInOrder, DoneSoFar, AllDone, ObjectsMade
<1>8. JoinAhead' /\ ObjectsAhead'
  BY <1>1, <1>2, <1>4 DEF JoinAhead, ObjectsAhead
<1> QED BY <1>6, <1>7, <1>8 DEF SessionInv

-----------------------------------------------------------------------------
(* Wherever the initialization of a session fails and in whatever order its *)
(* threads end, what is done is in order, and what runs or is there is      *)
(* joined or destroyed further on.                                          *)
THEOREM SessionInvariant == Spec => []SessionInv
<1>1. Init => SessionInv
  BY SessionStarts
<1>2. ASSUME SessionInv, [Next]_vars PROVE SessionInv'
  <2>1. CASE UNCHANGED vars
    BY <1>2, <2>1, SessionRests DEF vars
  <2>2. CASE Go
    BY <1>2, <2>2, SessionRests DEF Go
  <2>3. CASE MainEnds
    BY <1>2, <2>3, EndSteps, ReturnStep DEF MainEnds
  <2>4. CASE Parse \/ InitializeOne \/ StepFails \/ AwaitServer \/ EnterLoop
    BY <1>2, <2>4, ParseStep, InitializeStep, FailStep, AwaitStep, LoopStep
  <2>5. CASE OpenWindow \/ ToggleFps \/ DropFile \/ HandleDisconnected \/ LeaveLoop
    BY <1>2, <2>5, OpenStep, FpsStep, DropFileStep, DisconnectedStep, LeaveStep
  <2>6. CASE Threads
    BY <1>2, <2>6, ThreadsRest
  <2> QED BY <1>2, <2>1, <2>2, <2>3, <2>4, <2>5, <2>6 DEF Next
<1> QED BY <1>1, <1>2, PTL DEF Spec

(* No thread runs with an object that has been destroyed, but for the       *)
(* receiver and acksync, which the end destroys before it joins it.         *)
THEOREM UsedObjectsLiveHolds == Spec => []UsedObjectsLive
BY SessionInvariant, UsedIsThere, PTL

(* When the session is over every thread has been joined and every object   *)
(* destroyed, but for acksync when the USB device is not found.             *)
THEOREM NothingSurvivesHolds == Spec => []NothingSurvives
BY SessionInvariant, NothingIsLeft, PTL
=============================================================================
