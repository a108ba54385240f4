-------------------------- MODULE FloodFill_proofs --------------------------
(***************************************************************************)
(* Proofs about countAccessibleCells, for boards, occupancies and starts   *)
(* of every kind.                                                          *)
(***************************************************************************)
EXTENDS FloodFill, FiniteSetTheorems, TLAPS

-----------------------------------------------------------------------------
(* The inductive invariant *)

CountedInv ==
    /\ IsFiniteSet(counted) /\ CountsCells
    /\ \A c \in counted : CellIndex(c) \in visited

\* the queue holds the start or neighbours of counted cells, in the order of
\* their turns, none of which is before a turn already counted
QueueFrom ==
    \/ queue = << <<call.start, 0>> >> /\ counted = {}
    \/ \A i \in DOMAIN queue : \E b \in counted, dir \in Direction :
          queue[i] = <<CoordAfterMove(b, dir), arrival[b] + 1>>

QueueOrdered ==
    /\ \A i, j \in DOMAIN queue :
          i < j => /\ queue[i][2] <= queue[j][2]
                   /\ queue[j][2] <= queue[i][2] + 1
    /\ \A i \in DOMAIN queue, c \in counted : arrival[c] <= queue[i][2]

\* every neighbour of a counted cell has been seen or is still to come
Covered ==
    \A b \in counted, n \in Cell :
        IsAdjacent(b, n) =>
            \/ CellIndex(n) \in visited
            \/ \E i \in DOMAIN queue : queue[i] = <<n, arrival[b] + 1>>

\* a cell seen but not counted was occupied when it was seen
MissedInv ==
    \A c \in Cell \ counted : CellIndex(c) \in visited =>
        \/ counted = {} /\ queue = <<>>
        \/ \E b \in near(c) : call.vacated[c] > arrival[b] + 1

IInv ==
    /\ TypeOK /\ CountedInv /\ QueueFrom /\ QueueOrdered /\ CountedInTime
    /\ Covered /\ NoDetours /\ MissedInv

-----------------------------------------------------------------------------
(* The proofs *)

USE BoardAssumption, FloodAssumption

\* Cells of the board have indices of their own.
LEMMA IndexOfCell ==
    /\ \A c \in Cell : CellIndex(c) \in 0 .. Width * Height - 1
    /\ \A c, d \in Cell : CellIndex(c) = CellIndex(d) => c = d
<1>1. ASSUME NEW x \in 0 .. Width - 1, NEW y \in 0 .. Height - 1
      PROVE  /\ y * Width + x \in 0 .. Width * Height - 1
             /\ (y * Width + x) % CoordMod = y * Width + x
    <2>1. y * Width \in Nat /\ y * Width <= (Height - 1) * Width
        BY <1>1
    <2>2. (Height - 1) * Width = Width * Height - Width
        OBVIOUS
    <2>3. y * Width + x \in 0 .. Width * Height - 1
        BY <2>1, <2>2
    <2> QED
        BY <2>3
<1>2. ASSUME NEW x \in 0 .. Width - 1, NEW y \in 0 .. Height - 1,
             NEW u \in 0 .. Width - 1, NEW v \in 0 .. Height - 1,
             y * Width + x = v * Width + u, y < v
      PROVE  FALSE
    <2>1. v * Width - y * Width = (v - y) * Width
        OBVIOUS
    <2>2. (v - y) * Width >= Width
        <3>1. ASSUME NEW k \in Nat PROVE (k + 1) * Width >= Width
            OBVIOUS
        <3>2. v - y - 1 \in Nat /\ v - y = (v - y - 1) + 1
            BY <1>2
        <3> QED
            BY <3>1, <3>2
    <2> QED
        BY <1>2, <2>1, <2>2
<1>3. \A c \in Cell : CellIndex(c) = c[2] * Width + c[1]
    BY <1>1 DEF Cell, CellIndex
<1>4. ASSUME NEW c \in Cell, NEW d \in Cell, CellIndex(c) = CellIndex(d)
      PROVE  c = d
    <2>1. c[2] = d[2]
        <3>1. /\ c[1] \in 0 .. Width - 1 /\ c[2] \in 0 .. Height - 1
              /\ d[1] \in 0 .. Width - 1 /\ d[2] \in 0 .. Height - 1
            BY DEF Cell
        <3>2. c[2] * Width + c[1] = d[2] * Width + d[1]
            BY <1>3, <1>4
        <3>3. ~(c[2] < d[2]) /\ ~(d[2] < c[2])
            BY <1>2, <3>1, <3>2
        <3> QED
            BY <3>1, <3>3
    <2>2. c[1] = d[1]
        <3>1. c[2] * Width \in Int /\ c[1] \in Int /\ d[1] \in Int
            BY DEF Cell
        <3>2. c[2] * Width + c[1] = c[2] * Width + d[1]
            BY <1>3, <1>4, <2>1
        <3>3. \A a, k, l \in Int : a + k = a + l => k = l
            OBVIOUS
        <3> QED
            BY <3>1, <3>2, <3>3
    <2> QED
        BY <2>1, <2>2 DEF Cell
<1> QED
    BY <1>1, <1>3, <1>4 DEF Cell

\* A step leads from a cell to its neighbours on the board and to no others.
LEMMA StepsToNeighbors ==
    ASSUME NEW b \in Cell
    PROVE  /\ \A dir \in Direction : CoordAfterMove(b, dir) \in Point
           /\ \A dir \in Direction :
                 CoordAfterMove(b, dir) \in Cell =>
                     IsAdjacent(b, CoordAfterMove(b, dir))
           /\ \A n \in Cell : IsAdjacent(b, n) =>
                 \E dir \in Direction : n = CoordAfterMove(b, dir)
<1> DEFINE x == b[1]
           y == b[2]
<1>1. x \in 0 .. Width - 1 /\ y \in 0 .. Height - 1 /\ b = <<x, y>>
    BY DEF Cell
<1>2. /\ Inc(x) = x + 1 /\ Inc(y) = y + 1
      /\ Dec(x) = IF x = 0 THEN CoordMod - 1 ELSE x - 1
      /\ Dec(y) = IF y = 0 THEN CoordMod - 1 ELSE y - 1
    BY <1>1 DEF Inc, Dec
<1>3. /\ CoordAfterMove(b, "Up") = <<x, Dec(y)>>
      /\ CoordAfterMove(b, "Down") = <<x, Inc(y)>>
      /\ CoordAfterMove(b, "Left") = <<Dec(x), y>>
      /\ CoordAfterMove(b, "Right") = <<Inc(x), y>>
    BY DEF CoordAfterMove
<1>4. \A dir \in Direction : CoordAfterMove(b, dir) \in Point
    BY <1>1, <1>2, <1>3 DEF Direction, Point, Coord
<1>5. ASSUME NEW dir \in Direction, CoordAfterMove(b, dir) \in Cell
      PROVE  IsAdjacent(b, CoordAfterMove(b, dir))
    BY <1>1, <1>2, <1>3, <1>5 DEF Direction, Cell, IsAdjacent, AbsDiff
<1>6. ASSUME NEW n \in Cell, IsAdjacent(b, n)
      PROVE  \E dir \in Direction : n = CoordAfterMove(b, dir)
    <2>1. n[1] \in 0 .. Width - 1 /\ n[2] \in 0 .. Height - 1
          /\ n = <<n[1], n[2]>>
        BY DEF Cell
    <2>2. \/ n = <<x + 1, y>>
          \/ x > 0 /\ n = <<x - 1, y>>
          \/ n = <<x, y + 1>>
          \/ y > 0 /\ n = <<x, y - 1>>
        <3>1. ASSUME NEW k \in Nat, NEW l \in Nat, AbsDiff(k, l) = 1
              PROVE  l = k + 1 \/ (k > 0 /\ l = k - 1)
            <4>1. CASE k > l
                BY <3>1, <4>1 DEF AbsDiff
            <4>2. CASE k <= l
                BY <3>1, <4>2 DEF AbsDiff
            <4> QED
                BY <4>1, <4>2
        <3>2. \/ n[2] = y /\ (n[1] = x + 1 \/ (x > 0 /\ n[1] = x - 1))
              \/ n[1] = x /\ (n[2] = y + 1 \/ (y > 0 /\ n[2] = y - 1))
            BY <1>1, <1>6, <2>1, <3>1 DEF IsAdjacent
        <3> QED
            BY <2>1, <3>2
    <2> QED
        BY <1>1, <1>2, <1>3, <2>2 DEF Direction
<1> QED
    BY <1>4, <1>5, <1>6

\* What the four entries pushed for a cell add to the queue.
LEMMA LaterEntries ==
    ASSUME NEW q \in Seq(Point \X Nat), NEW p \in Cell, NEW turn \in Nat
    PROVE  /\ Later(q, p, turn) \in Seq(Point \X Nat)
           /\ Len(Later(q, p, turn)) = Len(q) + 4
           /\ \A i \in 1 .. Len(q) : Later(q, p, turn)[i] = q[i]
           /\ \A i \in Len(q) + 1 .. Len(q) + 4 : \E dir \in Direction :
                 Later(q, p, turn)[i] = <<CoordAfterMove(p, dir), turn + 1>>
           /\ \A dir \in Direction : \E i \in Len(q) + 1 .. Len(q) + 4 :
                 Later(q, p, turn)[i] = <<CoordAfterMove(p, dir), turn + 1>>
<1> DEFINE new == [i \in 1 .. 4 |-> <<Neighbors(p)[i], turn + 1>>]
           later == Later(q, p, turn)
<1>1. /\ Neighbors(p)[1] = CoordAfterMove(p, "Left")
      /\ Neighbors(p)[2] = CoordAfterMove(p, "Right")
      /\ Neighbors(p)[3] = CoordAfterMove(p, "Down")
      /\ Neighbors(p)[4] = CoordAfterMove(p, "Up")
    BY DEF Neighbors
<1>2. \A i \in 1 .. 4 : \E dir \in Direction :
          Neighbors(p)[i] = CoordAfterMove(p, dir)
    BY <1>1 DEF Direction
<1>3. \A i \in 1 .. 4 : new[i] \in Point \X Nat
    BY <1>2, StepsToNeighbors
<1>4. new \in Seq(Point \X Nat) /\ Len(new) = 4
    BY <1>3
<1>5. later = q \o new
    BY DEF Later
<1>6. /\ later \in Seq(Point \X Nat) /\ Len(later) = Len(q) + 4
      /\ \A i \in 1 .. Len(q) : later[i] = q[i]
      /\ \A i \in Len(q) + 1 .. Len(q) + 4 : later[i] = new[i - Len(q)]
    BY <1>4, <1>5
<1>7. ASSUME NEW i \in Len(q) + 1 .. Len(q) + 4
      PROVE  \E dir \in Direction :
                 later[i] = <<CoordAfterMove(p, dir), turn + 1>>
    <2>1. i - Len(q) \in 1 .. 4
        OBVIOUS
    <2>2. later[i] = <<Neighbors(p)[i - Len(q)], turn + 1>>
        BY <1>6, <2>1
    <2> QED
        BY <1>2, <2>1, <2>2
<1>8. ASSUME NEW dir \in Direction
      PROVE  \E i \in Len(q) + 1 .. Len(q) + 4 :
                 later[i] = <<CoordAfterMove(p, dir), turn + 1>>
    <2>1. PICK k \in 1 .. 4 : Neighbors(p)[k] = CoordAfterMove(p, dir)
        BY <1>1 DEF Direction
    <2>2. Len(q) + k \in Len(q) + 1 .. Len(q) + 4
        OBVIOUS
    <2>3. (Len(q) + k) - Len(q) = k
        OBVIOUS
    <2>4. later[Len(q) + k] = new[k]
        BY <1>6, <2>2, <2>3
    <2> QED
        BY <2>1, <2>2, <2>4
<1> QED
    BY <1>6, <1>7, <1>8

\* Nothing has been counted before the start is taken from the queue.
LEMMA InitIInv == Init => IInv
<1> SUFFICES ASSUME Init PROVE IInv
    OBVIOUS
<1>1. counted = {} /\ call.start \in Point /\ call \in ScenarioType
    BY DEF Init, counted, ScenarioType
<1>2. TypeOK
    BY <1>1 DEF Init, TypeOK, counted
<1>3. CountedInv
    BY <1>1, FS_EmptySet DEF Init, CountedInv, CountsCells
<1>4. QueueFrom /\ Covered /\ NoDetours /\ CountedInTime /\ MissedInv
    BY <1>1 DEF Init, QueueFrom, Covered, NoDetours, CountedInTime,
                MissedInv
<1>5. QueueOrdered
    BY <1>1 DEF Init, QueueOrdered
<1> QED
    BY <1>2, <1>3, <1>4, <1>5 DEF IInv

\* Taking an entry from the queue, and the entry itself.
LEMMA TakeEntry ==
    ASSUME IInv, queue # <<>>
    PROVE  /\ queue[1] \in Point \X Nat /\ Head(queue) = queue[1]
           /\ queue[1] = <<queue[1][1], queue[1][2]>>
           /\ queue[1][1] \in Point /\ queue[1][2] \in Nat
           /\ 1 \in DOMAIN queue /\ DOMAIN queue = 1 .. Len(queue)
           /\ Tail(queue) \in Seq(Point \X Nat)
           /\ Len(Tail(queue)) = Len(queue) - 1
           /\ \A i \in 1 .. Len(Tail(queue)) :
                 i + 1 \in DOMAIN queue /\ Tail(queue)[i] = queue[i + 1]
           /\ \A i \in DOMAIN queue : i # 1 =>
                 i - 1 \in 1 .. Len(Tail(queue)) /\ Tail(queue)[i - 1] = queue[i]
<1>1. queue \in Seq(Point \X Nat) /\ Len(queue) > 0
    BY DEF IInv, TypeOK
<1>2. queue[1] \in Point \X Nat /\ Head(queue) = queue[1]
    BY <1>1
<1>3. queue[1] = <<queue[1][1], queue[1][2]>>
      /\ queue[1][1] \in Point /\ queue[1][2] \in Nat
    BY <1>2
<1>4. /\ Tail(queue) \in Seq(Point \X Nat)
      /\ Len(Tail(queue)) = Len(queue) - 1
      /\ \A i \in 1 .. Len(queue) - 1 : Tail(queue)[i] = queue[i + 1]
      /\ DOMAIN queue = 1 .. Len(queue)
    BY <1>1
<1>5. \A i \in 1 .. Len(queue) - 1 : i + 1 \in DOMAIN queue
    BY <1>1, <1>4
<1>6. ASSUME NEW i \in DOMAIN queue, i # 1
      PROVE  i - 1 \in 1 .. Len(queue) - 1 /\ Tail(queue)[i - 1] = queue[i]
    <2>1. i - 1 \in 1 .. Len(queue) - 1 /\ (i - 1) + 1 = i
        BY <1>1, <1>4, <1>6
    <2> QED
        BY <1>4, <2>1
<1> QED
    BY <1>1, <1>2, <1>3, <1>4, <1>5, <1>6

\* The entries that stay in the queue are still where they should be from,
\* and in order.
LEMMA TailOrdered ==
    ASSUME IInv, queue # <<>>, NEW q, q = Tail(queue)
    PROVE  /\ \/ q = <<>> /\ counted = {} /\ queue[1] = <<call.start, 0>>
              \/ /\ \A i \in DOMAIN q : \E b \in counted, dir \in Direction :
                       q[i] = <<CoordAfterMove(b, dir), arrival[b] + 1>>
                 /\ \E b \in counted, dir \in Direction : queue[1] =
                       <<CoordAfterMove(b, dir), arrival[b] + 1>>
           /\ \A i, j \in DOMAIN q :
                 i < j => q[i][2] <= q[j][2] /\ q[j][2] <= q[i][2] + 1
           /\ \A i \in DOMAIN q : /\ queue[1][2] <= q[i][2]
                                  /\ q[i][2] <= queue[1][2] + 1
           /\ \A c \in counted : arrival[c] <= queue[1][2]
           /\ DOMAIN q = 1 .. Len(q)
           /\ \A i \in DOMAIN q : q[i] \in Point \X Nat
<1>1. DOMAIN q = 1 .. Len(q) /\ \A i \in DOMAIN q : q[i] \in Point \X Nat
    BY TakeEntry
<1>2. \A i \in DOMAIN q : i + 1 \in DOMAIN queue /\ q[i] = queue[i + 1]
    BY <1>1, TakeEntry
<1>3. CASE queue = << <<call.start, 0>> >> /\ counted = {}
    BY <1>1, <1>3, TakeEntry
<1>4. CASE \A i \in DOMAIN queue : \E b \in counted, dir \in Direction :
               queue[i] = <<CoordAfterMove(b, dir), arrival[b] + 1>>
    <2>1. \A i \in DOMAIN q : \E b \in counted, dir \in Direction :
              q[i] = <<CoordAfterMove(b, dir), arrival[b] + 1>>
        BY <1>2, <1>4
    <2>2. \E b \in counted, dir \in Direction :
              queue[1] = <<CoordAfterMove(b, dir), arrival[b] + 1>>
        BY <1>4, TakeEntry
    <2>3. \A i, j \in DOMAIN q :
              i < j => q[i][2] <= q[j][2] /\ q[j][2] <= q[i][2] + 1
        BY <1>1, <1>2 DEF IInv, QueueOrdered
    <2>4. \A i \in DOMAIN q : 1 < i + 1
        BY <1>1
    <2>5. \A i \in DOMAIN q : /\ queue[1][2] <= q[i][2]
                              /\ q[i][2] <= queue[1][2] + 1
        BY <1>2, <2>4, TakeEntry DEF IInv, QueueOrdered
    <2>6. \A c \in counted : arrival[c] <= queue[1][2]
        BY TakeEntry DEF IInv, QueueOrdered
    <2> QED
        BY <1>1, <2>1, <2>2, <2>3, <2>5, <2>6
<1> QED
    BY <1>3, <1>4 DEF IInv, QueueFrom

\* Passing over an entry loses nothing: its cell has been seen.
LEMMA PassOverStep == IInv /\ PassOver => IInv'
<1> SUFFICES ASSUME IInv, PassOver PROVE IInv'
    OBVIOUS
<1> DEFINE p == queue[1][1]
           q == Tail(queue)
<1>1. /\ queue # <<>> /\ queue' = q
      /\ CellIndex(p) \in visited \/ OutOfBounds(p)
      /\ UNCHANGED <<call, visited, count, arrival>>
    BY TakeEntry DEF PassOver, Skip
<1>2. counted' = counted
    BY <1>1 DEF counted
<1>3. TypeOK'
    BY <1>1, <1>2, TakeEntry DEF IInv, TypeOK
<1>4. CountedInv' /\ CountedInTime' /\ NoDetours'
    BY <1>1, <1>2 DEF IInv, CountedInv, CountsCells, CountedInTime,
                      NoDetours, CellIndex
<1>5. QueueFrom'
    BY <1>1, <1>2, TailOrdered DEF QueueFrom
<1>6. QueueOrdered'
    <2>1. \A i \in DOMAIN q, c \in counted :
              /\ arrival[c] \in Nat /\ queue[1][2] \in Nat /\ q[i][2] \in Nat
              /\ arrival[c] <= queue[1][2] /\ queue[1][2] <= q[i][2]
        BY <1>1, TailOrdered, TakeEntry DEF IInv, TypeOK
    <2>2. \A i \in DOMAIN q, c \in counted : arrival[c] <= q[i][2]
        BY <2>1
    <2> QED
        BY <1>1, <1>2, <2>2, TailOrdered DEF QueueOrdered
<1>7. Covered'
    <2> SUFFICES ASSUME NEW b \in counted, NEW n \in Cell, IsAdjacent(b, n),
                        CellIndex(n) \notin visited
                 PROVE  \E i \in DOMAIN q : q[i] = <<n, arrival[b] + 1>>
        BY <1>1, <1>2 DEF Covered, CellIndex
    <2>1. PICK i \in DOMAIN queue : queue[i] = <<n, arrival[b] + 1>>
        BY DEF IInv, Covered
    <2>2. ~OutOfBounds(n)
        BY DEF OutOfBounds, Cell
    <2>3. i # 1
        BY <1>1, <2>1, <2>2
    <2>4. i - 1 \in DOMAIN q /\ q[i - 1] = queue[i]
        BY <1>1, <2>3, TakeEntry, TailOrdered
    <2> QED
        BY <2>1, <2>4
<1>8. MissedInv'
    BY <1>1, <1>2 DEF IInv, MissedInv, near, CellIndex
<1> QED
    BY <1>3, <1>4, <1>5, <1>6, <1>7, <1>8 DEF IInv

\* Entries are passed on from the tail of the queue to the new queue.
LEMMA TailCovers ==
    ASSUME IInv, queue # <<>>, NEW b \in counted, NEW n \in Cell,
           IsAdjacent(b, n)
    PROVE  \/ CellIndex(n) \in visited
           \/ queue[1] = <<n, arrival[b] + 1>>
           \/ \E i \in 1 .. Len(Tail(queue)) :
                 Tail(queue)[i] = <<n, arrival[b] + 1>>
<1>1. CASE CellIndex(n) \in visited
    BY <1>1
<1>2. CASE CellIndex(n) \notin visited
    <2>1. PICK i \in DOMAIN queue : queue[i] = <<n, arrival[b] + 1>>
        BY <1>2 DEF IInv, Covered
    <2>2. CASE i = 1
        BY <2>1, <2>2
    <2>3. CASE i # 1
        BY <2>1, <2>3, TakeEntry
    <2> QED
        BY <2>2, <2>3
<1> QED
    BY <1>1, <1>2

\* A cell found occupied was entered from a counted cell, if it is not the
\* start.
LEMMA FindOccupiedStep == IInv /\ FindOccupied => IInv'
<1> SUFFICES ASSUME IInv, FindOccupied PROVE IInv'
    OBVIOUS
<1> DEFINE p == queue[1][1]
           turn == queue[1][2]
           q == Tail(queue)
<1>1. /\ queue # <<>> /\ queue' = q
      /\ ~OutOfBounds(p) /\ CellIndex(p) \notin visited
      /\ turn < call.vacated[p]
      /\ visited' = visited \cup {CellIndex(p)}
      /\ UNCHANGED <<call, count, arrival>>
    BY TakeEntry DEF FindOccupied, Skip, Occupied
<1>2. counted' = counted
    BY <1>1 DEF counted
<1>3. p \in Cell
    BY <1>1, TakeEntry DEF OutOfBounds, Point, Coord, Cell
<1>4. TypeOK'
    BY <1>1, <1>2, <1>3, IndexOfCell, TakeEntry DEF IInv, TypeOK
<1>5. CountedInv' /\ CountedInTime' /\ NoDetours'
    BY <1>1, <1>2 DEF IInv, CountedInv, CountsCells, CountedInTime,
                      NoDetours, CellIndex
<1>6. QueueFrom'
    BY <1>1, <1>2, TailOrdered DEF QueueFrom
<1>7. QueueOrdered'
    <2>1. \A i \in DOMAIN q, c \in counted :
              /\ arrival[c] \in Nat /\ queue[1][2] \in Nat /\ q[i][2] \in Nat
              /\ arrival[c] <= queue[1][2] /\ queue[1][2] <= q[i][2]
        BY <1>1, TailOrdered, TakeEntry DEF IInv, TypeOK
    <2>2. \A i \in DOMAIN q, c \in counted : arrival[c] <= q[i][2]
        BY <2>1
    <2> QED
        BY <1>1, <1>2, <2>2, TailOrdered DEF QueueOrdered
<1>8. Covered'
    <2> SUFFICES ASSUME NEW b \in counted, NEW n \in Cell, IsAdjacent(b, n),
                        CellIndex(n) \notin visited'
                 PROVE  \E i \in DOMAIN q : q[i] = <<n, arrival[b] + 1>>
        BY <1>1, <1>2 DEF Covered, CellIndex
    <2>1. CellIndex(n) \notin visited /\ n # p
        BY <1>1
    <2>2. queue[1] # <<n, arrival[b] + 1>>
        BY <2>1
    <2>3. \E i \in 1 .. Len(q) : q[i] = <<n, arrival[b] + 1>>
        BY <1>1, <2>1, <2>2, TailCovers
    <2>4. DOMAIN q = 1 .. Len(q)
        BY <1>1, TailOrdered
    <2> QED
        BY <2>3, <2>4
<1>9. MissedInv'
    <2> SUFFICES ASSUME NEW c \in Cell \ counted, CellIndex(c) \in visited'
                 PROVE  \/ counted = {} /\ q = <<>>
                        \/ \E b \in near(c) :
                              call.vacated[c] > arrival[b] + 1
        BY <1>1, <1>2 DEF MissedInv, near, CellIndex
    <2>1. CASE c # p
        <3>1. CellIndex(c) \in visited
            BY <1>1, <1>3, <2>1, IndexOfCell
        <3> QED
            BY <1>1, <3>1 DEF IInv, MissedInv
    <2>2. CASE c = p /\ ~(counted = {} /\ q = <<>>)
        <3>1. PICK b \in counted, dir \in Direction :
                  queue[1] = <<CoordAfterMove(b, dir), arrival[b] + 1>>
            BY <1>1, <2>2, TailOrdered
        <3>2. b \in Cell
            BY DEF IInv, TypeOK
        <3>3. IsAdjacent(b, c) /\ turn = arrival[b] + 1
            BY <1>3, <2>2, <3>1, <3>2, StepsToNeighbors
        <3> QED
            BY <1>1, <2>2, <3>3 DEF near
    <2> QED
        BY <2>1, <2>2
<1> QED
    BY <1>4, <1>5, <1>6, <1>7, <1>8, <1>9 DEF IInv

\* A cell counted is entered at the earliest turn, since the queue is in
\* order, and its neighbours join the end of the queue.
LEMMA CountCellStep == IInv /\ CountCell => IInv'
<1> SUFFICES ASSUME IInv, CountCell PROVE IInv'
    OBVIOUS
<1> DEFINE p == queue[1][1]
           turn == queue[1][2]
           q == Tail(queue)
<1>1. /\ queue # <<>> /\ queue' = Later(q, p, turn)
      /\ ~OutOfBounds(p) /\ CellIndex(p) \notin visited
      /\ call.vacated[p] <= turn
      /\ visited' = visited \cup {CellIndex(p)}
      /\ arrival' = [c \in counted \cup {p} |->
                       IF c = p THEN turn ELSE arrival[c]]
      /\ count' = count + 1 /\ call' = call
    <2>1. queue # <<>> /\ ~(turn < call.vacated[p]) /\ ~OutOfBounds(p)
        BY TakeEntry DEF CountCell, Skip, Occupied
    <2>2. p \in Cell
        BY <2>1, TakeEntry DEF OutOfBounds, Point, Coord, Cell
    <2>3. call.vacated[p] \in Nat /\ turn \in Nat
        BY <2>1, <2>2, TakeEntry DEF IInv, TypeOK, ScenarioType
    <2> QED
        BY <2>1, <2>3, TakeEntry DEF CountCell, Skip
<1>2. p \in Cell /\ turn \in Nat /\ p \in Point
    BY <1>1, TakeEntry DEF OutOfBounds, Point, Coord, Cell
<1>3. counted' = counted \cup {p}
    BY <1>1 DEF counted
<1>4. p \notin counted
    BY <1>1 DEF IInv, CountedInv
<1>5. /\ arrival'[p] = turn
      /\ \A c \in counted : c # p /\ arrival'[c] = arrival[c]
    BY <1>1, <1>4
<1>6. \A c \in counted : c \in Cell /\ arrival[c] \in Nat
    BY DEF IInv, TypeOK
<1>7. /\ queue' \in Seq(Point \X Nat) /\ Len(queue') = Len(q) + 4
      /\ Len(q) \in Nat /\ DOMAIN queue' = 1 .. Len(q) + 4
      /\ \A i \in 1 .. Len(q) : queue'[i] = q[i]
      /\ \A i \in Len(q) + 1 .. Len(q) + 4 : \E dir \in Direction :
            queue'[i] = <<CoordAfterMove(p, dir), turn + 1>>
      /\ \A dir \in Direction : \E i \in Len(q) + 1 .. Len(q) + 4 :
            queue'[i] = <<CoordAfterMove(p, dir), turn + 1>>
    <2>1. q \in Seq(Point \X Nat)
        BY <1>1, TakeEntry
    <2> HIDE DEF p, q, turn
    <2>2. /\ Later(q, p, turn) \in Seq(Point \X Nat)
          /\ Len(Later(q, p, turn)) = Len(q) + 4
          /\ \A i \in 1 .. Len(q) : Later(q, p, turn)[i] = q[i]
          /\ \A i \in Len(q) + 1 .. Len(q) + 4 : \E dir \in Direction :
                Later(q, p, turn)[i] = <<CoordAfterMove(p, dir), turn + 1>>
          /\ \A dir \in Direction : \E i \in Len(q) + 1 .. Len(q) + 4 :
                Later(q, p, turn)[i] = <<CoordAfterMove(p, dir), turn + 1>>
        BY <1>2, <2>1, LaterEntries
    <2>3. Len(q) \in Nat /\ DOMAIN Later(q, p, turn) = 1 .. Len(q) + 4
        BY <2>1, <2>2
    <2> QED
        BY <1>1, <2>2, <2>3
<1>8. \A i \in DOMAIN queue' : i \in 1 .. Len(q) \/ i \in Len(q) + 1 .. Len(q) + 4
    BY <1>7
<1>9. /\ DOMAIN q = 1 .. Len(q)
      /\ \A i \in DOMAIN q : /\ q[i][2] \in Nat
                             /\ turn <= q[i][2] /\ q[i][2] <= turn + 1
      /\ \A c \in counted : arrival[c] <= turn
      /\ \A i, j \in DOMAIN q : i < j => q[i][2] <= q[j][2]
    BY <1>1, TailOrdered
<1>9a. /\ \A i \in 1 .. Len(q) : \E b \in counted, dir \in Direction :
            q[i] = <<CoordAfterMove(b, dir), arrival[b] + 1>>
      /\ \/ p = call.start /\ turn = 0
         \/ \E b \in counted, dir \in Direction :
               p = CoordAfterMove(b, dir) /\ turn = arrival[b] + 1
    <2>1. \/ q = <<>> /\ counted = {} /\ queue[1] = <<call.start, 0>>
          \/ /\ \A i \in DOMAIN q : \E b \in counted, dir \in Direction :
                   q[i] = <<CoordAfterMove(b, dir), arrival[b] + 1>>
             /\ \E b \in counted, dir \in Direction :
                   queue[1] = <<CoordAfterMove(b, dir), arrival[b] + 1>>
        BY <1>1, TailOrdered
    <2>2. DOMAIN q = 1 .. Len(q)
        BY <1>9
    <2>3. queue[1] = <<p, turn>>
        BY <1>1, TakeEntry
    <2> HIDE DEF p, q, turn
    <2>4. q = <<>> => 1 .. Len(q) = {}
        OBVIOUS
    <2> QED
        BY <2>1, <2>2, <2>3, <2>4
<1>9b. ASSUME NEW b \in counted, NEW n \in Cell, IsAdjacent(b, n),
             CellIndex(n) \notin visited
      PROVE  \/ n = p /\ turn = arrival[b] + 1
             \/ \E i \in 1 .. Len(q) : q[i] = <<n, arrival[b] + 1>>
    <2>1. \/ CellIndex(n) \in visited
          \/ queue[1] = <<n, arrival[b] + 1>>
          \/ \E i \in 1 .. Len(q) : q[i] = <<n, arrival[b] + 1>>
        BY <1>1, <1>9b, TailCovers
    <2>2. queue[1] = <<n, arrival[b] + 1>> => n = p /\ turn = arrival[b] + 1
        OBVIOUS
    <2> QED
        BY <1>9b, <2>1, <2>2
<1>9c. call \in ScenarioType /\ visited' \subseteq 0 .. Width * Height - 1
    BY <1>1, <1>2, IndexOfCell DEF IInv, TypeOK
<1> HIDE DEF p, q, turn
<1>10. TypeOK'
    <2>1. \A c \in counted' : c \in Cell /\ arrival'[c] \in Nat
        BY <1>2, <1>3, <1>5, <1>6
    <2>2. count' \in Nat
        BY <1>1 DEF IInv, TypeOK
    <2> QED
        BY <1>1, <1>7, <1>9c, <2>1, <2>2 DEF TypeOK
<1>11. CountedInv'
    <2>1. IsFiniteSet(counted') /\ Cardinality(counted') = Cardinality(counted) + 1
        BY <1>3, <1>4, FS_AddElement DEF IInv, CountedInv
    <2> QED
        BY <1>1, <1>3, <2>1 DEF IInv, CountedInv, CountsCells, CellIndex
<1>12. QueueFrom'
    <2> SUFFICES ASSUME NEW i \in DOMAIN queue'
                 PROVE  \E b \in counted', dir \in Direction :
                            queue'[i] = <<CoordAfterMove(b, dir),
                                          arrival'[b] + 1>>
        BY DEF QueueFrom
    <2>1. CASE i \in 1 .. Len(q)
        <3>1. PICK b \in counted, dir \in Direction :
                  q[i] = <<CoordAfterMove(b, dir), arrival[b] + 1>>
            BY <1>9a, <2>1
        <3> QED
            BY <1>3, <1>5, <1>7, <2>1, <3>1
    <2>2. CASE i \in Len(q) + 1 .. Len(q) + 4
        BY <1>3, <1>5, <1>7, <2>2
    <2> QED
        BY <1>8, <2>1, <2>2
<1>13. \A i \in DOMAIN queue' : /\ queue'[i][2] \in Nat
                                /\ turn <= queue'[i][2]
                                /\ queue'[i][2] <= turn + 1
    <2>1. \A i \in Len(q) + 1 .. Len(q) + 4 : queue'[i][2] = turn + 1
        BY <1>7
    <2> QED
        BY <1>2, <1>7, <1>8, <1>9, <2>1
<1>14. QueueOrdered'
    <2>1. ASSUME NEW i \in DOMAIN queue', NEW j \in DOMAIN queue', i < j
          PROVE  queue'[i][2] <= queue'[j][2]
        <3>1. CASE j \in 1 .. Len(q)
            <4>1. i \in 1 .. Len(q)
                BY <1>7, <2>1, <3>1
            <4> QED
                BY <1>7, <1>9, <2>1, <3>1, <4>1
        <3>2. CASE j \in Len(q) + 1 .. Len(q) + 4
            <4>1. queue'[j][2] = turn + 1
                BY <1>7, <3>2
            <4> QED
                BY <1>13, <4>1
        <3> QED
            BY <1>8, <3>1, <3>2
    <2>2. \A i, j \in DOMAIN queue' : queue'[j][2] <= queue'[i][2] + 1
        BY <1>2, <1>13
    <2>3. \A c \in counted' : arrival'[c] \in Nat /\ arrival'[c] <= turn
        BY <1>2, <1>3, <1>5, <1>6, <1>9
    <2>4. \A i \in DOMAIN queue', c \in counted' : arrival'[c] <= queue'[i][2]
        BY <1>2, <1>13, <2>3
    <2> QED
        BY <2>1, <2>2, <2>4 DEF QueueOrdered
<1>15. CountedInTime'
    <2>1. ASSUME NEW c \in counted
          PROVE  /\ call.vacated[c] <= arrival'[c]
                 /\ \/ c = call.start /\ arrival'[c] = 0
                    \/ \E b \in counted' :
                          IsAdjacent(b, c) /\ arrival'[c] = arrival'[b] + 1
        BY <1>3, <1>5 DEF IInv, CountedInTime
    <2>2. \/ p = call.start /\ turn = 0
          \/ \E b \in counted : IsAdjacent(b, p) /\ turn = arrival[b] + 1
        BY <1>2, <1>6, <1>9a, StepsToNeighbors
    <2>3. \/ p = call.start /\ arrival'[p] = 0
          \/ \E b \in counted' :
                IsAdjacent(b, p) /\ arrival'[p] = arrival'[b] + 1
        BY <1>3, <1>5, <2>2
    <2>4. call.vacated[p] <= arrival'[p]
        BY <1>1, <1>5
    <2> QED
        BY <1>1, <1>3, <2>1, <2>3, <2>4 DEF CountedInTime
<1>16. Covered'
    <2> SUFFICES ASSUME NEW b \in counted', NEW n \in Cell, IsAdjacent(b, n),
                        CellIndex(n) \notin visited'
                 PROVE  \E i \in DOMAIN queue' :
                            queue'[i] = <<n, arrival'[b] + 1>>
        BY DEF Covered, CellIndex
    <2>1. CellIndex(n) \notin visited /\ n # p
        BY <1>1
    <2>2. CASE b = p
        <3>1. PICK dir \in Direction : n = CoordAfterMove(p, dir)
            BY <1>2, <2>2, StepsToNeighbors
        <3>2. PICK i \in Len(q) + 1 .. Len(q) + 4 :
                  queue'[i] = <<CoordAfterMove(p, dir), turn + 1>>
            BY <1>7
        <3>3. i \in DOMAIN queue'
            BY <1>7
        <3> QED
            BY <1>5, <2>2, <3>1, <3>2, <3>3
    <2>3. CASE b \in counted
        <3>1. PICK i \in 1 .. Len(q) : q[i] = <<n, arrival[b] + 1>>
            BY <1>9b, <2>1, <2>3
        <3>2. i \in DOMAIN queue' /\ queue'[i] = q[i]
            BY <1>7
        <3> QED
            BY <1>5, <2>3, <3>1, <3>2
    <2> QED
        BY <1>3, <2>2, <2>3
<1>17. NoDetours'
    <2>1. \A b, c \in counted : IsAdjacent(b, c) => arrival[c] <= arrival[b] + 1
        BY DEF IInv, NoDetours
    <2>2. \A c \in counted : arrival[c] <= turn + 1
        BY <1>2, <1>6, <1>9
    <2>3. ASSUME NEW b \in counted, IsAdjacent(b, p)
          PROVE  turn <= arrival[b] + 1
        <3>1. CASE turn = arrival[b] + 1
            BY <1>2, <3>1
        <3>2. ASSUME NEW i \in 1 .. Len(q), q[i] = <<p, arrival[b] + 1>>
              PROVE  turn <= arrival[b] + 1
            BY <1>9, <3>2
        <3> QED
            BY <1>1, <1>2, <1>9b, <2>3, <3>1, <3>2
    <2> QED
        BY <1>2, <1>3, <1>5, <2>1, <2>2, <2>3 DEF NoDetours
<1>18. MissedInv'
    <2> SUFFICES ASSUME NEW c \in Cell \ counted', CellIndex(c) \in visited'
                 PROVE  \E b \in counted' :
                            /\ IsAdjacent(b, c)
                            /\ call.vacated[c] > arrival'[b] + 1
        BY <1>1 DEF MissedInv, near, CellIndex
    <2>1. c # p /\ c \in Cell \ counted
        BY <1>3
    <2>2. CellIndex(c) \in visited
        BY <1>1, <1>2, <2>1, IndexOfCell
    <2>3. PICK b \in near(c) : call.vacated[c] > arrival[b] + 1
        BY <1>1, <2>1, <2>2 DEF IInv, MissedInv
    <2> QED
        BY <1>3, <1>5, <2>3 DEF near
<1> QED
    BY <1>10, <1>11, <1>12, <1>14, <1>15, <1>16, <1>17, <1>18 DEF IInv

\* No step leaves the invariant.
LEMMA Inductive == IInv /\ [Next]_vars => IInv'
<1>1. ASSUME IInv, UNCHANGED vars PROVE IInv'
    BY <1>1 DEF vars, IInv, TypeOK, CountedInv, CountsCells, QueueFrom,
        QueueOrdered, CountedInTime, Covered, NoDetours, MissedInv, near,
        counted, CellIndex
<1> QED
    BY <1>1, PassOverStep, FindOccupiedStep, CountCellStep DEF Next

\* The inductive invariant: the queue holds the neighbours of what was
\* counted, in the order of their turns.
THEOREM Invariance == Spec => []IInv
BY InitIInv, Inductive, PTL DEF Spec

\* The locals of countAccessibleCells keep their types: no index beyond the
\* board is ever marked as visited.
THEOREM TypeCorrect == Spec => []TypeOK
<1>1. IInv => TypeOK
    BY DEF IInv
<1> QED
    BY <1>1, Invariance, PTL

\* What is counted, once each, can be walked to in time.
THEOREM CountIsSound == Spec => []CountSound
<1>1. IInv => CountSound
    BY DEF IInv, CountedInv, CountSound
<1> QED
    BY <1>1, Invariance, PTL

\* In the end nothing that was vacant next to a counted cell is left out.
LEMMA FreeCellsCounted == IInv /\ done => NothingFreeMissed
<1> SUFFICES ASSUME IInv, done, NEW c \in Cell \ counted, near(c) # {}
             PROVE  \E b \in near(c) : call.vacated[c] > arrival[b] + 1
    BY DEF NothingFreeMissed
<1>1. PICK b \in counted : IsAdjacent(b, c)
    BY DEF near
<1>2. DOMAIN queue = {}
    BY DEF done
<1>3. CellIndex(c) \in visited
    BY <1>1, <1>2 DEF IInv, Covered
<1> QED
    BY <1>1, <1>3 DEF IInv, MissedInv

\* The free region around the start is counted, at the earliest turn.
THEOREM CountIsComplete == Spec => []CountComplete
<1>1. IInv => CountComplete
    BY FreeCellsCounted DEF IInv, CountComplete
<1> QED
    BY <1>1, Invariance, PTL
=============================================================================
