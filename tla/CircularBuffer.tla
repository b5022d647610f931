---------------------------- MODULE CircularBuffer ----------------------------
(***************************************************************************)
(* internal/streaming/buffer.go: the ring that keeps the last lines of a   *)
(* stream.  Every method holds the mutex from end to end, so each call is  *)
(* one step; the methods that only read are operators.                     *)
(***************************************************************************)
EXTENDS Integers, Sequences

CONSTANTS
  Line,               \* lines of text
  Unset,              \* a string of data that was never written
  Batch,              \* what AppendString may split its argument into
  Capacities,         \* capacities given to NewCircularBuffer and Resize
  DefaultBufferSize,  \* taken for a capacity that is not positive
  MaxTotal            \* bound: lines ever appended

VARIABLES
  data,         \* the slots, from 0 on
  head,         \* where the next line goes
  tail,         \* where the oldest line is
  size,         \* lines in the ring
  capacity,     \* slots
  totalLines    \* lines ever appended

vars == <<data, head, tail, size, capacity, totalLines>>

CapacityFor(n) == IF n <= 0 THEN DefaultBufferSize ELSE n
Blank(n) == [i \in 0 .. n - 1 |-> Unset]

\* A slice data[from:to] of Go, as a sequence.
Slice(from, to) == [i \in 1 .. to - from |-> data[from + i - 1]]

\* Types, and what keeps the slices GetLines and GetLastN take inside data,
\* which Go checks at run time: a ring that is not full has its oldest line in
\* slot 0 (tail moves only when it is full, and Clear and Resize put it back),
\* and head is always size slots after tail.
TypeOK ==
  /\ capacity \in Nat \ {0}
  /\ data \in [0 .. capacity - 1 -> Line \cup {Unset}]
  /\ head \in 0 .. capacity - 1
  /\ tail \in 0 .. capacity - 1
  /\ size \in 0 .. capacity
  /\ totalLines \in 0 .. MaxTotal
  /\ size < capacity => tail = 0
  /\ head = (tail + size) % capacity

Init ==
  \E n \in Capacities :
    /\ capacity = CapacityFor(n)
    /\ data = Blank(CapacityFor(n))
    /\ head = 0 /\ tail = 0 /\ size = 0 /\ totalLines = 0

(***************************************************************************)
(* Writing.                                                                *)
(***************************************************************************)

\* appendSingle, on the fields it changes.
AppendSingle(b, line) ==
  [data |-> [b.data EXCEPT ![b.head] = line],
   head |-> (b.head + 1) % capacity,
   tail |-> IF b.size = capacity THEN (b.tail + 1) % capacity ELSE b.tail,
   size |-> IF b.size = capacity THEN b.size ELSE b.size + 1]

AppendString(lines) ==
  /\ totalLines + Len(lines) <= MaxTotal
  /\ LET b[i \in 0 .. Len(lines)] ==
           IF i = 0 THEN [data |-> data, head |-> head, tail |-> tail, size |-> size]
           ELSE AppendSingle(b[i - 1], lines[i])
         after == b[Len(lines)]
     IN data' = after.data /\ head' = after.head /\ tail' = after.tail /\ size' = after.size
  /\ totalLines' = totalLines + Len(lines)
  /\ UNCHANGED capacity

\* A mutant: the lines are forgotten and the tail is not.
ClearLeavesTail ==
  /\ head' = 0 /\ size' = 0
  /\ UNCHANGED <<data, tail, capacity, totalLines>>

Clear ==
  /\ head' = 0 /\ tail' = 0 /\ size' = 0
  /\ UNCHANGED <<data, capacity, totalLines>>

\* A mutant: the oldest lines are kept.
ResizeKeepsOldest(newCapacity) ==
  LET n == CapacityFor(newCapacity)
      kept == IF size > n THEN n ELSE size
  IN /\ n # capacity
     /\ capacity' = n
     /\ data' = [i \in 0 .. n - 1 |->
                   IF i < kept THEN data[(tail + i) % capacity] ELSE Unset]
     /\ tail' = 0
     /\ size' = kept
     /\ head' = kept % n
     /\ UNCHANGED totalLines

\* The lines that are kept go to the first slots.
Resize(newCapacity) ==
  LET n == CapacityFor(newCapacity)
      kept == IF size > n THEN n ELSE size
      from == tail + size - kept
  IN /\ n # capacity
     /\ capacity' = n
     /\ data' = [i \in 0 .. n - 1 |->
                   IF i < kept THEN data[(from + i) % capacity] ELSE Unset]
     /\ tail' = 0
     /\ size' = kept
     /\ head' = kept % n
     /\ UNCHANGED totalLines

Next ==
  \/ \E lines \in Batch : AppendString(lines)
  \/ Clear
  \/ \E n \in Capacities : Resize(n)

Spec == Init /\ [][Next]_vars

(***************************************************************************)
(* Reading.                                                                *)
(***************************************************************************)

GetLines ==
  CASE size = 0 -> <<>>
    [] size > 0 /\ (tail < head \/ size < capacity) -> Slice(tail, tail + size)
    [] size > 0 /\ ~(tail < head \/ size < capacity) ->
         Slice(tail, capacity) \o Slice(0, head)

GetLastN(count) ==
  LET n == IF count > size THEN size ELSE count
      start == (tail + size - n) % capacity
      inOnePiece == start < head \/ (start >= tail /\ size < capacity)
      firstPart == capacity - start
  IN IF size = 0 \/ count <= 0 THEN <<>>
     ELSE IF inOnePiece \/ firstPart >= n THEN Slice(start, start + n)
     ELSE Slice(start, capacity) \o Slice(0, n - firstPart)

-----------------------------------------------------------------------------

\* GetLines returns the most recent lines, whatever appends, clears and changes of
\* capacity went before, and GetLastN the last of them, as many as it is asked for
\* or all, wherever the ring is broken.
Log == INSTANCE BoundedLog WITH
  lines <- GetLines, total <- totalLines,
  Capacities <- {CapacityFor(n) : n \in Capacities}

LastNAgrees == \A n \in -1 .. capacity + 1 : GetLastN(n) = Log!MostRecent(GetLines, n)

KeepsMostRecent == Log!Spec /\ []LastNAgrees

=============================================================================
