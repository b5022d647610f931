------------------------------ MODULE BoundedLog ------------------------------
(***************************************************************************)
(* What the buffer of a stream promises: the most recent lines, as many as *)
(* fit, in the order they were appended.                                   *)
(***************************************************************************)
EXTENDS Integers, Sequences

CONSTANTS Batch, Capacities   \* what is appended at a time; capacities

VARIABLES
  lines,      \* the lines kept
  capacity,   \* how many lines fit
  total       \* how many have ever been appended

logVars == <<lines, capacity, total>>

MostRecent(s, n) == IF Len(s) <= n THEN s ELSE SubSeq(s, Len(s) - n + 1, Len(s))

Init == lines = <<>> /\ capacity \in Capacities /\ total = 0

AppendBatch(batch) ==
  /\ lines' = MostRecent(lines \o batch, capacity)
  /\ total' = total + Len(batch)
  /\ UNCHANGED capacity

Clear == lines' = <<>> /\ UNCHANGED <<capacity, total>>

Resize(n) ==
  /\ capacity' = n
  /\ lines' = MostRecent(lines, n)
  /\ UNCHANGED total

Next ==
  \/ \E batch \in Batch : AppendBatch(batch)
  \/ Clear
  \/ \E n \in Capacities : Resize(n)

Spec == Init /\ [][Next]_logVars

=============================================================================
