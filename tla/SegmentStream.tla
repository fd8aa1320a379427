---------------------------- MODULE SegmentStream ----------------------------
(***************************************************************************)
(* What the ring of buffers promises: every matching thread gets every     *)
(* segment of every day, once, in order, and the loader is never more than *)
(* Capacity segments ahead of the slowest thread.                          *)
(***************************************************************************)
EXTENDS Integers, Sequences

CONSTANTS Worker, Capacity

VARIABLES
  stream,    \* the segments of all days, in order
  sent,      \* how many segments have been loaded
  seen       \* seen[w]: what thread w has processed

Send ==
  /\ sent < Len(stream)
  /\ \A w \in Worker : sent - Len(seen[w]) < Capacity
  /\ sent' = sent + 1
  /\ UNCHANGED <<stream, seen>>

Receive(w) ==
  /\ Len(seen[w]) < sent
  /\ seen' = [seen EXCEPT ![w] = Append(@, stream[Len(@) + 1])]
  /\ UNCHANGED <<stream, sent>>

Init == sent = 0 /\ seen = [w \in Worker |-> <<>>]

Next == Send \/ \E w \in Worker : Receive(w)

Spec == Init /\ [][Next]_<<stream, sent, seen>>

=============================================================================
