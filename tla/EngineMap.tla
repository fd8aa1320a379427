------------------------------ MODULE EngineMap ------------------------------
(***************************************************************************)
(* What a trade engine promises: every instrument of the day has an engine *)
(* of its own, which gets the alphas and order logs of the instrument, all *)
(* of them, in the order they come, at the times they have.                *)
(***************************************************************************)
EXTENDS Integers, Sequences

CONSTANTS Instruments, Records

VARIABLES
  known,      \* the instruments that have an engine
  received,   \* received[i]: what the engine of i was given
  complete    \* the day is over

Open(i) ==
  /\ ~complete /\ i \notin known
  /\ known' = known \cup {i}
  /\ UNCHANGED <<received, complete>>

Give(i, record) ==
  /\ ~complete /\ i \in known
  /\ received' = [received EXCEPT ![i] = Append(@, record)]
  /\ UNCHANGED <<known, complete>>

Close == ~complete /\ complete' = TRUE /\ UNCHANGED <<known, received>>

Init == known = {} /\ received = [i \in Instruments |-> <<>>] /\ complete = FALSE

Next == \/ \E i \in Instruments : Open(i) \/ \E record \in Records : Give(i, record)
        \/ Close

Spec == Init /\ [][Next]_<<known, received, complete>>

=============================================================================
