--------------------------- MODULE BatchDelivery ---------------------------
(***************************************************************************)
(* What an ObservabilityClient promises its callers, with no buffer,       *)
(* batches, clocks, retries or HTTP calls: records are numbered in the     *)
(* order they are submitted; the pipeline stores prefixes of what is not   *)
(* yet released, possibly again and again; and the sender forgets a record *)
(* (releases it) only once the pipeline has stored it.                     *)
(***************************************************************************)
EXTENDS Integers

VARIABLES
  submitted,    \* number of records submitted so far: records 1..submitted
  released,     \* records 1..released are no longer held by the sender
  stored        \* the records the pipeline has stored at least once

vars == <<submitted, released, stored>>

TypeOK ==
  /\ submitted \in Nat
  /\ released \in 0..submitted
  /\ stored \in SUBSET (1..submitted)

Init ==
  /\ submitted = 0
  /\ released = 0
  /\ stored = {}

Submit ==
  /\ submitted' = submitted + 1
  /\ UNCHANGED <<released, stored>>

\* One batch reaches the pipeline: it starts with the oldest record held.
Store ==
  \E last \in released + 1 .. submitted :
    /\ stored' = stored \cup (released + 1 .. last)
    /\ UNCHANGED <<submitted, released>>

Release ==
  \E last \in released + 1 .. submitted :
    /\ released + 1 .. last \subseteq stored
    /\ released' = last
    /\ UNCHANGED <<submitted, stored>>

Next == Submit \/ Store \/ Release

Spec == Init /\ [][Next]_vars

-----------------------------------------------------------------------------
(* At-least-once: whatever the sender has forgotten is in the pipeline.    *)
ReleasedIsStored == 1..released \subseteq stored
=============================================================================
