-------------------------- MODULE SidecarOwnership --------------------------
(***************************************************************************)
(* What a run is promised about its sidecars, whatever sweeps run beside   *)
(* it: from the moment it gets one until it no longer counts on it, the    *)
(* run has it.  A resource is taken away only after its run is over.       *)
(***************************************************************************)
CONSTANTS
  Runs,   \* the runs
  Kinds   \* the kinds of resource a run can hold, at most one of each

VARIABLES
  phase,  \* phase[r]: "new", then "active", then "over"
  held    \* the resources that exist, as <<kind, run>>

Init ==
  /\ phase = [r \in Runs |-> "new"]
  /\ held = {}

Enter(r) ==
  /\ phase[r] = "new"
  /\ phase' = [phase EXCEPT ![r] = "active"]
  /\ UNCHANGED held

Acquire(r) ==
  /\ phase[r] = "active"
  /\ \E k \in Kinds : held' = held \cup {<<k, r>>}
  /\ UNCHANGED phase

\* A last acquisition may fail half-way and end the run with it.
Leave(r) ==
  /\ phase[r] \in {"new", "active"}
  /\ phase' = [phase EXCEPT ![r] = "over"]
  /\ \/ UNCHANGED held
     \/ phase[r] = "active" /\ \E k \in Kinds : held' = held \cup {<<k, r>>}

Collect(r) ==
  /\ phase[r] = "over"
  /\ \E k \in Kinds : held' = held \ {<<k, r>>}
  /\ UNCHANGED phase

Next == \E r \in Runs : Enter(r) \/ Acquire(r) \/ Leave(r) \/ Collect(r)

Spec == Init /\ [][Next]_<<phase, held>>
=============================================================================
