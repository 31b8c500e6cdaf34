--------------------------- MODULE MCPublication ---------------------------
(***************************************************************************)
(* Instances of Publication for TLC.                                       *)
(***************************************************************************)
EXTENDS Publication

World(target, events, n) == [target |-> target, events |-> events, calls |-> n]

\* Both lanes: handlers die and answers are lost, role or acceptance is withdrawn,
\* somebody else moves main.
LaneWorlds ==
  {World("production", {"lose"}, 2), World("staging", {"revoke"}, 1),
   World("production", {"verifier"}, 1)}
=============================================================================
