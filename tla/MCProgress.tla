----------------------------- MODULE MCProgress -----------------------------
(***************************************************************************)
(* What must eventually happen: the queue of an open editor drains, and a  *)
(* cancelled publication gives its lane back.  A behaviour is that of the  *)
(* one component or of the other.                                          *)
(***************************************************************************)
EXTENDS MCAutosave

VARIABLES lane, jobs, slot, releases, granted, allowed, calls, gh, log, latest, site
laneVars == <<lane, jobs, slot, releases, granted, allowed, calls, gh, log, latest, site>>

Lane(target, events, n) == [target |-> target, events |-> events, calls |-> n]
\* A cancellation while GitHub and the host fail at times, or authority is withdrawn.
CancelWorlds == {Lane("staging", {"lose"}, 2), Lane("production", {"revoke", "push"}, 1)}
NoLane == Lane("staging", {}, 0)
P == INSTANCE Publication WITH
  world <- lane, Worlds <- CancelWorlds \cup {NoLane}, MaxJobs <- 1, MaxRuns <- 2, MaxDispatch <- 2, MaxRetries <- 0

NoEditor == World({}, {}, 1, <<0, 1, 0>>)
InEditor == lane = NoLane

EitherWorlds == LossyNetwork \cup {NoEditor}
MCInit == Init /\ P!Init /\ (InEditor <=> world # NoEditor)
OfEditor(A) == InEditor /\ A /\ UNCHANGED laneVars
OfLane(A) == ~ InEditor /\ A /\ UNCHANGED vars
MCNext == OfEditor(Next) \/ OfLane(P!Next)

all == <<vars, laneVars>>
\* The fairness of the two components.
MCFairness ==
  /\ \A p \in Pages : WF_all(OfEditor(Page(p)))
  /\ WF_all(OfEditor(\E r \in net : Network(r)))
  /\ WF_all(OfEditor(GoOnline))
  /\ \A j \in P!Jobs : /\ WF_all(OfLane(P!Elapse(j))) /\ WF_all(OfLane(P!BeginContinue(j)))
                       /\ SF_all(OfLane(P!ListOf(j))) /\ SF_all(OfLane(P!SettleOf(j)))
  /\ \A r \in P!Runs : WF_all(OfLane(P!EndRun(r)))
MCSpec == MCInit /\ [][MCNext]_all /\ MCFairness

\* A page that goes on existing comes to rest again and again: whatever the network loses,
\* its queue is sent, or it stops for a decision that the user has to make.
QueueDrains == InEditor => Drains
\* A cancelled publication gives its lane back in the end, although GitHub fails at times.
LaneIsFreed == ~ InEditor => P!CancellationSettles
=============================================================================
