-------------------------- MODULE ProductionProofs --------------------------
(***************************************************************************)
(* Proofs about Production for every number of people, candidates,         *)
(* operations, runs and waiting handlers, and in every world.              *)
(*                                                                         *)
(* The promises become inductive with what the code keeps without saying:  *)
(* the slot is a publication's and a rollback leaves it empty, a run that  *)
(* was told to deploy is the one its running operation is bound to and the *)
(* last that was told, a superseded acceptance stays superseded, and each  *)
(* handler that waits still stands on what it found.                       *)
(***************************************************************************)
EXTENDS Publishing, TLAPS

Statuses == {"none", "queued", "running", "cancelled", "succeeded"}
OpRow ==
  [kind : {"publication", "rollback"}, status : Statuses, by : People, stage : 0..MaxStages,
   approval : Nat, parent : 0..MaxOps, attempt : Nat, base : 0..MaxOps, source : 0..MaxStages,
   previous : Nat, deployment : Nat, count : Nat, reserved : 0..MaxRuns, claimed : 0..MaxRuns,
   recorded : BOOLEAN, granted : BOOLEAN, reported : BOOLEAN, verifying : BOOLEAN]
Points == {"start", "reserved", "claimed", "committed", "granted", "deployed", "reported",
           "finalized"}
RunRow ==
  [state : {"unused", "active", "completed"}, op : 0..MaxOps, head : 0..MaxOps, at : Points]
RoleNames == {"none", "publisher", "administrator"}
Decisions == {"approved", "rejected", "revoked"}
Kinds == {"decide", "promote", "retry", "rollback", "dispatch", "end", "grant", "finalize",
          "verify", "complete", "role"}
Waiting ==
  [kind : Kinds, by : People, target : Nat, decision : Decisions \cup Statuses \cup RoleNames,
   seen : Nat, base : 0..MaxOps, deployment : Nat, replace : 0..MaxOps, run : 0..MaxRuns]

TypeOK ==
  /\ world \in Worlds
  /\ roles \in [People -> RoleNames] /\ archived \in BOOLEAN
  /\ staging \in [jobs : [Stages -> {"none", "active", "succeeded", "cancelled"}],
                  slot : 0..MaxStages, site : 0..MaxStages]
  /\ approvals \in Seq([stage : Stages, decision : Decisions, base : 0..MaxOps])
  /\ ops \in [Ops -> OpRow]
  /\ slot \in 0..MaxOps
  /\ releases \in Seq([op : 0..MaxOps, content : 0..MaxStages]) /\ Len(releases) > 0
  /\ calls \subseteq Waiting
  /\ runs \in [Runs -> RunRow]
  /\ deployments \in Seq(Runs)
  /\ main \in Seq(Ops)
  /\ site \in 0..MaxOps
  /\ granted \in 0..MaxOps /\ withdrawn \subseteq Ops

Known(j) == ops[j].status # "none"
Started(r) == runs[r].state # "unused"

\* the lane: its slot is that of the active publication, and empty for an active rollback
SlotTaken ==
  slot # None => Publication(slot) /\ ops[slot].status \in {"queued", "running", "cancelled"}
HolderActive == \A j \in Ops : Active(j) => slot = IF Publication(j) THEN j ELSE None

\* the runs: each works for an operation that was captured; one that was told to deploy is the
\* run of the operation at work, and the last that was told
RunsKnown == \A r \in Runs : Started(r) => runs[r].op \in Ops /\ Known(runs[r].op)
RunningClaimed == \A j \in Ops : ops[j].status = "running" => ops[j].claimed \in Runs
Deploying ==
  \A r \in Runs : runs[r].state = "active" /\ runs[r].at = "granted" =>
    LET j == runs[r].op IN
    /\ ops[j].status = "running" /\ ops[j].granted /\ granted = j
    /\ ops[j].reserved = r /\ ops[j].claimed = r
SiteGranted == site # None => Known(site) /\ ops[site].granted

\* releases and acceptances
ReleasedDone ==
  \A i \in 1..Len(releases) : LET j == releases[i].op IN j # None => ops[j].status = "succeeded"
LatestKnown == \A c \in Stages : Latest(c) \in 0..Len(approvals)
AcceptedBefore ==
  \A j \in Ops : Known(j) /\ Publication(j) => ops[j].stage \in Stages /\ ops[j].approval =< Len(approvals)
Superseded ==
  \A j \in withdrawn : Known(j) /\ Publication(j) /\ ops[j].approval < Latest(ops[j].stage)

\* what a handler that waits stands on
OfOperation(c) == c.target \in Ops /\ Known(c.target)
OfRollback(c) == OfOperation(c) /\ ~ Publication(c.target)
AtRun(c, stage) == c.run \in Runs /\ Started(c.run) /\ runs[c.run].at = stage
ShowsIt(c) == Active(c.target) => site = c.target
Founded(c) ==
  \/ c.kind = "decide" /\ c.target \in Stages /\ c.decision \in Decisions
  \/ c.kind = "promote" /\ c.target \in Stages /\ c.seen # None
  \/ c.kind = "retry" /\ OfOperation(c)
  \/ c.kind = "rollback" /\ c.target \in 1..Len(releases) /\ (c.replace # None => Done(c.run))
  \/ c.kind = "dispatch" /\ OfRollback(c)
  \/ /\ c.kind = "end" /\ OfRollback(c)
     /\ c.decision \in {"queued", "running"} /\ (c.run = None \/ Done(c.run))
  \/ c.kind = "grant" /\ OfOperation(c) /\ AtRun(c, "committed") /\ runs[c.run].op = c.target
  \/ /\ c.kind = "finalize" /\ OfOperation(c) /\ AtRun(c, "reported")
     /\ ops[c.target].claimed = c.run /\ ShowsIt(c)
  \/ c.kind \in {"verify", "complete"} /\ OfOperation(c) /\ c.run = None /\ ShowsIt(c)
  \/ c.kind = "role" /\ c.decision \in RoleNames
CallsFounded == \A c \in calls : Founded(c)
OfRunner(c) == c.kind \in {"grant", "finalize"}
OnePerRun == \A c, d \in calls : OfRunner(c) /\ OfRunner(d) /\ c.run = d.run => c = d

LaneInv == SlotTaken /\ HolderActive /\ OneOperation
RunInv == RunsKnown /\ RunningClaimed /\ Deploying /\ SiteGranted
ReleaseInv == ReleasedDone /\ LiveIsReleased
DecisionInv == LatestKnown /\ AcceptedBefore /\ Superseded /\ WithdrawnStaysOut
ProductionInv ==
  /\ TypeOK /\ LaneInv /\ RunInv /\ ReleaseInv /\ DecisionInv
  /\ CallsFounded /\ OnePerRun


-----------------------------------------------------------------------------
(* Types.                                                                  *)

LEMMA NatTypes ==
  /\ None \in 0..MaxOps /\ None \in 0..MaxRuns /\ None \in 0..MaxStages /\ None \in Nat
  /\ Ops \subseteq 0..MaxOps /\ Runs \subseteq 0..MaxRuns /\ Stages \subseteq 0..MaxStages
  /\ Ops \subseteq Nat /\ Stages \subseteq Nat /\ 0..MaxOps \subseteq Nat /\ Runs \subseteq Nat
  /\ None \notin Ops /\ None \notin Runs /\ None \notin Stages
  /\ 0..MaxOps = {None} \cup Ops /\ 0..MaxRuns = {None} \cup Runs
  BY ProductionAssumption DEF None, Ops, Runs, Stages

LEMMA Somebody == (CHOOSE p \in People : TRUE) \in People
  BY ProductionAssumption

LEMMA OpFields ==
  ASSUME TypeOK, NEW j \in Ops
  PROVE  /\ ops[j] \in OpRow
         /\ ops[j].kind \in {"publication", "rollback"} /\ ops[j].status \in Statuses
         /\ ops[j].by \in People /\ ops[j].stage \in 0..MaxStages /\ ops[j].approval \in Nat
         /\ ops[j].parent \in 0..MaxOps /\ ops[j].attempt \in Nat /\ ops[j].base \in 0..MaxOps
         /\ ops[j].source \in 0..MaxStages /\ ops[j].count \in Nat
         /\ ops[j].reserved \in 0..MaxRuns /\ ops[j].claimed \in 0..MaxRuns
<1>1. ops[j] \in OpRow
  BY DEF TypeOK
<1> QED BY <1>1 DEF OpRow

LEMMA RunFields ==
  ASSUME TypeOK, NEW r \in Runs
  PROVE  runs[r].state \in {"unused", "active", "completed"} /\ runs[r].op \in 0..MaxOps
         /\ runs[r].head \in 0..MaxOps /\ runs[r].at \in Points
<1>1. runs[r] \in RunRow
  BY DEF TypeOK
<1> QED BY <1>1 DEF RunRow

LEMMA CallFields ==
  ASSUME TypeOK, NEW c \in calls
  PROVE  /\ c \in Waiting /\ c.kind \in Kinds /\ c.by \in People /\ c.target \in Nat
         /\ c.seen \in Nat /\ c.base \in 0..MaxOps /\ c.deployment \in Nat
         /\ c.replace \in 0..MaxOps /\ c.run \in 0..MaxRuns
<1>1. c \in Waiting
  BY DEF TypeOK
<1> QED BY <1>1 DEF Waiting

LEMMA MainType ==
  ASSUME TypeOK
  PROVE  Main \in 0..MaxOps /\ Len(deployments) \in Nat
  BY NatTypes DEF TypeOK, Main

\* a call whose other fields are as Call makes them
LEMMA CallType ==
  ASSUME TypeOK, NEW kind \in Kinds, NEW p \in People, NEW target \in Nat
  PROVE  /\ Call(kind, p, target) \in Waiting
         /\ \A n \in Nat, d \in Decisions \cup Statuses \cup RoleNames :
              [Call(kind, p, target) EXCEPT !.decision = d, !.seen = n] \in Waiting
         /\ \A d \in Decisions \cup Statuses \cup RoleNames :
              [Call(kind, p, target) EXCEPT !.decision = d] \in Waiting
         /\ \A n \in Nat : [Call(kind, p, target) EXCEPT !.seen = n] \in Waiting
         /\ \A r \in 0..MaxRuns : [Call(kind, p, target) EXCEPT !.run = r] \in Waiting
         /\ \A b \in 0..MaxOps : [Call(kind, p, target) EXCEPT !.base = b] \in Waiting
         /\ \A n \in Nat, j \in 0..MaxOps, r \in 0..MaxRuns :
              [Call(kind, p, target) EXCEPT !.seen = n, !.replace = j, !.run = r] \in Waiting
         /\ \A r \in 0..MaxRuns, n \in Nat, d \in Statuses :
              [Call(kind, p, target) EXCEPT !.run = r, !.seen = n, !.decision = d] \in Waiting
<1>1. Call(kind, p, target) \in Waiting
  BY NatTypes, MainType DEF Call, Waiting, Decisions
<1> HIDE DEF Call
<1> QED BY <1>1 DEF Waiting

\* a row that only changes in some fields
LEMMA RowsKept ==
  ASSUME TypeOK, NEW j \in Ops
  PROVE  /\ \A n \in Nat : [ops EXCEPT ![j].count = n] \in [Ops -> OpRow]
         /\ \A b \in BOOLEAN : /\ [ops EXCEPT ![j].recorded = b] \in [Ops -> OpRow]
                               /\ [ops EXCEPT ![j].granted = b] \in [Ops -> OpRow]
                               /\ [ops EXCEPT ![j].reported = b] \in [Ops -> OpRow]
                               /\ [ops EXCEPT ![j].verifying = b] \in [Ops -> OpRow]
         /\ \A s \in Statuses : [ops EXCEPT ![j].status = s] \in [Ops -> OpRow]
         /\ \A r \in 0..MaxRuns : [ops EXCEPT ![j].reserved = r] \in [Ops -> OpRow]
         /\ \A r \in 0..MaxRuns, s \in Statuses :
              [ops EXCEPT ![j].claimed = r, ![j].status = s] \in [Ops -> OpRow]
         /\ \A row \in OpRow : [ops EXCEPT ![j] = row] \in [Ops -> OpRow]
<1>1. ops[j] \in OpRow
  BY OpFields
<1>2. ASSUME NEW r \in 0..MaxRuns, NEW s \in Statuses
      PROVE  [ops EXCEPT ![j].claimed = r, ![j].status = s] \in [Ops -> OpRow]
  BY <1>1 DEF OpRow, TypeOK
<1> QED BY <1>1, <1>2 DEF OpRow, TypeOK

LEMMA NewPublicationType ==
  ASSUME NEW p \in People, NEW c \in 0..MaxStages, NEW a \in Nat, NEW b \in 0..MaxOps,
         NEW k \in 0..MaxOps, NEW n \in Nat
  PROVE  /\ [NoOp EXCEPT !.status = "queued", !.by = p, !.stage = c, !.approval = a, !.base = b]
              \in OpRow
         /\ [NoOp EXCEPT !.status = "queued", !.by = p, !.stage = c, !.approval = a, !.base = b,
                         !.parent = k, !.attempt = n] \in OpRow
<1>1. NoOp \in OpRow
  BY Somebody, NatTypes DEF NoOp, OpRow, Statuses
<1>2. [NoOp EXCEPT !.status = "queued", !.by = p, !.stage = c, !.approval = a, !.base = b] \in OpRow
  BY <1>1 DEF OpRow, Statuses
<1> HIDE DEF NoOp
<1>3. [NoOp EXCEPT !.status = "queued", !.by = p, !.stage = c, !.approval = a, !.base = b,
                         !.parent = k, !.attempt = n] \in OpRow
  BY <1>1 DEF OpRow, Statuses
<1> QED BY <1>2, <1>3

LEMMA NewRollbackType ==
  ASSUME NEW p \in People, NEW b \in 0..MaxOps, NEW n \in Nat, NEW s \in 0..MaxStages,
         NEW v \in Nat
  PROVE  [NoOp EXCEPT !.kind = "rollback", !.status = "queued", !.by = p, !.base = b,
                      !.deployment = n, !.source = s, !.previous = v] \in OpRow
<1>1. NoOp \in OpRow
  BY Somebody, NatTypes DEF NoOp, OpRow, Statuses
<1> HIDE DEF NoOp
<1> QED BY <1>1 DEF OpRow, Statuses


-----------------------------------------------------------------------------
(* What a step may change.                                                 *)

\* what the invariant is about, beside the handlers that wait
core == <<approvals, ops, slot, releases, runs, site, granted, withdrawn>>

\* no step goes back behind these
OpsForward ==
  \A j \in Ops : Known(j) =>
    /\ ops'[j].kind = ops[j].kind /\ ops'[j].stage = ops[j].stage
    /\ ops'[j].approval = ops[j].approval /\ ops'[j].status # "none"
    /\ ops'[j].status \in {"queued", "running"} => Active(j)
    /\ ops[j].status = "succeeded" => ops'[j].status = "succeeded"
    /\ ops[j].granted => ops'[j].granted
RunsForward ==
  \A r \in Runs : Started(r) =>
    /\ runs'[r].op = runs[r].op /\ runs'[r].state # "unused"
    /\ runs[r].state = "completed" => runs'[r].state = "completed"
Forward ==
  OpsForward /\ RunsForward /\ \A i \in 1..Len(releases) : i \in 1..Len(releases')

\* the operations keep what the invariant tells of them
SameOps ==
  \A j \in Ops :
    /\ ops'[j].kind = ops[j].kind /\ ops'[j].status = ops[j].status
    /\ ops'[j].stage = ops[j].stage /\ ops'[j].approval = ops[j].approval
    /\ ops'[j].granted = ops[j].granted
    /\ ops'[j].reserved = ops[j].reserved /\ ops'[j].claimed = ops[j].claimed

LEMMA SameForward ==
  ASSUME SameOps
  PROVE  OpsForward
  BY DEF SameOps, OpsForward, Active, Known

LEMMA LatestStays ==
  ASSUME approvals' = approvals
  PROVE  \A c : Latest(c)' = Latest(c)
  BY DEF Latest

\* a step that only touches the handlers that wait, or tables the invariant is not about
LEMMA Settled ==
  ASSUME ProductionInv, UNCHANGED core
  PROVE  LaneInv' /\ RunInv' /\ ReleaseInv' /\ DecisionInv' /\ \A c \in calls : Founded(c)'
<1>1. LaneInv'
  BY DEF ProductionInv, core, LaneInv, SlotTaken, HolderActive, OneOperation, Active, Publication
<1>2. RunInv'
  BY DEF ProductionInv, core, RunInv, RunsKnown, RunningClaimed, Deploying, SiteGranted, Known,
         Started
<1>3. ReleaseInv'
  <2>1. ReleasedDone'
    BY DEF ProductionInv, core, ReleaseInv, ReleasedDone
  <2>2. LiveIsReleased'
    BY DEF ProductionInv, core, ReleaseInv, LiveIsReleased
  <2> QED BY <2>1, <2>2 DEF ReleaseInv
<1>4. DecisionInv'
  <2>1. \A c : Latest(c)' = Latest(c)
    BY LatestStays DEF core
  <2>2. LatestKnown' /\ AcceptedBefore'
    BY <2>1 DEF ProductionInv, core, DecisionInv, LatestKnown, AcceptedBefore, Known, Publication
  <2>3. Superseded'
    BY <2>1 DEF ProductionInv, core, DecisionInv, Superseded, Known, Publication
  <2>4. WithdrawnStaysOut'
    BY DEF ProductionInv, core, DecisionInv, WithdrawnStaysOut
  <2> QED BY <2>2, <2>3, <2>4 DEF DecisionInv
<1>5. ASSUME NEW c \in calls PROVE Founded(c)'
  <2>1. Founded(c)
    BY DEF ProductionInv, CallsFounded
  <2> QED BY <2>1 DEF core, Founded, OfOperation, OfRollback, AtRun, ShowsIt, Known, Publication,
                     Started, Done, Active
<1> QED BY <1>1, <1>2, <1>3, <1>4, <1>5

\* the handlers, when one goes
LEMMA CallEnds ==
  ASSUME ProductionInv, NEW c, Ends(c), \A d \in calls : d # c => Founded(d)'
  PROVE  CallsFounded' /\ OnePerRun'
  BY DEF ProductionInv, Ends, CallsFounded, OnePerRun, OfRunner

\* and when one comes
LEMMA CallBegins ==
  ASSUME ProductionInv, NEW c, Begin(c), \A d \in calls : Founded(d)', Founded(c)',
         OfRunner(c) => \A d \in calls : d.run # c.run
  PROVE  CallsFounded' /\ OnePerRun'
<1>1. calls' = calls \cup {c}
  BY DEF Begin
<1>2. CallsFounded'
  BY <1>1 DEF CallsFounded
<1>3. OnePerRun'
  BY <1>1 DEF OnePerRun, OfRunner, ProductionInv
<1> QED BY <1>2, <1>3

LEMMA CallsStay ==
  ASSUME ProductionInv, calls' = calls, \A d \in calls : Founded(d)'
  PROVE  CallsFounded' /\ OnePerRun'
  BY DEF ProductionInv, CallsFounded, OnePerRun, OfRunner

\* what a handler has found out stays true
LEMMA FoundedKept ==
  ASSUME ProductionInv, Forward, NEW c \in calls,
         OfRunner(c) => runs'[c.run].at = runs[c.run].at,
         c.kind = "finalize" => ops'[c.target].claimed = ops[c.target].claimed,
         c.target \in Ops /\ Active(c.target) => site' \in {site, c.target}
  PROVE  Founded(c)'
<1>1. Founded(c)
  BY DEF ProductionInv, CallsFounded
<1>2. OfOperation(c) => OfOperation(c)'
  BY DEF Forward, OpsForward, OfOperation, Known
<1>3. OfRollback(c) => OfRollback(c)'
  BY <1>2 DEF Forward, OpsForward, OfRollback, OfOperation, Publication
<1>4. c.run \in 0..MaxRuns
  BY CallFields DEF ProductionInv
<1>5. Done(c.run) => Done(c.run)'
  BY <1>4, NatTypes DEF Forward, RunsForward, Done, Started
<1>6. OfOperation(c) /\ ShowsIt(c) => ShowsIt(c)'
  BY DEF ShowsIt, Forward, OpsForward, OfOperation, Active
<1>7. CASE c.kind = "grant"
  BY <1>1, <1>2, <1>7 DEF Founded, OfRunner, AtRun, Started, Forward, RunsForward
<1>8. CASE c.kind = "finalize"
  BY <1>1, <1>2, <1>6, <1>8 DEF Founded, OfRunner, AtRun, Started, Forward, RunsForward
<1>9. CASE c.kind = "rollback"
  BY <1>1, <1>5, <1>9 DEF Founded, Forward
<1>10. CASE c.kind \notin {"grant", "finalize", "rollback"}
  BY <1>1, <1>2, <1>3, <1>5, <1>6, <1>10 DEF Founded
<1> QED BY <1>7, <1>8, <1>9, <1>10

\* a release is of an operation that is done, or of none
LEMMA ReleaseFields ==
  ASSUME ProductionInv, NEW i \in 1..Len(releases)
  PROVE  /\ releases[i].op \in 0..MaxOps /\ releases[i].content \in 0..MaxStages
         /\ releases[i].op # None => releases[i].op \in Ops /\ ops[releases[i].op].status = "succeeded"
<1> DEFINE row == [op : 0..MaxOps, content : 0..MaxStages]
<1>1. releases[i] \in row
  <2>1. releases \in Seq(row)
    BY DEF ProductionInv, TypeOK
  <2> HIDE DEF row
  <2> QED BY <2>1
<1>2. releases[i].op # None => ops[releases[i].op].status = "succeeded"
  BY DEF ProductionInv, ReleaseInv, ReleasedDone
<1> QED BY <1>1, <1>2, NatTypes

LEMMA LaneKept ==
  ASSUME ProductionInv, slot' = slot,
         \A j \in Ops : ops'[j].kind = ops[j].kind /\ ops'[j].status = ops[j].status
  PROVE  LaneInv'
<1>1. slot # None => slot \in Ops
  BY NatTypes DEF ProductionInv, TypeOK
<1>2. SlotTaken'
  BY <1>1 DEF ProductionInv, LaneInv, SlotTaken, Publication
<1>3. HolderActive'
  BY DEF ProductionInv, LaneInv, HolderActive, Publication, Active
<1>4. OneOperation'
  BY DEF ProductionInv, LaneInv, OneOperation, Active
<1> QED BY <1>2, <1>3, <1>4 DEF LaneInv

LEMMA ReleaseKept ==
  ASSUME ProductionInv, OpsForward, releases' = releases, granted' = granted, site' = site
  PROVE  ReleaseInv'
<1>1. ReleasedDone'
  BY ReleaseFields DEF ReleasedDone, OpsForward, Known
<1>2. LiveIsReleased'
  BY DEF ProductionInv, ReleaseInv, LiveIsReleased
<1> QED BY <1>1, <1>2 DEF ReleaseInv

LEMMA DecisionKept ==
  ASSUME ProductionInv, OpsForward, approvals' = approvals, withdrawn' = withdrawn,
         \A j \in withdrawn : ops'[j].granted = ops[j].granted /\ site' # j,
         \A j \in Ops : ~ Known(j) /\ ops'[j].status # "none" /\ ops'[j].kind = "publication" =>
           ops'[j].stage \in Stages /\ ops'[j].approval =< Len(approvals)
  PROVE  DecisionInv'
<1>1. \A c : Latest(c)' = Latest(c)
  BY LatestStays
<1>2. withdrawn \subseteq Ops
  BY DEF ProductionInv, TypeOK
<1>3. LatestKnown'
  BY <1>1 DEF ProductionInv, DecisionInv, LatestKnown
<1>4. AcceptedBefore'
  BY DEF ProductionInv, DecisionInv, AcceptedBefore, Known, Publication, OpsForward
<1>5. Superseded'
  BY <1>1, <1>2 DEF ProductionInv, DecisionInv, Superseded, Known, Publication, OpsForward
<1>6. WithdrawnStaysOut'
  BY DEF ProductionInv, DecisionInv, WithdrawnStaysOut
<1> QED BY <1>3, <1>4, <1>5, <1>6 DEF DecisionInv

\* the run that deploys keeps its binding, and no other is told to
LEMMA RunKept ==
  ASSUME ProductionInv, OpsForward, RunsForward, granted' = granted,
         \A r \in Runs : runs'[r].state # "unused" /\ ~ Started(r) =>
           runs'[r].op \in Ops /\ ops'[runs'[r].op].status # "none",
         \A j \in Ops : ops'[j].status = "running" => ops'[j].claimed \in Runs,
         \A r \in Runs : runs'[r].state = "active" /\ runs'[r].at = "granted" =>
           runs[r].state = "active" /\ runs[r].at = "granted",
         \A r \in Runs : runs[r].state = "active" /\ runs[r].at = "granted" =>
           LET j == runs[r].op IN
           /\ ops'[j].status = ops[j].status /\ ops'[j].granted = ops[j].granted
           /\ ops'[j].reserved = ops[j].reserved /\ ops'[j].claimed = ops[j].claimed
  PROVE  RunsKnown' /\ RunningClaimed' /\ Deploying'
<1>1. RunsKnown'
  BY DEF ProductionInv, RunInv, RunsKnown, Known, Started, OpsForward, RunsForward
<1>2. RunningClaimed'
  BY DEF RunningClaimed
<1>3. ASSUME NEW r \in Runs, runs'[r].state = "active", runs'[r].at = "granted"
      PROVE  /\ ops'[runs'[r].op].status = "running" /\ ops'[runs'[r].op].granted
             /\ granted' = runs'[r].op
             /\ ops'[runs'[r].op].reserved = r /\ ops'[runs'[r].op].claimed = r
  <2>1. runs[r].state = "active" /\ runs[r].at = "granted" /\ runs'[r].op = runs[r].op
    BY <1>3 DEF RunsForward, Started
  <2> QED BY <2>1 DEF ProductionInv, RunInv, Deploying
<1>4. Deploying'
  BY <1>3 DEF Deploying
<1> QED BY <1>1, <1>2, <1>4

LEMMA SiteKept ==
  ASSUME ProductionInv, OpsForward, site' = site
  PROVE  SiteGranted'
<1>1. site # None => site \in Ops
  BY NatTypes DEF ProductionInv, TypeOK
<1> QED BY <1>1 DEF ProductionInv, RunInv, SiteGranted, OpsForward, Known

-----------------------------------------------------------------------------
(* Steps that look at the tables and begin a handler, or end one.          *)

LEMMA QuietBegin ==
  ASSUME ProductionInv, NEW c \in Waiting, Begin(c), UNCHANGED <<Lane, github>>, Founded(c),
         OfRunner(c) => \A d \in calls : d.run # c.run
  PROVE  ProductionInv'
<1>1. UNCHANGED core
  BY DEF Lane, github, history, core
<1>2. LaneInv' /\ RunInv' /\ ReleaseInv' /\ DecisionInv' /\ \A d \in calls : Founded(d)'
  BY <1>1, Settled
<1>3. Founded(c)'
  BY <1>1 DEF core, Founded, OfOperation, OfRollback, AtRun, ShowsIt, Known, Publication, Started,
              Done, Active
<1>4. CallsFounded' /\ OnePerRun'
  BY <1>2, <1>3, CallBegins
<1>5. calls' \subseteq Waiting
  BY DEF Begin, ProductionInv, TypeOK
<1>6. TypeOK'
  BY <1>5 DEF TypeOK, ProductionInv, Lane, github, history, lane
<1> QED BY <1>2, <1>4, <1>6 DEF ProductionInv

LEMMA EndsType ==
  ASSUME TypeOK, NEW c, Ends(c)
  PROVE  calls' \subseteq Waiting
  BY DEF TypeOK, Ends

LEMMA QuietEnd ==
  ASSUME ProductionInv, NEW c, Ends(c), UNCHANGED core, TypeOK'
  PROVE  ProductionInv'
<1>1. LaneInv' /\ RunInv' /\ ReleaseInv' /\ DecisionInv' /\ \A d \in calls : Founded(d)'
  BY Settled
<1>2. CallsFounded' /\ OnePerRun'
  BY <1>1, CallEnds
<1> QED BY <1>1, <1>2 DEF ProductionInv

LEMMA QuietStay ==
  ASSUME ProductionInv, calls' = calls, UNCHANGED core, TypeOK'
  PROVE  ProductionInv'
<1>1. LaneInv' /\ RunInv' /\ ReleaseInv' /\ DecisionInv' /\ \A d \in calls : Founded(d)'
  BY Settled
<1>2. CallsFounded' /\ OnePerRun'
  BY <1>1, CallsStay
<1> QED BY <1>1, <1>2 DEF ProductionInv

LEMMA LoseInv ==
  ASSUME ProductionInv, NEW c \in calls, Lose(c)
  PROVE  ProductionInv'
<1>1. TypeOK'
  BY EndsType DEF Lose, ProductionInv, TypeOK, Lane, github, history, lane
<1> QED BY <1>1, QuietEnd DEF Lose, Lane, github, history, core

LEMMA StageInv ==
  ASSUME ProductionInv, NEW c \in Stages, StageCapture(c) \/ StageDeploy(c) \/ StageEnd(c)
  PROVE  ProductionInv'
<1> DEFINE Lanes == [jobs : [Stages -> {"none", "active", "succeeded", "cancelled"}],
                     slot : 0..MaxStages, site : 0..MaxStages]
<1>1. staging \in Lanes
  BY DEF ProductionInv, TypeOK
<1>2. /\ [staging EXCEPT !.jobs[c] = "active", !.slot = c] \in Lanes
      /\ [staging EXCEPT !.site = c] \in Lanes
      /\ [staging EXCEPT !.jobs[c] = "succeeded"] \in Lanes
      /\ [staging EXCEPT !.jobs[c] = "cancelled", !.slot = None] \in Lanes
  BY <1>1, NatTypes
<1>3. staging' \in Lanes
  BY <1>2 DEF StageCapture, StageDeploy, StageEnd
<1>4. calls' = calls /\ UNCHANGED core /\ UNCHANGED <<world, roles, archived, deployments, main>>
  BY DEF StageCapture, StageDeploy, StageEnd, github, history, core
<1>5. TypeOK'
  BY <1>3, <1>4 DEF ProductionInv, TypeOK, core
<1> QED BY <1>4, <1>5, QuietStay

LEMMA WriteRoleInv ==
  ASSUME ProductionInv, NEW c \in calls, WriteRole(c)
  PROVE  ProductionInv'
<1>1. c.decision \in RoleNames
  BY DEF WriteRole, ProductionInv, CallsFounded, Founded
<1>2. roles' \in [People -> RoleNames]
  BY <1>1, CallFields DEF WriteRole, ProductionInv, TypeOK
<1>3. TypeOK'
  BY <1>2, EndsType DEF WriteRole, ProductionInv, TypeOK, github, history, lane
<1> QED BY <1>3, QuietEnd DEF WriteRole, github, history, core

LEMMA ArchiveInv ==
  ASSUME ProductionInv, Archive
  PROVE  ProductionInv'
<1>1. TypeOK'
  BY DEF Archive, ProductionInv, TypeOK, github, history
<1> QED BY <1>1, QuietStay DEF Archive, github, history, core

LEMMA BeginDecideInv ==
  ASSUME ProductionInv, NEW p \in People, NEW s \in Stages, NEW d \in Decisions,
         BeginDecide(p, s, d)
  PROVE  ProductionInv'
<1>1. PICK c : c = [Call("decide", p, s) EXCEPT !.decision = d, !.seen = Latest(s)]
  OBVIOUS
<1>2. Latest(s) \in Nat
  BY DEF ProductionInv, DecisionInv, LatestKnown
<1>3. c \in Waiting
  BY <1>1, <1>2, CallType, NatTypes DEF ProductionInv, Kinds
<1>4. c.kind = "decide" /\ c.target = s /\ c.decision = d
  BY <1>1 DEF Call
<1>5. Founded(c) /\ ~ OfRunner(c)
  BY <1>4 DEF Founded, OfRunner
<1> QED BY <1>1, <1>3, <1>5, QuietBegin DEF BeginDecide

LEMMA BeginPromoteInv ==
  ASSUME ProductionInv, NEW p \in People, NEW s \in Stages, BeginPromote(p, s)
  PROVE  ProductionInv'
<1>1. PICK c : c = [Call("promote", p, s) EXCEPT !.seen = Latest(s)]
  OBVIOUS
<1>2. Latest(s) \in Nat /\ Latest(s) # None
  BY DEF ProductionInv, DecisionInv, LatestKnown, BeginPromote, Accepted
<1>3. c \in Waiting
  BY <1>1, <1>2, CallType, NatTypes DEF ProductionInv, Kinds
<1>4. c.kind = "promote" /\ c.target = s /\ c.seen = Latest(s)
  BY <1>1 DEF Call
<1>5. Founded(c) /\ ~ OfRunner(c)
  BY <1>2, <1>4 DEF Founded, OfRunner
<1> QED BY <1>1, <1>3, <1>5, QuietBegin DEF BeginPromote

LEMMA BeginRetryInv ==
  ASSUME ProductionInv, NEW p \in People, NEW j \in Ops, BeginRetry(p, j)
  PROVE  ProductionInv'
<1>1. PICK c : c = Call("retry", p, j)
  OBVIOUS
<1>3. c \in Waiting
  BY <1>1, CallType, NatTypes DEF ProductionInv, Kinds
<1>4. c.kind = "retry" /\ c.target = j
  BY <1>1 DEF Call
<1>5. Founded(c) /\ ~ OfRunner(c)
  BY <1>4 DEF Founded, OfRunner, OfOperation, Known, BeginRetry, Retryable
<1> QED BY <1>1, <1>3, <1>5, QuietBegin DEF BeginRetry

LEMMA BeginEndInv ==
  ASSUME ProductionInv, NEW p \in People, NEW j \in Ops, BeginEnd(p, j)
  PROVE  ProductionInv'
<1>1. PICK c : c = [Call("end", p, j) EXCEPT !.run = ops[j].reserved, !.seen = ops[j].count,
                                             !.decision = ops[j].status]
  OBVIOUS
<1>3. c \in Waiting
  BY <1>1, CallType, OpFields, NatTypes DEF ProductionInv, Kinds
<1>4. c.kind = "end" /\ c.target = j /\ c.run = ops[j].reserved /\ c.decision = ops[j].status
  BY <1>1 DEF Call
<1>5. Founded(c) /\ ~ OfRunner(c)
  BY <1>4 DEF Founded, OfRunner, OfRollback, OfOperation, Known, BeginEnd, Active, Terminal
<1> QED BY <1>1, <1>3, <1>5, QuietBegin DEF BeginEnd

LEMMA BeginRollbackInv ==
  ASSUME ProductionInv, NEW p \in People, NEW s \in 1..Len(releases), BeginRollback(p, s)
  PROVE  ProductionInv'
<1>1. PICK c : c = [Call("rollback", p, s) EXCEPT !.seen = Len(releases), !.replace = slot,
                      !.run = IF slot = None THEN None ELSE ops[slot].reserved]
  OBVIOUS
<1>2. slot \in 0..MaxOps /\ Len(releases) \in Nat /\ s \in Nat
  BY DEF ProductionInv, TypeOK
<1>r. (IF slot = None THEN None ELSE ops[slot].reserved) \in 0..MaxRuns
  BY <1>2, OpFields, NatTypes DEF ProductionInv
<1>3. c \in Waiting
  BY <1>1, <1>2, <1>r, CallType DEF ProductionInv, Kinds
<1>4. /\ c.kind = "rollback" /\ c.target = s /\ c.replace = slot
      /\ slot # None => c.run = ops[slot].reserved
  BY <1>1 DEF Call
<1>5. Founded(c) /\ ~ OfRunner(c)
  BY <1>4 DEF Founded, OfRunner, BeginRollback, Stopped
<1> QED BY <1>1, <1>3, <1>5, QuietBegin DEF BeginRollback

LEMMA BeginRoleInv ==
  ASSUME ProductionInv, NEW p \in People, NEW role \in RoleNames, BeginRole(p, role)
  PROVE  ProductionInv'
<1>1. PICK c : c = [Call("role", p, None) EXCEPT !.decision = role]
  OBVIOUS
<1>3. c \in Waiting
  BY <1>1, CallType, NatTypes DEF ProductionInv, Kinds
<1>4. c.kind = "role" /\ c.decision = role
  BY <1>1 DEF Call
<1>5. Founded(c) /\ ~ OfRunner(c)
  BY <1>4 DEF Founded, OfRunner
<1> QED BY <1>1, <1>3, <1>5, QuietBegin DEF BeginRole

LEMMA AskingRun ==
  ASSUME ProductionInv, NEW r \in Runs, NEW stage, Asks(r, stage)
  PROVE  /\ Started(r) /\ runs[r].state = "active" /\ runs[r].at = stage
         /\ runs[r].op \in Ops /\ Known(runs[r].op)
         /\ \A c \in calls : c.run # r
  BY DEF Asks, Started, ProductionInv, RunInv, RunsKnown

LEMMA BeginAuthorizeInv ==
  ASSUME ProductionInv, NEW r \in Runs, BeginAuthorize(r)
  PROVE  ProductionInv'
<1>1. PICK j \in Ops : j = runs[r].op
  BY AskingRun DEF BeginAuthorize
<1>2. PICK c : c = [Call("grant", ops[j].by, j) EXCEPT !.run = r]
  OBVIOUS
<1>3. c \in Waiting
  BY <1>2, CallType, OpFields, NatTypes DEF ProductionInv, Kinds
<1>4. c.kind = "grant" /\ c.target = j /\ c.run = r
  BY <1>2 DEF Call
<1>5. Founded(c) /\ \A d \in calls : d.run # c.run
  BY <1>1, <1>4, AskingRun DEF Founded, OfOperation, AtRun, BeginAuthorize
<1> QED BY <1>1, <1>2, <1>3, <1>5, QuietBegin DEF BeginAuthorize

LEMMA BeginCompleteInv ==
  ASSUME ProductionInv, NEW j \in Ops, NEW kind \in {"finalize", "verify", "complete"},
         BeginComplete(kind, j)
  PROVE  ProductionInv'
<1> DEFINE r == ops[j].claimed
<1>1. r \in Runs
  BY DEF ProductionInv, RunInv, RunningClaimed, BeginComplete
<1>2. PICK c : c = [Call(kind, ops[j].by, j) EXCEPT !.run = IF kind = "finalize" THEN r ELSE None]
  OBVIOUS
<1>3. c \in Waiting
  BY <1>1, <1>2, CallType, OpFields, NatTypes DEF ProductionInv, Kinds
<1>4. c.kind = kind /\ c.target = j /\ c.run = IF kind = "finalize" THEN r ELSE None
  BY <1>2 DEF Call
<1>5. OfOperation(c) /\ ShowsIt(c)
  BY <1>4 DEF BeginComplete, Proof, OfOperation, ShowsIt, Known
<1>6. kind = "finalize" => AtRun(c, "reported") /\ \A d \in calls : d.run # c.run
  BY <1>1, <1>4, AskingRun DEF BeginComplete, AtRun
<1>7. Founded(c) /\ (OfRunner(c) => \A d \in calls : d.run # c.run)
  BY <1>4, <1>5, <1>6 DEF Founded, OfRunner
<1> QED BY <1>2, <1>3, <1>7, QuietBegin DEF BeginComplete

-----------------------------------------------------------------------------
(* Steps that write to an operation and nothing the invariant tells of it. *)

LEMMA SameOpsRest ==
  ASSUME ProductionInv, SameOps, RunsForward, UNCHANGED <<releases, site, granted>>,
         \A r \in Runs : runs'[r].state # "unused" /\ ~ Started(r) =>
           runs'[r].op \in Ops /\ Known(runs'[r].op),
         \A r \in Runs : runs'[r].state = "active" /\ runs'[r].at = "granted" =>
           runs[r].state = "active" /\ runs[r].at = "granted",
         \A c \in calls : OfRunner(c) => runs'[c.run].at = runs[c.run].at
  PROVE  RunInv' /\ ReleaseInv' /\ \A c \in calls : Founded(c)'
<1>1. OpsForward
  BY SameForward
<1>2. ReleaseInv'
  BY <1>1, ReleaseKept
<1>3. RunInv'
  <2>1. \A r \in Runs : runs'[r].state # "unused" /\ ~ Started(r) =>
           runs'[r].op \in Ops /\ ops'[runs'[r].op].status # "none"
    BY DEF SameOps, Known
  <2>2. \A j \in Ops : ops'[j].status = "running" => ops'[j].claimed \in Runs
    BY DEF SameOps, ProductionInv, RunInv, RunningClaimed
  <2>3. \A r \in Runs : runs[r].state = "active" /\ runs[r].at = "granted" =>
           LET j == runs[r].op IN
           /\ ops'[j].status = ops[j].status /\ ops'[j].granted = ops[j].granted
           /\ ops'[j].reserved = ops[j].reserved /\ ops'[j].claimed = ops[j].claimed
    BY DEF SameOps, ProductionInv, RunInv, RunsKnown, Started
  <2>4. RunsKnown' /\ RunningClaimed' /\ Deploying'
    BY <1>1, <2>1, <2>2, <2>3, RunKept
  <2>5. SiteGranted'
    BY <1>1, SiteKept
  <2> QED BY <2>4, <2>5 DEF RunInv
<1>4. ASSUME NEW c \in calls PROVE Founded(c)'
  <2>1. Forward
    BY <1>1 DEF Forward
  <2>2. c.kind = "finalize" => ops'[c.target].claimed = ops[c.target].claimed
    <3>1. c.kind = "finalize" => c.target \in Ops
      BY DEF ProductionInv, CallsFounded, Founded, OfOperation
    <3> QED BY <3>1 DEF SameOps
  <2> QED BY <2>1, <2>2, FoundedKept
<1> QED BY <1>2, <1>3, <1>4

LEMMA SameOpsInv ==
  ASSUME ProductionInv, SameOps, RunsForward,
         UNCHANGED <<approvals, slot, releases, site, granted, withdrawn>>,
         \A r \in Runs : runs'[r].state # "unused" /\ ~ Started(r) =>
           runs'[r].op \in Ops /\ Known(runs'[r].op),
         \A r \in Runs : runs'[r].state = "active" /\ runs'[r].at = "granted" =>
           runs[r].state = "active" /\ runs[r].at = "granted",
         \A c \in calls : OfRunner(c) => runs'[c.run].at = runs[c.run].at
  PROVE  LaneInv' /\ RunInv' /\ ReleaseInv' /\ DecisionInv' /\ \A c \in calls : Founded(c)'
<1>1. OpsForward
  BY SameForward
<1>2. LaneInv'
  BY LaneKept DEF SameOps
<1>3. RunInv' /\ ReleaseInv' /\ \A c \in calls : Founded(c)'
  BY SameOpsRest
<1>4. \A j \in withdrawn : ops'[j].granted = ops[j].granted /\ site' # j
  BY DEF SameOps, ProductionInv, TypeOK, DecisionInv, WithdrawnStaysOut
<1>5. \A j \in Ops : ~ Known(j) => ops'[j].status = "none"
  BY DEF SameOps, Known
<1>6. DecisionInv'
  BY <1>1, <1>4, <1>5, DecisionKept
<1> QED BY <1>2, <1>3, <1>6

\* a run that asks and is told to go on, though not to deploy
LEMMA HearsStep ==
  ASSUME ProductionInv, NEW r \in Runs, NEW stage, Asks(r, stage), NEW next \in Points \ {"granted"},
         Hears(r, next)
  PROVE  /\ runs' \in [Runs -> RunRow] /\ RunsForward
         /\ \A q \in Runs : runs'[q].state = runs[q].state /\ runs'[q].op = runs[q].op
         /\ \A q \in Runs : q # r => runs'[q].at = runs[q].at
         /\ \A q \in Runs : runs'[q].at = "granted" => runs[q].at = "granted"
         /\ \A c \in calls : OfRunner(c) => runs'[c.run].at = runs[c.run].at
<1>1. runs \in [Runs -> RunRow] /\ runs' = [runs EXCEPT ![r].at = next]
  BY DEF Hears, ProductionInv, TypeOK
<1>2. runs' \in [Runs -> RunRow]
  BY <1>1 DEF RunRow
<1>3. \A q \in Runs : runs'[q].state = runs[q].state /\ runs'[q].op = runs[q].op
  BY <1>1 DEF RunRow
<1>4. \A q \in Runs : q # r => runs'[q].at = runs[q].at
  BY <1>1
<1>5. \A q \in Runs : runs'[q].at = "granted" => runs[q].at = "granted"
  BY <1>1, <1>4 DEF RunRow
<1>6. RunsForward
  BY <1>3 DEF RunsForward, Started
<1>7. ASSUME NEW c \in calls, OfRunner(c) PROVE runs'[c.run].at = runs[c.run].at
  <2>1. c.run \in Runs
    BY <1>7 DEF ProductionInv, CallsFounded, Founded, AtRun, OfRunner
  <2> QED BY <2>1, <1>4, AskingRun
<1> QED BY <1>2, <1>3, <1>4, <1>5, <1>6, <1>7

\* a run that GitHub starts
LEMMA StartsStep ==
  ASSUME ProductionInv, NEW r \in Runs, NEW j \in Ops, Known(j), Starts(j, r)
  PROVE  /\ runs' \in [Runs -> RunRow] /\ RunsForward
         /\ \A q \in Runs : runs'[q].state # "unused" /\ ~ Started(q) =>
              runs'[q].op \in Ops /\ Known(runs'[q].op)
         /\ \A q \in Runs : runs'[q].state = "active" /\ runs'[q].at = "granted" =>
              runs[q].state = "active" /\ runs[q].at = "granted"
         /\ \A c \in calls : OfRunner(c) => runs'[c.run].at = runs[c.run].at
<1> DEFINE row == [state |-> "active", op |-> j, head |-> Main, at |-> "start"]
<1>1. runs \in [Runs -> RunRow] /\ runs' = [runs EXCEPT ![r] = row] /\ ~ Started(r)
  BY DEF Starts, ProductionInv, TypeOK, Started
<1>2. row \in RunRow
  BY MainType, NatTypes DEF RunRow, Points, ProductionInv
<1>3. row.op = j /\ row.at = "start"
  OBVIOUS
<1> HIDE DEF row
<1>4. runs' \in [Runs -> RunRow]
  BY <1>1, <1>2
<1>5. runs'[r].op = j /\ runs'[r].at = "start" /\ \A q \in Runs \ {r} : runs'[q] = runs[q]
  BY <1>1, <1>3
<1>6. RunsForward
  BY <1>1, <1>5 DEF RunsForward, Started
<1>7. ASSUME NEW c \in calls, OfRunner(c) PROVE runs'[c.run].at = runs[c.run].at
  <2>1. c.run \in Runs /\ Started(c.run)
    BY <1>7 DEF ProductionInv, CallsFounded, Founded, AtRun, OfRunner
  <2> QED BY <2>1, <1>1, <1>5
<1> QED BY <1>1, <1>4, <1>5, <1>6, <1>7 DEF Started

LEMMA SameRuns ==
  ASSUME runs' = runs
  PROVE  RunsForward
  BY DEF RunsForward, Started

LEMMA ReserveDispatchInv ==
  ASSUME ProductionInv, NEW j \in Ops, ReserveDispatch(j)
  PROVE  ProductionInv'
<1>1. PICK c : c = [Call("dispatch", ops[j].by, j) EXCEPT !.base = ops[j].base]
  OBVIOUS
<1>2. c \in Waiting
  BY <1>1, CallType, OpFields, NatTypes DEF ProductionInv, Kinds
<1>3. c.kind = "dispatch" /\ c.target = j
  BY <1>1 DEF Call
<1>n. ops[j].count + 1 \in Nat
  BY OpFields DEF ProductionInv
<1>4. PICK n \in Nat : ops' = [ops EXCEPT ![j].count = n]
  BY <1>n DEF ReserveDispatch
<1>5. ops' \in [Ops -> OpRow]
  BY <1>4, RowsKept DEF ProductionInv
<1>6. SameOps
  BY <1>4, OpFields DEF SameOps, ProductionInv, OpRow, TypeOK
<1>7. UNCHANGED <<world, roles, lane, approvals, slot, releases, github, history>> /\ Begin(c)
  BY <1>1 DEF ReserveDispatch
<1>8. LaneInv' /\ RunInv' /\ ReleaseInv' /\ DecisionInv' /\ \A d \in calls : Founded(d)'
  BY <1>6, <1>7, SameOpsInv, SameRuns DEF github, history, Started
<1>9. Founded(c)' /\ ~ OfRunner(c)
  BY <1>3, <1>6 DEF ReserveDispatch, Founded, OfRunner, OfRollback, OfOperation, Known, Publication,
                    SameOps
<1>10. CallsFounded' /\ OnePerRun'
  BY <1>7, <1>8, <1>9, CallBegins
<1>11. TypeOK'
  BY <1>2, <1>5, <1>7 DEF Begin, ProductionInv, TypeOK, lane, github, history
<1> QED BY <1>8, <1>10, <1>11 DEF ProductionInv

LEMMA CaptureVerificationInv ==
  ASSUME ProductionInv, NEW j \in Ops, CaptureVerification(j)
  PROVE  ProductionInv'
<1>1. ops' = [ops EXCEPT ![j].verifying = TRUE]
  BY DEF CaptureVerification
<1>2. ops' \in [Ops -> OpRow]
  BY <1>1, RowsKept DEF ProductionInv
<1>3. SameOps
  BY <1>1, OpFields DEF SameOps, ProductionInv, OpRow, TypeOK
<1>4. UNCHANGED <<world, roles, lane, approvals, slot, releases, calls, github, history>>
  BY DEF CaptureVerification
<1>5. LaneInv' /\ RunInv' /\ ReleaseInv' /\ DecisionInv' /\ \A d \in calls : Founded(d)'
  BY <1>3, <1>4, SameOpsInv, SameRuns DEF github, history, Started
<1>6. CallsFounded' /\ OnePerRun'
  BY <1>4, <1>5, CallsStay
<1>7. TypeOK'
  BY <1>2, <1>4 DEF ProductionInv, TypeOK, lane, github, history
<1> QED BY <1>5, <1>6, <1>7 DEF ProductionInv

LEMMA CommitBuildInv ==
  ASSUME ProductionInv, NEW r \in Runs, CommitBuild(r)
  PROVE  ProductionInv'
<1>1. PICK j \in Ops : j = runs[r].op
  BY AskingRun DEF CommitBuild
<1>2. ops' = [ops EXCEPT ![j].recorded = TRUE] /\ main' = Append(main, j)
      /\ Asks(r, "claimed") /\ Hears(r, "committed")
  BY <1>1 DEF CommitBuild
<1>3. ops' \in [Ops -> OpRow]
  BY <1>2, RowsKept DEF ProductionInv
<1>4. SameOps
  BY <1>2, OpFields DEF SameOps, ProductionInv, OpRow, TypeOK
<1>5. /\ runs' \in [Runs -> RunRow] /\ RunsForward
      /\ \A q \in Runs : runs'[q].state = runs[q].state
      /\ \A q \in Runs : runs'[q].at = "granted" => runs[q].at = "granted"
      /\ \A c \in calls : OfRunner(c) => runs'[c.run].at = runs[c.run].at
  BY <1>2, HearsStep DEF Points
<1>6. UNCHANGED <<world, roles, lane, approvals, slot, releases, calls, deployments, site, history>>
  BY DEF CommitBuild
<1>7. LaneInv' /\ RunInv' /\ ReleaseInv' /\ DecisionInv' /\ \A d \in calls : Founded(d)'
  BY <1>4, <1>5, <1>6, SameOpsInv DEF history, Started
<1>8. CallsFounded' /\ OnePerRun'
  BY <1>6, <1>7, CallsStay
<1>9. TypeOK'
  BY <1>2, <1>3, <1>5, <1>6 DEF ProductionInv, TypeOK, lane, history
<1> QED BY <1>7, <1>8, <1>9 DEF ProductionInv

LEMMA ReportDeploymentInv ==
  ASSUME ProductionInv, NEW r \in Runs, ReportDeployment(r)
  PROVE  ProductionInv'
<1>1. PICK j \in Ops : j = runs[r].op
  BY AskingRun DEF ReportDeployment
<1>2. ops' = [ops EXCEPT ![j].reported = TRUE] /\ Asks(r, "deployed") /\ Hears(r, "reported")
  BY <1>1 DEF ReportDeployment
<1>3. ops' \in [Ops -> OpRow]
  BY <1>2, RowsKept DEF ProductionInv
<1>4. SameOps
  BY <1>2, OpFields DEF SameOps, ProductionInv, OpRow, TypeOK
<1>5. /\ runs' \in [Runs -> RunRow] /\ RunsForward
      /\ \A q \in Runs : runs'[q].state = runs[q].state
      /\ \A q \in Runs : runs'[q].at = "granted" => runs[q].at = "granted"
      /\ \A c \in calls : OfRunner(c) => runs'[c.run].at = runs[c.run].at
  BY <1>2, HearsStep DEF Points
<1>6. UNCHANGED <<world, roles, lane, approvals, slot, releases, calls, deployments, main, site, history>>
  BY DEF ReportDeployment
<1>7. LaneInv' /\ RunInv' /\ ReleaseInv' /\ DecisionInv' /\ \A d \in calls : Founded(d)'
  BY <1>4, <1>5, <1>6, SameOpsInv DEF history, Started
<1>8. CallsFounded' /\ OnePerRun'
  BY <1>6, <1>7, CallsStay
<1>9. TypeOK'
  BY <1>3, <1>5, <1>6 DEF ProductionInv, TypeOK, lane, history
<1> QED BY <1>7, <1>8, <1>9 DEF ProductionInv

LEMMA EndRunInv ==
  ASSUME ProductionInv, NEW r \in Runs, EndRun(r)
  PROVE  ProductionInv'
<1>1. runs \in [Runs -> RunRow] /\ runs' = [runs EXCEPT ![r].state = "completed"]
      /\ runs[r].state = "active"
  BY DEF EndRun, ProductionInv, TypeOK
<1>2. runs' \in [Runs -> RunRow]
  BY <1>1 DEF RunRow
<1>3. \A q \in Runs : runs'[q].op = runs[q].op /\ runs'[q].at = runs[q].at
                      /\ runs'[q].state = IF q = r THEN "completed" ELSE runs[q].state
  BY <1>1 DEF RunRow
<1>4. UNCHANGED <<Lane, calls, deployments, main, site>>
  BY DEF EndRun
<1>5. SameOps
  BY <1>4 DEF SameOps, Lane
<1>6. \A c \in calls : OfRunner(c) => c.run \in Runs
  BY DEF ProductionInv, CallsFounded, Founded, AtRun, OfRunner
<1>7. LaneInv' /\ RunInv' /\ ReleaseInv' /\ DecisionInv' /\ \A d \in calls : Founded(d)'
  <2>1. RunsForward
    BY <1>1, <1>3 DEF RunsForward, Started
  <2> QED BY <1>1, <1>3, <1>4, <1>5, <1>6, <2>1, SameOpsInv DEF Lane, history, Started
<1>8. CallsFounded' /\ OnePerRun'
  BY <1>4, <1>7, CallsStay
<1>9. TypeOK'
  BY <1>2, <1>4 DEF ProductionInv, TypeOK, Lane, lane, history
<1> QED BY <1>7, <1>8, <1>9 DEF ProductionInv

LEMMA StartPublicationInv ==
  ASSUME ProductionInv, NEW j \in Ops, NEW r \in Runs, StartPublication(j, r)
  PROVE  ProductionInv'
<1>1. UNCHANGED <<Lane, calls, deployments, main, site>> /\ Starts(j, r) /\ Known(j)
  BY DEF StartPublication, Starts, Known
<1>2. SameOps
  BY <1>1 DEF SameOps, Lane
<1>3. LaneInv' /\ RunInv' /\ ReleaseInv' /\ DecisionInv' /\ \A d \in calls : Founded(d)'
  BY <1>1, <1>2, StartsStep, SameOpsInv DEF Lane, history
<1>4. CallsFounded' /\ OnePerRun'
  BY <1>1, <1>3, CallsStay
<1>5. runs' \in [Runs -> RunRow]
  BY <1>1, StartsStep
<1>6. TypeOK'
  BY <1>1, <1>5 DEF ProductionInv, TypeOK, Lane, lane, history
<1> QED BY <1>3, <1>4, <1>6 DEF ProductionInv

LEMMA DispatchInv ==
  ASSUME ProductionInv, NEW c \in calls, Dispatch(c)
  PROVE  ProductionInv'
<1>1. PICK j \in Ops : j = c.target /\ Known(j)
  BY DEF Dispatch, ProductionInv, CallsFounded, Founded, OfRollback, OfOperation
<1>2. CASE UNCHANGED github
  <2>1. TypeOK'
    BY <1>2, EndsType DEF Dispatch, ProductionInv, TypeOK, Lane, github, history, lane
  <2> QED BY <1>2, <2>1, QuietEnd DEF Dispatch, Lane, github, history, core
<1>3. ASSUME NEW r \in Runs, Starts(j, r) PROVE ProductionInv'
  <2>1. UNCHANGED <<Lane, deployments, main, site>> /\ Ends(c)
    BY <1>3 DEF Dispatch, Starts
  <2>2. SameOps
    BY <2>1 DEF SameOps, Lane
  <2>3. LaneInv' /\ RunInv' /\ ReleaseInv' /\ DecisionInv' /\ \A d \in calls : Founded(d)'
    BY <1>1, <1>3, <2>1, <2>2, StartsStep, SameOpsInv DEF Lane, history
  <2>4. CallsFounded' /\ OnePerRun'
    BY <2>1, <2>3, CallEnds
  <2>5. runs' \in [Runs -> RunRow]
    BY <1>1, <1>3, StartsStep
  <2>6. TypeOK'
    BY <2>1, <2>5, EndsType DEF ProductionInv, TypeOK, Lane, lane, history
  <2> QED BY <2>3, <2>4, <2>6 DEF ProductionInv
<1> QED BY <1>1, <1>2, <1>3 DEF Dispatch

-----------------------------------------------------------------------------
(* Decisions.                                                              *)

LastOf(of) == IF of = {} THEN None ELSE CHOOSE i \in of : \A k \in of : k =< i

\* one decision later, the latest on its candidate is that one
LEMMA LatestAfter ==
  ASSUME ProductionInv, NEW row \in [stage : Stages, decision : Decisions, base : 0..MaxOps],
         approvals' = Append(approvals, row)
  PROVE  /\ Len(approvals') = Len(approvals) + 1 /\ Len(approvals) \in Nat
         /\ Latest(row.stage)' = Len(approvals) + 1
         /\ \A c \in Stages : c # row.stage => Latest(c)' = Latest(c)
<1> DEFINE R == [stage : Stages, decision : Decisions, base : 0..MaxOps]
<1>1. approvals \in Seq(R) /\ row \in R
  BY DEF ProductionInv, TypeOK
<1> HIDE DEF R
<1>2. /\ Len(approvals') = Len(approvals) + 1 /\ Len(approvals) \in Nat
      /\ approvals'[Len(approvals) + 1] = row
      /\ \A i \in 1..Len(approvals) : approvals'[i] = approvals[i]
  BY <1>1
<1>3. ASSUME NEW c \in Stages, c # row.stage PROVE Latest(c)' = Latest(c)
  <2>1. {i \in 1..Len(approvals') : approvals'[i].stage = c}
          = {i \in 1..Len(approvals) : approvals[i].stage = c}
    BY <1>2, <1>3
  <2>2. Latest(c) = LastOf({i \in 1..Len(approvals) : approvals[i].stage = c})
    BY DEF Latest, LastOf
  <2>3. Latest(c)' = LastOf({i \in 1..Len(approvals') : approvals'[i].stage = c})
    BY DEF Latest, LastOf
  <2> QED BY <2>1, <2>2, <2>3
<1>4. Latest(row.stage)' = Len(approvals) + 1
  <2> DEFINE n == Len(approvals) + 1
             of == {i \in 1..Len(approvals') : approvals'[i].stage = row.stage}
  <2>1. n \in of /\ \A k \in of : k =< n /\ k \in Nat
    BY <1>2
  <2>2. Latest(row.stage)' = IF of = {} THEN None ELSE CHOOSE i \in of : \A k \in of : k =< i
    BY DEF Latest
  <2>3. n \in Nat
    BY <1>2
  <2> HIDE DEF n, of
  <2>4. \A i \in of : (\A k \in of : k =< i) => i = n
    BY <2>1, <2>3
  <2>5. (CHOOSE i \in of : \A k \in of : k =< i) = n
    BY <2>1, <2>4
  <2>6. Latest(row.stage)' = n
    BY <2>1, <2>2, <2>5
  <2> QED BY <2>6 DEF n
<1> QED BY <1>2, <1>3, <1>4

LEMMA DecideInv ==
  ASSUME ProductionInv, NEW c \in calls, Decide(c)
  PROVE  ProductionInv'
<1>1. /\ UNCHANGED <<world, roles, archived, ops, slot, releases, github, granted>> /\ Ends(c)
      /\ c.target \in Stages /\ c.decision \in Decisions
  BY DEF Decide, ProductionInv, CallsFounded, Founded
<1>2. CASE UNCHANGED <<approvals, staging, withdrawn>>
  <2>1. TypeOK'
    BY <1>1, <1>2, EndsType DEF ProductionInv, TypeOK, github
  <2> QED BY <1>1, <1>2, <2>1, QuietEnd DEF github, core
<1>3. ASSUME MayDecide(c),
             approvals' = Append(approvals,
               [stage |-> c.target, decision |-> c.decision, base |-> c.base]),
             staging' = [staging EXCEPT !.slot = IF @ = c.target THEN None ELSE @],
             withdrawn' = withdrawn \cup
               {j \in Ops : Publication(j) /\ ops[j].stage = c.target /\ ~ ops[j].granted
                              /\ ops[j].status # "none"}
      PROVE  ProductionInv'
  <2>1. PICK row \in [stage : Stages, decision : Decisions, base : 0..MaxOps] :
               row = [stage |-> c.target, decision |-> c.decision, base |-> c.base]
    BY <1>1, CallFields DEF ProductionInv
  <2>2. row.stage = c.target /\ approvals' = Append(approvals, row)
    BY <1>3, <2>1
  <2>3. SameOps /\ OpsForward /\ RunsForward
    BY <1>1, SameForward, SameRuns DEF SameOps, github
  <2>4. LaneInv'
    BY <1>1, LaneKept
  <2>5. RunInv' /\ ReleaseInv' /\ \A d \in calls : Founded(d)'
    BY <1>1, <2>3, SameOpsRest DEF github, Started
  <2>6. DecisionInv'
    <3>1. /\ Len(approvals') = Len(approvals) + 1 /\ Len(approvals) \in Nat
          /\ Latest(c.target)' = Len(approvals) + 1
          /\ \A s \in Stages : s # c.target => Latest(s)' = Latest(s)
      BY <2>2, LatestAfter
    <3>2. \A s \in Stages : Latest(s) \in 0..Len(approvals)
      BY DEF ProductionInv, DecisionInv, LatestKnown
    <3>3. \A j \in Ops : Known(j) /\ Publication(j) =>
            ops[j].stage \in Stages /\ ops[j].approval =< Len(approvals) /\ ops[j].approval \in Nat
      BY OpFields DEF ProductionInv, DecisionInv, AcceptedBefore
    <3>4. LatestKnown'
      BY <3>1, <3>2 DEF LatestKnown
    <3>5. AcceptedBefore'
      BY <1>1, <3>1, <3>3 DEF AcceptedBefore, Known, Publication
    <3>6. ASSUME NEW j \in withdrawn'
          PROVE  /\ j \in Ops /\ Known(j) /\ Publication(j) /\ ~ ops[j].granted /\ site # j
                 /\ ops[j].approval < Latest(ops[j].stage) \/ ops[j].stage = c.target
      <4>1. CASE j \in withdrawn
        BY <4>1 DEF ProductionInv, TypeOK, DecisionInv, Superseded, WithdrawnStaysOut
      <4>2. CASE j \notin withdrawn
        BY <1>3, <4>2, NatTypes DEF Known, ProductionInv, RunInv, SiteGranted
      <4> QED BY <4>1, <4>2
    <3>7. ASSUME NEW j \in withdrawn' PROVE ops[j].approval < Latest(ops[j].stage)'
      <4>1. /\ ops[j].stage \in Stages /\ ops[j].approval =< Len(approvals)
            /\ ops[j].approval \in Nat
        BY <3>3, <3>6
      <4>2. PICK s \in Stages : s = ops[j].stage
        BY <4>1
      <4>3. CASE s = c.target
        BY <1>1, <3>1, <4>1, <4>2, <4>3
      <4>4. CASE s # c.target
        BY <1>1, <3>1, <3>6, <4>2, <4>4
      <4> QED BY <4>3, <4>4
    <3>8. Superseded'
      BY <1>1, <3>6, <3>7 DEF Superseded, Known, Publication
    <3>9. WithdrawnStaysOut'
      BY <1>1, <3>6 DEF WithdrawnStaysOut, github
    <3> QED BY <3>4, <3>5, <3>8, <3>9 DEF DecisionInv
  <2>7. CallsFounded' /\ OnePerRun'
    BY <1>1, <2>5, CallEnds
  <2>8. TypeOK'
    <3>1. approvals' \in Seq([stage : Stages, decision : Decisions, base : 0..MaxOps])
      <4> DEFINE R == [stage : Stages, decision : Decisions, base : 0..MaxOps]
      <4>1. approvals \in Seq(R) /\ row \in R
        BY DEF ProductionInv, TypeOK
      <4> HIDE DEF R
      <4>2. approvals' \in Seq(R)
        BY <2>2, <4>1
      <4> QED BY <4>2 DEF R
    <3>2. staging' \in [jobs : [Stages -> {"none", "active", "succeeded", "cancelled"}],
                        slot : 0..MaxStages, site : 0..MaxStages]
      BY <1>3, NatTypes DEF ProductionInv, TypeOK
    <3>3. withdrawn' \subseteq Ops
      BY <1>3 DEF ProductionInv, TypeOK
    <3> QED BY <1>1, <3>1, <3>2, <3>3, EndsType DEF ProductionInv, TypeOK, github
  <2> QED BY <2>4, <2>5, <2>6, <2>7, <2>8 DEF ProductionInv
<1> QED BY <1>2, <1>3 DEF Decide

-----------------------------------------------------------------------------
(* Captures: a row that was none becomes a publication.                    *)

LEMMA InsertInv ==
  ASSUME ProductionInv, NEW c, Ends(c), NEW j \in Ops, NEW row \in OpRow, Insert(j, row),
         row.kind = "publication", row.status = "queued", row.stage \in Stages,
         row.approval =< Len(approvals), ProductionFree,
         UNCHANGED <<world, roles, lane, approvals, releases, github, history>>
  PROVE  ProductionInv'
<1>1. ~ Known(j) /\ ops' = [ops EXCEPT ![j] = row] /\ slot' = j /\ ops \in [Ops -> OpRow]
  BY DEF Insert, Fresh, Known, ProductionInv, TypeOK
<1>2. ops'[j] = row /\ \A i \in Ops \ {j} : ops'[i] = ops[i]
  BY <1>1
<1>3. OpsForward /\ RunsForward /\ Forward
  BY <1>1, <1>2, SameRuns DEF OpsForward, Forward, github, Known, Active
<1>4. \A i \in Ops : ~ Active(i)
  BY OpFields DEF ProductionFree, Idle, ProductionInv
<1>5. LaneInv'
  <2>1. SlotTaken'
    BY <1>1, <1>2 DEF SlotTaken, Publication
  <2>2. HolderActive'
    BY <1>1, <1>2, <1>4 DEF HolderActive, Publication, Active
  <2>3. OneOperation'
    BY <1>2, <1>4 DEF OneOperation, Active
  <2> QED BY <2>1, <2>2, <2>3 DEF LaneInv
<1>6. RunInv'
  <2>1. \A i \in Ops : ops'[i].status = "running" => ops'[i].claimed \in Runs
    BY <1>2 DEF ProductionInv, RunInv, RunningClaimed
  <2>2. \A r \in Runs : Started(r) => ops'[runs[r].op] = ops[runs[r].op]
    BY <1>1, <1>2 DEF ProductionInv, RunInv, RunsKnown
  <2>3. RunsKnown' /\ RunningClaimed' /\ Deploying'
    BY <1>3, <2>1, <2>2, RunKept DEF github, history, Started
  <2>4. SiteGranted'
    BY <1>3, SiteKept DEF github
  <2> QED BY <2>3, <2>4 DEF RunInv
<1>7. ReleaseInv'
  BY <1>3, ReleaseKept DEF github, history
<1>8. DecisionInv'
  <2>1. \A i \in withdrawn : ops'[i].granted = ops[i].granted /\ site' # i
    BY <1>1, <1>2 DEF ProductionInv, TypeOK, DecisionInv, Superseded, WithdrawnStaysOut, github
  <2>2. \A i \in Ops : ~ Known(i) /\ ops'[i].status # "none" =>
           ops'[i].stage \in Stages /\ ops'[i].approval =< Len(approvals)
    BY <1>2 DEF Known
  <2> QED BY <1>3, <2>1, <2>2, DecisionKept DEF history
<1>9. ASSUME NEW d \in calls PROVE Founded(d)'
  <2>1. d.kind = "finalize" => d.target \in Ops \ {j}
    BY <1>1 DEF ProductionInv, CallsFounded, Founded, OfOperation
  <2> QED BY <1>2, <1>3, <2>1, FoundedKept DEF github
<1>10. CallsFounded' /\ OnePerRun'
  BY <1>9, CallEnds
<1>11. TypeOK'
  <2>1. ops' \in [Ops -> OpRow] /\ slot' \in 0..MaxOps
    BY <1>1, NatTypes
  <2> QED BY <2>1, EndsType DEF ProductionInv, TypeOK, github, history, lane
<1> QED BY <1>5, <1>6, <1>7, <1>8, <1>10, <1>11 DEF ProductionInv

LEMMA CaptureRefused ==
  ASSUME ProductionInv, NEW c, Ends(c), UNCHANGED <<ops, slot>>,
         UNCHANGED <<world, roles, lane, approvals, releases, github, history>>
  PROVE  ProductionInv'
<1>1. TypeOK'
  BY EndsType DEF ProductionInv, TypeOK, github, history, lane
<1> QED BY <1>1, QuietEnd DEF github, history, core

LEMMA PromoteInv ==
  ASSUME ProductionInv, NEW c \in calls, Promote(c)
  PROVE  ProductionInv'
<1>1. /\ UNCHANGED <<world, roles, lane, approvals, releases, github, history>> /\ Ends(c)
      /\ c.target \in Stages /\ c.seen # None
  BY DEF Promote, ProductionInv, CallsFounded, Founded
<1>2. CASE UNCHANGED <<ops, slot>>
  BY <1>1, <1>2, CaptureRefused
<1>3. ASSUME Latest(c.target) = c.seen, ProductionFree, NEW j \in Ops,
             Insert(j, [NoOp EXCEPT !.status = "queued", !.by = c.by, !.stage = c.target,
                          !.approval = c.seen, !.base = approvals[c.seen].base])
      PROVE  ProductionInv'
  <2>1. c.seen \in 1..Len(approvals)
    <3>1. Latest(c.target) \in 0..Len(approvals) /\ Len(approvals) \in Nat
      BY <1>1 DEF ProductionInv, DecisionInv, LatestKnown, TypeOK
    <3> QED BY <1>1, <1>3, <3>1 DEF None
  <2>2. approvals[c.seen].base \in 0..MaxOps
    <3> DEFINE R == [stage : Stages, decision : Decisions, base : 0..MaxOps]
    <3>1. approvals \in Seq(R)
      BY DEF ProductionInv, TypeOK
    <3>2. approvals[c.seen] \in R
      <4> HIDE DEF R
      <4> QED BY <2>1, <3>1
    <3> QED BY <3>2
  <2>3. PICK b \in 0..MaxOps : b = approvals[c.seen].base
    BY <2>2
  <2>4. PICK row \in OpRow :
          row = [NoOp EXCEPT !.status = "queued", !.by = c.by, !.stage = c.target,
                          !.approval = c.seen, !.base = b]
    BY <1>1, NewPublicationType, CallFields, NatTypes DEF ProductionInv
  <2>5. /\ row.kind = "publication" /\ row.status = "queued" /\ row.stage = c.target
        /\ row.approval = c.seen
    BY <2>4 DEF NoOp
  <2>6. c.seen =< Len(approvals)
    BY <2>1
  <2>7. Insert(j, row)
    BY <1>3, <2>3, <2>4
  <2> HIDE DEF Insert
  <2> QED BY <1>1, <1>3, <2>5, <2>6, <2>7, InsertInv
<1> QED BY <1>1, <1>2, <1>3 DEF Promote

LEMMA RetryInv ==
  ASSUME ProductionInv, NEW c \in calls, Retry(c)
  PROVE  ProductionInv'
<1>1. UNCHANGED <<world, roles, lane, approvals, releases, github, history>> /\ Ends(c)
  BY DEF Retry
<1>p. PICK i \in Ops : i = c.target /\ Known(i)
  BY DEF Retry, ProductionInv, CallsFounded, Founded, OfOperation
<1>2. CASE UNCHANGED <<ops, slot>>
  BY <1>1, <1>2, CaptureRefused
<1>3. ASSUME Retryable(i), ProductionFree, NEW j \in Ops,
             Insert(j, [NoOp EXCEPT !.status = "queued", !.by = c.by,
              !.stage = ops[i].stage, !.approval = ops[i].approval, !.base = c.base,
              !.parent = i, !.attempt = ops[i].attempt + 1])
      PROVE  ProductionInv'
  <2>1. ops[i].stage \in Stages /\ ops[i].approval =< Len(approvals)
    BY <1>p, <1>3 DEF Retryable, ProductionInv, DecisionInv, AcceptedBefore
  <2>2. PICK s \in 0..MaxStages, a \in Nat, n \in Nat :
          s = ops[i].stage /\ a = ops[i].approval /\ n = ops[i].attempt + 1
    BY OpFields DEF ProductionInv
  <2>4. PICK row \in OpRow :
          row = [NoOp EXCEPT !.status = "queued", !.by = c.by, !.stage = s, !.approval = a,
                             !.base = c.base, !.parent = i, !.attempt = n]
    BY NewPublicationType, CallFields, NatTypes DEF ProductionInv
  <2>5. /\ row.kind = "publication" /\ row.status = "queued" /\ row.stage = s
        /\ row.approval = a
    BY <2>4 DEF NoOp
  <2>7. Insert(j, row)
    BY <1>3, <2>2, <2>4
  <2> QED BY <1>1, <1>3, <2>1, <2>2, <2>5, <2>7, InsertInv
<1> QED BY <1>p, <1>1, <1>2, <1>3 DEF Retry

-----------------------------------------------------------------------------
(* An operation that is at work is given up.                               *)

\* the run that deploys is the one its operation is bound to
LEMMA DeployingRun ==
  ASSUME ProductionInv, NEW r \in Runs, runs[r].state = "active", runs[r].at = "granted"
  PROVE  /\ runs[r].op \in Ops /\ Active(runs[r].op) /\ ops[runs[r].op].status = "running"
         /\ ops[runs[r].op].granted /\ granted = runs[r].op
         /\ ops[runs[r].op].reserved = r /\ ops[runs[r].op].claimed = r
  BY DEF ProductionInv, RunInv, Deploying, RunsKnown, Started, Active

LEMMA StopRest ==
  ASSUME ProductionInv, NEW j \in Ops, Active(j),
         ops' = [ops EXCEPT ![j].status = "cancelled"],
         UNCHANGED <<slot, approvals, releases, github, history>>,
         \A r \in Runs : runs[r].state = "active" /\ runs[r].at = "granted" => runs[r].op # j
  PROVE  /\ ops' \in [Ops -> OpRow]
         /\ LaneInv' /\ RunInv' /\ ReleaseInv' /\ DecisionInv' /\ \A c \in calls : Founded(c)'
<1>1. ops' \in [Ops -> OpRow]
  BY RowsKept DEF Statuses, ProductionInv
<1>2. /\ \A i \in Ops \ {j} : ops'[i] = ops[i]
      /\ ops'[j].status = "cancelled" /\ ops'[j].kind = ops[j].kind
      /\ ops'[j].stage = ops[j].stage /\ ops'[j].approval = ops[j].approval
      /\ ops'[j].granted = ops[j].granted /\ ops'[j].claimed = ops[j].claimed
  BY OpFields DEF ProductionInv, TypeOK, OpRow
<1>3. OpsForward /\ RunsForward /\ Forward
  BY <1>2, SameRuns DEF OpsForward, Forward, github, Known, Active
<1>4. LaneInv'
  <2>1. slot # None => slot \in Ops
    BY NatTypes DEF ProductionInv, TypeOK
  <2>2. SlotTaken'
    BY <1>2, <2>1 DEF SlotTaken, Publication, ProductionInv, LaneInv
  <2>3. HolderActive'
    BY <1>2 DEF HolderActive, Publication, Active, ProductionInv, LaneInv
  <2>4. OneOperation'
    BY <1>2 DEF OneOperation, Active, ProductionInv, LaneInv
  <2> QED BY <2>2, <2>3, <2>4 DEF LaneInv
<1>5. RunInv'
  <2>1. \A i \in Ops : ops'[i].status = "running" => ops'[i].claimed \in Runs
    BY <1>2 DEF ProductionInv, RunInv, RunningClaimed
  <2>2. \A r \in Runs : runs[r].state = "active" /\ runs[r].at = "granted" =>
          ops'[runs[r].op] = ops[runs[r].op]
    BY <1>2, DeployingRun
  <2>3. RunsKnown' /\ RunningClaimed' /\ Deploying'
    BY <1>3, <2>1, <2>2, RunKept DEF github, history, Started
  <2>4. SiteGranted'
    BY <1>3, SiteKept DEF github
  <2> QED BY <2>3, <2>4 DEF RunInv
<1>6. ReleaseInv'
  BY <1>3, ReleaseKept DEF github, history
<1>7. DecisionInv'
  <2>1. \A i \in withdrawn : ops'[i].granted = ops[i].granted /\ site' # i
    BY <1>2 DEF ProductionInv, TypeOK, DecisionInv, WithdrawnStaysOut, github
  <2>2. \A i \in Ops : ~ Known(i) => ops'[i].status = "none"
    BY <1>2 DEF Known, Active
  <2> QED BY <1>3, <2>1, <2>2, DecisionKept DEF history
<1>8. ASSUME NEW d \in calls PROVE Founded(d)'
  <2>1. d.kind = "finalize" => d.target \in Ops
    BY DEF ProductionInv, CallsFounded, Founded, OfOperation
  <2> QED BY <1>2, <1>3, <2>1, FoundedKept DEF github
<1> QED BY <1>1, <1>4, <1>5, <1>6, <1>7, <1>8

LEMMA CancelInv ==
  ASSUME ProductionInv, NEW j \in Ops, Cancel(j)
  PROVE  ProductionInv'
<1>1. /\ UNCHANGED <<world, roles, lane, approvals, slot, releases, calls, github, history>>
      /\ ops' = [ops EXCEPT ![j].status = "cancelled"] /\ Active(j) /\ ~ ops[j].granted
  BY DEF Cancel
<1>2. /\ ops' \in [Ops -> OpRow]
      /\ LaneInv' /\ RunInv' /\ ReleaseInv' /\ DecisionInv' /\ \A c \in calls : Founded(c)'
  BY <1>1, StopRest, DeployingRun
<1>3. CallsFounded' /\ OnePerRun'
  BY <1>1, <1>2, CallsStay
<1>4. TypeOK'
  BY <1>1, <1>2 DEF ProductionInv, TypeOK, lane, github, history
<1> QED BY <1>2, <1>3, <1>4 DEF ProductionInv

LEMMA EndInv ==
  ASSUME ProductionInv, NEW c \in calls, End(c)
  PROVE  ProductionInv'
<1>1. UNCHANGED <<world, roles, lane, approvals, slot, releases, github, history>> /\ Ends(c)
  BY DEF End
<1>2. PICK j \in Ops : j = c.target
  BY DEF End, ProductionInv, CallsFounded, Founded, OfRollback, OfOperation
<1>3. c.decision \in {"queued", "running"} /\ (c.run = None \/ Done(c.run))
  BY DEF End, ProductionInv, CallsFounded, Founded
<1>4. CASE Unchanged(c)
  <2>1. ops' = [ops EXCEPT ![j].status = "cancelled"] /\ Active(j) /\ ops[j].reserved = c.run
    BY <1>2, <1>3, <1>4 DEF End, Unchanged, Active
  <2>2. \A r \in Runs : runs[r].state = "active" /\ runs[r].at = "granted" => runs[r].op # j
    BY <1>3, <2>1, DeployingRun, NatTypes DEF Done
  <2>3. /\ ops' \in [Ops -> OpRow]
        /\ LaneInv' /\ RunInv' /\ ReleaseInv' /\ DecisionInv' /\ \A d \in calls : Founded(d)'
    BY <1>1, <2>1, <2>2, StopRest
  <2>4. CallsFounded' /\ OnePerRun'
    BY <1>1, <2>3, CallEnds
  <2>5. TypeOK'
    BY <1>1, <2>3, EndsType DEF ProductionInv, TypeOK, lane, github, history
  <2> QED BY <2>3, <2>4, <2>5 DEF ProductionInv
<1>5. CASE ~ Unchanged(c)
  BY <1>1, <1>5, CaptureRefused DEF End
<1> QED BY <1>4, <1>5

LEMMA FreeInv ==
  ASSUME ProductionInv, NEW j \in Ops, Free(j)
  PROVE  ProductionInv'
<1>1. /\ UNCHANGED <<world, roles, lane, approvals, ops, releases, calls, github, history>>
      /\ slot' = None /\ slot = j /\ Publication(j) /\ ops[j].status = "cancelled"
  BY DEF Free
<1>2. SameOps /\ OpsForward /\ RunsForward
  BY <1>1, SameForward, SameRuns DEF SameOps, github
<1>3. LaneInv'
  <2>1. SlotTaken' /\ OneOperation'
    BY <1>1 DEF SlotTaken, OneOperation, ProductionInv, LaneInv, Active
  <2>2. HolderActive'
    BY <1>1, NatTypes DEF HolderActive, ProductionInv, LaneInv, Active, Publication
  <2> QED BY <2>1, <2>2 DEF LaneInv
<1>4. RunInv' /\ ReleaseInv' /\ \A d \in calls : Founded(d)'
  BY <1>1, <1>2, SameOpsRest DEF github, history, Started
<1>5. DecisionInv'
  <2>1. \A i \in withdrawn : ops'[i].granted = ops[i].granted /\ site' # i
    BY <1>1 DEF ProductionInv, DecisionInv, WithdrawnStaysOut, github
  <2>2. \A i \in Ops : ~ Known(i) => ops'[i].status = "none"
    BY <1>1 DEF Known
  <2> QED BY <1>1, <1>2, <2>1, <2>2, DecisionKept DEF history
<1>6. CallsFounded' /\ OnePerRun'
  BY <1>1, <1>4, CallsStay
<1>7. TypeOK'
  BY <1>1, NatTypes DEF ProductionInv, TypeOK, lane, github, history
<1> QED BY <1>3, <1>4, <1>5, <1>6, <1>7 DEF ProductionInv

-----------------------------------------------------------------------------
(* A rollback is captured, and stops the publication that it replaces.     *)

LEMMA RollbackInv ==
  ASSUME ProductionInv, NEW c \in calls, Rollback(c)
  PROVE  ProductionInv'
<1>1. UNCHANGED <<world, roles, lane, approvals, releases, github, history>> /\ Ends(c)
  BY DEF Rollback
<1>2. CASE UNCHANGED <<ops, slot>>
  BY <1>1, <1>2, CaptureRefused
<1>3. ASSUME StillReplaced(c), CaptureAllowed(c), NEW j \in Ops, Fresh(j),
             slot' = IF c.replace = None THEN slot ELSE None,
             ops' = [i \in Ops |->
                   CASE i = j -> [NoOp EXCEPT !.kind = "rollback", !.status = "queued", !.by = c.by,
                          !.base = c.base, !.deployment = c.deployment,
                          !.source = releases[c.target].content, !.previous = c.seen]
                     [] i = c.replace -> [ops[i] EXCEPT !.status = "cancelled"]
                     [] OTHER -> ops[i]]
      PROVE  ProductionInv'
  <2>1. PICK k \in 0..MaxOps : k = c.replace
    BY CallFields DEF ProductionInv
  <2>2. c.target \in 1..Len(releases) /\ (k # None => Done(c.run))
    BY <2>1 DEF Rollback, ProductionInv, CallsFounded, Founded
  <2>3. PICK s \in 0..MaxStages : s = releases[c.target].content
    BY <2>2, ReleaseFields
  <2>4. PICK row \in OpRow :
          row = [NoOp EXCEPT !.kind = "rollback", !.status = "queued", !.by = c.by, !.base = c.base,
                      !.deployment = c.deployment, !.source = s, !.previous = c.seen]
    BY NewRollbackType, CallFields DEF ProductionInv
  <2>5. row.kind = "rollback" /\ row.status = "queued"
    BY <2>4 DEF NoOp
  <2>6. ~ Known(j)
    BY <1>3 DEF Fresh, Known
  <2>7. k # None => /\ k \in Ops /\ k # j /\ slot = k /\ Publication(k) /\ Known(k)
                    /\ ops[k].status # "succeeded"
                    /\ ops[k].reserved = c.run /\ Done(c.run)
    BY <1>3, <2>1, <2>2, <2>6, NatTypes
       DEF StillReplaced, ProductionInv, LaneInv, SlotTaken, Known
  <2>8. slot' = None /\ \A i \in Ops : Active(i) => i = k
    BY <1>3, <2>1 DEF CaptureAllowed
  <2>9. /\ ops' = [i \in Ops |-> ops'[i]] /\ ops'[j] = row
        /\ k \in Ops /\ k # j => ops'[k] = [ops[k] EXCEPT !.status = "cancelled"]
        /\ \A i \in Ops \ {j, k} : ops'[i] = ops[i]
    <3>1. ops' = [i \in Ops |->
                   CASE i = j -> row
                     [] i = k -> [ops[i] EXCEPT !.status = "cancelled"]
                     [] OTHER -> ops[i]]
      BY <1>3, <2>1, <2>3, <2>4
    <3>2. ops' = [i \in Ops |-> ops'[i]]
      BY <3>1
    <3>k. j # k
      BY <2>7, NatTypes
    <3>3. ops'[j] = row
      BY <3>1, <3>k
    <3>4. k \in Ops /\ k # j => ops'[k] = [ops[k] EXCEPT !.status = "cancelled"]
      BY <3>1
    <3>5. \A i \in Ops \ {j, k} : ops'[i] = ops[i]
      BY <3>1
    <3> QED BY <3>2, <3>3, <3>4, <3>5
  <2>10. ops' \in [Ops -> OpRow]
    <3>1. \A i \in Ops : [ops[i] EXCEPT !.status = "cancelled"] \in OpRow /\ ops[i] \in OpRow
      BY OpFields DEF OpRow, Statuses, ProductionInv
    <3>2. \A i \in Ops : ops'[i] \in OpRow
      BY <2>7, <2>9, <3>1
    <3> QED BY <2>9, <3>2
  <2>11. /\ ops'[j] = row /\ \A i \in Ops \ {j, k} : ops'[i] = ops[i]
         /\ k # None => /\ ops'[k].status = "cancelled" /\ ops'[k].kind = ops[k].kind
                        /\ ops'[k].stage = ops[k].stage /\ ops'[k].approval = ops[k].approval
                        /\ ops'[k].granted = ops[k].granted /\ ops'[k].claimed = ops[k].claimed
    <3>1. ops'[j] = row /\ \A i \in Ops \ {j, k} : ops'[i] = ops[i]
      BY <2>9
    <3>2. ASSUME k # None
          PROVE  /\ ops'[k].status = "cancelled" /\ ops'[k].kind = ops[k].kind
                 /\ ops'[k].stage = ops[k].stage /\ ops'[k].approval = ops[k].approval
                 /\ ops'[k].granted = ops[k].granted /\ ops'[k].claimed = ops[k].claimed
      <4>1. ops'[k] = [ops[k] EXCEPT !.status = "cancelled"] /\ ops[k] \in OpRow
        BY <2>7, <2>9, <3>2, OpFields DEF ProductionInv
      <4> QED BY <4>1 DEF OpRow
    <3> QED BY <3>1, <3>2
  <2>12. \A i \in Ops : i = j \/ (i = k /\ k # None) \/ i \in Ops \ {j, k}
    BY NatTypes
  <2>13. OpsForward /\ RunsForward /\ Forward
    <3>1. OpsForward
      BY <2>6, <2>7, <2>11, <2>12 DEF OpsForward, Known, Active
    <3> QED BY <1>1, <3>1, SameRuns DEF Forward, github
  <2>14. LaneInv'
    <3>1. \A i \in Ops : ops'[i].status \in {"queued", "running"} => i = j
      BY <2>8, <2>11, <2>12 DEF Active
    <3>2. SlotTaken' /\ OneOperation'
      BY <2>8, <3>1 DEF SlotTaken, OneOperation, Active
    <3>3. HolderActive'
      BY <2>5, <2>8, <2>11, <3>1 DEF HolderActive, Active, Publication
    <3> QED BY <3>2, <3>3 DEF LaneInv
  <2>15. RunInv'
    <3>1. \A i \in Ops : ops'[i].status = "running" => ops'[i].claimed \in Runs
      BY <2>5, <2>11, <2>12 DEF ProductionInv, RunInv, RunningClaimed
    <3>2. ASSUME NEW r \in Runs, runs[r].state = "active", runs[r].at = "granted"
          PROVE  ops'[runs[r].op] = ops[runs[r].op]
      <4>1. /\ runs[r].op \in Ops /\ Active(runs[r].op) /\ ops[runs[r].op].reserved = r
        BY <3>2, DeployingRun
      <4>2. runs[r].op # j
        BY <2>6, <4>1 DEF Known, Active
      <4>3. runs[r].op # k
        BY <2>7, <3>2, <4>1, NatTypes DEF Done
      <4> QED BY <2>11, <4>1, <4>2, <4>3
    <3>3. RunsKnown' /\ RunningClaimed' /\ Deploying'
      BY <1>1, <2>13, <3>1, <3>2, RunKept DEF github, history, Started
    <3>4. SiteGranted'
      BY <1>1, <2>13, SiteKept DEF github
    <3> QED BY <3>3, <3>4 DEF RunInv
  <2>16. ReleaseInv'
    BY <1>1, <2>13, ReleaseKept DEF github, history
  <2>17. DecisionInv'
    <3>1. \A i \in withdrawn : i \in Ops /\ Known(i) /\ site # i
      BY DEF ProductionInv, TypeOK, DecisionInv, Superseded, WithdrawnStaysOut
    <3>2. \A i \in withdrawn : ops'[i].granted = ops[i].granted /\ site' # i
      BY <1>1, <2>6, <2>11, <2>12, <3>1 DEF github
    <3>3. \A i \in Ops : ~ Known(i) /\ ops'[i].status # "none" /\ ops'[i].kind = "publication" =>
            ops'[i].stage \in Stages /\ ops'[i].approval =< Len(approvals)
      BY <2>5, <2>7, <2>11, <2>12 DEF Known
    <3> QED BY <1>1, <2>13, <3>2, <3>3, DecisionKept DEF history
  <2>18. ASSUME NEW d \in calls PROVE Founded(d)'
    <3>1. d.kind = "finalize" => d.target \in Ops /\ d.target # j
      BY <2>6 DEF ProductionInv, CallsFounded, Founded, OfOperation
    <3>2. d.kind = "finalize" => ops'[d.target].claimed = ops[d.target].claimed
      BY <2>11, <2>12, <3>1
    <3> QED BY <1>1, <2>13, <3>2, FoundedKept DEF github
  <2>19. CallsFounded' /\ OnePerRun'
    BY <1>1, <2>18, CallEnds
  <2>20. TypeOK'
    BY <1>1, <2>8, <2>10, EndsType, NatTypes DEF ProductionInv, TypeOK, github, history, lane
  <2> QED BY <2>14, <2>15, <2>16, <2>17, <2>19, <2>20 DEF ProductionInv
<1> QED BY <1>1, <1>2, <1>3 DEF Rollback

-----------------------------------------------------------------------------
(* The run that reserves, claims and deploys.                              *)

LEMMA ReserveRunInv ==
  ASSUME ProductionInv, NEW r \in Runs, ReserveRun(r)
  PROVE  ProductionInv'
<1>1. PICK j \in Ops : j = runs[r].op
  BY AskingRun DEF ReserveRun
<1>2. /\ ops' = [ops EXCEPT ![j].reserved = r] /\ ops[j].status = "queued"
      /\ Asks(r, "start") /\ Hears(r, "reserved") /\ deployments' = Append(deployments, r)
      /\ UNCHANGED <<world, roles, lane, approvals, slot, releases, calls, main, site, history>>
  BY <1>1 DEF ReserveRun
<1>3. ops' \in [Ops -> OpRow]
  BY <1>2, RowsKept, NatTypes DEF ProductionInv
<1>4. /\ \A i \in Ops \ {j} : ops'[i] = ops[i]
      /\ ops'[j].status = ops[j].status /\ ops'[j].kind = ops[j].kind
      /\ ops'[j].stage = ops[j].stage /\ ops'[j].approval = ops[j].approval
      /\ ops'[j].granted = ops[j].granted /\ ops'[j].claimed = ops[j].claimed
  BY <1>2, OpFields DEF ProductionInv, TypeOK, OpRow
<1>5. /\ runs' \in [Runs -> RunRow] /\ RunsForward
      /\ \A q \in Runs : runs'[q].state = runs[q].state
      /\ \A q \in Runs : runs'[q].at = "granted" => runs[q].at = "granted"
      /\ \A d \in calls : OfRunner(d) => runs'[d.run].at = runs[d.run].at
  BY <1>2, HearsStep DEF Points
<1>6. OpsForward /\ Forward
  BY <1>2, <1>4, <1>5 DEF OpsForward, Forward, Known, Active
<1>7. LaneInv'
  BY <1>2, <1>4, LaneKept
<1>8. RunInv'
  <2>1. \A i \in Ops : ops'[i].status = "running" => ops'[i].claimed \in Runs
    BY <1>4 DEF ProductionInv, RunInv, RunningClaimed
  <2>2. \A q \in Runs : runs[q].state = "active" /\ runs[q].at = "granted" =>
          ops'[runs[q].op] = ops[runs[q].op]
    BY <1>2, <1>4, DeployingRun
  <2>3. RunsKnown' /\ RunningClaimed' /\ Deploying'
    BY <1>2, <1>5, <1>6, <2>1, <2>2, RunKept DEF history, Started
  <2>4. SiteGranted'
    BY <1>2, <1>6, SiteKept
  <2> QED BY <2>3, <2>4 DEF RunInv
<1>9. ReleaseInv'
  BY <1>2, <1>6, ReleaseKept DEF history
<1>10. DecisionInv'
  <2>1. \A i \in withdrawn : ops'[i].granted = ops[i].granted /\ site' # i
    BY <1>2, <1>4 DEF ProductionInv, TypeOK, DecisionInv, WithdrawnStaysOut
  <2>2. \A i \in Ops : ~ Known(i) => ops'[i].status = "none"
    BY <1>4 DEF Known
  <2> QED BY <1>2, <1>6, <2>1, <2>2, DecisionKept DEF history
<1>11. ASSUME NEW d \in calls PROVE Founded(d)'
  <2>1. d.kind = "finalize" => d.target \in Ops
    BY DEF ProductionInv, CallsFounded, Founded, OfOperation
  <2> QED BY <1>2, <1>4, <1>5, <1>6, <2>1, FoundedKept
<1>12. CallsFounded' /\ OnePerRun'
  BY <1>2, <1>11, CallsStay
<1>13. deployments' \in Seq(Runs)
  BY <1>2 DEF ProductionInv, TypeOK
<1>14. TypeOK'
  BY <1>2, <1>3, <1>5, <1>13 DEF ProductionInv, TypeOK, history, lane
<1> QED BY <1>7, <1>8, <1>9, <1>10, <1>12, <1>14 DEF ProductionInv

LEMMA ClaimRunInv ==
  ASSUME ProductionInv, NEW r \in Runs, ClaimRun(r)
  PROVE  ProductionInv'
<1>1. PICK j \in Ops : j = runs[r].op
  BY AskingRun DEF ClaimRun
<1>2. /\ ops' = [ops EXCEPT ![j].claimed = r, ![j].status = "running"]
      /\ Active(j) /\ ops[j].reserved = r /\ ops[j].claimed \in {None, r}
      /\ Asks(r, "reserved") /\ (Hears(r, "claimed") \/ Hears(r, "committed"))
      /\ UNCHANGED <<world, roles, lane, approvals, slot, releases, calls, deployments, main,
                     site, history>>
  BY <1>1 DEF ClaimRun
<1>3. ops' \in [Ops -> OpRow]
  BY <1>2, RowsKept, NatTypes DEF ProductionInv, Statuses
<1>4. /\ \A i \in Ops \ {j} : ops'[i] = ops[i]
      /\ ops'[j].status = "running" /\ ops'[j].kind = ops[j].kind
      /\ ops'[j].stage = ops[j].stage /\ ops'[j].approval = ops[j].approval
      /\ ops'[j].granted = ops[j].granted /\ ops'[j].claimed = r
  BY <1>2, OpFields DEF ProductionInv, TypeOK, OpRow
<1>5. /\ runs' \in [Runs -> RunRow] /\ RunsForward
      /\ \A q \in Runs : runs'[q].state = runs[q].state
      /\ \A q \in Runs : runs'[q].at = "granted" => runs[q].at = "granted"
      /\ \A d \in calls : OfRunner(d) => runs'[d.run].at = runs[d.run].at
  BY <1>2, HearsStep DEF Points
<1>6. OpsForward /\ Forward
  BY <1>2, <1>4, <1>5 DEF OpsForward, Forward, Known, Active
<1>7. LaneInv'
  <2>1. \A i \in Ops : (ops'[i].status \in {"queued", "running"}) <=> Active(i)
    BY <1>2, <1>4 DEF Active
  <2>2. \A i \in Ops : ops'[i].kind = ops[i].kind
    BY <1>4
  <2>3. slot # None => slot \in Ops
    BY NatTypes DEF ProductionInv, TypeOK
  <2>4. SlotTaken'
    BY <1>2, <1>4, <2>2, <2>3 DEF SlotTaken, Publication, ProductionInv, LaneInv
  <2>5. HolderActive'
    BY <1>2, <2>1, <2>2 DEF HolderActive, Active, Publication, ProductionInv, LaneInv
  <2>6. OneOperation'
    BY <2>1 DEF OneOperation, Active, ProductionInv, LaneInv
  <2> QED BY <2>4, <2>5, <2>6 DEF LaneInv
<1>8. RunInv'
  <2>1. \A i \in Ops : ops'[i].status = "running" => ops'[i].claimed \in Runs
    BY <1>4 DEF ProductionInv, RunInv, RunningClaimed
  <2>2. ASSUME NEW q \in Runs, runs[q].state = "active", runs[q].at = "granted"
        PROVE  ops'[runs[q].op] = ops[runs[q].op]
    <3>1. q # r
      BY <1>2, <2>2 DEF Asks
    <3> QED BY <1>2, <1>4, <2>2, <3>1, DeployingRun
  <2>3. RunsKnown' /\ RunningClaimed' /\ Deploying'
    BY <1>2, <1>5, <1>6, <2>1, <2>2, RunKept DEF history, Started
  <2>4. SiteGranted'
    BY <1>2, <1>6, SiteKept
  <2> QED BY <2>3, <2>4 DEF RunInv
<1>9. ReleaseInv'
  BY <1>2, <1>6, ReleaseKept DEF history
<1>10. DecisionInv'
  <2>1. \A i \in withdrawn : ops'[i].granted = ops[i].granted /\ site' # i
    BY <1>2, <1>4 DEF ProductionInv, TypeOK, DecisionInv, WithdrawnStaysOut
  <2>2. \A i \in Ops : ~ Known(i) => ops'[i].status = "none"
    BY <1>2, <1>4 DEF Known, Active
  <2> QED BY <1>2, <1>6, <2>1, <2>2, DecisionKept DEF history
<1>11. ASSUME NEW d \in calls PROVE Founded(d)'
  <2>1. d.kind = "finalize" => d.target \in Ops /\ d.run \in Runs /\ ops[d.target].claimed = d.run
    BY DEF ProductionInv, CallsFounded, Founded, OfOperation, AtRun
  <2>2. d.kind = "finalize" => ops'[d.target].claimed = ops[d.target].claimed
    BY <1>2, <1>4, <2>1, NatTypes
  <2> QED BY <1>2, <1>5, <1>6, <2>2, FoundedKept
<1>12. CallsFounded' /\ OnePerRun'
  BY <1>2, <1>11, CallsStay
<1>13. TypeOK'
  BY <1>2, <1>3, <1>5 DEF ProductionInv, TypeOK, history, lane
<1> QED BY <1>7, <1>8, <1>9, <1>10, <1>12, <1>13 DEF ProductionInv

LEMMA GrantDeploymentInv ==
  ASSUME ProductionInv, NEW c \in calls, GrantDeployment(c)
  PROVE  ProductionInv'
<1>1. /\ UNCHANGED <<world, roles, lane, approvals, slot, releases, deployments, main, site,
                     withdrawn>>
      /\ Ends(c) /\ OfRunner(c)
  BY DEF GrantDeployment, OfRunner
<1>2. PICK r \in Runs, j \in Ops :
        /\ r = c.run /\ j = c.target /\ runs[r].op = j
        /\ Known(j) /\ Started(r) /\ runs[r].at = "committed"
  BY DEF GrantDeployment, ProductionInv, CallsFounded, Founded, OfOperation, AtRun
<1>3. CASE ~ Execute(r)
  <2>1. UNCHANGED <<ops, granted, runs>>
    BY <1>2, <1>3 DEF GrantDeployment
  <2>2. TypeOK'
    BY <1>1, <2>1, EndsType DEF ProductionInv, TypeOK, lane
  <2> QED BY <1>1, <2>1, <2>2, QuietEnd DEF core
<1>4. CASE Execute(r)
  <2>1. /\ ops' = [ops EXCEPT ![j].granted = TRUE] /\ granted' = j
        /\ runs' = [runs EXCEPT ![r].at = IF runs[r].state = "active" THEN "granted" ELSE @]
    BY <1>2, <1>4 DEF GrantDeployment
  <2>2. /\ Authorized(j) /\ ops[j].status = "running" /\ Active(j)
        /\ ops[j].reserved = r /\ ops[j].claimed = r
    BY <1>2, <1>4 DEF Execute, Bound, Active
  <2>3. ops' \in [Ops -> OpRow]
    BY <2>1, RowsKept DEF ProductionInv
  <2>4. /\ \A i \in Ops \ {j} : ops'[i] = ops[i]
        /\ ops'[j].status = ops[j].status /\ ops'[j].kind = ops[j].kind
        /\ ops'[j].stage = ops[j].stage /\ ops'[j].approval = ops[j].approval
        /\ ops'[j].granted = TRUE /\ ops'[j].claimed = r /\ ops'[j].reserved = r
    BY <2>1, <2>2, OpFields DEF ProductionInv, TypeOK, OpRow
  <2>5. /\ runs' \in [Runs -> RunRow]
        /\ \A q \in Runs : runs'[q].state = runs[q].state /\ runs'[q].op = runs[q].op
        /\ \A q \in Runs \ {r} : runs'[q] = runs[q]
    <3>1. runs \in [Runs -> RunRow]
      BY DEF ProductionInv, TypeOK
    <3> QED BY <2>1, <3>1 DEF RunRow, Points
  <2>6. OpsForward /\ RunsForward /\ Forward
    BY <1>1, <2>4, <2>5 DEF OpsForward, RunsForward, Forward, Known, Active, Started
  <2>7. LaneInv'
    BY <1>1, <2>4, LaneKept
  <2>8. RunInv'
    <3>1. RunsKnown'
      BY <2>4, <2>5 DEF RunsKnown, Started, Known, ProductionInv, RunInv
    <3>2. RunningClaimed'
      BY <2>4 DEF RunningClaimed, ProductionInv, RunInv
    <3>3. ASSUME NEW q \in Runs, runs'[q].state = "active", runs'[q].at = "granted"
          PROVE  q = r
      <4>1. ASSUME q # r PROVE FALSE
        <5>1. runs[q].state = "active" /\ runs[q].at = "granted"
          BY <2>5, <3>3, <4>1
        <5>2. runs[q].op \in Ops /\ Active(runs[q].op) /\ ops[runs[q].op].reserved = q
          BY <5>1, DeployingRun
        <5>3. runs[q].op = j
          BY <2>2, <5>2 DEF ProductionInv, LaneInv, OneOperation
        <5> QED BY <2>2, <4>1, <5>2, <5>3
      <4> QED BY <4>1
    <3>4. Deploying'
      BY <1>2, <2>1, <2>2, <2>4, <2>5, <3>3 DEF Deploying
    <3>5. SiteGranted'
      BY <1>1, <2>6, SiteKept
    <3> QED BY <3>1, <3>2, <3>4, <3>5 DEF RunInv
  <2>9. ReleaseInv'
    <3>1. ReleasedDone'
      BY <1>1, <2>6, ReleaseFields DEF ReleasedDone, OpsForward, Known
    <3>2. Len(releases) \in 1..Len(releases)
      <4> DEFINE R == [op : 0..MaxOps, content : 0..MaxStages]
      <4>1. releases \in Seq(R) /\ Len(releases) > 0
        BY DEF ProductionInv, TypeOK
      <4> HIDE DEF R
      <4> QED BY <4>1
    <3>3. releases[Len(releases)].op # j
      BY <2>2, <3>2, ReleaseFields, NatTypes
    <3>4. LiveIsReleased'
      BY <1>1, <2>1, <3>3 DEF LiveIsReleased
    <3> QED BY <3>1, <3>4 DEF ReleaseInv
  <2>10. DecisionInv'
    <3>1. j \notin withdrawn
      <4>1. ASSUME j \in withdrawn PROVE FALSE
        <5>1. Publication(j) /\ ops[j].approval < Latest(ops[j].stage) /\ ops[j].stage \in Stages
          BY <1>2, <4>1 DEF ProductionInv, DecisionInv, Superseded, AcceptedBefore
        <5>2. ops[j].approval = Latest(ops[j].stage)
          BY <2>2, <5>1 DEF Authorized, CurrentPromotion
        <5>3. ops[j].approval \in Nat
          BY OpFields DEF ProductionInv
        <5> QED BY <5>1, <5>2, <5>3
      <4> QED BY <4>1
    <3>2. \A i \in withdrawn : ops'[i].granted = ops[i].granted /\ site' # i
      BY <1>1, <2>4, <3>1 DEF ProductionInv, TypeOK, DecisionInv, WithdrawnStaysOut
    <3>3. \A i \in Ops : ~ Known(i) => ops'[i].status = "none"
      BY <2>4 DEF Known
    <3> QED BY <1>1, <2>6, <3>2, <3>3, DecisionKept
  <2>11. ASSUME NEW d \in calls, d # c PROVE Founded(d)'
    <3>1. OfRunner(d) => d.run \in Runs \ {r}
      BY <1>1, <1>2, <2>11
         DEF ProductionInv, OnePerRun, CallsFounded, Founded, AtRun, OfRunner
    <3>2. d.kind = "finalize" => d.target \in Ops
      BY DEF ProductionInv, CallsFounded, Founded, OfOperation
    <3> QED BY <1>1, <2>2, <2>4, <2>5, <2>6, <3>1, <3>2, FoundedKept
  <2>12. CallsFounded' /\ OnePerRun'
    BY <1>1, <2>11, CallEnds
  <2>13. TypeOK'
    BY <1>1, <2>1, <2>3, <2>5, EndsType, NatTypes DEF ProductionInv, TypeOK, lane
  <2> QED BY <2>7, <2>8, <2>9, <2>10, <2>12, <2>13 DEF ProductionInv
<1> QED BY <1>3, <1>4

LEMMA DeployInv ==
  ASSUME ProductionInv, NEW r \in Runs, Deploy(r)
  PROVE  ProductionInv'
<1>1. runs[r].state = "active" /\ runs[r].at = "granted"
  BY DEF Deploy, Asks
<1>2. PICK j \in Ops : /\ j = runs[r].op /\ Active(j) /\ ops[j].granted /\ granted = j
  BY <1>1, DeployingRun
<1>3. UNCHANGED <<Lane, calls, deployments, main>> /\ site' = j
  BY <1>2 DEF Deploy
<1>4. /\ runs' \in [Runs -> RunRow] /\ RunsForward
      /\ \A q \in Runs : runs'[q].state = runs[q].state
      /\ \A q \in Runs : runs'[q].at = "granted" => runs[q].at = "granted"
      /\ \A d \in calls : OfRunner(d) => runs'[d.run].at = runs[d.run].at
  BY HearsStep DEF Deploy, Points
<1>5. SameOps /\ OpsForward /\ Forward
  BY <1>3, <1>4, SameForward DEF SameOps, Lane, Forward
<1>6. LaneInv'
  BY <1>3, LaneKept DEF Lane
<1>7. RunInv'
  <2>1. RunsKnown' /\ RunningClaimed' /\ Deploying'
    BY <1>3, <1>4, <1>5, RunKept DEF Lane, history, Started, ProductionInv, RunInv, RunningClaimed
  <2>2. SiteGranted'
    BY <1>2, <1>3 DEF SiteGranted, Lane, Known, Active
  <2> QED BY <2>1, <2>2 DEF RunInv
<1>8. ReleaseInv'
  <2>1. ReleasedDone'
    BY <1>3 DEF Lane, ReleasedDone, ProductionInv, ReleaseInv
  <2>2. LiveIsReleased'
    BY <1>2, <1>3 DEF Lane, history, LiveIsReleased
  <2> QED BY <2>1, <2>2 DEF ReleaseInv
<1>9. DecisionInv'
  <2>1. j \notin withdrawn
    BY <1>2 DEF ProductionInv, DecisionInv, WithdrawnStaysOut
  <2>2. \A i \in withdrawn : ops'[i].granted = ops[i].granted /\ site' # i
    BY <1>3, <2>1 DEF Lane
  <2>3. \A i \in Ops : ~ Known(i) => ops'[i].status = "none"
    BY <1>3 DEF Known, Lane
  <2> QED BY <1>3, <1>5, <2>2, <2>3, DecisionKept DEF Lane, history
<1>10. ASSUME NEW d \in calls PROVE Founded(d)'
  <2>1. d.kind = "finalize" => d.target \in Ops
    BY DEF ProductionInv, CallsFounded, Founded, OfOperation
  <2>2. d.kind = "finalize" => ops'[d.target].claimed = ops[d.target].claimed
    BY <1>3 DEF Lane
  <2>3. d.target \in Ops /\ Active(d.target) => site' = d.target
    BY <1>2, <1>3 DEF ProductionInv, LaneInv, OneOperation
  <2> QED BY <1>4, <1>5, <2>2, <2>3, FoundedKept
<1>11. CallsFounded' /\ OnePerRun'
  BY <1>3, <1>10, CallsStay
<1>12. TypeOK'
  BY <1>2, <1>3, <1>4, NatTypes DEF ProductionInv, TypeOK, Lane, lane, history
<1> QED BY <1>6, <1>7, <1>8, <1>9, <1>11, <1>12 DEF ProductionInv

-----------------------------------------------------------------------------
(* An operation is completed.                                              *)

LEMMA CompleteInv ==
  ASSUME ProductionInv, NEW c \in calls, Complete(c)
  PROVE  ProductionInv'
<1>1. UNCHANGED <<world, roles, lane, approvals, deployments, main, site, history>> /\ Ends(c)
  BY DEF Complete
<1>2. PICK j \in Ops : j = c.target /\ Known(j) /\ (Active(j) => site = j)
  BY DEF Complete, ProductionInv, CallsFounded, Founded, OfOperation, ShowsIt
<1>3. \/ c.kind = "finalize" /\ c.run \in Runs /\ runs[c.run].at = "reported"
         /\ ops[j].claimed = c.run
      \/ c.kind \in {"verify", "complete"} /\ c.run = None
  BY <1>2 DEF Complete, ProductionInv, CallsFounded, Founded, AtRun
<1>4. CASE ~ Completable(c.kind, j)
  <2>1. UNCHANGED <<ops, releases, slot, runs>>
    BY <1>2, <1>4 DEF Complete
  <2>2. TypeOK'
    BY <1>1, <2>1, EndsType DEF ProductionInv, TypeOK, lane, history
  <2> QED BY <1>1, <2>1, <2>2, QuietEnd DEF core, history
<1>5. CASE Completable(c.kind, j)
  <2>1. PICK v \in 0..MaxStages : v = IF Publication(j) THEN ops[j].stage ELSE ops[j].source
    BY OpFields DEF ProductionInv
  <2>2. /\ ops' = [ops EXCEPT ![j].status = "succeeded"]
        /\ releases' = Append(releases, [op |-> j, content |-> v])
        /\ slot' = IF slot = j THEN None ELSE slot
        /\ runs' = [r \in Runs |-> IF r = c.run /\ runs[r].state = "active"
                                         THEN [runs[r] EXCEPT !.at = "finalized"] ELSE runs[r]]
    BY <1>2, <1>5, <2>1 DEF Complete
  <2>3. ops[j].status = "running" /\ Active(j) /\ ops[j].granted /\ site = j
    BY <1>2, <1>5 DEF Completable, Active
  <2>4. \A r \in Runs : ~ (runs[r].state = "active" /\ runs[r].at = "granted")
    <3>1. ASSUME NEW r \in Runs, runs[r].state = "active", runs[r].at = "granted" PROVE FALSE
      <4>1. runs[r].op = j
        BY <2>3, <3>1, DeployingRun DEF ProductionInv, LaneInv, OneOperation
      <4>2. ops[j].claimed = r
        BY <3>1, <4>1, DeployingRun
      <4>3. c.kind = "finalize" => c.run = r
        BY <1>3, <4>2
      <4>4. c.kind \in {"verify", "complete"} => Done(r)
        BY <1>5, <4>2 DEF Completable
      <4> QED BY <1>3, <3>1, <4>3, <4>4 DEF Done
    <3> QED BY <3>1
  <2>5. ops' \in [Ops -> OpRow]
    BY <2>2, RowsKept DEF ProductionInv, Statuses
  <2>6. /\ \A i \in Ops \ {j} : ops'[i] = ops[i]
        /\ ops'[j].status = "succeeded" /\ ops'[j].kind = ops[j].kind
        /\ ops'[j].stage = ops[j].stage /\ ops'[j].approval = ops[j].approval
        /\ ops'[j].granted = ops[j].granted /\ ops'[j].claimed = ops[j].claimed
    BY <2>2, OpFields DEF ProductionInv, TypeOK, OpRow
  <2>7. /\ runs' \in [Runs -> RunRow]
        /\ \A q \in Runs : runs'[q].state = runs[q].state /\ runs'[q].op = runs[q].op
        /\ \A q \in Runs : runs'[q].at = "granted" => runs[q].at = "granted"
        /\ \A q \in Runs : q # c.run => runs'[q] = runs[q]
    <3>1. \A q \in Runs : /\ runs[q] \in RunRow /\ [runs[q] EXCEPT !.at = "finalized"] \in RunRow
      BY DEF ProductionInv, TypeOK, RunRow, Points
    <3>2. runs' \in [Runs -> RunRow]
      BY <2>2, <3>1
    <3>3. \A q \in Runs : runs'[q].state = runs[q].state /\ runs'[q].op = runs[q].op
      BY <2>2, <3>1 DEF RunRow
    <3>4. \A q \in Runs : runs'[q].at = "granted" => runs[q].at = "granted"
      BY <2>2, <3>1 DEF RunRow
    <3>5. \A q \in Runs : q # c.run => runs'[q] = runs[q]
      BY <2>2
    <3> QED BY <3>2, <3>3, <3>4, <3>5
  <2>8. /\ releases' \in Seq([op : 0..MaxOps, content : 0..MaxStages])
        /\ Len(releases) \in Nat /\ Len(releases') = Len(releases) + 1
        /\ releases'[Len(releases')].op = j
        /\ \A i \in 1..Len(releases) : releases'[i] = releases[i]
    <3> DEFINE R == [op : 0..MaxOps, content : 0..MaxStages]
    <3>1. PICK new \in R : new = [op |-> j, content |-> v]
      BY NatTypes
    <3>2. new.op = j
      BY <3>1
    <3>3. releases \in Seq(R) /\ releases' = Append(releases, new)
      BY <2>2, <3>1 DEF ProductionInv, TypeOK
    <3> HIDE DEF R
    <3>4. /\ releases' \in Seq(R) /\ Len(releases) \in Nat /\ Len(releases') = Len(releases) + 1
          /\ releases'[Len(releases')] = new
          /\ \A i \in 1..Len(releases) : releases'[i] = releases[i]
      BY <3>3
    <3> QED BY <3>2, <3>4 DEF R
  <2>9. OpsForward /\ RunsForward /\ Forward
    <3>1. OpsForward /\ RunsForward
      BY <2>3, <2>6, <2>7 DEF OpsForward, RunsForward, Known, Active, Started
    <3>2. \A i \in 1..Len(releases) : i \in 1..Len(releases')
      BY <2>8
    <3> QED BY <3>1, <3>2 DEF Forward
  <2>10. LaneInv'
    <3>1. slot = IF Publication(j) THEN j ELSE None
      BY <2>3 DEF ProductionInv, LaneInv, HolderActive
    <3>2. slot' = None
      BY <2>2, <3>1
    <3>3. \A i \in Ops : ops'[i].status \notin {"queued", "running"}
      BY <2>3, <2>6 DEF ProductionInv, LaneInv, OneOperation, Active
    <3> QED BY <3>2, <3>3 DEF LaneInv, SlotTaken, HolderActive, OneOperation, Active
  <2>11. RunInv'
    <3>1. RunsKnown' /\ RunningClaimed' /\ Deploying'
      <4>1. \A i \in Ops : ops'[i].status = "running" => ops'[i].claimed \in Runs
        BY <2>6 DEF ProductionInv, RunInv, RunningClaimed
      <4> QED BY <1>1, <2>4, <2>7, <2>9, <4>1, RunKept DEF history, Started
    <3>2. SiteGranted'
      BY <1>1, <2>9, SiteKept
    <3> QED BY <3>1, <3>2 DEF RunInv
  <2>12. ReleaseInv'
    <3>1. ASSUME NEW i \in 1..Len(releases')
          PROVE  releases'[i].op # None => ops'[releases'[i].op].status = "succeeded"
      <4>1. CASE i = Len(releases')
        BY <2>6, <2>8, <4>1
      <4>2. CASE i # Len(releases')
        <5>1. i \in 1..Len(releases) /\ releases'[i] = releases[i]
          BY <2>8, <4>2
        <5> QED BY <2>9, <5>1, ReleaseFields DEF OpsForward, Known
      <4> QED BY <4>1, <4>2
    <3>2. ReleasedDone'
      BY <3>1 DEF ReleasedDone
    <3>3. LiveIsReleased'
      BY <1>1, <2>3, <2>8 DEF LiveIsReleased, history
    <3> QED BY <3>2, <3>3 DEF ReleaseInv
  <2>13. DecisionInv'
    <3>1. \A i \in withdrawn : ops'[i].granted = ops[i].granted /\ site' # i
      BY <1>1, <2>6 DEF ProductionInv, TypeOK, DecisionInv, WithdrawnStaysOut
    <3>2. \A i \in Ops : ~ Known(i) => ops'[i].status = "none"
      BY <1>2, <2>6 DEF Known
    <3> QED BY <1>1, <2>9, <3>1, <3>2, DecisionKept DEF history
  <2>14. ASSUME NEW d \in calls, d # c PROVE Founded(d)'
    <3>1. OfRunner(d) => d.run \in Runs /\ d.run # c.run
      BY <1>3, <2>14, NatTypes
         DEF ProductionInv, OnePerRun, CallsFounded, Founded, AtRun, OfRunner
    <3>2. d.kind = "finalize" => d.target \in Ops
      BY DEF ProductionInv, CallsFounded, Founded, OfOperation
    <3> QED BY <1>1, <2>6, <2>7, <2>9, <3>1, <3>2, FoundedKept
  <2>15. CallsFounded' /\ OnePerRun'
    BY <1>1, <2>14, CallEnds
  <2>16. TypeOK'
    BY <1>1, <2>2, <2>5, <2>7, <2>8, EndsType, NatTypes DEF ProductionInv, TypeOK, lane, history
  <2> QED BY <2>10, <2>11, <2>12, <2>13, <2>15, <2>16 DEF ProductionInv
<1> QED BY <1>4, <1>5

-----------------------------------------------------------------------------
(* The theorems.                                                           *)

LEMMA ProductionInit ==
  ASSUME Init
  PROVE  ProductionInv
<1>1. NoOp \in OpRow /\ NoRun \in RunRow
  BY Somebody, NatTypes DEF NoOp, NoRun, OpRow, RunRow, Statuses, Points
<1>2. /\ \A j \in Ops : ops[j] = NoOp /\ ops[j].status = "none"
      /\ \A r \in Runs : runs[r] = NoRun /\ runs[r].state = "unused"
  BY DEF Init, NoOp, NoRun
<1>3. Len(releases) = 1 /\ releases[1].op = None /\ Len(approvals) = 0
  BY DEF Init
<1>4. TypeOK
  <2>1. releases \in Seq([op : 0..MaxOps, content : 0..MaxStages])
    BY NatTypes DEF Init
  <2>2. staging \in [jobs : [Stages -> {"none", "active", "succeeded", "cancelled"}],
                     slot : 0..MaxStages, site : 0..MaxStages]
    BY NatTypes DEF Init
  <2>3. roles \in [People -> RoleNames]
    BY DEF Init, RoleNames
  <2>4. ops \in [Ops -> OpRow] /\ runs \in [Runs -> RunRow]
    BY <1>1 DEF Init
  <2>5. /\ approvals \in Seq([stage : Stages, decision : Decisions, base : 0..MaxOps])
        /\ deployments \in Seq(Runs) /\ main \in Seq(Ops)
    BY DEF Init
  <2>6. world \in Worlds /\ archived \in BOOLEAN /\ calls = {} /\ withdrawn = {}
        /\ slot \in 0..MaxOps /\ site \in 0..MaxOps /\ granted \in 0..MaxOps
    BY NatTypes DEF Init
  <2> QED BY <1>3, <2>1, <2>2, <2>3, <2>4, <2>5, <2>6 DEF TypeOK
<1>5. LaneInv
  BY <1>2 DEF Init, LaneInv, SlotTaken, HolderActive, OneOperation, Active
<1>6. RunInv
  BY <1>2 DEF Init, RunInv, RunsKnown, RunningClaimed, Deploying, SiteGranted, Started
<1>7. ReleaseInv
  BY <1>3 DEF Init, ReleaseInv, ReleasedDone, LiveIsReleased
<1>8. DecisionInv
  <2>1. \A c \in Stages : Latest(c) = None
    <3>1. ASSUME NEW c \in Stages PROVE {i \in 1..Len(approvals) : approvals[i].stage = c} = {}
      BY <1>3
    <3> QED BY <3>1 DEF Latest
  <2>2. LatestKnown
    BY <1>3, <2>1 DEF LatestKnown, None
  <2>3. AcceptedBefore /\ Superseded /\ WithdrawnStaysOut
    BY <1>2 DEF Init, AcceptedBefore, Superseded, WithdrawnStaysOut, Known
  <2> QED BY <2>2, <2>3 DEF DecisionInv
<1>9. CallsFounded /\ OnePerRun
  BY DEF Init, CallsFounded, OnePerRun
<1> QED BY <1>4, <1>5, <1>6, <1>7, <1>8, <1>9 DEF ProductionInv

LEMMA ProductionStep ==
  ASSUME ProductionInv, [Next]_vars
  PROVE  ProductionInv'
<1>1. ASSUME NEW c \in Stages, StageCapture(c) \/ StageDeploy(c) \/ StageEnd(c)
      PROVE  ProductionInv'
  BY <1>1, StageInv
<1>2. ASSUME NEW p \in world.people, OfPerson(p) PROVE ProductionInv'
  <2>1. p \in People
    BY ProductionAssumption DEF ProductionInv, TypeOK
  <2> QED BY <1>2, <2>1, BeginPromoteInv, BeginDecideInv, BeginRetryInv, BeginEndInv,
             BeginRollbackInv DEF OfPerson, Decisions
<1>3. ASSUME NEW p \in People, NEW role \in {"none", "publisher", "administrator"},
             BeginRole(p, role)
      PROVE  ProductionInv'
  BY <1>3, BeginRoleInv DEF RoleNames
<1>4. ASSUME NEW c \in calls, OfCall(c) PROVE ProductionInv'
  BY <1>4, DecideInv, PromoteInv, RetryInv, RollbackInv, DispatchInv, EndInv, GrantDeploymentInv,
     CompleteInv, WriteRoleInv, LoseInv DEF OfCall
<1>5. ASSUME NEW j \in Ops, OfOp(j) PROVE ProductionInv'
  BY <1>5, CancelInv, FreeInv, ReserveDispatchInv, CaptureVerificationInv, BeginCompleteInv,
     StartPublicationInv DEF OfOp
<1>6. ASSUME NEW r \in Runs, OfRun(r) PROVE ProductionInv'
  BY <1>6, ReserveRunInv, ClaimRunInv, CommitBuildInv, BeginAuthorizeInv, DeployInv,
     ReportDeploymentInv, EndRunInv DEF OfRun
<1>7. CASE Archive
  BY <1>7, ArchiveInv
<1>8. CASE UNCHANGED vars
  <2>1. TypeOK'
    BY <1>8 DEF ProductionInv, TypeOK, vars, lane, github, history
  <2> QED BY <1>8, <2>1, QuietStay DEF vars, lane, github, history, core
<1> QED BY <1>1, <1>2, <1>3, <1>4, <1>5, <1>6, <1>7, <1>8 DEF Next

LEMMA ProductionAlways == Spec => []ProductionInv
<1> QED BY ProductionInit, ProductionStep, PTL DEF Spec

\* Every table, every waiting handler and every run is as its columns say.
THEOREM ProductionTyped == Spec => []TypeOK
<1>1. ProductionInv => TypeOK
  BY DEF ProductionInv
<1> QED BY <1>1, ProductionAlways, PTL

\* Publications and rollbacks exclude each other, whichever handlers overlap.
THEOREM OneAtATime == Spec => []OneOperation
<1>1. ProductionInv => OneOperation
  BY DEF ProductionInv, LaneInv
<1> QED BY <1>1, ProductionAlways, PTL

\* A run that was told to deploy belongs to the operation that holds Production.
THEOREM OwnerDeploys == Spec => []OnlyOwnerDeploys
<1>1. ASSUME ProductionInv PROVE OnlyOwnerDeploys
  <2>1. ASSUME NEW r \in Runs, runs[r].state = "active", runs[r].at = "granted"
        PROVE  IF Publication(runs[r].op) THEN slot = runs[r].op ELSE Active(runs[r].op)
    <3>1. runs[r].op \in Ops /\ Active(runs[r].op)
      BY <1>1, <2>1, DeployingRun
    <3> QED BY <1>1, <3>1 DEF ProductionInv, LaneInv, HolderActive
  <2> QED BY <2>1 DEF OnlyOwnerDeploys
<1> QED BY <1>1, ProductionAlways, PTL

\* What visitors see is the newest release, until another deployment is authorized.
THEOREM ReleasedIsLive == Spec => []LiveIsReleased
<1>1. ProductionInv => LiveIsReleased
  BY DEF ProductionInv, ReleaseInv
<1> QED BY <1>1, ProductionAlways, PTL

\* An operation whose acceptance was superseded before it was authorized never goes out.
THEOREM SupersededStaysOut == Spec => []WithdrawnStaysOut
<1>1. ProductionInv => WithdrawnStaysOut
  BY DEF ProductionInv, DecisionInv
<1> QED BY <1>1, ProductionAlways, PTL

-----------------------------------------------------------------------------
(* A behaviour of Publishing is one of each part.                          *)

LEMMA VerificationBehaves == PublishingSpec => O!Spec
<1>1. PublishingInit => O!Init
  BY DEF PublishingInit
<1>2. [PublishingNext]_<<part, vars, verificationVars, uploadVars>> => [O!Next]_(O!vars)
  BY DEF PublishingNext, verificationVars, O!vars
<1> QED BY <1>1, <1>2, PTL DEF PublishingSpec, O!Spec

LEMMA UploadBehaves == PublishingSpec => U!Spec
<1>1. PublishingInit => U!Init
  BY DEF PublishingInit
<1>2. [PublishingNext]_<<part, vars, verificationVars, uploadVars>> => [U!Next]_(U!vars)
  BY DEF PublishingNext, uploadVars, U!vars
<1> QED BY <1>1, <1>2, PTL DEF PublishingSpec, U!Spec

\* An attempt to verify is retired only when no run works for it.
THEOREM RetiredAttemptsAreStopped == PublishingSpec => []RetiredIsStopped
<1>1. O!Spec => []O!RetiredIsStopped
  BY VerificationBounded, O!AttemptsAreStopped
<1> QED BY <1>1, VerificationBehaves, PTL DEF RetiredIsStopped

\* A request to verify has one answer, which its receipt keeps.
THEOREM RequestsGetOneAnswer == PublishingSpec => []OneAnswer
<1>1. O!Spec => []O!OneAnswer
  BY VerificationBounded, O!RequestsHaveOneAnswer
<1> QED BY <1>1, VerificationBehaves, PTL DEF OneAnswer

\* A publication is completed once, by a run that measured it.
THEOREM PublicationsCompleteOnce == PublishingSpec => []OneCompletion
<1>1. O!Spec => []O!OneCompletion
  BY VerificationBounded, O!CompletedOnce
<1> QED BY <1>1, VerificationBehaves, PTL DEF OneCompletion

\* Whatever happened to the attempts, the administrator is offered a next step.
THEOREM AStepIsOffered == PublishingSpec => []NextStepExists
<1>1. O!Spec => []O!NextStepExists
  BY VerificationBounded, O!StepIsOffered
<1> QED BY <1>1, VerificationBehaves, PTL DEF NextStepExists

\* What the builder put on main is recorded in a row of its own.
THEOREM UploadsAreRecorded == PublishingSpec => []PublishedIsRecorded
<1>1. U!Spec => []U!PublishedIsRecorded
  BY UploadBounded, U!MainIsRecorded
<1> QED BY <1>1, UploadBehaves, PTL DEF PublishedIsRecorded

\* A caller who is told that a publication went out finds it in main.
THEOREM UploadAnswersAreTrue == PublishingSpec => []AnsweredIsPublished
<1>1. U!Spec => []U!AnsweredIsPublished
  BY UploadBounded, U!AnswersArePublished
<1> QED BY <1>1, UploadBehaves, PTL DEF AnsweredIsPublished
=============================================================================
