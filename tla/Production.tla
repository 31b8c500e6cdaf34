----------------------------- MODULE Production -----------------------------
(***************************************************************************)
(* Production of PointSite Builder: acceptance of what Staging shows       *)
(* (src/server/approvals), promotion of an accepted candidate and rollback *)
(* to an earlier release (src/server/publish: promotion, retry, rollback), *)
(* and the roles that authorize each step (src/server/admin).              *)
(*                                                                         *)
(* Publications and rollbacks are two tables, two sets of handlers and two *)
(* workflows that must not be at work at the same time.  Publication.tla   *)
(* looks inside one lane; here a lane's throttle, lost answers and commit  *)
(* protocol are one step each, and the Staging lane is a status for each   *)
(* candidate, so that the composition of the three can be followed.        *)
(*                                                                         *)
(* A handler that looks at GitHub or at a site between two transactions is *)
(* a record in `calls'.  An operation is a row of publish_jobs with those  *)
(* that belong to it, or a row of publication_rollbacks; the commit and    *)
(* the deployed bytes of an operation are called by its number.            *)
(***************************************************************************)
EXTENDS Naturals, Sequences, FiniteSets

CONSTANTS
  People,        \* who may decide, promote and roll back
  MaxStages,     \* bound: candidates ever published to Staging
  MaxOps,        \* bound: operations on Production
  MaxRuns,       \* bound: workflow runs GitHub ever starts for Production
  MaxDispatch,   \* dispatches of a rollback (6)
  MaxRetries,    \* captured retries in a row (3)
  Worlds         \* who works on publications, what may happen beside promotions, and bounds
                 \* on the handlers that wait at a time, candidates, operations and decisions

\* There is somebody to work for, and who works on publications may be authorized.
ASSUME ProductionAssumption ==
  /\ People # {} /\ \A w \in Worlds : w.people \subseteq People
  /\ MaxStages \in Nat /\ MaxOps \in Nat /\ MaxRuns \in Nat

VARIABLES
  world,        \* fixed: the events and the handlers of this behaviour
  roles,        \* table user_roles, active roles only
  archived,     \* the draft of the candidates is archived
  staging,      \* the Staging lane: its jobs, its slot and its live site
  approvals,    \* table approvals, oldest first
  ops,          \* publications to Production, and rollbacks
  slot,         \* publication_slots of Production
  releases,     \* table publication_releases, oldest first
  calls,        \* handlers that wait for GitHub or a site
  runs,         \* workflow runs at GitHub
  deployments,  \* deployment records of the environment, by run
  main,         \* commits on Production's main branch
  site,         \* the operation whose bytes Production shows
  granted,      \* history: the operation whose deployment was authorized last
  withdrawn     \* history: operations whose acceptance was superseded before that

lane == <<archived, staging>>
github == <<runs, deployments, main, site>>
history == <<granted, withdrawn>>
vars == <<world, roles, lane, approvals, ops, slot, releases, calls, github, history>>

None == 0
Stages == 1..MaxStages
Ops == 1..MaxOps
Runs == 1..MaxRuns

NoOp == [kind |-> "publication", status |-> "none", by |-> CHOOSE p \in People : TRUE,
         stage |-> None, approval |-> None, parent |-> None, attempt |-> 0, base |-> None,
         source |-> None, previous |-> None, deployment |-> 0, count |-> 0,
         reserved |-> None, claimed |-> None, recorded |-> FALSE,
         granted |-> FALSE, reported |-> FALSE, verifying |-> FALSE]
NoRun == [state |-> "unused", op |-> None, head |-> None, at |-> "start"]

Event(e) == e \in world.events
Administrator(p) == roles[p] = "administrator"
Publisher(p) == roles[p] \in {"publisher", "administrator"}
Main == IF main = <<>> THEN None ELSE main[Len(main)]
Active(j) == ops[j].status \in {"queued", "running"}
Publication(j) == ops[j].kind = "publication"
Idle(kind) == \A j \in Ops : ops[j].kind = kind => ~ Active(j)
Fresh(j) == j =< world.ops /\ ops[j].status = "none" /\ \A i \in 1..(j - 1) : ops[i].status # "none"
Done(r) == r # None /\ runs[r].state = "completed"
RetryBase(j) == IF ops[j].recorded THEN j ELSE ops[j].base

\* The latest decision on a candidate is the one that counts.
Latest(c) ==
  LET of == {i \in 1..Len(approvals) : approvals[i].stage = c}
  IN  IF of = {} THEN None ELSE CHOOSE i \in of : \A k \in of : k =< i
Accepted(c) == Latest(c) # None /\ approvals[Latest(c)].decision = "approved"

\* currentPromotion: the acceptance is the latest one, and for this base or the parent's.
\* (mutant) any acceptance of the candidate will do
AnyPromotion(j) == approvals[ops[j].approval].decision = "approved"
CurrentPromotion(j) ==
  LET a == ops[j].approval  parent == ops[j].parent IN
  /\ approvals[a].decision = "approved" /\ a = Latest(ops[j].stage)
  /\ IF parent = None THEN approvals[a].base = ops[j].base ELSE ops[parent].approval = a

-----------------------------------------------------------------------------
(* Handlers in flight. *)

Call(kind, p, target) ==
  [kind |-> kind, by |-> p, target |-> target, decision |-> "approved", seen |-> None,
   base |-> Main, deployment |-> Len(deployments), replace |-> None, run |-> None]
Begin(c) == c \notin calls /\ Cardinality(calls) < world.calls /\ calls' = calls \cup {c}
Ends(c) == calls' = calls \ {c}
Lane == <<world, roles, lane, approvals, ops, slot, releases, history>>

\* The handler dies, or what it asks for does not answer.
Lose(c) == Event("lose") /\ Ends(c) /\ UNCHANGED <<Lane, github>>

-----------------------------------------------------------------------------
(* The Staging lane, as Publication.tla shows it to behave. *)

StagingFree == staging.slot = None /\ \A c \in Stages : staging.jobs[c] # "active"

StageCapture(c) ==
  /\ c =< world.stages /\ staging.jobs[c] = "none" /\ \A i \in 1..(c - 1) : staging.jobs[i] # "none"
  /\ StagingFree /\ ~ archived
  /\ staging' = [staging EXCEPT !.jobs[c] = "active", !.slot = c]
  /\ UNCHANGED <<world, roles, archived, approvals, ops, slot, releases, calls, github, history>>

StageDeploy(c) ==
  /\ staging.jobs[c] = "active" /\ ~ archived
  /\ staging' = [staging EXCEPT !.site = c]
  /\ UNCHANGED <<world, roles, archived, approvals, ops, slot, releases, calls, github, history>>

\* A finished candidate keeps the lane until it is decided; a cancelled one gives it back.
StageEnd(c) ==
  /\ staging.jobs[c] = "active"
  /\ staging' = IF staging.site = c THEN [staging EXCEPT !.jobs[c] = "succeeded"]
                ELSE [staging EXCEPT !.jobs[c] = "cancelled", !.slot = None]
  /\ UNCHANGED <<world, roles, archived, approvals, ops, slot, releases, calls, github, history>>

-----------------------------------------------------------------------------
(* Decisions: recordCloud compares the live site and Production's base with  *)
(* the tuple that was reviewed, and inserts under a guard.                   *)

BeginDecide(p, c, d) ==
  /\ Publisher(p) /\ staging.jobs[c] = "succeeded" /\ Len(approvals) < world.decisions
  /\ d = "approved" => staging.site = c
  /\ d = "revoked" => Latest(c) # None
  /\ Begin([Call("decide", p, c) EXCEPT !.decision = d, !.seen = Latest(c)])
  /\ UNCHANGED <<Lane, github>>

MayDecide(c) ==
  /\ Publisher(c.by) /\ Latest(c.target) = c.seen
  /\ c.decision = "approved" =>
       /\ staging.slot \in {None, c.target}
       /\ \A o \in Stages \ {c.target} : staging.jobs[o] # "active"

Decide(c) ==
  /\ c \in calls /\ c.kind = "decide"
  /\ IF MayDecide(c) /\ Len(approvals) < world.decisions
       THEN /\ approvals' = Append(approvals,
                 [stage |-> c.target, decision |-> c.decision, base |-> c.base])
            /\ staging' = [staging EXCEPT !.slot = IF @ = c.target THEN None ELSE @]
            /\ withdrawn' = withdrawn \cup
                 {j \in Ops : Publication(j) /\ ops[j].stage = c.target /\ ~ ops[j].granted
                              /\ ops[j].status # "none"}
       ELSE UNCHANGED <<approvals, staging, withdrawn>>
  /\ Ends(c)
  /\ UNCHANGED <<world, roles, archived, ops, slot, releases, github, granted>>

-----------------------------------------------------------------------------
(* Promotion, and the captured retry of a cancelled one. *)

BeginPromote(p, c) ==
  /\ Administrator(p) /\ Accepted(c) /\ ~ archived
  /\ approvals[Latest(c)].base = Main /\ staging.site = c
  /\ Begin([Call("promote", p, c) EXCEPT !.seen = Latest(c)])
  /\ UNCHANGED <<Lane, github>>

Retryable(j) ==
  /\ Publication(j) /\ ops[j].status = "cancelled" /\ ~ ops[j].granted /\ ~ archived
  /\ CurrentPromotion(j) /\ ops[j].attempt < MaxRetries
  /\ \A k \in Ops : ops[k].parent # j

BeginRetry(p, j) ==
  /\ Event("retry") /\ Administrator(p) /\ Retryable(j)
  /\ Main = RetryBase(j) /\ staging.site = ops[j].stage
  /\ Begin(Call("retry", p, j))
  /\ UNCHANGED <<Lane, github>>

\* publication_rollback_exclusive and publication_rollback_slot abort the batch while a
\* rollback is active.
\* (mutant) the capture looks at its own lane only
OwnLaneFree == slot = None /\ Idle("publication")
ProductionFree == slot = None /\ Idle("publication") /\ Idle("rollback")

Insert(j, op) ==
  /\ Fresh(j)
  /\ ops' = [ops EXCEPT ![j] = op]
  /\ slot' = j

\* Without room for the operation, or with its guard refused, the handler only ends.
Promote(c) ==
  /\ c \in calls /\ c.kind = "promote"
  /\ IF Administrator(c.by) /\ ~ archived /\ Latest(c.target) = c.seen /\ ProductionFree
       THEN \E j \in Ops : Insert(j, [NoOp EXCEPT !.status = "queued", !.by = c.by,
              !.stage = c.target, !.approval = c.seen, !.base = approvals[c.seen].base])
       ELSE UNCHANGED <<ops, slot>>
  /\ Ends(c)
  /\ UNCHANGED <<world, roles, lane, approvals, releases, github, history>>

Retry(c) ==
  LET parent == ops[c.target] IN
  /\ c \in calls /\ c.kind = "retry"
  /\ IF Administrator(c.by) /\ Retryable(c.target) /\ RetryBase(c.target) = c.base /\ ProductionFree
       THEN \E j \in Ops : Insert(j, [NoOp EXCEPT !.status = "queued", !.by = c.by,
              !.stage = parent.stage, !.approval = parent.approval, !.base = c.base,
              !.parent = c.target, !.attempt = parent.attempt + 1])
       ELSE UNCHANGED <<ops, slot>>
  /\ Ends(c)
  /\ UNCHANGED <<world, roles, lane, approvals, releases, github, history>>

\* Ended by an administrator before its deployment is authorized; the lane is given back
\* when none of its runs is left.
Cancel(j) ==
  /\ Event("cancel") /\ Publication(j) /\ Active(j) /\ slot = j /\ ~ ops[j].granted
  /\ ops' = [ops EXCEPT ![j].status = "cancelled"]
  /\ UNCHANGED <<world, roles, lane, approvals, slot, releases, calls, github, history>>

Free(j) ==
  /\ Publication(j) /\ ops[j].status = "cancelled" /\ slot = j /\ ~ ops[j].granted
  /\ \A r \in Runs : runs[r].op = j => Done(r)
  /\ slot' = None
  /\ UNCHANGED <<world, roles, lane, approvals, ops, releases, calls, github, history>>

-----------------------------------------------------------------------------
(* Rollback: the bytes of an earlier release are deployed again, on a main   *)
(* branch that does not move.  It may replace a publication that stopped.    *)

\* nativeState: main, and the latest deployment, whose job has ended.
Ended(r) == runs[r].state = "completed" \/ runs[r].at \in {"reported", "finalized"}
Native(base, n) ==
  Main = base /\ Len(deployments) = n /\ (n > 0 => Ended(deployments[n]))
NativeExecution(base, n, r) ==
  Main = base /\ Len(deployments) = n + 1 /\ deployments[n + 1] = r

Stopped(j) == ops[j].reserved # None /\ Done(ops[j].reserved)
Replaceable(j) ==
  slot = j /\ Active(j) /\ ops[j].reserved # None /\ ~ ops[j].verifying

BeginRollback(p, s) ==
  /\ Event("rollback") /\ Administrator(p) /\ s \in 1..Len(releases)
  /\ Native(Main, Len(deployments))
  /\ slot # None => Replaceable(slot) /\ Stopped(slot)
  /\ Begin([Call("rollback", p, s) EXCEPT !.seen = Len(releases), !.replace = slot,
              !.run = IF slot = None THEN None ELSE ops[slot].reserved])
  /\ UNCHANGED <<Lane, github>>

\* The second look at the publication that is replaced, and the capture trigger after it.
StillReplaced(c) ==
  c.replace # None =>
    slot = c.replace /\ ops[c.replace].reserved = c.run /\ ~ ops[c.replace].verifying
CaptureAllowed(c) ==
  /\ c.replace = None => slot = None
  /\ \A j \in Ops : Active(j) => j = c.replace
  /\ Administrator(c.by) /\ Len(releases) = c.seen

Rollback(c) ==
  /\ c \in calls /\ c.kind = "rollback"
  /\ IF Administrator(c.by) /\ StillReplaced(c) /\ CaptureAllowed(c)
       THEN \E j \in Ops :
              /\ Fresh(j)
              /\ slot' = IF c.replace = None THEN slot ELSE None
              /\ ops' = [i \in Ops |->
                   CASE i = j -> [NoOp EXCEPT !.kind = "rollback", !.status = "queued", !.by = c.by,
                          !.base = c.base, !.deployment = c.deployment,
                          !.source = releases[c.target].content, !.previous = c.seen]
                     [] i = c.replace -> [ops[i] EXCEPT !.status = "cancelled"]
                     [] OTHER -> ops[i]]
       ELSE UNCHANGED <<ops, slot>>
  /\ Ends(c)
  /\ UNCHANGED <<world, roles, lane, approvals, releases, github, history>>

\* A dispatch is counted before GitHub is asked, and checked again before the POST.
ReserveDispatch(j) ==
  /\ ~ Publication(j) /\ ops[j].status = "queued" /\ ops[j].reserved = None
  /\ Administrator(ops[j].by) /\ ops[j].count < MaxDispatch
  /\ Begin([Call("dispatch", ops[j].by, j) EXCEPT !.base = ops[j].base])
  /\ ops' = [ops EXCEPT ![j].count = @ + 1]
  /\ UNCHANGED <<world, roles, lane, approvals, slot, releases, github, history>>

Starts(j, r) ==
  /\ runs[r].state = "unused" /\ \A q \in 1..(r - 1) : runs[q].state # "unused"
  /\ runs' = [runs EXCEPT ![r] = [state |-> "active", op |-> j, head |-> Main, at |-> "start"]]
  /\ UNCHANGED <<deployments, main, site>>

Dispatch(c) ==
  LET j == c.target IN
  /\ c \in calls /\ c.kind = "dispatch"
  /\ IF /\ Native(ops[j].base, ops[j].deployment)
        /\ Administrator(ops[j].by) /\ ops[j].status = "queued" /\ ops[j].reserved = None
       THEN \E r \in Runs : Starts(j, r)
       ELSE UNCHANGED github
  /\ Ends(c)
  /\ UNCHANGED Lane

\* recover: a rollback is ended once the run that reserved it is over.
\* (mutant) the run is not looked at
Unchecked(j) == TRUE
Terminal(j) == ops[j].reserved = None \/ Done(ops[j].reserved)

BeginEnd(p, j) ==
  /\ Event("cancel") /\ ~ Publication(j) /\ Active(j) /\ Administrator(p) /\ Terminal(j)
  /\ Begin([Call("end", p, j) EXCEPT !.run = ops[j].reserved, !.seen = ops[j].count,
              !.decision = ops[j].status])
  /\ UNCHANGED <<Lane, github>>

Unchanged(c) ==
  /\ ops[c.target].status = c.decision /\ ops[c.target].reserved = c.run
  /\ ops[c.target].count = c.seen /\ Administrator(c.by)

End(c) ==
  /\ c \in calls /\ c.kind = "end"
  /\ ops' = IF Unchanged(c) THEN [ops EXCEPT ![c.target].status = "cancelled"] ELSE ops
  /\ Ends(c)
  /\ UNCHANGED <<world, roles, lane, approvals, slot, releases, github, history>>

-----------------------------------------------------------------------------
(* The signed runners of both workflows. *)

RollbackAuthorized(j) == Administrator(ops[j].by) /\ ops[j].previous = Len(releases)
Authorized(j) ==
  IF Publication(j)
    THEN /\ slot = j /\ Administrator(ops[j].by) /\ ~ archived /\ ~ ops[j].verifying
         /\ CurrentPromotion(j)
    ELSE RollbackAuthorized(j)

Asks(r, stage) == runs[r].state = "active" /\ runs[r].at = stage /\ \A c \in calls : c.run # r
Hears(r, stage) == runs' = [runs EXCEPT ![r].at = stage]
Bound(r) == ops[runs[r].op].reserved = r /\ ops[runs[r].op].claimed = r
Execute(r) == Authorized(runs[r].op) /\ ops[runs[r].op].status = "running" /\ Bound(r)

\* A publication's run, started by its lane's dispatch.
StartPublication(j, r) ==
  /\ Publication(j) /\ ops[j].status = "queued" /\ ops[j].reserved = None /\ Authorized(j)
  /\ Starts(j, r)
  /\ UNCHANGED <<Lane, calls>>

\* The run reserves the operation, and enters the deployment environment.
ReserveRun(r) ==
  LET j == runs[r].op IN
  /\ Asks(r, "start") /\ runs[r].head = ops[j].base
  /\ ops[j].status = "queued" /\ ops[j].claimed = None /\ ops[j].reserved \in {None, r}
  /\ IF Publication(j) THEN Authorized(j)
     ELSE Administrator(ops[j].by) /\ Native(ops[j].base, ops[j].deployment)
  /\ ops' = [ops EXCEPT ![j].reserved = r]
  /\ Hears(r, "reserved")
  /\ deployments' = Append(deployments, r)
  /\ UNCHANGED <<world, roles, lane, approvals, slot, releases, calls, main, site, history>>

ClaimRun(r) ==
  LET j == runs[r].op IN
  /\ Asks(r, "reserved") /\ Authorized(j) /\ Active(j)
  /\ ops[j].reserved = r /\ ops[j].claimed \in {None, r}
  /\ ops' = [ops EXCEPT ![j].claimed = r, ![j].status = "running"]
  /\ Hears(r, IF Publication(j) THEN "claimed" ELSE "committed")
  /\ UNCHANGED <<world, roles, lane, approvals, slot, releases, calls, deployments, main, site, history>>

\* The build is committed on the base that was accepted (Publication.tla has the protocol).
CommitBuild(r) ==
  LET j == runs[r].op IN
  /\ Asks(r, "claimed") /\ Execute(r) /\ Main = ops[j].base
  /\ main' = Append(main, j)
  /\ ops' = [ops EXCEPT ![j].recorded = TRUE]
  /\ Hears(r, "committed")
  /\ UNCHANGED <<world, roles, lane, approvals, slot, releases, calls, deployments, site, history>>

BeginAuthorize(r) ==
  LET j == runs[r].op IN
  /\ Asks(r, "committed") /\ Execute(r)
  /\ IF Publication(j) THEN ops[j].recorded /\ Main = j
     ELSE NativeExecution(ops[j].base, ops[j].deployment, r)
  /\ Begin([Call("grant", ops[j].by, j) EXCEPT !.run = r])
  /\ UNCHANGED <<Lane, github>>

GrantDeployment(c) ==
  /\ c \in calls /\ c.kind = "grant"
  /\ IF Execute(c.run)
       THEN /\ ops' = [ops EXCEPT ![c.target].granted = TRUE]
            /\ granted' = c.target
            /\ runs' = [runs EXCEPT ![c.run].at = IF runs[c.run].state = "active" THEN "granted" ELSE @]
       ELSE UNCHANGED <<ops, granted, runs>>
  /\ Ends(c)
  /\ UNCHANGED <<world, roles, lane, approvals, slot, releases, deployments, main, site, withdrawn>>

\* The deployment itself asks nobody.
Deploy(r) ==
  /\ Asks(r, "granted")
  /\ site' = runs[r].op
  /\ Hears(r, "deployed")
  /\ UNCHANGED <<Lane, calls, deployments, main>>

ReportDeployment(r) ==
  LET j == runs[r].op IN
  /\ Asks(r, "deployed") /\ Execute(r) /\ ops[j].granted
  /\ ops' = [ops EXCEPT ![j].reported = TRUE]
  /\ Hears(r, "reported")
  /\ UNCHANGED <<world, roles, lane, approvals, slot, releases, calls, deployments, main, site, history>>

EndRun(r) ==
  /\ runs[r].state = "active"
  /\ runs' = [runs EXCEPT ![r].state = "completed"]
  /\ UNCHANGED <<Lane, calls, deployments, main, site>>

-----------------------------------------------------------------------------
(* Completion: by the run's own check, by an operator once the run is over,  *)
(* and for a publication by a verification that fences the runner.           *)

\* What verifyDeploymentProof finds at GitHub and on the live site.
Recorded(j) ==
  /\ Main = IF Publication(j) THEN j ELSE ops[j].base
  /\ deployments # <<>> /\ deployments[Len(deployments)] = ops[j].claimed
\* (mutant) GitHub's records are taken for what the site shows
RecordsProof(j) == Recorded(j)
Proof(j) == Recorded(j) /\ site = j

Verifiable(j) ==
  /\ Publication(j) /\ slot = j /\ ops[j].status = "running"
  /\ ops[j].granted /\ ops[j].recorded

CaptureVerification(j) ==
  /\ Event("verify") /\ Verifiable(j) /\ ~ ops[j].verifying /\ Done(ops[j].claimed)
  /\ ops' = [ops EXCEPT ![j].verifying = TRUE]
  /\ UNCHANGED <<world, roles, lane, approvals, slot, releases, calls, github, history>>

\* What each way of completing asks of the operation, before the proof and with it.
Completable(kind, j) ==
  /\ ops[j].status = "running" /\ ops[j].granted
  /\ CASE kind = "finalize" -> Authorized(j) /\ ops[j].reported
       [] kind = "verify" -> Verifiable(j) /\ ops[j].verifying /\ Done(ops[j].claimed)
       [] kind = "complete" ->
            /\ ops[j].reported /\ Done(ops[j].claimed)
            /\ IF Publication(j) THEN slot = j ELSE RollbackAuthorized(j)

BeginComplete(kind, j) ==
  LET r == ops[j].claimed IN
  /\ ops[j].status = "running" /\ Completable(kind, j)
  /\ kind = "finalize" => Asks(r, "reported")
  /\ Proof(j)
  /\ Begin([Call(kind, ops[j].by, j) EXCEPT !.run = IF kind = "finalize" THEN r ELSE None])
  /\ UNCHANGED <<Lane, github>>

\* One batch: the operation succeeds, its release is appended, Production is given back.
Complete(c) ==
  LET j == c.target IN
  /\ c \in calls /\ c.kind \in {"finalize", "verify", "complete"}
  /\ IF Completable(c.kind, j)
       THEN /\ ops' = [ops EXCEPT ![j].status = "succeeded"]
            /\ releases' = Append(releases,
                 [op |-> j, content |-> IF Publication(j) THEN ops[j].stage ELSE ops[j].source])
            /\ slot' = IF slot = j THEN None ELSE slot
            /\ runs' = [r \in Runs |-> IF r = c.run /\ runs[r].state = "active"
                                         THEN [runs[r] EXCEPT !.at = "finalized"] ELSE runs[r]]
       ELSE UNCHANGED <<ops, releases, slot, runs>>
  /\ Ends(c)
  /\ UNCHANGED <<world, roles, lane, approvals, deployments, main, site, history>>

-----------------------------------------------------------------------------
(* Authority changes under all of them. *)

\* upsertRole counts the other administrators, and then writes without looking again.
OthersLeft(p) == \E q \in People \ {p} : Administrator(q)

BeginRole(p, role) ==
  /\ Event("role") /\ role # roles[p]
  /\ role = "administrator" \/ ~ Administrator(p) \/ OthersLeft(p)
  /\ Begin([Call("role", p, None) EXCEPT !.decision = role])
  /\ UNCHANGED <<Lane, github>>

WriteRole(c) ==
  /\ c \in calls /\ c.kind = "role"
  /\ roles' = [roles EXCEPT ![c.by] = c.decision]
  /\ Ends(c)
  /\ UNCHANGED <<world, lane, approvals, ops, slot, releases, github, history>>

Archive ==
  /\ Event("archive") /\ archived' = ~ archived
  /\ UNCHANGED <<world, roles, staging, approvals, ops, slot, releases, calls, github, history>>

Init ==
  /\ world \in Worlds
  /\ roles = [p \in People |-> "administrator"] /\ archived = FALSE
  /\ staging = [jobs |-> [c \in Stages |-> "none"], slot |-> None, site |-> None]
  /\ approvals = <<>> /\ ops = [j \in Ops |-> NoOp] /\ slot = None
  /\ releases = <<[op |-> None, content |-> None]>>
  /\ calls = {} /\ runs = [r \in Runs |-> NoRun] /\ deployments = <<>>
  /\ main = <<>> /\ site = None /\ granted = None /\ withdrawn = {}

OfPerson(p) ==
  \/ \E c \in Stages : BeginPromote(p, c)
                       \/ \E d \in {"approved", "rejected", "revoked"} : BeginDecide(p, c, d)
  \/ \E j \in Ops : BeginRetry(p, j) \/ BeginEnd(p, j)
  \/ \E s \in 1..Len(releases) : BeginRollback(p, s)
OfCall(c) ==
  \/ Decide(c) \/ Promote(c) \/ Retry(c) \/ Rollback(c) \/ Dispatch(c) \/ End(c)
  \/ GrantDeployment(c) \/ Complete(c) \/ WriteRole(c) \/ Lose(c)
OfOp(j) ==
  \/ Cancel(j) \/ Free(j) \/ ReserveDispatch(j) \/ CaptureVerification(j)
  \/ \E kind \in {"finalize", "verify", "complete"} : BeginComplete(kind, j)
  \/ \E r \in Runs : StartPublication(j, r)
OfRun(r) ==
  \/ ReserveRun(r) \/ ClaimRun(r) \/ CommitBuild(r) \/ BeginAuthorize(r)
  \/ Deploy(r) \/ ReportDeployment(r) \/ EndRun(r)

Next ==
  \/ \E c \in Stages : StageCapture(c) \/ StageDeploy(c) \/ StageEnd(c)
  \/ \E p \in world.people : OfPerson(p)
  \/ \E p \in People, role \in {"none", "publisher", "administrator"} : BeginRole(p, role)
  \/ \E c \in calls : OfCall(c)
  \/ \E j \in Ops : OfOp(j)
  \/ \E r \in Runs : OfRun(r)
  \/ Archive

Spec == Init /\ [][Next]_vars

-----------------------------------------------------------------------------
(* Properties. *)

\* Publications and rollbacks exclude each other: one operation on Production is active at
\* a time, though their captures are guarded in two tables by two services and the
\* triggers of migration 0034 (promotion.ts capture against rollback.ts capture).
OneOperation == \A i, j \in Ops : Active(i) /\ Active(j) => i = j

\* A run that was told to deploy asks nobody again; it therefore belongs to the operation
\* that holds Production, also when that one was replaced, cancelled or completed by others
\* meanwhile (verifyTerminalRun in rollback.ts capture and recover).
OnlyOwnerDeploys ==
  \A r \in Runs : runs[r].state = "active" /\ runs[r].at = "granted" =>
    LET j == runs[r].op IN IF Publication(j) THEN slot = j ELSE Active(j)

\* The newest release is what visitors see, until the deployment of another operation is
\* authorized (releases.ts, rollback.ts complete, reconcile.ts, verification.ts complete).
LiveIsReleased ==
  LET last == releases[Len(releases)].op IN last = granted => site = granted

\* An acceptance that is revoked, rejected or replaced before the deployment it allowed was
\* authorized never goes out with that operation (currentPromotion at each runner step).
WithdrawnStaysOut ==
  \A j \in withdrawn : ~ ops[j].granted /\ site # j

\* Somebody can always administer roles and Production
\* (admin/service.ts: "At least one active administrator is required").
AdministratorRemains == \E p \in People : Administrator(p)
=============================================================================
