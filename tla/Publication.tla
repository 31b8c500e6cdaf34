---------------------------- MODULE Publication ----------------------------
(***************************************************************************)
(* One publication lane of PointSite Builder (src/server/publish): the     *)
(* jobs that are captured for a destination, the slot that only one of     *)
(* them holds, the workflow runs that GitHub starts for it, and the        *)
(* destination itself - the main branch, the latest deployment record and  *)
(* the live site.  The two lanes run the same code; `world' says which     *)
(* lane a behaviour is in.                                                 *)
(*                                                                         *)
(* A transaction of the server is one action.  A handler that asks GitHub  *)
(* or the site between two transactions is a record in `calls', so that    *)
(* everything may happen before it goes on, and it may never go on.        *)
(* `jobs' joins the rows of publish_jobs, publication_runs, _retries and   *)
(* _verifications that belong to one job; the commit a job builds is       *)
(* called by the number of the job.                                        *)
(***************************************************************************)
EXTENDS Naturals, Sequences, FiniteSets

CONSTANTS
  MaxJobs,      \* bound: jobs ever captured
  MaxRuns,      \* bound: workflow runs GitHub ever starts
  MaxDispatch,  \* MAX_DISPATCH_ATTEMPTS
  MaxRetries,   \* captured retries in a row (3)
  Worlds        \* the lane, what may go wrong in it, and a bound on its concurrent
                \* handlers (those that continue a cancellation come on top)

ASSUME PublicationAssumption ==
  /\ MaxJobs \in Nat \ {0} /\ MaxRuns \in Nat
  /\ MaxDispatch \in Nat \ {0} /\ MaxRetries \in Nat
  /\ \A w \in Worlds : w.target \in {"staging", "production"} /\ w.calls \in Nat

VARIABLES
  world,     \* fixed: the lane's target, events and calls of this behaviour
  jobs,      \* the rows of each job
  slot,      \* table publication_slots: the job that holds the lane
  releases,  \* table publication_releases, oldest first
  allowed,   \* draft active, requester's role active, acceptance current
  calls,     \* handlers that wait for GitHub or the site
  gh,        \* the workflow runs at GitHub
  log,       \* the commits of the destination's main branch
  latest,    \* the run of the environment's latest deployment record
  site,      \* the build that is live
  granted    \* history: the job whose deployment was authorized last

server == <<jobs, slot, releases, granted>>
github == <<gh, log, latest, site>>
vars == <<world, server, allowed, calls, github>>

None == 0
Root == 0                 \* the commit that main begins with
Foreign == MaxJobs + 1    \* a commit that somebody else pushes
Jobs == 1..MaxJobs
Runs == 1..MaxRuns

\* A job without a row; base and parent are those of the job to insert.
NewJob(status, base, parent, attempt) ==
  [status |-> status, base |-> base, recorded |-> FALSE, pending |-> FALSE,
   parent |-> parent, attempt |-> attempt, count |-> 0, ready |-> TRUE,
   reserved |-> None, claimed |-> None,
   built |-> FALSE, granted |-> FALSE, reported |-> FALSE, verifying |-> FALSE]

Main == log[Len(log)]
Event(e) == e \in world.events
Active(j) == jobs[j].status \in {"queued", "running"}
Available == slot = None /\ \A j \in Jobs : ~ Active(j)
Fresh(j) == jobs[j].status = "none" /\ \A i \in 1..(j - 1) : jobs[i].status # "none"
Done(r) == r # None /\ gh[r].state = "completed"

\* COALESCE(result_sha, base_sha): where a retry of the job starts from
RetryBase(j) == IF jobs[j].recorded THEN j ELSE jobs[j].base

\* What verifyDeploymentProof finds at GitHub and on the live site.
Proof(j) == Main = j /\ latest = jobs[j].claimed /\ site = j

\* verifyRecoveryRevision: main is the commit, or adds to it only the verifier's own files.
Recoverable(j) ==
  \/ Main = j
  \/ Event("verifier") /\ Len(log) > 1 /\ Main = Foreign /\ log[Len(log) - 1] = j
\* (mutant) the verification trusts the records and does not look at the site.
RecordsProof(j) == Recoverable(j) /\ latest = jobs[j].claimed
VerifiedProof(j) == Recoverable(j) /\ latest = jobs[j].claimed /\ site = j

(***************************************************************************)
(* Handlers in flight.                                                     *)
(***************************************************************************)
NewCall(op, j, r, step, seen) == [op |-> op, job |-> j, run |-> r, step |-> step, seen |-> seen]
Begin(c) == c \notin calls /\ Cardinality(calls) < world.calls /\ calls' = calls \cup {c}
Ends(c) == calls' = calls \ {c}
Goes(c, step, seen) == calls' = (calls \ {c}) \cup {[c EXCEPT !.step = step, !.seen = seen]}
At(c, op, step) == c \in calls /\ c.op = op /\ c.step = step
Idle(r) == \A c \in calls : c.run # r

(***************************************************************************)
(* The life of the lane: capture, retry, decision.                         *)
(***************************************************************************)
BeginCapture ==
  /\ world.target = "staging" => Available
  /\ Begin(NewCall("capture", None, None, "create", Main))
  /\ UNCHANGED <<world, server, allowed, github>>

Retryable(j) ==
  /\ jobs[j].status = "cancelled" /\ ~ jobs[j].granted
  /\ allowed /\ jobs[j].attempt < MaxRetries
  /\ \A k \in Jobs : jobs[k].parent # j

BeginRetry(j) ==
  /\ Retryable(j) /\ Main = RetryBase(j)
  /\ Begin(NewCall("retry", j, None, "create", Main))
  /\ UNCHANGED <<world, server, allowed, github>>

\* Both kinds of job are inserted with their slot in one batch.
Create(c, k) ==
  /\ c \in calls /\ c.step = "create" /\ Fresh(k)
  /\ allowed /\ Available
  /\ c.op = "retry" => Retryable(c.job) /\ RetryBase(c.job) = c.seen
  /\ jobs' = [jobs EXCEPT ![k] =
       NewJob("queued", c.seen, c.job, IF c.op = "retry" THEN jobs[c.job].attempt + 1 ELSE 0)]
  /\ slot' = k
  /\ Ends(c)
  /\ UNCHANGED <<world, releases, granted, allowed, github>>

\* An acceptance decision on the Stage candidate gives the lane back.
Decide(j) ==
  /\ world.target = "staging" /\ jobs[j].status = "succeeded" /\ slot = j
  /\ slot' = None
  /\ UNCHANGED <<world, jobs, releases, granted, allowed, calls, github>>

(***************************************************************************)
(* Dispatch: a durable throttle, a look at main, and a POST that may be    *)
(* lost with or without effect.                                            *)
(***************************************************************************)
Eligible(j) ==
  /\ slot = j /\ jobs[j].status = "queued" /\ allowed
  /\ jobs[j].claimed = None /\ jobs[j].reserved = None

Throttle(j) == jobs[j].count < MaxDispatch /\ jobs[j].ready

ReserveDispatch(j) ==
  /\ Eligible(j) /\ Throttle(j)
  /\ Begin(NewCall("dispatch", j, None, "check", jobs[j].base))
  /\ jobs' = [jobs EXCEPT ![j].count = @ + 1, ![j].ready = FALSE]
  /\ UNCHANGED <<world, slot, releases, granted, allowed, github>>

CheckDispatch(c) ==
  /\ At(c, "dispatch", "check")
  /\ IF Main = c.seen /\ Eligible(c.job) THEN Goes(c, "post", c.seen) ELSE Ends(c)
  /\ UNCHANGED <<world, server, allowed, github>>

\* The run starts on whatever main is when GitHub takes the request.
PostDispatch(c, r) ==
  /\ At(c, "dispatch", "post") /\ gh[r].state = "unused"
  /\ \A q \in 1..(r - 1) : gh[q].state # "unused"
  /\ gh' = [gh EXCEPT ![r] = [state |-> "active", job |-> c.job, head |-> Main, at |-> "start"]]
  /\ Ends(c)
  /\ UNCHANGED <<world, server, allowed, log, latest, site>>

\* An operator renews the attempts of a job that nobody started.
RestartDispatch(j) ==
  /\ Eligible(j) /\ ~ jobs[j].recorded
  /\ jobs[j].count = MaxDispatch /\ jobs[j].ready
  /\ jobs' = [jobs EXCEPT ![j].count = 0]
  /\ UNCHANGED <<world, slot, releases, granted, allowed, calls, github>>

(***************************************************************************)
(* The signed runner.  Every transaction checks the lane again; a run that *)
(* does not hear the answer asks again.                                    *)
(***************************************************************************)
Authorized(j) == slot = j /\ allowed /\ ~ jobs[j].verifying

\* The token names the run and the commit that the run was dispatched on.
Authentic(r) ==
  LET j == gh[r].job IN
  gh[r].state = "active" /\ gh[r].head = jobs[j].base /\ jobs[j].reserved \in {None, r}

Bound(r) == jobs[gh[r].job].reserved = r /\ jobs[gh[r].job].claimed = r
\* (mutant) the run's own binding is all that is checked.
BoundOnly(r) == Bound(r)
Execute(r) ==
  LET j == gh[r].job IN Authorized(j) /\ jobs[j].status = "running" /\ Bound(r)
Finalizing(r) ==
  LET j == gh[r].job IN
  Authorized(j) /\ jobs[j].status \in {"running", "succeeded"} /\ Bound(r)

Asks(r, stage) == gh[r].state = "active" /\ gh[r].at = stage /\ Idle(r)
Hears(r, stage) == \E heard \in {TRUE, ~ Event("lose")} : gh' = [gh EXCEPT ![r].at = IF heard THEN stage ELSE @]
\* the answer of a handler that took several steps
Told(r, stage) == gh' = [gh EXCEPT ![r].at = IF gh[r].state = "active" THEN stage ELSE @]

\* A run that heard its reservation enters the deployment environment.
ReserveRun(r) ==
  LET j == gh[r].job IN
  /\ Asks(r, "start") /\ Authentic(r) /\ Authorized(j)
  /\ jobs[j].status = "queued" /\ jobs[j].claimed = None
  /\ jobs' = [jobs EXCEPT ![j].reserved = r]
  /\ Hears(r, "reserved")
  /\ latest' = IF gh'[r].at = "reserved" THEN r ELSE latest
  /\ UNCHANGED <<world, slot, releases, granted, allowed, calls, log, site>>

ClaimRun(r) ==
  LET j == gh[r].job IN
  /\ Asks(r, "reserved") /\ Authorized(j) /\ Active(j)
  /\ jobs[j].reserved = r /\ jobs[j].claimed \in {None, r}
  /\ jobs' = [jobs EXCEPT ![j].claimed = r, ![j].status = "running"]
  /\ Hears(r, "claimed")
  /\ UNCHANGED <<world, slot, releases, granted, allowed, calls, log, latest, site>>

AuthorizeBuild(r) ==
  /\ Asks(r, "claimed") /\ Execute(r)
  /\ jobs' = [jobs EXCEPT ![gh[r].job].built = TRUE]
  /\ Hears(r, "built")
  /\ UNCHANGED <<world, slot, releases, granted, allowed, calls, log, latest, site>>

BeginCommit(r) ==
  LET j == gh[r].job IN
  /\ Asks(r, "built") /\ Execute(r) /\ jobs[j].built
  /\ Begin(NewCall("commit", j, r, "read", jobs[j].base))
  /\ UNCHANGED <<world, server, allowed, github>>

ReadMain(c) ==
  /\ At(c, "commit", "read")
  /\ IF Execute(c.run) THEN Goes(c, "guard", Main) ELSE Ends(c)
  /\ UNCHANGED <<world, server, allowed, github>>

\* The last check before the write: authority, then what main was found to be.
GuardCommit(c) ==
  /\ At(c, "commit", "guard")
  /\ CASE Execute(c.run) /\ c.seen = c.job -> Goes(c, "record", c.seen)
       [] Execute(c.run) /\ c.seen = jobs[c.job].base -> Goes(c, "write", c.seen)
       [] OTHER -> Ends(c)
  /\ UNCHANGED <<world, server, allowed, github>>

\* (mutant) the ref is updated whatever it is.
Forced(c) == TRUE
Expected(c) == Main = c.seen

\* updateRefs with beforeOid; its acknowledgement may be lost, which reads main again.
WriteMain(c) ==
  /\ At(c, "commit", "write")
  /\ IF Expected(c)
       THEN /\ log' = Append(log, c.job)
            /\ \E step \in {"record"} \cup (IF Event("lose") THEN {"read"} ELSE {}) : Goes(c, step, c.job)
       ELSE Ends(c) /\ UNCHANGED log
  /\ UNCHANGED <<world, server, allowed, gh, latest, site>>

\* The effect is recorded whatever happened to the job meanwhile.
RecordCommit(c) ==
  /\ At(c, "commit", "record")
  /\ jobs' = [jobs EXCEPT ![c.job].recorded = TRUE]
  /\ Told(c.run, "committed")
  /\ Ends(c)
  /\ UNCHANGED <<world, slot, releases, granted, allowed, log, latest, site>>

BeginAuthorize(r) ==
  LET j == gh[r].job IN
  /\ Asks(r, "committed") /\ Execute(r) /\ jobs[j].recorded /\ Main = j
  /\ Begin(NewCall("authorize", j, r, "grant", j))
  /\ UNCHANGED <<world, server, allowed, github>>

GrantDeployment(c) ==
  /\ At(c, "authorize", "grant")
  /\ IF Execute(c.run)
       THEN /\ jobs' = [jobs EXCEPT ![c.job].granted = TRUE]
            /\ granted' = c.job
            /\ Told(c.run, "granted")
       ELSE UNCHANGED <<jobs, granted, gh>>
  /\ Ends(c)
  /\ UNCHANGED <<world, slot, releases, allowed, log, latest, site>>

\* The deployment itself, by a run that was told it may.
Deploy(r) ==
  /\ Asks(r, "granted")
  /\ site' = gh[r].job
  /\ gh' = [gh EXCEPT ![r].at = "deployed"]
  /\ UNCHANGED <<world, server, allowed, calls, log, latest>>

ReportDeployment(r) ==
  LET j == gh[r].job IN
  /\ Asks(r, "deployed") /\ Execute(r) /\ jobs[j].granted /\ jobs[j].recorded
  /\ jobs' = [jobs EXCEPT ![j].reported = TRUE]
  /\ Hears(r, "reported")
  /\ UNCHANGED <<world, slot, releases, granted, allowed, calls, log, latest, site>>

(***************************************************************************)
(* Completion: by the run's own verifying check, by an operator who shows  *)
(* that the stopped run had finished, or by a verification run.            *)
(***************************************************************************)
BeginFinalize(r) ==
  LET j == gh[r].job IN
  /\ Asks(r, "reported") /\ Finalizing(r)
  /\ jobs[j].granted /\ jobs[j].recorded /\ jobs[j].reported
  /\ Proof(j)
  /\ Begin(NewCall("finalize", j, r, "finish", j))
  /\ UNCHANGED <<world, server, allowed, github>>

\* reconcileCompletedPublication
Completable(j) ==
  /\ slot = j /\ jobs[j].status = "running"
  /\ jobs[j].granted /\ jobs[j].reported /\ jobs[j].recorded

BeginComplete(j) ==
  /\ Completable(j) /\ Done(jobs[j].claimed) /\ Proof(j)
  /\ Begin(NewCall("complete", j, None, "finish", j))
  /\ UNCHANGED <<world, server, allowed, github>>

\* A verification of the output fences the runner from then on.
Verifiable(j) ==
  /\ slot = j /\ jobs[j].status = "running" /\ jobs[j].granted /\ jobs[j].recorded

CaptureVerification(j) ==
  /\ Verifiable(j) /\ ~ jobs[j].verifying
  /\ Done(jobs[j].claimed) /\ Recoverable(j) /\ latest = jobs[j].claimed
  /\ jobs' = [jobs EXCEPT ![j].verifying = TRUE]
  /\ UNCHANGED <<world, slot, releases, granted, allowed, calls, github>>

BeginVerify(j) ==
  /\ Verifiable(j) /\ jobs[j].verifying /\ Done(jobs[j].claimed) /\ VerifiedProof(j)
  /\ Begin(NewCall("verify", j, None, "finish", j))
  /\ UNCHANGED <<world, server, allowed, github>>

MayFinish(c) ==
  CASE c.op = "finalize" -> Finalizing(c.run)
    [] c.op = "complete" -> Completable(c.job)
    [] c.op = "verify" -> Verifiable(c.job)

\* (mutant) the release is inserted before the job is marked as succeeded.
ReleasesBefore(j) ==
  IF world.target = "production" /\ jobs[j].status = "succeeded"
    THEN Append(releases, j) ELSE releases

\* verifiedReleaseStatement, after the job has succeeded in the same batch.
ReleasesWith(j) ==
  IF world.target = "production" /\ jobs'[j].status = "succeeded"
     /\ \A i \in 1..Len(releases) : releases[i] # j
    THEN Append(releases, j) ELSE releases

\* Production gives its slot back at once, Staging after the decision.
Finish(c) ==
  LET j == c.job  production == world.target = "production" IN
  /\ c \in calls /\ c.step = "finish"
  /\ IF MayFinish(c)
       THEN /\ jobs' = [jobs EXCEPT ![j].status = "succeeded",
                                    ![j].reported = @ \/ c.op = "verify"]
            /\ releases' = ReleasesWith(j)
            /\ slot' = IF production THEN None ELSE slot
            /\ IF c.op = "finalize" THEN Told(c.run, "finalized") ELSE UNCHANGED gh
       ELSE UNCHANGED <<jobs, releases, slot, gh>>
  /\ Ends(c)
  /\ UNCHANGED <<world, granted, allowed, log, latest, site>>

(***************************************************************************)
(* Cancellation and the reconciliation of a stopped run.                   *)
(***************************************************************************)
\* (mutant) only the dispatches of the current round count.
StartedByCount(j) == jobs[j].count > 0
Started(j) == jobs[j].count > 0 \/ jobs[j].reserved # None

Cancel(j) ==
  /\ slot = j /\ ~ jobs[j].granted
  /\ Active(j) \/ (jobs[j].status = "cancelled" /\ jobs[j].pending)
  /\ jobs' = [jobs EXCEPT ![j].status = "cancelled", ![j].pending = Started(j), ![j].ready = TRUE]
  /\ slot' = IF Started(j) THEN slot ELSE None
  /\ UNCHANGED <<world, releases, granted, allowed, calls, github>>

Reconcile(j) ==
  /\ slot = j /\ Active(j) /\ ~ jobs[j].granted /\ Done(jobs[j].reserved)
  /\ jobs' = [jobs EXCEPT ![j].status = "cancelled", ![j].pending = FALSE]
  /\ slot' = None
  /\ UNCHANGED <<world, releases, granted, allowed, calls, github>>

\* (mutant) the requester of the publication still has to be authorized.
CancellingAllowed(j) ==
  slot = j /\ jobs[j].status = "cancelled" /\ ~ jobs[j].granted /\ allowed
Cancelling(j) == slot = j /\ jobs[j].status = "cancelled" /\ ~ jobs[j].granted

\* The scheduler, or the request that cancelled, once a minute.
BeginContinue(j) ==
  /\ Cancelling(j) /\ jobs[j].pending /\ jobs[j].ready
  /\ jobs' = [jobs EXCEPT ![j].ready = FALSE]
  /\ calls' = calls \cup {NewCall("continue", j, None, "list", jobs[j].base)}
  /\ UNCHANGED <<world, slot, releases, granted, allowed, github>>

\* The listing has the runs on the job's revision; those of the job by title.
Listed(j) == {r \in Runs : gh[r].state # "unused" /\ gh[r].head = jobs[j].base}
Titled(j) == {r \in Listed(j) : gh[r].job = j} \cup ({jobs[j].reserved} \ {None})

\* Runs of the job that are not over are asked to stop, and the slot stays.
ListRuns(c) ==
  LET ids == Titled(c.job) IN
  /\ At(c, "continue", "list")
  /\ IF \A r \in Listed(c.job) \cup ids : Done(r)
       THEN Goes(c, IF ids = {} THEN "settle unidentified" ELSE "settle", c.seen)
       ELSE Ends(c)
  /\ UNCHANGED <<world, server, allowed, github>>

Untouched(j) ==
  /\ jobs[j].reserved = None /\ jobs[j].claimed = None
  /\ ~ jobs[j].built /\ ~ jobs[j].reported /\ ~ jobs[j].recorded

Settle(c) ==
  LET j == c.job IN
  /\ c \in calls /\ c.step \in {"settle", "settle unidentified"}
  /\ IF Cancelling(j) /\ (c.step = "settle unidentified" => Untouched(j))
       THEN jobs' = [jobs EXCEPT ![j].pending = FALSE] /\ slot' = None
       ELSE UNCHANGED <<jobs, slot>>
  /\ Ends(c)
  /\ UNCHANGED <<world, releases, granted, allowed, github>>

(***************************************************************************)
(* The surroundings.                                                       *)
(***************************************************************************)
\* The backoff of a job passes.
Elapse(j) ==
  /\ jobs[j].status # "none" /\ ~ jobs[j].ready
  /\ jobs' = [jobs EXCEPT ![j].ready = TRUE]
  /\ UNCHANGED <<world, slot, releases, granted, allowed, calls, github>>

\* A run ends: it failed, was stopped, or had nothing more to do.
EndRun(r) ==
  /\ gh[r].state = "active"
  /\ gh' = [gh EXCEPT ![r].state = "completed"]
  /\ UNCHANGED <<world, server, allowed, calls, log, latest, site>>

\* A handler dies with its process, or GitHub does not answer it.  In such a world an
\* answer to a run or an acknowledgement of GitHub may be lost as well.
Lose(c) ==
  /\ Event("lose") /\ Ends(c)
  /\ UNCHANGED <<world, server, allowed, github>>

\* Somebody archives the draft, revokes the acceptance or takes the role, or undoes it.
Allow ==
  /\ Event("revoke") /\ allowed' = ~ allowed
  /\ UNCHANGED <<world, server, calls, github>>

\* A commit from elsewhere; Event("verifier") says whether it touches the verifier only.
Push ==
  /\ Event("push") \/ Event("verifier")
  /\ \A i \in 1..Len(log) : log[i] # Foreign
  /\ log' = Append(log, Foreign)
  /\ UNCHANGED <<world, server, allowed, calls, gh, latest, site>>

Init ==
  /\ world \in Worlds
  /\ jobs = [j \in Jobs |-> NewJob("none", Root, None, 0)]
  /\ slot = None /\ releases = <<>> /\ granted = None
  /\ allowed = TRUE /\ calls = {}
  /\ gh = [r \in Runs |-> [state |-> "unused", job |-> None, head |-> Root, at |-> "start"]]
  /\ log = <<Root>> /\ latest = None /\ site = None

OfJob(j) ==
  \/ BeginRetry(j) \/ Decide(j) \/ ReserveDispatch(j) \/ RestartDispatch(j)
  \/ BeginComplete(j) \/ CaptureVerification(j) \/ BeginVerify(j)
  \/ Cancel(j) \/ Reconcile(j) \/ BeginContinue(j) \/ Elapse(j)
OfRun(r) ==
  \/ ReserveRun(r) \/ ClaimRun(r) \/ AuthorizeBuild(r) \/ BeginCommit(r)
  \/ BeginAuthorize(r) \/ Deploy(r) \/ ReportDeployment(r) \/ BeginFinalize(r)
  \/ EndRun(r)
OfCall(c) ==
  \/ \E k \in Jobs : Create(c, k)
  \/ CheckDispatch(c) \/ \E r \in Runs : PostDispatch(c, r)
  \/ ReadMain(c) \/ GuardCommit(c) \/ WriteMain(c) \/ RecordCommit(c)
  \/ GrantDeployment(c) \/ Finish(c) \/ ListRuns(c) \/ Settle(c) \/ Lose(c)

Next ==
  \/ BeginCapture \/ Allow \/ Push
  \/ \E j \in Jobs : OfJob(j)
  \/ \E r \in Runs : OfRun(r)
  \/ \E c \in calls : OfCall(c)

Spec == Init /\ [][Next]_vars

(***************************************************************************)
(* What the code's scheduling justifies: a backoff passes, GitHub ends a   *)
(* run in the end (timeout-minutes of the workflow), the scheduler of the  *)
(* host looks for cancellations once a minute, and GitHub does not leave   *)
(* every listing unanswered.  Nothing else is assumed to happen.           *)
(***************************************************************************)
ListOf(j) == \E c \in calls : c.job = j /\ ListRuns(c)
SettleOf(j) == \E c \in calls : c.job = j /\ Settle(c)
Fairness ==
  /\ \A j \in Jobs : /\ WF_vars(Elapse(j)) /\ WF_vars(BeginContinue(j))
                     /\ SF_vars(ListOf(j)) /\ SF_vars(SettleOf(j))
  /\ \A r \in Runs : WF_vars(EndRun(r))
FairSpec == Spec /\ Fairness

(***************************************************************************)
(* Properties.                                                             *)
(***************************************************************************)
\* A cancelled publication never reaches the public: no deployment of it is authorized,
\* live or released, however its runner's requests race the cancellation
\* (runner.ts authorizeDeployment against recovery.ts cancel).
CancelledStaysOut ==
  \A j \in Jobs : jobs[j].status = "cancelled" =>
    /\ ~ jobs[j].granted /\ site # j
    /\ \A i \in 1..Len(releases) : releases[i] # j

\* The lane of a cancelled publication is given to the next one only when the run that
\* reserved it is over at GitHub (recovery.ts 226-232, cancellation.ts 158-183).
FreedMeansStopped ==
  \A j \in Jobs :
    jobs[j].status = "cancelled" /\ slot # j /\ jobs[j].reserved # None =>
      gh[jobs[j].reserved].state = "completed"

\* A publication that is recorded as succeeded is what visitors see until the deployment
\* of another one is authorized: no orphan run replaces the site behind the record.
LiveIsReviewed ==
  \A j \in Jobs : jobs[j].status = "succeeded" /\ granted = j => site = j

\* Production's release history: every success once, in the order of their commits on main
\* (releases.ts verifiedReleaseStatement, in each of the three completions).
Position(j) == CHOOSE i \in 1..Len(log) : log[i] = j
ReleaseHistory ==
  world.target = "production" =>
    /\ \A j \in Jobs : jobs[j].status = "succeeded" <=> \E i \in 1..Len(releases) : releases[i] = j
    /\ \A i, k \in 1..Len(releases) : i < k =>
         releases[i] # releases[k] /\ Position(releases[i]) < Position(releases[k])

\* No publication overwrites a commit it did not start from: each commit of a job directly
\* follows the base the job captured, and is there once; a recorded one is there
\* (build-proof.ts 254-346, updateRefs with beforeOid and its lost acknowledgements).
HistoryLinear ==
  /\ \A i \in 2..Len(log) : log[i] \in Jobs =>
       /\ log[i - 1] = jobs[log[i]].base
       /\ \A k \in 1..Len(log) : log[k] = log[i] => k = i
  /\ \A j \in Jobs : jobs[j].recorded => \E i \in 1..Len(log) : log[i] = j

\* A cancellation ends: the lane of a publication that is being cancelled becomes free,
\* though runs of it are active and the provider fails to answer at times
\* (dispatchPendingPublication and continueCancellation).
CancellationSettles ==
  \A j \in Jobs : (jobs[j].status = "cancelled" /\ jobs[j].pending) ~> slot # j
=============================================================================
