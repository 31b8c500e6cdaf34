--------------------------- MODULE StagingUpload ---------------------------
(***************************************************************************)
(* Publication to Staging by the builder itself (protocol 1, still used     *)
(* where no publication workflow is configured): StagingPublisher of        *)
(* src/server/publish/service.ts, D1PublishJobStore of jobs.ts,             *)
(* D1PublishPreflightStore and GitHubStagingClient.advanceCommit.           *)
(*                                                                         *)
(* A request uploads a part of the files and ends; it is sent again until   *)
(* main points to the commit.  A step of a job belongs to a token for two   *)
(* minutes, the job to its lease for fifteen.  A handler may die at any     *)
(* point, and its requests to GitHub may arrive although the answer does    *)
(* not.                                                                     *)
(*                                                                         *)
(* The commit of a job has a fixed author and date: creating it again gives *)
(* the same one, so it is named by its job.  0 is the commit main began at, *)
(* and a commit of somebody else is Foreign.                                *)
(***************************************************************************)
EXTENDS Naturals, Sequences, FiniteSets

CONSTANTS
  MaxJobs,   \* bound: rows of publish_jobs
  MaxTime,   \* bound: the clock
  Lease,     \* a lease, in the time of a step (15 minutes, and a step has 2)
  Worlds     \* keys and events of a behaviour, its uploads (twenty files each), and bounds on
             \* handlers at a time and on preflights

VARIABLES
  world,       \* fixed: see Worlds
  now,         \* the clock
  draft,       \* its latest revision, and whether it is active
  preflights,  \* table publish_preflights, oldest first
  jobs,        \* table publish_jobs, oldest first
  main,        \* commits of Staging's main, oldest first
  handlers,    \* requests at work
  answered     \* history: jobs whose success was reported or accepted

vars == <<world, now, draft, preflights, jobs, main, handlers, answered>>

\* What the bounds have to be; the module that chooses them assumes it.
UploadAssumption ==
  /\ MaxJobs \in Nat /\ Lease \in Nat /\ \A w \in Worlds : w.calls \in Nat

None == 0
Foreign == MaxJobs + 1
Event(e) == e \in world.events
Rows == DOMAIN jobs
Tip == main[Len(main)]
History == {main[i] : i \in DOMAIN main}
Active(j) == jobs[j].status \in {"queued", "running"}
LeaseLive(j) == jobs[j].lease > now
Keep == UNCHANGED <<world, now, draft, preflights, main>>
KeepRows == UNCHANGED <<preflights, jobs, answered>>

\* `activeCandidate': the draft is active and still at the captured revision
ActiveCandidate(r) == draft = [rev |-> r, active |-> TRUE]
Known(r) == preflights # <<>> /\ preflights[Len(preflights)].rev = r
            /\ preflights[Len(preflights)].passed

Waits(h) == h \notin handlers /\ Cardinality(handlers) < world.calls /\ handlers' = handlers \cup {h}
Ends(h) == handlers' = handlers \ {h}
To(h, g) == handlers' = (handlers \ {h}) \cup {g}
Goes(h, stage) == To(h, [h EXCEPT !.at = stage])
Request(stage, k, r, b) ==
  [at |-> stage, key |-> k, rev |-> r, base |-> b, job |-> None, token |-> None,
   parts |-> 0, commit |-> FALSE]

\* The runtime stops the handler: its finally block does not run.
Lose(h) ==
  /\ Event("lose") /\ Ends(h) /\ Keep /\ UNCHANGED <<jobs, answered>>

-----------------------------------------------------------------------------
(* preflight: the candidate is built and its result kept under the request's key. *)

\* recordPassed and recordFailed: a key has one row, and one result
Record(k, r, ok) ==
  IF \E i \in DOMAIN preflights : preflights[i].key = k THEN UNCHANGED preflights
  ELSE preflights' = Append(preflights, [key |-> k, rev |-> r, passed |-> ok])

\* A request about another revision than the latest fails the latest.
BeginCheck(k, r) ==
  /\ draft.active /\ ~ (Known(r) /\ r = draft.rev) /\ Len(preflights) < world.checks
  /\ IF r = draft.rev THEN Waits(Request("check", k, r, None)) /\ UNCHANGED preflights
     ELSE Record(k, draft.rev, FALSE) /\ UNCHANGED handlers
  /\ UNCHANGED <<world, now, draft, main, jobs, answered>>

\* The draft is read again after the build.
Check(h, built) ==
  /\ h \in handlers /\ h.at = "check" /\ Len(preflights) < world.checks
  /\ Record(h.key, h.rev, built /\ ActiveCandidate(h.rev))
  /\ Ends(h) /\ UNCHANGED <<world, now, draft, main, jobs, answered>>

-----------------------------------------------------------------------------
(* publish and continuePublication. *)

BeginPublish(k, r, b) ==
  /\ ActiveCandidate(r) /\ Known(r) /\ (b = Tip \/ Event("stale"))
  /\ Waits(Request("look", k, r, b))
  /\ Keep /\ UNCHANGED <<jobs, answered>>

BeginContinue(j) ==
  /\ Event("continue") /\ Waits([Request("continue", None, jobs[j].rev, jobs[j].base) EXCEPT !.job = j])
  /\ Keep /\ UNCHANGED <<jobs, answered>>

OfKey(k) == {j \in Rows : jobs[j].key = k}
Same(j, h) == jobs[j].rev = h.rev /\ jobs[j].base = h.base
Alike(h) == {j \in Rows : Same(j, h)}
Reusable(h) == {j \in Alike(h) : jobs[j].status = "succeeded" /\ \A i \in Alike(h) : i <= j}
Busy == \E j \in Rows : Active(j) /\ LeaseLive(j)
Uploaded(j) == jobs[j].parts > 0 \/ jobs[j].commit
Answers(h, j) == answered' = answered \cup {j} /\ Ends(h)

\* A new upload: the lane is free, and nothing was published from the same commit already.
Afresh(h) ==
  IF Busy THEN Ends(h) /\ UNCHANGED answered
  ELSE IF Reusable(h) # {} THEN \E j \in Reusable(h) : Answers(h, j)
  ELSE Goes(h, "base") /\ UNCHANGED answered
\* The request was made before, with the same candidate.
Again(h, j) ==
  IF jobs[j].status = "succeeded" THEN Answers(h, j)
  ELSE IF Active(j) /\ LeaseLive(j)
    THEN To(h, [h EXCEPT !.at = "continue", !.job = j]) /\ UNCHANGED answered
  ELSE IF Uploaded(j) THEN To(h, [h EXCEPT !.at = "claim", !.job = j]) /\ UNCHANGED answered
  ELSE Afresh(h)

Look(h) ==
  /\ h \in handlers /\ h.at = "look"
  /\ IF OfKey(h.key) = {} THEN Afresh(h)
     ELSE \E j \in OfKey(h.key) :
            IF Same(j, h) THEN Again(h, j) ELSE Ends(h) /\ UNCHANGED answered
  /\ Keep /\ UNCHANGED jobs

\* main and, after the candidate was built again, the draft; a draft that has changed is
\* kept as a failed preflight.
Base(h) ==
  /\ h \in handlers /\ h.at = "base"
  /\ IF Tip = h.base /\ ActiveCandidate(h.rev) THEN Goes(h, "claim") ELSE Ends(h)
  /\ preflights' = IF Tip = h.base /\ ~ ActiveCandidate(h.rev) /\ Len(preflights) < world.checks
                     THEN Append(preflights, [key |-> None, rev |-> h.rev, passed |-> FALSE])
                     ELSE preflights
  /\ UNCHANGED <<world, now, draft, main, jobs, answered>>

-----------------------------------------------------------------------------
(* claim. *)

\* What it reads first; a job at work or done is left as it is.
Claim(h) ==
  /\ h \in handlers /\ h.at = "claim"
  /\ IF OfKey(h.key) = {} THEN To(h, [h EXCEPT !.at = "recover", !.job = None])
     ELSE \E j \in OfKey(h.key) :
       IF ~ Same(j, h) THEN Ends(h)
       ELSE IF jobs[j].status = "succeeded" \/ (Active(j) /\ LeaseLive(j))
         THEN To(h, [h EXCEPT !.at = "continue", !.job = j])
       ELSE To(h, [h EXCEPT !.at = "recover", !.job = j])
  /\ Keep /\ UNCHANGED <<jobs, answered>>

\* recoverExpiredLease: at most one row is active, and it is cancelled when its lease is over
Recover(h) ==
  /\ h \in handlers /\ h.at = "recover" /\ Goes(h, "write")
  /\ jobs' = [j \in Rows |-> IF Active(j) /\ ~ LeaseLive(j)
                               THEN [jobs[j] EXCEPT !.status = "cancelled", !.lease = 0]
                               ELSE jobs[j]]
  /\ Keep /\ UNCHANGED answered

\* create, with the unique indexes on the key and on the active row of an environment
CanCreate(h) ==
  OfKey(h.key) = {} /\ (\A j \in Rows : ~ Active(j)) /\ ActiveCandidate(h.rev)
NewJob(h) ==
  [key |-> h.key, rev |-> h.rev, base |-> h.base, status |-> "queued", lease |-> now + Lease,
   token |-> None, until |-> 0, parts |-> 0, commit |-> FALSE,
   evidence |-> "none"]
Starts(j, r) == ActiveCandidate(r) /\ \A i \in Rows : Active(i) => i = j
Run(j) == jobs' = [jobs EXCEPT ![j].status = "running", ![j].lease = now + Lease]

Write(h) ==
  /\ h \in handlers /\ h.at = "write"
  /\ IF h.job = None
       THEN IF CanCreate(h)
         THEN /\ Len(jobs) < MaxJobs /\ jobs' = Append(jobs, NewJob(h))
              /\ To(h, [h EXCEPT !.at = "mark", !.job = Len(jobs) + 1])
         ELSE Ends(h) /\ UNCHANGED jobs
       ELSE IF jobs[h.job].status \in {"failed", "cancelled"} /\ Starts(h.job, h.rev)
         THEN Run(h.job) /\ Goes(h, "continue")
         ELSE Ends(h) /\ UNCHANGED jobs
  /\ Keep /\ UNCHANGED answered

\* markRunning
Mark(h) ==
  /\ h \in handlers /\ h.at = "mark"
  /\ IF jobs[h.job].status \in {"queued", "failed", "cancelled"} /\ Starts(h.job, h.rev)
       THEN Run(h.job) /\ Goes(h, "advance") ELSE Ends(h) /\ UNCHANGED jobs
  /\ Keep /\ UNCHANGED answered

-----------------------------------------------------------------------------
(* advance: one step of the job. *)

Continue(h) ==
  /\ h \in handlers /\ h.at = "continue"
  /\ IF jobs[h.job].status = "succeeded" THEN Answers(h, h.job)
     ELSE Goes(h, "advance") /\ UNCHANGED answered
  /\ Keep /\ UNCHANGED jobs

\* A draft that has changed fails the job, whoever is at work on it.
Advance(h) ==
  /\ h \in handlers /\ h.at = "advance"
  /\ IF ActiveCandidate(h.rev) THEN Goes(h, "acquire") /\ UNCHANGED jobs
     ELSE /\ Ends(h)
          /\ jobs' = IF jobs[h.job].status = "running"
                       THEN [jobs EXCEPT ![h.job].status = "failed", ![h.job].lease = 0] ELSE jobs
  /\ Keep /\ UNCHANGED answered

\* A token is new: nobody remembers it.
Fresh == CHOOSE t \in 1..(MaxJobs + world.calls + 1) :
           (\A h \in handlers : h.token # t) /\ \A j \in Rows : jobs[j].token # t
MayStep(j) ==
  /\ jobs[j].status = "running" /\ LeaseLive(j) /\ ActiveCandidate(jobs[j].rev)
  /\ jobs[j].token = None \/ jobs[j].until <= now

\* acquireStep, and the progress that it reads back
Acquire(h) ==
  /\ h \in handlers /\ h.at = "acquire"
  /\ IF MayStep(h.job)
       THEN /\ jobs' = [jobs EXCEPT ![h.job].token = Fresh, ![h.job].until = now + 1,
                                    ![h.job].lease = now + Lease]
            /\ To(h, [h EXCEPT !.at = "prepare", !.token = Fresh, !.parts = jobs[h.job].parts,
                               !.commit = jobs[h.job].commit])
       ELSE Ends(h) /\ UNCHANGED jobs
  /\ Keep /\ UNCHANGED answered

\* (mutant) whoever works on the job may go on
GuardOfJob(h) ==
  /\ jobs[h.job].status = "running" /\ LeaseLive(h.job) /\ ActiveCandidate(jobs[h.job].rev)
\* guardStep
Guard(h) ==
  /\ jobs[h.job].status = "running" /\ LeaseLive(h.job) /\ ActiveCandidate(jobs[h.job].rev)
  /\ jobs[h.job].token = h.token /\ jobs[h.job].until > now

\* (mutant) a commit that was recorded counts as published
RecordedIsDone(h) == h.commit
\* main is the commit that an earlier request recorded: its answer was lost
Done(h) == h.commit /\ Tip = h.job

\* The renderer and the candidate are checked, which may fail, and the step is still held.
Prepare(h) ==
  /\ h \in handlers /\ h.at = "prepare"
  /\ \/ Guard(h) /\ Goes(h, "observe")
     \/ Goes(h, "fail")
  /\ Keep /\ UNCHANGED <<jobs, answered>>

\* advanceCommit: main, then the next files; a request to GitHub may fail.
Observe(h) ==
  /\ h \in handlers /\ h.at = "observe"
  /\ \/ Done(h) /\ Goes(h, "done")
     \/ /\ ~ Done(h) /\ Tip = h.base
        /\ To(h, [h EXCEPT !.at = "checkpoint", !.parts = IF @ < world.parts THEN @ + 1 ELSE @])
     \/ Goes(h, "fail")
  /\ Keep /\ UNCHANGED <<jobs, answered>>

Saves(h) == jobs' = [jobs EXCEPT ![h.job].parts = h.parts, ![h.job].commit = h.commit]

\* The progress is written as a whole; an unfinished upload ends the request.
Checkpoint(h) ==
  /\ h \in handlers /\ h.at = "checkpoint"
  /\ IF Guard(h)
       THEN /\ Saves(h)
            /\ Goes(h, IF h.parts < world.parts THEN "release" ELSE IF h.commit THEN "patch" ELSE "commit")
       ELSE Goes(h, "fail") /\ UNCHANGED jobs
  /\ Keep /\ UNCHANGED answered

\* The commit exists at GitHub, and is recorded before main is pointed to it.
RecordCommit(h) ==
  LET g == [h EXCEPT !.at = "patch", !.commit = TRUE] IN
  /\ h \in handlers /\ h.at = "commit"
  /\ \/ Guard(h) /\ Saves(g) /\ To(h, g)
     \/ Goes(h, "fail") /\ UNCHANGED jobs
  /\ Keep /\ UNCHANGED answered

\* The last guard before main, or before an answer about it.
Pass(h) ==
  /\ h \in handlers /\ h.at \in {"patch", "done"}
  /\ IF Guard(h) THEN Goes(h, IF h.at = "patch" THEN "push" ELSE "succeed") ELSE Goes(h, "fail")
  /\ Keep /\ UNCHANGED <<jobs, answered>>

\* PATCH without force: only a fast-forward; the answer may be lost.
Patch(h) ==
  /\ h \in handlers /\ h.at = "push"
  /\ IF Tip = h.base
       THEN main' = Append(main, h.job) /\ (Goes(h, "succeed") \/ Goes(h, "fail"))
       ELSE UNCHANGED main /\ Goes(h, IF Tip = h.job THEN "succeed" ELSE "fail")
  /\ UNCHANGED <<world, now, draft, preflights, jobs, answered>>

\* The row is only changed while it is running; the answer is given in any case.
Succeed(h) ==
  /\ h \in handlers /\ h.at = "succeed" /\ Goes(h, "release")
  /\ jobs' = IF jobs[h.job].status = "running"
               THEN [jobs EXCEPT ![h.job].status = "succeeded", ![h.job].lease = 0] ELSE jobs
  /\ answered' = answered \cup {h.job} /\ Keep

FailStep(h) ==
  /\ h \in handlers /\ h.at = "fail" /\ Goes(h, "release")
  /\ jobs' = IF jobs[h.job].status = "running" /\ jobs[h.job].token = h.token
               THEN [jobs EXCEPT ![h.job].status = "failed", ![h.job].lease = 0] ELSE jobs
  /\ Keep /\ UNCHANGED answered

ReleaseStep(h) ==
  /\ h \in handlers /\ h.at = "release" /\ Ends(h)
  /\ jobs' = IF jobs[h.job].token = h.token
               THEN [jobs EXCEPT ![h.job].token = None, ![h.job].until = 0] ELSE jobs
  /\ Keep /\ UNCHANGED answered

-----------------------------------------------------------------------------
(* Verification of a job that succeeded, and the acceptance of it. *)

\* What the latest checks of its commit say, which may be run again at any time.
BeginRefresh(j, seen) ==
  /\ Event("verify") /\ jobs[j].status = "succeeded"
  /\ Waits([Request("record", seen, None, None) EXCEPT !.job = j])
  /\ Keep /\ UNCHANGED <<jobs, answered>>

\* The result is written although another refresh may have seen a later one.
RecordVerification(h) ==
  /\ h \in handlers /\ h.at = "record" /\ Ends(h)
  /\ jobs' = IF jobs[h.job].status = "succeeded" THEN [jobs EXCEPT ![h.job].evidence = h.key]
             ELSE jobs
  /\ Keep /\ UNCHANGED answered

\* record, of approvals/service.ts: the evidence is kept with the decision
Accept(j) ==
  /\ Event("verify") /\ jobs[j].status = "succeeded" /\ jobs[j].evidence = "passed"
  /\ answered' = answered \cup {j}
  /\ Keep /\ UNCHANGED <<jobs, handlers>>

-----------------------------------------------------------------------------
(* What happens around. *)

Around == UNCHANGED <<world, preflights, jobs, handlers, answered>>
Tick == now < MaxTime /\ now' = now + 1 /\ Around /\ UNCHANGED <<draft, main>>
Save == Event("save") /\ draft.rev = 1 /\ draft.active /\ draft' = [draft EXCEPT !.rev = 2]
        /\ Around /\ UNCHANGED <<now, main>>
Archive == Event("archive") /\ draft' = [draft EXCEPT !.active = ~ @] /\ Around /\ UNCHANGED <<now, main>>
Push == Event("push") /\ Foreign \notin History /\ main' = Append(main, Foreign)
        /\ Around /\ UNCHANGED <<now, draft>>

Init ==
  /\ world \in Worlds /\ now = 0 /\ draft = [rev |-> 1, active |-> TRUE]
  /\ preflights = <<>> /\ jobs = <<>> /\ main = <<0>> /\ handlers = {} /\ answered = {}

Step(h) ==
  \/ Lose(h) \/ Look(h) \/ Base(h) \/ Claim(h) \/ Recover(h) \/ Write(h) \/ Mark(h)
  \/ Continue(h) \/ Advance(h) \/ Acquire(h) \/ Prepare(h) \/ Observe(h) \/ Checkpoint(h)
  \/ RecordCommit(h) \/ RecordVerification(h) \/ Pass(h) \/ Patch(h) \/ Succeed(h) \/ FailStep(h) \/ ReleaseStep(h)
  \/ \E built \in BOOLEAN : Check(h, built)

Next ==
  \/ \E k \in world.keys, r \in 1..2 :
       BeginCheck(k, r) \/ \E b \in History : BeginPublish(k, r, b)
  \/ \E j \in DOMAIN jobs :
       \/ BeginContinue(j) \/ Accept(j)
       \/ \E seen \in {"pending", "failed", "passed"} : BeginRefresh(j, seen)
  \/ \E h \in handlers : Step(h)
  \/ Tick \/ Save \/ Archive \/ Push

Spec == Init /\ [][Next]_vars

-----------------------------------------------------------------------------
(* Properties. *)

\* A commit of the builder on main is named by the row of its job, also after its request
\* died, lost the answer of GitHub, or was overtaken by another one after its step or its
\* lease had ended: the request that is sent again recognises it (github/client.ts,
\* "safely repeatable").
PublishedIsRecorded ==
  \A j \in History \cap Rows : jobs[j].commit

\* Whoever is told that a publication succeeded, or accepts it, can find its commit on main,
\* and so can everybody who asks for that publication later.
AnsweredIsPublished ==
  answered \cup {j \in Rows : jobs[j].status = "succeeded"} \subseteq History
=============================================================================
