---------------------------- MODULE PublishPanel ----------------------------
(***************************************************************************)
(* The Staging panel of the editor (src/client/publish): what it shows of   *)
(* a draft's publication, the reads behind it (usePublicationStatus.ts),    *)
(* the phases and offers it derives (workflow.ts) and the requests of its   *)
(* buttons (StagingPublish.tsx), for captured publications.                 *)
(*                                                                         *)
(* The server is modelled as far as the panel can tell: a lane of           *)
(* publications that proceed by themselves, and decisions about them.       *)
(* Reads are answered late or fail; the answer to a request may be lost,    *)
(* and the request may arrive when its panel has given it up.               *)
(***************************************************************************)
EXTENDS Naturals, Sequences, FiniteSets

CONSTANTS
  MaxJobs,  \* bound: publications
  MaxKeys,  \* bound: keys of requests
  MaxRuns,  \* bound: times the panel is opened
  MaxDecisions, \* bound: acceptances and revocations
  Worlds    \* what happens beside, and the buttons that are used

VARIABLES
  world,      \* fixed: see Worlds
  jobs,       \* publications of the drafts, oldest first
  live,       \* the publication that Staging's main shows, or none
  checked,    \* drafts with a private check of their latest revision
  decisions,  \* acceptances and revocations, oldest first
  revs,       \* latest saved revision of each draft
  reads,      \* status reads on their way
  posts,      \* requests on their way
  panel       \* the panel

vars == <<world, jobs, live, checked, decisions, revs, reads, posts, panel>>
server == <<world, jobs, live, checked, decisions, revs>>

None == 0
Event(e) == e \in world.events
Latest(S) == IF S = {} THEN None ELSE CHOOSE i \in S : \A j \in S : j <= i
JobOf(d) == Latest({n \in DOMAIN jobs : jobs[n].draft = d})
Ongoing == {"queued", "attention", "running", "deploying", "cancelling"}
Busy == \E n \in DOMAIN jobs : jobs[n].status \in Ongoing
DecisionOn(n) == Latest({i \in DOMAIN decisions : decisions[i].job = n})
Approved(i) == i # None /\ decisions[i].kind = "approved"

\* workflowForDraft, and the approval that its route adds
Snapshot(d) ==
  LET n == JobOf(d) IN
  [draft |-> d, job |-> n, live |-> live, busy |-> Busy,
   checked |-> IF d \in checked THEN revs[d] ELSE None,
   rev |-> IF n = None THEN None ELSE jobs[n].rev,
   status |-> IF n = None THEN "none" ELSE jobs[n].status,
   approval |-> DecisionOn(n), approved |-> Approved(DecisionOn(n))]

NotRead(status) ==
  [draft |-> None, job |-> None, live |-> None, busy |-> FALSE, checked |-> None, rev |-> None,
   status |-> status, approval |-> None, approved |-> FALSE]
Loading == NotRead("loading")
Unavailable == NotRead("unavailable")
NoPost ==
  [kind |-> "none", key |-> None, draft |-> None, rev |-> None, base |-> None, job |-> None,
   approval |-> None]
Idle == [kind |-> "none", stage |-> "idle", snap |-> Loading, post |-> NoPost]
NoRequest == [scope |-> <<>>, key |-> None]
Closed ==
  [draft |-> None, run |-> None, pending |-> FALSE, expired |-> FALSE, shown |-> Loading,
   stale |-> FALSE, paused |-> FALSE, monitoring |-> TRUE, act |-> Idle,
   publishRequest |-> NoRequest, recoveryRequest |-> NoRequest, lastKey |-> None]

-----------------------------------------------------------------------------
(* deriveStagingWorkflow. *)

Read(s) == s.draft # None
RevisionChanged(s) == s.job # None /\ s.rev # revs[s.draft]
StagingChanged(s) == s.status = "succeeded" /\ s.live # s.job
Reviewable(s) == s.job # None /\ s.approval = None
Completed(s) ==
  s.status = "succeeded" /\ ~ StagingChanged(s) /\ (~ RevisionChanged(s) \/ Reviewable(s))

Phase(s, paused) ==
  IF ~ Read(s) THEN s.status
  ELSE IF s.status \in {"cancelling", "attention"} THEN s.status
  ELSE IF s.status \in {"queued", "running", "deploying"} THEN (IF paused THEN "paused" ELSE "publishing")
  ELSE IF ~ Completed(s) /\ s.checked # revs[s.draft] THEN "check"
  ELSE IF ~ Completed(s) /\ s.busy THEN "waiting"
  ELSE IF s.job = None \/ (RevisionChanged(s) /\ ~ Reviewable(s)) THEN "ready"
  ELSE IF StagingChanged(s) THEN "stale"
  ELSE IF s.status # "succeeded" THEN "failed"
  ELSE IF s.approved THEN "accepted"
  ELSE "review"

Now == Phase(panel.shown, panel.paused \/ ~ panel.monitoring)
CanPublish == Now \in {"check", "ready", "stale", "failed"}
CanRefresh == Now \notin {"loading", "check"}
ShouldPoll ==
  Now \in {"publishing", "waiting"} \/ (Now \in {"cancelling", "attention"} /\ panel.monitoring)

-----------------------------------------------------------------------------
(* usePublicationStatus. *)

ReadOf(run, d) == [run |-> run, draft |-> d, snap |-> Loading]

\* A run that is pending is shared, and a monitoring window that is over is reopened.
Load(p) ==
  /\ panel' = [p EXCEPT !.pending = TRUE, !.expired = FALSE]
  /\ reads' = IF p.pending THEN reads ELSE reads \cup {ReadOf(p.run, p.draft)}

Open(d) ==
  /\ panel.draft = None /\ panel.run < MaxRuns
  /\ Load([Closed EXCEPT !.draft = d, !.run = panel.run + 1, !.lastKey = panel.lastKey])
  /\ UNCHANGED <<server, posts>>

\* Requests and reads may be on their way; an action that will send more is waited for (a
\* bound).
Close ==
  /\ Event("reopen") /\ panel.draft # None /\ panel.act.stage \in {"idle", "wait"}
  /\ panel' = [Closed EXCEPT !.run = panel.run, !.lastKey = panel.lastKey]
  /\ UNCHANGED <<server, reads, posts>>

Serve(r) ==
  /\ r \in reads /\ ~ Read(r.snap)
  /\ reads' = (reads \ {r}) \cup {[r EXCEPT !.snap = Snapshot(r.draft)]}
  /\ UNCHANGED <<server, posts, panel>>

\* (mutant) whatever is read for this draft is shown
OfDraft(r) == panel.draft = r.draft
\* a read of an earlier run is dropped
Current(r) == panel.draft # None /\ panel.run = r.run

\* What the action that waits for the read does next, with the snapshot or without.
AfterRead(p, s) ==
  IF p.act.stage # "load" THEN p
  ELSE IF p.act.kind = "refresh" THEN [p EXCEPT !.act = Idle, !.monitoring = Read(s)]
  ELSE IF p.act.kind = "publish" /\ p.act.post = NoPost /\ Read(s) /\ ~ s.busy
    THEN [p EXCEPT !.act.stage = "send", !.act.snap = s]
  ELSE [p EXCEPT !.act = Idle]

Deliver(r) ==
  /\ r \in reads /\ Read(r.snap) /\ reads' = reads \ {r}
  /\ panel' = IF Current(r)
       THEN AfterRead([panel EXCEPT !.shown = r.snap, !.pending = FALSE, !.stale = FALSE,
                                    !.paused = FALSE], r.snap)
       ELSE panel
  /\ UNCHANGED <<server, posts>>

\* The last snapshot stays, marked as unconfirmed.
FailRead(r) ==
  /\ Event("fail") /\ r \in reads /\ reads' = reads \ {r}
  /\ panel' = IF Current(r)
       THEN AfterRead([panel EXCEPT !.shown = IF Read(@) THEN @ ELSE Unavailable,
                                    !.pending = FALSE, !.stale = TRUE, !.paused = TRUE], Unavailable)
       ELSE panel
  /\ UNCHANGED <<server, posts>>

\* Fifteen minutes without a manual read.
Expire ==
  /\ Event("expire") /\ panel.draft # None /\ ~ panel.expired
  /\ panel' = [panel EXCEPT !.expired = TRUE]
  /\ UNCHANGED <<server, reads, posts>>

-----------------------------------------------------------------------------
(* StagingPublish: refresh and the buttons. *)

Free == panel.draft # None /\ panel.act = Idle /\ ~ panel.pending
Act(kind, stage) == [kind |-> kind, stage |-> stage, snap |-> panel.shown, post |-> NoPost]

Refresh ==
  /\ Free /\ CanRefresh /\ Load([panel EXCEPT !.act = Act("refresh", "load")])
  /\ UNCHANGED <<server, posts>>

Poll ==
  /\ Free /\ ShouldPoll /\ ~ panel.paused
  /\ IF panel.expired
       THEN panel' = [panel EXCEPT !.paused = TRUE, !.monitoring = FALSE] /\ UNCHANGED reads
       ELSE Load([panel EXCEPT !.act = Act("refresh", "load")])
  /\ UNCHANGED <<server, posts>>

May == Free /\ Read(panel.shown) /\ ~ panel.stale

\* publish: a check that is missing comes first
PressPublish ==
  /\ May /\ CanPublish
  /\ panel' = [panel EXCEPT !.act =
       IF panel.shown.checked # None THEN Act("publish", "send") ELSE Act("publish", "check")]
  /\ UNCHANGED <<server, reads, posts>>

\* preflightStaging, and the status again; if it is refused, the status again and no more.
Check(ok) ==
  /\ panel.act.stage = "check"
  /\ checked' = IF ok THEN checked \cup {panel.draft} ELSE checked
  /\ Load([panel EXCEPT !.act = [@ EXCEPT !.stage = "load", !.kind = IF ok THEN "publish" ELSE "other"]])
  /\ UNCHANGED <<world, jobs, live, decisions, revs, posts>>

\* a key is kept until its request is confirmed or what it is about has changed
KeyFor(request, scope) == IF request.scope = scope THEN request.key ELSE panel.lastKey + 1

\* publishRequest and recoveryRequest; a decision has no key.
RequestOf(kind) ==
  CASE kind = "publish" -> "publishRequest" [] kind \in {"accept", "revoke"} -> "none"
    [] OTHER -> "recoveryRequest"

Sends(kind, s, scope) ==
  LET request == RequestOf(kind)
      key == IF request = "none" THEN None ELSE KeyFor(panel[request], scope)
      sent == [panel EXCEPT !.lastKey = IF key > @ THEN key ELSE @]
      post == [kind |-> kind, key |-> key, draft |-> s.draft, rev |-> revs[s.draft],
               base |-> s.live, job |-> s.job, approval |-> s.approval]
  IN
  /\ key <= MaxKeys
  /\ posts' = posts \cup {post}
  /\ panel' = [(IF request = "none" THEN sent
                ELSE [sent EXCEPT ![request] = [scope |-> scope, key |-> key]])
              EXCEPT !.act = [Act(kind, "wait") EXCEPT !.post = post]]
  /\ UNCHANGED <<server, reads>>

SendPublish ==
  LET s == panel.act.snap IN
  /\ panel.act.stage = "send" /\ panel.act.kind = "publish"
  /\ IF s.busy THEN panel' = [panel EXCEPT !.act = Idle] /\ UNCHANGED <<server, reads, posts>>
     ELSE Sends("publish", s, <<"publish", s.draft, revs[s.draft], s.live, s.job, s.status>>)

\* recoverQueued, for what dispatchStatus offers of the publication
Actions == {"retry", "cancel", "reconcile", "retry-captured", "verify-completed"}
Offered(action, s) ==
  CASE action = "retry" -> s.status = "attention"
    [] action = "cancel" -> s.status \in {"queued", "attention", "running"}
    [] action = "reconcile" -> s.status = "running"
    [] action = "retry-captured" -> s.status = "cancelled" /\ ~ s.busy
    [] action = "verify-completed" -> s.status = "deploying"
Recover(action) ==
  /\ May /\ Event(action) /\ Offered(action, panel.shown)
  /\ Sends(action, panel.shown, <<action, panel.shown.job>>)

\* accept and revoke, which name the decision that they follow
Decide(kind) ==
  LET s == panel.shown IN
  /\ May /\ Event("decide")
  /\ IF kind = "accept" THEN Now = "review" ELSE s.approved
  /\ Sends(kind, s, <<>>)

-----------------------------------------------------------------------------
(* The server. *)

Job(p) ==
  [draft |-> p.draft, rev |-> p.rev, key |-> p.key, base |-> live, status |-> "queued",
   seen |-> p.job, parent |-> IF p.kind = "retry-captured" THEN p.job ELSE None]
HasKey(p) == \E n \in DOMAIN jobs : jobs[n].key = p.key
\* (mutant) the base that was shown is not compared
MayCaptureAny(p) == ~ Busy /\ revs[p.draft] = p.rev /\ p.draft \in checked
MayCapture(p) ==
  /\ ~ Busy /\ live = p.base /\ revs[p.draft] = p.rev /\ p.draft \in checked
\* a captured candidate is retried once, on the base it had
MayRetryCaptured(p) ==
  /\ ~ Busy /\ jobs[p.job].status = "cancelled" /\ jobs[p.job].base = live
  /\ \A n \in DOMAIN jobs : jobs[n].parent # p.job
MayRecover(p) ==
  CASE p.kind = "retry" -> jobs[p.job].status = "attention"
    [] p.kind = "cancel" -> jobs[p.job].status \in {"queued", "attention", "running"}
    [] p.kind = "reconcile" -> jobs[p.job].status = "running"
    [] p.kind = "verify-completed" -> jobs[p.job].status = "deploying"
Recovered(p) ==
  CASE p.kind = "retry" -> "queued" [] p.kind = "cancel" -> "cancelling"
    [] p.kind = "reconcile" -> "cancelled" [] p.kind = "verify-completed" -> "succeeded"
MayAccept(p) ==
  jobs[p.job].status = "succeeded" /\ live = p.job /\ DecisionOn(p.job) = p.approval
MayRevoke(p) == DecisionOn(p.job) = p.approval /\ Approved(p.approval)
Decision(p) ==
  [job |-> p.job, kind |-> IF p.kind = "accept" THEN "approved" ELSE "revoked", seen |-> p.approval]

\* A request is carried out, repeated from its receipt, or refused.
Accepted(p) ==
  CASE p.kind = "publish" -> HasKey(p) \/ MayCapture(p)
    [] p.kind = "retry-captured" -> HasKey(p) \/ MayRetryCaptured(p)
    [] p.kind = "accept" -> MayAccept(p)
    [] p.kind = "revoke" -> MayRevoke(p)
    [] OTHER -> MayRecover(p)
Captures == {"publish", "retry-captured"}
Decisions == {"accept", "revoke"}
CarryOut(p) ==
  /\ jobs' = IF p.kind \in Captures THEN (IF HasKey(p) THEN jobs ELSE Append(jobs, Job(p)))
             ELSE IF p.kind \in Decisions THEN jobs
             ELSE [jobs EXCEPT ![p.job].status = Recovered(p)]
  /\ decisions' = IF p.kind \in Decisions THEN Append(decisions, Decision(p)) ELSE decisions

WithinBounds(p) ==
  /\ p.kind \in Captures /\ ~ HasKey(p) => Len(jobs) < MaxJobs
  /\ p.kind \in Decisions => Len(decisions) < MaxDecisions

Awaited(p) == panel.act.stage = "wait" /\ panel.act.post = p
Settled(p, confirmed) ==
  IF ~ Awaited(p) THEN UNCHANGED <<panel, reads>>
  ELSE LET request == RequestOf(p.kind)
           told == [panel EXCEPT !.act.stage = "load"] IN
       Load(IF confirmed /\ request # "none"
            THEN [told EXCEPT !.monitoring = TRUE, ![request] = NoRequest] ELSE told)

\* The answer reaches the panel or is lost.
Handle(p) ==
  /\ p \in posts /\ posts' = posts \ {p}
  /\ IF Accepted(p)
       THEN /\ WithinBounds(p) /\ CarryOut(p)
            /\ \/ Settled(p, TRUE)
               \/ Event("fail") /\ Awaited(p) /\ Settled(p, FALSE)
       ELSE UNCHANGED <<jobs, decisions>> /\ Settled(p, FALSE)
  /\ UNCHANGED <<world, live, checked, revs>>

\* The panel is told of a failure, and the request is still on its way.
GiveUp ==
  /\ Event("fail") /\ panel.act.stage = "wait" /\ panel.act.post \in posts
  /\ Settled(panel.act.post, FALSE)
  /\ UNCHANGED <<server, posts>>

\* A publication proceeds: it waits too long, runs, deploys what it committed, succeeds, or
\* its cancellation is finished.
Proceed(n, next) ==
  /\ <<jobs[n].status, next>> \in
       {<<"queued", "attention">>, <<"queued", "running">>, <<"attention", "running">>,
        <<"running", "deploying">>, <<"deploying", "succeeded">>, <<"cancelling", "cancelled">>}
  /\ jobs' = [jobs EXCEPT ![n].status = next]
  /\ live' = IF next = "deploying" THEN n ELSE live
  /\ UNCHANGED <<world, checked, decisions, revs, reads, posts, panel>>

\* somebody pushes to main, once after each deployment: a commit that no job made
Pushed(n) == MaxJobs + n
Push ==
  /\ Event("push") /\ live \in DOMAIN jobs /\ live' = Pushed(live)
  /\ UNCHANGED <<world, jobs, checked, decisions, revs, reads, posts, panel>>

\* A save needs a check of its own; the panel forgets that monitoring was paused.
Save(d) ==
  /\ Event("save") /\ revs[d] = 1 /\ panel.act = Idle
  /\ revs' = [revs EXCEPT ![d] = 2] /\ checked' = checked \ {d}
  /\ panel' = IF panel.draft = d THEN [panel EXCEPT !.monitoring = TRUE] ELSE panel
  /\ UNCHANGED <<world, jobs, live, decisions, reads, posts>>

Init ==
  /\ world \in Worlds /\ jobs = <<>> /\ live = None /\ checked = {} /\ decisions = <<>>
  /\ revs = [d \in world.drafts |-> 1] /\ reads = {} /\ posts = {} /\ panel = Closed

Next ==
  \/ \E d \in world.drafts : Open(d) \/ Save(d)
  \/ Close \/ Expire \/ Refresh \/ Poll \/ PressPublish \/ SendPublish \/ GiveUp \/ Push
  \/ \E ok \in BOOLEAN : Check(ok)
  \/ \E action \in Actions : Recover(action)
  \/ \E kind \in Decisions : Decide(kind)
  \/ \E r \in reads : Serve(r) \/ Deliver(r) \/ FailRead(r)
  \/ \E p \in posts : Handle(p)
  \/ \E n \in DOMAIN jobs, next \in {"attention", "running", "deploying", "succeeded", "cancelled"} :
       Proceed(n, next)

Spec == Init /\ [][Next]_vars

-----------------------------------------------------------------------------
(* Properties. *)

\* A publication that was not cancelled, or a decision, is followed by another one only when
\* the panel had shown it to the person who asked: a request that is pressed again after its
\* answer was lost, or that arrives when its panel is gone, does nothing a second time.
NothingUnseen ==
  /\ \A m, n \in DOMAIN jobs :
       m < n /\ jobs[m].draft = jobs[n].draft => jobs[m].status = "cancelled" \/ jobs[n].seen >= m
  /\ \A i, j \in DOMAIN decisions :
       i < j /\ decisions[i].job = decisions[j].job => decisions[j].seen >= i

\* What the panel shows of a draft never goes back to an earlier publication or decision,
\* however late a read of an earlier opening is answered (usePublicationStatus.ts: "stale
\* reads never replace another draft or erase a known job").
NeverGoesBack ==
  [][Read(panel.shown) /\ Read(panel'.shown) =>
       /\ panel'.shown.draft = panel.shown.draft
       /\ \/ panel'.shown.job > panel.shown.job
          \/ panel'.shown.job = panel.shown.job /\ panel'.shown.approval >= panel.shown.approval]_vars

\* When a status could not be read, the panel says "Check status to try again"
\* (StagingPublish.tsx:528), and offers it.
CheckIsOffered == panel.stale /\ ~ panel.pending /\ panel.act = Idle => CanRefresh
=============================================================================
