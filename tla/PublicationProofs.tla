-------------------------- MODULE PublicationProofs --------------------------
(***************************************************************************)
(* Proofs about Publication for every number of jobs, runs, attempts and   *)
(* concurrent handlers, and in every world.                                *)
(*                                                                         *)
(* None of the promises is inductive.  What makes them so is that the lane *)
(* has one holder, that a job is granted only while it holds the lane and  *)
(* never cancelled after that, that a run acts for the one job it is bound *)
(* to, and what each handler has found out before it goes on.              *)
(***************************************************************************)
EXTENDS Publication, TLAPS

Commits == 0..(MaxJobs + 1)
Statuses == {"none", "queued", "running", "cancelled", "succeeded"}
JobRow ==
  [status : Statuses, base : Commits, recorded : BOOLEAN, pending : BOOLEAN,
   parent : 0..MaxJobs, attempt : Nat, count : Nat, ready : BOOLEAN,
   reserved : 0..MaxRuns, claimed : 0..MaxRuns,
   built : BOOLEAN, granted : BOOLEAN, reported : BOOLEAN, verifying : BOOLEAN]
Points == {"start", "reserved", "claimed", "built", "committed", "granted", "deployed",
           "reported", "finalized"}
RunRow ==
  [state : {"unused", "active", "completed"}, job : 0..MaxJobs, head : Commits, at : Points]
Ops == {"capture", "retry", "dispatch", "commit", "authorize", "finalize", "complete", "verify",
        "continue"}
Steps == {"create", "check", "post", "read", "guard", "write", "record", "grant", "finish",
          "list", "settle", "settle unidentified"}
Call == [op : Ops, job : 0..MaxJobs, run : 0..MaxRuns, step : Steps, seen : Commits]

TypeOK ==
  /\ world \in Worlds
  /\ jobs \in [Jobs -> JobRow]
  /\ slot \in 0..MaxJobs
  /\ releases \in Seq(Jobs)
  /\ granted \in 0..MaxJobs
  /\ allowed \in BOOLEAN
  /\ calls \subseteq Call
  /\ gh \in [Runs -> RunRow]
  /\ log \in Seq(Commits) /\ Len(log) > 0
  /\ latest \in 0..MaxRuns
  /\ site \in 0..MaxJobs

InLog(x) == \E i \in 1..Len(log) : log[i] = x
Known(j) == jobs[j].status # "none"

\* what a handler in flight stands on
ForJob(c) ==
  \/ c.op = "retry" /\ c.step = "create" /\ c.run = None
  \/ c.op = "dispatch" /\ c.step \in {"check", "post"} /\ c.run = None
  \/ c.op \in {"complete", "verify"} /\ c.step = "finish" /\ c.run = None
  \/ c.op = "continue" /\ c.step \in {"list", "settle", "settle unidentified"} /\ c.run = None
  \/ c.op = "commit" /\ c.step \in {"read", "guard", "write", "record"} /\ c.run \in Runs
  \/ c.op = "authorize" /\ c.step = "grant" /\ c.run \in Runs
  \/ c.op = "finalize" /\ c.step = "finish" /\ c.run \in Runs
Shape(c) ==
  \/ c.op = "capture" /\ c.step = "create" /\ c.job = None /\ c.run = None
  \/ c.job \in Jobs /\ Known(c.job) /\ ForJob(c)

OfItsRun(c) == c.run # None => gh[c.run].state # "unused" /\ gh[c.run].job = c.job
ReadsMain(c) ==
  /\ c.step = "guard" => InLog(c.seen)
  /\ c.step = "write" => c.seen = jobs[c.job].base
  /\ c.step = "record" => InLog(c.job)
Continues(c) ==
  /\ c.op = "continue" => jobs[c.job].status = "cancelled"
  /\ c.step = "settle" => jobs[c.job].reserved = None \/ Done(jobs[c.job].reserved)
Finishes(c) ==
  c.step = "finish" =>
    /\ jobs[c.job].recorded /\ jobs[c.job].granted
    /\ c.op = "finalize" => gh[c.run].at = "reported"
    /\ c.op # "finalize" => Done(jobs[c.job].claimed)
    /\ slot = c.job => site = c.job

Founded(c) == Shape(c) /\ OfItsRun(c) /\ ReadsMain(c) /\ Continues(c) /\ Finishes(c)
CallsFounded == \A c \in calls : Founded(c)
OnePerRun == \A c, d \in calls : c.run # None /\ c.run = d.run => c = d

\* the lane
HolderActive == \A j \in Jobs : Active(j) => slot = j
GrantedGoesOn == \A j \in Jobs : jobs[j].granted => jobs[j].status \in {"running", "succeeded"}
HolderGranted == slot # None /\ jobs[slot].granted => granted = slot

\* the runs and the site
RunsKnown == \A r \in Runs : gh[r].state # "unused" => gh[r].job \in Jobs /\ Known(gh[r].job)
ToldGranted ==
  \A r \in Runs : gh[r].at \in {"granted", "deployed", "reported", "finalized"} =>
    gh[r].state # "unused" /\ jobs[gh[r].job].granted
Deploying ==
  \A r \in Runs : gh[r].state = "active" /\ gh[r].at = "granted" =>
    /\ slot = gh[r].job
    /\ jobs[slot].status = "running" /\ jobs[slot].claimed = r
SiteGranted == site # None => jobs[site].granted

\* the log and the releases
LogOnce == log[1] = Root /\ \A i, k \in 1..Len(log) : log[i] = log[k] => i = k
LogLinked ==
  \A i \in 2..Len(log) : log[i] \in Jobs => Known(log[i]) /\ log[i - 1] = jobs[log[i]].base
RecordedInLog == \A j \in Jobs : jobs[j].recorded => InLog(j)
SucceededRecorded == \A j \in Jobs : jobs[j].status = "succeeded" => jobs[j].recorded
Released(j) == \E i \in 1..Len(releases) : releases[i] = j
ReleasedSucceeded == \A j \in Jobs : Released(j) => jobs[j].status = "succeeded"
SucceededReleased ==
  world.target = "production" => \A j \in Jobs : jobs[j].status = "succeeded" => Released(j)
Before(i, j) == \A x, y \in 1..Len(log) : log[x] = i /\ log[y] = j => x < y
ReleasesOrdered == \A i, k \in 1..Len(releases) : i < k => Before(releases[i], releases[k])
ActiveLast == \A i, j \in Jobs : Released(i) /\ Active(j) => Before(i, j)

LaneInv == HolderActive /\ GrantedGoesOn /\ HolderGranted
RunInv == RunsKnown /\ ToldGranted /\ Deploying /\ SiteGranted
LogInv == LogOnce /\ LogLinked /\ RecordedInLog
ReleaseInv ==
  SucceededRecorded /\ ReleasedSucceeded /\ SucceededReleased /\ ReleasesOrdered /\ ActiveLast

PInv ==
  /\ TypeOK /\ LaneInv /\ RunInv /\ LogInv /\ ReleaseInv
  /\ CallsFounded /\ OnePerRun
  /\ FreedMeansStopped /\ LiveIsReviewed


-----------------------------------------------------------------------------
(* Types.                                                                  *)

LEMMA NewJobType ==
  ASSUME NEW base \in Commits, NEW parent \in 0..MaxJobs, NEW n \in Nat
  PROVE  NewJob("queued", base, parent, n) \in JobRow
  BY PublicationAssumption DEF NewJob, JobRow, Statuses, None

LEMMA JobFields ==
  ASSUME TypeOK, NEW j \in Jobs
  PROVE  jobs[j] \in JobRow
  BY DEF TypeOK

LEMMA CallFields ==
  ASSUME TypeOK, NEW c \in calls
  PROVE  c \in Call /\ c.op \in Ops /\ c.job \in 0..MaxJobs /\ c.run \in 0..MaxRuns
         /\ c.step \in Steps /\ c.seen \in Commits
  BY DEF TypeOK, Call

LEMMA MainType ==
  ASSUME TypeOK
  PROVE  Main \in Commits /\ InLog(Main)
  BY DEF TypeOK, Main, InLog

LEMMA NewCallType ==
  ASSUME NEW op \in Ops, NEW j \in 0..MaxJobs, NEW r \in 0..MaxRuns, NEW step \in Steps,
         NEW seen \in Commits
  PROVE  NewCall(op, j, r, step, seen) \in Call
  BY DEF NewCall, Call, Ops, Steps

LEMMA GoesType ==
  ASSUME TypeOK, NEW c \in calls, NEW step \in Steps, NEW seen \in Commits, Goes(c, step, seen)
  PROVE  calls' \subseteq Call
<1>1. [c EXCEPT !.step = step, !.seen = seen] \in Call
  BY CallFields DEF Call
<1> QED BY <1>1 DEF Goes, TypeOK

LEMMA NatTypes == None \in 0..MaxJobs /\ None \in 0..MaxRuns /\ Root \in Commits /\ Jobs \subseteq 0..MaxJobs
                  /\ Jobs \subseteq Commits /\ Runs \subseteq 0..MaxRuns /\ Foreign \in Commits
  BY PublicationAssumption DEF None, Root, Commits, Jobs, Runs, Foreign

\* a row that only changes in some fields
LEMMA RowsKept ==
  ASSUME TypeOK, NEW j \in Jobs
  PROVE  /\ \A n \in Nat : [jobs EXCEPT ![j].count = n] \in [Jobs -> JobRow]
         /\ \A b \in BOOLEAN : /\ [jobs EXCEPT ![j].ready = b] \in [Jobs -> JobRow]
                               /\ [jobs EXCEPT ![j].built = b] \in [Jobs -> JobRow]
                               /\ [jobs EXCEPT ![j].reported = b] \in [Jobs -> JobRow]
                               /\ [jobs EXCEPT ![j].verifying = b] \in [Jobs -> JobRow]
                               /\ [jobs EXCEPT ![j].recorded = b] \in [Jobs -> JobRow]
                               /\ [jobs EXCEPT ![j].granted = b] \in [Jobs -> JobRow]
                               /\ [jobs EXCEPT ![j].pending = b] \in [Jobs -> JobRow]
         /\ \A s \in Statuses : [jobs EXCEPT ![j].status = s] \in [Jobs -> JobRow]
         /\ \A r \in 0..MaxRuns : /\ [jobs EXCEPT ![j].reserved = r] \in [Jobs -> JobRow]
                                   /\ [jobs EXCEPT ![j].claimed = r] \in [Jobs -> JobRow]
         /\ \A row \in JobRow : [jobs EXCEPT ![j] = row] \in [Jobs -> JobRow]
<1>1. jobs[j] \in JobRow
  BY JobFields
<1> QED BY <1>1 DEF JobRow, Statuses, TypeOK

LEMMA RowsKeptTwice ==
  ASSUME TypeOK, NEW j \in Jobs
  PROVE  /\ \A n \in Nat, b \in BOOLEAN :
              [jobs EXCEPT ![j].count = n, ![j].ready = b] \in [Jobs -> JobRow]
         /\ \A s \in Statuses, b \in BOOLEAN :
              /\ [jobs EXCEPT ![j].status = s, ![j].reported = b] \in [Jobs -> JobRow]
              /\ [jobs EXCEPT ![j].status = s, ![j].pending = b] \in [Jobs -> JobRow]
              /\ [jobs EXCEPT ![j].status = s, ![j].pending = b, ![j].ready = TRUE]
                    \in [Jobs -> JobRow]
         /\ \A r \in 0..MaxRuns, s \in Statuses :
              [jobs EXCEPT ![j].claimed = r, ![j].status = s] \in [Jobs -> JobRow]
<1>1. jobs[j] \in JobRow
  BY JobFields
<1>2. ASSUME NEW n \in Nat, NEW b \in BOOLEAN
      PROVE  [jobs EXCEPT ![j].count = n, ![j].ready = b] \in [Jobs -> JobRow]
  BY <1>1 DEF JobRow, TypeOK
<1>3. ASSUME NEW s \in Statuses, NEW b \in BOOLEAN
      PROVE  [jobs EXCEPT ![j].status = s, ![j].reported = b] \in [Jobs -> JobRow]
  BY <1>1 DEF JobRow, TypeOK
<1>4. ASSUME NEW s \in Statuses, NEW b \in BOOLEAN
      PROVE  [jobs EXCEPT ![j].status = s, ![j].pending = b] \in [Jobs -> JobRow]
  BY <1>1 DEF JobRow, TypeOK
<1>5. ASSUME NEW s \in Statuses, NEW b \in BOOLEAN
      PROVE  [jobs EXCEPT ![j].status = s, ![j].pending = b, ![j].ready = TRUE]
               \in [Jobs -> JobRow]
  BY <1>1 DEF JobRow, TypeOK
<1>6. ASSUME NEW r \in 0..MaxRuns, NEW s \in Statuses
      PROVE  [jobs EXCEPT ![j].claimed = r, ![j].status = s] \in [Jobs -> JobRow]
  BY <1>1 DEF JobRow, TypeOK
<1> QED BY <1>2, <1>3, <1>4, <1>5, <1>6

-----------------------------------------------------------------------------
(* Every step is of the right types.                                       *)

LEMMA RunFields ==
  ASSUME TypeOK, NEW r \in Runs
  PROVE  gh[r] \in RunRow /\ gh[r].job \in 0..MaxJobs /\ gh[r].at \in Points
  BY DEF TypeOK, RunRow

LEMMA CallShape ==
  ASSUME TypeOK, NEW c \in calls, Shape(c)
  PROVE  /\ c.step = "create" => c.op \in {"capture", "retry"} /\ c.run = None
         /\ c.op = "retry" \/ c.step # "create" => c.job \in Jobs /\ Known(c.job)
         /\ c.op # "retry" /\ c.step = "create" => c.job = None
         /\ c.step \in {"read", "guard", "write", "record"} => c.op = "commit" /\ c.run \in Runs
         /\ c.step = "grant" => c.op = "authorize" /\ c.run \in Runs
         /\ c.step = "finish" => c.op \in {"finalize", "complete", "verify"}
         /\ c.op = "finalize" => c.run \in Runs /\ c.step = "finish"
         /\ c.op \in {"complete", "verify"} => c.run = None /\ c.step = "finish"
         /\ c.step \in {"settle", "settle unidentified", "list"} => c.op = "continue" /\ c.run = None
         /\ c.step \in {"check", "post"} => c.op = "dispatch" /\ c.run = None
  BY DEF Shape, ForJob

LEMMA BeginType ==
  ASSUME TypeOK, NEW c \in Call, Begin(c)
  PROVE  calls' \subseteq Call
  BY DEF TypeOK, Begin

LEMMA EndsType ==
  ASSUME TypeOK, NEW c, Ends(c)
  PROVE  calls' \subseteq Call
  BY DEF TypeOK, Ends

LEMMA AtType ==
  ASSUME TypeOK, NEW r \in Runs, NEW stage \in Points, Told(r, stage) \/ Hears(r, stage)
  PROVE  gh' \in [Runs -> RunRow]
  BY DEF TypeOK, RunRow, Told, Hears

LEMMA TypeOfJob ==
  ASSUME PInv, NEW j \in Jobs, OfJob(j)
  PROVE  TypeOK'
<1> TypeOK /\ j \in 0..MaxJobs
  BY NatTypes DEF PInv
<1> USE NatTypes
<1>j. jobs[j].base \in Commits /\ jobs[j].count \in Nat
  BY JobFields DEF JobRow
<1>m. Main \in Commits
  BY MainType
<1>b. Started(j) \in BOOLEAN
  BY DEF Started
<1>1. CASE BeginRetry(j)
  <2>1. calls' \subseteq Call
    BY <1>1, <1>m, BeginType, NewCallType DEF BeginRetry, Ops, Steps
  <2> QED BY <1>1, <2>1 DEF BeginRetry, TypeOK, server, github
<1>2. CASE Decide(j)
  BY <1>2 DEF Decide, TypeOK, github
<1>3. CASE ReserveDispatch(j)
  <2>1. calls' \subseteq Call
    BY <1>3, <1>j, BeginType, NewCallType DEF ReserveDispatch, Ops, Steps
  <2>2. jobs' \in [Jobs -> JobRow]
    <3> DEFINE n == jobs[j].count + 1
    <3>1. n \in Nat /\ jobs' = [jobs EXCEPT ![j].count = n, ![j].ready = FALSE]
      BY <1>3, <1>j DEF ReserveDispatch
    <3> HIDE DEF n
    <3> QED BY <3>1, RowsKeptTwice
  <2> QED BY <1>3, <2>1, <2>2 DEF ReserveDispatch, TypeOK, server, github
<1>4. CASE RestartDispatch(j)
  <2>2. jobs' \in [Jobs -> JobRow]
    BY <1>4, RowsKept DEF RestartDispatch
  <2> QED BY <1>4, <2>2 DEF RestartDispatch, TypeOK, server, github
<1>5. CASE BeginComplete(j)
  <2>1. calls' \subseteq Call
    BY <1>5, BeginType, NewCallType DEF BeginComplete, Ops, Steps
  <2> QED BY <1>5, <2>1 DEF BeginComplete, TypeOK, server, github
<1>6. CASE CaptureVerification(j)
  <2>2. jobs' \in [Jobs -> JobRow]
    BY <1>6, RowsKept DEF CaptureVerification
  <2> QED BY <1>6, <2>2 DEF CaptureVerification, TypeOK, server, github
<1>7. CASE BeginVerify(j)
  <2>1. calls' \subseteq Call
    BY <1>7, BeginType, NewCallType DEF BeginVerify, Ops, Steps
  <2> QED BY <1>7, <2>1 DEF BeginVerify, TypeOK, server, github
<1>8. CASE Cancel(j)
  <2>2. jobs' \in [Jobs -> JobRow]
    BY <1>8, <1>b, RowsKeptTwice DEF Cancel, Statuses
  <2> QED BY <1>8, <2>2 DEF Cancel, TypeOK, server, github
<1>9. CASE Reconcile(j)
  <2>2. jobs' \in [Jobs -> JobRow]
    BY <1>9, RowsKeptTwice DEF Reconcile, Statuses
  <2> QED BY <1>9, <2>2 DEF Reconcile, TypeOK, server, github
<1>10. CASE BeginContinue(j)
  <2>1. calls' \subseteq Call
    <3> DEFINE c == NewCall("continue", j, None, "list", jobs[j].base)
    <3>1. c \in Call
      BY <1>j, NewCallType DEF Ops, Steps
    <3> HIDE DEF c
    <3>2. calls' = calls \cup {c}
      BY <1>10 DEF BeginContinue, c
    <3> QED BY <3>1, <3>2 DEF TypeOK
  <2>2. jobs' \in [Jobs -> JobRow]
    BY <1>10, RowsKept DEF BeginContinue
  <2> QED BY <1>10, <2>1, <2>2 DEF BeginContinue, TypeOK, server, github
<1>11. CASE Elapse(j)
  <2>2. jobs' \in [Jobs -> JobRow]
    BY <1>11, RowsKept DEF Elapse
  <2> QED BY <1>11, <2>2 DEF Elapse, TypeOK, server, github
<1> QED BY <1>1, <1>2, <1>3, <1>4, <1>5, <1>6, <1>7, <1>8, <1>9, <1>10, <1>11 DEF OfJob

LEMMA TypeOfRun ==
  ASSUME PInv, NEW r \in Runs, OfRun(r)
  PROVE  TypeOK'
<1> TypeOK /\ r \in 0..MaxRuns
  BY NatTypes DEF PInv
<1> USE NatTypes
<1>g. gh[r].state # "unused" => gh[r].job \in Jobs
  BY DEF PInv, RunInv, RunsKnown
<1> DEFINE j == gh[r].job
<1>j. j \in Jobs => jobs[j].base \in Commits /\ jobs[j] \in JobRow
  BY JobFields DEF JobRow
<1>a. j \in 0..MaxJobs
  BY RunFields
<1> HIDE DEF j
<1>1. CASE ReserveRun(r)
  <2>1. j \in Jobs /\ Hears(r, "reserved") /\ jobs' = [jobs EXCEPT ![j].reserved = r]
    BY <1>1, <1>g DEF ReserveRun, j, Asks
  <2>2. jobs' \in [Jobs -> JobRow]
    BY <2>1, RowsKept
  <2>3. gh' \in [Runs -> RunRow]
    BY <2>1, AtType DEF Points
  <2> QED BY <1>1, <2>2, <2>3 DEF ReserveRun, TypeOK
<1>2. CASE ClaimRun(r)
  <2>1. j \in Jobs /\ Hears(r, "claimed")
        /\ jobs' = [jobs EXCEPT ![j].claimed = r, ![j].status = "running"]
    BY <1>2, <1>g DEF ClaimRun, j, Asks
  <2>2. jobs' \in [Jobs -> JobRow]
    BY <2>1, RowsKeptTwice DEF Statuses
  <2>3. gh' \in [Runs -> RunRow]
    BY <2>1, AtType DEF Points
  <2> QED BY <1>2, <2>2, <2>3 DEF ClaimRun, TypeOK
<1>3. CASE AuthorizeBuild(r)
  <2>1. j \in Jobs /\ Hears(r, "built") /\ jobs' = [jobs EXCEPT ![j].built = TRUE]
    BY <1>3, <1>g DEF AuthorizeBuild, j, Asks
  <2>2. jobs' \in [Jobs -> JobRow]
    BY <2>1, RowsKept
  <2>3. gh' \in [Runs -> RunRow]
    BY <2>1, AtType DEF Points
  <2> QED BY <1>3, <2>2, <2>3 DEF AuthorizeBuild, TypeOK
<1>4. CASE BeginCommit(r)
  <2>1. j \in Jobs /\ Begin(NewCall("commit", j, r, "read", jobs[j].base))
    BY <1>4, <1>g DEF BeginCommit, j, Asks
  <2>2. calls' \subseteq Call
    BY <2>1, <1>j, <1>a, BeginType, NewCallType DEF Ops, Steps
  <2> QED BY <1>4, <2>2 DEF BeginCommit, TypeOK, server, github
<1>5. CASE BeginAuthorize(r)
  <2>1. j \in Jobs /\ Begin(NewCall("authorize", j, r, "grant", j))
    BY <1>5, <1>g DEF BeginAuthorize, j, Asks
  <2>2. calls' \subseteq Call
    BY <2>1, <1>j, <1>a, BeginType, NewCallType DEF Ops, Steps
  <2> QED BY <1>5, <2>2 DEF BeginAuthorize, TypeOK, server, github
<1>6. CASE Deploy(r)
  BY <1>6, <1>a DEF Deploy, TypeOK, server, j, RunRow, Points
<1>7. CASE ReportDeployment(r)
  <2>1. j \in Jobs /\ Hears(r, "reported") /\ jobs' = [jobs EXCEPT ![j].reported = TRUE]
    BY <1>7, <1>g DEF ReportDeployment, j, Asks
  <2>2. jobs' \in [Jobs -> JobRow]
    BY <2>1, RowsKept
  <2>3. gh' \in [Runs -> RunRow]
    BY <2>1, AtType DEF Points
  <2> QED BY <1>7, <2>2, <2>3 DEF ReportDeployment, TypeOK
<1>8. CASE BeginFinalize(r)
  <2>1. j \in Jobs /\ Begin(NewCall("finalize", j, r, "finish", j))
    BY <1>8, <1>g DEF BeginFinalize, j, Asks
  <2>2. calls' \subseteq Call
    BY <2>1, <1>j, <1>a, BeginType, NewCallType DEF Ops, Steps
  <2> QED BY <1>8, <2>2 DEF BeginFinalize, TypeOK, server, github
<1>9. CASE EndRun(r)
  BY <1>9 DEF EndRun, TypeOK, server, RunRow
<1> QED BY <1>1, <1>2, <1>3, <1>4, <1>5, <1>6, <1>7, <1>8, <1>9 DEF OfRun

LEMMA TypeOfCall ==
  ASSUME PInv, NEW c \in calls, OfCall(c)
  PROVE  TypeOK'
<1>t. TypeOK /\ Shape(c)
  BY DEF PInv, CallsFounded, Founded
<1> USE <1>t
<1> DEFINE j == c.job
<1>c. c \in Call /\ c.seen \in Commits /\ j \in 0..MaxJobs
  BY CallFields
<1>j. j \in Jobs => jobs[j] \in JobRow
  BY JobFields
<1>s. c.step # "create" => j \in Jobs
  BY CallShape
<1>1. ASSUME NEW k \in Jobs, Create(c, k) PROVE TypeOK'
  <2> DEFINE n == IF c.op = "retry" THEN jobs[c.job].attempt + 1 ELSE 0
  <2>1. n \in Nat
    <3>1. c.op = "retry" => jobs[j].attempt \in Nat
      BY <1>j, CallShape DEF JobRow
    <3> QED BY <3>1
  <2>2. NewJob("queued", c.seen, j, n) \in JobRow
    BY <1>c, <2>1, NewJobType
  <2>3. jobs' = [jobs EXCEPT ![k] = NewJob("queued", c.seen, j, n)]
    BY <1>1 DEF Create
  <2>4. jobs' \in [Jobs -> JobRow]
    BY <2>2, <2>3 DEF TypeOK
  <2>5. calls' \subseteq Call
    BY <1>1, EndsType DEF Create
  <2> QED BY <1>1, <2>4, <2>5, NatTypes DEF Create, TypeOK, github
<1> HIDE DEF j
<1>2. CASE CheckDispatch(c)
  <2>1. calls' \subseteq Call
    BY <1>2, <1>c, EndsType, GoesType DEF CheckDispatch, Ops, Steps
  <2> QED BY <1>2, <2>1 DEF CheckDispatch, TypeOK, server, github
<1>3. ASSUME NEW r \in Runs, PostDispatch(c, r) PROVE TypeOK'
  <2>1. calls' \subseteq Call
    BY <1>3, EndsType DEF PostDispatch
  <2>2. Main \in Commits
    BY MainType
  <2>3. gh' \in [Runs -> RunRow]
    BY <1>3, <1>c, <2>2 DEF PostDispatch, TypeOK, RunRow, Points, j
  <2> QED BY <1>3, <2>1, <2>3 DEF PostDispatch, TypeOK, server
<1>4. CASE ReadMain(c)
  <2>1. calls' \subseteq Call
    BY <1>4, MainType, EndsType, GoesType DEF ReadMain, Ops, Steps
  <2> QED BY <1>4, <2>1 DEF ReadMain, TypeOK, server, github
<1>5. CASE GuardCommit(c)
  <2>0. Goes(c, "record", c.seen) \/ Goes(c, "write", c.seen) \/ Ends(c)
    BY <1>5 DEF GuardCommit
  <2>1. calls' \subseteq Call
    BY <2>0, <1>c, EndsType, GoesType DEF Ops, Steps
  <2> QED BY <1>5, <2>1 DEF GuardCommit, TypeOK, server, github
<1>6. CASE WriteMain(c)
  <2>s. c.job \in Commits
    BY <1>6, <1>s, NatTypes DEF WriteMain, At, j
  <2>0. \/ log' = Append(log, c.job) /\ (Goes(c, "record", c.job) \/ Goes(c, "read", c.job))
        \/ log' = log /\ Ends(c)
    BY <1>6 DEF WriteMain
  <2>1. calls' \subseteq Call
    BY <2>0, <2>s, EndsType, GoesType DEF Ops, Steps
  <2>2. log' \in Seq(Commits) /\ Len(log') > 0
    BY <2>0, <2>s DEF TypeOK
  <2> QED BY <1>6, <2>1, <2>2 DEF WriteMain, TypeOK, server, github
<1>7. CASE RecordCommit(c)
  <2>0. j \in Jobs /\ c.run \in Runs /\ jobs' = [jobs EXCEPT ![j].recorded = TRUE]
        /\ Told(c.run, "committed") /\ Ends(c)
    BY <1>7, <1>s, CallShape DEF RecordCommit, At, j
  <2>1. calls' \subseteq Call
    BY <2>0, EndsType
  <2>2. jobs' \in [Jobs -> JobRow]
    BY <2>0, RowsKept DEF TypeOK
  <2>3. gh' \in [Runs -> RunRow]
    BY <2>0, AtType DEF Points
  <2> QED BY <1>7, <2>1, <2>2, <2>3 DEF RecordCommit, TypeOK
<1>8. CASE GrantDeployment(c)
  <2>s. j \in Jobs /\ c.run \in Runs
    BY <1>8, <1>s, CallShape DEF GrantDeployment, At
  <2>1. calls' \subseteq Call
    BY <1>8, EndsType DEF GrantDeployment
  <2>2. jobs' \in [Jobs -> JobRow]
    <3>1. jobs' = jobs \/ jobs' = [jobs EXCEPT ![j].granted = TRUE]
      BY <1>8 DEF GrantDeployment, j
    <3>2. jobs \in [Jobs -> JobRow] /\ [jobs EXCEPT ![j].granted = TRUE] \in [Jobs -> JobRow]
      BY <2>s, RowsKept DEF TypeOK
    <3> QED BY <3>1, <3>2
  <2>3. gh' \in [Runs -> RunRow]
    BY <1>8, <2>s, AtType DEF GrantDeployment, Points, TypeOK
  <2>4. granted' \in 0..MaxJobs
    BY <1>8, <1>c DEF GrantDeployment, TypeOK, j
  <2> QED BY <1>8, <2>1, <2>2, <2>3, <2>4 DEF GrantDeployment, TypeOK
<1>9. CASE Finish(c)
  <2>s. j \in Jobs /\ (c.op = "finalize" => c.run \in Runs)
    BY <1>9, <1>s, CallShape DEF Finish
  <2>1. calls' \subseteq Call
    BY <1>9, EndsType DEF Finish
  <2>2. jobs' \in [Jobs -> JobRow]
    <3> DEFINE b == jobs[j].reported \/ c.op = "verify"
    <3>1. b \in BOOLEAN /\ "succeeded" \in Statuses
      BY DEF Statuses
    <3>2. jobs' = jobs \/ jobs' = [jobs EXCEPT ![j].status = "succeeded", ![j].reported = b]
      BY <1>9, <2>s, <1>t DEF Finish, j, TypeOK
    <3> HIDE DEF b
    <3>3. /\ jobs \in [Jobs -> JobRow]
          /\ [jobs EXCEPT ![j].status = "succeeded", ![j].reported = b] \in [Jobs -> JobRow]
      BY <2>s, <3>1, RowsKeptTwice DEF TypeOK
    <3> QED BY <3>2, <3>3
  <2>3. gh' \in [Runs -> RunRow]
    BY <1>9, <2>s, AtType DEF Finish, Points, TypeOK
  <2>4. releases' \in Seq(Jobs)
    <3>1. releases' = releases \/ releases' = Append(releases, j)
      BY <1>9 DEF Finish, ReleasesWith, j
    <3>2. releases \in Seq(Jobs) /\ Append(releases, j) \in Seq(Jobs)
      BY <2>s DEF TypeOK
    <3> QED BY <3>1, <3>2
  <2>5. slot' \in 0..MaxJobs
    BY <1>9, NatTypes DEF Finish, TypeOK
  <2> QED BY <1>9, <2>1, <2>2, <2>3, <2>4, <2>5 DEF Finish, TypeOK
<1>10. CASE ListRuns(c)
  <2>0. Goes(c, "settle", c.seen) \/ Goes(c, "settle unidentified", c.seen) \/ Ends(c)
    BY <1>10 DEF ListRuns
  <2>1. calls' \subseteq Call
    BY <2>0, <1>c, EndsType, GoesType DEF Ops, Steps
  <2> QED BY <1>10, <2>1 DEF ListRuns, TypeOK, server, github
<1>11. CASE Settle(c)
  <2>s. j \in Jobs
    BY <1>11, <1>s DEF Settle
  <2>1. calls' \subseteq Call
    BY <1>11, EndsType DEF Settle
  <2>2. jobs' \in [Jobs -> JobRow]
    <3>1. jobs' = jobs \/ jobs' = [jobs EXCEPT ![j].pending = FALSE]
      BY <1>11 DEF Settle, j
    <3>2. jobs \in [Jobs -> JobRow] /\ [jobs EXCEPT ![j].pending = FALSE] \in [Jobs -> JobRow]
      BY <2>s, RowsKept DEF TypeOK
    <3> QED BY <3>1, <3>2
  <2>3. slot' \in 0..MaxJobs
    BY <1>11, NatTypes DEF Settle, TypeOK
  <2> QED BY <1>11, <2>1, <2>2, <2>3 DEF Settle, TypeOK, github
<1>12. CASE Lose(c)
  <2>1. calls' \subseteq Call
    BY <1>12, EndsType DEF Lose
  <2> QED BY <1>12, <2>1 DEF Lose, TypeOK, server, github
<1> QED BY <1>1, <1>2, <1>3, <1>4, <1>5, <1>6, <1>7, <1>8, <1>9, <1>10, <1>11, <1>12 DEF OfCall

LEMMA TypeKept ==
  ASSUME PInv, [Next]_vars
  PROVE  TypeOK'
<1> TypeOK
  BY DEF PInv
<1>1. CASE UNCHANGED vars
  BY <1>1 DEF TypeOK, vars, server, github
<1>2. CASE BeginCapture
  <2>1. calls' \subseteq Call
    BY <1>2, MainType, BeginType, NewCallType, NatTypes DEF BeginCapture, Ops, Steps
  <2> QED BY <1>2, <2>1 DEF BeginCapture, TypeOK, server, github
<1>3. CASE Allow
  BY <1>3 DEF Allow, TypeOK, server, github
<1>4. CASE Push
  <2>1. log' \in Seq(Commits) /\ Len(log') > 0
    BY <1>4, NatTypes DEF Push, TypeOK
  <2> QED BY <1>4, <2>1 DEF Push, TypeOK, server, github
<1> QED BY <1>1, <1>2, <1>3, <1>4, TypeOfJob, TypeOfRun, TypeOfCall DEF Next

-----------------------------------------------------------------------------
(* What no step takes back, and so what a handler in flight may rely on.   *)

KeepsJob(j) ==
  /\ jobs'[j].status # "none" /\ jobs'[j].base = jobs[j].base
  /\ jobs[j].recorded => jobs'[j].recorded
  /\ jobs[j].granted => jobs'[j].granted
  /\ jobs[j].status = "cancelled" =>
       jobs'[j].status = "cancelled" /\ jobs'[j].reserved = jobs[j].reserved
  /\ jobs[j].claimed # None => jobs'[j].claimed = jobs[j].claimed
  /\ slot' = j => slot = j
KeepsRun(r) ==
  /\ gh'[r].state # "unused" /\ gh'[r].job = gh[r].job
  /\ gh[r].state = "completed" => gh'[r].state = "completed"
Forward ==
  /\ \A j \in Jobs : Known(j) => KeepsJob(j)
  /\ \A r \in Runs : gh[r].state # "unused" => KeepsRun(r)
  /\ \A i \in 1..Len(log) : i \in 1..Len(log') /\ log'[i] = log[i]
  /\ site' = site \/ site' = slot

\* a step that touches no more of the lane than attempts, backoffs and marks
Same(j) ==
  /\ jobs'[j].status = jobs[j].status /\ jobs'[j].base = jobs[j].base
  /\ jobs'[j].recorded = jobs[j].recorded /\ jobs'[j].granted = jobs[j].granted
  /\ jobs'[j].reserved = jobs[j].reserved /\ jobs'[j].claimed = jobs[j].claimed
JobsSame == \A j \in Jobs : Same(j)
Quiet ==
  /\ UNCHANGED <<world, slot, releases, granted, log, site, gh>>
  /\ JobsSame

LEMMA InLogKept ==
  ASSUME Forward, NEW x, InLog(x)
  PROVE  InLog(x)'
  BY DEF Forward, InLog

LEMMA DoneKept ==
  ASSUME TypeOK, Forward, NEW r \in 0..MaxRuns, Done(r)
  PROVE  Done(r)'
<1>1. r \in Runs
  BY PublicationAssumption DEF Done, None, Runs
<1> QED BY <1>1 DEF Forward, KeepsRun, Done

LEMMA CallKept ==
  ASSUME TypeOK, Forward, NEW c, Founded(c),
         c.op = "finalize" => gh'[c.run].at = gh[c.run].at
  PROVE  Founded(c)'
<1>1. CASE c.op = "capture"
  <2>1. c.step = "create" /\ c.job = None /\ c.run = None
    BY <1>1 DEF Founded, Shape, ForJob
  <2>2. Shape(c)' /\ OfItsRun(c)'
    BY <1>1, <2>1 DEF Shape, OfItsRun
  <2> QED BY <1>1, <2>1, <2>2 DEF Founded, ReadsMain, Continues, Finishes
<1>2. CASE c.op # "capture"
  <2>1. c.job \in Jobs /\ Known(c.job) /\ ForJob(c)
    BY <1>2 DEF Founded, Shape
  <2>2. KeepsJob(c.job)
    BY <2>1 DEF Forward
  <2>3. Shape(c)'
    BY <2>1, <2>2 DEF Shape, Known, KeepsJob, ForJob
  <2>4. OfItsRun(c)'
    <3> SUFFICES ASSUME c.run # None PROVE OfItsRun(c)'
      BY DEF OfItsRun
    <3>1. c.run \in Runs
      BY <2>1 DEF ForJob
    <3> QED BY <3>1 DEF Founded, OfItsRun, Forward, KeepsRun
  <2>5. ReadsMain(c)'
    BY <2>2, InLogKept DEF Founded, ReadsMain, KeepsJob
  <2>6. Continues(c)'
    <3>1. c.step = "settle" => c.op = "continue"
      BY <2>1 DEF ForJob
    <3>2. jobs[c.job].reserved \in 0..MaxRuns
      BY <2>1, JobFields DEF JobRow
    <3> QED BY <2>2, <3>1, <3>2, DoneKept DEF Founded, Continues, KeepsJob
  <2>7. Finishes(c)'
    <3> SUFFICES ASSUME c.step = "finish" PROVE Finishes(c)'
      BY DEF Finishes
    <3>1. jobs[c.job].claimed \in 0..MaxRuns
      BY <2>1, JobFields DEF JobRow
    <3>2. c.op # "finalize" => Done(jobs[c.job].claimed)'
      <4> SUFFICES ASSUME c.op # "finalize" PROVE Done(jobs[c.job].claimed)'
        OBVIOUS
      <4>1. PICK r \in 0..MaxRuns : r = jobs[c.job].claimed
        BY <3>1
      <4>2. Done(r)
        BY <4>1 DEF Founded, Finishes
      <4>3. jobs'[c.job].claimed = r
        BY <4>1, <4>2, <2>2 DEF Done, KeepsJob
      <4>4. Done(r)'
        BY <4>2, DoneKept
      <4> QED BY <4>3, <4>4 DEF Done
    <3>3. slot' = c.job => site' = c.job
      BY <2>2 DEF Founded, Finishes, Forward, KeepsJob
    <3> QED BY <2>2, <3>2, <3>3 DEF Founded, Finishes, KeepsJob
  <2> QED BY <2>3, <2>4, <2>5, <2>6, <2>7 DEF Founded
<1> QED BY <1>1, <1>2

LEMMA QuietForward ==
  ASSUME TypeOK, Quiet
  PROVE  Forward
  BY DEF TypeOK, Quiet, JobsSame, Same, Forward, KeepsJob, KeepsRun, Known

LEMMA QuietKeeps ==
  ASSUME PInv, Quiet
  PROVE  /\ LaneInv' /\ RunInv' /\ LogInv' /\ ReleaseInv'
         /\ FreedMeansStopped' /\ LiveIsReviewed'
<1>q. /\ world' = world /\ slot' = slot /\ releases' = releases /\ granted' = granted
      /\ log' = log /\ site' = site /\ gh' = gh
  BY DEF Quiet
<1>j. \A j \in Jobs : Same(j)
  BY DEF Quiet, JobsSame
<1>t. TypeOK
  BY DEF PInv
<1>1. LaneInv'
  <2>1. HolderActive' /\ GrantedGoesOn'
    BY <1>q, <1>j DEF PInv, LaneInv, HolderActive, GrantedGoesOn, Same, Active
  <2>2. HolderGranted'
    <3>1. slot # None => slot \in Jobs
      BY <1>t DEF TypeOK, None, Jobs
    <3> QED BY <3>1, <1>q, <1>j DEF PInv, LaneInv, HolderGranted, Same
  <2> QED BY <2>1, <2>2 DEF LaneInv
<1>2. RunInv'
  <2>1. RunsKnown'
    BY <1>q, <1>j DEF PInv, RunInv, RunsKnown, Known, Same
  <2>2. ToldGranted'
    BY <1>q, <1>j DEF PInv, RunInv, RunsKnown, ToldGranted, Same
  <2>3. Deploying'
    BY <1>q, <1>j DEF PInv, RunInv, RunsKnown, Deploying, Same
  <2>4. SiteGranted'
    <3>1. site # None => site \in Jobs
      BY <1>t DEF TypeOK, None, Jobs
    <3> QED BY <3>1, <1>q, <1>j DEF PInv, RunInv, SiteGranted, Same
  <2> QED BY <2>1, <2>2, <2>3, <2>4 DEF RunInv
<1>3. LogInv'
  BY <1>q, <1>j DEF PInv, LogInv, LogOnce, LogLinked, RecordedInLog, InLog, Known, Same
<1>4. ReleaseInv'
  <2>1. SucceededRecorded' /\ ReleasedSucceeded' /\ SucceededReleased'
    BY <1>q, <1>j DEF PInv, ReleaseInv, SucceededRecorded, ReleasedSucceeded,
                      SucceededReleased, Released, Same
  <2>2. ReleasesOrdered' /\ ActiveLast'
    BY <1>q, <1>j DEF PInv, ReleaseInv, ReleasesOrdered, ActiveLast, Before, Released, Active, Same
  <2> QED BY <2>1, <2>2 DEF ReleaseInv
<1>5. FreedMeansStopped' /\ LiveIsReviewed'
  BY <1>q, <1>j DEF PInv, FreedMeansStopped, LiveIsReviewed, Same
<1> QED BY <1>1, <1>2, <1>3, <1>4, <1>5

\* The steps that are quiet.
LEMMA QuietSteps ==
  ASSUME TypeOK,
         \/ UNCHANGED vars \/ BeginCapture \/ Allow
         \/ \E j \in Jobs : \/ BeginRetry(j) \/ ReserveDispatch(j) \/ RestartDispatch(j)
                            \/ BeginComplete(j) \/ CaptureVerification(j) \/ BeginVerify(j)
                            \/ BeginContinue(j) \/ Elapse(j)
         \/ \E r \in Runs : BeginCommit(r) \/ BeginAuthorize(r) \/ BeginFinalize(r)
         \/ \E c \in calls : \/ CheckDispatch(c) \/ ReadMain(c) \/ GuardCommit(c)
                             \/ ListRuns(c) \/ Lose(c)
  PROVE  Quiet
<1>1. ASSUME UNCHANGED <<world, slot, releases, granted, log, site, gh, jobs>>
      PROVE  Quiet
  BY <1>1 DEF Quiet, JobsSame, Same
<1>2. ASSUME UNCHANGED vars \/ BeginCapture \/ Allow
      PROVE  Quiet
  BY <1>1, <1>2 DEF vars, server, github, BeginCapture, Allow
<1>3. ASSUME NEW j \in Jobs, BeginRetry(j) \/ BeginComplete(j) \/ BeginVerify(j)
      PROVE  Quiet
  BY <1>1, <1>3 DEF server, github, BeginRetry, BeginComplete, BeginVerify
<1>4. ASSUME NEW r \in Runs, BeginCommit(r) \/ BeginAuthorize(r) \/ BeginFinalize(r)
      PROVE  Quiet
  BY <1>1, <1>4 DEF server, github, BeginCommit, BeginAuthorize, BeginFinalize
<1>5. ASSUME NEW c \in calls, CheckDispatch(c) \/ ReadMain(c) \/ GuardCommit(c)
                              \/ ListRuns(c) \/ Lose(c)
      PROVE  Quiet
  BY <1>1, <1>5 DEF server, github, CheckDispatch, ReadMain, GuardCommit, ListRuns, Lose
<1>6. ASSUME NEW j \in Jobs,
             ReserveDispatch(j) \/ RestartDispatch(j) \/ CaptureVerification(j)
               \/ BeginContinue(j) \/ Elapse(j)
      PROVE  Quiet
  <2>1. ASSUME ReserveDispatch(j) PROVE JobsSame
    BY <2>1 DEF ReserveDispatch, JobsSame, Same, TypeOK, JobRow
  <2>2. ASSUME RestartDispatch(j) PROVE JobsSame
    BY <2>2 DEF RestartDispatch, JobsSame, Same, TypeOK, JobRow
  <2>3. ASSUME CaptureVerification(j) PROVE JobsSame
    BY <2>3 DEF CaptureVerification, JobsSame, Same, TypeOK, JobRow
  <2>4. ASSUME BeginContinue(j) PROVE JobsSame
    BY <2>4 DEF BeginContinue, JobsSame, Same, TypeOK, JobRow
  <2>5. ASSUME Elapse(j) PROVE JobsSame
    BY <2>5 DEF Elapse, JobsSame, Same, TypeOK, JobRow
  <2> QED BY <1>6, <2>1, <2>2, <2>3, <2>4, <2>5 DEF Quiet, github, ReserveDispatch, RestartDispatch,
                            CaptureVerification, BeginContinue, Elapse
<1> QED BY <1>2, <1>3, <1>4, <1>5, <1>6

-----------------------------------------------------------------------------
(* What each part of the invariant depends on.                             *)

LEMMA LaneFrame ==
  ASSUME PInv, slot' = slot, granted' = granted,
         \A j \in Jobs : /\ jobs'[j].granted = jobs[j].granted
                         /\ Active(j)' => Active(j)
                         /\ jobs[j].status \in {"running", "succeeded"} =>
                              jobs'[j].status \in {"running", "succeeded"}
  PROVE  LaneInv'
<1>1. HolderActive' /\ GrantedGoesOn'
  BY DEF PInv, LaneInv, HolderActive, GrantedGoesOn
<1>2. HolderGranted'
  <2>1. slot # None => slot \in Jobs
    BY DEF PInv, TypeOK, None, Jobs
  <2> QED BY <2>1 DEF PInv, LaneInv, HolderGranted
<1> QED BY <1>1, <1>2 DEF LaneInv

LEMMA LogFrame ==
  ASSUME PInv, log' = log,
         \A j \in Jobs : /\ Known(j) => jobs'[j].status # "none" /\ jobs'[j].base = jobs[j].base
                         /\ jobs'[j].recorded => jobs[j].recorded \/ InLog(j)
  PROVE  LogInv'
<1>1. LogOnce' /\ LogLinked'
  BY DEF PInv, LogInv, LogOnce, LogLinked, Known
<1>2. RecordedInLog'
  BY DEF PInv, LogInv, RecordedInLog, InLog
<1> QED BY <1>1, <1>2 DEF LogInv

LEMMA ReleaseFrame ==
  ASSUME PInv, world' = world, log' = log, releases' = releases,
         \A j \in Jobs : /\ jobs'[j].status = "succeeded" <=> jobs[j].status = "succeeded"
                         /\ jobs[j].status = "succeeded" /\ jobs[j].recorded => jobs'[j].recorded
                         /\ Active(j)' => Active(j) \/ ~ InLog(j)
  PROVE  ReleaseInv'
<1>1. SucceededRecorded' /\ ReleasedSucceeded' /\ SucceededReleased'
  BY DEF PInv, ReleaseInv, SucceededRecorded, ReleasedSucceeded, SucceededReleased, Released
<1>2. ReleasesOrdered'
  BY DEF PInv, ReleaseInv, ReleasesOrdered, Before
<1>3. ActiveLast'
  <2> SUFFICES ASSUME NEW i \in Jobs, NEW j \in Jobs, Released(i), Active(j)' PROVE Before(i, j)
    BY DEF ActiveLast, Before, Released
  <2>1. CASE Active(j)
    BY <2>1 DEF PInv, ReleaseInv, ActiveLast
  <2>2. CASE ~ InLog(j)
    BY <2>2 DEF InLog, Before
  <2> QED BY <2>1, <2>2
<1> QED BY <1>1, <1>2, <1>3 DEF ReleaseInv

LEMMA RunFrame ==
  ASSUME PInv, gh' = gh, slot' = slot, site' = site,
         \A j \in Jobs : /\ Known(j) => jobs'[j].status # "none"
                         /\ jobs[j].granted => jobs'[j].granted
                         /\ jobs[j].status = "running" =>
                              jobs'[j].status = "running" /\ jobs'[j].claimed = jobs[j].claimed
  PROVE  RunInv'
<1>1. RunsKnown'
  BY DEF PInv, RunInv, RunsKnown, Known
<1>2. ToldGranted'
  BY DEF PInv, RunInv, RunsKnown, ToldGranted
<1>3. Deploying'
  BY DEF PInv, RunInv, RunsKnown, Deploying
<1>4. SiteGranted'
  <2>1. site # None => site \in Jobs
    BY DEF PInv, TypeOK, None, Jobs
  <2> QED BY <2>1 DEF PInv, RunInv, SiteGranted
<1> QED BY <1>1, <1>2, <1>3, <1>4 DEF RunInv

\* A run that moves to a point where it does not deploy yet.
Moves(r, x) ==
  \A q \in Runs :
    /\ gh'[q].state = gh[q].state /\ gh'[q].job = gh[q].job /\ gh'[q].head = gh[q].head
    /\ q # r => gh'[q].at = gh[q].at
    /\ gh'[q].at \in {gh[q].at, x}

LEMMA RunMoves ==
  ASSUME TypeOK, NEW r \in Runs, NEW x \in Points, Hears(r, x) \/ Told(r, x)
  PROVE  Moves(r, x)
  BY DEF TypeOK, RunRow, Hears, Told, Moves

LEMMA MovesFrame ==
  ASSUME PInv, NEW r \in Runs, NEW x \in Points, Moves(r, x),
         x \notin {"granted", "deployed"},
         x \in {"reported", "finalized"} => gh[r].at \in {"deployed", "reported"},
         slot' = slot, site' = site,
         \A j \in Jobs : /\ Known(j) => jobs'[j].status # "none"
                         /\ jobs[j].granted => jobs'[j].granted
                         /\ jobs[j].status = "running" =>
                              jobs'[j].status = "running" /\ jobs'[j].claimed = jobs[j].claimed
  PROVE  RunInv'
<1>1. RunsKnown'
  BY DEF PInv, RunInv, RunsKnown, Known, Moves
<1>2. ToldGranted'
  <2> SUFFICES ASSUME NEW q \in Runs, gh'[q].at \in {"granted", "deployed", "reported", "finalized"}
               PROVE  gh'[q].state # "unused" /\ jobs'[gh'[q].job].granted
    BY DEF ToldGranted
  <2>1. gh[q].at \in {"granted", "deployed", "reported", "finalized"}
    BY DEF Moves
  <2> QED BY <2>1 DEF PInv, RunInv, RunsKnown, ToldGranted, Moves
<1>3. Deploying'
  <2> SUFFICES ASSUME NEW q \in Runs, gh'[q].state = "active" /\ gh'[q].at = "granted"
               PROVE  slot' = gh'[q].job /\ jobs'[slot'].status = "running"
                      /\ jobs'[slot'].claimed = q
    BY DEF Deploying
  <2>1. gh[q].state = "active" /\ gh[q].at = "granted"
    BY DEF Moves
  <2> QED BY <2>1 DEF PInv, RunInv, RunsKnown, Deploying, Moves
<1>4. SiteGranted'
  <2>1. site # None => site \in Jobs
    BY DEF PInv, TypeOK, None, Jobs
  <2> QED BY <2>1 DEF PInv, RunInv, SiteGranted
<1> QED BY <1>1, <1>2, <1>3, <1>4 DEF RunInv

LEMMA StopFrame ==
  ASSUME PInv, Forward,
         \A j \in Jobs : jobs'[j].status = "cancelled" /\ slot' # j /\ jobs'[j].reserved # None =>
           /\ jobs[j].reserved = jobs'[j].reserved
           /\ \/ jobs[j].status = "cancelled" /\ slot # j
              \/ Done(jobs[j].reserved)
  PROVE  FreedMeansStopped'
<1> SUFFICES ASSUME NEW j \in Jobs, jobs'[j].status = "cancelled", slot' # j,
                    jobs'[j].reserved # None
             PROVE  gh'[jobs'[j].reserved].state = "completed"
  BY DEF FreedMeansStopped
<1>1. jobs[j].reserved \in Runs
  BY JobFields DEF PInv, JobRow, None, Runs
<1>2. gh[jobs[j].reserved].state = "completed"
  BY DEF PInv, FreedMeansStopped, Done
<1> QED BY <1>1, <1>2 DEF Forward, KeepsRun

LEMMA LiveFrame ==
  ASSUME PInv, site' = site, granted' = granted,
         \A j \in Jobs : jobs'[j].status = "succeeded" => jobs[j].status = "succeeded"
  PROVE  LiveIsReviewed'
  BY DEF PInv, LiveIsReviewed

-----------------------------------------------------------------------------
(* The steps of a run.                                                     *)

Promises == LaneInv /\ RunInv /\ LogInv /\ ReleaseInv /\ FreedMeansStopped /\ LiveIsReviewed

LEMMA MovesForward ==
  ASSUME TypeOK, NEW r \in Runs, NEW x \in Points, Moves(r, x), log' = log,
         site' = site \/ site' = slot, slot' = slot,
         \A j \in Jobs : Known(j) => KeepsJob(j)
  PROVE  Forward
  BY DEF Forward, Moves, KeepsRun

LEMMA MarkKeeps ==
  ASSUME PInv, NEW r \in Runs, AuthorizeBuild(r) \/ ReportDeployment(r)
  PROVE  Forward /\ Promises'
<1> DEFINE k == gh[r].job
<1>t. TypeOK
  BY DEF PInv
<1>r. gh[r].state = "active" /\ k \in Jobs
  BY DEF PInv, RunInv, RunsKnown, AuthorizeBuild, ReportDeployment, Asks
<1>j. JobsSame
  <2>1. CASE AuthorizeBuild(r)
    BY <1>t, <1>r, <2>1 DEF AuthorizeBuild, JobsSame, Same, TypeOK, JobRow
  <2>2. CASE ReportDeployment(r)
    BY <1>t, <1>r, <2>2 DEF ReportDeployment, JobsSame, Same, TypeOK, JobRow
  <2> QED BY <2>1, <2>2
<1>u. UNCHANGED <<world, slot, releases, granted, log, site>>
  BY DEF AuthorizeBuild, ReportDeployment
<1>m. \/ Moves(r, "built")
      \/ Moves(r, "reported") /\ gh[r].at = "deployed"
  BY <1>t, RunMoves DEF AuthorizeBuild, ReportDeployment, Points, Asks
<1>1. Forward
  <2>1. \A j \in Jobs : Known(j) => KeepsJob(j)
    BY <1>u, <1>j DEF JobsSame, Same, KeepsJob, Known
  <2> QED BY <1>t, <1>u, <1>m, <2>1, MovesForward DEF Points
<1>2. RunInv'
  <2>1. \A j \in Jobs : /\ Known(j) => jobs'[j].status # "none"
                        /\ jobs[j].granted => jobs'[j].granted
                        /\ jobs[j].status = "running" =>
                             jobs'[j].status = "running" /\ jobs'[j].claimed = jobs[j].claimed
    BY <1>j DEF JobsSame, Same, Known
  <2> QED BY <1>u, <1>m, <2>1, MovesFrame DEF Points
<1>3. LaneInv'
  BY <1>u, <1>j, LaneFrame DEF JobsSame, Same, Active
<1>4. LogInv'
  BY <1>u, <1>j, LogFrame DEF JobsSame, Same, Known
<1>5. ReleaseInv'
  BY <1>u, <1>j, ReleaseFrame DEF JobsSame, Same, Active
<1>6. FreedMeansStopped'
  BY <1>1, <1>u, <1>j, StopFrame DEF JobsSame, Same
<1>7. LiveIsReviewed'
  BY <1>u, <1>j, LiveFrame DEF JobsSame, Same
<1> QED BY <1>1, <1>2, <1>3, <1>4, <1>5, <1>6, <1>7 DEF Promises

LEMMA ReserveKeeps ==
  ASSUME PInv, NEW r \in Runs, ReserveRun(r)
  PROVE  Forward /\ Promises'
<1> DEFINE k == gh[r].job
<1>t. TypeOK
  BY DEF PInv
<1>r. k \in Jobs
  BY DEF PInv, RunInv, RunsKnown, ReserveRun, Asks
<1>k. /\ slot = k /\ jobs[k].status = "queued" /\ jobs[k].claimed = None
      /\ jobs' = [jobs EXCEPT ![k].reserved = r]
  BY DEF ReserveRun, Authorized
<1>u. UNCHANGED <<world, slot, releases, granted, log, site>>
  BY DEF ReserveRun
<1>m. Moves(r, "reserved")
  BY <1>t, RunMoves DEF ReserveRun, Points
<1> HIDE DEF k
<1>j. \A j \in Jobs : /\ jobs'[j].status = jobs[j].status /\ jobs'[j].base = jobs[j].base
                      /\ jobs'[j].recorded = jobs[j].recorded /\ jobs'[j].granted = jobs[j].granted
                      /\ jobs'[j].claimed = jobs[j].claimed
                      /\ jobs[j].status # "queued" => jobs'[j].reserved = jobs[j].reserved
  BY <1>t, <1>r, <1>k DEF TypeOK, JobRow
<1>1. Forward
  <2>1. \A j \in Jobs : Known(j) => KeepsJob(j)
    BY <1>u, <1>j DEF KeepsJob, Known
  <2> QED BY <1>t, <1>u, <1>m, <2>1, MovesForward DEF Points
<1>2. RunInv'
  BY <1>u, <1>m, <1>j, MovesFrame DEF Points, Known
<1>3. LaneInv'
  BY <1>u, <1>j, LaneFrame DEF Active
<1>4. LogInv'
  BY <1>u, <1>j, LogFrame DEF Known
<1>5. ReleaseInv'
  BY <1>u, <1>j, ReleaseFrame DEF Active
<1>6. FreedMeansStopped'
  BY <1>1, <1>u, <1>j, StopFrame
<1>7. LiveIsReviewed'
  BY <1>u, <1>j, LiveFrame
<1> QED BY <1>1, <1>2, <1>3, <1>4, <1>5, <1>6, <1>7 DEF Promises

LEMMA ClaimKeeps ==
  ASSUME PInv, NEW r \in Runs, ClaimRun(r)
  PROVE  Forward /\ Promises'
<1> DEFINE k == gh[r].job
<1>t. TypeOK
  BY DEF PInv
<1>r. k \in Jobs
  BY DEF PInv, RunInv, RunsKnown, ClaimRun, Asks
<1>k. /\ slot = k /\ Active(k) /\ jobs[k].claimed \in {None, r}
      /\ jobs' = [jobs EXCEPT ![k].claimed = r, ![k].status = "running"]
  BY DEF ClaimRun, Authorized
<1>u. UNCHANGED <<world, slot, releases, granted, log, site>>
  BY DEF ClaimRun
<1>m. Moves(r, "claimed") /\ gh[r].state = "active" /\ gh[r].at = "reserved"
  BY <1>t, RunMoves DEF ClaimRun, Points, Asks
<1> HIDE DEF k
<1>j. \A j \in Jobs : /\ jobs'[j].base = jobs[j].base
                      /\ jobs'[j].recorded = jobs[j].recorded /\ jobs'[j].granted = jobs[j].granted
                      /\ jobs'[j].reserved = jobs[j].reserved
                      /\ j # k => jobs'[j].status = jobs[j].status /\ jobs'[j].claimed = jobs[j].claimed
  BY <1>t, <1>r, <1>k DEF TypeOK, JobRow
<1>s. jobs'[k].status = "running" /\ jobs'[k].claimed = r
  BY <1>t, <1>r, <1>k DEF TypeOK, JobRow
<1>1. Forward
  <2>1. \A j \in Jobs : Known(j) => KeepsJob(j)
    BY <1>u, <1>j, <1>s, <1>k DEF KeepsJob, Known, Active
  <2> QED BY <1>t, <1>u, <1>m, <2>1, MovesForward DEF Points
<1>2. RunInv'
  <2>1. RunsKnown' /\ ToldGranted' /\ SiteGranted'
    <3>1. RunsKnown'
      BY <1>m, <1>j, <1>s DEF PInv, RunInv, RunsKnown, Known, Moves
    <3>2. ToldGranted'
      BY <1>m, <1>j DEF PInv, RunInv, RunsKnown, ToldGranted, Moves
    <3>3. site # None => site \in Jobs
      BY <1>t DEF TypeOK, None, Jobs
    <3> QED BY <3>1, <3>2, <3>3, <1>u, <1>j DEF PInv, RunInv, SiteGranted
  <2>2. Deploying'
    <3> SUFFICES ASSUME NEW q \in Runs, gh'[q].state = "active" /\ gh'[q].at = "granted"
                 PROVE  slot' = gh'[q].job /\ jobs'[slot'].status = "running"
                        /\ jobs'[slot'].claimed = q
      BY DEF Deploying
    <3>1. gh[q].state = "active" /\ gh[q].at = "granted" /\ gh'[q].job = gh[q].job
      BY <1>m DEF Moves
    <3>2. slot = gh[q].job /\ jobs[slot].claimed = q
      BY <3>1 DEF PInv, RunInv, Deploying
    <3>3. q = r
      BY <3>2, <1>k DEF None, Runs
    <3> QED BY <3>1, <3>3, <1>m
  <2> QED BY <2>1, <2>2 DEF RunInv
<1>3. LaneInv'
  BY <1>u, <1>j, <1>k, <1>s, LaneFrame DEF Active
<1>4. LogInv'
  BY <1>u, <1>j, <1>s, LogFrame DEF Known
<1>5. ReleaseInv'
  BY <1>u, <1>j, <1>k, <1>s, ReleaseFrame DEF Active
<1>6. FreedMeansStopped'
  BY <1>1, <1>u, <1>j, <1>s, StopFrame
<1>7. LiveIsReviewed'
  BY <1>u, <1>j, <1>k, <1>s, LiveFrame
<1> QED BY <1>1, <1>2, <1>3, <1>4, <1>5, <1>6, <1>7 DEF Promises

LEMMA DeployKeeps ==
  ASSUME PInv, NEW r \in Runs, Deploy(r)
  PROVE  Forward /\ Promises'
<1> DEFINE k == gh[r].job
<1>t. TypeOK
  BY DEF PInv
<1>r. k \in Jobs
  BY DEF PInv, RunInv, RunsKnown, Deploy, Asks
<1>k. /\ slot = k /\ jobs[k].status = "running" /\ jobs[k].claimed = r /\ jobs[k].granted
      /\ granted = k /\ gh[r].at = "granted" /\ gh[r].state = "active"
  <2>1. gh[r].at = "granted" /\ gh[r].state = "active"
    BY DEF Deploy, Asks
  <2>2. slot = k /\ jobs[k].status = "running" /\ jobs[k].claimed = r
    BY <2>1 DEF PInv, RunInv, Deploying
  <2>3. jobs[k].granted
    BY <2>1 DEF PInv, RunInv, ToldGranted
  <2> QED BY <2>1, <2>2, <2>3, <1>r DEF PInv, LaneInv, HolderGranted, None, Jobs
<1>u. UNCHANGED <<world, jobs, slot, releases, granted, log>> /\ site' = k
  BY DEF Deploy, server
<1>m. Moves(r, "deployed")
  BY <1>t DEF Deploy, Moves, TypeOK, RunRow
<1> HIDE DEF k
<1>1. Forward
  BY <1>t, <1>u, <1>k, <1>m, MovesForward DEF Points, KeepsJob, Known
<1>2. RunInv'
  <2>1. RunsKnown'
    BY <1>m, <1>u DEF PInv, RunInv, RunsKnown, Known, Moves
  <2>2. ToldGranted'
    <3> SUFFICES ASSUME NEW q \in Runs,
                        gh'[q].at \in {"granted", "deployed", "reported", "finalized"}
                 PROVE  gh'[q].state # "unused" /\ jobs'[gh'[q].job].granted
      BY DEF ToldGranted
    <3>1. gh[q].at \in {"granted", "deployed", "reported", "finalized"}
      BY <1>m, <1>k DEF Moves
    <3> QED BY <3>1, <1>m, <1>u DEF PInv, RunInv, ToldGranted, Moves
  <2>3. Deploying'
    BY <1>m, <1>u DEF PInv, RunInv, Deploying, Moves
  <2>4. SiteGranted'
    BY <1>u, <1>k DEF SiteGranted
  <2> QED BY <2>1, <2>2, <2>3, <2>4 DEF RunInv
<1>3. LaneInv'
  BY <1>u, LaneFrame DEF Active
<1>4. LogInv'
  BY <1>u, LogFrame DEF Known
<1>5. ReleaseInv'
  BY <1>u, ReleaseFrame DEF Active
<1>6. FreedMeansStopped'
  BY <1>1, <1>u, StopFrame
<1>7. LiveIsReviewed'
  BY <1>u, <1>k DEF LiveIsReviewed
<1> QED BY <1>1, <1>2, <1>3, <1>4, <1>5, <1>6, <1>7 DEF Promises

LEMMA EndKeeps ==
  ASSUME PInv, NEW r \in Runs, EndRun(r)
  PROVE  Forward /\ Promises'
<1>t. TypeOK
  BY DEF PInv
<1>u. UNCHANGED <<world, jobs, slot, releases, granted, log, site>>
  BY DEF EndRun, server
<1>g. /\ gh[r].state = "active" /\ gh'[r].state = "completed"
      /\ \A q \in Runs : /\ gh'[q].job = gh[q].job /\ gh'[q].at = gh[q].at
                         /\ q # r => gh'[q].state = gh[q].state
  BY <1>t DEF EndRun, TypeOK, RunRow
<1>1. Forward
  BY <1>u, <1>g DEF Forward, KeepsJob, KeepsRun, Known
<1>2. RunInv'
  <2>1. RunsKnown' /\ ToldGranted' /\ Deploying'
    BY <1>u, <1>g DEF PInv, RunInv, RunsKnown, ToldGranted, Deploying, Known
  <2>2. SiteGranted'
    BY <1>u DEF PInv, RunInv, SiteGranted
  <2> QED BY <2>1, <2>2 DEF RunInv
<1>3. LaneInv'
  BY <1>u, LaneFrame DEF Active
<1>4. LogInv'
  BY <1>u, LogFrame DEF Known
<1>5. ReleaseInv'
  BY <1>u, ReleaseFrame DEF Active
<1>6. FreedMeansStopped'
  BY <1>1, <1>u, StopFrame
<1>7. LiveIsReviewed'
  BY <1>u, LiveFrame
<1> QED BY <1>1, <1>2, <1>3, <1>4, <1>5, <1>6, <1>7 DEF Promises

-----------------------------------------------------------------------------
(* The steps that give the lane back.                                      *)

LEMMA FreeRuns ==
  ASSUME PInv, gh' = gh, site' = site, slot \in Jobs,
         ~ jobs[slot].granted \/ jobs[slot].status # "running",
         \A j \in Jobs : /\ Known(j) => jobs'[j].status # "none"
                         /\ jobs[j].granted => jobs'[j].granted
  PROVE  RunInv'
<1>1. RunsKnown'
  BY DEF PInv, RunInv, RunsKnown, Known
<1>2. ToldGranted'
  BY DEF PInv, RunInv, RunsKnown, ToldGranted
<1>3. Deploying'
  BY DEF PInv, RunInv, RunsKnown, ToldGranted, Deploying
<1>4. SiteGranted'
  <2>1. site # None => site \in Jobs
    BY DEF PInv, TypeOK, None, Jobs
  <2> QED BY <2>1 DEF PInv, RunInv, SiteGranted
<1> QED BY <1>1, <1>2, <1>3, <1>4 DEF RunInv

LEMMA DecideKeeps ==
  ASSUME PInv, NEW j \in Jobs, Decide(j)
  PROVE  Forward /\ Promises'
<1>t. TypeOK
  BY DEF PInv
<1>u. UNCHANGED <<world, jobs, releases, granted, log, site, gh>>
  BY DEF Decide, github
<1>k. slot = j /\ jobs[j].status = "succeeded" /\ slot' = None
  BY DEF Decide
<1>1. Forward
  BY <1>t, <1>u, <1>k DEF TypeOK, Forward, KeepsJob, KeepsRun, Known, None, Jobs
<1>2. RunInv'
  BY <1>u, <1>k, FreeRuns DEF Known
<1>3. LaneInv'
  <2>1. \A i \in Jobs : ~ Active(i)
    BY <1>k DEF PInv, LaneInv, HolderActive, Active
  <2> QED BY <2>1, <1>k, <1>u DEF PInv, LaneInv, HolderActive, GrantedGoesOn, HolderGranted, Active
<1>4. LogInv'
  BY <1>u, LogFrame DEF Known
<1>5. ReleaseInv'
  BY <1>u, ReleaseFrame DEF Active
<1>6. FreedMeansStopped'
  BY <1>1, <1>u, <1>k, StopFrame
<1>7. LiveIsReviewed'
  BY <1>u, LiveFrame
<1> QED BY <1>1, <1>2, <1>3, <1>4, <1>5, <1>6, <1>7 DEF Promises

\* Cancel, Reconcile and Settle: the holder of the lane is cancelled, or was already.
LEMMA CancelledKeeps ==
  ASSUME PInv, NEW j \in Jobs,
         slot = j, ~ jobs[j].granted, jobs[j].status \in {"queued", "running", "cancelled"},
         UNCHANGED <<world, releases, granted, log, site, gh>>,
         slot' = None \/ slot' = slot,
         slot' = None => jobs[j].reserved = None \/ Done(jobs[j].reserved),
         jobs'[j].status = "cancelled",
         \A i \in Jobs : /\ i # j => jobs'[i].status = jobs[i].status
                         /\ jobs'[i].base = jobs[i].base /\ jobs'[i].recorded = jobs[i].recorded
                         /\ jobs'[i].granted = jobs[i].granted
                         /\ jobs'[i].reserved = jobs[i].reserved
                         /\ jobs'[i].claimed = jobs[i].claimed
  PROVE  Forward /\ Promises'
<1>t. TypeOK
  BY DEF PInv
<1>n. j # None
  BY DEF Jobs, None
<1>1. Forward
  BY <1>t, <1>n DEF TypeOK, Forward, KeepsJob, KeepsRun, Known, None, Jobs
<1>2. RunInv'
  BY FreeRuns DEF Known
<1>3. LaneInv'
  <2>1. \A i \in Jobs : ~ Active(i)'
    BY DEF PInv, LaneInv, HolderActive, Active
  <2>2. HolderActive' /\ GrantedGoesOn'
    BY <2>1 DEF PInv, LaneInv, HolderActive, GrantedGoesOn
  <2>3. HolderGranted'
    BY <1>n DEF PInv, LaneInv, HolderGranted
  <2> QED BY <2>2, <2>3 DEF LaneInv
<1>4. LogInv'
  BY LogFrame DEF Known
<1>5. ReleaseInv'
  BY ReleaseFrame DEF Active
<1>6. FreedMeansStopped'
  BY <1>1, StopFrame
<1>7. LiveIsReviewed'
  BY LiveFrame
<1> QED BY <1>1, <1>2, <1>3, <1>4, <1>5, <1>6, <1>7 DEF Promises

LEMMA CancelKeeps ==
  ASSUME PInv, NEW j \in Jobs, Cancel(j)
  PROVE  Forward /\ Promises'
<1>t. jobs \in [Jobs -> JobRow]
  BY DEF PInv, TypeOK
<1>1. /\ slot = j /\ ~ jobs[j].granted /\ jobs[j].status \in {"queued", "running", "cancelled"}
      /\ UNCHANGED <<world, releases, granted, log, site, gh>>
      /\ slot' = None \/ slot' = slot
  BY DEF Cancel, Active, github
<1>2. slot' = None => jobs[j].reserved = None
  BY <1>1 DEF Cancel, Started, Jobs, None
<1>3. jobs'[j].status = "cancelled"
  BY <1>t DEF Cancel, JobRow
<1>4. \A i \in Jobs : /\ i # j => jobs'[i].status = jobs[i].status
                      /\ jobs'[i].base = jobs[i].base /\ jobs'[i].recorded = jobs[i].recorded
                      /\ jobs'[i].granted = jobs[i].granted
                      /\ jobs'[i].reserved = jobs[i].reserved
                      /\ jobs'[i].claimed = jobs[i].claimed
  BY <1>t DEF Cancel, JobRow
<1> QED BY <1>1, <1>2, <1>3, <1>4, CancelledKeeps

LEMMA ReconcileKeeps ==
  ASSUME PInv, NEW j \in Jobs, Reconcile(j)
  PROVE  Forward /\ Promises'
<1>t. jobs \in [Jobs -> JobRow]
  BY DEF PInv, TypeOK
<1>1. /\ slot = j /\ ~ jobs[j].granted /\ jobs[j].status \in {"queued", "running", "cancelled"}
      /\ UNCHANGED <<world, releases, granted, log, site, gh>>
      /\ slot' = None /\ Done(jobs[j].reserved)
  BY DEF Reconcile, Active, github
<1>3. jobs'[j].status = "cancelled"
  BY <1>t DEF Reconcile, JobRow
<1>4. \A i \in Jobs : /\ i # j => jobs'[i].status = jobs[i].status
                      /\ jobs'[i].base = jobs[i].base /\ jobs'[i].recorded = jobs[i].recorded
                      /\ jobs'[i].granted = jobs[i].granted
                      /\ jobs'[i].reserved = jobs[i].reserved
                      /\ jobs'[i].claimed = jobs[i].claimed
  BY <1>t DEF Reconcile, JobRow
<1> QED BY <1>1, <1>3, <1>4, CancelledKeeps

LEMMA SettleKeeps ==
  ASSUME PInv, NEW c \in calls, Settle(c)
  PROVE  Forward /\ Promises'
<1> DEFINE j == c.job
<1>t. TypeOK /\ Founded(c)
  BY DEF PInv, CallsFounded
<1>j. j \in Jobs
  BY <1>t, CallShape DEF Founded, Settle
<1>u. UNCHANGED <<world, releases, granted, log, site, gh>>
  BY DEF Settle, github
<1>1. CASE Cancelling(j) /\ (c.step = "settle unidentified" => Untouched(j))
  <2>1. jobs' = [jobs EXCEPT ![j].pending = FALSE] /\ slot' = None
    BY <1>1 DEF Settle
  <2>2. slot = j /\ jobs[j].status = "cancelled" /\ ~ jobs[j].granted
    BY <1>1 DEF Cancelling
  <2>3. jobs[j].reserved = None \/ Done(jobs[j].reserved)
    BY <1>t, <1>1 DEF Settle, Founded, Continues, Untouched
  <2> HIDE DEF j
  <2>4. jobs'[j].status = "cancelled"
    BY <1>t, <1>j, <2>1, <2>2 DEF TypeOK, JobRow
  <2>5. \A i \in Jobs : /\ i # j => jobs'[i].status = jobs[i].status
                        /\ jobs'[i].base = jobs[i].base /\ jobs'[i].recorded = jobs[i].recorded
                        /\ jobs'[i].granted = jobs[i].granted
                        /\ jobs'[i].reserved = jobs[i].reserved
                        /\ jobs'[i].claimed = jobs[i].claimed
    BY <1>t, <1>j, <2>1 DEF TypeOK, JobRow
  <2> QED BY <1>j, <1>u, <2>1, <2>2, <2>3, <2>4, <2>5, CancelledKeeps
<1>2. CASE ~ (Cancelling(j) /\ (c.step = "settle unidentified" => Untouched(j)))
  <2>1. Quiet
    BY <1>2, <1>u DEF Settle, Quiet, JobsSame, Same
  <2> QED BY <1>t, <2>1, QuietForward, QuietKeeps DEF Promises
<1> QED BY <1>1, <1>2

-----------------------------------------------------------------------------
(* The steps of main.                                                      *)

LEMMA NotYetOnMain ==
  ASSUME PInv, NEW j \in Jobs, Main = jobs[j].base
  PROVE  ~ InLog(j)
<1> SUFFICES ASSUME NEW i \in 1..Len(log), log[i] = j PROVE FALSE
  BY DEF InLog
<1>t. log \in Seq(Commits) /\ Len(log) \in Nat /\ Len(log) > 0
  BY DEF PInv, TypeOK
<1>1. i # 1
  BY DEF PInv, LogInv, LogOnce, Root, Jobs
<1>2. i \in 2..Len(log) /\ i - 1 \in 1..Len(log) /\ Len(log) \in 1..Len(log)
  BY <1>1, <1>t
<1>3. log[i - 1] = jobs[j].base
  BY <1>2 DEF PInv, LogInv, LogLinked
<1>4. i - 1 = Len(log)
  BY <1>2, <1>3 DEF PInv, LogInv, LogOnce, Main
<1> QED BY <1>4, <1>t

\* A commit that main does not have yet, on top of what it has.
LEMMA AppendKeeps ==
  ASSUME PInv, NEW x \in Commits, log' = Append(log, x), ~ InLog(x),
         UNCHANGED <<world, jobs, slot, releases, granted, site, gh>>,
         x \in Jobs => Known(x) /\ Main = jobs[x].base
  PROVE  Forward /\ Promises'
<1>t. TypeOK
  BY DEF PInv
<1>n. Len(log) \in Nat /\ Len(log) > 0 /\ log \in Seq(Commits)
  BY <1>t DEF TypeOK
<1>l. /\ Len(log') = Len(log) + 1 /\ log'[Len(log) + 1] = x
      /\ \A i \in 1..Len(log) : log'[i] = log[i]
  BY <1>n
<1>x. \A i \in 1..Len(log) : log[i] # x
  BY DEF InLog
<1>c. \A i \in 1..Len(log') : i \in 1..Len(log) \/ i = Len(log) + 1
  BY <1>l, <1>n
<1>1. Forward
  BY <1>l, <1>n DEF Forward, KeepsJob, KeepsRun, Known
<1>2. RunInv'
  BY RunFrame DEF Known
<1>3. LaneInv'
  BY LaneFrame DEF Active
<1>4. LogInv'
  <2>1. LogOnce'
    <3>1. log'[1] = Root
      BY <1>l, <1>n DEF PInv, LogInv, LogOnce
    <3>2. \A i, k \in 1..Len(log') : log'[i] = log'[k] => i = k
      BY <1>l, <1>x, <1>c DEF PInv, LogInv, LogOnce
    <3> QED BY <3>1, <3>2 DEF LogOnce
  <2>2. LogLinked'
    <3> SUFFICES ASSUME NEW i \in 2..Len(log'), log'[i] \in Jobs
                 PROVE  Known(log'[i]) /\ log'[i - 1] = jobs[log'[i]].base
      BY DEF LogLinked, Known
    <3>1. CASE i \in 2..Len(log)
      <4>1. i \in 1..Len(log) /\ i - 1 \in 1..Len(log)
        BY <3>1, <1>n
      <4>2. log'[i] = log[i] /\ log'[i - 1] = log[i - 1]
        BY <4>1, <1>l
      <4> QED BY <3>1, <4>2 DEF PInv, LogInv, LogLinked
    <3>2. CASE i = Len(log) + 1
      <4>1. log'[i] = x /\ i - 1 = Len(log) /\ Len(log) \in 1..Len(log)
        BY <3>2, <1>l, <1>n
      <4> QED BY <4>1, <1>l DEF Main
    <3> QED BY <3>1, <3>2, <1>l, <1>n
  <2>3. RecordedInLog'
    BY <1>1, InLogKept DEF PInv, LogInv, RecordedInLog
  <2> QED BY <2>1, <2>2, <2>3 DEF LogInv
<1>5. ReleaseInv'
  <2>1. \A j \in Jobs : Released(j) => InLog(j)
    BY DEF PInv, LogInv, ReleaseInv, ReleasedSucceeded, SucceededRecorded, RecordedInLog
  <2>2. ASSUME NEW i \in Jobs, NEW j \in Jobs, Released(i), i # j, Before(i, j)
        PROVE  Before(i, j)'
    <3> SUFFICES ASSUME NEW a \in 1..Len(log'), NEW b \in 1..Len(log'), log'[a] = i, log'[b] = j
                 PROVE  a < b
      BY DEF Before
    <3>1. InLog(i)
      BY <2>1, <2>2
    <3>2. a \in 1..Len(log)
      BY <3>1, <1>l, <1>c
    <3>3. log[a] = i
      BY <3>2, <1>l
    <3>4. CASE b \in 1..Len(log)
      <4>1. log[b] = j
        BY <3>4, <1>l
      <4> QED BY <2>2, <3>2, <3>3, <3>4, <4>1 DEF Before
    <3>5. CASE b = Len(log) + 1
      BY <3>5, <3>2, <1>n
    <3> QED BY <3>4, <3>5, <1>c
  <2>3. SucceededRecorded' /\ ReleasedSucceeded' /\ SucceededReleased'
    BY DEF PInv, ReleaseInv, SucceededRecorded, ReleasedSucceeded, SucceededReleased, Released
  <2>4. ReleasesOrdered'
    <3> SUFFICES ASSUME NEW i \in 1..Len(releases), NEW k \in 1..Len(releases), i < k
                 PROVE  Before(releases[i], releases[k])'
      BY DEF ReleasesOrdered
    <3>1. Before(releases[i], releases[k])
      BY DEF PInv, ReleaseInv, ReleasesOrdered
    <3>2. PICK a \in Jobs, b \in Jobs : a = releases[i] /\ b = releases[k]
      BY <1>t DEF TypeOK
    <3>3. Released(a) /\ Released(b)
      BY <3>2 DEF Released
    <3>4. PICK p \in 1..Len(log) : log[p] = a
      BY <3>3, <2>1 DEF InLog
    <3>5. a # b
      <4> SUFFICES ASSUME a = b PROVE FALSE
        OBVIOUS
      <4>1. p < p
        BY <3>1, <3>2, <3>4 DEF Before
      <4> QED BY <4>1
    <3>6. Before(a, b)'
      BY <3>1, <3>2, <3>3, <3>5, <2>2
    <3> QED BY <3>2, <3>6 DEF Before
  <2>5. ActiveLast'
    <3> SUFFICES ASSUME NEW i \in Jobs, NEW j \in Jobs, Released(i), Active(j)
                 PROVE  Before(i, j)'
      BY DEF ActiveLast, Released, Active
    <3>1. Before(i, j)
      BY DEF PInv, ReleaseInv, ActiveLast
    <3>2. i # j
      BY DEF PInv, ReleaseInv, ReleasedSucceeded, Active
    <3> QED BY <3>1, <3>2, <2>2
  <2> QED BY <2>3, <2>4, <2>5 DEF ReleaseInv
<1>6. FreedMeansStopped'
  BY <1>1, StopFrame
<1>7. LiveIsReviewed'
  BY LiveFrame
<1> QED BY <1>1, <1>2, <1>3, <1>4, <1>5, <1>6, <1>7 DEF Promises

LEMMA PushKeeps ==
  ASSUME PInv, Push
  PROVE  Forward /\ Promises'
<1>1. Foreign \in Commits /\ Foreign \notin Jobs
  BY NatTypes, PublicationAssumption DEF Foreign, Jobs
<1>2. ~ InLog(Foreign)
  BY DEF Push, InLog
<1>3. UNCHANGED <<world, jobs, slot, releases, granted, site, gh>> /\ log' = Append(log, Foreign)
  BY DEF Push, server
<1> QED BY <1>1, <1>2, <1>3, AppendKeeps

LEMMA WriteKeeps ==
  ASSUME PInv, NEW c \in calls, WriteMain(c)
  PROVE  Forward /\ Promises'
<1>t. TypeOK /\ Founded(c) /\ c.step = "write"
  BY DEF PInv, CallsFounded, WriteMain, At
<1>j. c.job \in Jobs /\ Known(c.job) /\ c.seen = jobs[c.job].base
  BY <1>t, CallShape DEF Founded, ReadsMain
<1>u. UNCHANGED <<world, jobs, slot, releases, granted, site, gh>>
  BY DEF WriteMain, server
<1>1. CASE Expected(c)
  <2>1. log' = Append(log, c.job) /\ Main = jobs[c.job].base
    BY <1>1, <1>j DEF WriteMain, Expected
  <2>2. ~ InLog(c.job)
    BY <2>1, <1>j, NotYetOnMain
  <2> QED BY <1>j, <1>u, <2>1, <2>2, NatTypes, AppendKeeps
<1>2. CASE ~ Expected(c)
  <2>1. Quiet
    BY <1>2, <1>u DEF WriteMain, Quiet, JobsSame, Same
  <2> QED BY <1>t, <2>1, QuietForward, QuietKeeps DEF Promises
<1> QED BY <1>1, <1>2

-----------------------------------------------------------------------------
(* The other steps of a handler.                                           *)

LEMMA CreateKeeps ==
  ASSUME PInv, NEW c \in calls, NEW k \in Jobs, Create(c, k)
  PROVE  Forward /\ Promises'
<1>t. TypeOK
  BY DEF PInv
<1>u. UNCHANGED <<world, releases, granted, log, site, gh>>
  BY DEF Create, github
<1>k. jobs[k].status = "none" /\ slot = None /\ slot' = k /\ \A j \in Jobs : ~ Active(j)
  BY DEF Create, Fresh, Available
<1>n. jobs'[k].status = "queued" /\ ~ jobs'[k].granted /\ ~ jobs'[k].recorded
  BY <1>t DEF Create, NewJob, TypeOK
<1>o. \A j \in Jobs : j # k => jobs'[j] = jobs[j]
  BY <1>t DEF Create, TypeOK
<1>i. ~ InLog(k)
  <2> SUFFICES ASSUME NEW i \in 1..Len(log), log[i] = k PROVE FALSE
    BY DEF InLog
  <2>1. i # 1
    BY DEF PInv, LogInv, LogOnce, Root, Jobs
  <2>2. i \in 2..Len(log)
    BY <2>1, <1>t DEF TypeOK
  <2> QED BY <2>2, <1>k DEF PInv, LogInv, LogLinked, Known
<1>g. ~ jobs[k].granted /\ k # None
  BY <1>k DEF PInv, LaneInv, GrantedGoesOn, Jobs, None
<1>1. Forward
  BY <1>u, <1>k, <1>o DEF Forward, KeepsJob, KeepsRun, Known
<1>2. RunInv'
  <2>1. RunsKnown'
    BY <1>u, <1>k, <1>o DEF PInv, RunInv, RunsKnown, Known
  <2>2. ToldGranted'
    BY <1>u, <1>k, <1>o DEF PInv, RunInv, RunsKnown, ToldGranted, Known
  <2>3. Deploying'
    <3>1. \A r \in Runs : ~ (gh[r].state = "active" /\ gh[r].at = "granted")
      BY <1>k DEF PInv, RunInv, RunsKnown, Deploying, None, Jobs
    <3> QED BY <3>1, <1>u DEF Deploying
  <2>4. SiteGranted'
    <3>1. site # None => site \in Jobs /\ jobs[site].granted
      BY <1>t DEF PInv, RunInv, SiteGranted, TypeOK, None, Jobs
    <3> QED BY <3>1, <1>u, <1>g, <1>o DEF SiteGranted
  <2> QED BY <2>1, <2>2, <2>3, <2>4 DEF RunInv
<1>3. LaneInv'
  BY <1>u, <1>k, <1>n, <1>o DEF PInv, LaneInv, HolderActive, GrantedGoesOn, HolderGranted, Active
<1>4. LogInv'
  BY <1>u, <1>k, <1>n, <1>o, LogFrame DEF Known
<1>5. ReleaseInv'
  <2>1. \A j \in Jobs : /\ jobs'[j].status = "succeeded" <=> jobs[j].status = "succeeded"
                        /\ jobs[j].status = "succeeded" /\ jobs[j].recorded => jobs'[j].recorded
                        /\ Active(j)' => Active(j) \/ ~ InLog(j)
    BY <1>k, <1>n, <1>o, <1>i DEF Active
  <2> QED BY <1>u, <2>1, ReleaseFrame
<1>6. FreedMeansStopped'
  BY <1>1, <1>k, <1>n, <1>o, StopFrame DEF None, Jobs
<1>7. LiveIsReviewed'
  BY <1>u, <1>n, <1>o, LiveFrame
<1> QED BY <1>1, <1>2, <1>3, <1>4, <1>5, <1>6, <1>7 DEF Promises

LEMMA PostKeeps ==
  ASSUME PInv, NEW c \in calls, NEW r \in Runs, PostDispatch(c, r)
  PROVE  Forward /\ Promises'
<1>t. TypeOK /\ Founded(c)
  BY DEF PInv, CallsFounded
<1>u. UNCHANGED <<world, jobs, slot, releases, granted, log, site>>
  BY DEF PostDispatch, server
<1>j. c.job \in Jobs /\ Known(c.job)
  BY <1>t, CallShape DEF Founded, PostDispatch, At
<1>g. /\ gh[r].state = "unused" /\ gh'[r].state = "active" /\ gh'[r].job = c.job
      /\ gh'[r].at = "start"
      /\ \A q \in Runs : q # r => gh'[q] = gh[q]
  BY <1>t DEF PostDispatch, TypeOK
<1>1. Forward
  BY <1>u, <1>g DEF Forward, KeepsJob, KeepsRun, Known
<1>2. RunInv'
  <2>1. RunsKnown'
    BY <1>u, <1>g, <1>j DEF PInv, RunInv, RunsKnown, Known
  <2>2. ToldGranted' /\ Deploying'
    BY <1>u, <1>g DEF PInv, RunInv, ToldGranted, Deploying
  <2>3. SiteGranted'
    BY <1>u DEF PInv, RunInv, SiteGranted
  <2> QED BY <2>1, <2>2, <2>3 DEF RunInv
<1>3. LaneInv'
  BY <1>u, LaneFrame DEF Active
<1>4. LogInv'
  BY <1>u, LogFrame DEF Known
<1>5. ReleaseInv'
  BY <1>u, ReleaseFrame DEF Active
<1>6. FreedMeansStopped'
  BY <1>1, <1>u, StopFrame
<1>7. LiveIsReviewed'
  BY <1>u, LiveFrame
<1> QED BY <1>1, <1>2, <1>3, <1>4, <1>5, <1>6, <1>7 DEF Promises

LEMMA RecordKeeps ==
  ASSUME PInv, NEW c \in calls, RecordCommit(c)
  PROVE  Forward /\ Promises'
<1> DEFINE k == c.job
<1>t. TypeOK /\ Founded(c)
  BY DEF PInv, CallsFounded
<1>k. k \in Jobs /\ c.run \in Runs /\ InLog(k)
  BY <1>t, CallShape DEF Founded, ReadsMain, RecordCommit, At
<1>u. UNCHANGED <<world, slot, releases, granted, log, site>>
      /\ jobs' = [jobs EXCEPT ![k].recorded = TRUE]
  BY DEF RecordCommit
<1>m. Moves(c.run, "committed")
  BY <1>t, <1>k, RunMoves DEF RecordCommit, Points
<1> HIDE DEF k
<1>j. \A j \in Jobs : /\ jobs'[j].status = jobs[j].status /\ jobs'[j].base = jobs[j].base
                      /\ jobs[j].recorded => jobs'[j].recorded
                      /\ jobs'[j].recorded => jobs[j].recorded \/ j = k
                      /\ jobs'[j].granted = jobs[j].granted
                      /\ jobs'[j].reserved = jobs[j].reserved
                      /\ jobs'[j].claimed = jobs[j].claimed
  BY <1>t, <1>k, <1>u DEF TypeOK, JobRow
<1>1. Forward
  <2>1. \A j \in Jobs : Known(j) => KeepsJob(j)
    BY <1>u, <1>j DEF KeepsJob, Known
  <2> QED BY <1>t, <1>u, <1>m, <1>k, <2>1, MovesForward DEF Points
<1>2. RunInv'
  BY <1>u, <1>m, <1>j, <1>k, MovesFrame DEF Points, Known
<1>3. LaneInv'
  BY <1>u, <1>j, LaneFrame DEF Active
<1>4. LogInv'
  BY <1>u, <1>j, <1>k, LogFrame DEF Known
<1>5. ReleaseInv'
  BY <1>u, <1>j, ReleaseFrame DEF Active
<1>6. FreedMeansStopped'
  BY <1>1, <1>u, <1>j, StopFrame
<1>7. LiveIsReviewed'
  BY <1>u, <1>j, LiveFrame
<1> QED BY <1>1, <1>2, <1>3, <1>4, <1>5, <1>6, <1>7 DEF Promises

LEMMA GrantKeeps ==
  ASSUME PInv, NEW c \in calls, GrantDeployment(c)
  PROVE  Forward /\ Promises'
<1>t. TypeOK /\ Founded(c)
  BY DEF PInv, CallsFounded
<1>u. UNCHANGED <<world, slot, releases, log, site>>
  BY DEF GrantDeployment
<1>1. CASE Execute(c.run)
  <2> DEFINE k == c.job  r == c.run
  <2>k. k \in Jobs /\ r \in Runs /\ gh[r].job = k
    <3>1. k \in Jobs /\ r \in Runs
      BY <1>t, CallShape DEF Founded, GrantDeployment, At
    <3>2. r # None
      BY <3>1 DEF Runs, None
    <3> QED BY <1>t, <3>1, <3>2 DEF Founded, OfItsRun
  <2>h. slot = k /\ jobs[k].status = "running" /\ jobs[k].claimed = r
    BY <1>1, <2>k DEF Execute, Authorized, Bound
  <2>u. jobs' = [jobs EXCEPT ![k].granted = TRUE] /\ granted' = k
    BY <1>1 DEF GrantDeployment
  <2>m. Moves(r, "granted")
    BY <1>t, <1>1, <2>k, RunMoves DEF GrantDeployment, Points
  <2>r. gh[r].state # "unused"
    BY <1>t, <2>k DEF Founded, OfItsRun, Runs, None
  <2> HIDE DEF k, r
  <2>j. \A j \in Jobs : /\ jobs'[j].status = jobs[j].status /\ jobs'[j].base = jobs[j].base
                        /\ jobs'[j].recorded = jobs[j].recorded
                        /\ jobs[j].granted => jobs'[j].granted
                        /\ jobs'[j].granted => jobs[j].granted \/ j = k
                        /\ jobs'[j].reserved = jobs[j].reserved
                        /\ jobs'[j].claimed = jobs[j].claimed
    BY <1>t, <2>k, <2>u DEF TypeOK, JobRow
  <2>g. jobs'[k].granted
    BY <1>t, <2>k, <2>u DEF TypeOK, JobRow
  <2>1. Forward
    <3>1. \A j \in Jobs : Known(j) => KeepsJob(j)
      BY <1>u, <2>j DEF KeepsJob, Known
    <3> QED BY <1>t, <1>u, <2>m, <2>k, <3>1, MovesForward DEF Points
  <2>2. RunInv'
    <3>1. RunsKnown'
      BY <2>m, <2>j DEF PInv, RunInv, RunsKnown, Known, Moves
    <3>2. ToldGranted'
      <4> SUFFICES ASSUME NEW q \in Runs,
                          gh'[q].at \in {"granted", "deployed", "reported", "finalized"}
                   PROVE  gh'[q].state # "unused" /\ jobs'[gh'[q].job].granted
        BY DEF ToldGranted
      <4>1. CASE q = r
        BY <4>1, <2>m, <2>k, <2>r, <2>g DEF Moves
      <4>2. CASE q # r
        BY <4>2, <2>m, <2>j DEF PInv, RunInv, RunsKnown, ToldGranted, Moves
      <4> QED BY <4>1, <4>2
    <3>3. Deploying'
      <4> SUFFICES ASSUME NEW q \in Runs, gh'[q].state = "active" /\ gh'[q].at = "granted"
                   PROVE  slot' = gh'[q].job /\ jobs'[slot'].status = "running"
                          /\ jobs'[slot'].claimed = q
        BY DEF Deploying
      <4>1. CASE q = r
        BY <4>1, <1>u, <2>m, <2>k, <2>h, <2>j DEF Moves
      <4>2. CASE q # r
        BY <4>2, <1>u, <2>m, <2>j DEF PInv, RunInv, RunsKnown, Deploying, Moves
      <4> QED BY <4>1, <4>2
    <3>4. SiteGranted'
      <4>1. site # None => site \in Jobs
        BY <1>t DEF TypeOK, None, Jobs
      <4> QED BY <4>1, <1>u, <2>j DEF PInv, RunInv, SiteGranted
    <3> QED BY <3>1, <3>2, <3>3, <3>4 DEF RunInv
  <2>3. LaneInv'
    BY <1>u, <2>u, <2>h, <2>j DEF PInv, LaneInv, HolderActive, GrantedGoesOn, HolderGranted, Active
  <2>4. LogInv'
    BY <1>u, <2>j, LogFrame DEF Known
  <2>5. ReleaseInv'
    BY <1>u, <2>j, ReleaseFrame DEF Active
  <2>6. FreedMeansStopped'
    BY <2>1, <1>u, <2>j, StopFrame
  <2>7. LiveIsReviewed'
    BY <2>u, <2>h, <2>j DEF LiveIsReviewed
  <2> QED BY <2>1, <2>2, <2>3, <2>4, <2>5, <2>6, <2>7 DEF Promises
<1>2. CASE ~ Execute(c.run)
  <2>1. Quiet
    BY <1>2, <1>u DEF GrantDeployment, Quiet, JobsSame, Same
  <2> QED BY <1>t, <2>1, QuietForward, QuietKeeps DEF Promises
<1> QED BY <1>1, <1>2

\* A job that succeeds: it held the lane, its deployment is recorded, and no run deploys.
LEMMA SucceedKeeps ==
  ASSUME PInv, NEW j \in Jobs,
         slot = j, jobs[j].status \in {"running", "succeeded"},
         jobs[j].recorded, jobs[j].granted, site = j,
         \A r \in Runs : ~ (gh[r].state = "active" /\ gh[r].at = "granted"),
         UNCHANGED <<world, granted, log, site>>,
         releases' = ReleasesWith(j),
         slot' = (IF world.target = "production" THEN None ELSE slot),
         jobs'[j].status = "succeeded",
         \A i \in Jobs : /\ i # j => jobs'[i].status = jobs[i].status
                         /\ jobs'[i].base = jobs[i].base /\ jobs'[i].recorded = jobs[i].recorded
                         /\ jobs'[i].granted = jobs[i].granted
                         /\ jobs'[i].reserved = jobs[i].reserved
                         /\ jobs'[i].claimed = jobs[i].claimed,
         gh' = gh \/ \E r \in Runs : Moves(r, "finalized") /\ gh[r].at = "reported"
  PROVE  Forward /\ Promises'
<1>t. TypeOK
  BY DEF PInv
<1>n. j # None /\ slot' \in {None, j}
  BY DEF Jobs, None
<1>1. Forward
  <2>1. \A r \in Runs : gh[r].state # "unused" => KeepsRun(r)
    BY DEF KeepsRun, Moves
  <2>2. \A i \in Jobs : Known(i) => KeepsJob(i)
    BY <1>n DEF KeepsJob, Known, None, Jobs
  <2>3. \A i \in 1..Len(log) : i \in 1..Len(log') /\ log'[i] = log[i]
    OBVIOUS
  <2> QED BY <2>1, <2>2, <2>3 DEF Forward
<1>2. RunInv'
  <2>k. \A i \in Jobs : Known(i) => jobs'[i].status # "none"
    BY DEF Known
  <2>1. RunsKnown'
    <3>1. CASE gh' = gh
      BY <3>1, <2>k DEF PInv, RunInv, RunsKnown, Known
    <3>2. ASSUME NEW r \in Runs, Moves(r, "finalized") PROVE RunsKnown'
      BY <3>2, <2>k DEF PInv, RunInv, RunsKnown, Known, Moves
    <3> QED BY <3>1, <3>2
  <2>2. ToldGranted'
    <3>1. CASE gh' = gh
      BY <3>1 DEF PInv, RunInv, RunsKnown, ToldGranted
    <3>2. ASSUME NEW r \in Runs, Moves(r, "finalized"), gh[r].at = "reported" PROVE ToldGranted'
      <4> SUFFICES ASSUME NEW q \in Runs,
                          gh'[q].at \in {"granted", "deployed", "reported", "finalized"}
                   PROVE  gh'[q].state # "unused" /\ jobs'[gh'[q].job].granted
        BY DEF ToldGranted
      <4>1. gh[q].at \in {"granted", "deployed", "reported", "finalized"}
        BY <3>2 DEF Moves
      <4> QED BY <4>1, <3>2 DEF PInv, RunInv, RunsKnown, ToldGranted, Moves
    <3> QED BY <3>1, <3>2
  <2>3. Deploying'
    <3>1. \A r \in Runs : ~ (gh'[r].state = "active" /\ gh'[r].at = "granted")
      BY DEF Moves
    <3> QED BY <3>1 DEF Deploying
  <2>4. SiteGranted'
    BY DEF SiteGranted
  <2> QED BY <2>1, <2>2, <2>3, <2>4 DEF RunInv
<1>3. LaneInv'
  <2>1. \A i \in Jobs : ~ Active(i)'
    BY DEF PInv, LaneInv, HolderActive, Active
  <2>2. HolderActive' /\ GrantedGoesOn'
    BY <2>1 DEF PInv, LaneInv, HolderActive, GrantedGoesOn
  <2>3. HolderGranted'
    BY <1>n DEF PInv, LaneInv, HolderGranted
  <2> QED BY <2>2, <2>3 DEF LaneInv
<1>4. LogInv'
  BY LogFrame DEF Known
<1>5. ReleaseInv'
  <2>s. Len(releases) \in Nat /\ releases \in Seq(Jobs)
    BY <1>t DEF TypeOK
  <2>a. \A i \in Jobs : ~ Active(i)'
    BY DEF PInv, LaneInv, HolderActive, Active
  <2>1. SucceededRecorded'
    BY DEF PInv, ReleaseInv, SucceededRecorded
  <2>2. ActiveLast'
    BY <2>a DEF ActiveLast
  <2>3. CASE releases' = releases
    <3>1. ReleasedSucceeded' /\ ReleasesOrdered'
      BY <2>3 DEF PInv, ReleaseInv, ReleasedSucceeded, Released, ReleasesOrdered, Before
    <3>2. SucceededReleased'
      <4> SUFFICES ASSUME world.target = "production", NEW i \in Jobs,
                          jobs'[i].status = "succeeded"
                   PROVE  Released(i)
        BY <2>3 DEF SucceededReleased, Released
      <4>1. CASE i # j
        BY <4>1 DEF PInv, ReleaseInv, SucceededReleased
      <4>2. CASE i = j
        <5> SUFFICES ASSUME ~ Released(j) PROVE FALSE
          BY <4>2
        <5>1. releases' = Append(releases, j)
          BY DEF ReleasesWith, Released
        <5>2. Len(releases') = Len(releases) + 1
          BY <5>1, <2>s
        <5> QED BY <5>2, <2>3, <2>s
      <4> QED BY <4>1, <4>2
    <3> QED BY <2>1, <2>2, <3>1, <3>2 DEF ReleaseInv
  <2>4. CASE world.target = "production" /\ releases' = Append(releases, j) /\ ~ Released(j)
    <3>1. /\ Len(releases') = Len(releases) + 1 /\ releases'[Len(releases) + 1] = j
          /\ \A i \in 1..Len(releases) : releases'[i] = releases[i]
      BY <2>4, <2>s
    <3>2. \A i \in 1..Len(releases') : i \in 1..Len(releases) \/ i = Len(releases) + 1
      BY <3>1, <2>s
    <3>3. \A i \in Jobs : Released(i) => Released(i)'
      BY <3>1, <2>s DEF Released
    <3>4. Released(j)'
      BY <3>1, <2>s DEF Released
    <3>5. ReleasedSucceeded'
      BY <3>1, <3>2 DEF PInv, ReleaseInv, ReleasedSucceeded, Released
    <3>6. SucceededReleased'
      <4> SUFFICES ASSUME NEW i \in Jobs, jobs'[i].status = "succeeded" PROVE Released(i)'
        BY DEF SucceededReleased, Released
      <4> QED BY <2>4, <3>3, <3>4 DEF PInv, ReleaseInv, SucceededReleased
    <3>7. jobs[j].status = "running"
      BY <2>4 DEF PInv, ReleaseInv, SucceededReleased
    <3>8. ReleasesOrdered'
      <4> SUFFICES ASSUME NEW i \in 1..Len(releases'), NEW k \in 1..Len(releases'), i < k
                   PROVE  Before(releases'[i], releases'[k])
        BY DEF ReleasesOrdered, Before
      <4>1. i \in 1..Len(releases)
        BY <3>1, <3>2, <2>s
      <4>2. CASE k \in 1..Len(releases)
        BY <4>1, <4>2, <3>1 DEF PInv, ReleaseInv, ReleasesOrdered
      <4>3. CASE k = Len(releases) + 1
        <5>1. PICK a \in Jobs : a = releases[i]
          BY <4>1, <2>s
        <5>2. Released(a) /\ Active(j)
          BY <4>1, <5>1, <3>7 DEF Released, Active
        <5>3. Before(a, j)
          BY <5>2 DEF PInv, ReleaseInv, ActiveLast
        <5> QED BY <5>1, <5>3, <4>1, <4>3, <3>1
      <4> QED BY <4>2, <4>3, <3>2
    <3> QED BY <2>1, <2>2, <3>5, <3>6, <3>8 DEF ReleaseInv
  <2> QED BY <2>3, <2>4 DEF ReleasesWith, Released
<1>6. FreedMeansStopped'
  <2>1. \A i \in Jobs : jobs'[i].status = "cancelled" => i # j /\ jobs[i].status = "cancelled"
    OBVIOUS
  <2> QED BY <1>1, <2>1, StopFrame
<1>7. LiveIsReviewed'
  BY DEF PInv, LiveIsReviewed
<1> QED BY <1>1, <1>2, <1>3, <1>4, <1>5, <1>6, <1>7 DEF Promises

LEMMA FinishKeeps ==
  ASSUME PInv, NEW c \in calls, Finish(c)
  PROVE  Forward /\ Promises'
<1> DEFINE j == c.job
<1>t. TypeOK /\ Founded(c) /\ c.step = "finish"
  BY DEF PInv, CallsFounded, Finish
<1>s. j \in Jobs /\ c.op \in {"finalize", "complete", "verify"} /\ (c.op = "finalize" => c.run \in Runs)
  BY <1>t, CallShape DEF Founded
<1>f. /\ jobs[j].recorded /\ jobs[j].granted
      /\ c.op = "finalize" => gh[c.run].at = "reported"
      /\ c.op # "finalize" => Done(jobs[j].claimed)
      /\ slot = j => site = j
  BY <1>t DEF Founded, Finishes
<1>o. c.op = "finalize" => gh[c.run].job = j
  BY <1>t, <1>s DEF Founded, OfItsRun, Runs, None
<1>u. UNCHANGED <<world, granted, log, site>>
  BY DEF Finish
<1>1. CASE MayFinish(c)
  <2>1. slot = j /\ jobs[j].status \in {"running", "succeeded"}
    <3>1. CASE c.op = "finalize"
      BY <3>1, <1>1, <1>o DEF MayFinish, Finalizing, Authorized
    <3>2. CASE c.op = "complete"
      BY <3>2, <1>1 DEF MayFinish, Completable
    <3>3. CASE c.op = "verify"
      BY <3>3, <1>1 DEF MayFinish, Verifiable
    <3> QED BY <1>s, <3>1, <3>2, <3>3
  <2>2. \A r \in Runs : ~ (gh[r].state = "active" /\ gh[r].at = "granted")
    <3> SUFFICES ASSUME NEW r \in Runs, gh[r].state = "active", gh[r].at = "granted"
                 PROVE  FALSE
      OBVIOUS
    <3>1. slot = gh[r].job /\ jobs[slot].claimed = r
      BY DEF PInv, RunInv, Deploying
    <3>2. CASE c.op = "finalize"
      <4>1. jobs[j].claimed = c.run
        BY <3>2, <1>1, <1>o DEF MayFinish, Finalizing, Bound
      <4> QED BY <4>1, <3>1, <3>2, <2>1, <1>f
    <3>3. CASE c.op # "finalize"
      BY <3>1, <3>3, <2>1, <1>f DEF Done
    <3> QED BY <3>2, <3>3
  <2>3. /\ jobs' = [jobs EXCEPT ![j].status = "succeeded", ![j].reported = @ \/ c.op = "verify"]
        /\ releases' = ReleasesWith(j)
        /\ slot' = (IF world.target = "production" THEN None ELSE slot)
    BY <1>1 DEF Finish
  <2>4. gh' = gh \/ \E r \in Runs : Moves(r, "finalized") /\ gh[r].at = "reported"
    <3>1. CASE c.op = "finalize"
      <4>1. Told(c.run, "finalized")
        BY <1>1, <3>1 DEF Finish
      <4>2. Moves(c.run, "finalized")
        BY <4>1, <1>s, <1>t, <3>1, RunMoves DEF Points
      <4> QED BY <4>2, <1>s, <1>f, <3>1
    <3>2. CASE c.op # "finalize"
      BY <1>1, <3>2 DEF Finish
    <3> QED BY <3>1, <3>2
  <2> HIDE DEF j
  <2>5. jobs'[j].status = "succeeded"
    BY <2>3, <1>s, <1>t DEF TypeOK, JobRow
  <2>6. \A i \in Jobs : /\ i # j => jobs'[i].status = jobs[i].status
                        /\ jobs'[i].base = jobs[i].base /\ jobs'[i].recorded = jobs[i].recorded
                        /\ jobs'[i].granted = jobs[i].granted
                        /\ jobs'[i].reserved = jobs[i].reserved
                        /\ jobs'[i].claimed = jobs[i].claimed
    BY <2>3, <1>s, <1>t DEF TypeOK, JobRow
  <2> QED BY <1>s, <1>f, <1>u, <2>1, <2>2, <2>3, <2>4, <2>5, <2>6, SucceedKeeps
<1>2. CASE ~ MayFinish(c)
  <2>1. Quiet
    BY <1>2, <1>u DEF Finish, Quiet, JobsSame, Same
  <2> QED BY <1>t, <2>1, QuietForward, QuietKeeps DEF Promises
<1> QED BY <1>1, <1>2

-----------------------------------------------------------------------------
(* What the handlers in flight stand on stays true, and a run has one.     *)

AtKept == \A c \in calls : c \in calls' /\ c.op = "finalize" => gh'[c.run].at = gh[c.run].at

LEMMA CallsLeft ==
  ASSUME PInv, Forward, AtKept, calls' \subseteq calls
  PROVE  CallsFounded' /\ OnePerRun'
<1>1. ASSUME NEW c \in calls' PROVE Founded(c)'
  BY <1>1, CallKept DEF PInv, CallsFounded, AtKept
<1>2. OnePerRun'
  BY DEF PInv, OnePerRun
<1> QED BY <1>1, <1>2 DEF CallsFounded

LEMMA CallAdded ==
  ASSUME PInv, Forward, AtKept, NEW d, Founded(d)',
         calls' \subseteq calls \cup {d},
         \A c \in calls : c \in calls' /\ d.run # None /\ c.run = d.run => c = d
  PROVE  CallsFounded' /\ OnePerRun'
<1>1. ASSUME NEW c \in calls' PROVE Founded(c)'
  <2>1. CASE c \in calls
    BY <1>1, <2>1, CallKept DEF PInv, CallsFounded, AtKept
  <2>2. CASE c = d
    BY <2>2
  <2> QED BY <1>1, <2>1, <2>2
<1>2. OnePerRun'
  BY DEF PInv, OnePerRun
<1> QED BY <1>1, <1>2 DEF CallsFounded

\* A new handler, in a step that asks nothing of GitHub.
LEMMA CallBegun ==
  ASSUME PInv, Quiet, NEW d, Founded(d), calls' = calls \cup {d},
         d.run # None => Idle(d.run)
  PROVE  CallsFounded' /\ OnePerRun'
<1>1. Forward
  BY QuietForward DEF PInv
<1>2. AtKept /\ gh' = gh
  BY DEF AtKept, Quiet
<1>3. Founded(d)'
  BY <1>1, <1>2, CallKept DEF PInv
<1> QED BY <1>1, <1>2, <1>3, CallAdded DEF Idle

\* A handler that goes on, in such a step.
LEMMA CallWent ==
  ASSUME PInv, Quiet, NEW c \in calls, NEW step, NEW seen, Goes(c, step, seen),
         Founded([c EXCEPT !.step = step, !.seen = seen])
  PROVE  CallsFounded' /\ OnePerRun'
<1> DEFINE d == [c EXCEPT !.step = step, !.seen = seen]
<1>1. Forward
  BY QuietForward DEF PInv
<1>2. AtKept /\ gh' = gh
  BY DEF AtKept, Quiet
<1>3. Founded(d)'
  BY <1>1, <1>2, CallKept DEF PInv
<1>4. d.run = c.run
  BY CallFields DEF PInv, Call
<1>5. calls' = (calls \ {c}) \cup {d}
  BY DEF Goes
<1> HIDE DEF d
<1>6. \A b \in calls : b \in calls' /\ d.run # None /\ b.run = d.run => b = d
  BY <1>4, <1>5 DEF PInv, OnePerRun
<1> QED BY <1>1, <1>2, <1>3, <1>5, <1>6, CallAdded

LEMMA QuietCalls ==
  ASSUME PInv, Quiet, calls' \subseteq calls
  PROVE  CallsFounded' /\ OnePerRun'
<1>1. AtKept
  BY DEF AtKept, Quiet
<1> QED BY <1>1, QuietForward, CallsLeft DEF PInv

\* The fields of a handler.
LEMMA NewCallFields ==
  ASSUME NEW op, NEW j, NEW r, NEW step, NEW seen
  PROVE  LET d == NewCall(op, j, r, step, seen)
         IN  d.op = op /\ d.job = j /\ d.run = r /\ d.step = step /\ d.seen = seen
  BY DEF NewCall

LEMMA WentFields ==
  ASSUME TypeOK, NEW c \in calls, NEW step, NEW seen
  PROVE  LET d == [c EXCEPT !.step = step, !.seen = seen]
         IN  d.op = c.op /\ d.job = c.job /\ d.run = c.run /\ d.step = step /\ d.seen = seen
  BY CallFields DEF Call

LEMMA BegunByJob ==
  ASSUME PInv, NEW j \in Jobs,
         \/ BeginRetry(j) \/ ReserveDispatch(j) \/ BeginComplete(j)
         \/ BeginVerify(j) \/ BeginContinue(j)
  PROVE  CallsFounded' /\ OnePerRun'
<1>q. Quiet
  BY QuietSteps DEF PInv
<1>1. CASE BeginRetry(j)
  <2> DEFINE d == NewCall("retry", j, None, "create", Main)
  <2>1. d.op = "retry" /\ d.job = j /\ d.run = None /\ d.step = "create"
    BY NewCallFields
  <2>2. calls' = calls \cup {d} /\ Known(j)
    BY <1>1 DEF BeginRetry, Retryable, Begin, Known
  <2> HIDE DEF d
  <2>3. Founded(d)
    BY <2>1, <2>2 DEF Founded, Shape, ForJob, OfItsRun, ReadsMain, Continues, Finishes
  <2> QED BY <1>q, <2>1, <2>2, <2>3, CallBegun
<1>2. CASE ReserveDispatch(j)
  <2> DEFINE d == NewCall("dispatch", j, None, "check", jobs[j].base)
  <2>1. d.op = "dispatch" /\ d.job = j /\ d.run = None /\ d.step = "check"
    BY NewCallFields
  <2>2. calls' = calls \cup {d} /\ Known(j)
    BY <1>2 DEF ReserveDispatch, Eligible, Begin, Known
  <2> HIDE DEF d
  <2>3. Founded(d)
    BY <2>1, <2>2 DEF Founded, Shape, ForJob, OfItsRun, ReadsMain, Continues, Finishes
  <2> QED BY <1>q, <2>1, <2>2, <2>3, CallBegun
<1>3. CASE BeginComplete(j)
  <2> DEFINE d == NewCall("complete", j, None, "finish", j)
  <2>1. d.op = "complete" /\ d.job = j /\ d.run = None /\ d.step = "finish"
    BY NewCallFields
  <2>2. calls' = calls \cup {d} /\ Known(j)
    BY <1>3 DEF BeginComplete, Completable, Begin, Known
  <2> HIDE DEF d
  <2>3. Finishes(d)
    BY <1>3, <2>1 DEF BeginComplete, Completable, Proof, Finishes
  <2>4. Founded(d)
    BY <2>1, <2>2, <2>3 DEF Founded, Shape, ForJob, OfItsRun, ReadsMain, Continues
  <2> QED BY <1>q, <2>1, <2>2, <2>4, CallBegun
<1>4. CASE BeginVerify(j)
  <2> DEFINE d == NewCall("verify", j, None, "finish", j)
  <2>1. d.op = "verify" /\ d.job = j /\ d.run = None /\ d.step = "finish"
    BY NewCallFields
  <2>2. calls' = calls \cup {d} /\ Known(j)
    BY <1>4 DEF BeginVerify, Verifiable, Begin, Known
  <2> HIDE DEF d
  <2>3. Finishes(d)
    BY <1>4, <2>1 DEF BeginVerify, Verifiable, VerifiedProof, Finishes
  <2>4. Founded(d)
    BY <2>1, <2>2, <2>3 DEF Founded, Shape, ForJob, OfItsRun, ReadsMain, Continues
  <2> QED BY <1>q, <2>1, <2>2, <2>4, CallBegun
<1>5. CASE BeginContinue(j)
  <2> DEFINE d == NewCall("continue", j, None, "list", jobs[j].base)
  <2>1. d.op = "continue" /\ d.job = j /\ d.run = None /\ d.step = "list"
    BY NewCallFields
  <2>2. calls' = calls \cup {d} /\ jobs[j].status = "cancelled"
    BY <1>5 DEF BeginContinue, Cancelling
  <2> HIDE DEF d
  <2>3. Founded(d)
    BY <2>1, <2>2 DEF Founded, Shape, ForJob, OfItsRun, ReadsMain, Continues, Finishes, Known
  <2> QED BY <1>q, <2>1, <2>2, <2>3, CallBegun
<1> QED BY <1>1, <1>2, <1>3, <1>4, <1>5

LEMMA BegunByRun ==
  ASSUME PInv, NEW r \in Runs, BeginCommit(r) \/ BeginAuthorize(r) \/ BeginFinalize(r)
  PROVE  CallsFounded' /\ OnePerRun'
<1> DEFINE j == gh[r].job
<1>q. Quiet
  BY QuietSteps DEF PInv
<1>r. gh[r].state # "unused" /\ j \in Jobs /\ Known(j) /\ r # None /\ Idle(r)
  BY DEF PInv, RunInv, RunsKnown, BeginCommit, BeginAuthorize, BeginFinalize, Asks, Runs, None
<1>1. CASE BeginCommit(r)
  <2> DEFINE d == NewCall("commit", j, r, "read", jobs[j].base)
  <2>1. d.op = "commit" /\ d.job = j /\ d.run = r /\ d.step = "read"
    BY NewCallFields
  <2>2. calls' = calls \cup {d}
    BY <1>1 DEF BeginCommit, Begin
  <2> HIDE DEF d
  <2>3. Founded(d)
    BY <1>r, <2>1 DEF Founded, Shape, ForJob, OfItsRun, ReadsMain, Continues, Finishes
  <2> QED BY <1>q, <1>r, <2>1, <2>2, <2>3, CallBegun
<1>2. CASE BeginAuthorize(r)
  <2> DEFINE d == NewCall("authorize", j, r, "grant", j)
  <2>1. d.op = "authorize" /\ d.job = j /\ d.run = r /\ d.step = "grant"
    BY NewCallFields
  <2>2. calls' = calls \cup {d}
    BY <1>2 DEF BeginAuthorize, Begin
  <2> HIDE DEF d
  <2>3. Founded(d)
    BY <1>r, <2>1 DEF Founded, Shape, ForJob, OfItsRun, ReadsMain, Continues, Finishes
  <2> QED BY <1>q, <1>r, <2>1, <2>2, <2>3, CallBegun
<1>3. CASE BeginFinalize(r)
  <2> DEFINE d == NewCall("finalize", j, r, "finish", j)
  <2>1. d.op = "finalize" /\ d.job = j /\ d.run = r /\ d.step = "finish"
    BY NewCallFields
  <2>2. calls' = calls \cup {d}
    BY <1>3 DEF BeginFinalize, Begin
  <2> HIDE DEF d
  <2>3. Finishes(d)
    BY <1>3, <2>1 DEF BeginFinalize, Asks, Proof, Finishes
  <2>4. Founded(d)
    BY <1>r, <2>1, <2>3 DEF Founded, Shape, ForJob, OfItsRun, ReadsMain, Continues
  <2> QED BY <1>q, <1>r, <2>1, <2>2, <2>4, CallBegun
<1> QED BY <1>1, <1>2, <1>3

LEMMA WentOn ==
  ASSUME PInv, NEW c \in calls,
         CheckDispatch(c) \/ ReadMain(c) \/ GuardCommit(c) \/ ListRuns(c)
  PROVE  CallsFounded' /\ OnePerRun'
<1>q. Quiet
  BY QuietSteps DEF PInv
<1>t. TypeOK /\ Founded(c) /\ c.step # "create"
  BY DEF PInv, CallsFounded, CheckDispatch, ReadMain, GuardCommit, ListRuns, At
<1>j. c.job \in Jobs /\ Known(c.job) /\ ForJob(c)
  BY <1>t, CallShape DEF Founded, Shape
<1>e. CASE Ends(c)
  BY <1>e, <1>q, QuietCalls DEF Ends
<1>g. ASSUME NEW step, NEW seen, Goes(c, step, seen), step # "finish",
             step = "settle" => jobs[c.job].reserved = None \/ Done(jobs[c.job].reserved),
             step = "guard" => InLog(seen),
             step = "write" => seen = jobs[c.job].base,
             step = "record" => InLog(c.job),
             \/ c.op = "dispatch" /\ step = "post"
             \/ c.op = "commit" /\ step \in {"guard", "write", "record"}
             \/ c.op = "continue" /\ step \in {"settle", "settle unidentified"}
      PROVE  CallsFounded' /\ OnePerRun'
  <2> DEFINE d == [c EXCEPT !.step = step, !.seen = seen]
  <2>1. d.op = c.op /\ d.job = c.job /\ d.run = c.run /\ d.step = step /\ d.seen = seen
    BY <1>t, WentFields
  <2> HIDE DEF d
  <2>2. Shape(d)
    BY <1>j, <1>g, <2>1 DEF Shape, ForJob
  <2>3. OfItsRun(d)
    BY <1>t, <2>1 DEF Founded, OfItsRun
  <2>4. ReadsMain(d) /\ Finishes(d)
    BY <1>g, <2>1 DEF ReadsMain, Finishes
  <2>5. Continues(d)
    BY <1>t, <1>g, <2>1 DEF Founded, Continues
  <2>6. Founded([c EXCEPT !.step = step, !.seen = seen])
    BY <2>2, <2>3, <2>4, <2>5 DEF Founded, d
  <2> QED BY <1>q, <1>g, <2>6, CallWent
<1>1. CASE CheckDispatch(c)
  <2>1. Goes(c, "post", c.seen) \/ Ends(c)
    BY <1>1 DEF CheckDispatch
  <2>2. c.op = "dispatch"
    BY <1>1 DEF CheckDispatch, At
  <2> QED BY <1>e, <1>g, <2>1, <2>2
<1>2. CASE ReadMain(c)
  <2>1. Goes(c, "guard", Main) \/ Ends(c)
    BY <1>2 DEF ReadMain
  <2>2. c.op = "commit" /\ InLog(Main)
    BY <1>2, <1>t, MainType DEF ReadMain, At
  <2> QED BY <1>e, <1>g, <2>1, <2>2
<1>3. CASE GuardCommit(c)
  <2>1. \/ Goes(c, "record", c.seen) /\ c.seen = c.job
        \/ Goes(c, "write", c.seen) /\ c.seen = jobs[c.job].base
        \/ Ends(c)
    BY <1>3 DEF GuardCommit
  <2>2. c.op = "commit" /\ InLog(c.seen)
    BY <1>3, <1>t DEF GuardCommit, At, Founded, ReadsMain
  <2>3. CASE Goes(c, "record", c.seen) /\ c.seen = c.job
    BY <1>g, <2>2, <2>3
  <2>4. CASE Goes(c, "write", c.seen) /\ c.seen = jobs[c.job].base
    BY <1>g, <2>2, <2>4
  <2> QED BY <1>e, <2>1, <2>3, <2>4
<1>4. CASE ListRuns(c)
  <2>1. \/ Ends(c)
        \/ Goes(c, "settle unidentified", c.seen)
        \/ /\ Goes(c, "settle", c.seen)
           /\ \A r \in Titled(c.job) : Done(r)
    BY <1>4 DEF ListRuns
  <2>2. c.op = "continue"
    BY <1>4 DEF ListRuns, At
  <2>3. CASE Goes(c, "settle", c.seen) /\ \A r \in Titled(c.job) : Done(r)
    <3>1. jobs[c.job].reserved = None \/ Done(jobs[c.job].reserved)
      BY <2>3 DEF Titled
    <3> QED BY <1>g, <2>2, <2>3, <3>1
  <2> QED BY <1>e, <1>g, <2>1, <2>2, <2>3
<1> QED BY <1>1, <1>2, <1>3, <1>4

LEMMA WroteCall ==
  ASSUME PInv, NEW c \in calls, WriteMain(c)
  PROVE  CallsFounded' /\ OnePerRun'
<1>f. Forward
  BY WriteKeeps
<1>t. TypeOK /\ Founded(c) /\ c.step = "write" /\ c.op = "commit"
  BY DEF PInv, CallsFounded, WriteMain, At
<1>j. c.job \in Jobs /\ Known(c.job) /\ ForJob(c) /\ c.run \in Runs
  BY <1>t, CallShape DEF Founded, Shape
<1>u. UNCHANGED <<jobs, slot, gh, site>> /\ AtKept
  BY DEF WriteMain, server, AtKept
<1>1. CASE Ends(c)
  BY <1>1, <1>f, <1>u, CallsLeft DEF Ends
<1>2. ASSUME NEW step \in {"record", "read"}, Goes(c, step, c.job), log' = Append(log, c.job)
      PROVE  CallsFounded' /\ OnePerRun'
  <2> DEFINE d == [c EXCEPT !.step = step, !.seen = c.job]
  <2>1. d.op = c.op /\ d.job = c.job /\ d.run = c.run /\ d.step = step
    BY <1>t, WentFields
  <2>2. calls' = (calls \ {c}) \cup {d}
    BY <1>2 DEF Goes
  <2> HIDE DEF d
  <2>3. InLog(c.job)'
    <3>1. Len(log') = Len(log) + 1 /\ log'[Len(log) + 1] = c.job /\ Len(log) \in Nat
      BY <1>2, <1>t DEF TypeOK
    <3> QED BY <3>1 DEF InLog
  <2>4. Shape(d)'
    BY <1>t, <1>j, <1>u, <1>2, <2>1 DEF Shape, ForJob, Known
  <2>5. OfItsRun(d)'
    BY <1>t, <1>u, <2>1 DEF Founded, OfItsRun
  <2>6. ReadsMain(d)' /\ Finishes(d)' /\ Continues(d)'
    BY <1>t, <1>2, <2>1, <2>3 DEF ReadsMain, Finishes, Continues, InLog
  <2>7. Founded(d)'
    BY <2>4, <2>5, <2>6 DEF Founded
  <2>8. \A b \in calls : b \in calls' /\ d.run # None /\ b.run = d.run => b = d
    BY <2>1, <2>2 DEF PInv, OnePerRun
  <2> QED BY <1>f, <1>u, <2>2, <2>7, <2>8, CallAdded
<1>3. \/ Ends(c)
      \/ \E step \in {"record", "read"} : Goes(c, step, c.job) /\ log' = Append(log, c.job)
  BY DEF WriteMain
<1> QED BY <1>1, <1>2, <1>3

\* A run that hears an answer has no handler in flight, and the other runs stay where they are.
LEMMA AtKeptByRun ==
  ASSUME PInv, NEW r \in Runs,
         \/ ReserveRun(r) \/ ClaimRun(r) \/ AuthorizeBuild(r) \/ Deploy(r)
         \/ ReportDeployment(r) \/ EndRun(r)
  PROVE  AtKept /\ calls' = calls
<1>t. gh \in [Runs -> RunRow]
  BY DEF PInv, TypeOK
<1>f. \A c \in calls : c.op = "finalize" => c.run \in Runs
  BY CallShape DEF PInv, CallsFounded, Founded
<1>1. ASSUME Idle(r), \A q \in Runs : q # r => gh'[q].at = gh[q].at
      PROVE  AtKept
  BY <1>f, <1>1 DEF AtKept, Idle
<1>2. CASE EndRun(r)
  BY <1>2, <1>t, <1>f DEF EndRun, AtKept, RunRow
<1>3. CASE Deploy(r)
  BY <1>1, <1>3, <1>t DEF Deploy, Asks
<1>4. ASSUME NEW x \in Points, Hears(r, x), Idle(r)
      PROVE  AtKept
  <2>1. Moves(r, x)
    BY <1>4, RunMoves DEF PInv
  <2> QED BY <1>1, <1>4, <2>1 DEF Moves
<1>5. CASE ReserveRun(r) \/ ClaimRun(r) \/ AuthorizeBuild(r) \/ ReportDeployment(r)
  BY <1>4, <1>5 DEF ReserveRun, ClaimRun, AuthorizeBuild, ReportDeployment, Asks, Points
<1>6. calls' = calls
  BY DEF ReserveRun, ClaimRun, AuthorizeBuild, Deploy, ReportDeployment, EndRun
<1> QED BY <1>2, <1>3, <1>5, <1>6

\* A handler that ends tells its own run, and nobody else works for that run.
LEMMA AtKeptByCall ==
  ASSUME PInv, NEW c \in calls,
         \/ \E k \in Jobs : Create(c, k)
         \/ \E r \in Runs : PostDispatch(c, r)
         \/ RecordCommit(c) \/ GrantDeployment(c) \/ Finish(c) \/ Settle(c)
  PROVE  AtKept /\ calls' \subseteq calls
<1>t. TypeOK /\ Founded(c)
  BY DEF PInv, CallsFounded
<1>f. \A b \in calls : b.op = "finalize" => b.run \in Runs
  BY CallShape DEF PInv, CallsFounded, Founded
<1>e. Ends(c)
  BY DEF Create, PostDispatch, RecordCommit, GrantDeployment, Finish, Settle
<1>c. calls' \subseteq calls /\ c \notin calls'
  BY <1>e DEF Ends
<1>g. ASSUME gh' = gh PROVE AtKept
  BY <1>g DEF AtKept
<1>m. ASSUME NEW x \in Points, c.run \in Runs, Told(c.run, x) PROVE AtKept
  <2>1. Moves(c.run, x)
    BY <1>t, <1>m, RunMoves
  <2>2. \A b \in calls : b \in calls' => b.run # c.run
    BY <1>c, <1>m DEF PInv, OnePerRun, None, Runs
  <2> QED BY <1>f, <2>1, <2>2 DEF AtKept, Moves
<1>p. {"committed", "granted", "finalized"} \subseteq Points
  BY DEF Points
<1>1. CASE (\E k \in Jobs : Create(c, k)) \/ Settle(c)
  BY <1>c, <1>g, <1>1 DEF Create, Settle, github
<1>2. ASSUME NEW r \in Runs, PostDispatch(c, r) PROVE AtKept
  <2>1. gh[r].state = "unused" /\ \A q \in Runs : q # r => gh'[q] = gh[q]
    BY <1>t, <1>2 DEF PostDispatch, TypeOK
  <2>2. \A b \in calls : b.op = "finalize" => b.run # r
    <3> SUFFICES ASSUME NEW b \in calls, b.op = "finalize", b.run = r PROVE FALSE
      OBVIOUS
    <3>1. b.run # None /\ OfItsRun(b)
      BY DEF PInv, CallsFounded, Founded, None, Runs
    <3> QED BY <2>1, <3>1 DEF OfItsRun
  <2> QED BY <1>f, <2>1, <2>2 DEF AtKept
<1>3. CASE RecordCommit(c)
  <2>1. c.run \in Runs /\ Told(c.run, "committed")
    BY <1>3, <1>t, CallShape DEF RecordCommit, At, Founded
  <2> QED BY <1>c, <2>1, <1>m, <1>p
<1>4. CASE GrantDeployment(c)
  <2>1. c.run \in Runs /\ (Told(c.run, "granted") \/ gh' = gh)
    BY <1>4, <1>t, CallShape DEF GrantDeployment, At, Founded
  <2> QED BY <1>c, <2>1, <1>m, <1>g, <1>p
<1>5. CASE Finish(c)
  <2>1. gh' = gh \/ (c.run \in Runs /\ Told(c.run, "finalized"))
    BY <1>5, <1>t, CallShape DEF Finish, Founded
  <2> QED BY <1>c, <2>1, <1>m, <1>g, <1>p
<1> QED BY <1>c, <1>1, <1>2, <1>3, <1>4, <1>5

-----------------------------------------------------------------------------
(* The invariant.                                                          *)

LEMMA LoudCalls ==
  ASSUME PInv, Forward,
         \/ Push
         \/ \E j \in Jobs : Decide(j) \/ Cancel(j) \/ Reconcile(j)
         \/ \E r \in Runs : \/ ReserveRun(r) \/ ClaimRun(r) \/ AuthorizeBuild(r)
                            \/ Deploy(r) \/ ReportDeployment(r) \/ EndRun(r)
         \/ \E c \in calls : \/ \E k \in Jobs : Create(c, k)
                             \/ \E r \in Runs : PostDispatch(c, r)
                             \/ RecordCommit(c) \/ GrantDeployment(c) \/ Finish(c) \/ Settle(c)
  PROVE  CallsFounded' /\ OnePerRun'
<1>1. ASSUME AtKept, calls' \subseteq calls PROVE CallsFounded' /\ OnePerRun'
  BY <1>1, CallsLeft
<1>2. CASE Push \/ \E j \in Jobs : Decide(j) \/ Cancel(j) \/ Reconcile(j)
  <2>1. gh' = gh /\ calls' = calls
    BY <1>2 DEF Push, Decide, Cancel, Reconcile, github
  <2> QED BY <1>1, <2>1 DEF AtKept
<1>3. ASSUME NEW r \in Runs,
             \/ ReserveRun(r) \/ ClaimRun(r) \/ AuthorizeBuild(r)
             \/ Deploy(r) \/ ReportDeployment(r) \/ EndRun(r)
      PROVE  CallsFounded' /\ OnePerRun'
  BY <1>1, <1>3, AtKeptByRun
<1>4. ASSUME NEW c \in calls,
             \/ \E k \in Jobs : Create(c, k)
             \/ \E r \in Runs : PostDispatch(c, r)
             \/ RecordCommit(c) \/ GrantDeployment(c) \/ Finish(c) \/ Settle(c)
      PROVE  CallsFounded' /\ OnePerRun'
  BY <1>1, <1>4, AtKeptByCall
<1> QED BY <1>2, <1>3, <1>4

LEMMA PInvInit ==
  ASSUME Init
  PROVE  PInv
<1> USE DEF Init
<1>n. NewJob("none", Root, None, 0) \in JobRow
  BY NatTypes DEF NewJob, JobRow, Statuses
<1>j. \A j \in Jobs : /\ jobs[j].status = "none" /\ ~ jobs[j].granted /\ ~ jobs[j].recorded
                      /\ jobs[j].reserved = None
  BY DEF NewJob
<1>g. \A r \in Runs : gh[r].state = "unused" /\ gh[r].at = "start"
  OBVIOUS
<1>l. Len(log) = 1 /\ log[1] = Root
  OBVIOUS
<1>1. TypeOK
  <2>1. gh \in [Runs -> RunRow]
    BY NatTypes DEF RunRow, Points
  <2>2. jobs \in [Jobs -> JobRow]
    BY <1>n
  <2>3. log \in Seq(Commits) /\ Len(log) > 0
    BY NatTypes
  <2> QED BY <2>1, <2>2, <2>3, NatTypes DEF TypeOK, None
<1>2. LaneInv
  BY <1>j DEF LaneInv, HolderActive, GrantedGoesOn, HolderGranted, Active
<1>3. RunInv
  BY <1>g DEF RunInv, RunsKnown, ToldGranted, Deploying, SiteGranted
<1>4. LogInv
  BY <1>j, <1>l DEF LogInv, LogOnce, LogLinked, RecordedInLog
<1>5. ReleaseInv
  BY <1>j DEF ReleaseInv, SucceededRecorded, ReleasedSucceeded, SucceededReleased, Released,
              ReleasesOrdered, ActiveLast
<1>6. CallsFounded /\ OnePerRun
  BY DEF CallsFounded, OnePerRun
<1>7. FreedMeansStopped /\ LiveIsReviewed
  BY <1>j DEF FreedMeansStopped, LiveIsReviewed
<1> QED BY <1>1, <1>2, <1>3, <1>4, <1>5, <1>6, <1>7 DEF PInv

LEMMA PInvStep ==
  ASSUME PInv, [Next]_vars
  PROVE  PInv'
<1>t. TypeOK'
  BY TypeKept
<1>p. ASSUME Promises', CallsFounded', OnePerRun' PROVE PInv'
  BY <1>t, <1>p DEF PInv, Promises
<1>q. ASSUME Quiet PROVE Promises'
  BY <1>q, QuietKeeps DEF Promises
<1>l. ASSUME Forward, Promises', CallsFounded', OnePerRun' PROVE PInv'
  BY <1>p, <1>l
<1>1. CASE UNCHANGED vars \/ Allow
  <2>1. Quiet /\ calls' = calls
    BY <1>1, QuietSteps DEF PInv, vars, Allow
  <2> QED BY <1>p, <1>q, <2>1, QuietCalls
<1>2. CASE BeginCapture
  <2> DEFINE d == NewCall("capture", None, None, "create", Main)
  <2>1. Quiet
    BY <1>2, QuietSteps DEF PInv
  <2>2. d.op = "capture" /\ d.job = None /\ d.run = None /\ d.step = "create"
    BY NewCallFields
  <2>3. calls' = calls \cup {d}
    BY <1>2 DEF BeginCapture, Begin
  <2> HIDE DEF d
  <2>4. Founded(d)
    BY <2>2 DEF Founded, Shape, OfItsRun, ReadsMain, Continues, Finishes
  <2> QED BY <1>p, <1>q, <2>1, <2>2, <2>3, <2>4, CallBegun
<1>3. CASE Push
  <2>1. Forward /\ Promises'
    BY <1>3, PushKeeps
  <2> QED BY <1>3, <1>p, <2>1, LoudCalls
<1>4. ASSUME NEW j \in Jobs, OfJob(j) PROVE PInv'
  <2>1. CASE BeginRetry(j) \/ ReserveDispatch(j) \/ BeginComplete(j) \/ BeginVerify(j)
             \/ BeginContinue(j)
    <3>1. Quiet
      BY <2>1, QuietSteps DEF PInv
    <3> QED BY <1>p, <1>q, <2>1, <3>1, BegunByJob
  <2>2. CASE RestartDispatch(j) \/ CaptureVerification(j) \/ Elapse(j)
    <3>1. Quiet
      BY <2>2, QuietSteps DEF PInv
    <3>2. calls' = calls
      BY <2>2 DEF RestartDispatch, CaptureVerification, Elapse
    <3> QED BY <1>p, <1>q, <3>1, <3>2, QuietCalls
  <2>3. CASE Decide(j) \/ Cancel(j) \/ Reconcile(j)
    <3>1. Forward /\ Promises'
      BY <2>3, DecideKeeps, CancelKeeps, ReconcileKeeps
    <3> QED BY <2>3, <1>p, <3>1, LoudCalls
  <2> QED BY <1>4, <2>1, <2>2, <2>3 DEF OfJob
<1>5. ASSUME NEW r \in Runs, OfRun(r) PROVE PInv'
  <2>1. CASE BeginCommit(r) \/ BeginAuthorize(r) \/ BeginFinalize(r)
    <3>1. Quiet
      BY <2>1, QuietSteps DEF PInv
    <3> QED BY <1>p, <1>q, <2>1, <3>1, BegunByRun
  <2>2. CASE \/ ReserveRun(r) \/ ClaimRun(r) \/ AuthorizeBuild(r)
             \/ Deploy(r) \/ ReportDeployment(r) \/ EndRun(r)
    <3>1. Forward /\ Promises'
      BY <2>2, ReserveKeeps, ClaimKeeps, MarkKeeps, DeployKeeps, EndKeeps
    <3> QED BY <2>2, <1>p, <3>1, LoudCalls
  <2> QED BY <1>5, <2>1, <2>2 DEF OfRun
<1>6. ASSUME NEW c \in calls, OfCall(c) PROVE PInv'
  <2>1. CASE CheckDispatch(c) \/ ReadMain(c) \/ GuardCommit(c) \/ ListRuns(c)
    <3>1. Quiet
      BY <2>1, QuietSteps DEF PInv
    <3> QED BY <1>p, <1>q, <2>1, <3>1, WentOn
  <2>2. CASE Lose(c)
    <3>1. Quiet
      BY <2>2, QuietSteps DEF PInv
    <3>2. calls' \subseteq calls
      BY <2>2 DEF Lose, Ends
    <3> QED BY <1>p, <1>q, <3>1, <3>2, QuietCalls
  <2>3. CASE WriteMain(c)
    <3>1. Promises'
      BY <2>3, WriteKeeps
    <3> QED BY <2>3, <1>p, <3>1, WroteCall
  <2>4. CASE \/ \E k \in Jobs : Create(c, k)
             \/ \E r \in Runs : PostDispatch(c, r)
             \/ RecordCommit(c) \/ GrantDeployment(c) \/ Finish(c) \/ Settle(c)
    <3>1. Forward /\ Promises'
      BY <2>4, CreateKeeps, PostKeeps, RecordKeeps, GrantKeeps, FinishKeeps, SettleKeeps
    <3> QED BY <2>4, <1>p, <3>1, LoudCalls
  <2> QED BY <1>6, <2>1, <2>2, <2>3, <2>4 DEF OfCall
<1> QED BY <1>1, <1>2, <1>3, <1>4, <1>5, <1>6 DEF Next

LEMMA PInvAlways == Spec => []PInv
<1>1. Init => PInv
  BY PInvInit
<1>2. PInv /\ [Next]_vars => PInv'
  BY PInvStep
<1> QED BY <1>1, <1>2, PTL DEF Spec

-----------------------------------------------------------------------------
(* The promises.                                                           *)

\* The rows, the runs, the handlers and the log are of their types in every reachable state.
THEOREM PublicationTyped == Spec => []TypeOK
<1>1. PInv => TypeOK
  BY DEF PInv
<1> QED BY <1>1, PInvAlways, PTL

\* No deployment of a cancelled publication is authorized, live or released: a job is granted
\* only while it holds the lane and runs, nothing cancels a granted job, and only the run that
\* was granted deploys.
THEOREM CancelledIsOut == Spec => []CancelledStaysOut
<1>1. PInv => CancelledStaysOut
  <2> SUFFICES ASSUME PInv, NEW j \in Jobs, jobs[j].status = "cancelled"
               PROVE  /\ ~ jobs[j].granted /\ site # j
                      /\ \A i \in 1..Len(releases) : releases[i] # j
    BY DEF CancelledStaysOut
  <2>1. ~ jobs[j].granted
    BY DEF PInv, LaneInv, GrantedGoesOn
  <2>2. site # j
    BY <2>1 DEF PInv, RunInv, SiteGranted, None, Jobs
  <2>3. ~ Released(j)
    BY DEF PInv, ReleaseInv, ReleasedSucceeded
  <2> QED BY <2>1, <2>2, <2>3 DEF Released
<1> QED BY <1>1, PInvAlways, PTL

\* The lane of a cancelled publication is free only when the run that reserved it is over.
THEOREM FreedIsStopped == Spec => []FreedMeansStopped
<1>1. PInv => FreedMeansStopped
  BY DEF PInv
<1> QED BY <1>1, PInvAlways, PTL

\* A recorded success is what visitors see until another deployment is authorized.
THEOREM ReviewedIsLive == Spec => []LiveIsReviewed
<1>1. PInv => LiveIsReviewed
  BY DEF PInv
<1> QED BY <1>1, PInvAlways, PTL

\* Every commit of a job directly follows the base the job captured and is there once.
THEOREM HistoryIsLinear == Spec => []HistoryLinear
<1>1. PInv => HistoryLinear
  <2> SUFFICES ASSUME PInv PROVE HistoryLinear
    OBVIOUS
  <2>1. ASSUME NEW i \in 2..Len(log), log[i] \in Jobs
        PROVE  /\ log[i - 1] = jobs[log[i]].base
               /\ \A k \in 1..Len(log) : log[k] = log[i] => k = i
    <3>1. i \in 1..Len(log)
      BY DEF PInv, TypeOK
    <3> QED BY <2>1, <3>1 DEF PInv, LogInv, LogOnce, LogLinked
  <2>2. \A j \in Jobs : jobs[j].recorded => \E i \in 1..Len(log) : log[i] = j
    BY DEF PInv, LogInv, RecordedInLog, InLog
  <2> QED BY <2>1, <2>2 DEF HistoryLinear
<1> QED BY <1>1, PInvAlways, PTL

LEMMA PositionIs ==
  ASSUME PInv, NEW j \in Jobs, InLog(j)
  PROVE  Position(j) \in 1..Len(log) /\ log[Position(j)] = j
  BY DEF Position, InLog

\* Production's releases are its successes, each once, in the order of their commits.
THEOREM ReleasesAreHistory == Spec => []ReleaseHistory
<1>1. PInv => ReleaseHistory
  <2> SUFFICES ASSUME PInv, world.target = "production" PROVE ReleaseHistory
    BY DEF ReleaseHistory
  <2>1. \A j \in Jobs : jobs[j].status = "succeeded" <=> \E i \in 1..Len(releases) : releases[i] = j
    BY DEF PInv, ReleaseInv, ReleasedSucceeded, SucceededReleased, Released
  <2>2. ASSUME NEW i \in 1..Len(releases), NEW k \in 1..Len(releases), i < k
        PROVE  releases[i] # releases[k] /\ Position(releases[i]) < Position(releases[k])
    <3>1. PICK a \in Jobs, b \in Jobs : a = releases[i] /\ b = releases[k]
      BY DEF PInv, TypeOK
    <3>2. Released(a) /\ Released(b)
      BY <3>1 DEF Released
    <3>3. InLog(a) /\ InLog(b)
      BY <3>2 DEF PInv, LogInv, ReleaseInv, ReleasedSucceeded, SucceededRecorded, RecordedInLog
    <3>4. /\ Position(a) \in 1..Len(log) /\ log[Position(a)] = a
          /\ Position(b) \in 1..Len(log) /\ log[Position(b)] = b
      BY <3>3, PositionIs
    <3>5. Before(a, b)
      BY <2>2, <3>1 DEF PInv, ReleaseInv, ReleasesOrdered
    <3>6. Position(a) < Position(b)
      BY <3>4, <3>5 DEF Before
    <3>7. a # b
      BY <3>4, <3>6
    <3> QED BY <3>1, <3>6, <3>7
  <2> QED BY <2>1, <2>2 DEF ReleaseHistory
<1> QED BY <1>1, PInvAlways, PTL

=============================================================================
