------------------------- MODULE OutputVerification -------------------------
(***************************************************************************)
(* Verification of an output that was deployed but never confirmed         *)
(* (src/server/publish/verification.ts).  The run of a publication ends    *)
(* after its deployment was authorized; a person asks for a verification,  *)
(* a signed run looks at the live output and reports, and the publication  *)
(* is completed by that run's last job or by another person's              *)
(* reconciliation.  An attempt that comes to nothing is retired and        *)
(* followed by another, three in all.                                      *)
(*                                                                         *)
(* One publication holds its lane.  Requests carry a key and may be sent   *)
(* again at any time; a request whose handler looks at GitHub between its  *)
(* transactions is a record in `calls'.                                    *)
(***************************************************************************)
EXTENDS Naturals, Sequences, FiniteSets

CONSTANTS
  MaxAttempts,  \* verifications of one publication (3)
  MaxRuns,      \* bound: verification runs GitHub ever starts
  MaxPushes,    \* bound: commits pushed to main by others
  Worlds        \* who asks, with which keys, what happens beside, and bounds on the handlers that
                \* wait at a time and on the dispatches of an attempt (6)

VARIABLES
  world,     \* fixed: the people, keys and events of this behaviour
  allowed,   \* people whose role allows them to publish
  job,       \* the publication, and the run that deployed it
  verifs,    \* table publication_verifications of it, oldest first
  receipts,  \* table publication_recovery_receipts: requests by their keys
  calls,     \* handlers in flight
  runs,      \* verification runs at GitHub
  main,      \* main of the destination: pushes so far, and whether the published files are intact
  answers    \* history: the attempts that each request was answered with

vars == <<world, allowed, job, verifs, receipts, calls, runs, main, answers>>

\* What the bounds have to be; the module that chooses them assumes it.
VerificationAssumption == MaxRuns \in Nat /\ \A w \in Worlds : w.dispatches \in Nat

None == 0
Ids == 1..MaxAttempts
Runs == 1..MaxRuns
Event(e) == e \in world.events
Dispatches == world.dispatches
NoRun == [state |-> "unused", verif |-> None, head |-> 0, at |-> "start"]
Live(v) == v \in DOMAIN verifs /\ verifs[v].status \in {"queued", "running"}
Attempts == Len(verifs)
Over(r) == r # None /\ runs[r].state = "completed"

\* verificationFrom: the attempt is not over, its publication still holds the lane, and the
\* person named may publish.
From(v, p) == Live(v) /\ job.status = "running" /\ p \in allowed

\* verifyDeploymentProof with a verification: main is where its run was started, and the
\* published files have not changed since the build.
Proven(v) == main = [at |-> verifs[v].head, intact |-> TRUE] /\ job.run = "completed"

Call(kind, p, key, v) ==
  [kind |-> kind, by |-> p, key |-> key, verif |-> v, attempt |-> Attempts, main |-> main.at,
   row |-> IF v = None THEN <<>> ELSE <<verifs[v]>>]
Waits(c) == c \notin calls /\ Cardinality(calls) < world.calls /\ calls' = calls \cup {c}
Ends(c) == calls' = calls \ {c}
Becomes(c, d) == calls' = (calls \ {c}) \cup {d}
Keep == UNCHANGED <<world, allowed, job, main>>

\* The handler dies or the provider does not answer; the person may send the request again.
Lose(c) ==
  /\ Event("lose") /\ Ends(c)
  /\ UNCHANGED <<world, allowed, job, verifs, receipts, runs, main, answers>>

-----------------------------------------------------------------------------
(* Capture.  A retry captures under a key derived from its own. *)

Plain(k) == <<"request", k>>
\* (mutant) every retry captures under a key of its own
Drawn(k) == <<"retry", k, Attempts>>
Derived(k) == <<"retry", k>>

Existing(key) == {v \in DOMAIN verifs : verifs[v].key = key}
Answer(key, v) == answers' = answers \cup {[request |-> <<key[1], key[2]>>, verif |-> v]}

\* BUSY, LIMIT, and the captured state of the publication.
CanCapture(p) ==
  /\ p \in allowed /\ job.status = "running" /\ job.run = "completed"
  /\ \A v \in DOMAIN verifs : ~ Live(v)
  /\ Attempts < MaxAttempts

\* With a receipt the answer is repeated; else main and the deployment are looked at.
Request(p, key) ==
  IF Existing(key) # {}
    THEN /\ \E v \in Existing(key) : verifs[v].by = p /\ p \in allowed /\ Answer(key, v)
         /\ UNCHANGED calls
    ELSE /\ CanCapture(p) /\ main.intact
         /\ Waits(Call("capture", p, key, None)) /\ UNCHANGED answers

BeginCapture(p, k) ==
  /\ Request(p, Plain(k))
  /\ Keep /\ UNCHANGED <<verifs, receipts, runs>>

NewVerification(c) ==
  [status |-> "queued", by |-> c.by, key |-> c.key, count |-> 0, ready |-> TRUE,
   reserved |-> None, claimed |-> None, reported |-> FALSE, head |-> c.main]

Capture(c) ==
  /\ c \in calls /\ c.kind = "capture"
  /\ IF CanCapture(c.by) /\ Attempts = c.attempt /\ Existing(c.key) = {}
       THEN verifs' = Append(verifs, NewVerification(c)) /\ Answer(c.key, Attempts + 1)
       ELSE /\ UNCHANGED verifs
            /\ IF Existing(c.key) = {} THEN UNCHANGED answers
               ELSE \E v \in Existing(c.key) : Answer(c.key, v)
  /\ Ends(c)
  /\ Keep /\ UNCHANGED <<receipts, runs>>

-----------------------------------------------------------------------------
(* Dispatch: at once or by the scheduler, throttled, six times. *)

\* `eligible'
Eligible(v) == From(v, verifs[v].by) /\ verifs[v].status = "queued" /\ verifs[v].reserved = None
CanDispatch(v) == Eligible(v) /\ verifs[v].count < Dispatches

ReserveDispatch(v) ==
  /\ CanDispatch(v) /\ verifs[v].ready
  /\ Waits(Call("post", verifs[v].by, <<>>, v))
  /\ verifs' = [verifs EXCEPT ![v].count = @ + 1, ![v].ready = FALSE]
  /\ Keep /\ UNCHANGED <<receipts, runs, answers>>

\* After main and the authority are read again; the answer of the POST may be lost.
Post(c) ==
  /\ c \in calls /\ c.kind = "post"
  /\ IF main.at = verifs[c.verif].head /\ Eligible(c.verif)
       THEN \E r \in Runs :
              /\ runs[r].state = "unused" /\ \A q \in 1..(r - 1) : runs[q].state # "unused"
              /\ runs' = [runs EXCEPT ![r] = [state |-> "active", verif |-> c.verif,
                                              head |-> main.at, at |-> "start"]]
       ELSE UNCHANGED runs
  /\ Ends(c)
  /\ Keep /\ UNCHANGED <<verifs, receipts, answers>>

\* dispatch_after has passed.
Elapse(v) ==
  /\ Live(v) /\ ~ verifs[v].ready /\ verifs[v].count < Dispatches
  /\ verifs' = [verifs EXCEPT ![v].ready = TRUE]
  /\ Keep /\ UNCHANGED <<receipts, calls, runs, answers>>

-----------------------------------------------------------------------------
(* The signed run: it reserves the attempt, claims it in its second job,     *)
(* looks at the output and reports; its third job finalizes.                 *)

Signed(r, stage) ==
  /\ runs[r].state = "active" /\ runs[r].at = stage
  /\ From(runs[r].verif, verifs[runs[r].verif].by) /\ runs[r].head = verifs[runs[r].verif].head
Hears(r, stage) == runs' = [runs EXCEPT ![r].at = stage]
Owns(r) == verifs[runs[r].verif].reserved = r /\ verifs[runs[r].verif].claimed = r
           /\ verifs[runs[r].verif].status = "running"

Reserve(r) ==
  LET v == runs[r].verif IN
  /\ Signed(r, "start") /\ verifs[v].status = "queued" /\ verifs[v].reserved \in {None, r}
  /\ verifs' = [verifs EXCEPT ![v].reserved = r]
  /\ Hears(r, "reserved")
  /\ Keep /\ UNCHANGED <<receipts, calls, answers>>

Claim(r) ==
  LET v == runs[r].verif IN
  /\ Signed(r, "reserved") /\ verifs[v].reserved = r /\ verifs[v].claimed \in {None, r}
  /\ verifs' = [verifs EXCEPT ![v].claimed = r, ![v].status = "running"]
  /\ Hears(r, "claimed")
  /\ Keep /\ UNCHANGED <<receipts, calls, answers>>

\* Only an output that matches is reported.
Report(r) ==
  /\ Signed(r, "claimed") /\ Owns(r)
  /\ verifs' = [verifs EXCEPT ![runs[r].verif].reported = TRUE]
  /\ Hears(r, "reported")
  /\ Keep /\ UNCHANGED <<receipts, calls, answers>>

BeginFinalize(r) ==
  LET v == runs[r].verif IN
  /\ Signed(r, "reported") /\ Owns(r) /\ verifs[v].reported /\ Proven(v)
  /\ Waits(Call("finalize", verifs[v].by, <<>>, v))
  /\ Keep /\ UNCHANGED <<verifs, receipts, runs, answers>>

EndRun(r) ==
  /\ runs[r].state = "active"
  /\ runs' = [runs EXCEPT ![r].state = "completed", ![r].at = "end"]
  /\ Keep /\ UNCHANGED <<verifs, receipts, calls, answers>>

-----------------------------------------------------------------------------
(* Recovery: a person records a report that exists, or retires an attempt.   *)

Recovery(action, p, k, v) == [key |-> k, action |-> action, by |-> p, verif |-> v]
Replayed(q) == q \in receipts /\ q.by \in allowed
KeyFree(k) == \A q \in receipts : q.key # k

\* The job of the run that reported ended well, as far as the run got.
CanReconcile(v, p) ==
  /\ From(v, p) /\ verifs[v].status = "running" /\ verifs[v].reported
  /\ Over(verifs[v].reserved) /\ Proven(v)

BeginReconcile(p, k, v) ==
  /\ KeyFree(k) /\ CanReconcile(v, p)
  /\ Waits(Call("reconcile", p, k, v))
  /\ Keep /\ UNCHANGED <<verifs, receipts, runs, answers>>

\* What is read before the proof must be what the batch finds.
\* (mutant) the batch looks at the status alone
SameStatus(c) == verifs[c.verif].status = c.row[1].status
SameRow(c) == c.row = <<[verifs[c.verif] EXCEPT !.ready = c.row[1].ready]>>
MayComplete(c) ==
  CASE c.kind = "finalize" -> From(c.verif, c.by) /\ verifs[c.verif].status = "running"
    [] c.kind = "reconcile" -> From(c.verif, c.by) /\ SameRow(c) /\ KeyFree(c.key)

Complete(c) ==
  /\ c \in calls /\ c.kind \in {"finalize", "reconcile"}
  /\ IF MayComplete(c)
       THEN /\ verifs' = [verifs EXCEPT ![c.verif].status = "passed"]
            /\ job' = [job EXCEPT !.status = "succeeded", !.releases = @ + 1]
            /\ receipts' = IF c.kind = "finalize" THEN receipts
                           ELSE receipts \cup {Recovery("reconcile", c.by, c.key, c.verif)}
       ELSE UNCHANGED <<verifs, job, receipts>>
  /\ Ends(c)
  /\ UNCHANGED <<world, allowed, runs, main, answers>>

\* (mutant) only an attempt whose run is over is retired
CanRetireEnded(v, p) ==
  From(v, p) /\ ~ verifs[v].reported /\ Attempts < MaxAttempts /\ Over(verifs[v].reserved)
CanRetire(v, p) ==
  /\ From(v, p) /\ ~ verifs[v].reported /\ Attempts < MaxAttempts
  /\ IF verifs[v].reserved = None THEN verifs[v].count = Dispatches ELSE Over(verifs[v].reserved)

BeginRetry(p, k, v) ==
  /\ IF Replayed(Recovery("retry", p, k, v))
       THEN Request(p, Derived(k))
       ELSE /\ KeyFree(k) /\ CanRetire(v, p)
            /\ Waits(Call("retire", p, k, v)) /\ UNCHANGED answers
  /\ Keep /\ UNCHANGED <<verifs, receipts, runs>>

\* One batch retires the attempt and remembers the request; the capture comes after it.
Retire(c) ==
  LET q == Recovery("retry", c.by, c.key, c.verif) IN
  /\ c \in calls /\ c.kind = "retire"
  /\ IF From(c.verif, c.by) /\ SameRow(c) /\ KeyFree(c.key)
       THEN /\ verifs' = [verifs EXCEPT ![c.verif].status = "failed"]
            /\ receipts' = receipts \cup {q}
            /\ Becomes(c, [Call("resume", c.by, c.key, c.verif) EXCEPT !.row = <<>>])
       ELSE /\ UNCHANGED <<verifs, receipts>>
            /\ IF Replayed(q) THEN Becomes(c, [Call("resume", c.by, c.key, c.verif) EXCEPT !.row = <<>>])
               ELSE Ends(c)
  /\ Keep /\ UNCHANGED <<runs, answers>>

Resume(c) ==
  /\ c \in calls /\ c.kind = "resume"
  /\ IF Existing(Derived(c.key)) # {}
       THEN (\E v \in Existing(Derived(c.key)) : Answer(Derived(c.key), v)) /\ Ends(c)
       ELSE /\ UNCHANGED answers
            /\ IF CanCapture(c.by) /\ main.intact
                 THEN Becomes(c, Call("capture", c.by, Derived(c.key), None))
                 ELSE Ends(c)
  /\ Keep /\ UNCHANGED <<verifs, receipts, runs>>

-----------------------------------------------------------------------------
(* The publication's own run, and the world around it. *)

\* Its last job, or a reconciliation of it, may still complete the publication: until the
\* first verification of it is captured.
\* (mutant) only a verification at work fences it
FencedByLive == \E v \in DOMAIN verifs : Live(v)
Fenced == verifs # <<>>
FinalizeOriginal ==
  /\ Event("finalize") /\ job.status = "running" /\ ~ Fenced
  /\ job' = [job EXCEPT !.status = "succeeded", !.releases = @ + 1]
  /\ UNCHANGED <<world, allowed, verifs, receipts, calls, runs, main, answers>>

EndOriginal ==
  /\ job.run = "active" /\ job' = [job EXCEPT !.run = "completed"]
  /\ UNCHANGED <<world, allowed, verifs, receipts, calls, runs, main, answers>>

Push(intact) ==
  /\ Event("push") /\ main.at < MaxPushes
  /\ main' = [at |-> main.at + 1, intact |-> intact]
  /\ UNCHANGED <<world, allowed, job, verifs, receipts, calls, runs, answers>>

Withdraw(p) ==
  /\ Event("withdraw") /\ allowed' = IF p \in allowed THEN allowed \ {p} ELSE allowed \cup {p}
  /\ UNCHANGED <<world, job, verifs, receipts, calls, runs, main, answers>>

Init ==
  /\ world \in Worlds /\ allowed = world.people
  /\ job = [status |-> "running", run |-> "active", releases |-> 0]
  /\ verifs = <<>> /\ receipts = {} /\ calls = {}
  /\ runs = [r \in Runs |-> NoRun] /\ main = [at |-> 0, intact |-> TRUE] /\ answers = {}

OfPerson(p) ==
  \/ Withdraw(p)
  \/ \E k \in world.keys : \/ BeginCapture(p, k)
                     \/ \E v \in DOMAIN verifs : BeginReconcile(p, k, v) \/ BeginRetry(p, k, v)
OfCall(c) == Capture(c) \/ Post(c) \/ Complete(c) \/ Retire(c) \/ Resume(c) \/ Lose(c)
OfRun(r) == Reserve(r) \/ Claim(r) \/ Report(r) \/ BeginFinalize(r) \/ EndRun(r)

Next ==
  \/ \E p \in world.people : OfPerson(p)
  \/ \E c \in calls : OfCall(c)
  \/ \E r \in Runs : OfRun(r)
  \/ \E v \in DOMAIN verifs : ReserveDispatch(v) \/ Elapse(v)
  \/ FinalizeOriginal \/ EndOriginal
  \/ \E intact \in BOOLEAN : Push(intact)

Spec == Init /\ [][Next]_vars

-----------------------------------------------------------------------------
(* Properties. *)

\* An attempt is retired only when the run that holds it is over, or when nothing can hold it
\* any more: no late run reports for an attempt that another one has replaced
\* (specs/061-reliable-editorial-workflow/spec.html: "no timeout alone releases it").
RetiredIsStopped ==
  \A v \in DOMAIN verifs : verifs[v].status = "failed" =>
    /\ ~ verifs[v].reported
    /\ \A r \in Runs : runs[r].verif = v => runs[r].at \in {"start", "end"}

\* A request that is sent again after its answer was lost gets the same attempt, also when
\* its handler died between retirement and capture.
OneAnswer == \A a, b \in answers : a.request = b.request => a.verif = b.verif

\* Whoever completes the publication - its own run, the verification's last job, a person -
\* does it once; after the first capture it is an attempt that completes it, and one that
\* was reported, also between a retirement and the capture that follows it.
OneCompletion ==
  /\ job.releases =< 1
  /\ job.status = "succeeded" /\ verifs # <<>> => \E v \in DOMAIN verifs : verifs[v].status = "passed"
  /\ \A v \in DOMAIN verifs : verifs[v].status = "passed" => verifs[v].reported /\ verifs[v].reserved # None

\* Until three attempts are used up there is always a next step for somebody, whatever was
\* lost, unless the attempt waits for a person who may not publish any more or for its report.
NextStepExists ==
  job.status = "running" /\ job.run = "completed" /\ allowed # {} /\ Attempts < MaxAttempts =>
    \/ \E p \in allowed : CanCapture(p)
    \/ \E v \in DOMAIN verifs :
         /\ Live(v)
         /\ \/ CanDispatch(v) \/ verifs[v].by \notin allowed \/ verifs[v].reported
            \/ verifs[v].reserved # None /\ ~ Over(verifs[v].reserved)
            \/ \E p \in allowed : CanRetire(v, p)
=============================================================================
