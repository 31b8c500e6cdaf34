------------------------- MODULE VerificationProofs -------------------------
(***************************************************************************)
(* Proofs about OutputVerification for every number of people, keys,       *)
(* attempts, runs and waiting handlers, and in every world.                *)
(*                                                                         *)
(* The promises become inductive with what ties the two tables and the     *)
(* runs together: a run that got past its start holds the attempt it works *)
(* for, an attempt at work is the last one, a key names one attempt and an *)
(* answer names the attempt of its key, and a handler that retires or      *)
(* completes an attempt carries the finding it started from.               *)
(***************************************************************************)
EXTENDS OutputVerification, TLAPS

Askers == UNION {w.people : w \in Worlds}
Names == UNION {w.keys : w \in Worlds}
Keys == {"request", "retry"} \X Names
RunOrNone == {None} \cup Runs
Statuses == {"queued", "running", "passed", "failed"}
Attempt ==
  [status : Statuses, by : Askers, key : Keys, count : Nat, ready : BOOLEAN,
   reserved : RunOrNone, claimed : RunOrNone, reported : BOOLEAN, head : Nat]
Kinds == {"capture", "post", "finalize", "reconcile", "retire", "resume"}
Waiting ==
  [kind : Kinds, by : Askers, key : Keys \cup Names \cup {<<>>}, verif : Nat, attempt : Nat,
   main : Nat, row : Seq(Attempt)]
Points == {"start", "reserved", "claimed", "reported", "end"}
RunRow == [state : {"unused", "active", "completed"}, verif : Nat, head : Nat, at : Points]
JobRow == [status : {"running", "succeeded"}, run : {"active", "completed"}, releases : Nat]

TypeOK ==
  /\ world \in Worlds /\ allowed \subseteq Askers
  /\ job \in JobRow
  /\ verifs \in Seq(Attempt)
  /\ calls \subseteq Waiting
  /\ runs \in [Runs -> RunRow]
  /\ main \in [at : Nat, intact : BOOLEAN]

\* the attempts: one is at work at a time, and it is the last; each has a key of its own
LastAtWork == \A v \in DOMAIN verifs : Live(v) => v = Attempts
KeysDiffer == \A v, w \in DOMAIN verifs : verifs[v].key = verifs[w].key => v = w
AnswersNameKeys ==
  \A a \in answers : a.verif \in DOMAIN verifs /\ a.request = verifs[a.verif].key
Numbered == \A v \in DOMAIN verifs : verifs[v].count =< Dispatches

\* the runs: what a run got to, its attempt shows
Held ==
  \A v \in DOMAIN verifs :
    verifs[v].status = "running" \/ verifs[v].reported => verifs[v].reserved # None
Bound ==
  \A r \in Runs :
    /\ runs[r].state = "unused" => runs[r].at = "start" /\ runs[r].verif = None
    /\ runs[r].state = "completed" => runs[r].at = "end"
    /\ runs[r].state # "unused" => runs[r].verif \in DOMAIN verifs
    /\ runs[r].at \in {"reserved", "claimed", "reported"} => verifs[runs[r].verif].reserved = r

\* the publication
Undone == job.status = "running" => job.releases = 0

\* what a handler that waits has found
Free(a) == ~ a.reported /\ (a.reserved = None \/ Over(a.reserved))
Founded(c) ==
  \/ c.kind = "capture" /\ c.key \in Keys
  \/ c.kind = "post"
  \/ c.kind = "resume" /\ c.key \in Names
  \/ /\ c.kind \in {"finalize", "reconcile"}
     /\ c.verif \in DOMAIN verifs /\ verifs[c.verif].reported
  \/ c.kind = "retire" /\ c.key \in Names /\ \A a \in Attempt : c.row = <<a>> => Free(a)
CallsFounded == \A c \in calls : Founded(c)

AttemptInv == LastAtWork /\ KeysDiffer /\ Numbered /\ Held
VerificationInv ==
  /\ VerificationAssumption /\ TypeOK
  /\ AttemptInv /\ AnswersNameKeys /\ Bound /\ RetiredIsStopped
  /\ Undone /\ OneCompletion /\ CallsFounded


-----------------------------------------------------------------------------
(* Types.                                                                  *)

LEMMA Numbers ==
  ASSUME VerificationAssumption
  PROVE  /\ Runs \subseteq Nat /\ RunOrNone \subseteq Nat /\ None \in Nat /\ None \notin Runs
         /\ None \in RunOrNone /\ Runs \subseteq RunOrNone
  BY DEF VerificationAssumption, Runs, RunOrNone, None

LEMMA Rows ==
  ASSUME TypeOK
  PROVE  /\ Len(verifs) \in Nat /\ DOMAIN verifs = 1..Len(verifs) /\ DOMAIN verifs \subseteq Nat
         /\ None \notin DOMAIN verifs
         /\ \A v \in DOMAIN verifs : verifs[v] \in Attempt
<1> HIDE DEF Attempt
<1> QED BY DEF TypeOK, None

LEMMA RowFields ==
  ASSUME TypeOK, NEW v \in DOMAIN verifs
  PROVE  /\ verifs[v].status \in Statuses /\ verifs[v].by \in Askers /\ verifs[v].key \in Keys
         /\ verifs[v].count \in Nat /\ verifs[v].ready \in BOOLEAN
         /\ verifs[v].reserved \in RunOrNone /\ verifs[v].claimed \in RunOrNone
         /\ verifs[v].reported \in BOOLEAN /\ verifs[v].head \in Nat
<1>1. verifs[v] \in Attempt
  BY Rows
<1> QED BY <1>1 DEF Attempt

LEMMA RunFields ==
  ASSUME TypeOK, NEW r \in Runs
  PROVE  /\ runs[r] \in RunRow /\ runs[r].state \in {"unused", "active", "completed"}
         /\ runs[r].verif \in Nat /\ runs[r].head \in Nat /\ runs[r].at \in Points
<1>1. runs[r] \in RunRow
  BY DEF TypeOK
<1> QED BY <1>1 DEF RunRow

LEMMA CallFields ==
  ASSUME TypeOK, NEW c \in calls
  PROVE  /\ c \in Waiting /\ c.kind \in Kinds /\ c.by \in Askers /\ c.verif \in Nat
         /\ c.attempt \in Nat /\ c.main \in Nat /\ c.row \in Seq(Attempt)
<1>1. c \in Waiting
  BY DEF TypeOK
<1> QED BY <1>1 DEF Waiting

LEMMA CallType ==
  ASSUME TypeOK, NEW kind \in Kinds, NEW p \in Askers, NEW key \in Keys \cup Names \cup {<<>>},
         NEW v \in Nat, v # None => v \in DOMAIN verifs
  PROVE  Call(kind, p, key, v) \in Waiting
<1> DEFINE row == IF v = None THEN <<>> ELSE <<verifs[v]>>
<1>1. row \in Seq(Attempt)
  <2>1. CASE v = None
    BY <2>1
  <2>2. CASE v # None
    <3>1. verifs[v] \in Attempt
      BY <2>2, Rows
    <3> HIDE DEF Attempt
    <3> QED BY <2>2, <3>1
  <2> QED BY <2>1, <2>2
<1>2. main.at \in Nat /\ Attempts \in Nat
  BY Rows DEF TypeOK, Attempts
<1> HIDE DEF row
<1>3. Call(kind, p, key, v) =
        [kind |-> kind, by |-> p, key |-> key, verif |-> v, attempt |-> Attempts,
         main |-> main.at, row |-> row]
  BY DEF Call, row
<1> QED BY <1>1, <1>2, <1>3 DEF Waiting

\* the call that captures after a retirement
LEMMA ResumeType ==
  ASSUME TypeOK, NEW p \in Askers, NEW key \in Names, NEW v \in Nat
  PROVE  [Call("resume", p, key, v) EXCEPT !.row = <<>>] \in Waiting
<1>1. main.at \in Nat /\ Attempts \in Nat
  BY Rows DEF TypeOK, Attempts
<1>2. <<>> \in Seq(Attempt)
  OBVIOUS
<1>3. [Call("resume", p, key, v) EXCEPT !.row = <<>>] =
        [kind |-> "resume", by |-> p, key |-> key, verif |-> v, attempt |-> Attempts,
         main |-> main.at, row |-> <<>>]
  BY DEF Call
<1> QED BY <1>1, <1>2, <1>3 DEF Waiting, Kinds

\* the publication is completed
LEMMA JobCompleted ==
  ASSUME NEW j \in JobRow, NEW n \in Nat
  PROVE  /\ [j EXCEPT !.status = "succeeded", !.releases = n] \in JobRow
         /\ [j EXCEPT !.status = "succeeded", !.releases = n].status = "succeeded"
         /\ [j EXCEPT !.status = "succeeded", !.releases = n].releases = n
  BY DEF JobRow

\* an attempt is written
LEMMA RowWritten ==
  ASSUME TypeOK, NEW v \in DOMAIN verifs, NEW row \in Attempt, verifs' = [verifs EXCEPT ![v] = row]
  PROVE  /\ verifs' \in Seq(Attempt) /\ Len(verifs') = Len(verifs) /\ DOMAIN verifs' = DOMAIN verifs
         /\ verifs'[v] = row /\ \A w \in DOMAIN verifs : w # v => verifs'[w] = verifs[w]
<1>1. verifs \in Seq(Attempt)
  BY DEF TypeOK
<1> HIDE DEF Attempt
<1> QED BY <1>1

\* an attempt is added
LEMMA RowAdded ==
  ASSUME TypeOK, NEW row \in Attempt, verifs' = Append(verifs, row)
  PROVE  /\ verifs' \in Seq(Attempt) /\ Len(verifs') = Len(verifs) + 1
         /\ DOMAIN verifs' = DOMAIN verifs \cup {Len(verifs) + 1}
         /\ Len(verifs) + 1 \notin DOMAIN verifs /\ Len(verifs) + 1 \in Nat
         /\ verifs'[Len(verifs) + 1] = row
         /\ \A w \in DOMAIN verifs : verifs'[w] = verifs[w]
<1>1. verifs \in Seq(Attempt)
  BY DEF TypeOK
<1> HIDE DEF Attempt
<1> QED BY <1>1

-----------------------------------------------------------------------------
(* What a step may change.                                                 *)

\* no step goes back behind these
Forward ==
  /\ \A v \in DOMAIN verifs : v \in DOMAIN verifs' /\ (verifs[v].reported => verifs'[v].reported)
  /\ \A r \in Runs : runs[r].state = "completed" => runs'[r].state = "completed"

\* what a handler has found stays true
LEMMA FoundedKept ==
  ASSUME VerificationInv, Forward, NEW c, Founded(c)
  PROVE  Founded(c)'
<1>1. \A a \in Attempt : Free(a) => Free(a)'
  <2>1. ASSUME NEW a \in Attempt PROVE a.reserved \in RunOrNone
    BY DEF Attempt
  <2> QED BY <2>1 DEF Free, Over, Forward, RunOrNone
<1> QED BY <1>1 DEF Founded, Forward

LEMMA CallEnds ==
  ASSUME VerificationInv, Forward, NEW c, Ends(c)
  PROVE  CallsFounded' /\ calls' \subseteq Waiting
<1>1. calls' = calls \ {c} /\ calls \subseteq Waiting /\ \A d \in calls : Founded(d)
  BY DEF VerificationInv, TypeOK, CallsFounded, Ends
<1> QED BY <1>1, FoundedKept DEF CallsFounded

LEMMA CallWaits ==
  ASSUME VerificationInv, Forward, NEW c \in Waiting, Waits(c), Founded(c)'
  PROVE  CallsFounded' /\ calls' \subseteq Waiting
<1>1. calls' = calls \cup {c} /\ calls \subseteq Waiting /\ \A d \in calls : Founded(d)
  BY DEF VerificationInv, TypeOK, CallsFounded, Waits
<1> QED BY <1>1, FoundedKept DEF CallsFounded

LEMMA CallBecomes ==
  ASSUME VerificationInv, Forward, NEW c, NEW d \in Waiting, Becomes(c, d), Founded(d)'
  PROVE  CallsFounded' /\ calls' \subseteq Waiting
<1>1. calls' = (calls \ {c}) \cup {d} /\ calls \subseteq Waiting /\ \A e \in calls : Founded(e)
  BY DEF VerificationInv, TypeOK, CallsFounded, Becomes
<1> QED BY <1>1, FoundedKept DEF CallsFounded

LEMMA CallsStay ==
  ASSUME VerificationInv, Forward, calls' = calls
  PROVE  CallsFounded' /\ calls' \subseteq Waiting
<1>1. calls \subseteq Waiting /\ \A e \in calls : Founded(e)
  BY DEF VerificationInv, TypeOK, CallsFounded
<1> QED BY <1>1, FoundedKept DEF CallsFounded

\* what the invariant is about, beside the answers and the handlers that wait
Tables == AttemptInv /\ Bound /\ RetiredIsStopped /\ Undone /\ OneCompletion

\* a step that leaves the tables alone
LEMMA Settled ==
  ASSUME VerificationInv, UNCHANGED <<world, job, verifs, runs>>
  PROVE  Tables' /\ Forward
<1>1. Tables
  BY DEF VerificationInv, Tables
<1>2. AttemptInv'
  BY <1>1 DEF Tables, AttemptInv, LastAtWork, KeysDiffer, Numbered, Held, Live, Attempts, Dispatches
<1>3. Bound' /\ RetiredIsStopped'
  BY <1>1 DEF Tables, Bound, RetiredIsStopped
<1>4. Undone' /\ OneCompletion'
  BY <1>1 DEF Tables, Undone, OneCompletion
<1> QED BY <1>2, <1>3, <1>4 DEF Tables, Forward

LEMMA AnswersKept ==
  ASSUME VerificationInv, answers' = answers,
         \A v \in DOMAIN verifs : v \in DOMAIN verifs' /\ verifs'[v].key = verifs[v].key
  PROVE  AnswersNameKeys'
  BY DEF VerificationInv, AnswersNameKeys

LEMMA Answered ==
  ASSUME VerificationInv, NEW key \in Keys, NEW v \in Existing(key), Answer(key, v),
         verifs' = verifs
  PROVE  AnswersNameKeys'
<1>1. key = <<key[1], key[2]>>
  BY DEF Keys
<1>2. v \in DOMAIN verifs /\ verifs[v].key = key
  BY DEF Existing
<1> QED BY <1>1, <1>2 DEF VerificationInv, AnswersNameKeys, Answer

LEMMA Assembled ==
  ASSUME VerificationAssumption, Tables', AnswersNameKeys', TypeOK', CallsFounded'
  PROVE  VerificationInv'
  BY DEF VerificationInv, Tables, VerificationAssumption

\* a step that only touches the handlers that wait, the people and main
LEMMA Quiet ==
  ASSUME VerificationInv, UNCHANGED <<world, job, verifs, runs>>,
         allowed' \subseteq Askers, main' \in [at : Nat, intact : BOOLEAN],
         AnswersNameKeys', CallsFounded', calls' \subseteq Waiting
  PROVE  VerificationInv'
<1>1. TypeOK'
  BY DEF VerificationInv, TypeOK
<1> QED BY <1>1, Settled, Assembled DEF VerificationInv

LEMMA KeepTypes ==
  ASSUME VerificationInv, Keep
  PROVE  /\ allowed' \subseteq Askers /\ main' \in [at : Nat, intact : BOOLEAN]
         /\ UNCHANGED <<world, job>>
  BY DEF VerificationInv, TypeOK, Keep

LEMMA NamesOfWorld ==
  ASSUME TypeOK
  PROVE  world.people \subseteq Askers /\ world.keys \subseteq Names
  BY DEF TypeOK, Askers, Names

-----------------------------------------------------------------------------
(* Actions that leave the tables alone.                                    *)

LEMMA LoseInv ==
  ASSUME VerificationInv, NEW c \in calls, Lose(c)
  PROVE  VerificationInv'
<1>1. UNCHANGED <<world, allowed, job, verifs, runs, main, answers>> /\ Ends(c)
  BY DEF Lose
<1>2. Forward
  BY <1>1, Settled
<1> QED BY <1>1, <1>2, CallEnds, AnswersKept, Quiet DEF VerificationInv, TypeOK

LEMMA RequestInv ==
  ASSUME VerificationInv, NEW p \in world.people, NEW key \in Keys, Request(p, key), Keep,
         UNCHANGED <<verifs, runs>>
  PROVE  VerificationInv'
<1>1. Forward
  BY Settled, KeepTypes
<1>2. CASE Existing(key) # {}
  <2>1. PICK v \in Existing(key) : Answer(key, v) /\ calls' = calls
    BY <1>2 DEF Request
  <2>2. AnswersNameKeys'
    BY <2>1, Answered
  <2> QED BY <1>1, <2>1, <2>2, CallsStay, KeepTypes, Quiet
<1>3. CASE Existing(key) = {}
  <2>1. Waits(Call("capture", p, key, None)) /\ answers' = answers
    BY <1>3 DEF Request
  <2>2. PICK c : c = Call("capture", p, key, None)
    OBVIOUS
  <2>3. c \in Waiting
    BY <2>2, CallType, NamesOfWorld DEF VerificationInv, Kinds, None
  <2>4. Founded(c)'
    BY <2>2 DEF Founded, Call
  <2> QED BY <1>1, <2>1, <2>2, <2>3, <2>4, CallWaits, AnswersKept, KeepTypes, Quiet
<1> QED BY <1>2, <1>3

LEMMA BeginCaptureInv ==
  ASSUME VerificationInv, NEW p \in world.people, NEW k \in world.keys, BeginCapture(p, k)
  PROVE  VerificationInv'
<1>1. Plain(k) \in Keys
  BY NamesOfWorld DEF VerificationInv, Plain, Keys
<1> QED BY <1>1, RequestInv DEF BeginCapture

LEMMA BeginFinalizeInv ==
  ASSUME VerificationInv, NEW r \in Runs, BeginFinalize(r)
  PROVE  VerificationInv'
<1> DEFINE v == runs[r].verif
           c == Call("finalize", verifs[v].by, <<>>, v)
<1>1. v \in DOMAIN verifs /\ verifs[v].reported /\ Waits(c) /\ Keep
      /\ UNCHANGED <<verifs, runs, answers>>
  BY DEF BeginFinalize, Signed, From, Live
<1>2. Forward
  BY <1>1, Settled, KeepTypes
<1>3. c \in Waiting
  BY <1>1, CallType, RowFields, Rows DEF VerificationInv, Kinds
<1>4. c.kind = "finalize" /\ c.verif = v
  BY DEF Call
<1> HIDE DEF c
<1>5. Founded(c)
  BY <1>1, <1>4 DEF Founded
<1>6. CallsFounded' /\ calls' \subseteq Waiting
  <2>1. calls' = calls \cup {c} /\ calls \subseteq Waiting /\ \A d \in calls : Founded(d)
    BY <1>1 DEF VerificationInv, TypeOK, CallsFounded, Waits
  <2> QED BY <1>2, <1>3, <1>5, <2>1, FoundedKept DEF CallsFounded
<1> QED BY <1>1, <1>6, AnswersKept, KeepTypes, Quiet

LEMMA BeginReconcileInv ==
  ASSUME VerificationInv, NEW p \in world.people, NEW k \in world.keys, NEW v \in DOMAIN verifs,
         BeginReconcile(p, k, v)
  PROVE  VerificationInv'
<1>1. verifs[v].reported /\ Waits(Call("reconcile", p, k, v)) /\ Keep
      /\ UNCHANGED <<verifs, runs, answers>>
  BY DEF BeginReconcile, CanReconcile
<1>2. PICK c : c = Call("reconcile", p, k, v)
  OBVIOUS
<1>3. c.kind = "reconcile" /\ c.verif = v
  BY <1>2 DEF Call
<1>4. Forward
  BY <1>1, Settled, KeepTypes
<1>5. c \in Waiting
  BY <1>2, CallType, Rows, NamesOfWorld DEF VerificationInv, Kinds
<1>6. Founded(c)'
  BY <1>1, <1>3, <1>4 DEF Founded, Forward
<1> QED BY <1>1, <1>2, <1>4, <1>5, <1>6, CallWaits, AnswersKept, KeepTypes, Quiet

LEMMA BeginRetryInv ==
  ASSUME VerificationInv, NEW p \in world.people, NEW k \in world.keys, NEW v \in DOMAIN verifs,
         BeginRetry(p, k, v)
  PROVE  VerificationInv'
<1>1. Keep /\ UNCHANGED <<verifs, runs>>
  BY DEF BeginRetry
<1>2. CASE Request(p, Derived(k))
  <2>1. Derived(k) \in Keys
    BY NamesOfWorld DEF VerificationInv, Derived, Keys
  <2> QED BY <1>1, <1>2, <2>1, RequestInv
<1>3. CASE CanRetire(v, p) /\ Waits(Call("retire", p, k, v)) /\ answers' = answers
  <2>1. PICK c : c = Call("retire", p, k, v)
    OBVIOUS
  <2>2. c.kind = "retire" /\ c.key = k /\ c.row = <<verifs[v]>>
    <3>1. v # None
      BY Rows DEF VerificationInv
    <3> QED BY <2>1, <3>1 DEF Call
  <2>3. Forward
    BY <1>1, Settled, KeepTypes
  <2>4. c \in Waiting
    BY <2>1, CallType, Rows, NamesOfWorld DEF VerificationInv, Kinds
  <2>5. Founded(c)
    <3>1. Free(verifs[v])
      BY <1>3 DEF CanRetire, Free
    <3>2. \A a : c.row = <<a>> => a = verifs[v]
      BY <2>2
    <3>3. c.key \in Names
      BY <2>2, NamesOfWorld DEF VerificationInv
    <3> QED BY <2>2, <3>1, <3>2, <3>3 DEF Founded
  <2>6. Founded(c)'
    BY <2>3, <2>5, FoundedKept
  <2> QED BY <1>1, <1>3, <2>1, <2>3, <2>4, <2>6, CallWaits, AnswersKept, KeepTypes, Quiet
<1> QED BY <1>2, <1>3 DEF BeginRetry

LEMMA ResumeInv ==
  ASSUME VerificationInv, NEW c \in calls, Resume(c)
  PROVE  VerificationInv'
<1>1. Keep /\ UNCHANGED <<verifs, runs>> /\ c.kind = "resume"
  BY DEF Resume
<1>2. Forward
  BY <1>1, Settled, KeepTypes
<1>3. Derived(c.key) \in Keys
  <2>1. c.key \in Names
    BY <1>1 DEF VerificationInv, CallsFounded, Founded
  <2> QED BY <2>1 DEF Derived, Keys
<1>4. CASE Existing(Derived(c.key)) # {}
  <2>1. PICK v \in Existing(Derived(c.key)) : Answer(Derived(c.key), v) /\ Ends(c)
    BY <1>4 DEF Resume
  <2>2. AnswersNameKeys'
    BY <1>1, <1>3, <2>1, Answered
  <2> QED BY <1>1, <1>2, <2>1, <2>2, CallEnds, KeepTypes, Quiet
<1>5. CASE Existing(Derived(c.key)) = {}
  <2>1. answers' = answers
        /\ (Ends(c) \/ Becomes(c, Call("capture", c.by, Derived(c.key), None)))
    BY <1>5 DEF Resume
  <2>2. AnswersNameKeys'
    BY <1>1, <2>1, AnswersKept
  <2>3. CASE Ends(c)
    BY <1>1, <1>2, <2>2, <2>3, CallEnds, KeepTypes, Quiet
  <2>4. CASE Becomes(c, Call("capture", c.by, Derived(c.key), None))
    <3>1. PICK d : d = Call("capture", c.by, Derived(c.key), None)
      OBVIOUS
    <3>2. d \in Waiting
      BY <1>3, <3>1, CallType, CallFields DEF VerificationInv, Kinds, None
    <3>3. Founded(d)'
      BY <1>3, <3>1 DEF Founded, Call
    <3> QED BY <1>1, <1>2, <2>2, <2>4, <3>1, <3>2, <3>3, CallBecomes, KeepTypes, Quiet
  <2> QED BY <2>1, <2>3, <2>4
<1> QED BY <1>4, <1>5

LEMMA WorldInv ==
  ASSUME VerificationInv,
         (\E p \in world.people : Withdraw(p)) \/ (\E intact \in BOOLEAN : Push(intact))
  PROVE  VerificationInv'
<1>1. UNCHANGED <<world, job, verifs, calls, runs, answers>>
  BY DEF Withdraw, Push
<1>2. Forward
  BY <1>1, Settled
<1>3. allowed' \subseteq Askers
  BY NamesOfWorld DEF VerificationInv, TypeOK, Withdraw, Push
<1>4. main' \in [at : Nat, intact : BOOLEAN]
  BY DEF VerificationInv, TypeOK, Withdraw, Push
<1> QED BY <1>1, <1>2, <1>3, <1>4, CallsStay, AnswersKept, Quiet

-----------------------------------------------------------------------------
(* Actions that write the tables.                                          *)

\* an attempt is written that keeps its key and is not taken up again
LEMMA AttemptsKept ==
  ASSUME VerificationInv, world' = world, NEW v \in DOMAIN verifs, NEW row \in Attempt,
         verifs' = [verifs EXCEPT ![v] = row], row.key = verifs[v].key,
         row.status \in {"queued", "running"} => Live(v), row.count =< Dispatches,
         row.status = "running" \/ row.reported => row.reserved # None
  PROVE  AttemptInv'
<1>1. DOMAIN verifs' = DOMAIN verifs /\ Len(verifs') = Len(verifs) /\ verifs'[v] = row
      /\ \A w \in DOMAIN verifs : w # v => verifs'[w] = verifs[w]
  BY RowWritten DEF VerificationInv
<1>2. AttemptInv
  BY DEF VerificationInv
<1>3. LastAtWork'
  BY <1>1, <1>2 DEF AttemptInv, LastAtWork, Live, Attempts
<1>4. KeysDiffer'
  <2>1. \A w \in DOMAIN verifs : verifs'[w].key = verifs[w].key
    BY <1>1
  <2> QED BY <1>1, <1>2, <2>1 DEF AttemptInv, KeysDiffer
<1>5. Numbered'
  BY <1>1, <1>2 DEF AttemptInv, Numbered, Dispatches
<1>6. Held'
  BY <1>1, <1>2 DEF AttemptInv, Held
<1> QED BY <1>3, <1>4, <1>5, <1>6 DEF AttemptInv

\* a write that changes neither the status nor the run of an attempt
LEMMA CountersInv ==
  ASSUME VerificationInv, NEW v \in DOMAIN verifs, NEW n \in Nat, NEW b \in BOOLEAN,
         n =< Dispatches, UNCHANGED <<world, allowed, job, runs, main, answers>>,
         verifs' = [verifs EXCEPT ![v].count = n, ![v].ready = b],
         Forward => CallsFounded' /\ calls' \subseteq Waiting
  PROVE  VerificationInv'
<1> DEFINE row == [verifs[v] EXCEPT !.count = n, !.ready = b]
<1>1. row \in Attempt /\ row.count = n /\ row.key = verifs[v].key
      /\ row.status = verifs[v].status /\ row.reserved = verifs[v].reserved
      /\ row.reported = verifs[v].reported
  <2>1. verifs[v] \in Attempt
    BY Rows DEF VerificationInv
  <2> QED BY <2>1 DEF Attempt
<1>2. verifs' = [verifs EXCEPT ![v] = row]
  OBVIOUS
<1> HIDE DEF row
<1>3. verifs' \in Seq(Attempt) /\ DOMAIN verifs' = DOMAIN verifs /\ verifs'[v] = row
      /\ \A w \in DOMAIN verifs : w # v => verifs'[w] = verifs[w]
  BY <1>1, <1>2, RowWritten DEF VerificationInv
<1>4. \A w \in DOMAIN verifs :
        /\ verifs'[w].key = verifs[w].key /\ verifs'[w].status = verifs[w].status
        /\ verifs'[w].reserved = verifs[w].reserved /\ verifs'[w].reported = verifs[w].reported
  BY <1>1, <1>3
<1>5. AttemptInv'
  <2>1. row.status = "running" \/ row.reported => row.reserved # None
    BY <1>1 DEF VerificationInv, AttemptInv, Held
  <2> QED BY <1>1, <1>2, <2>1, AttemptsKept DEF Live
<1>6. Bound'
  BY <1>3, <1>4 DEF VerificationInv, Bound
<1>7. RetiredIsStopped'
  BY <1>3, <1>4 DEF VerificationInv, RetiredIsStopped
<1>8. Undone' /\ OneCompletion'
  <2>1. verifs # <<>> /\ verifs' # <<>>
    BY <1>3, Rows DEF VerificationInv
  <2> QED BY <1>3, <1>4, <2>1 DEF VerificationInv, Undone, OneCompletion
<1>9. Forward
  BY <1>3, <1>4 DEF Forward
<1>10. TypeOK'
  BY <1>3, <1>9 DEF VerificationInv, TypeOK
<1>11. AnswersNameKeys'
  BY <1>3, <1>4, AnswersKept
<1> QED BY <1>5, <1>6, <1>7, <1>8, <1>9, <1>10, <1>11, Assembled DEF Tables, VerificationInv

LEMMA DispatchesNat ==
  ASSUME VerificationInv
  PROVE  Dispatches \in Nat
  BY DEF VerificationInv, VerificationAssumption, TypeOK, Dispatches

LEMMA ReserveDispatchInv ==
  ASSUME VerificationInv, NEW v \in DOMAIN verifs, ReserveDispatch(v)
  PROVE  VerificationInv'
<1>1. verifs[v].count \in Nat /\ verifs[v].count < Dispatches
  BY RowFields DEF VerificationInv, ReserveDispatch, CanDispatch
<1>2. UNCHANGED <<world, allowed, job, runs, main, answers>>
      /\ verifs' = [verifs EXCEPT ![v].count = verifs[v].count + 1, ![v].ready = FALSE]
  BY DEF ReserveDispatch, Keep
<1>3. ASSUME Forward PROVE CallsFounded' /\ calls' \subseteq Waiting
  <2>1. PICK c : c = Call("post", verifs[v].by, <<>>, v)
    OBVIOUS
  <2>2. c \in Waiting
    BY <2>1, CallType, RowFields, Rows DEF VerificationInv, Kinds
  <2>3. Founded(c)'
    BY <2>1 DEF Founded, Call
  <2> QED BY <1>3, <2>1, <2>2, <2>3, CallWaits DEF ReserveDispatch
<1>4. verifs[v].count + 1 \in Nat /\ verifs[v].count + 1 =< Dispatches
  BY <1>1, DispatchesNat
<1> QED BY <1>2, <1>3, <1>4, CountersInv

LEMMA ElapseInv ==
  ASSUME VerificationInv, NEW v \in DOMAIN verifs, Elapse(v)
  PROVE  VerificationInv'
<1> DEFINE n == verifs[v].count
<1>1. n \in Nat /\ n =< Dispatches
  BY RowFields DEF VerificationInv, AttemptInv, Numbered
<1>2. UNCHANGED <<world, allowed, job, runs, main, answers, calls>>
  BY DEF Elapse, Keep
<1>3. verifs' = [verifs EXCEPT ![v].count = n, ![v].ready = TRUE]
  <2>1. verifs[v] = [verifs[v] EXCEPT !.count = n]
    <3>1. verifs[v] \in Attempt
      BY Rows DEF VerificationInv
    <3> QED BY <3>1 DEF Attempt
  <2>2. verifs' = [verifs EXCEPT ![v].ready = TRUE]
    BY DEF Elapse
  <2>3. [verifs[v] EXCEPT !.count = n, !.ready = TRUE] = [verifs[v] EXCEPT !.ready = TRUE]
    BY <2>1
  <2> QED BY <2>2, <2>3
<1> HIDE DEF n
<1> QED BY <1>1, <1>2, <1>3, CallsStay, CountersInv

\* a run that was started before goes on to another point of its life
LEMMA RunPasses ==
  ASSUME VerificationInv, NEW r \in Runs, NEW p \in {"reserved", "claimed", "reported"},
         NEW row \in Attempt, runs[r].state = "active", Live(runs[r].verif),
         LET v == runs[r].verif IN
           /\ verifs' = [verifs EXCEPT ![v] = row] /\ row.key = verifs[v].key
           /\ row.status \in {"queued", "running"} /\ row.count = verifs[v].count
           /\ verifs[v].reported => row.reported
           /\ row.reserved = r /\ verifs[v].reserved \in {None, r},
         runs' = [runs EXCEPT ![r].at = p],
         UNCHANGED <<world, allowed, job, calls, main, answers>>
  PROVE  VerificationInv'
<1> DEFINE v == runs[r].verif
<1>1. v \in DOMAIN verifs /\ r # None
  BY Numbers DEF VerificationInv, Live
<1>2. verifs' = [verifs EXCEPT ![v] = row] /\ row.key = verifs[v].key
      /\ row.status \in {"queued", "running"} /\ row.count = verifs[v].count
      /\ (verifs[v].reported => row.reported)
      /\ row.reserved = r /\ verifs[v].reserved \in {None, r}
  OBVIOUS
<1>3. verifs' \in Seq(Attempt) /\ DOMAIN verifs' = DOMAIN verifs /\ verifs'[v] = row
      /\ \A w \in DOMAIN verifs : w # v => verifs'[w] = verifs[w]
  BY <1>1, <1>2, RowWritten DEF VerificationInv
<1>4. runs' \in [Runs -> RunRow] /\ runs'[r].at = p
      /\ (\A q \in Runs : runs'[q].state = runs[q].state /\ runs'[q].verif = runs[q].verif)
      /\ \A q \in Runs : q # r => runs'[q] = runs[q]
  <2>1. runs \in [Runs -> RunRow] /\ p \in Points
    BY DEF VerificationInv, TypeOK, Points
  <2> QED BY <2>1 DEF RunRow
<1>5. AttemptInv'
  <2>1. row.count =< Dispatches
    BY <1>1, <1>2 DEF VerificationInv, AttemptInv, Numbered
  <2> QED BY <1>1, <1>2, <2>1, AttemptsKept
<1>6. Bound'
  <2>1. ASSUME NEW q \in Runs, q # r, runs[q].at \in {"reserved", "claimed", "reported"}
        PROVE  verifs'[runs[q].verif].reserved = q
    <3>1. runs[q].verif \in DOMAIN verifs /\ verifs[runs[q].verif].reserved = q
      BY <2>1 DEF VerificationInv, Bound
    <3>2. q # None
      BY Numbers DEF VerificationInv
    <3> QED BY <1>2, <1>3, <2>1, <3>1, <3>2
  <2> QED BY <1>1, <1>2, <1>3, <1>4, <2>1 DEF VerificationInv, Bound
<1>7. RetiredIsStopped'
  <2>1. ASSUME NEW w \in DOMAIN verifs, verifs'[w].status = "failed"
        PROVE  w # v /\ verifs[w].status = "failed" /\ verifs'[w] = verifs[w]
    BY <1>2, <1>3, <2>1
  <2> QED BY <1>3, <1>4, <2>1 DEF VerificationInv, RetiredIsStopped
<1>8. Undone' /\ OneCompletion'
  <2>1. ASSUME NEW w \in DOMAIN verifs
        PROVE  (verifs'[w].status = "passed") = (verifs[w].status = "passed")
    BY <1>2, <1>3, <2>1 DEF Live
  <2>2. \A w \in DOMAIN verifs : verifs'[w].status = "passed" => verifs'[w] = verifs[w]
    BY <1>2, <1>3
  <2>3. verifs # <<>>
    BY <1>1
  <2> QED BY <1>3, <2>1, <2>2, <2>3 DEF VerificationInv, Undone, OneCompletion
<1>9. Forward
  BY <1>2, <1>3, <1>4 DEF Forward
<1>10. CallsFounded' /\ calls' \subseteq Waiting
  BY <1>9, CallsStay
<1>11. TypeOK'
  BY <1>3, <1>4, <1>10 DEF VerificationInv, TypeOK
<1>12. AnswersNameKeys'
  <2>1. \A w \in DOMAIN verifs : verifs'[w].key = verifs[w].key
    BY <1>2, <1>3
  <2> QED BY <1>3, <2>1, AnswersKept
<1> QED BY <1>5, <1>6, <1>7, <1>8, <1>10, <1>11, <1>12, Assembled DEF Tables, VerificationInv

\* what a signed request shows
LEMMA SignedFinds ==
  ASSUME VerificationInv, NEW r \in Runs, NEW p, Signed(r, p)
  PROVE  /\ runs[r].state = "active" /\ Live(runs[r].verif) /\ runs[r].verif \in DOMAIN verifs
         /\ verifs[runs[r].verif] \in Attempt /\ r \in RunOrNone
  BY Rows, Numbers DEF VerificationInv, Signed, From, Live

LEMMA ReserveInv ==
  ASSUME VerificationInv, NEW r \in Runs, Reserve(r)
  PROVE  VerificationInv'
<1> DEFINE v == runs[r].verif
           row == [verifs[v] EXCEPT !.reserved = r]
<1>1. Live(v) /\ v \in DOMAIN verifs /\ verifs[v] \in Attempt /\ runs[r].state = "active"
      /\ r \in RunOrNone
  BY SignedFinds DEF Reserve
<1>2. row \in Attempt /\ row.key = verifs[v].key /\ row.status = verifs[v].status
      /\ row.count = verifs[v].count /\ row.reported = verifs[v].reported /\ row.reserved = r
  BY <1>1 DEF Attempt
<1>3. verifs' = [verifs EXCEPT ![v] = row]
  BY DEF Reserve
<1> HIDE DEF row
<1>4. UNCHANGED <<world, allowed, job, calls, main, answers>>
      /\ runs' = [runs EXCEPT ![r].at = "reserved"]
      /\ verifs[v].reserved \in {None, r} /\ verifs[v].status = "queued"
  BY DEF Reserve, Keep, Hears
<1> QED BY <1>1, <1>2, <1>3, <1>4, RunPasses

LEMMA ClaimInv ==
  ASSUME VerificationInv, NEW r \in Runs, Claim(r)
  PROVE  VerificationInv'
<1> DEFINE v == runs[r].verif
           row == [verifs[v] EXCEPT !.claimed = r, !.status = "running"]
<1>1. Live(v) /\ v \in DOMAIN verifs /\ verifs[v] \in Attempt /\ runs[r].state = "active"
      /\ r \in RunOrNone /\ verifs[v].reserved = r
  BY SignedFinds DEF Claim
<1>2. row \in Attempt /\ row.key = verifs[v].key /\ row.status = "running"
      /\ row.count = verifs[v].count /\ row.reported = verifs[v].reported /\ row.reserved = r
  BY <1>1 DEF Attempt, Statuses
<1>3. verifs' = [verifs EXCEPT ![v] = row]
  BY DEF Claim
<1> HIDE DEF row
<1>4. UNCHANGED <<world, allowed, job, calls, main, answers>>
      /\ runs' = [runs EXCEPT ![r].at = "claimed"]
  BY DEF Claim, Keep, Hears
<1> QED BY <1>1, <1>2, <1>3, <1>4, RunPasses

LEMMA ReportInv ==
  ASSUME VerificationInv, NEW r \in Runs, Report(r)
  PROVE  VerificationInv'
<1> DEFINE v == runs[r].verif
           row == [verifs[v] EXCEPT !.reported = TRUE]
<1>1. Live(v) /\ v \in DOMAIN verifs /\ verifs[v] \in Attempt /\ runs[r].state = "active"
      /\ verifs[v].reserved = r /\ verifs[v].status = "running"
  BY SignedFinds DEF Report, Owns
<1>2. row \in Attempt /\ row.key = verifs[v].key /\ row.status = "running"
      /\ row.count = verifs[v].count /\ row.reported = TRUE /\ row.reserved = r
  BY <1>1 DEF Attempt
<1>3. verifs' = [verifs EXCEPT ![v] = row]
  BY DEF Report
<1> HIDE DEF row
<1>4. UNCHANGED <<world, allowed, job, calls, main, answers>>
      /\ runs' = [runs EXCEPT ![r].at = "reported"]
  BY DEF Report, Keep, Hears
<1> QED BY <1>1, <1>2, <1>3, <1>4, RunPasses

\* GitHub starts a run, or one is over
LEMMA RunsInv ==
  ASSUME VerificationInv, NEW r \in Runs, NEW row \in RunRow, runs' = [runs EXCEPT ![r] = row],
         \/ runs[r].state # "completed" /\ row.state = "active" /\ row.at = "start"
            /\ row.verif \in DOMAIN verifs
         \/ runs[r].state # "unused" /\ row.state = "completed" /\ row.at = "end"
            /\ row.verif = runs[r].verif,
         UNCHANGED <<world, allowed, job, verifs, main, answers>>,
         Forward => CallsFounded' /\ calls' \subseteq Waiting
  PROVE  VerificationInv'
<1>1. runs' \in [Runs -> RunRow] /\ runs'[r] = row /\ \A q \in Runs : q # r => runs'[q] = runs[q]
  BY DEF VerificationInv, TypeOK
<1>2. AttemptInv'
  BY DEF VerificationInv, AttemptInv, LastAtWork, KeysDiffer, Numbered, Held, Live, Attempts,
         Dispatches
<1>3. Bound'
  BY <1>1 DEF VerificationInv, Bound
<1>4. RetiredIsStopped'
  BY <1>1 DEF VerificationInv, RetiredIsStopped
<1>5. Undone' /\ OneCompletion'
  BY DEF VerificationInv, Undone, OneCompletion
<1>6. Forward
  BY <1>1 DEF Forward
<1>7. TypeOK'
  BY <1>1, <1>6 DEF VerificationInv, TypeOK
<1>8. AnswersNameKeys'
  BY AnswersKept
<1> QED BY <1>2, <1>3, <1>4, <1>5, <1>6, <1>7, <1>8, Assembled DEF Tables, VerificationInv

LEMMA EndRunInv ==
  ASSUME VerificationInv, NEW r \in Runs, EndRun(r)
  PROVE  VerificationInv'
<1> DEFINE row == [runs[r] EXCEPT !.state = "completed", !.at = "end"]
<1>1. row \in RunRow /\ row.state = "completed" /\ row.at = "end" /\ row.verif = runs[r].verif
  <2>1. runs[r] \in RunRow
    BY RunFields DEF VerificationInv
  <2> QED BY <2>1 DEF RunRow, Points
<1>2. runs' = [runs EXCEPT ![r] = row]
  BY DEF EndRun
<1> HIDE DEF row
<1>3. UNCHANGED <<world, allowed, job, verifs, calls, main, answers>> /\ runs[r].state = "active"
  BY DEF EndRun, Keep
<1> QED BY <1>1, <1>2, <1>3, CallsStay, RunsInv

LEMMA PostInv ==
  ASSUME VerificationInv, NEW c \in calls, Post(c)
  PROVE  VerificationInv'
<1>1. UNCHANGED <<world, allowed, job, verifs, main, answers>> /\ Ends(c)
  BY DEF Post, Keep
<1>2. CASE runs' = runs
  <2>1. Forward
    BY <1>1, <1>2, Settled
  <2> QED BY <1>1, <1>2, <2>1, CallEnds, AnswersKept, Quiet DEF VerificationInv, TypeOK
<1>3. CASE Eligible(c.verif) /\ \E r \in Runs :
             /\ runs[r].state = "unused"
             /\ runs' = [runs EXCEPT ![r] = [state |-> "active", verif |-> c.verif,
                                             head |-> main.at, at |-> "start"]]
  <2>1. PICK r \in Runs :
          /\ runs[r].state = "unused"
          /\ runs' = [runs EXCEPT ![r] = [state |-> "active", verif |-> c.verif,
                                          head |-> main.at, at |-> "start"]]
    BY <1>3
  <2>2. PICK row : row = [state |-> "active", verif |-> c.verif, head |-> main.at, at |-> "start"]
    OBVIOUS
  <2>3. c.verif \in DOMAIN verifs
    BY <1>3 DEF Eligible, From, Live
  <2>4. row \in RunRow /\ row.state = "active" /\ row.at = "start" /\ row.verif = c.verif
    BY <2>2, CallFields DEF VerificationInv, TypeOK, RunRow, Points
  <2> QED BY <1>1, <2>1, <2>2, <2>3, <2>4, CallEnds, RunsInv
<1> QED BY <1>2, <1>3 DEF Post

\* an attempt is over
LEMMA AttemptOver ==
  ASSUME VerificationInv, NEW v \in DOMAIN verifs, Live(v), NEW s \in {"passed", "failed"},
         verifs' = [verifs EXCEPT ![v].status = s],
         UNCHANGED <<world, allowed, runs, main, answers>>,
         job' \in JobRow,
         s = "failed" => Free(verifs[v]) /\ job' = job,
         s = "passed" => verifs[v].reported /\ job'.status = "succeeded" /\ job'.releases =< 1,
         Forward => CallsFounded' /\ calls' \subseteq Waiting
  PROVE  VerificationInv'
<1> DEFINE row == [verifs[v] EXCEPT !.status = s]
<1>1. verifs[v] \in Attempt
  BY Rows DEF VerificationInv
<1>2. row \in Attempt /\ row.key = verifs[v].key /\ row.status = s
      /\ row.count = verifs[v].count /\ row.reported = verifs[v].reported
      /\ row.reserved = verifs[v].reserved
  BY <1>1 DEF Attempt, Statuses
<1>3. verifs' = [verifs EXCEPT ![v] = row]
  OBVIOUS
<1> HIDE DEF row
<1>4. verifs' \in Seq(Attempt) /\ DOMAIN verifs' = DOMAIN verifs /\ verifs'[v] = row
      /\ \A w \in DOMAIN verifs : w # v => verifs'[w] = verifs[w]
  BY <1>2, <1>3, RowWritten DEF VerificationInv
<1>5. \A w \in DOMAIN verifs :
        /\ verifs'[w].key = verifs[w].key /\ verifs'[w].reserved = verifs[w].reserved
        /\ verifs'[w].reported = verifs[w].reported
  BY <1>2, <1>4
<1>6. AttemptInv'
  <2>1. row.count =< Dispatches /\ (row.reported => row.reserved # None)
    BY <1>2 DEF VerificationInv, AttemptInv, Numbered, Held
  <2> QED BY <1>2, <1>3, <2>1, AttemptsKept
<1>7. Bound'
  BY <1>4, <1>5 DEF VerificationInv, Bound
<1>8. RetiredIsStopped'
  <2>1. ASSUME s = "failed", NEW r \in Runs, runs[r].verif = v
        PROVE  runs[r].at \in {"start", "end"}
    <3>1. SUFFICES ASSUME runs[r].at \in {"reserved", "claimed", "reported"} PROVE FALSE
      BY RunFields DEF VerificationInv, Points
    <3>2. verifs[v].reserved = r
      BY <2>1, <3>1 DEF VerificationInv, Bound
    <3>3. r # None
      BY Numbers DEF VerificationInv
    <3> QED BY <2>1, <3>1, <3>2, <3>3 DEF Free, Over, VerificationInv, Bound
  <2>2. s = "failed" => ~ row.reported
    BY <1>2 DEF Free
  <2> QED BY <1>2, <1>4, <2>1, <2>2 DEF VerificationInv, RetiredIsStopped
<1>9. Undone' /\ OneCompletion'
  <2>1. CASE s = "failed"
    <3>1. \A w \in DOMAIN verifs : verifs[w].status = "passed" => w # v
      BY DEF Live
    <3>2. verifs # <<>>
      OBVIOUS
    <3> QED BY <1>2, <1>4, <2>1, <3>1, <3>2 DEF VerificationInv, Undone, OneCompletion
  <2>2. CASE s = "passed"
    <3>1. row.reported /\ row.reserved # None
      BY <1>2, <2>2 DEF VerificationInv, AttemptInv, Held
    <3> QED BY <1>2, <1>4, <2>2, <3>1 DEF VerificationInv, Undone, OneCompletion
  <2> QED BY <2>1, <2>2
<1>10. Forward
  BY <1>4, <1>5 DEF Forward
<1>11. TypeOK'
  BY <1>4, <1>10 DEF VerificationInv, TypeOK
<1>12. AnswersNameKeys'
  BY <1>4, <1>5, AnswersKept
<1> QED BY <1>6, <1>7, <1>8, <1>9, <1>10, <1>11, <1>12, Assembled DEF Tables, VerificationInv

LEMMA CompleteInv ==
  ASSUME VerificationInv, NEW c \in calls, Complete(c)
  PROVE  VerificationInv'
<1>1. UNCHANGED <<world, allowed, runs, main, answers>> /\ Ends(c)
      /\ c.kind \in {"finalize", "reconcile"}
  BY DEF Complete
<1>2. CASE UNCHANGED <<verifs, job>>
  <2>1. Forward
    BY <1>1, <1>2, Settled
  <2> QED BY <1>1, <1>2, <2>1, CallEnds, AnswersKept, Quiet DEF VerificationInv, TypeOK
<1>3. CASE /\ MayComplete(c) /\ verifs' = [verifs EXCEPT ![c.verif].status = "passed"]
           /\ job' = [job EXCEPT !.status = "succeeded", !.releases = @ + 1]
  <2>1. From(c.verif, c.by)
    BY <1>1, <1>3 DEF MayComplete
  <2>2. Live(c.verif) /\ job.status = "running" /\ c.verif \in DOMAIN verifs
    BY <2>1 DEF From, Live
  <2>3. verifs[c.verif].reported
    BY <1>1 DEF VerificationInv, CallsFounded, Founded
  <2>4. job' \in JobRow
        /\ job'.status = "succeeded" /\ job'.releases = job.releases + 1
    <3>1. job \in JobRow /\ job.releases + 1 \in Nat
      BY DEF VerificationInv, TypeOK, JobRow
    <3>2. job' = [job EXCEPT !.status = "succeeded", !.releases = job.releases + 1]
      BY <1>3
    <3> QED BY <3>1, <3>2, JobCompleted
  <2>5. job'.releases =< 1
    BY <2>2, <2>4 DEF VerificationInv, Undone
  <2> QED BY <1>1, <1>3, <2>2, <2>3, <2>4, <2>5, CallEnds, AttemptOver
<1> QED BY <1>2, <1>3 DEF Complete

LEMMA RetireInv ==
  ASSUME VerificationInv, NEW c \in calls, Retire(c)
  PROVE  VerificationInv'
<1>1. UNCHANGED <<world, allowed, job, runs, main, answers>> /\ c.kind = "retire"
  BY DEF Retire, Keep
<1>2. c.key \in Names /\ \A a \in Attempt : c.row = <<a>> => Free(a)
  BY <1>1 DEF VerificationInv, CallsFounded, Founded
<1>0. PICK d : d = [Call("resume", c.by, c.key, c.verif) EXCEPT !.row = <<>>]
  OBVIOUS
<1>3. d \in Waiting
  BY <1>0, <1>2, CallFields, ResumeType DEF VerificationInv
<1>4. d.kind = "resume" /\ d.key = c.key
  BY <1>0 DEF Call
<1>5. Founded(d) /\ Founded(d)'
  BY <1>2, <1>4 DEF Founded
<1>6. ASSUME Ends(c) \/ Becomes(c, d), Forward PROVE CallsFounded' /\ calls' \subseteq Waiting
  BY <1>3, <1>5, <1>6, CallEnds, CallBecomes
<1>7. CASE verifs' = verifs /\ (Ends(c) \/ Becomes(c, d))
  <2>1. Forward
    BY <1>1, <1>7, Settled
  <2> QED BY <1>1, <1>6, <1>7, <2>1, AnswersKept, Quiet DEF VerificationInv, TypeOK
<1>8. CASE /\ From(c.verif, c.by) /\ SameRow(c) /\ Becomes(c, d)
           /\ verifs' = [verifs EXCEPT ![c.verif].status = "failed"]
  <2>1. Live(c.verif) /\ c.verif \in DOMAIN verifs
    BY <1>8 DEF From, Live
  <2>2. PICK a : a = [verifs[c.verif] EXCEPT !.ready = c.row[1].ready]
    OBVIOUS
  <2>3. verifs[c.verif] \in Attempt
    BY <2>1, Rows DEF VerificationInv
  <2>4. c.row = <<a>>
    BY <1>8, <2>2 DEF SameRow
  <2>5. a \in Attempt
    <3>1. c.row \in Seq(Attempt)
      BY CallFields DEF VerificationInv
    <3>2. <<a>>[1] = a /\ Len(<<a>>) = 1
      OBVIOUS
    <3> HIDE DEF Attempt
    <3> QED BY <2>4, <3>1, <3>2
  <2>6. Free(a)
    BY <1>2, <2>4, <2>5
  <2>7. Free(verifs[c.verif])
    BY <2>2, <2>3, <2>6 DEF Free, Attempt
  <2> QED BY <1>1, <1>6, <1>8, <2>1, <2>7, AttemptOver DEF VerificationInv, TypeOK
<1> QED BY <1>0, <1>7, <1>8 DEF Retire

LEMMA CaptureInv ==
  ASSUME VerificationInv, NEW c \in calls, Capture(c)
  PROVE  VerificationInv'
<1>1. UNCHANGED <<world, allowed, job, runs, main>> /\ Ends(c) /\ c.kind = "capture"
  BY DEF Capture, Keep
<1>2. c.key \in Keys
  BY <1>1 DEF VerificationInv, CallsFounded, Founded
<1>3. CASE verifs' = verifs /\ (answers' = answers \/ \E v \in Existing(c.key) : Answer(c.key, v))
  <2>1. Forward
    BY <1>1, <1>3, Settled
  <2>2. AnswersNameKeys'
    BY <1>2, <1>3, AnswersKept, Answered
  <2> QED BY <1>1, <1>3, <2>1, <2>2, CallEnds, Quiet DEF VerificationInv, TypeOK
<1>4. CASE /\ CanCapture(c.by) /\ Existing(c.key) = {} /\ Answer(c.key, Attempts + 1)
           /\ verifs' = Append(verifs, NewVerification(c))
  <2> DEFINE n == Len(verifs) + 1
  <2>1. PICK row : row = NewVerification(c)
    OBVIOUS
  <2>2. row \in Attempt /\ row.status = "queued" /\ row.key = c.key /\ row.count = 0
        /\ row.reported = FALSE /\ row.reserved = None
    <3>1. c.by \in Askers /\ c.main \in Nat
      BY CallFields DEF VerificationInv
    <3> QED BY <1>2, <2>1, <3>1, Numbers DEF NewVerification, Attempt, Statuses, VerificationInv
  <2>3. /\ verifs' \in Seq(Attempt) /\ Len(verifs') = n /\ DOMAIN verifs' = DOMAIN verifs \cup {n}
        /\ n \notin DOMAIN verifs /\ n \in Nat /\ verifs'[n] = row
        /\ \A w \in DOMAIN verifs : verifs'[w] = verifs[w]
    BY <1>4, <2>1, <2>2, RowAdded DEF VerificationInv
  <2>4. /\ job.status = "running" /\ \A w \in DOMAIN verifs : ~ Live(w)
        /\ \A w \in DOMAIN verifs : verifs[w].key # c.key
    BY <1>4 DEF CanCapture, Existing
  <2>5. Attempts + 1 = n
    BY DEF Attempts
  <2> HIDE DEF n
  <2>6. AttemptInv'
    <3>1. LastAtWork'
      <4>1. Attempts' = n
        BY <2>3 DEF Attempts
      <4>2. \A w \in DOMAIN verifs : ~ Live(w)'
        BY <2>3, <2>4 DEF Live
      <4> QED BY <2>3, <4>1, <4>2 DEF LastAtWork
    <3>2. KeysDiffer'
      BY <2>2, <2>3, <2>4 DEF VerificationInv, AttemptInv, KeysDiffer
    <3>3. Numbered'
      BY <1>1, <2>2, <2>3, DispatchesNat DEF VerificationInv, AttemptInv, Numbered, Dispatches
    <3>4. Held'
      BY <2>2, <2>3 DEF VerificationInv, AttemptInv, Held
    <3> QED BY <3>1, <3>2, <3>3, <3>4 DEF AttemptInv
  <2>7. AnswersNameKeys'
    <3>1. answers' = answers \cup {[request |-> <<c.key[1], c.key[2]>>, verif |-> n]}
      BY <1>4, <2>5 DEF Answer
    <3>2. c.key = <<c.key[1], c.key[2]>>
      BY <1>2 DEF Keys
    <3>3. \A a \in answers : a.verif \in DOMAIN verifs' /\ a.request = verifs'[a.verif].key
      BY <2>3 DEF VerificationInv, AnswersNameKeys
    <3>4. [request |-> <<c.key[1], c.key[2]>>, verif |-> n].verif = n
          /\ [request |-> <<c.key[1], c.key[2]>>, verif |-> n].request = c.key
      BY <3>2
    <3> QED BY <2>2, <2>3, <3>1, <3>3, <3>4 DEF AnswersNameKeys
  <2>8. Bound'
    <3>1. ASSUME NEW r \in Runs
          PROVE  runs[r].at \in {"reserved", "claimed", "reported"} => runs[r].verif \in DOMAIN verifs
      BY DEF VerificationInv, Bound
    <3> QED BY <1>1, <2>3, <3>1 DEF VerificationInv, Bound
  <2>9. RetiredIsStopped'
    BY <1>1, <2>2, <2>3 DEF VerificationInv, RetiredIsStopped
  <2>10. Undone' /\ OneCompletion'
    BY <1>1, <2>2, <2>3, <2>4 DEF VerificationInv, Undone, OneCompletion
  <2>11. Forward
    BY <1>1, <2>3 DEF Forward
  <2>12. CallsFounded' /\ calls' \subseteq Waiting
    BY <1>1, <2>11, CallEnds
  <2>13. TypeOK'
    BY <1>1, <2>3, <2>12 DEF VerificationInv, TypeOK
  <2> QED BY <2>6, <2>7, <2>8, <2>9, <2>10, <2>12, <2>13, Assembled DEF Tables, VerificationInv
<1> QED BY <1>3, <1>4 DEF Capture

\* the publication's own run is over, or completes it
LEMMA OriginalInv ==
  ASSUME VerificationInv, FinalizeOriginal \/ EndOriginal
  PROVE  VerificationInv'
<1>1. UNCHANGED <<world, allowed, verifs, calls, runs, main, answers>>
  BY DEF FinalizeOriginal, EndOriginal
<1>2. job \in JobRow
  BY DEF VerificationInv, TypeOK
<1>3. job' \in JobRow
      /\ Undone' /\ OneCompletion'
  <2>1. CASE FinalizeOriginal
    <3>1. job' = [job EXCEPT !.status = "succeeded", !.releases = job.releases + 1]
          /\ job.status = "running" /\ verifs = <<>>
      BY <2>1 DEF FinalizeOriginal, Fenced
    <3>0. job.releases + 1 \in Nat
      BY <1>2 DEF JobRow
    <3>2. /\ job' \in JobRow
          /\ job'.status = "succeeded" /\ job'.releases = job.releases + 1
      BY <1>2, <3>0, <3>1, JobCompleted
    <3> QED BY <1>1, <3>1, <3>2 DEF VerificationInv, Undone, OneCompletion
  <2>2. CASE EndOriginal
    <3>1. /\ job' \in JobRow
          /\ job'.status = job.status /\ job'.releases = job.releases
      BY <1>2, <2>2 DEF EndOriginal, JobRow
    <3> QED BY <1>1, <3>1 DEF VerificationInv, Undone, OneCompletion
  <2> QED BY <2>1, <2>2
<1>4. Forward
  BY <1>1 DEF Forward
<1>5. CallsFounded' /\ calls' \subseteq Waiting
  BY <1>1, <1>4, CallsStay
<1>6. TypeOK'
  BY <1>1, <1>3, <1>5 DEF VerificationInv, TypeOK
<1>7. AttemptInv' /\ Bound' /\ RetiredIsStopped'
  <2>1. AttemptInv'
    BY <1>1 DEF VerificationInv, AttemptInv, LastAtWork, KeysDiffer, Numbered, Held, Live, Attempts,
                Dispatches
  <2> QED BY <1>1, <2>1 DEF VerificationInv, Bound, RetiredIsStopped
<1>8. AnswersNameKeys'
  BY <1>1, AnswersKept
<1> QED BY <1>3, <1>5, <1>6, <1>7, <1>8, Assembled DEF Tables, VerificationInv

-----------------------------------------------------------------------------
(* The invariant and the theorems.                                         *)

LEMMA VerificationInit ==
  ASSUME VerificationAssumption, Init
  PROVE  VerificationInv
<1>1. verifs = <<>> /\ DOMAIN verifs = {} /\ verifs \in Seq(Attempt)
  BY DEF Init
<1>2. runs = [r \in Runs |-> NoRun] /\ NoRun \in RunRow /\ NoRun.state = "unused"
      /\ NoRun.at = "start" /\ NoRun.verif = None
  BY DEF Init, NoRun, RunRow, Points, None
<1>3. TypeOK
  <2>1. world \in Worlds /\ allowed \subseteq Askers
    BY DEF Init, Askers
  <2>2. runs \in [Runs -> RunRow]
    BY <1>2
  <2>3. /\ job \in JobRow
        /\ calls \subseteq Waiting /\ main \in [at : Nat, intact : BOOLEAN]
    BY DEF Init, JobRow
  <2> QED BY <1>1, <2>1, <2>2, <2>3 DEF TypeOK
<1>4. AttemptInv /\ RetiredIsStopped
  BY <1>1 DEF AttemptInv, LastAtWork, KeysDiffer, Numbered, Held, RetiredIsStopped
<1>5. Bound
  BY <1>2 DEF Bound
<1>6. AnswersNameKeys /\ CallsFounded /\ Undone /\ OneCompletion
  BY <1>1 DEF Init, AnswersNameKeys, CallsFounded, Undone, OneCompletion
<1> QED BY <1>3, <1>4, <1>5, <1>6 DEF VerificationInv

LEMMA VerificationStep ==
  ASSUME VerificationInv, [Next]_vars
  PROVE  VerificationInv'
<1>1. CASE UNCHANGED vars
  <2>1. Forward
    BY <1>1, Settled DEF vars
  <2> QED BY <1>1, <2>1, CallsStay, AnswersKept, Quiet DEF vars, VerificationInv, TypeOK
<1>2. CASE \E p \in world.people : OfPerson(p)
  BY <1>2, WorldInv, BeginCaptureInv, BeginReconcileInv, BeginRetryInv DEF OfPerson
<1>3. CASE \E c \in calls : OfCall(c)
  BY <1>3, CaptureInv, PostInv, CompleteInv, RetireInv, ResumeInv, LoseInv DEF OfCall
<1>4. CASE \E r \in Runs : OfRun(r)
  BY <1>4, ReserveInv, ClaimInv, ReportInv, BeginFinalizeInv, EndRunInv DEF OfRun
<1>5. CASE \E v \in DOMAIN verifs : ReserveDispatch(v) \/ Elapse(v)
  BY <1>5, ReserveDispatchInv, ElapseInv
<1>6. CASE FinalizeOriginal \/ EndOriginal \/ \E intact \in BOOLEAN : Push(intact)
  BY <1>6, OriginalInv, WorldInv
<1> QED BY <1>1, <1>2, <1>3, <1>4, <1>5, <1>6 DEF Next

LEMMA VerificationAlways ==
  ASSUME VerificationAssumption
  PROVE  Spec => []VerificationInv
<1> QED BY VerificationInit, VerificationStep, PTL DEF Spec

\* An attempt that was retired is one that no run can report for any more.
THEOREM AttemptsAreStopped ==
  ASSUME VerificationAssumption
  PROVE  Spec => []RetiredIsStopped
<1>1. VerificationInv => RetiredIsStopped
  BY DEF VerificationInv
<1> QED BY <1>1, VerificationAlways, PTL

\* A request that is sent again gets the answer it got before.
THEOREM RequestsHaveOneAnswer ==
  ASSUME VerificationAssumption
  PROVE  Spec => []OneAnswer
<1>1. VerificationInv => OneAnswer
  BY DEF VerificationInv, AttemptInv, KeysDiffer, AnswersNameKeys, OneAnswer
<1> QED BY <1>1, VerificationAlways, PTL

\* Whoever completes the publication does it once, and after a capture by a reported attempt.
THEOREM CompletedOnce ==
  ASSUME VerificationAssumption
  PROVE  Spec => []OneCompletion
<1>1. VerificationInv => OneCompletion
  BY DEF VerificationInv
<1> QED BY <1>1, VerificationAlways, PTL

\* Until the attempts are used up somebody can always take a next step.
THEOREM StepIsOffered ==
  ASSUME VerificationAssumption
  PROVE  Spec => []NextStepExists
<1>1. ASSUME VerificationInv PROVE NextStepExists
  <2>1. SUFFICES ASSUME job.status = "running", job.run = "completed", allowed # {},
                        Attempts < MaxAttempts, NEW v \in DOMAIN verifs, Live(v)
                 PROVE  \/ CanDispatch(v) \/ verifs[v].by \notin allowed \/ verifs[v].reported
                        \/ verifs[v].reserved # None /\ ~ Over(verifs[v].reserved)
                        \/ \E p \in allowed : CanRetire(v, p)
    BY DEF NextStepExists, CanCapture
  <2>2. PICK p \in allowed : TRUE
    BY <2>1
  <2>3. SUFFICES ASSUME verifs[v].by \in allowed, ~ verifs[v].reported,
                        verifs[v].reserved = None \/ Over(verifs[v].reserved)
                 PROVE  CanDispatch(v) \/ CanRetire(v, p)
    BY <2>1, <2>2
  <2>4. From(v, p) /\ From(v, verifs[v].by)
    BY <2>1, <2>2, <2>3 DEF From
  <2>5. CASE verifs[v].reserved = None
    <3>1. verifs[v].status = "queued"
      BY <1>1, <2>1, <2>5 DEF VerificationInv, AttemptInv, Held, Live
    <3>2. verifs[v].count \in Nat /\ verifs[v].count =< Dispatches /\ Dispatches \in Nat
      BY <1>1, RowFields, DispatchesNat DEF VerificationInv, AttemptInv, Numbered
    <3> QED BY <2>1, <2>3, <2>4, <2>5, <3>1, <3>2 DEF CanDispatch, Eligible, CanRetire
  <2>6. CASE verifs[v].reserved # None
    BY <2>1, <2>3, <2>4, <2>6 DEF CanRetire
  <2> QED BY <2>5, <2>6
<1> QED BY <1>1, VerificationAlways, PTL

=============================================================================
