---------------------------- MODULE UploadProofs ----------------------------
(***************************************************************************)
(* Proofs about StagingUpload for every number of jobs, keys, requests and *)
(* handlers at a time, for every lease, and in every world.                *)
(*                                                                         *)
(* A handler writes what it read in an earlier statement, and is only      *)
(* stopped by a token.  What makes that enough: a token belongs to one     *)
(* handler and to one job, so whoever still has the token of its job has   *)
(* read that job's commit as it is; and a commit that was recorded stays   *)
(* recorded, so whoever points main to it may have lost the token since.   *)
(***************************************************************************)
EXTENDS StagingUpload, FiniteSetTheorems, TLAPS

Evidence == {"none", "pending", "failed", "passed"}
Keys == (UNION {w.keys : w \in Worlds}) \cup Evidence \cup {None}
Statuses == {"queued", "running", "succeeded", "failed", "cancelled"}
JobRow ==
  [key : Keys, rev : Nat, base : Nat, status : Statuses, lease : Nat, token : Nat, until : Nat,
   parts : Nat, commit : BOOLEAN, evidence : Keys]

\* the stages at which a handler works for a job, and those at which it has a token of it
Holding ==
  {"prepare", "observe", "checkpoint", "commit", "patch", "done", "push", "succeed", "fail",
   "release"}
Working == Holding \cup {"mark", "continue", "advance", "acquire", "record"}
Stages == Working \cup {"check", "look", "base", "claim", "recover", "write"}
Handler ==
  [at : Stages, key : Keys, rev : Nat, base : Nat, job : Nat, token : Nat, parts : Nat,
   commit : BOOLEAN]

TypeOK ==
  /\ world \in Worlds /\ now \in Nat
  /\ jobs \in Seq(JobRow) /\ Len(jobs) <= MaxJobs
  /\ main \in Seq(Nat) /\ main # <<>>
  /\ handlers \subseteq Handler
Few == IsFiniteSet(handlers) /\ Cardinality(handlers) <= world.calls

\* main is made of commits of jobs and of somebody else's
Named == History \subseteq Rows \cup {0, Foreign}

TokensDiffer ==
  \A g, h \in handlers : g.token # None /\ g.token = h.token => g = h

\* what a handler at work stands on
Placed(h) ==
  /\ h.at \in Working => h.job \in Rows
  /\ h.at \in {"recover", "write"} => h.job \in Rows \cup {None}
  /\ h.token # None <=> h.at \in Holding
OwnToken(h) ==
  h.token # None => \A j \in Rows : jobs[j].token = h.token => j = h.job
UpToDate(h) ==
  h.at \in {"prepare", "observe", "checkpoint", "commit"} /\ jobs[h.job].token = h.token
    => h.commit = jobs[h.job].commit
Backed(h) ==
  /\ h.at \in {"patch", "push", "done"} => jobs[h.job].commit
  /\ h.at \in {"done", "succeed"} => h.job \in History
Sound(h) == Placed(h) /\ OwnToken(h) /\ UpToDate(h) /\ Backed(h)
HandlersSound == \A h \in handlers : Sound(h)

UploadInv ==
  /\ UploadAssumption /\ TypeOK /\ Few /\ Named /\ TokensDiffer /\ HandlersSound
  /\ PublishedIsRecorded /\ AnsweredIsPublished

-----------------------------------------------------------------------------
(* Types.                                                                  *)

LEMMA RowFacts ==
  ASSUME UploadAssumption, TypeOK
  PROVE  /\ Len(jobs) \in Nat /\ MaxJobs \in Nat /\ Rows = 1..Len(jobs) /\ Rows \subseteq Nat
         /\ None \notin Rows /\ 0 \notin Rows /\ Foreign \notin Rows /\ Foreign \in Nat
         /\ jobs \in [Rows -> JobRow] /\ \A j \in Rows : jobs[j] \in JobRow
<1> HIDE DEF JobRow
<1> QED BY DEF UploadAssumption, TypeOK, Rows, None, Foreign

LEMMA JobFields ==
  ASSUME UploadAssumption, TypeOK, NEW j \in Rows
  PROVE  /\ jobs[j].key \in Keys /\ jobs[j].rev \in Nat /\ jobs[j].base \in Nat
         /\ jobs[j].status \in Statuses /\ jobs[j].lease \in Nat /\ jobs[j].token \in Nat
         /\ jobs[j].until \in Nat /\ jobs[j].parts \in Nat /\ jobs[j].commit \in BOOLEAN
         /\ jobs[j].evidence \in Keys
<1>1. jobs[j] \in JobRow
  BY RowFacts
<1> QED BY <1>1 DEF JobRow

LEMMA HandlerFields ==
  ASSUME NEW h \in Handler
  PROVE  /\ h.at \in Stages /\ h.key \in Keys /\ h.rev \in Nat /\ h.base \in Nat
         /\ h.job \in Nat /\ h.token \in Nat /\ h.parts \in Nat /\ h.commit \in BOOLEAN
  BY DEF Handler

LEMMA Handled ==
  ASSUME UploadInv, NEW h \in handlers
  PROVE  /\ h \in Handler /\ Placed(h) /\ OwnToken(h) /\ UpToDate(h) /\ Backed(h)
  BY DEF UploadInv, TypeOK, HandlersSound, Sound

LEMMA HistoryFacts ==
  ASSUME TypeOK
  PROVE  Tip \in History /\ History \subseteq Nat
<1>1. Len(main) \in Nat /\ Len(main) # 0 /\ DOMAIN main = 1..Len(main)
      /\ \A i \in DOMAIN main : main[i] \in Nat
  BY DEF TypeOK
<1> QED BY <1>1 DEF Tip, History

LEMMA Grown ==
  ASSUME TypeOK, NEW c \in Nat, main' = Append(main, c)
  PROVE  main' \in Seq(Nat) /\ main' # <<>> /\ History' = History \cup {c}
<1>1. Len(main) \in Nat /\ DOMAIN main = 1..Len(main)
  BY DEF TypeOK
<1>2. main' \in Seq(Nat) /\ main' # <<>>
  BY DEF TypeOK
<1>3. DOMAIN main' = 1..(Len(main) + 1) /\ main'[Len(main) + 1] = c
      /\ \A i \in DOMAIN main : main'[i] = main[i]
  BY <1>1 DEF TypeOK
<1> QED BY <1>1, <1>2, <1>3 DEF History

-----------------------------------------------------------------------------
(* Steps: what happens to the rows, and who comes and goes.                *)

RowsStay ==
  Rows \subseteq Rows' /\ \A j \in Rows : jobs[j].commit => jobs'[j].commit

\* no job takes over a token of g, and what g knows of its job stays true
Keeps(g) ==
  g.token # None =>
    \A j \in Rows' : jobs'[j].token = g.token =>
      j \in Rows /\ jobs[j].token = g.token /\ jobs'[j].commit = jobs[j].commit

Changed ==
  /\ world' = world /\ now' \in Nat /\ main' = main
  /\ jobs' \in Seq(JobRow) /\ Len(jobs') <= MaxJobs /\ RowsStay
  /\ answered' \cup {j \in Rows' : jobs'[j].status = "succeeded"} \subseteq History

\* A handler that is not at work itself stays sound.
LEMMA SoundStays ==
  ASSUME NEW g \in Handler, Sound(g), RowsStay, History \subseteq History', Keeps(g)
  PROVE  Sound(g)'
<1>1. Placed(g)'
  BY DEF Sound, Placed, RowsStay
<1>2. OwnToken(g)'
  BY DEF Sound, OwnToken, Keeps
<1>3. UpToDate(g)'
  <2>1. SUFFICES ASSUME g.at \in {"prepare", "observe", "checkpoint", "commit"},
                        jobs'[g.job].token = g.token
                 PROVE  g.commit = jobs'[g.job].commit
    BY DEF UpToDate
  <2>2. g.token # None /\ g.job \in Rows
    BY <2>1 DEF Sound, Placed, Holding, Working
  <2>3. g.job \in Rows'
    BY <2>2 DEF RowsStay
  <2> QED BY <2>1, <2>2, <2>3 DEF Keeps, Sound, UpToDate
<1>4. Backed(g)'
  <2>1. g.at \in {"patch", "push", "done"} => g.job \in Rows
    BY DEF Sound, Placed, Holding, Working
  <2> QED BY <2>1 DEF Sound, Backed, RowsStay
<1> QED BY <1>1, <1>2, <1>3, <1>4 DEF Sound

\* Named, PublishedIsRecorded and AnsweredIsPublished hold after whatever changes rows only.
LEMMA RowsPublished ==
  ASSUME UploadInv, Changed
  PROVE  Named' /\ PublishedIsRecorded' /\ AnsweredIsPublished'
<1>1. History' = History
  BY DEF Changed, History
<1>2. Foreign' = Foreign
  BY DEF Foreign
<1>3. Named'
  BY <1>1, <1>2 DEF UploadInv, Named, Changed, RowsStay
<1>4. Rows' \subseteq 1..MaxJobs
  <2>1. Len(jobs') \in Nat /\ Rows' = 1..Len(jobs') /\ Len(jobs') <= MaxJobs
    <3> HIDE DEF JobRow
    <3> QED BY DEF Changed, Rows
  <2> QED BY <2>1 DEF UploadInv, UploadAssumption
<1>5. ASSUME NEW j \in History' \cap Rows' PROVE jobs'[j].commit
  <2>1. j \in 1..MaxJobs
    BY <1>4, <1>5
  <2>2. j \in Rows
    BY <1>1, <1>5, <2>1 DEF UploadInv, UploadAssumption, Named, Foreign
  <2> QED BY <1>1, <1>5, <2>2 DEF UploadInv, PublishedIsRecorded, Changed, RowsStay
<1>6. AnsweredIsPublished'
  BY <1>1 DEF Changed, AnsweredIsPublished
<1> QED BY <1>3, <1>5, <1>6 DEF PublishedIsRecorded

LEMMA Built ==
  ASSUME UploadInv, Changed, handlers' \subseteq Handler, Few', TokensDiffer',
         NEW new, handlers' \subseteq handlers \cup new,
         \A g \in handlers' \ new : Keeps(g), \A g \in new : Sound(g)'
  PROVE  UploadInv'
<1>1. TypeOK'
  BY DEF UploadInv, TypeOK, Changed
<1>2. HandlersSound'
  <2>1. SUFFICES ASSUME NEW g \in handlers' PROVE Sound(g)'
    BY DEF HandlersSound
  <2>2. CASE g \in new
    BY <2>2
  <2>3. CASE g \notin new
    <3>1. g \in handlers /\ Keeps(g) /\ g \in Handler /\ Sound(g)
      BY <2>3 DEF UploadInv, HandlersSound
    <3>2. History \subseteq History' /\ RowsStay
      BY DEF Changed, History
    <3> QED BY <3>1, <3>2, SoundStays
  <2> QED BY <2>2, <2>3
<1>3. Named' /\ PublishedIsRecorded' /\ AnsweredIsPublished'
  BY RowsPublished
<1>4. UploadAssumption'
  BY DEF UploadInv, UploadAssumption
<1> QED BY <1>1, <1>2, <1>3, <1>4 DEF UploadInv

LEMMA WaitsFit ==
  ASSUME UploadInv, NEW g \in Handler, g.token = None, Waits(g), world' = world
  PROVE  handlers' \subseteq Handler /\ Few' /\ TokensDiffer'
<1>1. handlers' = handlers \cup {g} /\ Cardinality(handlers) < world.calls /\ g \notin handlers
  BY DEF Waits
<1>2. world.calls \in Nat /\ IsFiniteSet(handlers) /\ Cardinality(handlers) \in Nat
  BY FS_CardinalityType DEF UploadInv, UploadAssumption, TypeOK, Few
<1>3. Few'
  BY <1>1, <1>2, FS_AddElement DEF Few
<1>4. TokensDiffer'
  BY <1>1 DEF UploadInv, TokensDiffer
<1> QED BY <1>1, <1>3, <1>4 DEF UploadInv, TypeOK

LEMMA EndsFit ==
  ASSUME UploadInv, NEW h, Ends(h), world' = world
  PROVE  handlers' \subseteq Handler /\ Few' /\ TokensDiffer'
<1>1. handlers' \subseteq handlers /\ handlers' \in SUBSET handlers
  BY DEF Ends
<1>2. world.calls \in Nat /\ IsFiniteSet(handlers) /\ Cardinality(handlers) \in Nat
      /\ Cardinality(handlers) <= world.calls
  BY FS_CardinalityType DEF UploadInv, UploadAssumption, TypeOK, Few
<1>3. IsFiniteSet(handlers') /\ Cardinality(handlers') <= Cardinality(handlers)
  BY <1>1, <1>2, FS_Subset
<1>4. Cardinality(handlers') \in Nat
  BY <1>3, FS_CardinalityType
<1>5. Few'
  BY <1>2, <1>3, <1>4 DEF Few
<1>6. TokensDiffer'
  BY <1>1 DEF UploadInv, TokensDiffer
<1> QED BY <1>1, <1>5, <1>6 DEF UploadInv, TypeOK

LEMMA ToFits ==
  ASSUME UploadInv, NEW h \in handlers, NEW g \in Handler, To(h, g), world' = world,
         g.token \in {None, h.token} \/ \A k \in handlers : k.token # g.token
  PROVE  handlers' \subseteq Handler /\ Few' /\ TokensDiffer'
<1>1. handlers' = (handlers \ {h}) \cup {g}
  BY DEF To
<1>2. world.calls \in Nat /\ IsFiniteSet(handlers) /\ Cardinality(handlers) \in Nat
      /\ Cardinality(handlers) <= world.calls
  BY FS_CardinalityType DEF UploadInv, UploadAssumption, TypeOK, Few
<1>3. /\ IsFiniteSet(handlers \ {h})
      /\ Cardinality(handlers \ {h}) = Cardinality(handlers) - 1
  BY <1>2, FS_RemoveElement
<1>4. /\ IsFiniteSet(handlers')
      /\ Cardinality(handlers') <= Cardinality(handlers)
  BY <1>1, <1>2, <1>3, FS_AddElement
<1>5. Cardinality(handlers') \in Nat
  BY <1>4, FS_CardinalityType
<1>6. Few'
  BY <1>2, <1>4, <1>5 DEF Few
<1>7. TokensDiffer'
  BY <1>1 DEF UploadInv, TokensDiffer
<1> QED BY <1>1, <1>6, <1>7 DEF UploadInv, TypeOK

\* The three ways in which handlers come and go.
LEMMA WaitsInv ==
  ASSUME UploadInv, NEW g \in Handler, g.token = None, Waits(g), Placed(g),
         UNCHANGED <<world, now, main, jobs, answered>>
  PROVE  UploadInv'
<1>1. Changed
  <2> HIDE DEF JobRow
  <2> QED BY DEF UploadInv, TypeOK, Changed, RowsStay, AnsweredIsPublished, Rows, History
<1>2. handlers' \subseteq Handler /\ Few' /\ TokensDiffer'
  BY WaitsFit
<1>3. \A k \in handlers' \ {g} : Keeps(k)
  BY DEF Keeps, Rows
<1>4. Sound(g)'
  <2>1. g.at \notin Holding
    BY DEF Placed
  <2>2. Placed(g)' /\ OwnToken(g)' /\ UpToDate(g)' /\ Backed(g)'
    BY <2>1 DEF Placed, OwnToken, UpToDate, Backed, Holding, Rows
  <2> QED BY <2>2 DEF Sound
<1>5. handlers' \subseteq handlers \cup {g}
  BY DEF Waits
<1>6. PICK new : new = {g}
  OBVIOUS
<1>7. /\ handlers' \subseteq handlers \cup new
      /\ \A x \in handlers' \ new : Keeps(x)
      /\ \A x \in new : Sound(x)'
  BY <1>3, <1>4, <1>5, <1>6
<1> QED BY <1>1, <1>2, <1>7, Built

LEMMA EndsInv ==
  ASSUME UploadInv, NEW h, Ends(h), Changed, \A k \in handlers \ {h} : Keeps(k)
  PROVE  UploadInv'
<1>1. handlers' \subseteq Handler /\ Few' /\ TokensDiffer'
  BY EndsFit DEF Changed
<1>2. handlers' = handlers \ {h}
  BY DEF Ends
<1>3. PICK new : new = {}
  OBVIOUS
<1>4. /\ handlers' \subseteq handlers \cup new
      /\ \A g \in handlers' \ new : Keeps(g)
      /\ \A g \in new : Sound(g)'
  BY <1>2, <1>3
<1> QED BY <1>1, <1>4, Built

LEMMA ToInv ==
  ASSUME UploadInv, NEW h \in handlers, NEW g \in Handler, To(h, g), Changed,
         \A k \in handlers \ {h} : Keeps(k), Sound(g)',
         g.token \in {None, h.token} \/ \A k \in handlers : k.token # g.token
  PROVE  UploadInv'
<1>1. handlers' \subseteq Handler /\ Few' /\ TokensDiffer'
  BY ToFits DEF Changed
<1>2. handlers' \subseteq handlers \cup {g} /\ handlers' \ {g} \subseteq handlers \ {h}
  BY DEF To
<1>3. /\ \A x \in handlers' \ {g} : Keeps(x)
      /\ \A x \in {g} : Sound(x)'
  BY <1>2
<1> QED BY <1>1, <1>2, <1>3, Built

-----------------------------------------------------------------------------
(* What an action does to the rows.                                        *)

LEMMA SameRows ==
  ASSUME UploadInv, UNCHANGED <<world, now, main, jobs>>, answered' \subseteq History
  PROVE  Changed /\ Rows' = Rows /\ \A k : Keeps(k)
<1>1. \A k : Keeps(k)
  BY DEF Keeps, Rows
<1>2. Changed
  <2> HIDE DEF JobRow
  <2> QED BY DEF UploadInv, TypeOK, Changed, RowsStay, AnsweredIsPublished, Rows
<1> QED BY <1>1, <1>2 DEF Rows

LEMMA RowsMoved ==
  ASSUME UploadInv, UNCHANGED <<world, now, main>>, answered' \subseteq History,
         jobs' \in [Rows -> JobRow],
         \A j \in Rows : /\ jobs[j].commit => jobs'[j].commit
                         /\ jobs'[j].status = "succeeded" => j \in History
  PROVE  Changed /\ Rows' = Rows
<1>1. Rows' = Rows
  BY DEF Rows
<1>2. jobs' \in Seq(JobRow) /\ Len(jobs') = Len(jobs)
  <2>1. Len(jobs) \in Nat /\ Rows = 1..Len(jobs)
    BY RowFacts DEF UploadInv
  <2> HIDE DEF JobRow
  <2>2. jobs' \in [1..Len(jobs) -> JobRow]
    BY <2>1
  <2> QED BY <2>1, <2>2
<1> QED BY <1>1, <1>2 DEF UploadInv, TypeOK, Changed, RowsStay

\* The usual change: tokens and commits stay as they are.
LEMMA RowChange ==
  ASSUME UploadInv, UNCHANGED <<world, now, main>>, answered' \subseteq History,
         jobs' \in [Rows -> JobRow],
         \A j \in Rows : /\ jobs'[j].token = jobs[j].token /\ jobs'[j].commit = jobs[j].commit
                         /\ jobs'[j].status = "succeeded" => j \in History
  PROVE  Changed /\ Rows' = Rows /\ \A k : Keeps(k)
<1>1. Changed /\ Rows' = Rows
  BY RowsMoved
<1> QED BY <1>1 DEF Keeps

LEMMA Published ==
  ASSUME UploadInv
  PROVE  /\ answered \subseteq History
         /\ \A j \in Rows : jobs[j].status = "succeeded" => j \in History
  BY DEF UploadInv, AnsweredIsPublished

LEMMA Moving ==
  ASSUME NEW h \in Handler, NEW s \in Stages
  PROVE  /\ [h EXCEPT !.at = s] \in Handler
         /\ [h EXCEPT !.at = s].at = s /\ [h EXCEPT !.at = s].job = h.job
         /\ [h EXCEPT !.at = s].token = h.token /\ [h EXCEPT !.at = s].commit = h.commit
  BY DEF Handler

\* A handler that has no token yet goes on.
LEMMA PlainInv ==
  ASSUME UploadInv, NEW h \in handlers, NEW g \in Handler, To(h, g), g.token = None,
         Placed(g)', Changed, \A k : Keeps(k)
  PROVE  UploadInv'
<1>1. g.at \notin Holding
  BY DEF Placed
<1>2. Sound(g)'
  BY <1>1 DEF Sound, Placed, OwnToken, UpToDate, Backed, Holding
<1> QED BY <1>2, ToInv

LEMMA PlainGoes ==
  ASSUME UploadInv, NEW h \in handlers, NEW s \in Stages \ Holding, Goes(h, s), h.token = None,
         s \in Working => h.job \in Rows', s \in {"recover", "write"} => h.job \in Rows' \cup {None},
         Changed, \A k : Keeps(k)
  PROVE  UploadInv'
<1>1. PICK g : g = [h EXCEPT !.at = s]
  OBVIOUS
<1>2. g \in Handler /\ g.at = s /\ g.job = h.job /\ g.token = None
  BY <1>1, Handled, Moving
<1>3. Placed(g)'
  BY <1>2 DEF Placed
<1>4. To(h, g)
  BY <1>1 DEF Goes
<1> QED BY <1>2, <1>3, <1>4, PlainInv

\* A handler with a token goes on.
LEMMA HoldingGoes ==
  ASSUME UploadInv, NEW h \in handlers, h.at \in Holding, NEW s \in Holding \ {"prepare"}, Goes(h, s),
         Changed, \A k : Keeps(k),
         s \in {"observe", "checkpoint", "commit"} => h.at \in {"prepare", "observe", "checkpoint"},
         s \in {"patch", "push", "done"} => jobs'[h.job].commit,
         s \in {"done", "succeed"} => h.job \in History
  PROVE  UploadInv'
<1>1. PICK g : g = [h EXCEPT !.at = s]
  OBVIOUS
<1>2. g \in Handler /\ g.at = s /\ g.job = h.job /\ g.token = h.token /\ g.commit = h.commit
  BY <1>1, Handled, Moving DEF Stages, Working
<1>3. To(h, g)
  BY <1>1 DEF Goes
<1>4. Placed(g)'
  BY <1>2, Handled DEF Placed, Changed, RowsStay, Working, Holding
<1>5. OwnToken(h)' /\ UpToDate(h)'
  <2>1. History \subseteq History' /\ RowsStay
    BY DEF Changed, History
  <2>2. Sound(h)'
    BY <2>1, Handled, SoundStays DEF Sound
  <2> QED BY <2>2 DEF Sound
<1>6. OwnToken(g)'
  BY <1>2, <1>5 DEF OwnToken
<1>7. UpToDate(g)'
  <2>1. CASE s \in {"observe", "checkpoint", "commit"}
    BY <1>2, <1>5, <2>1 DEF UpToDate
  <2>2. CASE s \notin {"observe", "checkpoint", "commit"}
    BY <1>2, <2>2 DEF UpToDate
  <2> QED BY <2>1, <2>2
<1>8. Backed(g)'
  BY <1>2 DEF Backed, Changed, History
<1> QED BY <1>2, <1>3, <1>4, <1>6, <1>7, <1>8, ToInv DEF Sound

LEMMA EndsPlain ==
  ASSUME UploadInv, NEW h, Ends(h), UNCHANGED <<world, main, jobs>>, now' = now,
         answered' \subseteq History
  PROVE  UploadInv'
  BY SameRows, EndsInv

-----------------------------------------------------------------------------
(* Requests that begin, and the lookups before a job is claimed.           *)

LEMMA WorldKeys ==
  ASSUME UploadInv
  PROVE  world.keys \subseteq Keys /\ Evidence \subseteq Keys /\ None \in Keys /\ None \in Nat
  BY DEF UploadInv, TypeOK, Keys, None

LEMMA BeginCheckInv ==
  ASSUME UploadInv, NEW k \in world.keys, NEW r \in Nat, BeginCheck(k, r)
  PROVE  UploadInv'
<1>1. UNCHANGED <<world, now, main, jobs, answered>>
  BY DEF BeginCheck
<1>2. CASE Waits(Request("check", k, r, None))
  <2>1. PICK g : g = Request("check", k, r, None)
    OBVIOUS
  <2>2. g \in Handler /\ g.token = None /\ g.at = "check"
    <3>1. k \in Keys /\ "check" \in Stages /\ None \in Nat
      BY WorldKeys DEF Stages
    <3> QED BY <2>1, <3>1 DEF Request, Handler
  <2>3. Placed(g)
    BY <2>2 DEF Placed, Working, Holding
  <2> QED BY <1>1, <1>2, <2>1, <2>2, <2>3, WaitsInv
<1>3. CASE UNCHANGED handlers
  <2>1. Changed /\ \A x : Keeps(x)
    BY <1>1, SameRows, Published
  <2>2. handlers' \subseteq Handler /\ Few' /\ TokensDiffer'
    BY <1>1, <1>3 DEF UploadInv, TypeOK, Few, TokensDiffer
  <2>3. PICK new : new = {}
    OBVIOUS
  <2>4. /\ handlers' \subseteq handlers \cup new
        /\ \A g \in handlers' \ new : Keeps(g)
        /\ \A g \in new : Sound(g)'
    BY <1>3, <2>1, <2>3
  <2> QED BY <2>1, <2>2, <2>4, Built
<1> QED BY <1>2, <1>3 DEF BeginCheck

LEMMA BeginPublishInv ==
  ASSUME UploadInv, NEW k \in world.keys, NEW r \in Nat, NEW b \in History, BeginPublish(k, r, b)
  PROVE  UploadInv'
<1>1. PICK g : g = Request("look", k, r, b)
  OBVIOUS
<1>2. b \in Nat
  BY HistoryFacts DEF UploadInv
<1>3. g \in Handler /\ g.token = None /\ g.at = "look"
  <2>1. k \in Keys /\ "look" \in Stages /\ None \in Nat
    BY WorldKeys DEF Stages
  <2> QED BY <1>1, <1>2, <2>1 DEF Request, Handler
<1>4. Placed(g)
  BY <1>3 DEF Placed, Working, Holding
<1> QED BY <1>1, <1>3, <1>4, WaitsInv DEF BeginPublish, Keep

LEMMA BeginContinueInv ==
  ASSUME UploadInv, NEW j \in Rows, BeginContinue(j)
  PROVE  UploadInv'
<1>1. PICK g : g = [Request("continue", None, jobs[j].rev, jobs[j].base) EXCEPT !.job = j]
  OBVIOUS
<1>2. jobs[j].rev \in Nat /\ jobs[j].base \in Nat /\ j \in Nat
  BY JobFields, RowFacts DEF UploadInv
<1>3. g \in Handler /\ g.token = None /\ g.at = "continue" /\ g.job = j
  <2>1. None \in Keys /\ "continue" \in Stages /\ None \in Nat
    BY WorldKeys DEF Stages, Working
  <2> QED BY <1>1, <1>2, <2>1 DEF Request, Handler
<1>4. Placed(g)
  BY <1>3 DEF Placed, Working, Holding
<1> QED BY <1>1, <1>3, <1>4, WaitsInv DEF BeginContinue, Keep

LEMMA BeginRefreshInv ==
  ASSUME UploadInv, NEW j \in Rows, NEW seen \in {"pending", "failed", "passed"},
         BeginRefresh(j, seen)
  PROVE  UploadInv'
<1>1. PICK g : g = [Request("record", seen, None, None) EXCEPT !.job = j]
  OBVIOUS
<1>2. seen \in Keys /\ j \in Nat
  BY WorldKeys, RowFacts DEF UploadInv, Evidence
<1>3. g \in Handler /\ g.token = None /\ g.at = "record" /\ g.job = j
  <2>1. "record" \in Stages /\ None \in Nat
    BY WorldKeys DEF Stages, Working
  <2> QED BY <1>1, <1>2, <2>1 DEF Request, Handler
<1>4. Placed(g)
  BY <1>3 DEF Placed, Working, Holding
<1> QED BY <1>1, <1>3, <1>4, WaitsInv DEF BeginRefresh, Keep

\* Before it acquires a step a handler has no token.
LEMMA NoToken ==
  ASSUME UploadInv, NEW h \in handlers, h.at \notin Holding
  PROVE  h.token = None
  BY Handled DEF Placed

LEMMA AnswersInv ==
  ASSUME UploadInv, NEW h \in handlers, NEW j \in Rows, jobs[j].status = "succeeded",
         Answers(h, j), UNCHANGED <<world, now, main, jobs>>
  PROVE  UploadInv'
  BY Published, EndsPlain DEF Answers

LEMMA AfreshInv ==
  ASSUME UploadInv, NEW h \in handlers, h.at = "look", Afresh(h),
         UNCHANGED <<world, now, main, jobs>>
  PROVE  UploadInv'
<1>1. CASE Ends(h) /\ UNCHANGED answered
  BY <1>1, EndsPlain, Published
<1>2. CASE \E j \in Reusable(h) : Answers(h, j)
  BY <1>2, AnswersInv DEF Reusable, Alike
<1>3. CASE Goes(h, "base") /\ UNCHANGED answered
  <2>1. h.token = None /\ "base" \in Stages \ Holding /\ "base" \notin Working
    BY NoToken DEF Holding, Stages, Working
  <2>2. Changed /\ \A k : Keeps(k)
    BY <1>3, SameRows, Published
  <2> QED BY <1>3, <2>1, <2>2, PlainGoes
<1> QED BY <1>1, <1>2, <1>3 DEF Afresh

\* A handler that has found the row it works for.
LEMMA FoundInv ==
  ASSUME UploadInv, NEW h \in handlers, h.at \notin Holding, NEW j \in Rows \cup {None},
         NEW s \in Stages \ Holding, s \in Working => j \in Rows,
         To(h, [h EXCEPT !.at = s, !.job = j]), UNCHANGED <<world, now, main, jobs, answered>>
  PROVE  UploadInv'
<1>1. PICK g : g = [h EXCEPT !.at = s, !.job = j]
  OBVIOUS
<1>2. g \in Handler /\ g.at = s /\ g.job = j /\ g.token = None
  <2>1. h \in Handler /\ h.token = None /\ j \in Nat
    BY Handled, NoToken, RowFacts DEF UploadInv, None
  <2> QED BY <1>1, <2>1 DEF Handler
<1>3. Changed /\ Rows' = Rows /\ \A k : Keeps(k)
  BY SameRows, Published
<1>4. Placed(g)'
  BY <1>2, <1>3 DEF Placed
<1> QED BY <1>1, <1>2, <1>3, <1>4, PlainInv

LEMMA LookInv ==
  ASSUME UploadInv, NEW h \in handlers, Look(h)
  PROVE  UploadInv'
<1>1. h.at = "look" /\ UNCHANGED <<world, now, main, jobs>>
  BY DEF Look, Keep
<1>2. CASE Afresh(h)
  BY <1>1, <1>2, AfreshInv
<1>3. ASSUME NEW j \in OfKey(h.key), Again(h, j) PROVE UploadInv'
  <2>1. j \in Rows
    BY <1>3 DEF OfKey
  <2>2. h.at \notin Holding /\ {"continue", "claim"} \subseteq Stages \ Holding
    BY <1>1 DEF Holding, Stages, Working
  <2>3. CASE jobs[j].status = "succeeded" /\ Answers(h, j)
    BY <1>1, <2>1, <2>3, AnswersInv
  <2>4. CASE To(h, [h EXCEPT !.at = "continue", !.job = j]) /\ UNCHANGED answered
    BY <1>1, <2>1, <2>2, <2>4, FoundInv
  <2>5. CASE To(h, [h EXCEPT !.at = "claim", !.job = j]) /\ UNCHANGED answered
    BY <1>1, <2>1, <2>2, <2>5, FoundInv
  <2>6. CASE Afresh(h)
    BY <1>1, <2>6, AfreshInv
  <2> QED BY <1>3, <2>3, <2>4, <2>5, <2>6 DEF Again
<1>4. CASE Ends(h) /\ UNCHANGED answered
  BY <1>1, <1>4, EndsPlain, Published
<1> QED BY <1>2, <1>3, <1>4 DEF Look

LEMMA BaseInv ==
  ASSUME UploadInv, NEW h \in handlers, Base(h)
  PROVE  UploadInv'
<1>1. h.at = "base" /\ UNCHANGED <<world, now, main, jobs, answered>>
  BY DEF Base
<1>2. CASE Goes(h, "claim")
  <2>1. h.token = None /\ "claim" \in Stages \ Holding /\ "claim" \notin Working
    BY <1>1, NoToken DEF Holding, Stages, Working
  <2>2. Changed /\ \A k : Keeps(k)
    BY <1>1, SameRows, Published
  <2> QED BY <1>2, <2>1, <2>2, PlainGoes
<1>3. CASE Ends(h)
  BY <1>1, <1>3, EndsPlain, Published
<1> QED BY <1>2, <1>3 DEF Base

LEMMA ClaimInv ==
  ASSUME UploadInv, NEW h \in handlers, Claim(h)
  PROVE  UploadInv'
<1>1. h.at = "claim" /\ UNCHANGED <<world, now, main, jobs, answered>>
  BY DEF Claim, Keep
<1>2. h.at \notin Holding /\ {"recover", "continue"} \subseteq Stages \ Holding
      /\ "recover" \notin Working
  BY <1>1 DEF Holding, Stages, Working
<1>3. CASE To(h, [h EXCEPT !.at = "recover", !.job = None])
  BY <1>1, <1>2, <1>3, FoundInv
<1>4. ASSUME NEW j \in OfKey(h.key),
             \/ Ends(h) \/ To(h, [h EXCEPT !.at = "continue", !.job = j])
             \/ To(h, [h EXCEPT !.at = "recover", !.job = j])
      PROVE  UploadInv'
  <2>1. j \in Rows
    BY DEF OfKey
  <2>2. CASE Ends(h)
    BY <1>1, <2>2, EndsPlain, Published
  <2>3. CASE To(h, [h EXCEPT !.at = "continue", !.job = j])
    BY <1>1, <1>2, <2>1, <2>3, FoundInv
  <2>4. CASE To(h, [h EXCEPT !.at = "recover", !.job = j])
    BY <1>1, <1>2, <2>1, <2>4, FoundInv
  <2> QED BY <1>4, <2>2, <2>3, <2>4
<1> QED BY <1>3, <1>4 DEF Claim

-----------------------------------------------------------------------------
(* The claim of a job, and what happens to its row.                        *)

\* `status' and `lease' of one row
LEMMA StatusSet ==
  ASSUME UploadInv, NEW j \in Rows, NEW st \in Statuses, NEW until \in Nat,
         jobs' = [jobs EXCEPT ![j].status = st, ![j].lease = until],
         st = "succeeded" => j \in History,
         UNCHANGED <<world, now, main>>, answered' \subseteq History
  PROVE  Changed /\ Rows' = Rows /\ \A k : Keeps(k)
<1>1. jobs \in [Rows -> JobRow]
  BY RowFacts DEF UploadInv
<1>2. jobs' \in [Rows -> JobRow]
  BY <1>1 DEF JobRow
<1>3. ASSUME NEW i \in Rows
      PROVE  /\ jobs'[i].token = jobs[i].token /\ jobs'[i].commit = jobs[i].commit
             /\ jobs'[i].status = "succeeded" => i \in History
  <2>1. CASE i = j
    BY <1>1, <2>1 DEF JobRow
  <2>2. CASE i # j
    BY <1>1, <2>2, Published
  <2> QED BY <2>1, <2>2
<1> QED BY <1>2, <1>3, RowChange

LEMMA LeaseNat == ASSUME UploadInv PROVE now \in Nat /\ now + Lease \in Nat
  BY DEF UploadInv, TypeOK, UploadAssumption

LEMMA RecoverInv ==
  ASSUME UploadInv, NEW h \in handlers, Recover(h)
  PROVE  UploadInv'
<1>1. h.at = "recover" /\ UNCHANGED <<world, now, main, answered>> /\ Goes(h, "write")
      /\ jobs' = [j \in Rows |-> IF Active(j) /\ ~ LeaseLive(j)
                                   THEN [jobs[j] EXCEPT !.status = "cancelled", !.lease = 0]
                                   ELSE jobs[j]]
  BY DEF Recover, Keep
<1>2. ASSUME NEW j \in Rows
      PROVE  /\ jobs'[j] \in JobRow
             /\ jobs'[j].token = jobs[j].token /\ jobs'[j].commit = jobs[j].commit
             /\ jobs'[j].status = "succeeded" => j \in History
  <2>1. jobs[j] \in JobRow
    BY RowFacts DEF UploadInv
  <2>2. PICK row \in JobRow : row = jobs[j]
    BY <2>1
  <2>3. \/ jobs'[j] = [jobs[j] EXCEPT !.status = "cancelled", !.lease = 0]
        \/ jobs'[j] = jobs[j]
    BY <1>1
  <2>4. CASE jobs'[j] = jobs[j]
    BY <2>1, <2>4, Published
  <2>5. CASE jobs'[j] = [jobs[j] EXCEPT !.status = "cancelled", !.lease = 0]
    <3>1. PICK new : new = [row EXCEPT !.status = "cancelled", !.lease = 0]
      OBVIOUS
    <3>2. new \in JobRow /\ new.token = row.token /\ new.commit = row.commit
          /\ new.status = "cancelled"
      BY <3>1 DEF JobRow, Statuses
    <3> QED BY <2>2, <2>5, <3>1, <3>2
  <2> QED BY <2>3, <2>4, <2>5
<1>3. jobs' \in [Rows -> JobRow]
  <2> HIDE DEF JobRow
  <2> QED BY <1>1, <1>2
<1>4. Changed /\ Rows' = Rows /\ \A k : Keeps(k)
  BY <1>1, <1>2, <1>3, Published, RowChange
<1>5. "write" \in Stages \ Holding /\ "write" \notin Working /\ h.token = None
  BY <1>1, NoToken DEF Holding, Stages, Working
<1>6. h.job \in Rows \cup {None}
  BY <1>1, Handled DEF Placed
<1> QED BY <1>1, <1>4, <1>5, <1>6, PlainGoes

LEMMA RunInv ==
  ASSUME UploadInv, NEW h \in handlers, h.at \notin Holding, NEW s \in {"continue", "advance"},
         h.job \in Rows, Run(h.job), Goes(h, s), UNCHANGED <<world, now, main, answered>>
  PROVE  UploadInv'
<1>1. Changed /\ Rows' = Rows /\ \A k : Keeps(k)
  <2>1. "running" \in Statuses /\ "running" # "succeeded"
    BY DEF Statuses
  <2> QED BY <2>1, StatusSet, LeaseNat, Published DEF Run
<1>2. s \in Stages \ Holding /\ h.token = None
  BY NoToken DEF Holding, Stages, Working
<1>3. s \notin {"recover", "write"}
  OBVIOUS
<1> QED BY <1>1, <1>2, <1>3, PlainGoes

\* A new row has no token, and its commit is not on main.
LEMMA CreatedInv ==
  ASSUME UploadInv, NEW h \in handlers, h.at \notin Holding, Len(jobs) < MaxJobs,
         jobs' = Append(jobs, NewJob(h)), To(h, [h EXCEPT !.at = "mark", !.job = Len(jobs) + 1]),
         UNCHANGED <<world, now, main, answered>>
  PROVE  UploadInv'
<1> DEFINE n == Len(jobs) + 1
<1>1. h \in Handler /\ h.token = None
  BY Handled, NoToken
<1>2. NewJob(h) \in JobRow /\ NewJob(h).token = None /\ NewJob(h).status = "queued"
  BY <1>1, LeaseNat, HandlerFields DEF NewJob, JobRow, Statuses, None, Keys, Evidence
<1>3. PICK row \in JobRow : row = NewJob(h)
  BY <1>2
<1>4. jobs \in Seq(JobRow) /\ Len(jobs) \in Nat /\ Rows = 1..Len(jobs)
  BY RowFacts DEF UploadInv, TypeOK
<1>5. /\ jobs' \in Seq(JobRow) /\ Len(jobs') = n /\ Rows' = 1..n
      /\ \A j \in Rows : jobs'[j] = jobs[j]
      /\ jobs'[n] = row
  <2> HIDE DEF JobRow
  <2> QED BY <1>3, <1>4 DEF Rows
<1>6. Rows' = Rows \cup {n} /\ n \notin Rows /\ n \in Nat /\ n # None
  BY <1>4, <1>5 DEF None
<1> HIDE DEF n
<1>7. \A k : Keeps(k)
  BY <1>2, <1>3, <1>5, <1>6 DEF Keeps
<1>8. answered' \cup {j \in Rows' : jobs'[j].status = "succeeded"} \subseteq History
  BY <1>2, <1>3, <1>5, <1>6, Published
<1>9. Changed
  <2>1. RowsStay
    BY <1>5, <1>6 DEF RowsStay
  <2>2. Len(jobs') <= MaxJobs
    BY <1>4, <1>5 DEF n, UploadInv, UploadAssumption
  <2> QED BY <1>5, <1>8, <2>1, <2>2, LeaseNat DEF Changed
<1>10. PICK g : g = [h EXCEPT !.at = "mark", !.job = n]
  OBVIOUS
<1>11. g \in Handler /\ g.at = "mark" /\ g.job = n /\ g.token = None
  BY <1>1, <1>6, <1>10 DEF Handler, Stages, Working
<1>12. Placed(g)'
  BY <1>6, <1>11 DEF Placed, Holding
<1>13. To(h, g)
  BY <1>10 DEF n
<1> QED BY <1>7, <1>9, <1>11, <1>12, <1>13, PlainInv

LEMMA WriteInv ==
  ASSUME UploadInv, NEW h \in handlers, Write(h)
  PROVE  UploadInv'
<1>1. h.at = "write" /\ h.at \notin Holding /\ UNCHANGED <<world, now, main, answered>>
  BY DEF Write, Keep, Holding
<1>2. CASE Ends(h) /\ UNCHANGED jobs
  BY <1>1, <1>2, EndsPlain, Published
<1>3. CASE h.job = None /\ CanCreate(h) /\ ~ (Ends(h) /\ UNCHANGED jobs)
  BY <1>1, <1>3, CreatedInv DEF Write
<1>4. CASE h.job # None /\ Run(h.job) /\ Goes(h, "continue")
  <2>1. h.job \in Rows
    BY <1>1, <1>4, Handled DEF Placed
  <2> QED BY <1>1, <1>4, <2>1, RunInv
<1> QED BY <1>2, <1>3, <1>4 DEF Write

LEMMA MarkInv ==
  ASSUME UploadInv, NEW h \in handlers, Mark(h)
  PROVE  UploadInv'
<1>1. h.at = "mark" /\ h.at \notin Holding /\ UNCHANGED <<world, now, main, answered>>
  BY DEF Mark, Keep, Holding
<1>2. CASE Ends(h) /\ UNCHANGED jobs
  BY <1>1, <1>2, EndsPlain, Published
<1>3. CASE Run(h.job) /\ Goes(h, "advance")
  <2>1. h.job \in Rows
    BY <1>1, Handled DEF Placed, Working
  <2> QED BY <1>1, <1>3, <2>1, RunInv
<1> QED BY <1>2, <1>3 DEF Mark

LEMMA ContinueInv ==
  ASSUME UploadInv, NEW h \in handlers, Continue(h)
  PROVE  UploadInv'
<1>1. h.at = "continue" /\ UNCHANGED <<world, now, main, jobs>>
  BY DEF Continue, Keep
<1>2. h.job \in Rows
  BY <1>1, Handled DEF Placed, Working
<1>3. CASE jobs[h.job].status = "succeeded" /\ Answers(h, h.job)
  BY <1>1, <1>2, <1>3, AnswersInv
<1>4. CASE Goes(h, "advance") /\ UNCHANGED answered
  <2>1. h.token = None /\ "advance" \in Stages \ Holding
    BY <1>1, NoToken DEF Holding, Stages, Working
  <2>2. Changed /\ Rows' = Rows /\ \A k : Keeps(k)
    BY <1>1, <1>4, SameRows, Published
  <2> QED BY <1>2, <1>4, <2>1, <2>2, PlainGoes
<1> QED BY <1>3, <1>4 DEF Continue

LEMMA AdvanceInv ==
  ASSUME UploadInv, NEW h \in handlers, Advance(h)
  PROVE  UploadInv'
<1>1. h.at = "advance" /\ UNCHANGED <<world, now, main, answered>>
  BY DEF Advance, Keep
<1>2. h.job \in Rows /\ h.token = None
  BY <1>1, Handled, NoToken DEF Placed, Working, Holding
<1>3. CASE Goes(h, "acquire") /\ UNCHANGED jobs
  <2>1. "acquire" \in Stages \ Holding
    BY DEF Holding, Stages, Working
  <2>2. Changed /\ Rows' = Rows /\ \A k : Keeps(k)
    BY <1>1, <1>3, SameRows, Published
  <2> QED BY <1>2, <1>3, <2>1, <2>2, PlainGoes
<1>4. CASE Ends(h) /\ UNCHANGED jobs
  BY <1>1, <1>4, EndsPlain, Published
<1>5. CASE Ends(h) /\ jobs' = [jobs EXCEPT ![h.job].status = "failed", ![h.job].lease = 0]
  <2>1. "failed" \in Statuses /\ "failed" # "succeeded" /\ 0 \in Nat
    BY DEF Statuses
  <2>2. Changed /\ \A k : Keeps(k)
    BY <1>1, <1>2, <1>5, <2>1, StatusSet, Published
  <2> QED BY <1>5, <2>2, EndsInv
<1> QED BY <1>3, <1>4, <1>5 DEF Advance

-----------------------------------------------------------------------------
(* A step of a job: from its token to main.                                *)

LEMMA Image ==
  ASSUME NEW S, NEW f, f = [x \in S |-> f[x]], IsFiniteSet(S)
  PROVE  IsFiniteSet({f[x] : x \in S}) /\ Cardinality({f[x] : x \in S}) <= Cardinality(S)
<1>1. PICK T : T = {f[x] : x \in S}
  OBVIOUS
<1>2. f \in Surjection(S, T)
  BY <1>1 DEF Surjection
<1>3. IsFiniteSet(T) /\ Cardinality(T) <= Cardinality(S)
  BY <1>2, FS_Surjection
<1> QED BY <1>1, <1>3

\* There are more tokens than handlers and rows, so one is free.
LEMMA FreshIs ==
  ASSUME UploadInv
  PROVE  /\ Fresh \in Nat /\ Fresh # None
         /\ \A h \in handlers : h.token # Fresh
         /\ \A j \in Rows : jobs[j].token # Fresh
<1>1. PICK n : n = MaxJobs + world.calls + 1
  OBVIOUS
<1>2. /\ IsFiniteSet(handlers) /\ Cardinality(handlers) \in Nat /\ world.calls \in Nat
      /\ Cardinality(handlers) <= world.calls /\ MaxJobs \in Nat
  BY FS_CardinalityType DEF UploadInv, UploadAssumption, TypeOK, Few
<1>3. IsFiniteSet(Rows) /\ Cardinality(Rows) <= MaxJobs /\ Cardinality(Rows) \in Nat
  <2>1. Len(jobs) \in Nat /\ Rows = 1..Len(jobs) /\ Len(jobs) <= MaxJobs
    BY RowFacts DEF UploadInv, TypeOK
  <2>2. IsFiniteSet(1..Len(jobs)) /\ Cardinality(1..Len(jobs)) = IF 1 > Len(jobs) THEN 0 ELSE Len(jobs) - 1 + 1
    BY <2>1, FS_Interval
  <2> QED BY <1>2, <2>1, <2>2
<1>4. PICK f : f = [h \in handlers |-> h.token]
  OBVIOUS
<1>5. PICK A : A = {f[h] : h \in handlers}
  OBVIOUS
<1>6. IsFiniteSet(A) /\ Cardinality(A) <= Cardinality(handlers) /\ Cardinality(A) \in Nat
  <2>1. f = [h \in handlers |-> f[h]]
    BY <1>4
  <2> QED BY <1>2, <1>5, <2>1, Image, FS_CardinalityType
<1>7. PICK e : e = [j \in Rows |-> jobs[j].token]
  OBVIOUS
<1>8. PICK B : B = {e[j] : j \in Rows}
  OBVIOUS
<1>9. IsFiniteSet(B) /\ Cardinality(B) <= Cardinality(Rows) /\ Cardinality(B) \in Nat
  <2>1. e = [j \in Rows |-> e[j]]
    BY <1>7
  <2> QED BY <1>3, <1>8, <2>1, Image, FS_CardinalityType
<1>10. IsFiniteSet(A \cup B) /\ Cardinality(A \cup B) <= Cardinality(A) + Cardinality(B)
       /\ Cardinality(A \cup B) \in Nat
  <2>1. /\ IsFiniteSet(A \cup B)
        /\ Cardinality(A \cup B) = Cardinality(A) + Cardinality(B) - Cardinality(A \cap B)
    BY <1>6, <1>9, FS_Union
  <2>2. Cardinality(A \cap B) \in Nat
    BY <1>6, FS_Subset, FS_CardinalityType
  <2>3. Cardinality(A \cup B) \in Nat
    BY <2>1, FS_CardinalityType
  <2> QED BY <1>6, <1>9, <2>1, <2>2, <2>3
<1>11. n \in Nat /\ Cardinality(A \cup B) < n
  BY <1>1, <1>2, <1>3, <1>6, <1>9, <1>10
<1>12. \E t \in 1..n : t \notin A \cup B
  <2>1. SUFFICES ASSUME 1..n \subseteq A \cup B PROVE FALSE
    OBVIOUS
  <2>2. Cardinality(1..n) <= Cardinality(A \cup B)
    BY <1>10, <2>1, FS_Subset
  <2>3. Cardinality(1..n) = IF 1 > n THEN 0 ELSE n - 1 + 1
    BY <1>11, FS_Interval
  <2> QED BY <1>10, <1>11, <2>2, <2>3
<1>13. \E t \in 1..n : (\A h \in handlers : h.token # t) /\ \A j \in Rows : jobs[j].token # t
  <2>1. PICK t \in 1..n : t \notin A \cup B
    BY <1>12
  <2>2. \A h \in handlers : h.token # t
    BY <1>4, <1>5, <2>1
  <2>3. \A j \in Rows : jobs[j].token # t
    BY <1>7, <1>8, <2>1
  <2> QED BY <2>1, <2>2, <2>3
<1>14. /\ Fresh \in 1..n /\ \A h \in handlers : h.token # Fresh
       /\ \A j \in Rows : jobs[j].token # Fresh
  BY <1>1, <1>13 DEF Fresh
<1> QED BY <1>11, <1>14 DEF None

\* Whoever acquires a step knows the commit of its job as it is.
LEMMA AcquireInv ==
  ASSUME UploadInv, NEW h \in handlers, Acquire(h)
  PROVE  UploadInv'
<1>1. h.at = "acquire" /\ UNCHANGED <<world, now, main, answered>>
  BY DEF Acquire, Keep
<1>2. CASE Ends(h) /\ UNCHANGED jobs
  BY <1>1, <1>2, EndsPlain, Published
<1>3. CASE ~ (Ends(h) /\ UNCHANGED jobs)
  <2>1. PICK t : t = Fresh
    OBVIOUS
  <2>2. t \in Nat /\ t # None /\ (\A k \in handlers : k.token # t) /\ \A j \in Rows : jobs[j].token # t
    BY <2>1, FreshIs
  <2>3. PICK j : j = h.job
    OBVIOUS
  <2>4. j \in Rows /\ h \in Handler
    BY <1>1, <2>3, Handled DEF Placed, Working
  <2>5. jobs' = [jobs EXCEPT ![j].token = t, ![j].until = now + 1, ![j].lease = now + Lease]
    BY <1>3, <2>1, <2>3 DEF Acquire
  <2>6. PICK g : g = [h EXCEPT !.at = "prepare", !.token = t, !.parts = jobs[j].parts,
                               !.commit = jobs[j].commit]
    OBVIOUS
  <2>7. To(h, g)
    BY <1>3, <2>1, <2>3, <2>6 DEF Acquire
  <2>8. jobs[j].parts \in Nat /\ jobs[j].commit \in BOOLEAN /\ now + 1 \in Nat /\ now + Lease \in Nat
    BY <2>4, JobFields, LeaseNat DEF UploadInv
  <2>9. g \in Handler /\ g.at = "prepare" /\ g.token = t /\ g.job = j /\ g.commit = jobs[j].commit
    BY <2>2, <2>3, <2>4, <2>6, <2>8 DEF Handler, Stages, Working, Holding
  <2>10. jobs \in [Rows -> JobRow]
    BY RowFacts DEF UploadInv
  <2>11. jobs' \in [Rows -> JobRow]
    <3>1. PICK row \in JobRow : row = jobs[j]
      BY <2>4, <2>10
    <3>2. PICK new : new = [row EXCEPT !.token = t, !.until = now + 1, !.lease = now + Lease]
      OBVIOUS
    <3>3. new \in JobRow
      BY <2>2, <2>8, <3>2 DEF JobRow
    <3>4. jobs' = [jobs EXCEPT ![j] = new]
      BY <2>4, <2>5, <2>10, <3>1, <3>2
    <3> HIDE DEF JobRow
    <3> QED BY <2>4, <2>10, <3>3, <3>4
  <2>12. \A i \in Rows : /\ jobs'[i].commit = jobs[i].commit /\ jobs'[i].status = jobs[i].status
                         /\ jobs'[i].token = IF i = j THEN t ELSE jobs[i].token
    BY <2>4, <2>5, <2>10 DEF JobRow
  <2>13. Changed /\ Rows' = Rows
    BY <1>1, <2>11, <2>12, Published, RowsMoved
  <2>14. \A k \in handlers : Keeps(k)
    BY <2>2, <2>12, <2>13 DEF Keeps
  <2>15. Sound(g)'
    <3>1. Placed(g)'
      BY <2>2, <2>4, <2>9, <2>13 DEF Placed, Holding
    <3>2. OwnToken(g)'
      BY <2>2, <2>9, <2>12, <2>13 DEF OwnToken
    <3>3. UpToDate(g)' /\ Backed(g)'
      BY <2>4, <2>9, <2>12 DEF UpToDate, Backed
    <3> QED BY <3>1, <3>2, <3>3 DEF Sound
  <2> QED BY <2>2, <2>7, <2>9, <2>13, <2>14, <2>15, ToInv
<1> QED BY <1>2, <1>3

\* A handler whose step is guarded has its token and its place.
LEMMA HasToken ==
  ASSUME UploadInv, NEW h \in handlers, h.at \in Holding
  PROVE  h \in Handler /\ h.job \in Rows /\ h.token # None
  BY Handled DEF Placed, Working

LEMMA PrepareInv ==
  ASSUME UploadInv, NEW h \in handlers, Prepare(h)
  PROVE  UploadInv'
<1>1. h.at = "prepare" /\ h.at \in Holding /\ UNCHANGED <<world, now, main, jobs, answered>>
  BY DEF Prepare, Keep, Holding
<1>2. Changed /\ \A k : Keeps(k)
  BY <1>1, SameRows, Published
<1>3. {"observe", "fail"} \subseteq Holding \ {"prepare"}
  BY DEF Holding
<1>4. CASE Goes(h, "observe")
  BY <1>1, <1>2, <1>3, <1>4, HoldingGoes
<1>5. CASE Goes(h, "fail")
  BY <1>1, <1>2, <1>3, <1>5, HoldingGoes
<1> QED BY <1>4, <1>5 DEF Prepare

LEMMA ObserveInv ==
  ASSUME UploadInv, NEW h \in handlers, Observe(h)
  PROVE  UploadInv'
<1>1. h.at = "observe" /\ h.at \in Holding /\ UNCHANGED <<world, now, main, jobs, answered>>
  BY DEF Observe, Keep, Holding
<1>2. h \in Handler /\ h.job \in Rows /\ h.token # None
  BY <1>1, HasToken
<1>3. Changed /\ Rows' = Rows /\ \A k : Keeps(k)
  BY <1>1, SameRows, Published
<1>4. CASE Goes(h, "fail")
  <2>1. "fail" \in Holding \ {"prepare"}
    BY DEF Holding
  <2> QED BY <1>1, <1>3, <1>4, <2>1, HoldingGoes
<1>5. CASE Done(h) /\ Goes(h, "done")
  <2>1. "done" \in Holding \ {"prepare"}
    BY DEF Holding
  <2>2. h.job \in History
    BY <1>5, HistoryFacts DEF Done, UploadInv
  <2>3. jobs[h.job].commit
    BY <1>2, <2>2 DEF UploadInv, PublishedIsRecorded
  <2>4. jobs'[h.job].commit
    BY <1>1, <2>3
  <2> QED BY <1>1, <1>3, <1>5, <2>1, <2>2, <2>4, HoldingGoes
<1>6. CASE To(h, [h EXCEPT !.at = "checkpoint", !.parts = IF @ < world.parts THEN @ + 1 ELSE @])
  <2>1. PICK g : g = [h EXCEPT !.at = "checkpoint", !.parts = IF @ < world.parts THEN @ + 1 ELSE @]
    OBVIOUS
  <2>2. h.parts \in Nat /\ "checkpoint" \in Stages
    BY <1>2, HandlerFields DEF Stages, Working, Holding
  <2>3. g \in Handler /\ g.at = "checkpoint" /\ g.job = h.job /\ g.token = h.token
        /\ g.commit = h.commit
    <3>1. PICK p : p = IF h.parts < world.parts THEN h.parts + 1 ELSE h.parts
      OBVIOUS
    <3>2. g = [h EXCEPT !.at = "checkpoint", !.parts = p] /\ p \in Nat
      BY <2>1, <2>2, <3>1
    <3> QED BY <1>2, <2>2, <3>2 DEF Handler
  <2>4. Sound(g)'
    <3>1. Placed(g)'
      BY <1>2, <1>3, <2>3 DEF Placed, Holding
    <3>2. OwnToken(g)'
      BY <1>1, <1>3, <2>3, Handled DEF OwnToken
    <3>3. UpToDate(g)'
      BY <1>1, <2>3, Handled DEF UpToDate
    <3>4. Backed(g)'
      BY <2>3 DEF Backed
    <3> QED BY <3>1, <3>2, <3>3, <3>4 DEF Sound
  <2>5. To(h, g)
    BY <1>6, <2>1
  <2>6. g.token \in {None, h.token}
    BY <2>3
  <2> QED BY <1>3, <2>3, <2>4, <2>5, <2>6, ToInv
<1> QED BY <1>4, <1>5, <1>6 DEF Observe

\* Who still has the token writes what it has read, and what it did since.
LEMMA SavesChange ==
  ASSUME UploadInv, NEW h \in handlers, h.at \in {"checkpoint", "commit"}, Guard(h),
         NEW g \in Handler, g.job = h.job, h.commit => g.commit, Saves(g),
         UNCHANGED <<world, now, main, answered>>
  PROVE  /\ Changed /\ Rows' = Rows /\ jobs'[h.job].commit = g.commit
         /\ jobs'[h.job].token = h.token
         /\ \A i \in Rows : jobs'[i].token = jobs[i].token
         /\ \A k \in handlers \ {h} : Keeps(k)
<1>1. h.job \in Rows /\ h.token # None
  BY HasToken DEF Holding
<1>2. PICK j : j = h.job
  OBVIOUS
<1>3. jobs \in [Rows -> JobRow] /\ g.parts \in Nat /\ g.commit \in BOOLEAN /\ j \in Rows
  BY <1>1, <1>2, RowFacts, HandlerFields DEF UploadInv
<1>4. jobs' = [jobs EXCEPT ![j].parts = g.parts, ![j].commit = g.commit]
  BY <1>2 DEF Saves
<1>5. jobs' \in [Rows -> JobRow]
  BY <1>3, <1>4 DEF JobRow
<1>6. \A i \in Rows : /\ jobs'[i].token = jobs[i].token /\ jobs'[i].status = jobs[i].status
                      /\ jobs'[i].commit = IF i = j THEN g.commit ELSE jobs[i].commit
  BY <1>3, <1>4 DEF JobRow
<1>7. jobs[j].token = h.token /\ h.commit = jobs[j].commit
  BY <1>2, Handled DEF Guard, UpToDate
<1>8. Changed /\ Rows' = Rows
  BY <1>5, <1>6, <1>7, Published, RowsMoved
<1>9. ASSUME NEW k \in handlers \ {h} PROVE Keeps(k)
  <2>1. k.token # h.token \/ k.token = None
    BY DEF UploadInv, TokensDiffer
  <2> QED BY <1>6, <1>7, <1>8, <2>1 DEF Keeps
<1> QED BY <1>2, <1>3, <1>6, <1>7, <1>8, <1>9

LEMMA SavedInv ==
  ASSUME UploadInv, NEW h \in handlers, h.at \in {"checkpoint", "commit"}, Guard(h),
         NEW s \in {"release", "patch", "commit"}, NEW g \in Handler,
         g.at = s, g.job = h.job, g.token = h.token, h.commit => g.commit, s = "patch" => g.commit,
         Saves(g), To(h, g), UNCHANGED <<world, now, main, answered>>
  PROVE  UploadInv'
<1>1. /\ Changed /\ Rows' = Rows /\ jobs'[h.job].commit = g.commit
      /\ jobs'[h.job].token = h.token
      /\ \A i \in Rows : jobs'[i].token = jobs[i].token
      /\ \A k \in handlers \ {h} : Keeps(k)
  BY SavesChange
<1>2. h.job \in Rows /\ h.token # None
  BY HasToken DEF Holding
<1>3. Sound(g)'
  <2>1. Placed(g)'
    BY <1>1, <1>2 DEF Placed, Holding
  <2>2. OwnToken(g)'
    BY <1>1, Handled DEF OwnToken
  <2>3. UpToDate(g)' /\ Backed(g)'
    BY <1>1 DEF UpToDate, Backed
  <2> QED BY <2>1, <2>2, <2>3 DEF Sound
<1> QED BY <1>1, <1>3, ToInv

LEMMA CheckpointInv ==
  ASSUME UploadInv, NEW h \in handlers, Checkpoint(h)
  PROVE  UploadInv'
<1>1. h.at = "checkpoint" /\ h.at \in Holding /\ UNCHANGED <<world, now, main, answered>>
  BY DEF Checkpoint, Keep, Holding
<1>2. CASE Goes(h, "fail") /\ UNCHANGED jobs
  <2>1. Changed /\ Rows' = Rows /\ \A k : Keeps(k)
    BY <1>1, <1>2, SameRows, Published
  <2>2. "fail" \in Holding \ {"prepare"}
    BY DEF Holding
  <2> QED BY <1>1, <1>2, <2>1, <2>2, HoldingGoes
<1>3. CASE Guard(h) /\ Saves(h) /\ \E s \in {"release", "patch", "commit"} :
             Goes(h, s) /\ (s = "patch" => h.commit)
  <2>1. PICK s \in {"release", "patch", "commit"} : Goes(h, s) /\ (s = "patch" => h.commit)
    BY <1>3
  <2>2. PICK g : g = [h EXCEPT !.at = s]
    OBVIOUS
  <2>3. h \in Handler /\ s \in Stages
    BY Handled DEF Stages, Working, Holding
  <2>4. g \in Handler /\ g.at = s /\ g.job = h.job /\ g.token = h.token /\ g.commit = h.commit
        /\ g.parts = h.parts
    BY <2>2, <2>3 DEF Handler
  <2>5. Saves(g)
    BY <1>3, <2>4 DEF Saves
  <2>6. To(h, g)
    BY <2>1, <2>2 DEF Goes
  <2> QED BY <1>1, <1>3, <2>1, <2>4, <2>5, <2>6, SavedInv
<1> QED BY <1>2, <1>3 DEF Checkpoint

LEMMA RecordCommitInv ==
  ASSUME UploadInv, NEW h \in handlers, RecordCommit(h)
  PROVE  UploadInv'
<1>1. h.at = "commit" /\ h.at \in Holding /\ UNCHANGED <<world, now, main, answered>>
  BY DEF RecordCommit, Keep, Holding
<1>2. CASE Goes(h, "fail") /\ UNCHANGED jobs
  <2>1. Changed /\ Rows' = Rows /\ \A k : Keeps(k)
    BY <1>1, <1>2, SameRows, Published
  <2>2. "fail" \in Holding \ {"prepare"}
    BY DEF Holding
  <2> QED BY <1>1, <1>2, <2>1, <2>2, HoldingGoes
<1>3. PICK g : g = [h EXCEPT !.at = "patch", !.commit = TRUE]
  OBVIOUS
<1>4. CASE Guard(h) /\ Saves(g) /\ To(h, g)
  <2>1. h \in Handler
    BY Handled
  <2>2. g \in Handler /\ g.at = "patch" /\ g.job = h.job /\ g.token = h.token /\ g.commit
    BY <1>3, <2>1 DEF Handler, Stages, Working, Holding
  <2> QED BY <1>1, <1>4, <2>2, SavedInv
<1> QED BY <1>2, <1>3, <1>4 DEF RecordCommit

LEMMA PassInv ==
  ASSUME UploadInv, NEW h \in handlers, Pass(h)
  PROVE  UploadInv'
<1>1. h.at \in {"patch", "done"} /\ h.at \in Holding
      /\ UNCHANGED <<world, now, main, jobs, answered>>
  BY DEF Pass, Keep, Holding
<1>2. Changed /\ Rows' = Rows /\ \A k : Keeps(k)
  BY <1>1, SameRows, Published
<1>3. {"push", "succeed", "fail"} \subseteq Holding \ {"prepare"}
  BY DEF Holding
<1>4. CASE Goes(h, "fail")
  BY <1>1, <1>2, <1>3, <1>4, HoldingGoes
<1>5. CASE h.at = "patch" /\ Goes(h, "push")
  <2>1. jobs'[h.job].commit
    BY <1>1, <1>5, Handled DEF Backed
  <2> QED BY <1>1, <1>2, <1>3, <1>5, <2>1, HoldingGoes
<1>6. CASE h.at = "done" /\ Goes(h, "succeed")
  <2>1. h.job \in History
    BY <1>6, Handled DEF Backed
  <2> QED BY <1>1, <1>2, <1>3, <1>6, <2>1, HoldingGoes
<1> QED BY <1>1, <1>4, <1>5, <1>6 DEF Pass

\* Who points main to a commit may have lost its token; the commit is recorded all the same.
LEMMA MainGrown ==
  ASSUME UploadInv, NEW c \in Rows \cup {Foreign}, c \in Rows => jobs[c].commit,
         main' = Append(main, c), UNCHANGED <<world, now, jobs, answered>>,
         handlers' \subseteq Handler, Few', TokensDiffer',
         NEW new, handlers' \subseteq handlers \cup new, \A g \in new : Sound(g)'
  PROVE  UploadInv'
<1>1. c \in Nat /\ Foreign \notin Rows
  BY RowFacts DEF UploadInv
<1>2. main' \in Seq(Nat) /\ main' # <<>> /\ History' = History \cup {c}
  BY <1>1, Grown DEF UploadInv
<1>3. TypeOK'
  <2> HIDE DEF JobRow
  <2> QED BY <1>2 DEF UploadInv, TypeOK
<1>4. Rows' = Rows /\ Foreign' = Foreign
  BY DEF Rows, Foreign
<1>5. Named'
  BY <1>2, <1>4 DEF UploadInv, Named
<1>6. PublishedIsRecorded'
  BY <1>1, <1>2, <1>4 DEF UploadInv, PublishedIsRecorded
<1>7. AnsweredIsPublished'
  BY <1>2, <1>4 DEF UploadInv, AnsweredIsPublished
<1>8. HandlersSound'
  <2>1. SUFFICES ASSUME NEW g \in handlers', g \notin new PROVE Sound(g)'
    BY DEF HandlersSound
  <2>2. g \in Handler /\ Sound(g)
    BY <2>1 DEF UploadInv, HandlersSound
  <2>3. RowsStay /\ Keeps(g) /\ History \subseteq History'
    BY <1>2, <1>4 DEF RowsStay, Keeps
  <2> QED BY <2>2, <2>3, SoundStays
<1>9. UploadAssumption'
  BY DEF UploadInv, UploadAssumption
<1> QED BY <1>3, <1>5, <1>6, <1>7, <1>8, <1>9 DEF UploadInv

LEMMA PatchInv ==
  ASSUME UploadInv, NEW h \in handlers, Patch(h)
  PROVE  UploadInv'
<1>1. h.at = "push" /\ h.at \in Holding /\ UNCHANGED <<world, now, jobs, answered>>
  BY DEF Patch, Holding
<1>2. h \in Handler /\ h.job \in Rows /\ h.token # None /\ jobs[h.job].commit
  BY <1>1, HasToken, Handled DEF Backed
<1>3. {"succeed", "fail"} \subseteq Holding \ {"prepare"}
  BY DEF Holding
<1>4. CASE UNCHANGED main /\ Goes(h, IF Tip = h.job THEN "succeed" ELSE "fail")
  <2>1. Changed /\ Rows' = Rows /\ \A k : Keeps(k)
    BY <1>1, <1>4, SameRows, Published
  <2>2. CASE Goes(h, "fail")
    BY <1>1, <1>3, <2>1, <2>2, HoldingGoes
  <2>3. CASE Tip = h.job /\ Goes(h, "succeed")
    <3>1. h.job \in History
      BY <2>3, HistoryFacts DEF UploadInv
    <3> QED BY <1>1, <1>3, <2>1, <2>3, <3>1, HoldingGoes
  <2> QED BY <1>4, <2>2, <2>3
<1>5. ASSUME NEW s \in {"succeed", "fail"}, main' = Append(main, h.job), Goes(h, s)
      PROVE  UploadInv'
  <2>1. PICK g : g = [h EXCEPT !.at = s]
    OBVIOUS
  <2>2. g \in Handler /\ g.at = s /\ g.job = h.job /\ g.token = h.token
    BY <1>2, <1>3, <2>1, Moving DEF Stages, Working
  <2>3. To(h, g)
    BY <1>5, <2>1 DEF Goes
  <2>4. handlers' \subseteq Handler /\ Few' /\ TokensDiffer'
    BY <1>1, <2>2, <2>3, ToFits
  <2>5. Rows' = Rows /\ h.job \in History'
    <3>1. History' = History \cup {h.job}
      BY <1>2, <1>5, RowFacts, Grown DEF UploadInv
    <3> QED BY <1>1, <3>1 DEF Rows
  <2>6. Sound(g)'
    <3>1. Placed(g)'
      BY <1>2, <2>2, <2>5 DEF Placed, Holding
    <3>2. OwnToken(g)'
      BY <1>1, <2>2, <2>5, Handled DEF OwnToken
    <3>3. UpToDate(g)' /\ Backed(g)'
      BY <2>2, <2>5 DEF UpToDate, Backed
    <3> QED BY <3>1, <3>2, <3>3 DEF Sound
  <2>7. PICK new : new = {g}
    OBVIOUS
  <2>8. handlers' \subseteq handlers \cup new /\ \A x \in new : Sound(x)'
    BY <2>3, <2>6, <2>7 DEF To
  <2> QED BY <1>1, <1>2, <1>5, <2>4, <2>8, MainGrown
<1> QED BY <1>4, <1>5 DEF Patch

LEMMA SucceedInv ==
  ASSUME UploadInv, NEW h \in handlers, Succeed(h)
  PROVE  UploadInv'
<1>1. h.at = "succeed" /\ h.at \in Holding /\ Goes(h, "release") /\ UNCHANGED <<world, now, main>>
      /\ answered' = answered \cup {h.job}
  BY DEF Succeed, Keep, Holding
<1>2. h.job \in Rows /\ h.job \in History
  BY <1>1, HasToken, Handled DEF Backed
<1>3. answered' \subseteq History
  BY <1>1, <1>2, Published
<1>4. Changed /\ Rows' = Rows /\ \A k : Keeps(k)
  <2>1. CASE jobs' = jobs
    BY <1>1, <1>3, <2>1, SameRows
  <2>2. CASE jobs' = [jobs EXCEPT ![h.job].status = "succeeded", ![h.job].lease = 0]
    <3>1. "succeeded" \in Statuses /\ 0 \in Nat
      BY DEF Statuses
    <3> QED BY <1>1, <1>2, <1>3, <2>2, <3>1, StatusSet
  <2> QED BY <2>1, <2>2 DEF Succeed
<1>5. "release" \in Holding \ {"prepare"}
  BY DEF Holding
<1> QED BY <1>1, <1>4, <1>5, HoldingGoes

LEMMA FailStepInv ==
  ASSUME UploadInv, NEW h \in handlers, FailStep(h)
  PROVE  UploadInv'
<1>1. h.at = "fail" /\ h.at \in Holding /\ Goes(h, "release")
      /\ UNCHANGED <<world, now, main, answered>>
  BY DEF FailStep, Keep, Holding
<1>2. h.job \in Rows
  BY <1>1, HasToken
<1>3. Changed /\ Rows' = Rows /\ \A k : Keeps(k)
  <2>1. CASE jobs' = jobs
    BY <1>1, <2>1, SameRows, Published
  <2>2. CASE jobs' = [jobs EXCEPT ![h.job].status = "failed", ![h.job].lease = 0]
    <3>1. "failed" \in Statuses /\ "failed" # "succeeded" /\ 0 \in Nat
      BY DEF Statuses
    <3> QED BY <1>1, <1>2, <2>2, <3>1, StatusSet, Published
  <2> QED BY <2>1, <2>2 DEF FailStep
<1>4. "release" \in Holding \ {"prepare"}
  BY DEF Holding
<1> QED BY <1>1, <1>3, <1>4, HoldingGoes

LEMMA ReleaseStepInv ==
  ASSUME UploadInv, NEW h \in handlers, ReleaseStep(h)
  PROVE  UploadInv'
<1>1. h.at = "release" /\ Ends(h) /\ UNCHANGED <<world, now, main, answered>>
  BY DEF ReleaseStep, Keep
<1>2. CASE UNCHANGED jobs
  BY <1>1, <1>2, EndsPlain, Published
<1>3. PICK j : j = h.job
  OBVIOUS
<1>4. CASE jobs' = [jobs EXCEPT ![j].token = None, ![j].until = 0]
  <2>1. j \in Rows /\ jobs \in [Rows -> JobRow]
    BY <1>1, <1>3, HasToken, RowFacts DEF Holding, UploadInv
  <2>2. jobs' \in [Rows -> JobRow]
    BY <1>4, <2>1 DEF JobRow, None
  <2>3. \A i \in Rows : /\ jobs'[i].commit = jobs[i].commit /\ jobs'[i].status = jobs[i].status
                        /\ jobs'[i].token = IF i = j THEN None ELSE jobs[i].token
    BY <1>4, <2>1 DEF JobRow
  <2>4. Changed /\ Rows' = Rows
    BY <1>1, <2>2, <2>3, Published, RowsMoved
  <2>5. \A k : Keeps(k)
    BY <2>3, <2>4 DEF Keeps
  <2> QED BY <1>1, <2>4, <2>5, EndsInv
<1> QED BY <1>2, <1>3, <1>4 DEF ReleaseStep

-----------------------------------------------------------------------------
(* Everything else.                                                        *)

LEMMA RecordVerificationInv ==
  ASSUME UploadInv, NEW h \in handlers, RecordVerification(h)
  PROVE  UploadInv'
<1>1. h.at = "record" /\ Ends(h) /\ UNCHANGED <<world, now, main, answered>>
  BY DEF RecordVerification, Keep
<1>2. CASE UNCHANGED jobs
  BY <1>1, <1>2, EndsPlain, Published
<1>3. CASE jobs' = [jobs EXCEPT ![h.job].evidence = h.key]
  <2>1. PICK j : j = h.job
    OBVIOUS
  <2>2. PICK k : k = h.key
    OBVIOUS
  <2>3. j \in Rows /\ jobs \in [Rows -> JobRow] /\ k \in Keys
    BY <1>1, <2>1, <2>2, Handled, HandlerFields, RowFacts DEF Placed, Working, UploadInv
  <2>4. jobs' = [jobs EXCEPT ![j].evidence = k]
    BY <1>3, <2>1, <2>2
  <2>5. jobs' \in [Rows -> JobRow]
    <3> HIDE DEF Keys
    <3> QED BY <2>3, <2>4 DEF JobRow
  <2>6. \A i \in Rows : /\ jobs'[i].token = jobs[i].token /\ jobs'[i].commit = jobs[i].commit
                        /\ jobs'[i].status = jobs[i].status
    BY <2>3, <2>4 DEF JobRow
  <2>7. Changed /\ \A x : Keeps(x)
    BY <1>1, <2>5, <2>6, Published, RowChange
  <2> QED BY <1>1, <2>7, EndsInv
<1> QED BY <1>2, <1>3 DEF RecordVerification

LEMMA LoseInv ==
  ASSUME UploadInv, NEW h \in handlers, Lose(h)
  PROVE  UploadInv'
  BY EndsPlain, Published DEF Lose, Keep

LEMMA CheckInv ==
  ASSUME UploadInv, NEW h \in handlers, NEW built \in BOOLEAN, Check(h, built)
  PROVE  UploadInv'
  BY EndsPlain, Published DEF Check

\* The rows and the handlers stay as they are.
LEMMA AroundInv ==
  ASSUME UploadInv, UNCHANGED <<world, main, jobs, handlers>>, now' \in Nat,
         answered' \subseteq History
  PROVE  UploadInv'
<1>1. Changed /\ \A x : Keeps(x)
  <2>1. \A x : Keeps(x)
    BY DEF Keeps, Rows
  <2>2. Changed
    <3> HIDE DEF JobRow
    <3> QED BY DEF UploadInv, TypeOK, Changed, RowsStay, AnsweredIsPublished, Rows
  <2> QED BY <2>1, <2>2
<1>2. handlers' \subseteq Handler /\ Few' /\ TokensDiffer'
  BY DEF UploadInv, TypeOK, Few, TokensDiffer
<1>3. PICK new : new = {}
  OBVIOUS
<1>4. /\ handlers' \subseteq handlers \cup new
      /\ \A g \in handlers' \ new : Keeps(g)
      /\ \A g \in new : Sound(g)'
  BY <1>1, <1>3
<1> QED BY <1>1, <1>2, <1>4, Built

\* Who accepts a publication looks at a row whose job succeeded.
LEMMA AcceptInv ==
  ASSUME UploadInv, NEW j \in Rows, Accept(j)
  PROVE  UploadInv'
<1>1. UNCHANGED <<world, now, main, jobs, handlers>> /\ answered' \subseteq History
  BY Published DEF Accept, Keep
<1> QED BY <1>1, LeaseNat, AroundInv

LEMMA TickInv == ASSUME UploadInv, Tick PROVE UploadInv'
<1>1. now' \in Nat
  BY LeaseNat DEF Tick
<1> QED BY <1>1, AroundInv, Published DEF Tick, Around

LEMMA DraftInv == ASSUME UploadInv, Save \/ Archive PROVE UploadInv'
  BY LeaseNat, AroundInv, Published DEF Save, Archive, Around

LEMMA PushInv == ASSUME UploadInv, Push PROVE UploadInv'
<1>1. main' = Append(main, Foreign) /\ UNCHANGED <<world, now, jobs, handlers, answered>>
  BY DEF Push, Around
<1>2. Foreign \notin Rows
  BY RowFacts DEF UploadInv
<1>3. handlers' \subseteq Handler /\ Few' /\ TokensDiffer'
  BY <1>1 DEF UploadInv, TypeOK, Few, TokensDiffer
<1>4. PICK new : new = {}
  OBVIOUS
<1>5. handlers' \subseteq handlers \cup new /\ \A g \in new : Sound(g)'
  BY <1>1, <1>4
<1>6. PICK c \in Rows \cup {Foreign} : c = Foreign
  OBVIOUS
<1> QED BY <1>1, <1>2, <1>3, <1>5, <1>6, MainGrown

-----------------------------------------------------------------------------
(* Every reachable state.                                                  *)

LEMMA UploadInit == ASSUME UploadAssumption, Init PROVE UploadInv
<1>1. Rows = {} /\ History = {0} /\ Len(jobs) = 0
  BY DEF Init, Rows, History
<1>2. TypeOK
  <2> HIDE DEF JobRow
  <2> QED BY <1>1 DEF Init, TypeOK, UploadAssumption
<1>3. Few
  <2>1. world.calls \in Nat /\ IsFiniteSet({}) /\ Cardinality({}) = 0
    BY FS_EmptySet DEF UploadAssumption, Init
  <2> QED BY <2>1 DEF Init, Few
<1>4. Named /\ TokensDiffer /\ HandlersSound
  BY <1>1 DEF Init, Named, TokensDiffer, HandlersSound
<1>5. PublishedIsRecorded /\ AnsweredIsPublished
  BY <1>1 DEF Init, PublishedIsRecorded, AnsweredIsPublished
<1> QED BY <1>2, <1>3, <1>4, <1>5 DEF UploadInv

LEMMA HandlerStep ==
  ASSUME UploadInv, NEW h \in handlers, Step(h)
  PROVE  UploadInv'
<1>1. CASE Lose(h) \/ Look(h) \/ Base(h) \/ Claim(h) \/ Recover(h) \/ Write(h) \/ Mark(h)
  BY <1>1, LoseInv, LookInv, BaseInv, ClaimInv, RecoverInv, WriteInv, MarkInv
<1>2. CASE Continue(h) \/ Advance(h) \/ Acquire(h) \/ Prepare(h) \/ Observe(h)
  BY <1>2, ContinueInv, AdvanceInv, AcquireInv, PrepareInv, ObserveInv
<1>5. CASE Checkpoint(h) \/ RecordCommit(h)
  BY <1>5, CheckpointInv, RecordCommitInv
<1>3. CASE RecordVerification(h) \/ Pass(h) \/ Patch(h) \/ Succeed(h) \/ FailStep(h) \/ ReleaseStep(h)
  BY <1>3, RecordVerificationInv, PassInv, PatchInv, SucceedInv, FailStepInv, ReleaseStepInv
<1>4. CASE \E built \in BOOLEAN : Check(h, built)
  BY <1>4, CheckInv
<1> QED BY <1>1, <1>2, <1>3, <1>4, <1>5 DEF Step

LEMMA UploadStep == ASSUME UploadInv, [Next]_vars PROVE UploadInv'
<1>1. ASSUME NEW k \in world.keys, NEW r \in 1..2,
             BeginCheck(k, r) \/ \E b \in History : BeginPublish(k, r, b)
      PROVE  UploadInv'
  <2>1. r \in Nat
    OBVIOUS
  <2> QED BY <1>1, <2>1, BeginCheckInv, BeginPublishInv
<1>2. ASSUME NEW j \in DOMAIN jobs,
             \/ BeginContinue(j) \/ Accept(j)
             \/ \E seen \in {"pending", "failed", "passed"} : BeginRefresh(j, seen)
      PROVE  UploadInv'
  BY <1>2, BeginContinueInv, AcceptInv, BeginRefreshInv DEF Rows
<1>3. CASE \E h \in handlers : Step(h)
  BY <1>3, HandlerStep
<1>4. CASE Tick \/ Save \/ Archive \/ Push
  BY <1>4, TickInv, DraftInv, PushInv
<1>5. CASE UNCHANGED vars
  BY <1>5, LeaseNat, AroundInv, Published DEF vars
<1> QED BY <1>1, <1>2, <1>3, <1>4, <1>5 DEF Next

LEMMA UploadAlways == ASSUME UploadAssumption PROVE Spec => []UploadInv
  BY UploadInit, UploadStep, PTL DEF Spec

\* A commit of the builder on Staging's main is named by the row of its job, whatever happened
\* to the requests that worked on it: advance, guardStep and the checkpoints of
\* publish/service.ts and jobs.ts, and advanceCommit of github/client.ts.
THEOREM MainIsRecorded == ASSUME UploadAssumption PROVE Spec => []PublishedIsRecorded
<1>1. UploadInv => PublishedIsRecorded
  BY DEF UploadInv
<1> QED BY <1>1, UploadAlways, PTL

\* Whoever was told that a publication to Staging succeeded, or accepted it, finds its commit
\* on main, and so does every row that says so: markSucceeded of jobs.ts and its callers.
THEOREM AnswersArePublished == ASSUME UploadAssumption PROVE Spec => []AnsweredIsPublished
<1>1. UploadInv => AnsweredIsPublished
  BY DEF UploadInv
<1> QED BY <1>1, UploadAlways, PTL
=============================================================================
