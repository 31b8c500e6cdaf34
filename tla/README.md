# Formal models of PointSite Builder

PointSite Builder lets the people of a parish edit a website in a browser. Each edit is saved
as an immutable revision of a draft; an accepted revision is published to Staging or to
Production by a GitHub workflow. This directory holds TLA+ models of the parts of it that are
concurrent or must survive failure, TLC configurations that check them on small instances, and
proofs that TLAPS checks for every instance. Paths are relative to the repository
(`src/...` in `PROJECT.json` is the repository's root).

    tlc -workers 2 -config DraftStore_editing.cfg MCDraftStore     # one run
    tlapm DraftStoreProofs.tla                                     # one module of proofs

`PROJECT.json` lists the components, runs, mutants, hazards, findings and theorems, and maps
each definition to the lines it models.

Contents: 1 Inventory, 2 Modules, 3 Runs, 4 Findings, 5 Proofs, 6 Not modelled, 7 Plan.

## 1. Inventory

The server is a Hono application over a SQL database. The same code runs on a Cloudflare
worker (D1) and on a native host (SQLite, `server/`). Its only atomic unit is a
`batch()` of statements; between two awaited statements any other request may run. It talks
to GitHub (workflow dispatch, runs, GraphQL commits, deployments) and to the published site.
The client is a React editor with an autosave queue and a crash journal in IndexedDB.

| component | state | operations | interacts with | what is hard |
|---|---|---|---|---|
| **Draft repository** `src/server/repositories/{d1,revision-payloads}.ts`, `maintenance/retention.ts` | drafts, revisions and their payloads, checkouts, receipts, labels, view states | create, save, restore, copy, rename, status, purge, label, acquire/resume/touch/release a checkout, plan and apply retention | the editor (HTTP), publication (pins revisions), roles | a handler reads, awaits and writes later; retries under one key; expiry; deletion under writers |
| **Autosave** `src/client/editor/{action-autosave,pending-journal}.ts`, `EditorProvider.tsx`, `EditorRoute.tsx` | queue, staged gesture, flight, timers, journal record and its owner | edit, gesture, flush, pump, retry, acknowledge, discard, load, leave | draft repository, IndexedDB, other tabs | lost answers, crashes, duplicated tabs, refused documents, storage that fails |
| **Publication lane** `src/server/publish/{jobs,dispatch,runner,build-proof,cancellation,recovery,retry,releases}.ts` | jobs, runs, retries, slots, releases | capture, dispatch, reserve, claim, build, commit, authorize, deploy, report, finalize, complete, cancel, reconcile, retry | GitHub, the live site, the scheduler | two systems that cannot be updated together; orphan runs; lost acknowledgements |
| **Verification** `src/server/publish/verification.ts` | attempts, receipts of requests | request, dispatch, report, complete, retire, reconcile | the lane's slot, GitHub | attempts that overlap, requests sent again |
| **Production** `src/server/approvals/service.ts`, `publish/{promotion,retry,rollback}*.ts` | decisions, promotions, rollbacks, one slot | decide, revoke, promote, retry, roll back, replace, finalize | Staging, roles, GitHub | two kinds of operation in one lane; an acceptance that is withdrawn on the way |
| **Staging upload** `src/server/publish/{service,jobs,preflights}.ts`, `github/client.ts` | preflights, jobs with lease and step token | check, publish, continue, commit, verify, accept | GitHub | the same request sent again, by handlers that died or were overtaken |
| **Workspace recovery** `src/server/maintenance/{recovery-control,deletion-receipts,workspace-recovery}.ts`, `server/restore.ts` | leases, quarantine, epoch; receipts in two databases | open, quarantine, prepare, confirm, replay, retire, restore | every write of the server | two databases, crashes between the steps, restores that undo |
| **Native host** `server/{backups,scheduler,index,identity}.ts` | backup directory, timers, identity | start, back up, prune, tick, command, shut down | recovery, publication | two processes over one directory; shutdown while a job runs |
| **Library** `src/server/media/*`, `maintenance/asset-migration.ts` | binaries, bindings, Library rows, aggregates of history, conversion ledger | upload, link, replace, archive, delete, index, prune, copy, convert | drafts, checkouts, retention | a deletion that trusts aggregates read earlier |
| **Publication panel** `src/client/publish/*` | what was read, what was sent, under which key | open, poll, refresh, publish, recover, accept, revoke | the lane | answers that come late, or not at all |
| Storage compaction `maintenance/storage-compaction.ts` | cursor | step | revisions | restart in the middle |
| Roles, sessions, feedback `admin/`, `auth/`, `feedback/` | roles, sessions, audit | set role, sign in | every guard | the last administrator |
| Site document and renderers `site-kit/` | none (pure) | validate, migrate, canonicalize, render | everything | none that interleaves |
| HTTP, hosts, adapters, migrations | wiring | routing, batch | everything | `batch` is atomic |

What makes each one correct:

- *Draft repository*: a draft is one register written by fenced writers; a key writes once; a
  success answer shows the write or something newer; nothing refers to what was deleted.
- *Autosave*: no accepted edit is lost silently or overwrites somebody's work; "saved" is true;
  the queue drains or says why it does not; a page never conflicts with itself.
- *Publication*: one publication at a time per lane; a cancelled one never gets out; the history
  of main and of releases is linear; what is recorded as published is what visitors see;
  a cancellation ends.
- *Verification*: a publication is completed once; what was retired can no longer report; a
  request has one answer; there is a next step until the attempts are used up.
- *Production*: one operation at a time, and only its run deploys; nothing is deployed whose
  acceptance was withdrawn before; the newest release is what visitors see.
- *Staging upload*: what is on main is recorded, and an answer of success is true.
- *Workspace recovery*: what was deleted stays deleted across a restore; a receipt tells the truth
  about its deletion; what publications hold does not move back.
- *Native host*: the backups that the policy keeps are there, each with the receipts of what it
  lacks.
- *Library*: no image of a retained revision loses its bytes; the conversion loses no upload.
- *Panel*: nobody publishes or decides what the panel did not show; it never goes back to
  something older; it always offers a way on.

`PROJECT.json` "hazards" lists each of these difficulties at the line where it bites, with the
property that covers it or the reason why none does.

## 2. Modules

| module | what it is |
|---|---|
| `DraftRegister` | abstract: what the repository promises to editors - a register per draft, written under numbered grants |
| `DraftStore` | the repository: its tables, and each request handler as a slot that goes statement by statement |
| `DraftStoreRefinement` | the mapping of `DraftStore` to `DraftRegister` |
| `MCDraftStore` | instances for TLC; `case` chooses among saves, checkouts, lifecycle, retention |
| `DraftStoreProofs` | proofs: types, receipts; then each promise, and the refinement |
| `Autosave`, `MCAutosave` | the editor's autosave with its journal, against a server that is one register |
| `AutosaveInvariants`, `AutosaveProofs` | its inductive invariants with the conditions under which they hold; their proofs |
| `Publication`, `MCPublication`, `PublicationProofs` | one publication lane with GitHub and the live site |
| `MCProgress` | what must happen eventually: `Autosave` and `Publication` under fairness |
| `Production`, `ProductionProofs` | acceptance, promotion and rollback: the composition of both lanes |
| `OutputVerification`, `VerificationProofs` | verification of one publication's output |
| `StagingUpload`, `UploadProofs` | publication to Staging by the builder itself (protocol 1) |
| `Publishing` | the three beside each other; `part` chooses. `ProductionProofs` states their theorems about it |
| `MCProduction` | instances of `Publishing` |
| `WorkspaceRecovery`, `RecoveryProofs` | the two databases under deletion, quarantine and restore |
| `AfterLoss` | `WorkspaceRecovery` beside `Autosave` when pages die; `part` chooses. `RecoveryProofs` is about it |
| `MCRecovery` | instances of `AfterLoss` |
| `Library` | images of drafts: binaries, Library, aggregates, conversion |
| `NativeHost` | the host process, an operator's command, the backup directory |
| `PublishPanel` | the Staging panel against a lane that proceeds by itself |
| `Workbench`, `WorkbenchProofs` | the three beside each other; `part` chooses. Proofs about all of them |
| `MCWorkbench` | instances of `Workbench` |

How they compose: the draft store, with all its handlers, is shown to implement a register, and
`Autosave` has such a register as its server. `Publication` looks inside one lane; in
`Production` each of its protocols is one step, so that promotions, rollbacks and decisions can be
followed together; `OutputVerification` looks inside the verification that both treat as one
step; the server of `PublishPanel` is a lane as far as a reader can tell. `Library` takes from
the draft store that a save succeeds when its base is still the latest revision.
`WorkspaceRecovery` and `NativeHost` meet in the backups: one takes them, the other restores them.

A module that holds several parts gives each behaviour to one of them (`part`); the others
stand still in one of their worlds, so the state space is the sum and not the product.

In every module a `world` fixes the surroundings of a behaviour - which events may occur, which
people take part, how many handlers wait at a time - so that one run checks several instances. A
handler that waits between two transactions is a record in `calls` (or a slot of `reqs`,
`handlers`, `net`) that holds what it has read; it may be overtaken by anything, and where the
world says so it may die (`Lose`, `Abandon`).

### DraftStore

`drafts`, `revs`, `labels`, `checkouts`, `views`, `receipts` are the tables; `editors` stands for
the role join every statement makes; `pins` for the revisions that publication tables name;
`reqs` for handlers in flight. A slot holds what the handler has read (`cur`, `seq`, `same`,
`base`, `at`, `plan`) and `stage`, the statement it awaits. Every action is one statement or one
batch: `SaveRead`, `SaveAuthorize`, `SaveReplay`, `SavePayload`, `SaveCommit`/`SaveNoop`/
`SaveAbort`, `SaveRace` and `SaveRaceReplay` are the awaits of `saveDraft` in their order;
`AnswerCommitted` is its second `getDraft`; `Abandon` is a process that dies between two awaits.
What a batch asserts in SQL (`WHERE latest_revision_id = ?`, token, role, status) is the guard of
the commit action, so that whether the read was still true is decided by the batch and not by the
model. `ledger` and `acks` are history variables.

Abstractions: a document is its checksum; a UUID is a counter; one clock serves every timestamp;
a receipt compares the inputs it is the hash of. A payload is either a checkpoint or a splice of a
`base`; `RetainedReadable` says that what is stored can be rebuilt. Audit events are written by
the same batches and not modelled; asset rows are in `Library`.

### Autosave

A page is a record with the fields of `ActionAutosave`; the functions from record to record
(`Schedule`, `SetWaiting`, `Pump`, ...) are its private methods in the order of their guards. A
document is the set of edits it contains, so "overwritten" is "not a superset". Requests and
answers are elements of `net`, served and heard at any later time, or lost on either way.
Abstractions: no save without an edit; a request that
was lost and repeated is one element of `net`; a server action is atomic except for the second
`getDraft`, which is `ReadBack`, and which another client may precede only where the world says
"late read" (that is finding 2).

### Publication

`jobs` joins the rows of `publish_jobs`, `publication_runs`, `publication_retries` and
`publication_verifications` of one job; `slot` is the row of `publication_slots`; `releases` the
table of that name. `gh`, `log`, `latest` and `site` are GitHub's runs, main, the latest
deployment record and the live site. One transaction is one action:
`CheckDispatch`/`PostDispatch`; `ReadMain`/`GuardCommit`/`WriteMain`/`RecordCommit`;
`BeginAuthorize`/`GrantDeployment`; `ListRuns`/`Settle`. The workflow's own
steps are `ReserveRun` .. `BeginFinalize`; a run may end after any of them.

Abstractions: reads in front of a batch are folded into it when what they read cannot change or is
asserted again by the batch; `allowed` folds "draft is active", "requester still has the role" and
"the acceptance is current"; `Proof(j)`, the check of main, deployment and live site, is one step;
a run has at most one request under way; the commit of a job is called by the job's number. Not
in the model: re-run attempts of one GitHub run, receipts of the publication API, retirement of
metadata.
### Production

`staging` is the Staging lane as a reader sees it (a status for each candidate and what is live);
`approvals` is the table, oldest first, and a decision binds a candidate to the Production commit
it was taken against; `ops` holds publications and rollbacks together (they are two tables, two
sets of handlers and two workflows, but one lane), `slot` and `releases` as in `Publication`.
`roles` and `archived` are what authorizes each step, read again by each transaction. The actions
are the two looks of a decision, capture of a promotion and of its retries, capture of a rollback
with the replacement of a publication that stopped, dispatch, claim, grant, report, completion and
the ends that cancellation and recovery bring. `granted` and `withdrawn` are history variables.

Abstractions: the throttle, lost answers and the commit protocol of a lane are one step each (they
are the subject of `Publication`); an operation's commit and deployed bytes are called by its number.

### OutputVerification

One publication whose run ended after its deployment was authorized. `verifs` is
`publication_verifications`, `receipts` is `publication_recovery_receipts` (a retry derives its
key from the request's, `Plain` and its counterpart); a handler that retires, resumes or
completes an attempt carries the row it found. `main` is a count of pushes and whether the
published files are intact, which is what `verifyDeploymentProof` asks. The dispatch backoff is a
flag (`ready`); a report's content is that it matches. `answers` is a history variable.

### StagingUpload

The older way to Staging, still used where no publication workflow is configured. A request
uploads a part of the files and ends, and is sent again until main points to the commit. A handler
goes through the awaits of `publish`, `claim` and `advance`: look, base, claim, recover, write,
mark, continue, advance, acquire, prepare, observe, checkpoint, commit, patch, push, succeed, release. A job
belongs to its lease, a step to a token; whoever wrote later is refused by the guard of each
statement (`Guard`), and GitHub's own guard is that main moves only forward. The files of an
upload are counted in parts; the commit is named by its job, since its author and date are fixed
and creating it again gives the same one.

### WorkspaceRecovery

`workspace` is the database that a restore puts back: drafts that are there, what publications
hold, proofs of deletions, replays done. `control` (epoch, mode, latest lease) and `receipts` are
the database that it does not. An invocation takes a lease that is never renewed and is asserted
by every transaction it makes; a deletion prepares a receipt in control, deletes and leaves a
proof in the workspace, and confirms in control; retirement selects receipts by age and then
removes them. The operator's process goes quarantine, drain, settle, restore, replay, reopen, and
may die and be started again between any two calls (`operator` is what it knows, `run` what is
stored). The two ways of restoring differ as in the code: a provider's bookmark puts the
workspace back in place and the replay follows, the host replays in a copy and then replaces the
file. Age is compared on one clock. A draft stands for its rows, `held` for publications at work.

### Library

A document is its catalogue (pairs of item and path) and the items placed on pages. `assets` are
binaries with their chunks, `bound` the bindings of a path to a binary in a draft, `rows` and
`held` the Library with the binaries an item has collected, `index` the aggregates of retained
history with `seq` and `gen` that tell whether they are up to date. A deletion reads the
aggregates, waits, and deletes in the save that it makes, where sequence and generation are
asserted again. `shared` and `migration` are the storage that all drafts once shared and the
ledger of its conversion, which works in steps beside everything else. `discarded` is a history
variable. Request keys and locks are those of `DraftStore` and not repeated.

### NativeHost

The host and an operator's commands are processes over one backup directory. `disk` goes
through the stages of a backup (pending, complete, removed), `made` remembers each that was ever
complete. The plan of what to keep is `retainedBackups` over what the listing saw
(`Retained`, by day and by week); a pin or another backup may come between listing and
removal. Start with its identity and administrator, ticks, failures, shutdown in the middle of a
backup and death are actions.

### PublishPanel

`panel` is the state of `StagingPublishingFlow` and of its status hook: the snapshot shown,
whether it is stale, the request under way with its key, the keys kept for sending again. `Phase`
and the offers are `deriveStagingWorkflow`. Reads and requests are sets: a read is answered with
what the server holds when it is served, or fails; a request may arrive after the panel has given it
up. The server is a lane whose publications proceed by themselves (`Proceed`) and whose
decisions others may take too. Only captured publications; wording and layout are left out.

## 3. Runs

All bounds are constants in the `.cfg` or fields of a world. Deadlock is not checked: every bound
(revisions, edits, jobs, runs) ends its behaviours, and the real system may well be idle.

| run | question | properties | states |
|---|---|---|---|
| `draft_editing` | two tabs of one person save, repeat saves, and take the checkout from each other; two people compete for it while it expires and roles change | `FencedHistory`, `AnswerCoversWrite`, `SavesImplementRegister`, `NoTheft` | 1.06 M |
| `draft_keeping` | create, save, restore race archive, purge, publish; retention deletes under saves, splices, receipts, publications | `AtMostOncePerKey`, `NothingDangles`, `LatestIsNewest`, `RetainedReadable`, `LifecycleImplementsRegister` | 1.20 M |
| `progress` | one page on a network that loses requests, answers and itself; a cancellation with active and duplicate runs | `SavedMeansSaved`, `QueueDrains`, `LaneIsFreed` (liveness) | 86 k |
| `recovery` | pages die, are duplicated, refused, left, or lose their journal; deletions, retirement and publications while an operator quarantines, restores and dies | `NothingOverwritten`, `Accounted`, `ConflictIsReal`, `DeletedStaysDeleted`, `ReceiptTruth`, `AuthorityKept` | 1.99 M |
| `publication_lane` | both lanes: lost handlers, withdrawn authority, verifications and foreign pushes (three worlds) | `CancelledStaysOut`, `FreedMeansStopped`, `LiveIsReviewed`, `ReleaseHistory`, `HistoryLinear` | 3.39 M |
| `production` | decisions, promotions, retries, rollbacks, cancellations, roles; requests to verify; the builder's own uploads | `OneOperation`, `OnlyOwnerDeploys`, `LiveIsReleased`, `WithdrawnStaysOut`, `RetiredIsStopped`, `OneAnswer`, `OneCompletion`, `NextStepExists`, `PublishedIsRecorded`, `AnsweredIsPublished` | 1.85 M |
| `workbench` | images under retention, indexing, conversion and people; backups beside a command, failures and a restore; the panel with late and lost answers | `RetainedHasBytes`, `NothingLost`, `LoopFollowsPolicy`, `PolicyHolds`, `CopiesAgree`, `NothingUnseen`, `NeverGoesBack` | 1.01 M |
| `autosave_validation`, `autosave_lateread`, `autosave_leaving`, `autosave_unpumped`, `panel_status` | the five disagreements below | one each | violated |

Every property of a passing run has a mutant in `PROJECT.json`: a plausible bug in the code's
place (a dropped `WHERE`, a count in place of an identity, a reset forgotten) under which TLC finds
it violated. The operators the mutants use are marked `(mutant)` in the modules.

### Why the bounds are enough

- *Draft store.* Two handlers give every pairwise race; a third would only add a reader. Two
  documents distinguish "the same content" from "another one". Three revisions are needed for
  retention to delete one that is neither the latest nor a base; two tokens for a fenced writer;
  a clock of 0..2 with a lifetime of 1 reaches "valid", "just expired" and "long expired". `case`
  says which handlers run against which, so that the races of interest fit. A key carries one
  document, as the editor's keys do.
- *Autosave.* Three edits give a head, something behind it, and something staged; two pages give a
  duplicate; three give a crash of a recovered page; the queue limit is 1 or 2 where it must be hit.
- *Publication.* Two jobs give a successor to a cancelled one and a retry of its parent; two runs
  give a duplicate dispatch; two concurrent handlers give each pairwise race (handlers that
  continue a cancellation come on top). `MaxDispatch` 1 in `publication_lane` reaches the limit;
  `progress` has 2 attempts.
  That the interesting cases occur was checked with negated reachability claims: two releases,
  a verified success, a retry whose parent had recorded a commit, success on a foreign base, and the
  commit of a cancelled job under way while another job holds the slot.
- *Production.* Two candidates give a decision that is stale; three operations give a rollback to
  something that is not the newest, or a publication after a rollback; each world holds those events
  whose races are of interest, with two handlers at a time where two looks race.
- *Verification* has the code's limit of three attempts, two runs (an attempt and its duplicate, or
  its successor) and one push. *Uploads*: two jobs (a successor), a clock of 2 with a step of 1 and
  a lease of 2, so that a step ends before its lease; two handlers.
- *Recovery.* Two drafts and two receipts give a receipt that is retired while another is pending;
  lease, window and retention of 1 make each boundary a state; three epochs are two recoveries.
- *Workbench.* One revision that names an image, one that does not and a third give every position
  of the aggregates; three binaries are an original, its replacement and a copy. A day of one tick and a week of two
  days, with one day and two weeks kept, and three backups within three weeks, make both limits of the policy bite: the
  backup of an earlier day is removed, and so is the newest of the third week back. Three times opening the
  panel give an answer to a panel that was closed and to one that was opened again.

### Fairness

`MCProgress` is the only specification with fairness, and each conjunct is owed by something:

- Autosave: callbacks, timers and IndexedDB transactions of an open page end (weak fairness per
  page), requests are answered or refused, and a lost connection returns. Losses and faults
  are bounded by the world. Nothing obliges a user or another client to act.
- Publication: a backoff passes (`Elapse`); GitHub ends every run (`timeout-minutes` of the
  workflows); the host's scheduler looks for cancellations each minute (`server/scheduler.ts`,
  weak fairness of `BeginContinue`); and GitHub does not leave every listing unanswered (strong
  fairness of `ListOf` and `SettleOf`: the answer may be lost any finite number of times).
  `BeginContinue` asks that the person who cancelled still has the role; `LaneIsFreed` therefore
  speaks of such a person.

## 4. Findings

Each is a run that TLC finds violated; all five are in the client or in what the client does with
an answer.

1. **A correction is saved, then overwritten by what waited behind it** (`autosave_validation`).
   After a 413 or 422, `complete()` puts the corrected document into the head of the queue; the
   entries behind it keep older documents and are saved after it. The page then says "All changes
   saved" over a server that holds another document.
2. **A late read becomes a base** (`autosave_lateread`). `saveDraft` answers a committed save with a
   second `getDraft`. If another client took the checkout and saved in between, the page takes that
   client's revision as the base of its next entry, and overwrites it after a recovery.
3. **Leaving with an edit pending** (`autosave_leaving`). `requestClose` tests `canLeave`, awaits
   twice, and closes whatever was edited meanwhile. The journal keeps such an edit only if
   IndexedDB works.
4. **An entry nobody sends** (`autosave_unpumped`). A gesture turns "offline" into "pending"; if
   IndexedDB is unavailable, nothing pumps the queue when the connection returns.
5. **A panel without a button** (`panel_status`). When the read of the status fails after the
   private check, the panel offers only "Publish to Staging", disabled while the status is
   unconfirmed, and does not poll; nothing helps but opening it again.

The same branch of `complete()` has a second consequence, met while preparing the proof of
`NothingOverwritten`. The corrected head loses its base as well (`action-autosave.ts:235`), and gets the
revision the page loaded. If the head was recovered from a journal of an older base, what another
client saved in between is no conflict any more, and the correction overwrites it, against FR-012 of
`spec.md`. The world is `RecoveredRefused` of `MCAutosave`: with `Worlds <- RecoveredRefused`,
`MaxPages = 2` and `INVARIANT NothingOverwritten` in `Autosave_validation.cfg`, TLC shows it in
17 states. In the worlds of `recovery`, documents are refused only where nobody else saves.

Met in the server and stated as hazards, most of them without a property because the code has no
operation that promises otherwise:

- A Staging run that dies after its deployment was authorized and before it deployed holds its
  lane (Production can be rolled back).
- A cancellation after a renewed dispatch that nobody reserved frees the slot at once, where
  `SKILL.md` describes a look at the runs first.
- A cancelled job may still move main with a commit already under way; the next job is refused with
  `BASE_CHANGED` and has to be captured again (`HistoryLinear` holds throughout).
- Two administrators who demote each other at the same time both pass the test for the last one.
- A bookmark from inside an earlier recovery, between its restoration and its last replay, holds
  drafts that were deleted. It is accepted as a later target, and if the receipts have been retired by
  then the drafts return. `docs/operator-handbook.html` says that deliberate deletion is reapplied before
  any supported restore reopens. At the real 35 and 90 days this takes three chained recoveries, or one
  left unfinished for weeks. It was found by the proof of `DeletionsLast` (section 5).
- The schema of a site does not forbid two media items with one `sourcePath`. After replacing,
  archiving and deleting one of them, the binary of the other would be removed
  with it, although `library.ts:410` says that unreferenced binaries belong to one item. It was found by the
  proof of `RetainedImagesStay`, and is an assumption of `Library`.
- `restoreWorkspace` pins its backup between a listing and a removal of another process.

The third finding has a consequence that takes two pages, found by the proof of `Accounted`. While a page
releases its checkout, a duplicate of it opens and takes the journal over; an edit made in the first page
meanwhile is accepted, its journal write is refused because the journal has another owner, and the page
closes: the edit is nowhere, and nobody was told. With a world of `{"duplicate", "leave"}`, two pages and two
edits, TLC shows `Accounted` violated in ten states. The worlds of `recovery` have duplicates or leaving,
not both; the theorems name the case as a hypothesis (`LeavesItsWork`).

## 5. Proofs

Each theorem holds for every value of the constants that its module's assumption allows: any number of
people, tabs, drafts, jobs, runs, handlers, any clock and any set of worlds. A run shows the same
property on a small instance, and every conjunct of the inductive invariants was checked by TLC before it
was proved.

| component | module | theorems | states the property |
|---|---|---|---|
| Draft repository | `DraftStoreProofs` | `TypeCorrect`; `LatestStaysNewest`; `AtMostOnce` | types; `LatestIsNewest`; `AtMostOncePerKey` |
| | | `NothingIsLeftDangling`; `WhatIsKeptCanBeRead`; `WritersAreFenced`; `NobodyIsRobbed`; `AnswersCoverWrites` | `NothingDangles`; `RetainedReadable`; `FencedHistory`; `NoTheft`; `AnswerCoversWrite` |
| | | `RegisterImplemented` | `Spec => ImplementsRegister`, the refinement |
| Autosave | `AutosaveProofs` | `SaveInvariant`; `WorkIsNotOverwritten`; `WorkIsNotOverwrittenUnlessRefused` | `NothingOverwritten` |
| | | `ShownInvariant`; `SavedIsOnTheServer`; `SavedIsOnTheServerUnlessRefused` | `SavedMeansSaved` |
| | | `KeptInvariant`; `EditsAreAccounted`; `EditsOfOnePageAreAccounted`; `EditsAreAccountedUnlessRefused` | `Accounted` |
| | `RecoveryProofs` | `NewerWorkSurvives`; `AcceptedEditsSurvive`; `AcceptedEditsOfOnePageSurvive` | `NothingOverwritten` and `Accounted`, of `AfterLoss` |
| Publication lane | `PublicationProofs` | `PublicationTyped`; `CancelledIsOut`; `FreedIsStopped`; `ReviewedIsLive`; `HistoryIsLinear`; `ReleasesAreHistory` | types; `CancelledStaysOut`; `FreedMeansStopped`; `LiveIsReviewed`; `HistoryLinear`; `ReleaseHistory` |
| Production | `ProductionProofs` | `ProductionTyped`; `OneAtATime`; `OwnerDeploys`; `ReleasedIsLive`; `SupersededStaysOut` | types; `OneOperation`; `OnlyOwnerDeploys`; `LiveIsReleased`; `WithdrawnStaysOut` |
| Verification | `VerificationProofs` | `AttemptsAreStopped`; `RequestsHaveOneAnswer`; `CompletedOnce`; `StepIsOffered` | `RetiredIsStopped`; `OneAnswer`; `OneCompletion`; `NextStepExists` |
| | `ProductionProofs` | `RetiredAttemptsAreStopped`; `RequestsGetOneAnswer`; `PublicationsCompleteOnce`; `AStepIsOffered` | the same, of `Publishing` |
| Staging upload | `UploadProofs` | `MainIsRecorded`; `AnswersArePublished` | `PublishedIsRecorded`; `AnsweredIsPublished` |
| | `ProductionProofs` | `UploadsAreRecorded`; `UploadAnswersAreTrue` | the same, of `Publishing` |
| Workspace recovery | `RecoveryProofs` | `ReceiptsTellTruth`; `AuthorityNeverMovesBack`; `DeletionsLast`; `NativeDeletionsLast` | `ReceiptTruth`; `AuthorityKept`; `DeletedStaysDeleted` |
| Library | `WorkbenchProofs` | `RetainedImagesStay`; `ConversionLosesNothing` | `RetainedHasBytes`; `NothingLost` |
| Native backups | `WorkbenchProofs` | `CopiesOfABackupAgree`; `PolicyIsKept` (given `LoopFollowsPolicy`) | `CopiesAgree`; `PolicyHolds` |
| Publication panel | `WorkbenchProofs` | `NothingUnseenFollows`; `ShownNeverGoesBack` | `NothingUnseen`; `NeverGoesBack` |

All of them have one shape: an inductive invariant of named conjuncts; a "...Kept" lemma that says which
variables a conjunct depends on; one lemma per action, with a step per conjunct that the action
can disturb; `Init`, `Step`, and the temporal step by PTL.

### The draft repository

Assumptions: `DraftStoreAssumption` (types of the constants) and `NoneIsNoValue` (NULL is no value).

- `Inv == TypeOK /\ SlotsFull /\ IdsUnused /\ LatestIsNewest`. `TypeOK` alone is not inductive: a
  commit builds a revision from what its slot holds, and a slot's fields may be `None`; `SlotsFull` says
  which fields are filled in at which stage. `LatestIsNewest` needs `IdsUnused` (ids not yet handed out
  have no revision), since an insert must not replace a revision; and typing needs `LatestIsNewest`, since a
  handler that reads the latest revision of an existing draft must find a row.
- *At most once* adds `Receipted`: every revision ever written for a key has a receipt. A receipt
  may change (a purge turns it into `Gone`, status 410) but never disappears; a commit that writes
  requires that the key has none. That is why a purge has to keep the key.
- `OwnedInv` (nothing dangles): revisions, checkouts, views and receipts belong to drafts that exist;
  what publications name is kept. `ReadInv` adds that a payload's base is a checkpoint that stays
  as long as it is spliced.
- `FenceInv`: revisions of a draft are in the order of their tokens, a checkout's token was issued and is not
  older than the last writer's. `ClockInv`: what a handler has read of the clock is past, so a live
  checkout that it judged expired has really been. `ShownInv`: an answer on its way shows the write or
  something newer.
- `RegInv` adds to the fences what a handler counted when it read the draft and which status its guard will ask
  for; with it the four statements that change what a reader sees are steps of `DraftRegister`, and all
  others stutter.

### Autosave

`AutosaveAssumption` gives types. "Nothing is overwritten" speaks of the document that a page sends: it contains
everything that the revision it replaces contained. No handler looks at both, so the invariant has to
carry the statement along the whole way of a document (`SaveInv`): every entry of a page's queue contains
the ones before it and the first one what its base holds; so do the journal's record, each write to it
that is under way, and the one request, which carries the head of the queue. That is true of a page whose
checkout is still valid or that owns the journal; what other pages hold may be old, and their
requests are refused.

Two hypotheses say what the code does not ensure. `PromptReads`: no world with "late read", in which a
page adopts a revision that it read before it lost the checkout (the second finding of section 4). And
`[]CorrectionsAreSafe`: a document is corrected only when nothing waits behind it and its base is the
loaded revision (the first finding); `WorkIsNotOverwrittenUnlessRefused` replaces this by "no document is
refused", which is what happens to a page of the same version as its server. Without either TLC finds a counterexample;
with both it found none in 7.5 M states of the worlds of `recovery` and `progress`.

What "All changes saved" means is a second invariant over the first (`ShownInv`): the document a page shows
is the last one that waits, or the one of its revision, or that of the gesture under way. An answer can
break this only where it names a revision that is not the page's own, which takes a page that has lost both the
checkout and the journal. `Alone` says that this is a duplicate; `Adrift` that the answer then finds the
page with a journal write to be refused, or refused, so that it cannot be left. Hence the third
hypothesis, `JournalOrOnePage`: no world has duplicated pages and a failing IndexedDB. With both, a page
goes on without its journal after its duplicate has taken the checkout; the duplicate saves between
the commit and the second `getDraft`, whose answer then names a revision that the page does not show, and it
says "All changes saved" (TLC: 16 states). Without that, TLC found `ShownInv` true
in 3.4 M states of seven worlds, among them duplicates with another client that saves, gestures
and Library changes, and pages that are refused.

That no accepted edit is lost silently (`Accounted`) is a statement about all pages and the one journal they
share, and far from inductive. `KeptInv` says for each page what it answers for (`Held`: the edits of its
queue, and of a gesture under way) and where that is. Relative to a `View` of the whole - which edits are
claimed, which are settled (in the latest revision, or dropped with a word), what the journal holds - every
page is `Safe`:

- while a journal write is under way, the newest write has all the claims the page holds; when the page says
  "ready" or "protected", the journal itself has them, so that a crash or a departure loses nothing;
- the shown document contains what waits, and the last entry of a queue contains the others, apart from
  what was dropped. When an entry is acknowledged or refused, or a queue is replaced by a newer snapshot,
  nothing but what is settled disappears;
- the page that owns the journal has in its queue whatever claims the journal holds, and whatever any *other*
  page takes for protected (`guarded`). Such a page will not warn its user again, and relies on the owner's
  next write to carry its edits; so they have to be in every write that may still land.

Beside it stand facts that hold across pages: an edit is made in one page (`Unique`), the latest revision
contains the others (`Grown`), an answered save is in it (`Answered`). The hypotheses are `PromptReads` and
`CorrectionsAreSafe`, as above, and `LeavesItsWork`: a page that leaves with work in its queue owns the journal
(section 4 says what happens otherwise). It is a condition on steps, and need not be asked where no page is
duplicated: then the page that leaves is the only one (`Alone`), and the theorem is
`EditsOfOnePageAreAccounted`. Where besides the server refuses nothing, no condition on the behaviour is
left (`EditsAreAccountedUnlessRefused`).

The proof found one mistake in the model, in a history variable: `accepted` counted the edit of a gesture that
had been taken back (`CancelGesture`) before it was completed. What `complete()` is given then does not
contain the edit, and the user does not miss it.

### One publication lane

`PublicationAssumption` gives types and at least one job and dispatch. None of the promises is
inductive; what makes them so (`PInv`): the lane has one holder; a job is granted only while it
holds the lane, and never cancelled after that; a run acts for the one job it is bound to; each
handler's finding (the commit it read, the listing it judged) is still true or is asserted again. The
history of main needs that a commit under way has main's tip as its base or is refused.

### Production

`ProductionAssumption`: there is somebody, worlds name people, bounds are numbers. The invariant adds:
the slot is a publication's, and is empty while a rollback is active; a run that was told to deploy is
the one its running operation is bound to and the last that was told; superseded acceptances
stay superseded; what each waiting handler found still holds, or its transaction asserts it.

### Verification

`VerificationAssumption`. The invariant ties the tables and the runs: a run past its start holds the attempt
it works for; a live attempt is the last one; a key names one attempt, and an answer the attempt of its
key; a handler that retires or completes carries the finding it started from. The run `production` checks
these formulas as they stand in `Publishing`, of which `OutputVerification` and `StagingUpload` are instances;
`ProductionProofs` carries the theorems over, because a behaviour of `Publishing` is one of each part.

### Staging upload

`UploadAssumption`: bounds are numbers. A handler of the upload writes what it read in an earlier
statement, and only a token stops it. `UploadInv` says why that is enough: a token belongs to one handler and to
one job, so whoever still has the token of its job has read that job's commit as it is (`UpToDate`);
and a recorded commit stays recorded (`RowsStay`), so a handler that lost its token between the last guard
and the PATCH still points main to a commit that its row names (`Backed`). A fresh token exists by
counting: there are more of them than handlers and rows (`FreshIs`). TLC checked the conjuncts in
the upload worlds of `production` (802 186 states) before the proof.

### Workspace recovery

`RecoveryAssumption`: bounds are numbers, and `Window <= Retention` (35 and 90 days: a receipt outlives the
copies that could bring back what it deleted). The invariant holds what nobody wrote down in one place: in a
drained quarantine no lease is left; a recovery has begun only in one, and then no receipt is pending; a receipt
that is pending although its deletion committed has its proof in the workspace; proofs are true; a copy is
covered by receipts that are not older than it.

`DeletionsLast` has a hypothesis, `[]CopiesAreWhole`: no bookmark that is restored later was taken between an
earlier restoration and the last replay after it. It is not a convenience. Without it the formula is false for two
copies (the hazard above); with one copy, as in the run, it holds of itself. On the host, where
the replay is done before the file is replaced, no hypothesis is needed (`NativeDeletionsLast`).

### Library

`LibraryAssumption` says which histories a draft may begin with: the latest revision is retained, catalogues
name shared uploads, and no two items of one draft began with one path (see section 4). A deletion trusts
aggregates read in an earlier transaction, and what justifies that is spread over the module
(`LibraryInv`): the aggregates cover the retained revisions up to their sequence (`IndexCovers`);
generation and sequence together fix their content, so the second look vouches for the first
(`CallsHold`); the save that deletes finds the revision that was latest, so no row and no catalogue has
moved; no two items of a draft ever named one path (`OneItem`), so the binaries that an item has
collected are nobody else's (`HeldByOwner`); a path is bound or shared (`BoundOrShared`), and the
ledger of the conversion is true (`LedgerTrue`, `BytesAccounted`).

### Native backups and the panel

`HostAssumption` and `PanelAssumption`: bounds are numbers, the clock starts below its bound, 0 is no draft. `HostInv` says that a backup that
is being taken is its process's own and where its two copies stand: the workspace's copy may lack a draft
only if the deletion was committed before, and then the copy of control, taken later, has the receipt.

`PolicyIsKept` needs no lock between two processes that list and prune. The invariant (`PolicyInv`) says that whatever
is in a list was complete once, that a process which prunes does not hold the foremost of all that were ever
complete in its plan, and that the foremost is on the disk. A list that lacks entries can only keep
more: what is the newest of its day, with few later days, among all is so among fewer
(`ForemostOfFewer`). Backups of one moment made it not inductive at first: only the one that a list has first
stays, and the property asks for any of them. That the loop computes the policy is the theorem's hypothesis,
and the property `LoopFollowsPolicy` of the run `workbench`.

`PanelInv`: what a snapshot or a request names is there, and main as it was shown is older than every
publication of the draft that was not shown (`Grounded`); with it, comparing main is enough to
keep a request from following a publication that nobody saw, for one that was not cancelled has
become main. An attempt to prove this found the model wrong in one place: a push after a deployment, and a
push after the next one, gave main the same value, so that a request could take the second for the first. A
push now makes a commit of its own (`Pushed`), as it does in Git. That the panel never goes back needs
only that the latest opening waits for at most one read (`ReadFits`).

### Left to TLC

- Liveness and everything about `ENABLED`: `QueueDrains`, `LaneIsFreed`.
- `Autosave`: `ConflictIsReal`, that autosave stops with a conflict only when somebody else changed the draft.
  Its invariant would have to follow the key of every entry through journals, reloads and duplicates, and say
  that a base which has moved on moved by a save of the same key; in every world of `recovery` TLC finds it true.
- `NativeHost`: `LoopFollowsPolicy`, that the loop over a sorted list keeps what the policy says, which is the
  one hypothesis of `PolicyIsKept`. TLC checks it for every list that the instance reads; induction over
  data is out of the provers' reach. No module that is proved about has a recursive operator: orders are
  quantified over positions of a sequence, and where a greatest element is needed it comes from the
  well-foundedness of the numbers (`Greatest` in `WorkbenchProofs`).

## 6. Not modelled

- Compaction of stored rows; retirement of publication metadata; audit retention.
- Rendering, schema validation and canonicalization of documents: pure functions over data that
  the modelled parts treat as opaque.
- Sign-in, sessions, signatures: calls to GitHub and cryptography; a role is a value of a table.
- HTTP, wiring, file handling, the migration runner, release scripts: I/O without a state of
  their own; each route is one action of the component it reaches.
- Presentation: the visual editor, Library and history dialogs, whose commands are requests of
  modelled components.

## 7. Plan

1. *Prove*: `ConflictIsReal` of `Autosave`, over `SaveInv` and `KeptInv`, by an invariant on the keys of entries.
2. *Extend*: compaction as a restartable conversion that keeps what a revision decodes to; the retirement
   of publication metadata; canonicalization and migration of a site document as functions checked
   against a reference definition.
