------------------------------ MODULE Publishing ------------------------------
(***************************************************************************)
(* What is published, seen from three sides: Production, the verification  *)
(* of one publication, and the builder's own uploads to Staging.  A        *)
(* behaviour is that of one of them, the others stand still.  The two that *)
(* are not extended are instances of their modules with their theorems.    *)
(***************************************************************************)
EXTENDS Production

CONSTANTS
  VerificationWorlds, MaxAttempts, MaxVerifiers, MaxPushes,  \* OutputVerification
  UploadWorlds, MaxUploads, MaxTime, Lease                   \* StagingUpload

VARIABLES part, asked, allowed, job, verifs, receipts, handlers, jobs, pushes, answers
verificationVars == <<asked, allowed, job, verifs, receipts, handlers, jobs, pushes, answers>>
O == INSTANCE VerificationProofs WITH
  MaxRuns <- MaxVerifiers, Worlds <- VerificationWorlds,
  world <- asked, calls <- handlers, runs <- jobs, main <- pushes
ASSUME VerificationBounded == O!VerificationAssumption

VARIABLES chosen, clock, head, preflights, rows, branch, requests, answered
uploadVars == <<chosen, clock, head, preflights, rows, branch, requests, answered>>
U == INSTANCE UploadProofs WITH
  MaxJobs <- MaxUploads, Worlds <- UploadWorlds,
  world <- chosen, now <- clock, draft <- head, jobs <- rows, main <- branch, handlers <- requests
ASSUME UploadBounded == U!UploadAssumption

\* The part that stands still does so in one of its worlds.
Moves(p, w, worlds) == part = p \/ w = CHOOSE v \in worlds : TRUE
PublishingInit ==
  /\ part \in {"production", "verification", "upload"} /\ Init /\ O!Init /\ U!Init
  /\ Moves("production", world, Worlds) /\ Moves("verification", asked, VerificationWorlds)
  /\ Moves("upload", chosen, UploadWorlds)
PublishingNext ==
  /\ UNCHANGED part
  /\ \/ part = "production" /\ Next /\ UNCHANGED <<verificationVars, uploadVars>>
     \/ part = "verification" /\ O!Next /\ UNCHANGED <<vars, uploadVars>>
     \/ part = "upload" /\ U!Next /\ UNCHANGED <<vars, verificationVars>>
PublishingSpec == PublishingInit /\ [][PublishingNext]_<<part, vars, verificationVars, uploadVars>>

\* OutputVerification: what was retired is stopped, a request has one answer, a publication is
\* completed once, and there is always a next step.
RetiredIsStopped == O!RetiredIsStopped
OneAnswer == O!OneAnswer
OneCompletion == O!OneCompletion
NextStepExists == O!NextStepExists

\* StagingUpload: whatever is on main is recorded, and an answer is true.
PublishedIsRecorded == U!PublishedIsRecorded
AnsweredIsPublished == U!AnsweredIsPublished
=============================================================================
