---------------------------- MODULE MCDraftStore ----------------------------
(* Small instances of DraftStore: Alice works in two tabs, Bob in one. *)
EXTENDS DraftStoreRefinement, TLC

CONSTANTS Cases, alice, bob, alice1, alice2, bob1, k1, k2, k3, x, y, q1, q2

MCOwner == [c \in Clients |-> IF c = bob1 THEN bob ELSE alice]

\* a key belongs to one edit, whose document never changes ...
OneDocPerKey == [k \in Keys |-> IF k = k2 THEN {y} ELSE {x}]
\* ... or a client that reuses a key with another document
AnyDoc == [k \in Keys |-> Docs]

\* A run looks at two cases, each a part of the behaviours of DraftStore: the handlers that
\* serve a request, what they may be asked, and what else happens.
VARIABLE case

Begin(q) ==
  \/ case = "saves" /\ (SaveBegin(q) \/ AcquireBegin(q))
  \/ case = "checkouts" /\ (AcquireBegin(q) \/ ResumeBegin(q) \/ TouchBegin(q) \/ RenameBegin(q) \/ LabelBegin(q))
  \/ case = "lifecycle" /\ (\/ CreateBegin(q)
                            \/ q = q1 /\ (SaveBegin(q) \/ RestoreBegin(q) \/ AcquireBegin(q))
                            \/ q = q2 /\ (StatusBegin(q) \/ PurgeBegin(q)))
  \/ case = "retention" /\ (\/ q = q1 /\ (SaveBegin(q) \/ AcquireBegin(q))
                            \/ q = q2 /\ RetainBegin(q))
Asked(q) ==
  /\ case = "saves" => reqs'[q].client # bob1
  /\ case = "lifecycle" => /\ reqs'[q].key \in {k1, None}
                           /\ reqs'[q].stage = "acquireCommit" => checkouts[reqs'[q].draft] = Missing

Continue(q) ==
  \/ CreateReplay(q) \/ CreateCommit(q) \/ CreateAbort(q) \/ CreateRace(q) \/ RestoreSource(q)
  \/ SaveRead(q) \/ SaveAuthorize(q) \/ SaveReplay(q) \/ SavePayload(q) \/ SaveCommit(q)
  \/ SaveNoop(q) \/ SaveAbort(q) \/ SaveRace(q) \/ SaveRaceReplay(q) \/ AnswerCommitted(q)
  \/ LabelCommit(q) \/ RenameCommit(q) \/ StatusCommit(q) \/ PurgeCheck(q) \/ PurgeCommit(q)
  \/ RetainApply(q) \/ AcquireRow(q) \/ AcquireCommit(q) \/ ResumeCommit(q) \/ TouchCommit(q)
  \/ Abandon(q)

Around ==
  \/ case \in {"checkouts", "retention"} /\ Tick
  \/ case = "checkouts" /\ \/ \E c \in Clients, d \in Drafts : Release(c, d)
                           \/ \E a \in Actors : RoleChange(a)
  \/ case \in {"lifecycle", "retention"} /\ \E d \in Drafts : Publish(d)
  \/ case = "retention" /\ \E r \in RevIds : Retire(r)

\* A case that begins without a draft.
Empty == INSTANCE DraftStoreRefinement WITH Imported <- None

MCInit ==
  /\ case \in Cases
  /\ IF case = "lifecycle" THEN Empty!Init ELSE Init
  /\ case \in {"saves", "checkouts"} => revs[1].doc = x
MCNext ==
  /\ \/ \E q \in Requests : (Begin(q) /\ Asked(q)) \/ Continue(q)
     \/ Around
  /\ case = "lifecycle" => nextRev' <= 3 /\ (revs'[1] # Missing => revs'[1].doc = y)
  /\ case = "retention" => \A t \in Tokens : t > 1 => tokens'[t] = None
  /\ UNCHANGED case
MCSpec == MCInit /\ [][MCNext]_<<vars, case>>

AllOps == [q \in Requests |-> {"save", "acquire", "resume", "touch", "rename", "label",
                               "create", "restore", "status", "purge", "retain"}]

\* The two cases of which DraftStoreRefinement's ImplementsRegister is asked: what each step of
\* saves, retries and transfers does, and each step of creating, archiving and purging, is one
\* step of the registers of DraftRegister, or none.
SavesImplementRegister ==
  /\ case = "saves" => Register!Init
  /\ [][case = "saves" => [Register!Next]_(Register!vars)]_<<vars, case>>
LifecycleImplementsRegister ==
  /\ case = "lifecycle" => Empty!Register!Init
  /\ [][case = "lifecycle" => [Empty!Register!Next]_(Empty!Register!vars)]_<<vars, case>>

Symmetry == Permutations(Requests)
=============================================================================
