------------------------------ MODULE Library ------------------------------
(***************************************************************************)
(* The images of drafts: the Library of a draft (src/server/media/         *)
(* library.ts), the binaries that it owns (draft-assets.ts), the           *)
(* aggregates of its retained history (library-projection.ts), and the     *)
(* conversion that gave every draft its own copy of the images that all    *)
(* drafts once shared (src/server/maintenance/asset-migration.ts).         *)
(*                                                                         *)
(* A document is its catalogue, a set of pairs of an item and the path of  *)
(* its image, and the items that are placed on pages.  A path is an upload *)
(* of the shared storage or the number of a binary: each binary has a path *)
(* of its own.  Locks and request keys are those of DraftStore: a save     *)
(* succeeds when the revision it was made from is still the latest.        *)
(***************************************************************************)
EXTENDS Naturals, Sequences, SequencesExt, FiniteSets

CONSTANTS
  Drafts, Items,
  Uploads,     \* paths of images in the shared storage, each with bytes of its own
  Images,      \* bytes that people upload
  Recovery,    \* the draft that keeps uploads no revision names, one of Drafts
  MaxAssets,   \* bound: binaries ever stored
  Worlds       \* the drafts to begin with, the shared images, what people do, and two
               \* bounds: revisions of a draft, handlers that wait at a time

ASSUME LibraryAssumption ==
  /\ Recovery \in Drafts /\ MaxAssets \in Nat
  /\ IsFiniteSet(Uploads) /\ \A u \in Uploads : u \notin Nat
  /\ \A w \in Worlds :
       /\ w.shared \in SUBSET Uploads
       /\ w.revs \in [Drafts -> Seq([cat : SUBSET (Items \X w.shared), used : SUBSET Items, kept : BOOLEAN])]
       /\ \A d \in Drafts : LET h == w.revs[d] IN
            \* retention keeps the latest revision, and no two items of a draft began with one path
            /\ h # <<>> => h[Len(h)].kept
            /\ \A m, n \in DOMAIN h : \A e \in h[m].cat, f \in h[n].cat : e[2] = f[2] => e[1] = f[1]

VARIABLES
  world,      \* fixed
  revs,       \* tables drafts and revisions: each draft's documents, and which are retained
  assets,     \* table draft_asset_versions with its chunks
  bound,      \* table draft_asset_bindings: per draft, pairs of a path and a binary
  rows,       \* table draft_library_items
  held,       \* table draft_library_asset_versions
  index,      \* tables draft_library_projection, _history and _retained_paths
  shared,     \* tables media_assets and media_object_chunks
  migration,  \* tables draft_asset_migration, _verified and _recovered
  calls,      \* handlers that wait between two transactions
  discarded   \* history: bytes that a person deleted

vars == <<world, revs, assets, bound, rows, held, index, shared, migration, calls, discarded>>
ledger == <<shared, migration>>

None == 0
Does(what) == what \in world.does
ItemsOf(cat) == {e[1] : e \in cat}
PathsOf(cat) == {e[2] : e \in cat}
Revision(cat, used) == [cat |-> cat, used |-> used, kept |-> TRUE]
Exists(d) == revs[d] # <<>>
Latest(d) == Len(revs[d])
Doc(d) == revs[d][Latest(d)]
Retained(d) == {n \in DOMAIN revs[d] : revs[d][n].kept}
Live(a) == a \in DOMAIN assets /\ assets[a].live
BoundTo(d, p) == {a \in DOMAIN assets : <<p, a>> \in bound[d]}

Waits(c) == c \notin calls /\ Cardinality(calls) < world.calls /\ calls' = calls \cup {c}
Ends(c) == calls' = calls \ {c}
Goes(c, d) == calls' = (calls \ {c}) \cup {d}

-----------------------------------------------------------------------------
(* Binaries. *)

\* Binaries to store in a draft: their bytes, and the shared path each stands for.
Copy(p) == [bytes |-> p, for |-> p]
Upload(b) == [bytes |-> b, for |-> None]

\* prepareImage: each binary is bound to its own path, a copy to the shared one as well.
Store(d, batch, gone) ==
  LET n == Len(assets)
      all == assets \o [k \in 1..Len(batch) |-> [draft |-> d, bytes |-> batch[k].bytes, live |-> TRUE]] IN
  /\ n + Len(batch) =< MaxAssets
  /\ assets' = [a \in DOMAIN all |-> IF a \in gone THEN [all[a] EXCEPT !.live = FALSE] ELSE all[a]]
  /\ bound' = [bound EXCEPT ![d] =
       {e \in @ : e[2] \notin gone}
         \cup {<<n + k, n + k>> : k \in 1..Len(batch)}
         \cup {<<batch[k].for, n + k>> : k \in {j \in 1..Len(batch) : batch[j].for # None}}]
  /\ migration' = [migration EXCEPT !.verified = {v \in @ : v[3] \notin gone},
                                    !.recovered = {r \in @ : r[2] \notin gone}]

\* prepareSave: images without a binary are copied, if the document had them before.
Unbound(d, cat) == {p \in PathsOf(cat) : BoundTo(d, p) = {}}
Saveable(d, cat, fresh) ==
  \A p \in Unbound(d, cat) \ fresh : p \in shared /\ p \in PathsOf(Doc(d).cat)
Copies(d, cat, fresh) == [k \in 1..Cardinality(Unbound(d, cat) \ fresh) |->
  Copy(SetToSeq(Unbound(d, cat) \ fresh)[k])]

\* readForDraft gives an image that a retained revision names its binary.
Materialize(d, p) ==
  /\ \E n \in Retained(d) : p \in PathsOf(revs[d][n].cat)
  /\ BoundTo(d, p) = {} /\ p \in shared
  /\ Store(d, <<Copy(p)>>, {})
  /\ UNCHANGED <<world, revs, rows, held, index, shared, calls, discarded>>

-----------------------------------------------------------------------------
(* The history of a draft's Library: what its retained revisions name, up to *)
(* the revision that the aggregates cover.                                   *)

Covers(ix, previous) == ix.seq = previous
Include(ix, previous, seq, cat) ==
  IF Covers(ix, previous)
    THEN [ix EXCEPT !.seq = seq, !.items = @ \cup ItemsOf(cat), !.paths = @ \cup PathsOf(cat)]
    ELSE ix

\* retention deletes a revision, and a trigger starts the aggregates again.
Prune(d, n) ==
  /\ Does("prune") /\ migration.state = "complete" /\ shared = {}
  /\ n \in Retained(d) /\ n # Latest(d)
  /\ revs' = [revs EXCEPT ![d][n].kept = FALSE]
  /\ index' = [index EXCEPT ![d] = [seq |-> 0, gen |-> @.gen + 1, items |-> {}, paths |-> {}]]
  /\ UNCHANGED <<world, assets, bound, rows, held, ledger, calls, discarded>>

\* Maintenance reads some revisions, and adds them unless the aggregates have changed.
BeginBackfill(d) ==
  LET ahead == {n \in Retained(d) : n > index[d].seq} IN
  /\ ahead # {}
  /\ LET n == CHOOSE m \in ahead : \A k \in ahead : m =< k IN
     Waits([op |-> "backfill", draft |-> d, seq |-> index[d].seq, gen |-> index[d].gen, next |-> n])
  /\ UNCHANGED <<world, revs, assets, bound, rows, held, index, ledger, discarded>>

SameState(c) == index[c.draft].seq = c.seq /\ index[c.draft].gen = c.gen

EndBackfill(c) ==
  /\ c \in calls /\ c.op = "backfill"
  /\ index' = IF SameState(c)
       THEN [index EXCEPT ![c.draft] = Include(@, c.seq, c.next, revs[c.draft][c.next].cat)]
       ELSE index
  /\ Ends(c)
  /\ UNCHANGED <<world, revs, assets, bound, rows, held, ledger, discarded>>

-----------------------------------------------------------------------------
(* Saving a document, and what a save of the Library adds to it. *)

Write(d, cat, used, batch, gone) ==
  /\ Latest(d) < world.most
  /\ revs' = [revs EXCEPT ![d] = Append(@, Revision(cat, used))]
  /\ index' = [index EXCEPT ![d] = Include(@, Latest(d), Latest(d) + 1, cat)]
  /\ Store(d, batch, gone)

\* A person places images of the catalogue, or restores a retained revision.
EditorSave(d, cat, used) ==
  /\ Does("edit") /\ Exists(d)
  /\ \/ cat = Doc(d).cat /\ used \in SUBSET ItemsOf(cat)
     \/ \E n \in Retained(d) : cat = revs[d][n].cat /\ used = revs[d][n].used
  /\ <<cat, used>> # <<Doc(d).cat, Doc(d).used>>
  /\ Saveable(d, cat, {})
  /\ Write(d, cat, used, Copies(d, cat, {}), {})
  /\ UNCHANGED <<world, rows, held, shared, calls, discarded>>

\* A draft is copied: the images are read first, and stored with the new draft.
BeginCopy(d) ==
  /\ Does("copy") /\ Exists(d) /\ Unbound(d, Doc(d).cat) = {}
  /\ Waits([op |-> "copy", draft |-> d, cat |-> Doc(d).cat, used |-> Doc(d).used,
            bytes |-> [p \in PathsOf(Doc(d).cat) |-> {assets[a].bytes : a \in BoundTo(d, p)}]])
  /\ UNCHANGED <<world, revs, assets, bound, rows, held, index, ledger, discarded>>

EndCopy(c, d) ==
  LET order == SetToSeq(PathsOf(c.cat))
      place(p) == CHOOSE k \in DOMAIN order : order[k] = p
      cat == {<<e[1], Len(assets) + place(e[2])>> : e \in c.cat} IN
  /\ c \in calls /\ c.op = "copy" /\ ~ Exists(d) /\ d # Recovery
  /\ Store(d, [k \in DOMAIN order |-> Upload(CHOOSE b \in c.bytes[order[k]] : TRUE)], {})
  /\ revs' = [revs EXCEPT ![d] = <<Revision(cat, c.used)>>]
  /\ index' = [index EXCEPT ![d] = Include(@, 0, 1, cat)]
  /\ Ends(c)
  /\ UNCHANGED <<world, rows, held, shared, discarded>>

-----------------------------------------------------------------------------
(* A Library action: the Library is listed, then everything is saved at once.*)

Row(d, i) == {r \in rows[d] : r.item = i}
PathOf(d, i) ==
  IF i \in ItemsOf(Doc(d).cat) THEN (CHOOSE e \in Doc(d).cat : e[1] = i)[2]
  ELSE (CHOOSE r \in Row(d, i) : TRUE).path
Archived(d, i) == \E r \in Row(d, i) : r.archived
Listed(d) == (IF Exists(d) THEN ItemsOf(Doc(d).cat) ELSE {}) \cup {r.item : r \in rows[d]}
Linked(p) == p = None
\* the binaries that belong to an item
Versions(d, i) == {a \in DOMAIN assets : /\ ~ Linked(PathOf(d, i)) /\ Live(a) /\ assets[a].draft = d
                                         /\ <<PathOf(d, i), a>> \in bound[d] \/ <<i, a>> \in held[d]}

Command(action, i, b) == [action |-> action, item |-> i, bytes |-> b]
Actions(d) ==
  {Command("upload", None, b) : b \in Images} \cup {Command("link", None, None)}
  \cup [action : {"archive", "unarchive", "update", "delete"}, item : Listed(d), bytes : {None}]
  \cup [action : {"replace"}, item : Listed(d), bytes : Images]

\* requireCoverage, with the generation to compare
BeginCommand(d, m) ==
  /\ Exists(d) /\ Does(m.action) /\ Covers(index[d], Latest(d))
  /\ Waits([op |-> "command", draft |-> d, m |-> m, base |-> Latest(d), gen |-> index[d].gen,
            step |-> "read", items |-> {}, paths |-> {}, versions |-> {}])
  /\ UNCHANGED <<world, revs, assets, bound, rows, held, index, ledger, discarded>>

ReadHistory(c) ==
  /\ c \in calls /\ c.op = "command" /\ c.step = "read"
  /\ Goes(c, [c EXCEPT !.step = "recheck", !.items = index[c.draft].items, !.paths = index[c.draft].paths])
  /\ UNCHANGED <<world, revs, assets, bound, rows, held, index, ledger, discarded>>

\* (mutant) what was read of the history may come from another generation
CoveredAgain(c) == Covers(index[c.draft], c.base)
Unchanged(c) == Covers(index[c.draft], c.base) /\ index[c.draft].gen = c.gen

\* deleteBlockers: a retained revision names the item, or the path of one of its binaries.
Blocked(c) ==
  \/ c.m.item \in Doc(c.draft).used
  \/ c.m.item \in c.items
  \/ PathOf(c.draft, c.m.item) \in c.paths \ {None}
  \/ \E a \in c.paths : <<c.m.item, a>> \in held[c.draft]

\* An image that another item of the draft already shows is refused.  A linked image can be
\* replaced as well; a link to anything else is one that nobody replaces.
Duplicate(c) ==
  \E i \in Listed(c.draft) \ {c.m.item} :
    \E a \in BoundTo(c.draft, PathOf(c.draft, i)) : assets[a].bytes = c.m.bytes
Acceptable(c) ==
  CASE c.m.action = "upload" -> ~ Duplicate(c)
    [] c.m.action = "replace" -> ~ Archived(c.draft, c.m.item) /\ ~ Duplicate(c)
    [] c.m.action = "delete" -> Archived(c.draft, c.m.item) /\ ~ Blocked(c)
    [] OTHER -> TRUE

Recheck(c) ==
  /\ c \in calls /\ c.op = "command" /\ c.step = "recheck"
  /\ IF Latest(c.draft) = c.base /\ Unchanged(c) /\ Acceptable(c)
       THEN Goes(c, [c EXCEPT !.step = "write", !.versions =
                       IF c.m.action = "delete" THEN Versions(c.draft, c.m.item) ELSE {}])
       ELSE Ends(c)
  /\ UNCHANGED <<world, revs, assets, bound, rows, held, index, ledger, discarded>>

At(c, action) ==
  /\ c \in calls /\ c.op = "command" /\ c.step = "write" /\ c.m.action = action
  /\ Latest(c.draft) = c.base
SetRow(d, i, p, archived) ==
  rows' = [rows EXCEPT ![d] = (@ \ Row(d, i)) \cup {[item |-> i, path |-> p, archived |-> archived]}]
\* the save itself, with the images of the catalogue that are not there yet
Save(c, cat, batch, gone) ==
  LET fresh == {Len(assets) + k : k \in DOMAIN batch} IN
  /\ Saveable(c.draft, cat, fresh)
  /\ Write(c.draft, cat, Doc(c.draft).used, batch \o Copies(c.draft, cat, fresh), gone)
  /\ Ends(c)
Fresh(i) == \A d \in Drafts : i \notin Listed(d) /\ \A n \in DOMAIN revs[d] : i \notin ItemsOf(revs[d][n].cat)
Other(cat, i) == {e \in cat : e[1] # i}
New == Len(assets) + 1

SaveUpload(c, i) ==
  /\ At(c, "upload") /\ Fresh(i)
  /\ Save(c, Doc(c.draft).cat \cup {<<i, New>>}, <<Upload(c.m.bytes)>>, {})
  /\ SetRow(c.draft, i, New, FALSE)
  /\ held' = [held EXCEPT ![c.draft] = @ \cup {<<i, New>>}]
  /\ UNCHANGED <<world, shared, discarded>>

SaveLink(c, i) ==
  /\ At(c, "link") /\ Fresh(i)
  /\ Save(c, Doc(c.draft).cat, <<>>, {})
  /\ SetRow(c.draft, i, None, FALSE)
  /\ UNCHANGED <<world, held, shared, discarded>>

\* The binary that is replaced stays with the item.
SaveReplace(c) ==
  LET i == c.m.item  p == PathOf(c.draft, i) IN
  /\ At(c, "replace")
  /\ Save(c, Other(Doc(c.draft).cat, i) \cup {<<i, New>>}, <<Upload(c.m.bytes)>>, {})
  /\ SetRow(c.draft, i, New, FALSE)
  /\ held' = [held EXCEPT ![c.draft] = @ \cup {<<i, New>>} \cup {<<i, a>> : a \in BoundTo(c.draft, p)}]
  /\ UNCHANGED <<world, shared, discarded>>

SaveUpdate(c) ==
  LET i == c.m.item IN
  /\ At(c, "update")
  /\ Save(c, Doc(c.draft).cat, <<>>, {})
  /\ SetRow(c.draft, i, PathOf(c.draft, i), Archived(c.draft, i))
  /\ UNCHANGED <<world, held, shared, discarded>>

\* An archived item leaves the catalogue when nothing shows it.
SaveArchive(c) ==
  LET i == c.m.item  d == c.draft IN
  /\ At(c, "archive")
  /\ Save(c, IF i \in Doc(d).used THEN Doc(d).cat ELSE Other(Doc(d).cat, i), <<>>, {})
  /\ SetRow(d, i, PathOf(d, i), TRUE)
  /\ UNCHANGED <<world, held, shared, discarded>>

SaveUnarchive(c) ==
  LET i == c.m.item  d == c.draft IN
  /\ At(c, "unarchive")
  /\ Save(c, IF i \in ItemsOf(Doc(d).cat) \/ Linked(PathOf(d, i)) THEN Doc(d).cat
             ELSE Doc(d).cat \cup {<<i, PathOf(d, i)>>}, <<>>, {})
  /\ SetRow(d, i, PathOf(d, i), FALSE)
  /\ UNCHANGED <<world, held, shared, discarded>>

\* The binaries of the item go, if they are those of the deletion receipt.
SaveDelete(c) ==
  LET i == c.m.item  d == c.draft  gone == Versions(d, i) IN
  /\ At(c, "delete") /\ gone \subseteq c.versions
  /\ Save(c, Doc(d).cat, <<>>, gone)
  /\ rows' = [rows EXCEPT ![d] = @ \ Row(d, i)]
  /\ held' = [held EXCEPT ![d] = {e \in @ : e[2] \notin gone}]
  /\ discarded' = discarded \cup {assets[a].bytes : a \in gone}
  /\ UNCHANGED <<world, shared>>

\* The request dies, or its save finds another revision.
Abandon(c) ==
  /\ c \in calls
  /\ Does("lose") \/ (c.op = "command" /\ c.step = "write" /\ Latest(c.draft) # c.base)
  /\ Ends(c)
  /\ UNCHANGED <<world, revs, assets, bound, rows, held, index, ledger, discarded>>

-----------------------------------------------------------------------------
(* The conversion of the shared storage, one step at a time. *)

Verified(d, p) == \E a \in BoundTo(d, p) : <<d, p, a>> \in migration.verified
\* missingSource: a retained revision names an image without a verified binary.
Missing ==
  (UNION {{<<d, p>> : p \in UNION {PathsOf(revs[d][n].cat) : n \in Retained(d)}} : d \in Drafts})
    \ {e \in Drafts \X (Uploads \cup DOMAIN assets) : Verified(e[1], e[2])}

\* The copy of an image is compared with its source.
Verify(d, p) ==
  /\ migration.state = "pending" /\ <<d, p>> \in Missing
  /\ \E a \in BoundTo(d, p) :
       /\ p \in Uploads => assets[a].bytes = p
       /\ migration' = [migration EXCEPT !.verified = @ \cup {<<d, p, a>>}]
  /\ UNCHANGED <<world, revs, assets, bound, rows, held, index, shared, calls, discarded>>

Recovered(u) == \E r \in migration.recovered : r[1] = u
Orphan(u) ==
  /\ u \in shared /\ ~ Recovered(u)
  /\ \A d \in Drafts : \A n \in Retained(d) : u \notin PathsOf(revs[d][n].cat)

\* An upload that no revision names is kept in a draft of its own.
BeginRecover(u) ==
  /\ migration.state = "pending" /\ Missing = {} /\ Orphan(u)
  /\ Waits([op |-> "recover", upload |-> u, base |-> Latest(Recovery),
            cat |-> IF Exists(Recovery) THEN Doc(Recovery).cat ELSE {}])
  /\ UNCHANGED <<world, revs, assets, bound, rows, held, index, ledger, discarded>>

EndRecover(c, i) ==
  /\ c \in calls /\ c.op = "recover" /\ Fresh(i)
  /\ IF Latest(Recovery) = c.base /\ ~ Recovered(c.upload) /\ c.base < world.most /\ New =< MaxAssets
       THEN /\ revs' = [revs EXCEPT ![Recovery] = Append(@, Revision(c.cat \cup {<<i, New>>}, {}))]
            /\ assets' = Append(assets, [draft |-> Recovery, bytes |-> c.upload, live |-> TRUE])
            /\ bound' = [bound EXCEPT ![Recovery] = @ \cup {<<New, New>>}]
            /\ migration' = [migration EXCEPT !.recovered = @ \cup {<<c.upload, New>>}]
       ELSE UNCHANGED <<revs, assets, bound, migration>>
  /\ Ends(c)
  /\ UNCHANGED <<world, rows, held, index, shared, discarded>>

\* (mutant) an upload that no revision names needs no copy
Unneeded(u) == Orphan(u) \/ \E v \in migration.verified : v[2] = u
Kept(u) ==
  \/ \E v \in migration.verified : v[2] = u /\ Live(v[3])
  \/ \E r \in migration.recovered : r[1] = u /\ Live(r[2])

\* The last look and the deletion of the shared storage are one transaction.
Finish ==
  /\ migration.state = "pending" /\ Missing = {} /\ \A u \in shared : Kept(u)
  /\ migration' = [migration EXCEPT !.state = "complete"]
  /\ shared' = {}
  /\ UNCHANGED <<world, revs, assets, bound, rows, held, index, calls, discarded>>

-----------------------------------------------------------------------------
Init ==
  /\ world \in Worlds
  /\ revs = [d \in Drafts |-> world.revs[d]]
  /\ assets = <<>> /\ bound = [d \in Drafts |-> {}]
  /\ rows = [d \in Drafts |-> {}] /\ held = [d \in Drafts |-> {}]
  /\ index = [d \in Drafts |-> [seq |-> 0, gen |-> 0, items |-> {}, paths |-> {}]]
  /\ shared = world.shared
  /\ migration = [state |-> IF shared = {} THEN "complete" ELSE "pending", verified |-> {}, recovered |-> {}]
  /\ calls = {} /\ discarded = {}

OfDraft(d) ==
  \/ \E p \in Uploads : Materialize(d, p)
  \/ \E p \in Uploads \cup DOMAIN assets : Verify(d, p)
  \/ \E n \in Retained(d) :
       \/ Prune(d, n)
       \/ \E used \in SUBSET Items : EditorSave(d, revs[d][n].cat, used)
  \/ BeginBackfill(d) \/ BeginCopy(d)
  \/ Exists(d) /\ \E m \in Actions(d) : BeginCommand(d, m)

OfCall(c) ==
  \/ EndBackfill(c) \/ ReadHistory(c) \/ Recheck(c) \/ Abandon(c)
  \/ SaveReplace(c) \/ SaveUpdate(c) \/ SaveArchive(c) \/ SaveUnarchive(c) \/ SaveDelete(c)
  \/ \E i \in Items : SaveUpload(c, i) \/ SaveLink(c, i) \/ EndRecover(c, i)
  \/ \E d \in Drafts : EndCopy(c, d)

Next ==
  \/ \E d \in Drafts : OfDraft(d)
  \/ \E c \in calls : OfCall(c)
  \/ \E u \in Uploads : BeginRecover(u)
  \/ Finish

Spec == Init /\ [][Next]_vars

-----------------------------------------------------------------------------
(* Properties. *)

\* Every image of a retained revision has the bytes it was saved with, in a binary of its own
\* draft or, until the conversion is over, in the shared storage: whatever was replaced,
\* archived, deleted, pruned or copied, and in whatever order the index was rebuilt.
RetainedHasBytes ==
  \A d \in Drafts : \A n \in Retained(d) : \A p \in PathsOf(revs[d][n].cat) :
    \/ \E a \in BoundTo(d, p) : Live(a) /\ assets[a].draft = d /\ (p \in Uploads => assets[a].bytes = p)
    \/ p \in shared

\* The conversion loses no upload: it is shared, some draft has its bytes, or a person deleted it.
NothingLost ==
  \A u \in world.shared :
    \/ u \in shared \cup discarded
    \/ \E a \in DOMAIN assets : Live(a) /\ assets[a].bytes = u
=============================================================================
