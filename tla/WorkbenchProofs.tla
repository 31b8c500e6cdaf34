--------------------------- MODULE WorkbenchProofs --------------------------
(***************************************************************************)
(* Proofs about Workbench, for every value of the constants.               *)
(*                                                                         *)
(* Library, for every number of drafts, images and uploads, in every       *)
(* world: no image that a retained revision names is ever without          *)
(* its bytes, and the conversion of the shared storage loses no upload.    *)
(*                                                                         *)
(* A deletion looks at aggregates that were read in an earlier             *)
(* transaction.  What makes that look good is spread over the whole module:*)
(* the aggregates cover the retained revisions up to their sequence; the   *)
(* generation and the sequence together fix what they hold, so the second  *)
(* look vouches for the first; the save that deletes finds the revision    *)
(* that was latest then, so no row and no catalogue has moved; and no two  *)
(* items of a draft have ever named one shared path, so the binaries that  *)
(* an item has collected are nobody else's.                                *)
(*                                                                         *)
(* NativeHost: the two copies of a backup agree, whoever else takes one.   *)
(*                                                                         *)
(* PublishPanel: no publication and no decision follows one that the       *)
(* person was not shown, and the panel never goes back to an older one.    *)
(* A request carries what its snapshot showed; a snapshot is behind what   *)
(* there is, and main as it showed it is older than every publication that *)
(* it did not show.  The latest opening waits for at most one read.        *)
(***************************************************************************)
EXTENDS Workbench, FiniteSetTheorems, WellFoundedInduction, NaturalsInduction, TLAPS


Paths == Uploads \cup (Nat \ {None})
Bytes == Uploads \cup Images
RevisionSet == [cat : SUBSET (Items \X Paths), used : SUBSET Items, kept : BOOLEAN]
AssetSet == [draft : Drafts, bytes : Bytes, live : BOOLEAN]
RowSet == [item : Items, path : Paths \cup {None}, archived : BOOLEAN]
IndexSet == [seq : Nat, gen : Nat, items : SUBSET Items, paths : SUBSET Paths]
LedgerSet ==
  [state : {"pending", "complete"}, verified : SUBSET (Drafts \X Paths \X Nat),
   recovered : SUBSET (Uploads \X Nat)]

OfItem == {"archive", "unarchive", "update", "delete", "replace"}
Asked ==
  [action : OfItem \cup {"upload", "link"}, item : Items \cup {None}, bytes : Images \cup {None}]
CommandCall ==
  [op : {"command"}, draft : Drafts, m : Asked, base : Nat, gen : Nat,
   step : {"read", "recheck", "write"}, items : SUBSET Items, paths : SUBSET Paths, versions : SUBSET Nat]

TypeOK ==
  /\ world \in Worlds
  /\ revs \in [Drafts -> Seq(RevisionSet)]
  /\ assets \in Seq(AssetSet)
  /\ bound \in [Drafts -> SUBSET (Paths \X Nat)]
  /\ rows \in [Drafts -> SUBSET RowSet]
  /\ held \in [Drafts -> SUBSET (Items \X Nat)]
  /\ index \in [Drafts -> IndexSet]
  /\ shared \in {world.shared, {}}
  /\ migration \in LedgerSet

\* pairs of an item and its path that a revision, retained or not, or a row of the draft names
NamedBy(h, rs) == (UNION {h[n].cat : n \in DOMAIN h}) \cup {<<r.item, r.path>> : r \in rs}
Named(d) == NamedBy(revs[d], rows[d])

LatestKept == \A d \in Drafts : Exists(d) => revs[d][Latest(d)].kept
PathsKnown ==
  /\ \A d \in Drafts : \A e \in Named(d) : e[2] \in Uploads \cup DOMAIN assets \cup {None}
  /\ \A d \in Drafts : \A e \in held[d] : e[2] \in DOMAIN assets
\* a binding is to a live binary of its draft, the one of that number or a copy of the upload
BoundTruly ==
  \A d \in Drafts : \A e \in bound[d] :
    /\ e[2] \in DOMAIN assets /\ assets[e[2]].live /\ assets[e[2]].draft = d
    /\ IF e[1] \in Uploads THEN assets[e[2]].bytes = e[1] ELSE e[1] = e[2]
\* the own path of a copy is named nowhere: its draft goes on naming the shared one
CopiesUnnamed ==
  \A d \in Drafts : \A b \in bound[d], e \in Named(d) : b[1] \in Uploads => e[2] # b[2]
\* a shared path is one item's, and so are the copies that an item has collected
OneItem ==
  \A d \in Drafts : \A e, f \in Named(d) : e[2] = f[2] /\ e[2] \in Uploads => e[1] = f[1]
HeldByOwner ==
  \A d \in Drafts : \A h \in held[d], b \in bound[d], e \in Named(d) :
    b[2] = h[2] /\ b[1] \in Uploads /\ e[2] = b[1] => e[1] = h[1]
IndexCovers ==
  \A d \in Drafts :
    /\ index[d].seq =< Latest(d)
    /\ \A n \in Retained(d) : n =< index[d].seq =>
         ItemsOf(revs[d][n].cat) \subseteq index[d].items /\ PathsOf(revs[d][n].cat) \subseteq index[d].paths
\* RetainedHasBytes, up to what BoundTruly says of a binding
BoundOrShared ==
  \A d \in Drafts : \A n \in Retained(d) : \A e \in revs[d][n].cat :
    e[2] \in shared \/ \E a \in DOMAIN assets : <<e[2], a>> \in bound[d]

LedgerTrue ==
  /\ \A v \in migration.verified : v[2] \in Uploads => v[3] \in DOMAIN assets /\ assets[v[3]].bytes = v[2]
  /\ \A r \in migration.recovered : r[2] \in DOMAIN assets /\ assets[r[2]].bytes = r[1]
BytesAccounted ==
  /\ \A a \in DOMAIN assets : ~ assets[a].live => assets[a].bytes \in discarded
  /\ \A u \in world.shared : u \in shared \/ \E a \in DOMAIN assets : assets[a].bytes = u

\* what a deletion was told of its item is so as long as no other save has come between
Unnamed(c) ==
  \A n \in Retained(c.draft) : \A e \in revs[c.draft][n].cat :
    /\ e[1] # c.m.item /\ e[2] # PathOf(c.draft, c.m.item)
    /\ <<c.m.item, e[2]>> \notin held[c.draft]
CommandHolds(c) ==
  /\ c \in CommandCall
  /\ c.base =< Latest(c.draft) /\ Exists(c.draft)
  /\ c.gen =< index[c.draft].gen
  /\ c.gen = index[c.draft].gen => c.base =< index[c.draft].seq
  /\ c.m.action \in {"upload", "replace"} => c.m.bytes \in Images
  /\ c.m.action \in OfItem => c.m.item \in Items
  /\ c.m.action \in OfItem /\ c.base = Latest(c.draft) => c.m.item \in Listed(c.draft)
  /\ c.step # "read" /\ c.gen = index[c.draft].gen /\ c.base = index[c.draft].seq =>
       c.items = index[c.draft].items /\ c.paths = index[c.draft].paths
  /\ c.step = "write" /\ c.m.action = "delete" /\ c.base = Latest(c.draft) => Unnamed(c)
BackfillHolds(c) ==
  /\ c.draft \in Drafts /\ c.seq \in Nat /\ c.gen \in Nat
  /\ c.next \in DOMAIN revs[c.draft] /\ c.seq < c.next
  /\ \A n \in Retained(c.draft) : ~ (c.seq < n /\ n < c.next)
CopyHolds(c) ==
  /\ c.cat \in SUBSET (Items \X Paths) /\ c.used \in SUBSET Items
  /\ IsFiniteSet(PathsOf(c.cat))
  /\ \A p \in PathsOf(c.cat) : c.bytes[p] \in SUBSET Bytes /\ c.bytes[p] # {}
RecoverHolds(c) ==
  /\ c.upload \in Uploads /\ c.base \in Nat /\ c.base =< Latest(Recovery)
  /\ c.cat = IF c.base = 0 THEN {} ELSE revs[Recovery][c.base].cat
CallHolds(c) ==
  /\ c.op = "command" => CommandHolds(c)
  /\ c.op = "backfill" => BackfillHolds(c)
  /\ c.op = "copy" => CopyHolds(c)
  /\ c.op = "recover" => RecoverHolds(c)
CallsHold == \A c \in calls : CallHolds(c)

LibraryInv ==
  /\ TypeOK /\ LatestKept /\ PathsKnown /\ BoundTruly /\ CopiesUnnamed /\ OneItem
  /\ HeldByOwner /\ IndexCovers /\ BoundOrShared /\ LedgerTrue /\ BytesAccounted /\ CallsHold

-----------------------------------------------------------------------------
(* Operators. *)

\* SetToSeq of a finite set: a sequence of its elements, each of them somewhere in it.
LEMMA SetToSeqLists ==
  ASSUME NEW S, IsFiniteSet(S)
  PROVE  /\ Cardinality(S) \in Nat
         /\ SetToSeq(S) \in [1..Cardinality(S) -> S]
         /\ SetToSeq(S) \in Seq(S) /\ Len(SetToSeq(S)) = Cardinality(S)
         /\ \A x \in S : \E k \in 1..Cardinality(S) : SetToSeq(S)[k] = x
<1> DEFINE n == Cardinality(S)
           Orders == {f \in [1..n -> S] : IsInjective(f)}
<1>1. n \in Nat /\ ExistsBijection(1..n, S)
  BY FS_CardinalityType
<1>2. Orders # {}
  BY <1>1 DEF ExistsBijection, Bijection, Injection
<1>3. SetToSeq(S) \in Orders
  BY <1>2 DEF SetToSeq
<1>4. SetToSeq(S) \in [1..n -> S] /\ IsInjective(SetToSeq(S))
  BY <1>3
<1>5. SetToSeq(S) \in Injection(1..n, S)
  BY <1>4 DEF Injection
<1>6. IsFiniteSet(1..n) /\ Cardinality(1..n) = n
  BY <1>1, FS_Interval
<1>7. SetToSeq(S) \in Surjection(1..n, S)
  BY <1>5, <1>6, FS_Injection
<1>8. \A x \in S : \E k \in 1..n : SetToSeq(S)[k] = x
  BY <1>7 DEF Surjection
<1>9. SetToSeq(S) \in Seq(S) /\ Len(SetToSeq(S)) = n
  BY <1>1, <1>4
<1> QED
  BY <1>1, <1>4, <1>8, <1>9

\* No upload is a number, so none is a binary and none is None.
\* A set of numbers has a least element.
LEMMA Smallest ==
  ASSUME NEW S \in SUBSET Nat, S # {}
  PROVE  \E n \in S : \A m \in S : n =< m
<1> DEFINE Upto(n) == {m \in S : m =< n}
           T == {Upto(n) : n \in S}
           R == StrictSubsetOrdering(Nat)
<1>1. \A n \in S : Upto(n) \in FiniteSubsetsOf(Nat)
  <2> SUFFICES ASSUME NEW n \in S
               PROVE  Upto(n) \in FiniteSubsetsOf(Nat)
    OBVIOUS
  <2>1. Upto(n) \in SUBSET Nat /\ n \in Nat /\ \A m \in Upto(n) : m =< n
    OBVIOUS
  <2> HIDE DEF Upto
  <2>2. IsFiniteSet(Upto(n))
    BY <2>1, FS_BoundedSetOfNaturals
  <2> QED
    BY <2>1, <2>2 DEF FiniteSubsetsOf
<1>2. T \subseteq FiniteSubsetsOf(Nat) /\ T # {}
  BY <1>1
<1>3. IsWellFoundedOn(R, FiniteSubsetsOf(Nat))
  BY FS_StrictSubsetOrderingWellFounded
<1> HIDE DEF R
<1>4. PICK X \in T : \A Y \in T : <<Y, X>> \notin R
  BY <1>2, <1>3, WFMin
<1>5. PICK n \in S : X = Upto(n)
  BY <1>4
<1>6. ASSUME NEW m \in S, m < n
      PROVE  FALSE
  <2>1. n \in Nat /\ m \in Nat
    OBVIOUS
  <2>2. Upto(m) \subseteq Upto(n)
    <3> SUFFICES ASSUME NEW k \in S, k =< m
                 PROVE  k =< n
      OBVIOUS
    <3>1. k \in Nat
      OBVIOUS
    <3> QED
      BY <1>6, <2>1, <3>1
  <2>3. n \in Upto(n) /\ n \notin Upto(m)
    BY <1>6, <2>1
  <2>4. Upto(m) \in SUBSET Nat /\ Upto(n) \in SUBSET Nat
    OBVIOUS
  <2>5. \A A, B \in SUBSET Nat : A \subseteq B /\ A # B => <<A, B>> \in R
    BY DEF R, StrictSubsetOrdering
  <2> HIDE DEF Upto
  <2>6. Upto(m) # Upto(n)
    BY <2>3
  <2>7. <<Upto(m), Upto(n)>> \in R
    BY <2>2, <2>4, <2>5, <2>6
  <2> QED
    BY <1>4, <1>5, <2>7 DEF T
<1>7. \A m \in S : n \in Nat /\ m \in Nat /\ (m < n \/ n =< m)
  OBVIOUS
<1> QED
  BY <1>6, <1>7

LEMMA UploadsAreNoNumbers ==
  /\ \A u \in Uploads : u \notin Nat /\ u # None
  /\ None \in Nat
BY LibraryAssumption DEF None

LEMMA SharedIsUploads ==
  ASSUME TypeOK
  PROVE  shared \subseteq Uploads /\ world.shared \subseteq Uploads
BY LibraryAssumption DEF TypeOK

\* A pair that a draft names is in a catalogue or is that of a row.
LEMMA NamedByIs ==
  ASSUME NEW h, NEW rs, NEW e
  PROVE  e \in NamedBy(h, rs) <=> \/ \E n \in DOMAIN h : e \in h[n].cat
                                 \/ \E r \in rs : e = <<r.item, r.path>>
<1> DEFINE A == UNION {h[n].cat : n \in DOMAIN h}
           B == {<<r.item, r.path>> : r \in rs}
<1>1. e \in A <=> \E n \in DOMAIN h : e \in h[n].cat
  BY Zenon
<1>2. e \in B <=> \E r \in rs : e = <<r.item, r.path>>
  BY Zenon
<1>3. NamedBy(h, rs) = A \cup B
  BY DEF NamedBy
<1> HIDE DEF A, B
<1> QED
  BY <1>1, <1>2, <1>3
LEMMA NamedIs ==
  ASSUME NEW d \in Drafts, NEW e
  PROVE  e \in Named(d) <=> \/ \E n \in DOMAIN revs[d] : e \in revs[d][n].cat
                           \/ \E r \in rows[d] : e = <<r.item, r.path>>
BY NamedByIs DEF Named

\* A revision of a draft, and its catalogue.
LEMMA RevisionType ==
  ASSUME TypeOK, NEW d \in Drafts
  PROVE  /\ Len(revs[d]) \in Nat /\ DOMAIN revs[d] = 1..Len(revs[d]) /\ Latest(d) = Len(revs[d])
         /\ Exists(d) <=> Latest(d) \in DOMAIN revs[d]
         /\ \A n \in DOMAIN revs[d] :
              /\ revs[d][n] \in RevisionSet
              /\ revs[d][n].cat \in SUBSET (Items \X Paths) /\ revs[d][n].cat \subseteq Named(d)
              /\ revs[d][n].used \in SUBSET Items /\ revs[d][n].kept \in BOOLEAN
<1>1. revs[d] \in Seq(RevisionSet)
  BY DEF TypeOK
<1>2. Len(revs[d]) \in Nat /\ DOMAIN revs[d] = 1..Len(revs[d])
  BY <1>1
<1>3. Exists(d) <=> Latest(d) \in DOMAIN revs[d]
  <2>1. revs[d] = <<>> <=> Len(revs[d]) = 0
    BY <1>1
  <2> QED
    BY <1>2, <2>1 DEF Exists, Latest
<1>4. ASSUME NEW n \in DOMAIN revs[d]
      PROVE  /\ revs[d][n] \in RevisionSet
             /\ revs[d][n].cat \in SUBSET (Items \X Paths) /\ revs[d][n].cat \subseteq Named(d)
             /\ revs[d][n].used \in SUBSET Items /\ revs[d][n].kept \in BOOLEAN
  <2>1. revs[d][n] \in RevisionSet
    BY <1>1, <1>2
  <2>2. revs[d][n].cat \subseteq Named(d)
    BY NamedIs
  <2> QED
    BY <2>1, <2>2 DEF RevisionSet
<1> QED
  BY <1>2, <1>3, <1>4 DEF Latest

LEMMA AssetType ==
  ASSUME TypeOK
  PROVE  /\ Len(assets) \in Nat /\ DOMAIN assets = 1..Len(assets)
         /\ \A a \in DOMAIN assets : /\ assets[a] \in AssetSet /\ assets[a].draft \in Drafts
                                     /\ assets[a].bytes \in Bytes /\ assets[a].live \in BOOLEAN
<1>1. assets \in Seq(AssetSet)
  BY DEF TypeOK
<1>2. Len(assets) \in Nat /\ DOMAIN assets = 1..Len(assets) /\ \A a \in DOMAIN assets : assets[a] \in AssetSet
  BY <1>1
<1> QED
  BY <1>2 DEF AssetSet

\* What a draft names are items and their paths, or no path.
LEMMA NamedType ==
  ASSUME TypeOK, NEW d \in Drafts
  PROVE  /\ Named(d) \subseteq Items \X (Paths \cup {None})
         /\ \A r \in rows[d] : r \in RowSet /\ <<r.item, r.path>> \in Named(d)
<1>1. rows[d] \subseteq RowSet
  BY DEF TypeOK
<1>2. \A r \in rows[d] : r.item \in Items /\ r.path \in Paths \cup {None}
  BY <1>1 DEF RowSet
<1>3. ASSUME NEW e \in Named(d)
      PROVE  e \in Items \X (Paths \cup {None})
  <2>1. CASE \E r \in rows[d] : e = <<r.item, r.path>>
    BY <1>2, <2>1
  <2>2. CASE \E n \in DOMAIN revs[d] : e \in revs[d][n].cat
    <3>1. PICK n \in DOMAIN revs[d] : e \in revs[d][n].cat
      BY <2>2
    <3>2. revs[d][n].cat \in SUBSET (Items \X Paths)
      BY RevisionType
    <3>3. e \in Items \X Paths
      BY <3>1, <3>2
    <3> QED
      BY <3>3
  <2> QED
    BY <2>1, <2>2, NamedIs
<1>4. \A r \in rows[d] : <<r.item, r.path>> \in Named(d)
  BY NamedIs
<1> QED
  BY <1>1, <1>3, <1>4

\* An item of a draft has a path there, in its latest catalogue or in its row.
LEMMA PathOfNames ==
  ASSUME TypeOK, NEW d \in Drafts, Exists(d), NEW i \in Listed(d)
  PROVE  /\ i \in Items /\ <<i, PathOf(d, i)>> \in Named(d)
         /\ PathOf(d, i) \in Paths \cup {None}
<1>1. Doc(d) = revs[d][Latest(d)] /\ Latest(d) \in DOMAIN revs[d] /\ Doc(d).cat \subseteq Named(d)
  BY RevisionType DEF Doc
<1>2. CASE i \in ItemsOf(Doc(d).cat)
  <2>1. PICK e \in Doc(d).cat : e[1] = i
    BY <1>2 DEF ItemsOf
  <2> DEFINE f == CHOOSE x \in Doc(d).cat : x[1] = i
  <2>2. f \in Doc(d).cat /\ f[1] = i
    BY <2>1
  <2>3. PathOf(d, i) = f[2]
    BY <1>2 DEF PathOf
  <2>4. f \in Items \X (Paths \cup {None}) /\ f \in Named(d)
    BY <1>1, <2>2, NamedType
  <2> QED
    BY <2>2, <2>3, <2>4
<1>3. CASE i \notin ItemsOf(Doc(d).cat)
  <2>1. PICK r \in rows[d] : r.item = i
    BY <1>3 DEF Listed
  <2> DEFINE f == CHOOSE x \in Row(d, i) : TRUE
  <2>2. f \in Row(d, i)
    BY <2>1 DEF Row
  <2>3. f \in rows[d] /\ f.item = i
    BY <2>2 DEF Row
  <2>4. PathOf(d, i) = f.path
    BY <1>3 DEF PathOf
  <2> QED
    BY <2>3, <2>4, NamedType
<1> QED
  BY <1>2, <1>3

-----------------------------------------------------------------------------
(* What storing binaries does. *)

Batches == {b \in Seq([bytes : Bytes, for : Uploads \cup {None}]) :
              \A k \in DOMAIN b : b[k].for # None => b[k].bytes = b[k].for}
OfDraftOnly(d, gone) == \A a \in gone : a \in DOMAIN assets /\ assets[a].draft = d

LEMMA BatchType ==
  ASSUME NEW batch \in Batches
  PROVE  /\ Len(batch) \in Nat /\ DOMAIN batch = 1..Len(batch)
         /\ \A k \in 1..Len(batch) :
              /\ batch[k].bytes \in Bytes /\ batch[k].for \in Uploads \cup {None}
              /\ batch[k].for # None => batch[k].for \in Uploads /\ batch[k].bytes = batch[k].for
<1> DEFINE S == [bytes : Bytes, for : Uploads \cup {None}]
<1>1. batch \in Seq(S) /\ \A k \in DOMAIN batch : batch[k].for # None => batch[k].bytes = batch[k].for
  BY DEF Batches
<1>2. \A s \in S : s.bytes \in Bytes /\ s.for \in Uploads \cup {None}
  OBVIOUS
<1> HIDE DEF S
<1>3. Len(batch) \in Nat /\ DOMAIN batch = 1..Len(batch) /\ \A k \in 1..Len(batch) : batch[k] \in S
  BY <1>1
<1> QED
  BY <1>1, <1>2, <1>3

\* Two batches after another are one.
LEMMA BatchesAppend ==
  ASSUME NEW a \in Batches, NEW b \in Batches
  PROVE  /\ a \o b \in Batches /\ Len(a \o b) = Len(a) + Len(b)
         /\ \A k \in 1..Len(a) : (a \o b)[k] = a[k]
         /\ \A k \in 1..Len(b) : (a \o b)[Len(a) + k] = b[k]
<1> DEFINE S == [bytes : Bytes, for : Uploads \cup {None}]
<1>1. a \in Seq(S) /\ b \in Seq(S)
  BY DEF Batches
<1> HIDE DEF S
<1>2. a \o b \in Seq(S) /\ Len(a \o b) = Len(a) + Len(b)
  BY <1>1
<1>3. Len(a) \in Nat /\ Len(b) \in Nat /\ DOMAIN (a \o b) = 1..(Len(a) + Len(b))
  BY <1>1, <1>2
<1>4. \A k \in 1..Len(a) : (a \o b)[k] = a[k]
  BY <1>1, <1>3
<1>5. \A k \in 1..Len(b) : (a \o b)[Len(a) + k] = b[k]
  BY <1>1, <1>3
<1>6. ASSUME NEW k \in DOMAIN (a \o b), (a \o b)[k].for # None
      PROVE  (a \o b)[k].bytes = (a \o b)[k].for
  <2>1. CASE k \in 1..Len(a)
    BY <2>1, <1>4, <1>6, BatchType
  <2>2. CASE k \notin 1..Len(a)
    <3>1. k - Len(a) \in 1..Len(b) /\ Len(a) + (k - Len(a)) = k
      BY <2>2, <1>3
    <3>2. (a \o b)[k] = b[k - Len(a)]
      BY <3>1, <1>5
    <3> QED
      BY <3>1, <3>2, <1>6, BatchType
  <2> QED
    BY <2>1, <2>2
<1> QED
  BY <1>2, <1>4, <1>5, <1>6 DEF Batches, S

\* The binaries that were there stay what they are, unless they are those to go; the new ones are
\* live, belong to the draft, and each is bound to its own path and at most to an upload.
LEMMA StoreAssets ==
  ASSUME TypeOK, NEW d \in Drafts, NEW batch \in Batches, NEW gone, OfDraftOnly(d, gone),
         Store(d, batch, gone)
  PROVE  /\ assets' \in Seq(AssetSet) /\ Len(assets') = Len(assets) + Len(batch)
         /\ \A a \in DOMAIN assets :
              /\ a \in DOMAIN assets' /\ assets'[a].draft = assets[a].draft
              /\ assets'[a].bytes = assets[a].bytes
              /\ assets'[a].live <=> assets[a].live /\ a \notin gone
         /\ \A k \in 1..Len(batch) : LET a == Len(assets) + k IN
              /\ a \notin DOMAIN assets /\ a \in DOMAIN assets' /\ assets'[a].draft = d
              /\ assets'[a].live /\ assets'[a].bytes = batch[k].bytes
<1> DEFINE n == Len(assets)
           more == [k \in 1..Len(batch) |-> [draft |-> d, bytes |-> batch[k].bytes, live |-> TRUE]]
           all == assets \o more
<1>1. n \in Nat /\ DOMAIN assets = 1..n /\ assets \in Seq(AssetSet)
  BY AssetType DEF TypeOK
<1>2. Len(batch) \in Nat /\ \A k \in 1..Len(batch) : batch[k].bytes \in Bytes
  BY BatchType
<1>3. more \in Seq(AssetSet) /\ Len(more) = Len(batch)
  <2>1. \A k \in 1..Len(batch) : [draft |-> d, bytes |-> batch[k].bytes, live |-> TRUE] \in AssetSet
    BY <1>2 DEF AssetSet
  <2> QED
    BY <1>2, <2>1
<1>4. all \in Seq(AssetSet) /\ Len(all) = n + Len(batch) /\ DOMAIN all = 1..(n + Len(batch))
  BY <1>1, <1>2, <1>3
<1>5. \A a \in 1..n : all[a] = assets[a]
  BY <1>1, <1>2, <1>3
<1>6. \A k \in 1..Len(batch) : all[n + k] = [draft |-> d, bytes |-> batch[k].bytes, live |-> TRUE]
  <2>1. \A k \in 1..Len(batch) : all[n + k] = more[k]
    BY <1>1, <1>2, <1>3
  <2> QED
    BY <2>1
<1>7. assets' = [a \in DOMAIN all |-> IF a \in gone THEN [all[a] EXCEPT !.live = FALSE] ELSE all[a]]
  BY DEF Store
<1> HIDE DEF more, all
<1>8. ASSUME NEW a \in DOMAIN all
      PROVE  /\ assets'[a] \in AssetSet /\ assets'[a].draft = all[a].draft
             /\ assets'[a].bytes = all[a].bytes
             /\ assets'[a].live <=> all[a].live /\ a \notin gone
  <2>1. all[a] \in AssetSet
    BY <1>4
  <2>2. CASE a \in gone
    <3>1. assets'[a] = [all[a] EXCEPT !.live = FALSE]
      BY <1>7, <2>2
    <3> QED
      BY <2>1, <2>2, <3>1 DEF AssetSet
  <2>3. CASE a \notin gone
    <3>1. assets'[a] = all[a]
      BY <1>7, <2>3
    <3> QED
      BY <2>1, <2>3, <3>1 DEF AssetSet
  <2> QED
    BY <2>2, <2>3
<1>9. DOMAIN assets' = 1..(n + Len(batch)) /\ assets' \in Seq(AssetSet) /\ Len(assets') = n + Len(batch)
  <2>1. assets' \in [1..(n + Len(batch)) -> AssetSet]
    BY <1>4, <1>7, <1>8
  <2> QED
    BY <2>1, <1>1, <1>2
<1>10. \A a \in DOMAIN assets :
         /\ a \in DOMAIN assets' /\ assets'[a].draft = assets[a].draft
         /\ assets'[a].bytes = assets[a].bytes
         /\ assets'[a].live <=> assets[a].live /\ a \notin gone
  BY <1>1, <1>2, <1>4, <1>5, <1>8, <1>9
<1>11. ASSUME NEW k \in 1..Len(batch)
       PROVE  LET a == Len(assets) + k IN
              /\ a \notin DOMAIN assets /\ a \in DOMAIN assets' /\ assets'[a].draft = d
              /\ assets'[a].live /\ assets'[a].bytes = batch[k].bytes
  <2>1. n + k \notin DOMAIN assets /\ n + k \in DOMAIN all /\ n + k \in DOMAIN assets'
    BY <1>1, <1>2, <1>4, <1>9
  <2>2. n + k \notin gone
    BY <2>1 DEF OfDraftOnly
  <2>3. all[n + k].draft = d /\ all[n + k].bytes = batch[k].bytes /\ all[n + k].live
    <3>1. all[n + k] = [draft |-> d, bytes |-> batch[k].bytes, live |-> TRUE]
      BY <1>6
    <3> QED
      BY <3>1
  <2>4. assets'[n + k].draft = d /\ assets'[n + k].bytes = batch[k].bytes /\ assets'[n + k].live
    BY <2>1, <2>2, <2>3, <1>8
  <2> QED
    BY <2>1, <2>4
<1> QED
  BY <1>9, <1>10, <1>11

\* The bindings of the draft, and those of the others.
StoredBinding(e, n, batch) ==
  \E k \in 1..Len(batch) :
    e[2] = n + k /\ (e[1] = n + k \/ (batch[k].for # None /\ e[1] = batch[k].for))
LEMMA StoreBindings ==
  ASSUME TypeOK, NEW d \in Drafts, NEW batch \in Batches, NEW gone, Store(d, batch, gone)
  PROVE  /\ bound' \in [Drafts -> SUBSET (Paths \X Nat)]
         /\ \A c \in Drafts \ {d} : bound'[c] = bound[c]
         /\ \A e : e \in bound[d] /\ e[2] \notin gone => e \in bound'[d]
         /\ \A e \in bound'[d] : (e \in bound[d] /\ e[2] \notin gone) \/ StoredBinding(e, Len(assets), batch)
         /\ \A k \in 1..Len(batch) : <<Len(assets) + k, Len(assets) + k>> \in bound'[d]
<1> DEFINE n == Len(assets)
           own == {<<n + k, n + k>> : k \in 1..Len(batch)}
           copied == {j \in 1..Len(batch) : batch[j].for # None}
           for == {<<batch[k].for, n + k>> : k \in copied}
           kept == {e \in bound[d] : e[2] \notin gone}
<1>1. bound \in [Drafts -> SUBSET (Paths \X Nat)] /\ n \in Nat
  BY AssetType DEF TypeOK
<1>2. bound' = [bound EXCEPT ![d] = kept \cup own \cup for]
  BY DEF Store
<1>3. \A k \in 1..Len(batch) : n + k \in Nat \ {None}
  BY <1>1, BatchType DEF None
<1>4. own \subseteq Paths \X Nat
  <2> SUFFICES ASSUME NEW k \in 1..Len(batch)
               PROVE  <<n + k, n + k>> \in Paths \X Nat
    BY Zenon
  <2> QED
    BY <1>3 DEF Paths
<1>5. \A k \in copied : batch[k].for \in Paths /\ n + k \in Nat
  BY <1>3, BatchType DEF Paths
<1>6. for \subseteq Paths \X Nat
  <2> SUFFICES ASSUME NEW k \in copied
               PROVE  <<batch[k].for, n + k>> \in Paths \X Nat
    BY Zenon
  <2> QED
    BY <1>5
<1>7. \A e \in own : StoredBinding(e, n, batch)
  <2> SUFFICES ASSUME NEW k \in 1..Len(batch)
               PROVE  StoredBinding(<<n + k, n + k>>, n, batch)
    BY Zenon
  <2> QED
    BY DEF StoredBinding
<1>8. \A e \in for : StoredBinding(e, n, batch)
  <2> SUFFICES ASSUME NEW k \in copied
               PROVE  StoredBinding(<<batch[k].for, n + k>>, n, batch)
    BY Zenon
  <2> QED
    BY DEF StoredBinding
<1>9. \A k \in 1..Len(batch) : <<n + k, n + k>> \in own
  BY Zenon
<1> HIDE DEF own, for
<1>10. kept \subseteq Paths \X Nat
  BY <1>1
<1>11. bound'[d] = kept \cup own \cup for
  BY <1>1, <1>2
<1> QED
  BY <1>1, <1>2, <1>4, <1>6, <1>7, <1>8, <1>9, <1>10, <1>11

-----------------------------------------------------------------------------
(* Binaries and their names, for every step: a step stores binaries for    *)
(* one draft, of which those in own are bound to their own path alone, and *)
(* the draft names nothing new but those.                                  *)

Bindings == PathsKnown /\ BoundTruly /\ CopiesUnnamed /\ OneItem /\ HeldByOwner

StoresFor(d, gone, own) ==
  /\ assets' \in Seq(AssetSet) /\ Len(assets) =< Len(assets')
  /\ \A a \in DOMAIN assets :
       /\ assets'[a].draft = assets[a].draft /\ assets'[a].bytes = assets[a].bytes
       /\ assets'[a].live <=> assets[a].live /\ a \notin gone
  /\ \A a \in DOMAIN assets' \ DOMAIN assets : assets'[a].draft = d /\ assets'[a].live
  /\ bound' \in [Drafts -> SUBSET (Paths \X Nat)]
  /\ \A c \in Drafts \ {d} : bound'[c] = bound[c]
  /\ \A e \in bound[d] : e[2] \notin gone => e \in bound'[d]
  /\ \A e \in bound'[d] :
       \/ e \in bound[d] /\ e[2] \notin gone
       \/ /\ e[2] \in DOMAIN assets' \ DOMAIN assets
          /\ e[1] = e[2] \/ (e[1] \in Uploads /\ e[2] \notin own /\ assets'[e[2]].bytes = e[1])
  /\ \A a \in own : a \in DOMAIN assets' \ DOMAIN assets /\ <<a, a>> \in bound'[d]

NamesGrow(d, own) ==
  /\ \A c \in Drafts : \A e \in Named(c)' : e \in Named(c) \/ e[2] = None \/ (c = d /\ e[2] \in own)
  /\ \A c \in Drafts : \A h \in held'[c] :
       \/ h \in held[c]
       \/ c = d /\ h[2] \in own
       \/ c = d /\ \E p : <<h[1], p>> \in Named(d) /\ <<p, h[2]>> \in bound[d]

\* a fact of TypeOK about pairs
LEMMA BoundType ==
  ASSUME TypeOK, NEW d \in Drafts, NEW e \in bound[d]
  PROVE  e[1] \in Paths /\ e[2] \in Nat /\ e = <<e[1], e[2]>>
<1>1. bound[d] \in SUBSET (Paths \X Nat)
  BY DEF TypeOK
<1> QED
  BY <1>1

LEMMA BoundTrulyKept ==
  ASSUME TypeOK, BoundTruly, NEW d \in Drafts, NEW gone, OfDraftOnly(d, gone), NEW own,
         StoresFor(d, gone, own)
  PROVE  BoundTruly'
<1> SUFFICES ASSUME NEW c \in Drafts, NEW e \in bound'[c]
             PROVE  /\ e[2] \in DOMAIN assets' /\ assets'[e[2]].live /\ assets'[e[2]].draft = c
                    /\ IF e[1] \in Uploads THEN assets'[e[2]].bytes = e[1] ELSE e[1] = e[2]
  BY DEF BoundTruly
<1>1. DOMAIN assets \subseteq DOMAIN assets'
  <2>1. assets' \in Seq(AssetSet) /\ Len(assets) =< Len(assets') /\ DOMAIN assets = 1..Len(assets)
        /\ Len(assets) \in Nat
    BY AssetType DEF StoresFor
  <2> QED
    BY <2>1
<1>2. CASE e \in bound[c] /\ (c = d => e[2] \notin gone)
  <2>1. /\ e[2] \in DOMAIN assets /\ assets[e[2]].live /\ assets[e[2]].draft = c
        /\ IF e[1] \in Uploads THEN assets[e[2]].bytes = e[1] ELSE e[1] = e[2]
    BY <1>2 DEF BoundTruly
  <2>2. e[2] \notin gone
    BY <1>2, <2>1 DEF OfDraftOnly
  <2>3. assets'[e[2]].draft = assets[e[2]].draft /\ assets'[e[2]].bytes = assets[e[2]].bytes
        /\ (assets'[e[2]].live <=> assets[e[2]].live /\ e[2] \notin gone)
    BY <2>1 DEF StoresFor
  <2> QED
    BY <1>1, <2>1, <2>2, <2>3
<1>3. CASE ~ (e \in bound[c] /\ (c = d => e[2] \notin gone))
  <2>1. c = d
    BY <1>3 DEF StoresFor
  <2>2. /\ e[2] \in DOMAIN assets' \ DOMAIN assets
        /\ e[1] = e[2] \/ (e[1] \in Uploads /\ assets'[e[2]].bytes = e[1])
    BY <1>3, <2>1 DEF StoresFor
  <2>3. assets'[e[2]].draft = d /\ assets'[e[2]].live
    BY <2>2 DEF StoresFor
  <2>4. e[2] \in Nat
    <3>1. assets' \in Seq(AssetSet)
      BY DEF StoresFor
    <3> QED
      BY <2>2, <3>1
  <2> QED
    BY <2>1, <2>2, <2>3, <2>4, UploadsAreNoNumbers
<1> QED
  BY <1>2, <1>3

\* The numbers of binaries, before and after a step.
LEMMA Numbers ==
  ASSUME TypeOK, NEW d, NEW gone, NEW own, StoresFor(d, gone, own)
  PROVE  /\ DOMAIN assets \subseteq DOMAIN assets'
         /\ \A a \in DOMAIN assets' : a \in Nat /\ a # None /\ a \notin Uploads
<1>1. assets' \in Seq(AssetSet) /\ Len(assets) =< Len(assets') /\ DOMAIN assets = 1..Len(assets)
      /\ Len(assets) \in Nat
  BY AssetType DEF StoresFor
<1>2. DOMAIN assets' = 1..Len(assets') /\ Len(assets') \in Nat
  BY <1>1
<1> QED
  BY <1>1, <1>2, UploadsAreNoNumbers DEF None

\* A binding that was not there is that of a new binary, and to its own path if that is in own.
LEMMA NewBinding ==
  ASSUME TypeOK, NEW d \in Drafts, NEW gone, NEW own, StoresFor(d, gone, own),
         NEW c \in Drafts, NEW b \in bound'[c], b \notin bound[c]
  PROVE  /\ c = d /\ b[2] \in DOMAIN assets' /\ b[2] \notin DOMAIN assets
         /\ b[1] = b[2] \/ (b[1] \in Uploads /\ b[2] \notin own)
BY DEF StoresFor

LEMMA BindingsKept ==
  ASSUME TypeOK, Bindings, NEW d \in Drafts, NEW gone, OfDraftOnly(d, gone), NEW own,
         StoresFor(d, gone, own), NamesGrow(d, own)
  PROVE  Bindings'
<1>1. BoundTruly'
  BY BoundTrulyKept DEF Bindings
<1>2. \A a \in own : a \in DOMAIN assets' /\ a \notin DOMAIN assets
  BY DEF StoresFor
<1>3. ASSUME NEW c \in Drafts, NEW e \in Named(c)', e[2] \in Uploads
      PROVE  e \in Named(c)
  BY <1>2, <1>3, Numbers, UploadsAreNoNumbers DEF NamesGrow
<1>4. \A c \in Drafts : \A b \in bound[c] : b[2] \in DOMAIN assets
  BY DEF Bindings, BoundTruly
<1>5. PathsKnown'
  <2>1. ASSUME NEW c \in Drafts, NEW e \in Named(c)'
        PROVE  e[2] \in Uploads \cup DOMAIN assets' \cup {None}
    <3>1. CASE e \in Named(c)
      BY <3>1, Numbers DEF Bindings, PathsKnown
    <3>2. CASE e \notin Named(c)
      BY <3>2, <1>2 DEF NamesGrow
    <3> QED
      BY <3>1, <3>2
  <2>2. ASSUME NEW c \in Drafts, NEW h \in held'[c]
        PROVE  h[2] \in DOMAIN assets'
    <3>1. CASE h \in held[c]
      BY <3>1, Numbers DEF Bindings, PathsKnown
    <3>2. CASE h[2] \in own
      BY <3>2, <1>2
    <3>3. CASE c = d /\ \E p : <<h[1], p>> \in Named(d) /\ <<p, h[2]>> \in bound[d]
      <4>1. PICK p : <<p, h[2]>> \in bound[d]
        BY <3>3
      <4>2. h[2] \in DOMAIN assets
        BY <4>1, <1>4
      <4> QED
        BY <4>2, Numbers
    <3> QED
      BY <3>1, <3>2, <3>3 DEF NamesGrow
  <2> QED
    BY <2>1, <2>2 DEF PathsKnown
<1>6. CopiesUnnamed'
  <2> SUFFICES ASSUME NEW c \in Drafts, NEW b \in bound'[c], NEW e \in Named(c)', b[1] \in Uploads,
                      e[2] = b[2]
               PROVE  FALSE
    BY DEF CopiesUnnamed
  <2>1. b[2] \in DOMAIN assets' /\ b[2] # None /\ b[2] \notin Uploads
    BY <1>1, Numbers DEF BoundTruly
  <2>2. CASE b \in bound[c]
    <3>1. e \in Named(c)
      BY <2>1, <2>2, <1>2, <1>4 DEF NamesGrow
    <3> QED
      BY <2>2, <3>1 DEF Bindings, CopiesUnnamed
  <2>3. CASE b \notin bound[c]
    <3>1. c = d /\ b[2] \notin DOMAIN assets /\ b[2] \notin own
      BY <2>1, <2>3, NewBinding
    <3>2. e \in Named(c)
      BY <2>1, <3>1 DEF NamesGrow
    <3> QED
      BY <2>1, <3>1, <3>2 DEF Bindings, PathsKnown
  <2> QED
    BY <2>2, <2>3
<1>7. OneItem'
  BY <1>3 DEF Bindings, OneItem
<1>8. HeldByOwner'
  <2> SUFFICES ASSUME NEW c \in Drafts, NEW h \in held'[c], NEW b \in bound'[c], NEW e \in Named(c)',
                      b[2] = h[2], b[1] \in Uploads, e[2] = b[1]
               PROVE  e[1] = h[1]
    BY DEF HeldByOwner
  <2>1. e \in Named(c)
    BY <1>3
  <2>2. b[2] # b[1] /\ b[2] \in DOMAIN assets'
    BY <1>1, Numbers DEF BoundTruly
  <2>3. CASE h \in held[c]
    <3>1. b \in bound[c]
      BY <2>3, NewBinding DEF Bindings, PathsKnown
    <3> QED
      BY <2>1, <2>3, <3>1 DEF Bindings, HeldByOwner
  <2>4. CASE c = d /\ h[2] \in own
    <3>1. b \notin bound[c]
      BY <2>4, <1>2, <1>4
    <3> QED
      BY <2>2, <2>4, <3>1, NewBinding
  <2>5. CASE c = d /\ \E p : <<h[1], p>> \in Named(d) /\ <<p, h[2]>> \in bound[d]
    <3>1. PICK p : <<h[1], p>> \in Named(d) /\ <<p, h[2]>> \in bound[d]
      BY <2>5
    <3>2. h[2] \in DOMAIN assets
      BY <3>1, <1>4
    <3>3. b \in bound[d]
      BY <2>5, <3>2, NewBinding
    <3>4. CASE p \in Uploads
      <4>1. assets[h[2]].bytes = p /\ assets[b[2]].bytes = b[1]
        BY <3>1, <3>3, <3>4 DEF Bindings, BoundTruly
      <4>2. e[2] = p
        BY <4>1
      <4> QED
        BY <2>1, <2>5, <3>1, <3>4, <4>2 DEF Bindings, OneItem
    <3>5. CASE p \notin Uploads
      <4>1. p = h[2]
        BY <3>1, <3>5 DEF Bindings, BoundTruly
      <4> QED
        BY <3>1, <3>3, <4>1 DEF Bindings, CopiesUnnamed
    <3> QED
      BY <3>4, <3>5
  <2> QED
    BY <2>3, <2>4, <2>5 DEF NamesGrow
<1> QED
  BY <1>1, <1>5, <1>6, <1>7, <1>8 DEF Bindings

\* Store is such a step, and so is one that stores nothing.
LEMMA StoreStoresFor ==
  ASSUME TypeOK, NEW d \in Drafts, NEW batch \in Batches, NEW gone, OfDraftOnly(d, gone),
         Store(d, batch, gone), NEW own,
         \A a \in own : \E k \in 1..Len(batch) : a = Len(assets) + k /\ batch[k].for = None
  PROVE  StoresFor(d, gone, own)
<1> DEFINE n == Len(assets)
<1>1. /\ assets' \in Seq(AssetSet) /\ Len(assets') = n + Len(batch)
      /\ \A a \in DOMAIN assets :
           /\ a \in DOMAIN assets' /\ assets'[a].draft = assets[a].draft
           /\ assets'[a].bytes = assets[a].bytes
           /\ assets'[a].live <=> assets[a].live /\ a \notin gone
      /\ \A k \in 1..Len(batch) :
           /\ n + k \notin DOMAIN assets /\ n + k \in DOMAIN assets' /\ assets'[n + k].draft = d
           /\ assets'[n + k].live /\ assets'[n + k].bytes = batch[k].bytes
  BY StoreAssets
<1>2. /\ bound' \in [Drafts -> SUBSET (Paths \X Nat)]
      /\ \A c \in Drafts \ {d} : bound'[c] = bound[c]
      /\ \A e : e \in bound[d] /\ e[2] \notin gone => e \in bound'[d]
      /\ \A e \in bound'[d] : (e \in bound[d] /\ e[2] \notin gone) \/ StoredBinding(e, n, batch)
      /\ \A k \in 1..Len(batch) : <<n + k, n + k>> \in bound'[d]
  BY StoreBindings
<1>3. n \in Nat /\ Len(batch) \in Nat /\ DOMAIN assets = 1..n /\ DOMAIN assets' = 1..(n + Len(batch))
  BY <1>1, AssetType, BatchType
<1>4. ASSUME NEW a \in DOMAIN assets' \ DOMAIN assets
      PROVE  assets'[a].draft = d /\ assets'[a].live
  <2>1. a - n \in 1..Len(batch) /\ n + (a - n) = a
    BY <1>3
  <2> QED
    BY <1>1, <2>1
<1>5. ASSUME NEW e \in bound'[d], StoredBinding(e, n, batch)
      PROVE  /\ e[2] \in DOMAIN assets' \ DOMAIN assets
             /\ e[1] = e[2] \/ (e[1] \in Uploads /\ e[2] \notin own /\ assets'[e[2]].bytes = e[1])
  <2>1. PICK k \in 1..Len(batch) : e[2] = n + k /\ (e[1] = n + k \/ (batch[k].for # None /\ e[1] = batch[k].for))
    BY <1>5 DEF StoredBinding
  <2>2. e[2] \in DOMAIN assets' /\ e[2] \notin DOMAIN assets /\ assets'[e[2]].bytes = batch[k].bytes
    BY <1>1, <2>1
  <2>3. CASE batch[k].for # None /\ e[1] = batch[k].for
    <3>1. batch[k].for \in Uploads /\ batch[k].bytes = batch[k].for
      BY <2>3, BatchType
    <3>2. e[2] \notin own
      <4>1. SUFFICES ASSUME e[2] \in own PROVE FALSE
        OBVIOUS
      <4>2. PICK j \in 1..Len(batch) : e[2] = n + j /\ batch[j].for = None
        BY <4>1
      <4>3. j = k
        BY <1>3, <2>1, <4>2
      <4> QED
        BY <2>3, <4>2, <4>3
    <3> QED
      BY <2>2, <2>3, <3>1, <3>2
  <2> QED
    BY <2>1, <2>2, <2>3
<1>6. \A a \in own : a \in DOMAIN assets' \ DOMAIN assets /\ <<a, a>> \in bound'[d]
  BY <1>1, <1>2
<1>7. n =< Len(assets')
  BY <1>1, <1>3
<1> QED
  BY <1>1, <1>2, <1>4, <1>5, <1>6, <1>7 DEF StoresFor

LEMMA StoresNothing ==
  ASSUME TypeOK, UNCHANGED <<assets, bound>>, NEW d \in Drafts
  PROVE  StoresFor(d, {}, {}) /\ OfDraftOnly(d, {})
BY AssetType DEF StoresFor, OfDraftOnly, TypeOK

\* The ledger of the conversion, and what becomes of bytes.
LEMMA LedgerType ==
  ASSUME TypeOK
  PROVE  /\ migration \in LedgerSet /\ migration.state \in {"pending", "complete"}
         /\ migration.verified \in SUBSET (Drafts \X Paths \X Nat)
         /\ migration.recovered \in SUBSET (Uploads \X Nat)
BY DEF TypeOK, LedgerSet

LEMMA StoreLedger ==
  ASSUME TypeOK, NEW d, NEW batch, NEW gone, Store(d, batch, gone)
  PROVE  /\ migration' \in LedgerSet /\ migration'.state = migration.state
         /\ migration'.verified \subseteq migration.verified
         /\ migration'.recovered \subseteq migration.recovered
<1> DEFINE v == {x \in migration.verified : x[3] \notin gone}
           r == {x \in migration.recovered : x[2] \notin gone}
<1>1. migration' = [migration EXCEPT !.verified = v, !.recovered = r]
  BY DEF Store
<1>2. v \subseteq migration.verified /\ r \subseteq migration.recovered
  OBVIOUS
<1> HIDE DEF v, r
<1>3. migration'.verified = v /\ migration'.recovered = r /\ migration'.state = migration.state
  BY <1>1, LedgerType DEF LedgerSet
<1>4. v \in SUBSET (Drafts \X Paths \X Nat) /\ r \in SUBSET (Uploads \X Nat)
  BY <1>2, LedgerType
<1>5. migration' \in LedgerSet
  BY <1>1, <1>4, LedgerType DEF LedgerSet
<1> QED
  BY <1>2, <1>3, <1>5

LEMMA LedgerKept ==
  ASSUME TypeOK, LedgerTrue, NEW d, NEW gone, NEW own, StoresFor(d, gone, own),
         \A v \in migration'.verified : v \in migration.verified,
         \A r \in migration'.recovered :
           r \in migration.recovered \/ (r[2] \in DOMAIN assets' /\ assets'[r[2]].bytes = r[1])
  PROVE  LedgerTrue'
<1>1. \A a \in DOMAIN assets : a \in DOMAIN assets' /\ assets'[a].bytes = assets[a].bytes
  BY Numbers DEF StoresFor
<1> QED
  BY <1>1 DEF LedgerTrue

LEMMA BytesKept ==
  ASSUME TypeOK, BytesAccounted, NEW d, NEW gone, NEW own, StoresFor(d, gone, own),
         world' = world, shared' = shared, discarded \subseteq discarded',
         \A a \in gone : assets[a].bytes \in discarded'
  PROVE  BytesAccounted'
<1>1. \A a \in DOMAIN assets : a \in DOMAIN assets' /\ assets'[a].bytes = assets[a].bytes
  BY Numbers DEF StoresFor
<1>2. ASSUME NEW a \in DOMAIN assets', ~ assets'[a].live
      PROVE  assets'[a].bytes \in discarded'
  <2>1. a \in DOMAIN assets
    BY <1>2 DEF StoresFor
  <2>2. ~ assets[a].live \/ a \in gone
    BY <1>2, <2>1 DEF StoresFor
  <2> QED
    BY <1>1, <2>1, <2>2 DEF BytesAccounted
<1>3. \A u \in world'.shared : u \in shared' \/ \E a \in DOMAIN assets' : assets'[a].bytes = u
  BY <1>1 DEF BytesAccounted
<1> QED
  BY <1>2, <1>3 DEF BytesAccounted

-----------------------------------------------------------------------------
(* Revisions and the aggregates of the history.                            *)

\* A revision keeps its document for ever, retention only lets go, rows and collected binaries
\* move with a save, and a generation of the aggregates only grows, with its sequence.
GoesOn ==
  \A d \in Drafts :
    /\ Len(revs[d]) =< Len(revs'[d])
    /\ \A n \in DOMAIN revs[d] :
         /\ revs'[d][n].cat = revs[d][n].cat
         /\ revs'[d][n].kept => revs[d][n].kept
    /\ Len(revs'[d]) = Len(revs[d]) => rows'[d] = rows[d] /\ held'[d] = held[d]
    /\ index[d].gen =< index'[d].gen
    /\ index'[d].gen = index[d].gen => index[d].seq =< index'[d].seq
    /\ index'[d].gen = index[d].gen /\ index'[d].seq = index[d].seq => index'[d] = index[d]

LEMMA RevisionTypeNext ==
  ASSUME TypeOK', NEW d \in Drafts
  PROVE  /\ Len(revs'[d]) \in Nat /\ DOMAIN revs'[d] = 1..Len(revs'[d]) /\ Latest(d)' = Len(revs'[d])
         /\ \A n \in DOMAIN revs'[d] : revs'[d][n] \in RevisionSet
         /\ Exists(d)' <=> Len(revs'[d]) # 0
<1>1. revs'[d] \in Seq(RevisionSet)
  BY DEF TypeOK
<1>2. revs'[d] = <<>> <=> Len(revs'[d]) = 0
  BY <1>1
<1> QED
  BY <1>1, <1>2 DEF Latest, Exists

LEMMA IndexType ==
  ASSUME TypeOK, NEW d \in Drafts
  PROVE  /\ index[d] \in IndexSet /\ index[d].seq \in Nat /\ index[d].gen \in Nat
         /\ index[d].items \in SUBSET Items /\ index[d].paths \in SUBSET Paths
BY DEF TypeOK, IndexSet

LEMMA IndexTypeNext ==
  ASSUME TypeOK', NEW d \in Drafts
  PROVE  index'[d].seq \in Nat /\ index'[d].gen \in Nat
BY DEF TypeOK, IndexSet

\* Without a save, an item has the path that it had, and a retained revision was retained.
LEMMA SameSave ==
  ASSUME TypeOK, TypeOK', GoesOn, NEW d \in Drafts, Exists(d), Latest(d)' = Latest(d)
  PROVE  /\ Doc(d)'.cat = Doc(d).cat /\ rows'[d] = rows[d] /\ held'[d] = held[d]
         /\ \A i : PathOf(d, i)' = PathOf(d, i)
         /\ Listed(d)' = Listed(d)
<1>1. Len(revs'[d]) = Len(revs[d]) /\ Len(revs[d]) \in DOMAIN revs[d] /\ Exists(d)'
  BY RevisionType, RevisionTypeNext DEF Latest
<1>2. Doc(d)'.cat = Doc(d).cat
  BY <1>1 DEF Doc, Latest, GoesOn
<1>3. rows'[d] = rows[d] /\ held'[d] = held[d]
  BY <1>1 DEF GoesOn
<1>4. \A i : Row(d, i)' = Row(d, i)
  BY <1>3 DEF Row
<1>5. ASSUME NEW i
      PROVE  PathOf(d, i)' = PathOf(d, i)
  <2> DEFINE Path(S, R) == IF i \in ItemsOf(S) THEN (CHOOSE e \in S : e[1] = i)[2]
                           ELSE (CHOOSE r \in R : TRUE).path
  <2>1. PathOf(d, i) = Path(Doc(d).cat, Row(d, i))
    BY DEF PathOf
  <2>2. PathOf(d, i)' = Path(Doc(d)'.cat, Row(d, i)')
    BY DEF PathOf
  <2> HIDE DEF Path
  <2> QED
    BY <1>2, <1>4, <2>1, <2>2
<1>6. Listed(d)' = Listed(d)
  BY <1>1, <1>2, <1>3 DEF Listed
<1> QED
  BY <1>2, <1>3, <1>5, <1>6

LEMMA RetainedShrinks ==
  ASSUME TypeOK, TypeOK', GoesOn, NEW d \in Drafts, NEW n \in Retained(d)', n =< Latest(d)
  PROVE  n \in Retained(d) /\ revs'[d][n].cat = revs[d][n].cat
<1>1. n \in DOMAIN revs'[d] /\ revs'[d][n].kept
  BY DEF Retained
<1>2. n \in DOMAIN revs[d]
  BY <1>1, RevisionType, RevisionTypeNext
<1> QED
  BY <1>1, <1>2 DEF GoesOn, Retained

LEMMA CommandKept ==
  ASSUME TypeOK, TypeOK', GoesOn, NEW c, CommandHolds(c)
  PROVE  CommandHolds(c)'
<1> DEFINE d == c.draft
<1>1. c \in CommandCall /\ d \in Drafts /\ c.base \in Nat /\ c.gen \in Nat
  BY DEF CommandHolds, CommandCall
<1>2. Len(revs[d]) =< Len(revs'[d]) /\ Len(revs[d]) \in Nat /\ Len(revs'[d]) \in Nat
      /\ Latest(d) = Len(revs[d]) /\ Latest(d)' = Len(revs'[d])
  BY <1>1, RevisionType, RevisionTypeNext DEF GoesOn
<1>3. c.base =< Latest(d)' /\ Exists(d)'
  <2>1. Len(revs[d]) # 0
    BY <1>1, <1>2, RevisionType DEF CommandHolds
  <2> QED
    BY <1>1, <1>2, <2>1, RevisionTypeNext DEF CommandHolds
<1>4. /\ index[d].gen \in Nat /\ index[d].seq \in Nat /\ index'[d].gen \in Nat /\ index'[d].seq \in Nat
      /\ index[d].gen =< index'[d].gen
      /\ index'[d].gen = index[d].gen => index[d].seq =< index'[d].seq
      /\ index'[d].gen = index[d].gen /\ index'[d].seq = index[d].seq => index'[d] = index[d]
  BY <1>1, IndexType, IndexTypeNext DEF GoesOn
<1>5. c.gen =< index[d].gen /\ (c.gen = index[d].gen => c.base =< index[d].seq)
  BY DEF CommandHolds
<1>6. c.gen =< index'[d].gen /\ (c.gen = index'[d].gen => c.base =< index'[d].seq)
  BY <1>1, <1>4, <1>5
<1>7. c.step # "read" /\ c.gen = index'[d].gen /\ c.base = index'[d].seq =>
        c.items = index'[d].items /\ c.paths = index'[d].paths
  <2> SUFFICES ASSUME c.step # "read", c.gen = index'[d].gen, c.base = index'[d].seq
               PROVE  c.items = index'[d].items /\ c.paths = index'[d].paths
    OBVIOUS
  <2>1. index'[d].gen = index[d].gen
    BY <1>1, <1>4, <1>5
  <2>2. index'[d].seq = index[d].seq
    BY <1>1, <1>4, <1>5, <2>1
  <2> QED
    BY <1>4, <2>1, <2>2 DEF CommandHolds
<1>8. ASSUME c.base = Latest(d)'
      PROVE  c.base = Latest(d) /\ Latest(d)' = Latest(d)
  BY <1>1, <1>2, <1>8 DEF CommandHolds
<1>9. c.m.action \in OfItem /\ c.base = Latest(d)' => c.m.item \in Listed(d)'
  BY <1>1, <1>8, SameSave DEF CommandHolds
<1>10. ASSUME c.step = "write", c.m.action = "delete", c.base = Latest(d)'
       PROVE  Unnamed(c)'
  <2>1. Unnamed(c)
    BY <1>8, <1>10 DEF CommandHolds
  <2>2. PathOf(d, c.m.item)' = PathOf(d, c.m.item) /\ held'[d] = held[d]
    BY <1>1, <1>8, <1>10, SameSave DEF CommandHolds
  <2>3. ASSUME NEW n \in Retained(d)'
        PROVE  n \in Retained(d) /\ revs'[d][n].cat = revs[d][n].cat
    <3>1. n =< Latest(d)
      BY <1>1, <1>2, <1>8, <1>10, RevisionTypeNext DEF Retained
    <3> QED
      BY <1>1, <3>1, RetainedShrinks
  <2> QED
    BY <2>1, <2>2, <2>3 DEF Unnamed
<1> QED
  BY <1>1, <1>3, <1>6, <1>7, <1>9, <1>10 DEF CommandHolds

LEMMA CallKept ==
  ASSUME TypeOK, TypeOK', GoesOn, NEW c, CallHolds(c)
  PROVE  CallHolds(c)'
<1>1. c.op = "command" => CommandHolds(c)'
  BY CommandKept DEF CallHolds
<1>2. ASSUME BackfillHolds(c)
      PROVE  BackfillHolds(c)'
  <2>1. /\ c.draft \in Drafts /\ c.seq \in Nat /\ c.gen \in Nat
        /\ c.next \in DOMAIN revs[c.draft] /\ c.seq < c.next
    BY <1>2 DEF BackfillHolds
  <2>2. c.next \in DOMAIN revs'[c.draft] /\ c.next =< Latest(c.draft) /\ c.next \in Nat
        /\ Latest(c.draft) \in Nat
    BY <2>1, RevisionType, RevisionTypeNext DEF GoesOn
  <2>3. ASSUME NEW n \in Retained(c.draft)', c.seq < n, n < c.next
        PROVE  FALSE
    <3>1. n \in Nat
      BY <2>1, RevisionTypeNext DEF Retained
    <3>2. n =< Latest(c.draft)
      BY <2>2, <2>3, <3>1
    <3>3. n \in Retained(c.draft)
      BY <2>1, <3>2, RetainedShrinks
    <3> QED
      BY <1>2, <2>3, <3>3 DEF BackfillHolds
  <2> QED
    BY <2>1, <2>2, <2>3 DEF BackfillHolds
<1>3. CopyHolds(c) => CopyHolds(c)'
  BY DEF CopyHolds
<1>4. ASSUME RecoverHolds(c)
      PROVE  RecoverHolds(c)'
  <2>1. Recovery \in Drafts
    BY LibraryAssumption
  <2>2. c.upload \in Uploads /\ c.base \in Nat /\ c.base =< Latest(Recovery)
    BY <1>4 DEF RecoverHolds
  <2>3. c.base =< Latest(Recovery)' /\ (c.base # 0 => c.base \in DOMAIN revs[Recovery])
    BY <2>1, <2>2, RevisionType, RevisionTypeNext DEF GoesOn
  <2>4. c.base # 0 => revs'[Recovery][c.base].cat = revs[Recovery][c.base].cat
    BY <2>1, <2>3 DEF GoesOn
  <2> QED
    BY <1>4, <2>2, <2>3, <2>4 DEF RecoverHolds
<1> QED
  BY <1>1, <1>2, <1>3, <1>4 DEF CallHolds

\* So the calls that go on hold what they held.
LEMMA CallsKept ==
  ASSUME TypeOK, TypeOK', GoesOn, CallsHold, \A c \in calls' : c \in calls \/ CallHolds(c)'
  PROVE  CallsHold'
<1> SUFFICES ASSUME NEW c \in calls'
             PROVE  CallHolds(c)'
  BY DEF CallsHold
<1>1. CASE c \in calls
  BY <1>1, CallKept DEF CallsHold
<1> QED
  BY <1>1

\* A save appends a revision.
Appends(d, cat, used) == revs' = [revs EXCEPT ![d] = Append(@, Revision(cat, used))]

LEMMA AppendRevs ==
  ASSUME TypeOK, NEW d \in Drafts, NEW cat \in SUBSET (Items \X Paths), NEW used \in SUBSET Items,
         Appends(d, cat, used)
  PROVE  /\ revs' \in [Drafts -> Seq(RevisionSet)]
         /\ Len(revs'[d]) = Len(revs[d]) + 1 /\ \A c \in Drafts \ {d} : revs'[c] = revs[c]
         /\ \A n \in DOMAIN revs[d] : revs'[d][n] = revs[d][n]
         /\ LET n == Len(revs[d]) + 1 IN revs'[d][n].cat = cat /\ revs'[d][n].used = used /\ revs'[d][n].kept
<1> DEFINE r == Revision(cat, used)
           k == Len(revs[d]) + 1
<1>1. r \in RevisionSet /\ r.cat = cat /\ r.used = used /\ r.kept
  BY DEF Revision, RevisionSet
<1>2. revs \in [Drafts -> Seq(RevisionSet)] /\ revs' = [revs EXCEPT ![d] = Append(revs[d], r)]
  BY DEF TypeOK, Appends
<1> HIDE DEF r
<1>3. revs[d] \in Seq(RevisionSet)
  BY <1>2
<1>4. Append(revs[d], r) \in Seq(RevisionSet) /\ Len(Append(revs[d], r)) = k
      /\ Append(revs[d], r)[k] = r /\ \A n \in DOMAIN revs[d] : Append(revs[d], r)[n] = revs[d][n]
  BY <1>1, <1>3
<1>5. revs'[d] = Append(revs[d], r) /\ \A c \in Drafts \ {d} : revs'[c] = revs[c]
  BY <1>2
<1>6. revs' \in [Drafts -> Seq(RevisionSet)]
  BY <1>2, <1>4
<1>7. revs'[d][k].cat = cat /\ revs'[d][k].used = used /\ revs'[d][k].kept
  BY <1>1, <1>4, <1>5
<1> QED
  BY <1>4, <1>5, <1>6, <1>7

\* What is retained after that, and what is named.
LEMMA AppendRetained ==
  ASSUME TypeOK, NEW d \in Drafts, NEW cat \in SUBSET (Items \X Paths), NEW used \in SUBSET Items,
         Appends(d, cat, used), NEW c \in Drafts, NEW n \in Retained(c)'
  PROVE  \/ n \in Retained(c) /\ revs'[c][n].cat = revs[c][n].cat
         \/ c = d /\ n = Latest(d) + 1 /\ revs'[c][n].cat = cat
<1>1. n \in DOMAIN revs'[c] /\ revs'[c][n].kept
  BY DEF Retained
<1>2. CASE c # d
  <2>1. revs'[c] = revs[c]
    BY <1>2, AppendRevs
  <2> QED
    BY <1>1, <2>1 DEF Retained
<1>3. CASE c = d
  <2>1. Len(revs'[d]) = Len(revs[d]) + 1 /\ Len(revs[d]) \in Nat /\ DOMAIN revs[d] = 1..Len(revs[d])
        /\ revs' \in [Drafts -> Seq(RevisionSet)]
    BY AppendRevs, RevisionType
  <2>2. DOMAIN revs'[d] = 1..(Len(revs[d]) + 1)
    BY <2>1
  <2>3. CASE n \in DOMAIN revs[d]
    <3>1. revs'[d][n] = revs[d][n]
      BY <2>3, AppendRevs
    <3> QED
      BY <1>1, <1>3, <2>3, <3>1 DEF Retained
  <2>4. CASE n \notin DOMAIN revs[d]
    <3>1. n = Len(revs[d]) + 1
      BY <1>1, <1>3, <2>1, <2>2, <2>4
    <3> QED
      BY <1>3, <3>1, AppendRevs DEF Latest
  <2> QED
    BY <2>3, <2>4
<1> QED
  BY <1>2, <1>3

LEMMA AppendNames ==
  ASSUME TypeOK, NEW d \in Drafts, NEW cat \in SUBSET (Items \X Paths), NEW used \in SUBSET Items,
         Appends(d, cat, used), \A c \in Drafts \ {d} : rows'[c] = rows[c],
         NEW c \in Drafts, NEW e \in Named(c)'
  PROVE  e \in Named(c) \/ (c = d /\ (e \in cat \/ \E r \in rows'[d] : e = <<r.item, r.path>>))
<1>1. e \in NamedBy(revs'[c], rows'[c])
  BY DEF Named
<1>2. CASE \E r \in rows'[c] : e = <<r.item, r.path>>
  <2>1. CASE c = d
    BY <1>2, <2>1
  <2>2. CASE c # d
    BY <1>2, <2>2, NamedIs
  <2> QED
    BY <2>1, <2>2
<1>3. CASE \E n \in DOMAIN revs'[c] : e \in revs'[c][n].cat
  <2>1. PICK n \in DOMAIN revs'[c] : e \in revs'[c][n].cat
    BY <1>3
  <2>2. CASE c # d
    <3>1. revs'[c] = revs[c]
      BY <2>2, AppendRevs
    <3> QED
      BY <2>1, <3>1, NamedIs
  <2>3. CASE c = d
    <3>1. Len(revs'[d]) = Len(revs[d]) + 1 /\ Len(revs[d]) \in Nat /\ DOMAIN revs[d] = 1..Len(revs[d])
          /\ revs' \in [Drafts -> Seq(RevisionSet)]
      BY AppendRevs, RevisionType
    <3>2. DOMAIN revs'[d] = 1..(Len(revs[d]) + 1)
      BY <3>1
    <3>3. CASE n \in DOMAIN revs[d]
      <4>1. revs'[d][n] = revs[d][n]
        BY <3>3, AppendRevs
      <4> QED
        BY <2>1, <2>3, <3>3, <4>1, NamedIs
    <3>4. CASE n \notin DOMAIN revs[d]
      <4>1. n = Len(revs[d]) + 1
        BY <2>1, <2>3, <3>1, <3>2, <3>4
      <4> QED
        BY <2>1, <2>3, <4>1, AppendRevs
    <3> QED
      BY <3>3, <3>4
  <2> QED
    BY <2>2, <2>3
<1> QED
  BY <1>1, <1>2, <1>3, NamedByIs

LEMMA AppendLatest ==
  ASSUME TypeOK, LatestKept, NEW d \in Drafts, NEW cat \in SUBSET (Items \X Paths),
         NEW used \in SUBSET Items, Appends(d, cat, used)
  PROVE  LatestKept'
<1> SUFFICES ASSUME NEW c \in Drafts, Exists(c)'
             PROVE  revs'[c][Latest(c)'].kept
  BY DEF LatestKept
<1>1. CASE c # d
  <2>1. revs'[c] = revs[c]
    BY <1>1, AppendRevs
  <2> QED
    BY <2>1 DEF LatestKept, Exists, Latest
<1>2. CASE c = d
  <2>1. Latest(d)' = Len(revs[d]) + 1
    BY AppendRevs DEF Latest
  <2> QED
    BY <1>2, <2>1, AppendRevs
<1> QED
  BY <1>1, <1>2

\* The aggregates with a revision added, or as they were.
Adds(d, previous, seq, cat) == index' = [index EXCEPT ![d] = Include(@, previous, seq, cat)]

LEMMA AddsIndex ==
  ASSUME TypeOK, NEW d \in Drafts, NEW previous \in Nat, NEW seq \in Nat, previous < seq,
         NEW cat \in SUBSET (Items \X Paths), Adds(d, previous, seq, cat)
  PROVE  /\ index' \in [Drafts -> IndexSet]
         /\ \A c \in Drafts \ {d} : index'[c] = index[c]
         /\ index'[d].gen = index[d].gen
         /\ \/ index'[d] = index[d] /\ index[d].seq # previous
            \/ /\ index[d].seq = previous /\ index'[d].seq = seq
               /\ index'[d].items = index[d].items \cup ItemsOf(cat)
               /\ index'[d].paths = index[d].paths \cup PathsOf(cat)
<1>1. index \in [Drafts -> IndexSet] /\ index' = [index EXCEPT ![d] = Include(index[d], previous, seq, cat)]
  BY DEF TypeOK, Adds
<1>2. index[d] \in IndexSet
  BY IndexType
<1>3. ItemsOf(cat) \in SUBSET Items /\ PathsOf(cat) \in SUBSET Paths
  BY DEF ItemsOf, PathsOf
<1>4. CASE index[d].seq # previous
  <2>1. Include(index[d], previous, seq, cat) = index[d]
    BY <1>4 DEF Include, Covers
  <2> QED
    BY <1>1, <1>2, <1>4, <2>1
<1>5. CASE index[d].seq = previous
  <2> DEFINE items == index[d].items \cup ItemsOf(cat)
             paths == index[d].paths \cup PathsOf(cat)
  <2>1. Include(index[d], previous, seq, cat)
          = [index[d] EXCEPT !.seq = seq, !.items = items, !.paths = paths]
    BY <1>5 DEF Include, Covers
  <2>2. items \in SUBSET Items /\ paths \in SUBSET Paths
    BY <1>3, IndexType
  <2> HIDE DEF items, paths
  <2> DEFINE new == Include(index[d], previous, seq, cat)
  <2>3. new \in IndexSet /\ new.seq = seq /\ new.gen = index[d].gen /\ new.items = items /\ new.paths = paths
    BY <1>2, <2>1, <2>2 DEF IndexSet
  <2> HIDE DEF new
  <2>4. index' = [index EXCEPT ![d] = new]
    BY <1>1 DEF new
  <2>5. index' \in [Drafts -> IndexSet] /\ index'[d] = new /\ \A c \in Drafts \ {d} : index'[c] = index[c]
    BY <1>1, <2>3, <2>4
  <2> QED
    BY <1>5, <2>3, <2>5 DEF items, paths
<1> QED
  BY <1>4, <1>5

\* A save covers its revision when the aggregates cover the one before.
LEMMA AppendCovers ==
  ASSUME TypeOK, IndexCovers, NEW d \in Drafts, NEW cat \in SUBSET (Items \X Paths),
         NEW used \in SUBSET Items, Appends(d, cat, used),
         Adds(d, Latest(d), Latest(d) + 1, cat) \/ index' = index
  PROVE  IndexCovers'
<1> SUFFICES ASSUME NEW c \in Drafts
             PROVE  /\ index'[c].seq =< Latest(c)'
                    /\ \A n \in Retained(c)' : n =< index'[c].seq =>
                         /\ ItemsOf(revs'[c][n].cat) \subseteq index'[c].items
                         /\ PathsOf(revs'[c][n].cat) \subseteq index'[c].paths
  BY DEF IndexCovers, ItemsOf, PathsOf
<1>1. /\ index[c].seq =< Latest(c)
      /\ \A n \in Retained(c) : n =< index[c].seq =>
           ItemsOf(revs[c][n].cat) \subseteq index[c].items /\ PathsOf(revs[c][n].cat) \subseteq index[c].paths
  BY DEF IndexCovers
<1>2. Latest(c) \in Nat /\ Latest(d) \in Nat /\ index[c].seq \in Nat /\ Latest(d) = Len(revs[d])
  BY RevisionType, IndexType
<1>3. Latest(c)' = IF c = d THEN Latest(d) + 1 ELSE Latest(c)
  BY AppendRevs DEF Latest
<1>4. CASE index'[c] = index[c]
  <2>1. index'[c].seq =< Latest(c)'
    BY <1>1, <1>2, <1>3, <1>4
  <2>2. ASSUME NEW n \in Retained(c)', n =< index'[c].seq
        PROVE  n \in Retained(c) /\ revs'[c][n].cat = revs[c][n].cat
    BY <1>1, <1>2, <1>4, <2>2, AppendRetained
  <2> QED
    BY <1>1, <1>4, <2>1, <2>2
<1>5. CASE index'[c] # index[c]
  <2>1. c = d /\ Adds(d, Latest(d), Latest(d) + 1, cat)
    BY <1>2, <1>5, AddsIndex
  <2>2. /\ index[d].seq = Latest(d) /\ index'[d].seq = Latest(d) + 1
        /\ index'[d].items = index[d].items \cup ItemsOf(cat)
        /\ index'[d].paths = index[d].paths \cup PathsOf(cat)
    BY <1>2, <1>5, <2>1, AddsIndex
  <2>3. ASSUME NEW n \in Retained(d)'
        PROVE  /\ ItemsOf(revs'[d][n].cat) \subseteq index'[d].items
               /\ PathsOf(revs'[d][n].cat) \subseteq index'[d].paths
    <3>1. CASE n \in Retained(d) /\ revs'[d][n].cat = revs[d][n].cat
      <4>1. n =< Latest(d)
        BY <3>1, RevisionType DEF Retained
      <4> QED
        BY <1>1, <2>1, <2>2, <3>1, <4>1
    <3>2. CASE revs'[d][n].cat = cat
      BY <2>2, <3>2
    <3> QED
      BY <3>1, <3>2, AppendRetained
  <2> QED
    BY <1>2, <1>3, <2>1, <2>2, <2>3
<1> QED
  BY <1>4, <1>5

\* Nothing moves back by that, whether the aggregates take it in or not.
LEMMA AppendGoesOn ==
  ASSUME TypeOK, NEW d \in Drafts, NEW cat \in SUBSET (Items \X Paths), NEW used \in SUBSET Items,
         Appends(d, cat, used), \A c \in Drafts \ {d} : rows'[c] = rows[c] /\ held'[c] = held[c],
         Adds(d, Latest(d), Latest(d) + 1, cat) \/ index' = index
  PROVE  GoesOn
<1> SUFFICES ASSUME NEW c \in Drafts
             PROVE  /\ Len(revs[c]) =< Len(revs'[c])
                    /\ \A n \in DOMAIN revs[c] : /\ revs'[c][n].cat = revs[c][n].cat
                                                 /\ revs'[c][n].kept => revs[c][n].kept
                    /\ Len(revs'[c]) = Len(revs[c]) => rows'[c] = rows[c] /\ held'[c] = held[c]
                    /\ index[c].gen =< index'[c].gen
                    /\ index'[c].gen = index[c].gen => index[c].seq =< index'[c].seq
                    /\ index'[c].gen = index[c].gen /\ index'[c].seq = index[c].seq => index'[c] = index[c]
  BY DEF GoesOn
<1>1. /\ index[c].gen =< index'[c].gen
      /\ index'[c].gen = index[c].gen => index[c].seq =< index'[c].seq
      /\ index'[c].gen = index[c].gen /\ index'[c].seq = index[c].seq => index'[c] = index[c]
  <2>1. CASE index' = index
    BY <2>1, IndexType
  <2>2. CASE Adds(d, Latest(d), Latest(d) + 1, cat)
    <3>1. Latest(d) \in Nat /\ Latest(d) + 1 \in Nat /\ Latest(d) < Latest(d) + 1
      BY RevisionType
    <3> QED
      BY <2>2, <3>1, AddsIndex, IndexType
  <2> QED
    BY <2>1, <2>2
<1>2. CASE c = d
  <2>1. Len(revs'[d]) = Len(revs[d]) + 1 /\ Len(revs[d]) \in Nat
    BY AppendRevs, RevisionType
  <2>2. \A n \in DOMAIN revs[d] : revs'[d][n] = revs[d][n]
    BY AppendRevs
  <2> QED
    BY <1>1, <1>2, <2>1, <2>2
<1>3. CASE c # d
  <2>1. revs'[c] = revs[c] /\ rows'[c] = rows[c] /\ held'[c] = held[c]
    BY <1>3, AppendRevs
  <2>2. Len(revs[c]) \in Nat
    BY RevisionType
  <2> QED
    BY <1>1, <2>1, <2>2
<1> QED
  BY <1>2, <1>3

\* Every image of what is retained has its binary or is shared, if what is new has, and if the
\* binaries that go are bound to nothing that is retained.
LEMMA BoundOrSharedKept ==
  ASSUME TypeOK, BoundOrShared, NEW d \in Drafts, NEW gone, NEW own, StoresFor(d, gone, own),
         shared' = shared,
         \A n \in Retained(d) : \A e \in revs[d][n].cat : \A a \in gone : <<e[2], a>> \notin bound[d],
         \A c \in Drafts : \A n \in Retained(c)' :
           \/ n \in Retained(c) /\ revs'[c][n].cat = revs[c][n].cat
           \/ /\ c = d
              /\ \A e \in revs'[c][n].cat :
                   \/ e[2] \in shared \/ e[2] \in own
                   \/ \E a \in DOMAIN assets : a \notin gone /\ <<e[2], a>> \in bound[d]
  PROVE  BoundOrShared'
<1> SUFFICES ASSUME NEW c \in Drafts, NEW n \in Retained(c)', NEW e \in revs'[c][n].cat,
                    e[2] \notin shared
             PROVE  \E a \in DOMAIN assets' : <<e[2], a>> \in bound'[c]
  BY DEF BoundOrShared
<1>1. DOMAIN assets \subseteq DOMAIN assets'
  BY Numbers
<1>2. ASSUME NEW a \in DOMAIN assets, <<e[2], a>> \in bound[c], c = d => a \notin gone
      PROVE  <<e[2], a>> \in bound'[c]
  BY <1>2 DEF StoresFor
<1>3. CASE n \in Retained(c) /\ revs'[c][n].cat = revs[c][n].cat
  <2>1. PICK a \in DOMAIN assets : <<e[2], a>> \in bound[c]
    BY <1>3 DEF BoundOrShared
  <2>2. c = d => a \notin gone
    BY <1>3, <2>1
  <2> QED
    BY <1>1, <1>2, <2>1, <2>2
<1>4. CASE c = d /\ \/ e[2] \in own
                    \/ \E a \in DOMAIN assets : a \notin gone /\ <<e[2], a>> \in bound[d]
  <2>1. CASE e[2] \in own
    BY <1>4, <2>1 DEF StoresFor
  <2>2. CASE \E a \in DOMAIN assets : a \notin gone /\ <<e[2], a>> \in bound[d]
    BY <1>1, <1>2, <1>4, <2>2
  <2> QED
    BY <1>4, <2>1, <2>2
<1> QED
  BY <1>3, <1>4

-----------------------------------------------------------------------------
(* A save, whatever it is for: it names what its draft names already, or a *)
(* binary that it stores itself; each of its images is shared, bound to a  *)
(* binary that stays, or new; and the binaries that go are bound to no     *)
(* path that a retained revision names.                                    *)

Saves(d, cat, used, batch, gone, own) ==
  /\ cat \in SUBSET (Items \X Paths) /\ used \in SUBSET Items /\ batch \in Batches
  /\ OfDraftOnly(d, gone) /\ Store(d, batch, gone)
  /\ Appends(d, cat, used) /\ Adds(d, Latest(d), Latest(d) + 1, cat)
  /\ \A a \in own : \E k \in 1..Len(batch) : a = Len(assets) + k /\ batch[k].for = None
  /\ \A e \in cat : e \in Named(d) \/ e[2] \in own
  /\ \A e \in cat : \/ e[2] \in shared \/ e[2] \in own
                    \/ \E a \in DOMAIN assets : a \notin gone /\ <<e[2], a>> \in bound[d]
  /\ \A n \in Retained(d) : \A e \in revs[d][n].cat : \A a \in gone : <<e[2], a>> \notin bound[d]
  /\ rows' \in [Drafts -> SUBSET RowSet] /\ \A c \in Drafts \ {d} : rows'[c] = rows[c]
  /\ \A r \in rows'[d] : <<r.item, r.path>> \in Named(d) \/ r.path = None \/ r.path \in own
  /\ held' \in [Drafts -> SUBSET (Items \X Nat)] /\ \A c \in Drafts \ {d} : held'[c] = held[c]
  /\ \A h \in held'[d] : \/ h \in held[d] \/ h[2] \in own
                         \/ \E p : <<h[1], p>> \in Named(d) /\ <<p, h[2]>> \in bound[d]
  /\ calls' \subseteq calls /\ world' = world /\ shared' = shared
  /\ discarded \subseteq discarded' /\ \A a \in gone : assets[a].bytes \in discarded'

LEMMA SaveType ==
  ASSUME TypeOK, NEW d \in Drafts, NEW cat, NEW used, NEW batch, NEW gone, NEW own,
         Saves(d, cat, used, batch, gone, own)
  PROVE  TypeOK' /\ Appends(d, cat, used) /\ Adds(d, Latest(d), Latest(d) + 1, cat)
         /\ StoresFor(d, gone, own) /\ NamesGrow(d, own) /\ GoesOn
<1>1. /\ cat \in SUBSET (Items \X Paths) /\ used \in SUBSET Items /\ batch \in Batches
      /\ OfDraftOnly(d, gone)
  BY DEF Saves
<1>2. Appends(d, cat, used) /\ Adds(d, Latest(d), Latest(d) + 1, cat) /\ Store(d, batch, gone)
  BY DEF Saves
<1>3. StoresFor(d, gone, own)
  BY <1>1, <1>2, StoreStoresFor DEF Saves
<1>4. Latest(d) \in Nat /\ Latest(d) < Latest(d) + 1
  BY RevisionType
<1>5. TypeOK'
  <2>1. revs' \in [Drafts -> Seq(RevisionSet)]
    BY <1>1, <1>2, AppendRevs
  <2>2. assets' \in Seq(AssetSet) /\ bound' \in [Drafts -> SUBSET (Paths \X Nat)]
    BY <1>3 DEF StoresFor
  <2>3. index' \in [Drafts -> IndexSet]
    BY <1>1, <1>2, <1>4, AddsIndex
  <2>4. migration' \in LedgerSet
    BY <1>2, StoreLedger
  <2>5. rows' \in [Drafts -> SUBSET RowSet] /\ held' \in [Drafts -> SUBSET (Items \X Nat)]
        /\ world' = world /\ shared' = shared
    BY DEF Saves
  <2> QED
    BY <2>1, <2>2, <2>3, <2>4, <2>5 DEF TypeOK
<1>6. NamesGrow(d, own)
  <2>1. ASSUME NEW c \in Drafts, NEW e \in Named(c)'
        PROVE  e \in Named(c) \/ e[2] = None \/ (c = d /\ e[2] \in own)
    <3>1. CASE c = d /\ e \in cat
      BY <3>1 DEF Saves
    <3>2. CASE c = d /\ \E r \in rows'[d] : e = <<r.item, r.path>>
      BY <3>2 DEF Saves
    <3>3. e \in Named(c) \/ (c = d /\ (e \in cat \/ \E r \in rows'[d] : e = <<r.item, r.path>>))
      BY <1>1, <1>2, AppendNames DEF Saves
    <3> QED
      BY <3>1, <3>2, <3>3
  <2>2. ASSUME NEW c \in Drafts, NEW h \in held'[c]
        PROVE  \/ h \in held[c]
               \/ c = d /\ h[2] \in own
               \/ c = d /\ \E p : <<h[1], p>> \in Named(d) /\ <<p, h[2]>> \in bound[d]
    BY DEF Saves
  <2> QED
    BY <2>1, <2>2 DEF NamesGrow
<1>7. GoesOn
  <2>1. \A c \in Drafts \ {d} : rows'[c] = rows[c] /\ held'[c] = held[c]
    BY DEF Saves
  <2> QED
    BY <1>1, <1>2, <2>1, AppendGoesOn
<1> QED
  BY <1>2, <1>3, <1>5, <1>6, <1>7

LEMMA SaveKeeps ==
  ASSUME LibraryInv, NEW d \in Drafts, NEW cat, NEW used, NEW batch, NEW gone, NEW own,
         Saves(d, cat, used, batch, gone, own)
  PROVE  LibraryInv'
<1>1. TypeOK /\ Bindings
  BY DEF LibraryInv, Bindings
<1>2. TypeOK' /\ Appends(d, cat, used) /\ Adds(d, Latest(d), Latest(d) + 1, cat)
      /\ StoresFor(d, gone, own) /\ NamesGrow(d, own) /\ GoesOn
  BY <1>1, SaveType
<1>3. /\ cat \in SUBSET (Items \X Paths) /\ used \in SUBSET Items /\ OfDraftOnly(d, gone)
      /\ Store(d, batch, gone) /\ calls' \subseteq calls /\ world' = world /\ shared' = shared
  BY DEF Saves
<1>4. Bindings'
  BY <1>1, <1>2, <1>3, BindingsKept
<1>5. LatestKept'
  BY <1>1, <1>2, <1>3, AppendLatest DEF LibraryInv
<1>6. IndexCovers'
  BY <1>1, <1>2, <1>3, AppendCovers DEF LibraryInv
<1>7. BoundOrShared'
  <2>1. \A c \in Drafts : \A n \in Retained(c)' :
           \/ n \in Retained(c) /\ revs'[c][n].cat = revs[c][n].cat
           \/ c = d /\ revs'[c][n].cat = cat
    BY <1>1, <1>2, <1>3, AppendRetained
  <2>2. \A e \in cat : \/ e[2] \in shared \/ e[2] \in own
                       \/ \E a \in DOMAIN assets : a \notin gone /\ <<e[2], a>> \in bound[d]
    BY DEF Saves
  <2>3. \A n \in Retained(d) : \A e \in revs[d][n].cat : \A a \in gone : <<e[2], a>> \notin bound[d]
    BY DEF Saves
  <2>4. \A c \in Drafts : \A n \in Retained(c)' :
           \/ n \in Retained(c) /\ revs'[c][n].cat = revs[c][n].cat
           \/ /\ c = d
              /\ \A e \in revs'[c][n].cat :
                   \/ e[2] \in shared \/ e[2] \in own
                   \/ \E a \in DOMAIN assets : a \notin gone /\ <<e[2], a>> \in bound[d]
    BY <2>1, <2>2
  <2> QED
    BY <1>1, <1>2, <1>3, <2>3, <2>4, BoundOrSharedKept DEF LibraryInv
<1>8. LedgerTrue'
  <2>1. migration'.verified \subseteq migration.verified /\ migration'.recovered \subseteq migration.recovered
    BY <1>1, <1>3, StoreLedger
  <2> QED
    BY <1>1, <1>2, <2>1, LedgerKept DEF LibraryInv
<1>9. BytesAccounted'
  <2>1. discarded \subseteq discarded' /\ \A a \in gone : assets[a].bytes \in discarded'
    BY DEF Saves
  <2> QED
    BY <1>1, <1>2, <1>3, <2>1, BytesKept DEF LibraryInv
<1>10. CallsHold'
  BY <1>1, <1>2, <1>3, CallsKept DEF LibraryInv
<1> QED
  BY <1>2, <1>4, <1>5, <1>6, <1>7, <1>8, <1>9, <1>10 DEF LibraryInv, Bindings

\* The images that a save copies are shared ones, each bound to the path that it had.
LEMMA CopiesFit ==
  ASSUME TypeOK, NEW d \in Drafts, NEW cat, NEW fresh, Saveable(d, cat, fresh)
  PROVE  Copies(d, cat, fresh) \in Batches
<1> DEFINE S == Unbound(d, cat) \ fresh
<1>1. S \subseteq Uploads /\ IsFiniteSet(S)
  <2>1. S \subseteq Uploads
    BY SharedIsUploads DEF Saveable
  <2> QED
    BY <2>1, LibraryAssumption, FS_Subset
<1>2. Cardinality(S) \in Nat /\ SetToSeq(S) \in [1..Cardinality(S) -> S]
  BY <1>1, SetToSeqLists
<1> DEFINE L == SetToSeq(S)
           n == Cardinality(S)
           R == [bytes : Bytes, for : Uploads \cup {None}]
<1>3. Copies(d, cat, fresh) = [k \in 1..n |-> Copy(L[k])]
  BY DEF Copies
<1> HIDE DEF L, n
<1>4. n \in Nat /\ \A k \in 1..n : L[k] \in Uploads
  BY <1>1, <1>2 DEF L, n
<1>5. ASSUME NEW k \in 1..n
      PROVE  Copy(L[k]) \in R /\ Copy(L[k]).bytes = Copy(L[k]).for
  BY <1>4 DEF Copy, Bytes
<1>6. [k \in 1..n |-> Copy(L[k])] \in Seq(R)
  BY <1>4, <1>5
<1> QED
  BY <1>3, <1>4, <1>5, <1>6 DEF Batches

LEMMA UploadFits ==
  ASSUME NEW b \in Images
  PROVE  <<Upload(b)>> \in Batches /\ Len(<<Upload(b)>>) = 1 /\ <<Upload(b)>>[1].for = None
<1>1. Upload(b) \in [bytes : Bytes, for : Uploads \cup {None}] /\ Upload(b).for = None
  BY DEF Upload, Bytes
<1>2. <<Upload(b)>> \in Seq([bytes : Bytes, for : Uploads \cup {None}])
      /\ Len(<<Upload(b)>>) = 1 /\ <<Upload(b)>>[1] = Upload(b) /\ DOMAIN <<Upload(b)>> = {1}
  BY <1>1
<1> QED
  BY <1>1, <1>2 DEF Batches

LEMMA NothingFits == <<>> \in Batches /\ Len(<<>>) = 0
<1>1. <<>> \in Seq([bytes : Bytes, for : Uploads \cup {None}]) /\ DOMAIN <<>> = {} /\ Len(<<>>) = 0
  OBVIOUS
<1> QED
  BY <1>1 DEF Batches

LEMMA SaveableBound ==
  ASSUME TypeOK, NEW d \in Drafts, NEW cat, NEW fresh, Saveable(d, cat, fresh), NEW e \in cat
  PROVE  e[2] \in fresh \/ e[2] \in shared \/ \E a \in DOMAIN assets : <<e[2], a>> \in bound[d]
<1>1. e[2] \in PathsOf(cat)
  BY DEF PathsOf
<1> QED
  BY <1>1 DEF Saveable, Unbound, BoundTo

LEMMA LatestDoc ==
  ASSUME TypeOK, LatestKept, NEW d \in Drafts, Exists(d)
  PROVE  /\ Doc(d).cat \in SUBSET (Items \X Paths) /\ Doc(d).used \in SUBSET Items
         /\ Doc(d).cat \subseteq Named(d)
         /\ Latest(d) \in Retained(d) /\ Doc(d) = revs[d][Latest(d)]
BY RevisionType DEF Doc, LatestKept, Retained

\* A command that is about to write: its draft, its item, and what its save does.
LEMMA AtHolds ==
  ASSUME LibraryInv, NEW c \in calls, NEW action, At(c, action)
  PROVE  /\ c.draft \in Drafts /\ Exists(c.draft) /\ CommandHolds(c) /\ c.m.action = action
         /\ action \in {"upload", "replace"} => c.m.bytes \in Images
         /\ action \in OfItem =>
              /\ c.m.item \in Items /\ <<c.m.item, PathOf(c.draft, c.m.item)>> \in Named(c.draft)
              /\ PathOf(c.draft, c.m.item) \in Paths \cup {None}
<1>1. CommandHolds(c)
  BY DEF LibraryInv, CallsHold, CallHolds, At
<1>2. c.draft \in Drafts /\ Exists(c.draft)
  BY <1>1 DEF CommandHolds, CommandCall
<1>3. c.m.action = action /\ c.base = Latest(c.draft)
  BY DEF At
<1>4. action \in OfItem => c.m.item \in Listed(c.draft)
  BY <1>1, <1>3 DEF CommandHolds
<1> QED
  BY <1>1, <1>2, <1>3, <1>4, PathOfNames DEF LibraryInv, CommandHolds

Whole(d, cat, batch) == batch \o Copies(d, cat, {Len(assets) + k : k \in DOMAIN batch})
Available(d, cat, batch) ==
  \A e \in cat : \/ e[2] \in shared \/ \E a \in DOMAIN assets : <<e[2], a>> \in bound[d]
                 \/ \E k \in 1..Len(batch) : e[2] = Len(assets) + k
LEMMA SaveFits ==
  ASSUME LibraryInv, NEW c, c.draft \in Drafts, Exists(c.draft), NEW cat, NEW batch \in Batches, NEW gone,
         Save(c, cat, batch, gone)
  PROVE  /\ Write(c.draft, cat, Doc(c.draft).used, Whole(c.draft, cat, batch), gone)
         /\ Whole(c.draft, cat, batch) \in Batches /\ Doc(c.draft).used \in SUBSET Items
         /\ Len(batch) =< Len(Whole(c.draft, cat, batch))
         /\ \A k \in 1..Len(batch) : /\ k \in 1..Len(Whole(c.draft, cat, batch))
                                      /\ Whole(c.draft, cat, batch)[k] = batch[k]
         /\ Available(c.draft, cat, batch)
         /\ calls' \subseteq calls
<1> DEFINE d == c.draft
           fresh == {Len(assets) + k : k \in DOMAIN batch}
           more == Copies(d, cat, fresh)
<1>1. Saveable(d, cat, fresh) /\ Write(d, cat, Doc(d).used, batch \o more, gone) /\ calls' \subseteq calls
  BY DEF Save, Ends
<1>2. TypeOK /\ LatestKept
  BY DEF LibraryInv
<1>3. more \in Batches
  BY <1>1, <1>2, CopiesFit
<1>4. \A e \in cat : e[2] \in fresh \/ e[2] \in shared \/ \E a \in DOMAIN assets : <<e[2], a>> \in bound[d]
  BY <1>1, <1>2, SaveableBound
<1>5. DOMAIN batch = 1..Len(batch) /\ Len(batch) \in Nat /\ Len(more) \in Nat
  BY <1>3, BatchType
<1>6. \A p \in fresh : \E k \in 1..Len(batch) : p = Len(assets) + k
  BY <1>5
<1> HIDE DEF more, fresh
<1>7. batch \o more \in Batches /\ Len(batch \o more) = Len(batch) + Len(more)
      /\ \A k \in 1..Len(batch) : (batch \o more)[k] = batch[k]
  BY <1>3, BatchesAppend
<1>8. Len(batch) =< Len(batch \o more) /\ \A k \in 1..Len(batch) : k \in 1..Len(batch \o more)
  BY <1>5, <1>7
<1>9. Doc(d).used \in SUBSET Items
  BY <1>2, LatestDoc
<1> QED
  BY <1>1, <1>4, <1>6, <1>7, <1>8, <1>9 DEF Whole, Available, more, fresh

LEMMA SetRowSets ==
  ASSUME TypeOK, NEW d \in Drafts, NEW i \in Items, NEW p \in Paths \cup {None}, NEW archived \in BOOLEAN,
         SetRow(d, i, p, archived)
  PROVE  /\ rows' \in [Drafts -> SUBSET RowSet] /\ \A c \in Drafts \ {d} : rows'[c] = rows[c]
         /\ \A r \in rows'[d] : r \in rows[d] \/ (r.item = i /\ r.path = p)
<1> DEFINE new == [item |-> i, path |-> p, archived |-> archived]
           set == (rows[d] \ Row(d, i)) \cup {new}
<1>1. new \in RowSet /\ new.item = i /\ new.path = p
  BY DEF RowSet
<1>2. rows \in [Drafts -> SUBSET RowSet] /\ rows' = [rows EXCEPT ![d] = set]
  BY DEF TypeOK, SetRow
<1> HIDE DEF new
<1>3. set \in SUBSET RowSet /\ \A r \in set : r \in rows[d] \/ r = new
  BY <1>1, <1>2
<1> HIDE DEF set
<1>4. rows'[d] = set /\ rows' \in [Drafts -> SUBSET RowSet] /\ \A c \in Drafts \ {d} : rows'[c] = rows[c]
  BY <1>2, <1>3
<1> QED
  BY <1>1, <1>3, <1>4

-----------------------------------------------------------------------------
(* Each kind of save is one. *)

\* A save without an image of its own.
LEMMA PlainSaves ==
  ASSUME LibraryInv, NEW c, c.draft \in Drafts, Exists(c.draft),
         NEW cat \in SUBSET (Items \X Paths), cat \subseteq Named(c.draft), Save(c, cat, <<>>, {}),
         rows' \in [Drafts -> SUBSET RowSet], \A d \in Drafts \ {c.draft} : rows'[d] = rows[d],
         \A r \in rows'[c.draft] : <<r.item, r.path>> \in Named(c.draft) \/ r.path = None,
         UNCHANGED <<world, held, shared, discarded>>
  PROVE  LibraryInv'
<1> DEFINE d == c.draft
           whole == Whole(d, cat, <<>>)
<1>1. /\ Write(d, cat, Doc(d).used, whole, {}) /\ whole \in Batches /\ Doc(d).used \in SUBSET Items
      /\ Available(d, cat, <<>>) /\ calls' \subseteq calls
  BY SaveFits, NothingFits
<1> HIDE DEF whole
<1>2. \A e \in cat : e[2] \in shared \/ \E a \in DOMAIN assets : <<e[2], a>> \in bound[d]
  <2>1. \A k \in 1..Len(<<>>) : FALSE
    BY NothingFits
  <2> QED
    BY <1>1, <2>1 DEF Available
<1>3. held \in [Drafts -> SUBSET (Items \X Nat)]
  BY DEF LibraryInv, TypeOK
<1>4. Saves(d, cat, Doc(d).used, whole, {}, {})
  BY <1>1, <1>2, <1>3 DEF Saves, OfDraftOnly, Write, Appends, Adds
<1> QED
  BY <1>4, SaveKeeps

\* A save with an image of an item.
LEMMA ImageSaves ==
  ASSUME LibraryInv, NEW c, c.draft \in Drafts, Exists(c.draft), NEW b \in Images, NEW i \in Items,
         NEW cat \in SUBSET (Items \X Paths), \A e \in cat : e \in Named(c.draft) \/ e[2] = New,
         Save(c, cat, <<Upload(b)>>, {}), SetRow(c.draft, i, New, FALSE),
         held' \in [Drafts -> SUBSET (Items \X Nat)], \A d \in Drafts \ {c.draft} : held'[d] = held[d],
         \A h \in held'[c.draft] :
           \/ h \in held[c.draft] \/ h[2] = New
           \/ \E p : <<h[1], p>> \in Named(c.draft) /\ <<p, h[2]>> \in bound[c.draft],
         UNCHANGED <<world, shared, discarded>>
  PROVE  LibraryInv'
<1> DEFINE d == c.draft
           one == <<Upload(b)>>
           whole == Whole(d, cat, one)
<1>1. one \in Batches /\ Len(one) = 1 /\ one[1].for = None
  BY UploadFits
<1> HIDE DEF one
<1>2. /\ Write(d, cat, Doc(d).used, whole, {}) /\ whole \in Batches /\ Doc(d).used \in SUBSET Items
      /\ Len(one) =< Len(whole) /\ \A k \in 1..Len(one) : k \in 1..Len(whole) /\ whole[k] = one[k]
      /\ Available(d, cat, one) /\ calls' \subseteq calls
  <2>1. Save(c, cat, one, {})
    BY DEF one
  <2>2. LibraryInv /\ c.draft \in Drafts /\ Exists(c.draft) /\ one \in Batches
    BY <1>1
  <2> HIDE DEF d
  <2>3. Write(c.draft, cat, Doc(c.draft).used, Whole(c.draft, cat, one), {}) /\ calls' \subseteq calls
    BY <2>1, <2>2, SaveFits
  <2>4. Whole(c.draft, cat, one) \in Batches /\ Doc(c.draft).used \in SUBSET Items
        /\ Available(c.draft, cat, one)
    BY <2>1, <2>2, SaveFits
  <2>5. Len(one) =< Len(Whole(c.draft, cat, one))
        /\ \A k \in 1..Len(one) : /\ k \in 1..Len(Whole(c.draft, cat, one))
                                   /\ Whole(c.draft, cat, one)[k] = one[k]
    BY <2>1, <2>2, SaveFits, SMTT(30)
  <2> QED
    BY <2>3, <2>4, <2>5 DEF d
<1> HIDE DEF whole
<1>3. 1 \in 1..Len(whole) /\ whole[1].for = None
  BY <1>1, <1>2
<1>4. \A e \in cat : \/ e[2] \in shared \/ e[2] \in {New}
                     \/ \E a \in DOMAIN assets : a \notin {} /\ <<e[2], a>> \in bound[d]
  BY <1>1, <1>2 DEF New, Available
<1>5. \A a \in {New} : \E k \in 1..Len(whole) : a = Len(assets) + k /\ whole[k].for = None
  BY <1>3 DEF New
<1>6. New \in Paths
  BY AssetType, UploadsAreNoNumbers DEF LibraryInv, New, Paths, None
<1>7. /\ rows' \in [Drafts -> SUBSET RowSet] /\ \A a \in Drafts \ {d} : rows'[a] = rows[a]
      /\ \A r \in rows'[d] : r \in rows[d] \/ (r.item = i /\ r.path = New)
  <2>1. TypeOK /\ d \in Drafts /\ New \in Paths \cup {None} /\ FALSE \in BOOLEAN
    BY <1>6 DEF LibraryInv
  <2> QED
    <3>1. PICK p \in Paths \cup {None}, archived \in BOOLEAN : p = New /\ archived = FALSE
      BY <2>1
    <3>2. SetRow(d, i, p, archived)
      BY <3>1
    <3>3. /\ rows' \in [Drafts -> SUBSET RowSet] /\ \A a \in Drafts \ {d} : rows'[a] = rows[a]
          /\ \A r \in rows'[d] : r \in rows[d] \/ (r.item = i /\ r.path = p)
      BY <2>1, <3>2, SetRowSets
    <3> QED
      BY <3>1, <3>3
<1>8. \A r \in rows'[d] : <<r.item, r.path>> \in Named(d) \/ r.path = None \/ r.path \in {New}
  BY <1>7, NamedType DEF LibraryInv
<1>9. \A e \in cat : e \in Named(d) \/ e[2] \in {New}
  OBVIOUS
<1>10. \A h \in held'[d] : \/ h \in held[d] \/ h[2] \in {New}
                           \/ \E p : <<h[1], p>> \in Named(d) /\ <<p, h[2]>> \in bound[d]
  OBVIOUS
<1>11. Saves(d, cat, Doc(d).used, whole, {}, {New})
  BY <1>2, <1>4, <1>5, <1>7, <1>8, <1>9, <1>10 DEF Saves, OfDraftOnly, Write, Appends, Adds
<1> QED
  BY <1>11, SaveKeeps

LEMMA EditorSaveKeeps ==
  ASSUME LibraryInv, NEW d \in Drafts, NEW cat, NEW used, EditorSave(d, cat, used)
  PROVE  LibraryInv'
<1>1. Exists(d) /\ Saveable(d, cat, {}) /\ Write(d, cat, used, Copies(d, cat, {}), {})
      /\ UNCHANGED <<world, rows, held, shared, calls, discarded>>
  BY DEF EditorSave
<1>2. TypeOK /\ LatestKept
  BY DEF LibraryInv
<1>3. cat \in SUBSET (Items \X Paths) /\ used \in SUBSET Items /\ cat \subseteq Named(d)
  <2>1. CASE cat = Doc(d).cat /\ used \in SUBSET ItemsOf(cat)
    <3>1. cat \in SUBSET (Items \X Paths) /\ cat \subseteq Named(d)
      BY <1>1, <1>2, <2>1, LatestDoc
    <3>2. ItemsOf(cat) \subseteq Items
      BY <3>1 DEF ItemsOf
    <3> QED
      BY <2>1, <3>1, <3>2
  <2>2. CASE \E n \in Retained(d) : cat = revs[d][n].cat /\ used = revs[d][n].used
    BY <1>2, <2>2, RevisionType DEF Retained
  <2> QED
    BY <2>1, <2>2 DEF EditorSave
<1>4. Copies(d, cat, {}) \in Batches
  BY <1>1, <1>2, CopiesFit
<1>5. \A e \in cat : e[2] \in shared \/ \E a \in DOMAIN assets : <<e[2], a>> \in bound[d]
  BY <1>1, <1>2, SaveableBound
<1>6. rows \in [Drafts -> SUBSET RowSet] /\ held \in [Drafts -> SUBSET (Items \X Nat)]
      /\ \A r \in rows[d] : <<r.item, r.path>> \in Named(d)
  BY <1>2, NamedType DEF TypeOK
<1> DEFINE batch == Copies(d, cat, {})
<1> HIDE DEF batch
<1>7. Saves(d, cat, used, batch, {}, {})
  BY <1>1, <1>3, <1>4, <1>5, <1>6 DEF Saves, OfDraftOnly, Write, Appends, Adds, batch
<1> QED
  BY <1>7, SaveKeeps

LEMMA SaveUploadKeeps ==
  ASSUME LibraryInv, NEW c \in calls, NEW i \in Items, SaveUpload(c, i)
  PROVE  LibraryInv'
<1> DEFINE d == c.draft
           cat == Doc(d).cat \cup {<<i, New>>}
<1>1. /\ At(c, "upload") /\ Save(c, cat, <<Upload(c.m.bytes)>>, {}) /\ SetRow(d, i, New, FALSE)
      /\ held' = [held EXCEPT ![d] = @ \cup {<<i, New>>}] /\ UNCHANGED <<world, shared, discarded>>
  BY DEF SaveUpload
<1>2. d \in Drafts /\ Exists(d) /\ c.m.bytes \in Images
  BY <1>1, AtHolds
<1>3. New \in Nat /\ New # None
  BY AssetType DEF LibraryInv, New, None
<1>4. Doc(d).cat \in SUBSET (Items \X Paths) /\ Doc(d).cat \subseteq Named(d)
  BY <1>2, LatestDoc DEF LibraryInv
<1>5. cat \in SUBSET (Items \X Paths) /\ \A e \in cat : e \in Named(d) \/ e[2] = New
  BY <1>3, <1>4 DEF Paths
<1>6. held \in [Drafts -> SUBSET (Items \X Nat)]
  BY DEF LibraryInv, TypeOK
<1>7. /\ held' \in [Drafts -> SUBSET (Items \X Nat)] /\ \A a \in Drafts \ {d} : held'[a] = held[a]
      /\ \A h \in held'[d] : h \in held[d] \/ h[2] = New
  BY <1>1, <1>2, <1>3, <1>6
<1> HIDE DEF cat
<1> QED
  BY <1>1, <1>2, <1>5, <1>7, ImageSaves

LEMMA SaveReplaceKeeps ==
  ASSUME LibraryInv, NEW c \in calls, SaveReplace(c)
  PROVE  LibraryInv'
<1> DEFINE d == c.draft
           i == c.m.item
           p == PathOf(d, i)
           cat == Other(Doc(d).cat, i) \cup {<<i, New>>}
           more == {<<i, a>> : a \in BoundTo(d, p)}
<1>1. /\ At(c, "replace") /\ Save(c, cat, <<Upload(c.m.bytes)>>, {}) /\ SetRow(d, i, New, FALSE)
      /\ held' = [held EXCEPT ![d] = @ \cup {<<i, New>>} \cup more] /\ UNCHANGED <<world, shared, discarded>>
  BY DEF SaveReplace
<1>2. d \in Drafts /\ Exists(d) /\ c.m.bytes \in Images /\ i \in Items /\ <<i, p>> \in Named(d)
  BY <1>1, AtHolds DEF OfItem
<1>3. New \in Nat /\ New # None
  BY AssetType DEF LibraryInv, New, None
<1>4. Doc(d).cat \in SUBSET (Items \X Paths) /\ Doc(d).cat \subseteq Named(d)
  BY <1>2, LatestDoc DEF LibraryInv
<1>5. cat \in SUBSET (Items \X Paths) /\ \A e \in cat : e \in Named(d) \/ e[2] = New
  BY <1>2, <1>3, <1>4 DEF Paths, Other
<1>6. held \in [Drafts -> SUBSET (Items \X Nat)]
  BY DEF LibraryInv, TypeOK
<1>7. \A h \in more : h \in Items \X Nat /\ h[1] = i /\ <<p, h[2]>> \in bound[d]
  <2>1. \A a \in BoundTo(d, p) : a \in Nat /\ <<p, a>> \in bound[d]
    BY AssetType DEF BoundTo, LibraryInv
  <2> SUFFICES ASSUME NEW a \in BoundTo(d, p)
               PROVE  <<i, a>> \in Items \X Nat /\ <<i, a>>[1] = i /\ <<p, <<i, a>>[2]>> \in bound[d]
    BY Zenon
  <2> QED
    BY <1>2, <2>1
<1> HIDE DEF cat, more, p
<1>8. /\ held' \in [Drafts -> SUBSET (Items \X Nat)] /\ \A a \in Drafts \ {d} : held'[a] = held[a]
      /\ \A h \in held'[d] : h \in held[d] \/ h[2] = New \/ h \in more
  <2> DEFINE set == held[d] \cup {<<i, New>>} \cup more
  <2>1. set \in SUBSET (Items \X Nat) /\ \A h \in set : h \in held[d] \/ h[2] = New \/ h \in more
    <3>1. <<i, New>> \in Items \X Nat /\ <<i, New>>[2] = New /\ held[d] \in SUBSET (Items \X Nat)
      BY <1>2, <1>3, <1>6
    <3> QED
      BY <1>7, <3>1
  <2>2. held' = [held EXCEPT ![d] = set]
    BY <1>1
  <2> HIDE DEF set
  <2> QED
    BY <1>2, <1>6, <2>1, <2>2
<1>9. \A h \in held'[d] : \/ h \in held[d] \/ h[2] = New
                          \/ \E q : <<h[1], q>> \in Named(d) /\ <<q, h[2]>> \in bound[d]
  BY <1>2, <1>7, <1>8
<1> QED
  BY <1>1, <1>2, <1>5, <1>8, <1>9, ImageSaves

LEMMA SaveLinkKeeps ==
  ASSUME LibraryInv, NEW c \in calls, NEW i \in Items, SaveLink(c, i)
  PROVE  LibraryInv'
<1> DEFINE d == c.draft
<1>1. /\ At(c, "link") /\ Save(c, Doc(d).cat, <<>>, {}) /\ SetRow(d, i, None, FALSE)
      /\ UNCHANGED <<world, held, shared, discarded>>
  BY DEF SaveLink
<1>2. d \in Drafts /\ Exists(d)
  BY <1>1, AtHolds
<1>3. Doc(d).cat \in SUBSET (Items \X Paths) /\ Doc(d).cat \subseteq Named(d)
  BY <1>2, LatestDoc DEF LibraryInv
<1>4. /\ rows' \in [Drafts -> SUBSET RowSet] /\ \A a \in Drafts \ {d} : rows'[a] = rows[a]
      /\ \A r \in rows'[d] : r \in rows[d] \/ (r.item = i /\ r.path = None)
  BY <1>1, <1>2, SetRowSets DEF LibraryInv
<1>5. \A r \in rows'[d] : <<r.item, r.path>> \in Named(d) \/ r.path = None
  BY <1>2, <1>4, NamedType DEF LibraryInv
<1> QED
  BY <1>1, <1>2, <1>3, <1>4, <1>5, PlainSaves

\* Saves that write the row of an item again, with the path that it has.
LEMMA RowSaves ==
  ASSUME LibraryInv, NEW c \in calls, NEW action \in OfItem, At(c, action),
         NEW cat, \A e \in cat : e \in Doc(c.draft).cat \/ (e = <<c.m.item, PathOf(c.draft, c.m.item)>> /\ e[2] # None),
         Save(c, cat, <<>>, {}), NEW archived \in BOOLEAN,
         SetRow(c.draft, c.m.item, PathOf(c.draft, c.m.item), archived),
         UNCHANGED <<world, held, shared, discarded>>
  PROVE  LibraryInv'
<1> DEFINE d == c.draft
           i == c.m.item
           p == PathOf(d, i)
<1>1. d \in Drafts /\ Exists(d) /\ i \in Items /\ <<i, p>> \in Named(d) /\ p \in Paths \cup {None}
  BY AtHolds
<1>2. Doc(d).cat \in SUBSET (Items \X Paths) /\ Doc(d).cat \subseteq Named(d)
  BY <1>1, LatestDoc DEF LibraryInv
<1> HIDE DEF p
<1>3. cat \in SUBSET (Items \X Paths) /\ cat \subseteq Named(d)
  BY <1>1, <1>2 DEF p
<1>4. /\ rows' \in [Drafts -> SUBSET RowSet] /\ \A a \in Drafts \ {d} : rows'[a] = rows[a]
      /\ \A r \in rows'[d] : r \in rows[d] \/ (r.item = i /\ r.path = p)
  <2>1. TypeOK /\ SetRow(d, i, p, archived)
    BY DEF LibraryInv, p
  <2> QED
    BY <1>1, <2>1, SetRowSets
<1>5. \A r \in rows'[d] : <<r.item, r.path>> \in Named(d) \/ r.path = None
  BY <1>1, <1>4, NamedType DEF LibraryInv
<1> QED
  BY <1>1, <1>3, <1>4, <1>5, PlainSaves

LEMMA SaveUpdateKeeps ==
  ASSUME LibraryInv, NEW c \in calls, SaveUpdate(c)
  PROVE  LibraryInv'
<1>1. Archived(c.draft, c.m.item) \in BOOLEAN
  BY DEF Archived
<1>2. "update" \in OfItem
  BY DEF OfItem
<1> QED
  BY <1>1, <1>2, RowSaves DEF SaveUpdate

LEMMA SaveArchiveKeeps ==
  ASSUME LibraryInv, NEW c \in calls, SaveArchive(c)
  PROVE  LibraryInv'
<1> DEFINE d == c.draft
           i == c.m.item
           cat == IF i \in Doc(d).used THEN Doc(d).cat ELSE Other(Doc(d).cat, i)
<1>1. "archive" \in OfItem /\ \A e \in cat : e \in Doc(d).cat
  BY DEF OfItem, Other
<1>2. At(c, "archive") /\ Save(c, cat, <<>>, {}) /\ SetRow(d, i, PathOf(d, i), TRUE)
      /\ UNCHANGED <<world, held, shared, discarded>>
  BY DEF SaveArchive
<1> HIDE DEF cat
<1> QED
  BY <1>1, <1>2, RowSaves

LEMMA SaveUnarchiveKeeps ==
  ASSUME LibraryInv, NEW c \in calls, SaveUnarchive(c)
  PROVE  LibraryInv'
<1> DEFINE d == c.draft
           i == c.m.item
           cat == IF i \in ItemsOf(Doc(d).cat) \/ Linked(PathOf(d, i)) THEN Doc(d).cat
                  ELSE Doc(d).cat \cup {<<i, PathOf(d, i)>>}
<1>1. "unarchive" \in OfItem
      /\ \A e \in cat : e \in Doc(d).cat \/ (e = <<i, PathOf(d, i)>> /\ e[2] # None)
  BY DEF OfItem, Linked
<1>2. At(c, "unarchive") /\ Save(c, cat, <<>>, {}) /\ SetRow(d, i, PathOf(d, i), FALSE)
      /\ UNCHANGED <<world, held, shared, discarded>>
  BY DEF SaveUnarchive
<1> HIDE DEF cat
<1> QED
  BY <1>1, <1>2, RowSaves

-----------------------------------------------------------------------------
(* The deletion. *)

\* The binaries of an item that no retained revision names, and whose path and collected
\* binaries none names either, are bound to nothing that a retained revision names.
LEMMA VersionsAreFree ==
  ASSUME LibraryInv, NEW c, c.draft \in Drafts, Unnamed(c),
         <<c.m.item, PathOf(c.draft, c.m.item)>> \in Named(c.draft),
         NEW n \in Retained(c.draft), NEW e \in revs[c.draft][n].cat,
         NEW a \in Versions(c.draft, c.m.item), <<e[2], a>> \in bound[c.draft]
  PROVE  FALSE
<1> DEFINE d == c.draft
           i == c.m.item
           q == PathOf(d, i)
<1>1. e \in Named(d)
  BY RevisionType DEF LibraryInv, Retained
<1>2. e[1] # i /\ e[2] # q /\ <<i, e[2]>> \notin held[d]
  BY DEF Unnamed
<1>3. <<q, a>> \in bound[d] \/ <<i, a>> \in held[d]
  BY DEF Versions
<1>4. IF e[2] \in Uploads THEN assets[a].bytes = e[2] ELSE e[2] = a
  BY DEF LibraryInv, BoundTruly
<1> HIDE DEF q
<1>5. <<i, q>> \in Named(d)
  BY DEF q
<1>6. CASE <<q, a>> \in bound[d]
  <2>1. IF q \in Uploads THEN assets[a].bytes = q ELSE q = a
    BY <1>6 DEF LibraryInv, BoundTruly
  <2>2. CASE e[2] \in Uploads /\ q \notin Uploads
    <3>1. \A f \in Named(d) : f[2] # a
      BY <2>2 DEF LibraryInv, CopiesUnnamed
    <3> QED
      BY <1>5, <2>1, <2>2, <3>1
  <2>3. CASE e[2] \notin Uploads /\ q \in Uploads
    <3>1. \A f \in Named(d) : f[2] # a
      BY <1>6, <2>3 DEF LibraryInv, CopiesUnnamed
    <3> QED
      BY <1>1, <1>4, <2>3, <3>1
  <2> QED
    BY <1>2, <1>4, <2>1, <2>2, <2>3
<1>7. CASE <<i, a>> \in held[d]
  <2>1. CASE e[2] \in Uploads
    BY <1>1, <1>2, <1>7, <2>1 DEF LibraryInv, HeldByOwner
  <2>2. CASE e[2] \notin Uploads
    BY <1>2, <1>4, <1>7, <2>2
  <2> QED
    BY <2>1, <2>2
<1> QED
  BY <1>3, <1>6, <1>7

LEMMA SaveDeleteKeeps ==
  ASSUME LibraryInv, NEW c \in calls, SaveDelete(c)
  PROVE  LibraryInv'
<1> DEFINE d == c.draft
           i == c.m.item
           gone == Versions(d, i)
           cat == Doc(d).cat
<1>1. /\ At(c, "delete") /\ Save(c, cat, <<>>, gone)
      /\ rows' = [rows EXCEPT ![d] = @ \ Row(d, i)]
      /\ held' = [held EXCEPT ![d] = {e \in @ : e[2] \notin gone}]
      /\ discarded' = discarded \cup {assets[a].bytes : a \in gone}
      /\ UNCHANGED <<world, shared>>
  BY DEF SaveDelete
<1>2. d \in Drafts /\ Exists(d) /\ CommandHolds(c) /\ <<i, PathOf(d, i)>> \in Named(d)
  BY <1>1, AtHolds DEF OfItem
<1>3. TypeOK /\ LatestKept
  BY DEF LibraryInv
<1>4. cat \in SUBSET (Items \X Paths) /\ cat \subseteq Named(d) /\ Latest(d) \in Retained(d)
      /\ cat = revs[d][Latest(d)].cat
  BY <1>2, <1>3, LatestDoc
<1>5. Unnamed(c)
  BY <1>1, <1>2 DEF CommandHolds, At
<1>6. \A n \in Retained(d) : \A e \in revs[d][n].cat : \A a \in gone : <<e[2], a>> \notin bound[d]
  BY <1>2, <1>5, VersionsAreFree
<1>7. OfDraftOnly(d, gone)
  BY DEF OfDraftOnly, Versions
<1>8. rows' \in [Drafts -> SUBSET RowSet] /\ (\A x \in Drafts \ {d} : rows'[x] = rows[x])
      /\ \A r \in rows'[d] : <<r.item, r.path>> \in Named(d)
  <2>1. rows \in [Drafts -> SUBSET RowSet] /\ \A r \in rows[d] : <<r.item, r.path>> \in Named(d)
    BY <1>2, <1>3, NamedType DEF TypeOK
  <2> QED
    BY <1>1, <1>2, <2>1
<1>9. \A a \in gone : assets[a].bytes \in discarded'
  BY <1>1
<1>10. discarded \subseteq discarded'
  BY <1>1
<1> HIDE DEF gone
<1>11. held' \in [Drafts -> SUBSET (Items \X Nat)] /\ (\A x \in Drafts \ {d} : held'[x] = held[x])
       /\ \A h \in held'[d] : h \in held[d]
  <2>1. held \in [Drafts -> SUBSET (Items \X Nat)]
    BY <1>3 DEF TypeOK
  <2> QED
    BY <1>1, <1>2, <2>1
<1> DEFINE whole == Whole(d, cat, <<>>)
<1>12. /\ Write(d, cat, Doc(d).used, whole, gone) /\ whole \in Batches /\ Doc(d).used \in SUBSET Items
       /\ Available(d, cat, <<>>) /\ calls' \subseteq calls
  BY <1>1, <1>2, SaveFits, NothingFits
<1>13. \A e \in cat : e[2] \in shared \/ \E a \in DOMAIN assets : a \notin gone /\ <<e[2], a>> \in bound[d]
  <2>1. \A k \in 1..Len(<<>>) : FALSE
    BY NothingFits
  <2>2. \A e \in cat : e[2] \in shared \/ \E a \in DOMAIN assets : <<e[2], a>> \in bound[d]
    BY <1>12, <2>1 DEF Available
  <2>3. \A e \in cat : \A a \in gone : <<e[2], a>> \notin bound[d]
    BY <1>4, <1>6
  <2> QED
    BY <2>2, <2>3
<1> HIDE DEF whole, cat
<1>14. Saves(d, cat, Doc(d).used, whole, gone, {})
  BY <1>1, <1>4, <1>6, <1>7, <1>8, <1>9, <1>10, <1>11, <1>12, <1>13 DEF Saves, Write, Appends, Adds
<1> QED
  BY <1>2, <1>14, SaveKeeps

-----------------------------------------------------------------------------
(* Steps that only look: a handler begins, goes on or ends.                *)

LEMMA LooksKeep ==
  ASSUME LibraryInv, UNCHANGED <<world, revs, assets, bound, rows, held, index, ledger, discarded>>,
         \A c \in calls' : c \in calls \/ CallHolds(c)
  PROVE  LibraryInv'
<1>1. /\ world' = world /\ revs' = revs /\ assets' = assets /\ bound' = bound /\ rows' = rows
      /\ held' = held /\ index' = index /\ shared' = shared /\ migration' = migration
      /\ discarded' = discarded
  BY DEF ledger
<1>2. TypeOK /\ TypeOK'
  BY <1>1 DEF LibraryInv, TypeOK
<1>3. GoesOn
  <2> SUFFICES ASSUME NEW d \in Drafts
               PROVE  Len(revs[d]) =< Len(revs[d]) /\ index[d].gen =< index[d].gen
                      /\ index[d].seq =< index[d].seq
    BY <1>1 DEF GoesOn
  <2> QED
    BY <1>2, RevisionType, IndexType
<1>4. CallsHold'
  <2>1. \A c \in calls' : c \in calls \/ CallHolds(c)'
    BY <1>2, <1>3, CallKept
  <2> QED
    BY <1>2, <1>3, <2>1, CallsKept DEF LibraryInv
<1>5. \A d \in Drafts : Named(d)' = Named(d) /\ Retained(d)' = Retained(d) /\ Latest(d)' = Latest(d)
      /\ Exists(d)' = Exists(d)
  BY <1>1 DEF Named, NamedBy, Retained, Latest, Exists
<1>6. LatestKept'
  BY <1>1, <1>5 DEF LibraryInv, LatestKept
<1>7. PathsKnown'
  BY <1>1, <1>5 DEF LibraryInv, PathsKnown
<1>8. BoundTruly' /\ CopiesUnnamed'
  BY <1>1, <1>5 DEF LibraryInv, BoundTruly, CopiesUnnamed
<1>9. OneItem' /\ HeldByOwner'
  BY <1>1, <1>5 DEF LibraryInv, OneItem, HeldByOwner
<1>10. IndexCovers'
  BY <1>1, <1>5 DEF LibraryInv, IndexCovers
<1>11. BoundOrShared' /\ LedgerTrue' /\ BytesAccounted'
  BY <1>1, <1>5 DEF LibraryInv, BoundOrShared, LedgerTrue, BytesAccounted
<1> QED
  BY <1>2, <1>4, <1>6, <1>7, <1>8, <1>9, <1>10, <1>11 DEF LibraryInv

LEMMA BeginBackfillKeeps ==
  ASSUME LibraryInv, NEW d \in Drafts, BeginBackfill(d)
  PROVE  LibraryInv'
<1> DEFINE ahead == {n \in Retained(d) : n > index[d].seq}
           n == CHOOSE m \in ahead : \A k \in ahead : m =< k
           c == [op |-> "backfill", draft |-> d, seq |-> index[d].seq, gen |-> index[d].gen, next |-> n]
<1>1. ahead # {} /\ calls' = calls \cup {c}
      /\ UNCHANGED <<world, revs, assets, bound, rows, held, index, ledger, discarded>>
  BY DEF BeginBackfill, Waits
<1>2. TypeOK
  BY DEF LibraryInv
<1>3. ahead \in SUBSET Nat /\ Retained(d) \subseteq DOMAIN revs[d] /\ DOMAIN revs[d] \subseteq Nat
  BY <1>2, RevisionType DEF Retained
<1>4. \E m \in ahead : \A k \in ahead : m =< k
  BY <1>1, <1>3, Smallest
<1>5. n \in ahead /\ \A k \in ahead : n =< k
  BY <1>4
<1> HIDE DEF n
<1>6. n \in DOMAIN revs[d] /\ n \in Nat /\ index[d].seq \in Nat /\ index[d].gen \in Nat /\ index[d].seq < n
  BY <1>2, <1>3, <1>5, IndexType
<1>7. ASSUME NEW k \in Retained(d), index[d].seq < k, k < n
      PROVE  FALSE
  <2>1. k \in Nat /\ k \in ahead
    BY <1>3, <1>6, <1>7
  <2> QED
    BY <1>5, <1>6, <1>7, <2>1
<1>8. c.op = "backfill" /\ c.draft = d /\ c.seq = index[d].seq /\ c.gen = index[d].gen /\ c.next = n
  OBVIOUS
<1> HIDE DEF c
<1>9. BackfillHolds(c)
  BY <1>6, <1>7, <1>8 DEF BackfillHolds
<1>10. CallHolds(c)
  BY <1>8, <1>9 DEF CallHolds
<1> QED
  BY <1>1, <1>10, LooksKeep

\* The images of a document are finitely many, for a path is an upload or the number of a binary.
LEMMA FewPaths ==
  ASSUME LibraryInv, NEW d \in Drafts, Exists(d)
  PROVE  IsFiniteSet(PathsOf(Doc(d).cat))
<1>1. Doc(d).cat \in SUBSET (Items \X Paths) /\ Doc(d).cat \subseteq Named(d)
  BY LatestDoc DEF LibraryInv
<1>2. \A e \in Named(d) : e[2] \in Uploads \cup DOMAIN assets \cup {None}
  BY DEF LibraryInv, PathsKnown
<1>3. PathsOf(Doc(d).cat) \subseteq Uploads \cup 0..Len(assets)
  <2>1. DOMAIN assets = 1..Len(assets) /\ Len(assets) \in Nat
    BY AssetType DEF LibraryInv
  <2>2. DOMAIN assets \cup {None} \subseteq 0..Len(assets)
    BY <2>1 DEF None
  <2>3. \A e \in Doc(d).cat : e[2] \in Uploads \cup 0..Len(assets)
    BY <1>1, <1>2, <2>2
  <2> QED
    BY <2>3 DEF PathsOf
<1>4. IsFiniteSet(0..Len(assets))
  <2>1. Len(assets) \in Nat
    BY AssetType DEF LibraryInv
  <2> QED
    BY <2>1, FS_Interval
<1>5. IsFiniteSet(Uploads \cup 0..Len(assets))
  BY <1>4, LibraryAssumption, FS_Union
<1> QED
  BY <1>3, <1>5, FS_Subset

LEMMA BeginCopyKeeps ==
  ASSUME LibraryInv, NEW d \in Drafts, BeginCopy(d)
  PROVE  LibraryInv'
<1> DEFINE cat == Doc(d).cat
           bytes == [p \in PathsOf(cat) |-> {assets[a].bytes : a \in BoundTo(d, p)}]
           c == [op |-> "copy", draft |-> d, cat |-> cat, used |-> Doc(d).used, bytes |-> bytes]
<1>1. Exists(d) /\ Unbound(d, cat) = {} /\ calls' = calls \cup {c}
      /\ UNCHANGED <<world, revs, assets, bound, rows, held, index, ledger, discarded>>
  BY DEF BeginCopy, Waits
<1>2. cat \in SUBSET (Items \X Paths) /\ Doc(d).used \in SUBSET Items /\ IsFiniteSet(PathsOf(cat))
  BY <1>1, LatestDoc, FewPaths DEF LibraryInv
<1>3. \A a \in DOMAIN assets : assets[a].bytes \in Bytes
  BY AssetType DEF LibraryInv, AssetSet
<1>4. ASSUME NEW p \in PathsOf(cat)
      PROVE  bytes[p] \in SUBSET Bytes /\ bytes[p] # {}
  <2> DEFINE S == {assets[a].bytes : a \in BoundTo(d, p)}
  <2>1. BoundTo(d, p) \subseteq DOMAIN assets /\ BoundTo(d, p) # {}
    BY <1>1 DEF Unbound, BoundTo
  <2>2. PICK a \in BoundTo(d, p) : TRUE
    BY <2>1
  <2>3. S \in SUBSET Bytes /\ assets[a].bytes \in S
    BY <1>3, <2>1, <2>2
  <2>4. bytes[p] = S
    BY Zenon
  <2> HIDE DEF S, bytes
  <2> QED
    BY <2>3, <2>4
<1>5. c.op = "copy" /\ c.cat = cat /\ c.used = Doc(d).used /\ c.bytes = bytes
  OBVIOUS
<1> HIDE DEF c, bytes, cat
<1>6. CopyHolds(c)
  BY <1>2, <1>4, <1>5 DEF CopyHolds
<1>7. CallHolds(c)
  BY <1>5, <1>6 DEF CallHolds
<1> QED
  BY <1>1, <1>7, LooksKeep

LEMMA ListedItems ==
  ASSUME LibraryInv, NEW d \in Drafts
  PROVE  Listed(d) \subseteq Items
<1>1. \A r \in rows[d] : r.item \in Items
  BY DEF LibraryInv, TypeOK, RowSet
<1>2. Exists(d) => \A e \in Doc(d).cat : e[1] \in Items
  BY LatestDoc DEF LibraryInv
<1> QED
  BY <1>1, <1>2 DEF Listed, ItemsOf

LEMMA BeginCommandKeeps ==
  ASSUME LibraryInv, NEW d \in Drafts, NEW m \in Actions(d), BeginCommand(d, m)
  PROVE  LibraryInv'
<1> DEFINE c == [op |-> "command", draft |-> d, m |-> m, base |-> Latest(d), gen |-> index[d].gen,
                 step |-> "read", items |-> {}, paths |-> {}, versions |-> {}]
<1>1. /\ Exists(d) /\ index[d].seq = Latest(d) /\ calls' = calls \cup {c}
      /\ UNCHANGED <<world, revs, assets, bound, rows, held, index, ledger, discarded>>
  BY DEF BeginCommand, Waits, Covers
<1>2. /\ m \in Asked
      /\ m.action \in {"upload", "replace"} => m.bytes \in Images
      /\ m.action \in OfItem => m.item \in Listed(d) /\ m.item \in Items
  <2> DEFINE L == Listed(d)
  <2>1. L \subseteq Items
    BY ListedItems
  <2>2. \/ \E b \in Images : m = Command("upload", None, b)
        \/ m = Command("link", None, None)
        \/ m \in [action : {"archive", "unarchive", "update", "delete"}, item : L, bytes : {None}]
        \/ m \in [action : {"replace"}, item : L, bytes : Images]
    BY DEF Actions
  <2> HIDE DEF L
  <2>3. CASE \E b \in Images : m = Command("upload", None, b)
    BY <2>3 DEF Command, Asked, OfItem
  <2>4. CASE m = Command("link", None, None)
    BY <2>4 DEF Command, Asked, OfItem
  <2>5. CASE m \in [action : {"archive", "unarchive", "update", "delete"}, item : L, bytes : {None}]
    BY <2>1, <2>5 DEF Asked, OfItem, L
  <2>6. CASE m \in [action : {"replace"}, item : L, bytes : Images]
    BY <2>1, <2>6 DEF Asked, OfItem, L
  <2> QED
    BY <2>2, <2>3, <2>4, <2>5, <2>6
<1>3. Latest(d) \in Nat /\ index[d].gen \in Nat
  BY RevisionType, IndexType DEF LibraryInv
<1>4. c \in CommandCall
  BY <1>2, <1>3 DEF CommandCall
<1>5. c.op = "command" /\ c.draft = d /\ c.m = m /\ c.base = Latest(d) /\ c.gen = index[d].gen /\ c.step = "read"
  OBVIOUS
<1> HIDE DEF c
<1>6. CommandHolds(c)
  BY <1>1, <1>2, <1>3, <1>4, <1>5 DEF CommandHolds
<1>7. CallHolds(c)
  BY <1>5, <1>6 DEF CallHolds
<1> QED
  BY <1>1, <1>7, LooksKeep

LEMMA ReadHistoryKeeps ==
  ASSUME LibraryInv, NEW c \in calls, ReadHistory(c)
  PROVE  LibraryInv'
<1> DEFINE d == c.draft
           e == [c EXCEPT !.step = "recheck", !.items = index[d].items, !.paths = index[d].paths]
<1>1. /\ c.op = "command" /\ calls' = (calls \ {c}) \cup {e}
      /\ UNCHANGED <<world, revs, assets, bound, rows, held, index, ledger, discarded>>
  BY DEF ReadHistory, Goes
<1>2. CommandHolds(c) /\ c \in CommandCall /\ d \in Drafts
  BY <1>1 DEF LibraryInv, CallsHold, CallHolds, CommandHolds, CommandCall
<1>3. index[d].items \in SUBSET Items /\ index[d].paths \in SUBSET Paths
  BY <1>2, IndexType DEF LibraryInv
<1>4. /\ e \in CommandCall /\ e.draft = c.draft /\ e.m = c.m /\ e.base = c.base /\ e.gen = c.gen
      /\ e.step = "recheck" /\ e.items = index[d].items /\ e.paths = index[d].paths /\ e.op = c.op
  BY <1>2, <1>3 DEF CommandCall
<1> HIDE DEF e
<1>5. CommandHolds(e)
  BY <1>2, <1>4 DEF CommandHolds
<1>6. CallHolds(e)
  BY <1>1, <1>4, <1>5 DEF CallHolds
<1> QED
  BY <1>1, <1>6, LooksKeep

\* The second look of a deletion vouches for what the first one read.
LEMMA LooksVouch ==
  ASSUME LibraryInv, NEW c, CommandHolds(c), Latest(c.draft) = c.base, Unchanged(c), c.step # "read",
         ~ Blocked(c)
  PROVE  Unnamed(c)
<1> DEFINE d == c.draft
           i == c.m.item
<1>1. d \in Drafts /\ c.base \in Nat
  BY DEF CommandHolds, CommandCall
<1>2. index[d].seq = c.base /\ index[d].gen = c.gen
  BY DEF Unchanged, Covers
<1>3. c.items = index[d].items /\ c.paths = index[d].paths
  BY <1>2 DEF CommandHolds
<1>4. ASSUME NEW n \in Retained(d), NEW e \in revs[d][n].cat
      PROVE  e[1] \in c.items /\ e[2] \in c.paths
  <2>1. n =< index[d].seq
    BY <1>1, <1>2, RevisionType DEF Retained, LibraryInv
  <2>2. ItemsOf(revs[d][n].cat) \subseteq index[d].items /\ PathsOf(revs[d][n].cat) \subseteq index[d].paths
    BY <1>1, <2>1 DEF LibraryInv, IndexCovers
  <2>3. e[1] \in ItemsOf(revs[d][n].cat) /\ e[2] \in PathsOf(revs[d][n].cat)
    BY DEF ItemsOf, PathsOf
  <2> QED
    BY <1>3, <2>2, <2>3
<1>5. None \notin c.paths
  <2>1. c.paths \in SUBSET Paths
    BY <1>1, <1>3, IndexType DEF LibraryInv
  <2> QED
    BY <2>1, UploadsAreNoNumbers DEF Paths, None
<1>6. i \notin c.items /\ PathOf(d, i) \notin c.paths /\ \A a \in c.paths : <<i, a>> \notin held[d]
  BY <1>5 DEF Blocked
<1> QED
  BY <1>4, <1>6 DEF Unnamed

LEMMA RecheckKeeps ==
  ASSUME LibraryInv, NEW c \in calls, Recheck(c)
  PROVE  LibraryInv'
<1> DEFINE d == c.draft
           vs == IF c.m.action = "delete" THEN Versions(d, c.m.item) ELSE {}
           e == [c EXCEPT !.step = "write", !.versions = vs]
           good == Latest(d) = c.base /\ Unchanged(c) /\ Acceptable(c)
<1>1. /\ c.op = "command" /\ c.step = "recheck"
      /\ UNCHANGED <<world, revs, assets, bound, rows, held, index, ledger, discarded>>
      /\ calls' = IF good THEN (calls \ {c}) \cup {e} ELSE calls \ {c}
  BY DEF Recheck, Goes, Ends
<1>2. CommandHolds(c) /\ c \in CommandCall /\ d \in Drafts
  BY <1>1 DEF LibraryInv, CallsHold, CallHolds, CommandHolds, CommandCall
<1>3. vs \in SUBSET Nat
  BY AssetType DEF Versions, LibraryInv
<1> HIDE DEF vs
<1>4. /\ e \in CommandCall /\ e.draft = c.draft /\ e.m = c.m /\ e.base = c.base /\ e.gen = c.gen
      /\ e.step = "write" /\ e.items = c.items /\ e.paths = c.paths /\ e.op = c.op
  BY <1>2, <1>3 DEF CommandCall
<1> HIDE DEF e
<1>5. CASE good
  <2>1. c.m.action = "delete" => Unnamed(c)
    <3>1. c.m.action = "delete" => ~ Blocked(c)
      BY <1>5 DEF Acceptable
    <3> QED
      BY <1>1, <1>2, <1>5, <3>1, LooksVouch
  <2>2. c.m.action = "delete" => Unnamed(e)
    BY <1>4, <2>1 DEF Unnamed
  <2>3. CommandHolds(e)
    BY <1>1, <1>2, <1>4, <2>2 DEF CommandHolds
  <2>4. CallHolds(e)
    BY <1>1, <1>4, <2>3 DEF CallHolds
  <2> QED
    BY <1>1, <1>5, <2>4, LooksKeep
<1>6. CASE ~ good
  BY <1>1, <1>6, LooksKeep
<1> QED
  BY <1>5, <1>6

LEMMA AbandonKeeps ==
  ASSUME LibraryInv, NEW c \in calls, Abandon(c)
  PROVE  LibraryInv'
BY LooksKeep DEF Abandon, Ends

LEMMA BeginRecoverKeeps ==
  ASSUME LibraryInv, NEW u \in Uploads, BeginRecover(u)
  PROVE  LibraryInv'
<1> DEFINE cat == IF Exists(Recovery) THEN Doc(Recovery).cat ELSE {}
           c == [op |-> "recover", upload |-> u, base |-> Latest(Recovery), cat |-> cat]
<1>1. /\ calls' = calls \cup {c}
      /\ UNCHANGED <<world, revs, assets, bound, rows, held, index, ledger, discarded>>
  BY DEF BeginRecover, Waits
<1>2. c.op = "recover" /\ c.upload = u /\ c.base = Latest(Recovery) /\ c.cat = cat
  OBVIOUS
<1> HIDE DEF c
<1>3. Recovery \in Drafts
  BY LibraryAssumption
<1>4. Latest(Recovery) \in Nat /\ (Exists(Recovery) <=> Latest(Recovery) # 0)
  BY <1>3, RevisionType DEF LibraryInv
<1>5. cat = IF Latest(Recovery) = 0 THEN {} ELSE revs[Recovery][Latest(Recovery)].cat
  BY <1>4 DEF Doc
<1> HIDE DEF cat
<1>6. RecoverHolds(c)
  BY <1>2, <1>4, <1>5 DEF RecoverHolds
<1>7. CallHolds(c)
  BY <1>2, <1>6 DEF CallHolds
<1> QED
  BY <1>1, <1>7, LooksKeep

-----------------------------------------------------------------------------
(* Steps between the saves: retention, the aggregates and the copies of    *)
(* the conversion.                                                         *)

LEMMA StillNamed ==
  ASSUME TypeOK, UNCHANGED <<revs, rows, held, index>>, NEW d, NEW own
  PROVE  /\ GoesOn /\ NamesGrow(d, own)
         /\ \A c \in Drafts : Named(c)' = Named(c) /\ Retained(c)' = Retained(c) /\ Latest(c)' = Latest(c)
                              /\ Exists(c)' = Exists(c)
<1>1. revs' = revs /\ rows' = rows /\ held' = held /\ index' = index
  OBVIOUS
<1>2. GoesOn
  <2> SUFFICES ASSUME NEW c \in Drafts
               PROVE  Len(revs[c]) =< Len(revs[c]) /\ index[c].gen =< index[c].gen
                      /\ index[c].seq =< index[c].seq
    BY <1>1 DEF GoesOn
  <2> QED
    BY RevisionType, IndexType
<1>3. \A c \in Drafts : Named(c)' = Named(c) /\ Retained(c)' = Retained(c) /\ Latest(c)' = Latest(c)
                        /\ Exists(c)' = Exists(c)
  BY <1>1 DEF Named, NamedBy, Retained, Latest, Exists
<1>4. NamesGrow(d, own)
  BY <1>1, <1>3 DEF NamesGrow
<1> QED
  BY <1>2, <1>3, <1>4

\* A step that stores binaries for a draft, and moves nothing but the ledger besides.
LEMMA StoringKeeps ==
  ASSUME LibraryInv, NEW d \in Drafts, NEW own, StoresFor(d, {}, own),
         UNCHANGED <<world, revs, rows, held, index, shared, calls, discarded>>, migration' \in LedgerSet,
         \A v \in migration'.verified :
           \/ v \in migration.verified
           \/ v[2] \in Uploads => v[3] \in DOMAIN assets' /\ assets'[v[3]].bytes = v[2],
         \A r \in migration'.recovered : r \in migration.recovered
  PROVE  LibraryInv'
<1>1. /\ world' = world /\ revs' = revs /\ rows' = rows /\ held' = held /\ index' = index
      /\ shared' = shared /\ calls' = calls /\ discarded' = discarded
  OBVIOUS
<1>2. TypeOK /\ Bindings /\ OfDraftOnly(d, {})
  BY DEF LibraryInv, Bindings, OfDraftOnly
<1>3. TypeOK'
  BY <1>1, <1>2 DEF TypeOK, StoresFor
<1>4. /\ GoesOn /\ NamesGrow(d, own)
      /\ \A c \in Drafts : Named(c)' = Named(c) /\ Retained(c)' = Retained(c) /\ Latest(c)' = Latest(c)
                           /\ Exists(c)' = Exists(c)
  BY <1>2, StillNamed
<1>5. Bindings'
  BY <1>2, <1>4, BindingsKept
<1>6. LatestKept'
  BY <1>1, <1>4 DEF LibraryInv, LatestKept
<1>7. IndexCovers'
  BY <1>1, <1>4 DEF LibraryInv, IndexCovers
<1>8. BoundOrShared'
  <2>1. \A c \in Drafts : \A n \in Retained(c)' : n \in Retained(c) /\ revs'[c][n].cat = revs[c][n].cat
    BY <1>1, <1>4
  <2> QED
    BY <1>1, <1>2, <2>1, BoundOrSharedKept DEF LibraryInv
<1>9. LedgerTrue'
  <2>1. \A a \in DOMAIN assets : a \in DOMAIN assets' /\ assets'[a].bytes = assets[a].bytes
    BY <1>2, Numbers DEF StoresFor
  <2> QED
    BY <2>1 DEF LibraryInv, LedgerTrue
<1>10. BytesAccounted'
  BY <1>1, <1>2, BytesKept DEF LibraryInv
<1>11. CallsHold'
  BY <1>1, <1>2, <1>3, <1>4, CallsKept DEF LibraryInv
<1> QED
  BY <1>3, <1>5, <1>6, <1>7, <1>8, <1>9, <1>10, <1>11 DEF LibraryInv, Bindings

LEMMA MaterializeKeeps ==
  ASSUME LibraryInv, NEW d \in Drafts, NEW p \in Uploads, Materialize(d, p)
  PROVE  LibraryInv'
<1>1. Store(d, <<Copy(p)>>, {}) /\ UNCHANGED <<world, revs, rows, held, index, shared, calls, discarded>>
  BY DEF Materialize
<1>2. <<Copy(p)>> \in Batches
  <2>1. Copy(p) \in [bytes : Bytes, for : Uploads \cup {None}] /\ Copy(p).bytes = Copy(p).for
    BY DEF Copy, Bytes
  <2> HIDE DEF Copy
  <2>2. <<Copy(p)>> \in Seq([bytes : Bytes, for : Uploads \cup {None}])
        /\ <<Copy(p)>>[1] = Copy(p) /\ DOMAIN <<Copy(p)>> = {1}
    BY <2>1
  <2> QED
    BY <2>1, <2>2 DEF Batches
<1> DEFINE batch == <<Copy(p)>>
<1> HIDE DEF batch
<1>3. TypeOK /\ OfDraftOnly(d, {}) /\ Store(d, batch, {}) /\ batch \in Batches
  BY <1>1, <1>2 DEF LibraryInv, OfDraftOnly, batch
<1>4. StoresFor(d, {}, {})
  BY <1>3, StoreStoresFor
<1>5. /\ migration' \in LedgerSet /\ migration'.verified \subseteq migration.verified
      /\ migration'.recovered \subseteq migration.recovered
  BY <1>3, StoreLedger
<1> QED
  BY <1>1, <1>4, <1>5, StoringKeeps

LEMMA VerifyKeeps ==
  ASSUME LibraryInv, NEW d \in Drafts, NEW p \in Uploads \cup DOMAIN assets, Verify(d, p)
  PROVE  LibraryInv'
<1>1. PICK a \in BoundTo(d, p) :
        /\ p \in Uploads => assets[a].bytes = p
        /\ migration' = [migration EXCEPT !.verified = @ \cup {<<d, p, a>>}]
        /\ UNCHANGED <<world, revs, assets, bound, rows, held, index, shared, calls, discarded>>
  BY DEF Verify
<1>2. TypeOK
  BY DEF LibraryInv
<1>3. a \in DOMAIN assets /\ a \in Nat /\ p \in Paths
  <2>1. a \in DOMAIN assets /\ <<p, a>> \in bound[d]
    BY DEF BoundTo
  <2>2. <<p, a>>[1] = p
    OBVIOUS
  <2> QED
    BY <1>2, <2>1, <2>2, BoundType, AssetType
<1>4. migration'.verified = migration.verified \cup {<<d, p, a>>} /\ migration'.recovered = migration.recovered
      /\ migration' \in LedgerSet
  <2> DEFINE set == migration.verified \cup {<<d, p, a>>}
  <2>1. set \in SUBSET (Drafts \X Paths \X Nat)
    BY <1>2, <1>3, LedgerType
  <2>2. migration' = [migration EXCEPT !.verified = set]
    BY <1>1
  <2> HIDE DEF set
  <2>3. migration' \in LedgerSet /\ migration'.verified = set /\ migration'.recovered = migration.recovered
    BY <1>2, <2>1, <2>2, LedgerType DEF LedgerSet
  <2> QED
    BY <2>3 DEF set
<1>5. StoresFor(d, {}, {})
  BY <1>1, <1>2, StoresNothing
<1>6. \A v \in migration'.verified :
           \/ v \in migration.verified
           \/ v[2] \in Uploads => v[3] \in DOMAIN assets' /\ assets'[v[3]].bytes = v[2]
  BY <1>1, <1>3, <1>4
<1> QED
  BY <1>1, <1>4, <1>5, <1>6, StoringKeeps

\* Retention lets a revision go, and says nothing else of it.
LEMMA PruneRevs ==
  ASSUME TypeOK, NEW d \in Drafts, NEW n \in Retained(d), Prune(d, n)
  PROVE  /\ revs' \in [Drafts -> Seq(RevisionSet)]
         /\ \A c \in Drafts : /\ Len(revs'[c]) = Len(revs[c]) /\ DOMAIN revs'[c] = DOMAIN revs[c]
                              /\ \A m \in DOMAIN revs[c] :
                                   /\ revs'[c][m].cat = revs[c][m].cat
                                   /\ revs'[c][m].kept <=> revs[c][m].kept /\ ~ (c = d /\ m = n)
<1> DEFINE r == [revs[d][n] EXCEPT !.kept = FALSE]
           h == [revs[d] EXCEPT ![n] = r]
<1>1. revs \in [Drafts -> Seq(RevisionSet)] /\ revs' = [revs EXCEPT ![d] = h] /\ n \in DOMAIN revs[d]
  BY DEF TypeOK, Prune, Retained
<1>2. revs[d][n] \in RevisionSet
  BY <1>1, RevisionType
<1>3. r \in RevisionSet /\ r.cat = revs[d][n].cat /\ ~ r.kept
  BY <1>2 DEF RevisionSet
<1> HIDE DEF r
<1>4. revs[d] \in Seq(RevisionSet) /\ Len(revs[d]) \in Nat /\ DOMAIN revs[d] = 1..Len(revs[d])
  BY <1>1
<1>5. h \in Seq(RevisionSet) /\ Len(h) = Len(revs[d]) /\ DOMAIN h = DOMAIN revs[d]
      /\ h[n] = r /\ \A m \in DOMAIN revs[d] \ {n} : h[m] = revs[d][m]
  BY <1>1, <1>3, <1>4
<1> HIDE DEF h
<1>6. revs' \in [Drafts -> Seq(RevisionSet)] /\ revs'[d] = h /\ \A c \in Drafts \ {d} : revs'[c] = revs[c]
  BY <1>1, <1>5
<1>7. ASSUME NEW c \in Drafts
      PROVE  /\ Len(revs'[c]) = Len(revs[c]) /\ DOMAIN revs'[c] = DOMAIN revs[c]
             /\ \A m \in DOMAIN revs[c] :
                  /\ revs'[c][m].cat = revs[c][m].cat
                  /\ revs'[c][m].kept <=> revs[c][m].kept /\ ~ (c = d /\ m = n)
  <2>1. CASE c = d
    <3>1. ASSUME NEW m \in DOMAIN revs[d]
          PROVE  /\ revs'[d][m].cat = revs[d][m].cat
                 /\ revs'[d][m].kept <=> revs[d][m].kept /\ m # n
      <4>1. CASE m = n
        BY <1>3, <1>5, <1>6, <4>1
      <4>2. CASE m # n
        BY <1>5, <1>6, <4>2
      <4> QED
        BY <4>1, <4>2
    <3> QED
      BY <1>5, <1>6, <2>1, <3>1
  <2>2. CASE c # d
    BY <1>6, <2>2
  <2> QED
    BY <2>1, <2>2
<1> QED
  BY <1>6, <1>7

\* The aggregates start again.
LEMMA PruneIndex ==
  ASSUME TypeOK, NEW d \in Drafts, NEW n, Prune(d, n)
  PROVE  /\ index' \in [Drafts -> IndexSet] /\ index'[d].seq = 0 /\ index'[d].gen = index[d].gen + 1
         /\ \A c \in Drafts \ {d} : index'[c] = index[c]
<1> DEFINE x == [seq |-> 0, gen |-> index[d].gen + 1, items |-> {}, paths |-> {}]
<1>1. index \in [Drafts -> IndexSet] /\ index' = [index EXCEPT ![d] = x]
  BY DEF TypeOK, Prune
<1>2. x \in IndexSet /\ x.seq = 0 /\ x.gen = index[d].gen + 1
  BY IndexType DEF IndexSet
<1> HIDE DEF x
<1> QED
  BY <1>1, <1>2

LEMMA PruneKeeps ==
  ASSUME LibraryInv, NEW d \in Drafts, NEW n \in Retained(d), Prune(d, n)
  PROVE  LibraryInv'
<1>1. TypeOK /\ Bindings
  BY DEF LibraryInv, Bindings
<1>2. /\ world' = world /\ assets' = assets /\ bound' = bound /\ rows' = rows /\ held' = held
      /\ shared' = shared /\ migration' = migration /\ calls' = calls /\ discarded' = discarded
      /\ n # Latest(d)
  BY DEF Prune, ledger
<1>3. /\ revs' \in [Drafts -> Seq(RevisionSet)]
      /\ \A c \in Drafts : /\ Len(revs'[c]) = Len(revs[c]) /\ DOMAIN revs'[c] = DOMAIN revs[c]
                           /\ \A m \in DOMAIN revs[c] :
                                /\ revs'[c][m].cat = revs[c][m].cat
                                /\ revs'[c][m].kept <=> revs[c][m].kept /\ ~ (c = d /\ m = n)
  BY <1>1, PruneRevs
<1>4. /\ index' \in [Drafts -> IndexSet] /\ index'[d].seq = 0 /\ index'[d].gen = index[d].gen + 1
      /\ \A c \in Drafts \ {d} : index'[c] = index[c]
  BY <1>1, PruneIndex
<1>5. TypeOK'
  BY <1>1, <1>2, <1>3, <1>4 DEF TypeOK
<1>6. GoesOn
  <2> SUFFICES ASSUME NEW c \in Drafts
               PROVE  /\ Len(revs[c]) =< Len(revs'[c])
                      /\ index[c].gen =< index'[c].gen
                      /\ index'[c].gen = index[c].gen => index[c].seq =< index'[c].seq
                      /\ index'[c].gen = index[c].gen /\ index'[c].seq = index[c].seq => index'[c] = index[c]
    BY <1>2, <1>3 DEF GoesOn
  <2>1. Len(revs[c]) \in Nat /\ index[c].seq \in Nat /\ index[c].gen \in Nat
    BY <1>1, RevisionType, IndexType
  <2> QED
    BY <1>3, <1>4, <2>1
<1>7. \A c \in Drafts : \A m \in Retained(c)' : m \in Retained(c) /\ revs'[c][m].cat = revs[c][m].cat
  BY <1>3 DEF Retained
<1>8. ASSUME NEW c \in Drafts, NEW e \in Named(c)'
      PROVE  e \in Named(c)
  <2>1. e \in NamedBy(revs'[c], rows'[c])
    BY DEF Named
  <2>2. (\E m \in DOMAIN revs'[c] : e \in revs'[c][m].cat) \/ \E r \in rows'[c] : e = <<r.item, r.path>>
    BY <2>1, NamedByIs
  <2> QED
    BY <1>2, <1>3, <2>2, NamedIs
<1>9. NamesGrow(d, {})
  BY <1>2, <1>8 DEF NamesGrow
<1>10. StoresFor(d, {}, {}) /\ OfDraftOnly(d, {})
  BY <1>1, <1>2, StoresNothing
<1>11. Bindings'
  BY <1>1, <1>9, <1>10, BindingsKept
<1>12. LatestKept'
  <2> SUFFICES ASSUME NEW c \in Drafts, Exists(c)'
               PROVE  revs'[c][Latest(c)'].kept
    BY DEF LatestKept
  <2>1. Latest(c)' = Latest(c) /\ Exists(c) /\ Latest(c) \in DOMAIN revs[c]
    BY <1>1, <1>3, <1>5, RevisionType, RevisionTypeNext
  <2> QED
    BY <1>2, <1>3, <2>1 DEF LatestKept, LibraryInv
<1>13. IndexCovers'
  <2> SUFFICES ASSUME NEW c \in Drafts
               PROVE  /\ index'[c].seq =< Latest(c)'
                      /\ \A m \in Retained(c)' : m =< index'[c].seq =>
                           /\ ItemsOf(revs'[c][m].cat) \subseteq index'[c].items
                           /\ PathsOf(revs'[c][m].cat) \subseteq index'[c].paths
    BY DEF IndexCovers, ItemsOf, PathsOf
  <2>1. Latest(c)' = Latest(c) /\ Latest(c) \in Nat
    BY <1>1, <1>3, <1>5, RevisionType, RevisionTypeNext
  <2>2. \A m \in Retained(c)' : m \in Nat /\ m > 0
    BY <1>5, RevisionTypeNext DEF Retained
  <2>3. CASE c = d
    BY <1>4, <2>1, <2>2, <2>3
  <2>4. CASE c # d
    BY <1>4, <1>7, <2>1, <2>4 DEF LibraryInv, IndexCovers
  <2> QED
    BY <2>3, <2>4
<1>14. BoundOrShared'
  BY <1>1, <1>2, <1>7, <1>10, BoundOrSharedKept DEF LibraryInv
<1>15. LedgerTrue' /\ BytesAccounted'
  BY <1>2 DEF LibraryInv, LedgerTrue, BytesAccounted
<1>16. CallsHold'
  BY <1>1, <1>2, <1>5, <1>6, CallsKept DEF LibraryInv
<1> QED
  BY <1>5, <1>11, <1>12, <1>13, <1>14, <1>15, <1>16 DEF LibraryInv, Bindings

LEMMA EndBackfillKeeps ==
  ASSUME LibraryInv, NEW c \in calls, EndBackfill(c)
  PROVE  LibraryInv'
<1> DEFINE d == c.draft
           cat == revs[d][c.next].cat
<1>1. TypeOK /\ Bindings
  BY DEF LibraryInv, Bindings
<1>2. BackfillHolds(c)
  BY DEF LibraryInv, CallsHold, CallHolds, EndBackfill
<1>3. d \in Drafts /\ c.seq \in Nat /\ c.next \in DOMAIN revs[d] /\ c.next \in Nat /\ c.seq < c.next
      /\ c.next =< Latest(d) /\ Latest(d) \in Nat
      /\ \A n \in Retained(d) : ~ (c.seq < n /\ n < c.next)
  BY <1>1, <1>2, RevisionType DEF BackfillHolds
<1>4. cat \in SUBSET (Items \X Paths)
  BY <1>1, <1>3, RevisionType
<1>5. /\ world' = world /\ revs' = revs /\ assets' = assets /\ bound' = bound /\ rows' = rows /\ held' = held
      /\ shared' = shared /\ migration' = migration /\ discarded' = discarded /\ calls' \subseteq calls
      /\ Adds(d, c.seq, c.next, cat) \/ index' = index
  BY DEF EndBackfill, Ends, Adds, ledger
<1>6. /\ index' \in [Drafts -> IndexSet] /\ \A x \in Drafts \ {d} : index'[x] = index[x]
      /\ \/ index'[d] = index[d]
         \/ /\ index[d].seq = c.seq /\ index'[d].seq = c.next /\ index'[d].gen = index[d].gen
            /\ index'[d].items = index[d].items \cup ItemsOf(cat)
            /\ index'[d].paths = index[d].paths \cup PathsOf(cat)
  <2>1. CASE index' = index
    BY <1>1, <2>1 DEF TypeOK
  <2>2. CASE Adds(d, c.seq, c.next, cat)
    BY <1>1, <1>3, <1>4, <2>2, AddsIndex
  <2> QED
    BY <1>5, <2>1, <2>2
<1> HIDE DEF cat
<1>7. TypeOK'
  BY <1>1, <1>5, <1>6 DEF TypeOK
<1>8. GoesOn
  <2> SUFFICES ASSUME NEW x \in Drafts
               PROVE  /\ Len(revs[x]) =< Len(revs[x])
                      /\ index[x].gen =< index'[x].gen
                      /\ index'[x].gen = index[x].gen => index[x].seq =< index'[x].seq
                      /\ index'[x].gen = index[x].gen /\ index'[x].seq = index[x].seq => index'[x] = index[x]
    BY <1>5 DEF GoesOn
  <2>1. Len(revs[x]) \in Nat /\ index[x].seq \in Nat /\ index[x].gen \in Nat
    BY <1>1, RevisionType, IndexType
  <2> QED
    BY <1>3, <1>6, <2>1
<1>9. \A x \in Drafts : Named(x)' = Named(x) /\ Retained(x)' = Retained(x) /\ Latest(x)' = Latest(x)
                        /\ Exists(x)' = Exists(x)
  BY <1>5 DEF Named, NamedBy, Retained, Latest, Exists
<1>10. LatestKept' /\ PathsKnown'
  BY <1>5, <1>9 DEF LibraryInv, LatestKept, PathsKnown
<1>11. BoundTruly' /\ CopiesUnnamed'
  BY <1>5, <1>9 DEF LibraryInv, BoundTruly, CopiesUnnamed
<1>12. OneItem' /\ HeldByOwner'
  BY <1>5, <1>9 DEF LibraryInv, OneItem, HeldByOwner
<1>13. IndexCovers'
  <2> SUFFICES ASSUME NEW x \in Drafts
               PROVE  /\ index'[x].seq =< Latest(x)'
                      /\ \A n \in Retained(x)' : n =< index'[x].seq =>
                           /\ ItemsOf(revs'[x][n].cat) \subseteq index'[x].items
                           /\ PathsOf(revs'[x][n].cat) \subseteq index'[x].paths
    BY DEF IndexCovers, ItemsOf, PathsOf
  <2>1. /\ index[x].seq =< Latest(x)
        /\ \A n \in Retained(x) : n =< index[x].seq =>
             ItemsOf(revs[x][n].cat) \subseteq index[x].items /\ PathsOf(revs[x][n].cat) \subseteq index[x].paths
    BY DEF LibraryInv, IndexCovers
  <2>2. CASE index'[x] = index[x]
    BY <1>5, <1>9, <2>1, <2>2
  <2>3. CASE x = d /\ index[d].seq = c.seq /\ index'[d].seq = c.next
             /\ index'[d].items = index[d].items \cup ItemsOf(cat)
             /\ index'[d].paths = index[d].paths \cup PathsOf(cat)
    <3>1. ASSUME NEW n \in Retained(d), n =< c.next
          PROVE  /\ ItemsOf(revs[d][n].cat) \subseteq index'[d].items
                 /\ PathsOf(revs[d][n].cat) \subseteq index'[d].paths
      <4>1. n \in Nat
        BY <1>1, <1>3, RevisionType DEF Retained
      <4>2. n =< c.seq \/ n = c.next
        BY <1>3, <3>1, <4>1
      <4>3. CASE n =< c.seq
        BY <2>1, <2>3, <4>3
      <4>4. CASE n = c.next
        BY <2>3, <4>4 DEF cat
      <4> QED
        BY <4>2, <4>3, <4>4
    <3> QED
      BY <1>3, <1>5, <1>9, <2>3, <3>1
  <2> QED
    BY <1>6, <2>2, <2>3
<1>14. BoundOrShared' /\ LedgerTrue' /\ BytesAccounted'
  BY <1>5, <1>9 DEF LibraryInv, BoundOrShared, LedgerTrue, BytesAccounted
<1>15. CallsHold'
  BY <1>1, <1>5, <1>7, <1>8, CallsKept DEF LibraryInv
<1> QED
  BY <1>7, <1>10, <1>11, <1>12, <1>13, <1>14, <1>15 DEF LibraryInv

-----------------------------------------------------------------------------
(* The copy of a draft: every image gets a binary of the new draft.        *)

LEMMA EndCopyKeeps ==
  ASSUME LibraryInv, NEW c \in calls, NEW d \in Drafts, EndCopy(c, d)
  PROVE  LibraryInv'
<1> DEFINE S == PathsOf(c.cat)
           order == SetToSeq(S)
           m == Cardinality(S)
           n == Len(assets)
           place(p) == CHOOSE k \in DOMAIN order : order[k] = p
           cat == {<<e[1], n + place(e[2])>> : e \in c.cat}
           bytes == [k \in DOMAIN order |-> CHOOSE b \in c.bytes[order[k]] : TRUE]
           batch == [k \in DOMAIN order |-> Upload(CHOOSE b \in c.bytes[order[k]] : TRUE)]
           own == {n + k : k \in 1..m}
<1>1. /\ c.op = "copy" /\ revs[d] = <<>> /\ Store(d, batch, {})
      /\ revs' = [revs EXCEPT ![d] = <<Revision(cat, c.used)>>]
      /\ index' = [index EXCEPT ![d] = Include(@, 0, 1, cat)]
      /\ calls' = calls \ {c} /\ UNCHANGED <<world, rows, held, shared, discarded>>
  BY DEF EndCopy, Exists, Ends
<1>2. CopyHolds(c)
  BY <1>1 DEF LibraryInv, CallsHold, CallHolds
<1>3. TypeOK
  BY DEF LibraryInv
<1>4. m \in Nat /\ order \in [1..m -> S] /\ \A p \in S : \E k \in 1..m : order[k] = p
  BY <1>2, SetToSeqLists DEF CopyHolds
<1>5. DOMAIN order = 1..m /\ n \in Nat
  BY <1>3, <1>4, AssetType
<1>6. \A k \in 1..m : order[k] \in S /\ bytes[k] \in Bytes
  <2> SUFFICES ASSUME NEW k \in 1..m
               PROVE  order[k] \in S /\ bytes[k] \in Bytes
    OBVIOUS
  <2>1. order[k] \in S
    BY <1>4
  <2>2. c.bytes[order[k]] \in SUBSET Bytes /\ c.bytes[order[k]] # {}
    BY <1>2, <2>1 DEF CopyHolds
  <2>3. bytes[k] = CHOOSE b \in c.bytes[order[k]] : TRUE
    BY <1>5
  <2> QED
    BY <2>1, <2>2, <2>3
<1>7. ASSUME NEW p \in S
      PROVE  place(p) \in 1..m
  BY <1>4, <1>5
<1>8. batch \in Batches /\ Len(batch) = m /\ \A k \in 1..m : batch[k].for = None
  <2> DEFINE R == [bytes : Bytes, for : Uploads \cup {None}]
  <2>1. \A k \in 1..m : batch[k] = Upload(bytes[k])
    BY <1>5
  <2>2. batch = [k \in 1..m |-> batch[k]]
    BY <1>5
  <2> HIDE DEF batch, bytes, m
  <2>3. \A k \in 1..m : batch[k] \in R /\ batch[k].for = None
    <3>1. \A x \in Bytes : Upload(x) \in R /\ Upload(x).for = None
      BY DEF Upload
    <3> QED
      BY <1>6, <2>1, <3>1
  <2> HIDE DEF R
  <2>4. batch \in Seq(R) /\ Len(batch) = m /\ DOMAIN batch = 1..m
    BY <1>4, <2>2, <2>3
  <2> QED
    BY <2>3, <2>4 DEF Batches, R
<1> HIDE DEF place, order, bytes, batch, m
<1>9. \A e \in c.cat : e[1] \in Items /\ e[2] \in S
  BY <1>2 DEF CopyHolds, PathsOf
<1>10. \A k \in 1..m : n + k \in Paths /\ n + k \in own
  BY <1>4, <1>5, UploadsAreNoNumbers DEF Paths, None
<1>11. \A e \in cat : e \in Items \X Paths /\ e[2] \in own
  <2> SUFFICES ASSUME NEW e \in c.cat
               PROVE  <<e[1], n + place(e[2])>> \in Items \X Paths /\ <<e[1], n + place(e[2])>>[2] \in own
    BY Zenon
  <2>1. e[1] \in Items /\ place(e[2]) \in 1..m
    BY <1>7, <1>9
  <2> QED
    BY <1>10, <2>1
<1>12. \A a \in own : \E k \in 1..Len(batch) : a = n + k /\ batch[k].for = None
  BY <1>8
<1> HIDE DEF cat
<1>13. Appends(d, cat, c.used) /\ Adds(d, Latest(d), Latest(d) + 1, cat)
  <2>1. <<Revision(cat, c.used)>> = Append(revs[d], Revision(cat, c.used))
    BY <1>1
  <2>2. Latest(d) = 0 /\ Latest(d) + 1 = 1
    BY <1>1 DEF Latest
  <2> QED
    BY <1>1, <2>1, <2>2 DEF Appends, Adds
<1>14. cat \in SUBSET (Items \X Paths) /\ c.used \in SUBSET Items
  BY <1>2, <1>11 DEF CopyHolds
<1>15. rows \in [Drafts -> SUBSET RowSet] /\ held \in [Drafts -> SUBSET (Items \X Nat)]
       /\ \A r \in rows[d] : <<r.item, r.path>> \in Named(d)
  BY <1>3, NamedType DEF TypeOK
<1> HIDE DEF own
<1>16. Saves(d, cat, c.used, batch, {}, own)
  BY <1>1, <1>8, <1>11, <1>12, <1>13, <1>14, <1>15 DEF Saves, OfDraftOnly
<1> QED
  BY <1>16, SaveKeeps

-----------------------------------------------------------------------------
(* The end of the conversion.                                              *)

LEMMA RecoverSaves ==
  ASSUME LibraryInv, NEW c \in calls, NEW i \in Items, EndRecover(c, i), revs' # revs
  PROVE  LibraryInv'
<1> DEFINE d == Recovery
           u == c.upload
           cat == c.cat \cup {<<i, New>>}
           x == [draft |-> Recovery, bytes |-> u, live |-> TRUE]
<1>1. /\ Latest(d) = c.base /\ Appends(d, cat, {}) /\ assets' = Append(assets, x)
      /\ bound' = [bound EXCEPT ![d] = bound[d] \cup {<<New, New>>}]
      /\ migration' = [migration EXCEPT !.recovered = migration.recovered \cup {<<u, New>>}]
      /\ world' = world /\ rows' = rows /\ held' = held /\ index' = index /\ shared' = shared
      /\ discarded' = discarded /\ calls' \subseteq calls
  BY DEF EndRecover, Appends, Ends
<1>2. d \in Drafts
  BY LibraryAssumption
<1>3. TypeOK /\ Bindings /\ LatestKept
  BY DEF LibraryInv, Bindings
<1>4. u \in Uploads /\ c.base \in Nat /\ c.cat = IF c.base = 0 THEN {} ELSE revs[d][c.base].cat
  BY DEF LibraryInv, CallsHold, CallHolds, EndRecover, RecoverHolds
<1>5. New \in Nat /\ New \in Paths /\ New \notin DOMAIN assets /\ New # None /\ New \notin Uploads
      /\ Len(assets) \in Nat /\ DOMAIN assets = 1..Len(assets) /\ New = Len(assets) + 1
  BY <1>3, AssetType, UploadsAreNoNumbers DEF New, Paths, None
<1>6. c.cat \in SUBSET (Items \X Paths) /\ c.cat \subseteq Named(d)
      /\ \A e \in c.cat : e[2] \in shared \/ \E a \in DOMAIN assets : <<e[2], a>> \in bound[d]
  <2>1. CASE c.base = 0
    BY <1>4, <2>1
  <2>2. CASE c.base # 0
    <3>1. Exists(d)
      BY <1>1, <1>2, <1>3, <2>2, RevisionType DEF Exists, Latest
    <3>2. c.cat = Doc(d).cat
      BY <1>1, <1>4, <2>2 DEF Doc
    <3>3. Latest(d) \in Retained(d) /\ Doc(d) = revs[d][Latest(d)]
          /\ Doc(d).cat \in SUBSET (Items \X Paths) /\ Doc(d).cat \subseteq Named(d)
      BY <1>2, <1>3, <3>1, LatestDoc
    <3> QED
      BY <1>2, <3>2, <3>3 DEF LibraryInv, BoundOrShared
  <2> QED
    BY <2>1, <2>2
<1>7. cat \in SUBSET (Items \X Paths) /\ {} \in SUBSET Items
      /\ \A e \in cat : e \in Named(d) \/ e[2] \in {New}
  BY <1>5, <1>6
<1>8. x \in AssetSet /\ x.draft = d /\ x.bytes = u /\ x.live
  BY <1>2, <1>4 DEF AssetSet, Bytes
<1> HIDE DEF x
<1>9. /\ assets' \in Seq(AssetSet) /\ Len(assets') = New /\ DOMAIN assets' = 1..New /\ assets'[New] = x
      /\ \A a \in DOMAIN assets : assets'[a] = assets[a]
  <2>1. assets \in Seq(AssetSet)
    BY <1>3 DEF TypeOK
  <2> QED
    BY <1>1, <1>5, <1>8, <2>1
<1>10. StoresFor(d, {}, {New}) /\ OfDraftOnly(d, {})
  <2> DEFINE set == bound[d] \cup {<<New, New>>}
  <2>1. bound \in [Drafts -> SUBSET (Paths \X Nat)]
    BY <1>3 DEF TypeOK
  <2>2. set \in SUBSET (Paths \X Nat)
    BY <1>2, <1>5, <2>1
  <2>3. \A e \in set : e \in bound[d] \/ (e[1] = New /\ e[2] = New)
    OBVIOUS
  <2>4. bound[d] \subseteq set /\ <<New, New>> \in set
    OBVIOUS
  <2> HIDE DEF set
  <2>5. bound' \in [Drafts -> SUBSET (Paths \X Nat)] /\ bound'[d] = set
        /\ \A y \in Drafts \ {d} : bound'[y] = bound[y]
    BY <1>1, <1>2, <2>1, <2>2 DEF set
  <2>6. Len(assets) =< Len(assets') /\ New \in DOMAIN assets' \ DOMAIN assets
        /\ \A a \in DOMAIN assets' \ DOMAIN assets : a = New
    BY <1>5, <1>9
  <2> HIDE DEF New
  <2>7. StoresFor(d, {}, {New})
    BY <1>8, <1>9, <2>3, <2>4, <2>5, <2>6 DEF StoresFor
  <2> QED
    BY <2>7 DEF OfDraftOnly
<1> HIDE DEF cat, d
<1>11. TypeOK'
  <2>1. revs' \in [Drafts -> Seq(RevisionSet)]
    BY <1>1, <1>2, <1>3, <1>7, AppendRevs
  <2>2. assets' \in Seq(AssetSet) /\ bound' \in [Drafts -> SUBSET (Paths \X Nat)]
    BY <1>10 DEF StoresFor
  <2>3. migration' \in LedgerSet
    <3> DEFINE set == migration.recovered \cup {<<u, New>>}
    <3>1. set \in SUBSET (Uploads \X Nat)
      BY <1>3, <1>4, <1>5, LedgerType
    <3> HIDE DEF set
    <3>2. migration' = [migration EXCEPT !.recovered = set]
      BY <1>1 DEF set
    <3> QED
      BY <1>3, <3>1, <3>2, LedgerType DEF LedgerSet
  <2> QED
    BY <1>1, <1>3, <2>1, <2>2, <2>3 DEF TypeOK
<1>12. GoesOn
  BY <1>1, <1>2, <1>3, <1>7, AppendGoesOn
<1>13. NamesGrow(d, {New})
  <2>1. ASSUME NEW y \in Drafts, NEW e \in Named(y)'
        PROVE  e \in Named(y) \/ (y = d /\ e[2] \in {New})
    <3>1. e \in Named(y) \/ (y = d /\ (e \in cat \/ \E r \in rows'[d] : e = <<r.item, r.path>>))
      BY <1>1, <1>2, <1>3, <1>7, AppendNames
    <3>2. \A r \in rows'[d] : <<r.item, r.path>> \in Named(d)
      BY <1>1, <1>2, <1>3, NamedType
    <3> QED
      BY <1>7, <3>1, <3>2
  <2> QED
    BY <1>1, <2>1 DEF NamesGrow
<1>14. Bindings'
  BY <1>2, <1>3, <1>10, <1>13, BindingsKept
<1>15. LatestKept'
  BY <1>1, <1>2, <1>3, <1>7, AppendLatest
<1>16. IndexCovers'
  BY <1>1, <1>2, <1>3, <1>7, AppendCovers DEF LibraryInv
<1>17. BoundOrShared'
  <2>1. \A y \in Drafts : \A n \in Retained(y)' :
           \/ n \in Retained(y) /\ revs'[y][n].cat = revs[y][n].cat
           \/ y = d /\ revs'[y][n].cat = cat
    BY <1>1, <1>2, <1>3, <1>7, AppendRetained
  <2>2. \A e \in cat : \/ e[2] \in shared \/ e[2] \in {New}
                       \/ \E a \in DOMAIN assets : a \notin {} /\ <<e[2], a>> \in bound[d]
    BY <1>6 DEF cat
  <2>3. \A y \in Drafts : \A n \in Retained(y)' :
           \/ n \in Retained(y) /\ revs'[y][n].cat = revs[y][n].cat
           \/ /\ y = d
              /\ \A e \in revs'[y][n].cat :
                   \/ e[2] \in shared \/ e[2] \in {New}
                   \/ \E a \in DOMAIN assets : a \notin {} /\ <<e[2], a>> \in bound[d]
    BY <2>1, <2>2
  <2>4. PICK gone, own : gone = {} /\ own = {New}
    OBVIOUS
  <2>5. StoresFor(d, gone, own)
    BY <1>10, <2>4
  <2>6. \A n \in Retained(d) : \A e \in revs[d][n].cat : \A a \in gone : <<e[2], a>> \notin bound[d]
    BY <2>4
  <2>7. \A y \in Drafts : \A n \in Retained(y)' :
           \/ n \in Retained(y) /\ revs'[y][n].cat = revs[y][n].cat
           \/ /\ y = d
              /\ \A e \in revs'[y][n].cat :
                   \/ e[2] \in shared \/ e[2] \in own
                   \/ \E a \in DOMAIN assets : a \notin gone /\ <<e[2], a>> \in bound[d]
    BY <2>3, <2>4
  <2>8. BoundOrShared /\ shared' = shared
    BY <1>1 DEF LibraryInv
  <2> QED
    BY <1>2, <1>3, <2>5, <2>6, <2>7, <2>8, BoundOrSharedKept
<1>18. LedgerTrue'
  <2>1. migration'.verified = migration.verified /\ migration'.recovered = migration.recovered \cup {<<u, New>>}
    BY <1>1, <1>3, LedgerType DEF LedgerSet
  <2>2. New \in DOMAIN assets' /\ assets'[New].bytes = u
    BY <1>5, <1>8, <1>9
  <2>3. \A r \in migration'.recovered :
           r \in migration.recovered \/ (r[2] \in DOMAIN assets' /\ assets'[r[2]].bytes = r[1])
    BY <2>1, <2>2
  <2> QED
    BY <1>3, <1>10, <2>1, <2>3, LedgerKept DEF LibraryInv
<1>19. BytesAccounted'
  BY <1>1, <1>3, <1>10, BytesKept DEF LibraryInv
<1>20. CallsHold'
  BY <1>1, <1>3, <1>11, <1>12, CallsKept DEF LibraryInv
<1> QED
  BY <1>11, <1>14, <1>15, <1>16, <1>17, <1>18, <1>19, <1>20 DEF LibraryInv, Bindings

LEMMA EndRecoverKeeps ==
  ASSUME LibraryInv, NEW c \in calls, NEW i \in Items, EndRecover(c, i)
  PROVE  LibraryInv'
<1>1. CASE revs' # revs
  BY <1>1, RecoverSaves
<1>2. CASE revs' = revs
  <2>1. Recovery \in Drafts /\ TypeOK
    BY LibraryAssumption DEF LibraryInv
  <2>2. UNCHANGED <<revs, assets, bound, migration>>
    <3>1. \A r : Append(revs[Recovery], r) # revs[Recovery]
      BY <2>1, RevisionType DEF TypeOK
    <3>2. revs \in [Drafts -> Seq(RevisionSet)]
      BY <2>1 DEF TypeOK
    <3>3. \A r : [revs EXCEPT ![Recovery] = Append(revs[Recovery], r)] # revs
      BY <2>1, <3>1, <3>2
    <3> QED
      BY <1>2, <3>3 DEF EndRecover
  <2> QED
    BY <2>2, LooksKeep DEF EndRecover, Ends, ledger
<1> QED
  BY <1>1, <1>2

LEMMA FinishKeeps ==
  ASSUME LibraryInv, Finish
  PROVE  LibraryInv'
<1>1. /\ Missing = {} /\ (\A u \in shared : Kept(u)) /\ migration' = [migration EXCEPT !.state = "complete"]
      /\ shared' = {} /\ world' = world /\ revs' = revs /\ assets' = assets /\ bound' = bound
      /\ rows' = rows /\ held' = held /\ index' = index /\ calls' = calls /\ discarded' = discarded
  BY DEF Finish
<1>2. TypeOK
  BY DEF LibraryInv
<1>3. migration' \in LedgerSet /\ migration'.verified = migration.verified
      /\ migration'.recovered = migration.recovered
  BY <1>1, <1>2, LedgerType DEF LedgerSet
<1>4. TypeOK'
  BY <1>1, <1>2, <1>3 DEF TypeOK
<1>5. GoesOn /\ \A d \in Drafts : Named(d)' = Named(d) /\ Retained(d)' = Retained(d) /\ Latest(d)' = Latest(d)
                                  /\ Exists(d)' = Exists(d)
  BY <1>1, <1>2, StillNamed
<1>6. ASSUME NEW d \in Drafts, NEW n \in Retained(d), NEW e \in revs[d][n].cat
      PROVE  \E a \in DOMAIN assets : <<e[2], a>> \in bound[d]
  <2> DEFINE named == UNION {PathsOf(revs[d][m].cat) : m \in Retained(d)}
             all == UNION {{<<y, p>> : p \in UNION {PathsOf(revs[y][m].cat) : m \in Retained(y)}} : y \in Drafts}
             done == {f \in Drafts \X (Uploads \cup DOMAIN assets) : Verified(f[1], f[2])}
  <2>1. e[2] \in PathsOf(revs[d][n].cat)
    BY DEF PathsOf
  <2>2. e[2] \in named
    BY <2>1
  <2>3. {<<d, p>> : p \in named}
          \in {{<<y, p>> : p \in UNION {PathsOf(revs[y][m].cat) : m \in Retained(y)}} : y \in Drafts}
    BY Zenon
  <2>4. <<d, e[2]>> \in {<<d, p>> : p \in named}
    BY <2>2
  <2>5. <<d, e[2]>> \in all
    BY <2>3, <2>4
  <2>6. Missing = all \ done
    BY DEF Missing
  <2> HIDE DEF all
  <2>7. <<d, e[2]>> \in done
    BY <1>1, <2>5, <2>6
  <2>8. Verified(d, e[2])
    BY <2>7
  <2> QED
    BY <2>8 DEF Verified, BoundTo
<1>7. LatestKept' /\ PathsKnown'
  BY <1>1, <1>5 DEF LibraryInv, LatestKept, PathsKnown
<1>8. BoundTruly' /\ CopiesUnnamed'
  BY <1>1, <1>5 DEF LibraryInv, BoundTruly, CopiesUnnamed
<1>9. OneItem' /\ HeldByOwner'
  BY <1>1, <1>5 DEF LibraryInv, OneItem, HeldByOwner
<1>10. IndexCovers'
  BY <1>1, <1>5 DEF LibraryInv, IndexCovers
<1>11. BoundOrShared'
  BY <1>1, <1>5, <1>6 DEF BoundOrShared
<1>12. LedgerTrue'
  BY <1>1, <1>3 DEF LibraryInv, LedgerTrue
<1>13. BytesAccounted'
  <2>1. ASSUME NEW u \in shared
        PROVE  \E a \in DOMAIN assets : assets[a].bytes = u
    <3>1. u \in Uploads
      BY <1>2, SharedIsUploads
    <3> QED
      BY <1>1, <3>1 DEF Kept, LibraryInv, LedgerTrue
  <2> QED
    BY <1>1, <2>1 DEF LibraryInv, BytesAccounted
<1>14. CallsHold'
  BY <1>1, <1>2, <1>4, <1>5, CallsKept DEF LibraryInv
<1> QED
  BY <1>4, <1>7, <1>8, <1>9, <1>10, <1>11, <1>12, <1>13, <1>14 DEF LibraryInv

-----------------------------------------------------------------------------
(* The invariant, and what it says.                                        *)

LEMMA InitHolds ==
  ASSUME Init
  PROVE  LibraryInv
<1>1. /\ world \in Worlds /\ assets = <<>> /\ bound = [d \in Drafts |-> {}]
      /\ rows = [d \in Drafts |-> {}] /\ held = [d \in Drafts |-> {}]
      /\ shared = world.shared /\ migration.verified = {} /\ migration.recovered = {}
      /\ calls = {} /\ migration \in LedgerSet
  BY DEF Init, LedgerSet
<1>2. world.shared \in SUBSET Uploads
  BY <1>1, LibraryAssumption
<1> DEFINE First == [cat : SUBSET (Items \X world.shared), used : SUBSET Items, kept : BOOLEAN]
<1>3. First \subseteq RevisionSet
  BY <1>2 DEF RevisionSet, Paths
<1>4. world.revs \in [Drafts -> Seq(First)]
  BY <1>1, LibraryAssumption
<1>5. \A x \in First : x.cat \in SUBSET (Items \X world.shared)
  OBVIOUS
<1> HIDE DEF First
<1>6. revs = [d \in Drafts |-> world.revs[d]]
  BY DEF Init
<1>7. ASSUME NEW d \in Drafts
      PROVE  /\ revs[d] = world.revs[d] /\ revs[d] \in Seq(First) /\ revs[d] \in Seq(RevisionSet)
             /\ \A n \in DOMAIN revs[d] : revs[d][n].cat \in SUBSET (Items \X world.shared)
  <2>1. revs[d] = world.revs[d] /\ revs[d] \in Seq(First)
    BY <1>4, <1>6
  <2>2. revs[d] \in [1..Len(revs[d]) -> First] /\ Len(revs[d]) \in Nat /\ DOMAIN revs[d] = 1..Len(revs[d])
    BY <2>1
  <2>3. revs[d] \in [1..Len(revs[d]) -> RevisionSet]
    BY <1>3, <2>2
  <2> QED
    BY <1>5, <2>1, <2>2, <2>3
<1>8. index = [d \in Drafts |-> [seq |-> 0, gen |-> 0, items |-> {}, paths |-> {}]]
  BY DEF Init
<1>9. \A d \in Drafts : index[d].seq = 0 /\ index[d] \in IndexSet
  BY <1>8 DEF IndexSet
<1>10. TypeOK
  <2>1. revs \in [Drafts -> Seq(RevisionSet)]
    BY <1>6, <1>7
  <2>2. index \in [Drafts -> IndexSet]
    BY <1>8, <1>9
  <2>3. assets \in Seq(AssetSet)
    BY <1>1
  <2>4. /\ bound \in [Drafts -> SUBSET (Paths \X Nat)] /\ rows \in [Drafts -> SUBSET RowSet]
        /\ held \in [Drafts -> SUBSET (Items \X Nat)]
    BY <1>1
  <2> QED
    BY <1>1, <2>1, <2>2, <2>3, <2>4 DEF TypeOK
<1>11. ASSUME NEW d \in Drafts
       PROVE  \A e \in Named(d) : e[2] \in Uploads /\ \E n \in DOMAIN revs[d] : e \in revs[d][n].cat
  <2> SUFFICES ASSUME NEW e \in Named(d)
               PROVE  e[2] \in Uploads /\ \E n \in DOMAIN revs[d] : e \in revs[d][n].cat
    OBVIOUS
  <2>1. PICK n \in DOMAIN revs[d] : e \in revs[d][n].cat
    BY <1>1, NamedIs
  <2>2. e \in Items \X world.shared
    BY <1>7, <2>1
  <2> QED
    BY <1>2, <2>1, <2>2
<1>12. LatestKept
  <2> SUFFICES ASSUME NEW d \in Drafts, Exists(d)
               PROVE  revs[d][Latest(d)].kept
    BY DEF LatestKept
  <2>1. world.revs[d] # <<>> => world.revs[d][Len(world.revs[d])].kept
    BY <1>1, LibraryAssumption
  <2> QED
    BY <1>7, <2>1 DEF Exists, Latest
<1>13. PathsKnown
  BY <1>1, <1>11 DEF PathsKnown
<1>14. BoundTruly /\ CopiesUnnamed /\ HeldByOwner
  BY <1>1 DEF BoundTruly, CopiesUnnamed, HeldByOwner
<1>15. OneItem
  <2> SUFFICES ASSUME NEW d \in Drafts, NEW e \in Named(d), NEW f \in Named(d), e[2] = f[2]
               PROVE  e[1] = f[1]
    BY DEF OneItem
  <2>1. PICK m \in DOMAIN revs[d] : e \in revs[d][m].cat
    BY <1>11
  <2>2. PICK n \in DOMAIN revs[d] : f \in revs[d][n].cat
    BY <1>11
  <2>3. LET h == world.revs[d] IN
        \A x, y \in DOMAIN h : \A p \in h[x].cat, q \in h[y].cat : p[2] = q[2] => p[1] = q[1]
    BY <1>1, LibraryAssumption
  <2> QED
    BY <1>7, <2>1, <2>2, <2>3
<1>16. IndexCovers
  <2>1. \A d \in Drafts : Latest(d) \in Nat /\ \A n \in Retained(d) : n \in Nat /\ n > 0
    BY <1>10, RevisionType DEF Retained
  <2> QED
    BY <1>9, <2>1 DEF IndexCovers
<1>17. BoundOrShared
  <2> SUFFICES ASSUME NEW d \in Drafts, NEW n \in Retained(d), NEW e \in revs[d][n].cat
               PROVE  e[2] \in shared
    BY DEF BoundOrShared
  <2>1. e \in Items \X world.shared
    BY <1>7 DEF Retained
  <2> QED
    BY <1>1, <2>1
<1>18. LedgerTrue /\ CallsHold
  BY <1>1 DEF LedgerTrue, CallsHold
<1>19. BytesAccounted
  BY <1>1 DEF BytesAccounted
<1> QED
  BY <1>10, <1>12, <1>13, <1>14, <1>15, <1>16, <1>17, <1>18, <1>19 DEF LibraryInv

LEMMA StepKeeps ==
  ASSUME LibraryInv, [Next]_vars
  PROVE  LibraryInv'
<1>1. ASSUME NEW d \in Drafts, OfDraft(d)
      PROVE  LibraryInv'
  <2>1. CASE \E p \in Uploads : Materialize(d, p)
    BY <2>1, MaterializeKeeps
  <2>2. CASE \E p \in Uploads \cup DOMAIN assets : Verify(d, p)
    BY <2>2, VerifyKeeps
  <2>3. CASE \E n \in Retained(d) : Prune(d, n)
    BY <2>3, PruneKeeps
  <2>4. CASE \E n \in Retained(d) : \E used \in SUBSET Items : EditorSave(d, revs[d][n].cat, used)
    BY <2>4, EditorSaveKeeps
  <2>5. CASE BeginBackfill(d)
    BY <2>5, BeginBackfillKeeps
  <2>6. CASE BeginCopy(d)
    BY <2>6, BeginCopyKeeps
  <2>7. CASE \E m \in Actions(d) : BeginCommand(d, m)
    BY <2>7, BeginCommandKeeps
  <2> QED
    BY <1>1, <2>1, <2>2, <2>3, <2>4, <2>5, <2>6, <2>7 DEF OfDraft
<1>2. ASSUME NEW c \in calls, OfCall(c)
      PROVE  LibraryInv'
  <2>1. CASE EndBackfill(c)
    BY <2>1, EndBackfillKeeps
  <2>2. CASE ReadHistory(c)
    BY <2>2, ReadHistoryKeeps
  <2>3. CASE Recheck(c)
    BY <2>3, RecheckKeeps
  <2>4. CASE Abandon(c)
    BY <2>4, AbandonKeeps
  <2>5. CASE SaveReplace(c)
    BY <2>5, SaveReplaceKeeps
  <2>6. CASE SaveUpdate(c)
    BY <2>6, SaveUpdateKeeps
  <2>7. CASE SaveArchive(c)
    BY <2>7, SaveArchiveKeeps
  <2>8. CASE SaveUnarchive(c)
    BY <2>8, SaveUnarchiveKeeps
  <2>9. CASE SaveDelete(c)
    BY <2>9, SaveDeleteKeeps
  <2>10. CASE \E i \in Items : SaveUpload(c, i)
    BY <2>10, SaveUploadKeeps
  <2>11. CASE \E i \in Items : SaveLink(c, i)
    BY <2>11, SaveLinkKeeps
  <2>12. CASE \E i \in Items : EndRecover(c, i)
    BY <2>12, EndRecoverKeeps
  <2>13. CASE \E d \in Drafts : EndCopy(c, d)
    BY <2>13, EndCopyKeeps
  <2> QED
    BY <1>2, <2>1, <2>2, <2>3, <2>4, <2>5, <2>6, <2>7, <2>8, <2>9, <2>10, <2>11, <2>12, <2>13 DEF OfCall
<1>3. ASSUME NEW u \in Uploads, BeginRecover(u)
      PROVE  LibraryInv'
  BY <1>3, BeginRecoverKeeps
<1>4. CASE Finish
  BY <1>4, FinishKeeps
<1>5. CASE UNCHANGED vars
  BY <1>5, LooksKeep DEF vars, ledger
<1> QED
  BY <1>1, <1>2, <1>3, <1>4, <1>5 DEF Next

LEMMA AlwaysHolds == Spec => []LibraryInv
<1>1. Init => LibraryInv
  BY InitHolds
<1>2. LibraryInv /\ [Next]_vars => LibraryInv'
  BY StepKeeps
<1> QED
  BY <1>1, <1>2, PTL DEF Spec

\* A binding vouches for the bytes of an image.
LEMMA BoundHasBytes ==
  ASSUME LibraryInv
  PROVE  RetainedHasBytes
<1> SUFFICES ASSUME NEW d \in Drafts, NEW n \in Retained(d), NEW p \in PathsOf(revs[d][n].cat), p \notin shared
             PROVE  \E a \in BoundTo(d, p) :
                      Live(a) /\ assets[a].draft = d /\ (p \in Uploads => assets[a].bytes = p)
  BY DEF RetainedHasBytes
<1>1. PICK e \in revs[d][n].cat : e[2] = p
  BY DEF PathsOf
<1>2. PICK a \in DOMAIN assets : <<p, a>> \in bound[d]
  BY <1>1 DEF LibraryInv, BoundOrShared
<1>3. assets[a].live /\ assets[a].draft = d /\ (p \in Uploads => assets[a].bytes = p)
  BY <1>2 DEF LibraryInv, BoundTruly
<1> QED
  BY <1>2, <1>3 DEF BoundTo, Live

\* What is not live has been discarded by a person.
LEMMA BytesAreKept ==
  ASSUME LibraryInv
  PROVE  NothingLost
BY DEF LibraryInv, BytesAccounted, NothingLost, Live

\* No image of a retained revision is ever without the bytes it was saved with: whatever Library
\* actions, saves, copies, retention, maintenance and conversion steps come between the reads of a
\* deletion and its save, in any number of drafts (library.ts, draft-assets.ts).
THEOREM RetainedImagesStay == Spec => []RetainedHasBytes
<1>1. LibraryInv => RetainedHasBytes
  BY BoundHasBytes
<1> QED
  BY <1>1, AlwaysHolds, PTL

\* The conversion deletes the shared storage only when each of its images is in a binary, and no
\* binary goes but by a person's deletion (asset-migration.ts).
THEOREM ConversionLosesNothing == Spec => []NothingLost
<1>1. LibraryInv => NothingLost
  BY BytesAreKept
<1> QED
  BY <1>1, AlwaysHolds, PTL

-----------------------------------------------------------------------------
(* NativeHost: the two copies of a backup agree.                           *)

Steps ==
  {"off", "bind", "bind workspace", "bind control", "bootstrap", "due", "idle", "maintain", "closed",
   "begin", "workspace", "control", "rename", "succeed", "list", "prune"}
\* the steps of a backup that is not complete yet, and those of one that is
Taking == {"workspace", "control", "rename"}
Taken == {"succeed", "list", "prune"}
Over == {"complete", "removed"}
ListedSet == [id : Nat, done : Nat, pinned : BOOLEAN]
ProcSet ==
  [at : Steps, for : {"daily", "start"}, id : Nat, done : Nat, seen : SUBSET ListedSet,
   rest : SUBSET Nat, stopped : BOOLEAN]
BackupSet ==
  [stage : {"absent", "pending"} \cup Over, done : Nat, pinned : BOOLEAN, gone : BOOLEAN,
   receipt : BOOLEAN]
HostTyped ==
  /\ clock \in Nat
  /\ deletion \in {"none", "prepared", "committed"}
  /\ disk \in [H!Ids -> BackupSet]
  /\ proc \in [H!Procs -> ProcSet]

\* A backup that is taken is its process's own, and its copies are never the wrong way round.
CopyFollows(p) ==
  LET x == proc[p] IN
  /\ x.at \in Taking =>
       /\ x.id \in H!Ids /\ disk[x.id].stage = "pending"
       /\ x.at = "control" /\ disk[x.id].gone => deletion = "committed"
       /\ x.at = "rename" /\ disk[x.id].gone => disk[x.id].receipt
       /\ \A q \in H!Procs : q # p /\ proc[q].at \in Taking => proc[q].id # x.id
  /\ x.at \in Taken => x.id \in H!Ids /\ disk[x.id].stage \in Over
HostInv == HostTyped /\ (\A p \in H!Procs : CopyFollows(p)) /\ H!CopiesAgree

LEMMA HostInit ==
  ASSUME HostConstants, H!Init PROVE HostInv
<1>1. /\ clock = DayLength /\ deletion = "none" /\ disk = [b \in H!Ids |-> H!Absent]
      /\ proc = [p \in H!Procs |-> H!Off]
  BY DEF H!Init
<1>2. HostTyped
  BY <1>1 DEF HostTyped, HostConstants, H!Absent, H!Off, H!None, Steps, ProcSet, BackupSet
<1>3. \A p \in H!Procs : CopyFollows(p)
  BY <1>1 DEF CopyFollows, H!Off, Taking, Taken
<1>4. H!CopiesAgree
  BY <1>1 DEF H!CopiesAgree, H!Present, H!Absent
<1>. QED BY <1>2, <1>3, <1>4 DEF HostInv


\* a process goes on to a step that is not of a backup, or within one
LEMMA ProcessGoesOn ==
  ASSUME HostInv, NEW p \in H!Procs, NEW y \in ProcSet, proc' = [proc EXCEPT ![p] = y],
         UNCHANGED <<clock, disk, deletion>>,
         \/ y.at \notin Taking \cup Taken
         \/ y.id = proc[p].id /\ (y.at = proc[p].at \/ (y.at \in Taken /\ proc[p].at \in Taken))
  PROVE  HostInv'
<1>1. \A q \in H!Procs : proc'[q] = IF q = p THEN y ELSE proc[q]
  BY DEF HostInv, HostTyped
<1>2. \A q \in H!Procs : CopyFollows(q)'
  BY <1>1 DEF HostInv, CopyFollows, H!Procs, H!Ids, Taking, Taken
<1>3. H!CopiesAgree'
  BY DEF HostInv, H!CopiesAgree, H!Present, H!Ids
<1>4. HostTyped'
  BY <1>1 DEF HostInv, HostTyped, H!Ids, H!Procs
<1>. QED BY <1>2, <1>3, <1>4 DEF HostInv

LEMMA StepsKnown ==
  /\ Steps = Taking \cup Taken \cup {"off", "bind", "bind workspace", "bind control", "bootstrap",
                                     "due", "idle", "maintain", "closed", "begin"}
  /\ H!Host \in H!Procs
BY DEF Steps, Taking, Taken, H!Host, H!Procs

LEMMA RestedTyped ==
  ASSUME HostInv, NEW p \in H!Procs
  PROVE  /\ H!Off \in ProcSet /\ H!Off.at = "off"
         /\ H!Rested(p) \in ProcSet /\ H!Rested(p).at \in {"idle", "off"}
<1>1. proc[p] \in ProcSet /\ proc[H!Host] \in ProcSet
  BY StepsKnown DEF HostInv, HostTyped
<1>. QED BY <1>1 DEF H!Off, H!Rested, ProcSet, Steps, H!None, H!Host, H!Procs

LEMMA HostStarts ==
  ASSUME HostInv,
         \/ H!Start \/ H!Bind \/ H!BindWorkspace \/ H!BindControl \/ H!Bootstrap \/ H!Tick
         \/ H!Maintain \/ H!Due \/ H!Signal \/ H!Close
  PROVE  HostInv'
<1>. DEFINE p == H!Host
<1>1. p \in H!Procs /\ proc[p] \in ProcSet /\ H!Off \in ProcSet /\ H!Rested(p) \in ProcSet
      /\ H!Rested(p).at \in {"idle", "off"} /\ p = H!Host
  BY StepsKnown, RestedTyped DEF HostInv, HostTyped
<1>2. UNCHANGED <<disk, deletion, clock>>
  BY DEF H!Start, H!Bind, H!BindWorkspace, H!BindControl, H!Bootstrap, H!Tick, H!Maintain, H!Due,
         H!Signal, H!Close, H!BindOne, H!databases
<1>. HIDE DEF p
<1>3. CASE H!Signal
  <2>1. PICK y : y = [proc[p] EXCEPT !.stopped = TRUE]
    OBVIOUS
  <2>2. proc' = [proc EXCEPT ![p] = y] /\ y \in ProcSet /\ y.at = proc[p].at /\ y.id = proc[p].id
    <3>1. proc' = [proc EXCEPT ![p].stopped = TRUE]
      BY <1>1, <1>3 DEF H!Signal
    <3>2. proc' = [proc EXCEPT ![p] = y]
      BY <2>1, <3>1
    <3>3. y \in ProcSet
      BY <1>1, <2>1 DEF ProcSet
    <3>4. y.at = proc[p].at /\ y.id = proc[p].id
      BY <1>1, <2>1 DEF ProcSet
    <3>. QED BY <3>2, <3>3, <3>4
  <2>3. p \in H!Procs /\ UNCHANGED <<clock, disk, deletion>>
    BY <1>1, <1>2
  <2>4. y.id = proc[p].id /\ (y.at = proc[p].at \/ (y.at \in Taken /\ proc[p].at \in Taken))
    BY <2>2
  <2>. QED BY <2>2, <2>3, <2>4, ProcessGoesOn
<1>4. CASE H!Start \/ (H!Due /\ proc' = [proc EXCEPT ![p] = H!Rested(p)])
  <2>1. PICK y : y = IF H!Start THEN [H!Off EXCEPT !.at = "bind", !.for = "start"] ELSE H!Rested(p)
    OBVIOUS
  <2>2. proc' = [proc EXCEPT ![p] = y] /\ y \in ProcSet /\ y.at \notin Taking \cup Taken
    BY <1>1, <1>4, <2>1 DEF H!Start, ProcSet, Steps, Taking, Taken
  <2>. QED BY <1>1, <1>2, <2>2, ProcessGoesOn
<1>5. CASE \E step \in Steps \ (Taking \cup Taken) : H!Goes(p, step)
  <2>1. PICK step \in Steps \ (Taking \cup Taken) : H!Goes(p, step)
    BY <1>5
  <2>2. PICK y : y = [proc[p] EXCEPT !.at = step]
    OBVIOUS
  <2>3. proc' = [proc EXCEPT ![p] = y] /\ y \in ProcSet /\ y.at = step
    BY <1>1, <2>1, <2>2 DEF H!Goes, ProcSet
  <2>. QED BY <1>1, <1>2, <2>1, <2>3, ProcessGoesOn
<1>6. ASSUME H!Bind \/ H!BindWorkspace \/ H!BindControl \/ H!Bootstrap \/ H!Tick \/ H!Maintain \/ H!Close
      PROVE  \E step \in Steps \ (Taking \cup Taken) : H!Goes(p, step)
  BY <1>1, <1>6, StepsKnown
     DEF H!Bind, H!BindWorkspace, H!BindControl, H!Bootstrap, H!Tick, H!Maintain, H!Close, H!BindOne,
         Taking, Taken
<1>7. CASE H!Due
  <2>1. H!Goes(p, "begin") \/ proc' = [proc EXCEPT ![p] = H!Rested(p)]
    BY <1>1, <1>7 DEF H!Due
  <2>2. "begin" \in Steps \ (Taking \cup Taken)
    BY DEF Steps, Taking, Taken
  <2>. QED BY <1>4, <1>5, <1>7, <2>1, <2>2
<1>. QED BY <1>3, <1>4, <1>5, <1>6, <1>7

LEMMA BackupGoesOn ==
  ASSUME HostInv, NEW p \in H!Procs,
         H!Die(p) \/ H!Command(p) \/ H!Succeed(p) \/ H!List(p) \/ H!End(p)
  PROVE  HostInv'
<1>1. /\ proc[p] \in ProcSet /\ H!Off \in ProcSet /\ H!Off.at = "off"
      /\ H!Rested(p) \in ProcSet /\ H!Rested(p).at \in {"idle", "off"}
  BY RestedTyped DEF HostInv, HostTyped
<1>2. UNCHANGED <<disk, deletion, clock>>
  BY DEF H!Die, H!Command, H!Succeed, H!List, H!End, H!databases
<1>3. CASE H!Die(p) \/ H!Command(p) \/ H!End(p)
  <2>1. PICK y : y = IF H!Die(p) THEN H!Off
                     ELSE IF H!Command(p) THEN [H!Off EXCEPT !.at = "begin"] ELSE H!Rested(p)
    OBVIOUS
  <2>2. proc' = [proc EXCEPT ![p] = y]
    BY <1>3, <2>1 DEF H!Die, H!Command, H!End
  <2>3. y \in ProcSet /\ y.at \notin Taking \cup Taken
    BY <1>1, <2>1 DEF ProcSet, Steps, Taking, Taken
  <2>. QED BY <1>2, <2>2, <2>3, ProcessGoesOn
<1>4. H!Present \subseteq Nat /\ H!Ids \subseteq Nat
  BY DEF H!Present, H!Ids
<1>5. CASE H!Succeed(p)
  <2>1. PICK y : y = [proc[p] EXCEPT !.at = "list", !.rest = H!Present]
    OBVIOUS
  <2>2. proc' = [proc EXCEPT ![p] = y] /\ proc[p].at = "succeed"
    BY <1>5, <2>1 DEF H!Succeed
  <2>3. y \in ProcSet /\ y.at \in Taken /\ y.id = proc[p].id /\ proc[p].at \in Taken
    BY <1>1, <1>4, <2>1, <2>2 DEF ProcSet, Steps, Taken
  <2>. QED BY <1>2, <2>2, <2>3, ProcessGoesOn
<1>6. CASE H!List(p)
  <2>1. proc[p].at = "list" /\ proc[p].seen \subseteq ListedSet /\ proc[p].rest \subseteq Nat
    BY <1>1, <1>6 DEF H!List, ProcSet
  <2>2. \E y \in ProcSet : /\ proc' = [proc EXCEPT ![p] = y]
                           /\ y.at \in {"list", "prune"} /\ y.id = proc[p].id
    <3>1. CASE proc' = [proc EXCEPT ![p].at = "prune",
                 ![p].rest = {x.id : x \in proc[p].seen} \ H!Retained(proc[p].seen)]
      <4>1. PICK s : s = {x.id : x \in proc[p].seen} \ H!Retained(proc[p].seen)
        OBVIOUS
      <4>2. s \subseteq Nat
        BY <2>1, <4>1 DEF ListedSet
      <4>3. PICK y : y = [proc[p] EXCEPT !.at = "prune", !.rest = s]
        OBVIOUS
      <4>4. proc' = [proc EXCEPT ![p] = y]
        BY <3>1, <4>1, <4>3
      <4>5. y \in ProcSet /\ y.at = "prune" /\ y.id = proc[p].id
        BY <1>1, <4>2, <4>3 DEF ProcSet, Steps
      <4>. QED BY <4>4, <4>5
    <3>2. ASSUME NEW b \in proc[p].rest \cap H!Present,
                 proc' = [proc EXCEPT ![p].rest = @ \ {b},
                   ![p].seen = @ \cup {[id |-> b, done |-> disk[b].done, pinned |-> disk[b].pinned]}]
          PROVE  \E y \in ProcSet : /\ proc' = [proc EXCEPT ![p] = y]
                                    /\ y.at \in {"list", "prune"} /\ y.id = proc[p].id
      <4>1. PICK e : e = [id |-> b, done |-> disk[b].done, pinned |-> disk[b].pinned]
        OBVIOUS
      <4>2. e \in ListedSet
        <5>1. b \in H!Ids /\ b \in Nat
          BY <1>4 DEF H!Present
        <5>. QED BY <4>1, <5>1 DEF HostInv, HostTyped, ListedSet, BackupSet
      <4>3. PICK y : y = [proc[p] EXCEPT !.rest = @ \ {b}, !.seen = @ \cup {e}]
        OBVIOUS
      <4>4. proc' = [proc EXCEPT ![p] = y]
        BY <3>2, <4>1, <4>3
      <4>5. y \in ProcSet /\ y.at = "list" /\ y.id = proc[p].id
        BY <1>1, <2>1, <4>2, <4>3 DEF ProcSet
      <4>. QED BY <4>4, <4>5
    <3>. QED BY <1>6, <3>1, <3>2 DEF H!List
  <2>. QED BY <1>2, <2>1, <2>2, ProcessGoesOn DEF Taken
<1>. QED BY <1>3, <1>5, <1>6

\* process p writes the backup b, and goes on
LEMMA BackupWritten ==
  ASSUME HostInv, NEW p \in H!Procs, NEW b \in H!Ids, NEW y \in ProcSet, NEW z \in BackupSet,
         proc' = [proc EXCEPT ![p] = y], disk' = [disk EXCEPT ![b] = z],
         UNCHANGED <<clock, deletion>>,
         \A q \in H!Procs : q # p /\ proc[q].at \in Taking => proc[q].id # b,
         disk[b].stage \in Over => z.stage \in Over,
         z.stage = "complete" /\ z.gone => z.receipt,
         CopyFollows(p)'
  PROVE  HostInv'
<1>1. \A q \in H!Procs : proc'[q] = IF q = p THEN y ELSE proc[q]
  BY DEF HostInv, HostTyped
<1>2. \A c \in H!Ids : disk'[c] = IF c = b THEN z ELSE disk[c]
  BY DEF HostInv, HostTyped
<1>3. HostTyped'
  BY <1>1, <1>2 DEF HostInv, HostTyped, H!Ids, H!Procs
<1>4. H!CopiesAgree'
  BY <1>2 DEF HostInv, H!CopiesAgree, H!Present, H!Ids
<1>5. ASSUME NEW q \in H!Procs, q # p PROVE CopyFollows(q)'
  <2>1. CopyFollows(q) /\ proc'[q] = proc[q]
    BY <1>1, <1>5 DEF HostInv
  <2>2. ASSUME proc[q].at \in Taking
        PROVE  /\ proc[q].id \in H!Ids /\ proc[q].id # b
               /\ disk'[proc[q].id] = disk[proc[q].id]
               /\ \A t \in H!Procs : t # q /\ proc'[t].at \in Taking => proc'[t].id # proc[q].id
    <3>1. proc[q].id \in H!Ids /\ proc[q].id # b
      BY <1>5, <2>1, <2>2 DEF CopyFollows
    <3>2. \A t \in H!Procs : t # q /\ t # p /\ proc'[t].at \in Taking => proc'[t].id # proc[q].id
      BY <1>1, <2>1, <2>2 DEF CopyFollows
    <3>3. proc'[p].at \in Taking => proc'[p].id # proc'[q].id
      BY <1>5, <2>1, <2>2 DEF CopyFollows, H!Procs
    <3>. QED BY <1>2, <2>1, <3>1, <3>2, <3>3
  <2>3. ASSUME proc[q].at \in Taken
        PROVE  proc[q].id \in H!Ids /\ disk'[proc[q].id].stage \in Over
    <3>1. proc[q].id \in H!Ids /\ disk[proc[q].id].stage \in Over
      BY <2>1, <2>3 DEF CopyFollows
    <3>. QED BY <1>2, <3>1
  <2>4. H!Ids' = H!Ids /\ H!Procs' = H!Procs
    BY DEF H!Ids, H!Procs
  <2>. QED BY <2>1, <2>2, <2>3, <2>4 DEF CopyFollows
<1>6. H!Procs' = H!Procs
  BY DEF H!Procs
<1>. QED BY <1>3, <1>4, <1>5, <1>6 DEF HostInv

LEMMA BackupBegins ==
  ASSUME HostInv, NEW p \in H!Procs, H!Begin(p) PROVE HostInv'
<1>1. PICK b \in H!Ids :
        /\ disk[b].stage = "absent"
        /\ disk' = [disk EXCEPT ![b].stage = "pending"]
        /\ proc' = [proc EXCEPT ![p].at = "workspace", ![p].id = b]
  BY DEF H!Begin
<1>2. UNCHANGED <<clock, deletion>> /\ proc[p] \in ProcSet /\ disk[b] \in BackupSet /\ b \in Nat
  BY DEF H!Begin, H!databases, HostInv, HostTyped, H!Ids
<1>3. PICK y, z : /\ y = [proc[p] EXCEPT !.at = "workspace", !.id = b]
                  /\ z = [disk[b] EXCEPT !.stage = "pending"]
  OBVIOUS
<1>4. y \in ProcSet /\ y.at = "workspace" /\ y.id = b
  BY <1>2, <1>3 DEF ProcSet, Steps
<1>5. z \in BackupSet /\ z.stage = "pending"
  BY <1>2, <1>3 DEF BackupSet
<1>6. proc' = [proc EXCEPT ![p] = y] /\ disk' = [disk EXCEPT ![b] = z]
  BY <1>1, <1>3
<1>7. \A q \in H!Procs : proc[q].at \in Taking => proc[q].id # b
  BY <1>1 DEF HostInv, CopyFollows
<1>8. CopyFollows(p)'
  <2>1. proc'[p] = y /\ disk'[b] = z /\ \A q \in H!Procs : q # p => proc'[q] = proc[q]
    BY <1>6 DEF HostInv, HostTyped
  <2>2. H!Ids' = H!Ids /\ H!Procs' = H!Procs
    BY DEF H!Ids, H!Procs
  <2>. QED BY <1>4, <1>5, <1>7, <2>1, <2>2 DEF CopyFollows, Taking, Taken
<1>9. disk[b].stage \notin Over /\ z.stage # "complete"
  BY <1>1, <1>5 DEF Over
<1>. QED BY <1>2, <1>4, <1>5, <1>6, <1>7, <1>8, <1>9, BackupWritten

LEMMA BackupCopies ==
  ASSUME HostInv, NEW p \in H!Procs, H!CopyDatabase(p) \/ H!Complete(p) PROVE HostInv'
<1>. DEFINE b == proc[p].id
<1>1. /\ proc[p].at \in Taking /\ proc[p] \in ProcSet /\ b \in H!Ids /\ disk[b] \in BackupSet
      /\ disk[b].stage = "pending"
      /\ proc[p].at = "rename" /\ disk[b].gone => disk[b].receipt
      /\ proc[p].at = "control" /\ disk[b].gone => deletion = "committed"
      /\ \A q \in H!Procs : q # p /\ proc[q].at \in Taking => proc[q].id # b
      /\ clock \in Nat /\ deletion \in {"none", "prepared", "committed"}
  <2>1. proc[p].at \in Taking
    BY DEF H!CopyDatabase, H!Complete, Taking
  <2>2. CopyFollows(p)
    BY DEF HostInv
  <2>. QED BY <2>1, <2>2 DEF HostInv, HostTyped, CopyFollows
<1>2. UNCHANGED <<clock, deletion>>
  BY DEF H!CopyDatabase, H!Copied, H!Complete, H!databases
<1>. SUFFICES \E y \in ProcSet, z \in BackupSet :
                /\ proc' = [proc EXCEPT ![p] = y] /\ disk' = [disk EXCEPT ![b] = z] /\ y.id = b
                /\ \/ /\ proc[p].at = "workspace" /\ y.at = "control" /\ z.stage = "pending"
                      /\ z.gone = (deletion = "committed")
                   \/ /\ proc[p].at = "control" /\ y.at = "rename" /\ z.stage = "pending"
                      /\ z.gone = disk[b].gone /\ z.receipt = (deletion # "none")
                   \/ /\ proc[p].at = "rename" /\ y.at = "succeed" /\ z.stage = "complete"
                      /\ z.gone = disk[b].gone /\ z.receipt = disk[b].receipt
  <2>1. PICK y \in ProcSet, z \in BackupSet :
                /\ proc' = [proc EXCEPT ![p] = y] /\ disk' = [disk EXCEPT ![b] = z] /\ y.id = b
                /\ \/ /\ proc[p].at = "workspace" /\ y.at = "control" /\ z.stage = "pending"
                      /\ z.gone = (deletion = "committed")
                   \/ /\ proc[p].at = "control" /\ y.at = "rename" /\ z.stage = "pending"
                      /\ z.gone = disk[b].gone /\ z.receipt = (deletion # "none")
                   \/ /\ proc[p].at = "rename" /\ y.at = "succeed" /\ z.stage = "complete"
                      /\ z.gone = disk[b].gone /\ z.receipt = disk[b].receipt
    OBVIOUS
  <2>. HIDE DEF b
  <2>2. PICK c : c = b
    OBVIOUS
  <2>3. /\ proc'[p] = y /\ disk'[c] = z /\ c \in H!Ids /\ y.id = c
        /\ \A q \in H!Procs : q # p => proc'[q] = proc[q]
    BY <1>1, <2>1, <2>2 DEF HostInv, HostTyped
  <2>4. \A q \in H!Procs : q # p /\ proc'[q].at \in Taking => proc'[q].id # c
    BY <1>1, <2>2, <2>3
  <2>5. y.at = "control" /\ z.gone => deletion = "committed"
    BY <2>1
  <2>6. y.at = "rename" /\ z.gone => z.receipt
    BY <1>1, <2>1
  <2>7. /\ y.at \in Taking => z.stage = "pending"
        /\ y.at \in Taken => z.stage \in Over
        /\ z.stage = "complete" /\ z.gone => z.receipt
    BY <1>1, <2>1 DEF Taking, Taken, Over
  <2>8. CopyFollows(p)'
    <3>1. H!Ids' = H!Ids /\ H!Procs' = H!Procs
      BY DEF H!Ids, H!Procs
    <3>. QED BY <1>2, <2>3, <2>4, <2>5, <2>6, <2>7, <3>1 DEF CopyFollows
  <2>9. disk[c].stage \notin Over
    BY <1>1, <2>2 DEF Over
  <2>10. /\ disk' = [disk EXCEPT ![c] = z] /\ proc' = [proc EXCEPT ![p] = y]
         /\ \A q \in H!Procs : q # p /\ proc[q].at \in Taking => proc[q].id # c
    BY <1>1, <2>1, <2>2
  <2>11. c \in H!Ids /\ y \in ProcSet /\ z \in BackupSet
    BY <2>1, <2>3
  <2>12. z.stage = "complete" /\ z.gone => z.receipt
    BY <2>7
  <2>. QED BY <1>2, <2>8, <2>9, <2>10, <2>11, <2>12, BackupWritten
<1>. HIDE DEF b
<1>3. CASE H!Complete(p)
  <2>1. PICK y, z : /\ y = [proc[p] EXCEPT !.at = "succeed"]
                    /\ z = [disk[b] EXCEPT !.stage = "complete", !.done = proc[p].done]
    OBVIOUS
  <2>2. proc' = [proc EXCEPT ![p] = y] /\ disk' = [disk EXCEPT ![b] = z] /\ proc[p].at = "rename"
    BY <1>3, <2>1 DEF H!Complete, H!Goes, b
  <2>3. y \in ProcSet /\ y.at = "succeed" /\ y.id = b
    BY <1>1, <2>1 DEF ProcSet, Steps, b
  <2>4. /\ z \in BackupSet /\ z.stage = "complete" /\ z.gone = disk[b].gone
        /\ z.receipt = disk[b].receipt
    BY <1>1, <2>1 DEF ProcSet, BackupSet, Over
  <2>. QED BY <2>2, <2>3, <2>4
<1>4. CASE proc[p].at = "workspace" /\ H!Copied(p, "workspace", "control")
  <2>1. PICK y, z : /\ y = [proc[p] EXCEPT !.at = "control", !.done = H!None]
                    /\ z = [disk[b] EXCEPT !.gone = (deletion = "committed")]
    OBVIOUS
  <2>2. proc' = [proc EXCEPT ![p] = y] /\ disk' = [disk EXCEPT ![b] = z]
    BY <1>4, <2>1 DEF H!Copied, b
  <2>3. y \in ProcSet /\ y.at = "control" /\ y.id = b
    BY <1>1, <2>1 DEF ProcSet, Steps, b, H!None
  <2>4. z \in BackupSet /\ z.stage = "pending" /\ z.gone = (deletion = "committed")
    BY <1>1, <2>1 DEF BackupSet
  <2>. QED BY <1>4, <2>2, <2>3, <2>4
<1>5. CASE proc[p].at = "control" /\ H!Copied(p, "control", "rename")
  <2>1. PICK y, z : /\ y = [proc[p] EXCEPT !.at = "rename", !.done = clock]
                    /\ z = [disk[b] EXCEPT !.receipt = (deletion # "none")]
    OBVIOUS
  <2>2. proc' = [proc EXCEPT ![p] = y] /\ disk' = [disk EXCEPT ![b] = z]
    BY <1>5, <2>1 DEF H!Copied, b
  <2>3. y \in ProcSet /\ y.at = "rename" /\ y.id = b
    BY <1>1, <2>1 DEF ProcSet, Steps, b
  <2>4. /\ z \in BackupSet /\ z.stage = "pending" /\ z.gone = disk[b].gone
        /\ z.receipt = (deletion # "none")
    BY <1>1, <2>1 DEF BackupSet
  <2>. QED BY <1>5, <2>2, <2>3, <2>4
<1>. QED BY <1>3, <1>4, <1>5 DEF H!CopyDatabase

LEMMA BackupRemoved ==
  ASSUME HostInv, NEW p \in H!Procs, H!Discard(p) PROVE HostInv'
<1>1. PICK b \in proc[p].rest \cap H!Present :
        /\ disk' = [disk EXCEPT ![b].stage = "removed"]
        /\ proc' = [proc EXCEPT ![p].rest = @ \ {b}]
  BY DEF H!Discard
<1>2. /\ proc[p].at = "prune" /\ proc[p] \in ProcSet /\ UNCHANGED <<clock, deletion>>
      /\ b \in H!Ids /\ disk[b] \in BackupSet /\ disk[b].stage = "complete"
      /\ CopyFollows(p)
  BY DEF H!Discard, H!databases, H!Present, HostInv, HostTyped
<1>3. PICK y, z : /\ y = [proc[p] EXCEPT !.rest = @ \ {b}]
                  /\ z = [disk[b] EXCEPT !.stage = "removed"]
  OBVIOUS
<1>4. y \in ProcSet /\ y.at = "prune" /\ y.id = proc[p].id
  BY <1>2, <1>3 DEF ProcSet
<1>5. z \in BackupSet /\ z.stage = "removed"
  BY <1>2, <1>3 DEF BackupSet, Over
<1>6. proc' = [proc EXCEPT ![p] = y] /\ disk' = [disk EXCEPT ![b] = z]
  BY <1>1, <1>3
<1>7. \A q \in H!Procs : proc[q].at \in Taking => proc[q].id # b
  BY <1>2 DEF HostInv, CopyFollows
<1>8. CopyFollows(p)'
  <2>1. proc'[p] = y /\ \A c \in H!Ids : disk'[c] = IF c = b THEN z ELSE disk[c]
    BY <1>6 DEF HostInv, HostTyped
  <2>2. H!Ids' = H!Ids
    BY DEF H!Ids
  <2>. QED BY <1>2, <1>4, <1>5, <2>1, <2>2 DEF CopyFollows, Taking, Taken, Over
<1>9. z.stage \in Over /\ z.stage # "complete"
  BY <1>5 DEF Over
<1>. QED BY <1>2, <1>4, <1>5, <1>6, <1>7, <1>8, <1>9, BackupWritten

LEMMA BackupFails ==
  ASSUME HostInv, NEW p \in H!Procs, H!Fail(p) PROVE HostInv'
<1>. DEFINE b == proc[p].id
<1>1. PICK y, z : /\ y = (IF proc[p].for = "start" THEN H!Off ELSE H!Rested(p))
                  /\ z = [disk[b] EXCEPT !.stage = IF @ = "pending" THEN "removed" ELSE @]
  OBVIOUS
<1>2. /\ proc' = [proc EXCEPT ![p] = y] /\ disk' = [disk EXCEPT ![b] = z]
      /\ UNCHANGED <<clock, deletion>> /\ proc[p].at \in Taking \cup Taken
  BY <1>1 DEF H!Fail, H!databases, H!Vanished, Taking, Taken
<1>3. b \in H!Ids /\ disk[b] \in BackupSet /\ CopyFollows(p)
  BY <1>2 DEF HostInv, HostTyped, CopyFollows
<1>4. y \in ProcSet /\ y.at \notin Taking \cup Taken
  BY <1>1, RestedTyped DEF Taking, Taken
<1>5. /\ z \in BackupSet /\ z.stage # "pending" /\ z.gone = disk[b].gone
      /\ z.receipt = disk[b].receipt
      /\ z.stage = "complete" => disk[b].stage = "complete"
      /\ disk[b].stage \in Over => z.stage \in Over
  BY <1>1, <1>3 DEF BackupSet, Over
<1>6. z.stage = "complete" /\ z.gone => z.receipt
  BY <1>3, <1>5 DEF HostInv, H!CopiesAgree, H!Present
<1>7. \A q \in H!Procs : q # p /\ proc[q].at \in Taking => proc[q].id # b
  BY <1>2, <1>3 DEF HostInv, CopyFollows, Taken, Taking, Over
<1>8. CopyFollows(p)'
  <2>1. proc'[p] = y
    BY <1>2 DEF HostInv, HostTyped
  <2>. QED BY <1>4, <2>1 DEF CopyFollows
<1>9. disk[b].stage \in Over => z.stage \in Over
  BY <1>5
<1>. HIDE DEF b
<1>. QED BY <1>2, <1>3, <1>4, <1>5, <1>6, <1>7, <1>8, <1>9, BackupWritten

LEMMA Besides ==
  ASSUME HostInv, H!Delete \/ H!Elapse \/ (\E b \in H!Ids : H!Pin(b)) \/ UNCHANGED H!vars
  PROVE  HostInv'
<1>1. proc' = proc /\ H!Ids' = H!Ids /\ H!Procs' = H!Procs
  BY DEF H!Delete, H!Elapse, H!Pin, H!vars, H!Ids, H!Procs
<1>2. /\ clock' \in Nat /\ deletion' \in {"none", "prepared", "committed"}
      /\ deletion = "committed" => deletion' = "committed"
  BY DEF H!Delete, H!Elapse, H!Pin, H!vars, H!databases, HostInv, HostTyped
<1>3. /\ disk' \in [H!Ids -> BackupSet]
      /\ \A c \in H!Ids : /\ disk'[c].stage = disk[c].stage
                          /\ disk'[c].gone = disk[c].gone /\ disk'[c].receipt = disk[c].receipt
  <2>1. CASE disk' = disk
    BY <2>1 DEF HostInv, HostTyped
  <2>2. CASE \E b \in H!Ids : H!Pin(b)
    <3>1. PICK b \in H!Ids : disk' = [disk EXCEPT ![b].pinned = TRUE]
      BY <2>2 DEF H!Pin
    <3>. QED BY <3>1 DEF HostInv, HostTyped, BackupSet
  <2>. QED BY <2>1, <2>2 DEF H!Delete, H!Elapse, H!vars
<1>4. \A p \in H!Procs : CopyFollows(p)'
  BY <1>1, <1>2, <1>3 DEF HostInv, CopyFollows
<1>5. H!CopiesAgree'
  BY <1>1, <1>3 DEF HostInv, H!CopiesAgree, H!Present
<1>6. HostTyped'
  BY <1>1, <1>2, <1>3 DEF HostInv, HostTyped
<1>. QED BY <1>1, <1>4, <1>5, <1>6 DEF HostInv

LEMMA HostStep ==
  ASSUME HostInv, [H!Next]_(H!vars) PROVE HostInv'
<1>1. CASE \E p \in H!Procs :
             \/ H!Die(p) \/ H!Command(p) \/ H!Begin(p) \/ H!CopyDatabase(p) \/ H!Complete(p)
             \/ H!Succeed(p) \/ H!List(p) \/ H!Discard(p) \/ H!End(p) \/ H!Fail(p)
  BY <1>1, BackupGoesOn, BackupBegins, BackupCopies, BackupRemoved, BackupFails
<1>. QED BY <1>1, HostStarts, Besides DEF H!Next

LEMMA BackupsAgree ==
  ASSUME HostConstants PROVE H!Spec => []H!CopiesAgree
<1>1. H!Init => HostInv
  BY HostInit
<1>2. HostInv /\ [H!Next]_(H!vars) => HostInv'
  BY HostStep
<1>3. HostInv => H!CopiesAgree
  BY DEF HostInv
<1>. QED BY <1>1, <1>2, <1>3, PTL DEF H!Spec

-----------------------------------------------------------------------------
(* PublishPanel: nothing unseen is followed, and the panel never goes back. *)

PanelDrafts == panelWorld.drafts
Statuses == P!Ongoing \cup {"cancelled", "succeeded"}
JobSet ==
  [draft : PanelDrafts, rev : Nat, key : Nat, base : Nat, status : Statuses, seen : Nat, parent : Nat]
DecisionSet == [job : Nat, kind : {"approved", "revoked"}, seen : Nat]
Kinds == {"none", "publish", "refresh", "other"} \cup P!Actions \cup P!Decisions
Stages == {"idle", "load", "check", "send", "wait"}
Shown == Statuses \cup {"none", "loading", "unavailable"}
SnapSet ==
  [draft : PanelDrafts \cup {P!None}, job : Nat, live : Nat, busy : BOOLEAN, checked : Nat, rev : Nat,
   status : Shown, approval : Nat, approved : BOOLEAN]
PostSet ==
  [kind : Kinds, key : Nat, draft : PanelDrafts \cup {P!None}, rev : Nat, base : Nat, job : Nat,
   approval : Nat]
ReadSet == [run : Nat, draft : PanelDrafts, snap : SnapSet]
ActSet == [kind : Kinds, stage : Stages, snap : SnapSet, post : PostSet]
RequestSet == [scope : Seq(Kinds \cup Shown \cup Nat \cup PanelDrafts), key : Nat]
PanelSet ==
  [draft : PanelDrafts \cup {P!None}, run : Nat, pending : BOOLEAN, expired : BOOLEAN, shown : SnapSet,
   stale : BOOLEAN, paused : BOOLEAN, monitoring : BOOLEAN, act : ActSet,
   publishRequest : RequestSet, recoveryRequest : RequestSet, lastKey : Nat]

\* the number of the publication that main showed last when it was l
Moment(l) == IF l > MaxJobs THEN l - MaxJobs ELSE l

\* Publications come one after the other, and what main shows is never older than one that
\* was deployed.
JobsTyped ==
  /\ panelWorld \in PanelWorlds
  /\ jobs \in Seq(JobSet) /\ Len(jobs) <= MaxJobs
  /\ live \in Nat /\ Moment(live) <= Len(jobs)
  /\ saved \in [PanelDrafts -> Nat]
  /\ decisions \in Seq(DecisionSet)
OneAfterAnother ==
  \A n \in DOMAIN jobs :
    /\ n < Len(jobs) => jobs[n].status \notin P!Ongoing
    /\ jobs[n].status \in {"deploying", "succeeded"} => n <= Moment(live)
    /\ Moment(jobs[n].base) < n
ServerInv == JobsTyped /\ OneAfterAnother /\ P!NothingUnseen

\* What was read of a draft is there, and main as it was read is older than every publication
\* of the draft that was not read.
Grounded(d, job, main, approval) ==
  /\ d \in PanelDrafts
  /\ job \in Nat /\ main \in Nat /\ approval \in Nat
  /\ job = P!None \/ (job \in DOMAIN jobs /\ jobs[job].draft = d)
  /\ Moment(main) <= Len(jobs)
  /\ \A m \in DOMAIN jobs : m > job /\ jobs[m].draft = d => m > Moment(main)
  /\ approval = P!None \/ (approval \in DOMAIN decisions /\ decisions[approval].job = job)
SnapOK(s) ==
  P!Read(s) => Grounded(s.draft, s.job, s.live, s.approval) /\ (s.job = P!None <=> s.status = "none")
PostOK(p) ==
  /\ Grounded(p.draft, p.job, p.base, p.approval)
  /\ p.kind \in {"publish"} \cup P!Actions \cup P!Decisions
  /\ p.kind \in P!Actions => p.job # P!None

\* Only the latest run of an open panel may be waiting for a read, and for one.
Newer(s, t) == s.job > t.job \/ (s.job = t.job /\ s.approval >= t.approval)
ReadFits(r) ==
  /\ r.run <= panel.run
  /\ P!Read(r.snap) => r.snap.draft = r.draft
  /\ P!Current(r) =>
       /\ panel.pending /\ r.draft = panel.draft
       /\ \A q \in reads : q.run = r.run => q = r
       /\ P!Read(r.snap) /\ P!Read(panel.shown) => Newer(r.snap, panel.shown)
PanelTyped == reads \subseteq ReadSet /\ posts \subseteq PostSet /\ panel \in PanelSet
PanelFits ==
  /\ P!Read(panel.shown) => panel.shown.draft = panel.draft
  /\ panel.draft = P!None => panel.act.stage = "idle"
  /\ panel.act.stage = "send" => P!Read(panel.act.snap)
Sound ==
  /\ \A r \in reads : SnapOK(r.snap)
  /\ \A p \in posts : PostOK(p)
  /\ SnapOK(panel.shown) /\ SnapOK(panel.act.snap)
PanelInv ==
  /\ ServerInv /\ PanelTyped /\ PanelFits /\ Sound
  /\ \A r \in reads : ReadFits(r)

-----------------------------------------------------------------------------
(* The greatest element. *)

Under == {ss \in Nat \X Nat : ss[1] < ss[2]}

LEMMA UnderIsWellFounded == IsWellFoundedOn(Under, Nat)
BY NatLessThanWellFounded DEF OpToRel, Under

LEMMA Greatest ==
  ASSUME NEW k \in Nat, NEW S \in SUBSET (1..k), S # {}
  PROVE  \E i \in S : \A j \in S : j <= i
<1>1. PICK T : T = {k - i : i \in S}
  OBVIOUS
<1>2. T \subseteq Nat /\ T # {}
  <2>1. \A i \in S : i \in 1..k /\ k - i \in Nat
    OBVIOUS
  <2>2. \A i \in S : k - i \in T
    BY <1>1
  <2>. QED BY <1>1, <2>1, <2>2
<1>3. PICK t \in T : \A u \in T : ~ (<<u, t>> \in Under)
  BY <1>2, UnderIsWellFounded, WFMin
<1>4. PICK i \in S : t = k - i
  BY <1>1
<1>5. ASSUME NEW j \in S PROVE j <= i
  <2>1. k - j \in T /\ ~ (k - j < k - i)
    BY <1>1, <1>2, <1>3, <1>4 DEF Under
  <2>. QED BY <2>1
<1>. QED BY <1>5

LEMMA LatestIs ==
  ASSUME NEW k \in Nat, NEW S \in SUBSET (1..k)
  PROVE  /\ P!Latest(S) \in Nat
         /\ P!Latest(S) = P!None => S = {}
         /\ P!Latest(S) # P!None => P!Latest(S) \in S
         /\ \A j \in S : j <= P!Latest(S)
<1>1. CASE S = {}
  BY <1>1 DEF P!Latest, P!None
<1>2. CASE S # {}
  <2>1. \E i \in S : \A j \in S : j <= i
    BY <1>2, Greatest
  <2>2. P!Latest(S) \in S /\ \A j \in S : j <= P!Latest(S)
    BY <1>2, <2>1 DEF P!Latest
  <2>3. PICK i \in S : i = P!Latest(S)
    BY <2>2
  <2>4. i \in Nat /\ i # P!None
    BY DEF P!None
  <2>. QED BY <1>2, <2>2, <2>3, <2>4
<1>. QED BY <1>1, <1>2

LEMMA JobOfIs ==
  ASSUME ServerInv, NEW d
  PROVE  /\ P!JobOf(d) \in Nat
         /\ P!JobOf(d) = P!None \/ (P!JobOf(d) \in DOMAIN jobs /\ jobs[P!JobOf(d)].draft = d)
         /\ \A m \in DOMAIN jobs : jobs[m].draft = d => m <= P!JobOf(d)
<1>1. PICK S : S = {n \in DOMAIN jobs : jobs[n].draft = d}
  OBVIOUS
<1>2. Len(jobs) \in Nat /\ DOMAIN jobs = 1..Len(jobs) /\ S \in SUBSET (1..Len(jobs))
  BY <1>1 DEF ServerInv, JobsTyped
<1>3. PICK a : a = P!JobOf(d)
  OBVIOUS
<1>4. a = P!Latest(S)
  BY <1>1, <1>3 DEF P!JobOf
<1>5. /\ a \in Nat /\ (a = P!None \/ a \in S)
      /\ \A i \in S : i <= a
  BY <1>2, <1>4, LatestIs
<1>. QED BY <1>1, <1>3, <1>5

LEMMA DecisionOnIs ==
  ASSUME ServerInv, NEW n
  PROVE  /\ P!DecisionOn(n) \in Nat
         /\ \/ P!DecisionOn(n) = P!None
            \/ P!DecisionOn(n) \in DOMAIN decisions /\ decisions[P!DecisionOn(n)].job = n
         /\ \A i \in DOMAIN decisions : decisions[i].job = n => i <= P!DecisionOn(n)
<1>1. PICK S : S = {i \in DOMAIN decisions : decisions[i].job = n}
  OBVIOUS
<1>2. Len(decisions) \in Nat /\ DOMAIN decisions = 1..Len(decisions) /\ S \in SUBSET (1..Len(decisions))
  BY <1>1 DEF ServerInv, JobsTyped
<1>3. PICK a : a = P!DecisionOn(n)
  OBVIOUS
<1>4. a = P!Latest(S)
  BY <1>1, <1>3 DEF P!DecisionOn
<1>5. /\ a \in Nat /\ (a = P!None \/ a \in S)
      /\ \A i \in S : i <= a
  BY <1>2, <1>4, LatestIs
<1>. QED BY <1>1, <1>3, <1>5

-----------------------------------------------------------------------------
(* What was read stays true as the server goes on.                         *)

Grows ==
  /\ panelWorld' = panelWorld
  /\ Len(jobs) <= Len(jobs')
  /\ \A n \in DOMAIN jobs : n \in DOMAIN jobs' /\ jobs'[n].draft = jobs[n].draft
  /\ \A i \in DOMAIN decisions : i \in DOMAIN decisions' /\ decisions'[i].job = decisions[i].job

LEMMA Lengths ==
  ASSUME JobsTyped
  PROVE  /\ Len(jobs) \in Nat /\ DOMAIN jobs = 1..Len(jobs)
         /\ Len(decisions) \in Nat /\ DOMAIN decisions = 1..Len(decisions)
         /\ \A n \in DOMAIN jobs : jobs[n] \in JobSet
         /\ \A i \in DOMAIN decisions : decisions[i] \in DecisionSet
BY DEF JobsTyped

LEMMA GroundedStays ==
  ASSUME PanelConstants, JobsTyped, JobsTyped', Grows,
         NEW d, NEW job, NEW main, NEW approval, Grounded(d, job, main, approval)
  PROVE  Grounded(d, job, main, approval)'
<1>1. d \in PanelDrafts' /\ job \in Nat /\ main \in Nat /\ approval \in Nat
  BY DEF Grounded, PanelDrafts, Grows
<1>2. job = P!None \/ (job \in DOMAIN jobs' /\ jobs'[job].draft = d)
  BY DEF Grounded, Grows
<1>3. Moment(main) \in Nat /\ Moment(main) <= Len(jobs) /\ Len(jobs) <= Len(jobs')
  BY DEF Grounded, Grows, Moment, PanelConstants
<1>4. /\ Len(jobs) \in Nat /\ DOMAIN jobs = 1..Len(jobs)
      /\ Len(jobs') \in Nat /\ DOMAIN jobs' = 1..Len(jobs')
  BY DEF JobsTyped
<1>5. ASSUME NEW m \in DOMAIN jobs', m > job, jobs'[m].draft = d
      PROVE  m > Moment(main)
  <2>1. CASE m \in DOMAIN jobs
    BY <1>5, <2>1 DEF Grounded, Grows
  <2>2. CASE m \notin DOMAIN jobs
    BY <1>3, <1>4, <1>5, <2>2
  <2>. QED BY <2>1, <2>2
<1>6. approval = P!None \/ (approval \in DOMAIN decisions' /\ decisions'[approval].job = job)
  BY DEF Grounded, Grows
<1>7. Moment(main) <= Len(jobs')
  BY <1>3, <1>4
<1>8. Moment(main)' = Moment(main)
  BY DEF Moment
<1>. QED BY <1>1, <1>2, <1>5, <1>6, <1>7, <1>8 DEF Grounded, P!None

LEMMA SnapStays ==
  ASSUME PanelConstants, JobsTyped, JobsTyped', Grows, NEW s, SnapOK(s) PROVE SnapOK(s)'
BY GroundedStays DEF SnapOK, P!Read, P!None

LEMMA PostStays ==
  ASSUME PanelConstants, JobsTyped, JobsTyped', Grows, NEW p, PostOK(p) PROVE PostOK(p)'
BY GroundedStays DEF PostOK, P!None

LEMMA SoundKept ==
  ASSUME PanelConstants, JobsTyped, JobsTyped', Grows, Sound,
         \A r \in reads' : (\E q \in reads : q.snap = r.snap) \/ SnapOK(r.snap)',
         \A p \in posts' : p \in posts \/ PostOK(p)',
         NEW s, s = panel'.shown, s = panel.shown \/ SnapOK(s)',
         NEW t, t = panel'.act.snap, t = panel.act.snap \/ t = panel.shown \/ SnapOK(t)'
  PROVE  Sound'
<1>1. ASSUME NEW r \in reads' PROVE SnapOK(r.snap)'
  BY <1>1, SnapStays DEF Sound
<1>2. ASSUME NEW p \in posts' PROVE PostOK(p)'
  BY <1>2, PostStays DEF Sound
<1>3. SnapOK(s)' /\ SnapOK(t)'
  BY SnapStays DEF Sound
<1>4. SnapOK(panel.shown)' /\ SnapOK(panel.act.snap)'
  BY <1>3
<1>. QED BY <1>1, <1>2, <1>4 DEF Sound

LEMMA ServerStays ==
  ASSUME ServerInv, UNCHANGED <<panelWorld, jobs, live, decisions, saved>>
  PROVE  ServerInv' /\ Grows
<1>1. JobsTyped'
  BY DEF ServerInv, JobsTyped, PanelDrafts, JobSet, Statuses, P!Ongoing, DecisionSet, Moment
<1>2. OneAfterAnother'
  BY DEF ServerInv, OneAfterAnother, Moment, P!Ongoing
<1>3. P!NothingUnseen'
  BY DEF ServerInv, P!NothingUnseen
<1>4. Grows
  BY DEF Grows, ServerInv, JobsTyped
<1>. QED BY <1>1, <1>2, <1>3, <1>4 DEF ServerInv

\* A publication's status changes, and main with it when it is deployed.
LEMMA StatusChanges ==
  ASSUME PanelConstants, ServerInv, NEW n \in DOMAIN jobs, NEW to \in Statuses,
         jobs[n].status \in P!Ongoing,
         jobs' = [jobs EXCEPT ![n].status = to],
         \/ UNCHANGED live /\ (to = "succeeded" => jobs[n].status = "deploying") /\ to # "deploying"
         \/ to = "deploying" /\ live' = n,
         UNCHANGED <<panelWorld, decisions, saved>>
  PROVE  ServerInv' /\ Grows
<1>1. /\ jobs \in Seq(JobSet) /\ Len(jobs) \in Nat /\ DOMAIN jobs = 1..Len(jobs)
      /\ \A m \in DOMAIN jobs : jobs[m] \in JobSet
      /\ Len(jobs) <= MaxJobs /\ MaxJobs \in Nat
  BY Lengths DEF ServerInv, JobsTyped, PanelConstants
<1>2. PICK x : x = [jobs[n] EXCEPT !.status = to]
  OBVIOUS
<1>3. /\ x \in JobSet /\ x.status = to /\ x.draft = jobs[n].draft /\ x.base = jobs[n].base
      /\ x.seen = jobs[n].seen
  BY <1>1, <1>2 DEF JobSet
<1>4. /\ jobs' \in Seq(JobSet) /\ Len(jobs') = Len(jobs) /\ DOMAIN jobs' = DOMAIN jobs
      /\ \A m \in DOMAIN jobs : jobs'[m] = IF m = n THEN x ELSE jobs[m]
  <2>1. jobs' = [jobs EXCEPT ![n] = x]
    BY <1>2
  <2>. QED BY <1>1, <1>3, <2>1
<1>5. n = Len(jobs)
  BY <1>1 DEF ServerInv, OneAfterAnother
<1>6. Moment(live) <= Moment(live') /\ Moment(live') <= Len(jobs) /\ live' \in Nat
  BY <1>1, <1>5 DEF ServerInv, JobsTyped, Moment
<1>7. JobsTyped'
  <2>1. JobSet' = JobSet /\ DecisionSet' = DecisionSet /\ PanelDrafts' = PanelDrafts
    BY DEF JobSet, DecisionSet, PanelDrafts, Statuses
  <2>2. Moment(live)' = Moment(live')
    BY DEF Moment
  <2>. QED BY <1>1, <1>4, <1>6, <2>1, <2>2 DEF ServerInv, JobsTyped
<1>8. OneAfterAnother'
  <2>0. Moment(live)' = Moment(live') /\ Moment(live) \in Nat /\ Moment(live') \in Nat
    BY <1>6, <1>1 DEF Moment, ServerInv, JobsTyped
  <2>1. ASSUME NEW m \in DOMAIN jobs, m # n
        PROVE  /\ m < Len(jobs') => jobs'[m].status \notin P!Ongoing
               /\ jobs'[m].status \in {"deploying", "succeeded"} => m <= Moment(live')
               /\ Moment(jobs'[m].base) < m
    BY <1>1, <1>4, <1>6, <2>0, <2>1 DEF ServerInv, OneAfterAnother
  <2>2. ~ (n < Len(jobs'))
    BY <1>1, <1>4, <1>5
  <2>3. Moment(jobs'[n].base) < n
    BY <1>3, <1>4 DEF ServerInv, OneAfterAnother
  <2>4. to \in {"deploying", "succeeded"} => n <= Moment(live')
    <3>1. CASE to = "deploying" /\ live' = n
      BY <1>1, <3>1 DEF Moment
    <3>2. CASE UNCHANGED live /\ (to = "succeeded" => jobs[n].status = "deploying") /\ to # "deploying"
      BY <3>2 DEF ServerInv, OneAfterAnother
    <3>. QED BY <3>1, <3>2
  <2>5. \A m \in DOMAIN jobs : Moment(jobs[m].base)' = Moment(jobs'[m].base)
    BY DEF Moment
  <2>. QED BY <1>3, <1>4, <2>0, <2>1, <2>2, <2>3, <2>4, <2>5 DEF OneAfterAnother
<1>9. P!NothingUnseen'
  <2>1. \A m \in DOMAIN jobs : jobs'[m].draft = jobs[m].draft /\ jobs'[m].seen = jobs[m].seen
    BY <1>3, <1>4
  <2>2. \A m \in DOMAIN jobs : jobs[m].status = "cancelled" => jobs'[m].status = "cancelled"
    BY <1>4 DEF P!Ongoing
  <2>. QED BY <1>4, <2>1, <2>2 DEF ServerInv, P!NothingUnseen
<1>10. Grows
  BY <1>3, <1>4, <1>1 DEF Grows
<1>. QED BY <1>7, <1>8, <1>9, <1>10 DEF ServerInv

\* A publication is captured when no other is going on, and follows those of its draft.
LEMMA Captures ==
  ASSUME PanelConstants, ServerInv, ~ P!Busy, NEW x \in JobSet, jobs' = Append(jobs, x),
         Len(jobs) < MaxJobs, x.base = live, x.status = "queued",
         \A m \in DOMAIN jobs : jobs[m].draft = x.draft => jobs[m].status = "cancelled" \/ x.seen >= m,
         UNCHANGED <<panelWorld, live, decisions, saved>>
  PROVE  ServerInv' /\ Grows
<1>1. /\ jobs \in Seq(JobSet) /\ Len(jobs) \in Nat /\ DOMAIN jobs = 1..Len(jobs)
      /\ \A m \in DOMAIN jobs : jobs[m] \in JobSet
      /\ MaxJobs \in Nat
  BY Lengths DEF ServerInv, JobsTyped, PanelConstants
<1>2. /\ jobs' \in Seq(JobSet) /\ Len(jobs') = Len(jobs) + 1 /\ DOMAIN jobs' = 1..(Len(jobs) + 1)
      /\ \A m \in DOMAIN jobs : jobs'[m] = jobs[m]
      /\ jobs'[Len(jobs) + 1] = x
  BY <1>1
<1>3. Moment(live)' = Moment(live) /\ Moment(live) \in Nat /\ Moment(live) <= Len(jobs) /\ live \in Nat
  BY <1>1 DEF Moment, ServerInv, JobsTyped
<1>4. JobsTyped'
  <2>1. JobSet' = JobSet /\ DecisionSet' = DecisionSet /\ PanelDrafts' = PanelDrafts
    BY DEF JobSet, DecisionSet, PanelDrafts, Statuses
  <2>2. Len(jobs') <= MaxJobs /\ Moment(live)' <= Len(jobs')
    BY <1>1, <1>2, <1>3
  <2>. QED BY <1>2, <1>3, <2>1, <2>2 DEF ServerInv, JobsTyped
<1>5. OneAfterAnother'
  <2>1. \A m \in DOMAIN jobs : Moment(jobs[m].base)' = Moment(jobs[m].base)
    BY <1>2 DEF Moment
  <2>2. Moment(x.base) = Moment(live) /\ Moment(jobs'[Len(jobs) + 1].base) = Moment(x.base)
    BY <1>2
  <2>3. ASSUME NEW m \in DOMAIN jobs
        PROVE  /\ jobs'[m].status \notin P!Ongoing
               /\ jobs'[m].status \in {"deploying", "succeeded"} => m <= Moment(live)
               /\ Moment(jobs[m].base)' < m
    BY <1>2, <2>1 DEF ServerInv, OneAfterAnother, P!Busy
  <2>4. /\ ~ (Len(jobs) + 1 < Len(jobs'))
        /\ jobs'[Len(jobs) + 1].status \notin {"deploying", "succeeded"}
        /\ Moment(jobs'[Len(jobs) + 1].base) < Len(jobs) + 1
    BY <1>1, <1>2, <1>3, <2>2
  <2>5. \A m \in DOMAIN jobs' : Moment(jobs[m].base)' = Moment(jobs'[m].base)
    BY DEF Moment
  <2>6. \A m \in DOMAIN jobs' : m \in DOMAIN jobs \/ m = Len(jobs) + 1
    BY <1>1, <1>2
  <2>. QED BY <1>3, <2>3, <2>4, <2>5, <2>6 DEF OneAfterAnother
<1>6. P!NothingUnseen'
  <2>1. \A m \in DOMAIN jobs' : m \in DOMAIN jobs \/ m = Len(jobs) + 1
    BY <1>1, <1>2
  <2>2. ASSUME NEW m \in DOMAIN jobs', NEW n \in DOMAIN jobs', m < n, jobs'[m].draft = jobs'[n].draft
        PROVE  jobs'[m].status = "cancelled" \/ jobs'[n].seen >= m
    <3>1. m \in DOMAIN jobs
      BY <1>1, <1>2, <2>2
    <3>2. CASE n \in DOMAIN jobs
      BY <1>2, <2>2, <3>1, <3>2 DEF ServerInv, P!NothingUnseen
    <3>3. CASE n = Len(jobs) + 1
      BY <1>2, <2>2, <3>1, <3>3
    <3>. QED BY <2>1, <3>2, <3>3
  <2>. QED BY <2>2 DEF ServerInv, P!NothingUnseen
<1>7. Grows
  BY <1>1, <1>2 DEF Grows
<1>. QED BY <1>4, <1>5, <1>6, <1>7 DEF ServerInv

LEMMA DecidesOn ==
  ASSUME PanelConstants, ServerInv, NEW x \in DecisionSet, decisions' = Append(decisions, x),
         \A i \in DOMAIN decisions : decisions[i].job = x.job => x.seen >= i,
         UNCHANGED <<panelWorld, live, jobs, saved>>
  PROVE  ServerInv' /\ Grows
<1>1. /\ decisions \in Seq(DecisionSet) /\ Len(decisions) \in Nat
      /\ DOMAIN decisions = 1..Len(decisions)
  BY Lengths DEF ServerInv, JobsTyped
<1>2. /\ decisions' \in Seq(DecisionSet) /\ DOMAIN decisions' = 1..(Len(decisions) + 1)
      /\ \A i \in DOMAIN decisions : decisions'[i] = decisions[i]
      /\ decisions'[Len(decisions) + 1] = x
  BY <1>1
<1>3. JobsTyped'
  <2>1. JobSet' = JobSet /\ DecisionSet' = DecisionSet /\ PanelDrafts' = PanelDrafts
    BY DEF JobSet, DecisionSet, PanelDrafts, Statuses
  <2>2. Moment(live)' = Moment(live)
    BY DEF Moment
  <2>. QED BY <1>2, <2>1, <2>2 DEF ServerInv, JobsTyped
<1>4. OneAfterAnother'
  BY DEF ServerInv, OneAfterAnother, Moment, P!Ongoing
<1>5. P!NothingUnseen'
  <2>1. ASSUME NEW i \in DOMAIN decisions', NEW j \in DOMAIN decisions', i < j,
               decisions'[i].job = decisions'[j].job
        PROVE  decisions'[j].seen >= i
    <3>1. i \in DOMAIN decisions
      BY <1>1, <1>2, <2>1
    <3>2. CASE j \in DOMAIN decisions
      BY <1>2, <2>1, <3>1, <3>2 DEF ServerInv, P!NothingUnseen
    <3>3. CASE j = Len(decisions) + 1
      BY <1>2, <2>1, <3>1, <3>3
    <3>. QED BY <1>1, <1>2, <3>2, <3>3
  <2>. QED BY <2>1 DEF ServerInv, P!NothingUnseen
<1>6. Grows
  BY <1>1, <1>2 DEF Grows, ServerInv, JobsTyped
<1>. QED BY <1>3, <1>4, <1>5, <1>6 DEF ServerInv

LEMMA Pushes ==
  ASSUME PanelConstants, ServerInv, P!Push
  PROVE  ServerInv' /\ Grows
<1>1. live \in DOMAIN jobs /\ live' = MaxJobs + live /\ UNCHANGED <<panelWorld, jobs, decisions, saved>>
  BY DEF P!Push, P!Pushed
<1>2. live \in Nat /\ live >= 1 /\ live <= MaxJobs /\ MaxJobs \in Nat
  BY <1>1, Lengths DEF ServerInv, JobsTyped, PanelConstants
<1>3. Moment(live)' = Moment(live) /\ live' \in Nat
  BY <1>1, <1>2 DEF Moment
<1>4. JobsTyped'
  <2>1. JobSet' = JobSet /\ DecisionSet' = DecisionSet /\ PanelDrafts' = PanelDrafts
    BY <1>1 DEF JobSet, DecisionSet, PanelDrafts, Statuses
  <2>. QED BY <1>1, <1>3, <2>1 DEF ServerInv, JobsTyped
<1>5. OneAfterAnother'
  <2>1. \A n \in DOMAIN jobs : Moment(jobs[n].base)' = Moment(jobs[n].base)
    BY <1>1 DEF Moment
  <2>. QED BY <1>1, <1>3, <2>1 DEF ServerInv, OneAfterAnother
<1>6. P!NothingUnseen'
  BY <1>1 DEF ServerInv, P!NothingUnseen
<1>7. Grows
  BY <1>1, Lengths DEF Grows, ServerInv
<1>. QED BY <1>4, <1>5, <1>6, <1>7 DEF ServerInv

LEMMA SavesDraft ==
  ASSUME ServerInv, NEW d \in PanelDrafts, saved' = [saved EXCEPT ![d] = 2],
         UNCHANGED <<panelWorld, jobs, live, decisions>>
  PROVE  ServerInv' /\ Grows
<1>1. JobsTyped'
  <2>1. JobSet' = JobSet /\ DecisionSet' = DecisionSet /\ PanelDrafts' = PanelDrafts
    BY DEF JobSet, DecisionSet, PanelDrafts, Statuses
  <2>2. saved' \in [PanelDrafts -> Nat]
    BY DEF ServerInv, JobsTyped
  <2>. QED BY <2>1, <2>2 DEF ServerInv, JobsTyped, Moment
<1>2. OneAfterAnother'
  BY DEF ServerInv, OneAfterAnother, Moment, P!Ongoing
<1>3. P!NothingUnseen'
  BY DEF ServerInv, P!NothingUnseen
<1>4. Grows
  BY Lengths DEF Grows, ServerInv
<1>. QED BY <1>1, <1>2, <1>3, <1>4 DEF ServerInv

\* What follows a publication that was not shown follows one that was cancelled.
LEMMA CaptureFollows ==
  ASSUME PanelConstants, ServerInv, NEW p \in PostSet, PostOK(p),
         \/ p.kind = "publish" /\ P!MayCapture(p)
         \/ p.kind = "retry-captured" /\ P!MayRetryCaptured(p),
         NEW m \in DOMAIN jobs, jobs[m].draft = p.draft
  PROVE  jobs[m].status = "cancelled" \/ p.job >= m
<1>1. SUFFICES ASSUME ~ (p.job >= m) PROVE jobs[m].status = "cancelled"
  OBVIOUS
<1>2. p.job \in Nat /\ m \in Nat /\ Moment(live) \in Nat
  BY Lengths DEF PostSet, ServerInv, JobsTyped, Moment, PanelConstants
<1>3. jobs[m] \in JobSet /\ jobs[m].status \notin P!Ongoing
  BY Lengths DEF P!MayCapture, P!MayRetryCaptured, P!Busy, ServerInv
<1>4. m > Moment(live)
  <2>1. CASE p.kind = "publish" /\ P!MayCapture(p)
    BY <1>1, <1>2, <2>1 DEF P!MayCapture, PostOK, Grounded
  <2>2. CASE p.kind = "retry-captured" /\ P!MayRetryCaptured(p)
    <3>1. p.job \in DOMAIN jobs
      BY <2>2 DEF PostOK, Grounded, P!Actions
    <3>2. jobs[p.job].base = live /\ Moment(jobs[p.job].base) < p.job
      BY <2>2, <3>1 DEF P!MayRetryCaptured, ServerInv, OneAfterAnother
    <3>. QED BY <1>1, <1>2, <3>2
  <2>. QED BY <2>1, <2>2
<1>5. jobs[m].status \notin {"deploying", "succeeded"}
  BY <1>2, <1>4 DEF ServerInv, OneAfterAnother
<1>. QED BY <1>3, <1>5 DEF JobSet, Statuses

LEMMA CarriesOut ==
  ASSUME PanelConstants, ServerInv, NEW p \in PostSet, PostOK(p),
         P!Accepted(p), P!WithinBounds(p), P!CarryOut(p), UNCHANGED <<panelWorld, live, saved>>
  PROVE  ServerInv' /\ Grows
<1>1. p.draft \in PanelDrafts /\ p.job \in Nat /\ p.approval \in Nat /\ p.rev \in Nat /\ p.key \in Nat
  BY DEF PostOK, Grounded, PostSet
<1>2. CASE p.kind \in P!Captures
  <2>1. CASE P!HasKey(p)
    <3>1. UNCHANGED <<jobs, decisions>>
      BY <1>2, <2>1 DEF P!CarryOut, P!Captures, P!Decisions
    <3>. QED BY <3>1, ServerStays
  <2>2. CASE ~ P!HasKey(p)
    <3>1. PICK x : x = P!Job(p)
      OBVIOUS
    <3>2. jobs' = Append(jobs, x) /\ UNCHANGED decisions /\ Len(jobs) < MaxJobs
      BY <1>2, <2>2, <3>1 DEF P!CarryOut, P!Captures, P!Decisions, P!WithinBounds
    <3>3. \/ p.kind = "publish" /\ P!MayCapture(p)
          \/ p.kind = "retry-captured" /\ P!MayRetryCaptured(p)
      BY <1>2, <2>2 DEF P!Accepted, P!Captures
    <3>4. ~ P!Busy
      BY <3>3 DEF P!MayCapture, P!MayRetryCaptured
    <3>5. live \in Nat
      BY DEF ServerInv, JobsTyped
    <3>6. /\ x \in JobSet /\ x.base = live /\ x.status = "queued" /\ x.draft = p.draft
          /\ x.seen = p.job
      BY <1>1, <3>1, <3>5 DEF P!Job, JobSet, Statuses, P!Ongoing, P!None
    <3>7. \A m \in DOMAIN jobs : jobs[m].draft = x.draft => jobs[m].status = "cancelled" \/ x.seen >= m
      BY <3>3, <3>6, CaptureFollows
    <3>. QED BY <3>2, <3>4, <3>6, <3>7, Captures
  <2>. QED BY <2>1, <2>2
<1>3. CASE p.kind \in P!Decisions
  <2>1. PICK x : x = P!Decision(p)
    OBVIOUS
  <2>2. decisions' = Append(decisions, x) /\ UNCHANGED jobs
    BY <1>3, <2>1 DEF P!CarryOut, P!Captures, P!Decisions
  <2>3. x \in DecisionSet /\ x.job = p.job /\ x.seen = p.approval
    BY <1>1, <2>1 DEF P!Decision, DecisionSet
  <2>4. P!DecisionOn(p.job) = p.approval
    BY <1>3 DEF P!Accepted, P!Decisions, P!MayAccept, P!MayRevoke
  <2>5. \A i \in DOMAIN decisions : decisions[i].job = x.job => x.seen >= i
    <3>1. \A i \in DOMAIN decisions : decisions[i].job = p.job => i <= P!DecisionOn(p.job)
      BY DecisionOnIs
    <3>2. \A i \in DOMAIN decisions : i \in Nat
      BY Lengths DEF ServerInv
    <3>. QED BY <1>1, <2>3, <2>4, <3>1, <3>2
  <2>. QED BY <2>2, <2>3, <2>5, DecidesOn
<1>4. CASE p.kind \notin P!Captures /\ p.kind \notin P!Decisions
  <2>1. /\ p.kind \in {"retry", "cancel", "reconcile", "verify-completed"}
        /\ P!MayRecover(p) /\ p.job \in DOMAIN jobs
    BY <1>4 DEF PostOK, Grounded, P!Captures, P!Decisions, P!Actions, P!Accepted
  <2>2. PICK to : to = P!Recovered(p)
    OBVIOUS
  <2>3. jobs' = [jobs EXCEPT ![p.job].status = to] /\ UNCHANGED decisions
    BY <1>4, <2>2 DEF P!CarryOut
  <2>4. to \in Statuses /\ to # "deploying"
    BY <2>1, <2>2 DEF P!Recovered, Statuses, P!Ongoing
  <2>5. jobs[p.job].status \in P!Ongoing
    BY <2>1 DEF P!MayRecover, P!Ongoing
  <2>6. to = "succeeded" => jobs[p.job].status = "deploying"
    BY <2>1, <2>2 DEF P!MayRecover, P!Recovered
  <2>. QED BY <2>1, <2>3, <2>4, <2>5, <2>6, StatusChanges
<1>. QED BY <1>2, <1>3, <1>4

LEMMA Proceeds ==
  ASSUME PanelConstants, ServerInv, NEW n \in DOMAIN jobs, NEW next, P!Proceed(n, next)
  PROVE  ServerInv' /\ Grows
<1>1. /\ jobs' = [jobs EXCEPT ![n].status = next] /\ UNCHANGED <<panelWorld, decisions, saved>>
      /\ live' = IF next = "deploying" THEN n ELSE live
  BY DEF P!Proceed
<1>2. jobs[n].status \in P!Ongoing /\ next \in Statuses
  BY DEF P!Proceed, P!Ongoing, Statuses
<1>3. next = "succeeded" => jobs[n].status = "deploying"
  BY DEF P!Proceed
<1>. QED BY <1>1, <1>2, <1>3, StatusChanges

-----------------------------------------------------------------------------
(* The panel's own state.                                                  *)

LEMMA TypesStay ==
  ASSUME panelWorld' = panelWorld
  PROVE  /\ SnapSet' = SnapSet /\ PostSet' = PostSet /\ ReadSet' = ReadSet /\ PanelSet' = PanelSet
         /\ PanelDrafts' = PanelDrafts
<1>1. PanelDrafts' = PanelDrafts
  BY DEF PanelDrafts
<1>2. SnapSet' = SnapSet /\ PostSet' = PostSet /\ RequestSet' = RequestSet
  BY <1>1 DEF SnapSet, PostSet, RequestSet
<1>3. ReadSet' = ReadSet /\ ActSet' = ActSet
  BY <1>1, <1>2 DEF ReadSet, ActSet
<1>. QED BY <1>1, <1>2, <1>3 DEF PanelSet

LEMMA NothingReadTyped ==
  /\ P!Loading \in SnapSet /\ ~ P!Read(P!Loading)
  /\ P!Unavailable \in SnapSet /\ ~ P!Read(P!Unavailable)
BY DEF P!Loading, P!Unavailable, P!NotRead, SnapSet, Shown, P!Read, P!None

LEMMA IdleTyped == P!Idle \in ActSet /\ P!Idle.stage = "idle" /\ P!Idle.snap = P!Loading
<1>1. P!NoPost \in PostSet
  BY DEF P!NoPost, PostSet, Kinds, P!None
<1>. QED BY <1>1, NothingReadTyped DEF P!Idle, ActSet, Kinds, Stages

LEMMA ClosedTyped ==
  /\ P!Closed \in PanelSet /\ P!Closed.draft = P!None /\ P!Closed.shown = P!Loading
  /\ P!Closed.pending = FALSE /\ P!Closed.act = P!Idle
<1>1. P!NoRequest \in RequestSet
  BY DEF P!NoRequest, RequestSet, P!None
<1>. QED BY <1>1, IdleTyped, NothingReadTyped DEF P!Closed, PanelSet, P!None

LEMMA SnapshotIs ==
  ASSUME ServerInv, NEW d \in PanelDrafts, PanelConstants
  PROVE  LET s == P!Snapshot(d) IN
         /\ s \in SnapSet /\ SnapOK(s) /\ P!Read(s) /\ s.draft = d
         /\ \A job, main, approval : Grounded(d, job, main, approval) =>
              s.job > job \/ (s.job = job /\ s.approval >= approval)
<1>1. PICK n : n = P!JobOf(d)
  OBVIOUS
<1>2. PICK a : a = P!DecisionOn(n)
  OBVIOUS
<1>3. PICK s : s = P!Snapshot(d)
  OBVIOUS
<1>4. /\ n \in Nat /\ (n = P!None \/ (n \in DOMAIN jobs /\ jobs[n].draft = d))
      /\ \A m \in DOMAIN jobs : jobs[m].draft = d => m <= n
  BY <1>1, JobOfIs
<1>5. /\ a \in Nat /\ (a = P!None \/ (a \in DOMAIN decisions /\ decisions[a].job = n))
      /\ \A i \in DOMAIN decisions : decisions[i].job = n => i <= a
  BY <1>2, DecisionOnIs
<1>6. /\ s.draft = d /\ s.job = n /\ s.live = live /\ s.approval = a
      /\ s.status = IF n = P!None THEN "none" ELSE jobs[n].status
  BY <1>1, <1>2, <1>3 DEF P!Snapshot
<1>7. live \in Nat /\ Moment(live) \in Nat /\ Moment(live) <= Len(jobs) /\ saved[d] \in Nat
  BY DEF ServerInv, JobsTyped, Moment, PanelConstants
<1>8. n # P!None => jobs[n] \in JobSet
  BY <1>4, Lengths DEF ServerInv
<1>9. s \in SnapSet
  <2>1. P!Busy \in BOOLEAN /\ P!Approved(a) \in BOOLEAN
    BY DEF P!Busy, P!Approved
  <2>2. (IF n = P!None THEN P!None ELSE jobs[n].rev) \in Nat
    BY <1>8 DEF JobSet, P!None
  <2>3. (IF n = P!None THEN "none" ELSE jobs[n].status) \in Shown
    BY <1>8 DEF JobSet, Shown
  <2>4. (IF d \in checked THEN saved[d] ELSE P!None) \in Nat
    BY <1>7 DEF P!None
  <2>. QED BY <1>1, <1>2, <1>3, <1>4, <1>5, <1>7, <2>1, <2>2, <2>3, <2>4 DEF P!Snapshot, SnapSet
<1>10. Grounded(d, n, live, a)
  <2>1. ~ \E m \in DOMAIN jobs : m > n /\ jobs[m].draft = d
    BY <1>4, Lengths DEF ServerInv
  <2>. QED BY <1>4, <1>5, <1>7, <2>1 DEF Grounded
<1>11. n = P!None <=> s.status = "none"
  BY <1>6, <1>8 DEF JobSet, Statuses, P!Ongoing
<1>12. P!Read(s)
  BY <1>6 DEF P!Read, PanelConstants, PanelDrafts, ServerInv, JobsTyped
<1>13. ASSUME NEW job, NEW main, NEW approval, Grounded(d, job, main, approval)
       PROVE  n > job \/ (n = job /\ a >= approval)
  <2>1. /\ job \in Nat /\ approval \in Nat
        /\ job = P!None \/ (job \in DOMAIN jobs /\ jobs[job].draft = d)
        /\ approval = P!None \/ (approval \in DOMAIN decisions /\ decisions[approval].job = job)
    BY <1>13 DEF Grounded
  <2>2. n >= job
    BY <1>4, <2>1 DEF P!None
  <2>3. n = job => a >= approval
    BY <1>5, <2>1 DEF P!None
  <2>. QED BY <1>4, <2>1, <2>2, <2>3
<1>14. SnapOK(s)
  BY <1>6, <1>10, <1>11 DEF SnapOK
<1>15. \A job, main, approval : Grounded(d, job, main, approval) =>
              s.job > job \/ (s.job = job /\ s.approval >= approval)
  BY <1>6, <1>13
<1>. QED BY <1>3, <1>6, <1>9, <1>12, <1>14, <1>15

LEMMA AfterReadIs ==
  ASSUME NEW q \in PanelSet, NEW s \in SnapSet, NEW z, z = P!AfterRead(q, s)
  PROVE  /\ z \in PanelSet /\ z.draft = q.draft /\ z.run = q.run /\ z.pending = q.pending
         /\ z.shown = q.shown
         /\ \/ z.act = q.act
            \/ z.act = P!Idle
            \/ q.act.stage = "load" /\ z.act.snap = s /\ P!Read(s)
<1>1. q.act \in ActSet
  BY DEF PanelSet
<1>2. CASE q.act.stage # "load"
  BY <1>2 DEF P!AfterRead
<1>3. CASE q.act.stage = "load" /\ q.act.kind = "refresh"
  <2>1. z = [q EXCEPT !.act = P!Idle, !.monitoring = P!Read(s)]
    BY <1>3 DEF P!AfterRead
  <2>2. P!Read(s) \in BOOLEAN
    BY DEF P!Read
  <2>. QED BY <2>1, <2>2, IdleTyped DEF PanelSet
<1>4. CASE q.act.stage = "load" /\ q.act.kind = "publish" /\ q.act.post = P!NoPost /\ P!Read(s) /\ ~ s.busy
  <2>1. z = [q EXCEPT !.act.stage = "send", !.act.snap = s]
    BY <1>4 DEF P!AfterRead
  <2>2. PICK y : y = [q.act EXCEPT !.stage = "send", !.snap = s]
    OBVIOUS
  <2>3. y \in ActSet /\ y.snap = s
    BY <1>1, <2>2 DEF ActSet, Stages
  <2>4. z = [q EXCEPT !.act = y]
    BY <1>1, <2>1, <2>2 DEF ActSet, PanelSet
  <2>. QED BY <1>4, <2>3, <2>4 DEF PanelSet
<1>5. CASE /\ q.act.stage = "load" /\ q.act.kind # "refresh"
           /\ ~ (q.act.kind = "publish" /\ q.act.post = P!NoPost /\ P!Read(s) /\ ~ s.busy)
  <2>1. z = [q EXCEPT !.act = P!Idle]
    BY <1>5 DEF P!AfterRead
  <2>. QED BY <2>1, IdleTyped DEF PanelSet
<1>. QED BY <1>2, <1>3, <1>4, <1>5

\* A step that leaves the reads, and what the panel knows of them.
LEMMA Steady ==
  ASSUME PanelInv, panelWorld' = panelWorld, NEW x \in PanelSet, panel' = x, reads' = reads,
         x.draft = panel.draft, x.run = panel.run, x.pending = panel.pending, x.shown = panel.shown,
         x.draft = P!None => x.act.stage = "idle",
         x.act.stage = "send" => P!Read(x.act.snap)
  PROVE  reads' \subseteq ReadSet' /\ panel' \in PanelSet' /\ PanelFits' /\ \A r \in reads' : ReadFits(r)'
<1>1. reads' \subseteq ReadSet' /\ panel' \in PanelSet'
  BY TypesStay DEF PanelInv, PanelTyped
<1>2. PanelFits'
  BY DEF PanelInv, PanelFits, P!Read
<1>3. ASSUME NEW r \in reads PROVE ReadFits(r)'
  BY <1>3 DEF PanelInv, ReadFits, P!Read, P!Current, Newer
<1>. QED BY <1>1, <1>2, <1>3

LEMMA Loads ==
  ASSUME PanelInv, panelWorld' = panelWorld, NEW p \in PanelSet, P!Load(p),
         p.draft # P!None, p.draft = panel.draft, p.run = panel.run, p.pending = panel.pending,
         p.shown = panel.shown, p.act.stage = "send" => P!Read(p.act.snap)
  PROVE  /\ reads' \subseteq ReadSet' /\ panel' \in PanelSet' /\ PanelFits'
         /\ \A r \in reads' : ReadFits(r)' /\ (r \in reads \/ ~ P!Read(r.snap))
         /\ panel'.shown = panel.shown /\ panel'.act = p.act
<1>1. PICK x : x = P!ReadOf(p.run, p.draft)
  OBVIOUS
<1>2. PICK y : y = [p EXCEPT !.pending = TRUE, !.expired = FALSE]
  OBVIOUS
<1>3. /\ y \in PanelSet /\ y.draft = panel.draft /\ y.run = panel.run /\ y.pending = TRUE
      /\ y.shown = panel.shown /\ y.act = p.act
  BY <1>2 DEF PanelSet
<1>4. panel' = y /\ reads' = IF panel.pending THEN reads ELSE reads \cup {x}
  BY <1>1, <1>2 DEF P!Load
<1>5. x.run = panel.run /\ x.draft = panel.draft /\ ~ P!Read(x.snap) /\ x \in ReadSet
  BY <1>1, NothingReadTyped DEF P!ReadOf, ReadSet, PanelSet
<1>6. reads \subseteq ReadSet /\ panel \in PanelSet /\ \A r \in reads : ReadFits(r)
  BY DEF PanelInv, PanelTyped
<1>7. reads' \subseteq ReadSet' /\ panel' \in PanelSet'
  BY <1>3, <1>4, <1>5, <1>6, TypesStay
<1>8. PanelFits'
  BY <1>3, <1>4 DEF PanelInv, PanelFits, P!Read
<1>9. ASSUME NEW r \in reads PROVE ReadFits(r)'
  <2>1. r.run <= panel.run /\ (P!Read(r.snap) => r.snap.draft = r.draft)
    BY <1>6 DEF ReadFits
  <2>2. CASE r.run = panel.run
    <3>1. P!Current(r)
      BY <2>2, <1>3 DEF P!Current
    <3>2. /\ panel.pending /\ r.draft = panel.draft /\ \A q \in reads : q.run = r.run => q = r
          /\ P!Read(r.snap) /\ P!Read(panel.shown) => Newer(r.snap, panel.shown)
      BY <1>6, <3>1 DEF ReadFits
    <3>3. reads' = reads
      BY <1>4, <3>2
    <3>. QED BY <2>1, <3>2, <3>3, <1>3, <1>4 DEF ReadFits, P!Read, Newer
  <2>3. CASE r.run # panel.run
    <3>1. ~ P!Current(r)'
      BY <2>3, <1>3, <1>4 DEF P!Current
    <3>. QED BY <2>1, <3>1, <1>3, <1>4 DEF ReadFits, P!Read
  <2>. QED BY <2>2, <2>3
<1>10. ASSUME ~ panel.pending PROVE ReadFits(x)'
  <2>1. \A q \in reads : q.run # panel.run
    BY <1>6, <1>10 DEF ReadFits, P!Current
  <2>2. \A q \in reads' : q.run = x.run => q = x
    BY <1>4, <1>5, <1>10, <2>1
  <2>3. x.run <= panel'.run /\ panel'.pending /\ x.draft = panel'.draft
    BY <1>3, <1>4, <1>5, <1>6 DEF PanelSet
  <2>. QED BY <1>5, <2>2, <2>3 DEF ReadFits, P!Read
<1>11. ASSUME NEW r \in reads' PROVE ReadFits(r)' /\ (r \in reads \/ ~ P!Read(r.snap))
  <2>1. CASE r \in reads
    BY <1>9, <2>1
  <2>2. CASE r \notin reads
    BY <1>4, <1>5, <1>10, <1>11, <2>2
  <2>. QED BY <2>1, <2>2
<1>. QED BY <1>3, <1>4, <1>7, <1>8, <1>11

\* What the panel shows is never older than what it showed.
Forward ==
  P!Read(panel.shown) /\ P!Read(panel'.shown) =>
    panel'.shown.draft = panel.shown.draft /\ Newer(panel'.shown, panel.shown)

LEMMA SameShown ==
  ASSUME PanelInv, panel'.shown = panel.shown \/ ~ P!Read(panel'.shown)
  PROVE  Forward
<1>1. panel.shown.approval \in Nat
  BY DEF PanelInv, PanelTyped, PanelSet, SnapSet
<1>. QED BY <1>1 DEF Forward, Newer

\* What such a step leaves to be shown.
LEMMA InvHolds ==
  ASSUME PanelConstants, PanelInv, ServerInv', Grows,
         reads' \subseteq ReadSet', panel' \in PanelSet', PanelFits', \A r \in reads' : ReadFits(r)',
         \A r \in reads' : r \in reads \/ ~ P!Read(r.snap) \/ SnapOK(r.snap)',
         posts' \subseteq PostSet', \A p \in posts' : p \in posts \/ PostOK(p)',
         panel'.shown = panel.shown \/ ~ P!Read(panel'.shown) \/ SnapOK(panel.shown)',
         \/ panel'.act.snap = panel.act.snap \/ panel'.act.snap = panel.shown
         \/ ~ P!Read(panel'.act.snap) \/ SnapOK(panel.act.snap)'
  PROVE  PanelInv'
<1>1. JobsTyped /\ JobsTyped' /\ Sound
  BY DEF PanelInv, ServerInv
<1>2. ASSUME NEW r \in reads' PROVE (\E q \in reads : q.snap = r.snap) \/ SnapOK(r.snap)'
  BY <1>2 DEF SnapOK, P!Read
<1>3. PICK s : s = panel'.shown
  OBVIOUS
<1>4. PICK t : t = panel'.act.snap
  OBVIOUS
<1>5. s = panel.shown \/ SnapOK(s)'
  BY <1>3 DEF SnapOK, P!Read
<1>6. t = panel.act.snap \/ t = panel.shown \/ SnapOK(t)'
  BY <1>4 DEF SnapOK, P!Read
<1>7. Sound'
  BY <1>1, <1>2, <1>3, <1>4, <1>5, <1>6, SoundKept
<1>. QED BY <1>7 DEF PanelInv, PanelTyped

-----------------------------------------------------------------------------
(* The steps.                                                              *)

LEMMA OpenKeeps ==
  ASSUME PanelConstants, PanelInv, NEW d \in PanelDrafts, P!Open(d)
  PROVE  PanelInv' /\ Forward
<1>1. ServerInv' /\ Grows
  BY ServerStays DEF P!Open, P!server, PanelInv
<1>2. PICK x : x = [P!Closed EXCEPT !.draft = d, !.run = panel.run + 1, !.lastKey = panel.lastKey]
  OBVIOUS
<1>3. PICK y : y = [x EXCEPT !.pending = TRUE, !.expired = FALSE]
  OBVIOUS
<1>4. panel \in PanelSet /\ reads \subseteq ReadSet /\ posts \subseteq PostSet /\ panelWorld' = panelWorld
  BY <1>1 DEF PanelInv, PanelTyped, Grows
<1>5. /\ x \in PanelSet /\ x.draft = d /\ x.run = panel.run + 1 /\ x.pending = FALSE
      /\ x.shown = P!Loading /\ x.act = P!Idle
  <2>1. panel.run + 1 \in Nat /\ panel.lastKey \in Nat /\ d \in PanelDrafts \cup {P!None}
    BY <1>4 DEF PanelSet
  <2>2. PICK c : c = P!Closed
    OBVIOUS
  <2>3. c \in PanelSet /\ c.shown = P!Loading /\ c.pending = FALSE /\ c.act = P!Idle
    BY <2>2, ClosedTyped
  <2>4. x = [c EXCEPT !.draft = d, !.run = panel.run + 1, !.lastKey = panel.lastKey]
    BY <1>2, <2>2
  <2>5. x \in PanelSet
    BY <2>1, <2>3, <2>4 DEF PanelSet
  <2>6. /\ x.draft = d /\ x.run = panel.run + 1 /\ x.pending = c.pending
        /\ x.shown = c.shown /\ x.act = c.act
    BY <2>3, <2>4 DEF PanelSet
  <2>. QED BY <2>3, <2>5, <2>6
<1>6. /\ y \in PanelSet /\ y.draft = d /\ y.run = panel.run + 1 /\ y.pending = TRUE
      /\ y.shown = P!Loading /\ y.act = P!Idle
  BY <1>3, <1>5 DEF PanelSet
<1>7. PICK z : z = P!ReadOf(x.run, d)
  OBVIOUS
<1>8. panel' = y /\ reads' = reads \cup {z} /\ UNCHANGED posts
  BY <1>2, <1>3, <1>5, <1>7 DEF P!Open, P!Load
<1>9. z.run = panel.run + 1 /\ z.draft = d /\ ~ P!Read(z.snap) /\ z \in ReadSet
  BY <1>4, <1>5, <1>7, NothingReadTyped DEF P!ReadOf, ReadSet, PanelSet
<1>10. d # P!None
  BY DEF PanelConstants, PanelDrafts, PanelInv, ServerInv, JobsTyped
<1>11. PanelFits'
  BY <1>6, <1>8, <1>10, IdleTyped, NothingReadTyped DEF PanelFits, P!Read
<1>12. panel.run \in Nat /\ \A r \in reads : r.run \in Nat /\ r.run <= panel.run
  BY <1>4 DEF PanelInv, ReadFits, PanelSet, ReadSet
<1>13. ASSUME NEW r \in reads PROVE ReadFits(r)'
  <2>1. r.run <= panel'.run /\ r.run # panel'.run
    BY <1>6, <1>8, <1>12
  <2>2. P!Read(r.snap) => r.snap.draft = r.draft
    BY DEF PanelInv, ReadFits
  <2>. QED BY <2>1, <2>2 DEF ReadFits, P!Current, P!Read
<1>14. ReadFits(z)'
  <2>1. \A q \in reads' : q.run = z.run => q = z
    BY <1>8, <1>9, <1>12
  <2>2. z.run <= panel'.run /\ panel'.pending /\ z.draft = panel'.draft
    BY <1>6, <1>8, <1>9, <1>12
  <2>. QED BY <1>9, <2>1, <2>2 DEF ReadFits, P!Read
<1>15. reads' \subseteq ReadSet' /\ panel' \in PanelSet' /\ posts' \subseteq PostSet'
  BY <1>4, <1>6, <1>8, <1>9, TypesStay
<1>16. \A r \in reads' : ReadFits(r)' /\ (r \in reads \/ ~ P!Read(r.snap))
  BY <1>8, <1>9, <1>13, <1>14
<1>17. ~ P!Read(panel'.shown) /\ ~ P!Read(panel'.act.snap)
  BY <1>6, <1>8, IdleTyped, NothingReadTyped
<1>. QED BY <1>1, <1>8, <1>11, <1>15, <1>16, <1>17, SameShown, InvHolds

LEMMA CloseKeeps ==
  ASSUME PanelConstants, PanelInv, P!Close
  PROVE  PanelInv' /\ Forward
<1>1. ServerInv' /\ Grows
  BY ServerStays DEF P!Close, P!server, PanelInv
<1>2. PICK x : x = [P!Closed EXCEPT !.run = panel.run, !.lastKey = panel.lastKey]
  OBVIOUS
<1>3. panel \in PanelSet /\ reads \subseteq ReadSet /\ posts \subseteq PostSet /\ panelWorld' = panelWorld
  BY <1>1 DEF PanelInv, PanelTyped, Grows
<1>4. /\ x \in PanelSet /\ x.draft = P!None /\ x.run = panel.run
      /\ x.shown = P!Loading /\ x.act = P!Idle
  BY <1>2, <1>3, ClosedTyped DEF PanelSet
<1>5. panel' = x /\ reads' = reads /\ posts' = posts
  BY <1>2 DEF P!Close
<1>6. PanelFits'
  BY <1>4, <1>5, IdleTyped, NothingReadTyped DEF PanelFits, P!Read
<1>7. ASSUME NEW r \in reads PROVE ReadFits(r)'
  BY <1>4, <1>5 DEF PanelInv, ReadFits, P!Current, P!Read
<1>8. reads' \subseteq ReadSet' /\ panel' \in PanelSet' /\ posts' \subseteq PostSet'
  BY <1>3, <1>4, <1>5, TypesStay
<1>9. ~ P!Read(panel'.shown) /\ ~ P!Read(panel'.act.snap)
  BY <1>4, <1>5, IdleTyped, NothingReadTyped
<1>. QED BY <1>1, <1>5, <1>6, <1>7, <1>8, <1>9, SameShown, InvHolds

LEMMA ServeKeeps ==
  ASSUME PanelConstants, PanelInv, NEW r, P!Serve(r)
  PROVE  PanelInv' /\ Forward
<1>1. ServerInv' /\ Grows
  BY ServerStays DEF P!Serve, P!server, PanelInv
<1>2. /\ panel \in PanelSet /\ reads \subseteq ReadSet /\ posts \subseteq PostSet
      /\ panelWorld' = panelWorld /\ r \in ReadSet /\ r \in reads
  BY <1>1 DEF PanelInv, PanelTyped, Grows, P!Serve
<1>3. PICK s : s = P!Snapshot(r.draft)
  OBVIOUS
<1>4. r.draft \in PanelDrafts
  BY <1>2 DEF ReadSet
<1>5. /\ s \in SnapSet /\ SnapOK(s) /\ P!Read(s) /\ s.draft = r.draft
      /\ \A job, main, approval : Grounded(r.draft, job, main, approval) =>
           s.job > job \/ (s.job = job /\ s.approval >= approval)
  BY <1>3, <1>4, SnapshotIs DEF PanelInv
<1>6. PICK x : x = [r EXCEPT !.snap = s]
  OBVIOUS
<1>7. x \in ReadSet /\ x.run = r.run /\ x.draft = r.draft /\ x.snap = s
  BY <1>2, <1>5, <1>6 DEF ReadSet
<1>8. reads' = (reads \ {r}) \cup {x} /\ panel' = panel /\ posts' = posts
  BY <1>3, <1>6 DEF P!Serve
<1>9. SnapOK(x.snap)'
  BY <1>1, <1>5, <1>7, SnapStays DEF PanelInv, ServerInv
<1>10. ReadFits(r)
  BY <1>2 DEF PanelInv
<1>11. ReadFits(x)'
  <2>1. x.run <= panel.run /\ (P!Read(x.snap) => x.snap.draft = x.draft)
    BY <1>5, <1>7, <1>10 DEF ReadFits
  <2>2. CASE P!Current(r)
    <3>1. panel.pending /\ r.draft = panel.draft /\ \A q \in reads : q.run = r.run => q = r
      BY <1>10, <2>2 DEF ReadFits
    <3>2. \A q \in reads' : q.run = x.run => q = x
      BY <1>7, <1>8, <3>1
    <3>3. P!Read(panel.shown) => Newer(x.snap, panel.shown)
      <4>1. P!Read(panel.shown) => Grounded(r.draft, panel.shown.job, panel.shown.live, panel.shown.approval)
        BY <3>1 DEF PanelInv, PanelFits, Sound, SnapOK
      <4>. QED BY <1>5, <1>7, <4>1 DEF Newer
    <3>. QED BY <1>7, <1>8, <2>1, <3>1, <3>2, <3>3 DEF ReadFits, P!Read, Newer
  <2>3. CASE ~ P!Current(r)
    BY <1>7, <1>8, <2>1, <2>3 DEF ReadFits, P!Read, P!Current
  <2>. QED BY <2>2, <2>3
<1>12. ASSUME NEW q \in reads, q # r PROVE ReadFits(q)'
  <2>1. ReadFits(q)
    BY <1>12 DEF PanelInv
  <2>2. P!Current(q) => \A o \in reads' : o.run = q.run => o = q
    BY <1>2, <1>7, <1>8, <1>12, <2>1 DEF ReadFits
  <2>. QED BY <1>8, <2>1, <2>2 DEF ReadFits, P!Read, P!Current, Newer
<1>13. reads' \subseteq ReadSet' /\ panel' \in PanelSet' /\ posts' \subseteq PostSet'
  BY <1>2, <1>7, <1>8, TypesStay
<1>14. PanelFits'
  BY <1>8 DEF PanelInv, PanelFits, P!Read
<1>15. \A q \in reads' : ReadFits(q)'
  BY <1>8, <1>11, <1>12
<1>16. \A q \in reads' : q \in reads \/ ~ P!Read(q.snap) \/ SnapOK(q.snap)'
  BY <1>8, <1>9
<1>. QED BY <1>1, <1>8, <1>13, <1>14, <1>15, <1>16, SameShown, InvHolds

\* A read that ends no longer matters; when the panel waited for it, it waits for none.
LEMMA ReadEnds ==
  ASSUME PanelInv, NEW r \in reads, reads' = reads \ {r}, panelWorld' = panelWorld,
         \/ panel' = panel
         \/ P!Current(r) /\ panel'.run = panel.run
  PROVE  reads' \subseteq ReadSet' /\ \A q \in reads' : ReadFits(q)'
<1>1. reads' \subseteq ReadSet'
  BY TypesStay DEF PanelInv, PanelTyped
<1>2. ASSUME NEW q \in reads, q # r PROVE ReadFits(q)'
  <2>1. ReadFits(q) /\ ReadFits(r)
    BY DEF PanelInv
  <2>2. CASE panel' = panel
    BY <2>1, <2>2 DEF ReadFits, P!Current, P!Read, Newer
  <2>3. CASE P!Current(r) /\ panel'.run = panel.run
    <3>1. q.run # r.run /\ r.run = panel.run
      BY <1>2, <2>1, <2>3 DEF ReadFits, P!Current
    <3>. QED BY <2>1, <2>3, <3>1 DEF ReadFits, P!Current, P!Read
  <2>. QED BY <2>2, <2>3
<1>. QED BY <1>1, <1>2

\* The panel as the read leaves it, before the action that waited for it goes on.
LEMMA ReadGoesOn ==
  ASSUME PanelConstants, PanelInv, NEW r \in reads, reads' = reads \ {r}, UNCHANGED <<P!server, posts>>,
         P!Current(r), NEW q \in PanelSet, NEW s \in SnapSet, panel' = P!AfterRead(q, s),
         q.draft = panel.draft, q.run = panel.run, q.act = panel.act,
         s = r.snap \/ ~ P!Read(s), q.shown = panel.shown \/ q.shown = r.snap \/ ~ P!Read(q.shown),
         P!Read(q.shown) => q.shown.draft = panel.draft
  PROVE  PanelInv' /\ Forward
<1>1. ServerInv' /\ Grows
  BY ServerStays DEF P!server, PanelInv
<1>2. /\ panel \in PanelSet /\ reads \subseteq ReadSet /\ posts' = posts /\ posts \subseteq PostSet
      /\ panelWorld' = panelWorld
  BY <1>1 DEF PanelInv, PanelTyped, Grows
<1>3. PICK z : z = P!AfterRead(q, s)
  OBVIOUS
<1>4. /\ z \in PanelSet /\ z.draft = q.draft /\ z.run = q.run /\ z.shown = q.shown
      /\ \/ z.act = q.act
         \/ z.act = P!Idle
         \/ q.act.stage = "load" /\ z.act.snap = s /\ P!Read(s)
  BY <1>3, AfterReadIs
<1>5. panel' = z
  BY <1>3
<1>6. panel.draft # P!None
  BY DEF P!Current
<1>7. PanelFits'
  <2>1. panel'.act.stage = "send" => P!Read(panel'.act.snap)
    BY <1>4, <1>5, IdleTyped DEF PanelInv, PanelFits
  <2>. QED BY <1>4, <1>5, <1>6, <2>1 DEF PanelFits, P!Read
<1>8. reads' \subseteq ReadSet' /\ \A o \in reads' : ReadFits(o)'
  BY <1>2, <1>4, <1>5, ReadEnds
<1>9. SnapOK(r.snap)'
  BY <1>1, SnapStays DEF PanelInv, Sound, ServerInv
<1>10. panel'.shown = panel.shown \/ ~ P!Read(panel'.shown) \/ SnapOK(panel.shown)'
  BY <1>4, <1>5, <1>9
<1>11. \/ panel'.act.snap = panel.act.snap \/ panel'.act.snap = panel.shown
       \/ ~ P!Read(panel'.act.snap) \/ SnapOK(panel.act.snap)'
  BY <1>4, <1>5, <1>9, IdleTyped, NothingReadTyped
<1>12. posts' \subseteq PostSet' /\ panel' \in PanelSet'
  BY <1>2, <1>4, <1>5, TypesStay
<1>13. Forward
  <2>1. CASE panel'.shown = panel.shown \/ ~ P!Read(panel'.shown)
    BY <2>1, SameShown
  <2>2. CASE panel'.shown = r.snap /\ P!Read(panel'.shown)
    <3>1. P!Read(panel.shown) => Newer(r.snap, panel.shown)
      BY <2>2 DEF PanelInv, ReadFits
    <3>2. r.snap.draft = panel.draft /\ (P!Read(panel.shown) => panel.shown.draft = panel.draft)
      BY <1>4, <1>5, <2>2 DEF PanelInv, PanelFits
    <3>. QED BY <2>2, <3>1, <3>2 DEF Forward
  <2>. QED BY <1>4, <1>5, <2>1, <2>2
<1>. QED BY <1>1, <1>2, <1>7, <1>8, <1>10, <1>11, <1>12, <1>13, InvHolds

\* A read that the panel did not wait for.
LEMMA ReadIsDropped ==
  ASSUME PanelConstants, PanelInv, NEW r \in reads, reads' = reads \ {r}, UNCHANGED <<P!server, posts>>,
         panel' = panel
  PROVE  PanelInv' /\ Forward
<1>1. ServerInv' /\ Grows
  BY ServerStays DEF P!server, PanelInv
<1>2. panelWorld' = panelWorld
  BY <1>1 DEF Grows
<1>3. reads' \subseteq ReadSet' /\ \A o \in reads' : ReadFits(o)'
  BY <1>2, ReadEnds
<1>4. PanelFits'
  BY DEF PanelInv, PanelFits, P!Read
<1>5. posts' \subseteq PostSet' /\ panel' \in PanelSet'
  BY <1>2, TypesStay DEF PanelInv, PanelTyped
<1>. QED BY <1>1, <1>3, <1>4, <1>5, SameShown, InvHolds

LEMMA DeliverKeeps ==
  ASSUME PanelConstants, PanelInv, NEW r, P!Deliver(r)
  PROVE  PanelInv' /\ Forward
<1>1. r \in reads /\ P!Read(r.snap) /\ reads' = reads \ {r} /\ UNCHANGED <<P!server, posts>>
  BY DEF P!Deliver
<1>2. CASE P!Current(r)
  <2>1. PICK q : q = [panel EXCEPT !.shown = r.snap, !.pending = FALSE, !.stale = FALSE, !.paused = FALSE]
    OBVIOUS
  <2>2. panel' = P!AfterRead(q, r.snap)
    BY <1>2, <2>1 DEF P!Deliver
  <2>3. panel \in PanelSet /\ r.snap \in SnapSet
    BY <1>1 DEF PanelInv, PanelTyped, ReadSet
  <2>4. /\ q \in PanelSet /\ q.draft = panel.draft /\ q.run = panel.run /\ q.act = panel.act
        /\ q.shown = r.snap
    BY <2>1, <2>3 DEF PanelSet
  <2>5. r.snap.draft = panel.draft
    BY <1>1, <1>2 DEF PanelInv, ReadFits
  <2>. QED BY <1>1, <1>2, <2>2, <2>3, <2>4, <2>5, ReadGoesOn
<1>3. CASE ~ P!Current(r)
  <2>1. panel' = panel
    BY <1>3 DEF P!Deliver
  <2>. QED BY <1>1, <2>1, ReadIsDropped
<1>. QED BY <1>2, <1>3

LEMMA FailReadKeeps ==
  ASSUME PanelConstants, PanelInv, NEW r, P!FailRead(r)
  PROVE  PanelInv' /\ Forward
<1>1. r \in reads /\ reads' = reads \ {r} /\ UNCHANGED <<P!server, posts>>
  BY DEF P!FailRead
<1>2. CASE P!Current(r)
  <2>1. PICK s : s = IF P!Read(panel.shown) THEN panel.shown ELSE P!Unavailable
    OBVIOUS
  <2>2. PICK q : q = [panel EXCEPT !.shown = s, !.pending = FALSE, !.stale = TRUE, !.paused = TRUE]
    OBVIOUS
  <2>3. panel' = P!AfterRead(q, P!Unavailable)
    BY <1>2, <2>1, <2>2 DEF P!FailRead
  <2>4. panel \in PanelSet /\ s \in SnapSet /\ (s = panel.shown \/ ~ P!Read(s))
    BY <2>1, NothingReadTyped DEF PanelInv, PanelTyped, PanelSet
  <2>5. /\ q \in PanelSet /\ q.draft = panel.draft /\ q.run = panel.run /\ q.act = panel.act
        /\ q.shown = s
    BY <2>2, <2>4 DEF PanelSet
  <2>6. P!Read(q.shown) => q.shown.draft = panel.draft
    BY <2>4, <2>5 DEF PanelInv, PanelFits
  <2>. QED BY <1>1, <1>2, <2>3, <2>4, <2>5, <2>6, NothingReadTyped, ReadGoesOn
<1>3. CASE ~ P!Current(r)
  <2>1. panel' = panel
    BY <1>3 DEF P!FailRead
  <2>. QED BY <1>1, <2>1, ReadIsDropped
<1>. QED BY <1>2, <1>3

\* Steps that load, and steps that do not read.
LEMMA LoadStep ==
  ASSUME PanelConstants, PanelInv, ServerInv', Grows, NEW p \in PanelSet, P!Load(p),
         p.draft # P!None, p.draft = panel.draft, p.run = panel.run, p.pending = panel.pending,
         p.shown = panel.shown, p.act.stage = "send" => P!Read(p.act.snap),
         p.act.snap = panel.act.snap \/ p.act.snap = panel.shown,
         posts' \subseteq posts
  PROVE  PanelInv' /\ Forward
<1>1. panelWorld' = panelWorld
  BY DEF Grows
<1>2. /\ reads' \subseteq ReadSet' /\ panel' \in PanelSet' /\ PanelFits'
      /\ \A r \in reads' : ReadFits(r)' /\ (r \in reads \/ ~ P!Read(r.snap))
      /\ panel'.shown = panel.shown /\ panel'.act = p.act
  BY <1>1, Loads
<1>3. posts' \subseteq PostSet' /\ \A o \in posts' : o \in posts
  BY <1>1, TypesStay DEF PanelInv, PanelTyped
<1>. QED BY <1>2, <1>3, SameShown, InvHolds

LEMMA PlainStep ==
  ASSUME PanelConstants, PanelInv, ServerInv', Grows, NEW x \in PanelSet, panel' = x, reads' = reads,
         x.draft = panel.draft, x.run = panel.run, x.pending = panel.pending, x.shown = panel.shown,
         x.draft = P!None => x.act.stage = "idle",
         x.act.stage = "send" => P!Read(x.act.snap),
         \/ x.act.snap = panel.act.snap \/ x.act.snap = panel.shown \/ ~ P!Read(x.act.snap),
         posts' \subseteq PostSet, \A p \in posts' : p \in posts \/ PostOK(p)'
  PROVE  PanelInv' /\ Forward
<1>1. panelWorld' = panelWorld
  BY DEF Grows
<1>2. reads' \subseteq ReadSet' /\ panel' \in PanelSet' /\ PanelFits' /\ \A r \in reads' : ReadFits(r)'
  BY <1>1, Steady
<1>3. posts' \subseteq PostSet'
  BY <1>1, TypesStay
<1>. QED BY <1>2, <1>3, SameShown, InvHolds

LEMMA PanelIs ==
  ASSUME PanelInv
  PROVE  /\ panel \in PanelSet /\ panel.act \in ActSet /\ panel.shown \in SnapSet
         /\ reads \subseteq ReadSet /\ posts \subseteq PostSet
         /\ panel.draft = P!None => panel.act.stage = "idle"
         /\ panel.act.stage = "send" => P!Read(panel.act.snap)
BY DEF PanelInv, PanelTyped, PanelFits, PanelSet

LEMMA ActIs ==
  ASSUME PanelInv, NEW kind \in Kinds, NEW stage \in Stages, NEW a, a = P!Act(kind, stage)
  PROVE  a \in ActSet /\ a.stage = stage /\ a.snap = panel.shown
<1>1. P!NoPost \in PostSet
  BY DEF P!NoPost, PostSet, Kinds, P!None
<1>. QED BY <1>1, PanelIs DEF P!Act, ActSet

LEMMA SetAct ==
  ASSUME PanelInv, NEW a \in ActSet, NEW x, x = [panel EXCEPT !.act = a]
  PROVE  /\ x \in PanelSet /\ x.act = a /\ x.draft = panel.draft /\ x.run = panel.run
         /\ x.pending = panel.pending /\ x.shown = panel.shown
BY PanelIs DEF PanelSet

LEMMA ExpireKeeps ==
  ASSUME PanelConstants, PanelInv, P!Expire PROVE PanelInv' /\ Forward
<1>1. ServerInv' /\ Grows
  BY ServerStays DEF P!Expire, P!server, PanelInv
<1>2. PICK x : x = [panel EXCEPT !.expired = TRUE]
  OBVIOUS
<1>3. /\ x \in PanelSet /\ x.act = panel.act /\ x.draft = panel.draft /\ x.run = panel.run
      /\ x.pending = panel.pending /\ x.shown = panel.shown
  BY <1>2, PanelIs DEF PanelSet
<1>4. panel' = x /\ reads' = reads /\ posts' = posts
  BY <1>2 DEF P!Expire
<1>. QED BY <1>1, <1>3, <1>4, PanelIs, PlainStep

LEMMA RefreshKeeps ==
  ASSUME PanelConstants, PanelInv, P!Refresh PROVE PanelInv' /\ Forward
<1>1. ServerInv' /\ Grows
  BY ServerStays DEF P!Refresh, P!server, PanelInv
<1>2. PICK a : a = P!Act("refresh", "load")
  OBVIOUS
<1>3. a \in ActSet /\ a.stage # "send" /\ a.snap = panel.shown
  BY <1>2, ActIs DEF Kinds, Stages
<1>4. PICK x : x = [panel EXCEPT !.act = a]
  OBVIOUS
<1>5. P!Load(x) /\ panel.draft # P!None /\ posts' = posts
  BY <1>2, <1>4 DEF P!Refresh, P!Free
<1>. QED BY <1>1, <1>3, <1>4, <1>5, SetAct, LoadStep

LEMMA PollKeeps ==
  ASSUME PanelConstants, PanelInv, P!Poll PROVE PanelInv' /\ Forward
<1>1. ServerInv' /\ Grows
  BY ServerStays DEF P!Poll, P!server, PanelInv
<1>2. CASE panel.expired
  <2>1. PICK x : x = [panel EXCEPT !.paused = TRUE, !.monitoring = FALSE]
    OBVIOUS
  <2>2. /\ x \in PanelSet /\ x.act = panel.act /\ x.draft = panel.draft /\ x.run = panel.run
        /\ x.pending = panel.pending /\ x.shown = panel.shown
    BY <2>1, PanelIs DEF PanelSet
  <2>3. panel' = x /\ reads' = reads /\ posts' = posts
    BY <1>2, <2>1 DEF P!Poll
  <2>. QED BY <1>1, <2>2, <2>3, PanelIs, PlainStep
<1>3. CASE ~ panel.expired
  <2>1. PICK a : a = P!Act("refresh", "load")
    OBVIOUS
  <2>2. a \in ActSet /\ a.stage # "send" /\ a.snap = panel.shown
    BY <2>1, ActIs DEF Kinds, Stages
  <2>3. PICK x : x = [panel EXCEPT !.act = a]
    OBVIOUS
  <2>4. P!Load(x) /\ panel.draft # P!None /\ posts' = posts
    BY <1>3, <2>1, <2>3 DEF P!Poll, P!Free
  <2>. QED BY <1>1, <2>2, <2>3, <2>4, SetAct, LoadStep
<1>. QED BY <1>2, <1>3

LEMMA PressPublishKeeps ==
  ASSUME PanelConstants, PanelInv, P!PressPublish PROVE PanelInv' /\ Forward
<1>1. ServerInv' /\ Grows
  BY ServerStays DEF P!PressPublish, P!server, PanelInv
<1>2. PICK a : a = IF panel.shown.checked # P!None THEN P!Act("publish", "send") ELSE P!Act("publish", "check")
  OBVIOUS
<1>3. a \in ActSet /\ a.snap = panel.shown
  BY <1>2, ActIs DEF Kinds, Stages
<1>4. PICK x : x = [panel EXCEPT !.act = a]
  OBVIOUS
<1>5. /\ panel' = x /\ reads' = reads /\ posts' = posts
      /\ panel.draft # P!None /\ P!Read(panel.shown)
  BY <1>2, <1>4 DEF P!PressPublish, P!May, P!Free
<1>. QED BY <1>1, <1>3, <1>4, <1>5, PanelIs, SetAct, PlainStep

LEMMA CheckKeeps ==
  ASSUME PanelConstants, PanelInv, NEW ok \in BOOLEAN, P!Check(ok) PROVE PanelInv' /\ Forward
<1>1. ServerInv' /\ Grows
  BY ServerStays DEF P!Check, PanelInv
<1>2. PICK a : a = [panel.act EXCEPT !.stage = "load", !.kind = IF ok THEN "publish" ELSE "other"]
  OBVIOUS
<1>3. a \in ActSet /\ a.stage # "send" /\ a.snap = panel.act.snap
  BY <1>2, PanelIs DEF ActSet, Kinds, Stages
<1>4. PICK x : x = [panel EXCEPT !.act = a]
  OBVIOUS
<1>5. P!Load(x) /\ panel.draft # P!None /\ posts' = posts
  BY <1>2, <1>4, PanelIs DEF P!Check
<1>. QED BY <1>1, <1>3, <1>4, <1>5, SetAct, LoadStep

LEMMA SaveKeepsPanel ==
  ASSUME PanelConstants, PanelInv, NEW d \in PanelDrafts, P!Save(d) PROVE PanelInv' /\ Forward
<1>1. ServerInv' /\ Grows
  BY SavesDraft DEF P!Save, PanelInv
<1>2. PICK x : x = IF panel.draft = d THEN [panel EXCEPT !.monitoring = TRUE] ELSE panel
  OBVIOUS
<1>3. /\ x \in PanelSet /\ x.act = panel.act /\ x.draft = panel.draft /\ x.run = panel.run
      /\ x.pending = panel.pending /\ x.shown = panel.shown
  BY <1>2, PanelIs DEF PanelSet
<1>4. panel' = x /\ reads' = reads /\ posts' = posts
  BY <1>2 DEF P!Save
<1>. QED BY <1>1, <1>3, <1>4, PanelIs, PlainStep

LEMMA PushKeeps ==
  ASSUME PanelConstants, PanelInv, P!Push PROVE PanelInv' /\ Forward
<1>1. ServerInv' /\ Grows
  BY Pushes DEF PanelInv
<1>2. panel' = panel /\ reads' = reads /\ posts' = posts
  BY DEF P!Push
<1>. QED BY <1>1, <1>2, PanelIs, PlainStep

LEMMA ProceedKeeps ==
  ASSUME PanelConstants, PanelInv, NEW n \in DOMAIN jobs, NEW next, P!Proceed(n, next) PROVE PanelInv' /\ Forward
<1>1. ServerInv' /\ Grows
  BY Proceeds DEF PanelInv
<1>2. panel' = panel /\ reads' = reads /\ posts' = posts
  BY DEF P!Proceed
<1>. QED BY <1>1, <1>2, PanelIs, PlainStep

LEMMA RequestIs ==
  ASSUME NEW kind PROVE P!RequestOf(kind) \in {"none", "publishRequest", "recoveryRequest"}
BY DEF P!RequestOf

LEMMA SettledKeeps ==
  ASSUME PanelConstants, PanelInv, ServerInv', Grows, NEW p, NEW confirmed \in BOOLEAN,
         P!Settled(p, confirmed), posts' \subseteq posts
  PROVE  PanelInv' /\ Forward
<1>1. CASE ~ P!Awaited(p)
  <2>1. panel' = panel /\ reads' = reads
    BY <1>1 DEF P!Settled
  <2>2. posts' \subseteq PostSet
    BY PanelIs
  <2>. QED BY <2>1, <2>2, PanelIs, PlainStep
<1>2. CASE P!Awaited(p)
  <2>1. PICK request : request = P!RequestOf(p.kind)
    OBVIOUS
  <2>2. PICK told : told = [panel EXCEPT !.act.stage = "load"]
    OBVIOUS
  <2>3. PICK z : z = IF confirmed /\ request # "none"
                       THEN [told EXCEPT !.monitoring = TRUE, ![request] = P!NoRequest] ELSE told
    OBVIOUS
  <2>4. P!Load(z)
    BY <1>2, <2>1, <2>2, <2>3 DEF P!Settled
  <2>5. PICK a : a = [panel.act EXCEPT !.stage = "load"]
    OBVIOUS
  <2>6. a \in ActSet /\ a.stage # "send" /\ a.snap = panel.act.snap
    BY <2>5, PanelIs DEF ActSet, Stages
  <2>7. told = [panel EXCEPT !.act = a]
    BY <2>2, <2>5
  <2>8. /\ told \in PanelSet /\ told.act = a /\ told.draft = panel.draft /\ told.run = panel.run
        /\ told.pending = panel.pending /\ told.shown = panel.shown
    BY <2>6, <2>7, SetAct
  <2>9. /\ z \in PanelSet /\ z.act = a /\ z.draft = panel.draft /\ z.run = panel.run
        /\ z.pending = panel.pending /\ z.shown = panel.shown
    <3>1. CASE confirmed /\ request # "none"
      <4>1. PICK y : y = [told EXCEPT !.monitoring = TRUE]
        OBVIOUS
      <4>2. /\ y \in PanelSet /\ y.act = a /\ y.draft = panel.draft /\ y.run = panel.run
            /\ y.pending = panel.pending /\ y.shown = panel.shown
        BY <2>8, <4>1 DEF PanelSet
      <4>3. z = [y EXCEPT ![request] = P!NoRequest]
        BY <2>3, <3>1, <4>1
      <4>4. P!NoRequest \in RequestSet
        BY DEF P!NoRequest, RequestSet, P!None
      <4>5. request \in {"publishRequest", "recoveryRequest"}
        BY <2>1, <3>1, RequestIs
      <4>6. /\ z \in PanelSet /\ z.act = y.act /\ z.draft = y.draft /\ z.run = y.run
            /\ z.pending = y.pending /\ z.shown = y.shown
        <5>1. CASE request = "publishRequest"
          <6>1. z = [y EXCEPT !.publishRequest = P!NoRequest]
            BY <4>3, <5>1
          <6>. QED BY <4>2, <4>4, <6>1 DEF PanelSet
        <5>2. CASE request = "recoveryRequest"
          <6>1. z = [y EXCEPT !.recoveryRequest = P!NoRequest]
            BY <4>3, <5>2
          <6>. QED BY <4>2, <4>4, <6>1 DEF PanelSet
        <5>. QED BY <4>5, <5>1, <5>2
      <4>. QED BY <4>2, <4>6
    <3>2. CASE ~ (confirmed /\ request # "none")
      BY <2>3, <2>8, <3>2
    <3>. QED BY <3>1, <3>2
  <2>10. panel.draft # P!None
    BY <1>2, PanelIs DEF P!Awaited
  <2>. QED BY <2>4, <2>6, <2>9, <2>10, LoadStep
<1>. QED BY <1>1, <1>2

LEMMA GiveUpKeeps ==
  ASSUME PanelConstants, PanelInv, P!GiveUp PROVE PanelInv' /\ Forward
<1>1. ServerInv' /\ Grows
  BY ServerStays DEF P!GiveUp, P!server, PanelInv
<1>2. P!Settled(panel.act.post, FALSE) /\ posts' = posts
  BY DEF P!GiveUp
<1>. QED BY <1>1, <1>2, SettledKeeps

LEMMA HandleKeeps ==
  ASSUME PanelConstants, PanelInv, NEW p, P!Handle(p) PROVE PanelInv' /\ Forward
<1>1. p \in posts /\ posts' = posts \ {p} /\ UNCHANGED <<panelWorld, live, saved>>
  BY DEF P!Handle
<1>2. p \in PostSet /\ PostOK(p)
  BY <1>1 DEF PanelInv, PanelTyped, Sound
<1>3. \E confirmed \in BOOLEAN : P!Settled(p, confirmed)
  BY DEF P!Handle
<1>4. ServerInv' /\ Grows
  <2>1. CASE P!Accepted(p)
    <3>1. P!WithinBounds(p) /\ P!CarryOut(p)
      BY <2>1 DEF P!Handle
    <3>. QED BY <1>1, <1>2, <2>1, <3>1, CarriesOut DEF PanelInv
  <2>2. CASE ~ P!Accepted(p)
    <3>1. UNCHANGED <<jobs, decisions>>
      BY <2>2 DEF P!Handle
    <3>. QED BY <1>1, <3>1, ServerStays DEF PanelInv
  <2>. QED BY <2>1, <2>2
<1>. QED BY <1>1, <1>3, <1>4, SettledKeeps

\* A request says what its snapshot showed.
LEMMA SendsKeeps ==
  ASSUME PanelConstants, PanelInv, NEW s \in SnapSet, SnapOK(s), P!Read(s),
         NEW kind \in {"publish"} \cup P!Actions \cup P!Decisions,
         kind \in P!Actions => s.job # P!None,
         NEW scope \in Seq(Kinds \cup Shown \cup Nat \cup PanelDrafts),
         panel.draft # P!None, P!Sends(kind, s, scope)
  PROVE  PanelInv' /\ Forward
<1>1. ServerInv' /\ Grows
  BY ServerStays DEF P!Sends, P!server, PanelInv
<1>2. PICK request : request = P!RequestOf(kind)
  OBVIOUS
<1>3. PICK key : key = IF request = "none" THEN P!None ELSE P!KeyFor(panel[request], scope)
  OBVIOUS
<1>4. key \in Nat
  <2>1. request = "none" \/ panel[request] \in RequestSet
    BY <1>2, RequestIs, PanelIs DEF PanelSet
  <2>2. panel.lastKey + 1 \in Nat
    BY PanelIs DEF PanelSet
  <2>. QED BY <1>3, <2>1, <2>2 DEF P!KeyFor, RequestSet, P!None
<1>5. PICK post : post = [kind |-> kind, key |-> key, draft |-> s.draft, rev |-> saved[s.draft],
                          base |-> s.live, job |-> s.job, approval |-> s.approval]
  OBVIOUS
<1>6. Grounded(s.draft, s.job, s.live, s.approval)
  BY DEF SnapOK
<1>7. saved[s.draft] \in Nat
  BY <1>6 DEF Grounded, PanelInv, ServerInv, JobsTyped
<1>8. post \in PostSet /\ PostOK(post)
  <2>1. post \in PostSet
    BY <1>4, <1>5, <1>6, <1>7 DEF Grounded, PostSet, Kinds
  <2>2. PostOK(post)
    BY <1>5, <1>6 DEF PostOK
  <2>. QED BY <2>1, <2>2
<1>9. PICK sent : sent = [panel EXCEPT !.lastKey = IF key > @ THEN key ELSE @]
  OBVIOUS
<1>10. /\ sent \in PanelSet /\ sent.act = panel.act /\ sent.draft = panel.draft /\ sent.run = panel.run
       /\ sent.pending = panel.pending /\ sent.shown = panel.shown
  BY <1>4, <1>9, PanelIs DEF PanelSet
<1>11. PICK kept : kept = IF request = "none" THEN sent
                          ELSE [sent EXCEPT ![request] = [scope |-> scope, key |-> key]]
  OBVIOUS
<1>12. /\ kept \in PanelSet /\ kept.act = panel.act /\ kept.draft = panel.draft /\ kept.run = panel.run
       /\ kept.pending = panel.pending /\ kept.shown = panel.shown
  <2>1. CASE request = "none"
    BY <1>10, <1>11, <2>1
  <2>2. CASE request # "none"
    <3>1. [scope |-> scope, key |-> key] \in RequestSet
      BY <1>4 DEF RequestSet
    <3>2. request \in {"publishRequest", "recoveryRequest"}
      BY <1>2, <2>2, RequestIs
    <3>3. PICK w : w = [scope |-> scope, key |-> key]
      OBVIOUS
    <3>4. kept = [sent EXCEPT ![request] = w] /\ w \in RequestSet
      BY <1>11, <2>2, <3>1, <3>3
    <3>5. /\ kept \in PanelSet /\ kept.act = sent.act /\ kept.draft = sent.draft /\ kept.run = sent.run
          /\ kept.pending = sent.pending /\ kept.shown = sent.shown
      <4>1. CASE request = "publishRequest"
        <5>1. kept = [sent EXCEPT !.publishRequest = w]
          BY <3>4, <4>1
        <5>. QED BY <1>10, <3>4, <5>1 DEF PanelSet
      <4>2. CASE request = "recoveryRequest"
        <5>1. kept = [sent EXCEPT !.recoveryRequest = w]
          BY <3>4, <4>2
        <5>. QED BY <1>10, <3>4, <5>1 DEF PanelSet
      <4>. QED BY <3>2, <4>1, <4>2
    <3>. QED BY <1>10, <3>5
  <2>. QED BY <2>1, <2>2
<1>13. PICK b : b = P!Act(kind, "wait")
  OBVIOUS
<1>14. b \in ActSet /\ b.stage = "wait" /\ b.snap = panel.shown
  BY <1>13, ActIs DEF Kinds, Stages
<1>15. PICK a : a = [b EXCEPT !.post = post]
  OBVIOUS
<1>16. a \in ActSet /\ a.stage = "wait" /\ a.snap = panel.shown
  BY <1>8, <1>14, <1>15 DEF ActSet
<1>17. PICK x : x = [kept EXCEPT !.act = a]
  OBVIOUS
<1>18. /\ x \in PanelSet /\ x.act = a /\ x.draft = panel.draft /\ x.run = panel.run
       /\ x.pending = panel.pending /\ x.shown = panel.shown
  BY <1>12, <1>16, <1>17 DEF PanelSet
<1>19. posts' = posts \cup {post} /\ reads' = reads
  BY <1>2, <1>3, <1>5 DEF P!Sends
<1>20. panel' = x
  BY <1>2, <1>3, <1>5, <1>9, <1>11, <1>13, <1>15, <1>17 DEF P!Sends
<1>21. PostOK(post)'
  BY <1>1, <1>8, PostStays DEF PanelInv, ServerInv
<1>22. posts' \subseteq PostSet /\ \A p \in posts' : p \in posts \/ PostOK(p)'
  BY <1>8, <1>19, <1>21, PanelIs
<1>. QED BY <1>1, <1>16, <1>18, <1>19, <1>20, <1>22, PlainStep

LEMMA SendPublishKeeps ==
  ASSUME PanelConstants, PanelInv, P!SendPublish PROVE PanelInv' /\ Forward
<1>1. PICK s : s = panel.act.snap
  OBVIOUS
<1>2. /\ s \in SnapSet /\ SnapOK(s) /\ P!Read(s) /\ panel.draft # P!None
  BY <1>1, PanelIs DEF P!SendPublish, PanelInv, Sound, ActSet
<1>3. CASE s.busy
  <2>1. panel' = [panel EXCEPT !.act = P!Idle] /\ UNCHANGED <<P!server, reads, posts>>
    BY <1>1, <1>3 DEF P!SendPublish
  <2>2. ServerInv' /\ Grows
    BY <2>1, ServerStays DEF P!server, PanelInv
  <2>3. PICK x : x = [panel EXCEPT !.act = P!Idle]
    OBVIOUS
  <2>. QED BY <2>1, <2>2, <2>3, IdleTyped, NothingReadTyped, PanelIs, SetAct, PlainStep
<1>4. CASE ~ s.busy
  <2>1. PICK scope : scope = <<"publish", s.draft, saved[s.draft], s.live, s.job, s.status>>
    OBVIOUS
  <2>2. P!Sends("publish", s, scope)
    BY <1>1, <1>4, <2>1 DEF P!SendPublish
  <2>3. s.draft \in PanelDrafts /\ saved[s.draft] \in Nat
    BY <1>2 DEF SnapOK, Grounded, PanelInv, ServerInv, JobsTyped
  <2>4. scope \in Seq(Kinds \cup Shown \cup Nat \cup PanelDrafts)
    <3>1. PICK U : U = Kinds \cup Shown \cup Nat \cup PanelDrafts
      OBVIOUS
    <3>2. /\ "publish" \in U /\ s.draft \in U /\ saved[s.draft] \in U /\ s.live \in U /\ s.job \in U
          /\ s.status \in U
      BY <1>2, <2>3, <3>1 DEF SnapSet, Kinds
    <3>3. scope \in Seq(U)
      BY <2>1, <3>2
    <3>. QED BY <3>1, <3>3
  <2>5. "publish" \notin P!Actions
    BY DEF P!Actions
  <2>. QED BY <1>2, <2>2, <2>4, <2>5, SendsKeeps
<1>. QED BY <1>3, <1>4

LEMMA ShownIs ==
  ASSUME PanelInv, P!May
  PROVE  /\ panel.shown \in SnapSet /\ SnapOK(panel.shown) /\ P!Read(panel.shown)
         /\ panel.draft # P!None
BY PanelIs DEF P!May, P!Free, PanelInv, Sound

LEMMA RecoverKeeps ==
  ASSUME PanelConstants, PanelInv, NEW action \in P!Actions, P!Recover(action) PROVE PanelInv' /\ Forward
<1>1. PICK s : s = panel.shown
  OBVIOUS
<1>2. /\ s \in SnapSet /\ SnapOK(s) /\ P!Read(s) /\ panel.draft # P!None
  BY <1>1, ShownIs DEF P!Recover
<1>3. PICK scope : scope = <<action, s.job>>
  OBVIOUS
<1>4. P!Offered(action, s) /\ P!Sends(action, s, scope)
  BY <1>1, <1>3 DEF P!Recover
<1>5. s.job # P!None
  <2>1. s.status # "none"
    BY <1>4 DEF P!Offered, P!Actions
  <2>. QED BY <1>2, <2>1 DEF SnapOK
<1>6. scope \in Seq(Kinds \cup Shown \cup Nat \cup PanelDrafts)
  <2>1. PICK U : U = Kinds \cup Shown \cup Nat \cup PanelDrafts
    OBVIOUS
  <2>2. action \in U /\ s.job \in U
    BY <1>2, <2>1 DEF SnapSet, Kinds
  <2>3. scope \in Seq(U)
    BY <1>3, <2>2
  <2>. QED BY <2>1, <2>3
<1>. QED BY <1>2, <1>4, <1>5, <1>6, SendsKeeps

LEMMA DecideKeeps ==
  ASSUME PanelConstants, PanelInv, NEW kind \in P!Decisions, P!Decide(kind) PROVE PanelInv' /\ Forward
<1>1. PICK s : s = panel.shown
  OBVIOUS
<1>2. /\ s \in SnapSet /\ SnapOK(s) /\ P!Read(s) /\ panel.draft # P!None
  BY <1>1, ShownIs DEF P!Decide
<1>3. P!Sends(kind, s, <<>>)
  BY <1>1 DEF P!Decide
<1>4. kind \notin P!Actions
  BY DEF P!Actions, P!Decisions
<1>5. <<>> \in Seq(Kinds \cup Shown \cup Nat \cup PanelDrafts)
  OBVIOUS
<1>. QED BY <1>2, <1>3, <1>4, <1>5, SendsKeeps

LEMMA PanelStarts ==
  ASSUME PanelConstants, P!Init PROVE PanelInv
<1>1. /\ panelWorld \in PanelWorlds /\ jobs = <<>> /\ live = P!None /\ decisions = <<>>
      /\ saved = [d \in PanelDrafts |-> 1] /\ reads = {} /\ posts = {} /\ panel = P!Closed
  BY DEF P!Init, PanelDrafts
<1>2. Len(jobs) = 0 /\ DOMAIN jobs = {} /\ DOMAIN decisions = {}
  BY <1>1
<1>3. JobsTyped
  <2>1. jobs \in Seq(JobSet) /\ decisions \in Seq(DecisionSet)
    BY <1>1
  <2>2. live \in Nat /\ Moment(live) <= Len(jobs) /\ Len(jobs) <= MaxJobs
    BY <1>1, <1>2 DEF Moment, PanelConstants, P!None
  <2>3. saved \in [PanelDrafts -> Nat]
    BY <1>1
  <2>. QED BY <1>1, <2>1, <2>2, <2>3 DEF JobsTyped
<1>4. ServerInv
  BY <1>2, <1>3 DEF ServerInv, OneAfterAnother, P!NothingUnseen
<1>5. PanelTyped
  BY <1>1, ClosedTyped DEF PanelTyped
<1>6. PanelFits
  BY <1>1, ClosedTyped, IdleTyped, NothingReadTyped DEF PanelFits
<1>7. Sound
  BY <1>1, ClosedTyped, IdleTyped, NothingReadTyped DEF Sound, SnapOK
<1>. QED BY <1>1, <1>4, <1>5, <1>6, <1>7 DEF PanelInv

LEMMA PanelStep ==
  ASSUME PanelConstants, PanelInv, [P!Next]_P!vars PROVE PanelInv' /\ Forward
<1>1. ASSUME NEW d \in panelWorld.drafts, P!Open(d) \/ P!Save(d) PROVE PanelInv' /\ Forward
  BY <1>1, OpenKeeps, SaveKeepsPanel DEF PanelDrafts
<1>2. ASSUME NEW ok \in BOOLEAN, P!Check(ok) PROVE PanelInv' /\ Forward
  BY <1>2, CheckKeeps
<1>3. ASSUME NEW action \in P!Actions, P!Recover(action) PROVE PanelInv' /\ Forward
  BY <1>3, RecoverKeeps
<1>4. ASSUME NEW kind \in P!Decisions, P!Decide(kind) PROVE PanelInv' /\ Forward
  BY <1>4, DecideKeeps
<1>5. ASSUME NEW r \in reads, P!Serve(r) \/ P!Deliver(r) \/ P!FailRead(r) PROVE PanelInv' /\ Forward
  BY <1>5, ServeKeeps, DeliverKeeps, FailReadKeeps
<1>6. ASSUME NEW p \in posts, P!Handle(p) PROVE PanelInv' /\ Forward
  BY <1>6, HandleKeeps
<1>7. ASSUME NEW n \in DOMAIN jobs, NEW next, P!Proceed(n, next) PROVE PanelInv' /\ Forward
  BY <1>7, ProceedKeeps
<1>8. CASE UNCHANGED P!vars
  <2>1. ServerInv' /\ Grows
    BY <1>8, ServerStays DEF P!vars, PanelInv
  <2>2. panel' = panel /\ reads' = reads /\ posts' = posts
    BY <1>8 DEF P!vars
  <2>. QED BY <2>1, <2>2, PanelIs, PlainStep
<1>9. CASE P!Close \/ P!Expire \/ P!Refresh \/ P!Poll
  BY <1>9, CloseKeeps, ExpireKeeps, RefreshKeeps, PollKeeps
<1>10. CASE P!PressPublish \/ P!SendPublish \/ P!GiveUp \/ P!Push
  BY <1>10, PressPublishKeeps, SendPublishKeeps, GiveUpKeeps, PushKeeps
<1>. QED
  BY <1>1, <1>2, <1>3, <1>4, <1>5, <1>6, <1>7, <1>8, <1>9, <1>10 DEF P!Next

LEMMA UnseenIsNotFollowed == ASSUME PanelConstants PROVE P!Spec => []P!NothingUnseen
<1>1. P!Init => PanelInv
  BY PanelStarts
<1>2. PanelInv /\ [P!Next]_P!vars => PanelInv'
  BY PanelStep
<1>3. PanelInv => P!NothingUnseen
  BY DEF PanelInv, ServerInv
<1>. QED BY <1>1, <1>2, <1>3, PTL DEF P!Spec

LEMMA ReadsGoForward == ASSUME PanelConstants PROVE P!Spec => P!NeverGoesBack
<1>1. P!Init => PanelInv
  BY PanelStarts
<1>2. PanelInv /\ [P!Next]_P!vars => PanelInv'
  BY PanelStep
<1>3. PanelInv /\ [P!Next]_P!vars =>
        [P!Read(panel.shown) /\ P!Read(panel'.shown) =>
           /\ panel'.shown.draft = panel.shown.draft
           /\ \/ panel'.shown.job > panel.shown.job
              \/ panel'.shown.job = panel.shown.job /\ panel'.shown.approval >= panel.shown.approval]_P!vars
  BY PanelStep DEF Forward, Newer
<1>. QED BY <1>1, <1>2, <1>3, PTL DEF P!Spec, P!NeverGoesBack

-----------------------------------------------------------------------------
(* NativeHost: the newest backup of a day or a week that is kept stays.    *)

Entry(b, t) == [id |-> b, done |-> t, pinned |-> FALSE]
Times == 0..MaxTime

\* m is the newest of its day, or of its week, in the set of entries, and few are later
FirstOfDay(m, entries) ==
  /\ \A y \in entries : H!Day(y.done) = H!Day(m.done) => y.done =< m.done
  /\ Cardinality({H!Day(y.done) : y \in {z \in entries : H!Day(z.done) > H!Day(m.done)}}) < KeepDays
FirstOfWeek(m, entries) ==
  /\ \A y \in entries : H!Week(y.done) = H!Week(m.done) => y.done =< m.done
  /\ Cardinality({H!Week(y.done) : y \in {z \in entries : H!Week(z.done) > H!Week(m.done)}}) < KeepWeeks
\* ... and of those of one moment it is the one that a list has first
Foremost(m, entries) ==
  /\ FirstOfDay(m, entries) \/ FirstOfWeek(m, entries)
  /\ \A y \in entries : y.done = m.done => y.id <= m.id

\* What was complete once is on the disk as it was, or removed, and what is foremost is there.
MadeFollows ==
  /\ clock \in Times
  /\ \A m \in made :
       /\ m.id \in H!Ids /\ m.done \in Times /\ m = Entry(m.id, m.done)
       /\ disk[m.id].stage \in Over /\ disk[m.id].done = m.done
       /\ Foremost(m, made) => disk[m.id].stage = "complete"
  /\ \A b \in H!Present : Entry(b, disk[b].done) \in made
\* What a process has read was complete once, and what it will remove is not foremost.
ListFollows(p) ==
  LET x == proc[p] IN
  /\ x.at = "rename" => x.done \in Times
  /\ x.at \notin {"list", "prune"} => x.seen = {}
  /\ \A e \in x.seen :
       /\ Entry(e.id, e.done) \in made
       /\ \A f \in x.seen : e.id = f.id => e = f
       /\ x.at = "list" => e.id \notin x.rest
  /\ x.at = "prune" => /\ x.rest \subseteq {e.id : e \in x.seen}
                       /\ \A m \in made : Foremost(m, made) => m.id \notin x.rest
PolicyInv == HostInv /\ MadeFollows /\ \A p \in H!Procs : ListFollows(p)

LEMMA SameCardinality == \A S : H!Cardinality(S) = Cardinality(S)
BY DEF H!Cardinality, Cardinality

LEMMA SmallerSet ==
  ASSUME NEW S, NEW T, IsFiniteSet(T), S \subseteq T, NEW k \in Nat, Cardinality(T) < k
  PROVE  Cardinality(S) < k
<1>1. /\ IsFiniteSet(S) /\ Cardinality(S) <= Cardinality(T)
      /\ Cardinality(S) \in Nat /\ Cardinality(T) \in Nat
  BY FS_Subset, FS_CardinalityType
<1>. QED BY <1>1

\* what is foremost among more is foremost among fewer
LEMMA ForemostOfFewer ==
  ASSUME HostConstants, NEW S, NEW T, S \subseteq T, NEW m, Foremost(m, T),
         IsFiniteSet({y.done : y \in T})
  PROVE  Foremost(m, S)
<1>1. KeepDays \in Nat /\ KeepWeeks \in Nat
  BY DEF HostConstants
<1>2. ASSUME FirstOfDay(m, T) PROVE FirstOfDay(m, S)
  <2>1. PICK A, B, D : /\ A = {H!Day(y.done) : y \in {z \in S : H!Day(z.done) > H!Day(m.done)}}
                       /\ B = {H!Day(y.done) : y \in {z \in T : H!Day(z.done) > H!Day(m.done)}}
                       /\ D = {H!Day(t) : t \in {y.done : y \in T}}
    OBVIOUS
  <2>2. A \subseteq B /\ B \subseteq D
    <3>1. \A y \in T : y.done \in {z.done : z \in T}
      OBVIOUS
    <3>2. \A y \in T : H!Day(y.done) \in D
      BY <2>1, <3>1
    <3>. QED BY <2>1, <3>2
  <2>3. IsFiniteSet(D)
    <3>1. PICK U, f : U = {y.done : y \in T} /\ f = [t \in U |-> H!Day(t)]
      OBVIOUS
    <3>2. f \in Surjection(U, D)
      BY <2>1, <3>1 DEF Surjection
    <3>. QED BY <3>1, <3>2, FS_Surjection
  <2>4. IsFiniteSet(B)
    BY <2>2, <2>3, FS_Subset
  <2>5. Cardinality(B) < KeepDays
    BY <1>2, <2>1 DEF FirstOfDay
  <2>6. Cardinality(A) < KeepDays
    BY <1>1, <2>2, <2>4, <2>5, SmallerSet
  <2>. QED BY <1>2, <2>1, <2>6 DEF FirstOfDay
<1>3. ASSUME FirstOfWeek(m, T) PROVE FirstOfWeek(m, S)
  <2>1. PICK A, B, D : /\ A = {H!Week(y.done) : y \in {z \in S : H!Week(z.done) > H!Week(m.done)}}
                       /\ B = {H!Week(y.done) : y \in {z \in T : H!Week(z.done) > H!Week(m.done)}}
                       /\ D = {H!Week(t) : t \in {y.done : y \in T}}
    OBVIOUS
  <2>2. A \subseteq B /\ B \subseteq D
    <3>1. \A y \in T : y.done \in {z.done : z \in T}
      OBVIOUS
    <3>2. \A y \in T : H!Week(y.done) \in D
      BY <2>1, <3>1
    <3>. QED BY <2>1, <3>2
  <2>3. IsFiniteSet(D)
    <3>1. PICK U, f : U = {y.done : y \in T} /\ f = [t \in U |-> H!Week(t)]
      OBVIOUS
    <3>2. f \in Surjection(U, D)
      BY <2>1, <3>1 DEF Surjection
    <3>. QED BY <3>1, <3>2, FS_Surjection
  <2>4. IsFiniteSet(B)
    BY <2>2, <2>3, FS_Subset
  <2>5. Cardinality(B) < KeepWeeks
    BY <1>3, <2>1 DEF FirstOfWeek
  <2>6. Cardinality(A) < KeepWeeks
    BY <1>1, <2>2, <2>4, <2>5, SmallerSet
  <2>. QED BY <1>3, <2>1, <2>6 DEF FirstOfWeek
<1>. QED BY <1>2, <1>3 DEF Foremost

LEMMA MadeIsBounded ==
  ASSUME HostConstants, PolicyInv PROVE IsFiniteSet({y.done : y \in made})
<1>1. IsFiniteSet(Times)
  BY FS_Interval DEF Times, HostConstants
<1>2. {y.done : y \in made} \subseteq Times
  BY DEF PolicyInv, MadeFollows
<1>. QED BY <1>1, <1>2, FS_Subset

\* The loop keeps what is foremost among all that were ever complete, whatever the list lacks.
LEMMA LoopKeepsForemost ==
  ASSUME HostConstants, H!LoopFollowsPolicy, PolicyInv, NEW p \in H!Procs, NEW e \in proc[p].seen,
         Foremost(Entry(e.id, e.done), made)
  PROVE  e.id \in H!Retained(proc[p].seen)
<1>. DEFINE F == [id |-> 0, done |-> 0, pinned |-> FALSE]
<1>1. PICK s : s = proc[p].seen
  OBVIOUS
<1>2. /\ s \subseteq ListedSet
      /\ \A f \in s : Entry(f.id, f.done) \in made /\ \A g \in s : f.id = g.id => f = g
  BY <1>1 DEF PolicyInv, HostInv, HostTyped, ProcSet, ListFollows
<1>3. \A f \in s : f.id \in H!Ids /\ f.done \in Times /\ f.pinned \in BOOLEAN
                   /\ f = [id |-> f.id, done |-> f.done, pinned |-> f.pinned]
  <2>1. \A m \in made : m.id \in H!Ids /\ m.done \in Times
    BY DEF PolicyInv, MadeFollows
  <2>2. ASSUME NEW f \in s PROVE f.id \in H!Ids /\ f.done \in Times
    <3>1. Entry(f.id, f.done).id = f.id /\ Entry(f.id, f.done).done = f.done
      BY DEF Entry
    <3>. QED BY <1>2, <2>1, <2>2, <3>1
  <2>3. \A f \in s : f.pinned \in BOOLEAN /\ f = [id |-> f.id, done |-> f.done, pinned |-> f.pinned]
    BY <1>2 DEF ListedSet
  <2>. QED BY <2>2, <2>3
<1>5. PICK m : m = Entry(e.id, e.done)
  OBVIOUS
<1>6. PICK t : t = {Entry(f.id, f.done) : f \in s}
  OBVIOUS
<1>7. t \subseteq made /\ Foremost(m, t)
  <2>1. t \subseteq made
    BY <1>2, <1>6
  <2>2. IsFiniteSet({y.done : y \in made}) /\ Foremost(m, made)
    BY <1>5, MadeIsBounded
  <2>. QED BY <2>1, <2>2, ForemostOfFewer
<1>8. \A f \in s : \E y \in t : y.done = f.done /\ y.id = f.id
  <2>1. ASSUME NEW f \in s PROVE \E y \in t : y.done = f.done /\ y.id = f.id
    <3>1. Entry(f.id, f.done) \in t
      BY <1>6
    <3>. QED BY <3>1 DEF Entry
  <2>. QED BY <2>1
<1>9. \A y \in t : \E f \in s : y.done = f.done /\ y.id = f.id
  <2>1. ASSUME NEW y \in t PROVE \E f \in s : y.done = f.done /\ y.id = f.id
    <3>1. PICK f \in s : y = Entry(f.id, f.done)
      BY <1>6, <2>1
    <3>. QED BY <3>1 DEF Entry
  <2>. QED BY <2>1
<1>10. m.done = e.done /\ m.id = e.id /\ e \in s
  BY <1>1, <1>5 DEF Entry
<1>11. \A y \in s : y.done = e.done => y = e \/ H!Newer(e, y)
  <2>1. ASSUME NEW y \in s, y.done = e.done PROVE y = e \/ H!Newer(e, y)
    <3>1. y.id <= e.id
      BY <1>7, <1>8, <1>10, <2>1 DEF Foremost
    <3>2. y.id = e.id => y = e
      BY <1>2, <1>10
    <3>3. y.id \in Nat /\ e.id \in Nat
      BY <1>3, <1>10 DEF H!Ids
    <3>. QED BY <2>1, <3>1, <3>2, <3>3 DEF H!Newer
  <2>. QED BY <2>1
<1>12. \A y \in s : y.done =< e.done => y = e \/ H!Newer(e, y)
  BY <1>3, <1>10, <1>11 DEF H!Newer, Times
<1>13. ASSUME FirstOfDay(m, t) PROVE H!KeptFor(e, s, H!Day, KeepDays)
  <2>1. \A y \in s : H!Day(y.done) = H!Day(e.done) => y.done =< e.done
    BY <1>8, <1>10, <1>13 DEF FirstOfDay
  <2>2. {H!Day(y.done) : y \in {z \in s : H!Day(z.done) > H!Day(e.done)}}
        = {H!Day(y.done) : y \in {z \in t : H!Day(z.done) > H!Day(m.done)}}
    BY <1>8, <1>9, <1>10
  <2>3. Cardinality({H!Day(y.done) : y \in {z \in s : H!Day(z.done) > H!Day(e.done)}}) < KeepDays
    BY <1>13, <2>2 DEF FirstOfDay
  <2>4. \A y \in s : H!Day(y.done) = H!Day(e.done) => y = e \/ H!Newer(e, y)
    BY <1>12, <2>1
  <2>. QED BY <2>3, <2>4, SameCardinality DEF H!KeptFor
<1>14. ASSUME FirstOfWeek(m, t) PROVE H!KeptFor(e, s, H!Week, KeepWeeks)
  <2>1. \A y \in s : H!Week(y.done) = H!Week(e.done) => y.done =< e.done
    BY <1>8, <1>10, <1>14 DEF FirstOfWeek
  <2>2. {H!Week(y.done) : y \in {z \in s : H!Week(z.done) > H!Week(e.done)}}
        = {H!Week(y.done) : y \in {z \in t : H!Week(z.done) > H!Week(m.done)}}
    BY <1>8, <1>9, <1>10
  <2>3. Cardinality({H!Week(y.done) : y \in {z \in s : H!Week(z.done) > H!Week(e.done)}}) < KeepWeeks
    BY <1>14, <2>2 DEF FirstOfWeek
  <2>4. \A y \in s : H!Week(y.done) = H!Week(e.done) => y = e \/ H!Newer(e, y)
    BY <1>12, <2>1
  <2>. QED BY <2>3, <2>4, SameCardinality DEF H!KeptFor
<1>15. H!KeptFor(e, s, H!Day, KeepDays) \/ H!KeptFor(e, s, H!Week, KeepWeeks)
  BY <1>7, <1>13, <1>14 DEF Foremost
<1>16. H!Retained(s) = {x.id : x \in {y \in s :
          y.pinned \/ H!KeptFor(y, s, H!Day, KeepDays) \/ H!KeptFor(y, s, H!Week, KeepWeeks)}}
  BY <1>1 DEF H!LoopFollowsPolicy
<1>. QED BY <1>1, <1>10, <1>15, <1>16

LEMMA PolicyInit ==
  ASSUME HostConstants, H!Init PROVE PolicyInv
<1>1. /\ clock = DayLength /\ disk = [b \in H!Ids |-> H!Absent] /\ made = {}
      /\ proc = [p \in H!Procs |-> H!Off]
  BY DEF H!Init
<1>2. MadeFollows
  BY <1>1 DEF MadeFollows, HostConstants, Times, H!Present, H!Absent
<1>3. \A p \in H!Procs : ListFollows(p)
  BY <1>1 DEF ListFollows, H!Off
<1>. QED BY <1>2, <1>3, HostInit DEF PolicyInv

\* No backup becomes complete, and none that was is removed.
DiskStays ==
  \A b \in H!Ids :
    /\ disk[b].stage \in Over => disk'[b].stage = disk[b].stage /\ disk'[b].done = disk[b].done
    /\ disk'[b].stage = "complete" => disk[b].stage = "complete"
\* Process p goes on with y, in no list.
BackupFree(p, y) ==
  /\ proc' = [proc EXCEPT ![p] = y]
  /\ y.seen = {} /\ y.at # "prune" /\ (y.at = "rename" => y.done \in Times)

LEMMA MadeStays ==
  ASSUME PolicyInv, UNCHANGED made, clock' \in Times, DiskStays PROVE MadeFollows'
<1>1. H!Ids' = H!Ids /\ Over \subseteq {"complete", "removed"} /\ "complete" \in Over
  BY DEF H!Ids, Over
<1>2. \A m \in made : m.id \in H!Ids /\ disk[m.id].stage \in Over
  BY DEF PolicyInv, MadeFollows
<1>3. \A m \in made : disk'[m.id].stage = disk[m.id].stage /\ disk'[m.id].done = disk[m.id].done
  BY <1>2 DEF DiskStays
<1>4. \A b \in H!Present' : b \in H!Present /\ disk'[b].done = disk[b].done
  BY <1>1 DEF DiskStays, H!Present
<1>5. \A b \in H!Present' : Entry(b, disk'[b].done) \in made'
  BY <1>4 DEF PolicyInv, MadeFollows
<1>6. \A m \in made' :
        /\ m.id \in H!Ids /\ m.done \in Times /\ m = Entry(m.id, m.done)
        /\ disk'[m.id].stage \in Over /\ disk'[m.id].done = m.done
        /\ Foremost(m, made') => disk'[m.id].stage = "complete"
  BY <1>3 DEF PolicyInv, MadeFollows
<1>. QED BY <1>1, <1>5, <1>6 DEF MadeFollows

LEMMA ListStays ==
  ASSUME PolicyInv, UNCHANGED made, NEW p \in H!Procs, proc'[p] = proc[p] PROVE ListFollows(p)'
BY DEF PolicyInv, ListFollows

LEMMA PolicyGoesOn ==
  ASSUME PolicyInv, HostInv', NEW p \in H!Procs, NEW y, BackupFree(p, y), UNCHANGED made,
         clock' \in Times, DiskStays
  PROVE  PolicyInv'
<1>1. \A q \in H!Procs : proc'[q] = IF q = p THEN y ELSE proc[q]
  BY DEF BackupFree, PolicyInv, HostInv, HostTyped
<1>2. ListFollows(p)'
  BY <1>1 DEF BackupFree, ListFollows
<1>3. \A q \in H!Procs : ListFollows(q)'
  BY <1>1, <1>2, ListStays
<1>4. H!Procs' = H!Procs
  BY DEF H!Procs
<1>. QED BY <1>3, <1>4, MadeStays DEF PolicyInv

LEMMA PolicyStarts ==
  ASSUME PolicyInv, HostInv',
         \/ H!Start \/ H!Bind \/ H!BindWorkspace \/ H!BindControl \/ H!Bootstrap \/ H!Tick
         \/ H!Maintain \/ H!Due \/ H!Signal \/ H!Close
  PROVE  PolicyInv'
<1>1. PICK p : p = H!Host
  OBVIOUS
<1>2. p \in H!Procs /\ proc[p] \in ProcSet /\ ListFollows(p)
  BY <1>1, StepsKnown DEF PolicyInv, HostInv, HostTyped
<1>3. UNCHANGED <<disk, clock, made>>
  BY DEF H!Start, H!Bind, H!BindWorkspace, H!BindControl, H!Bootstrap, H!Tick, H!Maintain, H!Due,
         H!Signal, H!Close, H!BindOne, H!databases
<1>4. DiskStays /\ clock' \in Times
  BY <1>3 DEF DiskStays, PolicyInv, MadeFollows
<1>5. CASE H!Signal
  <2>1. /\ proc'[p].at = proc[p].at /\ proc'[p].seen = proc[p].seen /\ proc'[p].rest = proc[p].rest
        /\ proc'[p].done = proc[p].done /\ \A q \in H!Procs : q # p => proc'[q] = proc[q]
    BY <1>1, <1>2, <1>5 DEF H!Signal, PolicyInv, HostInv, HostTyped, ProcSet
  <2>2. ListFollows(p)'
    BY <1>2, <1>3, <2>1 DEF ListFollows
  <2>3. \A q \in H!Procs : ListFollows(q)'
    BY <1>3, <2>1, <2>2, ListStays
  <2>4. H!Procs' = H!Procs
    BY DEF H!Procs
  <2>. QED BY <1>3, <1>4, <2>3, <2>4, MadeStays DEF PolicyInv
<1>6. CASE H!Start \/ (H!Due /\ proc' = [proc EXCEPT ![p] = H!Rested(p)])
  <2>1. PICK y : y = IF H!Start THEN [H!Off EXCEPT !.at = "bind", !.for = "start"] ELSE H!Rested(p)
    OBVIOUS
  <2>2. BackupFree(p, y)
    BY <1>1, <1>6, <2>1 DEF H!Start, BackupFree, H!Off, H!Rested
  <2>. QED BY <1>2, <1>3, <1>4, <2>2, PolicyGoesOn
<1>7. CASE \E step \in Steps \ (Taking \cup Taken) :
             H!Goes(p, step) /\ proc[p].at \notin {"list", "prune"}
  <2>1. PICK step \in Steps \ (Taking \cup Taken) :
             H!Goes(p, step) /\ proc[p].at \notin {"list", "prune"}
    BY <1>7
  <2>2. PICK y : y = [proc[p] EXCEPT !.at = step]
    OBVIOUS
  <2>3. proc' = [proc EXCEPT ![p] = y] /\ y.at = step /\ y.seen = {}
    BY <1>2, <2>1, <2>2 DEF H!Goes, ProcSet, ListFollows
  <2>4. BackupFree(p, y)
    BY <2>1, <2>3 DEF BackupFree, Taking, Taken
  <2>. QED BY <1>2, <1>3, <1>4, <2>4, PolicyGoesOn
<1>8. ASSUME H!Bind \/ H!BindWorkspace \/ H!BindControl \/ H!Bootstrap \/ H!Tick \/ H!Maintain \/ H!Close
      PROVE  \E step \in Steps \ (Taking \cup Taken) :
               H!Goes(p, step) /\ proc[p].at \notin {"list", "prune"}
  BY <1>1, <1>8, StepsKnown
     DEF H!Bind, H!BindWorkspace, H!BindControl, H!Bootstrap, H!Tick, H!Maintain, H!Close, H!BindOne,
         Taking, Taken
<1>9. CASE H!Due
  <2>1. H!Goes(p, "begin") \/ proc' = [proc EXCEPT ![p] = H!Rested(p)]
    BY <1>1, <1>9 DEF H!Due
  <2>2. "begin" \in Steps \ (Taking \cup Taken) /\ proc[p].at \notin {"list", "prune"}
    BY <1>1, <1>9 DEF Steps, Taking, Taken, H!Due
  <2>. QED BY <1>6, <1>7, <1>9, <2>1, <2>2
<1>. QED BY <1>5, <1>6, <1>7, <1>8, <1>9

LEMMA PolicyOfBackup ==
  ASSUME PolicyInv, HostInv', NEW p \in H!Procs,
         \/ H!Die(p) \/ H!Command(p) \/ H!Begin(p) \/ H!CopyDatabase(p) \/ H!Succeed(p) \/ H!End(p)
         \/ H!Fail(p)
  PROVE  PolicyInv'
<1>1. proc[p] \in ProcSet /\ ListFollows(p) /\ CopyFollows(p) /\ clock \in Times
  BY DEF PolicyInv, HostInv, HostTyped, MadeFollows
<1>2. UNCHANGED <<clock, made>>
  BY DEF H!Die, H!Command, H!Begin, H!CopyDatabase, H!Copied, H!Succeed, H!End, H!Fail, H!databases
<1>3. disk \in [H!Ids -> BackupSet]
  BY DEF PolicyInv, HostInv, HostTyped
<1>4. CASE H!Die(p) \/ H!Command(p) \/ H!End(p) \/ H!Succeed(p)
  <2>1. DiskStays
    BY <1>4 DEF DiskStays, H!Die, H!Command, H!Succeed, H!End
  <2>2. PICK y : y = IF H!Die(p) THEN H!Off
                     ELSE IF H!Command(p) THEN [H!Off EXCEPT !.at = "begin"]
                     ELSE IF H!End(p) THEN H!Rested(p)
                     ELSE [proc[p] EXCEPT !.at = "list", !.rest = H!Present]
    OBVIOUS
  <2>3. proc' = [proc EXCEPT ![p] = y]
    BY <1>4, <2>2 DEF H!Die, H!Command, H!End, H!Succeed
  <2>4. CASE H!Die(p) \/ H!Command(p) \/ H!End(p)
    <3>1. y.seen = {} /\ y.at # "prune" /\ y.at # "rename"
      BY <2>2, <2>4 DEF H!Off, H!Rested
    <3>. QED BY <1>1, <1>2, <2>1, <2>3, <3>1, PolicyGoesOn DEF BackupFree
  <2>5. CASE H!Succeed(p) /\ ~ (H!Die(p) \/ H!Command(p) \/ H!End(p))
    <3>1. y.seen = {} /\ y.at = "list"
      BY <1>1, <2>2, <2>5 DEF ProcSet, ListFollows, H!Succeed
    <3>. QED BY <1>1, <1>2, <2>1, <2>3, <3>1, PolicyGoesOn DEF BackupFree
  <2>. QED BY <1>4, <2>4, <2>5
<1>5. CASE H!Begin(p)
  <2>1. PICK b \in H!Ids :
          /\ disk[b].stage = "absent"
          /\ disk' = [disk EXCEPT ![b].stage = "pending"]
          /\ proc' = [proc EXCEPT ![p].at = "workspace", ![p].id = b]
    BY <1>5 DEF H!Begin
  <2>2. DiskStays
    BY <1>3, <2>1 DEF DiskStays, Over, BackupSet
  <2>3. PICK y : y = [proc[p] EXCEPT !.at = "workspace", !.id = b]
    OBVIOUS
  <2>4. y.seen = {} /\ y.at = "workspace" /\ proc' = [proc EXCEPT ![p] = y]
    BY <1>1, <1>5, <2>1, <2>3 DEF ProcSet, ListFollows, H!Begin
  <2>. QED BY <1>1, <1>2, <2>2, <2>4, PolicyGoesOn DEF BackupFree
<1>6. ASSUME NEW db, NEW next \in {"control", "rename"}, H!Copied(p, db, next),
             proc[p].at \in {"workspace", "control"}
      PROVE  PolicyInv'
  <2>1. PICK b : b = proc[p].id
    OBVIOUS
  <2>2. b \in H!Ids /\ disk[b].stage = "pending"
    BY <1>1, <1>6, <2>1 DEF CopyFollows, Taking
  <2>3. DiskStays
    BY <1>3, <1>6, <2>1, <2>2 DEF H!Copied, DiskStays, Over, BackupSet
  <2>4. PICK y : y = [proc[p] EXCEPT !.at = next, !.done = IF next = "rename" THEN clock ELSE H!None]
    OBVIOUS
  <2>5. proc' = [proc EXCEPT ![p] = y]
    BY <1>6, <2>4 DEF H!Copied
  <2>6. y.seen = {} /\ y.at = next /\ (next = "rename" => y.done = clock)
    BY <1>1, <1>6, <2>4 DEF ProcSet, ListFollows
  <2>7. BackupFree(p, y)
    BY <1>1, <2>5, <2>6 DEF BackupFree
  <2>. QED BY <1>1, <1>2, <2>3, <2>7, PolicyGoesOn
<1>7. CASE H!Fail(p)
  <2>1. PICK b : b = proc[p].id
    OBVIOUS
  <2>2. disk' = [disk EXCEPT ![b].stage = IF @ = "pending" THEN "removed" ELSE @]
    BY <1>7, <2>1 DEF H!Fail
  <2>3. DiskStays
    BY <1>3, <2>2 DEF DiskStays, Over, BackupSet
  <2>4. PICK y : y = (IF proc[p].for = "start" THEN H!Off ELSE H!Rested(p))
    OBVIOUS
  <2>5. proc' = [proc EXCEPT ![p] = y] /\ y.seen = {} /\ y.at \notin {"prune", "rename"}
    BY <1>7, <2>4 DEF H!Fail, H!Off, H!Rested
  <2>. QED BY <1>1, <1>2, <2>3, <2>5, PolicyGoesOn DEF BackupFree
<1>. QED BY <1>4, <1>5, <1>6, <1>7 DEF H!CopyDatabase

LEMMA PolicyOfList ==
  ASSUME HostConstants, H!LoopFollowsPolicy, PolicyInv, HostInv', NEW p \in H!Procs, H!List(p)
  PROVE  PolicyInv'
<1>1. proc[p] \in ProcSet /\ ListFollows(p) /\ clock \in Times /\ proc[p].at = "list"
  BY DEF PolicyInv, HostInv, HostTyped, MadeFollows, H!List
<1>2. UNCHANGED <<clock, made, disk>>
  BY DEF H!List, H!databases
<1>3. MadeFollows'
  BY <1>1, <1>2, MadeStays DEF DiskStays
<1>4. /\ \A q \in H!Procs : q # p => proc'[q] = proc[q]
      /\ H!Procs' = H!Procs
  BY DEF H!List, H!Procs, PolicyInv, HostInv, HostTyped
<1>5. SUFFICES ListFollows(p)'
  BY <1>2, <1>3, <1>4, ListStays DEF PolicyInv
<1>6. CASE proc' = [proc EXCEPT ![p].at = "prune",
             ![p].rest = {x.id : x \in proc[p].seen} \ H!Retained(proc[p].seen)]
  <2>1. PICK s, r : s = proc[p].seen /\ r = {x.id : x \in s} \ H!Retained(s)
    OBVIOUS
  <2>2. proc'[p].at = "prune" /\ proc'[p].rest = r /\ proc'[p].seen = s
    BY <1>1, <1>6, <2>1 DEF ProcSet, PolicyInv, HostInv, HostTyped
  <2>3. ASSUME NEW m \in made, Foremost(m, made), m.id \in r PROVE FALSE
    <3>1. PICK e \in s : e.id = m.id
      BY <2>1, <2>3
    <3>2. Entry(e.id, e.done) \in made
      BY <1>1, <2>1 DEF ListFollows
    <3>3. Entry(e.id, e.done).id = e.id /\ Entry(e.id, e.done).done = e.done
      BY DEF Entry
    <3>4. e.done = m.done /\ m = Entry(m.id, m.done)
      BY <3>1, <3>2, <3>3 DEF PolicyInv, MadeFollows
    <3>5. m.id \in H!Retained(s)
      BY <2>1, <2>3, <3>1, <3>4, LoopKeepsForemost
    <3>. QED BY <2>1, <2>3, <3>5
  <2>4. r \subseteq {e.id : e \in s}
    BY <2>1
  <2>. QED BY <1>1, <1>2, <2>1, <2>2, <2>3, <2>4 DEF ListFollows
<1>7. ASSUME NEW b \in proc[p].rest \cap H!Present,
             proc' = [proc EXCEPT ![p].rest = @ \ {b},
               ![p].seen = @ \cup {[id |-> b, done |-> disk[b].done, pinned |-> disk[b].pinned]}]
      PROVE  ListFollows(p)'
  <2>1. PICK e, s : /\ e = [id |-> b, done |-> disk[b].done, pinned |-> disk[b].pinned]
                    /\ s = proc[p].seen \cup {e}
    OBVIOUS
  <2>2. proc'[p].at = "list" /\ proc'[p].rest = proc[p].rest \ {b} /\ proc'[p].seen = s
    BY <1>1, <1>7, <2>1 DEF ProcSet, PolicyInv, HostInv, HostTyped
  <2>3. e.id = b /\ e.done = disk[b].done
    BY <2>1
  <2>4. Entry(e.id, e.done) \in made
    BY <2>3 DEF PolicyInv, MadeFollows
  <2>5. \A f \in proc[p].seen : f.id # b
    BY <1>1 DEF ListFollows
  <2>6. \A f \in s : /\ Entry(f.id, f.done) \in made
                     /\ \A g \in s : f.id = g.id => f = g
                     /\ f.id \notin proc[p].rest \ {b}
    <3>1. ASSUME NEW f \in s PROVE f = e \/ f \in proc[p].seen
      BY <2>1
    <3>. QED BY <1>1, <2>3, <2>4, <2>5, <3>1 DEF ListFollows
  <2>. QED BY <1>2, <2>2, <2>6 DEF ListFollows
<1>. QED BY <1>6, <1>7 DEF H!List

LEMMA PolicyOfDiscard ==
  ASSUME PolicyInv, HostInv', NEW p \in H!Procs, H!Discard(p) PROVE PolicyInv'
<1>1. PICK b \in proc[p].rest \cap H!Present :
        /\ disk' = [disk EXCEPT ![b].stage = "removed"]
        /\ proc' = [proc EXCEPT ![p].rest = @ \ {b}]
  BY DEF H!Discard
<1>2. /\ proc[p] \in ProcSet /\ ListFollows(p) /\ clock \in Times /\ proc[p].at = "prune"
      /\ UNCHANGED <<clock, made>> /\ disk \in [H!Ids -> BackupSet]
  BY DEF PolicyInv, HostInv, HostTyped, MadeFollows, H!Discard, H!databases
<1>3. /\ proc'[p].at = "prune" /\ proc'[p].rest = proc[p].rest \ {b} /\ proc'[p].seen = proc[p].seen
      /\ proc'[p].done = proc[p].done
      /\ \A q \in H!Procs : q # p => proc'[q] = proc[q]
      /\ H!Procs' = H!Procs /\ H!Ids' = H!Ids
  BY <1>1, <1>2 DEF ProcSet, PolicyInv, HostInv, HostTyped, H!Procs, H!Ids
<1>4. ListFollows(p)'
  BY <1>2, <1>3 DEF ListFollows
<1>5. \A c \in H!Ids : /\ disk'[c].done = disk[c].done
                       /\ disk'[c].stage = IF c = b THEN "removed" ELSE disk[c].stage
  BY <1>1, <1>2 DEF BackupSet
<1>6. b \in H!Ids /\ disk[b].stage = "complete"
  BY DEF H!Present
<1>7. ASSUME NEW m \in made
      PROVE  /\ m.id \in H!Ids /\ m.done \in Times /\ m = Entry(m.id, m.done)
             /\ disk'[m.id].stage \in Over /\ disk'[m.id].done = m.done
             /\ Foremost(m, made) => disk'[m.id].stage = "complete"
  <2>1. /\ m.id \in H!Ids /\ m.done \in Times /\ m = Entry(m.id, m.done)
        /\ disk[m.id].stage \in Over /\ disk[m.id].done = m.done
        /\ Foremost(m, made) => disk[m.id].stage = "complete"
    BY DEF PolicyInv, MadeFollows
  <2>2. Foremost(m, made) => m.id # b
    BY <1>2 DEF ListFollows
  <2>. QED BY <1>5, <2>1, <2>2 DEF Over
<1>8. \A c \in H!Present' : c \in H!Present /\ disk'[c].done = disk[c].done
  BY <1>3, <1>5 DEF H!Present
<1>9. \A c \in H!Present' : Entry(c, disk'[c].done) \in made'
  BY <1>2, <1>8 DEF PolicyInv, MadeFollows
<1>10. MadeFollows'
  BY <1>2, <1>3, <1>7, <1>9 DEF MadeFollows
<1>. QED BY <1>2, <1>3, <1>4, <1>10, ListStays DEF PolicyInv

LEMMA PolicyOfComplete ==
  ASSUME HostConstants, PolicyInv, HostInv', NEW p \in H!Procs, H!Complete(p) PROVE PolicyInv'
<1>1. PICK b, t, n : b = proc[p].id /\ t = proc[p].done /\ n = Entry(b, t)
  OBVIOUS
<1>2. /\ proc[p] \in ProcSet /\ ListFollows(p) /\ CopyFollows(p) /\ proc[p].at = "rename"
      /\ disk \in [H!Ids -> BackupSet] /\ UNCHANGED clock
  BY DEF PolicyInv, HostInv, HostTyped, H!Complete, H!databases
<1>3. b \in H!Ids /\ disk[b].stage = "pending" /\ t \in Times /\ proc[p].seen = {}
  BY <1>1, <1>2 DEF CopyFollows, Taking, ListFollows
<1>4. /\ disk' = [disk EXCEPT ![b].stage = "complete", ![b].done = t]
      /\ made' = made \cup {n} /\ H!Goes(p, "succeed")
  BY <1>1 DEF H!Complete, Entry
<1>5. \A c \in H!Ids : IF c = b THEN disk'[c].stage = "complete" /\ disk'[c].done = t
                       ELSE disk'[c].stage = disk[c].stage /\ disk'[c].done = disk[c].done
  BY <1>2, <1>4 DEF BackupSet
<1>6. \A m \in made : m.id \in H!Ids /\ disk[m.id].stage \in Over /\ m.id # b
  BY <1>3 DEF PolicyInv, MadeFollows, Over
<1>7. n.id = b /\ n.done = t /\ n = Entry(n.id, n.done)
  BY <1>1 DEF Entry
<1>8. IsFiniteSet({y.done : y \in made'})
  <2>1. IsFiniteSet(Times)
    BY FS_Interval DEF Times, HostConstants
  <2>2. \A m \in made : m.done \in Times
    BY DEF PolicyInv, MadeFollows
  <2>3. \A m \in made' : m.done \in Times
    BY <1>3, <1>4, <1>7, <2>2
  <2>4. {y.done : y \in made'} \subseteq Times
    BY <2>3
  <2>. QED BY <2>1, <2>4, FS_Subset
<1>9. ASSUME NEW m \in made, Foremost(m, made') PROVE Foremost(m, made)
  BY <1>4, <1>8, <1>9, ForemostOfFewer
<1>10. H!Procs' = H!Procs /\ H!Ids' = H!Ids
  BY DEF H!Procs, H!Ids
<1>11. ASSUME NEW q \in H!Procs PROVE ListFollows(q)'
  <2>1. CASE q = p
    <3>1. proc'[p].at = "succeed" /\ proc'[p].seen = {}
      BY <1>2, <1>3, <1>4 DEF H!Goes, ProcSet, PolicyInv, HostInv, HostTyped
    <3>. QED BY <2>1, <3>1 DEF ListFollows
  <2>2. CASE q # p
    <3>1. proc'[q] = proc[q] /\ ListFollows(q)
      BY <1>4, <2>2 DEF H!Goes, PolicyInv, HostInv, HostTyped
    <3>2. ASSUME proc[q].at = "prune", NEW m \in made', Foremost(m, made') PROVE m.id \notin proc[q].rest
      <4>1. CASE m \in made
        BY <1>9, <3>1, <3>2, <4>1 DEF ListFollows
      <4>2. CASE m = n
        <5>1. \A e \in proc[q].seen : e.id # b
          <6>1. ASSUME NEW e \in proc[q].seen PROVE e.id # b
            <7>1. Entry(e.id, e.done) \in made /\ Entry(e.id, e.done).id = e.id
              BY <3>1 DEF ListFollows, Entry
            <7>. QED BY <1>6, <7>1
          <6>. QED BY <6>1
        <5>2. proc[q].rest \subseteq {e.id : e \in proc[q].seen}
          BY <3>1, <3>2 DEF ListFollows
        <5>. QED BY <1>7, <4>2, <5>1, <5>2
      <4>. QED BY <1>4, <4>1, <4>2
    <3>. QED BY <1>4, <3>1, <3>2 DEF ListFollows
  <2>. QED BY <2>1, <2>2
<1>12. ASSUME NEW m \in made'
       PROVE  /\ m.id \in H!Ids /\ m.done \in Times /\ m = Entry(m.id, m.done)
              /\ disk'[m.id].stage \in Over /\ disk'[m.id].done = m.done
              /\ Foremost(m, made') => disk'[m.id].stage = "complete"
  <2>1. CASE m = n
    BY <1>3, <1>5, <1>7, <2>1 DEF Over
  <2>2. CASE m \in made
    <3>1. /\ m.id \in H!Ids /\ m.done \in Times /\ m = Entry(m.id, m.done)
          /\ disk[m.id].stage \in Over /\ disk[m.id].done = m.done
          /\ Foremost(m, made) => disk[m.id].stage = "complete"
      BY <2>2 DEF PolicyInv, MadeFollows
    <3>2. disk'[m.id].stage = disk[m.id].stage /\ disk'[m.id].done = disk[m.id].done
      BY <1>5, <1>6, <2>2
    <3>. QED BY <1>9, <2>2, <3>1, <3>2
  <2>. QED BY <1>4, <2>1, <2>2
<1>13. ASSUME NEW c \in H!Present' PROVE Entry(c, disk'[c].done) \in made'
  <2>1. CASE c = b
    <3>1. disk'[c].done = t
      BY <1>3, <1>5, <2>1
    <3>2. n = Entry(c, disk'[c].done)
      BY <1>1, <2>1, <3>1
    <3>. QED BY <1>4, <3>2
  <2>2. CASE c # b
    <3>1. c \in H!Present /\ disk'[c].done = disk[c].done
      BY <1>5, <1>10, <2>2 DEF H!Present
    <3>. QED BY <1>4, <3>1 DEF PolicyInv, MadeFollows
  <2>. QED BY <2>1, <2>2
<1>14. clock' \in Times
  BY <1>2 DEF PolicyInv, MadeFollows
<1>15. MadeFollows'
  BY <1>10, <1>12, <1>13, <1>14 DEF MadeFollows
<1>. QED BY <1>10, <1>11, <1>15 DEF PolicyInv

LEMMA PolicyBesides ==
  ASSUME HostConstants, PolicyInv, HostInv',
         H!Delete \/ H!Elapse \/ (\E b \in H!Ids : H!Pin(b)) \/ UNCHANGED H!vars
  PROVE  PolicyInv'
<1>1. UNCHANGED <<proc, made>> /\ H!Procs' = H!Procs
  BY DEF H!Delete, H!Elapse, H!Pin, H!vars, H!Procs
<1>2. clock' \in Times
  BY DEF H!Delete, H!Elapse, H!Pin, H!vars, H!databases, PolicyInv, MadeFollows, Times, HostConstants
<1>3. DiskStays
  <2>1. CASE disk' = disk
    BY <2>1 DEF DiskStays
  <2>2. CASE \E b \in H!Ids : H!Pin(b)
    <3>1. PICK b \in H!Ids : disk' = [disk EXCEPT ![b].pinned = TRUE]
      BY <2>2 DEF H!Pin
    <3>. QED BY <3>1 DEF DiskStays, PolicyInv, HostInv, HostTyped, BackupSet
  <2>. QED BY <2>1, <2>2 DEF H!Delete, H!Elapse, H!vars
<1>4. \A q \in H!Procs : ListFollows(q)'
  BY <1>1, ListStays
<1>. QED BY <1>1, <1>2, <1>3, <1>4, MadeStays DEF PolicyInv

LEMMA PolicyStep ==
  ASSUME HostConstants, H!LoopFollowsPolicy, PolicyInv, [H!Next]_(H!vars) PROVE PolicyInv'
<1>1. HostInv'
  BY HostStep DEF PolicyInv
<1>2. CASE \E p \in H!Procs :
             \/ H!Die(p) \/ H!Command(p) \/ H!Begin(p) \/ H!CopyDatabase(p) \/ H!Complete(p)
             \/ H!Succeed(p) \/ H!List(p) \/ H!Discard(p) \/ H!End(p) \/ H!Fail(p)
  BY <1>1, <1>2, PolicyOfBackup, PolicyOfList, PolicyOfDiscard, PolicyOfComplete
<1>. QED BY <1>1, <1>2, PolicyStarts, PolicyBesides DEF H!Next

\* Of the newest ones of one moment, the one that a list has first is there.
LEMMA ForemostStands ==
  ASSUME HostConstants, PolicyInv PROVE H!PolicyHolds
<1>1. SUFFICES ASSUME NEW x \in made,
                      \/ H!NewestOf(x, H!Day) /\ H!Cardinality(H!Later(x, H!Day)) < KeepDays
                      \/ H!NewestOf(x, H!Week) /\ H!Cardinality(H!Later(x, H!Week)) < KeepWeeks
               PROVE  \E y \in made : y.done = x.done /\ y.id \in H!Present
  BY DEF H!PolicyHolds
<1>2. FirstOfDay(x, made) \/ FirstOfWeek(x, made)
  BY <1>1, SameCardinality DEF FirstOfDay, FirstOfWeek, H!NewestOf, H!Later
<1>3. PICK S : S = {b \in H!Ids : Entry(b, x.done) \in made}
  OBVIOUS
<1>4. x.id \in S /\ S \in SUBSET (1..MaxBackups) /\ MaxBackups \in Nat
  BY <1>3 DEF PolicyInv, MadeFollows, H!Ids, HostConstants
<1>5. PICK b \in S : \A c \in S : c <= b
  BY <1>4, Greatest
<1>6. PICK y : y = Entry(b, x.done)
  OBVIOUS
<1>7. y \in made /\ y.done = x.done /\ y.id = b
  BY <1>3, <1>6 DEF Entry
<1>8. \A z \in made : z.done = y.done => z.id <= y.id
  BY <1>3, <1>5, <1>7 DEF PolicyInv, MadeFollows
<1>9. Foremost(y, made)
  BY <1>2, <1>7, <1>8 DEF Foremost, FirstOfDay, FirstOfWeek
<1>10. y.id \in H!Present
  BY <1>7, <1>9 DEF PolicyInv, MadeFollows, H!Present
<1>. QED BY <1>7, <1>10

LEMMA PolicyIsFollowed ==
  ASSUME HostConstants PROVE H!Spec /\ []H!LoopFollowsPolicy => []H!PolicyHolds
<1>1. H!Init => PolicyInv
  BY PolicyInit
<1>2. PolicyInv /\ H!LoopFollowsPolicy /\ [H!Next]_(H!vars) => PolicyInv'
  BY PolicyStep
<1>3. PolicyInv => H!PolicyHolds
  BY ForemostStands
<1>. QED BY <1>1, <1>2, <1>3, PTL DEF H!Spec

-----------------------------------------------------------------------------
(* A behaviour of Workbench is one of each part.                           *)

LEMMA HostBehaves == WorkbenchSpec => H!Spec
<1>1. WorkbenchInit => H!Init
  BY DEF WorkbenchInit
<1>2. [WorkbenchNext]_<<part, vars, hostVars, panelVars>> => [H!Next]_(H!vars)
  BY DEF WorkbenchNext, hostVars, H!vars
<1>. QED BY <1>1, <1>2, PTL DEF WorkbenchSpec, H!Spec

LEMMA PanelBehaves == WorkbenchSpec => P!Spec
<1>1. WorkbenchInit => P!Init
  BY DEF WorkbenchInit
<1>2. [WorkbenchNext]_<<part, vars, hostVars, panelVars>> => [P!Next]_(P!vars)
  BY DEF WorkbenchNext, panelVars, P!vars
<1>. QED BY <1>1, <1>2, PTL DEF WorkbenchSpec, P!Spec

\* The two copies of every complete backup agree, for any number of commands beside the host, of
\* backups, failures and deaths: control is copied after its workspace (backups.ts), and a backup
\* under way belongs to one process.
THEOREM CopiesOfABackupAgree == WorkbenchSpec => []CopiesAgree
<1>1. H!Spec => []H!CopiesAgree
  BY HostAssumption, BackupsAgree
<1>. QED BY <1>1, HostBehaves, PTL DEF CopiesAgree

\* A publication that was not cancelled, and a decision, is followed by another one of its draft
\* only when the panel had shown it to the person who asked, whatever answers were lost and
\* however late a request arrives (StagingPublish.tsx, service.ts).
THEOREM NothingUnseenFollows == WorkbenchSpec => []NothingUnseen
<1>1. P!Spec => []P!NothingUnseen
  BY PanelAssumption, UnseenIsNotFollowed
<1>. QED BY <1>1, PanelBehaves, PTL DEF NothingUnseen

\* What the panel shows of a draft never goes back to an earlier publication or decision, however
\* late a read of an earlier opening is answered (usePublicationStatus.ts).
THEOREM ShownNeverGoesBack == WorkbenchSpec => NeverGoesBack
<1>1. P!Spec => P!NeverGoesBack
  BY PanelAssumption, ReadsGoForward
<1>. QED BY <1>1, PanelBehaves, PTL DEF NeverGoesBack

\* The backups that the policy keeps, the newest of each of the last days and weeks that have one,
\* stay, for any number of commands beside the host and of backups, whatever fails and dies between
\* two steps: a list may lack what another process has removed or not yet completed, and still
\* keeps what is the newest of all that were ever complete (retainedBackups, backups.ts).  That the
\* loop over the sorted list computes the policy is a hypothesis: it is a fact about data, which
\* TLC checks for every list that the instance reads.
THEOREM PolicyIsKept == WorkbenchSpec /\ []LoopFollowsPolicy => []PolicyHolds
<1>1. H!Spec /\ []H!LoopFollowsPolicy => []H!PolicyHolds
  BY HostAssumption, PolicyIsFollowed
<1>. QED BY <1>1, HostBehaves, PTL DEF LoopFollowsPolicy, PolicyHolds
=============================================================================
