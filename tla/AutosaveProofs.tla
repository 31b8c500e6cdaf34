---------------------------- MODULE AutosaveProofs ----------------------------
(***************************************************************************)
(* Proofs about Autosave for every number of retries, edits and pages and  *)
(* every set of worlds.                                                    *)
(*                                                                         *)
(* A save carries a whole document and replaces the latest revision, and   *)
(* the server compares numbers of revisions only.  That nothing is         *)
(* overwritten is therefore a matter of what the pages send: a document    *)
(* contains all that its base holds.  SaveInv says where such documents    *)
(* are on their way: in the queue of a page, in the two writes a page may  *)
(* have before its journal, in the journal, and in a request; and for      *)
(* whom it has to hold: a page with the valid token or with the journal.   *)
(***************************************************************************)
EXTENDS AutosaveInvariants, SequenceTheorems, TLAPS

-----------------------------------------------------------------------------
(* What the methods of the controller do to a page: the page stays well    *)
(* formed and, if it was sound, sound (Moved).                             *)

LEMMA WordsKnown ==
  /\ "saved" \in Words /\ "pending" \in Words /\ "saving" \in Words /\ "offline" \in Words
  /\ "retrying" \in Words /\ "conflict" \in Words /\ "validation" \in Words /\ "error" \in Words
  /\ "checking" \in Words /\ "blocked" \in Words /\ "ready" \in Words /\ "writing" \in Words
  /\ "protected" \in Words /\ "unavailable" \in Words /\ "no" \in Words /\ "loading" \in Words
  /\ "clearing" \in Words /\ "clearing to leave" \in Words /\ "sent" \in Words
  /\ "dirty" \in Words /\ "stale" \in Words
BY DEF Words

Able(x) == HistoryOK /\ x \in Tabs /\ Fit(x)
\* the request under way goes on
SameHead(x, y) ==
  /\ y.flight /\ y.queue[1].key = x.queue[1].key
  /\ y.queue[1].doc = x.queue[1].doc /\ y.queue[1].base = x.queue[1].base
Moved(x, y) ==
  /\ Able(y) /\ y.token = x.token /\ y.init = x.init
  /\ x.flight => SameHead(x, y)
  /\ Sound(x) => Sound(y)

LEMMA HistoryTyped ==
  ASSUME NEW x, Able(x)
  PROVE  DOMAIN history = 1..Len(history) /\ Len(history) \in Nat /\ x.draft \in 1..Len(history)
<1>1. history \in Seq(Revisions) /\ x.draft \in DOMAIN history
  BY DEF Able, Fit, HistoryOK
<1>2. DOMAIN history = 1..Len(history) /\ Len(history) \in Nat
  BY <1>1
<1>. QED BY <1>1, <1>2

LEMMA HistoryClean ==
  ASSUME HistoryOK, NEW i \in DOMAIN history PROVE history[i].doc \cap Bad = {}
BY DEF HistoryOK

LEMMA MovedTransitive ==
  ASSUME NEW x, NEW y, NEW z, Moved(x, y), Moved(y, z) PROVE Moved(x, z)
BY DEF Moved, SameHead

LEMMA PayloadTyped ==
  ASSUME NEW x \in Tabs
  PROVE  Payload(x) \in Payloads
<1>. DEFINE pending == x.queue \o x.staged
<1>1. x.queue \in Seq(Entries) /\ x.staged \in Seq(Entries) /\ x.draft \in Nat
  BY DEF Tabs
<1>2. pending \in Seq(Entries)
  BY <1>1
<1>3. ASSUME NEW e \in Entries PROVE Stored(e) \in Entries
  BY DEF Entries, Stored, Entry
<1>4. ASSUME NEW s \in Seq(Entries) PROVE [i \in DOMAIN s |-> Stored(s[i])] \in Seq(Entries)
  <2>1. DOMAIN s = 1..Len(s) /\ Len(s) \in Nat /\ \A i \in 1..Len(s) : s[i] \in Entries
    OBVIOUS
  <2>2. [i \in 1..Len(s) |-> Stored(s[i])] \in [1..Len(s) -> Entries]
    BY <1>3, <2>1
  <2>. QED BY <2>1, <2>2
<1>5. [i \in DOMAIN pending |-> Stored(pending[i])] \in Seq(Entries)
  BY <1>2, <1>4
<1>6. Payload(x) = IF pending = <<>> THEN Empty
                   ELSE [base |-> x.draft, actions |-> [i \in DOMAIN pending |-> Stored(pending[i])]]
  BY DEF Payload
<1>. HIDE DEF pending
<1>. QED
  BY <1>1, <1>5, <1>6 DEF Payloads, Empty

LEMMA Joined ==
  ASSUME NEW S, NEW a \in Seq(S), NEW b \in Seq(S)
  PROVE  /\ a \o b \in Seq(S)
         /\ DOMAIN (a \o b) = 1..(Len(a) + Len(b))
         /\ \A i \in DOMAIN a : (a \o b)[i] = a[i]
         /\ Len(b) = 1 => (a \o b)[Len(a) + 1] = b[1]
         /\ \A i \in DOMAIN (a \o b) : i \in DOMAIN a \/ (b # <<>> /\ i \notin DOMAIN a /\ i > Len(a))
         /\ a \o b # <<>> => 1 \in DOMAIN (a \o b)
         /\ b = <<>> => DOMAIN (a \o b) = DOMAIN a
<1>. DEFINE c == a \o b
<1>1. /\ Len(a) \in Nat /\ DOMAIN a = 1..Len(a) /\ Len(b) \in Nat
      /\ b = <<>> <=> Len(b) = 0
  BY EmptySeq
<1>2. /\ c \in Seq(S) /\ Len(c) = Len(a) + Len(b)
      /\ \A i \in 1..(Len(a) + Len(b)) : c[i] = IF i <= Len(a) THEN a[i] ELSE b[i - Len(a)]
  BY ConcatProperties
<1>. HIDE DEF c
<1>3. DOMAIN c = 1..(Len(a) + Len(b))
  BY <1>2
<1>4. \A i \in DOMAIN a : c[i] = a[i]
  BY <1>1, <1>2
<1>5. Len(b) = 1 => c[Len(a) + 1] = b[1]
  <2>. SUFFICES ASSUME Len(b) = 1 PROVE c[Len(a) + 1] = b[1]
    OBVIOUS
  <2>1. Len(a) + 1 \in 1..(Len(a) + Len(b)) /\ ~ (Len(a) + 1 <= Len(a)) /\ (Len(a) + 1) - Len(a) = 1
    BY <1>1
  <2>. QED BY <1>2, <2>1
<1>6. \A i \in DOMAIN c : i \in DOMAIN a \/ (b # <<>> /\ i \notin DOMAIN a /\ i > Len(a))
  BY <1>1, <1>3
<1>7. c # <<>> => 1 \in DOMAIN c
  BY <1>2
<1>8. b = <<>> => DOMAIN c = DOMAIN a
  BY <1>1, <1>3
<1>. QED BY <1>2, <1>3, <1>4, <1>5, <1>6, <1>7, <1>8 DEF c

LEMMA PayloadIsSound ==
  ASSUME NEW x, Able(x), Sound(x)
  PROVE  PayloadSound(Payload(x))
<1>. DEFINE a == x.queue
            b == x.staged
            pending == a \o b
            w == Payload(x)
<1>1. /\ a \in Seq(Entries) /\ b \in Seq(Entries) /\ x.draft \in Nat
      /\ b # <<>> => Len(b) = 1 /\ b[1].base = 0
      /\ x.draft \in DOMAIN history
  BY DEF Able, Tabs, Fit
<1>2. /\ Chain(a)
      /\ a # <<>> => Stands(a[1].doc, IF a[1].base = 0 THEN x.draft ELSE a[1].base)
      /\ b # <<>> => \A i \in DOMAIN a : Clean(a[i].doc) \subseteq b[1].doc
      /\ a = <<>> /\ b # <<>> => history[x.draft].doc \subseteq b[1].doc
  <2>1. Chain(a)
    BY DEF Sound
  <2>2. a # <<>> => Stands(a[1].doc, IF a[1].base = 0 THEN x.draft ELSE a[1].base)
    BY DEF Sound
  <2>3. \A i \in DOMAIN a : Clean(a[i].doc) \subseteq x.doc
    BY DEF Sound
  <2>4. b # <<>> => x.doc \subseteq b[1].doc
    BY DEF Able, Fit
  <2>5. a = <<>> => history[x.draft].doc \subseteq x.doc
    BY DEF Sound
  <2>. HIDE DEF a, b
  <2>. QED BY <2>1, <2>2, <2>3, <2>4, <2>5
<1>3. w \in Payloads
  BY PayloadTyped DEF Able
<1>4. w = IF pending = <<>> THEN Empty
          ELSE [base |-> x.draft, actions |-> [i \in DOMAIN pending |-> Stored(pending[i])]]
  BY DEF Payload
<1>. SUFFICES PayloadSound(w)
  OBVIOUS
<1>. HIDE DEF w, a, b
<1>5. /\ \A i \in DOMAIN a : pending[i] = a[i]
      /\ b # <<>> => pending[Len(a) + 1] = b[1]
      /\ \A i \in DOMAIN pending : i \in Nat /\ (i \in DOMAIN a \/ (b # <<>> /\ i = Len(a) + 1))
      /\ \A i, j \in DOMAIN pending : i < j => i \in DOMAIN a
      /\ pending # <<>> => 1 \in DOMAIN pending
      /\ a # <<>> => 1 \in DOMAIN a
  <2>1. DOMAIN a = 1..Len(a) /\ Len(a) \in Nat /\ Len(b) \in Nat
    BY <1>1
  <2>2. DOMAIN pending = 1..(Len(a) + Len(b))
    BY <1>1, Joined
  <2>3. \A i \in DOMAIN a : pending[i] = a[i]
    BY <1>1, Joined
  <2>4. b # <<>> => pending[Len(a) + 1] = b[1]
    BY <1>1, Joined
  <2>5. \A i \in DOMAIN pending : i \in Nat /\ (i \in DOMAIN a \/ (b # <<>> /\ i = Len(a) + 1))
    <3>1. b = <<>> => Len(b) = 0
      BY EmptySeq
    <3>2. b # <<>> => Len(b) = 1
      BY <1>1
    <3>. HIDE DEF pending
    <3>3. (Len(b) = 0 /\ b = <<>>) \/ (Len(b) = 1 /\ b # <<>>)
      BY <3>1, <3>2
    <3>. SUFFICES ASSUME NEW i \in 1..(Len(a) + Len(b))
                  PROVE  i \in Nat /\ (i \in 1..Len(a) \/ (b # <<>> /\ i = Len(a) + 1))
      BY <2>1, <2>2
    <3>4. CASE b = <<>>
      <4>1. Len(b) = 0
        BY <3>4, <3>1
      <4>. QED BY <2>1, <4>1
    <3>5. CASE b # <<>>
      <4>1. Len(b) = 1
        BY <3>5, <3>2
      <4>. QED BY <2>1, <4>1, <3>5
    <3>. QED BY <3>4, <3>5
  <2>6. \A i, j \in DOMAIN pending : i < j => i \in DOMAIN a
    BY <2>1, <2>5
  <2>7. pending # <<>> => 1 \in DOMAIN pending
    BY <1>1, Joined
  <2>. HIDE DEF pending
  <2>8. a # <<>> => 1 \in DOMAIN a
    BY <1>1, <2>1
  <2>. QED BY <2>3, <2>4, <2>5, <2>6, <2>7, <2>8
<1>. HIDE DEF pending
<1>6. CASE pending = <<>>
  <2>1. w.actions = <<>>
    BY <1>6, <1>4 DEF Empty
  <2>. QED BY <1>3, <1>4, <1>6, <2>1 DEF PayloadSound, Chain
<1>7. CASE pending # <<>>
  <2>1. w.base = x.draft /\ DOMAIN w.actions = DOMAIN pending
    BY <1>7, <1>4
  <2>2. \A i \in DOMAIN pending :
          w.actions[i].doc = pending[i].doc /\ w.actions[i].base = pending[i].base
    BY <1>7, <1>4 DEF Stored, Entry
  <2>3. \A i \in DOMAIN pending : i > 1 => pending[i].base = 0
    BY <1>1, <1>2, <1>5 DEF Chain
  <2>4. \A i, j \in DOMAIN pending : i < j => Clean(pending[i].doc) \subseteq pending[j].doc
    BY <1>2, <1>5 DEF Chain
  <2>5. Stands(pending[1].doc, IF pending[1].base = 0 THEN x.draft ELSE pending[1].base)
    <3>1. CASE a # <<>>
      BY <3>1, <1>2, <1>5
    <3>2. CASE a = <<>>
      <4>1. DOMAIN a = {}
        BY <3>2
      <4>2. b # <<>> /\ 1 = Len(a) + 1 /\ pending[1] = b[1]
        BY <4>1, <1>5, <1>7
      <4>. QED BY <3>2, <4>2, <1>1, <1>2 DEF Stands
    <3>. QED BY <3>1, <3>2
  <2>6. Chain(w.actions)
    BY <2>1, <2>2, <2>3, <2>4 DEF Chain
  <2>7. Stands(w.actions[1].doc, IF w.actions[1].base = 0 THEN w.base ELSE w.actions[1].base)
    BY <2>1, <2>2, <2>5, <1>5, <1>7
  <2>8. w.actions # <<>>
    <3>1. 1 \in DOMAIN w.actions
      BY <1>5, <1>7, <2>1
    <3>. QED BY <3>1
  <2>. QED BY <1>3, <2>6, <2>7, <2>8 DEF PayloadSound
<1>. QED BY <1>6, <1>7

\* what scheduling and emitting leave alone
Like(x, y) ==
  /\ y.queue = x.queue /\ y.staged = x.staged /\ y.doc = x.doc /\ y.draft = x.draft
  /\ y.flight = x.flight /\ y.discard = x.discard /\ y.token = x.token /\ y.init = x.init

LEMMA ScheduleMoves ==
  ASSUME NEW x, Able(x), NEW retry \in BOOLEAN
  PROVE  Moved(x, Schedule(x, retry)) /\ Like(x, Schedule(x, retry))
<1>. DEFINE w == Payload(x)
            y == Schedule(x, retry)
<1>1. w \in Payloads /\ (Sound(x) => PayloadSound(w))
  BY PayloadTyped, PayloadIsSound DEF Able
<1>2. \/ y = x
      \/ x.init /\ y = [x EXCEPT !.recovery = "writing", !.writing = w]
      \/ x.init /\ y = [x EXCEPT !.recovery = "writing", !.next = w]
  BY DEF Schedule
<1>. HIDE DEF w, y
<1>3. x \in Tabs
  BY DEF Able
<1>4. /\ y \in Tabs /\ Like(x, y)
      /\ y.state = x.state /\ y.latest = x.latest
      /\ y = x \/ (x.init /\ y.recovery = "writing")
  <2>1. CASE y = x
    BY <1>3, <2>1 DEF Like
  <2>2. CASE x.init /\ y = [x EXCEPT !.recovery = "writing", !.writing = w]
    BY <1>1, <1>3, <2>2, WordsKnown DEF Tabs, Like
  <2>3. CASE x.init /\ y = [x EXCEPT !.recovery = "writing", !.next = w]
    BY <1>1, <1>3, <2>3, WordsKnown DEF Tabs, Like
  <2>. QED BY <1>2, <2>1, <2>2, <2>3
<1>5. Fit(y)
  <2>1. CASE y = x
    BY <2>1 DEF Able
  <2>2. CASE x.init /\ y.recovery = "writing"
    BY <2>2, <1>4 DEF Fit, Able, Like
  <2>. QED BY <1>4, <2>1, <2>2
<1>6. Sound(x) => Sound(y)
  <2>. SUFFICES ASSUME Sound(x) PROVE Sound(y)
    OBVIOUS
  <2>2. WriteSound(y.writing) /\ WriteSound(y.next)
    BY <1>1, <1>2, <1>3 DEF Sound, WriteSound, Tabs
  <2>. QED BY <2>2, <1>4 DEF Sound, Like
<1>. QED BY <1>4, <1>5, <1>6 DEF Moved, Able, Like, SameHead, y

\* an update of fields that neither the journal nor the server sees
LEMMA SoftMoves ==
  ASSUME NEW x, Able(x), NEW y \in Tabs, Like(x, y),
         y.writing = x.writing, y.next = x.next, y.latest = x.latest,
         y.state = "validation" => x.state = "validation" \/ Bad # {},
         x.init => y.recovery # "checking",
         ~ x.init => y.recovery \in Unread
  PROVE  Moved(x, y)
<1>1. Fit(y)
  BY DEF Fit, Able, Like
<1>2. Sound(x) => Sound(y)
  BY DEF Sound, Like
<1>. QED BY <1>1, <1>2 DEF Moved, Able, Like, SameHead

LEMMA SetWaitingMoves ==
  ASSUME NEW x, Able(x)
  PROVE  Moved(x, SetWaiting(x)) /\ Like(x, SetWaiting(x))
<1>. DEFINE y == Schedule(x, FALSE)
            z == SetWaiting(x)
<1>1. Moved(x, y) /\ Like(x, y)
  BY ScheduleMoves
<1>2. \/ z = y
      \/ \E s \in {"offline", y.state, "pending"} : z = [y EXCEPT !.full = FALSE, !.state = s]
  <2>1. z = IF y.state \in Stopped THEN y
            ELSE [y EXCEPT !.full = FALSE,
                           !.state = IF ~online THEN "offline"
                                     ELSE IF y.flight \/ y.retryTimer THEN @ ELSE "pending"]
    BY DEF SetWaiting
  <2>. HIDE DEF y, z
  <2>. QED BY <2>1
<1>. HIDE DEF y, z
<1>3. CASE z = y
  BY <1>1, <1>3 DEF z
<1>4. ASSUME NEW s \in {"offline", y.state, "pending"}, z = [y EXCEPT !.full = FALSE, !.state = s]
      PROVE  Moved(x, z) /\ Like(x, z)
  <2>1. y \in Tabs /\ Able(y)
    BY <1>1 DEF Moved, Able
  <2>2. s \in Words /\ (s = "validation" => y.state = "validation")
    BY <2>1, WordsKnown DEF Tabs
  <2>3. z \in Tabs /\ Like(y, z)
    BY <2>1, <2>2, <1>4 DEF Tabs, Like
  <2>4. /\ z.writing = y.writing /\ z.next = y.next /\ z.latest = y.latest
        /\ z.recovery = y.recovery /\ z.state = s
    BY <2>1, <1>4 DEF Tabs
  <2>5. Moved(y, z)
    BY <2>1, <2>2, <2>3, <2>4, SoftMoves DEF Able, Fit
  <2>. QED BY <1>1, <2>3, <2>5, MovedTransitive DEF Like
<1>. QED BY <1>2, <1>3, <1>4 DEF z

LEMMA NewHead ==
  ASSUME NEW S, NEW s \in Seq(S), s # <<>>, NEW e \in S
  PROVE  LET t == [s EXCEPT ![1] = e] IN
         /\ t \in Seq(S) /\ Len(t) = Len(s) /\ t # <<>> /\ DOMAIN t = DOMAIN s
         /\ t[1] = e /\ \A i \in DOMAIN s : i # 1 => t[i] = s[i]
<1>. DEFINE t == [s EXCEPT ![1] = e]
<1>1. DOMAIN s = 1..Len(s) /\ Len(s) \in Nat /\ Len(s) # 0 /\ \A i \in 1..Len(s) : s[i] \in S
  OBVIOUS
<1>2. DOMAIN t = 1..Len(s) /\ t[1] = e /\ \A i \in 1..Len(s) : i # 1 => t[i] = s[i]
  BY <1>1
<1>3. t \in [1..Len(s) -> S]
  BY <1>1, <1>2
<1>. HIDE DEF t
<1>4. t \in Seq(S) /\ Len(t) = Len(s)
  BY <1>1, <1>3
<1>5. t # <<>>
  BY <1>1, <1>4
<1>. QED BY <1>1, <1>2, <1>4, <1>5 DEF t

LEMMA InQueue ==
  ASSUME NEW S, NEW s \in Seq(S), s # <<>>
  PROVE  /\ 1 \in DOMAIN s /\ Len(s) \in DOMAIN s /\ Head(s) = s[1] /\ s[1] \in S
         /\ Len(s) \in Nat \ {0} /\ DOMAIN s = 1..Len(s)
<1>1. Len(s) \in Nat /\ Len(s) # 0 /\ DOMAIN s = 1..Len(s)
  OBVIOUS
<1>. QED BY <1>1

LEMMA SameLength ==
  ASSUME NEW S, NEW s \in Seq(S), NEW t \in Seq(S), Len(s) = Len(t)
  PROVE  DOMAIN s = DOMAIN t /\ (s = <<>> <=> t = <<>>)
<1>1. DOMAIN s = 1..Len(s) /\ DOMAIN t = 1..Len(t)
  OBVIOUS
<1>2. (s = <<>> <=> Len(s) = 0) /\ (t = <<>> <=> Len(t) = 0)
  OBVIOUS
<1>. QED BY <1>1, <1>2

\* the same documents in the same order, of which the first may get its base
SameDocs(x, y) ==
  /\ Len(y.queue) = Len(x.queue)
  /\ \A i \in DOMAIN x.queue :
       /\ y.queue[i].doc = x.queue[i].doc
       /\ \/ y.queue[i].base = x.queue[i].base
          \/ i = 1 /\ x.queue[1].base = 0 /\ y.queue[1].base = x.draft
LEMMA QueueMoves ==
  ASSUME NEW x, Able(x), x.init, NEW y \in Tabs, SameDocs(x, y),
         x.flight => SameHead(x, y) /\ y.queue[1].ready,
         y.staged = x.staged, y.doc = x.doc, y.draft = x.draft, y.flight = x.flight,
         y.discard = x.discard, y.token = x.token, y.init = x.init,
         y.writing = x.writing, y.next = x.next, y.latest = x.latest,
         y.state = "validation" => x.state = "validation", y.recovery # "checking"
  PROVE  Moved(x, y)
<1>1. x \in Tabs /\ x.queue \in Seq(Entries) /\ y.queue \in Seq(Entries)
  BY DEF Able, Tabs
<1>2. DOMAIN y.queue = DOMAIN x.queue /\ (y.queue = <<>> <=> x.queue = <<>>)
  BY <1>1, SameLength DEF SameDocs
<1>3. x.queue # <<>> => 1 \in DOMAIN x.queue /\ Len(x.queue) \in DOMAIN x.queue
  BY <1>1, InQueue
<1>4. Fit(y)
  <2>1. \A i \in DOMAIN y.queue : y.queue[i].base \in {0} \cup DOMAIN history
    BY <1>2 DEF SameDocs, Able, Fit
  <2>2. y.flight => /\ y.queue # <<>> /\ y.queue[1].ready /\ y.queue[1].base # 0
                    /\ y.init /\ y.discard = "no"
    BY <1>2 DEF SameHead, Able, Fit
  <2>. QED BY <2>1, <2>2, <1>2 DEF SameDocs, Able, Fit
<1>6. ASSUME Sound(x) PROVE Sound(y)
  <2>1. Chain(y.queue)
    <3>1. \A i, j \in DOMAIN x.queue : i < j => Clean(y.queue[i].doc) \subseteq y.queue[j].doc
      BY <1>6 DEF Sound, Chain, SameDocs
    <3>2. \A i \in DOMAIN x.queue : i > 1 => y.queue[i].base = 0
      BY <1>1, <1>6 DEF Sound, Chain, SameDocs
    <3>. QED BY <3>1, <3>2, <1>2 DEF Chain
  <2>2. y.queue # <<>> =>
          Stands(y.queue[1].doc, IF y.queue[1].base = 0 THEN y.draft ELSE y.queue[1].base)
    <3>. SUFFICES ASSUME x.queue # <<>>
                  PROVE Stands(y.queue[1].doc, IF y.queue[1].base = 0 THEN y.draft ELSE y.queue[1].base)
      BY <1>2
    <3>1. Stands(x.queue[1].doc, IF x.queue[1].base = 0 THEN x.draft ELSE x.queue[1].base)
      BY <1>6 DEF Sound
    <3>. QED BY <3>1, <1>3 DEF SameDocs
  <2>3. \A i \in DOMAIN y.queue : Clean(y.queue[i].doc) \subseteq y.doc
    BY <1>2, <1>6 DEF Sound, SameDocs
  <2>. QED BY <2>1, <2>2, <2>3, <1>2, <1>6 DEF Sound
<1>. QED BY <1>4, <1>6 DEF Moved, Able

LEMMA WithBaseMoves ==
  ASSUME NEW x, Able(x), x.init, ~ x.flight, x.queue # <<>>, x.discard = "no", Head(x.queue).ready
  PROVE  LET y == WithBase(x) IN
         /\ Moved(x, y) /\ y.queue # <<>> /\ y.queue[1].base # 0 /\ y.queue[1].ready
         /\ y.discard = "no" /\ y.staged = x.staged /\ y.doc = x.doc /\ y.draft = x.draft
<1>. DEFINE e == [x.queue[1] EXCEPT !.base = x.draft]
            z == [x EXCEPT !.queue[1].base = x.draft]
<1>1. /\ x \in Tabs /\ x.queue \in Seq(Entries) /\ x.draft \in Nat
      /\ Head(x.queue) = x.queue[1] /\ x.queue[1] \in Entries /\ x.queue[1].ready
      /\ DOMAIN x.queue = 1..Len(x.queue)
  BY InQueue DEF Able, Tabs
<1>2. x.draft # 0
  <2>1. x.draft \in DOMAIN history
    BY DEF Able, Fit
  <2>. QED BY <2>1, HistoryTyped
<1>3. CASE x.queue[1].base # 0
  <2>1. WithBase(x) = x
    BY <1>1, <1>3 DEF WithBase
  <2>. QED BY <2>1, <1>1, <1>3 DEF Moved, SameHead
<1>4. CASE x.queue[1].base = 0
  <2>1. WithBase(x) = Schedule(z, FALSE)
    BY <1>1, <1>4 DEF WithBase
  <2>2. e \in Entries /\ e.base = x.draft /\ e.ready /\ e.doc = x.queue[1].doc
    BY <1>1 DEF Entries
  <2>3. z = [x EXCEPT !.queue = [x.queue EXCEPT ![1] = e]]
    BY <1>1
  <2>. HIDE DEF e, z
  <2>4. PICK t : t = [x.queue EXCEPT ![1] = e]
    OBVIOUS
  <2>5. /\ t \in Seq(Entries) /\ Len(t) = Len(x.queue) /\ t # <<>>
        /\ t[1] = e /\ \A i \in DOMAIN x.queue : i # 1 => t[i] = x.queue[i]
    BY <1>1, <2>2, <2>4, NewHead
  <2>6. z = [x EXCEPT !.queue = t]
    BY <2>3, <2>4
  <2>7. /\ z \in Tabs /\ z.queue = t /\ z.staged = x.staged /\ z.doc = x.doc /\ z.draft = x.draft
        /\ z.flight = x.flight /\ z.discard = x.discard /\ z.token = x.token /\ z.init = x.init
        /\ z.writing = x.writing /\ z.next = x.next /\ z.latest = x.latest /\ z.state = x.state
        /\ z.recovery = x.recovery
    BY <1>1, <2>5, <2>6 DEF Tabs
  <2>8. SameDocs(x, z)
    BY <1>4, <2>2, <2>5, <2>7 DEF SameDocs
  <2>9. Moved(x, z)
    BY <2>7, <2>8, QueueMoves DEF Able, Fit
  <2>. DEFINE y == Schedule(z, FALSE)
  <2>10. Moved(z, y) /\ Like(z, y)
    BY <2>9, ScheduleMoves DEF Moved
  <2>. HIDE DEF y
  <2>11. Moved(x, y)
    BY <2>9, <2>10, MovedTransitive
  <2>12. y.queue = t /\ t[1].base # 0 /\ t[1].ready
    BY <1>2, <2>2, <2>5, <2>7, <2>10 DEF Like
  <2>13. y.discard = "no" /\ y.staged = x.staged /\ y.doc = x.doc /\ y.draft = x.draft
    BY <2>7, <2>10 DEF Like
  <2>14. WithBase(x) = y
    BY <2>1 DEF y
  <2>. QED BY <2>5, <2>11, <2>12, <2>13, <2>14
<1>. QED BY <1>3, <1>4

LEMMA SendMoves ==
  ASSUME NEW x, Able(x), x.queue # <<>>, x.queue[1].base # 0, x.queue[1].ready, x.init,
         x.discard = "no"
  PROVE  Moved(x, Send(x))
<1>1. Send(x) \in Tabs
  BY WordsKnown DEF Send, Able, Tabs
<1>. QED
  BY <1>1 DEF Send, Moved, SameHead, Able, Fit, Sound, Tabs

\* a change of the shown state only
LEMMA StateMoves ==
  ASSUME NEW x, Able(x), NEW s \in Words, s # "validation", NEW full \in BOOLEAN
  PROVE  Moved(x, [x EXCEPT !.state = s, !.full = full])
         /\ Like(x, [x EXCEPT !.state = s, !.full = full])
         /\ Moved(x, [x EXCEPT !.state = s]) /\ Like(x, [x EXCEPT !.state = s])
<1>1. x \in Tabs
  BY DEF Able
<1>2. ASSUME NEW y, y = [x EXCEPT !.state = s, !.full = full] \/ y = [x EXCEPT !.state = s]
      PROVE  Moved(x, y) /\ Like(x, y)
  <2>1. y \in Tabs /\ Like(x, y)
    BY <1>1, <1>2 DEF Tabs, Like
  <2>2. y.writing = x.writing /\ y.next = x.next /\ y.latest = x.latest /\ y.recovery = x.recovery
        /\ y.state = s
    BY <1>1, <1>2 DEF Tabs
  <2>. QED BY <2>1, <2>2, SoftMoves DEF Able, Fit
<1>. QED BY <1>2

LEMMA PumpMoves ==
  ASSUME NEW x, Able(x), NEW on \in BOOLEAN
  PROVE  Moved(x, Pump(x, on)) /\ Pump(x, on).staged = x.staged
         /\ Pump(x, on).doc = x.doc /\ Pump(x, on).draft = x.draft
<1>0. x \in Tabs /\ Moved(x, x)
  BY DEF Able, Moved, SameHead
<1>. DEFINE y == Pump(x, on)
<1>1. CASE Idle(x)
  BY <1>0, <1>1 DEF Pump
<1>. SUFFICES ASSUME ~ Idle(x)
              PROVE  Moved(x, y) /\ y.staged = x.staged /\ y.doc = x.doc /\ y.draft = x.draft
  BY <1>1
<1>2. x.init /\ ~ x.flight /\ x.discard = "no"
  BY DEF Idle, Able, Fit, Unread
<1>3. CASE x.queue = <<>>
  <2>1. PICK s \in {"saved", "pending"} : y = [x EXCEPT !.state = s, !.full = FALSE]
    BY <1>3 DEF Pump
  <2>. HIDE DEF y
  <2>2. s \in Words /\ s # "validation"
    BY WordsKnown
  <2>3. Moved(x, y) /\ Like(x, y)
    BY <2>1, <2>2, StateMoves
  <2>. QED BY <2>3 DEF Like
<1>. SUFFICES ASSUME x.queue # <<>>
              PROVE  Moved(x, y) /\ y.staged = x.staged /\ y.doc = x.doc /\ y.draft = x.draft
  BY <1>3
<1>4. CASE ~ Head(x.queue).ready
  <2>1. y = [x EXCEPT !.state = "pending"]
    BY <1>4 DEF Pump
  <2>. HIDE DEF y
  <2>2. Moved(x, y) /\ Like(x, y)
    BY <2>1, WordsKnown, StateMoves
  <2>. QED BY <2>2 DEF Like
<1>5. CASE Head(x.queue).ready /\ ~ on
  <2>1. y = [x EXCEPT !.state = "offline"]
    BY <1>5 DEF Pump
  <2>. HIDE DEF y
  <2>2. Moved(x, y) /\ Like(x, y)
    BY <2>1, WordsKnown, StateMoves
  <2>. QED BY <2>2 DEF Like
<1>6. CASE Head(x.queue).ready /\ on
  <2>. DEFINE z == WithBase(x)
  <2>1. y = Send(z)
    BY <1>6 DEF Pump
  <2>2. /\ Moved(x, z) /\ z.queue # <<>> /\ z.queue[1].base # 0 /\ z.queue[1].ready
        /\ z.discard = "no" /\ z.staged = x.staged /\ z.doc = x.doc /\ z.draft = x.draft
    BY <1>2, <1>6, WithBaseMoves
  <2>. HIDE DEF z
  <2>3. Able(z) /\ z.init /\ z \in Tabs
    BY <1>2, <2>2 DEF Moved, Able
  <2>4. Moved(z, Send(z))
    BY <2>2, <2>3, SendMoves
  <2>5. Send(z).staged = z.staged /\ Send(z).doc = z.doc /\ Send(z).draft = z.draft
    BY <2>3 DEF Send, Tabs
  <2>. QED BY <2>1, <2>2, <2>4, <2>5, MovedTransitive
<1>. QED BY <1>4, <1>5, <1>6

LEMMA FlushMoves ==
  ASSUME NEW x, Able(x), x.init, online \in BOOLEAN
  PROVE  Moved(x, Flush(x)) /\ Flush(x).staged = x.staged
         /\ Flush(x).doc = x.doc /\ Flush(x).draft = x.draft
<1>0. x \in Tabs /\ Moved(x, x) /\ x.queue \in Seq(Entries)
  BY DEF Able, Moved, SameHead, Tabs
<1>1. CASE ~ Unready(x)
  BY <1>0, <1>1 DEF Flush
<1>2. CASE Unready(x)
  <2>. DEFINE q == [i \in DOMAIN x.queue |-> [x.queue[i] EXCEPT !.ready = TRUE]]
              z == [x EXCEPT !.queue = q]
              y == SetWaiting(z)
  <2>1. Flush(x) = Pump(y, online)
    BY <1>2 DEF Flush
  <2>2. /\ DOMAIN x.queue = 1..Len(x.queue) /\ Len(x.queue) \in Nat
        /\ \A i \in DOMAIN x.queue : x.queue[i] \in Entries
    BY <1>0
  <2>3. /\ q \in Seq(Entries) /\ Len(q) = Len(x.queue)
        /\ \A i \in DOMAIN x.queue :
             /\ q[i].doc = x.queue[i].doc /\ q[i].base = x.queue[i].base
             /\ q[i].key = x.queue[i].key /\ q[i].ready
    <3>1. \A i \in DOMAIN x.queue :
             /\ q[i] \in Entries /\ q[i].doc = x.queue[i].doc /\ q[i].base = x.queue[i].base
             /\ q[i].key = x.queue[i].key /\ q[i].ready
      BY <2>2 DEF Entries
    <3>2. q \in [1..Len(x.queue) -> Entries]
      BY <2>2, <3>1
    <3>. HIDE DEF q
    <3>3. q \in Seq(Entries) /\ Len(q) = Len(x.queue)
      BY <2>2, <3>2
    <3>. QED BY <3>1, <3>3
  <2>. HIDE DEF q
  <2>4. /\ z \in Tabs /\ z.queue = q /\ z.staged = x.staged /\ z.doc = x.doc /\ z.draft = x.draft
        /\ z.flight = x.flight /\ z.discard = x.discard /\ z.token = x.token /\ z.init = x.init
        /\ z.writing = x.writing /\ z.next = x.next /\ z.latest = x.latest /\ z.state = x.state
        /\ z.recovery = x.recovery
    BY <1>0, <2>3 DEF Tabs
  <2>. HIDE DEF z
  <2>5. SameDocs(x, z)
    BY <2>3, <2>4 DEF SameDocs
  <2>6. x.flight => 1 \in DOMAIN x.queue
    BY <1>0, InQueue DEF Able, Fit
  <2>7. x.flight => SameHead(x, z) /\ z.queue[1].ready
    BY <2>3, <2>4, <2>6 DEF SameHead
  <2>8. Moved(x, z)
    BY <2>4, <2>5, <2>7, QueueMoves DEF Able, Fit
  <2>9. Moved(z, y) /\ Like(z, y)
    BY <2>8, SetWaitingMoves DEF Moved
  <2>. HIDE DEF y
  <2>10. /\ Moved(y, Pump(y, online)) /\ Pump(y, online).staged = y.staged
         /\ Pump(y, online).doc = y.doc /\ Pump(y, online).draft = y.draft
    BY <2>9, PumpMoves DEF Moved
  <2>11. Moved(x, Pump(y, online))
    BY <2>8, <2>9, <2>10, MovedTransitive
  <2>. QED BY <2>1, <2>4, <2>9, <2>10, <2>11 DEF Like
<1>. QED BY <1>1, <1>2

\* what was under way is over: a request may be sent, but none goes on
Ended(x, y) ==
  /\ Able(y) /\ y.token = x.token /\ y.init = x.init
  /\ Sound(x) => Sound(y)

LEMMA EndedThenMoves ==
  ASSUME NEW x, NEW y, NEW z, Ended(x, y), Moved(y, z) PROVE Ended(x, z)
BY DEF Ended, Moved

\* an entry is put behind the queue, whose document contains what is shown
Pushed(x, e) == [x EXCEPT !.doc = e.doc, !.queue = Append(@, e)]
LEMMA PushedMoves ==
  ASSUME NEW x, Able(x), x.init, x.staged = <<>>,
         NEW e \in Entries, e.base = 0, Clean(x.doc) \subseteq e.doc
  PROVE  Moved(x, Pushed(x, e)) /\ Pushed(x, e).staged = <<>>
<1>. DEFINE q == Append(x.queue, e)
            y == Pushed(x, e)
<1>1. x \in Tabs /\ x.queue \in Seq(Entries)
  BY DEF Able, Tabs
<1>2. /\ DOMAIN x.queue = 1..Len(x.queue) /\ Len(x.queue) \in Nat
      /\ x.queue = <<>> <=> Len(x.queue) = 0
  BY <1>1
<1>3. /\ q \in Seq(Entries) /\ q # <<>> /\ Len(q) = Len(x.queue) + 1
      /\ DOMAIN q = 1..(Len(x.queue) + 1)
      /\ \A i \in DOMAIN x.queue : q[i] = x.queue[i]
      /\ q[Len(x.queue) + 1] = e
  BY <1>1
<1>4. y = [x EXCEPT !.doc = e.doc, !.queue = q]
  BY DEF Pushed
<1>. HIDE DEF q, y
<1>5. e.doc \in Document
  BY DEF Entries
<1>6. /\ y \in Tabs /\ y.doc = e.doc /\ y.queue = q /\ y.staged = x.staged /\ y.draft = x.draft
      /\ y.flight = x.flight /\ y.discard = x.discard /\ y.token = x.token /\ y.init = x.init
      /\ y.writing = x.writing /\ y.next = x.next /\ y.latest = x.latest /\ y.state = x.state
      /\ y.recovery = x.recovery
  BY <1>1, <1>3, <1>4, <1>5 DEF Tabs
<1>7. x.queue # <<>> => 1 \in DOMAIN x.queue /\ q[1] = x.queue[1]
  BY <1>2, <1>3
<1>8. x.queue = <<>> => q[1] = e
  BY <1>2, <1>3
<1>9. Fit(y)
  <2>1. \A i \in DOMAIN y.queue : y.queue[i].base \in {0} \cup DOMAIN history
    <3>1. \A i \in DOMAIN q : (i \in DOMAIN x.queue /\ q[i] = x.queue[i]) \/ q[i] = e
      BY <1>2, <1>3
    <3>. QED BY <3>1, <1>6 DEF Able, Fit
  <2>2. y.flight => y.queue[1].ready /\ y.queue[1].base # 0 /\ y.init /\ y.discard = "no"
    BY <1>6, <1>7 DEF Able, Fit
  <2>. QED BY <2>1, <2>2, <1>3, <1>6 DEF Able, Fit
<1>10. ASSUME Sound(x) PROVE Sound(y)
  <2>1. \A i \in DOMAIN q : i \in DOMAIN x.queue \/ (i = Len(x.queue) + 1 /\ q[i] = e)
    BY <1>2, <1>3
  <2>2. \A i \in DOMAIN x.queue : Clean(x.queue[i].doc) \subseteq e.doc
    BY <1>10 DEF Sound, Clean
  <2>3. ASSUME NEW i \in DOMAIN q, NEW j \in DOMAIN q, i < j
        PROVE  Clean(q[i].doc) \subseteq q[j].doc
    <3>1. i \in DOMAIN x.queue
      BY <1>2, <1>3, <2>3
    <3>. QED BY <1>3, <1>10, <2>1, <2>2, <2>3, <3>1 DEF Sound, Chain
  <2>4. ASSUME NEW i \in DOMAIN q, i > 1 PROVE q[i].base = 0
    BY <1>3, <1>10, <2>1, <2>4 DEF Sound, Chain
  <2>5. Stands(q[1].doc, IF q[1].base = 0 THEN x.draft ELSE q[1].base)
    <3>1. CASE x.queue # <<>>
      BY <1>7, <1>10, <3>1 DEF Sound
    <3>2. CASE x.queue = <<>>
      <4>1. history[x.draft].doc \subseteq x.doc
        BY <1>10, <3>2 DEF Sound
      <4>2. history[x.draft].doc \cap Bad = {}
        BY HistoryClean DEF Able, Fit
      <4>. QED BY <1>8, <3>2, <4>1, <4>2, HistoryTyped DEF Stands, Clean, Able, Fit
    <3>. QED BY <3>1, <3>2
  <2>6. \A i \in DOMAIN q : Clean(q[i].doc) \subseteq e.doc
    BY <1>3, <2>1, <2>2 DEF Clean
  <2>. QED BY <1>3, <1>6, <1>10, <2>3, <2>4, <2>5, <2>6 DEF Sound, Chain
<1>. QED BY <1>1, <1>6, <1>7, <1>9, <1>10 DEF Moved, SameHead, Able, Fit, y

LEMMA PushMoves ==
  ASSUME NEW x, Able(x), x.init, x.staged = <<>>, online \in BOOLEAN,
         NEW key \in Nat \ {0}, NEW doc \in Document, NEW text \in BOOLEAN,
         Clean(x.doc) \subseteq doc
  PROVE  Moved(x, Push(x, key, doc, text))
<1>. DEFINE e == Entry(key, doc, 0, ~text)
            y == Flush(x)
            z == Pushed(y, e)
<1>1. e \in Entries /\ e.base = 0 /\ e.doc = doc
  BY DEF Entry, Entries
<1>2. Moved(x, y) /\ y.staged = <<>> /\ y.doc = x.doc
  BY FlushMoves
<1>3. Push(x, key, doc, text) = SetWaiting(z)
  BY <1>1 DEF Push, Pushed
<1>. HIDE DEF e, y
<1>4. Moved(y, z)
  BY <1>1, <1>2, PushedMoves DEF Moved
<1>. HIDE DEF z
<1>5. Moved(z, SetWaiting(z))
  BY <1>4, SetWaitingMoves DEF Moved
<1>. QED BY <1>2, <1>3, <1>4, <1>5, MovedTransitive

LEMMA StandsMore ==
  ASSUME HistoryOK, NEW d, NEW e, NEW i, Stands(d, i), Clean(d) \subseteq e
  PROVE  Stands(e, i)
<1>1. i \in DOMAIN history /\ history[i].doc \subseteq d /\ history[i].doc \cap Bad = {}
  BY HistoryClean DEF Stands
<1>. QED BY <1>1 DEF Stands, Clean

\* the text of the entry that is being typed goes on
Extended(x, doc) == [x EXCEPT !.doc = doc, !.queue[Len(x.queue)].doc = doc]
LEMMA ExtendedMoves ==
  ASSUME NEW x, Able(x), x.init, x.staged = <<>>, x.queue # <<>>, ~ Last(x.queue).ready,
         NEW doc \in Document, Clean(x.doc) \subseteq doc
  PROVE  Moved(x, Extended(x, doc))
<1>. DEFINE n == Len(x.queue)
            q == [x.queue EXCEPT ![n].doc = doc]
            y == Extended(x, doc)
<1>1. /\ x \in Tabs /\ x.queue \in Seq(Entries) /\ n \in Nat /\ DOMAIN x.queue = 1..n
      /\ n \in DOMAIN x.queue /\ 1 \in DOMAIN x.queue
      /\ \A i \in 1..n : x.queue[i] \in Entries
  BY InQueue DEF Able, Tabs
<1>2. /\ q \in Seq(Entries) /\ q # <<>> /\ Len(q) = n /\ DOMAIN q = 1..n
      /\ \A i \in 1..n : /\ i < n => q[i] = x.queue[i]
                         /\ q[i].base = x.queue[i].base
      /\ q[n].doc = doc
  <2>1. /\ DOMAIN q = 1..n /\ \A i \in 1..n : i < n => q[i] = x.queue[i]
        /\ q[n] = [x.queue[n] EXCEPT !.doc = doc]
    BY <1>1
  <2>2. q[n] \in Entries /\ q[n].base = x.queue[n].base /\ q[n].doc = doc
    <3>1. PICK r \in Entries : r = x.queue[n]
      BY <1>1
    <3>2. q[n] = [r EXCEPT !.doc = doc] /\ r.base = x.queue[n].base
      BY <2>1, <3>1
    <3>3. [r EXCEPT !.doc = doc] \in Entries /\ [r EXCEPT !.doc = doc].base = r.base
          /\ [r EXCEPT !.doc = doc].doc = doc
      BY DEF Entries
    <3>. QED BY <3>2, <3>3
  <2>3. \A i \in 1..n : q[i] \in Entries /\ q[i].base = x.queue[i].base
    BY <1>1, <2>1, <2>2
  <2>. HIDE DEF q
  <2>4. q \in [1..n -> Entries]
    <3>1. q = [i \in 1..n |-> q[i]]
      BY <2>1 DEF q
    <3>. QED BY <2>3, <3>1
  <2>. HIDE DEF n
  <2>5. q \in Seq(Entries) /\ Len(q) = n
    BY <1>1, <2>4
  <2>6. q # <<>>
    BY <1>1, <2>5
  <2>. QED BY <1>1, <2>1, <2>2, <2>3, <2>5, <2>6
<1>3. y = [x EXCEPT !.doc = doc, !.queue = q]
  BY <1>1 DEF Extended
<1>. HIDE DEF q, y, n
<1>4. /\ y \in Tabs /\ y.doc = doc /\ y.queue = q /\ y.staged = x.staged /\ y.draft = x.draft
      /\ y.flight = x.flight /\ y.discard = x.discard /\ y.token = x.token /\ y.init = x.init
      /\ y.writing = x.writing /\ y.next = x.next /\ y.latest = x.latest /\ y.state = x.state
      /\ y.recovery = x.recovery
  BY <1>1, <1>2, <1>3 DEF Tabs
<1>5. x.flight => n # 1 /\ q[1] = x.queue[1]
  <2>1. x.flight => x.queue[1].ready
    BY DEF Able, Fit
  <2>2. ~ x.queue[n].ready
    BY DEF Last, n
  <2>. QED BY <2>1, <2>2, <1>1, <1>2
<1>6. Fit(y)
  <2>1. \A i \in DOMAIN y.queue : y.queue[i].base \in {0} \cup DOMAIN history
    BY <1>1, <1>2, <1>4 DEF Able, Fit
  <2>2. y.flight => y.queue[1].ready /\ y.queue[1].base # 0 /\ y.init /\ y.discard = "no"
    BY <1>4, <1>5 DEF Able, Fit
  <2>. QED BY <2>1, <2>2, <1>2, <1>4 DEF Able, Fit
<1>7. ASSUME Sound(x) PROVE Sound(y)
  <2>1. \A i \in 1..n : Clean(x.queue[i].doc) \subseteq doc
    BY <1>1, <1>7 DEF Sound, Clean
  <2>2. ASSUME NEW i \in 1..n, NEW j \in 1..n, i < j
        PROVE  Clean(q[i].doc) \subseteq q[j].doc
    <3>1. i < n /\ q[i] = x.queue[i] /\ (j < n => q[j] = x.queue[j]) /\ (~ j < n => j = n)
      BY <1>1, <1>2, <2>2
    <3>. QED BY <1>1, <1>2, <1>7, <2>1, <2>2, <3>1 DEF Sound, Chain
  <2>3. \A i \in 1..n : i > 1 => q[i].base = 0
    BY <1>1, <1>2, <1>7 DEF Sound, Chain
  <2>4. Stands(q[1].doc, IF q[1].base = 0 THEN x.draft ELSE q[1].base)
    <3>1. Stands(x.queue[1].doc, IF q[1].base = 0 THEN x.draft ELSE q[1].base)
      BY <1>1, <1>2, <1>7 DEF Sound
    <3>2. n = 1 \/ q[1] = x.queue[1]
      <4>1. 1 \in 1..n /\ (n = 1 \/ 1 < n)
        BY <1>1
      <4>. QED BY <1>2, <4>1
    <3>3. n = 1 => Clean(x.queue[1].doc) \subseteq q[1].doc
      BY <1>1, <1>2, <2>1
    <3>. QED BY <3>1, <3>2, <3>3, StandsMore DEF Able
  <2>5. \A i \in 1..n : Clean(q[i].doc) \subseteq doc
    <3>1. \A i \in 1..n : q[i] = x.queue[i] \/ q[i].doc = doc
      BY <1>1, <1>2
    <3>. QED BY <2>1, <3>1 DEF Clean
  <2>. QED BY <1>2, <1>4, <1>7, <2>2, <2>3, <2>4, <2>5 DEF Sound, Chain
<1>. QED BY <1>4, <1>5, <1>6, <1>7 DEF Moved, SameHead, Able, y

LEMMA CoalesceMoves ==
  ASSUME NEW x, Able(x), x.init, x.staged = <<>>, x.queue # <<>>, ~ Last(x.queue).ready,
         NEW doc \in Document, Clean(x.doc) \subseteq doc
  PROVE  Moved(x, SetWaiting(Extended(x, doc)))
<1>1. Moved(x, Extended(x, doc))
  BY ExtendedMoves
<1>2. Moved(Extended(x, doc), SetWaiting(Extended(x, doc)))
  BY <1>1, SetWaitingMoves DEF Moved
<1>. QED BY <1>1, <1>2, MovedTransitive

\* a refused head is replaced, when nothing waits behind it and its base is the loaded revision
SafeToCorrect(x) == Corrects(x) => Len(x.queue) = 1 /\ x.queue[1].base = x.draft
LEMMA CorrectMoves ==
  ASSUME NEW x, Able(x), x.init, x.staged = <<>>, Corrects(x), SafeToCorrect(x),
         online \in BOOLEAN,
         NEW key \in Nat \ {0}, NEW doc \in Document, NEW text \in BOOLEAN,
         Clean(x.doc) \subseteq doc
  PROVE  Moved(x, Correct(x, key, doc, text))
<1>. DEFINE e == Entry(key, doc, 0, ~text)
            q == [x.queue EXCEPT ![1] = e]
            z == [x EXCEPT !.doc = doc, !.queue[1] = e, !.state = Waiting, !.full = FALSE]
            y == Schedule(z, FALSE)
<1>1. /\ e \in Entries /\ e.base = 0 /\ e.doc = doc
  BY DEF Entry, Entries
<1>2. /\ x \in Tabs /\ x.queue \in Seq(Entries) /\ x.queue # <<>> /\ ~ x.flight
      /\ DOMAIN x.queue = {1} /\ x.queue[1].base = x.draft /\ x.draft # 0
  <2>1. x \in Tabs /\ x.queue \in Seq(Entries) /\ x.queue # <<>> /\ ~ x.flight
    BY DEF Able, Tabs, Corrects
  <2>2. Len(x.queue) = 1 /\ x.queue[1].base = x.draft
    BY DEF SafeToCorrect
  <2>3. DOMAIN x.queue = 1..Len(x.queue)
    BY <2>1
  <2>4. 1..1 = {1}
    OBVIOUS
  <2>. QED BY <2>1, <2>2, <2>3, <2>4, HistoryTyped
<1>3. z = [x EXCEPT !.doc = doc, !.queue = q, !.state = Waiting, !.full = FALSE]
  OBVIOUS
<1>. HIDE DEF e
<1>4. q \in Seq(Entries) /\ q # <<>> /\ DOMAIN q = {1} /\ q[1] = e
  BY <1>1, <1>2, NewHead
<1>5. Waiting \in Words /\ Waiting # "validation"
  BY WordsKnown DEF Waiting
<1>. HIDE DEF q, z
<1>6. /\ z \in Tabs /\ z.doc = doc /\ z.queue = q /\ z.staged = x.staged /\ z.draft = x.draft
      /\ z.flight = x.flight /\ z.discard = x.discard /\ z.token = x.token /\ z.init = x.init
      /\ z.writing = x.writing /\ z.next = x.next /\ z.latest = x.latest /\ z.state = Waiting
      /\ z.recovery = x.recovery
  BY <1>2, <1>3, <1>4, <1>5 DEF Tabs
<1>7. Fit(z)
  BY <1>1, <1>2, <1>4, <1>5, <1>6 DEF Able, Fit
<1>8. ASSUME Sound(x) PROVE Sound(z)
  <2>1. Stands(x.queue[1].doc, x.draft)
    BY <1>2, <1>8 DEF Sound
  <2>2. Clean(x.queue[1].doc) \subseteq doc
    BY <1>2, <1>8 DEF Sound, Clean
  <2>3. Stands(doc, x.draft)
    BY <2>1, <2>2, StandsMore DEF Able
  <2>. QED BY <1>1, <1>4, <1>6, <1>8, <2>3 DEF Sound, Chain, Clean
<1>9. Moved(x, z)
  BY <1>2, <1>6, <1>7, <1>8 DEF Moved, Able
<1>10. Moved(z, y)
  BY <1>9, ScheduleMoves DEF Moved
<1>11. Correct(x, key, doc, text) = IF text THEN y ELSE Pump(y, online)
  BY DEF Correct, e, z
<1>. HIDE DEF y
<1>12. Moved(y, Pump(y, online))
  BY <1>10, PumpMoves DEF Moved
<1>. QED BY <1>9, <1>10, <1>11, <1>12, MovedTransitive

LEMMA RefuseMoves ==
  ASSUME NEW x, Able(x) PROVE Moved(x, Refuse(x)) /\ Like(x, Refuse(x))
BY WordsKnown, StateMoves DEF Refuse

LEMMA DropStagedMoves ==
  ASSUME NEW x, Able(x)
  PROVE  LET y == [x EXCEPT !.staged = <<>>] IN
         /\ Moved(x, y) /\ y.staged = <<>> /\ y.queue = x.queue /\ y.doc = x.doc
         /\ y.draft = x.draft /\ y.flight = x.flight /\ y.state = x.state
<1>. DEFINE y == [x EXCEPT !.staged = <<>>]
<1>1. x \in Tabs /\ <<>> \in Seq(Entries)
  BY DEF Able
<1>2. /\ y \in Tabs /\ y.staged = <<>> /\ y.queue = x.queue /\ y.doc = x.doc
      /\ y.draft = x.draft /\ y.flight = x.flight /\ y.state = x.state
      /\ y.discard = x.discard /\ y.token = x.token /\ y.init = x.init
      /\ y.writing = x.writing /\ y.next = x.next /\ y.latest = x.latest
      /\ y.recovery = x.recovery
  BY <1>1 DEF Tabs
<1>. HIDE DEF y
<1>3. Fit(y)
  BY <1>2 DEF Able, Fit
<1>4. Sound(x) => Sound(y)
  BY <1>2 DEF Sound
<1>5. Moved(x, y)
  BY <1>2, <1>3, <1>4 DEF Moved, SameHead, Able
<1>. QED BY <1>2, <1>5 DEF y

LEMMA CompleteMoves ==
  ASSUME NEW x, Able(x), x.init, SafeToCorrect(x), online \in BOOLEAN,
         NEW key \in Nat \ {0}, NEW doc \in Document, NEW text \in BOOLEAN, NEW same \in BOOLEAN,
         Clean(x.doc) \subseteq doc
  PROVE  Moved(x, Complete(x, key, doc, text, same))
<1>. DEFINE y == [x EXCEPT !.staged = <<>>]
            z == Complete(x, key, doc, text, same)
<1>1. /\ Moved(x, y) /\ y.staged = <<>> /\ y.queue = x.queue /\ y.doc = x.doc
      /\ y.draft = x.draft /\ y.flight = x.flight /\ y.state = x.state
  BY DropStagedMoves
<1>2. z = IF Corrects(y) THEN Correct(y, key, doc, text)
          ELSE IF Len(y.queue) >= MaxQueue THEN Refuse(y)
          ELSE IF ~text THEN Pump(Push(y, key, doc, FALSE), online)
          ELSE IF Coalesces(y, same)
               THEN SetWaiting([y EXCEPT !.doc = doc, !.queue[Len(y.queue)].doc = doc])
               ELSE Push(y, key, doc, TRUE)
  BY DEF Complete
<1>. HIDE DEF y, z
<1>3. Able(y) /\ y.init /\ SafeToCorrect(y) /\ Clean(y.doc) \subseteq doc
  BY <1>1 DEF Moved, SafeToCorrect, Corrects
<1>4. ASSUME Corrects(y) PROVE Moved(y, Correct(y, key, doc, text))
  BY <1>1, <1>3, <1>4, CorrectMoves
<1>5. Moved(y, Refuse(y))
  BY <1>3, RefuseMoves
<1>6. Moved(y, Pump(Push(y, key, doc, FALSE), online)) /\ Moved(y, Push(y, key, doc, TRUE))
  <2>1. Moved(y, Push(y, key, doc, FALSE)) /\ Moved(y, Push(y, key, doc, TRUE))
    BY <1>1, <1>3, PushMoves
  <2>2. Moved(Push(y, key, doc, FALSE), Pump(Push(y, key, doc, FALSE), online))
    BY <2>1, PumpMoves DEF Moved
  <2>. QED BY <2>1, <2>2, MovedTransitive
<1>7. ASSUME Coalesces(y, same)
      PROVE  Moved(y, SetWaiting([y EXCEPT !.doc = doc, !.queue[Len(y.queue)].doc = doc]))
  BY <1>1, <1>3, <1>7, CoalesceMoves DEF Coalesces, Extended
<1>8. Moved(y, z)
  BY <1>2, <1>4, <1>5, <1>6, <1>7
<1>. QED BY <1>1, <1>8, MovedTransitive DEF z

LEMMA StageMoves ==
  ASSUME NEW x, Able(x), x.init, NEW key \in Nat \ {0}, key > MaxEdits,
         NEW doc \in Document, x.doc \subseteq doc, NEW render \in BOOLEAN
  PROVE  Moved(x, Stage(x, key, doc, render))
<1>. DEFINE e == Entry(key, doc, 0, FALSE)
            f == [x.staged[1] EXCEPT !.doc = doc]
            gesture == IF doc = LastDoc(x) THEN <<>>
                       ELSE IF x.staged = <<>> THEN <<e>> ELSE <<f>>
            y == [x EXCEPT !.staged = gesture, !.doc = IF render THEN doc ELSE @]
            s == IF gesture # <<>> THEN "pending" ELSE IF y.queue # <<>> THEN y.state ELSE "saved"
            z == IF y.state \in Stopped THEN y ELSE [y EXCEPT !.state = s]
<1>1. x \in Tabs /\ x.staged \in Seq(Entries)
  BY DEF Able, Tabs
<1>2. e \in Entries /\ e.doc = doc /\ e.base = 0 /\ e.key = key
  BY DEF Entry, Entries
<1>3. x.staged # <<>> => f \in Entries /\ f.doc = doc /\ f.base = 0 /\ f.key > MaxEdits
  <2>. SUFFICES ASSUME x.staged # <<>>
                PROVE  f \in Entries /\ f.doc = doc /\ f.base = 0 /\ f.key > MaxEdits
    OBVIOUS
  <2>1. PICK g \in Entries : g = x.staged[1]
    BY <1>1, InQueue
  <2>2. g.base = 0 /\ g.key > MaxEdits
    BY <2>1 DEF Able, Fit
  <2>3. f = [g EXCEPT !.doc = doc]
    BY <2>1
  <2>. HIDE DEF f
  <2>. QED BY <2>2, <2>3 DEF Entries
<1>. HIDE DEF e, f
<1>4. \/ gesture = <<>>
      \/ \E g \in Entries : gesture = <<g>> /\ g.doc = doc /\ g.base = 0 /\ g.key > MaxEdits
  BY <1>2, <1>3
<1>5. Stage(x, key, doc, render) = IF Len(x.queue) >= MaxQueue THEN Refuse(x) ELSE Schedule(z, FALSE)
  BY DEF Stage, e, f
<1>. HIDE DEF gesture
<1>6. /\ gesture \in Seq(Entries)
      /\ gesture # <<>> => /\ Len(gesture) = 1 /\ gesture[1].base = 0 /\ gesture[1].key > MaxEdits
                           /\ gesture[1].doc = doc
  <2>1. CASE gesture = <<>>
    BY <2>1
  <2>2. ASSUME NEW g \in Entries, gesture = <<g>>, g.doc = doc, g.base = 0, g.key > MaxEdits
        PROVE  /\ gesture \in Seq(Entries) /\ Len(gesture) = 1 /\ gesture[1] = g
    BY <2>2
  <2>. QED BY <1>4, <2>1, <2>2
<1>7. /\ y \in Tabs /\ y.staged = gesture /\ y.queue = x.queue /\ y.draft = x.draft
      /\ y.doc = IF render THEN doc ELSE x.doc
      /\ y.flight = x.flight /\ y.state = x.state
      /\ y.discard = x.discard /\ y.token = x.token /\ y.init = x.init
      /\ y.writing = x.writing /\ y.next = x.next /\ y.latest = x.latest
      /\ y.recovery = x.recovery
  BY <1>1, <1>6 DEF Tabs
<1>. HIDE DEF y
<1>8. CASE Len(x.queue) >= MaxQueue
  BY <1>5, <1>8, RefuseMoves
<1>9. CASE ~ (Len(x.queue) >= MaxQueue)
  <2>1. Len(x.queue) < MaxQueue
    <3>1. MaxQueue \in Nat /\ Len(x.queue) \in Nat
      BY AutosaveAssumption DEF Able, HistoryOK, Tabs, MaxQueue
    <3>. QED BY <3>1, <1>9
  <2>2. Fit(y)
    BY <1>6, <1>7, <2>1 DEF Able, Fit
  <2>3. ASSUME Sound(x) PROVE Sound(y)
    <3>1. x.doc \subseteq y.doc /\ y.doc \subseteq doc
      BY <1>7
    <3>. QED BY <1>6, <1>7, <2>3, <3>1 DEF Sound
  <2>4. Moved(x, y)
    BY <1>7, <2>2, <2>3 DEF Moved, SameHead, Able
  <2>5. Moved(y, z)
    <3>1. CASE y.state \in Stopped
      BY <2>4, <3>1 DEF Moved, SameHead
    <3>2. CASE y.state \notin Stopped
      <4>1. s \in Words /\ s # "validation"
        BY <1>7, <3>2, WordsKnown DEF Tabs, Stopped
      <4>2. z = [y EXCEPT !.state = s]
        BY <3>2
      <4>. HIDE DEF s, z
      <4>. QED BY <2>4, <4>1, <4>2, StateMoves DEF Moved
    <3>. QED BY <3>1, <3>2
  <2>. HIDE DEF z
  <2>6. Moved(z, Schedule(z, FALSE))
    BY <2>5, ScheduleMoves DEF Moved
  <2>. QED BY <1>5, <1>9, <2>4, <2>5, <2>6, MovedTransitive
<1>. QED BY <1>8, <1>9

LEMMA EmittedMoves ==
  ASSUME NEW x, Able(x)
  PROVE  LET y == Emitted(x) IN
         /\ Moved(x, y) /\ Like(x, y) /\ Calm(y)
         /\ y.writing = x.writing /\ y.next = x.next
<1>. DEFINE s == IF x.lost THEN "error" ELSE x.state
            m == CASE x.mutation = "checking" -> "dirty" [] x.mutation = "sent" -> "stale"
                   [] OTHER -> x.mutation
            y == Emitted(x)
<1>1. x \in Tabs
  BY DEF Able
<1>2. y = [x EXCEPT !.state = s, !.mutation = m]
  BY <1>1 DEF Emitted, Tabs
<1>3. s \in Words /\ (s = "validation" => x.state = "validation")
  BY <1>1, WordsKnown DEF Tabs
<1>4. m \in Words /\ m \notin {"checking", "sent"}
  <2>1. x.mutation \in Words
    BY <1>1 DEF Tabs
  <2>. QED BY <2>1, WordsKnown
<1>. HIDE DEF y, s, m
<1>5. /\ y \in Tabs /\ Like(x, y) /\ y.writing = x.writing /\ y.next = x.next
      /\ y.latest = x.latest /\ y.recovery = x.recovery /\ y.state = s /\ y.mutation = m
  BY <1>1, <1>2, <1>3, <1>4 DEF Tabs, Like
<1>6. Moved(x, y)
  BY <1>3, <1>5, SoftMoves DEF Able, Fit
<1>. QED BY <1>4, <1>5, <1>6 DEF Calm, y

LEMMA StopMoves ==
  ASSUME NEW x, Able(x)
  PROVE  Moved(x, StopForAuthority(x)) /\ Like(x, StopForAuthority(x))
<1>. DEFINE y == StopForAuthority(x)
<1>1. x \in Tabs
  BY DEF Able
<1>2. y = [x EXCEPT !.lost = TRUE, !.retryTimer = FALSE]
  BY DEF StopForAuthority
<1>. HIDE DEF y
<1>3. /\ y \in Tabs /\ Like(x, y) /\ y.writing = x.writing /\ y.next = x.next
      /\ y.latest = x.latest /\ y.recovery = x.recovery /\ y.state = x.state
  BY <1>1, <1>2 DEF Tabs, Like
<1>4. Moved(x, y)
  BY <1>3, SoftMoves DEF Able, Fit
<1>. QED BY <1>3, <1>4 DEF y

\* a new number of attempts for the head
Attempts(x, n) == [x.queue EXCEPT ![1].attempt = n]
LEMMA AttemptsMove ==
  ASSUME NEW x, Able(x), x.init, x.queue # <<>>, NEW n \in Nat,
         NEW s \in Words, s # "validation", NEW timer \in BOOLEAN, NEW full \in BOOLEAN
  PROVE  Moved(x, [x EXCEPT !.queue = Attempts(x, n), !.retryTimer = timer, !.state = s,
                            !.full = full])
<1>. DEFINE e == [x.queue[1] EXCEPT !.attempt = n]
            q == Attempts(x, n)
            y == [x EXCEPT !.queue = q, !.retryTimer = timer, !.state = s, !.full = full]
<1>1. x \in Tabs /\ x.queue \in Seq(Entries) /\ x.queue[1] \in Entries /\ 1 \in DOMAIN x.queue
  BY InQueue DEF Able, Tabs
<1>2. /\ e \in Entries /\ e.key = x.queue[1].key /\ e.doc = x.queue[1].doc
      /\ e.base = x.queue[1].base /\ e.ready = x.queue[1].ready
  BY <1>1 DEF Entries
<1>3. q = [x.queue EXCEPT ![1] = e]
  BY <1>1 DEF Attempts
<1>. HIDE DEF e, q
<1>4. /\ q \in Seq(Entries) /\ Len(q) = Len(x.queue) /\ q[1] = e
      /\ \A i \in DOMAIN x.queue : i # 1 => q[i] = x.queue[i]
  BY <1>1, <1>2, <1>3, NewHead
<1>5. /\ y \in Tabs /\ y.queue = q /\ y.staged = x.staged /\ y.doc = x.doc /\ y.draft = x.draft
      /\ y.flight = x.flight /\ y.discard = x.discard /\ y.token = x.token /\ y.init = x.init
      /\ y.writing = x.writing /\ y.next = x.next /\ y.latest = x.latest /\ y.state = s
      /\ y.recovery = x.recovery
  BY <1>1, <1>4 DEF Tabs
<1>. HIDE DEF y
<1>6. SameDocs(x, y)
  BY <1>2, <1>4, <1>5 DEF SameDocs
<1>7. x.flight => SameHead(x, y) /\ y.queue[1].ready
  BY <1>2, <1>4, <1>5 DEF SameHead, Able, Fit
<1>8. y.recovery # "checking" /\ y.state # "validation"
  BY <1>5 DEF Able, Fit
<1>9. Moved(x, y)
  BY <1>5, <1>6, <1>7, <1>8, QueueMoves
<1>. QED BY <1>9 DEF y, q

LEMMA RetryNowMoves ==
  ASSUME NEW x, Able(x), x.init, online \in BOOLEAN
  PROVE  Moved(x, RetryNow(x))
<1>. DEFINE y == IF x.recovery = "unavailable" THEN Schedule(x, TRUE) ELSE x
            z == [y EXCEPT !.queue = Attempts(y, 0), !.retryTimer = FALSE, !.state = Waiting,
                           !.full = FALSE]
<1>1. Moved(x, y)
  BY ScheduleMoves DEF Moved, SameHead
<1>2. RetryNow(x) = IF y.lost \/ y.state = "conflict" \/ y.queue = <<>> THEN y
                    ELSE Pump([y EXCEPT !.retryTimer = FALSE, !.queue[1].attempt = 0,
                                        !.state = Waiting, !.full = FALSE], online)
  BY DEF RetryNow
<1>. HIDE DEF y
<1>3. Able(y) /\ y.init /\ y \in Tabs
  BY <1>1 DEF Moved, Able
<1>4. [y EXCEPT !.retryTimer = FALSE, !.queue[1].attempt = 0, !.state = Waiting, !.full = FALSE] = z
  BY <1>3 DEF Attempts, Tabs
<1>5. ASSUME y.queue # <<>> PROVE Moved(y, z)
  <2>1. Waiting \in Words /\ Waiting # "validation"
    BY WordsKnown DEF Waiting
  <2>. QED BY <1>3, <1>5, <2>1, AttemptsMove
<1>. HIDE DEF z
<1>6. ASSUME y.queue # <<>> PROVE Moved(z, Pump(z, online))
  BY <1>5, <1>6, PumpMoves DEF Moved
<1>. QED BY <1>1, <1>2, <1>4, <1>5, <1>6, MovedTransitive

LEMMA LandFlight ==
  ASSUME NEW x, Able(x)
  PROVE  LET y == [x EXCEPT !.flight = FALSE] IN
         /\ Ended(x, y) /\ y.queue = x.queue /\ ~ y.flight /\ y.state = x.state
<1>. DEFINE y == [x EXCEPT !.flight = FALSE]
<1>1. x \in Tabs
  BY DEF Able
<1>2. /\ y \in Tabs /\ y.queue = x.queue /\ y.staged = x.staged /\ y.doc = x.doc /\ y.draft = x.draft
      /\ y.flight = FALSE /\ y.discard = x.discard /\ y.token = x.token /\ y.init = x.init
      /\ y.writing = x.writing /\ y.next = x.next /\ y.latest = x.latest /\ y.state = x.state
      /\ y.recovery = x.recovery
  BY <1>1 DEF Tabs
<1>. HIDE DEF y
<1>3. Fit(y)
  BY <1>2 DEF Able, Fit
<1>4. Sound(x) => Sound(y)
  BY <1>2 DEF Sound
<1>. QED BY <1>2, <1>3, <1>4 DEF Ended, Able, y

LEMMA FailEnds ==
  ASSUME NEW x, Able(x), x.flight, online \in BOOLEAN, MaxRetries \in Nat,
         NEW answer \in {"authority", "conflict", "invalid", "failure"},
         answer = "invalid" => Bad # {}
  PROVE  Ended(x, Fail(x, answer)) /\ ~ Fail(x, answer).flight
<1>. DEFINE y == [x EXCEPT !.flight = FALSE]
            z == Fail(x, answer)
<1>1. Ended(x, y) /\ ~ y.flight /\ y.queue = x.queue
  BY LandFlight
<1>2. /\ Able(y) /\ y.init /\ y.queue # <<>> /\ y \in Tabs /\ y.queue \in Seq(Entries)
      /\ y.queue[1] \in Entries /\ Head(x.queue) = y.queue[1] /\ y.state \in Words
  <2>1. Able(y) /\ y.init /\ y.queue # <<>> /\ y \in Tabs
    BY <1>1 DEF Ended, Able, Fit
  <2>2. y.queue \in Seq(Entries) /\ y.state \in Words
    BY <2>1 DEF Tabs
  <2>. QED BY <1>1, <2>1, <2>2, InQueue
<1>3. \/ z = StopForAuthority(y)
      \/ \E s \in {"offline", "conflict", "error"} : z = [y EXCEPT !.state = s]
      \/ answer = "invalid" /\ z = [y EXCEPT !.state = "validation"]
      \/ z = [y EXCEPT !.queue[1].attempt = @ + 1, !.state = "retrying", !.retryTimer = TRUE]
  BY DEF Fail
<1>. HIDE DEF y, z
<1>4. CASE z = StopForAuthority(y)
  BY <1>1, <1>2, <1>4, StopMoves, EndedThenMoves DEF Like, z
<1>5. ASSUME NEW s \in {"offline", "conflict", "error"}, z = [y EXCEPT !.state = s]
      PROVE  Ended(x, z) /\ ~ z.flight
  <2>1. s \in Words /\ s # "validation"
    BY WordsKnown
  <2>2. Moved(y, z) /\ Like(y, z)
    BY <1>2, <1>5, <2>1, StateMoves
  <2>. QED BY <1>1, <2>2, EndedThenMoves DEF Like
<1>6. CASE answer = "invalid" /\ z = [y EXCEPT !.state = "validation"]
  <2>1. /\ z \in Tabs /\ Like(y, z) /\ z.writing = y.writing /\ z.next = y.next
        /\ z.latest = y.latest /\ z.recovery = y.recovery
    BY <1>2, <1>6, WordsKnown DEF Tabs, Like
  <2>2. Moved(y, z)
    BY <1>2, <1>6, <2>1, SoftMoves DEF Able, Fit
  <2>. QED BY <1>1, <2>1, <2>2, EndedThenMoves DEF Like, z
<1>7. CASE z = [y EXCEPT !.queue[1].attempt = @ + 1, !.state = "retrying", !.retryTimer = TRUE]
  <2>1. PICK e \in Entries : e = y.queue[1]
    BY <1>2
  <2>2. PICK n \in Nat : n = e.attempt + 1
    BY DEF Entries
  <2>3. y.full \in BOOLEAN
    BY <1>2 DEF Tabs
  <2>4. PICK full \in BOOLEAN : full = y.full
    BY <2>3
  <2>5. z = [y EXCEPT !.queue = Attempts(y, n), !.retryTimer = TRUE, !.state = "retrying",
                      !.full = full]
    BY <1>2, <1>7, <2>1, <2>2, <2>4 DEF Attempts, Tabs
  <2>6. Moved(y, z)
    BY <1>2, <2>5, AttemptsMove, WordsKnown
  <2>7. z.flight = y.flight
    BY <1>2, <2>5 DEF Tabs
  <2>. QED BY <1>1, <2>6, <2>7, EndedThenMoves DEF z
<1>. QED BY <1>3, <1>4, <1>5, <1>6, <1>7 DEF z

LEMMA ReplaceEnds ==
  ASSUME NEW x, Able(x), x.init, NEW draft \in DOMAIN history
  PROVE  Ended(x, ReplaceWithLatest(x, draft)) /\ ~ ReplaceWithLatest(x, draft).flight
<1>. DEFINE y == [x EXCEPT !.retryTimer = FALSE, !.queue = <<>>, !.staged = <<>>, !.flight = FALSE,
                           !.draft = draft, !.doc = history[draft].doc, !.state = "saved",
                           !.full = FALSE]
<1>1. x \in Tabs /\ <<>> \in Seq(Entries)
  BY DEF Able
<1>2. draft \in Nat /\ history[draft].doc \in Document
  <2>1. history \in Seq(Revisions)
    BY DEF Able, HistoryOK
  <2>2. DOMAIN history = 1..Len(history) /\ history[draft] \in Revisions
    BY <2>1
  <2>. QED BY <2>2 DEF Revisions
<1>3. /\ y \in Tabs /\ y.queue = <<>> /\ y.staged = <<>> /\ y.doc = history[draft].doc /\ y.draft = draft
      /\ y.flight = FALSE /\ y.discard = x.discard /\ y.token = x.token /\ y.init = x.init
      /\ y.writing = x.writing /\ y.next = x.next /\ y.latest = x.latest /\ y.state = "saved"
      /\ y.recovery = x.recovery
  BY <1>1, <1>2, WordsKnown DEF Tabs
<1>4. ReplaceWithLatest(x, draft) = Schedule(y, FALSE)
  BY DEF ReplaceWithLatest
<1>. HIDE DEF y
<1>5. Fit(y)
  <2>1. DOMAIN y.queue = {}
    BY <1>3
  <2>2. /\ x.discard \in {"clearing", "clearing to leave"} => x.latest \in DOMAIN history
        /\ x.recovery # "checking"
    BY DEF Able, Fit
  <2>. QED BY <1>3, <2>1, <2>2 DEF Fit
<1>6. Sound(x) => Sound(y)
  BY <1>3 DEF Sound, Chain
<1>7. Ended(x, y)
  BY <1>3, <1>5, <1>6 DEF Ended, Able
<1>8. Moved(y, Schedule(y, FALSE)) /\ Like(y, Schedule(y, FALSE))
  BY <1>7, ScheduleMoves DEF Ended
<1>. QED BY <1>3, <1>4, <1>7, <1>8, EndedThenMoves DEF Like

\* the head was saved as it is, in the revision that becomes the base of what follows
LEMMA AcknowledgeEnds ==
  ASSUME NEW x, Able(x), x.flight, online \in BOOLEAN, NEW rev \in DOMAIN history
  PROVE  LET y == Acknowledge(x, rev) IN
         /\ Able(y) /\ y.token = x.token /\ y.init
         /\ Sound(x) /\ history[rev].doc = x.queue[1].doc => Sound(y)
<1>. DEFINE rest == Tail(x.queue)
            s == IF rest = <<>> /\ x.staged = <<>> THEN "saved" ELSE "pending"
            z == [x EXCEPT !.queue = rest, !.draft = rev, !.flight = FALSE, !.state = s]
            w == Schedule(z, FALSE)
            y == Acknowledge(x, rev)
<1>1. /\ x \in Tabs /\ x.queue \in Seq(Entries) /\ x.queue # <<>> /\ x.init
      /\ \A i \in DOMAIN x.queue : x.queue[i].base \in {0} \cup DOMAIN history
  BY DEF Able, Tabs, Fit
<1>2. /\ rest \in Seq(Entries) /\ Len(rest) = Len(x.queue) - 1
      /\ \A i \in 1..Len(rest) : rest[i] = x.queue[i + 1]
      /\ DOMAIN rest = 1..Len(rest) /\ Len(rest) \in Nat
      /\ DOMAIN x.queue = 1..(Len(rest) + 1)
  BY <1>1
<1>3. y = Pump(w, online)
  BY DEF Acknowledge
<1>4. s \in Words /\ s # "validation"
  BY WordsKnown
<1>. HIDE DEF rest, s
<1>5. rev \in Nat
  <2>1. DOMAIN history = 1..Len(history)
    BY HistoryTyped
  <2>. QED BY <2>1
<1>6. /\ z \in Tabs /\ z.queue = rest /\ z.staged = x.staged /\ z.doc = x.doc /\ z.draft = rev
      /\ z.flight = FALSE /\ z.discard = x.discard /\ z.token = x.token /\ z.init = x.init
      /\ z.writing = x.writing /\ z.next = x.next /\ z.latest = x.latest /\ z.state = s
      /\ z.recovery = x.recovery
  BY <1>1, <1>2, <1>4, <1>5 DEF Tabs
<1>. HIDE DEF z
<1>7. Fit(z)
  <2>1. \A i \in DOMAIN rest : rest[i].base \in {0} \cup DOMAIN history
    <3>1. \A i \in DOMAIN rest : i + 1 \in DOMAIN x.queue
      BY <1>2
    <3>. QED BY <1>1, <1>2, <3>1
  <2>2. z.staged # <<>> => Len(rest) < MaxQueue
    <3>1. MaxQueue \in Nat
      BY AutosaveAssumption DEF Able, HistoryOK, MaxQueue
    <3>2. x.staged # <<>> => Len(x.queue) < MaxQueue
      BY DEF Able, Fit
    <3>. QED BY <1>2, <1>6, <3>1, <3>2
  <2>. QED BY <1>1, <1>4, <1>6, <2>1, <2>2 DEF Able, Fit
<1>8. Able(z)
  BY <1>6, <1>7 DEF Able
<1>9. ASSUME Sound(x), history[rev].doc = x.queue[1].doc PROVE Sound(z)
  <2>1. /\ \A i, j \in DOMAIN x.queue : i < j => Clean(x.queue[i].doc) \subseteq x.queue[j].doc
        /\ \A i \in DOMAIN x.queue : i > 1 => x.queue[i].base = 0
        /\ \A i \in DOMAIN x.queue : Clean(x.queue[i].doc) \subseteq x.doc
    BY <1>9 DEF Sound, Chain
  <2>2. history[rev].doc = Clean(x.queue[1].doc)
    BY <1>9, HistoryClean DEF Clean, Able
  <2>3. \A i \in DOMAIN rest : rest[i].base = 0
    <3>1. \A i \in DOMAIN rest : i + 1 \in DOMAIN x.queue /\ i + 1 > 1
      BY <1>2
    <3>. QED BY <1>2, <2>1, <3>1
  <2>4. ASSUME NEW i \in DOMAIN rest, NEW j \in DOMAIN rest, i < j
        PROVE  Clean(rest[i].doc) \subseteq rest[j].doc
    <3>1. i + 1 \in DOMAIN x.queue /\ j + 1 \in DOMAIN x.queue /\ i + 1 < j + 1
      BY <1>2, <2>4
    <3>. QED BY <1>2, <2>1, <3>1
  <2>5. \A i \in DOMAIN rest : Clean(rest[i].doc) \subseteq x.doc
    <3>1. \A i \in DOMAIN rest : i + 1 \in DOMAIN x.queue
      BY <1>2
    <3>. QED BY <1>2, <2>1, <3>1
  <2>6. rest # <<>> => Stands(rest[1].doc, rev)
    <3>. SUFFICES ASSUME rest # <<>> PROVE history[rev].doc \subseteq rest[1].doc
      BY DEF Stands
    <3>1. 1 \in DOMAIN rest
      BY <1>2, InQueue
    <3>2. rest[1] = x.queue[2] /\ 1 \in DOMAIN x.queue /\ 2 \in DOMAIN x.queue
      BY <1>2, <3>1
    <3>. QED BY <2>1, <2>2, <3>2
  <2>7. history[rev].doc \subseteq x.doc
    <3>1. 1 \in DOMAIN x.queue
      BY <1>1, InQueue
    <3>. QED BY <2>1, <2>2, <3>1
  <2>8. rest # <<>> => 1 \in DOMAIN rest
    BY <1>2, InQueue
  <2>. QED BY <1>6, <1>9, <2>3, <2>4, <2>5, <2>6, <2>7, <2>8 DEF Sound, Chain
<1>10. Moved(z, w)
  BY <1>8, ScheduleMoves
<1>. HIDE DEF w
<1>11. Moved(w, Pump(w, online))
  BY <1>10, PumpMoves DEF Moved
<1>. QED BY <1>1, <1>3, <1>6, <1>9, <1>10, <1>11 DEF Moved

-----------------------------------------------------------------------------
(* What a step may do to the pages and to the requests.                     *)

Grows ==
  /\ world' = world /\ token' \in {token, token + 1}
  /\ DOMAIN history \subseteq DOMAIN history'
  /\ \A i \in DOMAIN history : history'[i] = history[i]
\* the journal stays with its owner, or a page that had not read it takes it
Taken ==
  \/ journal'.owner = journal.owner
  \/ \E q \in Pages : IsOpen(q) /\ ~ tabs[q].init /\ journal'.owner = q
Goes(x, y) == Able(y) /\ Calm(y) /\ y.token = x.token /\ (x.init => y.init)
Turns(q) ==
  /\ IsOpen(q) /\ Goes(tabs[q], tabs'[q])
  /\ Live(q) \/ ~ tabs[q].init => Sound(tabs'[q])
  /\ ~ tabs[q].init /\ tabs'[q].init => journal'.owner = q
Shuts(q) == IsOpen(q) /\ tabs'[q] = Closed
Comes(q) ==
  /\ ~ IsOpen(q) /\ RowOK(q)'
  /\ IsOpen(q)' => ~ tabs'[q].init
  /\ Present(q)' => \/ Present(q) /\ tabs'[q].token = tabs[q].token
                    \/ /\ token' = token + 1 /\ tabs'[q].token = token'
                       /\ \A s \in Pages \ {q} : tabs'[s] = tabs[s]
RowsGo ==
  /\ DOMAIN tabs' = Pages
  /\ \A q \in Pages : tabs'[q] = tabs[q] \/ Turns(q) \/ Shuts(q) \/ Comes(q)

LEMMA FitKept ==
  ASSUME HistoryOK, Grows, NEW x, Fit(x) PROVE Fit(x)'
<1>1. Bad' = Bad /\ MaxQueue' = MaxQueue
  BY DEF Grows, Bad, MaxQueue
<1>. QED BY <1>1 DEF Grows, Fit, Unread

LEMMA StandsKept ==
  ASSUME Grows, NEW d, NEW i, Stands(d, i) PROVE Stands(d, i)'
BY DEF Grows, Stands

LEMMA PayloadKept ==
  ASSUME Grows, NEW w, PayloadSound(w) PROVE PayloadSound(w)'
<1>1. Bad' = Bad
  BY DEF Grows, Bad
<1>2. Chain(w.actions)'
  BY <1>1 DEF PayloadSound, Chain, Clean
<1>3. w.actions # <<>> =>
       Stands(w.actions[1].doc, IF w.actions[1].base = 0 THEN w.base ELSE w.actions[1].base)'
  <2>1. PICK i : i = IF w.actions[1].base = 0 THEN w.base ELSE w.actions[1].base
    OBVIOUS
  <2>2. w.actions # <<>> => Stands(w.actions[1].doc, i)
    BY <2>1 DEF PayloadSound
  <2>3. w.actions # <<>> => Stands(w.actions[1].doc, i)'
    BY <2>2, StandsKept
  <2>. QED BY <2>1, <2>3 DEF Stands
<1>. QED BY <1>2, <1>3 DEF PayloadSound

LEMMA SoundKept ==
  ASSUME HistoryOK, Grows, NEW x, Fit(x), Sound(x) PROVE Sound(x)'
<1>1. Bad' = Bad
  BY DEF Grows, Bad
<1>2. Chain(x.queue)'
  BY <1>1 DEF Sound, Chain, Clean
<1>3. x.queue # <<>> =>
       Stands(x.queue[1].doc, IF x.queue[1].base = 0 THEN x.draft ELSE x.queue[1].base)'
  <2>1. PICK i : i = IF x.queue[1].base = 0 THEN x.draft ELSE x.queue[1].base
    OBVIOUS
  <2>2. x.queue # <<>> => Stands(x.queue[1].doc, i)
    BY <2>1 DEF Sound
  <2>3. x.queue # <<>> => Stands(x.queue[1].doc, i)'
    BY <2>2, StandsKept
  <2>. QED BY <2>1, <2>3 DEF Stands
<1>4. \A i \in DOMAIN x.queue : (Clean(x.queue[i].doc) \subseteq x.doc)'
  BY <1>1 DEF Sound, Clean
<1>5. x.queue = <<>> => history'[x.draft].doc \subseteq x.doc
  BY DEF Sound, Fit, Grows
<1>6. WriteSound(x.writing)' /\ WriteSound(x.next)'
  <2>1. WriteSound(x.writing) /\ WriteSound(x.next)
    BY DEF Sound
  <2>. QED BY <2>1, PayloadKept DEF WriteSound
<1>. QED BY <1>2, <1>3, <1>4, <1>5, <1>6 DEF Sound

LEMMA HistoryKept ==
  ASSUME HistoryOK, world' = world, history' = history, token' \in {token, token + 1},
         edits' \in 0..world.edits
  PROVE  HistoryOK' /\ Grows
<1>1. Bad' = Bad
  BY DEF Bad
<1>2. NothingOverwritten'
  BY DEF HistoryOK, NothingOverwritten
<1>3. Grows
  BY DEF Grows
<1>. QED BY <1>1, <1>2, <1>3 DEF HistoryOK

LEMMA Opened ==
  ASSUME NEW p \in Pages, IsOpen(p), RowOK(p)
  PROVE  /\ tabs[p] \in Tabs /\ tabs[p].token <= token /\ Fit(tabs[p]) /\ Calm(tabs[p])
         /\ Live(p) \/ ~ tabs[p].init => Sound(tabs[p])
<1>1. tabs[p].page = "open"
  BY DEF IsOpen
<1>2. PICK x : x = tabs[p]
  OBVIOUS
<1>3. x \notin {Closed, [page |-> "unused"]}
  BY <1>1, <1>2 DEF Closed
<1>4. x \notin [page : {"opening"}, token : 0..token]
  BY <1>1, <1>2
<1>. QED BY <1>2, <1>3, <1>4 DEF RowOK

\* whoever is answered for after the step was answered for before, or had not begun
LEMMA WasLive ==
  ASSUME SaveInv, Grows, Taken, NEW p \in Pages, IsOpen(p), tabs'[p].token = tabs[p].token, Live(p)'
  PROVE  Live(p) \/ ~ tabs[p].init
<1>1. RowOK(p) /\ token \in Nat
  BY DEF SaveInv, PagesOK, HistoryOK
<1>2. tabs[p].token <= token /\ tabs[p] \in Tabs
  BY <1>1, Opened
<1>3. tabs[p].token \in Nat
  BY <1>2 DEF Tabs
<1>4. CASE journal'.owner = p
  BY <1>4 DEF Taken, Live
<1>5. CASE tabs'[p].token = token'
  <2>1. tabs[p].token = token
    BY <1>1, <1>2, <1>3, <1>5 DEF Grows
  <2>. QED BY <2>1 DEF Live
<1>. QED BY <1>4, <1>5 DEF Live

LEMMA RowKept ==
  ASSUME SaveInv, Grows, Taken, NEW p \in Pages, tabs'[p] = tabs[p]
  PROVE  RowOK(p)'
<1>1. RowOK(p) /\ token \in Nat
  BY DEF SaveInv, PagesOK, HistoryOK
<1>2. PICK x : x = tabs[p]
  OBVIOUS
<1>3. CASE x \in {Closed, [page |-> "unused"]}
  BY <1>2, <1>3 DEF RowOK
<1>4. CASE x \in [page : {"opening"}, token : 0..token]
  <2>1. x \in [page : {"opening"}, token : 0..token']
    BY <1>1, <1>4 DEF Grows
  <2>. QED BY <1>2, <2>1 DEF RowOK
<1>5. CASE x \in Tabs
  <2>1. IsOpen(p)
    BY <1>2, <1>5 DEF IsOpen, Tabs
  <2>2. x.token <= token /\ Fit(x) /\ Calm(x) /\ (Live(p) \/ ~ x.init => Sound(x))
    BY <1>1, <1>2, <2>1, Opened
  <2>3. Live(p)' => Live(p) \/ ~ x.init
    BY <1>2, <2>1, WasLive
  <2>4. x.token <= token' 
    BY <1>1, <1>5, <2>2 DEF Grows, Tabs
  <2>5. Fit(x)' /\ (Live(p)' \/ ~ x.init => Sound(x)')
    BY <2>2, <2>3, FitKept, SoundKept DEF SaveInv
  <2>6. Calm(x)'
    BY <2>2 DEF Calm
  <2>7. x \in Tabs'
    BY <1>5 DEF Tabs
  <2>. QED BY <1>2, <2>4, <2>5, <2>6, <2>7 DEF RowOK
<1>. QED BY <1>1, <1>2, <1>3, <1>4, <1>5 DEF RowOK

LEMMA RowTurns ==
  ASSUME SaveInv, Grows, Taken, NEW p \in Pages, Turns(p)
  PROVE  RowOK(p)'
<1>1. RowOK(p) /\ token \in Nat /\ IsOpen(p) /\ HistoryOK
  BY DEF SaveInv, PagesOK, HistoryOK, Turns
<1>2. PICK x : x = tabs[p]
  OBVIOUS
<1>3. PICK y : y = tabs'[p]
  OBVIOUS
<1>4. Goes(x, y)
  BY <1>2, <1>3 DEF Turns
<1>5. x \in Tabs /\ x.token <= token /\ (Live(p) \/ ~ x.init => Sound(x))
  BY <1>1, <1>2, Opened
<1>6. y \in Tabs /\ Fit(y) /\ Calm(y) /\ y.token = x.token
  BY <1>4 DEF Goes, Able
<1>7. y.token <= token'
  BY <1>1, <1>5, <1>6 DEF Grows, Tabs
<1>8. Live(p)' \/ ~ y.init => Sound(y)
  <2>1. Live(p)' => Live(p) \/ ~ x.init
    BY <1>1, <1>2, <1>3, <1>6, WasLive
  <2>2. ~ y.init => ~ x.init
    BY <1>4 DEF Goes
  <2>3. Live(p) \/ ~ x.init => Sound(y)
    BY <1>2, <1>3 DEF Turns
  <2>. QED BY <2>1, <2>2, <2>3
<1>9. Fit(y)' /\ (Live(p)' \/ ~ y.init => Sound(y)')
  BY <1>1, <1>6, <1>8, FitKept, SoundKept
<1>10. Calm(y)' /\ y \in Tabs'
  BY <1>6 DEF Calm
<1>. QED BY <1>3, <1>7, <1>9, <1>10 DEF RowOK

LEMMA PagesGo ==
  ASSUME SaveInv, Grows, Taken, RowsGo
  PROVE  PagesOK'
<1>1. Pages' = Pages /\ DOMAIN tabs' = Pages
  BY DEF Pages, RowsGo
<1>2. ASSUME NEW p \in Pages PROVE RowOK(p)'
  <2>1. CASE tabs'[p] = tabs[p]
    BY <2>1, RowKept
  <2>2. CASE Turns(p)
    BY <2>2, RowTurns
  <2>3. CASE Shuts(p)
    BY <2>3 DEF Shuts, RowOK
  <2>4. CASE Comes(p)
    BY <2>4 DEF Comes
  <2>. QED BY <2>1, <2>2, <2>3, <2>4 DEF RowsGo
<1>3. ASSUME NEW p \in Pages, Present(p)'
      PROVE  \/ Present(p) /\ tabs'[p].token = tabs[p].token
             \/ /\ token' = token + 1 /\ tabs'[p].token = token'
                /\ \A s \in Pages \ {p} : tabs'[s] = tabs[s]
  <2>1. CASE tabs'[p] = tabs[p]
    BY <1>3, <2>1 DEF Present
  <2>2. CASE Turns(p)
    BY <2>2 DEF Turns, Goes, Present, IsOpen
  <2>3. CASE Shuts(p)
    BY <1>3, <2>3 DEF Shuts, Present, Closed
  <2>4. CASE Comes(p)
    BY <1>3, <2>4 DEF Comes
  <2>. QED BY <2>1, <2>2, <2>3, <2>4 DEF RowsGo
<1>4. ASSUME NEW p \in Pages, Present(p) PROVE tabs[p].token \in Nat /\ tabs[p].token <= token
  <2>1. RowOK(p) /\ token \in Nat
    BY DEF SaveInv, PagesOK, HistoryOK
  <2>2. CASE IsOpen(p)
    BY <2>1, <2>2, Opened DEF Tabs
  <2>3. CASE tabs[p].page = "opening"
    <3>1. PICK x : x = tabs[p]
      OBVIOUS
    <3>2. x \notin {Closed, [page |-> "unused"]} /\ x \notin Tabs
      BY <2>3, <3>1 DEF Closed, Tabs
    <3>3. x \in [page : {"opening"}, token : 0..token]
      BY <2>1, <3>1, <3>2 DEF RowOK
    <3>. QED BY <2>1, <3>1, <3>3
  <2>. QED BY <1>4, <2>2, <2>3 DEF Present, IsOpen
<1>5. ASSUME NEW p \in Pages, NEW q \in Pages, Present(p)', Present(q)',
             tabs'[p].token = tabs'[q].token, p # q
      PROVE  FALSE
  <2>0. token \in Nat
    BY DEF SaveInv, HistoryOK
  <2>1. CASE /\ Present(p) /\ tabs'[p].token = tabs[p].token
             /\ Present(q) /\ tabs'[q].token = tabs[q].token
    BY <1>5, <2>1 DEF SaveInv, PagesOK
  <2>2. CASE /\ token' = token + 1 /\ tabs'[p].token = token'
             /\ \A s \in Pages \ {p} : tabs'[s] = tabs[s]
    <3>1. Present(q) /\ tabs'[q].token = tabs[q].token
      BY <1>5, <2>2 DEF Present
    <3>2. tabs[q].token \in Nat /\ tabs[q].token <= token
      BY <1>4, <1>5, <3>1
    <3>3. tabs[q].token = token + 1
      BY <1>5, <2>2, <3>1
    <3>. QED BY <2>0, <3>2, <3>3
  <2>3. CASE /\ token' = token + 1 /\ tabs'[q].token = token'
             /\ \A s \in Pages \ {q} : tabs'[s] = tabs[s]
    <3>1. Present(p) /\ tabs'[p].token = tabs[p].token
      BY <1>5, <2>3 DEF Present
    <3>. QED BY <1>4, <1>5, <2>0, <2>3, <3>1
  <2>. QED BY <1>3, <1>5, <2>1, <2>2, <2>3
<1>. QED BY <1>1, <1>2, <1>5 DEF PagesOK

\* a request that goes on, one whose page is gone, and one that a page has just sent
Stays(r) ==
  /\ r \in net
  /\ r.page # 0 => /\ IsOpen(r.page)' /\ tabs'[r.page].token = tabs[r.page].token
                   /\ r.kind = "save" => \/ tabs'[r.page] = tabs[r.page]
                                         \/ SameHead(tabs[r.page], tabs'[r.page])
Orphaned(r) == \E s \in net : s.answer = "none" /\ r = [s EXCEPT !.page = 0]
Begins(r, q) ==
  /\ Turns(q) /\ tabs'[q].flight
  /\ r = Request(q, "save", tabs'[q], Head(tabs'[q].queue))
  /\ \A s \in net' : s \in net /\ s.kind = "save" => s.page # q
RequestsGo == \A r \in net' : Stays(r) \/ Orphaned(r) \/ \E q \in Pages : Begins(r, q)

LEMMA Begun ==
  ASSUME SaveInv, Grows, Taken, NEW q \in Pages, NEW r, Begins(r, q)
  PROVE  /\ r \in Requests /\ r.page = q /\ r.kind = "save" /\ r.answer = "none"
         /\ q # 0 /\ IsOpen(q) /\ IsOpen(q)' /\ r.token = tabs[q].token
         /\ tabs'[q].token = tabs[q].token /\ r.token <= token
         /\ Carries(r, tabs'[q]) /\ tabs'[q].init
         /\ r.token = token => Stands(r.doc, r.base)
<1>1. PICK y : y = tabs'[q]
  OBVIOUS
<1>2. /\ y \in Tabs /\ Fit(y) /\ y.flight /\ y.token = tabs[q].token /\ IsOpen(q)
      /\ Live(q) => Sound(y)
  BY <1>1 DEF Begins, Turns, Goes, Able
<1>3. /\ y.queue \in Seq(Entries) /\ y.queue # <<>> /\ y.queue[1].base # 0 /\ y.init
      /\ y.token \in Nat /\ y.page = "open"
  BY <1>2 DEF Tabs, Fit
<1>4. PICK e \in Entries : e = y.queue[1] /\ Head(y.queue) = e
  BY <1>3, InQueue
<1>5. r = Request(q, "save", y, e)
  BY <1>1, <1>4 DEF Begins
<1>6. /\ r.page = q /\ r.kind = "save" /\ r.answer = "none" /\ r.token = y.token
      /\ r.key = e.key /\ r.doc = e.doc /\ r.base = e.base
  BY <1>5 DEF Request
<1>7. q \in Nat /\ q # 0
  BY AutosaveAssumption DEF Pages
<1>8. r \in Requests
  BY <1>3, <1>5, <1>7 DEF Request, Requests, Entries, Answers
<1>9. RowOK(q)
  BY DEF SaveInv, PagesOK
<1>10. tabs[q].token <= token
  BY <1>2, <1>9, Opened
<1>11. r.token = token => Stands(r.doc, r.base)
  <2>. SUFFICES ASSUME r.token = token PROVE Stands(e.doc, e.base)
    BY <1>6
  <2>1. Live(q)
    BY <1>2, <1>6 DEF Live
  <2>2. Sound(y)
    BY <1>2, <2>1
  <2>. QED BY <1>3, <1>4, <2>2 DEF Sound
<1>. QED BY <1>1, <1>2, <1>3, <1>4, <1>6, <1>7, <1>8, <1>10, <1>11 DEF Carries, IsOpen

LEMMA RequestStays ==
  ASSUME SaveInv, Grows, Taken, NEW r, Stays(r)
  PROVE  RequestOK(r)' /\ (r.page # 0 /\ r.kind = "save" /\ Live(r.page)' => Live(r.page))
<1>1. r \in net /\ RequestOK(r) /\ r \in Requests
  BY DEF SaveInv, NetOK, Stays
<1>2. token \in Nat /\ r.token \in Nat /\ r.token <= token'
  BY <1>1 DEF SaveInv, HistoryOK, Requests, RequestOK, Grows
<1>3. r.token = token' => Stands(r.doc, r.base)'
  <2>1. r.token = token' => r.token = token
    BY <1>1, <1>2 DEF Grows, RequestOK
  <2>. QED BY <1>1, <2>1, StandsKept DEF RequestOK
<1>4. ASSUME r.page # 0, r.kind = "save" PROVE Carries(r, tabs'[r.page]) /\ tabs[r.page].init
  <2>1. Carries(r, tabs[r.page]) /\ r.page \in Pages /\ IsOpen(r.page)
    BY <1>1, <1>4 DEF RequestOK
  <2>2. PICK x : x = tabs[r.page]
    OBVIOUS
  <2>3. RowOK(r.page)
    BY <2>1 DEF SaveInv, PagesOK
  <2>4. Fit(x)
    BY <2>1, <2>2, <2>3, Opened
  <2>5. x.init
    BY <2>1, <2>2, <2>4 DEF Carries, Fit
  <2>6. tabs'[r.page] = tabs[r.page] \/ SameHead(tabs[r.page], tabs'[r.page])
    BY <1>4 DEF Stays
  <2>. QED BY <2>1, <2>2, <2>5, <2>6 DEF Carries, SameHead
<1>5. ASSUME r.page # 0, r.kind = "save", Live(r.page)' PROVE Live(r.page)
  <2>1. r.page \in Pages /\ IsOpen(r.page) /\ tabs'[r.page].token = tabs[r.page].token
    BY <1>1, <1>5 DEF RequestOK, Stays
  <2>. QED BY <1>4, <1>5, <2>1, WasLive
<1>6. r.page # 0 => r.page \in Pages' /\ IsOpen(r.page)' /\ tabs'[r.page].token = r.token
  BY <1>1 DEF RequestOK, Stays, Pages
<1>7. r.answer = "saved" => r.page # 0
  BY <1>1 DEF RequestOK
<1>8. Bad' = Bad
  BY DEF Grows, Bad
<1>9. r.answer = "saved" =>
        /\ r.rev \in DOMAIN history'
        /\ r.kind = "save" /\ Live(r.page)' => history'[r.rev].doc = r.doc
  BY <1>1, <1>5, <1>7 DEF RequestOK, Grows
<1>. QED BY <1>1, <1>2, <1>3, <1>4, <1>5, <1>6, <1>8, <1>9 DEF RequestOK

LEMMA RequestOrphaned ==
  ASSUME SaveInv, Grows, NEW r, Orphaned(r)
  PROVE  /\ RequestOK(r)' /\ r.page = 0 /\ ~ Done(r) /\ r \in Requests
         /\ \E s \in net : s.token = r.token /\ s.base = r.base
<1>1. PICK s \in net : s.answer = "none" /\ r = [s EXCEPT !.page = 0]
  BY DEF Orphaned
<1>2. s \in Requests /\ RequestOK(s)
  BY DEF SaveInv, NetOK
<1>3. /\ r \in Requests /\ r.page = 0 /\ r.answer = "none" /\ r.token = s.token /\ r.base = s.base
      /\ r.doc = s.doc
  BY <1>1, <1>2 DEF Requests
<1>4. token \in Nat /\ r.token \in Nat /\ r.token <= token
  BY <1>2, <1>3 DEF SaveInv, HistoryOK, Requests, RequestOK
<1>5. r.token = token' => Stands(r.doc, r.base)'
  <2>1. r.token = token' => r.token = token
    BY <1>4 DEF Grows
  <2>. QED BY <1>2, <1>3, <2>1, StandsKept DEF RequestOK
<1>6. r.token <= token'
  BY <1>4 DEF Grows
<1>. QED BY <1>3, <1>5, <1>6 DEF RequestOK, Done

LEMMA RequestsTyped ==
  ASSUME SaveInv, Grows, Taken, history' = history, RequestsGo, NEW r \in net'
  PROVE  r \in Requests /\ RequestOK(r)'
<1>1. CASE Stays(r)
  BY <1>1, RequestStays DEF SaveInv, NetOK, Stays
<1>2. CASE Orphaned(r)
  BY <1>2, RequestOrphaned
<1>3. ASSUME NEW q \in Pages, Begins(r, q) PROVE r \in Requests /\ RequestOK(r)'
  <2>1. /\ r \in Requests /\ r.page = q /\ r.kind = "save" /\ r.answer = "none"
        /\ q # 0 /\ IsOpen(q) /\ IsOpen(q)' /\ r.token = tabs[q].token
        /\ tabs'[q].token = tabs[q].token /\ r.token <= token
        /\ Carries(r, tabs'[q]) /\ tabs'[q].init
        /\ r.token = token => Stands(r.doc, r.base)
    BY <1>3, Begun
  <2>2. token \in Nat /\ r.token \in Nat
    BY <2>1 DEF SaveInv, HistoryOK, Requests
  <2>3. r.token <= token' /\ (r.token = token' => r.token = token)
    BY <2>1, <2>2 DEF Grows
  <2>4. r.token = token' => Stands(r.doc, r.base)'
    BY <2>1, <2>3, StandsKept
  <2>5. Pages' = Pages
    BY DEF Pages
  <2>. QED BY <2>1, <2>3, <2>4, <2>5 DEF RequestOK
<1>. QED BY <1>1, <1>2, <1>3 DEF RequestsGo

\* what is under way of a page stays its own
LEMMA RequestOfPage ==
  ASSUME SaveInv, Grows, Taken, RowsGo, RequestsGo, NEW r \in net', r.page # 0
  PROVE  /\ r.page \in Pages /\ IsOpen(r.page) /\ r.token = tabs[r.page].token
         /\ tabs'[r.page].token = tabs[r.page].token
<1>1. CASE Stays(r)
  <2>1. RequestOK(r)
    BY <1>1 DEF SaveInv, NetOK, Stays
  <2>. QED BY <1>1, <2>1 DEF RequestOK, Stays
<1>2. CASE Orphaned(r)
  BY <1>2, RequestOrphaned
<1>3. ASSUME NEW q \in Pages, Begins(r, q)
      PROVE  /\ r.page \in Pages /\ IsOpen(r.page) /\ r.token = tabs[r.page].token
             /\ tabs'[r.page].token = tabs[r.page].token
  BY <1>3, Begun
<1>. QED BY <1>1, <1>2, <1>3 DEF RequestsGo

LEMMA DoneStays ==
  ASSUME SaveInv, Grows, Taken, history' = history, RowsGo, RequestsGo,
         NEW r \in net', Done(r), Live(r.page)'
  PROVE  DoneOK(r)'
<1>1. Stays(r)
  <2>1. ~ Orphaned(r)
    BY RequestOrphaned
  <2>2. \A q \in Pages : ~ Begins(r, q)
    BY Begun DEF Done
  <2>. QED BY <2>1, <2>2 DEF RequestsGo
<1>2. r \in net /\ RequestOK(r) /\ r \in Requests /\ DoneOK(r)
  BY <1>1 DEF SaveInv, NetOK, Stays
<1>3. r.page # 0 /\ r.kind = "save"
  BY <1>2 DEF Done, RequestOK
<1>4. Live(r.page)
  BY <1>1, <1>3, RequestStays
<1>5. r.page \in Pages /\ IsOpen(r.page) /\ tabs[r.page].token = r.token
      /\ tabs'[r.page].token = r.token
  BY <1>2, <1>1, <1>3 DEF RequestOK, Stays
<1>6. /\ Len(history) = r.base + 1 /\ Last(history).doc = r.doc
      /\ \A s \in net : s.token = r.token => s.base <= r.base
      /\ r.token # token =>
           /\ \A q \in Pages : IsOpen(q) /\ tabs[q].token = token => ~ tabs[q].init
           /\ \A s \in net : s.token # token
  BY <1>2, <1>4 DEF DoneOK
<1>7. token \in Nat /\ r.token \in Nat /\ r.token <= token
  BY <1>2 DEF SaveInv, HistoryOK, Requests, RequestOK
<1>8. ASSUME NEW s \in net', s.token = r.token PROVE s.base <= r.base
  <2>1. CASE Stays(s)
    BY <1>6, <1>8, <2>1 DEF Stays
  <2>2. CASE Orphaned(s)
    BY <1>6, <1>8, <2>2, RequestOrphaned
  <2>3. ASSUME NEW q \in Pages, Begins(s, q) PROVE FALSE
    <3>1. IsOpen(q) /\ s.token = tabs[q].token
      BY <2>3, Begun
    <3>2. q = r.page
      BY <1>5, <1>8, <3>1 DEF SaveInv, PagesOK, Present, IsOpen
    <3>. QED BY <1>2, <1>3, <2>3, <3>2 DEF Begins
  <2>. QED BY <2>1, <2>2, <2>3 DEF RequestsGo
<1>9. ASSUME r.token # token'
      PROVE  \A q \in Pages : IsOpen(q)' /\ tabs'[q].token = token' => ~ tabs'[q].init
  <2>. SUFFICES ASSUME NEW q \in Pages, IsOpen(q)', tabs'[q].token = token', tabs'[q].init
                PROVE  FALSE
    OBVIOUS
  <2>0. r.page # q /\ journal'.owner = r.page
    BY <1>5, <1>9 DEF Live
  <2>1. CASE tabs'[q] = tabs[q]
    <3>1. IsOpen(q) /\ RowOK(q)
      BY <2>1 DEF IsOpen, SaveInv, PagesOK
    <3>2. tabs[q].token \in Nat /\ tabs[q].token <= token
      BY <3>1, Opened DEF Tabs
    <3>3. tabs[q].token = token /\ token' = token
      BY <1>7, <2>1, <3>2 DEF Grows
    <3>. QED BY <1>6, <1>9, <2>1, <3>1, <3>3
  <2>2. CASE Turns(q)
    <3>1. IsOpen(q) /\ RowOK(q) /\ tabs'[q].token = tabs[q].token
      BY <2>2 DEF SaveInv, PagesOK, Turns, Goes
    <3>2. tabs[q].token \in Nat /\ tabs[q].token <= token
      BY <3>1, Opened DEF Tabs
    <3>3. tabs[q].token = token /\ token' = token
      BY <1>7, <3>1, <3>2 DEF Grows
    <3>4. ~ tabs[q].init
      BY <1>6, <1>9, <3>1, <3>3
    <3>. QED BY <2>0, <2>2, <3>4 DEF Turns
  <2>3. CASE Shuts(q)
    BY <2>3 DEF Shuts, IsOpen, Closed
  <2>4. CASE Comes(q)
    BY <2>4 DEF Comes
  <2>. QED BY <2>1, <2>2, <2>3, <2>4 DEF RowsGo
<1>10. ASSUME r.token # token', NEW s \in net' PROVE s.token # token'
  <2>. SUFFICES ASSUME s.token = token' PROVE FALSE
    OBVIOUS
  <2>1. s.token \in Nat /\ s \in Requests
    BY RequestsTyped DEF Requests
  <2>2. CASE Stays(s)
    <3>1. s \in net /\ s.token <= token
      BY <2>2 DEF Stays, SaveInv, NetOK, RequestOK
    <3>2. s.token = token
      BY <1>7, <2>1, <3>1 DEF Grows
    <3>. QED BY <1>6, <1>7, <1>10, <3>1, <3>2 DEF Grows
  <2>3. CASE Orphaned(s)
    <3>1. PICK t \in net : t.token = s.token /\ t.base = s.base
      BY <2>3, RequestOrphaned
    <3>2. t.token <= token
      BY DEF SaveInv, NetOK, RequestOK
    <3>3. s.token = token
      BY <1>7, <2>1, <3>1, <3>2 DEF Grows
    <3>. QED BY <1>6, <1>10, <3>1, <3>3
  <2>4. ASSUME NEW q \in Pages, Begins(s, q) PROVE FALSE
    <3>1. IsOpen(q)' /\ tabs'[q].init /\ tabs'[q].token = token'
      BY <2>4, Begun
    <3>. QED BY <1>9, <1>10, <3>1
  <2>. QED BY <2>2, <2>3, <2>4 DEF RequestsGo
<1>11. Pages' = Pages
  BY DEF Pages
<1>. QED BY <1>6, <1>8, <1>9, <1>10, <1>11 DEF DoneOK, Last

LEMMA NetGoes ==
  ASSUME SaveInv, Grows, Taken, history' = history, RowsGo, RequestsGo
  PROVE  NetOK'
<1>1. \A r \in net' : r \in Requests' /\ RequestOK(r)'
  BY RequestsTyped DEF Requests, Answers
<1>2. ASSUME NEW r \in net', Done(r) PROVE DoneOK(r)'
  BY <1>2, DoneStays DEF DoneOK
<1>3. ASSUME NEW r \in net', NEW s \in net', r.kind = "save", s.kind = "save", r.page = s.page,
             r.page # 0
      PROVE  r = s
  <2>1. Stays(r) \/ \E q \in Pages : Begins(r, q)
    BY <1>3, RequestOrphaned DEF RequestsGo
  <2>2. Stays(s) \/ \E q \in Pages : Begins(s, q)
    BY <1>3, RequestOrphaned DEF RequestsGo
  <2>3. CASE Stays(r) /\ Stays(s)
    BY <1>3, <2>3 DEF SaveInv, NetOK, Stays
  <2>4. ASSUME NEW q \in Pages, Begins(r, q), Stays(s) PROVE FALSE
    <3>1. r.page = q
      BY <2>4, Begun
    <3>. QED BY <1>3, <2>4, <3>1 DEF Begins, Stays
  <2>5. ASSUME NEW q \in Pages, Begins(s, q), Stays(r) PROVE FALSE
    <3>1. s.page = q
      BY <2>5, Begun
    <3>. QED BY <1>3, <2>5, <3>1 DEF Begins, Stays
  <2>6. ASSUME NEW q \in Pages, NEW t \in Pages, Begins(r, q), Begins(s, t) PROVE r = s
    <3>1. r.page = q /\ s.page = t
      BY <2>6, Begun
    <3>. QED BY <1>3, <2>6, <3>1 DEF Begins
  <2>. QED BY <2>1, <2>2, <2>3, <2>4, <2>5, <2>6
<1>. QED BY <1>1, <1>2, <1>3 DEF NetOK, Done

LEMMA AllGo ==
  ASSUME SaveInv, world' = world, history' = history, token' \in {token, token + 1},
         edits' \in 0..world.edits, online' \in BOOLEAN,
         Taken, RowsGo, RequestsGo, JournalOK'
  PROVE  SaveInv'
<1>1. HistoryOK' /\ Grows
  BY HistoryKept DEF SaveInv
<1>. QED BY <1>1, PagesGo, NetGoes DEF SaveInv

LEMMA JournalStays ==
  ASSUME SaveInv, Grows, journal' = journal PROVE JournalOK' /\ Taken
<1>1. PayloadSound(journal.payload)
  BY DEF SaveInv, JournalOK
<1>2. PICK w : w = journal.payload
  OBVIOUS
<1>3. PayloadSound(w)'
  BY <1>1, <1>2, PayloadKept
<1>4. journal = [owner |-> journal.owner, payload |-> journal.payload]
  BY DEF SaveInv, JournalOK
<1>. QED BY <1>2, <1>3, <1>4 DEF JournalOK, Taken

LEMMA JournalLands ==
  ASSUME SaveInv, Grows, NEW w, PayloadSound(w), journal' = Landed(w)
  PROVE  JournalOK' /\ Taken /\ journal'.owner = journal.owner /\ journal'.payload = w
<1>1. journal = [owner |-> journal.owner, payload |-> journal.payload]
  BY DEF SaveInv, JournalOK
<1>2. journal' = [owner |-> journal.owner, payload |-> w]
  BY <1>1 DEF Landed
<1>3. PayloadSound(w)'
  BY PayloadKept
<1>. QED BY <1>2, <1>3 DEF JournalOK, Taken

LEMMA OpenAble ==
  ASSUME SaveInv, NEW p \in Pages, IsOpen(p)
  PROVE  /\ Able(tabs[p]) /\ Calm(tabs[p]) /\ tabs[p] \in Tabs /\ Fit(tabs[p])
         /\ Live(p) \/ ~ tabs[p].init => Sound(tabs[p])
BY Opened DEF SaveInv, PagesOK, Able

\* one page turns; requests of the others go on
LEMMA OneGoes ==
  ASSUME SaveInv, NEW p \in Pages, IsOpen(p), NEW z, tabs' = [tabs EXCEPT ![p] = z],
         Goes(tabs[p], z), Live(p) \/ ~ tabs[p].init => Sound(z),
         ~ tabs[p].init /\ z.init => journal'.owner = p,
         \A r \in net' :
           \/ r \in net /\ (r.kind = "save" /\ r.page = p => SameHead(tabs[p], z))
           \/ Orphaned(r)
           \/ /\ z.flight /\ r = Request(p, "save", z, Head(z.queue))
              /\ \A s \in net' : s \in net /\ s.kind = "save" => s.page # p
  PROVE  RowsGo /\ RequestsGo
<1>1. DOMAIN tabs = Pages
  BY DEF SaveInv, PagesOK
<1>2. DOMAIN tabs' = Pages /\ tabs'[p] = z /\ \A q \in Pages \ {p} : tabs'[q] = tabs[q]
  BY <1>1
<1>3. z.page = "open" /\ z.token = tabs[p].token
  BY DEF Goes, Able, Tabs
<1>4. Turns(p)
  BY <1>2 DEF Turns
<1>5. RowsGo
  BY <1>2, <1>4 DEF RowsGo
<1>6. ASSUME NEW r \in net' PROVE Stays(r) \/ Orphaned(r) \/ \E q \in Pages : Begins(r, q)
  <2>1. CASE r \in net /\ (r.kind = "save" /\ r.page = p => SameHead(tabs[p], z))
    <3>1. r.page # 0 => r.page \in Pages /\ IsOpen(r.page)
      BY <2>1 DEF SaveInv, NetOK, RequestOK
    <3>2. r.page # 0 => IsOpen(r.page)' /\ tabs'[r.page].token = tabs[r.page].token
      BY <1>2, <1>3, <3>1 DEF IsOpen
    <3>3. r.page # 0 /\ r.kind = "save" =>
            tabs'[r.page] = tabs[r.page] \/ SameHead(tabs[r.page], tabs'[r.page])
      BY <1>2, <2>1, <3>1
    <3>. QED BY <2>1, <3>2, <3>3 DEF Stays
  <2>2. CASE /\ z.flight /\ r = Request(p, "save", z, Head(z.queue))
             /\ \A s \in net' : s \in net /\ s.kind = "save" => s.page # p
    BY <1>2, <1>4, <2>2 DEF Begins
  <2>. QED BY <2>1, <2>2
<1>. QED BY <1>5, <1>6 DEF RequestsGo

Stirs(x, y) ==
  /\ Able(y) /\ y.token = x.token /\ (x.init => y.init)
  /\ x.flight => SameHead(x, y)
  /\ Sound(x) => Sound(y)

LEMMA StepGoes ==
  ASSUME SaveInv, NEW p \in Pages, IsOpen(p), NEW y, Stirs(tabs[p], y), Step(p, y),
         ~ tabs[p].init /\ y.init => journal'.owner = p
  PROVE  RowsGo /\ RequestsGo
<1>. DEFINE z == Emitted(y)
<1>1. Moved(y, z) /\ Like(y, z) /\ Calm(z)
  BY EmittedMoves DEF Stirs
<1>2. tabs' = [tabs EXCEPT ![p] = z] /\ net' = net \cup Sent(p, tabs[p], y)
  BY DEF Step
<1>. HIDE DEF z
<1>3. /\ Goes(tabs[p], z) /\ z.init = y.init
      /\ Live(p) \/ ~ tabs[p].init => Sound(z)
  BY <1>1, OpenAble DEF Stirs, Goes, Moved
<1>4. tabs[p].flight => SameHead(tabs[p], z)
  BY <1>1 DEF Stirs, Moved, SameHead
<1>5. ASSUME NEW r \in net, r.kind = "save", r.page = p PROVE tabs[p].flight
  <2>1. RequestOK(r) /\ p # 0
    BY AutosaveAssumption DEF SaveInv, NetOK, Pages
  <2>. QED BY <1>5, <2>1 DEF RequestOK, Carries
<1>6. ASSUME NEW r \in Sent(p, tabs[p], y)
      PROVE  z.flight /\ ~ tabs[p].flight /\ r = Request(p, "save", z, Head(z.queue))
  BY <1>1, <1>6 DEF Sent, Like, Request
<1>7. \A r \in net' :
        \/ r \in net /\ (r.kind = "save" /\ r.page = p => SameHead(tabs[p], z))
        \/ /\ z.flight /\ r = Request(p, "save", z, Head(z.queue))
           /\ \A s \in net' : s \in net /\ s.kind = "save" => s.page # p
  BY <1>2, <1>4, <1>5, <1>6
<1>. QED BY <1>2, <1>3, <1>7, OneGoes

LEMMA StepKeeps ==
  ASSUME SaveInv, NEW p \in Pages, IsOpen(p), NEW y, Stirs(tabs[p], y), Step(p, y),
         ~ tabs[p].init /\ y.init => journal'.owner = p, Taken, JournalOK',
         world' = world, history' = history, token' = token, online' \in BOOLEAN,
         edits' \in 0..world.edits
  PROVE  SaveInv'
BY StepGoes, AllGo

LEMMA StepMoves ==
  ASSUME SaveInv, NEW p \in Pages, IsOpen(p), NEW y, Moved(tabs[p], y), Step(p, y),
         journal' = journal, world' = world, history' = history, token' = token,
         online' \in BOOLEAN, edits' \in 0..world.edits
  PROVE  SaveInv'
<1>1. Stirs(tabs[p], y) /\ y.init = tabs[p].init
  BY DEF Moved, Stirs
<1>2. JournalOK' /\ Taken
  BY JournalStays, HistoryKept DEF SaveInv
<1>. QED BY <1>1, <1>2, StepKeeps

LEMMA PlainMoves ==
  ASSUME SaveInv, NEW p \in Pages, IsOpen(p), NEW y, Moved(tabs[p], y), Calm(y),
         tabs' = [tabs EXCEPT ![p] = y],
         \A r \in net' : /\ r \in net \/ Orphaned(r)
                         /\ r \in net /\ r.kind = "save" /\ r.page = p => tabs[p].flight,
         Taken, JournalOK', world' = world, history' = history, token' = token,
         online' \in BOOLEAN, edits' \in 0..world.edits
  PROVE  SaveInv'
<1>1. /\ Goes(tabs[p], y) /\ y.init = tabs[p].init /\ (tabs[p].flight => SameHead(tabs[p], y))
      /\ Live(p) \/ ~ tabs[p].init => Sound(y)
  BY OpenAble DEF Moved, Goes
<1>2. RowsGo /\ RequestsGo
  BY <1>1, OneGoes
<1>. QED BY <1>2, AllGo

LEMMA SaveFlies ==
  ASSUME SaveInv, NEW r \in net, r.kind = "save", r.page # 0
  PROVE  tabs[r.page].flight /\ r.page \in Pages /\ IsOpen(r.page) /\ Carries(r, tabs[r.page])
BY DEF SaveInv, NetOK, RequestOK, Carries

-----------------------------------------------------------------------------
(* One lemma per action.                                                    *)

LEMMA EditorIsOpen ==
  ASSUME NEW x, Able(x), MayEdit(x) PROVE x.init
BY DEF MayEdit, Able, Fit, Unread

LEMMA EditBound ==
  ASSUME SaveInv PROVE /\ edits \in Nat /\ MaxEdits \in Nat /\ world.edits \in 0..MaxEdits
                       /\ edits \in 0..world.edits /\ Document = SUBSET (1..MaxEdits)
BY AutosaveAssumption DEF SaveInv, HistoryOK, Document, Edits

LEMMA EditKeeps ==
  ASSUME SaveInv, CorrectionsAreSafe, NEW p \in Pages, Edit(p) PROVE SaveInv'
<1>1. /\ IsOpen(p) /\ MayEdit(tabs[p]) /\ edits < world.edits
      /\ world' = world /\ online' = online /\ journal' = journal /\ history' = history
      /\ token' = token
  BY DEF Edit, server
<1>2. PICK text \in BOOLEAN, same \in BOOLEAN, fix \in BOOLEAN :
        LET x == tabs[p]
            e == edits + 1
            doc == (IF fix THEN x.doc \ Bad ELSE x.doc) \cup {e}
        IN Step(p, Complete(x, Key(e), doc, text, same)) /\ edits' = e
  BY DEF Edit
<1>. DEFINE e == edits + 1
            doc == (IF fix THEN tabs[p].doc \ Bad ELSE tabs[p].doc) \cup {e}
<1>3. Able(tabs[p]) /\ tabs[p] \in Tabs
  BY <1>1, OpenAble
<1>4. e \in 1..MaxEdits /\ e \in 0..world.edits
  BY <1>1, EditBound
<1>5. doc \in Document
  BY <1>3, <1>4, EditBound DEF Tabs
<1>6. Clean(tabs[p].doc) \subseteq doc
  BY DEF Clean
<1>7. Key(e) \in Nat \ {0}
  BY <1>4, EditBound DEF Key
<1>8. SafeToCorrect(tabs[p])
  BY <1>1 DEF CorrectionsAreSafe, SafeToCorrect, OpenPages
<1>9. tabs[p].init /\ online \in BOOLEAN
  BY <1>1, <1>3, EditorIsOpen DEF SaveInv
<1>10. Step(p, Complete(tabs[p], Key(e), doc, text, same)) /\ edits' = e
  BY <1>2
<1>. HIDE DEF e, doc
<1>11. Moved(tabs[p], Complete(tabs[p], Key(e), doc, text, same))
  BY <1>3, <1>5, <1>6, <1>7, <1>8, <1>9, CompleteMoves
<1>. QED BY <1>1, <1>4, <1>9, <1>10, <1>11, StepMoves

LEMMA BeginGestureKeeps ==
  ASSUME SaveInv, NEW p \in Pages, BeginGesture(p) PROVE SaveInv'
<1>1. /\ IsOpen(p) /\ MayEdit(tabs[p]) /\ edits < world.edits /\ edits' = edits + 1
      /\ world' = world /\ online' = online /\ journal' = journal /\ history' = history
      /\ token' = token
  BY DEF BeginGesture, server
<1>. DEFINE doc == tabs[p].doc \cup {edits'}
<1>2. PICK render \in BOOLEAN : Step(p, Stage(tabs[p], StagedKey(edits'), doc, render))
  BY DEF BeginGesture
<1>3. Able(tabs[p]) /\ tabs[p] \in Tabs
  BY <1>1, OpenAble
<1>4. edits' \in 1..MaxEdits /\ edits' \in 0..world.edits
  BY <1>1, EditBound
<1>5. doc \in Document /\ tabs[p].doc \subseteq doc
  BY <1>3, <1>4, EditBound DEF Tabs
<1>6. StagedKey(edits') \in Nat \ {0} /\ StagedKey(edits') > MaxEdits
  BY <1>4, EditBound DEF StagedKey
<1>7. tabs[p].init /\ online \in BOOLEAN
  BY <1>1, <1>3, EditorIsOpen DEF SaveInv
<1>. HIDE DEF doc
<1>8. Moved(tabs[p], Stage(tabs[p], StagedKey(edits'), doc, render))
  BY <1>3, <1>5, <1>6, <1>7, StageMoves
<1>. QED BY <1>1, <1>2, <1>4, <1>7, <1>8, StepMoves

LEMMA StagedEntry ==
  ASSUME NEW x, Able(x), x.staged # <<>>
  PROVE  /\ x.staged[1].key \in Nat /\ x.staged[1].key > MaxEdits
         /\ x.staged[1].doc \in Document /\ x.doc \subseteq x.staged[1].doc
<1>1. x.staged \in Seq(Entries)
  BY DEF Able, Tabs
<1>2. PICK e \in Entries : e = x.staged[1]
  BY <1>1, InQueue
<1>. QED BY <1>2 DEF Able, Fit, Entries

LEMMA FinishGestureKeeps ==
  ASSUME SaveInv, CorrectionsAreSafe, NEW p \in Pages, FinishGesture(p) PROVE SaveInv'
<1>. DEFINE key == tabs[p].staged[1].key - MaxEdits
            doc == tabs[p].staged[1].doc
<1>1. /\ IsOpen(p) /\ MayEdit(tabs[p]) /\ tabs[p].staged # <<>>
      /\ world' = world /\ online' = online /\ journal' = journal /\ history' = history
      /\ token' = token /\ edits' = edits
      /\ Step(p, Complete(tabs[p], key, doc, FALSE, FALSE))
  BY DEF FinishGesture, server, counters
<1>2. Able(tabs[p])
  BY <1>1, OpenAble
<1>3. key \in Nat \ {0} /\ doc \in Document /\ tabs[p].doc \subseteq doc
  BY <1>1, <1>2, StagedEntry, EditBound
<1>4. SafeToCorrect(tabs[p]) /\ Clean(tabs[p].doc) \subseteq doc
  BY <1>1, <1>3 DEF CorrectionsAreSafe, SafeToCorrect, OpenPages, Clean
<1>5. tabs[p].init /\ online \in BOOLEAN
  BY <1>1, <1>2, EditorIsOpen DEF SaveInv
<1>. HIDE DEF key, doc
<1>6. Moved(tabs[p], Complete(tabs[p], key, doc, FALSE, FALSE))
  BY <1>2, <1>3, <1>4, <1>5, CompleteMoves
<1>. QED BY <1>1, <1>5, <1>6, EditBound, StepMoves

LEMMA CancelGestureKeeps ==
  ASSUME SaveInv, NEW p \in Pages, CancelGesture(p) PROVE SaveInv'
<1>. DEFINE y == Stage(tabs[p], tabs[p].staged[1].key, tabs[p].doc, FALSE)
<1>1. /\ IsOpen(p) /\ MayEdit(tabs[p]) /\ tabs[p].staged # <<>>
      /\ world' = world /\ online' = online /\ journal' = journal /\ history' = history
      /\ token' = token /\ edits' = edits /\ Step(p, y)
  BY DEF CancelGesture, server, counters
<1>2. Able(tabs[p]) /\ tabs[p].doc \in Document
  BY <1>1, OpenAble DEF Tabs
<1>3. tabs[p].staged[1].key \in Nat \ {0} /\ tabs[p].staged[1].key > MaxEdits
  BY <1>1, <1>2, StagedEntry, EditBound
<1>4. tabs[p].init /\ online \in BOOLEAN
  BY <1>1, <1>2, EditorIsOpen DEF SaveInv
<1>5. Moved(tabs[p], y)
  BY <1>2, <1>3, <1>4, StageMoves
<1>. HIDE DEF y
<1>. QED BY <1>1, <1>4, <1>5, EditBound, StepMoves

LEMMA FlushTextKeeps ==
  ASSUME SaveInv, NEW p \in Pages, FlushText(p) PROVE SaveInv'
<1>1. /\ IsOpen(p) /\ Unready(tabs[p])
      /\ world' = world /\ online' = online /\ journal' = journal /\ history' = history
      /\ token' = token /\ edits' = edits /\ Step(p, Flush(tabs[p]))
  BY DEF FlushText, server, counters
<1>2. Able(tabs[p]) /\ Fit(tabs[p])
  BY <1>1, OpenAble
<1>3. tabs[p].init /\ online \in BOOLEAN
  <2>1. tabs[p].queue # <<>>
    BY <1>1 DEF Unready
  <2>. QED BY <1>2, <2>1 DEF SaveInv, Fit
<1>4. Moved(tabs[p], Flush(tabs[p]))
  BY <1>2, <1>3, FlushMoves
<1>. QED BY <1>1, <1>3, <1>4, EditBound, StepMoves

LEMMA TimerMoves ==
  ASSUME NEW x, Able(x) PROVE Moved(x, [x EXCEPT !.retryTimer = FALSE])
<1>. DEFINE y == [x EXCEPT !.retryTimer = FALSE]
<1>1. x \in Tabs
  BY DEF Able
<1>2. /\ y \in Tabs /\ Like(x, y) /\ y.writing = x.writing /\ y.next = x.next
      /\ y.latest = x.latest /\ y.recovery = x.recovery /\ y.state = x.state
  BY <1>1 DEF Tabs, Like
<1>. HIDE DEF y
<1>3. Moved(x, y)
  BY <1>2, SoftMoves DEF Able, Fit
<1>. QED BY <1>3 DEF y

LEMMA RetryTimerKeeps ==
  ASSUME SaveInv, NEW p \in Pages, RetryTimer(p) PROVE SaveInv'
<1>. DEFINE y == [tabs[p] EXCEPT !.retryTimer = FALSE]
<1>1. /\ IsOpen(p)
      /\ world' = world /\ online' = online /\ journal' = journal /\ history' = history
      /\ token' = token /\ edits' = edits /\ Step(p, Pump(y, online))
  BY DEF RetryTimer, server, counters
<1>2. online \in BOOLEAN /\ Able(tabs[p])
  BY <1>1, OpenAble DEF SaveInv
<1>3. Moved(tabs[p], y)
  BY <1>2, TimerMoves
<1>. HIDE DEF y
<1>4. Moved(y, Pump(y, online))
  BY <1>2, <1>3, PumpMoves DEF Moved
<1>5. Moved(tabs[p], Pump(y, online))
  BY <1>3, <1>4, MovedTransitive
<1>. QED BY <1>1, <1>2, <1>5, EditBound, StepMoves

LEMMA RecheckMoves ==
  ASSUME NEW x, Able(x), ~ x.init, NEW s \in Unread PROVE Moved(x, [x EXCEPT !.recovery = s])
<1>. DEFINE y == [x EXCEPT !.recovery = s]
<1>1. x \in Tabs /\ s \in Words
  BY WordsKnown DEF Able, Unread
<1>2. /\ y \in Tabs /\ Like(x, y) /\ y.writing = x.writing /\ y.next = x.next
      /\ y.latest = x.latest /\ y.recovery = s /\ y.state = x.state
  BY <1>1 DEF Tabs, Like
<1>. HIDE DEF y
<1>3. Moved(x, y)
  BY <1>2, SoftMoves DEF Able, Fit
<1>. QED BY <1>3 DEF y

LEMMA RetryKeeps ==
  ASSUME SaveInv, NEW p \in Pages, Retry(p) PROVE SaveInv'
<1>. DEFINE y == IF tabs[p].init THEN RetryNow(tabs[p]) ELSE [tabs[p] EXCEPT !.recovery = "checking"]
<1>1. /\ IsOpen(p)
      /\ world' = world /\ online' = online /\ journal' = journal /\ history' = history
      /\ token' = token /\ edits' = edits /\ Step(p, y)
  BY DEF Retry, server, counters
<1>2. online \in BOOLEAN /\ Able(tabs[p])
  BY <1>1, OpenAble DEF SaveInv
<1>3. Moved(tabs[p], y)
  <2>1. CASE tabs[p].init
    BY <1>2, <2>1, RetryNowMoves
  <2>2. CASE ~ tabs[p].init
    <3>1. "checking" \in Unread
      BY DEF Unread
    <3>2. Moved(tabs[p], [tabs[p] EXCEPT !.recovery = "checking"])
      BY <1>2, <2>2, <3>1, RecheckMoves
    <3>. QED BY <2>2, <3>2
  <2>. QED BY <2>1, <2>2
<1>. HIDE DEF y
<1>. QED BY <1>1, <1>2, <1>3, EditBound, StepMoves

LEMMA HeartbeatKeeps ==
  ASSUME SaveInv, NEW p \in Pages, Heartbeat(p) PROVE SaveInv'
<1>1. /\ IsOpen(p)
      /\ world' = world /\ online' = online /\ journal' = journal /\ history' = history
      /\ token' = token /\ edits' = edits /\ Step(p, StopForAuthority(tabs[p]))
  BY DEF Heartbeat, server, counters
<1>2. online \in BOOLEAN /\ Able(tabs[p])
  BY <1>1, OpenAble DEF SaveInv
<1>3. Moved(tabs[p], StopForAuthority(tabs[p]))
  BY <1>2, StopMoves
<1>. QED BY <1>1, <1>2, <1>3, EditBound, StepMoves

\* the two slots of the journal writer
LEMMA WriteMoves ==
  ASSUME NEW x, Able(x), x.init, NEW y \in Tabs, Like(x, y), y.latest = x.latest,
         y.state = x.state, y.recovery # "checking",
         Sound(x) => WriteSound(y.writing) /\ WriteSound(y.next)
  PROVE  Moved(x, y)
<1>1. Fit(y)
  BY DEF Fit, Able, Like
<1>2. Sound(x) => Sound(y)
  BY DEF Sound, Like
<1>. QED BY <1>1, <1>2 DEF Moved, Able, Like, SameHead

LEMMA NoWriteSound == WriteSound(NoWrite)
BY DEF WriteSound

LEMMA JournalDoneKeeps ==
  ASSUME SaveInv, NEW p \in Pages, JournalDone(p) PROVE SaveInv'
<1>. DEFINE x == tabs[p]
            b == x.writing # Empty
            y == [x EXCEPT !.hasPayload = b, !.next = NoWrite, !.writing = x.next]
            r == IF b THEN "protected" ELSE "ready"
            z == [x EXCEPT !.hasPayload = b, !.next = NoWrite, !.writing = x.next, !.recovery = r]
            v == Pump(z, online)
<1>1. /\ IsOpen(p) /\ x.writing # NoWrite /\ journal.owner = p /\ journal' = Landed(x.writing)
      /\ world' = world /\ online' = online /\ history' = history
      /\ token' = token /\ edits' = edits
  BY DEF JournalDone, server, counters
<1>2. /\ online \in BOOLEAN /\ Able(x) /\ Calm(x) /\ x \in Tabs /\ Sound(x)
  BY <1>1, OpenAble DEF SaveInv, Live
<1>3. x.init /\ WriteSound(x.next) /\ PayloadSound(x.writing)
  BY <1>1, <1>2 DEF Able, Fit, Sound, WriteSound
<1>4. HistoryOK' /\ Grows
  BY <1>1, EditBound, HistoryKept DEF SaveInv
<1>5. JournalOK' /\ Taken
  BY <1>1, <1>3, <1>4, JournalLands
<1>6. IF y.writing # NoWrite THEN tabs' = [tabs EXCEPT ![p] = y] /\ net' = net ELSE Step(p, v)
  <2>1. y.hasPayload = b /\ [y EXCEPT !.recovery = IF y.hasPayload THEN "protected" ELSE "ready"] = z
    BY <1>2 DEF Tabs
  <2>. HIDE DEF z
  <2>2. JournalDone(p) =>
          IF y.writing # NoWrite THEN tabs' = [tabs EXCEPT ![p] = y] /\ net' = net
          ELSE Step(p, Pump([y EXCEPT !.recovery = IF y.hasPayload THEN "protected" ELSE "ready"],
                            online))
    BY DEF JournalDone
  <2>. QED BY <2>1, <2>2
<1>7. Moved(x, y) /\ Calm(y)
  <2>1. /\ y \in Tabs /\ Like(x, y) /\ y.latest = x.latest /\ y.state = x.state
        /\ y.recovery = x.recovery /\ y.writing = x.next /\ y.next = NoWrite
        /\ y.mutation = x.mutation
    BY <1>2 DEF Tabs, Like
  <2>. HIDE DEF y
  <2>2. Moved(x, y)
    BY <1>2, <1>3, <2>1, NoWriteSound, WriteMoves DEF Able, Fit
  <2>. QED BY <1>2, <2>1, <2>2 DEF Calm, Like
<1>8. Moved(x, z)
  <2>0. r \in Words /\ r # "checking"
    BY WordsKnown
  <2>. HIDE DEF r
  <2>1. /\ z \in Tabs /\ Like(x, z) /\ z.latest = x.latest /\ z.state = x.state
        /\ z.recovery = r /\ z.writing = x.next /\ z.next = NoWrite
    BY <1>2, <2>0 DEF Tabs, Like
  <2>. HIDE DEF z
  <2>. QED BY <1>2, <1>3, <2>0, <2>1, NoWriteSound, WriteMoves
<1>9. CASE y.writing # NoWrite
  <2>1. \A s \in net' : /\ s \in net \/ Orphaned(s)
                        /\ s \in net /\ s.kind = "save" /\ s.page = p => tabs[p].flight
    <3>1. p # 0
      BY AutosaveAssumption DEF Pages
    <3>. QED BY <1>6, <1>9, <3>1, SaveFlies
  <2>. HIDE DEF y
  <2>. QED BY <1>1, <1>2, <1>5, <1>6, <1>7, <1>9, <2>1, EditBound, PlainMoves
<1>10. CASE ~ (y.writing # NoWrite)
  <2>. HIDE DEF z, y
  <2>1. Moved(z, v)
    BY <1>2, <1>8, PumpMoves DEF Moved
  <2>2. Moved(x, v)
    BY <1>8, <2>1, MovedTransitive
  <2>3. Stirs(x, v) /\ v.init = x.init
    BY <2>2 DEF Moved, Stirs
  <2>. HIDE DEF v
  <2>. QED BY <1>1, <1>2, <1>5, <1>6, <1>10, <2>3, EditBound, StepKeeps
<1>. QED BY <1>9, <1>10

LEMMA StoppedWriting ==
  ASSUME NEW x, Able(x), x.init, NEW s \in {"blocked", "unavailable"}
  PROVE  Moved(x, [x EXCEPT !.recovery = s, !.writing = NoWrite, !.next = NoWrite])
<1>. DEFINE y == [x EXCEPT !.recovery = s, !.writing = NoWrite, !.next = NoWrite]
<1>1. x \in Tabs /\ s \in Words /\ s # "checking"
  BY WordsKnown DEF Able
<1>2. /\ y \in Tabs /\ Like(x, y) /\ y.latest = x.latest /\ y.state = x.state
      /\ y.recovery = s /\ y.writing = NoWrite /\ y.next = NoWrite
  BY <1>1 DEF Tabs, Like
<1>. HIDE DEF y
<1>3. Moved(x, y)
  BY <1>1, <1>2, NoWriteSound, WriteMoves
<1>. QED BY <1>3 DEF y

LEMMA JournalOwnedKeeps ==
  ASSUME SaveInv, NEW p \in Pages, JournalOwned(p) PROVE SaveInv'
<1>. DEFINE y == [tabs[p] EXCEPT !.recovery = "blocked", !.writing = NoWrite, !.next = NoWrite]
<1>1. /\ IsOpen(p) /\ tabs[p].writing # NoWrite
      /\ world' = world /\ online' = online /\ journal' = journal /\ history' = history
      /\ token' = token /\ edits' = edits /\ Step(p, y)
  BY DEF JournalOwned, server, counters
<1>2. online \in BOOLEAN /\ Able(tabs[p]) /\ tabs[p].init
  BY <1>1, OpenAble DEF SaveInv, Fit
<1>3. Moved(tabs[p], y)
  BY <1>2, StoppedWriting
<1>. HIDE DEF y
<1>. QED BY <1>1, <1>2, <1>3, EditBound, StepMoves

LEMMA JournalFailsKeeps ==
  ASSUME SaveInv, NEW p \in Pages, JournalFails(p) PROVE SaveInv'
<1>. DEFINE y == [tabs[p] EXCEPT !.recovery = "unavailable", !.writing = NoWrite, !.next = NoWrite]
<1>1. /\ IsOpen(p) /\ tabs[p].writing # NoWrite
      /\ world' = world /\ online' = online /\ journal' = journal /\ history' = history
      /\ token' = token /\ edits' = edits /\ Step(p, Pump(y, online))
  BY DEF JournalFails, server
<1>2. online \in BOOLEAN /\ Able(tabs[p]) /\ tabs[p].init
  BY <1>1, OpenAble DEF SaveInv, Fit
<1>3. Moved(tabs[p], y)
  BY <1>2, StoppedWriting
<1>. HIDE DEF y
<1>4. Moved(y, Pump(y, online))
  BY <1>2, <1>3, PumpMoves DEF Moved
<1>5. Moved(tabs[p], Pump(y, online))
  BY <1>3, <1>4, MovedTransitive
<1>. QED BY <1>1, <1>2, <1>5, EditBound, StepMoves

LEMMA LoadFailsKeeps ==
  ASSUME SaveInv, NEW p \in Pages, LoadFails(p) PROVE SaveInv'
<1>. DEFINE y == [tabs[p] EXCEPT !.recovery = "blocked"]
<1>1. /\ IsOpen(p) /\ tabs[p].recovery = "checking"
      /\ world' = world /\ online' = online /\ history' = history
      /\ token' = token /\ edits' = edits /\ Step(p, y)
  BY DEF LoadFails, server
<1>2. PICK owner \in {journal.owner, p} : journal' = [journal EXCEPT !.owner = owner]
  BY DEF LoadFails
<1>3. online \in BOOLEAN /\ Able(tabs[p]) /\ ~ tabs[p].init
  BY <1>1, OpenAble DEF SaveInv, Fit
<1>4. Moved(tabs[p], y)
  <2>1. "blocked" \in Unread
    BY DEF Unread
  <2>. QED BY <1>3, <2>1, RecheckMoves
<1>5. Taken /\ JournalOK'
  <2>1. journal = [owner |-> journal.owner, payload |-> journal.payload]
    BY DEF SaveInv, JournalOK
  <2>2. journal' = [owner |-> owner, payload |-> journal.payload]
    BY <1>2, <2>1
  <2>3. PICK w : w = journal.payload
    OBVIOUS
  <2>4. PayloadSound(w)
    BY <2>3 DEF SaveInv, JournalOK
  <2>5. PayloadSound(w)'
    BY <1>1, <2>4, EditBound, HistoryKept, PayloadKept DEF SaveInv
  <2>. QED BY <1>1, <1>3, <2>2, <2>3, <2>5 DEF JournalOK, Taken
<1>6. Stirs(tabs[p], y) /\ y.init = tabs[p].init
  BY <1>4 DEF Moved, Stirs
<1>. HIDE DEF y
<1>. QED BY <1>1, <1>3, <1>5, <1>6, EditBound, StepKeeps

\* work that is recovered stands on the base it was begun on
LEMMA RecoveredMoves ==
  ASSUME NEW x, Able(x), x.init, x.staged = <<>>, ~ x.flight,
         NEW w, PayloadSound(w), w # Empty
  PROVE  LET y == Recovered(x, w) IN
         /\ Able(y) /\ y.token = x.token /\ y.init
         /\ WriteSound(x.writing) /\ WriteSound(x.next) => Sound(y)
<1>. DEFINE a == w.actions
            first == Head(a).base
            n == IF first = 0 THEN w.base ELSE first
            e == [a[1] EXCEPT !.base = n]
            q == [a EXCEPT ![1] = e]
            z == [x EXCEPT !.queue = q, !.doc = Last(a).doc, !.state = "pending"]
<1>1. w \in Payloads /\ Chain(a) /\ a # <<>> /\ a \in Seq(Entries)
  BY DEF PayloadSound, Payloads
<1>. HIDE DEF a
<1>2. /\ 1 \in DOMAIN a /\ Len(a) \in DOMAIN a /\ Head(a) = a[1] /\ a[1] \in Entries
      /\ DOMAIN a = 1..Len(a) /\ Len(a) \in Nat
      /\ \A i \in DOMAIN a : a[i] \in Entries
  BY <1>1, InQueue
<1>3. Stands(a[1].doc, n) /\ n \in Nat /\ n # 0
  <2>1. Stands(a[1].doc, n)
    BY <1>1, <1>2 DEF PayloadSound, a
  <2>2. history \in Seq(Revisions)
    BY DEF Able, HistoryOK
  <2>. HIDE DEF n
  <2>3. DOMAIN history = 1..Len(history) /\ n \in DOMAIN history
    BY <2>1, <2>2 DEF Stands
  <2>. QED BY <2>1, <2>3
<1>. HIDE DEF n
<1>4. e \in Entries /\ e.base = n /\ e.doc = a[1].doc
  BY <1>2, <1>3 DEF Entries
<1>. HIDE DEF e
<1>5. /\ q \in Seq(Entries) /\ Len(q) = Len(a) /\ q # <<>> /\ DOMAIN q = DOMAIN a
      /\ q[1] = e /\ \A i \in DOMAIN a : i # 1 => q[i] = a[i]
  BY <1>1, <1>4, NewHead
<1>6. Recovered(x, w) = Schedule(z, FALSE)
  <2>1. [a EXCEPT ![1].base = n] = q
    BY DEF e
  <2>2. Recovered(x, w) = Schedule([x EXCEPT !.queue = [a EXCEPT ![1].base = n],
                                             !.doc = Last(a).doc, !.state = "pending"], FALSE)
    BY DEF Recovered, a, n
  <2>. QED BY <2>1, <2>2
<1>. HIDE DEF q
<1>7. Last(a).doc \in Document /\ Last(a) = a[Len(a)]
  BY <1>2 DEF Last, Entries
<1>8. /\ z \in Tabs /\ z.queue = q /\ z.staged = x.staged /\ z.doc = Last(a).doc /\ z.draft = x.draft
      /\ z.flight = x.flight /\ z.discard = x.discard /\ z.token = x.token /\ z.init = x.init
      /\ z.writing = x.writing /\ z.next = x.next /\ z.latest = x.latest /\ z.state = "pending"
      /\ z.recovery = x.recovery
  BY <1>5, <1>7, WordsKnown DEF Able, Tabs
<1>. HIDE DEF z
<1>9. Fit(z)
  <2>1. \A i \in DOMAIN q : q[i].base \in {0} \cup DOMAIN history
    <3>1. \A i \in DOMAIN a : i > 1 => a[i].base = 0
      BY <1>1 DEF Chain
    <3>2. n \in DOMAIN history
      BY <1>3 DEF Stands
    <3>. QED BY <1>2, <1>4, <1>5, <3>1, <3>2
  <2>. QED BY <1>8, <2>1 DEF Able, Fit
<1>10. ASSUME WriteSound(x.writing), WriteSound(x.next) PROVE Sound(z)
  <2>1. \A i \in DOMAIN q : q[i].doc = a[i].doc
    BY <1>4, <1>5
  <2>2. Chain(q)
    BY <1>1, <1>2, <1>5, <2>1 DEF Chain
  <2>3. \A i \in DOMAIN q : Clean(q[i].doc) \subseteq Last(a).doc
    <3>1. \A i \in DOMAIN a : i = Len(a) \/ i < Len(a)
      BY <1>2
    <3>2. \A i \in DOMAIN a : Clean(a[i].doc) \subseteq Last(a).doc
      BY <1>1, <1>2, <1>7, <3>1 DEF Chain, Clean
    <3>. QED BY <1>5, <2>1, <3>2
  <2>. QED BY <1>3, <1>4, <1>5, <1>8, <1>10, <2>2, <2>3 DEF Sound
<1>11. Able(z)
  BY <1>8, <1>9 DEF Able
<1>12. Moved(z, Schedule(z, FALSE))
  BY <1>11, ScheduleMoves
<1>. QED BY <1>6, <1>8, <1>10, <1>12 DEF Moved

LEMMA LoadJournalKeeps ==
  ASSUME SaveInv, NEW p \in Pages, LoadJournal(p) PROVE SaveInv'
<1>. DEFINE x == tabs[p]
            w == journal.payload
            b == w # Empty
            y == [x EXCEPT !.init = TRUE, !.recovery = "ready", !.hasPayload = b]
            z == IF b THEN Recovered(y, w) ELSE y
            v == Pump(z, online)
<1>1. /\ IsOpen(p) /\ x.recovery = "checking" /\ journal' = [journal EXCEPT !.owner = p]
      /\ world' = world /\ online' = online /\ history' = history
      /\ token' = token /\ edits' = edits
  BY DEF LoadJournal, server, counters
<1>2. online \in BOOLEAN /\ Able(x) /\ x \in Tabs
  BY <1>1, OpenAble DEF SaveInv
<1>3. ~ x.init /\ x.queue = <<>> /\ x.staged = <<>> /\ ~ x.flight
      /\ x.writing = NoWrite /\ x.next = NoWrite
  BY <1>1, <1>2 DEF Able, Fit
<1>4. Step(p, v)
  <2>1. y.hasPayload = b
    BY <1>2 DEF Tabs
  <2>2. LoadJournal(p) => Step(p, Pump(IF y.hasPayload THEN Recovered(y, w) ELSE y, online))
    BY DEF LoadJournal
  <2>. HIDE DEF y
  <2>. QED BY <2>1, <2>2
<1>5. /\ y \in Tabs /\ y.queue = x.queue /\ y.staged = x.staged /\ y.doc = x.doc /\ y.draft = x.draft
      /\ y.flight = x.flight /\ y.discard = x.discard /\ y.token = x.token /\ y.init = TRUE
      /\ y.writing = x.writing /\ y.next = x.next /\ y.latest = x.latest /\ y.state = x.state
      /\ y.recovery = "ready"
  BY <1>2, WordsKnown DEF Tabs
<1>. HIDE DEF y
<1>6. Able(y) /\ (Sound(x) => Sound(y))
  <2>1. Fit(y)
    BY <1>2, <1>5 DEF Able, Fit
  <2>2. Sound(x) => Sound(y)
    BY <1>5 DEF Sound
  <2>. QED BY <1>2, <1>5, <2>1, <2>2 DEF Able
<1>7. PayloadSound(w) /\ journal = [owner |-> journal.owner, payload |-> w]
  BY DEF SaveInv, JournalOK
<1>8. Able(z) /\ z.token = x.token /\ z.init /\ (Sound(x) => Sound(z))
  <2>1. CASE b
    <3>1. WriteSound(y.writing) /\ WriteSound(y.next)
      BY <1>3, <1>5, NoWriteSound
    <3>2. Able(z) /\ z.token = y.token /\ z.init /\ Sound(z)
      <4>1. PICK u : u = w
        OBVIOUS
      <4>2. Able(Recovered(y, u)) /\ Recovered(y, u).token = y.token /\ Recovered(y, u).init
            /\ Sound(Recovered(y, u))
        BY <1>3, <1>5, <1>6, <1>7, <2>1, <3>1, <4>1, RecoveredMoves
      <4>. QED BY <2>1, <4>1, <4>2
    <3>. QED BY <1>5, <3>2
  <2>2. CASE ~ b
    BY <1>5, <1>6, <2>2
  <2>. QED BY <2>1, <2>2
<1>9. Taken /\ JournalOK' /\ journal'.owner = p
  <2>1. journal' = [owner |-> p, payload |-> w]
    BY <1>1, <1>7
  <2>2. PICK u : u = w
    OBVIOUS
  <2>3. PayloadSound(u)'
    BY <1>1, <1>7, <2>2, EditBound, HistoryKept, PayloadKept DEF SaveInv
  <2>. QED BY <1>1, <1>3, <2>1, <2>2, <2>3 DEF JournalOK, Taken
<1>. HIDE DEF z
<1>10. Moved(z, v)
  BY <1>2, <1>8, PumpMoves
<1>11. Stirs(x, v) /\ v.init
  BY <1>3, <1>8, <1>10 DEF Moved, Stirs
<1>. HIDE DEF v
<1>. QED BY <1>1, <1>2, <1>4, <1>9, <1>11, EditBound, StepKeeps

LEMMA DiscardMoves ==
  ASSUME NEW x, Able(x), NEW s \in {"no", "loading", "clearing", "clearing to leave"},
         NEW n \in Nat, s # "no" => ~ x.flight,
         s \in {"clearing", "clearing to leave"} => n \in DOMAIN history
  PROVE  /\ Moved(x, [x EXCEPT !.discard = s, !.latest = n])
         /\ [x EXCEPT !.discard = s, !.latest = n].mutation = x.mutation
         /\ [x EXCEPT !.discard = s, !.latest = n].queue = x.queue
         /\ [x EXCEPT !.discard = s, !.latest = n].init = x.init
<1>. DEFINE y == [x EXCEPT !.discard = s, !.latest = n]
<1>1. x \in Tabs /\ s \in Words
  BY WordsKnown DEF Able
<1>2. /\ y \in Tabs /\ y.queue = x.queue /\ y.staged = x.staged /\ y.doc = x.doc
      /\ y.draft = x.draft /\ y.flight = x.flight /\ y.discard = s /\ y.token = x.token
      /\ y.init = x.init /\ y.writing = x.writing /\ y.next = x.next /\ y.latest = n
      /\ y.state = x.state /\ y.recovery = x.recovery /\ y.mutation = x.mutation
  BY <1>1 DEF Tabs
<1>. HIDE DEF y
<1>3. Fit(y)
  BY <1>2 DEF Able, Fit
<1>4. Sound(x) => Sound(y)
  BY <1>2 DEF Sound
<1>5. Moved(x, y)
  BY <1>2, <1>3, <1>4 DEF Moved, SameHead, Able
<1>. QED BY <1>2, <1>5 DEF y

LEMMA DiscardKeeps ==
  ASSUME SaveInv, NEW p \in Pages, Discard(p) PROVE SaveInv'
<1>. DEFINE x == tabs[p]
<1>1. /\ IsOpen(p) /\ ~ x.flight
      /\ world' = world /\ online' = online /\ journal' = journal /\ history' = history
      /\ token' = token /\ edits' = edits
      /\ \/ Step(p, [x EXCEPT !.discard = "loading"])
         \/ Step(p, [x EXCEPT !.discard = "clearing to leave", !.latest = x.draft])
  BY DEF Discard, server, counters
<1>2. /\ online \in BOOLEAN /\ Able(x) /\ x \in Tabs /\ x.draft \in DOMAIN history
      /\ x.latest \in Nat /\ x.draft \in Nat
  BY <1>1, OpenAble DEF SaveInv, Fit, Tabs
<1>3. CASE Step(p, [x EXCEPT !.discard = "loading"])
  <2>. DEFINE y == [x EXCEPT !.discard = "loading", !.latest = x.latest]
  <2>1. y = [x EXCEPT !.discard = "loading"]
    BY <1>2 DEF Tabs
  <2>2. Moved(x, y)
    BY <1>1, <1>2, DiscardMoves
  <2>. QED BY <1>1, <1>2, <1>3, <2>1, <2>2, EditBound, StepMoves
<1>4. CASE Step(p, [x EXCEPT !.discard = "clearing to leave", !.latest = x.draft])
  <2>1. Moved(x, [x EXCEPT !.discard = "clearing to leave", !.latest = x.draft])
    BY <1>1, <1>2, DiscardMoves
  <2>. QED BY <1>1, <1>2, <1>4, <2>1, EditBound, StepMoves
<1>. QED BY <1>1, <1>3, <1>4

LEMMA DiscardLoadedKeeps ==
  ASSUME SaveInv, NEW p \in Pages, DiscardLoaded(p) PROVE SaveInv'
<1>. DEFINE x == tabs[p]
            y == [x EXCEPT !.discard = "clearing", !.latest = Len(history)]
<1>1. /\ IsOpen(p) /\ x.discard = "loading" /\ net' = net
      /\ world' = world /\ online' = online /\ journal' = journal /\ history' = history
      /\ token' = token /\ edits' = edits
  BY DEF DiscardLoaded, server, counters
<1>2. DOMAIN tabs = Pages
  BY DEF SaveInv, PagesOK
<1>3. tabs' = [tabs EXCEPT ![p] = y]
  BY <1>2 DEF DiscardLoaded
<1>4. online \in BOOLEAN /\ Able(x) /\ Calm(x) /\ ~ x.flight
  BY <1>1, OpenAble DEF SaveInv, Fit
<1>5. Len(history) \in DOMAIN history /\ Len(history) \in Nat
  BY InQueue DEF SaveInv, HistoryOK
<1>6. Moved(x, y) /\ Calm(y)
  <2>1. Moved(x, y) /\ y.mutation = x.mutation /\ y.queue = x.queue /\ y.init = x.init
    BY <1>4, <1>5, DiscardMoves
  <2>. HIDE DEF y
  <2>. QED BY <1>4, <2>1 DEF Calm
<1>. HIDE DEF y
<1>7. p # 0
  BY AutosaveAssumption DEF Pages
<1>8. JournalOK' /\ Taken
  BY <1>1, EditBound, HistoryKept, JournalStays DEF SaveInv
<1>. QED BY <1>1, <1>3, <1>4, <1>6, <1>7, <1>8, EditBound, SaveFlies, PlainMoves

LEMMA EmptySound == PayloadSound(Empty)
BY DEF PayloadSound, Payloads, Empty, Chain

LEMMA DiscardDoneKeeps ==
  ASSUME SaveInv, NEW p \in Pages, DiscardDone(p) PROVE SaveInv'
<1>. DEFINE x == tabs[p]
            b == x.leaving \/ x.discard = "clearing to leave"
            y == [x EXCEPT !.hasPayload = FALSE, !.init = TRUE, !.recovery = "ready",
                           !.discard = "no", !.latest = 0, !.leaving = b]
            z == ReplaceWithLatest(y, x.latest)
<1>1. /\ IsOpen(p) /\ x.discard \in {"clearing", "clearing to leave"}
      /\ journal.owner = p /\ journal' = Landed(Empty)
      /\ world' = world /\ online' = online /\ history' = history
      /\ token' = token /\ edits' = edits
  BY DEF DiscardDone, Clearing, server, counters
<1>2. Step(p, z)
  <2>1. [x EXCEPT !.hasPayload = FALSE, !.init = TRUE, !.recovery = "ready", !.discard = "no",
                  !.latest = 0, !.leaving = @ \/ x.discard = "clearing to leave"] = y
    OBVIOUS
  <2>. HIDE DEF y
  <2>2. DiscardDone(p) =>
          Step(p, ReplaceWithLatest(
            [x EXCEPT !.hasPayload = FALSE, !.init = TRUE, !.recovery = "ready", !.discard = "no",
                      !.latest = 0, !.leaving = @ \/ x.discard = "clearing to leave"], x.latest))
    BY DEF DiscardDone
  <2>. QED BY <2>1, <2>2
<1>3. online \in BOOLEAN /\ Able(x) /\ x \in Tabs
  BY <1>1, OpenAble DEF SaveInv
<1>4. ~ x.flight /\ x.latest \in DOMAIN history
  BY <1>1, <1>3 DEF Able, Fit
<1>5. b \in BOOLEAN
  BY <1>3 DEF Tabs
<1>. HIDE DEF b
<1>6. /\ y \in Tabs /\ y.queue = x.queue /\ y.staged = x.staged /\ y.doc = x.doc
      /\ y.draft = x.draft /\ y.flight = x.flight /\ y.discard = "no" /\ y.token = x.token
      /\ y.init = TRUE /\ y.writing = x.writing /\ y.next = x.next
      /\ y.state = x.state /\ y.recovery = "ready"
  BY <1>3, <1>5, WordsKnown DEF Tabs
<1>. HIDE DEF y
<1>7. Able(y) /\ (Sound(x) => Sound(y))
  <2>1. Fit(y)
    BY <1>3, <1>6 DEF Able, Fit
  <2>2. Sound(x) => Sound(y)
    BY <1>6 DEF Sound
  <2>. QED BY <1>3, <1>6, <2>1, <2>2 DEF Able
<1>8. Ended(y, z)
  BY <1>4, <1>6, <1>7, ReplaceEnds
<1>9. Stirs(x, z) /\ z.init
  BY <1>4, <1>6, <1>7, <1>8 DEF Ended, Stirs
<1>. HIDE DEF z
<1>10. JournalOK' /\ Taken /\ journal'.owner = p
  BY <1>1, EmptySound, EditBound, HistoryKept, JournalLands DEF SaveInv
<1>. QED BY <1>1, <1>2, <1>3, <1>9, <1>10, EditBound, StepKeeps

LEMMA DiscardFailsKeeps ==
  ASSUME SaveInv, NEW p \in Pages, DiscardFails(p) PROVE SaveInv'
<1>. DEFINE y == [tabs[p] EXCEPT !.discard = "no", !.latest = 0]
<1>1. /\ IsOpen(p)
      /\ world' = world /\ online' = online /\ journal' = journal /\ history' = history
      /\ token' = token /\ edits' = edits /\ Step(p, y)
  BY DEF DiscardFails, Clearing, server, Fault
<1>2. online \in BOOLEAN /\ Able(tabs[p])
  BY <1>1, OpenAble DEF SaveInv
<1>3. Moved(tabs[p], y)
  BY <1>2, DiscardMoves
<1>. HIDE DEF y
<1>. QED BY <1>1, <1>2, <1>3, EditBound, StepMoves

\* marks that neither the journal nor the server sees
LEMMA FlagMoves ==
  ASSUME NEW x, Able(x), NEW y,
         \/ \E m \in Words : y = [x EXCEPT !.mutation = m]
         \/ \E b \in BOOLEAN : y = [x EXCEPT !.leaving = b]
  PROVE  Moved(x, y) /\ y.queue = x.queue /\ y.init = x.init
<1>1. x \in Tabs
  BY DEF Able
<1>2. /\ y \in Tabs /\ Like(x, y) /\ y.writing = x.writing /\ y.next = x.next
      /\ y.latest = x.latest /\ y.recovery = x.recovery /\ y.state = x.state
  BY <1>1 DEF Tabs, Like
<1>. QED BY <1>2, SoftMoves DEF Able, Fit, Like

LEMMA FlagKeeps ==
  ASSUME SaveInv, NEW p \in Pages, IsOpen(p), NEW y,
         tabs' = [tabs EXCEPT ![p] = y], Calm(y),
         \/ \E m \in Words : y = [tabs[p] EXCEPT !.mutation = m]
         \/ \E b \in BOOLEAN : y = [tabs[p] EXCEPT !.leaving = b],
         world' = world, online' = online, journal' = journal, history' = history,
         token' = token, edits' = edits, net' \subseteq net
  PROVE  SaveInv'
<1>1. online \in BOOLEAN /\ Able(tabs[p]) /\ Calm(tabs[p])
  BY OpenAble DEF SaveInv
<1>2. Moved(tabs[p], y)
  BY <1>1, FlagMoves
<1>3. p # 0
  BY AutosaveAssumption DEF Pages
<1>4. JournalOK' /\ Taken
  BY EditBound, HistoryKept, JournalStays DEF SaveInv
<1>5. \A s \in net' : /\ s \in net \/ Orphaned(s)
                      /\ s \in net /\ s.kind = "save" /\ s.page = p => tabs[p].flight
  BY <1>3, SaveFlies
<1>. QED BY <1>1, <1>2, <1>4, <1>5, EditBound, PlainMoves

LEMMA BeginChangeKeeps ==
  ASSUME SaveInv, NEW p \in Pages, BeginChange(p) PROVE SaveInv'
<1>. DEFINE y == [tabs[p] EXCEPT !.mutation = "checking"]
<1>1. /\ IsOpen(p) /\ CanLeave(tabs[p]) /\ net' = net
      /\ world' = world /\ online' = online /\ journal' = journal /\ history' = history
      /\ token' = token /\ edits' = edits
  BY DEF BeginChange, server, counters
<1>2. tabs' = [tabs EXCEPT ![p] = y]
  BY DEF BeginChange, SaveInv, PagesOK
<1>3. tabs[p] \in Tabs /\ Fit(tabs[p])
  BY <1>1, OpenAble
<1>4. y.queue = <<>> /\ y.init
  <2>1. tabs[p].init /\ tabs[p].queue = <<>>
    BY <1>1, <1>3 DEF CanLeave, Fit, Unread
  <2>. QED BY <1>3, <2>1 DEF Tabs
<1>. HIDE DEF y
<1>5. Calm(y)
  BY <1>4 DEF Calm
<1>. QED BY <1>1, <1>2, <1>5, WordsKnown, FlagKeeps DEF y

LEMMA GiveUpChangeKeeps ==
  ASSUME SaveInv, NEW p \in Pages, GiveUpChange(p) PROVE SaveInv'
<1>. DEFINE y == [tabs[p] EXCEPT !.mutation = "no"]
<1>1. /\ IsOpen(p) /\ net' = net
      /\ world' = world /\ online' = online /\ journal' = journal /\ history' = history
      /\ token' = token /\ edits' = edits
  BY DEF GiveUpChange, server, counters
<1>2. tabs' = [tabs EXCEPT ![p] = y]
  BY DEF GiveUpChange, SaveInv, PagesOK
<1>3. Calm(y)
  <2>1. y.mutation = "no"
    BY <1>1, OpenAble DEF Tabs
  <2>. QED BY <2>1 DEF Calm
<1>. HIDE DEF y
<1>. QED BY <1>1, <1>2, <1>3, WordsKnown, FlagKeeps DEF y

LEMMA LeavingKeeps ==
  ASSUME SaveInv, NEW p \in Pages, Leave(p) \/ LeaveFails(p) PROVE SaveInv'
<1>1. /\ IsOpen(p) /\ net' = net
      /\ world' = world /\ online' = online /\ journal' = journal /\ history' = history
      /\ token' = token /\ edits' = edits
  BY DEF Leave, LeaveFails, server, counters, Fault
<1>2. PICK b \in BOOLEAN : tabs' = [tabs EXCEPT ![p] = [tabs[p] EXCEPT !.leaving = b]]
  BY DEF Leave, LeaveFails, SaveInv, PagesOK
<1>. DEFINE y == [tabs[p] EXCEPT !.leaving = b]
<1>3. Calm(y)
  <2>1. tabs[p] \in Tabs /\ Calm(tabs[p])
    BY <1>1, OpenAble
  <2>2. y.mutation = tabs[p].mutation /\ y.queue = tabs[p].queue /\ y.init = tabs[p].init
    BY <2>1 DEF Tabs
  <2>. HIDE DEF y
  <2>. QED BY <2>1, <2>2 DEF Calm
<1>4. tabs' = [tabs EXCEPT ![p] = y] /\ y = [tabs[p] EXCEPT !.leaving = b]
  BY <1>2
<1>. HIDE DEF y
<1>. QED BY <1>1, <1>3, <1>4, FlagKeeps

LEMMA ClosedRow == ASSUME NEW p, tabs'[p] = Closed PROVE RowOK(p)'
BY DEF RowOK

\* a page is gone: what it sent goes on without it
LEMMA ShutKeeps ==
  ASSUME SaveInv, NEW p \in Pages, IsOpen(p), tabs' = [tabs EXCEPT ![p] = Closed],
         net' = Unheard(p), world' = world, online' = online, history' = history,
         token' \in {token, token + 1}, edits' = edits, Taken, JournalOK'
  PROVE  SaveInv'
<1>1. DOMAIN tabs = Pages
  BY DEF SaveInv, PagesOK
<1>2. DOMAIN tabs' = Pages /\ tabs'[p] = Closed /\ \A q \in Pages \ {p} : tabs'[q] = tabs[q]
  BY <1>1
<1>3. RowsGo
  BY <1>2 DEF RowsGo, Shuts
<1>4. ASSUME NEW r \in net' PROVE Stays(r) \/ Orphaned(r)
  <2>1. CASE r \in net /\ r.page # p
    <3>1. r.page # 0 => r.page \in Pages /\ IsOpen(r.page)
      BY <2>1 DEF SaveInv, NetOK, RequestOK
    <3>. QED BY <1>2, <2>1, <3>1 DEF Stays, IsOpen
  <2>2. ASSUME NEW s \in net, r \in Orphan(s) PROVE Orphaned(r)
    BY <2>2 DEF Orphan, Orphaned
  <2>. QED BY <2>1, <2>2 DEF Unheard
<1>5. RequestsGo
  BY <1>4 DEF RequestsGo
<1>6. online' \in BOOLEAN
  BY DEF SaveInv
<1>. QED BY <1>3, <1>5, <1>6, EditBound, AllGo

LEMMA LeavesKeeps ==
  ASSUME SaveInv, NEW p \in Pages, Leaves(p) PROVE SaveInv'
<1>1. /\ IsOpen(p) /\ tabs' = [tabs EXCEPT ![p] = Closed] /\ net' = Unheard(p)
      /\ world' = world /\ online' = online /\ history' = history /\ edits' = edits
      /\ token' \in {token, token + 1}
      /\ journal' = IF tabs[p].writing = NoWrite \/ journal.owner # p THEN journal
                    ELSE Landed(IF tabs[p].next = NoWrite THEN tabs[p].writing ELSE tabs[p].next)
  BY DEF Leaves, counters
<1>2. Grows
  BY <1>1 DEF Grows
<1>3. CASE tabs[p].writing = NoWrite \/ journal.owner # p
  BY <1>1, <1>2, <1>3, JournalStays, ShutKeeps
<1>4. CASE tabs[p].writing # NoWrite /\ journal.owner = p
  <2>1. PICK w : w = IF tabs[p].next = NoWrite THEN tabs[p].writing ELSE tabs[p].next
    OBVIOUS
  <2>2. Sound(tabs[p])
    BY <1>1, <1>4, OpenAble DEF Live
  <2>3. PayloadSound(w)
    BY <1>4, <2>1, <2>2 DEF Sound, WriteSound
  <2>4. journal' = Landed(w)
    BY <1>1, <1>4, <2>1
  <2>. QED BY <1>1, <1>2, <2>3, <2>4, JournalLands, ShutKeeps
<1>. QED BY <1>3, <1>4

LEMMA CrashKeeps ==
  ASSUME SaveInv, NEW p \in Pages, Crash(p) PROVE SaveInv'
<1>1. /\ IsOpen(p) /\ tabs' = [tabs EXCEPT ![p] = Closed] /\ net' = Unheard(p)
      /\ world' = world /\ online' = online /\ history' = history /\ edits' = edits
      /\ token' \in {token, token + 1}
      /\ \/ journal' = journal
         \/ tabs[p].writing # NoWrite /\ journal.owner = p /\ journal' = Landed(tabs[p].writing)
  BY DEF Crash, counters, server
<1>2. Grows
  BY <1>1 DEF Grows
<1>3. CASE journal' = journal
  BY <1>1, <1>2, <1>3, JournalStays, ShutKeeps
<1>4. CASE tabs[p].writing # NoWrite /\ journal.owner = p /\ journal' = Landed(tabs[p].writing)
  <2>1. Sound(tabs[p])
    BY <1>1, <1>4, OpenAble DEF Live
  <2>2. PICK w : w = tabs[p].writing
    OBVIOUS
  <2>3. PayloadSound(w)
    BY <1>4, <2>1, <2>2 DEF Sound, WriteSound
  <2>. QED BY <1>1, <1>2, <1>4, <2>2, <2>3, JournalLands, ShutKeeps
<1>. QED BY <1>1, <1>3, <1>4

LEMMA ComesKeeps ==
  ASSUME SaveInv, NEW p \in Pages, Comes(p), NEW z, tabs' = [tabs EXCEPT ![p] = z],
         net' = net, world' = world, online' = online, history' = history,
         token' \in {token, token + 1}, edits' = edits, journal' = journal
  PROVE  SaveInv'
<1>1. DOMAIN tabs = Pages
  BY DEF SaveInv, PagesOK
<1>2. DOMAIN tabs' = Pages /\ \A q \in Pages \ {p} : tabs'[q] = tabs[q]
  BY <1>1
<1>3. RowsGo
  BY <1>2 DEF RowsGo
<1>4. ASSUME NEW r \in net' PROVE Stays(r)
  <2>1. r.page # 0 => r.page \in Pages /\ IsOpen(r.page)
    BY <1>4 DEF SaveInv, NetOK, RequestOK
  <2>2. r.page # 0 => r.page # p
    BY <2>1 DEF Comes
  <2>. QED BY <1>2, <2>1, <2>2 DEF Stays, IsOpen
<1>5. RequestsGo
  BY <1>4 DEF RequestsGo
<1>6. Grows /\ online' \in BOOLEAN
  BY DEF Grows, SaveInv
<1>. QED BY <1>3, <1>5, <1>6, JournalStays, EditBound, AllGo

LEMMA AcquireKeeps ==
  ASSUME SaveInv, NEW p \in Pages, Acquire(p) PROVE SaveInv'
<1>1. /\ tabs[p].page = "unused" /\ tabs' = [tabs EXCEPT ![p] = Opening(token')]
      /\ net' = net /\ world' = world /\ online' = online /\ history' = history
      /\ token' = token + 1 /\ edits' = edits /\ journal' = journal
  BY DEF Acquire, counters
<1>2. DOMAIN tabs = Pages /\ token \in Nat
  BY DEF SaveInv, PagesOK, HistoryOK
<1>3. PICK z : z = Opening(token')
  OBVIOUS
<1>4. /\ tabs'[p] = z /\ \A q \in Pages \ {p} : tabs'[q] = tabs[q]
      /\ z = [page |-> "opening", token |-> token']
  BY <1>1, <1>2, <1>3 DEF Opening
<1>5. Comes(p)
  <2>1. z \in [page : {"opening"}, token : 0..token'] /\ z.page = "opening" /\ z.token = token'
    BY <1>1, <1>2, <1>4
  <2>2. RowOK(p)'
    BY <1>4, <2>1 DEF RowOK
  <2>3. ~ IsOpen(p)'
    BY <1>4, <2>1 DEF IsOpen
  <2>. QED BY <1>1, <1>4, <2>1, <2>2, <2>3 DEF Comes, IsOpen
<1>. QED BY <1>1, <1>3, <1>5, ComesKeeps

LEMMA FetchKeeps ==
  ASSUME SaveInv, NEW p \in Pages, Fetch(p) PROVE SaveInv'
<1>. DEFINE n == Len(history)
            x == Controller(tabs[p].token, n)
<1>1. /\ tabs[p].page = "opening" /\ tabs' = [tabs EXCEPT ![p] = x]
      /\ net' = net /\ world' = world /\ online' = online /\ history' = history
      /\ token' = token /\ edits' = edits /\ journal' = journal
  BY DEF Fetch, counters, server
<1>2. DOMAIN tabs = Pages /\ token \in Nat /\ RowOK(p) /\ HistoryOK
  BY DEF SaveInv, PagesOK, HistoryOK
<1>3. tabs[p].token \in Nat /\ tabs[p].token <= token
  <2>1. PICK w : w = tabs[p]
    OBVIOUS
  <2>2. w \notin {Closed, [page |-> "unused"]} /\ w \notin Tabs
    BY <1>1, <2>1 DEF Closed, Tabs
  <2>3. w \in [page : {"opening"}, token : 0..token]
    BY <1>2, <2>1, <2>2 DEF RowOK
  <2>. QED BY <1>2, <2>1, <2>3
<1>4. /\ n \in DOMAIN history /\ n \in Nat /\ history[n] \in Revisions
      /\ history[n].doc \in Document
  <2>1. history \in Seq(Revisions) /\ history # <<>>
    BY <1>2 DEF HistoryOK
  <2>2. n \in DOMAIN history /\ n \in Nat /\ DOMAIN history = 1..n
    BY <2>1, InQueue
  <2>3. history[n] \in Revisions
    BY <2>1, <2>2
  <2>. QED BY <2>2, <2>3 DEF Revisions
<1>5. /\ x.page = "open" /\ x.token = tabs[p].token /\ x.draft = n /\ x.doc = history[n].doc
      /\ x.queue = <<>> /\ x.staged = <<>> /\ x.flight = FALSE /\ x.state = "saved"
      /\ x.recovery = "checking" /\ x.init = FALSE /\ x.writing = NoWrite /\ x.next = NoWrite
      /\ x.discard = "no" /\ x.mutation = "no"
  BY DEF Controller
<1>6. x \in Tabs
  <2>1. <<>> \in Seq(Entries)
    OBVIOUS
  <2>. HIDE DEF n
  <2>. QED BY <1>3, <1>4, <2>1, WordsKnown DEF Controller, Tabs
<1>. HIDE DEF x, n
<1>7. Fit(x) /\ Calm(x) /\ Sound(x)
  <2>1. DOMAIN x.queue = {}
    BY <1>5
  <2>2. Fit(x)
    BY <1>4, <1>5, <2>1 DEF Fit, Unread
  <2>3. Calm(x)
    BY <1>5 DEF Calm
  <2>4. Sound(x)
    BY <1>5, <2>1, NoWriteSound DEF Sound, Chain
  <2>. QED BY <2>2, <2>3, <2>4
<1>8. Grows
  BY <1>1 DEF Grows
<1>9. PICK w : w = x
  OBVIOUS
<1>10. Fit(w)' /\ Sound(w)' /\ Calm(w)' /\ w \in Tabs'
  <2>1. Fit(w)' /\ Sound(w)'
    BY <1>2, <1>7, <1>8, <1>9, FitKept, SoundKept
  <2>2. Calm(w)'
    BY <1>7, <1>9 DEF Calm
  <2>3. w \in Tabs'
    BY <1>6, <1>9 DEF Tabs
  <2>. QED BY <2>1, <2>2, <2>3
<1>11. tabs' = [tabs EXCEPT ![p] = w] /\ tabs'[p] = w
  BY <1>1, <1>2, <1>9
<1>12. Comes(p)
  <2>1. w.page = "open" /\ w.token = tabs[p].token /\ ~ w.init /\ w.token <= token'
    BY <1>1, <1>3, <1>5, <1>9
  <2>2. RowOK(p)'
    BY <1>10, <1>11, <2>1 DEF RowOK
  <2>. QED BY <1>1, <1>11, <2>1, <2>2 DEF Comes, IsOpen, Present
<1>. QED BY <1>1, <1>11, <1>12, ComesKeeps

LEMMA SameKeeps ==
  ASSUME SaveInv, UNCHANGED <<world, tabs, online, journal, history, net, edits>>,
         token' \in {token, token + 1}
  PROVE  SaveInv'
<1>1. RowsGo
  BY DEF RowsGo, SaveInv, PagesOK
<1>2. RequestsGo
  BY DEF RequestsGo, Stays, SaveInv, NetOK, RequestOK, IsOpen
<1>3. Grows /\ online' \in BOOLEAN
  BY DEF Grows, SaveInv
<1>. QED BY <1>1, <1>2, <1>3, JournalStays, EditBound, AllGo

LEMMA TakeAwayKeeps == ASSUME SaveInv, TakeAway PROVE SaveInv'
BY SameKeeps DEF TakeAway

LEMMA OfflineMoves ==
  ASSUME NEW x, Able(x)
  PROVE  LET y == Emitted([x EXCEPT !.state = "offline"]) IN Moved(x, y) /\ Calm(y) /\ y.flight = x.flight
<1>. DEFINE z == [x EXCEPT !.state = "offline"]
<1>1. Moved(x, z) /\ Like(x, z)
  BY WordsKnown, StateMoves
<1>. HIDE DEF z
<1>2. Moved(z, Emitted(z)) /\ Like(z, Emitted(z)) /\ Calm(Emitted(z))
  BY <1>1, EmittedMoves DEF Moved
<1>3. Moved(x, Emitted(z))
  BY <1>1, <1>2, MovedTransitive
<1>. QED BY <1>1, <1>2, <1>3 DEF Like, z

LEMMA GoOfflineKeeps ==
  ASSUME SaveInv, GoOffline PROVE SaveInv'
<1>1. /\ net' = net /\ world' = world /\ online' = FALSE /\ history' = history
      /\ token' = token /\ edits' = edits /\ journal' = journal
      /\ tabs' = [p \in Pages |->
           IF IsOpen(p) /\ ~tabs[p].lost /\ tabs[p].queue # <<>>
           THEN Emitted([tabs[p] EXCEPT !.state = "offline"]) ELSE tabs[p]]
  BY DEF GoOffline, server
<1>2. DOMAIN tabs' = Pages
  BY <1>1
<1>3. ASSUME NEW q \in Pages
      PROVE  tabs'[q] = tabs[q] \/ (Turns(q) /\ (tabs[q].flight => SameHead(tabs[q], tabs'[q])))
  <2>0. tabs'[q] = IF IsOpen(q) /\ ~tabs[q].lost /\ tabs[q].queue # <<>> THEN Emitted([tabs[q] EXCEPT !.state = "offline"])
                   ELSE tabs[q]
    BY <1>1
  <2>. SUFFICES ASSUME IsOpen(q), tabs'[q] # tabs[q]
                PROVE  Turns(q) /\ (tabs[q].flight => SameHead(tabs[q], tabs'[q]))
    BY <2>0, Zenon
  <2>1. tabs'[q] = Emitted([tabs[q] EXCEPT !.state = "offline"])
    BY <1>1
  <2>2. Moved(tabs[q], tabs'[q]) /\ Calm(tabs'[q])
    BY <2>1, OpenAble, OfflineMoves
  <2>. QED BY <2>2, OpenAble DEF Moved, Turns, Goes
<1>4. RowsGo
  BY <1>2, <1>3 DEF RowsGo
<1>5. ASSUME NEW r \in net' PROVE Stays(r)
  <2>1. r \in net /\ (r.page # 0 => r.page \in Pages /\ IsOpen(r.page))
    BY <1>1 DEF SaveInv, NetOK, RequestOK
  <2>2. r.page # 0 => IsOpen(r.page)' /\ tabs'[r.page].token = tabs[r.page].token
    <3>1. ASSUME r.page # 0, Turns(r.page)
          PROVE  IsOpen(r.page)' /\ tabs'[r.page].token = tabs[r.page].token
      <4>1. tabs'[r.page] \in Tabs /\ tabs'[r.page].token = tabs[r.page].token
        BY <3>1 DEF Turns, Goes, Able
      <4>. QED BY <4>1 DEF Tabs, IsOpen
    <3>. QED BY <1>3, <2>1, <3>1 DEF IsOpen
  <2>3. r.page # 0 /\ r.kind = "save" => tabs[r.page].flight
    BY <2>1, SaveFlies
  <2>4. r.page # 0 => \/ tabs'[r.page] = tabs[r.page]
                      \/ (tabs[r.page].flight => SameHead(tabs[r.page], tabs'[r.page]))
    BY <1>3, <2>1
  <2>. QED BY <2>1, <2>2, <2>3, <2>4 DEF Stays
<1>6. RequestsGo
  BY <1>5 DEF RequestsGo
<1>7. Grows
  BY <1>1 DEF Grows
<1>. QED BY <1>1, <1>4, <1>6, <1>7, JournalStays, EditBound, AllGo

LEMMA ResumedMoves ==
  ASSUME NEW x, Able(x)
  PROVE  LET y == Emitted(Resumed(x)) IN Moved(x, y) /\ Calm(y)
<1>. DEFINE z == [x EXCEPT !.state = "pending", !.full = FALSE]
            w == Resumed(x)
<1>1. Moved(x, w)
  <2>1. Moved(x, z)
    BY WordsKnown, StateMoves
  <2>2. w = IF ~x.lost /\ (x.state = "offline" \/ x.full) THEN Pump(z, TRUE) ELSE x
    BY DEF Resumed
  <2>. HIDE DEF z, w
  <2>3. Moved(z, Pump(z, TRUE))
    BY <2>1, PumpMoves DEF Moved
  <2>4. Moved(x, x)
    BY DEF Able, Moved, SameHead
  <2>. QED BY <2>1, <2>2, <2>3, <2>4, MovedTransitive
<1>. HIDE DEF w
<1>2. Moved(w, Emitted(w)) /\ Calm(Emitted(w))
  BY <1>1, EmittedMoves DEF Moved
<1>. QED BY <1>1, <1>2, MovedTransitive DEF w

LEMMA GoOnlineKeeps ==
  ASSUME SaveInv, GoOnline PROVE SaveInv'
<1>1. /\ world' = world /\ online' = TRUE /\ history' = history
      /\ token' = token /\ edits' = edits /\ journal' = journal
      /\ net' = net \cup UNION {Sent(p, tabs[p], tabs'[p]) : p \in OpenPages}
      /\ tabs' = [p \in Pages |->
       IF IsOpen(p) /\ Resumed(tabs[p]) # tabs[p] THEN Emitted(Resumed(tabs[p])) ELSE tabs[p]]
  BY DEF GoOnline, server, counters
<1>2. DOMAIN tabs' = Pages
  BY <1>1
<1>3. ASSUME NEW q \in Pages
      PROVE  tabs'[q] = tabs[q] \/ (Turns(q) /\ (tabs[q].flight => SameHead(tabs[q], tabs'[q])))
  <2>0. tabs'[q] = IF IsOpen(q) /\ Resumed(tabs[q]) # tabs[q] THEN Emitted(Resumed(tabs[q]))
                   ELSE tabs[q]
    BY <1>1
  <2>. SUFFICES ASSUME IsOpen(q), tabs'[q] # tabs[q]
                PROVE  Turns(q) /\ (tabs[q].flight => SameHead(tabs[q], tabs'[q]))
    BY <2>0, Zenon
  <2>1. tabs'[q] = Emitted(Resumed(tabs[q]))
    BY <1>1
  <2>2. Moved(tabs[q], tabs'[q]) /\ Calm(tabs'[q])
    BY <2>1, OpenAble, ResumedMoves
  <2>. QED BY <2>2, OpenAble DEF Moved, Turns, Goes
<1>4. RowsGo
  BY <1>2, <1>3 DEF RowsGo
<1>5. ASSUME NEW r \in net PROVE Stays(r)
  <2>1. r \in net /\ (r.page # 0 => r.page \in Pages /\ IsOpen(r.page))
    BY <1>1 DEF SaveInv, NetOK, RequestOK
  <2>2. r.page # 0 => IsOpen(r.page)' /\ tabs'[r.page].token = tabs[r.page].token
    <3>1. ASSUME r.page # 0, Turns(r.page)
          PROVE  IsOpen(r.page)' /\ tabs'[r.page].token = tabs[r.page].token
      <4>1. tabs'[r.page] \in Tabs /\ tabs'[r.page].token = tabs[r.page].token
        BY <3>1 DEF Turns, Goes, Able
      <4>. QED BY <4>1 DEF Tabs, IsOpen
    <3>. QED BY <1>3, <2>1, <3>1 DEF IsOpen
  <2>3. r.page # 0 /\ r.kind = "save" => tabs[r.page].flight
    BY <2>1, SaveFlies
  <2>4. r.page # 0 => \/ tabs'[r.page] = tabs[r.page]
                      \/ (tabs[r.page].flight => SameHead(tabs[r.page], tabs'[r.page]))
    BY <1>3, <2>1
  <2>. QED BY <2>1, <2>2, <2>3, <2>4 DEF Stays
<1>6. ASSUME NEW p \in OpenPages, NEW r \in Sent(p, tabs[p], tabs'[p])
      PROVE  Begins(r, p)
  <2>1. p \in Pages /\ p # 0
    BY AutosaveAssumption DEF OpenPages, Pages
  <2>2. tabs'[p].flight /\ ~ tabs[p].flight /\ r = Request(p, "save", tabs'[p], Head(tabs'[p].queue))
    BY <1>6 DEF Sent
  <2>3. Turns(p)
    BY <1>3, <2>1, <2>2
  <2>4. \A s \in net' : s \in net /\ s.kind = "save" => s.page # p
    BY <2>1, <2>2, SaveFlies
  <2>. QED BY <2>2, <2>3, <2>4 DEF Begins
<1>7. RequestsGo
  BY <1>1, <1>5, <1>6 DEF RequestsGo, OpenPages
<1>8. Grows
  BY <1>1 DEF Grows
<1>. QED BY <1>1, <1>4, <1>7, <1>8, JournalStays, EditBound, AllGo

\* a page hears of the end of its request, and may send the next one
LEMMA EndKeeps ==
  ASSUME SaveInv, NEW r \in net, r.page # 0, NEW y,
         Able(y), y.token = tabs[r.page].token, y.init = tabs[r.page].init,
         Live(r.page) \/ ~ tabs[r.page].init => Sound(y),
         tabs' = [tabs EXCEPT ![r.page] = Emitted(y)],
         r.kind = "save" \/ ~ tabs[r.page].flight,
         \A s \in net' : \/ s \in net /\ s # r
                         \/ Orphaned(s)
                         \/ /\ s = Request(r.page, "save", y, Head(y.queue)) /\ y.flight
                            /\ r.kind = "save" /\ r \notin net',
         world' = world, online' = online, history' = history, token' = token,
         edits' = edits, journal' = journal
  PROVE  SaveInv'
<1>. DEFINE p == r.page
            z == Emitted(y)
<1>1. p \in Pages /\ IsOpen(p) /\ RequestOK(r)
  BY DEF SaveInv, NetOK, RequestOK
<1>2. Moved(y, z) /\ Like(y, z) /\ Calm(z)
  BY EmittedMoves
<1>. HIDE DEF z
<1>3. Goes(tabs[p], z) /\ z.init = tabs[p].init /\ (Live(p) \/ ~ tabs[p].init => Sound(z))
  BY <1>2 DEF Goes, Moved
<1>4. ASSUME NEW s \in net, s.kind = "save", s.page = p, s # r PROVE FALSE
  <2>1. tabs[p].flight
    BY <1>1, <1>4, SaveFlies
  <2>2. r.kind = "save"
    BY <2>1
  <2>. QED BY <1>1, <1>4, <2>2 DEF SaveInv, NetOK
<1>5. ASSUME NEW s \in net'
      PROVE  \/ s \in net /\ (s.kind = "save" /\ s.page = p => SameHead(tabs[p], z))
             \/ Orphaned(s)
             \/ /\ z.flight /\ s = Request(p, "save", z, Head(z.queue))
                /\ \A t \in net' : t \in net /\ t.kind = "save" => t.page # p
  <2>1. CASE s \in net /\ s # r
    BY <1>4, <2>1
  <2>2. CASE /\ s = Request(r.page, "save", y, Head(y.queue)) /\ y.flight
             /\ r.kind = "save" /\ r \notin net'
    <3>1. s = Request(p, "save", z, Head(z.queue)) /\ z.flight
      BY <1>2, <2>2 DEF Like, Request
    <3>2. \A t \in net' : t \in net /\ t.kind = "save" => t.page # p
      BY <1>4, <2>2
    <3>. QED BY <3>1, <3>2
  <2>. QED BY <2>1, <2>2
<1>6. tabs' = [tabs EXCEPT ![p] = z]
  BY DEF z
<1>7. RowsGo /\ RequestsGo
  BY <1>1, <1>3, <1>5, <1>6, OneGoes
<1>8. Grows /\ online' \in BOOLEAN
  BY DEF Grows, SaveInv
<1>. QED BY <1>7, <1>8, JournalStays, EditBound, AllGo

LEMMA HearKeeps ==
  ASSUME SaveInv, NEW r \in net, Hear(r) PROVE SaveInv'
<1>. DEFINE p == r.page
            x == tabs[p]
            y == IF r.answer = "saved" THEN Acknowledge(x, r.rev) ELSE Fail(x, r.answer)
<1>1. /\ r.kind = "save" /\ p # 0 /\ r.answer \notin {"none", "committed"}
      /\ world' = world /\ online' = online /\ history' = history
      /\ token' = token /\ edits' = edits /\ journal' = journal
      /\ tabs' = [tabs EXCEPT ![p] = Emitted(y)]
      /\ net' = (net \ {r}) \cup Sent(p, [x EXCEPT !.flight = FALSE], y)
  BY DEF Hear, server, counters
<1>2. /\ x.flight /\ p \in Pages /\ IsOpen(p) /\ Carries(r, x) /\ RequestOK(r) /\ r \in Requests
  BY <1>1, SaveFlies DEF SaveInv, NetOK
<1>3. Able(x) /\ x \in Tabs /\ x.init /\ (Live(p) => Sound(x)) /\ online \in BOOLEAN
  BY <1>2, OpenAble DEF SaveInv, Fit
<1>4. Able(y) /\ y.token = x.token /\ y.init = x.init /\ (Live(p) => Sound(y))
  <2>1. CASE r.answer = "saved"
    <3>1. r.rev \in DOMAIN history /\ (Live(p) => history[r.rev].doc = x.queue[1].doc)
      BY <1>1, <1>2, <2>1 DEF RequestOK, Carries
    <3>2. y = Acknowledge(x, r.rev)
      BY <2>1
    <3>. HIDE DEF y
    <3>. QED BY <1>2, <1>3, <3>1, <3>2, AcknowledgeEnds
  <2>2. CASE r.answer # "saved"
    <3>1. r.answer \in {"authority", "conflict", "invalid", "failure"}
      BY <1>1, <1>2, <2>2 DEF Requests, Answers
    <3>2. r.answer = "invalid" => Bad # {}
      BY <1>2 DEF RequestOK
    <3>3. y = Fail(x, r.answer)
      BY <2>2
    <3>4. MaxRetries \in Nat
      BY AutosaveAssumption
    <3>. HIDE DEF y
    <3>5. Ended(x, y)
      BY <1>2, <1>3, <3>1, <3>2, <3>3, <3>4, FailEnds
    <3>. QED BY <1>3, <3>5 DEF Ended
  <2>. QED BY <2>1, <2>2
<1>. HIDE DEF y
<1>5. \A s \in net' : \/ s \in net /\ s # r
                      \/ Orphaned(s)
                      \/ /\ s = Request(p, "save", y, Head(y.queue)) /\ y.flight
                         /\ r.kind = "save" /\ r \notin net'
  <2>1. ASSUME NEW s \in Sent(p, [x EXCEPT !.flight = FALSE], y)
        PROVE  s = Request(p, "save", y, Head(y.queue)) /\ y.flight
    BY <2>1 DEF Sent
  <2>2. r \notin Sent(p, [x EXCEPT !.flight = FALSE], y)
    <3>1. \A s \in Sent(p, [x EXCEPT !.flight = FALSE], y) : s.answer = "none"
      BY DEF Sent, Request
    <3>. QED BY <1>1, <3>1
  <2>. QED BY <1>1, <2>1, <2>2
<1>. QED BY <1>1, <1>3, <1>4, <1>5, EndKeeps

LEMMA LoseKeeps ==
  ASSUME SaveInv, NEW r \in net, Lose(r) PROVE SaveInv'
<1>. DEFINE p == r.page
            x == tabs[p]
<1>1. /\ p # 0 /\ world' = world /\ online' = online /\ history' = history
      /\ token' = token /\ edits' = edits /\ journal' = journal
  BY DEF Lose, server
<1>2. p \in Pages /\ IsOpen(p) /\ RequestOK(r) /\ DOMAIN tabs = Pages
  BY <1>1 DEF SaveInv, NetOK, RequestOK, PagesOK
<1>3. Able(x) /\ Calm(x) /\ (Live(p) \/ ~ x.init => Sound(x)) /\ online \in BOOLEAN
  BY <1>2, OpenAble DEF SaveInv
<1>4. \A s \in net' : (s \in net /\ s # r) \/ Orphaned(s)
  <2>1. PICK late \in {{}, Orphan(r)} : net' = (net \ {r}) \cup late
    BY DEF Lose
  <2>2. \A s \in Orphan(r) : Orphaned(s)
    BY DEF Orphan, Orphaned
  <2>. QED BY <2>1, <2>2
<1>5. CASE r.kind = "save"
  <2>. DEFINE y == Fail(x, "failure")
  <2>1. tabs' = [tabs EXCEPT ![p] = Emitted(y)]
    BY <1>2, <1>5 DEF Lose
  <2>2. x.flight /\ MaxRetries \in Nat
    BY <1>1, <1>5, SaveFlies, AutosaveAssumption
  <2>3. Ended(x, y)
    BY <1>3, <2>2, FailEnds
  <2>. HIDE DEF y
  <2>. QED BY <1>1, <1>3, <1>4, <1>5, <2>1, <2>3, EndKeeps DEF Ended
<1>6. CASE r.kind # "save"
  <2>. DEFINE y == [x EXCEPT !.mutation = "no"]
  <2>1. tabs' = [tabs EXCEPT ![p] = y]
    BY <1>2, <1>6 DEF Lose
  <2>2. Moved(x, y)
    BY <1>3, WordsKnown, FlagMoves
  <2>3. y.mutation = "no"
    BY <1>3 DEF Able, Tabs
  <2>. HIDE DEF y
  <2>4. Calm(y)
    BY <2>3 DEF Calm
  <2>5. JournalOK' /\ Taken
    BY <1>1, EditBound, HistoryKept, JournalStays DEF SaveInv
  <2>6. \A s \in net' : /\ s \in net \/ Orphaned(s)
                        /\ s \in net /\ s.kind = "save" /\ s.page = p => tabs[p].flight
    BY <1>1, <1>4, SaveFlies
  <2>. QED BY <1>1, <1>2, <1>3, <2>1, <2>2, <2>4, <2>5, <2>6, EditBound, PlainMoves
<1>. QED BY <1>5, <1>6

LEMMA HearChangeKeeps ==
  ASSUME SaveInv, NEW r \in net, HearChange(r) PROVE SaveInv'
<1>. DEFINE p == r.page
            x == tabs[p]
            y == [x EXCEPT !.mutation = "no"]
            adopt == r.answer = "saved" /\ x.mutation = "sent"
            z == ReplaceWithLatest(y, r.rev)
<1>1. /\ r.kind = "change" /\ p # 0 /\ net' = net \ {r}
      /\ world' = world /\ online' = online /\ history' = history
      /\ token' = token /\ edits' = edits /\ journal' = journal
      /\ tabs' = [tabs EXCEPT ![p] = IF adopt THEN Emitted(z) ELSE y]
  BY DEF HearChange, server, counters
<1>2. p \in Pages /\ IsOpen(p) /\ RequestOK(r) /\ DOMAIN tabs = Pages
  BY <1>1 DEF SaveInv, NetOK, RequestOK, PagesOK
<1>3. /\ Able(x) /\ x \in Tabs /\ Calm(x) /\ (Live(p) \/ ~ x.init => Sound(x)) /\ online \in BOOLEAN
  BY <1>2, OpenAble DEF SaveInv
<1>4. Moved(x, y) /\ y.mutation = "no" /\ y.flight = x.flight
  <2>1. Moved(x, y)
    BY <1>3, WordsKnown, FlagMoves
  <2>2. y.mutation = "no" /\ y.flight = x.flight
    BY <1>3 DEF Tabs
  <2>. QED BY <2>1, <2>2
<1>. HIDE DEF y
<1>5. CASE adopt
  <2>1. x.init /\ ~ x.flight
    BY <1>3, <1>5 DEF Calm, Able, Fit
  <2>2. r.rev \in DOMAIN history
    BY <1>2, <1>5 DEF RequestOK
  <2>3. Ended(y, z)
    BY <1>4, <2>1, <2>2, ReplaceEnds DEF Moved
  <2>. HIDE DEF z
  <2>4. Able(z) /\ z.token = x.token /\ z.init = x.init /\ (Sound(x) => Sound(z))
    BY <1>4, <2>3 DEF Moved, Ended
  <2>5. tabs' = [tabs EXCEPT ![p] = Emitted(z)]
    BY <1>1, <1>5
  <2>. QED BY <1>1, <1>3, <2>1, <2>4, <2>5, EndKeeps
<1>6. CASE ~ adopt
  <2>1. tabs' = [tabs EXCEPT ![p] = y] /\ Calm(y)
    BY <1>1, <1>4, <1>6 DEF Calm
  <2>2. JournalOK' /\ Taken
    BY <1>1, EditBound, HistoryKept, JournalStays DEF SaveInv
  <2>3. \A s \in net' : /\ s \in net \/ Orphaned(s)
                        /\ s \in net /\ s.kind = "save" /\ s.page = p => tabs[p].flight
    BY <1>1, SaveFlies
  <2>. QED BY <1>1, <1>2, <1>3, <1>4, <2>1, <2>2, <2>3, EditBound, PlainMoves
<1>. QED BY <1>5, <1>6

LEMMA SendChangeKeeps ==
  ASSUME SaveInv, NEW p \in Pages, SendChange(p) PROVE SaveInv'
<1>. DEFINE x == tabs[p]
            y == [x EXCEPT !.mutation = "sent"]
            e == Entry(Key(edits'), x.doc \cup {edits'}, x.draft, TRUE)
            n == Request(p, "change", x, e)
<1>1. /\ IsOpen(p) /\ x.mutation = "checking" /\ x.token = token
      /\ edits < world.edits /\ edits' = edits + 1 /\ net' = net \cup {n}
      /\ world' = world /\ online' = online /\ journal' = journal /\ history' = history
      /\ token' = token
  BY DEF SendChange, server
<1>2. tabs' = [tabs EXCEPT ![p] = y] /\ DOMAIN tabs = Pages
  BY DEF SendChange, SaveInv, PagesOK
<1>3. /\ Able(x) /\ x \in Tabs /\ Calm(x) /\ Live(p) /\ Sound(x) /\ online \in BOOLEAN
      /\ x.queue = <<>> /\ x.init /\ ~ x.flight
  <2>1. Live(p)
    BY <1>1 DEF Live
  <2>2. Able(x) /\ x \in Tabs /\ Calm(x) /\ Sound(x)
    BY <1>1, <2>1, OpenAble
  <2>3. x.queue = <<>> /\ x.init
    BY <1>1, <2>2 DEF Calm
  <2>. QED BY <2>1, <2>2, <2>3 DEF SaveInv, Able, Fit
<1>4. /\ n.page = p /\ n.kind = "change" /\ n.token = token /\ n.answer = "none"
      /\ n.doc = x.doc \cup {edits'} /\ n.base = x.draft /\ n.key = edits'
      /\ n = [page |-> p, kind |-> "change", key |-> edits', doc |-> x.doc \cup {edits'},
              base |-> x.draft, token |-> token, answer |-> "none", rev |-> 0]
  BY <1>1 DEF Request, Entry, Key
<1>5. edits' \in 1..MaxEdits /\ edits' \in 0..world.edits /\ edits' \in Nat \ {0}
  BY <1>1, EditBound
<1>6. p \in Nat /\ p # 0
  BY AutosaveAssumption DEF Pages
<1>7. n \in Requests
  <2>1. x.doc \cup {edits'} \in Document
    BY <1>3, <1>5, EditBound DEF Tabs
  <2>2. x.draft \in Nat /\ token \in Nat
    BY <1>3 DEF Tabs, SaveInv, HistoryOK
  <2>. HIDE DEF n
  <2>. QED BY <1>4, <1>5, <1>6, <2>1, <2>2 DEF Requests, Answers
<1>. HIDE DEF n
<1>8. Stands(n.doc, n.base)
  BY <1>3, <1>4 DEF Sound, Stands, Able, Fit
<1>9. Moved(x, y) /\ y.queue = x.queue /\ y.init = x.init
  BY <1>3, WordsKnown, FlagMoves
<1>. HIDE DEF y
<1>10. Calm(y) /\ Sound(y) /\ y.token = x.token /\ y \in Tabs
  BY <1>3, <1>9 DEF Calm, Moved, Able
<1>11. tabs'[p] = y /\ \A q \in Pages \ {p} : tabs'[q] = tabs[q]
  BY <1>2
<1>12. Turns(p)
  BY <1>1, <1>3, <1>9, <1>10, <1>11 DEF Turns, Goes, Moved
<1>13. RowsGo
  BY <1>2, <1>11, <1>12 DEF RowsGo
<1>14. HistoryOK' /\ Grows /\ JournalOK' /\ Taken
  BY <1>1, <1>5, HistoryKept, JournalStays DEF SaveInv
<1>15. PagesOK'
  BY <1>13, <1>14, PagesGo
<1>16. ASSUME NEW r \in net PROVE Stays(r)
  <2>1. r.page # 0 => r.page \in Pages /\ IsOpen(r.page)
    BY DEF SaveInv, NetOK, RequestOK
  <2>2. y.page = "open"
    BY <1>10 DEF Tabs
  <2>3. r.page # 0 /\ r.kind = "save" => r.page # p
    BY <1>3, SaveFlies
  <2>. QED BY <1>10, <1>11, <2>1, <2>2, <2>3 DEF Stays, IsOpen
<1>17. ASSUME NEW r \in net, Done(r), Live(r.page)' PROVE FALSE
  <2>1. r.page # 0 /\ r.kind = "save" /\ RequestOK(r) /\ DoneOK(r)
    BY <1>17 DEF Done, RequestOK, SaveInv, NetOK
  <2>2. Live(r.page)
    BY <1>14, <1>16, <1>17, <2>1, RequestStays
  <2>3. r.page \in Pages /\ IsOpen(r.page) /\ tabs[r.page].token = r.token /\ tabs[r.page].flight
    BY <2>1, SaveFlies DEF RequestOK
  <2>4. r.page # p
    BY <1>3, <2>3
  <2>5. r.token # token
    BY <1>1, <2>3, <2>4 DEF SaveInv, PagesOK, Present, IsOpen
  <2>. QED BY <1>1, <1>3, <2>1, <2>2, <2>5 DEF DoneOK
<1>18. PICK m : m = n
  OBVIOUS
<1>19. /\ m.page = p /\ m.kind = "change" /\ m.token = token /\ m.answer = "none"
       /\ m \in Requests /\ Stands(m.doc, m.base) /\ net' = net \cup {m}
  BY <1>1, <1>4, <1>7, <1>8, <1>18
<1>20. RequestOK(m)'
  <2>1. token \in Nat /\ m.token <= token'
    BY <1>1, <1>19 DEF SaveInv, HistoryOK
  <2>2. Stands(m.doc, m.base)'
    BY <1>14, <1>19, StandsKept
  <2>3. IsOpen(p)' /\ tabs'[p].token = token
    BY <1>1, <1>10, <1>11 DEF IsOpen, Tabs
  <2>4. Pages' = Pages
    BY DEF Pages
  <2>. QED BY <1>19, <2>1, <2>2, <2>3, <2>4 DEF RequestOK
<1>21. NetOK'
  <2>1. \A r \in net : RequestOK(r)'
    BY <1>14, <1>16, RequestStays
  <2>2. \A r \in net' : r \in Requests /\ RequestOK(r)'
    BY <1>19, <1>20, <2>1 DEF SaveInv, NetOK
  <2>3. \A r \in net' : Done(r) => DoneOK(r)'
    BY <1>17, <1>19 DEF Done, DoneOK
  <2>4. \A r, s \in net' : r.kind = "save" /\ s.kind = "save" /\ r.page = s.page /\ r.page # 0 => r = s
    BY <1>19 DEF SaveInv, NetOK
  <2>5. Requests' = Requests
    BY DEF Requests, Answers
  <2>. QED BY <2>2, <2>3, <2>4, <2>5 DEF NetOK, Done
<1>. QED BY <1>1, <1>3, <1>14, <1>15, <1>21 DEF SaveInv

LEMMA NothingMoves ==
  ASSUME SaveInv, Grows, tabs' = tabs, journal' = journal
  PROVE  PagesOK' /\ JournalOK' /\ Taken /\ \A r \in net : Stays(r) /\ RequestOK(r)'
<1>1. RowsGo
  BY DEF RowsGo, SaveInv, PagesOK
<1>2. JournalOK' /\ Taken
  BY JournalStays
<1>3. \A r \in net : Stays(r)
  BY DEF Stays, SaveInv, NetOK, RequestOK, IsOpen
<1>. QED BY <1>1, <1>2, <1>3, PagesGo, RequestStays

LEMMA Appended ==
  ASSUME HistoryOK, NEW e \in Revisions, history' = Append(history, e), world' = world,
         token' \in {token, token + 1}, edits' \in 0..world.edits,
         e.doc \cap Bad = {}, Last(history).doc \subseteq e.doc,
         e.key = Elsewhere \/ \A i \in DOMAIN history : history[i].key # e.key
  PROVE  HistoryOK' /\ Grows /\ Len(history') = Len(history) + 1 /\ Last(history)' = e
<1>. DEFINE n == Len(history)
<1>1. /\ history \in Seq(Revisions) /\ n \in Nat \ {0} /\ DOMAIN history = 1..n
      /\ history # <<>> /\ n \in DOMAIN history
  BY InQueue DEF HistoryOK
<1>2. /\ history' \in Seq(Revisions) /\ DOMAIN history' = 1..(n + 1) /\ Len(history') = n + 1
      /\ history' # <<>> /\ history'[n + 1] = e
      /\ \A i \in DOMAIN history : history'[i] = history[i]
  BY <1>1
<1>. HIDE DEF n
<1>3. Grows
  BY <1>1, <1>2 DEF Grows
<1>4. Bad' = Bad
  BY DEF Bad
<1>5. \A i \in DOMAIN history' : i \in DOMAIN history \/ i = n + 1
  BY <1>1, <1>2
<1>6. \A i \in DOMAIN history' : history'[i].doc \cap Bad = {}
  BY <1>2, <1>5 DEF HistoryOK
<1>7. ASSUME NEW i \in DOMAIN history', NEW j \in DOMAIN history',
             history'[i].key = history'[j].key, history'[i].key # Elsewhere
      PROVE  i = j
  <2>1. CASE i \in DOMAIN history /\ j \in DOMAIN history
    BY <1>2, <1>7, <2>1 DEF HistoryOK
  <2>2. CASE i = n + 1 /\ j \in DOMAIN history
    BY <1>2, <1>7, <2>2
  <2>3. CASE j = n + 1 /\ i \in DOMAIN history
    BY <1>2, <1>7, <2>3
  <2>. QED BY <1>5, <2>1, <2>2, <2>3
<1>8. NothingOverwritten'
  <2>1. ASSUME NEW i \in 1..n PROVE history'[i].doc \subseteq history'[i + 1].doc
    <3>1. CASE i = n
      BY <1>1, <1>2, <3>1 DEF Last, n
    <3>2. CASE i # n
      <4>1. i \in 1..(n - 1) /\ i + 1 \in 1..n
        BY <1>1, <3>2
      <4>. QED BY <1>1, <1>2, <4>1 DEF HistoryOK, NothingOverwritten, n
    <3>. QED BY <3>1, <3>2
  <2>2. Len(history') - 1 = n
    BY <1>1, <1>2
  <2>. QED BY <2>1, <2>2 DEF NothingOverwritten
<1>9. Last(history)' = e
  BY <1>1, <1>2 DEF Last
<1>10. world' \in Worlds /\ token' \in Nat
  BY DEF HistoryOK
<1>. QED BY <1>2, <1>3, <1>4, <1>6, <1>7, <1>8, <1>9, <1>10 DEF HistoryOK, Revisions, n

LEMMA NetSteady ==
  ASSUME SaveInv, NEW r \in net, Done(r), Live(r.page)
  PROVE  /\ r.page # 0 /\ r.base \in Nat
         /\ Len(history) = r.base + 1 /\ Last(history).doc = r.doc
         /\ \A s \in net : s.token = r.token => s.base <= r.base
         /\ r.token # token =>
              /\ \A q \in Pages : IsOpen(q) /\ tabs[q].token = token => ~ tabs[q].init
              /\ \A s \in net : s.token # token
BY DEF SaveInv, NetOK, DoneOK, Done, RequestOK, Requests

\* nothing is committed behind the back of a save whose second getDraft is still to come
LEMMA NobodyBehind ==
  ASSUME SaveInv, NEW r \in net, NEW s \in net, Done(s), Live(s.page),
         r.token = token, r.base = Len(history)
  PROVE  FALSE
<1>1. s.base \in Nat /\ Len(history) = s.base + 1
  BY NetSteady
<1>2. r.token # s.token
  <2>1. r.token = s.token => r.base <= s.base
    BY NetSteady
  <2>. QED BY <1>1, <2>1
<1>. QED BY <1>2, NetSteady

LEMMA ServeKeeps ==
  ASSUME SaveInv, NEW r \in net, Serve(r) PROVE SaveInv'
<1>1. /\ r.answer = "none"
      /\ world' = world /\ tabs' = tabs /\ online' = online /\ journal' = journal
      /\ token' = token /\ edits' = edits
  BY DEF Serve, counters
<1>2. PICK v : v = Verdict(r)
  OBVIOUS
<1>3. PICK e : e = [doc |-> r.doc, key |-> r.key, kind |-> r.kind]
  OBVIOUS
<1>4. PICK n : n = IF v = "saved" THEN CHOOSE i \in Written(r) : TRUE ELSE 0
  OBVIOUS
<1>5. PICK a : a = [r EXCEPT !.answer = v, !.rev = n]
  OBVIOUS
<1>6. /\ history' = IF v = "committed" THEN Append(history, e) ELSE history
      /\ net' = (net \ {r}) \cup (IF r.page = 0 THEN {} ELSE {a})
  BY <1>2, <1>3, <1>4, <1>5 DEF Serve
<1>7. r \in Requests /\ RequestOK(r) /\ HistoryOK
  BY DEF SaveInv, NetOK
<1>8. \/ v = "invalid" /\ Bad # {}
      \/ v = "authority" \/ v = "conflict"
      \/ v = "saved" /\ \E i \in Written(r) : SameInput(r, i)
      \/ /\ v = "committed" /\ r.doc \cap Bad = {} /\ r.token = token /\ r.base = Len(history)
         /\ Written(r) = {}
  BY <1>2 DEF Verdict
<1>9. v \in Answers
  BY <1>8 DEF Answers
<1>10. v = "saved" => n \in DOMAIN history /\ history[n].doc = r.doc
  <2>. SUFFICES ASSUME v = "saved" PROVE n \in DOMAIN history /\ history[n].doc = r.doc
    OBVIOUS
  <2>1. PICK i \in Written(r) : SameInput(r, i)
    BY <1>8
  <2>2. n \in Written(r)
    BY <1>4, <2>1
  <2>3. r.key # Elsewhere
    BY <1>7 DEF Requests, Elsewhere
  <2>4. n = i
    BY <1>7, <2>1, <2>2, <2>3 DEF HistoryOK, Written
  <2>. QED BY <2>1, <2>4 DEF Written, SameInput
<1>11. n \in Nat
  <2>1. DOMAIN history = 1..Len(history)
    BY <1>7 DEF HistoryOK
  <2>. QED BY <1>4, <1>10, <2>1
<1>12. /\ a \in Requests /\ a.page = r.page /\ a.kind = r.kind /\ a.key = r.key /\ a.doc = r.doc
       /\ a.base = r.base /\ a.token = r.token /\ a.answer = v /\ a.rev = n
  BY <1>5, <1>7, <1>9, <1>11 DEF Requests
<1>13. /\ HistoryOK' /\ Grows
       /\ v = "committed" => Len(history') = Len(history) + 1 /\ Last(history)' = e
       /\ v # "committed" => history' = history
  <2>1. CASE v # "committed"
    BY <1>1, <1>6, <1>7, <2>1, EditBound, HistoryKept
  <2>2. CASE v = "committed"
    <3>1. e \in Revisions /\ e.doc = r.doc /\ e.key = r.key
      <4>1. r.doc \in Document /\ r.key \in Nat /\ r.kind \in {"save", "change", "elsewhere"}
        BY <1>7 DEF Requests
      <4>. QED BY <1>3, <4>1 DEF Revisions
    <3>2. e.doc \cap Bad = {} /\ r.token = token /\ r.base = Len(history) /\ Written(r) = {}
      BY <1>8, <2>2, <3>1
    <3>3. Last(history).doc \subseteq e.doc
      BY <1>7, <3>1, <3>2 DEF RequestOK, Stands, Last
    <3>4. \A i \in DOMAIN history : history[i].key # e.key
      BY <3>1, <3>2 DEF Written
    <3>5. history' = Append(history, e)
      BY <1>6, <2>2
    <3>. QED BY <1>1, <1>7, <2>2, <3>1, <3>2, <3>3, <3>4, <3>5, EditBound, Appended
  <2>. QED BY <2>1, <2>2
<1>14. PagesOK' /\ JournalOK' /\ Taken /\ \A s \in net : Stays(s) /\ RequestOK(s)'
  BY <1>1, <1>13, NothingMoves
<1>15. ASSUME r.page # 0 PROVE RequestOK(a)'
  <2>0. RequestOK(r)'
    BY <1>14
  <2>1. a.token <= token'
    BY <1>12, <2>0 DEF RequestOK
  <2>2. /\ a.page \in Pages' /\ IsOpen(a.page)' /\ tabs'[a.page].token = a.token
        /\ a.kind = "save" => Carries(a, tabs'[a.page])
    BY <1>12, <1>15, <2>0 DEF RequestOK, Carries
  <2>3. a.token = token' => Stands(a.doc, a.base)'
    BY <1>12, <2>0 DEF RequestOK, Stands
  <2>4. a.answer = "invalid" => Bad' # {}
    <3>1. Bad' = Bad
      BY <1>1 DEF Bad
    <3>. QED BY <1>8, <1>12, <3>1
  <2>5. a.answer = "saved" => a.rev \in DOMAIN history' /\ history'[a.rev].doc = a.doc
    BY <1>10, <1>12, <1>13 DEF Grows
  <2>. QED BY <1>12, <1>15, <2>1, <2>2, <2>3, <2>4, <2>5 DEF RequestOK
<1>16. ASSUME NEW s \in net, s # r, Done(s), Live(s.page)' PROVE DoneOK(s)'
  <2>1. Live(s.page)
    BY <1>1, <1>16 DEF Live
  <2>2. v # "committed"
    BY <1>8, <1>16, <2>1, NobodyBehind
  <2>3. history' = history
    BY <1>13, <2>2
  <2>4. \A t \in net' : \E u \in net : t.token = u.token /\ t.base = u.base
    BY <1>6, <1>12
  <2>5. /\ Len(history) = s.base + 1 /\ Last(history).doc = s.doc
        /\ \A t \in net : t.token = s.token => t.base <= s.base
        /\ s.token # token =>
             /\ \A q \in Pages : IsOpen(q) /\ tabs[q].token = token => ~ tabs[q].init
             /\ \A t \in net : t.token # token
    BY <1>16, <2>1, NetSteady
  <2>6. \A t \in net' : t.token = s.token => t.base <= s.base
    BY <2>4, <2>5
  <2>7. s.token # token => \A t \in net' : t.token # token
    BY <2>4, <2>5
  <2>8. s.token # token => \A q \in Pages : IsOpen(q) /\ tabs[q].token = token => ~ tabs[q].init
    BY <2>5
  <2>9. Last(history)'.doc = s.doc /\ Len(history') = s.base + 1
    BY <2>3, <2>5 DEF Last
  <2>10. Pages' = Pages /\ \A q \in Pages : IsOpen(q)' = IsOpen(q)
    BY <1>1 DEF Pages, IsOpen
  <2>. QED BY <1>1, <2>6, <2>7, <2>8, <2>9, <2>10 DEF DoneOK
<1>17. ASSUME r.page # 0, Done(a), Live(a.page)' PROVE DoneOK(a)'
  <2>1. v = "committed" /\ r.kind = "save"
    BY <1>12, <1>17 DEF Done
  <2>2. r.token = token /\ r.base = Len(history)
    BY <1>8, <2>1
  <2>3. Len(history') = a.base + 1 /\ Last(history)'.doc = a.doc
    BY <1>3, <1>12, <1>13, <2>1, <2>2
  <2>4. ASSUME NEW t \in net', t.token = a.token PROVE t.base <= a.base
    <3>1. \E u \in net : t.token = u.token /\ t.base = u.base
      BY <1>6, <1>12
    <3>2. PICK u \in net : t.token = u.token /\ t.base = u.base
      BY <3>1
    <3>3. Stands(u.doc, u.base)
      BY <1>12, <2>2, <2>4, <3>2 DEF SaveInv, NetOK, RequestOK
    <3>4. DOMAIN history = 1..Len(history) /\ Len(history) \in Nat
      BY <1>7 DEF HistoryOK
    <3>. QED BY <1>12, <2>2, <3>2, <3>3, <3>4 DEF Stands
  <2>. QED BY <1>1, <1>12, <2>2, <2>3, <2>4 DEF DoneOK
<1>18. NetOK'
  <2>1. \A s \in net' : s \in Requests /\ RequestOK(s)'
    BY <1>6, <1>12, <1>14, <1>15 DEF SaveInv, NetOK
  <2>2. \A s \in net' : Done(s) => DoneOK(s)'
    BY <1>6, <1>16, <1>17 DEF DoneOK
  <2>3. \A s, t \in net' : s.kind = "save" /\ t.kind = "save" /\ s.page = t.page /\ s.page # 0 => s = t
    <3>1. \A s, t \in net : s.kind = "save" /\ t.kind = "save" /\ s.page = t.page /\ s.page # 0 => s = t
      BY DEF SaveInv, NetOK
    <3>. QED BY <1>6, <1>12, <3>1
  <2>4. Requests' = Requests
    BY DEF Requests, Answers
  <2>. QED BY <2>1, <2>2, <2>3, <2>4 DEF NetOK, Done
<1>. QED BY <1>1, <1>13, <1>14, <1>18 DEF SaveInv

LEMMA ReadBackKeeps ==
  ASSUME SaveInv, NEW r \in net, ReadBack(r) PROVE SaveInv'
<1>1. /\ r.answer = "committed"
      /\ world' = world /\ tabs' = tabs /\ online' = online /\ journal' = journal
      /\ token' = token /\ edits' = edits /\ history' = history
  BY DEF ReadBack, counters, server
<1>2. PICK n : n = Len(history)
  OBVIOUS
<1>3. PICK a : a = [r EXCEPT !.answer = "saved", !.rev = n]
  OBVIOUS
<1>4. net' = (net \ {r}) \cup {a}
  BY <1>2, <1>3 DEF ReadBack
<1>5. r \in Requests /\ RequestOK(r) /\ HistoryOK
  BY DEF SaveInv, NetOK
<1>6. n \in DOMAIN history /\ n \in Nat
  BY <1>2, <1>5, InQueue DEF HistoryOK
<1>7. /\ a \in Requests /\ a.page = r.page /\ a.kind = r.kind /\ a.key = r.key /\ a.doc = r.doc
      /\ a.base = r.base /\ a.token = r.token /\ a.answer = "saved" /\ a.rev = n
  BY <1>3, <1>5, <1>6 DEF Requests, Answers
<1>8. HistoryOK' /\ Grows
  BY <1>1, <1>5, EditBound, HistoryKept
<1>9. PagesOK' /\ JournalOK' /\ Taken /\ \A s \in net : Stays(s) /\ RequestOK(s)'
  BY <1>1, <1>8, NothingMoves
<1>10. r.kind = "save" /\ Live(r.page) => history[n].doc = r.doc
  BY <1>1, <1>2, NetSteady DEF Done, Last
<1>11. RequestOK(a)'
  <2>0. RequestOK(r)'
    BY <1>9
  <2>1. a.token <= token' /\ a.page # 0
    BY <1>1, <1>5, <1>7, <2>0 DEF RequestOK
  <2>2. /\ a.page \in Pages' /\ IsOpen(a.page)' /\ tabs'[a.page].token = a.token
        /\ a.kind = "save" => Carries(a, tabs'[a.page])
    BY <1>7, <2>0, <2>1 DEF RequestOK, Carries
  <2>3. a.token = token' => Stands(a.doc, a.base)'
    BY <1>7, <2>0 DEF RequestOK, Stands
  <2>4. a.rev \in DOMAIN history' /\ (a.kind = "save" /\ Live(a.page)' => history'[a.rev].doc = a.doc)
    BY <1>1, <1>6, <1>7, <1>10 DEF Live
  <2>. QED BY <1>7, <2>1, <2>2, <2>3, <2>4 DEF RequestOK
<1>12. ASSUME NEW s \in net, Done(s), Live(s.page)' PROVE DoneOK(s)'
  <2>1. Live(s.page)
    BY <1>1, <1>12 DEF Live
  <2>2. \A t \in net' : \E u \in net : t.token = u.token /\ t.base = u.base
    BY <1>4, <1>7
  <2>3. /\ Len(history) = s.base + 1 /\ Last(history).doc = s.doc
        /\ \A t \in net : t.token = s.token => t.base <= s.base
        /\ s.token # token =>
             /\ \A q \in Pages : IsOpen(q) /\ tabs[q].token = token => ~ tabs[q].init
             /\ \A t \in net : t.token # token
    BY <1>12, <2>1, NetSteady
  <2>4. \A t \in net' : t.token = s.token => t.base <= s.base
    BY <2>2, <2>3
  <2>5. s.token # token => \A t \in net' : t.token # token
    BY <2>2, <2>3
  <2>6. s.token # token => \A q \in Pages : IsOpen(q) /\ tabs[q].token = token => ~ tabs[q].init
    BY <2>3
  <2>7. Last(history)'.doc = s.doc /\ Len(history') = s.base + 1
    BY <1>1, <2>3 DEF Last
  <2>8. Pages' = Pages /\ \A q \in Pages : IsOpen(q)' = IsOpen(q)
    BY <1>1 DEF Pages, IsOpen
  <2>. QED BY <1>1, <2>4, <2>5, <2>6, <2>7, <2>8 DEF DoneOK
<1>13. NetOK'
  <2>1. \A s \in net' : s \in Requests /\ RequestOK(s)'
    BY <1>4, <1>7, <1>9, <1>11 DEF SaveInv, NetOK
  <2>2. \A s \in net' : Done(s) => DoneOK(s)'
    BY <1>4, <1>7, <1>12 DEF DoneOK, Done
  <2>3. \A s, t \in net' : s.kind = "save" /\ t.kind = "save" /\ s.page = t.page /\ s.page # 0 => s = t
    <3>1. \A s, t \in net : s.kind = "save" /\ t.kind = "save" /\ s.page = t.page /\ s.page # 0 => s = t
      BY DEF SaveInv, NetOK
    <3>. QED BY <1>4, <1>7, <3>1
  <2>4. Requests' = Requests
    BY DEF Requests, Answers
  <2>. QED BY <2>1, <2>2, <2>3, <2>4 DEF NetOK, Done
<1>. QED BY <1>1, <1>8, <1>9, <1>13 DEF SaveInv

LEMMA LatestClean ==
  ASSUME HistoryOK PROVE Last(history).doc \in Document /\ Last(history).doc \cap Bad = {}
<1>1. history \in Seq(Revisions) /\ history # <<>>
  BY DEF HistoryOK
<1>. DEFINE n == Len(history)
<1>2. n \in DOMAIN history /\ n \in Nat /\ DOMAIN history = 1..n
  BY <1>1, InQueue
<1>3. history[n] \in Revisions
  BY <1>1, <1>2
<1>4. history[n].doc \cap Bad = {}
  BY <1>2, HistoryClean
<1>5. history[n].doc \in Document
  BY <1>3 DEF Revisions
<1>. QED BY <1>4, <1>5 DEF Last

LEMMA SaveElsewhereKeeps ==
  ASSUME SaveInv, SaveElsewhere, ReadsInTime PROVE SaveInv'
<1>1. /\ \A r \in net : r.answer # "committed"
      /\ edits < world.edits /\ edits' = edits + 1 /\ edits' \notin Bad
      /\ world' = world /\ tabs' = tabs /\ online' = online /\ journal' = journal
      /\ token' = token + 1 /\ net' = net
  BY DEF SaveElsewhere, ReadsInTime
<1>2. PICK e : e = [doc |-> Last(history).doc \cup {edits'}, key |-> Elsewhere, kind |-> "elsewhere"]
  OBVIOUS
<1>3. history' = Append(history, e)
  BY <1>2 DEF SaveElsewhere
<1>4. HistoryOK
  BY DEF SaveInv
<1>5. Last(history).doc \in Document /\ Last(history).doc \cap Bad = {}
  BY <1>4, LatestClean
<1>6. edits' \in 1..MaxEdits /\ edits' \in 0..world.edits
  BY <1>1, EditBound
<1>7. e.doc = Last(history).doc \cup {edits'} /\ e.key = Elsewhere
  BY <1>2
<1>8. e.doc \in Document
  BY <1>5, <1>6, <1>7, EditBound
<1>9. e \in Revisions
  BY <1>2, <1>7, <1>8 DEF Revisions, Elsewhere
<1>10. HistoryOK' /\ Grows
  BY <1>1, <1>3, <1>4, <1>5, <1>6, <1>7, <1>9, Appended
<1>11. PagesOK' /\ JournalOK' /\ \A s \in net : RequestOK(s)'
  BY <1>1, <1>10, NothingMoves
<1>12. NetOK'
  <2>1. \A s \in net' : s \in Requests /\ RequestOK(s)' /\ ~ Done(s)
    BY <1>1, <1>11 DEF SaveInv, NetOK, Done
  <2>2. Requests' = Requests
    BY DEF Requests, Answers
  <2>3. \A s, t \in net' : s.kind = "save" /\ t.kind = "save" /\ s.page = t.page /\ s.page # 0 => s = t
    BY <1>1 DEF SaveInv, NetOK
  <2>. QED BY <2>1, <2>2, <2>3 DEF NetOK, Done
<1>. QED BY <1>1, <1>10, <1>11, <1>12 DEF SaveInv
-----------------------------------------------------------------------------
(* The theorems: the invariant holds at first, and every step keeps it.    *)

LEMMA InitHolds ==
  ASSUME Init PROVE SaveInv
<1>1. PICK r : r = [doc |-> {}, key |-> Elsewhere, kind |-> "elsewhere"]
  OBVIOUS
<1>2. /\ world \in Worlds /\ token = 0 /\ edits = 0 /\ net = {} /\ online = TRUE
      /\ history = <<r>> /\ tabs = [p \in Pages |-> [page |-> "unused"]]
      /\ journal = [owner |-> 0, payload |-> Empty]
  BY <1>1 DEF Init
<1>3. world.edits \in Nat /\ edits \in 0..world.edits
  BY <1>2, AutosaveAssumption
<1>4. r \in Revisions /\ r.doc = {}
  BY <1>1 DEF Revisions, Elsewhere, Document
<1>5. history \in Seq(Revisions) /\ Len(history) = 1 /\ DOMAIN history = {1} /\ history[1] = r
  BY <1>2, <1>4
<1>6. HistoryOK
  <2>1. history # <<>>
    BY <1>5
  <2>2. NothingOverwritten
    BY <1>5 DEF NothingOverwritten
  <2>3. \A i \in DOMAIN history : history[i].doc \cap Bad = {}
    BY <1>4, <1>5
  <2>. QED BY <1>2, <1>3, <1>5, <2>1, <2>2, <2>3 DEF HistoryOK
<1>7. PagesOK
  <2>1. \A p \in Pages : tabs[p] = [page |-> "unused"]
    BY <1>2
  <2>2. \A p \in Pages : RowOK(p) /\ ~ Present(p)
    BY <2>1 DEF RowOK, Present
  <2>. QED BY <1>2, <2>2 DEF PagesOK
<1>8. JournalOK
  BY <1>2, EmptySound DEF JournalOK
<1>9. NetOK
  BY <1>2 DEF NetOK
<1>. QED BY <1>2, <1>6, <1>7, <1>8, <1>9 DEF SaveInv

LEMMA UserKeeps ==
  ASSUME SaveInv, CorrectionsAreSafe, NEW p \in Pages, User(p) PROVE SaveInv'
BY EditKeeps, BeginGestureKeeps, FinishGestureKeeps, CancelGestureKeeps, RetryKeeps, AcquireKeeps,
   BeginChangeKeeps, DiscardKeeps, LeavingKeeps DEF User

LEMMA PageKeeps ==
  ASSUME SaveInv, NEW p \in Pages, Page(p) PROVE SaveInv'
BY FlushTextKeeps, RetryTimerKeeps, HeartbeatKeeps, FetchKeeps, LoadJournalKeeps, JournalDoneKeeps,
   JournalOwnedKeeps, SendChangeKeeps, GiveUpChangeKeeps, DiscardLoadedKeeps, DiscardDoneKeeps,
   LeavesKeeps DEF Page

LEMMA TroubleKeeps ==
  ASSUME SaveInv, NEW p \in Pages, Trouble(p) PROVE SaveInv'
BY JournalFailsKeeps, LoadFailsKeeps, DiscardFailsKeeps, LeavingKeeps, CrashKeeps DEF Trouble

LEMMA NetworkKeeps ==
  ASSUME SaveInv, NEW r \in net, Network(r) PROVE SaveInv'
BY ServeKeeps, ReadBackKeeps, HearKeeps, HearChangeKeeps DEF Network

LEMMA StutterKeeps ==
  ASSUME SaveInv, UNCHANGED vars PROVE SaveInv'
BY SameKeeps DEF vars, server, counters, ghosts

LEMMA StepHolds ==
  ASSUME SaveInv, CorrectionsAreSafe, ReadsInTime, [Next]_vars PROVE SaveInv'
<1>1. CASE \E p \in Pages : User(p) \/ Page(p) \/ Trouble(p)
  BY <1>1, UserKeeps, PageKeeps, TroubleKeeps
<1>2. CASE \E r \in net : Network(r) \/ Lose(r)
  BY <1>2, NetworkKeeps, LoseKeeps
<1>3. CASE GoOffline \/ GoOnline \/ TakeAway \/ SaveElsewhere
  BY <1>3, GoOfflineKeeps, GoOnlineKeeps, TakeAwayKeeps, SaveElsewhereKeeps
<1>4. CASE UNCHANGED vars
  BY <1>4, StutterKeeps
<1>. QED BY <1>1, <1>2, <1>3, <1>4 DEF Next

\* What the pages send, keep in the journal and have under way contains what it is based on,
\* in every interleaving of edits, retries, crashes, reloads, duplicated pages, losses of the
\* network, of IndexedDB and of the checkout.
THEOREM SaveInvariant ==
  ASSUME PromptReads PROVE Spec /\ []CorrectionsAreSafe => []SaveInv
<1>1. Init => SaveInv
  BY InitHolds
<1>2. SaveInv => ReadsInTime
  BY DEF PromptReads, ReadsInTime, SaveInv, HistoryOK, Events
<1>3. SaveInv /\ CorrectionsAreSafe /\ [Next]_vars => SaveInv'
  BY <1>2, StepHolds
<1>. QED BY <1>1, <1>3, PTL DEF Spec

\* "Stale saves MUST NOT overwrite newer work": no revision loses what an earlier one held, in
\* worlds where a commit is read back before another client saves, and as long as corrections
\* replace a document that nothing waits behind.
THEOREM WorkIsNotOverwritten ==
  ASSUME PromptReads PROVE Spec /\ []CorrectionsAreSafe => []NothingOverwritten
<1>1. SaveInv => NothingOverwritten
  BY DEF SaveInv, HistoryOK
<1>. QED BY <1>1, SaveInvariant, PTL

LEMMA NothingToCorrect ==
  ASSUME SaveInv, Bad = {} PROVE CorrectionsAreSafe
<1>1. SUFFICES ASSUME NEW p \in OpenPages, Corrects(tabs[p]) PROVE FALSE
  BY DEF CorrectionsAreSafe
<1>2. Able(tabs[p])
  BY <1>1, OpenAble DEF OpenPages
<1>. QED BY <1>1, <1>2 DEF Able, Fit, Corrects

\* Where the server refuses no document there is nothing to correct, and the same holds without
\* a condition on the behaviour.
THEOREM WorkIsNotOverwrittenUnlessRefused ==
  ASSUME PromptReads, NothingRefused PROVE Spec => []NothingOverwritten
<1>1. Init => SaveInv
  BY InitHolds
<1>2. SaveInv => ReadsInTime /\ CorrectionsAreSafe
  <2>1. SUFFICES ASSUME SaveInv PROVE ReadsInTime /\ CorrectionsAreSafe
    OBVIOUS
  <2>2. ReadsInTime /\ Bad = {}
    BY <2>1 DEF PromptReads, NothingRefused, ReadsInTime, SaveInv, HistoryOK, Events, Bad
  <2>. QED BY <2>1, <2>2, NothingToCorrect
<1>3. SaveInv /\ [Next]_vars => SaveInv'
  BY <1>2, StepHolds
<1>4. SaveInv => NothingOverwritten
  BY DEF SaveInv, HistoryOK
<1>. QED BY <1>1, <1>3, <1>4, PTL DEF Spec

-----------------------------------------------------------------------------
(* Methods and steps keep what a page shows (ShownInv).                    *)

\* what a method leaves as it is
Keeps(x, y) ==
  /\ y \in Tabs /\ y.token = x.token /\ y.init = x.init
  /\ y.recovery = "unavailable" => x.recovery = "unavailable"
  /\ Shows(x) => Shows(y)
  /\ Adrift(x) => Adrift(y)
\* what a step may do to the page p
Follows(p, y) ==
  /\ y \in Tabs /\ y.token = tabs[p].token
  /\ y.recovery = "unavailable" => tabs[p].recovery = "unavailable" \/ JournalMayFail
  /\ y.init => tabs[p].init \/ (journal'.owner = p /\ Shows(y))
  /\ Displayed(p, tabs[p]) => Displayed(p, y)

LEMMA KeepsTransitive ==
  ASSUME NEW x, NEW y, NEW z, Keeps(x, y), Keeps(y, z) PROVE Keeps(x, z)
BY DEF Keeps

\* what a method shows anew
Renews(x, y) ==
  /\ y \in Tabs /\ y.token = x.token /\ (y.init => x.init)
  /\ y.recovery = "unavailable" => x.recovery = "unavailable"
  /\ Shows(y)

LEMMA RenewsThen ==
  ASSUME NEW x, NEW y, NEW z, Renews(x, y), Keeps(y, z) PROVE Renews(x, z)
BY DEF Renews, Keeps

LEMMA KeepsThenRenews ==
  ASSUME NEW x, NEW y, NEW z, Keeps(x, y), Renews(y, z) PROVE Renews(x, z)
BY DEF Renews, Keeps

LEMMA RenewsFollows ==
  ASSUME NEW p, NEW y, Renews(tabs[p], y) PROVE Follows(p, y)
BY DEF Renews, Follows, Displayed

LEMMA KeepsFollows == ASSUME NEW p, NEW y, Keeps(tabs[p], y) PROVE Follows(p, y)
BY DEF Keeps, Follows, Displayed

LEMMA FollowsThen ==
  ASSUME NEW p, NEW y, NEW z, Follows(p, y), Keeps(y, z) PROVE Follows(p, z)
BY DEF Follows, Keeps, Displayed

\* the rest of the record may change
LEMMA LikeKeeps ==
  ASSUME NEW x \in Tabs, NEW y \in Tabs, Like(x, y),
         x.writing # NoWrite => y.writing # NoWrite,
         x.recovery = "blocked" => y.recovery = "blocked" \/ y.writing # NoWrite,
         y.recovery = "unavailable" => x.recovery = "unavailable"
  PROVE  Keeps(x, y)
<1>1. y.page = "open"
  BY DEF Tabs
<1>2. LastDoc(y) = LastDoc(x)
  BY DEF Like, LastDoc
<1>. QED BY <1>1, <1>2 DEF Keeps, Shows, Like, Adrift

LEMMA KeepsItself == ASSUME NEW x \in Tabs PROVE Keeps(x, x)
BY DEF Keeps, Tabs

LEMMA PayloadWritten == ASSUME NEW w \in Payloads PROVE w # NoWrite
<1>1. DOMAIN w = {"base", "actions"}
  BY DEF Payloads
<1>2. DOMAIN NoWrite = {"base"}
  BY DEF NoWrite
<1>. QED BY <1>1, <1>2

LEMMA ScheduleShows ==
  ASSUME NEW x \in Tabs, NEW retry \in BOOLEAN
  PROVE  /\ Keeps(x, Schedule(x, retry)) /\ Schedule(x, retry) \in Tabs
         /\ x.init /\ (x.recovery # "unavailable" \/ retry) => Adrift(Schedule(x, retry))
<1>. DEFINE w == Payload(x)
            y == Schedule(x, retry)
<1>1. w \in Payloads /\ w # NoWrite
  BY PayloadTyped, PayloadWritten
<1>2. \/ y = x /\ ~ (x.init /\ (x.recovery # "unavailable" \/ retry))
      \/ x.init /\ y = [x EXCEPT !.recovery = "writing", !.writing = w]
      \/ x.init /\ x.writing # NoWrite /\ y = [x EXCEPT !.recovery = "writing", !.next = w]
  BY DEF Schedule
<1>. HIDE DEF w, y
<1>3. y \in Tabs /\ Like(x, y)
  <2>1. CASE y = x
    BY <2>1 DEF Like
  <2>2. CASE y = [x EXCEPT !.recovery = "writing", !.writing = w]
    BY <1>1, <2>2, WordsKnown DEF Tabs, Like
  <2>3. CASE y = [x EXCEPT !.recovery = "writing", !.next = w]
    BY <1>1, <2>3, WordsKnown DEF Tabs, Like
  <2>. QED BY <1>2, <2>1, <2>2, <2>3
<1>4. CASE y = x /\ ~ (x.init /\ (x.recovery # "unavailable" \/ retry))
  BY <1>3, <1>4, KeepsItself DEF y
<1>5. CASE x.init /\ y = [x EXCEPT !.recovery = "writing", !.writing = w]
  <2>1. y.recovery = "writing" /\ y.writing = w /\ y.init
    BY <1>3, <1>5 DEF Tabs
  <2>2. Keeps(x, y)
    BY <1>1, <1>3, <2>1, LikeKeeps
  <2>. QED BY <1>1, <1>3, <2>1, <2>2 DEF Adrift, y
<1>6. CASE x.init /\ x.writing # NoWrite /\ y = [x EXCEPT !.recovery = "writing", !.next = w]
  <2>1. y.recovery = "writing" /\ y.writing = x.writing /\ y.init
    BY <1>3, <1>6 DEF Tabs
  <2>2. Keeps(x, y)
    BY <1>3, <1>6, <2>1, LikeKeeps
  <2>. QED BY <1>3, <1>6, <2>1, <2>2 DEF Adrift, y
<1>. QED BY <1>2, <1>3, <1>4, <1>5, <1>6 DEF y

\* a change of fields that are not shown
LEMMA SoftShows ==
  ASSUME NEW x \in Tabs, NEW y \in Tabs, Like(x, y), y.writing = x.writing, y.recovery = x.recovery
  PROVE  Keeps(x, y)
BY LikeKeeps

LEMMA SetWaitingShows ==
  ASSUME NEW x, Able(x) PROVE Keeps(x, SetWaiting(x))
<1>. DEFINE y == Schedule(x, FALSE)
            z == SetWaiting(x)
<1>1. Keeps(x, y) /\ Moved(x, y) /\ Like(x, y)
  BY ScheduleShows, ScheduleMoves DEF Able
<1>2. z = y \/ \E s, b : z = [y EXCEPT !.full = b, !.state = s]
  <2>1. z = IF y.state \in Stopped THEN y
            ELSE [y EXCEPT !.full = FALSE,
                           !.state = IF ~online THEN "offline"
                                     ELSE IF y.flight \/ y.retryTimer THEN @ ELSE "pending"]
    BY DEF SetWaiting
  <2>. HIDE DEF y, z
  <2>. QED BY <2>1
<1>3. Moved(x, z) /\ Like(x, z)
  BY SetWaitingMoves
<1>4. x \in Tabs /\ y \in Tabs /\ z \in Tabs
  BY <1>1, <1>3 DEF Moved, Able
<1>. HIDE DEF y, z
<1>5. Like(y, z)
  BY <1>1, <1>3 DEF Like
<1>6. z.writing = y.writing /\ z.recovery = y.recovery
  BY <1>2, <1>4 DEF Tabs
<1>. QED BY <1>1, <1>4, <1>5, <1>6, SoftShows, KeepsTransitive DEF z

\* the same documents in the queue
LEMMA DocsKeep ==
  ASSUME NEW x \in Tabs, NEW y \in Tabs, Len(y.queue) = Len(x.queue),
         \A i \in DOMAIN x.queue : y.queue[i].doc = x.queue[i].doc,
         y.staged = x.staged, y.doc = x.doc, y.draft = x.draft, y.token = x.token,
         y.init = x.init, y.writing = x.writing, y.recovery = x.recovery
  PROVE  Keeps(x, y)
<1>1. x.queue \in Seq(Entries) /\ y.queue \in Seq(Entries) /\ y.page = "open"
  BY DEF Tabs
<1>2. DOMAIN y.queue = DOMAIN x.queue /\ (y.queue = <<>> <=> x.queue = <<>>)
  BY <1>1, SameLength
<1>3. x.queue # <<>> => Len(x.queue) \in DOMAIN x.queue
  BY <1>1, InQueue
<1>4. LastDoc(y) = LastDoc(x)
  BY <1>2, <1>3 DEF LastDoc, Last
<1>. QED BY <1>1, <1>4 DEF Keeps, Shows, Adrift

LEMMA WithBaseShows ==
  ASSUME NEW x \in Tabs, x.queue # <<>> PROVE Keeps(x, WithBase(x)) /\ WithBase(x) \in Tabs
<1>. DEFINE z == [x EXCEPT !.queue[1].base = x.draft]
<1>1. /\ x.queue \in Seq(Entries) /\ x.draft \in Nat /\ x.queue[1] \in Entries
      /\ 1 \in DOMAIN x.queue
  BY InQueue DEF Tabs
<1>2. CASE Head(x.queue).base # 0
  BY <1>1, <1>2, KeepsItself DEF WithBase
<1>3. CASE Head(x.queue).base = 0
  <2>1. WithBase(x) = Schedule(z, FALSE)
    BY <1>3 DEF WithBase
  <2>2. PICK e \in Entries : e = [x.queue[1] EXCEPT !.base = x.draft]
    BY <1>1 DEF Entries
  <2>3. e.doc = x.queue[1].doc /\ e.base = x.draft /\ e.ready = x.queue[1].ready
        /\ e.key = x.queue[1].key
    BY <1>1, <2>2 DEF Entries
  <2>4. PICK t : t = [x.queue EXCEPT ![1] = e]
    OBVIOUS
  <2>5. /\ t \in Seq(Entries) /\ Len(t) = Len(x.queue) /\ t # <<>>
        /\ t[1] = e /\ \A i \in DOMAIN x.queue : i # 1 => t[i] = x.queue[i]
    BY <1>1, <2>4, NewHead
  <2>6. z = [x EXCEPT !.queue = t]
    BY <1>1, <2>2, <2>4
  <2>. HIDE DEF z
  <2>7. /\ z \in Tabs /\ z.queue = t /\ z.staged = x.staged /\ z.doc = x.doc /\ z.draft = x.draft
        /\ z.flight = x.flight /\ z.discard = x.discard /\ z.token = x.token /\ z.init = x.init
        /\ z.writing = x.writing /\ z.next = x.next /\ z.latest = x.latest /\ z.state = x.state
        /\ z.recovery = x.recovery
    BY <1>1, <2>5, <2>6 DEF Tabs
  <2>8. \A i \in DOMAIN x.queue : z.queue[i].doc = x.queue[i].doc
    BY <2>3, <2>5, <2>7
  <2>9. Keeps(x, z)
    BY <1>1, <2>5, <2>7, <2>8, DocsKeep
  <2>10. Keeps(z, Schedule(z, FALSE)) /\ Schedule(z, FALSE) \in Tabs
    BY <2>7, ScheduleShows
  <2>. QED BY <2>1, <2>9, <2>10, KeepsTransitive
<1>. QED BY <1>2, <1>3

LEMMA PumpShows ==
  ASSUME NEW x \in Tabs, NEW on \in BOOLEAN PROVE Keeps(x, Pump(x, on))
<1>. DEFINE y == Pump(x, on)
<1>1. CASE Idle(x)
  BY <1>1, KeepsItself DEF Pump
<1>. SUFFICES ASSUME ~ Idle(x) PROVE Keeps(x, y)
  BY <1>1
<1>3. ASSUME NEW s \in {"saved", "pending", "offline"}, NEW full \in BOOLEAN,
             y = [x EXCEPT !.state = s, !.full = full]
      PROVE  Keeps(x, y)
  <2>. HIDE DEF y
  <2>1. y \in Tabs /\ Like(x, y) /\ y.writing = x.writing /\ y.recovery = x.recovery
    BY <1>3, WordsKnown DEF Tabs, Like
  <2>. QED BY <2>1, SoftShows
<1>4. CASE x.queue # <<>> /\ Head(x.queue).ready /\ on
  <2>. DEFINE z == WithBase(x)
  <2>1. y = Send(z)
    BY <1>4 DEF Pump
  <2>2. Keeps(x, z) /\ z \in Tabs
    BY <1>4, WithBaseShows
  <2>. HIDE DEF z
  <2>4. /\ Send(z) \in Tabs
        /\ \/ Send(z) = z
           \/ Send(z) = [z EXCEPT !.flight = TRUE, !.state = "saving", !.full = FALSE]
    BY <2>2, WordsKnown DEF Send, Tabs
  <2>5. /\ Send(z).queue = z.queue /\ Send(z).staged = z.staged /\ Send(z).doc = z.doc
        /\ Send(z).draft = z.draft /\ Send(z).token = z.token /\ Send(z).init = z.init
        /\ Send(z).writing = z.writing /\ Send(z).recovery = z.recovery
    BY <2>2, <2>4 DEF Tabs
  <2>6. Keeps(z, Send(z))
    BY <2>2, <2>4, <2>5, DocsKeep
  <2>. QED BY <2>1, <2>2, <2>6, KeepsTransitive
<1>5. CASE x.queue = <<>>
  <2>1. PICK s \in {"saved", "pending"} : y = [x EXCEPT !.state = s, !.full = FALSE]
    BY <1>5 DEF Pump
  <2>. HIDE DEF y
  <2>. QED BY <1>3, <2>1
<1>6. CASE x.queue # <<>> /\ ~ (Head(x.queue).ready /\ on)
  <2>1. PICK s \in {"offline", "pending"} : y = [x EXCEPT !.state = s]
    BY <1>6 DEF Pump
  <2>2. PICK full \in BOOLEAN : full = x.full
    BY DEF Tabs
  <2>. HIDE DEF y
  <2>3. y = [x EXCEPT !.state = s, !.full = full]
    BY <2>1, <2>2 DEF Tabs
  <2>. QED BY <1>3, <2>3
<1>. QED BY <1>4, <1>5, <1>6

LEMMA FlushShows ==
  ASSUME NEW x, Able(x), x.init, online \in BOOLEAN PROVE Keeps(x, Flush(x))
<1>0. x \in Tabs /\ x.queue \in Seq(Entries)
  BY DEF Able, Tabs
<1>1. CASE ~ Unready(x)
  BY <1>0, <1>1, KeepsItself DEF Flush
<1>2. CASE Unready(x)
  <2>. DEFINE q == [i \in DOMAIN x.queue |-> [x.queue[i] EXCEPT !.ready = TRUE]]
              z == [x EXCEPT !.queue = q]
              y == SetWaiting(z)
  <2>1. Flush(x) = Pump(y, online)
    BY <1>2 DEF Flush
  <2>2. /\ DOMAIN x.queue = 1..Len(x.queue) /\ Len(x.queue) \in Nat
        /\ \A i \in DOMAIN x.queue : x.queue[i] \in Entries
    BY <1>0
  <2>3. /\ q \in Seq(Entries) /\ Len(q) = Len(x.queue)
        /\ \A i \in DOMAIN x.queue :
             /\ q[i].doc = x.queue[i].doc /\ q[i].base = x.queue[i].base
             /\ q[i].key = x.queue[i].key /\ q[i].ready
    <3>1. \A i \in DOMAIN x.queue :
             /\ q[i] \in Entries /\ q[i].doc = x.queue[i].doc /\ q[i].base = x.queue[i].base
             /\ q[i].key = x.queue[i].key /\ q[i].ready
      BY <2>2 DEF Entries
    <3>2. q \in [1..Len(x.queue) -> Entries]
      BY <2>2, <3>1
    <3>. HIDE DEF q
    <3>3. q \in Seq(Entries) /\ Len(q) = Len(x.queue)
      BY <2>2, <3>2
    <3>. QED BY <3>1, <3>3
  <2>. HIDE DEF q
  <2>4. /\ z \in Tabs /\ z.queue = q /\ z.staged = x.staged /\ z.doc = x.doc /\ z.draft = x.draft
        /\ z.flight = x.flight /\ z.discard = x.discard /\ z.token = x.token /\ z.init = x.init
        /\ z.writing = x.writing /\ z.next = x.next /\ z.latest = x.latest /\ z.state = x.state
        /\ z.recovery = x.recovery
    BY <1>0, <2>3 DEF Tabs
  <2>. HIDE DEF z
  <2>5. SameDocs(x, z)
    BY <2>3, <2>4 DEF SameDocs
  <2>6. x.flight => 1 \in DOMAIN x.queue
    BY <1>0, InQueue DEF Able, Fit
  <2>7. x.flight => SameHead(x, z) /\ z.queue[1].ready
    BY <2>3, <2>4, <2>6 DEF SameHead
  <2>8. Moved(x, z)
    BY <2>4, <2>5, <2>7, QueueMoves DEF Able, Fit
  <2>9. Keeps(x, z)
    BY <1>0, <2>3, <2>4, DocsKeep
  <2>10. Keeps(z, y) /\ Moved(z, y)
    BY <2>8, SetWaitingMoves, SetWaitingShows DEF Moved
  <2>. HIDE DEF y
  <2>11. Keeps(y, Pump(y, online))
    BY <2>10, PumpShows DEF Moved, Able
  <2>. QED BY <2>1, <2>9, <2>10, <2>11, KeepsTransitive
<1>. QED BY <1>1, <1>2

LEMMA EmittedShows == ASSUME NEW x \in Tabs PROVE Keeps(x, Emitted(x))
<1>. DEFINE s == IF x.lost THEN "error" ELSE x.state
            m == CASE x.mutation = "checking" -> "dirty" [] x.mutation = "sent" -> "stale"
                   [] OTHER -> x.mutation
            y == Emitted(x)
<1>1. y = [x EXCEPT !.state = s, !.mutation = m]
  BY DEF Emitted, Tabs
<1>2. s \in Words /\ m \in Words
  BY WordsKnown DEF Tabs
<1>. HIDE DEF y, s, m
<1>3. y \in Tabs /\ Like(x, y) /\ y.writing = x.writing /\ y.recovery = x.recovery
  BY <1>1, <1>2 DEF Tabs, Like
<1>. QED BY <1>3, SoftShows DEF y

\* a completed action is shown, and waits last
LEMMA PushShows ==
  ASSUME NEW x, Able(x), x.init, x.staged = <<>>, online \in BOOLEAN,
         NEW key \in Nat \ {0}, NEW doc \in Document, NEW text \in BOOLEAN,
         Clean(x.doc) \subseteq doc
  PROVE  Renews(x, Push(x, key, doc, text))
<1>. DEFINE e == Entry(key, doc, 0, ~text)
            y == Flush(x)
            z == Pushed(y, e)
            v == SetWaiting(z)
<1>1. e \in Entries /\ e.base = 0 /\ e.doc = doc
  BY DEF Entry, Entries
<1>2. Moved(x, y) /\ y.staged = <<>> /\ y.doc = x.doc /\ Keeps(x, y)
  BY FlushMoves, FlushShows
<1>3. Push(x, key, doc, text) = v
  BY <1>1 DEF Push, Pushed
<1>. HIDE DEF e, y
<1>4. Moved(y, z) /\ y \in Tabs
  BY <1>1, <1>2, PushedMoves DEF Moved, Able
<1>5. z.doc = doc /\ z.queue = Append(y.queue, e) /\ z.recovery = y.recovery /\ y.queue \in Seq(Entries)
  BY <1>1, <1>4 DEF Pushed, Tabs
<1>6. LastDoc(z) = doc
  <2>1. Append(y.queue, e) # <<>> /\ Append(y.queue, e)[Len(Append(y.queue, e))] = e
    BY <1>1, <1>5
  <2>. QED BY <1>1, <1>5, <2>1 DEF LastDoc, Last
<1>. HIDE DEF z
<1>7. Keeps(z, v)
  BY <1>4, SetWaitingShows DEF Moved
<1>8. Renews(y, z)
  BY <1>4, <1>5, <1>6 DEF Renews, Shows, Moved, Able, Tabs
<1>. HIDE DEF v
<1>. QED BY <1>2, <1>3, <1>7, <1>8, KeepsThenRenews, RenewsThen

LEMMA CoalesceShows ==
  ASSUME NEW x, Able(x), x.init, x.staged = <<>>, x.queue # <<>>, ~ Last(x.queue).ready,
         NEW doc \in Document, Clean(x.doc) \subseteq doc, online \in BOOLEAN
  PROVE  Renews(x, SetWaiting(Extended(x, doc)))
<1>. DEFINE z == Extended(x, doc)
            v == SetWaiting(z)
<1>1. Moved(x, z) /\ x \in Tabs /\ x.queue \in Seq(Entries)
  BY ExtendedMoves DEF Able, Tabs
<1>2. Len(x.queue) \in DOMAIN x.queue /\ x.queue[Len(x.queue)] \in Entries
  BY <1>1, InQueue
<1>3. z = [x EXCEPT !.doc = doc, !.queue = [x.queue EXCEPT ![Len(x.queue)].doc = doc]]
  BY <1>1, <1>2 DEF Extended, Tabs
<1>4. PICK e : e = [x.queue[Len(x.queue)] EXCEPT !.doc = doc]
  OBVIOUS
<1>5. e.doc = doc
  BY <1>2, <1>4 DEF Entries
<1>6. z = [x EXCEPT !.doc = doc, !.queue = [x.queue EXCEPT ![Len(x.queue)] = e]]
  BY <1>3, <1>4
<1>. HIDE DEF z
<1>7. z.doc = doc /\ z.queue = [x.queue EXCEPT ![Len(x.queue)] = e] /\ z.recovery = x.recovery
  BY <1>1, <1>6 DEF Tabs
<1>8. z.queue # <<>> /\ Len(z.queue) = Len(x.queue)
  <2>1. DOMAIN z.queue = DOMAIN x.queue
    BY <1>7
  <2>2. z.queue \in Seq(Entries) /\ DOMAIN x.queue = 1..Len(x.queue) /\ Len(x.queue) \in Nat
    BY <1>1, <1>2 DEF Moved, Able, Tabs
  <2>. QED BY <1>2, <2>1, <2>2
<1>9. LastDoc(z) = doc
  BY <1>2, <1>5, <1>7, <1>8 DEF LastDoc, Last
<1>10. Keeps(z, v)
  BY <1>1, SetWaitingShows DEF Moved
<1>11. Renews(x, z)
  BY <1>1, <1>7, <1>9 DEF Renews, Shows, Moved, Able, Tabs
<1>. QED BY <1>10, <1>11, RenewsThen DEF z

LEMMA CorrectShows ==
  ASSUME NEW x, Able(x), x.init, x.staged = <<>>, Corrects(x), SafeToCorrect(x),
         online \in BOOLEAN, NEW key \in Nat \ {0}, NEW doc \in Document, NEW text \in BOOLEAN,
         Clean(x.doc) \subseteq doc
  PROVE  Renews(x, Correct(x, key, doc, text))
<1>. DEFINE e == Entry(key, doc, 0, ~text)
            q == [x.queue EXCEPT ![1] = e]
            z == [x EXCEPT !.doc = doc, !.queue[1] = e, !.state = Waiting, !.full = FALSE]
            y == Schedule(z, FALSE)
<1>1. e \in Entries /\ e.doc = doc /\ e.base = 0
  BY DEF Entry, Entries
<1>2. /\ x \in Tabs /\ x.queue \in Seq(Entries) /\ x.queue # <<>> /\ ~ x.flight
      /\ Len(x.queue) = 1
  BY DEF Able, Tabs, Corrects, SafeToCorrect
<1>3. z = [x EXCEPT !.doc = doc, !.queue = q, !.state = Waiting, !.full = FALSE]
  OBVIOUS
<1>. HIDE DEF e
<1>4. q \in Seq(Entries) /\ q # <<>> /\ Len(q) = 1 /\ q[1] = e
  BY <1>1, <1>2, NewHead
<1>5. Waiting \in Words /\ Waiting # "validation"
  BY WordsKnown DEF Waiting
<1>. HIDE DEF q, z
<1>6. /\ z \in Tabs /\ z.doc = doc /\ z.queue = q /\ z.staged = x.staged /\ z.draft = x.draft
      /\ z.flight = x.flight /\ z.discard = x.discard /\ z.token = x.token /\ z.init = x.init
      /\ z.latest = x.latest /\ z.state = Waiting /\ z.recovery = x.recovery
      /\ z.page = "open"
  BY <1>2, <1>3, <1>4, <1>5 DEF Tabs
<1>7. Renews(x, z)
  BY <1>1, <1>4, <1>6 DEF Renews, Shows, LastDoc, Last
<1>8. Keeps(z, y) /\ y \in Tabs
  BY <1>6, ScheduleShows
<1>9. Correct(x, key, doc, text) = IF text THEN y ELSE Pump(y, online)
  BY DEF Correct, e, z
<1>. HIDE DEF y
<1>10. Keeps(y, Pump(y, online))
  BY <1>8, PumpShows
<1>. QED BY <1>7, <1>8, <1>9, <1>10, RenewsThen

LEMMA RefuseShows == ASSUME NEW x, Able(x) PROVE Keeps(x, Refuse(x))
<1>1. Like(x, Refuse(x)) /\ Refuse(x) \in Tabs /\ x \in Tabs
  BY RefuseMoves DEF Moved, Able
<1>2. Refuse(x).writing = x.writing /\ Refuse(x).recovery = x.recovery
  BY <1>1 DEF Refuse, Tabs
<1>. QED BY <1>1, <1>2, SoftShows

LEMMA CompleteShows ==
  ASSUME NEW x, Able(x), x.init, SafeToCorrect(x), online \in BOOLEAN,
         NEW key \in Nat \ {0}, NEW doc \in Document, NEW text \in BOOLEAN, NEW same \in BOOLEAN,
         Clean(x.doc) \subseteq doc
  PROVE  LET z == Complete(x, key, doc, text, same) IN Renews(x, z) \/ Keeps(x, z)
<1>. DEFINE y == [x EXCEPT !.staged = <<>>]
            z == Complete(x, key, doc, text, same)
<1>1. /\ Moved(x, y) /\ y.staged = <<>> /\ y.queue = x.queue /\ y.doc = x.doc
      /\ y.draft = x.draft /\ y.flight = x.flight /\ y.state = x.state
  BY DropStagedMoves
<1>2. z = IF Corrects(y) THEN Correct(y, key, doc, text)
          ELSE IF Len(y.queue) >= MaxQueue THEN Refuse(y)
          ELSE IF ~text THEN Pump(Push(y, key, doc, FALSE), online)
          ELSE IF Coalesces(y, same)
               THEN SetWaiting([y EXCEPT !.doc = doc, !.queue[Len(y.queue)].doc = doc])
               ELSE Push(y, key, doc, TRUE)
  BY DEF Complete
<1>3. /\ x \in Tabs /\ y.recovery = x.recovery /\ y.writing = x.writing
      /\ y.discard = x.discard /\ y.token = x.token /\ y.init = x.init
  BY DEF Able, Tabs
<1>. HIDE DEF y, z
<1>4. Able(y) /\ y.init /\ SafeToCorrect(y) /\ Clean(y.doc) \subseteq doc /\ y \in Tabs
  BY <1>1 DEF Moved, SafeToCorrect, Corrects, Able
<1>5. ASSUME NEW v, Renews(y, v) PROVE Renews(x, v)
  BY <1>1, <1>3, <1>5 DEF Renews, Moved
<1>6. ASSUME Corrects(y) PROVE Renews(y, Correct(y, key, doc, text))
  BY <1>1, <1>4, <1>6, CorrectShows
<1>7. Renews(y, Pump(Push(y, key, doc, FALSE), online)) /\ Renews(y, Push(y, key, doc, TRUE))
  <2>1. Renews(y, Push(y, key, doc, FALSE)) /\ Renews(y, Push(y, key, doc, TRUE))
    BY <1>1, <1>4, PushShows
  <2>2. Able(Push(y, key, doc, FALSE))
    BY <1>1, <1>4, PushMoves DEF Moved
  <2>. QED BY <2>1, <2>2, PumpShows, RenewsThen DEF Able
<1>8. ASSUME Coalesces(y, same)
      PROVE  Renews(y, SetWaiting([y EXCEPT !.doc = doc, !.queue[Len(y.queue)].doc = doc]))
  BY <1>1, <1>4, <1>8, CoalesceShows DEF Coalesces, Extended
<1>9. ASSUME Len(y.queue) >= MaxQueue PROVE Keeps(x, Refuse(y))
  <2>1. x.staged = <<>>
    <3>1. x.queue \in Seq(Entries) /\ MaxQueue \in Nat
      BY <1>3, AutosaveAssumption DEF Able, HistoryOK, MaxQueue, Tabs
    <3>2. x.staged # <<>> => Len(x.queue) < MaxQueue
      BY DEF Able, Fit
    <3>3. Len(x.queue) \in Nat
      BY <3>1
    <3>. QED BY <1>1, <1>9, <3>1, <3>2, <3>3
  <2>2. Like(x, y)
    BY <1>1, <1>3, <2>1 DEF Like
  <2>3. Keeps(x, y)
    BY <1>3, <1>4, <2>2, SoftShows
  <2>. QED BY <1>4, <2>3, RefuseShows, KeepsTransitive
<1>10. CASE ~ Corrects(y) /\ Len(y.queue) >= MaxQueue
  BY <1>2, <1>9, <1>10 DEF z
<1>. QED BY <1>2, <1>5, <1>6, <1>7, <1>8, <1>10 DEF z

\* staging shows the gesture, or leaves what waits or is saved
LEMMA StageShows ==
  ASSUME NEW x, Able(x), x.init, NEW key \in Nat \ {0}, key > MaxEdits,
         NEW doc \in Document, x.doc \subseteq doc, NEW render \in BOOLEAN,
         x.staged # <<>> => x.doc # x.staged[1].doc
  PROVE  Keeps(x, Stage(x, key, doc, render))
<1>. DEFINE e == Entry(key, doc, 0, FALSE)
            f == [x.staged[1] EXCEPT !.doc = doc]
            gesture == IF doc = LastDoc(x) THEN <<>>
                       ELSE IF x.staged = <<>> THEN <<e>> ELSE <<f>>
            y == [x EXCEPT !.staged = gesture, !.doc = IF render THEN doc ELSE @]
            s == IF gesture # <<>> THEN "pending" ELSE IF y.queue # <<>> THEN y.state ELSE "saved"
            z == IF y.state \in Stopped THEN y ELSE [y EXCEPT !.state = s]
<1>1. x \in Tabs /\ x.staged \in Seq(Entries)
  BY DEF Able, Tabs
<1>2. e \in Entries /\ e.doc = doc
  BY DEF Entry, Entries
<1>3. x.staged # <<>> => f \in Entries /\ f.doc = doc
  <2>1. x.staged # <<>> => x.staged[1] \in Entries
    BY <1>1, InQueue
  <2>. QED BY <2>1 DEF Entries
<1>. HIDE DEF e, f
<1>4. \/ gesture = <<>> /\ doc = LastDoc(x)
      \/ \E g \in Entries : gesture = <<g>> /\ g.doc = doc
  BY <1>2, <1>3
<1>5. Stage(x, key, doc, render) = IF Len(x.queue) >= MaxQueue THEN Refuse(x) ELSE Schedule(z, FALSE)
  BY DEF Stage, e, f
<1>. HIDE DEF gesture
<1>6. /\ gesture \in Seq(Entries)
      /\ gesture = <<>> => doc = LastDoc(x)
      /\ gesture # <<>> => gesture[1].doc = doc
  <2>1. ASSUME NEW g \in Entries, gesture = <<g>>, g.doc = doc
        PROVE  gesture \in Seq(Entries) /\ gesture # <<>> /\ gesture[1] = g
    BY <2>1
  <2>2. CASE gesture = <<>> /\ doc = LastDoc(x)
    BY <2>2
  <2>. QED BY <1>4, <2>1, <2>2
<1>7. /\ y \in Tabs /\ y.staged = gesture /\ y.queue = x.queue /\ y.draft = x.draft
      /\ y.doc = IF render THEN doc ELSE x.doc
      /\ y.token = x.token /\ y.init = x.init /\ y.writing = x.writing /\ y.recovery = x.recovery
      /\ y.page = "open"
  BY <1>1, <1>6 DEF Tabs
<1>. HIDE DEF y
<1>8. Keeps(x, Refuse(x))
  BY RefuseShows
<1>9. Keeps(x, y)
  <2>1. LastDoc(y) = LastDoc(x)
    BY <1>7 DEF LastDoc
  <2>2. Shows(x) => x.doc = LastDoc(x)
    BY DEF Shows
  <2>3. Shows(x) => Shows(y)
    BY <1>6, <1>7, <2>1, <2>2 DEF Shows
  <2>. QED BY <1>7, <2>3 DEF Keeps, Adrift
<1>10. ASSUME ~ (Len(x.queue) >= MaxQueue) PROVE Keeps(x, Schedule(z, FALSE))
  <2>1. z \in Tabs /\ Like(y, z) /\ z.writing = y.writing /\ z.recovery = y.recovery
    <3>1. CASE y.state \in Stopped
      BY <1>7, <3>1 DEF Like
    <3>2. CASE y.state \notin Stopped
      <4>1. s \in Words
        BY <1>7, WordsKnown DEF Tabs
      <4>2. z = [y EXCEPT !.state = s]
        BY <3>2
      <4>. HIDE DEF s, z
      <4>. QED BY <1>7, <4>1, <4>2 DEF Tabs, Like
    <3>. QED BY <3>1, <3>2
  <2>. HIDE DEF z
  <2>2. Keeps(y, z) /\ Keeps(z, Schedule(z, FALSE))
    BY <1>7, <2>1, SoftShows, ScheduleShows
  <2>. QED BY <1>9, <2>2, KeepsTransitive
<1>. QED BY <1>5, <1>8, <1>10

LEMMA StopShows == ASSUME NEW x \in Tabs PROVE Keeps(x, StopForAuthority(x))
<1>1. /\ StopForAuthority(x) \in Tabs /\ Like(x, StopForAuthority(x))
      /\ StopForAuthority(x).writing = x.writing /\ StopForAuthority(x).recovery = x.recovery
  BY DEF StopForAuthority, Tabs, Like
<1>. QED BY <1>1, SoftShows

LEMMA AttemptsShow ==
  ASSUME NEW x \in Tabs, x.queue # <<>>, NEW n \in Nat, NEW s \in Words,
         NEW timer \in BOOLEAN, NEW full \in BOOLEAN
  PROVE  LET y == [x EXCEPT !.queue = Attempts(x, n), !.retryTimer = timer, !.state = s,
                            !.full = full]
         IN Keeps(x, y) /\ y \in Tabs
<1>. DEFINE e == [x.queue[1] EXCEPT !.attempt = n]
            q == Attempts(x, n)
            y == [x EXCEPT !.queue = q, !.retryTimer = timer, !.state = s, !.full = full]
<1>1. x.queue \in Seq(Entries) /\ x.queue[1] \in Entries /\ 1 \in DOMAIN x.queue
  BY InQueue DEF Tabs
<1>2. e \in Entries /\ e.doc = x.queue[1].doc
  BY <1>1 DEF Entries
<1>3. q = [x.queue EXCEPT ![1] = e]
  BY <1>1 DEF Attempts
<1>. HIDE DEF e, q
<1>4. /\ q \in Seq(Entries) /\ Len(q) = Len(x.queue) /\ q[1] = e
      /\ \A i \in DOMAIN x.queue : i # 1 => q[i] = x.queue[i]
  BY <1>1, <1>2, <1>3, NewHead
<1>5. /\ y \in Tabs /\ y.queue = q /\ y.staged = x.staged /\ y.doc = x.doc /\ y.draft = x.draft
      /\ y.token = x.token /\ y.init = x.init /\ y.writing = x.writing /\ y.recovery = x.recovery
  BY <1>1, <1>4 DEF Tabs
<1>. HIDE DEF y
<1>6. \A i \in DOMAIN x.queue : y.queue[i].doc = x.queue[i].doc
  BY <1>2, <1>4, <1>5
<1>7. Keeps(x, y)
  BY <1>4, <1>5, <1>6, DocsKeep
<1>. QED BY <1>5, <1>7 DEF y, q

LEMMA RetryNowShows ==
  ASSUME NEW x \in Tabs, online \in BOOLEAN PROVE Keeps(x, RetryNow(x))
<1>. DEFINE y == IF x.recovery = "unavailable" THEN Schedule(x, TRUE) ELSE x
            z == [y EXCEPT !.queue = Attempts(y, 0), !.retryTimer = FALSE, !.state = Waiting,
                           !.full = FALSE]
<1>1. Keeps(x, y) /\ y \in Tabs
  BY ScheduleShows, KeepsItself
<1>2. RetryNow(x) = IF y.lost \/ y.state = "conflict" \/ y.queue = <<>> THEN y
                    ELSE Pump([y EXCEPT !.retryTimer = FALSE, !.queue[1].attempt = 0,
                                        !.state = Waiting, !.full = FALSE], online)
  BY DEF RetryNow
<1>. HIDE DEF y
<1>3. [y EXCEPT !.retryTimer = FALSE, !.queue[1].attempt = 0, !.state = Waiting, !.full = FALSE] = z
  BY <1>1 DEF Attempts, Tabs
<1>4. ASSUME y.queue # <<>> PROVE Keeps(y, z) /\ z \in Tabs
  <2>1. Waiting \in Words
    BY WordsKnown DEF Waiting
  <2>. QED BY <1>1, <1>4, <2>1, AttemptsShow
<1>. HIDE DEF z
<1>5. ASSUME y.queue # <<>> PROVE Keeps(z, Pump(z, online))
  BY <1>4, <1>5, PumpShows
<1>. QED BY <1>1, <1>2, <1>3, <1>4, <1>5, KeepsTransitive

LEMMA FailShows ==
  ASSUME NEW x \in Tabs, x.queue # <<>>, online \in BOOLEAN,
         NEW answer \in {"authority", "conflict", "invalid", "failure"}
  PROVE  Keeps(x, Fail(x, answer))
<1>. DEFINE y == [x EXCEPT !.flight = FALSE]
            z == Fail(x, answer)
<1>1. /\ y \in Tabs /\ Like([x EXCEPT !.flight = FALSE], y) /\ y.queue = x.queue /\ y.staged = x.staged
      /\ y.doc = x.doc /\ y.draft = x.draft /\ y.token = x.token /\ y.init = x.init
      /\ y.writing = x.writing /\ y.recovery = x.recovery /\ y.full \in BOOLEAN
  BY DEF Tabs, Like
<1>2. \/ z = StopForAuthority(y)
      \/ \E s \in {"offline", "conflict", "error", "validation"} : z = [y EXCEPT !.state = s]
      \/ z = [y EXCEPT !.queue[1].attempt = @ + 1, !.state = "retrying", !.retryTimer = TRUE]
  BY DEF Fail
<1>. HIDE DEF y, z
<1>3. Keeps(x, y)
  BY <1>1, DocsKeep
<1>4. CASE z = StopForAuthority(y)
  BY <1>1, <1>3, <1>4, StopShows, KeepsTransitive DEF z
<1>5. ASSUME NEW s \in {"offline", "conflict", "error", "validation"}, z = [y EXCEPT !.state = s]
      PROVE  Keeps(x, z)
  <2>1. z \in Tabs /\ Like(y, z) /\ z.writing = y.writing /\ z.recovery = y.recovery
    BY <1>1, <1>5, WordsKnown DEF Tabs, Like
  <2>. QED BY <1>1, <1>3, <2>1, SoftShows, KeepsTransitive
<1>6. CASE z = [y EXCEPT !.queue[1].attempt = @ + 1, !.state = "retrying", !.retryTimer = TRUE]
  <2>1. y.queue \in Seq(Entries) /\ y.queue # <<>>
    BY <1>1 DEF Tabs
  <2>2. PICK e \in Entries : e = y.queue[1]
    BY <2>1, InQueue
  <2>3. PICK n \in Nat : n = e.attempt + 1
    BY DEF Entries
  <2>4. PICK full \in BOOLEAN : full = y.full
    BY <1>1
  <2>5. z = [y EXCEPT !.queue = Attempts(y, n), !.retryTimer = TRUE, !.state = "retrying",
                      !.full = full]
    BY <1>1, <1>6, <2>2, <2>3, <2>4 DEF Attempts, Tabs
  <2>6. Keeps(y, z)
    BY <1>1, <2>1, <2>5, AttemptsShow, WordsKnown
  <2>. QED BY <1>3, <2>6, KeepsTransitive DEF z
<1>. QED BY <1>2, <1>4, <1>5, <1>6 DEF z

\* the latest revision is shown
LEMMA ReplaceShows ==
  ASSUME NEW x \in Tabs, NEW draft \in DOMAIN history, HistoryOK
  PROVE  Renews(x, ReplaceWithLatest(x, draft))
<1>. DEFINE y == [x EXCEPT !.retryTimer = FALSE, !.queue = <<>>, !.staged = <<>>, !.flight = FALSE,
                           !.draft = draft, !.doc = history[draft].doc, !.state = "saved",
                           !.full = FALSE]
<1>1. draft \in Nat /\ history[draft].doc \in Document /\ <<>> \in Seq(Entries)
  <2>1. history \in Seq(Revisions)
    BY DEF HistoryOK
  <2>2. DOMAIN history = 1..Len(history) /\ history[draft] \in Revisions
    BY <2>1
  <2>. QED BY <2>2 DEF Revisions
<1>2. /\ y \in Tabs /\ y.queue = <<>> /\ y.doc = history[draft].doc /\ y.draft = draft
      /\ y.token = x.token /\ y.init = x.init /\ y.recovery = x.recovery /\ y.page = "open"
  BY <1>1, WordsKnown DEF Tabs
<1>3. ReplaceWithLatest(x, draft) = Schedule(y, FALSE)
  BY DEF ReplaceWithLatest
<1>. HIDE DEF y
<1>4. Renews(x, y)
  BY <1>2 DEF Renews, Shows, LastDoc
<1>. QED BY <1>2, <1>3, <1>4, ScheduleShows, RenewsThen

\* what waited is recovered, and shown
LEMMA RecoveredShows ==
  ASSUME NEW x \in Tabs, NEW w, PayloadSound(w), w # Empty
  PROVE  Renews(x, Recovered(x, w))
<1>. DEFINE a == w.actions
            first == Head(a).base
            n == IF first = 0 THEN w.base ELSE first
            e == [a[1] EXCEPT !.base = n]
            q == [a EXCEPT ![1] = e]
            z == [x EXCEPT !.queue = q, !.doc = Last(a).doc, !.state = "pending"]
<1>1. w \in Payloads /\ a # <<>> /\ a \in Seq(Entries) /\ w.base \in Nat
  BY DEF PayloadSound, Payloads
<1>. HIDE DEF a
<1>2. /\ 1 \in DOMAIN a /\ Len(a) \in DOMAIN a /\ Head(a) = a[1] /\ a[1] \in Entries
      /\ a[Len(a)] \in Entries /\ Len(a) \in Nat
  BY <1>1, InQueue
<1>3. e \in Entries /\ e.doc = a[1].doc
  BY <1>1, <1>2 DEF Entries
<1>4. Recovered(x, w) = Schedule(z, FALSE)
  <2>1. Recovered(x, w) = Schedule([x EXCEPT !.queue = [a EXCEPT ![1].base = n],
                                             !.doc = Last(a).doc, !.state = "pending"], FALSE)
    BY DEF Recovered, a
  <2>. QED BY <2>1
<1>. HIDE DEF n, e
<1>5. /\ q \in Seq(Entries) /\ Len(q) = Len(a) /\ q # <<>>
      /\ q[1] = e /\ \A i \in DOMAIN a : i # 1 => q[i] = a[i]
  BY <1>1, <1>3, NewHead
<1>6. q[Len(q)].doc = Last(a).doc
  BY <1>2, <1>3, <1>5 DEF Last
<1>. HIDE DEF q
<1>7. Last(a).doc \in Document
  BY <1>2 DEF Last, Entries
<1>8. /\ z \in Tabs /\ z.queue = q /\ z.doc = Last(a).doc /\ z.token = x.token
      /\ z.init = x.init /\ z.recovery = x.recovery /\ z.page = "open"
  BY <1>5, <1>7, WordsKnown DEF Tabs
<1>. HIDE DEF z
<1>9. Renews(x, z)
  BY <1>5, <1>6, <1>8 DEF Renews, Shows, LastDoc, Last
<1>. QED BY <1>4, <1>8, <1>9, ScheduleShows, RenewsThen

\* the head was saved: the rest, or the revision that holds the head, is still shown
LEMMA AcknowledgeShows ==
  ASSUME NEW x, Able(x), x.flight, online \in BOOLEAN, NEW rev \in DOMAIN history
  PROVE  LET y == Acknowledge(x, rev) IN
         /\ y \in Tabs /\ y.token = x.token /\ (y.init => x.init)
         /\ y.recovery = "unavailable" => x.recovery = "unavailable"
         /\ Shows(x) /\ history[rev].doc = x.queue[1].doc => Shows(y)
         /\ x.recovery # "unavailable" => Adrift(y)
<1>. DEFINE rest == Tail(x.queue)
            s == IF rest = <<>> /\ x.staged = <<>> THEN "saved" ELSE "pending"
            z == [x EXCEPT !.queue = rest, !.draft = rev, !.flight = FALSE, !.state = s]
            w == Schedule(z, FALSE)
            y == Pump(w, online)
<1>1. x \in Tabs /\ x.queue \in Seq(Entries) /\ x.queue # <<>> /\ x.init
  BY DEF Able, Tabs, Fit
<1>2. /\ rest \in Seq(Entries) /\ Len(rest) = Len(x.queue) - 1
      /\ \A i \in 1..Len(rest) : rest[i] = x.queue[i + 1]
      /\ Len(rest) \in Nat
  BY <1>1
<1>3. Acknowledge(x, rev) = y
  BY DEF Acknowledge
<1>4. s \in Words
  BY WordsKnown
<1>5. rev \in Nat
  <2>1. DOMAIN history = 1..Len(history)
    BY HistoryTyped
  <2>. QED BY <2>1
<1>. HIDE DEF rest, s
<1>6. /\ z \in Tabs /\ z.queue = rest /\ z.staged = x.staged /\ z.doc = x.doc /\ z.draft = rev
      /\ z.token = x.token /\ z.init = x.init /\ z.writing = x.writing /\ z.recovery = x.recovery
      /\ z.page = "open"
  BY <1>1, <1>2, <1>4, <1>5 DEF Tabs
<1>. HIDE DEF z
<1>7. ASSUME history[rev].doc = x.queue[1].doc PROVE LastDoc(z) = LastDoc(x)
  <2>0. rest = <<>> <=> Len(rest) = 0
    BY <1>2, EmptySeq
  <2>1. CASE rest = <<>>
    <3>1. Len(x.queue) = 1
      BY <1>1, <1>2, <2>0, <2>1
    <3>. QED BY <1>1, <1>6, <1>7, <2>1, <3>1 DEF LastDoc, Last
  <2>2. CASE rest # <<>>
    <3>1. rest[Len(rest)] = x.queue[Len(x.queue)]
      BY <1>1, <1>2, <2>0, <2>2
    <3>. QED BY <1>1, <1>6, <2>2, <3>1 DEF LastDoc, Last
  <2>. QED BY <2>1, <2>2
<1>8. Shows(x) /\ history[rev].doc = x.queue[1].doc => Shows(z)
  BY <1>6, <1>7 DEF Shows
<1>9. Keeps(z, w) /\ w \in Tabs /\ (x.recovery # "unavailable" => Adrift(w))
  BY <1>1, <1>6, ScheduleShows
<1>. HIDE DEF w
<1>10. Keeps(z, y)
  BY <1>9, PumpShows, KeepsTransitive
<1>11. Keeps(w, y)
  BY <1>9, PumpShows
<1>. HIDE DEF y
<1>. QED BY <1>1, <1>3, <1>6, <1>8, <1>9, <1>10, <1>11 DEF Keeps

LEMMA ShowsKept ==
  ASSUME NEW x, Grows, history' = history \/ x.draft \in DOMAIN history, Shows(x) PROVE Shows(x)'
<1>1. LastDoc(x)' = LastDoc(x)
  BY DEF Grows, LastDoc
<1>. QED BY <1>1 DEF Shows

\* what an open page shows it shows after the step, if it stays as it is or follows
LEMMA RowShown ==
  ASSUME SaveInv, ShownInv, Grows, Taken, NEW p \in Pages, IsOpen(p),
         tabs'[p] = tabs[p] \/ (history' = history /\ Follows(p, tabs'[p]))
  PROVE  (tabs[p].recovery = "unavailable" => JournalMayFail)' /\ Displayed(p, tabs[p])'
<1>1. (Duplicates' <=> Duplicates) /\ (JournalMayFail' <=> JournalMayFail)
  BY DEF Grows, Duplicates, JournalMayFail, Events
<1>2. PICK x : x = tabs[p]
  OBVIOUS
<1>3. PICK y : y = tabs'[p]
  OBVIOUS
<1>4. (x.recovery = "unavailable" => JournalMayFail) /\ Displayed(p, x)
  BY <1>2 DEF ShownInv
<1>5. x.draft \in DOMAIN history
  BY <1>2, OpenAble DEF Fit
<1>6. (y = x \/ (history' = history /\ Follows(p, y))) /\ y.token = x.token
  BY <1>2, <1>3 DEF Follows
<1>7. (y.recovery = "unavailable" => JournalMayFail)
      /\ Displayed(p, y) /\ (history' = history \/ y.draft \in DOMAIN history)
  BY <1>2, <1>4, <1>5, <1>6 DEF Follows
<1>8. Shows(y) => Shows(y)'
  BY <1>7, ShowsKept
<1>9. ASSUME ~ Live(p), Adrift(y), ~ Shows(y) PROVE ~ Live(p)'
  <2>1. x.init
    BY <1>2, <1>6, <1>9 DEF Follows, Adrift
  <2>. QED BY <1>2, <1>3, <1>6, <1>9, <2>1, WasLive
<1>10. Adrift(y)' <=> Adrift(y)
  BY DEF Adrift, NoWrite
<1>11. Displayed(p, y)'
  BY <1>1, <1>7, <1>8, <1>9, <1>10 DEF Displayed
<1>. QED BY <1>1, <1>3, <1>7, <1>11
\* every page stays as it is, follows, or closes
LEMMA RowsShown ==
  ASSUME SaveInv, ShownInv, Grows, Taken,
         \A q \in Pages : \/ tabs'[q] = tabs[q]
                          \/ IsOpen(q) /\ history' = history /\ Follows(q, tabs'[q])
                          \/ tabs'[q].page = "closed"
  PROVE  ShownInv'
<1>1. (Duplicates' <=> Duplicates) /\ (JournalMayFail' <=> JournalMayFail)
  BY DEF Grows, Duplicates, JournalMayFail, Events
<1>2. ASSUME NEW q \in Pages, Present(q)' PROVE Present(q)
  BY <1>2 DEF Present, IsOpen
<1>3. ASSUME NEW q \in Pages, IsOpen(q)'
      PROVE  /\ IsOpen(q) /\ tabs'[q].token = tabs[q].token
             /\ tabs'[q].init => tabs[q].init \/ journal'.owner = q
  BY <1>3 DEF IsOpen, Follows
<1>4. Alone'
  <2>1. SUFFICES ASSUME ~ Duplicates
                 PROVE  /\ \A p, q \in Pages : Present(p)' /\ Present(q)' => p = q
                        /\ \A p \in Pages : IsOpen(p)' /\ tabs'[p].init => journal'.owner = p
    BY <1>1 DEF Alone
  <2>2. /\ \A p, q \in Pages : Present(p) /\ Present(q) => p = q
        /\ \A p \in Pages : IsOpen(p) /\ tabs[p].init => journal.owner = p
    BY <2>1 DEF ShownInv, Alone
  <2>3. ASSUME NEW p \in Pages, IsOpen(p)', tabs'[p].init PROVE journal'.owner = p
    <3>1. CASE journal'.owner = journal.owner
      BY <1>3, <2>2, <2>3, <3>1
    <3>2. CASE \E q \in Pages : IsOpen(q) /\ ~ tabs[q].init /\ journal'.owner = q
      BY <1>3, <2>2, <2>3, <3>2 DEF Present, IsOpen
    <3>. QED BY <3>1, <3>2 DEF Taken
  <2>. QED BY <1>2, <2>2, <2>3
<1>5. ASSUME NEW p \in Pages, IsOpen(p)'
      PROVE  (tabs[p].recovery = "unavailable" => JournalMayFail)' /\ Displayed(p, tabs[p])'
  BY <1>3, <1>5, RowShown DEF IsOpen
<1>. QED BY <1>4, <1>5 DEF ShownInv

\* one page follows
LEMMA OneShown ==
  ASSUME SaveInv, ShownInv, NEW p \in Pages, IsOpen(p), NEW y, Follows(p, y),
         tabs' = [tabs EXCEPT ![p] = y], Taken, world' = world, token' = token, history' = history
  PROVE  ShownInv'
<1>1. DOMAIN tabs = Pages /\ token \in Nat
  BY DEF SaveInv, PagesOK, HistoryOK
<1>2. Grows
  BY DEF Grows
<1>3. tabs'[p] = y /\ \A q \in Pages \ {p} : tabs'[q] = tabs[q]
  BY <1>1
<1>. QED BY <1>2, <1>3, RowsShown

LEMMA StepShown ==
  ASSUME SaveInv, ShownInv, NEW p \in Pages, IsOpen(p), NEW y, Follows(p, y), Step(p, y),
         Taken, world' = world, token' = token, history' = history
  PROVE  ShownInv'
<1>. DEFINE z == Emitted(y)
<1>1. Follows(p, z)
  BY EmittedShows, FollowsThen DEF Follows
<1>2. tabs' = [tabs EXCEPT ![p] = z]
  BY DEF Step
<1>. HIDE DEF z
<1>. QED BY <1>1, <1>2, OneShown

\* nothing happens to the pages
LEMMA TabsShown ==
  ASSUME SaveInv, ShownInv, Grows, Taken, tabs' = tabs PROVE ShownInv'
BY RowsShown

LEMMA MethodShown ==
  ASSUME SaveInv, ShownInv, NEW p \in Pages, IsOpen(p), NEW y,
         Keeps(tabs[p], y) \/ Renews(tabs[p], y), Step(p, y),
         journal' = journal, world' = world, token' = token, history' = history
  PROVE  ShownInv'
<1>1. Follows(p, y)
  BY KeepsFollows, RenewsFollows
<1>2. Taken
  BY DEF Taken
<1>. QED BY <1>1, <1>2, StepShown

\* a mark that no title shows
LEMMA FlagShown ==
  ASSUME SaveInv, ShownInv, NEW p \in Pages, IsOpen(p), NEW y,
         \/ \E m \in Words : y = [tabs[p] EXCEPT !.mutation = m]
         \/ \E b \in BOOLEAN : y = [tabs[p] EXCEPT !.leaving = b]
         \/ \E d \in Words, n \in Nat : y = [tabs[p] EXCEPT !.discard = d, !.latest = n],
         \/ tabs' = [tabs EXCEPT ![p] = y]
         \/ Step(p, y),
         journal' = journal, world' = world, token' = token, history' = history
  PROVE  ShownInv'
<1>1. PICK x : x = tabs[p]
  OBVIOUS
<1>2. x \in Tabs
  BY <1>1, OpenAble
<1>. DEFINE Same ==
  /\ y \in Tabs /\ y.queue = x.queue /\ y.staged = x.staged /\ y.doc = x.doc
  /\ y.draft = x.draft /\ y.token = x.token /\ y.init = x.init
  /\ y.writing = x.writing /\ y.recovery = x.recovery
<1>3. Same
  <2>1. ASSUME NEW m \in Words, y = [x EXCEPT !.mutation = m] PROVE Same
    BY <1>2, <2>1 DEF Tabs
  <2>2. ASSUME NEW b \in BOOLEAN, y = [x EXCEPT !.leaving = b] PROVE Same
    BY <1>2, <2>2 DEF Tabs
  <2>3. ASSUME NEW d \in Words, NEW n \in Nat, y = [x EXCEPT !.discard = d, !.latest = n]
        PROVE  Same
    BY <1>2, <2>3 DEF Tabs
  <2>. HIDE DEF Same
  <2>. QED BY <1>1, <2>1, <2>2, <2>3
<1>4. LastDoc(y) = LastDoc(x)
  BY <1>3 DEF LastDoc
<1>5. Keeps(x, y)
  BY <1>3, <1>4 DEF Keeps, Shows, Adrift
<1>6. CASE tabs' = [tabs EXCEPT ![p] = y]
  BY <1>1, <1>5, <1>6, KeepsFollows, OneShown DEF Taken
<1>7. CASE Step(p, y)
  BY <1>1, <1>5, <1>7, MethodShown
<1>. QED BY <1>6, <1>7

-----------------------------------------------------------------------------
(* One lemma per action.                                                    *)

LEMMA EditShown ==
  ASSUME SaveInv, ShownInv, CorrectionsAreSafe, NEW p \in Pages, Edit(p) PROVE ShownInv'
<1>1. /\ IsOpen(p) /\ MayEdit(tabs[p]) /\ edits < world.edits
      /\ world' = world /\ journal' = journal /\ history' = history /\ token' = token
  BY DEF Edit, server
<1>2. PICK text \in BOOLEAN, same \in BOOLEAN, fix \in BOOLEAN :
        LET x == tabs[p]
            e == edits + 1
            doc == (IF fix THEN x.doc \ Bad ELSE x.doc) \cup {e}
        IN Step(p, Complete(x, Key(e), doc, text, same))
  BY DEF Edit
<1>. DEFINE e == edits + 1
            doc == (IF fix THEN tabs[p].doc \ Bad ELSE tabs[p].doc) \cup {e}
<1>3. Able(tabs[p]) /\ tabs[p] \in Tabs
  BY <1>1, OpenAble
<1>4. e \in 1..MaxEdits
  BY <1>1, EditBound
<1>5. doc \in Document
  BY <1>3, <1>4, EditBound DEF Tabs
<1>6. Clean(tabs[p].doc) \subseteq doc
  BY DEF Clean
<1>7. Key(e) \in Nat \ {0}
  BY <1>4, EditBound DEF Key
<1>8. SafeToCorrect(tabs[p])
  BY <1>1 DEF CorrectionsAreSafe, SafeToCorrect, OpenPages
<1>9. tabs[p].init /\ online \in BOOLEAN
  BY <1>1, <1>3, EditorIsOpen DEF SaveInv
<1>10. Step(p, Complete(tabs[p], Key(e), doc, text, same))
  BY <1>2
<1>. HIDE DEF e, doc
<1>11. LET z == Complete(tabs[p], Key(e), doc, text, same) IN Renews(tabs[p], z) \/ Keeps(tabs[p], z)
  BY <1>3, <1>5, <1>6, <1>7, <1>8, <1>9, CompleteShows
<1>. QED BY <1>1, <1>10, <1>11, MethodShown

LEMMA BeginGestureShown ==
  ASSUME SaveInv, ShownInv, NEW p \in Pages, BeginGesture(p) PROVE ShownInv'
<1>1. /\ IsOpen(p) /\ MayEdit(tabs[p]) /\ edits < world.edits /\ edits' = edits + 1
      /\ tabs[p].staged = <<>>
      /\ world' = world /\ journal' = journal /\ history' = history /\ token' = token
  BY DEF BeginGesture, server
<1>. DEFINE doc == tabs[p].doc \cup {edits'}
<1>2. PICK render \in BOOLEAN : Step(p, Stage(tabs[p], StagedKey(edits'), doc, render))
  BY DEF BeginGesture
<1>3. Able(tabs[p]) /\ tabs[p] \in Tabs
  BY <1>1, OpenAble
<1>4. edits' \in 1..MaxEdits
  BY <1>1, EditBound
<1>5. doc \in Document /\ tabs[p].doc \subseteq doc
  BY <1>3, <1>4, EditBound DEF Tabs
<1>6. StagedKey(edits') \in Nat \ {0} /\ StagedKey(edits') > MaxEdits
  BY <1>4, EditBound DEF StagedKey
<1>7. tabs[p].init
  BY <1>1, <1>3, EditorIsOpen
<1>. HIDE DEF doc
<1>8. Keeps(tabs[p], Stage(tabs[p], StagedKey(edits'), doc, render))
  BY <1>1, <1>3, <1>5, <1>6, <1>7, StageShows
<1>. QED BY <1>1, <1>2, <1>8, MethodShown

LEMMA FinishGestureShown ==
  ASSUME SaveInv, ShownInv, CorrectionsAreSafe, NEW p \in Pages, FinishGesture(p) PROVE ShownInv'
<1>. DEFINE key == tabs[p].staged[1].key - MaxEdits
            doc == tabs[p].staged[1].doc
<1>1. /\ IsOpen(p) /\ MayEdit(tabs[p]) /\ tabs[p].staged # <<>>
      /\ world' = world /\ journal' = journal /\ history' = history /\ token' = token
      /\ Step(p, Complete(tabs[p], key, doc, FALSE, FALSE))
  BY DEF FinishGesture, server
<1>2. Able(tabs[p])
  BY <1>1, OpenAble
<1>3. key \in Nat \ {0} /\ doc \in Document /\ tabs[p].doc \subseteq doc
  BY <1>1, <1>2, StagedEntry, EditBound
<1>4. SafeToCorrect(tabs[p]) /\ Clean(tabs[p].doc) \subseteq doc
  BY <1>1, <1>3 DEF CorrectionsAreSafe, SafeToCorrect, OpenPages, Clean
<1>5. tabs[p].init /\ online \in BOOLEAN
  BY <1>1, <1>2, EditorIsOpen DEF SaveInv
<1>. HIDE DEF key, doc
<1>6. LET z == Complete(tabs[p], key, doc, FALSE, FALSE) IN Renews(tabs[p], z) \/ Keeps(tabs[p], z)
  BY <1>2, <1>3, <1>4, <1>5, CompleteShows
<1>. QED BY <1>1, <1>6, MethodShown

LEMMA CancelGestureShown ==
  ASSUME SaveInv, ShownInv, NEW p \in Pages, CancelGesture(p) PROVE ShownInv'
<1>. DEFINE y == Stage(tabs[p], tabs[p].staged[1].key, tabs[p].doc, FALSE)
<1>1. /\ IsOpen(p) /\ MayEdit(tabs[p]) /\ tabs[p].staged # <<>>
      /\ tabs[p].doc # tabs[p].staged[1].doc
      /\ world' = world /\ journal' = journal /\ history' = history /\ token' = token
      /\ Step(p, y)
  BY DEF CancelGesture, server
<1>2. Able(tabs[p]) /\ tabs[p].doc \in Document
  BY <1>1, OpenAble DEF Tabs
<1>3. tabs[p].staged[1].key \in Nat \ {0} /\ tabs[p].staged[1].key > MaxEdits
  BY <1>1, <1>2, StagedEntry, EditBound
<1>4. tabs[p].init
  BY <1>1, <1>2, EditorIsOpen
<1>5. Keeps(tabs[p], y)
  BY <1>1, <1>2, <1>3, <1>4, StageShows
<1>. HIDE DEF y
<1>. QED BY <1>1, <1>5, MethodShown

LEMMA FlushTextShown ==
  ASSUME SaveInv, ShownInv, NEW p \in Pages, FlushText(p) PROVE ShownInv'
<1>1. /\ IsOpen(p) /\ Unready(tabs[p]) /\ Step(p, Flush(tabs[p]))
      /\ world' = world /\ journal' = journal /\ history' = history /\ token' = token
  BY DEF FlushText, server
<1>2. Able(tabs[p]) /\ Fit(tabs[p])
  BY <1>1, OpenAble
<1>3. tabs[p].init /\ online \in BOOLEAN
  <2>1. tabs[p].queue # <<>>
    BY <1>1 DEF Unready
  <2>. QED BY <1>2, <2>1 DEF SaveInv, Fit
<1>4. Keeps(tabs[p], Flush(tabs[p]))
  BY <1>2, <1>3, FlushShows
<1>. QED BY <1>1, <1>4, MethodShown

LEMMA RetryTimerShown ==
  ASSUME SaveInv, ShownInv, NEW p \in Pages, RetryTimer(p) PROVE ShownInv'
<1>. DEFINE y == [tabs[p] EXCEPT !.retryTimer = FALSE]
<1>1. /\ IsOpen(p) /\ Step(p, Pump(y, online))
      /\ world' = world /\ journal' = journal /\ history' = history /\ token' = token
  BY DEF RetryTimer, server
<1>2. online \in BOOLEAN /\ tabs[p] \in Tabs
  BY <1>1, OpenAble DEF SaveInv
<1>3. /\ y \in Tabs /\ Like(tabs[p], y) /\ y.writing = tabs[p].writing
      /\ y.recovery = tabs[p].recovery
  BY <1>2 DEF Tabs, Like
<1>. HIDE DEF y
<1>4. Keeps(tabs[p], Pump(y, online))
  BY <1>2, <1>3, SoftShows, PumpShows, KeepsTransitive
<1>. QED BY <1>1, <1>4, MethodShown

LEMMA RecheckShows ==
  ASSUME NEW x \in Tabs, ~ x.init, NEW s \in {"checking", "blocked"}
  PROVE  Keeps(x, [x EXCEPT !.recovery = s])
<1>. DEFINE y == [x EXCEPT !.recovery = s]
<1>1. s \in Words /\ s # "unavailable"
  BY WordsKnown
<1>2. y \in Tabs /\ Like(x, y) /\ y.recovery = s
  BY <1>1 DEF Tabs, Like
<1>. HIDE DEF y
<1>3. LastDoc(y) = LastDoc(x)
  BY <1>2 DEF Like, LastDoc
<1>4. Keeps(x, y)
  BY <1>1, <1>2, <1>3 DEF Keeps, Shows, Adrift, Like
<1>. QED BY <1>4 DEF y

LEMMA RetryShown ==
  ASSUME SaveInv, ShownInv, NEW p \in Pages, Retry(p) PROVE ShownInv'
<1>. DEFINE y == IF tabs[p].init THEN RetryNow(tabs[p]) ELSE [tabs[p] EXCEPT !.recovery = "checking"]
<1>1. /\ IsOpen(p) /\ Step(p, y)
      /\ world' = world /\ journal' = journal /\ history' = history /\ token' = token
  BY DEF Retry, server
<1>2. online \in BOOLEAN /\ tabs[p] \in Tabs
  BY <1>1, OpenAble DEF SaveInv
<1>3. Keeps(tabs[p], y)
  BY <1>2, RetryNowShows, RecheckShows
<1>. HIDE DEF y
<1>. QED BY <1>1, <1>3, MethodShown

LEMMA HeartbeatShown ==
  ASSUME SaveInv, ShownInv, NEW p \in Pages, Heartbeat(p) PROVE ShownInv'
<1>1. /\ IsOpen(p) /\ Step(p, StopForAuthority(tabs[p]))
      /\ world' = world /\ journal' = journal /\ history' = history /\ token' = token
  BY DEF Heartbeat, server
<1>2. Keeps(tabs[p], StopForAuthority(tabs[p]))
  BY <1>1, OpenAble, StopShows
<1>. QED BY <1>1, <1>2, MethodShown

LEMMA DiscardShown ==
  ASSUME SaveInv, ShownInv, NEW p \in Pages, Discard(p) \/ DiscardLoaded(p) \/ DiscardFails(p)
  PROVE  ShownInv'
<1>. DEFINE x == tabs[p]
<1>1. /\ IsOpen(p)
      /\ world' = world /\ journal' = journal /\ history' = history /\ token' = token
  BY DEF Discard, DiscardLoaded, DiscardFails, Clearing, server
<1>2. /\ x \in Tabs /\ x.latest \in Nat /\ x.draft \in Nat /\ DOMAIN tabs = Pages
      /\ Len(history) \in Nat
  BY <1>1, OpenAble DEF Tabs, SaveInv, PagesOK, HistoryOK
<1>3. \E d \in Words, n \in Nat : LET y == [x EXCEPT !.discard = d, !.latest = n] IN
        tabs' = [tabs EXCEPT ![p] = y] \/ Step(p, y)
  <2>1. CASE Discard(p)
    <3>1. [x EXCEPT !.discard = "loading"] = [x EXCEPT !.discard = "loading", !.latest = x.latest]
      BY <1>2 DEF Tabs
    <3>2. \/ Step(p, [x EXCEPT !.discard = "loading"])
          \/ Step(p, [x EXCEPT !.discard = "clearing to leave", !.latest = x.draft])
      BY <2>1 DEF Discard
    <3>. QED BY <1>2, <3>1, <3>2, WordsKnown
  <2>2. CASE DiscardLoaded(p)
    <3>1. tabs' = [tabs EXCEPT ![p] = [x EXCEPT !.discard = "clearing", !.latest = Len(history)]]
      BY <1>2, <2>2 DEF DiscardLoaded
    <3>. QED BY <1>2, <3>1, WordsKnown
  <2>3. CASE DiscardFails(p)
    BY <2>3, WordsKnown DEF DiscardFails
  <2>. QED BY <2>1, <2>2, <2>3
<1>. QED BY <1>1, <1>3, FlagShown

LEMMA FlagsShown ==
  ASSUME SaveInv, ShownInv, NEW p \in Pages,
         Leave(p) \/ LeaveFails(p) \/ BeginChange(p) \/ GiveUpChange(p) \/ SendChange(p)
  PROVE  ShownInv'
<1>1. /\ IsOpen(p) /\ DOMAIN tabs = Pages
      /\ world' = world /\ journal' = journal /\ history' = history /\ token' = token
  BY DEF Leave, LeaveFails, BeginChange, GiveUpChange, SendChange, server, SaveInv, PagesOK
<1>2. CASE Leave(p) \/ LeaveFails(p)
  <2>1. PICK b \in BOOLEAN : tabs' = [tabs EXCEPT ![p] = [tabs[p] EXCEPT !.leaving = b]]
    BY <1>1, <1>2 DEF Leave, LeaveFails
  <2>. QED BY <1>1, <2>1, FlagShown
<1>3. CASE BeginChange(p) \/ GiveUpChange(p) \/ SendChange(p)
  <2>1. PICK m \in Words : tabs' = [tabs EXCEPT ![p] = [tabs[p] EXCEPT !.mutation = m]]
    BY <1>1, <1>3, WordsKnown DEF BeginChange, GiveUpChange, SendChange
  <2>. QED BY <1>1, <2>1, FlagShown
<1>. QED BY <1>2, <1>3

LEMMA JournalDoneShown ==
  ASSUME SaveInv, ShownInv, NEW p \in Pages, JournalDone(p) PROVE ShownInv'
<1>. DEFINE x == tabs[p]
            b == x.writing # Empty
            y == [x EXCEPT !.hasPayload = b, !.next = NoWrite, !.writing = x.next]
            r == IF b THEN "protected" ELSE "ready"
            z == [x EXCEPT !.hasPayload = b, !.next = NoWrite, !.writing = x.next, !.recovery = r]
            v == Pump(z, online)
<1>1. /\ IsOpen(p) /\ journal.owner = p /\ journal' = Landed(x.writing)
      /\ world' = world /\ history' = history /\ token' = token
  BY DEF JournalDone, server
<1>2. /\ online \in BOOLEAN /\ x \in Tabs
  BY <1>1, OpenAble DEF SaveInv
<1>3. Taken
  <2>1. journal = [owner |-> journal.owner, payload |-> journal.payload]
    BY DEF SaveInv, JournalOK
  <2>. QED BY <1>1, <2>1 DEF Taken, Landed
<1>4. IF y.writing # NoWrite THEN tabs' = [tabs EXCEPT ![p] = y] ELSE Step(p, v)
  <2>1. y.hasPayload = b /\ [y EXCEPT !.recovery = IF y.hasPayload THEN "protected" ELSE "ready"] = z
    BY <1>2 DEF Tabs
  <2>. HIDE DEF z
  <2>2. JournalDone(p) =>
          IF y.writing # NoWrite THEN tabs' = [tabs EXCEPT ![p] = y] /\ net' = net
          ELSE Step(p, Pump([y EXCEPT !.recovery = IF y.hasPayload THEN "protected" ELSE "ready"],
                            online))
    BY DEF JournalDone
  <2>. QED BY <2>1, <2>2
<1>5. r \in Words /\ r # "unavailable"
  BY WordsKnown
<1>. HIDE DEF r
<1>6. Shows(x)
  BY <1>1 DEF ShownInv, Displayed, Live
<1>7. Follows(p, y)
  <2>1. /\ y \in Tabs /\ Like(x, y) /\ y.recovery = x.recovery
    BY <1>2 DEF Tabs, Like
  <2>. HIDE DEF y
  <2>2. LastDoc(y) = LastDoc(x)
    BY <2>1 DEF Like, LastDoc
  <2>. QED BY <1>6, <2>1, <2>2 DEF Follows, Like, Displayed, Shows
<1>8. Follows(p, z)
  <2>1. /\ z \in Tabs /\ Like(x, z) /\ z.recovery = r
    BY <1>2, <1>5 DEF Tabs, Like
  <2>. HIDE DEF z
  <2>2. LastDoc(z) = LastDoc(x)
    BY <2>1 DEF Like, LastDoc
  <2>. QED BY <1>5, <1>6, <2>1, <2>2 DEF Follows, Like, Displayed, Shows
<1>9. Follows(p, v)
  <2>. HIDE DEF z
  <2>1. z \in Tabs
    BY <1>8 DEF Follows
  <2>. QED BY <1>2, <1>8, <2>1, PumpShows, FollowsThen
<1>. HIDE DEF y, v
<1>10. CASE y.writing # NoWrite
  BY <1>1, <1>3, <1>4, <1>7, <1>10, OneShown
<1>11. CASE ~ (y.writing # NoWrite)
  BY <1>1, <1>3, <1>4, <1>9, <1>11, StepShown
<1>. QED BY <1>10, <1>11

LEMMA WritingBegun ==
  ASSUME SaveInv, NEW p \in Pages, IsOpen(p), tabs[p].writing # NoWrite PROVE tabs[p].init
BY OpenAble DEF Fit

LEMMA JournalOwnedShown ==
  ASSUME SaveInv, ShownInv, NEW p \in Pages, JournalOwned(p) PROVE ShownInv'
<1>. DEFINE x == tabs[p]
            y == [x EXCEPT !.recovery = "blocked", !.writing = NoWrite, !.next = NoWrite]
<1>1. /\ IsOpen(p) /\ x.writing # NoWrite /\ Step(p, y)
      /\ world' = world /\ journal' = journal /\ history' = history /\ token' = token
  BY DEF JournalOwned, server
<1>2. x \in Tabs /\ x.init
  BY <1>1, OpenAble, WritingBegun
<1>3. y \in Tabs /\ Like(x, y) /\ y.recovery = "blocked"
  BY <1>2, WordsKnown DEF Tabs, Like
<1>. HIDE DEF y
<1>4. LastDoc(y) = LastDoc(x)
  BY <1>3 DEF Like, LastDoc
<1>5. Keeps(x, y)
  BY <1>2, <1>3, <1>4 DEF Keeps, Shows, Adrift, Like
<1>. QED BY <1>1, <1>5, MethodShown

LEMMA JournalFailsShown ==
  ASSUME SaveInv, ShownInv, ~ (Duplicates /\ JournalMayFail), NEW p \in Pages, JournalFails(p)
  PROVE  ShownInv'
<1>. DEFINE x == tabs[p]
            y == [x EXCEPT !.recovery = "unavailable", !.writing = NoWrite, !.next = NoWrite]
<1>1. /\ IsOpen(p) /\ Step(p, Pump(y, online)) /\ JournalMayFail
      /\ world' = world /\ journal' = journal /\ history' = history /\ token' = token
  BY DEF JournalFails, server, JournalMayFail
<1>2. online \in BOOLEAN /\ x \in Tabs
  BY <1>1, OpenAble DEF SaveInv
<1>3. y \in Tabs /\ Like(x, y)
  BY <1>2, WordsKnown DEF Tabs, Like
<1>. HIDE DEF y
<1>4. LastDoc(y) = LastDoc(x)
  BY <1>3 DEF Like, LastDoc
<1>5. Follows(p, y)
  BY <1>1, <1>3, <1>4 DEF Follows, Displayed, Shows, Like
<1>6. Follows(p, Pump(y, online))
  BY <1>2, <1>3, <1>5, PumpShows, FollowsThen
<1>7. Taken
  BY <1>1 DEF Taken
<1>. QED BY <1>1, <1>6, <1>7, StepShown

LEMMA LoadFailsShown ==
  ASSUME SaveInv, ShownInv, NEW p \in Pages, LoadFails(p) PROVE ShownInv'
<1>. DEFINE y == [tabs[p] EXCEPT !.recovery = "blocked"]
<1>1. /\ IsOpen(p) /\ tabs[p].recovery = "checking" /\ Step(p, y)
      /\ world' = world /\ history' = history /\ token' = token
  BY DEF LoadFails, server
<1>2. tabs[p] \in Tabs /\ ~ tabs[p].init
  BY <1>1, OpenAble DEF Fit
<1>3. Follows(p, y)
  BY <1>2, RecheckShows, KeepsFollows
<1>4. Taken
  <2>1. PICK owner \in {journal.owner, p} : journal' = [journal EXCEPT !.owner = owner]
    BY DEF LoadFails
  <2>2. journal = [owner |-> journal.owner, payload |-> journal.payload]
    BY DEF SaveInv, JournalOK
  <2>3. journal' = [owner |-> owner, payload |-> journal.payload]
    BY <2>1, <2>2
  <2>. QED BY <1>1, <1>2, <2>3 DEF Taken
<1>. HIDE DEF y
<1>. QED BY <1>1, <1>3, <1>4, StepShown

LEMMA LoadJournalShown ==
  ASSUME SaveInv, ShownInv, NEW p \in Pages, LoadJournal(p) PROVE ShownInv'
<1>. DEFINE x == tabs[p]
            w == journal.payload
            b == w # Empty
            y == [x EXCEPT !.init = TRUE, !.recovery = "ready", !.hasPayload = b]
            z == IF b THEN Recovered(y, w) ELSE y
            v == Pump(z, online)
<1>1. /\ IsOpen(p) /\ x.recovery = "checking" /\ journal' = [journal EXCEPT !.owner = p]
      /\ world' = world /\ history' = history /\ token' = token
  BY DEF LoadJournal, server
<1>2. online \in BOOLEAN /\ x \in Tabs /\ ~ x.init
  BY <1>1, OpenAble DEF SaveInv, Fit
<1>3. Step(p, v)
  <2>1. y.hasPayload = b
    BY <1>2 DEF Tabs
  <2>2. LoadJournal(p) => Step(p, Pump(IF y.hasPayload THEN Recovered(y, w) ELSE y, online))
    BY DEF LoadJournal
  <2>. HIDE DEF y
  <2>. QED BY <2>1, <2>2
<1>4. Shows(x)
  BY <1>1, <1>2 DEF ShownInv, Displayed, Adrift
<1>5. /\ y \in Tabs /\ y.queue = x.queue /\ y.staged = x.staged /\ y.doc = x.doc
      /\ y.draft = x.draft /\ y.token = x.token /\ y.recovery = "ready"
  BY <1>2, WordsKnown DEF Tabs
<1>. HIDE DEF y
<1>6. Shows(y)
  <2>1. LastDoc(y) = LastDoc(x)
    BY <1>5 DEF LastDoc
  <2>. QED BY <1>4, <1>5, <2>1 DEF Shows
<1>7. PayloadSound(w) /\ journal = [owner |-> journal.owner, payload |-> w]
  BY DEF SaveInv, JournalOK
<1>8. Renews(y, z)
  <2>1. CASE b
    <3>1. PICK u : u = w
      OBVIOUS
    <3>2. Renews(y, Recovered(y, u))
      BY <1>5, <1>7, <2>1, <3>1, RecoveredShows
    <3>. QED BY <2>1, <3>1, <3>2
  <2>2. CASE ~ b
    BY <1>5, <1>6, <2>2 DEF Renews
  <2>. QED BY <2>1, <2>2
<1>. HIDE DEF z
<1>9. Renews(y, v)
  BY <1>2, <1>8, PumpShows, RenewsThen DEF Renews
<1>10. Taken /\ journal'.owner = p
  BY <1>1, <1>2, <1>7 DEF Taken
<1>. HIDE DEF v
<1>11. Follows(p, v)
  BY <1>5, <1>9, <1>10 DEF Follows, Renews, Displayed
<1>. QED BY <1>1, <1>3, <1>10, <1>11, StepShown

LEMMA DiscardDoneShown ==
  ASSUME SaveInv, ShownInv, NEW p \in Pages, DiscardDone(p) PROVE ShownInv'
<1>. DEFINE x == tabs[p]
            b == x.leaving \/ x.discard = "clearing to leave"
            y == [x EXCEPT !.hasPayload = FALSE, !.init = TRUE, !.recovery = "ready",
                           !.discard = "no", !.latest = 0, !.leaving = b]
            z == ReplaceWithLatest(y, x.latest)
<1>1. /\ IsOpen(p) /\ x.discard \in {"clearing", "clearing to leave"}
      /\ journal.owner = p /\ journal' = Landed(Empty)
      /\ world' = world /\ history' = history /\ token' = token
  BY DEF DiscardDone, Clearing, server
<1>2. Step(p, z)
  <2>1. [x EXCEPT !.hasPayload = FALSE, !.init = TRUE, !.recovery = "ready", !.discard = "no",
                  !.latest = 0, !.leaving = @ \/ x.discard = "clearing to leave"] = y
    OBVIOUS
  <2>. HIDE DEF y
  <2>2. DiscardDone(p) =>
          Step(p, ReplaceWithLatest(
            [x EXCEPT !.hasPayload = FALSE, !.init = TRUE, !.recovery = "ready", !.discard = "no",
                      !.latest = 0, !.leaving = @ \/ x.discard = "clearing to leave"], x.latest))
    BY DEF DiscardDone
  <2>. QED BY <2>1, <2>2
<1>3. x \in Tabs /\ x.latest \in DOMAIN history /\ HistoryOK
  BY <1>1, OpenAble DEF Fit, SaveInv
<1>4. b \in BOOLEAN
  BY <1>3 DEF Tabs
<1>. HIDE DEF b
<1>5. y \in Tabs /\ y.token = x.token /\ y.recovery = "ready"
  BY <1>3, <1>4, WordsKnown DEF Tabs
<1>. HIDE DEF y
<1>6. Renews(y, z)
  BY <1>3, <1>5, ReplaceShows
<1>7. Taken /\ journal'.owner = p
  <2>1. journal = [owner |-> journal.owner, payload |-> journal.payload]
    BY DEF SaveInv, JournalOK
  <2>. QED BY <1>1, <2>1 DEF Taken, Landed
<1>. HIDE DEF z
<1>8. Follows(p, z)
  BY <1>5, <1>6, <1>7 DEF Follows, Renews, Displayed
<1>. QED BY <1>1, <1>2, <1>7, <1>8, StepShown

LEMMA ClosesShown ==
  ASSUME SaveInv, ShownInv, NEW p \in Pages, Leaves(p) \/ Crash(p) PROVE ShownInv'
<1>1. /\ tabs' = [tabs EXCEPT ![p] = Closed] /\ world' = world /\ history' = history
      /\ token' \in {token, token + 1}
  BY DEF Leaves, Crash, server
<1>2. journal' = journal \/ \E w : journal' = Landed(w)
  BY DEF Leaves, Crash
<1>3. Taken
  <2>1. journal = [owner |-> journal.owner, payload |-> journal.payload]
    BY DEF SaveInv, JournalOK
  <2>. QED BY <1>2, <2>1 DEF Taken, Landed
<1>4. DOMAIN tabs = Pages
  BY DEF SaveInv, PagesOK
<1>5. tabs'[p].page = "closed" /\ \A q \in Pages \ {p} : tabs'[q] = tabs[q]
  BY <1>1, <1>4 DEF Closed
<1>6. Grows
  BY <1>1 DEF Grows
<1>. QED BY <1>3, <1>5, <1>6, RowsShown

\* a page hears of an answer
LEMMA HeardShown ==
  ASSUME SaveInv, ShownInv, NEW p \in Pages, IsOpen(p), NEW y, Follows(p, y),
         tabs' = [tabs EXCEPT ![p] = y] \/ tabs' = [tabs EXCEPT ![p] = Emitted(y)],
         journal' = journal, world' = world, token' = token, history' = history
  PROVE  ShownInv'
<1>1. Taken
  BY DEF Taken
<1>. DEFINE z == Emitted(y)
<1>2. Follows(p, z)
  BY EmittedShows, FollowsThen DEF Follows
<1>3. tabs' = [tabs EXCEPT ![p] = y] \/ tabs' = [tabs EXCEPT ![p] = z]
  OBVIOUS
<1>. HIDE DEF z
<1>. QED BY <1>1, <1>2, <1>3, OneShown

LEMMA HearShown ==
  ASSUME SaveInv, ShownInv, ~ (Duplicates /\ JournalMayFail), NEW r \in net, Hear(r) PROVE ShownInv'
<1>. DEFINE p == r.page
            x == tabs[p]
            y == IF r.answer = "saved" THEN Acknowledge(x, r.rev) ELSE Fail(x, r.answer)
<1>1. /\ r.kind = "save" /\ p # 0 /\ r.answer \notin {"none", "committed"}
      /\ world' = world /\ history' = history /\ token' = token /\ journal' = journal
      /\ tabs' = [tabs EXCEPT ![p] = Emitted(y)]
  BY DEF Hear, server
<1>2. /\ x.flight /\ p \in Pages /\ IsOpen(p) /\ Carries(r, x) /\ RequestOK(r) /\ r \in Requests
  BY <1>1, SaveFlies DEF SaveInv, NetOK
<1>3. Able(x) /\ x \in Tabs /\ x.init /\ x.queue # <<>> /\ online \in BOOLEAN
  BY <1>2, OpenAble DEF SaveInv, Fit
<1>4. Displayed(p, x) /\ (x.recovery = "unavailable" => JournalMayFail)
  BY <1>2 DEF ShownInv
<1>5. Follows(p, y)
  <2>1. CASE r.answer = "saved"
    <3>1. r.rev \in DOMAIN history /\ (Live(p) => history[r.rev].doc = x.queue[1].doc)
      BY <1>1, <1>2, <2>1 DEF RequestOK, Carries
    <3>2. y = Acknowledge(x, r.rev)
      BY <2>1
    <3>. HIDE DEF y
    <3>3. /\ y \in Tabs /\ y.token = x.token /\ (y.init => x.init)
          /\ y.recovery = "unavailable" => x.recovery = "unavailable"
          /\ Shows(x) /\ history[r.rev].doc = x.queue[1].doc => Shows(y)
          /\ x.recovery # "unavailable" => Adrift(y)
      BY <1>2, <1>3, <3>1, <3>2, AcknowledgeShows
    <3>4. CASE Live(p)
      BY <1>4, <3>1, <3>3, <3>4 DEF Follows, Displayed
    <3>5. CASE ~ Live(p)
      <4>1. Duplicates
        BY <1>2, <1>3, <3>5 DEF ShownInv, Alone, Live
      <4>2. x.recovery # "unavailable"
        BY <1>4, <4>1
      <4>. QED BY <3>3, <3>5, <4>1, <4>2 DEF Follows, Displayed
    <3>. QED BY <3>4, <3>5
  <2>2. CASE r.answer # "saved"
    <3>1. r.answer \in {"authority", "conflict", "invalid", "failure"}
      BY <1>1, <1>2, <2>2 DEF Requests, Answers
    <3>2. y = Fail(x, r.answer)
      BY <2>2
    <3>. HIDE DEF y
    <3>3. Keeps(x, y)
      BY <1>3, <3>1, <3>2, FailShows
    <3>. QED BY <3>3, KeepsFollows
  <2>. QED BY <2>1, <2>2
<1>. HIDE DEF y
<1>. QED BY <1>1, <1>2, <1>5, HeardShown

LEMMA MutationShows ==
  ASSUME NEW x \in Tabs, NEW m \in Words PROVE Keeps(x, [x EXCEPT !.mutation = m])
<1>. DEFINE y == [x EXCEPT !.mutation = m]
<1>1. y \in Tabs /\ Like(x, y) /\ y.writing = x.writing /\ y.recovery = x.recovery
  BY DEF Tabs, Like
<1>. HIDE DEF y
<1>2. Keeps(x, y)
  BY <1>1, SoftShows
<1>. QED BY <1>2 DEF y

LEMMA LoseShown ==
  ASSUME SaveInv, ShownInv, NEW r \in net, Lose(r) PROVE ShownInv'
<1>. DEFINE p == r.page
            x == tabs[p]
<1>1. /\ p # 0 /\ world' = world /\ history' = history /\ token' = token /\ journal' = journal
  BY DEF Lose, server
<1>2. p \in Pages /\ IsOpen(p) /\ DOMAIN tabs = Pages
  BY <1>1 DEF SaveInv, NetOK, RequestOK, PagesOK
<1>3. x \in Tabs /\ online \in BOOLEAN
  BY <1>2, OpenAble DEF SaveInv
<1>4. CASE r.kind = "save"
  <2>. DEFINE y == Fail(x, "failure")
  <2>1. tabs' = [tabs EXCEPT ![p] = Emitted(y)]
    BY <1>2, <1>4 DEF Lose
  <2>2. x.queue # <<>>
    BY <1>1, <1>2, <1>4, SaveFlies, OpenAble DEF Fit
  <2>3. Keeps(x, y)
    BY <1>3, <2>2, FailShows
  <2>. HIDE DEF y
  <2>. QED BY <1>1, <1>2, <2>1, <2>3, KeepsFollows, HeardShown
<1>5. CASE r.kind # "save"
  <2>. DEFINE y == [x EXCEPT !.mutation = "no"]
  <2>1. tabs' = [tabs EXCEPT ![p] = y]
    BY <1>2, <1>5 DEF Lose
  <2>2. Keeps(x, y)
    BY <1>3, WordsKnown, MutationShows
  <2>. HIDE DEF y
  <2>. QED BY <1>1, <1>2, <2>1, <2>2, KeepsFollows, HeardShown
<1>. QED BY <1>4, <1>5

LEMMA HearChangeShown ==
  ASSUME SaveInv, ShownInv, NEW r \in net, HearChange(r) PROVE ShownInv'
<1>. DEFINE p == r.page
            x == tabs[p]
            y == [x EXCEPT !.mutation = "no"]
            adopt == r.answer = "saved" /\ x.mutation = "sent"
            z == ReplaceWithLatest(y, r.rev)
<1>1. /\ p # 0 /\ world' = world /\ history' = history /\ token' = token /\ journal' = journal
      /\ tabs' = [tabs EXCEPT ![p] = IF adopt THEN Emitted(z) ELSE y]
  BY DEF HearChange, server
<1>2. p \in Pages /\ IsOpen(p) /\ RequestOK(r)
  BY <1>1 DEF SaveInv, NetOK, RequestOK
<1>3. x \in Tabs /\ HistoryOK
  BY <1>2, OpenAble DEF SaveInv
<1>4. Keeps(x, y)
  BY <1>3, WordsKnown, MutationShows
<1>. HIDE DEF y
<1>5. CASE adopt
  <2>1. Renews(y, z)
    <3>1. r.rev \in DOMAIN history
      BY <1>2, <1>5 DEF RequestOK
    <3>. QED BY <1>3, <1>4, <3>1, ReplaceShows DEF Keeps
  <2>. HIDE DEF z
  <2>2. Follows(p, z)
    BY <1>4, <2>1, KeepsThenRenews, RenewsFollows
  <2>. QED BY <1>1, <1>2, <1>5, <2>2, HeardShown
<1>6. CASE ~ adopt
  BY <1>1, <1>2, <1>4, <1>6, KeepsFollows, HeardShown
<1>. QED BY <1>5, <1>6

LEMMA ConnectionShown ==
  ASSUME SaveInv, ShownInv, world' = world, history' = history, token' = token,
         journal' = journal,
         \A q \in Pages : tabs'[q] = tabs[q] \/ (IsOpen(q) /\ Keeps(tabs[q], tabs'[q]))
  PROVE  ShownInv'
<1>1. Grows /\ Taken
  BY DEF Grows, Taken, SaveInv, HistoryOK
<1>. QED BY <1>1, KeepsFollows, RowsShown

LEMMA GoOfflineShown ==
  ASSUME SaveInv, ShownInv, GoOffline PROVE ShownInv'
<1>1. /\ world' = world /\ history' = history /\ token' = token /\ journal' = journal
      /\ tabs' = [p \in Pages |->
           IF IsOpen(p) /\ ~tabs[p].lost /\ tabs[p].queue # <<>>
           THEN Emitted([tabs[p] EXCEPT !.state = "offline"]) ELSE tabs[p]]
  BY DEF GoOffline, server
<1>2. ASSUME NEW q \in Pages
      PROVE  tabs'[q] = tabs[q] \/ (IsOpen(q) /\ Keeps(tabs[q], tabs'[q]))
  <2>. DEFINE y == [tabs[q] EXCEPT !.state = "offline"]
  <2>1. tabs'[q] = tabs[q] \/ (IsOpen(q) /\ tabs'[q] = Emitted(y))
    BY <1>1
  <2>2. ASSUME IsOpen(q) PROVE Keeps(tabs[q], Emitted(y))
    <3>1. tabs[q] \in Tabs
      BY <2>2, OpenAble
    <3>2. /\ y \in Tabs /\ Like(tabs[q], y) /\ y.writing = tabs[q].writing
          /\ y.recovery = tabs[q].recovery
      BY <3>1, WordsKnown DEF Tabs, Like
    <3>. HIDE DEF y
    <3>. QED BY <3>1, <3>2, SoftShows, EmittedShows, KeepsTransitive
  <2>. HIDE DEF y
  <2>. QED BY <2>1, <2>2
<1>. QED BY <1>1, <1>2, ConnectionShown

LEMMA GoOnlineShown ==
  ASSUME SaveInv, ShownInv, GoOnline PROVE ShownInv'
<1>1. /\ world' = world /\ history' = history /\ token' = token /\ journal' = journal
      /\ tabs' = [p \in Pages |->
           IF IsOpen(p) /\ Resumed(tabs[p]) # tabs[p] THEN Emitted(Resumed(tabs[p])) ELSE tabs[p]]
  BY DEF GoOnline, server
<1>2. ASSUME NEW q \in Pages
      PROVE  tabs'[q] = tabs[q] \/ (IsOpen(q) /\ Keeps(tabs[q], tabs'[q]))
  <2>. DEFINE x == tabs[q]
              y == [x EXCEPT !.state = "pending", !.full = FALSE]
              z == Resumed(x)
  <2>1. tabs'[q] = x \/ (IsOpen(q) /\ tabs'[q] = Emitted(z))
    BY <1>1
  <2>2. z = IF ~x.lost /\ (x.state = "offline" \/ x.full) THEN Pump(y, TRUE) ELSE x
    BY DEF Resumed
  <2>3. ASSUME IsOpen(q) PROVE Keeps(x, Emitted(z))
    <3>1. x \in Tabs
      BY <2>3, OpenAble
    <3>2. /\ y \in Tabs /\ Like(x, y) /\ y.writing = x.writing /\ y.recovery = x.recovery
      BY <3>1, WordsKnown DEF Tabs, Like
    <3>. HIDE DEF y, z
    <3>3. Keeps(x, Pump(y, TRUE))
      BY <3>1, <3>2, SoftShows, PumpShows, KeepsTransitive
    <3>4. Keeps(x, z)
      BY <2>2, <3>1, <3>3, KeepsItself
    <3>5. z \in Tabs
      BY <3>4 DEF Keeps
    <3>. QED BY <3>4, <3>5, EmittedShows, KeepsTransitive
  <2>. HIDE DEF y, z
  <2>. QED BY <2>1, <2>3
<1>. QED BY <1>1, <1>2, ConnectionShown

\* the checkout is taken: by a page that opens, when no other does, or by a duplicate
LEMMA AcquireShown ==
  ASSUME SaveInv, ShownInv, NEW p \in Pages, Acquire(p) PROVE ShownInv'
<1>1. /\ tabs' = [tabs EXCEPT ![p] = Opening(token')]
      /\ Duplicates \/ \A q \in Pages : tabs[q].page \in {"closed", "unused"}
      /\ world' = world /\ history' = history /\ token' = token + 1 /\ journal' = journal
  BY DEF Acquire, Duplicates
<1>2. DOMAIN tabs = Pages
  BY DEF SaveInv, PagesOK
<1>3. ~ IsOpen(p)' /\ \A q \in Pages \ {p} : tabs'[q] = tabs[q]
  BY <1>1, <1>2 DEF Opening, IsOpen
<1>4. Grows /\ Taken
  BY <1>1 DEF Grows, Taken
<1>5. Duplicates' <=> Duplicates
  BY <1>1 DEF Duplicates, Events
<1>6. Alone'
  <2>1. SUFFICES ASSUME ~ Duplicates
                 PROVE  /\ \A q, s \in Pages : Present(q)' /\ Present(s)' => q = s
                        /\ \A q \in Pages : IsOpen(q)' /\ tabs'[q].init => journal'.owner = q
    BY <1>5 DEF Alone
  <2>2. \A q \in Pages \ {p} : ~ Present(q)' /\ ~ IsOpen(q)'
    BY <1>1, <1>3, <2>1 DEF Present, IsOpen
  <2>. QED BY <1>3, <2>2
<1>7. ASSUME NEW q \in Pages, IsOpen(q)'
      PROVE  (tabs[q].recovery = "unavailable" => JournalMayFail)' /\ Displayed(q, tabs[q])'
  <2>1. IsOpen(q) /\ tabs'[q] = tabs[q]
    BY <1>3, <1>7 DEF IsOpen
  <2>. QED BY <1>4, <2>1, RowShown
<1>. QED BY <1>6, <1>7 DEF ShownInv

LEMMA FetchShown ==
  ASSUME SaveInv, ShownInv, NEW p \in Pages, Fetch(p) PROVE ShownInv'
<1>. DEFINE x == Controller(tabs[p].token, Len(history))
<1>1. /\ tabs' = [tabs EXCEPT ![p] = x] /\ tabs[p].page = "opening"
      /\ world' = world /\ history' = history /\ token' = token /\ journal' = journal
  BY DEF Fetch, server
<1>2. DOMAIN tabs = Pages
  BY DEF SaveInv, PagesOK
<1>3. tabs'[p] = x /\ \A q \in Pages \ {p} : tabs'[q] = tabs[q]
  BY <1>1, <1>2
<1>4. Grows /\ Taken
  BY <1>1 DEF Grows, Taken, SaveInv, HistoryOK
<1>5. (Duplicates' <=> Duplicates)
  BY <1>1 DEF Duplicates, Events
<1>6. /\ x.queue = <<>> /\ ~ x.init /\ x.recovery = "checking" /\ x.draft = Len(history)
      /\ x.doc = history[Len(history)].doc
  BY DEF Controller
<1>. HIDE DEF x
<1>7. Alone'
  <2>1. \A q \in Pages : Present(q)' => Present(q)
    BY <1>1, <1>3 DEF Present
  <2>2. \A q \in Pages : IsOpen(q)' /\ tabs'[q].init => IsOpen(q) /\ tabs[q].init
    BY <1>3, <1>6 DEF IsOpen
  <2>. QED BY <1>1, <1>5, <2>1, <2>2 DEF ShownInv, Alone
<1>8. ASSUME NEW q \in Pages, IsOpen(q)'
      PROVE  (tabs[q].recovery = "unavailable" => JournalMayFail)' /\ Displayed(q, tabs[q])'
  <2>1. CASE q = p
    <3>1. PICK y : y = x
      OBVIOUS
    <3>2. Shows(y)'
      <4>1. history'[y.draft].doc = y.doc /\ y.queue = <<>>
        BY <1>1, <1>6, <3>1
      <4>2. LastDoc(y)' = history'[y.draft].doc
        BY <4>1 DEF LastDoc
      <4>. QED BY <4>1, <4>2 DEF Shows
    <3>. QED BY <1>3, <1>6, <2>1, <3>1, <3>2 DEF Displayed
  <2>2. CASE q # p
    <3>1. IsOpen(q) /\ tabs'[q] = tabs[q]
      BY <1>3, <1>8, <2>2 DEF IsOpen
    <3>. QED BY <1>4, <3>1, RowShown
  <2>. QED BY <2>1, <2>2
<1>. QED BY <1>7, <1>8 DEF ShownInv

\* the server, and the other clients
LEMMA ServerShown ==
  ASSUME SaveInv, ShownInv,
         (\E r \in net : Serve(r) \/ ReadBack(r)) \/ TakeAway \/ SaveElsewhere \/ UNCHANGED vars
  PROVE  ShownInv'
<1>1. /\ tabs' = tabs /\ world' = world /\ journal' = journal /\ token' \in {token, token + 1}
      /\ history' = history \/ \E e : history' = Append(history, e)
  BY DEF Serve, ReadBack, TakeAway, SaveElsewhere, vars, server, counters, ghosts
<1>2. history \in Seq(Revisions)
  BY DEF SaveInv, HistoryOK
<1>3. Grows
  <2>1. CASE history' = history
    BY <1>1, <2>1 DEF Grows
  <2>2. ASSUME NEW e, history' = Append(history, e) PROVE Grows
    <3>1. DOMAIN history \subseteq DOMAIN history' /\ \A i \in DOMAIN history : history'[i] = history[i]
      BY <1>2, <2>2
    <3>. QED BY <1>1, <3>1 DEF Grows
  <2>. QED BY <1>1, <2>1, <2>2
<1>4. Taken
  BY <1>1 DEF Taken
<1>. QED BY <1>1, <1>3, <1>4, TabsShown

-----------------------------------------------------------------------------
(* The invariant, and what "All changes saved" means.                       *)

LEMMA InitShown == ASSUME Init PROVE ShownInv
<1>1. \A p \in Pages : ~ IsOpen(p) /\ ~ Present(p)
  BY DEF Init, IsOpen, Present
<1>. QED BY <1>1 DEF ShownInv, Alone

LEMMA StepShows ==
  ASSUME SaveInv, ShownInv, CorrectionsAreSafe, ~ (Duplicates /\ JournalMayFail), [Next]_vars
  PROVE  ShownInv'
<1>1. ASSUME NEW p \in Pages, User(p) PROVE ShownInv'
  BY <1>1, EditShown, BeginGestureShown, FinishGestureShown, CancelGestureShown, RetryShown,
     AcquireShown, DiscardShown, FlagsShown DEF User
<1>2. ASSUME NEW p \in Pages, Page(p) PROVE ShownInv'
  BY <1>2, FlushTextShown, RetryTimerShown, HeartbeatShown, FetchShown, LoadJournalShown,
     JournalDoneShown, JournalOwnedShown, FlagsShown, DiscardShown, DiscardDoneShown, ClosesShown
     DEF Page
<1>3. ASSUME NEW p \in Pages, Trouble(p) PROVE ShownInv'
  BY <1>3, JournalFailsShown, LoadFailsShown, DiscardShown, FlagsShown, ClosesShown DEF Trouble
<1>4. ASSUME NEW r \in net, Network(r) \/ Lose(r) PROVE ShownInv'
  BY <1>4, ServerShown, HearShown, HearChangeShown, LoseShown DEF Network
<1>5. CASE GoOffline \/ GoOnline \/ TakeAway \/ SaveElsewhere \/ UNCHANGED vars
  BY <1>5, GoOfflineShown, GoOnlineShown, ServerShown
<1>. QED BY <1>1, <1>2, <1>3, <1>4, <1>5 DEF Next

LEMMA SavedShows ==
  ASSUME SaveInv, ShownInv PROVE SavedMeansSaved
<1>1. SUFFICES ASSUME NEW p \in OpenPages, CanLeave(tabs[p])
               PROVE  tabs[p].doc = history[tabs[p].draft].doc
  BY DEF SavedMeansSaved
<1>2. Displayed(p, tabs[p])
  BY <1>1 DEF ShownInv, OpenPages
<1>. QED BY <1>1, <1>2 DEF Displayed, Shows, Adrift, LastDoc, CanLeave

\* What a page shows is the last document that waits, the one the server holds, or a gesture
\* under way, however edits, answers, retries, reloads and losses interleave; a duplicate that
\* has lost the checkout and the journal is about to say so.
THEOREM ShownInvariant ==
  ASSUME PromptReads, JournalOrOnePage PROVE Spec /\ []CorrectionsAreSafe => []ShownInv
<1>1. Init => SaveInv /\ ShownInv
  BY InitHolds, InitShown
<1>2. SaveInv => ReadsInTime /\ ~ (Duplicates /\ JournalMayFail)
  BY DEF PromptReads, JournalOrOnePage, ReadsInTime, SaveInv, HistoryOK, Events, Duplicates,
         JournalMayFail
<1>3. SaveInv /\ ShownInv /\ CorrectionsAreSafe /\ [Next]_vars => SaveInv' /\ ShownInv'
  BY <1>2, StepHolds, StepShows
<1>. QED BY <1>1, <1>3, PTL DEF Spec

\* "All changes saved", with leaving allowed, means that the server holds the shown document in
\* the revision the page works on: for any number of pages, edits, retries and faults, as long
\* as corrections replace a document that nothing waits behind.
THEOREM SavedIsOnTheServer ==
  ASSUME PromptReads, JournalOrOnePage PROVE Spec /\ []CorrectionsAreSafe => []SavedMeansSaved
<1>1. SaveInv /\ ShownInv => SavedMeansSaved
  BY SavedShows
<1>. QED BY <1>1, SaveInvariant, ShownInvariant, PTL

\* Where the server refuses no document, it means so without a condition on the behaviour.
THEOREM SavedIsOnTheServerUnlessRefused ==
  ASSUME PromptReads, JournalOrOnePage, NothingRefused PROVE Spec => []SavedMeansSaved
<1>1. Init => SaveInv /\ ShownInv
  BY InitHolds, InitShown
<1>2. SaveInv => ReadsInTime /\ CorrectionsAreSafe /\ ~ (Duplicates /\ JournalMayFail)
  <2>1. SUFFICES ASSUME SaveInv
                 PROVE  ReadsInTime /\ CorrectionsAreSafe /\ ~ (Duplicates /\ JournalMayFail)
    OBVIOUS
  <2>2. ReadsInTime /\ Bad = {} /\ ~ (Duplicates /\ JournalMayFail)
    BY <2>1 DEF PromptReads, NothingRefused, JournalOrOnePage, ReadsInTime, SaveInv, HistoryOK,
                Events, Bad, Duplicates, JournalMayFail
  <2>. QED BY <2>1, <2>2, NothingToCorrect
<1>3. SaveInv /\ ShownInv /\ [Next]_vars => SaveInv' /\ ShownInv'
  BY <1>2, StepHolds, StepShows
<1>4. SaveInv /\ ShownInv => SavedMeansSaved
  BY SavedShows
<1>. QED BY <1>1, <1>3, <1>4, PTL DEF Spec

-----------------------------------------------------------------------------
(* Accepted edits are not lost silently (KeptInv): what the methods of the *)
(* controller do to what a page answers for.                               *)

LEMMA EditsIn ==
  ASSUME NEW s, NEW e PROVE e \in EditsOf(s) <=> \E i \in DOMAIN s : e \in s[i].doc
BY DEF EditsOf

\* queues with the same documents
LEMMA SameEdits ==
  ASSUME NEW s \in Seq(Entries), NEW t \in Seq(Entries), Len(t) = Len(s),
         \A i \in DOMAIN s : t[i].doc = s[i].doc
  PROVE  EditsOf(t) = EditsOf(s) /\ (s # <<>> => t # <<>> /\ Last(t).doc = Last(s).doc)
         /\ (t # <<>> => s # <<>>)
<1>1. DOMAIN t = DOMAIN s /\ (t = <<>> <=> s = <<>>)
  BY SameLength
<1>2. s # <<>> => Len(s) \in DOMAIN s
  BY InQueue
<1>. QED BY <1>1, <1>2 DEF EditsOf, Last

LEMMA PayloadHolds ==
  ASSUME NEW x \in Tabs, x.staged # <<>> => Len(x.staged) = 1
  PROVE  LET w == Payload(x) IN
         /\ w \in Payloads /\ w # NoWrite
         /\ EditsOf(w.actions) = EditsOf(x.queue) \cup EditsOf(x.staged)
         /\ x.staged # <<>> => EditsOf(x.staged) = x.staged[1].doc
         /\ x.staged = <<>> => EditsOf(x.staged) = {}
         /\ w.actions # <<>> =>
              IF x.staged = <<>> THEN x.queue # <<>> /\ Last(w.actions).doc = Last(x.queue).doc
              ELSE Last(w.actions).doc = x.staged[1].doc
<1>. DEFINE a == x.queue
            b == x.staged
            c == a \o b
            s == [i \in DOMAIN c |-> Stored(c[i])]
            w == Payload(x)
<1>1. a \in Seq(Entries) /\ b \in Seq(Entries) /\ (b # <<>> => Len(b) = 1)
  BY DEF Tabs
<1>2. w \in Payloads /\ w # NoWrite
  BY PayloadTyped, PayloadWritten
<1>3. w.actions = IF c = <<>> THEN <<>> ELSE s
  BY DEF Payload, Empty
<1>. HIDE DEF a, b, w
<1>4. /\ Len(a) \in Nat /\ DOMAIN a = 1..Len(a) /\ Len(b) \in Nat /\ DOMAIN b = 1..Len(b)
      /\ (b = <<>> <=> Len(b) = 0) /\ (a = <<>> <=> Len(a) = 0)
  BY <1>1, EmptySeq
<1>5. /\ c \in Seq(Entries) /\ DOMAIN c = 1..(Len(a) + Len(b)) /\ Len(c) = Len(a) + Len(b)
      /\ \A i \in DOMAIN a : c[i] = a[i]
      /\ b # <<>> => c[Len(a) + 1] = b[1]
  <2>1. Len(c) = Len(a) + Len(b) /\ c \in Seq(Entries)
    BY <1>1, ConcatProperties
  <2>. QED BY <1>1, <2>1, Joined
<1>. HIDE DEF c
<1>6. c = <<>> => a = <<>> /\ b = <<>>
  BY <1>4, <1>5, EmptySeq
<1>7. \A i \in DOMAIN c : i \in DOMAIN a \/ (b # <<>> /\ i = Len(a) + 1)
  <2>1. (b = <<>> /\ Len(b) = 0) \/ (b # <<>> /\ Len(b) = 1)
    BY <1>1, <1>4
  <2>. QED BY <1>4, <1>5, <2>1
<1>8. DOMAIN a \subseteq DOMAIN c /\ (b # <<>> => Len(a) + 1 \in DOMAIN c)
  <2>1. b # <<>> => Len(b) = 1
    BY <1>1
  <2>. QED BY <1>4, <1>5, <2>1
<1>9. (b # <<>> => EditsOf(b) = b[1].doc) /\ (b = <<>> => EditsOf(b) = {})
  <2>1. ASSUME b # <<>> PROVE EditsOf(b) = b[1].doc
    <3>1. DOMAIN b = {1}
      BY <1>1, <1>4, <2>1
    <3>. QED BY <3>1 DEF EditsOf
  <2>2. ASSUME b = <<>> PROVE EditsOf(b) = {}
    BY <2>2 DEF EditsOf
  <2>. QED BY <2>1, <2>2
<1>10. EditsOf(c) = EditsOf(a) \cup EditsOf(b)
  <2>1. ASSUME NEW e, e \in EditsOf(c) PROVE e \in EditsOf(a) \cup EditsOf(b)
    <3>1. PICK i \in DOMAIN c : e \in c[i].doc
      BY <2>1, EditsIn
    <3>2. CASE i \in DOMAIN a
      BY <3>1, <3>2, <1>5, EditsIn
    <3>3. CASE b # <<>> /\ i = Len(a) + 1
      BY <3>1, <3>3, <1>5, <1>9
    <3>. QED BY <1>7, <3>2, <3>3
  <2>2. ASSUME NEW e, e \in EditsOf(a) PROVE e \in EditsOf(c)
    BY <1>5, <1>8, <2>2, EditsIn
  <2>3. ASSUME NEW e, e \in EditsOf(b) PROVE e \in EditsOf(c)
    <3>1. b # <<>> /\ e \in b[1].doc
      BY <1>9, <2>3
    <3>. QED BY <1>5, <1>8, <3>1, EditsIn
  <2>. QED BY <2>1, <2>2, <2>3
<1>11. EditsOf(s) = EditsOf(c) /\ DOMAIN s = DOMAIN c /\ \A i \in DOMAIN c : s[i].doc = c[i].doc
  BY DEF EditsOf, Stored, Entry
<1>12. s \in Seq(Entries) /\ Len(s) = Len(c)
  <2>1. ASSUME NEW e \in Entries PROVE Stored(e) \in Entries
    BY DEF Entries, Stored, Entry
  <2>2. DOMAIN c = 1..Len(c) /\ Len(c) \in Nat /\ \A i \in 1..Len(c) : c[i] \in Entries
    BY <1>5
  <2>3. s \in [1..Len(c) -> Entries]
    BY <2>1, <2>2
  <2>. HIDE DEF s
  <2>. QED BY <2>2, <2>3
<1>. HIDE DEF s
<1>13. EditsOf(w.actions) = EditsOf(a) \cup EditsOf(b)
  <2>1. c = <<>> => EditsOf(a) \cup EditsOf(b) = {} /\ EditsOf(w.actions) = {}
    BY <1>3, <1>6 DEF EditsOf
  <2>. QED BY <1>3, <1>10, <1>11, <2>1
<1>14. ASSUME w.actions # <<>>
       PROVE  IF b = <<>> THEN a # <<>> /\ Last(w.actions).doc = Last(a).doc
              ELSE Last(w.actions).doc = b[1].doc
  <2>1. w.actions = s /\ c # <<>>
    BY <1>3, <1>14
  <2>2. Last(s) = s[Len(a) + Len(b)]
    BY <1>5, <1>12 DEF Last
  <2>3. CASE b = <<>>
    <3>1. Len(a) + Len(b) = Len(a) /\ a # <<>>
      <4>1. Len(c) # 0
        BY <1>5, <2>1, EmptySeq
      <4>. QED BY <1>4, <1>5, <2>3, <4>1
    <3>2. Len(a) \in DOMAIN a
      BY <1>1, <3>1, InQueue
    <3>. QED BY <1>5, <1>8, <1>11, <2>1, <2>2, <2>3, <3>1, <3>2 DEF Last
  <2>4. CASE b # <<>>
    <3>1. Len(b) = 1
      BY <1>1, <2>4
    <3>. QED BY <1>5, <1>8, <1>11, <2>1, <2>2, <2>4, <3>1
  <2>. QED BY <2>3, <2>4
<1>. QED BY <1>2, <1>9, <1>13, <1>14 DEF a, b, w

\* a payload written now holds all that the page answers for
LEMMA PayloadFits ==
  ASSUME NEW x \in Tabs, NEW v, Loose(x, v)
  PROVE  LET w == Payload(x) IN
         /\ WriteFits(w, x, v) /\ w # NoWrite /\ Wrote(w) \subseteq v.known /\ Held(x) \subseteq Wrote(w)
<1>. DEFINE w == Payload(x)
<1>1. x.staged # <<>> => Len(x.staged) = 1
  BY DEF Loose, Ordered
<1>2. /\ w # NoWrite
      /\ EditsOf(w.actions) = EditsOf(x.queue) \cup EditsOf(x.staged)
      /\ x.staged # <<>> => EditsOf(x.staged) = x.staged[1].doc
      /\ x.staged = <<>> => EditsOf(x.staged) = {}
      /\ w.actions # <<>> =>
           IF x.staged = <<>> THEN x.queue # <<>> /\ Last(w.actions).doc = Last(x.queue).doc
           ELSE Last(w.actions).doc = x.staged[1].doc
  BY <1>1, PayloadHolds
<1>. HIDE DEF w
<1>3. Gesture(x) \subseteq EditsOf(x.staged)
  BY <1>2 DEF Gesture
<1>4. v.claims \cap EditsOf(x.staged) \subseteq v.settled \cup Held(x)
  BY <1>2 DEF Loose, Ordered, Held, Gesture
<1>5. Sorted(w.actions, v.lost)
  BY <1>2 DEF Sorted, Loose, Ordered
<1>6. WriteFits(w, x, v)
  BY <1>2, <1>4, <1>5 DEF WriteFits, Loose, Held
<1>. QED BY <1>2, <1>3, <1>6 DEF Wrote, Held, Loose, Within, w

LEMMA ScheduleSafe ==
  ASSUME NEW x \in Tabs, NEW retry \in BOOLEAN, NEW v, Loose(x, v)
  PROVE  Safe(Schedule(x, retry), v)
<1>. DEFINE w == Payload(x)
            y == Schedule(x, retry)
<1>1. /\ WriteFits(w, x, v) /\ w # NoWrite /\ Wrote(w) \subseteq v.known /\ Held(x) \subseteq Wrote(w)
      /\ w \in Payloads
  BY PayloadFits, PayloadTyped
<1>2. \/ y = x /\ ~ (x.init /\ (x.recovery # "unavailable" \/ retry))
      \/ x.init /\ x.writing = NoWrite /\ y = [x EXCEPT !.recovery = "writing", !.writing = w]
      \/ x.init /\ x.writing # NoWrite /\ y = [x EXCEPT !.recovery = "writing", !.next = w]
  BY DEF Schedule
<1>. HIDE DEF w, y
<1>3. CASE y = x /\ ~ (x.init /\ (x.recovery # "unavailable" \/ retry))
  <2>1. y.writing = NoWrite /\ ~ Quiet(y)
    BY <1>3 DEF Loose, Recorded, Quiet
  <2>. QED BY <1>3, <2>1 DEF Safe, y
<1>4. ASSUME y.recovery = "writing", y.init, y.writing # NoWrite, Newest(y) = w,
             y.doc = x.doc, y.queue = x.queue, y.staged = x.staged,
             y.writing = x.writing \/ y.writing = w, y.next = x.next \/ y.next = w
      PROVE  Safe(y, v)
  <2>1. Held(y) = Held(x) /\ Gesture(y) = Gesture(x)
    BY <1>4 DEF Held, Gesture
  <2>2. Recorded(y)
    BY <1>4 DEF Recorded
  <2>3. Within(y, v.known) /\ Ordered(y, v.lost)
    BY <1>1, <1>4, <2>1 DEF Within, Ordered, Loose
  <2>4. WriteFits(y.writing, y, v) /\ WriteFits(y.next, y, v)
    BY <1>1, <1>4, <2>1 DEF WriteFits, Loose
  <2>5. Loose(y, v)
    BY <1>4, <2>1, <2>2, <2>3, <2>4 DEF Loose
  <2>6. ~ Quiet(y)
    BY <1>4 DEF Quiet
  <2>. QED BY <1>1, <1>4, <2>1, <2>5, <2>6 DEF Safe
<1>5. CASE x.init /\ x.writing = NoWrite /\ y = [x EXCEPT !.recovery = "writing", !.writing = w]
  <2>1. x.next = NoWrite
    BY <1>5 DEF Loose, Recorded
  <2>2. /\ y.recovery = "writing" /\ y.init /\ y.writing = w /\ y.next = x.next
        /\ y.doc = x.doc /\ y.queue = x.queue /\ y.staged = x.staged
    BY <1>5 DEF Tabs
  <2>. QED BY <1>1, <1>4, <2>1, <2>2 DEF Newest, y
<1>6. CASE x.init /\ x.writing # NoWrite /\ y = [x EXCEPT !.recovery = "writing", !.next = w]
  <2>1. /\ y.recovery = "writing" /\ y.init /\ y.writing = x.writing /\ y.next = w
        /\ y.doc = x.doc /\ y.queue = x.queue /\ y.staged = x.staged
    BY <1>6 DEF Tabs
  <2>. QED BY <1>1, <1>4, <1>6, <2>1 DEF Newest, y
<1>. QED BY <1>2, <1>3, <1>5, <1>6 DEF y

\* A method that takes no edit: the page answers for what it answered for, and stays safe for
\* whatever it was safe for.
Heeds(x, y) ==
  /\ y \in Tabs /\ y.staged = x.staged /\ y.doc = x.doc /\ y.init = x.init
  /\ EditsOf(y.queue) = EditsOf(x.queue)
  /\ Quiet(y) => Quiet(x)
  /\ \A v : Safe(x, v) => Safe(y, v)

LEMMA HeedsTransitive ==
  ASSUME NEW x, NEW y, NEW z, Heeds(x, y), Heeds(y, z) PROVE Heeds(x, z)
BY DEF Heeds

LEMMA HeedsItself == ASSUME NEW x \in Tabs PROVE Heeds(x, x)
BY DEF Heeds

LEMMA DocsHeed ==
  ASSUME NEW x \in Tabs, NEW y \in Tabs, Len(y.queue) = Len(x.queue),
         \A i \in DOMAIN x.queue : y.queue[i].doc = x.queue[i].doc,
         y.staged = x.staged, y.doc = x.doc, y.init = x.init,
         y.writing = x.writing, y.next = x.next, y.recovery = x.recovery
  PROVE  Heeds(x, y)
<1>1. x.queue \in Seq(Entries) /\ y.queue \in Seq(Entries)
  BY DEF Tabs
<1>2. /\ EditsOf(y.queue) = EditsOf(x.queue)
      /\ y.queue # <<>> => x.queue # <<>> /\ Last(y.queue).doc = Last(x.queue).doc
  BY <1>1, SameEdits
<1>3. Gesture(y) = Gesture(x) /\ Held(y) = Held(x) /\ Newest(y) = Newest(x) /\ Quiet(y) = Quiet(x)
  BY <1>2 DEF Gesture, Held, Newest, Quiet
<1>4. ASSUME NEW v, Safe(x, v) PROVE Safe(y, v)
  <2>1. Recorded(y) /\ Within(y, v.known)
    BY <1>2, <1>4 DEF Safe, Loose, Recorded, Within
  <2>2. Ordered(y, v.lost)
    BY <1>2, <1>3, <1>4 DEF Safe, Loose, Ordered, Sorted
  <2>3. WriteFits(y.writing, y, v) /\ WriteFits(y.next, y, v)
    BY <1>3, <1>4 DEF Safe, Loose, WriteFits
  <2>. QED BY <1>2, <1>3, <1>4, <2>1, <2>2, <2>3 DEF Safe, Loose
<1>. QED BY <1>2, <1>3, <1>4 DEF Heeds

LEMMA SoftHeeds ==
  ASSUME NEW x \in Tabs, NEW y \in Tabs, y.queue = x.queue, y.staged = x.staged, y.doc = x.doc,
         y.init = x.init, y.writing = x.writing, y.next = x.next, y.recovery = x.recovery
  PROVE  Heeds(x, y)
BY DocsHeed

LEMMA ScheduleHeeds ==
  ASSUME NEW x \in Tabs, NEW retry \in BOOLEAN PROVE Heeds(x, Schedule(x, retry))
<1>. DEFINE w == Payload(x)
            y == Schedule(x, retry)
<1>1. w \in Payloads /\ y \in Tabs
  BY PayloadTyped, ScheduleShows
<1>2. \/ y = x
      \/ y = [x EXCEPT !.recovery = "writing", !.writing = w]
      \/ y = [x EXCEPT !.recovery = "writing", !.next = w]
  BY DEF Schedule
<1>3. \A v : Safe(x, v) => Safe(y, v)
  BY ScheduleSafe DEF Safe
<1>. HIDE DEF w, y
<1>4. /\ y.staged = x.staged /\ y.doc = x.doc /\ y.init = x.init /\ y.queue = x.queue
      /\ Quiet(y) => Quiet(x)
  BY <1>1, <1>2 DEF Tabs, Quiet
<1>. QED BY <1>1, <1>3, <1>4 DEF Heeds, y

LEMMA SetWaitingHeeds ==
  ASSUME NEW x \in Tabs
  PROVE  Heeds(x, SetWaiting(x)) /\ Heeds(Schedule(x, FALSE), SetWaiting(x))
<1>. DEFINE y == Schedule(x, FALSE)
            z == SetWaiting(x)
<1>1. Heeds(x, y) /\ y \in Tabs
  BY ScheduleHeeds DEF Heeds
<1>2. \/ z = y
      \/ \E s \in {"offline", y.state, "pending"} : z = [y EXCEPT !.full = FALSE, !.state = s]
  <2>1. z = IF y.state \in Stopped THEN y
            ELSE [y EXCEPT !.full = FALSE,
                           !.state = IF ~online THEN "offline"
                                     ELSE IF y.flight \/ y.retryTimer THEN @ ELSE "pending"]
    BY DEF SetWaiting
  <2>. HIDE DEF y, z
  <2>. QED BY <2>1
<1>. HIDE DEF y, z
<1>3. ASSUME NEW s \in {"offline", y.state, "pending"}, z = [y EXCEPT !.full = FALSE, !.state = s]
      PROVE  Heeds(y, z)
  <2>1. s \in Words
    BY <1>1, WordsKnown DEF Tabs
  <2>2. /\ z \in Tabs /\ z.queue = y.queue /\ z.staged = y.staged /\ z.doc = y.doc
        /\ z.init = y.init /\ z.writing = y.writing /\ z.next = y.next /\ z.recovery = y.recovery
    BY <1>1, <1>3, <2>1 DEF Tabs
  <2>. QED BY <1>1, <2>2, SoftHeeds
<1>4. Heeds(y, z)
  BY <1>1, <1>2, <1>3, HeedsItself
<1>. QED BY <1>1, <1>4, HeedsTransitive DEF y, z

LEMMA WithBaseHeeds ==
  ASSUME NEW x \in Tabs, x.queue # <<>> PROVE Heeds(x, WithBase(x))
<1>. DEFINE z == [x EXCEPT !.queue[1].base = x.draft]
<1>1. /\ x.queue \in Seq(Entries) /\ x.draft \in Nat /\ x.queue[1] \in Entries
      /\ 1 \in DOMAIN x.queue
  BY InQueue DEF Tabs
<1>2. CASE Head(x.queue).base # 0
  BY <1>1, <1>2, HeedsItself DEF WithBase
<1>3. CASE Head(x.queue).base = 0
  <2>1. WithBase(x) = Schedule(z, FALSE)
    BY <1>3 DEF WithBase
  <2>2. PICK e \in Entries : e = [x.queue[1] EXCEPT !.base = x.draft]
    BY <1>1 DEF Entries
  <2>3. e.doc = x.queue[1].doc
    BY <1>1, <2>2 DEF Entries
  <2>4. PICK t : t = [x.queue EXCEPT ![1] = e]
    OBVIOUS
  <2>5. /\ t \in Seq(Entries) /\ Len(t) = Len(x.queue)
        /\ t[1] = e /\ \A i \in DOMAIN x.queue : i # 1 => t[i] = x.queue[i]
    BY <1>1, <2>4, NewHead
  <2>6. z = [x EXCEPT !.queue = t]
    BY <1>1, <2>2, <2>4
  <2>. HIDE DEF z
  <2>7. /\ z \in Tabs /\ z.queue = t /\ z.staged = x.staged /\ z.doc = x.doc
        /\ z.init = x.init /\ z.writing = x.writing /\ z.next = x.next /\ z.recovery = x.recovery
    BY <1>1, <2>5, <2>6 DEF Tabs
  <2>8. \A i \in DOMAIN x.queue : z.queue[i].doc = x.queue[i].doc
    BY <2>3, <2>5, <2>7
  <2>9. Heeds(x, z)
    BY <1>1, <2>5, <2>7, <2>8, DocsHeed
  <2>10. Heeds(z, Schedule(z, FALSE))
    BY <2>7, ScheduleHeeds
  <2>. QED BY <2>1, <2>9, <2>10, HeedsTransitive
<1>. QED BY <1>2, <1>3

LEMMA StateHeeds ==
  ASSUME NEW x \in Tabs, NEW s \in Words, NEW full \in BOOLEAN
  PROVE  Heeds(x, [x EXCEPT !.state = s, !.full = full]) /\ Heeds(x, [x EXCEPT !.state = s])
<1>1. PICK y : y = [x EXCEPT !.state = s, !.full = full]
  OBVIOUS
<1>2. PICK z : z = [x EXCEPT !.state = s]
  OBVIOUS
<1>3. /\ y \in Tabs /\ y.queue = x.queue /\ y.staged = x.staged /\ y.doc = x.doc
      /\ y.init = x.init /\ y.writing = x.writing /\ y.next = x.next /\ y.recovery = x.recovery
  BY <1>1 DEF Tabs
<1>4. /\ z \in Tabs /\ z.queue = x.queue /\ z.staged = x.staged /\ z.doc = x.doc
      /\ z.init = x.init /\ z.writing = x.writing /\ z.next = x.next /\ z.recovery = x.recovery
  BY <1>2 DEF Tabs
<1>5. Heeds(x, y) /\ Heeds(x, z)
  BY <1>3, <1>4, SoftHeeds
<1>. QED BY <1>1, <1>2, <1>5

LEMMA PumpHeeds == ASSUME NEW x \in Tabs, NEW on \in BOOLEAN PROVE Heeds(x, Pump(x, on))
<1>. DEFINE y == Pump(x, on)
<1>1. CASE Idle(x)
  BY <1>1, HeedsItself DEF Pump
<1>. SUFFICES ASSUME ~ Idle(x) PROVE Heeds(x, y)
  BY <1>1
<1>2. CASE x.queue # <<>> /\ Head(x.queue).ready /\ on
  <2>. DEFINE z == WithBase(x)
  <2>1. y = Send(z)
    BY <1>2 DEF Pump
  <2>2. Heeds(x, z) /\ z \in Tabs
    BY <1>2, WithBaseHeeds DEF Heeds
  <2>. HIDE DEF z
  <2>3. \/ Send(z) = z
        \/ Send(z) = [z EXCEPT !.flight = TRUE, !.state = "saving", !.full = FALSE]
    BY DEF Send
  <2>4. PICK u : u = Send(z)
    OBVIOUS
  <2>5. /\ u \in Tabs /\ u.queue = z.queue /\ u.staged = z.staged /\ u.doc = z.doc
        /\ u.init = z.init /\ u.writing = z.writing /\ u.next = z.next /\ u.recovery = z.recovery
    BY <2>2, <2>3, <2>4, WordsKnown DEF Tabs
  <2>6. Heeds(z, u)
    BY <2>2, <2>5, SoftHeeds
  <2>. QED BY <2>1, <2>2, <2>4, <2>6, HeedsTransitive
<1>3. CASE x.queue = <<>>
  <2>1. PICK s \in {"saved", "pending"} : y = [x EXCEPT !.state = s, !.full = FALSE]
    BY <1>3 DEF Pump
  <2>. HIDE DEF y
  <2>. QED BY <2>1, WordsKnown, StateHeeds
<1>4. CASE x.queue # <<>> /\ ~ (Head(x.queue).ready /\ on)
  <2>1. PICK s \in {"offline", "pending"} : y = [x EXCEPT !.state = s]
    BY <1>4 DEF Pump
  <2>. HIDE DEF y
  <2>. QED BY <2>1, WordsKnown, StateHeeds
<1>. QED BY <1>2, <1>3, <1>4

LEMMA FlushHeeds == ASSUME NEW x \in Tabs, online \in BOOLEAN PROVE Heeds(x, Flush(x))
<1>0. x.queue \in Seq(Entries)
  BY DEF Tabs
<1>1. CASE ~ Unready(x)
  BY <1>1, HeedsItself DEF Flush
<1>2. CASE Unready(x)
  <2>. DEFINE q == [i \in DOMAIN x.queue |-> [x.queue[i] EXCEPT !.ready = TRUE]]
              z == [x EXCEPT !.queue = q]
              y == SetWaiting(z)
  <2>1. Flush(x) = Pump(y, online)
    BY <1>2 DEF Flush
  <2>2. /\ DOMAIN x.queue = 1..Len(x.queue) /\ Len(x.queue) \in Nat
        /\ \A i \in DOMAIN x.queue : x.queue[i] \in Entries
    BY <1>0
  <2>3. /\ q \in Seq(Entries) /\ Len(q) = Len(x.queue)
        /\ \A i \in DOMAIN x.queue : q[i].doc = x.queue[i].doc
    <3>1. \A i \in DOMAIN x.queue : q[i] \in Entries /\ q[i].doc = x.queue[i].doc
      BY <2>2 DEF Entries
    <3>2. q \in [1..Len(x.queue) -> Entries]
      BY <2>2, <3>1
    <3>. HIDE DEF q
    <3>3. q \in Seq(Entries) /\ Len(q) = Len(x.queue)
      BY <2>2, <3>2
    <3>. QED BY <3>1, <3>3
  <2>. HIDE DEF q
  <2>4. /\ z \in Tabs /\ z.queue = q /\ z.staged = x.staged /\ z.doc = x.doc
        /\ z.init = x.init /\ z.writing = x.writing /\ z.next = x.next /\ z.recovery = x.recovery
    BY <1>0, <2>3 DEF Tabs
  <2>. HIDE DEF z
  <2>5. Heeds(x, z)
    BY <1>0, <2>3, <2>4, DocsHeed
  <2>6. Heeds(z, y) /\ y \in Tabs
    BY <2>4, SetWaitingHeeds DEF Heeds
  <2>. HIDE DEF y
  <2>7. Heeds(y, Pump(y, online))
    BY <2>6, PumpHeeds
  <2>. QED BY <2>1, <2>5, <2>6, <2>7, HeedsTransitive
<1>. QED BY <1>1, <1>2

LEMMA EmittedHeeds == ASSUME NEW x \in Tabs PROVE Heeds(x, Emitted(x))
<1>. DEFINE s == IF x.lost THEN "error" ELSE x.state
            m == CASE x.mutation = "checking" -> "dirty" [] x.mutation = "sent" -> "stale"
                   [] OTHER -> x.mutation
            y == Emitted(x)
<1>1. y = [x EXCEPT !.state = s, !.mutation = m]
  BY DEF Emitted, Tabs
<1>2. s \in Words /\ m \in Words
  BY WordsKnown DEF Tabs
<1>. HIDE DEF y, s, m
<1>3. /\ y \in Tabs /\ y.queue = x.queue /\ y.staged = x.staged /\ y.doc = x.doc
      /\ y.init = x.init /\ y.writing = x.writing /\ y.next = x.next /\ y.recovery = x.recovery
  BY <1>1, <1>2 DEF Tabs
<1>. QED BY <1>3, SoftHeeds DEF y

LEMMA StopHeeds == ASSUME NEW x \in Tabs PROVE Heeds(x, StopForAuthority(x))
<1>1. PICK y : y = StopForAuthority(x)
  OBVIOUS
<1>2. /\ y \in Tabs /\ y.queue = x.queue /\ y.staged = x.staged /\ y.doc = x.doc
      /\ y.init = x.init /\ y.writing = x.writing /\ y.next = x.next /\ y.recovery = x.recovery
  BY <1>1 DEF StopForAuthority, Tabs
<1>. QED BY <1>1, <1>2, SoftHeeds

LEMMA AttemptsHeed ==
  ASSUME NEW x \in Tabs, x.queue # <<>>, NEW n \in Nat, NEW s \in Words,
         NEW timer \in BOOLEAN, NEW full \in BOOLEAN
  PROVE  Heeds(x, [x EXCEPT !.queue = Attempts(x, n), !.retryTimer = timer, !.state = s,
                            !.full = full])
<1>. DEFINE e == [x.queue[1] EXCEPT !.attempt = n]
            q == Attempts(x, n)
            y == [x EXCEPT !.queue = q, !.retryTimer = timer, !.state = s, !.full = full]
<1>1. x.queue \in Seq(Entries) /\ x.queue[1] \in Entries /\ 1 \in DOMAIN x.queue
  BY InQueue DEF Tabs
<1>2. e \in Entries /\ e.doc = x.queue[1].doc
  BY <1>1 DEF Entries
<1>3. q = [x.queue EXCEPT ![1] = e]
  BY <1>1 DEF Attempts
<1>. HIDE DEF e, q
<1>4. /\ q \in Seq(Entries) /\ Len(q) = Len(x.queue) /\ q[1] = e
      /\ \A i \in DOMAIN x.queue : i # 1 => q[i] = x.queue[i]
  BY <1>1, <1>2, <1>3, NewHead
<1>5. /\ y \in Tabs /\ y.queue = q /\ y.staged = x.staged /\ y.doc = x.doc /\ y.next = x.next
      /\ y.init = x.init /\ y.writing = x.writing /\ y.recovery = x.recovery
  BY <1>1, <1>4 DEF Tabs
<1>. HIDE DEF y
<1>6. \A i \in DOMAIN x.queue : y.queue[i].doc = x.queue[i].doc
  BY <1>2, <1>4, <1>5
<1>7. Heeds(x, y)
  BY <1>4, <1>5, <1>6, DocsHeed
<1>. QED BY <1>7 DEF y, q

LEMMA RetryNowHeeds ==
  ASSUME NEW x \in Tabs, online \in BOOLEAN PROVE Heeds(x, RetryNow(x))
<1>. DEFINE y == IF x.recovery = "unavailable" THEN Schedule(x, TRUE) ELSE x
            z == [y EXCEPT !.queue = Attempts(y, 0), !.retryTimer = FALSE, !.state = Waiting,
                           !.full = FALSE]
<1>1. Heeds(x, y) /\ y \in Tabs
  BY ScheduleHeeds, HeedsItself DEF Heeds
<1>2. RetryNow(x) = IF y.lost \/ y.state = "conflict" \/ y.queue = <<>> THEN y
                    ELSE Pump([y EXCEPT !.retryTimer = FALSE, !.queue[1].attempt = 0,
                                        !.state = Waiting, !.full = FALSE], online)
  BY DEF RetryNow
<1>. HIDE DEF y
<1>3. [y EXCEPT !.retryTimer = FALSE, !.queue[1].attempt = 0, !.state = Waiting, !.full = FALSE] = z
  BY <1>1 DEF Attempts, Tabs
<1>4. ASSUME y.queue # <<>> PROVE Heeds(y, z) /\ z \in Tabs
  <2>1. Waiting \in Words
    BY WordsKnown DEF Waiting
  <2>2. Heeds(y, z)
    BY <1>1, <1>4, <2>1, AttemptsHeed
  <2>. QED BY <2>2 DEF Heeds
<1>. HIDE DEF z
<1>5. ASSUME y.queue # <<>> PROVE Heeds(z, Pump(z, online))
  BY <1>4, <1>5, PumpHeeds
<1>. QED BY <1>1, <1>2, <1>3, <1>4, <1>5, HeedsTransitive

LEMMA FailHeeds ==
  ASSUME NEW x \in Tabs, x.queue # <<>>, online \in BOOLEAN,
         NEW answer \in {"authority", "conflict", "invalid", "failure"}
  PROVE  Heeds(x, Fail(x, answer))
<1>. DEFINE y == [x EXCEPT !.flight = FALSE]
            z == Fail(x, answer)
<1>1. /\ y \in Tabs /\ y.queue = x.queue /\ y.staged = x.staged /\ y.doc = x.doc
      /\ y.init = x.init /\ y.writing = x.writing /\ y.next = x.next /\ y.recovery = x.recovery
      /\ y.full \in BOOLEAN
  BY DEF Tabs
<1>2. \/ z = StopForAuthority(y)
      \/ \E s \in {"offline", "conflict", "error", "validation"} : z = [y EXCEPT !.state = s]
      \/ z = [y EXCEPT !.queue[1].attempt = @ + 1, !.state = "retrying", !.retryTimer = TRUE]
  BY DEF Fail
<1>. HIDE DEF y, z
<1>3. Heeds(x, y)
  BY <1>1, SoftHeeds
<1>4. CASE z = StopForAuthority(y)
  BY <1>1, <1>3, <1>4, StopHeeds, HeedsTransitive DEF z
<1>5. ASSUME NEW s \in {"offline", "conflict", "error", "validation"}, z = [y EXCEPT !.state = s]
      PROVE  Heeds(x, z)
  <2>1. s \in Words
    BY WordsKnown
  <2>. QED BY <1>1, <1>3, <1>5, <2>1, StateHeeds, HeedsTransitive
<1>6. CASE z = [y EXCEPT !.queue[1].attempt = @ + 1, !.state = "retrying", !.retryTimer = TRUE]
  <2>1. y.queue \in Seq(Entries) /\ y.queue # <<>>
    BY <1>1 DEF Tabs
  <2>2. PICK e \in Entries : e = y.queue[1]
    BY <2>1, InQueue
  <2>3. PICK n \in Nat : n = e.attempt + 1
    BY DEF Entries
  <2>4. PICK full \in BOOLEAN : full = y.full
    BY <1>1
  <2>5. z = [y EXCEPT !.queue = Attempts(y, n), !.retryTimer = TRUE, !.state = "retrying",
                      !.full = full]
    BY <1>1, <1>6, <2>2, <2>3, <2>4 DEF Attempts, Tabs
  <2>6. Heeds(y, z)
    BY <1>1, <2>1, <2>5, AttemptsHeed, WordsKnown
  <2>. QED BY <1>3, <2>6, HeedsTransitive DEF z
<1>. QED BY <1>2, <1>4, <1>5, <1>6 DEF z

LEMMA ResumedHeeds == ASSUME NEW x \in Tabs PROVE Heeds(x, Resumed(x))
<1>. DEFINE z == [x EXCEPT !.state = "pending", !.full = FALSE]
<1>1. Resumed(x) = IF ~x.lost /\ (x.state = "offline" \/ x.full) THEN Pump(z, TRUE) ELSE x
  BY DEF Resumed
<1>2. Heeds(x, z)
  BY WordsKnown, StateHeeds
<1>. HIDE DEF z
<1>3. Heeds(z, Pump(z, TRUE))
  BY <1>2, PumpHeeds DEF Heeds
<1>. QED BY <1>1, <1>2, <1>3, HeedsItself, HeedsTransitive

\* the journal is not the page's any more, or does not work
LEMMA StoppedHeeds ==
  ASSUME NEW x \in Tabs, x.init, NEW s \in {"blocked", "unavailable"}
  PROVE  Heeds(x, [x EXCEPT !.recovery = s, !.writing = NoWrite, !.next = NoWrite])
<1>1. PICK y : y = [x EXCEPT !.recovery = s, !.writing = NoWrite, !.next = NoWrite]
  OBVIOUS
<1>2. /\ y \in Tabs /\ y.queue = x.queue /\ y.staged = x.staged /\ y.doc = x.doc
      /\ y.init = x.init /\ y.writing = NoWrite /\ y.next = NoWrite /\ y.recovery = s
  BY <1>1, WordsKnown DEF Tabs
<1>3. Gesture(y) = Gesture(x) /\ Held(y) = Held(x) /\ ~ Quiet(y)
  BY <1>2 DEF Gesture, Held, Quiet
<1>4. ASSUME NEW v, Safe(x, v) PROVE Safe(y, v)
  <2>1. Recorded(y)
    BY <1>2 DEF Recorded
  <2>2. Within(y, v.known)
    BY <1>2, <1>4 DEF Safe, Loose, Within, Wrote
  <2>3. Ordered(y, v.lost)
    BY <1>2, <1>3, <1>4 DEF Safe, Loose, Ordered
  <2>4. WriteFits(y.writing, y, v) /\ WriteFits(y.next, y, v)
    BY <1>2 DEF WriteFits
  <2>. QED BY <1>2, <1>3, <1>4, <2>1, <2>2, <2>3, <2>4 DEF Safe, Loose
<1>5. Heeds(x, y)
  BY <1>2, <1>3, <1>4 DEF Heeds
<1>. QED BY <1>1, <1>5

\* a page that has not read its journal looks again, or finds that it cannot
LEMMA UnreadHeeds ==
  ASSUME NEW x \in Tabs, ~ x.init, NEW s \in Words
  PROVE  Heeds(x, [x EXCEPT !.recovery = s])
<1>1. PICK y : y = [x EXCEPT !.recovery = s]
  OBVIOUS
<1>2. /\ y \in Tabs /\ y.queue = x.queue /\ y.staged = x.staged /\ y.doc = x.doc
      /\ y.init = x.init /\ y.writing = x.writing /\ y.next = x.next
  BY <1>1 DEF Tabs
<1>3. Gesture(y) = Gesture(x) /\ Held(y) = Held(x) /\ ~ Quiet(y) /\ Newest(y) = Newest(x)
  BY <1>2 DEF Gesture, Held, Quiet, Newest
<1>4. ASSUME NEW v, Safe(x, v) PROVE Safe(y, v)
  <2>1. Recorded(y) /\ Within(y, v.known)
    BY <1>2, <1>4 DEF Safe, Loose, Recorded, Within
  <2>2. Ordered(y, v.lost)
    BY <1>2, <1>3, <1>4 DEF Safe, Loose, Ordered
  <2>3. WriteFits(y.writing, y, v) /\ WriteFits(y.next, y, v)
    BY <1>2, <1>3, <1>4 DEF Safe, Loose, WriteFits
  <2>. QED BY <1>2, <1>3, <1>4, <2>1, <2>2, <2>3 DEF Safe, Loose
<1>5. Heeds(x, y)
  BY <1>2, <1>3, <1>4 DEF Heeds
<1>. QED BY <1>1, <1>5

-----------------------------------------------------------------------------
(* A method that takes an edit: what the page shows afterwards contains    *)
(* what it showed, and the last entry of its queue has all of it.          *)

\* what may grow, and what a page need not answer for any more
Looser(v, w) ==
  /\ v.settled \subseteq w.settled /\ v.lost \subseteq w.lost /\ v.known \subseteq w.known
  /\ w.claims \cap v.known \subseteq v.claims \cup w.settled
  /\ w.held \subseteq v.held \cup w.settled /\ w.guarded \subseteq v.guarded \cup w.settled

LEMMA GestureStaged ==
  ASSUME NEW x \in Tabs, x.staged # <<>> => Len(x.staged) = 1
  PROVE  Gesture(x) \subseteq EditsOf(x.staged) /\ (x.staged = <<>> => Gesture(x) = {})
<1>1. x.staged # <<>> => 1 \in DOMAIN x.staged
  BY InQueue DEF Tabs
<1>. QED BY <1>1 DEF Gesture, EditsOf

LEMMA SafeLoosens ==
  ASSUME NEW x \in Tabs, NEW v, NEW w, Safe(x, v), Looser(v, w),
         Quiet(x) => v.claims \cap Held(x) \subseteq w.settled \cup w.journaled
  PROVE  Safe(x, w)
<1>1. Held(x) \subseteq v.known
  BY GestureStaged DEF Safe, Loose, Within, Ordered, Held
<1>2. Within(x, w.known) /\ Within(x, v.known) /\ Recorded(x)
  BY DEF Safe, Loose, Within, Looser
<1>3. Ordered(x, w.lost)
  BY DEF Safe, Loose, Ordered, Sorted, Looser
<1>4. ASSUME NEW u, WriteFits(u, x, v), u # NoWrite => EditsOf(u.actions) \subseteq v.known
      PROVE  WriteFits(u, x, w)
  BY <1>4 DEF WriteFits, Looser, Sorted
<1>5. WriteFits(x.writing, x, w) /\ WriteFits(x.next, x, w)
  BY <1>2, <1>4 DEF Safe, Loose, Within, Wrote
<1>6. Loose(x, w)
  BY <1>2, <1>3, <1>5 DEF Safe, Loose, Within, Looser
<1>. QED BY <1>1, <1>6 DEF Safe, Looser

Without(v, d) ==
  [claims |-> v.claims \ d, settled |-> v.settled, lost |-> v.lost, known |-> v.known,
   journaled |-> v.journaled, held |-> v.held \ d, guarded |-> v.guarded]

\* the gesture under way comes to an end
LEMMA Unstages ==
  ASSUME NEW x \in Tabs, NEW v, NEW d, Safe(x, v), v.held \subseteq v.claims,
         v.claims \cap Gesture(x) \subseteq d
  PROVE  Safe([x EXCEPT !.staged = <<>>], Without(v, d))
<1>1. PICK y, w : y = [x EXCEPT !.staged = <<>>] /\ w = Without(v, d)
  OBVIOUS
<1>2. /\ y.queue = x.queue /\ y.staged = <<>> /\ y.doc = x.doc /\ y.init = x.init
      /\ y.writing = x.writing /\ y.next = x.next /\ y.recovery = x.recovery
  BY <1>1 DEF Tabs
<1>3. /\ w.claims = v.claims \ d /\ w.settled = v.settled /\ w.lost = v.lost /\ w.known = v.known
      /\ w.journaled = v.journaled /\ w.held = v.held \ d /\ w.guarded = v.guarded
  BY <1>1 DEF Without
<1>4. /\ Held(y) = EditsOf(x.queue) /\ Held(x) = EditsOf(x.queue) \cup Gesture(x)
      /\ Newest(y) = Newest(x) /\ Quiet(y) = Quiet(x)
  BY <1>2 DEF Held, Gesture, Newest, Quiet
<1>5. Recorded(y) /\ Within(y, w.known) /\ Ordered(y, w.lost)
  <2>1. EditsOf(y.staged) = {}
    BY <1>2 DEF EditsOf
  <2>. QED BY <1>2, <1>3, <2>1 DEF Safe, Loose, Recorded, Within, Ordered
<1>6. WriteFits(y.writing, y, w) /\ WriteFits(y.next, y, w)
  BY <1>2, <1>3, <1>4 DEF Safe, Loose, WriteFits
<1>7. Loose(y, w)
  BY <1>2, <1>3, <1>4, <1>5, <1>6 DEF Safe, Loose
<1>. QED BY <1>1, <1>2, <1>3, <1>4, <1>7 DEF Safe

Room(x, d, v) == v.lost \subseteq v.settled /\ d \subseteq v.known /\ x.doc \subseteq d \cup v.lost
Adds(x, y, d) ==
  /\ y \in Tabs /\ y.staged = <<>> /\ y.init /\ ~ Quiet(y)
  /\ d \subseteq EditsOf(y.queue) /\ EditsOf(y.queue) \subseteq EditsOf(x.queue) \cup d
  /\ \A v : Safe(x, Without(v, d)) /\ Room(x, d, v) => Safe(y, v)

LEMMA AddsThen ==
  ASSUME NEW x, NEW y, NEW z, NEW d, Adds(x, y, d), Heeds(y, z) PROVE Adds(x, z, d)
BY DEF Adds, Heeds

LEMMA AddsAfter ==
  ASSUME NEW x, NEW y, NEW z, NEW d, Heeds(x, y), Adds(y, z, d) PROVE Adds(x, z, d)
BY DEF Adds, Heeds, Room

LEMMA ScheduleIsLoud ==
  ASSUME NEW x \in Tabs, x.init, NEW retry \in BOOLEAN PROVE ~ Quiet(Schedule(x, retry))
<1>. DEFINE w == Payload(x)
            y == Schedule(x, retry)
<1>1. \/ y = x /\ x.recovery = "unavailable"
      \/ y = [x EXCEPT !.recovery = "writing", !.writing = w]
      \/ y = [x EXCEPT !.recovery = "writing", !.next = w]
  BY DEF Schedule
<1>. HIDE DEF w, y
<1>2. y.recovery \in {"writing", "unavailable"}
  BY <1>1 DEF Tabs
<1>. QED BY <1>2 DEF Quiet, y

LEMMA TakesUp ==
  ASSUME NEW x \in Tabs, x.init, x.staged = <<>>, NEW y \in Tabs, y.init, y.staged = <<>>,
         NEW d, y.doc = d, y.queue # <<>>, Last(y.queue).doc = d,
         EditsOf(y.queue) \subseteq EditsOf(x.queue) \cup d,
         y.writing = x.writing, y.next = x.next, y.recovery = x.recovery
  PROVE  Adds(x, Schedule(y, FALSE), d) /\ Adds(x, SetWaiting(y), d)
<1>1. d \subseteq EditsOf(y.queue)
  <2>1. Len(y.queue) \in DOMAIN y.queue
    BY InQueue DEF Tabs
  <2>. QED BY <2>1 DEF EditsOf, Last
<1>2. Held(y) = EditsOf(y.queue) /\ Held(x) = EditsOf(x.queue)
  BY DEF Held, Gesture
<1>3. ASSUME NEW v, Safe(x, Without(v, d)), Room(x, d, v) PROVE Loose(y, v)
  <2>1. PICK w : w = Without(v, d)
    OBVIOUS
  <2>2. /\ w.claims = v.claims \ d /\ w.settled = v.settled /\ w.lost = v.lost /\ w.known = v.known
        /\ w.held = v.held \ d /\ w.guarded = v.guarded
    BY <2>1 DEF Without
  <2>3. Loose(x, w)
    BY <1>3, <2>1 DEF Safe
  <2>4. /\ v.lost \subseteq v.settled /\ d \subseteq v.known /\ x.doc \subseteq d \cup v.lost
        /\ EditsOf(x.queue) \subseteq x.doc \cup v.lost
    BY <1>3, <2>2, <2>3 DEF Room, Loose, Ordered
  <2>5. EditsOf(x.queue) \subseteq EditsOf(y.queue) \cup v.settled
    BY <1>1, <2>4
  <2>6. Recorded(y)
    BY <2>3 DEF Loose, Recorded
  <2>7. Within(y, v.known)
    <3>1. EditsOf(y.staged) = {}
      BY DEF EditsOf
    <3>. QED BY <2>2, <2>3, <2>4, <3>1 DEF Loose, Within
  <2>8. Ordered(y, v.lost)
    BY <2>4 DEF Ordered, Sorted
  <2>9. ASSUME NEW u, WriteFits(u, x, w) PROVE WriteFits(u, y, v)
    BY <1>1, <1>2, <2>2, <2>5, <2>9 DEF WriteFits
  <2>10. WriteFits(y.writing, y, v) /\ WriteFits(y.next, y, v)
    BY <2>3, <2>9 DEF Loose
  <2>. QED BY <1>1, <1>2, <2>2, <2>3, <2>5, <2>6, <2>7, <2>8, <2>10 DEF Loose
<1>4. PICK z : z = Schedule(y, FALSE)
  OBVIOUS
<1>5. \A v : Safe(x, Without(v, d)) /\ Room(x, d, v) => Safe(z, v)
  BY <1>3, <1>4, ScheduleSafe
<1>6. ~ Quiet(z) /\ Heeds(y, z) /\ Heeds(z, SetWaiting(y))
  BY <1>4, ScheduleIsLoud, ScheduleHeeds, SetWaitingHeeds
<1>7. Adds(x, z, d)
  BY <1>1, <1>5, <1>6 DEF Adds, Heeds
<1>. QED BY <1>4, <1>6, <1>7, AddsThen

LEMMA Appends ==
  ASSUME NEW S, NEW s \in Seq(S), NEW e \in S
  PROVE  LET t == Append(s, e) IN
         /\ t \in Seq(S) /\ t # <<>> /\ Last(t) = e
         /\ EditsOf(t) = EditsOf(s) \cup e.doc
<1>. DEFINE t == Append(s, e)
<1>1. /\ t \in Seq(S) /\ Len(t) = Len(s) + 1 /\ Len(s) \in Nat /\ t[Len(s) + 1] = e
      /\ DOMAIN s = 1..Len(s) /\ DOMAIN t = 1..(Len(s) + 1)
      /\ \A i \in 1..Len(s) : t[i] = s[i]
  OBVIOUS
<1>. HIDE DEF t
<1>2. t # <<>> /\ Last(t) = e
  BY <1>1, EmptySeq DEF Last
<1>3. \A i \in DOMAIN t : i \in DOMAIN s \/ i = Len(s) + 1
  BY <1>1
<1>4. Len(s) + 1 \in DOMAIN t /\ DOMAIN s \subseteq DOMAIN t
  BY <1>1
<1>5. ASSUME NEW a PROVE a \in EditsOf(t) <=> a \in EditsOf(s) \/ a \in e.doc
  BY <1>1, <1>3, <1>4 DEF EditsOf
<1>. QED BY <1>1, <1>2, <1>5 DEF t

LEMMA PushAdds ==
  ASSUME NEW x \in Tabs, x.init, x.staged = <<>>, online \in BOOLEAN,
         NEW key \in Nat \ {0}, NEW doc \in Document, NEW text \in BOOLEAN
  PROVE  Adds(x, Push(x, key, doc, text), doc)
<1>. DEFINE e == Entry(key, doc, 0, ~text)
            y == Flush(x)
            z == Pushed(y, e)
<1>1. e \in Entries /\ e.doc = doc
  BY DEF Entry, Entries
<1>2. Heeds(x, y) /\ y \in Tabs /\ y.init /\ y.staged = <<>> /\ y.queue \in Seq(Entries)
  BY FlushHeeds DEF Heeds, Tabs
<1>3. Push(x, key, doc, text) = SetWaiting(z)
  BY <1>1 DEF Push, Pushed
<1>. HIDE DEF e, y
<1>4. PICK t : t = Append(y.queue, e)
  OBVIOUS
<1>5. t \in Seq(Entries) /\ t # <<>> /\ Last(t) = e /\ EditsOf(t) = EditsOf(y.queue) \cup doc
  BY <1>1, <1>2, <1>4, Appends
<1>6. /\ z \in Tabs /\ z.queue = t /\ z.staged = <<>> /\ z.doc = doc /\ z.init
      /\ z.writing = y.writing /\ z.next = y.next /\ z.recovery = y.recovery
  BY <1>1, <1>2, <1>4, <1>5 DEF Pushed, Tabs
<1>. HIDE DEF z
<1>7. Adds(y, SetWaiting(z), doc)
  BY <1>1, <1>2, <1>5, <1>6, TakesUp
<1>. QED BY <1>2, <1>3, <1>7, AddsAfter

LEMMA CoalesceAdds ==
  ASSUME NEW x \in Tabs, x.init, x.staged = <<>>, x.queue # <<>>, NEW doc \in Document
  PROVE  Adds(x, SetWaiting(Extended(x, doc)), doc)
<1>. DEFINE z == Extended(x, doc)
<1>1. x.queue \in Seq(Entries) /\ Len(x.queue) \in DOMAIN x.queue /\ x.queue[Len(x.queue)] \in Entries
      /\ DOMAIN x.queue = 1..Len(x.queue) /\ Len(x.queue) \in Nat
  BY InQueue DEF Tabs
<1>2. PICK e : e = [x.queue[Len(x.queue)] EXCEPT !.doc = doc]
  OBVIOUS
<1>3. e \in Entries /\ e.doc = doc
  BY <1>1, <1>2 DEF Entries
<1>4. PICK t : t = [x.queue EXCEPT ![Len(x.queue)] = e]
  OBVIOUS
<1>5. z = [x EXCEPT !.doc = doc, !.queue = t]
  BY <1>1, <1>2, <1>4 DEF Extended, Tabs
<1>6. /\ t \in Seq(Entries) /\ Len(t) = Len(x.queue) /\ DOMAIN t = DOMAIN x.queue
      /\ t[Len(x.queue)] = e /\ \A i \in DOMAIN x.queue : i # Len(x.queue) => t[i] = x.queue[i]
  <2>1. \A i \in 1..Len(x.queue) : x.queue[i] \in Entries
    BY <1>1
  <2>2. t \in [1..Len(x.queue) -> Entries]
    BY <1>1, <1>3, <1>4, <2>1
  <2>3. t \in Seq(Entries) /\ Len(t) = Len(x.queue)
    BY <1>1, <2>2
  <2>. QED BY <1>1, <1>4, <2>3
<1>7. t # <<>> /\ Last(t) = e
  BY <1>1, <1>6, SameLength DEF Last
<1>8. EditsOf(t) \subseteq EditsOf(x.queue) \cup doc
  BY <1>3, <1>6 DEF EditsOf
<1>9. /\ z \in Tabs /\ z.queue = t /\ z.staged = <<>> /\ z.doc = doc /\ z.init
      /\ z.writing = x.writing /\ z.next = x.next /\ z.recovery = x.recovery
  BY <1>5, <1>6 DEF Tabs
<1>. HIDE DEF z
<1>10. Adds(x, SetWaiting(z), doc)
  BY <1>3, <1>7, <1>8, <1>9, TakesUp
<1>. QED BY <1>10 DEF z

LEMMA CorrectAdds ==
  ASSUME NEW x \in Tabs, x.init, x.staged = <<>>, Corrects(x), SafeToCorrect(x),
         online \in BOOLEAN, NEW key \in Nat \ {0}, NEW doc \in Document, NEW text \in BOOLEAN
  PROVE  Adds(x, Correct(x, key, doc, text), doc)
<1>. DEFINE e == Entry(key, doc, 0, ~text)
            q == [x.queue EXCEPT ![1] = e]
            z == [x EXCEPT !.doc = doc, !.queue[1] = e, !.state = Waiting, !.full = FALSE]
            y == Schedule(z, FALSE)
<1>1. e \in Entries /\ e.doc = doc
  BY DEF Entry, Entries
<1>2. x.queue \in Seq(Entries) /\ x.queue # <<>> /\ Len(x.queue) = 1
  BY DEF Tabs, Corrects, SafeToCorrect
<1>3. z = [x EXCEPT !.doc = doc, !.queue = q, !.state = Waiting, !.full = FALSE]
  OBVIOUS
<1>4. Correct(x, key, doc, text) = IF text THEN y ELSE Pump(y, online)
  BY DEF Correct
<1>. HIDE DEF e
<1>5. q \in Seq(Entries) /\ q # <<>> /\ Len(q) = 1 /\ q[1] = e /\ Last(q) = e
  BY <1>1, <1>2, NewHead DEF Last
<1>6. Waiting \in Words
  BY WordsKnown DEF Waiting
<1>. HIDE DEF q, z
<1>7. EditsOf(q) \subseteq EditsOf(x.queue) \cup doc
  <2>1. DOMAIN q = {1}
    BY <1>5
  <2>. QED BY <1>1, <1>5, <2>1 DEF EditsOf
<1>8. /\ z \in Tabs /\ z.doc = doc /\ z.queue = q /\ z.staged = x.staged /\ z.init
      /\ z.writing = x.writing /\ z.next = x.next /\ z.recovery = x.recovery
  BY <1>3, <1>5, <1>6 DEF Tabs
<1>9. Adds(x, y, doc)
  BY <1>1, <1>5, <1>7, <1>8, TakesUp
<1>. HIDE DEF y
<1>10. Heeds(y, Pump(y, online))
  BY <1>9, PumpHeeds DEF Adds
<1>. QED BY <1>4, <1>9, <1>10, AddsThen

\* the edit is refused only when no gesture is under way
LEMMA CompleteAdds ==
  ASSUME NEW x, Able(x), x.init, SafeToCorrect(x), online \in BOOLEAN,
         NEW key \in Nat \ {0}, NEW doc \in Document, NEW text \in BOOLEAN, NEW same \in BOOLEAN
  PROVE  LET z == Complete(x, key, doc, text, same) IN
         /\ Accepts(x) => Adds([x EXCEPT !.staged = <<>>], z, doc)
         /\ ~ Accepts(x) => Heeds(x, z) /\ x.staged = <<>>
<1>. DEFINE y == [x EXCEPT !.staged = <<>>]
            z == Complete(x, key, doc, text, same)
<1>1. z = IF Corrects(y) THEN Correct(y, key, doc, text)
          ELSE IF Len(y.queue) >= MaxQueue THEN Refuse(y)
          ELSE IF ~text THEN Pump(Push(y, key, doc, FALSE), online)
          ELSE IF Coalesces(y, same)
               THEN SetWaiting([y EXCEPT !.doc = doc, !.queue[Len(y.queue)].doc = doc])
               ELSE Push(y, key, doc, TRUE)
  BY DEF Complete
<1>2. /\ x \in Tabs /\ y \in Tabs /\ y.staged = <<>> /\ y.queue = x.queue /\ y.init /\ y.doc = x.doc
      /\ y.flight = x.flight /\ y.state = x.state /\ y.draft = x.draft /\ y.writing = x.writing
      /\ y.next = x.next /\ y.recovery = x.recovery
  <2>1. x \in Tabs /\ y \in Tabs
    BY DropStagedMoves DEF Moved, Able
  <2>. QED BY <2>1 DEF Tabs
<1>. HIDE DEF y, z
<1>3. Corrects(y) = Corrects(x) /\ SafeToCorrect(y)
  BY <1>2 DEF SafeToCorrect, Corrects
<1>4. Len(x.queue) \in Nat /\ MaxQueue \in Nat
  <2>1. x.queue \in Seq(Entries)
    BY <1>2 DEF Tabs
  <2>. QED BY <2>1, AutosaveAssumption DEF Able, HistoryOK, MaxQueue
<1>5. ASSUME Corrects(y) PROVE Adds(y, Correct(y, key, doc, text), doc)
  BY <1>2, <1>3, <1>5, CorrectAdds
<1>6. Adds(y, Pump(Push(y, key, doc, FALSE), online), doc) /\ Adds(y, Push(y, key, doc, TRUE), doc)
  <2>1. Adds(y, Push(y, key, doc, FALSE), doc) /\ Adds(y, Push(y, key, doc, TRUE), doc)
    BY <1>2, PushAdds
  <2>2. Push(y, key, doc, FALSE) \in Tabs
    BY <2>1 DEF Adds
  <2>3. Heeds(Push(y, key, doc, FALSE), Pump(Push(y, key, doc, FALSE), online))
    BY <2>2, PumpHeeds
  <2>. QED BY <2>1, <2>3, AddsThen
<1>7. ASSUME Coalesces(y, same)
      PROVE  Adds(y, SetWaiting([y EXCEPT !.doc = doc, !.queue[Len(y.queue)].doc = doc]), doc)
  BY <1>2, <1>7, CoalesceAdds DEF Coalesces, Extended
<1>8. ASSUME Accepts(x) PROVE Adds(y, z, doc)
  <2>1. Corrects(y) \/ ~ (Len(y.queue) >= MaxQueue)
    BY <1>2, <1>3, <1>4, <1>8 DEF Accepts
  <2>. QED BY <1>1, <1>5, <1>6, <1>7, <2>1
<1>9. ASSUME ~ Accepts(x) PROVE Heeds(x, z) /\ x.staged = <<>>
  <2>1. ~ Corrects(y) /\ Len(y.queue) >= MaxQueue
    BY <1>2, <1>3, <1>4, <1>9 DEF Accepts
  <2>2. z = Refuse(y)
    BY <1>1, <2>1
  <2>3. x.staged = <<>>
    <3>1. x.staged # <<>> => Len(x.queue) < MaxQueue
      BY DEF Able, Fit
    <3>. QED BY <1>2, <1>4, <2>1, <3>1
  <2>4. Heeds(x, y)
    BY <1>2, <2>3, SoftHeeds
  <2>5. Heeds(y, Refuse(y))
    BY <1>2, WordsKnown, StateHeeds DEF Refuse
  <2>. QED BY <2>2, <2>3, <2>4, <2>5, HeedsTransitive
<1>. QED BY <1>8, <1>9 DEF y, z

-----------------------------------------------------------------------------
(* A gesture begins, or is taken back.                                     *)

LEMMA OneStaged ==
  ASSUME NEW s \in Seq(Entries), Len(s) = 1
  PROVE  EditsOf(s) = s[1].doc /\ s # <<>>
<1>1. DOMAIN s = {1} /\ s # <<>>
  BY EmptySeq
<1>. QED BY <1>1 DEF EditsOf

\* z is what stage() schedules
Staging(x, key, doc, render, z) ==
  /\ Stage(x, key, doc, render) = Schedule(z, FALSE)
  /\ z.queue = x.queue /\ z.doc = (IF render THEN doc ELSE x.doc) /\ z.init = x.init
  /\ z.writing = x.writing /\ z.next = x.next /\ z.recovery = x.recovery
  /\ \/ z.staged = <<>> /\ doc = LastDoc(x)
     \/ /\ Len(z.staged) = 1 /\ z.staged[1].doc = doc
        /\ z.staged[1].key = IF x.staged = <<>> THEN key ELSE x.staged[1].key

LEMMA StageIs ==
  ASSUME NEW x, Able(x), NEW key \in Nat \ {0}, NEW doc \in Document, NEW render \in BOOLEAN,
         ~ (Len(x.queue) >= MaxQueue)
  PROVE  \E z \in Tabs : Staging(x, key, doc, render, z)
<1>. DEFINE e == Entry(key, doc, 0, FALSE)
            f == [x.staged[1] EXCEPT !.doc = doc]
            gesture == IF doc = LastDoc(x) THEN <<>>
                       ELSE IF x.staged = <<>> THEN <<e>> ELSE <<f>>
            y == [x EXCEPT !.staged = gesture, !.doc = IF render THEN doc ELSE @]
            s == IF gesture # <<>> THEN "pending" ELSE IF y.queue # <<>> THEN y.state ELSE "saved"
            z == IF y.state \in Stopped THEN y ELSE [y EXCEPT !.state = s]
<1>1. x \in Tabs /\ x.staged \in Seq(Entries)
  BY DEF Able, Tabs
<1>2. e \in Entries /\ e.doc = doc /\ e.key = key
  BY DEF Entry, Entries
<1>3. x.staged # <<>> => f \in Entries /\ f.doc = doc /\ f.key = x.staged[1].key
  <2>1. x.staged # <<>> => x.staged[1] \in Entries
    BY <1>1, InQueue
  <2>. QED BY <2>1 DEF Entries
<1>4. Stage(x, key, doc, render) = Schedule(z, FALSE)
  BY DEF Stage
<1>. HIDE DEF e, f
<1>5. \/ gesture = <<>> /\ doc = LastDoc(x)
      \/ \E g \in Entries : /\ gesture = <<g>> /\ g.doc = doc
                            /\ g.key = IF x.staged = <<>> THEN key ELSE x.staged[1].key
  BY <1>2, <1>3
<1>. HIDE DEF gesture
<1>6. /\ gesture \in Seq(Entries)
      /\ \/ gesture = <<>> /\ doc = LastDoc(x)
         \/ /\ Len(gesture) = 1 /\ gesture[1].doc = doc
            /\ gesture[1].key = IF x.staged = <<>> THEN key ELSE x.staged[1].key
  <2>1. ASSUME NEW g \in Entries, gesture = <<g>>
        PROVE  gesture \in Seq(Entries) /\ Len(gesture) = 1 /\ gesture[1] = g
    BY <2>1
  <2>2. CASE gesture = <<>> /\ doc = LastDoc(x)
    BY <2>2
  <2>. QED BY <1>5, <2>1, <2>2
<1>7. /\ y \in Tabs /\ y.staged = gesture /\ y.queue = x.queue
      /\ y.doc = (IF render THEN doc ELSE x.doc) /\ y.init = x.init
      /\ y.writing = x.writing /\ y.next = x.next /\ y.recovery = x.recovery
  BY <1>1, <1>6 DEF Tabs
<1>. HIDE DEF y
<1>8. /\ z \in Tabs /\ z.staged = y.staged /\ z.queue = y.queue /\ z.doc = y.doc /\ z.init = y.init
      /\ z.writing = y.writing /\ z.next = y.next /\ z.recovery = y.recovery
  <2>1. CASE y.state \in Stopped
    BY <1>7, <2>1
  <2>2. CASE y.state \notin Stopped
    <3>1. s \in Words
      BY <1>7, WordsKnown DEF Tabs
    <3>2. z = [y EXCEPT !.state = s]
      BY <2>2
    <3>. HIDE DEF s, z
    <3>. QED BY <1>7, <3>1, <3>2 DEF Tabs
  <2>. QED BY <2>1, <2>2
<1>. HIDE DEF z
<1>. QED BY <1>4, <1>6, <1>7, <1>8 DEF Staging

\* the page y has the gesture e under way, and otherwise what x has
BeginsWith(x, y, e) ==
  /\ y \in Tabs /\ y.init /\ ~ Quiet(y) /\ y.queue = x.queue /\ Gesture(y) = {e}
  /\ \A v : Safe(x, v) /\ e \in v.known => Safe(y, v)

LEMMA StageBegins ==
  ASSUME NEW x, Able(x), x.init, x.staged = <<>>, NEW e \in Nat \ {0}, NEW key, key = StagedKey(e),
         NEW doc \in Document, doc = x.doc \cup {e}, NEW render \in BOOLEAN,
         doc # LastDoc(x), e \notin EditsOf(x.queue), ~ (Len(x.queue) >= MaxQueue)
  PROVE  BeginsWith(x, Stage(x, key, doc, render), e)
<1>1. MaxEdits \in Nat /\ key \in Nat \ {0} /\ key - MaxEdits = e
  BY AutosaveAssumption DEF StagedKey
<1>9. PICK z \in Tabs : Staging(x, key, doc, render, z)
  BY <1>1, StageIs
<1>2. /\ Stage(x, key, doc, render) = Schedule(z, FALSE)
      /\ z.queue = x.queue /\ z.doc = (IF render THEN doc ELSE x.doc) /\ z.init = x.init
      /\ z.writing = x.writing /\ z.next = x.next /\ z.recovery = x.recovery
      /\ Len(z.staged) = 1 /\ z.staged[1].doc = doc /\ z.staged[1].key = key
  BY <1>9 DEF Staging
<1>3. z.staged # <<>> /\ EditsOf(z.staged) = doc
  BY <1>2, OneStaged DEF Tabs
<1>4. Gesture(z) = {e} /\ Held(z) = Held(x) \cup {e} /\ Held(x) = EditsOf(x.queue)
  BY <1>1, <1>2, <1>3 DEF Gesture, Held
<1>5. ASSUME NEW v, Safe(x, v), e \in v.known PROVE Loose(z, v)
  <2>1. Loose(x, v)
    BY <1>5 DEF Safe
  <2>2. Recorded(z)
    BY <1>2, <2>1 DEF Loose, Recorded
  <2>3. Within(z, v.known)
    BY <1>2, <1>3, <1>5, <2>1 DEF Loose, Within
  <2>4. Ordered(z, v.lost)
    BY <1>1, <1>2, <1>4, <2>1 DEF Loose, Ordered
  <2>5. WriteFits(z.writing, z, v) /\ WriteFits(z.next, z, v)
    BY <1>2, <1>4, <2>1 DEF Loose, WriteFits
  <2>. QED BY <1>2, <1>4, <2>1, <2>2, <2>3, <2>4, <2>5 DEF Loose
<1>6. Heeds(z, Schedule(z, FALSE)) /\ ~ Quiet(Schedule(z, FALSE)) /\ Schedule(z, FALSE).queue = z.queue
  BY <1>2, ScheduleHeeds, ScheduleIsLoud DEF Schedule, Tabs
<1>7. Gesture(Schedule(z, FALSE)) = Gesture(z)
  BY <1>6 DEF Heeds, Gesture
<1>. QED BY <1>2, <1>4, <1>5, <1>6, <1>7, ScheduleSafe DEF Heeds, BeginsWith

LEMMA StageCancels ==
  ASSUME NEW x, Able(x), x.init, x.staged # <<>>, x.doc # x.staged[1].doc,
         NEW v, Safe(x, v), v.claims \cap Gesture(x) = {}, v.held \subseteq v.claims
  PROVE  LET y == Stage(x, x.staged[1].key, x.doc, FALSE) IN
         /\ y \in Tabs /\ y.init /\ ~ Quiet(y) /\ y.queue = x.queue /\ Gesture(y) = {}
         /\ Safe(y, v)
<1>. DEFINE key == x.staged[1].key
            e == key - MaxEdits
<1>1. x \in Tabs /\ key \in Nat \ {0} /\ x.doc \in Document /\ x.doc \subseteq x.staged[1].doc
      /\ Len(x.staged) = 1
  <2>1. x \in Tabs /\ x.doc \in Document /\ Len(x.staged) = 1
    BY DEF Able, Tabs, Fit
  <2>2. key \in Nat /\ key > MaxEdits /\ x.doc \subseteq x.staged[1].doc /\ MaxEdits \in Nat
    BY StagedEntry, AutosaveAssumption
  <2>. HIDE DEF key
  <2>. QED BY <2>1, <2>2
<1>2. ~ (Len(x.queue) >= MaxQueue)
  <2>1. x.queue \in Seq(Entries) /\ MaxQueue \in Nat
    BY <1>1, AutosaveAssumption DEF Able, HistoryOK, MaxQueue, Tabs
  <2>2. Len(x.queue) < MaxQueue
    BY DEF Able, Fit
  <2>3. Len(x.queue) \in Nat
    BY <2>1
  <2>. QED BY <2>1, <2>2, <2>3
<1>10. PICK d : d = x.doc
  OBVIOUS
<1>11. d \in Document /\ FALSE \in BOOLEAN /\ key \in Nat \ {0}
  BY <1>1, <1>10
<1>12. PICK z \in Tabs : Staging(x, key, d, FALSE, z)
  BY <1>2, <1>11, StageIs
<1>3. /\ Stage(x, key, x.doc, FALSE) = Schedule(z, FALSE)
      /\ z.queue = x.queue /\ z.doc = x.doc /\ z.init = x.init
      /\ z.writing = x.writing /\ z.next = x.next /\ z.recovery = x.recovery
      /\ z.staged = <<>> \/ (Len(z.staged) = 1 /\ z.staged[1].doc = x.doc /\ z.staged[1].key = key)
  BY <1>10, <1>12 DEF Staging
<1>4. e \notin x.doc
  BY <1>1 DEF Safe, Loose, Ordered
<1>. HIDE DEF e, key
<1>5. Gesture(z) = {} /\ Held(z) = EditsOf(x.queue) /\ Held(x) = EditsOf(x.queue) \cup Gesture(x)
  BY <1>3, <1>4 DEF Gesture, Held, e
<1>6. z.staged = <<>> \/ (z.staged # <<>> /\ EditsOf(z.staged) = x.doc)
  BY <1>3, OneStaged DEF Tabs
<1>7. Loose(z, v)
  <2>1. Loose(x, v)
    BY DEF Safe
  <2>2. Recorded(z)
    BY <1>3, <2>1 DEF Loose, Recorded
  <2>3. Within(z, v.known)
    <3>1. EditsOf(z.staged) \subseteq x.doc
      BY <1>6 DEF EditsOf
    <3>. QED BY <1>3, <2>1, <3>1 DEF Loose, Within
  <2>4. Ordered(z, v.lost)
    BY <1>3, <1>5, <1>6, <2>1 DEF Loose, Ordered
  <2>5. WriteFits(z.writing, z, v) /\ WriteFits(z.next, z, v)
    BY <1>3, <1>5, <2>1 DEF Loose, WriteFits
  <2>. QED BY <1>3, <1>5, <2>1, <2>2, <2>3, <2>4, <2>5 DEF Loose
<1>8. Heeds(z, Schedule(z, FALSE)) /\ ~ Quiet(Schedule(z, FALSE)) /\ Schedule(z, FALSE).queue = z.queue
  BY <1>3, ScheduleHeeds, ScheduleIsLoud DEF Schedule, Tabs
<1>9. Gesture(Schedule(z, FALSE)) = Gesture(z)
  BY <1>8 DEF Heeds, Gesture
<1>. QED BY <1>3, <1>5, <1>7, <1>8, <1>9, ScheduleSafe DEF Heeds, key

-----------------------------------------------------------------------------
(* An acknowledgement, the latest version, what the journal gives back, a  *)
(* write of the journal that ends.                                         *)

LEMMA TailEdits ==
  ASSUME NEW S, NEW s \in Seq(S), s # <<>>
  PROVE  LET t == Tail(s) IN
         /\ t \in Seq(S) /\ EditsOf(s) = s[1].doc \cup EditsOf(t)
         /\ t # <<>> => Last(t) = Last(s)
<1>. DEFINE t == Tail(s)
<1>1. /\ t \in Seq(S) /\ Len(t) = Len(s) - 1 /\ Len(s) \in Nat \ {0} /\ DOMAIN s = 1..Len(s)
      /\ DOMAIN t = 1..(Len(s) - 1) /\ \A i \in 1..(Len(s) - 1) : t[i] = s[i + 1]
  BY EmptySeq
<1>. HIDE DEF t
<1>2. t # <<>> => Last(t) = Last(s)
  <2>1. ASSUME t # <<>> PROVE t[Len(t)] = s[Len(s)]
    <3>1. Len(t) \in 1..(Len(s) - 1)
      BY <1>1, <2>1, EmptySeq
    <3>2. Len(t) + 1 = Len(s)
      BY <1>1
    <3>. QED BY <1>1, <3>1, <3>2
  <2>. QED BY <2>1 DEF Last
<1>3. ASSUME NEW e PROVE e \in EditsOf(s) <=> e \in s[1].doc \/ e \in EditsOf(t)
  <2>1. ASSUME e \in EditsOf(s) PROVE e \in s[1].doc \/ e \in EditsOf(t)
    <3>1. PICK i \in DOMAIN s : e \in s[i].doc
      BY <2>1, EditsIn
    <3>2. CASE i = 1
      BY <3>1, <3>2
    <3>3. CASE i # 1
      <4>1. i - 1 \in DOMAIN t /\ t[i - 1] = s[i]
        BY <1>1, <3>3
      <4>. QED BY <3>1, <4>1, EditsIn
    <3>. QED BY <3>2, <3>3
  <2>2. ASSUME e \in s[1].doc PROVE e \in EditsOf(s)
    BY <1>1, <2>2, EditsIn
  <2>3. ASSUME e \in EditsOf(t) PROVE e \in EditsOf(s)
    <3>1. PICK i \in DOMAIN t : e \in t[i].doc
      BY <2>3, EditsIn
    <3>2. i + 1 \in DOMAIN s /\ t[i] = s[i + 1]
      BY <1>1
    <3>. QED BY <3>1, <3>2, EditsIn
  <2>. QED BY <2>1, <2>2, <2>3
<1>. QED BY <1>1, <1>2, <1>3 DEF t

LEMMA AcknowledgeSafe ==
  ASSUME NEW x \in Tabs, x.init, x.queue # <<>>, online \in BOOLEAN, NEW draft \in Nat
  PROVE  LET y == Acknowledge(x, draft) IN
         /\ y \in Tabs /\ y.init /\ ~ Quiet(y) /\ y.staged = x.staged /\ y.doc = x.doc
         /\ EditsOf(x.queue) = x.queue[1].doc \cup EditsOf(y.queue)
         /\ \A v : Safe(x, v) /\ x.queue[1].doc \subseteq v.settled => Safe(y, v)
<1>. DEFINE s == IF Tail(x.queue) = <<>> /\ x.staged = <<>> THEN "saved" ELSE "pending"
            z == [x EXCEPT !.queue = Tail(x.queue), !.draft = draft, !.flight = FALSE, !.state = s]
            y == Schedule(z, FALSE)
<1>1. Acknowledge(x, draft) = Pump(y, online)
  BY DEF Acknowledge
<1>2. x.queue \in Seq(Entries) /\ s \in Words
  BY WordsKnown DEF Tabs
<1>3. PICK t : t = Tail(x.queue)
  OBVIOUS
<1>4. /\ t \in Seq(Entries) /\ EditsOf(x.queue) = x.queue[1].doc \cup EditsOf(t)
      /\ t # <<>> => Last(t) = Last(x.queue)
  BY <1>2, <1>3, TailEdits
<1>5. z = [x EXCEPT !.queue = t, !.draft = draft, !.flight = FALSE, !.state = s]
  BY <1>3
<1>. HIDE DEF s, z
<1>6. /\ z \in Tabs /\ z.queue = t /\ z.staged = x.staged /\ z.doc = x.doc /\ z.init
      /\ z.writing = x.writing /\ z.next = x.next /\ z.recovery = x.recovery
  BY <1>2, <1>4, <1>5 DEF Tabs
<1>7. /\ Held(z) = EditsOf(t) \cup Gesture(x) /\ Held(x) = Held(z) \cup x.queue[1].doc
      /\ Gesture(z) = Gesture(x)
  BY <1>4, <1>6 DEF Held, Gesture
<1>8. ASSUME NEW v, Safe(x, v), x.queue[1].doc \subseteq v.settled PROVE Loose(z, v)
  <2>1. Loose(x, v)
    BY <1>8 DEF Safe
  <2>2. Recorded(z) /\ Within(z, v.known)
    BY <1>4, <1>6, <2>1 DEF Loose, Recorded, Within
  <2>3. Ordered(z, v.lost)
    BY <1>4, <1>6, <1>7, <2>1 DEF Loose, Ordered, Sorted
  <2>4. WriteFits(z.writing, z, v) /\ WriteFits(z.next, z, v)
    BY <1>6, <1>7, <1>8, <2>1 DEF Loose, WriteFits
  <2>. QED BY <1>4, <1>6, <1>7, <1>8, <2>1, <2>2, <2>3, <2>4 DEF Loose
<1>9. y \in Tabs /\ ~ Quiet(y) /\ Heeds(z, y)
  BY <1>6, ScheduleHeeds, ScheduleIsLoud DEF Heeds
<1>10. \A v : Safe(x, v) /\ x.queue[1].doc \subseteq v.settled => Safe(y, v)
  BY <1>6, <1>8, ScheduleSafe
<1>. HIDE DEF y
<1>11. Heeds(y, Pump(y, online))
  BY <1>9, PumpHeeds
<1>. QED BY <1>1, <1>4, <1>6, <1>9, <1>10, <1>11 DEF Heeds

LEMMA ReplaceSafe ==
  ASSUME NEW x \in Tabs, x.init, NEW draft \in Nat, history[draft].doc \in Document
  PROVE  LET y == ReplaceWithLatest(x, draft) IN
         /\ y \in Tabs /\ y.init /\ ~ Quiet(y) /\ y.staged = <<>> /\ y.queue = <<>>
         /\ \A v : /\ Loose(x, v) /\ v.held \subseteq v.claims /\ v.guarded \subseteq v.claims
                   /\ v.claims \cap Held(x) \subseteq v.settled
                   /\ history[draft].doc \subseteq v.settled \cap v.known
                   => Safe(y, v)
<1>. DEFINE z == [x EXCEPT !.retryTimer = FALSE, !.queue = <<>>, !.staged = <<>>, !.flight = FALSE,
                           !.draft = draft, !.doc = history[draft].doc, !.state = "saved",
                           !.full = FALSE]
            y == Schedule(z, FALSE)
<1>1. y = ReplaceWithLatest(x, draft)
  BY DEF ReplaceWithLatest
<1>6. PICK d : d = history[draft].doc
  OBVIOUS
<1>7. z = [x EXCEPT !.retryTimer = FALSE, !.queue = <<>>, !.staged = <<>>, !.flight = FALSE,
                    !.draft = draft, !.doc = d, !.state = "saved", !.full = FALSE]
      /\ d \in Document /\ <<>> \in Seq(Entries)
  BY <1>6
<1>. HIDE DEF z
<1>2. /\ z \in Tabs /\ z.queue = <<>> /\ z.staged = <<>> /\ z.doc = history[draft].doc /\ z.init
      /\ z.writing = x.writing /\ z.next = x.next /\ z.recovery = x.recovery
  BY <1>6, <1>7, WordsKnown DEF Tabs
<1>3. EditsOf(z.queue) = {} /\ EditsOf(z.staged) = {} /\ Held(z) = {}
  BY <1>2 DEF EditsOf, Held, Gesture
<1>4. ASSUME NEW v, Loose(x, v), v.held \subseteq v.claims, v.guarded \subseteq v.claims,
             v.claims \cap Held(x) \subseteq v.settled,
             history[draft].doc \subseteq v.settled \cap v.known
      PROVE  Loose(z, v)
  <2>1. Recorded(z) /\ Within(z, v.known)
    BY <1>2, <1>3, <1>4 DEF Loose, Recorded, Within
  <2>2. Ordered(z, v.lost)
    BY <1>2, <1>3 DEF Ordered, Sorted
  <2>3. WriteFits(z.writing, z, v) /\ WriteFits(z.next, z, v)
    BY <1>2, <1>3, <1>4 DEF Loose, WriteFits
  <2>4. EditsOf(x.queue) \subseteq Held(x)
    BY DEF Held
  <2>. QED BY <1>2, <1>3, <1>4, <2>1, <2>2, <2>3, <2>4 DEF Loose
<1>5. y \in Tabs /\ ~ Quiet(y) /\ y.queue = z.queue /\ y.staged = z.staged /\ y.init
  BY <1>2, ScheduleHeeds, ScheduleIsLoud DEF Heeds, Schedule, Tabs
<1>. QED BY <1>1, <1>2, <1>4, <1>5, ScheduleSafe

LEMMA RecoveredSafe ==
  ASSUME NEW x \in Tabs, x.init, x.queue = <<>>, x.staged = <<>>, x.recovery = "ready",
         x.writing = NoWrite, x.next = NoWrite, NEW w \in Payloads, w.actions # <<>>
  PROVE  LET y == Recovered(x, w) IN
         /\ y \in Tabs /\ y.init /\ ~ Quiet(y) /\ y.staged = <<>>
         /\ EditsOf(y.queue) = EditsOf(w.actions)
         /\ \A v : /\ EditsOf(w.actions) \subseteq v.known /\ Sorted(w.actions, v.lost)
                   /\ v.held \subseteq v.settled \cup EditsOf(w.actions)
                   /\ v.guarded \subseteq v.settled \cup EditsOf(w.actions)
                   => Safe(y, v)
<1>. DEFINE b == IF w.actions[1].base = 0 THEN w.base ELSE w.actions[1].base
            e == [w.actions[1] EXCEPT !.base = b]
            q == [w.actions EXCEPT ![1] = e]
            z == [x EXCEPT !.queue = q, !.doc = Last(w.actions).doc, !.state = "pending"]
            y == Schedule(z, FALSE)
<1>1. /\ w.actions \in Seq(Entries) /\ 1 \in DOMAIN w.actions /\ w.actions[1] \in Entries
      /\ w.base \in Nat /\ Len(w.actions) \in DOMAIN w.actions /\ Head(w.actions) = w.actions[1]
  BY InQueue DEF Payloads
<1>2. y = Recovered(x, w)
  BY <1>1 DEF Recovered
<1>3. e \in Entries /\ e.doc = w.actions[1].doc
  BY <1>1 DEF Entries
<1>. HIDE DEF e
<1>4. q \in Seq(Entries) /\ Len(q) = Len(w.actions) /\ q # <<>>
      /\ \A i \in DOMAIN w.actions : q[i].doc = w.actions[i].doc
  BY <1>1, <1>3, NewHead
<1>. HIDE DEF q
<1>5. EditsOf(q) = EditsOf(w.actions) /\ Last(q).doc = Last(w.actions).doc
  BY <1>1, <1>4, SameEdits
<1>6. Last(w.actions).doc \in Document /\ Last(w.actions).doc \subseteq EditsOf(w.actions)
  <2>1. w.actions[Len(w.actions)] \in Entries
    BY <1>1
  <2>. QED BY <1>1, <2>1 DEF Last, Entries, EditsOf
<1>7. /\ z \in Tabs /\ z.queue = q /\ z.staged = <<>> /\ z.doc = Last(w.actions).doc /\ z.init
      /\ z.writing = NoWrite /\ z.next = NoWrite /\ z.recovery = "ready"
  BY <1>4, <1>6, WordsKnown DEF Tabs
<1>. HIDE DEF z
<1>8. EditsOf(z.staged) = {} /\ Held(z) = EditsOf(w.actions) /\ z.doc \subseteq EditsOf(w.actions)
  <2>1. EditsOf(z.staged) = {}
    BY <1>7 DEF EditsOf
  <2>2. Gesture(z) = {}
    BY <1>7 DEF Gesture
  <2>. QED BY <1>5, <1>6, <1>7, <2>1, <2>2 DEF Held
<1>9. ASSUME NEW v, EditsOf(w.actions) \subseteq v.known, Sorted(w.actions, v.lost),
             v.held \subseteq v.settled \cup EditsOf(w.actions),
             v.guarded \subseteq v.settled \cup EditsOf(w.actions)
      PROVE  Loose(z, v)
  <2>1. Recorded(z) /\ Within(z, v.known)
    BY <1>5, <1>7, <1>8, <1>9 DEF Recorded, Within, Wrote
  <2>2. Ordered(z, v.lost)
    BY <1>5, <1>7, <1>9 DEF Ordered, Sorted
  <2>3. WriteFits(z.writing, z, v) /\ WriteFits(z.next, z, v)
    BY <1>7 DEF WriteFits
  <2>. QED BY <1>5, <1>7, <1>8, <1>9, <2>1, <2>2, <2>3 DEF Loose
<1>10. y \in Tabs /\ ~ Quiet(y) /\ y.queue = z.queue /\ y.staged = z.staged /\ y.init
  BY <1>7, ScheduleHeeds, ScheduleIsLoud DEF Heeds, Schedule, Tabs
<1>. QED BY <1>2, <1>5, <1>7, <1>9, <1>10, ScheduleSafe

\* what v becomes when the payload w has landed
WithJournal(v, w) ==
  [claims |-> v.claims, settled |-> v.settled, lost |-> v.lost, known |-> v.known,
   journaled |-> Wrote(w), held |-> v.claims \cap Wrote(w), guarded |-> v.guarded]

\* the write under way has landed, and the next one begins or none is left
LEMMA LandedSafe ==
  ASSUME NEW x \in Tabs, x.init, x.writing # NoWrite, NEW y \in Tabs, y.init,
         y.queue = x.queue, y.staged = x.staged, y.doc = x.doc,
         y.writing = x.next, y.next = NoWrite,
         IF x.next = NoWrite THEN y.recovery \in {"ready", "protected"} ELSE y.recovery = x.recovery,
         NEW v, Safe(x, v)
  PROVE  Safe(y, WithJournal(v, x.writing))
<1>1. PICK w : w = WithJournal(v, x.writing)
  OBVIOUS
<1>2. /\ w.claims = v.claims /\ w.settled = v.settled /\ w.lost = v.lost /\ w.known = v.known
      /\ w.journaled = Wrote(x.writing) /\ w.held = v.claims \cap Wrote(x.writing)
      /\ w.guarded = v.guarded
  BY <1>1 DEF WithJournal
<1>3. Held(y) = Held(x) /\ Gesture(y) = Gesture(x)
  BY DEF Held, Gesture
<1>4. Loose(x, v) /\ x.recovery = "writing"
  BY DEF Safe, Loose, Recorded
<1>5. Recorded(y)
  BY <1>4 DEF Recorded, Loose
<1>6. Within(y, w.known) /\ Ordered(y, w.lost)
  BY <1>2, <1>3, <1>4 DEF Within, Ordered, Loose, Wrote
<1>7. WriteFits(y.writing, y, w) /\ WriteFits(y.next, y, w)
  BY <1>2, <1>3, <1>4 DEF WriteFits, Loose
<1>8. w.held \subseteq w.settled \cup Held(y)
  BY <1>2, <1>3, <1>4 DEF WriteFits, Loose, Wrote
<1>9. Loose(y, w)
  BY <1>2, <1>3, <1>4, <1>5, <1>6, <1>7, <1>8 DEF Loose
<1>10. v.claims \cap Held(x) \subseteq v.settled \cup Wrote(Newest(x))
  BY DEF Safe
<1>11. y.writing # NoWrite => w.claims \cap Held(y) \subseteq w.settled \cup Wrote(Newest(y))
  BY <1>2, <1>3, <1>10 DEF Newest
<1>12. Quiet(y) => w.claims \cap Held(y) \subseteq w.settled \cup w.journaled
  <2>1. Quiet(y) => x.next = NoWrite
    BY <1>4 DEF Quiet
  <2>. QED BY <1>2, <1>3, <1>10, <2>1 DEF Newest
<1>. QED BY <1>1, <1>9, <1>11, <1>12 DEF Safe

-----------------------------------------------------------------------------
(* The ledger of all pages.                                                *)

LEMMA Pageful ==
  ASSUME SaveInv, NEW p \in OpenPages
  PROVE  /\ p \in Pages /\ IsOpen(p) /\ tabs[p] \in Tabs /\ Able(tabs[p])
         /\ tabs[p].staged # <<>> => Len(tabs[p].staged) = 1
<1>1. p \in Pages /\ IsOpen(p)
  BY DEF OpenPages
<1>. QED BY <1>1, OpenAble DEF Fit

LEMMA HeldKnown ==
  ASSUME SaveInv, Guards, NEW p \in OpenPages
  PROVE  /\ Held(tabs[p]) \subseteq Made /\ tabs[p].doc \subseteq Made
         /\ EditsOf(tabs[p].queue) \subseteq Made /\ EditsOf(tabs[p].staged) \subseteq Made
<1>1. Gesture(tabs[p]) \subseteq EditsOf(tabs[p].staged)
  BY Pageful, GestureStaged
<1>2. Within(tabs[p], Made)
  BY DEF Guards, View, Safe, Loose
<1>. QED BY <1>1, <1>2 DEF Within, Held

\* a page that stays as it is
LEMMA ViewLoosens ==
  ASSUME SaveInv, Guards, Known, NEW p \in OpenPages,
         Settled \subseteq Settled', dropped \subseteq dropped', Made \subseteq Made',
         Claims' \cap Made \subseteq Claims \cup Settled',
         \/ ~ Owner(p)'
         \/ /\ Owner(p) /\ Claims' \cap Journaled' \subseteq Journaled \cup Settled'
            /\ \A q \in Pages \ {p} :
                 IsOpen(q)' /\ Quiet(tabs'[q]) =>
                   \/ Held(tabs'[q]) = {}
                   \/ IsOpen(q) /\ Quiet(tabs[q]) /\ Held(tabs'[q]) \subseteq Held(tabs[q]),
         Journaled' \cap Claims' \subseteq Made \cup Settled'
  PROVE  Looser(View(p), View(p)')
<1>1. PICK v, w : v = View(p) /\ w = View(p)'
  OBVIOUS
<1>2. /\ v.claims = Claims /\ v.settled = Settled /\ v.lost = dropped /\ v.known = Made
      /\ v.held = (IF Owner(p) THEN Claims \cap Journaled ELSE {})
      /\ v.guarded = (IF Owner(p) THEN Guarded(p) ELSE {})
  BY <1>1 DEF View
<1>3. /\ w.claims = Claims' /\ w.settled = Settled' /\ w.lost = dropped' /\ w.known = Made'
      /\ w.held = (IF Owner(p)' THEN Claims' \cap Journaled' ELSE {})
      /\ w.guarded = (IF Owner(p)' THEN Guarded(p)' ELSE {})
  BY <1>1 DEF View
<1>4. w.held \subseteq v.held \cup w.settled
  <2>1. Journaled \subseteq Made
    BY DEF Known
  <2>. QED BY <1>2, <1>3, <2>1
<1>5. w.guarded \subseteq v.guarded \cup w.settled
  <2>1. ASSUME Owner(p)', NEW e \in Guarded(p)', e \notin Settled' PROVE Owner(p) /\ e \in Guarded(p)
    <3>1. PICK q \in OpenPages' : q # p /\ Quiet(tabs'[q]) /\ e \in Held(tabs'[q])
      BY <2>1 DEF Guarded
    <3>2. q \in Pages \ {p} /\ IsOpen(q)' /\ e \in Claims'
      BY <2>1, <3>1 DEF OpenPages, Guarded, Pages
    <3>3. q \in OpenPages /\ Quiet(tabs[q]) /\ e \in Held(tabs[q])
      BY <2>1, <3>1, <3>2 DEF OpenPages
    <3>4. e \in Made
      BY <3>3, HeldKnown
    <3>. QED BY <2>1, <3>1, <3>2, <3>3, <3>4 DEF Guarded
  <2>. QED BY <1>2, <1>3, <2>1
<1>6. Looser(v, w)
  BY <1>2, <1>3, <1>4, <1>5 DEF Looser
<1>. QED BY <1>1, <1>6

\* what may happen to the page q, before and after a step that leaves the payload in the journal
Follow(q) ==
  /\ q \in OpenPages /\ (Owner(q)' => Owner(q))
  /\ Quiet(tabs'[q]) => Quiet(tabs[q]) /\ Held(tabs'[q]) \subseteq Held(tabs[q])
  /\ Safe(tabs[q], View(q)') => Safe(tabs'[q], View(q)')

LEMMA GuardsFollow ==
  ASSUME SaveInv, Guards, Known,
         Settled \subseteq Settled', dropped \subseteq dropped', Made \subseteq Made',
         Claims' \cap Made \subseteq Claims \cup Settled', journal'.payload = journal.payload,
         \A q \in OpenPages' :
           Follow(q) \/ (Safe(tabs'[q], View(q)') /\ (Quiet(tabs'[q]) => Held(tabs'[q]) = {}))
  PROVE  Guards'
<1>. SUFFICES ASSUME NEW p \in OpenPages', Follow(p) PROVE Safe(tabs'[p], View(p)')
  BY DEF Guards
<1>1. Journaled' = Journaled
  BY DEF Journaled
<1>2. p \in OpenPages /\ Safe(tabs[p], View(p)) /\ tabs[p] \in Tabs
  BY Pageful DEF Follow, Guards
<1>3. PICK x, v, w : x = tabs[p] /\ v = View(p) /\ w = View(p)'
  OBVIOUS
<1>4. \A q \in Pages \ {p} : IsOpen(q)' /\ Quiet(tabs'[q]) =>
        \/ Held(tabs'[q]) = {}
        \/ IsOpen(q) /\ Quiet(tabs[q]) /\ Held(tabs'[q]) \subseteq Held(tabs[q])
  <2>1. ASSUME NEW q \in Pages \ {p}, IsOpen(q)', Quiet(tabs'[q])
        PROVE  \/ Held(tabs'[q]) = {}
               \/ IsOpen(q) /\ Quiet(tabs[q]) /\ Held(tabs'[q]) \subseteq Held(tabs[q])
    <3>1. q \in OpenPages'
      BY <2>1 DEF OpenPages, Pages
    <3>. QED BY <2>1, <3>1 DEF Follow, OpenPages
  <2>. QED BY <2>1
<1>5. Journaled \subseteq Made
  BY DEF Known
<1>6. Looser(v, w)
  BY <1>1, <1>2, <1>3, <1>4, <1>5, ViewLoosens DEF Follow
<1>7. Quiet(x) => v.claims \cap Held(x) \subseteq w.settled \cup w.journaled
  <2>1. /\ v.settled = Settled /\ v.journaled = Journaled
        /\ w.settled = Settled' /\ w.journaled = Journaled'
    BY <1>3 DEF View
  <2>. QED BY <1>1, <1>2, <1>3, <2>1 DEF Safe
<1>8. Safe(x, w)
  BY <1>2, <1>3, <1>6, <1>7, SafeLoosens
<1>. QED BY <1>3, <1>8 DEF Follow

\* a request under way holds the head of a queue
SavesHeld ==
  \A r \in net : r.kind = "save" /\ r.page # 0 =>
    r.page \in OpenPages /\ r.doc \subseteq EditsOf(tabs[r.page].queue)
LEMMA SavesHold == SaveInv => SavesHeld
<1>. SUFFICES ASSUME SaveInv, NEW r \in net, r.kind = "save", r.page # 0
              PROVE  r.page \in OpenPages /\ r.doc \subseteq EditsOf(tabs[r.page].queue)
  BY DEF SavesHeld
<1>1. r.page \in Pages /\ IsOpen(r.page) /\ Carries(r, tabs[r.page])
  BY SaveFlies
<1>2. tabs[r.page].queue # <<>> /\ tabs[r.page].queue \in Seq(Entries)
  BY <1>1, OpenAble DEF Fit, Carries, Tabs
<1>3. 1 \in DOMAIN tabs[r.page].queue
  BY <1>2, InQueue
<1>. QED BY <1>1, <1>3 DEF Carries, EditsOf, OpenPages
LEMMA SavesStillHold == SaveInv' => SavesHeld'
BY SavesHold, PTL

Carried(r) ==
  \/ r \in net
  \/ /\ r.answer = "none"
     /\ \/ \E s \in net : r.doc = s.doc
        \/ r.kind = "save" /\ r.page # 0
        \/ r.doc \subseteq Made'

LEMMA NetFollows ==
  ASSUME SaveInv', Answered, Guards', Made \subseteq Made', Last(history).doc \subseteq Last(history').doc,
         \A r \in net' : Carried(r)
  PROVE  Answered'
<1>. SUFFICES ASSUME NEW r \in net'
              PROVE  /\ r.doc \subseteq Made'
                     /\ r.kind = "save" /\ r.answer \in {"committed", "saved"} =>
                          r.doc \subseteq Last(history').doc
  BY DEF Answered
<1>1. CASE r \in net
  BY <1>1 DEF Answered
<1>2. CASE r.answer = "none" /\ \E s \in net : r.doc = s.doc
  BY <1>2 DEF Answered
<1>3. CASE r.answer = "none" /\ r.kind = "save" /\ r.page # 0
  <2>1. r.page \in OpenPages' /\ r.doc \subseteq EditsOf(tabs'[r.page].queue)
    BY <1>3, SavesStillHold DEF SavesHeld
  <2>2. PICK q : q = r.page
    OBVIOUS
  <2>3. q \in OpenPages' /\ r.doc \subseteq EditsOf(tabs'[q].queue)
    BY <2>1, <2>2
  <2>4. Safe(tabs'[q], View(q)')
    BY <2>3 DEF Guards
  <2>5. PICK v : v = View(q)'
    OBVIOUS
  <2>6. v.known = Made'
    BY <2>5 DEF View
  <2>7. EditsOf(tabs'[q].queue) \subseteq v.known
    BY <2>4, <2>5 DEF Safe, Loose, Within
  <2>. QED BY <1>3, <2>3, <2>6, <2>7
<1>4. CASE r.answer = "none" /\ r.doc \subseteq Made'
  BY <1>4
<1>. QED BY <1>1, <1>2, <1>3, <1>4 DEF Carried

LEMMA KeptFollows ==
  ASSUME SaveInv, SaveInv', KeptInv, journal'.payload = journal.payload,
         Made \subseteq Made', dropped \subseteq dropped', Last(history).doc \subseteq Last(history').doc,
         \A i \in DOMAIN history' : history'[i].doc \subseteq Made', Grown',
         Claims' \cap Made \subseteq Claims \cup Settled', accepted' \subseteq Made', Unique',
         \A q \in OpenPages' : Follow(q) \/ (Safe(tabs'[q], View(q)') /\ (Quiet(tabs'[q]) => Held(tabs'[q]) = {})),
         accepted' \subseteq accepted \cup UNION {EditsOf(tabs'[q].queue) : q \in OpenPages'},
         \A q \in OpenPages : /\ q \in OpenPages'
                              /\ accepted \cap EditsOf(tabs[q].queue) \subseteq
                                   Settled' \cup EditsOf(tabs'[q].queue),
         Guards' => Answered'
  PROVE  KeptInv'
<1>1. Settled \subseteq Settled'
  BY DEF Settled
<1>2. Guards'
  BY <1>1, GuardsFollow DEF KeptInv
<1>3. Answered'
  BY <1>2
<1>4. Journaled' = Journaled
  BY DEF Journaled
<1>5. Known'
  BY <1>4 DEF Known, KeptInv
<1>6. Sorted(journal'.payload.actions, dropped')
  BY DEF KeptInv, Sorted
<1>7. Accounted'
  <2>1. ASSUME NEW e \in accepted'
        PROVE  e \in Settled' \/ e \in Journaled' \/ \E q \in OpenPages' : e \in EditsOf(tabs'[q].queue)
    <3>1. CASE e \notin accepted
      BY <2>1, <3>1
    <3>2. CASE e \in accepted
      <4>1. e \in Settled \/ e \in Journaled \/ \E q \in OpenPages : e \in EditsOf(tabs[q].queue)
        BY <3>2 DEF KeptInv, Accounted, Settled, Journaled, EditsOfTab
      <4>2. CASE \E q \in OpenPages : e \in EditsOf(tabs[q].queue)
        BY <3>2, <4>2
      <4>. QED BY <1>1, <1>4, <4>1, <4>2
    <3>. QED BY <3>1, <3>2
  <2>. QED BY <2>1 DEF Accounted, Settled, Journaled, EditsOfTab
<1>. QED BY <1>2, <1>3, <1>5, <1>6, <1>7 DEF KeptInv

LEMMA AllHeed ==
  ASSUME SaveInv, SaveInv', KeptInv, journal'.payload = journal.payload, Made \subseteq Made',
         dropped' = dropped, history' = history, accepted' = accepted,
         OpenPages' = OpenPages,
         \A q \in OpenPages : Heeds(tabs[q], tabs'[q]) /\ (Owner(q)' => Owner(q)),
         \A r \in net' : Carried(r)
  PROVE  KeptInv'
<1>1. \A q \in OpenPages : Gesture(tabs'[q]) = Gesture(tabs[q]) /\ Held(tabs'[q]) = Held(tabs[q])
  BY DEF Heeds, Gesture, Held
<1>2. Claims' = Claims /\ Unique'
  <2>1. Claims' = Claims
    BY <1>1 DEF Claims
  <2>2. Unique'
    BY <1>1 DEF Unique, KeptInv
  <2>. QED BY <2>1, <2>2
<1>3. \A q \in OpenPages' : Follow(q)
  BY <1>1 DEF Follow, Heeds
<1>4. Settled' = Settled
  BY DEF Settled
<1>5. accepted' \subseteq Made' /\ Grown' /\ \A i \in DOMAIN history' : history'[i].doc \subseteq Made'
  BY DEF KeptInv, Known, Grown
<1>6. Guards' => Answered'
  BY NetFollows DEF KeptInv
<1>. QED BY <1>2, <1>3, <1>4, <1>5, <1>6, KeptFollows DEF Heeds

LEMMA SentCarried ==
  ASSUME NEW p \in Pages, NEW x, NEW y, NEW r \in Sent(p, x, y)
  PROVE  r.answer = "none" /\ r.kind = "save" /\ r.page = p /\ p # 0
BY AutosaveAssumption DEF Sent, Request, Pages

LEMMA OneHeeds ==
  ASSUME SaveInv, SaveInv', KeptInv, NEW p \in Pages, IsOpen(p), NEW y, Heeds(tabs[p], y),
         tabs' = [tabs EXCEPT ![p] = y], journal'.payload = journal.payload,
         journal'.owner = journal.owner \/ (journal'.owner = p /\ ~ tabs[p].init),
         Made \subseteq Made', dropped' = dropped, history' = history, accepted' = accepted,
         \A r \in net' : Carried(r)
  PROVE  KeptInv'
<1>1. DOMAIN tabs = Pages
  BY DEF SaveInv, PagesOK
<1>2. tabs'[p] = y /\ \A q \in Pages \ {p} : tabs'[q] = tabs[q]
  BY <1>1
<1>3. IsOpen(p)'
  BY <1>2 DEF Heeds, Tabs, IsOpen
<1>4. OpenPages' = OpenPages
  <2>1. \A q \in Pages : IsOpen(q)' <=> IsOpen(q)
    BY <1>2, <1>3 DEF IsOpen
  <2>. QED BY <2>1 DEF OpenPages, Pages
<1>5. ASSUME NEW q \in OpenPages PROVE Heeds(tabs[q], tabs'[q]) /\ (Owner(q)' => Owner(q))
  <2>1. CASE q = p
    BY <1>2, <1>3, <2>1 DEF Owner, Heeds
  <2>2. CASE q # p
    <3>1. tabs'[q] = tabs[q] /\ tabs[q] \in Tabs /\ q \in Pages
      BY <1>2, <1>5, <2>2, Pageful
    <3>. QED BY <2>2, <3>1, HeedsItself DEF Owner, IsOpen
  <2>. QED BY <2>1, <2>2
<1>. QED BY <1>4, <1>5, AllHeed

LEMMA StepHeeds ==
  ASSUME SaveInv, SaveInv', KeptInv, NEW p \in Pages, IsOpen(p), NEW y, Heeds(tabs[p], y),
         Step(p, y), journal'.payload = journal.payload,
         journal'.owner = journal.owner \/ (journal'.owner = p /\ ~ tabs[p].init),
         Made \subseteq Made', dropped' = dropped, history' = history, accepted' = accepted
  PROVE  KeptInv'
<1>1. PICK z : z = Emitted(y)
  OBVIOUS
<1>2. Heeds(tabs[p], z)
  BY <1>1, EmittedHeeds, HeedsTransitive DEF Heeds
<1>3. \A r \in net' : Carried(r)
  <2>1. ASSUME NEW r \in net', r \notin net PROVE Carried(r)
    <3>1. r \in Sent(p, tabs[p], y)
      BY <2>1 DEF Step
    <3>. QED BY <3>1, SentCarried DEF Carried
  <2>. QED BY <2>1 DEF Carried
<1>4. tabs' = [tabs EXCEPT ![p] = z]
  BY <1>1 DEF Step
<1>. QED BY <1>2, <1>3, <1>4, OneHeeds

LEMMA MethodHeeds ==
  ASSUME SaveInv, SaveInv', KeptInv, NEW p \in Pages, IsOpen(p), NEW y, Heeds(tabs[p], y),
         Step(p, y), journal' = journal, edits' = edits, dropped' = dropped, history' = history,
         accepted' = accepted
  PROVE  KeptInv'
<1>1. Made' = Made
  BY DEF Made
<1>. QED BY <1>1, StepHeeds

LEMMA TimersKept ==
  ASSUME SaveInv, SaveInv', KeptInv, NEW p \in Pages, FlushText(p) \/ RetryTimer(p) \/ Heartbeat(p)
  PROVE  KeptInv'
<1>. DEFINE z == [tabs[p] EXCEPT !.retryTimer = FALSE]
<1>1. /\ IsOpen(p) /\ journal' = journal /\ edits' = edits /\ dropped' = dropped
      /\ history' = history /\ accepted' = accepted
      /\ \/ Step(p, Flush(tabs[p])) \/ Step(p, Pump(z, online)) \/ Step(p, StopForAuthority(tabs[p]))
  BY DEF FlushText, RetryTimer, Heartbeat, server, counters, ghosts
<1>2. online \in BOOLEAN /\ tabs[p] \in Tabs
  BY <1>1, OpenAble DEF SaveInv
<1>3. Heeds(tabs[p], z) /\ z \in Tabs
  <2>1. /\ z \in Tabs /\ z.queue = tabs[p].queue /\ z.staged = tabs[p].staged
        /\ z.doc = tabs[p].doc /\ z.init = tabs[p].init /\ z.writing = tabs[p].writing
        /\ z.next = tabs[p].next /\ z.recovery = tabs[p].recovery
    BY <1>2 DEF Tabs
  <2>. HIDE DEF z
  <2>. QED BY <1>2, <2>1, SoftHeeds
<1>. HIDE DEF z
<1>4. Heeds(tabs[p], Pump(z, online))
  BY <1>2, <1>3, PumpHeeds, HeedsTransitive
<1>5. Heeds(tabs[p], Flush(tabs[p])) /\ Heeds(tabs[p], StopForAuthority(tabs[p]))
  BY <1>2, FlushHeeds, StopHeeds
<1>. QED BY <1>1, <1>4, <1>5, MethodHeeds

LEMMA RetryKept ==
  ASSUME SaveInv, SaveInv', KeptInv, NEW p \in Pages, Retry(p) PROVE KeptInv'
<1>. DEFINE y == IF tabs[p].init THEN RetryNow(tabs[p]) ELSE [tabs[p] EXCEPT !.recovery = "checking"]
<1>1. /\ IsOpen(p) /\ Step(p, y) /\ journal' = journal /\ edits' = edits /\ dropped' = dropped
      /\ history' = history /\ accepted' = accepted
  BY DEF Retry, server, counters, ghosts
<1>2. online \in BOOLEAN /\ tabs[p] \in Tabs
  BY <1>1, OpenAble DEF SaveInv
<1>3. Heeds(tabs[p], y)
  BY <1>2, RetryNowHeeds, UnreadHeeds, WordsKnown
<1>. HIDE DEF y
<1>. QED BY <1>1, <1>3, MethodHeeds

LEMMA JournalStopsKept ==
  ASSUME SaveInv, SaveInv', KeptInv, NEW p \in Pages, JournalOwned(p) \/ JournalFails(p)
  PROVE  KeptInv'
<1>. DEFINE y == [tabs[p] EXCEPT !.recovery = "blocked", !.writing = NoWrite, !.next = NoWrite]
            z == [tabs[p] EXCEPT !.recovery = "unavailable", !.writing = NoWrite, !.next = NoWrite]
<1>1. /\ IsOpen(p) /\ tabs[p].writing # NoWrite /\ journal' = journal /\ edits' = edits
      /\ dropped' = dropped /\ history' = history /\ accepted' = accepted
      /\ Step(p, y) \/ Step(p, Pump(z, online))
  BY DEF JournalOwned, JournalFails, server, counters, ghosts
<1>2. online \in BOOLEAN /\ tabs[p] \in Tabs /\ tabs[p].init
  BY <1>1, OpenAble, WritingBegun DEF SaveInv
<1>3. Heeds(tabs[p], y) /\ Heeds(tabs[p], z)
  BY <1>2, StoppedHeeds
<1>. HIDE DEF y, z
<1>4. Heeds(tabs[p], Pump(z, online))
  BY <1>2, <1>3, PumpHeeds, HeedsTransitive DEF Heeds
<1>. QED BY <1>1, <1>3, <1>4, MethodHeeds

LEMMA LoadFailsKept ==
  ASSUME SaveInv, SaveInv', KeptInv, NEW p \in Pages, LoadFails(p) PROVE KeptInv'
<1>. DEFINE y == [tabs[p] EXCEPT !.recovery = "blocked"]
<1>1. /\ IsOpen(p) /\ tabs[p].recovery = "checking" /\ edits' = edits
      /\ dropped' = dropped /\ history' = history /\ accepted' = accepted /\ Step(p, y)
  BY DEF LoadFails, server, ghosts
<1>2. tabs[p] \in Tabs /\ ~ tabs[p].init
  BY <1>1, OpenAble DEF Fit
<1>3. Heeds(tabs[p], y)
  BY <1>2, UnreadHeeds, WordsKnown
<1>. HIDE DEF y
<1>4. journal'.payload = journal.payload /\ (journal'.owner = journal.owner \/ journal'.owner = p)
  <2>1. PICK owner \in {journal.owner, p} : journal' = [journal EXCEPT !.owner = owner]
    BY DEF LoadFails
  <2>2. journal = [owner |-> journal.owner, payload |-> journal.payload]
    BY DEF SaveInv, JournalOK
  <2>3. journal' = [owner |-> owner, payload |-> journal.payload]
    BY <2>1, <2>2
  <2>. QED BY <2>3
<1>5. Made' = Made
  BY <1>1 DEF Made
<1>. QED BY <1>1, <1>2, <1>3, <1>4, <1>5, StepHeeds

\* what neither the queue nor the journal knows of
LEMMA FlagHeeds ==
  ASSUME NEW x \in Tabs, NEW y,
         \/ \E m \in Words : y = [x EXCEPT !.mutation = m]
         \/ \E b \in BOOLEAN : y = [x EXCEPT !.leaving = b]
         \/ \E d \in Words, n \in Nat : y = [x EXCEPT !.discard = d, !.latest = n]
  PROVE  Heeds(x, y)
<1>. DEFINE Rest == /\ y \in Tabs /\ y.queue = x.queue /\ y.staged = x.staged /\ y.doc = x.doc
                    /\ y.init = x.init /\ y.writing = x.writing /\ y.next = x.next
                    /\ y.recovery = x.recovery
<1>1. CASE \E m \in Words : y = [x EXCEPT !.mutation = m]
  <2>1. Rest
    BY <1>1 DEF Tabs
  <2>. QED BY <2>1, SoftHeeds
<1>2. CASE \E b \in BOOLEAN : y = [x EXCEPT !.leaving = b]
  <2>1. Rest
    BY <1>2 DEF Tabs
  <2>. QED BY <2>1, SoftHeeds
<1>3. CASE \E d \in Words, n \in Nat : y = [x EXCEPT !.discard = d, !.latest = n]
  <2>1. Rest
    BY <1>3 DEF Tabs
  <2>. QED BY <2>1, SoftHeeds
<1>. QED BY <1>1, <1>2, <1>3

LEMMA DiscardKept ==
  ASSUME SaveInv, SaveInv', KeptInv, NEW p \in Pages,
         Discard(p) \/ DiscardLoaded(p) \/ DiscardFails(p)
  PROVE  KeptInv'
<1>. DEFINE x == tabs[p]
<1>1. /\ IsOpen(p) /\ journal' = journal /\ edits' = edits
      /\ dropped' = dropped /\ history' = history /\ accepted' = accepted
  BY DEF Discard, DiscardLoaded, DiscardFails, Clearing, server, counters, ghosts
<1>2. /\ x \in Tabs /\ x.latest \in Nat /\ x.draft \in Nat /\ DOMAIN tabs = Pages
      /\ Len(history) \in Nat
  BY <1>1, OpenAble DEF Tabs, SaveInv, PagesOK, HistoryOK
<1>3. \E d \in Words, n \in Nat : LET y == [x EXCEPT !.discard = d, !.latest = n] IN
        (tabs' = [tabs EXCEPT ![p] = y] /\ net' = net) \/ Step(p, y)
  <2>1. CASE Discard(p)
    <3>1. [x EXCEPT !.discard = "loading"] = [x EXCEPT !.discard = "loading", !.latest = x.latest]
      BY <1>2 DEF Tabs
    <3>2. \/ Step(p, [x EXCEPT !.discard = "loading"])
          \/ Step(p, [x EXCEPT !.discard = "clearing to leave", !.latest = x.draft])
      BY <2>1 DEF Discard
    <3>. QED BY <1>2, <3>1, <3>2, WordsKnown
  <2>2. CASE DiscardLoaded(p)
    <3>1. /\ tabs' = [tabs EXCEPT ![p] = [x EXCEPT !.discard = "clearing", !.latest = Len(history)]]
          /\ net' = net
      BY <1>2, <2>2 DEF DiscardLoaded
    <3>. QED BY <1>2, <3>1, WordsKnown
  <2>3. CASE DiscardFails(p)
    BY <2>3, WordsKnown DEF DiscardFails
  <2>. QED BY <2>1, <2>2, <2>3
<1>4. PICK d \in Words, n \in Nat : LET y == [x EXCEPT !.discard = d, !.latest = n] IN
        (tabs' = [tabs EXCEPT ![p] = y] /\ net' = net) \/ Step(p, y)
  BY <1>3
<1>5. PICK y : y = [x EXCEPT !.discard = d, !.latest = n]
  OBVIOUS
<1>6. Heeds(x, y)
  BY <1>2, <1>5, FlagHeeds
<1>7. CASE tabs' = [tabs EXCEPT ![p] = y] /\ net' = net
  <2>1. Made' = Made /\ \A r \in net' : Carried(r)
    BY <1>1, <1>7 DEF Made, Carried
  <2>. QED BY <1>1, <1>6, <1>7, <2>1, OneHeeds
<1>8. CASE Step(p, y)
  BY <1>1, <1>6, <1>8, MethodHeeds
<1>. QED BY <1>4, <1>5, <1>7, <1>8

LEMMA FlagsKept ==
  ASSUME SaveInv, SaveInv', KeptInv, NEW p \in Pages,
         Leave(p) \/ LeaveFails(p) \/ BeginChange(p) \/ GiveUpChange(p) \/ SendChange(p)
  PROVE  KeptInv'
<1>1. /\ IsOpen(p) /\ DOMAIN tabs = Pages /\ journal' = journal
      /\ dropped' = dropped /\ history' = history /\ accepted' = accepted
      /\ edits' \in {edits, edits + 1}
  BY DEF Leave, LeaveFails, BeginChange, GiveUpChange, SendChange, server, counters, ghosts,
         SaveInv, PagesOK
<1>2. tabs[p] \in Tabs /\ edits \in Nat
  BY <1>1, OpenAble, EditBound
<1>3. Made \subseteq Made'
  BY <1>1, <1>2 DEF Made
<1>4. \E y : Heeds(tabs[p], y) /\ tabs' = [tabs EXCEPT ![p] = y]
  <2>1. CASE Leave(p) \/ LeaveFails(p)
    <3>1. PICK b \in BOOLEAN : tabs' = [tabs EXCEPT ![p] = [tabs[p] EXCEPT !.leaving = b]]
      BY <1>1, <2>1 DEF Leave, LeaveFails
    <3>2. Heeds(tabs[p], [tabs[p] EXCEPT !.leaving = b])
      BY <1>2, FlagHeeds
    <3>. QED BY <3>1, <3>2
  <2>2. CASE BeginChange(p) \/ GiveUpChange(p) \/ SendChange(p)
    <3>1. PICK m \in Words : tabs' = [tabs EXCEPT ![p] = [tabs[p] EXCEPT !.mutation = m]]
      BY <1>1, <2>2, WordsKnown DEF BeginChange, GiveUpChange, SendChange
    <3>2. Heeds(tabs[p], [tabs[p] EXCEPT !.mutation = m])
      BY <1>2, FlagHeeds
    <3>. QED BY <3>1, <3>2
  <2>. QED BY <2>1, <2>2
<1>5. ASSUME NEW r \in net', r \notin net PROVE r.answer = "none" /\ r.doc \subseteq Made'
  <2>1. /\ r = Request(p, "change", tabs[p],
                       Entry(Key(edits'), tabs[p].doc \cup {edits'}, tabs[p].draft, TRUE))
        /\ edits' = edits + 1
    BY <1>5 DEF Leave, LeaveFails, BeginChange, GiveUpChange, SendChange
  <2>2. r.answer = "none" /\ r.doc = tabs[p].doc \cup {edits'}
    BY <2>1 DEF Request, Entry
  <2>3. tabs[p].doc \subseteq Made
    BY <1>1, HeldKnown DEF OpenPages, KeptInv
  <2>4. edits' \in Made'
    BY <1>2, <2>1 DEF Made
  <2>. QED BY <1>3, <2>2, <2>3, <2>4
<1>6. \A r \in net' : Carried(r)
  BY <1>5 DEF Carried
<1>. QED BY <1>1, <1>3, <1>4, <1>6, OneHeeds

LEMMA LoseKept ==
  ASSUME SaveInv, SaveInv', KeptInv, NEW r \in net, Lose(r) PROVE KeptInv'
<1>. DEFINE p == r.page
            x == tabs[p]
<1>1. /\ p # 0 /\ journal' = journal /\ edits' = edits
      /\ dropped' = dropped /\ history' = history /\ accepted' = accepted
  BY DEF Lose, server, ghosts
<1>2. p \in Pages /\ IsOpen(p) /\ DOMAIN tabs = Pages
  BY <1>1 DEF SaveInv, NetOK, RequestOK, PagesOK
<1>3. x \in Tabs /\ online \in BOOLEAN
  BY <1>2, OpenAble DEF SaveInv
<1>4. \E y : Heeds(x, y) /\ tabs' = [tabs EXCEPT ![p] = y]
  <2>1. CASE r.kind = "save"
    <3>1. tabs' = [tabs EXCEPT ![p] = Emitted(Fail(x, "failure"))]
      BY <1>2, <2>1 DEF Lose
    <3>2. x.queue # <<>>
      BY <1>1, <1>2, <2>1, SaveFlies, OpenAble DEF Fit
    <3>3. Heeds(x, Fail(x, "failure"))
      BY <1>3, <3>2, FailHeeds
    <3>4. Heeds(x, Emitted(Fail(x, "failure")))
      BY <3>3, EmittedHeeds, HeedsTransitive DEF Heeds
    <3>. QED BY <3>1, <3>4
  <2>2. CASE r.kind # "save"
    <3>1. tabs' = [tabs EXCEPT ![p] = [x EXCEPT !.mutation = "no"]]
      BY <1>2, <2>2 DEF Lose
    <3>2. Heeds(x, [x EXCEPT !.mutation = "no"])
      BY <1>3, WordsKnown, FlagHeeds
    <3>. QED BY <3>1, <3>2
  <2>. QED BY <2>1, <2>2
<1>5. Made' = Made
  BY <1>1 DEF Made
<1>6. \A s \in net' : Carried(s)
  <2>1. ASSUME NEW s \in net', s \notin net PROVE s.answer = "none" /\ \E t \in net : s.doc = t.doc
    <3>1. s \in Orphan(r)
      BY <2>1 DEF Lose
    <3>2. s = [r EXCEPT !.page = 0] /\ r.answer = "none"
      BY <3>1 DEF Orphan
    <3>3. r \in Requests
      BY DEF SaveInv, NetOK
    <3>. QED BY <3>2, <3>3 DEF Requests
  <2>. QED BY <2>1 DEF Carried
<1>. QED BY <1>1, <1>2, <1>4, <1>5, <1>6, OneHeeds

LEMMA ConnectionKept ==
  ASSUME SaveInv, SaveInv', KeptInv, journal' = journal, edits' = edits, dropped' = dropped,
         history' = history, accepted' = accepted,
         \A q \in Pages : IF IsOpen(q) THEN Heeds(tabs[q], tabs'[q]) ELSE tabs'[q] = tabs[q],
         net' = net \/ net' = net \cup UNION {Sent(p, tabs[p], tabs'[p]) : p \in OpenPages}
  PROVE  KeptInv'
<1>1. \A q \in Pages : IsOpen(q)' <=> IsOpen(q)
  BY DEF IsOpen, Heeds, Tabs
<1>2. OpenPages' = OpenPages /\ OpenPages \subseteq Pages
  BY <1>1 DEF OpenPages, Pages
<1>3. Made' = Made
  BY DEF Made
<1>4. \A q \in OpenPages : Heeds(tabs[q], tabs'[q]) /\ (Owner(q)' => Owner(q))
  BY <1>2 DEF OpenPages, Owner, Heeds
<1>5. ASSUME NEW r \in net', r \notin net PROVE r.answer = "none" /\ r.kind = "save" /\ r.page # 0
  <2>1. PICK p \in Pages : r \in Sent(p, tabs[p], tabs'[p])
    BY <1>2, <1>5
  <2>. QED BY <2>1, SentCarried
<1>6. \A r \in net' : Carried(r)
  BY <1>5 DEF Carried
<1>. QED BY <1>2, <1>3, <1>4, <1>6, AllHeed

LEMMA GoOfflineKept ==
  ASSUME SaveInv, SaveInv', KeptInv, GoOffline PROVE KeptInv'
<1>1. /\ journal' = journal /\ edits' = edits /\ net' = net
      /\ dropped' = dropped /\ history' = history /\ accepted' = accepted
      /\ tabs' = [p \in Pages |->
           IF IsOpen(p) /\ ~tabs[p].lost /\ tabs[p].queue # <<>>
           THEN Emitted([tabs[p] EXCEPT !.state = "offline"]) ELSE tabs[p]]
  BY DEF GoOffline, server, ghosts
<1>2. ASSUME NEW q \in Pages, IsOpen(q) PROVE Heeds(tabs[q], tabs'[q])
  <2>. DEFINE y == [tabs[q] EXCEPT !.state = "offline"]
  <2>1. tabs'[q] = tabs[q] \/ tabs'[q] = Emitted(y)
    BY <1>1
  <2>2. tabs[q] \in Tabs
    BY <1>2, OpenAble
  <2>3. Heeds(tabs[q], y)
    BY <2>2, WordsKnown, StateHeeds
  <2>. HIDE DEF y
  <2>. QED BY <2>1, <2>2, <2>3, EmittedHeeds, HeedsItself, HeedsTransitive DEF Heeds
<1>3. \A q \in Pages : ~ IsOpen(q) => tabs'[q] = tabs[q]
  BY <1>1
<1>. QED BY <1>1, <1>2, <1>3, ConnectionKept

LEMMA GoOnlineKept ==
  ASSUME SaveInv, SaveInv', KeptInv, GoOnline PROVE KeptInv'
<1>1. /\ journal' = journal /\ edits' = edits
      /\ dropped' = dropped /\ history' = history /\ accepted' = accepted
      /\ tabs' = [p \in Pages |->
           IF IsOpen(p) /\ Resumed(tabs[p]) # tabs[p] THEN Emitted(Resumed(tabs[p])) ELSE tabs[p]]
      /\ net' = net \cup UNION {Sent(p, tabs[p], tabs'[p]) : p \in OpenPages}
  BY DEF GoOnline, server, counters, ghosts
<1>2. ASSUME NEW q \in Pages, IsOpen(q) PROVE Heeds(tabs[q], tabs'[q])
  <2>. DEFINE y == Resumed(tabs[q])
  <2>1. tabs'[q] = tabs[q] \/ tabs'[q] = Emitted(y)
    BY <1>1
  <2>2. tabs[q] \in Tabs
    BY <1>2, OpenAble
  <2>3. Heeds(tabs[q], y)
    BY <2>2, ResumedHeeds
  <2>. HIDE DEF y
  <2>. QED BY <2>1, <2>2, <2>3, EmittedHeeds, HeedsItself, HeedsTransitive DEF Heeds
<1>3. \A q \in Pages : ~ IsOpen(q) => tabs'[q] = tabs[q]
  BY <1>1
<1>. QED BY <1>1, <1>2, <1>3, ConnectionKept

-----------------------------------------------------------------------------
(* Steps that change what one page answers for.                            *)

\* what the page p answers for may move from its gesture to its queue, and new edits may come
Turn(p, y) ==
  /\ IsOpen(p) /\ y \in Tabs /\ y.init /\ tabs[p].init /\ ~ Quiet(y)
  /\ tabs' = [tabs EXCEPT ![p] = y] /\ journal' = journal /\ history' = history
  /\ Made \subseteq Made' /\ dropped \subseteq dropped'
  /\ accepted \subseteq accepted' /\ accepted' \subseteq Made'
  /\ Gesture(y) \cup (accepted' \ accepted) \subseteq Gesture(tabs[p]) \cup (Made' \ Made)
  /\ Gesture(y) \cap accepted' = {}
  /\ accepted' \subseteq accepted \cup EditsOf(y.queue)
  /\ EditsOf(tabs[p].queue) \subseteq Settled' \cup EditsOf(y.queue)

LEMMA TurnRows ==
  ASSUME SaveInv, KeptInv, NEW p \in Pages, NEW y, Turn(p, y)
  PROVE  /\ OpenPages' = OpenPages /\ p \in OpenPages /\ tabs'[p] = y
         /\ \A q \in Pages \ {p} : tabs'[q] = tabs[q]
         /\ Settled \subseteq Settled' /\ Journaled' = Journaled
         /\ Claims' \subseteq Claims \cup (Made' \ Made)
<1>1. DOMAIN tabs = Pages
  BY DEF SaveInv, PagesOK
<1>2. tabs'[p] = y /\ \A q \in Pages \ {p} : tabs'[q] = tabs[q]
  BY <1>1 DEF Turn
<1>3. IsOpen(p) /\ IsOpen(p)'
  BY <1>2 DEF Turn, Tabs, IsOpen
<1>4. \A q \in Pages : IsOpen(q)' <=> IsOpen(q)
  BY <1>2, <1>3 DEF IsOpen
<1>5. OpenPages' = OpenPages /\ p \in OpenPages
  BY <1>3, <1>4 DEF OpenPages, Pages
<1>6. Settled \subseteq Settled' /\ Journaled' = Journaled
  BY DEF Turn, Settled, Journaled
<1>7. ASSUME NEW e \in Claims' PROVE e \in Claims \cup (Made' \ Made)
  <2>1. CASE e \in accepted'
    BY <1>5, <2>1 DEF Turn, Claims
  <2>2. CASE \E q \in OpenPages : e \in Gesture(tabs'[q])
    <3>1. PICK q \in OpenPages : e \in Gesture(tabs'[q])
      BY <2>2
    <3>2. CASE q = p
      BY <1>2, <1>5, <3>1, <3>2 DEF Turn, Claims
    <3>3. CASE q # p
      <4>1. tabs'[q] = tabs[q]
        BY <1>2, <3>3 DEF OpenPages
      <4>. QED BY <3>1, <4>1 DEF Claims
    <3>. QED BY <3>2, <3>3
  <2>. QED BY <1>5, <1>7, <2>1, <2>2 DEF Claims
<1>. QED BY <1>2, <1>5, <1>6, <1>7

LEMMA TurnLoosens ==
  ASSUME SaveInv, KeptInv, NEW p \in Pages, NEW y, Turn(p, y)
  PROVE  Safe(tabs[p], View(p)')
<1>1. /\ OpenPages' = OpenPages /\ p \in OpenPages /\ tabs'[p] = y
      /\ \A q \in Pages \ {p} : tabs'[q] = tabs[q]
      /\ Settled \subseteq Settled' /\ Journaled' = Journaled
      /\ Claims' \subseteq Claims \cup (Made' \ Made)
  BY TurnRows
<1>2. Owner(p)' => Owner(p)
  BY <1>1 DEF Owner, Turn
<1>3. \A q \in Pages \ {p} : IsOpen(q)' /\ Quiet(tabs'[q]) =>
         IsOpen(q) /\ Quiet(tabs[q]) /\ Held(tabs'[q]) \subseteq Held(tabs[q])
  BY <1>1 DEF IsOpen
<1>4. Made \subseteq Made' /\ dropped \subseteq dropped' /\ Guards /\ Known /\ Journaled \subseteq Made
  BY DEF Turn, KeptInv, Known
<1>5. Looser(View(p), View(p)')
  BY <1>1, <1>2, <1>3, <1>4, ViewLoosens
<1>6. PICK v, w : v = View(p) /\ w = View(p)'
  OBVIOUS
<1>7. v.claims = Claims /\ v.journaled = w.journaled
  BY <1>1, <1>6 DEF View
<1>8. Safe(tabs[p], v) /\ tabs[p] \in Tabs
  BY <1>1, <1>4, <1>6, Pageful DEF Guards
<1>9. v.settled \subseteq w.settled
  BY <1>1, <1>6 DEF View
<1>10. Quiet(tabs[p]) => v.claims \cap Held(tabs[p]) \subseteq w.settled \cup w.journaled
  BY <1>7, <1>8, <1>9 DEF Safe
<1>. QED BY <1>5, <1>6, <1>8, <1>10, SafeLoosens

LEMMA TurnKept ==
  ASSUME SaveInv, SaveInv', KeptInv, NEW p \in Pages, NEW y, Turn(p, y), Safe(y, View(p)'),
         \A r \in net' : Carried(r)
  PROVE  KeptInv'
<1>1. /\ OpenPages' = OpenPages /\ p \in OpenPages /\ tabs'[p] = y
      /\ \A q \in Pages \ {p} : tabs'[q] = tabs[q]
      /\ Settled \subseteq Settled' /\ Journaled' = Journaled
      /\ Claims' \subseteq Claims \cup (Made' \ Made)
  BY TurnRows
<1>2. \A q \in OpenPages : q \in Pages
  BY DEF OpenPages
<1>3. ASSUME NEW q \in OpenPages', q # p PROVE Follow(q)
  BY <1>1, <1>2, <1>3 DEF Follow, Owner, Turn, IsOpen
<1>4. \A q \in OpenPages : q # p => Gesture(tabs[q]) \subseteq Made /\ Gesture(tabs[q]) \cap Gesture(tabs[p]) = {}
  BY <1>1, HeldKnown DEF Held, KeptInv, Unique
<1>5. Unique'
  <2>1. ASSUME NEW q \in OpenPages, q # p
        PROVE  tabs'[q] = tabs[q] /\ Gesture(tabs[q]) \cap accepted' = {}
               /\ Gesture(tabs[q]) \cap Gesture(y) = {}
    <3>1. Gesture(tabs[q]) \cap accepted = {}
      BY DEF KeptInv, Unique
    <3>. QED BY <1>1, <1>2, <1>4, <2>1, <3>1 DEF Turn
  <2>2. \A q \in OpenPages' : Gesture(tabs'[q]) \cap accepted' = {}
    BY <1>1, <2>1 DEF Turn
  <2>3. \A q, s \in OpenPages' : q # s => Gesture(tabs'[q]) \cap Gesture(tabs'[s]) = {}
    <3>1. \A q, s \in OpenPages : q # s => Gesture(tabs[q]) \cap Gesture(tabs[s]) = {}
      BY DEF KeptInv, Unique
    <3>. QED BY <1>1, <2>1, <3>1
  <2>. QED BY <2>2, <2>3 DEF Unique
<1>6. /\ journal'.payload = journal.payload /\ Made \subseteq Made' /\ dropped \subseteq dropped'
      /\ Last(history).doc \subseteq Last(history').doc /\ accepted' \subseteq Made'
      /\ \A i \in DOMAIN history' : history'[i].doc \subseteq Made'
      /\ Grown'
  BY DEF Turn, KeptInv, Known, Grown
<1>7. Claims' \cap Made \subseteq Claims \cup Settled'
  BY <1>1
<1>8. accepted' \subseteq accepted \cup UNION {EditsOf(tabs'[q].queue) : q \in OpenPages'}
  BY <1>1 DEF Turn
<1>9. \A q \in OpenPages : /\ q \in OpenPages'
                           /\ accepted \cap EditsOf(tabs[q].queue) \subseteq
                                Settled' \cup EditsOf(tabs'[q].queue)
  BY <1>1, <1>2 DEF Turn
<1>10. Guards' => Answered'
  BY <1>6, NetFollows DEF KeptInv
<1>11. \A q \in OpenPages' : Follow(q) \/ (Safe(tabs'[q], View(q)') /\ ~ Quiet(tabs'[q]))
  BY <1>1, <1>3 DEF Turn
<1>. QED BY <1>5, <1>6, <1>7, <1>8, <1>9, <1>10, <1>11, KeptFollows

LEMMA ViewHolds ==
  ASSUME NEW p
  PROVE  LET v == View(p) IN
         v.lost \subseteq v.settled /\ v.held \subseteq v.claims /\ v.guarded \subseteq v.claims
BY DEF View, Settled, Guarded

LEMMA ViewStillHolds ==
  ASSUME NEW p
  PROVE  \A v : v = View(p)' =>
           /\ v.claims = Claims' /\ v.settled = Settled' /\ v.lost = dropped' /\ v.known = Made'
           /\ v.journaled = Journaled'
           /\ v.lost \subseteq v.settled /\ v.held \subseteq v.claims /\ v.guarded \subseteq v.claims
<1>1. Guarded(p)' \subseteq Claims'
  BY DEF Guarded
<1>. QED BY <1>1 DEF View, Settled

LEMMA AddsKept ==
  ASSUME SaveInv, SaveInv', KeptInv, NEW p \in Pages, IsOpen(p), tabs[p].init, NEW d, NEW z,
         Adds([tabs[p] EXCEPT !.staged = <<>>], z, d), Step(p, z),
         journal' = journal, history' = history, Made \subseteq Made', dropped \subseteq dropped',
         accepted \subseteq accepted', accepted' \subseteq Made',
         accepted' \ accepted \subseteq Gesture(tabs[p]) \cup (Made' \ Made),
         accepted' \ accepted \subseteq d, d \subseteq Made',
         tabs[p].doc \subseteq d \cup dropped', Gesture(tabs[p]) \subseteq d
  PROVE  KeptInv'
<1>1. PICK x, e, y, v : /\ x = tabs[p] /\ e = [x EXCEPT !.staged = <<>>] /\ y = Emitted(z)
                        /\ v = View(p)'
  OBVIOUS
<1>2. p \in OpenPages /\ x \in Tabs /\ Able(x)
  BY <1>1, OpenAble DEF OpenPages
<1>3. e \in Tabs /\ e.doc = x.doc
  BY <1>1, <1>2, DropStagedMoves DEF Moved, Able
<1>4. Heeds(z, y) /\ Adds(e, z, d)
  BY <1>1, EmittedHeeds DEF Adds
<1>5. Adds(e, y, d)
  BY <1>4, AddsThen
<1>6. y \in Tabs /\ y.init /\ ~ Quiet(y) /\ Gesture(y) = {} /\ d \subseteq EditsOf(y.queue)
  BY <1>5 DEF Adds, Gesture
<1>7. tabs' = [tabs EXCEPT ![p] = y]
  BY <1>1 DEF Step
<1>8. \A r \in net' : Carried(r)
  <2>1. ASSUME NEW r \in net', r \notin net PROVE Carried(r)
    <3>1. r \in Sent(p, tabs[p], z)
      BY <2>1 DEF Step
    <3>. QED BY <3>1, SentCarried DEF Carried
  <2>. QED BY <2>1 DEF Carried
<1>9. EditsOf(x.queue) \subseteq Settled' \cup EditsOf(y.queue)
  <2>1. EditsOf(x.queue) \subseteq x.doc \cup dropped
    BY <1>1, <1>2 DEF KeptInv, Guards, Safe, Loose, Ordered, View
  <2>. QED BY <1>1, <1>6, <2>1 DEF Settled
<1>10. Turn(p, y)
  BY <1>1, <1>6, <1>7, <1>9 DEF Turn
<1>11. Safe(x, v)
  BY <1>1, <1>10, TurnLoosens
<1>12. /\ v.known = Made' /\ v.lost = dropped' /\ v.lost \subseteq v.settled
       /\ v.held \subseteq v.claims
  BY <1>1, ViewStillHolds
<1>13. v.claims \cap Gesture(x) \subseteq d
  BY <1>1
<1>14. Safe(e, Without(v, d))
  BY <1>1, <1>2, <1>11, <1>12, <1>13, Unstages
<1>15. Room(e, d, v)
  BY <1>1, <1>3, <1>12 DEF Room
<1>16. Safe(y, v)
  BY <1>5, <1>14, <1>15 DEF Adds
<1>. QED BY <1>1, <1>8, <1>10, <1>16, TurnKept

LEMMA EditKept ==
  ASSUME SaveInv, SaveInv', KeptInv, CorrectionsAreSafe, NEW p \in Pages, Edit(p) PROVE KeptInv'
<1>1. /\ IsOpen(p) /\ MayEdit(tabs[p]) /\ edits < world.edits /\ tabs[p].staged = <<>>
      /\ journal' = journal /\ history' = history
  BY DEF Edit, server
<1>2. PICK x, e : x = tabs[p] /\ e = edits + 1
  OBVIOUS
<1>3. PICK text, same, fix, doc, z :
        /\ text \in BOOLEAN /\ same \in BOOLEAN /\ fix \in BOOLEAN
        /\ doc = (IF fix THEN x.doc \ Bad ELSE x.doc) \cup {e}
        /\ z = Complete(x, Key(e), doc, text, same)
        /\ Step(p, z) /\ edits' = e
        /\ accepted' = IF Accepts(x) THEN accepted \cup {e} ELSE accepted
        /\ dropped' = IF fix /\ Accepts(x) THEN dropped \cup (x.doc \cap Bad) ELSE dropped
  BY <1>2 DEF Edit
<1>4. Able(x) /\ x \in Tabs /\ p \in OpenPages
  BY <1>1, <1>2, OpenAble DEF OpenPages
<1>5. e \in 1..MaxEdits /\ edits \in Nat
  BY <1>1, <1>2, EditBound
<1>6. doc \in Document
  BY <1>3, <1>4, <1>5, EditBound DEF Tabs
<1>7. Key(e) \in Nat \ {0}
  BY <1>5, EditBound DEF Key
<1>8. SafeToCorrect(x)
  BY <1>1, <1>2 DEF CorrectionsAreSafe, SafeToCorrect, OpenPages
<1>9. x.init /\ online \in BOOLEAN
  BY <1>1, <1>2, <1>4, EditorIsOpen DEF SaveInv
<1>10. /\ Accepts(x) => Adds([x EXCEPT !.staged = <<>>], z, doc)
       /\ ~ Accepts(x) => Heeds(x, z)
  BY <1>3, <1>4, <1>6, <1>7, <1>8, <1>9, CompleteAdds
<1>11. Made \subseteq Made' /\ e \in Made' /\ e \notin Made
  BY <1>2, <1>3, <1>5 DEF Made
<1>12. CASE ~ Accepts(x)
  BY <1>1, <1>2, <1>3, <1>10, <1>11, <1>12, StepHeeds
<1>13. CASE Accepts(x)
  <2>1. accepted \subseteq Made /\ x.doc \subseteq Made
    BY <1>2, <1>4, HeldKnown DEF KeptInv, Known
  <2>2. /\ accepted' = accepted \cup {e} /\ dropped \subseteq dropped'
        /\ x.doc \subseteq doc \cup dropped' /\ e \in doc /\ doc \subseteq Made'
    BY <1>3, <1>11, <1>13, <2>1
  <2>3. Gesture(x) = {}
    BY <1>1, <1>2 DEF Gesture
  <2>. QED BY <1>1, <1>2, <1>3, <1>9, <1>10, <1>11, <1>13, <2>1, <2>2, <2>3, AddsKept
<1>. QED BY <1>12, <1>13

LEMMA FinishGestureKept ==
  ASSUME SaveInv, SaveInv', KeptInv, CorrectionsAreSafe, NEW p \in Pages, FinishGesture(p)
  PROVE  KeptInv'
<1>1. PICK x, key, doc, z :
        /\ x = tabs[p] /\ key = x.staged[1].key - MaxEdits /\ doc = x.staged[1].doc
        /\ z = Complete(x, key, doc, FALSE, FALSE)
  OBVIOUS
<1>2. /\ IsOpen(p) /\ MayEdit(x) /\ x.staged # <<>>
      /\ journal' = journal /\ history' = history /\ edits' = edits /\ dropped' = dropped
      /\ Step(p, z) /\ accepted' = IF Accepts(x) THEN accepted \cup ({key} \cap doc) ELSE accepted
  BY <1>1 DEF FinishGesture, server, counters
<1>3. Able(x) /\ x \in Tabs /\ p \in OpenPages
  BY <1>1, <1>2, OpenAble DEF OpenPages
<1>4. key \in Nat \ {0} /\ doc \in Document /\ x.doc \subseteq doc
  BY <1>1, <1>2, <1>3, StagedEntry, EditBound
<1>5. SafeToCorrect(x)
  BY <1>1, <1>2 DEF CorrectionsAreSafe, SafeToCorrect, OpenPages
<1>6. x.init /\ online \in BOOLEAN
  BY <1>2, <1>3, EditorIsOpen DEF SaveInv
<1>7. /\ Accepts(x) => Adds([x EXCEPT !.staged = <<>>], z, doc)
      /\ ~ Accepts(x) => x.staged = <<>>
  BY <1>1, <1>3, <1>4, <1>5, <1>6, CompleteAdds
<1>8. Gesture(x) = {key} \cap doc
  BY <1>1, <1>2 DEF Gesture
<1>9. doc \subseteq Made /\ accepted \subseteq Made /\ Made' = Made
  <2>1. EditsOf(x.staged) \subseteq Made /\ Len(x.staged) = 1
    BY <1>1, <1>2, <1>3, HeldKnown, Pageful DEF KeptInv
  <2>2. EditsOf(x.staged) = doc
    BY <1>1, <1>3, <2>1, OneStaged DEF Tabs
  <2>. QED BY <1>2, <2>1, <2>2 DEF KeptInv, Known, Made
<1>10. Accepts(x)
  BY <1>2, <1>7
<1>. QED BY <1>1, <1>2, <1>4, <1>6, <1>7, <1>8, <1>9, <1>10, AddsKept

LEMMA BeginGestureKept ==
  ASSUME SaveInv, SaveInv', KeptInv, NEW p \in Pages, BeginGesture(p) PROVE KeptInv'
<1>1. PICK x, e, doc, v : /\ x = tabs[p] /\ e = edits + 1 /\ doc = x.doc \cup {e} /\ v = View(p)'
  OBVIOUS
<1>2. /\ IsOpen(p) /\ MayEdit(x) /\ edits < world.edits /\ edits' = e /\ x.staged = <<>>
      /\ journal' = journal /\ history' = history /\ accepted' = accepted /\ dropped' = dropped
  BY <1>1 DEF BeginGesture, server, ghosts
<1>3. PICK render, y : render \in BOOLEAN /\ y = Stage(x, StagedKey(e), doc, render) /\ Step(p, y)
  BY <1>1, <1>2 DEF BeginGesture
<1>4. Able(x) /\ x \in Tabs /\ p \in OpenPages
  BY <1>1, <1>2, OpenAble DEF OpenPages
<1>5. e \in 1..MaxEdits /\ edits \in Nat /\ e \in Nat \ {0}
  BY <1>1, <1>2, EditBound
<1>6. doc \in Document
  BY <1>1, <1>4, <1>5, EditBound DEF Tabs
<1>7. x.init
  BY <1>2, <1>4, EditorIsOpen
<1>8. Made \subseteq Made' /\ e \in Made' /\ e \notin Made
  BY <1>1, <1>2, <1>5 DEF Made
<1>9. CASE Len(x.queue) >= MaxQueue
  <2>1. y = [x EXCEPT !.state = "error", !.full = TRUE]
    BY <1>3, <1>9 DEF Stage, Refuse
  <2>2. Heeds(x, y)
    BY <1>4, <2>1, WordsKnown, StateHeeds
  <2>. QED BY <1>1, <1>2, <1>3, <1>8, <2>2, StepHeeds
<1>10. CASE ~ (Len(x.queue) >= MaxQueue)
  <2>1. e \notin EditsOf(x.queue) /\ x.doc \subseteq Made
    BY <1>1, <1>4, <1>8, HeldKnown DEF KeptInv
  <2>2. doc # LastDoc(x)
    <3>1. CASE x.queue = <<>>
      <4>1. x.draft \in DOMAIN history
        BY <1>4 DEF Able, Fit
      <4>2. history[x.draft].doc \subseteq Made
        BY <4>1 DEF KeptInv, Known
      <4>. QED BY <1>1, <1>8, <3>1, <4>2 DEF LastDoc
    <3>2. CASE x.queue # <<>>
      <4>1. Len(x.queue) \in DOMAIN x.queue
        BY <1>4, <3>2, InQueue DEF Tabs
      <4>2. Last(x.queue).doc \subseteq EditsOf(x.queue)
        BY <4>1 DEF Last, EditsOf
      <4>. QED BY <1>1, <2>1, <3>2, <4>2 DEF LastDoc
    <3>. QED BY <3>1, <3>2
  <2>3. /\ y \in Tabs /\ y.init /\ ~ Quiet(y) /\ y.queue = x.queue /\ Gesture(y) = {e}
        /\ \A w : Safe(x, w) /\ e \in w.known => Safe(y, w)
    <3>1. PICK key : key = StagedKey(e)
      OBVIOUS
    <3>2. /\ Able(x) /\ x.init /\ x.staged = <<>> /\ doc = x.doc \cup {e} /\ y = Stage(x, key, doc, render)
          /\ render \in BOOLEAN
      BY <1>1, <1>2, <1>3, <1>4, <1>7, <3>1
    <3>3. BeginsWith(x, Stage(x, key, doc, render), e)
      BY <1>5, <1>6, <1>10, <2>1, <2>2, <3>1, <3>2, StageBegins
    <3>. QED BY <3>2, <3>3 DEF BeginsWith
  <2>4. PICK z : z = Emitted(y)
    OBVIOUS
  <2>5. Heeds(y, z)
    BY <2>3, <2>4, EmittedHeeds
  <2>6. z \in Tabs /\ z.init /\ ~ Quiet(z) /\ EditsOf(z.queue) = EditsOf(x.queue) /\ Gesture(z) = {e}
    BY <2>3, <2>5 DEF Heeds, Gesture
  <2>7. accepted \subseteq Made
    BY DEF KeptInv, Known
  <2>8. Turn(p, z)
    <3>1. tabs' = [tabs EXCEPT ![p] = z]
      BY <1>3, <2>4 DEF Step
    <3>. QED BY <1>1, <1>2, <1>7, <1>8, <2>6, <2>7, <3>1 DEF Turn
  <2>9. Safe(x, v)
    BY <1>1, <2>8, TurnLoosens
  <2>10. v.known = Made'
    BY <1>1, ViewStillHolds
  <2>11. Safe(z, v)
    BY <1>8, <2>3, <2>5, <2>9, <2>10 DEF Heeds
  <2>12. \A r \in net' : Carried(r)
    <3>1. ASSUME NEW r \in net', r \notin net PROVE Carried(r)
      <4>1. r \in Sent(p, x, y)
        BY <1>1, <1>3, <3>1 DEF Step
      <4>. QED BY <4>1, SentCarried DEF Carried
    <3>. QED BY <3>1 DEF Carried
  <2>. QED BY <1>1, <2>8, <2>11, <2>12, TurnKept
<1>. QED BY <1>9, <1>10

LEMMA CancelGestureKept ==
  ASSUME SaveInv, SaveInv', KeptInv, NEW p \in Pages, CancelGesture(p) PROVE KeptInv'
<1>1. PICK x, y, z, v : /\ x = tabs[p] /\ y = Stage(x, x.staged[1].key, x.doc, FALSE)
                        /\ z = Emitted(y) /\ v = View(p)'
  OBVIOUS
<1>2. /\ IsOpen(p) /\ MayEdit(x) /\ edits' = edits /\ x.staged # <<>> /\ x.doc # x.staged[1].doc
      /\ journal' = journal /\ history' = history /\ accepted' = accepted /\ dropped' = dropped
      /\ Step(p, y)
  BY <1>1 DEF CancelGesture, server, ghosts, counters
<1>3. Able(x) /\ x \in Tabs /\ p \in OpenPages
  BY <1>1, <1>2, OpenAble DEF OpenPages
<1>4. x.init
  BY <1>2, <1>3, EditorIsOpen
<1>5. Made' = Made /\ accepted \subseteq Made
  BY <1>2 DEF Made, KeptInv, Known
<1>6. \E w : Safe(x, w) /\ w.claims \cap Gesture(x) = {} /\ w.held \subseteq w.claims
  <2>1. PICK w : w = [claims |-> {}, settled |-> Settled, lost |-> dropped, known |-> Made,
                      journaled |-> Journaled, held |-> {}, guarded |-> {}]
    OBVIOUS
  <2>2. PICK u : u = View(p)
    OBVIOUS
  <2>3. Looser(u, w) /\ Safe(x, u)
    BY <1>1, <1>3, <2>1, <2>2 DEF View, Looser, KeptInv, Guards
  <2>4. u.claims \cap Held(x) \subseteq w.settled \cup w.journaled \/ ~ Quiet(x)
    BY <2>1, <2>2, <2>3 DEF Safe, View
  <2>. QED BY <1>3, <2>1, <2>3, <2>4, SafeLoosens
<1>7. y \in Tabs /\ y.init /\ ~ Quiet(y) /\ y.queue = x.queue /\ Gesture(y) = {}
  BY <1>1, <1>2, <1>3, <1>4, <1>6, StageCancels
<1>8. Heeds(y, z)
  BY <1>1, <1>7, EmittedHeeds
<1>9. z \in Tabs /\ z.init /\ ~ Quiet(z) /\ EditsOf(z.queue) = EditsOf(x.queue) /\ Gesture(z) = {}
  BY <1>7, <1>8 DEF Heeds, Gesture
<1>10. tabs' = [tabs EXCEPT ![p] = z]
  BY <1>1, <1>2 DEF Step
<1>11. Turn(p, z)
  BY <1>1, <1>2, <1>4, <1>5, <1>9, <1>10 DEF Turn
<1>12. Safe(x, v)
  BY <1>1, <1>11, TurnLoosens
<1>13. v.claims = Claims' /\ v.held \subseteq v.claims
  BY <1>1, ViewStillHolds
<1>14. Claims' \cap Gesture(x) = {}
  <2>1. /\ OpenPages' = OpenPages /\ p \in OpenPages /\ tabs'[p] = z
        /\ \A q \in Pages \ {p} : tabs'[q] = tabs[q]
    BY <1>11, TurnRows
  <2>2. accepted \cap Gesture(x) = {} /\ \A q \in OpenPages : q # p => Gesture(tabs[q]) \cap Gesture(x) = {}
    BY <1>1, <1>3 DEF KeptInv, Unique
  <2>3. \A q \in OpenPages : q # p => tabs'[q] = tabs[q]
    BY <2>1 DEF OpenPages
  <2>. QED BY <1>2, <1>9, <2>1, <2>2, <2>3 DEF Claims
<1>15. Safe(y, v)
  BY <1>1, <1>2, <1>3, <1>4, <1>12, <1>13, <1>14, StageCancels
<1>16. Safe(z, v)
  BY <1>8, <1>15 DEF Heeds
<1>17. \A r \in net' : Carried(r)
  <2>1. ASSUME NEW r \in net', r \notin net PROVE Carried(r)
    <3>1. r \in Sent(p, x, y)
      BY <1>1, <1>2, <2>1 DEF Step
    <3>. QED BY <3>1, SentCarried DEF Carried
  <2>. QED BY <2>1 DEF Carried
<1>. QED BY <1>1, <1>11, <1>16, <1>17, TurnKept

LEMMA HearKept ==
  ASSUME SaveInv, SaveInv', KeptInv, NEW r \in net, Hear(r) PROVE KeptInv'
<1>1. PICK p, x, y, z, v :
        /\ p = r.page /\ x = tabs[p] /\ z = Emitted(y) /\ v = View(p)'
        /\ y = IF r.answer = "saved" THEN Acknowledge(x, r.rev) ELSE Fail(x, r.answer)
  OBVIOUS
<1>2. /\ r.kind = "save" /\ p # 0 /\ r.answer \notin {"none", "committed"}
      /\ tabs' = [tabs EXCEPT ![p] = z] /\ net' = (net \ {r}) \cup Sent(p, [x EXCEPT !.flight = FALSE], y)
      /\ journal' = journal /\ history' = history /\ edits' = edits /\ accepted' = accepted
      /\ dropped' = dropped
  BY <1>1 DEF Hear, server, counters, ghosts
<1>3. p \in Pages /\ IsOpen(p) /\ x.flight /\ Carries(r, x)
  BY <1>1, <1>2, SaveFlies
<1>4. x \in Tabs /\ p \in OpenPages /\ x.queue # <<>> /\ x.init /\ online \in BOOLEAN
  BY <1>1, <1>3, OpenAble DEF OpenPages, Fit, SaveInv
<1>5. Made' = Made
  BY <1>2 DEF Made
<1>6. \A s \in net' : Carried(s)
  <2>1. ASSUME NEW s \in net', s \notin net PROVE Carried(s)
    <3>1. s \in Sent(p, [x EXCEPT !.flight = FALSE], y)
      BY <1>2, <2>1
    <3>. QED BY <1>3, <3>1, SentCarried DEF Carried
  <2>. QED BY <2>1 DEF Carried
<1>7. CASE r.answer # "saved"
  <2>1. r.answer \in {"authority", "conflict", "invalid", "failure"}
    BY <1>2, <1>7 DEF SaveInv, NetOK, Requests, Answers
  <2>2. Heeds(x, y)
    BY <1>1, <1>4, <1>7, <2>1, FailHeeds
  <2>3. Heeds(x, z)
    BY <1>1, <2>2, EmittedHeeds, HeedsTransitive DEF Heeds
  <2>. QED BY <1>1, <1>2, <1>3, <1>5, <1>6, <2>3, OneHeeds
<1>8. CASE r.answer = "saved"
  <2>1. r.rev \in Nat
    BY DEF SaveInv, NetOK, Requests
  <2>2. /\ y \in Tabs /\ y.init /\ ~ Quiet(y) /\ y.staged = x.staged
        /\ EditsOf(x.queue) = x.queue[1].doc \cup EditsOf(y.queue)
        /\ \A w : Safe(x, w) /\ x.queue[1].doc \subseteq w.settled => Safe(y, w)
    BY <1>1, <1>4, <1>8, <2>1, AcknowledgeSafe
  <2>3. Heeds(y, z)
    BY <1>1, <2>2, EmittedHeeds
  <2>4. x.queue[1].doc \subseteq Settled'
    <3>1. r.doc \subseteq Last(history).doc
      BY <1>2, <1>8 DEF KeptInv, Answered
    <3>. QED BY <1>2, <1>3, <3>1 DEF Carries, Settled
  <2>5. z \in Tabs /\ z.init /\ ~ Quiet(z) /\ EditsOf(z.queue) = EditsOf(y.queue)
        /\ Gesture(z) = Gesture(x)
    BY <2>2, <2>3 DEF Heeds, Gesture
  <2>6. accepted \subseteq Made /\ Gesture(x) \cap accepted = {}
    BY <1>1, <1>4 DEF KeptInv, Known, Unique
  <2>7. Turn(p, z)
    BY <1>1, <1>2, <1>3, <1>4, <1>5, <2>2, <2>4, <2>5, <2>6 DEF Turn
  <2>8. Safe(x, v)
    BY <1>1, <1>3, <2>7, TurnLoosens
  <2>9. v.settled = Settled'
    BY <1>1, ViewStillHolds
  <2>10. Safe(z, v)
    BY <2>2, <2>3, <2>4, <2>8, <2>9 DEF Heeds
  <2>. QED BY <1>1, <1>3, <1>6, <2>7, <2>10, TurnKept
<1>. QED BY <1>7, <1>8

LEMMA HearChangeKept ==
  ASSUME SaveInv, SaveInv', KeptInv, NEW r \in net, HearChange(r) PROVE KeptInv'
<1>1. PICK p, x, u, y, z, v :
        /\ p = r.page /\ x = tabs[p] /\ u = [x EXCEPT !.mutation = "no"]
        /\ y = ReplaceWithLatest(u, r.rev) /\ z = Emitted(y) /\ v = View(p)'
  OBVIOUS
<1>2. /\ p # 0 /\ r.answer \notin {"none", "committed"}
      /\ \/ tabs' = [tabs EXCEPT ![p] = u]
         \/ r.answer = "saved" /\ x.mutation = "sent" /\ tabs' = [tabs EXCEPT ![p] = z]
      /\ net' = net \ {r}
      /\ journal' = journal /\ history' = history /\ edits' = edits /\ accepted' = accepted
      /\ dropped' = dropped
  BY <1>1 DEF HearChange, server, counters, ghosts
<1>3. p \in Pages /\ IsOpen(p)
  BY <1>1, <1>2 DEF SaveInv, NetOK, RequestOK
<1>4. x \in Tabs /\ p \in OpenPages /\ Calm(x)
  BY <1>1, <1>3, OpenAble DEF OpenPages
<1>5. Made' = Made /\ \A s \in net' : Carried(s)
  BY <1>2 DEF Made, Carried
<1>6. Heeds(x, u) /\ u \in Tabs /\ u.queue = x.queue /\ u.staged = x.staged
  <2>1. Heeds(x, u)
    BY <1>1, <1>4, WordsKnown, FlagHeeds
  <2>. QED BY <1>1, <1>4, <2>1 DEF Heeds, Tabs
<1>7. CASE tabs' = [tabs EXCEPT ![p] = u]
  BY <1>1, <1>2, <1>3, <1>5, <1>6, <1>7, OneHeeds
<1>8. CASE r.answer = "saved" /\ x.mutation = "sent" /\ tabs' = [tabs EXCEPT ![p] = z]
  <2>1. r.rev \in DOMAIN history /\ r.rev \in Nat
    BY <1>8 DEF SaveInv, NetOK, RequestOK, Requests
  <2>2. x.queue = <<>> /\ x.init
    BY <1>4, <1>8 DEF Calm
  <2>3. PICK d : d = history[r.rev].doc
    OBVIOUS
  <2>4. d \in Document /\ d \subseteq Last(history).doc /\ d \subseteq Made
    <3>1. history \in Seq(Revisions)
      BY DEF SaveInv, HistoryOK
    <3>2. history[r.rev] \in Revisions
      BY <2>1, <3>1
    <3>3. history[r.rev].doc \subseteq Last(history).doc /\ history[r.rev].doc \subseteq Made
      BY <2>1 DEF KeptInv, Grown, Known
    <3>. QED BY <2>3, <3>2, <3>3 DEF Revisions
  <2>5. /\ y \in Tabs /\ y.init /\ ~ Quiet(y) /\ y.staged = <<>> /\ y.queue = <<>>
        /\ \A w : /\ Loose(u, w) /\ w.held \subseteq w.claims /\ w.guarded \subseteq w.claims
                  /\ w.claims \cap Held(u) \subseteq w.settled
                  /\ d \subseteq w.settled \cap w.known
                  => Safe(y, w)
    BY <1>1, <1>6, <2>1, <2>2, <2>3, <2>4, ReplaceSafe DEF Heeds
  <2>6. Heeds(y, z)
    BY <1>1, <2>5, EmittedHeeds
  <2>7. EditsOf(x.queue) = {} /\ Held(u) = Gesture(x)
    BY <1>6, <2>2 DEF EditsOf, Held, Gesture
  <2>8. z \in Tabs /\ z.init /\ ~ Quiet(z) /\ Gesture(z) = {}
    BY <2>5, <2>6 DEF Heeds, Gesture
  <2>9. Turn(p, z)
    BY <1>1, <1>2, <1>3, <1>5, <1>8, <2>2, <2>7, <2>8 DEF Turn, KeptInv, Known
  <2>10. Safe(x, v)
    BY <1>1, <1>3, <2>9, TurnLoosens
  <2>11. Loose(u, v)
    BY <1>6, <2>10 DEF Heeds, Safe
  <2>12. /\ v.claims = Claims' /\ v.held \subseteq v.claims /\ v.guarded \subseteq v.claims
         /\ v.settled = Settled' /\ v.known = Made'
    BY <1>1, ViewStillHolds
  <2>13. Claims' \cap Gesture(x) = {}
    <3>1. /\ OpenPages' = OpenPages /\ tabs'[p] = z
          /\ \A q \in Pages \ {p} : tabs'[q] = tabs[q]
      BY <1>3, <2>9, TurnRows
    <3>2. accepted \cap Gesture(x) = {} /\ \A q \in OpenPages : q # p => Gesture(tabs[q]) \cap Gesture(x) = {}
      BY <1>1, <1>4 DEF KeptInv, Unique
    <3>3. \A q \in OpenPages : q # p => tabs'[q] = tabs[q]
      BY <3>1 DEF OpenPages
    <3>. QED BY <1>2, <2>8, <3>1, <3>2, <3>3 DEF Claims
  <2>14. d \subseteq v.settled \cap v.known
    BY <1>2, <1>5, <2>4, <2>12 DEF Settled
  <2>15. Safe(z, v)
    BY <2>5, <2>6, <2>7, <2>11, <2>12, <2>13, <2>14 DEF Heeds
  <2>. QED BY <1>1, <1>3, <1>5, <2>9, <2>15, TurnKept
<1>. QED BY <1>2, <1>7, <1>8

-----------------------------------------------------------------------------
(* Steps of the server and of other clients, and pages that open: no page  *)
(* that is open changes.                                                   *)

LEMMA RestKept ==
  ASSUME SaveInv, SaveInv', KeptInv, journal' = journal, accepted' = accepted, dropped' = dropped,
         Made \subseteq Made', Last(history).doc \subseteq Last(history').doc,
         \A i \in DOMAIN history' : history'[i].doc \subseteq Made', Grown',
         \A q \in OpenPages : q \in OpenPages' /\ tabs'[q] = tabs[q],
         \A q \in OpenPages' : q \notin OpenPages =>
           ~ tabs'[q].init /\ tabs'[q].staged = <<>> /\ Safe(tabs'[q], View(q)'),
         Guards' => Answered'
  PROVE  KeptInv'
<1>1. \A q \in OpenPages' : q \notin OpenPages => Gesture(tabs'[q]) = {}
  BY DEF Gesture
<1>2. Claims' \subseteq Claims
  BY <1>1 DEF Claims
<1>3. Unique'
  <2>1. \A q \in OpenPages' : Gesture(tabs'[q]) \cap accepted' = {}
    BY <1>1 DEF KeptInv, Unique
  <2>2. \A q, s \in OpenPages' : q # s => Gesture(tabs'[q]) \cap Gesture(tabs'[s]) = {}
    BY <1>1 DEF KeptInv, Unique
  <2>. QED BY <2>1, <2>2 DEF Unique
<1>4. ASSUME NEW q \in OpenPages'
      PROVE  Follow(q) \/ (Safe(tabs'[q], View(q)') /\ ~ Quiet(tabs'[q]))
  <2>1. CASE q \in OpenPages
    BY <2>1 DEF Follow, Owner, IsOpen, OpenPages
  <2>2. CASE q \notin OpenPages
    BY <1>4, <2>2 DEF Quiet
  <2>. QED BY <2>1, <2>2
<1>5. accepted' \subseteq Made'
  BY DEF KeptInv, Known
<1>. QED BY <1>2, <1>3, <1>4, <1>5, KeptFollows

LEMMA TabsRest ==
  ASSUME SaveInv, SaveInv', KeptInv, journal' = journal, accepted' = accepted, dropped' = dropped,
         Made \subseteq Made', Last(history).doc \subseteq Last(history').doc,
         \A i \in DOMAIN history' : history'[i].doc \subseteq Made', Grown', tabs' = tabs,
         Answered'
  PROVE  KeptInv'
<1>1. OpenPages' = OpenPages
  BY DEF OpenPages, IsOpen
<1>. QED BY <1>1, RestKept

LEMMA HistoryRests ==
  ASSUME KeptInv, Made \subseteq Made', history' = history
  PROVE  /\ Last(history).doc \subseteq Last(history').doc /\ Grown'
         /\ \A i \in DOMAIN history' : history'[i].doc \subseteq Made'
BY DEF KeptInv, Known, Grown

LEMMA HistoryGrows ==
  ASSUME SaveInv, SaveInv', KeptInv, Made \subseteq Made', NEW e, e \in Revisions,
         history' = Append(history, e), e.doc \subseteq Made'
  PROVE  /\ Last(history').doc = e.doc /\ Last(history).doc \subseteq e.doc /\ Grown'
         /\ \A i \in DOMAIN history' : history'[i].doc \subseteq Made'
<1>1. history \in Seq(Revisions) /\ Len(history) \in Nat \ {0} /\ DOMAIN history = 1..Len(history)
  <2>1. history \in Seq(Revisions) /\ history # <<>>
    BY DEF SaveInv, HistoryOK
  <2>. QED BY <2>1, InQueue
<1>2. PICK n : n = Len(history)
  OBVIOUS
<1>3. /\ Len(history') = n + 1 /\ DOMAIN history' = 1..(n + 1) /\ history'[n + 1] = e
      /\ \A i \in 1..n : history'[i] = history[i]
  BY <1>1, <1>2
<1>4. Last(history').doc = e.doc
  BY <1>3 DEF Last
<1>5. Last(history).doc \subseteq e.doc
  <2>1. n \in 1..(Len(history') - 1) /\ history'[n] = history[n]
    <3>1. n \in Nat /\ n >= 1 /\ Len(history') - 1 = n
      BY <1>1, <1>2, <1>3
    <3>2. n \in 1..n
      BY <3>1
    <3>. QED BY <1>3, <3>1, <3>2
  <2>2. history'[n].doc \subseteq history'[n + 1].doc
    BY <2>1 DEF SaveInv, HistoryOK, NothingOverwritten
  <2>. QED BY <1>2, <1>3, <2>1, <2>2 DEF Last
<1>6. ASSUME NEW i \in DOMAIN history'
      PROVE  history'[i].doc \subseteq e.doc /\ history'[i].doc \subseteq Made'
  <2>1. CASE i = n + 1
    BY <1>3, <2>1
  <2>2. CASE i \in 1..n
    <3>1. history[i].doc \subseteq Last(history).doc /\ history[i].doc \subseteq Made
      BY <1>1, <1>2, <2>2 DEF KeptInv, Grown, Known
    <3>. QED BY <1>3, <1>5, <2>2, <3>1
  <2>. QED BY <1>1, <1>2, <1>3, <2>1, <2>2
<1>. QED BY <1>4, <1>5, <1>6 DEF Grown

LEMMA TakeAwayKept == ASSUME SaveInv, SaveInv', KeptInv, TakeAway PROVE KeptInv'
<1>1. /\ tabs' = tabs /\ journal' = journal /\ history' = history /\ net' = net
      /\ edits' = edits /\ accepted' = accepted /\ dropped' = dropped
  BY DEF TakeAway, ghosts
<1>2. Made' = Made /\ Answered'
  BY <1>1 DEF Made, Answered, KeptInv
<1>. QED BY <1>1, <1>2, HistoryRests, TabsRest

LEMMA StutterKept == ASSUME SaveInv, SaveInv', KeptInv, UNCHANGED vars PROVE KeptInv'
<1>1. /\ tabs' = tabs /\ journal' = journal /\ history' = history /\ net' = net
      /\ edits' = edits /\ accepted' = accepted /\ dropped' = dropped
  BY DEF vars, server, counters, ghosts
<1>2. Made' = Made /\ Answered'
  BY <1>1 DEF Made, Answered, KeptInv
<1>. QED BY <1>1, <1>2, HistoryRests, TabsRest

LEMMA SaveElsewhereKept == ASSUME SaveInv, SaveInv', KeptInv, SaveElsewhere PROVE KeptInv'
<1>1. PICK e : e = [doc |-> Last(history).doc \cup {edits'}, key |-> Elsewhere, kind |-> "elsewhere"]
  OBVIOUS
<1>2. /\ tabs' = tabs /\ journal' = journal /\ history' = Append(history, e) /\ net' = net
      /\ edits' = edits + 1 /\ edits < world.edits /\ accepted' = accepted /\ dropped' = dropped
  BY <1>1 DEF SaveElsewhere, ghosts
<1>3. edits \in Nat /\ edits' \in 1..MaxEdits
  BY <1>2, EditBound
<1>4. Made \subseteq Made' /\ edits' \in Made'
  BY <1>2, <1>3 DEF Made
<1>5. Last(history).doc \in Document /\ Last(history).doc \subseteq Made
  <2>1. history \in Seq(Revisions) /\ history # <<>>
    BY DEF SaveInv, HistoryOK
  <2>2. Len(history) \in DOMAIN history
    BY <2>1, InQueue
  <2>3. Last(history).doc \subseteq Made
    BY <2>2 DEF KeptInv, Known, Last
  <2>. QED BY <2>3, LatestClean DEF SaveInv
<1>6. e \in Revisions /\ e.doc \subseteq Made'
  BY <1>1, <1>3, <1>4, <1>5, EditBound DEF Revisions, Elsewhere
<1>7. /\ Last(history').doc = e.doc /\ Last(history).doc \subseteq e.doc /\ Grown'
      /\ \A i \in DOMAIN history' : history'[i].doc \subseteq Made'
  BY <1>2, <1>4, <1>6, HistoryGrows
<1>8. Answered'
  BY <1>2, <1>4, <1>7 DEF KeptInv, Answered
<1>. QED BY <1>2, <1>4, <1>7, <1>8, TabsRest

LEMMA ReadBackKept ==
  ASSUME SaveInv, SaveInv', KeptInv, NEW r \in net, ReadBack(r) PROVE KeptInv'
<1>1. PICK s : s = [r EXCEPT !.answer = "saved", !.rev = Len(history)]
  OBVIOUS
<1>2. /\ tabs' = tabs /\ journal' = journal /\ history' = history /\ net' = (net \ {r}) \cup {s}
      /\ edits' = edits /\ accepted' = accepted /\ dropped' = dropped /\ r.answer = "committed"
  BY <1>1 DEF ReadBack, server, counters, ghosts
<1>3. s.doc = r.doc /\ s.kind = r.kind
  BY <1>1 DEF SaveInv, NetOK, Requests
<1>4. Made' = Made
  BY <1>2 DEF Made
<1>5. Answered'
  BY <1>2, <1>3, <1>4 DEF Answered, KeptInv
<1>. QED BY <1>2, <1>4, <1>5, HistoryRests, TabsRest

LEMMA ServeKept ==
  ASSUME SaveInv, SaveInv', KeptInv, NEW r \in net, Serve(r) PROVE KeptInv'
<1>. DEFINE e == [doc |-> r.doc, key |-> r.key, kind |-> r.kind]
            s == [r EXCEPT !.answer = Verdict(r),
                           !.rev = IF Verdict(r) = "saved" THEN CHOOSE i \in Written(r) : TRUE ELSE 0]
<1>2. /\ tabs' = tabs /\ journal' = journal /\ net' \subseteq (net \ {r}) \cup {s}
      /\ edits' = edits /\ accepted' = accepted /\ dropped' = dropped
      /\ history' = IF Verdict(r) = "committed" THEN Append(history, e) ELSE history
  BY DEF Serve, counters, ghosts
<1>3. s.doc = r.doc /\ s.kind = r.kind /\ s.answer = Verdict(r) /\ r \in Requests
  BY DEF SaveInv, NetOK, Requests
<1>4. Made' = Made /\ r.doc \subseteq Made
  BY <1>2 DEF Made, KeptInv, Answered
<1>5. e \in Revisions /\ e.doc = r.doc
  BY <1>3 DEF Requests, Revisions
<1>. HIDE DEF e, s
<1>6. /\ Last(history).doc \subseteq Last(history').doc /\ Grown'
      /\ \A i \in DOMAIN history' : history'[i].doc \subseteq Made'
      /\ Verdict(r) = "committed" => Last(history').doc = r.doc
  <2>1. CASE Verdict(r) = "committed"
    BY <1>2, <1>4, <1>5, <2>1, HistoryGrows
  <2>2. CASE Verdict(r) # "committed"
    BY <1>2, <1>4, <2>2, HistoryRests
  <2>. QED BY <2>1, <2>2
<1>7. Verdict(r) = "saved" => r.doc \subseteq Last(history).doc
  <2>1. ASSUME Verdict(r) = "saved" PROVE \E i \in DOMAIN history : history[i].doc = r.doc
    BY <2>1 DEF Verdict, Written, SameInput
  <2>. QED BY <2>1 DEF KeptInv, Grown
<1>8. Answered'
  BY <1>2, <1>3, <1>4, <1>6, <1>7 DEF Answered, KeptInv
<1>. QED BY <1>2, <1>4, <1>6, <1>8, TabsRest

LEMMA AcquireKept ==
  ASSUME SaveInv, SaveInv', KeptInv, NEW p \in Pages, Acquire(p) PROVE KeptInv'
<1>1. /\ tabs' = [tabs EXCEPT ![p] = Opening(token')] /\ tabs[p].page = "unused"
      /\ journal' = journal /\ history' = history /\ net' = net
      /\ edits' = edits /\ accepted' = accepted /\ dropped' = dropped
  BY DEF Acquire, counters, ghosts
<1>2. DOMAIN tabs = Pages
  BY DEF SaveInv, PagesOK
<1>3. \A q \in Pages : /\ IsOpen(q) => IsOpen(q)' /\ tabs'[q] = tabs[q]
                       /\ IsOpen(q)' => IsOpen(q)
  BY <1>1, <1>2 DEF IsOpen, Opening
<1>4. OpenPages' = OpenPages /\ \A q \in OpenPages : tabs'[q] = tabs[q]
  BY <1>3 DEF OpenPages, Pages
<1>5. Made' = Made /\ Answered'
  BY <1>1 DEF Made, Answered, KeptInv
<1>. QED BY <1>1, <1>4, <1>5, HistoryRests, RestKept

LEMMA FetchKept ==
  ASSUME SaveInv, SaveInv', KeptInv, NEW p \in Pages, Fetch(p) PROVE KeptInv'
<1>1. PICK x, v : x = Controller(tabs[p].token, Len(history)) /\ v = View(p)'
  OBVIOUS
<1>2. /\ tabs' = [tabs EXCEPT ![p] = x] /\ tabs[p].page = "opening"
      /\ journal' = journal /\ history' = history /\ net' = net
      /\ edits' = edits /\ accepted' = accepted /\ dropped' = dropped
  BY <1>1 DEF Fetch, counters, ghosts, server
<1>3. DOMAIN tabs = Pages
  BY DEF SaveInv, PagesOK
<1>4. /\ ~ x.init /\ x.queue = <<>> /\ x.staged = <<>> /\ x.writing = NoWrite /\ x.next = NoWrite
      /\ x.doc = Last(history).doc /\ x.page = "open"
  BY <1>1 DEF Controller, Last
<1>5. \A q \in Pages \ {p} : (IsOpen(q)' <=> IsOpen(q)) /\ tabs'[q] = tabs[q]
  BY <1>2, <1>3 DEF IsOpen
<1>6. /\ \A q \in OpenPages : q \in OpenPages' /\ tabs'[q] = tabs[q]
      /\ \A q \in OpenPages' : q \notin OpenPages => q = p
      /\ tabs'[p] = x
  BY <1>2, <1>3, <1>5 DEF OpenPages, Pages, IsOpen
<1>7. Made' = Made /\ Answered'
  BY <1>2 DEF Made, Answered, KeptInv
<1>8. /\ v.settled = dropped \cup Last(history).doc /\ v.known = Made /\ v.lost = dropped
      /\ v.held = {} /\ v.guarded = {}
  BY <1>1, <1>2, <1>4, <1>6, <1>7 DEF View, Settled, Owner
<1>9. Safe(x, v)
  <2>1. EditsOf(x.queue) = {} /\ EditsOf(x.staged) = {} /\ Held(x) = {}
    BY <1>4 DEF EditsOf, Held, Gesture
  <2>2. x.doc \subseteq Made
    <3>1. history \in Seq(Revisions) /\ history # <<>>
      BY DEF SaveInv, HistoryOK
    <3>2. Len(history) \in DOMAIN history
      BY <3>1, InQueue
    <3>. QED BY <1>4, <3>2 DEF KeptInv, Known, Last
  <2>3. Recorded(x) /\ Within(x, v.known)
    BY <1>4, <1>8, <2>1, <2>2 DEF Recorded, Within, Wrote
  <2>4. Ordered(x, v.lost)
    BY <1>4, <2>1 DEF Ordered, Sorted
  <2>. QED BY <1>4, <1>8, <2>1, <2>3, <2>4 DEF Safe, Loose, WriteFits, Quiet
<1>. QED BY <1>1, <1>2, <1>4, <1>6, <1>7, <1>9, HistoryRests, RestKept

-----------------------------------------------------------------------------
(* Steps that give a page its journal, or change what the journal has.     *)

\* what another page takes for protected is in the journal
LEMMA QuietProtects ==
  ASSUME Guards, NEW q \in OpenPages, Quiet(tabs[q]), NEW e \in Claims, e \in Held(tabs[q])
  PROVE  e \in Settled \cup Journaled
<1>1. PICK v : v = View(q)
  OBVIOUS
<1>2. Safe(tabs[q], v)
  BY <1>1 DEF Guards
<1>3. v.claims = Claims /\ v.settled = Settled /\ v.journaled = Journaled
  BY <1>1 DEF View
<1>. QED BY <1>2, <1>3 DEF Safe

LEMMA LoadJournalKept ==
  ASSUME SaveInv, SaveInv', KeptInv, NEW p \in Pages, LoadJournal(p) PROVE KeptInv'
<1>1. PICK x, w, v : x = tabs[p] /\ w = journal.payload /\ v = View(p)'
  OBVIOUS
<1>. DEFINE b == w # Empty
            y == [x EXCEPT !.init = TRUE, !.recovery = "ready", !.hasPayload = b]
            s == IF b THEN Recovered(y, w) ELSE y
            t == Pump(s, online)
            z == Emitted(t)
<1>2. /\ IsOpen(p) /\ x.recovery = "checking" /\ journal' = [journal EXCEPT !.owner = p]
      /\ history' = history /\ edits' = edits /\ accepted' = accepted /\ dropped' = dropped
  BY <1>1 DEF LoadJournal, server, counters, ghosts
<1>3. online \in BOOLEAN /\ Able(x) /\ x \in Tabs /\ p \in OpenPages
  BY <1>1, <1>2, OpenAble DEF SaveInv, OpenPages
<1>4. ~ x.init /\ x.queue = <<>> /\ x.staged = <<>> /\ x.writing = NoWrite /\ x.next = NoWrite
  BY <1>2, <1>3 DEF Able, Fit
<1>5. Step(p, t)
  <2>1. y.hasPayload = b
    BY <1>3 DEF Tabs
  <2>2. LoadJournal(p) => Step(p, Pump(IF y.hasPayload THEN Recovered(y, w) ELSE y, online))
    BY <1>1 DEF LoadJournal
  <2>. HIDE DEF y
  <2>. QED BY <2>1, <2>2
<1>6. /\ y \in Tabs /\ y.queue = x.queue /\ y.staged = x.staged /\ y.doc = x.doc
      /\ y.init = TRUE /\ y.writing = x.writing /\ y.next = x.next /\ y.recovery = "ready"
  BY <1>3, WordsKnown DEF Tabs
<1>. HIDE DEF y
<1>7. PayloadSound(w) /\ journal = [owner |-> journal.owner, payload |-> w]
  BY <1>1 DEF SaveInv, JournalOK
<1>8. journal'.payload = w /\ journal'.owner = p
  <2>1. journal' = [owner |-> p, payload |-> w]
    BY <1>2, <1>7
  <2>. QED BY <2>1
<1>9. w \in Payloads /\ (w.actions = <<>> => w = Empty) /\ (w = Empty => EditsOf(w.actions) = {})
  BY <1>7 DEF PayloadSound, Empty, EditsOf
<1>10. /\ tabs' = [tabs EXCEPT ![p] = z] /\ DOMAIN tabs = Pages
  BY <1>5 DEF Step, SaveInv, PagesOK
<1>11. Journaled = EditsOf(w.actions) /\ Journaled' = EditsOf(w.actions) /\ Made' = Made
       /\ Settled' = Settled
  BY <1>1, <1>2, <1>8 DEF Journaled, Made, Settled
\* before the page pumps
<1>12. /\ s \in Tabs /\ s.init /\ s.staged = <<>>
       /\ EditsOf(s.queue) = EditsOf(w.actions)
       /\ Quiet(s) => w = Empty
       /\ \A u : /\ u.settled = Settled /\ u.lost = dropped /\ u.known = Made /\ u.claims \subseteq Claims
                 /\ u.held \subseteq EditsOf(w.actions)
                 /\ u.guarded \subseteq u.settled \cup EditsOf(w.actions)
                 => Safe(s, u)
  <2>1. CASE b
    <3>1. PICK a : a = Recovered(y, w)
      OBVIOUS
    <3>2. /\ a \in Tabs /\ a.init /\ ~ Quiet(a) /\ a.staged = <<>>
          /\ EditsOf(a.queue) = EditsOf(w.actions)
          /\ \A u : /\ EditsOf(w.actions) \subseteq u.known /\ Sorted(w.actions, u.lost)
                    /\ u.held \subseteq u.settled \cup EditsOf(w.actions)
                    /\ u.guarded \subseteq u.settled \cup EditsOf(w.actions)
                    => Safe(a, u)
      BY <1>4, <1>6, <1>9, <2>1, <3>1, RecoveredSafe
    <3>3. EditsOf(w.actions) \subseteq Made /\ Sorted(w.actions, dropped)
      BY <1>1, <1>11 DEF KeptInv, Known
    <3>4. s = a
      BY <2>1, <3>1
    <3>. QED BY <2>1, <3>2, <3>3, <3>4
  <2>2. CASE ~ b
    <3>1. s = y /\ w = Empty /\ EditsOf(w.actions) = {}
      BY <1>9, <2>2
    <3>2. EditsOf(y.queue) = {} /\ EditsOf(y.staged) = {} /\ Held(y) = {} /\ Held(x) = {}
      BY <1>4, <1>6 DEF EditsOf, Held, Gesture
    <3>3. ASSUME NEW u, u.settled = Settled, u.lost = dropped, u.known = Made, u.claims \subseteq Claims,
                 u.held = {}, u.guarded \subseteq u.settled
          PROVE  Safe(y, u)
      <4>1. PICK g : g = View(p)
        OBVIOUS
      <4>2. Loose(x, g) /\ g.claims = Claims /\ g.settled = Settled /\ g.known = Made
        BY <1>1, <1>3, <4>1 DEF KeptInv, Guards, Safe, View
      <4>3. Recorded(y) /\ Within(y, u.known) /\ Ordered(y, u.lost)
        <5>1. x.doc \subseteq Made
          BY <4>2 DEF Loose, Within
        <5>. QED BY <1>4, <1>6, <3>2, <3>3, <5>1 DEF Recorded, Within, Ordered, Sorted, Wrote
      <4>4. u.claims \cap y.doc \subseteq u.settled
        BY <1>6, <3>2, <3>3, <4>2 DEF Loose
      <4>. QED BY <1>4, <1>6, <3>2, <3>3, <4>3, <4>4 DEF Safe, Loose, WriteFits
    <3>. QED BY <1>4, <1>6, <3>1, <3>2, <3>3
  <2>. QED BY <2>1, <2>2
<1>. HIDE DEF s
<1>13. Heeds(s, z)
  <2>1. Heeds(s, t)
    BY <1>3, <1>12, PumpHeeds
  <2>2. Heeds(t, z)
    BY <2>1, EmittedHeeds DEF Heeds
  <2>. HIDE DEF t, z
  <2>. QED BY <2>1, <2>2, HeedsTransitive
<1>. HIDE DEF t, z
<1>14. /\ z \in Tabs /\ z.init /\ z.staged = <<>> /\ EditsOf(z.queue) = EditsOf(w.actions)
       /\ (Quiet(z) => w = Empty)
  BY <1>12, <1>13 DEF Heeds
<1>15. Gesture(z) = {} /\ (Quiet(z) => Held(z) = {})
  BY <1>9, <1>14 DEF Gesture, Held
<1>16. tabs'[p] = z /\ \A q \in Pages \ {p} : tabs'[q] = tabs[q]
  BY <1>10
<1>17. \A q \in Pages : IsOpen(q)' <=> IsOpen(q)
  BY <1>2, <1>14, <1>16 DEF IsOpen, Tabs
<1>18. OpenPages' = OpenPages /\ \A q \in OpenPages : q # p => tabs'[q] = tabs[q]
  BY <1>16, <1>17 DEF OpenPages, Pages
<1>19. Claims' \subseteq Claims /\ Unique'
  <2>1. \A q \in OpenPages : Gesture(tabs'[q]) \subseteq Gesture(tabs[q])
    BY <1>15, <1>16, <1>18
  <2>2. Claims' \subseteq Claims
    BY <1>2, <1>18, <2>1 DEF Claims
  <2>3. Unique'
    <3>1. \A q \in OpenPages' : Gesture(tabs'[q]) \cap accepted' = {}
      BY <1>2, <1>18, <2>1 DEF KeptInv, Unique
    <3>2. \A q, r \in OpenPages' : q # r => Gesture(tabs'[q]) \cap Gesture(tabs'[r]) = {}
      BY <1>18, <2>1 DEF KeptInv, Unique
    <3>. QED BY <3>1, <3>2 DEF Unique
  <2>. QED BY <2>2, <2>3
<1>20. Guarded(p)' \subseteq Settled \cup Journaled
  <2>1. ASSUME NEW e \in Guarded(p)' PROVE e \in Settled \cup Journaled
    <3>1. PICK q \in OpenPages' : q # p /\ Quiet(tabs'[q]) /\ e \in Held(tabs'[q])
      BY <2>1 DEF Guarded
    <3>2. q \in OpenPages /\ Quiet(tabs[q]) /\ e \in Held(tabs[q]) /\ e \in Claims
      BY <1>18, <1>19, <2>1, <3>1 DEF Guarded
    <3>. QED BY <3>2, QuietProtects DEF KeptInv
  <2>. QED BY <2>1
<1>21. Safe(z, v)
  <2>1. /\ v.settled = Settled /\ v.lost = dropped /\ v.known = Made /\ v.claims \subseteq Claims
    BY <1>1, <1>2, <1>11, <1>19 DEF View
  <2>2. v.held \subseteq EditsOf(w.actions) /\ v.guarded \subseteq v.settled \cup EditsOf(w.actions)
    BY <1>1, <1>11, <1>20, <2>1 DEF View
  <2>. QED BY <1>12, <1>13, <2>1, <2>2 DEF Heeds
<1>22. ASSUME NEW q \in OpenPages', q # p PROVE Follow(q)
  BY <1>8, <1>18, <1>22 DEF Follow, Owner
<1>23. \A r \in net' : Carried(r)
  <2>1. ASSUME NEW r \in net', r \notin net PROVE Carried(r)
    <3>1. r \in Sent(p, tabs[p], t)
      BY <1>5, <2>1 DEF Step
    <3>. QED BY <3>1, SentCarried DEF Carried
  <2>. QED BY <2>1 DEF Carried
<1>24. Guards' => Answered'
  BY <1>2, <1>11, <1>23, NetFollows DEF KeptInv
<1>25. \A q \in OpenPages' : Follow(q) \/ (Safe(tabs'[q], View(q)') /\ (Quiet(tabs'[q]) => Held(tabs'[q]) = {}))
  BY <1>1, <1>15, <1>16, <1>21, <1>22
<1>26. /\ Last(history).doc \subseteq Last(history').doc /\ accepted' \subseteq Made' /\ Grown'
       /\ \A i \in DOMAIN history' : history'[i].doc \subseteq Made'
  BY <1>2, <1>11 DEF KeptInv, Known, Grown
<1>27. \A q \in OpenPages : /\ q \in OpenPages'
                            /\ accepted \cap EditsOf(tabs[q].queue) \subseteq
                                 Settled' \cup EditsOf(tabs'[q].queue)
  <2>1. EditsOf(x.queue) = {}
    BY <1>4 DEF EditsOf
  <2>. QED BY <1>1, <1>18, <2>1
<1>. QED BY <1>1, <1>2, <1>8, <1>11, <1>19, <1>24, <1>25, <1>26, <1>27, KeptFollows

\* the page p writes its journal, empties it, or goes
OwnerKept ==
  \E p \in OpenPages :
    /\ accepted' = accepted /\ history' = history /\ edits' = edits /\ dropped \subseteq dropped'
    /\ \A q \in Pages \ {p} : (IsOpen(q)' <=> IsOpen(q)) /\ tabs'[q] = tabs[q]
    /\ IsOpen(p)' => /\ Gesture(tabs'[p]) \subseteq Gesture(tabs[p]) /\ Safe(tabs'[p], View(p)')
                     /\ journal'.owner = p
    /\ journal' = journal \/ (journal.owner = p /\ journal'.owner = p)
    /\ \A q \in OpenPages : q # p /\ Quiet(tabs[q]) =>
         Claims \cap Held(tabs[q]) \subseteq Settled' \cup Journaled'
    /\ Journaled' \subseteq Made /\ Sorted(journal'.payload.actions, dropped')
    /\ accepted \cap (Journaled \cup EditsOf(tabs[p].queue)) \subseteq
         Settled' \cup Journaled' \cup (IF IsOpen(p)' THEN EditsOf(tabs'[p].queue) ELSE {})
    /\ \A r \in net' : Carried(r)

LEMMA OwnerKeeps == ASSUME SaveInv, SaveInv', KeptInv, OwnerKept PROVE KeptInv'
<1>1. PICK p \in OpenPages :
        /\ accepted' = accepted /\ history' = history /\ edits' = edits /\ dropped \subseteq dropped'
        /\ \A q \in Pages \ {p} : (IsOpen(q)' <=> IsOpen(q)) /\ tabs'[q] = tabs[q]
        /\ IsOpen(p)' => /\ Gesture(tabs'[p]) \subseteq Gesture(tabs[p]) /\ Safe(tabs'[p], View(p)')
                         /\ journal'.owner = p
        /\ journal' = journal \/ (journal.owner = p /\ journal'.owner = p)
        /\ \A q \in OpenPages : q # p /\ Quiet(tabs[q]) =>
             Claims \cap Held(tabs[q]) \subseteq Settled' \cup Journaled'
        /\ Journaled' \subseteq Made /\ Sorted(journal'.payload.actions, dropped')
        /\ accepted \cap (Journaled \cup EditsOf(tabs[p].queue)) \subseteq
             Settled' \cup Journaled' \cup (IF IsOpen(p)' THEN EditsOf(tabs'[p].queue) ELSE {})
        /\ \A r \in net' : Carried(r)
  BY DEF OwnerKept
<1>2. /\ p \in Pages /\ IsOpen(p)
      /\ \A q \in OpenPages' : q \in OpenPages /\ (q # p => tabs'[q] = tabs[q])
      /\ \A q \in OpenPages : q # p => q \in OpenPages' /\ tabs'[q] = tabs[q]
      /\ IsOpen(p)' <=> p \in OpenPages'
  BY <1>1 DEF OpenPages, Pages
<1>3. Made' = Made /\ Settled \subseteq Settled'
  BY <1>1 DEF Made, Settled
<1>4. \A q \in OpenPages' : Gesture(tabs'[q]) \subseteq Gesture(tabs[q])
  BY <1>1, <1>2
<1>5. Claims' \subseteq Claims
  BY <1>1, <1>2, <1>4 DEF Claims
<1>6. Unique'
  <2>1. \A q \in OpenPages' : Gesture(tabs'[q]) \cap accepted' = {}
    BY <1>1, <1>2, <1>4 DEF KeptInv, Unique
  <2>2. \A q, s \in OpenPages' : q # s => Gesture(tabs'[q]) \cap Gesture(tabs'[s]) = {}
    BY <1>2, <1>4 DEF KeptInv, Unique
  <2>. QED BY <2>1, <2>2 DEF Unique
<1>7. Known' /\ Grown'
  BY <1>1, <1>3 DEF KeptInv, Known, Grown
<1>8. ASSUME NEW q \in OpenPages', q # p PROVE Safe(tabs'[q], View(q)')
  <2>1. q \in OpenPages /\ tabs'[q] = tabs[q] /\ tabs[q] \in Tabs /\ q \in Pages
    BY <1>2, <1>8, Pageful
  <2>2. PICK x, v, w : x = tabs[q] /\ v = View(q) /\ w = View(q)'
    OBVIOUS
  <2>3. Owner(q)' => Owner(q) /\ journal' = journal /\ ~ IsOpen(p)'
    BY <1>1, <1>8, <2>1 DEF Owner, OpenPages
  <2>4. Owner(q)' => \A s \in Pages \ {q} : IsOpen(s)' /\ Quiet(tabs'[s]) =>
          IsOpen(s) /\ Quiet(tabs[s]) /\ Held(tabs'[s]) \subseteq Held(tabs[s])
    BY <1>1, <2>3
  <2>5. Owner(q)' => Claims' \cap Journaled' \subseteq Journaled \cup Settled'
    BY <2>3 DEF Journaled
  <2>6. Guards /\ Known
    BY DEF KeptInv
  <2>7. Looser(v, w)
    BY <1>1, <1>3, <1>5, <2>1, <2>2, <2>3, <2>4, <2>5, <2>6, ViewLoosens
  <2>8. Quiet(x) => v.claims \cap Held(x) \subseteq w.settled \cup w.journaled
    BY <1>1, <1>8, <2>1, <2>2 DEF View
  <2>9. Safe(x, v)
    BY <2>1, <2>2, <2>6 DEF Guards
  <2>10. Safe(x, w)
    BY <2>1, <2>2, <2>7, <2>8, <2>9, SafeLoosens
  <2>. QED BY <2>1, <2>2, <2>10
<1>9. Guards'
  BY <1>1, <1>2, <1>8 DEF Guards
<1>10. Answered'
  BY <1>1, <1>3, <1>9, NetFollows DEF KeptInv
<1>11. Accounted'
  <2>1. ASSUME NEW e \in accepted'
        PROVE  e \in Settled' \/ e \in Journaled' \/ \E q \in OpenPages' : e \in EditsOf(tabs'[q].queue)
    <3>1. e \in accepted
      BY <1>1, <2>1
    <3>2. e \in Settled \/ e \in Journaled \/ \E q \in OpenPages : e \in EditsOf(tabs[q].queue)
      BY <3>1 DEF KeptInv, Accounted, Settled, Journaled, EditsOfTab
    <3>3. CASE e \in Journaled \cup EditsOf(tabs[p].queue)
      BY <1>1, <1>2, <3>1, <3>3
    <3>4. CASE \E q \in OpenPages : q # p /\ e \in EditsOf(tabs[q].queue)
      BY <1>2, <3>4
    <3>. QED BY <1>3, <3>2, <3>3, <3>4
  <2>. QED BY <2>1 DEF Accounted, Settled, Journaled, EditsOfTab
<1>. QED BY <1>1, <1>6, <1>7, <1>9, <1>10, <1>11 DEF KeptInv

\* what the owner of the journal keeps for the others
LEMMA OwnerHolds ==
  ASSUME SaveInv, KeptInv, NEW p \in OpenPages, journal.owner = p, tabs[p].init, NEW w, w # NoWrite,
         w = tabs[p].writing \/ w = tabs[p].next
  PROVE  /\ Sorted(w.actions, dropped) /\ EditsOf(w.actions) \subseteq Made
         /\ accepted \cap Journaled \subseteq Settled \cup EditsOf(tabs[p].queue)
         /\ \A q \in OpenPages : q # p /\ Quiet(tabs[q]) =>
              Claims \cap Held(tabs[q]) \subseteq Settled \cup EditsOf(w.actions)
<1>1. PICK x, v : x = tabs[p] /\ v = View(p)
  OBVIOUS
<1>2. Owner(p) /\ Safe(x, v)
  BY <1>1 DEF Owner, OpenPages, KeptInv, Guards
<1>3. /\ v.claims = Claims /\ v.settled = Settled /\ v.lost = dropped /\ v.known = Made
      /\ v.held = Claims \cap Journaled /\ v.guarded = Guarded(p)
  BY <1>1, <1>2 DEF View
<1>4. WriteFits(w, x, v) /\ EditsOf(w.actions) \subseteq Made
  BY <1>1, <1>2, <1>3 DEF Safe, Loose, Within, Wrote
<1>5. accepted \cap Journaled \subseteq Settled \cup EditsOf(x.queue)
  <2>1. Gesture(x) \cap accepted = {}
    BY <1>1 DEF KeptInv, Unique
  <2>. QED BY <1>2, <1>3, <2>1 DEF Claims, Safe, Loose, Held
<1>6. ASSUME NEW q \in OpenPages, q # p, Quiet(tabs[q]), NEW e \in Claims, e \in Held(tabs[q])
      PROVE  e \in Settled \cup EditsOf(w.actions)
  <2>1. e \in Guarded(p)
    BY <1>6 DEF Guarded
  <2>. QED BY <1>3, <1>4, <2>1 DEF WriteFits
<1>. QED BY <1>1, <1>3, <1>4, <1>5, <1>6 DEF WriteFits

\* a page that goes answers for nothing
LEMMA ClosesKept ==
  ASSUME SaveInv, SaveInv', KeptInv, NEW p \in OpenPages, tabs' = [tabs EXCEPT ![p] = Closed],
         accepted' = accepted, history' = history, edits' = edits, dropped \subseteq dropped',
         net' = Unheard(p),
         \/ journal' = journal
         \/ /\ journal.owner = p /\ tabs[p].writing # NoWrite
            /\ journal' = Landed(tabs[p].writing)
               \/ (tabs[p].next # NoWrite /\ journal' = Landed(tabs[p].next)),
         accepted \cap EditsOf(tabs[p].queue) \subseteq Settled' \cup Journaled'
  PROVE  KeptInv'
<1>1. p \in Pages /\ IsOpen(p) /\ DOMAIN tabs = Pages /\ tabs[p] \in Tabs
  BY Pageful DEF SaveInv, PagesOK
<1>2. tabs'[p] = Closed /\ \A q \in Pages \ {p} : (IsOpen(q)' <=> IsOpen(q)) /\ tabs'[q] = tabs[q]
  BY <1>1 DEF IsOpen
<1>3. ~ IsOpen(p)'
  BY <1>2 DEF IsOpen, Closed
<1>4. \A r \in net' : Carried(r)
  <2>1. ASSUME NEW r \in net', r \notin net PROVE r.answer = "none" /\ \E s \in net : r.doc = s.doc
    <3>1. PICK s \in net : r \in Orphan(s)
      BY <2>1 DEF Unheard
    <3>2. r = [s EXCEPT !.page = 0] /\ s.answer = "none"
      BY <3>1 DEF Orphan
    <3>3. s \in Requests
      BY DEF SaveInv, NetOK
    <3>. QED BY <3>2, <3>3 DEF Requests
  <2>. QED BY <2>1 DEF Carried
<1>5. Settled \subseteq Settled'
  BY DEF Settled
<1>6. CASE journal' = journal
  <2>1. Journaled' = Journaled /\ Journaled \subseteq Made /\ Sorted(journal'.payload.actions, dropped')
    BY <1>6 DEF Journaled, KeptInv, Known, Sorted
  <2>2. \A q \in OpenPages : Quiet(tabs[q]) =>
          Claims \cap Held(tabs[q]) \subseteq Settled' \cup Journaled'
    BY <1>5, <2>1, QuietProtects DEF KeptInv
  <2>3. OwnerKept
    BY <1>1, <1>2, <1>3, <1>4, <1>6, <2>1, <2>2 DEF OwnerKept
  <2>. QED BY <2>3, OwnerKeeps
<1>7. CASE journal' # journal
  <2>1. PICK w : /\ w # NoWrite /\ journal.owner = p /\ tabs[p].writing # NoWrite
                 /\ journal' = Landed(w) /\ (w = tabs[p].writing \/ w = tabs[p].next)
    BY <1>7
  <2>2. tabs[p].init
    BY <1>1, <2>1, WritingBegun
  <2>3. /\ Sorted(w.actions, dropped) /\ EditsOf(w.actions) \subseteq Made
        /\ accepted \cap Journaled \subseteq Settled \cup EditsOf(tabs[p].queue)
        /\ \A q \in OpenPages : q # p /\ Quiet(tabs[q]) =>
             Claims \cap Held(tabs[q]) \subseteq Settled \cup EditsOf(w.actions)
    BY <2>1, <2>2, OwnerHolds
  <2>4. journal'.payload = w /\ journal'.owner = p
    BY <2>1 DEF Landed, SaveInv, JournalOK
  <2>5. Journaled' = EditsOf(w.actions) /\ Sorted(w.actions, dropped')
    BY <2>3, <2>4 DEF Journaled, Sorted
  <2>6. OwnerKept
    BY <1>1, <1>2, <1>3, <1>4, <1>5, <2>1, <2>3, <2>4, <2>5 DEF OwnerKept
  <2>. QED BY <2>6, OwnerKeeps
<1>. QED BY <1>6, <1>7

\* what a page that says so has in the journal, or in the write that it has begun
LEMMA PageHolds ==
  ASSUME SaveInv, KeptInv, NEW p \in OpenPages
  PROVE  LET x == tabs[p] IN
         /\ Recorded(x)
         /\ Quiet(x) => accepted \cap EditsOf(x.queue) \subseteq Settled \cup Journaled
         /\ x.writing # NoWrite =>
              accepted \cap EditsOf(x.queue) \subseteq Settled \cup EditsOf(Newest(x).actions)
<1>1. PICK x, v : x = tabs[p] /\ v = View(p)
  OBVIOUS
<1>2. Safe(x, v)
  BY <1>1 DEF KeptInv, Guards
<1>3. /\ v.claims = Claims /\ v.settled = Settled /\ v.journaled = Journaled
      /\ accepted \subseteq Claims /\ EditsOf(x.queue) \subseteq Held(x)
  BY <1>1 DEF View, Claims, Held
<1>4. Recorded(x)
  BY <1>2 DEF Safe, Loose
<1>5. x.writing # NoWrite => Wrote(Newest(x)) = EditsOf(Newest(x).actions)
  BY DEF Newest, Wrote
<1>. QED BY <1>1, <1>2, <1>3, <1>4, <1>5 DEF Safe

LEMMA CrashKept ==
  ASSUME SaveInv, SaveInv', KeptInv, NEW p \in Pages, Crash(p) PROVE KeptInv'
<1>1. PICK x : x = tabs[p]
  OBVIOUS
<1>2. /\ IsOpen(p) /\ tabs' = [tabs EXCEPT ![p] = Closed] /\ net' = Unheard(p)
      /\ accepted' = accepted /\ history' = history /\ edits' = edits
      /\ \/ journal' = journal
         \/ x.writing # NoWrite /\ journal.owner = p /\ journal' = Landed(x.writing)
      /\ dropped' = IF x.recovery = "protected" \/ CanLeave(x) THEN dropped
                    ELSE dropped \cup (EditsOf(x.queue) \ EditsOf(journal'.payload.actions))
  BY <1>1 DEF Crash, server, counters
<1>3. p \in OpenPages /\ x \in Tabs /\ Fit(x)
  BY <1>1, <1>2, OpenAble DEF OpenPages
<1>4. dropped \subseteq dropped' /\ dropped' \cup Last(history).doc = Settled'
      /\ Journaled' = EditsOf(journal'.payload.actions)
  BY <1>2 DEF Settled, Journaled
<1>5. accepted \cap EditsOf(x.queue) \subseteq Settled' \cup Journaled'
  <2>1. CASE x.recovery = "protected"
    <3>1. x.init /\ Quiet(x)
      BY <1>3, <2>1 DEF Fit, Unread, Quiet
    <3>2. x.writing = NoWrite /\ accepted \cap EditsOf(x.queue) \subseteq Settled \cup Journaled
      BY <1>1, <1>3, <2>1, <3>1, PageHolds DEF Recorded
    <3>3. Journaled' = Journaled /\ Settled \subseteq Settled'
      BY <1>2, <1>4, <3>2 DEF Journaled, Settled
    <3>. QED BY <3>2, <3>3
  <2>2. CASE CanLeave(x)
    <3>1. EditsOf(x.queue) = {}
      BY <2>2 DEF CanLeave, EditsOf
    <3>. QED BY <3>1
  <2>3. CASE x.recovery # "protected" /\ ~ CanLeave(x)
    BY <1>2, <1>4, <2>3
  <2>. QED BY <2>1, <2>2, <2>3
<1>. QED BY <1>1, <1>2, <1>3, <1>4, <1>5, ClosesKept

LEMMA LeavesKept ==
  ASSUME SaveInv, SaveInv', KeptInv, LeavesItsWork, NEW p \in Pages, Leaves(p) PROVE KeptInv'
<1>1. PICK x : x = tabs[p]
  OBVIOUS
<1>2. /\ IsOpen(p) /\ tabs' = [tabs EXCEPT ![p] = Closed] /\ net' = Unheard(p)
      /\ accepted' = accepted /\ history' = history /\ edits' = edits
      /\ journal' = IF x.writing = NoWrite \/ journal.owner # p THEN journal ELSE Landed(Newest(x))
      /\ dropped' = IF x.recovery \in {"unavailable", "blocked"}
                    THEN dropped \cup (EditsOf(x.queue) \ EditsOf(journal'.payload.actions))
                    ELSE dropped
  <2>1. Newest(x) = IF x.next = NoWrite THEN x.writing ELSE x.next
    BY DEF Newest
  <2>. QED BY <1>1, <2>1 DEF Leaves, counters
<1>3. p \in OpenPages /\ x \in Tabs /\ Fit(x)
  BY <1>1, <1>2, OpenAble DEF OpenPages
<1>4. dropped \subseteq dropped' /\ dropped' \cup Last(history).doc = Settled'
      /\ Journaled' = EditsOf(journal'.payload.actions) /\ Settled \subseteq Settled'
  BY <1>2 DEF Settled, Journaled
<1>5. /\ Recorded(x)
      /\ Quiet(x) => accepted \cap EditsOf(x.queue) \subseteq Settled \cup Journaled
      /\ x.writing # NoWrite =>
           accepted \cap EditsOf(x.queue) \subseteq Settled \cup EditsOf(Newest(x).actions)
  BY <1>1, <1>3, PageHolds
<1>6. accepted \cap EditsOf(x.queue) \subseteq Settled' \cup Journaled'
  <2>1. CASE x.queue = <<>>
    <3>1. EditsOf(x.queue) = {}
      BY <2>1 DEF EditsOf
    <3>. QED BY <3>1
  <2>2. CASE x.queue # <<>> /\ x.writing = NoWrite
    <3>1. x.init /\ x.recovery \in {"ready", "protected", "blocked", "unavailable"}
      BY <1>3, <1>5, <2>2 DEF Fit, Recorded
    <3>2. CASE x.recovery \in {"ready", "protected"}
      <4>1. Journaled' = Journaled
        BY <1>2, <1>4, <2>2 DEF Journaled
      <4>. QED BY <1>4, <1>5, <3>1, <3>2, <4>1 DEF Quiet
    <3>3. CASE x.recovery \in {"blocked", "unavailable"}
      BY <1>2, <1>4, <3>3
    <3>. QED BY <3>1, <3>2, <3>3
  <2>3. CASE x.queue # <<>> /\ x.writing # NoWrite
    <3>1. journal.owner = p
      BY <1>1, <2>3 DEF LeavesItsWork
    <3>2. journal' = Landed(Newest(x))
      BY <1>2, <2>3, <3>1
    <3>3. journal'.payload = Newest(x)
      BY <3>2 DEF Landed, SaveInv, JournalOK
    <3>. QED BY <1>4, <1>5, <2>3, <3>3
  <2>. QED BY <2>1, <2>2, <2>3
<1>7. \/ journal' = journal
      \/ /\ journal.owner = p /\ x.writing # NoWrite
         /\ journal' = Landed(x.writing) \/ (x.next # NoWrite /\ journal' = Landed(x.next))
  BY <1>2 DEF Newest
<1>. QED BY <1>1, <1>2, <1>3, <1>4, <1>6, <1>7, ClosesKept

LEMMA JournalDoneKept ==
  ASSUME SaveInv, SaveInv', KeptInv, NEW p \in Pages, JournalDone(p) PROVE KeptInv'
<1>1. PICK x, w, v : x = tabs[p] /\ w = x.writing /\ v = View(p)
  OBVIOUS
<1>. DEFINE b == w # Empty
            y == [x EXCEPT !.hasPayload = b, !.next = NoWrite, !.writing = x.next]
            s == [y EXCEPT !.recovery = IF y.hasPayload THEN "protected" ELSE "ready"]
<1>2. /\ IsOpen(p) /\ w # NoWrite /\ journal.owner = p /\ journal' = Landed(w)
      /\ history' = history /\ edits' = edits /\ accepted' = accepted /\ dropped' = dropped
      /\ IF y.writing # NoWrite THEN tabs' = [tabs EXCEPT ![p] = y] /\ net' = net
         ELSE Step(p, Pump(s, online))
  BY <1>1 DEF JournalDone, server, counters, ghosts
<1>3. p \in OpenPages /\ x \in Tabs /\ x.init /\ online \in BOOLEAN
  BY <1>1, <1>2, OpenAble, WritingBegun DEF OpenPages, SaveInv
<1>4. /\ y \in Tabs /\ y.init /\ y.queue = x.queue /\ y.staged = x.staged /\ y.doc = x.doc
      /\ y.writing = x.next /\ y.next = NoWrite /\ y.recovery = x.recovery
  BY <1>3 DEF Tabs
<1>. HIDE DEF y
<1>5. /\ s \in Tabs /\ s.init /\ s.queue = x.queue /\ s.staged = x.staged /\ s.doc = x.doc
      /\ s.writing = x.next /\ s.next = NoWrite /\ s.recovery \in {"ready", "protected"}
  BY <1>4, WordsKnown DEF Tabs
<1>. HIDE DEF s
<1>6. Owner(p) /\ Safe(x, v)
  BY <1>1, <1>2, <1>3 DEF Owner, OpenPages, KeptInv, Guards
<1>7. /\ x.next # NoWrite => Safe(y, WithJournal(v, w))
      /\ x.next = NoWrite => Safe(s, WithJournal(v, w))
  BY <1>1, <1>2, <1>3, <1>4, <1>5, <1>6, LandedSafe
<1>8. \E z \in Tabs : /\ tabs' = [tabs EXCEPT ![p] = z] /\ z.init /\ z.staged = x.staged
                      /\ EditsOf(z.queue) = EditsOf(x.queue) /\ Safe(z, WithJournal(v, w))
                      /\ \A r \in net' : Carried(r)
  <2>1. CASE x.next # NoWrite
    BY <1>2, <1>4, <1>7, <2>1 DEF Carried
  <2>2. CASE x.next = NoWrite
    <3>1. PICK t, z : t = Pump(s, online) /\ z = Emitted(t)
      OBVIOUS
    <3>2. Step(p, t)
      BY <1>2, <1>4, <2>2, <3>1
    <3>3. Heeds(s, t)
      BY <1>3, <1>5, <3>1, PumpHeeds
    <3>4. Heeds(t, z)
      BY <3>1, <3>3, EmittedHeeds DEF Heeds
    <3>5. Heeds(s, z)
      BY <3>3, <3>4, HeedsTransitive
    <3>6. \A r \in net' : Carried(r)
      <4>1. ASSUME NEW r \in net', r \notin net PROVE Carried(r)
        <5>1. r \in Sent(p, tabs[p], t)
          BY <3>2, <4>1 DEF Step
        <5>. QED BY <5>1, SentCarried DEF Carried
      <4>. QED BY <4>1 DEF Carried
    <3>7. tabs' = [tabs EXCEPT ![p] = z]
      BY <3>1, <3>2 DEF Step
    <3>. QED BY <1>5, <1>7, <2>2, <3>5, <3>6, <3>7 DEF Heeds
  <2>. QED BY <2>1, <2>2
<1>9. PICK z \in Tabs : /\ tabs' = [tabs EXCEPT ![p] = z] /\ z.init /\ z.staged = x.staged
                        /\ EditsOf(z.queue) = EditsOf(x.queue) /\ Safe(z, WithJournal(v, w))
                        /\ \A r \in net' : Carried(r)
  BY <1>8
<1>10. tabs'[p] = z /\ \A q \in Pages \ {p} : (IsOpen(q)' <=> IsOpen(q)) /\ tabs'[q] = tabs[q]
  BY <1>9 DEF SaveInv, PagesOK, IsOpen
<1>11. IsOpen(p)' /\ Gesture(z) = Gesture(x)
  BY <1>9, <1>10 DEF IsOpen, Tabs, Gesture
<1>12. journal'.payload = w /\ journal'.owner = p /\ Journaled' = Wrote(w)
  BY <1>2 DEF Landed, SaveInv, JournalOK, Journaled, Wrote
<1>13. OpenPages' = OpenPages /\ \A q \in OpenPages : q # p => tabs'[q] = tabs[q]
  <2>1. \A q \in Pages : IsOpen(q)' <=> IsOpen(q)
    BY <1>2, <1>10, <1>11
  <2>. QED BY <1>10, <2>1 DEF OpenPages, Pages
<1>14. Claims' = Claims /\ Settled' = Settled /\ Made' = Made /\ Owner(p)'
  <2>1. \A q \in OpenPages : Gesture(tabs'[q]) = Gesture(tabs[q])
    BY <1>1, <1>10, <1>11, <1>13
  <2>2. Claims' = Claims
    BY <1>2, <1>13, <2>1 DEF Claims
  <2>. QED BY <1>2, <1>9, <1>10, <1>11, <1>12, <2>2 DEF Settled, Made, Owner
<1>15. Guarded(p)' = Guarded(p)
  BY <1>13, <1>14 DEF Guarded
<1>16. View(p)' = WithJournal(v, w)
  BY <1>1, <1>2, <1>6, <1>12, <1>14, <1>15 DEF View, WithJournal
<1>17. /\ Sorted(w.actions, dropped) /\ EditsOf(w.actions) \subseteq Made
       /\ accepted \cap Journaled \subseteq Settled \cup EditsOf(x.queue)
       /\ \A q \in OpenPages : q # p /\ Quiet(tabs[q]) =>
            Claims \cap Held(tabs[q]) \subseteq Settled \cup EditsOf(w.actions)
  BY <1>1, <1>2, <1>3, OwnerHolds
<1>18. Wrote(w) = EditsOf(w.actions)
  BY <1>2 DEF Wrote
<1>19. OwnerKept
  BY <1>1, <1>2, <1>3, <1>9, <1>10, <1>11, <1>12, <1>14, <1>16, <1>17, <1>18 DEF OwnerKept
<1>. QED BY <1>19, OwnerKeeps

LEMMA DiscardDoneKept ==
  ASSUME SaveInv, SaveInv', KeptInv, NEW p \in Pages, DiscardDone(p) PROVE KeptInv'
<1>1. PICK x, v, u : x = tabs[p] /\ v = View(p) /\ u = View(p)'
  OBVIOUS
<1>. DEFINE l == x.leaving \/ x.discard = "clearing to leave"
            c == [x EXCEPT !.hasPayload = FALSE, !.init = TRUE, !.recovery = "ready",
                           !.discard = "no", !.latest = 0, !.leaving = l]
            y == ReplaceWithLatest(c, x.latest)
            z == Emitted(y)
<1>2. /\ IsOpen(p) /\ x.discard \in {"clearing", "clearing to leave"} /\ x.writing = NoWrite
      /\ journal.owner = p /\ journal' = Landed(Empty) /\ Step(p, y)
      /\ history' = history /\ edits' = edits /\ accepted' = accepted
      /\ dropped \subseteq dropped'
      /\ EditsOf(x.queue) \cup EditsOf(x.staged) \cup Journaled \subseteq Settled'
  BY <1>1 DEF DiscardDone, Clearing, server, counters, Settled, Journaled
<1>3. p \in OpenPages /\ x \in Tabs /\ Fit(x) /\ x.latest \in DOMAIN history /\ x.latest \in Nat
  BY <1>1, <1>2, OpenAble DEF OpenPages, Fit, Tabs
<1>4. /\ c \in Tabs /\ c.init = TRUE /\ c.queue = x.queue /\ c.staged = x.staged /\ c.doc = x.doc
      /\ c.writing = NoWrite /\ c.next = x.next /\ c.recovery = "ready"
  BY <1>2, <1>3, WordsKnown DEF Tabs
<1>. HIDE DEF c
<1>5. PICK d : d = history[x.latest].doc
  OBVIOUS
<1>6. d \in Document /\ d \subseteq Last(history).doc /\ d \subseteq Made
  <2>1. history \in Seq(Revisions)
    BY DEF SaveInv, HistoryOK
  <2>2. history[x.latest] \in Revisions
    BY <1>3, <2>1
  <2>3. history[x.latest].doc \subseteq Last(history).doc /\ history[x.latest].doc \subseteq Made
    BY <1>3 DEF KeptInv, Grown, Known
  <2>. QED BY <1>5, <2>2, <2>3 DEF Revisions
<1>7. /\ y \in Tabs /\ y.init /\ ~ Quiet(y) /\ y.staged = <<>> /\ y.queue = <<>>
      /\ \A o : /\ Loose(c, o) /\ o.held \subseteq o.claims /\ o.guarded \subseteq o.claims
                /\ o.claims \cap Held(c) \subseteq o.settled
                /\ d \subseteq o.settled \cap o.known
                => Safe(y, o)
  BY <1>3, <1>4, <1>5, <1>6, ReplaceSafe
<1>8. Heeds(y, z)
  BY <1>7, EmittedHeeds
<1>9. \A r \in net' : Carried(r)
  <2>1. ASSUME NEW r \in net', r \notin net PROVE Carried(r)
    <3>1. r \in Sent(p, tabs[p], y)
      BY <1>2, <2>1 DEF Step
    <3>. QED BY <3>1, SentCarried DEF Carried
  <2>. QED BY <2>1 DEF Carried
<1>10. tabs' = [tabs EXCEPT ![p] = z]
  BY <1>2 DEF Step
<1>. HIDE DEF y, z
<1>11. z \in Tabs /\ z.init /\ z.staged = <<>> /\ Gesture(z) = {}
  BY <1>7, <1>8 DEF Heeds, Gesture
<1>12. tabs'[p] = z /\ \A q \in Pages \ {p} : (IsOpen(q)' <=> IsOpen(q)) /\ tabs'[q] = tabs[q]
  BY <1>10 DEF SaveInv, PagesOK, IsOpen
<1>13. IsOpen(p)'
  BY <1>11, <1>12 DEF IsOpen, Tabs
<1>14. journal'.payload = Empty /\ journal'.owner = p /\ Journaled' = {} /\ Empty.actions = <<>>
  <2>1. journal'.payload = Empty /\ journal'.owner = p
    BY <1>2 DEF Landed, SaveInv, JournalOK
  <2>2. Empty.actions = <<>> /\ EditsOf(<<>>) = {}
    BY DEF Empty, EditsOf
  <2>. QED BY <2>1, <2>2 DEF Journaled
<1>15. Made' = Made /\ Settled \subseteq Settled'
  BY <1>2 DEF Made, Settled
<1>16. OpenPages' = OpenPages /\ \A q \in OpenPages : q # p => tabs'[q] = tabs[q]
  <2>1. \A q \in Pages : IsOpen(q)' <=> IsOpen(q)
    BY <1>2, <1>12, <1>13
  <2>. QED BY <1>12, <2>1 DEF OpenPages, Pages
<1>17. Claims' \subseteq Claims
  <2>1. \A q \in OpenPages : Gesture(tabs'[q]) \subseteq Gesture(tabs[q])
    BY <1>11, <1>12, <1>16
  <2>2. accepted' = accepted
    BY <1>2
  <2>. QED BY <1>16, <2>1, <2>2 DEF Claims
\* everything that was pending is settled
<1>18. \A q \in OpenPages : q # p /\ Quiet(tabs[q]) => Claims \cap Held(tabs[q]) \subseteq Settled'
  BY <1>2, <1>15, QuietProtects DEF KeptInv
<1>19. Guarded(p)' \subseteq Settled'
  <2>1. ASSUME NEW e \in Guarded(p)' PROVE e \in Settled'
    <3>1. PICK q \in OpenPages' : q # p /\ Quiet(tabs'[q]) /\ e \in Held(tabs'[q])
      BY <2>1 DEF Guarded
    <3>2. q \in OpenPages /\ Quiet(tabs[q]) /\ e \in Held(tabs[q]) /\ e \in Claims
      BY <1>16, <1>17, <2>1, <3>1 DEF Guarded
    <3>. QED BY <1>18, <3>1, <3>2
  <2>. QED BY <2>1
<1>20. /\ u.claims = Claims' /\ u.settled = Settled' /\ u.lost = dropped' /\ u.known = Made'
       /\ u.held \subseteq u.claims /\ u.guarded \subseteq u.claims
       /\ u.held = {} /\ u.guarded \subseteq Settled'
  <2>1. u.held = {} /\ u.guarded \subseteq Settled'
    BY <1>1, <1>14, <1>19 DEF View
  <2>. QED BY <1>1, <2>1, ViewStillHolds
<1>21. /\ Loose(x, v) /\ v.claims = Claims /\ v.settled = Settled /\ v.lost = dropped
       /\ v.known = Made
  BY <1>1, <1>3 DEF KeptInv, Guards, Safe, View
<1>22. Held(c) = Held(x) /\ Held(x) \subseteq Settled'
  <2>1. x.staged # <<>> => Len(x.staged) = 1
    BY <1>1, <1>3, Pageful
  <2>2. Gesture(x) \subseteq EditsOf(x.staged)
    BY <1>3, <2>1, GestureStaged
  <2>. QED BY <1>2, <1>4, <2>2 DEF Held, Gesture
<1>23. Loose(c, u)
  <2>1. x.next = NoWrite
    BY <1>2, <1>21 DEF Loose, Recorded
  <2>2. Recorded(c)
    BY <1>4, <2>1 DEF Recorded
  <2>3. Within(c, u.known)
    BY <1>4, <1>15, <1>20, <1>21, <2>1 DEF Loose, Within, Wrote
  <2>4. Ordered(c, u.lost)
    BY <1>2, <1>4, <1>20, <1>21 DEF Loose, Ordered, Sorted, Gesture
  <2>5. u.claims \cap c.doc \subseteq u.settled \cup Held(c)
    BY <1>4, <1>15, <1>17, <1>20, <1>21, <1>22 DEF Loose
  <2>. QED BY <1>4, <1>20, <2>1, <2>2, <2>3, <2>4, <2>5 DEF Loose, WriteFits
<1>24. d \subseteq u.settled \cap u.known
  BY <1>2, <1>6, <1>15, <1>20 DEF Settled
<1>25. Safe(z, u)
  BY <1>7, <1>8, <1>20, <1>22, <1>23, <1>24 DEF Heeds
<1>26. Sorted(Empty.actions, dropped')
  BY <1>14 DEF Sorted
<1>27. OwnerKept
  BY <1>1, <1>2, <1>3, <1>9, <1>11, <1>12, <1>14, <1>18, <1>25, <1>26 DEF OwnerKept
<1>. QED BY <1>27, OwnerKeeps

LEMMA InitKept == ASSUME Init PROVE KeptInv
<1>1. OpenPages = {}
  BY DEF Init, OpenPages, IsOpen
<1>2. /\ journal.payload = Empty /\ history = <<[doc |-> {}, key |-> Elsewhere, kind |-> "elsewhere"]>>
      /\ net = {} /\ accepted = {}
  BY DEF Init
<1>3. Journaled = {} /\ Sorted(journal.payload.actions, dropped)
  BY <1>2 DEF Journaled, Empty, EditsOf, Sorted
<1>4. \A i \in DOMAIN history : history[i].doc = {}
  BY <1>2
<1>. QED BY <1>1, <1>2, <1>3, <1>4 DEF KeptInv, Accounted, Unique, Known, Grown, Answered, Guards

LEMMA StepKept ==
  ASSUME SaveInv, SaveInv', KeptInv, CorrectionsAreSafe, LeavesItsWork, [Next]_vars PROVE KeptInv'
<1>1. ASSUME NEW p \in Pages, User(p) PROVE KeptInv'
  BY <1>1, EditKept, BeginGestureKept, FinishGestureKept, CancelGestureKept, RetryKept, AcquireKept,
     FlagsKept, DiscardKept DEF User
<1>2. ASSUME NEW p \in Pages, Page(p) PROVE KeptInv'
  BY <1>2, TimersKept, FetchKept, LoadJournalKept, JournalDoneKept, JournalStopsKept, FlagsKept,
     DiscardKept, DiscardDoneKept, LeavesKept DEF Page
<1>3. ASSUME NEW p \in Pages, Trouble(p) PROVE KeptInv'
  BY <1>3, JournalStopsKept, LoadFailsKept, DiscardKept, FlagsKept, CrashKept DEF Trouble
<1>4. ASSUME NEW r \in net, Network(r) \/ Lose(r) PROVE KeptInv'
  BY <1>4, ServeKept, ReadBackKept, HearKept, HearChangeKept, LoseKept DEF Network
<1>5. CASE GoOffline \/ GoOnline \/ TakeAway \/ SaveElsewhere
  BY <1>5, GoOfflineKept, GoOnlineKept, TakeAwayKept, SaveElsewhereKept
<1>6. CASE UNCHANGED vars
  BY <1>6, StutterKept
<1>. QED BY <1>1, <1>2, <1>3, <1>4, <1>5, <1>6 DEF Next

\* With one page at a time, a page that leaves owns the journal.
LEMMA AloneLeavesItsWork ==
  ASSUME ShownInv, ~ Duplicates, SaveInv PROVE LeavesItsWork
<1>1. ASSUME NEW p \in Pages, Leaves(p), tabs[p].queue # <<>> PROVE journal.owner = p
  <2>1. IsOpen(p)
    BY <1>1 DEF Leaves
  <2>2. tabs[p].init
    BY <1>1, <2>1, OpenAble DEF Fit
  <2>. QED BY <2>1, <2>2 DEF ShownInv, Alone
<1>. QED BY <1>1 DEF LeavesItsWork

\* What every page answers for is where the page says it is: in its queue or its gesture, in
\* the journal, or in the write under way; and the page that owns the journal keeps in it what
\* other pages take for protected.  For any number of pages, edits, retries and losses.
THEOREM KeptInvariant ==
  ASSUME PromptReads
  PROVE  Spec /\ []CorrectionsAreSafe /\ [][LeavesItsWork]_vars => []KeptInv
<1>1. Init => SaveInv /\ KeptInv
  BY InitHolds, InitKept
<1>2. SaveInv => ReadsInTime
  BY DEF PromptReads, ReadsInTime, SaveInv, HistoryOK, Events
<1>3. SaveInv /\ KeptInv /\ CorrectionsAreSafe /\ [Next]_vars /\ [LeavesItsWork]_vars =>
        SaveInv' /\ KeptInv'
  <2>1. SUFFICES ASSUME SaveInv, KeptInv, CorrectionsAreSafe, [Next]_vars, [LeavesItsWork]_vars
                 PROVE  SaveInv' /\ KeptInv'
    OBVIOUS
  <2>2. SaveInv'
    BY <1>2, <2>1, StepHolds
  <2>3. CASE LeavesItsWork
    BY <2>1, <2>2, <2>3, StepKept
  <2>4. CASE UNCHANGED vars
    BY <2>1, <2>2, <2>4, StutterKept
  <2>. QED BY <2>1, <2>2, <2>3, <2>4
<1>. QED BY <1>1, <1>3, PTL DEF Spec

\* An edit that the editor accepted is never lost silently: it is in the latest revision, in the
\* queue of an open page, in the journal, or the user was told (action-autosave.ts,
\* pending-journal.ts); as long as corrections replace a document that nothing waits behind, and
\* a page that leaves with work in its queue owns the journal.
THEOREM EditsAreAccounted ==
  ASSUME PromptReads
  PROVE  Spec /\ []CorrectionsAreSafe /\ [][LeavesItsWork]_vars => []Accounted
<1>1. KeptInv => Accounted
  BY DEF KeptInv
<1>. QED BY <1>1, KeptInvariant, PTL

\* Where a page is not duplicated, a page that leaves owns the journal.
THEOREM EditsOfOnePageAreAccounted ==
  ASSUME PromptReads, OnePage PROVE Spec /\ []CorrectionsAreSafe => []Accounted
<1>1. Init => SaveInv /\ ShownInv /\ KeptInv
  BY InitHolds, InitShown, InitKept
<1>2. SaveInv => ReadsInTime /\ ~ Duplicates
  BY DEF PromptReads, OnePage, ReadsInTime, SaveInv, HistoryOK, Events, Duplicates
<1>3. SaveInv /\ ShownInv /\ KeptInv /\ CorrectionsAreSafe /\ [Next]_vars =>
        SaveInv' /\ ShownInv' /\ KeptInv'
  BY <1>2, StepHolds, StepShows, AloneLeavesItsWork, StepKept
<1>4. KeptInv => Accounted
  BY DEF KeptInv
<1>. QED BY <1>1, <1>3, <1>4, PTL DEF Spec

\* Where besides the server refuses no document, no accepted edit is lost silently, without a
\* condition on the behaviour.
THEOREM EditsAreAccountedUnlessRefused ==
  ASSUME PromptReads, OnePage, NothingRefused PROVE Spec => []Accounted
<1>1. Init => SaveInv /\ ShownInv /\ KeptInv
  BY InitHolds, InitShown, InitKept
<1>2. SaveInv => ReadsInTime /\ CorrectionsAreSafe /\ ~ Duplicates
  <2>1. SUFFICES ASSUME SaveInv PROVE ReadsInTime /\ CorrectionsAreSafe /\ ~ Duplicates
    OBVIOUS
  <2>2. ReadsInTime /\ Bad = {} /\ ~ Duplicates
    BY <2>1 DEF PromptReads, NothingRefused, OnePage, ReadsInTime, SaveInv, HistoryOK,
                Events, Bad, Duplicates
  <2>. QED BY <2>1, <2>2, NothingToCorrect
<1>3. SaveInv /\ ShownInv /\ KeptInv /\ [Next]_vars => SaveInv' /\ ShownInv' /\ KeptInv'
  BY <1>2, StepHolds, StepShows, AloneLeavesItsWork, StepKept
<1>4. KeptInv => Accounted
  BY DEF KeptInv
<1>. QED BY <1>1, <1>3, <1>4, PTL DEF Spec
=============================================================================
