----------------------------- MODULE NativeHost -----------------------------
(***************************************************************************)
(* The host that runs PointSite Builder on a machine of its own            *)
(* (server/index.ts, workspace.ts, identity.ts, scheduler.ts) and the      *)
(* backups that it and an operator's command take (backups.ts,             *)
(* operator.ts).                                                           *)
(*                                                                         *)
(* The host and the commands are separate processes over one pair of       *)
(* databases and one backup directory; `running' joins two backups of one  *)
(* process only.  Each awaited call is an action.                          *)
(***************************************************************************)
EXTENDS Naturals, FiniteSets, SequencesExt

CONSTANTS
  Commands,     \* operator commands under way at a time
  DayLength,    \* clock ticks in a day
  WeekLength,   \* days in a week (7)
  KeepDays,     \* days whose newest backup is kept (7)
  KeepWeeks,    \* weeks whose newest backup is kept (4)
  MaxBackups,   \* bound: backups begun
  MaxTime,      \* bound: the clock
  Worlds        \* sets of what may happen beside the host's own work

VARIABLES
  world,      \* fixed
  now,        \* the clock
  bound,      \* table builder_instance of both databases: which have the identity
  admin,      \* the first administrator is there (bootstrapped)
  deletion,   \* a draft and its receipt: "none", "prepared" in control, "committed" in both
  state,      \* table native_backup_state
  disk,       \* the backup directory
  proc,       \* the host and the commands
  made        \* history: every backup that was complete once

vars == <<world, now, bound, admin, deletion, state, disk, proc, made>>
databases == <<world, bound, admin, deletion>>

Host == "host"
Procs == {Host} \cup Commands
Ids == 1..MaxBackups
None == 0
Does(what) == what \in world
Off == [at |-> "off", for |-> "daily", id |-> None, done |-> None, seen |-> {}, rest |-> {}, stopped |-> FALSE]
Absent == [stage |-> "absent", done |-> None, pinned |-> FALSE, gone |-> FALSE, receipt |-> FALSE]

Present == {b \in Ids : disk[b].stage = "complete"}
\* A backup is over: the host goes on, a command ends.
Rested(p) == IF p = Host THEN [Off EXCEPT !.at = "idle", !.stopped = proc[p].stopped] ELSE Off
Goes(p, step) == proc' = [proc EXCEPT ![p].at = step]
Day(t) == t \div DayLength
Week(t) == Day(t) \div WeekLength

\* retainedBackups: from the newest backup to the oldest, the first of each of KeepDays days
\* and the first of each of KeepWeeks weeks; what is pinned besides.
\* (mutant) a day and a week are not told from the ones that have their backup already
UnseenToo(units, unit, limit) == Cardinality(units) < limit
Unseen(units, unit, limit) == unit \notin units /\ Cardinality(units) < limit
Visit(kept, x) ==
  LET day == Unseen(kept.days, Day(x.done), KeepDays)
      week == Unseen(kept.weeks, Week(x.done), KeepWeeks) IN
  [days |-> IF day THEN kept.days \cup {Day(x.done)} ELSE kept.days,
   weeks |-> IF week THEN kept.weeks \cup {Week(x.done)} ELSE kept.weeks,
   ids |-> IF x.pinned \/ day \/ week THEN kept.ids \cup {x.id} ELSE kept.ids]
\* (mutant) the comparison is the wrong way round
Earlier(x, y) == x.done < y.done \/ (x.done = y.done /\ x.id < y.id)
Newer(x, y) == x.done > y.done \/ (x.done = y.done /\ x.id > y.id)
Retained(items) ==
  FoldLeft(Visit, [days |-> {}, weeks |-> {}, ids |-> {}], SetToSortSeq(items, Newer)).ids
-----------------------------------------------------------------------------
(* The start of the host. *)

Start ==
  /\ proc[Host].at = "off"
  /\ proc' = [proc EXCEPT ![Host] = [Off EXCEPT !.at = "bind", !.for = "start"]]
  /\ UNCHANGED <<now, databases, state, disk, made>>

\* bindInstance: two databases that have the same identity, or none of them has one.
Bind ==
  /\ proc[Host].at = "bind"
  /\ Goes(Host, IF bound = {"workspace", "control"} THEN "bootstrap"
                ELSE IF bound = {} THEN "bind workspace" ELSE "off")
  /\ UNCHANGED <<now, databases, state, disk, made>>

BindOne(db, next) ==
  /\ bound' = bound \cup {db} /\ Goes(Host, next)
  /\ UNCHANGED <<world, now, admin, deletion, state, disk, made>>
BindWorkspace == proc[Host].at = "bind workspace" /\ BindOne("workspace", "bind control")
BindControl == proc[Host].at = "bind control" /\ BindOne("control", "bootstrap")

\* bootstrapAdministrator, which asks GitHub once
Bootstrap ==
  /\ proc[Host].at = "bootstrap"
  /\ \/ admin' = TRUE /\ Goes(Host, "due")
     \/ ~ admin /\ Goes(Host, "off") /\ UNCHANGED admin
  /\ UNCHANGED <<world, now, bound, deletion, state, disk, made>>

-----------------------------------------------------------------------------
(* The scheduler, and the end of the host. *)

\* A tick is left out while the last one is under way.
Tick ==
  /\ proc[Host].at = "idle" /\ ~ proc[Host].stopped
  /\ Goes(Host, "maintain")
  /\ UNCHANGED <<now, databases, state, disk, made>>

\* runtime.scheduled(), whose failure does not keep the backup from being taken
Maintain ==
  /\ proc[Host].at = "maintain"
  /\ Goes(Host, "due")
  /\ UNCHANGED <<now, databases, state, disk, made>>

Due ==
  /\ proc[Host].at = "due"
  /\ IF state.last = None \/ now - state.last >= DayLength
       THEN Goes(Host, "begin") ELSE proc' = [proc EXCEPT ![Host] = Rested(Host)]
  /\ UNCHANGED <<now, databases, state, disk, made>>

Signal ==
  /\ Does("stop")
  /\ proc[Host].at \notin {"off", "closed"} /\ proc[Host].for # "start" /\ ~ proc[Host].stopped
  /\ proc' = [proc EXCEPT ![Host].stopped = TRUE]
  /\ UNCHANGED <<now, databases, state, disk, made>>

\* stop() waits for the tick that is under way, and with it for its backup.
Close ==
  /\ proc[Host].stopped /\ proc[Host].at = "idle"
  /\ Goes(Host, "closed")
  /\ UNCHANGED <<now, databases, state, disk, made>>

Die(p) ==
  /\ Does("die")
  /\ proc[p].at # "off"
  /\ proc' = [proc EXCEPT ![p] = Off]
  /\ UNCHANGED <<now, databases, state, disk, made>>

-----------------------------------------------------------------------------
(* A backup. *)

Command(p) ==
  /\ Does("command") /\ p # Host /\ proc[p].at = "off" /\ bound = {"workspace", "control"}
  /\ proc' = [proc EXCEPT ![p] = [Off EXCEPT !.at = "begin"]]
  /\ UNCHANGED <<now, databases, state, disk, made>>

Begin(p) ==
  /\ proc[p].at = "begin"
  /\ \E b \in Ids :
       /\ disk[b].stage = "absent" /\ \A c \in 1..(b - 1) : disk[c].stage # "absent"
       /\ disk' = [disk EXCEPT ![b].stage = "pending"]
       /\ proc' = [proc EXCEPT ![p].at = "workspace", ![p].id = b]
  /\ state' = [state EXCEPT !.state = "running"]
  /\ UNCHANGED <<now, databases, made>>

\* Each database is copied at one moment; control is copied after its workspace.
Copied(p, db, next) ==
  /\ disk' = [disk EXCEPT ![proc[p].id] = IF db = "workspace"
       THEN [@ EXCEPT !.gone = deletion = "committed"] ELSE [@ EXCEPT !.receipt = deletion # "none"]]
  /\ proc' = [proc EXCEPT ![p].at = next, ![p].done = IF next = "rename" THEN now ELSE None]
  /\ UNCHANGED <<now, databases, state, made>>
\* (mutant) the control database is copied first
SecondFirst(p) ==
  \/ proc[p].at = "workspace" /\ Copied(p, "control", "control")
  \/ proc[p].at = "control" /\ Copied(p, "workspace", "rename")
CopyDatabase(p) ==
  \/ proc[p].at = "workspace" /\ Copied(p, "workspace", "control")
  \/ proc[p].at = "control" /\ Copied(p, "control", "rename")

Complete(p) ==
  LET b == proc[p].id IN
  /\ proc[p].at = "rename"
  /\ disk' = [disk EXCEPT ![b].stage = "complete", ![b].done = proc[p].done]
  /\ made' = made \cup {[id |-> b, done |-> proc[p].done, pinned |-> FALSE]}
  /\ Goes(p, "succeed")
  /\ UNCHANGED <<now, databases, state>>

Succeed(p) ==
  /\ proc[p].at = "succeed"
  /\ state' = [state |-> "succeeded", last |-> proc[p].done, id |-> proc[p].id]
  /\ proc' = [proc EXCEPT ![p].at = "list", ![p].rest = Present]
  /\ UNCHANGED <<now, databases, disk, made>>

\* One entry of the directory is read; one that another process removed is an error.
List(p) ==
  /\ proc[p].at = "list"
  /\ \/ /\ proc[p].rest = {}
        /\ proc' = [proc EXCEPT ![p].at = "prune",
             ![p].rest = {x.id : x \in proc[p].seen} \ Retained(proc[p].seen)]
     \/ \E b \in proc[p].rest \cap Present :
          proc' = [proc EXCEPT ![p].rest = @ \ {b},
            ![p].seen = @ \cup {[id |-> b, done |-> disk[b].done, pinned |-> disk[b].pinned]}]
  /\ UNCHANGED <<now, databases, state, disk, made>>

Discard(p) ==
  /\ proc[p].at = "prune"
  /\ \E b \in proc[p].rest \cap Present :
       /\ disk' = [disk EXCEPT ![b].stage = "removed"]
       /\ proc' = [proc EXCEPT ![p].rest = @ \ {b}]
  /\ UNCHANGED <<now, databases, state, made>>

End(p) ==
  /\ proc[p].at = "prune" /\ proc[p].rest = {}
  /\ proc' = [proc EXCEPT ![p] = Rested(p)]
  /\ UNCHANGED <<now, databases, state, disk, made>>

\* Any call may fail, and reading or removing what another process removed fails: what is
\* pending is removed, and the failure is recorded.  A host that starts does not
\* start without the backup that is due.
Vanished(p) == proc[p].at \in {"list", "prune"} /\ proc[p].rest \ Present # {}
Fail(p) ==
  /\ \/ Does("fail") /\ proc[p].at \in {"workspace", "control", "rename", "succeed", "list", "prune"}
     \/ Vanished(p)
  /\ disk' = [disk EXCEPT ![proc[p].id].stage = IF @ = "pending" THEN "removed" ELSE @]
  /\ state' = [state EXCEPT !.state = "failed"]
  /\ proc' = [proc EXCEPT ![p] = IF @.for = "start" THEN Off ELSE Rested(p)]
  /\ UNCHANGED <<now, databases, made>>

-----------------------------------------------------------------------------
(* What happens beside the backups. *)

\* restoreWorkspace marks the backup it was given.
Pin(b) ==
  /\ Does("pin")
  /\ b \in Present /\ ~ disk[b].pinned
  /\ disk' = [disk EXCEPT ![b].pinned = TRUE]
  /\ UNCHANGED <<now, databases, state, proc, made>>

\* A deletion: the receipt is prepared in control, then the workspace changes.
Delete ==
  /\ Does("delete")
  /\ proc[Host].at \notin {"off", "closed"} /\ deletion # "committed"
  /\ deletion' = IF deletion = "none" THEN "prepared" ELSE "committed"
  /\ UNCHANGED <<world, now, bound, admin, state, disk, proc, made>>

Elapse ==
  /\ now < MaxTime
  /\ now' = now + 1
  /\ UNCHANGED <<databases, state, disk, proc, made>>

Init ==
  /\ world \in Worlds
  /\ now = DayLength /\ bound = {} /\ admin = FALSE /\ deletion = "none"
  /\ state = [state |-> "never", last |-> None, id |-> None]
  /\ disk = [b \in Ids |-> Absent]
  /\ proc = [p \in Procs |-> Off]
  /\ made = {}

Next ==
  \/ Start \/ Bind \/ BindWorkspace \/ BindControl \/ Bootstrap
  \/ Tick \/ Maintain \/ Due \/ Signal \/ Close \/ Delete \/ Elapse
  \/ \E b \in Ids : Pin(b)
  \/ \E p \in Procs :
       \/ Die(p) \/ Command(p) \/ Begin(p) \/ CopyDatabase(p) \/ Complete(p)
       \/ Succeed(p) \/ List(p) \/ Discard(p) \/ End(p) \/ Fail(p)

Spec == Init /\ [][Next]_vars

-----------------------------------------------------------------------------
(* Properties. *)

\* The loop of retainedBackups, day by day and week by week over the sorted list, keeps of
\* every list that a process reads what is pinned and the newest of each of the last days and
\* weeks that have a backup in it.
KeptFor(x, items, unit(_), limit) ==
  /\ \A y \in items : unit(y.done) = unit(x.done) => y = x \/ Newer(x, y)
  /\ Cardinality({unit(y.done) : y \in {z \in items : unit(z.done) > unit(x.done)}}) < limit
LoopFollowsPolicy == \A p \in Procs : LET items == proc[p].seen IN
  Retained(items) = {x.id : x \in {y \in items :
    y.pinned \/ KeptFor(y, items, Day, KeepDays) \/ KeptFor(y, items, Week, KeepWeeks)}}

\* Of every day and every week that is to be kept, the newest backup that was ever complete
\* is in the directory: the host and the commands list and prune it at the same time, fail
\* and die between any two steps, and never remove it between them.
Later(x, unit(_)) == {unit(y.done) : y \in {z \in made : unit(z.done) > unit(x.done)}}
NewestOf(x, unit(_)) == \A y \in made : unit(y.done) = unit(x.done) => y.done =< x.done
PolicyHolds == \A x \in made :
  \/ NewestOf(x, Day) /\ Cardinality(Later(x, Day)) < KeepDays
  \/ NewestOf(x, Week) /\ Cardinality(Later(x, Week)) < KeepWeeks
  => \E y \in made : y.done = x.done /\ y.id \in Present

\* The two copies of a backup agree: a deletion that the workspace's copy shows has its
\* receipt in the copy of the control database (control is captured after its workspace).
CopiesAgree == \A b \in Present : disk[b].gone => disk[b].receipt
=============================================================================
