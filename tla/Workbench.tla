------------------------------ MODULE Workbench ------------------------------
(***************************************************************************)
(* What stands beside the draft: Library, NativeHost and PublishPanel.  A  *)
(* behaviour is that of one of them, the others stand still.               *)
(***************************************************************************)
EXTENDS Library

CONSTANTS
  Parts,        \* those of which the behaviours are
  HostWorlds,   \* NativeHost
  Commands, DayLength, WeekLength, KeepDays, KeepWeeks, MaxBackups, MaxTime,
  PanelWorlds,  \* PublishPanel
  MaxJobs, MaxKeys, MaxRuns, MaxDecisions

VARIABLES panelWorld, jobs, live, checked, decisions, saved, reads, posts, panel
panelVars == <<panelWorld, jobs, live, checked, decisions, saved, reads, posts, panel>>
P == INSTANCE PublishPanel WITH Worlds <- PanelWorlds, world <- panelWorld, revs <- saved
PanelConstants == MaxJobs \in Nat /\ \A w \in PanelWorlds : P!None \notin w.drafts
ASSUME PanelAssumption == PanelConstants

VARIABLES part, hostWorld, clock, identity, admin, deletion, state, disk, proc, made
hostVars == <<hostWorld, clock, identity, admin, deletion, state, disk, proc, made>>
H == INSTANCE NativeHost WITH
  Worlds <- HostWorlds, world <- hostWorld, now <- clock, bound <- identity
HostConstants ==
  /\ MaxTime \in Nat /\ DayLength \in 0..MaxTime /\ MaxBackups \in Nat
  /\ KeepDays \in Nat /\ KeepWeeks \in Nat
ASSUME HostAssumption == HostConstants

\* A part that stands still does so in one of its worlds.
Moves(p, w, worlds) == part = p \/ w = CHOOSE v \in worlds : TRUE
WorkbenchInit ==
  /\ part \in Parts /\ Init /\ H!Init /\ P!Init
  /\ Moves("library", world, Worlds) /\ Moves("host", hostWorld, HostWorlds)
  /\ Moves("panel", panelWorld, PanelWorlds)
WorkbenchNext ==
  /\ UNCHANGED part
  /\ \/ part = "library" /\ Next /\ UNCHANGED <<hostVars, panelVars>>
     \/ part = "host" /\ H!Next /\ UNCHANGED <<vars, panelVars>>
     \/ part = "panel" /\ P!Next /\ UNCHANGED <<vars, hostVars>>
WorkbenchSpec == WorkbenchInit /\ [][WorkbenchNext]_<<part, vars, hostVars, panelVars>>

\* NativeHost: the loop keeps what the policy says; the backups that the policy keeps are there,
\* each with the receipts of what its workspace lacks.
PolicyHolds == H!PolicyHolds
LoopFollowsPolicy == H!LoopFollowsPolicy
CopiesAgree == H!CopiesAgree
\* PublishPanel: nothing is published or decided twice, and nothing older is shown again.
NothingUnseen == P!NothingUnseen
NeverGoesBack == P!NeverGoesBack
CheckIsOffered == P!CheckIsOffered
=============================================================================
