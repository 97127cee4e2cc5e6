----------------------------- MODULE SchedSystem -----------------------------
(***************************************************************************)
(* The scheduling system: the daemon with its high-priority clients, as     *)
(* HighClients describes them, and its low-priority clients, which start at *)
(* any time: they subscribe to RunLevelChanged, ask GetConfig for the level *)
(* and then follow the signals.  Processes of either kind come and go.      *)
(***************************************************************************)
EXTENDS Daemon

CONSTANT MaxChanges     \* bound: changes in what the high-priority processes run

\* A process has one schedule service, chosen by its configuration when it starts.
ASSUME SidesAssumption   == HighProcs \cap LowProcs = {}
ASSUME ChangesAssumption == MaxChanges \in Nat

VARIABLES
  running,      \* the kinds each high-priority process runs
  reported,     \* what its worker reported last (OldBitmap)
  changes,      \* how often running has changed
  startup,      \* how far StartBus of each low-priority process is
  level,        \* its Bitmap
  heard         \* history: those that have read a signal after GetConfig returned

highVars == <<running, reported, changes>>
lowVars  == <<startup, level, heard>>
sysVars  == <<vars, highVars, lowVars>>

\* The record the daemon holds, and how far a report is, for HighClients.
Clients == INSTANCE HighClients WITH
  recorded <- [h \in HighProcs |-> BitmapOf(h)],
  calling  <- [h \in HighProcs |-> rpc[h].st]

-----------------------------------------------------------------------------
(* High-priority processes. *)

Run(h, map) ==
  /\ h \notin gone
  /\ changes < MaxChanges
  /\ map # running[h]
  /\ running' = [running EXCEPT ![h] = map]
  /\ changes' = changes + 1
  /\ UNCHANGED <<vars, reported, lowVars>>

Report(h, map) ==
  /\ map \in Clients!Reports(h)
  /\ SendCall(h, "set", map)
  /\ reported' = [reported EXCEPT ![h] = map]
  /\ UNCHANGED <<signals, subscribed, gone, daemonVars, running, changes, lowVars>>

ReportReturns(h) ==
  /\ TakeReply(h)
  /\ UNCHANGED <<highVars, lowVars>>

-----------------------------------------------------------------------------
(* Low-priority processes: StartBus, then LowPrioProcWorker. *)

AddMatch(l) ==
  /\ Subscribe(l)
  /\ UNCHANGED <<highVars, lowVars>>

CallGetConfig(l) ==
  /\ startup[l] = "no"
  /\ AskConfig(l)
  /\ startup' = [startup EXCEPT ![l] = "asked"]
  /\ UNCHANGED <<highVars, level, heard>>

ReadConfig(l) ==
  /\ startup[l] = "asked"
  /\ TakeReply(l)
  /\ startup' = [startup EXCEPT ![l] = "up"]
  /\ level' = [level EXCEPT ![l] = rpc[l].level]
  /\ UNCHANGED <<highVars, heard>>

RunLevelChangeWatcher(l) ==
  /\ startup[l] = "up"
  /\ TakeSignal(l)
  /\ level' = [level EXCEPT ![l] = Head(signals[l])]
  /\ heard' = heard \cup {l}
  /\ UNCHANGED <<highVars, startup>>

Leave(p) ==
  /\ Disconnect(p)
  /\ UNCHANGED <<highVars, lowVars>>

\* A step of the daemon.
DaemonWorks == DaemonStep /\ UNCHANGED <<highVars, lowVars>>

-----------------------------------------------------------------------------
SysInit ==
  /\ Init
  /\ running = [h \in HighProcs |-> {}]
  /\ reported = [h \in HighProcs |-> {}]
  /\ changes = 0
  /\ startup = [l \in LowProcs |-> "no"]
  /\ level = [l \in LowProcs |-> {}]
  /\ heard = {}

SysNext ==
  \/ \E h \in HighProcs, map \in SUBSET Kinds : Run(h, map)
  \/ \E h \in HighProcs, map \in SUBSET Kinds : Report(h, map)
  \/ \E h \in HighProcs : ReportReturns(h)
  \/ \E l \in LowProcs : AddMatch(l)
  \/ \E l \in LowProcs : CallGetConfig(l)
  \/ \E l \in LowProcs : ReadConfig(l)
  \/ \E l \in LowProcs : RunLevelChangeWatcher(l)
  \/ \E p \in Procs : Leave(p)
  \/ DaemonWorks

SysSpec == SysInit /\ [][SysNext]_sysVars

\* The daemon and the workers of the processes run; nobody has to start or stop
\* a task, to join or to leave.
SysFairness ==
  /\ WF_sysVars(DaemonWorks)
  /\ \A h \in HighProcs : /\ WF_sysVars(\E map \in SUBSET Kinds : Report(h, map))
                          /\ WF_sysVars(ReportReturns(h))
  /\ \A l \in LowProcs : WF_sysVars(ReadConfig(l)) /\ WF_sysVars(RunLevelChangeWatcher(l))

FairSysSpec == SysSpec /\ SysFairness

-----------------------------------------------------------------------------
(* Properties. *)

\* The type invariant of what this module adds.
SysTypeOK ==
  /\ running \in [HighProcs -> SUBSET Kinds]
  /\ reported \in [HighProcs -> SUBSET Kinds]
  /\ changes \in 0 .. MaxChanges
  /\ startup \in [LowProcs -> {"no", "asked", "up"}]
  /\ level \in [LowProcs -> SUBSET Kinds]
  /\ heard \subseteq LowProcs

\* What the daemon has on record for a live process is its last report, or that
\* report is in the inbox; no report is ever denied (the assertion "the schedule
\* service denied priority change!").
RecordFollowsReports ==
  \A h \in HighProcs \ gone :
    /\ rpc[h] # Denied
    /\ IF rpc[h] = Sent
       THEN \E i \in DOMAIN inbox : inbox[i] = Message("set", h, reported[h])
       ELSE BitmapOf(h) = reported[h]

\* Nothing is on its way.
Quiescent ==
  /\ pc = "waiting" /\ inbox = <<>>
  /\ \A p \in Procs : rpc[p].st \in {"idle"}
  /\ \A l \in LowProcs : startup[l] = "up" => signals[l] = <<>>

\* The kinds that live high-priority processes have reported.
Occupied == UNION {reported[h] : h \in HighProcs \ gone}

\* At rest, a low-priority process that has read a signal since it started holds
\* the level of the live high-priority processes: reports, crashes, departures
\* and signals in any order leave no stale bit.
HeardLevelIsCurrent ==
  Quiescent => \A l \in heard \ gone : level[l] = Occupied

\* The same for every low-priority process that has its configuration: a wait
\* ends when the "corresponding bit becomes 0".
LevelIsCurrent ==
  Quiescent => \A l \in LowProcs \ gone : startup[l] = "up" => level[l] = Occupied

\* A kind that a live high-priority process keeps running is, in the end, held
\* back by every low-priority process that follows the signals.
RunningHoldsBack ==
  \A h \in HighProcs, l \in LowProcs, k \in Kinds :
    <>[](k \in running[h] /\ h \notin gone) /\ <>[](l \in heard \ gone)
      => <>[](k \in level[l])

\* A kind that no live high-priority process runs any more, be it that they all
\* crashed, is in the end free for every low-priority process that follows the
\* signals.
UnusedIsFreed ==
  \A l \in LowProcs, k \in Kinds :
    <>[](\A h \in HighProcs \ gone : k \notin running[h]) /\ <>[](l \in heard \ gone)
      => <>[](k \notin level[l])
=============================================================================
