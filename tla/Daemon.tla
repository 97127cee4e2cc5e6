------------------------------- MODULE Daemon -------------------------------
(***************************************************************************)
(* The schedule service, src/daemon/Main.cpp: a single-threaded D-Bus       *)
(* service that collects, per high-priority process, the set of task kinds  *)
(* the process is running, keeps their union as the run level, answers      *)
(* GetConfig with it, and broadcasts RunLevelChanged when it runs out of    *)
(* messages to process.                                                     *)
(*                                                                          *)
(* A task_bitmap is the set of its 1 bits.  The bus delivers the messages   *)
(* for the daemon in one order (inbox); a process has at most one call      *)
(* outstanding because sd_bus_call_method blocks its only bus thread; a     *)
(* reply overtakes queued signals, since the caller looks for it first      *)
(* (rpc), and the signals of one sender arrive in order (signals).          *)
(***************************************************************************)
EXTENDS Integers, FiniteSets, Sequences

CONSTANTS
  HighProcs,    \* unique bus names of the high-priority processes
  LowProcs,     \* unique bus names of the low-priority processes
  Bits,         \* bit positions of a task_bitmap
  Kinds,        \* the valid ones: 0 .. NUM_OF_TASK_KIND - 1
  MaxSignals    \* bound: signals a process leaves unread before a new request

ASSUME ProcsAssumption == IsFiniteSet(HighProcs) /\ IsFiniteSet(LowProcs)
ASSUME BitsAssumption  == Kinds \subseteq Bits
ASSUME BoundAssumption == MaxSignals \in Nat

Procs == HighProcs \cup LowProcs

VARIABLES
  \* the bus
  inbox,                \* messages for the daemon, in arrival order
  rpc,                  \* the outstanding call of each process
  signals,              \* RunLevelChanged values not yet taken by a subscriber
  subscribed,           \* processes whose match rule for RunLevelChanged is set
  gone,                 \* processes that left the bus; a unique name never returns
  \* struct Task, and the local Bitmap of main
  ProcBitmap, CountOfEachTaskKind, GlobalBitmap, Bitmap, IsOnTerminate,
  pc                    \* where main's loop is

busVars    == <<inbox, rpc, signals, subscribed, gone>>
taskVars   == <<ProcBitmap, CountOfEachTaskKind, GlobalBitmap>>
daemonVars == <<taskVars, Bitmap, IsOnTerminate, pc>>
vars       == <<busVars, daemonVars>>

Idle      == [st |-> "idle", level |-> {}]
Sent      == [st |-> "sent", level |-> {}]
Granted   == [st |-> "granted", level |-> {}]
Denied    == [st |-> "denied", level |-> {}]
Config(m) == [st |-> "config", level |-> m]

Message(type, p, map) == [type |-> type, from |-> p, map |-> map]

-----------------------------------------------------------------------------
(* The handlers. *)

(* X_Y, just before X, is X with a plausible bug: one a property below would  *)
(* notice.                                                                   *)

\* UpdateGlobalBitmap for one kind: the new count, then the bit AssignBits sets.
NewCount_OldNotSubtracted(k, old, new) ==
  CountOfEachTaskKind[k] + (IF k \in new THEN 1 ELSE 0)

NewCount(k, old, new) ==
  CountOfEachTaskKind[k] - (IF k \in old THEN 1 ELSE 0)
                         + (IF k \in new THEN 1 ELSE 0)

\* UpdateProcBitmap: the counts and the global bitmap follow the change of one
\* process from old to new.
UpdateProcBitmap(old, new) ==
  /\ CountOfEachTaskKind' = [k \in Kinds |-> NewCount(k, old, new)]
  /\ GlobalBitmap' = (GlobalBitmap \ Kinds) \cup
                     {k \in Kinds : NewCount(k, old, new) # 0}

\* operator[] of the map: a sender that is not there yet has no task.
BitmapOf(p) == IF p \in DOMAIN ProcBitmap THEN ProcBitmap[p] ELSE {}

\* No 1 outside Mask.
IsValid_AnyBits(map) == TRUE
IsValid(map) == map \subseteq Kinds

\* The table with p's bitmap replaced.
Record_Accumulates(p, map) ==
  [q \in DOMAIN ProcBitmap \cup {p} |->
     IF q = p THEN map \cup BitmapOf(p) ELSE ProcBitmap[q]]
Record(p, map) ==
  [q \in DOMAIN ProcBitmap \cup {p} |-> IF q = p THEN map ELSE ProcBitmap[q]]

\* The table without p.
Forget_KeepsEntry(p) == [ProcBitmap EXCEPT ![p] = {}]
Forget(p) == [q \in DOMAIN ProcBitmap \ {p} |-> ProcBitmap[q]]

\* The reply of SetHighPrioTaskBitmap.
Verdict_NoDenial(map) == IF IsValid(map) THEN Granted ELSE Sent
Verdict(map) == IF IsValid(map) THEN Granted ELSE Denied

\* The bus drops a reply to a process that left.
Reply(p, r) == rpc' = IF p \in gone THEN rpc ELSE [rpc EXCEPT ![p] = r]

SetHighPrioTaskBitmap(msg) ==
  /\ msg.type = "set"
  /\ IF IsValid(msg.map)
     THEN /\ UpdateProcBitmap(BitmapOf(msg.from), msg.map)
          /\ ProcBitmap' = Record(msg.from, msg.map)
     ELSE UNCHANGED taskVars
  /\ Reply(msg.from, Verdict(msg.map))

GetConfig(msg) ==
  /\ msg.type = "config"
  /\ Reply(msg.from, Config(GlobalBitmap))
  /\ UNCHANGED taskVars

\* ProcBitmap.find
IsOnRecord_Never(p) == FALSE
IsOnRecord(p) == p \in DOMAIN ProcBitmap

\* NameOwnerChanged with an empty new owner.
NameOwnerChangeWatcher(msg) ==
  /\ msg.type = "gone"
  /\ IF IsOnRecord(msg.from)
     THEN /\ UpdateProcBitmap(ProcBitmap[msg.from], {})
          /\ ProcBitmap' = Forget(msg.from)
     ELSE UNCHANGED taskVars
  /\ UNCHANGED rpc

-----------------------------------------------------------------------------
(* The main loop. *)

\* The loop condition.
KeepsRunning_Always == TRUE
KeepsRunning == ~IsOnTerminate

CheckTerminate ==
  /\ pc = "check"
  /\ pc' = IF KeepsRunning THEN "process" ELSE "exit"
  /\ UNCHANGED <<busVars, taskVars, Bitmap, IsOnTerminate>>

\* sd_bus_process handles one message and returns a positive value.
ProcessMessage ==
  /\ pc = "process"
  /\ inbox # <<>>
  /\ \/ SetHighPrioTaskBitmap(Head(inbox))
     \/ GetConfig(Head(inbox))
     \/ NameOwnerChangeWatcher(Head(inbox))
  /\ inbox' = Tail(inbox)
  /\ pc' = "check"
  /\ UNCHANGED <<signals, subscribed, gone, Bitmap, IsOnTerminate>>

\* The level is not the one announced last.
RunLevelChanged_OnRaise == GlobalBitmap \ Bitmap # {}
RunLevelChanged_OnDrop == Bitmap \ GlobalBitmap # {}
RunLevelChanged == Bitmap # GlobalBitmap

\* sd_bus_process returned 0: announce the level if it is not the last one
\* announced, and flush.
AnnounceRunLevel ==
  /\ pc = "process"
  /\ inbox = <<>>
  /\ Bitmap' = GlobalBitmap
  /\ signals' = IF RunLevelChanged
                THEN [p \in LowProcs |-> IF p \in subscribed
                                         THEN Append(signals[p], GlobalBitmap)
                                         ELSE signals[p]]
                ELSE signals
  /\ pc' = "toWait"
  /\ UNCHANGED <<inbox, rpc, subscribed, gone, taskVars, IsOnTerminate>>

\* Entering sd_bus_wait; a message that is already there ends it at once.
Wait ==
  /\ pc = "toWait"
  /\ pc' = "waiting"
  /\ UNCHANGED <<busVars, taskVars, Bitmap, IsOnTerminate>>

WakeUp ==
  /\ pc = "waiting"
  /\ inbox # <<>>
  /\ pc' = "check"
  /\ UNCHANGED <<busVars, taskVars, Bitmap, IsOnTerminate>>

\* SIGTERM: the handler sets the flag; only a wait in progress returns -EINTR.
OnTerminate ==
  /\ pc # "exit"
  /\ ~IsOnTerminate
  /\ IsOnTerminate' = TRUE
  /\ pc' = IF pc = "waiting" THEN "check" ELSE pc
  /\ UNCHANGED <<busVars, taskVars, Bitmap>>

DaemonStep == CheckTerminate \/ ProcessMessage \/ AnnounceRunLevel \/ Wait \/ WakeUp

-----------------------------------------------------------------------------
(* What the processes do on the bus. *)

SendCall(p, type, map) ==
  /\ p \notin gone
  /\ rpc[p] = Idle
  /\ inbox' = Append(inbox, Message(type, p, map))
  /\ rpc' = [rpc EXCEPT ![p] = Sent]

\* A high-priority process calls SetHighPrioTaskBitmap, with any bits.
Request(p, map) ==
  /\ \A l \in LowProcs : Len(signals[l]) < MaxSignals
  /\ SendCall(p, "set", map)
  /\ UNCHANGED <<signals, subscribed, gone, daemonVars>>

\* A low-priority process adds its match rule, then calls GetConfig.
Subscribe(p) ==
  /\ p \notin gone
  /\ p \notin subscribed
  /\ subscribed' = subscribed \cup {p}
  /\ UNCHANGED <<inbox, rpc, signals, gone, daemonVars>>

AskConfig(p) ==
  /\ p \in subscribed
  /\ SendCall(p, "config", {})
  /\ UNCHANGED <<signals, subscribed, gone, daemonVars>>

TakeReply(p) ==
  /\ rpc[p].st \in {"granted", "denied", "config"}
  /\ rpc' = [rpc EXCEPT ![p] = Idle]
  /\ UNCHANGED <<inbox, signals, subscribed, gone, daemonVars>>

TakeSignal(p) ==
  /\ signals[p] # <<>>
  /\ signals' = [signals EXCEPT ![p] = Tail(@)]
  /\ UNCHANGED <<inbox, rpc, subscribed, gone, daemonVars>>

\* A process exits or is killed: the bus announces it after what it has sent.
Disconnect(p) ==
  /\ p \notin gone
  /\ gone' = gone \cup {p}
  /\ inbox' = Append(inbox, Message("gone", p, {}))
  /\ rpc' = [rpc EXCEPT ![p] = Idle]
  /\ subscribed' = subscribed \ {p}
  /\ signals' = [l \in LowProcs |-> IF l = p THEN <<>> ELSE signals[l]]
  /\ UNCHANGED daemonVars

-----------------------------------------------------------------------------
Init ==
  /\ inbox = <<>>
  /\ rpc = [p \in Procs |-> Idle]
  /\ signals = [l \in LowProcs |-> <<>>]
  /\ subscribed = {}
  /\ gone = {}
  /\ ProcBitmap = [p \in {} |-> {}]
  /\ CountOfEachTaskKind = [k \in Kinds |-> 0]
  /\ GlobalBitmap = {}
  /\ Bitmap = {}
  /\ IsOnTerminate = FALSE
  /\ pc = "check"

Next ==
  \/ CheckTerminate
  \/ ProcessMessage
  \/ AnnounceRunLevel
  \/ Wait
  \/ WakeUp
  \/ OnTerminate
  \/ \E p \in HighProcs, map \in SUBSET Bits : Request(p, map)
  \/ \E p \in LowProcs : Subscribe(p)
  \/ \E p \in LowProcs : AskConfig(p)
  \/ \E p \in Procs : TakeReply(p)
  \/ \E p \in LowProcs : TakeSignal(p)
  \/ \E p \in Procs : Disconnect(p)

Spec == Init /\ [][Next]_vars

\* The daemon's thread runs whenever it has something to do.
FairSpec == Spec /\ WF_vars(DaemonStep)

-----------------------------------------------------------------------------
(* Properties. *)

Messages == [type : {"set", "config", "gone"}, from : Procs, map : SUBSET Bits]
Replies  == [st : {"idle", "sent", "granted", "denied", "config"}, level : SUBSET Kinds]

\* The type invariant: the daemon's tables hold valid kinds only, whatever bits
\* the requests carry (the mask test of SetHighPrioTaskBitmap).
TypeOK ==
  /\ inbox \in Seq(Messages)
  /\ rpc \in [Procs -> Replies]
  /\ signals \in [LowProcs -> Seq(SUBSET Kinds)]
  /\ subscribed \subseteq LowProcs
  /\ gone \subseteq Procs
  /\ DOMAIN ProcBitmap \subseteq Procs
  /\ ProcBitmap \in [DOMAIN ProcBitmap -> SUBSET Kinds]
  /\ CountOfEachTaskKind \in [Kinds -> Nat]
  /\ GlobalBitmap \in SUBSET Kinds
  /\ Bitmap \in SUBSET Kinds
  /\ IsOnTerminate \in BOOLEAN
  /\ pc \in {"check", "process", "toWait", "waiting", "exit"}

\* The processes that last reported a task of kind k.
Running(k) == {p \in DOMAIN ProcBitmap : k \in ProcBitmap[p]}

\* The incrementally kept counts and run level are those a census of all the
\* processes gives: after any sequence of requests, repeated requests,
\* rejected requests and departures, a kind is in the run level exactly when
\* some process still on record runs it (UpdateProcBitmap never drifts).
RunLevelIsCensus ==
  /\ \A k \in Kinds : CountOfEachTaskKind[k] = Cardinality(Running(k))
  /\ GlobalBitmap = {k \in Kinds : Running(k) # {}}

\* p's NameOwnerChanged is still to be read, after the i-th message.
GoneAfter(p, i) ==
  \E j \in DOMAIN inbox : j > i /\ inbox[j].type = "gone" /\ inbox[j].from = p

\* A process that died is not on record for longer than its NameOwnerChanged
\* waits in the inbox, even if its last requests are still to be read: a crash
\* can not pin the run level for ever.
DeadAreForgotten ==
  \A p \in gone :
    /\ p \in DOMAIN ProcBitmap => GoneAfter(p, 0)
    /\ \A i \in DOMAIN inbox :
         inbox[i].from = p /\ inbox[i].type # "gone" => GoneAfter(p, i)

\* The daemon never goes to sleep on a level it has not announced, and the
\* newest signal a subscriber has yet to read is the newest announcement.
SleepsAnnounced ==
  /\ pc \in {"toWait", "waiting"} => Bitmap = GlobalBitmap
  /\ \A l \in LowProcs : signals[l] # <<>> =>
       l \in subscribed /\ signals[l][Len(signals[l])] = Bitmap

\* Every call is answered, unless the caller leaves or the daemon is told to
\* terminate, however many calls and departures are queued before it.
EveryCallAnswered ==
  \A p \in Procs : rpc[p] = Sent ~> (rpc[p] # Sent \/ IsOnTerminate)

\* After SIGTERM the daemon exits as soon as one more message reaches it.
TerminatesOnNextMessage == (IsOnTerminate /\ inbox # <<>>) ~> pc = "exit"

\* The log line of OnTerminate: "Shutting down on signal".
ShutsDownOnSignal == IsOnTerminate ~> pc = "exit"
=============================================================================
