-------------------------- MODULE SchedSystemProofs --------------------------
(***************************************************************************)
(* What holds of the daemon and its clients together, for any number of     *)
(* processes and kinds: what DaemonProofs shows of the daemon with clients  *)
(* that call as they like (CensusStep, AnnounceStep and DepartureStep apply *)
(* to every step but a report), then where the reports and the level are.   *)
(***************************************************************************)
EXTENDS SchedSystem, DaemonProofs

-----------------------------------------------------------------------------
(* The steps of the system, seen from the daemon and from the bus.          *)

\* Every step is a report or, of the daemon's variables, one of Daemon's steps.
LEMMA StepsAreTheDaemons ==
  ASSUME [SysNext]_sysVars
  PROVE  \/ [Next]_vars
         \/ \E h \in HighProcs, map \in SUBSET Kinds : Report(h, map)
<1>1. CASE \E h \in HighProcs, map \in SUBSET Kinds : Run(h, map)
  BY <1>1 DEF Run
<1>2. CASE \E h \in HighProcs : ReportReturns(h)
  BY <1>2 DEF ReportReturns, Next, Procs
<1>3. CASE \E l \in LowProcs : AddMatch(l)
  BY <1>3 DEF AddMatch, Next
<1>4. CASE \E l \in LowProcs : CallGetConfig(l)
  BY <1>4 DEF CallGetConfig, Next
<1>5. CASE \E l \in LowProcs : ReadConfig(l)
  BY <1>5 DEF ReadConfig, Next, Procs
<1>6. CASE \E l \in LowProcs : RunLevelChangeWatcher(l)
  BY <1>6 DEF RunLevelChangeWatcher, Next
<1>7. CASE \E p \in Procs : Leave(p)
  BY <1>7 DEF Leave, Next
<1>8. CASE DaemonWorks
  BY <1>8 DEF DaemonWorks, DaemonStep, Next
<1>9. CASE UNCHANGED sysVars
  BY <1>9 DEF sysVars
<1>10. QED
  BY <1>1, <1>2, <1>3, <1>4, <1>5, <1>6, <1>7, <1>8, <1>9 DEF SysNext

\* What a report does to the bus.
LEMMA ReportEffect ==
  ASSUME TypeOK, NEW h \in HighProcs, NEW map \in SUBSET Kinds, Report(h, map)
  PROVE  /\ h \notin gone /\ rpc[h] = Idle
         /\ Message("set", h, map) \in Messages
         /\ inbox' = Append(inbox, Message("set", h, map))
         /\ rpc' = [rpc EXCEPT ![h] = Sent]
         /\ reported' = [reported EXCEPT ![h] = map]
         /\ UNCHANGED <<signals, subscribed, gone, ProcBitmap, CountOfEachTaskKind,
                        GlobalBitmap, Bitmap, IsOnTerminate, pc>>
         /\ UNCHANGED <<running, changes, startup, level, heard>>
<1>1. Message("set", h, map) \in Messages
  BY BitsAssumption DEF Message, Messages, Procs
<1>2. QED
  BY <1>1 DEF Report, SendCall, daemonVars, taskVars, lowVars

\* A message put last in the inbox moves none of the others.
LEMMA InboxAppend ==
  ASSUME TypeOK, NEW m \in Messages, inbox' = Append(inbox, m)
  PROVE  /\ Len(inbox) \in Nat
         /\ DOMAIN inbox = 1 .. Len(inbox)
         /\ DOMAIN inbox' = 1 .. Len(inbox) + 1
         /\ \A i \in 1 .. Len(inbox) : inbox'[i] = inbox[i]
         /\ inbox'[Len(inbox) + 1] = m
BY AppendProperties, LenProperties DEF TypeOK

\* Reading the first message moves the others up.
LEMMA InboxRead ==
  ASSUME TypeOK, inbox # <<>>, inbox' = Tail(inbox)
  PROVE  /\ Len(inbox) \in Nat \ {0}
         /\ DOMAIN inbox = 1 .. Len(inbox)
         /\ inbox[1] = Head(inbox)
         /\ DOMAIN inbox' = 1 .. Len(inbox) - 1
         /\ \A i \in 1 .. Len(inbox) - 1 : inbox'[i] = inbox[i + 1]
<1>1. inbox \in Seq(Messages)
  BY DEF TypeOK
<1>2. QED
  BY <1>1, HeadTailProperties, LenProperties, EmptySeq

-----------------------------------------------------------------------------
(* The daemon's own invariants, in the composition.                         *)

BusInv == TypeOK /\ RunLevelIsCensus /\ SleepsAnnounced /\ DeadAreForgotten

\* The system starts as the daemon does.
LEMMA BusInit == SysInit => BusInv
<1>1. Init => SleepsAnnounced /\ DeadAreForgotten
  BY DEF Init, SleepsAnnounced, DeadAreForgotten
<1>2. QED
  BY <1>1, CensusInit DEF SysInit, BusInv, CensusInv

\* A report adds a typed message of a live process and leaves the tables alone.
LEMMA ReportKeepsBus ==
  ASSUME BusInv, NEW h \in HighProcs, NEW map \in SUBSET Kinds, Report(h, map)
  PROVE  BusInv'
<1>1. TypeOK /\ RunLevelIsCensus /\ SleepsAnnounced /\ DeadAreForgotten
  BY DEF BusInv
<1>2. TypeOK'
  <2>1. inbox' \in Seq(Messages)
    <3>1. inbox \in Seq(Messages)
      BY <1>1 DEF TypeOK
    <3>2. QED
      BY <1>1, <3>1, ReportEffect, AppendProperties
  <2>2. rpc' \in [Procs -> Replies]
    BY <1>1, ReportEffect, ReplyTypes DEF TypeOK
  <2>3. QED
    BY <1>1, <2>1, <2>2, ReportEffect DEF TypeOK
<1>3. RunLevelIsCensus'
  BY <1>1, ReportEffect DEF RunLevelIsCensus, Running
<1>4. SleepsAnnounced'
  BY <1>1, ReportEffect DEF SleepsAnnounced
<1>5. DeadAreForgotten'
  <2>1. Message("set", h, map).from = h
    BY DEF Message
  <2>2. QED
    BY <1>1, <2>1, ReportEffect, AppendKeepsDepartures
<1>6. QED
  BY <1>2, <1>3, <1>4, <1>5 DEF BusInv

\* The daemon's invariants hold whatever the clients do.
LEMMA BusStep == BusInv /\ [SysNext]_sysVars => BusInv'
<1>1. ASSUME BusInv, [Next]_vars PROVE BusInv'
  BY <1>1, CensusStep, AnnounceStep, DepartureStep DEF BusInv, CensusInv
<1>2. QED
  BY <1>1, StepsAreTheDaemons, ReportKeepsBus

\* The variables of the clients stay typed.
LEMMA SysTypeStep ==
  ASSUME TypeOK, SysTypeOK, [SysNext]_sysVars
  PROVE  SysTypeOK'
<1> USE DEF SysTypeOK
<1>1. ASSUME NEW h \in HighProcs, NEW map \in SUBSET Kinds, Run(h, map) PROVE SysTypeOK'
  BY <1>1, ChangesAssumption DEF Run, lowVars
<1>2. ASSUME NEW h \in HighProcs, NEW map \in SUBSET Kinds, Report(h, map) PROVE SysTypeOK'
  BY <1>2 DEF Report, lowVars
<1>3. ASSUME UNCHANGED <<highVars, lowVars>> PROVE SysTypeOK'
  BY <1>3 DEF highVars, lowVars
<1>4. ASSUME NEW l \in LowProcs, CallGetConfig(l) PROVE SysTypeOK'
  BY <1>4 DEF CallGetConfig, highVars
<1>5. ASSUME NEW l \in LowProcs, ReadConfig(l) PROVE SysTypeOK'
  <2>1. rpc[l].level \in SUBSET Kinds
    BY DEF TypeOK, Replies, Procs
  <2>2. QED
    BY <1>5, <2>1 DEF ReadConfig, highVars
<1>6. ASSUME NEW l \in LowProcs, RunLevelChangeWatcher(l) PROVE SysTypeOK'
  <2>1. Head(signals[l]) \in SUBSET Kinds
    BY <1>6, HeadTailProperties DEF RunLevelChangeWatcher, TakeSignal, TypeOK
  <2>2. QED
    BY <1>6, <2>1 DEF RunLevelChangeWatcher, highVars
<1>7. QED
  BY <1>1, <1>2, <1>3, <1>4, <1>5, <1>6
  DEF SysNext, ReportReturns, AddMatch, Leave, DaemonWorks, sysVars
-----------------------------------------------------------------------------
(* Reports: RecordFollowsReports says where the last report of a live       *)
(* process is; that it is the only message of the process, and of its       *)
(* present value, keeps it so when the daemon executes one.                 *)

\* h waits for an answer exactly while its last report is in the inbox, as its
\* only message there.
ReportIsTracked(h) ==
  /\ rpc[h] \in {Idle, Sent, Granted}
  /\ rpc[h] = Sent => \E i \in DOMAIN inbox : inbox[i] = Message("set", h, reported[h])
  /\ rpc[h] # Sent => BitmapOf(h) = reported[h]
  /\ \A i \in DOMAIN inbox : inbox[i].from = h =>
       /\ rpc[h] = Sent
       /\ inbox[i] = Message("set", h, reported[h])
       /\ \A j \in DOMAIN inbox : inbox[j].from = h => j = i

ReportsAreTracked == \A h \in HighProcs \ gone : ReportIsTracked(h)

\* The answers a call can get are distinct.
LEMMA RepliesDiffer ==
  /\ Idle.st = "idle" /\ Sent.st = "sent" /\ Granted.st = "granted" /\ Denied.st = "denied"
  /\ \A m : Config(m).st = "config"
BY DEF Idle, Sent, Granted, Denied, Config

\* The fields of a message.
LEMMA MessageFields ==
  \A type, p, map : LET m == Message(type, p, map)
                    IN  m.type = type /\ m.from = p /\ m.map = map
BY DEF Message

\* What others put in the inbox does not concern h.
LEMMA OthersKeepTracked ==
  ASSUME TypeOK, NEW h \in HighProcs, ReportIsTracked(h),
         NEW m \in Messages, m.from # h, inbox' = Append(inbox, m),
         rpc'[h] = rpc[h], reported'[h] = reported[h], ProcBitmap' = ProcBitmap
  PROVE  ReportIsTracked(h)'
<1>1. BitmapOf(h)' = BitmapOf(h)
  BY DEF BitmapOf
<1>2. ASSUME NEW i \in DOMAIN inbox', inbox'[i].from = h
      PROVE  i \in DOMAIN inbox /\ inbox'[i] = inbox[i]
  BY <1>2, InboxAppend
<1>3. ASSUME rpc'[h] = Sent
      PROVE  \E i \in DOMAIN inbox' : inbox'[i] = Message("set", h, reported'[h])
  BY <1>3, InboxAppend DEF ReportIsTracked
<1>4. ASSUME NEW i \in DOMAIN inbox', inbox'[i].from = h
      PROVE  /\ rpc'[h] = Sent
             /\ inbox'[i] = Message("set", h, reported'[h])
             /\ \A j \in DOMAIN inbox' : inbox'[j].from = h => j = i
  BY <1>2, <1>4 DEF ReportIsTracked
<1>5. QED
  BY <1>1, <1>3, <1>4 DEF ReportIsTracked

\* A new report of h is its only message: it had no call outstanding.
LEMMA ReportIsTrackedNext ==
  ASSUME TypeOK, SysTypeOK, NEW h \in HighProcs, ReportIsTracked(h),
         NEW map \in SUBSET Kinds, Report(h, map)
  PROVE  ReportIsTracked(h)'
<1>1. /\ rpc[h] = Idle /\ rpc'[h] = Sent /\ reported'[h] = map
      /\ Message("set", h, map) \in Messages
      /\ inbox' = Append(inbox, Message("set", h, map))
  BY ReportEffect DEF TypeOK, SysTypeOK, Procs
<1>2. \A i \in DOMAIN inbox : inbox[i].from # h
  BY <1>1, RepliesDiffer DEF ReportIsTracked
<1>3. /\ Len(inbox) + 1 \in DOMAIN inbox'
      /\ inbox'[Len(inbox) + 1] = Message("set", h, map)
      /\ \A i \in DOMAIN inbox' : inbox'[i].from = h => i = Len(inbox) + 1
  BY <1>1, <1>2, InboxAppend
<1>4. QED
  BY <1>1, <1>3 DEF ReportIsTracked

\* The daemon executes a message: h's, which ends in its record and its answer,
\* or another's.
LEMMA ReadKeepsTracked ==
  ASSUME TypeOK, SysTypeOK, NEW h \in HighProcs, h \notin gone, ReportIsTracked(h),
         ProcessMessage, reported' = reported
  PROVE  ReportIsTracked(h)'
<1> DEFINE msg == Head(inbox)
<1>1. /\ inbox # <<>> /\ inbox' = Tail(inbox)
      /\ \/ SetHighPrioTaskBitmap(msg)
         \/ GetConfig(msg)
         \/ NameOwnerChangeWatcher(msg)
  BY DEF ProcessMessage
<1>2. /\ Len(inbox) \in Nat \ {0}
      /\ DOMAIN inbox = 1 .. Len(inbox) /\ inbox[1] = msg
      /\ DOMAIN inbox' = 1 .. Len(inbox) - 1
      /\ \A i \in 1 .. Len(inbox) - 1 : inbox'[i] = inbox[i + 1]
  BY <1>1, InboxRead
<1>t. rpc \in [Procs -> Replies] /\ h \in Procs /\ msg \in Messages
  BY <1>1, HeadIsMessage DEF TypeOK, Procs
<1>3. CASE msg.from = h
  <2>1. msg = Message("set", h, reported[h]) /\ rpc[h] = Sent
    BY <1>2, <1>3 DEF ReportIsTracked
  <2>2. /\ \A i \in DOMAIN inbox' : inbox'[i].from # h
    BY <1>2, <1>3 DEF ReportIsTracked
  <2>3. msg.type = "set" /\ msg.map = reported[h] /\ IsValid(msg.map)
    BY <2>1, MessageFields DEF IsValid, SysTypeOK
  <2>4. SetHighPrioTaskBitmap(msg)
    BY <1>1, <2>3 DEF GetConfig, NameOwnerChangeWatcher
  <2>5. rpc'[h] = Granted
    BY <1>3, <1>t, <2>3, <2>4 DEF SetHighPrioTaskBitmap, Reply, Verdict
  <2>6. BitmapOf(h)' = reported'[h]
    BY <1>3, <2>3, <2>4 DEF SetHighPrioTaskBitmap, Record, BitmapOf
  <2>7. QED
    BY <2>2, <2>5, <2>6, RepliesDiffer DEF ReportIsTracked
<1>4. CASE msg.from # h
  <2>1. rpc'[h] = rpc[h]
    BY <1>1, <1>4, <1>t DEF SetHighPrioTaskBitmap, GetConfig, NameOwnerChangeWatcher, Reply
  <2>2. BitmapOf(h)' = BitmapOf(h)
    BY <1>1, <1>4
    DEF SetHighPrioTaskBitmap, GetConfig, NameOwnerChangeWatcher, Record, Forget,
        IsOnRecord, BitmapOf, taskVars
  <2>3. ASSUME rpc[h] = Sent
        PROVE  \E i \in DOMAIN inbox' : inbox'[i] = Message("set", h, reported[h])
    <3>1. PICK i \in DOMAIN inbox : inbox[i] = Message("set", h, reported[h])
      BY <2>3 DEF ReportIsTracked
    <3>2. i # 1
      BY <1>2, <1>4, <3>1, MessageFields
    <3>3. i - 1 \in DOMAIN inbox' /\ inbox'[i - 1] = inbox[i]
      BY <1>2, <3>2
    <3>4. QED
      BY <3>1, <3>3
  <2>4. ASSUME NEW i \in DOMAIN inbox', inbox'[i].from = h
        PROVE  /\ rpc[h] = Sent
               /\ inbox'[i] = Message("set", h, reported[h])
               /\ \A j \in DOMAIN inbox' : inbox'[j].from = h => j = i
    <3>1. i + 1 \in DOMAIN inbox /\ inbox[i + 1] = inbox'[i]
      BY <1>2
    <3>2. ASSUME NEW j \in DOMAIN inbox', inbox'[j].from = h PROVE j = i
      <4>1. j + 1 \in DOMAIN inbox /\ inbox[j + 1] = inbox'[j]
        BY <1>2
      <4>2. j + 1 = i + 1
        BY <2>4, <3>1, <3>2, <4>1 DEF ReportIsTracked
      <4>3. QED
        BY <1>2, <4>2
    <3>3. QED
      BY <2>4, <3>1, <3>2 DEF ReportIsTracked
  <2>5. QED
    BY <2>1, <2>2, <2>3, <2>4 DEF ReportIsTracked
<1>5. QED
  BY <1>3, <1>4

\* Every step keeps the reports of live processes tracked.
LEMMA TrackedStep ==
  ASSUME TypeOK, SysTypeOK, ReportsAreTracked, [SysNext]_sysVars
  PROVE  ReportsAreTracked'
<1> SUFFICES ASSUME NEW h \in HighProcs, h \notin gone'
             PROVE  ReportIsTracked(h)'
  BY DEF ReportsAreTracked
<1>t. rpc \in [Procs -> Replies] /\ h \in Procs
  BY DEF TypeOK, Procs
<1>g. gone \subseteq gone'
  BY DEF SysNext, Run, Report, ReportReturns, AddMatch, CallGetConfig, ReadConfig,
         RunLevelChangeWatcher, Leave, DaemonWorks, DaemonStep, CheckTerminate,
         ProcessMessage, AnnounceRunLevel, Wait, WakeUp, TakeReply, Subscribe, AskConfig,
         TakeSignal, Disconnect, sysVars, vars, busVars
<1>h. h \notin gone /\ ReportIsTracked(h)
  BY <1>g DEF ReportsAreTracked
<1>a. ASSUME UNCHANGED <<inbox, rpc, reported, ProcBitmap>> PROVE ReportIsTracked(h)'
  BY <1>a, <1>h DEF ReportIsTracked, BitmapOf
<1>1. ASSUME NEW g \in HighProcs, NEW map \in SUBSET Kinds, Run(g, map)
      PROVE  ReportIsTracked(h)'
  BY <1>1, <1>a DEF Run, vars, busVars, daemonVars, taskVars
<1>2. ASSUME NEW g \in HighProcs, NEW map \in SUBSET Kinds, Report(g, map)
      PROVE  ReportIsTracked(h)'
  <2>1. CASE g = h
    BY <1>2, <1>h, <2>1, ReportIsTrackedNext
  <2>2. CASE g # h
    <3>1. rpc'[h] = rpc[h] /\ reported'[h] = reported[h]
      BY <1>2, <1>t, <2>2, ReportEffect DEF SysTypeOK
    <3>2. QED
      BY <1>2, <1>h, <2>2, <3>1, ReportEffect, MessageFields, OthersKeepTracked
  <2>3. QED
    BY <2>1, <2>2
<1>3. ASSUME NEW p \in Procs, TakeReply(p), UNCHANGED reported
      PROVE  ReportIsTracked(h)'
  <2>1. rpc[p] # Sent /\ UNCHANGED <<inbox, ProcBitmap>>
    BY <1>3, RepliesDiffer DEF TakeReply, daemonVars, taskVars
  <2>2. rpc'[h] = IF h = p THEN Idle ELSE rpc[h]
    BY <1>3, <1>t DEF TakeReply
  <2>3. BitmapOf(h)' = BitmapOf(h)
    BY <2>1 DEF BitmapOf
  <2>4. QED
    BY <1>3, <1>h, <2>1, <2>2, <2>3, RepliesDiffer DEF ReportIsTracked
<1>4. ASSUME NEW l \in LowProcs, CallGetConfig(l) PROVE ReportIsTracked(h)'
  <2>1. l # h /\ l \in Procs
    BY SidesAssumption DEF Procs
  <2>2. /\ inbox' = Append(inbox, Message("config", l, {})) /\ rpc'[h] = rpc[h]
        /\ reported' = reported /\ ProcBitmap' = ProcBitmap
    BY <1>4, <1>t, <2>1 DEF CallGetConfig, AskConfig, SendCall, daemonVars, taskVars, highVars
  <2>3. Message("config", l, {}) \in Messages
    BY <2>1 DEF Message, Messages
  <2>4. QED
    BY <1>h, <2>1, <2>2, <2>3, MessageFields, OthersKeepTracked
<1>5. ASSUME NEW p \in Procs, Leave(p) PROVE ReportIsTracked(h)'
  <2>1. p # h
    BY <1>5 DEF Leave, Disconnect
  <2>2. /\ inbox' = Append(inbox, Message("gone", p, {})) /\ rpc'[h] = rpc[h]
        /\ reported' = reported /\ ProcBitmap' = ProcBitmap
    BY <1>5, <1>t, <2>1 DEF Leave, Disconnect, daemonVars, taskVars, highVars
  <2>3. Message("gone", p, {}) \in Messages
    BY DEF Message, Messages
  <2>4. QED
    BY <1>h, <2>1, <2>2, <2>3, MessageFields, OthersKeepTracked
<1>6. ASSUME DaemonWorks PROVE ReportIsTracked(h)'
  <2>1. CASE ProcessMessage
    BY <1>6, <1>h, <2>1, ReadKeepsTracked DEF DaemonWorks, highVars
  <2>2. CASE CheckTerminate \/ AnnounceRunLevel \/ Wait \/ WakeUp
    BY <1>6, <1>a, <2>2
    DEF DaemonWorks, CheckTerminate, AnnounceRunLevel, Wait, WakeUp, busVars, taskVars, highVars
  <2>3. QED
    BY <1>6, <2>1, <2>2 DEF DaemonWorks, DaemonStep
<1>7. ASSUME NEW l \in LowProcs, AddMatch(l) \/ RunLevelChangeWatcher(l)
      PROVE  ReportIsTracked(h)'
  BY <1>7, <1>a
  DEF AddMatch, RunLevelChangeWatcher, Subscribe, TakeSignal, daemonVars, taskVars, highVars
<1>8. ASSUME NEW l \in LowProcs, ReadConfig(l) PROVE ReportIsTracked(h)'
  BY <1>3, <1>8 DEF ReadConfig, highVars, Procs
<1>9. ASSUME NEW g \in HighProcs, ReportReturns(g) PROVE ReportIsTracked(h)'
  BY <1>3, <1>9 DEF ReportReturns, highVars, Procs
<1>10. CASE UNCHANGED sysVars
  BY <1>10, <1>a DEF sysVars, vars, busVars, daemonVars, taskVars, highVars
<1>11. QED
  BY <1>1, <1>2, <1>4, <1>5, <1>6, <1>7, <1>8, <1>9, <1>10 DEF SysNext

-----------------------------------------------------------------------------
(* The level: only high-priority processes get on record, and a process     *)
(* that has read a signal and has none left holds the last announcement.    *)

OnlyHighAreRecorded ==
  /\ DOMAIN ProcBitmap \subseteq HighProcs
  /\ \A i \in DOMAIN inbox : inbox[i].type = "set" => inbox[i].from \in HighProcs

\* Requests come from high-priority processes.
LEMMA OnlyHighStep ==
  ASSUME TypeOK, OnlyHighAreRecorded, [SysNext]_sysVars
  PROVE  OnlyHighAreRecorded'
<1> USE DEF OnlyHighAreRecorded
<1>a. ASSUME UNCHANGED <<inbox, ProcBitmap>> PROVE OnlyHighAreRecorded'
  BY <1>a
<1>b. ASSUME NEW m \in Messages, inbox' = Append(inbox, m), ProcBitmap' = ProcBitmap,
             m.type = "set" => m.from \in HighProcs
      PROVE  OnlyHighAreRecorded'
  BY <1>b, InboxAppend
<1>1. ASSUME NEW h \in HighProcs, NEW map \in SUBSET Kinds, Report(h, map)
      PROVE  OnlyHighAreRecorded'
  BY <1>1, <1>b, ReportEffect, MessageFields
<1>2. ASSUME NEW l \in LowProcs, CallGetConfig(l) PROVE OnlyHighAreRecorded'
  <2>1. Message("config", l, {}) \in Messages
    BY DEF Message, Messages, Procs
  <2>2. QED
    BY <1>2, <1>b, <2>1, MessageFields
    DEF CallGetConfig, AskConfig, SendCall, daemonVars, taskVars
<1>3. ASSUME NEW p \in Procs, Leave(p) PROVE OnlyHighAreRecorded'
  <2>1. Message("gone", p, {}) \in Messages
    BY DEF Message, Messages
  <2>2. QED
    BY <1>3, <1>b, <2>1, MessageFields DEF Leave, Disconnect, daemonVars, taskVars
<1>4. CASE ProcessMessage
  <2>1. /\ \A i \in DOMAIN inbox' : inbox'[i].type = "set" => inbox'[i].from \in HighProcs
        /\ Head(inbox).type = "set" => Head(inbox).from \in HighProcs
    BY <1>4, InboxRead DEF ProcessMessage
  <2>2. DOMAIN ProcBitmap' \subseteq HighProcs
    BY <1>4, <2>1
    DEF ProcessMessage, SetHighPrioTaskBitmap, GetConfig, NameOwnerChangeWatcher, Record,
        Forget, taskVars
  <2>3. QED
    BY <2>1, <2>2
<1>5. CASE DaemonWorks
  BY <1>4, <1>5, <1>a
  DEF DaemonWorks, DaemonStep, CheckTerminate, AnnounceRunLevel, Wait, WakeUp, busVars,
      taskVars
<1>6. CASE \/ \E h \in HighProcs, map \in SUBSET Kinds : Run(h, map)
           \/ \E h \in HighProcs : ReportReturns(h)
           \/ \E l \in LowProcs : AddMatch(l)
           \/ \E l \in LowProcs : ReadConfig(l)
           \/ \E l \in LowProcs : RunLevelChangeWatcher(l)
           \/ UNCHANGED sysVars
  BY <1>6, <1>a
  DEF Run, ReportReturns, AddMatch, ReadConfig, RunLevelChangeWatcher, TakeReply, Subscribe,
      TakeSignal, sysVars, vars, busVars, daemonVars, taskVars
<1>7. QED
  BY <1>1, <1>2, <1>3, <1>5, <1>6 DEF SysNext

\* A process that has read a signal and has no more to read.
LevelIsLastHeard ==
  /\ \A l \in heard : startup[l] = "up"
  /\ \A l \in LowProcs \ gone : startup[l] # "no" => l \in subscribed
  /\ \A l \in heard \ gone : signals[l] = <<>> => level[l] = Bitmap

\* An announcement goes to every process that listens, and the last one read is
\* the last one made.
LEMMA LevelStep ==
  ASSUME TypeOK, SysTypeOK, SleepsAnnounced, LevelIsLastHeard, [SysNext]_sysVars
  PROVE  LevelIsLastHeard'
<1>a. ASSUME UNCHANGED <<subscribed, gone, signals, Bitmap, lowVars>>
      PROVE  LevelIsLastHeard'
  BY <1>a DEF LevelIsLastHeard, lowVars
<1>1. ASSUME NEW l \in LowProcs, AddMatch(l) PROVE LevelIsLastHeard'
  BY <1>1 DEF LevelIsLastHeard, AddMatch, Subscribe, lowVars, daemonVars
<1>2. ASSUME NEW l \in LowProcs, CallGetConfig(l) PROVE LevelIsLastHeard'
  BY <1>2 DEF LevelIsLastHeard, CallGetConfig, AskConfig, SendCall, daemonVars, SysTypeOK
<1>3. ASSUME NEW l \in LowProcs, ReadConfig(l) PROVE LevelIsLastHeard'
  BY <1>3 DEF LevelIsLastHeard, ReadConfig, TakeReply, daemonVars, SysTypeOK
<1>4. ASSUME NEW l \in LowProcs, RunLevelChangeWatcher(l) PROVE LevelIsLastHeard'
  <2>1. /\ UNCHANGED <<subscribed, gone, Bitmap, startup>> /\ heard' = heard \cup {l}
        /\ startup[l] = "up" /\ signals[l] # <<>>
        /\ signals' = [signals EXCEPT ![l] = Tail(@)]
        /\ level' = [level EXCEPT ![l] = Head(signals[l])]
    BY <1>4 DEF RunLevelChangeWatcher, TakeSignal, daemonVars
  <2>2. signals'[l] = <<>> => level'[l] = Bitmap
    <3>1. signals[l] \in Seq(SUBSET Kinds)
      BY DEF TypeOK
    <3>2. signals'[l] = Tail(signals[l]) /\ level'[l] = Head(signals[l])
      BY <2>1 DEF TypeOK, SysTypeOK
    <3>3. signals[l][Len(signals[l])] = Bitmap
      BY <2>1 DEF SleepsAnnounced
    <3>4. Len(Tail(signals[l])) = Len(signals[l]) - 1 /\ Head(signals[l]) = signals[l][1]
      BY <2>1, <3>1, HeadTailProperties
    <3>5. ASSUME Tail(signals[l]) = <<>> PROVE Len(signals[l]) = 1
      <4>1. Len(Tail(signals[l])) = 0
        BY <3>1, <3>5, EmptySeq
      <4>2. Len(signals[l]) \in Nat
        BY <3>1, LenProperties
      <4>3. QED
        BY <3>4, <4>1, <4>2
    <3>6. QED
      BY <3>2, <3>3, <3>4, <3>5
  <2>3. \A k \in heard \ gone : k # l /\ signals'[k] = <<>> => level'[k] = Bitmap
    BY <2>1 DEF LevelIsLastHeard, TypeOK, SysTypeOK
  <2>4. QED
    BY <2>1, <2>2, <2>3 DEF LevelIsLastHeard
<1>5. ASSUME NEW p \in Procs, Leave(p) PROVE LevelIsLastHeard'
  <2>1. /\ UNCHANGED <<Bitmap, lowVars>>
        /\ gone' = gone \cup {p} /\ subscribed' = subscribed \ {p}
        /\ \A l \in LowProcs \ {p} : signals'[l] = signals[l]
    BY <1>5 DEF Leave, Disconnect, daemonVars, TypeOK
  <2>2. QED
    BY <2>1 DEF LevelIsLastHeard, lowVars, SysTypeOK
<1>6. CASE AnnounceRunLevel /\ UNCHANGED lowVars
  <2>1. /\ UNCHANGED <<subscribed, gone, startup, level, heard>>
        /\ Bitmap' = GlobalBitmap
    BY <1>6 DEF AnnounceRunLevel, lowVars
  <2>2. ASSUME NEW l \in heard, l \notin gone, signals'[l] = <<>>
        PROVE  level[l] = GlobalBitmap
    <3>1. l \in LowProcs /\ l \in subscribed
      BY <2>2 DEF LevelIsLastHeard, SysTypeOK
    <3>2. Append(signals[l], GlobalBitmap) # <<>>
      <4>1. signals[l] \in Seq(SUBSET Kinds) /\ GlobalBitmap \in SUBSET Kinds
        BY <3>1 DEF TypeOK
      <4>2. /\ Len(signals[l]) \in Nat
            /\ Len(Append(signals[l], GlobalBitmap)) = Len(signals[l]) + 1
        BY <4>1, AppendProperties, LenProperties
      <4>3. QED
        BY <4>2
    <3>3. Bitmap = GlobalBitmap
      <4>1. Bitmap # GlobalBitmap => signals'[l] = Append(signals[l], GlobalBitmap)
        BY <1>6, <3>1 DEF AnnounceRunLevel, RunLevelChanged
      <4>2. QED
        BY <2>2, <3>2, <4>1
    <3>4. signals' = signals
      BY <1>6, <3>3 DEF AnnounceRunLevel, RunLevelChanged
    <3>5. QED
      BY <2>2, <3>3, <3>4 DEF LevelIsLastHeard
  <2>3. QED
    BY <2>1, <2>2 DEF LevelIsLastHeard
<1>7. CASE DaemonWorks
  BY <1>6, <1>7, <1>a
  DEF DaemonWorks, DaemonStep, CheckTerminate, ProcessMessage, Wait, WakeUp, busVars
<1>8. CASE \/ \E h \in HighProcs, map \in SUBSET Kinds : Run(h, map) \/ Report(h, map)
           \/ \E h \in HighProcs : ReportReturns(h)
           \/ UNCHANGED sysVars
  BY <1>8, <1>a
  DEF Run, Report, ReportReturns, TakeReply, sysVars, vars, busVars, daemonVars
<1>9. QED
  BY <1>1, <1>2, <1>3, <1>4, <1>5, <1>7, <1>8 DEF SysNext

-----------------------------------------------------------------------------
SysInv ==
  /\ BusInv /\ SysTypeOK
  /\ ReportsAreTracked /\ OnlyHighAreRecorded /\ LevelIsLastHeard

\* Nothing is reported, recorded or heard at first.
LEMMA SysInvInit == SysInit => SysInv
<1> SUFFICES ASSUME SysInit PROVE SysInv
  OBVIOUS
<1> USE DEF SysInit, Init
<1>1. SysTypeOK
  BY ChangesAssumption DEF SysTypeOK
<1>2. ReportsAreTracked
  BY RepliesDiffer DEF ReportsAreTracked, ReportIsTracked, BitmapOf, Procs
<1>3. OnlyHighAreRecorded /\ LevelIsLastHeard
  BY DEF OnlyHighAreRecorded, LevelIsLastHeard
<1>4. QED
  BY <1>1, <1>2, <1>3, BusInit DEF SysInv

\* Every step of the system keeps its invariant.
LEMMA SysInvStep == SysInv /\ [SysNext]_sysVars => SysInv'
BY BusStep, SysTypeStep, TrackedStep, OnlyHighStep, LevelStep DEF SysInv, BusInv

\* At rest the records of the daemon are the last reports of the live
\* processes, so the level it announced last is what they have reported.
LEMMA LevelAtRest ==
  ASSUME SysInv, Quiescent
  PROVE  Bitmap = Occupied
<1>1. TypeOK /\ RunLevelIsCensus /\ SleepsAnnounced /\ DeadAreForgotten /\ SysTypeOK
  BY DEF SysInv, BusInv
<1>2. inbox = <<>> /\ pc = "waiting" /\ \A h \in HighProcs : rpc[h] # Sent
  BY RepliesDiffer DEF Quiescent, Procs
<1>3. \A h \in HighProcs \ gone : BitmapOf(h) = reported[h]
  BY <1>2 DEF SysInv, ReportsAreTracked, ReportIsTracked
<1>4. DOMAIN ProcBitmap \subseteq HighProcs \ gone
  <2>1. DOMAIN inbox = {}
    BY <1>2, EmptySeq
  <2>2. \A p : ~GoneAfter(p, 0)
    BY <2>1 DEF GoneAfter
  <2>3. QED
    BY <1>1, <2>2 DEF DeadAreForgotten, SysInv, OnlyHighAreRecorded
<1>5. \A k \in Kinds : Running(k) # {} <=> k \in Occupied
  BY <1>3, <1>4 DEF Running, Occupied, BitmapOf
<1>6. Occupied \subseteq Kinds
  BY <1>1 DEF Occupied, SysTypeOK
<1>7. GlobalBitmap = Occupied
  BY <1>1, <1>5, <1>6 DEF RunLevelIsCensus
<1>8. QED
  BY <1>1, <1>2, <1>7 DEF SleepsAnnounced

\* The run level is the census, the dead are forgotten and nothing is left
\* unannounced also with the clients of the composition, whose reports are not
\* paced as Request is.
THEOREM SystemKeepsTheService ==
  SysSpec => [](RunLevelIsCensus /\ SleepsAnnounced /\ DeadAreForgotten)
<1>1. SysInv => RunLevelIsCensus /\ SleepsAnnounced /\ DeadAreForgotten
  BY DEF SysInv, BusInv
<1>2. QED
  BY SysInvInit, SysInvStep, <1>1, PTL DEF SysSpec

\* What the daemon has on record for a live process is its last report, or that
\* report is on its way, and no report is denied.
THEOREM RecordsFollowReports == SysSpec => []RecordFollowsReports
<1>1. ASSUME SysInv PROVE RecordFollowsReports
  <2>1. \A h \in HighProcs \ gone : rpc[h] # Denied
    BY <1>1, RepliesDiffer DEF SysInv, ReportsAreTracked, ReportIsTracked
  <2>2. QED
    BY <1>1, <2>1 DEF SysInv, ReportsAreTracked, ReportIsTracked, RecordFollowsReports
<1>2. QED
  BY SysInvInit, SysInvStep, <1>1, PTL DEF SysSpec

\* Once nothing is on its way, a low-priority process that has read a signal
\* waits for exactly the kinds that live high-priority processes have reported.
THEOREM HeardLevelsAreCurrent == SysSpec => []HeardLevelIsCurrent
<1>1. ASSUME SysInv, Quiescent, NEW l \in heard, l \notin gone
      PROVE  level[l] = Occupied
  <2>1. startup[l] = "up" /\ l \in LowProcs
    BY <1>1 DEF SysInv, LevelIsLastHeard, SysTypeOK
  <2>2. signals[l] = <<>>
    BY <1>1, <2>1 DEF Quiescent
  <2>3. level[l] = Bitmap
    BY <1>1, <2>2 DEF SysInv, LevelIsLastHeard
  <2>4. QED
    BY <1>1, <2>3, LevelAtRest
<1>2. SysInv => HeardLevelIsCurrent
  BY <1>1 DEF HeardLevelIsCurrent
<1>3. QED
  BY SysInvInit, SysInvStep, <1>2, PTL DEF SysSpec
=============================================================================
