---------------------------- MODULE DaemonProofs ----------------------------
(***************************************************************************)
(* What holds of the schedule service for any set of processes and kinds:   *)
(* TypeOK, then RunLevelIsCensus, inductive together with TypeOK.           *)
(***************************************************************************)
EXTENDS Daemon, FiniteSetTheorems, SequenceTheorems, TLAPS

\* One message typed, which is what the handlers assume of the inbox's head.
LEMMA HeadIsMessage ==
  ASSUME TypeOK, inbox # <<>>
  PROVE  /\ Head(inbox) \in Messages
         /\ Tail(inbox) \in Seq(Messages)
BY HeadTailProperties DEF TypeOK

\* The values a call can have are replies.
LEMMA ReplyTypes ==
  /\ Idle \in Replies /\ Sent \in Replies
  /\ Granted \in Replies /\ Denied \in Replies
  /\ \A m \in SUBSET Kinds : Config(m) \in Replies
BY DEF Idle, Sent, Granted, Denied, Config, Replies

\* Recording map for p adds p to the record of the kinds of map, and removes it
\* from that of the others: UpdateProcBitmap's count moves with the census.
LEMMA CensusAfterUpdate ==
  ASSUME TypeOK, RunLevelIsCensus,
         NEW p \in Procs, NEW map \in SUBSET Kinds,
         UpdateProcBitmap(BitmapOf(p), map),
         \A k \in Kinds : Running(k)' = IF k \in map THEN Running(k) \cup {p}
                                                     ELSE Running(k) \ {p}
  PROVE  /\ RunLevelIsCensus'
         /\ CountOfEachTaskKind' \in [Kinds -> Nat]
         /\ GlobalBitmap' \in SUBSET Kinds
<1>1. \A k \in Kinds : IsFiniteSet(Running(k))
  <2>1. IsFiniteSet(Procs)
    BY ProcsAssumption, FS_Union DEF Procs
  <2>2. \A k \in Kinds : Running(k) \in SUBSET Procs
    BY DEF Running, TypeOK
  <2>3. QED
    BY <2>1, <2>2, FS_Subset
<1>2. \A k \in Kinds : p \in Running(k) <=> k \in BitmapOf(p)
  BY DEF Running, BitmapOf
<1>3. ASSUME NEW k \in Kinds
      PROVE  /\ NewCount(k, BitmapOf(p), map) = Cardinality(Running(k)')
             /\ NewCount(k, BitmapOf(p), map) \in Nat
             /\ NewCount(k, BitmapOf(p), map) # 0 <=> Running(k)' # {}
  <2>1. CountOfEachTaskKind[k] = Cardinality(Running(k))
    BY DEF RunLevelIsCensus
  <2>2. Cardinality(Running(k)) \in Nat
    BY <1>1, FS_CardinalityType
  <2>3. /\ IsFiniteSet(Running(k) \cup {p})
        /\ Cardinality(Running(k) \cup {p}) =
             IF p \in Running(k) THEN Cardinality(Running(k))
                                 ELSE Cardinality(Running(k)) + 1
    BY <1>1, FS_AddElement
  <2>4. /\ IsFiniteSet(Running(k) \ {p})
        /\ Cardinality(Running(k) \ {p}) =
             IF p \in Running(k) THEN Cardinality(Running(k)) - 1
                                 ELSE Cardinality(Running(k))
    BY <1>1, FS_RemoveElement
  <2>5. IsFiniteSet(Running(k)')
    BY <2>3, <2>4
  <2>6. /\ Cardinality(Running(k)') \in Nat
        /\ Cardinality(Running(k)') = 0 <=> Running(k)' = {}
    BY <2>5, FS_CardinalityType, FS_EmptySet
  <2>7. NewCount(k, BitmapOf(p), map) = Cardinality(Running(k)')
    <3>1. NewCount(k, BitmapOf(p), map) =
            Cardinality(Running(k)) - (IF p \in Running(k) THEN 1 ELSE 0)
                                    + (IF k \in map THEN 1 ELSE 0)
      BY <1>2, <2>1 DEF NewCount
    <3>2. CASE k \in map
      <4>1. Running(k)' = Running(k) \cup {p}
        BY <3>2
      <4>2. QED
        BY <2>2, <2>3, <3>1, <3>2, <4>1
    <3>3. CASE k \notin map
      <4>1. Running(k)' = Running(k) \ {p}
        BY <3>3
      <4>2. QED
        BY <2>2, <2>4, <3>1, <3>3, <4>1
    <3>4. QED
      BY <3>2, <3>3
  <2>8. QED
    BY <2>6, <2>7
<1>4. /\ \A k \in Kinds : CountOfEachTaskKind'[k] = Cardinality(Running(k)')
      /\ CountOfEachTaskKind' \in [Kinds -> Nat]
  BY <1>3 DEF UpdateProcBitmap
<1>5. GlobalBitmap' = {k \in Kinds : Running(k)' # {}}
  <2>1. GlobalBitmap \ Kinds = {}
    BY DEF TypeOK
  <2>2. QED
    BY <1>3, <2>1 DEF UpdateProcBitmap
<1>6. QED
  BY <1>4, <1>5 DEF RunLevelIsCensus

\* The handlers keep the daemon's tables typed and equal to the census.
LEMMA HandlersKeepCensus ==
  ASSUME TypeOK, RunLevelIsCensus, ProcessMessage
  PROVE  /\ RunLevelIsCensus'
         /\ DOMAIN ProcBitmap' \subseteq Procs
         /\ ProcBitmap' \in [DOMAIN ProcBitmap' -> SUBSET Kinds]
         /\ CountOfEachTaskKind' \in [Kinds -> Nat]
         /\ GlobalBitmap' \in SUBSET Kinds
<1> DEFINE msg == Head(inbox)
<1> HIDE DEF msg
<1>1. msg \in Messages
  BY HeadIsMessage DEF ProcessMessage, msg
<1>2. msg.from \in Procs
  BY <1>1 DEF Messages
<1>3. CASE UNCHANGED taskVars
  BY <1>3 DEF TypeOK, RunLevelIsCensus, Running, taskVars
<1>4. CASE SetHighPrioTaskBitmap(msg) /\ msg.map \subseteq Kinds
  <2>1. /\ UpdateProcBitmap(BitmapOf(msg.from), msg.map)
        /\ ProcBitmap' = [p \in DOMAIN ProcBitmap \cup {msg.from} |->
                            IF p = msg.from THEN msg.map ELSE ProcBitmap[p]]
    BY <1>4 DEF SetHighPrioTaskBitmap, IsValid, Record
  <2>2. \A k \in Kinds : Running(k)' = IF k \in msg.map THEN Running(k) \cup {msg.from}
                                                         ELSE Running(k) \ {msg.from}
    BY <2>1 DEF Running
  <2>3. /\ DOMAIN ProcBitmap' \subseteq Procs
        /\ ProcBitmap' \in [DOMAIN ProcBitmap' -> SUBSET Kinds]
    BY <1>2, <1>4, <2>1 DEF TypeOK
  <2>4. QED
    BY <1>2, <1>4, <2>1, <2>2, <2>3, CensusAfterUpdate
<1>5. CASE NameOwnerChangeWatcher(msg) /\ msg.from \in DOMAIN ProcBitmap
  <2>1. /\ UpdateProcBitmap(BitmapOf(msg.from), {})
        /\ ProcBitmap' = [p \in DOMAIN ProcBitmap \ {msg.from} |-> ProcBitmap[p]]
    BY <1>5 DEF NameOwnerChangeWatcher, IsOnRecord, Forget, BitmapOf
  <2>2. \A k \in Kinds : Running(k)' = IF k \in {} THEN Running(k) \cup {msg.from}
                                                   ELSE Running(k) \ {msg.from}
    BY <2>1 DEF Running
  <2>3. /\ DOMAIN ProcBitmap' \subseteq Procs
        /\ ProcBitmap' \in [DOMAIN ProcBitmap' -> SUBSET Kinds]
    BY <2>1 DEF TypeOK
  <2>4. {} \in SUBSET Kinds
    OBVIOUS
  <2>5. QED
    BY <1>2, <2>1, <2>2, <2>3, <2>4, CensusAfterUpdate
<1>6. QED
  BY <1>3, <1>4, <1>5 DEF ProcessMessage, SetHighPrioTaskBitmap, GetConfig,
                          NameOwnerChangeWatcher, IsValid, IsOnRecord, msg
-----------------------------------------------------------------------------
(* The inductive invariant: the census needs the tables typed, the types of *)
(* the counts and of the run level need the census (a count never goes      *)
(* below zero because it counts).                                           *)

CensusInv == TypeOK /\ RunLevelIsCensus

\* The service starts with empty tables.
LEMMA CensusInit == Init => CensusInv
<1> SUFFICES ASSUME Init PROVE CensusInv
  OBVIOUS
<1>1. TypeOK
  BY ReplyTypes, EmptySeq DEF Init, TypeOK
<1>2. \A k \in Kinds : Running(k) = {}
  BY DEF Init, Running
<1>3. RunLevelIsCensus
  BY <1>2, FS_EmptySet DEF Init, RunLevelIsCensus
<1>4. QED
  BY <1>1, <1>3 DEF CensusInv

\* No action but the handlers touches the tables.
LEMMA CensusStep == CensusInv /\ [Next]_vars => CensusInv'
<1> SUFFICES ASSUME TypeOK, RunLevelIsCensus, [Next]_vars
             PROVE  TypeOK' /\ RunLevelIsCensus'
  BY DEF CensusInv
<1>a. ASSUME UNCHANGED taskVars PROVE RunLevelIsCensus'
  BY <1>a DEF RunLevelIsCensus, Running, taskVars
<1>b. ASSUME NEW p \in Procs, NEW type \in {"set", "config", "gone"},
             NEW map \in SUBSET Bits
      PROVE  Append(inbox, Message(type, p, map)) \in Seq(Messages)
  <2>1. Message(type, p, map) \in Messages
    BY DEF Message, Messages
  <2>2. QED
    BY <2>1, AppendProperties DEF TypeOK
<1>1. CASE CheckTerminate
  BY <1>1, <1>a DEF CheckTerminate, TypeOK, busVars, taskVars
<1>2. CASE ProcessMessage
  <2>1. rpc' \in [Procs -> Replies]
    <3>1. GlobalBitmap \in SUBSET Kinds
      BY DEF TypeOK
    <3>2. QED
      BY <1>2, <3>1, ReplyTypes
      DEF ProcessMessage, SetHighPrioTaskBitmap, GetConfig, NameOwnerChangeWatcher, Reply,
          Verdict, TypeOK
  <2>2. inbox' \in Seq(Messages)
    BY <1>2, HeadIsMessage DEF ProcessMessage
  <2>3. pc' \in {"check", "process", "toWait", "waiting", "exit"}
    BY <1>2 DEF ProcessMessage
  <2>4. UNCHANGED <<signals, subscribed, gone, Bitmap, IsOnTerminate>>
    BY <1>2 DEF ProcessMessage
  <2>5. QED
    BY <1>2, <2>1, <2>2, <2>3, <2>4, HandlersKeepCensus DEF TypeOK
<1>3. CASE AnnounceRunLevel
  <2>1. signals' \in [LowProcs -> Seq(SUBSET Kinds)]
    <3>1. \A l \in LowProcs : Append(signals[l], GlobalBitmap) \in Seq(SUBSET Kinds)
      BY AppendProperties DEF TypeOK
    <3>2. QED
      BY <1>3, <3>1 DEF AnnounceRunLevel, TypeOK
  <2>2. QED
    BY <1>3, <1>a, <2>1 DEF AnnounceRunLevel, TypeOK, taskVars
<1>4. CASE Wait
  BY <1>4, <1>a DEF Wait, TypeOK, busVars, taskVars
<1>5. CASE WakeUp
  BY <1>5, <1>a DEF WakeUp, TypeOK, busVars, taskVars
<1>6. CASE OnTerminate
  BY <1>6, <1>a DEF OnTerminate, TypeOK, busVars, taskVars
<1>7. CASE \E p \in HighProcs, map \in SUBSET Bits : Request(p, map)
  <2>1. PICK p \in HighProcs, map \in SUBSET Bits : Request(p, map)
    BY <1>7
  <2>2. inbox' \in Seq(Messages)
    BY <1>b, <2>1 DEF Request, SendCall, Procs
  <2>3. QED
    BY <1>a, <2>1, <2>2, ReplyTypes
    DEF Request, SendCall, TypeOK, daemonVars, taskVars
<1>8. CASE \E p \in LowProcs : Subscribe(p)
  BY <1>8, <1>a DEF Subscribe, TypeOK, daemonVars, taskVars
<1>9. CASE \E p \in LowProcs : AskConfig(p)
  <2>1. PICK p \in LowProcs : AskConfig(p)
    BY <1>9
  <2>2. inbox' \in Seq(Messages)
    BY <1>b, <2>1 DEF AskConfig, SendCall, Procs
  <2>3. QED
    BY <1>a, <2>1, <2>2, ReplyTypes
    DEF AskConfig, SendCall, TypeOK, daemonVars, taskVars
<1>10. CASE \E p \in Procs : TakeReply(p)
  BY <1>10, <1>a, ReplyTypes DEF TakeReply, TypeOK, daemonVars, taskVars
<1>11. CASE \E p \in LowProcs : TakeSignal(p)
  <2>1. PICK p \in LowProcs : TakeSignal(p)
    BY <1>11
  <2>2. Tail(signals[p]) \in Seq(SUBSET Kinds)
    BY <2>1, HeadTailProperties DEF TakeSignal, TypeOK
  <2>3. QED
    BY <1>a, <2>1, <2>2 DEF TakeSignal, TypeOK, daemonVars, taskVars
<1>12. CASE \E p \in Procs : Disconnect(p)
  <2>1. PICK p \in Procs : Disconnect(p)
    BY <1>12
  <2>2. inbox' \in Seq(Messages)
    BY <1>b, <2>1 DEF Disconnect
  <2>3. signals' \in [LowProcs -> Seq(SUBSET Kinds)]
    BY <2>1, EmptySeq DEF Disconnect, TypeOK
  <2>4. QED
    BY <1>a, <2>1, <2>2, <2>3, ReplyTypes DEF Disconnect, TypeOK, daemonVars, taskVars
<1>13. CASE UNCHANGED vars
  BY <1>13, <1>a DEF TypeOK, vars, busVars, daemonVars, taskVars
<1>14. QED
  BY <1>1, <1>2, <1>3, <1>4, <1>5, <1>6, <1>7, <1>8, <1>9, <1>10, <1>11, <1>12,
     <1>13 DEF Next

\* The daemon's tables are typed in every reachable state: a request with bits
\* outside the mask never gets into them.
THEOREM TypeCorrect == Spec => []TypeOK
<1>1. CensusInv => TypeOK
  BY DEF CensusInv
<1>2. QED
  BY CensusInit, CensusStep, <1>1, PTL DEF Spec

\* The run level is the census of the processes on record, for any number of
\* processes and kinds.
THEOREM RunLevelCorrect == Spec => []RunLevelIsCensus
<1>1. CensusInv => RunLevelIsCensus
  BY DEF CensusInv
<1>2. QED
  BY CensusInit, CensusStep, <1>1, PTL DEF Spec

-----------------------------------------------------------------------------
(* Announcements: the main loop leaves the processing phase only through    *)
(* AnnounceRunLevel, and the run level changes only in that phase.          *)

\* Init and every step keep SleepsAnnounced, given the types.
LEMMA AnnounceStep ==
  TypeOK /\ SleepsAnnounced /\ [Next]_vars => SleepsAnnounced'
<1> SUFFICES ASSUME TypeOK, SleepsAnnounced, [Next]_vars
             PROVE  SleepsAnnounced'
  OBVIOUS
<1> USE DEF SleepsAnnounced
<1>1. CASE CheckTerminate
  BY <1>1 DEF CheckTerminate, busVars, taskVars
<1>2. CASE ProcessMessage
  BY <1>2 DEF ProcessMessage
<1>3. CASE AnnounceRunLevel
  <2>1. ASSUME NEW l \in LowProcs, signals'[l] # <<>>
        PROVE  l \in subscribed' /\ signals'[l][Len(signals'[l])] = Bitmap'
    <3>1. CASE Bitmap # GlobalBitmap /\ l \in subscribed
      <4>1. signals'[l] = Append(signals[l], GlobalBitmap)
        BY <1>3, <3>1 DEF AnnounceRunLevel, RunLevelChanged
      <4>2. signals'[l][Len(signals'[l])] = GlobalBitmap
        BY <4>1, AppendProperties DEF TypeOK
      <4>3. QED
        BY <1>3, <3>1, <4>2 DEF AnnounceRunLevel
    <3>2. CASE ~(Bitmap # GlobalBitmap /\ l \in subscribed)
      <4>1. signals'[l] = signals[l] /\ Bitmap = GlobalBitmap
        BY <1>3, <2>1, <3>2 DEF AnnounceRunLevel, RunLevelChanged
      <4>2. QED
        BY <1>3, <2>1, <4>1 DEF AnnounceRunLevel
    <3>3. QED
      BY <3>1, <3>2
  <2>2. QED
    BY <1>3, <2>1 DEF AnnounceRunLevel, taskVars
<1>4. CASE Wait
  BY <1>4 DEF Wait, busVars, taskVars
<1>5. CASE WakeUp
  BY <1>5 DEF WakeUp, busVars, taskVars
<1>6. CASE OnTerminate
  BY <1>6 DEF OnTerminate, busVars, taskVars
<1>7. CASE \E p \in HighProcs, map \in SUBSET Bits : Request(p, map)
  BY <1>7 DEF Request, daemonVars, taskVars
<1>8. CASE \E p \in LowProcs : Subscribe(p)
  BY <1>8 DEF Subscribe, daemonVars, taskVars
<1>9. CASE \E p \in LowProcs : AskConfig(p)
  BY <1>9 DEF AskConfig, daemonVars, taskVars
<1>10. CASE \E p \in Procs : TakeReply(p)
  BY <1>10 DEF TakeReply, daemonVars, taskVars
<1>11. CASE \E p \in LowProcs : TakeSignal(p)
  <2>1. PICK p \in LowProcs : TakeSignal(p)
    BY <1>11
  <2>2. UNCHANGED <<subscribed, pc, Bitmap, GlobalBitmap>>
    BY <2>1 DEF TakeSignal, daemonVars, taskVars
  <2>3. ASSUME NEW l \in LowProcs, signals'[l] # <<>>
        PROVE  l \in subscribed /\ signals'[l][Len(signals'[l])] = Bitmap
    <3>1. CASE l = p
      <4>1. signals[p] \in Seq(SUBSET Kinds) /\ signals[p] # <<>>
        BY <2>1 DEF TypeOK, TakeSignal
      <4>2. signals'[l] = Tail(signals[p])
        BY <2>1, <3>1 DEF TakeSignal, TypeOK
      <4>3. /\ Tail(signals[p]) \in Seq(SUBSET Kinds)
            /\ Len(Tail(signals[p])) = Len(signals[p]) - 1
            /\ \A i \in 1 .. Len(Tail(signals[p])) :
                 Tail(signals[p])[i] = signals[p][i + 1]
        BY <4>1, HeadTailProperties
      <4>4. Len(Tail(signals[p])) \in 1 .. Len(Tail(signals[p]))
        BY <2>3, <4>2, <4>3, EmptySeq
      <4>5. Tail(signals[p])[Len(Tail(signals[p]))] = signals[p][Len(signals[p])]
        BY <4>1, <4>3, <4>4, LenProperties
      <4>6. QED
        BY <3>1, <4>1, <4>2, <4>5
    <3>2. CASE l # p
      BY <2>1, <2>3, <3>2 DEF TakeSignal, TypeOK
    <3>3. QED
      BY <3>1, <3>2
  <2>4. QED
    BY <2>2, <2>3
<1>12. CASE \E p \in Procs : Disconnect(p)
  BY <1>12 DEF Disconnect, daemonVars, taskVars
<1>13. CASE UNCHANGED vars
  BY <1>13 DEF vars, busVars, daemonVars, taskVars
<1>14. QED
  BY <1>1, <1>2, <1>3, <1>4, <1>5, <1>6, <1>7, <1>8, <1>9, <1>10, <1>11, <1>12,
     <1>13 DEF Next

\* The daemon never waits on the bus with an unannounced level, and what a
\* subscriber reads last is what was announced last.
THEOREM AnnouncementsCorrect == Spec => []SleepsAnnounced
<1>1. Init => SleepsAnnounced
  BY DEF Init, SleepsAnnounced
<1>2. QED
  BY TypeCorrect, AnnounceStep, <1>1, PTL DEF Spec

-----------------------------------------------------------------------------
(* Departures: a dead process's messages are followed by its departure.     *)

\* Queueing a message of a live process, or the departure of one, loses no
\* departure that is still to be read.
LEMMA AppendKeepsDepartures ==
  ASSUME TypeOK, DeadAreForgotten, NEW m \in Messages,
         inbox' = Append(inbox, m), ProcBitmap' = ProcBitmap,
         \/ m.from \notin gone /\ gone' = gone
         \/ m.type = "gone" /\ gone' = gone \cup {m.from}
  PROVE  DeadAreForgotten'
<1>1. /\ inbox \in Seq(Messages) /\ Len(inbox) \in Nat
      /\ DOMAIN inbox = 1 .. Len(inbox)
      /\ DOMAIN inbox' = 1 .. Len(inbox) + 1
      /\ \A i \in DOMAIN inbox : inbox'[i] = inbox[i]
      /\ inbox'[Len(inbox) + 1] = m
  BY AppendProperties, LenProperties DEF TypeOK
<1>2. ASSUME NEW p, NEW i \in Nat, GoneAfter(p, i)
      PROVE  GoneAfter(p, i)'
  BY <1>1, <1>2 DEF GoneAfter
<1>3. ASSUME NEW i \in Nat, i <= Len(inbox), m.type = "gone"
      PROVE  GoneAfter(m.from, i)'
  BY <1>1, <1>3 DEF GoneAfter
<1>4. ASSUME NEW p \in gone'
      PROVE  /\ p \in DOMAIN ProcBitmap' => GoneAfter(p, 0)'
             /\ \A i \in DOMAIN inbox' :
                  inbox'[i].from = p /\ inbox'[i].type # "gone" => GoneAfter(p, i)'
  <2>1. CASE p \in gone
    <3>1. p \in DOMAIN ProcBitmap' => GoneAfter(p, 0)'
      BY <1>2, <2>1 DEF DeadAreForgotten
    <3>2. ASSUME NEW i \in DOMAIN inbox', inbox'[i].from = p, inbox'[i].type # "gone"
          PROVE  GoneAfter(p, i)'
      <4>1. CASE i = Len(inbox) + 1
        BY <1>1, <2>1, <3>2, <4>1
      <4>2. CASE i \in DOMAIN inbox
        <5>1. GoneAfter(p, i)
          BY <1>1, <2>1, <3>2, <4>2 DEF DeadAreForgotten
        <5>2. QED
          BY <1>1, <1>2, <4>2, <5>1
      <4>3. QED
        BY <1>1, <4>1, <4>2
    <3>3. QED
      BY <3>1, <3>2
  <2>2. CASE p \notin gone
    <3>1. p = m.from /\ m.type = "gone"
      BY <1>4, <2>2
    <3>2. QED
      BY <1>1, <1>3, <3>1
  <2>3. QED
    BY <2>1, <2>2
<1>5. QED
  BY <1>4 DEF DeadAreForgotten

\* Reading a message: a departure wipes the record, a request may restore it
\* but then the departure is behind it.
LEMMA ReadKeepsDepartures ==
  ASSUME TypeOK, DeadAreForgotten, ProcessMessage
  PROVE  DeadAreForgotten'
<1> DEFINE msg == Head(inbox)
<1>1. /\ inbox \in Seq(Messages) /\ inbox # <<>> /\ inbox' = Tail(inbox) /\ gone' = gone
      /\ \/ SetHighPrioTaskBitmap(msg)
         \/ GetConfig(msg)
         \/ NameOwnerChangeWatcher(msg)
  BY DEF TypeOK, ProcessMessage
<1>2. /\ Len(inbox) \in Nat \ {0}
      /\ DOMAIN inbox = 1 .. Len(inbox) /\ inbox[1] = msg
      /\ DOMAIN inbox' = 1 .. Len(inbox) - 1
      /\ \A i \in 1 .. Len(inbox) - 1 : inbox'[i] = inbox[i + 1]
  BY <1>1, HeadTailProperties, LenProperties, EmptySeq
<1>3. ASSUME NEW p, NEW i \in Nat, GoneAfter(p, i + 1)
      PROVE  GoneAfter(p, i)'
  <2>1. PICK j \in DOMAIN inbox : j > i + 1 /\ inbox[j].type = "gone" /\ inbox[j].from = p
    BY <1>3 DEF GoneAfter
  <2>2. j - 1 \in DOMAIN inbox' /\ j - 1 > i /\ inbox'[j - 1] = inbox[j]
    BY <1>2, <2>1
  <2>3. QED
    BY <2>1, <2>2 DEF GoneAfter
<1>4. ASSUME NEW p \in gone, p \in DOMAIN ProcBitmap'
      PROVE  GoneAfter(p, 0)'
  <2>1. CASE msg.from = p /\ msg.type # "gone"
    <3>1. GoneAfter(p, 1)
      BY <1>2, <2>1 DEF DeadAreForgotten
    <3>2. QED
      BY <1>3, <3>1
  <2>2. CASE ~(msg.from = p /\ msg.type # "gone")
    <3>1. p \in DOMAIN ProcBitmap /\ ~(msg.from = p /\ msg.type = "gone")
      BY <1>1, <1>4, <2>2
      DEF SetHighPrioTaskBitmap, GetConfig, NameOwnerChangeWatcher, Record, IsOnRecord,
          Forget, taskVars
    <3>2. PICK j \in DOMAIN inbox : j > 0 /\ inbox[j].type = "gone" /\ inbox[j].from = p
      BY <3>1 DEF DeadAreForgotten, GoneAfter
    <3>3. j # 1
      BY <1>2, <3>1, <3>2
    <3>4. GoneAfter(p, 1)
      BY <1>2, <3>2, <3>3 DEF GoneAfter
    <3>5. QED
      BY <1>3, <3>4
  <2>3. QED
    BY <2>1, <2>2
<1>5. ASSUME NEW p \in gone, NEW i \in DOMAIN inbox',
             inbox'[i].from = p, inbox'[i].type # "gone"
      PROVE  GoneAfter(p, i)'
  <2>1. GoneAfter(p, i + 1)
    BY <1>2, <1>5 DEF DeadAreForgotten
  <2>2. QED
    BY <1>2, <1>3, <2>1
<1>6. QED
  BY <1>1, <1>4, <1>5 DEF DeadAreForgotten

\* Every step keeps DeadAreForgotten, given the types.
LEMMA DepartureStep ==
  TypeOK /\ DeadAreForgotten /\ [Next]_vars => DeadAreForgotten'
<1> SUFFICES ASSUME TypeOK, DeadAreForgotten, [Next]_vars
             PROVE  DeadAreForgotten'
  OBVIOUS
<1>a. ASSUME UNCHANGED <<inbox, gone, ProcBitmap>> PROVE DeadAreForgotten'
  BY <1>a DEF DeadAreForgotten, GoneAfter
<1>b. \A p \in Procs, type \in {"set", "config", "gone"}, map \in SUBSET Bits :
        /\ Message(type, p, map) \in Messages
        /\ Message(type, p, map).from = p
        /\ Message(type, p, map).type = type
  BY DEF Message, Messages
<1>1. CASE CheckTerminate \/ AnnounceRunLevel \/ Wait \/ WakeUp \/ OnTerminate
  BY <1>1, <1>a
  DEF CheckTerminate, AnnounceRunLevel, Wait, WakeUp, OnTerminate, busVars, taskVars
<1>2. CASE ProcessMessage
  BY <1>2, ReadKeepsDepartures
<1>3. CASE \E p \in HighProcs, map \in SUBSET Bits : Request(p, map)
  <2>1. PICK p \in HighProcs, map \in SUBSET Bits : Request(p, map)
    BY <1>3
  <2>2. /\ inbox' = Append(inbox, Message("set", p, map)) /\ p \notin gone
        /\ UNCHANGED <<gone, ProcBitmap>>
    BY <2>1 DEF Request, SendCall, daemonVars, taskVars
  <2>3. QED
    BY <1>b, <2>2, AppendKeepsDepartures DEF Procs
<1>4. CASE \E p \in LowProcs : AskConfig(p)
  <2>1. PICK p \in LowProcs : AskConfig(p)
    BY <1>4
  <2>2. /\ inbox' = Append(inbox, Message("config", p, {})) /\ p \notin gone
        /\ UNCHANGED <<gone, ProcBitmap>>
    BY <2>1 DEF AskConfig, SendCall, daemonVars, taskVars
  <2>3. {} \in SUBSET Bits
    OBVIOUS
  <2>4. QED
    BY <1>b, <2>2, <2>3, AppendKeepsDepartures DEF Procs
<1>5. CASE \E p \in Procs : Disconnect(p)
  <2>1. PICK p \in Procs : Disconnect(p)
    BY <1>5
  <2>2. /\ inbox' = Append(inbox, Message("gone", p, {})) /\ gone' = gone \cup {p}
        /\ ProcBitmap' = ProcBitmap
    BY <2>1 DEF Disconnect, daemonVars, taskVars
  <2>3. {} \in SUBSET Bits
    OBVIOUS
  <2>4. QED
    BY <1>b, <2>2, <2>3, AppendKeepsDepartures
<1>6. CASE \/ \E p \in LowProcs : Subscribe(p)
           \/ \E p \in Procs : TakeReply(p)
           \/ \E p \in LowProcs : TakeSignal(p)
  BY <1>6, <1>a DEF Subscribe, TakeReply, TakeSignal, daemonVars, taskVars
<1>7. CASE UNCHANGED vars
  BY <1>7, <1>a DEF vars, busVars, daemonVars, taskVars
<1>8. QED
  BY <1>1, <1>2, <1>3, <1>4, <1>5, <1>6, <1>7 DEF Next

\* A crashed high-priority process is off the record once its departure is read.
THEOREM DeparturesCorrect == Spec => []DeadAreForgotten
<1>1. Init => DeadAreForgotten
  BY DEF Init, DeadAreForgotten
<1>2. QED
  BY TypeCorrect, DepartureStep, <1>1, PTL DEF Spec
=============================================================================
