--------------------------- MODULE Controller_proof ---------------------------
(***************************************************************************)
(* The controller, for any number of topics, brokers, commands, log        *)
(* entries, requests and restarts: what its write-ahead file and snapshot  *)
(* file give back after a crash, what a created topic is worth, and the    *)
(* accounting of the decommissioning slots that removals of brokers use.   *)
(***************************************************************************)
EXTENDS RaftStorage, ControllerMetadata, ScalingManager, SharedLemmas

-------------------------------------------------------------------------------
(* The log storage.                                                        *)

Lines == [index : Nat, cmd : Commands]

\* Line n of the file holds entry i, and no later line replaces it.
HoldsEntry(n, i) ==
    /\ raftWal[n].index = i /\ raftWal[n].cmd = raftLog[i]
    /\ \A m \in 1 .. Len(raftWal) : m > n => raftWal[m].index # i

\* The file has every entry of the log; a node about to start has no last_log_id; and the
\* cache has no other entry than the log at an index they share.
LogStored ==
    /\ raftLog \in Seq(Commands) /\ raftWal \in Seq(Lines)
    /\ manager = "Starting" => lastLog = 0
    /\ \A i \in 1 .. Len(raftLog) : \E n \in 1 .. Len(raftWal) : HoldsEntry(n, i)
    /\ \A i \in 1 .. Len(raftLog) : i \in DOMAIN cache => cache[i] = raftLog[i]

\* load_wal_entries finds the last line of an index.
LEMMA LoadFindsEntry ==
    ASSUME LogStored, NEW i \in 1 .. Len(raftLog)
    PROVE  i \in DOMAIN LoadWal /\ LoadWal[i] = raftLog[i]
<1>1. PICK n \in 1 .. Len(raftWal) : HoldsEntry(n, i)
  BY DEF LogStored
<1>2. DOMAIN raftWal = 1 .. Len(raftWal) /\ Len(raftWal) \in Nat
  BY DEF LogStored
<1> DEFINE L == {m \in DOMAIN raftWal : raftWal[m].index = i}
<1>3. n \in L /\ \A m \in L : m <= n
  BY <1>1, <1>2 DEF HoldsEntry
<1>4. Max(L) \in L /\ \A m \in L : m <= Max(L)
  <2>1. L \subseteq Nat /\ L # {} /\ \A m \in L : m <= Len(raftWal)
    BY <1>2, <1>3
  <2> HIDE DEF L
  <2> QED
    BY <1>2, <2>1, MaxOfBounded
<1>5. Max(L) = n
  <2>1. L \subseteq Nat
    BY <1>2
  <2> DEFINE x == Max(L)
  <2>2. x \in L /\ \A m \in L : m <= x
    BY <1>4
  <2> HIDE DEF x, L
  <2>3. x = n
    BY <1>3, <2>1, <2>2
  <2> QED
    BY <2>3 DEF x
<1>6. i \in {raftWal[m].index : m \in DOMAIN raftWal}
  BY <1>1, <1>2 DEF HoldsEntry
<1>7. LoadWal[i] = raftWal[Max(L)].cmd /\ i \in DOMAIN LoadWal
  BY <1>6 DEF LoadWal
<1> HIDE DEF L
<1> QED
  BY <1>1, <1>5, <1>7 DEF HoldsEntry

\* Every step of a node keeps what its file and its cache say of the log.
LEMMA LogStoredStep ==
    ASSUME LogStored, [RaftNext]_raftVars
    PROVE  LogStored'
<1>0. /\ Len(raftLog) \in Nat /\ Len(raftWal) \in Nat
  BY DEF LogStored
<1>1. ASSUME NEW cmd \in Commands, LogAppend(cmd) PROVE LogStored'
  <2> DEFINE i == Len(raftLog) + 1
             line == [index |-> i, cmd |-> cmd]
  <2>1. /\ raftLog' = Append(raftLog, cmd) /\ raftWal' = Append(raftWal, line)
        /\ cache' = Evict(Put(cache, i, cmd)) /\ lastLog' = i /\ manager' = manager /\ manager = "Running"
    BY <1>1 DEF LogAppend, lifeVars, Running
  <2>2. /\ raftLog' \in Seq(Commands) /\ Len(raftLog') = i /\ raftLog'[i] = cmd
        /\ \A j \in 1 .. Len(raftLog) : raftLog'[j] = raftLog[j]
    BY <2>1 DEF LogStored
  <2>3. /\ raftWal' \in Seq(Lines) /\ Len(raftWal') = Len(raftWal) + 1 /\ raftWal'[Len(raftWal) + 1] = line
        /\ \A j \in 1 .. Len(raftWal) : raftWal'[j] = raftWal[j]
    <3>1. line \in Lines
      BY <1>0 DEF Lines
    <3> HIDE DEF line
    <3> QED
      BY <2>1, <3>1 DEF LogStored
  <2>4. \A j \in 1 .. i : \E n \in 1 .. Len(raftWal') : HoldsEntry(n, j)'
    <3> SUFFICES ASSUME NEW j \in 1 .. i PROVE \E n \in 1 .. Len(raftWal') : HoldsEntry(n, j)'
      OBVIOUS
    <3>1. CASE j = i
      <4>1. PICK last \in Nat : last = Len(raftWal) + 1
        BY <1>0
      <4>2. HoldsEntry(last, j)' /\ last \in 1 .. Len(raftWal')
        BY <1>0, <2>2, <2>3, <3>1, <4>1 DEF HoldsEntry
      <4> QED
        BY <4>2
    <3>2. CASE j # i
      <4>1. j \in 1 .. Len(raftLog)
        BY <1>0, <3>2
      <4>2. PICK n \in 1 .. Len(raftWal) : HoldsEntry(n, j)
        BY <4>1 DEF LogStored
      <4>3. HoldsEntry(n, j)'
        <5>1. raftWal'[n].index = j /\ raftWal'[n].cmd = raftLog'[j]
          BY <2>2, <2>3, <4>1, <4>2 DEF HoldsEntry
        <5>2. ASSUME NEW m \in 1 .. Len(raftWal'), m > n PROVE raftWal'[m].index # j
          <6>1. CASE m = Len(raftWal) + 1
            BY <2>3, <3>2, <6>1
          <6>2. CASE m # Len(raftWal) + 1
            <7>1. m \in 1 .. Len(raftWal)
              BY <1>0, <2>3, <6>2
            <7> QED
              BY <2>3, <4>2, <5>2, <7>1 DEF HoldsEntry
          <6> QED
            BY <6>1, <6>2
        <5> QED
          BY <5>1, <5>2 DEF HoldsEntry
      <4>4. n \in 1 .. Len(raftWal')
        BY <1>0, <2>3
      <4> QED
        BY <4>3, <4>4
    <3> QED
      BY <3>1, <3>2
  <2>5. \A j \in 1 .. i : j \in DOMAIN cache' => cache'[j] = raftLog'[j]
    <3> SUFFICES ASSUME NEW j \in 1 .. i, j \in DOMAIN cache' PROVE cache'[j] = raftLog'[j]
      OBVIOUS
    <3>1. j \in DOMAIN cache \cup {i} /\ cache'[j] = IF j = i THEN cmd ELSE cache[j]
      BY <2>1 DEF Evict, Put
    <3>2. CASE j = i
      BY <2>2, <3>1, <3>2
    <3>3. CASE j # i
      <4>1. j \in 1 .. Len(raftLog)
        BY <1>0, <3>3
      <4> QED
        BY <2>2, <3>1, <3>3, <4>1 DEF LogStored
    <3> QED
      BY <3>2, <3>3
  <2> QED
    BY <2>1, <2>2, <2>3, <2>4, <2>5 DEF LogStored
\* A write that fails leaves at most a line behind that is not of the log.
<1>10. ASSUME NEW cmd \in Commands, LogAppendFails(cmd) PROVE LogStored'
  <2> DEFINE i == Len(raftLog) + 1
             line == [index |-> i, cmd |-> cmd]
  <2>1. /\ raftWal' \in {raftWal, Append(raftWal, line)} /\ manager' = "Broken"
        /\ UNCHANGED <<raftLog, cache, lastLog>>
    BY <1>10 DEF LogAppendFails
  <2>2. CASE raftWal' = raftWal
    BY <2>1, <2>2 DEF LogStored, HoldsEntry
  <2>3. CASE raftWal' = Append(raftWal, line)
    <3>1. /\ raftWal' \in Seq(Lines) /\ Len(raftWal') = Len(raftWal) + 1 /\ raftWal'[Len(raftWal) + 1] = line
          /\ \A j \in 1 .. Len(raftWal) : raftWal'[j] = raftWal[j]
      <4>1. line \in Lines
        BY <1>0 DEF Lines
      <4> HIDE DEF line
      <4> QED
        BY <2>3, <4>1 DEF LogStored
    <3>2. ASSUME NEW j \in 1 .. Len(raftLog) PROVE \E n \in 1 .. Len(raftWal') : HoldsEntry(n, j)'
      <4>1. PICK n \in 1 .. Len(raftWal) : HoldsEntry(n, j)
        BY DEF LogStored
      <4>2. raftWal'[n].index = j /\ raftWal'[n].cmd = raftLog'[j]
        BY <2>1, <3>1, <4>1 DEF HoldsEntry
      <4>3. ASSUME NEW m \in 1 .. Len(raftWal'), m > n PROVE raftWal'[m].index # j
        <5>1. CASE m = Len(raftWal) + 1
          BY <1>0, <3>1, <5>1
        <5>2. CASE m # Len(raftWal) + 1
          <6>1. m \in 1 .. Len(raftWal)
            BY <1>0, <3>1, <5>2
          <6> QED
            BY <3>1, <4>1, <4>3, <6>1 DEF HoldsEntry
        <5> QED
          BY <5>1, <5>2
      <4>4. n \in 1 .. Len(raftWal')
        BY <1>0, <3>1
      <4> QED
        BY <4>2, <4>3, <4>4 DEF HoldsEntry
    <3> QED
      BY <2>1, <3>1, <3>2 DEF LogStored
  <2> QED
    BY <2>1, <2>2, <2>3
\* A log that is cut keeps what it has of the file and of the cache.
<1>2. ASSUME NEW k \in 0 .. Len(raftLog), raftLog' = SubSeq(raftLog, 1, k), raftWal' = raftWal,
             manager' # "Starting",
             \A j \in 1 .. k : j \in DOMAIN cache' => j \in DOMAIN cache /\ cache'[j] = cache[j]
      PROVE LogStored'
  <2>1. /\ raftLog' \in Seq(Commands) /\ Len(raftLog') = k
        /\ \A j \in 1 .. k : raftLog'[j] = raftLog[j] /\ j \in 1 .. Len(raftLog)
    BY <1>0, <1>2 DEF LogStored
  <2>2. ASSUME NEW j \in 1 .. k PROVE \E n \in 1 .. Len(raftWal') : HoldsEntry(n, j)'
    <3>1. PICK n \in 1 .. Len(raftWal) : HoldsEntry(n, j)
      BY <2>1 DEF LogStored
    <3> QED
      BY <1>2, <2>1, <3>1 DEF HoldsEntry
  <2> QED
    BY <1>2, <2>1, <2>2 DEF LogStored
<1>3. ASSUME NEW i \in 1 .. MaxChosen, LogTruncate(i) PROVE LogStored'
  <2>1. i \in 1 .. Len(raftLog) /\ i - 1 \in 0 .. Len(raftLog)
    BY <1>0, <1>3 DEF LogTruncate
  <2>2. /\ raftLog' = SubSeq(raftLog, 1, i - 1) /\ raftWal' = raftWal
        /\ manager' = manager /\ manager = "Running"
        /\ cache' = Below(cache, i)
    BY <1>3 DEF LogTruncate, lifeVars, Running
  <2>3. \A j \in 1 .. i - 1 : j \in DOMAIN cache' => j \in DOMAIN cache /\ cache'[j] = cache[j]
    BY <2>2 DEF Below
  <2> QED
    BY <1>2, <2>1, <2>2, <2>3
<1>4. ASSUME StartNode PROVE LogStored'
  <2>1. /\ raftLog' = SubSeq(raftLog, 1, 0) /\ raftWal' = raftWal /\ cache' = cache /\ manager' = "Running"
    BY <1>4 DEF StartNode, LogStored
  <2>2. 0 \in 0 .. Len(raftLog)
    BY <1>0
  <2> QED
    BY <1>2, <2>1, <2>2
\* Nothing is appended or cut; the cache keeps some entries, or is loaded.
<1>5. ASSUME UNCHANGED <<raftLog, raftWal>>, manager' = "Starting" => lastLog' = 0,
             \A j \in 1 .. Len(raftLog) : j \in DOMAIN cache' => cache'[j] = raftLog[j]
      PROVE LogStored'
  BY <1>5 DEF LogStored, HoldsEntry
<1>6. ASSUME InitializeNode PROVE LogStored'
  <2>1. UNCHANGED <<raftLog, raftWal>> /\ lastLog' = 0 /\ cache' = LoadWal
    BY <1>6 DEF InitializeNode
  <2> HIDE DEF LoadWal
  <2> QED
    BY <1>5, <2>1, LoadFindsEntry
<1>7. ASSUME NEW i \in 1 .. MaxChosen, LogPurge(i) PROVE LogStored'
  <2>1. /\ UNCHANGED <<raftLog, raftWal, lastLog, manager>>
        /\ \A j \in DOMAIN cache' : j \in DOMAIN cache /\ cache'[j] = cache[j]
    BY <1>7 DEF LogPurge, lifeVars
  <2> QED
    BY <1>5, <2>1 DEF LogStored
<1>8. ASSUME UNCHANGED <<raftLog, raftWal, cache, lastLog>>, manager' \in {manager, "Stopped"} PROVE LogStored'
  BY <1>5, <1>8 DEF LogStored
<1>9. \/ \E cmd \in Commands : LogAppend(cmd) \/ LogAppendFails(cmd)
      \/ \E i \in 1 .. MaxChosen : LogTruncate(i) \/ LogPurge(i)
      \/ InitializeNode \/ StartNode
      \/ UNCHANGED <<raftLog, raftWal, cache, lastLog>> /\ manager' \in {manager, "Stopped"}
  BY DEF RaftNext, Choose, ApplyEntry, CopyState, WriteSnapshot, StopNode, raftVars, logVars, lifeVars
<1> QED
  BY <1>1, <1>3, <1>4, <1>6, <1>7, <1>8, <1>9, <1>10

\* The write-ahead file gives back every entry of the log, over truncations, rewrites of
\* an index, purges and restarts (write_to_wal, load_wal_entries).
THEOREM WalKeepsLog == RaftSpec => []WalReplaysLog
<1>1. RaftInit => LogStored
  <2> SUFFICES ASSUME RaftInit PROVE LogStored
    OBVIOUS
  <2>1. raftLog = <<>> /\ raftWal = <<>> /\ manager = "Initializing"
    BY DEF RaftInit
  <2> QED
    BY <2>1 DEF LogStored
<1>2. LogStored /\ [RaftNext]_raftVars => LogStored'
  BY LogStoredStep
<1>3. LogStored => WalReplaysLog
  <2> SUFFICES ASSUME LogStored, NEW i \in DOMAIN raftLog PROVE i \in DOMAIN LoadWal /\ LoadWal[i] = raftLog[i]
    BY DEF WalReplaysLog
  <2>1. i \in 1 .. Len(raftLog)
    BY DEF LogStored
  <2> QED
    BY <2>1, LoadFindsEntry
<1> QED
  BY <1>1, <1>2, <1>3, PTL DEF RaftSpec

-------------------------------------------------------------------------------
(* The state machine and its snapshot file.                                *)

Machines == [topics : SUBSET RaftTopics, brokers : SUBSET RaftBrokers, assigned : SUBSET RaftTopics]
TopicOps == {"CreateTopic", "DeleteTopic"}
BrokerOps == {"AddBroker", "RemoveBroker"}

\* A command decides about the topic or the broker it names and about no other.
LEMMA ApplyFields ==
    ASSUME NEW m \in Machines, NEW cmd \in Commands
    PROVE  /\ apply_app_data(m, cmd) \in Machines
           /\ \A x : x \in apply_app_data(m, cmd).topics <=>
                 \/ cmd.op = "CreateTopic" /\ x = cmd.key
                 \/ x \in m.topics /\ ~ (cmd.op = "DeleteTopic" /\ x = cmd.key)
           /\ \A x : x \in apply_app_data(m, cmd).brokers <=>
                 \/ cmd.op = "AddBroker" /\ x = cmd.key
                 \/ x \in m.brokers /\ ~ (cmd.op = "RemoveBroker" /\ x = cmd.key)
<1>1. \/ cmd.op \in {"CreateTopic", "DeleteTopic", "Assign"} /\ cmd.key \in RaftTopics
      \/ cmd.op \in {"AddBroker", "RemoveBroker"} /\ cmd.key \in RaftBrokers
  BY DEF Commands
<1>2. m.topics \in SUBSET RaftTopics /\ m.brokers \in SUBSET RaftBrokers /\ m.assigned \in SUBSET RaftTopics
  BY DEF Machines
<1>3. CASE cmd.op = "CreateTopic"
  <2>1. apply_app_data(m, cmd) = [m EXCEPT !.topics = m.topics \cup {cmd.key}]
    BY <1>3 DEF apply_app_data
  <2> QED
    BY <1>1, <1>2, <1>3, <2>1 DEF Machines
<1>4. CASE cmd.op = "DeleteTopic"
  <2>1. CASE cmd.key \in m.topics
    <3>1. apply_app_data(m, cmd) = [m EXCEPT !.topics = m.topics \ {cmd.key}, !.assigned = m.assigned \ {cmd.key}]
      BY <1>4, <2>1 DEF apply_app_data
    <3>2. /\ apply_app_data(m, cmd) \in Machines
          /\ apply_app_data(m, cmd).topics = m.topics \ {cmd.key} /\ apply_app_data(m, cmd).brokers = m.brokers
      BY <1>2, <3>1 DEF Machines
    <3> QED
      BY <1>4, <3>2
  <2>2. CASE cmd.key \notin m.topics
    <3>1. apply_app_data(m, cmd) = m
      BY <1>4, <2>2 DEF apply_app_data
    <3> QED
      BY <1>1, <1>2, <1>4, <2>2, <3>1 DEF Machines
  <2> QED
    BY <2>1, <2>2
<1>5. CASE cmd.op = "Assign"
  <2>1. apply_app_data(m, cmd) = [m EXCEPT !.assigned = m.assigned \cup {cmd.key}]
    BY <1>5 DEF apply_app_data
  <2> QED
    BY <1>1, <1>2, <1>5, <2>1 DEF Machines
<1>6. CASE cmd.op = "AddBroker"
  <2>1. apply_app_data(m, cmd) = [m EXCEPT !.brokers = m.brokers \cup {cmd.key}]
    BY <1>6 DEF apply_app_data
  <2> QED
    BY <1>1, <1>2, <1>6, <2>1 DEF Machines
<1>7. CASE cmd.op = "RemoveBroker"
  <2>1. apply_app_data(m, cmd) = [m EXCEPT !.brokers = m.brokers \ {cmd.key}]
    BY <1>7 DEF apply_app_data
  <2> QED
    BY <1>1, <1>2, <1>7, <2>1 DEF Machines
<1> QED
  BY <1>1, <1>3, <1>4, <1>5, <1>6, <1>7

\* The machine that has applied the commands of s to nothing.
Applied(s) == FoldLeft(apply_app_data, EmptyMachine, s)

\* Commands are applied one after the other.
LEMMA ApplyFolds ==
    ASSUME NEW n \in Nat, NEW s \in [1 .. n -> Commands]
    PROVE  \E h : /\ h[0] = EmptyMachine /\ \A i \in 1 .. n : h[i] = apply_app_data(h[i - 1], s[i])
                  /\ Applied(s) = h[n]
<1> DEFINE base == EmptyMachine
           Eq(g) == g = [t \in SUBSET (1 .. n) |->
                           IF t = {} THEN base ELSE apply_app_data(g[t \ {Max(t)}], s[Max(t)])]
           c == CHOOSE g : Eq(g)
           F == [p \in Machines \X Commands |-> apply_app_data(p[1], p[2])]
<1>0. base \in Machines
  BY DEF EmptyMachine, Machines
<1>1. Applied(s) = c[1 .. n]
  BY DEF Applied, FoldLeft, MapThenFoldSet
<1>2. /\ F \in [Machines \X Commands -> Machines]
      /\ \A a \in Machines, v \in Commands : F[<<a, v>>] = apply_app_data(a, v)
  BY ApplyFields
<1> HIDE DEF base
<1>3. PICK g \in [SUBSET (1 .. n) -> Machines] : Folds(g, n, s, base, F)
  <2> HIDE DEF F
  <2> QED
    BY <1>0, <1>2, FoldExists
<1>4. ASSUME NEW t \in SUBSET (1 .. n)
      PROVE  g[t] = IF t = {} THEN base ELSE apply_app_data(g[t \ {Max(t)}], s[Max(t)])
  <2>1. g[t] = IF t = {} THEN base ELSE F[<<g[t \ {Max(t)}], s[Max(t)]>>]
    BY <1>3 DEF Folds
  <2>2. CASE t # {}
    <3>1. Max(t) \in 1 .. n /\ t \ {Max(t)} \in SUBSET (1 .. n)
      BY <2>2, HighestPosition
    <3>2. s[Max(t)] \in Commands /\ g[t \ {Max(t)}] \in Machines
      BY <3>1
    <3> HIDE DEF F
    <3> QED
      BY <1>2, <2>1, <2>2, <3>2
  <2> QED
    BY <2>1, <2>2
<1>5. Eq(g)
  BY <1>4
<1>6. Eq(c)
  <2> HIDE DEF Eq
  <2> QED
    BY <1>5
<1>7. c[{}] = base /\ \A i \in 1 .. n : c[1 .. i] = apply_app_data(c[1 .. i - 1], s[i])
  <2>1. c[{}] = base
    BY <1>6
  <2>2. ASSUME NEW i \in 1 .. n PROVE c[1 .. i] = apply_app_data(c[1 .. i - 1], s[i])
    <3>1. /\ 1 .. i \in SUBSET (1 .. n) /\ 1 .. i # {}
          /\ Max(1 .. i) = i /\ (1 .. i) \ {Max(1 .. i)} = 1 .. i - 1
      BY FoldPrefixes
    <3>2. \A t \in SUBSET (1 .. n) : t # {} => c[t] = apply_app_data(c[t \ {Max(t)}], s[Max(t)])
      BY <1>6
    <3> HIDE DEF c
    <3> QED
      BY <3>1, <3>2, Zenon
  <2> QED
    BY <2>1, <2>2
<1> DEFINE h == [i \in 0 .. n |-> c[1 .. i]]
<1> HIDE DEF c
<1>8. h[0] = base /\ (\A i \in 1 .. n : h[i] = apply_app_data(h[i - 1], s[i])) /\ Applied(s) = h[n]
  <2>1. 1 .. 0 = {}
    OBVIOUS
  <2>2. h[0] = base
    BY <1>7, <2>1
  <2>3. ASSUME NEW i \in 1 .. n PROVE h[i] = apply_app_data(h[i - 1], s[i])
    BY <1>7
  <2>4. h[n] = c[1 .. n]
    OBVIOUS
  <2> QED
    BY <1>1, <2>2, <2>3, <2>4
<1> QED
  BY <1>8 DEF base

\* One command more.
LEMMA AppliedNext ==
    ASSUME NEW n \in Nat \ {0}, NEW s \in [1 .. n -> Commands], NEW r \in [1 .. n - 1 -> Commands],
           \A i \in 1 .. n - 1 : r[i] = s[i]
    PROVE  Applied(s) = apply_app_data(Applied(r), s[n])
<1>1. PICK h : /\ h[0] = EmptyMachine /\ \A i \in 1 .. n : h[i] = apply_app_data(h[i - 1], s[i])
               /\ Applied(s) = h[n]
  BY ApplyFolds, ZenonT(90)
<1>2. PICK g : /\ g[0] = EmptyMachine /\ \A i \in 1 .. n - 1 : g[i] = apply_app_data(g[i - 1], r[i])
               /\ Applied(r) = g[n - 1]
  <2>1. n - 1 \in Nat
    OBVIOUS
  <2> QED
    BY <2>1, ApplyFolds, ZenonT(90)
<1> DEFINE P == [i \in 0 .. n - 1 |-> {h[i]}]
<1>3. g[0] \in P[0]
  BY <1>1, <1>2
<1>4. ASSUME NEW i \in 1 .. n - 1, g[i - 1] \in P[i - 1] PROVE g[i] \in P[i]
  <2>1. g[i - 1] = h[i - 1] /\ r[i] = s[i]
    BY <1>4
  <2>2. g[i] = apply_app_data(g[i - 1], r[i])
    BY <1>2
  <2>3. i \in 1 .. n
    OBVIOUS
  <2>4. h[i] = apply_app_data(h[i - 1], s[i])
    BY <1>1, <2>3
  <2> QED
    BY <2>1, <2>2, <2>4
<1>5. n - 1 \in Nat /\ n - 1 \in 0 .. n - 1 /\ n \in 1 .. n
  OBVIOUS
<1>6. \A i \in 0 .. n - 1 : g[i] \in P[i]
  <2> HIDE DEF P
  <2> QED
    BY <1>3, <1>4, <1>5, PrefixInduction
<1>7. g[n - 1] = h[n - 1]
  BY <1>5, <1>6
<1>8. h[n] = apply_app_data(h[n - 1], s[n])
  BY <1>1, <1>5
<1> QED
  BY <1>1, <1>2, <1>7, <1>8

\* The machine after the first k commands of c; Outcome(k) is that of the chosen ones.
After(c, k) == Applied(SubSeq(c, 1, k))

\* The outcome of the first k commands is that of k - 1 of them and the k-th.
LEMMA AfterSteps ==
    ASSUME NEW c \in Seq(Commands)
    PROVE  /\ After(c, 0) = EmptyMachine
           /\ \A k \in 1 .. Len(c) : After(c, k) = apply_app_data(After(c, k - 1), c[k])
<1>1. \A k : After(c, k) = Applied(SubSeq(c, 1, k))
  BY DEF After
<1>2. After(c, 0) = EmptyMachine
  <2> DEFINE s == SubSeq(c, 1, 0)
  <2>1. s \in [1 .. 0 -> Commands] /\ 0 \in Nat
    OBVIOUS
  <2> HIDE DEF s
  <2>2. \E h : h[0] = EmptyMachine /\ Applied(s) = h[0]
    BY <2>1, ApplyFolds, ZenonT(90)
  <2> QED
    BY <1>1, <2>2 DEF s
<1>3. ASSUME NEW k \in 1 .. Len(c) PROVE After(c, k) = apply_app_data(After(c, k - 1), c[k])
  <2> DEFINE s == SubSeq(c, 1, k)
             r == SubSeq(c, 1, k - 1)
  <2>1. /\ k \in Nat \ {0} /\ s \in [1 .. k -> Commands] /\ r \in [1 .. k - 1 -> Commands]
        /\ s[k] = c[k] /\ \A i \in 1 .. k - 1 : r[i] = s[i]
    <3>1. s \in Seq(Commands) /\ Len(s) = k /\ \A i \in 1 .. k : s[i] = c[i]
      OBVIOUS
    <3>2. r \in Seq(Commands) /\ Len(r) = k - 1 /\ \A i \in 1 .. k - 1 : r[i] = c[i]
      OBVIOUS
    <3> HIDE DEF s, r
    <3> QED
      BY <3>1, <3>2
  <2> HIDE DEF s, r
  <2>2. Applied(s) = apply_app_data(Applied(r), s[k])
    BY <2>1, AppliedNext
  <2> QED
    BY <1>1, <2>1, <2>2 DEF s, r
<1> QED
  BY <1>2, <1>3

\* Commands that come later change nothing about it.
LEMMA AfterPrefix ==
    ASSUME NEW c \in Seq(Commands), NEW cmd \in Commands, NEW k \in 0 .. Len(c)
    PROVE  After(Append(c, cmd), k) = After(c, k)
<1> DEFINE s == SubSeq(c, 1, k)
           r == SubSeq(Append(c, cmd), 1, k)
<1>1. s \in Seq(Commands) /\ Len(s) = k /\ \A i \in 1 .. k : s[i] = c[i]
  OBVIOUS
<1>2. r \in Seq(Commands) /\ Len(r) = k /\ \A i \in 1 .. k : r[i] = c[i]
  OBVIOUS
<1> HIDE DEF s, r
<1>3. s = r
  BY <1>1, <1>2
<1> QED
  BY <1>3 DEF After, s, r

TopicNamed(c, x, k) == \E j \in 1 .. k : c[j].op \in TopicOps /\ c[j].key = x
BrokerNamed(c, x, k) == \E j \in 1 .. k : c[j].op \in BrokerOps /\ c[j].key = x

\* The state holds nothing that the first k commands of c do not name.
KnownBy(c, m, k) ==
    /\ \A x \in m.topics : TopicNamed(c, x, k)
    /\ \A x \in m.brokers : BrokerNamed(c, x, k)

\* What the first j commands name, more of them name as well.
LEMMA KnownGrows ==
    ASSUME NEW c, NEW j \in Nat, NEW k \in Nat, j <= k, NEW m, KnownBy(c, m, j)
    PROVE  KnownBy(c, m, k)
BY DEF KnownBy, TopicNamed, BrokerNamed

\* A further chosen command does not change what those before it name.
LEMMA KnownAppended ==
    ASSUME NEW c \in Seq(Commands), NEW cmd \in Commands, NEW k \in 0 .. Len(c)
    PROVE  /\ \A x : TopicNamed(Append(c, cmd), x, k) <=> TopicNamed(c, x, k)
           /\ \A x : BrokerNamed(Append(c, cmd), x, k) <=> BrokerNamed(c, x, k)
           /\ \A m : KnownBy(c, m, k) => KnownBy(Append(c, cmd), m, k)
<1>1. \A j \in 1 .. k : Append(c, cmd)[j] = c[j]
  OBVIOUS
<1>2. \A x : TopicNamed(Append(c, cmd), x, k) <=> TopicNamed(c, x, k)
  BY <1>1 DEF TopicNamed
<1>3. \A x : BrokerNamed(Append(c, cmd), x, k) <=> BrokerNamed(c, x, k)
  BY <1>1 DEF BrokerNamed
<1> QED
  BY <1>2, <1>3 DEF KnownBy

\* A command that is applied names what it adds.
LEMMA KnownNext ==
    ASSUME NEW c \in Seq(Commands), NEW k \in 1 .. Len(c), NEW m \in Machines, KnownBy(c, m, k - 1)
    PROVE  KnownBy(c, apply_app_data(m, c[k]), k)
<1> DEFINE cmd == c[k]
           new == apply_app_data(m, cmd)
<1>1. cmd \in Commands
  OBVIOUS
<1>2. /\ \A x \in new.topics : (cmd.op = "CreateTopic" /\ x = cmd.key) \/ x \in m.topics
      /\ \A x \in new.brokers : (cmd.op = "AddBroker" /\ x = cmd.key) \/ x \in m.brokers
  <2> HIDE DEF cmd
  <2> QED
    BY <1>1, ApplyFields
<1> HIDE DEF new
<1>3. ASSUME NEW x \in new.topics PROVE TopicNamed(c, x, k)
  BY <1>2, <1>3 DEF KnownBy, TopicNamed, TopicOps
<1>4. ASSUME NEW x \in new.brokers PROVE BrokerNamed(c, x, k)
  BY <1>2, <1>4 DEF KnownBy, BrokerNamed, BrokerOps
<1> QED
  BY <1>3, <1>4 DEF KnownBy, new

\* Every state there is, in memory, on its way to the file or in it, knows only what has
\* been applied at some time; and of what the replay has come past, the machine has what
\* the chosen commands say.
Replaying ==
    /\ chosen \in Seq(Commands)
    /\ machine \in Machines /\ snapshotFile \in Machines /\ copied \subseteq Machines
    /\ lastApplied \in Nat /\ furthest \in Nat /\ lastApplied <= furthest /\ furthest <= Len(chosen)
    /\ \A k \in 0 .. Len(chosen) : After(chosen, k) \in Machines /\ KnownBy(chosen, After(chosen, k), k)
    /\ \A m \in {machine, snapshotFile} \cup copied : KnownBy(chosen, m, furthest)
    /\ \A x : TopicNamed(chosen, x, lastApplied) =>
                 (x \in machine.topics <=> x \in After(chosen, lastApplied).topics)
    /\ \A x : BrokerNamed(chosen, x, lastApplied) =>
                 (x \in machine.brokers <=> x \in After(chosen, lastApplied).brokers)

\* Every step of a node keeps machine, copies and file between two outcomes of the log.
LEMMA ReplayingStep ==
    ASSUME LogStored, Replaying, [RaftNext]_raftVars
    PROVE  Replaying'
<1>0. /\ chosen \in Seq(Commands) /\ Len(chosen) \in Nat /\ lastApplied \in Nat /\ furthest \in Nat
      /\ lastApplied <= furthest /\ furthest <= Len(chosen) /\ lastApplied \in 0 .. Len(chosen)
      /\ furthest \in 0 .. Len(chosen)
  BY DEF Replaying
<1>e. EmptyMachine \in Machines /\ \A c, k : KnownBy(c, EmptyMachine, k)
  BY DEF EmptyMachine, Machines, KnownBy
<1>1. ASSUME NEW cmd \in Commands, Choose(cmd) PROVE Replaying'
  <2> DEFINE c == Append(chosen, cmd)
  <2>1. /\ chosen' = c
        /\ UNCHANGED <<machine, snapshotFile, copied, lastApplied, furthest>>
    BY <1>1 DEF Choose, machineVars
  <2>2. c \in Seq(Commands) /\ Len(c) = Len(chosen) + 1 /\ c[Len(chosen) + 1] = cmd
    BY <1>0
  <2>3. \A k \in 0 .. Len(chosen) : After(c, k) = After(chosen, k)
    BY <1>0, AfterPrefix
  <2>4. /\ \A k \in 0 .. Len(chosen) : \A m : KnownBy(chosen, m, k) => KnownBy(c, m, k)
        /\ \A x : TopicNamed(c, x, lastApplied) <=> TopicNamed(chosen, x, lastApplied)
        /\ \A x : BrokerNamed(c, x, lastApplied) <=> BrokerNamed(chosen, x, lastApplied)
    BY <1>0, KnownAppended
  <2> HIDE DEF c
  <2>5. \A k \in 0 .. Len(chosen) : After(c, k) \in Machines /\ KnownBy(c, After(c, k), k)
    BY <2>3, <2>4 DEF Replaying
  <2>6. After(c, Len(c)) \in Machines /\ KnownBy(c, After(c, Len(c)), Len(c))
    <3>1. Len(c) \in 1 .. Len(c) /\ Len(c) - 1 \in 0 .. Len(chosen) /\ c[Len(c)] \in Commands
      BY <1>0, <2>2
    <3>2. After(c, Len(c)) = apply_app_data(After(c, Len(c) - 1), c[Len(c)])
      BY <2>2, <3>1, AfterSteps
    <3>3. After(c, Len(c) - 1) \in Machines /\ KnownBy(c, After(c, Len(c) - 1), Len(c) - 1)
      BY <2>5, <3>1
    <3>4. apply_app_data(After(c, Len(c) - 1), c[Len(c)]) \in Machines
      BY <3>1, <3>3, ApplyFields
    <3> QED
      BY <2>2, <3>1, <3>2, <3>3, <3>4, KnownNext
  <2>7. \A k \in 0 .. Len(c) : k \in 0 .. Len(chosen) \/ k = Len(c)
    BY <1>0, <2>2
  <2>8. \A k \in 0 .. Len(c) : After(c, k) \in Machines /\ KnownBy(c, After(c, k), k)
    BY <2>5, <2>6, <2>7
  <2>9. \A m \in {machine, snapshotFile} \cup copied : KnownBy(c, m, furthest)
    BY <1>0, <2>4 DEF Replaying
  <2>10. furthest <= Len(c) /\ After(c, lastApplied) = After(chosen, lastApplied)
    BY <1>0, <2>2, <2>3
  <2>11. /\ \A x : TopicNamed(c, x, lastApplied) =>
                 (x \in machine.topics <=> x \in After(c, lastApplied).topics)
         /\ \A x : BrokerNamed(c, x, lastApplied) =>
                 (x \in machine.brokers <=> x \in After(c, lastApplied).brokers)
    BY <2>4, <2>10 DEF Replaying
  <2>12. machine \in Machines /\ snapshotFile \in Machines /\ copied \subseteq Machines
    BY DEF Replaying
  <2> QED
    BY <1>0, <2>1, <2>2, <2>8, <2>9, <2>10, <2>11, <2>12 DEF Replaying
<1>2. ASSUME ApplyEntry PROVE Replaying'
  <2> DEFINE i == lastApplied + 1
             cmd == chosen[i]
             new == apply_app_data(machine, cmd)
             old == After(chosen, lastApplied)
             top == Max({furthest, i})
  <2>1. i \in DOMAIN cache /\ i <= Len(raftLog) /\ i <= Len(chosen) /\ raftLog[i] = chosen[i]
    BY <1>2 DEF ApplyEntry
  <2>2. i \in 1 .. Len(chosen) /\ i \in 1 .. Len(raftLog) /\ i - 1 = lastApplied /\ cmd \in Commands
    <3>1. Len(raftLog) \in Nat
      BY DEF LogStored
    <3> QED
      BY <1>0, <2>1, <3>1
  <2>3. cache[i] = cmd
    BY <2>1, <2>2 DEF LogStored
  <2>4. /\ machine' = new /\ lastApplied' = i /\ furthest' = top
        /\ UNCHANGED <<chosen, copied, snapshotFile>>
    BY <1>2, <2>3 DEF ApplyEntry
  <2>5. top \in Nat /\ i <= top /\ furthest <= top /\ top <= Len(chosen)
    <3> DEFINE S == {furthest, i}
    <3>1. S \subseteq Nat /\ S # {} /\ \A x \in S : x <= Len(chosen)
      BY <1>0, <2>1, <2>2
    <3> HIDE DEF S
    <3>2. Max(S) \in S /\ \A x \in S : x <= Max(S)
      BY <1>0, <3>1, MaxOfBounded
    <3> QED
      BY <3>1, <3>2 DEF S
  <2>6. machine \in Machines /\ old \in Machines /\ snapshotFile \in Machines /\ copied \subseteq Machines
    BY <1>0 DEF Replaying
  <2>7. After(chosen, i) = apply_app_data(old, cmd)
    BY <1>0, <2>2, AfterSteps
  <2> HIDE DEF top
  <2>8. \A m \in {machine, snapshotFile} \cup copied : KnownBy(chosen, m, top)
    BY <1>0, <2>5, KnownGrows DEF Replaying
  <2>9. new \in Machines
    <3> HIDE DEF cmd
    <3> QED
      BY <2>2, <2>6, ApplyFields
  <2>10. KnownBy(chosen, new, top)
    <3> DEFINE F(m) == KnownBy(chosen, m, top)
    <3>1. /\ \A x \in new.topics : (cmd.op = "CreateTopic" /\ x = cmd.key) \/ x \in machine.topics
          /\ \A x \in new.brokers : (cmd.op = "AddBroker" /\ x = cmd.key) \/ x \in machine.brokers
      <4> HIDE DEF cmd
      <4> QED
        BY <2>2, <2>6, ApplyFields
    <3>2. i \in 1 .. top /\ KnownBy(chosen, machine, top)
      BY <1>0, <2>2, <2>5, <2>8
    <3>3. cmd.op \in TopicOps => TopicNamed(chosen, cmd.key, top)
      BY <3>2 DEF TopicNamed
    <3>4. cmd.op \in BrokerOps => BrokerNamed(chosen, cmd.key, top)
      BY <3>2 DEF BrokerNamed
    <3> HIDE DEF new, cmd, i
    <3> QED
      BY <3>1, <3>2, <3>3, <3>4 DEF KnownBy, TopicOps, BrokerOps
  <2>11. ASSUME NEW x, TopicNamed(chosen, x, i)
         PROVE x \in new.topics <=> x \in After(chosen, i).topics
    <3>1. TopicNamed(chosen, x, lastApplied) \/ (cmd.op \in TopicOps /\ cmd.key = x)
      BY <1>0, <2>2, <2>11 DEF TopicNamed
    <3>2. TopicNamed(chosen, x, lastApplied) => (x \in machine.topics <=> x \in old.topics)
      BY DEF Replaying
    <3> HIDE DEF cmd, old, i
    <3>3. x \in new.topics <=> \/ cmd.op = "CreateTopic" /\ x = cmd.key
                               \/ x \in machine.topics /\ ~ (cmd.op = "DeleteTopic" /\ x = cmd.key)
      BY <2>2, <2>6, ApplyFields
    <3>4. x \in apply_app_data(old, cmd).topics <=>
             \/ cmd.op = "CreateTopic" /\ x = cmd.key
             \/ x \in old.topics /\ ~ (cmd.op = "DeleteTopic" /\ x = cmd.key)
      BY <2>2, <2>6, ApplyFields
    <3> HIDE DEF new
    <3> QED
      BY <2>7, <3>1, <3>2, <3>3, <3>4 DEF TopicOps
  <2>12. ASSUME NEW x, BrokerNamed(chosen, x, i)
         PROVE x \in new.brokers <=> x \in After(chosen, i).brokers
    <3>1. BrokerNamed(chosen, x, lastApplied) \/ (cmd.op \in BrokerOps /\ cmd.key = x)
      BY <1>0, <2>2, <2>12 DEF BrokerNamed
    <3>2. BrokerNamed(chosen, x, lastApplied) => (x \in machine.brokers <=> x \in old.brokers)
      BY DEF Replaying
    <3> HIDE DEF cmd, old, i
    <3>3. x \in new.brokers <=> \/ cmd.op = "AddBroker" /\ x = cmd.key
                                \/ x \in machine.brokers /\ ~ (cmd.op = "RemoveBroker" /\ x = cmd.key)
      BY <2>2, <2>6, ApplyFields
    <3>4. x \in apply_app_data(old, cmd).brokers <=>
             \/ cmd.op = "AddBroker" /\ x = cmd.key
             \/ x \in old.brokers /\ ~ (cmd.op = "RemoveBroker" /\ x = cmd.key)
      BY <2>2, <2>6, ApplyFields
    <3> HIDE DEF new
    <3> QED
      BY <2>7, <3>1, <3>2, <3>3, <3>4 DEF BrokerOps
  <2>13. \A k \in 0 .. Len(chosen) : After(chosen, k) \in Machines /\ KnownBy(chosen, After(chosen, k), k)
    BY DEF Replaying
  <2>14. i \in Nat
    BY <1>0
  <2> HIDE DEF i, new, cmd, old
  <2> QED
    BY <1>0, <2>4, <2>5, <2>6, <2>8, <2>9, <2>10, <2>11, <2>12, <2>13, <2>14 DEF Replaying
<1>3. ASSUME CopyState PROVE Replaying'
  <2>1. copied' = copied \cup {machine} /\ UNCHANGED <<chosen, machine, snapshotFile, lastApplied, furthest>>
    BY <1>3 DEF CopyState
  <2> QED
    BY <2>1 DEF Replaying
<1>4. ASSUME NEW m \in copied, WriteSnapshot(m) PROVE Replaying'
  <2>1. /\ copied' \subseteq copied /\ snapshotFile' \in {m, EmptyMachine}
        /\ UNCHANGED <<chosen, machine, lastApplied, furthest>>
    BY <1>4 DEF WriteSnapshot
  <2> QED
    BY <1>e, <2>1 DEF Replaying
<1>5. ASSUME InitializeNode PROVE Replaying'
  <2>1. machine' = snapshotFile /\ lastApplied' = 0 /\ UNCHANGED <<chosen, copied, snapshotFile, furthest>>
    BY <1>5 DEF InitializeNode
  <2>2. \A x : ~TopicNamed(chosen, x, 0) /\ ~BrokerNamed(chosen, x, 0)
    BY DEF TopicNamed, BrokerNamed
  <2> QED
    BY <1>0, <2>1, <2>2 DEF Replaying
<1>6. ASSUME UNCHANGED <<chosen, machine, snapshotFile, lastApplied, furthest>>, copied' \subseteq copied \cup {machine}
      PROVE Replaying'
  BY <1>6 DEF Replaying
<1>7. \/ \E cmd \in Commands : Choose(cmd)
      \/ ApplyEntry \/ CopyState \/ (\E m \in copied : WriteSnapshot(m)) \/ InitializeNode
      \/ UNCHANGED <<chosen, machine, snapshotFile, lastApplied, furthest>> /\ copied' \subseteq copied \cup {machine}
  BY DEF RaftNext, LogAppend, LogAppendFails, LogTruncate, LogPurge, StartNode, StopNode, raftVars, machineVars, lifeVars
<1> QED
  BY <1>1, <1>2, <1>3, <1>4, <1>5, <1>6, <1>7

\* A node that has replayed its log as far as it ever had knows exactly the topics and
\* brokers that the chosen commands leave, whatever it loaded and however often it was
\* stopped half-way (load_snapshot, apply, save_snapshot).
THEOREM ReplayReachesOutcome == RaftSpec => []ReplayConverges
<1>1. RaftInit => LogStored /\ Replaying
  <2> SUFFICES ASSUME RaftInit PROVE LogStored /\ Replaying
    OBVIOUS
  <2>1. raftLog = <<>> /\ raftWal = <<>> /\ manager = "Initializing"
    BY DEF RaftInit
  <2>2. LogStored
    BY <2>1 DEF LogStored
  <2>3. /\ chosen = <<>> /\ machine = EmptyMachine /\ snapshotFile = EmptyMachine /\ copied = {}
        /\ lastApplied = 0 /\ furthest = 0
    BY DEF RaftInit
  <2>4. EmptyMachine \in Machines /\ \A c, k : KnownBy(c, EmptyMachine, k)
    BY DEF EmptyMachine, Machines, KnownBy
  <2>5. \A x : ~TopicNamed(chosen, x, 0) /\ ~BrokerNamed(chosen, x, 0)
    BY DEF TopicNamed, BrokerNamed
  <2>6. chosen \in Seq(Commands) /\ Len(chosen) = 0 /\ \A k \in 0 .. 0 : k = 0
    BY <2>3
  <2>7. After(chosen, 0) = EmptyMachine
    BY <2>6, AfterSteps
  <2> QED
    BY <2>2, <2>3, <2>4, <2>5, <2>6, <2>7 DEF Replaying
<1>2. LogStored /\ Replaying /\ [RaftNext]_raftVars => (LogStored /\ Replaying)'
  BY LogStoredStep, ReplayingStep
<1>3. Replaying => ReplayConverges
  <2> SUFFICES ASSUME Replaying, lastApplied >= furthest
               PROVE  /\ machine.topics = After(chosen, lastApplied).topics
                      /\ machine.brokers = After(chosen, lastApplied).brokers
    BY DEF ReplayConverges, Outcome, After, Applied
  <2>1. lastApplied = furthest /\ lastApplied \in 0 .. Len(chosen)
    BY DEF Replaying
  <2>2. /\ KnownBy(chosen, machine, lastApplied)
        /\ KnownBy(chosen, After(chosen, lastApplied), lastApplied)
    BY <2>1 DEF Replaying
  <2> QED
    BY <2>2 DEF Replaying, KnownBy
<1> QED
  BY <1>1, <1>2, <1>3, PTL DEF RaftSpec

-------------------------------------------------------------------------------
(* The metadata.                                                           *)

TopicRecords == [partitions : Nat, replication : Nat \ {0}]
Registered == [pc : {"registered"}, topic : TopicNames, left : Nat, rf : Nat \ {0}]

\* A call past ListBrokers: the brokers it listed are different and enough.
IsAssigning(call) ==
    /\ call.pc = "assigning" /\ call.topic \in TopicNames /\ call.of \in Nat /\ call.next \in 0 .. call.of
    /\ call.rf \in Nat \ {0}
    /\ call = [pc |-> "assigning", topic |-> call.topic, next |-> call.next, of |-> call.of, rf |-> call.rf,
               brokers |-> call.brokers, weighted |-> call.weighted]
    /\ \E n \in Nat : /\ call.rf <= n /\ Len(call.brokers) = n /\ DOMAIN call.brokers = 1 .. n
                      /\ IsInjective(call.brokers)

MetadataTypeOK ==
    /\ topics \in [DOMAIN topics -> TopicRecords] /\ IsFiniteSet(nodes)
    /\ assignments = [x \in DOMAIN assignments |-> assignments[x]] /\ DOMAIN assignments \subseteq TopicNames \X Nat
    /\ creating = [c \in Creators |-> creating[c]]
    /\ \A c \in Creators : creating[c] = NotCreating \/ creating[c] \in Registered \/ IsAssigning(creating[c])

\* Call c is about topic t.
On(c, t) == creating[c].pc # "idle" /\ creating[c].topic = t

\* Partitions 0 .. k - 1 of topic t are assigned, and no other, to rf brokers each.
AssignedUpTo(t, k, rf) ==
    /\ \A x \in DOMAIN assignments : x[1] = t => x[2] \in 0 .. k - 1
    /\ \A p \in 0 .. k - 1 :
          /\ <<t, p>> \in DOMAIN assignments
          /\ DOMAIN assignments[<<t, p>>] = 1 .. rf /\ IsInjective(assignments[<<t, p>>])

\* What a call that is about t has done.
CallAssigned(c, t) ==
    /\ t \in DOMAIN topics /\ t \notin confirmed
    /\ creating[c].rf = topics[t].replication
    /\ creating[c].pc = "registered" => /\ creating[c].left = topics[t].partitions
                                        /\ AssignedUpTo(t, 0, topics[t].replication)
    /\ creating[c].pc = "assigning" => /\ creating[c].of = topics[t].partitions
                                       /\ AssignedUpTo(t, creating[c].next, topics[t].replication)

\* A topic that was not deleted under a call has one call at most, and its assignments
\* are what that call or the one before has made.
TopicInv(t) ==
    /\ \A c, d \in Creators : On(c, t) /\ On(d, t) => c = d
    /\ \A c \in Creators : On(c, t) => CallAssigned(c, t)
    /\ t \notin DOMAIN topics => t \notin confirmed /\ \A x \in DOMAIN assignments : x[1] # t
    /\ t \in confirmed => AssignedUpTo(t, topics[t].partitions, topics[t].replication)

MetadataInv == MetadataTypeOK /\ confirmed \subseteq TopicNames /\ \A t \in TopicNames \ raced : TopicInv(t)

\* A controller starts without topics, calls and assignments.
LEMMA MetadataInitOK == MetadataInit => MetadataInv
<1> SUFFICES ASSUME MetadataInit PROVE MetadataInv
  OBVIOUS
<1>1. /\ DOMAIN topics = {} /\ topics = <<>> /\ nodes = {} /\ DOMAIN assignments = {} /\ assignments = <<>> /\ confirmed = {}
      /\ creating = [c \in Creators |-> NotCreating]
  BY DEF MetadataInit
<1>2. \A c \in Creators : creating[c] = NotCreating /\ creating[c].pc = "idle"
  BY <1>1 DEF NotCreating
<1>3. MetadataTypeOK
  <2>1. IsFiniteSet(nodes)
    BY <1>1, FS_EmptySet
  <2>2. topics \in [DOMAIN topics -> TopicRecords] /\ assignments = [x \in DOMAIN assignments |-> assignments[x]]
    BY <1>1
  <2>3. creating = [c \in Creators |-> creating[c]]
    BY <1>1
  <2> QED
    BY <1>1, <1>2, <2>1, <2>2, <2>3 DEF MetadataTypeOK
<1> QED
  BY <1>1, <1>2, <1>3 DEF MetadataInv, TopicInv, On

\* What keeps a topic as it is.
TopicSame(t) ==
    /\ \A c \in Creators : On(c, t)' <=> On(c, t)
    /\ \A c \in Creators : On(c, t) => creating'[c] = creating[c]
    /\ t \in DOMAIN topics' <=> t \in DOMAIN topics
    /\ t \in DOMAIN topics => topics'[t] = topics[t]
    /\ t \in confirmed' <=> t \in confirmed
    /\ \A x : x[1] = t => (x \in DOMAIN assignments' <=> x \in DOMAIN assignments)
    /\ \A x \in DOMAIN assignments : x[1] = t => assignments'[x] = assignments[x]

\* What a call has assigned stays assigned while nothing touches its topic.
LEMMA AssignedKept ==
    ASSUME NEW t, TopicSame(t), NEW k, NEW rf, AssignedUpTo(t, k, rf)
    PROVE  AssignedUpTo(t, k, rf)'
<1>1. \A x \in DOMAIN assignments' : x[1] = t => x[2] \in 0 .. k - 1
  BY DEF TopicSame, AssignedUpTo
<1>2. ASSUME NEW p \in 0 .. k - 1
      PROVE  /\ <<t, p>> \in DOMAIN assignments'
             /\ DOMAIN assignments'[<<t, p>>] = 1 .. rf /\ IsInjective(assignments'[<<t, p>>])
  <2>1. /\ <<t, p>> \in DOMAIN assignments /\ <<t, p>>[1] = t
        /\ DOMAIN assignments[<<t, p>>] = 1 .. rf /\ IsInjective(assignments[<<t, p>>])
    BY DEF AssignedUpTo
  <2>2. <<t, p>> \in DOMAIN assignments' /\ assignments'[<<t, p>>] = assignments[<<t, p>>]
    BY <2>1 DEF TopicSame
  <2> QED
    BY <2>1, <2>2
<1> QED
  BY <1>1, <1>2 DEF AssignedUpTo

\* What the invariant says of a topic survives a step that does not touch it.
LEMMA TopicKept ==
    ASSUME NEW t, TopicInv(t), TopicSame(t)
    PROVE  TopicInv(t)'
<1>1. \A c, d \in Creators : On(c, t)' /\ On(d, t)' => c = d
  BY DEF TopicInv, TopicSame
<1>2. ASSUME NEW c \in Creators, On(c, t)' PROVE CallAssigned(c, t)'
  <2>1. On(c, t) /\ creating'[c] = creating[c]
    BY <1>2 DEF TopicSame
  <2>2. CallAssigned(c, t)
    BY <2>1 DEF TopicInv
  <2>3. t \in DOMAIN topics' /\ topics'[t] = topics[t] /\ t \notin confirmed'
    BY <2>2 DEF CallAssigned, TopicSame
  <2>4. PICK k, rf : k = creating[c].next /\ rf = topics[t].replication
    OBVIOUS
  <2>5. creating[c].pc = "registered" => AssignedUpTo(t, 0, rf)'
    BY <2>2, <2>4, AssignedKept DEF CallAssigned
  <2>6. creating[c].pc = "assigning" => AssignedUpTo(t, k, rf)'
    BY <2>2, <2>4, AssignedKept DEF CallAssigned
  <2>7. k = creating'[c].next /\ rf = topics'[t].replication
    BY <2>1, <2>3, <2>4
  <2> QED
    BY <2>1, <2>2, <2>3, <2>5, <2>6, <2>7 DEF CallAssigned, AssignedUpTo
<1>3. t \notin DOMAIN topics' => t \notin confirmed' /\ \A x \in DOMAIN assignments' : x[1] # t
  BY DEF TopicInv, TopicSame
<1>4. ASSUME t \in confirmed' PROVE AssignedUpTo(t, topics[t].partitions, topics[t].replication)'
  <2>1. t \in confirmed /\ t \in DOMAIN topics /\ topics'[t] = topics[t]
    BY <1>4 DEF TopicInv, TopicSame
  <2>2. PICK k, rf : k = topics[t].partitions /\ rf = topics[t].replication
    OBVIOUS
  <2>3. AssignedUpTo(t, k, rf)'
    BY <2>1, <2>2, AssignedKept DEF TopicInv
  <2>4. k = topics'[t].partitions /\ rf = topics'[t].replication
    BY <2>1, <2>2
  <2> QED
    BY <2>3, <2>4 DEF AssignedUpTo
<1> QED
  BY <1>1, <1>2, <1>3, <1>4 DEF TopicInv

\* Elections, brokers and scores.
LEMMA OthersKeep ==
    ASSUME MetadataInv, UNCHANGED <<topics, assignments, creating, confirmed, raced>>, IsFiniteSet(nodes')
    PROVE  MetadataInv'
<1>1. MetadataTypeOK'
  BY DEF MetadataInv, MetadataTypeOK, IsAssigning
<1>2. ASSUME NEW t \in TopicNames \ raced PROVE TopicInv(t)'
  <2>1. TopicSame(t)
    BY DEF TopicSame, On
  <2> QED
    BY <2>1, TopicKept DEF MetadataInv
<1> QED
  BY <1>1, <1>2 DEF MetadataInv

\* create_topic enters a topic that has no assignments, or starts nothing.
LEMMA CreateKeeps ==
    ASSUME MetadataInv, NEW c \in Creators, NEW t \in TopicNames, NEW n \in PartitionCounts, NEW rf \in ReplicationFactors,
           CreateTopic(c, t, n, rf)
    PROVE  MetadataInv'
<1> DEFINE call == [pc |-> "registered", topic |-> t, left |-> n, rf |-> rf]
           rec == [partitions |-> n, replication |-> rf]
<1>1. /\ creating[c] = NotCreating /\ t \notin DOMAIN topics /\ n \in Nat /\ rf \in Nat \ {0}
      /\ topics' = [x \in DOMAIN topics \cup {t} |-> IF x = t THEN rec ELSE topics[x]]
      /\ creating' = [creating EXCEPT ![c] = call]
      /\ UNCHANGED <<nodes, assignments, confirmed, raced>>
  BY MetadataConstants DEF CreateTopic
<1>2. /\ call \in Registered /\ call.pc = "registered" /\ call.topic = t /\ call.left = n /\ call.rf = rf
      /\ rec \in TopicRecords /\ rec.partitions = n /\ rec.replication = rf
      /\ NotCreating.pc = "idle"
  BY <1>1 DEF Registered, TopicRecords, NotCreating
<1> HIDE DEF call, rec
<1>3. /\ creating'[c] = call /\ \A d \in Creators \ {c} : creating'[d] = creating[d]
      /\ creating' = [d \in Creators |-> creating'[d]]
  BY <1>1 DEF MetadataInv, MetadataTypeOK
<1>4. topics' \in [DOMAIN topics' -> TopicRecords] /\ DOMAIN topics' = DOMAIN topics \cup {t} /\ topics'[t] = rec
      /\ \A x \in DOMAIN topics : topics'[x] = topics[x]
  BY <1>1, <1>2 DEF MetadataInv, MetadataTypeOK
<1>5. MetadataTypeOK'
  <2>1. \A d \in Creators : creating'[d] = NotCreating \/ creating'[d] \in Registered \/ IsAssigning(creating'[d])
    BY <1>2, <1>3 DEF MetadataInv, MetadataTypeOK
  <2> QED
    BY <1>1, <1>3, <1>4, <2>1 DEF MetadataInv, MetadataTypeOK
<1>6. ASSUME NEW u \in TopicNames \ raced, u # t PROVE TopicInv(u)'
  <2>1. \A d \in Creators : (On(d, u)' <=> On(d, u)) /\ (On(d, u) => creating'[d] = creating[d])
    BY <1>1, <1>2, <1>3, <1>6 DEF On
  <2>2. TopicSame(u)
    BY <1>1, <1>4, <1>6, <2>1 DEF TopicSame
  <2> QED
    BY <2>2, TopicKept DEF MetadataInv
<1>7. ASSUME t \notin raced PROVE TopicInv(t)'
  <2>1. /\ \A d \in Creators : ~ On(d, t)
        /\ t \notin confirmed /\ \A x \in DOMAIN assignments : x[1] # t
    BY <1>1, <1>7 DEF MetadataInv, TopicInv, CallAssigned
  <2>2. \A d \in Creators : On(d, t)' => d = c
    BY <1>3, <2>1 DEF On
  <2>3. AssignedUpTo(t, 0, rf)'
    <3>1. \A p \in 0 .. 0 - 1 : FALSE
      OBVIOUS
    <3> QED
      BY <1>1, <2>1, <3>1 DEF AssignedUpTo
  <2>4. CallAssigned(c, t)'
    BY <1>1, <1>2, <1>3, <1>4, <2>1, <2>3 DEF CallAssigned, AssignedUpTo
  <2> QED
    BY <1>1, <1>4, <2>1, <2>2, <2>4 DEF TopicInv
<1> QED
  BY <1>1, <1>5, <1>6, <1>7 DEF MetadataInv

\* create_topic picks different brokers, or gives up.
LEMMA ListKeeps ==
    ASSUME MetadataInv, NEW c \in Creators, ListBrokers(c)
    PROVE  MetadataInv'
<1> DEFINE t == creating[c].topic
           n == Cardinality(nodes)
<1>1. creating[c] \in Registered /\ NotCreating.pc = "idle"
  BY DEF ListBrokers, MetadataInv, MetadataTypeOK, NotCreating, IsAssigning
<1>2. /\ creating[c].pc = "registered" /\ t \in TopicNames /\ creating[c].left \in Nat /\ creating[c].rf \in Nat \ {0}
      /\ n \in Nat /\ UNCHANGED <<topics, nodes, assignments, confirmed, raced>>
  BY <1>1, FS_CardinalityType DEF Registered, ListBrokers, MetadataInv, MetadataTypeOK
<1>3. PICK call : /\ creating' = [creating EXCEPT ![c] = call]
                  /\ \/ call = NotCreating
                     \/ /\ IsAssigning(call) /\ call.topic = t /\ call.next = 0 /\ call.of = creating[c].left
                        /\ call.rf = creating[c].rf
  <2>1. CASE n < creating[c].rf
    BY <2>1 DEF ListBrokers
  <2>2. CASE ~ (n < creating[c].rf)
    <3>1. PICK listed \in SetToSeqs(nodes) : creating' = [creating EXCEPT ![c] =
              [pc |-> "assigning", topic |-> t, next |-> 0, of |-> creating[c].left, rf |-> creating[c].rf,
               brokers |-> listed, weighted |-> scored]]
      BY <2>2 DEF ListBrokers
    <3>2. listed \in [1 .. n -> nodes] /\ \A i, j \in 1 .. n : i # j => listed[i] # listed[j]
      BY DEF SetToSeqs
    <3>3. DOMAIN listed = 1 .. n /\ Len(listed) = n /\ IsInjective(listed)
      BY <1>2, <3>2 DEF IsInjective
    <3> DEFINE call == [pc |-> "assigning", topic |-> t, next |-> 0, of |-> creating[c].left, rf |-> creating[c].rf,
                        brokers |-> listed, weighted |-> scored]
    <3>4. /\ call.pc = "assigning" /\ call.topic = t /\ call.next = 0 /\ call.of = creating[c].left /\ call.rf = creating[c].rf
          /\ call.brokers = listed /\ call.weighted = scored
      OBVIOUS
    <3>5. call = [pc |-> "assigning", topic |-> call.topic, next |-> call.next, of |-> call.of, rf |-> call.rf,
                  brokers |-> call.brokers, weighted |-> call.weighted]
      BY <3>4
    <3>6. creating' = [creating EXCEPT ![c] = call]
      BY <3>1
    <3> HIDE DEF call
    <3>7. 0 \in 0 .. creating[c].left /\ creating[c].rf <= n
      BY <1>2, <2>2
    <3>8. IsAssigning(call)
      BY <1>2, <3>3, <3>4, <3>5, <3>7 DEF IsAssigning
    <3> QED
      BY <3>4, <3>6, <3>8
  <2> QED
    BY <2>1, <2>2
<1>4. /\ creating'[c] = call /\ \A d \in Creators \ {c} : creating'[d] = creating[d]
      /\ creating' = [d \in Creators |-> creating'[d]]
  BY <1>3 DEF MetadataInv, MetadataTypeOK
<1>5. MetadataTypeOK'
  <2>1. \A d \in Creators : creating'[d] = NotCreating \/ creating'[d] \in Registered \/ IsAssigning(creating'[d])
    BY <1>3, <1>4 DEF MetadataInv, MetadataTypeOK
  <2> QED
    BY <1>2, <1>4, <2>1 DEF MetadataInv, MetadataTypeOK
<1>6. call.pc # "idle" => call.topic = t /\ call.pc = "assigning"
  BY <1>1, <1>3 DEF IsAssigning
<1>7. ASSUME NEW u \in TopicNames \ raced, u # t PROVE TopicInv(u)'
  <2>1. \A d \in Creators : (On(d, u)' <=> On(d, u)) /\ (On(d, u) => creating'[d] = creating[d])
    BY <1>4, <1>6, <1>7 DEF On
  <2>2. TopicSame(u)
    BY <1>2, <2>1 DEF TopicSame
  <2> QED
    BY <2>2, TopicKept DEF MetadataInv
<1>8. ASSUME t \notin raced PROVE \A u : u = t => TopicInv(u)'
  <2> SUFFICES ASSUME NEW u, u = t PROVE TopicInv(u)'
    OBVIOUS
  <2>1. On(c, u) /\ TopicInv(u)
    BY <1>2, <1>8 DEF On, MetadataInv
  <2>2. CallAssigned(c, u) /\ \A d \in Creators : On(d, u) => d = c
    BY <2>1 DEF TopicInv
  <2>3. \A d \in Creators : On(d, u)' => d = c
    BY <1>4, <2>2 DEF On
  <2>4. /\ u \in DOMAIN topics' /\ u \notin confirmed' /\ topics' = topics
        /\ creating[c].rf = topics[u].replication /\ creating[c].left = topics[u].partitions
        /\ AssignedUpTo(u, 0, topics[u].replication)
    BY <1>2, <2>2 DEF CallAssigned
  <2>5. AssignedUpTo(u, 0, topics[u].replication)'
    BY <1>2, <2>4 DEF AssignedUpTo
  <2>6. On(c, u)' => CallAssigned(c, u)'
    <3> SUFFICES ASSUME call.pc # "idle" PROVE CallAssigned(c, u)'
      BY <1>4 DEF On
    <3>1. call.pc = "assigning" /\ call.next = 0 /\ call.of = creating[c].left /\ call.rf = creating[c].rf
      BY <1>1, <1>3, <1>6
    <3> QED
      BY <1>4, <2>4, <2>5, <3>1 DEF CallAssigned
  <2> QED
    BY <2>3, <2>4, <2>6 DEF TopicInv
<1> QED
  BY <1>2, <1>5, <1>7, <1>8 DEF MetadataInv

\* Round the list no broker is met twice.
LEMMA RoundInjective ==
    ASSUME NEW n \in Nat, NEW start \in Nat, NEW i \in 1 .. n, NEW j \in 1 .. n,
           (start + i - 1) % n = (start + j - 1) % n
    PROVE  i = j
<1> DEFINE a == start + i - 1
           b == start + j - 1
<1>1. a \in Nat /\ b \in Nat /\ n \in Nat \ {0}
  OBVIOUS
<1>2. a % n \in 0 .. n - 1 /\ a \div n \in Nat /\ a = n * (a \div n) + (a % n)
  BY <1>1, Quotient
<1>3. b % n \in 0 .. n - 1 /\ b \div n \in Nat /\ b = n * (b \div n) + (b % n)
  BY <1>1, Quotient
<1>4. a % n = b % n /\ a - b = i - j /\ i - j < n /\ j - i < n
  OBVIOUS
<1>a. PICK p \in Nat : p = a \div n
  BY <1>2
<1>b. PICK q \in Nat : q = b \div n
  BY <1>3
<1>c. PICK r \in Nat : r = a % n
  BY <1>1, <1>2
<1>5. a = n * p + r /\ b = n * q + r
  BY <1>2, <1>3, <1>4, <1>a, <1>b, <1>c
<1> HIDE DEF a, b
<1>6. CASE p = q
  BY <1>1, <1>4, <1>5, <1>6
<1>7. CASE p < q
  <2>1. PICK d \in Nat : q = p + 1 + d
    BY <1>7
  <2>2. n * q = n * p + n + n * d
    BY <2>1, Z3
  <2>3. n * d \in Nat /\ n * p \in Nat /\ n * q \in Nat
    BY Z3
  <2> QED
    BY <1>1, <1>4, <1>5, <2>2, <2>3
<1>8. CASE q < p
  <2>1. PICK d \in Nat : p = q + 1 + d
    BY <1>8
  <2>2. n * p = n * q + n + n * d
    BY <2>1, Z3
  <2>3. n * d \in Nat /\ n * p \in Nat /\ n * q \in Nat
    BY Z3
  <2> QED
    BY <1>1, <1>4, <1>5, <2>2, <2>3
<1> QED
  BY <1>6, <1>7, <1>8

\* A partition gets as many different brokers as asked for.
LEMMA ReplicasDiffer ==
    ASSUME NEW call, IsAssigning(call), NEW r \in Replicas(call)
    PROVE  DOMAIN r = 1 .. call.rf /\ IsInjective(r)
<1>1. PICK n \in Nat : /\ call.rf <= n /\ Len(call.brokers) = n /\ DOMAIN call.brokers = 1 .. n
                       /\ IsInjective(call.brokers)
  BY DEF IsAssigning
<1>2. call.next \in Nat /\ call.rf \in Nat \ {0}
  BY DEF IsAssigning
<1>3. CASE r \in {x \in [1 .. call.rf -> Range(call.brokers)] : IsInjective(x)}
  BY <1>3
<1>4. CASE r = [i \in 1 .. call.rf |-> call.brokers[((call.next + i - 1) % n) + 1]]
  <2>1. ASSUME NEW i \in 1 .. call.rf, NEW j \in 1 .. call.rf, r[i] = r[j] PROVE i = j
    <3>1. i \in 1 .. n /\ j \in 1 .. n /\ n \in Nat \ {0} /\ call.next + i - 1 \in Nat /\ call.next + j - 1 \in Nat
      BY <1>1, <1>2
    <3>2. PICK a, b : a = call.next + i - 1 /\ b = call.next + j - 1
      OBVIOUS
    <3>3. a % n \in 0 .. n - 1 /\ b % n \in 0 .. n - 1
      BY <3>1, <3>2, Quotient
    <3>4. (a % n) + 1 \in 1 .. n /\ (b % n) + 1 \in 1 .. n /\ ((a % n) + 1 = (b % n) + 1 => a % n = b % n)
      BY <3>1, <3>3
    <3>5. call.brokers[(a % n) + 1] = call.brokers[(b % n) + 1]
      BY <1>4, <2>1, <3>2
    <3>6. a % n = b % n
      BY <1>1, <3>4, <3>5 DEF IsInjective
    <3> QED
      BY <1>2, <3>1, <3>2, <3>6, RoundInjective
  <2>2. DOMAIN r = 1 .. call.rf
    BY <1>4
  <2> QED
    BY <2>1, <2>2 DEF IsInjective
<1> QED
  BY <1>1, <1>3, <1>4 DEF Replicas

\* create_topic assigns the next partition of its topic, and only that.
LEMMA AssignKeeps ==
    ASSUME MetadataInv, NEW c \in Creators, AssignPartition(c)
    PROVE  MetadataInv'
<1>a. PICK call : call = creating[c]
  OBVIOUS
<1>b. PICK t, k : t = call.topic /\ k = call.next
  OBVIOUS
<1>1. IsAssigning(call) /\ NotCreating.pc = "idle" /\ call.pc = "assigning"
  BY <1>a DEF AssignPartition, MetadataInv, MetadataTypeOK, NotCreating, Registered
<1>2. /\ t \in TopicNames /\ call.of \in Nat /\ k \in 0 .. call.of /\ k \in Nat
      /\ UNCHANGED <<topics, nodes, raced>>
  BY <1>1, <1>b DEF IsAssigning, AssignPartition
<1>3. On(c, t) /\ MetadataTypeOK
  BY <1>1, <1>a, <1>b DEF On, MetadataInv
<1>4. \A u \in TopicNames \ raced, d \in Creators : On(d, u) /\ d # c => u # t
  BY <1>3 DEF MetadataInv, TopicInv
\* The next partition.
<1>5. CASE k < call.of
  <2>1. PICK r \in Replicas(call) : assignments' = [x \in DOMAIN assignments \cup {<<t, k>>} |-> IF x = <<t, k>> THEN r ELSE assignments[x]]
    BY <1>5, <1>a, <1>b DEF AssignPartition
  <2>2. DOMAIN r = 1 .. call.rf /\ IsInjective(r)
    BY <1>1, ReplicasDiffer
  <2>3. PICK then : then = [call EXCEPT !.next = k + 1]
    OBVIOUS
  <2>4. creating' = [creating EXCEPT ![c] = then] /\ confirmed' = confirmed
    BY <1>5, <1>a, <1>b, <2>3 DEF AssignPartition
  <2>5. /\ then.pc = "assigning" /\ then.topic = t /\ then.of = call.of /\ then.next = k + 1 /\ then.rf = call.rf
        /\ then.brokers = call.brokers /\ then.weighted = call.weighted
        /\ then = [pc |-> "assigning", topic |-> then.topic, next |-> then.next, of |-> then.of, rf |-> then.rf,
                   brokers |-> then.brokers, weighted |-> then.weighted]
    BY <1>1, <1>b, <2>3 DEF IsAssigning
  <2>6. IsAssigning(then)
    <3>1. k + 1 \in 0 .. call.of
      BY <1>2, <1>5
    <3> QED
      BY <1>1, <1>b, <2>5, <3>1 DEF IsAssigning
  <2>7. /\ creating'[c] = then /\ \A d \in Creators \ {c} : creating'[d] = creating[d]
        /\ creating' = [d \in Creators |-> creating'[d]]
    BY <1>3, <2>4 DEF MetadataTypeOK
  <2>8. /\ DOMAIN assignments' = DOMAIN assignments \cup {<<t, k>>} /\ assignments'[<<t, k>>] = r
        /\ \A x \in DOMAIN assignments : x # <<t, k>> => assignments'[x] = assignments[x]
        /\ assignments' = [x \in DOMAIN assignments' |-> assignments'[x]]
        /\ <<t, k>> \in TopicNames \X Nat
    BY <1>2, <2>1
  <2>9. MetadataTypeOK'
    <3>1. \A d \in Creators : creating'[d] = NotCreating \/ creating'[d] \in Registered \/ IsAssigning(creating'[d])
      BY <1>3, <2>6, <2>7 DEF MetadataTypeOK
    <3> QED
      BY <1>2, <1>3, <2>7, <2>8, <3>1 DEF MetadataTypeOK
  <2>10. ASSUME NEW u \in TopicNames \ raced, u # t PROVE TopicInv(u)'
    <3>1. \A d \in Creators : (On(d, u)' <=> On(d, u)) /\ (On(d, u) => creating'[d] = creating[d])
      BY <1>a, <1>b, <2>5, <2>7, <2>10 DEF On
    <3>2. <<t, k>>[1] # u
      BY <2>10
    <3>3. TopicSame(u)
      BY <1>2, <2>4, <2>8, <3>1, <3>2 DEF TopicSame
    <3> QED
      BY <3>3, TopicKept DEF MetadataInv
  <2>11. ASSUME t \notin raced PROVE TopicInv(t)'
    <3>1. CallAssigned(c, t) /\ \A d \in Creators : On(d, t) => d = c
      BY <1>2, <1>3, <2>11 DEF MetadataInv, TopicInv
    <3>2. /\ t \in DOMAIN topics /\ t \notin confirmed /\ call.rf = topics[t].replication /\ call.of = topics[t].partitions
          /\ AssignedUpTo(t, k, topics[t].replication)
      BY <1>1, <1>a, <1>b, <3>1 DEF CallAssigned
    <3>3. \A d \in Creators : On(d, t)' => d = c
      BY <2>7, <3>1 DEF On
    <3>4. PICK rf : rf = topics[t].replication
      OBVIOUS
    <3>5. AssignedUpTo(t, k + 1, rf)'
      <4>1. ASSUME NEW x \in DOMAIN assignments', x[1] = t PROVE x[2] \in 0 .. (k + 1) - 1
        <5>1. CASE x = <<t, k>>
          BY <1>2, <5>1
        <5>2. CASE x # <<t, k>>
          <6>1. x[2] \in 0 .. k - 1
            BY <2>8, <3>2, <4>1, <5>2 DEF AssignedUpTo
          <6> QED
            BY <1>2, <6>1
        <5> QED
          BY <5>1, <5>2
      <4>2. ASSUME NEW p \in 0 .. (k + 1) - 1
            PROVE  /\ <<t, p>> \in DOMAIN assignments'
                   /\ DOMAIN assignments'[<<t, p>>] = 1 .. rf /\ IsInjective(assignments'[<<t, p>>])
        <5>1. CASE p = k
          BY <2>2, <2>8, <3>2, <3>4, <5>1
        <5>2. CASE p # k
          <6>1. p \in 0 .. k - 1
            BY <1>2, <5>2
          <6>2. <<t, p>> # <<t, k>>
            BY <5>2
          <6>3. <<t, p>> \in DOMAIN assignments /\ DOMAIN assignments[<<t, p>>] = 1 .. rf /\ IsInjective(assignments[<<t, p>>])
            BY <3>2, <3>4, <6>1 DEF AssignedUpTo
          <6>4. assignments'[<<t, p>>] = assignments[<<t, p>>] /\ <<t, p>> \in DOMAIN assignments'
            BY <2>8, <6>2, <6>3
          <6> QED
            BY <6>3, <6>4
        <5> QED
          BY <5>1, <5>2
      <4> QED
        BY <4>1, <4>2 DEF AssignedUpTo
    <3>6. CallAssigned(c, t)'
      <4>1. then.next = k + 1 /\ rf = topics'[t].replication /\ creating'[c] = then /\ topics' = topics /\ t \notin confirmed'
        BY <1>2, <2>4, <2>5, <2>7, <3>2, <3>4
      <4>2. AssignedUpTo(t, creating[c].next, topics[t].replication)'
        BY <3>5, <4>1 DEF AssignedUpTo
      <4> QED
        BY <2>5, <3>2, <4>1, <4>2 DEF CallAssigned
    <3> QED
      BY <1>2, <2>4, <3>2, <3>3, <3>6 DEF TopicInv
  <2> QED
    BY <1>2, <2>4, <2>9, <2>10, <2>11 DEF MetadataInv
\* The call succeeds.
<1>6. CASE ~ (k < call.of)
  <2>1. creating' = [creating EXCEPT ![c] = NotCreating] /\ confirmed' = confirmed \cup {t} /\ assignments' = assignments
    BY <1>6, <1>a, <1>b DEF AssignPartition
  <2>2. /\ creating'[c] = NotCreating /\ \A d \in Creators \ {c} : creating'[d] = creating[d]
        /\ creating' = [d \in Creators |-> creating'[d]]
    BY <1>3, <2>1 DEF MetadataTypeOK
  <2>3. MetadataTypeOK'
    <3>1. \A d \in Creators : creating'[d] = NotCreating \/ creating'[d] \in Registered \/ IsAssigning(creating'[d])
      BY <1>3, <2>2 DEF MetadataTypeOK
    <3> QED
      BY <1>2, <1>3, <2>1, <2>2, <3>1 DEF MetadataTypeOK
  <2>4. ASSUME NEW u \in TopicNames \ raced, u # t PROVE TopicInv(u)'
    <3>1. \A d \in Creators : (On(d, u)' <=> On(d, u)) /\ (On(d, u) => creating'[d] = creating[d])
      BY <1>1, <1>a, <1>b, <2>2, <2>4 DEF On
    <3>2. TopicSame(u)
      BY <1>2, <2>1, <2>4, <3>1 DEF TopicSame
    <3> QED
      BY <3>2, TopicKept DEF MetadataInv
  <2>5. ASSUME t \notin raced PROVE TopicInv(t)'
    <3>1. CallAssigned(c, t) /\ \A d \in Creators : On(d, t) => d = c
      BY <1>2, <1>3, <2>5 DEF MetadataInv, TopicInv
    <3>2. /\ t \in DOMAIN topics /\ call.of = topics[t].partitions
          /\ AssignedUpTo(t, k, topics[t].replication)
      BY <1>1, <1>a, <1>b, <3>1 DEF CallAssigned
    <3>3. \A d \in Creators : ~ On(d, t)'
      BY <1>1, <2>2, <3>1 DEF On
    <3>4. k = topics[t].partitions
      BY <1>2, <1>6, <3>2
    <3>5. AssignedUpTo(t, topics[t].partitions, topics[t].replication)'
      BY <1>2, <2>1, <3>2, <3>4 DEF AssignedUpTo
    <3> QED
      BY <1>2, <3>2, <3>3, <3>5 DEF TopicInv
  <2> QED
    BY <1>2, <2>1, <2>3, <2>4, <2>5 DEF MetadataInv
<1> QED
  BY <1>5, <1>6

\* delete_topic takes the topic with all of its assignments.
LEMMA DeleteKeeps ==
    ASSUME MetadataInv, NEW t \in TopicNames, delete_topic(t)
    PROVE  MetadataInv'
<1>1. /\ topics' = [x \in DOMAIN topics \ {t} |-> topics[x]]
      /\ assignments' = [x \in {tp \in DOMAIN assignments : tp[1] # t} |-> assignments[x]]
      /\ confirmed' = confirmed \ {t} /\ raced' = IF Making(t) THEN raced \cup {t} ELSE raced
      /\ UNCHANGED <<nodes, creating>>
  BY DEF delete_topic
<1>2. /\ DOMAIN topics' = DOMAIN topics \ {t} /\ \A x \in DOMAIN topics \ {t} : topics'[x] = topics[x]
      /\ DOMAIN assignments' = {tp \in DOMAIN assignments : tp[1] # t}
      /\ \A x \in DOMAIN assignments' : assignments'[x] = assignments[x]
      /\ assignments' = [x \in DOMAIN assignments' |-> assignments'[x]]
  BY <1>1
<1>3. MetadataTypeOK'
  <2>1. topics' \in [DOMAIN topics' -> TopicRecords]
    BY <1>1 DEF MetadataInv, MetadataTypeOK
  <2> QED
    BY <1>1, <1>2, <2>1 DEF MetadataInv, MetadataTypeOK
<1>4. ASSUME NEW u \in TopicNames \ raced', u # t PROVE TopicInv(u)'
  <2>1. u \in TopicNames \ raced
    BY <1>1
  <2>2. \A d \in Creators : On(d, u)' <=> On(d, u)
    BY <1>1 DEF On
  <2>3. TopicSame(u)
    BY <1>1, <1>2, <1>4, <2>2 DEF TopicSame
  <2> QED
    BY <2>1, <2>3, TopicKept DEF MetadataInv
<1>5. ASSUME t \notin raced' PROVE TopicInv(t)'
  <2>1. \A d \in Creators : ~ On(d, t)
    BY <1>1, <1>5 DEF Making, On
  <2>2. \A d \in Creators : ~ On(d, t)'
    BY <1>1, <2>1 DEF On
  <2> QED
    BY <1>1, <1>2, <2>2 DEF TopicInv
<1> QED
  BY <1>1, <1>3, <1>4, <1>5 DEF MetadataInv

\* A new leader enters the internal topic without assignments.
LEMMA EnsureKeeps ==
    ASSUME MetadataInv, ensure_internal_topics
    PROVE  MetadataInv'
<1> DEFINE rec == [partitions |-> InternalPartitions, replication |-> 3]
<1>1. /\ InternalTopic \notin DOMAIN topics
      /\ topics' = [x \in DOMAIN topics \cup {InternalTopic} |-> IF x = InternalTopic THEN rec ELSE topics[x]]
      /\ UNCHANGED <<nodes, assignments, creating, confirmed, raced>>
  BY DEF ensure_internal_topics
<1>2. rec \in TopicRecords
  BY DEF TopicRecords, InternalPartitions
<1> HIDE DEF rec
<1>3. /\ DOMAIN topics' = DOMAIN topics \cup {InternalTopic} /\ topics' \in [DOMAIN topics' -> TopicRecords]
      /\ \A x \in DOMAIN topics : topics'[x] = topics[x]
  BY <1>1, <1>2 DEF MetadataInv, MetadataTypeOK
<1>4. MetadataTypeOK'
  BY <1>1, <1>3 DEF MetadataInv, MetadataTypeOK
<1>5. ASSUME NEW u \in TopicNames \ raced, u # InternalTopic PROVE TopicInv(u)'
  <2>1. \A d \in Creators : On(d, u)' <=> On(d, u)
    BY <1>1 DEF On
  <2>2. TopicSame(u)
    BY <1>1, <1>3, <1>5, <2>1 DEF TopicSame
  <2> QED
    BY <2>2, TopicKept DEF MetadataInv
<1>6. ASSUME NEW t \in TopicNames \ raced, t = InternalTopic PROVE TopicInv(t)'
  <2>1. t \notin DOMAIN topics /\ TopicInv(t) /\ t \in DOMAIN topics'
    BY <1>1, <1>3, <1>6 DEF MetadataInv
  <2>2. t \notin confirmed' /\ \A d \in Creators : ~ On(d, t)
    BY <1>1, <2>1 DEF TopicInv, CallAssigned
  <2>3. \A d \in Creators : ~ On(d, t)'
    BY <1>1, <2>2 DEF On
  <2> QED
    BY <2>1, <2>2, <2>3 DEF TopicInv
<1> QED
  BY <1>1, <1>4, <1>5, <1>6 DEF MetadataInv

\* Every step of the controller keeps the invariant of its metadata.
LEMMA MetadataStep == MetadataInv /\ [MetadataNext]_metadataVars => MetadataInv'
<1> SUFFICES ASSUME MetadataInv, [MetadataNext]_metadataVars PROVE MetadataInv'
  OBVIOUS
<1>0. IsFiniteSet(nodes)
  BY DEF MetadataInv, MetadataTypeOK
<1>1. CASE UNCHANGED metadataVars
  BY <1>0, <1>1, OthersKeep DEF metadataVars
<1>2. CASE BeginElection \/ EndElection \/ broker_heartbeat
  BY <1>0, <1>2, OthersKeep DEF BeginElection, EndElection, broker_heartbeat
<1>3. ASSUME NEW b \in NodeBrokers, register_broker(b) \/ remove_broker(b) PROVE MetadataInv'
  <2>1. nodes' = nodes \cup {b} \/ nodes' = nodes \ {b}
    BY <1>3 DEF register_broker, remove_broker
  <2>2. IsFiniteSet(nodes \cup {b}) /\ IsFiniteSet(nodes \ {b})
    BY <1>0, FS_AddElement, FS_Subset
  <2>3. IsFiniteSet(nodes')
    BY <2>1, <2>2
  <2> QED
    BY <1>3, <2>3, OthersKeep DEF register_broker, remove_broker
<1>4. ASSUME NEW c \in Creators, NEW t \in TopicNames, NEW n \in PartitionCounts, NEW rf \in ReplicationFactors,
             CreateTopic(c, t, n, rf)
      PROVE  MetadataInv'
  BY <1>4, CreateKeeps
<1>5. ASSUME NEW c \in Creators, ListBrokers(c) \/ AssignPartition(c) PROVE MetadataInv'
  BY <1>5, ListKeeps, AssignKeeps
<1>6. ASSUME NEW t \in TopicNames, delete_topic(t) PROVE MetadataInv'
  BY <1>6, DeleteKeeps
<1>7. CASE ensure_internal_topics
  BY <1>7, EnsureKeeps
<1> QED
  BY <1>1, <1>2, <1>3, <1>4, <1>5, <1>6, <1>7 DEF MetadataNext

\* A topic whose creation was answered with success has its partitions and no others, on
\* different brokers, for any number of calls, topics and brokers (create_topic,
\* assign_partition, delete_topic).
THEOREM TopicsComplete == MetadataSpec => []CreatedTopicComplete
<1>1. MetadataInv => CreatedTopicComplete
  <2> SUFFICES ASSUME MetadataInv, NEW t \in confirmed \ raced
               PROVE  /\ {tp[2] : tp \in {x \in DOMAIN assignments : x[1] = t}} = 0 .. topics[t].partitions - 1
                      /\ \A p \in 0 .. topics[t].partitions - 1 :
                            /\ DOMAIN assignments[<<t, p>>] = 1 .. topics[t].replication
                            /\ IsInjective(assignments[<<t, p>>])
    BY DEF CreatedTopicComplete
  <2>1. AssignedUpTo(t, topics[t].partitions, topics[t].replication)
    BY DEF MetadataInv, TopicInv
  <2>2. \A x \in DOMAIN assignments : x[1] = t => x[2] \in 0 .. topics[t].partitions - 1
    BY <2>1 DEF AssignedUpTo
  <2>3. \A p \in 0 .. topics[t].partitions - 1 : <<t, p>> \in DOMAIN assignments /\ <<t, p>>[1] = t /\ <<t, p>>[2] = p
    BY <2>1 DEF AssignedUpTo
  <2>4. {tp[2] : tp \in {x \in DOMAIN assignments : x[1] = t}} = 0 .. topics[t].partitions - 1
    BY <2>2, <2>3
  <2> QED
    BY <2>1, <2>4 DEF AssignedUpTo
<1> QED
  BY <1>1, MetadataInitOK, MetadataStep, PTL DEF MetadataSpec

-------------------------------------------------------------------------------
(* The decommissioning slots: the inductive invariant.                     *)

\* Operations that hold a permit have been handed out, and an operation that is removed
\* is in the map no more.
IssuedOps ==
    /\ ActiveOps \subseteq 1 .. issued /\ unreturned \subseteq 1 .. issued
    /\ ActiveOps \cap unreturned = {}

\* Each permit is in one of four places.
PermitsBalance ==
    permits + Cardinality(ActiveOps) + Cardinality(Holding) + Cardinality(unreturned) = capacity

\* How far the permits are from the limit at each stage z of a change that met neither
\* another change nor a slot on its way: the sum it measures is then the number of permits
\* there are.
Tracked(z) ==
    /\ z.pc = "counted" =>
          Holding = {} /\ unreturned = {} /\ z.active = Cardinality(ActiveOps) /\ z.active <= z.to
    /\ z.pc = "adjusting" => capacity + z.delta = z.to /\ permits + z.delta >= 0
    /\ z.pc = "storing" => capacity = z.to

LimitTracked ==
    ~overlapped =>
        /\ ~Resizing => capacity = limit
        /\ \A r, s \in Resizers : resize[r] # NoResize /\ resize[s] # NoResize => r = s
        /\ \A r \in Resizers : Tracked(resize[r])

SlotInv == SlotsTypeOK /\ IssuedOps /\ PermitsBalance /\ LimitTracked

-------------------------------------------------------------------------------
(* Finiteness and counting.                                                *)

\* The sets that are counted are finite.
LEMMA SetsFinite ==
    ASSUME SlotsTypeOK
    PROVE  /\ IsFiniteSet(ActiveOps) /\ Cardinality(ActiveOps) \in Nat
           /\ IsFiniteSet(Holding) /\ Cardinality(Holding) \in Nat
           /\ IsFiniteSet(unreturned) /\ Cardinality(unreturned) \in Nat
<1>1. IsFiniteSet(SlotOps)
  BY FS_Interval, SlotConstants DEF SlotOps
<1>2. ActiveOps \in SUBSET SlotOps /\ unreturned \in SUBSET SlotOps
  BY DEF SlotsTypeOK
<1>3. Holding \in SUBSET SlotCallers
  BY DEF Holding
<1>4. IsFiniteSet(ActiveOps) /\ IsFiniteSet(unreturned)
  BY <1>1, <1>2, FS_Subset
<1>5. IsFiniteSet(Holding)
  BY <1>3, FS_Subset, SlotConstants
<1> QED
  BY <1>4, <1>5, FS_CardinalityType

-------------------------------------------------------------------------------
(* Type correctness.                                                       *)

\* The initial state has the declared shape.
LEMMA SlotsTypeInit == SlotsInit => SlotsTypeOK
<1> SUFFICES ASSUME SlotsInit PROVE SlotsTypeOK
  OBVIOUS
<1>1. ActiveOps = {} /\ active \in [ActiveOps -> SlotBrokers]
  BY DEF SlotsInit, NoSlots, ActiveOps
<1>2. issued \in 0 .. MaxSlotOps
  BY SlotConstants DEF SlotsInit
<1>3. acquiring \in [SlotCallers -> {Idle} \cup [pc : {"checked", "permitted"}, broker : SlotBrokers]]
  BY DEF SlotsInit
<1>4. permits \in Nat /\ capacity \in Int /\ limit \in Nat /\ resizes \in Nat
  BY SlotConstants DEF SlotsInit
<1>7. overlapped \in BOOLEAN
  BY Zenon DEF SlotsInit
<1>5. ActiveOps \subseteq SlotOps /\ unreturned \subseteq SlotOps /\ expired \subseteq SlotOps /\ sweep \subseteq SlotOps
  BY <1>1 DEF SlotsInit
<1>6. resize \in [Resizers -> {NoResize} \cup Counted \cup Adjusting \cup Storing]
  BY DEF SlotsInit
<1> QED
  BY <1>1, <1>2, <1>3, <1>4, <1>5, <1>6, <1>7 DEF SlotsTypeOK

\* How far a change of the limit is tells what it carries.
LEMMA ResizeShapes ==
    ASSUME SlotsTypeOK, NEW r \in Resizers
    PROVE  /\ resize[r] # NoResize => resize[r].pc \in {"counted", "adjusting", "storing"}
           /\ resize[r].pc = "counted" => resize[r] \in Counted /\ resize[r] # NoResize
           /\ resize[r].pc = "adjusting" => resize[r] \in Adjusting /\ resize[r] # NoResize
           /\ resize[r].pc = "storing" => resize[r] \in Storing /\ resize[r] # NoResize
<1>1. resize[r] \in {NoResize} \cup Counted \cup Adjusting \cup Storing
  BY DEF SlotsTypeOK
<1>2. NoResize.pc = "idle"
  BY DEF NoResize
<1>3. (\A z \in Counted : z.pc = "counted") /\ (\A z \in Adjusting : z.pc = "adjusting")
      /\ (\A z \in Storing : z.pc = "storing")
  BY DEF Counted, Adjusting, Storing
<1> QED
  BY <1>1, <1>2, <1>3

\* Every step keeps the shape.
LEMMA SlotsTypeStep == SlotsTypeOK /\ [SlotsNext]_slotVars => SlotsTypeOK'
<1> SUFFICES ASSUME SlotsTypeOK, [SlotsNext]_slotVars PROVE SlotsTypeOK'
  OBVIOUS
<1>1. ASSUME NEW c \in SlotCallers, NEW b \in SlotBrokers, CheckBroker(c, b) PROVE SlotsTypeOK'
  BY <1>1 DEF CheckBroker, Calling, Notice, SlotsTypeOK, ActiveOps
<1>2. ASSUME NEW c \in SlotCallers, TakePermit(c) PROVE SlotsTypeOK'
  <2>1. acquiring[c] \in [pc : {"checked", "permitted"}, broker : SlotBrokers]
    BY <1>2 DEF TakePermit, SlotsTypeOK, Idle
  <2>2. [acquiring[c] EXCEPT !.pc = "permitted"] \in [pc : {"checked", "permitted"}, broker : SlotBrokers]
    BY <2>1
  <2>3. acquiring' \in [SlotCallers -> {Idle} \cup [pc : {"checked", "permitted"}, broker : SlotBrokers]]
    BY <1>2, <2>2 DEF TakePermit, SlotsTypeOK
  <2>4. permits' \in Nat
    BY <1>2 DEF TakePermit, SlotsTypeOK
  <2> QED
    BY <1>2, <2>3, <2>4 DEF TakePermit, Notice, SlotsTypeOK, ActiveOps
<1>3. ASSUME NEW c \in SlotCallers, EnterSlot(c) PROVE SlotsTypeOK'
  <2>1. acquiring[c].broker \in SlotBrokers
    BY <1>3 DEF EnterSlot, SlotsTypeOK, Idle
  <2>2. issued' \in 0 .. MaxSlotOps /\ issued + 1 \in SlotOps
    BY <1>3, SlotConstants DEF EnterSlot, SlotsTypeOK, SlotOps
  <2>3. DOMAIN active' = ActiveOps \cup {issued + 1}
    BY <1>3 DEF EnterSlot
  <2>4. ActiveOps' \subseteq SlotOps /\ active' \in [ActiveOps' -> SlotBrokers]
    BY <1>3, <2>1, <2>2, <2>3 DEF EnterSlot, SlotsTypeOK, ActiveOps
  <2> QED
    BY <1>3, <2>2, <2>4 DEF EnterSlot, Notice, SlotsTypeOK
<1>4. ASSUME NEW c \in SlotCallers, CancelAcquire(c) PROVE SlotsTypeOK'
  BY <1>4 DEF CancelAcquire, Notice, SlotsTypeOK, ActiveOps
<1>5. ASSUME NEW op \in SlotOps, RemoveSlot(op) PROVE SlotsTypeOK'
  BY <1>5 DEF RemoveSlot, Without, Notice, SlotsTypeOK, ActiveOps
<1>6. ASSUME NEW op \in SlotOps, ReturnPermit(op) PROVE SlotsTypeOK'
  BY <1>6 DEF ReturnPermit, Notice, SlotsTypeOK, ActiveOps
<1>7. ASSUME NEW op \in SlotOps, ExpireSlot(op) PROVE SlotsTypeOK'
  BY <1>7 DEF ExpireSlot, SlotsTypeOK, ActiveOps
<1>8. CASE FindExpired
  BY <1>8 DEF FindExpired, SlotsTypeOK, ActiveOps
<1>9. CASE SweepExpired
  <2>1. Cardinality(sweep \cap ActiveOps) \in Nat
    BY SetsFinite, FS_Subset, FS_CardinalityType
  <2>2. permits' \in Nat
    BY <1>9, <2>1 DEF SweepExpired, SlotsTypeOK
  <2>3. ActiveOps' \subseteq SlotOps /\ active' \in [ActiveOps' -> SlotBrokers]
    BY <1>9 DEF SweepExpired, Without, SlotsTypeOK, ActiveOps
  <2> QED
    BY <1>9, <2>2, <2>3 DEF SweepExpired, Notice, SlotsTypeOK
<1>10. ASSUME NEW r \in Resizers, NEW n \in NewLimits, StartResize(r, n) PROVE SlotsTypeOK'
  <2>1. n \in Nat /\ Cardinality(ActiveOps) \in Nat
    BY SetsFinite, SlotConstants
  <2>2. [pc |-> "counted", to |-> n, active |-> Cardinality(ActiveOps)] \in Counted
    BY <2>1 DEF Counted
  <2>3. resize' \in [Resizers -> {NoResize} \cup Counted \cup Adjusting \cup Storing]
    BY <1>10, <2>2 DEF StartResize, SlotsTypeOK
  <2>4. overlapped' \in BOOLEAN
    BY <1>10, Zenon DEF StartResize
  <2> QED
    BY <1>10, <2>3, <2>4 DEF StartResize, SlotsTypeOK, ActiveOps
<1>11. ASSUME NEW r \in Resizers, MeasureResize(r) PROVE SlotsTypeOK'
  <2>1. resize[r] \in Counted
    BY <1>11, ResizeShapes DEF MeasureResize
  <2>2. [pc |-> "adjusting", to |-> resize[r].to, delta |-> resize[r].to - (permits + resize[r].active)] \in Adjusting
    BY <2>1 DEF SlotsTypeOK, Counted, Adjusting
  <2>3. resize' \in [Resizers -> {NoResize} \cup Counted \cup Adjusting \cup Storing]
    BY <1>11, <2>2 DEF MeasureResize, SlotsTypeOK
  <2> QED
    BY <1>11, <2>3 DEF MeasureResize, SlotsTypeOK, ActiveOps
<1>12. ASSUME NEW r \in Resizers, AdjustPermits(r) PROVE SlotsTypeOK'
  <2>1. resize[r] \in Adjusting
    BY <1>12, ResizeShapes DEF AdjustPermits
  <2>2. [pc |-> "storing", to |-> resize[r].to] \in Storing
    BY <2>1 DEF Adjusting, Storing
  <2>3. [pc |-> "adjusting", to |-> resize[r].to, delta |-> resize[r].delta + 1] \in Adjusting
    BY <2>1 DEF Adjusting
  <2>4. resize' \in [Resizers -> {NoResize} \cup Counted \cup Adjusting \cup Storing]
    <3> DEFINE next == [pc |-> "adjusting", to |-> resize[r].to, delta |-> resize[r].delta + 1]
               stored == [pc |-> "storing", to |-> resize[r].to]
    <3>1. \/ resize' = [resize EXCEPT ![r] = NoResize]
          \/ resize' = [resize EXCEPT ![r] = stored]
          \/ resize' = [resize EXCEPT ![r] = next]
      BY <1>12 DEF AdjustPermits
    <3>2. stored \in Storing /\ next \in Adjusting
      BY <2>2, <2>3
    <3> HIDE DEF stored, next
    <3> QED
      BY <3>1, <3>2 DEF SlotsTypeOK
  <2>5. permits' \in Nat /\ capacity' \in Int
    BY <1>12, <2>1 DEF AdjustPermits, SlotsTypeOK, Adjusting
  <2> QED
    BY <1>12, <2>4, <2>5 DEF AdjustPermits, SlotsTypeOK, ActiveOps
<1>13. ASSUME NEW r \in Resizers, StoreLimit(r) PROVE SlotsTypeOK'
  <2>1. resize[r].to \in Nat
    BY <1>13, ResizeShapes DEF StoreLimit, Storing
  <2>2. resize' \in [Resizers -> {NoResize} \cup Counted \cup Adjusting \cup Storing]
    BY <1>13 DEF StoreLimit, SlotsTypeOK
  <2> QED
    BY <1>13, <2>1, <2>2 DEF StoreLimit, SlotsTypeOK, ActiveOps
<1>14. CASE UNCHANGED slotVars
  BY <1>14 DEF slotVars, SlotsTypeOK, ActiveOps
<1> QED
  BY <1>1, <1>2, <1>3, <1>4, <1>5, <1>6, <1>7, <1>8, <1>9, <1>10, <1>11, <1>12, <1>13, <1>14
  DEF SlotsNext, Sweeping, UpdateScalingConfig

\* The state of the slot manager keeps its shape: the semaphore never goes below zero, and
\* the map, the sweep and the calls under way hold what the code puts there.
THEOREM SlotsTyped == SlotsSpec => []SlotsTypeOK
BY SlotsTypeInit, SlotsTypeStep, PTL DEF SlotsSpec

-------------------------------------------------------------------------------
(* The accounting.                                                         *)

\* At the start every permit is available.
LEMMA SlotInvInit == SlotsInit => SlotInv
<1> SUFFICES ASSUME SlotsInit PROVE SlotInv
  OBVIOUS
<1>1. SlotsTypeOK
  BY SlotsTypeInit
<1>2. ActiveOps = {} /\ unreturned = {}
  BY DEF SlotsInit, NoSlots, ActiveOps
<1>3. Holding = {}
  BY DEF SlotsInit, Holding, Idle
<1>4. PermitsBalance
  BY <1>2, <1>3, FS_EmptySet, SlotConstants DEF PermitsBalance, SlotsInit
<1>5. LimitTracked
  <2>1. \A r \in Resizers : resize[r] = NoResize /\ NoResize.pc = "idle"
    BY DEF SlotsInit, NoResize
  <2> QED
    BY <2>1 DEF LimitTracked, Tracked, SlotsInit
<1> QED
  BY <1>1, <1>2, <1>4, <1>5 DEF SlotInv, IssuedOps

\* Operations stay within those handed out.
LEMMA IssuedStep ==
    ASSUME SlotInv, [SlotsNext]_slotVars PROVE IssuedOps'
<1> USE DEF SlotInv, IssuedOps, SlotsTypeOK
<1>1. ASSUME NEW c \in SlotCallers, EnterSlot(c) PROVE IssuedOps'
  <2>1. ActiveOps' = ActiveOps \cup {issued + 1} /\ issued' = issued + 1
    BY <1>1 DEF EnterSlot, ActiveOps
  <2> QED
    BY <1>1, <2>1 DEF EnterSlot
<1>2. ASSUME NEW op \in SlotOps, RemoveSlot(op) PROVE IssuedOps'
  <2>1. ActiveOps' = ActiveOps \ {op}
    BY <1>2 DEF RemoveSlot, Without, ActiveOps
  <2> QED
    BY <1>2, <2>1 DEF RemoveSlot
<1>3. CASE SweepExpired
  <2>1. ActiveOps' \subseteq ActiveOps
    BY <1>3 DEF SweepExpired, Without, ActiveOps
  <2> QED
    BY <1>3, <2>1 DEF SweepExpired
<1>4. CASE UNCHANGED <<active, unreturned, issued>>
  BY <1>4 DEF ActiveOps
<1>5. ASSUME NEW op \in SlotOps, ReturnPermit(op) PROVE IssuedOps'
  BY <1>5 DEF ReturnPermit, ActiveOps
<1> QED
  BY <1>1, <1>2, <1>3, <1>4, <1>5
  DEF SlotsNext, CheckBroker, TakePermit, CancelAcquire, ExpireSlot, FindExpired, Sweeping, UpdateScalingConfig,
      StartResize, MeasureResize, AdjustPermits, StoreLimit, slotVars

\* No step loses or makes a permit without the capacity following.
LEMMA BalanceStep ==
    ASSUME SlotInv, [SlotsNext]_slotVars PROVE PermitsBalance'
<1> USE DEF SlotInv, PermitsBalance
<1>0. SlotsTypeOK /\ permits \in Nat /\ capacity \in Int
  BY DEF SlotsTypeOK
<1>1. ASSUME NEW c \in SlotCallers, NEW b \in SlotBrokers, CheckBroker(c, b) PROVE PermitsBalance'
  <2>1. Holding' = Holding
    BY <1>0, <1>1 DEF CheckBroker, Calling, Idle, Holding, SlotsTypeOK
  <2> QED
    BY <1>1, <2>1 DEF CheckBroker, ActiveOps
<1>2. ASSUME NEW c \in SlotCallers, TakePermit(c) PROVE PermitsBalance'
  <2>1. CASE permits > 0
    <3>a. acquiring[c] \in [pc : {"checked", "permitted"}, broker : SlotBrokers]
      BY <1>0, <1>2 DEF TakePermit, SlotsTypeOK, Idle
    <3>b. [acquiring[c] EXCEPT !.pc = "permitted"].pc = "permitted"
      BY <3>a
    <3>c. acquiring' = [acquiring EXCEPT ![c] = [acquiring[c] EXCEPT !.pc = "permitted"]]
      BY <1>0, <1>2, <2>1 DEF TakePermit, SlotsTypeOK
    <3>d. acquiring'[c].pc = "permitted" /\ \A d \in SlotCallers \ {c} : acquiring'[d] = acquiring[d]
      BY <1>0, <3>b, <3>c DEF SlotsTypeOK
    <3>1. Holding' = Holding \cup {c} /\ c \notin Holding
      BY <1>2, <3>d DEF TakePermit, Holding
    <3>2. Cardinality(Holding') = Cardinality(Holding) + 1
      BY <1>0, <3>1, SetsFinite, FS_AddElement
    <3> QED
      BY <1>0, <1>2, <2>1, <3>2, SetsFinite DEF TakePermit, ActiveOps
  <2>2. CASE permits = 0
    <3>1. Holding' = Holding
      BY <1>0, <1>2, <2>2 DEF TakePermit, Holding, SlotsTypeOK, Idle
    <3> QED
      BY <1>2, <2>2, <3>1 DEF TakePermit, ActiveOps
  <2> QED
    BY <1>0, <2>1, <2>2
<1>3. ASSUME NEW c \in SlotCallers, EnterSlot(c) PROVE PermitsBalance'
  <2>1. Holding' = Holding \ {c} /\ c \in Holding
    BY <1>0, <1>3 DEF EnterSlot, Holding, SlotsTypeOK, Idle
  <2>2. ActiveOps' = ActiveOps \cup {issued + 1} /\ issued + 1 \notin ActiveOps
    BY <1>0, <1>3 DEF EnterSlot, ActiveOps, IssuedOps, SlotsTypeOK
  <2>3. Cardinality(Holding') = Cardinality(Holding) - 1
    BY <1>0, <2>1, SetsFinite, FS_RemoveElement
  <2>4. Cardinality(ActiveOps') = Cardinality(ActiveOps) + 1
    BY <1>0, <2>2, SetsFinite, FS_AddElement
  <2> QED
    BY <1>0, <1>3, <2>3, <2>4, SetsFinite DEF EnterSlot
<1>4. ASSUME NEW c \in SlotCallers, CancelAcquire(c) PROVE PermitsBalance'
  <2>1. Holding' = Holding \ {c} /\ c \in Holding
    BY <1>0, <1>4 DEF CancelAcquire, Holding, SlotsTypeOK, Idle
  <2>2. Cardinality(Holding') = Cardinality(Holding) - 1
    BY <1>0, <2>1, SetsFinite, FS_RemoveElement
  <2> QED
    BY <1>0, <1>4, <2>2, SetsFinite DEF CancelAcquire, ActiveOps
<1>5. ASSUME NEW op \in SlotOps, RemoveSlot(op) PROVE PermitsBalance'
  <2>1. ActiveOps' = ActiveOps \ {op} /\ op \in ActiveOps
    BY <1>5 DEF RemoveSlot, Without, ActiveOps
  <2>2. unreturned' = unreturned \cup {op} /\ op \notin unreturned
    BY <1>5 DEF RemoveSlot, IssuedOps
  <2>3. Cardinality(ActiveOps') = Cardinality(ActiveOps) - 1
    BY <1>0, <2>1, SetsFinite, FS_RemoveElement
  <2>4. Cardinality(unreturned') = Cardinality(unreturned) + 1
    BY <1>0, <2>2, SetsFinite, FS_AddElement
  <2> QED
    BY <1>0, <1>5, <2>3, <2>4, SetsFinite DEF RemoveSlot, Holding
<1>6. ASSUME NEW op \in SlotOps, ReturnPermit(op) PROVE PermitsBalance'
  <2>1. Cardinality(unreturned') = Cardinality(unreturned) - 1
    BY <1>0, <1>6, SetsFinite, FS_RemoveElement DEF ReturnPermit
  <2> QED
    BY <1>0, <1>6, <2>1, SetsFinite DEF ReturnPermit, Holding, ActiveOps
<1>7. CASE SweepExpired
  <2> DEFINE gone == sweep \cap ActiveOps
  <2>1. ActiveOps' = ActiveOps \ gone /\ ActiveOps = ActiveOps' \cup gone /\ ActiveOps' \cap gone = {}
    BY <1>7 DEF SweepExpired, Without, ActiveOps
  <2>2. gone \in SUBSET ActiveOps /\ ActiveOps' \in SUBSET ActiveOps
    BY <2>1
  <2>3. IsFiniteSet(gone) /\ IsFiniteSet(ActiveOps')
    BY <1>0, <2>2, SetsFinite, FS_Subset
  <2>4. Cardinality(gone) \in Nat /\ Cardinality(ActiveOps') \in Nat
    BY <2>3, FS_CardinalityType
  <2>5. Cardinality(ActiveOps) = Cardinality(ActiveOps') + Cardinality(gone)
    <3>1. Cardinality(ActiveOps' \cup gone)
             = Cardinality(ActiveOps') + Cardinality(gone) - Cardinality(ActiveOps' \cap gone)
      BY <2>3, FS_Union
    <3>2. Cardinality(ActiveOps' \cap gone) = 0
      BY <2>1, FS_EmptySet
    <3>3. Cardinality(ActiveOps' \cup gone) = Cardinality(ActiveOps)
      BY <2>1
    <3> HIDE DEF gone
    <3> QED
      BY <2>4, <3>1, <3>2, <3>3
  <2>6. permits' = permits + Cardinality(gone)
    BY <1>7 DEF SweepExpired
  <2> HIDE DEF gone
  <2> QED
    BY <1>0, <1>7, <2>4, <2>5, <2>6, SetsFinite DEF SweepExpired, Holding
<1>8. ASSUME NEW r \in Resizers, AdjustPermits(r) PROVE PermitsBalance'
  <2>1. resize[r].delta \in Int
    BY <1>0, <1>8, ResizeShapes DEF AdjustPermits, Adjusting
  <2> QED
    BY <1>0, <1>8, <2>1, SetsFinite DEF AdjustPermits, Holding, ActiveOps
<1>9. CASE UNCHANGED <<permits, active, acquiring, unreturned, capacity>>
  BY <1>9 DEF Holding, ActiveOps
<1> QED
  BY <1>1, <1>2, <1>3, <1>4, <1>5, <1>6, <1>7, <1>8, <1>9
  DEF SlotsNext, ExpireSlot, FindExpired, Sweeping, UpdateScalingConfig, StartResize, MeasureResize, StoreLimit, slotVars

\* A change of the limit that meets neither another one nor a slot on its way measures the
\* permits there are.
LEMMA LimitStep ==
    ASSUME SlotInv, [SlotsNext]_slotVars PROVE LimitTracked'
<1>0. SlotsTypeOK /\ permits \in Nat /\ capacity \in Int /\ limit \in Nat /\ NoResize.pc = "idle"
  BY DEF SlotInv, SlotsTypeOK, NoResize
<1>1. ASSUME Notice, UNCHANGED <<resize, limit, capacity>> PROVE LimitTracked'
  <2>1. CASE ~Resizing
    <3>1. \A r \in Resizers : resize'[r] = NoResize
      BY <1>1, <2>1 DEF Resizing
    <3>2. ~overlapped' => capacity' = limit'
      BY <1>1, <2>1 DEF Notice, SlotInv, LimitTracked
    <3> QED
      BY <1>0, <3>1, <3>2 DEF LimitTracked, Tracked
  <2>2. CASE Resizing
    <3>1. overlapped'
      BY <1>1, <2>2, Zenon DEF Notice
    <3> QED
      BY <3>1 DEF LimitTracked
  <2> QED
    BY <2>1, <2>2
<1>2. ASSUME UNCHANGED <<permits, active, acquiring, unreturned, resize, limit, capacity, overlapped>>
      PROVE  LimitTracked'
  BY <1>2 DEF SlotInv, LimitTracked, Tracked, Resizing, Holding, ActiveOps
<1>a. ASSUME NEW r \in Resizers, NEW z, resize' = [resize EXCEPT ![r] = z],
             \A s \in Resizers \ {r} : resize[s] = NoResize,
             z = NoResize => capacity' = limit', Tracked(z)'
      PROVE  LimitTracked'
  <2>1. resize'[r] = z /\ \A s \in Resizers \ {r} : resize'[s] = NoResize
    BY <1>0, <1>a DEF SlotsTypeOK
  <2>2. ~Resizing' => capacity' = limit'
    BY <1>a, <2>1 DEF Resizing
  <2>3. \A s \in Resizers : s # r => Tracked(resize[s])'
    BY <1>0, <2>1 DEF Tracked
  <2>4. Tracked(resize[r])'
    BY <1>a, <2>1 DEF Tracked
  <2> QED
    BY <2>1, <2>2, <2>3, <2>4 DEF LimitTracked
<1>b. ASSUME NEW r \in Resizers, resize[r] # NoResize, ~overlapped
      PROVE  Tracked(resize[r]) /\ \A s \in Resizers \ {r} : resize[s] = NoResize
  BY <1>b DEF SlotInv, LimitTracked
<1>3. ASSUME NEW r \in Resizers, NEW n \in NewLimits, StartResize(r, n) PROVE LimitTracked'
  <2> SUFFICES ASSUME ~overlapped' PROVE LimitTracked'
    BY DEF LimitTracked
  <2>1. ~InFlight /\ ~Resizing
    BY <1>3 DEF StartResize
  <2>2. Holding' = {} /\ unreturned' = {}
    BY <1>3, <2>1 DEF StartResize, InFlight, Holding
  <2> DEFINE z == [pc |-> "counted", to |-> n, active |-> Cardinality(ActiveOps)]
  <2>3. resize' = [resize EXCEPT ![r] = z] /\ Cardinality(ActiveOps) <= n /\ ActiveOps' = ActiveOps
    BY <1>3 DEF StartResize, ActiveOps
  <2>4. z.pc = "counted" /\ z.to = n /\ z.active = Cardinality(ActiveOps) /\ z # NoResize
    BY <1>0
  <2>5. \A s \in Resizers : resize[s] = NoResize
    BY <2>1 DEF Resizing
  <2>6. PICK w : w = z
    OBVIOUS
  <2> HIDE DEF z
  <2>7. Tracked(w)'
    BY <2>2, <2>3, <2>4, <2>6 DEF Tracked
  <2> QED
    BY <1>a, <2>3, <2>4, <2>5, <2>6, <2>7
<1>4. ASSUME NEW r \in Resizers, MeasureResize(r) PROVE LimitTracked'
  <2> SUFFICES ASSUME ~overlapped' PROVE LimitTracked'
    BY DEF LimitTracked
  <2>1. resize[r] \in Counted /\ resize[r] # NoResize /\ resize[r].pc = "counted" /\ ~overlapped
    BY <1>0, <1>4, ResizeShapes DEF MeasureResize
  <2>2. /\ Holding = {} /\ unreturned = {}
        /\ resize[r].active = Cardinality(ActiveOps) /\ resize[r].active <= resize[r].to
        /\ \A s \in Resizers \ {r} : resize[s] = NoResize
    BY <1>b, <2>1 DEF Tracked
  <2>3. Cardinality(Holding) = 0 /\ Cardinality(unreturned) = 0
    BY <2>2, FS_EmptySet
  <2>4. permits + resize[r].active = capacity
    BY <1>0, <2>1, <2>2, <2>3 DEF SlotInv, PermitsBalance, Counted
  <2>5. PICK z : z = [pc |-> "adjusting", to |-> resize[r].to, delta |-> resize[r].to - (permits + resize[r].active)]
    OBVIOUS
  <2>6. z.pc = "adjusting" /\ z.to = resize[r].to /\ z.delta = resize[r].to - (permits + resize[r].active)
        /\ z # NoResize
    BY <1>0, <2>5
  <2>7. resize' = [resize EXCEPT ![r] = z] /\ permits' = permits /\ capacity' = capacity
    BY <1>4, <2>5 DEF MeasureResize
  <2>8. capacity' + z.delta = z.to /\ permits' + z.delta >= 0
    BY <1>0, <2>1, <2>2, <2>4, <2>6, <2>7 DEF Counted
  <2>9. Tracked(z)'
    BY <2>6, <2>8 DEF Tracked
  <2> QED
    BY <1>a, <2>2, <2>6, <2>7, <2>9
<1>5. ASSUME NEW r \in Resizers, AdjustPermits(r) PROVE LimitTracked'
  <2> SUFFICES ASSUME ~overlapped' PROVE LimitTracked'
    BY DEF LimitTracked
  <2>1. resize[r] \in Adjusting /\ resize[r] # NoResize /\ resize[r].pc = "adjusting" /\ ~overlapped
    BY <1>0, <1>5, ResizeShapes DEF AdjustPermits
  <2>2. /\ capacity + resize[r].delta = resize[r].to /\ permits + resize[r].delta >= 0
        /\ \A s \in Resizers \ {r} : resize[s] = NoResize
    BY <1>b, <2>1 DEF Tracked
  <2>3. resize[r].delta \in Int /\ resize[r].to \in Nat
    BY <2>1 DEF Adjusting
  <2>a. ASSUME NEW z, z = [pc |-> "storing", to |-> resize[r].to], capacity' = resize[r].to,
               resize' = [resize EXCEPT ![r] = z]
        PROVE  LimitTracked'
    <3>1. z.pc = "storing" /\ z.to = resize[r].to /\ z # NoResize
      BY <1>0, <2>a
    <3>2. Tracked(z)'
      BY <2>a, <3>1 DEF Tracked
    <3> QED
      BY <1>a, <2>2, <2>a, <3>1, <3>2
  <2>4. CASE resize[r].delta >= 0
    <3>1. /\ resize' = [resize EXCEPT ![r] = [pc |-> "storing", to |-> resize[r].to]]
          /\ capacity' = capacity + resize[r].delta
      BY <1>5, <2>3, <2>4 DEF AdjustPermits
    <3> QED
      BY <2>2, <2>a, <3>1
  <2>5. CASE resize[r].delta = -1
    <3>1. permits > 0
      BY <1>0, <2>2, <2>5
    <3>2. /\ resize' = [resize EXCEPT ![r] = [pc |-> "storing", to |-> resize[r].to]]
          /\ capacity' = capacity - 1
      BY <1>5, <2>5, <3>1 DEF AdjustPermits
    <3>3. capacity' = resize[r].to
      BY <1>0, <2>2, <2>3, <2>5, <3>2
    <3> QED
      BY <2>a, <3>2, <3>3
  <2>6. CASE resize[r].delta < -1
    <3>1. permits > 0
      BY <1>0, <2>2, <2>3, <2>6
    <3>2. PICK z : z = [pc |-> "adjusting", to |-> resize[r].to, delta |-> resize[r].delta + 1]
      OBVIOUS
    <3>3. resize' = [resize EXCEPT ![r] = z] /\ permits' = permits - 1 /\ capacity' = capacity - 1
      <4>1. resize[r].delta < 0 /\ ~(resize[r].delta >= 0) /\ resize[r].delta # -1
        BY <2>3, <2>6
      <4> QED
        BY <1>5, <3>1, <3>2, <4>1 DEF AdjustPermits
    <3>4. z.pc = "adjusting" /\ z.to = resize[r].to /\ z.delta = resize[r].delta + 1 /\ z # NoResize
      BY <1>0, <2>1, <3>2 DEF Adjusting
    <3>5. capacity' + z.delta = z.to /\ permits' + z.delta >= 0
      BY <1>0, <2>2, <2>3, <3>3, <3>4
    <3>6. Tracked(z)'
      BY <3>4, <3>5 DEF Tracked
    <3> QED
      BY <1>a, <2>2, <3>3, <3>4, <3>6
  <2> QED
    BY <2>3, <2>4, <2>5, <2>6
<1>6. ASSUME NEW r \in Resizers, StoreLimit(r) PROVE LimitTracked'
  <2> SUFFICES ASSUME ~overlapped' PROVE LimitTracked'
    BY DEF LimitTracked
  <2>1. resize[r] # NoResize /\ resize[r].pc = "storing" /\ ~overlapped
    BY <1>0, <1>6, ResizeShapes DEF StoreLimit
  <2>2. capacity = resize[r].to /\ \A s \in Resizers \ {r} : resize[s] = NoResize
    BY <1>b, <2>1 DEF Tracked
  <2>3. limit' = resize[r].to /\ capacity' = capacity /\ resize' = [resize EXCEPT ![r] = NoResize]
    BY <1>6 DEF StoreLimit
  <2>4. Tracked(NoResize)'
    BY <1>0 DEF Tracked
  <2> QED
    BY <1>a, <2>2, <2>3, <2>4
<1> QED
  BY <1>1, <1>2, <1>3, <1>4, <1>5, <1>6
  DEF SlotsNext, CheckBroker, TakePermit, EnterSlot, CancelAcquire, RemoveSlot, ReturnPermit, ExpireSlot,
      FindExpired, SweepExpired, Sweeping, UpdateScalingConfig, slotVars

\* The accounting of the slots holds in every state, for any number of callers, operations
\* and limit changes: acquire_slot, release_slot and the cleanup task neither lose nor make
\* a permit, however many changes of the limit overlap, and update_max_concurrent meets the
\* limit unless another change or a slot moved under it.
THEOREM SlotsAccounted == SlotsSpec => []SlotAccounting
<1>1. SlotInv /\ [SlotsNext]_slotVars => SlotInv'
  BY SlotsTypeStep, IssuedStep, BalanceStep, LimitStep DEF SlotInv
<1>2. SlotInv => SlotAccounting
  BY DEF SlotInv, SlotAccounting, PermitsBalance, LimitTracked
<1> QED
  BY <1>1, <1>2, SlotInvInit, PTL DEF SlotsSpec

-------------------------------------------------------------------------------
(* The removals of brokers: the inductive invariant.                       *)

\* A removal that has its slot and has neither finished nor failed.
Unfinished == {"granted", "NotStarted", "draining"}

RemovalStages == Unfinished \cup {"none", "abandoned", "removed", "failing", "Completed", "Failed"}

\* What the requests and the tasks hold.
RemovalTypeOK ==
    /\ found \in [SlotCallers -> SlotBrokers \cup {NoBroker}]
    /\ removal \in [SlotOps -> RemovalStages]

\* The limit stands.
LimitStands == ~Resizing /\ ~overlapped

\* The cleanup task takes away only what is older than an hour, so an unfinished removal
\* is in the map unless its hour is over.
RemovalHoldsSlot ==
    /\ sweep \subseteq expired
    /\ \A op \in SlotOps : removal[op] \in Unfinished /\ op \notin expired => op \in ActiveOps

RemovalInv == RemovalTypeOK /\ LimitStands /\ RemovalHoldsSlot

-------------------------------------------------------------------------------
(* Every step of a removal is a step of the slot manager or leaves it      *)
(* alone.                                                                  *)

\* A request asks for a slot with the broker it has found.
LEMMA ScalingStepIsSlotsStep ==
    ASSUME RemovalTypeOK, [ScalingNext]_scalingVars
    PROVE  [SlotsNext]_slotVars
<1>1. ASSUME NEW c \in SlotCallers, NEW b \in SlotBrokers, FindBroker(c, b) PROVE UNCHANGED slotVars
  BY <1>1 DEF FindBroker
<1>2. ASSUME NEW c \in SlotCallers, AcquireSlot(c) PROVE [SlotsNext]_slotVars
  <2>1. found[c] \in SlotBrokers
    BY <1>2 DEF AcquireSlot, RemovalTypeOK
  <2>2. \/ CheckBroker(c, found[c]) \/ UNCHANGED slotVars
        \/ TakePermit(c) \/ CancelAcquire(c) \/ EnterSlot(c)
    BY <1>2 DEF AcquireSlot
  <2> QED
    BY <2>1, <2>2 DEF SlotsNext
<1>3. ASSUME NEW op \in SlotOps, StartRemoval(op) PROVE UNCHANGED slotVars
  BY <1>3 DEF StartRemoval
<1>4. ASSUME NEW op \in SlotOps, DrainBroker(op) PROVE UNCHANGED slotVars
  BY <1>4 DEF DrainBroker
<1>5. ASSUME NEW op \in SlotOps, RemoveBroker(op) PROVE UNCHANGED slotVars
  BY <1>5 DEF RemoveBroker
<1>6. ASSUME NEW op \in SlotOps, ReleaseSlot(op) PROVE [SlotsNext]_slotVars
  BY <1>6 DEF ReleaseSlot, SlotsNext
<1>7. ASSUME NEW b \in SlotBrokers, ValidateAddition(b) PROVE UNCHANGED slotVars
  BY <1>7 DEF ValidateAddition
<1>8. ASSUME NEW b \in SlotBrokers, InsertBroker(b) PROVE UNCHANGED slotVars
  BY <1>8 DEF InsertBroker
<1>9. CASE SlotTime
  BY <1>9 DEF SlotTime, SlotsNext
<1>10. CASE UNCHANGED scalingVars
  BY <1>10 DEF scalingVars
<1> QED
  BY <1>1, <1>2, <1>3, <1>4, <1>5, <1>6, <1>7, <1>8, <1>9, <1>10 DEF ScalingNext, RemovalStep

-------------------------------------------------------------------------------
(* The inductive invariant holds.                                          *)

\* At the start there is no removal.
LEMMA RemovalInvInit == ScalingInit => RemovalInv
<1> SUFFICES ASSUME ScalingInit PROVE RemovalInv
  OBVIOUS
<1>1. RemovalTypeOK
  BY DEF ScalingInit, RemovalTypeOK, RemovalStages
<1>2. LimitStands
  BY DEF ScalingInit, SlotsInit, LimitStands, Resizing
<1>3. RemovalHoldsSlot
  BY DEF ScalingInit, SlotsInit, RemovalHoldsSlot, Unfinished
<1> QED
  BY <1>1, <1>2, <1>3 DEF RemovalInv

\* Every step keeps the shape.
LEMMA RemovalTypeStep ==
    ASSUME RemovalTypeOK, SlotsTypeOK, [ScalingNext]_scalingVars
    PROVE  RemovalTypeOK'
<1> USE DEF RemovalTypeOK, RemovalStages, Unfinished
<1>1. ASSUME NEW c \in SlotCallers, NEW b \in SlotBrokers, FindBroker(c, b) PROVE RemovalTypeOK'
  BY <1>1 DEF FindBroker
<1>2. ASSUME NEW c \in SlotCallers, AcquireSlot(c) PROVE RemovalTypeOK'
  <2>1. found' \in [SlotCallers -> SlotBrokers \cup {NoBroker}]
    BY <1>2 DEF AcquireSlot
  <2>2. removal' \in [SlotOps -> RemovalStages]
    BY <1>2 DEF AcquireSlot
  <2> QED
    BY <2>1, <2>2
<1>3. ASSUME NEW op \in SlotOps, StartRemoval(op) PROVE RemovalTypeOK'
  BY <1>3 DEF StartRemoval, Move
<1>4. ASSUME NEW op \in SlotOps, RemovalStep(op) PROVE RemovalTypeOK'
  BY <1>4 DEF RemovalStep, DrainBroker, RemoveBroker, ReleaseSlot, Move
<1>5. CASE UNCHANGED <<found, removal>>
  BY <1>5
<1> QED
  BY <1>1, <1>2, <1>3, <1>4, <1>5
  DEF ScalingNext, ValidateAddition, InsertBroker, SlotTime, removalVars, scalingVars

\* Nothing here changes the limit.
LEMMA LimitStandsStep ==
    ASSUME LimitStands, [ScalingNext]_scalingVars
    PROVE  LimitStands'
<1>1. ASSUME Notice, UNCHANGED resize PROVE LimitStands'
  BY <1>1 DEF Notice, LimitStands, Resizing
<1>2. ASSUME UNCHANGED <<resize, overlapped>> PROVE LimitStands'
  BY <1>2 DEF LimitStands, Resizing
<1> QED
  BY <1>1, <1>2
  DEF ScalingNext, FindBroker, AcquireSlot, CheckBroker, TakePermit, EnterSlot, CancelAcquire,
      StartRemoval, RemovalStep, DrainBroker, RemoveBroker, ReleaseSlot, RemoveSlot, ReturnPermit,
      ValidateAddition, InsertBroker, SlotTime, ExpireSlot, Sweeping, FindExpired, SweepExpired,
      slotVars, scalingVars

\* A removal keeps its slot until it is finished or its hour is over.
LEMMA RemovalHoldsSlotStep ==
    ASSUME SlotsTypeOK, RemovalInv, [ScalingNext]_scalingVars
    PROVE  RemovalHoldsSlot'
<1> USE DEF RemovalInv, RemovalTypeOK, RemovalHoldsSlot, Unfinished
<1>1. ASSUME NEW c \in SlotCallers, AcquireSlot(c) PROVE RemovalHoldsSlot'
  <2>1. CASE EnterSlot(c) /\ removal' = [removal EXCEPT ![issued'] = "granted"]
    <3>1. issued' \in SlotOps /\ ActiveOps' = ActiveOps \cup {issued'}
      BY <2>1, SlotConstants DEF EnterSlot, ActiveOps, SlotsTypeOK, SlotOps
    <3> QED
      BY <2>1, <3>1 DEF EnterSlot
  <2>2. CASE UNCHANGED <<sweep, expired, active, removal>>
    BY <2>2 DEF ActiveOps
  <2> QED
    BY <1>1, <2>1, <2>2 DEF AcquireSlot, CheckBroker, TakePermit, CancelAcquire, slotVars
<1>2. ASSUME NEW op \in SlotOps, StartRemoval(op) PROVE RemovalHoldsSlot'
  BY <1>2 DEF StartRemoval, Move, slotVars, ActiveOps
<1>3. ASSUME NEW op \in SlotOps, DrainBroker(op) PROVE RemovalHoldsSlot'
  BY <1>3 DEF DrainBroker, Move, slotVars, ActiveOps
<1>4. ASSUME NEW op \in SlotOps, RemoveBroker(op) PROVE RemovalHoldsSlot'
  BY <1>4 DEF RemoveBroker, Move, slotVars, ActiveOps
<1>5. ASSUME NEW op \in SlotOps, ReleaseSlot(op) PROVE RemovalHoldsSlot'
  <2>1. CASE removal[op] \in {"removed", "failing"} /\ RemoveSlot(op) /\ UNCHANGED removal
    <3>1. ActiveOps' = ActiveOps \ {op}
      BY <2>1 DEF RemoveSlot, Without, ActiveOps
    <3> QED
      BY <2>1, <3>1 DEF RemoveSlot
  <2>2. CASE ReturnPermit(op) /\ UNCHANGED removal
    BY <2>2 DEF ReturnPermit, ActiveOps
  <2>3. CASE UNCHANGED slotVars /\ (Move(op, "removed", "Completed") \/ Move(op, "failing", "Failed"))
    BY <2>3 DEF slotVars, Move, ActiveOps
  <2> QED
    BY <1>5, <2>1, <2>2, <2>3 DEF ReleaseSlot
<1>6. CASE SlotTime
  <2>1. ASSUME NEW op \in SlotOps, ExpireSlot(op) PROVE RemovalHoldsSlot'
    BY <1>6, <2>1 DEF SlotTime, removalVars, ExpireSlot, ActiveOps
  <2>2. CASE FindExpired
    BY <1>6, <2>2 DEF SlotTime, removalVars, FindExpired, ActiveOps
  <2>3. CASE SweepExpired
    <3>1. ActiveOps' = ActiveOps \ (sweep \cap ActiveOps)
      BY <2>3 DEF SweepExpired, Without, ActiveOps
    <3> QED
      BY <1>6, <2>3, <3>1 DEF SlotTime, removalVars, SweepExpired
  <2> QED
    BY <1>6, <2>1, <2>2, <2>3 DEF SlotTime, Sweeping
<1>7. CASE UNCHANGED <<sweep, expired, active, removal>>
  BY <1>7 DEF ActiveOps
<1> QED
  BY <1>1, <1>2, <1>3, <1>4, <1>5, <1>6, <1>7
  DEF ScalingNext, RemovalStep, FindBroker, ValidateAddition, InsertBroker, slotVars, removalVars, scalingVars

-------------------------------------------------------------------------------
(* The theorems.                                                           *)

\* The invariant of the slots and that of the removals, together.
ScalingInv == SlotInv /\ RemovalInv

\* Both invariants hold in every state.
LEMMA ScalingInvariant == ScalingSpec => []ScalingInv
<1>1. ScalingInit => ScalingInv
  BY SlotInvInit, RemovalInvInit DEF ScalingInit, ScalingInv
<1>2. ScalingInv /\ [ScalingNext]_scalingVars => ScalingInv'
  <2> SUFFICES ASSUME ScalingInv, [ScalingNext]_scalingVars PROVE ScalingInv'
    OBVIOUS
  <2>1. SlotInv /\ SlotsTypeOK /\ RemovalInv /\ RemovalTypeOK /\ LimitStands
    BY DEF ScalingInv, SlotInv, RemovalInv
  <2>2. [SlotsNext]_slotVars
    BY <2>1, ScalingStepIsSlotsStep
  <2>3. SlotInv'
    BY <2>1, <2>2, SlotsTypeStep, IssuedStep, BalanceStep, LimitStep DEF SlotInv
  <2>4. RemovalInv'
    BY <2>1, RemovalTypeStep, LimitStandsStep, RemovalHoldsSlotStep DEF RemovalInv
  <2> QED
    BY <2>3, <2>4 DEF ScalingInv
<1> QED
  BY <1>1, <1>2, PTL DEF ScalingSpec

\* remove_broker and its task use the slot manager by its own operations only: whatever a
\* removal does, the slots behave as DecommissionSlots says (acquire_decommission_slot and
\* release_decommission_slot, called from src/src/scaling/manager.rs).
THEOREM ScalingImplementsSlots == ScalingSpec => SlotsSpec
<1>1. ScalingInit => SlotsInit
  BY DEF ScalingInit
<1>2. ScalingInv /\ [ScalingNext]_scalingVars => [SlotsNext]_slotVars
  BY ScalingStepIsSlotsStep DEF ScalingInv, RemovalInv
<1> QED
  BY <1>1, <1>2, ScalingInvariant, PTL DEF ScalingSpec, SlotsSpec

\* No more brokers are drained at once than the limit allows, for any number of requests,
\* failures and additions, as long as no removal outlives its slot.
THEOREM DecommissionsAreLimited == ScalingSpec => []DecommissionsLimited
<1>1. ScalingInv => DecommissionsLimited
  <2> SUFFICES ASSUME ScalingInv PROVE DecommissionsLimited
    OBVIOUS
  <2>1. SlotsTypeOK /\ RemovalHoldsSlot /\ LimitStands /\ PermitsBalance /\ LimitTracked
    BY DEF ScalingInv, SlotInv, RemovalInv
  <2>2. capacity = limit
    BY <2>1 DEF LimitStands, LimitTracked
  <2>3. /\ IsFiniteSet(ActiveOps) /\ Cardinality(ActiveOps) \in Nat
        /\ Cardinality(Holding) \in Nat /\ Cardinality(unreturned) \in Nat
    BY <2>1, SetsFinite
  <2>4. permits \in Nat /\ limit \in Nat
    BY <2>1 DEF SlotsTypeOK
  <2>5. Cardinality(ActiveOps) <= limit
    BY <2>1, <2>2, <2>3, <2>4 DEF PermitsBalance
  <2>6. AtWork \ expired \in SUBSET ActiveOps
    BY <2>1 DEF AtWork, RemovalHoldsSlot, Unfinished
  <2>7. /\ Cardinality(AtWork \ expired) \in Nat
        /\ Cardinality(AtWork \ expired) <= Cardinality(ActiveOps)
    BY <2>3, <2>6, FS_Subset, FS_CardinalityType
  <2> QED
    BY <2>3, <2>4, <2>5, <2>7 DEF DecommissionsLimited
<1> QED
  BY <1>1, ScalingInvariant, PTL

===============================================================================
