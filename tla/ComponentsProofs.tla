-------------------------- MODULE ComponentsProofs --------------------------
(***************************************************************************)
(* Proofs about the components that MCComponents checks together.  The     *)
(* navigation manager, for every number of commands and moves and every    *)
(* depth of the queue: the goals sent are those of the commands, in their  *)
(* order and to the anchor stored last, and a command is lost only to the  *)
(* depth of the queue.  The config_dynamic_modifier_node, for every file   *)
(* and every configuration: through crashes and failed writes a click      *)
(* marks one area only, and without them the file holds what the areas'    *)
(* turns brought.  The costmap layer that frees removed areas, for every   *)
(* costmap and set of areas.  The serial port class, for every number of   *)
(* bytes, length and time-out: a byte reaches its caller once and in       *)
(* order, or is lost to one of the ends the code loses bytes at.  The      *)
(* planner's parameters, for all values and any number of changes.  The    *)
(* tracker of moving obstacles, for every row of cells, map and number of  *)
(* tracks: the optimal assignment is a matching, each blob has one track   *)
(* and no track jumps.  The optimal planner's band, for all numbers of     *)
(* samples, times, positions and failures of the optimizer: it has its     *)
(* samples, leads to the goal and keeps its rest.                          *)
(***************************************************************************)
EXTENDS Components, SequenceTheorems, FiniteSetTheorems, WellFoundedInduction, TLAPS

-----------------------------------------------------------------------------
(* The commands and the goals sent *)

\* The commands below the queue have been taken or lost, those in it are still to come.
Below == Len(log) - Len(queue)

\* The queue holds the newest commands in their order, and none of them has been taken.
QueueInv ==
  /\ Len(queue) <= Len(log) /\ Len(anchors) = Len(log)
  /\ \A i \in 1 .. Len(queue) : queue[i] = Below + i
  /\ \A n \in taken : n <= Below
  /\ \A n \in 1 .. Len(log) : n + QueueDepth > Len(log) => n \in taken \/ n > Below

\* The record command r is the last one taken before command n.
LastRecord(r, n) ==
  /\ r < n /\ log[r] = Record
  /\ \A m \in taken : log[m] = Record /\ m < n => m <= r

\* A goal goes where its command says.
Meant(g) ==
  /\ g.number \in taken
  /\ \/ log[g.number] = GoToTarget /\ g.to = Target
     \/ /\ log[g.number] = GoToRecorded
        /\ \E r \in taken : LastRecord(r, g.number) /\ anchors[r] = g.to

\* What is recorded is the anchor of the last record command taken.
RecordedInv ==
  hasRecorded => \E r \in taken : LastRecord(r, Below + 1) /\ anchors[r] = recorded

\* The goals sent, and the one that waits, are meant, and each is of a later command.
GoalsInv ==
  /\ \A i \in 1 .. Len(sent) : Meant(sent[i])
  /\ sending # NoGoal => Meant(sending)
  /\ \A i \in 1 .. Len(sent) - 1 : sent[i].number < sent[i + 1].number
  /\ sending # NoGoal => \A i \in 1 .. Len(sent) : sent[i].number < sending.number

IInv == TypeOK /\ QueueInv /\ RecordedInv /\ GoalsInv

-----------------------------------------------------------------------------
\* Initially nothing has been asked for.
LEMMA InitHolds == Init => IInv
<1> SUFFICES ASSUME Init PROVE IInv
  OBVIOUS
<1>1. TypeOK
  <2>1. 0 \in Positions
    BY ManagerAssumption DEF Positions
  <2>2. log \in Seq(Commands) /\ queue \in Seq(CommandNumbers) /\ sent \in Seq(GoalRecords)
          /\ anchors \in Seq(Positions)
    BY DEF Init
  <2>3. Len(queue) <= QueueDepth
    BY ManagerAssumption DEF Init
  <2> QED BY <2>1, <2>2, <2>3 DEF Init, TypeOK, Origin
<1>2. QueueInv /\ RecordedInv /\ GoalsInv
  BY DEF Init, QueueInv, RecordedInv, GoalsInv, Below
<1> QED BY <1>1, <1>2 DEF IInv

\* A callback takes the oldest command of the queue, which is newer than any taken before.
LEMMA TakesNext ==
  ASSUME TypeOK, QueueInv, NEW n, NEW c, Take(n, c)
  PROVE  /\ n \in 1 .. Len(log) /\ n = Below + 1 /\ log[n] = c /\ n \in CommandNumbers
         /\ \A m \in taken : m < n
         /\ queue' \in Seq(CommandNumbers) /\ Len(queue') = Len(queue) - 1
         /\ \A i \in 1 .. Len(queue') : queue'[i] = queue[i + 1]
<1>1. /\ queue \in Seq(CommandNumbers) /\ queue # <<>> /\ n = Head(queue) /\ log \in Seq(Commands)
      /\ log[n] = c /\ queue' = Tail(queue)
  BY DEF TypeOK, Take
<1>2. Len(queue) \in Nat /\ Len(queue) > 0 /\ Len(log) \in Nat /\ queue[1] = n /\ n \in CommandNumbers
  BY <1>1
<1>3. n = Below + 1 /\ n \in 1 .. Len(log)
  BY <1>2 DEF QueueInv, Below
<1>4. \A m \in taken : m < n
  BY <1>2, <1>3 DEF QueueInv, Below, TypeOK, CommandNumbers
<1>5. /\ queue' \in Seq(CommandNumbers) /\ Len(queue') = Len(queue) - 1
      /\ \A i \in 1 .. Len(queue') : queue'[i] = queue[i + 1]
  BY <1>1
<1> QED BY <1>1, <1>2, <1>3, <1>4, <1>5

\* A new command goes to the end of the queue, whose oldest goes when it is full.
LEMMA KeepsLast ==
  ASSUME TypeOK, QueueInv, NEW c \in Commands, Publish(c)
  PROVE  /\ log' = Append(log, c) /\ Len(log') = Len(log) + 1 /\ Len(log') \in CommandNumbers
         /\ queue' \in Seq(CommandNumbers) /\ Len(queue') <= QueueDepth
         /\ \/ Len(queue) < QueueDepth /\ Len(queue') = Len(queue) + 1
            \/ Len(queue) = QueueDepth /\ Len(queue') = Len(queue)
         /\ \A i \in 1 .. Len(queue') : queue'[i] = Len(log') - Len(queue') + i
<1>1. log \in Seq(Commands) /\ queue \in Seq(CommandNumbers) /\ Len(queue) <= QueueDepth
        /\ QueueDepth \in Nat \ {0}
  BY ManagerAssumption DEF TypeOK
<1>2. log' = Append(log, c) /\ queue' = KeepLast(queue, Len(log) + 1) /\ Len(log) < MaxCommands
  BY DEF Publish
<1>3. Len(log') = Len(log) + 1 /\ Len(log) \in Nat /\ Len(queue) \in Nat
        /\ Len(log) + 1 \in CommandNumbers
  BY <1>1, <1>2, ManagerAssumption DEF CommandNumbers
<1>4. \A i \in 1 .. Len(queue) : queue[i] = Len(log) - Len(queue) + i
  BY DEF QueueInv, Below
<1>5. CASE Len(queue) < QueueDepth
  <2>1. queue' = Append(queue, Len(log) + 1)
    BY <1>2, <1>5 DEF KeepLast
  <2>2. queue' \in Seq(CommandNumbers) /\ Len(queue') = Len(queue) + 1
    BY <1>1, <1>3, <2>1
  <2>3. \A i \in 1 .. Len(queue') : queue'[i] = IF i = Len(queue') THEN Len(log) + 1 ELSE queue[i]
    BY <1>1, <1>3, <2>1
  <2>4. \A i \in 1 .. Len(queue') : queue'[i] = Len(log') - Len(queue') + i
    BY <1>3, <1>4, <2>2, <2>3
  <2> QED BY <1>1, <1>2, <1>3, <1>5, <2>2, <2>4
<1>6. CASE Len(queue) = QueueDepth
  <2>1. queue' = Append(Tail(queue), Len(log) + 1) /\ queue # <<>>
    BY <1>1, <1>2, <1>6 DEF KeepLast
  <2>2. /\ Tail(queue) \in Seq(CommandNumbers) /\ Len(Tail(queue)) = Len(queue) - 1
        /\ \A i \in 1 .. Len(queue) - 1 : Tail(queue)[i] = queue[i + 1]
    BY <1>1, <2>1
  <2>3. queue' \in Seq(CommandNumbers) /\ Len(queue') = Len(queue)
    BY <1>1, <1>3, <2>1, <2>2
  <2>4. \A i \in 1 .. Len(queue') :
          queue'[i] = IF i = Len(queue) THEN Len(log) + 1 ELSE queue[i + 1]
    <3> DEFINE t == Tail(queue)
    <3>1. t \in Seq(CommandNumbers) /\ Len(t) = Len(queue) - 1 /\ queue' = Append(t, Len(log) + 1)
      BY <2>1, <2>2
    <3>2. \A i \in 1 .. Len(t) : t[i] = queue[i + 1]
      BY <2>2, <3>1
    <3> HIDE DEF t
    <3> QED BY <1>3, <2>3, <3>1, <3>2
  <2>5. \A i \in 1 .. Len(queue') : queue'[i] = Len(log') - Len(queue') + i
    <3>1. ASSUME NEW i \in 1 .. Len(queue') PROVE queue'[i] = Len(log') - Len(queue') + i
      <4>1. i \in 1 .. Len(queue) /\ (i # Len(queue) => i + 1 \in 1 .. Len(queue))
        BY <1>3, <2>3
      <4>2. CASE i = Len(queue)
        BY <1>3, <2>3, <2>4, <4>1, <4>2
      <4>3. CASE i # Len(queue)
        <5>1. queue'[i] = Len(log) - Len(queue) + (i + 1)
          BY <1>4, <2>4, <4>1, <4>3
        <5> QED BY <1>3, <2>3, <4>1, <5>1
      <4> QED BY <4>2, <4>3
    <3> QED BY <3>1
  <2> QED BY <1>1, <1>2, <1>3, <1>6, <2>3, <2>5
<1> QED BY <1>1, <1>3, <1>5, <1>6

\* Every step keeps the types.
LEMMA Typed == TypeOK /\ QueueInv /\ Next => TypeOK'
<1> SUFFICES ASSUME TypeOK, QueueInv, Next PROVE TypeOK'
  OBVIOUS
<1> USE DEF node, outside
<1>1. ASSUME NEW c \in Commands, Publish(c) PROVE TypeOK'
  <2>1. log' \in Seq(Commands) /\ anchors' \in Seq(Positions)
    BY <1>1, ManagerAssumption DEF TypeOK, Publish, Origin, Positions
  <2> QED BY <1>1, <2>1, KeepsLast DEF TypeOK, Publish
<1>2. CASE Move \/ ServerChanges \/ UpdateDistanceInfo
  <2>1. tf' \in Positions
    BY <1>2, ManagerAssumption DEF TypeOK, Move, ServerChanges, UpdateDistanceInfo, Positions
  <2>2. position' \in Positions
    BY <1>2 DEF TypeOK, Move, ServerChanges, UpdateDistanceInfo
  <2>3. server' \in BOOLEAN
    BY <1>2, Zenon DEF TypeOK, Move, ServerChanges, UpdateDistanceInfo, outside
  <2> QED BY <1>2, <2>1, <2>2, <2>3 DEF TypeOK, Move, ServerChanges, UpdateDistanceInfo
<1>3. ASSUME NEW n \in CommandNumbers, RecordPosition(n) PROVE TypeOK'
  <2>1. n \in 1 .. Len(anchors) /\ queue' \in Seq(CommandNumbers) /\ Len(queue') <= QueueDepth
    BY <1>3, TakesNext, ManagerAssumption DEF RecordPosition, QueueInv, TypeOK
  <2>2. anchors' \in Seq(Positions)
    BY <1>3, <2>1, ExceptSeq DEF RecordPosition, TypeOK
  <2> QED BY <1>3, <2>1, <2>2 DEF TypeOK, RecordPosition, Take
<1>4. ASSUME NEW n \in CommandNumbers, NavigateToRecorded(n) \/ NavigateToTarget(n) PROVE TypeOK'
  <2>1. queue' \in Seq(CommandNumbers) /\ Len(queue') <= QueueDepth
    BY <1>4, TakesNext, ManagerAssumption DEF NavigateToRecorded, NavigateToTarget, TypeOK
  <2>2. sending' \in GoalRecords \union {NoGoal}
    BY <1>4 DEF NavigateToRecorded, NavigateToTarget, Goal, GoalRecords, TypeOK
  <2> QED BY <1>4, <2>1, <2>2 DEF TypeOK, NavigateToRecorded, NavigateToTarget, Take
<1>5. CASE SendGoal
  <2>1. sending \in GoalRecords
    BY <1>5 DEF SendGoal, Free, TypeOK
  <2>2. sent' \in Seq(GoalRecords)
    BY <1>5, <2>1 DEF SendGoal, TypeOK
  <2> QED BY <1>5, <2>2 DEF SendGoal, TypeOK
<1>6. CASE GiveUp
  BY <1>6 DEF GiveUp, TypeOK
<1> QED BY <1>1, <1>2, <1>3, <1>4, <1>5, <1>6 DEF Next, Callback, CommandNumbers

-----------------------------------------------------------------------------
\* Taking the oldest command and publishing a new one keep the queue in order.
LEMMA QueueKept == TypeOK /\ QueueInv /\ Next => QueueInv'
<1> SUFFICES ASSUME TypeOK, QueueInv, Next PROVE QueueInv'
  OBVIOUS
<1>1. CASE UNCHANGED <<log, queue, anchors, taken>>
  BY <1>1 DEF QueueInv, Below
<1>2. ASSUME NEW c \in Commands, Publish(c) PROVE QueueInv'
  <2>1. taken' = taken /\ Len(anchors') = Len(anchors) + 1
    BY <1>2 DEF Publish, TypeOK
  <2>2. /\ Len(log) \in Nat /\ Len(queue) \in Nat /\ Len(queue') \in Nat /\ QueueDepth \in Nat
        /\ taken \subseteq Nat
    BY <1>2, KeepsLast, ManagerAssumption DEF TypeOK, CommandNumbers
  <2>3. /\ Len(log') = Len(log) + 1
        /\ \/ Len(queue) < QueueDepth /\ Len(queue') = Len(queue) + 1
           \/ Len(queue) = QueueDepth /\ Len(queue') = Len(queue)
        /\ \A i \in 1 .. Len(queue') : queue'[i] = Len(log') - Len(queue') + i
    BY <1>2, KeepsLast
  <2>4. Below' \in {Below, Below + 1} /\ (Below' = Below + 1 => Len(queue') = QueueDepth)
    BY <2>2, <2>3 DEF Below
  <2>5. \A m \in taken' : m <= Below'
    <3>1. \A m \in taken : m \in Nat /\ m <= Below
      BY <2>2 DEF QueueInv
    <3>2. Below \in Int
      BY <2>2 DEF Below
    <3> QED BY <2>1, <2>4, <3>1, <3>2
  <2>6. ASSUME NEW m \in 1 .. Len(log'), m + QueueDepth > Len(log') PROVE m \in taken' \/ m > Below'
    <3>1. CASE m = Len(log')
      <4>1. Len(queue') > 0
        BY <2>2, <2>3, ManagerAssumption
      <4> QED BY <2>2, <2>3, <3>1, <4>1 DEF Below
    <3>2. CASE m # Len(log')
      <4>1. m \in 1 .. Len(log) /\ m + QueueDepth > Len(log)
        BY <2>2, <2>3, <2>6, <3>2
      <4>2. m \in taken \/ m > Below
        BY <4>1 DEF QueueInv
      <4> QED BY <2>1, <2>2, <2>3, <2>4, <2>6, <4>2 DEF Below
    <3> QED BY <3>1, <3>2
  <2>7. Len(queue') <= Len(log') /\ Len(anchors') = Len(log')
    BY <2>1, <2>2, <2>3 DEF QueueInv
  <2> QED BY <2>3, <2>5, <2>6, <2>7 DEF QueueInv, Below
<1>3. ASSUME NEW n \in CommandNumbers, NEW c, Take(n, c), UNCHANGED log, Len(anchors') = Len(anchors)
      PROVE  QueueInv'
  <2>1. taken' = taken \union {n} /\ log' = log
    BY <1>3 DEF Take
  <2>2. Len(log) \in Nat /\ Len(queue) \in Nat /\ QueueDepth \in Nat /\ taken \subseteq Nat
    BY ManagerAssumption DEF TypeOK, CommandNumbers
  <2>3. Len(queue') = Len(queue) - 1 /\ n = Below + 1 /\ n \in 1 .. Len(log)
    BY <1>3, TakesNext
  <2>4. \A i \in 1 .. Len(queue') : queue'[i] = Len(log) - Len(queue') + i
    <3>1. ASSUME NEW i \in 1 .. Len(queue') PROVE queue'[i] = Len(log) - Len(queue') + i
      <4>1. queue'[i] = queue[i + 1] /\ i + 1 \in 1 .. Len(queue)
        BY <1>3, <2>2, <2>3, TakesNext
      <4>2. queue[i + 1] = Len(log) - Len(queue) + (i + 1)
        BY <4>1 DEF QueueInv, Below
      <4> QED BY <2>2, <2>3, <4>1, <4>2
    <3> QED BY <3>1
  <2>5. \A m \in taken' : m <= Len(log) - Len(queue')
    BY <1>3, <2>1, <2>2, <2>3, TakesNext DEF Below
  <2>6. Below' = Below + 1 /\ Below' = n
    BY <2>1, <2>2, <2>3 DEF Below
  <2>7. ASSUME NEW m \in 1 .. Len(log), m + QueueDepth > Len(log) PROVE m \in taken' \/ m > Below'
    <3>1. m \in taken \/ m > Below
      BY <2>7 DEF QueueInv
    <3> QED BY <2>1, <2>2, <2>3, <2>6, <3>1 DEF Below
  <2>8. Len(queue') <= Len(log') /\ Len(anchors') = Len(log')
    BY <1>3, <2>1, <2>2, <2>3 DEF QueueInv
  <2> QED BY <2>1, <2>4, <2>5, <2>7, <2>8 DEF QueueInv, Below
<1>4. ASSUME NEW n \in CommandNumbers, RecordPosition(n) PROVE QueueInv'
  <2>1. Len(anchors') = Len(anchors)
    BY <1>4 DEF RecordPosition, TypeOK
  <2> QED BY <1>3, <1>4, <2>1 DEF RecordPosition, outside
<1> QED BY <1>1, <1>2, <1>3, <1>4
        DEF Next, Callback, Move, ServerChanges, UpdateDistanceInfo, NavigateToRecorded,
            NavigateToTarget, SendGoal, GiveUp, outside, node, CommandNumbers

\* What a goal means is settled when its command is taken: later commands do not change it.
LEMMA MeaningKept ==
  ASSUME TypeOK, QueueInv, NEW g \in GoalRecords, Meant(g),
         taken \subseteq taken', taken' \subseteq CommandNumbers, \A m \in taken' \ taken : m > Below,
         \A m \in taken : log'[m] = log[m] /\ anchors'[m] = anchors[m]
  PROVE  Meant(g)'
<1>1. g.number \in taken /\ taken \subseteq Nat /\ g.number <= Below /\ Below \in Int
  <2>1. g.number \in taken /\ taken \subseteq Nat
    BY ManagerAssumption DEF Meant, TypeOK, CommandNumbers
  <2>2. Below \in Int
    BY DEF Below, TypeOK
  <2> QED BY <2>1, <2>2 DEF QueueInv
<1>2. \A m \in taken' : m < g.number => m \in taken
  <2>1. ASSUME NEW m \in taken', m < g.number, m \notin taken PROVE FALSE
    <3>1. m \in Nat /\ m > Below
      <4>1. m \in CommandNumbers /\ m > Below
        BY <2>1
      <4> QED BY <4>1, ManagerAssumption DEF CommandNumbers
    <3>2. g.number \in Nat
      BY <1>1
    <3> QED BY <1>1, <2>1, <3>1, <3>2
  <2> QED BY <2>1
<1>3. ASSUME NEW r \in taken, LastRecord(r, g.number), anchors[r] = g.to
      PROVE  LastRecord(r, g.number)' /\ anchors'[r] = g.to
  BY <1>2, <1>3 DEF LastRecord
<1> QED BY <1>1, <1>3 DEF Meant

\* The commands go on to be taken in their order, so the goals sent keep their meaning, and the
\* one that is made is that of the newest command taken.
LEMMA GoalsKept ==
  TypeOK /\ QueueInv /\ RecordedInv /\ GoalsInv /\ Next => RecordedInv' /\ GoalsInv'
<1> SUFFICES ASSUME TypeOK, QueueInv, RecordedInv, GoalsInv, Next
             PROVE  RecordedInv' /\ GoalsInv'
  OBVIOUS
<1>0. /\ taken \subseteq Nat /\ Below \in Int /\ sent \in Seq(GoalRecords) /\ Len(sent) \in Nat
      /\ \A m \in taken : m \in 1 .. Len(log) /\ m <= Below
      /\ \A i \in 1 .. Len(sent) : sent[i] \in GoalRecords
      /\ sending # NoGoal => sending \in GoalRecords
  <2>1. taken \subseteq Nat /\ \A m \in taken : m >= 1
    BY ManagerAssumption DEF TypeOK, CommandNumbers
  <2>2. Below \in Int /\ Below <= Len(log) /\ Len(log) \in Nat
    BY DEF Below, TypeOK
  <2>3. sent \in Seq(GoalRecords) /\ (sending # NoGoal => sending \in GoalRecords)
    BY DEF TypeOK
  <2> QED BY <2>1, <2>2, <2>3 DEF QueueInv
<1>1. CASE UNCHANGED <<log, taken, anchors, queue, sent, sending, recorded, hasRecorded>>
  <2>1. UNCHANGED Below
    BY <1>1 DEF Below
  <2> QED BY <1>1, <2>1 DEF RecordedInv, GoalsInv, Meant, LastRecord
<1>2. ASSUME taken' = taken, \A m \in taken : log'[m] = log[m] /\ anchors'[m] = anchors[m],
             NEW g \in GoalRecords, Meant(g)
      PROVE  Meant(g)'
  BY <1>2, MeaningKept DEF TypeOK
<1>3. ASSUME NEW c \in Commands, Publish(c) PROVE RecordedInv' /\ GoalsInv'
  <2>1. /\ taken' = taken /\ UNCHANGED <<sent, sending, recorded, hasRecorded>>
        /\ Below' \in {Below, Below + 1}
    <3>1. Len(log') = Len(log) + 1 /\ (Len(queue') = Len(queue) + 1 \/ Len(queue') = Len(queue))
      BY <1>3, KeepsLast
    <3>2. Len(log) \in Nat /\ Len(queue) \in Nat
      BY DEF TypeOK
    <3>3. Below' \in {Below, Below + 1}
      BY <3>1, <3>2 DEF Below
    <3> QED BY <1>3, <3>3 DEF Publish, node
  <2>2. \A m \in taken : log'[m] = log[m] /\ anchors'[m] = anchors[m]
    BY <1>0, <1>3 DEF Publish, TypeOK, QueueInv
  <2>3. GoalsInv'
    BY <1>0, <1>2, <2>1, <2>2 DEF GoalsInv
  <2>4. RecordedInv'
    <3>1. CASE hasRecorded
      <4>1. PICK r \in taken : LastRecord(r, Below + 1) /\ anchors[r] = recorded
        BY <3>1 DEF RecordedInv
      <4>2. LastRecord(r, Below + 1)'
        <5>1. r < Below + 1 /\ log'[r] = Record /\ r \in Nat /\ taken' = taken
          BY <1>0, <2>1, <2>2, <4>1 DEF LastRecord
        <5>2. r < Below' + 1
          <6>1. Below \in Int /\ (Below' = Below \/ Below' = Below + 1)
            BY <1>0, <2>1
          <6> QED BY <5>1, <6>1
        <5>3. ASSUME NEW m \in taken, log'[m] = Record PROVE m <= r
          <6>1. log[m] = Record
            BY <2>2, <5>3
          <6>2. m \in Nat /\ m <= Below /\ Below \in Int
            BY <1>0
          <6>3. m < Below + 1
            BY <6>2
          <6> QED BY <4>1, <6>1, <6>3 DEF LastRecord
        <5> QED BY <5>1, <5>2, <5>3 DEF LastRecord
      <4> QED BY <2>1, <2>2, <4>1, <4>2 DEF RecordedInv
    <3> QED BY <2>1, <3>1 DEF RecordedInv
  <2> QED BY <2>3, <2>4
<1>4. ASSUME NEW n \in CommandNumbers, NEW c, Take(n, c), UNCHANGED log,
             \A m \in taken : anchors'[m] = anchors[m]
      PROVE  /\ taken' = taken \union {n} /\ n = Below + 1 /\ Below' = n /\ log[n] = c /\ sending = NoGoal
             /\ \A g \in GoalRecords : Meant(g) => Meant(g)' /\ g.number < n
  <2>1. taken' = taken \union {n} /\ sending = NoGoal
    BY <1>4 DEF Take, Free
  <2>2. n = Below + 1 /\ log[n] = c /\ Len(queue') = Len(queue) - 1
    BY <1>4, TakesNext
  <2>3. Below' = n
    BY <1>4, <2>2 DEF Below, TypeOK
  <2>4. ASSUME NEW g \in GoalRecords, Meant(g) PROVE Meant(g)' /\ g.number < n
    <3>1. \A m \in taken' \ taken : m > Below
      BY <1>0, <2>1, <2>2
    <3>2. taken' \subseteq CommandNumbers
      BY <2>1 DEF TypeOK
    <3>3. Meant(g)'
      BY <1>4, <2>1, <2>4, <3>1, <3>2, MeaningKept
    <3>4. g.number \in taken
      BY <2>4 DEF Meant
    <3>5. g.number < n
      BY <1>4, <3>4, TakesNext
    <3> QED BY <3>3, <3>5
  <2> QED BY <2>1, <2>2, <2>3, <2>4
<1>5. ASSUME NEW n \in CommandNumbers, RecordPosition(n) PROVE RecordedInv' /\ GoalsInv'
  <2>1. /\ Take(n, Record) /\ UNCHANGED <<log, sending, sent>> /\ recorded' = position
        /\ hasRecorded' = TRUE /\ anchors' = [anchors EXCEPT ![n] = position]
    BY <1>5 DEF RecordPosition, outside
  <2>2. n \notin taken /\ n \in 1 .. Len(log) /\ \A m \in taken : m < n
    BY <1>0, <2>1, TakesNext
  <2>3. \A m \in taken : anchors'[m] = anchors[m]
    BY <2>1, <2>2 DEF TypeOK
  <2>4. /\ taken' = taken \union {n} /\ Below' = n /\ log[n] = Record /\ sending = NoGoal
        /\ \A g \in GoalRecords : Meant(g) => Meant(g)'
    BY <1>4, <2>1, <2>3
  <2>5. GoalsInv'
    BY <1>0, <2>1, <2>4 DEF GoalsInv
  <2>6. anchors'[n] = position
    BY <2>1, <2>2 DEF TypeOK, QueueInv
  <2>7. LastRecord(n, Below + 1)'
    BY <1>0, <2>1, <2>2, <2>4 DEF LastRecord
  <2> QED BY <2>1, <2>4, <2>5, <2>6, <2>7 DEF RecordedInv
<1>6. ASSUME NEW n \in CommandNumbers, NEW c \in {GoToRecorded, GoToTarget}, Take(n, c),
             UNCHANGED <<log, anchors, sent, recorded, hasRecorded>>
      PROVE  /\ taken' = taken \union {n} /\ n = Below + 1 /\ Below' = n /\ log'[n] = c
             /\ sending = NoGoal /\ RecordedInv'
             /\ \A i \in 1 .. Len(sent) : Meant(sent[i])' /\ sent[i].number < n
  <2>1. /\ taken' = taken \union {n} /\ n = Below + 1 /\ Below' = n /\ log[n] = c /\ sending = NoGoal
        /\ \A g \in GoalRecords : Meant(g) => Meant(g)' /\ g.number < n
    BY <1>4, <1>6
  <2>2. log[n] # Record
    BY <2>1 DEF GoToRecorded, GoToTarget, Record
  <2>3. RecordedInv'
    <3>1. CASE hasRecorded
      <4>1. PICK r \in taken : LastRecord(r, Below + 1) /\ anchors[r] = recorded
        BY <3>1 DEF RecordedInv
      <4>2. LastRecord(r, Below + 1)'
        BY <1>0, <1>6, <2>1, <2>2, <4>1 DEF LastRecord
      <4> QED BY <1>6, <2>1, <4>1, <4>2 DEF RecordedInv
    <3> QED BY <1>6, <3>1 DEF RecordedInv
  <2> QED BY <1>0, <1>6, <2>1, <2>3 DEF GoalsInv
<1>7. ASSUME NEW n \in CommandNumbers, NavigateToRecorded(n) PROVE RecordedInv' /\ GoalsInv'
  <2>1. /\ Take(n, GoToRecorded) /\ UNCHANGED <<log, anchors, sent, recorded, hasRecorded>>
        /\ sending' = IF hasRecorded THEN Goal(n, recorded) ELSE NoGoal
    BY <1>7 DEF NavigateToRecorded, outside
  <2>2. /\ taken' = taken \union {n} /\ n = Below + 1 /\ Below' = n /\ log'[n] = GoToRecorded
        /\ RecordedInv' /\ \A i \in 1 .. Len(sent) : Meant(sent[i])' /\ sent[i].number < n
    BY <1>6, <2>1
  <2>3. hasRecorded => Meant(Goal(n, recorded))'
    <3>1. ASSUME hasRecorded PROVE Meant(Goal(n, recorded))'
      <4>1. PICK r \in taken : LastRecord(r, Below + 1) /\ anchors[r] = recorded
        BY <3>1 DEF RecordedInv
      <4>2. LastRecord(r, n)'
        BY <1>0, <2>1, <2>2, <4>1 DEF LastRecord
      <4> QED BY <2>1, <2>2, <4>1, <4>2 DEF Meant, Goal
    <3> QED BY <3>1
  <2>4. Goal(n, recorded).number = n
    BY DEF Goal
  <2> QED BY <1>0, <2>1, <2>2, <2>3, <2>4 DEF GoalsInv
<1>8. ASSUME NEW n \in CommandNumbers, NavigateToTarget(n) PROVE RecordedInv' /\ GoalsInv'
  <2>1. /\ Take(n, GoToTarget) /\ UNCHANGED <<log, anchors, sent, recorded, hasRecorded>>
        /\ sending' = Goal(n, Target)
    BY <1>8 DEF NavigateToTarget, outside
  <2>2. /\ taken' = taken \union {n} /\ log'[n] = GoToTarget
        /\ RecordedInv' /\ \A i \in 1 .. Len(sent) : Meant(sent[i])' /\ sent[i].number < n
    BY <1>6, <2>1
  <2>3. Meant(Goal(n, Target))' /\ Goal(n, Target).number = n
    BY <2>2 DEF Meant, Goal, Target
  <2> QED BY <1>0, <2>1, <2>2, <2>3 DEF GoalsInv
<1>9. CASE SendGoal \/ GiveUp
  <2>1. /\ UNCHANGED <<log, taken, anchors, queue, recorded, hasRecorded>> /\ UNCHANGED Below
        /\ sending' = NoGoal
    BY <1>9 DEF SendGoal, GiveUp, outside, Below
  <2>2. RecordedInv'
    BY <2>1 DEF RecordedInv, LastRecord
  <2>3. \A g \in GoalRecords : Meant(g) => Meant(g)'
    BY <1>2, <2>1
  <2>4. CASE sent' = sent
    <3>1. \A i \in 1 .. Len(sent) : Meant(sent[i])'
      <4>1. \A i \in 1 .. Len(sent) : Meant(sent[i])
        BY DEF GoalsInv
      <4> QED BY <1>0, <2>3, <2>4, <4>1
    <3>2. sending' = NoGoal
      BY <2>1
    <3> QED BY <2>2, <2>4, <3>1, <3>2 DEF GoalsInv
  <2>5. CASE SendGoal
    <3>1. sent' = Append(sent, sending) /\ sending \in GoalRecords /\ Meant(sending)
      BY <1>0, <2>5 DEF SendGoal, Free, GoalsInv
    <3>2. /\ Len(sent') = Len(sent) + 1
          /\ \A i \in 1 .. Len(sent') : sent'[i] = IF i = Len(sent') THEN sending ELSE sent[i]
      BY <1>0, <3>1
    <3>3. \A i \in 1 .. Len(sent') : Meant(sent'[i])
      BY <1>0, <3>1, <3>2 DEF GoalsInv
    <3>4. \A i \in 1 .. Len(sent') : sent'[i] \in GoalRecords
      BY <1>0, <3>1, <3>2
    <3>5. \A i \in 1 .. Len(sent') : Meant(sent[i])'
      BY <2>3, <3>3, <3>4
    <3>6. \A i \in 1 .. Len(sent') - 1 : sent'[i].number < sent'[i + 1].number
      BY <1>0, <2>5, <3>2 DEF SendGoal, Free, GoalsInv
    <3>7. sending' = NoGoal
      BY <2>1
    <3> QED BY <2>2, <3>5, <3>6, <3>7 DEF GoalsInv
  <2> QED BY <1>9, <2>2, <2>4, <2>5 DEF GiveUp
<1> QED BY <1>1, <1>3, <1>5, <1>7, <1>8, <1>9
        DEF Next, Callback, Move, ServerChanges, UpdateDistanceInfo, node, outside, CommandNumbers

\* No step outside the node or of its executor breaks the invariant.
LEMMA StepKeeps == IInv /\ [Next]_vars => IInv'
<1> SUFFICES ASSUME IInv, [Next]_vars PROVE IInv'
  OBVIOUS
<1>1. CASE UNCHANGED vars
  BY <1>1 DEF IInv, vars, node, outside, TypeOK, QueueInv, RecordedInv, GoalsInv, Meant, LastRecord,
        Below
<1>2. CASE Next
  BY <1>2, Typed, QueueKept, GoalsKept DEF IInv
<1> QED BY <1>1, <1>2

\* The invariant holds in every reachable state.
LEMMA Invariant == Spec => []IInv
BY InitHolds, StepKeeps, PTL DEF Spec

-----------------------------------------------------------------------------
(* Results.                                                                *)

\* Every command is carried out as it was meant when it was given: goals are sent in the order of
\* their commands and to the anchor the last record command before them stored, however long the
\* executor was blocked in between, and only commands QueueDepth newer ones pushed out are lost
\* (navigate_callback, sendNavigationGoal and the KEEP_LAST subscription).
THEOREM CommandsAreCarriedOut == Spec => []CommandsCarriedOut
<1>1. ASSUME IInv PROVE GoesToLatestAnchor
  <2>0. /\ taken \subseteq Nat /\ Len(sent) \in Nat
        /\ \A i \in 1 .. Len(sent) : Meant(sent[i])
        /\ \A i \in 1 .. Len(sent) - 1 : sent[i].number < sent[i + 1].number
    <3>1. TypeOK /\ GoalsInv
      BY <1>1 DEF IInv
    <3>2. CommandNumbers \subseteq Nat
      BY ManagerAssumption DEF CommandNumbers
    <3>3. taken \subseteq CommandNumbers /\ Len(sent) \in Nat
      BY <3>1 DEF TypeOK
    <3> QED BY <3>1, <3>2, <3>3 DEF GoalsInv
  <2>1. ASSUME NEW r \in taken, NEW n \in taken, LastRecord(r, n)
        PROVE  r < n /\ \A m \in r + 1 .. n - 1 : log[m] = Record => m \notin taken
    BY <2>0, <2>1 DEF LastRecord
  <2>2. ASSUME NEW i \in 1 .. Len(sent)
        PROVE  \/ log[sent[i].number] = GoToTarget /\ sent[i].to = Target
               \/ /\ log[sent[i].number] = GoToRecorded
                  /\ \E r \in taken :
                       /\ r < sent[i].number /\ log[r] = Record /\ anchors[r] = sent[i].to
                       /\ \A m \in r + 1 .. sent[i].number - 1 : log[m] = Record => m \notin taken
    <3>1. Meant(sent[i])
      BY <2>0
    <3> QED BY <2>1, <3>1 DEF Meant, LastRecord
  <2> QED BY <2>0, <2>2 DEF GoesToLatestAnchor
<1>2. ASSUME IInv PROVE LatestNotLost
  <2>1. ASSUME NEW n \in 1 .. Len(log), n > Below PROVE Contains(queue, n)
    <3>1. Len(queue) \in Nat /\ Len(log) \in Nat
      BY <1>2 DEF IInv, TypeOK
    <3>2. n - Below \in 1 .. Len(queue)
      BY <2>1, <3>1 DEF Below
    <3>3. queue[n - Below] = n
      BY <1>2, <3>1, <3>2 DEF IInv, QueueInv, Below
    <3> QED BY <3>2, <3>3 DEF Contains
  <2> QED BY <1>2, <2>1 DEF IInv, QueueInv, LatestNotLost
<1>3. IInv => CommandsCarriedOut
  BY <1>1, <1>2 DEF IInv, CommandsCarriedOut
<1> QED BY <1>3, Invariant, PTL

-----------------------------------------------------------------------------
(* The areas and their clicks *)

\* The values current_area_index_ takes between clicks: a removed area, or the x of a tunnel.
Turns == Modifier!RemovedAreas \cup {4, 6, 8, 10}
Nobody == 12

\* The area whose parameters are being written, if one is.
Busy == IF at = "idle" THEN Nobody ELSE area

\* The clicks collected are the last ones.
Newest == clicks - Len(points) + 1 .. clicks

ClicksIn(f, n) == {f[n][i].click : i \in DOMAIN f[n]}

\* A parameter holds no click, or as many as its area takes, one after the other.
Batch(S, n, c) == S = {} \/ \E k \in Nat :
    S = k + 1 .. k + Modifier!Required(n) /\ k + Modifier!Required(n) <= c

\* Values of the parameters that c clicks may have left in the file.
Sound(f, c) ==
  /\ DOMAIN f \subseteq Modifier!Names
  /\ \A n \in DOMAIN f : Batch(ClicksIn(f, n), n, c)
  /\ \A n, m \in DOMAIN f : Modifier!AreaOf(m) # Modifier!AreaOf(n) =>
          ClicksIn(f, m) \cap ClicksIn(f, n) = {}

\* None of the clicks in S marks an area but a.
OnlyIn(f, S, a) == \A n \in DOMAIN f : Modifier!AreaOf(n) # a => ClicksIn(f, n) \cap S = {}

\* The parameters of area a are written, but for those in P.
Marked(f, P, S, a) == \A n \in DOMAIN f : Modifier!AreaOf(n) = a => n \in P \/ ClicksIn(f, n) = S

\* The parameters of an area hold the same clicks, but for area a.
HalvesAgree(f, a) ==
  \A n, m \in DOMAIN f : Modifier!AreaOf(m) = Modifier!AreaOf(n) /\ Modifier!AreaOf(n) # a =>
       ClicksIn(f, m) = ClicksIn(f, n)

\* The areas before t carry newer clicks than those from t on, but for area a.
InTurn(f, t, a) ==
  \A n, m \in DOMAIN f : n < t /\ t <= m /\ Modifier!AreaOf(m) # a =>
    \A k \in ClicksIn(f, m) : ClicksIn(f, n) # {} /\ \A j \in ClicksIn(f, n) : k < j

\* What the file holds, or will hold when the write going on is done, and the parameters that
\* will then still have to be written.
Coming == IF at \in {"open", "write"} THEN content ELSE file
Pending ==
  IF at = "idle" THEN {} ELSE IF at = "read" THEN ToSet(writing) ELSE ToSet(Tail(writing))

MemoryOK ==
  /\ area \in Turns
  /\ points \in Seq(Nat) /\ Len(points) <= clicks
  /\ clicks \in Nat /\ faults \in Nat
  /\ at \in {"idle", "read", "open", "write"}
  /\ writing \in {<<>>, <<area>>, <<area, area + 1>>, <<area + 1>>}
  /\ area \in Modifier!RemovedAreas => writing \in {<<>>, <<area>>}

CollectInv ==
  /\ \A i \in 1 .. Len(points) : points[i] = (clicks - Len(points)) + i
  /\ at = "idle" => Len(points) < Modifier!Required(area) /\ writing = <<>>
  /\ at # "idle" => Len(points) = Modifier!Required(area)
  /\ at \in {"open", "write"} => writing # <<>>

FileInv ==
  /\ Sound(file, clicks) /\ OnlyIn(file, Newest, Busy)
  /\ at \in {"open", "write"} => Sound(content, clicks) /\ OnlyIn(content, Newest, Busy)

TurnInv ==
  faults = 0 =>
    /\ Marked(Coming, Pending, Newest, Busy)
    /\ HalvesAgree(Coming, Busy)
    /\ InTurn(Coming, area, Busy)

ModifierInv == MemoryOK /\ CollectInv /\ FileInv /\ TurnInv

\* The names of an area are one, or two that take the same number of clicks.
LEMMA NamesOfAreas ==
  ASSUME NEW n \in Modifier!Names
  PROVE  /\ Modifier!AreaOf(n) \in Turns /\ Modifier!AreaOf(n) # Nobody
         /\ n = Modifier!AreaOf(n) \/ (n = Modifier!AreaOf(n) + 1
              /\ Modifier!AreaOf(n) \notin Modifier!RemovedAreas)
         /\ n \in Modifier!RemovedAreas => Modifier!AreaOf(n) = n
         /\ Modifier!Required(n) \in Nat \ {0}
         /\ Modifier!Required(Modifier!AreaOf(n)) = Modifier!Required(n)
<1>1. n \in {0, 1, 2, 3, 4, 5, 6, 7, 8, 9, 10, 11}
  BY DEF Modifier!Names
<1>2. /\ Modifier!AreaOf(n) \in Turns /\ Modifier!AreaOf(n) # Nobody
      /\ n = Modifier!AreaOf(n) \/ (n = Modifier!AreaOf(n) + 1
           /\ Modifier!AreaOf(n) \notin Modifier!RemovedAreas)
      /\ n \in Modifier!RemovedAreas => Modifier!AreaOf(n) = n
  BY <1>1 DEF Modifier!AreaOf, Turns, Modifier!RemovedAreas, Nobody
<1>3. Modifier!Required(n) \in Nat \ {0} /\ Modifier!Required(Modifier!AreaOf(n)) = Modifier!Required(n)
  <2>1. CASE Len(Configured) = 0
    <3>1. \A a \in Nat : Modifier!Required(a) = 4
      BY <2>1 DEF Modifier!Required, Modifier!Counts
    <3>2. n \in Nat /\ Modifier!AreaOf(n) \in Nat
      BY <1>1, <1>2 DEF Turns, Modifier!RemovedAreas
    <3> QED BY <3>1, <3>2
  <2>2. CASE Len(Configured) # 0
    <3>1. Modifier!Counts = <<2, 3, 2, 3, 4, 4, 4, 4, 6, 6, 6, 6>>
      BY <2>2 DEF Modifier!Counts
    <3>2. /\ Modifier!Required(0) = 2 /\ Modifier!Required(1) = 3 /\ Modifier!Required(2) = 2
               /\ Modifier!Required(3) = 3
          /\ Modifier!Required(4) = 4 /\ Modifier!Required(5) = 4 /\ Modifier!Required(6) = 4
               /\ Modifier!Required(7) = 4
          /\ Modifier!Required(8) = 6 /\ Modifier!Required(9) = 6 /\ Modifier!Required(10) = 6
               /\ Modifier!Required(11) = 6
      BY <3>1 DEF Modifier!Required
    <3> QED BY <1>1, <3>2 DEF Modifier!AreaOf, Modifier!RemovedAreas
  <2> QED BY <2>1, <2>2
<1> QED BY <1>2, <1>3

\* The names of the area whose turn it is.
LEMMA NamesOfTurn ==
  ASSUME NEW a \in Turns
  PROVE  /\ a \in Modifier!Names /\ Modifier!AreaOf(a) = a /\ a # Nobody
         /\ a \notin Modifier!RemovedAreas => a + 1 \in Modifier!Names /\ Modifier!AreaOf(a + 1) = a
         /\ ToSet(Modifier!Parameters(a)) = {n \in Modifier!Names : Modifier!AreaOf(n) = a}
<1>1. a \in {0, 1, 2, 3, 4, 6, 8, 10}
  BY DEF Turns, Modifier!RemovedAreas
<1>2. /\ a \in Modifier!Names /\ Modifier!AreaOf(a) = a /\ a # Nobody
      /\ a \notin Modifier!RemovedAreas => a + 1 \in Modifier!Names /\ Modifier!AreaOf(a + 1) = a
  BY <1>1 DEF Modifier!Names, Modifier!AreaOf, Modifier!RemovedAreas, Nobody
<1>3. CASE a \in Modifier!RemovedAreas
  <2>1. ToSet(Modifier!Parameters(a)) = {a}
    BY <1>3 DEF Modifier!Parameters, ToSet
  <2>2. ASSUME NEW n \in Modifier!Names, Modifier!AreaOf(n) = a PROVE n = a
    BY <1>3, <2>2, NamesOfAreas
  <2> QED BY <1>2, <2>1, <2>2
<1>4. CASE a \notin Modifier!RemovedAreas
  <2>1. ToSet(Modifier!Parameters(a)) = {a, a + 1}
    BY <1>4 DEF Modifier!Parameters, ToSet
  <2>2. ASSUME NEW n \in Modifier!Names, Modifier!AreaOf(n) = a PROVE n = a \/ n = a + 1
    BY <2>2, NamesOfAreas
  <2> QED BY <1>2, <1>4, <2>1, <2>2
<1> QED BY <1>2, <1>3, <1>4

\* Every parameter of an area gets the clicks collected for it, each once or once a side.
LEMMA ValueIsTheClicks ==
  ASSUME NEW n, points \in Seq(Nat)
  PROVE  {Modifier!Value(n)[i].click : i \in DOMAIN Modifier!Value(n)} = {points[i] :
           i \in 1 .. Len(points)}
<1> DEFINE L == Len(points)
<1>1. L \in Nat
  BY LenProperties
<1>2. CASE n \notin Modifier!RemovedAreas
  <2>1. Modifier!Value(n) = [i \in 1 .. L |->
                      [click |-> points[i], side |-> IF n % 2 = 0 THEN "x" ELSE "y"]]
    BY <1>2 DEF Modifier!Value
  <2>2. DOMAIN Modifier!Value(n) = 1 .. L /\ \A i \in 1 .. L : Modifier!Value(n)[i].click = points[i]
    BY <2>1
  <2> QED BY <2>2
<1>3. CASE n \in Modifier!RemovedAreas
  <2> DEFINE S == [click : Nat, side : {"right", "left"}]
             r == [i \in 1 .. L |-> [click |-> points[i], side |-> "right"]]
             l == [i \in 1 .. L |-> [click |-> Reverse(points)[i], side |-> "left"]]
  <2>1. \A i \in 1 .. L : points[i] \in Nat
    BY ElementOfSeq
  <2>2. \A i \in 1 .. L : Reverse(points)[i] = points[(L - i) + 1] /\ (L - i) + 1 \in 1 .. L
    BY <1>1 DEF Reverse
  <2>3. r \in [1 .. L -> S] /\ l \in [1 .. L -> S]
    BY <2>1, <2>2
  <2>4. r \in Seq(S) /\ l \in Seq(S)
    BY <1>1, <2>3, SeqDef
  <2>5. Len(r) = L /\ Len(l) = L
    BY <1>1, <2>4, LenProperties
  <2>6. Modifier!Value(n) = r \o l
    BY <1>3 DEF Modifier!Value, Modifier!GeneratePolygon, Modifier!Reverse, Reverse
  <2>7. /\ \A i \in 1 .. L : r[i].click = points[i]
        /\ \A i \in 1 .. L : l[i].click = points[(L - i) + 1]
    BY <2>2
  <2> HIDE DEF r, l, S, L
  <2>8. /\ r \o l \in Seq(S) /\ Len(r \o l) = L + L
        /\ \A i \in 1 .. L + L : (r \o l)[i] = IF i <= L THEN r[i] ELSE l[i - L]
    <3>1. /\ r \o l \in Seq(S) /\ Len(r \o l) = Len(r) + Len(l)
          /\ \A i \in 1 .. Len(r) + Len(l) :
               (r \o l)[i] = IF i <= Len(r) THEN r[i] ELSE l[i - Len(r)]
      BY <2>4, ConcatProperties
    <3> QED BY <2>5, <3>1
  <2>9. DOMAIN (r \o l) = 1 .. L + L
    BY <2>8, LenProperties
  <2>10. ASSUME NEW i \in 1 .. L + L PROVE \E j \in 1 .. L : (r \o l)[i].click = points[j]
    <3>1. CASE i <= L
      <4>1. i \in 1 .. L
        BY <1>1, <3>1
      <4> QED BY <2>7, <2>8, <3>1, <4>1
    <3>2. CASE ~(i <= L)
      <4>1. i - L \in 1 .. L
        BY <1>1, <3>2
      <4>2. (r \o l)[i].click = points[(L - (i - L)) + 1] /\ (L - (i - L)) + 1 \in 1 .. L
        BY <1>1, <2>2, <2>7, <2>8, <3>2, <4>1
      <4> QED BY <4>2
    <3> QED BY <3>1, <3>2
  <2>11. ASSUME NEW j \in 1 .. L PROVE j \in 1 .. L + L /\ (r \o l)[j].click = points[j]
    <3>1. j \in 1 .. L + L /\ j <= L
      BY <1>1
    <3>2. (r \o l)[j] = r[j]
      BY <2>8, <3>1
    <3> QED BY <2>7, <3>1, <3>2
  <2>12. {(r \o l)[i].click : i \in 1 .. L + L} = {points[i] : i \in 1 .. L}
    BY <2>10, <2>11, ZenonT(40)
  <2> QED BY <2>6, <2>9, <2>12 DEF L
<1> QED BY <1>2, <1>3

\* The last clicks are those collected.
LEMMA PointsAreNewest ==
  ASSUME MemoryOK, CollectInv
  PROVE  {points[i] : i \in 1 .. Len(points)} = Newest
<1>1. Len(points) \in Nat /\ clicks \in Nat /\ Len(points) <= clicks
  BY LenProperties DEF MemoryOK
<1>2. \A i \in 1 .. Len(points) : points[i] \in Newest
  BY <1>1 DEF CollectInv, Newest
<1>3. ASSUME NEW k \in Newest PROVE \E i \in 1 .. Len(points) : points[i] = k
  <2>1. k - (clicks - Len(points)) \in 1 .. Len(points)
    BY <1>1 DEF Newest
  <2>2. points[k - (clicks - Len(points))] = k
    BY <1>1, <2>1 DEF CollectInv, Newest
  <2> QED BY <2>1, <2>2
<1> QED BY <1>2, <1>3

\* The clicks in the file have been made.
LEMMA SoundIsPast ==
  ASSUME NEW f, NEW c \in Nat, Sound(f, c), NEW n \in DOMAIN f
  PROVE  ClicksIn(f, n) \subseteq 1 .. c
<1>1. n \in Modifier!Names /\ Batch(ClicksIn(f, n), n, c)
  BY DEF Sound
<1>2. CASE ClicksIn(f, n) = {}
  BY <1>2
<1>3. CASE \E k \in Nat :
             ClicksIn(f, n) = k + 1 .. k + Modifier!Required(n) /\ k + Modifier!Required(n) <= c
  <2>1. Modifier!Required(n) \in Nat
    BY <1>1, NamesOfAreas
  <2> QED BY <1>3, <2>1
<1> QED BY <1>1, <1>2, <1>3 DEF Batch

\* One click more leaves the file sound.
LEMMA SoundForMore ==
  ASSUME NEW f, NEW c \in Nat, Sound(f, c)
  PROVE  Sound(f, c + 1)
<1>1. ASSUME NEW n \in DOMAIN f PROVE Batch(ClicksIn(f, n), n, c + 1)
  <2>1. n \in Modifier!Names /\ Batch(ClicksIn(f, n), n, c)
    BY DEF Sound
  <2>2. Modifier!Required(n) \in Nat
    BY <2>1, NamesOfAreas
  <2>3. ASSUME NEW k \in Nat, k + Modifier!Required(n) <= c PROVE k + Modifier!Required(n) <= c + 1
    BY <2>2, <2>3
  <2> QED BY <2>1, <2>3 DEF Batch
<1> QED BY <1>1 DEF Sound

\* g is f with the parameter n holding the clicks S.
Differs(f, g, n, S) ==
  /\ n \in DOMAIN f /\ DOMAIN g = DOMAIN f
  /\ \A m \in DOMAIN f : ClicksIn(g, m) = IF m = n THEN S ELSE ClicksIn(f, m)

\* Replacing a parameter of the area whose turn it is by clicks that mark no other area keeps the
\* file sound.
LEMMA ReplacedIsSound ==
  ASSUME NEW f, NEW g, NEW n, NEW S, NEW a, NEW c, Differs(f, g, n, S), Modifier!AreaOf(n) = a,
         Sound(f, c), OnlyIn(f, S, a), Batch(S, n, c)
  PROVE  Sound(g, c) /\ OnlyIn(g, S, a)
<1>1. \A m \in DOMAIN g : Batch(ClicksIn(g, m), m, c)
  BY DEF Differs, Sound
<1>2. ASSUME NEW m \in DOMAIN g, NEW k \in DOMAIN g, Modifier!AreaOf(m) # Modifier!AreaOf(k)
      PROVE  ClicksIn(g, m) \cap ClicksIn(g, k) = {}
  <2>1. CASE m = n
    <3>1. ClicksIn(g, m) = S /\ ClicksIn(g, k) = ClicksIn(f, k) /\ k \in DOMAIN f
            /\ Modifier!AreaOf(k) # a
      BY <1>2, <2>1 DEF Differs
    <3> QED BY <3>1 DEF OnlyIn
  <2>2. CASE k = n
    <3>1. ClicksIn(g, k) = S /\ ClicksIn(g, m) = ClicksIn(f, m) /\ m \in DOMAIN f
            /\ Modifier!AreaOf(m) # a
      BY <1>2, <2>2 DEF Differs
    <3> QED BY <3>1 DEF OnlyIn
  <2>3. CASE m # n /\ k # n
    BY <1>2, <2>3 DEF Differs, Sound
  <2> QED BY <2>1, <2>2, <2>3
<1>3. DOMAIN g \subseteq Modifier!Names
  BY DEF Differs, Sound
<1>4. OnlyIn(g, S, a)
  <2>1. ASSUME NEW m \in DOMAIN g, Modifier!AreaOf(m) # a PROVE ClicksIn(g, m) \cap S = {}
    BY <2>1 DEF Differs, OnlyIn
  <2> QED BY <2>1 DEF OnlyIn
<1> QED BY <1>1, <1>2, <1>3, <1>4 DEF Sound

\* And leaves what is said of the other areas, with one parameter less to write.
LEMMA ReplacedTakesTurns ==
  ASSUME NEW f, NEW g, NEW n \in Modifier!Names, NEW S, NEW a, NEW P, Differs(f, g, n, S),
           Modifier!AreaOf(n) = a,
         Marked(f, P, S, a), HalvesAgree(f, a), InTurn(f, a, a)
  PROVE  Marked(g, P \ {n}, S, a) /\ HalvesAgree(g, a) /\ InTurn(g, a, a)
<1>1. Marked(g, P \ {n}, S, a)
  <2> SUFFICES ASSUME NEW m \in DOMAIN g, Modifier!AreaOf(m) = a
    PROVE m \in P \ {n} \/ ClicksIn(g, m) = S
    BY DEF Marked
  <2> QED BY DEF Differs, Marked
<1>2. HalvesAgree(g, a)
  <2> SUFFICES ASSUME NEW m \in DOMAIN g, NEW k \in DOMAIN g,
                        Modifier!AreaOf(k) = Modifier!AreaOf(m), Modifier!AreaOf(m) # a
               PROVE  ClicksIn(g, k) = ClicksIn(g, m)
    BY DEF HalvesAgree
  <2>1. m # n /\ k # n /\ m \in DOMAIN f /\ k \in DOMAIN f
    BY DEF Differs
  <2>2. ClicksIn(g, k) = ClicksIn(f, k) /\ ClicksIn(g, m) = ClicksIn(f, m)
    BY <2>1 DEF Differs
  <2> QED BY <2>1, <2>2 DEF HalvesAgree
<1>3. InTurn(g, a, a)
  <2> SUFFICES ASSUME NEW k \in DOMAIN g, NEW m \in DOMAIN g, k < a, a <= m, Modifier!AreaOf(m) # a
               PROVE  \A i \in ClicksIn(g, m) :
                        ClicksIn(g, k) # {} /\ \A j \in ClicksIn(g, k) : i < j
    BY DEF InTurn
  <2>1. n = a \/ n = a + 1
    BY NamesOfAreas
  <2>2. a \in Int
    BY NamesOfAreas DEF Turns, Modifier!RemovedAreas
  <2>3. k # n
    BY <2>1, <2>2
  <2>4. m # n /\ m \in DOMAIN f /\ k \in DOMAIN f
    BY DEF Differs
  <2>5. ClicksIn(g, k) = ClicksIn(f, k) /\ ClicksIn(g, m) = ClicksIn(f, m)
    BY <2>3, <2>4 DEF Differs
  <2> QED BY <2>4, <2>5 DEF InTurn
<1> QED BY <1>1, <1>2, <1>3

-----------------------------------------------------------------------------
(* The steps of the node *)

\* Initially nothing has been clicked, and the parameters hold no click.
LEMMA ModifierInit ==
  ASSUME Present \subseteq Modifier!Names, Modifier!Init
  PROVE  ModifierInv
<1>1. area \in Turns /\ Modifier!AreaOf(0) = 0 /\ Modifier!Required(0) \in Nat \ {0}
  BY NamesOfAreas DEF Modifier!Init, Turns, Modifier!RemovedAreas, Modifier!Names, Modifier!AreaOf
<1>2. MemoryOK
  BY <1>1 DEF MemoryOK, Modifier!Init
<1>3. CollectInv
  BY <1>1 DEF CollectInv, Modifier!Init
<1>4. \A n \in DOMAIN file : ClicksIn(file, n) = {}
  BY DEF Modifier!Init, ClicksIn
<1>5. FileInv
  <2>1. DOMAIN file \subseteq Modifier!Names
    BY DEF Modifier!Init
  <2>2. Sound(file, clicks)
    BY <1>4, <2>1 DEF Sound, Batch
  <2>3. OnlyIn(file, Newest, Busy)
    BY <1>4 DEF OnlyIn
  <2> QED BY <2>2, <2>3 DEF FileInv, Modifier!Init
<1>6. TurnInv
  <2>1. DOMAIN file \subseteq Modifier!Names /\ Coming = file /\ Busy = Nobody
    BY DEF Modifier!Init, Coming, Busy
  <2>2. \A n \in DOMAIN file : Modifier!AreaOf(n) # Nobody
    BY <2>1, NamesOfAreas
  <2> QED BY <1>4, <2>1, <2>2 DEF TurnInv, Marked, HalvesAgree, InTurn
<1> QED BY <1>2, <1>3, <1>5, <1>6 DEF ModifierInv

\* A click is collected, and with the last one an area needs its parameters are to be written.
LEMMA ClickHolds ==
  ASSUME ModifierInv, Modifier!Click
  PROVE  ModifierInv'
<1>1. MemoryOK /\ CollectInv /\ FileInv /\ TurnInv
  BY DEF ModifierInv
<1>2. /\ at = "idle" /\ points \in Seq(Nat) /\ clicks \in Nat /\ area \in Turns /\ writing = <<>>
      /\ clicks' = clicks + 1 /\ area' = area /\ file' = file /\ faults' = faults
      /\ faults \in Nat /\ Len(points) \in Nat /\ Len(points) <= clicks
      /\ Len(points) < Modifier!Required(area) /\ points' = Append(points, clicks + 1)
  BY <1>1, LenProperties DEF MemoryOK, CollectInv, Modifier!Click
<1>3. /\ points' \in Seq(Nat) /\ Len(points') = Len(points) + 1
      /\ \A i \in 1 .. Len(points) : points'[i] = points[i]
      /\ points'[Len(points) + 1] = clicks + 1
  <2>1. clicks + 1 \in Nat
    BY <1>2
  <2> QED BY <1>2, <2>1, AppendProperties
<1>4. Modifier!Required(area) \in Nat \ {0}
  BY <1>2, NamesOfTurn, NamesOfAreas
<1>5. \/ /\ Len(points) + 1 >= Modifier!Required(area)
         /\ writing' = Modifier!Parameters(area) /\ at' = "read"
      \/ /\ ~(Len(points) + 1 >= Modifier!Required(area))
         /\ writing' = writing /\ at' = at
  BY DEF Modifier!Click
<1>6. MemoryOK'
  <2>1. Modifier!Parameters(area) \in {<<>>, <<area>>, <<area, area + 1>>, <<area + 1>>}
        /\ (area \in Modifier!RemovedAreas => Modifier!Parameters(area) \in {<<>>, <<area>>})
    BY DEF Modifier!Parameters
  <2>2. Len(points') <= clicks'
    BY <1>2, <1>3
  <2>3. at' \in {"idle", "read", "open", "write"}
    BY <1>2, <1>5
  <2>4. writing' \in {<<>>, <<area>>, <<area, area + 1>>, <<area + 1>>}
        /\ (area \in Modifier!RemovedAreas => writing' \in {<<>>, <<area>>})
    BY <1>2, <1>5, <2>1
  <2>5. clicks' \in Nat
    BY <1>2
  <2> QED BY <1>2, <1>3, <2>2, <2>3, <2>4, <2>5 DEF MemoryOK
<1>7. CollectInv'
  <2>1. \A i \in 1 .. Len(points') : points'[i] = (clicks' - Len(points')) + i
    <3> SUFFICES ASSUME NEW i \in 1 .. Len(points') PROVE points'[i] = (clicks' - Len(points')) + i
      OBVIOUS
    <3>1. CASE i \in 1 .. Len(points)
      <4>1. points[i] = (clicks - Len(points)) + i
        BY <1>1, <3>1 DEF CollectInv
      <4> QED BY <1>2, <1>3, <3>1, <4>1
    <3>2. CASE i = Len(points) + 1
      BY <1>2, <1>3, <3>2
    <3> QED BY <1>2, <1>3, <3>1, <3>2
  <2>2. /\ at' = "idle" => Len(points') < Modifier!Required(area) /\ writing' = <<>>
        /\ at' # "idle" => Len(points') = Modifier!Required(area)
        /\ at' \notin {"open", "write"}
    BY <1>2, <1>3, <1>4, <1>5
  <2> QED BY <1>2, <2>1, <2>2 DEF CollectInv
<1>8. DOMAIN file \subseteq Modifier!Names /\ Sound(file, clicks)
  BY <1>1 DEF FileInv, Sound
<1>9. Busy = Nobody /\ Busy' \in {Nobody, area} /\ (Busy' = Nobody <=> at' = "idle")
  BY <1>2, NamesOfTurn DEF Busy
<1>10. Newest' = Newest \cup {clicks + 1}
  BY <1>2, <1>3 DEF Newest
<1>11. \A n \in DOMAIN file : Modifier!AreaOf(n) # Nobody /\ ClicksIn(file, n) \cap Newest = {}
  BY <1>1, <1>8, <1>9, NamesOfAreas DEF FileInv, OnlyIn
<1>12. FileInv'
  <2>1. Sound(file, clicks + 1)
    BY <1>2, <1>8, SoundForMore
  <2>2. \A n \in DOMAIN file : clicks + 1 \notin ClicksIn(file, n)
    BY <1>2, <1>8, SoundIsPast
  <2>3. OnlyIn(file, Newest', Busy')
    BY <1>10, <1>11, <2>2 DEF OnlyIn
  <2> QED BY <1>2, <1>5, <2>1, <2>3 DEF FileInv
<1>13. TurnInv'
  <2> SUFFICES ASSUME faults = 0
               PROVE  /\ Marked(file, Pending', Newest', Busy') /\ HalvesAgree(file, Busy')
                      /\ InTurn(file, area, Busy')
    BY <1>2, <1>5 DEF TurnInv, Coming
  <2>1. HalvesAgree(file, Nobody) /\ InTurn(file, area, Nobody)
    BY <1>1, <1>2, <1>9 DEF TurnInv, Coming
  <2>2. Marked(file, Pending', Newest', Busy')
    <3>1. CASE at' = "idle"
      BY <1>9, <1>11, <3>1 DEF Marked
    <3>2. CASE at' = "read" /\ writing' = Modifier!Parameters(area)
      <4>1. Busy' = area /\ Pending' = {n \in Modifier!Names : Modifier!AreaOf(n) = area}
        BY <1>2, <3>2, NamesOfTurn DEF Busy, Pending
      <4> QED BY <1>8, <4>1 DEF Marked
    <3> QED BY <1>2, <1>5, <3>1, <3>2
  <2>3. HalvesAgree(file, Busy')
    BY <1>11, <2>1 DEF HalvesAgree
  <2>4. InTurn(file, area, Busy')
    BY <1>11, <2>1 DEF InTurn
  <2> QED BY <2>2, <2>3, <2>4
<1> QED BY <1>6, <1>7, <1>12, <1>13 DEF ModifierInv

\* What is left to write after the next parameter is nothing, or the y of a tunnel.
LEMMA RestOfWriting ==
  ASSUME MemoryOK, writing # <<>>
  PROVE  /\ Tail(writing) \in {<<>>, <<area + 1>>}
         /\ area \in Modifier!RemovedAreas => Tail(writing) = <<>>
<1>1. CASE writing = <<area>>
  <2>1. Tail(writing) = <<>>
    BY <1>1
  <2> QED BY <2>1
<1>2. CASE writing = <<area, area + 1>>
  <2>1. Tail(writing) = <<area + 1>> /\ writing # <<area>>
    BY <1>2
  <2> QED BY <2>1 DEF MemoryOK
<1>3. CASE writing = <<area + 1>>
  <2>1. Tail(writing) = <<>>
    BY <1>3
  <2> QED BY <2>1
<1> QED BY <1>1, <1>2, <1>3 DEF MemoryOK

\* The next parameter is read and replaced by the clicks collected, or passed over when the file
\* does not hold it.
LEMMA ReadHolds ==
  ASSUME ModifierInv, Modifier!Read
  PROVE  ModifierInv'
<1> DEFINE n == Head(writing)
<1>1. MemoryOK /\ CollectInv /\ FileInv /\ TurnInv
  BY DEF ModifierInv
<1>2. /\ at = "read" /\ writing # <<>> /\ area \in Turns /\ points \in Seq(Nat) /\ clicks \in Nat
      /\ Len(points) \in Nat /\ Len(points) <= clicks /\ Len(points) = Modifier!Required(area)
      /\ area' = area /\ points' = points /\ file' = file /\ clicks' = clicks /\ faults' = faults
  BY <1>1, LenProperties DEF MemoryOK, CollectInv, Modifier!Read
<1>3. writing \in {<<area>>, <<area, area + 1>>, <<area + 1>>}
  BY <1>1, <1>2 DEF MemoryOK
<1>4. /\ n \in Modifier!Names /\ Modifier!AreaOf(n) = area
      /\ Tail(writing) \in {<<>>, <<area + 1>>}
      /\ area \in Modifier!RemovedAreas => Tail(writing) = <<>>
      /\ ToSet(writing) \ {n} \subseteq ToSet(Tail(writing))
  <2>1. area \in Modifier!RemovedAreas => writing = <<area>>
    BY <1>1, <1>2 DEF MemoryOK
  <2>2. CASE writing = <<area>>
    BY <1>2, <2>2, NamesOfTurn DEF ToSet
  <2>3. CASE writing = <<area, area + 1>>
    <3>1. n = area /\ Tail(writing) = <<area + 1>> /\ ToSet(writing) = {area, area + 1}
          /\ ToSet(Tail(writing)) = {area + 1}
      BY <2>3 DEF ToSet
    <3>2. writing # <<area>>
      BY <2>3
    <3> QED BY <1>2, <2>1, <3>1, <3>2, NamesOfTurn
  <2>4. CASE writing = <<area + 1>>
    <3>1. area \in Int
      BY <1>2 DEF Turns, Modifier!RemovedAreas
    <3>2. n = area + 1 /\ Tail(writing) = <<>> /\ ToSet(writing) = {area + 1}
      BY <2>4 DEF ToSet
    <3>3. area \notin Modifier!RemovedAreas
      BY <2>1, <2>4, <3>1
    <3> QED BY <1>2, <3>2, <3>3, NamesOfTurn
  <2> QED BY <1>3, <2>2, <2>3, <2>4
<1> HIDE DEF n
<1>5. Busy = area /\ area # Nobody /\ Coming = file /\ Pending = ToSet(writing)
  BY <1>2, NamesOfTurn DEF Busy, Coming, Pending
<1>6. CASE n \in DOMAIN file
  <2>1. content' = [file EXCEPT ![n] = Modifier!Value(n)] /\ at' = "open" /\ writing' = writing
    BY <1>6 DEF Modifier!Read, n
  <2>2. Busy' = area /\ Newest' = Newest /\ Coming' = content' /\ Pending' = ToSet(Tail(writing))
    BY <1>2, <2>1 DEF Busy, Newest, Coming, Pending
  <2>3. Differs(file, content', n, Newest)
    <3>1. {Modifier!Value(n)[i].click : i \in DOMAIN Modifier!Value(n)} = Newest
      BY <1>1, <1>2, ValueIsTheClicks, PointsAreNewest
    <3>2. DOMAIN content' = DOMAIN file
          /\ \A m \in DOMAIN file : content'[m] = IF m = n THEN Modifier!Value(n) ELSE file[m]
      BY <2>1
    <3> QED BY <1>6, <3>1, <3>2 DEF Differs, ClicksIn
  <2>4. Batch(Newest, n, clicks)
    <3>1. Modifier!Required(n) = Len(points)
      BY <1>2, <1>4, NamesOfAreas
    <3>2. clicks - Len(points) \in Nat /\ (clicks - Len(points)) + Len(points) = clicks
      BY <1>2
    <3> QED BY <3>1, <3>2 DEF Batch, Newest
  <2>5. Sound(content', clicks) /\ OnlyIn(content', Newest, area)
    BY <1>1, <1>4, <1>5, <2>3, <2>4, ReplacedIsSound DEF FileInv
  <2>6. FileInv'
    BY <1>1, <1>2, <1>5, <2>1, <2>2, <2>5 DEF FileInv
  <2>7. TurnInv'
    <3> SUFFICES ASSUME faults = 0
                 PROVE  /\ Marked(content', ToSet(Tail(writing)), Newest, area)
                        /\ HalvesAgree(content', area) /\ InTurn(content', area, area)
      BY <1>2, <2>2 DEF TurnInv
    <3>1. /\ Marked(file, ToSet(writing), Newest, area) /\ HalvesAgree(file, area)
          /\ InTurn(file, area, area)
      BY <1>1, <1>5 DEF TurnInv
    <3>2. /\ Marked(content', ToSet(writing) \ {n}, Newest, area) /\ HalvesAgree(content', area)
          /\ InTurn(content', area, area)
      BY <1>4, <2>3, <3>1, ReplacedTakesTurns
    <3> QED BY <1>4, <3>2 DEF Marked
  <2>8. MemoryOK' /\ CollectInv'
    BY <1>1, <1>2, <2>1 DEF MemoryOK, CollectInv
  <2> QED BY <2>6, <2>7, <2>8 DEF ModifierInv
<1>7. CASE n \notin DOMAIN file
  <2>1. content' = content /\ at' = at /\ writing' = Tail(writing)
    BY <1>7 DEF Modifier!Read, n
  <2>2. Busy' = area /\ Newest' = Newest /\ Coming' = file /\ Pending' = ToSet(Tail(writing))
    BY <1>2, <2>1 DEF Busy, Newest, Coming, Pending
  <2>3. FileInv'
    BY <1>1, <1>2, <1>5, <2>1, <2>2 DEF FileInv
  <2>4. TurnInv'
    <3>1. Marked(file, ToSet(writing), Newest, area) => Marked(file, ToSet(Tail(writing)), Newest, area)
      BY <1>4, <1>7 DEF Marked
    <3> QED BY <1>1, <1>2, <1>5, <2>2, <3>1 DEF TurnInv
  <2>5. MemoryOK'
    BY <1>1, <1>2, <1>4, <2>1 DEF MemoryOK
  <2>6. CollectInv'
    BY <1>1, <1>2, <2>1 DEF CollectInv
  <2> QED BY <2>3, <2>4, <2>5, <2>6 DEF ModifierInv
<1> QED BY <1>6, <1>7

\* Opening the file empties it; the content to write is the one that was read before.
LEMMA OpenHolds ==
  ASSUME ModifierInv, Modifier!Open
  PROVE  ModifierInv'
<1>1. MemoryOK /\ CollectInv /\ FileInv /\ TurnInv
  BY DEF ModifierInv
<1>2. /\ at = "open" /\ at' = "write" /\ file' = <<>>
      /\ UNCHANGED <<area, points, writing, content, clicks, faults>>
  BY DEF Modifier!Open
<1>3. MemoryOK' /\ CollectInv'
  BY <1>1, <1>2 DEF MemoryOK, CollectInv
<1>4. Busy' = Busy /\ Newest' = Newest /\ Coming' = Coming /\ Pending' = Pending
  BY <1>2 DEF Busy, Newest, Coming, Pending
<1>5. DOMAIN file' = {}
  BY <1>2
<1>6. FileInv'
  BY <1>1, <1>2, <1>4, <1>5 DEF FileInv, Sound, OnlyIn
<1>7. TurnInv'
  BY <1>1, <1>2, <1>4 DEF TurnInv
<1> QED BY <1>3, <1>6, <1>7 DEF ModifierInv

\* The content is written, and the next parameter is turned to.
LEMMA WriteHolds ==
  ASSUME ModifierInv, Modifier!Write
  PROVE  ModifierInv'
<1>1. MemoryOK /\ CollectInv /\ FileInv /\ TurnInv
  BY DEF ModifierInv
<1>2. /\ at = "write" /\ at' = "read" /\ file' = content /\ writing' = Tail(writing)
      /\ writing # <<>>
      /\ UNCHANGED <<area, points, clicks, faults>>
  BY <1>1 DEF Modifier!Write, CollectInv
<1>3. /\ Tail(writing) \in {<<>>, <<area + 1>>}
      /\ area \in Modifier!RemovedAreas => Tail(writing) = <<>>
  BY <1>1, <1>2, RestOfWriting
<1>4. MemoryOK'
  BY <1>1, <1>2, <1>3 DEF MemoryOK
<1>5. CollectInv'
  BY <1>1, <1>2 DEF CollectInv
<1>6. Busy' = Busy /\ Newest' = Newest /\ Coming' = Coming /\ Pending' = Pending
  BY <1>2 DEF Busy, Newest, Coming, Pending
<1>7. FileInv'
  BY <1>1, <1>2, <1>6 DEF FileInv
<1>8. TurnInv'
  BY <1>1, <1>2, <1>6 DEF TurnInv
<1> QED BY <1>4, <1>5, <1>7, <1>8 DEF ModifierInv

\* A parameter that cannot be written is given up; the file keeps what it has.
LEMMA OpenFailsHolds ==
  ASSUME ModifierInv, Modifier!OpenFails
  PROVE  ModifierInv'
<1>1. MemoryOK /\ CollectInv /\ FileInv /\ TurnInv
  BY DEF ModifierInv
<1>2. /\ at \in {"read", "open"} /\ at' = "read" /\ file' = file /\ writing' = Tail(writing)
      /\ writing # <<>> /\ faults' = faults + 1 /\ faults \in Nat
      /\ UNCHANGED <<area, points, clicks>>
  BY <1>1 DEF Modifier!OpenFails, MemoryOK
<1>3. /\ Tail(writing) \in {<<>>, <<area + 1>>}
      /\ area \in Modifier!RemovedAreas => Tail(writing) = <<>>
  BY <1>1, <1>2, RestOfWriting
<1>4. MemoryOK'
  BY <1>1, <1>2, <1>3 DEF MemoryOK
<1>5. CollectInv'
  BY <1>1, <1>2 DEF CollectInv
<1>6. Busy' = Busy /\ Newest' = Newest
  BY <1>2 DEF Busy, Newest
<1>7. FileInv'
  BY <1>1, <1>2, <1>6 DEF FileInv
<1>8. TurnInv'
  BY <1>2 DEF TurnInv
<1> QED BY <1>4, <1>5, <1>7, <1>8 DEF ModifierInv

\* The turn passes to the next area, which no later click of this one can mark.
LEMMA FinishHolds ==
  ASSUME ModifierInv, Modifier!Finish
  PROVE  ModifierInv'
<1>1. MemoryOK /\ CollectInv /\ FileInv /\ TurnInv
  BY DEF ModifierInv
<1>2. /\ at = "read" /\ at' = "idle" /\ writing = <<>> /\ writing' = <<>> /\ points' = <<>>
      /\ file' = file /\ clicks' = clicks /\ faults' = faults
      /\ area \in Turns /\ clicks \in Nat /\ faults \in Nat
      /\ points \in Seq(Nat) /\ Len(points) \in Nat /\ Len(points) <= clicks
      /\ Len(points) = Modifier!Required(area)
  BY <1>1, LenProperties DEF Modifier!Finish, MemoryOK, CollectInv
<1>3. area \in {0, 1, 2, 3, 4, 6, 8, 10}
  BY <1>2 DEF Turns, Modifier!RemovedAreas
<1>4. /\ area' \in Turns
      /\ area' = 0 \/ (area' > area /\ \A n \in Modifier!Names : n < area' =>
           n < area \/ Modifier!AreaOf(n) = area)
  <2>1. area' = ((IF area \in Modifier!RemovedAreas THEN area ELSE area + 2 - 1) + 1) % 12
    BY DEF Modifier!Finish
  <2>2. area' = CASE area = 0 -> 1 [] area = 1 -> 2 [] area = 2 -> 3 [] area = 3 -> 4
                  [] area = 4 -> 6 [] area = 6 -> 8 [] area = 8 -> 10 [] area = 10 -> 0
    BY <1>3, <2>1 DEF Modifier!RemovedAreas
  <2>3. area' \in Turns
    BY <1>3, <2>2 DEF Turns, Modifier!RemovedAreas
  <2>4. ASSUME NEW n \in Modifier!Names, area' # 0, n < area', ~(n < area)
    PROVE Modifier!AreaOf(n) = area
    <3>1. n = area \/ (n = area + 1 /\ area \notin Modifier!RemovedAreas)
      BY <1>3, <2>2, <2>4 DEF Modifier!Names, Modifier!RemovedAreas
    <3> QED BY <1>2, <3>1, NamesOfTurn
  <2>5. area' = 0 \/ area' > area
    BY <1>3, <2>2
  <2> QED BY <2>3, <2>4, <2>5
<1>5. Modifier!Required(area') \in Nat \ {0}
  BY <1>4, NamesOfTurn, NamesOfAreas
<1>6. MemoryOK'
  BY <1>2, <1>4 DEF MemoryOK
<1>7. CollectInv'
  BY <1>2, <1>5 DEF CollectInv
<1>8. Newest' = {} /\ Busy' = Nobody /\ Busy = area /\ Coming = file /\ Coming' = file
  BY <1>2 DEF Newest, Busy, Coming
<1>9. FileInv'
  BY <1>1, <1>2, <1>8 DEF FileInv, OnlyIn
<1>10. DOMAIN file \subseteq Modifier!Names /\ Sound(file, clicks) /\ OnlyIn(file, Newest, area)
  BY <1>1, <1>8 DEF FileInv, Sound
<1>11. TurnInv'
  <2> SUFFICES ASSUME faults = 0
               PROVE  /\ Marked(file, Pending', Newest', Nobody) /\ HalvesAgree(file, Nobody)
                      /\ InTurn(file, area', Nobody)
    BY <1>2, <1>8 DEF TurnInv
  <2>1. Pending = {}
    BY <1>2 DEF Pending, ToSet
  <2>2. /\ \A n \in DOMAIN file : Modifier!AreaOf(n) = area => ClicksIn(file, n) = Newest
        /\ HalvesAgree(file, area) /\ InTurn(file, area, area)
    BY <1>1, <1>8, <2>1 DEF TurnInv, Marked
  <2>3. \A n \in DOMAIN file : Modifier!AreaOf(n) # Nobody
    BY <1>10, NamesOfAreas
  <2>4. Marked(file, Pending', Newest', Nobody)
    BY <2>3 DEF Marked
  <2>5. HalvesAgree(file, Nobody)
    <3> SUFFICES ASSUME NEW n \in DOMAIN file, NEW m \in DOMAIN file,
                          Modifier!AreaOf(m) = Modifier!AreaOf(n)
                 PROVE  ClicksIn(file, m) = ClicksIn(file, n)
      BY DEF HalvesAgree
    <3>1. CASE Modifier!AreaOf(n) = area
      BY <2>2, <3>1
    <3>2. CASE Modifier!AreaOf(n) # area
      BY <2>2, <3>2 DEF HalvesAgree
    <3> QED BY <3>1, <3>2
  <2>6. InTurn(file, area', Nobody)
    <3> SUFFICES ASSUME NEW n \in DOMAIN file, NEW m \in DOMAIN file, n < area', area' <= m,
                        NEW k \in ClicksIn(file, m)
                 PROVE  ClicksIn(file, n) # {} /\ \A j \in ClicksIn(file, n) : k < j
      BY DEF InTurn
    <3>1. n \in Modifier!Names /\ m \in Modifier!Names /\ n \in Nat /\ m \in Nat /\ area \in Nat
      BY <1>3, <1>10 DEF Modifier!Names
    <3>2. area' > area /\ (n < area \/ Modifier!AreaOf(n) = area)
      BY <1>4, <3>1
    <3>3. Modifier!AreaOf(m) # area /\ area <= m
      <4>1. area' \in Nat
        BY <1>4 DEF Turns, Modifier!RemovedAreas
      <4>2. CASE area \in Modifier!RemovedAreas
        BY <1>4, <3>1, <3>2, <4>1, <4>2, NamesOfAreas
      <4>3. CASE area \notin Modifier!RemovedAreas
        <5>1. area + 1 \in Modifier!Names /\ Modifier!AreaOf(area + 1) = area /\ area + 1 \notin Turns
          BY <1>2, <1>3, <4>3, NamesOfTurn DEF Turns, Modifier!RemovedAreas
        <5>2. area' > area + 1
          BY <1>4, <3>1, <3>2, <4>1, <5>1
        <5> QED BY <3>1, <3>2, <4>1, <5>2, NamesOfAreas
      <4> QED BY <4>2, <4>3
    <3>4. CASE n < area
      BY <2>2, <3>3, <3>4 DEF InTurn
    <3>5. CASE Modifier!AreaOf(n) = area
      <4>1. ClicksIn(file, n) = Newest
        BY <2>2, <3>5
      <4>2. k \in 1 .. clicks /\ k \notin Newest
        BY <1>2, <1>10, <3>3, SoundIsPast DEF OnlyIn
      <4>3. clicks \in Newest
        BY <1>2, NamesOfTurn, NamesOfAreas DEF Newest
      <4>4. \A j \in Newest : k < j
        BY <1>2, <4>2 DEF Newest
      <4> QED BY <4>1, <4>3, <4>4
    <3> QED BY <3>2, <3>4, <3>5
  <2> QED BY <2>4, <2>5, <2>6
<1> QED BY <1>6, <1>7, <1>9, <1>11 DEF ModifierInv

\* After a crash the clicks collected are forgotten and the first area is the one whose turn it
\* is; the file stays as it is, empty if it was open.
LEMMA CrashHolds ==
  ASSUME ModifierInv, Modifier!Crash
  PROVE  ModifierInv'
<1>1. MemoryOK /\ CollectInv /\ FileInv /\ TurnInv
  BY DEF ModifierInv
<1>2. /\ at' = "idle" /\ writing' = <<>> /\ points' = <<>> /\ area' = 0 /\ file' = file
      /\ clicks' = clicks /\ faults' = faults + 1 /\ clicks \in Nat /\ faults \in Nat
  BY <1>1 DEF Modifier!Crash, Modifier!Started, MemoryOK
<1>3. 0 \in Turns /\ Modifier!Required(0) \in Nat \ {0}
  BY NamesOfAreas DEF Turns, Modifier!RemovedAreas, Modifier!Names
<1>4. MemoryOK'
  BY <1>2, <1>3 DEF MemoryOK
<1>5. CollectInv'
  BY <1>2, <1>3 DEF CollectInv
<1>6. Newest' = {}
  BY <1>2 DEF Newest
<1>7. FileInv'
  BY <1>1, <1>2, <1>6 DEF FileInv, OnlyIn
<1>8. TurnInv'
  BY <1>2 DEF TurnInv
<1> QED BY <1>4, <1>5, <1>7, <1>8 DEF ModifierInv

\* The inductive invariant holds, when the file's parameters are among those the node knows.
THEOREM ModifierInvariant ==
  ASSUME Present \subseteq Modifier!Names
  PROVE  Modifier!Spec => []ModifierInv
<1>1. Modifier!Init => ModifierInv
  BY ModifierInit
<1>2. ModifierInv /\ [Modifier!Next]_(Modifier!vars) => ModifierInv'
  <2> SUFFICES ASSUME ModifierInv, [Modifier!Next]_(Modifier!vars) PROVE ModifierInv'
    OBVIOUS
  <2>1. CASE Modifier!Click
    BY <2>1, ClickHolds
  <2>2. CASE Modifier!Read
    BY <2>2, ReadHolds
  <2>3. CASE Modifier!Open
    BY <2>3, OpenHolds
  <2>4. CASE Modifier!Write
    BY <2>4, WriteHolds
  <2>5. CASE Modifier!OpenFails
    BY <2>5, OpenFailsHolds
  <2>6. CASE Modifier!Finish
    BY <2>6, FinishHolds
  <2>7. CASE Modifier!Crash
    BY <2>7, CrashHolds
  <2>8. CASE UNCHANGED Modifier!vars
    BY <2>8 DEF Modifier!vars, Modifier!memory, ModifierInv, MemoryOK, CollectInv, FileInv, TurnInv,
          Newest, Busy,
                Coming, Pending
  <2> QED BY <2>1, <2>2, <2>3, <2>4, <2>5, <2>6, <2>7, <2>8 DEF Modifier!Next
<1> QED BY <1>1, <1>2, PTL DEF Modifier!Spec

\* The node's number of clicks is the cardinality of the library's theorems.
LEMMA SameCardinality == ASSUME NEW S PROVE Modifier!Cardinality(S) = Cardinality(S)
BY DEF Modifier!Cardinality, Cardinality

\* Through every crash and every failed access to the file, a click marks one area only, and an
\* area is marked by as many clicks as it takes or by none (pointCallback, handleAutoMode,
\* modifyConfigFile).
THEOREM ClicksMarkOneArea ==
  ASSUME Present \subseteq Modifier!Names
  PROVE  Modifier!Spec => []Modifier!ClicksBelongToOneArea
<1>1. ModifierInv => Modifier!ClicksBelongToOneArea
  <2> SUFFICES ASSUME ModifierInv PROVE Modifier!ClicksBelongToOneArea
    OBVIOUS
  <2>1. Sound(file, clicks)
    BY DEF ModifierInv, FileInv
  <2>2. \A n \in DOMAIN file : ClicksIn(file, n) = Modifier!ClicksOf(n)
    BY DEF ClicksIn, Modifier!ClicksOf
  <2>3. ASSUME NEW n \in DOMAIN file
    PROVE Cardinality(Modifier!ClicksOf(n)) \in {0, Modifier!Required(n)}
    <3>1. n \in Modifier!Names /\ Batch(Modifier!ClicksOf(n), n, clicks)
      BY <2>1, <2>2 DEF Sound
    <3>2. CASE Modifier!ClicksOf(n) = {}
      BY <3>2, FS_EmptySet
    <3>3. CASE \E k \in Nat : Modifier!ClicksOf(n) = k + 1 .. k + Modifier!Required(n)
      <4>1. PICK k \in Nat : Modifier!ClicksOf(n) = k + 1 .. k + Modifier!Required(n)
        BY <3>3
      <4>2. Modifier!Required(n) \in Nat \ {0}
        BY <3>1, NamesOfAreas
      <4>3. k + 1 \in Int /\ k + Modifier!Required(n) \in Int /\ ~(k + 1 > k + Modifier!Required(n))
            /\ (k + Modifier!Required(n)) - (k + 1) + 1 = Modifier!Required(n)
        BY <4>2
      <4>4. Cardinality(k + 1 .. k + Modifier!Required(n)) = Modifier!Required(n)
        BY <4>3, FS_Interval
      <4> QED BY <4>1, <4>4
    <3> QED BY <3>1, <3>2, <3>3 DEF Batch
  <2>4. \A n \in DOMAIN file : Modifier!Cardinality(Modifier!ClicksOf(n)) \in {0, Modifier!Required(n)}
    BY <2>3, SameCardinality
  <2> QED BY <2>1, <2>2, <2>4 DEF Modifier!ClicksBelongToOneArea, Sound
<1> QED BY <1>1, ModifierInvariant, PTL

\* Without a crash or a failed access, between two clicks the x and the y of a tunnel hold the
\* same clicks, and the areas before the current one carry newer clicks than those from it on
\* (updateCostmapParameters, handleAutoMode).
THEOREM AreasAreWrittenInTurn ==
  ASSUME Present \subseteq Modifier!Names
  PROVE  Modifier!Spec => [](Modifier!TunnelHalvesAgree /\ Modifier!AreasTakeTurns)
<1>1. ModifierInv => Modifier!TunnelHalvesAgree /\ Modifier!AreasTakeTurns
  <2> SUFFICES ASSUME ModifierInv, at = "idle", faults = 0
    PROVE Modifier!TunnelHalvesAgree /\ Modifier!AreasTakeTurns
    BY DEF Modifier!TunnelHalvesAgree, Modifier!AreasTakeTurns
  <2>1. Busy = Nobody /\ Coming = file
    BY DEF Busy, Coming
  <2>2. HalvesAgree(file, Nobody) /\ InTurn(file, area, Nobody)
    BY <2>1 DEF ModifierInv, TurnInv
  <2>3. \A n \in DOMAIN file : Modifier!AreaOf(n) # Nobody
    BY NamesOfAreas DEF ModifierInv, FileInv, Sound
  <2>4. \A n \in DOMAIN file : ClicksIn(file, n) = Modifier!ClicksOf(n)
    BY DEF ClicksIn, Modifier!ClicksOf
  <2>5. Modifier!TunnelHalvesAgree
    BY <2>2, <2>3, <2>4 DEF HalvesAgree, Modifier!TunnelHalvesAgree
  <2>6. Modifier!AreasTakeTurns
    BY <2>2, <2>3, <2>4 DEF InTurn, Modifier!AreasTakeTurns
  <2> QED BY <2>5, <2>6
<1> QED BY <1>1, ModifierInvariant, PTL

\* What the run checks of the node: all three of these.
THEOREM ClicksAreWritten ==
  ASSUME Present \subseteq Modifier!Names
  PROVE  Modifier!Spec => []ClicksReachTheFile
<1>1. Modifier!ClicksBelongToOneArea /\ Modifier!TunnelHalvesAgree /\ Modifier!AreasTakeTurns
        => ClicksReachTheFile
  BY DEF ClicksReachTheFile
<1> QED BY <1>1, ClicksMarkOneArea, AreasAreWrittenInTurn, PTL

-----------------------------------------------------------------------------
(* The costmap layer *)

\* The master does not move, the bounds kept are cells or beyond them, and the master is that of
\* the layers before, but for the areas.
LayerInv ==
  /\ origin = 0
  /\ last \in Int \X Int
  /\ Layer!OnlyAreasAreFreed

\* A cycle leaves what the layers before wrote in its window, but for the areas: the window the
\* layers write is the one whose cells the layer has forgotten.
LEMMA UpdateMapHolds ==
  ASSUME Size \in Nat, Far \in Int, LayerInv,
         NEW min \in Int, NEW max \in Int, Layer!UpdateMap(min, max, 0)
  PROVE  LayerInv'
<1> DEFINE window == Layer!updateBounds(min, max)
           In(w) == (w - origin') \in Layer!Index /\ window[1] <= w - origin' /\ w - origin' < window[2]
           shown == IF Enabled THEN Layer!updateCosts(window)
                    ELSE [i \in Layer!Index |-> Layer!NO_INFORMATION]
<1>1. origin = 0 /\ origin' = 0 /\ last' \in Int \X Int
  BY DEF LayerInv, Layer!UpdateMap
<1>2. PICK written \in [Layer!World -> Layer!Earlier] :
        /\ below' = [w \in Layer!World |-> IF In(w) THEN written[w] ELSE below[w]]
        /\ master' = [w \in Layer!World |->
             IF ~In(w) THEN master[w]
             ELSE IF shown[w - origin'] # Layer!NO_INFORMATION THEN shown[w - origin']
             ELSE written[w]]
  BY DEF Layer!UpdateMap
<1>3. window \in Int \X Int
  BY DEF LayerInv, Layer!updateBounds, Layer!Lower, Layer!Upper
<1>4. ASSUME NEW w \in Layer!World, In(w)
      PROVE  shown[w] = IF Enabled /\ Layer!Filled(w) THEN Layer!FREE_SPACE ELSE Layer!NO_INFORMATION
  <2>1. w \in Layer!Index /\ Layer!Cleared(window, w)
    <3> HIDE DEF window
    <3>1. window[1] \in Int /\ window[2] \in Int
      BY <1>3
    <3>2. /\ w \in Int /\ w - origin' = w
          /\ 0 <= w /\ w < Size /\ window[1] <= w /\ w < window[2] /\ w \in Layer!Index
      BY <1>1, <1>4 DEF Layer!Index, Layer!World
    <3> QED BY <3>1, <3>2 DEF Layer!Cleared, Layer!Lower, Layer!Upper
  <2> HIDE DEF window
  <2> QED BY <2>1 DEF Layer!updateCosts
<1> HIDE DEF window, shown
<1>5. ASSUME NEW w \in Layer!World
      PROVE  master'[w] = IF Enabled /\ Layer!Filled(w - origin') /\ below'[w] # Layer!NO_INFORMATION
                          THEN Layer!FREE_SPACE ELSE below'[w]
  <2>1. w \in Int /\ w - origin' = w /\ w - origin = w
    BY <1>1 DEF Layer!World, Layer!Index
  <2>2. CASE In(w)
    <3>1. written[w] # Layer!NO_INFORMATION
      BY DEF Layer!Earlier, Layer!FREE_SPACE, Layer!LETHAL_OBSTACLE, Layer!NO_INFORMATION
    <3> QED BY <1>2, <1>4, <2>1, <2>2, <3>1 DEF Layer!FREE_SPACE, Layer!NO_INFORMATION
  <2>3. CASE ~In(w)
    <3>1. master'[w] = master[w] /\ below'[w] = below[w]
      BY <1>2, <2>3
    <3> QED BY <2>1, <3>1 DEF LayerInv, Layer!OnlyAreasAreFreed
  <2> QED BY <2>2, <2>3
<1> QED BY <1>1, <1>5 DEF LayerInv, Layer!OnlyAreasAreFreed

\* While the master does not roll, the layer frees the cells of the areas inside its costmap and
\* hides nothing else that the layers before it wrote, through every sequence of windows,
\* footprint changes and new maps (CustomLayer::updateBounds, updateCosts, matchSize).
THEOREM OnlyAreasAreFreed ==
  ASSUME Size \in Nat, Far \in Int, ~Rolling
  PROVE  Layer!LayerInit /\ [][Layer!LayerNext]_(Layer!layerVars) => []OnlyAreasFreed
<1>1. Layer!LayerInit => LayerInv
  <2> SUFFICES ASSUME Layer!LayerInit PROVE LayerInv
    OBVIOUS
  <2>1. origin = 0 /\ last \in Int \X Int
    BY DEF Layer!LayerInit
  <2> QED BY <2>1 DEF Layer!LayerInit, LayerInv, Layer!OnlyAreasAreFreed
<1>2. LayerInv /\ [Layer!LayerNext]_(Layer!layerVars) => LayerInv'
  <2> SUFFICES ASSUME LayerInv, [Layer!LayerNext]_(Layer!layerVars) PROVE LayerInv'
    OBVIOUS
  <2>1. ASSUME NEW min \in Layer!Index \cup {Far}, NEW max \in (1 .. Size) \cup {-Far},
               Layer!UpdateMap(min, max, 0)
        PROVE  LayerInv'
    <3>1. min \in Int /\ max \in Int
      BY DEF Layer!Index
    <3> QED BY <2>1, <3>1, UpdateMapHolds
  <2>2. CASE Layer!onFootprintChanged
    BY <2>2 DEF Layer!onFootprintChanged, LayerInv, Layer!OnlyAreasAreFreed
  <2>3. CASE Layer!matchSize
    BY <2>3 DEF Layer!matchSize, LayerInv, Layer!OnlyAreasAreFreed
  <2>4. CASE UNCHANGED Layer!layerVars
    BY <2>4 DEF Layer!layerVars, LayerInv, Layer!OnlyAreasAreFreed
  <2> QED BY <2>1, <2>2, <2>3, <2>4 DEF Layer!LayerNext
<1>3. LayerInv => OnlyAreasFreed
  BY DEF LayerInv, OnlyAreasFreed
<1> QED BY <1>1, <1>2, <1>3, PTL

-----------------------------------------------------------------------------
(* The serial port: where the bytes are *)

Bytes == [n : Nat, final : BOOLEAN]

Reads ==
  [op : {"readChar", "readBytes", "readString"}, max : Nat \ {0}, timeout : TimeOuts,
   got : Seq(Bytes), elapsed : Int]

PortTypeOK ==
  /\ kernel \in Seq(Bytes)
  /\ given \in Seq(Nat)
  /\ arrived \in Nat
  /\ call # Idle => call \in Reads

\* A read that goes on still lacks something, so what it asks for next is never negative.
RoomInv == call # Idle => Len(call.got) < call.max

\* What is not dropped, in the order of its stations: the callers', the read's, the queue's.
Held == IF call = Idle THEN <<>> ELSE Numbers(call.got)
Stream == (given \o Held) \o Numbers(kernel)

Increasing(s) == \A i, j \in DOMAIN s : i < j => s[i] < s[j]

\* The bytes 1 to n are those of s, in order, and those lost.
Accounts(n, s, lost) ==
  /\ Increasing(s)
  /\ ToSet(s) \cup lost = 1 .. n
  /\ ToSet(s) \cap lost = {}

BlameInv == \A b \in blame : b[1] \in {"flush", "readString"} \/ b[2] = "error"

PortInv == PortTypeOK /\ RoomInv /\ Accounts(arrived, Stream, dropped) /\ BlameInv

-----------------------------------------------------------------------------
(* The serial port: sequences of bytes and of their numbers *)

\* Numbers gives the number of every byte, in the bytes' order.
LEMMA NumbersOf ==
  ASSUME NEW s \in Seq(Bytes)
  PROVE  /\ Numbers(s) \in Seq(Nat)
         /\ Len(Numbers(s)) = Len(s)
         /\ \A i \in 1 .. Len(s) : Numbers(s)[i] = s[i].n
<1> DEFINE f == [i \in DOMAIN s |-> s[i].n]
<1>1. /\ Len(s) \in Nat /\ DOMAIN s = 1 .. Len(s)
      /\ \A i \in 1 .. Len(s) : s[i] \in Bytes
  BY LenProperties, ElementOfSeq
<1>2. f \in [1 .. Len(s) -> Nat]
  BY <1>1 DEF Bytes
<1>3. f \in Seq(Nat)
  BY <1>1, <1>2, SeqDef
<1>4. Len(f) = Len(s)
  BY <1>1, <1>3, LenProperties
<1>5. f \o <<>> = f
  BY <1>3, ConcatEmptySeq
<1> QED BY <1>1, <1>3, <1>4, <1>5 DEF Numbers

\* The numbers of two sequences of bytes, one behind the other.
LEMMA NumbersOfConcat ==
  ASSUME NEW s \in Seq(Bytes), NEW t \in Seq(Bytes)
  PROVE  Numbers(s \o t) = Numbers(s) \o Numbers(t)
<1>1. /\ s \o t \in Seq(Bytes) /\ Len(s \o t) = Len(s) + Len(t)
      /\ \A i \in 1 .. Len(s) + Len(t) : (s \o t)[i] = IF i <= Len(s) THEN s[i] ELSE t[i - Len(s)]
  BY ConcatProperties
<1>2. Len(s) \in Nat /\ Len(t) \in Nat
  BY LenProperties
<1> DEFINE a == Numbers(s \o t)
           u == Numbers(s)
           v == Numbers(t)
           b == u \o v
<1>3. /\ a \in Seq(Nat) /\ Len(a) = Len(s) + Len(t)
      /\ \A i \in 1 .. Len(s) + Len(t) : a[i] = (s \o t)[i].n
  BY <1>1, NumbersOf
<1>4. /\ u \in Seq(Nat) /\ Len(u) = Len(s) /\ \A i \in 1 .. Len(s) : u[i] = s[i].n
      /\ v \in Seq(Nat) /\ Len(v) = Len(t) /\ \A i \in 1 .. Len(t) : v[i] = t[i].n
  BY NumbersOf
<1> HIDE DEF u, v
<1>5. /\ b \in Seq(Nat) /\ Len(b) = Len(s) + Len(t)
      /\ \A i \in 1 .. Len(s) + Len(t) : b[i] = IF i <= Len(s) THEN u[i] ELSE v[i - Len(s)]
  BY <1>4, ConcatProperties
<1> HIDE DEF a, b
<1>6. ASSUME NEW i \in 1 .. Len(s) + Len(t) PROVE a[i] = b[i]
  <2>1. CASE i <= Len(s)
    <3>1. i \in 1 .. Len(s)
      BY <1>2, <2>1
    <3> QED BY <1>1, <1>3, <1>4, <1>5, <2>1, <3>1
  <2>2. CASE ~(i <= Len(s))
    <3>1. i - Len(s) \in 1 .. Len(t)
      BY <1>2, <2>2
    <3> QED BY <1>1, <1>3, <1>4, <1>5, <2>2, <3>1
  <2> QED BY <2>1, <2>2
<1>7. a = b
  BY <1>3, <1>5, <1>6, SeqEqual
<1> QED BY <1>7 DEF a, b, u, v

\* What is taken from the front of a queue, and what stays, make up the queue.
LEMMA FrontAndRest ==
  ASSUME NEW s \in Seq(Bytes), NEW n \in 0 .. Len(s)
  PROVE  /\ SubSeq(s, 1, n) \in Seq(Bytes) /\ Len(SubSeq(s, 1, n)) = n
         /\ SubSeq(s, n + 1, Len(s)) \in Seq(Bytes)
         /\ SubSeq(s, 1, n) \o SubSeq(s, n + 1, Len(s)) = s
<1>1. Len(s) \in Nat /\ n \in Nat /\ \A i \in 1 .. Len(s) : s[i] \in Bytes
  BY LenProperties, ElementOfSeq
<1>2. SubSeq(s, 1, n) \in Seq(Bytes) /\ Len(SubSeq(s, 1, n)) = n
  <2>1. \A i \in 1 .. n : s[i] \in Bytes
    BY <1>1
  <2>2. 1 \in Int /\ n \in Int
    BY <1>1
  <2>3. /\ SubSeq(s, 1, n) \in Seq(Bytes)
        /\ Len(SubSeq(s, 1, n)) = IF 1 <= n THEN n - 1 + 1 ELSE 0
    BY <2>1, <2>2, SubSeqProperties
  <2> QED BY <1>1, <2>3
<1>3. SubSeq(s, n + 1, Len(s)) \in Seq(Bytes)
  <2>1. \A i \in n + 1 .. Len(s) : s[i] \in Bytes
    BY <1>1
  <2>2. n + 1 \in Int /\ Len(s) \in Int
    BY <1>1
  <2> QED BY <2>1, <2>2, SubSeqProperties
<1>4. SubSeq(s, 1, n) \o SubSeq(s, n + 1, Len(s)) = SubSeq(s, 1, Len(s))
  <2>1. 1 \in 1 .. Len(s) + 1 /\ n \in 1 - 1 .. Len(s) /\ Len(s) \in n .. Len(s)
    BY <1>1
  <2> QED BY <2>1, ConcatAdjacentSubSeq
<1>5. SubSeq(s, 1, Len(s)) = s
  BY SubSeqFull
<1> QED BY <1>2, <1>3, <1>4, <1>5

\* The members of two sequences one behind the other are those of both.
LEMMA MembersOfConcat ==
  ASSUME NEW s \in Seq(Nat), NEW t \in Seq(Nat)
  PROVE  ToSet(s \o t) = ToSet(s) \cup ToSet(t)
<1>1. ToSet(s) = Range(s) /\ ToSet(t) = Range(t) /\ ToSet(s \o t) = Range(s \o t)
  BY DEF ToSet, Range
<1>2. Range(s \o t) = Range(s) \cup Range(t)
  BY RangeConcatenation
<1> QED BY <1>1, <1>2

\* When the middle of a stream is dropped, what is left is still in order and is not among the
\* dropped.
LEMMA MiddleDropped ==
  ASSUME NEW a \in Seq(Nat), NEW b \in Seq(Nat), NEW c \in Seq(Nat), NEW n, NEW lost,
         Accounts(n, (a \o b) \o c, lost)
  PROVE  Accounts(n, a \o c, lost \cup ToSet(b))
<1> DEFINE s == (a \o b) \o c
           t == a \o c
<1>1. Len(a) \in Nat /\ Len(b) \in Nat /\ Len(c) \in Nat
  BY LenProperties
<1>2. /\ a \o b \in Seq(Nat) /\ Len(a \o b) = Len(a) + Len(b)
      /\ \A i \in 1 .. Len(a) + Len(b) : (a \o b)[i] = IF i <= Len(a) THEN a[i] ELSE b[i - Len(a)]
  BY ConcatProperties
<1>3. /\ s \in Seq(Nat) /\ Len(s) = Len(a) + Len(b) + Len(c)
      /\ \A i \in 1 .. Len(a) + Len(b) + Len(c) :
           s[i] = IF i <= Len(a) + Len(b) THEN (a \o b)[i] ELSE c[i - (Len(a) + Len(b))]
  BY <1>2, ConcatProperties
<1>4. /\ t \in Seq(Nat) /\ Len(t) = Len(a) + Len(c)
      /\ \A i \in 1 .. Len(a) + Len(c) : t[i] = IF i <= Len(a) THEN a[i] ELSE c[i - Len(a)]
  BY ConcatProperties
<1>5. ToSet(s) = ToSet(t) \cup ToSet(b)
  <2>1. ToSet(s) = (ToSet(a) \cup ToSet(b)) \cup ToSet(c)
    BY <1>2, MembersOfConcat, ZenonT(40)
  <2>2. ToSet(t) = ToSet(a) \cup ToSet(c)
    BY MembersOfConcat
  <2> QED BY <2>1, <2>2
<1>6. DOMAIN s = 1 .. Len(a) + Len(b) + Len(c) /\ DOMAIN t = 1 .. Len(a) + Len(c)
  BY <1>3, <1>4, LenProperties
<1>7. DOMAIN b = 1 .. Len(b)
  BY LenProperties
<1>8. Increasing(s) /\ ToSet(s) \cup lost = 1 .. n /\ ToSet(s) \cap lost = {}
  BY DEF Accounts
<1> DEFINE Place(i) == IF i <= Len(a) THEN i ELSE i + Len(b)
<1> HIDE DEF s, t
<1>9. ASSUME NEW i \in DOMAIN t PROVE Place(i) \in DOMAIN s /\ t[i] = s[Place(i)]
  <2>1. CASE i <= Len(a)
    <3>1. i \in 1 .. Len(a) + Len(b) /\ i \in 1 .. Len(a) + Len(b) + Len(c) /\ i \in 1 .. Len(a) + Len(c)
      BY <1>1, <1>6, <2>1
    <3>2. i <= Len(a) + Len(b)
      BY <1>1, <3>1
    <3>3. s[i] = a[i]
      BY <1>2, <1>3, <2>1, <3>1, <3>2
    <3> QED BY <1>4, <1>6, <2>1, <3>1, <3>3
  <2>2. CASE ~(i <= Len(a))
    <3>1. /\ i \in 1 .. Len(a) + Len(c) /\ i + Len(b) \in 1 .. Len(a) + Len(b) + Len(c)
          /\ ~(i + Len(b) <= Len(a) + Len(b))
          /\ (i + Len(b)) - (Len(a) + Len(b)) = i - Len(a)
      BY <1>1, <1>6, <2>2
    <3>2. s[i + Len(b)] = c[i - Len(a)]
      BY <1>3, <3>1
    <3> QED BY <1>4, <1>6, <2>2, <3>1, <3>2
  <2> QED BY <2>1, <2>2
<1>10. Increasing(t)
  <2> SUFFICES ASSUME NEW i \in DOMAIN t, NEW j \in DOMAIN t, i < j PROVE t[i] < t[j]
    BY DEF Increasing
  <2>1. Place(i) < Place(j)
    BY <1>1, <1>6
  <2> HIDE DEF Place
  <2> QED BY <1>8, <1>9, <2>1 DEF Increasing
<1>11. ToSet(t) \cap ToSet(b) = {}
  <2> SUFFICES ASSUME NEW i \in DOMAIN t, NEW k \in DOMAIN b, t[i] = b[k] PROVE FALSE
    BY DEF ToSet
  <2>1. /\ k \in 1 .. Len(b) /\ Len(a) + k \in 1 .. Len(a) + Len(b)
        /\ Len(a) + k \in 1 .. Len(a) + Len(b) + Len(c)
        /\ ~(Len(a) + k <= Len(a)) /\ Len(a) + k <= Len(a) + Len(b)
        /\ (Len(a) + k) - Len(a) = k
    BY <1>1, <1>7
  <2>2. Len(a) + k \in DOMAIN s /\ s[Len(a) + k] = b[k]
    BY <1>2, <1>3, <1>6, <2>1
  <2>3. Place(i) < Len(a) + k \/ Len(a) + k < Place(i)
    BY <1>1, <1>6, <2>1
  <2>4. s[Place(i)] < s[Len(a) + k] \/ s[Len(a) + k] < s[Place(i)]
    <3> HIDE DEF Place
    <3> QED BY <1>8, <1>9, <2>2, <2>3 DEF Increasing
  <2>5. s[Place(i)] = s[Len(a) + k] /\ s[Place(i)] \in Nat
    <3> HIDE DEF Place
    <3>1. s[Place(i)] = t[i] /\ t[i] \in Nat
      BY <1>4, <1>6, <1>9, ElementOfSeq
    <3> QED BY <2>2, <3>1
  <2> HIDE DEF Place
  <2> QED BY <2>4, <2>5
<1>12. Accounts(n, t, lost \cup ToSet(b))
  <2>1. ToSet(t) \cup (lost \cup ToSet(b)) = 1 .. n
    BY <1>5, <1>8
  <2>2. ToSet(t) \cap (lost \cup ToSet(b)) = {}
    BY <1>5, <1>8, <1>11
  <2> QED BY <1>10, <2>1, <2>2 DEF Accounts
<1> QED BY <1>12 DEF t

\* A byte that comes is the next one of the stream.
LEMMA OneMore ==
  ASSUME NEW s \in Seq(Nat), NEW n \in Nat, NEW lost, Accounts(n, s, lost)
  PROVE  Accounts(n + 1, s \o <<n + 1>>, lost)
<1> DEFINE t == s \o <<n + 1>>
<1>1. <<n + 1>> \in Seq(Nat) /\ Len(<<n + 1>>) = 1 /\ <<n + 1>>[1] = n + 1 /\ DOMAIN <<n + 1>> = {1}
  OBVIOUS
<1>2. Len(s) \in Nat /\ DOMAIN s = 1 .. Len(s)
  BY LenProperties
<1>3. /\ t \in Seq(Nat) /\ Len(t) = Len(s) + 1
      /\ \A i \in 1 .. Len(s) + 1 : t[i] = IF i <= Len(s) THEN s[i] ELSE <<n + 1>>[i - Len(s)]
  BY <1>1, ConcatProperties
<1>4. DOMAIN t = 1 .. Len(s) + 1
  BY <1>3, LenProperties
<1>5. ToSet(t) = ToSet(s) \cup {n + 1}
  <2>1. ToSet(<<n + 1>>) = {n + 1}
    BY <1>1 DEF ToSet
  <2> QED BY <1>1, <2>1, MembersOfConcat
<1>6. Increasing(s) /\ ToSet(s) \cup lost = 1 .. n /\ ToSet(s) \cap lost = {}
  BY DEF Accounts
<1>7. \A i \in 1 .. Len(s) : t[i] = s[i] /\ s[i] \in 1 .. n
  <2>1. \A i \in 1 .. Len(s) : s[i] \in ToSet(s)
    BY <1>2 DEF ToSet
  <2> QED BY <1>2, <1>3, <1>6, <2>1
<1>8. t[Len(s) + 1] = n + 1
  BY <1>1, <1>2, <1>3
<1> HIDE DEF t
<1>9. Increasing(t)
  <2> SUFFICES ASSUME NEW i \in DOMAIN t, NEW j \in DOMAIN t, i < j PROVE t[i] < t[j]
    BY DEF Increasing
  <2>1. i \in 1 .. Len(s)
    BY <1>2, <1>4
  <2>2. CASE j \in 1 .. Len(s)
    BY <1>2, <1>6, <1>7, <2>1, <2>2 DEF Increasing
  <2>3. CASE j = Len(s) + 1
    BY <1>7, <1>8, <2>1, <2>3
  <2> QED BY <1>2, <1>4, <2>2, <2>3
<1>10. ToSet(t) \cup lost = 1 .. n + 1
  BY <1>5, <1>6
<1>11. ToSet(t) \cap lost = {}
  BY <1>5, <1>6
<1> QED BY <1>9, <1>10, <1>11 DEF Accounts, t

-----------------------------------------------------------------------------
(* The steps of the port *)

\* Initially nothing has come.
LEMMA PortInit == SerInit => PortInv
<1> SUFFICES ASSUME SerInit PROVE PortInv
  OBVIOUS
<1>1. PortTypeOK /\ RoomInv /\ BlameInv
  BY DEF SerInit, PortTypeOK, RoomInv, BlameInv
<1>2. Stream = <<>>
  <2>1. Numbers(kernel) = <<>>
    <3>1. <<>> \in Seq(Bytes) /\ Len(<<>>) = 0
      OBVIOUS
    <3>2. Numbers(<<>>) \in Seq(Nat) /\ Len(Numbers(<<>>)) = 0
      BY <3>1, NumbersOf
    <3>3. Numbers(<<>>) = <<>>
      BY <3>2, EmptySeq
    <3> QED BY <3>3 DEF SerInit
  <2>2. <<>> \o <<>> = <<>>
    BY ConcatEmptySeq
  <2> QED BY <2>1, <2>2 DEF SerInit, Stream, Held
<1>3. Accounts(arrived, Stream, dropped)
  BY <1>2 DEF SerInit, Accounts, Increasing, ToSet
<1> QED BY <1>1, <1>2, <1>3 DEF PortInv

\* The parts of the stream are sequences of numbers.
LEMMA StreamParts ==
  ASSUME PortTypeOK
  PROVE  Held \in Seq(Nat) /\ Numbers(kernel) \in Seq(Nat) /\ Stream \in Seq(Nat)
<1>1. Held \in Seq(Nat)
  <2>1. CASE call = Idle
    BY <2>1 DEF Held
  <2>2. CASE call # Idle
    <3>1. call.got \in Seq(Bytes)
      BY <2>2 DEF PortTypeOK, Reads
    <3> QED BY <2>2, <3>1, NumbersOf DEF Held
  <2> QED BY <2>1, <2>2
<1>2. Numbers(kernel) \in Seq(Nat)
  BY NumbersOf DEF PortTypeOK
<1>3. given \in Seq(Nat)
  BY DEF PortTypeOK
<1>4. given \o Held \in Seq(Nat)
  BY <1>1, <1>3, ConcatProperties
<1> QED BY <1>1, <1>2, <1>4, ConcatProperties DEF Stream

\* A read that is over holds nothing.
LEMMA NothingHeld ==
  ASSUME PortTypeOK, call = Idle
  PROVE  Stream = given \o Numbers(kernel)
<1>1. given \o <<>> = given
  BY ConcatEmptySeq DEF PortTypeOK
<1> QED BY <1>1 DEF Stream, Held

\* A byte is sent.
LEMMA SendHolds ==
  ASSUME PortInv, NEW final \in BOOLEAN, Send(final)
  PROVE  PortInv'
<1> DEFINE b == [n |-> arrived + 1, final |-> final]
<1>1. PortTypeOK /\ RoomInv /\ Accounts(arrived, Stream, dropped) /\ BlameInv
  BY DEF PortInv
<1>2. b \in Bytes /\ kernel \in Seq(Bytes) /\ arrived \in Nat
  BY <1>1 DEF PortTypeOK, Bytes
<1>3. kernel' = kernel \o <<b>> /\ kernel' \in Seq(Bytes)
  BY <1>2, AppendIsConcat, AppendProperties DEF Send
<1>4. Numbers(kernel') = Numbers(kernel) \o <<arrived + 1>>
  <2>1. <<b>> \in Seq(Bytes) /\ Len(<<b>>) = 1 /\ <<b>>[1] = b
    BY <1>2
  <2>2. /\ Numbers(<<b>>) \in Seq(Nat) /\ Len(Numbers(<<b>>)) = 1
        /\ Numbers(<<b>>)[1] = arrived + 1
    <3>1. b.n = arrived + 1
      OBVIOUS
    <3> HIDE DEF b
    <3>2. /\ Numbers(<<b>>) \in Seq(Nat) /\ Len(Numbers(<<b>>)) = Len(<<b>>)
          /\ \A i \in 1 .. Len(<<b>>) : Numbers(<<b>>)[i] = <<b>>[i].n
      BY <2>1, NumbersOf
    <3> QED BY <2>1, <3>1, <3>2
  <2>3. Numbers(<<b>>) = <<arrived + 1>>
    <3>1. <<arrived + 1>> \in Seq(Nat) /\ Len(<<arrived + 1>>) = 1 /\ <<arrived + 1>>[1] = arrived + 1
      BY <1>2
    <3>2. \A i \in 1 .. 1 : Numbers(<<b>>)[i] = <<arrived + 1>>[i]
      BY <2>2, <3>1
    <3> HIDE DEF b
    <3> QED BY <2>2, <3>1, <3>2, SeqEqual
  <2> HIDE DEF b
  <2> QED BY <1>2, <1>3, <2>1, <2>3, NumbersOfConcat
<1>5. Stream' = Stream \o <<arrived + 1>>
  <2>1. given' = given /\ Held' = Held
    BY DEF Send, Held
  <2>2. /\ given \o Held \in Seq(Nat) /\ Numbers(kernel) \in Seq(Nat)
        /\ <<arrived + 1>> \in Seq(Nat)
    BY <1>1, <1>2, StreamParts, ConcatProperties DEF PortTypeOK
  <2>3. Stream' = (given \o Held) \o (Numbers(kernel) \o <<arrived + 1>>)
    BY <1>4, <2>1 DEF Stream
  <2> QED BY <2>2, <2>3, ConcatAssociative DEF Stream
<1>6. Accounts(arrived + 1, Stream \o <<arrived + 1>>, dropped)
  BY <1>1, <1>2, StreamParts, OneMore
<1>7. PortTypeOK'
  BY <1>1, <1>2, <1>3 DEF PortTypeOK, Send
<1> QED BY <1>1, <1>5, <1>6, <1>7 DEF PortInv, Send, RoomInv, BlameInv

\* What is read is out of the queue; when the read ends with it, what it took is dropped or handed
\* over, and when it does not, the stream is the same.
LEMMA PollHolds ==
  ASSUME PortInv, Poll
  PROVE  PortInv'
<1>1. PortTypeOK /\ RoomInv /\ Accounts(arrived, Stream, dropped) /\ BlameInv
  BY DEF PortInv
<1>2. /\ call # Idle /\ call \in Reads /\ Len(call.got) < call.max
      /\ call.got \in Seq(Bytes) /\ call.max \in Nat /\ Len(call.got) \in Nat
      /\ given \in Seq(Nat) /\ kernel \in Seq(Bytes) /\ arrived \in Nat /\ arrived' = arrived
  <2>1. call # Idle /\ arrived' = arrived
    BY DEF Poll
  <2>2. call \in Reads /\ call.got \in Seq(Bytes) /\ call.max \in Nat
    BY <1>1, <2>1 DEF PortTypeOK, Reads
  <2>3. Len(call.got) \in Nat
    BY <2>2, LenProperties
  <2> QED BY <1>1, <2>1, <2>2, <2>3 DEF PortTypeOK, RoomInv
<1>3. Held = Numbers(call.got) /\ Held \in Seq(Nat) /\ Numbers(kernel) \in Seq(Nat)
  BY <1>1, <1>2, StreamParts DEF Held
<1>4. ASSUME NEW why, Forget(why), kernel' = kernel, call.op = "readString" \/ why = "error"
      PROVE  PortInv'
  <2>1. call' = Idle /\ given' = given /\ dropped' = dropped \cup ToSet(Held)
    BY <1>3, <1>4 DEF Forget
  <2>2. PortTypeOK' /\ RoomInv'
    BY <1>2, <1>4, <2>1 DEF PortTypeOK, RoomInv
  <2>3. Stream' = given \o Numbers(kernel)
    <3>1. Held' = <<>>
      BY <2>1 DEF Held
    <3>2. given \o <<>> = given
      BY <1>2, ConcatEmptySeq
    <3> QED BY <1>4, <2>1, <3>1, <3>2 DEF Stream
  <2>4. Accounts(arrived, given \o Numbers(kernel), dropped \cup ToSet(Held))
    BY <1>1, <1>2, <1>3, MiddleDropped DEF Stream
  <2>5. BlameInv'
    BY <1>1, <1>4 DEF BlameInv, Forget
  <2> QED BY <1>2, <2>1, <2>2, <2>3, <2>4, <2>5 DEF PortInv
<1>5. ASSUME Report, kernel' = kernel PROVE PortInv'
  <2>1. call' = Idle /\ given' = given \o Held /\ dropped' = dropped /\ blame' = blame
    BY <1>3, <1>5 DEF Report
  <2>2. given' \in Seq(Nat)
    BY <1>2, <1>3, <2>1, ConcatProperties
  <2>3. PortTypeOK' /\ RoomInv' /\ BlameInv'
    BY <1>1, <1>2, <1>5, <2>1, <2>2 DEF PortTypeOK, RoomInv, BlameInv
  <2>4. Stream' = Stream
    <3>1. Held' = <<>>
      BY <2>1 DEF Held
    <3>2. given' \o <<>> = given'
      BY <2>2, ConcatEmptySeq
    <3> QED BY <1>5, <2>1, <3>1, <3>2 DEF Stream
  <2> QED BY <1>1, <1>2, <2>1, <2>3, <2>4 DEF PortInv
<1>6. ASSUME NEW most \in Nat, most <= call.max - Len(call.got), read(most) PROVE PortInv'
  <2> DEFINE n == IF most < Len(kernel) THEN most ELSE Len(kernel)
             front == SubSeq(kernel, 1, n)
             rest == SubSeq(kernel, n + 1, Len(kernel))
             got == call.got \o front
             full == Len(got) >= call.max
             done == call.op = "readString" /\ n = 1 /\ kernel[1].final
  <2>1. n \in 0 .. Len(kernel) /\ n <= most
    BY <1>2, LenProperties
  <2>2. /\ front \in Seq(Bytes) /\ Len(front) = n /\ rest \in Seq(Bytes)
        /\ front \o rest = kernel
    BY <1>2, <2>1, FrontAndRest
  <2>3. kernel' = rest
    BY <1>6 DEF read
  <2>4. \/ call' = Idle /\ given' = given \o Numbers(got) /\ dropped' = dropped /\ blame' = blame
        \/ /\ call' = Idle /\ given' = given
           /\ dropped' = dropped \cup ToSet(Numbers(got))
           /\ call.op = "readString" /\ blame' = blame \cup {<<call.op, "full">>}
        \/ /\ ~full /\ call' = [call EXCEPT !.got = got]
           /\ given' = given /\ dropped' = dropped /\ blame' = blame
    BY <1>6 DEF read
  <2> HIDE DEF n, front, rest
  <2>5. got \in Seq(Bytes) /\ Len(got) = Len(call.got) + n
    BY <1>2, <2>2, ConcatProperties
  <2> HIDE DEF got
  <2>6. Numbers(got) \in Seq(Nat) /\ Numbers(rest) \in Seq(Nat) /\ Numbers(front) \in Seq(Nat)
    BY <2>2, <2>5, NumbersOf
  <2>7. Numbers(got) = Held \o Numbers(front) /\ Numbers(kernel) = Numbers(front) \o Numbers(rest)
    BY <1>2, <1>3, <2>2, NumbersOfConcat DEF got
  <2>8. (given \o Numbers(got)) \o Numbers(rest) = Stream
    <3>1. given \o Numbers(got) = (given \o Held) \o Numbers(front)
      <4>1. given \in Seq(Nat) /\ Held \in Seq(Nat) /\ Numbers(front) \in Seq(Nat)
        BY <1>2, <1>3, <2>6
      <4>2. (given \o Held) \o Numbers(front) = given \o (Held \o Numbers(front))
        BY ONLY <4>1, ConcatAssociative
      <4> QED BY <2>7, <4>2
    <3>2. given \o Held \in Seq(Nat)
      BY <1>2, <1>3, ConcatProperties
    <3>3. ((given \o Held) \o Numbers(front)) \o Numbers(rest)
            = (given \o Held) \o (Numbers(front) \o Numbers(rest))
      <4> DEFINE h == given \o Held
                 u == Numbers(front)
                 v == Numbers(rest)
      <4>1. h \in Seq(Nat) /\ u \in Seq(Nat) /\ v \in Seq(Nat)
        BY <2>6, <3>2
      <4> HIDE DEF h, u, v
      <4>2. (h \o u) \o v = h \o (u \o v)
        BY <4>1, ConcatAssociative, SMTT(30)
      <4> QED BY <4>2 DEF h, u, v
    <3> QED BY <2>7, <3>1, <3>3 DEF Stream
  <2>9. CASE call' = Idle /\ given' = given \o Numbers(got) /\ dropped' = dropped /\ blame' = blame
    <3>1. given' \in Seq(Nat)
      BY <1>2, <2>6, <2>9, ConcatProperties
    <3>2. PortTypeOK' /\ RoomInv' /\ BlameInv'
      BY <1>1, <1>2, <2>2, <2>3, <2>9, <3>1 DEF PortTypeOK, RoomInv, BlameInv
    <3>3. Stream' = Stream
      <4>1. Held' = <<>>
        BY <2>9 DEF Held
      <4>2. given' \o <<>> = given'
        BY <3>1, ConcatEmptySeq
      <4> QED BY <2>3, <2>8, <2>9, <4>1, <4>2 DEF Stream
    <3> QED BY <1>1, <1>2, <2>9, <3>2, <3>3 DEF PortInv
  <2>10. CASE /\ call' = Idle /\ given' = given
              /\ dropped' = dropped \cup ToSet(Numbers(got))
              /\ call.op = "readString" /\ blame' = blame \cup {<<call.op, "full">>}
    <3>1. PortTypeOK' /\ RoomInv'
      BY <1>2, <2>2, <2>3, <2>10 DEF PortTypeOK, RoomInv
    <3>2. BlameInv'
      BY <1>1, <2>10 DEF BlameInv
    <3>3. Stream' = given \o Numbers(rest)
      <4>1. Held' = <<>>
        BY <2>10 DEF Held
      <4>2. given \o <<>> = given
        BY <1>2, ConcatEmptySeq
      <4> QED BY <2>3, <2>10, <4>1, <4>2 DEF Stream
    <3>4. Accounts(arrived, given \o Numbers(rest), dropped \cup ToSet(Numbers(got)))
      BY <1>1, <1>2, <2>6, <2>8, MiddleDropped
    <3> QED BY <1>2, <2>10, <3>1, <3>2, <3>3, <3>4 DEF PortInv
  <2>11. CASE /\ ~full /\ call' = [call EXCEPT !.got = got]
              /\ given' = given /\ dropped' = dropped /\ blame' = blame
    <3>1. call' \in Reads /\ call' # Idle /\ call'.got = got /\ call'.max = call.max
      BY <1>2, <2>5, <2>11 DEF Reads, Idle
    <3>2. PortTypeOK' /\ BlameInv'
      BY <1>1, <1>2, <2>2, <2>3, <2>11, <3>1 DEF PortTypeOK, BlameInv
    <3>3. RoomInv'
      BY <1>2, <2>1, <2>5, <2>11, <3>1 DEF RoomInv
    <3>4. Stream' = Stream
      BY <2>3, <2>8, <2>11, <3>1 DEF Stream, Held
    <3> QED BY <1>1, <1>2, <2>11, <3>2, <3>3, <3>4 DEF PortInv
  <2> QED BY <2>4, <2>9, <2>10, <2>11
<1>7. \/ \E most \in Nat : most <= call.max - Len(call.got) /\ read(most)
      \/ Forget("error") /\ kernel' = kernel
      \/ EndOfTime /\ kernel' = kernel
  BY <1>2 DEF Poll
<1>8. EndOfTime => (Forget("timeout") /\ call.op = "readString") \/ Report
  BY DEF EndOfTime
<1> QED BY <1>4, <1>5, <1>6, <1>7, <1>8

\* The remaining steps throw the queue away, start a read or leave the bytes alone.
LEMMA OtherHolds ==
  ASSUME MaxNbBytes \subseteq Nat \ {0}, PortInv,
         \/ Unplug \/ Tick \/ openDevice \/ closeDevice \/ flushReceiver
         \/ \E op \in {"readChar", "readBytes", "readString"}, max \in MaxNbBytes, t \in TimeOuts :
              Begin(op, max, t)
  PROVE  PortInv'
<1>1. PortTypeOK /\ RoomInv /\ Accounts(arrived, Stream, dropped) /\ BlameInv
  BY DEF PortInv
<1>2. ASSUME UNCHANGED <<kernel, arrived, call, given, dropped, blame>> PROVE PortInv'
  <2>1. Stream' = Stream
    BY <1>2 DEF Stream, Held
  <2>2. PortTypeOK' /\ RoomInv' /\ BlameInv'
    BY <1>1, <1>2 DEF PortTypeOK, RoomInv, BlameInv
  <2> QED BY <1>1, <1>2, <2>1, <2>2 DEF PortInv
<1>3. CASE Unplug \/ openDevice \/ closeDevice
  BY <1>2, <1>3 DEF Unplug, openDevice, closeDevice
<1>4. CASE Tick
  <2>1. call \in Reads /\ call # Idle
    BY <1>1, <1>4 DEF Tick, PortTypeOK
  <2>2. PICK e \in Int : call' = [call EXCEPT !.elapsed = e]
    BY <1>4, <2>1 DEF Tick, Reads, Huge
  <2>3. call' \in Reads /\ call' # Idle /\ call'.got = call.got /\ call'.max = call.max
    BY <2>1, <2>2 DEF Reads, Idle
  <2>4. Stream' = Stream
    BY <1>4, <2>1, <2>3 DEF Tick, Stream, Held
  <2>5. PortTypeOK' /\ RoomInv' /\ BlameInv'
    BY <1>1, <1>4, <2>1, <2>3 DEF Tick, PortTypeOK, RoomInv, BlameInv
  <2> QED BY <1>1, <1>4, <2>4, <2>5 DEF PortInv, Tick
<1>5. CASE flushReceiver
  <2>1. call = Idle /\ call' = Idle /\ given' = given /\ arrived' = arrived /\ kernel' = <<>>
    BY <1>5 DEF flushReceiver
  <2>2. given \in Seq(Nat) /\ Numbers(kernel) \in Seq(Nat) /\ <<>> \in Seq(Bytes)
    BY <1>1, StreamParts DEF PortTypeOK
  <2>3. PortTypeOK' /\ RoomInv'
    BY <1>1, <2>1, <2>2 DEF PortTypeOK, RoomInv
  <2>4. BlameInv'
    BY <1>1, <1>5 DEF BlameInv, flushReceiver
  <2>5. Numbers(<<>>) = <<>>
    BY <2>2, NumbersOf, EmptySeq
  <2>6. Stream' = given \o <<>>
    <3>1. given \o <<>> = given
      BY <2>2, ConcatEmptySeq
    <3> QED BY <2>1, <2>5, <3>1 DEF Stream, Held
  <2>7. Stream = (given \o Numbers(kernel)) \o <<>>
    <3>1. given \o Numbers(kernel) \in Seq(Nat)
      BY <2>2, ConcatProperties
    <3>2. (given \o Numbers(kernel)) \o <<>> = given \o Numbers(kernel)
      BY <3>1, ConcatEmptySeq
    <3> QED BY <1>1, <2>1, <3>2, NothingHeld
  <2>8. Accounts(arrived, given \o <<>>, dropped \cup ToSet(Numbers(kernel)))
    <3>1. <<>> \in Seq(Nat)
      OBVIOUS
    <3> QED BY <1>1, <2>2, <2>7, <3>1, MiddleDropped
  <2>9. dropped' = dropped \cup ToSet(Numbers(kernel))
    BY <1>5 DEF flushReceiver
  <2> QED BY <2>1, <2>3, <2>4, <2>6, <2>8, <2>9 DEF PortInv
<1>6. ASSUME NEW op \in {"readChar", "readBytes", "readString"}, NEW max \in MaxNbBytes,
             NEW t \in TimeOuts, Begin(op, max, t)
      PROVE  PortInv'
  <2>1. /\ call = Idle /\ call' \in Reads /\ call' # Idle /\ call'.got = <<>> /\ call'.max > 0
        /\ UNCHANGED <<kernel, arrived, given, dropped, blame>>
    BY <1>6 DEF Begin, Reads, Idle
  <2>2. PortTypeOK' /\ RoomInv' /\ BlameInv'
    <3>1. Len(<<>>) = 0
      OBVIOUS
    <3> QED BY <1>1, <2>1, <3>1 DEF PortTypeOK, RoomInv, BlameInv
  <2>3. Numbers(<<>>) = <<>>
    <3>1. <<>> \in Seq(Bytes)
      OBVIOUS
    <3> QED BY <3>1, NumbersOf, EmptySeq
  <2>4. Stream' = Stream
    BY <2>1, <2>3 DEF Stream, Held
  <2> QED BY <1>1, <2>1, <2>2, <2>4 DEF PortInv
<1> QED BY <1>3, <1>4, <1>5, <1>6

\* The inductive invariant holds, when every caller asks for at least one byte.
THEOREM PortInvariant ==
  ASSUME MaxNbBytes \subseteq Nat \ {0}
  PROVE  SerSpec => []PortInv
<1>1. SerInit => PortInv
  BY PortInit
<1>2. PortInv /\ [SerNext]_serVars => PortInv'
  <2> SUFFICES ASSUME PortInv, [SerNext]_serVars PROVE PortInv'
    OBVIOUS
  <2>1. CASE \E final \in BOOLEAN : Send(final)
    BY <2>1, SendHolds
  <2>2. CASE Poll
    BY <2>2, PollHolds
  <2>3. CASE \/ Unplug \/ Tick \/ openDevice \/ closeDevice \/ flushReceiver
             \/ \E op \in {"readChar", "readBytes", "readString"}, max \in MaxNbBytes,
                   t \in TimeOuts : Begin(op, max, t)
    BY <2>3, OtherHolds
  <2>4. CASE UNCHANGED serVars
    BY <2>4 DEF serVars, portVars, PortInv, PortTypeOK, RoomInv, BlameInv, Stream, Held
  <2> QED BY <2>1, <2>2, <2>3, <2>4 DEF SerNext
<1> QED BY <1>1, <1>2, PTL DEF SerSpec

\* For every length and time-out the callers of readChar, readBytes and readString give, and
\* through every clock set back, unplugging, flush and reopening, each byte reaches its caller
\* once and in order or is counted as dropped, and it is dropped only by a flush, by a string
\* read, or by an error in the middle of a read.
THEOREM BytesAreAccounted ==
  ASSUME MaxNbBytes \subseteq Nat \ {0}
  PROVE  SerSpec => []BytesAccounted
<1>1. PortInv => BytesAccounted
  BY DEF PortInv, BytesAccounted, Accounts, Increasing, Stream, Held, BlameInv
<1> QED BY <1>1, PortInvariant, PTL

-----------------------------------------------------------------------------
(* The planner's parameters *)

\* The parameters that the callback hears of under the type they are declared with.
Listened ==
  Parameter!Plain \ {"odom_topic", "weight_velocity_obstacle_ratio", "roadmap_graph_samples",
                     "divergence_detection_max_chi_squared"}

ParameterInv ==
  /\ DOMAIN nodeValues = Parameter!Plain /\ DOMAIN config = Parameter!Plain
  /\ \A n \in Listened : config[n] = nodeValues[n]
  /\ loaded => warned = Parameter!checkParameters(config)

\* The lists of the callback, compared with the declarations, leave out four parameters only.
LEMMA ListenedAreHeard == Listened \subseteq Parameter!Heard
BY DEF Listened, Parameter!Heard, Parameter!Plain, Parameter!Declared, Parameter!Listed,
   Parameter!Doubles, Parameter!Ints, Parameter!Bools, Parameter!Strings

\* Whatever the launch file and later changes set, a parameter that the callback hears of has the
\* value the node reports for it, and the warnings are those of the values in use.
THEOREM AcceptedIsInUse ==
  Parameter!Init /\ [][Parameter!ConfigNext]_(Parameter!configVars) => []ParametersTakeEffect
<1>1. Parameter!Init => ParameterInv
  BY DEF Parameter!Init, Parameter!Defaults, ParameterInv, Listened
<1>2. ParameterInv /\ [Parameter!ConfigNext]_(Parameter!configVars) => ParameterInv'
  <2> SUFFICES ASSUME ParameterInv, [Parameter!ConfigNext]_(Parameter!configVars) PROVE ParameterInv'
    OBVIOUS
  <2>1. /\ DOMAIN nodeValues = Parameter!Plain /\ DOMAIN config = Parameter!Plain
        /\ \A n \in Listened : config[n] = nodeValues[n] /\ n \in Parameter!Plain
        /\ loaded => warned = Parameter!checkParameters(config)
    BY DEF ParameterInv, Listened
  <2>2. CASE Parameter!loadRosParamFromNodeHandle
    <3>1. warned' = Parameter!checkParameters(config')
      BY <2>2 DEF Parameter!loadRosParamFromNodeHandle
    <3>2. CASE UNCHANGED <<nodeValues, config, sets>>
      BY <2>1, <3>1, <3>2 DEF ParameterInv
    <3>3. ASSUME NEW n \in Parameter!Plain, NEW v \in NewValues,
                 nodeValues' = [nodeValues EXCEPT ![n] = v], config' = [config EXCEPT ![n] = v]
          PROVE  ParameterInv'
      BY <2>1, <3>1, <3>3 DEF ParameterInv
    <3> QED BY <2>2, <3>2, <3>3 DEF Parameter!loadRosParamFromNodeHandle
  <2>3. CASE Parameter!dynamicParametersCallback
    <3>1. warned' = Parameter!checkParameters(config')
      BY <2>3 DEF Parameter!dynamicParametersCallback
    <3>2. CASE UNCHANGED <<nodeValues, config, base>>
      BY <2>1, <3>1, <3>2 DEF ParameterInv
    <3>3. ASSUME NEW n \in Parameter!Plain, NEW v \in NewValues,
                 nodeValues' = [nodeValues EXCEPT ![n] = v],
                 config' = IF n \in Parameter!Heard THEN [config EXCEPT ![n] = v] ELSE config
          PROVE  ParameterInv'
      <4>1. CASE n \in Parameter!Heard
        BY <2>1, <3>1, <3>3, <4>1 DEF ParameterInv
      <4>2. CASE n \notin Parameter!Heard
        <5>1. n \notin Listened
          BY <4>2, ListenedAreHeard
        <5> QED BY <2>1, <3>1, <3>3, <4>2, <5>1 DEF ParameterInv
      <4> QED BY <4>1, <4>2
    <3> QED BY <2>3, <3>2, <3>3 DEF Parameter!dynamicParametersCallback
  <2>4. CASE UNCHANGED Parameter!configVars
    <3>1. UNCHANGED <<nodeValues, config, warned, loaded>>
      BY <2>4 DEF Parameter!configVars
    <3> QED BY <2>1, <3>1 DEF ParameterInv
  <2> QED BY <2>2, <2>3, <2>4 DEF Parameter!ConfigNext
<1>3. ParameterInv => ParametersTakeEffect
  BY DEF ParameterInv, ParametersTakeEffect, Parameter!AcceptedTakesEffect, Listened
<1> QED BY <1>1, <1>2, <1>3, PTL

-----------------------------------------------------------------------------
(* Numbers and loops *)

\* A set of natural numbers has a smallest member, and Min is it.
LEMMA HasSmallest ==
  ASSUME NEW T, T \subseteq Nat, T # {}
  PROVE  \E x \in T : \A y \in T : x <= y
<1>1. \E x \in T : \A y \in T : ~ (<<y, x>> \in OpToRel(<, Nat))
  BY NatLessThanWellFounded, WFMin
<1>2. \A x, y \in T : y < x => <<y, x>> \in OpToRel(<, Nat)
  BY DEF OpToRel
<1>3. \A x, y \in T : ~(y < x) => x <= y
  OBVIOUS
<1> QED BY <1>1, <1>2, <1>3

LEMMA MinIs ==
  ASSUME NEW T, T \subseteq Nat, T # {}
  PROVE  /\ Tracker!Min(T) \in T /\ \A y \in T : Tracker!Min(T) <= y
         /\ Planner!Min(T) = Tracker!Min(T)
<1>1. \E x \in T : \A y \in T : x =< y
  BY HasSmallest
<1> QED BY <1>1 DEF Tracker!Min, Planner!Min

\* A set of numbers up to n has a greatest member, and Max is it.
LEMMA MaxIs ==
  ASSUME NEW n \in Nat, NEW T, T \subseteq 0 .. n, T # {}
  PROVE  /\ Tracker!Max(T) \in T /\ \A y \in T : y <= Tracker!Max(T)
         /\ Planner!Max(T) = Tracker!Max(T)
<1> DEFINE U == {n - x : x \in T}
<1>1. U \subseteq Nat /\ U # {}
  <2>1. \A x \in T : x \in 0 .. n /\ n - x \in Nat
    OBVIOUS
  <2>2. PICK x \in T : TRUE
    OBVIOUS
  <2>3. n - x \in U
    OBVIOUS
  <2> QED BY <2>1, <2>3
<1>2. PICK u \in U : \A y \in U : u <= y
  <2> HIDE DEF U
  <2> QED BY <1>1, HasSmallest
<1>3. PICK x \in T : u = n - x
  BY <1>2
<1>4. ASSUME NEW y \in T PROVE x >= y
  <2>1. n - y \in U
    OBVIOUS
  <2>2. n - x <= n - y
    BY <1>2, <1>3, <2>1
  <2>3. x \in Int /\ y \in Int
    OBVIOUS
  <2> QED BY <2>2, <2>3
<1>5. \E z \in T : \A y \in T : z >= y
  BY <1>4
<1>6. Tracker!Max(T) \in T /\ \A y \in T : Tracker!Max(T) >= y
  BY <1>5 DEF Tracker!Max
<1>7. \A y \in T : y \in Int
  OBVIOUS
<1> QED BY <1>6, <1>7 DEF Tracker!Max, Planner!Max

\* What holds at first and after a turn before which it held, holds after every turn of a loop.
LEMMA LoopHolds ==
  ASSUME NEW L \in Nat, NEW S, 0 \in S, \A k \in 1 .. L : k - 1 \in S => k \in S
  PROVE  0 .. L \subseteq S
<1>1. SUFFICES ASSUME (0 .. L) \ S # {} PROVE FALSE
  OBVIOUS
<1> DEFINE T == (0 .. L) \ S
<1>2. T \subseteq Nat /\ T # {}
  BY <1>1
<1>3. PICK x \in T : \A y \in T : x <= y
  <2> HIDE DEF T
  <2> QED BY <1>2, HasSmallest
<1>4. x \in 1 .. L /\ x - 1 \in 0 .. L /\ ~(x <= x - 1)
  BY <1>3
<1>5. x - 1 \in S
  BY <1>3, <1>4
<1> QED BY <1>3, <1>4, <1>5

\* The results of a loop after each of its L turns, which stay in A.
IsRun(g, L, A, a, turns) ==
  /\ g \in [0 .. L -> A]
  /\ g[0] = a /\ \A k \in 1 .. L : g[k - 1] \in A /\ g[k] = turns[<<k, g[k - 1]>>]

LEMMA LoopRuns ==
  ASSUME NEW L \in Nat, NEW A, NEW a \in A, NEW turns \in [(1 .. L) \X A -> A]
  PROVE  \E g : IsRun(g, L, A, a, turns)
<1> DEFINE Runs(n) == {g \in [0 .. n -> A] :
                         g[0] = a /\ \A k \in 1 .. n : g[k] = turns[<<k, g[k - 1]>>]}
           S == {n \in 0 .. L : Runs(n) # {}}
<1>1. 0 \in S
  <2>1. [k \in 0 .. 0 |-> a] \in Runs(0)
    OBVIOUS
  <2> QED BY <2>1
<1>2. ASSUME NEW m \in 1 .. L, m - 1 \in S PROVE m \in S
  <2>1. PICK g \in Runs(m - 1) : TRUE
    BY <1>2
  <2> DEFINE h == [k \in 0 .. m |-> IF k < m THEN g[k] ELSE turns[<<m, g[m - 1]>>]]
  <2>2. g \in [0 .. m - 1 -> A] /\ g[m - 1] \in A /\ turns[<<m, g[m - 1]>>] \in A
    BY <1>2, <2>1
  <2>3. h \in [0 .. m -> A]
    BY <2>2
  <2>4. \A k \in 1 .. m : h[k] = turns[<<k, h[k - 1]>>]
    <3> TAKE k \in 1 .. m
    <3>1. CASE k < m
      BY <2>1, <3>1
    <3>2. CASE k = m
      <4>1. h[m] = turns[<<m, g[m - 1]>>] /\ h[m - 1] = g[m - 1]
        BY <1>2
      <4> HIDE DEF h
      <4> QED BY <3>2, <4>1
    <3> QED BY <3>1, <3>2
  <2>5. h[0] = a
    BY <2>1
  <2>6. h \in Runs(m)
    BY <2>3, <2>4, <2>5
  <2> HIDE DEF h
  <2>7. Runs(m) # {}
    BY <2>6
  <2> HIDE DEF Runs
  <2> QED BY <2>7
<1> HIDE DEF S
<1>3. L \in S
  BY <1>1, <1>2, LoopHolds
<1>4. PICK g \in Runs(L) : TRUE
  BY <1>3 DEF S
<1>5. \A k \in 1 .. L : k - 1 \in 0 .. L
  OBVIOUS
<1>6. IsRun(g, L, A, a, turns)
  BY <1>4, <1>5 DEF IsRun
<1> QED BY <1>6

\* The members of S up to n, in their order.
LEMMA InOrderIs ==
  ASSUME NEW S, NEW n \in Nat
  PROVE  /\ Tracker!InOrder(S, n) \in Seq(1 .. n)
         /\ \A i, j \in DOMAIN Tracker!InOrder(S, n) :
              i < j => Tracker!InOrder(S, n)[i] < Tracker!InOrder(S, n)[j]
         /\ \A k \in 1 .. n : k \in S <=> \E i \in DOMAIN Tracker!InOrder(S, n) : Tracker!InOrder(S, n)[i] = k
<1> DEFINE turn(kept, k) == IF k \in S THEN Append(kept, k) ELSE kept
           IsLoop(g) == g = [k \in 0 .. n |-> IF k = 0 THEN <<>> ELSE turn(g[k - 1], k)]
           after == CHOOSE g : IsLoop(g)
           A == Seq(1 .. n)
           turns == [p \in (1 .. n) \X A |-> turn(p[2], p[1])]
<1>1. Tracker!InOrder(S, n) = after[n]
  BY DEF Tracker!InOrder, Tracker!Walk
<1>2. \A k \in 1 .. n, b \in A : turn(b, k) \in A
  <2>1. \A k \in 1 .. n, b \in A : Append(b, k) \in A
    BY AppendProperties
  <2> QED BY <2>1
<1>3. <<>> \in A
  OBVIOUS
<1> HIDE DEF turn, A
<1>4. turns \in [(1 .. n) \X A -> A] /\ \A k \in 1 .. n, b \in A : turns[<<k, b>>] = turn(b, k)
  BY <1>2
<1> HIDE DEF turns
<1>5. PICK g : IsRun(g, n, A, <<>>, turns)
  BY <1>3, <1>4, LoopRuns
<1>6. IsLoop(after)
  <2>1. \A k \in 1 .. n : g[k] = turn(g[k - 1], k)
    BY <1>4, <1>5 DEF IsRun
  <2>2. IsLoop(g)
    BY <1>5, <2>1 DEF IsRun
  <2> HIDE DEF IsLoop
  <2> QED BY <2>2
<1> HIDE DEF after
<1>7. after[0] = <<>> /\ \A k \in 1 .. n : after[k] = turn(after[k - 1], k)
  BY <1>6
<1> HIDE DEF IsLoop
<1> DEFINE Kept(s, m) ==
             /\ s \in Seq(1 .. n)
             /\ \A i \in DOMAIN s : s[i] <= m
             /\ \A i, j \in DOMAIN s : i < j => s[i] < s[j]
             /\ \A k \in 1 .. m : k \in S <=> \E i \in DOMAIN s : s[i] = k
           Good == {m \in 0 .. n : Kept(after[m], m)}
<1>8. 0 \in Good
  <2>1. Kept(<<>>, 0)
    OBVIOUS
  <2> HIDE DEF Kept
  <2> QED BY <1>7, <2>1
<1>9. ASSUME NEW m \in 1 .. n, m - 1 \in Good PROVE m \in Good
  <2> DEFINE s == after[m - 1]
  <2>1. Kept(s, m - 1) /\ after[m] = turn(s, m)
    BY <1>7, <1>9
  <2> HIDE DEF s
  <2>2. CASE m \in S
    <3>1. after[m] = Append(s, m)
      BY <2>1, <2>2 DEF turn
    <3>2. /\ Append(s, m) \in Seq(1 .. n) /\ Len(s) \in Nat /\ DOMAIN s = 1 .. Len(s)
          /\ DOMAIN Append(s, m) = 1 .. Len(s) + 1
          /\ \A i \in DOMAIN s : Append(s, m)[i] = s[i] /\ s[i] \in 1 .. n
          /\ Append(s, m)[Len(s) + 1] = m
      BY <2>1
    <3> DEFINE t == Append(s, m)
    <3> HIDE DEF t
    <3>3. /\ t \in Seq(1 .. n) /\ DOMAIN t = 1 .. Len(s) + 1
          /\ \A i \in DOMAIN s : t[i] = s[i] /\ s[i] \in 1 .. n
          /\ t[Len(s) + 1] = m
      BY <3>2 DEF t
    <3>4. \A i \in DOMAIN t : i \in DOMAIN s \/ i = Len(s) + 1
      BY <3>2, <3>3
    <3>5. \A i \in DOMAIN t : t[i] <= m
      <4>1. \A i \in DOMAIN s : s[i] <= m - 1 /\ s[i] \in Int
        BY <2>1, <3>2
      <4> QED BY <3>3, <3>4, <4>1
    <3>6. ASSUME NEW i \in DOMAIN t, NEW j \in DOMAIN t, i < j PROVE t[i] < t[j]
      <4>1. i \in DOMAIN s
        BY <3>2, <3>3, <3>6
      <4>2. CASE j \in DOMAIN s
        BY <2>1, <3>3, <3>6, <4>1, <4>2
      <4>3. CASE j = Len(s) + 1
        BY <2>1, <3>3, <4>1, <4>3
      <4> QED BY <3>4, <4>2, <4>3
    <3>7. ASSUME NEW k \in 1 .. m PROVE k \in S <=> \E i \in DOMAIN t : t[i] = k
      <4>1. CASE k = m
        BY <2>2, <3>2, <3>3, <4>1
      <4>2. CASE k \in 1 .. m - 1
        <5>1. k \in S <=> \E i \in DOMAIN s : s[i] = k
          BY <2>1, <4>2
        <5>2. k # m
          BY <4>2
        <5>3. \A i \in DOMAIN s : i \in DOMAIN t /\ t[i] = s[i]
          BY <3>2, <3>3
        <5>4. \A i \in DOMAIN t : t[i] = k => i \in DOMAIN s
          BY <3>3, <3>4, <5>2
        <5> HIDE DEF Kept
        <5> QED BY <5>1, <5>3, <5>4
      <4> QED BY <4>1, <4>2
    <3>8. Kept(t, m)
      BY <3>3, <3>5, <3>6, <3>7
    <3>9. t = after[m]
      BY <3>1 DEF t
    <3> HIDE DEF Kept
    <3> QED BY <3>8, <3>9
  <2>3. CASE m \notin S
    <3>1. after[m] = s
      BY <2>1, <2>3 DEF turn
    <3>2. \A i \in DOMAIN s : s[i] \in Int /\ s[i] # m /\ s[i] <= m
      BY <2>1
    <3>3. \A k \in 1 .. m : k = m \/ k \in 1 .. m - 1
      OBVIOUS
    <3>4. Kept(s, m)
      BY <2>1, <2>3, <3>2, <3>3
    <3> HIDE DEF Kept
    <3> QED BY <3>1, <3>4
  <2> QED BY <2>2, <2>3
<1> HIDE DEF Good
<1>10. n \in Good
  BY <1>8, <1>9, LoopHolds
<1> QED BY <1>1, <1>10 DEF Good

\* Of no members none.
LEMMA NothingInOrder ==
  ASSUME NEW n \in Nat
  PROVE  DOMAIN Tracker!InOrder({}, n) = {}
<1> DEFINE list == Tracker!InOrder({}, n)
<1>1. list \in Seq(1 .. n) /\ \A k \in 1 .. n : k \in {} <=> \E i \in DOMAIN list : list[i] = k
  BY InOrderIs
<1> HIDE DEF list
<1>2. \A i \in DOMAIN list : list[i] \in 1 .. n
  BY <1>1
<1> QED BY <1>1, <1>2 DEF list

-----------------------------------------------------------------------------
(* The assignment: the stars are a matching *)

\* No two of the pairs share a row or a column.
Apart(star) == \A e, f \in star : e[1] = f[1] \/ e[2] = f[2] => e = f

\* The star in a prime's column has a covered row, and one that was covered before the prime's.
Ranked(prime, star, rows, rank) ==
  \A p \in prime, s \in star : s[2] = p[2] => s[1] \in rows /\ rank[s[1]] < rank[p[1]]

\* The two sets of pairs have the same ones in a column.
SameIn(new, star, column) == \A e \in new \cup star : e[2] = column => e \in new /\ e \in star

\* While the path goes on, the row of its zero is free, and the columns still to be visited, those
\* of primes that are older, have not been touched.
PathInv(path, star, prime, rank) ==
  /\ Apart(path.new)
  /\ path.open =>
       /\ path.zero \in prime
       /\ \A e \in path.new : e[1] # path.zero[1]
       /\ SameIn(path.new, star, path.zero[2])
       /\ \A p \in prime : rank[p[1]] < rank[path.zero[1]] => SameIn(path.new, star, p[2])

\* One turn of a path: the zero is starred, and the star in its column gives way.
LEMMA FlipHolds ==
  ASSUME NEW R, NEW C, NEW star \in SUBSET (R \X C), NEW prime \in SUBSET (R \X C), NEW rows,
         NEW rank \in [R -> Nat], Apart(star), Ranked(prime, star, rows, rank),
         NEW new \in SUBSET (R \X C), NEW zero \in prime, NEW s \in star, NEW p \in prime,
         PathInv([new |-> new, zero |-> zero, open |-> TRUE], star, prime, rank),
         s[2] = zero[2], p[1] = s[1]
  PROVE  PathInv([new |-> (new \cup {zero}) \ {s}, zero |-> p, open |-> TRUE], star, prime, rank)
<1> DEFINE new1 == (new \cup {zero}) \ {s}
<1>1. /\ Apart(new) /\ SameIn(new, star, zero[2])
      /\ \A e \in new : e[1] # zero[1]
      /\ \A q \in prime : rank[q[1]] < rank[zero[1]] => SameIn(new, star, q[2])
  BY DEF PathInv
<1>2. \A q \in prime, e \in star :
        /\ q[1] \in R /\ rank[q[1]] \in Nat /\ e[1] \in R /\ rank[e[1]] \in Nat
        /\ e[2] = q[2] => rank[e[1]] < rank[q[1]]
  BY DEF Ranked
<1>3. s \in new /\ s[1] # zero[1] /\ rank[p[1]] < rank[zero[1]]
  BY <1>1, <1>2 DEF SameIn
<1>4. \A e \in new : e[2] = zero[2] => e = s
  BY <1>1 DEF SameIn, Apart
<1>5. Apart(new1)
  <2> SUFFICES ASSUME NEW e \in new1, NEW f \in new1, e[1] = f[1] \/ e[2] = f[2] PROVE e = f
    BY DEF Apart
  <2>1. (e \in new /\ e # s) \/ e = zero
    OBVIOUS
  <2>2. (f \in new /\ f # s) \/ f = zero
    OBVIOUS
  <2> QED BY <1>1, <1>4, <2>1, <2>2 DEF Apart
<1>6. \A e \in new1 : e[1] # p[1]
  <2> SUFFICES ASSUME NEW e \in new1 PROVE e[1] # s[1]
    OBVIOUS
  <2>1. (e \in new /\ e # s) \/ e = zero
    OBVIOUS
  <2> QED BY <1>1, <1>3, <2>1 DEF Apart
<1>7. ASSUME NEW q \in prime, rank[q[1]] < rank[zero[1]], q[2] # zero[2]
      PROVE  SameIn(new1, star, q[2])
  <2> SUFFICES ASSUME NEW e \in new1 \cup star, e[2] = q[2] PROVE e \in new1 /\ e \in star
    BY DEF SameIn
  <2>1. e # s /\ e # zero
    BY <1>7
  <2>2. e \in new \cup star
    BY <2>1
  <2>3. SameIn(new, star, q[2])
    BY <1>1, <1>7
  <2> QED BY <2>1, <2>2, <2>3 DEF SameIn
<1>8. ASSUME NEW q \in prime, rank[q[1]] <= rank[p[1]]
      PROVE  q[2] # zero[2] /\ rank[q[1]] < rank[zero[1]]
  <2>1. q[2] = zero[2] => rank[s[1]] < rank[q[1]]
    BY <1>2
  <2>2. rank[q[1]] \in Nat /\ rank[p[1]] \in Nat /\ rank[zero[1]] \in Nat
    BY <1>2
  <2> QED BY <1>3, <1>8, <2>1, <2>2
<1>9. SameIn(new1, star, p[2])
  <2>1. rank[p[1]] <= rank[p[1]]
    BY <1>2
  <2> QED BY <1>7, <1>8, <2>1
<1>10. \A q \in prime : rank[q[1]] < rank[p[1]] => SameIn(new1, star, q[2])
  <2> SUFFICES ASSUME NEW q \in prime, rank[q[1]] < rank[p[1]] PROVE SameIn(new1, star, q[2])
    OBVIOUS
  <2>1. rank[q[1]] <= rank[p[1]]
    BY <1>2
  <2> QED BY <1>7, <1>8, <2>1
<1> HIDE DEF new1
<1>11. PathInv([new |-> new1, zero |-> p, open |-> TRUE], star, prime, rank)
  BY <1>5, <1>6, <1>9, <1>10 DEF PathInv
<1> QED BY <1>11 DEF new1

\* A path that ends in a column without a star leaves a matching.
LEMMA EndHolds ==
  ASSUME NEW star, NEW prime, NEW rank, NEW new, NEW zero,
         PathInv([new |-> new, zero |-> zero, open |-> TRUE], star, prime, rank),
         \A e \in star : e[2] # zero[2]
  PROVE  Apart(new \cup {zero})
<1>1. Apart(new) /\ SameIn(new, star, zero[2]) /\ \A e \in new : e[1] # zero[1]
  BY DEF PathInv
<1>2. \A e \in new : e[2] # zero[2]
  BY <1>1 DEF SameIn
<1> QED BY <1>1, <1>2 DEF Apart

LEMMA SameCardinalities ==
  ASSUME NEW S PROVE Tracker!Cardinality(S) = Cardinality(S)
BY DEF Tracker!Cardinality, Cardinality

\* A path starts from a prime whose row has no star.
Begins(star, prime, zero, rows, rank, R, C) ==
  /\ star \in SUBSET (R \X C) /\ IsFiniteSet(star) /\ Apart(star)
  /\ prime \in SUBSET (R \X C) /\ zero \in prime
  /\ \A e \in star : e[1] # zero[1]
  /\ rank \in [R -> Nat]
  /\ Ranked(prime, star, rows, rank)
  /\ \A r \in rows : \E p \in prime : p[1] = r

\* The stars after a path.
LEMMA PathFrom ==
  ASSUME NEW R, NEW C, NEW star \in SUBSET (R \X C), NEW prime \in SUBSET (R \X C), NEW rows,
         NEW rank \in [R -> Nat], NEW zero \in prime, Begins(star, prime, zero, rows, rank, R, C),
         NEW m, m.star = star, m.prime = prime
  PROVE  Tracker!Alternated(m, zero) \in SUBSET (R \X C) /\ Apart(Tracker!Alternated(m, zero))
<1>a. Apart(star) /\ Ranked(prime, star, rows, rank)
  BY DEF Begins
<1>b. IsFiniteSet(star) /\ \A e \in star : e[1] # zero[1]
  BY DEF Begins
<1>c. \A r \in rows : \E p \in prime : p[1] = r
  BY DEF Begins
<1> USE <1>a, <1>b, <1>c
<1> DEFINE turn(path, k) ==
             LET above == {e \in m.star : e[2] = path.zero[2]}
                 starred == CHOOSE e \in above : TRUE
                 primed == CHOOSE e \in m.prime : e[1] = starred[1]
             IN IF ~path.open THEN path
                ELSE IF above = {} THEN [path EXCEPT !.new = @ \cup {path.zero}, !.open = FALSE]
                ELSE [path EXCEPT !.new = (@ \cup {path.zero}) \ {starred}, !.zero = primed]
           L == Tracker!Cardinality(m.star) + 1
           a == [new |-> m.star, zero |-> zero, open |-> TRUE]
           IsLoop(g) == g = [k \in 0 .. L |-> IF k = 0 THEN a ELSE turn(g[k - 1], k)]
           after == CHOOSE g : IsLoop(g)
           A == {path \in [new : SUBSET (R \X C), zero : R \X C, open : BOOLEAN] :
                   PathInv(path, star, prime, rank)}
           turns == [q \in (1 .. L) \X A |-> turn(q[2], q[1])]
<1>1. Tracker!Alternated(m, zero) = after[L].new
  BY DEF Tracker!Alternated, Tracker!Walk
<1>2. L \in Nat
  BY SameCardinalities, FS_CardinalityType
<1>3. a \in A
  <2>1. PathInv(a, star, prime, rank)
    BY DEF PathInv, SameIn, Ranked, Apart
  <2> QED BY <2>1
<1>4. ASSUME NEW path \in A, NEW k \in 1 .. L PROVE turn(path, k) \in A
  <2>1. PICK new \in SUBSET (R \X C), z \in R \X C, going \in BOOLEAN :
          path = [new |-> new, zero |-> z, open |-> going]
    OBVIOUS
  <2> DEFINE above == {e \in m.star : e[2] = path.zero[2]}
             s == CHOOSE e \in above : TRUE
             p == CHOOSE e \in m.prime : e[1] = s[1]
  <2>2. CASE ~going
    BY <2>1, <2>2
  <2>3. CASE going /\ above = {}
    <3>1. turn(path, k) = [new |-> new \cup {z}, zero |-> z, open |-> FALSE]
      BY <2>1, <2>3
    <3>2. PathInv([new |-> new, zero |-> z, open |-> TRUE], star, prime, rank)
      BY <2>1, <2>3
    <3>3. \A e \in star : e[2] # z[2]
      BY <2>1, <2>3
    <3>4. Apart(new \cup {z})
      BY <3>2, <3>3, EndHolds
    <3>5. PathInv([new |-> new \cup {z}, zero |-> z, open |-> FALSE], star, prime, rank)
      BY <3>4 DEF PathInv
    <3> HIDE DEF turn
    <3> QED BY <3>1, <3>5
  <2>4. CASE going /\ above # {}
    <3>1. s \in star /\ s[2] = z[2]
      BY <2>1, <2>4
    <3>2. PathInv([new |-> new, zero |-> z, open |-> TRUE], star, prime, rank)
      BY <2>1, <2>4
    <3>3. z \in prime
      BY <3>2 DEF PathInv
    <3>4. s[1] \in rows
      BY <3>1, <3>3 DEF Ranked
    <3>5. p \in prime /\ p[1] = s[1]
      BY <3>4
    <3>6. turn(path, k) = [new |-> (new \cup {z}) \ {s}, zero |-> p, open |-> TRUE]
      <4>1. turn(path, k) = [path EXCEPT !.new = (path.new \cup {path.zero}) \ {s}, !.zero = p]
        BY <2>1, <2>4, SMTT(30)
      <4> HIDE DEF turn, s, p
      <4> QED BY <2>1, <2>4, <4>1
    <3> HIDE DEF s, p
    <3>7. PathInv([new |-> (new \cup {z}) \ {s}, zero |-> p, open |-> TRUE], star, prime, rank)
      BY <3>1, <3>2, <3>3, <3>5, FlipHolds, ZenonT(40)
    <3> HIDE DEF turn
    <3> QED BY <3>5, <3>6, <3>7
  <2> QED BY <2>1, <2>2, <2>3, <2>4
<1> HIDE DEF turn, A, L, a
<1>5. turns \in [(1 .. L) \X A -> A] /\ \A k \in 1 .. L, b \in A : turns[<<k, b>>] = turn(b, k)
  BY <1>4
<1> HIDE DEF turns
<1>6. PICK g : IsRun(g, L, A, a, turns)
  BY <1>2, <1>3, <1>5, LoopRuns
<1>7. IsLoop(after)
  <2>1. \A k \in 1 .. L : g[k] = turn(g[k - 1], k)
    BY <1>5, <1>6 DEF IsRun
  <2>2. IsLoop(g)
    BY <1>2, <1>6, <2>1 DEF IsRun
  <2> HIDE DEF IsLoop
  <2> QED BY <2>2
<1> HIDE DEF after
<1>8. after[0] = a /\ \A k \in 1 .. L : after[k] = turn(after[k - 1], k)
  BY <1>2, <1>7
<1> HIDE DEF IsLoop
<1> DEFINE Good == {k \in 0 .. L : after[k] \in A}
<1>9. 0 \in Good /\ \A k \in 1 .. L : k - 1 \in Good => k \in Good
  BY <1>2, <1>3, <1>4, <1>8
<1> HIDE DEF Good
<1>10. after[L] \in A
  <2>1. L \in Good
    BY <1>2, <1>9, LoopHolds
  <2> QED BY <2>1 DEF Good
<1> QED BY <1>1, <1>10 DEF A, PathInv

LEMMA PathIsMatching ==
  ASSUME NEW R, NEW C, NEW m, NEW zero, NEW rows, NEW rank,
         Begins(m.star, m.prime, zero, rows, rank, R, C)
  PROVE  Tracker!Alternated(m, zero) \in SUBSET (R \X C) /\ Apart(Tracker!Alternated(m, zero))
<1>1. /\ m.star \in SUBSET (R \X C) /\ m.prime \in SUBSET (R \X C) /\ zero \in m.prime
      /\ rank \in [R -> Nat]
  BY DEF Begins
<1> QED BY <1>1, PathFrom

-----------------------------------------------------------------------------
(* The assignment: the steps of Munkres' algorithm *)

\* The working states of the search, in which the stars are a matching, each of them covered once
\* at least, and the primes are those of the covered rows, in the order they were covered.
SearchStates(R, C) ==
  [d : [R \X C -> Nat], star : SUBSET (R \X C), prime : SUBSET (R \X C), rows : SUBSET R,
   cols : SUBSET C, after : Nat]

SearchInv(m, R, C) ==
  /\ m \in SearchStates(R, C)
  /\ Apart(m.star)
  /\ \A s \in m.star : s[1] \in m.rows \/ s[2] \in m.cols
  /\ \A r \in m.rows : \E p \in m.prime : p[1] = r
  /\ \E n \in Nat, rank \in [R -> Nat] :
       (\A r \in R : rank[r] < n) /\ Ranked(m.prime, m.star, m.rows, rank)

\* The distances stay natural numbers when the least uncovered one is taken off.
LEMMA Step5Holds ==
  ASSUME NEW R \in SUBSET Nat, NEW C \in SUBSET Nat, NEW m, SearchInv(m, R, C)
  PROVE  SearchInv([Tracker!step5(m, R, C) EXCEPT !.after = 0], R, C)
<1> DEFINE T == {Forbidden} \cup {m.d[e] : e \in (R \ m.rows) \X (C \ m.cols)}
           h == Tracker!Min(T)
           d == [e \in DOMAIN m.d |-> m.d[e] + (IF e[1] \in m.rows THEN h ELSE 0)
                                             - (IF e[2] \in m.cols THEN 0 ELSE h)]
<1>1. m \in SearchStates(R, C)
  BY DEF SearchInv
<1>2. m.d \in [R \X C -> Nat]
  BY <1>1 DEF SearchStates
<1>3. T \subseteq Nat /\ T # {}
  BY <1>2, TrackerAssumption
<1>4. h \in Nat /\ \A y \in T : h <= y
  <2> HIDE DEF T
  <2> QED BY <1>3, MinIs
<1>5. d \in [R \X C -> Nat]
  <2>1. DOMAIN m.d = R \X C
    BY <1>2
  <2>2. ASSUME NEW e \in R \X C
        PROVE  m.d[e] + (IF e[1] \in m.rows THEN h ELSE 0) - (IF e[2] \in m.cols THEN 0 ELSE h) \in Nat
    <3>1. m.d[e] \in Nat
      BY <1>2
    <3>2. CASE e[1] \notin m.rows /\ e[2] \notin m.cols
      <4>1. m.d[e] \in T
        BY <3>2
      <4>2. h <= m.d[e]
        BY <1>4, <4>1
      <4> HIDE DEF h
      <4> QED BY <1>4, <3>1, <3>2, <4>2
    <3>3. CASE e[1] \in m.rows \/ e[2] \in m.cols
      <4> HIDE DEF h
      <4> QED BY <1>4, <3>1, <3>3
    <3> QED BY <3>2, <3>3
  <2> HIDE DEF h
  <2> QED BY <2>1, <2>2
<1>6. Tracker!step5(m, R, C) = [m EXCEPT !.d = d]
  BY DEF Tracker!step5
<1> HIDE DEF d
<1> DEFINE m1 == [[m EXCEPT !.d = d] EXCEPT !.after = 0]
<1>7. /\ m1 \in SearchStates(R, C)
      /\ m1.star = m.star /\ m1.prime = m.prime /\ m1.rows = m.rows /\ m1.cols = m.cols
  BY <1>1, <1>5 DEF SearchStates
<1> HIDE DEF m1
<1>8. SearchInv(m1, R, C)
  BY <1>7 DEF SearchInv
<1> QED BY <1>6, <1>8 DEF m1

\* The next zero that is looked for is one of those that are uncovered.
LEMMA NextZero ==
  ASSUME NEW R \in SUBSET Nat, NEW C \in SUBSET Nat, NEW pool \in SUBSET (R \X C), pool # {}
  PROVE  LET col == Tracker!Min({e[2] : e \in pool})
         IN <<Tracker!Min({e[1] : e \in {x \in pool : x[2] = col}}), col>> \in pool
<1> DEFINE cols == {e[2] : e \in pool}
           col == Tracker!Min(cols)
           rows == {e[1] : e \in {x \in pool : x[2] = col}}
           row == Tracker!Min(rows)
<1>1. cols \subseteq Nat /\ cols # {}
  OBVIOUS
<1>2. col \in cols
  <2> HIDE DEF cols
  <2> QED BY <1>1, MinIs
<1>3. rows \subseteq Nat /\ rows # {}
  <2> HIDE DEF col
  <2> QED BY <1>2
<1>4. row \in rows
  <2> HIDE DEF rows
  <2> QED BY <1>3, MinIs
<1>5. PICK x \in pool : x[2] = col /\ x[1] = row
  <2> HIDE DEF col, row
  <2> QED BY <1>4
<1>6. x = <<row, col>>
  <2> HIDE DEF col, row
  <2> QED BY <1>5
<1> QED BY <1>5, <1>6

\* A new prime either covers its row for the row's star, or starts a path.
LEMMA Step3Holds ==
  ASSUME NEW R \in SUBSET Nat, NEW C \in SUBSET Nat, IsFiniteSet(R), IsFiniteSet(C),
         NEW m, SearchInv(m, R, C),
         NEW zeros \in SUBSET ((R \ m.rows) \X (C \ m.cols)), zeros # {}
  PROVE  SearchInv(Tracker!step3(m, R, C, zeros), R, C)
<1> DEFINE ahead == {e \in zeros : e[2] > m.after}
           pool  == IF ahead # {} THEN ahead ELSE zeros
           col   == Tracker!Min({e[2] : e \in pool})
           zero  == <<Tracker!Min({e[1] : e \in {x \in pool : x[2] = col}}), col>>
           stars == {e \in m.star : e[1] = zero[1]}
           m0    == [m EXCEPT !.prime = @ \cup {zero}]
           new   == Tracker!Alternated(m0, zero)
           path  == [m EXCEPT !.star = new, !.prime = {}, !.rows = {},
                              !.cols = @ \cup {e[2] : e \in new}, !.after = 0]
           cover == [m EXCEPT !.prime = @ \cup {zero}, !.rows = @ \cup {zero[1]},
                              !.cols = @ \ {e[2] : e \in stars}, !.after = col]
<1>1. Tracker!step3(m, R, C, zeros) = IF stars = {} THEN path ELSE cover
  BY DEF Tracker!step3
<1>2. m \in SearchStates(R, C) /\ Apart(m.star)
  BY DEF SearchInv
<1>3. /\ m.star \in SUBSET (R \X C) /\ m.prime \in SUBSET (R \X C)
      /\ m.rows \in SUBSET R /\ m.cols \in SUBSET C
  BY <1>2 DEF SearchStates
<1>4. zero \in zeros /\ zero[2] = col
  <2>1. pool \subseteq zeros /\ pool # {} /\ pool \in SUBSET (R \X C)
    OBVIOUS
  <2> HIDE DEF pool
  <2> QED BY <2>1, NextZero
<1> HIDE DEF zero, col
<1>5. /\ zero \in R \X C /\ zero[1] \in R /\ zero[1] \notin m.rows
      /\ zero[2] \in C /\ zero[2] \notin m.cols /\ col \in Nat
  BY <1>4
<1>6. PICK n \in Nat, rank \in [R -> Nat] :
        (\A r \in R : rank[r] < n) /\ Ranked(m.prime, m.star, m.rows, rank)
  BY DEF SearchInv
<1> DEFINE rank1 == [rank EXCEPT ![zero[1]] = n]
           prime == m.prime \cup {zero}
<1>7. rank1 \in [R -> Nat] /\ (\A r \in R : rank1[r] < n + 1) /\ n + 1 \in Nat
  BY <1>5, <1>6
<1>8. Ranked(prime, m.star, m.rows, rank1)
  <2> SUFFICES ASSUME NEW p \in prime, NEW s \in m.star, s[2] = p[2]
               PROVE  s[1] \in m.rows /\ rank1[s[1]] < rank1[p[1]]
    BY DEF Ranked
  <2>1. p[1] \in R /\ s[1] \in R
    BY <1>3, <1>5
  <2>2. CASE p = zero
    <3>1. s[1] \in m.rows
      BY <1>5, <2>2 DEF SearchInv
    <3>2. rank1[s[1]] = rank[s[1]] /\ rank1[p[1]] = n
      BY <1>5, <1>6, <2>1, <2>2, <3>1
    <3> QED BY <1>6, <2>1, <3>1, <3>2
  <2>3. CASE p # zero
    <3>1. s[1] \in m.rows /\ rank[s[1]] < rank[p[1]]
      BY <1>6, <2>3 DEF Ranked
    <3>2. rank1[s[1]] = rank[s[1]]
      BY <1>5, <1>6, <2>1, <3>1
    <3>3. rank1[p[1]] = rank[p[1]] \/ rank1[p[1]] = n
      BY <1>5, <1>6, <2>1
    <3> QED BY <1>6, <2>1, <3>1, <3>2, <3>3
  <2> QED BY <2>2, <2>3
<1>9. prime \in SUBSET (R \X C)
  BY <1>3, <1>5
<1> HIDE DEF rank1
<1>10. CASE stars = {}
  <2>1. m0.star = m.star /\ m0.prime = prime
    BY <1>2 DEF SearchStates
  <2>2. IsFiniteSet(m.star)
    BY <1>3, FS_Product, FS_Subset
  <2>3. \A r \in m.rows : \E p \in prime : p[1] = r
    BY DEF SearchInv
  <2>4. zero \in prime /\ \A e \in m.star : e[1] # zero[1]
    BY <1>10
  <2>5. new \in SUBSET (R \X C) /\ Apart(new)
    <3>1. Begins(m.star, prime, zero, m.rows, rank1, R, C)
      BY <1>2, <1>3, <1>7, <1>8, <1>9, <2>2, <2>3, <2>4 DEF Begins
    <3> HIDE DEF prime, m0
    <3> QED BY <2>1, <3>1, PathIsMatching
  <2> HIDE DEF new
  <2>6. {e[2] : e \in new} \subseteq C
    BY <2>5
  <2>7. /\ path \in SearchStates(R, C) /\ path.star = new /\ path.prime = {} /\ path.rows = {}
        /\ path.cols = m.cols \cup {e[2] : e \in new}
    BY <1>2, <2>5, <2>6 DEF SearchStates
  <2> HIDE DEF path
  <2>8. \A s \in path.star : s[2] \in path.cols
    BY <2>7
  <2>9. Ranked(path.prime, path.star, path.rows, rank)
    BY <2>7 DEF Ranked
  <2>10. SearchInv(path, R, C)
    BY <1>6, <2>5, <2>7, <2>8, <2>9 DEF SearchInv
  <2> QED BY <1>1, <1>10, <2>10
<1>11. CASE stars # {}
  <2>1. m.cols \ {e[2] : e \in stars} \in SUBSET C /\ m.rows \cup {zero[1]} \in SUBSET R
    BY <1>3, <1>5
  <2>2. /\ cover \in SearchStates(R, C)
        /\ cover.star = m.star /\ cover.prime = prime /\ cover.rows = m.rows \cup {zero[1]}
        /\ cover.cols = m.cols \ {e[2] : e \in stars}
    BY <1>2, <1>5, <1>9, <2>1 DEF SearchStates
  <2> HIDE DEF cover
  <2>3. ASSUME NEW s \in m.star PROVE s[1] \in cover.rows \/ s[2] \in cover.cols
    <3>1. s[1] \in m.rows \/ s[2] \in m.cols
      BY DEF SearchInv
    <3>2. ASSUME NEW e \in stars, e[2] = s[2] PROVE s[1] = zero[1]
      BY <1>2, <3>2 DEF Apart
    <3> QED BY <2>2, <3>1, <3>2
  <2>4. \A r \in cover.rows : \E p \in cover.prime : p[1] = r
    <3>1. \A r \in m.rows : \E p \in m.prime : p[1] = r
      BY DEF SearchInv
    <3> QED BY <2>2, <3>1
  <2>5. Ranked(cover.prime, cover.star, cover.rows, rank1)
    BY <1>8, <2>2 DEF Ranked
  <2>6. SearchInv(cover, R, C)
    BY <1>2, <1>7, <2>2, <2>3, <2>4, <2>5 DEF SearchInv
  <2> QED BY <1>1, <1>11, <2>6
<1> QED BY <1>10, <1>11

\* However long the search goes on, its stars are a matching.
LEMMA MunkresHolds ==
  ASSUME NEW R \in SUBSET Nat, NEW C \in SUBSET Nat, IsFiniteSet(R), IsFiniteSet(C),
         NEW m0, SearchInv(m0, R, C)
  PROVE  Tracker!Munkres(m0, R, C) \in SUBSET (R \X C) /\ Apart(Tracker!Munkres(m0, R, C))
<1> DEFINE turn(m, k) ==
             LET zeros == {e \in (R \ m.rows) \X (C \ m.cols) : m.d[e] = 0}
             IN IF Tracker!Cardinality(m.cols) = Tracker!MinDim(R, C) /\ m.after = 0 /\ m.prime = {} THEN m
                ELSE IF zeros = {} THEN [Tracker!step5(m, R, C) EXCEPT !.after = 0]
                ELSE Tracker!step3(m, R, C, zeros)
           L == 2 * (Tracker!MinDim(R, C) + 1) * Tracker!MinDim(R, C)
           IsLoop(g) == g = [k \in 0 .. L |-> IF k = 0 THEN m0 ELSE turn(g[k - 1], k)]
           after == CHOOSE g : IsLoop(g)
           A == {m \in SearchStates(R, C) : SearchInv(m, R, C)}
           turns == [q \in (1 .. L) \X A |-> turn(q[2], q[1])]
<1>1. Tracker!Munkres(m0, R, C) = after[L].star
  BY DEF Tracker!Munkres, Tracker!Walk
<1>2. L \in Nat
  <2> DEFINE T == {Tracker!Cardinality(R), Tracker!Cardinality(C)}
  <2>1. T \subseteq Nat /\ T # {}
    BY SameCardinalities, FS_CardinalityType
  <2> HIDE DEF T
  <2>2. Tracker!Min(T) \in Nat
    BY <2>1, MinIs
  <2>3. Tracker!MinDim(R, C) \in Nat
    BY <2>2 DEF T, Tracker!MinDim
  <2>4. \A x \in Nat : 2 * (x + 1) * x \in Nat
    OBVIOUS
  <2> QED BY <2>3, <2>4
<1>3. m0 \in A
  BY DEF SearchInv
<1>4. ASSUME NEW m \in A, NEW k \in 1 .. L PROVE turn(m, k) \in A
  <2> DEFINE zeros == {e \in (R \ m.rows) \X (C \ m.cols) : m.d[e] = 0}
  <2>1. SearchInv(m, R, C)
    OBVIOUS
  <2>2. CASE Tracker!Cardinality(m.cols) = Tracker!MinDim(R, C) /\ m.after = 0 /\ m.prime = {}
    BY <2>2
  <2>3. CASE /\ ~(Tracker!Cardinality(m.cols) = Tracker!MinDim(R, C) /\ m.after = 0 /\ m.prime = {})
             /\ zeros = {}
    <3>1. turn(m, k) = [Tracker!step5(m, R, C) EXCEPT !.after = 0]
      BY <2>3
    <3>2. SearchInv([Tracker!step5(m, R, C) EXCEPT !.after = 0], R, C)
      BY <2>1, Step5Holds
    <3> HIDE DEF turn
    <3> QED BY <3>1, <3>2 DEF SearchInv
  <2>4. CASE /\ ~(Tracker!Cardinality(m.cols) = Tracker!MinDim(R, C) /\ m.after = 0 /\ m.prime = {})
             /\ zeros # {}
    <3>1. turn(m, k) = Tracker!step3(m, R, C, zeros)
      BY <2>4
    <3>2. zeros \in SUBSET ((R \ m.rows) \X (C \ m.cols))
      OBVIOUS
    <3> HIDE DEF zeros, turn
    <3>3. SearchInv(Tracker!step3(m, R, C, zeros), R, C)
      BY <2>1, <2>4, <3>2, Step3Holds
    <3> QED BY <3>1, <3>3 DEF SearchInv
  <2> HIDE DEF turn, A
  <2> QED BY <2>2, <2>3, <2>4
<1> HIDE DEF turn, A, L
<1>5. turns \in [(1 .. L) \X A -> A] /\ \A k \in 1 .. L, b \in A : turns[<<k, b>>] = turn(b, k)
  BY <1>4
<1> HIDE DEF turns
<1>6. PICK g : IsRun(g, L, A, m0, turns)
  BY <1>2, <1>3, <1>5, LoopRuns
<1>7. IsLoop(after)
  <2>1. \A k \in 1 .. L : g[k] = turn(g[k - 1], k)
    BY <1>5, <1>6 DEF IsRun
  <2>2. IsLoop(g)
    BY <1>2, <1>6, <2>1 DEF IsRun
  <2> HIDE DEF IsLoop
  <2> QED BY <2>2
<1> HIDE DEF after
<1>8. after[0] = m0 /\ \A k \in 1 .. L : after[k] = turn(after[k - 1], k)
  BY <1>2, <1>7
<1> HIDE DEF IsLoop
<1> DEFINE Good == {k \in 0 .. L : after[k] \in A}
<1>9. 0 \in Good /\ \A k \in 1 .. L : k - 1 \in Good => k \in Good
  BY <1>2, <1>3, <1>4, <1>8
<1> HIDE DEF Good
<1>10. after[L] \in A
  <2>1. L \in Good
    BY <1>2, <1>9, LoopHolds
  <2> QED BY <2>1 DEF Good
<1> QED BY <1>1, <1>10 DEF A, SearchInv, SearchStates

\* A search starts from stars whose columns are covered.
LEMMA SearchBegins ==
  ASSUME NEW R, NEW C, NEW m \in SearchStates(R, C), Apart(m.star), m.prime = {}, m.rows = {},
         \A s \in m.star : s[2] \in m.cols
  PROVE  SearchInv(m, R, C)
<1>1. [r \in R |-> 0] \in [R -> Nat] /\ \A r \in R : [q \in R |-> 0][r] < 1
  OBVIOUS
<1>2. Ranked(m.prime, m.star, m.rows, [r \in R |-> 0])
  BY DEF Ranked
<1>3. \E n \in Nat, rank \in [R -> Nat] :
        (\A r \in R : rank[r] < n) /\ Ranked(m.prime, m.star, m.rows, rank)
  BY <1>1, <1>2
<1> QED BY <1>3 DEF SearchInv

\* What is left of a row or a column when its least distance is taken off.
LEMMA Reduced ==
  ASSUME NEW T, T \subseteq Nat, NEW x \in T
  PROVE  x - Tracker!Min(T) \in Nat
<1>1. Tracker!Min(T) \in T /\ Tracker!Min(T) <= x
  BY MinIs
<1>2. Tracker!Min(T) \in Nat /\ x \in Nat
  BY <1>1
<1> QED BY <1>1, <1>2

LEMMA RowsReducedHolds ==
  ASSUME NEW p \in Nat, NEW C \in SUBSET Nat, C # {}, NEW d \in [(1 .. p) \X C -> Nat]
  PROVE  SearchInv(Tracker!RowsReduced(d, 1 .. p, C), 1 .. p, C)
<1> DEFINE R == 1 .. p
           reduced == [e \in DOMAIN d |-> d[e] - Tracker!Min({d[<<e[1], c>>] : c \in C})]
           turn(m, r) ==
             LET free == {c \in C : reduced[<<r, c>>] = 0 /\ c \notin m.cols}
             IN IF free = {} THEN m
                ELSE [m EXCEPT !.star = @ \cup {<<r, Tracker!Min(free)>>},
                               !.cols = @ \cup {Tracker!Min(free)}]
           L == Tracker!Cardinality(1 .. p)
           a == [d |-> reduced, star |-> {}, prime |-> {}, rows |-> {}, cols |-> {}, after |-> 0]
           IsLoop(g) == g = [k \in 0 .. L |-> IF k = 0 THEN a ELSE turn(g[k - 1], k)]
           after == CHOOSE g : IsLoop(g)
           A == {m \in SearchStates(R, C) : m.prime = {} /\ m.rows = {}}
           turns == [q \in (1 .. L) \X A |-> turn(q[2], q[1])]
<1>1. Tracker!RowsReduced(d, 1 .. p, C) = after[L]
  BY DEF Tracker!RowsReduced, Tracker!Walk
<1>2. L = p
  BY FS_Interval, SameCardinalities
<1>3. a \in A
  <2>1. ASSUME NEW e \in R \X C PROVE d[e] - Tracker!Min({d[<<e[1], c>>] : c \in C}) \in Nat
    <3> DEFINE T == {d[<<e[1], c>>] : c \in C}
    <3>1. \A c \in C : <<e[1], c>> \in R \X C
      OBVIOUS
    <3>2. T \subseteq Nat
      BY <3>1
    <3>3. d[e] \in T
      <4>1. e = <<e[1], e[2]>> /\ e[2] \in C
        OBVIOUS
      <4> QED BY <4>1
    <3> HIDE DEF T
    <3>4. d[e] - Tracker!Min(T) \in Nat
      BY <3>2, <3>3, Reduced
    <3> QED BY <3>4 DEF T
  <2>2. DOMAIN d = R \X C
    OBVIOUS
  <2>3. reduced \in [R \X C -> Nat]
    BY <2>1, <2>2
  <2> HIDE DEF reduced
  <2> QED BY <2>3 DEF SearchStates
<1> HIDE DEF reduced
<1>4. ASSUME NEW m \in A, NEW r \in 1 .. L
      PROVE  /\ turn(m, r) \in A
             /\ \/ turn(m, r).star = m.star /\ turn(m, r).cols = m.cols
                \/ \E c \in C : /\ c \notin m.cols
                                /\ turn(m, r).star = m.star \cup {<<r, c>>}
                                /\ turn(m, r).cols = m.cols \cup {c}
  <2> DEFINE free == {c \in C : reduced[<<r, c>>] = 0 /\ c \notin m.cols}
  <2>1. CASE free = {}
    BY <2>1
  <2>2. CASE free # {}
    <3>1. free \subseteq Nat /\ free \subseteq C
      OBVIOUS
    <3>2. Tracker!Min(free) \in free
      <4> HIDE DEF free
      <4> QED BY <2>2, <3>1, MinIs
    <3>3. PICK c \in C : c = Tracker!Min(free) /\ c \notin m.cols
      BY <3>2
    <3>4. turn(m, r) = [m EXCEPT !.star = @ \cup {<<r, c>>}, !.cols = @ \cup {c}]
      BY <2>2, <3>3
    <3>5. <<r, c>> \in R \X C
      BY <1>2
    <3> HIDE DEF turn, free, R
    <3>6. /\ turn(m, r) \in SearchStates(R, C)
          /\ turn(m, r).prime = m.prime /\ turn(m, r).rows = m.rows
          /\ turn(m, r).star = m.star \cup {<<r, c>>} /\ turn(m, r).cols = m.cols \cup {c}
      <4>1. m \in SearchStates(R, C)
        OBVIOUS
      <4>2. m.star \cup {<<r, c>>} \in SUBSET (R \X C) /\ m.cols \cup {c} \in SUBSET C
        BY <3>5, <4>1 DEF SearchStates
      <4> HIDE DEF A
      <4> QED BY <3>4, <4>1, <4>2 DEF SearchStates
    <3> QED BY <3>3, <3>6
  <2> QED BY <2>1, <2>2
<1> HIDE DEF turn, L, R
<1>5. turns \in [(1 .. L) \X A -> A] /\ \A k \in 1 .. L, b \in A : turns[<<k, b>>] = turn(b, k)
  BY <1>4
<1> HIDE DEF turns
<1>6. PICK g : IsRun(g, L, A, a, turns)
  <2> HIDE DEF A, a
  <2> QED BY <1>2, <1>3, <1>5, LoopRuns
<1>7. IsLoop(after)
  <2> HIDE DEF A, a
  <2>1. \A k \in 1 .. L : g[k] = turn(g[k - 1], k)
    BY <1>5, <1>6 DEF IsRun
  <2>2. IsLoop(g)
    BY <1>2, <1>6, <2>1 DEF IsRun
  <2> HIDE DEF IsLoop
  <2> QED BY <2>2
<1> HIDE DEF after
<1>8. after[0] = a /\ \A k \in 1 .. L : after[k] = turn(after[k - 1], k)
  <2> HIDE DEF a
  <2> QED BY <1>2, <1>7
<1> HIDE DEF IsLoop
<1> DEFINE Started(m, k) ==
             /\ m \in A /\ Apart(m.star)
             /\ \A s \in m.star : s[1] \in 1 .. k /\ s[2] \in m.cols
           Good == {k \in 0 .. L : Started(after[k], k)}
<1>9. 0 \in Good
  <2>1. Started(a, 0)
    BY <1>3 DEF Apart
  <2> HIDE DEF Started, a
  <2> QED BY <1>2, <1>8, <2>1
<1>10. ASSUME NEW k \in 1 .. L, k - 1 \in Good PROVE k \in Good
  <2> DEFINE m == after[k - 1]
             n == after[k]
  <2>1. Started(m, k - 1) /\ n = turn(m, k)
    BY <1>8, <1>10
  <2>2. \A s \in m.star : s[1] \in 1 .. k /\ s[1] # k
    BY <2>1
  <2> HIDE DEF m, n
  <2>3. CASE n.star = m.star /\ n.cols = m.cols
    <3>1. Started(n, k)
      BY <1>4, <2>1, <2>2, <2>3
    <3> HIDE DEF Started
    <3> QED BY <3>1 DEF n
  <2>4. ASSUME NEW c \in C, c \notin m.cols, n.star = m.star \cup {<<k, c>>}, n.cols = m.cols \cup {c}
        PROVE  k \in Good
    <3>1. Apart(n.star)
      <4>1. Apart(m.star) /\ \A s \in m.star : s[1] # k /\ s[2] # c
        BY <2>1, <2>2, <2>4
      <4> QED BY <2>4, <4>1 DEF Apart
    <3>2. \A s \in n.star : s[1] \in 1 .. k /\ s[2] \in n.cols
      BY <2>1, <2>2, <2>4
    <3>3. Started(n, k)
      BY <1>4, <2>1, <3>1, <3>2
    <3> HIDE DEF Started
    <3> QED BY <3>3 DEF n
  <2> HIDE DEF Good
  <2> QED BY <1>4, <2>1, <2>3, <2>4
<1>11. Started(after[L], L)
  <2> HIDE DEF Started
  <2>1. 0 \in Good /\ \A k \in 1 .. L : k - 1 \in Good => k \in Good
    BY <1>9, <1>10
  <2> HIDE DEF Good
  <2>2. L \in Good
    BY <1>2, <2>1, LoopHolds
  <2> QED BY <2>2 DEF Good
<1>12. SearchInv(after[L], R, C)
  <2> DEFINE m == after[L]
  <2>1. /\ m \in SearchStates(R, C) /\ Apart(m.star) /\ m.prime = {} /\ m.rows = {}
        /\ \A s \in m.star : s[2] \in m.cols
    BY <1>11
  <2> HIDE DEF m, A, Started
  <2>2. SearchInv(m, R, C)
    BY <2>1, SearchBegins
  <2> QED BY <2>2 DEF m
<1> QED BY <1>1, <1>12 DEF R

LEMMA ColsReducedHolds ==
  ASSUME NEW p \in Nat, NEW R \in SUBSET Nat, R # {}, NEW d \in [R \X (1 .. p) -> Nat]
  PROVE  SearchInv(Tracker!ColsReduced(d, R, 1 .. p), R, 1 .. p)
<1> DEFINE C == 1 .. p
           reduced == [e \in DOMAIN d |-> d[e] - Tracker!Min({d[<<r, e[2]>>] : r \in R})]
           turn(m, c) ==
             LET free == {r \in R : reduced[<<r, c>>] = 0 /\ r \notin m.rows}
             IN IF free = {} THEN m
                ELSE [m EXCEPT !.star = @ \cup {<<Tracker!Min(free), c>>},
                               !.rows = @ \cup {Tracker!Min(free)}, !.cols = @ \cup {c}]
           L == Tracker!Cardinality(1 .. p)
           a == [d |-> reduced, star |-> {}, prime |-> {}, rows |-> {}, cols |-> {}, after |-> 0]
           IsLoop(g) == g = [k \in 0 .. L |-> IF k = 0 THEN a ELSE turn(g[k - 1], k)]
           after == CHOOSE g : IsLoop(g)
           A == {m \in SearchStates(R, C) : m.prime = {}}
           turns == [q \in (1 .. L) \X A |-> turn(q[2], q[1])]
<1>1. Tracker!ColsReduced(d, R, 1 .. p) = [after[L] EXCEPT !.rows = {}]
  BY DEF Tracker!ColsReduced, Tracker!Walk
<1>2. L = p
  BY FS_Interval, SameCardinalities
<1>3. a \in A
  <2>1. ASSUME NEW e \in R \X C PROVE d[e] - Tracker!Min({d[<<r, e[2]>>] : r \in R}) \in Nat
    <3> DEFINE T == {d[<<r, e[2]>>] : r \in R}
    <3>1. \A r \in R : <<r, e[2]>> \in R \X C
      OBVIOUS
    <3>2. T \subseteq Nat
      BY <3>1
    <3>3. d[e] \in T
      <4>1. e = <<e[1], e[2]>> /\ e[1] \in R
        OBVIOUS
      <4> QED BY <4>1
    <3> HIDE DEF T
    <3>4. d[e] - Tracker!Min(T) \in Nat
      BY <3>2, <3>3, Reduced
    <3> QED BY <3>4 DEF T
  <2>2. DOMAIN d = R \X C
    OBVIOUS
  <2>3. reduced \in [R \X C -> Nat]
    BY <2>1, <2>2
  <2> HIDE DEF reduced
  <2> QED BY <2>3 DEF SearchStates
<1> HIDE DEF reduced
<1>4. ASSUME NEW m \in A, NEW c \in 1 .. L
      PROVE  /\ turn(m, c) \in A
             /\ \/ turn(m, c).star = m.star /\ turn(m, c).rows = m.rows /\ turn(m, c).cols = m.cols
                \/ \E r \in R : /\ r \notin m.rows
                                /\ turn(m, c).star = m.star \cup {<<r, c>>}
                                /\ turn(m, c).rows = m.rows \cup {r}
                                /\ turn(m, c).cols = m.cols \cup {c}
  <2> DEFINE free == {r \in R : reduced[<<r, c>>] = 0 /\ r \notin m.rows}
  <2>1. CASE free = {}
    BY <2>1
  <2>2. CASE free # {}
    <3>1. free \subseteq Nat /\ free \subseteq R
      OBVIOUS
    <3>2. Tracker!Min(free) \in free
      <4> HIDE DEF free
      <4> QED BY <2>2, <3>1, MinIs
    <3>3. PICK r \in R : r = Tracker!Min(free) /\ r \notin m.rows
      BY <3>2
    <3>4. turn(m, c) = [m EXCEPT !.star = @ \cup {<<r, c>>}, !.rows = @ \cup {r}, !.cols = @ \cup {c}]
      BY <2>2, <3>3
    <3>5. <<r, c>> \in R \X C /\ c \in C
      BY <1>2
    <3> HIDE DEF turn, free, C
    <3>6. /\ turn(m, c) \in SearchStates(R, C) /\ turn(m, c).prime = m.prime
          /\ turn(m, c).star = m.star \cup {<<r, c>>} /\ turn(m, c).rows = m.rows \cup {r}
          /\ turn(m, c).cols = m.cols \cup {c}
      <4>1. m \in SearchStates(R, C)
        OBVIOUS
      <4>2. /\ m.star \cup {<<r, c>>} \in SUBSET (R \X C) /\ m.rows \cup {r} \in SUBSET R
            /\ m.cols \cup {c} \in SUBSET C
        BY <3>5, <4>1 DEF SearchStates
      <4> HIDE DEF A
      <4> QED BY <3>4, <4>1, <4>2 DEF SearchStates
    <3> QED BY <3>3, <3>6
  <2> QED BY <2>1, <2>2
<1> HIDE DEF turn, L, C
<1>5. turns \in [(1 .. L) \X A -> A] /\ \A k \in 1 .. L, b \in A : turns[<<k, b>>] = turn(b, k)
  BY <1>4
<1> HIDE DEF turns
<1>6. PICK g : IsRun(g, L, A, a, turns)
  <2> HIDE DEF A, a
  <2> QED BY <1>2, <1>3, <1>5, LoopRuns
<1>7. IsLoop(after)
  <2> HIDE DEF A, a
  <2>1. \A k \in 1 .. L : g[k] = turn(g[k - 1], k)
    BY <1>5, <1>6 DEF IsRun
  <2>2. IsLoop(g)
    BY <1>2, <1>6, <2>1 DEF IsRun
  <2> HIDE DEF IsLoop
  <2> QED BY <2>2
<1> HIDE DEF after
<1>8. after[0] = a /\ \A k \in 1 .. L : after[k] = turn(after[k - 1], k)
  <2> HIDE DEF a
  <2> QED BY <1>2, <1>7
<1> HIDE DEF IsLoop
<1> DEFINE Started(m, k) ==
             /\ m \in A /\ Apart(m.star)
             /\ \A s \in m.star : s[1] \in m.rows /\ s[2] \in 1 .. k /\ s[2] \in m.cols
           Good == {k \in 0 .. L : Started(after[k], k)}
<1>9. 0 \in Good
  <2>1. Started(a, 0)
    BY <1>3 DEF Apart
  <2> HIDE DEF Started, a
  <2> QED BY <1>2, <1>8, <2>1
<1>10. ASSUME NEW k \in 1 .. L, k - 1 \in Good PROVE k \in Good
  <2> DEFINE m == after[k - 1]
             n == after[k]
  <2>1. Started(m, k - 1) /\ n = turn(m, k)
    BY <1>8, <1>10
  <2>2. \A s \in m.star : s[2] \in 1 .. k /\ s[2] # k
    BY <2>1
  <2> HIDE DEF m, n
  <2>3. CASE n.star = m.star /\ n.rows = m.rows /\ n.cols = m.cols
    <3>1. Started(n, k)
      BY <1>4, <2>1, <2>2, <2>3
    <3> HIDE DEF Started
    <3> QED BY <3>1 DEF n
  <2>4. ASSUME NEW r \in R, r \notin m.rows, n.star = m.star \cup {<<r, k>>},
                n.rows = m.rows \cup {r}, n.cols = m.cols \cup {k}
        PROVE  k \in Good
    <3>1. Apart(n.star)
      <4>1. Apart(m.star) /\ \A s \in m.star : s[1] # r /\ s[2] # k
        BY <2>1, <2>2, <2>4
      <4> QED BY <2>4, <4>1 DEF Apart
    <3>2. \A s \in n.star : s[1] \in n.rows /\ s[2] \in 1 .. k /\ s[2] \in n.cols
      BY <2>1, <2>2, <2>4
    <3>3. Started(n, k)
      BY <1>4, <2>1, <3>1, <3>2
    <3> HIDE DEF Started
    <3> QED BY <3>3 DEF n
  <2> HIDE DEF Good
  <2> QED BY <1>4, <2>1, <2>3, <2>4
<1>11. Started(after[L], L)
  <2> HIDE DEF Started
  <2>1. 0 \in Good /\ \A k \in 1 .. L : k - 1 \in Good => k \in Good
    BY <1>9, <1>10
  <2> HIDE DEF Good
  <2>2. L \in Good
    BY <1>2, <2>1, LoopHolds
  <2> QED BY <2>2 DEF Good
<1>12. SearchInv([after[L] EXCEPT !.rows = {}], R, C)
  <2> DEFINE m == [after[L] EXCEPT !.rows = {}]
  <2>1. /\ after[L] \in SearchStates(R, C) /\ Apart(after[L].star) /\ after[L].prime = {}
        /\ \A s \in after[L].star : s[2] \in after[L].cols
    BY <1>11
  <2>2. /\ m \in SearchStates(R, C) /\ m.star = after[L].star /\ m.prime = {} /\ m.rows = {}
        /\ m.cols = after[L].cols
    BY <2>1 DEF SearchStates
  <2> HIDE DEF m, A, Started
  <2>3. SearchInv(m, R, C)
    BY <2>1, <2>2, SearchBegins
  <2> QED BY <2>3 DEF m
<1> QED BY <1>1, <1>12 DEF C

\* For every number of tracks and detections and all distances, no detection is assigned to two
\* tracks (AssignmentProblemSolver::assignmentoptimal).
THEOREM OptimalIsMatching ==
  ASSUME NEW p \in Nat, NEW q \in Nat, NEW d \in [(1 .. p) \X (1 .. q) -> Nat]
  PROVE  /\ Tracker!assignmentoptimal(d, 1 .. p, 1 .. q) \in [1 .. p -> 0 .. q]
         /\ Tracker!Matching(Tracker!assignmentoptimal(d, 1 .. p, 1 .. q))
<1> DEFINE R == 1 .. p
           C == 1 .. q
           m0 == IF Tracker!Cardinality(R) <= Tracker!Cardinality(C)
                 THEN Tracker!RowsReduced(d, R, C) ELSE Tracker!ColsReduced(d, R, C)
           star == Tracker!Munkres(m0, R, C)
           result == Tracker!buildassignmentvector(star, R)
<1>1. CASE C = {}
  <2>1. Tracker!assignmentoptimal(d, R, C) = [r \in R |-> 0]
    BY <1>1 DEF Tracker!assignmentoptimal
  <2> QED BY <2>1 DEF Tracker!Matching
<1>2. CASE C # {}
  <2>1. Tracker!assignmentoptimal(d, R, C) = result
    BY <1>2 DEF Tracker!assignmentoptimal
  <2>2. R \in SUBSET Nat /\ C \in SUBSET Nat /\ IsFiniteSet(R) /\ IsFiniteSet(C)
    BY FS_Interval
  <2>3. SearchInv(m0, R, C)
    <3>1. Tracker!Cardinality(R) = p /\ Tracker!Cardinality(C) = q
      BY FS_Interval, SameCardinalities
    <3>2. CASE p <= q
      <4>1. SearchInv(Tracker!RowsReduced(d, 1 .. p, C), 1 .. p, C)
        BY <1>2, <2>2, RowsReducedHolds
      <4> QED BY <3>1, <3>2, <4>1
    <3>3. CASE p > q
      <4>1. R # {}
        BY <3>3
      <4>2. SearchInv(Tracker!ColsReduced(d, R, 1 .. q), R, 1 .. q)
        BY <2>2, <4>1, ColsReducedHolds
      <4> QED BY <3>1, <3>3, <4>2
    <3> QED BY <3>2, <3>3
  <2> HIDE DEF m0, R, C
  <2>4. star \in SUBSET (R \X C) /\ Apart(star)
    BY <2>2, <2>3, MunkresHolds
  <2> HIDE DEF star
  <2>5. ASSUME NEW r \in R
        PROVE  result[r] = 0 \/ (result[r] \in C /\ <<r, result[r]>> \in star)
    <3> DEFINE cols == {e[2] : e \in {x \in star : x[1] = r}}
    <3>1. result[r] = IF \E e \in star : e[1] = r THEN Tracker!Min(cols) ELSE 0
      BY DEF Tracker!buildassignmentvector
    <3>2. CASE ~ \E e \in star : e[1] = r
      BY <3>1, <3>2
    <3>3. CASE \E e \in star : e[1] = r
      <4>1. cols \subseteq Nat /\ cols # {}
        BY <2>2, <2>4, <3>3
      <4>2. Tracker!Min(cols) \in cols
        <5> HIDE DEF cols
        <5> QED BY <4>1, MinIs
      <4>3. PICK x \in star : x[1] = r /\ x[2] = Tracker!Min(cols)
        BY <4>2
      <4> HIDE DEF cols, result
      <4>4. x \in R \X C /\ x[2] = result[r]
        BY <2>4, <3>1, <3>3, <4>3
      <4>5. x = <<r, result[r]>>
        BY <4>3, <4>4
      <4> QED BY <4>4, <4>5
    <3> QED BY <3>2, <3>3
  <2>6. result \in [R -> 0 .. q]
    <3>1. DOMAIN result = R /\ result = [r \in R |-> result[r]]
      BY DEF Tracker!buildassignmentvector
    <3>2. ASSUME NEW r \in R PROVE result[r] \in 0 .. q
      <4> DEFINE x == result[r]
      <4>1. x = 0 \/ x \in C
        BY <2>5
      <4> HIDE DEF x
      <4>2. x \in 0 .. q
        BY <4>1 DEF C
      <4> QED BY <4>2 DEF x
    <3> HIDE DEF result
    <3> QED BY <3>1, <3>2
  <2> HIDE DEF result
  <2>7. ASSUME NEW r \in R, NEW s \in R, r # s, result[r] # 0, result[r] = result[s] PROVE FALSE
    <3>1. <<r, result[r]>> \in star /\ <<s, result[r]>> \in star
      BY <2>5, <2>7
    <3>2. <<r, result[r]>> = <<s, result[r]>>
      BY <2>4, <3>1 DEF Apart
    <3> QED BY <2>7, <3>2
  <2>8. Tracker!Matching(result)
    BY <2>6, <2>7 DEF Tracker!Matching
  <2> QED BY <2>1, <2>6, <2>8 DEF R, C
<1> QED BY <1>1, <1>2

-----------------------------------------------------------------------------
(* The tracker: blobs *)

LEMMA FunctionIsSeq ==
  ASSUME NEW n \in Nat, NEW S, NEW f \in [1 .. n -> S]
  PROVE  f \in Seq(S) /\ Len(f) = n /\ DOMAIN f = 1 .. n
OBVIOUS

LEMMA RowIs ==
  ASSUME NEW n \in Nat, NEW S, NEW f \in [1 .. n -> S]
  PROVE  Tracker!Row(f) = f
<1>1. f \in Seq(S)
  BY FunctionIsSeq
<1> QED BY <1>1, ConcatEmptySeq DEF Tracker!Row

BlobRecords == [at : Int, contour : SUBSET Nat]

\* The runs of cells have cells, and each begins elsewhere.
LEMMA RunsAre ==
  ASSUME NEW mask \in SUBSET Tracker!Cells
  PROVE  /\ Tracker!Runs(mask) \in Seq(SUBSET Tracker!Cells)
         /\ \A i \in DOMAIN Tracker!Runs(mask) : Tracker!Runs(mask)[i] # {}
         /\ \A i, j \in DOMAIN Tracker!Runs(mask) :
              Tracker!Runs(mask)[i] = Tracker!Runs(mask)[j] => i = j
<1> DEFINE begins == {c \in mask : c - 1 \notin mask}
           End(c) == Tracker!Max({n \in mask : c <= n /\ c .. n \subseteq mask})
           list == Tracker!InOrder(begins, Width)
           runs == [k \in DOMAIN list |-> list[k] .. End(list[k])]
<1>1. Tracker!Runs(mask) = Tracker!Row(runs)
  BY DEF Tracker!Runs
<1>2. Width \in Nat /\ mask \subseteq 1 .. Width
  BY TrackerAssumption DEF Tracker!Cells
<1>3. /\ list \in Seq(1 .. Width)
      /\ \A i, j \in DOMAIN list : i < j => list[i] < list[j]
      /\ \A k \in 1 .. Width : k \in begins <=> \E i \in DOMAIN list : list[i] = k
  <2> HIDE DEF begins
  <2> QED BY <1>2, InOrderIs
<1>4. ASSUME NEW i \in DOMAIN list
      PROVE  /\ list[i] \in mask /\ End(list[i]) \in mask /\ list[i] <= End(list[i])
             /\ list[i] \in Int /\ End(list[i]) \in Int
             /\ list[i] .. End(list[i]) \in SUBSET Tracker!Cells
  <2> DEFINE c == list[i]
             T == {n \in mask : c <= n /\ c .. n \subseteq mask}
  <2>1. c \in 1 .. Width
    <3> HIDE DEF list
    <3>1. i \in 1 .. Len(list)
      BY <1>3
    <3> QED BY <1>3, <3>1, ElementOfSeq
  <2>2. c \in begins
    BY <1>3, <2>1
  <2>3. c \in mask
    BY <2>2
  <2> HIDE DEF c
  <2>4. c .. c \subseteq mask /\ c <= c
    BY <2>1, <2>3
  <2>5. T \subseteq 0 .. Width /\ T # {}
    <3>1. mask \subseteq 0 .. Width
      BY <1>2
    <3>2. c \in T
      BY <2>3, <2>4
    <3>3. T \subseteq mask
      OBVIOUS
    <3> HIDE DEF T
    <3> QED BY <3>1, <3>2, <3>3
  <2>6. Tracker!Max(T) \in T
    <3> HIDE DEF T
    <3> QED BY <1>2, <2>5, MaxIs
  <2>7. End(c) \in mask /\ c <= End(c) /\ c .. End(c) \subseteq mask
    BY <2>6
  <2> HIDE DEF End
  <2>8. c \in Int /\ End(c) \in Int
    <3>1. \A x \in mask : x \in Int
      BY <1>2
    <3> QED BY <2>3, <2>7, <3>1
  <2> QED BY <2>3, <2>7, <2>8 DEF c
<1> HIDE DEF End, list
<1>5. DOMAIN list = 1 .. Len(list) /\ Len(list) \in Nat
  BY <1>3
<1>6. runs \in [1 .. Len(list) -> SUBSET Tracker!Cells]
  BY <1>4, <1>5
<1>7. Tracker!Runs(mask) = runs
  <2> HIDE DEF runs
  <2> QED BY <1>1, <1>5, <1>6, RowIs
<1>8. \A i \in DOMAIN runs : list[i] \in runs[i] /\ \A n \in runs[i] : list[i] <= n
  BY <1>4
<1>9. ASSUME NEW i \in DOMAIN runs, NEW j \in DOMAIN runs, runs[i] = runs[j] PROVE i = j
  <2>1. i \in DOMAIN list /\ j \in DOMAIN list /\ i \in Int /\ j \in Int
    BY <1>5
  <2> HIDE DEF runs
  <2>2. list[i] <= list[j] /\ list[j] <= list[i]
    BY <1>8, <1>9
  <2>3. ~(i < j) /\ ~(j < i)
    BY <1>3, <1>4, <2>1, <2>2
  <2> QED BY <2>1, <2>3
<1> HIDE DEF runs
<1>10. runs \in Seq(SUBSET Tracker!Cells)
  BY <1>5, <1>6, FunctionIsSeq
<1>11. \A i \in DOMAIN runs : runs[i] # {}
  BY <1>8
<1> QED BY <1>7, <1>9, <1>10, <1>11

\* No two blobs have the same cells.
LEMMA BlobsAre ==
  ASSUME NEW mask \in SUBSET Tracker!Cells
  PROVE  /\ Tracker!Blobs(mask) \in Seq(BlobRecords)
         /\ \A i, j \in DOMAIN Tracker!Blobs(mask) :
              Tracker!Blobs(mask)[i].contour = Tracker!Blobs(mask)[j].contour => i = j
<1> DEFINE runs == Tracker!Runs(mask)
           Fitting == {i \in DOMAIN runs : /\ Tracker!Cardinality(runs[i]) >= MinArea
                                           /\ Tracker!Cardinality(runs[i]) < MaxArea}
           fit == Tracker!InOrder(Fitting, Len(runs))
           blobs == [k \in DOMAIN fit |-> [at |-> Tracker!Min(runs[fit[k]]) + Tracker!Max(runs[fit[k]]),
                                           contour |-> runs[fit[k]]]]
<1>1. Tracker!Blobs(mask) = blobs
  BY DEF Tracker!Blobs
<1>2. /\ runs \in Seq(SUBSET Tracker!Cells)
      /\ \A i \in DOMAIN runs : runs[i] # {}
      /\ \A i, j \in DOMAIN runs : runs[i] = runs[j] => i = j
  BY RunsAre
<1> HIDE DEF runs, Fitting
<1>3. /\ fit \in Seq(1 .. Len(runs)) /\ Len(runs) \in Nat /\ DOMAIN runs = 1 .. Len(runs)
      /\ \A i, j \in DOMAIN fit : i < j => fit[i] < fit[j]
  BY <1>2, InOrderIs
<1> HIDE DEF fit
<1>4. DOMAIN fit = 1 .. Len(fit) /\ Len(fit) \in Nat /\ \A k \in DOMAIN fit : fit[k] \in DOMAIN runs
  BY <1>3
<1>5. ASSUME NEW k \in DOMAIN fit
      PROVE  blobs[k] \in BlobRecords
  <2> DEFINE T == runs[fit[k]]
  <2>1. T \subseteq 0 .. Width /\ T \subseteq Nat /\ T # {} /\ Width \in Nat
    BY <1>2, <1>4, TrackerAssumption DEF Tracker!Cells
  <2> HIDE DEF T
  <2>2. Tracker!Min(T) \in Nat /\ Tracker!Max(T) \in Nat
    BY <2>1, MinIs, MaxIs
  <2>3. [at |-> Tracker!Min(T) + Tracker!Max(T), contour |-> T] \in BlobRecords
    BY <2>1, <2>2 DEF BlobRecords
  <2> QED BY <2>3 DEF T
<1>6. blobs \in [1 .. Len(fit) -> BlobRecords]
  BY <1>4, <1>5
<1>7. blobs \in Seq(BlobRecords)
  <2> HIDE DEF blobs
  <2> QED BY <1>4, <1>6, FunctionIsSeq
<1>8. ASSUME NEW i \in DOMAIN blobs, NEW j \in DOMAIN blobs, blobs[i].contour = blobs[j].contour
      PROVE  i = j
  <2>1. fit[i] = fit[j]
    BY <1>2, <1>4, <1>8
  <2>2. i \in Int /\ j \in Int /\ fit[i] \in Int
    BY <1>3, <1>4
  <2> QED BY <1>3, <2>1, <2>2
<1> HIDE DEF blobs
<1> QED BY <1>1, <1>7, <1>8

-----------------------------------------------------------------------------
(* The tracker: tracks *)

TrackRecords == [id : Nat, skipped : Nat, at : Int, velocity : Int, contour : SUBSET Nat]

\* Tracks with the detections they are assigned to: each detection to one track, in reach of it;
\* a track without one has been skipped.
Assigned(m, blobs) ==
  /\ m \in Seq([blob : 0 .. Len(blobs), track : TrackRecords])
  /\ \A i \in DOMAIN m : m[i].blob = 0 => m[i].track.skipped # 0
  /\ \A i \in DOMAIN m : m[i].blob # 0 => Tracker!CalcDist(m[i].track, blobs[m[i].blob]) <= DistThresh
  /\ \A i, j \in DOMAIN m : m[i].blob # 0 /\ m[i].blob = m[j].blob => i = j

\* A track is the same one when another number of skipped frames is counted.
SameTrack(u, t) == u.id = t.id /\ u.at = t.at /\ u.velocity = t.velocity

\* They are tracks of the frame before, each once.
From(m, old) ==
  \E place \in [DOMAIN m -> DOMAIN old] :
    /\ \A i, j \in DOMAIN m : place[i] = place[j] => i = j
    /\ \A i \in DOMAIN m : SameTrack(m[i].track, old[place[i]])

LEMMA DistanceIsNat ==
  ASSUME NEW t \in TrackRecords, NEW b \in BlobRecords
  PROVE  Tracker!CalcDist(t, b) \in Nat
<1>1. t.at \in Int /\ b.at \in Int
  BY DEF TrackRecords, BlobRecords
<1> QED BY <1>1 DEF Tracker!CalcDist, Tracker!Abs

LEMMA SkippedIs ==
  ASSUME NEW t \in TrackRecords
  PROVE  /\ [t EXCEPT !.skipped = 1] \in TrackRecords /\ [t EXCEPT !.skipped = 1].skipped # 0
         /\ SameTrack([t EXCEPT !.skipped = 1], t)
         /\ [t EXCEPT !.skipped = @ + 1] \in TrackRecords /\ [t EXCEPT !.skipped = @ + 1].skipped # 0
         /\ SameTrack([t EXCEPT !.skipped = @ + 1], t)
<1>1. t.skipped \in Nat /\ t.skipped + 1 \in Nat /\ t.skipped + 1 # 0
  BY DEF TrackRecords
<1>2. ASSUME NEW n \in Nat
      PROVE  /\ [t EXCEPT !.skipped = n] \in TrackRecords /\ [t EXCEPT !.skipped = n].skipped = n
             /\ SameTrack([t EXCEPT !.skipped = n], t)
  BY DEF TrackRecords, SameTrack
<1> QED BY <1>1, <1>2

\* The optimal assignment, less the pairs that are too far apart.
LEMMA MatchedIs ==
  ASSUME NEW old \in Seq(TrackRecords), NEW blobs \in Seq(BlobRecords)
  PROVE  Assigned(Tracker!Matched(old, blobs), blobs) /\ From(Tracker!Matched(old, blobs), old)
<1> DEFINE p == Len(old)
           q == Len(blobs)
           d == [e \in (DOMAIN old) \X (DOMAIN blobs) |-> Tracker!CalcDist(old[e[1]], blobs[e[2]])]
           result == Tracker!assignmentoptimal(d, DOMAIN old, DOMAIN blobs)
           TooFar(i) == result[i] # 0 /\ d[<<i, result[i]>>] > DistThresh
           Pair(i) == [blob |-> IF TooFar(i) THEN 0 ELSE result[i],
                       track |-> IF TooFar(i) THEN [old[i] EXCEPT !.skipped = 1]
                                 ELSE IF result[i] = 0 THEN [old[i] EXCEPT !.skipped = @ + 1]
                                 ELSE old[i]]
           m == [i \in DOMAIN old |-> Pair(i)]
<1>1. Tracker!Matched(old, blobs) = Tracker!Row(m)
  BY DEF Tracker!Matched, Tracker!Cleaned
<1>2. p \in Nat /\ q \in Nat /\ DOMAIN old = 1 .. p /\ DOMAIN blobs = 1 .. q
  OBVIOUS
<1>3. d \in [(1 .. p) \X (1 .. q) -> Nat]
  <2>1. \A e \in (1 .. p) \X (1 .. q) : old[e[1]] \in TrackRecords /\ blobs[e[2]] \in BlobRecords
    BY <1>2
  <2> QED BY <1>2, <2>1, DistanceIsNat
<1>4. result \in [1 .. p -> 0 .. q] /\ Tracker!Matching(result)
  <2> HIDE DEF d, p, q
  <2> QED BY <1>2, <1>3, OptimalIsMatching
<1>5. \A i \in 1 .. p, j \in 1 .. q : d[<<i, j>>] = Tracker!CalcDist(old[i], blobs[j])
  BY <1>2
<1> HIDE DEF result, d
<1>6. ASSUME NEW i \in 1 .. p
      PROVE  /\ Pair(i).blob \in 0 .. q /\ Pair(i).track \in TrackRecords
             /\ Pair(i) \in [blob : 0 .. q, track : TrackRecords]
             /\ SameTrack(Pair(i).track, old[i])
             /\ Pair(i).blob = 0 => Pair(i).track.skipped # 0
             /\ Pair(i).blob # 0 => /\ Pair(i).blob = result[i] /\ Pair(i).track = old[i]
                                    /\ Tracker!CalcDist(old[i], blobs[result[i]]) <= DistThresh
  <2>1. old[i] \in TrackRecords /\ result[i] \in 0 .. q
    BY <1>2, <1>4
  <2>2. CASE TooFar(i)
    <3>1. Pair(i) = [blob |-> 0, track |-> [old[i] EXCEPT !.skipped = 1]]
      BY <2>2
    <3> HIDE DEF Pair
    <3> DEFINE t == [old[i] EXCEPT !.skipped = 1]
    <3>2. /\ t \in TrackRecords /\ t.skipped # 0
          /\ SameTrack(t, old[i])
      BY <2>1, SkippedIs
    <3>3. 0 \in 0 .. q /\ Pair(i).blob = 0 /\ Pair(i).track = t /\ Pair(i) = [blob |-> 0, track |-> t]
      BY <1>2, <3>1
    <3> HIDE DEF t
    <3> QED BY <3>2, <3>3
  <2>3. CASE result[i] = 0
    <3>1. Pair(i) = [blob |-> 0, track |-> [old[i] EXCEPT !.skipped = @ + 1]]
      BY <2>3
    <3> HIDE DEF Pair
    <3> DEFINE t == [old[i] EXCEPT !.skipped = @ + 1]
    <3>2. /\ t \in TrackRecords /\ t.skipped # 0
          /\ SameTrack(t, old[i])
      BY <2>1, SkippedIs
    <3>3. 0 \in 0 .. q /\ Pair(i).blob = 0 /\ Pair(i).track = t /\ Pair(i) = [blob |-> 0, track |-> t]
      BY <1>2, <3>1
    <3> HIDE DEF t
    <3> QED BY <3>2, <3>3
  <2>4. CASE ~TooFar(i) /\ result[i] # 0
    <3>1. Pair(i) = [blob |-> result[i], track |-> old[i]]
      BY <2>4
    <3>2. result[i] \in 1 .. q
      BY <1>2, <2>1, <2>4
    <3>3. Tracker!CalcDist(old[i], blobs[result[i]]) \in Nat
      BY <1>2, <2>1, <3>2, DistanceIsNat
    <3>4. Tracker!CalcDist(old[i], blobs[result[i]]) <= DistThresh
      BY <1>5, <2>4, <3>2, <3>3, TrackerAssumption
    <3> HIDE DEF Pair
    <3> QED BY <2>1, <2>4, <3>1, <3>4 DEF SameTrack
  <2> QED BY <2>2, <2>3, <2>4
<1> HIDE DEF Pair
<1>7. m \in [1 .. p -> [blob : 0 .. q, track : TrackRecords]]
  BY <1>2, <1>6
<1>8. Tracker!Matched(old, blobs) = m
  <2> HIDE DEF m
  <2> QED BY <1>1, <1>2, <1>7, RowIs
<1>9. m \in Seq([blob : 0 .. q, track : TrackRecords])
  <2> HIDE DEF m
  <2> QED BY <1>2, <1>7, FunctionIsSeq
<1>10. \A i \in DOMAIN m : i \in 1 .. p /\ m[i] = Pair(i)
  BY <1>2
<1>11. \A i, j \in DOMAIN m : m[i].blob # 0 /\ m[i].blob = m[j].blob => i = j
  <2> SUFFICES ASSUME NEW i \in DOMAIN m, NEW j \in DOMAIN m, m[i].blob # 0, m[i].blob = m[j].blob
               PROVE  i = j
    OBVIOUS
  <2> HIDE DEF m
  <2>1. result[i] = m[i].blob /\ result[j] = m[j].blob
    BY <1>6, <1>10
  <2>2. i \in DOMAIN result /\ j \in DOMAIN result
    BY <1>4, <1>10
  <2> QED BY <1>4, <2>1, <2>2 DEF Tracker!Matching
<1>12. From(m, old)
  <2>1. [i \in DOMAIN m |-> i] \in [DOMAIN m -> DOMAIN old]
    OBVIOUS
  <2>2. \A i \in DOMAIN m : SameTrack(m[i].track, old[i])
    BY <1>6, <1>10
  <2> HIDE DEF m
  <2> QED BY <2>1, <2>2 DEF From
<1> HIDE DEF m
<1>13. Assigned(m, blobs)
  <2>1. \A i \in DOMAIN m : m[i].blob = 0 => m[i].track.skipped # 0
    BY <1>6, <1>10
  <2>2. \A i \in DOMAIN m : m[i].blob # 0 => Tracker!CalcDist(m[i].track, blobs[m[i].blob]) <= DistThresh
    BY <1>6, <1>10
  <2> QED BY <1>9, <1>11, <2>1, <2>2 DEF Assigned
<1> QED BY <1>8, <1>12, <1>13

\* Erasing tracks takes their assignments with them.
LEMMA KeptIs ==
  ASSUME NEW old \in Seq(TrackRecords), NEW blobs \in Seq(BlobRecords), NEW m,
         Assigned(m, blobs), From(m, old)
  PROVE  Assigned(Tracker!Kept(m), blobs) /\ From(Tracker!Kept(m), old)
<1> DEFINE Pairs == [blob : 0 .. Len(blobs), track : TrackRecords]
           left == Tracker!Remaining(m)
           kept == [i \in DOMAIN left |-> m[left[i]]]
<1>1. Tracker!Kept(m) = kept
  BY DEF Tracker!Kept
<1>2. m \in Seq(Pairs) /\ Len(m) \in Nat /\ DOMAIN m = 1 .. Len(m)
  BY DEF Assigned
<1>3. left \in Seq(1 .. Len(m)) /\ \A i, j \in DOMAIN left : i < j => left[i] < left[j]
  BY <1>2, InOrderIs DEF Tracker!Remaining
<1> HIDE DEF left
<1>4. /\ DOMAIN left = 1 .. Len(left) /\ Len(left) \in Nat
      /\ \A i \in DOMAIN left : left[i] \in DOMAIN m /\ left[i] \in Int
  BY <1>2, <1>3
<1>5. \A i, j \in DOMAIN left : left[i] = left[j] => i = j
  <2> SUFFICES ASSUME NEW i \in DOMAIN left, NEW j \in DOMAIN left, left[i] = left[j] PROVE i = j
    OBVIOUS
  <2>1. i \in Int /\ j \in Int /\ ~(left[i] < left[j]) /\ ~(left[j] < left[i])
    BY <1>4
  <2> QED BY <1>3, <2>1
<1>6. kept \in [1 .. Len(left) -> Pairs]
  <2> HIDE DEF Pairs
  <2>1. \A i \in DOMAIN m : m[i] \in Pairs
    BY <1>2, ElementOfSeq
  <2> QED BY <1>4, <2>1
<1>7. kept \in Seq(Pairs) /\ DOMAIN kept = DOMAIN left
  <2> HIDE DEF kept, Pairs
  <2> QED BY <1>4, <1>6, FunctionIsSeq
<1>8. \A i \in DOMAIN kept : kept[i] = m[left[i]] /\ left[i] \in DOMAIN m
  BY <1>4
<1> HIDE DEF kept
<1>9. Assigned(kept, blobs)
  <2>1. \A i \in DOMAIN kept : kept[i].blob = 0 => kept[i].track.skipped # 0
    BY <1>8 DEF Assigned
  <2>2. \A i \in DOMAIN kept :
          kept[i].blob # 0 => Tracker!CalcDist(kept[i].track, blobs[kept[i].blob]) <= DistThresh
    BY <1>8 DEF Assigned
  <2>3. \A i, j \in DOMAIN kept : kept[i].blob # 0 /\ kept[i].blob = kept[j].blob => i = j
    BY <1>5, <1>7, <1>8 DEF Assigned
  <2> QED BY <1>7, <2>1, <2>2, <2>3 DEF Assigned
<1>10. From(kept, old)
  <2>1. PICK place \in [DOMAIN m -> DOMAIN old] :
          /\ \A i, j \in DOMAIN m : place[i] = place[j] => i = j
          /\ \A i \in DOMAIN m : SameTrack(m[i].track, old[place[i]])
    BY DEF From
  <2> DEFINE place1 == [i \in DOMAIN kept |-> place[left[i]]]
  <2>2. place1 \in [DOMAIN kept -> DOMAIN old]
    BY <1>8
  <2>3. \A i, j \in DOMAIN kept : place1[i] = place1[j] => i = j
    BY <1>5, <1>7, <1>8, <2>1
  <2>4. \A i \in DOMAIN kept : SameTrack(kept[i].track, old[place1[i]])
    BY <1>8, <2>1
  <2> HIDE DEF place1
  <2> QED BY <2>2, <2>3, <2>4 DEF From
<1> QED BY <1>1, <1>9, <1>10

\* Track i was seen as blob k.
Seen(t, i, blobs, k) == t[i].skipped = 0 /\ t[i].contour = blobs[k].contour

\* Every blob has one track.
OneTrack(t, blobs) ==
  \A k \in DOMAIN blobs : \E i \in DOMAIN t :
    Seen(t, i, blobs, k) /\ \A j \in DOMAIN t : Seen(t, j, blobs, k) => j = i

\* No identity is given twice.
OwnIds(t, next) ==
  /\ \A i \in DOMAIN t : t[i].id < next
  /\ \A i, j \in DOMAIN t : t[i].id = t[j].id => i = j

\* Where a track goes from one frame to the next.
NoJump(old, t) ==
  \A i \in DOMAIN old, j \in DOMAIN t :
    t[j].id = old[i].id => \/ Tracker!Abs(t[j].at - old[i].at) <= DistThresh
                           \/ t[j].at = old[i].at + old[i].velocity

LEMMA TrackedIs ==
  ASSUME NEW old \in Seq(TrackRecords), NEW blobs \in Seq(BlobRecords), NEW kept, NEW id \in Nat,
         Assigned(kept, blobs), From(kept, old), OwnIds(old, id),
         \A i, j \in DOMAIN blobs : blobs[i].contour = blobs[j].contour => i = j
  PROVE  LET u == Tracker!Tracked(kept, id, blobs)
         IN /\ u.tracks \in Seq(TrackRecords) /\ u.nextId \in Nat
            /\ OneTrack(u.tracks, blobs) /\ OwnIds(u.tracks, u.nextId) /\ NoJump(old, u.tracks)
<1> DEFINE n == Len(kept)
           free == {j \in DOMAIN blobs : \A i \in DOMAIN kept : kept[i].blob # j}
           new == Tracker!InOrder(free, Len(blobs))
           l == Len(new)
           updated == [i \in DOMAIN kept |->
                         IF kept[i].blob # 0 THEN Tracker!Corrected(kept[i].track, blobs[kept[i].blob])
                         ELSE Tracker!Extrapolated(kept[i].track)]
           made == [k \in DOMAIN new |-> Tracker!NewTrack(blobs[new[k]], id + k - 1)]
           t == updated \o made
<1>1. Tracker!Tracked(kept, id, blobs) = [tracks |-> t, nextId |-> id + l]
  BY DEF Tracker!Tracked
<1>2. /\ kept \in Seq([blob : 0 .. Len(blobs), track : TrackRecords])
      /\ n \in Nat /\ DOMAIN kept = 1 .. n /\ Len(blobs) \in Nat /\ DOMAIN blobs = 1 .. Len(blobs)
  BY DEF Assigned
<1>3. \A i \in 1 .. n : kept[i].blob \in 0 .. Len(blobs) /\ kept[i].track \in TrackRecords
  <2>1. \A i \in 1 .. n : kept[i] \in [blob : 0 .. Len(blobs), track : TrackRecords]
    BY <1>2, ElementOfSeq
  <2> QED BY <2>1
<1>4. \A k \in 1 .. Len(blobs) : blobs[k] \in BlobRecords /\ blobs[k].at \in Int
                                 /\ blobs[k].contour \in SUBSET Nat
  <2>1. \A k \in 1 .. Len(blobs) : blobs[k] \in BlobRecords
    BY <1>2
  <2> QED BY <2>1 DEF BlobRecords
<1>5. /\ new \in Seq(1 .. Len(blobs))
      /\ \A i, j \in DOMAIN new : i < j => new[i] < new[j]
      /\ \A k \in 1 .. Len(blobs) : k \in free <=> \E i \in DOMAIN new : new[i] = k
  <2> HIDE DEF free
  <2> QED BY <1>2, InOrderIs
<1> HIDE DEF new
<1>6. /\ l \in Nat /\ DOMAIN new = 1 .. l
      /\ \A k \in 1 .. l : new[k] \in 1 .. Len(blobs) /\ new[k] \in Int
  BY <1>2, <1>5
<1>7. \A i, j \in 1 .. l : new[i] = new[j] => i = j
  <2> SUFFICES ASSUME NEW i \in 1 .. l, NEW j \in 1 .. l, new[i] = new[j] PROVE i = j
    OBVIOUS
  <2>1. i \in Int /\ j \in Int /\ ~(new[i] < new[j]) /\ ~(new[j] < new[i])
    BY <1>6
  <2>2. i \in DOMAIN new /\ j \in DOMAIN new
    BY <1>6
  <2>3. ~(i < j) /\ ~(j < i)
    BY <1>5, <2>1, <2>2
  <2> QED BY <2>1, <2>3
<1>8. ASSUME NEW i \in 1 .. n
      PROVE  /\ updated[i] \in TrackRecords /\ updated[i].id = kept[i].track.id
             /\ kept[i].blob = 0 => /\ updated[i].skipped # 0
                                    /\ updated[i].at = kept[i].track.at + kept[i].track.velocity
             /\ kept[i].blob # 0 => /\ updated[i].skipped = 0 /\ kept[i].blob \in 1 .. Len(blobs)
                                    /\ updated[i].at = blobs[kept[i].blob].at
                                    /\ updated[i].contour = blobs[kept[i].blob].contour
  <2> DEFINE s == kept[i].track
             b == blobs[kept[i].blob]
  <2>1. s \in TrackRecords
    BY <1>3
  <2>2. CASE kept[i].blob = 0
    <3>1. s.skipped # 0
      BY <1>2, <2>2 DEF Assigned
    <3>2. updated[i] = [s EXCEPT !.at = s.at + s.velocity]
      BY <1>2, <2>2 DEF Tracker!Extrapolated
    <3> HIDE DEF s, updated
    <3>3. s.at + s.velocity \in Int
      BY <2>1 DEF TrackRecords
    <3>4. updated[i] \in TrackRecords /\ updated[i].id = s.id /\ updated[i].skipped # 0
          /\ updated[i].at = s.at + s.velocity
      BY <2>1, <3>1, <3>2, <3>3 DEF TrackRecords
    <3> QED BY <2>2, <3>4 DEF s
  <2>3. CASE kept[i].blob # 0
    <3>1. kept[i].blob \in 1 .. Len(blobs)
      BY <1>2, <1>3, <2>3
    <3>2. b.at \in Int /\ b.contour \in SUBSET Nat /\ b.at - s.at \in Int
      <4>1. s.at \in Int
        BY <2>1 DEF TrackRecords
      <4> QED BY <1>4, <3>1, <4>1
    <3>3. updated[i] = [s EXCEPT !.skipped = 0, !.velocity = b.at - s.at, !.at = b.at, !.contour = b.contour]
      BY <1>2, <2>3 DEF Tracker!Corrected
    <3> HIDE DEF s, b, updated
    <3>4. updated[i] \in TrackRecords /\ updated[i].id = s.id /\ updated[i].skipped = 0
          /\ updated[i].at = b.at /\ updated[i].contour = b.contour
      <4>1. updated[i] = [id |-> s.id, skipped |-> 0, at |-> b.at, velocity |-> b.at - s.at,
                          contour |-> b.contour]
        BY <2>1, <3>3 DEF TrackRecords
      <4>2. s.id \in Nat
        BY <2>1 DEF TrackRecords
      <4> QED BY <3>2, <4>1, <4>2 DEF TrackRecords
    <3> QED BY <2>3, <3>1, <3>4 DEF s, b
  <2> QED BY <2>2, <2>3
<1>9. ASSUME NEW k \in 1 .. l
      PROVE  /\ made[k] \in TrackRecords /\ made[k].id = id + k - 1 /\ made[k].skipped = 0
             /\ made[k].contour = blobs[new[k]].contour
  <2>1. made[k] = [id |-> id + k - 1, skipped |-> 0, at |-> blobs[new[k]].at, velocity |-> 0,
                   contour |-> blobs[new[k]].contour]
    BY <1>6 DEF Tracker!NewTrack
  <2>2. id + k - 1 \in Nat
    BY <1>6
  <2>3. blobs[new[k]].at \in Int /\ blobs[new[k]].contour \in SUBSET Nat
    BY <1>4, <1>6
  <2> HIDE DEF made
  <2> QED BY <2>1, <2>2, <2>3 DEF TrackRecords
<1>10. /\ updated \in Seq(TrackRecords) /\ Len(updated) = n
       /\ made \in Seq(TrackRecords) /\ Len(made) = l
  <2>1. updated \in [1 .. n -> TrackRecords] /\ made \in [1 .. l -> TrackRecords]
    BY <1>2, <1>6, <1>8, <1>9
  <2> HIDE DEF updated, made, n, l
  <2> QED BY <1>2, <1>6, <2>1, FunctionIsSeq
<1> HIDE DEF updated, made
<1>11. /\ t \in Seq(TrackRecords) /\ DOMAIN t = 1 .. n + l
       /\ \A i \in 1 .. n : t[i] = updated[i]
       /\ \A k \in 1 .. l : t[n + k] = made[k]
       /\ \A i \in 1 .. n + l : i \in 1 .. n \/ \E k \in 1 .. l : i = n + k
  <2>1. /\ t \in Seq(TrackRecords) /\ Len(t) = n + l
        /\ \A i \in 1 .. n + l : t[i] = IF i <= n THEN updated[i] ELSE made[i - n]
    <3>0. updated \in Seq(TrackRecords) /\ made \in Seq(TrackRecords)
      BY <1>10
    <3>1. /\ t \in Seq(TrackRecords) /\ Len(t) = Len(updated) + Len(made)
          /\ \A i \in 1 .. Len(updated) + Len(made) :
               t[i] = IF i <= Len(updated) THEN updated[i] ELSE made[i - Len(updated)]
      BY <3>0, ConcatProperties
    <3> HIDE DEF t, n, l
    <3> QED BY <1>10, <3>1
  <2>2. \A i \in 1 .. n + l : i \in 1 .. n \/ (i - n \in 1 .. l /\ i = n + (i - n))
    BY <1>2, <1>6
  <2>3. \A k \in 1 .. l : n + k \in 1 .. n + l /\ ~(n + k <= n) /\ (n + k) - n = k
    BY <1>2, <1>6
  <2>4. \A i \in 1 .. n : i \in 1 .. n + l /\ i <= n
    BY <1>2, <1>6
  <2>5. DOMAIN t = 1 .. n + l
    BY <2>1
  <2> HIDE DEF t
  <2> QED BY <2>1, <2>2, <2>3, <2>4, <2>5
<1> HIDE DEF t, n, l
<1>12. OneTrack(t, blobs)
  <2> SUFFICES ASSUME NEW k \in 1 .. Len(blobs)
               PROVE  \E i \in DOMAIN t :
                        Seen(t, i, blobs, k) /\ \A j \in DOMAIN t : Seen(t, j, blobs, k) => j = i
    BY <1>2 DEF OneTrack
  <2>1. \A i \in 1 .. n : Seen(t, i, blobs, k) <=> kept[i].blob = k
    <3> SUFFICES ASSUME NEW i \in 1 .. n PROVE Seen(t, i, blobs, k) <=> kept[i].blob = k
      OBVIOUS
    <3>1. CASE kept[i].blob = 0
      <4>1. t[i].skipped # 0 /\ kept[i].blob # k
        BY <1>8, <1>11, <3>1
      <4> QED BY <4>1 DEF Seen
    <3>2. CASE kept[i].blob # 0
      BY <1>2, <1>8, <1>11, <3>2 DEF Seen
    <3> QED BY <3>1, <3>2
  <2>2. \A j \in 1 .. l : Seen(t, n + j, blobs, k) <=> new[j] = k
    <3> SUFFICES ASSUME NEW j \in 1 .. l PROVE Seen(t, n + j, blobs, k) <=> new[j] = k
      OBVIOUS
    <3>1. t[n + j].skipped = 0 /\ t[n + j].contour = blobs[new[j]].contour
      BY <1>9, <1>11
    <3>2. new[j] \in DOMAIN blobs /\ k \in DOMAIN blobs
      BY <1>2, <1>6
    <3> QED BY <3>1, <3>2 DEF Seen
  <2>3. CASE k \in free
    <3>1. PICK j \in 1 .. l : new[j] = k
      BY <1>5, <1>6, <2>3
    <3>2. \A i \in 1 .. n : ~Seen(t, i, blobs, k)
      BY <1>2, <2>1, <2>3
    <3>3. Seen(t, n + j, blobs, k) /\ n + j \in DOMAIN t
      BY <1>2, <1>6, <1>11, <2>2, <3>1
    <3>4. \A i \in DOMAIN t : Seen(t, i, blobs, k) => i = n + j
      BY <1>7, <1>11, <2>2, <3>1, <3>2
    <3> QED BY <3>3, <3>4
  <2>4. CASE k \notin free
    <3>1. PICK i \in 1 .. n : kept[i].blob = k
      BY <1>2, <2>4
    <3>2. \A j \in 1 .. l : ~Seen(t, n + j, blobs, k)
      BY <1>5, <1>6, <2>2, <2>4
    <3>3. Seen(t, i, blobs, k) /\ i \in DOMAIN t
      BY <1>2, <1>6, <1>11, <2>1, <3>1
    <3>4. \A j \in 1 .. n : kept[j].blob = k => j = i
      <4>1. kept[i].blob # 0
        BY <3>1
      <4> QED BY <1>2, <3>1, <4>1 DEF Assigned
    <3>5. \A j \in DOMAIN t : Seen(t, j, blobs, k) => j = i
      BY <1>11, <2>1, <3>2, <3>4
    <3> QED BY <3>3, <3>5
  <2> QED BY <2>3, <2>4
<1>13. PICK place \in [DOMAIN kept -> DOMAIN old] :
         /\ \A i, j \in DOMAIN kept : place[i] = place[j] => i = j
         /\ \A i \in DOMAIN kept : SameTrack(kept[i].track, old[place[i]])
  BY DEF From
<1>14. \A i \in 1 .. n : /\ place[i] \in DOMAIN old
                         /\ updated[i].id = old[place[i]].id /\ updated[i].id < id
                         /\ kept[i].track.at = old[place[i]].at
                         /\ kept[i].track.velocity = old[place[i]].velocity
  <2> SUFFICES ASSUME NEW i \in 1 .. n
               PROVE  /\ place[i] \in DOMAIN old
                      /\ updated[i].id = old[place[i]].id /\ updated[i].id < id
                      /\ kept[i].track.at = old[place[i]].at
                      /\ kept[i].track.velocity = old[place[i]].velocity
    OBVIOUS
  <2>1. place[i] \in DOMAIN old /\ SameTrack(kept[i].track, old[place[i]])
    BY <1>2, <1>13
  <2>2. updated[i].id = kept[i].track.id
    BY <1>8
  <2> QED BY <2>1, <2>2 DEF SameTrack, OwnIds
<1>15. \A i \in DOMAIN old : old[i].id \in Nat /\ old[i].at \in Int /\ old[i].id < id
  <2>1. \A i \in DOMAIN old : old[i] \in TrackRecords
    OBVIOUS
  <2> QED BY <2>1 DEF TrackRecords, OwnIds
<1>16. \A k \in 1 .. l : t[n + k].id = id + k - 1 /\ k \in Nat /\ k >= 1 /\ k <= l
  <2> SUFFICES ASSUME NEW k \in 1 .. l
               PROVE  t[n + k].id = id + k - 1 /\ k \in Nat /\ k >= 1 /\ k <= l
    OBVIOUS
  <2>1. t[n + k].id = id + k - 1
    BY <1>9, <1>11
  <2>2. k \in Nat /\ k >= 1 /\ k <= l
    BY <1>6
  <2> QED BY <2>1, <2>2
<1>17. \A i \in 1 .. n : t[i].id \in Nat /\ t[i].id < id
  BY <1>11, <1>14, <1>15
<1>18. OwnIds(t, id + l)
  <2>1. ASSUME NEW i \in DOMAIN t PROVE t[i].id < id + l
    <3>1. CASE i \in 1 .. n
      BY <1>6, <1>17, <3>1
    <3>2. ASSUME NEW k \in 1 .. l, i = n + k PROVE t[i].id < id + l
      BY <1>6, <1>16, <3>2
    <3> QED BY <1>11, <3>1, <3>2
  <2>2. ASSUME NEW i \in DOMAIN t, NEW j \in DOMAIN t, t[i].id = t[j].id PROVE i = j
    <3>1. CASE i \in 1 .. n /\ j \in 1 .. n
      <4>1. old[place[i]].id = old[place[j]].id
        BY <1>11, <1>14, <2>2, <3>1
      <4>2. place[i] = place[j]
        BY <1>14, <3>1, <4>1 DEF OwnIds
      <4> QED BY <1>2, <1>13, <3>1, <4>2
    <3>2. ASSUME NEW k \in 1 .. l, NEW x \in 1 .. n, t[n + k].id = t[x].id PROVE FALSE
      <4>1. t[n + k].id >= id /\ t[x].id < id /\ t[x].id \in Nat
        BY <1>16, <1>17
      <4> QED BY <3>2, <4>1
    <3>3. ASSUME NEW k \in 1 .. l, NEW x \in 1 .. l, t[n + k].id = t[n + x].id PROVE k = x
      <4>1. id + k - 1 = id + x - 1 /\ k \in Nat /\ x \in Nat
        BY <1>16, <3>3
      <4> QED BY <4>1
    <3> QED BY <1>11, <2>2, <3>1, <3>2, <3>3
  <2> QED BY <2>1, <2>2 DEF OwnIds
<1>19. NoJump(old, t)
  <2> SUFFICES ASSUME NEW i \in DOMAIN old, NEW j \in DOMAIN t, t[j].id = old[i].id
               PROVE  \/ Tracker!Abs(t[j].at - old[i].at) <= DistThresh
                      \/ t[j].at = old[i].at + old[i].velocity
    BY DEF NoJump
  <2>1. CASE j \in 1 .. n
    <3>1. place[j] = i
      BY <1>11, <1>14, <2>1 DEF OwnIds
    <3>2. CASE kept[j].blob = 0
      BY <1>8, <1>11, <1>14, <2>1, <3>1, <3>2
    <3>3. CASE kept[j].blob # 0
      <4> DEFINE b == blobs[kept[j].blob]
      <4>1. t[j].at = b.at /\ b.at \in Int /\ kept[j].track.at = old[i].at
        BY <1>4, <1>8, <1>11, <1>14, <2>1, <3>1, <3>3
      <4>2. Tracker!CalcDist(kept[j].track, b) <= DistThresh
        BY <1>2, <2>1, <3>3 DEF Assigned
      <4> HIDE DEF b
      <4>3. Tracker!Abs(old[i].at - b.at) <= DistThresh
        BY <4>1, <4>2 DEF Tracker!CalcDist
      <4> QED BY <1>15, <4>1, <4>3 DEF Tracker!Abs
    <3> QED BY <3>2, <3>3
  <2>2. ASSUME NEW k \in 1 .. l, j = n + k PROVE FALSE
    <3>1. t[j].id >= id /\ t[j].id = old[i].id /\ old[i].id < id /\ old[i].id \in Nat
      BY <1>15, <1>16, <2>2
    <3> QED BY <3>1
  <2> QED BY <1>11, <2>1, <2>2
<1> DEFINE next == id + l
<1>20. next \in Nat
  BY <1>6
<1> HIDE DEF next
<1> QED BY <1>1, <1>11, <1>12, <1>18, <1>19, <1>20 DEF next

-----------------------------------------------------------------------------
(* The tracker: what holds in every frame *)

TrackerInv ==
  /\ tracks \in Seq(TrackRecords) /\ nextId \in Nat
  /\ OwnIds(tracks, nextId)
  /\ OneTrack(tracks, Tracker!Blobs(fg))

\* A frame keeps this, and no track jumps.
LEMMA ComputeHolds ==
  ASSUME TrackerInv, Tracker!compute
  PROVE  TrackerInv' /\ NoJump(tracks, tracks')
<1> DEFINE mask == Tracker!Filtered.mask
           blobs == Tracker!Blobs(mask)
           m == Tracker!Matched(tracks, blobs)
           u == Tracker!Update(tracks, nextId, blobs)
<1>1. fg' = mask /\ tracks' = u.tracks /\ nextId' = u.nextId
  BY DEF Tracker!compute
<1>2. mask \in SUBSET Tracker!Cells
  BY DEF Tracker!Filtered, Tracker!Eroded
<1>3. /\ tracks \in Seq(TrackRecords) /\ nextId \in Nat /\ OwnIds(tracks, nextId)
  BY DEF TrackerInv
<1> HIDE DEF mask
<1>4. /\ blobs \in Seq(BlobRecords)
      /\ \A i, j \in DOMAIN blobs : blobs[i].contour = blobs[j].contour => i = j
  BY <1>2, BlobsAre
<1>5. u = Tracker!Tracked(Tracker!Kept(m), nextId, blobs)
  BY DEF Tracker!Update
<1>6. Tracker!Blobs(fg') = blobs
  BY <1>1
<1> HIDE DEF u, blobs
<1>7. Assigned(m, blobs) /\ From(m, tracks)
  BY <1>3, <1>4, MatchedIs
<1> HIDE DEF m
<1>8. Assigned(Tracker!Kept(m), blobs) /\ From(Tracker!Kept(m), tracks)
  BY <1>3, <1>4, <1>7, KeptIs
<1>9. /\ u.tracks \in Seq(TrackRecords) /\ u.nextId \in Nat
      /\ OneTrack(u.tracks, blobs) /\ OwnIds(u.tracks, u.nextId) /\ NoJump(tracks, u.tracks)
  BY <1>3, <1>4, <1>5, <1>8, TrackedIs
<1> QED BY <1>1, <1>6, <1>9 DEF TrackerInv

\* Without a new frame the tracks stay where they are.
LEMMA NoFrameHolds ==
  ASSUME TrackerInv, UNCHANGED <<tracks, nextId, fg>>
  PROVE  TrackerInv' /\ NoJump(tracks, tracks')
<1>1. \A i \in DOMAIN tracks : tracks[i].at \in Int
  <2>1. \A i \in DOMAIN tracks : tracks[i] \in TrackRecords
    BY DEF TrackerInv
  <2> QED BY <2>1 DEF TrackRecords
<1>2. NoJump(tracks, tracks)
  <2> SUFFICES ASSUME NEW i \in DOMAIN tracks, NEW j \in DOMAIN tracks, tracks[j].id = tracks[i].id
               PROVE  Tracker!Abs(tracks[j].at - tracks[i].at) <= DistThresh
    BY DEF NoJump
  <2>1. i = j
    BY DEF TrackerInv, OwnIds
  <2>2. tracks[j].at - tracks[i].at = 0
    BY <1>1, <2>1
  <2> QED BY <2>2, TrackerAssumption DEF Tracker!Abs
<1> QED BY <1>2 DEF TrackerInv

LEMMA TrackerInit == Tracker!Init => TrackerInv
<1> SUFFICES ASSUME Tracker!Init PROVE TrackerInv
  OBVIOUS
<1>1. tracks = <<>> /\ nextId = 0 /\ fg = {}
  BY DEF Tracker!Init
<1>2. DOMAIN Tracker!Blobs({}) = {}
  <2> DEFINE runs == Tracker!Runs({})
             Fitting == {i \in DOMAIN runs : /\ Tracker!Cardinality(runs[i]) >= MinArea
                                             /\ Tracker!Cardinality(runs[i]) < MaxArea}
  <2>1. DOMAIN runs = {}
    <3> DEFINE list == Tracker!InOrder({}, Width)
    <3>1. {c \in {} : c - 1 \notin {}} = {}
      OBVIOUS
    <3>2. DOMAIN Tracker!Row([k \in DOMAIN list |->
            list[k] .. Tracker!Max({n \in {} : list[k] <= n /\ list[k] .. n \subseteq {}})]) = DOMAIN runs
      BY <3>1 DEF Tracker!Runs
    <3>3. DOMAIN list = {}
      BY TrackerAssumption, NothingInOrder
    <3> HIDE DEF list
    <3> DEFINE End(k) == list[k] .. Tracker!Max({n \in {} : list[k] <= n /\ list[k] .. n \subseteq {}})
    <3> HIDE DEF End
    <3>4. [k \in DOMAIN list |-> End(k)] \in [1 .. 0 -> {}]
      BY <3>3
    <3>5. Tracker!Row([k \in DOMAIN list |-> End(k)]) = [k \in DOMAIN list |-> End(k)]
      BY <3>4, RowIs
    <3> QED BY <3>2, <3>3, <3>5 DEF End
  <2>2. runs \in Seq(SUBSET Tracker!Cells)
    BY RunsAre
  <2>3. DOMAIN Tracker!Blobs({}) = DOMAIN Tracker!InOrder(Fitting, Len(runs))
    BY DEF Tracker!Blobs
  <2> HIDE DEF runs
  <2>4. Fitting = {} /\ Len(runs) \in Nat
    BY <2>1, <2>2
  <2> QED BY <2>3, <2>4, NothingInOrder
<1> QED BY <1>1, <1>2 DEF TrackerInv, OwnIds, OneTrack

LEMMA TrackerStep ==
  TrackerInv /\ [Tracker!DynamicNext]_(Tracker!dynamicVars) => TrackerInv' /\ NoJump(tracks, tracks')
<1> SUFFICES ASSUME TrackerInv, [Tracker!DynamicNext]_(Tracker!dynamicVars)
             PROVE  TrackerInv' /\ NoJump(tracks, tracks')
  OBVIOUS
<1>1. CASE Tracker!compute
  BY <1>1, ComputeHolds
<1>2. CASE Tracker!MapChanges
  BY <1>2, NoFrameHolds DEF Tracker!MapChanges
<1>3. CASE Tracker!FirstFrame
  BY <1>3, NoFrameHolds DEF Tracker!FirstFrame
<1>4. CASE UNCHANGED Tracker!dynamicVars
  BY <1>4, NoFrameHolds DEF Tracker!dynamicVars
<1> QED BY <1>1, <1>2, <1>3, <1>4 DEF Tracker!DynamicNext

\* For every map and every way it changes, any number of tracks and of detections: each blob of
\* the last frame belongs to exactly one track, and a track that says it was seen stands on a blob
\* of its own (AssignmentProblemSolver::assignmentoptimal, CTracker::Update).
THEOREM ObstaclesAreTracked == Tracker!DynamicSpec => []ObstaclesTracked
<1>1. TrackerInv => ObstaclesTracked
  <2> SUFFICES ASSUME TrackerInv, NEW k \in DOMAIN Tracker!Blobs(fg)
               PROVE  Tracker!Cardinality({i \in DOMAIN tracks :
                        tracks[i].skipped = 0 /\ tracks[i].contour = Tracker!Blobs(fg)[k].contour}) = 1
    BY DEF ObstaclesTracked, Tracker!BlobsHaveTracks
  <2> DEFINE blobs == Tracker!Blobs(fg)
             T == {i \in DOMAIN tracks : tracks[i].skipped = 0 /\ tracks[i].contour = blobs[k].contour}
  <2>1. PICK i \in DOMAIN tracks :
          Seen(tracks, i, blobs, k) /\ \A j \in DOMAIN tracks : Seen(tracks, j, blobs, k) => j = i
    BY DEF TrackerInv, OneTrack
  <2> HIDE DEF blobs
  <2>2. T = {i}
    BY <2>1 DEF Seen
  <2> HIDE DEF T
  <2>3. Tracker!Cardinality(T) = 1
    BY <2>2, SameCardinalities, FS_Singleton
  <2> QED BY <2>3 DEF T, blobs
<1> QED BY <1>1, TrackerInit, TrackerStep, PTL DEF Tracker!DynamicSpec

\* From one frame to the next a track moves no further than the threshold, or as it moved before.
THEOREM TracksStayInReach == Tracker!DynamicSpec => Tracker!TracksDoNotJump
<1>1. NoJump(tracks, tracks') =>
        \A i \in DOMAIN tracks, j \in DOMAIN tracks' :
          tracks'[j].id = tracks[i].id
            => \/ Tracker!Abs(tracks'[j].at - tracks[i].at) <= DistThresh
               \/ tracks'[j].at = tracks[i].at + tracks[i].velocity
  BY DEF NoJump
<1> QED BY <1>1, TrackerInit, TrackerStep, PTL DEF Tracker!DynamicSpec, Tracker!TracksDoNotJump

-----------------------------------------------------------------------------
(* The band: its samples and their times *)

\* The sequence t is s with e at place i.
Inserted(t, s, i, e) ==
  \A j \in 1 .. Len(s) + 1 : t[j] = IF j < i THEN s[j] ELSE IF j = i THEN e ELSE s[j - 1]

LEMMA InsertIs ==
  ASSUME NEW S, NEW s \in Seq(S), NEW i \in 1 .. Len(s) + 1, NEW e \in S
  PROVE  /\ Planner!InsertAt(s, i, e) \in Seq(S) /\ Len(Planner!InsertAt(s, i, e)) = Len(s) + 1
         /\ Inserted(Planner!InsertAt(s, i, e), s, i, e)
<1> DEFINE a == SubSeq(s, 1, i - 1)
           b == SubSeq(s, i, Len(s))
           ae == a \o <<e>>
<1>1. Len(s) \in Nat /\ i \in Int /\ \A j \in 1 .. Len(s) : s[j] \in S
  OBVIOUS
<1>2. /\ a \in Seq(S) /\ Len(a) = i - 1 /\ \A j \in 1 .. i - 1 : a[j] = s[j]
  <2>1. \A j \in 1 .. i - 1 : s[j] \in S
    BY <1>1
  <2>2. /\ a \in Seq(S) /\ Len(a) = IF 1 <= i - 1 THEN i - 1 - 1 + 1 ELSE 0
        /\ \A j \in 1 .. i - 1 - 1 + 1 : a[j] = s[1 + j - 1]
    BY <1>1, <2>1, SubSeqProperties
  <2> HIDE DEF a
  <2> QED BY <1>1, <2>2
<1>3. /\ b \in Seq(S) /\ Len(b) = Len(s) - i + 1 /\ \A j \in 1 .. Len(s) - i + 1 : b[j] = s[i + j - 1]
  <2>1. \A j \in i .. Len(s) : s[j] \in S
    BY <1>1
  <2>2. /\ b \in Seq(S) /\ Len(b) = IF i <= Len(s) THEN Len(s) - i + 1 ELSE 0
        /\ \A j \in 1 .. Len(s) - i + 1 : b[j] = s[i + j - 1]
    BY <1>1, <2>1, SubSeqProperties
  <2> HIDE DEF b
  <2> QED BY <1>1, <2>2
<1>4. Planner!InsertAt(s, i, e) = ae \o b
  BY DEF Planner!InsertAt
<1> HIDE DEF a, b
<1>5. <<e>> \in Seq(S) /\ Len(<<e>>) = 1 /\ <<e>>[1] = e
  OBVIOUS
<1>6. /\ ae \in Seq(S) /\ Len(ae) = i
      /\ \A j \in 1 .. i : ae[j] = IF j < i THEN s[j] ELSE e
  <2>1. /\ ae \in Seq(S) /\ Len(ae) = i - 1 + 1
        /\ \A j \in 1 .. i - 1 + 1 : ae[j] = IF j <= i - 1 THEN a[j] ELSE <<e>>[j - (i - 1)]
    <3> DEFINE u == <<e>>
    <3>1. u \in Seq(S) /\ Len(u) = 1
      BY <1>5
    <3> HIDE DEF u
    <3>2. /\ a \o u \in Seq(S) /\ Len(a \o u) = Len(a) + Len(u)
          /\ \A j \in 1 .. Len(a) + Len(u) : (a \o u)[j] = IF j <= Len(a) THEN a[j] ELSE u[j - Len(a)]
      BY <1>2, <3>1, ConcatProperties
    <3> QED BY <1>2, <3>1, <3>2 DEF u
  <2> HIDE DEF ae
  <2>2. ASSUME NEW j \in 1 .. i PROVE ae[j] = IF j < i THEN s[j] ELSE e
    <3>1. CASE j < i
      BY <1>1, <1>2, <2>1, <3>1
    <3>2. CASE j = i
      <4>1. j - (i - 1) = 1 /\ j \in 1 .. i - 1 + 1 /\ ~(j <= i - 1)
        BY <1>1, <3>2
      <4> QED BY <1>5, <2>1, <3>2, <4>1
    <3> QED BY <1>1, <3>1, <3>2
  <2> QED BY <1>1, <2>1, <2>2
<1> HIDE DEF ae
<1>7. /\ ae \o b \in Seq(S) /\ Len(ae \o b) = Len(ae) + Len(b)
      /\ \A j \in 1 .. Len(ae) + Len(b) : (ae \o b)[j] = IF j <= Len(ae) THEN ae[j] ELSE b[j - Len(ae)]
  BY <1>3, <1>6, ConcatProperties
<1> DEFINE t == ae \o b
<1> HIDE DEF t
<1>8. /\ t \in Seq(S) /\ Len(t) = Len(s) + 1
      /\ \A j \in 1 .. Len(s) + 1 : t[j] = IF j <= i THEN ae[j] ELSE b[j - i]
  BY <1>1, <1>3, <1>6, <1>7 DEF t
<1>9. \A j \in 1 .. Len(s) + 1 : t[j] = IF j < i THEN s[j] ELSE IF j = i THEN e ELSE s[j - 1]
  <2> TAKE j \in 1 .. Len(s) + 1
  <2>1. CASE j <= i
    BY <1>1, <1>6, <1>8, <2>1
  <2>2. CASE j > i
    <3>1. j - i \in 1 .. Len(s) - i + 1 /\ i + (j - i) - 1 = j - 1
      BY <1>1, <2>2
    <3>2. b[j - i] = s[j - 1]
      BY <1>3, <3>1
    <3> QED BY <1>1, <1>8, <2>2, <3>2
  <2> QED BY <1>1, <2>1, <2>2
<1> QED BY <1>4, <1>8, <1>9 DEF t, Inserted

LEMMA RemoveIs ==
  ASSUME NEW S, NEW s \in Seq(S), NEW i \in 1 .. Len(s)
  PROVE  /\ Planner!RemoveAt(s, i) \in Seq(S) /\ Len(Planner!RemoveAt(s, i)) = Len(s) - 1
         /\ \A j \in 1 .. Len(s) - 1 : Planner!RemoveAt(s, i)[j] = IF j < i THEN s[j] ELSE s[j + 1]
<1> DEFINE a == SubSeq(s, 1, i - 1)
           b == SubSeq(s, i + 1, Len(s))
<1>1. Len(s) \in Nat /\ i \in Int /\ \A j \in 1 .. Len(s) : s[j] \in S
  OBVIOUS
<1>2. /\ a \in Seq(S) /\ Len(a) = i - 1 /\ \A j \in 1 .. i - 1 : a[j] = s[j]
  <2>1. \A j \in 1 .. i - 1 : s[j] \in S
    BY <1>1
  <2>2. /\ a \in Seq(S) /\ Len(a) = IF 1 <= i - 1 THEN i - 1 - 1 + 1 ELSE 0
        /\ \A j \in 1 .. i - 1 - 1 + 1 : a[j] = s[1 + j - 1]
    BY <1>1, <2>1, SubSeqProperties
  <2> HIDE DEF a
  <2> QED BY <1>1, <2>2
<1>3. /\ b \in Seq(S) /\ Len(b) = Len(s) - i /\ \A j \in 1 .. Len(s) - i : b[j] = s[i + j]
  <2>1. \A j \in i + 1 .. Len(s) : s[j] \in S
    BY <1>1
  <2>2. /\ b \in Seq(S) /\ Len(b) = IF i + 1 <= Len(s) THEN Len(s) - (i + 1) + 1 ELSE 0
        /\ \A j \in 1 .. Len(s) - (i + 1) + 1 : b[j] = s[i + 1 + j - 1]
    BY <1>1, <2>1, SubSeqProperties
  <2> HIDE DEF b
  <2> QED BY <1>1, <2>2
<1>4. Planner!RemoveAt(s, i) = a \o b
  BY DEF Planner!RemoveAt
<1> HIDE DEF a, b
<1>5. /\ a \o b \in Seq(S) /\ Len(a \o b) = Len(a) + Len(b)
      /\ \A j \in 1 .. Len(a) + Len(b) : (a \o b)[j] = IF j <= Len(a) THEN a[j] ELSE b[j - Len(a)]
  BY <1>2, <1>3, ConcatProperties
<1> DEFINE t == a \o b
<1> HIDE DEF t
<1>6. /\ t \in Seq(S) /\ Len(t) = Len(s) - 1
      /\ \A j \in 1 .. Len(s) - 1 : t[j] = IF j <= i - 1 THEN a[j] ELSE b[j - (i - 1)]
  BY <1>1, <1>2, <1>3, <1>5 DEF t
<1>7. \A j \in 1 .. Len(s) - 1 : t[j] = IF j < i THEN s[j] ELSE s[j + 1]
  <2> TAKE j \in 1 .. Len(s) - 1
  <2>1. CASE j < i
    BY <1>1, <1>2, <1>6, <2>1
  <2>2. CASE j >= i
    <3>1. j - (i - 1) \in 1 .. Len(s) - i /\ i + (j - (i - 1)) = j + 1
      BY <1>1, <2>2
    <3>2. b[j - (i - 1)] = s[j + 1]
      BY <1>3, <3>1
    <3> QED BY <1>1, <1>6, <2>2, <3>2
  <2> QED BY <1>1, <2>1, <2>2
<1> QED BY <1>4, <1>6, <1>7 DEF t

\* A band with a time for each way, in which both have their place.
BandRecords == [poses : Seq(Int), dts : Seq(Int)]
Begun(b, s) == Len(b.poses) = Len(b.dts) + 1 /\ b.poses[1] = s
Timed(b) == \A i \in 1 .. Len(b.dts) : b.dts[i] = Planner!Distance(b.poses[i], b.poses[i + 1])

\* A sample at its end keeps all that.
LEMMA PoseAdded ==
  ASSUME NEW b \in BandRecords, NEW s, Begun(b, s), NEW pose \in Int, NEW dt \in Int
  PROVE  /\ Planner!addPoseAndTimeDiff(b, pose, dt) \in BandRecords
         /\ Begun(Planner!addPoseAndTimeDiff(b, pose, dt), s)
         /\ Len(Planner!addPoseAndTimeDiff(b, pose, dt).poses) = Len(b.poses) + 1
         /\ Planner!BackPose(Planner!addPoseAndTimeDiff(b, pose, dt)) = pose
         /\ Planner!BackPose(b) \in Int /\ b.poses[Len(b.poses)] = Planner!BackPose(b)
         /\ Timed(b) /\ dt = Planner!Distance(Planner!BackPose(b), pose) =>
              Timed(Planner!addPoseAndTimeDiff(b, pose, dt))
<1> DEFINE c == Planner!addPoseAndTimeDiff(b, pose, dt)
           p == b.poses
           d == b.dts
<1>1. p \in Seq(Int) /\ d \in Seq(Int) /\ Len(p) = Len(d) + 1 /\ p[1] = s
  BY DEF BandRecords, Begun
<1>2. c = [poses |-> Append(p, pose), dts |-> Append(d, dt)]
  BY <1>1 DEF Planner!addPoseAndTimeDiff, Planner!sizePoses, Planner!sizeTimeDiffs
<1>3. c.poses = Append(p, pose) /\ c.dts = Append(d, dt)
  BY <1>2
<1> DEFINE q == Append(p, pose)
           e == Append(d, dt)
<1>4. /\ q \in Seq(Int) /\ Len(q) = Len(p) + 1 /\ \A i \in 1 .. Len(p) : q[i] = p[i]
      /\ q[Len(p) + 1] = pose
      /\ e \in Seq(Int) /\ Len(e) = Len(d) + 1 /\ \A i \in 1 .. Len(d) : e[i] = d[i]
      /\ e[Len(d) + 1] = dt
  <2> HIDE DEF p, d
  <2>1. /\ q \in Seq(Int) /\ Len(q) = Len(p) + 1 /\ \A i \in 1 .. Len(p) : q[i] = p[i]
        /\ q[Len(p) + 1] = pose
    BY <1>1, AppendProperties
  <2>2. /\ e \in Seq(Int) /\ Len(e) = Len(d) + 1 /\ \A i \in 1 .. Len(d) : e[i] = d[i]
        /\ e[Len(d) + 1] = dt
    BY <1>1, AppendProperties
  <2> QED BY <2>1, <2>2
<1>5. c \in BandRecords /\ Len(c.poses) = Len(p) + 1
  BY <1>2, <1>4 DEF BandRecords
<1> HIDE DEF q, e
<1>6. Len(d) \in Nat /\ Len(p) \in Nat /\ Len(p) >= 1
  BY <1>1
<1>7. Begun(c, s)
  <2>1. q[1] = s
    BY <1>1, <1>4, <1>6
  <2>2. Len(c.poses) = Len(c.dts) + 1
    BY <1>1, <1>3, <1>4 DEF q, e
  <2> QED BY <1>3, <2>1, <2>2 DEF Begun, q
<1>8. Planner!BackPose(c) = pose
  <2> HIDE DEF c
  <2> QED BY <1>3, <1>4 DEF Planner!BackPose, Planner!Last, q
<1>9. Planner!BackPose(b) \in Int /\ p[Len(p)] = Planner!BackPose(b)
  BY <1>1, <1>6 DEF Planner!BackPose, Planner!Last
<1>10. ASSUME Timed(b), dt = Planner!Distance(Planner!BackPose(b), pose) PROVE Timed(c)
  <2> SUFFICES ASSUME NEW i \in 1 .. Len(d) + 1 PROVE e[i] = Planner!Distance(q[i], q[i + 1])
    BY <1>3, <1>4 DEF Timed, q, e
  <2>1. CASE i \in 1 .. Len(d)
    <3>1. i \in 1 .. Len(p) /\ i + 1 \in 1 .. Len(p)
      BY <1>1, <1>6, <2>1
    <3>2. q[i] = p[i] /\ q[i + 1] = p[i + 1] /\ e[i] = d[i]
      BY <1>4, <2>1, <3>1
    <3>3. d[i] = Planner!Distance(p[i], p[i + 1])
      BY <1>10, <2>1 DEF Timed
    <3> QED BY <3>2, <3>3
  <2>2. CASE i = Len(d) + 1
    <3>1. i = Len(p) /\ i \in 1 .. Len(p)
      BY <1>1, <1>6, <2>2
    <3>2. q[i] = p[Len(p)] /\ q[i + 1] = pose /\ e[i] = dt
      BY <1>4, <2>2, <3>1
    <3> QED BY <1>9, <1>10, <3>2
  <2> QED BY <1>6, <2>1, <2>2
<1> HIDE DEF c
<1> QED BY <1>5, <1>7, <1>8, <1>9, <1>10 DEF c

\* The points half way leave a band as it began, with one sample less than the least.
LEMMA FilledHolds ==
  ASSUME NEW s, NEW b0 \in BandRecords, Begun(b0, s), Timed(b0), NEW end \in Int, NEW m \in Nat
  PROVE  /\ Planner!Filled(b0, end, m) \in BandRecords
         /\ Begun(Planner!Filled(b0, end, m), s) /\ Timed(Planner!Filled(b0, end, m))
         /\ Len(Planner!Filled(b0, end, m).poses) >= m - 1
<1> DEFINE next(b) == Planner!average(Planner!BackPose(b), end)
           turn(b, k) ==
             IF Planner!sizePoses(b) < m - 1
             THEN Planner!addPoseAndTimeDiff(b, next(b), Planner!estimateDeltaT(Planner!BackPose(b), next(b)))
             ELSE b
           IsLoop(g) == g = [k \in 0 .. m |-> IF k = 0 THEN b0 ELSE turn(g[k - 1], k)]
           after == CHOOSE g : IsLoop(g)
           A == {b \in BandRecords : Begun(b, s) /\ Timed(b)}
           turns == [p \in (1 .. m) \X A |-> turn(p[2], p[1])]
<1>1. Planner!Filled(b0, end, m) = after[m]
  BY DEF Planner!Filled, Planner!Walk
<1>2. ASSUME NEW b \in A
      PROVE  /\ \A k \in 1 .. m : turn(b, k) \in A
             /\ Len(b.poses) \in Nat /\ Len(b.poses) >= 1
             /\ \A k \in 1 .. m : IF Len(b.poses) < m - 1 THEN Len(turn(b, k).poses) = Len(b.poses) + 1
                                  ELSE turn(b, k) = b
  <2>1. Len(b.poses) \in Nat /\ Len(b.poses) >= 1
    BY DEF BandRecords, Begun
  <2>2. CASE Len(b.poses) < m - 1
    <3> DEFINE dt == Planner!estimateDeltaT(Planner!BackPose(b), next(b))
    <3>1. Planner!BackPose(b) \in Int
      BY <2>1 DEF BandRecords, Planner!BackPose, Planner!Last
    <3>2. next(b) \in Int
      BY <3>1 DEF Planner!average
    <3>3. dt = Planner!Distance(Planner!BackPose(b), next(b)) /\ dt \in Int
      <4> HIDE DEF next
      <4> QED BY <3>1, <3>2 DEF Planner!estimateDeltaT, Planner!Distance
    <3> DEFINE c == Planner!addPoseAndTimeDiff(b, next(b), dt)
    <3>4. \A k \in 1 .. m : turn(b, k) = c
      BY <2>2 DEF Planner!sizePoses
    <3> HIDE DEF next, dt, turn
    <3>5. c \in BandRecords /\ Begun(c, s) /\ Timed(c) /\ Len(c.poses) = Len(b.poses) + 1
      BY <3>2, <3>3, PoseAdded
    <3> HIDE DEF c
    <3> QED BY <2>1, <2>2, <3>4, <3>5
  <2>3. CASE ~(Len(b.poses) < m - 1)
    BY <2>1, <2>3 DEF Planner!sizePoses
  <2> QED BY <2>2, <2>3
<1>3. b0 \in A
  OBVIOUS
<1> HIDE DEF turn, A
<1>4. turns \in [(1 .. m) \X A -> A] /\ \A k \in 1 .. m, b \in A : turns[<<k, b>>] = turn(b, k)
  BY <1>2
<1> HIDE DEF turns
<1>5. PICK g : IsRun(g, m, A, b0, turns)
  BY <1>3, <1>4, LoopRuns
<1>6. IsLoop(after)
  <2>1. \A k \in 1 .. m : g[k] = turn(g[k - 1], k)
    BY <1>4, <1>5 DEF IsRun
  <2>2. IsLoop(g)
    BY <1>5, <2>1 DEF IsRun
  <2> HIDE DEF IsLoop
  <2> QED BY <2>2
<1> HIDE DEF after
<1>7. after[0] = b0 /\ \A k \in 1 .. m : after[k] = turn(after[k - 1], k)
  BY <1>6
<1> HIDE DEF IsLoop
<1> DEFINE TooFar(k) == Len(after[k].poses) >= k \/ Len(after[k].poses) >= m - 1
           Good == {k \in 0 .. m : after[k] \in A /\ TooFar(k)}
<1>8. 0 \in Good
  <2>1. Len(b0.poses) >= 0
    BY <1>2, <1>3
  <2> QED BY <1>3, <1>7, <2>1
<1>9. ASSUME NEW k \in 1 .. m, k - 1 \in Good PROVE k \in Good
  <2> DEFINE b == after[k - 1]
  <2>1. b \in A /\ (Len(b.poses) >= k - 1 \/ Len(b.poses) >= m - 1) /\ after[k] = turn(b, k)
    BY <1>7, <1>9
  <2> HIDE DEF b
  <2>2. /\ turn(b, k) \in A /\ Len(b.poses) \in Nat
        /\ IF Len(b.poses) < m - 1 THEN Len(turn(b, k).poses) = Len(b.poses) + 1 ELSE turn(b, k) = b
    BY <1>2, <2>1
  <2>3. TooFar(k)
    BY <2>1, <2>2
  <2> QED BY <2>1, <2>2, <2>3
<1> HIDE DEF Good
<1>10. m \in Good
  BY <1>8, <1>9, LoopHolds
<1>11. after[m] \in A /\ TooFar(m)
  BY <1>10 DEF Good
<1>12. Len(after[m].poses) >= m - 1
  BY <1>2, <1>11
<1> QED BY <1>1, <1>11, <1>12 DEF A

\* The first sample of a band.
LEMMA FirstPose ==
  ASSUME NEW s \in Int
  PROVE  /\ Planner!addPose(Planner!NoBand, s) \in BandRecords
         /\ Begun(Planner!addPose(Planner!NoBand, s), s) /\ Timed(Planner!addPose(Planner!NoBand, s))
         /\ Planner!BackPose(Planner!addPose(Planner!NoBand, s)) = s
<1> DEFINE b == Planner!addPose(Planner!NoBand, s)
<1>1. b = [poses |-> <<s>>, dts |-> <<>>]
  <2>1. Append(<<>>, s) = <<s>>
    OBVIOUS
  <2> QED BY <2>1 DEF Planner!addPose, Planner!NoBand
<1> HIDE DEF b
<1>2. b.poses = <<s>> /\ b.dts = <<>> /\ Len(b.poses) = 1 /\ Len(b.dts) = 0
  BY <1>1
<1>3. b \in BandRecords
  BY <1>1 DEF BandRecords
<1> QED BY <1>2, <1>3 DEF b, Begun, Timed, Planner!BackPose, Planner!Last

\* The goal at the end of it.
LEMMA GoalHolds ==
  ASSUME NEW s \in Int, NEW b0 \in BandRecords, Begun(b0, s), Timed(b0), NEW end \in Int, NEW m \in Nat
  PROVE  /\ Planner!WithGoal(Planner!Filled(b0, end, m), end) \in BandRecords
         /\ Planner!InitSound(Planner!WithGoal(Planner!Filled(b0, end, m), end), s, end, m)
<1> DEFINE b == Planner!Filled(b0, end, m)
           dt == Planner!estimateDeltaT(Planner!BackPose(b), end)
           c == Planner!addPoseAndTimeDiff(b, end, dt)
<1>1. b \in BandRecords /\ Begun(b, s) /\ Timed(b) /\ Len(b.poses) >= m - 1
  BY FilledHolds
<1>2. Planner!WithGoal(b, end) = c
  BY DEF Planner!WithGoal
<1> HIDE DEF b
<1>3. Planner!BackPose(b) \in Int
  BY <1>1, PoseAdded
<1>4. dt = Planner!Distance(Planner!BackPose(b), end) /\ dt \in Int
  BY <1>3 DEF Planner!estimateDeltaT, Planner!Distance
<1> HIDE DEF dt
<1>5. /\ c \in BandRecords /\ Begun(c, s) /\ Timed(c) /\ Len(c.poses) = Len(b.poses) + 1
      /\ Planner!BackPose(c) = end
  BY <1>1, <1>4, PoseAdded
<1> HIDE DEF c
<1>6. Len(c.poses) \in Nat /\ Len(c.poses) >= m /\ Head(c.poses) = c.poses[1]
  <2>1. c.poses \in Seq(Int) /\ b.poses \in Seq(Int)
    BY <1>1, <1>5 DEF BandRecords
  <2>2. Len(c.poses) \in Nat /\ Len(c.poses) >= m
    BY <1>1, <1>5, <2>1
  <2> QED BY <2>2
<1>7. Planner!InitSound(c, s, end, m)
  <2>1. DOMAIN c.dts = 1 .. Len(c.dts) /\ c.poses \in Seq(Int) /\ Len(c.dts) \in Nat
    BY <1>5 DEF BandRecords
  <2>2. ASSUME NEW i \in DOMAIN c.dts PROVE c.dts[i] >= Planner!Distance(c.poses[i], c.poses[i + 1])
    <3>1. c.dts[i] = Planner!Distance(c.poses[i], c.poses[i + 1])
      BY <1>5, <2>1 DEF Timed
    <3>2. i \in DOMAIN c.poses /\ i + 1 \in DOMAIN c.poses
      BY <1>5, <2>1 DEF Begun
    <3>3. c.poses[i] \in Int /\ c.poses[i + 1] \in Int
      BY <2>1, <3>2
    <3>4. Planner!Distance(c.poses[i], c.poses[i + 1]) \in Int
      BY <3>3 DEF Planner!Distance
    <3> QED BY <3>1, <3>4
  <2> QED BY <1>5, <1>6, <2>2
          DEF Begun, Planner!InitSound, Planner!WellFormed, Planner!sizePoses, Planner!sizeTimeDiffs
<1> QED BY <1>2, <1>5, <1>7 DEF b

\* Every plan of poses makes a band with enough samples, from its first pose to its last, on none of
\* whose ways the robot is faster than it can be (TimedElasticBand::initTrajectoryToGoal with a plan).
THEOREM PlanMakesBand ==
  ASSUME NEW path \in Seq(Int), path # <<>>, NEW m \in Nat
  PROVE  /\ Planner!InitFromPlan(path, m) \in BandRecords
         /\ Planner!InitSound(Planner!InitFromPlan(path, m), path[1], path[Len(path)], m)
<1> DEFINE L == Len(path)
           s == path[1]
           base0 == Planner!addPose(Planner!NoBand, s)
           turn(b, i) ==
             IF i \in 2 .. (L - 1)
             THEN Planner!addPoseAndTimeDiff(b, path[i], Planner!estimateDeltaT(Planner!BackPose(b), path[i]))
             ELSE b
           IsLoop(g) == g = [k \in 0 .. L |-> IF k = 0 THEN base0 ELSE turn(g[k - 1], k)]
           after == CHOOSE g : IsLoop(g)
           A == {b \in BandRecords : Begun(b, s) /\ Timed(b)}
           turns == [p \in (1 .. L) \X A |-> turn(p[2], p[1])]
<1>1. L \in Nat /\ s \in Int /\ path[L] \in Int /\ Head(path) = s /\ Planner!Last(path) = path[L]
  <2>1. L \in Nat \ {0}
    BY EmptySeq
  <2>2. 1 \in 1 .. L /\ L \in 1 .. L
    BY <2>1
  <2>3. s \in Int /\ path[L] \in Int
    BY <2>2, ElementOfSeq
  <2> QED BY <2>1, <2>3 DEF Planner!Last
<1>2. Planner!InitFromPlan(path, m) = Planner!WithGoal(Planner!Filled(after[L], path[L], m), path[L])
  BY <1>1 DEF Planner!InitFromPlan, Planner!Walk
<1>3. ASSUME NEW b \in A, NEW i \in 1 .. L PROVE turn(b, i) \in A
  <2>1. CASE i \in 2 .. (L - 1)
    <3> DEFINE dt == Planner!estimateDeltaT(Planner!BackPose(b), path[i])
               c == Planner!addPoseAndTimeDiff(b, path[i], dt)
    <3>1. path[i] \in Int
      BY ElementOfSeq
    <3>2. Planner!BackPose(b) \in Int
      BY PoseAdded
    <3>3. dt = Planner!Distance(Planner!BackPose(b), path[i]) /\ dt \in Int
      BY <3>1, <3>2 DEF Planner!estimateDeltaT, Planner!Distance
    <3>4. turn(b, i) = c
      BY <2>1
    <3> HIDE DEF dt, turn
    <3>5. c \in BandRecords /\ Begun(c, s) /\ Timed(c)
      BY <3>1, <3>3, PoseAdded
    <3> QED BY <3>4, <3>5
  <2>2. CASE ~(i \in 2 .. (L - 1))
    BY <2>2
  <2> QED BY <2>1, <2>2
<1>4. base0 \in A
  BY <1>1, FirstPose
<1> HIDE DEF turn, A, base0, L
<1>5. turns \in [(1 .. L) \X A -> A] /\ \A k \in 1 .. L, b \in A : turns[<<k, b>>] = turn(b, k)
  BY <1>3
<1> HIDE DEF turns
<1>6. PICK g : IsRun(g, L, A, base0, turns)
  BY <1>1, <1>4, <1>5, LoopRuns
<1>7. IsLoop(after)
  <2>1. \A k \in 1 .. L : g[k] = turn(g[k - 1], k)
    BY <1>5, <1>6 DEF IsRun
  <2>2. IsLoop(g)
    BY <1>1, <1>6, <2>1 DEF IsRun
  <2> HIDE DEF IsLoop
  <2> QED BY <2>2
<1> HIDE DEF after
<1>8. after[0] = base0 /\ \A k \in 1 .. L : after[k] = turn(after[k - 1], k)
  BY <1>1, <1>7
<1> HIDE DEF IsLoop
<1> DEFINE Good == {k \in 0 .. L : after[k] \in A}
<1>9. L \in Nat /\ 0 \in Good /\ \A k \in 1 .. L : k - 1 \in Good => k \in Good
  BY <1>1, <1>3, <1>4, <1>8
<1>10. after[L] \in A
  <2> HIDE DEF Good
  <2>1. 0 .. L \subseteq Good
    BY <1>9, LoopHolds
  <2>2. L \in 0 .. L
    BY <1>9
  <2> QED BY <2>1, <2>2 DEF Good
<1> HIDE DEF s
<1>11. after[L] \in BandRecords /\ Begun(after[L], s) /\ Timed(after[L])
  BY <1>10 DEF A
<1>12. /\ Planner!WithGoal(Planner!Filled(after[L], path[L], m), path[L]) \in BandRecords
       /\ Planner!InitSound(Planner!WithGoal(Planner!Filled(after[L], path[L], m), path[L]), s, path[L], m)
  BY <1>1, <1>11, GoalHolds
<1> QED BY <1>2, <1>12 DEF s, L

\* So does every step from a start to a goal, none included, which leaves out the one that ends on
\* the goal (TimedElasticBand::initTrajectoryToGoal with a start and a goal).
THEOREM StepsMakeBand ==
  ASSUME NEW s \in Int, NEW end \in Int, NEW diststep \in Nat, NEW m \in Nat
  PROVE  /\ Planner!InitToGoal(s, end, diststep, m) \in BandRecords
         /\ Planner!InitSound(Planner!InitToGoal(s, end, diststep, m), s, end, m)
<1> DEFINE way == Planner!Distance(s, end)
           whole == IF diststep = 0 THEN 0 ELSE way \div diststep
           L == IF diststep # 0 /\ way % diststep = 0 /\ whole > 0 THEN whole - 1 ELSE whole
           At(i) == IF end < s THEN s - i * diststep ELSE s + i * diststep
           base0 == Planner!addPose(Planner!NoBand, s)
           turn(b, i) == Planner!addPoseAndTimeDiff(b, At(i), diststep)
           IsLoop(g) == g = [k \in 0 .. L |-> IF k = 0 THEN base0 ELSE turn(g[k - 1], k)]
           after == CHOOSE g : IsLoop(g)
           A == {b \in BandRecords : Begun(b, s)}
           turns == [p \in (1 .. L) \X A |-> turn(p[2], p[1])]
<1>1. Planner!InitToGoal(s, end, diststep, m) = Planner!WithGoal(Planner!Filled(after[L], end, m), end)
  BY DEF Planner!InitToGoal, Planner!Walk
<1>2. L \in Nat
  <2>1. way \in Nat
    BY DEF Planner!Distance
  <2> HIDE DEF way
  <2>2. diststep # 0 => way \div diststep \in Nat
    BY <2>1
  <2> QED BY <2>2
<1>3. ASSUME NEW i \in 0 .. L PROVE At(i) \in Int
  <2>1. i * diststep \in Int
    BY <1>2
  <2> QED BY <2>1
<1>4. ASSUME NEW i \in 1 .. L PROVE Planner!Distance(At(i - 1), At(i)) = diststep
  <2>1. i * diststep \in Int /\ (i - 1) * diststep \in Int /\ i * diststep - (i - 1) * diststep = diststep
    <3>1. i \in Int /\ diststep \in Int
      BY <1>2
    <3>2. i * diststep \in Int /\ (i - 1) * diststep \in Int
      BY <3>1
    <3>3. \A x, y \in Int : x * y - (x - 1) * y = y
      OBVIOUS
    <3> QED BY <3>1, <3>2, <3>3
  <2>2. \A u, v \in Int : /\ v - u = diststep => Planner!Distance(s + u, s + v) = diststep
                          /\ v - u = diststep => Planner!Distance(s - u, s - v) = diststep
    BY DEF Planner!Distance
  <2> HIDE DEF L
  <2> QED BY <2>1, <2>2
<1>5. At(0) = s
  <2>1. 0 * diststep = 0
    OBVIOUS
  <2> QED BY <2>1
<1> HIDE DEF At
<1>6. ASSUME NEW b \in A, NEW i \in 1 .. L
      PROVE  /\ turn(b, i) \in A /\ Planner!BackPose(turn(b, i)) = At(i)
             /\ Timed(b) /\ Planner!BackPose(b) = At(i - 1) => Timed(turn(b, i))
  <2>1. At(i) \in Int /\ Planner!Distance(At(i - 1), At(i)) = diststep
    BY <1>2, <1>3, <1>4
  <2>2. /\ Planner!addPoseAndTimeDiff(b, At(i), diststep) \in BandRecords
        /\ Begun(Planner!addPoseAndTimeDiff(b, At(i), diststep), s)
        /\ Planner!BackPose(Planner!addPoseAndTimeDiff(b, At(i), diststep)) = At(i)
        /\ Timed(b) /\ diststep = Planner!Distance(Planner!BackPose(b), At(i)) =>
             Timed(Planner!addPoseAndTimeDiff(b, At(i), diststep))
    <3>1. diststep \in Int
      OBVIOUS
    <3> QED BY <2>1, <3>1, PoseAdded
  <2> QED BY <2>1, <2>2
<1>7. base0 \in A /\ Timed(base0) /\ Planner!BackPose(base0) = At(0)
  BY <1>5, FirstPose
<1> HIDE DEF turn, A, base0, L
<1>8. turns \in [(1 .. L) \X A -> A] /\ \A k \in 1 .. L, b \in A : turns[<<k, b>>] = turn(b, k)
  BY <1>6
<1> HIDE DEF turns
<1>9. PICK g : IsRun(g, L, A, base0, turns)
  BY <1>2, <1>7, <1>8, LoopRuns
<1>10. IsLoop(after)
  <2>1. \A k \in 1 .. L : g[k] = turn(g[k - 1], k)
    BY <1>8, <1>9 DEF IsRun
  <2>2. IsLoop(g)
    BY <1>2, <1>9, <2>1 DEF IsRun
  <2> HIDE DEF IsLoop
  <2> QED BY <2>2
<1> HIDE DEF after
<1>11. after[0] = base0 /\ \A k \in 1 .. L : after[k] = turn(after[k - 1], k)
  BY <1>2, <1>10
<1> HIDE DEF IsLoop
<1> DEFINE Good == {k \in 0 .. L : /\ after[k] \in A /\ Timed(after[k])
                                   /\ Planner!BackPose(after[k]) = At(k)}
<1>12. L \in Nat /\ 0 \in Good /\ \A k \in 1 .. L : k - 1 \in Good => k \in Good
  BY <1>2, <1>6, <1>7, <1>11
<1>13. after[L] \in A /\ Timed(after[L])
  <2> HIDE DEF Good
  <2>1. 0 .. L \subseteq Good
    BY <1>12, LoopHolds
  <2>2. L \in 0 .. L
    BY <1>12
  <2> QED BY <2>1, <2>2 DEF Good
<1>14. after[L] \in BandRecords /\ Begun(after[L], s) /\ Timed(after[L])
  BY <1>13 DEF A
<1>15. /\ Planner!WithGoal(Planner!Filled(after[L], end, m), end) \in BandRecords
       /\ Planner!InitSound(Planner!WithGoal(Planner!Filled(after[L], end, m), end), s, end, m)
  BY <1>14, GoalHolds
<1> QED BY <1>1, <1>15

-----------------------------------------------------------------------------
(* Resizing keeps the ends *)

\* A band from s to g with at least n samples.
IsBand(b, s, g, n) ==
  /\ b \in BandRecords /\ Len(b.poses) = Len(b.dts) + 1 /\ Len(b.poses) >= n
  /\ b.poses[1] = s /\ b.poses[Len(b.poses)] = g

LEMMA SplitHolds ==
  ASSUME NEW s, NEW g, NEW n \in Nat, NEW b, IsBand(b, s, g, n), NEW i \in 1 .. Len(b.dts)
  PROVE  /\ IsBand(Planner!Split(b, i), s, g, n)
         /\ Len(Planner!Split(b, i).dts) = Len(b.dts) + 1
<1> DEFINE p == b.poses
           d == b.dts
           half == d[i] \div 2
           mid == Planner!average(p[i], p[i + 1])
           d1 == Planner!ReplaceAt(d, i, half)
           q == Planner!InsertAt(p, i + 1, mid)
           e == Planner!InsertAt(d1, i + 1, half)
<1>1. /\ p \in Seq(Int) /\ d \in Seq(Int) /\ Len(p) = Len(d) + 1 /\ Len(p) >= n /\ Len(d) \in Nat
      /\ p[1] = s /\ p[Len(p)] = g /\ i \in 1 .. Len(d) /\ i + 1 \in 1 .. Len(d) + 1
      /\ i + 1 \in 1 .. Len(p) + 1
  <2>1. /\ p \in Seq(Int) /\ d \in Seq(Int) /\ Len(p) = Len(d) + 1 /\ Len(p) >= n
        /\ p[1] = s /\ p[Len(p)] = g
    BY DEF IsBand, BandRecords
  <2>2. Len(d) \in Nat
    BY <2>1
  <2> QED BY <2>1, <2>2
<1>2. Planner!Split(b, i) = [poses |-> q, dts |-> e]
  BY DEF Planner!Split
<1> HIDE DEF p, d
<1>3. d[i] \in Int /\ p[i] \in Int /\ p[i + 1] \in Int
  BY <1>1
<1>4. half \in Int /\ mid \in Int
  BY <1>3 DEF Planner!average
<1> HIDE DEF half, mid
<1>5. d1 \in Seq(Int) /\ Len(d1) = Len(d)
  BY <1>1, <1>4, ExceptSeq DEF Planner!ReplaceAt
<1> HIDE DEF d1
<1>6. /\ q \in Seq(Int) /\ Len(q) = Len(p) + 1
      /\ \A j \in 1 .. Len(p) + 1 : q[j] = IF j < i + 1 THEN p[j] ELSE IF j = i + 1 THEN mid ELSE p[j - 1]
  <2>1. p \in Seq(Int) /\ i + 1 \in 1 .. Len(p) + 1 /\ mid \in Int
    BY <1>1, <1>4
  <2> DEFINE k == i + 1
  <2> HIDE DEF k
  <2>2. k \in 1 .. Len(p) + 1
    BY <2>1 DEF k
  <2>3. /\ Planner!InsertAt(p, k, mid) \in Seq(Int) /\ Len(Planner!InsertAt(p, k, mid)) = Len(p) + 1
        /\ Inserted(Planner!InsertAt(p, k, mid), p, k, mid)
    BY <2>1, <2>2, InsertIs
  <2> QED BY <2>3 DEF k, Inserted
<1>7. e \in Seq(Int) /\ Len(e) = Len(d) + 1
  <2> DEFINE k == i + 1
  <2>1. d1 \in Seq(Int) /\ k \in 1 .. Len(d1) + 1 /\ half \in Int
    BY <1>1, <1>4, <1>5
  <2> HIDE DEF k
  <2>2. Planner!InsertAt(d1, k, half) \in Seq(Int) /\ Len(Planner!InsertAt(d1, k, half)) = Len(d1) + 1
    BY <2>1, InsertIs
  <2> QED BY <1>5, <2>2 DEF k
<1> HIDE DEF q, e
<1>8. q[1] = s /\ q[Len(q)] = g
  <2>1. /\ 1 \in 1 .. Len(p) + 1 /\ 1 < i + 1 /\ Len(q) \in 1 .. Len(p) + 1
        /\ ~(Len(q) < i + 1) /\ Len(q) # i + 1 /\ Len(q) - 1 = Len(p)
    <3>1. Len(q) = Len(p) + 1 /\ Len(p) = Len(d) + 1 /\ Len(d) \in Nat /\ i \in 1 .. Len(d)
      BY <1>1, <1>6
    <3> QED BY <3>1
  <2> QED BY <1>1, <1>6, <2>1
<1> DEFINE c == Planner!Split(b, i)
<1>9. c.poses = q /\ c.dts = e /\ c \in BandRecords
  BY <1>2, <1>6, <1>7 DEF BandRecords
<1> HIDE DEF c
<1>10. Len(q) = Len(e) + 1 /\ Len(q) >= n
  <2>1. Len(q) = Len(p) + 1 /\ Len(p) = Len(d) + 1 /\ Len(d) \in Nat /\ Len(p) >= n /\ Len(e) = Len(d) + 1
    BY <1>1, <1>6, <1>7
  <2> QED BY <2>1
<1>11. IsBand(c, s, g, n)
  BY <1>8, <1>9, <1>10 DEF IsBand
<1> QED BY <1>7, <1>9, <1>11 DEF c, d

LEMMA MergedHolds ==
  ASSUME NEW s, NEW g, NEW n \in Nat, n > 1, NEW b, IsBand(b, s, g, n), NEW i \in 1 .. Len(b.dts),
         Len(b.dts) > n
  PROVE  /\ IsBand(Planner!Merged(b, i), s, g, n)
         /\ Len(Planner!Merged(b, i).dts) = Len(b.dts) - 1
<1> DEFINE p == b.poses
           d == b.dts
<1>1. /\ p \in Seq(Int) /\ d \in Seq(Int) /\ Len(p) = Len(d) + 1 /\ Len(d) > n /\ Len(d) \in Nat
      /\ p[1] = s /\ p[Len(p)] = g /\ i \in 1 .. Len(d)
  <2>1. /\ p \in Seq(Int) /\ d \in Seq(Int) /\ Len(p) = Len(d) + 1
        /\ p[1] = s /\ p[Len(p)] = g
    BY DEF IsBand, BandRecords
  <2>2. Len(d) \in Nat
    BY <2>1
  <2> QED BY <2>1, <2>2
<1>2. ASSUME NEW x \in 2 .. Len(d), NEW y \in 1 .. Len(d), NEW z \in 1 .. Len(d), NEW w \in Int,
             Planner!Merged(b, i) = [poses |-> Planner!RemoveAt(p, x),
                                     dts |-> Planner!RemoveAt(Planner!ReplaceAt(d, y, w), z)]
      PROVE  IsBand(Planner!Merged(b, i), s, g, n) /\ Len(Planner!Merged(b, i).dts) = Len(b.dts) - 1
  <2> DEFINE d1 == Planner!ReplaceAt(d, y, w)
             q == Planner!RemoveAt(p, x)
             e == Planner!RemoveAt(d1, z)
             c == Planner!Merged(b, i)
  <2>1. c.poses = q /\ c.dts = e /\ c = [poses |-> q, dts |-> e]
    BY <1>2
  <2> HIDE DEF p, d, c
  <2>2. d1 \in Seq(Int) /\ Len(d1) = Len(d)
    BY <1>1, ExceptSeq DEF Planner!ReplaceAt
  <2> HIDE DEF d1
  <2>3. x \in 1 .. Len(p)
    BY <1>1
  <2>4. /\ q \in Seq(Int) /\ Len(q) = Len(p) - 1
        /\ \A j \in 1 .. Len(p) - 1 : q[j] = IF j < x THEN p[j] ELSE p[j + 1]
    BY <1>1, <2>3, RemoveIs
  <2>5. e \in Seq(Int) /\ Len(e) = Len(d) - 1
    BY <1>1, <2>2, RemoveIs
  <2> HIDE DEF q, e
  <2>6. q[1] = s /\ q[Len(q)] = g
    <3>1. 1 \in 1 .. Len(p) - 1 /\ 1 < x /\ Len(q) \in 1 .. Len(p) - 1 /\ ~(Len(q) < x) /\ Len(q) + 1 = Len(p)
      <4>1. Len(q) = Len(p) - 1 /\ Len(p) = Len(d) + 1 /\ Len(d) \in Nat /\ Len(d) > n
        BY <1>1, <2>4
      <4> QED BY <4>1
    <3> QED BY <1>1, <2>4, <3>1
  <2>7. IsBand(c, s, g, n)
    BY <1>1, <2>1, <2>4, <2>5, <2>6 DEF IsBand, BandRecords
  <2> QED BY <2>1, <2>5, <2>7 DEF c, d
<1>3. \A j \in 1 .. Len(d) : d[j] \in Int
  BY <1>1
<1>4. CASE i < Len(d)
  <2>1. i + 1 \in 2 .. Len(d) /\ i + 1 \in 1 .. Len(d) /\ i \in 1 .. Len(d)
    <3>1. Len(d) \in Nat /\ i \in 1 .. Len(d)
      BY <1>1
    <3> HIDE DEF d
    <3> QED BY <1>4, <3>1
  <2>2. d[i + 1] + d[i] \in Int
    BY <1>3, <2>1
  <2>3. Planner!Merged(b, i) =
          [poses |-> Planner!RemoveAt(p, i + 1),
           dts |-> Planner!RemoveAt(Planner!ReplaceAt(d, i + 1, d[i + 1] + d[i]), i)]
    BY <1>4 DEF Planner!Merged, Planner!sizeTimeDiffs
  <2> QED BY <1>2, <2>1, <2>2, <2>3
<1>5. CASE i = Len(d)
  <2>1. i \in 2 .. Len(d) /\ i - 1 \in 1 .. Len(d) /\ i \in 1 .. Len(d)
    <3>1. Len(d) \in Nat /\ i = Len(d) /\ Len(d) > n
      BY <1>1, <1>5
    <3> HIDE DEF d
    <3> QED BY <3>1
  <2>2. d[i - 1] + d[i] \in Int
    BY <1>3, <2>1
  <2>3. Planner!Merged(b, i) =
          [poses |-> Planner!RemoveAt(p, i),
           dts |-> Planner!RemoveAt(Planner!ReplaceAt(d, i - 1, d[i - 1] + d[i]), i)]
    BY <1>1, <1>5 DEF Planner!Merged, Planner!sizeTimeDiffs
  <2> QED BY <1>2, <2>1, <2>2, <2>3
<1> QED BY <1>1, <1>4, <1>5

LEMMA WalkedHolds ==
  ASSUME NEW s, NEW g, NEW n \in Nat, n > 1, NEW M \in Nat, NEW lim, NEW most \in Nat, M <= most,
         NEW b0, IsBand(b0, s, g, n), Len(b0.dts) <= most
  PROVE  /\ IsBand(Planner!Walked(b0, lim, n, M), s, g, n)
         /\ Len(Planner!Walked(b0, lim, n, M).dts) <= most
<1> DEFINE long(b, i) == b.dts[i] > lim.ref + lim.hysteresis
           short(b, i) == b.dts[i] < lim.ref - lim.hysteresis
           turn(b, i) ==
             IF i > Planner!sizeTimeDiffs(b) THEN b
             ELSE IF long(b, i) /\ Planner!sizeTimeDiffs(b) < M THEN Planner!Split(b, i)
             ELSE IF short(b, i) /\ Planner!sizeTimeDiffs(b) > n THEN Planner!Merged(b, i)
             ELSE b
           L == Planner!sizeTimeDiffs(b0) + M
           IsLoop(h) == h = [k \in 0 .. L |-> IF k = 0 THEN b0 ELSE turn(h[k - 1], k)]
           after == CHOOSE h : IsLoop(h)
           A == {b \in BandRecords : IsBand(b, s, g, n) /\ Len(b.dts) <= most}
           turns == [p \in (1 .. L) \X A |-> turn(p[2], p[1])]
<1>1. Planner!Walked(b0, lim, n, M) = after[L]
  BY DEF Planner!Walked, Planner!Walk
<1>2. L \in Nat
  <2>1. b0.dts \in Seq(Int)
    BY DEF IsBand, BandRecords
  <2> QED BY <2>1 DEF Planner!sizeTimeDiffs
<1>3. ASSUME NEW b \in A, NEW i \in 1 .. L PROVE turn(b, i) \in A
  <2>1. IsBand(b, s, g, n) /\ Len(b.dts) <= most /\ Len(b.dts) \in Nat /\ i \in Nat /\ i >= 1
    BY <1>2 DEF BandRecords
  <2>2. Planner!sizeTimeDiffs(b) = Len(b.dts)
    BY DEF Planner!sizeTimeDiffs
  <2> HIDE DEF L, long, short
  <2>3. CASE i <= Len(b.dts) /\ long(b, i) /\ Len(b.dts) < M
    <3>1. turn(b, i) = Planner!Split(b, i)
      BY <2>1, <2>2, <2>3
    <3>2. i \in 1 .. Len(b.dts)
      BY <2>1, <2>3
    <3> HIDE DEF turn
    <3>3. IsBand(Planner!Split(b, i), s, g, n) /\ Len(Planner!Split(b, i).dts) = Len(b.dts) + 1
      BY <2>1, <3>2, SplitHolds
    <3>4. Len(Planner!Split(b, i).dts) <= most
      BY <2>1, <2>3, <3>3
    <3> QED BY <3>1, <3>3, <3>4 DEF IsBand
  <2>4. CASE /\ i <= Len(b.dts) /\ ~(long(b, i) /\ Len(b.dts) < M)
             /\ short(b, i) /\ Len(b.dts) > n
    <3>1. turn(b, i) = Planner!Merged(b, i)
      BY <2>1, <2>2, <2>4
    <3>2. i \in 1 .. Len(b.dts)
      BY <2>1, <2>4
    <3> HIDE DEF turn
    <3>3. IsBand(Planner!Merged(b, i), s, g, n) /\ Len(Planner!Merged(b, i).dts) = Len(b.dts) - 1
      BY <2>1, <2>4, <3>2, MergedHolds
    <3>4. Len(Planner!Merged(b, i).dts) <= most
      BY <2>1, <2>4, <3>3
    <3> QED BY <3>1, <3>3, <3>4 DEF IsBand
  <2>5. CASE \/ i > Len(b.dts)
             \/ ~(long(b, i) /\ Len(b.dts) < M) /\ ~(short(b, i) /\ Len(b.dts) > n)
    <3>1. turn(b, i) = b
      BY <2>1, <2>2, <2>5
    <3> HIDE DEF turn, A
    <3> QED BY <3>1
  <2> HIDE DEF turn, A
  <2> QED BY <2>1, <2>3, <2>4, <2>5
<1>4. b0 \in A
  BY DEF IsBand
<1> HIDE DEF turn, A, L
<1>5. turns \in [(1 .. L) \X A -> A] /\ \A k \in 1 .. L, b \in A : turns[<<k, b>>] = turn(b, k)
  BY <1>3
<1> HIDE DEF turns
<1>6. PICK h : IsRun(h, L, A, b0, turns)
  BY <1>2, <1>4, <1>5, LoopRuns
<1>7. IsLoop(after)
  <2>1. \A k \in 1 .. L : h[k] = turn(h[k - 1], k)
    BY <1>5, <1>6 DEF IsRun
  <2>2. IsLoop(h)
    BY <1>2, <1>6, <2>1 DEF IsRun
  <2> HIDE DEF IsLoop
  <2> QED BY <2>2
<1> HIDE DEF after
<1>8. after[0] = b0 /\ \A k \in 1 .. L : after[k] = turn(after[k - 1], k)
  BY <1>2, <1>7
<1> HIDE DEF IsLoop
<1> DEFINE Good == {k \in 0 .. L : after[k] \in A}
<1>9. L \in Nat /\ 0 \in Good /\ \A k \in 1 .. L : k - 1 \in Good => k \in Good
  BY <1>2, <1>3, <1>4, <1>8
<1>10. after[L] \in A
  <2> HIDE DEF Good
  <2>1. 0 .. L \subseteq Good
    BY <1>9, LoopHolds
  <2>2. L \in 0 .. L
    BY <1>9
  <2> QED BY <2>1, <2>2 DEF Good
<1> QED BY <1>1, <1>10 DEF A

\* However long and short its times are, resizing keeps the ends of a band, a time for each of its
\* ways and the least number of samples, and it lets the band grow no longer than the greatest
\* number of samples or than it was (TimedElasticBand::autoResize).
THEOREM ResizingKeepsBand ==
  ASSUME NEW s, NEW g, NEW n \in Nat, n > 1, NEW M \in Nat, NEW lim, NEW most \in Nat, M <= most,
         NEW b0, IsBand(b0, s, g, n), Len(b0.dts) <= most, NEW fast \in BOOLEAN
  PROVE  /\ IsBand(Planner!autoResize(b0, lim, n, M, fast), s, g, n)
         /\ Len(Planner!autoResize(b0, lim, n, M, fast).dts) <= most
<1> DEFINE turn(p, rep) ==
             IF ~p.modified THEN p
             ELSE LET next == Planner!Walked(p.band, lim, n, M)
                  IN [band |-> next, modified |-> next # p.band]
           L == IF fast THEN 1 ELSE 100
           p0 == [band |-> b0, modified |-> TRUE]
           IsLoop(h) == h = [k \in 0 .. L |-> IF k = 0 THEN p0 ELSE turn(h[k - 1], k)]
           after == CHOOSE h : IsLoop(h)
           B == {b \in BandRecords : IsBand(b, s, g, n) /\ Len(b.dts) <= most}
           A == [band : B, modified : BOOLEAN]
           turns == [p \in (1 .. L) \X A |-> turn(p[2], p[1])]
<1>1. Planner!autoResize(b0, lim, n, M, fast) = after[L].band
  BY DEF Planner!autoResize, Planner!Walk
<1>2. L \in Nat
  OBVIOUS
<1>3. ASSUME NEW p \in A, NEW i \in 1 .. L PROVE turn(p, i) \in A
  <2>1. p.band \in B /\ p.modified \in BOOLEAN
    OBVIOUS
  <2>2. CASE ~p.modified
    BY <2>2
  <2>3. CASE p.modified
    <3> DEFINE next == Planner!Walked(p.band, lim, n, M)
    <3>1. turn(p, i) = [band |-> next, modified |-> next # p.band]
      BY <2>3
    <3>2. IsBand(p.band, s, g, n) /\ Len(p.band.dts) <= most
      BY <2>1
    <3> HIDE DEF turn, B
    <3>3. IsBand(next, s, g, n) /\ Len(next.dts) <= most
      BY <3>2, WalkedHolds
    <3> HIDE DEF next
    <3>4. next \in B /\ (next # p.band) \in BOOLEAN
      BY <3>3 DEF IsBand, B
    <3> QED BY <3>1, <3>4
  <2> QED BY <2>1, <2>2, <2>3
<1>4. p0 \in A
  <2>1. b0 \in B
    BY DEF IsBand
  <2> QED BY <2>1
<1> HIDE DEF turn, A, L, p0
<1>5. turns \in [(1 .. L) \X A -> A] /\ \A k \in 1 .. L, b \in A : turns[<<k, b>>] = turn(b, k)
  BY <1>3
<1> HIDE DEF turns
<1>6. PICK h : IsRun(h, L, A, p0, turns)
  BY <1>2, <1>4, <1>5, LoopRuns
<1>7. IsLoop(after)
  <2>1. \A k \in 1 .. L : h[k] = turn(h[k - 1], k)
    BY <1>5, <1>6 DEF IsRun
  <2>2. IsLoop(h)
    BY <1>2, <1>6, <2>1 DEF IsRun
  <2> HIDE DEF IsLoop
  <2> QED BY <2>2
<1> HIDE DEF after
<1>8. after[0] = p0 /\ \A k \in 1 .. L : after[k] = turn(after[k - 1], k)
  BY <1>2, <1>7
<1> HIDE DEF IsLoop
<1> DEFINE Good == {k \in 0 .. L : after[k] \in A}
<1>9. L \in Nat /\ 0 \in Good /\ \A k \in 1 .. L : k - 1 \in Good => k \in Good
  BY <1>2, <1>3, <1>4, <1>8
<1>10. after[L] \in A
  <2> HIDE DEF Good
  <2>1. 0 .. L \subseteq Good
    BY <1>9, LoopHolds
  <2>2. L \in 0 .. L
    BY <1>9
  <2> QED BY <2>1, <2>2 DEF Good
<1> QED BY <1>1, <1>10 DEF A

-----------------------------------------------------------------------------
(* Pruning keeps the rest *)

LEMMA HeadAndRest ==
  ASSUME NEW S, NEW s \in Seq(S), NEW k \in Nat, k + 2 <= Len(s)
  PROVE  /\ <<Head(s)>> \o SubSeq(s, k + 2, Len(s)) \in Seq(S)
         /\ Len(<<Head(s)>> \o SubSeq(s, k + 2, Len(s))) = Len(s) - k
         /\ \A i \in 2 .. Len(s) - k : (<<Head(s)>> \o SubSeq(s, k + 2, Len(s)))[i] = s[i + k]
<1> DEFINE a == <<Head(s)>>
           b == SubSeq(s, k + 2, Len(s))
           t == a \o b
<1>1. Len(s) \in Nat /\ \A j \in 1 .. Len(s) : s[j] \in S
  OBVIOUS
<1>2. a \in Seq(S) /\ Len(a) = 1
  <2>1. s # <<>>
    BY <1>1
  <2>2. Head(s) \in S
    BY <2>1, HeadTailProperties
  <2> QED BY <2>2
<1>3. b \in Seq(S) /\ Len(b) = Len(s) - k - 1 /\ \A j \in 1 .. Len(s) - k - 1 : b[j] = s[k + 1 + j]
  <2>1. \A j \in k + 2 .. Len(s) : s[j] \in S
    BY <1>1
  <2>2. /\ b \in Seq(S) /\ Len(b) = IF k + 2 <= Len(s) THEN Len(s) - (k + 2) + 1 ELSE 0
        /\ \A j \in 1 .. Len(s) - (k + 2) + 1 : b[j] = s[k + 2 + j - 1]
    BY <1>1, <2>1, SubSeqProperties
  <2> HIDE DEF b
  <2> QED BY <1>1, <2>2
<1> HIDE DEF a, b
<1>4. /\ t \in Seq(S) /\ Len(t) = Len(a) + Len(b)
      /\ \A j \in 1 .. Len(a) + Len(b) : t[j] = IF j <= Len(a) THEN a[j] ELSE b[j - Len(a)]
  BY <1>2, <1>3, ConcatProperties
<1> HIDE DEF t
<1>5. Len(t) = Len(s) - k
  BY <1>1, <1>2, <1>3, <1>4
<1>6. ASSUME NEW i \in 2 .. Len(s) - k PROVE t[i] = s[i + k]
  <2>1. i \in 1 .. Len(a) + Len(b) /\ ~(i <= Len(a)) /\ i - Len(a) = i - 1
    BY <1>1, <1>2, <1>3
  <2>2. i - 1 \in 1 .. Len(s) - k - 1 /\ k + 1 + (i - 1) = i + k
    BY <1>1
  <2>3. t[i] = b[i - 1]
    BY <1>4, <2>1
  <2> QED BY <1>3, <2>2, <2>3
<1> QED BY <1>4, <1>5, <1>6 DEF t, a, b

\* The poses of c between its ends are the last of those of b between its own.
RestOf(c, b) ==
  \E k \in Nat : /\ Len(c.poses) = Len(b.poses) - k
                 /\ \A i \in 2 .. Len(c.poses) - 1 : c.poses[i] = b.poses[i + k]

LEMMA PrunedHolds ==
  ASSUME NEW s0, NEW g0, NEW n \in Nat, n > 2, NEW b, IsBand(b, s0, g0, n), NEW s \in Int, NEW g \in Int
  PROVE  /\ IsBand(Planner!updateAndPruneTEB(b, s, g, n), s, g, n)
         /\ RestOf(Planner!updateAndPruneTEB(b, s, g, n), b)
<1> DEFINE p == b.poses
           d == b.dts
           k == Planner!NearestIdx(b, s, n)
           q == <<Head(p)>> \o SubSeq(p, k + 2, Len(p))
           e == <<Head(d)>> \o SubSeq(d, k + 2, Len(d))
           q1 == Planner!ReplaceAt(q, 1, s)
           q2 == Planner!ReplaceAt(q1, Len(q), g)
           c == Planner!updateAndPruneTEB(b, s, g, n)
<1>1. p \in Seq(Int) /\ d \in Seq(Int) /\ Len(p) = Len(d) + 1 /\ Len(p) >= n /\ Len(p) \in Nat
  <2>1. p \in Seq(Int) /\ d \in Seq(Int) /\ Len(p) = Len(d) + 1 /\ Len(p) >= n
    BY DEF IsBand, BandRecords
  <2>2. Len(p) \in Nat
    BY <2>1
  <2> QED BY <2>1, <2>2
<1>2. k \in Nat /\ k <= Len(p) - n
  <2> DEFINE T == {Len(p) - n, 10}
             look == Planner!Lookahead(b, n)
             D(i) == Planner!Distance(s, b.poses[i + 1])
             good == {m \in 0 .. look : \A i \in 1 .. m : D(i) < D(i - 1)}
  <2>1. look \in Nat /\ look <= Len(p) - n
    <3>1. T \subseteq Nat /\ T # {} /\ Len(p) - n \in T
      BY <1>1
    <3>2. look = Planner!Min(T)
      BY DEF Planner!Lookahead, Planner!sizePoses
    <3> HIDE DEF T
    <3>3. Planner!Min(T) \in T /\ \A y \in T : Planner!Min(T) <= y
      BY <3>1, MinIs
    <3> QED BY <3>1, <3>2, <3>3
  <2>2. k = IF good = {} THEN 0 ELSE Planner!Max(good)
    BY DEF Planner!NearestIdx
  <2>3. good \subseteq 0 .. look
    OBVIOUS
  <2> HIDE DEF good, look, k
  <2>4. good # {} => Planner!Max(good) \in good
    BY <2>1, <2>3, MaxIs
  <2>5. k \in 0 .. look
    BY <2>1, <2>2, <2>3, <2>4
  <2> QED BY <1>1, <2>1, <2>5
<1>3. c = [poses |-> q2, dts |-> e]
  <2>1. [[poses |-> q, dts |-> e] EXCEPT !.poses = Planner!ReplaceAt(Planner!ReplaceAt(@, 1, s), Len(@), g)]
          = [poses |-> q2, dts |-> e]
    <3> HIDE DEF q, e
    <3> QED OBVIOUS
  <2> QED BY <2>1 DEF Planner!updateAndPruneTEB, Planner!sizePoses, Planner!sizeTimeDiffs
<1> HIDE DEF k, p, d, c
<1>4. k + 2 <= Len(p) /\ k + 2 <= Len(d)
  BY <1>1, <1>2
<1>5. q \in Seq(Int) /\ Len(q) = Len(p) - k /\ \A i \in 2 .. Len(p) - k : q[i] = p[i + k]
  BY <1>1, <1>2, <1>4, HeadAndRest
<1>6. e \in Seq(Int) /\ Len(e) = Len(d) - k
  BY <1>1, <1>2, <1>4, HeadAndRest
<1> HIDE DEF q, e
<1>7. Len(q) \in Nat /\ Len(q) >= n /\ Len(q) = Len(e) + 1
  BY <1>1, <1>2, <1>5, <1>6
<1>8. q1 \in Seq(Int) /\ Len(q1) = Len(q) /\ \A j \in 1 .. Len(q) : q1[j] = IF j = 1 THEN s ELSE q[j]
  <2>1. 1 \in 1 .. Len(q)
    BY <1>7
  <2> QED BY <1>5, <2>1, ExceptSeq DEF Planner!ReplaceAt
<1> HIDE DEF q1
<1>9. q2 \in Seq(Int) /\ Len(q2) = Len(q) /\ \A j \in 1 .. Len(q) : q2[j] = IF j = Len(q) THEN g ELSE q1[j]
  <2>1. Len(q) \in 1 .. Len(q1)
    BY <1>7, <1>8
  <2> QED BY <1>8, <2>1, ExceptSeq DEF Planner!ReplaceAt
<1> HIDE DEF q2
<1>10. q2[1] = s /\ q2[Len(q2)] = g
  <2>1. 1 \in 1 .. Len(q) /\ Len(q) \in 1 .. Len(q) /\ 1 # Len(q)
    BY <1>7
  <2>2. q1[1] = s
    BY <1>8, <2>1
  <2>3. q2[1] = q1[1] /\ q2[Len(q)] = g
    BY <1>9, <2>1
  <2> QED BY <1>9, <2>2, <2>3
<1>11. \A i \in 2 .. Len(q2) - 1 : q2[i] = p[i + k]
  <2> TAKE i \in 2 .. Len(q2) - 1
  <2>1. i \in 1 .. Len(q) /\ i # Len(q) /\ i # 1 /\ i \in 2 .. Len(p) - k
    BY <1>5, <1>7, <1>9
  <2>2. q[i] = p[i + k]
    BY <1>5, <2>1
  <2>3. q2[i] = q1[i] /\ q1[i] = q[i]
    BY <1>8, <1>9, <2>1
  <2> QED BY <2>2, <2>3
<1>12. c.poses = q2 /\ c.dts = e /\ c \in BandRecords
  BY <1>3, <1>6, <1>9 DEF BandRecords
<1>13. IsBand(c, s, g, n)
  BY <1>7, <1>9, <1>10, <1>12 DEF IsBand
<1>14. RestOf(c, b)
  BY <1>2, <1>5, <1>9, <1>11, <1>12 DEF RestOf, p
<1> QED BY <1>13, <1>14 DEF c

\* So between the ends the new band has a suffix of the old one.
LEMMA RestIsSuffix ==
  ASSUME NEW b, NEW c, b.poses \in Seq(Int), c.poses \in Seq(Int), Len(c.poses) >= 2, RestOf(c, b)
  PROVE  Planner!IsSuffix(SubSeq(c.poses, 2, Len(c.poses) - 1), SubSeq(b.poses, 2, Len(b.poses) - 1))
<1> DEFINE p == b.poses
           q == c.poses
           old == SubSeq(p, 2, Len(p) - 1)
           new == SubSeq(q, 2, Len(q) - 1)
           r == Planner!Reverse(old)
           t == Planner!Reverse(new)
<1>1. PICK k \in Nat : Len(q) = Len(p) - k /\ \A i \in 2 .. Len(q) - 1 : q[i] = p[i + k]
  BY DEF RestOf
<1>2. p \in Seq(Int) /\ q \in Seq(Int) /\ Len(q) >= 2 /\ Len(q) \in Nat /\ Len(p) \in Nat
  OBVIOUS
<1> HIDE DEF p, q
<1>3. /\ old \in Seq(Int) /\ Len(old) = Len(p) - 2 /\ \A i \in 1 .. Len(p) - 2 : old[i] = p[i + 1]
  <2>1. \A i \in 2 .. Len(p) - 1 : p[i] \in Int
    BY <1>2
  <2>2. /\ old \in Seq(Int) /\ Len(old) = IF 2 <= Len(p) - 1 THEN Len(p) - 1 - 2 + 1 ELSE 0
        /\ \A i \in 1 .. Len(p) - 1 - 2 + 1 : old[i] = p[2 + i - 1]
    BY <1>2, <2>1, SubSeqProperties
  <2> HIDE DEF old
  <2>3. Len(p) >= 2
    BY <1>1, <1>2
  <2>4. Len(old) = Len(p) - 2
    <3>1. Len(old) = IF 2 <= Len(p) - 1 THEN Len(p) - 1 - 2 + 1 ELSE 0
      BY <2>2
    <3>2. \A x \in Nat : x >= 2 => (IF 2 <= x - 1 THEN x - 1 - 2 + 1 ELSE 0) = x - 2
      OBVIOUS
    <3>3. Len(p) \in Nat /\ Len(p) >= 2
      BY <1>2, <2>3
    <3> QED BY <3>1, <3>2, <3>3
  <2>5. ASSUME NEW i \in 1 .. Len(p) - 2 PROVE old[i] = p[i + 1]
    <3>1. i \in 1 .. Len(p) - 1 - 2 + 1 /\ 2 + i - 1 = i + 1
      BY <1>2
    <3> QED BY <2>2, <3>1
  <2> QED BY <2>2, <2>4, <2>5
<1>4. /\ new \in Seq(Int) /\ Len(new) = Len(q) - 2 /\ \A i \in 1 .. Len(q) - 2 : new[i] = q[i + 1]
  <2>1. \A i \in 2 .. Len(q) - 1 : q[i] \in Int
    BY <1>2
  <2>2. /\ new \in Seq(Int) /\ Len(new) = IF 2 <= Len(q) - 1 THEN Len(q) - 1 - 2 + 1 ELSE 0
        /\ \A i \in 1 .. Len(q) - 1 - 2 + 1 : new[i] = q[2 + i - 1]
    BY <1>2, <2>1, SubSeqProperties
  <2> HIDE DEF new
  <2>3. Len(new) = Len(q) - 2
    <3>1. Len(new) = IF 2 <= Len(q) - 1 THEN Len(q) - 1 - 2 + 1 ELSE 0
      BY <2>2
    <3>2. \A x \in Nat : x >= 2 => (IF 2 <= x - 1 THEN x - 1 - 2 + 1 ELSE 0) = x - 2
      OBVIOUS
    <3>3. Len(q) \in Nat /\ Len(q) >= 2
      BY <1>2
    <3> QED BY <3>1, <3>2, <3>3
  <2>4. ASSUME NEW i \in 1 .. Len(q) - 2 PROVE new[i] = q[i + 1]
    <3>1. i \in 1 .. Len(q) - 1 - 2 + 1 /\ 2 + i - 1 = i + 1
      BY <1>2
    <3> QED BY <2>2, <3>1
  <2> QED BY <2>2, <2>3, <2>4
<1> HIDE DEF old, new
<1>5. r = [i \in 1 .. Len(p) - 2 |-> old[Len(p) - 2 - i + 1]]
  BY <1>3 DEF Planner!Reverse
<1>6. t = [i \in 1 .. Len(q) - 2 |-> new[Len(q) - 2 - i + 1]]
  BY <1>4 DEF Planner!Reverse
<1> HIDE DEF r, t
<1>7. r \in Seq(Int) /\ Len(r) = Len(p) - 2
  <2>1. Len(p) - 2 \in Nat
    BY <1>1, <1>2
  <2>2. ASSUME NEW i \in 1 .. Len(p) - 2 PROVE old[Len(p) - 2 - i + 1] \in Int
    <3>1. Len(p) - 2 - i + 1 \in 1 .. Len(old)
      BY <1>2, <1>3
    <3> QED BY <1>3, <3>1, ElementOfSeq
  <2>3. r \in [1 .. Len(p) - 2 -> Int]
    BY <1>5, <2>2
  <2>4. r \in Seq(Int)
    BY <2>1, <2>3, FunctionIsSeq
  <2> QED BY <2>1, <2>3, <2>4
<1>8. t \in Seq(Int) /\ Len(t) = Len(q) - 2
  <2>1. Len(q) - 2 \in Nat
    BY <1>2
  <2>2. ASSUME NEW i \in 1 .. Len(q) - 2 PROVE new[Len(q) - 2 - i + 1] \in Int
    <3>1. Len(q) - 2 - i + 1 \in 1 .. Len(new)
      BY <1>2, <1>4
    <3> QED BY <1>4, <3>1, ElementOfSeq
  <2>3. t \in [1 .. Len(q) - 2 -> Int]
    BY <1>6, <2>2
  <2>4. t \in Seq(Int)
    BY <2>1, <2>3, FunctionIsSeq
  <2> QED BY <2>1, <2>3, <2>4
<1>9. ASSUME NEW i \in 1 .. Len(q) - 2 PROVE t[i] = r[i]
  <2> DEFINE j == Len(q) - 2 - i + 1
             l == Len(p) - 2 - i + 1
  <2>1. /\ j \in 1 .. Len(q) - 2 /\ l \in 1 .. Len(p) - 2 /\ i \in 1 .. Len(p) - 2
        /\ j + 1 \in 2 .. Len(q) - 1 /\ l + 1 = j + 1 + k
    BY <1>1, <1>2
  <2>2. t[i] = new[j] /\ r[i] = old[l]
    BY <1>5, <1>6, <2>1
  <2> HIDE DEF j, l
  <2>3. new[j] = q[j + 1] /\ old[l] = p[l + 1]
    BY <1>3, <1>4, <2>1
  <2> QED BY <1>1, <2>1, <2>2, <2>3
<1>10. SubSeq(t, 1, Len(t)) = SubSeq(r, 1, Len(t))
  <2> DEFINE u == SubSeq(t, 1, Len(t))
             v == SubSeq(r, 1, Len(t))
             m == Len(q) - 2
  <2>1. m \in Nat /\ Len(t) = m /\ m <= Len(r) /\ \A i \in 1 .. m : t[i] \in Int /\ r[i] \in Int /\ t[i] = r[i]
    <3>1. m \in Nat /\ Len(t) = m /\ m <= Len(r)
      BY <1>1, <1>2, <1>7, <1>8
    <3>2. ASSUME NEW i \in 1 .. m PROVE t[i] \in Int /\ r[i] \in Int /\ t[i] = r[i]
      <4>1. i \in 1 .. Len(t)
        BY <3>1
      <4>2. t[i] \in Int
        BY <1>8, <4>1, ElementOfSeq
      <4> QED BY <1>9, <4>2
    <3> QED BY <3>1, <3>2
  <2> HIDE DEF m
  <2>2. u \in Seq(Int) /\ Len(u) = m /\ \A i \in 1 .. m : u[i] = t[i]
    <3>1. /\ SubSeq(t, 1, m) \in Seq(Int) /\ Len(SubSeq(t, 1, m)) = IF 1 <= m THEN m - 1 + 1 ELSE 0
          /\ \A i \in 1 .. m - 1 + 1 : SubSeq(t, 1, m)[i] = t[1 + i - 1]
      BY <2>1, SubSeqProperties
    <3> HIDE DEF u
    <3>2. u = SubSeq(t, 1, m)
      BY <2>1 DEF u
    <3> QED BY <2>1, <3>1, <3>2
  <2>3. v \in Seq(Int) /\ Len(v) = m /\ \A i \in 1 .. m : v[i] = r[i]
    <3>1. /\ SubSeq(r, 1, m) \in Seq(Int) /\ Len(SubSeq(r, 1, m)) = IF 1 <= m THEN m - 1 + 1 ELSE 0
          /\ \A i \in 1 .. m - 1 + 1 : SubSeq(r, 1, m)[i] = r[1 + i - 1]
      BY <2>1, SubSeqProperties
    <3> HIDE DEF v
    <3>2. v = SubSeq(r, 1, m)
      BY <2>1 DEF v
    <3> QED BY <2>1, <3>1, <3>2
  <2> HIDE DEF u, v
  <2>4. u = v
    <3>1. Len(u) = Len(v) /\ \A i \in 1 .. Len(u) : u[i] = v[i]
      BY <2>1, <2>2, <2>3
    <3> QED BY <2>2, <2>3, <3>1, SeqEqual
  <2> QED BY <2>4 DEF u, v
<1>11. Len(t) <= Len(r)
  BY <1>1, <1>2, <1>7, <1>8
<1> QED BY <1>10, <1>11 DEF Planner!IsSuffix, Planner!IsPrefix, old, new, p, q, r, t

-----------------------------------------------------------------------------
(* The planner: what holds in every cycle *)

PlannerInv ==
  /\ band \in BandRecords /\ iteration \in Nat
  /\ outcome \in {"none", "running", "failed", "planned"}
  /\ iteration > 0 => outcome = "running"
  /\ band = Planner!NoBand \/ \E s, g : IsBand(band, s, g, MinSamples)
  /\ outcome \in {"running", "planned"} => IsBand(band, start, goal, MinSamples)

PlanSpec == Planner!PlanInit /\ [][Planner!PlanNext]_(Planner!planVars)

LEMMA ResizedHolds ==
  ASSUME NEW b, NEW s, NEW g, IsBand(b, s, g, MinSamples)
  PROVE  IsBand(Planner!autoResize(b, Planner!Limits, MinSamples, MaxSamples, Fast), s, g, MinSamples)
<1> DEFINE most == Len(b.dts) + MaxSamples
<1>1. b.dts \in Seq(Int)
  BY DEF IsBand, BandRecords
<1>2. Len(b.dts) \in Nat
  BY <1>1
<1>3. most \in Nat /\ MaxSamples <= most /\ Len(b.dts) <= most
  BY <1>2, PlannerAssumption
<1>4. MinSamples \in Nat /\ MinSamples > 1 /\ MaxSamples \in Nat /\ Fast \in BOOLEAN
  BY PlannerAssumption
<1> HIDE DEF most
<1> QED BY <1>3, <1>4, ResizingKeepsBand

\* A new time keeps the samples.
LEMMA TimedAnew ==
  ASSUME NEW b, NEW s, NEW g, IsBand(b, s, g, MinSamples), NEW i \in DOMAIN b.dts, NEW dt \in Int
  PROVE  IsBand([b EXCEPT !.dts[i] = dt], s, g, MinSamples)
<1> DEFINE e == [b.dts EXCEPT ![i] = dt]
           c == [b EXCEPT !.dts[i] = dt]
<1>1. /\ b.poses \in Seq(Int) /\ b.dts \in Seq(Int) /\ b = [poses |-> b.poses, dts |-> b.dts]
      /\ Len(b.poses) = Len(b.dts) + 1 /\ Len(b.poses) >= MinSamples
      /\ b.poses[1] = s /\ b.poses[Len(b.poses)] = g
  BY DEF IsBand, BandRecords
<1>2. c = [poses |-> b.poses, dts |-> e]
  <2> DEFINE p == b.poses
             d == b.dts
  <2>1. b = [poses |-> p, dts |-> d]
    BY <1>1
  <2> HIDE DEF p, d
  <2>2. [b EXCEPT !.dts[i] = dt] = [poses |-> p, dts |-> [d EXCEPT ![i] = dt]]
    BY <2>1
  <2> QED BY <2>2 DEF p, d
<1>3. e \in Seq(Int) /\ Len(e) = Len(b.dts)
  <2>1. i \in 1 .. Len(b.dts)
    BY <1>1
  <2> QED BY <1>1, <2>1, ExceptSeq
<1> HIDE DEF e, c
<1>4. c.poses = b.poses /\ c.dts = e /\ c \in BandRecords
  BY <1>1, <1>2, <1>3 DEF BandRecords
<1> QED BY <1>1, <1>3, <1>4 DEF IsBand, c

\* A free pose that is moved keeps them too.
LEMMA PoseAnew ==
  ASSUME NEW b, NEW s, NEW g, IsBand(b, s, g, MinSamples), NEW j \in 2 .. (Len(b.poses) - 1), NEW p \in Int
  PROVE  IsBand([b EXCEPT !.poses[j] = p], s, g, MinSamples)
<1> DEFINE e == [b.poses EXCEPT ![j] = p]
           c == [b EXCEPT !.poses[j] = p]
<1>1. /\ b \in BandRecords /\ b.poses \in Seq(Int) /\ Len(b.poses) \in Nat
      /\ b.poses[1] = s /\ b.poses[Len(b.poses)] = g
      /\ Len(b.poses) = Len(b.dts) + 1 /\ Len(b.poses) >= MinSamples
  BY DEF IsBand, BandRecords
<1>2. c.poses = e /\ c.dts = b.dts /\ c = [poses |-> e, dts |-> b.dts]
  <2>1. b = [poses |-> b.poses, dts |-> b.dts]
    BY <1>1 DEF BandRecords
  <2> QED BY <2>1
<1>3. e \in Seq(Int) /\ Len(e) = Len(b.poses)
  <2>1. j \in 1 .. Len(b.poses)
    BY <1>1
  <2> QED BY <1>1, <2>1, ExceptSeq
<1>4. e[1] = s /\ e[Len(b.poses)] = g
  <2>1. 1 \in DOMAIN b.poses /\ Len(b.poses) \in DOMAIN b.poses /\ j # 1 /\ j # Len(b.poses)
    BY <1>1
  <2> QED BY <1>1, <2>1
<1> HIDE DEF e, c
<1>5. c \in BandRecords
  BY <1>1, <1>2, <1>3 DEF BandRecords
<1> QED BY <1>1, <1>2, <1>3, <1>4, <1>5 DEF IsBand, c

LEMMA PlannerInit == Planner!PlanInit => PlannerInv
<1> SUFFICES ASSUME Planner!PlanInit PROVE PlannerInv
  OBVIOUS
<1>1. band = Planner!NoBand /\ iteration = 0 /\ outcome = "none"
  BY DEF Planner!PlanInit
<1>2. band \in BandRecords
  BY <1>1 DEF Planner!NoBand, BandRecords
<1> QED BY <1>1, <1>2 DEF PlannerInv

\* What a band is initialised with is one.
LEMMA InitialisedHolds ==
  ASSUME NEW s \in Int, NEW g \in Int, NEW b \in Planner!Initialised(s, g)
  PROVE  IsBand(b, s, g, MinSamples)
<1> DEFINE path == <<s, Planner!average(s, g), g>>
<1>1. MinSamples \in Nat /\ MinSamples > 2
  BY PlannerAssumption
<1>2. /\ b \in BandRecords /\ Planner!InitSound(b, s, g, MinSamples)
  <2>1. CASE b = Planner!InitFromPlan(path, MinSamples)
    <3>1. path \in Seq(Int) /\ path # <<>> /\ path[1] = s /\ Len(path) = 3 /\ path[3] = g
      <4>1. Planner!average(s, g) \in Int
        BY DEF Planner!average
      <4> QED BY <4>1
    <3> HIDE DEF path
    <3>2. /\ Planner!InitFromPlan(path, MinSamples) \in BandRecords
          /\ Planner!InitSound(Planner!InitFromPlan(path, MinSamples), path[1], path[Len(path)], MinSamples)
      BY <1>1, <3>1, PlanMakesBand
    <3> QED BY <2>1, <3>1, <3>2
  <2>2. CASE b = Planner!InitToGoal(s, g, 0, MinSamples)
    <3>1. 0 \in Nat
      OBVIOUS
    <3> QED BY <1>1, <2>2, <3>1, StepsMakeBand
  <2> QED BY <2>1, <2>2 DEF Planner!Initialised
<1>3. b.poses \in Seq(Int) /\ Len(b.poses) >= MinSamples /\ Len(b.poses) \in Nat
  <2>1. b.poses \in Seq(Int) /\ Len(b.poses) >= MinSamples
    BY <1>2 DEF BandRecords, Planner!InitSound, Planner!sizePoses
  <2> QED BY <2>1
<1>4. Head(b.poses) = b.poses[1]
  BY <1>1, <1>3
<1> QED BY <1>2, <1>3, <1>4
        DEF IsBand, Planner!InitSound, Planner!WellFormed, Planner!sizePoses, Planner!sizeTimeDiffs,
            Planner!BackPose, Planner!Last

\* A cycle starts with a band between its ends; one that is kept keeps its rest.
LEMMA PlanHolds ==
  ASSUME PlannerInv, Planner!plan
  PROVE  /\ PlannerInv'
         /\ Planner!isInit(band) /\ Planner!Distance(goal', Planner!BackPose(band)) < ReinitDist
              => RestOf(band', band)
<1>1. PICK s \in Starts, g \in Goals :
        /\ start' = s /\ goal' = g
        /\ \/ /\ Planner!isInit(band) /\ Planner!Distance(g, Planner!BackPose(band)) < ReinitDist
              /\ band' = Planner!updateAndPruneTEB(band, s, g, MinSamples)
           \/ /\ ~(Planner!isInit(band) /\ Planner!Distance(g, Planner!BackPose(band)) < ReinitDist)
              /\ band' \in Planner!Initialised(s, g)
  BY DEF Planner!plan
<1>2. iteration' = OuterIterations /\ outcome' = "running"
  BY DEF Planner!plan
<1>3. /\ s \in Int /\ g \in Int /\ OuterIterations \in Nat /\ MinSamples \in Nat /\ MinSamples > 2
  BY PlannerAssumption
<1>4. IsBand(band', s, g, MinSamples) /\ (Planner!isInit(band)
        /\ Planner!Distance(g, Planner!BackPose(band)) < ReinitDist => RestOf(band', band))
  <2>1. CASE /\ Planner!isInit(band) /\ Planner!Distance(g, Planner!BackPose(band)) < ReinitDist
             /\ band' = Planner!updateAndPruneTEB(band, s, g, MinSamples)
    <3>1. band # Planner!NoBand
      BY <2>1 DEF Planner!isInit, Planner!NoBand
    <3>2. PICK s0, g0 : IsBand(band, s0, g0, MinSamples)
      BY <3>1 DEF PlannerInv
    <3>3. /\ IsBand(Planner!updateAndPruneTEB(band, s, g, MinSamples), s, g, MinSamples)
          /\ RestOf(Planner!updateAndPruneTEB(band, s, g, MinSamples), band)
      BY <1>3, <3>2, PrunedHolds
    <3> QED BY <2>1, <3>3
  <2>2. CASE /\ ~(Planner!isInit(band) /\ Planner!Distance(g, Planner!BackPose(band)) < ReinitDist)
             /\ band' \in Planner!Initialised(s, g)
    <3>1. IsBand(band', s, g, MinSamples)
      BY <1>3, <2>2, InitialisedHolds
    <3> QED BY <2>2, <3>1
  <2> QED BY <1>1, <2>1, <2>2
<1>5. band' \in BandRecords
  BY <1>4 DEF IsBand
<1>6. PlannerInv'
  BY <1>1, <1>2, <1>3, <1>4, <1>5 DEF PlannerInv
<1> QED BY <1>1, <1>4, <1>6

LEMMA OptimizeHolds ==
  ASSUME PlannerInv, Planner!optimizeTEB
  PROVE  PlannerInv'
<1> DEFINE resized == Planner!autoResize(band, Planner!Limits, MinSamples, MaxSamples, Fast)
<1>1. /\ iteration \in Nat /\ iteration > 0 /\ start' = start /\ goal' = goal
      /\ IsBand(band, start, goal, MinSamples)
  BY DEF Planner!optimizeTEB, PlannerInv
<1>2. \/ Planner!sizePoses(resized) < MinSamples
      \/ /\ band' \in Planner!Improved(resized)
         /\ iteration' = iteration - 1
         /\ outcome' = IF iteration = 1 THEN "planned" ELSE "running"
      \/ band' \in {resized, band} /\ iteration' = 0 /\ outcome' = "failed"
  BY DEF Planner!optimizeTEB
<1>3. IsBand(resized, start, goal, MinSamples)
  BY <1>1, ResizedHolds
<1> HIDE DEF resized
<1>4. CASE Planner!sizePoses(resized) < MinSamples
  <2>1. resized.poses \in Seq(Int) /\ Len(resized.poses) >= MinSamples
    BY <1>3 DEF IsBand, BandRecords
  <2>2. ~(Len(resized.poses) < MinSamples)
    BY <2>1, PlannerAssumption
  <2> QED BY <1>4, <2>2 DEF Planner!sizePoses
<1>5. CASE /\ band' \in Planner!Improved(resized)
           /\ iteration' = iteration - 1
           /\ outcome' = IF iteration = 1 THEN "planned" ELSE "running"
  <2>1. ASSUME NEW i \in DOMAIN resized.dts, NEW dt \in Durations, band' = [resized EXCEPT !.dts[i] = dt]
        PROVE  IsBand(band', start, goal, MinSamples)
    <3>1. dt \in Int
      BY PlannerAssumption
    <3> QED BY <1>3, <2>1, <3>1, TimedAnew
  <2>2. ASSUME NEW j \in 2 .. (Len(resized.poses) - 1), NEW p \in Places,
               band' = [resized EXCEPT !.poses[j] = p]
        PROVE  IsBand(band', start, goal, MinSamples)
    <3>1. p \in Int
      BY PlannerAssumption
    <3> QED BY <1>3, <2>2, <3>1, PoseAnew
  <2>3. IsBand(band', start, goal, MinSamples)
    BY <1>5, <2>1, <2>2 DEF Planner!Improved, Planner!sizePoses
  <2>4. band' \in BandRecords
    BY <2>3 DEF IsBand
  <2>5. iteration' \in Nat /\ outcome' \in {"running", "planned"} /\ (iteration' > 0 => outcome' = "running")
    BY <1>1, <1>5
  <2>6. \E s, g : IsBand(band', s, g, MinSamples)
    BY <2>3
  <2>7. IsBand(band', start', goal', MinSamples)
    BY <1>1, <2>3
  <2> QED BY <2>4, <2>5, <2>6, <2>7 DEF PlannerInv
<1>6. CASE band' \in {resized, band} /\ iteration' = 0 /\ outcome' = "failed"
  <2>1. IsBand(band', start, goal, MinSamples) /\ 0 \in Nat /\ ~(0 > 0)
    BY <1>1, <1>3, <1>6
  <2>2. band' \in BandRecords
    BY <2>1 DEF IsBand
  <2> QED BY <1>6, <2>1, <2>2 DEF PlannerInv
<1> QED BY <1>2, <1>4, <1>5, <1>6

LEMMA PlannerStep ==
  PlannerInv /\ [Planner!PlanNext]_(Planner!planVars) =>
    /\ PlannerInv'
    /\ plans' # plans /\ Planner!isInit(band) /\ Planner!Distance(goal', Planner!BackPose(band)) < ReinitDist
         => Planner!IsSuffix(SubSeq(band'.poses, 2, Planner!sizePoses(band') - 1),
                             SubSeq(band.poses, 2, Planner!sizePoses(band) - 1))
<1> SUFFICES ASSUME PlannerInv, [Planner!PlanNext]_(Planner!planVars)
             PROVE  /\ PlannerInv'
                    /\ (plans' # plans /\ Planner!isInit(band)
                        /\ Planner!Distance(goal', Planner!BackPose(band)) < ReinitDist)
                         => Planner!IsSuffix(SubSeq(band'.poses, 2, Planner!sizePoses(band') - 1),
                                             SubSeq(band.poses, 2, Planner!sizePoses(band) - 1))
  OBVIOUS
<1>1. CASE Planner!plan
  <2>1. /\ PlannerInv'
        /\ Planner!isInit(band) /\ Planner!Distance(goal', Planner!BackPose(band)) < ReinitDist
             => RestOf(band', band)
    BY <1>1, PlanHolds
  <2>2. band.poses \in Seq(Int)
    BY DEF PlannerInv, BandRecords
  <2>3. band'.poses \in Seq(Int) /\ Len(band'.poses) >= 2
    <3>1. outcome' = "running"
      BY <1>1 DEF Planner!plan
    <3>2. band'.poses \in Seq(Int) /\ Len(band'.poses) >= MinSamples
      BY <2>1, <3>1 DEF PlannerInv, IsBand, BandRecords
    <3> QED BY <3>2, PlannerAssumption
  <2>4. RestOf(band', band) => Planner!IsSuffix(SubSeq(band'.poses, 2, Planner!sizePoses(band') - 1),
                                                SubSeq(band.poses, 2, Planner!sizePoses(band) - 1))
    BY <2>2, <2>3, RestIsSuffix DEF Planner!sizePoses
  <2> QED BY <2>1, <2>4
<1>2. CASE Planner!optimizeTEB
  BY <1>2, OptimizeHolds DEF Planner!optimizeTEB
<1>3. CASE Planner!clearPlanner
  <2>1. band' = Planner!NoBand /\ outcome' = "none" /\ iteration' = iteration /\ plans' = plans
        /\ outcome \in {"failed", "refused"}
    BY <1>3 DEF Planner!clearPlanner
  <2>2. iteration \in Nat /\ ~(iteration > 0)
    BY <2>1 DEF PlannerInv
  <2>3. Planner!NoBand \in BandRecords
    BY DEF Planner!NoBand, BandRecords
  <2> QED BY <2>1, <2>2, <2>3 DEF PlannerInv
<1>4. CASE UNCHANGED Planner!planVars
  BY <1>4 DEF Planner!planVars, PlannerInv
<1> QED BY <1>1, <1>2, <1>3, <1>4 DEF Planner!PlanNext

LEMMA PlannerAlways == PlanSpec => []PlannerInv
<1>1. PlannerInv /\ [Planner!PlanNext]_(Planner!planVars) => PlannerInv'
  BY PlannerStep
<1> QED BY <1>1, PlannerInit, PTL DEF PlanSpec

\* For every number of samples, times, robots' positions and goals and any number of cycles, failures
\* of the optimizer included: the band that is optimised has at least min_samples poses, and while a
\* cycle runs and when it has planned, the band leads from the robot to the goal of that cycle, with
\* a time for each way (TebOptimalPlanner::plan, optimizeTEB, TimedElasticBand).
THEOREM BandsAreSound == PlanSpec => []BandsSound
<1>1. PlannerInv => BandsSound
  <2> SUFFICES ASSUME PlannerInv PROVE BandsSound
    OBVIOUS
  <2>1. outcome # "refused"
    BY DEF PlannerInv
  <2>2. ASSUME outcome \in {"running", "planned"}
        PROVE  Planner!WellFormed(band) /\ Head(band.poses) = start /\ Planner!BackPose(band) = goal
    <3>1. IsBand(band, start, goal, MinSamples)
      BY <2>2 DEF PlannerInv
    <3>2. band.poses \in Seq(Int) /\ Len(band.poses) >= MinSamples
      BY <3>1 DEF IsBand, BandRecords
    <3>3. Head(band.poses) = band.poses[1]
      BY <3>2, PlannerAssumption
    <3> QED BY <3>1, <3>3 DEF IsBand, Planner!WellFormed, Planner!sizePoses, Planner!sizeTimeDiffs,
                              Planner!BackPose, Planner!Last
  <2> QED BY <2>1, <2>2 DEF BandsSound, Planner!NeverTooFewSamples, Planner!BandLeadsToGoal
<1> QED BY <1>1, PlannerAlways, PTL

\* A band that is kept for a new cycle loses poses at its beginning only
\* (TimedElasticBand::updateAndPruneTEB).
THEOREM WarmStartsKeepRest == PlanSpec => Planner!WarmStartKeepsRest
<1>1. PlannerInv /\ [Planner!PlanNext]_(Planner!planVars) =>
        [plans' # plans /\ Planner!isInit(band) /\ Planner!Distance(goal', Planner!BackPose(band)) < ReinitDist
           => Planner!IsSuffix(SubSeq(band'.poses, 2, Planner!sizePoses(band') - 1),
                               SubSeq(band.poses, 2, Planner!sizePoses(band) - 1))]_(Planner!planVars)
  BY PlannerStep
<1> QED BY <1>1, PlannerAlways, PTL DEF PlanSpec, Planner!WarmStartKeepsRest

\* The tracks stay in reach and the bands keep their rest, step by step, whatever the tracker and
\* the planner do (CTracker::Update, TimedElasticBand::updateAndPruneTEB).
THEOREM StepsAreSound == Tracker!DynamicSpec /\ PlanSpec => StepsSound
BY TracksStayInReach, WarmStartsKeepRest DEF StepsSound
=============================================================================
