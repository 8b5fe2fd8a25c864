--------------------------- MODULE LidarSyncProofs ---------------------------
(***************************************************************************)
(* Proofs about the buffers of laser_mapping, for every scan, every IMU    *)
(* message and every configuration: with the Livox driver a scan, or the   *)
(* slice or the combination made of it, keeps its stamp and its frame, the *)
(* filter never reads an empty deque, and, slices apart, it is asked to go *)
(* back in time only when scans overlap or the IMU's time does.            *)
(***************************************************************************)
EXTENDS LidarSync, SequenceTheorems, WellFoundedInduction, TLAPS

HasLast(S) == \E x \in S : \A y \in S : y <= x

\* Clouds of points, each with a time of its own and no earlier than the cloud.
SoundClouds == {c \in SUBSET (Nat \X Nat) : c = {} \/ HasLast(Curvatures(c))}

Positive == Nat \ {0}

MaxOffset == Largest({0} \cup UNION Clouds)

TypesInv ==
  /\ lidar_buffer \in Seq(SoundClouds) /\ time_buffer \in Seq(Positive)
  /\ lidar_frame_id_buffer \in Seq(FrameIds)
  /\ last_timestamp_lidar \in Int
  /\ con.frame_ct \in Nat /\ con.time_con \in Nat /\ con.ptr_con \in SoundClouds
  /\ con.frame_ct > 0 => 0 < con.time_con /\ con.time_con <= last_timestamp_lidar
  /\ con.frame_ct = 0 => con.ptr_con = {}
  /\ config.mode = "plain" => con.frame_ct = 0
  /\ imu_deque \in Seq(Positive) /\ last_timestamp_imu \in Int /\ imu_next \in Nat
  /\ time_predict_last \in Nat
  /\ stage \in {"imu_init", "map_init", "first", "run"}
  /\ hist \in [overlap : BOOLEAN, jump : BOOLEAN, back : BOOLEAN]

\* The three buffers go together, and a scan that was announced is the next one and has points.
AlignedInv ==
  /\ Len(time_buffer) = Len(lidar_buffer)
  /\ Len(lidar_frame_id_buffer) = Len(lidar_buffer)
  /\ lidar_pushed => lidar_buffer # <<>> /\ Head(lidar_buffer) # {} /\ meas = NextScan

\* The newest message of the deque is the one whose stamp was noted, unless the stamp was reset.
StampInv ==
  imu_deque # <<>> /\ last_timestamp_imu > 0 => imu_deque[Len(imu_deque)] = last_timestamp_imu

\* The times up to which there is something to predict: of the last prediction, and of the points
\* that wait.
Until(t) ==
  \/ t = time_predict_last
  \/ \E i \in 1 .. Len(lidar_buffer) : \E p \in lidar_buffer[i] : t = time_buffer[i] + p[1]

\* When scans do not overlap and are not sliced, what waits lies before what comes, in the buffer and in the cloud
\* being combined.
OrderInv ==
  config.mode # "cut" /\ ~hist.overlap =>
    /\ \A i, j \in 1 .. Len(lidar_buffer) : i < j =>
         \A p \in lidar_buffer[i] : time_buffer[i] + p[1] <= time_buffer[j]
    /\ \A i \in 1 .. Len(lidar_buffer) : time_predict_last <= time_buffer[i]
    /\ last_timestamp_lidar = -1 => lidar_buffer = <<>> /\ time_predict_last = 0
    /\ last_timestamp_lidar # -1 =>
         /\ last_timestamp_lidar > 0
         /\ \A t \in Nat : Until(t) => t <= last_timestamp_lidar + MaxOffset
         /\ \A p \in con.ptr_con : con.time_con + p[1] <= last_timestamp_lidar + MaxOffset
    /\ con.frame_ct > 0 =>
         /\ last_timestamp_lidar # -1
         /\ \A t \in Nat : Until(t) => t <= con.time_con

\* When the IMU's time does not jump, the messages are in order.
JumpInv ==
  ~hist.jump =>
    /\ \A i, j \in 1 .. Len(imu_deque) : i < j => imu_deque[i] <= imu_deque[j]
    /\ \A i \in 1 .. Len(imu_deque) : imu_next <= imu_deque[i]

\* The message the filter takes next is not before the time it has predicted to.
NextInv == stage = "run" /\ config.imu_en => time_predict_last <= imu_next

BackInv == hist.back => hist.overlap \/ hist.jump \/ config.mode = "cut"

\* With another driver no scan is ever taken, since no frame is put down for it.
OtherInv ==
  /\ lidar_frame_id_buffer = <<>>
  /\ hist \in [overlap : BOOLEAN, jump : BOOLEAN, back : BOOLEAN] /\ ~hist.back

IInv ==
  /\ config \in Configs
  /\ config.lidar = "livox" =>
       /\ TypesInv /\ AlignedInv /\ StampInv /\ OrderInv /\ JumpInv /\ NextInv /\ BackInv
       /\ ~starved
  /\ config.lidar # "livox" => OtherInv

-----------------------------------------------------------------------------
(* Sets of numbers and sequences of stamps *)

\* A set of natural numbers has a smallest member.  It is the least member by the well-founded
\* order of the naturals.
LEMMA HasSmallest ==
  ASSUME NEW T, T \subseteq Nat, T # {}
  PROVE  \E x \in T : \A y \in T : x <= y
<1>1. \E x \in T : \A y \in T : ~ (<<y, x>> \in OpToRel(<, Nat))
  BY NatLessThanWellFounded, WFMin
<1>2. \A x, y \in T : y < x => <<y, x>> \in OpToRel(<, Nat)
  BY DEF OpToRel
<1>3. \A x, y \in T : ~(y < x) => x <= y
  OBVIOUS
<1> QED BY <1>1, <1>2, <1>3

\* Induction, for a set: what holds of 0 and of the successor of whatever it holds of, holds up
\* to L.
LEMMA UpTo ==
  ASSUME NEW L \in Nat, NEW S, 0 \in S, \A i \in 0 .. L : i \in S /\ i < L => i + 1 \in S
  PROVE  0 .. L \subseteq S
<1>1. SUFFICES ASSUME (0 .. L) \ S # {} PROVE FALSE
  OBVIOUS
<1>2. PICK x \in (0 .. L) \ S : \A y \in (0 .. L) \ S : x <= y
  <2> DEFINE T == (0 .. L) \ S
  <2>1. T \subseteq Nat
    OBVIOUS
  <2> HIDE DEF T
  <2>2. T # {}
    BY <1>1 DEF T
  <2>3. \E x \in T : \A y \in T : x <= y
    BY <2>1, <2>2, HasSmallest
  <2> QED BY <2>3 DEF T
<1>3. x # 0 /\ x - 1 \in 0 .. L /\ x - 1 < L
  BY <1>2
<1>4. x - 1 \in S
  BY <1>2, <1>3
<1> QED BY <1>2, <1>3, <1>4

\* Smallest and Largest return what they are named for.
LEMMA SmallestIs ==
  ASSUME NEW T, T \subseteq Nat, T # {}
  PROVE  Smallest(T) \in T /\ \A y \in T : Smallest(T) <= y
BY HasSmallest DEF Smallest

LEMMA LargestIs ==
  ASSUME NEW T, HasLast(T)
  PROVE  Largest(T) \in T /\ \A y \in T : y <= Largest(T)
BY DEF Largest, HasLast

\* A bounded set of natural numbers has a largest member.
LEMMA BoundedHasLast ==
  ASSUME NEW T, T \subseteq Nat, T # {}, NEW b \in Nat, \A y \in T : y <= b
  PROVE  HasLast(T)
<1> DEFINE U == {b - y : y \in T}
<1>1. U \subseteq Nat /\ U # {}
  <2>1. \A y \in T : b - y \in Nat
    OBVIOUS
  <2>2. PICK y \in T : TRUE
    OBVIOUS
  <2> QED BY <2>1, <2>2
<1>2. PICK u \in U : \A v \in U : u <= v
  BY <1>1, HasSmallest
<1>3. PICK x \in T : u = b - x
  BY <1>2
<1>4. \A y \in T : y <= x
  BY <1>2, <1>3
<1> QED BY <1>4 DEF HasLast

\* The largest offset of all scans.
LEMMA MaxOffsetIs == MaxOffset \in Nat /\ \A o \in UNION Clouds : o <= MaxOffset
<1>1. {0} \cup UNION Clouds \subseteq Nat
  BY TimesAssumption
<1>2. PICK last \in {0} \cup UNION Clouds : \A o \in UNION Clouds : o <= last
  BY TimesAssumption
<1>3. last \in Nat
  BY <1>1, <1>2
<1>4. 0 <= last
  BY <1>3
<1>5. HasLast({0} \cup UNION Clouds)
  BY <1>2, <1>4 DEF HasLast
<1> QED BY <1>1, <1>5, LargestIs DEF MaxOffset

\* First returns the place of the first stamp that is not before t, or 0.
LEMMA FirstIs ==
  ASSUME NEW line \in Seq(Nat), NEW t \in Int
  PROVE  /\ First(line, t) \in 0 .. Len(line)
         /\ First(line, t) > 0 => line[First(line, t)] >= t
         /\ \A i \in 1 .. Len(line) : i < First(line, t) => line[i] < t
         /\ \A i \in 1 .. Len(line) : line[i] >= t => 0 < First(line, t) /\ First(line, t) <= i
<1> DEFINE I == {i \in 1 .. Len(line) : line[i] >= t}
<1>1. First(line, t) = IF I # {} THEN Min(I) ELSE 0
  BY DEF First, SelectInSeq
<1>2. Len(line) \in Nat /\ \A i \in 1 .. Len(line) : line[i] \in Nat
  BY LenProperties, ElementOfSeq
<1>3. CASE I = {}
  BY <1>1, <1>2, <1>3
<1>4. CASE I # {}
  <2>1. I \subseteq Nat
    BY <1>2
  <2>2. \E x \in I : \A y \in I : x <= y
    BY <1>4, <2>1, HasSmallest
  <2>3. Min(I) \in I /\ \A y \in I : Min(I) <= y
    BY <2>2 DEF Min
  <2>4. First(line, t) \in I /\ \A y \in I : First(line, t) <= y
    BY <1>1, <1>4, <2>3
  <2> QED BY <1>2, <2>4
<1> QED BY <1>3, <1>4

-----------------------------------------------------------------------------
(* The lidar callback *)

\* What the callback does to the buffers: nothing, or one more scan.
Arrives(c, b, id) ==
  /\ lidar_buffer' = Append(lidar_buffer, c)
  /\ time_buffer' = Append(time_buffer, b)
  /\ lidar_frame_id_buffer' = Append(lidar_frame_id_buffer, id)

\* What is not touched by a lidar callback.
RestUnchanged ==
  UNCHANGED <<config, imu_deque, last_timestamp_imu, imu_next, lidar_pushed, meas, filter, starved>>

\* A scan that arrives is put behind what waits, and keeps its stamp and its frame.
LEMMA ArrivesAligned ==
  ASSUME TypesInv, AlignedInv, NEW c \in SoundClouds, NEW b \in Positive, NEW id \in FrameIds,
         Arrives(c, b, id), lidar_pushed' = lidar_pushed, meas' = meas
  PROVE  /\ AlignedInv'
         /\ lidar_buffer' \in Seq(SoundClouds) /\ time_buffer' \in Seq(Positive)
         /\ lidar_frame_id_buffer' \in Seq(FrameIds)
         /\ Len(lidar_buffer') = Len(lidar_buffer) + 1
         /\ \A i \in 1 .. Len(lidar_buffer) :
              lidar_buffer'[i] = lidar_buffer[i] /\ time_buffer'[i] = time_buffer[i]
         /\ lidar_buffer'[Len(lidar_buffer) + 1] = c /\ time_buffer'[Len(lidar_buffer) + 1] = b
<1>1. /\ lidar_buffer \in Seq(SoundClouds) /\ time_buffer \in Seq(Positive)
      /\ lidar_frame_id_buffer \in Seq(FrameIds)
      /\ Len(time_buffer) = Len(lidar_buffer)
      /\ Len(lidar_frame_id_buffer) = Len(lidar_buffer) /\ Len(lidar_buffer) \in Nat
  BY LenProperties DEF TypesInv, AlignedInv
<1>2. /\ lidar_buffer' \in Seq(SoundClouds) /\ Len(lidar_buffer') = Len(lidar_buffer) + 1
      /\ lidar_buffer' # <<>>
      /\ \A i \in 1 .. Len(lidar_buffer) : lidar_buffer'[i] = lidar_buffer[i]
      /\ lidar_buffer'[Len(lidar_buffer) + 1] = c
  BY <1>1, AppendProperties DEF Arrives
<1>3. /\ time_buffer' \in Seq(Positive) /\ Len(time_buffer') = Len(lidar_buffer) + 1
      /\ \A i \in 1 .. Len(lidar_buffer) : time_buffer'[i] = time_buffer[i]
      /\ time_buffer'[Len(lidar_buffer) + 1] = b
  BY <1>1, AppendProperties DEF Arrives
<1>4. /\ lidar_frame_id_buffer' \in Seq(FrameIds)
      /\ Len(lidar_frame_id_buffer') = Len(lidar_buffer) + 1
  BY <1>1, AppendProperties DEF Arrives
<1>5. ASSUME lidar_pushed PROVE Head(lidar_buffer') # {} /\ meas = NextScan'
  <2>1. lidar_buffer # <<>> /\ Head(lidar_buffer) # {} /\ meas = NextScan
    BY <1>5 DEF AlignedInv
  <2>2. time_buffer # <<>> /\ lidar_frame_id_buffer # <<>>
    BY <1>1, <2>1, EmptySeq
  <2>3. /\ Head(lidar_buffer') = Head(lidar_buffer) /\ Head(time_buffer') = Head(time_buffer)
        /\ Head(lidar_frame_id_buffer') = Head(lidar_frame_id_buffer)
    BY <1>1, <2>1, <2>2, HeadTailAppend DEF Arrives
  <2> QED BY <2>1, <2>3 DEF NextScan
<1> QED BY <1>1, <1>2, <1>3, <1>4, <1>5 DEF AlignedInv

\* It is in order when it begins behind what waits.
LEMMA ArrivesInOrder ==
  ASSUME TypesInv, AlignedInv, OrderInv, NEW c \in SoundClouds, NEW b \in Positive,
         NEW id \in FrameIds, NEW stamp \in Positive,
         Arrives(c, b, id), RestUnchanged,
         last_timestamp_lidar' = stamp, stamp >= last_timestamp_lidar,
         config.mode # "cut", ~hist.overlap,
         \A t \in Nat : Until(t) => t <= b,
         \A p \in c : b + p[1] <= stamp + MaxOffset,
         con'.frame_ct = 0, \A p \in con'.ptr_con : con'.time_con + p[1] <= stamp + MaxOffset
  PROVE  OrderInv'
<1> DEFINE L == Len(lidar_buffer)
<1>1. /\ Len(lidar_buffer') = L + 1 /\ L \in Nat /\ Len(time_buffer) = L
      /\ \A i \in 1 .. L : lidar_buffer'[i] = lidar_buffer[i] /\ time_buffer'[i] = time_buffer[i]
      /\ lidar_buffer'[L + 1] = c /\ time_buffer'[L + 1] = b
  BY ArrivesAligned, LenProperties DEF TypesInv, RestUnchanged, AlignedInv
<1>2. time_predict_last' = time_predict_last /\ time_predict_last \in Nat
  BY DEF RestUnchanged, filter, TypesInv
<1>3. \A i \in 1 .. L : time_buffer[i] \in Nat /\ \A p \in lidar_buffer[i] : p[1] \in Nat
  BY <1>1, ElementOfSeq DEF TypesInv, SoundClouds, Positive
<1>4. \A p \in c : p[1] \in Nat
  BY DEF SoundClouds
<1> HIDE DEF L
<1>5. MaxOffset \in Nat
  BY MaxOffsetIs
<1>6. \A i, j \in 1 .. L + 1 : i < j =>
         \A p \in lidar_buffer'[i] : time_buffer'[i] + p[1] <= time_buffer'[j]
  <2> SUFFICES ASSUME NEW i \in 1 .. L + 1, NEW j \in 1 .. L + 1, i < j, NEW p \in lidar_buffer'[i]
               PROVE  time_buffer'[i] + p[1] <= time_buffer'[j]
    OBVIOUS
  <2>1. i \in 1 .. L
    BY <1>1
  <2>2. CASE j \in 1 .. L
    BY <1>1, <2>1, <2>2 DEF OrderInv, L
  <2>3. CASE j = L + 1
    <3>1. time_buffer[i] + p[1] \in Nat /\ Until(time_buffer[i] + p[1])
      BY <1>1, <1>3, <2>1 DEF Until, L
    <3> QED BY <1>1, <2>1, <2>3, <3>1
  <2> QED BY <1>1, <2>2, <2>3
<1>7. \A i \in 1 .. L + 1 : time_predict_last <= time_buffer'[i]
  <2>1. Until(time_predict_last)
    BY DEF Until
  <2>2. \A i \in 1 .. L : time_predict_last <= time_buffer'[i]
    BY <1>1 DEF OrderInv, L
  <2>3. time_predict_last <= time_buffer'[L + 1]
    BY <1>1, <1>2, <2>1
  <2> QED BY <1>1, <2>2, <2>3
<1>8. \A t \in Nat : Until(t)' => t <= stamp + MaxOffset
  <2> SUFFICES ASSUME NEW t \in Nat, Until(t)' PROVE t <= stamp + MaxOffset
    OBVIOUS
  <2>1. CASE Until(t)
    <3>1. CASE last_timestamp_lidar = -1
      <4>1. t = 0
        BY <1>1, <2>1, <3>1 DEF OrderInv, Until, L
      <4> QED BY <1>5, <4>1 DEF Positive
    <3>2. CASE last_timestamp_lidar # -1
      <4>1. t <= last_timestamp_lidar + MaxOffset
        BY <2>1, <3>2 DEF OrderInv
      <4> QED BY <1>5, <4>1 DEF TypesInv, Positive
    <3> QED BY <3>1, <3>2
  <2>2. CASE \E p \in c : t = b + p[1]
    BY <2>2
  <2>3. Until(t) \/ \E p \in c : t = b + p[1]
    <3>1. t = time_predict_last
            \/ \E i \in 1 .. L + 1 : \E p \in lidar_buffer'[i] : t = time_buffer'[i] + p[1]
      BY <1>1, <1>2 DEF Until
    <3>2. ASSUME NEW i \in 1 .. L + 1, NEW p \in lidar_buffer'[i], t = time_buffer'[i] + p[1]
          PROVE  Until(t) \/ \E q \in c : t = b + q[1]
      <4>1. CASE i \in 1 .. L
        BY <1>1, <3>2, <4>1 DEF Until, L
      <4>2. CASE i = L + 1
        BY <1>1, <3>2, <4>2
      <4> QED BY <1>1, <4>1, <4>2
    <3> QED BY <3>1, <3>2 DEF Until
  <2> QED BY <2>1, <2>2, <2>3
<1>9. stamp > 0 /\ stamp # -1
  BY DEF Positive
<1> QED BY <1>1, <1>2, <1>6, <1>7, <1>8, <1>9 DEF OrderInv

\* The points of a scan begin with the scan and end within the largest offset.
LEMMA ScanIsSound ==
  ASSUME NEW offsets \in Clouds, NEW stamp \in Nat, NEW d \in Nat
  PROVE  /\ {<<o + d, stamp + o>> : o \in offsets} \in SoundClouds
         /\ \A p \in {<<o + d, stamp + o>> : o \in offsets} : p[1] <= MaxOffset + d
<1> DEFINE c == {<<o + d, stamp + o>> : o \in offsets}
<1>1. offsets \subseteq Nat /\ MaxOffset \in Nat /\ \A o \in offsets : o <= MaxOffset
  BY TimesAssumption, MaxOffsetIs
<1>2. c \subseteq Nat \X Nat /\ \A p \in c : p[1] <= MaxOffset + d
  BY <1>1
<1>3. CASE c = {}
  BY <1>2, <1>3 DEF SoundClouds
<1>4. CASE c # {}
  <2>1. Curvatures(c) \subseteq Nat /\ Curvatures(c) # {} /\ \A y \in Curvatures(c) : y <= MaxOffset + d
    BY <1>2, <1>4 DEF Curvatures
  <2>2. MaxOffset + d \in Nat
    BY <1>1
  <2>3. HasLast(Curvatures(c))
    BY <2>1, <2>2, BoundedHasLast
  <2> QED BY <1>2, <2>3 DEF SoundClouds
<1> QED BY <1>2, <1>3, <1>4

\* Two clouds of points together are one.
LEMMA UnionIsSound ==
  ASSUME NEW c \in SoundClouds, NEW d \in SoundClouds
  PROVE  c \cup d \in SoundClouds
<1>1. c \subseteq Nat \X Nat /\ d \subseteq Nat \X Nat /\ c \cup d \in SUBSET (Nat \X Nat)
  BY DEF SoundClouds
<1>2. CASE c = {} \/ d = {}
  <2>1. c \cup d = c \/ c \cup d = d
    BY <1>2
  <2> QED BY <2>1
<1>3. CASE c # {} /\ d # {}
  <2>1. PICK x \in Curvatures(c) : \A y \in Curvatures(c) : y <= x
    BY <1>3 DEF SoundClouds, HasLast
  <2>2. PICK z \in Curvatures(d) : \A y \in Curvatures(d) : y <= z
    BY <1>3 DEF SoundClouds, HasLast
  <2>3. Curvatures(c) \subseteq Nat /\ Curvatures(d) \subseteq Nat
    BY <1>1 DEF Curvatures
  <2>4. Curvatures(c \cup d) = Curvatures(c) \cup Curvatures(d)
    BY DEF Curvatures
  <2>5. x \in Nat /\ z \in Nat /\ x + z \in Nat
    BY <2>1, <2>2, <2>3
  <2>6. \A y \in Curvatures(c) : y <= x + z
    BY <2>1, <2>3, <2>5
  <2>7. \A y \in Curvatures(d) : y <= x + z
    BY <2>2, <2>3, <2>5
  <2>8. Curvatures(c \cup d) \subseteq Nat /\ Curvatures(c \cup d) # {}
    BY <2>1, <2>3, <2>4
  <2>9. HasLast(Curvatures(c \cup d))
    BY <2>4, <2>5, <2>6, <2>7, <2>8, BoundedHasLast
  <2> QED BY <1>1, <2>9 DEF SoundClouds
<1> QED BY <1>2, <1>3
\* The cloud that the callback makes of the offsets that preprocessing left.
Points(offsets, stamp) == {<<o, stamp + o>> : o \in offsets}

LEMMA PointsAreSound ==
  ASSUME NEW offsets \in Clouds, NEW stamp \in Nat
  PROVE  /\ Points(offsets, stamp) \in SoundClouds
         /\ \A p \in Points(offsets, stamp) : p[1] <= MaxOffset
<1>1. offsets \subseteq Nat
  BY TimesAssumption
<1>2. \A o \in offsets : <<o + 0, stamp + o>> = <<o, stamp + o>>
  BY <1>1
<1>3. {<<o + 0, stamp + o>> : o \in offsets} = Points(offsets, stamp)
  BY <1>2 DEF Points
<1>4. MaxOffset \in Nat
  BY MaxOffsetIs
<1> QED BY <1>3, <1>4, ScanIsSound

\* Appending no piece, and appending one.
LEMMA PushNone ==
  ASSUME TypesInv, Push(<<>>), NEW id \in FrameIds,
         lidar_frame_id_buffer' = lidar_frame_id_buffer \o [i \in DOMAIN <<>> |-> id]
  PROVE  UNCHANGED buffers
<1>1. \A f : [i \in DOMAIN <<>> |-> f] = <<>>
  OBVIOUS
<1>2. [i \in DOMAIN <<>> |-> <<>>[i].lidar] = <<>> /\ [i \in DOMAIN <<>> |-> <<>>[i].beg] = <<>>
  OBVIOUS
<1> QED BY <1>1, <1>2, ConcatEmptySeq DEF Push, TypesInv, buffers

LEMMA PushOne ==
  ASSUME TypesInv, NEW c \in SoundClouds, NEW b \in Positive, NEW id \in FrameIds,
         NEW pieces, pieces = <<[lidar |-> c, beg |-> b]>>, Push(pieces),
         lidar_frame_id_buffer' = lidar_frame_id_buffer \o [i \in DOMAIN pieces |-> id]
  PROVE  Arrives(c, b, id)
<1>1. /\ [i \in DOMAIN pieces |-> pieces[i].lidar] = <<c>>
      /\ [i \in DOMAIN pieces |-> pieces[i].beg] = <<b>>
      /\ [i \in DOMAIN pieces |-> id] = <<id>>
  OBVIOUS
<1>2. /\ lidar_buffer \o <<c>> = Append(lidar_buffer, c)
      /\ time_buffer \o <<b>> = Append(time_buffer, b)
      /\ lidar_frame_id_buffer \o <<id>> = Append(lidar_frame_id_buffer, id)
  BY AppendIsConcat DEF TypesInv
<1> QED BY <1>1, <1>2 DEF Push, Arrives

\* What a loop over the times up to L has after each of them, when it starts from a.
IsRun(g, L, A, a, turns) ==
  g \in [0 .. L -> A] /\ g[0] = a /\ \A t \in 1 .. L : g[t] = turns[<<t, g[t - 1]>>]

\* A loop that never leaves A has a result after each turn.
LEMMA LoopRuns ==
  ASSUME NEW L \in Nat, NEW A, NEW a \in A, NEW turns \in [(1 .. L) \X A -> A]
  PROVE  \E g : IsRun(g, L, A, a, turns)
<1> DEFINE Runs(i) == {g \in [0 .. i -> A] :
                         g[0] = a /\ \A t \in 1 .. i : g[t] = turns[<<t, g[t - 1]>>]}
           S == {i \in 0 .. L : Runs(i) # {}}
<1>1. 0 \in S
  <2>1. [t \in 0 .. 0 |-> a] \in Runs(0)
    OBVIOUS
  <2> QED BY <2>1
<1>2. ASSUME NEW i \in 0 .. L, i \in S, i < L
      PROVE  i + 1 \in S
  <2> SUFFICES Runs(i + 1) # {}
    BY <1>2
  <2>1. PICK g \in Runs(i) : TRUE
    BY <1>2
  <2> DEFINE h == [t \in 0 .. i + 1 |-> IF t <= i THEN g[t] ELSE turns[<<i + 1, g[i]>>]]
  <2>2. g \in [0 .. i -> A] /\ g[i] \in A /\ turns[<<i + 1, g[i]>>] \in A
    BY <1>2, <2>1
  <2>3. h \in [0 .. i + 1 -> A]
    BY <2>2
  <2>4. \A t \in 1 .. i + 1 : h[t] = turns[<<t, h[t - 1]>>]
    <3> TAKE t \in 1 .. i + 1
    <3>1. CASE t <= i
      BY <2>1, <3>1
    <3>2. CASE t = i + 1
      <4>1. t - 1 = i /\ h[i + 1] = turns[<<i + 1, g[i]>>] /\ h[i] = g[i]
        BY <1>2, <3>2
      <4> HIDE DEF h
      <4> QED BY <3>2, <4>1
    <3> QED BY <3>1, <3>2
  <2>5. h[0] = a
    BY <2>1
  <2>6. h \in Runs(i + 1)
    BY <2>3, <2>4, <2>5
  <2> QED BY <2>6
<1> HIDE DEF S
<1>3. 0 .. L \subseteq S
  BY <1>1, <1>2, UpTo
<1>4. L \in S
  BY <1>3
<1> QED BY <1>4 DEF S, IsRun

\* What the loop over the points of a scan has after some of them.
SoundPieces == [lidar : SoundClouds, beg : Positive]
SoundCuts == [out : Seq(SoundPieces), div : SoundClouds, time_div : Positive]

\* A point joins the slice, or ends it: the next one begins no earlier.
LEMMA CutIsSound ==
  ASSUME NEW acc \in SoundCuts, NEW p \in Nat \X Nat, NEW stamp \in Positive
  PROVE  Cut(acc, p, stamp) \in SoundCuts
<1> DEFINE div == acc.div \cup {p}
           cut == Cut(acc, p, stamp)
<1>1. /\ acc.out \in Seq(SoundPieces) /\ acc.div \in SoundClouds /\ acc.time_div \in Positive
      /\ p[1] \in Nat
  BY DEF SoundCuts
<1>2. {p} \in SoundClouds
  <2>1. Curvatures({p}) = {p[1]}
    BY DEF Curvatures
  <2>2. HasLast({p[1]})
    BY <1>1 DEF HasLast
  <2> QED BY <2>1, <2>2 DEF SoundClouds
<1>3. div \in SoundClouds
  BY <1>1, <1>2, UnionIsSound
<1> HIDE DEF div
<1>4. {} \in SoundClouds
  BY DEF SoundClouds
<1>5. CASE p[1] + stamp - acc.time_div > CutInterval
  <2> DEFINE piece == [lidar |-> div, beg |-> acc.time_div]
  <2>1. piece \in SoundPieces
    BY <1>1, <1>3 DEF SoundPieces
  <2> HIDE DEF piece
  <2>2. Append(acc.out, piece) \in Seq(SoundPieces)
    BY <1>1, <2>1, AppendProperties
  <2>3. acc.time_div + p[1] \in Positive
    BY <1>1 DEF Positive
  <2>4. cut = [out |-> Append(acc.out, piece), div |-> {}, time_div |-> acc.time_div + p[1]]
    BY <1>5 DEF Cut, div, piece
  <2> QED BY <1>4, <2>2, <2>3, <2>4 DEF SoundCuts
<1>6. CASE ~(p[1] + stamp - acc.time_div > CutInterval)
  <2>1. cut = [acc EXCEPT !.div = div]
    BY <1>6 DEF Cut, div
  <2> QED BY <1>3, <2>1 DEF SoundCuts
<1> QED BY <1>5, <1>6

\* The slices of a scan are clouds with a stamp of their own.
LEMMA SlicesAreSound ==
  ASSUME NEW cloud \in SoundClouds, NEW stamp \in Positive
  PROVE  Slices(cloud, stamp) \in Seq(SoundPieces)
<1> DEFINE last == Largest({0} \cup Curvatures(cloud))
           start == [out |-> <<>>, div |-> {}, time_div |-> stamp]
           Turn(t, acc) == IF t - 1 \notin Curvatures(cloud) THEN acc
                           ELSE Cut(acc, CHOOSE p \in cloud : p[1] = t - 1, stamp)
           turns == [q \in (1 .. last + 1) \X SoundCuts |-> Turn(q[1], q[2])]
           IsLoop(g) == g = [t \in 0 .. last + 1 |-> IF t = 0 THEN start ELSE Turn(t, g[t - 1])]
           cut == CHOOSE g : IsLoop(g)
           end == cut[last + 1]
<1>1. Slices(cloud, stamp) = IF end.div = {} THEN end.out
                             ELSE Append(end.out, [lidar |-> end.div, beg |-> end.time_div])
  BY DEF Slices
<1>2. cloud \subseteq Nat \X Nat /\ Curvatures(cloud) \subseteq Nat
  BY DEF SoundClouds, Curvatures
<1>3. last \in Nat
  <2> DEFINE T == {0} \cup Curvatures(cloud)
  <2>1. HasLast(T)
    <3>1. CASE cloud = {}
      BY <3>1 DEF HasLast, Curvatures
    <3>2. CASE cloud # {}
      <4>1. PICK x \in Curvatures(cloud) : \A y \in Curvatures(cloud) : y <= x
        BY <3>2 DEF SoundClouds, HasLast
      <4> QED BY <1>2, <4>1 DEF HasLast
    <3> QED BY <3>1, <3>2
  <2>2. T \subseteq Nat
    BY <1>2
  <2> QED BY <2>1, <2>2, LargestIs
<1>4. start \in SoundCuts
  <2>1. <<>> \in Seq(SoundPieces) /\ {} \in SoundClouds
    BY DEF SoundClouds
  <2> QED BY <2>1 DEF SoundCuts
<1>5. \A t \in 1 .. last + 1, acc \in SoundCuts : Turn(t, acc) \in SoundCuts
  <2> SUFFICES ASSUME NEW t \in 1 .. last + 1, NEW acc \in SoundCuts, t - 1 \in Curvatures(cloud)
               PROVE  Cut(acc, CHOOSE p \in cloud : p[1] = t - 1, stamp) \in SoundCuts
    OBVIOUS
  <2>1. \E p \in cloud : p[1] = t - 1
    BY DEF Curvatures
  <2>2. (CHOOSE p \in cloud : p[1] = t - 1) \in Nat \X Nat
    BY <1>2, <2>1
  <2> QED BY <2>2, CutIsSound
<1> HIDE DEF last, start, Turn
<1>6. turns \in [(1 .. last + 1) \X SoundCuts -> SoundCuts]
  BY <1>5
<1>7. \A t \in 1 .. last + 1, acc \in SoundCuts : turns[<<t, acc>>] = Turn(t, acc)
  OBVIOUS
<1> HIDE DEF turns
<1>8. PICK g : IsRun(g, last + 1, SoundCuts, start, turns)
  <2>1. last + 1 \in Nat
    BY <1>3
  <2> QED BY <1>4, <1>6, <2>1, LoopRuns
<1>9. \A t \in 1 .. last + 1 : t - 1 \in 0 .. last + 1 /\ t - 1 < last + 1 /\ t # 0
  BY <1>3
<1>10. \A t \in 1 .. last + 1 : g[t] = Turn(t, g[t - 1])
  BY <1>7, <1>8, <1>9 DEF IsRun
<1>11. IsLoop(cut)
  <2>1. IsLoop(g)
    BY <1>3, <1>8, <1>10 DEF IsRun
  <2> HIDE DEF IsLoop
  <2> QED BY <2>1
<1> HIDE DEF cut
<1>12. cut[0] = start /\ \A t \in 1 .. last + 1 : cut[t] = Turn(t, cut[t - 1])
  BY <1>3, <1>11
<1> DEFINE S == {t \in 0 .. last + 1 : cut[t] = g[t]}
<1>13. 0 \in S /\ \A t \in 0 .. last + 1 : t \in S /\ t < last + 1 => t + 1 \in S
  <2>1. 0 \in 0 .. last + 1 /\ cut[0] = g[0]
    BY <1>3, <1>8, <1>12 DEF IsRun
  <2>2. ASSUME NEW t \in 0 .. last + 1, t \in S, t < last + 1
        PROVE  t + 1 \in S
    <3>1. t + 1 \in 1 .. last + 1 /\ t + 1 \in 0 .. last + 1 /\ (t + 1) - 1 = t
      BY <1>3, <2>2
    <3>2. cut[t] = g[t]
      BY <2>2
    <3>3. cut[t + 1] = Turn(t + 1, cut[t]) /\ g[t + 1] = Turn(t + 1, g[t])
      BY <1>10, <1>12, <3>1
    <3> QED BY <3>1, <3>2, <3>3
  <2> QED BY <2>1, <2>2
<1> HIDE DEF S, IsLoop
<1>14. last + 1 \in Nat /\ last + 1 \in 0 .. last + 1
  BY <1>3
<1>15. 0 .. last + 1 \subseteq S
  BY <1>13, <1>14, UpTo
<1>16. end \in SoundCuts
  BY <1>8, <1>14, <1>15 DEF S, IsRun
<1> HIDE DEF end
<1>17. /\ end.out \in Seq(SoundPieces)
       /\ [lidar |-> end.div, beg |-> end.time_div] \in SoundPieces
  BY <1>16 DEF SoundCuts, SoundPieces
<1> QED BY <1>1, <1>17, AppendProperties

\* What a sequence is appended to keeps its places.
LEMMA FrontStays ==
  ASSUME NEW T, NEW f \in Seq(T), NEW g \in Seq(T)
  PROVE  /\ f \o g \in Seq(T) /\ Len(f \o g) = Len(f) + Len(g)
         /\ \A i \in 1 .. Len(f) : (f \o g)[i] = f[i]
<1>1. Len(f) \in Nat /\ Len(g) \in Nat
  BY LenProperties
<1> QED BY <1>1, ConcatProperties

\* What the slices are appended to stays aligned, and its first scan stays first.
LEMMA PushMany ==
  ASSUME TypesInv, AlignedInv, NEW pieces \in Seq(SoundPieces), Push(pieces),
         NEW ids \in Seq(FrameIds), Len(ids) = Len(pieces),
         lidar_frame_id_buffer' = lidar_frame_id_buffer \o ids,
         lidar_pushed' = lidar_pushed, meas' = meas
  PROVE  /\ AlignedInv'
         /\ lidar_buffer' \in Seq(SoundClouds) /\ time_buffer' \in Seq(Positive)
         /\ lidar_frame_id_buffer' \in Seq(FrameIds)
<1> DEFINE L == Len(pieces)
           clouds == [i \in 1 .. L |-> pieces[i].lidar]
           stamps == [i \in 1 .. L |-> pieces[i].beg]
<1>1. L \in Nat /\ DOMAIN pieces = 1 .. L /\ \A i \in 1 .. L : pieces[i] \in SoundPieces
  BY LenProperties, ElementOfSeq
<1>2. /\ lidar_buffer' = lidar_buffer \o clouds /\ time_buffer' = time_buffer \o stamps
  BY <1>1 DEF Push
<1> HIDE DEF L
<1>3. /\ clouds \in Seq(SoundClouds) /\ Len(clouds) = L
      /\ stamps \in Seq(Positive) /\ Len(stamps) = L
  BY <1>1 DEF SoundPieces
<1> HIDE DEF clouds, stamps
<1>4. /\ lidar_buffer \in Seq(SoundClouds) /\ time_buffer \in Seq(Positive)
      /\ lidar_frame_id_buffer \in Seq(FrameIds)
      /\ Len(time_buffer) = Len(lidar_buffer)
      /\ Len(lidar_frame_id_buffer) = Len(lidar_buffer) /\ Len(lidar_buffer) \in Nat
  BY LenProperties DEF TypesInv, AlignedInv
<1>5. /\ lidar_buffer' \in Seq(SoundClouds) /\ Len(lidar_buffer') = Len(lidar_buffer) + L
      /\ \A i \in 1 .. Len(lidar_buffer) : lidar_buffer'[i] = lidar_buffer[i]
  BY <1>2, <1>3, <1>4, FrontStays
<1>6. /\ time_buffer' \in Seq(Positive) /\ Len(time_buffer') = Len(time_buffer) + L
      /\ \A i \in 1 .. Len(time_buffer) : time_buffer'[i] = time_buffer[i]
  <2>1. /\ time_buffer' = time_buffer \o stamps /\ time_buffer \in Seq(Positive)
        /\ stamps \in Seq(Positive) /\ Len(stamps) = L
    BY <1>2, <1>3, <1>4
  <2> QED BY <2>1, FrontStays, Zenon
<1>7. /\ lidar_frame_id_buffer' \in Seq(FrameIds)
      /\ Len(lidar_frame_id_buffer') = Len(lidar_frame_id_buffer) + L
      /\ \A i \in 1 .. Len(lidar_frame_id_buffer) :
           lidar_frame_id_buffer'[i] = lidar_frame_id_buffer[i]
  <2>1. lidar_frame_id_buffer \in Seq(FrameIds) /\ Len(ids) = L
    BY <1>4 DEF L
  <2> QED BY <2>1, FrontStays, Zenon
<1>8. ASSUME lidar_pushed
      PROVE  lidar_buffer' # <<>> /\ Head(lidar_buffer') # {} /\ meas = NextScan'
  <2>1. lidar_buffer # <<>> /\ Head(lidar_buffer) # {} /\ meas = NextScan
    BY <1>8 DEF AlignedInv
  <2>2. 1 \in 1 .. Len(lidar_buffer) /\ Len(lidar_buffer') > 0
    BY <1>1, <1>4, <1>5, <2>1, EmptySeq
  <2>3. /\ lidar_buffer'[1] = lidar_buffer[1] /\ time_buffer'[1] = time_buffer[1]
        /\ lidar_frame_id_buffer'[1] = lidar_frame_id_buffer[1]
    BY <1>4, <1>5, <1>6, <1>7, <2>2
  <2>4. /\ Head(lidar_buffer) = lidar_buffer[1] /\ Head(time_buffer) = time_buffer[1]
        /\ Head(lidar_frame_id_buffer) = lidar_frame_id_buffer[1]
    BY <1>4, <2>2
  <2>5. lidar_buffer' # <<>>
    BY <1>5, <2>2, EmptySeq
  <2>6. /\ Head(lidar_buffer') = lidar_buffer'[1] /\ Head(time_buffer') = time_buffer'[1]
        /\ Head(lidar_frame_id_buffer') = lidar_frame_id_buffer'[1]
    BY <1>4, <1>5, <1>6, <1>7, <2>2
  <2> QED BY <2>1, <2>3, <2>4, <2>5, <2>6 DEF NextScan
<1> QED BY <1>4, <1>5, <1>6, <1>7, <1>8 DEF AlignedInv

\* When a scan that is not too old overlaps no other, it begins behind what waits.
LEMMA BehindWhatWaits ==
  ASSUME TypesInv, AlignedInv, OrderInv, config.mode # "cut", ~hist.overlap, NEW stamp \in Positive,
         ~(last_timestamp_lidar # -1 /\ stamp < last_timestamp_lidar + MaxOffset)
  PROVE  \A t \in Nat : Until(t) => t <= stamp
<1> SUFFICES ASSUME NEW t \in Nat, Until(t) PROVE t <= stamp
  OBVIOUS
<1>1. CASE last_timestamp_lidar = -1
  <2>1. lidar_buffer = <<>> /\ time_predict_last = 0
    BY <1>1 DEF OrderInv
  <2>2. t = 0
    BY <2>1, LenProperties DEF Until
  <2> QED BY <2>2 DEF Positive
<1>2. CASE last_timestamp_lidar # -1
  <2>1. t <= last_timestamp_lidar + MaxOffset
    BY <1>2 DEF OrderInv
  <2> QED BY <1>2, <2>1, MaxOffsetIs DEF TypesInv, Positive
<1> QED BY <1>1, <1>2
\* A lidar callback keeps the invariant: the scan is refused, or appended, or joins the cloud that
\* is being combined, or sends that cloud off.
LEMMA CloudCallbackKeeps ==
  ASSUME IInv, config.lidar = "livox", NEW offsets \in Clouds, NEW stamp \in Positive,
         NEW id \in FrameIds, CloudCallback(offsets, stamp, id, TRUE)
  PROVE  IInv'
<1> DEFINE cloud == Points(offsets, stamp)
           pieces == Pieces(cloud, stamp)
<1>1. /\ TypesInv /\ AlignedInv /\ StampInv /\ OrderInv /\ JumpInv /\ NextInv /\ BackInv /\ ~starved
      /\ config \in Configs
  BY DEF IInv
<1>2. RestUnchanged
  BY DEF CloudCallback, RestUnchanged
<1>3. /\ config.mode \in {"plain", "con", "cut"} /\ config' = config
  BY <1>1, <1>2, TimesAssumption DEF RestUnchanged
<1>4. cloud \in SoundClouds /\ \A p \in cloud : p[1] <= MaxOffset
  BY PointsAreSound DEF Positive
<1>5. \A p \in cloud : p[1] \in Nat
  BY <1>4 DEF SoundClouds
<1>6. MaxOffset \in Nat /\ stamp \in Nat /\ stamp > 0
  BY MaxOffsetIs DEF Positive
<1>7. CASE Stale(stamp)
  <2>1. UNCHANGED <<buffers, last_timestamp_lidar, con, hist>>
    BY <1>7 DEF CloudCallback
  <2>2. Until(0)' = Until(0) /\ \A t : Until(t)' = Until(t)
    BY <1>2, <2>1 DEF Until, RestUnchanged, filter, buffers
  <2>3. TypesInv' /\ AlignedInv' /\ StampInv' /\ JumpInv' /\ NextInv' /\ BackInv' /\ ~starved'
    BY <1>1, <1>2, <2>1 DEF TypesInv, AlignedInv, StampInv, JumpInv, NextInv, BackInv, NextScan,
       RestUnchanged, filter, buffers
  <2>4. OrderInv'
    BY <1>1, <1>2, <2>1, <2>2 DEF OrderInv, RestUnchanged, filter, buffers
  <2> QED BY <1>1, <1>3, <2>3, <2>4 DEF IInv
<1>8. CASE ~Stale(stamp)
  <2>1. /\ last_timestamp_lidar' = stamp /\ stamp >= last_timestamp_lidar
        /\ con' = IF config.mode = "con" THEN Collect(cloud, stamp) ELSE con
        /\ Push(pieces)
        /\ lidar_frame_id_buffer' = lidar_frame_id_buffer \o [i \in DOMAIN pieces |-> id]
    <3>1. stamp >= last_timestamp_lidar
      BY <1>1, <1>8 DEF Stale, TypesInv, Positive
    <3>2. cloud = {<<o, stamp + o>> : o \in offsets}
      BY DEF Points
    <3>3. pieces = Pieces({<<o, stamp + o>> : o \in offsets}, stamp)
      BY <3>2
    <3> HIDE DEF cloud, pieces
    <3> QED BY <1>8, <3>1, <3>2, <3>3, Zenon DEF CloudCallback
  <2>2. hist' = [hist EXCEPT !.overlap =
                   @ \/ /\ last_timestamp_lidar # -1
                        /\ stamp >= last_timestamp_lidar
                        /\ stamp < last_timestamp_lidar + MaxOffset]
    BY <1>8 DEF CloudCallback, MaxOffset
  <2>3. /\ hist' \in [overlap : BOOLEAN, jump : BOOLEAN, back : BOOLEAN]
        /\ hist'.jump = hist.jump /\ hist'.back = hist.back
        /\ ~hist'.overlap => /\ ~hist.overlap
                             /\ ~(last_timestamp_lidar # -1 /\ stamp < last_timestamp_lidar + MaxOffset)
        /\ hist.overlap => hist'.overlap
    <3>1. hist \in [overlap : BOOLEAN, jump : BOOLEAN, back : BOOLEAN]
      BY <1>1 DEF TypesInv
    <3> QED BY <2>1, <2>2, <3>1
  <2>4. StampInv' /\ JumpInv' /\ NextInv' /\ BackInv' /\ ~starved'
    BY <1>1, <1>2, <2>3 DEF StampInv, JumpInv, NextInv, BackInv, RestUnchanged, filter
  <2>5. config.mode # "cut" /\ ~hist'.overlap =>
          ~hist.overlap /\ \A t \in Nat : Until(t) => t <= stamp
    BY <1>1, <2>3, BehindWhatWaits
  <2> HIDE DEF cloud, pieces
  <2>6. CASE config.mode = "plain"
    <3>1. pieces = <<[lidar |-> cloud, beg |-> stamp]>> /\ con' = con /\ con.frame_ct = 0
      BY <1>1, <2>1, <2>6 DEF pieces, Pieces, TypesInv
    <3>2. Arrives(cloud, stamp, id)
      BY <1>1, <1>4, <2>1, <3>1, PushOne
    <3>3. AlignedInv' /\ lidar_buffer' \in Seq(SoundClouds) /\ time_buffer' \in Seq(Positive)
          /\ lidar_frame_id_buffer' \in Seq(FrameIds)
      BY <1>1, <1>2, <1>4, <3>2, ArrivesAligned DEF RestUnchanged
    <3>4. TypesInv'
      BY <1>1, <1>2, <2>1, <2>3, <3>1, <3>3 DEF TypesInv, RestUnchanged, filter, Positive
    <3>5. con.ptr_con = {}
      BY <1>1, <3>1 DEF TypesInv
    <3>6. \A p \in cloud : stamp + p[1] <= stamp + MaxOffset
      BY <1>4, <1>5, <1>6
    <3>7. ASSUME ~hist'.overlap PROVE OrderInv'
      <4>1. ~hist.overlap /\ \A t \in Nat : Until(t) => t <= stamp
        BY <2>5, <2>6, <3>7
      <4> QED BY <1>1, <1>2, <1>4, <2>1, <2>6, <3>1, <3>2, <3>5, <3>6, <4>1, ArrivesInOrder
    <3>8. OrderInv'
      BY <3>7 DEF OrderInv
    <3> QED BY <1>1, <1>3, <2>4, <3>3, <3>4, <3>8 DEF IInv
  <2>7. CASE config.mode = "con"
    <3> DEFINE start == IF con.frame_ct = 0 THEN stamp ELSE con.time_con
               moved == {<<p[1] + stamp - start, p[2]>> : p \in cloud}
    <3>1. start \in Positive /\ start <= stamp
          /\ (con.frame_ct = 0 => con.ptr_con = {}) /\ con.ptr_con \in SoundClouds
          /\ con.frame_ct \in Nat
      BY <1>1, <1>6, <2>1 DEF TypesInv, Positive
    <3>2. CASE con.frame_ct < ConFrameNum
      <4>1. /\ pieces = <<>>
            /\ con' = [frame_ct |-> con.frame_ct + 1, time_con |-> start,
                       ptr_con |-> con.ptr_con \cup moved]
        BY <2>1, <2>7, <3>2 DEF pieces, Pieces, Collect
      <4>2. UNCHANGED buffers
        BY <1>1, <2>1, <4>1, PushNone
      <4>3. \A t : Until(t)' = Until(t)
        BY <1>2, <4>2 DEF Until, RestUnchanged, filter, buffers
      <4>4. moved \in SoundClouds /\ \A p \in moved : start + p[1] <= stamp + MaxOffset
        <5> DEFINE d == stamp - start
        <5>1. d \in Nat /\ start \in Nat /\ start + d = stamp
          BY <1>6, <3>1 DEF Positive
        <5>2. offsets \subseteq Nat
          BY TimesAssumption
        <5>3. moved = {<<o + stamp - start, stamp + o>> : o \in offsets}
          <6> HIDE DEF start
          <6>1. \A p \in cloud : \E o \in offsets : p[1] = o /\ p[2] = stamp + o
            BY DEF cloud, Points
          <6>2. \A o \in offsets : <<o, stamp + o>> \in cloud
            BY DEF cloud, Points
          <6> QED BY <6>1, <6>2
        <5> HIDE DEF moved
        <5>4. \A o \in offsets : o + stamp - start = o + d
          BY <1>6, <3>1, <5>2 DEF Positive
        <5>5. moved = {<<o + d, stamp + o>> : o \in offsets}
          BY <5>3, <5>4
        <5> HIDE DEF d, start
        <5>6. moved \in SoundClouds /\ \A p \in moved : p[1] <= MaxOffset + d
          BY <1>6, <5>1, <5>5, ScanIsSound
        <5>7. \A p \in moved : p[1] \in Nat
          BY <5>6 DEF SoundClouds
        <5> QED BY <1>6, <5>1, <5>6, <5>7
      <4> HIDE DEF moved
      <4>5. con'.ptr_con \in SoundClouds
        BY <3>1, <4>1, <4>4, UnionIsSound
      <4>6. TypesInv'
        <5>1. /\ con'.frame_ct \in Nat /\ con'.frame_ct > 0 /\ con'.time_con = start
          BY <3>1, <4>1
        <5> HIDE DEF start
        <5>2. start \in Nat /\ 0 < start /\ start <= stamp
          BY <3>1 DEF Positive
        <5>3. UNCHANGED <<lidar_buffer, time_buffer, lidar_frame_id_buffer>>
          BY <4>2 DEF buffers
        <5>4. UNCHANGED <<config, imu_deque, last_timestamp_imu, imu_next, time_predict_last, stage>>
          BY <1>2 DEF RestUnchanged, filter
        <5>5. TypesInv
          BY <1>1
        <5>6. last_timestamp_lidar' = stamp /\ hist' \in [overlap : BOOLEAN, jump : BOOLEAN, back : BOOLEAN]
          BY <1>6, <2>1, <2>3
        <5>7. con'.frame_ct = 0 => con'.ptr_con = {}
          BY <5>1
        <5>8. config'.mode # "plain"
          BY <2>7, <5>4
        <5>9. con'.frame_ct > 0 => 0 < con'.time_con /\ con'.time_con <= last_timestamp_lidar'
          BY <5>1, <5>2, <5>6
        <5>10. con'.time_con \in Nat /\ last_timestamp_lidar' \in Int
          BY <1>6, <5>1, <5>2, <5>6
        <5>11. /\ lidar_buffer' \in Seq(SoundClouds) /\ time_buffer' \in Seq(Positive)
               /\ lidar_frame_id_buffer' \in Seq(FrameIds)
          BY <5>3, <5>5 DEF TypesInv
        <5>12. /\ imu_deque' \in Seq(Positive) /\ last_timestamp_imu' \in Int /\ imu_next' \in Nat
               /\ time_predict_last' \in Nat
               /\ stage' \in {"imu_init", "map_init", "first", "run"}
          BY <5>4, <5>5 DEF TypesInv
        <5> QED BY <4>5, <5>1, <5>6, <5>7, <5>8, <5>9, <5>10, <5>11, <5>12 DEF TypesInv
      <4>7. AlignedInv'
        BY <1>1, <1>2, <4>2 DEF AlignedInv, NextScan, RestUnchanged, buffers
      <4>8. ASSUME ~hist'.overlap PROVE OrderInv'
        <5>1. ~hist.overlap /\ \A t \in Nat : Until(t) => t <= stamp
          BY <2>5, <2>7, <4>8
        <5>2. \A t \in Nat : Until(t)' => t <= start
          <6>1. CASE con.frame_ct = 0
            BY <4>3, <5>1, <6>1
          <6>2. CASE con.frame_ct # 0
            BY <1>1, <2>7, <3>1, <4>3, <5>1, <6>2 DEF OrderInv
          <6> QED BY <6>1, <6>2
        <5>3. \A p \in con'.ptr_con : con'.time_con + p[1] <= stamp + MaxOffset
          <6>1. con'.ptr_con = con.ptr_con \cup moved /\ con'.time_con = start
            BY <4>1
          <6>2. ASSUME NEW p \in con.ptr_con PROVE start + p[1] <= stamp + MaxOffset
            <7>1. con.frame_ct > 0 /\ start = con.time_con
              BY <3>1, <6>2
            <7>2. last_timestamp_lidar # -1 /\ con.time_con + p[1] <= last_timestamp_lidar + MaxOffset
              BY <1>1, <2>7, <5>1, <6>2, <7>1 DEF OrderInv
            <7>3. p[1] \in Nat /\ last_timestamp_lidar \in Int /\ con.time_con \in Nat
              BY <1>1, <6>2 DEF TypesInv, SoundClouds
            <7> QED BY <1>6, <2>1, <7>1, <7>2, <7>3
          <6> QED BY <4>4, <6>1, <6>2
        <5>4. \A t \in Nat : Until(t)' => t <= stamp + MaxOffset
          BY <1>6, <4>3, <5>1
        <5>5. /\ \A i, j \in 1 .. Len(lidar_buffer') : i < j =>
                   \A p \in lidar_buffer'[i] : time_buffer'[i] + p[1] <= time_buffer'[j]
              /\ \A i \in 1 .. Len(lidar_buffer') : time_predict_last' <= time_buffer'[i]
          BY <1>1, <1>2, <2>7, <4>2, <5>1 DEF OrderInv, RestUnchanged, filter, buffers
        <5>6. con'.time_con = start
          BY <4>1
        <5> QED BY <1>6, <2>1, <5>2, <5>3, <5>4, <5>5, <5>6 DEF OrderInv
      <4>9. OrderInv'
        BY <4>8 DEF OrderInv
      <4> QED BY <1>1, <1>3, <2>4, <4>6, <4>7, <4>9 DEF IInv
    <3>3. CASE ~(con.frame_ct < ConFrameNum)
      <4>1. /\ pieces = <<[lidar |-> con.ptr_con, beg |-> start]>>
            /\ con' = [frame_ct |-> 0, time_con |-> start, ptr_con |-> {}]
        BY <2>1, <2>7, <3>3 DEF pieces, Pieces, Collect
      <4> HIDE DEF moved
      <4>2. Arrives(con.ptr_con, start, id)
        BY <1>1, <2>1, <3>1, <4>1, PushOne
      <4>3. AlignedInv' /\ lidar_buffer' \in Seq(SoundClouds) /\ time_buffer' \in Seq(Positive)
            /\ lidar_frame_id_buffer' \in Seq(FrameIds)
        BY <1>1, <1>2, <3>1, <4>2, ArrivesAligned DEF RestUnchanged
      <4>4. con'.frame_ct = 0 /\ con'.time_con = start /\ con'.ptr_con = {} /\ {} \in SoundClouds
        BY <4>1 DEF SoundClouds
      <4>5. TypesInv'
        <5> HIDE DEF start
        <5>1. /\ con'.frame_ct \in Nat /\ con'.time_con \in Nat /\ con'.ptr_con \in SoundClouds
              /\ con'.frame_ct > 0 => 0 < con'.time_con /\ con'.time_con <= last_timestamp_lidar'
              /\ con'.frame_ct = 0 => con'.ptr_con = {}
              /\ config'.mode = "plain" => con'.frame_ct = 0
          BY <3>1, <4>4 DEF Positive
        <5>2. last_timestamp_lidar' \in Int
          BY <1>6, <2>1
        <5> QED BY <1>1, <1>2, <2>3, <4>3, <5>1, <5>2 DEF TypesInv, RestUnchanged, filter
      <4>6. ASSUME ~hist'.overlap PROVE OrderInv'
        <5>1. ~hist.overlap /\ \A t \in Nat : Until(t) => t <= stamp
          BY <2>5, <2>7, <4>6
        <5>2. \A t \in Nat : Until(t) => t <= start
          <6>1. CASE con.frame_ct = 0
            BY <5>1, <6>1
          <6>2. CASE con.frame_ct # 0
            BY <1>1, <2>7, <3>1, <5>1, <6>2 DEF OrderInv
          <6> QED BY <6>1, <6>2
        <5>3. ASSUME NEW p \in con.ptr_con PROVE start + p[1] <= stamp + MaxOffset
          <6>1. con.frame_ct > 0 /\ start = con.time_con
            BY <3>1, <5>3
          <6>2. last_timestamp_lidar # -1 /\ con.time_con + p[1] <= last_timestamp_lidar + MaxOffset
            BY <1>1, <2>7, <5>1, <5>3, <6>1 DEF OrderInv
          <6>3. p[1] \in Nat /\ last_timestamp_lidar \in Int /\ con.time_con \in Nat
            BY <1>1, <5>3 DEF TypesInv, SoundClouds
          <6> QED BY <1>6, <2>1, <6>1, <6>2, <6>3
        <5> HIDE DEF start
        <5>4. \A p \in con.ptr_con : start + p[1] <= stamp + MaxOffset
          BY <5>3
        <5> QED BY <1>1, <1>2, <2>1, <2>7, <3>1, <4>2, <4>4, <5>1, <5>2, <5>4, ArrivesInOrder
      <4>7. OrderInv'
        BY <4>6 DEF OrderInv
      <4> QED BY <1>1, <1>3, <2>4, <4>3, <4>5, <4>7 DEF IInv
    <3> QED BY <3>2, <3>3
  <2>8. CASE config.mode = "cut"
    <3>1. pieces = Slices(cloud, stamp) /\ con' = con
      BY <2>1, <2>8 DEF pieces, Pieces
    <3>2. pieces \in Seq(SoundPieces)
      BY <1>4, <3>1, SlicesAreSound
    <3>3. lidar_pushed' = lidar_pushed /\ meas' = meas
      BY <1>2 DEF RestUnchanged
    <3>4. /\ AlignedInv'
          /\ lidar_buffer' \in Seq(SoundClouds) /\ time_buffer' \in Seq(Positive)
          /\ lidar_frame_id_buffer' \in Seq(FrameIds)
      <4> DEFINE ids == [i \in DOMAIN pieces |-> id]
      <4>1. ids \in Seq(FrameIds) /\ Len(ids) = Len(pieces)
        BY <3>2
      <4> HIDE DEF ids
      <4>2. lidar_frame_id_buffer' = lidar_frame_id_buffer \o ids
        BY <2>1 DEF ids
      <4> QED BY <1>1, <2>1, <3>2, <3>3, <4>1, <4>2, PushMany
    <3>5. TypesInv'
      <4>1. /\ UNCHANGED <<config, con, imu_deque, last_timestamp_imu, imu_next>>
            /\ UNCHANGED <<time_predict_last, stage>>
        BY <1>2, <3>1 DEF RestUnchanged, filter
      <4>2. /\ con.frame_ct > 0 => 0 < con.time_con /\ con.time_con <= last_timestamp_lidar'
            /\ last_timestamp_lidar' \in Int
        BY <1>1, <1>6, <2>1 DEF TypesInv
      <4> QED BY <1>1, <2>3, <3>4, <4>1, <4>2 DEF TypesInv
    <3>6. OrderInv'
      BY <1>3, <2>8 DEF OrderInv
    <3> QED BY <1>1, <1>3, <2>4, <3>4, <3>5, <3>6 DEF IInv
  <2> QED BY <1>3, <2>6, <2>7, <2>8
<1> QED BY <1>7, <1>8
-----------------------------------------------------------------------------
(* The IMU callback *)

\* The IMU callback keeps the invariant: a message that is not in order is noted in hist.jump.
LEMMA ImuCallbackKeeps ==
  ASSUME IInv, config.lidar = "livox", NEW stamp \in Positive, imu_cbk(stamp)
  PROVE  IInv'
<1>1. /\ TypesInv /\ AlignedInv /\ StampInv /\ OrderInv /\ JumpInv /\ NextInv /\ BackInv /\ ~starved
      /\ config \in Configs
  BY DEF IInv
<1>2. UNCHANGED <<config, buffers, last_timestamp_lidar, con, imu_next, lidar_pushed, meas, filter,
      starved>>
  BY DEF imu_cbk
<1>3. CASE stamp < last_timestamp_imu
  <2>1. UNCHANGED <<imu_deque, last_timestamp_imu, hist>>
    BY <1>3 DEF imu_cbk
  <2>2. \A t : Until(t)' = Until(t)
    BY <1>2 DEF Until, filter, buffers
  <2>3. TypesInv' /\ AlignedInv' /\ StampInv' /\ JumpInv' /\ NextInv' /\ BackInv' /\ ~starved'
    BY <1>1, <1>2, <2>1 DEF TypesInv, AlignedInv, StampInv, JumpInv, NextInv, BackInv, NextScan,
          filter, buffers
  <2>4. OrderInv'
    BY <1>1, <1>2, <2>1, <2>2 DEF OrderInv, filter, buffers
  <2> QED BY <1>1, <1>2, <2>3, <2>4 DEF IInv
<1>4. CASE ~(stamp < last_timestamp_imu)
  <2>1. imu_deque' = Append(imu_deque, stamp) /\ last_timestamp_imu' = stamp
    BY <1>4 DEF imu_cbk
  <2>2. hist' = [hist EXCEPT !.jump = @ \/ \E s \in {imu_next} \cup Range(imu_deque) : stamp < s]
    BY <1>4 DEF imu_cbk
  <2>3. hist \in [overlap : BOOLEAN, jump : BOOLEAN, back : BOOLEAN]
    BY <1>1 DEF TypesInv
  <2>4. /\ hist' \in [overlap : BOOLEAN, jump : BOOLEAN, back : BOOLEAN]
        /\ hist'.overlap = hist.overlap /\ hist'.back = hist.back
        /\ hist.jump => hist'.jump
        /\ ~hist'.jump => \A s \in {imu_next} \cup Range(imu_deque) : ~(stamp < s)
    BY <2>2, <2>3
  <2>5. imu_deque \in Seq(Positive) /\ Len(imu_deque) \in Nat
    BY <1>1, LenProperties DEF TypesInv
  <2>6. /\ imu_deque' \in Seq(Positive) /\ Len(imu_deque') = Len(imu_deque) + 1
        /\ \A i \in 1 .. Len(imu_deque) : imu_deque'[i] = imu_deque[i]
        /\ imu_deque'[Len(imu_deque) + 1] = stamp
    BY <2>1, <2>5, AppendProperties
  <2>7. TypesInv' /\ AlignedInv' /\ NextInv' /\ ~starved'
    BY <1>1, <1>2, <2>1, <2>4, <2>6
       DEF TypesInv, AlignedInv, NextInv, NextScan, filter, buffers, Positive
  <2>8. StampInv' /\ BackInv'
    BY <1>1, <1>2, <2>1, <2>4, <2>6 DEF StampInv, BackInv
  <2>9. \A t : Until(t)' = Until(t)
    BY <1>2 DEF Until, filter, buffers
  <2>10. OrderInv'
    BY <1>1, <1>2, <2>4, <2>9 DEF OrderInv, filter, buffers
  <2>11. ASSUME ~hist'.jump PROVE JumpInv'
    <3> DEFINE L == Len(imu_deque)
    <3>1. \A i \in 1 .. L : imu_deque[i] \in Range(imu_deque) /\ imu_deque[i] \in Nat
      BY <2>5, ElementOfSeq DEF Range, Positive
    <3>2. (\A i \in 1 .. L : imu_deque[i] <= stamp) /\ imu_next <= stamp
      <4>1. stamp \in Nat /\ imu_next \in Nat
        BY <1>1 DEF TypesInv, Positive
      <4>2. \A s \in {imu_next} \cup Range(imu_deque) : ~(stamp < s)
        BY <2>4, <2>11
      <4>3. ~(stamp < imu_next) /\ \A i \in 1 .. L : ~(stamp < imu_deque[i])
        BY <3>1, <4>2
      <4> QED BY <3>1, <4>1, <4>3
    <3>3. /\ \A i, j \in 1 .. L : i < j => imu_deque[i] <= imu_deque[j]
          /\ \A i \in 1 .. L : imu_next <= imu_deque[i]
      BY <1>1, <2>4, <2>11 DEF JumpInv
    <3> HIDE DEF L
    <3>4. /\ L \in Nat /\ Len(imu_deque') = L + 1 /\ imu_next' = imu_next
          /\ \A i \in 1 .. L : imu_deque'[i] = imu_deque[i]
          /\ imu_deque'[L + 1] = stamp
      BY <1>2, <2>5, <2>6 DEF L
    <3>5. \A i, j \in 1 .. L + 1 : i < j => imu_deque'[i] <= imu_deque'[j]
      <4> SUFFICES ASSUME NEW i \in 1 .. L + 1, NEW j \in 1 .. L + 1, i < j
                   PROVE  imu_deque'[i] <= imu_deque'[j]
        OBVIOUS
      <4>1. i \in 1 .. L /\ (j \in 1 .. L \/ j = L + 1)
        BY <3>4
      <4> QED BY <3>2, <3>3, <3>4, <4>1
    <3>6. \A i \in 1 .. L + 1 : imu_next' <= imu_deque'[i]
      <4> SUFFICES ASSUME NEW i \in 1 .. L + 1 PROVE imu_next' <= imu_deque'[i]
        OBVIOUS
      <4>1. i \in 1 .. L \/ i = L + 1
        BY <3>4
      <4> QED BY <3>2, <3>3, <3>4, <4>1
    <3> QED BY <3>4, <3>5, <3>6 DEF JumpInv
  <2>12. JumpInv'
    BY <2>11 DEF JumpInv
  <2> QED BY <1>1, <1>2, <2>7, <2>8, <2>10, <2>12 DEF IInv
<1> QED BY <1>3, <1>4

-----------------------------------------------------------------------------
(* The timer: a scan leaves the buffers *)

\* The buffers move up by one.
LEMMA PopMovesUp ==
  ASSUME TypesInv, AlignedInv, lidar_buffer # <<>>, PopScan
  PROVE  /\ lidar_buffer' \in Seq(SoundClouds) /\ time_buffer' \in Seq(Positive)
         /\ lidar_frame_id_buffer' \in Seq(FrameIds)
         /\ Len(lidar_buffer) \in Nat /\ Len(lidar_buffer) > 0
         /\ Len(lidar_buffer') = Len(lidar_buffer) - 1
         /\ Len(time_buffer') = Len(lidar_buffer') /\ Len(lidar_frame_id_buffer') = Len(lidar_buffer')
         /\ \A i \in 1 .. Len(lidar_buffer') :
              lidar_buffer'[i] = lidar_buffer[i + 1] /\ time_buffer'[i] = time_buffer[i + 1]
<1>1. /\ lidar_buffer \in Seq(SoundClouds) /\ time_buffer \in Seq(Positive)
      /\ lidar_frame_id_buffer \in Seq(FrameIds)
      /\ Len(time_buffer) = Len(lidar_buffer)
      /\ Len(lidar_frame_id_buffer) = Len(lidar_buffer)
  BY DEF TypesInv, AlignedInv
<1>2. Len(lidar_buffer) \in Nat /\ Len(lidar_buffer) > 0
  BY <1>1, LenProperties, EmptySeq
<1>3. time_buffer # <<>> /\ lidar_frame_id_buffer # <<>>
  BY <1>1, <1>2, EmptySeq
<1>4. /\ lidar_buffer' \in Seq(SoundClouds) /\ Len(lidar_buffer') = Len(lidar_buffer) - 1
      /\ \A i \in 1 .. Len(lidar_buffer') : lidar_buffer'[i] = lidar_buffer[i + 1]
  BY <1>1, HeadTailProperties DEF PopScan
<1>5. /\ time_buffer' \in Seq(Positive) /\ Len(time_buffer') = Len(time_buffer) - 1
      /\ \A i \in 1 .. Len(time_buffer') : time_buffer'[i] = time_buffer[i + 1]
  BY <1>1, <1>3, HeadTailProperties DEF PopScan
<1>6. /\ lidar_frame_id_buffer' \in Seq(FrameIds)
      /\ Len(lidar_frame_id_buffer') = Len(lidar_frame_id_buffer) - 1
  BY <1>1, <1>3, HeadTailProperties DEF PopScan
<1> QED BY <1>1, <1>2, <1>4, <1>5, <1>6

\* What waits stays in order when its first scan leaves, also when the filter has then predicted
\* to a point of that scan.
LEMMA PopInOrder ==
  ASSUME TypesInv, AlignedInv, OrderInv, lidar_buffer # <<>>, PopScan,
         UNCHANGED <<config, con, last_timestamp_lidar>>,
         hist'.overlap = hist.overlap,
         \/ time_predict_last' = time_predict_last
         \/ \E p \in lidar_buffer[1] : time_predict_last' = time_buffer[1] + p[1]
  PROVE  OrderInv'
<1> SUFFICES ASSUME config.mode # "cut", ~hist.overlap PROVE OrderInv'
  BY DEF OrderInv
<1> DEFINE L == Len(lidar_buffer)
<1>1. /\ L \in Nat /\ L > 0 /\ Len(lidar_buffer') = L - 1
      /\ \A i \in 1 .. L - 1 : lidar_buffer'[i] = lidar_buffer[i + 1] /\ time_buffer'[i] = time_buffer[i + 1]
  BY PopMovesUp
<1>2. /\ \A i, j \in 1 .. L : i < j =>
           \A p \in lidar_buffer[i] : time_buffer[i] + p[1] <= time_buffer[j]
      /\ \A i \in 1 .. L : time_predict_last <= time_buffer[i]
      /\ last_timestamp_lidar # -1
  BY DEF OrderInv
<1> HIDE DEF L
<1>3. \A i, j \in 1 .. L - 1 : i < j =>
         \A p \in lidar_buffer'[i] : time_buffer'[i] + p[1] <= time_buffer'[j]
  <2> SUFFICES ASSUME NEW i \in 1 .. L - 1, NEW j \in 1 .. L - 1, i < j, NEW p \in lidar_buffer'[i]
               PROVE  time_buffer'[i] + p[1] <= time_buffer'[j]
    OBVIOUS
  <2>1. i + 1 \in 1 .. L /\ j + 1 \in 1 .. L /\ i + 1 < j + 1
    BY <1>1
  <2> QED BY <1>1, <1>2, <2>1
<1>4. \A i \in 1 .. L - 1 : time_predict_last' <= time_buffer'[i]
  <2> SUFFICES ASSUME NEW i \in 1 .. L - 1 PROVE time_predict_last' <= time_buffer'[i]
    OBVIOUS
  <2>1. i + 1 \in 1 .. L /\ 1 \in 1 .. L /\ 1 < i + 1
    BY <1>1
  <2> QED BY <1>1, <1>2, <2>1
<1>5. \A t : Until(t)' => Until(t)
  <2> SUFFICES ASSUME NEW t, Until(t)' PROVE Until(t)
    OBVIOUS
  <2>1. CASE t = time_predict_last'
    <3>1. 1 \in 1 .. Len(lidar_buffer)
      BY <1>1 DEF L
    <3> QED BY <2>1, <3>1 DEF Until
  <2>2. ASSUME NEW i \in 1 .. Len(lidar_buffer'), NEW p \in lidar_buffer'[i],
               t = time_buffer'[i] + p[1]
        PROVE  Until(t)
    <3>1. i \in 1 .. L - 1 /\ i + 1 \in 1 .. Len(lidar_buffer)
      BY <1>1, <2>2 DEF L
    <3>2. p \in lidar_buffer[i + 1] /\ t = time_buffer[i + 1] + p[1]
      BY <1>1, <2>2, <3>1
    <3> QED BY <3>1, <3>2 DEF Until
  <2> QED BY <2>1, <2>2 DEF Until
<1> QED BY <1>1, <1>2, <1>3, <1>4, <1>5 DEF OrderInv

-----------------------------------------------------------------------------
(* The timer: the scan that is taken and the messages for it *)

\* A scan with points ends with one of them, and begins no later.
LEMMA ScanIs ==
  ASSUME TypesInv, AlignedInv, lidar_buffer # <<>>, Head(lidar_buffer) # {}
  PROVE  /\ NextScan.beg \in Positive /\ NextScan.end \in Nat /\ Begin(NextScan) \in Nat
         /\ NextScan.beg <= Begin(NextScan) /\ Begin(NextScan) <= NextScan.end
         /\ NextScan.beg = time_buffer[1]
         /\ \E p \in lidar_buffer[1] : NextScan.end = time_buffer[1] + p[1]
<1> DEFINE c == lidar_buffer[1]
<1>1. Len(lidar_buffer) \in Nat /\ Len(lidar_buffer) > 0 /\ Len(time_buffer) = Len(lidar_buffer)
  BY LenProperties, EmptySeq DEF TypesInv, AlignedInv
<1>2. c \in SoundClouds /\ time_buffer[1] \in Positive
  BY <1>1, ElementOfSeq DEF TypesInv
<1>3. Head(lidar_buffer) = c /\ Head(time_buffer) = time_buffer[1]
  BY <1>1 DEF TypesInv
<1> HIDE DEF c
<1>4. c # {} /\ c \subseteq Nat \X Nat /\ HasLast(Curvatures(c))
  BY <1>2, <1>3 DEF SoundClouds
<1>5. Curvatures(c) \subseteq Nat /\ Curvatures(c) # {}
  BY <1>4 DEF Curvatures
<1>6. /\ Smallest(Curvatures(c)) \in Curvatures(c) /\ Largest(Curvatures(c)) \in Curvatures(c)
      /\ Smallest(Curvatures(c)) <= Largest(Curvatures(c))
  BY <1>4, <1>5, SmallestIs, LargestIs
<1>7. PICK p \in c : Largest(Curvatures(c)) = p[1]
  BY <1>6 DEF Curvatures
<1>8. /\ NextScan.beg = time_buffer[1] /\ NextScan.lidar = c
      /\ NextScan.end = time_buffer[1] + Largest(Curvatures(c))
  BY <1>3 DEF NextScan, EndOf
<1>9. Begin(NextScan) = time_buffer[1] + Smallest(Curvatures(c))
  BY <1>8 DEF Begin
<1>10. /\ Smallest(Curvatures(c)) \in Nat /\ Largest(Curvatures(c)) \in Nat /\ time_buffer[1] \in Nat
       /\ time_buffer[1] \in Positive
  BY <1>2, <1>5, <1>6 DEF Positive
<1> QED BY <1>6, <1>7, <1>8, <1>9, <1>10 DEF c

\* The messages the scan takes with it are some at the front of the deque; none, once there is a map.
LEMMA MovedIs ==
  ASSUME TypesInv, NEW m, m.end \in Nat
  PROVE  Moved(m) \in 0 .. Len(imu_deque) /\ (stage \in {"first", "run"} \/ ~config.imu_en => Moved(m) = 0)
<1>1. imu_deque \in Seq(Nat) /\ Len(imu_deque) \in Nat
  BY LenProperties, SeqMonotonic DEF TypesInv, Positive
<1>2. First(imu_deque, m.end) \in 0 .. Len(imu_deque)
  BY <1>1, FirstIs
<1>3. SelectInSeq(imu_deque, LAMBDA s : s >= m.end) = First(imu_deque, m.end)
  BY DEF First
<1>4. CASE stage \in {"first", "run"} \/ ~config.imu_en
  BY <1>1, <1>4 DEF Moved
<1>5. CASE ~(stage \in {"first", "run"} \/ ~config.imu_en)
  <2> DEFINE k == First(imu_deque, m.end)
  <2>1. Moved(m) = CASE k = 0 -> Len(imu_deque)
                     [] k > 1 /\ imu_deque[k] = m.end -> k
                     [] OTHER -> k - 1
    BY <1>3, <1>5 DEF Moved, TypesInv
  <2> HIDE DEF k
  <2>2. k \in 0 .. Len(imu_deque)
    BY <1>2 DEF k
  <2>3. Moved(m) \in 0 .. Len(imu_deque)
    BY <1>1, <2>1, <2>2
  <2> QED BY <1>5, <2>3
<1> QED BY <1>4, <1>5
\* What the loops of timer_callback run through: the message taken last and what the scan leaves
\* in the deque, after the k messages that go with the scan.
Line(k) ==
  <<IF k = 0 THEN imu_next ELSE imu_deque[k]>> \o SubSeq(imu_deque, k + 1, Len(imu_deque))

\* The line is a stretch of the deque, with the message taken last before it if k is 0.
LEMMA LineIs ==
  ASSUME TypesInv, NEW k \in 0 .. Len(imu_deque)
  PROVE  /\ Line(k) \in Seq(Nat) /\ Len(Line(k)) = 1 + Len(imu_deque) - k
         /\ Line(k)[1] = IF k = 0 THEN imu_next ELSE imu_deque[k]
         /\ \A i \in 1 .. Len(Line(k)) : k + i > 1 => Line(k)[i] = imu_deque[k + i - 1]
<1> DEFINE L == Len(imu_deque)
           front == IF k = 0 THEN imu_next ELSE imu_deque[k]
           rest == SubSeq(imu_deque, k + 1, L)
<1>1. L \in Nat /\ k \in Nat /\ k <= L /\ imu_next \in Nat /\ \A i \in 1 .. L : imu_deque[i] \in Nat
  BY LenProperties, ElementOfSeq DEF TypesInv, Positive
<1>2. front \in Nat
  BY <1>1
<1>3. /\ rest \in Seq(Nat) /\ Len(rest) = L - k
      /\ \A i \in 1 .. L - k : rest[i] = imu_deque[k + i]
  <2>1. \A i \in k + 1 .. L : imu_deque[i] \in Nat
    BY <1>1
  <2>2. k + 1 \in Int /\ L \in Int
    BY <1>1
  <2> HIDE DEF L
  <2>3. /\ rest \in Seq(Nat)
        /\ Len(rest) = IF k + 1 <= L THEN L - (k + 1) + 1 ELSE 0
        /\ \A i \in 1 .. L - (k + 1) + 1 : rest[i] = imu_deque[(k + 1) + i - 1]
    BY <2>1, <2>2, SubSeqProperties
  <2> HIDE DEF rest
  <2>4. Len(rest) = L - k
    BY <1>1, <2>3
  <2>5. ASSUME NEW i \in 1 .. L - k PROVE rest[i] = imu_deque[k + i]
    <3>1. (k + 1) + i - 1 = k + i /\ i \in 1 .. L - (k + 1) + 1
      BY <1>1
    <3> QED BY <2>3, <3>1
  <2> QED BY <2>3, <2>4, <2>5
<1>4. Line(k) = <<front>> \o rest
  BY DEF Line
<1> HIDE DEF L, front, rest
<1>5. <<front>> \in Seq(Nat) /\ Len(<<front>>) = 1 /\ <<front>>[1] = front
  BY <1>2
<1>6. /\ Line(k) \in Seq(Nat) /\ Len(Line(k)) = 1 + (L - k)
      /\ \A i \in 1 .. 1 + (L - k) : Line(k)[i] = IF i <= 1 THEN <<front>>[i] ELSE rest[i - 1]
  BY <1>3, <1>4, <1>5, ConcatProperties
<1>7. Line(k)[1] = front
  BY <1>1, <1>5, <1>6
<1>8. ASSUME NEW i \in 1 .. 1 + (L - k), k + i > 1 PROVE Line(k)[i] = imu_deque[k + i - 1]
  <2>1. CASE i = 1
    BY <1>1, <1>7, <1>8, <2>1 DEF front
  <2>2. CASE i # 1
    <3>1. i - 1 \in 1 .. L - k /\ ~(i <= 1) /\ k + (i - 1) = k + i - 1
      BY <1>1, <2>2
    <3> QED BY <1>3, <1>6, <3>1
  <2> QED BY <2>1, <2>2
<1> QED BY <1>1, <1>6, <1>7, <1>8 DEF L, front

\* The place in the line at which the loops leave it.
LeavesAt(k, a) ==
  /\ starved' = FALSE
  /\ imu_next' = Line(k)[a]
  /\ imu_deque' \in Seq(Nat) /\ Len(imu_deque') = Len(Line(k)) - a
  /\ \A i \in 1 .. Len(imu_deque') : imu_deque'[i] = Line(k)[a + i]

\* The message at which the line is left becomes the next one, and those behind it the deque.
LEMMA ForwardLeaves ==
  ASSUME TypesInv, NEW k \in 0 .. Len(imu_deque), NEW a \in 1 .. Len(Line(k)),
         Leave(SubSeq(Line(k), a, Len(Line(k))))
  PROVE  LeavesAt(k, a)
<1> DEFINE line == Line(k)
           E == Len(line)
           rest == SubSeq(line, a, E)
<1>1. line \in Seq(Nat) /\ E \in Nat /\ \A i \in 1 .. E : line[i] \in Nat
  BY LineIs, LenProperties, ElementOfSeq
<1> HIDE DEF line
<1>2. a \in Int /\ E \in Int /\ 1 <= a /\ a <= E
  BY <1>1 DEF line
<1> HIDE DEF E
<1>3. \A i \in a .. E : line[i] \in Nat
  BY <1>1, <1>2
<1>4. /\ rest \in Seq(Nat) /\ Len(rest) = IF a <= E THEN E - a + 1 ELSE 0
      /\ \A i \in 1 .. E - a + 1 : rest[i] = line[a + i - 1]
  BY <1>2, <1>3, SubSeqProperties
<1>5. Leave(rest)
  BY DEF line, E
<1> HIDE DEF rest
<1>6. Len(rest) = E - a + 1 /\ Len(rest) > 0
  BY <1>2, <1>4
<1>7. rest # <<>>
  BY <1>6
<1>8. Head(rest) = rest[1] /\ rest[1] = line[a]
  <2>1. 1 \in 1 .. E - a + 1 /\ a + 1 - 1 = a
    BY <1>2
  <2> QED BY <1>4, <1>7, <2>1
<1>9. /\ Tail(rest) \in Seq(Nat) /\ Len(Tail(rest)) = E - a
      /\ \A i \in 1 .. E - a : Tail(rest)[i] = line[a + i]
  <2>1. /\ Tail(rest) \in Seq(Nat) /\ Len(Tail(rest)) = Len(rest) - 1
        /\ \A i \in 1 .. Len(Tail(rest)) : Tail(rest)[i] = rest[i + 1]
    BY <1>4, <1>7, HeadTailProperties
  <2>2. ASSUME NEW i \in 1 .. E - a PROVE Tail(rest)[i] = line[a + i]
    <3>1. i \in 1 .. Len(Tail(rest)) /\ i + 1 \in 1 .. E - a + 1 /\ a + (i + 1) - 1 = a + i
      BY <1>2, <1>6, <2>1
    <3> QED BY <1>4, <2>1, <3>1
  <2> QED BY <1>2, <1>6, <2>1, <2>2
<1>10. starved' = FALSE /\ imu_next' = Head(rest) /\ imu_deque' = Tail(rest)
  BY <1>5, <1>7 DEF Leave
<1> QED BY <1>8, <1>9, <1>10 DEF LeavesAt, line, E

\* Nothing of the line is passed over when there is no loop.
LEMMA StartLeaves ==
  ASSUME TypesInv, NEW k \in 0 .. Len(imu_deque), Leave(Line(k))
  PROVE  1 \in 1 .. Len(Line(k)) /\ LeavesAt(k, 1)
<1>1. Line(k) \in Seq(Nat) /\ Len(Line(k)) = 1 + Len(imu_deque) - k
  BY LineIs
<1>2. Len(imu_deque) \in Nat
  BY LenProperties DEF TypesInv
<1>3. 1 \in 1 .. Len(Line(k))
  BY <1>1, <1>2
<1>4. SubSeq(Line(k), 1, Len(Line(k))) = Line(k)
  BY <1>1, SubSeqFull
<1> QED BY <1>3, <1>4, ForwardLeaves

\* The deque and its order after the loops.
LEMMA LeavesInOrder ==
  ASSUME TypesInv, StampInv, JumpInv, NEW k \in 0 .. Len(imu_deque), NEW a \in 1 .. Len(Line(k)),
         LeavesAt(k, a), hist'.jump = hist.jump,
         last_timestamp_imu' \in {0, last_timestamp_imu}
  PROVE  /\ imu_deque' \in Seq(Positive) /\ imu_next' \in Nat
         /\ StampInv' /\ JumpInv'
<1> DEFINE L == Len(imu_deque)
           e == k + a - 1
<1>1. /\ L \in Nat /\ k \in Nat /\ k <= L /\ Len(Line(k)) = 1 + L - k
      /\ \A i \in 1 .. L : imu_deque[i] \in Positive
  BY LineIs, LenProperties, ElementOfSeq DEF TypesInv
<1>2. a \in Nat /\ 1 <= a /\ a <= 1 + L - k
  BY <1>1
<1>3. e \in 0 .. L /\ Len(imu_deque') = L - e
  BY <1>1, <1>2 DEF LeavesAt
<1>4. \A i \in 1 .. L - e : imu_deque'[i] = imu_deque[e + i]
  <2> SUFFICES ASSUME NEW i \in 1 .. L - e PROVE imu_deque'[i] = imu_deque[e + i]
    OBVIOUS
  <2>1. a + i \in 1 .. Len(Line(k)) /\ k + (a + i) > 1 /\ k + (a + i) - 1 = e + i
    BY <1>1, <1>2
  <2>2. imu_deque'[i] = Line(k)[a + i]
    BY <1>3 DEF LeavesAt
  <2>3. Line(k)[a + i] = imu_deque[k + (a + i) - 1]
    BY <2>1, LineIs
  <2> QED BY <2>1, <2>2, <2>3
<1>5. imu_next' = IF e = 0 THEN imu_next ELSE imu_deque[e]
  <2>1. imu_next' = Line(k)[a]
    BY DEF LeavesAt
  <2>2. CASE e = 0
    BY <1>1, <1>2, <2>1, <2>2, LineIs
  <2>3. CASE e # 0
    <3>1. k + a > 1
      BY <1>1, <1>2, <2>3
    <3>2. Line(k)[a] = imu_deque[k + a - 1]
      BY <3>1, LineIs
    <3> QED BY <2>1, <2>3, <3>2
  <2> QED BY <2>2, <2>3
<1> HIDE DEF e, L
<1>6. imu_next' \in Nat
  BY <1>1, <1>3, <1>5 DEF TypesInv, Positive
<1>7. imu_deque' \in Seq(Positive)
  <2>1. \A i \in 1 .. Len(imu_deque') : imu_deque'[i] \in Positive
    BY <1>1, <1>3, <1>4
  <2> QED BY <2>1, <1>1, <1>3 DEF LeavesAt
<1>8. StampInv'
  <2> SUFFICES ASSUME imu_deque' # <<>>, last_timestamp_imu' > 0
               PROVE  imu_deque'[Len(imu_deque')] = last_timestamp_imu'
    BY DEF StampInv
  <2>1. Len(imu_deque') > 0
    BY <1>3, <1>7, EmptySeq
  <2>2. L - e \in 1 .. L - e /\ e + (L - e) = L /\ L > 0
    BY <1>1, <1>3, <2>1
  <2>3. imu_deque'[Len(imu_deque')] = imu_deque[L]
    BY <1>3, <1>4, <2>2
  <2>4. imu_deque # <<>>
    BY <2>2 DEF L
  <2>5. last_timestamp_imu' = last_timestamp_imu
    OBVIOUS
  <2> QED BY <2>3, <2>4, <2>5 DEF StampInv, L
<1>9. JumpInv'
  <2> SUFFICES ASSUME ~hist.jump PROVE JumpInv'
    BY DEF JumpInv
  <2>1. /\ \A i, j \in 1 .. L : i < j => imu_deque[i] <= imu_deque[j]
        /\ \A i \in 1 .. L : imu_next <= imu_deque[i]
    BY DEF JumpInv, L
  <2>2. ASSUME NEW i \in 1 .. L - e, NEW j \in 1 .. L - e, i < j
        PROVE  imu_deque'[i] <= imu_deque'[j]
    <3>1. e + i \in 1 .. L /\ e + j \in 1 .. L /\ e + i < e + j
      BY <1>1, <1>3, <2>2
    <3> QED BY <1>4, <2>1, <3>1
  <2>3. ASSUME NEW i \in 1 .. L - e PROVE imu_next' <= imu_deque'[i]
    <3>1. e + i \in 1 .. L /\ e < e + i /\ (e # 0 => e \in 1 .. L)
      BY <1>1, <1>3
    <3> QED BY <1>4, <1>5, <2>1, <3>1
  <2> QED BY <1>3, <2>2, <2>3 DEF JumpInv
<1> QED BY <1>6, <1>7, <1>8, <1>9
\* When the newest message is not before t, the loop up to t stops at one that is not before t.
LEMMA LoopStops ==
  ASSUME TypesInv, StampInv, NEW k \in 0 .. Len(imu_deque), NEW t \in Positive,
         imu_deque # <<>>, last_timestamp_imu >= t
  PROVE  /\ First(Line(k), t) \in 1 .. Len(Line(k))
         /\ Line(k)[First(Line(k), t)] >= t
         /\ Forward(Line(k), t) = SubSeq(Line(k), First(Line(k), t), Len(Line(k)))
<1> DEFINE E == Len(Line(k))
<1>1. /\ Len(imu_deque) \in Nat /\ Len(imu_deque) > 0 /\ last_timestamp_imu \in Int
      /\ imu_deque \in Seq(Positive)
  BY LenProperties, EmptySeq DEF TypesInv
<1>2. t \in Nat /\ t > 0 /\ t \in Int
  BY DEF Positive
<1>3. imu_deque[Len(imu_deque)] = last_timestamp_imu
  BY <1>1, <1>2 DEF StampInv
<1>4. Line(k) \in Seq(Nat) /\ E = 1 + Len(imu_deque) - k
  BY LineIs
<1>5. E \in 1 .. E /\ k + E > 1 /\ k + E - 1 = Len(imu_deque)
  BY <1>1, <1>4
<1>6. Line(k)[E] = imu_deque[k + E - 1]
  BY <1>5, LineIs
<1>7. Line(k)[E] >= t
  BY <1>3, <1>5, <1>6
<1> HIDE DEF E
<1>8. /\ First(Line(k), t) \in 0 .. E
      /\ First(Line(k), t) > 0 => Line(k)[First(Line(k), t)] >= t
      /\ 0 < First(Line(k), t)
  BY <1>2, <1>4, <1>5, <1>7, FirstIs DEF E
<1>9. First(Line(k), t) \in 1 .. E /\ Line(k)[First(Line(k), t)] >= t /\ First(Line(k), t) # 0
  BY <1>8
<1> QED BY <1>9 DEF Forward, E

\* The line is in order when the IMU's time did not jump.
LEMMA LineInOrder ==
  ASSUME TypesInv, JumpInv, ~hist.jump, NEW k \in 0 .. Len(imu_deque)
  PROVE  \A i, j \in 1 .. Len(Line(k)) : i < j => Line(k)[i] <= Line(k)[j]
<1> SUFFICES ASSUME NEW i \in 1 .. Len(Line(k)), NEW j \in 1 .. Len(Line(k)), i < j
             PROVE  Line(k)[i] <= Line(k)[j]
  OBVIOUS
<1>1. /\ Len(imu_deque) \in Nat /\ k \in Nat /\ k <= Len(imu_deque)
      /\ Len(Line(k)) = 1 + Len(imu_deque) - k
  BY LineIs, LenProperties DEF TypesInv
<1>2. /\ \A x, y \in 1 .. Len(imu_deque) : x < y => imu_deque[x] <= imu_deque[y]
      /\ \A x \in 1 .. Len(imu_deque) : imu_next <= imu_deque[x]
  BY DEF JumpInv
<1>3. k + j > 1 /\ k + j - 1 \in 1 .. Len(imu_deque)
  BY <1>1
<1>4. Line(k)[j] = imu_deque[k + j - 1]
  BY <1>3, LineIs
<1>5. CASE k = 0 /\ i = 1
  <2>1. Line(k)[i] = imu_next
    BY <1>5, LineIs
  <2> QED BY <1>2, <1>3, <1>4, <2>1
<1>6. CASE ~(k = 0 /\ i = 1)
  <2>1. k + i > 1 /\ k + i - 1 \in 1 .. Len(imu_deque) /\ k + i - 1 < k + j - 1
    BY <1>1, <1>6
  <2>2. Line(k)[i] = imu_deque[k + i - 1]
    BY <2>1, LineIs
  <2> QED BY <1>2, <1>3, <1>4, <2>1, <2>2
<1> QED BY <1>5, <1>6

\* The filter is not asked to go back for the next scan, if scans did not overlap and the IMU's
\* time did not jump: it starts no later than the scan, the messages it passes are in order, and
\* the first of them is not before its start.
LEMMA NeverBack ==
  ASSUME TypesInv, AlignedInv, StampInv, OrderInv, JumpInv, NextInv,
         lidar_buffer # <<>>, Head(lidar_buffer) # {},
         config.mode # "cut", ~hist.overlap, ~hist.jump,
         stage \in {"first", "run"},
         config.imu_en => imu_deque # <<>> /\ last_timestamp_imu >= NextScan.end
  PROVE  ~GoesBack(NextScan, Line(0))
<1> DEFINE m == NextScan
           line == Line(0)
           E == Len(line)
           passed == Passed(m, line)
           at == <<Start(m)>> \o passed
<1>1. /\ m.beg \in Positive /\ m.end \in Nat /\ Begin(m) \in Nat
      /\ m.beg <= Begin(m) /\ Begin(m) <= m.end /\ m.beg = time_buffer[1]
  BY ScanIs
<1>2. time_predict_last <= m.beg /\ time_predict_last \in Nat
  <2>1. 1 \in 1 .. Len(lidar_buffer)
    BY LenProperties, EmptySeq DEF TypesInv
  <2> QED BY <1>1, <2>1 DEF OrderInv, TypesInv
<1>3. Start(m) \in Nat /\ Start(m) <= Begin(m)
  BY <1>1, <1>2 DEF Start, Positive
<1>4. ~(Begin(m) < Start(m))
  BY <1>1, <1>3
<1>5. 0 \in 0 .. Len(imu_deque)
  BY LenProperties DEF TypesInv
<1>6. /\ line \in Seq(Nat) /\ E \in Nat /\ E >= 1 /\ line[1] = imu_next
      /\ \A i \in 1 .. E : line[i] \in Nat
  BY <1>5, LineIs, LenProperties, ElementOfSeq, SMTT(30) DEF TypesInv
<1>7. \A i, j \in 1 .. E : i < j => line[i] <= line[j]
  BY <1>5, LineInOrder
<1> HIDE DEF m, line
<1>8. CASE ~config.imu_en
  <2>1. passed = <<>>
    BY <1>8 DEF Passed
  <2>2. at = <<Start(m)>> /\ Len(at) = 1
    BY <1>3, <2>1
  <2>3. ~ \E i \in 1 .. (Len(at) - 1) : at[i] > at[i + 1]
    BY <2>2
  <2> QED BY <1>4, <2>3 DEF GoesBack, m, line
<1>9. CASE config.imu_en
  <2> DEFINE a == IF stage = "first" THEN First(line, Begin(m)) ELSE 1
             b == First(line, m.end) - 1
  <2>1. m.end \in Positive /\ Begin(m) \in Positive /\ last_timestamp_imu \in Int
        /\ last_timestamp_imu >= m.end /\ last_timestamp_imu >= Begin(m)
    BY <1>1, <1>9, SMTT(30) DEF Positive, TypesInv, m
  <2>2. /\ First(line, m.end) \in 1 .. E
        /\ First(line, Begin(m)) \in 1 .. E /\ line[First(line, Begin(m))] >= Begin(m)
    BY <1>5, <1>9, <2>1, LoopStops DEF line
  <2>3. a \in 1 .. E /\ b \in 0 .. E - 1
    BY <1>6, <2>2
  <2>4. line[a] >= Start(m)
    <3>1. CASE stage = "first"
      BY <1>1, <1>3, <1>6, <2>2, <2>3, <3>1
    <3>2. CASE stage # "first"
      <4>1. stage = "run" /\ a = 1 /\ Start(m) = time_predict_last
        BY <3>2 DEF Start
      <4>2. time_predict_last <= imu_next
        BY <1>9, <4>1 DEF NextInv
      <4> QED BY <1>2, <1>6, <2>3, <4>1, <4>2
    <3> QED BY <3>1, <3>2
  <2>5. passed = SubSeq(line, a, b)
    BY <1>9 DEF Passed
  <2> HIDE DEF a, b, E, passed
  <2>6. \A i \in a .. b : line[i] \in Nat
    BY <1>6, <2>3
  <2>7. /\ passed \in Seq(Nat) /\ Len(passed) = IF a <= b THEN b - a + 1 ELSE 0
        /\ \A i \in 1 .. b - a + 1 : passed[i] = line[a + i - 1]
    BY <2>3, <2>5, <2>6, SubSeqProperties
  <2>8. <<Start(m)>> \in Seq(Nat) /\ Len(<<Start(m)>>) = 1 /\ <<Start(m)>>[1] = Start(m)
    BY <1>3
  <2>9. /\ Len(at) = 1 + Len(passed)
        /\ \A i \in 1 .. 1 + Len(passed) :
             at[i] = IF i <= 1 THEN <<Start(m)>>[i] ELSE passed[i - 1]
    BY <2>7, <2>8, ConcatProperties
  <2> HIDE DEF at
  <2>10. ASSUME NEW i \in 1 .. (Len(at) - 1) PROVE at[i] <= at[i + 1]
    <3>1. a <= b /\ Len(passed) = b - a + 1 /\ i \in 1 .. b - a + 1
      BY <2>3, <2>7, <2>9
    <3>2. i + 1 \in 1 .. 1 + Len(passed) /\ ~(i + 1 <= 1) /\ (i + 1) - 1 = i /\ i \in 1 .. 1 + Len(passed)
      BY <2>3, <3>1
    <3>3. at[i + 1] = passed[i]
      BY <2>9, <3>2
    <3>4. passed[i] = line[a + i - 1] /\ a + i - 1 \in 1 .. E /\ a + i - 1 >= a
      BY <1>6, <2>3, <2>7, <3>1
    <3>5. CASE i = 1
      <4>1. at[i] = Start(m)
        BY <2>8, <2>9, <3>2, <3>5
      <4>2. at[i + 1] = line[a]
        BY <2>3, <3>3, <3>4, <3>5
      <4> QED BY <2>4, <1>3, <1>6, <2>3, <4>1, <4>2
    <3>6. CASE i # 1
      <4>1. ~(i <= 1) /\ i - 1 \in 1 .. b - a + 1
        BY <2>3, <3>1, <3>6
      <4>2. at[i] = passed[i - 1]
        BY <2>9, <3>2, <4>1
      <4>3. passed[i - 1] = line[a + (i - 1) - 1]
        BY <2>7, <4>1
      <4>4. a + (i - 1) - 1 \in 1 .. E /\ a + (i - 1) - 1 < a + i - 1
        BY <1>6, <2>3, <3>1, <4>1
      <4> QED BY <1>7, <3>3, <3>4, <4>2, <4>3, <4>4
    <3> QED BY <3>5, <3>6
  <2>11. \A i \in 1 .. (Len(at) - 1) : at[i] \in Nat /\ at[i + 1] \in Nat
    <3> SUFFICES ASSUME NEW i \in 1 .. (Len(at) - 1) PROVE at[i] \in Nat /\ at[i + 1] \in Nat
      OBVIOUS
    <3>1. Len(passed) \in Nat /\ \A j \in 1 .. Len(passed) : passed[j] \in Nat
      BY <2>7, LenProperties, ElementOfSeq
    <3>2. \A j \in 1 .. 1 + Len(passed) : at[j] \in Nat
      <4> SUFFICES ASSUME NEW j \in 1 .. 1 + Len(passed) PROVE at[j] \in Nat
        OBVIOUS
      <4>1. CASE j <= 1
        BY <1>3, <2>8, <2>9, <3>1, <4>1
      <4>2. CASE ~(j <= 1)
        <5>1. j - 1 \in 1 .. Len(passed)
          BY <3>1, <4>2
        <5> QED BY <2>9, <3>1, <4>2, <5>1
      <4> QED BY <4>1, <4>2
    <3> QED BY <2>9, <3>1, <3>2
  <2>12. ~ \E i \in 1 .. (Len(at) - 1) : at[i] > at[i + 1]
    BY <2>10, <2>11
  <2> QED BY <1>4, <2>12 DEF GoesBack, m, line, at, passed
<1> QED BY <1>8, <1>9
-----------------------------------------------------------------------------
(* The timer callback *)

\* Taking a scan keeps the invariant.
LEMMA TakeScanKeeps ==
  ASSUME IInv, config.lidar = "livox", lidar_buffer # <<>>, Head(lidar_buffer) # {},
         config.imu_en => imu_deque # <<>> /\ last_timestamp_imu >= NextScan.end,
         TakeScan(NextScan)
  PROVE  IInv'
<1> DEFINE m == NextScan
           k == Moved(m)
           line == Line(k)
           count == IF stage = "imu_init" THEN meas_imu + k ELSE meas_imu
<1>1. /\ TypesInv /\ AlignedInv /\ StampInv /\ OrderInv /\ JumpInv /\ NextInv /\ BackInv /\ ~starved
      /\ config \in Configs
  BY DEF IInv
<1>2. /\ m.beg \in Positive /\ m.end \in Nat /\ Begin(m) \in Nat
      /\ m.beg <= Begin(m) /\ Begin(m) <= m.end /\ m.beg = time_buffer[1]
      /\ \E p \in lidar_buffer[1] : m.end = time_buffer[1] + p[1]
  BY <1>1, ScanIs
<1>3. /\ k \in 0 .. Len(imu_deque)
      /\ stage \in {"first", "run"} \/ ~config.imu_en => k = 0
  BY <1>1, <1>2, MovedIs
<1>4. /\ PopScan /\ lidar_pushed' = FALSE /\ Enter(m) /\ Process(m, line, count)
      /\ UNCHANGED <<config, last_timestamp_lidar, con>>
  BY DEF TakeScan, Line
<1> HIDE DEF k, m, line
<1>5. /\ m.beg \in Positive /\ m.end \in Positive /\ m.beg <= m.end
  BY <1>2 DEF Positive
<1>6. last_timestamp_imu' \in {0, last_timestamp_imu}
  BY <1>4 DEF Enter
<1>7. hist \in [overlap : BOOLEAN, jump : BOOLEAN, back : BOOLEAN]
  BY <1>1 DEF TypesInv
\* Where the line is left, and what becomes of the stage.
<1>8. \E a \in 1 .. Len(line) :
        /\ LeavesAt(k, a)
        /\ stage' = "run" /\ config.imu_en => line[a] >= time_predict_last'
  <2>1. CASE stage = "imu_init" /\ Leave(line) /\ UNCHANGED <<stage, time_predict_last, hist>>
    BY <1>1, <1>3, <2>1, StartLeaves DEF line
  <2>2. CASE stage' # "run" /\ Leave(IF stage = "imu_init" /\ config.imu_en THEN Forward(line, m.beg) ELSE line)
    <3>1. CASE stage = "imu_init" /\ config.imu_en
      <4>1. imu_deque # <<>> /\ last_timestamp_imu >= m.beg
        BY <1>1, <1>5, <3>1 DEF m, TypesInv, Positive
      <4>2. First(line, m.beg) \in 1 .. Len(line)
            /\ Forward(line, m.beg) = SubSeq(line, First(line, m.beg), Len(line))
        BY <1>1, <1>3, <1>5, <4>1, LoopStops DEF line
      <4>3. Leave(SubSeq(line, First(line, m.beg), Len(line)))
        BY <2>2, <3>1, <4>2
      <4>4. LeavesAt(k, First(line, m.beg))
        BY <1>1, <1>3, <4>2, <4>3, ForwardLeaves DEF line
      <4> QED BY <2>2, <4>2, <4>4
    <3>2. CASE ~(stage = "imu_init" /\ config.imu_en)
      <4>1. Leave(line)
        BY <2>2, <3>2
      <4> QED BY <1>1, <1>3, <2>2, <4>1, StartLeaves DEF line
    <3> QED BY <3>1, <3>2
  <2>3. CASE stage' = "run" /\ time_predict_last' = m.end
             /\ Leave(IF config.imu_en THEN Forward(line, m.end) ELSE line)
    <3>1. CASE config.imu_en
      <4>1. imu_deque # <<>> /\ last_timestamp_imu >= m.end
        BY <3>1 DEF m
      <4>2. First(line, m.end) \in 1 .. Len(line) /\ line[First(line, m.end)] >= m.end
            /\ Forward(line, m.end) = SubSeq(line, First(line, m.end), Len(line))
        BY <1>1, <1>3, <1>5, <4>1, LoopStops DEF line
      <4>3. Leave(SubSeq(line, First(line, m.end), Len(line)))
        BY <2>3, <3>1, <4>2
      <4>4. LeavesAt(k, First(line, m.end))
        BY <1>1, <1>3, <4>2, <4>3, ForwardLeaves DEF line
      <4> QED BY <2>3, <4>2, <4>4
    <3>2. CASE ~config.imu_en
      <4>1. Leave(line)
        BY <2>3, <3>2
      <4> QED BY <1>1, <1>3, <3>2, <4>1, StartLeaves DEF line
    <3> QED BY <3>1, <3>2
  <2> QED BY <1>4, <2>1, <2>2, <2>3 DEF Process
<1>9. PICK a \in 1 .. Len(line) :
        /\ LeavesAt(k, a)
        /\ stage' = "run" /\ config.imu_en => line[a] >= time_predict_last'
  BY <1>8
<1>10. /\ stage' \in {"imu_init", "map_init", "first", "run"}
       /\ time_predict_last' \in {time_predict_last, m.end}
       /\ hist' = hist \/ (stage \in {"first", "run"} /\ hist' = [hist EXCEPT !.back = @ \/ GoesBack(m, line)])
  BY <1>4 DEF Process
<1>11. /\ hist' \in [overlap : BOOLEAN, jump : BOOLEAN, back : BOOLEAN]
       /\ hist'.overlap = hist.overlap /\ hist'.jump = hist.jump
       /\ hist'.back => hist.back \/ (stage \in {"first", "run"} /\ GoesBack(m, line))
  <2>1. CASE hist' = hist
    BY <1>7, <2>1
  <2>2. CASE stage \in {"first", "run"} /\ hist' = [hist EXCEPT !.back = @ \/ GoesBack(m, line)]
    <3>1. /\ hist'.overlap = hist.overlap /\ hist'.jump = hist.jump
          /\ hist'.back = (hist.back \/ GoesBack(m, line))
      BY <1>7, <2>2
    <3>2. hist' = [overlap |-> hist.overlap, jump |-> hist.jump, back |-> hist.back \/ GoesBack(m, line)]
      BY <1>7, <2>2
    <3>3. (hist.back \/ GoesBack(m, line)) \in BOOLEAN
      OBVIOUS
    <3> QED BY <1>7, <2>2, <3>1, <3>2, <3>3
  <2> QED BY <1>10, <2>1, <2>2
<1>12. /\ imu_deque' \in Seq(Positive) /\ imu_next' \in Nat /\ StampInv' /\ JumpInv'
  BY <1>1, <1>3, <1>6, <1>9, <1>11, LeavesInOrder DEF line
<1>13. /\ lidar_buffer' \in Seq(SoundClouds) /\ time_buffer' \in Seq(Positive)
       /\ lidar_frame_id_buffer' \in Seq(FrameIds)
       /\ Len(time_buffer') = Len(lidar_buffer') /\ Len(lidar_frame_id_buffer') = Len(lidar_buffer')
  BY <1>1, <1>4, PopMovesUp
<1>14. AlignedInv'
  BY <1>4, <1>13 DEF AlignedInv
<1>15. last_timestamp_imu' \in Int /\ time_predict_last' \in Nat
  BY <1>1, <1>2, <1>6, <1>10 DEF TypesInv, m
<1>16. TypesInv'
  BY <1>1, <1>4, <1>10, <1>11, <1>12, <1>13, <1>15 DEF TypesInv
<1>17. OrderInv'
  <2>1. \/ time_predict_last' = time_predict_last
        \/ \E p \in lidar_buffer[1] : time_predict_last' = time_buffer[1] + p[1]
    BY <1>2, <1>10 DEF m
  <2> QED BY <1>1, <1>4, <1>11, <2>1, PopInOrder
<1>18. NextInv'
  BY <1>4, <1>9 DEF NextInv, LeavesAt, line
<1>19. BackInv'
  <2> SUFFICES ASSUME hist'.back, ~hist'.overlap, ~hist'.jump, config.mode # "cut" PROVE FALSE
    BY <1>4 DEF BackInv
  <2>1. ~hist.overlap /\ ~hist.jump /\ ~hist.back
    BY <1>1, <1>11 DEF BackInv
  <2>2. stage \in {"first", "run"} /\ GoesBack(m, line)
    BY <1>11, <2>1
  <2>3. line = Line(0)
    BY <1>3, <2>2 DEF line
  <2>4. ~GoesBack(NextScan, Line(0))
    BY <1>1, <2>1, <2>2, NeverBack
  <2> QED BY <2>2, <2>3, <2>4 DEF m
<1>20. ~starved' /\ config' = config
  BY <1>4, <1>9 DEF LeavesAt
<1> QED BY <1>1, <1>12, <1>14, <1>16, <1>17, <1>18, <1>19, <1>20 DEF IInv

\* The timer callback keeps the invariant.
LEMMA TimerCallbackKeeps ==
  ASSUME IInv, config.lidar = "livox", timer_callback
  PROVE  IInv'
<1>1. /\ TypesInv /\ AlignedInv /\ StampInv /\ OrderInv /\ JumpInv /\ NextInv /\ BackInv /\ ~starved
      /\ config \in Configs
  BY DEF IInv
<1>2. lidar_buffer # <<>> /\ lidar_frame_id_buffer # <<>>
  <2>1. lidar_buffer # <<>>
    BY DEF timer_callback
  <2>2. lidar_frame_id_buffer \in Seq(FrameIds) /\ lidar_buffer \in Seq(SoundClouds)
        /\ Len(lidar_frame_id_buffer) = Len(lidar_buffer)
    BY <1>1 DEF TypesInv, AlignedInv
  <2> QED BY <2>1, <2>2, EmptySeq
<1>3. /\ config.imu_en => imu_deque # <<>>
      /\ IF Head(lidar_buffer) = {} THEN LoseScan
         ELSE LET m == IF lidar_pushed THEN meas ELSE NextScan
              IN IF config.imu_en /\ last_timestamp_imu < Needed(m)
                 THEN WaitForImu(m) ELSE TakeScan(m)
  BY <1>2, Zenon DEF timer_callback
<1>4. CASE Head(lidar_buffer) = {}
  <2>1. LoseScan
    BY <1>3, <1>4
  <2>2. PopScan
    BY <2>1 DEF LoseScan
  <2>3. UNCHANGED <<config, last_timestamp_lidar, con, imu_deque, last_timestamp_imu, imu_next,
                    lidar_pushed, meas, filter, starved, hist>>
    BY <2>1 DEF LoseScan
  <2>4. ~lidar_pushed
    BY <1>1, <1>4 DEF AlignedInv
  <2>5. /\ lidar_buffer' \in Seq(SoundClouds) /\ time_buffer' \in Seq(Positive)
        /\ lidar_frame_id_buffer' \in Seq(FrameIds)
        /\ Len(time_buffer') = Len(lidar_buffer') /\ Len(lidar_frame_id_buffer') = Len(lidar_buffer')
    BY <1>1, <1>2, <2>2, PopMovesUp
  <2>6. TypesInv' /\ AlignedInv' /\ StampInv' /\ JumpInv' /\ NextInv' /\ BackInv' /\ ~starved'
    BY <1>1, <2>3, <2>4, <2>5 DEF TypesInv, AlignedInv, StampInv, JumpInv, NextInv, BackInv, filter
  <2>7. OrderInv'
    BY <1>1, <1>2, <2>2, <2>3, PopInOrder DEF filter
  <2> QED BY <1>1, <2>3, <2>6, <2>7 DEF IInv
<1>5. CASE Head(lidar_buffer) # {}
  <2>1. (IF lidar_pushed THEN meas ELSE NextScan) = NextScan
    BY <1>1 DEF AlignedInv
  <2>2. CASE config.imu_en /\ last_timestamp_imu < Needed(NextScan)
    <3>1. WaitForImu(NextScan)
      BY <1>3, <1>5, <2>1, <2>2
    <3>2. /\ lidar_pushed' = TRUE /\ meas' = NextScan
          /\ UNCHANGED <<config, buffers, last_timestamp_lidar, con, imu_deque, last_timestamp_imu,
                         imu_next, filter, starved, hist>>
      BY <3>1 DEF WaitForImu
    <3>3. \A t : Until(t)' = Until(t)
      BY <3>2 DEF Until, filter, buffers
    <3>4. TypesInv' /\ AlignedInv' /\ StampInv' /\ JumpInv' /\ NextInv' /\ BackInv' /\ ~starved'
      BY <1>1, <1>2, <1>5, <3>2
         DEF TypesInv, AlignedInv, StampInv, JumpInv, NextInv, BackInv, NextScan, filter, buffers
    <3>5. OrderInv'
      BY <1>1, <3>2, <3>3 DEF OrderInv, filter, buffers
    <3> QED BY <1>1, <3>2, <3>4, <3>5 DEF IInv
  <2>3. CASE ~(config.imu_en /\ last_timestamp_imu < Needed(NextScan))
    <3>1. TakeScan(NextScan)
      BY <1>3, <1>5, <2>1, <2>3
    <3>2. NextScan.end \in Nat /\ last_timestamp_imu \in Int
      BY <1>1, <1>2, <1>5, ScanIs DEF TypesInv
    <3>3. config.imu_en => imu_deque # <<>> /\ last_timestamp_imu >= NextScan.end
      BY <1>3, <2>3, <3>2 DEF Needed
    <3> QED BY <1>2, <1>5, <3>1, <3>3, TakeScanKeeps
  <2> QED BY <2>2, <2>3
<1> QED BY <1>4, <1>5
-----------------------------------------------------------------------------
(* The theorems *)

LEMMA InitIsSound == Init => IInv
<1> SUFFICES ASSUME Init PROVE IInv
  OBVIOUS
<1>1. {} \in SoundClouds /\ Len(<<>>) = 0
  BY DEF SoundClouds
<1>2. /\ config \in Configs
      /\ lidar_buffer = <<>> /\ time_buffer = <<>> /\ lidar_frame_id_buffer = <<>>
      /\ last_timestamp_lidar = -1
      /\ con = [frame_ct |-> 0, time_con |-> 0, ptr_con |-> {}]
      /\ imu_deque = <<>> /\ last_timestamp_imu = -1 /\ imu_next = 0
      /\ lidar_pushed = FALSE /\ stage = "imu_init" /\ time_predict_last = 0 /\ starved = FALSE
      /\ hist = [overlap |-> FALSE, jump |-> FALSE, back |-> FALSE]
  BY DEF Init
<1>3. TypesInv
  BY <1>1, <1>2 DEF TypesInv
<1>4. AlignedInv /\ StampInv /\ JumpInv /\ NextInv /\ BackInv
  BY <1>1, <1>2 DEF AlignedInv, StampInv, JumpInv, NextInv, BackInv
<1>5. OrderInv
  BY <1>1, <1>2 DEF OrderInv
<1>6. OtherInv
  BY <1>2 DEF OtherInv
<1> QED BY <1>2, <1>3, <1>4, <1>5, <1>6 DEF IInv

\* Every step keeps the invariant.
LEMMA NextKeeps ==
  ASSUME IInv, [Next]_vars
  PROVE  IInv'
<1>1. CASE UNCHANGED vars
  <2>1. UNCHANGED <<config, buffers, last_timestamp_lidar, con, imu_deque, last_timestamp_imu,
                    imu_next, lidar_pushed, meas, filter, starved, hist>>
    BY <1>1 DEF vars
  <2>2. \A t : Until(t)' = Until(t)
    BY <2>1 DEF Until, filter, buffers
  <2>3. /\ TypesInv => TypesInv' 
        /\ AlignedInv => AlignedInv'
        /\ StampInv => StampInv'
        /\ JumpInv => JumpInv'
        /\ NextInv => NextInv'
        /\ BackInv => BackInv'
        /\ ~starved => ~starved'
    BY <2>1 DEF TypesInv, AlignedInv, StampInv, JumpInv, NextInv, BackInv, NextScan, filter, buffers
  <2>4. OrderInv => OrderInv'
    BY <2>1, <2>2 DEF OrderInv, filter, buffers
  <2>5. OtherInv => OtherInv'
    BY <2>1 DEF OtherInv, buffers
  <2> QED BY <2>1, <2>3, <2>4, <2>5 DEF IInv
<1>2. CASE config.lidar # "livox" /\ Next
  <2> DEFINE Keeps == /\ config' = config /\ lidar_frame_id_buffer' = lidar_frame_id_buffer
                      /\ hist' \in [overlap : BOOLEAN, jump : BOOLEAN, back : BOOLEAN] /\ ~hist'.back
  <2>1. /\ lidar_frame_id_buffer = <<>> /\ ~hist.back
        /\ hist \in [overlap : BOOLEAN, jump : BOOLEAN, back : BOOLEAN]
    BY <1>2 DEF IInv, OtherInv
  <2>2. ASSUME NEW offsets \in Clouds, NEW stamp \in 1 .. MaxTime, NEW id \in FrameIds,
               livox_pcl_cbk(offsets, stamp, id) \/ standard_pcl_cbk(offsets, stamp, id)
        PROVE  Keeps
    <3>1. CloudCallback(offsets, stamp, id, FALSE)
      BY <1>2, <2>2 DEF livox_pcl_cbk, standard_pcl_cbk
    <3>2. config' = config /\ lidar_frame_id_buffer' = lidar_frame_id_buffer
      BY <3>1 DEF CloudCallback, buffers
    <3>3. hist' = hist \/ \E o \in BOOLEAN : hist' = [hist EXCEPT !.overlap = o]
      <4> DEFINE over == /\ last_timestamp_lidar # -1
                         /\ stamp >= last_timestamp_lidar
                         /\ stamp < last_timestamp_lidar + MaxOffset
                 o == hist.overlap \/ over
      <4>1. hist' = hist \/ hist' = [hist EXCEPT !.overlap = o]
        <5>1. CASE Stale(stamp)
          BY <3>1, <5>1 DEF CloudCallback
        <5>2. CASE ~Stale(stamp)
          BY <3>1, <5>2 DEF CloudCallback, MaxOffset
        <5> QED BY <5>1, <5>2
      <4>2. o \in BOOLEAN
        OBVIOUS
      <4> QED BY <4>1, <4>2
    <3> QED BY <2>1, <3>2, <3>3
  <2>3. ASSUME NEW stamp \in 1 .. MaxTime, imu_cbk(stamp) PROVE Keeps
    <3>1. config' = config /\ lidar_frame_id_buffer' = lidar_frame_id_buffer
      BY <2>3 DEF imu_cbk, buffers
    <3>2. hist' = hist \/ \E o \in BOOLEAN : hist' = [hist EXCEPT !.jump = o]
      <4> DEFINE o == hist.jump \/ \E s \in {imu_next} \cup Range(imu_deque) : stamp < s
      <4>1. hist' = hist \/ hist' = [hist EXCEPT !.jump = o]
        BY <2>3 DEF imu_cbk
      <4>2. o \in BOOLEAN
        OBVIOUS
      <4> QED BY <4>1, <4>2
    <3> QED BY <2>1, <3>1, <3>2
  <2>4. ASSUME timer_callback PROVE Keeps
    <3>1. ReadsEmptyBuffer
      BY <2>1, <2>4, Zenon DEF timer_callback
    <3> QED BY <2>1, <3>1 DEF ReadsEmptyBuffer, buffers
  <2>5. Keeps
    BY <1>2, <2>2, <2>3, <2>4 DEF Next
  <2> QED BY <1>2, <2>1, <2>5 DEF IInv, OtherInv
<1>3. CASE config.lidar = "livox" /\ Next
  <2>1. \A stamp \in 1 .. MaxTime : stamp \in Positive
    BY TimesAssumption DEF Positive
  <2>2. ASSUME NEW offsets \in Clouds, NEW stamp \in 1 .. MaxTime, NEW id \in FrameIds,
               livox_pcl_cbk(offsets, stamp, id) \/ standard_pcl_cbk(offsets, stamp, id)
        PROVE  IInv'
    <3>1. CloudCallback(offsets, stamp, id, TRUE)
      BY <1>3, <2>2 DEF livox_pcl_cbk, standard_pcl_cbk
    <3> QED BY <1>3, <2>1, <3>1, CloudCallbackKeeps
  <2>3. ASSUME NEW stamp \in 1 .. MaxTime, imu_cbk(stamp) PROVE IInv'
    BY <1>3, <2>1, <2>3, ImuCallbackKeeps
  <2>4. ASSUME timer_callback PROVE IInv'
    BY <1>3, <2>4, TimerCallbackKeeps
  <2> QED BY <1>3, <2>2, <2>3, <2>4 DEF Next
<1> QED BY <1>1, <1>2, <1>3

\* Whatever scans and IMU messages come, in whatever order, the callbacks and the timer keep the
\* invariant.
THEOREM SyncInvariant == Spec => []IInv
<1>1. IInv /\ [Next]_vars => IInv'
  BY NextKeeps
<1> QED BY <1>1, InitIsSound, PTL DEF Spec

\* sync_packages waits for the end of a scan, and so the loops of timer_callback never read the
\* front of an empty deque.
THEOREM DequeIsNeverEmpty == Spec => []NeverStarved
<1>1. IInv => NeverStarved
  BY DEF IInv, NeverStarved
<1> QED BY <1>1, SyncInvariant, PTL

\* Every scan keeps its stamp and its frame, and the filter predicts forward unless scans overlap
\* or the IMU's time jumps, or scans are cut.
THEOREM ScansKeepOrder == Spec => []BuffersSound
<1>1. ASSUME IInv PROVE BuffersAligned
  BY <1>1 DEF IInv, BuffersAligned, AlignedInv
<1>2. ASSUME IInv PROVE PredictsForward
  BY <1>2 DEF IInv, PredictsForward, BackInv, OtherInv
<1>3. IInv => BuffersSound
  BY <1>1, <1>2 DEF BuffersSound
<1> QED BY <1>3, SyncInvariant, PTL
-----------------------------------------------------------------------------
(* The times of the points *)

\* A point that waits, in the buffer or in the cloud that is being combined, keeps its time, unless
\* it was cut off.
KeepInv ==
  config.lidar = "livox" /\ config.mode # "cut" =>
    PiecesKeepTime /\ \A p \in con.ptr_con : con.time_con + p[1] = p[2]

\* The buffers after a callback: as before; or with one more scan, which keeps its points' times.
LEMMA ArrivesOnTime ==
  ASSUME TypesInv, AlignedInv, PiecesKeepTime, NEW c \in SoundClouds, NEW b \in Positive,
         NEW id \in FrameIds, Arrives(c, b, id), lidar_pushed' = lidar_pushed, meas' = meas,
         \A p \in c : b + p[1] = p[2]
  PROVE  PiecesKeepTime'
<1> DEFINE L == Len(lidar_buffer)
<1>1. /\ lidar_buffer' \in Seq(SoundClouds) /\ Len(lidar_buffer') = L + 1 /\ L \in Nat
      /\ \A i \in 1 .. L : lidar_buffer'[i] = lidar_buffer[i] /\ time_buffer'[i] = time_buffer[i]
      /\ lidar_buffer'[L + 1] = c /\ time_buffer'[L + 1] = b
  BY ArrivesAligned, LenProperties DEF TypesInv
<1>2. DOMAIN lidar_buffer = 1 .. L /\ DOMAIN lidar_buffer' = 1 .. L + 1
  BY <1>1, LenProperties DEF TypesInv
<1> HIDE DEF L
<1>3. ASSUME NEW i \in 1 .. L + 1, NEW p \in lidar_buffer'[i]
      PROVE  time_buffer'[i] + p[1] = p[2]
  <2>1. CASE i \in 1 .. L
    BY <1>1, <1>2, <1>3, <2>1 DEF PiecesKeepTime
  <2>2. CASE i = L + 1
    BY <1>1, <1>3, <2>2
  <2> QED BY <1>1, <2>1, <2>2
<1> QED BY <1>2, <1>3 DEF PiecesKeepTime

\* What waits keeps its times: only Slices, which the invariant leaves out, gives a point a
\* curvature that does not fit the stamp of its piece.
LEMMA TimesKeep ==
  ASSUME IInv, KeepInv, [Next]_vars
  PROVE  KeepInv'
<1> SUFFICES ASSUME config'.lidar = "livox", config'.mode # "cut"
             PROVE  PiecesKeepTime' /\ \A p \in con'.ptr_con : con'.time_con + p[1] = p[2]
  BY DEF KeepInv
<1> DEFINE Same == UNCHANGED <<lidar_buffer, time_buffer, con>>
           Goal == PiecesKeepTime' /\ \A p \in con'.ptr_con : con'.time_con + p[1] = p[2]
<1>1. ASSUME config.lidar = "livox", config.mode # "cut", Same PROVE Goal
  BY <1>1 DEF KeepInv, PiecesKeepTime
<1>2. ASSUME NEW offsets \in Clouds, NEW stamp \in Positive, NEW id \in FrameIds,
             config.lidar = "livox", config.mode # "cut", CloudCallback(offsets, stamp, id, TRUE)
      PROVE  Goal
  <2> DEFINE cloud == Points(offsets, stamp)
             pieces == Pieces(cloud, stamp)
  <2>1. /\ TypesInv /\ AlignedInv /\ config.mode \in {"plain", "con"}
    BY <1>2, TimesAssumption DEF IInv
  <2>2. PiecesKeepTime /\ \A p \in con.ptr_con : con.time_con + p[1] = p[2]
    BY <1>2 DEF KeepInv
  <2>3. cloud \in SoundClouds /\ stamp \in Nat
    BY PointsAreSound DEF Positive
  <2>4. \A p \in cloud : p[1] \in Nat /\ p[2] \in Nat /\ stamp + p[1] = p[2]
    BY <2>3, TimesAssumption DEF Points
  <2>5. lidar_pushed' = lidar_pushed /\ meas' = meas
    BY <1>2 DEF CloudCallback
  <2>6. CASE Stale(stamp)
    <3>1. Same
      BY <1>2, <2>6 DEF CloudCallback, buffers
    <3> QED BY <1>1, <1>2, <3>1
  <2>7. CASE ~Stale(stamp)
    <3>1. /\ con' = IF config.mode = "con" THEN Collect(cloud, stamp) ELSE con
          /\ Push(pieces)
          /\ lidar_frame_id_buffer' = lidar_frame_id_buffer \o [i \in DOMAIN pieces |-> id]
      <4>1. cloud = {<<o, stamp + o>> : o \in offsets}
        BY DEF Points
      <4>2. pieces = Pieces({<<o, stamp + o>> : o \in offsets}, stamp)
        BY <4>1
      <4> HIDE DEF cloud, pieces
      <4> QED BY <1>2, <2>7, <4>1, <4>2, Zenon DEF CloudCallback
    <3>2. CASE config.mode = "plain"
      <4>1. pieces = <<[lidar |-> cloud, beg |-> stamp]>> /\ con' = con
        BY <3>1, <3>2 DEF Pieces
      <4> HIDE DEF cloud, pieces
      <4>2. Arrives(cloud, stamp, id)
        BY <2>1, <2>3, <3>1, <4>1, PushOne
      <4>3. PiecesKeepTime'
        BY <2>1, <2>2, <2>3, <2>4, <2>5, <4>2, ArrivesOnTime
      <4> QED BY <2>2, <4>1, <4>3
    <3>3. CASE config.mode = "con"
      <4> DEFINE start == IF con.frame_ct = 0 THEN stamp ELSE con.time_con
                 moved == {<<p[1] + stamp - start, p[2]>> : p \in cloud}
      <4>1. /\ start \in Positive /\ con.ptr_con \in SoundClouds
            /\ con.frame_ct = 0 => con.ptr_con = {}
            /\ con.frame_ct \in Nat
        BY <2>1, <2>3 DEF TypesInv, Positive
      <4>2. \A p \in con.ptr_con : start + p[1] = p[2]
        BY <2>2, <4>1
      <4>3. CASE con.frame_ct < ConFrameNum
        <5>1. /\ pieces = <<>>
              /\ con' = [frame_ct |-> con.frame_ct + 1, time_con |-> start,
                         ptr_con |-> con.ptr_con \cup moved]
          BY <3>1, <3>3, <4>3 DEF Pieces, Collect
        <5>2. UNCHANGED buffers
          BY <2>1, <3>1, <5>1, PushNone
        <5>3. PiecesKeepTime'
          BY <2>2, <5>2 DEF PiecesKeepTime, buffers
        <5> HIDE DEF start, cloud
        <5>4. ASSUME NEW p \in moved PROVE start + p[1] = p[2]
          <6>1. PICK q \in cloud : p = <<q[1] + stamp - start, q[2]>>
            BY <5>4
          <6>2. q[1] \in Nat /\ stamp + q[1] = q[2] /\ start \in Nat
            BY <2>4, <4>1 DEF Positive
          <6> QED BY <2>3, <6>1, <6>2
        <5> HIDE DEF moved
        <5>5. con'.ptr_con = con.ptr_con \cup moved /\ con'.time_con = start
          BY <5>1
        <5> QED BY <4>2, <5>3, <5>4, <5>5
      <4>4. CASE ~(con.frame_ct < ConFrameNum)
        <5>1. /\ pieces = <<[lidar |-> con.ptr_con, beg |-> start]>>
              /\ con' = [frame_ct |-> 0, time_con |-> start, ptr_con |-> {}]
          BY <3>1, <3>3, <4>4 DEF Pieces, Collect
        <5> HIDE DEF start, pieces, moved
        <5>2. Arrives(con.ptr_con, start, id)
          BY <2>1, <3>1, <4>1, <5>1, PushOne
        <5>3. PiecesKeepTime'
          BY <2>1, <2>2, <2>5, <4>1, <4>2, <5>2, ArrivesOnTime
        <5>4. con'.ptr_con = {}
          BY <5>1
        <5> QED BY <5>3, <5>4
      <4> QED BY <4>3, <4>4
    <3> QED BY <2>1, <3>2, <3>3
  <2> QED BY <2>6, <2>7
<1>3. ASSUME config.lidar = "livox", config.mode # "cut", PopScan, lidar_buffer # <<>>, con' = con
      PROVE  Goal
  <2>1. TypesInv /\ AlignedInv /\ PiecesKeepTime /\ \A p \in con.ptr_con : con.time_con + p[1] = p[2]
    BY <1>3 DEF IInv, KeepInv
  <2>2. /\ lidar_buffer' \in Seq(SoundClouds)
        /\ Len(lidar_buffer) \in Nat /\ Len(lidar_buffer') = Len(lidar_buffer) - 1
        /\ \A i \in 1 .. Len(lidar_buffer') :
              lidar_buffer'[i] = lidar_buffer[i + 1] /\ time_buffer'[i] = time_buffer[i + 1]
    BY <1>3, <2>1, PopMovesUp
  <2>3. DOMAIN lidar_buffer = 1 .. Len(lidar_buffer) /\ DOMAIN lidar_buffer' = 1 .. Len(lidar_buffer')
    BY <2>1, <2>2, LenProperties DEF TypesInv
  <2>4. ASSUME NEW i \in 1 .. Len(lidar_buffer'), NEW p \in lidar_buffer'[i]
        PROVE  time_buffer'[i] + p[1] = p[2]
    <3>1. i + 1 \in DOMAIN lidar_buffer /\ p \in lidar_buffer[i + 1] /\ time_buffer'[i] = time_buffer[i + 1]
      BY <2>2, <2>3, <2>4
    <3> QED BY <2>1, <3>1 DEF PiecesKeepTime
  <2> QED BY <1>3, <2>1, <2>3, <2>4 DEF PiecesKeepTime
<1>4. config' = config
  <2>1. ASSUME NEW offsets \in Clouds, NEW stamp \in 1 .. MaxTime, NEW id \in FrameIds,
               livox_pcl_cbk(offsets, stamp, id) \/ standard_pcl_cbk(offsets, stamp, id)
        PROVE  config' = config
    BY <2>1 DEF livox_pcl_cbk, standard_pcl_cbk, CloudCallback
  <2>2. ASSUME NEW stamp \in 1 .. MaxTime, imu_cbk(stamp) PROVE config' = config
    BY <2>2 DEF imu_cbk
  <2>3. ASSUME timer_callback PROVE config' = config
    BY <2>3, Zenon DEF timer_callback, ReadsEmptyBuffer, LoseScan, WaitForImu, TakeScan
  <2> QED BY <2>1, <2>2, <2>3 DEF Next, vars
<1>5. config.lidar = "livox" /\ config.mode # "cut" /\ \A stamp \in 1 .. MaxTime : stamp \in Positive
  BY <1>4, TimesAssumption DEF Positive
<1> HIDE DEF Goal, Same
<1>6. ASSUME NEW offsets \in Clouds, NEW stamp \in 1 .. MaxTime, NEW id \in FrameIds,
             livox_pcl_cbk(offsets, stamp, id) \/ standard_pcl_cbk(offsets, stamp, id)
      PROVE  Goal
  <2>1. CloudCallback(offsets, stamp, id, TRUE)
    BY <1>5, <1>6 DEF livox_pcl_cbk, standard_pcl_cbk
  <2> QED BY <1>2, <1>5, <2>1
<1>7. ASSUME NEW stamp \in 1 .. MaxTime, imu_cbk(stamp) PROVE Goal
  <2>1. Same
    BY <1>7 DEF imu_cbk, buffers, Same
  <2> QED BY <1>1, <1>5, <2>1
<1>8. ASSUME timer_callback PROVE Goal
  <2>1. Same \/ (PopScan /\ lidar_buffer # <<>> /\ con' = con)
    <3>1. lidar_buffer # <<>>
      BY <1>8 DEF timer_callback
    <3>2. ReadsEmptyBuffer \/ LoseScan
            \/ WaitForImu(IF lidar_pushed THEN meas ELSE NextScan)
            \/ TakeScan(IF lidar_pushed THEN meas ELSE NextScan)
      BY <1>8, Zenon DEF timer_callback
    <3> QED BY <3>1, <3>2 DEF ReadsEmptyBuffer, LoseScan, WaitForImu, TakeScan, buffers, Same
  <2> QED BY <1>1, <1>3, <1>5, <2>1
<1>9. ASSUME UNCHANGED vars PROVE Goal
  <2>1. Same
    BY <1>9 DEF vars, buffers, Same
  <2> QED BY <1>1, <1>5, <2>1
<1>10. Goal
  BY <1>6, <1>7, <1>8, <1>9 DEF Next
<1> QED BY <1>10 DEF Goal

\* Outside cut_frame a point's time is the stamp of its piece plus its curvature, as timer_callback
\* computes time_current.
THEOREM TimesAreKept ==
  Spec => [](config.lidar = "livox" /\ config.mode # "cut" => PiecesKeepTime)
<1>1. Init => KeepInv
  BY DEF Init, KeepInv, PiecesKeepTime
<1>2. IInv /\ KeepInv /\ [Next]_vars => KeepInv'
  BY TimesKeep
<1>3. KeepInv => (config.lidar = "livox" /\ config.mode # "cut" => PiecesKeepTime)
  BY DEF KeepInv
<1> QED BY <1>1, <1>2, <1>3, SyncInvariant, PTL DEF Spec
=============================================================================
