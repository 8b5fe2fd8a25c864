------------------------------ MODULE LidarSync ------------------------------
(***************************************************************************)
(* Point-LIO's laser_mapping node: the message buffers its callbacks fill,  *)
(* sync_packages, and the timer callback that consumes them.  One executor  *)
(* thread runs everything, so each callback is one action.                  *)
(*                                                                          *)
(* Times are whole numbers, an IMU message is its stamp, and a cloud is the *)
(* set of its points, each <<curvature, true time>>: the curvature is what  *)
(* the code stores with a point, the true time is history and is never read *)
(* by the code.  The Kalman filter appears only as the times it is asked to *)
(* predict to.  A read of the front of an empty deque sets starved, after   *)
(* which nothing more is claimed.                                           *)
(***************************************************************************)
EXTENDS Integers, Sequences, SequencesExt, FiniteSets

CONSTANTS
  Clouds,         \* what preprocessing may leave of a scan: sets of offsets
  FrameIds,       \* the lidars a scan may come from
  MaxTime,        \* bound: stamps are 1..MaxTime
  MaxScans,       \* bound: scan messages
  MaxImu,         \* bound: IMU messages
  Configs,        \* the parameters: mode "plain", "cut" (cut_frame) or "con" (con_frame); lidar
                  \* "livox" (AVIA) or "standard", which picks the callback; imu_en
  CutInterval,    \* cut_frame_time_interval
  ConFrameNum,    \* con_frame_num
  InitCount,      \* MAX_INI_COUNT
  InitMapSize     \* init_map_size

ASSUME TimesAssumption ==
  /\ {MaxTime, MaxScans, MaxImu, CutInterval, ConFrameNum, InitCount, InitMapSize} \subseteq Nat
  /\ Clouds \subseteq SUBSET Nat
  /\ \E last \in {0} \cup UNION Clouds : \A o \in UNION Clouds : o <= last  \* a scan ends
  /\ Configs \subseteq [mode : {"plain", "cut", "con"}, lidar : {"livox", "standard"}, imu_en : BOOLEAN]

VARIABLES
  config,
  lidar_buffer, time_buffer, lidar_frame_id_buffer,
  last_timestamp_lidar,
  con,                      \* [frame_ct, time_con, ptr_con] of con_frame
  imu_deque, last_timestamp_imu,
  imu_next,                 \* stamp of the IMU message the filter takes next
  lidar_pushed, meas,       \* Measures: [lidar, beg, id, end]
  meas_imu,                 \* the length of Measures.imu, never cleared, as long as it matters
  stage,                    \* "imu_init", "map_init", "first" scan to filter, "run"
  n_init,                   \* init_iter_num, or the points collected for the first map
  time_predict_last,
  point_frame_id,
  starved,                  \* an empty deque was read
  n,                        \* [scan, imu]: messages received (bounds)
  served,                   \* history: scans removed from the buffer
  hist                      \* history: [overlap, jump, back]

buffers == <<lidar_buffer, time_buffer, lidar_frame_id_buffer>>
filter  == <<stage, n_init, time_predict_last, point_frame_id>>
vars == <<config, buffers, last_timestamp_lidar, con, imu_deque, last_timestamp_imu, imu_next,
          lidar_pushed, meas, meas_imu, filter, starved, n, served, hist>>

NoMeas == [lidar |-> {}, beg |-> 0, id |-> CHOOSE f \in FrameIds : TRUE, end |-> 0]

Init ==
  /\ config \in Configs
  /\ lidar_buffer = <<>> /\ time_buffer = <<>> /\ lidar_frame_id_buffer = <<>>
  /\ last_timestamp_lidar = -1
  /\ con = [frame_ct |-> 0, time_con |-> 0, ptr_con |-> {}]
  /\ imu_deque = <<>> /\ last_timestamp_imu = -1 /\ imu_next = 0
  /\ lidar_pushed = FALSE /\ meas = NoMeas /\ meas_imu = 0
  /\ stage = "imu_init" /\ n_init = 1 /\ time_predict_last = 0
  /\ point_frame_id = NoMeas.id
  /\ starved = FALSE
  /\ n = [scan |-> 0, imu |-> 0] /\ served = 0
  /\ hist = [overlap |-> FALSE, jump |-> FALSE, back |-> FALSE]

-----------------------------------------------------------------------------
(* The lidar callbacks.  A "piece" is what they append to the buffers.     *)

Largest(S) == CHOOSE x \in S : \A y \in S : y <= x
Smallest(S) == CHOOSE x \in S : \A y \in S : x <= y
Curvatures(cloud) == {p[1] : p \in cloud}
EndOf(cloud, beg) == beg + Largest(Curvatures(cloud))

\* cut_frame: the points come in the order of their curvatures.  A slice ends with the first point
\* more than the interval behind time_div, to which that point's curvature is then added.
Cut(acc, p, stamp) ==
  LET div == acc.div \cup {p} IN
  IF p[1] + stamp - acc.time_div > CutInterval
  THEN [out |-> Append(acc.out, [lidar |-> div, beg |-> acc.time_div]),
        div |-> {}, time_div |-> acc.time_div + p[1]]
  ELSE [acc EXCEPT !.div = div]

\* cut[t]: after the points whose curvature is less than t.
Slices(cloud, stamp) ==
  LET last == Largest({0} \cup Curvatures(cloud))
      cut[t \in 0 .. last + 1] ==
        IF t = 0 THEN [out |-> <<>>, div |-> {}, time_div |-> stamp]
        ELSE IF t - 1 \notin Curvatures(cloud) THEN cut[t - 1]
        ELSE Cut(cut[t - 1], CHOOSE p \in cloud : p[1] = t - 1, stamp)
      end == cut[last + 1]
  IN IF end.div = {} THEN end.out
     ELSE Append(end.out, [lidar |-> end.div, beg |-> end.time_div])

\* con_frame: the first con_frame_num scans are collected; the one after them sends them off and
\* is itself left out.
Collect(cloud, stamp) ==
  LET start == IF con.frame_ct = 0 THEN stamp ELSE con.time_con
      moved == {<<p[1] + stamp - start, p[2]>> : p \in cloud}
  IN IF con.frame_ct < ConFrameNum
     THEN [frame_ct |-> con.frame_ct + 1, time_con |-> start, ptr_con |-> con.ptr_con \cup moved]
     ELSE [frame_ct |-> 0, time_con |-> start, ptr_con |-> {}]

Pieces(cloud, stamp) ==
  CASE config.mode = "cut" -> Slices(cloud, stamp)
    [] config.mode = "con" ->
         IF con.frame_ct < ConFrameNum THEN <<>>
         ELSE <<[lidar |-> con.ptr_con,
                 beg |-> IF con.frame_ct = 0 THEN stamp ELSE con.time_con]>>
    [] OTHER -> <<[lidar |-> cloud, beg |-> stamp]>>

Push(pieces) ==
  /\ lidar_buffer' = lidar_buffer \o [i \in DOMAIN pieces |-> pieces[i].lidar]
  /\ time_buffer' = time_buffer \o [i \in DOMAIN pieces |-> pieces[i].beg]

\* Variant: scans are never too old.
NeverStale(stamp) == FALSE

Stale(stamp) == stamp < last_timestamp_lidar

\* A scan is refused when it is older than the last one; otherwise it is preprocessed, cut or
\* collected, and appended.  keepsId is what tells the two callbacks apart.
CloudCallback(offsets, stamp, id, keepsId) ==
  LET cloud  == {<<o, stamp + o>> : o \in offsets}
      pieces == Pieces(cloud, stamp)
  IN /\ ~starved /\ n.scan < MaxScans
     /\ n' = [n EXCEPT !.scan = @ + 1]
     /\ IF Stale(stamp)
        THEN UNCHANGED <<buffers, last_timestamp_lidar, con, hist>>
        ELSE /\ last_timestamp_lidar' = stamp
             /\ con' = IF config.mode = "con" THEN Collect(cloud, stamp) ELSE con
             /\ Push(pieces)
             /\ lidar_frame_id_buffer' =
                  IF keepsId THEN lidar_frame_id_buffer \o [i \in DOMAIN pieces |-> id]
                  ELSE lidar_frame_id_buffer
             /\ hist' = [hist EXCEPT !.overlap =
                            @ \/ /\ last_timestamp_lidar # -1
                                 /\ stamp >= last_timestamp_lidar
                                 /\ stamp < last_timestamp_lidar + Largest({0} \cup UNION Clouds)]
     /\ UNCHANGED <<config, imu_deque, last_timestamp_imu, imu_next, lidar_pushed, meas,
                    meas_imu, filter, starved, served>>

livox_pcl_cbk(offsets, stamp, id) ==
  config.lidar = "livox" /\ CloudCallback(offsets, stamp, id, TRUE)

\* The callback of the other drivers does not fill lidar_frame_id_buffer.
standard_pcl_cbk(offsets, stamp, id) ==
  config.lidar = "standard" /\ CloudCallback(offsets, stamp, id, FALSE)

\* An IMU message older than the last one is dropped (the deque is not cleared).
imu_cbk(stamp) ==
  /\ ~starved /\ n.imu < MaxImu
  /\ n' = [n EXCEPT !.imu = @ + 1]
  /\ IF stamp < last_timestamp_imu
     THEN UNCHANGED <<imu_deque, last_timestamp_imu, hist>>
     ELSE /\ imu_deque' = Append(imu_deque, stamp)
          /\ last_timestamp_imu' = stamp
          /\ hist' = [hist EXCEPT !.jump = @ \/ \E s \in {imu_next} \cup Range(imu_deque) : stamp < s]
  /\ UNCHANGED <<config, buffers, last_timestamp_lidar, con, imu_next, lidar_pushed, meas,
                 meas_imu, filter, starved, served>>

-----------------------------------------------------------------------------
(* sync_packages.                                                          *)

\* Variant: the frame of a scan stays behind.
PopCloudOnly ==
  /\ lidar_buffer' = Tail(lidar_buffer)
  /\ time_buffer' = Tail(time_buffer)
  /\ lidar_frame_id_buffer' = lidar_frame_id_buffer
  /\ served' = served + 1

PopScan ==
  /\ lidar_buffer' = Tail(lidar_buffer)
  /\ time_buffer' = Tail(time_buffer)
  /\ lidar_frame_id_buffer' = Tail(lidar_frame_id_buffer)
  /\ served' = served + 1

NextScan ==
  [lidar |-> Head(lidar_buffer), beg |-> Head(time_buffer), id |-> Head(lidar_frame_id_buffer),
   end |-> EndOf(Head(lidar_buffer), Head(time_buffer))]

\* Variant: the scan is let through once IMU data for its beginning is there.
NeededAtBegin(m) == m.beg

\* Variant: IMU data must come from after the scan.
NeededAfterEnd(m) == m.end + 1

\* Until when IMU data must have come.
Needed(m) == m.end

ReadsEmptyBuffer ==
  /\ starved' = TRUE
  /\ UNCHANGED <<config, buffers, last_timestamp_lidar, con, imu_deque, last_timestamp_imu,
                 imu_next, lidar_pushed, meas, meas_imu, filter, n, served, hist>>

\* An empty scan is thrown away.
LoseScan ==
  /\ PopScan
  /\ UNCHANGED <<config, last_timestamp_lidar, con, imu_deque, last_timestamp_imu, imu_next,
                 lidar_pushed, meas, meas_imu, filter, starved, n, hist>>

\* The scan becomes the current one and waits for its IMU data.
WaitForImu(m) ==
  /\ lidar_pushed' = TRUE /\ meas' = m
  /\ UNCHANGED <<config, buffers, last_timestamp_lidar, con, imu_deque, last_timestamp_imu,
                 imu_next, meas_imu, filter, starved, n, served, hist>>

\* Until the map is there, the IMU messages before the end of the scan move to Measures.imu, and
\* one that comes at its end with them.
Moved(m) ==
  IF stage \notin {"imu_init", "map_init"} \/ ~config.imu_en THEN 0
  ELSE LET k == SelectInSeq(imu_deque, LAMBDA s : s >= m.end)
       IN CASE k = 0 -> Len(imu_deque)
            [] k > 1 /\ imu_deque[k] = m.end -> k
            [] OTHER -> k - 1

-----------------------------------------------------------------------------
(* The rest of timer_callback, for the scan m that sync_packages returned.  *)
(* line is imu_next followed by the deque.                                  *)

\* "while (t > imu_next) { imu_next = front; pop }" stops at the first message not before t; what
\* is left of line is empty if there is none.
First(line, t) == SelectInSeq(line, LAMBDA s : s >= t)
Forward(line, t) == IF First(line, t) = 0 THEN <<>> ELSE SubSeq(line, First(line, t), Len(line))

\* The filter predicts to each point and, before it, to the messages the loop passes: those of line
\* up to the last point.  The first scan of all starts at its first point, without predicting.
Begin(m) == m.beg + Smallest(Curvatures(m.lidar))
Start(m) == IF stage = "first" THEN Begin(m) ELSE time_predict_last
Passed(m, line) ==
  IF ~config.imu_en THEN <<>>
  ELSE SubSeq(line, IF stage = "first" THEN First(line, Begin(m)) ELSE 1, First(line, m.end) - 1)

\* Some prediction goes back in time.  (A message passed on the way to a point is later than the
\* point before, or it would not have stopped the loop there.)
GoesBack(m, line) ==
  LET at == <<Start(m)>> \o Passed(m, line)
  IN Begin(m) < Start(m) \/ \E i \in 1..(Len(at) - 1) : at[i] > at[i + 1]

\* A scan of another lidar than the last: the pose is moved over, and the IMU clock starts anew.
Enter(m) ==
  /\ point_frame_id' = m.id
  /\ last_timestamp_imu' = IF m.id # point_frame_id THEN 0 ELSE last_timestamp_imu

Leave(line) ==
  /\ starved' = (line = <<>>)
  /\ imu_next' = IF line = <<>> THEN imu_next ELSE Head(line)
  /\ imu_deque' = IF line = <<>> THEN <<>> ELSE Tail(line)

\* What becomes of the scan: it only feeds the IMU averages, as long as too few are in; it is
\* collected for the first map (after aligning to gravity, if the averages are new); or it is
\* filtered, point by point.  A map read from a file is an InitMapSize of 0.
Process(m, line, count) ==
  LET averaged == ~config.imu_en \/ (count > 0 /\ n_init + count > InitCount)
      points   == Cardinality(m.lidar) + (IF stage = "map_init" THEN n_init ELSE 0)
  IN \/ /\ stage = "imu_init" /\ ~averaged
        /\ n_init' = n_init + count
        /\ Leave(line)
        /\ UNCHANGED <<stage, time_predict_last, hist>>
     \/ /\ stage = "map_init" \/ (stage = "imu_init" /\ averaged)
        /\ stage' = IF points < InitMapSize THEN "map_init" ELSE "first"
        /\ n_init' = points
        /\ Leave(IF stage = "imu_init" /\ config.imu_en THEN Forward(line, m.beg) ELSE line)
        /\ UNCHANGED <<time_predict_last, hist>>
     \/ /\ stage \in {"first", "run"}
        /\ stage' = "run"
        /\ time_predict_last' = m.end
        /\ hist' = [hist EXCEPT !.back = @ \/ GoesBack(m, line)]
        /\ Leave(IF config.imu_en THEN Forward(line, m.end) ELSE line)
        /\ UNCHANGED n_init

\* A scan with its IMU data leaves the buffers and is processed.
TakeScan(m) ==
  LET k     == Moved(m)
      line  == <<IF k = 0 THEN imu_next ELSE imu_deque[k]>> \o SubSeq(imu_deque, k + 1, Len(imu_deque))
      count == IF stage = "imu_init" THEN meas_imu + k ELSE meas_imu
  IN /\ PopScan
     /\ lidar_pushed' = FALSE /\ meas' = m /\ meas_imu' = count
     /\ Enter(m)
     /\ Process(m, line, count)
     /\ UNCHANGED <<config, last_timestamp_lidar, con, n>>

timer_callback ==
  /\ ~starved
  /\ lidar_buffer # <<>>
  /\ \/ /\ ~config.imu_en /\ lidar_frame_id_buffer = <<>>
        /\ ReadsEmptyBuffer
     \/ /\ lidar_frame_id_buffer # <<>>
        /\ config.imu_en => imu_deque # <<>>
        /\ IF Head(lidar_buffer) = {} THEN LoseScan
           ELSE LET m == IF lidar_pushed THEN meas ELSE NextScan
                IN IF config.imu_en /\ last_timestamp_imu < Needed(m)
                   THEN WaitForImu(m) ELSE TakeScan(m)

Next ==
  \/ \E offsets \in Clouds, stamp \in 1..MaxTime, id \in FrameIds :
       livox_pcl_cbk(offsets, stamp, id) \/ standard_pcl_cbk(offsets, stamp, id)
  \/ \E stamp \in 1..MaxTime : imu_cbk(stamp)
  \/ timer_callback

\* When timer_callback changes something: ENABLED <<timer_callback>>_vars, written out.
TimerActs ==
  /\ ~starved /\ lidar_buffer # <<>>
  /\ config.imu_en =>
       /\ lidar_frame_id_buffer # <<>> /\ imu_deque # <<>>
       /\ lidar_pushed => last_timestamp_imu >= Needed(meas)

\* The timer fires every 5 ms for ever: weak fairness of timer_callback.
TimerFires == []<>~TimerActs \/ []<><<timer_callback>>_vars

Spec == Init /\ [][Next]_vars /\ TimerFires

-----------------------------------------------------------------------------
(* With the Livox driver the three lidar buffers stay of one length, so that every scan keeps its
   own stamp and frame, also between the call of sync_packages that announces a scan
   (lidar_pushed) and the one that removes it, while callbacks append.                       *)
BuffersAligned ==
  config.lidar = "livox" =>
    /\ Len(time_buffer) = Len(lidar_buffer)
    /\ Len(lidar_frame_id_buffer) = Len(lidar_buffer)
    /\ lidar_pushed => lidar_buffer # <<>> /\ meas = NextScan

(* The loops of timer_callback that take IMU messages up to a point's time never test the deque:
   that sync_packages waited for the end of the scan keeps them from reading the front of an
   empty deque, through initialisation, late or repeated stamps and a change of lidar, which
   resets last_timestamp_imu.                                                               *)
NeverStarved == config.lidar = "livox" => ~starved

(* Scans that follow each other and IMU messages in order are filtered in order: the filter is
   never asked to predict backwards, over the points of a scan, the messages between them and
   the border between scans.  Cut frames are excepted, since Slices stamps the third slice late. *)
PredictsForward == hist.back => hist.overlap \/ hist.jump \/ config.mode = "cut"

\* What sync_packages hands to the filter is one scan with its own stamp, and time goes forward.
BuffersSound == BuffersAligned /\ PredictsForward

(* A scan whose IMU data has come does not wait for ever.                                      *)
Ready ==
  /\ lidar_buffer # <<>>
  /\ config.imu_en => /\ imu_deque # <<>>
                      /\ last_timestamp_imu >= EndOf(Head(lidar_buffer) \cup {<<0, 0>>}, Head(time_buffer))

ScansServed == config.lidar = "livox" => []<>~Ready

-----------------------------------------------------------------------------
(* What comments and configuration files say, and the code does not do.     *)

(* "true: if you need to combine several LiDAR frames into one" (pointlio.yaml, con_frame): every
   scan accepted reaches the buffer or the cloud being combined.                              *)
CombinedScanKept ==
  [][last_timestamp_lidar' > last_timestamp_lidar /\ config.mode = "con" =>
       \/ con'.frame_ct = con.frame_ct + 1
       \/ \E i \in DOMAIN lidar_buffer' : \E p \in lidar_buffer'[i] : p[2] >= last_timestamp_lidar']_vars

(* "enum LID_TYPE{AVIA = 1, VELO16, OUST64, HESAIxt32}" (preprocess.h:23), with a subscription for
   the others: the scans of any lidar are processed once their IMU data has come.             *)
AnyLidarServed == []<>~Ready

(* A point's time is the stamp of its piece plus its curvature, as timer_callback computes
   time_current.                                                                              *)
PiecesKeepTime ==
  \A i \in DOMAIN lidar_buffer : \A p \in lidar_buffer[i] : time_buffer[i] + p[1] = p[2]
=============================================================================
