----------------------------- MODULE MCLidarSync -----------------------------
(* Instances of LidarSync: the parameters the configuration files know.    *)
EXTENDS LidarSync

MCConfigs ==
  { [mode |-> "plain", lidar |-> "livox", imu_en |-> TRUE],    \* as shipped
    [mode |-> "cut",   lidar |-> "livox", imu_en |-> TRUE],
    [mode |-> "con",   lidar |-> "livox", imu_en |-> TRUE],
    [mode |-> "plain", lidar |-> "livox", imu_en |-> FALSE],
    [mode |-> "plain", lidar |-> "standard", imu_en |-> TRUE],
    [mode |-> "plain", lidar |-> "standard", imu_en |-> FALSE] }

StandardOnly == {c \in MCConfigs : c.lidar = "standard" /\ c.imu_en}
=============================================================================
