----------------------------- MODULE MCHeadPose -----------------------------
(***************************************************************************)
(* Instances of HeadPose: three kinds of glasses, and histories that give  *)
(* every race of its own.                                                  *)
(***************************************************************************)
EXTENDS HeadPose, TLC

Families == [air |-> "air", rayneo |-> "rayneo", viture |-> "viture", pro |-> "viture"]
Mounts == [air |-> 0, rayneo |-> -20, viture |-> 6, pro |-> 3]
Fovs == [air |-> 46, rayneo |-> 46, viture |-> 43, pro |-> 46]
Ranks == [air |-> 1, rayneo |-> 2, pro |-> 3, viture |-> 4]

Timing ==
    { [may |-> {"move"}, glasses |-> {"air"}, steps |-> {1, 3}, starts |-> {0}],
      [may |-> {"square"}, glasses |-> {"air"}, steps |-> {1}, starts |-> {0}],
      [may |-> {"restart"}, glasses |-> {"air"}, steps |-> {1, 3}, starts |-> {0, 14}],
      [may |-> {"unplug"}, glasses |-> {"air"}, steps |-> {3}, starts |-> {0, 14}] }
Setting ==
    { [may |-> {"unplug", "square", "dolly"}, glasses |-> {"viture"}, steps |-> {8}, starts |-> {12}],
      [may |-> {"unplug", "fov"}, glasses |-> {"viture", "pro"}, steps |-> {8}, starts |-> {12}],
      [may |-> {"unplug", "defaults"}, glasses |-> {"viture", "pro"}, steps |-> {8}, starts |-> {12}],
      [may |-> {"unplug", "board"}, glasses |-> {"rayneo", "viture"}, steps |-> {4}, starts |-> {12}] }
Every_History == Timing \cup Setting
=============================================================================
