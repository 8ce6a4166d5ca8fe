-------------------------- MODULE MCDeviceCommands --------------------------
(* Small instances of DeviceCommands: the families, and what users ask for. *)
EXTENDS DeviceCommands, TLC

\* The XREAL Light's 1 and 3, the Air's USB values, VITURE's 0x31 and 0x32,
\* MOVERIO's 2D and 3D.
Families == {"air", "nreal", "viture", "sensor", "tcp"}
SomeModes == [f \in Families |->
    CASE f = "air"    -> {1, 3}
      [] f = "nreal"  -> {1, 3}
      [] f = "viture" -> {49, 50}
      [] f = "sensor" -> {0, 1}
      [] OTHER        -> {}]

History(t, r, f) == [topics |-> t, rows |-> r, families |-> f]
EachAlone == {History({"mode"}, {"mode"}, {f}) : f \in {"air", "nreal", "viture"}}
Exchanged == {History({"mode"}, {}, {"air", "viture"})}
OnePort == {History({"bright"}, {"bright"}, {"sensor"}),
            History({"bright", "auto"}, {}, {"sensor"})}
Eye == {History({"eye"}, {"eye"}, {"tcp"})}
Linked == {History({"shift"}, {}, {"sensor"})}
All == EachAlone \cup Exchanged \cup OnePort \cup Eye \cup Linked

\* Two distances, of which neither is the factory's.
TwoShifts == "near" :> 2 @@ "far" :> 1
=============================================================================
