---------------------------- MODULE MCDeviceLink ----------------------------
(* Small instances of DeviceLink: which glasses may be plugged in. *)
EXTENDS DeviceLink, TLC

CONSTANTS m1, m2

\* The One's TCP bridge and a HID family with a watchdog.
OneAndRokid == (m1 :> "tcp") @@ (m2 :> "rokid")
=============================================================================
