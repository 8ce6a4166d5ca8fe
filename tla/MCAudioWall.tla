---------------------------- MODULE MCAudioWall ----------------------------
(* Small instances of AudioWall. *)
EXTENDS AudioWall

CONSTANT chrome

MaybeExcluded == {{}, {chrome}}
=============================================================================
