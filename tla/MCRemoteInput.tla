--------------------------- MODULE MCRemoteInput ---------------------------
(* Small instances of RemoteInput; sessions, texts and copies are interchangeable. *)
EXTENDS RemoteInput, TLC

\* Buttons and texts share nothing but the session threads.
Apart == { {"btn"}, {"text"} }

Symmetry == Permutations(Conn) \cup Permutations(Text) \cup Permutations(Copy)
=============================================================================
