----------------------------- MODULE MCDockPoll -----------------------------
(* Small instances of DockPoll. *)
EXTENDS DockPoll, TLC

\* The distance and the focus flag travel in one frame but each is written on
\* its own, so they change in separate histories; the settings change in both.
\* The outputs share only the poll with them, and little with each other.
Apart == { {"dist", "cfg"}, {"edit", "cfg"}, {} }
Halves == { {"sound"}, {"screen"}, {} }
=============================================================================
