\* Two sessions, two tokens; settings are saved and loaded while the remote
\* runs, rotations, port changes and restarts come in any order.
SPECIFICATION FairSpec
CONSTANTS
    Conn = {c1, c2}
    MaxToken = 2
INVARIANTS
    RevokedTokenIsDead
    OneSessionSurvives
    ClientsAreSessions
PROPERTIES
    SilentClientLeaves
CHECK_DEADLOCK FALSE
