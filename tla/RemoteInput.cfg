\* Three sessions, which evict one another, with two buttons; or two texts
\* and any number of copies, of two contents, one amid the other.
SPECIFICATION InputSpec
CONSTANTS
    Conn = {c1, c2, c3}
    Ui = ui
    Histories <- Apart
    Count = 2
    Text = {t1, t2}
    Copy = {u1, u2}
SYMMETRY Symmetry
INVARIANTS
    NothingStuck
    TypedAsSent
    ClipboardComesBack
CHECK_DEADLOCK FALSE
