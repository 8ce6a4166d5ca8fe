\* One phone; the mirror's two histories, or one of each output.
SPECIFICATION FairPollSpec
CONSTANTS
    Conn = {c1}
    Phone = {c1}
    Ui = ui
    Pool = {p1}
    MaxValue = 2
    Moves <- Apart
    Endpoint = {glasses_audio, speaker}
    GlassesAudio = glasses_audio
    Window = {w1, w2}
    None = None
    Stirs <- Halves
INVARIANTS
    PagesInStep
    NoneLeftOnDesk
PROPERTIES
    ReadoutCatchesUp
    MonitoringFollows
    AutoOpensOnce
