\* The calibration on a small clock; squaring up, dolly steps, the field of
\* view and mounts while glasses come and go.
SPECIFICATION FairSpec
CONSTANTS
    Model = {"air", "rayneo", "viture", "pro"}
    None = none
    Family <- Families
    Mount <- Mounts
    Fov <- Fovs
    Rank <- Ranks
    Board = 0
    Choice = {50}
    Standard = 50
    Wrap = 16
    Warmup = 2
    MinSamples = 3
    MinWindow = 3
    MaxOffset = 2
    Histories <- Every_History
INVARIANTS
    CalibrationSettled
    SquaredUp
PROPERTIES
    SettingsFollow
    GlassesCalibrate
CHECK_DEADLOCK FALSE
