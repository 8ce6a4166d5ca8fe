\* The layout under changes of monitors, focus and settings; the size sync; and
\* the layout alone on many desks.
SPECIFICATION FairSpec
CONSTANTS
    Desk <- Desks
    Monitors <- Every
    Style <- Names
    Styles <- Kinds
    Focus = {0, 1}
    MaxGen = 2
    Histories <- Every_History
INVARIANTS
    NothingForgotten
    WallTiles
    EachInItsPlace
PROPERTIES
    WallFollows
    CanvasFollows
CHECK_DEADLOCK FALSE
