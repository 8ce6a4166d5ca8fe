--------------------------- MODULE MCDisplayWall ---------------------------
(***************************************************************************)
(* Instances of DisplayWall: some desks and styles for the races, and many *)
(* desks, which stay, for the layout.                                      *)
(***************************************************************************)
EXTENDS DisplayWall, TLC

Screen(id, n, x, y, w, h) ==
    [id |-> id, number |-> n, gdi |-> n, x |-> x, y |-> y, w |-> w, h |-> h,
     primary |-> n = 1, glasses |-> id = "glasses"]
Panel == Screen("panel", 1, 0, 0, 1920, 1280)
Glasses(x) == Screen("glasses", 3, x, 0, 1920, 1080)

\* Three screens that touch: the panel, a flat and an upright one, on a grid.
Unit == 640
Three(k) ==
    << Panel,
       Screen("flat", 2, ((k % 6) - 2) * Unit, (((k \div 6) % 4) - 1) * Unit, 2 * Unit, Unit),
       Screen("tall", 3, (((k \div 24) % 7) - 2) * Unit, (((k \div 168) % 5) - 2) * Unit,
              Unit, 2 * Unit) >>
Touch(a, b) == ~Apart(Rect(a.x - 1, a.y - 1, a.w + 2, a.h + 2), b)
Possible(ms) ==
    /\ \A i, j \in 1..3 : i # j => Apart(ms[i], ms[j])
    /\ Cardinality({<< i, j >> \in (1..3) \X (1..3) : i < j /\ Touch(ms[i], ms[j])}) >= 2
Still == {k \in 10..849 : Possible(Three(k))}

\* 1: laptop with a screen and glasses, 2: without the screen, 3: its lid shut,
\* 4: the screen on the other side, 5: another screen, 6: another one that takes
\* the place of the first, 7: the screen alone.
Desks == (1..7) \cup Still
Every == [k \in Desks |->
    CASE k = 1 -> << Panel, Screen("flat", 2, 1920, 0, 1280, 640), Glasses(3200) >>
      [] k = 2 -> << Panel, Glasses(1920) >>
      [] k = 3 -> << Glasses(0) >>
      [] k = 4 -> << Panel, Screen("flat", 2, -1280, 0, 1280, 640), Glasses(1920) >>
      [] k = 5 -> << Panel, Screen("tall", 2, 1920, 0, 640, 1280), Glasses(2560) >>
      [] k = 6 -> << Panel, Screen("twin", 2, 1920, 0, 1280, 640), Glasses(3200) >>
      [] k = 7 -> << Screen("flat", 1, 0, 0, 1280, 640) >>
      [] OTHER -> Three(k)]

Plain ==
    [mode |-> "windows", align |-> "center", columns |-> 3, rows |-> << >>,
     gap_x |-> 1, gap_y |-> 1, padding |-> 0, include_primary |-> TRUE,
     exclude_glasses |-> TRUE, only |-> {}, exclude |-> {}, capture_cursor |-> TRUE]
Kinds ==
    [plain |-> Plain,
     bare |-> [Plain EXCEPT !.capture_cursor = FALSE, !.include_primary = FALSE],
     wide |-> [Plain EXCEPT !.gap_x = 40, !.gap_y = 90, !.padding = 10],
     hole |-> [Plain EXCEPT !.gap_x = 40, !.exclude = {"panel"}],
     only |-> [Plain EXCEPT !.only = {"flat", "tall"}],
     auto |-> [Plain EXCEPT !.mode = "auto", !.columns = 2, !.align = "right"],
     rows |-> [Plain EXCEPT !.mode = "rows", !.rows = << << 2, 2, 9 >>, << 9 >>, << 1, 3 >> >>],
     zero |-> [Plain EXCEPT !.mode = "rows", !.align = "left", !.rows = << << 2, 0 >> >>]]
Names == DOMAIN Kinds

One == << 1920, 1280 >>
Flat == << 1280, 640 >>

Moving ==
    { [may |-> {"focus", "fail", "edit"}, desks |-> {1, 2}, styles |-> {"plain"}, canvases |-> {One}],
      [may |-> {"focus"}, desks |-> {1, 4, 5}, styles |-> {"plain"}, canvases |-> {One}],
      [may |-> {"edit"}, desks |-> {1, 4}, styles |-> {"plain", "bare"}, canvases |-> {One}],
      [may |-> {"focus"}, desks |-> {1, 6}, styles |-> {"plain"}, canvases |-> {One}],
      [may |-> {"sync"}, desks |-> {2, 7}, styles |-> {"plain"}, canvases |-> {One}],
      [may |-> {"sync", "output"}, desks |-> {2, 3}, styles |-> {"plain"}, canvases |-> {Flat}],
      [may |-> {"sync", "refuse"}, desks |-> {1, 2}, styles |-> {"plain"}, canvases |-> {One}],
      [may |-> {"sync", "edit"}, desks |-> {2, 3}, styles |-> {"plain"}, canvases |-> {One}],
      [may |-> {"sync", "edit", "output"}, desks |-> {2}, styles |-> {"plain"}, canvases |-> {Flat}] }
Resting ==
    { [may |-> {"edit"}, desks |-> {k}, styles |-> {t}, canvases |-> {One}] : k \in Still, t \in Names }
Every_History == Moving \cup Resting
=============================================================================
