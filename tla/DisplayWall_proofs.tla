------------------------- MODULE DisplayWall_proofs -------------------------
(***************************************************************************)
(* Theorems about DisplayWall and the layouts it computes (WallLayout), for *)
(* any topologies, styles, sizes and bounds.                               *)
(***************************************************************************)
EXTENDS DisplayWall, TLAPS, FiniteSetTheorems, SequenceTheorems, WellFoundedInduction

\* The wall's size may be half written, or not asked for yet.
Writing == {"height", "schedule"}

\* What makes NothingForgotten inductive: what the task read and decided on
\* stays true until it ends, or the size is being written and its request will
\* be marked as made within the task.
Decided ==
    (~crossed /\ gpc \notin Writing) =>
        /\ upc = "height" => width[1] = size[1]
        /\ upc = "stop" => ~on \/ Small(size)
        /\ upc \in {"reset", "done"} => width = size

IInv == TypeOK /\ OneTask /\ Decided /\ NothingForgotten

\* An output is never active while the task is about to reset the video.
Quiet == upc = "reset" => ~capturing

-----------------------------------------------------------------------------

\* Sizes have two sides, which can be exchanged one at a time.
LEMMA SizeType ==
    /\ None \in Sizes
    /\ \A l \in Layouts : Size(l) \in Sizes
    /\ \A s, t \in Sizes : << s[1], t[2] >> \in Sizes /\ s = << s[1], s[2] >>
<1>1. ASSUME NEW l \in Layouts PROVE Size(l) = << Size(l)[1], Size(l)[2] >>
  <2>1. ASSUME NEW ms, NEW others, NEW s, NEW wall, wall = WindowsLayout(ms, others, s)
        PROVE  wall.size = << wall.size[1], wall.size[2] >>
    BY <2>1 DEF WindowsLayout
  <2>2. ASSUME NEW rows, NEW s, NEW wall, wall = RowsLayout(rows, s)
        PROVE  wall.size = << wall.size[1], wall.size[2] >>
    BY <2>2 DEF RowsLayout
  <2>3. PICK wall : wall = Laid(l)
    OBVIOUS
  <2>4. \/ \E ms, others, s : wall = WindowsLayout(ms, others, s)
        \/ \E rows, s : wall = RowsLayout(rows, s)
    <3>1. PICK all, s, n : wall = LayoutOf(all, s, n)
      BY <2>3, Zenon DEF Laid
    <3>2. CASE s.mode = "windows"
      BY <3>1, <3>2, Zenon DEF LayoutOf
    <3>3. CASE s.mode # "windows"
      BY <3>1, <3>3, Zenon DEF LayoutOf
    <3> QED BY <3>2, <3>3
  <2>5. wall.size = << wall.size[1], wall.size[2] >>
    BY <2>1, <2>2, <2>4, Zenon
  <2> QED BY <2>3, <2>5, Zenon DEF Size
<1> DEFINE Across == {Size(l)[1] : l \in Layouts} \cup {0}
           Down == {Size(l)[2] : l \in Layouts} \cup {0}
<1>2. Sizes = Across \X Down
  BY Zenon DEF Sizes
<1>3. \A l \in Layouts : Size(l)[1] \in Across /\ Size(l)[2] \in Down
  OBVIOUS
<1>4. 0 \in Across /\ 0 \in Down
  OBVIOUS
<1> HIDE DEF Across, Down
<1> QED
  BY <1>1, <1>2, <1>3, <1>4 DEF None

LEMMA InitType == Init => TypeOK
<1> SUFFICES ASSUME Init PROVE TypeOK  OBVIOUS
<1>1. on \in BOOLEAN /\ update \in BOOLEAN
  <2>1. on \in {FALSE, "sync" \in history.may} /\ update = on  BY Zenon DEF Init
  <2>2. on = FALSE \/ on = ("sync" \in history.may)  BY <2>1, Zenon
  <2>3. CASE on = FALSE  BY <2>1, <2>3
  <2>4. CASE on = ("sync" \in history.may)  BY <2>1, <2>4
  <2> QED  BY <2>2, <2>3, <2>4
<1>2. history.desks \subseteq Desk /\ history.styles \subseteq Style /\ history.canvases \subseteq Sizes
  BY Parameters DEF Init
<1>3. desk \in Desk /\ style \in Style /\ canvas \in Sizes /\ focus \in Focus
  BY <1>2, Parameters DEF Init
<1>4. shown \in Layouts /\ carried \in Layouts  BY <1>3 DEF Init, Layouts
<1>5. size \in Sizes  BY <1>4, SizeType DEF Init
<1>6. 0 \in 0..MaxGen /\ None \in Sizes /\ 0 \in Nat  BY Parameters, SizeType
<1>7. sig \in {Signature(d) : d \in Desk}  BY <1>3 DEF Init
<1> QED  BY <1>1, <1>3, <1>4, <1>5, <1>6, <1>7 DEF Init, TypeOK, Working

LEMMA NextType == TypeOK /\ [Next]_vars => TypeOK'
<1> SUFFICES ASSUME TypeOK, [Next]_vars PROVE TypeOK'  OBVIOUS
<1> USE DEF TypeOK, Working
<1> USE DEF outside, rebuilt, request, ui
<1>0. None \in Sizes  BY SizeType
<1>1. ASSUME NEW d \in Desk, Plug(d) PROVE TypeOK'
  <2>1. desk' = d /\ UNCHANGED << history, focus, gen, can, on, style, update, capturing >>
    BY <1>1, Zenon DEF Plug
  <2>2. UNCHANGED << canvas, applied, rebuilt, sync, request, gpc, ui >>  BY <1>1, Zenon DEF Plug
  <2> QED  BY <1>0, <2>1, <2>2
<1>2. ASSUME NEW n \in Focus, SetFocus(n) PROVE TypeOK'  BY <1>0, <1>2 DEF SetFocus
<1>3. CASE RaiseGen  BY <1>0, <1>3, Parameters DEF RaiseGen
<1>4. ASSUME NEW b \in BOOLEAN, NEW t \in Style, CaptureWorks(b) \/ Edit(b, t) \/ Output(b)
      PROVE TypeOK'
  <2>1. can' \in BOOLEAN /\ on' \in BOOLEAN /\ update' \in BOOLEAN /\ capturing' \in BOOLEAN
    BY <1>4, Zenon DEF CaptureWorks, Edit, Output
  <2>2. UNCHANGED << history, desk, focus, gen, canvas, applied, rebuilt, sync, request, gpc, ui >>
    BY <1>4, Zenon DEF CaptureWorks, Edit, Output
  <2>3. style' \in Style  BY <1>4, Zenon DEF CaptureWorks, Edit, Output
  <2> QED  BY <1>0, <2>1, <2>2, <2>3
<1>5. CASE Refresh \/ Show
  <2>1. Begin /\ newly' = FALSE  BY <1>5, Zenon DEF Refresh, Show
  <2>2. UNCHANGED << outside, canvas, applied, sync, request, ui >>
    BY <1>5, Zenon DEF Refresh, Show
  <2>3. gpc' = "gen" /\ sig' \in {Signature(d) : d \in Desk}  BY <2>1, Zenon DEF Begin
  <2>4. UNCHANGED << shown, size, carried, built, seen >>  BY <1>5, Zenon DEF Refresh, Show
  <2>5. missing' \in BOOLEAN /\ crossed' \in BOOLEAN /\ newly' \in BOOLEAN
    BY <1>5, Zenon DEF Refresh, Show
  <2> QED  BY <1>0, <2>2, <2>3, <2>4, <2>5
<1>6. CASE Update
  <2>1. newly' \in BOOLEAN /\ sync' \in BOOLEAN  BY <1>6, Zenon DEF Update
  <2>2. gpc' = "gen" /\ sig' \in {Signature(d) : d \in Desk}  BY <1>6, Zenon DEF Update, Begin
  <2>3. update' = FALSE /\ applied' = style  BY <1>6, Zenon DEF Update
  <2>4. UNCHANGED << history, desk, focus, gen, can, on, style, capturing, canvas >>
    BY <1>6, Zenon DEF Update
  <2>5. UNCHANGED << shown, size, carried, missing, built, seen, crossed, request, ui >>
    BY <1>6, Zenon DEF Update
  <2> QED  BY <1>0, <2>1, <2>2, <2>3, <2>4, <2>5, ZenonT(60)
<1>7. CASE ReadGen \/ Enumerate  BY <1>0, <1>7 DEF ReadGen, Enumerate
<1>8. CASE Apply
  <2>1. Layout \in Layouts  BY DEF Layout, Layouts
  <2>2. shown' \in Layouts  BY <1>8, <2>1, Zenon DEF Apply
  <2>3. missing' \in BOOLEAN /\ carried' \in Layouts
    <3>1. Ensure(Layout)  BY <1>8, Zenon DEF Apply
    <3>2. CASE Retried \/ ~SameSet(Layout)
      <4>1. carried' = Layout /\ missing' = (~can /\ Order(Layout) # << >>)
        BY <3>1, <3>2, Zenon DEF Ensure
      <4> QED  BY <4>1, <2>1
    <3>3. CASE ~(Retried \/ ~SameSet(Layout))  BY <3>1, <3>3, Zenon DEF Ensure
    <3> QED  BY <3>2, <3>3
  <2>4. gpc' = "width"  BY <1>8, Zenon DEF Apply
  <2>5. UNCHANGED << outside, canvas, applied, size, sig, built, seen, newly, crossed >>
    BY <1>8, Zenon DEF Apply
  <2>6. UNCHANGED << sync, request, ui >>  BY <1>8, Zenon DEF Apply
  <2> QED  BY <1>0, <2>2, <2>3, <2>4, <2>5, <2>6
<1>13. CASE WriteWidth \/ WriteHeight
  <2>1. size' \in Sizes  BY <1>13, SizeType DEF WriteWidth, WriteHeight
  <2>2. gpc' \in {"height", "schedule"}  BY <1>13, Zenon DEF WriteWidth, WriteHeight
  <2>3. UNCHANGED << outside, canvas, applied, shown, carried, missing, sig, built, seen >>
    BY <1>13, Zenon DEF WriteWidth, WriteHeight
  <2>4. UNCHANGED << newly, crossed, sync, request, ui >>
    BY <1>13, Zenon DEF WriteWidth, WriteHeight
  <2> QED  BY <1>0, <2>1, <2>2, <2>3, <2>4
<1>14. CASE ScheduleSync \/ Again
  <2>1. Schedule(last) \/ Schedule(None)  BY <1>14, Zenon DEF ScheduleSync, Again
  <2>2. pending' \in Sizes /\ counting' \in BOOLEAN
    BY <2>1, Zenon DEF Schedule
  <2>3. crossed' \in BOOLEAN
    <3>1. crossed' = (upc \in Working \ {"width"})  BY <2>1, Zenon DEF Schedule
    <3> QED  BY <3>1
  <2>4. gpc' \in {"again", "idle"} /\ newly' \in BOOLEAN /\ last' \in Sizes
    BY <1>0, <1>14, Zenon DEF ScheduleSync, Again
  <2>5. UNCHANGED << outside, canvas, applied, shown, size, carried, missing, sig, built, seen >>
    BY <1>14, Zenon DEF ScheduleSync, Again
  <2>6. UNCHANGED << sync, queued, tasks, ui >>
    BY <1>14, Zenon DEF ScheduleSync, Again
  <2> QED  BY <1>0, <2>2, <2>3, <2>4, <2>5, <2>6
<1>9. CASE Timer
  <2>1. CASE Load
    <3>1. gpc' = "count" /\ UNCHANGED << outside, canvas, applied, rebuilt, sync, request, ui >>
      BY <2>1, Zenon DEF Load
    <3> QED  BY <1>0, <3>1
  <2>2. CASE Count  BY <1>0, <2>2 DEF Count
  <2>3. CASE Expire
    <3>1. queued' \in BOOLEAN  BY <2>3, Zenon DEF Expire
    <3>2. tasks' \in Nat  BY <2>3 DEF Expire
    <3>3. gpc' = "idle" /\ counting' = FALSE  BY <2>3, Zenon DEF Expire
    <3>4. UNCHANGED << outside, canvas, applied, rebuilt, sync, pending, last, ui >>
      BY <2>3, Zenon DEF Expire
    <3> QED  BY <1>0, <3>1, <3>2, <3>3, <3>4, ZenonT(60)
  <2> QED  BY <1>9, <2>1, <2>2, <2>3 DEF Timer
<1>10. CASE Start \/ ReadWidth \/ ReadHeight \/ Reset
  <2>1. CASE Start
    <3>1. tasks' \in Nat  BY <2>1 DEF Start
    <3>2. queued' = FALSE /\ upc' = "width"  BY <2>1, Zenon DEF Start
    <3>3. UNCHANGED << outside, canvas, applied, rebuilt, sync, counting, pending, last, gpc >>
      BY <2>1, Zenon DEF Start
    <3>4. UNCHANGED << width, refused >>  BY <2>1, Zenon DEF Start
    <3> QED  BY <1>0, <3>1, <3>2, <3>3, <3>4, ZenonT(60)
  <2>2. CASE ReadWidth \/ ReadHeight
    <3>1. width' \in Sizes  BY <2>2, SizeType DEF ReadWidth, ReadHeight
    <3>2. upc' \in Working \cup {"idle", "raise"} /\ (upc' = "raise" => gen' < MaxGen)
      BY <2>2 DEF ReadWidth, ReadHeight
    <3>4. refused' \in BOOLEAN  BY <2>2, Zenon DEF ReadWidth, ReadHeight
    <3>3. UNCHANGED << outside, canvas, applied, rebuilt, sync, request, gpc >>
      BY <2>2, Zenon DEF ReadWidth, ReadHeight
    <3> QED  BY <1>0, <3>1, <3>2, <3>3, <3>4, ZenonT(60)
  <2>3. CASE Reset
    <3>1. canvas' \in Sizes /\ refused' \in BOOLEAN /\ upc' = "done"  BY <2>3, Zenon DEF Reset
    <3>2. UNCHANGED << outside, applied, rebuilt, sync, request, gpc, width >>
      BY <2>3, Zenon DEF Reset
    <3> QED  BY <1>0, <3>1, <3>2, ZenonT(60)
  <2> QED  BY <1>10, <2>1, <2>2, <2>3
<1>11. CASE Stop \/ Later \/ Done
  <2>1. CASE Stop  BY <1>0, <2>1, ZenonT(60) DEF Stop
  <2>2. CASE Later  BY <1>0, <2>2 DEF Later, Retry
  <2>3. CASE Done  BY <1>0, <2>3, ZenonT(60) DEF Done
  <2> QED  BY <1>11, <2>1, <2>2, <2>3
<1>12. CASE UNCHANGED vars  BY <1>0, <1>12 DEF vars
<1> QED
  BY <1>1, <1>2, <1>3, <1>4, <1>5, <1>6, <1>7, <1>8, <1>9, <1>10, <1>11, <1>12, <1>13, <1>14
  DEF Next, Outside, Rebuild, Task

\* Every variable holds what its thread may have stored there.
THEOREM TypeCorrect == Spec => []TypeOK
<1>1. Init => TypeOK  BY InitType
<1>2. TypeOK /\ [Next]_vars => TypeOK'  BY NextType
<1> QED  BY <1>1, <1>2, PTL DEF Spec

-----------------------------------------------------------------------------

LEMMA NextOneTask == TypeOK /\ OneTask /\ [Next]_vars => OneTask'
<1> SUFFICES ASSUME TypeOK, OneTask, [Next]_vars PROVE OneTask'  OBVIOUS
<1> USE DEF OneTask
<1>1. CASE Start  BY <1>1 DEF Start, TypeOK
<1>2. CASE Expire  BY <1>2 DEF Expire, Free, TypeOK
<1>3. CASE UNCHANGED << queued, tasks >>  BY <1>3
<1>4. CASE Next /\ ~Start /\ ~Expire
  <2>1. UNCHANGED << queued, tasks >>
    BY <1>4 DEF Next, Outside, Rebuild, Timer, Task, outside, rebuilt, request, ui,
       Plug, SetFocus, RaiseGen, CaptureWorks, Edit, Output, Refresh, Show, Update,
       ReadGen, Enumerate, Apply, WriteWidth, WriteHeight, ScheduleSync, Again, Schedule,
       Load, Count, ReadWidth, ReadHeight, Reset, Stop, Later, Done
  <2> QED  BY <2>1, <1>3
<1> QED  BY <1>1, <1>2, <1>3, <1>4 DEF vars, request

\* However the timer races a busy UI thread, one sync task waits at most.
THEOREM OneTaskWaits == Spec => []OneTask
<1>1. Init => OneTask  BY DEF Init, OneTask
<1>2. TypeOK /\ OneTask /\ [Next]_vars => OneTask'  BY NextOneTask
<1> QED  BY <1>1, <1>2, TypeCorrect, PTL DEF Spec

-----------------------------------------------------------------------------

LEMMA NextDecided ==
    ASSUME TypeOK, Decided, [Next]_vars PROVE Decided'
<1> USE DEF Decided
<1>1. CASE Outside
  BY <1>1 DEF Outside, Plug, SetFocus, CaptureWorks, Edit, Output, rebuilt, ui
<1>2. CASE ScheduleSync \/ Again
  <2>1. Schedule(last) \/ Schedule(None)  BY <1>2, Zenon DEF ScheduleSync, Again
  <2>2. crossed' = (upc \in Working \ {"width"})  BY <2>1, Zenon DEF Schedule
  <2>3. upc' = upc  BY <1>2, Zenon DEF ScheduleSync, Again, ui
  <2> QED  BY <2>2, <2>3 DEF Working
<1>3. CASE WriteWidth \/ WriteHeight
  <2>1. gpc' \in Writing  BY <1>3, Zenon DEF WriteWidth, WriteHeight, Writing
  <2> QED  BY <2>1
<1>8. CASE Refresh \/ Show \/ Update \/ ReadGen \/ Enumerate \/ Apply
  <2>1. gpc \notin Writing
    BY <1>8 DEF Refresh, Show, Update, Begin, ReadGen, Enumerate, Apply, Writing
  <2>2. UNCHANGED << crossed, on, size, upc, width >>
    BY <1>8, Zenon DEF Refresh, Show, Update, ReadGen, Enumerate, Apply, outside, ui
  <2> QED  BY <2>1, <2>2
<1>4. CASE Timer
  <2>1. gpc \notin Writing /\ UNCHANGED << crossed, on, size, upc, width >>
    BY <1>4 DEF Timer, Load, Count, Expire, outside, rebuilt, ui, Writing
  <2> QED  BY <2>1
<1>5. CASE ReadWidth \/ ReadHeight
  <2>1. UNCHANGED << size, on, crossed, gpc >>
    BY <1>5 DEF ReadWidth, ReadHeight, outside, rebuilt
  <2>2. CASE ReadWidth
    <3>1. upc' = "height" /\ width' = << size[1], width[2] >>  BY <2>2, Zenon DEF ReadWidth
    <3> QED  BY <2>1, <3>1
  <2>3. CASE ReadHeight
    <3>1. upc = "height" /\ width' = << width[1], size[2] >>  BY <2>3, Zenon DEF ReadHeight
    <3>2. size = << size[1], size[2] >>
      BY SizeType DEF TypeOK
    <3>3. upc' # "height"  BY <2>3 DEF ReadHeight
    <3>4. upc' = "stop" => ~on \/ Small(width')  BY <2>3, SMT DEF ReadHeight
    <3>5. ~crossed /\ gpc \notin Writing => width' = size  BY <3>1, <3>2
    <3> QED  BY <2>1, <3>3, <3>4, <3>5
  <2> QED  BY <1>5, <2>2, <2>3
<1>6. CASE RaiseGen \/ Start \/ Reset \/ Stop \/ Later \/ Done
  BY <1>6 DEF RaiseGen, Start, Reset, Stop, Later, Done, outside, rebuilt, ui
<1>7. CASE UNCHANGED vars  BY <1>7 DEF vars, outside, rebuilt, ui
<1> QED
  BY <1>1, <1>2, <1>3, <1>4, <1>5, <1>6, <1>7, <1>8 DEF Next, Rebuild, Task

LEMMA NextForgotten ==
    ASSUME IInv, [Next]_vars PROVE NothingForgotten'
<1> USE DEF NothingForgotten, Working
<1>0. TypeOK /\ OneTask /\ Decided /\ NothingForgotten  BY DEF IInv
<1>1. CASE Outside
  BY <1>0, <1>1 DEF Outside, Plug, SetFocus, CaptureWorks, Edit, Output, rebuilt, request, ui
<1>2. CASE Refresh \/ Show \/ Update \/ ReadGen \/ Enumerate
  <2>1. gpc' \notin {"idle", "count"}
    BY <1>2 DEF Refresh, Show, Update, Begin, ReadGen, Enumerate
  <2> QED  BY <2>1
<1>3. CASE Apply \/ WriteWidth \/ WriteHeight
  <2>1. gpc' \notin {"idle", "count"}  BY <1>3 DEF Apply, WriteWidth, WriteHeight
  <2> QED  BY <2>1
<1>12. CASE ScheduleSync \/ Again
  <2>1. PICK s \in {last, None} : s = last' /\ Schedule(s)
    BY <1>12, Zenon DEF ScheduleSync, Again
  <2>2. size' = size /\ sync' = sync  BY <1>12, Zenon DEF ScheduleSync, Again
  <2> QED  BY <1>0, <2>1, <2>2 DEF Schedule, TypeOK
<1>4. CASE Load \/ Count
  <2>1. CASE Count
    <3>1. counting' = TRUE  BY <2>1, Zenon DEF Count
    <3> QED  BY <3>1
  <2>2. CASE Load
    <3>1. gpc' = "count" /\ counting /\ counting' = counting  BY <2>2, Zenon DEF Load, request
    <3>2. counting'  BY <3>1, <1>0, Zenon DEF TypeOK
    <3> QED  BY <3>2
  <2> QED  BY <1>4, <2>1, <2>2
<1>5. CASE Expire
  BY <1>0, <1>5 DEF Expire, Free, TypeOK, outside, rebuilt, request, ui
<1>6. CASE RaiseGen
  BY <1>0, <1>6 DEF RaiseGen, rebuilt, request
<1>7. CASE Start \/ ReadWidth \/ ReadHeight \/ Reset
  BY <1>7 DEF Start, ReadWidth, ReadHeight, Reset
<1>8. CASE Stop
  BY <1>0, <1>8 DEF Stop, Decided, Writing, TypeOK, outside, rebuilt
<1>9. CASE Later
  BY <1>9 DEF Later, Retry
<1>10. CASE Done
  BY <1>0, <1>10 DEF Done, Decided, Writing, TypeOK, outside, rebuilt
<1>11. CASE UNCHANGED vars
  BY <1>0, <1>11 DEF vars, outside, rebuilt, request, ui
<1> QED
  BY <1>1, <1>2, <1>3, <1>4, <1>5, <1>6, <1>7, <1>8, <1>9, <1>10, <1>11, <1>12
  DEF Next, Rebuild, Timer, Task

\* A size that was never synced always has its timer, its task or its update
\* ahead, however its sides are torn between the threads, unless the last request
\* was made within the UI task.
THEOREM RequestsSurvive == Spec => []NothingForgotten
<1>1. Init => IInv
  <2> SUFFICES ASSUME Init PROVE IInv  OBVIOUS
  <2>1. TypeOK  BY InitType
  <2>2. OneTask /\ Decided /\ NothingForgotten
    BY DEF Init, OneTask, Decided, NothingForgotten
  <2> QED  BY <2>1, <2>2 DEF IInv
<1>2. IInv /\ [Next]_vars => IInv'
  <2> SUFFICES ASSUME IInv, [Next]_vars PROVE IInv'  OBVIOUS
  <2>1. TypeOK' /\ OneTask'  BY NextType, NextOneTask DEF IInv
  <2>2. Decided'  BY NextDecided DEF IInv
  <2>3. NothingForgotten'  BY NextForgotten
  <2> QED  BY <2>1, <2>2, <2>3 DEF IInv
<1>3. IInv => NothingForgotten  BY DEF IInv
<1> QED  BY <1>1, <1>2, <1>3, PTL DEF Spec

-----------------------------------------------------------------------------

LEMMA NextQuiet == Quiet /\ [Next]_vars => Quiet'
<1> SUFFICES ASSUME Quiet, [Next]_vars PROVE Quiet'  OBVIOUS
<1> USE DEF Quiet
<1>1. CASE ReadHeight  BY <1>1 DEF ReadHeight, Idle, outside
<1>2. CASE Outside
  BY <1>2 DEF Outside, Plug, SetFocus, CaptureWorks, Edit, Output, ui
<1>3. CASE Rebuild \/ Timer
  BY <1>3 DEF Rebuild, Refresh, Show, Update, ReadGen, Enumerate, Apply, WriteWidth,
     WriteHeight, ScheduleSync, Again, Timer, Load, Count, Expire, outside, ui
<1>4. CASE RaiseGen \/ Start \/ ReadWidth \/ Reset \/ Stop \/ Later \/ Done
  BY <1>4 DEF RaiseGen, Start, ReadWidth, Reset, Stop, Later, Done, outside
<1>5. CASE UNCHANGED vars  BY <1>5 DEF vars, outside, ui
<1> QED  BY <1>1, <1>2, <1>3, <1>4, <1>5 DEF Next, Task

LEMMA CanvasStep == Quiet /\ [Next]_vars => (canvas' # canvas => ~capturing)
<1> SUFFICES ASSUME Quiet, [Next]_vars, canvas' # canvas PROVE ~capturing  OBVIOUS
<1>1. Reset
  BY DEF Next, Outside, Rebuild, Timer, Task, vars, outside, rebuilt, request, ui,
     Plug, SetFocus, RaiseGen, CaptureWorks, Edit, Output, Refresh, Show, Update,
     ReadGen, Enumerate, Apply, WriteWidth, WriteHeight, ScheduleSync, Again, Load, Count,
     Expire, Start, ReadWidth, ReadHeight, Stop, Later, Done
<1> QED  BY <1>1 DEF Reset, Quiet

\* No output ever sees the canvas change under it.
THEOREM OutputsAreLeftAlone == Spec => OutputsKeepTheirSize
<1>1. Init => Quiet  BY DEF Init, Quiet
<1>2. Quiet /\ [Next]_vars => Quiet'  BY NextQuiet
<1>3. Quiet /\ [Next]_vars => [canvas' # canvas => ~capturing]_vars  BY CanvasStep
<1> QED  BY <1>1, <1>2, <1>3, PTL DEF Spec, OutputsKeepTheirSize

-----------------------------------------------------------------------------

\* What is placed by a layout is the capture of the monitor it was placed for,
\* also when the children were kept from an earlier layout.
THEOREM CapturesInTheirPlaces == Spec => []EachInItsPlace
<1>1. Init => EachInItsPlace
  BY DEF Init, EachInItsPlace
<1>2. EachInItsPlace /\ [Next]_vars => EachInItsPlace'
  <2> SUFFICES ASSUME EachInItsPlace, [Next]_vars PROVE EachInItsPlace'  OBVIOUS
  <2>1. CASE Apply
    <3>1. shown' = Layout /\ Ensure(Layout)  BY <2>1 DEF Apply
    <3>2. CASE carried' = Layout  BY <3>1, <3>2 DEF EachInItsPlace
    <3>3. CASE carried' = carried /\ SameSet(Layout)
      BY <3>1, <3>3 DEF EachInItsPlace, SameSet, Order
    <3> QED  BY <3>1, <3>2, <3>3 DEF Ensure
  <2>2. CASE UNCHANGED << shown, carried >>
    BY <2>2 DEF EachInItsPlace, Order
  <2>3. CASE Next /\ ~Apply
    <3>1. UNCHANGED << shown, carried >>
      BY <2>3 DEF Next, Outside, Rebuild, Timer, Task, rebuilt, Plug, SetFocus, RaiseGen,
         CaptureWorks, Edit, Output, Refresh, Show, Update, ReadGen, Enumerate, WriteWidth,
         WriteHeight, ScheduleSync, Again, Load, Count, Expire, Start, ReadWidth, ReadHeight,
         Reset, Stop, Later, Done
    <3> QED  BY <2>2, <3>1
  <2> QED  BY <2>1, <2>2, <2>3 DEF vars, rebuilt
<1> QED  BY <1>1, <1>2, PTL DEF Spec

-----------------------------------------------------------------------------
(* Numbers and sets                                                        *)

\* Induction, about a set of numbers.
LEMMA Least ==
    ASSUME NEW S \in SUBSET Nat, S # {}
    PROVE  \E n \in S : \A m \in S : n =< m
<1>1. IsWellFoundedOn(OpToRel(<, Nat), Nat)
  BY NatLessThanWellFounded
<1>2. PICK n \in S : \A m \in S : ~(<< m, n >> \in OpToRel(<, Nat))
  BY <1>1, WFMin
<1>3. ASSUME NEW m \in S PROVE n =< m
  <2>1. n \in Nat /\ m \in Nat
    OBVIOUS
  <2>2. m < n => << m, n >> \in OpToRel(<, Nat)
    BY <2>1 DEF OpToRel
  <2>3. ~(m < n)
    BY <1>2, <2>2
  <2> QED BY <2>1, <2>3
<1> QED
  BY <1>3

LEMMA Induction ==
    ASSUME NEW S, 0 \in S, \A n \in Nat : n \in S => n + 1 \in S
    PROVE  Nat \subseteq S
<1> SUFFICES ASSUME Nat \ S # {} PROVE FALSE
  OBVIOUS
<1>1. PICK n \in Nat \ S : \A m \in Nat \ S : n =< m
  BY Least
<1>2. n - 1 \in Nat /\ n - 1 \in S
  BY <1>1
<1> QED
  BY <1>1, <1>2

\* The greatest of finitely many numbers.
LEMMA Greatest ==
    ASSUME NEW N \in Nat \ {0}, NEW f \in [1..N -> Int], NEW S, S = {f[i] : i \in 1..N}
    PROVE  Max(S) \in S /\ \A i \in 1..N : f[i] =< Max(S)
<1> DEFINE T == {n \in Nat : n + 1 =< N => \E m \in 1..(n + 1) : \A i \in 1..(n + 1) : f[i] =< f[m]}
<1>1. 0 \in T
  OBVIOUS
<1>2. ASSUME NEW n \in Nat, n \in T PROVE n + 1 \in T
  <2> SUFFICES ASSUME n + 2 =< N
               PROVE  \E m \in 1..(n + 2) : \A i \in 1..(n + 2) : f[i] =< f[m]
    OBVIOUS
  <2>1. PICK m \in 1..(n + 1) : \A i \in 1..(n + 1) : f[i] =< f[m]
    BY <1>2
  <2>2. f[m] \in Int /\ f[n + 2] \in Int /\ \A i \in 1..(n + 1) : f[i] \in Int
    OBVIOUS
  <2>3. m \in 1..(n + 2) /\ \A i \in 1..(n + 2) : i \in 1..(n + 1) \/ i = n + 2
    OBVIOUS
  <2>4. CASE f[n + 2] =< f[m]
    BY <2>1, <2>3, <2>4
  <2>5. CASE f[m] =< f[n + 2]
    <3>1. \A i \in 1..(n + 2) : f[i] =< f[n + 2]
      BY <2>1, <2>2, <2>3, <2>5
    <3> QED BY <3>1
  <2> QED BY <2>2, <2>4, <2>5
<1>3. N - 1 \in T
  <2> HIDE DEF T
  <2> QED BY <1>1, <1>2, Induction, SMTT(30)
<1>4. PICK m \in 1..N : \A i \in 1..N : f[i] =< f[m]
  BY <1>3
<1>5. \A x \in S : f[m] >= x
  BY <1>4
<1>6. f[m] \in S
  OBVIOUS
<1>7. Max(S) \in S /\ \A x \in S : Max(S) >= x
  BY <1>5, <1>6, Zenon DEF Max
<1> QED
  BY <1>7

\* The lesser of two numbers, and the least of any set of them.
LEMMA Lesser ==
    ASSUME NEW m \in Nat, NEW n \in Nat
    PROVE  Min({m, n}) \in {m, n} /\ Min({m, n}) =< m /\ Min({m, n}) =< n
<1>1. \E x \in {m, n} : \A y \in {m, n} : x =< y
  <2>1. m =< n \/ n =< m
    OBVIOUS
  <2> QED BY <2>1
<1>2. Min({m, n}) \in {m, n} /\ \A y \in {m, n} : Min({m, n}) =< y
  BY <1>1, Zenon DEF Min
<1> QED
  BY <1>2

LEMMA FirstIsThere ==
    ASSUME NEW S \in SUBSET Nat, S # {}
    PROVE  Min(S) \in S
<1>1. PICK n \in S : \A m \in S : n =< m
  BY Least
<1> QED
  BY <1>1, Zenon DEF Min

\* f is what comes of base by one step after the other, in T.
Iterates(f, N, T, base, step) ==
    f \in [0..N -> T] /\ f[0] = base /\ \A i \in 1..N : f[i] = step[i][f[i - 1]]

\* A function defined along 0..N is defined.
LEMMA Recursion ==
    ASSUME NEW N \in Nat, NEW T, NEW base \in T, NEW step \in [1..N -> [T -> T]]
    PROVE  \E f : Iterates(f, N, T, base, step)
<1> DEFINE Along(n, f) == f[0] = base /\ \A i \in 1..n : f[i] = step[i][f[i - 1]]
           S == {n \in Nat : n =< N => \E f \in [0..n -> T] : Along(n, f)}
<1>1. 0 \in S
  <2>1. [i \in 0..0 |-> base] \in [0..0 -> T] /\ Along(0, [i \in 0..0 |-> base])
    OBVIOUS
  <2> QED BY <2>1
<1>2. ASSUME NEW n \in Nat, n \in S PROVE n + 1 \in S
  <2> SUFFICES ASSUME n + 1 =< N PROVE \E f \in [0..(n + 1) -> T] : Along(n + 1, f)
    OBVIOUS
  <2>1. PICK f \in [0..n -> T] : Along(n, f)
    BY <1>2
  <2> DEFINE g == [i \in 0..(n + 1) |-> IF i = n + 1 THEN step[n + 1][f[n]] ELSE f[i]]
  <2>2. n + 1 \in 1..N /\ f[n] \in T
    OBVIOUS
  <2>3. g \in [0..(n + 1) -> T]
    <3>1. step[n + 1][f[n]] \in T
      BY <2>2
    <3> QED BY <3>1
  <2>4. \A i \in 0..n : g[i] = f[i]
    OBVIOUS
  <2>5. g[n + 1] = step[n + 1][g[n]]
    <3>1. g[n] = f[n]
      BY <2>4
    <3>2. g[n + 1] = step[n + 1][f[n]]
      OBVIOUS
    <3> QED BY <3>1, <3>2
  <2>6. Along(n + 1, g)
    <3>1. g[0] = base
      BY <2>1, <2>4
    <3>2. ASSUME NEW i \in 1..(n + 1) PROVE g[i] = step[i][g[i - 1]]
      <4>1. CASE i = n + 1
        BY <2>5, <4>1
      <4>2. CASE i \in 1..n
        BY <2>1, <2>4, <4>2
      <4> QED BY <4>1, <4>2
    <3> QED BY <3>1, <3>2
  <2> HIDE DEF g
  <2> QED BY <2>3, <2>6
<1>3. N \in S
  <2> HIDE DEF S
  <2> QED BY <1>1, <1>2, Induction
<1>4. PICK f \in [0..N -> T] : Along(N, f)
  BY <1>3
<1> QED
  BY <1>4 DEF Iterates

-----------------------------------------------------------------------------
(* Sequences of sequences                                                  *)

\* A function along 1..n is a sequence.
LEMMA IsSeq ==
    ASSUME NEW S, NEW n \in Nat, NEW f, f = [i \in 1..n |-> f[i]], \A i \in 1..n : f[i] \in S
    PROVE  f \in Seq(S)
<1>1. [i \in 1..n |-> f[i]] \in Seq(S)
  OBVIOUS
<1> QED
  BY <1>1

\* What FlattenSeq returns is the last of the concatenations, one by one.
LEMMA Concatenations ==
    ASSUME NEW E, NEW ss \in Seq(Seq(E))
    PROVE  \E f \in [0..Len(ss) -> Seq(E)] :
              /\ f[0] = << >> /\ \A i \in 1..Len(ss) : f[i] = f[i - 1] \o ss[i]
              /\ FlattenSeq(ss) = f[Len(ss)]
<1> DEFINE N == Len(ss)
           step == [i \in 1..N |-> [x \in Seq(E) |-> x \o ss[i]]]
<1>1. N \in Nat /\ \A i \in 1..N : ss[i] \in Seq(E)
  OBVIOUS
<1>2. step \in [1..N -> [Seq(E) -> Seq(E)]]
  BY <1>1
<1>3. << >> \in Seq(E)
  OBVIOUS
<1> HIDE DEF N
<1>4. PICK f \in [0..N -> Seq(E)] : f[0] = << >> /\ \A i \in 1..N : f[i] = step[i][f[i - 1]]
  <2> HIDE DEF step
  <2>1. N \in Nat
    BY <1>1
  <2>2. \E f : Iterates(f, N, Seq(E), << >>, step)
    <3> HIDE DEF step
    <3> QED BY <1>2, <1>3, <2>1, Recursion
  <2> QED BY <2>2 DEF Iterates
<1>5. \A i \in 1..N : f[i - 1] \in Seq(E) /\ f[i] = f[i - 1] \o ss[i]
  <2> TAKE i \in 1..N
  <2>1. i - 1 \in 0..N
    BY <1>1
  <2>2. f[i - 1] \in Seq(E)
    BY <2>1
  <2> QED BY <1>4, <2>1, <2>2
<1>6. N # 0 => f[1] = ss[1]
  <2> SUFFICES ASSUME N # 0 PROVE f[1] = ss[1]
    OBVIOUS
  <2>1. 1 \in 1..N /\ 1 - 1 = 0
    BY <1>1
  <2>2. f[1] = << >> \o ss[1] /\ ss[1] \in Seq(E)
    BY <1>1, <1>4, <1>5, <2>1
  <2> QED BY <2>2
<1>7. FlattenSeq(ss) = f[N]
  <2>1. CASE N = 0
    <3>1. ss = << >> /\ FlattenSeq(ss) = ss
      BY <2>1 DEF N, FlattenSeq
    <3> QED BY <1>4, <2>1, <3>1
  <2>2. CASE N # 0
    <3> DEFINE Fix(g) == g = [i \in 1..N |-> IF i = 1 THEN ss[i] ELSE g[i - 1] \o ss[i]]
               g0 == [i \in 1..N |-> f[i]]
               h == CHOOSE g : Fix(g)
    <3>1. Fix(g0)
      <4>1. ASSUME NEW i \in 1..N PROVE f[i] = IF i = 1 THEN ss[i] ELSE g0[i - 1] \o ss[i]
        <5>1. CASE i = 1
          BY <1>6, <2>2, <5>1
        <5>2. CASE i # 1
          <6>1. i - 1 \in 1..N
            BY <1>1, <5>2
          <6> QED BY <1>5, <5>2, <6>1
        <5> QED BY <5>1, <5>2
      <4> QED BY <4>1
    <3>2. Fix(h)
      <4> HIDE DEF Fix, g0
      <4> QED BY <3>1, Zenon
    <3>3. \A i \in 1..N : h[i] = IF i = 1 THEN ss[i] ELSE h[i - 1] \o ss[i]
      <4> HIDE DEF h
      <4> QED BY <3>2
    <3> DEFINE S == {n \in Nat : n + 1 =< N => h[n + 1] = f[n + 1]}
    <3>4. 0 \in S
      <4> HIDE DEF h
      <4>1. f[1] = ss[1] /\ 1 \in 1..N
        BY <1>1, <1>6, <2>2
      <4>2. h[1] = ss[1]
        BY <3>3, <4>1
      <4> QED BY <4>1, <4>2
    <3>5. ASSUME NEW n \in Nat, n \in S PROVE n + 1 \in S
      <4> HIDE DEF h
      <4> SUFFICES ASSUME n + 2 =< N PROVE h[n + 2] = f[n + 2]
        OBVIOUS
      <4>1. n + 2 \in 1..N /\ n + 2 # 1 /\ (n + 2) - 1 = n + 1
        BY <1>1
      <4>2. h[n + 2] = h[n + 1] \o ss[n + 2]
        BY <3>3, <4>1
      <4>3. f[n + 2] = f[n + 1] \o ss[n + 2]
        BY <1>5, <4>1
      <4>4. h[n + 1] = f[n + 1]
        BY <1>1, <3>5
      <4> QED BY <4>2, <4>3, <4>4
    <3>6. N - 1 \in S
      <4> HIDE DEF S
      <4>1. N - 1 \in Nat
        BY <1>1, <2>2
      <4> QED BY <3>4, <3>5, <4>1, Induction
    <3>7. h[N] = f[N]
      <4> HIDE DEF h
      <4> QED BY <1>1, <2>2, <3>6
    <3>8. FlattenSeq(ss) = h[N]
      BY <2>2 DEF FlattenSeq, N
    <3> QED BY <3>7, <3>8
  <2> QED BY <2>1, <2>2
<1> QED
  BY <1>4, <1>5, <1>7 DEF N

\* Where the entries of two sequences are when they are joined.
LEMMA Joined ==
    ASSUME NEW E, NEW s \in Seq(E), NEW t \in Seq(E), NEW u, u = s \o t
    PROVE  /\ Len(s) \in Nat /\ Len(t) \in Nat
           /\ DOMAIN s = 1..Len(s) /\ DOMAIN t = 1..Len(t)
           /\ DOMAIN u = 1..(Len(s) + Len(t))
           /\ \A k \in 1..Len(s) : u[k] = s[k]
           /\ \A k \in 1..(Len(s) + Len(t)) : k > Len(s) => u[k] = t[k - Len(s)]
<1>1. Len(s) \in Nat /\ Len(t) \in Nat /\ DOMAIN s = 1..Len(s) /\ DOMAIN t = 1..Len(t)
  BY LenProperties
<1>2. DOMAIN u = 1..(Len(s) + Len(t))
  BY <1>1, ConcatProperties, LenProperties
<1>3. \A k \in 1..(Len(s) + Len(t)) : u[k] = IF k =< Len(s) THEN s[k] ELSE t[k - Len(s)]
  BY ConcatProperties
<1>4. ASSUME NEW k \in 1..Len(s) PROVE u[k] = s[k]
  BY <1>1, <1>3
<1>5. ASSUME NEW k \in 1..(Len(s) + Len(t)), k > Len(s) PROVE u[k] = t[k - Len(s)]
  BY <1>1, <1>3, <1>5
<1> QED
  BY <1>1, <1>2, <1>4, <1>5

\* at gives every entry of flat a place of its own in the first n of ss.
Spread(ss, n, flat, at) ==
    /\ at \in [DOMAIN flat -> Nat \X Nat]
    /\ \A k \in DOMAIN flat :
          /\ at[k][1] \in 1..n /\ at[k][2] \in DOMAIN ss[at[k][1]]
          /\ flat[k] = ss[at[k][1]][at[k][2]]
    /\ \A j, k \in DOMAIN flat : at[j] = at[k] => j = k

\* One more sequence at the end keeps the places their own.
LEMMA SpreadGrows ==
    ASSUME NEW E, NEW ss, NEW n \in Nat, NEW s \in Seq(E), ss[n + 1] \in Seq(E),
           NEW at, Spread(ss, n, s, at)
    PROVE  \E new : Spread(ss, n + 1, s \o ss[n + 1], new)
<1>1. PICK t \in Seq(E) : t = ss[n + 1]
  OBVIOUS
<1>2. PICK u : u = s \o ss[n + 1]
  OBVIOUS
<1>3. PICK L, M : L = Len(s) /\ M = Len(t)
  OBVIOUS
<1>4. /\ L \in Nat /\ M \in Nat /\ DOMAIN s = 1..L /\ DOMAIN t = 1..M
      /\ DOMAIN u = 1..(L + M)
      /\ \A k \in 1..L : u[k] = s[k]
      /\ \A k \in 1..(L + M) : k > L => u[k] = t[k - L]
  BY <1>1, <1>2, <1>3, Joined
<1> DEFINE new == [k \in 1..(L + M) |-> IF k =< L THEN at[k] ELSE << n + 1, k - L >>]
<1>5. /\ at \in [1..L -> Nat \X Nat]
      /\ \A k \in 1..L : /\ at[k][1] \in 1..n /\ at[k][2] \in DOMAIN ss[at[k][1]]
                         /\ s[k] = ss[at[k][1]][at[k][2]]
      /\ \A j, k \in 1..L : at[j] = at[k] => j = k
  BY <1>4 DEF Spread
<1>6. \A k \in 1..L : k \in 1..(L + M) /\ new[k] = at[k]
  BY <1>4
<1>7. \A k \in 1..(L + M) : k > L => new[k] = << n + 1, k - L >> /\ k - L \in 1..M
  BY <1>4
<1>8. \A k \in 1..(L + M) : k \in 1..L \/ k > L
  BY <1>4
<1> HIDE DEF new
<1>9. new \in [DOMAIN u -> Nat \X Nat]
  <2>1. ASSUME NEW k \in 1..(L + M) PROVE new[k] \in Nat \X Nat
    <3>1. CASE k \in 1..L
      BY <1>5, <1>6, <3>1
    <3>2. CASE k > L
      <4>1. n + 1 \in Nat /\ k - L \in Nat
        BY <1>7, <3>2
      <4>2. new[k] = << n + 1, k - L >>
        BY <1>7, <3>2
      <4>3. << n + 1, k - L >> \in Nat \X Nat
        BY <4>1
      <4> QED BY <4>2, <4>3, Zenon
    <3> QED BY <1>8, <3>1, <3>2
  <2> QED BY <1>4, <2>1 DEF new
<1>10. ASSUME NEW k \in 1..(L + M)
       PROVE  /\ new[k][1] \in 1..(n + 1) /\ new[k][2] \in DOMAIN ss[new[k][1]]
              /\ u[k] = ss[new[k][1]][new[k][2]]
  <2>1. CASE k \in 1..L
    <3>1. new[k] = at[k] /\ u[k] = s[k]
      BY <1>4, <1>6, <2>1
    <3>2. at[k][1] \in 1..n /\ at[k][2] \in DOMAIN ss[at[k][1]] /\ s[k] = ss[at[k][1]][at[k][2]]
      BY <1>5, <2>1
    <3>3. at[k][1] \in 1..(n + 1)
      BY <3>2
    <3> QED BY <3>1, <3>2, <3>3
  <2>2. CASE k > L
    <3>1. new[k] = << n + 1, k - L >> /\ k - L \in 1..M /\ u[k] = t[k - L]
      BY <1>4, <1>7, <2>2
    <3>2. new[k][1] = n + 1 /\ new[k][2] = k - L
      BY <3>1
    <3> QED BY <1>1, <1>4, <3>1, <3>2
  <2> QED BY <1>8, <2>1, <2>2
<1>11. ASSUME NEW j \in 1..(L + M), NEW k \in 1..(L + M), new[j] = new[k] PROVE j = k
  <2>1. CASE j \in 1..L /\ k \in 1..L
    BY <1>5, <1>6, <1>11, <2>1
  <2>2. CASE j > L /\ k > L
    BY <1>4, <1>7, <1>11, <2>2
  <2>3. CASE j \in 1..L /\ k > L
    <3>1. new[j][1] \in 1..n /\ new[k][1] = n + 1
      BY <1>5, <1>6, <1>7, <2>3
    <3> QED BY <1>11, <3>1
  <2>4. CASE k \in 1..L /\ j > L
    <3>1. new[k][1] \in 1..n /\ new[j][1] = n + 1
      BY <1>5, <1>6, <1>7, <2>4
    <3> QED BY <1>11, <3>1
  <2> QED BY <1>8, <2>1, <2>2, <2>3, <2>4
<1>12. Spread(ss, n + 1, u, new)
  BY <1>4, <1>9, <1>10, <1>11 DEF Spread
<1> QED
  BY <1>2, <1>12

\* Nothing is doubled when sequences are put behind each other.
LEMMA FlattenSpreads ==
    ASSUME NEW E, NEW ss \in Seq(Seq(E))
    PROVE  /\ FlattenSeq(ss) \in Seq(E)
           /\ \E at : Spread(ss, Len(ss), FlattenSeq(ss), at)
<1>1. PICK N \in Nat : N = Len(ss)
  OBVIOUS
<1>2. \A i \in 1..N : ss[i] \in Seq(E)
  BY <1>1
<1>3. PICK f \in [0..N -> Seq(E)] :
          /\ f[0] = << >> /\ \A i \in 1..N : f[i] = f[i - 1] \o ss[i]
          /\ FlattenSeq(ss) = f[N]
  BY <1>1, Concatenations
<1> DEFINE S == {n \in Nat : n =< N => \E at : Spread(ss, n, f[n], at)}
<1>4. 0 \in S
  <2>1. DOMAIN f[0] = {}
    BY <1>3
  <2>2. [k \in {} |-> << 0, 0 >>] \in [DOMAIN f[0] -> Nat \X Nat]
    BY <2>1
  <2>3. Spread(ss, 0, f[0], [k \in {} |-> << 0, 0 >>])
    BY <2>1, <2>2 DEF Spread
  <2> QED BY <2>3
<1>5. ASSUME NEW n \in Nat, n \in S PROVE n + 1 \in S
  <2> SUFFICES ASSUME n + 1 =< N PROVE \E at : Spread(ss, n + 1, f[n + 1], at)
    OBVIOUS
  <2>1. n \in 0..N /\ n + 1 \in 1..N /\ (n + 1) - 1 = n
    OBVIOUS
  <2>2. f[n] \in Seq(E) /\ ss[n + 1] \in Seq(E) /\ f[n + 1] = f[n] \o ss[n + 1]
    BY <1>2, <1>3, <2>1
  <2>3. PICK at : Spread(ss, n, f[n], at)
    BY <1>5, <2>1
  <2> QED BY <2>2, <2>3, SpreadGrows
<1>6. N \in S
  <2> HIDE DEF S
  <2> QED BY <1>4, <1>5, Induction
<1>7. \E at : Spread(ss, N, f[N], at)
  BY <1>6
<1>8. f[N] \in Seq(E)
  OBVIOUS
<1> QED
  BY <1>1, <1>3, <1>7, <1>8

\* ms are some of all, each from a place of its own in I.
Drawn(ms, all, I, from) ==
    /\ from \in [DOMAIN ms -> DOMAIN all]
    /\ \A k \in DOMAIN ms : from[k] \in I /\ ms[k] = all[from[k]]
    /\ \A j, k \in DOMAIN ms : from[j] = from[k] => j = k

\* What is kept of a sequence is nothing else, and nothing twice.
LEMMA KeptComesFrom ==
    ASSUME NEW E, NEW seq \in Seq(E), NEW I
    PROVE  /\ Kept(seq, I) \in Seq(E)
           /\ \E from : Drawn(Kept(seq, I), seq, I, from)
<1> DEFINE ss == [i \in DOMAIN seq |-> IF i \in I THEN << seq[i] >> ELSE << >>]
           K == FlattenSeq(ss)
<1>1. DOMAIN seq = 1..Len(seq) /\ Len(seq) \in Nat /\ \A i \in DOMAIN seq : seq[i] \in E
  OBVIOUS
<1>2. \A i \in DOMAIN seq : ss[i] \in Seq(E)
  BY <1>1
<1>3. ss \in Seq(Seq(E)) /\ DOMAIN ss = DOMAIN seq
  BY <1>1, <1>2
<1>4. Kept(seq, I) = K
  BY DEF Kept
<1>5. \A i \in DOMAIN seq : \A j \in DOMAIN ss[i] : i \in I /\ j = 1 /\ ss[i][j] = seq[i]
  BY <1>1
<1> HIDE DEF ss, K
<1>6. K \in Seq(E)
  BY <1>3, FlattenSpreads DEF K
<1>7. PICK at :
          /\ \A k \in DOMAIN K :
                /\ at[k][1] \in DOMAIN ss /\ at[k][2] \in DOMAIN ss[at[k][1]]
                /\ K[k] = ss[at[k][1]][at[k][2]] /\ at[k] \in Nat \X Nat
          /\ \A j, k \in DOMAIN K : at[j] = at[k] => j = k
  <2>1. PICK at : Spread(ss, Len(ss), K, at)
    BY <1>3, FlattenSpreads DEF K
  <2>2. DOMAIN ss = 1..Len(ss)
    BY <1>3
  <2> QED BY <2>1, <2>2 DEF Spread
<1> DEFINE from == [k \in DOMAIN K |-> at[k][1]]
<1>8. \A k \in DOMAIN K : /\ from[k] \in DOMAIN seq /\ from[k] \in I /\ K[k] = seq[from[k]]
                          /\ at[k] = << from[k], 1 >>
  <2> TAKE k \in DOMAIN K
  <2>1. /\ at[k][1] \in DOMAIN ss /\ at[k][2] \in DOMAIN ss[at[k][1]]
        /\ K[k] = ss[at[k][1]][at[k][2]] /\ at[k] \in Nat \X Nat /\ from[k] = at[k][1]
    BY <1>7
  <2>2. PICK a, b \in Nat : at[k] = << a, b >>
    BY <2>1
  <2>3. a \in DOMAIN seq /\ b \in DOMAIN ss[a] /\ K[k] = ss[a][b] /\ from[k] = a
    BY <1>3, <2>1, <2>2
  <2>4. a \in I /\ b = 1 /\ ss[a][b] = seq[a]
    BY <1>5, <2>3
  <2> QED BY <2>2, <2>3, <2>4
<1>9. from \in [DOMAIN K -> DOMAIN seq]
  BY <1>8
<1>10. \A j, k \in DOMAIN K : from[j] = from[k] => j = k
  <2> HIDE DEF from
  <2> QED BY <1>7, <1>8
<1> HIDE DEF from
<1>11. Drawn(K, seq, I, from)
  BY <1>8, <1>9, <1>10 DEF Drawn
<1> QED
  BY <1>4, <1>6, <1>11

-----------------------------------------------------------------------------
(* The rows layout                                                         *)

\* Where N things start in a line: each a length and a gap after the last.
Starts(at, N, lengths, gap) ==
    /\ at \in [0..N -> Nat]
    /\ \A i \in 1..N : at[i] = at[i - 1] + lengths[i] + gap
    /\ \A i, j \in 0..N : i =< j => at[i] =< at[j]

LEMMA LineGrows ==
    ASSUME NEW N \in Nat, NEW lengths \in Seq(Nat), N = Len(lengths), NEW gap \in Nat,
           NEW at, at = Line(lengths, gap)
    PROVE  Starts(at, N, lengths, gap)
<1> DEFINE step == [i \in 1..N |-> [x \in Nat |-> x + lengths[i] + gap]]
           Fix(g) == g = [i \in 0..N |-> IF i = 0 THEN 0 ELSE g[i - 1] + lengths[i] + gap]
<1>1. \A i \in 1..N : lengths[i] \in Nat
  OBVIOUS
<1>2. step \in [1..N -> [Nat -> Nat]]
  BY <1>1
<1>3. \E f : Iterates(f, N, Nat, 0, step)
  <2> HIDE DEF step
  <2> QED BY <1>2, Recursion
<1>4. PICK f \in [0..N -> Nat] : f[0] = 0 /\ \A i \in 1..N : f[i] = step[i][f[i - 1]]
  BY <1>3 DEF Iterates
<1>5. \A i \in 1..N : f[i] = f[i - 1] + lengths[i] + gap
  <2> TAKE i \in 1..N
  <2>1. f[i - 1] \in Nat
    OBVIOUS
  <2> QED BY <1>4, <2>1
<1>6. Fix(f)
  <2>1. \A i \in 0..N : f[i] = IF i = 0 THEN 0 ELSE f[i - 1] + lengths[i] + gap
    BY <1>4, <1>5
  <2> QED BY <2>1
<1>7. at = CHOOSE g : Fix(g)
  BY DEF Line
<1>8. Fix(at)
  <2> HIDE DEF Fix
  <2> QED BY <1>6, <1>7, Zenon
<1>9. at = [i \in 0..N |-> IF i = 0 THEN 0 ELSE at[i - 1] + lengths[i] + gap]
  BY <1>8, SMTT(30)
<1>10. DOMAIN at = 0..N /\ at[0] = 0 /\ \A i \in 1..N : at[i] = at[i - 1] + lengths[i] + gap
  BY <1>9, SMTT(30)
<1> DEFINE S == {n \in Nat : n =< N => at[n] = f[n]}
<1>11. 0 \in S
  BY <1>4, <1>10
<1>12. ASSUME NEW n \in Nat, n \in S PROVE n + 1 \in S
  <2> SUFFICES ASSUME n + 1 =< N PROVE at[n + 1] = f[n + 1]
    OBVIOUS
  <2>1. n + 1 \in 1..N /\ (n + 1) - 1 = n /\ n =< N
    OBVIOUS
  <2>2. at[n] = f[n]
    BY <1>12, <2>1
  <2>3. at[n + 1] = at[n] + lengths[n + 1] + gap /\ f[n + 1] = f[n] + lengths[n + 1] + gap
    BY <1>5, <1>10, <2>1
  <2> QED BY <2>2, <2>3
<1>13. Nat \subseteq S
  <2> HIDE DEF S
  <2> QED BY <1>11, <1>12, Induction
<1>14. \A i \in 0..N : at[i] = f[i]
  BY <1>13
<1>15. at \in [0..N -> Nat]
  <2>1. \A i \in 0..N : at[i] \in Nat
    BY <1>14
  <2>2. at = [i \in 0..N |-> at[i]]
    BY <1>9
  <2> QED BY <2>1, <2>2
<1>16. ASSUME NEW i \in 0..N, NEW j \in 0..N, i =< j PROVE at[i] =< at[j]
  <2> DEFINE R == {d \in Nat : i + d =< N => at[i] =< at[i + d]}
  <2>1. 0 \in R
    BY <1>15
  <2>2. ASSUME NEW d \in Nat, d \in R PROVE d + 1 \in R
    <3> SUFFICES ASSUME i + d + 1 =< N PROVE at[i] =< at[i + d + 1]
      OBVIOUS
    <3>1. i + d + 1 \in 1..N /\ (i + d + 1) - 1 = i + d /\ i + d \in 0..N
      OBVIOUS
    <3>2. at[i] =< at[i + d] /\ at[i] \in Nat /\ at[i + d] \in Nat
      <4>1. i + d =< N
        BY <3>1
      <4> QED BY <1>15, <2>2, <3>1, <4>1
    <3>3. at[i + d + 1] = at[i + d] + lengths[i + d + 1] + gap
      BY <1>10, <3>1
    <3>4. lengths[i + d + 1] \in Nat
      BY <1>1, <3>1
    <3> QED BY <3>2, <3>3, <3>4
  <2>3. j - i \in R
    <3> HIDE DEF R
    <3>1. j - i \in Nat
      BY <1>16
    <3> QED BY <2>1, <2>2, <3>1, Induction
  <2> QED BY <2>3
<1> QED
  BY <1>10, <1>15, <1>16 DEF Starts

\* Things in a line follow each other, and the last ends where its span does.
LEMMA LineFits ==
    ASSUME NEW lengths \in Seq(Nat), NEW gap \in Nat
    PROVE  /\ Span(lengths, gap) \in Nat
           /\ \A i \in DOMAIN lengths :
                 /\ lengths[i] \in Nat /\ Line(lengths, gap)[i - 1] \in Nat
                 /\ Line(lengths, gap)[i - 1] + lengths[i] =< Span(lengths, gap)
                 /\ \A j \in DOMAIN lengths :
                       i < j => Line(lengths, gap)[i - 1] + lengths[i] =< Line(lengths, gap)[j - 1]
<1>1. PICK N \in Nat : N = Len(lengths) /\ DOMAIN lengths = 1..N
  OBVIOUS
<1>2. PICK at : at = Line(lengths, gap)
  OBVIOUS
<1>3. /\ at \in [0..N -> Nat]
      /\ \A i \in 1..N : at[i] = at[i - 1] + lengths[i] + gap
      /\ \A i, j \in 0..N : i =< j => at[i] =< at[j]
  <2>1. Starts(at, N, lengths, gap)
    BY <1>1, <1>2, LineGrows
  <2> QED BY <2>1 DEF Starts
<1>4. CASE N = 0
  <2>1. lengths = << >>
    BY <1>1, <1>4
  <2> QED BY <1>1, <1>4, <2>1 DEF Span
<1>5. CASE N # 0
  <2>1. Span(lengths, gap) = at[N] - gap
    BY <1>1, <1>2, <1>5 DEF Span
  <2>2. ASSUME NEW i \in 1..N
        PROVE  /\ lengths[i] \in Nat /\ at[i - 1] \in Nat /\ at[i - 1] + lengths[i] =< at[N] - gap
               /\ \A j \in 1..N : i < j => at[i - 1] + lengths[i] =< at[j - 1]
    <3>1. lengths[i] \in Nat /\ i - 1 \in 0..N /\ i \in 0..N /\ N \in 0..N /\ i =< N
      BY <1>1
    <3>2. at[i - 1] \in Nat /\ at[i] \in Nat /\ at[N] \in Nat /\ at[i] =< at[N]
      BY <1>3, <3>1
    <3>3. at[i] = at[i - 1] + lengths[i] + gap
      BY <1>3
    <3>4. ASSUME NEW j \in 1..N, i < j PROVE at[i - 1] + lengths[i] =< at[j - 1]
      <4>1. j - 1 \in 0..N /\ i =< j - 1
        BY <3>4
      <4>2. at[i] =< at[j - 1] /\ at[j - 1] \in Nat
        BY <1>3, <3>1, <4>1
      <4> QED BY <3>1, <3>2, <3>3, <4>2
    <3> QED BY <3>1, <3>2, <3>3, <3>4
  <2>3. Span(lengths, gap) \in Nat
    <3>1. N \in 1..N /\ N - 1 \in 0..N /\ N \in 0..N
      BY <1>5
    <3>2. at[N] = at[N - 1] + lengths[N] + gap /\ at[N - 1] \in Nat /\ lengths[N] \in Nat
      BY <1>3, <2>2, <3>1
    <3> QED BY <2>1, <3>2
  <2> QED BY <1>1, <1>2, <2>1, <2>2, <2>3
<1> QED
  BY <1>4, <1>5

LEMMA WidthsOf ==
    ASSUME NEW M, \A m \in M : m.w \in Nat /\ m.h \in Nat, NEW row \in Seq(M)
    PROVE  /\ Widths(row) \in Seq(Nat) /\ DOMAIN Widths(row) = DOMAIN row
           /\ \A i \in DOMAIN row : Widths(row)[i] = row[i].w
<1>1. PICK n \in Nat : DOMAIN row = 1..n
  BY LenProperties
<1>2. \A i \in 1..n : row[i].w \in Nat
  <2>1. \A i \in 1..n : row[i] \in M
    BY <1>1
  <2> QED BY <2>1
<1>3. [i \in 1..n |-> row[i].w] \in Seq(Nat)
  BY <1>2
<1> QED
  BY <1>1, <1>3 DEF Widths

\* A row fits the wall's width, and as high as it is no monitor in it is higher.
Row(rows, r, s) ==
    /\ Indent(rows, r, s) \in Nat /\ RowSpan(rows[r], s) \in Nat /\ ContentWidth(rows, s) \in Nat
    /\ Indent(rows, r, s) + RowSpan(rows[r], s) =< ContentWidth(rows, s)
    /\ \A i \in DOMAIN rows[r] : rows[r][i].h =< Heights(rows)[r]

LEMMA RowFits ==
    ASSUME NEW M, \A m \in M : m.w \in Nat /\ m.h \in Nat,
           NEW rows \in Seq(Seq(M) \ {<< >>}), NEW s, Gaps(s),
           s.align \in {"left", "center", "right"}, NEW r \in DOMAIN rows
    PROVE  Row(rows, r, s) /\ Heights(rows) \in Seq(Nat)
<1>1. PICK N \in Nat : N = Len(rows) /\ DOMAIN rows = 1..N
  OBVIOUS
<1>2. \A q \in 1..N : rows[q] \in Seq(M) /\ rows[q] # << >>
  BY <1>1
<1>3. ASSUME NEW q \in 1..N
      PROVE  /\ Height(rows[q]) \in Nat
             /\ \A i \in DOMAIN rows[q] : rows[q][i].h =< Height(rows[q])
  <2>1. PICK n \in Nat \ {0} : DOMAIN rows[q] = 1..n
    <3>1. Len(rows[q]) \in Nat /\ DOMAIN rows[q] = 1..Len(rows[q]) /\ Len(rows[q]) # 0
      BY <1>2
    <3> QED BY <3>1
  <2>2. \A i \in 1..n : rows[q][i] \in M
    BY <1>2, <2>1
  <2> DEFINE f == [i \in 1..n |-> rows[q][i].h]
  <2>3. f \in [1..n -> Int] /\ \A i \in 1..n : f[i] \in Nat /\ f[i] = rows[q][i].h
    BY <2>2
  <2>4. {rows[q][i].h : i \in DOMAIN rows[q]} = {f[i] : i \in 1..n}
    BY <2>1, <2>3
  <2> HIDE DEF f
  <2>5. PICK S : S = {f[i] : i \in 1..n}
    OBVIOUS
  <2>6. Max(S) \in S /\ \A i \in 1..n : f[i] =< Max(S)
    BY <2>3, <2>5, Greatest
  <2>7. Height(rows[q]) = Max(S)
    BY <2>4, <2>5 DEF Height
  <2> QED BY <2>1, <2>3, <2>5, <2>6, <2>7
<1>4. Heights(rows) \in Seq(Nat) /\ \A q \in 1..N : Heights(rows)[q] = Height(rows[q])
  BY <1>1, <1>3 DEF Heights
<1>5. \A q \in 1..N : RowSpan(rows[q], s) \in Nat
  <2> TAKE q \in 1..N
  <2>1. Widths(rows[q]) \in Seq(Nat)
    BY <1>2, WidthsOf
  <2>2. Span(Widths(rows[q]), s.gap_x) \in Nat
    BY <2>1, LineFits DEF Gaps
  <2> QED BY <2>2 DEF RowSpan
<1>6. ContentWidth(rows, s) \in Nat /\ RowSpan(rows[r], s) =< ContentWidth(rows, s)
  <2> DEFINE f == [q \in 1..(N + 1) |-> IF q = N + 1 THEN 0 ELSE RowSpan(rows[q], s)]
  <2>1. \A q \in 1..(N + 1) : f[q] \in Nat
    BY <1>5
  <2>2. \A q \in 1..N : q \in 1..(N + 1) /\ f[q] = RowSpan(rows[q], s)
    OBVIOUS
  <2>3. N + 1 \in 1..(N + 1) /\ f[N + 1] = 0
    OBVIOUS
  <2>4. \A q \in 1..(N + 1) : q \in 1..N \/ q = N + 1
    OBVIOUS
  <2>5. f \in [1..(N + 1) -> Int]
    BY <2>1
  <2> HIDE DEF f
  <2>6. {RowSpan(rows[q], s) : q \in DOMAIN rows} \cup {0} = {f[q] : q \in 1..(N + 1)}
    BY <1>1, <2>2, <2>3, <2>4
  <2>7. PICK S : S = {f[q] : q \in 1..(N + 1)}
    OBVIOUS
  <2>8. N + 1 \in Nat \ {0}
    OBVIOUS
  <2>9. Max(S) \in S /\ \A q \in 1..(N + 1) : f[q] =< Max(S)
    BY <2>5, <2>7, <2>8, Greatest
  <2>10. ContentWidth(rows, s) = Max(S)
    BY <2>6, <2>7 DEF ContentWidth
  <2> QED BY <1>1, <2>1, <2>2, <2>7, <2>9, <2>10
<1>7. /\ Indent(rows, r, s) \in Nat
      /\ Indent(rows, r, s) + RowSpan(rows[r], s) =< ContentWidth(rows, s)
  <2>1. RowSpan(rows[r], s) \in Nat
    BY <1>1, <1>5
  <2>2. CASE s.align = "left"
    BY <1>6, <2>1, <2>2 DEF Indent
  <2>3. CASE s.align = "center"
    <3>1. Indent(rows, r, s) = (ContentWidth(rows, s) - RowSpan(rows[r], s)) \div 2
      BY <2>3 DEF Indent
    <3> QED BY <1>6, <2>1, <3>1
  <2>4. CASE s.align = "right"
    <3>1. Indent(rows, r, s) = ContentWidth(rows, s) - RowSpan(rows[r], s)
      BY <2>4 DEF Indent
    <3> QED BY <1>6, <2>1, <3>1
  <2> QED BY <2>2, <2>3, <2>4
<1> QED
  BY <1>1, <1>3, <1>4, <1>5, <1>6, <1>7 DEF Row

\* The place of the i-th monitor of row r.
Place(rows, r, i, s) == PlacedRow(rows, r, s)[i]

\* A place is within the wall and its row, and after those before it in the row.
LEMMA PlaceInRow ==
    ASSUME NEW M, \A m \in M : m.w \in Nat /\ m.h \in Nat,
           NEW rows \in Seq(Seq(M) \ {<< >>}), NEW s, Gaps(s),
           s.align \in {"left", "center", "right"},
           NEW r \in DOMAIN rows, NEW i \in DOMAIN rows[r],
           NEW p, p = Place(rows, r, i, s),
           NEW top, top = Line(Heights(rows), s.gap_y)[r - 1]
    PROVE  /\ p \in [x : Nat, y : Nat, w : Nat, h : Nat]
           /\ p.x + p.w =< ContentWidth(rows, s) + 2 * s.padding
           /\ \A j \in DOMAIN rows[r] : i < j => p.x + p.w =< Place(rows, r, j, s).x
           /\ top \in Nat /\ s.padding + top =< p.y
           /\ p.y + p.h =< s.padding + top + Heights(rows)[r]
<1>1. Row(rows, r, s) /\ Heights(rows) \in Seq(Nat)
  BY RowFits
<1>2. rows[r] \in Seq(M) /\ rows[r][i] \in M
  OBVIOUS
<1>3. DOMAIN Heights(rows) = DOMAIN rows
  BY DEF Heights
<1>4. PICK m \in M : m = rows[r][i]
  BY <1>2
<1>5. PICK w, h \in Nat : w = m.w /\ h = m.h
  <2>1. m.w \in Nat /\ m.h \in Nat
    OBVIOUS
  <2> QED BY <2>1, Zenon
<1>6. PICK line : line = Line(Widths(rows[r]), s.gap_x)
  OBVIOUS
<1>7. /\ \A j \in DOMAIN rows[r] : line[j - 1] \in Nat
      /\ line[i - 1] + w =< RowSpan(rows[r], s)
      /\ \A j \in DOMAIN rows[r] : i < j => line[i - 1] + w =< line[j - 1]
  <2>1. /\ Widths(rows[r]) \in Seq(Nat) /\ DOMAIN Widths(rows[r]) = DOMAIN rows[r]
        /\ Widths(rows[r])[i] = w
    BY <1>2, <1>4, <1>5, WidthsOf
  <2>2. s.gap_x \in Nat
    BY DEF Gaps
  <2> QED BY <1>6, <2>1, <2>2, LineFits DEF RowSpan
<1>8. top \in Nat /\ Heights(rows)[r] \in Nat /\ s.padding \in Nat
  <2>1. s.gap_y \in Nat /\ s.padding \in Nat
    BY DEF Gaps
  <2> QED BY <1>1, <1>3, <2>1, LineFits
<1>9. PICK a, b, c, d, g, l, H \in Nat :
          /\ a = Indent(rows, r, s) /\ b = RowSpan(rows[r], s) /\ c = ContentWidth(rows, s)
          /\ d = (H - h) \div 2 /\ g = s.padding /\ l = line[i - 1] /\ H = Heights(rows)[r]
  <2>1. (Heights(rows)[r] - h) \div 2 \in Nat
    <3>1. PICK k \in Nat : k = Heights(rows)[r]
      BY <1>8, Zenon
    <3>2. h =< k
      BY <1>1, <1>4, <1>5, <3>1, Zenon DEF Row
    <3>3. (k - h) \div 2 \in Nat
      BY <3>2
    <3> QED BY <3>1, <3>3, Zenon
  <2>2. line[i - 1] \in Nat
    BY <1>7
  <2>3. Indent(rows, r, s) \in Nat /\ RowSpan(rows[r], s) \in Nat /\ ContentWidth(rows, s) \in Nat
    BY <1>1, Zenon DEF Row
  <2> USE <1>8, <2>1, <2>2, <2>3
  <2> WITNESS Indent(rows, r, s) \in Nat, RowSpan(rows[r], s) \in Nat, ContentWidth(rows, s) \in Nat,
              (Heights(rows)[r] - h) \div 2 \in Nat, s.padding \in Nat, line[i - 1] \in Nat,
              Heights(rows)[r] \in Nat
  <2> QED OBVIOUS
<1>10. a + b =< c /\ l + w =< b
  <2>1. Indent(rows, r, s) + RowSpan(rows[r], s) =< ContentWidth(rows, s)
    BY <1>1, Zenon DEF Row
  <2>2. a + b =< c
    BY <1>9, <2>1
  <2>3. line[i - 1] + w =< RowSpan(rows[r], s)
    BY <1>7, Zenon
  <2> QED BY <1>9, <2>2, <2>3
<1>11. d + h =< H
  <2>1. h =< Heights(rows)[r]
    BY <1>1, <1>4, <1>5, Zenon DEF Row
  <2>2. h =< H
    BY <1>9, <2>1
  <2>3. (H - h) \div 2 + h =< H
    BY <2>2
  <2> QED BY <1>9, <2>3
<1>12. \A j \in DOMAIN rows[r] : Place(rows, r, j, s).x = g + a + line[j - 1]
  BY <1>6, <1>9 DEF Place, PlacedRow, Rect
<1>13. p = [x |-> g + a + l, y |-> g + top + d, w |-> w, h |-> h]
  BY <1>4, <1>5, <1>6, <1>9 DEF Place, PlacedRow, Rect
<1>14. p.x = g + a + l /\ p.y = g + top + d /\ p.w = w /\ p.h = h
  BY <1>13
<1>15. /\ g + a + l \in Nat /\ g + top + d \in Nat
       /\ g + a + l + w =< c + 2 * g
       /\ g + top =< g + top + d /\ g + top + d + h =< g + top + H
  <2>1. top \in Nat
    BY <1>8
  <2>2. g + a + l \in Nat /\ g + a + l + w =< c + 2 * g
    BY <1>10
  <2>3. PICK t \in Nat : t = top
    BY <2>1
  <2>4. g + t + d \in Nat /\ g + t =< g + t + d /\ g + t + d + h =< g + t + H
    BY <1>11
  <2> QED BY <2>2, <2>3, <2>4, Zenon
<1>16. ASSUME NEW j \in DOMAIN rows[r], i < j PROVE p.x + p.w =< Place(rows, r, j, s).x
  <2>1. PICK n : n = line[j - 1]
    OBVIOUS
  <2>2. n \in Nat /\ line[i - 1] + w =< n
    BY <1>7, <1>16, <2>1, Zenon
  <2>3. l = line[i - 1]
    BY <1>9
  <2>4. l + w =< n
    BY <2>2, <2>3, Zenon
  <2>5. g + a + l + w =< g + a + n
    BY <2>2, <2>4
  <2> QED BY <1>12, <1>14, <2>1, <2>5, Zenon
<1>17. p \in [x : Nat, y : Nat, w : Nat, h : Nat]
  BY <1>13, <1>15
<1>18. p.x + p.w =< c + 2 * g /\ g + top =< p.y /\ p.y + p.h =< g + top + H
  BY <1>14, <1>15, Zenon
<1>19. c = ContentWidth(rows, s) /\ g = s.padding /\ H = Heights(rows)[r]
  BY <1>9
<1>20. p.x + p.w =< ContentWidth(rows, s) + 2 * s.padding
  BY <1>18, <1>19
<1>21. s.padding + top =< p.y /\ p.y + p.h =< s.padding + top + Heights(rows)[r]
  BY <1>18, <1>19
<1> QED
  BY <1>8, <1>16, <1>17, <1>20, <1>21, Zenon

\* The rows layout tiles the wall, for any rows of any monitors.
LEMMA RowsTile ==
    ASSUME NEW M, \A m \in M : m.w \in Nat /\ m.h \in Nat,
           NEW rows \in Seq(Seq(M) \ {<< >>}), NEW s, Gaps(s),
           s.align \in {"left", "center", "right"}
    PROVE  Tiled(RowsLayout(rows, s))
<1> DEFINE E == [x : Nat, y : Nat, w : Nat, h : Nat]
           ps == [r \in DOMAIN rows |-> PlacedRow(rows, r, s)]
           flat == FlattenSeq(ps)
<1>1. PICK N \in Nat : N = Len(rows) /\ DOMAIN rows = 1..N
  OBVIOUS
<1>2. \A r \in 1..N : rows[r] \in Seq(M) /\ rows[r] # << >>
  BY <1>1
<1>3. ASSUME NEW r \in 1..N
      PROVE  /\ DOMAIN ps[r] = DOMAIN rows[r]
             /\ \A i \in DOMAIN rows[r] : ps[r][i] = Place(rows, r, i, s)
             /\ ps[r] \in Seq(E)
  <2>1. ps[r] = PlacedRow(rows, r, s)
    BY <1>1
  <2>2. DOMAIN ps[r] = DOMAIN rows[r] /\ \A i \in DOMAIN rows[r] : ps[r][i] = Place(rows, r, i, s)
    BY <2>1 DEF PlacedRow, Place
  <2>3. PICK n \in Nat : DOMAIN rows[r] = 1..n
    BY <1>2, LenProperties
  <2>4. ASSUME NEW i \in 1..n PROVE Place(rows, r, i, s) \in E
    BY <1>1, <2>3, PlaceInRow
  <2>5. ps[r] = [i \in 1..n |-> ps[r][i]]
    BY <2>1, <2>3 DEF PlacedRow
  <2> HIDE DEF ps, E
  <2>6. \A i \in 1..n : ps[r][i] \in E
    BY <2>2, <2>3, <2>4
  <2>7. [i \in 1..n |-> ps[r][i]] \in Seq(E)
    BY <2>6
  <2> QED BY <2>2, <2>5, <2>7
<1>4. ps \in Seq(Seq(E)) /\ DOMAIN ps = 1..N /\ Len(ps) = N
  <2>1. ps = [r \in 1..N |-> ps[r]]
    BY <1>1
  <2> HIDE DEF ps, E
  <2> QED BY <1>3, <2>1
<1> HIDE DEF ps, E
<1>5. PICK at : Spread(ps, N, flat, at)
  BY <1>4, FlattenSpreads
<1>6. \A k \in DOMAIN flat :
          \E r \in 1..N, i \in Nat :
             i \in DOMAIN rows[r] /\ at[k] = << r, i >> /\ flat[k] = Place(rows, r, i, s)
  <2> TAKE k \in DOMAIN flat
  <2>1. at[k] \in Nat \X Nat /\ at[k][1] \in 1..N /\ at[k][2] \in DOMAIN ps[at[k][1]]
        /\ flat[k] = ps[at[k][1]][at[k][2]]
    BY <1>5 DEF Spread
  <2>2. PICK r, i \in Nat : at[k] = << r, i >>
    BY <2>1
  <2> QED BY <1>3, <2>1, <2>2
<1>7. PICK line : line = Line(Heights(rows), s.gap_y)
  OBVIOUS
<1>8. PICK W, H : W = ContentWidth(rows, s) + 2 * s.padding /\ H = Span(Heights(rows), s.gap_y) + 2 * s.padding
  OBVIOUS
<1>9. \A r \in 1..N :
          /\ Heights(rows)[r] \in Nat /\ line[r - 1] \in Nat
          /\ line[r - 1] + Heights(rows)[r] =< Span(Heights(rows), s.gap_y)
          /\ \A q \in 1..N : r < q => line[r - 1] + Heights(rows)[r] =< line[q - 1]
  <2> SUFFICES ASSUME NEW r \in 1..N
               PROVE  /\ Heights(rows)[r] \in Nat /\ line[r - 1] \in Nat
                      /\ line[r - 1] + Heights(rows)[r] =< Span(Heights(rows), s.gap_y)
                      /\ \A q \in 1..N : r < q => line[r - 1] + Heights(rows)[r] =< line[q - 1]
    OBVIOUS
  <2>1. Heights(rows) \in Seq(Nat)
    BY <1>1, RowFits
  <2>2. DOMAIN Heights(rows) = 1..N
    BY <1>1 DEF Heights
  <2>3. s.gap_y \in Nat
    BY DEF Gaps
  <2> QED BY <1>7, <2>1, <2>2, <2>3, LineFits
<1>10. N # 0 => s.padding \in Nat /\ Span(Heights(rows), s.gap_y) \in Nat
  <2>1. CASE N # 0
    <3>1. 1 \in 1..N
      BY <2>1
    <3>2. Heights(rows) \in Seq(Nat)
      BY <1>1, <3>1, RowFits
    <3>3. s.gap_y \in Nat /\ s.padding \in Nat
      BY DEF Gaps
    <3> QED BY <3>2, <3>3, LineFits, Zenon
  <2> QED BY <2>1
<1>11. ASSUME NEW r \in 1..N, NEW i \in DOMAIN rows[r], NEW p, p = Place(rows, r, i, s)
       PROVE  /\ p \in E /\ p.x + p.w =< W /\ p.y + p.h =< H
              /\ \A j \in DOMAIN rows[r] : i < j => p.x + p.w =< Place(rows, r, j, s).x
              /\ s.padding + line[r - 1] =< p.y
              /\ p.y + p.h =< s.padding + line[r - 1] + Heights(rows)[r]
  <2>1. /\ p \in E /\ p.x + p.w =< ContentWidth(rows, s) + 2 * s.padding
        /\ \A j \in DOMAIN rows[r] : i < j => p.x + p.w =< Place(rows, r, j, s).x
        /\ s.padding + line[r - 1] =< p.y
        /\ p.y + p.h =< s.padding + line[r - 1] + Heights(rows)[r]
    BY <1>1, <1>7, <1>11, PlaceInRow DEF E
  <2>2. p.y \in Nat /\ p.h \in Nat
    BY <2>1 DEF E
  <2>3. /\ s.padding \in Nat /\ Span(Heights(rows), s.gap_y) \in Nat
        /\ Heights(rows)[r] \in Nat /\ line[r - 1] \in Nat
        /\ line[r - 1] + Heights(rows)[r] =< Span(Heights(rows), s.gap_y)
    BY <1>9, <1>10
  <2>4. PICK g, l, h, n : /\ g = s.padding /\ l = line[r - 1] /\ h = Heights(rows)[r]
                           /\ n = Span(Heights(rows), s.gap_y)
    OBVIOUS
  <2>5. g \in Nat /\ l \in Nat /\ h \in Nat /\ n \in Nat /\ l + h =< n /\ H = n + 2 * g
    BY <1>8, <2>3, <2>4
  <2>6. p.y + p.h =< g + l + h
    BY <2>1, <2>4
  <2>7. p.y + p.h =< H
    BY <2>2, <2>5, <2>6
  <2> QED BY <1>8, <2>1, <2>7
<1>12. ASSUME NEW r \in 1..N, NEW i \in DOMAIN rows[r], NEW q \in 1..N, NEW j \in DOMAIN rows[q],
              r < q \/ (r = q /\ i < j)
       PROVE  /\ Apart(Place(rows, r, i, s), Place(rows, q, j, s))
              /\ Apart(Place(rows, q, j, s), Place(rows, r, i, s))
  <2>1. PICK a, b : a = Place(rows, r, i, s) /\ b = Place(rows, q, j, s)
    OBVIOUS
  <2>2. a \in E /\ b \in E /\ a.y + a.h =< s.padding + line[r - 1] + Heights(rows)[r]
        /\ s.padding + line[q - 1] =< b.y
    BY <1>11, <2>1
  <2>3. a.y \in Nat /\ a.h \in Nat /\ b.y \in Nat
    BY <2>2 DEF E
  <2>4. CASE r < q
    <3>1. /\ line[r - 1] + Heights(rows)[r] =< line[q - 1] /\ s.padding \in Nat
          /\ line[r - 1] \in Nat /\ Heights(rows)[r] \in Nat /\ line[q - 1] \in Nat
      BY <1>9, <1>10, <2>4
    <3>2. PICK g, l, h, n : g = s.padding /\ l = line[r - 1] /\ h = Heights(rows)[r] /\ n = line[q - 1]
      OBVIOUS
    <3>3. g \in Nat /\ l \in Nat /\ h \in Nat /\ n \in Nat /\ l + h =< n
      BY <3>1, <3>2
    <3>4. a.y + a.h =< g + l + h /\ g + n =< b.y
      BY <2>2, <3>2
    <3>5. a.y + a.h =< b.y
      BY <2>3, <3>3, <3>4
    <3> QED BY <2>1, <3>5 DEF Apart
  <2>5. CASE r = q /\ i < j
    <3>1. a.x + a.w =< b.x
      BY <1>11, <2>1, <2>5
    <3> QED BY <2>1, <3>1 DEF Apart
  <2> QED BY <1>12, <2>4, <2>5
<1>13. ASSUME NEW k \in DOMAIN flat, NEW l \in DOMAIN flat \ {k} PROVE Apart(flat[k], flat[l])
  <2>1. PICK r \in 1..N, i \in Nat :
            i \in DOMAIN rows[r] /\ at[k] = << r, i >> /\ flat[k] = Place(rows, r, i, s)
    BY <1>6
  <2>2. PICK q \in 1..N, j \in Nat :
            j \in DOMAIN rows[q] /\ at[l] = << q, j >> /\ flat[l] = Place(rows, q, j, s)
    BY <1>6
  <2>3. at[k] # at[l]
    BY <1>5 DEF Spread
  <2>4. r < q \/ (r = q /\ i < j) \/ q < r \/ (q = r /\ j < i)
    BY <2>1, <2>2, <2>3
  <2>5. /\ Apart(Place(rows, r, i, s), Place(rows, q, j, s))
    <3>1. CASE r < q \/ (r = q /\ i < j)
      BY <1>12, <2>1, <2>2, <3>1
    <3>2. CASE q < r \/ (q = r /\ j < i)
      BY <1>12, <2>1, <2>2, <3>2
    <3> QED BY <2>4, <3>1, <3>2
  <2> HIDE DEF flat
  <2> QED BY <2>1, <2>2, <2>5
<1>14. \A k \in DOMAIN flat : /\ flat[k].x >= 0 /\ flat[k].x + flat[k].w <= W
                              /\ flat[k].y >= 0 /\ flat[k].y + flat[k].h <= H
  <2> TAKE k \in DOMAIN flat
  <2>1. PICK p : p = flat[k]
    OBVIOUS
  <2>2. p \in E /\ p.x + p.w =< W /\ p.y + p.h =< H
    BY <1>6, <1>11, <2>1
  <2>3. p.x \in Nat /\ p.y \in Nat
    BY <2>2 DEF E
  <2> QED BY <2>1, <2>2, <2>3
<1>15. /\ RowsLayout(rows, s).places = flat /\ RowsLayout(rows, s).blocked = {}
       /\ RowsLayout(rows, s).size = << W, H >>
  BY <1>8 DEF RowsLayout, ps
<1> HIDE DEF flat
<1> QED
  BY <1>13, <1>14, <1>15 DEF Tiled

-----------------------------------------------------------------------------
(* The Windows layout.  Coordinates are bounded: a set of them has a least. *)

LEMMA FarIsNumber == Far \in Nat
BY SMT DEF Far

\* The leftmost start, and the topmost, is one of the starts.
LEMMA MinIsThere ==
    ASSUME NEW S \in SUBSET Long, S # {}
    PROVE  Min(S) \in S /\ Min(S) \in Int /\ \A x \in S : Min(S) =< x
<1>1. PICK far \in Nat : far = Far + 1
  <2>1. Far + 1 \in Nat
    BY FarIsNumber
  <2> QED BY <2>1
<1> DEFINE T == {x + far : x \in S}
<1>2. T \in SUBSET Nat /\ T # {}
  <2>1. ASSUME NEW x \in S PROVE x + far \in Nat
    <3>1. x \in Int /\ -Far - 1 =< x
      BY FarIsNumber DEF Long
    <3> QED BY <1>1, <3>1, FarIsNumber
  <2>2. T \subseteq Nat
    BY <2>1
  <2>3. PICK x \in S : x + far \in T
    OBVIOUS
  <2> QED BY <2>2, <2>3
<1>3. PICK t \in T : \A u \in T : t =< u
  <2> HIDE DEF T
  <2> QED BY <1>2, Least
<1>4. PICK x \in S : t = x + far
  BY <1>3
<1>5. S \subseteq Int
  BY DEF Long
<1>6. \A y \in S : x =< y
  <2> TAKE y \in S
  <2>1. x + far =< y + far
    BY <1>3, <1>4
  <2> QED BY <1>5, <2>1
<1>7. Min(S) \in S /\ \A y \in S : Min(S) =< y
  BY <1>6, Zenon DEF Min
<1> QED
  BY <1>5, <1>7

\* What starts further on has as many gaps before it, or more.
LEMMA OffsetGrows ==
    ASSUME NEW S \in SUBSET Long,
           NEW p \in Int, NEW q \in Int, p =< q, NEW gap \in Nat
    PROVE  /\ Offset(S, p, gap) \in Nat /\ Offset(S, q, gap) \in Nat
           /\ Offset(S, p, gap) =< Offset(S, q, gap)
<1> DEFINE P == {r \in S : r < p}
           Q == {r \in S : r < q}
<1>1. IsFiniteSet(S)
  <2>1. -Far - 1 \in Int /\ Far \in Int  BY FarIsNumber
  <2>2. IsFiniteSet(Long)  BY <2>1, FS_Interval DEF Long
  <2> QED  BY <2>2, FS_Subset
<1>2. P \in SUBSET Q
  <2>1. S \subseteq Int  BY DEF Long
  <2>2. ASSUME NEW r \in S, r < p PROVE r < q  BY <2>1, <2>2
  <2> QED  BY <2>2
<1>3. IsFiniteSet(Q)
  <2>1. Q \in SUBSET S  OBVIOUS
  <2> QED  BY <1>1, <2>1, FS_Subset
<1>4. IsFiniteSet(P) /\ Cardinality(P) =< Cardinality(Q)  BY <1>2, <1>3, FS_Subset
<1>5. Cardinality(P) \in Nat /\ Cardinality(Q) \in Nat  BY <1>3, <1>4, FS_CardinalityType
<1>6. \A a, b \in Nat : a =< b => a * gap \in Nat /\ b * gap \in Nat /\ a * gap =< b * gap
  OBVIOUS
<1> QED  BY <1>4, <1>5, <1>6 DEF Offset

-----------------------------------------------------------------------------

\* What does not overlap on the desktop does not on the wall.
LEMMA PutKeepsApart ==
    ASSUME NEW ms, DOMAIN ms # {}, \A i \in DOMAIN ms : OnDesk(ms[i]),
           NEW s, Gaps(s), NEW a, OnDesk(a), NEW b, OnDesk(b), Apart(a, b)
    PROVE  Apart(Put(a, ms, s), Put(b, ms, s))
<1> DEFINE L == Left(ms)
           T == Top(ms)
<1>1. L \in SUBSET Long /\ L # {} /\ T \in SUBSET Long /\ T # {}
  BY DEF Left, Top, OnDesk
<1>2. Min(L) \in Int /\ Min(T) \in Int  BY <1>1, MinIsThere
<1>3. /\ a.x \in Int /\ a.y \in Int /\ a.w \in Nat /\ a.h \in Nat
      /\ b.x \in Int /\ b.y \in Int /\ b.w \in Nat /\ b.h \in Nat
      /\ s.gap_x \in Nat /\ s.gap_y \in Nat /\ s.padding \in Nat
  BY DEF OnDesk, Gaps, Long
<1> HIDE DEF L, T
<1>4. \A p, q \in Int : p =< q => /\ Offset(L, p, s.gap_x) =< Offset(L, q, s.gap_x)
                                  /\ Offset(T, p, s.gap_y) =< Offset(T, q, s.gap_y)
  BY <1>1, <1>3, OffsetGrows
<1>5. \A p \in Int : Offset(L, p, s.gap_x) \in Nat /\ Offset(T, p, s.gap_y) \in Nat
  BY <1>1, <1>3, OffsetGrows
<1>6. ASSUME NEW c \in {a, b}
      PROVE  /\ Put(c, ms, s).x = s.padding + c.x - Min(L) + Offset(L, c.x, s.gap_x)
             /\ Put(c, ms, s).y = s.padding + c.y - Min(T) + Offset(T, c.y, s.gap_y)
             /\ Put(c, ms, s).w = c.w /\ Put(c, ms, s).h = c.h
  BY DEF Put, Rect, L, T
<1>7. CASE a.x + a.w =< b.x
  <2>1. Offset(L, a.x, s.gap_x) =< Offset(L, b.x, s.gap_x)  BY <1>3, <1>4, <1>7
  <2> QED  BY <1>2, <1>3, <1>5, <1>6, <1>7, <2>1 DEF Apart
<1>8. CASE b.x + b.w =< a.x
  <2>1. Offset(L, b.x, s.gap_x) =< Offset(L, a.x, s.gap_x)  BY <1>3, <1>4, <1>8
  <2> QED  BY <1>2, <1>3, <1>5, <1>6, <1>8, <2>1 DEF Apart
<1>9. CASE a.y + a.h =< b.y
  <2>1. Offset(T, a.y, s.gap_y) =< Offset(T, b.y, s.gap_y)  BY <1>3, <1>4, <1>9
  <2> QED  BY <1>2, <1>3, <1>5, <1>6, <1>9, <2>1 DEF Apart
<1>10. CASE b.y + b.h =< a.y
  <2>1. Offset(T, b.y, s.gap_y) =< Offset(T, a.y, s.gap_y)  BY <1>3, <1>4, <1>10
  <2> QED  BY <1>2, <1>3, <1>5, <1>6, <1>10, <2>1 DEF Apart
<1> QED  BY <1>7, <1>8, <1>9, <1>10 DEF Apart

\* Captures never overlap each other or a keep-out mark in the Windows layout,
\* whatever the gaps and wherever the monitors are.
THEOREM WindowsLayoutTiles ==
    ASSUME NEW M, \A m \in M : OnDesk(m),
           NEW ms \in Seq(M), NEW excluded \in SUBSET M, NEW s, Gaps(s),
           \A i, j \in DOMAIN ms : i # j => Apart(ms[i], ms[j]),
           \A i \in DOMAIN ms, e \in excluded : Apart(ms[i], e)
    PROVE  LET wall == WindowsLayout(ms, excluded, s) IN
           \A i \in DOMAIN wall.places :
               /\ \A j \in DOMAIN wall.places \ {i} : Apart(wall.places[i], wall.places[j])
               /\ \A b \in wall.blocked : Apart(wall.places[i], b)
<1>1. CASE ms = << >>
  <2>1. WindowsLayout(ms, excluded, s).places = << >>  BY <1>1 DEF WindowsLayout
  <2> QED  BY <2>1
<1>2. CASE ms # << >>
  <2> DEFINE places == [i \in DOMAIN ms |-> Put(ms[i], ms, s)]
             marks == {Put(e, ms, s) : e \in {f \in excluded : Sandwiched(f, ms)}}
  <2>0. DOMAIN ms # {} /\ \A i \in DOMAIN ms : OnDesk(ms[i])
    <3>1. Len(ms) \in Nat /\ DOMAIN ms = 1..Len(ms) /\ Len(ms) # 0  BY <1>2
    <3> QED  BY <3>1
  <2>1. /\ WindowsLayout(ms, excluded, s).places = places
        /\ WindowsLayout(ms, excluded, s).blocked = marks
    BY <1>2 DEF WindowsLayout
  <2>2. ASSUME NEW i \in DOMAIN ms, NEW j \in DOMAIN ms, i # j
        PROVE  Apart(places[i], places[j])
    <3>1. Apart(Put(ms[i], ms, s), Put(ms[j], ms, s))  BY <2>0, <2>2, PutKeepsApart
    <3> QED  BY <3>1
  <2>3. ASSUME NEW i \in DOMAIN ms, NEW b \in marks PROVE Apart(places[i], b)
    <3>1. PICK e \in excluded : b = Put(e, ms, s)  BY <2>3
    <3>2. Apart(Put(ms[i], ms, s), Put(e, ms, s))  BY <2>0, PutKeepsApart
    <3> QED  BY <3>1, <3>2
  <2> QED  BY <2>1, <2>2, <2>3
<1> QED  BY <1>1, <1>2

\* What starts at the leftmost start or after it, and its gaps are none or more.
LEMMA PutInside ==
    ASSUME NEW ms, DOMAIN ms # {}, \A i \in DOMAIN ms : OnDesk(ms[i]),
           NEW s, Gaps(s), NEW i \in DOMAIN ms, NEW p, p = Put(ms[i], ms, s)
    PROVE  p.x \in Nat /\ p.y \in Nat /\ p.w \in Nat /\ p.h \in Nat
<1> DEFINE L == Left(ms)
           T == Top(ms)
<1>1. L \in SUBSET Long /\ L # {} /\ T \in SUBSET Long /\ T # {}
  BY DEF Left, Top, OnDesk
<1>2. Min(L) \in Int /\ Min(T) \in Int
  BY <1>1, MinIsThere
<1>3. PICK m : m = ms[i]
  OBVIOUS
<1>4. m.x \in Int /\ m.y \in Int /\ m.w \in Nat /\ m.h \in Nat /\ OnDesk(m)
  BY <1>3 DEF OnDesk, Long
<1>5. PICK g, h, q \in Nat : g = s.gap_x /\ h = s.gap_y /\ q = s.padding
  BY DEF Gaps
<1>6. m.x \in L /\ m.y \in T
  BY <1>3 DEF Left, Top
<1> HIDE DEF L, T
<1>7. Min(L) =< m.x /\ Min(T) =< m.y
  BY <1>1, <1>6, MinIsThere
<1>8. Offset(L, m.x, g) \in Nat /\ Offset(T, m.y, h) \in Nat
  BY <1>1, <1>4, <1>5, OffsetGrows
<1>9. /\ p.x = q + m.x - Min(L) + Offset(L, m.x, g)
      /\ p.y = q + m.y - Min(T) + Offset(T, m.y, h)
      /\ p.w = m.w /\ p.h = m.h
  BY <1>3, <1>5 DEF Put, Rect, L, T
<1> QED
  BY <1>2, <1>4, <1>7, <1>8, <1>9

\* The Windows layout reaches as far as the captures in it.
LEMMA WindowsInside ==
    ASSUME NEW M, \A m \in M : OnDesk(m),
           NEW ms \in Seq(M), ms # << >>, NEW excluded, NEW s, Gaps(s),
           NEW wall, wall = WindowsLayout(ms, excluded, s),
           NEW i \in DOMAIN wall.places, NEW p, p = wall.places[i]
    PROVE  /\ p.x >= 0 /\ p.x + p.w <= wall.size[1]
           /\ p.y >= 0 /\ p.y + p.h <= wall.size[2]
<1>1. PICK n \in Nat \ {0} : DOMAIN ms = 1..n
  <2>1. Len(ms) \in Nat /\ DOMAIN ms = 1..Len(ms) /\ Len(ms) # 0
    OBVIOUS
  <2> QED BY <2>1
<1>2. DOMAIN ms # {} /\ \A k \in DOMAIN ms : OnDesk(ms[k])
  <2>1. 1 \in DOMAIN ms
    BY <1>1
  <2> QED BY <2>1
<1>3. PICK ps : ps = [k \in DOMAIN ms |-> Put(ms[k], ms, s)]
  OBVIOUS
<1>4. wall.places = ps /\ wall.size = << Right(ps) + s.padding, Bottom(ps) + s.padding >>
  BY <1>3 DEF WindowsLayout
<1>5. DOMAIN ps = 1..n /\ i \in 1..n /\ p = ps[i]
  BY <1>1, <1>3, <1>4
<1>6. \A k \in 1..n : ps[k].x \in Nat /\ ps[k].y \in Nat /\ ps[k].w \in Nat /\ ps[k].h \in Nat
  <2> TAKE k \in 1..n
  <2>1. ps[k] = Put(ms[k], ms, s) /\ k \in DOMAIN ms
    BY <1>1, <1>3
  <2> QED BY <1>2, <2>1, PutInside
<1>7. PICK f, g : /\ f = [k \in 1..n |-> ps[k].x + ps[k].w]
                  /\ g = [k \in 1..n |-> ps[k].y + ps[k].h]
  OBVIOUS
<1>8. f \in [1..n -> Int] /\ g \in [1..n -> Int]
  BY <1>6, <1>7
<1>9. PICK S, T : S = {f[k] : k \in 1..n} /\ T = {g[k] : k \in 1..n}
  OBVIOUS
<1>10. Right(ps) = Max(S) /\ Bottom(ps) = Max(T)
  <2>1. \A k \in 1..n : f[k] = ps[k].x + ps[k].w /\ g[k] = ps[k].y + ps[k].h
    BY <1>7
  <2>2. S = {ps[k].x + ps[k].w : k \in DOMAIN ps}
    BY <1>5, <1>9, <2>1
  <2>3. T = {ps[k].y + ps[k].h : k \in DOMAIN ps}
    BY <1>5, <1>9, <2>1
  <2> QED BY <2>2, <2>3 DEF Right, Bottom
<1>11. /\ Max(S) \in S /\ Max(T) \in T
       /\ f[i] =< Max(S) /\ g[i] =< Max(T)
  BY <1>5, <1>8, <1>9, Greatest
<1>12. Max(S) \in Int /\ Max(T) \in Int
  BY <1>8, <1>9, <1>11
<1>13. f[i] = p.x + p.w /\ g[i] = p.y + p.h /\ p.x \in Nat /\ p.y \in Nat /\ p.w \in Nat /\ p.h \in Nat
  BY <1>5, <1>6, <1>7
<1>14. PICK q \in Nat : q = s.padding
  BY DEF Gaps
<1>15. wall.size[1] = Max(S) + q /\ wall.size[2] = Max(T) + q
  BY <1>4, <1>10, <1>14
<1> QED
  BY <1>11, <1>12, <1>13, <1>15, SMTT(30)

-----------------------------------------------------------------------------
(* What is laid out                                                        *)

\* What is selected are some of the monitors there are, each once.
LEMMA SelectedSome ==
    ASSUME NEW M, NEW all \in Seq(M), NEW s, NEW n
    PROVE  Selected(all, s, n) \in Seq(M) /\ \E from : Drawn(Selected(all, s, n), all, Nat, from)
<1>1. PICK ms : ms = Filtered(all, s)
  OBVIOUS
<1>2. PICK I : ms = Kept(all, I)
  BY <1>1 DEF Filtered
<1>3. ms \in Seq(M)
  BY <1>2, KeptComesFrom
<1>4. PICK from : Drawn(ms, all, I, from)
  BY <1>2, KeptComesFrom
<1>5. Drawn(ms, all, Nat, from)
  <2>1. DOMAIN all \subseteq Nat
    BY LenProperties
  <2> QED BY <1>4, <2>1 DEF Drawn
<1> DEFINE found == {i \in DOMAIN ms : n > 0 /\ ms[i].number = n}
<1>6. CASE found = {}
  <2>1. Selected(all, s, n) = ms
    BY <1>1, <1>6 DEF Selected, Focused
  <2> QED BY <1>3, <1>5, <2>1
<1>7. CASE found # {}
  <2>1. DOMAIN ms \subseteq Nat
    BY <1>3
  <2>2. Min(found) \in found
    <3>1. found \in SUBSET Nat
      BY <2>1
    <3> HIDE DEF found
    <3> QED BY <1>7, <3>1, FirstIsThere
  <2>3. PICK i \in DOMAIN ms : i = Min(found)
    BY <2>2
  <2>4. Selected(all, s, n) = << ms[i] >>
    BY <1>1, <1>7, <2>3 DEF Selected, Focused
  <2>5. ms[i] \in M /\ from[i] \in DOMAIN all /\ ms[i] = all[from[i]]
    BY <1>3, <1>4 DEF Drawn
  <2>6. PICK m \in M : m = ms[i]
    BY <2>5
  <2>7. DOMAIN << m >> = {1} /\ << m >>[1] = m /\ << m >> \in Seq(M)
    <3>1. << m >> \in Seq(M) /\ Len(<< m >>) = 1 /\ << m >>[1] = m
      OBVIOUS
    <3>2. DOMAIN << m >> = 1..1
      BY <3>1, LenProperties
    <3> QED BY <3>1, <3>2
  <2>8. from[i] \in Nat
    BY <1>5, <2>5 DEF Drawn
  <2>9. Drawn(<< m >>, all, Nat, [k \in {1} |-> from[i]])
    BY <2>5, <2>6, <2>7, <2>8 DEF Drawn
  <2> QED BY <2>4, <2>6, <2>7, <2>9
<1> QED
  BY <1>6, <1>7

-----------------------------------------------------------------------------

\* r full rows of c are no more than all there are.
LEMMA Products ==
    ASSUME NEW a \in Nat, NEW c \in Nat \ {0}, NEW r \in 1..(a \div c)
    PROVE  r * c \in Nat /\ (r - 1) * c \in Nat /\ r * c =< a /\ (r - 1) * c = r * c - c
<1>1. c * (a \div c) =< a /\ a \div c \in Nat
  OBVIOUS
<1>2. PICK q \in Nat : q = a \div c
  BY <1>1
<1>3. c * q =< a
  BY <1>1, <1>2
<1>4. \A x, y \in Nat : x * c \in Nat /\ (x =< y => x * c =< y * c)
  OBVIOUS
<1>5. r \in Nat /\ r - 1 \in Nat /\ r =< q
  BY <1>2
<1>6. r * c =< q * c
  BY <1>4, <1>5
<1>7. q * c = c * q
  OBVIOUS
<1>8. (r - 1) * c = r * c - c
  BY <1>5
<1> QED
  BY <1>3, <1>4, <1>5, <1>6, <1>7, <1>8

\* Rows filled one after the other have a monitor each, at least.
LEMMA AutoRowsFilled ==
    ASSUME NEW M, NEW ms \in Seq(M), NEW columns \in Nat \ {0}
    PROVE  AutoRows(ms, columns) \in Seq(Seq(M) \ {<< >>})
<1>1. PICK n \in Nat : n = Len(ms)
  OBVIOUS
<1>2. PICK q \in Nat : q = (n + columns - 1) \div columns
  OBVIOUS
<1>3. ASSUME NEW r \in 1..q
      PROVE  SubSeq(ms, (r - 1) * columns + 1, Min({r * columns, n})) \in Seq(M) \ {<< >>}
  <2>1. /\ r * columns \in Nat /\ (r - 1) * columns \in Nat /\ r * columns =< n + columns - 1
        /\ (r - 1) * columns = r * columns - columns
    <3>1. n + columns - 1 \in Nat
      OBVIOUS
    <3> QED BY <1>2, <3>1, Products
  <2>2. Min({r * columns, n}) \in {r * columns, n} /\ Min({r * columns, n}) =< n
    BY <2>1, Lesser
  <2>3. PICK a \in Nat \ {0} : a = (r - 1) * columns + 1
    BY <2>1
  <2>4. PICK b \in Nat : b = Min({r * columns, n}) /\ b \in {r * columns, n} /\ b =< n
    BY <2>1, <2>2
  <2>5. a =< b
    BY <2>1, <2>3, <2>4
  <2>6. \A i \in a..b : ms[i] \in M
    BY <1>1, <2>3, <2>4
  <2>7. SubSeq(ms, a, b) \in Seq(M) /\ Len(SubSeq(ms, a, b)) = b - a + 1
    BY <2>5, <2>6, SubSeqProperties
  <2>8. SubSeq(ms, a, b) # << >>
    <3>1. Len(SubSeq(ms, a, b)) # 0
      BY <2>5, <2>7
    <3>2. Len(<< >>) = 0
      OBVIOUS
    <3> QED BY <3>1, <3>2
  <2> QED BY <2>3, <2>4, <2>7, <2>8
<1>4. PICK f : f = [r \in 1..q |-> SubSeq(ms, (r - 1) * columns + 1, Min({r * columns, n}))]
  OBVIOUS
<1>5. PICK S : S = Seq(M) \ {<< >>}
  OBVIOUS
<1>6. f = [r \in 1..q |-> f[r]] /\ \A r \in 1..q : f[r] \in S
  BY <1>3, <1>4, <1>5
<1>7. f \in Seq(S)
  BY <1>6, IsSeq
<1> QED
  BY <1>1, <1>2, <1>4, <1>5, <1>7 DEF AutoRows

\* What a number in the text finds is one of the monitors.
LEMMA FindsOne ==
    ASSUME NEW M, NEW ms \in Seq(M), NEW n, NEW zero, Find(ms, n, zero) # {}
    PROVE  ms[Min(Find(ms, n, zero))] \in M
<1>1. DOMAIN ms \subseteq Nat /\ \A i \in DOMAIN ms : ms[i] \in M
  OBVIOUS
<1> DEFINE named == IF zero THEN {} ELSE {i \in DOMAIN ms : ms[i].number = n}
<1>2. named # {} => Min(named) \in named
  <2>1. named \in SUBSET Nat
    BY <1>1
  <2> HIDE DEF named
  <2> QED BY <2>1, FirstIsThere
<1>3. named \in SUBSET DOMAIN ms
  OBVIOUS
<1>4. Find(ms, n, zero) \in SUBSET DOMAIN ms
  BY <1>2, <1>3 DEF Find
<1>5. Min(Find(ms, n, zero)) \in DOMAIN ms
  BY <1>1, <1>4, FirstIsThere
<1> QED
  BY <1>1, <1>5

\* Rows from text hold only monitors of the wall, and none is empty.
LEMMA TextRowsFilled ==
    ASSUME NEW M, NEW ms \in Seq(M), NEW rows \in Seq(Seq(Nat))
    PROVE  TextRows(ms, rows) \in Seq(Seq(M) \ {<< >>})
<1> DEFINE zero == \E r \in DOMAIN rows : \E i \in DOMAIN rows[r] : rows[r][i] = 0
           found(r, i) == Find(ms, rows[r][i], zero)
           new(r, i) ==
               /\ found(r, i) # {}
               /\ \A q \in 1..r : \A j \in DOMAIN rows[q] :
                     q < r \/ j < i => found(q, j) # found(r, i)
           cells(r) == [i \in DOMAIN rows[r] |->
                           IF new(r, i) THEN << ms[Min(found(r, i))] >> ELSE << >>]
           row(r) == FlattenSeq(cells(r))
           all == [r \in DOMAIN rows |-> row(r)]
           I == {r \in DOMAIN rows : all[r] # << >>}
<1>1. TextRows(ms, rows) = Kept(all, I)
  BY DEF TextRows
<1>2. ASSUME NEW r, NEW i PROVE new(r, i) => ms[Min(found(r, i))] \in M
  BY FindsOne
<1>3. PICK N \in Nat : DOMAIN rows = 1..N /\ \A r \in 1..N : rows[r] \in Seq(Nat)
  BY LenProperties
<1> HIDE DEF new, found, zero
<1>4. ASSUME NEW r \in 1..N PROVE row(r) \in Seq(M)
  <2>1. PICK n \in Nat : DOMAIN rows[r] = 1..n
    BY <1>3, LenProperties
  <2>2. ASSUME NEW i \in 1..n
        PROVE  (IF new(r, i) THEN << ms[Min(found(r, i))] >> ELSE << >>) \in Seq(M)
    BY <1>2
  <2>3. [i \in 1..n |-> IF new(r, i) THEN << ms[Min(found(r, i))] >> ELSE << >>] \in Seq(Seq(M))
    BY <2>2
  <2>4. cells(r) \in Seq(Seq(M))
    BY <2>1, <2>3
  <2> HIDE DEF cells
  <2> QED BY <2>4, FlattenSpreads
<1> HIDE DEF row
<1>5. all \in Seq(Seq(M)) /\ DOMAIN all = 1..N
  BY <1>3, <1>4
<1> HIDE DEF all
<1>6. PICK J : J = I
  OBVIOUS
<1>7. PICK K : K = Kept(all, J)
  OBVIOUS
<1>8. PICK from : Drawn(K, all, J, from)
  BY <1>5, <1>7, KeptComesFrom
<1>9. K \in Seq(Seq(M))
  BY <1>5, <1>7, KeptComesFrom
<1>10. \A k \in DOMAIN K : K[k] \in Seq(M) \ {<< >>}
  <2> TAKE k \in DOMAIN K
  <2>1. from[k] \in I /\ K[k] = all[from[k]]
    BY <1>6, <1>8 DEF Drawn
  <2>2. K[k] \in Seq(M)
    BY <1>9
  <2> QED BY <2>1, <2>2
<1>11. PICK S : S = Seq(M) \ {<< >>}
  OBVIOUS
<1>12. PICK n \in Nat : DOMAIN K = 1..n /\ K = [k \in 1..n |-> K[k]]
  BY <1>9, LenProperties
<1>13. K \in Seq(S)
  BY <1>10, <1>11, <1>12, IsSeq
<1> QED
  BY <1>1, <1>6, <1>7, <1>11, <1>13

LEMMA RowsFilled ==
    ASSUME NEW M, NEW ms \in Seq(M), NEW s, s.columns \in Nat \ {0}, s.rows \in Seq(Seq(Nat))
    PROVE  Rows(ms, s) \in Seq(Seq(M) \ {<< >>})
<1>1. AutoRows(ms, s.columns) \in Seq(Seq(M) \ {<< >>})
  BY AutoRowsFilled
<1>2. TextRows(ms, s.rows) \in Seq(Seq(M) \ {<< >>})
  BY TextRowsFilled
<1> QED
  BY <1>1, <1>2 DEF Rows

\* Every layout tiles the wall, whatever the style and the display in focus.
LEMMA LayoutTiles ==
    ASSUME NEW M, \A m \in M : OnDesk(m), NEW all \in Seq(M),
           \A i, j \in DOMAIN all : i # j => Apart(all[i], all[j]),
           NEW s, Laying(s), NEW n
    PROVE  Tiled(LayoutOf(all, s, n))
<1>1. PICK ms \in Seq(M) : ms = Selected(all, s, n) /\ \E from : Drawn(ms, all, Nat, from)
  BY SelectedSome
<1>2. PICK from : Drawn(ms, all, Nat, from)
  BY <1>1
<1>3. PICK others : others = {m \in {all[i] : i \in DOMAIN all} : m.id \notin Ids(ms)}
  OBVIOUS
<1>4. CASE s.mode = "windows"
  <2>1. PICK wall : wall = WindowsLayout(ms, others, s)
    OBVIOUS
  <2>2. LayoutOf(all, s, n) = wall
    BY <1>1, <1>3, <1>4, <2>1 DEF LayoutOf
  <2>3. others \in SUBSET M
    BY <1>3
  <2>4. \A i, j \in DOMAIN ms : i # j => Apart(ms[i], ms[j])
    BY <1>2 DEF Drawn
  <2>5. ASSUME NEW i \in DOMAIN ms, NEW e \in others PROVE Apart(ms[i], e)
    <3>1. PICK j \in DOMAIN all : e = all[j] /\ all[j].id \notin Ids(ms)
      BY <1>3
    <3>2. from[i] \in DOMAIN all /\ ms[i] = all[from[i]] /\ ms[i].id \in Ids(ms)
      BY <1>2 DEF Drawn, Ids
    <3>3. from[i] # j
      BY <3>1, <3>2
    <3> QED BY <3>1, <3>2, <3>3
  <2>6. Gaps(s)
    BY DEF Laying
  <2>7. /\ \A i \in DOMAIN wall.places : \A j \in DOMAIN wall.places \ {i} :
               Apart(wall.places[i], wall.places[j])
        /\ \A i \in DOMAIN wall.places : \A b \in wall.blocked : Apart(wall.places[i], b)
    BY <2>1, <2>3, <2>4, <2>5, <2>6, WindowsLayoutTiles
  <2>8. CASE ms = << >>
    <3>1. wall.places = << >>
      BY <2>1, <2>8 DEF WindowsLayout
    <3> QED BY <2>2, <3>1 DEF Tiled
  <2>9. CASE ms # << >>
    <3>1. \A i \in DOMAIN wall.places :
              /\ wall.places[i].x >= 0 /\ wall.places[i].x + wall.places[i].w <= wall.size[1]
              /\ wall.places[i].y >= 0 /\ wall.places[i].y + wall.places[i].h <= wall.size[2]
      BY <2>1, <2>6, <2>9, WindowsInside
    <3> QED BY <2>2, <2>7, <3>1 DEF Tiled
  <2> QED BY <2>8, <2>9
<1>5. CASE s.mode # "windows"
  <2>1. PICK rows : rows = Rows(ms, s)
    OBVIOUS
  <2>2. LayoutOf(all, s, n) = RowsLayout(rows, s)
    BY <1>1, <1>5, <2>1 DEF LayoutOf
  <2>3. rows \in Seq(Seq(M) \ {<< >>})
    BY <2>1, RowsFilled DEF Laying
  <2>4. \A m \in M : m.w \in Nat /\ m.h \in Nat
    BY DEF OnDesk
  <2>5. Gaps(s) /\ s.align \in {"left", "center", "right"}
    BY DEF Laying
  <2> QED BY <2>2, <2>3, <2>4, <2>5, RowsTile
<1> QED
  BY <1>4, <1>5

\* Whatever is plugged, edited or brought to focus while the wall is rebuilt, the
\* layout it shows never has two captures overlap, nor one outside the wall.
THEOREM WallIsTiled == Spec => []WallTiles
<1>1. ASSUME NEW l \in Layouts PROVE Tiled(Laid(l))
  <2>1. PICK d \in Desk, t \in Style : d = l[1] /\ t = l[2]
    BY DEF Layouts
  <2>2. PICK all, M, s : all = Monitors[d] /\ M = {all[i] : i \in DOMAIN all} /\ s = Styles[t]
    OBVIOUS
  <2>3. /\ all \in Seq(M) /\ \A m \in M : OnDesk(m)
        /\ \A i, j \in DOMAIN all : i # j => Apart(all[i], all[j])
        /\ Laying(s)
    BY <2>2, Desktops
  <2>4. Tiled(LayoutOf(all, s, l[3]))
    BY <2>3, LayoutTiles
  <2> QED BY <2>1, <2>2, <2>4 DEF Laid
<1>2. TypeOK => WallTiles
  BY <1>1 DEF TypeOK, WallTiles
<1> QED
  BY <1>2, TypeCorrect, PTL
=============================================================================
