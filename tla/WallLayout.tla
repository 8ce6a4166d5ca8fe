----------------------------- MODULE WallLayout -----------------------------
(***************************************************************************)
(* core/monitor_enum.cpp and core/wall_layout.cpp: which monitors the wall *)
(* shows and where.  A monitor is a record [id, number, x, y, w, h,        *)
(* primary, glasses]: its place on the desktop and the number Windows      *)
(* shows for it; glasses: its EDID is that of glasses.  The style is what  *)
(* the source's settings say of the layout.                                *)
(*                                                                         *)
(* Abstracted: a filter is the set of ids its words match; rows are the    *)
(* numbers in the text.  Left out: names and other words in the rows, and  *)
(* the limits of 32-bit integers, which no desktop comes near.             *)
(***************************************************************************)
EXTENDS Integers, FiniteSets, Sequences, FiniteSetsExt, SequencesExt

Rect(x, y, w, h) == [x |-> x, y |-> y, w |-> w, h |-> h]

Ids(ms) == {ms[i].id : i \in DOMAIN ms}

-----------------------------------------------------------------------------
(* Which monitors                                                          *)

\* Those of a sequence at some of its places, in their order.
Kept(seq, I) == FlattenSeq([i \in DOMAIN seq |-> IF i \in I THEN << seq[i] >> ELSE << >>])

Chosen(m, s) ==
    /\ s.include_primary \/ ~m.primary
    /\ ~(s.exclude_glasses /\ m.glasses)
    /\ m.id \notin s.exclude
    /\ s.only = {} \/ m.id \in s.only
Filtered(all, s) == Kept(all, {i \in DOMAIN all : Chosen(all[i], s)})

\* The display in focus alone; all of them if it is not there.
Focused(ms, n) ==
    LET found == {i \in DOMAIN ms : n > 0 /\ ms[i].number = n}
    IN IF found = {} THEN ms ELSE << ms[Min(found)] >>

Selected(all, s, focus) == Focused(Filtered(all, s), focus)

\* find_monitor_by_token: by the number Windows shows, or else by position;
\* by position from 0 when a 0 is among the numbers.  The set of what is found.
Find(ms, n, zero) ==
    LET named == IF zero THEN {} ELSE {i \in DOMAIN ms : ms[i].number = n}
        at == IF zero THEN n + 1 ELSE n
    IN IF named # {} THEN {Min(named)} ELSE {at} \cap DOMAIN ms

\* build_rows_from_text: a monitor named twice stays where it is named first,
\* and a row with nothing left is dropped.
TextRows(ms, rows) ==
    LET zero == \E r \in DOMAIN rows : \E i \in DOMAIN rows[r] : rows[r][i] = 0
        found(r, i) == Find(ms, rows[r][i], zero)
        new(r, i) ==
            /\ found(r, i) # {}
            /\ \A q \in 1..r : \A j \in DOMAIN rows[q] :
                  q < r \/ j < i => found(q, j) # found(r, i)
        row(r) == FlattenSeq([i \in DOMAIN rows[r] |->
                      IF new(r, i) THEN << ms[Min(found(r, i))] >> ELSE << >>])
        all == [r \in DOMAIN rows |-> row(r)]
    IN Kept(all, {r \in DOMAIN rows : all[r] # << >>})

AutoRows(ms, columns) ==
    [r \in 1..((Len(ms) + columns - 1) \div columns) |->
        SubSeq(ms, (r - 1) * columns + 1, Min({r * columns, Len(ms)}))]

Rows(ms, s) ==
    LET text == IF s.mode = "rows" THEN TextRows(ms, s.rows) ELSE << >>
    IN IF text = << >> THEN AutoRows(ms, s.columns) ELSE text

-----------------------------------------------------------------------------
(* compute_windows_layout: every monitor where it is on the desktop, moved *)
(* by one gap for every column, and row, that starts before it.            *)

Left(ms) == {ms[i].x : i \in DOMAIN ms}
Top(ms) == {ms[i].y : i \in DOMAIN ms}

Offset_After(starts, p, gap) ==         \* mutant: the starts after it
    Cardinality({q \in starts : q > p}) * gap
Offset(starts, p, gap) == Cardinality({q \in starts : q < p}) * gap

\* Where m is drawn on the wall of ms, or would be.
Put(m, ms, s) ==
    Rect(s.padding + m.x - Min(Left(ms)) + Offset(Left(ms), m.x, s.gap_x),
         s.padding + m.y - Min(Top(ms)) + Offset(Top(ms), m.y, s.gap_y),
         m.w, m.h)

\* e has monitors of the wall on both sides.
Sandwiched(e, ms) ==
    LET mid(m) == << m.x + m.w \div 2, m.y + m.h \div 2 >>
        beside == {i \in DOMAIN ms : e.y < ms[i].y + ms[i].h /\ ms[i].y < e.y + e.h}
        stacked == {i \in DOMAIN ms : e.x < ms[i].x + ms[i].w /\ ms[i].x < e.x + e.w}
        Between(S, k) == /\ \E i \in S : mid(ms[i])[k] < mid(e)[k]
                         /\ \E i \in S : mid(ms[i])[k] > mid(e)[k]
    IN Between(beside, 1) \/ Between(stacked, 2)

\* How far the rectangles reach.
Right(rs) == Max({rs[i].x + rs[i].w : i \in DOMAIN rs})
Bottom(rs) == Max({rs[i].y + rs[i].h : i \in DOMAIN rs})

WindowsLayout(ms, excluded, s) ==
    LET places == [i \in DOMAIN ms |-> Put(ms[i], ms, s)]
    IN IF ms = << >>
       THEN [monitors |-> ms, places |-> << >>, blocked |-> {},
             size |-> << 2 * s.padding, 2 * s.padding >>]
       ELSE [monitors |-> ms, places |-> places,
             blocked |-> {Put(e, ms, s) : e \in {f \in excluded : Sandwiched(f, ms)}},
             size |-> << Right(places) + s.padding, Bottom(places) + s.padding >>]

-----------------------------------------------------------------------------
(* compute_rows_layout: the rows one below the other.                      *)

\* Where each thing of the given lengths starts, in a line with gaps; the last
\* entry is where the line ends, with a gap too many.
Line(lengths, gap) ==
    LET at[i \in 0..Len(lengths)] ==
            IF i = 0 THEN 0 ELSE at[i - 1] + lengths[i] + gap
    IN at
Span(lengths, gap) ==
    IF lengths = << >> THEN 0 ELSE Line(lengths, gap)[Len(lengths)] - gap

Widths(row) == [i \in DOMAIN row |-> row[i].w]
Height(row) == Max({row[i].h : i \in DOMAIN row})
Heights(rows) == [r \in DOMAIN rows |-> Height(rows[r])]
RowSpan(row, s) == Span(Widths(row), s.gap_x)
ContentWidth(rows, s) == Max({RowSpan(rows[r], s) : r \in DOMAIN rows} \cup {0})

\* Where a row begins, by the alignment.
Indent(rows, r, s) ==
    LET slack == ContentWidth(rows, s) - RowSpan(rows[r], s)
    IN CASE s.align = "left" -> 0
         [] s.align = "center" -> slack \div 2
         [] s.align = "right" -> slack

PlacedRow(rows, r, s) ==
    [i \in DOMAIN rows[r] |->
        Rect(s.padding + Indent(rows, r, s) + Line(Widths(rows[r]), s.gap_x)[i - 1],
             s.padding + Line(Heights(rows), s.gap_y)[r - 1]
                 + (Heights(rows)[r] - rows[r][i].h) \div 2,
             rows[r][i].w, rows[r][i].h)]

RowsLayout(rows, s) ==
    [monitors |-> FlattenSeq(rows),
     places |-> FlattenSeq([r \in DOMAIN rows |-> PlacedRow(rows, r, s)]),
     blocked |-> {},
     size |-> << ContentWidth(rows, s) + 2 * s.padding,
                 Span(Heights(rows), s.gap_y) + 2 * s.padding >>]

-----------------------------------------------------------------------------
\* The layout rebuild_display_wall computes.
LayoutOf(all, s, focus) ==
    LET ms == Selected(all, s, focus)
        others == {m \in {all[i] : i \in DOMAIN all} : m.id \notin Ids(ms)}
    IN IF s.mode = "windows" THEN WindowsLayout(ms, others, s)
                             ELSE RowsLayout(Rows(ms, s), s)

\* No point is in both rectangles.
Apart(a, b) == a.x + a.w <= b.x \/ b.x + b.w <= a.x \/ a.y + a.h <= b.y \/ b.y + b.h <= a.y
=============================================================================
