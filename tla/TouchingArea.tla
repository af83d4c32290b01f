---------------------------- MODULE TouchingArea ----------------------------
(***************************************************************************)
(* The areas that trigger and end priority for emergency vehicles          *)
(* (src/application/EVSP/src/EVSP_touching_area.c): how the two kinds of   *)
(* configuration are read into tables that refer to each other by index,   *)
(* and how a position and a direction are looked up in them.               *)
(*                                                                         *)
(* A file is its sections, a section its rows; a row that sscanf or one of *)
(* the tests of its numbers refuses is a row that is not ok.  Coordinates  *)
(* are integers.  All of it is sequential: a behaviour takes one input     *)
(* through one reading or lookup.                                          *)
(***************************************************************************)
EXTENDS Integers, Sequences, SequencesExt

CONSTANTS
    Files,       \* configurations of type TABLE
    Rects,       \* configurations of type DEFAULT: files of rectangles
    Polygons,    \* polygons: sequences of nodes <<x, y>>
    Points       \* positions

TouchingAreaAssumption ==
    /\ \A p \in Polygons : Len(p) >= 3
    /\ \A f \in Files : \A i \in DOMAIN f : f[i].kind \in {"terminate", "touching", "plan"}

VARIABLE job      \* what is worked on, and the result

vars == <<job>>

Empty == [ok |-> TRUE, terms |-> << >>, areas |-> << >>, plans |-> << >>]
Failed == [Empty EXCEPT !.ok = FALSE]

-----------------------------------------------------------------------------
(* EVSP_table_config.  A section of areas replaces an earlier one of its   *)
(* kind, plan tables add up.  The first bad row ends the reading.          *)
ReadTerminate(list, row) ==
    IF ~row.ok \/ \E i \in DOMAIN list.terms : list.terms[i] = row.id THEN Failed
    ELSE [list EXCEPT !.terms = Append(@, row.id)]

ReadTouching(list, row) ==
    IF ~row.ok \/ \E i \in DOMAIN list.areas : list.areas[i].id = row.id THEN Failed
    ELSE [list EXCEPT !.areas = Append(@, [id |-> row.id, terms |-> row.terms])]

ReadPlan(list, row) ==
    IF ~row.ok THEN Failed
    ELSE [list EXCEPT !.plans[Len(list.plans)].subs = Append(@, [phase |-> row.phase, areas |-> row.areas])]

Opened(list, section) ==
    CASE section.kind = "terminate" -> [list EXCEPT !.terms = << >>]
      [] section.kind = "touching" -> [list EXCEPT !.areas = << >>]
      [] section.kind = "plan" ->
            [list EXCEPT !.plans = Append(@, [ids |-> section.ids, subs |-> << >>])]

ReadRow(kind, list, row) ==
    CASE ~list.ok -> Failed
      [] kind = "terminate" -> ReadTerminate(list, row)
      [] kind = "touching" -> ReadTouching(list, row)
      [] kind = "plan" -> ReadPlan(list, row)

ReadSection(list, section) ==
    IF ~list.ok THEN Failed
    ELSE FoldLeft(LAMBDA l, row : ReadRow(section.kind, l, row), Opened(list, section), section.rows)

(* Ids are replaced by the index of the row that has them, counted from 0; *)
(* an id that nobody has is left with the count.                           *)
IndexOf(ids, id) ==
    LET at == {i \in DOMAIN ids : ids[i] = id}
    IN IF at = {} THEN Len(ids) ELSE (CHOOSE i \in at : \A j \in at : i <= j) - 1

Indexes(ids, ref) == [j \in DOMAIN ref |-> IndexOf(ids, ref[j])]

Resolve(list) ==
    LET areaIds == [i \in DOMAIN list.areas |-> list.areas[i].id] IN
    [list EXCEPT
        !.areas = [i \in DOMAIN @ |-> [@[i] EXCEPT !.terms = Indexes(list.terms, @)]],
        !.plans = [i \in DOMAIN @ |-> [@[i] EXCEPT !.subs =
                      [j \in DOMAIN @ |-> [@[j] EXCEPT !.areas = Indexes(areaIds, @)]]]]]

EVSP_plan_list_check(list) ==
    /\ \A i \in DOMAIN list.areas : \A j \in DOMAIN list.areas[i].terms :
          list.areas[i].terms[j] < Len(list.terms)
    /\ \A i \in DOMAIN list.plans : \A j \in DOMAIN list.plans[i].subs :
          \A k \in DOMAIN list.plans[i].subs[j].areas :
             list.plans[i].subs[j].areas[k] < Len(list.areas)
    /\ LET ids == FlattenSeq([i \in DOMAIN list.plans |-> list.plans[i].ids])
       IN \A i, j \in DOMAIN ids : ids[i] = ids[j] => i = j

EVSP_table_config(file) ==
    LET list == FoldLeft(ReadSection, Empty, file)
    IN IF list.ok /\ EVSP_plan_list_check(Resolve(list)) THEN Resolve(list) ELSE Empty

-----------------------------------------------------------------------------
(* EVSP_default_config: one file for each plan, with the areas as          *)
(* rectangles in it; equal ones share an entry, whose terminating areas    *)
(* are those of the file read last.                                        *)
Shared(seq, x) == IF \E i \in DOMAIN seq : seq[i] = x THEN seq ELSE Append(seq, x)

AreaKey(area) == [rect |-> area.rect, dir |-> area.dir]

DefaultArea(acc, area) ==
    LET keys == [i \in DOMAIN acc.areas |-> acc.areas[i].id]
        k == IndexOf(keys, AreaKey(area))
        terms == FoldLeft(Shared, acc.terms, area.terms)
        entry == [id |-> AreaKey(area), terms |-> Indexes(terms, area.terms)]
        p == Len(acc.plans)
        s == Len(acc.plans[p].subs)
    IN [acc EXCEPT !.terms = terms,
                   !.areas = IF k = Len(@) THEN Append(@, entry) ELSE [@ EXCEPT ![k + 1] = entry],
                   !.plans[p].subs[s].areas = Append(@, k)]

EVSP_default_config_read(list, file) ==
    FoldLeft(LAMBDA acc, sub :
                FoldLeft(DefaultArea,
                         [acc EXCEPT !.plans[Len(acc.plans)].subs = Append(@, [phase |-> sub.phase, areas |-> << >>])],
                         sub.areas),
             [list EXCEPT !.plans = Append(@, [ids |-> <<file.plan>>, subs |-> << >>])],
             SelectSeq(file.subs, LAMBDA sub : sub.areas # << >>))

EVSP_default_config(files) ==
    LET list == FoldLeft(EVSP_default_config_read, Empty, files)
    IN IF EVSP_plan_list_check(list) THEN list ELSE Empty

-----------------------------------------------------------------------------
(* A position in a polygon.                                                *)
X(p) == p[1]
Y(p) == p[2]
Smaller(a, b) == IF a < b THEN a ELSE b
Larger(a, b) == IF a > b THEN a ELSE b

onLine(a, b, p) ==
    /\ X(p) <= Larger(X(a), X(b)) /\ X(p) <= Smaller(X(a), X(b))
    /\ Y(p) <= Larger(Y(a), Y(b)) /\ Y(p) <= Smaller(Y(a), Y(b))

(* 0 collinear, 1 clockwise, 2 anti-clockwise                              *)
direction(a, b, c) ==
    LET val == (Y(b) - Y(a)) * (X(c) - X(b)) - (X(b) - X(a)) * (Y(c) - Y(b))
    IN IF val = 0 THEN 0 ELSE IF val < 0 THEN 2 ELSE 1

isIntersect(a, b, c, d) ==
    LET dir1 == direction(a, b, c)
        dir2 == direction(a, b, d)
        dir3 == direction(c, d, a)
        dir4 == direction(c, d, b)
    IN \/ dir1 # dir2 /\ dir3 # dir4
       \/ dir1 = 0 /\ onLine(a, b, c)
       \/ dir2 = 0 /\ onLine(a, b, d)
       \/ dir3 = 0 /\ onLine(c, d, a)
       \/ dir4 = 0 /\ onLine(c, d, b)

Sides(poly) == [i \in DOMAIN poly |-> <<poly[i], poly[(i % Len(poly)) + 1]>>]

(* A ray to the right; the first side it meets that p is collinear with    *)
(* decides, otherwise the number of sides it meets.                        *)
checkInside(poly, p) ==
    LET met == SelectSeq(Sides(poly), LAMBDA s : isIntersect(s[1], s[2], p, <<9999, Y(p)>>))
        level == SelectSeq(met, LAMBDA s : direction(s[1], p, s[2]) = 0)
    IN IF Len(poly) < 3 THEN FALSE
       ELSE IF level # << >> THEN onLine(level[1][1], level[1][2], p)
       ELSE Len(met) % 2 = 1

(* DEFAULT: a rectangle is its north-west and its south-east node.         *)
InRectangle(nw, se, p) == Y(se) <= Y(p) /\ Y(p) <= Y(nw) /\ X(nw) <= X(p) /\ X(p) <= X(se)

(* The loop from direciton_start up to direciton_end, which was read as    *)
(* one more modulo 8; the first is tested before the end.                  *)
DirectionEnd(end) == (end + 1) % 8

DirectionMatches(start, end, d) ==
    LET steps == IF start = end THEN 8 ELSE (end - start) % 8
    IN \E n \in 0..(steps - 1) : (start + n) % 8 = d

(* EVSP_activate: the phase of the first area of the plan that has the     *)
(* position and the direction, EVSP_terminate: the first terminating area. *)
FirstAt(seq, Test(_)) ==
    LET at == {i \in DOMAIN seq : Test(seq[i])}
    IN IF at = {} THEN 0 ELSE CHOOSE i \in at : \A j \in at : i <= j

EVSP_activate(list, plan, p, d) ==
    LET touched == FlattenSeq([i \in DOMAIN plan.subs |->
                      [j \in DOMAIN plan.subs[i].areas |->
                         [phase |-> plan.subs[i].phase, index |-> plan.subs[i].areas[j]]]])
        Hit(t) == LET a == list.areas[t.index + 1].id
                  IN /\ DirectionMatches(a.dir, DirectionEnd(a.dir), d)
                     /\ InRectangle(a.rect[1], a.rect[2], p)
        n == FirstAt(touched, Hit)
    IN IF n = 0 THEN [phase |-> -1, index |-> -1] ELSE touched[n]

EVSP_terminate(list, area, p) ==
    LET terms == list.areas[area + 1].terms
        Hit(t) == InRectangle(list.terms[t + 1][1], list.terms[t + 1][2], p)
        n == FirstAt(terms, Hit)
    IN IF n = 0 THEN -1 ELSE terms[n]

(* EVSP_plan_table_search                                                  *)
EVSP_plan_table_search(list, id) ==
    FirstAt(list.plans, LAMBDA plan : \E j \in DOMAIN plan.ids : plan.ids[j] = id)

-----------------------------------------------------------------------------
Init ==
    \/ \E f \in Files : job = [kind |-> "table", file |-> f, list |-> Empty, done |-> FALSE]
    \/ \E r \in Rects : job = [kind |-> "default", file |-> r, list |-> Empty, done |-> FALSE]
    \/ \E p \in Polygons, q \in Points :
          job = [kind |-> "position", poly |-> p, point |-> q, inside |-> FALSE, done |-> FALSE]
    \/ \E s, e, d \in 0..7 :
          job = [kind |-> "direction", start |-> s, end |-> e, d |-> d, match |-> FALSE, done |-> FALSE]

Work ==
    /\ ~job.done
    /\ job' =
         CASE job.kind = "table" -> [job EXCEPT !.list = EVSP_table_config(job.file), !.done = TRUE]
           [] job.kind = "default" -> [job EXCEPT !.list = EVSP_default_config(job.file), !.done = TRUE]
           [] job.kind = "position" -> [job EXCEPT !.inside = checkInside(job.poly, job.point), !.done = TRUE]
           [] job.kind = "direction" ->
                 [job EXCEPT !.match = DirectionMatches(job.start, DirectionEnd(job.end), job.d), !.done = TRUE]

Next == Work

-----------------------------------------------------------------------------
Rows(file, kind) ==
    LET last == SelectSeq(file, LAMBDA s : s.kind = kind)
    IN IF last = << >> THEN << >> ELSE Last(last).rows

Plans(file) == SelectSeq(file, LAMBDA s : s.kind = "plan")

Unique(seq) == \A i, j \in DOMAIN seq : seq[i] = seq[j] => i = j

Ids(rows) == [i \in DOMAIN rows |-> rows[i].id]

(* What a usable file is: every row is good, no section names an id twice, *)
(* every reference is to a row of the last section of its kind, no plan    *)
(* has two tables.                                                         *)
Usable(file) ==
    /\ \A i \in DOMAIN file : \A j \in DOMAIN file[i].rows : file[i].rows[j].ok
    /\ \A i \in DOMAIN file : file[i].kind # "plan" => Unique(Ids(file[i].rows))
    /\ \A i \in DOMAIN Rows(file, "touching") :
          Range(Rows(file, "touching")[i].terms) \subseteq Range(Ids(Rows(file, "terminate")))
    /\ \A i \in DOMAIN Plans(file) : \A j \in DOMAIN Plans(file)[i].rows :
          Range(Plans(file)[i].rows[j].areas) \subseteq Range(Ids(Rows(file, "touching")))
    /\ Unique(FlattenSeq([i \in DOMAIN Plans(file) |-> Plans(file)[i].ids]))

\* The tables are exactly what a usable file says, with every reference leading to
\* the row with the id that was written, and empty after any other file
\* (EVSP_table_config).
TableAsWritten ==
    job.kind = "table" /\ job.done =>
        IF ~Usable(job.file) THEN job.list = Empty
        ELSE /\ job.list.terms = Ids(Rows(job.file, "terminate"))
             /\ \A i \in DOMAIN job.list.areas :
                   LET row == Rows(job.file, "touching")[i] IN
                   /\ job.list.areas[i].id = row.id
                   /\ \A j \in DOMAIN row.terms :
                         job.list.terms[job.list.areas[i].terms[j] + 1] = row.terms[j]
             /\ \A i \in DOMAIN job.list.plans : \A j \in DOMAIN job.list.plans[i].subs :
                   LET row == Plans(job.file)[i].rows[j] IN
                   \A k \in DOMAIN row.areas :
                      job.list.areas[job.list.plans[i].subs[j].areas[k] + 1].id = row.areas[k]

\* Of rectangles, whatever plans share them: a position in a touching area of a
\* plan, in its direction, asks for a phase that lists such an area, and a position
\* in one of the terminating areas given for that area last ends it
\* (EVSP_default_config_read, EVSP_activate, EVSP_terminate).
AreasOf(file) == FlattenSeq([i \in DOMAIN file.subs |-> file.subs[i].areas])

RectanglesFound ==
    job.kind = "default" /\ job.done /\ job.list # Empty =>
        \A i \in DOMAIN job.file : \A q \in Points, d \in 0..7 :
            LET file == job.file[i]
                plan == job.list.plans[EVSP_plan_table_search(job.list, file.plan)]
                got == EVSP_activate(job.list, plan, q, d)
                Hit(a) == a.dir = d /\ InRectangle(a.rect[1], a.rect[2], q)
            IN /\ got.phase # -1 <=> \E a \in Range(AreasOf(file)) : Hit(a)
               /\ got.phase # -1 =>
                     /\ \E j \in DOMAIN file.subs : file.subs[j].phase = got.phase /\
                           \E a \in Range(file.subs[j].areas) : Hit(a) /\ AreaKey(a) = job.list.areas[got.index + 1].id
                     /\ \A r \in Points :
                           EVSP_terminate(job.list, got.index, r) # -1 <=>
                              \E t \in DOMAIN job.list.areas[got.index + 1].terms :
                                 LET term == job.list.terms[job.list.areas[got.index + 1].terms[t] + 1]
                                 IN InRectangle(term[1], term[2], r)

(* Inside a convex polygon: on the same side of every side.                *)
Inside(poly, p) ==
    \E turn \in {1, 2} : \A i \in DOMAIN Sides(poly) :
        direction(Sides(poly)[i][1], Sides(poly)[i][2], p) = turn

\* A position that is level with no node and in line with no side of a convex
\* polygon is found inside exactly when it is (checkInside).  At the level of a node
\* the count of sides is not reliable; in line with a side onLine compares with the
\* smaller coordinate the wrong way round, and takes what lies to the south-west of
\* the side, even outside the polygon, for a point of it.
PositionsFound ==
    job.kind = "position" /\ job.done
    /\ (\A i \in DOMAIN job.poly : Y(job.poly[i]) # Y(job.point))
    /\ (\A i \in DOMAIN job.poly : direction(Sides(job.poly)[i][1], Sides(job.poly)[i][2], job.point) # 0) =>
        (job.inside <=> Inside(job.poly, job.point))

\* Directions count clockwise from the start to the end, both included, across
\* north too, and all eight of them when the end is just before the start.
DirectionsFound ==
    job.kind = "direction" /\ job.done =>
        (job.match <=> (job.d - job.start) % 8 <= (job.end - job.start) % 8)

AreasFound == TableAsWritten /\ RectanglesFound /\ PositionsFound /\ DirectionsFound
=============================================================================
