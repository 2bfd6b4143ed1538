----------------------------- MODULE Projection -----------------------------
(***************************************************************************)
(* The attendance calendar of the browser application: the student marks   *)
(* days as leave, as attended or as OD (an absence to be corrected), and   *)
(* the page says what becomes of each course (date-attendance.js,          *)
(* date-projection.js, attendance-math.js), reading the timetable with     *)
(* schedule-model.js.  The state is the dialog's and the report's; the     *)
(* numbers shown are a function of it.  Which days can be clicked is not:  *)
(* a button is enabled or not when it is drawn (enabled), and a report that*)
(* arrives while the dialog is open draws nothing.                         *)
(*                                                                         *)
(* Days and hours are numbers; a percentage is compared exactly, where the *)
(* code compares floating point numbers with a margin of 1e-9.  A timetable*)
(* typed in by hand, without a calendar, is left out, and so is the page   *)
(* of the calendar: the days are those of the month that is shown.         *)
(***************************************************************************)
EXTENDS Integers, FiniteSets, SequencesExt, FiniteSetsExt

CONSTANTS
  Timetable,     \* its entries, in the order of the report
  Day,           \* the days of the calendar, 1 .. n
  Calendars,     \* calendars a report may bring: [Day -> [kind, order]]
  Reports,       \* attendance a report may bring: course codes to [present, conducted]
  Hour,          \* hours of the day at which a report may arrive
  Target,        \* 75 (%)
  MaxSpan,       \* days looked ahead at most (400)
  None

ASSUME TargetAssumption == Target \in 1 .. 100
ASSUME DayAssumption == IsFiniteSet(Day) /\ Day = 1 .. Cardinality(Day) /\ Hour \subseteq Nat /\ MaxSpan \in Nat

(* What a report may say of a course.                                      *)
Counts == UNION {Range(courseCounts) : courseCounts \in Reports}
ASSUME CountsAssumption ==
  \A c \in Counts : c.present \in Nat /\ c.conducted \in Nat /\ c.present <= c.conducted

(* schedule-model.js: normalize() refuses any other timetable.             *)
Values(field) == {Timetable[i][field] : i \in DOMAIN Timetable}
Entry == [code : Values("code"), room : Values("room"), order : Values("order"), batch : Values("batch"),
          start : Nat, end : Nat, hours : (Nat \ {0}) \cup {None}]
ASSUME TimetableAssumption ==
  Timetable \in Seq(Entry) /\ None \notin Int /\ \A i \in DOMAIN Timetable : Timetable[i].start < Timetable[i].end

VARIABLES
  calendar, courses, today, hour, batch,   \* the report shown, its time, and the batch chosen
  selected, action, open, enabled          \* the dialog, and the buttons its last rendering enabled

report == <<calendar, courses, today, hour>>
vars == <<calendar, courses, today, hour, batch, selected, action, open, enabled>>

Batches == Values("batch") \cup {None}

----------------------------------------------------------------------------
(* attendance-math.js: predict                                             *)

CeilDiv(a, b) == - ((- a) \div b)
Least(a, b) == IF a <= b THEN a ELSE b
Most(a, b) == IF a >= b THEN a ELSE b

Needed(present, conducted) ==
  IF 100 * present >= Target * conducted THEN 0
  ELSE IF Target >= 100 THEN None
  ELSE CeilDiv(Target * conducted - 100 * present, 100 - Target)

\* mutant: rounded the other way
CanMissUp(present, conducted) ==
  IF present > 0 THEN Most(0, CeilDiv(100 * present, Target) - conducted) ELSE 0

CanMiss(present, conducted) ==
  IF present > 0 THEN Most(0, (100 * present) \div Target - conducted) ELSE 0

(* present and conducted are the projected totals.                         *)
Predict(count, attend, miss, od) ==
  LET present == count.present + Least(od, count.conducted - count.present) + attend
      conducted == count.conducted + attend + miss IN
  [present |-> present, conducted |-> conducted,
   needed |-> IF conducted = 0 THEN None ELSE Needed(present, conducted),
   canMiss |-> IF conducted = 0 THEN 0 ELSE CanMiss(present, conducted)]

----------------------------------------------------------------------------
(* schedule-model.js: the classes of a day                                 *)

DayState(d) == IF d \in Day THEN calendar[d] ELSE [kind |-> "unknown", order |-> None]
Hours(e) == IF e.hours = None THEN e.end - e.start ELSE e.hours
SameClass(e, f) == e.code = f.code /\ e.room = f.room /\ e.batch = f.batch

(* Classes that follow each other without a break are shown as one.        *)
Merged(list, e) ==
  IF list # <<>> /\ SameClass(Last(list), e) /\ Last(list).end = e.start
  THEN Append(Front(list), [Last(list) EXCEPT !.end = e.end, !.hours = Hours(Last(list)) + Hours(e)])
  ELSE Append(list, e)

(* By start; classes that start together stay in the report's order.       *)
Before(i, j) ==
  \/ Timetable[i].start < Timetable[j].start
  \/ Timetable[i].start = Timetable[j].start /\ i < j
Sorted(taken) ==
  CHOOSE seq \in [1 .. Cardinality(taken) -> taken] : \A m, n \in DOMAIN seq : m < n => Before(seq[m], seq[n])

Taken(d, filter) ==
  {i \in DOMAIN Timetable : /\ Timetable[i].order = DayState(d).order
                            /\ filter = None \/ Timetable[i].batch \in {None, filter}}

Classes(d, filter) ==
  IF DayState(d).kind # "teaching" THEN <<>>
  ELSE LET order == Sorted(Taken(d, filter))
       IN FoldLeft(Merged, <<>>, [n \in DOMAIN order |-> Timetable[order[n]]])

(* The hours of a course among the classes that start no earlier.          *)
HoursOf(list, code, from) ==
  SumFunctionOnSet([n \in DOMAIN list |-> Hours(list[n])],
                   {n \in DOMAIN list : list[n].code = code /\ list[n].start >= from})
TaughtHours(d, code, filter, from) == HoursOf(Classes(d, filter), code, from)

----------------------------------------------------------------------------
(* date-projection.js: what the days selected do to a course               *)

Leaves == {d \in Day : selected[d] = "leave" /\ d >= today}

(* Until the last leave the student is expected to attend.                 *)
Span == IF Leaves = {} THEN {} ELSE today .. Least(Max(Leaves), today + MaxSpan - 1)
Dates == Span \cup {d \in Day : selected[d] # "none"}
Unknown == {d \in Dates : DayState(d).kind = "unknown" /\ (d >= today \/ selected[d] = "od")}

\* mutant: an OD to come is taken for a correction
FieldByAction(d) == IF selected[d] = "od" THEN "od" ELSE IF d < today THEN "ignored"
                    ELSE IF selected[d] = "leave" THEN "miss" ELSE "attend"

Field(d) == IF d < today THEN IF selected[d] = "od" THEN "od" ELSE "ignored"
            ELSE IF selected[d] = "leave" THEN "miss" ELSE "attend"

Impact(code) ==
  [field \in {"attend", "miss", "od"} |->
     SumFunctionOnSet([d \in Dates |-> TaughtHours(d, code, batch, 0)], {d \in Dates : Field(d) = field})]

Projected(code) ==
  LET impact == Impact(code) IN Predict(courses[code], impact["attend"], impact["miss"], impact["od"])

(* course-details.js: the day by which attending everything would do, 0 if *)
(* nothing need be done and None if the timetable cannot say.              *)
Recovery(code) ==
  LET needed == Predict(courses[code], 0, 0, 0).needed
      From(d) == IF d = today THEN hour ELSE 0
      By(d) == SumFunction([e \in today .. d |-> TaughtHours(e, code, None, From(e))])
      Reached == {d \in today .. today + MaxSpan - 1 :
                    /\ By(d) >= needed
                    /\ \A e \in today .. d : DayState(e).kind # "unknown"} IN
  IF needed = None \/ needed = 0 THEN 0
  ELSE IF Cardinality({Timetable[i].batch : i \in {j \in DOMAIN Timetable : Timetable[j].code = code}} \ {None}) > 1
          \/ Reached = {} THEN None
  ELSE Min(Reached)

----------------------------------------------------------------------------
(* date-attendance.js: the dialog                                          *)

Actions == {"leave", "attend", "od"}
Nothing == [d \in Day |-> "none"]

(* No timetable yet, or none that is valid: no day is known.               *)
NoCalendar == [d \in Day |-> [kind |-> "unknown", order |-> None]]

(* The days whose buttons are enabled if they are drawn now; a click draws *)
(* them again with what it changed.                                        *)
Clickable == {d \in Day : DayState(d).kind = "teaching" /\ (d >= today \/ action = "od")}
Render == enabled' = Clickable'

Init ==
  /\ calendar = NoCalendar /\ courses = <<>> /\ today \in Day /\ hour \in Hour /\ batch = None
  /\ selected = Nothing /\ action = "leave" /\ open = FALSE /\ enabled = {}

(* A report arrives, later the same day or on another one, whether the     *)
(* dialog is open or not.  Its buttons stay as they are.  The batch is     *)
(* kept if the report lists it.                                            *)
Update ==
  /\ calendar' \in Calendars \cup {NoCalendar} /\ courses' \in Reports
  /\ batch' \in {batch, None} /\ (calendar' = NoCalendar => batch' = None)
  /\ today' \in {d \in Day : d >= today} /\ hour' \in Hour
  /\ today' = today => hour' >= hour
  /\ selected' = Nothing
  /\ UNCHANGED <<action, open, enabled>>

(* home.js: the filter stands on the page, out of reach behind the dialog. *)
FilterBatch ==
  /\ ~open /\ calendar # NoCalendar
  /\ batch' \in Batches
  /\ UNCHANGED <<report, selected, action, open, enabled>>

(* The page opens the dialog for a course, without a day.                  *)
Open ==
  /\ ~open /\ courses # <<>>
  /\ open' = TRUE
  /\ UNCHANGED <<report, batch, selected, action>>
  /\ Render

Close ==
  /\ open
  /\ open' = FALSE
  /\ UNCHANGED <<report, batch, selected, action, enabled>>

ChooseAction ==
  /\ open
  /\ action' \in Actions
  /\ UNCHANGED <<report, batch, selected, open>>
  /\ Render

\* mutant: only the day clicked is drawn again
ClickAlone(d) ==
  /\ open /\ d \in enabled
  /\ selected' = [selected EXCEPT ![d] = IF @ = action THEN "none" ELSE action]
  /\ UNCHANGED <<report, batch, action, open, enabled>>

(* The handler asks nothing: a button that was enabled when it was drawn   *)
(* selects its day.                                                        *)
Click(d) ==
  /\ open /\ d \in enabled
  /\ selected' = [selected EXCEPT ![d] = IF @ = action THEN "none" ELSE action]
  /\ UNCHANGED <<report, batch, action, open>>
  /\ Render

Clear ==
  /\ open
  /\ selected' = Nothing
  /\ UNCHANGED <<report, batch, action, open>>
  /\ Render

(* Another month is turned to, and back.                                   *)
Turn ==
  /\ open
  /\ UNCHANGED <<report, batch, selected, action, open>>
  /\ Render

(* clear(): the session has ended, wherever the student is.                *)
SignOut ==
  /\ calendar' = NoCalendar /\ courses' = <<>> /\ batch' = None
  /\ selected' = Nothing /\ open' = FALSE
  /\ UNCHANGED <<today, hour, action, enabled>>

Next ==
  \/ Update \/ SignOut \/ FilterBatch
  \/ Open \/ Close \/ ChooseAction \/ Clear \/ Turn
  \/ \E d \in Day : Click(d)

Spec == Init /\ [][Next]_vars

----------------------------------------------------------------------------
(* The hours the timetable gives a course on a day, class by class.        *)
Listed(d, code, filter, from) ==
  SumFunctionOnSet([i \in DOMAIN Timetable |-> Hours(Timetable[i])],
    {i \in DOMAIN Timetable :
       /\ DayState(d).kind = "teaching" /\ Timetable[i].order = DayState(d).order
       /\ filter = None \/ Timetable[i].batch \in {None, filter}
       /\ Timetable[i].code = code /\ Timetable[i].start >= from})

Sum(days, code) == SumFunction([d \in days |-> Listed(d, code, batch, 0)])

(* Up to the last leave, and as far as the page looks ahead, every hour of *)
(* a course is either attended or missed, once, though classes are merged  *)
(* and days come from two lists.  The corrections are the past days marked *)
(* as OD: a past day marked otherwise, on a button drawn before today,     *)
(* counts for nothing.                                                     *)
HoursAccounted ==
  \A code \in DOMAIN courses :
    LET impact == Impact(code)
        ahead == {d \in Day : /\ d >= today
                              /\ \/ selected[d] # "none"
                                 \/ d < today + MaxSpan /\ \E l \in Leaves : d <= l} IN
    /\ impact["attend"] + impact["miss"] = Sum(ahead, code)
    /\ impact["miss"] = Sum(Leaves, code)
    /\ impact["od"] = Sum({d \in Day : d < today /\ selected[d] = "od"}, code)

(* needed is the least number of hours that reaches the target and canMiss *)
(* the greatest that keeps it: one hour off tells a student to skip a      *)
(* class that cannot be skipped.                                           *)
Exact(p) ==
  LET reaches(n) == 100 * (p.present + n) >= Target * (p.conducted + n)
      keeps(n) == 100 * p.present >= Target * (p.conducted + n) IN
  p.conducted > 0 =>
    /\ p.needed = None => Target = 100 /\ p.present < p.conducted
    /\ p.needed # None => reaches(p.needed) /\ (p.needed = 0 \/ ~reaches(p.needed - 1))
    /\ ~keeps(p.canMiss + 1) /\ (p.canMiss = 0 \/ keeps(p.canMiss))

(* The hours of a course the timetable gives from now on until a day ends. *)
GivenUntil(day, code) ==
  SumFunction([d \in today .. day |-> Listed(d, code, None, IF d = today THEN hour ELSE 0)])

(* What the page says of a course is exact, before and after the selection,*)
(* and no student is told to be back at the target before the timetable    *)
(* has given the hours for it.                                             *)
PredictionsExact ==
  \A code \in DOMAIN courses :
    /\ Exact(Predict(courses[code], 0, 0, 0)) /\ Exact(Projected(code))
    /\ Recovery(code) \notin {0, None} => GivenUntil(Recovery(code), code) >= Predict(courses[code], 0, 0, 0).needed

(* The days selected that the dialog would not let the student select if   *)
(* it were drawn now.                                                      *)
Stale == {d \in Day : selected[d] # "none" /\
                      ~(DayState(d).kind = "teaching" /\ (d >= today \/ selected[d] = "od"))}

(* At most one such day is ever selected: whatever reports arrive behind   *)
(* the open dialog, on whatever day, the first click draws every button    *)
(* again, and no selection outlives the report it was made for.  There may *)
(* be one, though the dialog says (index.html) "Past dates allow OD        *)
(* corrections only": a button drawn before today does not keep that.      *)
OneStaleDay == Cardinality(Stale) <= 1
=============================================================================
