---------------------------- MODULE CronSchedule ----------------------------
(***************************************************************************)
(* Which instants a cron expression names in a time zone, as cron.ts       *)
(* computes them: parse the fields, walk the wall clock minute by minute,  *)
(* and map a wall time that matches back to 0, 1 or 2 instants.            *)
(*                                                                         *)
(* An instant is a number of minutes since the start of the calendar, in   *)
(* UTC.  A zone has one transition: [shift, before, after] is read at t    *)
(* with offset before until shift and with offset after from then on.      *)
(* The calendar is a parameter, so that a day may have few hours.          *)
(***************************************************************************)
EXTENDS Integers, Sequences, FiniteSetsExt

CONSTANTS
  MinutesPerHour, HoursPerDay, DaysPerWeek,
  Calendar,    \* Calendar[y][m]: the days of month m of year y
  Horizon      \* bound of the walk, MAX_ITERS

ASSUME CronAssumption ==
  /\ {MinutesPerHour, HoursPerDay, DaysPerWeek} \subseteq Nat \ {0} /\ Horizon \in Nat
  /\ Calendar \in Seq(Seq(Nat)) /\ Len(Calendar) > 0
  /\ \A y \in DOMAIN Calendar : Len(Calendar[y]) = Len(Calendar[1])

Never == -1

-----------------------------------------------------------------------------
(* Wall clocks.                                                             *)

MonthsPerYear == Len(Calendar[1])
DaysInMonth(y, m) == Calendar[y][m]
LongestMonth == Max({DaysInMonth(y, m) : y \in DOMAIN Calendar, m \in 1..MonthsPerYear})

WallClocks ==
  {w \in [y : DOMAIN Calendar, m : 1..MonthsPerYear, d : 1..LongestMonth,
          h : 0..HoursPerDay - 1, mi : 0..MinutesPerHour - 1] :
     w.d <= DaysInMonth(w.y, w.m)}

\* Date.UTC of a date, in days, and of a wall clock, in minutes.
DayNumber(y, m, d) ==
  LET Months == (DOMAIN Calendar) \X (1..MonthsPerYear)
      Past == {p \in Months : p[1] < y \/ (p[1] = y /\ p[2] < m)}
  IN d - 1 + MapThenSumSet(LAMBDA p : DaysInMonth(p[1], p[2]), Past)

Utc(w) == (DayNumber(w.y, w.m, w.d) * HoursPerDay + w.h) * MinutesPerHour + w.mi

\* Day 0 of the calendar is a Sunday.
DowOf(w) == DayNumber(w.y, w.m, w.d) % DaysPerWeek

LastMinute == Max({Utc(w) : w \in WallClocks})
WallAt == [n \in 0..LastMinute |-> CHOOSE w \in WallClocks : Utc(w) = n]

Offset(zone, t) == IF t < zone.shift THEN zone.before ELSE zone.after
WallOf(t, zone) == WallAt[t + Offset(zone, t)]

AddMinute(w) ==
  CASE w.mi + 1 < MinutesPerHour        -> [w EXCEPT !.mi = @ + 1]
    [] w.h + 1 < HoursPerDay            -> [w EXCEPT !.mi = 0, !.h = @ + 1]
    [] w.d + 1 <= DaysInMonth(w.y, w.m) -> [w EXCEPT !.mi = 0, !.h = 0, !.d = @ + 1]
    [] w.m + 1 <= MonthsPerYear         -> [w EXCEPT !.mi = 0, !.h = 0, !.d = 1, !.m = @ + 1]
    [] OTHER -> [w EXCEPT !.mi = 0, !.h = 0, !.d = 1, !.m = 1, !.y = @ + 1]

-----------------------------------------------------------------------------
(* Expressions.  A field is the wildcard, Star, or a set of parts; a part  *)
(* is [range, step], its range a sequence of no number (written "*"), one  *)
(* or two, its step 0 when there is no slash.                              *)

Star == {}
FieldNames == {"minute", "hour", "dom", "month", "dow"}

Least(f) == IF f \in {"dom", "month"} THEN 1 ELSE 0
Greatest(f) ==
  CASE f = "minute" -> MinutesPerHour - 1
    [] f = "hour"   -> HoursPerDay - 1
    [] f = "dom"    -> LongestMonth
    [] f = "month"  -> MonthsPerYear
    [] f = "dow"    -> DaysPerWeek - 1

\* The day after the last of the week is the first: 7 is Sunday.
SundayIs0(f, v) == IF f = "dow" /\ v = DaysPerWeek THEN 0 ELSE v

Low(f, part) == IF part.range = <<>> THEN Least(f) ELSE SundayIs0(f, part.range[1])
High(f, part) ==
  CASE Len(part.range) = 2 -> SundayIs0(f, part.range[2])
    [] Len(part.range) = 1 /\ part.step = 0 -> Low(f, part)
    [] OTHER -> Greatest(f)

PartIsValid(f, part) ==
  Least(f) <= Low(f, part) /\ Low(f, part) <= High(f, part) /\ High(f, part) <= Greatest(f)

ParsePart(f, part) ==
  {v \in Low(f, part)..High(f, part) : part.step = 0 \/ (v - Low(f, part)) % part.step = 0}

ParseField(f, parts) ==
  [wildcard |-> parts = Star,
   values   |-> IF parts = Star THEN Least(f)..Greatest(f)
                ELSE UNION {ParsePart(f, part) : part \in parts}]

\* validateSchedule refuses any other expression when the job is created.
IsValid(expr) == \A f \in FieldNames : \A part \in expr[f] : PartIsValid(f, part)
ParseCron(expr) == [f \in FieldNames |-> ParseField(f, expr[f])]

\* Of two restricted day fields either will do, otherwise both must hold.
Matches(w, cron) ==
  LET DomMatch == w.d \in cron.dom.values
      DowMatch == DowOf(w) \in cron.dow.values
  IN /\ w.m \in cron.month.values
     /\ w.mi \in cron.minute.values
     /\ w.h \in cron.hour.values
     /\ IF cron.dom.wildcard \/ cron.dow.wildcard THEN DomMatch /\ DowMatch
                                                  ELSE DomMatch \/ DowMatch

-----------------------------------------------------------------------------
(* Occurrences.                                                             *)

\* The instants within two hours of the wall time less the offset probed there.
InstantsForWallClock(w, zone) ==
  LET Centre == Utc(w) - (Utc(WallOf(Utc(w), zone)) - Utc(w))
      Window == 2 * MinutesPerHour
  IN {t \in Centre - Window..Centre + Window : WallOf(t, zone) = w}

NextOccurrence(cron, zone, after) ==
  LET Later(w) == {t \in InstantsForWallClock(w, zone) : t > after}
      walk[i \in 0..Horizon, w \in WallClocks] ==
        IF i = Horizon THEN Never
        ELSE IF Matches(w, cron) /\ Later(w) # {} THEN Min(Later(w))
        ELSE walk[i + 1, AddMinute(w)]
  IN walk[0, WallOf(after, zone)]

EnumerateOccurrences(cron, zone, from, until) ==
  LET Next(t) == NextOccurrence(cron, zone, t)
      since[t \in from..until] ==
        IF Next(t) = Never \/ Next(t) > until THEN {} ELSE {Next(t)} \cup since[Next(t)]
  IN since[from]

(* What the documentation promises: every instant whose wall time matches.  *)
InstantsOf(cron, zone, from, until) ==
  {t \in from + 1..until : Matches(WallOf(t, zone), cron)}
=============================================================================
