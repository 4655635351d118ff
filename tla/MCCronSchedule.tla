--------------------------- MODULE MCCronSchedule ---------------------------
(* A small calendar, zones and expressions for TLC, and cron.ts compared    *)
(* with what its header promises over them.                                 *)
EXTENDS CronSchedule

\* Two years of two months, the last month longer in the second.
TwoYears == <<<<3, 2>>, <<3, 3>>>>

\* Far from UTC: the clock goes back, goes forward, or stays, on the third day.
Backward == [shift |-> 68, before |-> -12, after |-> -16]
Forward  == [shift |-> 68, before |-> -16, after |-> -12]
Steady   == [shift |-> 68, before |-> -12, after |-> -12]
AllZones == {Backward, Forward, Steady}

Number(n)     == {[range |-> <<n>>, step |-> 0]}
FromTo(a, b)  == {[range |-> <<a, b>>, step |-> 0]}
Every(n)      == {[range |-> <<>>, step |-> n]}
At(m, h)      == [minute |-> m, hour |-> h, dom |-> Star, month |-> Star, dow |-> Star]

\* Once a day in the hour that is repeated or skipped; twice in it.
DailyAndHalfHourly == {At(Number(2), Number(1)), At(Every(2), Number(1))}

\* Every minute; both day fields restricted; one of them; a month.
OtherExprs ==
  {At(Star, Star),
   [At(Number(2), FromTo(0, 2)) EXCEPT !.dom = Number(3), !.dow = FromTo(1, 4)],
   [At(Number(0), Every(3)) EXCEPT !.dow = Number(7)],
   [At(Number(3), Number(1)) EXCEPT !.dom = Every(2), !.month = Number(2)]}

Spans == {<<a, b>> : a \in {40, 60, 65, 70}, b \in {75, 100}}

-----------------------------------------------------------------------------
(* addMinute carries into hours, days, months and years like Date.UTC.      *)
ASSUME AddMinuteIsNextUtcMinute ==
  \A n \in 0..LastMinute - 1 : AddMinute(WallAt[n]) = WallAt[n + 1]

(* Only instants whose wall time matches fire: none for a wall time that is *)
(* skipped.  An instant that matches and does not fire has a wall time that *)
(* occurs twice: the second one fires, or the first was before the walk.    *)
ASSUME OnlyRepeatedTimesAreLost ==
  \A expr \in {e \in DailyAndHalfHourly \cup OtherExprs : IsValid(e)}, zone \in AllZones, s \in Spans :
    LET cron  == ParseCron(expr)
        fired == EnumerateOccurrences(cron, zone, s[1], s[2])
        due   == InstantsOf(cron, zone, s[1], s[2])
    IN /\ fired \subseteq due
       /\ \A t \in due \ fired :
            \E u \in InstantsForWallClock(WallOf(t, zone), zone) \ {t} :
              u <= s[1] \/ (t < u /\ (u <= s[2] => u \in fired))
=============================================================================
