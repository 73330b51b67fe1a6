------------------------------ MODULE SlaClock ------------------------------
(***************************************************************************)
(* When a ticket is due (services.py): minutes are added along a weekly    *)
(* calendar.                                                               *)
(*                                                                         *)
(* Time is a number of minutes, in days of DayLength minutes.  Time zones  *)
(* and holidays are left out.                                              *)
(***************************************************************************)
EXTENDS Integers, FiniteSets

CONSTANTS
  DayLength,  \* minutes of a day
  Week,       \* days of a week
  DayLimit    \* days that are looked at before the code gives up (3700)

ASSUME SlaAssumption == DayLength \in Nat \ {0} /\ Week \in Nat \ {0} /\ DayLimit \in Nat

\* A calendar: always open, or open on days of the week from open to close.
Calendar == [always : BOOLEAN, days : SUBSET (0 .. Week - 1), open : 0 .. DayLength, close : 0 .. DayLength]

DayOf(time) == time \div DayLength
WorkingDay(cal, day) == day % Week \in cal.days
At(day, minute) == day * DayLength + minute

GivesUp == -1

\* A day of the calendar: the minutes that remain end in it, or go on the day after.
Pass(s, cal) ==
  LET day == DayOf(s.at)
      from == IF s.at < At(day, cal.open) THEN At(day, cal.open) ELSE s.at
      available == IF WorkingDay(cal, day) /\ from < At(day, cal.close) THEN At(day, cal.close) - from ELSE 0
  IN  CASE s.due # GivesUp -> s
        [] s.due = GivesUp /\ 0 < available /\ s.remaining <= available -> [s EXCEPT !.due = from + s.remaining]
        [] OTHER -> [s EXCEPT !.at = At(day + 1, 0), !.remaining = @ - available]

\* A calendar that closes no later than it opens gives up; validate_incident_settings asks
\* for days and hours, and does not compare the hours.
AddOperationalMinutes(start, minutes, cal) ==
  LET passes[n \in Nat] ==
        IF n = 0 THEN [at |-> start, remaining |-> minutes, due |-> GivesUp] ELSE Pass(passes[n - 1], cal)
  IN  IF cal.always THEN start + minutes ELSE passes[DayLimit].due

\* The reference: the open minutes from start to end.
OpenMinutes(start, end, cal) ==
  Cardinality({m \in start .. end - 1 :
                 cal.always \/ (WorkingDay(cal, DayOf(m)) /\ m % DayLength \in cal.open .. cal.close - 1)})
=============================================================================
