-------------------------- MODULE DeliverySchedule --------------------------
(***************************************************************************)
(* When a notification may be sent: quiet hours and allowed weekdays on    *)
(* the wall clock of a time zone, whose clock may jump forward or back.    *)
(*                                                                         *)
(* Instants and wall-clock times count the same unit (the code's minute);  *)
(* a zone has one transition, at which its offset changes.  The machine    *)
(* asks one question, chosen initially, and answers it.                    *)
(***************************************************************************)
EXTENDS Integers, FiniteSets, FiniteSetsExt

CONSTANTS DayLength,   \* units of a day
          Week,        \* days of a week
          Moments,     \* instants at which a delivery is claimed
          Zones,       \* [at, before, after]: offsets before and from an instant
          QuietHours,  \* [from, to], or NoQuiet
          NoQuiet, None,
          WeekdaySets  \* the sets of allowed weekdays

\* A week has seven days in the code; no zone has ever moved its clock by more than a day.
ASSUME DeliveryScheduleAssumption ==
  /\ {DayLength, Week} \subseteq Nat \ {0} /\ Week <= 7 /\ Moments \subseteq Int
  /\ \A zone \in Zones :
       /\ {zone.at, zone.before, zone.after} \subseteq Int
       /\ zone.after - zone.before \in (-DayLength)..DayLength
  /\ NoQuiet \in QuietHours
  /\ \A quiet \in QuietHours \ {NoQuiet} :
       quiet.from # quiet.to /\ {quiet.from, quiet.to} \subseteq 0..(DayLength - 1)
  /\ {} \notin WeekdaySets /\ \A weekdays \in WeekdaySets : weekdays \subseteq 0..(Week - 1)

VARIABLES question,   \* [at, zone, quiet, weekdays], or None
          answer      \* the moment it may be delivered, or None

Wall(t, zone) == t + (IF t < zone.at THEN zone.before ELSE zone.after)

Day(wall) == wall \div DayLength
Weekday(wall) == Day(wall) % Week
TimeOfDay(wall) == wall % DayLength

\* Mistakes that the mutation runs put in place of the definitions they are named for.
BoundariesOfQuiet(quiet) == IF quiet = NoQuiet THEN {0} ELSE {quiet.to}

\* Quiet hours that end before they start last over midnight.
InQuietHours(time, quiet) ==
  /\ quiet # NoQuiet
  /\ IF quiet.from < quiet.to
     THEN quiet.from <= time /\ time < quiet.to
     ELSE quiet.from <= time \/ time < quiet.to

AllowedLocal(wall, quiet, weekdays) ==
  /\ Weekday(wall) \in weekdays
  /\ ~InQuietHours(TimeOfDay(wall), quiet)

Allowed(t, zone, quiet, weekdays) == AllowedLocal(Wall(t, zone), quiet, weekdays)

\* The instants that show a wall-clock time: none in a gap, two in a fold.
Instants(wall, zone) ==
  {t \in {wall - zone.before, wall - zone.after} : Wall(t, zone) = wall}

\* The first wall-clock time from this one on that exists.
ResolvedAtOrAfter(wall, zone) ==
  Instants(Min({w \in wall..(wall + 3 * DayLength) : Instants(w, zone) # {}}), zone)

Boundaries(quiet) == {0} \cup (IF quiet = NoQuiet THEN {} ELSE {quiet.to})

Candidates(t, zone, quiet, weekdays) ==
  LET today == Day(Wall(t, zone)) IN
  {c \in UNION {ResolvedAtOrAfter((today + offset) * DayLength + boundary, zone) :
                  offset \in 0..14, boundary \in Boundaries(quiet)} :
     c >= t /\ Allowed(c, zone, quiet, weekdays)}

\* -1 stands for NotificationScheduleError: no reachable delivery time.
NextDeliveryAt(t, zone, quiet, weekdays) ==
  LET later == Candidates(t, zone, quiet, weekdays) IN
  IF Allowed(t, zone, quiet, weekdays) THEN t
  ELSE IF later = {} THEN -1
  ELSE Min(later)

----------------------------------------------------------------------------
Questions ==
  [at : Moments, zone : Zones, quiet : QuietHours, weekdays : WeekdaySets]

Asks == question \in Questions /\ answer = None

Answers ==
  /\ question # None /\ answer = None
  /\ answer' = NextDeliveryAt(question.at, question.zone, question.quiet, question.weekdays)
  /\ UNCHANGED question

ScheduleSpec == Asks /\ [][Answers]_<<question, answer>>

----------------------------------------------------------------------------
\* The part of an hour that the clock shows for the second time.
Repeated(t, zone) == t \in zone.at..(zone.at + zone.before - zone.after - 1)

\* A message that must wait goes out at the first allowed moment, over midnight,
\* closed weekdays and jumps of the clock, and there is always one; only time that
\* a clock set back repeats may be passed over.
WaitsNoLongerThanNeeded ==
  answer # None =>
    LET Open(t) == Allowed(t, question.zone, question.quiet, question.weekdays) IN
    /\ answer >= question.at /\ Open(answer)
    /\ \A t \in question.at..(answer - 1) : Open(t) => Repeated(t, question.zone)
=============================================================================
