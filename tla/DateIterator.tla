---------------------------- MODULE DateIterator ----------------------------
(***************************************************************************)
(* DateIterator (dateiterator.go): from one date to another by a duration  *)
(* or by years, months and days.  A time is the number of days since       *)
(* 0001-01-01, whose time is the zero time; durations are whole days.      *)
(***************************************************************************)
EXTENDS Integers

CONSTANTS From, To,       \* the dates given to Start
          Durations,      \* arguments of SetStep
          DateSteps       \* arguments of SetDateStep, as <<y, m, d>>

ASSUME DatesAssumption ==
  /\ From \subseteq Int /\ To \subseteq Int /\ Durations \subseteq Int
  /\ DateSteps \subseteq Int \X Int \X Int

VARIABLES current, start, end,    \* di.current, di.start, di.end
          step, dateStep,         \* di.step; di.stepY, di.stepM, di.stepD
          going                   \* Next returned true

dateVars == <<current, start, end, step, dateStep, going>>

IsZero(t) == t = 0
NoSteps == <<0, 0, 0>>

-----------------------------------------------------------------------------
(* The calendar, as package time has it: months and days out of range are  *)
(* carried over (time.Date). *)
Leap(y) == y % 4 = 0 /\ (y % 100 # 0 \/ y % 400 = 0)
BeforeYear(y) == 365 * (y - 1) + ((y - 1) \div 4) - ((y - 1) \div 100) + ((y - 1) \div 400)
BeforeMonth(y, m) ==
  <<0, 31, 59, 90, 120, 151, 181, 212, 243, 273, 304, 334>>[m]
    + IF m > 2 /\ Leap(y) THEN 1 ELSE 0
Date(y, m, d) ==
  LET year == y + ((m - 1) \div 12)
      month == ((m - 1) % 12) + 1
  IN  BeforeYear(year) + BeforeMonth(year, month) + d - 1

MeanYear(t) == (400 * t) \div 146097     \* 400 years have 146097 days
Year(t) == CHOOSE y \in MeanYear(t) .. (MeanYear(t) + 2) :
             BeforeYear(y) <= t /\ t < BeforeYear(y + 1)
Month(t) == LET y == Year(t)
            IN  CHOOSE m \in 1..12 : /\ Date(y, m, 1) <= t
                                     /\ t < Date(y, m + 1, 1)
Day(t) == t - Date(Year(t), Month(t), 1) + 1

AddDate(t, s) == Date(Year(t) + s[1], Month(t) + s[2], Day(t) + s[3])

-----------------------------------------------------------------------------
DateInit ==
  /\ current = 0 /\ start = 0 /\ end = 0
  /\ step = 0 /\ dateStep = NoSteps
  /\ going = FALSE

Start(from, to) ==
  /\ current' = 0 /\ start' = from /\ end' = to
  /\ going' = TRUE
  /\ UNCHANGED <<step, dateStep>>

(* StartString sets one after the other, and returns at the first string   *)
(* it cannot parse.                                                        *)
StartString(from, to) ==
  /\ current' = 0
  /\ \/ UNCHANGED <<start, end>> /\ going' = FALSE
     \/ start' = from /\ UNCHANGED end /\ going' = FALSE
     \/ start' = from /\ end' = to /\ going' = TRUE
  /\ UNCHANGED <<step, dateStep>>

SetStep(d) == step' = d /\ UNCHANGED <<current, start, end, dateStep, going>>

SetDateStep(s) ==
  /\ dateStep' = s /\ step' = 0
  /\ UNCHANGED <<current, start, end, going>>

(* Mutation: the default step is chosen before a date step is looked at. *)
NextDateDefaultFirst ==
  /\ going
  /\ dateStep' = IF step = 0 THEN <<0, 0, 1>> ELSE dateStep
  /\ current' = IF IsZero(current) THEN start
                ELSE IF step = 0 THEN AddDate(current, dateStep') ELSE current + step
  /\ going' = (current' <= end)
  /\ UNCHANGED <<start, end, step>>

(* Next, while it returned true. *)
NextDate ==
  /\ going
  /\ IF IsZero(current)
     THEN /\ dateStep' = IF step = 0 /\ dateStep = NoSteps THEN <<0, 0, 1>> ELSE dateStep
          /\ current' = start
     ELSE /\ current' = IF step = 0 THEN AddDate(current, dateStep) ELSE current + step
          /\ UNCHANGED dateStep
  /\ going' = (current' <= end)
  /\ UNCHANGED <<start, end, step>>

DateNext ==
  \/ \E f \in From, t \in To : Start(f, t) \/ StartString(f, t)
  \/ \E d \in Durations : SetStep(d)
  \/ \E s \in DateSteps : SetDateStep(s)
  \/ NextDate

DateSpec == DateInit /\ [][DateNext]_dateVars

-----------------------------------------------------------------------------
Months(t) == 12 * Year(t) + Month(t)

(* An iteration by days or by months reaches every day or month once: Next *)
(* moves one further, unless it stands at the zero time, which it takes    *)
(* for not started, or goes by months from a day not every month has.      *)
NothingSkipped ==
  [][NextDate /\ current > 0 =>
       /\ step = 0 /\ dateStep = <<0, 0, 1>> => current' = current + 1
       /\ step = 0 /\ dateStep = <<0, 1, 0>> /\ Day(current) <= 28 =>
            /\ Months(current') = Months(current) + 1
            /\ Day(current') = Day(current)]_dateVars
=============================================================================
