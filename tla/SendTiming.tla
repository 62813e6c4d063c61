------------------------------- MODULE SendTiming -------------------------------
(***************************************************************************)
(* When mails are sent: the start a user picks, the hours of business that *)
(* make the worker put a mail off, the days and the hour of a sequence,    *)
(* and the business days between two mails of it.  Time is counted in      *)
(* hours of UTC, the zone of the servers; a zone is ahead of it by some    *)
(* hours, without summer time.                                             *)
(***************************************************************************)
EXTENDS Integers, FiniteSets

CONSTANTS
  Receivers,
  HoursPerDay, DaysPerWeek, WorkDays,  \* 24, 7, Monday to Friday
  Zones,                               \* hours ahead of UTC
  Windows,                             \* hours of business: [start, end], NoHour for null
  DefaultWindow,                       \* from 8 to 18
  Schedules,                           \* [hour, days, skipWeekends] of a sequence, NoHour for any hour
  MaxWait,                             \* business days between two mails
  MaxGap,                              \* hours by which mails of one campaign are spread
  MaxDeferrals,                        \* bound: how often a mail is put off
  Horizon                              \* bound: the last hour

NoHour == -1
DayHours == 0 .. HoursPerDay - 1
Week == 0 .. DaysPerWeek - 1

TimingAssumption ==
  /\ HoursPerDay \in Nat \ {0} /\ DaysPerWeek \in Nat \ {0} /\ WorkDays \subseteq Week /\ WorkDays # {}
  /\ Zones \subseteq (-HoursPerDay .. HoursPerDay)
  /\ Windows \cup {DefaultWindow} \subseteq [start : DayHours \cup {NoHour}, end : DayHours \cup {NoHour}]
  /\ Schedules \subseteq [hour : DayHours \cup {NoHour}, days : SUBSET Week, skipWeekends : BOOLEAN]
  /\ {MaxWait, MaxGap, MaxDeferrals, Horizon} \subseteq Nat

ASSUME TimingAssumption

VARIABLES
  now,          \* the hour
  modal,        \* compose page: [open, temp], temp = NoTime: not filled in
  chosenStart,  \* compose page: the start, NoTime: at once
  campaign,     \* [zone, window, schedule]
  timed         \* timed[r]: [step, due, planned, sentAt, putOff, at, late]

timingVars == <<now, modal, chosenStart, campaign, timed>>

NoTime == -1
Latest == Horizon + MaxGap + (MaxWait + 4) * DaysPerWeek * HoursPerDay
SendTimes == (0 .. Latest) \cup {NoTime}

\* putOff: how often the mail was put off, at: when last, late: it was taken after it was due
NotYet == [step |-> "none", due |-> 0, planned |-> 0, sentAt |-> 0, putOff |-> 0, at |-> NoTime, late |-> FALSE]

Closed == [open |-> FALSE, temp |-> NoTime]

NoSchedule == [hour |-> NoHour, days |-> {}, skipWeekends |-> FALSE]
Unmade == [zone |-> 0, window |-> DefaultWindow, schedule |-> NoSchedule]

TimingTypeOK ==
  /\ now \in 0..Horizon /\ modal \in [open : BOOLEAN, temp : SendTimes] /\ chosenStart \in SendTimes
  /\ campaign \in [zone : Zones \cup {0}, window : Windows \cup {DefaultWindow},
                   schedule : Schedules \cup {NoSchedule}]
  /\ timed \in [Receivers -> [step : {"none", "first", "between", "followUp", "done"}, due : SendTimes,
                              planned : SendTimes, sentAt : SendTimes, putOff : 0..MaxDeferrals,
                              at : SendTimes, late : BOOLEAN]]

TimingInit ==
  /\ now = 0 /\ modal = Closed /\ chosenStart = NoTime /\ campaign = Unmade
  /\ timed = [r \in Receivers |-> NotYet]

Tick == now < Horizon /\ now' = now + 1 /\ UNCHANGED <<modal, chosenStart, campaign, timed>>

-----------------------------------------------------------------------------
(* Hours and days.                                                         *)

\* Counted from a week earlier, so that what is divided is never negative.
Local(t, zone) == t + zone + HoursPerDay * DaysPerWeek

getHourInTimezone(t, zone) == Local(t, zone) % HoursPerDay
getDayOfWeekInTimezone(t, zone) == (Local(t, zone) \div HoursPerDay) % DaysPerWeek

Restricted(w) == w.start # NoHour \/ w.end # NoHour
StartOf(w) == IF w.start = NoHour THEN 0 ELSE w.start
EndOf(w) == IF w.end = NoHour THEN HoursPerDay - 1 ELSE w.end

\* Hours that pass midnight are never open.
Open(t, zone, w) ==
  Restricted(w) => getHourInTimezone(t, zone) >= StartOf(w) /\ getHourInTimezone(t, zone) < EndOf(w)

Midnight(t) == t - (t % HoursPerDay)

\* Wrong variant: after the end the same day is tried again.
OpensToday(t, zone, w) == Midnight(t) + StartOf(w) + zone

\* The start is set in UTC, and the zone is added to it (the local start is
\* reached zone hours earlier, not later).
OpensAt(t, zone, w) ==
  Midnight(t) + StartOf(w) + zone + (IF getHourInTimezone(t, zone) < StartOf(w) THEN 0 ELSE HoursPerDay)

Later(s, t) == IF s > t THEN s ELSE t

getDelayUntilBusinessHours(t, zone, w) ==
  IF Open(t, zone, w) THEN 0 ELSE Later(0, OpensAt(t, zone, w) - t)

getAllowedDays(s) == IF s.days # {} THEN s.days ELSE IF s.skipWeekends THEN WorkDays ELSE Week

Allowed(t, zone, s) ==
  /\ getDayOfWeekInTimezone(t, zone) \in getAllowedDays(s)
  /\ s.hour = NoHour \/ getHourInTimezone(t, zone) = s.hour

FirstOf(ts) == CHOOSE t \in ts : \A u \in ts : t <= u

\* The first hour allowed within two weeks, or the hour itself.
computeNextSendTime(base, zone, s) ==
  LET fit == {t \in base .. base + 2 * DaysPerWeek * HoursPerDay - 1 : Allowed(t, zone, s)} IN
  IF fit = {} THEN base ELSE FirstOf(fit)

WorkDay(t) == getDayOfWeekInTimezone(t, 0) \in WorkDays

addBusinessDays(t, n) ==
  t + HoursPerDay * FirstOf({d \in 0 .. n * DaysPerWeek :
                               Cardinality({i \in 1..d : WorkDay(t + i * HoursPerDay)}) = n})

-----------------------------------------------------------------------------
(* The compose page.                                                       *)

Composing == \A r \in Receivers : timed[r].step = "none"
PageRest == <<now, campaign, timed>>

openSchedule ==
  /\ Composing /\ ~modal.open /\ modal' = [open |-> TRUE, temp |-> chosenStart]
  /\ UNCHANGED <<chosenStart, now, campaign, timed>>

\* The page offers today and later days.
onTempChange(t) ==
  /\ modal.open /\ t >= Midnight(now) /\ modal' = [modal EXCEPT !.temp = t]
  /\ UNCHANGED <<chosenStart, now, campaign, timed>>

\* A time that has passed meanwhile is refused.
confirmSchedule ==
  /\ modal.open /\ modal.temp > now
  /\ chosenStart' = modal.temp /\ modal' = Closed
  /\ UNCHANGED <<now, campaign, timed>>

quickPick(days, hour) ==
  /\ modal.open /\ days > 0
  /\ chosenStart' = Midnight(now) + days * HoursPerDay + hour /\ modal' = Closed
  /\ UNCHANGED <<now, campaign, timed>>

clearSchedule == chosenStart # NoTime /\ chosenStart' = NoTime /\ modal' = Closed /\ UNCHANGED PageRest

closeSchedule == modal.open /\ modal' = Closed /\ UNCHANGED chosenStart /\ UNCHANGED PageRest

\* Of the page: UTC and the default hours.  Of the tools: any zone and hours.
MadeBy(page) ==
  [zone : IF page THEN {0} ELSE Zones, window : IF page THEN {DefaultWindow} ELSE Windows \cup {DefaultWindow},
   schedule : Schedules]

createCampaign(page) ==
  /\ Composing /\ ~modal.open /\ (~page => chosenStart = NoTime) /\ campaign' \in MadeBy(page)
  /\ \E gap \in [Receivers -> 0..MaxGap] :
       timed' = [r \in Receivers |->
                  LET start == (IF chosenStart = NoTime THEN now ELSE chosenStart) + gap[r] IN
                  [NotYet EXCEPT !.step = "first", !.due = Later(now, start), !.planned = start]]
  /\ chosenStart' = NoTime /\ UNCHANGED <<now, modal>>

-----------------------------------------------------------------------------
(* The worker and the sequence scheduler.                                  *)

Due(r) == timed[r].step \in {"first", "followUp"} /\ timed[r].due <= now
TakenLate(r) == timed[r].late \/ timed[r].due < now

Defer(r) ==
  /\ Due(r) /\ ~Open(now, campaign.zone, campaign.window) /\ timed[r].putOff < MaxDeferrals
  /\ timed' = [timed EXCEPT ![r] =
       [timed[r] EXCEPT !.due = now + getDelayUntilBusinessHours(now, campaign.zone, campaign.window),
                        !.putOff = @ + 1, !.at = now, !.late = TakenLate(r)]]
  /\ UNCHANGED <<now, modal, chosenStart, campaign>>

Send(r) ==
  /\ Due(r) /\ Open(now, campaign.zone, campaign.window)
  /\ timed' = [timed EXCEPT ![r] =
       [timed[r] EXCEPT !.step = IF @ = "first" THEN "between" ELSE "done",
                        !.sentAt = now, !.late = TakenLate(r)]]
  /\ UNCHANGED <<now, modal, chosenStart, campaign>>

ScheduleFollowUp(r) ==
  /\ timed[r].step = "between"
  /\ \E wait \in 0..MaxWait, gap \in 0..MaxGap :
       /\ addBusinessDays(timed[r].sentAt, wait) <= now
       /\ LET at == computeNextSendTime(now + gap, campaign.zone, campaign.schedule) IN
          timed' = [timed EXCEPT ![r] = [NotYet EXCEPT !.step = "followUp", !.due = at, !.planned = at]]
  /\ UNCHANGED <<now, modal, chosenStart, campaign>>

TimingNext ==
  \/ Tick \/ openSchedule \/ confirmSchedule \/ clearSchedule \/ closeSchedule
  \/ \E t \in 0..Horizon : onTempChange(t)
  \/ \E days \in 1..DaysPerWeek, hour \in DayHours : quickPick(days, hour)
  \/ \E page \in BOOLEAN : createCampaign(page)
  \/ \E r \in Receivers : Defer(r) \/ Send(r) \/ ScheduleFollowUp(r)

TimingSpec == TimingInit /\ [][TimingNext]_timingVars

-----------------------------------------------------------------------------
InUtc == campaign.zone = 0 /\ StartOf(campaign.window) < EndOf(campaign.window)

\* In UTC, with hours that open, a mail that is put off comes due at the next opening,
\* and a second time it is put off only if it was taken after it was due.  (In other
\* zones it comes due when the hours are closed, and over and over again.)
PutOffToOpening ==
  InUtc => \A r \in Receivers : timed[r].putOff > 0 =>
    /\ Open(timed[r].due, 0, campaign.window)
    /\ \A t \in timed[r].at .. timed[r].due - 1 : ~Open(t, 0, campaign.window)
    /\ timed[r].putOff > 1 => timed[r].late

\* A follow-up goes out at a day or an hour its sequence does not allow only when the
\* worker put it off or was late with it.
OffScheduleOnlyWhenPutOff ==
  \A r \in Receivers : timed[r].step = "done" =>
    timed[r].putOff > 0 \/ timed[r].late \/ Allowed(timed[r].sentAt, campaign.zone, campaign.schedule)

\* A mail never leaves before the time that was picked or planned for it.
NeverEarly == \A r \in Receivers : timed[r].step \in {"between", "done"} => timed[r].sentAt >= timed[r].planned

TimesAreKept == PutOffToOpening /\ OffScheduleOnlyWhenPutOff /\ NeverEarly
=============================================================================
