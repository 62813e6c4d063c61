---------------------------- MODULE SenderLimits ----------------------------
(***************************************************************************)
(* What stands between a claimed mail and the SMTP server: the daily,      *)
(* hourly and minute limits of one sender, its cooldown after errors, the  *)
(* send slot and the cap per recipient domain.  Each run of the worker     *)
(* checks before it sends and counts after it has sent, in Postgres and    *)
(* Redis, while other runs do the same.                                    *)
(***************************************************************************)
EXTENDS Integers, FiniteSets, Sequences

CONSTANTS
  Runs,           \* concurrent runs of processEmailJob that use the sender
  ProviderLimits, \* [minute, hour, day]: the provider profile
  UserLimits,     \* [hour, day]: what the user allows the sender
  CampaignHour,   \* the hourly limit of the campaign, 0 for none
  WarmupLimits,   \* daily limits of the warmup, a sequence; empty for none
  DomainCap,      \* mails per hour to the domain of the recipients
  CooldownLimit,  \* CONSECUTIVE_ERROR_LIMIT
  QuarantineLimit, \* QUARANTINE_ERROR_LIMIT
  MaxAttempted,   \* bound on the mails the runs take up
  MaxTurns,       \* bound on the ends of a minute
  MaxSlips        \* bound on the sends that outlast their slot

LimitsAssumption ==
  /\ IsFiniteSet(Runs) /\ Runs # {}
  /\ ProviderLimits \in [minute : Nat \ {0}, hour : Nat \ {0}, day : Nat \ {0}]
  /\ UserLimits \in [hour : Nat, day : Nat]
  /\ CampaignHour \in Nat
  /\ WarmupLimits \in Seq(Nat)
  /\ DomainCap \in Nat \ {0}
  /\ CooldownLimit \in Nat \ {0} /\ QuarantineLimit \in Nat
  /\ CooldownLimit < QuarantineLimit
  /\ MaxAttempted \in Nat /\ MaxTurns \in Nat /\ MaxSlips \in Nat

ASSUME LimitsAssumption

VARIABLES
  at,         \* at[w]: the step of run w
  noted,      \* noted[w]: the count or the error record run w has read
  sentRows,   \* SENT rows of the current day
  failedRows, \* FAILED rows of the current hour
  dayCount,   \* Redis sender:<id>:daily_count:<day>, or NoCount
  minuteCount, \* RateLimitCounter of the current minute
  hourCount,  \* and summed over the current hour
  errors,     \* SenderCooldown: [count, cooling, quarantined]
  slot,       \* Redis sender:<id>:send_gap
  domainCount, \* Redis domain_rate:<id>:<domain>:<hour>
  day,        \* days since the warmup began
  turns, attempted, slips, \* counters of the bounds
  accepted,   \* history: mails of the current day that the server took
  lost        \* history: increments of dayCount that a cache fill overwrote

windowVars == <<minuteCount, hourCount, failedRows>>
dayVars == <<sentRows, dayCount, accepted, lost>>
clockVars == <<day, turns>>
limitsVars == <<at, noted, windowVars, dayVars, errors, slot, domainCount, clockVars,
                attempted, slips>>

RunSteps == {"idle", "capacity", "fillCapacity", "throttle", "daily", "fillDaily", "slot",
             "domain", "domainCount", "sending", "persist", "record", "increment", "reset",
             "recordError", "readErrors", "writeErrors"}

\* Runs between the acquisition of the send slot and holdSenderCooldown.
Inside == {w \in Runs : at[w] \in {"domain", "domainCount", "sending"}}

NoCount == -1
NoErrors == [count |-> 0, cooling |-> FALSE, quarantined |-> FALSE]
Unnoted == [count |-> 0, day |-> 0, since |-> 0, errors |-> NoErrors]

LimitsTypeOK ==
  /\ at \in [Runs -> RunSteps]
  /\ \A w \in Runs : /\ noted[w].count \in Nat /\ noted[w].day \in Nat /\ noted[w].since \in Nat
                     /\ noted[w].errors.count \in Nat
  /\ sentRows \in Nat /\ failedRows \in Nat
  /\ dayCount \in Nat \cup {NoCount}
  /\ minuteCount \in Nat /\ hourCount \in Nat
  /\ errors \in [count : Nat, cooling : BOOLEAN, quarantined : BOOLEAN]
  /\ slot \in {"free", "sending", "cooldown"}
  /\ domainCount \in Nat
  /\ day \in Nat /\ turns \in 0..MaxTurns
  /\ attempted \in 0..MaxAttempted /\ slips \in 0..MaxSlips
  /\ accepted \in Nat /\ lost \in Nat

LimitsInit ==
  /\ at = [w \in Runs |-> "idle"]
  /\ noted = [w \in Runs |-> Unnoted]
  /\ sentRows = 0 /\ failedRows = 0 /\ dayCount = NoCount
  /\ minuteCount = 0 /\ hourCount = 0
  /\ errors = NoErrors
  /\ slot = "free" /\ domainCount = 0
  /\ day = 0 /\ turns = 0 /\ attempted = 0 /\ slips = 0
  /\ accepted = 0 /\ lost = 0

(***************************************************************************)
(* getEffectiveLimits: the least of provider, user and warmup limit,       *)
(* halved, but not below one, while too many mails fail.                   *)
(***************************************************************************)
Least(a, b) == IF a < b THEN a ELSE b
AtLeastOne(limit) == IF limit < 1 THEN 1 ELSE limit

\* errorRate > ERROR_RATE_THRESHOLD
Failing == 10 * failedRows > failedRows + sentRows

Adapted(limit) == AtLeastOne(IF Failing THEN limit \div 2 ELSE limit)

InWarmup == day < Len(WarmupLimits)

PerMinute == Adapted(ProviderLimits.minute)
PerHour ==
  LET limit == Adapted(Least(ProviderLimits.hour, UserLimits.hour))
  IN IF CampaignHour > 0 THEN Least(limit, CampaignHour) ELSE limit
PerDay ==
  LET limit == Least(ProviderLimits.day, UserLimits.day)
  IN Adapted(IF InWarmup THEN Least(limit, WarmupLimits[day + 1]) ELSE limit)

(***************************************************************************)
(* The gates of processEmailJob.                                           *)
(***************************************************************************)
MoveOn(w, step) == at' = [at EXCEPT ![w] = step]

TakeMail(w) ==
  /\ at[w] = "idle"
  /\ attempted < MaxAttempted
  /\ attempted' = attempted + 1
  /\ MoveOn(w, "capacity")
  /\ UNCHANGED <<noted, windowVars, dayVars, errors, slot, domainCount, clockVars, slips>>

\* A mail that may not be sent now goes back to the queue.
Judge(w, count, next) == MoveOn(w, IF count < PerDay THEN next ELSE "idle")

\* getSentCountToday: the cached count, or else the rows are counted ...
ReadDayCount(w, here, fill, next) ==
  /\ at[w] = here
  /\ IF dayCount # NoCount
     THEN Judge(w, dayCount, next) /\ UNCHANGED noted
     ELSE /\ MoveOn(w, fill)
          /\ noted' = [noted EXCEPT ![w].count = sentRows, ![w].day = day, ![w].since = 0]
  /\ UNCHANGED <<windowVars, dayVars, errors, slot, domainCount, clockVars, attempted, slips>>

\* ... and the result is stored under the key of that day, over whatever it holds by then.
\* noted.since is the number of increments since the rows were counted.
FillDayCount(w, here, next) ==
  /\ at[w] = here
  /\ IF noted[w].day = day
     THEN dayCount' = noted[w].count /\ lost' = lost + noted[w].since
     ELSE UNCHANGED <<dayCount, lost>>
  /\ Judge(w, noted[w].count, next)
  /\ noted' = [noted EXCEPT ![w] = Unnoted]
  /\ UNCHANGED <<windowVars, sentRows, accepted, errors, slot, domainCount, clockVars,
                 attempted, slips>>

\* canSend: cooldown, minute and hour; the day follows.  A quarantined sender is not in
\* cooldown (getAdaptiveState).
Throttle(w) ==
  /\ at[w] = "throttle"
  /\ MoveOn(w, IF \/ errors.cooling /\ ~errors.quarantined
                  \/ minuteCount >= PerMinute
                  \/ hourCount >= PerHour
               THEN "idle" ELSE "daily")
  /\ UNCHANGED <<noted, windowVars, dayVars, errors, slot, domainCount, clockVars, attempted,
                 slips>>

\* Wrong variant: the slot is set without NX.
TakeSlotAlways(w) ==
  /\ at[w] = "slot"
  /\ slot' = "sending"
  /\ MoveOn(w, "domain")
  /\ UNCHANGED <<noted, windowVars, dayVars, errors, domainCount, clockVars, attempted, slips>>

\* acquireSenderSendSlot
TakeSlot(w) ==
  /\ at[w] = "slot"
  /\ slot = "free"
  /\ slot' = "sending"
  /\ MoveOn(w, "domain")
  /\ UNCHANGED <<noted, windowVars, dayVars, errors, domainCount, clockVars, attempted, slips>>

\* Sixty attempts were in vain.
GiveUpSlot(w) ==
  /\ at[w] = "slot"
  /\ slot # "free"
  /\ MoveOn(w, "idle")
  /\ UNCHANGED <<noted, windowVars, dayVars, errors, slot, domainCount, clockVars, attempted,
                 slips>>

\* checkDomainRateCap: the count is read ...
ReadDomain(w) ==
  /\ at[w] = "domain"
  /\ IF domainCount >= DomainCap
     THEN MoveOn(w, "idle") /\ slot' = "cooldown"
     ELSE MoveOn(w, "domainCount") /\ UNCHANGED slot
  /\ UNCHANGED <<noted, windowVars, dayVars, errors, domainCount, clockVars, attempted, slips>>

\* ... and incremented.
CountDomain(w) ==
  /\ at[w] = "domainCount"
  /\ domainCount' = domainCount + 1
  /\ MoveOn(w, "sending")
  /\ UNCHANGED <<noted, windowVars, dayVars, errors, slot, clockVars, attempted, slips>>

\* sendMail resolves; holdSenderCooldown writes the slot without looking at it.
SendMail(w) ==
  /\ at[w] = "sending"
  /\ accepted' = accepted + 1
  /\ slot' = "cooldown"
  /\ MoveOn(w, "persist")
  /\ UNCHANGED <<noted, windowVars, sentRows, dayCount, lost, errors, domainCount, clockVars,
                 attempted, slips>>

\* sendMail rejects.
SendFails(w) ==
  /\ at[w] = "sending"
  /\ slot' = "cooldown"
  /\ MoveOn(w, "recordError")
  /\ UNCHANGED <<noted, windowVars, dayVars, errors, domainCount, clockVars, attempted, slips>>

\* The row is SENT.
PersistSent(w) ==
  /\ at[w] = "persist"
  /\ sentRows' = sentRows + 1
  /\ MoveOn(w, "record")
  /\ UNCHANGED <<noted, windowVars, dayCount, accepted, lost, errors, slot, domainCount,
                 clockVars, attempted, slips>>

(***************************************************************************)
(* recordSendResult                                                        *)
(***************************************************************************)
CountWindow(w) ==
  /\ at[w] \in {"record", "recordError"}
  /\ minuteCount' = minuteCount + 1
  /\ hourCount' = hourCount + 1
  /\ MoveOn(w, IF at[w] = "record" THEN "increment" ELSE "readErrors")
  /\ UNCHANGED <<noted, failedRows, dayVars, errors, slot, domainCount, clockVars, attempted,
                 slips>>

\* Runs that have counted the rows and will overwrite the increment.
Filling == {w \in Runs : at[w] \in {"fillCapacity", "fillDaily"}}

\* redis.incr; a missing key becomes 1.
IncrementDay(w) ==
  /\ at[w] = "increment"
  /\ dayCount' = IF dayCount = NoCount THEN 1 ELSE dayCount + 1
  /\ noted' = [v \in Runs |-> IF v \in Filling THEN [noted[v] EXCEPT !.since = @ + 1]
                              ELSE noted[v]]
  /\ MoveOn(w, "reset")
  /\ UNCHANGED <<windowVars, sentRows, accepted, lost, errors, slot, domainCount, clockVars,
                 attempted, slips>>

\* resetConsecutiveErrors
ResetErrors(w) ==
  /\ at[w] = "reset"
  /\ errors' = [errors EXCEPT !.count = 0, !.cooling = FALSE]
  /\ MoveOn(w, "idle")
  /\ UNCHANGED <<noted, windowVars, dayVars, slot, domainCount, clockVars, attempted, slips>>

\* recordConsecutiveError reads the record ...
ReadErrors(w) ==
  /\ at[w] = "readErrors"
  /\ noted' = [noted EXCEPT ![w].errors = errors]
  /\ MoveOn(w, "writeErrors")
  /\ UNCHANGED <<windowVars, dayVars, errors, slot, domainCount, clockVars, attempted, slips>>

\* The record after one more error.
AfterError(e) ==
  LET n == e.count + 1
      quarantine == n >= QuarantineLimit /\ ~e.quarantined
  IN [count |-> n,
      cooling |-> e.cooling \/ (~quarantine /\ n >= CooldownLimit),
      quarantined |-> e.quarantined \/ quarantine]

\* ... and writes all of it back; then the row is FAILED.
WriteErrors(w) ==
  /\ at[w] = "writeErrors"
  /\ errors' = AfterError(noted[w].errors)
  /\ noted' = [noted EXCEPT ![w] = Unnoted]
  /\ failedRows' = failedRows + 1
  /\ MoveOn(w, "idle")
  /\ UNCHANGED <<minuteCount, hourCount, dayVars, slot, domainCount, clockVars, attempted,
                 slips>>

(***************************************************************************)
(* Time.                                                                   *)
(***************************************************************************)
\* A minute ends, and perhaps the hour and the day with it.
TimePasses(hour, midnight) ==
  /\ turns < MaxTurns
  /\ turns' = turns + 1
  /\ midnight => hour
  /\ minuteCount' = 0
  /\ IF hour THEN hourCount' = 0 /\ failedRows' = 0 /\ domainCount' = 0
     ELSE UNCHANGED <<hourCount, failedRows, domainCount>>
  /\ IF midnight
     THEN /\ day' = day + 1 /\ sentRows' = 0 /\ dayCount' = NoCount
          /\ accepted' = 0 /\ lost' = 0
     ELSE UNCHANGED <<day, dayVars>>
  /\ UNCHANGED <<at, noted, errors, slot, attempted, slips>>

\* cooldownUntil is over.
CooldownEnds ==
  /\ errors.cooling
  /\ errors' = [errors EXCEPT !.cooling = FALSE]
  /\ UNCHANGED <<at, noted, windowVars, dayVars, slot, domainCount, clockVars, attempted, slips>>

\* The few seconds between two mails are over.
GapEnds ==
  /\ slot = "cooldown"
  /\ slot' = "free"
  /\ UNCHANGED <<at, noted, windowVars, dayVars, errors, domainCount, clockVars, attempted,
                 slips>>

\* SEND_SLOT_TTL_MS passes while the mail is still being sent.
SlotExpires ==
  /\ slot = "sending"
  /\ slips < MaxSlips
  /\ slips' = slips + 1
  /\ slot' = "free"
  /\ UNCHANGED <<at, noted, windowVars, dayVars, errors, domainCount, clockVars, attempted>>

Time ==
  \/ \E hour, midnight \in BOOLEAN : TimePasses(hour, midnight)
  \/ CooldownEnds \/ GapEnds \/ SlotExpires

Gates(w) ==
  \/ TakeMail(w)
  \/ ReadDayCount(w, "capacity", "fillCapacity", "throttle")
  \/ FillDayCount(w, "fillCapacity", "throttle")
  \/ Throttle(w)
  \/ ReadDayCount(w, "daily", "fillDaily", "slot")
  \/ FillDayCount(w, "fillDaily", "slot")
  \/ TakeSlot(w) \/ GiveUpSlot(w) \/ ReadDomain(w) \/ CountDomain(w)

Sending(w) ==
  \/ SendMail(w) \/ SendFails(w) \/ PersistSent(w) \/ CountWindow(w) \/ IncrementDay(w)
  \/ ResetErrors(w) \/ ReadErrors(w) \/ WriteErrors(w)

LimitsNext == (\E w \in Runs : Gates(w) \/ Sending(w)) \/ Time

LimitsSpec == LimitsInit /\ [][LimitsNext]_limitsVars

(***************************************************************************)
(* Properties.                                                             *)
(***************************************************************************)
\* The mails of a day exceed the limit by at most one for each other run, which has
\* checked before the mail was counted, and one for each increment that a run filling the
\* cache has overwritten; the counters of the minute and the hour exceed theirs by at most
\* one for each other run, although a run may be checked in one window and counted in the
\* next (dailyLimitTracker.ts:22-46, throttleEngine.ts:147-177, 219-237).  A sender whose
\* limit the user has set to 0 still sends one mail (throttleEngine.ts:102-105).
LimitsNearlyKept ==
  /\ accepted <= AtLeastOne(Least(ProviderLimits.day, UserLimits.day)) + Cardinality(Runs) - 1
                 + lost
  /\ minuteCount <= ProviderLimits.minute + Cardinality(Runs) - 1
  /\ hourCount <= ProviderLimits.hour + Cardinality(Runs) - 1

\* Mails of one sender go out one at a time, but for one more each time that a mail outlasts
\* its slot: a run that leaves overwrites the slot of another, so the overlap stays, but it
\* does not grow (emailWorker.ts:166-185).
SlotOverlap == Cardinality(Inside) <= 1 + slips

\* The cap per domain is read and incremented inside the slot, so it is exceeded only when
\* slots overlap (throttleEngine.ts:379-391, emailWorker.ts:811-845).
DomainCapKept == domainCount <= DomainCap + slips

\* Both at once: the slot keeps the mails of a sender apart, and so their counts.
SlotSound == SlotOverlap /\ DomainCapKept
=============================================================================
