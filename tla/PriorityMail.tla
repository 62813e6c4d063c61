---------------------------- MODULE PriorityMail ----------------------------
(***************************************************************************)
(* Priority mail: a queue and a worker of its own, with a daily quota per  *)
(* user, a cap per domain and its own retries, around the same             *)
(* processEmailJob and on the same rows as the ordinary worker.            *)
(***************************************************************************)
EXTENDS Integers, FiniteSets

CONSTANTS
  Letters,         \* priority mails of one user to one domain
  PriorityRuns,    \* concurrent runs of processPriorityJob
  NoLetter,
  DailyQuota,      \* PriorityUserQuota.dailyLimit
  HourlyCap,       \* maxPerHour of the domain
  MaxRetries,      \* MAX_PRIORITY_RETRIES
  MaxWaiting,      \* bound on the queue entries of one mail
  MaxHours,        \* bound on the hours and days that pass
  MaxFailures      \* bound on crashes and sweeps of a live row

PriorityAssumption ==
  /\ IsFiniteSet(Letters) /\ IsFiniteSet(PriorityRuns) /\ PriorityRuns # {}
  /\ NoLetter \notin Letters
  /\ DailyQuota \in Nat \ {0} /\ HourlyCap \in Nat \ {0} /\ MaxRetries \in Nat
  /\ MaxWaiting \in Nat \ {0} /\ MaxHours \in Nat /\ MaxFailures \in Nat

ASSUME PriorityAssumption

VARIABLES
  mail,       \* EmailJob.status
  ordinary,   \* where the mail is in the ordinary pipeline: "none", "queued", "sending"
  row,        \* PriorityQueueJob: [status, retryCount]
  waiting,    \* entries in the priority queue
  doing,      \* doing[w]: the step of run w
  letter,     \* its mail
  tried,      \* and the retryCount it has read
  quota,      \* PriorityUserQuota: [used, over]; over: dailyResetAt is past
  domain,     \* DomainRateLimit: [used, over]; over: windowStart is past
  warming,    \* the sender is in its warmup
  hours, failures, \* counters of the bounds
  letters,    \* history: copies[m], mails the server took
  takeovers   \* history: claims of a row that was SENDING

priorityRunVars == <<doing, letter, tried>>
limitRowVars == <<quota, domain>>
letterVars == <<mail, ordinary>>
historyVars == <<letters, takeovers>>
priorityBounds == <<warming, hours, failures>>
priorityVars == <<letterVars, row, waiting, priorityRunVars, limitRowVars, priorityBounds,
                  historyVars>>

PrioritySteps == {"idle", "quota", "resetQuota", "domain", "resetDomain", "warmup", "refuse",
  "refuseForGood", "timing", "hold", "failMail", "claim", "smtp", "persist", "verify",
  "countQuota", "countDomain", "succeed", "catch"}

PriorityTypeOK ==
  /\ mail \in [Letters -> {"PENDING", "SENDING", "SENT", "FAILED"}]
  /\ ordinary \in [Letters -> {"none", "queued", "sending"}]
  /\ row \in [Letters -> [status : {"PRIORITY_PENDING", "PRIORITY_SENDING", "SENT", "FAILED"},
                          retryCount : 0..MaxRetries]]
  /\ waiting \in [Letters -> 0..MaxWaiting]
  /\ doing \in [PriorityRuns -> PrioritySteps]
  /\ letter \in [PriorityRuns -> Letters \cup {NoLetter}]
  /\ tried \in [PriorityRuns -> 0..MaxRetries]
  /\ quota \in [used : Nat, over : BOOLEAN] /\ domain \in [used : Nat, over : BOOLEAN]
  /\ warming \in BOOLEAN /\ hours \in 0..MaxHours /\ failures \in 0..MaxFailures
  /\ letters \in [Letters -> Nat] /\ takeovers \in [Letters -> Nat]

\* create.ts has committed the rows and put one entry per mail into the queue.
PriorityInit ==
  /\ mail = [m \in Letters |-> "PENDING"]
  /\ ordinary = [m \in Letters |-> "none"]
  /\ row = [m \in Letters |-> [status |-> "PRIORITY_PENDING", retryCount |-> 0]]
  /\ waiting = [m \in Letters |-> 1]
  /\ doing = [w \in PriorityRuns |-> "idle"]
  /\ letter = [w \in PriorityRuns |-> NoLetter]
  /\ tried = [w \in PriorityRuns |-> 0]
  /\ quota = [used |-> 0, over |-> FALSE] /\ domain = [used |-> 0, over |-> FALSE]
  /\ warming \in BOOLEAN /\ hours = 0 /\ failures = 0
  /\ letters = [m \in Letters |-> 0] /\ takeovers = [m \in Letters |-> 0]

(***************************************************************************)
(* processPriorityJob                                                      *)
(***************************************************************************)
Step(w, from, to) == doing[w] = from /\ doing' = [doing EXCEPT ![w] = to]

SetRow(m, s) == row' = [row EXCEPT ![m].status = s]

\* The run ends and with it its queue entry.
Finish(w, from) ==
  /\ Step(w, from, "idle")
  /\ letter' = [letter EXCEPT ![w] = NoLetter]
  /\ tried' = [tried EXCEPT ![w] = 0]

\* priorityQueue.add; two entries of a mail may be too many for the bound.
Requeue(m) == waiting' = [waiting EXCEPT ![m] = IF @ < MaxWaiting THEN @ + 1 ELSE @]

\* The record is read and, whatever it says, becomes PRIORITY_SENDING.
StartPriority(w, m) ==
  /\ Step(w, "idle", "quota")
  /\ waiting[m] > 0
  /\ waiting' = [waiting EXCEPT ![m] = @ - 1]
  /\ letter' = [letter EXCEPT ![w] = m]
  /\ tried' = [tried EXCEPT ![w] = row[m].retryCount]
  /\ SetRow(m, "PRIORITY_SENDING")
  /\ UNCHANGED <<letterVars, limitRowVars, priorityBounds, historyVars>>

QuotaExceeded == quota.used >= DailyQuota

\* checkUserPriorityQuota
CheckQuota(w) ==
  /\ Step(w, "quota", IF quota.over THEN "resetQuota"
                      ELSE IF QuotaExceeded THEN "refuse" ELSE "domain")
  /\ UNCHANGED <<letterVars, row, waiting, letter, tried, limitRowVars, priorityBounds,
                 historyVars>>

\* A reset that comes after another one wipes out what was counted in between.
ResetQuota(w) ==
  /\ Step(w, "resetQuota", "domain")
  /\ quota' = [used |-> 0, over |-> FALSE]
  /\ UNCHANGED <<letterVars, row, waiting, letter, tried, domain, priorityBounds, historyVars>>

\* checkDomainLimit
CheckDomain(w) ==
  /\ Step(w, "domain", IF domain.over THEN "resetDomain"
                       ELSE IF domain.used >= HourlyCap THEN "refuse" ELSE "warmup")
  /\ UNCHANGED <<letterVars, row, waiting, letter, tried, limitRowVars, priorityBounds,
                 historyVars>>

ResetDomain(w) ==
  /\ Step(w, "resetDomain", "warmup")
  /\ domain' = [used |-> 0, over |-> FALSE]
  /\ UNCHANGED <<letterVars, row, waiting, letter, tried, quota, priorityBounds, historyVars>>

\* checkWarmupRequirement: its refusal names no time to try again.
CheckWarmup(w) ==
  /\ Step(w, "warmup", IF warming THEN "refuseForGood" ELSE "timing")
  /\ UNCHANGED <<letterVars, row, waiting, letter, tried, limitRowVars, priorityBounds,
                 historyVars>>

Refuse(w) ==
  /\ Finish(w, "refuse")
  /\ SetRow(letter[w], "PRIORITY_PENDING")
  /\ Requeue(letter[w])
  /\ UNCHANGED <<letterVars, limitRowVars, priorityBounds, historyVars>>

RefuseForGood(w) ==
  /\ Finish(w, "refuseForGood")
  /\ SetRow(letter[w], "PRIORITY_PENDING")
  /\ UNCHANGED <<letterVars, waiting, limitRowVars, priorityBounds, historyVars>>

\* evaluateTiming on the latency of the recipient's servers.
DecideTiming(w) ==
  /\ \E decision \in {"claim", "hold"} : Step(w, "timing", decision)
  /\ SetRow(letter[w], "PRIORITY_SENDING")
  /\ UNCHANGED <<letterVars, waiting, letter, tried, limitRowVars, priorityBounds, historyVars>>

\* shouldRetry of the retry after those the run has read.
MayRetry(w) == tried[w] + 1 < MaxRetries

\* Wrong variant: the retry is noted but not queued.
NoteRetry(w, from) ==
  /\ MayRetry(w)
  /\ Finish(w, from)
  /\ row' = [row EXCEPT ![letter[w]].retryCount = tried[w] + 1]
  /\ UNCHANGED <<letterVars, waiting, limitRowVars, priorityBounds, historyVars>>

\* The row keeps its status; the count is the one the run has read, plus one.
Retry(w, from) ==
  /\ MayRetry(w)
  /\ Finish(w, from)
  /\ row' = [row EXCEPT ![letter[w]].retryCount = tried[w] + 1]
  /\ Requeue(letter[w])
  /\ UNCHANGED <<letterVars, limitRowVars, priorityBounds, historyVars>>

\* Held too often: first the priority row fails, then the mail, whatever it is by then.
GiveUpHolding(w) ==
  /\ Step(w, "hold", "failMail")
  /\ ~MayRetry(w)
  /\ SetRow(letter[w], "FAILED")
  /\ UNCHANGED <<letterVars, waiting, letter, tried, limitRowVars, priorityBounds, historyVars>>

FailMail(w) ==
  /\ Finish(w, "failMail")
  /\ mail' = [mail EXCEPT ![letter[w]] = "FAILED"]
  /\ UNCHANGED <<ordinary, row, waiting, limitRowVars, priorityBounds, historyVars>>

\* The catch block when no retry is left: the mail is not touched.
GiveUpAfterError(w) ==
  /\ Finish(w, "catch")
  /\ ~MayRetry(w)
  /\ SetRow(letter[w], "FAILED")
  /\ UNCHANGED <<letterVars, waiting, limitRowVars, priorityBounds, historyVars>>

(***************************************************************************)
(* processEmailJob, called with attemptsMade = tried.                      *)
(***************************************************************************)
\* The claim lock: a later attempt also takes a row that is SENDING.
MayClaim(m, attempts) == mail[m] = "PENDING" \/ (mail[m] = "SENDING" /\ attempts > 0)

ClaimLetter(w) ==
  LET m == letter[w]
  IN /\ doing[w] = "claim"
     /\ IF MayClaim(m, tried[w])
        THEN /\ Step(w, "claim", "smtp")
             /\ mail' = [mail EXCEPT ![m] = "SENDING"]
             /\ takeovers' = [takeovers EXCEPT ![m] = IF mail[m] = "SENDING" THEN @ + 1 ELSE @]
        ELSE Step(w, "claim", "verify") /\ UNCHANGED <<mail, takeovers>>
     /\ UNCHANGED <<ordinary, row, waiting, letter, tried, limitRowVars, priorityBounds, letters>>

SmtpAccepts(w) ==
  /\ Step(w, "smtp", "persist")
  /\ letters' = [letters EXCEPT ![letter[w]] = @ + 1]
  /\ UNCHANGED <<letterVars, row, waiting, letter, tried, limitRowVars, priorityBounds, takeovers>>

\* A gate or a bounce settles the mail, a limit puts it back and into the ordinary queue,
\* or the run throws.
SmtpRefuses(w) ==
  LET m == letter[w]
  IN /\ \/ Step(w, "smtp", "verify") /\ mail' = [mail EXCEPT ![m] = "FAILED"] /\ UNCHANGED ordinary
        \/ /\ Step(w, "smtp", "verify")
           /\ mail' = [mail EXCEPT ![m] = "PENDING"]
           /\ ordinary' = [ordinary EXCEPT ![m] = IF @ = "none" THEN "queued" ELSE @]
        \/ Step(w, "smtp", "catch") /\ UNCHANGED letterVars
     /\ UNCHANGED <<row, waiting, letter, tried, limitRowVars, priorityBounds, historyVars>>

PersistLetter(w) ==
  /\ Step(w, "persist", "verify")
  /\ mail' = [mail EXCEPT ![letter[w]] = "SENT"]
  /\ UNCHANGED <<ordinary, row, waiting, letter, tried, limitRowVars, priorityBounds, historyVars>>

\* The outcome is read from the row.
Verify(w) ==
  /\ doing[w] = "verify"
  /\ \/ mail[letter[w]] = "SENT" /\ Step(w, "verify", "countQuota") /\ UNCHANGED <<letter, tried, row>>
     \/ mail[letter[w]] = "FAILED" /\ Finish(w, "verify") /\ SetRow(letter[w], "FAILED")
     \/ /\ mail[letter[w]] \in {"PENDING", "SENDING"}
        /\ Step(w, "verify", "catch") /\ UNCHANGED <<letter, tried, row>>
  /\ UNCHANGED <<letterVars, waiting, limitRowVars, priorityBounds, historyVars>>

\* incrementPriorityQuota
CountQuota(w) ==
  /\ Step(w, "countQuota", "countDomain")
  /\ quota' = [quota EXCEPT !.used = @ + 1]
  /\ UNCHANGED <<letterVars, row, waiting, letter, tried, domain, priorityBounds, historyVars>>

\* incrementDomainRate moves the window on and keeps the count of the old one.
CountDomainRate(w) ==
  /\ Step(w, "countDomain", "succeed")
  /\ domain' = [used |-> domain.used + 1, over |-> FALSE]
  /\ UNCHANGED <<letterVars, row, waiting, letter, tried, quota, priorityBounds, historyVars>>

Succeed(w) ==
  /\ Finish(w, "succeed")
  /\ SetRow(letter[w], "SENT")
  /\ UNCHANGED <<letterVars, waiting, limitRowVars, priorityBounds, historyVars>>

PriorityStep(w) ==
  \/ CheckQuota(w) \/ ResetQuota(w) \/ CheckDomain(w) \/ ResetDomain(w) \/ CheckWarmup(w)
  \/ Refuse(w) \/ RefuseForGood(w) \/ DecideTiming(w)
  \/ Retry(w, "hold") \/ GiveUpHolding(w) \/ FailMail(w)
  \/ ClaimLetter(w) \/ SmtpAccepts(w) \/ SmtpRefuses(w) \/ PersistLetter(w) \/ Verify(w)
  \/ CountQuota(w) \/ CountDomainRate(w) \/ Succeed(w)
  \/ Retry(w, "catch") \/ GiveUpAfterError(w)

(***************************************************************************)
(* The ordinary worker on the same row, seen from here (EmailDelivery).    *)
(***************************************************************************)
OrdinaryClaim(m) ==
  /\ ordinary[m] = "queued"
  /\ IF mail[m] = "PENDING"
     THEN mail' = [mail EXCEPT ![m] = "SENDING"] /\ ordinary' = [ordinary EXCEPT ![m] = "sending"]
     ELSE UNCHANGED mail /\ ordinary' = [ordinary EXCEPT ![m] = "none"]
  /\ UNCHANGED <<row, waiting, priorityRunVars, limitRowVars, priorityBounds, historyVars>>

\* It sends the mail, fails it, or puts it back.
OrdinaryEnd(m) ==
  /\ ordinary[m] = "sending"
  /\ \/ /\ mail' = [mail EXCEPT ![m] = "SENT"] /\ letters' = [letters EXCEPT ![m] = @ + 1]
        /\ ordinary' = [ordinary EXCEPT ![m] = "none"]
     \/ /\ mail' = [mail EXCEPT ![m] = "FAILED"]
        /\ ordinary' = [ordinary EXCEPT ![m] = "none"] /\ UNCHANGED letters
     \/ /\ mail' = [mail EXCEPT ![m] = "PENDING"]
        /\ ordinary' = [ordinary EXCEPT ![m] = "queued"] /\ UNCHANGED letters
  /\ UNCHANGED <<row, waiting, priorityRunVars, limitRowVars, priorityBounds, takeovers>>

(***************************************************************************)
(* Time, sweeps, crashes.                                                  *)
(***************************************************************************)
HourPasses(midnight) ==
  /\ hours < MaxHours
  /\ hours' = hours + 1
  /\ domain' = [domain EXCEPT !.over = TRUE]
  /\ quota' = IF midnight THEN [quota EXCEPT !.over = TRUE] ELSE quota
  /\ UNCHANGED <<letterVars, row, waiting, priorityRunVars, warming, failures, historyVars>>

\* sweepStalePriorityJobs: a row PRIORITY_SENDING for five minutes, because it waits for a
\* retry or because its run is slow.
SweepPriority(m) ==
  /\ row[m].status = "PRIORITY_SENDING"
  /\ failures < MaxFailures
  /\ failures' = failures + 1
  /\ SetRow(m, "PRIORITY_PENDING")
  /\ Requeue(m)
  /\ UNCHANGED <<letterVars, priorityRunVars, limitRowVars, warming, hours, historyVars>>

\* sweepStaleSendingJobs: a row nobody sends any more goes to the ordinary worker.
SweepOrdinary(m) ==
  /\ mail[m] = "SENDING" /\ ordinary[m] # "sending"
  /\ \A w \in PriorityRuns : letter[w] = m => doing[w] \notin {"smtp", "persist"}
  /\ mail' = [mail EXCEPT ![m] = "PENDING"]
  /\ ordinary' = [ordinary EXCEPT ![m] = "queued"]
  /\ UNCHANGED <<row, waiting, priorityRunVars, limitRowVars, priorityBounds, historyVars>>

\* The process dies and starts again: a mail on record as accepted becomes SENT, every
\* other open one goes into the ordinary queue, every row that was PRIORITY_SENDING back
\* into the priority queue, where BullMQ also puts the entries of the dead runs.
CrashPriority ==
  LET Accepted == {letter[w] : w \in {v \in PriorityRuns : doing[v] = "persist"}}
      Dead(m) == {w \in PriorityRuns : letter[w] = m}
      Open(m) == mail[m] \in {"PENDING", "SENDING"} /\ m \notin Accepted
      Added(m) == Cardinality(Dead(m)) + (IF row[m].status = "PRIORITY_SENDING" THEN 1 ELSE 0)
  IN /\ failures < MaxFailures
     /\ failures' = failures + 1
     /\ mail' = [m \in Letters |-> IF m \in Accepted /\ mail[m] = "SENDING" THEN "SENT"
                                   ELSE IF Open(m) THEN "PENDING" ELSE mail[m]]
     /\ ordinary' = [m \in Letters |-> IF Open(m) THEN "queued" ELSE "none"]
     /\ row' = [m \in Letters |-> IF row[m].status = "PRIORITY_SENDING"
                                  THEN [row[m] EXCEPT !.status = "PRIORITY_PENDING"] ELSE row[m]]
     /\ waiting' = [m \in Letters |-> IF waiting[m] + Added(m) < MaxWaiting
                                      THEN waiting[m] + Added(m) ELSE MaxWaiting]
     /\ doing' = [w \in PriorityRuns |-> "idle"]
     /\ letter' = [w \in PriorityRuns |-> NoLetter]
     /\ tried' = [w \in PriorityRuns |-> 0]
     /\ UNCHANGED <<limitRowVars, warming, hours, historyVars>>

PriorityNext ==
  \/ \E w \in PriorityRuns : PriorityStep(w) \/ \E m \in Letters : StartPriority(w, m)
  \/ \E m \in Letters : OrdinaryClaim(m) \/ OrdinaryEnd(m) \/ SweepPriority(m) \/ SweepOrdinary(m)
  \/ \E midnight \in BOOLEAN : HourPasses(midnight)
  \/ CrashPriority

PrioritySpec == PriorityInit /\ [][PriorityNext]_priorityVars

(***************************************************************************)
(* Properties.                                                             *)
(***************************************************************************)
\* A mail goes out twice only if a later attempt has taken its row from somebody who was
\* still sending: the first attempt of a priority entry and the ordinary worker exclude
\* each other, whatever sweeps and restarts add to the queues
\* (priorityEmailWorker.ts:152-157, emailWorker.ts:365-386).
TwiceOnlyByTakeover == \A m \in Letters : letters[m] <= 1 + takeovers[m]

\* A priority row that is open has an entry in the queue or a run, unless the warmup of its
\* sender refused it: neither a retry nor a crash loses it (priorityEmailWorker.ts:75-137,
\* 190-235, index.ts:237-310).
OpenRowHasEntry ==
  \A m \in Letters :
    row[m].status \in {"PRIORITY_PENDING", "PRIORITY_SENDING"} /\ ~warming =>
      waiting[m] > 0 \/ \E w \in PriorityRuns : letter[w] = m
=============================================================================
