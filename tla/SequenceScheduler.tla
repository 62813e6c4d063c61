-------------------------- MODULE SequenceScheduler --------------------------
(***************************************************************************)
(* The follow-up sequence of one campaign: the recurring scheduler tick    *)
(* (server/src/worker/sequenceScheduler.ts), what processEmailJob does to  *)
(* the recipient's sequence state (worker/emailWorker.ts), the reply and   *)
(* bounce detector (worker/replyDetector.ts), the recipient controls       *)
(* (controllers/sequenceControllers.ts) and the completion check           *)
(* (utils/campaignCompletion.ts).                                          *)
(*                                                                         *)
(* Step 0 is the campaign's own mail, 1 .. Last are the follow-ups.  A     *)
(* recipient has a row (RecipientSequenceState) whose array of step        *)
(* statuses is always read and written as a whole.  How a single mail is   *)
(* delivered is the subject of EmailDelivery: here a job is handed to one  *)
(* run, and a restarted process has recovered the jobs of the dead one.    *)
(***************************************************************************)
EXTENDS Naturals, FiniteSets

CONSTANTS
  Recipients,    \* recipients of the campaign
  NoOne,         \* no recipient
  Ticks,         \* executions of processSchedulerJob that can overlap
  Last,          \* number of the last follow-up
  OnMatch,       \* OnMatch[s]: onMatchStepNumber of step s, 0 for null
  OnNoMatch,     \* OnNoMatch[s]: onNoMatchStepNumber of step s, 0 for null
  Ruled,         \* steps with a rule (that the mail before was opened)
  Simple,        \* steps with a simple condition, or none, instead of an advanced one
  Cap,           \* frequencyCaps.maxPerRecipient, 0 for no cap
  Happenings,    \* what can happen (see HappeningClasses)
  MaxMade,       \* bound: jobs created for a recipient and step
  MaxCrashes     \* bound: crashes of the worker process

(***************************************************************************)
(* reply      the recipient answers a mail                                 *)
(* bounce     the SMTP server, or later another one, returns a mail        *)
(* toggle     the user marks a mail as replied to, or as not replied to    *)
(* reject     the worker fails a job for good before it sends it           *)
(* pause      the user pauses and resumes recipients                       *)
(* stop       the user stops recipients                                    *)
(* db         a database write or an enqueue fails                         *)
(* crash      the worker process dies and is started again                 *)
(***************************************************************************)
HappeningClasses == {"reply", "toggle", "bounce", "reject", "pause", "stop", "db", "crash"}

FollowUps == 1 .. Last
Steps == 0 .. Last

ASSUME SequenceAssumption ==
  /\ NoOne \notin Recipients
  /\ Last \in Nat \ {0}
  /\ OnMatch \in [FollowUps -> Steps] /\ OnNoMatch \in [FollowUps -> Steps]
  /\ Ruled \subseteq FollowUps /\ Simple \subseteq FollowUps
  /\ \A s \in Simple : OnMatch[s] = 0
  /\ \A s \in Simple : OnNoMatch[s] = IF s < Last THEN s + 1 ELSE 0
  /\ Cap \in Nat /\ MaxMade \in Nat /\ MaxCrashes \in Nat
  /\ Happenings \subseteq HappeningClasses

\* The branches of a sequence that the user has given as a list of steps
\* (legacyStepsToGraph, serialized by createCampaign).
LinearMatch == [s \in FollowUps |-> IF s < Last THEN s + 1 ELSE 0]
LinearNoMatch == [s \in FollowUps |-> 0]

VARIABLES
  campaign,      \* EmailCampaign.status
  cur,           \* cur[r]: currentStep
  st,            \* st[r]: stepStatuses
  paused, replied, completed,   \* recipients with the flag set
  job,           \* job[r][s]: EmailJob.status of the last job made for the step
  at,            \* at[r][s]: where that job is
  view,          \* view[r][s]: the array its run is about to write
  late,          \* late[r]: steps whose job is older than a REPLY event of r
  made,          \* made[r][s]: jobs made for the step
  opened,        \* opened[r]: steps whose mail has an OPEN event
  flagged,       \* flagged[r]: steps whose job has isReplied
  suppressed,    \* recipients with a bounce suppression
  answered,      \* recipients whose REPLY event is stored and row not yet updated
  returned,      \* recipients whose bounced job is FAILED and who are not yet suppressed
  tpc,           \* tpc[t]: step of a tick
  todo,          \* todo[t]: recipients it has read and not yet evaluated
  from,          \* from[t][r]: currentStep it has read
  plan,          \* plan[t][r]: the array it has read, then the one it will write
  next,          \* next[t][r]: the step to schedule, 0 for none
  done, skips,   \* done[t], skips[t]: recipients to complete, arrays to write
  item,          \* item[t]: recipient being scheduled
  sweep,         \* checkAndCompleteCampaign, called by sweeps and queries: its step
  stopping,      \* recipients whose stopRecipient has read the row
  halt,          \* halt[r]: the array that stopRecipient will write
  stopped,       \* recipients that were stopped (history)
  crashes        \* crashes so far

rowVars == <<cur, st, paused, replied, completed>>
jobVars == <<job, at, view, late, made>>
worldVars == <<opened, flagged, suppressed, answered, returned>>
tickVars == <<tpc, todo, from, plan, next, done, skips, item>>
userVars == <<stopping, halt, stopped>>
vars == <<campaign, rowVars, jobVars, worldVars, tickVars, sweep, userVars, crashes>>

StepStatus == {"PENDING", "SCHEDULED", "SENT", "SKIPPED", "FAILED"}
JobStatus == {"PENDING", "SENDING", "SENT", "FAILED", "CANCELLED"}
Open == {"PENDING", "SENDING"}
Entry == [status : StepStatus, linked : BOOLEAN]   \* linked: emailJobId is set
Array == [Steps -> Entry]

\* A job that does not exist has status "none" and is nowhere.
Places == {"none", "new", "queued", "gates", "reply", "smtp", "sent", "bounced", "write",
           "cancelled", "ended"}
TickSteps == {"idle", "evaluate", "schedule", "create", "write", "enqueue", "finish"}

Blank == [s \in Steps |-> [status |-> "PENDING", linked |-> FALSE]]

\* Wrong variant: the reply is not looked at.
RunningDespiteReply(r) == r \notin completed \cup paused

\* The rows the scheduler and the completion check look for.
Running(r) == r \notin completed \cup paused \cup replied

NoOpenJob == \A r \in Recipients, s \in Steps : job[r][s] \notin Open
NoneRunning == \A r \in Recipients : ~Running(r)

(***************************************************************************)
(* createCampaign has made the rows and enqueued the first mail of each.   *)
(***************************************************************************)
OnlyFirst(x, none) == [r \in Recipients |-> [s \in Steps |-> IF s = 0 THEN x ELSE none]]

Init ==
  /\ campaign = "SCHEDULED"
  /\ cur = [r \in Recipients |-> 0]
  /\ st = [r \in Recipients |-> Blank]
  /\ paused = {} /\ replied = {} /\ completed = {}
  /\ job = OnlyFirst("PENDING", "none")
  /\ at = OnlyFirst("queued", "none")
  /\ view = [r \in Recipients |-> [s \in Steps |-> Blank]]
  /\ late = [r \in Recipients |-> {}]
  /\ made = OnlyFirst(1, 0)
  /\ opened = [r \in Recipients |-> {}] /\ flagged = [r \in Recipients |-> {}]
  /\ suppressed = {} /\ answered = {} /\ returned = {}
  /\ tpc = [t \in Ticks |-> "idle"]
  /\ todo = [t \in Ticks |-> {}]
  /\ from = [t \in Ticks |-> [r \in Recipients |-> 0]]
  /\ plan = [t \in Ticks |-> [r \in Recipients |-> Blank]]
  /\ next = [t \in Ticks |-> [r \in Recipients |-> 0]]
  /\ done = [t \in Ticks |-> {}] /\ skips = [t \in Ticks |-> {}]
  /\ item = [t \in Ticks |-> NoOne]
  /\ sweep = "idle"
  /\ stopping = {} /\ stopped = {}
  /\ halt = [r \in Recipients |-> Blank]
  /\ crashes = 0

(***************************************************************************)
(* What a tick decides about one recipient, from the row it has read: its  *)
(* step c, its array a, and the steps of the recipient whose mail was      *)
(* opened.                                                                 *)
(***************************************************************************)
Decision(complete, skip, to, a) == [complete |-> complete, skip |-> skip, to |-> to, array |-> a]

Nothing(a) == Decision(FALSE, FALSE, 0, a)
Finished(a) == Decision(TRUE, FALSE, 0, a)

\* Wrong variant: one follow-up too many.
CappedLate(a) == Cap > 0 /\ Cardinality({s \in FollowUps : a[s].status = "SENT"}) > Cap

\* isCapExceeded: as many follow-ups are SENT as the cap allows.
Capped(a) == Cap > 0 /\ Cardinality({s \in FollowUps : a[s].status = "SENT"}) >= Cap

\* The rule of follow-up n, asked about the mail of step c: without an emailJobId
\* in the array it is not met.
Met(n, c, a, open) == n \in Ruled => a[c].linked /\ c \in open

\* The step that follow-up n leads to; Last + 1 ends the sequence.
Target(n, met) ==
  IF met THEN IF OnMatch[n] # 0 THEN OnMatch[n] ELSE n
  ELSE IF OnNoMatch[n] # 0 THEN OnNoMatch[n] ELSE Last + 1

\* Wrong variant: the end of the sequence is one step too late.
AfterSentTooFar(c, a, open) ==
  LET n == c + 1
      to == Target(n, Met(n, c, a, open))
  IN IF Capped(a) \/ c = Last THEN Finished(a) ELSE Decision(FALSE, to # n, to, a)

\* The current step is SENT: complete, or choose the next step.  An advanced step
\* whose rule is not met becomes SKIPPED if the sequence branches.
AfterSent(c, a, open) ==
  LET n == c + 1
      met == Met(n, c, a, open)
      to == Target(n, met)
      skipped == [a EXCEPT ![n].status = "SKIPPED"]
  IN IF Capped(a) \/ c = Last THEN Finished(a)
     ELSE IF to > Last THEN Decision(TRUE, TRUE, 0, a)
     ELSE IF to = n THEN Decision(FALSE, FALSE, to, a)
     ELSE Decision(FALSE, TRUE, to, IF met \/ n \in Simple THEN a ELSE skipped)

\* The current step is SKIPPED: the step after it becomes PENDING, in the array only.
AfterSkipped(c, a) ==
  IF c = Last THEN Finished(a)
  ELSE Decision(FALSE, TRUE, 0, [a EXCEPT ![c + 1].status = "PENDING"])

\* due: waitDays have passed since the mail was sent.
Evaluation(c, a, open, due) ==
  CASE a[c].status = "SKIPPED" -> AfterSkipped(c, a)
    [] a[c].status = "SENT" /\ (due \/ Capped(a) \/ c = Last) -> AfterSent(c, a, open)
    [] OTHER -> Nothing(a)

(***************************************************************************)
(* The tick: processSchedulerJob.                                          *)
(***************************************************************************)
Goto(t, step) == tpc' = [tpc EXCEPT ![t] = step]

\* The rows of recipients that are not completed, paused or replied.
TickRead(t) ==
  /\ tpc[t] = "idle"
  /\ campaign \in {"SCHEDULED", "SENDING"}
  /\ LET due == {r \in Recipients : Running(r)}
     IN /\ todo' = [todo EXCEPT ![t] = due]
        /\ from' = [from EXCEPT ![t] = [r \in Recipients |-> IF r \in due THEN cur[r] ELSE 0]]
        /\ plan' = [plan EXCEPT ![t] = [r \in Recipients |-> IF r \in due THEN st[r] ELSE Blank]]
  /\ Goto(t, "evaluate")
  /\ UNCHANGED <<campaign, rowVars, jobVars, worldVars, next, done, skips, item, sweep,
                 userVars, crashes>>

TickEvaluate(t, r, due) ==
  /\ tpc[t] = "evaluate"
  /\ r \in todo[t]
  /\ LET e == Evaluation(from[t][r], plan[t][r], opened[r], due)
     IN /\ plan' = [plan EXCEPT ![t][r] = e.array]
        /\ next' = [next EXCEPT ![t][r] = e.to]
        /\ done' = IF e.complete THEN [done EXCEPT ![t] = @ \cup {r}] ELSE done
        /\ skips' = IF e.skip THEN [skips EXCEPT ![t] = @ \cup {r}] ELSE skips
  /\ todo' = [todo EXCEPT ![t] = @ \ {r}]
  /\ UNCHANGED <<campaign, rowVars, jobVars, worldVars, tpc, from, item, sweep, userVars,
                 crashes>>

\* One update marks the finished recipients.
TickMarkCompleted(t) ==
  /\ tpc[t] = "evaluate"
  /\ todo[t] = {}
  /\ completed' = completed \cup done[t]
  /\ done' = [done EXCEPT ![t] = {}]
  /\ Goto(t, "schedule")
  /\ UNCHANGED <<campaign, cur, st, paused, replied, jobVars, worldVars, todo, from, plan,
                 next, skips, item, sweep, userVars, crashes>>

\* The changed arrays are written one by one, whatever the rows hold now.
TickWriteSkip(t, r) ==
  /\ tpc[t] = "schedule"
  /\ r \in skips[t]
  /\ st' = [st EXCEPT ![r] = plan[t][r]]
  /\ skips' = [skips EXCEPT ![t] = @ \ {r}]
  /\ UNCHANGED <<campaign, cur, paused, replied, completed, jobVars, worldVars, tpc, todo,
                 from, plan, next, done, item, sweep, userVars, crashes>>

\* Wrong variant: the claim does not look at currentStep.
TickClaimBlindly(t, r) ==
  /\ tpc[t] = "schedule"
  /\ skips[t] = {}
  /\ next[t][r] # 0
  /\ cur' = [cur EXCEPT ![r] = next[t][r]]
  /\ item' = [item EXCEPT ![t] = r]
  /\ Goto(t, "create")
  /\ UNCHANGED <<campaign, st, paused, replied, completed, jobVars, worldVars, todo, from,
                 plan, next, done, skips, sweep, userVars, crashes>>

\* The atomic claim: currentStep moves on only if it is still the one read.
TickClaim(t, r) ==
  /\ tpc[t] = "schedule"
  /\ skips[t] = {}
  /\ next[t][r] # 0
  /\ IF cur[r] = from[t][r]
     THEN /\ cur' = [cur EXCEPT ![r] = next[t][r]]
          /\ item' = [item EXCEPT ![t] = r]
          /\ Goto(t, "create")
          /\ UNCHANGED next
     ELSE /\ next' = [next EXCEPT ![t][r] = 0]
          /\ UNCHANGED <<cur, item, tpc>>
  /\ UNCHANGED <<campaign, st, paused, replied, completed, jobVars, worldVars, todo, from,
                 plan, done, skips, sweep, userVars, crashes>>

\* prisma.emailJob.create
TickCreate(t) ==
  /\ tpc[t] = "create"
  /\ LET r == item[t] s == next[t][r]
     IN /\ made[r][s] < MaxMade
        /\ made' = [made EXCEPT ![r][s] = @ + 1]
        /\ job' = [job EXCEPT ![r][s] = "PENDING"]
        /\ at' = [at EXCEPT ![r][s] = "new"]
        /\ late' = [late EXCEPT ![r] = @ \ {s}]
  /\ Goto(t, "write")
  /\ UNCHANGED <<campaign, rowVars, view, worldVars, todo, from, plan, next, done, skips,
                 item, sweep, userVars, crashes>>

\* The array of the tick's first read, with the step SCHEDULED, is written.
TickWrite(t) ==
  /\ tpc[t] = "write"
  /\ LET r == item[t]
     IN st' = [st EXCEPT ![r] = [plan[t][r] EXCEPT ![next[t][r]] =
                                   [status |-> "SCHEDULED", linked |-> TRUE]]]
  /\ Goto(t, "enqueue")
  /\ UNCHANGED <<campaign, cur, paused, replied, completed, jobVars, worldVars, todo, from,
                 plan, next, done, skips, item, sweep, userVars, crashes>>

\* A job that was created and is in the queue already stays where it is.
Queued(r, s) == IF at[r][s] = "new" THEN [at EXCEPT ![r][s] = "queued"] ELSE at

TickEnqueue(t) ==
  /\ tpc[t] = "enqueue"
  /\ at' = Queued(item[t], next[t][item[t]])
  /\ next' = [next EXCEPT ![t][item[t]] = 0]
  /\ item' = [item EXCEPT ![t] = NoOne]
  /\ Goto(t, "schedule")
  /\ UNCHANGED <<campaign, rowVars, job, view, late, made, worldVars, todo, from, plan, done,
                 skips, sweep, userVars, crashes>>

\* A tick forgets what it has read when it ends.
Forget(t) ==
  /\ todo' = [todo EXCEPT ![t] = {}]
  /\ from' = [from EXCEPT ![t] = [r \in Recipients |-> 0]]
  /\ plan' = [plan EXCEPT ![t] = [r \in Recipients |-> Blank]]
  /\ next' = [next EXCEPT ![t] = [r \in Recipients |-> 0]]
  /\ done' = [done EXCEPT ![t] = {}]
  /\ skips' = [skips EXCEPT ![t] = {}]
  /\ item' = [item EXCEPT ![t] = NoOne]

\* The two counts of the completion check, side by side.
TickCount(t) ==
  /\ tpc[t] = "schedule"
  /\ skips[t] = {}
  /\ \A r \in Recipients : next[t][r] = 0
  /\ Goto(t, IF NoneRunning /\ NoOpenJob THEN "finish" ELSE "idle")
  /\ Forget(t)
  /\ UNCHANGED <<campaign, rowVars, jobVars, worldVars, sweep, userVars, crashes>>

TickFinish(t) ==
  /\ tpc[t] = "finish"
  /\ campaign' = IF campaign = "SENDING" THEN "COMPLETED" ELSE campaign
  /\ Goto(t, "idle")
  /\ UNCHANGED <<rowVars, jobVars, worldVars, todo, from, plan, next, done, skips, item,
                 sweep, userVars, crashes>>

\* A rejected await outside the evaluation ends the tick.
TickAbort(t) ==
  /\ "db" \in Happenings
  /\ tpc[t] \notin {"idle", "evaluate"}
  /\ Goto(t, "idle")
  /\ Forget(t)
  /\ UNCHANGED <<campaign, rowVars, jobVars, worldVars, sweep, userVars, crashes>>

TickStep(t) ==
  \/ TickRead(t) \/ TickMarkCompleted(t) \/ TickCreate(t) \/ TickWrite(t)
  \/ TickEnqueue(t) \/ TickCount(t) \/ TickFinish(t)
  \/ \E r \in Recipients :
       TickWriteSkip(t, r) \/ TickClaim(t, r) \/ \E due \in BOOLEAN : TickEvaluate(t, r, due)

(***************************************************************************)
(* The worker: one run of processEmailJob for the job of r and s.          *)
(***************************************************************************)
MoveTo(r, s, place) == at' = [at EXCEPT ![r][s] = place]
SetJob(r, s, status) == job' = [job EXCEPT ![r][s] = status]

\* The claim of the job, and SCHEDULED -> SENDING for the campaign.
Take(r, s) ==
  /\ at[r][s] = "queued"
  /\ SetJob(r, s, "SENDING")
  /\ campaign' = IF campaign = "SCHEDULED" THEN "SENDING" ELSE campaign
  /\ MoveTo(r, s, "gates")
  /\ UNCHANGED <<rowVars, view, late, made, worldVars, tickVars, sweep, userVars, crashes>>

\* markFailed before the send: a suppressed recipient, or another gate.  The
\* recipient's row is left as it is.
Reject(r, s) ==
  /\ at[r][s] = "gates"
  /\ r \in suppressed \/ "reject" \in Happenings
  /\ SetJob(r, s, "FAILED")
  /\ MoveTo(r, s, "ended")
  /\ UNCHANGED <<campaign, rowVars, view, late, made, worldVars, tickVars, sweep, userVars,
                 crashes>>

PassGates(r, s) ==
  /\ at[r][s] = "gates"
  /\ r \notin suppressed
  /\ MoveTo(r, s, "reply")
  /\ UNCHANGED <<campaign, rowVars, job, view, late, made, worldVars, tickVars, sweep,
                 userVars, crashes>>

\* The pre-send check: a REPLY event newer than the job cancels it, ...
CheckReply(r, s) ==
  /\ at[r][s] = "reply"
  /\ IF s \in late[r]
     THEN SetJob(r, s, "CANCELLED") /\ MoveTo(r, s, "cancelled")
     ELSE MoveTo(r, s, "smtp") /\ UNCHANGED job
  /\ UNCHANGED <<campaign, rowVars, view, late, made, worldVars, tickVars, sweep, userVars,
                 crashes>>

\* ... and the row is marked.
MarkReplied(r, s) ==
  /\ at[r][s] = "cancelled"
  /\ replied' = replied \cup {r}
  /\ MoveTo(r, s, "ended")
  /\ UNCHANGED <<campaign, cur, st, paused, completed, job, view, late, made, worldVars,
                 tickVars, sweep, userVars, crashes>>

\* The server accepts the mail and the job becomes SENT.
Accept(r, s) ==
  /\ at[r][s] = "smtp"
  /\ SetJob(r, s, "SENT")
  /\ MoveTo(r, s, "sent")
  /\ UNCHANGED <<campaign, rowVars, view, late, made, worldVars, tickVars, sweep, userVars,
                 crashes>>

\* The server refuses the mail: suppression, then markFailed.
Bounce(r, s) ==
  /\ "bounce" \in Happenings
  /\ at[r][s] = "smtp"
  /\ suppressed' = suppressed \cup {r}
  /\ SetJob(r, s, "FAILED")
  /\ MoveTo(r, s, "bounced")
  /\ UNCHANGED <<campaign, rowVars, view, late, made, opened, flagged, answered, returned, tickVars,
                 sweep, userVars, crashes>>

\* Wrong variant: the entry of the next step is updated.
EntryAfter(r, s) == IF cur[r] < Last THEN cur[r] + 1 ELSE cur[r]

\* The first entry that is linked to this job or has the row's current step.
EntryOf(r, s) == IF st[r][s].linked /\ s < cur[r] THEN s ELSE cur[r]

\* The run reads the row and changes the entry in its copy, ...
ReadRow(r, s) ==
  /\ at[r][s] \in {"sent", "bounced"}
  /\ LET status == IF at[r][s] = "sent" THEN "SENT" ELSE "FAILED"
     IN view' = [view EXCEPT ![r][s] = [st[r] EXCEPT ![EntryOf(r, s)].status = status]]
  /\ MoveTo(r, s, "write")
  /\ UNCHANGED <<campaign, rowVars, job, late, made, worldVars, tickVars, sweep, userVars,
                 crashes>>

\* ... and writes the whole copy.
WriteRow(r, s) ==
  /\ at[r][s] = "write"
  /\ st' = [st EXCEPT ![r] = view[r][s]]
  /\ view' = [view EXCEPT ![r][s] = Blank]
  /\ MoveTo(r, s, "ended")
  /\ UNCHANGED <<campaign, cur, paused, replied, completed, job, late, made, worldVars,
                 tickVars, sweep, userVars, crashes>>

\* The read or the write fails: it is logged.
LoseRow(r, s) ==
  /\ "db" \in Happenings
  /\ at[r][s] \in {"sent", "bounced", "write"}
  /\ view' = [view EXCEPT ![r][s] = Blank]
  /\ MoveTo(r, s, "ended")
  /\ UNCHANGED <<campaign, rowVars, job, late, made, worldVars, tickVars, sweep, userVars,
                 crashes>>

Run(r, s) ==
  \/ Take(r, s) \/ Reject(r, s) \/ PassGates(r, s) \/ CheckReply(r, s) \/ MarkReplied(r, s)
  \/ Accept(r, s) \/ Bounce(r, s) \/ ReadRow(r, s) \/ WriteRow(r, s) \/ LoseRow(r, s)

(***************************************************************************)
(* Recipients, and the detector that scans the senders' mailboxes.         *)
(***************************************************************************)
OpenMail(r, s) ==
  /\ job[r][s] = "SENT"
  /\ s \notin opened[r] /\ s + 1 \in Ruled
  /\ opened' = [opened EXCEPT ![r] = @ \cup {s}]
  /\ UNCHANGED <<campaign, rowVars, jobVars, flagged, suppressed, answered, returned, tickVars,
                 sweep, userVars, crashes>>

\* A reply to a SENT job without isReplied: the flag is set and a REPLY event stored, ...
DetectReply(r, s) ==
  /\ "reply" \in Happenings
  /\ job[r][s] = "SENT" /\ s \notin flagged[r]
  /\ flagged' = [flagged EXCEPT ![r] = @ \cup {s}]
  /\ answered' = answered \cup {r}
  /\ late' = [late EXCEPT ![r] = {n \in Steps : made[r][n] > 0}]
  /\ UNCHANGED <<campaign, rowVars, job, at, view, made, opened, suppressed, returned,
                 tickVars, sweep, userVars, crashes>>

\* ... and, after the contact has been updated, the row is marked; if one of these
\* awaits rejects, the row never is, for the job is not looked at again.
RecordReply(r) ==
  /\ r \in answered
  /\ answered' = answered \ {r}
  /\ \/ replied' = replied \cup {r}
     \/ "db" \in Happenings /\ UNCHANGED replied
  /\ UNCHANGED <<campaign, cur, st, paused, completed, jobVars, opened, flagged, suppressed,
                 returned, tickVars, sweep, userVars, crashes>>

\* A bounce message for a SENT job: FAILED, ...
DetectBounce(r, s) ==
  /\ "bounce" \in Happenings
  /\ job[r][s] = "SENT"
  /\ SetJob(r, s, "FAILED")
  /\ returned' = returned \cup {r}
  /\ UNCHANGED <<campaign, rowVars, at, view, late, made, opened, flagged, suppressed,
                 answered, tickVars, sweep, userVars, crashes>>

\* ... then the suppression.  The recipient's row is left as it is.
Suppress(r) ==
  /\ r \in returned
  /\ returned' = returned \ {r}
  /\ suppressed' = suppressed \cup {r}
  /\ UNCHANGED <<campaign, rowVars, jobVars, opened, flagged, answered, tickVars, sweep,
                 userVars, crashes>>

Detector(r) ==
  \/ RecordReply(r) \/ Suppress(r)
  \/ \E s \in Steps : DetectReply(r, s) \/ DetectBounce(r, s)

(***************************************************************************)
(* The user's controls.                                                    *)
(***************************************************************************)

\* pauseRecipient and resumeRecipient.
Pause(r) ==
  /\ "pause" \in Happenings
  /\ paused' \in {paused \cup {r}, paused \ {r}}
  /\ UNCHANGED <<campaign, cur, st, replied, completed, jobVars, worldVars, tickVars, sweep,
                 userVars, crashes>>

\* pauseSequence and resumeSequence.
PauseAll ==
  /\ "pause" \in Happenings
  /\ paused' \in {Recipients, {}}
  /\ UNCHANGED <<campaign, cur, st, replied, completed, jobVars, worldVars, tickVars, sweep,
                 userVars, crashes>>

\* stopRecipient (stopSequence: for each row) reads the row ...
StopRead(r) ==
  /\ "stop" \in Happenings
  /\ r \notin stopping
  /\ stopping' = stopping \cup {r}
  /\ halt' = [halt EXCEPT ![r] = [s \in Steps |->
       IF st[r][s].status \in {"SENT", "FAILED"} THEN st[r][s]
       ELSE [st[r][s] EXCEPT !.status = "SKIPPED"]]]
  /\ UNCHANGED <<campaign, rowVars, jobVars, worldVars, tickVars, sweep, stopped, crashes>>

\* ... and writes it with every step SKIPPED that is not SENT or FAILED.
StopWrite(r) ==
  /\ r \in stopping
  /\ st' = [st EXCEPT ![r] = halt[r]]
  /\ halt' = [halt EXCEPT ![r] = Blank]
  /\ stopping' = stopping \ {r}
  /\ stopped' = stopped \cup {r}
  /\ UNCHANGED <<campaign, cur, paused, replied, completed, jobVars, worldVars, tickVars,
                 sweep, crashes>>

\* toggleReplied: no REPLY event is stored or removed.
Toggle(r, s) ==
  /\ "toggle" \in Happenings
  /\ job[r][s] = "SENT"
  /\ IF s \in flagged[r]
     THEN flagged' = [flagged EXCEPT ![r] = @ \ {s}] /\ replied' = replied \ {r}
     ELSE flagged' = [flagged EXCEPT ![r] = @ \cup {s}] /\ replied' = replied \cup {r}
  /\ UNCHANGED <<campaign, cur, st, paused, completed, jobVars, opened, suppressed, answered,
                 returned, tickVars, sweep, userVars, crashes>>

User ==
  \/ PauseAll
  \/ \E r \in Recipients : Pause(r) \/ StopRead(r) \/ StopWrite(r) \/ \E s \in Steps : Toggle(r, s)

(***************************************************************************)
(* checkAndCompleteCampaign, as the sweep, the restart and the campaign    *)
(* queries call it: it reads the campaign, counts the open jobs, then the  *)
(* running recipients, then completes.                                     *)
(***************************************************************************)
SweepJobs ==
  /\ sweep = "idle"
  /\ campaign \in {"SCHEDULED", "SENDING"}
  /\ NoOpenJob
  /\ sweep' = "states"
  /\ UNCHANGED <<campaign, rowVars, jobVars, worldVars, tickVars, userVars, crashes>>

\* Wrong variant: no open job is enough.
SweepStatesUncounted ==
  /\ sweep = "states"
  /\ sweep' = "write"
  /\ UNCHANGED <<campaign, rowVars, jobVars, worldVars, tickVars, userVars, crashes>>

\* The running recipients are counted after the open jobs.
SweepStates ==
  /\ sweep = "states"
  /\ sweep' = IF NoneRunning THEN "write" ELSE "idle"
  /\ UNCHANGED <<campaign, rowVars, jobVars, worldVars, tickVars, userVars, crashes>>

SweepWrite ==
  /\ sweep = "write"
  /\ campaign' = IF campaign \in {"SCHEDULED", "SENDING"} THEN "COMPLETED" ELSE campaign
  /\ sweep' = "idle"
  /\ UNCHANGED <<rowVars, jobVars, worldVars, tickVars, userVars, crashes>>

Sweep == SweepJobs \/ SweepStates \/ SweepWrite

(***************************************************************************)
(* The worker process dies and is started again: ticks and runs are gone,  *)
(* unsent jobs are PENDING and in the queue, also those that were created  *)
(* and not enqueued.  The detector does not look again at the jobs it had  *)
(* in hand: they are flagged or FAILED.  A query's completion check lives  *)
(* in the API process.                                                     *)
(***************************************************************************)
Unsent == {"new", "queued", "gates", "reply", "smtp"}

Crash ==
  /\ "crash" \in Happenings
  /\ crashes < MaxCrashes
  /\ crashes' = crashes + 1
  /\ tpc' = [t \in Ticks |-> "idle"]
  /\ todo' = [t \in Ticks |-> {}]
  /\ from' = [t \in Ticks |-> [r \in Recipients |-> 0]]
  /\ plan' = [t \in Ticks |-> [r \in Recipients |-> Blank]]
  /\ next' = [t \in Ticks |-> [r \in Recipients |-> 0]]
  /\ done' = [t \in Ticks |-> {}] /\ skips' = [t \in Ticks |-> {}]
  /\ item' = [t \in Ticks |-> NoOne]
  /\ at' = [r \in Recipients |-> [s \in Steps |->
       IF at[r][s] = "none" THEN "none" ELSE IF at[r][s] \in Unsent THEN "queued" ELSE "ended"]]
  /\ job' = [r \in Recipients |-> [s \in Steps |->
       IF at[r][s] \in Unsent THEN "PENDING" ELSE job[r][s]]]
  /\ view' = [r \in Recipients |-> [s \in Steps |-> Blank]]
  /\ sweep' \in {"idle", sweep}
  /\ answered' = {} /\ returned' = {}
  /\ UNCHANGED <<campaign, rowVars, late, made, opened, flagged, suppressed, userVars>>

Next ==
  \/ \E t \in Ticks : TickStep(t) \/ TickAbort(t)
  \/ \E r \in Recipients : Detector(r) \/ \E s \in Steps : Run(r, s) \/ OpenMail(r, s)
  \/ User \/ Sweep \/ Crash

Spec == Init /\ [][Next]_vars

(***************************************************************************)
(* Fairness: ticks and sweeps recur and go on, runs and the detector go    *)
(* on, waitDays pass.  Nothing obliges users, recipients or faults.        *)
(***************************************************************************)
Fairness ==
  /\ \A t \in Ticks : WF_vars(TickStep(t))
  /\ \A r \in Recipients :
       /\ SF_vars(\E t \in Ticks : TickEvaluate(t, r, TRUE))
       /\ WF_vars(RecordReply(r)) /\ WF_vars(Suppress(r)) /\ WF_vars(StopWrite(r))
       /\ \A s \in Steps : WF_vars(Run(r, s))
  /\ WF_vars(Sweep)

FairSpec == Spec /\ Fairness

(***************************************************************************)
(* Type correctness.                                                       *)
(***************************************************************************)
RowOK ==
  /\ campaign \in {"SCHEDULED", "SENDING", "COMPLETED"}
  /\ cur \in [Recipients -> Steps]
  /\ st \in [Recipients -> Array]
  /\ paused \subseteq Recipients /\ replied \subseteq Recipients /\ completed \subseteq Recipients

JobOK ==
  /\ job \in [Recipients -> [Steps -> JobStatus \cup {"none"}]]
  /\ at \in [Recipients -> [Steps -> Places]]
  /\ view \in [Recipients -> [Steps -> Array]]
  /\ late \in [Recipients -> SUBSET Steps]
  /\ made \in [Recipients -> [Steps -> Nat]]

WorldOK ==
  /\ opened \in [Recipients -> SUBSET Steps] /\ flagged \in [Recipients -> SUBSET Steps]
  /\ suppressed \subseteq Recipients
  /\ answered \subseteq Recipients /\ returned \subseteq Recipients

TickOK ==
  /\ tpc \in [Ticks -> TickSteps]
  /\ todo \in [Ticks -> SUBSET Recipients]
  /\ from \in [Ticks -> [Recipients -> Steps]]
  /\ plan \in [Ticks -> [Recipients -> Array]]
  /\ next \in [Ticks -> [Recipients -> Steps]]
  /\ done \in [Ticks -> SUBSET Recipients] /\ skips \in [Ticks -> SUBSET Recipients]
  /\ item \in [Ticks -> Recipients \cup {NoOne}]
  /\ \A t \in Ticks : tpc[t] \in {"create", "write", "enqueue"} => item[t] \in Recipients

UserOK ==
  /\ sweep \in {"idle", "states", "write"}
  /\ stopping \subseteq Recipients /\ stopped \subseteq Recipients
  /\ halt \in [Recipients -> Array]
  /\ crashes \in Nat

TypeOK == RowOK /\ JobOK /\ WorldOK /\ TickOK /\ UserOK

(***************************************************************************)
(* Safety.                                                                 *)
(***************************************************************************)

\* Every branch of the sequence leads to a later step, as in the graphs that
\* legacyStepsToGraph builds.
Forward == \A s \in FollowUps : OnMatch[s] \in {0} \cup s .. Last /\ OnNoMatch[s] \in {0} \cup s .. Last

\* No recipient gets two jobs for a step, whatever ticks overlap, crash or work on
\* old arrays: the claim on currentStep decides (sequenceScheduler.ts:434-440).
OneJobPerStep == \A r \in Recipients, s \in Steps : made[r][s] <= 1

\* The array says SENT only of a step whose mail went out, although every writer
\* writes the whole array from an old copy (emailWorker.ts:944-957,
\* sequenceScheduler.ts:421-426, 494-497; a later bounce makes the job FAILED).
SentEntryIsTrue ==
  \A r \in Recipients, s \in Steps : st[r][s].status = "SENT" => job[r][s] \in {"SENT", "FAILED"}

\* No recipient gets more follow-ups than the cap allows, although the tick counts them
\* in an array that others rewrite (sequenceScheduler.ts:129-141, 321-324): while nobody
\* is stopped and, where steps have conditions, ticks do not overlap; a stop or a skip
\* written from an older copy takes SENT entries out of the count.
CapIsKept ==
  Cap > 0 => \A r \in Recipients : Cardinality({s \in FollowUps : made[r][s] > 0}) <= Cap

\* While nobody pauses or stops a recipient or takes a reply back, a COMPLETED campaign
\* has no recipient left to write to, and no mail left to send but one that a tick had in
\* hand when its recipient replied
\* (sequenceScheduler.ts:515-534, campaignCompletion.ts:15-40).
CompletedMeansDone ==
  campaign = "COMPLETED" =>
    NoneRunning /\ \A r \in Recipients \ replied, s \in Steps : job[r][s] \notin Open

\* Once a reply is on the row and no tick or run has the recipient in hand, nothing is
\* scheduled for it again before the user takes the reply back
\* (sequenceScheduler.ts:267-274).
Quiet(r) ==
  /\ r \in replied
  /\ \A s \in Steps : job[r][s] \notin Open
  /\ \A t \in Ticks : r \notin todo[t] /\ next[t][r] = 0

RepliesEndSequence == [][\A r \in Recipients : Quiet(r) /\ r \in replied' => Quiet(r)']_vars

(***************************************************************************)
(* Liveness.                                                               *)
(***************************************************************************)

\* Without faults every recipient is completed or has replied in the end, and the
\* campaign completes (sequenceScheduler.ts:515-534, index.ts:315-338).
SequenceEnds == <>[](campaign = "COMPLETED" /\ NoneRunning)

(***************************************************************************)
(* What comments and documents say and the code does not keep.             *)
(***************************************************************************)

\* "Each step sends in order" (SequenceBuilder.tsx:975): without conditions a
\* completed recipient, who did not reply, has had every mail.
EveryStepIsSent ==
  OnMatch = LinearMatch /\ OnNoMatch = LinearNoMatch /\ Ruled = {} =>
    \A r \in completed \ replied, s \in Steps : made[r][s] > 0

\* A rule on the first mail can be met (sequenceScheduler.ts:143-146): the recipient
\* who has opened it is not sent down the other branch.
OpenedIsSeen ==
  [][\A t \in Ticks, r \in Recipients :
       r \in todo[t] /\ r \notin todo'[t] /\ from[t][r] = 0 /\ 0 \in opened[r] /\ next'[t][r] # 0
         => next'[t][r] = Target(1, TRUE)]_vars

\* An acyclic sequence ends: no mail is sent twice (sequenceValidation.ts:200).
AcyclicEnds == OneJobPerStep

\* stopRecipient ends the sequence of a recipient (sequenceControllers.ts:168).
StoppedGetsNoMail ==
  [][\A r \in stopped, s \in Steps : made'[r][s] = made[r][s]]_vars

\* "Sequences stop automatically on reply detection" (README.md:91): the check before
\* the send (emailWorker.ts:779-780) lets no mail through once the reply is on the row.
NoMailAfterReply ==
  [][\A r \in replied, s \in Steps : at[r][s] = "reply" => at'[r][s] # "smtp"]_vars

\* The sweep is the failsafe for campaigns that stay SENDING (index.ts:318).
NotStuckInSending == ~<>[](campaign = "SENDING")

\* A paused recipient can be resumed (README.md:90): the campaign does not complete
\* over it.
PausedCanResume == campaign = "COMPLETED" => paused \subseteq completed \cup replied
=============================================================================
