---------------------------- MODULE EmailDelivery ----------------------------
(***************************************************************************)
(* The delivery of one campaign's e-mail jobs: the BullMQ e-mail queue,    *)
(* the workers that run processEmailJob (server/src/worker/emailWorker.ts),*)
(* the recovery that runs when the worker process starts and the sweeps    *)
(* it runs periodically (worker/index.ts), the automatic resume            *)
(* (worker/autoResumeJob.ts) and the pause, resume and cancel handlers of  *)
(* the API (controllers/campaign/state.ts).                                *)
(*                                                                         *)
(* Every await that another process can observe is a step of its own.  The *)
(* campaign is a plain one (no sequence steps, no priority rows).          *)
(***************************************************************************)
EXTENDS Naturals, FiniteSets

CONSTANTS
  Jobs,          \* the campaign's EmailJob rows
  Workers,       \* concurrent executions of processEmailJob (WORKER_CONCURRENCY)
  NoJob,         \* the job of an idle worker
  Pool,          \* TRUE when the campaign has CampaignSender rows
  MaxAttempts,   \* BullMQ attempts per queue entry
  MaxEntries,    \* bound: API and auto-resume enqueue up to this many entries per job
  MaxCopies,     \* bound: copies of a job the SMTP server accepts
  MaxCrashes,    \* bound: crashes of the worker process
  MaxSlips,      \* bound: attempts that throw plus sweeps that take a live row for stale
  Faults         \* the kinds of fault that can happen (see FaultClasses)

(***************************************************************************)
(* crash      the worker process dies and is started again                 *)
(* db         a database write made after the claim fails                  *)
(* persist    the write of SENT fails                                      *)
(* marker     the Redis write of the SMTP-accepted marker fails            *)
(* transient  processEmailJob throws: a database, Redis or SMTP error      *)
(* slow       a live worker holds its job past STALE_SENDING_THRESHOLD_MS  *)
(* premium    the campaign owner's subscription lapses                     *)
(***************************************************************************)
FaultClasses == {"crash", "db", "persist", "marker", "transient", "slow", "premium"}

ASSUME DeliveryAssumption ==
  /\ IsFiniteSet(Jobs) /\ IsFiniteSet(Workers)
  /\ NoJob \notin Jobs
  /\ Pool \in BOOLEAN
  /\ MaxAttempts \in Nat \ {0}
  /\ MaxEntries \in Nat /\ MaxCopies \in Nat
  /\ MaxCrashes \in Nat /\ MaxSlips \in Nat
  /\ Faults \subseteq FaultClasses

Attempts == 0 .. MaxAttempts - 1     \* attemptsMade of a queue entry

VARIABLES
  status,        \* status[j]: EmailJob.status
  campaign,      \* EmailCampaign.status
  reason,        \* EmailCampaign.pauseReason
  marker,        \* jobs with the Redis key emailJob:smtp_accepted:<id>
  copies,        \* copies[j]: copies of j the SMTP server has accepted
  lost,          \* lost[j]: accepted copies of which no record survives (history)
  queue,         \* queue[j][a]: waiting or delayed entries of j, attemptsMade = a
  stalled,       \* stalled[j][a]: entries a dead process left active
  events,        \* events[j]: 'failed' events whose listener has not run
  pc, job, try,  \* per worker: step, job and attemptsMade of the entry it runs
  phase,         \* worker process: "recover", "sync" or "up"
  recovered,     \* jobs re-enqueued by recoverOrphanedJobs in this start
  stale,         \* rows sweepStaleSendingJobs has found and not yet handled
  crashes,       \* crashes so far
  slips,         \* thrown attempts and mistaken sweeps so far
  auto, autoTodo,      \* autoResumePausedCampaigns: step, jobs left to enqueue
  resume, resumeTodo,  \* resumeCampaign: step, jobs left to enqueue
  purging,       \* pauseCampaign has still to clear the queue
  launching      \* jobs createCampaign has still to enqueue

rowVars == <<status, marker, copies, lost>>
campaignVars == <<campaign, reason>>
queueVars == <<queue, stalled, events>>
runVars == <<pc, job, try>>
processVars == <<phase, recovered, stale, crashes, slips>>
autoVars == <<auto, autoTodo>>
apiVars == <<resume, resumeTodo, purging, launching>>
vars == <<rowVars, campaignVars, queueVars, runVars, processVars, autoVars, apiVars>>

JobStatus == {"PENDING", "SENDING", "SENT", "FAILED", "CANCELLED"}
Terminal == {"SENT", "FAILED", "CANCELLED"}
CampaignStatus == {"SCHEDULED", "SENDING", "PAUSED", "CANCELLED", "COMPLETED"}
Active == {"SCHEDULED", "SENDING"}
PauseReasons == {"none", "ALL_SENDERS_EXHAUSTED", "PREMIUM_SUBSCRIPTION_REQUIRED"}

\* A worker between its claim and the write that ends it.
BeforeSmtp == {"start", "gates", "smtp"}
AfterSmtp == {"accepted", "persist"}
Claimed == BeforeSmtp \cup AfterSmtp
Steps == Claimed \cup
  {"idle", "unpaid", "unpaidPause", "claim", "exhausted", "count", "complete"}

Holds(w, j) == job[w] = j /\ pc[w] \in Claimed

(***************************************************************************)
(* Helpers.                                                                *)
(***************************************************************************)
\* Wrong variant: only PENDING rows count as open.
CompleteIfNonePending(st) ==
  IF campaign \in Active /\ \A j \in Jobs : st[j] # "PENDING" THEN "COMPLETED" ELSE campaign

\* The write of checkAndCompleteCampaign, when the rows are st.
CompleteIfDone(st) ==
  IF campaign \in Active /\ \A j \in Jobs : st[j] \in Terminal
  THEN "COMPLETED" ELSE campaign

\* emailQueue.add of a fresh entry for j
Enqueue(j) == queue' = [queue EXCEPT ![j][0] = @ + 1]

Room(j) == \A a \in Attempts : queue[j][a] < MaxEntries

SetStatus(j, s) == status' = [status EXCEPT ![j] = s]

Goto(w, step) == pc' = [pc EXCEPT ![w] = step] /\ UNCHANGED <<job, try>>

\* Wrong variant: the run gives up its job and keeps its step.
ReturnKeepsStep(w) ==
  /\ job' = [job EXCEPT ![w] = NoJob]
  /\ try' = [try EXCEPT ![w] = 0]
  /\ UNCHANGED pc

\* The handler returns: BullMQ completes the entry.
Return(w) ==
  /\ pc' = [pc EXCEPT ![w] = "idle"]
  /\ job' = [job EXCEPT ![w] = NoJob]
  /\ try' = [try EXCEPT ![w] = 0]

\* BullMQ fails attempt a of an entry of j that is no longer in q: it queues the
\* next attempt, if there is one, and emits 'failed' in either case.
FailAttempt(q, j, a) ==
  /\ slips < MaxSlips
  /\ slips' = slips + 1
  /\ queue' = IF a + 1 < MaxAttempts THEN [q EXCEPT ![j][a + 1] = @ + 1] ELSE q
  /\ events' = [events EXCEPT ![j] = @ + 1]
  /\ UNCHANGED <<stalled, phase, recovered, stale, crashes>>

(***************************************************************************)
(* createCampaign has committed the rows and has yet to enqueue them.      *)
(***************************************************************************)
Init ==
  /\ status = [j \in Jobs |-> "PENDING"]
  /\ campaign = "SCHEDULED"
  /\ reason = "none"
  /\ marker = {}
  /\ copies = [j \in Jobs |-> 0]
  /\ lost = [j \in Jobs |-> 0]
  /\ queue = [j \in Jobs |-> [a \in Attempts |-> 0]]
  /\ stalled = [j \in Jobs |-> [a \in Attempts |-> 0]]
  /\ events = [j \in Jobs |-> 0]
  /\ pc = [w \in Workers |-> "idle"]
  /\ job = [w \in Workers |-> NoJob]
  /\ try = [w \in Workers |-> 0]
  /\ phase = "up"
  /\ recovered = {}
  /\ stale = {}
  /\ crashes = 0 /\ slips = 0
  /\ auto = "idle" /\ autoTodo = {}
  /\ resume = "idle" /\ resumeTodo = {}
  /\ purging = FALSE
  /\ launching = Jobs

\* The enqueue loop of createCampaign; an error is logged and the job left out.
Launch(j) ==
  /\ j \in launching
  /\ launching' = launching \ {j}
  /\ \/ Enqueue(j)
     \/ "db" \in Faults /\ UNCHANGED queue
  /\ UNCHANGED <<rowVars, campaignVars, stalled, events, runVars, processVars,
                 autoVars, resume, resumeTodo, purging>>

(***************************************************************************)
(* The worker: processEmailJob.                                            *)
(***************************************************************************)

\* Where the handler goes after its first read, for a paying owner.  The rows it
\* has read do not change, so nothing is lost by deciding here.
NextAfterRead(j, a) ==
  IF campaign \in {"PAUSED", "CANCELLED"} THEN "idle"
  ELSE IF status[j] = "SENT" THEN "count"
  ELSE IF status[j] = "PENDING" \/ (status[j] = "SENDING" /\ a > 0) THEN "claim"
  ELSE "idle"

\* BullMQ hands an entry to an idle worker, which reads the job and its campaign
\* and asks requirePremium.
Take(w, j, a) ==
  /\ phase = "up"
  /\ pc[w] = "idle"
  /\ queue[j][a] > 0
  /\ queue' = [queue EXCEPT ![j][a] = @ - 1]
  /\ \E step \in {NextAfterRead(j, a)} \cup (IF "premium" \in Faults THEN {"unpaid"} ELSE {}) :
       IF step = "idle"
       THEN UNCHANGED runVars
       ELSE /\ pc' = [pc EXCEPT ![w] = step]
            /\ job' = [job EXCEPT ![w] = j]
            /\ try' = [try EXCEPT ![w] = a]
  /\ UNCHANGED <<rowVars, campaignVars, stalled, events, processVars, autoVars, apiVars>>

\* The first read, or the premium check, throws.
ThrowOnRead(w, j, a) ==
  /\ "transient" \in Faults
  /\ phase = "up"
  /\ pc[w] = "idle"
  /\ queue[j][a] > 0
  /\ FailAttempt([queue EXCEPT ![j][a] = @ - 1], j, a)
  /\ UNCHANGED <<rowVars, campaignVars, runVars, autoVars, apiVars>>

\* The owner no longer pays: the row goes back to PENDING, whatever it is now, ...
ResetUnpaid(w) ==
  /\ pc[w] = "unpaid"
  /\ SetStatus(job[w], "PENDING")
  /\ Goto(w, "unpaidPause")
  /\ UNCHANGED <<marker, copies, lost, campaignVars, queueVars, processVars,
                 autoVars, apiVars>>

\* ... and the campaign is paused, whatever it is now.
PauseUnpaid(w) ==
  /\ pc[w] = "unpaidPause"
  /\ campaign' = "PAUSED"
  /\ reason' = "PREMIUM_SUBSCRIPTION_REQUIRED"
  /\ Return(w)
  /\ UNCHANGED <<rowVars, queueVars, processVars, autoVars, apiVars>>

\* Wrong variant: every attempt may take over a SENDING row.
ClaimableAlways(a) == {"PENDING", "SENDING"}

\* The statuses a claim may start from: a retry may also take over a SENDING row.
Claimable(a) == IF a > 0 THEN {"PENDING", "SENDING"} ELSE {"PENDING"}

\* Wrong variant: the count of updated rows is ignored.
ClaimUncounted(w) ==
  /\ pc[w] = "claim"
  /\ IF status[job[w]] \in Claimable(try[w]) THEN SetStatus(job[w], "SENDING") ELSE UNCHANGED status
  /\ Goto(w, "start")
  /\ UNCHANGED <<marker, copies, lost, campaignVars, queueVars, processVars,
                 autoVars, apiVars>>

\* The claim lock: one conditional update, to SENDING.
Claim(w) ==
  /\ pc[w] = "claim"
  /\ IF status[job[w]] \in Claimable(try[w])
     THEN SetStatus(job[w], "SENDING") /\ Goto(w, "start")
     ELSE Return(w) /\ UNCHANGED status
  /\ UNCHANGED <<marker, copies, lost, campaignVars, queueVars, processVars,
                 autoVars, apiVars>>

\* First job of the campaign: SCHEDULED -> SENDING, if it still is SCHEDULED; an
\* error is ignored.
StartCampaign(w) ==
  /\ pc[w] = "start"
  /\ \/ campaign' = IF campaign = "SCHEDULED" THEN "SENDING" ELSE campaign
     \/ "db" \in Faults /\ UNCHANGED campaign
  /\ Goto(w, "gates")
  /\ UNCHANGED <<rowVars, reason, queueVars, processVars, autoVars, apiVars>>

\* Sender, suppression, capacity, throttle, business hours, credentials,
\* attachments, content, send slot and domain cap all let the job through.
PassGates(w) ==
  /\ pc[w] = "gates"
  /\ Goto(w, "smtp")
  /\ UNCHANGED <<rowVars, campaignVars, queueVars, processVars, autoVars, apiVars>>

\* markFailed: an unconditional write, then the completion check; an error is logged.
MarkFailed(w) ==
  \/ SetStatus(job[w], "FAILED") /\ Goto(w, "count")
  \/ "db" \in Faults /\ Return(w) /\ UNCHANGED status

\* A gate rejects the job for good: no or unverified sender, suppressed recipient,
\* undecryptable password, missing attachment, blocked content.
Reject(w) ==
  /\ pc[w] = "gates"
  /\ MarkFailed(w)
  /\ UNCHANGED <<marker, copies, lost, campaignVars, queueVars, processVars,
                 autoVars, apiVars>>

\* Wrong variant: the delayed entry is forgotten.
DeferWithoutEntry(w) ==
  /\ pc[w] = "gates"
  /\ SetStatus(job[w], "PENDING")
  /\ Return(w)
  /\ UNCHANGED <<marker, copies, lost, campaignVars, queueVars, processVars,
                 autoVars, apiVars>>

\* A gate postpones the job (throttle, business hours, send slot, domain cap, or
\* another sender of the pool takes over): PENDING, with a delayed entry.
Defer(w) ==
  /\ pc[w] = "gates"
  /\ SetStatus(job[w], "PENDING")
  /\ Enqueue(job[w])
  /\ Return(w)
  /\ UNCHANGED <<marker, copies, lost, campaignVars, stalled, events, processVars,
                 autoVars, apiVars>>

\* The sender has no daily capacity left and the campaign has no pool: the row
\* waits without a queue entry.
ParkWithoutPool(w) ==
  /\ pc[w] = "gates"
  /\ ~Pool
  /\ SetStatus(job[w], "PENDING")
  /\ Return(w)
  /\ UNCHANGED <<marker, copies, lost, campaignVars, queueVars, processVars,
                 autoVars, apiVars>>

\* No sender of the pool has capacity: the row waits and the campaign is paused ...
ResetExhausted(w) ==
  /\ pc[w] = "gates"
  /\ Pool
  /\ SetStatus(job[w], "PENDING")
  /\ Goto(w, "exhausted")
  /\ UNCHANGED <<marker, copies, lost, campaignVars, queueVars, processVars,
                 autoVars, apiVars>>

\* ... if it still is SENDING.
PauseExhausted(w) ==
  /\ pc[w] = "exhausted"
  /\ IF campaign = "SENDING"
     THEN campaign' = "PAUSED" /\ reason' = "ALL_SENDERS_EXHAUSTED"
     ELSE UNCHANGED campaignVars
  /\ Return(w)
  /\ UNCHANGED <<rowVars, queueVars, processVars, autoVars, apiVars>>

\* transporter.sendMail resolves: the server has accepted the message.
SmtpAccept(w) ==
  /\ pc[w] = "smtp"
  /\ copies[job[w]] < MaxCopies
  /\ copies' = [copies EXCEPT ![job[w]] = @ + 1]
  /\ Goto(w, "accepted")
  /\ UNCHANGED <<status, marker, lost, campaignVars, queueVars, processVars,
                 autoVars, apiVars>>

\* sendMail rejects with a 5xx reply or a bounce.
SmtpBounce(w) ==
  /\ pc[w] = "smtp"
  /\ MarkFailed(w)
  /\ UNCHANGED <<marker, copies, lost, campaignVars, queueVars, processVars,
                 autoVars, apiVars>>

\* The handler throws.  At the SMTP step the server may have accepted the message
\* and only its reply be missing; nothing will ever record that copy.  At the gates
\* the row may already be PENDING again, when it is the enqueue that failed.
Throw(w) ==
  /\ "transient" \in Faults
  /\ pc[w] \in {"unpaid", "unpaidPause", "claim", "gates", "exhausted", "smtp"}
  /\ \/ UNCHANGED status
     \/ pc[w] = "gates" /\ SetStatus(job[w], "PENDING")
  /\ \E n \in IF pc[w] = "smtp" /\ copies[job[w]] < MaxCopies THEN {0, 1} ELSE {0} :
       /\ copies' = [copies EXCEPT ![job[w]] = @ + n]
       /\ lost' = [lost EXCEPT ![job[w]] = @ + n]
  /\ FailAttempt(queue, job[w], try[w])
  /\ Return(w)
  /\ UNCHANGED <<marker, campaignVars, autoVars, apiVars>>

\* markSmtpAccepted: a failed write is logged.
Mark(w) ==
  /\ pc[w] = "accepted"
  /\ \/ marker' = marker \cup {job[w]}
     \/ "marker" \in Faults /\ UNCHANGED marker
  /\ Goto(w, "persist")
  /\ UNCHANGED <<status, copies, lost, campaignVars, queueVars, processVars,
                 autoVars, apiVars>>

\* The unconditional write of SENT.
Persist(w) ==
  /\ pc[w] = "persist"
  /\ SetStatus(job[w], "SENT")
  /\ Goto(w, "count")
  /\ UNCHANGED <<marker, copies, lost, campaignVars, queueVars, processVars,
                 autoVars, apiVars>>

\* That write fails: the catch block writes the marker again, tries a conditional
\* SENDING -> SENT, and returns without a completion check.
PersistFails(w) ==
  /\ "persist" \in Faults
  /\ pc[w] = "persist"
  /\ \/ marker' = marker \cup {job[w]}
     \/ "marker" \in Faults /\ UNCHANGED marker
  /\ \/ status[job[w]] = "SENDING" /\ SetStatus(job[w], "SENT")
     \/ UNCHANGED status
  /\ lost' = IF job[w] \in marker' \/ status'[job[w]] = "SENT"
             THEN lost ELSE [lost EXCEPT ![job[w]] = @ + 1]
  /\ Return(w)
  /\ UNCHANGED <<copies, campaignVars, queueVars, processVars, autoVars, apiVars>>

\* checkCampaignCompletion reads the campaign and counts its open rows ...
CountOpen(w) ==
  /\ pc[w] = "count"
  /\ \/ CompleteIfDone(status) # campaign /\ Goto(w, "complete")
     \/ CompleteIfDone(status) = campaign /\ Return(w)
     \/ "db" \in Faults /\ Return(w)
  /\ UNCHANGED <<rowVars, campaignVars, queueVars, processVars, autoVars, apiVars>>

\* ... and completes the campaign if it still is SCHEDULED or SENDING.
Complete(w) ==
  /\ pc[w] = "complete"
  /\ campaign' = IF campaign \in Active THEN "COMPLETED" ELSE campaign
  /\ Return(w)
  /\ UNCHANGED <<rowVars, reason, queueVars, processVars, autoVars, apiVars>>

WorkerStep(w) ==
  \/ ResetUnpaid(w) \/ PauseUnpaid(w) \/ Claim(w) \/ StartCampaign(w)
  \/ PassGates(w) \/ Reject(w) \/ Defer(w) \/ ParkWithoutPool(w)
  \/ ResetExhausted(w) \/ PauseExhausted(w)
  \/ SmtpAccept(w) \/ SmtpBounce(w) \/ Throw(w)
  \/ Mark(w) \/ Persist(w) \/ PersistFails(w) \/ CountOpen(w) \/ Complete(w)

(***************************************************************************)
(* The 'failed' listener of the worker: markFailed on every failed         *)
(* attempt, then the completion check.                                     *)
(***************************************************************************)
OnFailed(j) ==
  /\ phase = "up"
  /\ events[j] > 0
  /\ events' = [events EXCEPT ![j] = @ - 1]
  /\ \/ SetStatus(j, "FAILED") /\ campaign' = CompleteIfDone(status')
     \/ "db" \in Faults /\ UNCHANGED <<status, campaign>>
  /\ UNCHANGED <<marker, copies, lost, reason, queue, stalled, runVars, processVars,
                 autoVars, apiVars>>

(***************************************************************************)
(* The periodic sweeps of worker/index.ts.                                 *)
(***************************************************************************)

\* recoverSmtpAcceptedJob on a SENDING row that has the marker.
RecoverAccepted(j) ==
  /\ j \in marker
  /\ SetStatus(j, "SENT")
  /\ campaign' = CompleteIfDone(status')

Held(j) == \E w \in Workers : Holds(w, j)

\* Wrong variants: the sweep looks only at rows with, or only at rows without, a marker.
StaleMarked(j) == status[j] = "SENDING" /\ ~Held(j) /\ j \in marker
StaleUnmarked(j) == status[j] = "SENDING" /\ ~Held(j) /\ j \notin marker

\* A row that has been SENDING for too long.  Unless a worker can be that slow, no
\* live worker holds it.
Stale(j) ==
  /\ status[j] = "SENDING"
  /\ Held(j) => "slow" \in Faults /\ slips < MaxSlips

\* sweepStaleSendingJobs reads the rows past the threshold ...
SweepFind ==
  /\ phase = "up"
  /\ stale = {}
  /\ stale' \in (SUBSET {j \in Jobs : Stale(j)}) \ {{}}
  /\ slips' = IF \E j \in stale' : Held(j) THEN slips + 1 ELSE slips
  /\ UNCHANGED <<rowVars, campaignVars, queueVars, runVars, phase, recovered, crashes,
                 autoVars, apiVars>>

\* Wrong variant: every row past the threshold is taken for accepted.
SweepRowAsSent(j) ==
  /\ phase = "up"
  /\ j \in stale
  /\ stale' = stale \ {j}
  /\ IF status[j] = "SENDING" THEN SetStatus(j, "SENT") ELSE UNCHANGED status
  /\ UNCHANGED <<marker, copies, lost, campaignVars, queueVars, runVars, phase,
                 recovered, crashes, slips, autoVars, apiVars>>

\* ... and handles them one by one: with a marker, SENDING -> SENT; without,
\* SENDING -> PENDING and a fresh entry, whether or not the row still was SENDING.
SweepRow(j) ==
  /\ phase = "up"
  /\ j \in stale
  /\ stale' = stale \ {j}
  /\ IF j \in marker
     THEN /\ IF status[j] = "SENDING" THEN RecoverAccepted(j) ELSE UNCHANGED <<status, campaign>>
          /\ UNCHANGED queue
     ELSE /\ IF status[j] = "SENDING" THEN SetStatus(j, "PENDING") ELSE UNCHANGED status
          /\ Enqueue(j)
          /\ UNCHANGED campaign
  /\ UNCHANGED <<marker, copies, lost, reason, stalled, events, runVars, phase,
                 recovered, crashes, slips, autoVars, apiVars>>

\* Wrong variant: only SCHEDULED campaigns are swept.
SweepStuckScheduled ==
  /\ phase = "up"
  /\ campaign' = IF campaign = "SCHEDULED" THEN CompleteIfDone(status) ELSE campaign
  /\ UNCHANGED <<rowVars, reason, queueVars, runVars, processVars, autoVars, apiVars>>

\* sweepStuckCampaigns
SweepStuck ==
  /\ phase = "up"
  /\ campaign' = CompleteIfDone(status)
  /\ UNCHANGED <<rowVars, reason, queueVars, runVars, processVars, autoVars, apiVars>>

(***************************************************************************)
(* Crash of the worker process, and its self-healing start.                *)
(***************************************************************************)

\* Workers whose accepted copy nothing but themselves remembers.
Unrecorded(j) == \E w \in Workers : job[w] = j /\ pc[w] \in AfterSmtp /\ j \notin marker

Running(j, a) == {w \in Workers : job[w] = j /\ try[w] = a}

\* Every run stops; its queue entry stays active until the stalled check.
Crash ==
  /\ "crash" \in Faults
  /\ crashes < MaxCrashes
  /\ crashes' = crashes + 1
  /\ phase' = "recover"
  /\ stalled' = [j \in Jobs |-> [a \in Attempts |->
                   stalled[j][a] + Cardinality(Running(j, a))]]
  /\ lost' = [j \in Jobs |-> IF Unrecorded(j) THEN lost[j] + 1 ELSE lost[j]]
  /\ pc' = [w \in Workers |-> "idle"]
  /\ job' = [w \in Workers |-> NoJob]
  /\ try' = [w \in Workers |-> 0]
  /\ events' = [j \in Jobs |-> 0]
  /\ stale' = {}
  /\ recovered' = {}
  /\ auto' = "idle" /\ autoTodo' = {}
  /\ UNCHANGED <<status, marker, copies, campaignVars, queue, slips, apiVars>>

\* Wrong variant: the marker is not consulted.
RecoverOrphanBlindly(j) ==
  /\ phase = "recover"
  /\ status[j] = "SENDING"
  /\ SetStatus(j, "PENDING")
  /\ Enqueue(j)
  /\ recovered' = recovered \cup {j}
  /\ UNCHANGED <<marker, copies, lost, campaignVars, stalled, events, runVars, phase,
                 stale, crashes, slips, autoVars, apiVars>>

\* recoverOrphanedJobs on one SENDING row.
RecoverOrphan(j) ==
  /\ phase = "recover"
  /\ status[j] = "SENDING"
  /\ \/ RecoverAccepted(j) /\ UNCHANGED <<queue, recovered>>
     \/ /\ j \notin marker
        /\ SetStatus(j, "PENDING")
        /\ Enqueue(j)
        /\ recovered' = recovered \cup {j}
        /\ UNCHANGED campaign
  /\ UNCHANGED <<marker, copies, lost, reason, stalled, events, runVars, phase, stale,
                 crashes, slips, autoVars, apiVars>>

RecoveryDone ==
  /\ phase = "recover"
  /\ \A j \in Jobs : status[j] # "SENDING"
  /\ phase' = "sync"
  /\ UNCHANGED <<rowVars, campaignVars, queueVars, runVars, recovered, stale, crashes,
                 slips, autoVars, apiVars>>

\* syncPendingJobs enqueues every PENDING row not just recovered, sweepStuckCampaigns
\* runs, and the e-mail worker is started.
SyncPending ==
  /\ phase = "sync"
  /\ queue' = [j \in Jobs |->
                 IF status[j] = "PENDING" /\ j \notin recovered
                 THEN [queue[j] EXCEPT ![0] = @ + 1] ELSE queue[j]]
  /\ campaign' = CompleteIfDone(status)
  /\ phase' = "up"
  /\ recovered' = {}
  /\ UNCHANGED <<rowVars, reason, stalled, events, runVars, stale, crashes, slips,
                 autoVars, apiVars>>

\* BullMQ's stalled check: the entry goes back to the queue, or, stalled for the
\* second time (maxStalledCount = 1), is failed.
StalledCheck(j, a) ==
  /\ phase = "up"
  /\ stalled[j][a] > 0
  /\ stalled' = [stalled EXCEPT ![j][a] = @ - 1]
  /\ \/ queue' = [queue EXCEPT ![j][a] = @ + 1] /\ UNCHANGED events
     \/ crashes > 1 /\ events' = [events EXCEPT ![j] = @ + 1] /\ UNCHANGED queue
  /\ UNCHANGED <<rowVars, campaignVars, runVars, processVars, autoVars, apiVars>>

(***************************************************************************)
(* autoResumePausedCampaigns.                                              *)
(***************************************************************************)

\* The campaign is found paused for exhausted senders, with these PENDING rows.
AutoFind ==
  /\ phase = "up"
  /\ auto = "idle"
  /\ campaign = "PAUSED" /\ reason = "ALL_SENDERS_EXHAUSTED"
  /\ auto' = "resume"
  /\ autoTodo' = {j \in Jobs : status[j] = "PENDING"}
  /\ UNCHANGED <<rowVars, campaignVars, queueVars, runVars, processVars, apiVars>>

\* getEarliestResumeTime is in the future: skip.
AutoSkip ==
  /\ auto = "resume"
  /\ auto' = "idle" /\ autoTodo' = {}
  /\ UNCHANGED <<rowVars, campaignVars, queueVars, runVars, processVars, apiVars>>

\* The unconditional write of SENDING.
AutoResume ==
  /\ auto = "resume"
  /\ campaign' = "SENDING" /\ reason' = "none"
  /\ auto' = "enqueue"
  /\ UNCHANGED <<rowVars, queueVars, runVars, processVars, autoTodo, apiVars>>

AutoEnqueue(j) ==
  /\ auto = "enqueue"
  /\ j \in autoTodo /\ Room(j)
  /\ Enqueue(j)
  /\ autoTodo' = autoTodo \ {j}
  /\ UNCHANGED <<rowVars, campaignVars, stalled, events, runVars, processVars, auto,
                 apiVars>>

AutoDone ==
  /\ auto = "enqueue"
  /\ autoTodo = {}
  /\ auto' = "idle"
  /\ UNCHANGED <<rowVars, campaignVars, queueVars, runVars, processVars, autoTodo,
                 apiVars>>

(***************************************************************************)
(* The API: pause, resume and cancel.                                      *)
(***************************************************************************)

\* pauseCampaign: isValidTransition and the conditional update on the status it read.
Pause ==
  /\ campaign \in Active
  /\ campaign' = "PAUSED"
  /\ purging' = TRUE
  /\ UNCHANGED <<rowVars, reason, queueVars, runVars, processVars, autoVars, resume,
                 resumeTodo, launching>>

\* It removes the waiting and delayed entries of open rows; an error is logged.
Purge ==
  /\ purging
  /\ \/ queue' = [j \in Jobs |-> IF status[j] \in {"PENDING", "SENDING"}
                                 THEN [a \in Attempts |-> 0] ELSE queue[j]]
     \/ "db" \in Faults /\ UNCHANGED queue
  /\ purging' = FALSE
  /\ UNCHANGED <<rowVars, campaignVars, stalled, events, runVars, processVars, autoVars,
                 resume, resumeTodo, launching>>

\* resumeCampaign reads the paused campaign with its rows.
ResumeRead ==
  /\ resume = "idle"
  /\ campaign = "PAUSED"
  /\ resume' = IF \A j \in Jobs : status[j] \in Terminal THEN "complete" ELSE "enqueue"
  /\ resumeTodo' = {j \in Jobs : status[j] = "PENDING"}
  /\ UNCHANGED <<rowVars, campaignVars, queueVars, runVars, processVars, autoVars,
                 purging, launching>>

\* Nothing was left to send: PAUSED -> COMPLETED.
ResumeComplete ==
  /\ resume = "complete"
  /\ campaign' = IF campaign = "PAUSED" THEN "COMPLETED" ELSE campaign
  /\ resume' = "idle"
  /\ UNCHANGED <<rowVars, reason, queueVars, runVars, processVars, autoVars, resumeTodo,
                 purging, launching>>

\* Every row that was PENDING gets a queue entry while the campaign is still PAUSED.
ResumeEnqueue(j) ==
  /\ resume = "enqueue"
  /\ j \in resumeTodo /\ Room(j)
  /\ Enqueue(j)
  /\ resumeTodo' = resumeTodo \ {j}
  /\ UNCHANGED <<rowVars, campaignVars, stalled, events, runVars, processVars, autoVars,
                 resume, purging, launching>>

\* PAUSED -> SENDING, if it still is PAUSED; pauseReason is left as it is.
ResumeDone ==
  /\ resume = "enqueue"
  /\ resumeTodo = {}
  /\ campaign' = IF campaign = "PAUSED" THEN "SENDING" ELSE campaign
  /\ resume' = "idle"
  /\ UNCHANGED <<rowVars, reason, queueVars, runVars, processVars, autoVars, resumeTodo,
                 purging, launching>>

\* Wrong variant: the rows being sent are cancelled as well.
CancelSending ==
  /\ campaign \in Active \cup {"PAUSED"}
  /\ campaign' = "CANCELLED"
  /\ status' = [j \in Jobs |-> IF status[j] \in Terminal THEN status[j] ELSE "CANCELLED"]
  /\ UNCHANGED <<marker, copies, lost, reason, queueVars, runVars, processVars, autoVars,
                 apiVars>>

\* cancelCampaign: one transaction over the campaign and its PENDING rows.
Cancel ==
  /\ campaign \in Active \cup {"PAUSED"}
  /\ campaign' = "CANCELLED"
  /\ status' = [j \in Jobs |-> IF status[j] = "PENDING" THEN "CANCELLED" ELSE status[j]]
  /\ UNCHANGED <<marker, copies, lost, reason, queueVars, runVars, processVars, autoVars,
                 apiVars>>

User == Pause \/ Purge \/ ResumeRead \/ ResumeComplete \/ ResumeDone \/ Cancel
        \/ \E j \in Jobs : ResumeEnqueue(j)

Sweeps == SweepFind \/ SweepStuck \/ \E j \in Jobs : SweepRow(j)

Restart == RecoveryDone \/ SyncPending \/ \E j \in Jobs : RecoverOrphan(j)

Resumption == AutoFind \/ AutoSkip \/ AutoResume \/ AutoDone \/ \E j \in Jobs : AutoEnqueue(j)

BullMQ ==
  \E j \in Jobs, a \in Attempts :
    StalledCheck(j, a) \/ \E w \in Workers : Take(w, j, a) \/ ThrowOnRead(w, j, a)

Next ==
  \/ \E w \in Workers : WorkerStep(w)
  \/ \E j \in Jobs : Launch(j) \/ OnFailed(j)
  \/ BullMQ \/ Sweeps \/ Crash \/ Restart \/ Resumption \/ User

Spec == Init /\ [][Next]_vars

(***************************************************************************)
(* Fairness.  A running worker, BullMQ, the periodic sweeps, a restarted   *)
(* process and a request under way go on.  A queued entry is handed out    *)
(* although other entries compete for the workers, and the gates (limits,  *)
(* business hours, slots) do not postpone a worker's jobs for ever.        *)
(* Nothing obliges users to act or faults to happen.                       *)
(***************************************************************************)
Fairness ==
  /\ \A w \in Workers : WF_vars(WorkerStep(w)) /\ SF_vars(PassGates(w))
  /\ \A j \in Jobs :
       /\ SF_vars(\E w \in Workers, a \in Attempts : Take(w, j, a))
       /\ \A a \in Attempts : WF_vars(StalledCheck(j, a))
       /\ WF_vars(Launch(j)) /\ WF_vars(OnFailed(j))
       /\ WF_vars(SweepFind /\ j \in stale') /\ WF_vars(SweepRow(j))
  /\ WF_vars(SweepStuck) /\ WF_vars(Restart)
  /\ WF_vars(AutoSkip \/ AutoResume \/ AutoDone \/ \E j \in Jobs : AutoEnqueue(j))
  /\ WF_vars(ResumeComplete \/ ResumeDone \/ \E j \in Jobs : ResumeEnqueue(j))
  /\ WF_vars(Purge)

FairSpec == Spec /\ Fairness

(***************************************************************************)
(* Type correctness.                                                       *)
(***************************************************************************)
RowOK ==
  /\ status \in [Jobs -> JobStatus]
  /\ marker \subseteq Jobs
  /\ copies \in [Jobs -> Nat] /\ lost \in [Jobs -> Nat]

CampaignOK == campaign \in CampaignStatus /\ reason \in PauseReasons

QueueOK ==
  /\ queue \in [Jobs -> [Attempts -> Nat]]
  /\ stalled \in [Jobs -> [Attempts -> Nat]]
  /\ events \in [Jobs -> Nat]

RunOK ==
  /\ pc \in [Workers -> Steps]
  /\ job \in [Workers -> Jobs \cup {NoJob}]
  /\ try \in [Workers -> Attempts]
  /\ \A w \in Workers : pc[w] # "idle" => job[w] \in Jobs

ProcessOK ==
  /\ phase \in {"recover", "sync", "up"}
  /\ recovered \subseteq Jobs /\ stale \subseteq Jobs
  /\ crashes \in Nat /\ slips \in Nat

AutoOK == auto \in {"idle", "resume", "enqueue"} /\ autoTodo \subseteq Jobs

ApiOK ==
  /\ resume \in {"idle", "complete", "enqueue"} /\ resumeTodo \subseteq Jobs
  /\ purging \in BOOLEAN
  /\ launching \subseteq Jobs

TypeOK == RowOK /\ CampaignOK /\ QueueOK /\ RunOK /\ ProcessOK /\ AutoOK /\ ApiOK

(***************************************************************************)
(* Safety.                                                                 *)
(***************************************************************************)

\* A row says SENT only if the SMTP server has accepted the mail: the worker writes
\* SENT after sendMail resolved, and the recoveries only on the evidence of the
\* marker (emailWorker.ts:877-916, index.ts:35-68).
SentMeansAccepted == \A j \in Jobs : status[j] = "SENT" => copies[j] > 0

\* The inductive form of SentMeansAccepted: the two sources of SENT, the worker and the marker, both stand
\* for an accepted copy.
AcceptedInv ==
  /\ \A j \in Jobs : status[j] = "SENT" \/ j \in marker => copies[j] > 0
  /\ \A w \in Workers : pc[w] \in AfterSmtp => copies[job[w]] > 0

\* Every further copy of a mail is paid for by a crash or failed write that erased
\* the record of the copy before it: the claim lock keeps concurrent runs of
\* duplicate queue entries apart and the marker keeps the recoveries from sending
\* again (emailWorker.ts:365-386, index.ts:88-124, 194-228).
NoDuplicate == \A j \in Jobs : copies[j] <= lost[j] + 1

\* A COMPLETED campaign has no row left to send, whichever of the worker, the
\* listener, the sweeps and resumeCampaign completed it, and however long ago it
\* counted the rows (campaignCompletion.ts:4-43, state.ts:88-99).
CompletedMeansDone == campaign = "COMPLETED" => \A j \in Jobs : status[j] \in Terminal

\* A row that reached SENT, FAILED or CANCELLED keeps that status, although most
\* writes of the pipeline are unconditional (campaignStateMachine.ts:23-27).
TerminalIsFinal ==
  [][\A j \in Jobs : status[j] \in Terminal => status'[j] = status[j]]_vars

\* A mail leaves only while its row says SENDING: not after the job was cancelled,
\* handed back to the queue or settled by someone else (emailWorker.ts:362-386, 877).
OnlyClaimedSent ==
  [][\A j \in Jobs : copies'[j] > copies[j] => status[j] = "SENDING"]_vars

\* The claim lock: no two workers are between claim and final write of the same job,
\* although duplicate entries of it are queued (emailWorker.ts:362-386).
OneHolder == \A v, w \in Workers : v # w => \A j \in Jobs : ~(Holds(v, j) /\ Holds(w, j))

\* The pipeline keeps the promise of DeliveryContract.
Outcome(s) ==
  CASE s = "SENT" -> "sent" [] s = "FAILED" -> "failed" [] s = "CANCELLED" -> "cancelled"
    [] OTHER -> "open"

Contract == INSTANCE DeliveryContract WITH outcome <- [j \in Jobs |-> Outcome(status[j])]

KeepsContract == Contract!Spec

(***************************************************************************)
(* Why there is no duplicate: the inductive invariant behind NoDuplicate   *)
(* and OneHolder.                                                          *)
(***************************************************************************)

\* The faults the claim, the marker and the recoveries are built for.
Recoverable == Faults \subseteq {"crash", "db", "persist", "marker"}

\* Nothing is retried, and nobody stops paying.
FirstAttempts ==
  /\ \A w \in Workers : try[w] = 0 /\ pc[w] \notin {"unpaid", "unpaidPause"}
  /\ \A j \in Jobs : \A a \in Attempts \ {0} : queue[j][a] = 0 /\ stalled[j][a] = 0

\* A claimed row says so, unless the 'failed' listener has written over it.
HeldIsClaimed == \A w \in Workers, j \in Jobs : Holds(w, j) => status[j] \in {"SENDING", "FAILED"}

\* Nobody works or sweeps while the process recovers.
RestartIsQuiet == phase # "up" => stale = {} /\ \A w \in Workers : pc[w] = "idle"

\* What the sweep has found stays without a holder until it is handled.
StaleIsFree == \A j \in stale : ~Held(j) /\ status[j] \in {"SENDING", "FAILED"}

\* Where the record of the last accepted copy is: in the worker that sent it, in the
\* marker, or in the row.  A row that may be sent has no copy on record.
OneRecord ==
  /\ \A j \in Jobs : copies[j] \in {lost[j], lost[j] + 1}
  /\ \A j \in Jobs : status[j] \in {"PENDING", "CANCELLED"} => copies[j] = lost[j]
  /\ \A j \in marker : copies[j] = lost[j] + 1
  /\ \A w \in Workers : pc[w] \in BeforeSmtp => copies[job[w]] = lost[job[w]]
  /\ \A w \in Workers : pc[w] \in AfterSmtp => copies[job[w]] = lost[job[w]] + 1
  /\ \A j \in Jobs : status[j] = "SENDING" => Held(j) \/ j \in marker \/ copies[j] = lost[j]

\* Every copy on record is where recovery looks for it.
RecordInv ==
  FirstAttempts /\ OneHolder /\ HeldIsClaimed /\ RestartIsQuiet /\ StaleIsFree /\ OneRecord

(***************************************************************************)
(* Liveness.                                                               *)
(***************************************************************************)

\* No row stays SENDING: the worker ends it, or a restart or the stale sweep takes
\* it back (index.ts:76-87, 176-185).
NeverStuck == \A j \in Jobs : status[j] = "SENDING" ~> status[j] # "SENDING"

\* A mail the server has accepted is in the end reported as SENT, unless a fault
\* erased the last record of it (emailWorker.ts:974-1001, index.ts:35-68).
AcceptedBecomesSent ==
  \A j \in Jobs : copies[j] > lost[j] ~> status[j] = "SENT" \/ copies[j] = lost[j]

\* A campaign whose rows are all settled does not stay SCHEDULED or SENDING
\* (index.ts:315-338).
StuckCampaignCompletes ==
  (campaign \in Active /\ \A j \in Jobs : status[j] \in Terminal) ~> campaign \notin Active

\* A campaign that nobody pauses ends, whatever crashes (index.ts:76-87, 126-136).
UnpausedCampaignEnds == [](campaign # "PAUSED") => <>(campaign \notin Active)

(***************************************************************************)
(* What comments and documents say and the code does not keep.             *)
(***************************************************************************)

\* A row is FAILED only when no attempt is left (emailWorker.ts:1163-1166).
FailedAfterLastAttempt ==
  \A j \in Jobs : status[j] = "FAILED" => \A a \in Attempts \ {0} : queue[j][a] = 0

\* A SENT row is skipped: it stays SENT (emailWorker.ts:330).
SentIsFinal == [][\A j \in Jobs : status[j] = "SENT" => status'[j] = "SENT"]_vars

\* No transition leaves CANCELLED (campaignStateMachine.ts:7).
CancelledIsFinal == [][campaign = "CANCELLED" => campaign' = "CANCELLED"]_vars

\* The claim lock alone prevents a second copy of a mail that was not lost
\* (emailWorker.ts:369); with slow workers it does not.
ClaimPreventsDuplicates == \A j \in Jobs : copies[j] <= 1

\* A campaign is not stuck in SENDING for ever (index.ts:318).
NotStuckInSending == ~<>[](campaign = "SENDING")

\* A job that hit a limit is tried again (README.md:113).
LimitedIsRetried ==
  \A j \in Jobs : status[j] = "PENDING" /\ campaign = "SENDING"
                    ~> status[j] # "PENDING" \/ campaign # "SENDING"
=============================================================================
