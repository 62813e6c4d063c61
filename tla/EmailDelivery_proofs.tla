------------------------ MODULE EmailDelivery_proofs ------------------------
(***************************************************************************)
(* Theorems about EmailDelivery, for all jobs, workers, bounds and faults; *)
(* and that EmailDelivery implements DeliveryContract.                     *)
(***************************************************************************)
EXTENDS EmailDelivery, FiniteSetTheorems, TLAPS

(***************************************************************************)
(* Type correctness.  TypeOK is a conjunction of one part per group of     *)
(* variables; the first lemmas say what keeps a part.                      *)
(***************************************************************************)

\* A queue entry starts with attempt 0.
LEMMA AttemptsType == Attempts \subseteq Nat /\ 0 \in Attempts
  BY DeliveryAssumption DEF Attempts

\* A crash leaves a finite number of entries active.
LEMMA RunningFinite == \A j, a : Cardinality(Running(j, a)) \in Nat
  <1>. SUFFICES ASSUME NEW j, NEW a PROVE Cardinality(Running(j, a)) \in Nat
    OBVIOUS
  <1>1. IsFiniteSet(Workers)
    BY DeliveryAssumption
  <1>2. Running(j, a) \subseteq Workers
    BY DEF Running
  <1>. QED
    BY <1>1, <1>2, FS_Subset, FS_CardinalityType

\* A group of variables that does not change keeps its type.
LEMMA TypeUnchanged ==
  ASSUME TypeOK
  PROVE  /\ UNCHANGED rowVars => RowOK'
         /\ UNCHANGED campaignVars => CampaignOK'
         /\ UNCHANGED queueVars => QueueOK'
         /\ UNCHANGED runVars => RunOK'
         /\ UNCHANGED processVars => ProcessOK'
         /\ UNCHANGED autoVars => AutoOK'
         /\ UNCHANGED apiVars => ApiOK'
  <1>1. UNCHANGED rowVars => RowOK'
    BY DEF TypeOK, RowOK, rowVars
  <1>2. UNCHANGED campaignVars => CampaignOK'
    BY DEF TypeOK, CampaignOK, campaignVars
  <1>3. UNCHANGED queueVars => QueueOK'
    BY DEF TypeOK, QueueOK, queueVars
  <1>4. UNCHANGED runVars => RunOK'
    BY DEF TypeOK, RunOK, runVars
  <1>5. UNCHANGED processVars => ProcessOK'
    BY DEF TypeOK, ProcessOK, processVars
  <1>6. UNCHANGED autoVars => AutoOK'
    BY DEF TypeOK, AutoOK, autoVars
  <1>7. UNCHANGED apiVars => ApiOK'
    BY DEF TypeOK, ApiOK, apiVars
  <1>. QED
    BY <1>1, <1>2, <1>3, <1>4, <1>5, <1>6, <1>7

\* Moving a worker on, or ending its run.
LEMMA TypeGoto ==
  ASSUME RunOK, NEW w \in Workers, NEW step \in Steps, pc[w] # "idle", Goto(w, step)
  PROVE  RunOK'
  BY DEF RunOK, Goto

LEMMA TypeReturn ==
  ASSUME RunOK, NEW w \in Workers, Return(w)
  PROVE  RunOK'
  BY AttemptsType DEF RunOK, Return, Steps

\* A worker that is running has a job.
LEMMA TypeJob ==
  ASSUME RunOK, NEW w \in Workers, pc[w] # "idle"
  PROVE  job[w] \in Jobs /\ try[w] \in Attempts
  BY DEF RunOK

\* A change of one counter of the queue.
LEMMA TypeEntry ==
  ASSUME NEW f \in [Jobs -> [Attempts -> Nat]], NEW j \in Jobs, NEW a \in Attempts, NEW n \in Nat
  PROVE  [f EXCEPT ![j][a] = n] \in [Jobs -> [Attempts -> Nat]]
  OBVIOUS

\* A failed attempt of a run, or of an entry that is taken out of the queue.
LEMMA TypeFailAttempt ==
  ASSUME QueueOK, ProcessOK, NEW j \in Jobs, NEW a \in Attempts,
         NEW q \in [Jobs -> [Attempts -> Nat]], FailAttempt(q, j, a)
  PROVE  QueueOK' /\ ProcessOK'
  <1>1. a + 1 < MaxAttempts => a + 1 \in Attempts
    BY DeliveryAssumption DEF Attempts
  <1>2. QueueOK'
    BY <1>1 DEF FailAttempt, QueueOK
  <1>3. ProcessOK'
    BY DEF FailAttempt, ProcessOK
  <1>. QED
    BY <1>2, <1>3

\* Writes of one row, and of one queue entry.
LEMMA TypeSetStatus ==
  ASSUME RowOK, NEW j \in Jobs, NEW s \in JobStatus, SetStatus(j, s)
  PROVE  status' \in [Jobs -> JobStatus]
  BY DEF RowOK, SetStatus

LEMMA TypeEnqueue ==
  ASSUME QueueOK, NEW j \in Jobs, Enqueue(j)
  PROVE  queue' \in [Jobs -> [Attempts -> Nat]]
  BY AttemptsType DEF QueueOK, Enqueue

LEMMA TypeComplete ==
  ASSUME CampaignOK, NEW st
  PROVE  CompleteIfDone(st) \in CampaignStatus
  BY DEF CampaignOK, CompleteIfDone, CampaignStatus

LEMMA TypeInit == Init => TypeOK
  <1>. SUFFICES ASSUME Init PROVE TypeOK
    OBVIOUS
  <1>1. RowOK
    BY DEF Init, RowOK, JobStatus
  <1>2. CampaignOK
    BY DEF Init, CampaignOK, CampaignStatus, PauseReasons
  <1>3. QueueOK
    BY DEF Init, QueueOK
  <1>4. RunOK
    BY AttemptsType DEF Init, RunOK, Steps
  <1>5. ProcessOK
    BY DEF Init, ProcessOK
  <1>6. AutoOK
    BY DEF Init, AutoOK
  <1>7. ApiOK
    BY DEF Init, ApiOK
  <1>. QED
    BY <1>1, <1>2, <1>3, <1>4, <1>5, <1>6, <1>7 DEF TypeOK

\* Every step of the worker keeps the types.
LEMMA TypeWorker ==
  ASSUME TypeOK, NEW w \in Workers, WorkerStep(w)
  PROVE  TypeOK'
  <1>. USE TypeUnchanged DEF TypeOK
  <1>s. /\ {"PENDING", "FAILED", "SENDING", "SENT"} \subseteq JobStatus
        /\ {"SENDING", "PAUSED", "COMPLETED"} \subseteq CampaignStatus
        /\ {"start", "gates", "smtp", "accepted", "persist", "unpaidPause", "exhausted",
            "count", "complete"} \subseteq Steps
    BY DEF JobStatus, CampaignStatus, Steps, Claimed, BeforeSmtp, AfterSmtp
  <1>1. CASE ResetUnpaid(w)
    BY <1>1, <1>s, TypeGoto, TypeJob, TypeSetStatus DEF ResetUnpaid, RowOK
  <1>2. CASE PauseUnpaid(w)
    BY <1>2, <1>s, TypeReturn DEF PauseUnpaid, CampaignOK, PauseReasons
  <1>3. CASE Claim(w)
    BY <1>3, <1>s, TypeGoto, TypeReturn, TypeJob, TypeSetStatus DEF Claim, RowOK
  <1>4. CASE StartCampaign(w)
    BY <1>4, <1>s, TypeGoto DEF StartCampaign, CampaignOK
  <1>5. CASE PassGates(w)
    BY <1>5, <1>s, TypeGoto DEF PassGates
  <1>6. CASE Reject(w)
    BY <1>6, <1>s, TypeGoto, TypeReturn, TypeJob, TypeSetStatus DEF Reject, MarkFailed, RowOK
  <1>7. CASE Defer(w)
    BY <1>7, <1>s, TypeReturn, TypeJob, TypeSetStatus, TypeEnqueue DEF Defer, RowOK, QueueOK
  <1>8. CASE ParkWithoutPool(w)
    BY <1>8, <1>s, TypeReturn, TypeJob, TypeSetStatus DEF ParkWithoutPool, RowOK
  <1>9. CASE ResetExhausted(w)
    BY <1>9, <1>s, TypeGoto, TypeJob, TypeSetStatus DEF ResetExhausted, RowOK
  <1>10. CASE PauseExhausted(w)
    BY <1>10, <1>s, TypeReturn DEF PauseExhausted, CampaignOK, PauseReasons
  <1>11. CASE SmtpAccept(w)
    BY <1>11, <1>s, TypeGoto, TypeJob DEF SmtpAccept, RowOK
  <1>12. CASE SmtpBounce(w)
    BY <1>12, <1>s, TypeGoto, TypeReturn, TypeJob, TypeSetStatus DEF SmtpBounce, MarkFailed, RowOK
  <1>13. CASE Throw(w)
    <2>1. /\ status' = status \/ SetStatus(job[w], "PENDING")
          /\ \E n \in {0, 1} : /\ copies' = [copies EXCEPT ![job[w]] = @ + n]
                               /\ lost' = [lost EXCEPT ![job[w]] = @ + n]
          /\ marker' = marker
          /\ FailAttempt(queue, job[w], try[w]) /\ Return(w)
          /\ UNCHANGED <<campaignVars, autoVars, apiVars>>
          /\ job[w] \in Jobs /\ try[w] \in Attempts
      BY <1>13, TypeJob DEF Throw
    <2>2. RowOK'
      BY <2>1, <1>s, TypeSetStatus DEF RowOK
    <2>3. QueueOK' /\ ProcessOK'
      BY <2>1, TypeFailAttempt DEF QueueOK
    <2>. QED
      BY <2>1, <2>2, <2>3, TypeReturn
  <1>14. CASE Mark(w)
    BY <1>14, <1>s, TypeGoto, TypeJob DEF Mark, RowOK
  <1>15. CASE Persist(w)
    BY <1>15, <1>s, TypeGoto, TypeJob, TypeSetStatus DEF Persist, RowOK
  <1>16. CASE PersistFails(w)
    <2>1. RowOK'
      BY <1>16, <1>s, TypeJob, TypeSetStatus DEF PersistFails, RowOK
    <2>. QED
      BY <1>16, <2>1, TypeReturn DEF PersistFails
  <1>17. CASE CountOpen(w)
    BY <1>17, <1>s, TypeGoto, TypeReturn DEF CountOpen
  <1>18. CASE Complete(w)
    BY <1>18, <1>s, TypeReturn DEF Complete, CampaignOK
  <1>. QED
    BY <1>1, <1>2, <1>3, <1>4, <1>5, <1>6, <1>7, <1>8, <1>9, <1>10, <1>11, <1>12,
       <1>13, <1>14, <1>15, <1>16, <1>17, <1>18 DEF WorkerStep

\* Every step of BullMQ keeps the types.
LEMMA TypeBullMQ ==
  ASSUME TypeOK, BullMQ
  PROVE  TypeOK'
  <1>. USE TypeUnchanged DEF TypeOK
  <1>1. ASSUME NEW j \in Jobs, NEW a \in Attempts, StalledCheck(j, a)
        PROVE  TypeOK'
    <2>1. stalled' \in [Jobs -> [Attempts -> Nat]]
      <3>1. stalled[j][a] > 0 /\ stalled' = [stalled EXCEPT ![j][a] = @ - 1]
        BY <1>1 DEF StalledCheck
      <3>2. stalled \in [Jobs -> [Attempts -> Nat]] /\ stalled[j][a] - 1 \in Nat
        BY <3>1 DEF QueueOK
      <3>. QED
        BY <3>1, <3>2, TypeEntry
    <2>2. queue' \in [Jobs -> [Attempts -> Nat]]
      <3>1. queue' = queue \/ queue' = [queue EXCEPT ![j][a] = @ + 1]
        BY <1>1 DEF StalledCheck
      <3>2. queue \in [Jobs -> [Attempts -> Nat]] /\ queue[j][a] + 1 \in Nat
        BY DEF QueueOK
      <3>. QED
        BY <3>1, <3>2, TypeEntry
    <2>3. events' \in [Jobs -> Nat]
      BY <1>1 DEF StalledCheck, QueueOK
    <2>. QED
      BY <1>1, <2>1, <2>2, <2>3 DEF StalledCheck, QueueOK
  <1>2. ASSUME NEW j \in Jobs, NEW a \in Attempts, NEW w \in Workers, Take(w, j, a)
        PROVE  TypeOK'
    <2>1. QueueOK'
      BY <1>2 DEF Take, QueueOK
    <2>2. PICK step \in {NextAfterRead(j, a), "unpaid"} :
            IF step = "idle"
            THEN UNCHANGED runVars
            ELSE /\ pc' = [pc EXCEPT ![w] = step]
                 /\ job' = [job EXCEPT ![w] = j]
                 /\ try' = [try EXCEPT ![w] = a]
      BY <1>2 DEF Take
    <2>3. step \in Steps
      BY DEF NextAfterRead, Steps
    <2>4. RunOK'
      BY <2>2, <2>3 DEF RunOK
    <2>. QED
      BY <1>2, <2>1, <2>4 DEF Take
  <1>3. ASSUME NEW j \in Jobs, NEW a \in Attempts, NEW w \in Workers, ThrowOnRead(w, j, a)
        PROVE  TypeOK'
    <2>1. [queue EXCEPT ![j][a] = @ - 1] \in [Jobs -> [Attempts -> Nat]]
      BY <1>3 DEF ThrowOnRead, QueueOK
    <2>2. QueueOK' /\ ProcessOK'
      BY <1>3, <2>1, TypeFailAttempt DEF ThrowOnRead
    <2>. QED
      BY <1>3, <2>2 DEF ThrowOnRead
  <1>. QED
    BY <1>1, <1>2, <1>3 DEF BullMQ

\* The launch of the campaign and the 'failed' listener keep the types.
LEMMA TypeLaunch ==
  ASSUME TypeOK, NEW j \in Jobs, Launch(j)
  PROVE  TypeOK'
  BY TypeUnchanged, TypeEnqueue DEF Launch, TypeOK, QueueOK, ApiOK

LEMMA TypeOnFailed ==
  ASSUME TypeOK, NEW j \in Jobs, OnFailed(j)
  PROVE  TypeOK'
  <1>. USE TypeUnchanged DEF TypeOK
  <1>1. RowOK'
    BY TypeSetStatus DEF OnFailed, RowOK, JobStatus
  <1>2. CampaignOK'
    BY TypeComplete DEF OnFailed, CampaignOK
  <1>3. QueueOK'
    BY DEF OnFailed, QueueOK
  <1>. QED
    BY <1>1, <1>2, <1>3 DEF OnFailed

\* The sweeps keep the types.
LEMMA TypeSweeps ==
  ASSUME TypeOK, Sweeps
  PROVE  TypeOK'
  <1>. USE TypeUnchanged DEF TypeOK
  <1>1. CASE SweepFind
    BY <1>1 DEF SweepFind, ProcessOK
  <1>2. CASE SweepStuck
    BY <1>2, TypeComplete DEF SweepStuck, CampaignOK
  <1>3. ASSUME NEW j \in Jobs, SweepRow(j)
        PROVE  TypeOK'
    <2>1. RowOK'
      BY <1>3, TypeSetStatus DEF SweepRow, RecoverAccepted, RowOK, JobStatus
    <2>2. CampaignOK'
      BY <1>3, TypeComplete DEF SweepRow, RecoverAccepted, CampaignOK
    <2>3. QueueOK'
      BY <1>3, TypeEnqueue DEF SweepRow, QueueOK
    <2>4. ProcessOK'
      BY <1>3 DEF SweepRow, ProcessOK
    <2>. QED
      BY <1>3, <2>1, <2>2, <2>3, <2>4 DEF SweepRow
  <1>. QED
    BY <1>1, <1>2, <1>3 DEF Sweeps

\* A crash keeps the types.
LEMMA TypeCrash ==
  ASSUME TypeOK, Crash
  PROVE  TypeOK'
  <1>. USE TypeUnchanged DEF TypeOK
  <1>1. RowOK'
    BY DEF Crash, RowOK
  <1>2. \A j \in Jobs, a \in Attempts :
          stalled[j][a] + Cardinality(Running(j, a)) \in Nat
    BY RunningFinite DEF QueueOK
  <1>3. QueueOK'
    BY <1>2 DEF Crash, QueueOK
  <1>4. RunOK'
    BY AttemptsType DEF Crash, RunOK, Steps
  <1>5. ProcessOK' /\ AutoOK'
    BY DEF Crash, ProcessOK, AutoOK
  <1>. QED
    BY <1>1, <1>3, <1>4, <1>5 DEF Crash

\* The self-healing start keeps the types.
LEMMA TypeRestart ==
  ASSUME TypeOK, Restart
  PROVE  TypeOK'
  <1>. USE TypeUnchanged DEF TypeOK
  <1>1. CASE RecoveryDone
    BY <1>1 DEF RecoveryDone, ProcessOK
  <1>2. CASE SyncPending
    <2>1. QueueOK'
      BY <1>2, AttemptsType DEF SyncPending, QueueOK
    <2>2. CampaignOK' /\ ProcessOK'
      BY <1>2, TypeComplete DEF SyncPending, CampaignOK, ProcessOK
    <2>. QED
      BY <1>2, <2>1, <2>2 DEF SyncPending
  <1>3. ASSUME NEW j \in Jobs, RecoverOrphan(j)
        PROVE  TypeOK'
    <2>1. RowOK'
      BY <1>3, TypeSetStatus DEF RecoverOrphan, RecoverAccepted, RowOK, JobStatus
    <2>2. CampaignOK'
      BY <1>3, TypeComplete DEF RecoverOrphan, RecoverAccepted, CampaignOK
    <2>3. QueueOK'
      BY <1>3, TypeEnqueue DEF RecoverOrphan, QueueOK
    <2>4. ProcessOK'
      BY <1>3 DEF RecoverOrphan, ProcessOK
    <2>. QED
      BY <1>3, <2>1, <2>2, <2>3, <2>4 DEF RecoverOrphan
  <1>. QED
    BY <1>1, <1>2, <1>3 DEF Restart

\* The automatic resume keeps the types.
LEMMA TypeAuto ==
  ASSUME TypeOK, Resumption
  PROVE  TypeOK'
  <1>. USE TypeUnchanged DEF TypeOK
  <1>1. CASE AutoFind
    BY <1>1 DEF AutoFind, AutoOK
  <1>2. CASE AutoSkip
    BY <1>2 DEF AutoSkip, AutoOK
  <1>3. CASE AutoResume
    BY <1>3 DEF AutoResume, AutoOK, CampaignOK, CampaignStatus, PauseReasons
  <1>4. CASE AutoDone
    BY <1>4 DEF AutoDone, AutoOK
  <1>5. ASSUME NEW j \in Jobs, AutoEnqueue(j)
        PROVE  TypeOK'
    BY <1>5, TypeEnqueue DEF AutoEnqueue, AutoOK, QueueOK
  <1>. QED
    BY <1>1, <1>2, <1>3, <1>4, <1>5 DEF Resumption

\* The handlers of the API keep the types.
LEMMA TypeUser ==
  ASSUME TypeOK, User
  PROVE  TypeOK'
  <1>. USE TypeUnchanged DEF TypeOK
  <1>1. CASE Pause
    <2>1. ApiOK'
      BY <1>1 DEF Pause, ApiOK
    <2>. QED
      BY <1>1, <2>1 DEF Pause, CampaignOK, CampaignStatus
  <1>2. CASE Purge
    <2>1. ApiOK'
      BY <1>2 DEF Purge, ApiOK
    <2>2. QueueOK'
      BY <1>2 DEF Purge, QueueOK
    <2>. QED
      BY <1>2, <2>1, <2>2 DEF Purge
  <1>3. CASE ResumeRead
    BY <1>3 DEF ResumeRead, ApiOK
  <1>4. CASE ResumeComplete
    BY <1>4 DEF ResumeComplete, ApiOK, CampaignOK, CampaignStatus
  <1>5. CASE ResumeDone
    BY <1>5 DEF ResumeDone, ApiOK, CampaignOK, CampaignStatus
  <1>6. CASE Cancel
    BY <1>6 DEF Cancel, RowOK, JobStatus, CampaignOK, CampaignStatus
  <1>7. ASSUME NEW j \in Jobs, ResumeEnqueue(j)
        PROVE  TypeOK'
    BY <1>7, TypeEnqueue DEF ResumeEnqueue, ApiOK, QueueOK
  <1>. QED
    BY <1>1, <1>2, <1>3, <1>4, <1>5, <1>6, <1>7 DEF User

\* The state of the rows, the queue, the processes and the campaign is well typed in
\* every behaviour, whatever the faults.
THEOREM TypeCorrect == Spec => []TypeOK
  <1>1. TypeOK /\ [Next]_vars => TypeOK'
    <2>. SUFFICES ASSUME TypeOK, [Next]_vars PROVE TypeOK'
      OBVIOUS
    <2>1. CASE UNCHANGED vars
      BY <2>1, TypeUnchanged DEF vars, TypeOK
    <2>2. CASE Next
      BY <2>2, TypeWorker, TypeLaunch, TypeOnFailed, TypeBullMQ, TypeSweeps, TypeCrash,
         TypeRestart, TypeAuto, TypeUser DEF Next
    <2>. QED
      BY <2>1, <2>2
  <1>. QED
    BY <1>1, TypeInit, PTL DEF Spec

(***************************************************************************)
(* SENT is the truth.  AcceptedInv speaks of the rows and of the runs.     *)
(***************************************************************************)
LEMMA AcceptedUnchanged ==
  ASSUME AcceptedInv, UNCHANGED <<status, marker, copies, pc, job>>
  PROVE  AcceptedInv'
  BY DEF AcceptedInv

\* Moving on to a step that is not after SMTP, or returning, with the same copies and
\* markers, and no new SENT.
LEMMA AcceptedMove ==
  ASSUME AcceptedInv, RunOK, RowOK, NEW w \in Workers,
         UNCHANGED <<marker, copies>>,
         \A j \in Jobs : status'[j] = "SENT" => status[j] = "SENT" \/ copies[j] > 0,
         Return(w) \/ \E step \in Steps \ AfterSmtp : Goto(w, step)
  PROVE  AcceptedInv'
  <1>1. \A v \in Workers : pc'[v] \in AfterSmtp => pc'[v] = pc[v] /\ job'[v] = job[v]
    BY DEF Return, Goto, RunOK, AfterSmtp
  <1>2. \A v \in Workers : pc'[v] \in AfterSmtp => copies'[job'[v]] > 0
    BY <1>1 DEF AcceptedInv
  <1>3. \A j \in Jobs : status'[j] = "SENT" \/ j \in marker' => copies'[j] > 0
    BY DEF AcceptedInv
  <1>. QED
    BY <1>2, <1>3 DEF AcceptedInv

LEMMA AcceptedWorker ==
  ASSUME TypeOK, AcceptedInv, NEW w \in Workers, WorkerStep(w)
  PROVE  AcceptedInv'
  <1>. USE DEF TypeOK
  <1>s. {"start", "gates", "smtp", "unpaidPause", "exhausted", "count", "complete"}
          \subseteq Steps \ AfterSmtp
    BY DEF Steps, Claimed, BeforeSmtp, AfterSmtp
  <1>1. CASE ResetUnpaid(w)
    BY <1>1, <1>s, AcceptedMove DEF ResetUnpaid, SetStatus, RowOK
  <1>2. CASE PauseUnpaid(w)
    BY <1>2, <1>s, AcceptedMove DEF PauseUnpaid, rowVars
  <1>3. CASE Claim(w)
    BY <1>3, <1>s, AcceptedMove DEF Claim, SetStatus, RowOK
  <1>4. CASE StartCampaign(w)
    BY <1>4, <1>s, AcceptedMove DEF StartCampaign, rowVars
  <1>5. CASE PassGates(w)
    BY <1>5, <1>s, AcceptedMove DEF PassGates, rowVars
  <1>6. CASE Reject(w)
    BY <1>6, <1>s, AcceptedMove DEF Reject, MarkFailed, SetStatus, RowOK
  <1>7. CASE Defer(w)
    BY <1>7, <1>s, AcceptedMove DEF Defer, SetStatus, RowOK
  <1>8. CASE ParkWithoutPool(w)
    BY <1>8, <1>s, AcceptedMove DEF ParkWithoutPool, SetStatus, RowOK
  <1>9. CASE ResetExhausted(w)
    BY <1>9, <1>s, AcceptedMove DEF ResetExhausted, SetStatus, RowOK
  <1>10. CASE PauseExhausted(w)
    BY <1>10, <1>s, AcceptedMove DEF PauseExhausted, rowVars
  <1>11. CASE SmtpAccept(w)
    BY <1>11, TypeJob DEF SmtpAccept, Goto, RowOK, RunOK, AcceptedInv
  <1>12. CASE SmtpBounce(w)
    BY <1>12, <1>s, AcceptedMove DEF SmtpBounce, MarkFailed, SetStatus, RowOK
  <1>13. CASE Throw(w)
    <2>1. PICK n \in {0, 1} : copies' = [copies EXCEPT ![job[w]] = @ + n]
      BY <1>13 DEF Throw
    <2>2. \A j \in Jobs : copies'[j] >= copies[j]
      BY <2>1 DEF RowOK
    <2>3. marker' = marker /\ \A j \in Jobs : status'[j] = "SENT" => status[j] = "SENT"
      BY <1>13 DEF Throw, SetStatus, RowOK
    <2>4. \A v \in Workers : pc'[v] # "idle" => v # w /\ pc'[v] = pc[v] /\ job'[v] = job[v]
      BY <1>13 DEF Throw, Return, RunOK
    <2>5. \A j \in Jobs : copies[j] \in Nat /\ copies'[j] \in Nat
      BY <2>1 DEF RowOK
    <2>6. \A v \in Workers : pc'[v] \in AfterSmtp => copies'[job'[v]] > 0
      BY <2>2, <2>4, <2>5 DEF AcceptedInv, AfterSmtp, RunOK
    <2>. QED
      BY <2>2, <2>3, <2>5, <2>6 DEF AcceptedInv
  <1>14. CASE Mark(w)
    BY <1>14, TypeJob DEF Mark, Goto, RowOK, RunOK, AcceptedInv, AfterSmtp
  <1>15. CASE Persist(w)
    <2>1. copies[job[w]] > 0
      BY <1>15 DEF Persist, AcceptedInv, AfterSmtp
    <2>. QED
      BY <1>15, <1>s, <2>1, AcceptedMove DEF Persist, SetStatus, RowOK
  <1>16. CASE PersistFails(w)
    <2>1. copies[job[w]] > 0
      BY <1>16 DEF PersistFails, AcceptedInv, AfterSmtp
    <2>2. \A v \in Workers : pc'[v] # "idle" => pc'[v] = pc[v] /\ job'[v] = job[v]
      BY <1>16 DEF PersistFails, Return, RunOK
    <2>3. copies' = copies /\ marker' \subseteq marker \cup {job[w]}
      BY <1>16 DEF PersistFails
    <2>4. \A j \in Jobs : status'[j] = "SENT" => status[j] = "SENT" \/ j = job[w]
      BY <1>16 DEF PersistFails, SetStatus, RowOK
    <2>. QED
      BY <2>1, <2>2, <2>3, <2>4 DEF AcceptedInv, AfterSmtp
  <1>17. CASE CountOpen(w)
    BY <1>17, <1>s, AcceptedMove DEF CountOpen, rowVars
  <1>18. CASE Complete(w)
    BY <1>18, <1>s, AcceptedMove DEF Complete, rowVars
  <1>. QED
    BY <1>1, <1>2, <1>3, <1>4, <1>5, <1>6, <1>7, <1>8, <1>9, <1>10, <1>11, <1>12,
       <1>13, <1>14, <1>15, <1>16, <1>17, <1>18 DEF WorkerStep

\* The steps of everyone but the workers.
LEMMA AcceptedOthers ==
  ASSUME TypeOK, AcceptedInv,
         \/ \E j \in Jobs : Launch(j) \/ OnFailed(j)
         \/ BullMQ \/ Sweeps \/ Crash \/ Restart \/ Resumption \/ User
  PROVE  AcceptedInv'
  <1>. USE DEF TypeOK
  <1>1. ASSUME NEW j \in Jobs, Launch(j) \/ OnFailed(j)
        PROVE  AcceptedInv'
    BY <1>1 DEF Launch, OnFailed, SetStatus, RowOK, rowVars, runVars, AcceptedInv
  <1>2. CASE BullMQ
    <2>1. ASSUME NEW j \in Jobs, NEW a \in Attempts, NEW w \in Workers, Take(w, j, a)
          PROVE  AcceptedInv'
      <3>1. \A v \in Workers : pc'[v] \in AfterSmtp => pc'[v] = pc[v] /\ job'[v] = job[v]
        BY <2>1 DEF Take, NextAfterRead, AfterSmtp, RunOK, runVars
      <3>. QED
        BY <2>1, <3>1 DEF Take, rowVars, AcceptedInv
    <2>. QED
      BY <1>2, <2>1, AcceptedUnchanged DEF BullMQ, StalledCheck, ThrowOnRead, rowVars, runVars
  <1>3. CASE Sweeps
    <2>1. ASSUME NEW j \in Jobs, SweepRow(j)
          PROVE  AcceptedInv'
      BY <2>1 DEF SweepRow, RecoverAccepted, SetStatus, RowOK, runVars, AcceptedInv
    <2>. QED
      BY <1>3, <2>1, AcceptedUnchanged DEF Sweeps, SweepFind, SweepStuck, rowVars, runVars
  <1>4. CASE Crash
    BY <1>4 DEF Crash, AcceptedInv, AfterSmtp
  <1>5. CASE Restart
    <2>1. ASSUME NEW j \in Jobs, RecoverOrphan(j)
          PROVE  AcceptedInv'
      BY <2>1 DEF RecoverOrphan, RecoverAccepted, SetStatus, RowOK, runVars, AcceptedInv
    <2>. QED
      BY <1>5, <2>1, AcceptedUnchanged DEF Restart, RecoveryDone, SyncPending, rowVars, runVars
  <1>6. CASE Resumption
    BY <1>6, AcceptedUnchanged DEF Resumption, AutoFind, AutoSkip, AutoResume, AutoDone,
       AutoEnqueue, rowVars, runVars
  <1>7. CASE User
    <2>1. CASE Cancel
      BY <2>1 DEF Cancel, RowOK, runVars, AcceptedInv
    <2>. QED
      BY <1>7, <2>1, AcceptedUnchanged DEF User, Pause, Purge, ResumeRead, ResumeComplete,
         ResumeDone, ResumeEnqueue, rowVars, runVars
  <1>. QED
    BY <1>1, <1>2, <1>3, <1>4, <1>5, <1>6, <1>7

\* A row says SENT only if the SMTP server has accepted the mail, whatever the faults.
THEOREM SentIsTrue == Spec => []SentMeansAccepted
  <1>1. Init => AcceptedInv
    BY DEF Init, AcceptedInv, AfterSmtp
  <1>2. TypeOK /\ AcceptedInv /\ [Next]_vars => AcceptedInv'
    <2>. SUFFICES ASSUME TypeOK, AcceptedInv, [Next]_vars PROVE AcceptedInv'
      OBVIOUS
    <2>1. CASE UNCHANGED vars
      BY <2>1, AcceptedUnchanged DEF vars, rowVars, runVars
    <2>2. CASE Next
      BY <2>2, AcceptedWorker, AcceptedOthers DEF Next
    <2>. QED
      BY <2>1, <2>2
  <1>3. AcceptedInv => SentMeansAccepted
    BY DEF AcceptedInv, SentMeansAccepted
  <1>. QED
    BY <1>1, <1>2, <1>3, TypeCorrect, PTL DEF Spec

(***************************************************************************)
(* No duplicates.  Without retries, mistaken sweeps and lapsed owners      *)
(* (Recoverable), RecordInv is inductive: a row is claimed by one worker   *)
(* at a time, and the record of an accepted copy is always where the       *)
(* claim, the sweep or the restart looks before the row is sent again.     *)
(* Its first part only says that attempt 0 is the only one.                *)
(***************************************************************************)
LEMMA NoFaults == Recoverable => {"transient", "slow", "premium"} \cap Faults = {}
  BY DEF Recoverable

LEMMA FirstAttemptsStep ==
  ASSUME TypeOK, FirstAttempts, Recoverable, [Next]_vars
  PROVE  FirstAttempts'
  <1>. USE NoFaults, AttemptsType DEF TypeOK
  <1>q. ASSUME UNCHANGED stalled, UNCHANGED <<pc, try>>,
               UNCHANGED queue \/ \E j \in Jobs : Enqueue(j)
        PROVE  FirstAttempts'
    BY <1>q DEF FirstAttempts, Enqueue, QueueOK
  <1>1. CASE UNCHANGED vars
    BY <1>1, <1>q DEF vars, queueVars, runVars
  <1>2. ASSUME NEW w \in Workers, WorkerStep(w)
        PROVE  FirstAttempts'
    <2>1. ~Throw(w)
      BY DEF Throw
    <2>2. UNCHANGED stalled /\ (UNCHANGED queue \/ \E j \in Jobs : Enqueue(j))
      BY <1>2, <2>1, TypeJob DEF WorkerStep, ResetUnpaid, PauseUnpaid, Claim, StartCampaign,
         PassGates, Reject, Defer, ParkWithoutPool, ResetExhausted, PauseExhausted, SmtpAccept,
         SmtpBounce, Mark, Persist, PersistFails, CountOpen, Complete, queueVars
    <2>3. Return(w) \/ \E step \in Steps \ {"unpaid", "unpaidPause"} : Goto(w, step)
      BY <1>2, <2>1 DEF WorkerStep, ResetUnpaid, PauseUnpaid, Claim, StartCampaign,
         PassGates, Reject, Defer, ParkWithoutPool, ResetExhausted, PauseExhausted, SmtpAccept,
         SmtpBounce, MarkFailed, Mark, Persist, PersistFails, CountOpen, Complete,
         FirstAttempts, Steps, Claimed, BeforeSmtp, AfterSmtp
    <2>4. \A v \in Workers : try'[v] = 0 /\ pc'[v] \notin {"unpaid", "unpaidPause"}
      BY <2>3 DEF FirstAttempts, Return, Goto, RunOK
    <2>5. \A j \in Jobs : \A a \in Attempts \ {0} : queue'[j][a] = 0 /\ stalled'[j][a] = 0
      BY <2>2 DEF FirstAttempts, Enqueue, QueueOK
    <2>. QED
      BY <2>4, <2>5 DEF FirstAttempts
  <1>3. ASSUME NEW j \in Jobs, Launch(j) \/ OnFailed(j)
        PROVE  FirstAttempts'
    BY <1>3, <1>q DEF Launch, OnFailed, runVars
  <1>4. CASE BullMQ
    <2>1. ASSUME NEW j \in Jobs, NEW a \in Attempts, StalledCheck(j, a)
          PROVE  FirstAttempts'
      <3>1. a = 0
        BY <2>1 DEF StalledCheck, FirstAttempts
      <3>2. \A i \in Jobs : \A b \in Attempts \ {0} :
              queue'[i][b] = queue[i][b] /\ stalled'[i][b] = stalled[i][b]
        BY <2>1, <3>1 DEF StalledCheck, QueueOK
      <3>. QED
        BY <2>1, <3>2 DEF StalledCheck, FirstAttempts, runVars
    <2>2. ASSUME NEW j \in Jobs, NEW a \in Attempts, NEW w \in Workers, Take(w, j, a)
          PROVE  FirstAttempts'
      <3>1. a = 0
        BY <2>2 DEF Take, FirstAttempts
      <3>2. \A i \in Jobs : \A b \in Attempts \ {0} : queue'[i][b] = queue[i][b]
        BY <2>2, <3>1 DEF Take, QueueOK
      <3>3. \A v \in Workers : try'[v] = 0 /\ pc'[v] \notin {"unpaid", "unpaidPause"}
        BY <2>2, <3>1 DEF Take, NextAfterRead, FirstAttempts, RunOK, runVars
      <3>. QED
        BY <2>2, <3>2, <3>3 DEF Take, FirstAttempts
    <2>. QED
      BY <1>4, <2>1, <2>2 DEF BullMQ, ThrowOnRead
  <1>5. CASE Sweeps
    BY <1>5, <1>q DEF Sweeps, SweepFind, SweepStuck, SweepRow, queueVars, runVars
  <1>6. CASE Crash
    <2>1. \A j \in Jobs : \A a \in Attempts \ {0} : Running(j, a) = {}
      BY DEF Running, FirstAttempts
    <2>2. \A j \in Jobs : \A a \in Attempts \ {0} : stalled'[j][a] = stalled[j][a] + 0
      <3>1. \A j \in Jobs : \A a \in Attempts :
              stalled'[j][a] = stalled[j][a] + Cardinality(Running(j, a))
        BY <1>6 DEF Crash
      <3>. QED
        BY <2>1, <3>1, FS_EmptySet
    <2>. QED
      BY <1>6, <2>2 DEF Crash, FirstAttempts
  <1>7. CASE Restart
    <2>1. ASSUME SyncPending
          PROVE  FirstAttempts'
      BY <2>1 DEF SyncPending, FirstAttempts, QueueOK, runVars
    <2>. QED
      BY <1>7, <1>q, <2>1 DEF Restart, RecoveryDone, RecoverOrphan, queueVars, runVars
  <1>8. CASE Resumption
    BY <1>8, <1>q DEF Resumption, AutoFind, AutoSkip, AutoResume, AutoDone, AutoEnqueue,
       queueVars, runVars
  <1>9. CASE User
    <2>1. ASSUME Purge
          PROVE  FirstAttempts'
      BY <2>1 DEF Purge, FirstAttempts, runVars
    <2>. QED
      BY <1>9, <1>q, <2>1 DEF User, Pause, ResumeRead, ResumeComplete, ResumeEnqueue,
         ResumeDone, Cancel, queueVars, runVars
  <1>. QED
    BY <1>1, <1>2, <1>3, <1>4, <1>5, <1>6, <1>7, <1>8, <1>9 DEF Next

\* Claims and records depend on the rows, the steps of the workers, the phase of the
\* process and what the sweep has found.
ClaimInv == OneHolder /\ HeldIsClaimed /\ RestartIsQuiet /\ StaleIsFree

LEMMA ClaimUnchanged ==
  ASSUME ClaimInv, OneRecord, UNCHANGED <<rowVars, pc, job, phase>>, stale' \subseteq stale
  PROVE  ClaimInv' /\ OneRecord'
  <1>1. \A j : Held(j)' <=> Held(j)
    BY DEF Held, Holds
  <1>2. OneHolder' /\ HeldIsClaimed' /\ RestartIsQuiet'
    BY DEF ClaimInv, OneHolder, HeldIsClaimed, RestartIsQuiet, Holds, rowVars
  <1>3. StaleIsFree'
    BY <1>1 DEF ClaimInv, StaleIsFree, rowVars
  <1>4. OneRecord'
    BY <1>1 DEF OneRecord, rowVars
  <1>. QED
    BY <1>2, <1>3, <1>4 DEF ClaimInv

\* A worker that holds no job goes on without claiming one.
LEMMA ClaimIdleMove ==
  ASSUME TypeOK, ClaimInv, OneRecord, NEW w \in Workers, pc[w] # "idle", pc[w] \notin Claimed,
         Return(w) \/ \E step \in Steps \ Claimed : Goto(w, step),
         UNCHANGED <<rowVars, phase, stale>>
  PROVE  ClaimInv' /\ OneRecord'
  <1>1. \A v \in Workers : pc'[v] \in Claimed => pc'[v] = pc[v] /\ job'[v] = job[v] /\ v # w
    BY DEF TypeOK, RunOK, Return, Goto, Claimed, BeforeSmtp, AfterSmtp
  <1>2. \A v \in Workers : pc[v] \in Claimed => pc'[v] = pc[v] /\ job'[v] = job[v] /\ v # w
    BY DEF TypeOK, RunOK, Return, Goto
  <1>3. \A j \in Jobs : Held(j)' <=> Held(j)
    BY <1>1, <1>2 DEF Held, Holds
  <1>4. OneHolder' /\ HeldIsClaimed'
    BY <1>1 DEF ClaimInv, OneHolder, HeldIsClaimed, Holds, rowVars
  <1>5. RestartIsQuiet'
    BY DEF ClaimInv, RestartIsQuiet
  <1>6. StaleIsFree'
    BY <1>3 DEF ClaimInv, StaleIsFree, rowVars, TypeOK, ProcessOK
  <1>7. OneRecord'
    BY <1>1, <1>3 DEF OneRecord, rowVars, Claimed
  <1>. QED
    BY <1>4, <1>5, <1>6, <1>7 DEF ClaimInv

\* The holder w of a job that has no copy on record goes on towards SMTP.
LEMMA ClaimKeep ==
  ASSUME TypeOK, ClaimInv, OneRecord, NEW w \in Workers, pc[w] \in BeforeSmtp,
         \E step \in BeforeSmtp : Goto(w, step),
         UNCHANGED <<rowVars, phase, stale>>
  PROVE  ClaimInv' /\ OneRecord'
  <1>1. /\ job' = job
        /\ \A v \in Workers : pc'[v] \in BeforeSmtp <=> pc[v] \in BeforeSmtp
        /\ \A v \in Workers : pc'[v] \in AfterSmtp <=> pc[v] \in AfterSmtp
    BY DEF TypeOK, RunOK, Goto, BeforeSmtp, AfterSmtp
  <1>2. \A v \in Workers, j \in Jobs : Holds(v, j)' <=> Holds(v, j)
    BY <1>1 DEF Holds, Claimed
  <1>3. \A j \in Jobs : Held(j)' <=> Held(j)
    BY <1>2 DEF Held
  <1>4. OneHolder' /\ HeldIsClaimed'
    BY <1>2 DEF ClaimInv, OneHolder, HeldIsClaimed, rowVars
  <1>5. RestartIsQuiet'
    BY DEF ClaimInv, RestartIsQuiet, BeforeSmtp
  <1>6. StaleIsFree'
    BY <1>3 DEF ClaimInv, StaleIsFree, rowVars, TypeOK, ProcessOK
  <1>7. OneRecord'
    BY <1>1, <1>3 DEF OneRecord, rowVars
  <1>. QED
    BY <1>4, <1>5, <1>6, <1>7 DEF ClaimInv

\* The holder w of a job that has no copy on record lets go of it, with any write but SENT.
LEMMA ClaimRelease ==
  ASSUME TypeOK, ClaimInv, OneRecord, NEW w \in Workers, pc[w] \in BeforeSmtp,
         Return(w) \/ \E step \in Steps \ Claimed : Goto(w, step),
         UNCHANGED status \/ \E s \in {"PENDING", "FAILED"} : SetStatus(job[w], s),
         UNCHANGED <<marker, copies, lost, phase, stale>>
  PROVE  ClaimInv' /\ OneRecord'
  <1>j. job[w] \in Jobs /\ Holds(w, job[w]) /\ copies[job[w]] = lost[job[w]]
    BY DEF TypeOK, RunOK, BeforeSmtp, Holds, Claimed, OneRecord
  <1>1. \A v \in Workers : pc'[v] \in Claimed => pc'[v] = pc[v] /\ job'[v] = job[v] /\ v # w
    BY DEF TypeOK, RunOK, Return, Goto, Claimed, BeforeSmtp, AfterSmtp
  <1>2. \A v \in Workers \ {w} : pc'[v] = pc[v] /\ job'[v] = job[v]
    BY DEF TypeOK, RunOK, Return, Goto
  <1>3. \A j \in Jobs \ {job[w]} : status'[j] = status[j]
    BY <1>j DEF TypeOK, RowOK, SetStatus
  <1>4. \A j \in Jobs \ {job[w]} : Held(j)' <=> Held(j)
    BY <1>1, <1>2 DEF Held, Holds
  <1>5. \A v \in Workers, j \in Jobs : Holds(v, j)' => Holds(v, j) /\ v # w /\ j # job[w]
    BY <1>1, <1>j DEF Holds, ClaimInv, OneHolder
  <1>6. OneHolder' /\ HeldIsClaimed'
    BY <1>3, <1>5 DEF ClaimInv, OneHolder, HeldIsClaimed
  <1>7. RestartIsQuiet'
    BY DEF ClaimInv, RestartIsQuiet, BeforeSmtp
  <1>8. StaleIsFree'
    BY <1>3, <1>4, <1>j DEF ClaimInv, StaleIsFree, Held, TypeOK, ProcessOK
  <1>9. OneRecord'
    BY <1>1, <1>3, <1>4, <1>j DEF OneRecord, Claimed
  <1>. QED
    BY <1>6, <1>7, <1>8, <1>9 DEF ClaimInv

\* The claim: a PENDING row has no holder, is not in the sweep's hands and has no copy
\* on record.
LEMMA ClaimStep ==
  ASSUME TypeOK, FirstAttempts, ClaimInv, OneRecord, NEW w \in Workers, Claim(w)
  PROVE  ClaimInv' /\ OneRecord'
  <1>1. CASE status[job[w]] \notin Claimable(try[w])
    BY <1>1, ClaimIdleMove DEF Claim, Claimed, BeforeSmtp, AfterSmtp, rowVars, processVars
  <1>2. CASE status[job[w]] \in Claimable(try[w])
    <2>1. /\ job[w] \in Jobs /\ pc[w] = "claim"
          /\ status[job[w]] = "PENDING"
          /\ status' = [status EXCEPT ![job[w]] = "SENDING"]
          /\ pc' = [pc EXCEPT ![w] = "start"] /\ job' = job
          /\ UNCHANGED <<marker, copies, lost, phase, stale>>
      BY <1>2, TypeJob DEF Claim, Claimable, FirstAttempts, SetStatus, Goto, processVars, TypeOK
    <2>2. /\ \A v \in Workers : ~Holds(v, job[w])
          /\ job[w] \notin stale
          /\ copies[job[w]] = lost[job[w]]
      BY <2>1 DEF ClaimInv, HeldIsClaimed, StaleIsFree, OneRecord
    <2>3. \A v \in Workers, j \in Jobs : Holds(v, j)' <=> Holds(v, j) \/ (v = w /\ j = job[w])
      BY <2>1 DEF Holds, TypeOK, RunOK, Claimed, BeforeSmtp, AfterSmtp
    <2>4. \A j \in Jobs : status'[j] = IF j = job[w] THEN "SENDING" ELSE status[j]
      BY <2>1 DEF TypeOK, RowOK
    <2>5. OneHolder' /\ HeldIsClaimed'
      BY <2>2, <2>3, <2>4 DEF ClaimInv, OneHolder, HeldIsClaimed
    <2>6. RestartIsQuiet'
      BY <2>1 DEF ClaimInv, RestartIsQuiet
    <2>7. \A j \in Jobs : Held(j)' <=> Held(j) \/ j = job[w]
      BY <2>3 DEF Held
    <2>8. StaleIsFree'
      BY <2>1, <2>2, <2>4, <2>7 DEF ClaimInv, StaleIsFree, TypeOK, ProcessOK
    <2>9. \A v \in Workers : /\ pc'[v] \in BeforeSmtp <=> pc[v] \in BeforeSmtp \/ v = w
                             /\ pc'[v] \in AfterSmtp <=> pc[v] \in AfterSmtp
      BY <2>1 DEF TypeOK, RunOK, BeforeSmtp, AfterSmtp
    <2>10. OneRecord'
      BY <2>1, <2>2, <2>4, <2>7, <2>9 DEF OneRecord
    <2>. QED
      BY <2>5, <2>6, <2>8, <2>10 DEF ClaimInv
  <1>. QED
    BY <1>1, <1>2

\* The server accepts: the holder now has the record.
LEMMA AcceptStep ==
  ASSUME TypeOK, ClaimInv, OneRecord, NEW w \in Workers, SmtpAccept(w)
  PROVE  ClaimInv' /\ OneRecord'
  <1>1. /\ job[w] \in Jobs /\ pc[w] = "smtp" /\ Holds(w, job[w])
        /\ copies' = [copies EXCEPT ![job[w]] = @ + 1]
        /\ pc' = [pc EXCEPT ![w] = "accepted"] /\ job' = job
        /\ UNCHANGED <<status, marker, lost, phase, stale>>
        /\ copies[job[w]] = lost[job[w]]
    BY TypeJob DEF SmtpAccept, Goto, Holds, Claimed, BeforeSmtp, processVars, TypeOK, OneRecord
  <1>2. \A v \in Workers, j \in Jobs : Holds(v, j)' <=> Holds(v, j)
    BY <1>1 DEF Holds, TypeOK, RunOK, Claimed, BeforeSmtp, AfterSmtp
  <1>3. \A j \in Jobs : Held(j)' <=> Held(j)
    BY <1>2 DEF Held
  <1>4. ClaimInv'
    <2>1. OneHolder' /\ HeldIsClaimed'
      BY <1>1, <1>2 DEF ClaimInv, OneHolder, HeldIsClaimed
    <2>2. RestartIsQuiet'
      BY <1>1 DEF ClaimInv, RestartIsQuiet
    <2>3. StaleIsFree'
      BY <1>1, <1>3 DEF ClaimInv, StaleIsFree, TypeOK, ProcessOK
    <2>. QED
      BY <2>1, <2>2, <2>3 DEF ClaimInv
  <1>5. OneRecord'
    <2>1. \A j \in Jobs : copies'[j] = IF j = job[w] THEN lost[j] + 1 ELSE copies[j]
      BY <1>1 DEF TypeOK, RowOK
    <2>2. \A v \in Workers : v # w /\ pc[v] \in Claimed => job[v] # job[w] /\ job[v] \in Jobs
      BY <1>1 DEF ClaimInv, OneHolder, Holds, TypeOK, RunOK, Claimed, BeforeSmtp, AfterSmtp
    <2>3. job[w] \notin marker /\ status[job[w]] \in {"SENDING", "FAILED"}
      BY <1>1 DEF OneRecord, TypeOK, RowOK, ClaimInv, HeldIsClaimed
    <2>4. \A v \in Workers : v # w => pc'[v] = pc[v] /\ job'[v] = job[v]
      BY <1>1 DEF TypeOK, RunOK
    <2>5. \A v \in Workers : pc'[v] \in BeforeSmtp => v # w /\ copies'[job'[v]] = lost'[job'[v]]
      BY <1>1, <2>1, <2>2, <2>4 DEF OneRecord, Claimed, BeforeSmtp, TypeOK, RunOK
    <2>6. \A v \in Workers : pc'[v] \in AfterSmtp => copies'[job'[v]] = lost'[job'[v]] + 1
      BY <1>1, <2>1, <2>2, <2>4 DEF OneRecord, Claimed
    <2>7. \A j \in Jobs : status'[j] = "SENDING" => Held(j)' \/ j \in marker' \/ copies'[j] = lost'[j]
      BY <1>1, <1>3, <2>1 DEF OneRecord, Held
    <2>. QED
      BY <1>1, <2>1, <2>3, <2>5, <2>6, <2>7 DEF OneRecord, TypeOK, RowOK
  <1>. QED
    BY <1>4, <1>5

\* The marker is written: the record is there as well.
LEMMA MarkStep ==
  ASSUME TypeOK, ClaimInv, OneRecord, NEW w \in Workers, Mark(w)
  PROVE  ClaimInv' /\ OneRecord'
  <1>1. /\ job[w] \in Jobs /\ pc[w] = "accepted"
        /\ marker' \in {marker, marker \cup {job[w]}}
        /\ pc' = [pc EXCEPT ![w] = "persist"] /\ job' = job
        /\ UNCHANGED <<status, copies, lost, phase, stale>>
        /\ copies[job[w]] = lost[job[w]] + 1
    BY TypeJob DEF Mark, Goto, AfterSmtp, processVars, TypeOK, OneRecord
  <1>2. \A v \in Workers : /\ pc'[v] \in BeforeSmtp <=> pc[v] \in BeforeSmtp
                           /\ pc'[v] \in AfterSmtp <=> pc[v] \in AfterSmtp
    BY <1>1 DEF TypeOK, RunOK, BeforeSmtp, AfterSmtp
  <1>3. \A v \in Workers, j \in Jobs : Holds(v, j)' <=> Holds(v, j)
    BY <1>1, <1>2 DEF Holds, Claimed
  <1>4. \A j \in Jobs : Held(j)' <=> Held(j)
    BY <1>3 DEF Held
  <1>5. OneHolder' /\ HeldIsClaimed'
    BY <1>1, <1>3 DEF ClaimInv, OneHolder, HeldIsClaimed
  <1>6. RestartIsQuiet'
    BY <1>1 DEF ClaimInv, RestartIsQuiet
  <1>7. StaleIsFree'
    BY <1>1, <1>4 DEF ClaimInv, StaleIsFree, TypeOK, ProcessOK
  <1>8. OneRecord'
    BY <1>1, <1>2, <1>4 DEF OneRecord
  <1>. QED
    BY <1>5, <1>6, <1>7, <1>8 DEF ClaimInv

\* The holder's last write, or its failure: the record moves to the row or stays in the
\* marker, or it is lost.
LEMMA PersistStep ==
  ASSUME TypeOK, ClaimInv, OneRecord, NEW w \in Workers, Persist(w) \/ PersistFails(w)
  PROVE  ClaimInv' /\ OneRecord'
  <1>1. /\ job[w] \in Jobs /\ pc[w] = "persist" /\ Holds(w, job[w])
        /\ \A j \in Jobs \ {job[w]} : status'[j] = status[j] /\ lost'[j] = lost[j]
        /\ marker' \in {marker, marker \cup {job[w]}}
        /\ UNCHANGED <<copies, phase, stale>>
        /\ copies[job[w]] = lost[job[w]] + 1
    BY TypeJob DEF Persist, PersistFails, Goto, Return, SetStatus, Holds, Claimed, AfterSmtp,
       processVars, TypeOK, RowOK, OneRecord
  <1>2. /\ status'[job[w]] \in {"SENT", "SENDING", "FAILED"}
        /\ \/ /\ lost'[job[w]] = lost[job[w]]
              /\ status'[job[w]] \in {"SENT", "FAILED"} \/ job[w] \in marker'
           \/ lost'[job[w]] = lost[job[w]] + 1 /\ job[w] \notin marker'
    BY <1>1 DEF Persist, PersistFails, SetStatus, TypeOK, RowOK, ClaimInv, HeldIsClaimed
  <1>3. /\ \A v \in Workers \ {w} : pc'[v] = pc[v] /\ job'[v] = job[v]
        /\ pc'[w] \notin Claimed
    BY DEF Persist, PersistFails, Goto, Return, Claimed, BeforeSmtp, AfterSmtp, TypeOK, RunOK
  <1>4. \A v \in Workers, j \in Jobs : Holds(v, j)' => Holds(v, j) /\ v # w /\ j # job[w]
    BY <1>1, <1>3 DEF Holds, ClaimInv, OneHolder
  <1>5. \A j \in Jobs \ {job[w]} : Held(j)' <=> Held(j)
    BY <1>3, <1>4 DEF Held, Holds
  <1>6. OneHolder' /\ HeldIsClaimed'
    BY <1>1, <1>4 DEF ClaimInv, OneHolder, HeldIsClaimed
  <1>7. RestartIsQuiet'
    BY <1>1 DEF ClaimInv, RestartIsQuiet
  <1>8. StaleIsFree'
    BY <1>1, <1>5 DEF ClaimInv, StaleIsFree, Held, TypeOK, ProcessOK
  <1>9. OneRecord'
    <2>1. \A v \in Workers : pc'[v] \in Claimed => v # w /\ job'[v] = job[v] /\ job[v] # job[w]
                                                   /\ job[v] \in Jobs
      BY <1>1, <1>3 DEF Holds, ClaimInv, OneHolder, TypeOK, RunOK, Claimed, BeforeSmtp, AfterSmtp
    <2>2. \A v \in Workers : pc'[v] \in BeforeSmtp => copies'[job'[v]] = lost'[job'[v]]
      BY <1>1, <1>3, <2>1 DEF OneRecord, Claimed
    <2>3. \A v \in Workers : pc'[v] \in AfterSmtp => copies'[job'[v]] = lost'[job'[v]] + 1
      BY <1>1, <1>3, <2>1 DEF OneRecord, Claimed
    <2>4. \A j \in Jobs : copies'[j] \in {lost'[j], lost'[j] + 1}
      BY <1>1, <1>2 DEF OneRecord, TypeOK, RowOK
    <2>5. \A j \in marker' : copies'[j] = lost'[j] + 1
      BY <1>1, <1>2 DEF OneRecord, TypeOK, RowOK
    <2>6. \A j \in Jobs : status'[j] \in {"PENDING", "CANCELLED"} => copies'[j] = lost'[j]
      BY <1>1, <1>2 DEF OneRecord
    <2>7. \A j \in Jobs : status'[j] = "SENDING" => Held(j)' \/ j \in marker' \/ copies'[j] = lost'[j]
      BY <1>1, <1>2, <1>5 DEF OneRecord, TypeOK, RowOK
    <2>. QED
      BY <2>2, <2>3, <2>4, <2>5, <2>6, <2>7 DEF OneRecord
  <1>. QED
    BY <1>6, <1>7, <1>8, <1>9 DEF ClaimInv

\* Every step of a worker keeps claims and records.
LEMMA RecordWorker ==
  ASSUME TypeOK, Recoverable, FirstAttempts, ClaimInv, OneRecord, NEW w \in Workers, WorkerStep(w)
  PROVE  ClaimInv' /\ OneRecord'
  <1>s. /\ {"gates", "smtp"} \subseteq BeforeSmtp /\ "start" \in BeforeSmtp
        /\ {"exhausted", "count", "complete"} \subseteq Steps \ Claimed
    BY DEF Steps, Claimed, BeforeSmtp, AfterSmtp
  <1>1. ~ResetUnpaid(w) /\ ~PauseUnpaid(w) /\ ~Throw(w)
    BY NoFaults DEF FirstAttempts, ResetUnpaid, PauseUnpaid, Throw
  <1>2. CASE Claim(w)
    BY <1>2, ClaimStep
  <1>3. CASE StartCampaign(w)
    BY <1>3, <1>s, ClaimKeep DEF StartCampaign, processVars
  <1>4. CASE PassGates(w)
    BY <1>4, <1>s, ClaimKeep DEF PassGates, processVars
  <1>5. CASE Reject(w) \/ SmtpBounce(w)
    BY <1>5, <1>s, ClaimRelease DEF Reject, SmtpBounce, MarkFailed, processVars
  <1>6. CASE Defer(w)
    BY <1>6, <1>s, ClaimRelease DEF Defer, processVars
  <1>7. CASE ParkWithoutPool(w)
    BY <1>7, <1>s, ClaimRelease DEF ParkWithoutPool, processVars
  <1>8. CASE ResetExhausted(w)
    BY <1>8, <1>s, ClaimRelease DEF ResetExhausted, processVars
  <1>9. CASE PauseExhausted(w)
    BY <1>9, ClaimIdleMove DEF PauseExhausted, processVars, Claimed, BeforeSmtp, AfterSmtp
  <1>10. CASE SmtpAccept(w)
    BY <1>10, AcceptStep
  <1>11. CASE Mark(w)
    BY <1>11, MarkStep
  <1>12. CASE Persist(w) \/ PersistFails(w)
    BY <1>12, PersistStep
  <1>13. CASE CountOpen(w)
    BY <1>13, <1>s, ClaimIdleMove DEF CountOpen, processVars, Claimed, BeforeSmtp, AfterSmtp
  <1>14. CASE Complete(w)
    BY <1>14, ClaimIdleMove DEF Complete, processVars, Claimed, BeforeSmtp, AfterSmtp
  <1>. QED
    BY <1>1, <1>2, <1>3, <1>4, <1>5, <1>6, <1>7, <1>8, <1>9, <1>10, <1>11, <1>12, <1>13, <1>14
       DEF WorkerStep

\* A write of one row by someone else than its holder: to FAILED; or, when nobody holds
\* it, from SENDING to SENT with the marker and to PENDING without.
LEMMA RecordWrite ==
  ASSUME TypeOK, ClaimInv, OneRecord, NEW j \in Jobs,
         \/ SetStatus(j, "FAILED")
         \/ status[j] = "SENDING" /\ ~Held(j) /\ j \in marker /\ SetStatus(j, "SENT")
         \/ status[j] = "SENDING" /\ ~Held(j) /\ j \notin marker /\ SetStatus(j, "PENDING"),
         UNCHANGED <<marker, copies, lost, pc, job, phase>>,
         stale' = stale \ {j} \/ (stale' = stale /\ status'[j] = "FAILED") \/ stale' = {}
  PROVE  ClaimInv' /\ OneRecord'
  <1>1. /\ \A i \in Jobs \ {j} : status'[i] = status[i]
        /\ status'[j] \in {"FAILED", "SENT", "PENDING"}
        /\ status'[j] # "FAILED" => ~Held(j)
        /\ status'[j] = "PENDING" => copies[j] = lost[j]
    BY DEF SetStatus, TypeOK, RowOK, OneRecord
  <1>2. /\ \A v \in Workers, i \in Jobs : Holds(v, i)' <=> Holds(v, i)
        /\ \A i \in Jobs : Held(i)' <=> Held(i)
    BY DEF Held, Holds
  <1>3. OneHolder' /\ HeldIsClaimed'
    BY <1>1, <1>2 DEF ClaimInv, OneHolder, HeldIsClaimed, Held
  <1>4. RestartIsQuiet'
    BY DEF ClaimInv, RestartIsQuiet
  <1>5. StaleIsFree'
    BY <1>1, <1>2 DEF ClaimInv, StaleIsFree, TypeOK, ProcessOK
  <1>6. OneRecord'
    BY <1>1, <1>2 DEF OneRecord
  <1>. QED
    BY <1>3, <1>4, <1>5, <1>6 DEF ClaimInv

\* A crash: a copy that only a worker remembers is lost, and nobody holds a row.
LEMMA RecordCrash ==
  ASSUME TypeOK, ClaimInv, OneRecord, Crash
  PROVE  ClaimInv' /\ OneRecord'
  <1>1. /\ UNCHANGED <<status, marker, copies>>
        /\ stale' = {}
        /\ \A j \in Jobs : lost'[j] = IF Unrecorded(j) THEN lost[j] + 1 ELSE lost[j]
        /\ \A w \in Workers : pc'[w] = "idle"
    BY DEF Crash
  <1>2. \A j : ~Held(j)'
    BY <1>1 DEF Held, Holds, Claimed, BeforeSmtp, AfterSmtp
  <1>3. \A j \in Jobs : Unrecorded(j) => /\ copies[j] = lost[j] + 1 /\ j \notin marker
                                         /\ status[j] \in {"SENDING", "FAILED"}
    BY DEF Unrecorded, OneRecord, ClaimInv, HeldIsClaimed, Holds, Claimed
  <1>4. \A j \in Jobs : status[j] = "SENDING" /\ j \notin marker =>
                          Unrecorded(j) \/ copies[j] = lost[j]
    BY DEF OneRecord, Held, Holds, Claimed, Unrecorded
  <1>5. ClaimInv'
    BY <1>1, <1>2 DEF ClaimInv, OneHolder, HeldIsClaimed, RestartIsQuiet, StaleIsFree, Held
  <1>6. OneRecord'
    <2>1. \A j \in Jobs : copies'[j] \in {lost'[j], lost'[j] + 1}
      BY <1>1, <1>3 DEF OneRecord, TypeOK, RowOK
    <2>2. \A j \in Jobs : status'[j] = "SENDING" => Held(j)' \/ j \in marker' \/ copies'[j] = lost'[j]
      BY <1>1, <1>3, <1>4
    <2>. QED
      BY <1>1, <1>3, <2>1, <2>2 DEF OneRecord, BeforeSmtp, AfterSmtp, TypeOK, RowOK
  <1>. QED
    BY <1>5, <1>6

\* The steps of everyone but the workers keep claims and records.
LEMMA RecordOthers ==
  ASSUME TypeOK, Recoverable, FirstAttempts, ClaimInv, OneRecord,
         \/ \E j \in Jobs : Launch(j) \/ OnFailed(j)
         \/ BullMQ \/ Sweeps \/ Crash \/ Restart \/ Resumption \/ User
  PROVE  ClaimInv' /\ OneRecord'
  <1>1. ASSUME NEW j \in Jobs, Launch(j) \/ OnFailed(j)
        PROVE  ClaimInv' /\ OneRecord'
    <2>1. CASE UNCHANGED rowVars
      BY <1>1, <2>1, ClaimUnchanged DEF Launch, OnFailed, runVars, processVars
    <2>2. CASE OnFailed(j) /\ SetStatus(j, "FAILED")
      BY <2>2, RecordWrite DEF OnFailed, runVars, processVars, SetStatus, TypeOK, RowOK
    <2>. QED
      BY <1>1, <2>1, <2>2 DEF Launch, OnFailed, rowVars
  <1>2. CASE BullMQ
    <2>1. ASSUME NEW j \in Jobs, NEW a \in Attempts, NEW w \in Workers, Take(w, j, a)
          PROVE  ClaimInv' /\ OneRecord'
      <3>1. /\ \A v \in Workers : pc'[v] \in Claimed <=> pc[v] \in Claimed
            /\ \A v \in Workers : pc[v] \in Claimed => pc'[v] = pc[v] /\ job'[v] = job[v]
            /\ phase = "up" /\ UNCHANGED <<rowVars, phase, stale>>
        BY <2>1 DEF Take, NextAfterRead, Claimed, BeforeSmtp, AfterSmtp, TypeOK, RunOK, runVars,
           processVars
      <3>2. \A v \in Workers, i \in Jobs : Holds(v, i)' <=> Holds(v, i)
        BY <3>1 DEF Holds
      <3>3. \A i \in Jobs : Held(i)' <=> Held(i)
        BY <3>2 DEF Held
      <3>4. OneHolder' /\ HeldIsClaimed'
        BY <3>1, <3>2 DEF ClaimInv, OneHolder, HeldIsClaimed, rowVars
      <3>5. RestartIsQuiet' /\ StaleIsFree'
        BY <3>1, <3>3 DEF ClaimInv, RestartIsQuiet, StaleIsFree, TypeOK, ProcessOK, rowVars
      <3>6. OneRecord'
        BY <3>1, <3>3 DEF OneRecord, rowVars, Claimed
      <3>. QED
        BY <3>4, <3>5, <3>6 DEF ClaimInv
    <2>. QED
      BY <1>2, <2>1, NoFaults, ClaimUnchanged DEF BullMQ, StalledCheck, ThrowOnRead, runVars, processVars
  <1>3. CASE Sweeps
    <2>1. CASE SweepFind
      <3>1. /\ \A j \in stale' : j \in Jobs /\ status[j] = "SENDING" /\ ~Held(j)
            /\ phase = "up" /\ UNCHANGED <<rowVars, pc, job, phase>>
        BY <2>1, NoFaults DEF SweepFind, Stale, runVars
      <3>2. \A j : Held(j)' <=> Held(j)
        BY <3>1 DEF Held, Holds
      <3>3. OneHolder' /\ HeldIsClaimed' /\ RestartIsQuiet'
        BY <3>1 DEF ClaimInv, OneHolder, HeldIsClaimed, RestartIsQuiet, Holds, rowVars
      <3>4. StaleIsFree' /\ OneRecord'
        BY <3>1, <3>2 DEF StaleIsFree, OneRecord, rowVars
      <3>. QED
        BY <3>3, <3>4 DEF ClaimInv
    <2>2. ASSUME NEW j \in Jobs, SweepRow(j)
          PROVE  ClaimInv' /\ OneRecord'
      <3>1. ~Held(j) /\ UNCHANGED <<marker, copies, lost, pc, job, phase>> /\ stale' = stale \ {j}
        BY <2>2 DEF SweepRow, ClaimInv, StaleIsFree, runVars
      <3>2. CASE UNCHANGED status
        BY <3>1, <3>2, ClaimUnchanged DEF rowVars
      <3>. QED
        BY <2>2, <3>1, <3>2, RecordWrite DEF SweepRow, RecoverAccepted
    <2>. QED
      BY <1>3, <2>1, <2>2, ClaimUnchanged DEF Sweeps, SweepStuck, runVars, processVars
  <1>4. CASE Crash
    BY <1>4, RecordCrash
  <1>5. CASE Restart
    <2>1. ASSUME NEW j \in Jobs, RecoverOrphan(j)
          PROVE  ClaimInv' /\ OneRecord'
      <3>1. /\ ~Held(j) /\ stale = {}
            /\ UNCHANGED <<marker, copies, lost, pc, job, phase, stale>>
        BY <2>1 DEF RecoverOrphan, ClaimInv, RestartIsQuiet, Held, Holds, Claimed, BeforeSmtp,
           AfterSmtp, StaleIsFree, runVars
      <3>. QED
        BY <2>1, <3>1, RecordWrite DEF RecoverOrphan, RecoverAccepted
    <2>2. CASE RecoveryDone \/ SyncPending
      <3>1. /\ UNCHANGED <<rowVars, pc, job, stale>>
            /\ stale = {} /\ \A w \in Workers : pc[w] = "idle"
        BY <2>2 DEF RecoveryDone, SyncPending, runVars, ClaimInv, RestartIsQuiet
      <3>2. \A j : Held(j)' <=> Held(j)
        BY <3>1 DEF Held, Holds
      <3>3. OneHolder' /\ HeldIsClaimed' /\ RestartIsQuiet'
        BY <3>1 DEF ClaimInv, OneHolder, HeldIsClaimed, RestartIsQuiet, Holds, rowVars
      <3>4. StaleIsFree' /\ OneRecord'
        BY <3>1, <3>2 DEF ClaimInv, StaleIsFree, OneRecord, rowVars
      <3>. QED
        BY <3>3, <3>4 DEF ClaimInv
    <2>. QED
      BY <1>5, <2>1, <2>2 DEF Restart
  <1>6. CASE Resumption
    BY <1>6, ClaimUnchanged DEF Resumption, AutoFind, AutoSkip, AutoResume, AutoDone, AutoEnqueue,
       runVars, processVars
  <1>7. CASE User
    <2>1. CASE Cancel
      <3>1. /\ UNCHANGED <<marker, copies, lost, pc, job, phase, stale>>
            /\ \A j \in Jobs : status'[j] = IF status[j] = "PENDING" THEN "CANCELLED" ELSE status[j]
        BY <2>1 DEF Cancel, runVars, processVars
      <3>2. /\ \A v \in Workers, j \in Jobs : Holds(v, j)' <=> Holds(v, j)
            /\ \A j : Held(j)' <=> Held(j)
        BY <3>1 DEF Held, Holds
      <3>3. OneHolder' /\ HeldIsClaimed' /\ RestartIsQuiet'
        BY <3>1, <3>2 DEF ClaimInv, OneHolder, HeldIsClaimed, RestartIsQuiet
      <3>4. StaleIsFree' /\ OneRecord'
        BY <3>1, <3>2 DEF ClaimInv, StaleIsFree, OneRecord, TypeOK, ProcessOK
      <3>. QED
        BY <3>3, <3>4 DEF ClaimInv
    <2>. QED
      BY <1>7, <2>1, ClaimUnchanged DEF User, Pause, Purge, ResumeRead, ResumeComplete,
         ResumeDone, ResumeEnqueue, runVars, processVars
  <1>. QED
    BY <1>1, <1>2, <1>3, <1>4, <1>5, <1>6, <1>7

\* Whatever crashes and failed writes the pipeline is built for happen, and however
\* often: the record of the last copy is where the recovery looks for it.
THEOREM RecordIsKept ==
  ASSUME Recoverable
  PROVE  Spec => []RecordInv
  <1>1. Init => FirstAttempts /\ ClaimInv /\ OneRecord
    <2>. SUFFICES ASSUME Init PROVE FirstAttempts /\ ClaimInv /\ OneRecord
      OBVIOUS
    <2>1. FirstAttempts
      BY DEF Init, FirstAttempts
    <2>2. ClaimInv
      BY DEF Init, ClaimInv, OneHolder, HeldIsClaimed, RestartIsQuiet, StaleIsFree, Holds,
         Claimed, BeforeSmtp, AfterSmtp
    <2>3. OneRecord
      BY DEF Init, OneRecord, BeforeSmtp, AfterSmtp
    <2>. QED
      BY <2>1, <2>2, <2>3
  <1>2. TypeOK /\ FirstAttempts /\ ClaimInv /\ OneRecord /\ [Next]_vars
          => (FirstAttempts /\ ClaimInv /\ OneRecord)'
    <2>. SUFFICES ASSUME TypeOK, FirstAttempts, ClaimInv, OneRecord, [Next]_vars
                  PROVE  ClaimInv' /\ OneRecord'
      BY FirstAttemptsStep
    <2>1. CASE UNCHANGED vars
      BY <2>1, ClaimUnchanged DEF vars, runVars, processVars
    <2>2. CASE Next
      BY <2>2, RecordWorker, RecordOthers DEF Next
    <2>. QED
      BY <2>1, <2>2
  <1>3. FirstAttempts /\ ClaimInv /\ OneRecord => RecordInv
    BY DEF ClaimInv, RecordInv
  <1>. QED
    BY <1>1, <1>2, <1>3, TypeCorrect, PTL DEF Spec

\* Every further copy of a mail is paid for by the loss of the record of the last one.
THEOREM NoDuplicateCorrect ==
  ASSUME Recoverable
  PROVE  Spec => []NoDuplicate
  <1>1. TypeOK /\ RecordInv => NoDuplicate
    BY DEF TypeOK, RowOK, RecordInv, OneRecord, NoDuplicate
  <1>. QED
    BY <1>1, TypeCorrect, RecordIsKept, PTL

\* No two workers hold the same job.
THEOREM OneHolderCorrect ==
  ASSUME Recoverable
  PROVE  Spec => []OneHolder
  <1>1. RecordInv => OneHolder
    BY DEF RecordInv
  <1>. QED
    BY <1>1, RecordIsKept, PTL

(***************************************************************************)
(* EmailDelivery implements DeliveryContract, for all jobs, workers and    *)
(* bounds: with the faults the pipeline is built for and at most one crash *)
(* of the worker process. A second crash can make an entry stall twice;    *)
(* BullMQ then fails it, and the 'failed' listener writes FAILED over      *)
(* whatever the row says.                                                  *)
(***************************************************************************)
(***************************************************************************)
(* The invariant, on top of RecordInv: no 'failed' event is raised, so a   *)
(* claimed row stays SENDING until its worker settles it; and nobody who   *)
(* has found the campaign finished, however long ago, is wrong.            *)
(***************************************************************************)
NothingFails == crashes <= MaxCrashes /\ \A j \in Jobs : events[j] = 0

HeldIsSending == \A w \in Workers, j \in Jobs : Holds(w, j) => status[j] = "SENDING"

AllSettled == \A j \in Jobs : status[j] \in Terminal

FoundFinished ==
  campaign = "COMPLETED" \/ resume = "complete" \/ \E w \in Workers : pc[w] = "complete"

ContractInv == NothingFails /\ HeldIsSending /\ (FoundFinished => AllSettled)

LEMMA NothingFailsStep ==
  ASSUME TypeOK, NothingFails, Recoverable, MaxCrashes <= 1, [Next]_vars
  PROVE  NothingFails'
  <1>. USE NoFaults, DeliveryAssumption DEF TypeOK, QueueOK, ProcessOK, NothingFails
  <1>1. CASE UNCHANGED vars
    BY <1>1 DEF vars, queueVars, processVars
  <1>2. ASSUME NEW w \in Workers, WorkerStep(w)
        PROVE  NothingFails'
    BY <1>2 DEF WorkerStep, ResetUnpaid, PauseUnpaid, Claim, StartCampaign, PassGates, Reject,
       Defer, ParkWithoutPool, ResetExhausted, PauseExhausted, SmtpAccept, SmtpBounce, Throw,
       Mark, Persist, PersistFails, CountOpen, Complete, queueVars, processVars
  <1>3. ASSUME NEW j \in Jobs, Launch(j)
        PROVE  NothingFails'
    BY <1>3 DEF Launch, processVars
  <1>4. ASSUME NEW j \in Jobs, OnFailed(j)
        PROVE  FALSE
    BY <1>4 DEF OnFailed
  <1>5. CASE BullMQ
    BY <1>5 DEF BullMQ, StalledCheck, Take, ThrowOnRead, processVars
  <1>6. CASE Sweeps
    BY <1>6 DEF Sweeps, SweepFind, SweepStuck, SweepRow, queueVars, processVars
  <1>7. CASE Crash
    BY <1>7 DEF Crash
  <1>8. CASE Restart
    BY <1>8 DEF Restart, RecoveryDone, SyncPending, RecoverOrphan, queueVars
  <1>9. CASE Resumption
    BY <1>9 DEF Resumption, AutoFind, AutoSkip, AutoResume, AutoDone, AutoEnqueue, queueVars,
       processVars
  <1>10. CASE User
    BY <1>10 DEF User, Pause, Purge, ResumeRead, ResumeComplete, ResumeEnqueue, ResumeDone, Cancel,
       queueVars, processVars
  <1>. QED
    BY <1>1, <1>2, <1>3, <1>4, <1>5, <1>6, <1>7, <1>8, <1>9, <1>10 DEF Next

(***************************************************************************)
(* What a step can do to the rows and to the record of their copies.       *)
(***************************************************************************)
RowsKept == UNCHANGED <<status, copies, lost>>

\* A worker claims row j, or it is handed back.
Reopens(j) ==
  /\ status[j] \in {"PENDING", "SENDING"}
  /\ \E s \in {"PENDING", "SENDING"} : SetStatus(j, s)
  /\ UNCHANGED <<copies, lost>>

Delivers(j) ==
  /\ status[j] = "SENDING" /\ copies[j] = lost[j]
  /\ copies' = [copies EXCEPT ![j] = @ + 1]
  /\ UNCHANGED <<status, lost>>

Confirms(j) ==
  /\ status[j] = "SENDING" /\ copies[j] = lost[j] + 1
  /\ SetStatus(j, "SENT")
  /\ UNCHANGED <<copies, lost>>

GivesUp(j) ==
  /\ status[j] = "SENDING" /\ copies[j] = lost[j]
  /\ SetStatus(j, "FAILED")
  /\ ~Held(j)'
  /\ UNCHANGED <<copies, lost>>

Forgets(S) ==
  /\ \A j \in S : status[j] = "SENDING" /\ copies[j] = lost[j] + 1
  /\ lost' = [j \in Jobs |-> IF j \in S THEN lost[j] + 1 ELSE lost[j]]
  /\ UNCHANGED <<status, copies>>

Cancels ==
  /\ \A j \in Jobs : status[j] = "PENDING" => copies[j] = lost[j]
  /\ status' = [j \in Jobs |-> IF status[j] = "PENDING" THEN "CANCELLED" ELSE status[j]]
  /\ UNCHANGED <<copies, lost>>

RowStep ==
  \/ RowsKept \/ Cancels
  \/ \E j \in Jobs : Reopens(j) \/ Delivers(j) \/ Confirms(j) \/ GivesUp(j)
  \/ \E S \in SUBSET Jobs : Forgets(S)

\* The holder of a row lets go of it and writes FAILED.
LEMMA GivesUpStep ==
  ASSUME TypeOK, RecordInv, HeldIsSending, NEW w \in Workers, pc[w] \in BeforeSmtp, MarkFailed(w),
         UNCHANGED <<copies, lost>>
  PROVE  RowStep
  <1>1. /\ job[w] \in Jobs /\ Holds(w, job[w]) /\ status[job[w]] = "SENDING"
        /\ copies[job[w]] = lost[job[w]]
    BY DEF TypeOK, RunOK, BeforeSmtp, Holds, Claimed, RecordInv, OneRecord, HeldIsSending
  <1>2. CASE UNCHANGED status
    BY <1>2 DEF RowStep, RowsKept
  <1>3. CASE SetStatus(job[w], "FAILED") /\ Goto(w, "count")
    <2>1. PICK j \in Jobs : j = job[w]
      BY <1>1
    <2>2. ~Holds(w, j)'
      BY <1>3 DEF Goto, Holds, Claimed, BeforeSmtp, AfterSmtp, TypeOK, RunOK
    <2>3. \A v \in Workers \ {w} : ~Holds(v, j)'
      BY <1>1, <1>3, <2>1 DEF Goto, Holds, RecordInv, OneHolder, TypeOK, RunOK
    <2>4. ~Held(j)'
      BY <2>2, <2>3 DEF Held
    <2>5. GivesUp(j)
      BY <1>1, <1>3, <2>1, <2>4 DEF GivesUp
    <2>. QED
      BY <2>5 DEF RowStep
  <1>. QED
    BY <1>2, <1>3 DEF MarkFailed

LEMMA RowStepWorker ==
  ASSUME TypeOK, RecordInv, HeldIsSending, Recoverable, NEW w \in Workers, WorkerStep(w)
  PROVE  RowStep
  <1>h. pc[w] \in Claimed => job[w] \in Jobs /\ status[job[w]] = "SENDING"
    BY DEF TypeOK, RunOK, Claimed, BeforeSmtp, AfterSmtp, Holds, HeldIsSending
  <1>1. ~ResetUnpaid(w) /\ ~PauseUnpaid(w) /\ ~Throw(w)
    BY NoFaults DEF RecordInv, FirstAttempts, ResetUnpaid, PauseUnpaid, Throw
  <1>2. CASE Claim(w)
    <2>1. job[w] \in Jobs /\ Claimable(try[w]) = {"PENDING"}
      BY <1>2 DEF Claim, TypeOK, RunOK, RecordInv, FirstAttempts, Claimable
    <2>. QED
      BY <1>2, <2>1 DEF Claim, RowStep, RowsKept, Reopens
  <1>3. CASE Reject(w) \/ SmtpBounce(w)
    BY <1>3, GivesUpStep DEF Reject, SmtpBounce, BeforeSmtp
  <1>4. CASE Defer(w) \/ ParkWithoutPool(w) \/ ResetExhausted(w)
    BY <1>4, <1>h DEF Defer, ParkWithoutPool, ResetExhausted, RowStep, Reopens, Claimed, BeforeSmtp
  <1>5. CASE SmtpAccept(w)
    <2>1. copies[job[w]] = lost[job[w]]
      BY <1>5 DEF SmtpAccept, RecordInv, OneRecord, BeforeSmtp
    <2>. QED
      BY <1>5, <1>h, <2>1 DEF SmtpAccept, RowStep, Delivers, Claimed, BeforeSmtp
  <1>6. CASE Persist(w)
    <2>1. copies[job[w]] = lost[job[w]] + 1
      BY <1>6 DEF Persist, RecordInv, OneRecord, AfterSmtp
    <2>. QED
      BY <1>6, <1>h, <2>1 DEF Persist, RowStep, Confirms, Claimed, AfterSmtp
  <1>7. CASE PersistFails(w)
    <2>1. /\ job[w] \in Jobs /\ status[job[w]] = "SENDING"
          /\ copies[job[w]] = lost[job[w]] + 1 /\ UNCHANGED copies
      BY <1>7, <1>h DEF PersistFails, RecordInv, OneRecord, AfterSmtp, Claimed
    <2>2. CASE SetStatus(job[w], "SENT")
      <3>1. status'[job[w]] = "SENT"
        BY <2>1, <2>2 DEF SetStatus, TypeOK, RowOK
      <3>2. lost' = lost
        BY <1>7, <3>1 DEF PersistFails
      <3>. QED
        BY <2>1, <2>2, <3>2 DEF RowStep, Confirms
    <2>3. CASE UNCHANGED status /\ lost' = [lost EXCEPT ![job[w]] = @ + 1]
      <3>1. Forgets({job[w]})
        BY <2>1, <2>3 DEF Forgets, TypeOK, RowOK
      <3>. QED
        BY <2>1, <3>1 DEF RowStep
    <2>4. CASE UNCHANGED status /\ lost' = lost
      BY <2>1, <2>4 DEF RowStep, RowsKept
    <2>. QED
      BY <1>7, <2>2, <2>3, <2>4 DEF PersistFails
  <1>8. CASE StartCampaign(w) \/ PassGates(w) \/ PauseExhausted(w) \/ Mark(w) \/ CountOpen(w) \/ Complete(w)
    BY <1>8 DEF StartCampaign, PassGates, PauseExhausted, Mark, CountOpen, Complete, rowVars,
       RowStep, RowsKept
  <1>. QED
    BY <1>1, <1>2, <1>3, <1>4, <1>5, <1>6, <1>7, <1>8 DEF WorkerStep

LEMMA RowStepOthers ==
  ASSUME TypeOK, RecordInv, HeldIsSending, NothingFails, Recoverable,
         \/ \E j \in Jobs : Launch(j) \/ OnFailed(j)
         \/ BullMQ \/ Sweeps \/ Crash \/ Restart \/ Resumption \/ User
  PROVE  RowStep
  <1>k. RowsKept => RowStep
    BY DEF RowStep
  <1>1. ASSUME NEW j \in Jobs, Launch(j) \/ OnFailed(j)
        PROVE  RowStep
    BY <1>1, <1>k DEF Launch, OnFailed, NothingFails, rowVars, RowsKept
  <1>2. CASE BullMQ
    BY <1>2, <1>k DEF BullMQ, StalledCheck, Take, ThrowOnRead, rowVars, RowsKept
  <1>r. ASSUME NEW j \in Jobs, status[j] = "SENDING", RecoverAccepted(j), UNCHANGED <<copies, lost>>
        PROVE  RowStep
    BY <1>r DEF RecoverAccepted, RecordInv, OneRecord, RowStep, Confirms
  <1>3. CASE Sweeps
    <2>1. ASSUME NEW j \in Jobs, SweepRow(j)
          PROVE  RowStep
      BY <2>1, <1>k, <1>r DEF SweepRow, RowsKept, RowStep, Reopens
    <2>. QED
      BY <1>3, <1>k, <2>1 DEF Sweeps, SweepFind, SweepStuck, rowVars, RowsKept
  <1>4. CASE Crash
    <2>. DEFINE S == {j \in Jobs : Unrecorded(j)}
    <2>1. \A j \in S : status[j] = "SENDING" /\ copies[j] = lost[j] + 1
      BY DEF Unrecorded, RecordInv, OneRecord, HeldIsSending, Holds, Claimed
    <2>2. Forgets(S)
      BY <1>4, <2>1 DEF Crash, Forgets
    <2>. QED
      BY <2>2 DEF RowStep
  <1>5. CASE Restart
    <2>1. ASSUME NEW j \in Jobs, RecoverOrphan(j)
          PROVE  RowStep
      BY <2>1, <1>r DEF RecoverOrphan, RowStep, Reopens
    <2>. QED
      BY <1>5, <1>k, <2>1 DEF Restart, RecoveryDone, SyncPending, rowVars, RowsKept
  <1>6. CASE Resumption
    BY <1>6, <1>k DEF Resumption, AutoFind, AutoSkip, AutoResume, AutoDone, AutoEnqueue, rowVars,
       RowsKept
  <1>7. CASE User
    <2>1. CASE Cancel
      BY <2>1 DEF Cancel, RecordInv, OneRecord, RowStep, Cancels
    <2>. QED
      BY <1>7, <1>k, <2>1 DEF User, Pause, Purge, ResumeRead, ResumeComplete, ResumeEnqueue,
         ResumeDone, rowVars, RowsKept
  <1>. QED
    BY <1>1, <1>2, <1>3, <1>4, <1>5, <1>6, <1>7

\* Every step of the pipeline is one of these, or leaves the rows and copies alone.
LEMMA EveryRowStep ==
  ASSUME TypeOK, RecordInv, HeldIsSending, NothingFails, Recoverable, [Next]_vars
  PROVE  RowStep
  <1>1. CASE UNCHANGED vars
    BY <1>1 DEF vars, rowVars, RowStep, RowsKept
  <1>2. CASE Next
    BY <1>2, RowStepWorker, RowStepOthers DEF Next
  <1>. QED
    BY <1>1, <1>2

LEMMA TerminalKept ==
  ASSUME TypeOK, RowStep
  PROVE  \A j \in Jobs : status[j] \in Terminal => status'[j] = status[j]
  BY DEF RowStep, RowsKept, Cancels, Reopens, Delivers, Confirms, GivesUp, Forgets, SetStatus,
     Terminal, TypeOK, RowOK

(***************************************************************************)
(* ContractInv is an invariant.                                            *)
(***************************************************************************)

\* A row is held after a step only if it was held before, or was waiting to be sent.
LEMMA NewHolder ==
  ASSUME TypeOK, RecordInv, [Next]_vars, Recoverable
  PROVE  \A w \in Workers, j \in Jobs : Holds(w, j)' => Holds(w, j) \/ status[j] = "PENDING"
  <1>. SUFFICES ASSUME NEW w \in Workers, NEW j \in Jobs, Holds(w, j)', status[j] # "PENDING"
                PROVE  Holds(w, j)
    OBVIOUS
  <1>. USE DEF Holds, Claimed, BeforeSmtp, AfterSmtp, TypeOK, RunOK
  <1>1. CASE UNCHANGED <<pc, job>>
    BY <1>1
  <1>2. ASSUME NEW v \in Workers, WorkerStep(v)
        PROVE  Holds(w, j)
    <2>1. ASSUME v # w
          PROVE  pc'[w] = pc[w] /\ job'[w] = job[w]
      BY <1>2, <2>1 DEF WorkerStep, ResetUnpaid, PauseUnpaid, Claim, StartCampaign, PassGates, Reject,
         MarkFailed, Defer, ParkWithoutPool, ResetExhausted, PauseExhausted, SmtpAccept, SmtpBounce,
         Throw, Mark, Persist, PersistFails, CountOpen, Complete, Return, Goto
    <2>2. CASE v = w /\ Claim(w)
      BY <2>2 DEF Claim, Claimable, RecordInv, FirstAttempts, Goto, Return
    <2>3. CASE v = w /\ ~Claim(w)
      BY <1>2, <2>3 DEF WorkerStep, ResetUnpaid, PauseUnpaid, StartCampaign, PassGates, Reject,
         MarkFailed, Defer, ParkWithoutPool, ResetExhausted, PauseExhausted, SmtpAccept, SmtpBounce,
         Throw, Mark, Persist, PersistFails, CountOpen, Complete, Return, Goto
    <2>. QED
      BY <2>1, <2>2, <2>3
  <1>3. ASSUME NEW v \in Workers, NEW i \in Jobs, NEW a \in Attempts, Take(v, i, a)
        PROVE  Holds(w, j)
    BY <1>3 DEF Take, NextAfterRead, runVars
  <1>4. CASE Crash
    BY <1>4 DEF Crash
  <1>5. Next => \/ \E v \in Workers : WorkerStep(v)
                \/ \E v \in Workers, i \in Jobs, a \in Attempts : Take(v, i, a)
                \/ Crash \/ UNCHANGED <<pc, job>>
    BY DEF Next, Launch, OnFailed, BullMQ, StalledCheck, ThrowOnRead, Sweeps, SweepFind, SweepStuck,
       SweepRow, Restart, RecoverOrphan, RecoveryDone, SyncPending, Resumption, AutoFind, AutoSkip,
       AutoResume, AutoEnqueue, AutoDone, User, Pause, Purge, ResumeRead, ResumeComplete,
       ResumeEnqueue, ResumeDone, Cancel, runVars
  <1>. QED
    BY <1>1, <1>2, <1>3, <1>4, <1>5 DEF vars, runVars

LEMMA HeldIsSendingStep ==
  ASSUME TypeOK, RecordInv, RecordInv', HeldIsSending, RowStep, Recoverable, [Next]_vars
  PROVE  HeldIsSending'
  <1>. SUFFICES ASSUME NEW w \in Workers, NEW j \in Jobs, Holds(w, j)'
                PROVE  status'[j] = "SENDING"
    BY DEF HeldIsSending
  <1>1. status[j] \in {"PENDING", "SENDING"}
    BY NewHolder DEF HeldIsSending
  <1>2. Held(j)'
    BY DEF Held
  <1>3. status'[j] # "FAILED"
    BY <1>1, <1>2 DEF RowStep, RowsKept, Cancels, Reopens, Delivers, Confirms, GivesUp, Forgets,
       SetStatus, TypeOK, RowOK
  <1>4. status'[j] \in {"SENDING", "FAILED"}
    BY DEF RecordInv, HeldIsClaimed
  <1>. QED
    BY <1>3, <1>4

\* Whoever finds the campaign finished has just seen every row settled.
LEMMA FoundFinishedStep ==
  ASSUME TypeOK, RecordInv, FoundFinished => AllSettled, RowStep, [Next]_vars, FoundFinished'
  PROVE  AllSettled'
  <1>1. AllSettled => AllSettled'
    BY TerminalKept DEF AllSettled
  <1>2. CASE FoundFinished
    BY <1>1, <1>2
  <1>3. CompleteIfDone(status) = "COMPLETED" => FoundFinished \/ AllSettled
    BY DEF CompleteIfDone, FoundFinished, AllSettled
  <1>4. CompleteIfDone(status') = "COMPLETED" => FoundFinished \/ AllSettled'
    BY DEF CompleteIfDone, FoundFinished, AllSettled
  <1>5. ASSUME ~FoundFinished, campaign' = "COMPLETED"
        PROVE  campaign' = CompleteIfDone(status) \/ campaign' = CompleteIfDone(status')
    <2>. USE <1>5 DEF FoundFinished
    <2>1. ASSUME NEW w \in Workers, WorkerStep(w)
          PROVE  FALSE
      BY <2>1 DEF WorkerStep, ResetUnpaid, PauseUnpaid, Claim, StartCampaign, PassGates, Reject,
         Defer, ParkWithoutPool, ResetExhausted, PauseExhausted, SmtpAccept, SmtpBounce, Throw,
         Mark, Persist, PersistFails, CountOpen, Complete, campaignVars
    <2>2. ASSUME NEW j \in Jobs, Launch(j)
          PROVE  FALSE
      BY <2>2 DEF Launch, campaignVars
    <2>3. ASSUME NEW j \in Jobs, OnFailed(j)
          PROVE  campaign' = CompleteIfDone(status')
      BY <2>3 DEF OnFailed
    <2>4. CASE BullMQ \/ Crash \/ Resumption \/ UNCHANGED vars
      <3>1. CASE BullMQ
        BY <3>1 DEF BullMQ, StalledCheck, Take, ThrowOnRead, campaignVars
      <3>2. CASE Crash
        BY <3>2 DEF Crash, campaignVars
      <3>3. CASE Resumption
        BY <3>3 DEF Resumption, AutoFind, AutoSkip, AutoResume, AutoDone, AutoEnqueue, campaignVars
      <3>4. CASE UNCHANGED vars
        BY <3>4 DEF vars, campaignVars
      <3>. QED
        BY <2>4, <3>1, <3>2, <3>3, <3>4
    <2>5. CASE Sweeps
      BY <2>5 DEF Sweeps, SweepFind, SweepStuck, SweepRow, RecoverAccepted, campaignVars
    <2>6. CASE Restart
      BY <2>6 DEF Restart, RecoveryDone, SyncPending, RecoverOrphan, RecoverAccepted, campaignVars
    <2>7. CASE User
      BY <2>7 DEF User, Pause, Purge, ResumeRead, ResumeComplete, ResumeEnqueue, ResumeDone, Cancel,
         campaignVars
    <2>. QED
      BY <2>1, <2>2, <2>3, <2>4, <2>5, <2>6, <2>7 DEF Next
  <1>6. ASSUME ~FoundFinished, resume' = "complete"
        PROVE  AllSettled
    <2>1. UNCHANGED resume => FALSE
      BY <1>6 DEF FoundFinished
    <2>2. ASSUME NEW w \in Workers, WorkerStep(w)
          PROVE  UNCHANGED resume
      BY <2>2 DEF WorkerStep, ResetUnpaid, PauseUnpaid, Claim, StartCampaign, PassGates, Reject,
         Defer, ParkWithoutPool, ResetExhausted, PauseExhausted, SmtpAccept, SmtpBounce, Throw,
         Mark, Persist, PersistFails, CountOpen, Complete, apiVars
    <2>3. ASSUME NEW j \in Jobs, Launch(j) \/ OnFailed(j)
          PROVE  UNCHANGED resume
      BY <2>3 DEF Launch, OnFailed, apiVars
    <2>4. CASE BullMQ \/ Sweeps \/ Crash \/ Restart \/ Resumption \/ UNCHANGED vars
      <3>1. CASE BullMQ
        BY <2>1, <3>1 DEF BullMQ, StalledCheck, Take, ThrowOnRead, apiVars
      <3>2. CASE Sweeps
        BY <2>1, <3>2 DEF Sweeps, SweepFind, SweepStuck, SweepRow, apiVars
      <3>3. CASE Crash
        <4>1. resume' # "complete" \/ UNCHANGED resume
          BY <3>3 DEF Crash, apiVars
        <4>. QED
          BY <1>6, <2>1, <4>1
      <3>4. CASE Restart
        BY <2>1, <3>4 DEF Restart, RecoveryDone, SyncPending, RecoverOrphan, apiVars
      <3>5. CASE Resumption
        BY <2>1, <3>5 DEF Resumption, AutoFind, AutoSkip, AutoResume, AutoDone, AutoEnqueue, apiVars
      <3>6. CASE UNCHANGED vars
        BY <2>1, <3>6 DEF vars, apiVars
      <3>. QED
        BY <2>4, <3>1, <3>2, <3>3, <3>4, <3>5, <3>6
    <2>5. CASE User
      BY <1>6, <2>1, <2>5 DEF User, Pause, Purge, ResumeRead, ResumeComplete, ResumeEnqueue,
         ResumeDone, Cancel, apiVars, AllSettled
    <2>. QED
      BY <2>1, <2>2, <2>3, <2>4, <2>5 DEF Next
  <1>7. ASSUME NEW w \in Workers, ~FoundFinished, pc'[w] = "complete"
        PROVE  AllSettled
    <2>. USE DEF TypeOK, RunOK
    <2>1. pc[w] # "complete"
      BY <1>7 DEF FoundFinished
    <2>2. ASSUME NEW v \in Workers, WorkerStep(v)
          PROVE  CountOpen(w)
      <3>1. Return(v) \/ \E step \in Steps : Goto(v, step)
        BY <2>2 DEF WorkerStep, ResetUnpaid, PauseUnpaid, Claim, StartCampaign, PassGates, Reject,
           MarkFailed, Defer, ParkWithoutPool, ResetExhausted, PauseExhausted, SmtpAccept,
           SmtpBounce, Throw, Mark, Persist, PersistFails, CountOpen, Complete, Steps, Claimed,
           BeforeSmtp, AfterSmtp
      <3>2. Goto(v, "complete") => CountOpen(v)
        BY <2>2 DEF WorkerStep, ResetUnpaid, PauseUnpaid, Claim, StartCampaign, PassGates, Reject,
           MarkFailed, Defer, ParkWithoutPool, ResetExhausted, PauseExhausted, SmtpAccept,
           SmtpBounce, Throw, Mark, Persist, PersistFails, Complete, Return, Goto
      <3>3. v = w
        BY <1>7, <2>1, <3>1 DEF Return, Goto
      <3>4. Goto(v, "complete")
        BY <1>7, <3>1, <3>3 DEF Return, Goto
      <3>. QED
        BY <3>2, <3>3, <3>4
    <2>3. CASE CountOpen(w)
      BY <1>7, <2>3 DEF CountOpen, Return, CompleteIfDone, AllSettled
    <2>4. ASSUME NEW j \in Jobs, NEW a \in Attempts, NEW v \in Workers, Take(v, j, a)
          PROVE  FALSE
      BY <1>7, <2>1, <2>4 DEF Take, NextAfterRead, runVars
    <2>5. CASE UNCHANGED pc \/ Crash
      BY <1>7, <2>1, <2>5 DEF Crash
    <2>6. Next => \/ \E v \in Workers : WorkerStep(v)
                  \/ \E j \in Jobs, a \in Attempts, v \in Workers : Take(v, j, a)
                  \/ Crash \/ UNCHANGED pc
      BY DEF Next, Launch, OnFailed, BullMQ, StalledCheck, ThrowOnRead, Sweeps, SweepFind,
         SweepStuck, SweepRow, Restart, RecoverOrphan, RecoveryDone, SyncPending, Resumption,
         AutoFind, AutoSkip, AutoResume, AutoEnqueue, AutoDone, User, Pause, Purge, ResumeRead,
         ResumeComplete, ResumeEnqueue, ResumeDone, Cancel, runVars
    <2>. QED
      BY <2>2, <2>3, <2>4, <2>5, <2>6 DEF vars, runVars
  <1>. QED
    BY <1>1, <1>2, <1>3, <1>4, <1>5, <1>6, <1>7 DEF FoundFinished

\* Nothing fails but what a worker fails, a claimed row says SENDING, and whoever found the
\* campaign finished was right.
THEOREM ContractInvKept ==
  ASSUME Recoverable, MaxCrashes <= 1
  PROVE  Spec => []ContractInv
  <1>1. Init => ContractInv
    BY DeliveryAssumption DEF Init, ContractInv, NothingFails, HeldIsSending, FoundFinished, Holds,
       Claimed, BeforeSmtp, AfterSmtp
  <1>2. TypeOK /\ RecordInv /\ RecordInv' /\ ContractInv /\ [Next]_vars => ContractInv'
    <2>. SUFFICES ASSUME TypeOK, RecordInv, RecordInv', ContractInv, [Next]_vars
                  PROVE  ContractInv'
      OBVIOUS
    <2>1. RowStep
      BY EveryRowStep DEF ContractInv
    <2>2. NothingFails'
      BY NothingFailsStep DEF ContractInv
    <2>3. HeldIsSending'
      BY <2>1, HeldIsSendingStep DEF ContractInv
    <2>4. FoundFinished' => AllSettled'
      BY <2>1, FoundFinishedStep DEF ContractInv
    <2>. QED
      BY <2>2, <2>3, <2>4 DEF ContractInv
  <1>. QED
    BY <1>1, <1>2, TypeCorrect, RecordIsKept, PTL DEF Spec

\* A campaign that says COMPLETED has no row left to send, although the worker, the sweeps
\* and resumeCampaign count the rows long before they write it.
THEOREM CompletedIsDone ==
  ASSUME Recoverable, MaxCrashes <= 1
  PROVE  Spec => []CompletedMeansDone
  <1>1. ContractInv => CompletedMeansDone
    BY DEF ContractInv, FoundFinished, AllSettled, CompletedMeansDone
  <1>. QED
    BY <1>1, ContractInvKept, PTL

\* Every step of Spec is a RowStep.
LEMMA RowSteps ==
  ASSUME Recoverable, MaxCrashes <= 1
  PROVE  Spec => [][TypeOK /\ TypeOK' /\ RowStep]_vars
  <1>1. TypeOK /\ TypeOK' /\ RecordInv /\ ContractInv /\ [Next]_vars
          => [TypeOK /\ TypeOK' /\ RowStep]_vars
    BY EveryRowStep DEF ContractInv
  <1>. QED
    BY <1>1, TypeCorrect, RecordIsKept, ContractInvKept, PTL DEF Spec

\* SENT, FAILED and CANCELLED are final.
THEOREM TerminalStays ==
  ASSUME Recoverable, MaxCrashes <= 1
  PROVE  Spec => TerminalIsFinal
  <1>1. [TypeOK /\ TypeOK' /\ RowStep]_vars
          => [\A j \in Jobs : status[j] \in Terminal => status'[j] = status[j]]_vars
    BY TerminalKept
  <1>. QED
    BY <1>1, RowSteps, PTL DEF TerminalIsFinal

\* A mail leaves only while its row says SENDING.
THEOREM ClaimedIsSent ==
  ASSUME Recoverable, MaxCrashes <= 1
  PROVE  Spec => OnlyClaimedSent
  <1>1. [TypeOK /\ TypeOK' /\ RowStep]_vars
          => [\A j \in Jobs : copies'[j] > copies[j] => status[j] = "SENDING"]_vars
    BY DEF RowStep, RowsKept, Cancels, Reopens, Delivers, Confirms, GivesUp, Forgets, TypeOK, RowOK
  <1>. QED
    BY <1>1, RowSteps, PTL DEF OnlyClaimedSent

(***************************************************************************)
(* The refinement: each kind of RowStep is a step of the contract, or      *)
(* changes nothing it can see.                                             *)
(***************************************************************************)
LEMMA ContractStep ==
  ASSUME TypeOK, TypeOK', RowStep
  PROVE  [Contract!Next]_(Contract!vars)
  <1>. USE DEF TypeOK, RowOK, SetStatus
  <1>. DEFINE o == [j \in Jobs |-> Outcome(status[j])]
  <1>1. CASE RowsKept
    BY <1>1 DEF RowsKept, Contract!vars
  <1>2. CASE Cancels
    <2>. DEFINE S == {j \in Jobs : status[j] = "PENDING"}
    <2>1. Contract!GiveUp(S, "cancelled")
      BY <1>2 DEF Cancels, Contract!GiveUp, Outcome
    <2>. QED
      BY <2>1 DEF Contract!Next
  <1>3. ASSUME NEW j \in Jobs, Reopens(j)
        PROVE  UNCHANGED Contract!vars
    BY <1>3 DEF Reopens, Contract!vars, Outcome
  <1>4. ASSUME NEW j \in Jobs, Delivers(j)
        PROVE  Contract!Deliver(j)
    BY <1>4 DEF Delivers, Contract!Deliver, Outcome
  <1>5. ASSUME NEW j \in Jobs, Confirms(j)
        PROVE  Contract!Confirm(j)
    BY <1>5 DEF Confirms, Contract!Confirm, Contract!Remembered, Outcome
  <1>6. ASSUME NEW j \in Jobs, GivesUp(j)
        PROVE  Contract!GiveUp({j}, "failed")
    BY <1>6 DEF GivesUp, Contract!GiveUp, Outcome
  <1>7. ASSUME NEW S \in SUBSET Jobs, Forgets(S)
        PROVE  Contract!Forget(S)
    BY <1>7 DEF Forgets, Contract!Forget, Contract!Remembered, Outcome
  <1>. QED
    BY <1>1, <1>2, <1>3, <1>4, <1>5, <1>6, <1>7 DEF RowStep, Contract!Next

\* The pipeline keeps the promise of DeliveryContract.
THEOREM ContractKept ==
  ASSUME Recoverable, MaxCrashes <= 1
  PROVE  Spec => KeepsContract
  <1>1. Init => Contract!Init
    BY DEF Init, Contract!Init, Outcome
  <1>2. [TypeOK /\ TypeOK' /\ RowStep]_vars => [Contract!Next]_(Contract!vars)
    <2>1. UNCHANGED vars => UNCHANGED Contract!vars
      BY DEF vars, rowVars, Contract!vars
    <2>. QED
      BY <2>1, ContractStep
  <1>. QED
    BY <1>1, <1>2, RowSteps, PTL DEF Spec, KeepsContract, Contract!Spec
==============================================================================
