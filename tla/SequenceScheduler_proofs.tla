----------------------- MODULE SequenceScheduler_proofs -----------------------
(***************************************************************************)
(* Theorems about SequenceScheduler, for all recipients, ticks, sequences, *)
(* bounds and happenings.                                                  *)
(***************************************************************************)
EXTENDS SequenceScheduler, TLAPS

(***************************************************************************)
(* Type correctness.                                                       *)
(***************************************************************************)

\* Steps and follow-ups are small numbers.
LEMMA StepNumbers ==
  /\ Last \in Nat /\ Last > 0
  /\ 0 \in Steps
  /\ \A s : s \in Steps <=> s \in Nat /\ s <= Last
  /\ \A s : s \in FollowUps <=> s \in Steps /\ s # 0
  /\ \A c \in Steps : c # Last => c + 1 \in FollowUps
  BY SequenceAssumption DEF Steps, FollowUps

\* An array with another status for a step is an array.
LEMMA EntryType ==
  ASSUME NEW a \in Array, NEW s \in Steps, NEW x \in StepStatus
  PROVE  [a EXCEPT ![s].status = x] \in Array
  BY DEF Array, Entry

LEMMA BlankType == Blank \in Array
  BY DEF Blank, Array, Entry, StepStatus

\* A follow-up leads to a follow-up or past the end.
LEMMA TargetType ==
  ASSUME NEW n \in FollowUps, NEW met \in BOOLEAN
  PROVE  Target(n, met) \in FollowUps \cup {Last + 1}
  <1>1. OnMatch[n] \in Steps /\ OnNoMatch[n] \in Steps
    BY SequenceAssumption
  <1>. QED
    BY <1>1, StepNumbers DEF Target

\* What a tick decides about a recipient.
LEMMA EvaluationType ==
  ASSUME NEW c \in Steps, NEW a \in Array, NEW open, NEW due
  PROVE  /\ Evaluation(c, a, open, due).to \in Steps
         /\ Evaluation(c, a, open, due).array \in Array
  <1>1. CASE a[c].status = "SKIPPED"
    <2>1. CASE c = Last
      BY <1>1, <2>1, StepNumbers DEF Evaluation, AfterSkipped, Finished, Decision
    <2>2. CASE c # Last
      <3>1. [a EXCEPT ![c + 1].status = "PENDING"] \in Array
        BY <2>2, StepNumbers, EntryType DEF StepStatus
      <3>. QED
        BY <1>1, <2>2, <3>1, StepNumbers DEF Evaluation, AfterSkipped, Decision
    <2>. QED
      BY <2>1, <2>2
  <1>2. CASE a[c].status = "SENT" /\ (due \/ Capped(a) \/ c = Last)
    <2>1. CASE Capped(a) \/ c = Last
      BY <1>2, <2>1, StepNumbers DEF Evaluation, AfterSent, Finished, Decision
    <2>2. CASE ~(Capped(a) \/ c = Last)
      <3>. DEFINE n == c + 1
                  met == Met(n, c, a, open)
                  to == Target(n, met)
      <3>1. n \in FollowUps /\ met \in BOOLEAN
        BY <2>2, StepNumbers DEF Met
      <3>2. to \in FollowUps \cup {Last + 1}
        BY <3>1, TargetType
      <3>3. [a EXCEPT ![n].status = "SKIPPED"] \in Array
        BY <3>1, StepNumbers, EntryType DEF StepStatus
      <3>4. Evaluation(c, a, open, due) = AfterSent(c, a, open)
        BY <1>2 DEF Evaluation
      <3>5. AfterSent(c, a, open)
              = IF to > Last THEN Decision(TRUE, TRUE, 0, a)
                ELSE IF to = n THEN Decision(FALSE, FALSE, to, a)
                ELSE Decision(FALSE, TRUE, to, IF met \/ n \in Simple THEN a
                                               ELSE [a EXCEPT ![n].status = "SKIPPED"])
        BY <2>2 DEF AfterSent
      <3>. HIDE DEF n, met, to
      <3>. QED
        BY <3>2, <3>3, <3>4, <3>5, StepNumbers DEF Decision
    <2>. QED
      BY <2>1, <2>2
  <1>3. CASE a[c].status # "SKIPPED" /\ ~(a[c].status = "SENT" /\ (due \/ Capped(a) \/ c = Last))
    BY <1>3, StepNumbers DEF Evaluation, Nothing, Decision
  <1>. QED
    BY <1>1, <1>2, <1>3

\* A group of variables that does not change keeps its type.
LEMMA TypeUnchanged ==
  ASSUME TypeOK
  PROVE  /\ UNCHANGED <<campaign, rowVars>> => RowOK'
         /\ UNCHANGED jobVars => JobOK'
         /\ UNCHANGED worldVars => WorldOK'
         /\ UNCHANGED tickVars => TickOK'
         /\ UNCHANGED <<sweep, userVars, crashes>> => UserOK'
  <1>1. UNCHANGED <<campaign, rowVars>> => RowOK'
    BY DEF TypeOK, RowOK, rowVars
  <1>2. UNCHANGED jobVars => JobOK'
    BY DEF TypeOK, JobOK, jobVars
  <1>3. UNCHANGED worldVars => WorldOK'
    BY DEF TypeOK, WorldOK, worldVars
  <1>4. UNCHANGED tickVars => TickOK'
    BY DEF TypeOK, TickOK, tickVars
  <1>5. UNCHANGED <<sweep, userVars, crashes>> => UserOK'
    BY DEF TypeOK, UserOK, userVars
  <1>. QED
    BY <1>1, <1>2, <1>3, <1>4, <1>5

LEMMA TypeInit == Init => TypeOK
  <1>. SUFFICES ASSUME Init PROVE TypeOK
    OBVIOUS
  <1>. USE StepNumbers, BlankType
  <1>1. RowOK
    BY DEF Init, RowOK
  <1>2. JobOK
    BY DEF Init, JobOK, OnlyFirst, JobStatus, Places
  <1>3. WorldOK
    BY DEF Init, WorldOK
  <1>4. TickOK
    BY DEF Init, TickOK, TickSteps
  <1>5. UserOK
    BY DEF Init, UserOK
  <1>. QED
    BY <1>1, <1>2, <1>3, <1>4, <1>5 DEF TypeOK

\* A recipient more or less in one of a tick's sets.
LEMMA TypeSets ==
  ASSUME NEW f \in [Ticks -> SUBSET Recipients], NEW t \in Ticks, NEW r \in Recipients
  PROVE  /\ [f EXCEPT ![t] = @ \cup {r}] \in [Ticks -> SUBSET Recipients]
         /\ [f EXCEPT ![t] = @ \ {r}] \in [Ticks -> SUBSET Recipients]
  OBVIOUS

\* A tick that ends.
LEMMA TypeForget ==
  ASSUME TickOK, NEW t \in Ticks, NEW step \in {"idle", "finish"}, Goto(t, step), Forget(t)
  PROVE  TickOK'
  BY StepNumbers, BlankType DEF TickOK, Goto, Forget, TickSteps

\* Every step of a tick keeps the types.
LEMMA TypeTick ==
  ASSUME TypeOK, NEW t \in Ticks, TickStep(t) \/ TickAbort(t)
  PROVE  TypeOK'
  <1>. USE TypeUnchanged DEF TypeOK
  <1>s. {"idle", "evaluate", "schedule", "create", "write", "enqueue", "finish"} \subseteq TickSteps
    BY DEF TickSteps
  <1>1. CASE TickRead(t)
    <2>1. TickOK'
      BY <1>1, <1>s, StepNumbers, BlankType DEF TickRead, TickOK, RowOK, Goto
    <2>. QED
      BY <1>1, <2>1 DEF TickRead
  <1>2. ASSUME NEW r \in Recipients, NEW due \in BOOLEAN, TickEvaluate(t, r, due)
        PROVE  TypeOK'
    <2>. DEFINE e == Evaluation(from[t][r], plan[t][r], opened[r], due)
    <2>1. from[t][r] \in Steps /\ plan[t][r] \in Array
      BY DEF TickOK
    <2>2. e.to \in Steps /\ e.array \in Array
      BY <2>1, EvaluationType
    <2>3. /\ plan' = [plan EXCEPT ![t][r] = e.array]
          /\ next' = [next EXCEPT ![t][r] = e.to]
          /\ done' = done \/ done' = [done EXCEPT ![t] = @ \cup {r}]
          /\ skips' = skips \/ skips' = [skips EXCEPT ![t] = @ \cup {r}]
          /\ todo' = [todo EXCEPT ![t] = @ \ {r}]
          /\ UNCHANGED <<tpc, from, item>>
      BY <1>2 DEF TickEvaluate
    <2>. HIDE DEF e
    <2>4. plan' \in [Ticks -> [Recipients -> Array]] /\ next' \in [Ticks -> [Recipients -> Steps]]
      BY <2>2, <2>3 DEF TickOK
    <2>5. /\ todo' \in [Ticks -> SUBSET Recipients]
          /\ done' \in [Ticks -> SUBSET Recipients]
          /\ skips' \in [Ticks -> SUBSET Recipients]
      <3>1. /\ todo \in [Ticks -> SUBSET Recipients]
            /\ done \in [Ticks -> SUBSET Recipients]
            /\ skips \in [Ticks -> SUBSET Recipients]
        BY DEF TickOK
      <3>2. todo' \in [Ticks -> SUBSET Recipients]
        BY <2>3, <3>1, TypeSets
      <3>3. done' \in [Ticks -> SUBSET Recipients]
        BY <2>3, <3>1, TypeSets
      <3>4. skips' \in [Ticks -> SUBSET Recipients]
        BY <2>3, <3>1, TypeSets
      <3>. QED
        BY <3>2, <3>3, <3>4
    <2>6. UNCHANGED <<tpc, from, item>>
      BY <2>3
    <2>7. TickOK'
      <3>1. /\ tpc' \in [Ticks -> TickSteps]
            /\ from' \in [Ticks -> [Recipients -> Steps]]
            /\ item' \in [Ticks -> Recipients \cup {NoOne}]
            /\ \A u \in Ticks : tpc'[u] \in {"create", "write", "enqueue"} => item'[u] \in Recipients
        BY <2>6 DEF TickOK
      <3>. QED
        BY <2>4, <2>5, <3>1 DEF TickOK
    <2>. QED
      BY <1>2, <2>7 DEF TickEvaluate
  <1>3. CASE TickMarkCompleted(t)
    <2>1. TickOK' /\ RowOK'
      BY <1>3, <1>s DEF TickMarkCompleted, TickOK, RowOK, Goto
    <2>. QED
      BY <1>3, <2>1 DEF TickMarkCompleted
  <1>4. ASSUME NEW r \in Recipients, TickWriteSkip(t, r)
        PROVE  TypeOK'
    <2>1. TickOK' /\ RowOK'
      BY <1>4 DEF TickWriteSkip, TickOK, RowOK
    <2>. QED
      BY <1>4, <2>1 DEF TickWriteSkip
  <1>5. ASSUME NEW r \in Recipients, TickClaim(t, r)
        PROVE  TypeOK'
    <2>1. CASE cur[r] = from[t][r]
      <3>1. RowOK'
        <4>1. PICK s \in Steps : s = next[t][r]
          BY DEF TickOK
        <4>2. cur' = [cur EXCEPT ![r] = s] /\ UNCHANGED <<campaign, st, paused, replied, completed>>
          BY <1>5, <2>1, <4>1 DEF TickClaim
        <4>. QED
          BY <4>2 DEF RowOK
      <3>2. /\ tpc' = [tpc EXCEPT ![t] = "create"]
            /\ item' = [item EXCEPT ![t] = r]
            /\ UNCHANGED <<todo, from, plan, next, done, skips>>
        BY <1>5, <2>1 DEF TickClaim, Goto
      <3>3. TickOK'
        BY <3>2, <1>s DEF TickOK
      <3>. QED
        BY <1>5, <3>1, <3>3 DEF TickClaim
    <2>2. CASE cur[r] # from[t][r]
      <3>1. TickOK'
        <4>1. /\ next' = [next EXCEPT ![t][r] = 0]
              /\ UNCHANGED <<tpc, todo, from, plan, done, skips, item>>
          BY <1>5, <2>2 DEF TickClaim
        <4>. QED
          BY <4>1, StepNumbers DEF TickOK
      <3>2. RowOK'
        <4>1. UNCHANGED <<campaign, cur, st, paused, replied, completed>>
          BY <1>5, <2>2 DEF TickClaim
        <4>. QED
          BY <4>1 DEF RowOK
      <3>. QED
        BY <1>5, <3>1, <3>2 DEF TickClaim
    <2>. QED
      BY <2>1, <2>2
  <1>6. CASE TickCreate(t)
    <2>1. item[t] \in Recipients /\ next[t][item[t]] \in Steps
      BY <1>6 DEF TickCreate, TickOK
    <2>2. JobOK'
      <3>1. PICK r \in Recipients, s \in Steps : r = item[t] /\ s = next[t][r]
        BY <2>1
      <3>2. /\ made' = [made EXCEPT ![r][s] = @ + 1]
            /\ job' = [job EXCEPT ![r][s] = "PENDING"]
            /\ at' = [at EXCEPT ![r][s] = "new"]
            /\ late' = [late EXCEPT ![r] = @ \ {s}]
            /\ UNCHANGED view
        BY <1>6, <3>1 DEF TickCreate
      <3>3. made' \in [Recipients -> [Steps -> Nat]]
        BY <3>2 DEF JobOK
      <3>4. job' \in [Recipients -> [Steps -> JobStatus \cup {"none"}]]
        BY <3>2 DEF JobOK, JobStatus
      <3>5. at' \in [Recipients -> [Steps -> Places]]
        BY <3>2 DEF JobOK, Places
      <3>6. late' \in [Recipients -> SUBSET Steps] /\ view' \in [Recipients -> [Steps -> Array]]
        BY <3>2 DEF JobOK
      <3>. QED
        BY <3>3, <3>4, <3>5, <3>6 DEF JobOK
    <2>3. TickOK'
      BY <1>6, <2>1, <1>s DEF TickCreate, TickOK, Goto
    <2>. QED
      BY <1>6, <2>2, <2>3 DEF TickCreate
  <1>7. CASE TickWrite(t)
    <2>1. item[t] \in Recipients /\ next[t][item[t]] \in Steps /\ plan[t][item[t]] \in Array
      BY <1>7 DEF TickWrite, TickOK
    <2>2. RowOK'
      BY <1>7, <2>1 DEF TickWrite, RowOK, Array, Entry, StepStatus
    <2>3. TickOK'
      BY <1>7, <2>1, <1>s DEF TickWrite, TickOK, Goto
    <2>. QED
      BY <1>7, <2>2, <2>3 DEF TickWrite
  <1>8. CASE TickEnqueue(t)
    <2>1. item[t] \in Recipients /\ next[t][item[t]] \in Steps
      BY <1>8 DEF TickEnqueue, TickOK
    <2>2. at' \in [Recipients -> [Steps -> Places]]
      BY <1>8, <2>1 DEF TickEnqueue, Queued, JobOK, Places
    <2>3. TickOK'
      BY <1>8, <2>1, <1>s, StepNumbers DEF TickEnqueue, TickOK, Goto
    <2>. QED
      BY <1>8, <2>2, <2>3 DEF TickEnqueue, JobOK
  <1>9. CASE TickCount(t)
    BY <1>9, TypeForget DEF TickCount
  <1>10. CASE TickFinish(t)
    <2>1. RowOK'
      BY <1>10 DEF TickFinish, RowOK, rowVars
    <2>2. TickOK'
      BY <1>10, <1>s DEF TickFinish, TickOK, Goto
    <2>. QED
      BY <1>10, <2>1, <2>2 DEF TickFinish
  <1>11. CASE TickAbort(t)
    BY <1>11, TypeForget DEF TickAbort
  <1>. QED
    BY <1>1, <1>2, <1>3, <1>4, <1>5, <1>6, <1>7, <1>8, <1>9, <1>10, <1>11 DEF TickStep

\* A job that moves on, or changes its status.
LEMMA TypeMove ==
  ASSUME JobOK, NEW r \in Recipients, NEW s \in Steps, NEW place \in Places, MoveTo(r, s, place)
  PROVE  at' \in [Recipients -> [Steps -> Places]]
  BY DEF JobOK, MoveTo

LEMMA TypeSetJob ==
  ASSUME JobOK, NEW r \in Recipients, NEW s \in Steps, NEW x \in JobStatus, SetJob(r, s, x)
  PROVE  job' \in [Recipients -> [Steps -> JobStatus \cup {"none"}]]
  BY DEF JobOK, SetJob

\* Every step of a run keeps the types.
LEMMA TypeRun ==
  ASSUME TypeOK, NEW r \in Recipients, NEW s \in Steps, Run(r, s)
  PROVE  TypeOK'
  <1>. USE TypeUnchanged DEF TypeOK
  <1>s. /\ {"gates", "ended", "reply", "smtp", "cancelled", "sent", "bounced", "write"} \subseteq Places
        /\ JobStatus = {"PENDING", "SENDING", "SENT", "FAILED", "CANCELLED"}
        /\ {"SENT", "FAILED"} \subseteq StepStatus
    BY DEF Places, JobStatus, StepStatus
  <1>1. CASE Take(r, s)
    <2>1. RowOK'
      BY <1>1 DEF Take, RowOK, rowVars
    <2>2. JobOK'
      BY <1>1, <1>s, TypeMove, TypeSetJob DEF Take, JobOK
    <2>. QED
      BY <1>1, <2>1, <2>2 DEF Take
  <1>2. CASE Reject(r, s)
    <2>1. JobOK'
      BY <1>2, <1>s, TypeMove, TypeSetJob DEF Reject, JobOK
    <2>. QED
      BY <1>2, <2>1 DEF Reject
  <1>3. CASE PassGates(r, s)
    <2>1. JobOK'
      BY <1>3, <1>s, TypeMove DEF PassGates, JobOK
    <2>. QED
      BY <1>3, <2>1 DEF PassGates
  <1>4. CASE CheckReply(r, s)
    <2>1. JobOK'
      BY <1>4, <1>s, TypeMove, TypeSetJob DEF CheckReply, JobOK
    <2>. QED
      BY <1>4, <2>1 DEF CheckReply
  <1>5. CASE MarkReplied(r, s)
    <2>1. JobOK'
      BY <1>5, <1>s, TypeMove DEF MarkReplied, JobOK
    <2>2. RowOK'
      BY <1>5 DEF MarkReplied, RowOK
    <2>. QED
      BY <1>5, <2>1, <2>2 DEF MarkReplied
  <1>6. CASE Accept(r, s)
    <2>1. JobOK'
      BY <1>6, <1>s, TypeMove, TypeSetJob DEF Accept, JobOK
    <2>. QED
      BY <1>6, <2>1 DEF Accept
  <1>7. CASE Bounce(r, s)
    <2>1. JobOK'
      BY <1>7, <1>s, TypeMove, TypeSetJob DEF Bounce, JobOK
    <2>2. WorldOK'
      BY <1>7 DEF Bounce, WorldOK
    <2>. QED
      BY <1>7, <2>1, <2>2 DEF Bounce
  <1>8. CASE ReadRow(r, s)
    <2>. DEFINE status == IF at[r][s] = "sent" THEN "SENT" ELSE "FAILED"
                copy == [st[r] EXCEPT ![EntryOf(r, s)].status = status]
    <2>1. EntryOf(r, s) \in Steps /\ st[r] \in Array
      BY DEF EntryOf, RowOK
    <2>2. status \in StepStatus
      BY <1>s
    <2>3. copy \in Array
      BY <2>1, <2>2, EntryType
    <2>4. view' = [view EXCEPT ![r][s] = copy]
      BY <1>8 DEF ReadRow
    <2>. HIDE DEF copy
    <2>5. view' \in [Recipients -> [Steps -> Array]]
      BY <2>3, <2>4 DEF JobOK
    <2>6. JobOK'
      BY <1>8, <1>s, <2>5, TypeMove DEF ReadRow, JobOK
    <2>. QED
      BY <1>8, <2>6 DEF ReadRow
  <1>9. CASE WriteRow(r, s)
    <2>1. JobOK'
      BY <1>9, <1>s, BlankType, TypeMove DEF WriteRow, JobOK
    <2>2. RowOK'
      BY <1>9 DEF WriteRow, RowOK, JobOK
    <2>. QED
      BY <1>9, <2>1, <2>2 DEF WriteRow
  <1>10. CASE LoseRow(r, s)
    <2>1. JobOK'
      BY <1>10, <1>s, BlankType, TypeMove DEF LoseRow, JobOK
    <2>. QED
      BY <1>10, <2>1 DEF LoseRow
  <1>. QED
    BY <1>1, <1>2, <1>3, <1>4, <1>5, <1>6, <1>7, <1>8, <1>9, <1>10 DEF Run

\* Recipients, the detector and the user keep the types.
LEMMA TypeWorld ==
  ASSUME TypeOK, NEW r \in Recipients, Detector(r) \/ \E s \in Steps : OpenMail(r, s)
  PROVE  TypeOK'
  <1>. USE TypeUnchanged DEF TypeOK
  <1>1. ASSUME NEW s \in Steps, OpenMail(r, s)
        PROVE  TypeOK'
    <2>1. WorldOK'
      BY <1>1 DEF OpenMail, WorldOK
    <2>. QED
      BY <1>1, <2>1 DEF OpenMail
  <1>2. ASSUME NEW s \in Steps, DetectReply(r, s)
        PROVE  TypeOK'
    <2>1. WorldOK'
      BY <1>2 DEF DetectReply, WorldOK
    <2>2. {n \in Steps : made[r][n] > 0} \in SUBSET Steps
      OBVIOUS
    <2>3. JobOK'
      BY <1>2, <2>2 DEF DetectReply, JobOK
    <2>. QED
      BY <1>2, <2>1, <2>3 DEF DetectReply
  <1>3. CASE RecordReply(r)
    <2>1. WorldOK'
      BY <1>3 DEF RecordReply, WorldOK
    <2>2. RowOK'
      BY <1>3 DEF RecordReply, RowOK
    <2>. QED
      BY <1>3, <2>1, <2>2 DEF RecordReply
  <1>4. ASSUME NEW s \in Steps, DetectBounce(r, s)
        PROVE  TypeOK'
    <2>1. WorldOK'
      BY <1>4 DEF DetectBounce, WorldOK
    <2>2. JobOK'
      BY <1>4, TypeSetJob DEF DetectBounce, JobOK, JobStatus
    <2>. QED
      BY <1>4, <2>1, <2>2 DEF DetectBounce
  <1>5. CASE Suppress(r)
    <2>1. WorldOK'
      BY <1>5 DEF Suppress, WorldOK
    <2>. QED
      BY <1>5, <2>1 DEF Suppress
  <1>. QED
    BY <1>1, <1>2, <1>3, <1>4, <1>5 DEF Detector

LEMMA TypeUser ==
  ASSUME TypeOK, User
  PROVE  TypeOK'
  <1>. USE TypeUnchanged DEF TypeOK
  <1>1. CASE PauseAll
    <2>1. RowOK'
      BY <1>1 DEF PauseAll, RowOK
    <2>. QED
      BY <1>1, <2>1 DEF PauseAll
  <1>2. ASSUME NEW r \in Recipients, Pause(r)
        PROVE  TypeOK'
    <2>1. RowOK'
      BY <1>2 DEF Pause, RowOK
    <2>. QED
      BY <1>2, <2>1 DEF Pause
  <1>3. ASSUME NEW r \in Recipients, StopRead(r)
        PROVE  TypeOK'
    <2>. DEFINE copy == [s \in Steps |->
                           IF st[r][s].status \in {"SENT", "FAILED"} THEN st[r][s]
                           ELSE [st[r][s] EXCEPT !.status = "SKIPPED"]]
    <2>1. copy \in Array
      <3>1. \A s \in Steps : st[r][s] \in Entry
        BY DEF RowOK, Array
      <3>2. \A x \in Entry : [x EXCEPT !.status = "SKIPPED"] \in Entry
        BY DEF Entry, StepStatus
      <3>. QED
        BY <3>1, <3>2 DEF Array
    <2>2. halt' = [halt EXCEPT ![r] = copy]
      BY <1>3 DEF StopRead
    <2>. HIDE DEF copy
    <2>3. UserOK'
      BY <1>3, <2>1, <2>2 DEF StopRead, UserOK
    <2>. QED
      BY <1>3, <2>3 DEF StopRead
  <1>4. ASSUME NEW r \in Recipients, StopWrite(r)
        PROVE  TypeOK'
    <2>1. RowOK' /\ UserOK'
      BY <1>4, BlankType DEF StopWrite, RowOK, UserOK
    <2>. QED
      BY <1>4, <2>1 DEF StopWrite
  <1>5. ASSUME NEW r \in Recipients, NEW s \in Steps, Toggle(r, s)
        PROVE  TypeOK'
    <2>1. RowOK'
      BY <1>5 DEF Toggle, RowOK
    <2>2. WorldOK'
      BY <1>5 DEF Toggle, WorldOK
    <2>. QED
      BY <1>5, <2>1, <2>2 DEF Toggle
  <1>. QED
    BY <1>1, <1>2, <1>3, <1>4, <1>5 DEF User

LEMMA TypeSweep ==
  ASSUME TypeOK, Sweep
  PROVE  TypeOK'
  <1>. USE TypeUnchanged DEF TypeOK
  <1>1. CASE SweepJobs
    <2>1. UserOK'
      BY <1>1 DEF SweepJobs, UserOK, userVars
    <2>. QED
      BY <1>1, <2>1 DEF SweepJobs
  <1>2. CASE SweepStates
    <2>1. UserOK'
      BY <1>2 DEF SweepStates, UserOK, userVars
    <2>. QED
      BY <1>2, <2>1 DEF SweepStates
  <1>3. CASE SweepWrite
    <2>1. UserOK'
      BY <1>3 DEF SweepWrite, UserOK, userVars
    <2>2. RowOK'
      BY <1>3 DEF SweepWrite, RowOK, rowVars
    <2>. QED
      BY <1>3, <2>1, <2>2 DEF SweepWrite
  <1>. QED
    BY <1>1, <1>2, <1>3 DEF Sweep

LEMMA TypeCrash ==
  ASSUME TypeOK, Crash
  PROVE  TypeOK'
  <1>. USE TypeUnchanged DEF TypeOK
  <1>1. TickOK'
    BY StepNumbers, BlankType DEF Crash, TickOK, TickSteps
  <1>2. JobOK'
    <2>1. job' \in [Recipients -> [Steps -> JobStatus \cup {"none"}]]
      BY DEF Crash, JobOK, JobStatus
    <2>2. at' \in [Recipients -> [Steps -> Places]]
      BY DEF Crash, Places
    <2>3. view' \in [Recipients -> [Steps -> Array]]
      BY BlankType DEF Crash
    <2>. QED
      BY <2>1, <2>2, <2>3 DEF Crash, JobOK
  <1>3. WorldOK'
    BY DEF Crash, WorldOK
  <1>4. UserOK'
    BY DEF Crash, UserOK, userVars
  <1>. QED
    BY <1>1, <1>2, <1>3, <1>4 DEF Crash

\* Every variable keeps its type.
THEOREM TypeCorrect == Spec => []TypeOK
  <1>1. TypeOK /\ [Next]_vars => TypeOK'
    <2>. SUFFICES ASSUME TypeOK, [Next]_vars PROVE TypeOK'
      OBVIOUS
    <2>1. CASE UNCHANGED vars
      BY <2>1, TypeUnchanged DEF vars, TypeOK
    <2>2. CASE Next
      BY <2>2, TypeTick, TypeRun, TypeWorld, TypeUser, TypeSweep, TypeCrash DEF Next
    <2>. QED
      BY <2>1, <2>2
  <1>. QED
    BY <1>1, TypeInit, PTL DEF Spec

(***************************************************************************)
(* One job for each recipient and step.  A claim moves currentStep from    *)
(* the step the tick has read to a later one, so the job it pays for is    *)
(* the first that is made for a step so late.                              *)
(***************************************************************************)

\* A tick with nothing in hand has nothing to schedule.
RestIsEmpty == \A t \in Ticks, r \in Recipients : tpc[t] \in {"idle", "finish"} => next[t][r] = 0

\* The step to schedule comes after the step that was read.
NextIsLater == \A t \in Ticks, r \in Recipients : next[t][r] # 0 => from[t][r] < next[t][r]

\* No job is made beyond currentStep.
MadeIsReached == \A r \in Recipients, s \in Steps : made[r][s] > 0 => s <= cur[r]

\* Between claim and create the step is reached and has no job.
ClaimIsOpen ==
  \A t \in Ticks : tpc[t] = "create" =>
    /\ next[t][item[t]] <= cur[item[t]]
    /\ made[item[t]][next[t][item[t]]] = 0

\* No two ticks have claimed the same step of a recipient.
ClaimIsAlone ==
  \A t, u \in Ticks :
    t # u /\ tpc[t] = "create" /\ tpc[u] = "create" /\ item[t] = item[u]
      => next[t][item[t]] # next[u][item[u]]

ClaimInv ==
  RestIsEmpty /\ NextIsLater /\ MadeIsReached /\ ClaimIsOpen /\ ClaimIsAlone /\ OneJobPerStep

\* In a sequence that only goes forward a tick schedules a later step, and only after
\* a step that is SENT; it makes no entry SENT.
LEMMA EvaluationForward ==
  ASSUME Forward, NEW c \in Steps, NEW a \in Array, NEW open, NEW due
  PROVE  LET e == Evaluation(c, a, open, due)
         IN /\ e.to # 0 => a[c].status = "SENT" /\ c < e.to
            /\ \A x \in Steps : e.array[x].status = "SENT" => a[x].status = "SENT"
  <1>. DEFINE e == Evaluation(c, a, open, due)
  <1>s. ASSUME NEW s \in Steps, NEW x \in Steps, NEW y \in {"SKIPPED", "PENDING"},
               [a EXCEPT ![s].status = y][x].status = "SENT"
        PROVE  a[x].status = "SENT"
    BY <1>s DEF Array, Entry
  <1>1. CASE a[c].status = "SKIPPED"
    <2>1. CASE c = Last
      BY <1>1, <2>1 DEF Evaluation, AfterSkipped, Finished, Decision
    <2>2. CASE c # Last
      <3>1. e.to = 0 /\ e.array = [a EXCEPT ![c + 1].status = "PENDING"]
        BY <1>1, <2>2 DEF Evaluation, AfterSkipped, Decision
      <3>. QED
        BY <2>2, <3>1, <1>s, StepNumbers
    <2>. QED
      BY <2>1, <2>2
  <1>2. CASE a[c].status = "SENT" /\ (due \/ Capped(a) \/ c = Last)
    <2>1. CASE Capped(a) \/ c = Last
      BY <1>2, <2>1 DEF Evaluation, AfterSent, Finished, Decision
    <2>2. CASE ~(Capped(a) \/ c = Last)
      <3>. DEFINE n == c + 1
                  met == Met(n, c, a, open)
                  to == Target(n, met)
      <3>1. n \in FollowUps /\ met \in BOOLEAN /\ c \in Nat /\ n = c + 1
        BY <2>2, StepNumbers DEF Met
      <3>2. to \in Nat /\ to >= n
        <4>1. OnMatch[n] \in {0} \cup n .. Last /\ OnNoMatch[n] \in {0} \cup n .. Last
          BY <3>1 DEF Forward
        <4>. QED
          BY <3>1, <4>1, StepNumbers DEF Target
      <3>3. e = AfterSent(c, a, open)
        BY <1>2 DEF Evaluation
      <3>4. AfterSent(c, a, open)
              = IF to > Last THEN Decision(TRUE, TRUE, 0, a)
                ELSE IF to = n THEN Decision(FALSE, FALSE, to, a)
                ELSE Decision(FALSE, TRUE, to, IF met \/ n \in Simple THEN a
                                               ELSE [a EXCEPT ![n].status = "SKIPPED"])
        BY <2>2 DEF AfterSent
      <3>. HIDE DEF n, met, to, e
      <3>5. e.to # 0 => c < e.to
        BY <3>1, <3>2, <3>3, <3>4 DEF Decision
      <3>6. e.array = a \/ e.array = [a EXCEPT ![n].status = "SKIPPED"]
        BY <3>3, <3>4 DEF Decision
      <3>7. n \in Steps
        BY <3>1, StepNumbers
      <3>8. \A x \in Steps : e.array[x].status = "SENT" => a[x].status = "SENT"
        BY <3>6, <3>7, <1>s
      <3>. QED
        BY <1>2, <3>5, <3>8 DEF e
    <2>. QED
      BY <2>1, <2>2
  <1>3. CASE a[c].status # "SKIPPED" /\ ~(a[c].status = "SENT" /\ (due \/ Capped(a) \/ c = Last))
    BY <1>3 DEF Evaluation, Nothing, Decision
  <1>. QED
    BY <1>1, <1>2, <1>3

\* What the rest of the system does leaves the claims alone.
LEMMA ClaimUnchanged ==
  ASSUME ClaimInv, UNCHANGED <<cur, made, next, from, tpc, item>>
  PROVE  ClaimInv'
  BY DEF ClaimInv, RestIsEmpty, NextIsLater, MadeIsReached, ClaimIsOpen, ClaimIsAlone, OneJobPerStep

\* A tick that ends drops what it had in hand.
LEMMA ClaimForget ==
  ASSUME TypeOK, ClaimInv, NEW t \in Ticks, NEW step \in {"idle", "finish"},
         Goto(t, step), Forget(t), UNCHANGED <<cur, made>>
  PROVE  ClaimInv'
  <1>1. /\ tpc' = [tpc EXCEPT ![t] = step]
        /\ next' = [next EXCEPT ![t] = [r \in Recipients |-> 0]]
        /\ from' = [from EXCEPT ![t] = [r \in Recipients |-> 0]]
        /\ item' = [item EXCEPT ![t] = NoOne]
        /\ UNCHANGED <<cur, made>>
    BY DEF Goto, Forget
  <1>2. /\ tpc \in [Ticks -> TickSteps]
        /\ next \in [Ticks -> [Recipients -> Steps]]
        /\ from \in [Ticks -> [Recipients -> Steps]]
        /\ item \in [Ticks -> Recipients \cup {NoOne}]
    BY DEF TypeOK, TickOK
  <1>3. (RestIsEmpty /\ NextIsLater /\ MadeIsReached /\ OneJobPerStep)'
    BY <1>1, <1>2 DEF ClaimInv, RestIsEmpty, NextIsLater, MadeIsReached, OneJobPerStep
  <1>4. \A u \in Ticks : tpc'[u] = "create" =>
          u # t /\ tpc[u] = "create" /\ next'[u] = next[u] /\ item'[u] = item[u]
    BY <1>1, <1>2
  <1>5. (ClaimIsOpen /\ ClaimIsAlone)'
    BY <1>1, <1>4 DEF ClaimInv, ClaimIsOpen, ClaimIsAlone
  <1>. QED
    BY <1>3, <1>5 DEF ClaimInv

\* Every step of a tick keeps the claims in order.
LEMMA ClaimTick ==
  ASSUME Forward, TypeOK, ClaimInv, NEW t \in Ticks, TickStep(t) \/ TickAbort(t)
  PROVE  ClaimInv'
  <1>t. /\ tpc \in [Ticks -> TickSteps]
        /\ next \in [Ticks -> [Recipients -> Steps]]
        /\ from \in [Ticks -> [Recipients -> Steps]]
        /\ item \in [Ticks -> Recipients \cup {NoOne}]
        /\ \A u \in Ticks : tpc[u] \in {"create", "write", "enqueue"} => item[u] \in Recipients
        /\ cur \in [Recipients -> Steps]
        /\ made \in [Recipients -> [Steps -> Nat]]
    BY DEF TypeOK, TickOK, RowOK, JobOK
  <1>n. Steps \subseteq Nat
    BY StepNumbers
  <1>. USE DEF ClaimInv
  <1>1. CASE TickRead(t)
    <2>1. /\ tpc[t] = "idle" /\ tpc' = [tpc EXCEPT ![t] = "evaluate"]
          /\ \A u \in Ticks : u # t => from'[u] = from[u]
          /\ UNCHANGED <<cur, made, next, item>>
      BY <1>1, <1>t DEF TickRead, Goto, rowVars, jobVars
    <2>2. \A r \in Recipients : next[t][r] = 0
      BY <2>1 DEF RestIsEmpty
    <2>3. (RestIsEmpty /\ NextIsLater)'
      BY <2>1, <2>2, <1>t DEF RestIsEmpty, NextIsLater
    <2>4. (MadeIsReached /\ ClaimIsOpen /\ ClaimIsAlone /\ OneJobPerStep)'
      BY <2>1, <1>t DEF MadeIsReached, ClaimIsOpen, ClaimIsAlone, OneJobPerStep
    <2>. QED
      BY <2>3, <2>4
  <1>2. ASSUME NEW r \in Recipients, NEW due \in BOOLEAN, TickEvaluate(t, r, due)
        PROVE  ClaimInv'
    <2>. DEFINE e == Evaluation(from[t][r], plan[t][r], opened[r], due)
    <2>1. from[t][r] \in Steps /\ plan[t][r] \in Array
      BY DEF TypeOK, TickOK
    <2>2. e.to \in Steps /\ (e.to # 0 => from[t][r] < e.to)
      BY <2>1, EvaluationType, EvaluationForward
    <2>3. /\ tpc[t] = "evaluate"
          /\ next' = [next EXCEPT ![t][r] = e.to]
          /\ UNCHANGED <<cur, made, tpc, from, item>>
      BY <1>2 DEF TickEvaluate, rowVars, jobVars
    <2>. HIDE DEF e
    <2>4. (RestIsEmpty /\ NextIsLater)'
      BY <2>2, <2>3, <1>t DEF RestIsEmpty, NextIsLater
    <2>5. \A u \in Ticks : tpc[u] = "create" => u # t /\ next'[u] = next[u]
      BY <2>3, <1>t
    <2>6. (MadeIsReached /\ ClaimIsOpen /\ ClaimIsAlone /\ OneJobPerStep)'
      BY <2>3, <2>5 DEF MadeIsReached, ClaimIsOpen, ClaimIsAlone, OneJobPerStep
    <2>. QED
      BY <2>4, <2>6
  <1>3. CASE TickMarkCompleted(t)
    <2>1. /\ tpc' = [tpc EXCEPT ![t] = "schedule"]
          /\ UNCHANGED <<cur, made, next, from, item>>
      BY <1>3 DEF TickMarkCompleted, Goto, jobVars
    <2>. QED
      BY <2>1, <1>t DEF RestIsEmpty, NextIsLater, MadeIsReached, ClaimIsOpen, ClaimIsAlone,
                        OneJobPerStep
  <1>4. ASSUME NEW r \in Recipients, TickWriteSkip(t, r)
        PROVE  ClaimInv'
    BY <1>4, ClaimUnchanged DEF TickWriteSkip, jobVars
  <1>5. ASSUME NEW r \in Recipients, TickClaim(t, r)
        PROVE  ClaimInv'
    <2>1. CASE cur[r] = from[t][r]
      <3>1. /\ tpc[t] = "schedule" /\ next[t][r] # 0
            /\ cur' = [cur EXCEPT ![r] = next[t][r]]
            /\ item' = [item EXCEPT ![t] = r]
            /\ tpc' = [tpc EXCEPT ![t] = "create"]
            /\ UNCHANGED <<made, next, from>>
        BY <1>5, <2>1 DEF TickClaim, Goto, jobVars
      <3>2. cur[r] < next[t][r] /\ cur[r] \in Nat /\ next[t][r] \in Steps /\ next[t][r] \in Nat
        BY <2>1, <3>1, <1>t, <1>n DEF NextIsLater
      <3>3. made[r][next[t][r]] = 0
        <4>1. made[r][next[t][r]] \in Nat
          BY <3>2, <1>t
        <4>2. ~(made[r][next[t][r]] > 0)
          BY <3>2 DEF MadeIsReached
        <4>. QED
          BY <4>1, <4>2
      <3>4. \A u \in Ticks : u # t => tpc'[u] = tpc[u] /\ item'[u] = item[u]
        BY <3>1, <1>t
      <3>5. tpc'[t] = "create" /\ item'[t] = r /\ cur'[r] = next[t][r]
        BY <3>1, <1>t
      <3>6. (RestIsEmpty /\ NextIsLater /\ OneJobPerStep)'
        BY <3>1, <3>4, <3>5 DEF RestIsEmpty, NextIsLater, OneJobPerStep
      <3>7. \A x \in Recipients : cur[x] \in Nat /\ cur'[x] \in Nat /\ cur[x] <= cur'[x]
        <4>1. \A x \in Recipients : cur[x] \in Nat
          BY <1>t, <1>n
        <4>2. \A x \in Recipients : x # r => cur'[x] = cur[x]
          BY <3>1, <1>t
        <4>. QED
          BY <4>1, <4>2, <3>2, <3>5
      <3>8. MadeIsReached'
        BY <3>1, <3>7, <1>n DEF MadeIsReached
      <3>9. ClaimIsOpen'
        <4>1. ASSUME NEW u \in Ticks, u # t, tpc[u] = "create"
              PROVE  /\ next[u][item[u]] <= cur'[item[u]]
                     /\ made[item[u]][next[u][item[u]]] = 0
          <5>1. item[u] \in Recipients /\ next[u][item[u]] \in Nat
            BY <4>1, <1>t, <1>n
          <5>2. next[u][item[u]] <= cur[item[u]] /\ made[item[u]][next[u][item[u]]] = 0
            BY <4>1 DEF ClaimIsOpen
          <5>. QED
            BY <5>1, <5>2, <3>7
        <4>. QED
          BY <4>1, <3>1, <3>2, <3>3, <3>4, <3>5 DEF ClaimIsOpen
      <3>10. ClaimIsAlone'
        <4>1. ASSUME NEW u \in Ticks, u # t, tpc[u] = "create", item[u] = r
              PROVE  next[u][r] # next[t][r]
          <5>1. next[u][r] <= cur[r] /\ next[u][r] \in Nat
            BY <4>1, <1>t, <1>n DEF ClaimIsOpen
          <5>. QED
            BY <5>1, <3>2
        <4>. QED
          BY <4>1, <3>1, <3>4, <3>5 DEF ClaimIsAlone
      <3>. QED
        BY <3>6, <3>8, <3>9, <3>10
    <2>2. CASE cur[r] # from[t][r]
      <3>1. /\ tpc[t] = "schedule"
            /\ next' = [next EXCEPT ![t][r] = 0]
            /\ UNCHANGED <<cur, made, from, tpc, item>>
        BY <1>5, <2>2 DEF TickClaim, jobVars
      <3>2. (RestIsEmpty /\ NextIsLater)'
        BY <3>1, <1>t DEF RestIsEmpty, NextIsLater
      <3>3. \A u \in Ticks : tpc[u] = "create" => u # t /\ next'[u] = next[u]
        BY <3>1, <1>t
      <3>4. (MadeIsReached /\ ClaimIsOpen /\ ClaimIsAlone /\ OneJobPerStep)'
        BY <3>1, <3>3 DEF MadeIsReached, ClaimIsOpen, ClaimIsAlone, OneJobPerStep
      <3>. QED
        BY <3>2, <3>4
    <2>. QED
      BY <2>1, <2>2
  <1>6. CASE TickCreate(t)
    <2>. DEFINE r == item[t]
                s == next[t][r]
    <2>1. /\ tpc[t] = "create"
          /\ made' = [made EXCEPT ![r][s] = @ + 1]
          /\ tpc' = [tpc EXCEPT ![t] = "write"]
          /\ UNCHANGED <<cur, next, from, item>>
      BY <1>6 DEF TickCreate, Goto, rowVars
    <2>2. r \in Recipients /\ s \in Steps
      BY <2>1, <1>t
    <2>3. s <= cur[r] /\ made[r][s] = 0
      BY <2>1 DEF ClaimIsOpen
    <2>4. /\ made'[r][s] = 1
          /\ \A x \in Recipients, y \in Steps : ~(x = r /\ y = s) => made'[x][y] = made[x][y]
      BY <2>1, <2>2, <2>3, <1>t
    <2>5. (RestIsEmpty /\ NextIsLater)'
      BY <2>1, <1>t DEF RestIsEmpty, NextIsLater
    <2>6. (MadeIsReached /\ OneJobPerStep)'
      BY <2>1, <2>2, <2>3, <2>4 DEF MadeIsReached, OneJobPerStep
    <2>7. \A u \in Ticks : tpc'[u] = "create" => u # t /\ tpc[u] = "create"
      BY <2>1, <1>t
    <2>8. ClaimIsOpen'
      <3>1. ASSUME NEW u \in Ticks, tpc'[u] = "create"
            PROVE  /\ item[u] \in Recipients /\ next[u][item[u]] \in Steps
                   /\ ~(item[u] = r /\ next[u][item[u]] = s)
        BY <3>1, <2>1, <2>7, <1>t DEF ClaimIsAlone
      <3>. QED
        BY <3>1, <2>1, <2>4, <2>7 DEF ClaimIsOpen
    <2>9. ClaimIsAlone'
      BY <2>1, <2>7 DEF ClaimIsAlone
    <2>. QED
      BY <2>5, <2>6, <2>8, <2>9
  <1>7. CASE TickWrite(t)
    <2>1. /\ tpc' = [tpc EXCEPT ![t] = "enqueue"]
          /\ UNCHANGED <<cur, made, next, from, item>>
      BY <1>7 DEF TickWrite, Goto, jobVars
    <2>. QED
      BY <2>1, <1>t DEF RestIsEmpty, NextIsLater, MadeIsReached, ClaimIsOpen, ClaimIsAlone,
                        OneJobPerStep
  <1>8. CASE TickEnqueue(t)
    <2>1. /\ tpc[t] = "enqueue"
          /\ tpc' = [tpc EXCEPT ![t] = "schedule"]
          /\ next' = [next EXCEPT ![t][item[t]] = 0]
          /\ item' = [item EXCEPT ![t] = NoOne]
          /\ UNCHANGED <<cur, made, from>>
      BY <1>8 DEF TickEnqueue, Goto, rowVars
    <2>2. item[t] \in Recipients
      BY <2>1, <1>t
    <2>3. (RestIsEmpty /\ NextIsLater)'
      BY <2>1, <2>2, <1>t DEF RestIsEmpty, NextIsLater
    <2>4. \A u \in Ticks : tpc'[u] = "create" =>
            tpc[u] = "create" /\ next'[u] = next[u] /\ item'[u] = item[u]
      BY <2>1, <1>t
    <2>5. (MadeIsReached /\ ClaimIsOpen /\ ClaimIsAlone /\ OneJobPerStep)'
      BY <2>1, <2>4 DEF MadeIsReached, ClaimIsOpen, ClaimIsAlone, OneJobPerStep
    <2>. QED
      BY <2>3, <2>5
  <1>9. CASE TickCount(t)
    BY <1>9, ClaimForget DEF TickCount, rowVars, jobVars
  <1>10. CASE TickFinish(t)
    <2>1. /\ tpc[t] = "finish" /\ tpc' = [tpc EXCEPT ![t] = "idle"]
          /\ UNCHANGED <<cur, made, next, from, item>>
      BY <1>10 DEF TickFinish, Goto, rowVars, jobVars
    <2>. QED
      BY <2>1, <1>t DEF RestIsEmpty, NextIsLater, MadeIsReached, ClaimIsOpen, ClaimIsAlone,
                        OneJobPerStep
  <1>11. CASE TickAbort(t)
    BY <1>11, ClaimForget DEF TickAbort, rowVars, jobVars
  <1>. QED
    BY <1>1, <1>2, <1>3, <1>4, <1>5, <1>6, <1>7, <1>8, <1>9, <1>10, <1>11 DEF TickStep

\* Jobs, recipients, users and sweeps make no claim.
LEMMA OthersKeepClaims ==
  ASSUME \/ \E r \in Recipients : Detector(r) \/ \E s \in Steps : Run(r, s) \/ OpenMail(r, s)
         \/ User \/ Sweep
  PROVE  UNCHANGED <<cur, made, next, from, tpc, item>>
  <1>. USE DEF tickVars, jobVars, rowVars
  <1>1. ASSUME NEW r \in Recipients, NEW s \in Steps, Run(r, s)
        PROVE  UNCHANGED <<cur, made, next, from, tpc, item>>
    BY <1>1 DEF Run, Take, Reject, PassGates, CheckReply, MarkReplied, Accept, Bounce, ReadRow,
                WriteRow, LoseRow
  <1>2. ASSUME NEW r \in Recipients, NEW s \in Steps, OpenMail(r, s)
        PROVE  UNCHANGED <<cur, made, next, from, tpc, item>>
    BY <1>2 DEF OpenMail
  <1>3. ASSUME NEW r \in Recipients, Detector(r)
        PROVE  UNCHANGED <<cur, made, next, from, tpc, item>>
    BY <1>3 DEF Detector, DetectReply, RecordReply, DetectBounce, Suppress
  <1>4. CASE User
    BY <1>4 DEF User, PauseAll, Pause, StopRead, StopWrite, Toggle
  <1>5. CASE Sweep
    BY <1>5 DEF Sweep, SweepJobs, SweepStates, SweepWrite
  <1>. QED
    BY <1>1, <1>2, <1>3, <1>4, <1>5

LEMMA ClaimCrash ==
  ASSUME TypeOK, ClaimInv, Crash
  PROVE  ClaimInv'
  <1>1. /\ tpc' = [t \in Ticks |-> "idle"]
        /\ next' = [t \in Ticks |-> [r \in Recipients |-> 0]]
        /\ UNCHANGED <<cur, made>>
    BY DEF Crash, rowVars
  <1>. QED
    BY <1>1 DEF ClaimInv, RestIsEmpty, NextIsLater, MadeIsReached, ClaimIsOpen, ClaimIsAlone,
                OneJobPerStep

LEMMA ClaimInit == Init => ClaimInv
  BY StepNumbers DEF Init, OnlyFirst, ClaimInv, RestIsEmpty, NextIsLater, MadeIsReached, ClaimIsOpen,
     ClaimIsAlone, OneJobPerStep

LEMMA ClaimNext ==
  ASSUME Forward
  PROVE  TypeOK /\ ClaimInv /\ [Next]_vars => ClaimInv'
  <1>. SUFFICES ASSUME TypeOK, ClaimInv, [Next]_vars PROVE ClaimInv'
    OBVIOUS
  <1>1. CASE UNCHANGED vars
    BY <1>1, ClaimUnchanged DEF vars, rowVars, jobVars, tickVars
  <1>2. CASE Next
    BY <1>2, ClaimTick, OthersKeepClaims, ClaimUnchanged, ClaimCrash DEF Next
  <1>. QED
    BY <1>1, <1>2

\* If every branch leads to a later step, no recipient gets two jobs for a step,
\* however many ticks overlap and whatever crashes or fails.
THEOREM OneJobPerStepCorrect ==
  ASSUME Forward
  PROVE  Spec => []OneJobPerStep
  <1>1. ClaimInv => OneJobPerStep
    BY DEF ClaimInv
  <1>. QED
    BY <1>1, ClaimInit, ClaimNext, TypeCorrect, PTL DEF Spec

(***************************************************************************)
(* SENT in the array is true.  Everyone writes whole arrays from old       *)
(* copies, so the invariant speaks of the copies as well, and says why an  *)
(* entry named by currentStep is the entry of the job that asks: a job     *)
(* that is under way belongs to the current step.                          *)
(***************************************************************************)

\* The job of the step has an outcome, and its run has ended.
Settled(r, s) == at[r][s] = "ended" /\ job[r][s] \in {"SENT", "FAILED"}

\* A step without a job has none under way.
NoJobYet == \A r \in Recipients, s \in Steps : made[r][s] = 0 => at[r][s] = "none"

\* A job that is under way belongs to the current step.
RunIsCurrent ==
  \A r \in Recipients, s \in Steps : at[r][s] \notin {"none", "ended"} => s = cur[r]

\* After the send the status is written before the row.
OutcomeIsKnown ==
  \A r \in Recipients, s \in Steps :
    at[r][s] \in {"sent", "bounced", "write"} => job[r][s] \in {"SENT", "FAILED"}

\* SENT in the row, or in a copy of it, is true.
RowsAreTrue ==
  \A r \in Recipients, x \in Steps : st[r][x].status = "SENT" => Settled(r, x)

CopiesAreTrue ==
  \A r \in Recipients, x \in Steps :
    /\ halt[r][x].status = "SENT" => Settled(r, x)
    /\ \A t \in Ticks : plan[t][r][x].status = "SENT" => Settled(r, x)

\* A run's copy says in addition that its own mail is sent.
ViewsAreTrue ==
  \A r \in Recipients, s \in Steps, x \in Steps :
    view[r][s][x].status = "SENT" => Settled(r, x) \/ (x = s /\ at[r][s] = "write")

\* A tick schedules only after a step that is settled.
ReadIsSettled ==
  \A t \in Ticks, r \in Recipients : next[t][r] # 0 => Settled(r, from[t][r])

\* Between claim and create the step is the current one.
ClaimIsCurrent ==
  \A t \in Ticks : tpc[t] = "create" => next[t][item[t]] = cur[item[t]]

JobInv == NoJobYet /\ RunIsCurrent /\ OutcomeIsKnown
ArrayInv == RowsAreTrue /\ CopiesAreTrue /\ ViewsAreTrue
HandInv == ReadIsSettled /\ ClaimIsCurrent
EntryInv == JobInv /\ ArrayInv /\ HandInv

\* What a step leaves alone stays true, as long as what is settled stays settled.
LEMMA EntryUnchanged ==
  ASSUME EntryInv, \A r \in Recipients, s \in Steps : Settled(r, s) => Settled(r, s)'
  PROVE  /\ UNCHANGED <<made, at, cur, job>> => JobInv'
         /\ UNCHANGED st => RowsAreTrue'
         /\ UNCHANGED <<halt, plan>> => CopiesAreTrue'
         /\ UNCHANGED <<view, at>> => ViewsAreTrue'
         /\ TypeOK /\ UNCHANGED <<next, from>> => ReadIsSettled'
         /\ UNCHANGED <<tpc, next, item, cur>> => ClaimIsCurrent'
  <1>1. UNCHANGED <<made, at, cur, job>> => JobInv'
    BY DEF EntryInv, JobInv, NoJobYet, RunIsCurrent, OutcomeIsKnown
  <1>2. UNCHANGED st => RowsAreTrue'
    BY DEF EntryInv, ArrayInv, RowsAreTrue
  <1>3. UNCHANGED <<halt, plan>> => CopiesAreTrue'
    BY DEF EntryInv, ArrayInv, CopiesAreTrue
  <1>4. UNCHANGED <<view, at>> => ViewsAreTrue'
    BY DEF EntryInv, ArrayInv, ViewsAreTrue
  <1>5. TypeOK /\ UNCHANGED <<next, from>> => ReadIsSettled'
    <2>. SUFFICES ASSUME TypeOK, UNCHANGED <<next, from>>, NEW t \in Ticks, NEW r \in Recipients,
                         next[t][r] # 0
                  PROVE  Settled(r, from[t][r])'
      BY DEF ReadIsSettled
    <2>1. from[t][r] \in Steps
      BY DEF TypeOK, TickOK
    <2>2. Settled(r, from[t][r])
      BY DEF EntryInv, HandInv, ReadIsSettled
    <2>3. at'[r][from[t][r]] = "ended" /\ job'[r][from[t][r]] \in {"SENT", "FAILED"}
      BY <2>1, <2>2 DEF Settled
    <2>. QED
      BY <2>3 DEF Settled
  <1>6. UNCHANGED <<tpc, next, item, cur>> => ClaimIsCurrent'
    BY DEF EntryInv, HandInv, ClaimIsCurrent
  <1>. QED
    BY <1>1, <1>2, <1>3, <1>4, <1>5, <1>6

\* Steps that touch no job, row, copy or claim.
LEMMA EntryAside ==
  ASSUME TypeOK, EntryInv,
         UNCHANGED <<made, at, job, cur, st, halt, plan, view, next, from, tpc, item>>
  PROVE  EntryInv'
  <1>1. \A r \in Recipients, s \in Steps : Settled(r, s) => Settled(r, s)'
    BY DEF Settled
  <1>. QED
    BY <1>1, EntryUnchanged DEF EntryInv, ArrayInv, HandInv

\* A run moves on; the row and its own copy are looked at in EntryRun.
LEMMA EntryMove ==
  ASSUME TypeOK, EntryInv, NEW r \in Recipients, NEW s \in Steps, NEW place \in Places \ {"none"},
         at[r][s] \notin {"none", "ended"}, MoveTo(r, s, place),
         job' = job \/ \E x \in JobStatus : SetJob(r, s, x),
         place \in {"sent", "bounced", "write"} => job'[r][s] \in {"SENT", "FAILED"},
         UNCHANGED <<made, cur, halt, plan, next, from, tpc, item>>
  PROVE  /\ \A q \in Recipients, y \in Steps : Settled(q, y) => Settled(q, y)'
         /\ JobInv' /\ CopiesAreTrue' /\ HandInv'
  <1>1. /\ at'[r][s] = place
        /\ \A q \in Recipients, y \in Steps :
             ~(q = r /\ y = s) => at'[q][y] = at[q][y] /\ job'[q][y] = job[q][y]
    BY DEF TypeOK, JobOK, MoveTo, SetJob
  <1>2. \A q \in Recipients, y \in Steps : Settled(q, y) => Settled(q, y)'
    BY <1>1 DEF Settled
  <1>3. JobInv'
    BY <1>1 DEF EntryInv, JobInv, NoJobYet, RunIsCurrent, OutcomeIsKnown
  <1>. QED
    BY <1>2, <1>3, EntryUnchanged DEF HandInv

LEMMA EntryRun ==
  ASSUME TypeOK, EntryInv, NEW r \in Recipients, NEW s \in Steps, Run(r, s)
  PROVE  EntryInv'
  <1>. USE DEF tickVars, rowVars, userVars
  <1>s. /\ {"gates", "ended", "reply", "smtp", "cancelled", "sent", "bounced", "write"}
             \subseteq Places \ {"none"}
        /\ JobStatus = {"PENDING", "SENDING", "SENT", "FAILED", "CANCELLED"}
    BY DEF Places, JobStatus
  <1>j. job \in [Recipients -> [Steps -> JobStatus \cup {"none"}]]
    BY DEF TypeOK, JobOK
  <1>k. \A x : SetJob(r, s, x) => job'[r][s] = x
    BY <1>j DEF SetJob
  <1>. DEFINE Kept == /\ \A q \in Recipients, y \in Steps : Settled(q, y) => Settled(q, y)'
                      /\ JobInv' /\ CopiesAreTrue' /\ HandInv'
  <1>1. CASE Take(r, s) \/ Reject(r, s) \/ PassGates(r, s) \/ CheckReply(r, s) \/ MarkReplied(r, s)
             \/ Accept(r, s) \/ Bounce(r, s)
    <2>1. Kept
      <3>1. CASE Take(r, s)
        BY <3>1, <1>s, EntryMove DEF Take
      <3>2. CASE Reject(r, s)
        BY <3>2, <1>s, EntryMove DEF Reject
      <3>3. CASE PassGates(r, s)
        BY <3>3, <1>s, EntryMove DEF PassGates
      <3>4. CASE CheckReply(r, s)
        BY <3>4, <1>s, EntryMove DEF CheckReply
      <3>5. CASE MarkReplied(r, s)
        BY <3>5, <1>s, EntryMove DEF MarkReplied
      <3>6. CASE Accept(r, s)
        BY <3>6, <1>s, <1>k, EntryMove DEF Accept
      <3>7. CASE Bounce(r, s)
        BY <3>7, <1>s, <1>k, EntryMove DEF Bounce
      <3>. QED
        BY <1>1, <3>1, <3>2, <3>3, <3>4, <3>5, <3>6, <3>7
    <2>2. /\ at[r][s] # "write"
          /\ \A q \in Recipients, y \in Steps : ~(q = r /\ y = s) => at'[q][y] = at[q][y]
          /\ UNCHANGED <<st, view>>
      BY <1>1 DEF Take, Reject, PassGates, CheckReply, MarkReplied, Accept, Bounce, MoveTo,
                  TypeOK, JobOK
    <2>3. RowsAreTrue'
      BY <2>1, <2>2, EntryUnchanged
    <2>4. ViewsAreTrue'
      BY <2>1, <2>2 DEF EntryInv, ArrayInv, ViewsAreTrue
    <2>. QED
      BY <2>1, <2>3, <2>4 DEF EntryInv, ArrayInv
  <1>2. CASE ReadRow(r, s)
    <2>. DEFINE status == IF at[r][s] = "sent" THEN "SENT" ELSE "FAILED"
                copy == [st[r] EXCEPT ![s].status = status]
    <2>1. s = cur[r] /\ EntryOf(r, s) = s
      BY <1>2 DEF ReadRow, EntryInv, JobInv, RunIsCurrent, EntryOf
    <2>2. /\ view' = [view EXCEPT ![r][s] = copy]
          /\ MoveTo(r, s, "write") /\ at[r][s] \in {"sent", "bounced"}
          /\ UNCHANGED <<st, job>>
      BY <1>2, <2>1 DEF ReadRow
    <2>3. Kept
      <3>1. job'[r][s] \in {"SENT", "FAILED"}
        BY <2>2 DEF EntryInv, JobInv, OutcomeIsKnown
      <3>. QED
        BY <1>2, <2>2, <3>1, <1>s, EntryMove DEF ReadRow
    <2>4. \A x \in Steps : copy[x].status = "SENT" => x = s \/ Settled(r, x)
      <3>1. \A x \in Steps : x # s => copy[x] = st[r][x]
        BY DEF TypeOK, RowOK, Array
      <3>. QED
        BY <3>1 DEF EntryInv, ArrayInv, RowsAreTrue
    <2>. HIDE DEF copy
    <2>5. ViewsAreTrue'
      <3>1. /\ at'[r][s] = "write" /\ view'[r][s] = copy
            /\ \A q \in Recipients, y \in Steps :
                 ~(q = r /\ y = s) => at'[q][y] = at[q][y] /\ view'[q][y] = view[q][y]
        BY <2>2 DEF MoveTo, TypeOK, JobOK
      <3>. QED
        BY <2>3, <2>4, <3>1 DEF EntryInv, ArrayInv, ViewsAreTrue
    <2>6. RowsAreTrue'
      BY <2>2, <2>3, EntryUnchanged
    <2>. QED
      BY <2>3, <2>5, <2>6 DEF EntryInv, ArrayInv
  <1>3. CASE WriteRow(r, s) \/ LoseRow(r, s)
    <2>1. /\ view' = [view EXCEPT ![r][s] = Blank]
          /\ MoveTo(r, s, "ended") /\ at[r][s] \in {"sent", "bounced", "write"}
          /\ UNCHANGED job
      BY <1>3 DEF WriteRow, LoseRow
    <2>2. Kept
      <3>1. CASE WriteRow(r, s)
        BY <3>1, <2>1, <1>s, EntryMove DEF WriteRow
      <3>2. CASE LoseRow(r, s)
        BY <3>2, <2>1, <1>s, EntryMove DEF LoseRow
      <3>. QED
        BY <1>3, <3>1, <3>2
    <2>3. /\ at'[r][s] = "ended" /\ view'[r][s] = Blank
          /\ \A q \in Recipients, y \in Steps :
               ~(q = r /\ y = s) => at'[q][y] = at[q][y] /\ view'[q][y] = view[q][y]
      BY <2>1 DEF MoveTo, TypeOK, JobOK
    <2>4. Settled(r, s)'
      BY <2>1, <2>3 DEF Settled, EntryInv, JobInv, OutcomeIsKnown
    <2>5. ViewsAreTrue'
      <3>1. \A x \in Steps : Blank[x].status # "SENT"
        BY DEF Blank
      <3>. QED
        BY <2>2, <2>3, <3>1 DEF EntryInv, ArrayInv, ViewsAreTrue
    <2>6. RowsAreTrue'
      <3>1. CASE WriteRow(r, s)
        <4>1. \A x \in Steps : view[r][s][x].status = "SENT" => Settled(r, x)'
          BY <2>2, <2>4 DEF EntryInv, ArrayInv, ViewsAreTrue
        <4>2. st' = [st EXCEPT ![r] = view[r][s]]
          BY <3>1 DEF WriteRow
        <4>. QED
          BY <2>2, <4>1, <4>2 DEF TypeOK, RowOK, EntryInv, ArrayInv, RowsAreTrue
      <3>2. CASE LoseRow(r, s)
        BY <3>2, <2>2, EntryUnchanged DEF LoseRow
      <3>. QED
        BY <1>3, <3>1, <3>2
    <2>. QED
      BY <2>2, <2>5, <2>6 DEF EntryInv, ArrayInv
  <1>. QED
    BY <1>1, <1>2, <1>3 DEF Run

\* A tick that ends.
LEMMA EntryForget ==
  ASSUME TypeOK, EntryInv, NEW t \in Ticks, NEW step \in {"idle", "finish"},
         Goto(t, step), Forget(t), UNCHANGED <<made, at, job, cur, st, halt, view>>
  PROVE  EntryInv'
  <1>1. /\ tpc' = [tpc EXCEPT ![t] = step]
        /\ next' = [next EXCEPT ![t] = [r \in Recipients |-> 0]]
        /\ from' = [from EXCEPT ![t] = [r \in Recipients |-> 0]]
        /\ plan' = [plan EXCEPT ![t] = [r \in Recipients |-> Blank]]
        /\ item' = [item EXCEPT ![t] = NoOne]
    BY DEF Goto, Forget
  <1>2. /\ tpc'[t] = step
        /\ \A r \in Recipients : next'[t][r] = 0 /\ plan'[t][r] = Blank
        /\ \A u \in Ticks : u # t => /\ tpc'[u] = tpc[u] /\ next'[u] = next[u] /\ from'[u] = from[u]
                                     /\ plan'[u] = plan[u] /\ item'[u] = item[u]
    BY <1>1 DEF TypeOK, TickOK
  <1>3. \A r \in Recipients, s \in Steps : Settled(r, s) <=> Settled(r, s)'
    BY DEF Settled
  <1>4. JobInv' /\ RowsAreTrue' /\ ViewsAreTrue'
    BY <1>3, EntryUnchanged
  <1>5. CopiesAreTrue'
    <2>1. \A x \in Steps : Blank[x].status # "SENT"
      BY DEF Blank
    <2>. QED
      BY <1>2, <1>3, <2>1 DEF EntryInv, ArrayInv, CopiesAreTrue
  <1>6. ReadIsSettled'
    <2>. SUFFICES ASSUME NEW u \in Ticks, NEW r \in Recipients, next'[u][r] # 0
                  PROVE  Settled(r, from[u][r])'
      BY DEF ReadIsSettled
    <2>1. u # t /\ next[u][r] # 0 /\ from'[u][r] = from[u][r]
      BY <1>2
    <2>2. Settled(r, from[u][r])
      BY <2>1 DEF EntryInv, HandInv, ReadIsSettled
    <2>. QED
      BY <2>1, <2>2 DEF Settled
  <1>7. ClaimIsCurrent'
    BY <1>2 DEF EntryInv, HandInv, ClaimIsCurrent
  <1>. QED
    BY <1>4, <1>5, <1>6, <1>7 DEF EntryInv, ArrayInv, HandInv

\* Every step of a tick keeps the arrays true.
LEMMA EntryTick ==
  ASSUME Forward, TypeOK, ClaimInv, EntryInv, NEW t \in Ticks, TickStep(t) \/ TickAbort(t)
  PROVE  EntryInv'
  <1>. USE DEF rowVars, jobVars, userVars
  <1>t. /\ tpc \in [Ticks -> TickSteps]
        /\ next \in [Ticks -> [Recipients -> Steps]]
        /\ from \in [Ticks -> [Recipients -> Steps]]
        /\ plan \in [Ticks -> [Recipients -> Array]]
        /\ item \in [Ticks -> Recipients \cup {NoOne}]
        /\ \A u \in Ticks : tpc[u] \in {"create", "write", "enqueue"} => item[u] \in Recipients
        /\ cur \in [Recipients -> Steps]
        /\ st \in [Recipients -> Array]
        /\ made \in [Recipients -> [Steps -> Nat]]
        /\ at \in [Recipients -> [Steps -> Places]]
        /\ job \in [Recipients -> [Steps -> JobStatus \cup {"none"}]]
    BY DEF TypeOK, TickOK, RowOK, JobOK
  <1>1. CASE TickRead(t)
    <2>1. /\ tpc[t] = "idle" /\ tpc' = [tpc EXCEPT ![t] = "evaluate"]
          /\ from' = [from EXCEPT ![t] = [r \in Recipients |-> IF r \in {q \in Recipients : Running(q)}
                                                                THEN cur[r] ELSE 0]]
          /\ plan' = [plan EXCEPT ![t] = [r \in Recipients |-> IF r \in {q \in Recipients : Running(q)}
                                                                THEN st[r] ELSE Blank]]
          /\ UNCHANGED <<made, at, job, cur, st, halt, view, next, item>>
      BY <1>1 DEF TickRead, Goto
    <2>2. \A r \in Recipients, s \in Steps : Settled(r, s) <=> Settled(r, s)'
      BY <2>1 DEF Settled
    <2>3. JobInv' /\ RowsAreTrue' /\ ViewsAreTrue'
      BY <2>1, <2>2, EntryUnchanged
    <2>4. /\ \A r \in Recipients : plan'[t][r] \in {st[r], Blank}
          /\ \A u \in Ticks : u # t => plan'[u] = plan[u] /\ from'[u] = from[u]
      BY <2>1, <1>t
    <2>5. CopiesAreTrue'
      <3>1. \A x \in Steps : Blank[x].status # "SENT"
        BY DEF Blank
      <3>. QED
        BY <2>1, <2>2, <2>4, <3>1 DEF EntryInv, ArrayInv, RowsAreTrue, CopiesAreTrue
    <2>6. ReadIsSettled'
      <3>. SUFFICES ASSUME NEW u \in Ticks, NEW r \in Recipients, next'[u][r] # 0
                    PROVE  Settled(r, from[u][r])'
        BY DEF ReadIsSettled
      <3>1. u # t /\ next[u][r] # 0 /\ from'[u][r] = from[u][r]
        BY <2>1, <2>4 DEF ClaimInv, RestIsEmpty
      <3>2. Settled(r, from[u][r])
        BY <3>1 DEF EntryInv, HandInv, ReadIsSettled
      <3>. QED
        BY <2>1, <3>1, <3>2 DEF Settled
    <2>7. ClaimIsCurrent'
      BY <2>1, <1>t DEF EntryInv, HandInv, ClaimIsCurrent
    <2>. QED
      BY <2>3, <2>5, <2>6, <2>7 DEF EntryInv, ArrayInv, HandInv
  <1>2. ASSUME NEW r \in Recipients, NEW due \in BOOLEAN, TickEvaluate(t, r, due)
        PROVE  EntryInv'
    <2>. DEFINE a == plan[t][r]
                e == Evaluation(from[t][r], a, opened[r], due)
    <2>1. from[t][r] \in Steps /\ a \in Array
      BY <1>t
    <2>2. /\ e.to # 0 => a[from[t][r]].status = "SENT"
          /\ \A x \in Steps : e.array[x].status = "SENT" => a[x].status = "SENT"
      BY <2>1, EvaluationForward
    <2>3. /\ tpc[t] = "evaluate"
          /\ plan' = [plan EXCEPT ![t][r] = e.array]
          /\ next' = [next EXCEPT ![t][r] = e.to]
          /\ UNCHANGED <<made, at, job, cur, st, halt, view, tpc, from, item>>
      BY <1>2 DEF TickEvaluate
    <2>. HIDE DEF e
    <2>4. \A x \in Steps, q \in Recipients : Settled(q, x) <=> Settled(q, x)'
      BY <2>3 DEF Settled
    <2>5. JobInv' /\ RowsAreTrue' /\ ViewsAreTrue'
      BY <2>3, <2>4, EntryUnchanged
    <2>6. /\ plan'[t][r] = e.array /\ next'[t][r] = e.to
          /\ \A u \in Ticks, q \in Recipients :
               ~(u = t /\ q = r) => plan'[u][q] = plan[u][q] /\ next'[u][q] = next[u][q]
      BY <2>3, <1>t
    <2>7. CopiesAreTrue'
      BY <2>2, <2>3, <2>4, <2>6 DEF EntryInv, ArrayInv, CopiesAreTrue
    <2>8. ReadIsSettled'
      <3>. SUFFICES ASSUME NEW u \in Ticks, NEW q \in Recipients, next'[u][q] # 0
                    PROVE  Settled(q, from[u][q])
        BY <2>3 DEF ReadIsSettled, Settled
      <3>1. CASE u = t /\ q = r
        BY <3>1, <2>1, <2>2, <2>6 DEF EntryInv, ArrayInv, CopiesAreTrue
      <3>2. CASE ~(u = t /\ q = r)
        BY <3>2, <2>6 DEF EntryInv, HandInv, ReadIsSettled
      <3>. QED
        BY <3>1, <3>2
    <2>9. ClaimIsCurrent'
      <3>1. \A u \in Ticks : tpc[u] = "create" => u # t
        BY <2>3
      <3>2. \A u \in Ticks : tpc[u] = "create" => next'[u] = next[u]
        BY <2>3, <3>1, <1>t
      <3>. QED
        BY <2>3, <3>2 DEF EntryInv, HandInv, ClaimIsCurrent
    <2>. QED
      BY <2>5, <2>7, <2>8, <2>9 DEF EntryInv, ArrayInv, HandInv
  <1>3. CASE TickMarkCompleted(t)
    <2>1. /\ tpc' = [tpc EXCEPT ![t] = "schedule"]
          /\ UNCHANGED <<made, at, job, cur, st, halt, view, plan, next, from, item>>
      BY <1>3 DEF TickMarkCompleted, Goto
    <2>2. \A x \in Steps, q \in Recipients : Settled(q, x) => Settled(q, x)'
      BY <2>1 DEF Settled
    <2>3. ClaimIsCurrent'
      BY <2>1, <1>t DEF EntryInv, HandInv, ClaimIsCurrent
    <2>. QED
      BY <2>1, <2>2, <2>3, EntryUnchanged DEF EntryInv, ArrayInv, HandInv
  <1>4. ASSUME NEW r \in Recipients, TickWriteSkip(t, r)
        PROVE  EntryInv'
    <2>1. /\ st' = [st EXCEPT ![r] = plan[t][r]]
          /\ UNCHANGED <<made, at, job, cur, halt, view, plan, next, from, item, tpc>>
      BY <1>4 DEF TickWriteSkip
    <2>2. \A x \in Steps, q \in Recipients : Settled(q, x) <=> Settled(q, x)'
      BY <2>1 DEF Settled
    <2>3. RowsAreTrue'
      BY <2>1, <2>2, <1>t DEF EntryInv, ArrayInv, RowsAreTrue, CopiesAreTrue
    <2>. QED
      BY <2>1, <2>2, <2>3, EntryUnchanged DEF EntryInv, ArrayInv, HandInv
  <1>5. ASSUME NEW r \in Recipients, TickClaim(t, r)
        PROVE  EntryInv'
    <2>0. UNCHANGED <<made, at, job, st, halt, view, plan, from>>
      BY <1>5 DEF TickClaim
    <2>1. \A x \in Steps, q \in Recipients : Settled(q, x) <=> Settled(q, x)'
      BY <2>0 DEF Settled
    <2>2. ArrayInv'
      BY <2>0, <2>1, EntryUnchanged DEF ArrayInv
    <2>3. CASE cur[r] = from[t][r]
      <3>1. /\ tpc[t] = "schedule" /\ next[t][r] # 0
            /\ cur' = [cur EXCEPT ![r] = next[t][r]]
            /\ item' = [item EXCEPT ![t] = r]
            /\ tpc' = [tpc EXCEPT ![t] = "create"]
            /\ next' = next
        BY <1>5, <2>3 DEF TickClaim, Goto
      <3>2. Settled(r, cur[r]) /\ cur[r] \in Steps
        BY <2>3, <3>1, <1>t DEF EntryInv, HandInv, ReadIsSettled
      <3>3. \A s \in Steps : at[r][s] \in {"none", "ended"}
        BY <3>2 DEF EntryInv, JobInv, RunIsCurrent, Settled
      <3>4. JobInv'
        <4>1. \A q \in Recipients : q # r => cur'[q] = cur[q]
          BY <3>1, <1>t
        <4>. QED
          BY <2>0, <3>3, <4>1 DEF EntryInv, JobInv, NoJobYet, RunIsCurrent, OutcomeIsKnown
      <3>5. ClaimIsCurrent'
        <4>1. tpc'[t] = "create" /\ item'[t] = r /\ cur'[r] = next[t][r]
          BY <3>1, <1>t
        <4>2. ASSUME NEW u \in Ticks, u # t, tpc'[u] = "create"
              PROVE  next[u][item'[u]] = cur'[item'[u]]
          <5>1. tpc[u] = "create" /\ item'[u] = item[u] /\ item[u] \in Recipients
            BY <4>2, <3>1, <1>t
          <5>2. next[u][item[u]] = cur[item[u]] /\ made[item[u]][next[u][item[u]]] = 0
            BY <5>1 DEF EntryInv, HandInv, ClaimIsCurrent, ClaimInv, ClaimIsOpen
          <5>3. at[item[u]][cur[item[u]]] = "none"
            BY <5>1, <5>2, <1>t DEF EntryInv, JobInv, NoJobYet
          <5>4. item[u] # r
            BY <5>3, <3>2 DEF Settled
          <5>. QED
            BY <5>1, <5>2, <5>4, <3>1, <1>t
        <4>. QED
          BY <3>1, <4>1, <4>2 DEF ClaimIsCurrent
      <3>. QED
        BY <2>0, <2>1, <2>2, <3>1, <3>4, <3>5, EntryUnchanged DEF EntryInv, HandInv
    <2>4. CASE cur[r] # from[t][r]
      <3>1. /\ tpc[t] = "schedule"
            /\ next' = [next EXCEPT ![t][r] = 0]
            /\ UNCHANGED <<cur, tpc, item>>
        BY <1>5, <2>4 DEF TickClaim
      <3>2. ReadIsSettled'
        <4>1. \A u \in Ticks, q \in Recipients : next'[u][q] # 0 => next[u][q] # 0
          BY <3>1, <1>t
        <4>. QED
          BY <2>0, <4>1 DEF EntryInv, HandInv, ReadIsSettled, Settled
      <3>3. ClaimIsCurrent'
        <4>1. \A u \in Ticks : tpc[u] = "create" => next'[u] = next[u]
          BY <3>1, <1>t
        <4>. QED
          BY <3>1, <4>1 DEF EntryInv, HandInv, ClaimIsCurrent
      <3>. QED
        BY <2>0, <2>1, <2>2, <3>1, <3>2, <3>3, EntryUnchanged DEF EntryInv, HandInv
    <2>. QED
      BY <2>3, <2>4
  <1>6. CASE TickCreate(t)
    <2>. DEFINE r == item[t]
                s == next[t][r]
    <2>1. /\ tpc[t] = "create"
          /\ made' = [made EXCEPT ![r][s] = @ + 1]
          /\ job' = [job EXCEPT ![r][s] = "PENDING"]
          /\ at' = [at EXCEPT ![r][s] = "new"]
          /\ tpc' = [tpc EXCEPT ![t] = "write"]
          /\ UNCHANGED <<cur, st, halt, view, plan, next, from, item>>
      BY <1>6 DEF TickCreate, Goto
    <2>2. r \in Recipients /\ s \in Steps
      BY <2>1, <1>t
    <2>3. s = cur[r] /\ made[r][s] = 0
      BY <2>1 DEF EntryInv, HandInv, ClaimIsCurrent, ClaimInv, ClaimIsOpen
    <2>4. at[r][s] = "none"
      BY <2>2, <2>3 DEF EntryInv, JobInv, NoJobYet
    <2>. HIDE DEF r, s
    <2>5. /\ made'[r][s] # 0 /\ at'[r][s] = "new"
          /\ \A x \in Recipients, y \in Steps : ~(x = r /\ y = s) =>
               made'[x][y] = made[x][y] /\ at'[x][y] = at[x][y] /\ job'[x][y] = job[x][y]
      BY <2>1, <2>2, <2>3, <1>t
    <2>6. \A x \in Recipients, y \in Steps : Settled(x, y) => Settled(x, y)'
      BY <2>4, <2>5 DEF Settled
    <2>7. JobInv'
      BY <2>1, <2>3, <2>5 DEF EntryInv, JobInv, NoJobYet, RunIsCurrent, OutcomeIsKnown
    <2>8. ViewsAreTrue'
      BY <2>1, <2>4, <2>5, <2>6 DEF EntryInv, ArrayInv, ViewsAreTrue
    <2>9. ClaimIsCurrent'
      BY <2>1, <1>t DEF EntryInv, HandInv, ClaimIsCurrent
    <2>. QED
      BY <2>1, <2>6, <2>7, <2>8, <2>9, EntryUnchanged DEF EntryInv, ArrayInv, HandInv
  <1>7. CASE TickWrite(t)
    <2>. DEFINE r == item[t]
                s == next[t][r]
                array == [plan[t][r] EXCEPT ![s] = [status |-> "SCHEDULED", linked |-> TRUE]]
    <2>1. /\ tpc[t] = "write"
          /\ st' = [st EXCEPT ![r] = array]
          /\ tpc' = [tpc EXCEPT ![t] = "enqueue"]
          /\ UNCHANGED <<made, at, job, cur, halt, view, plan, next, from, item>>
      BY <1>7 DEF TickWrite, Goto
    <2>2. \A x \in Steps, q \in Recipients : Settled(q, x) <=> Settled(q, x)'
      BY <2>1 DEF Settled
    <2>3. r \in Recipients /\ s \in Steps /\ plan[t][r] \in Array
      BY <2>1, <1>t
    <2>4. \A x \in Steps : array[x].status = "SENT" => plan[t][r][x].status = "SENT"
      BY <2>3 DEF Array
    <2>5. RowsAreTrue'
      <3>. HIDE DEF array
      <3>1. \A x \in Steps : array[x].status = "SENT" => Settled(r, x)
        BY <2>3, <2>4 DEF EntryInv, ArrayInv, CopiesAreTrue
      <3>. HIDE DEF r
      <3>. QED
        BY <2>1, <2>2, <2>3, <3>1, <1>t DEF EntryInv, ArrayInv, RowsAreTrue
    <2>6. ClaimIsCurrent'
      BY <2>1, <1>t DEF EntryInv, HandInv, ClaimIsCurrent
    <2>. QED
      BY <2>1, <2>2, <2>5, <2>6, EntryUnchanged DEF EntryInv, ArrayInv, HandInv
  <1>8. CASE TickEnqueue(t)
    <2>. DEFINE r == item[t]
                s == next[t][r]
    <2>1. /\ tpc[t] = "enqueue"
          /\ at' = at \/ (at[r][s] = "new" /\ at' = [at EXCEPT ![r][s] = "queued"])
          /\ next' = [next EXCEPT ![t][r] = 0]
          /\ item' = [item EXCEPT ![t] = NoOne]
          /\ tpc' = [tpc EXCEPT ![t] = "schedule"]
          /\ UNCHANGED <<made, job, cur, st, halt, view, plan, from>>
      BY <1>8 DEF TickEnqueue, Queued, Goto
    <2>2. r \in Recipients /\ s \in Steps
      BY <2>1, <1>t
    <2>3. \A x \in Recipients, y \in Steps :
            at'[x][y] = at[x][y] \/ (at[x][y] = "new" /\ at'[x][y] = "queued")
      <3>. HIDE DEF r, s
      <3>1. at \in [Recipients -> [Steps -> Places]]
        BY <1>t
      <3>2. CASE at' = at
        BY <3>2
      <3>3. CASE at[r][s] = "new" /\ at' = [at EXCEPT ![r][s] = "queued"]
        BY <3>1, <3>3, <2>2
      <3>. QED
        BY <2>1, <3>2, <3>3
    <2>4. \A x \in Recipients, y \in Steps : Settled(x, y) => Settled(x, y)'
      BY <2>1, <2>3 DEF Settled
    <2>5. JobInv'
      BY <2>1, <2>3 DEF EntryInv, JobInv, NoJobYet, RunIsCurrent, OutcomeIsKnown
    <2>6. ViewsAreTrue'
      BY <2>1, <2>3, <2>4 DEF EntryInv, ArrayInv, ViewsAreTrue
    <2>7. ReadIsSettled'
      <3>. SUFFICES ASSUME NEW u \in Ticks, NEW q \in Recipients, next'[u][q] # 0
                    PROVE  Settled(q, from[u][q])'
        BY <2>1 DEF ReadIsSettled, Settled
      <3>1. next[u][q] # 0 /\ from[u][q] \in Steps
        BY <2>1, <2>2, <1>t
      <3>2. Settled(q, from[u][q])
        BY <3>1 DEF EntryInv, HandInv, ReadIsSettled
      <3>. QED
        BY <2>1, <2>3, <3>1, <3>2 DEF Settled
    <2>8. ClaimIsCurrent'
      BY <2>1, <1>t DEF EntryInv, HandInv, ClaimIsCurrent
    <2>. QED
      BY <2>1, <2>4, <2>5, <2>6, <2>7, <2>8, EntryUnchanged DEF EntryInv, ArrayInv, HandInv
  <1>9. CASE TickCount(t)
    BY <1>9, EntryForget DEF TickCount
  <1>10. CASE TickFinish(t)
    <2>1. /\ tpc' = [tpc EXCEPT ![t] = "idle"]
          /\ UNCHANGED <<made, at, job, cur, st, halt, view, plan, next, from, item>>
      BY <1>10 DEF TickFinish, Goto
    <2>2. \A x \in Steps, q \in Recipients : Settled(q, x) => Settled(q, x)'
      BY <2>1 DEF Settled
    <2>3. ClaimIsCurrent'
      BY <2>1, <1>t DEF EntryInv, HandInv, ClaimIsCurrent
    <2>. QED
      BY <2>1, <2>2, <2>3, EntryUnchanged DEF EntryInv, ArrayInv, HandInv
  <1>11. CASE TickAbort(t)
    BY <1>11, EntryForget DEF TickAbort
  <1>. QED
    BY <1>1, <1>2, <1>3, <1>4, <1>5, <1>6, <1>7, <1>8, <1>9, <1>10, <1>11 DEF TickStep

\* Recipients, the detector, the user and the sweep.
LEMMA EntryOthers ==
  ASSUME TypeOK, EntryInv,
         \/ \E r \in Recipients : Detector(r) \/ \E s \in Steps : OpenMail(r, s)
         \/ User \/ Sweep
  PROVE  EntryInv'
  <1>. USE DEF rowVars, jobVars, tickVars, userVars
  <1>1. ASSUME NEW r \in Recipients, NEW s \in Steps, OpenMail(r, s) \/ DetectReply(r, s)
        PROVE  EntryInv'
    BY <1>1, EntryAside DEF OpenMail, DetectReply
  <1>2. ASSUME NEW r \in Recipients, RecordReply(r) \/ Suppress(r)
        PROVE  EntryInv'
    BY <1>2, EntryAside DEF RecordReply, Suppress
  <1>3. ASSUME NEW r \in Recipients, NEW s \in Steps, DetectBounce(r, s)
        PROVE  EntryInv'
    <2>1. /\ job[r][s] = "SENT" /\ job' = [job EXCEPT ![r][s] = "FAILED"]
          /\ UNCHANGED <<made, at, cur, st, halt, plan, view, next, from, tpc, item>>
      BY <1>3 DEF DetectBounce, SetJob
    <2>2. /\ job'[r][s] = "FAILED"
          /\ \A q \in Recipients, y \in Steps : ~(q = r /\ y = s) => job'[q][y] = job[q][y]
      BY <2>1 DEF TypeOK, JobOK
    <2>3. \A q \in Recipients, y \in Steps : Settled(q, y) => Settled(q, y)'
      BY <2>1, <2>2 DEF Settled
    <2>4. JobInv'
      BY <2>1, <2>2 DEF EntryInv, JobInv, NoJobYet, RunIsCurrent, OutcomeIsKnown
    <2>. QED
      BY <2>1, <2>3, <2>4, EntryUnchanged DEF EntryInv, ArrayInv, HandInv
  <1>4. CASE PauseAll
    BY <1>4, EntryAside DEF PauseAll
  <1>5. ASSUME NEW r \in Recipients, Pause(r)
        PROVE  EntryInv'
    BY <1>5, EntryAside DEF Pause
  <1>6. ASSUME NEW r \in Recipients, NEW s \in Steps, Toggle(r, s)
        PROVE  EntryInv'
    BY <1>6, EntryAside DEF Toggle
  <1>7. ASSUME NEW r \in Recipients, StopRead(r)
        PROVE  EntryInv'
    <2>. DEFINE copy == [s \in Steps |->
                           IF st[r][s].status \in {"SENT", "FAILED"} THEN st[r][s]
                           ELSE [st[r][s] EXCEPT !.status = "SKIPPED"]]
    <2>1. /\ halt' = [halt EXCEPT ![r] = copy]
          /\ UNCHANGED <<made, at, job, cur, st, plan, view, next, from, tpc, item>>
      BY <1>7 DEF StopRead
    <2>2. \A q \in Recipients, y \in Steps : Settled(q, y) <=> Settled(q, y)'
      BY <2>1 DEF Settled
    <2>3. \A x \in Steps : copy[x].status = "SENT" => st[r][x].status = "SENT"
      BY DEF TypeOK, RowOK, Array, Entry
    <2>. HIDE DEF copy
    <2>4. CopiesAreTrue'
      BY <2>1, <2>2, <2>3 DEF EntryInv, ArrayInv, RowsAreTrue, CopiesAreTrue, TypeOK, UserOK
    <2>. QED
      BY <2>1, <2>2, <2>4, EntryUnchanged DEF EntryInv, ArrayInv, HandInv
  <1>8. ASSUME NEW r \in Recipients, StopWrite(r)
        PROVE  EntryInv'
    <2>1. /\ st' = [st EXCEPT ![r] = halt[r]]
          /\ halt' = [halt EXCEPT ![r] = Blank]
          /\ UNCHANGED <<made, at, job, cur, plan, view, next, from, tpc, item>>
      BY <1>8 DEF StopWrite
    <2>2. \A q \in Recipients, y \in Steps : Settled(q, y) <=> Settled(q, y)'
      BY <2>1 DEF Settled
    <2>3. RowsAreTrue'
      BY <2>1, <2>2 DEF EntryInv, ArrayInv, RowsAreTrue, CopiesAreTrue, TypeOK, RowOK
    <2>4. CopiesAreTrue'
      <3>1. \A x \in Steps : Blank[x].status # "SENT"
        BY DEF Blank
      <3>. QED
        BY <2>1, <2>2, <3>1 DEF EntryInv, ArrayInv, CopiesAreTrue, TypeOK, UserOK
    <2>. QED
      BY <2>1, <2>2, <2>3, <2>4, EntryUnchanged DEF EntryInv, ArrayInv, HandInv
  <1>9. CASE Sweep
    BY <1>9, EntryAside DEF Sweep, SweepJobs, SweepStates, SweepWrite
  <1>. QED
    BY <1>1, <1>2, <1>3, <1>4, <1>5, <1>6, <1>7, <1>8, <1>9 DEF Detector, User

LEMMA EntryCrash ==
  ASSUME TypeOK, EntryInv, Crash
  PROVE  EntryInv'
  <1>1. /\ \A r \in Recipients, s \in Steps :
             /\ at'[r][s] = IF at[r][s] = "none" THEN "none"
                            ELSE IF at[r][s] \in Unsent THEN "queued" ELSE "ended"
             /\ job'[r][s] = IF at[r][s] \in Unsent THEN "PENDING" ELSE job[r][s]
             /\ view'[r][s] = Blank
        /\ \A t \in Ticks : tpc'[t] = "idle"
        /\ \A t \in Ticks, r \in Recipients : plan'[t][r] = Blank /\ next'[t][r] = 0
        /\ UNCHANGED <<made, cur, st, halt>>
    BY DEF Crash, rowVars, userVars
  <1>2. \A r \in Recipients, s \in Steps : Settled(r, s) => Settled(r, s)'
    BY <1>1 DEF Settled, Unsent
  <1>3. \A x \in Steps : Blank[x].status # "SENT"
    BY DEF Blank
  <1>4. JobInv'
    BY <1>1 DEF EntryInv, JobInv, NoJobYet, RunIsCurrent, OutcomeIsKnown, Unsent
  <1>5. ArrayInv'
    BY <1>1, <1>2, <1>3 DEF EntryInv, ArrayInv, RowsAreTrue, CopiesAreTrue, ViewsAreTrue
  <1>6. HandInv'
    BY <1>1 DEF HandInv, ReadIsSettled, ClaimIsCurrent
  <1>. QED
    BY <1>4, <1>5, <1>6 DEF EntryInv

LEMMA EntryInit == Init => EntryInv
  <1>. SUFFICES ASSUME Init PROVE EntryInv
    OBVIOUS
  <1>1. \A x \in Steps : Blank[x].status # "SENT"
    BY DEF Blank
  <1>2. JobInv
    BY StepNumbers DEF Init, OnlyFirst, JobInv, NoJobYet, RunIsCurrent, OutcomeIsKnown
  <1>3. ArrayInv
    BY <1>1 DEF Init, ArrayInv, RowsAreTrue, CopiesAreTrue, ViewsAreTrue
  <1>4. HandInv
    BY DEF Init, HandInv, ReadIsSettled, ClaimIsCurrent
  <1>. QED
    BY <1>2, <1>3, <1>4 DEF EntryInv

LEMMA EntryNext ==
  ASSUME Forward
  PROVE  TypeOK /\ ClaimInv /\ EntryInv /\ [Next]_vars => EntryInv'
  <1>. SUFFICES ASSUME TypeOK, ClaimInv, EntryInv, [Next]_vars PROVE EntryInv'
    OBVIOUS
  <1>1. CASE UNCHANGED vars
    BY <1>1, EntryAside DEF vars, rowVars, jobVars, tickVars, userVars
  <1>2. CASE Next
    BY <1>2, EntryTick, EntryRun, EntryOthers, EntryCrash DEF Next
  <1>. QED
    BY <1>1, <1>2

\* If every branch leads to a later step, the array says SENT only of a step whose mail
\* went out, whatever overlaps, crashes or fails.
THEOREM SentEntryIsTrueCorrect ==
  ASSUME Forward
  PROVE  Spec => []SentEntryIsTrue
  <1>1. EntryInv => SentEntryIsTrue
    BY DEF EntryInv, ArrayInv, RowsAreTrue, Settled, SentEntryIsTrue
  <1>. QED
    BY <1>1, ClaimInit, ClaimNext, EntryInit, EntryNext, TypeCorrect, PTL DEF Spec

(***************************************************************************)
(* After a reply nothing more is scheduled, until the user takes it back.  *)
(* Here a sequence may branch as it likes.                                 *)
(***************************************************************************)

\* A job that is not sent yet is open.
RunIsOpen == \A r \in Recipients, s \in Steps : at[r][s] \in Unsent => job[r][s] \in Open

\* A tick that schedules a recipient has a step for it.
HandHasStep ==
  \A t \in Ticks : tpc[t] \in {"create", "write", "enqueue"} => next[t][item[t]] # 0

ReplyInv == RunIsOpen /\ HandHasStep

LEMMA ReplyTick ==
  ASSUME TypeOK, ReplyInv, NEW t \in Ticks, TickStep(t) \/ TickAbort(t)
  PROVE  ReplyInv'
  <1>. USE DEF rowVars, jobVars, ReplyInv
  <1>t. /\ tpc \in [Ticks -> TickSteps]
        /\ next \in [Ticks -> [Recipients -> Steps]]
        /\ item \in [Ticks -> Recipients \cup {NoOne}]
        /\ \A u \in Ticks : tpc[u] \in {"create", "write", "enqueue"} => item[u] \in Recipients
        /\ at \in [Recipients -> [Steps -> Places]]
        /\ job \in [Recipients -> [Steps -> JobStatus \cup {"none"}]]
    BY DEF TypeOK, TickOK, JobOK
  <1>0. UNCHANGED <<at, job>> => RunIsOpen'
    BY DEF RunIsOpen
  <1>h. ASSUME \A u \in Ticks \ {t} : tpc'[u] = tpc[u] /\ next'[u] = next[u] /\ item'[u] = item[u],
               tpc'[t] \in {"create", "write", "enqueue"} => next'[t][item'[t]] # 0
        PROVE  HandHasStep'
    BY <1>h DEF HandHasStep
  <1>1. CASE TickRead(t)
    BY <1>1, <1>0, <1>t, <1>h DEF TickRead, Goto
  <1>2. ASSUME NEW r \in Recipients, NEW due \in BOOLEAN, TickEvaluate(t, r, due)
        PROVE  ReplyInv'
    <2>1. /\ tpc[t] = "evaluate" /\ UNCHANGED <<at, job, tpc, item>>
          /\ \E to : next' = [next EXCEPT ![t][r] = to]
      BY <1>2 DEF TickEvaluate
    <2>. QED
      BY <2>1, <1>0, <1>t, <1>h
  <1>3. CASE TickMarkCompleted(t)
    BY <1>3, <1>0, <1>t, <1>h DEF TickMarkCompleted, Goto
  <1>4. ASSUME NEW r \in Recipients, TickWriteSkip(t, r)
        PROVE  ReplyInv'
    BY <1>4, <1>0, <1>t, <1>h DEF TickWriteSkip
  <1>5. ASSUME NEW r \in Recipients, TickClaim(t, r)
        PROVE  ReplyInv'
    <2>1. UNCHANGED <<at, job>> /\ tpc[t] = "schedule" /\ next[t][r] # 0
      BY <1>5 DEF TickClaim
    <2>2. CASE cur[r] = from[t][r]
      <3>1. /\ item' = [item EXCEPT ![t] = r]
            /\ tpc' = [tpc EXCEPT ![t] = "create"]
            /\ next' = next
        BY <1>5, <2>2 DEF TickClaim, Goto
      <3>. QED
        BY <2>1, <3>1, <1>0, <1>t, <1>h
    <2>3. CASE cur[r] # from[t][r]
      <3>1. next' = [next EXCEPT ![t][r] = 0] /\ UNCHANGED <<tpc, item>>
        BY <1>5, <2>3 DEF TickClaim
      <3>. QED
        BY <2>1, <3>1, <1>0, <1>t, <1>h
    <2>. QED
      BY <2>2, <2>3
  <1>6. CASE TickCreate(t)
    <2>. DEFINE r == item[t]
                s == next[t][r]
    <2>1. /\ tpc[t] = "create" /\ tpc' = [tpc EXCEPT ![t] = "write"]
          /\ job' = [job EXCEPT ![r][s] = "PENDING"]
          /\ at' = [at EXCEPT ![r][s] = "new"]
          /\ UNCHANGED <<next, item>>
      BY <1>6 DEF TickCreate, Goto
    <2>2. r \in Recipients /\ s \in Steps
      BY <2>1, <1>t
    <2>3. HandHasStep'
      BY <2>1, <1>t DEF HandHasStep
    <2>. HIDE DEF r, s
    <2>4. RunIsOpen'
      BY <2>1, <2>2, <1>t DEF RunIsOpen, Open
    <2>. QED
      BY <2>3, <2>4
  <1>7. CASE TickWrite(t)
    <2>1. /\ tpc[t] = "write" /\ tpc' = [tpc EXCEPT ![t] = "enqueue"]
          /\ UNCHANGED <<at, job, next, item>>
      BY <1>7 DEF TickWrite, Goto
    <2>2. HandHasStep'
      BY <2>1, <1>t DEF HandHasStep
    <2>. QED
      BY <2>1, <2>2, <1>0
  <1>8. CASE TickEnqueue(t)
    <2>. DEFINE r == item[t]
                s == next[t][r]
    <2>1. /\ tpc[t] = "enqueue"
          /\ at' = at \/ (at[r][s] = "new" /\ at' = [at EXCEPT ![r][s] = "queued"])
          /\ next' = [next EXCEPT ![t][r] = 0]
          /\ item' = [item EXCEPT ![t] = NoOne]
          /\ tpc' = [tpc EXCEPT ![t] = "schedule"]
          /\ job' = job
      BY <1>8 DEF TickEnqueue, Queued, Goto
    <2>2. r \in Recipients /\ s \in Steps
      BY <2>1, <1>t
    <2>3. HandHasStep'
      BY <2>1, <1>t, <1>h
    <2>. HIDE DEF r, s
    <2>4. RunIsOpen'
      <3>1. CASE at' = at
        BY <2>1, <3>1, <1>0
      <3>2. CASE at[r][s] = "new" /\ at' = [at EXCEPT ![r][s] = "queued"]
        BY <2>1, <2>2, <3>2, <1>t DEF RunIsOpen, Unsent
      <3>. QED
        BY <2>1, <3>1, <3>2
    <2>. QED
      BY <2>3, <2>4
  <1>9. CASE TickCount(t)
    <2>1. \E step \in {"idle", "finish"} : tpc' = [tpc EXCEPT ![t] = step]
      BY <1>9 DEF TickCount, Goto
    <2>. QED
      BY <1>9, <2>1, <1>0, <1>t, <1>h DEF TickCount, Forget
  <1>10. CASE TickFinish(t)
    BY <1>10, <1>0, <1>t, <1>h DEF TickFinish, Goto
  <1>11. CASE TickAbort(t)
    BY <1>11, <1>0, <1>t, <1>h DEF TickAbort, Forget, Goto
  <1>. QED
    BY <1>1, <1>2, <1>3, <1>4, <1>5, <1>6, <1>7, <1>8, <1>9, <1>10, <1>11 DEF TickStep

LEMMA ReplyRun ==
  ASSUME TypeOK, ReplyInv, NEW r \in Recipients, NEW s \in Steps,
         Run(r, s) \/ DetectBounce(r, s)
  PROVE  ReplyInv'
  <1>. USE DEF tickVars, ReplyInv
  <1>1. UNCHANGED <<next, tpc, item>>
    BY DEF Run, Take, Reject, PassGates, CheckReply, MarkReplied, Accept, Bounce, ReadRow,
           WriteRow, LoseRow, DetectBounce
  <1>2. HandHasStep'
    BY <1>1 DEF HandHasStep
  <1>3. at \in [Recipients -> [Steps -> Places]] /\ job \in [Recipients -> [Steps -> JobStatus \cup {"none"}]]
    BY DEF TypeOK, JobOK
  <1>4. \A q \in Recipients, y \in Steps : ~(q = r /\ y = s) => at'[q][y] = at[q][y] /\ job'[q][y] = job[q][y]
    BY <1>3 DEF Run, Take, Reject, PassGates, CheckReply, MarkReplied, Accept, Bounce, ReadRow,
                WriteRow, LoseRow, DetectBounce, MoveTo, SetJob
  <1>5. at'[r][s] \in Unsent => job'[r][s] \in Open
    BY <1>3 DEF Run, Take, Reject, PassGates, CheckReply, MarkReplied, Accept, Bounce, ReadRow,
                WriteRow, LoseRow, DetectBounce, MoveTo, SetJob, Unsent, Open, RunIsOpen
  <1>6. RunIsOpen'
    BY <1>4, <1>5 DEF RunIsOpen
  <1>. QED
    BY <1>2, <1>6

LEMMA ReplyOthers ==
  ASSUME TypeOK, ReplyInv,
         \/ \E r \in Recipients : RecordReply(r) \/ Suppress(r)
              \/ \E s \in Steps : OpenMail(r, s) \/ DetectReply(r, s)
         \/ User \/ Sweep \/ Crash \/ UNCHANGED vars
  PROVE  ReplyInv'
  <1>. USE DEF tickVars, jobVars, ReplyInv
  <1>1. CASE Crash
    <2>1. /\ \A r \in Recipients, s \in Steps :
               at'[r][s] \in Unsent => at[r][s] \in Unsent /\ job'[r][s] = "PENDING"
          /\ \A t \in Ticks : tpc'[t] = "idle"
      BY <1>1 DEF Crash, Unsent
    <2>. QED
      BY <2>1 DEF RunIsOpen, HandHasStep, Open
  <1>2. CASE ~Crash
    <2>1. UNCHANGED <<at, job, next, tpc, item>>
      <3>1. ASSUME NEW r \in Recipients, RecordReply(r) \/ Suppress(r)
            PROVE  UNCHANGED <<at, job, next, tpc, item>>
        BY <3>1 DEF RecordReply, Suppress
      <3>2. ASSUME NEW r \in Recipients, NEW s \in Steps, OpenMail(r, s) \/ DetectReply(r, s)
            PROVE  UNCHANGED <<at, job, next, tpc, item>>
        BY <3>2 DEF OpenMail, DetectReply
      <3>3. CASE User
        BY <3>3 DEF User, PauseAll, Pause, StopRead, StopWrite, Toggle
      <3>4. CASE Sweep
        BY <3>4 DEF Sweep, SweepJobs, SweepStates, SweepWrite
      <3>5. CASE UNCHANGED vars
        BY <3>5 DEF vars
      <3>. QED
        BY <1>2, <3>1, <3>2, <3>3, <3>4, <3>5
    <2>. QED
      BY <2>1 DEF RunIsOpen, HandHasStep
  <1>. QED
    BY <1>1, <1>2

LEMMA ReplyNext == TypeOK /\ ReplyInv /\ [Next]_vars => ReplyInv'
  BY ReplyTick, ReplyRun, ReplyOthers DEF Next, Detector

LEMMA ReplyInit == Init => ReplyInv
  BY DEF Init, OnlyFirst, ReplyInv, RunIsOpen, HandHasStep, Open, Unsent

\* A step of a tick schedules nothing for a quiet recipient.
LEMMA QuietTick ==
  ASSUME TypeOK, ReplyInv, NEW r \in Recipients, Quiet(r),
         NEW t \in Ticks, TickStep(t) \/ TickAbort(t)
  PROVE  Quiet(r)'
  <1>. USE DEF jobVars
  <1>t. /\ next \in [Ticks -> [Recipients -> Steps]]
        /\ todo \in [Ticks -> SUBSET Recipients]
        /\ \A u \in Ticks : tpc[u] \in {"create", "write", "enqueue"} => item[u] \in Recipients
        /\ job \in [Recipients -> [Steps -> JobStatus \cup {"none"}]]
    BY DEF TypeOK, TickOK, JobOK
  <1>1. replied' = replied
    BY DEF TickStep, TickRead, TickEvaluate, TickMarkCompleted, TickWriteSkip, TickClaim, TickCreate,
           TickWrite, TickEnqueue, TickCount, TickFinish, TickAbort, rowVars
  <1>2. \A s \in Steps : job'[r][s] = job[r][s]
    <2>1. CASE TickCreate(t)
      <3>1. /\ tpc[t] = "create" /\ next[t][item[t]] # 0
            /\ job' = [job EXCEPT ![item[t]][next[t][item[t]]] = "PENDING"]
        BY <2>1 DEF TickCreate, ReplyInv, HandHasStep
      <3>2. item[t] # r
        BY <3>1 DEF Quiet
      <3>. QED
        BY <3>1, <3>2, <1>t
    <2>2. CASE ~TickCreate(t)
      BY <2>2 DEF TickStep, TickRead, TickEvaluate, TickMarkCompleted, TickWriteSkip, TickClaim,
                  TickWrite, TickEnqueue, TickCount, TickFinish, TickAbort
    <2>. QED
      BY <2>1, <2>2
  <1>3. \A u \in Ticks : u # t => todo'[u] = todo[u] /\ next'[u] = next[u]
    <2>1. ASSUME NEW q \in Recipients, NEW due \in BOOLEAN, TickEvaluate(t, q, due)
          PROVE  \A u \in Ticks : u # t => todo'[u] = todo[u] /\ next'[u] = next[u]
      BY <2>1, <1>t DEF TickEvaluate
    <2>2. ASSUME NEW q \in Recipients, TickClaim(t, q)
          PROVE  \A u \in Ticks : u # t => todo'[u] = todo[u] /\ next'[u] = next[u]
      BY <2>2, <1>t DEF TickClaim
    <2>3. CASE TickEnqueue(t)
      BY <2>3, <1>t DEF TickEnqueue
    <2>4. CASE TickRead(t)
      BY <2>4, <1>t DEF TickRead
    <2>5. CASE TickCount(t) \/ TickAbort(t)
      BY <2>5, <1>t DEF TickCount, TickAbort, Forget
    <2>6. CASE TickMarkCompleted(t) \/ TickCreate(t) \/ TickWrite(t) \/ TickFinish(t)
               \/ \E q \in Recipients : TickWriteSkip(t, q)
      BY <2>6 DEF TickMarkCompleted, TickCreate, TickWrite, TickFinish, TickWriteSkip
    <2>. QED
      BY <2>1, <2>2, <2>3, <2>4, <2>5, <2>6 DEF TickStep
  <1>4. r \notin todo'[t] /\ next'[t][r] = 0
    <2>0. r \in replied /\ r \notin todo[t] /\ next[t][r] = 0
      BY DEF Quiet
    <2>1. ASSUME NEW q \in Recipients, NEW due \in BOOLEAN, TickEvaluate(t, q, due)
          PROVE  r \notin todo'[t] /\ next'[t][r] = 0
      <3>1. /\ q \in todo[t] /\ todo' = [todo EXCEPT ![t] = @ \ {q}]
            /\ \E to : next' = [next EXCEPT ![t][q] = to]
        BY <2>1 DEF TickEvaluate
      <3>. QED
        BY <2>0, <3>1, <1>t
    <2>2. ASSUME NEW q \in Recipients, TickClaim(t, q)
          PROVE  r \notin todo'[t] /\ next'[t][r] = 0
      BY <2>0, <2>2, <1>t DEF TickClaim
    <2>3. CASE TickEnqueue(t)
      <3>1. todo' = todo /\ next' = [next EXCEPT ![t][item[t]] = 0] /\ item[t] \in Recipients
        BY <2>3, <1>t DEF TickEnqueue
      <3>. QED
        BY <2>0, <3>1, <1>t
    <2>4. CASE TickRead(t)
      BY <2>0, <2>4, <1>t DEF TickRead, Running
    <2>5. CASE TickCount(t) \/ TickAbort(t)
      BY <2>5, <1>t DEF TickCount, TickAbort, Forget
    <2>6. CASE TickMarkCompleted(t) \/ TickCreate(t) \/ TickWrite(t) \/ TickFinish(t)
               \/ \E q \in Recipients : TickWriteSkip(t, q)
      BY <2>0, <2>6 DEF TickMarkCompleted, TickCreate, TickWrite, TickFinish, TickWriteSkip
    <2>. QED
      BY <2>1, <2>2, <2>3, <2>4, <2>5, <2>6 DEF TickStep
  <1>. QED
    BY <1>1, <1>2, <1>3, <1>4 DEF Quiet

\* Neither does anything else, unless the user takes the reply back.
LEMMA QuietOthers ==
  ASSUME TypeOK, ReplyInv, NEW r \in Recipients, Quiet(r), r \in replied',
         \/ \E q \in Recipients : Detector(q) \/ \E s \in Steps : Run(q, s) \/ OpenMail(q, s)
         \/ User \/ Sweep \/ Crash
  PROVE  Quiet(r)'
  <1>. USE DEF jobVars, rowVars, tickVars
  <1>0. /\ r \in replied
        /\ \A s \in Steps : job[r][s] \notin Open
        /\ \A t \in Ticks : r \notin todo[t] /\ next[t][r] = 0
    BY DEF Quiet
  <1>t. job \in [Recipients -> [Steps -> JobStatus \cup {"none"}]]
    BY DEF TypeOK, JobOK
  <1>1. ASSUME NEW q \in Recipients, NEW s \in Steps, Run(q, s)
        PROVE  Quiet(r)'
    <2>1. replied \subseteq replied' /\ UNCHANGED <<todo, next>>
      BY <1>1 DEF Run, Take, Reject, PassGates, CheckReply, MarkReplied, Accept, Bounce, ReadRow,
                  WriteRow, LoseRow
    <2>2. \A y \in Steps : job'[r][y] \notin Open
      <3>1. CASE Take(q, s)
        <4>1. job[q][s] \in Open /\ job' = [job EXCEPT ![q][s] = "SENDING"]
          BY <3>1 DEF Take, SetJob, ReplyInv, RunIsOpen, Unsent
        <4>2. q # r
          BY <4>1, <1>0
        <4>. QED
          BY <4>1, <4>2, <1>0, <1>t
      <3>2. CASE ~Take(q, s)
        <4>1. job' = job \/ \E x \in {"FAILED", "CANCELLED", "SENT"} : job' = [job EXCEPT ![q][s] = x]
          BY <1>1, <3>2 DEF Run, Reject, PassGates, CheckReply, MarkReplied, Accept, Bounce, ReadRow,
                            WriteRow, LoseRow, SetJob
        <4>. QED
          BY <4>1, <1>0, <1>t DEF Open
      <3>. QED
        BY <3>1, <3>2
    <2>. QED
      BY <1>0, <2>1, <2>2 DEF Quiet
  <1>2. ASSUME NEW q \in Recipients, Detector(q) \/ \E s \in Steps : OpenMail(q, s)
        PROVE  Quiet(r)'
    <2>1. replied \subseteq replied' /\ UNCHANGED <<todo, next>>
      BY <1>2 DEF Detector, DetectReply, RecordReply, DetectBounce, Suppress, OpenMail
    <2>2. job' = job \/ \E s \in Steps : job' = [job EXCEPT ![q][s] = "FAILED"]
      BY <1>2 DEF Detector, DetectReply, RecordReply, DetectBounce, Suppress, OpenMail, SetJob
    <2>3. \A y \in Steps : job'[r][y] \notin Open
      BY <2>2, <1>0, <1>t DEF Open
    <2>. QED
      BY <1>0, <2>1, <2>3 DEF Quiet
  <1>3. CASE User
    <2>1. UNCHANGED <<job, todo, next>>
      BY <1>3 DEF User, PauseAll, Pause, StopRead, StopWrite, Toggle
    <2>. QED
      BY <1>0, <2>1 DEF Quiet
  <1>4. CASE Sweep
    <2>1. UNCHANGED <<replied, job, todo, next>>
      BY <1>4 DEF Sweep, SweepJobs, SweepStates, SweepWrite
    <2>. QED
      BY <1>0, <2>1 DEF Quiet
  <1>5. CASE Crash
    <2>1. /\ replied' = replied
          /\ \A t \in Ticks : todo'[t] = {} /\ next'[t][r] = 0
          /\ \A s \in Steps : job'[r][s] = IF at[r][s] \in Unsent THEN "PENDING" ELSE job[r][s]
      BY <1>5 DEF Crash
    <2>2. \A s \in Steps : at[r][s] \notin Unsent
      BY <1>0 DEF ReplyInv, RunIsOpen
    <2>. QED
      BY <1>0, <2>1, <2>2 DEF Quiet
  <1>. QED
    BY <1>1, <1>2, <1>3, <1>4, <1>5

\* Once a reply is on the row, and no tick or run has the recipient in hand, nothing is
\* scheduled for it again before the user takes the reply back, whatever the branches
\* are and whatever crashes or fails.
THEOREM RepliesEndSequenceCorrect == Spec => RepliesEndSequence
  <1>1. TypeOK /\ ReplyInv /\ [Next]_vars
          => [\A r \in Recipients : Quiet(r) /\ r \in replied' => Quiet(r)']_vars
    <2>. SUFFICES ASSUME TypeOK, ReplyInv, Next, NEW r \in Recipients, Quiet(r), r \in replied'
                  PROVE  Quiet(r)'
      OBVIOUS
    <2>. QED
      BY QuietTick, QuietOthers DEF Next
  <1>. QED
    BY <1>1, ReplyInit, ReplyNext, TypeCorrect, PTL DEF Spec, RepliesEndSequence
=============================================================================
