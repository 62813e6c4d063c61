-------------------- MODULE SequenceScheduler_cap_proofs --------------------
(***************************************************************************)
(* The cap on follow-ups, and the completion of a campaign with a          *)
(* sequence, for all recipients, ticks, steps and faults. Both rest on     *)
(* what the row remembers: the tick counts the SENT entries of an array    *)
(* that everyone writes as a whole from an old copy. An entry that was     *)
(* SENT is forgotten when the user stops the recipient while a mail is     *)
(* under way, or when a tick that skips a step writes its old array after  *)
(* another tick has scheduled the next mails. Without stops, and with      *)
(* ticks that do not overlap or a sequence that skips nothing, nothing is  *)
(* forgotten, whatever crashes or fails.                                   *)
(***************************************************************************)
EXTENDS SequenceScheduler_proofs, FiniteSetTheorems

\* Ticks do not overlap.
OneTick == \A t, u \in Ticks : t = u

\* No step has a condition: every follow-up leads to the next one.
Unconditional == Ruled = {} /\ \A s \in FollowUps : OnMatch[s] \in {0, s}

(***************************************************************************)
(* Nobody is stopped, if the user stops nobody.                            *)
(***************************************************************************)
NobodyStops == stopping = {}

LEMMA NobodyStopped ==
  ASSUME "stop" \notin Happenings
  PROVE  Spec => []NobodyStops
  <1>1. Init => NobodyStops
    BY DEF Init, NobodyStops
  <1>2. NobodyStops /\ [Next]_vars => NobodyStops'
    <2>. SUFFICES ASSUME stopping = {}, [Next]_vars PROVE stopping' = {}
      BY DEF NobodyStops
    <2>. USE DEF userVars
    <2>1. ASSUME NEW t \in Ticks, TickStep(t) \/ TickAbort(t)
          PROVE  stopping' = {}
      BY <2>1 DEF TickStep, TickAbort, TickRead, TickMarkCompleted, TickCreate, TickWrite, TickEnqueue,
         TickCount, TickFinish, TickWriteSkip, TickClaim, TickEvaluate
    <2>2. ASSUME NEW r \in Recipients, NEW s \in Steps, Run(r, s) \/ OpenMail(r, s)
          PROVE  stopping' = {}
      BY <2>2 DEF Run, Take, Reject, PassGates, CheckReply, MarkReplied, Accept, Bounce, ReadRow,
         WriteRow, LoseRow, OpenMail
    <2>3. ASSUME NEW r \in Recipients, Detector(r)
          PROVE  stopping' = {}
      BY <2>3 DEF Detector, RecordReply, Suppress, DetectReply, DetectBounce
    <2>4. CASE User
      BY <2>4 DEF User, PauseAll, Pause, StopRead, StopWrite, Toggle
    <2>5. CASE Sweep \/ Crash \/ UNCHANGED vars
      BY <2>5 DEF Sweep, SweepJobs, SweepStates, SweepWrite, Crash, vars
    <2>. QED
      BY <2>1, <2>2, <2>3, <2>4, <2>5 DEF Next
  <1>. QED
    BY <1>1, <1>2, PTL DEF Spec

(***************************************************************************)
(* A tick that has to write an array has read the row at its current step, *)
(* and no other tick is there.                                             *)
(***************************************************************************)
Fresh ==
  \A t \in Ticks, r \in Recipients :
    /\ r \in skips[t] => from[t][r] = cur[r] /\ tpc[t] \in {"evaluate", "schedule"}
    /\ r \in todo[t] /\ tpc[t] = "evaluate" => from[t][r] = cur[r]

SkipIsFresh == \A t \in Ticks : \A r \in skips[t] : OneTick /\ from[t][r] = cur[r]

LEMMA FreshStep ==
  ASSUME OneTick, TypeOK, Fresh, [Next]_vars
  PROVE  Fresh'
  <1>. USE DEF TypeOK, TickOK, RowOK, tickVars, rowVars
  <1>u. UNCHANGED <<skips, todo, from, cur, tpc>> => Fresh'
    BY DEF Fresh
  <1>f. ASSUME NEW t \in Ticks, Forget(t), UNCHANGED cur
        PROVE  Fresh'
    BY <1>f DEF Forget, Fresh, OneTick
  <1>1. ASSUME NEW t \in Ticks, TickStep(t) \/ TickAbort(t)
        PROVE  Fresh'
    <2>. USE DEF OneTick
    <2>1. CASE TickRead(t)
      BY <2>1 DEF TickRead, Goto, Fresh
    <2>2. ASSUME NEW r \in Recipients, NEW due \in BOOLEAN, TickEvaluate(t, r, due)
          PROVE  Fresh'
      <3>1. /\ tpc[t] = "evaluate" /\ r \in todo[t] /\ UNCHANGED <<tpc, from, cur>>
            /\ todo' = [todo EXCEPT ![t] = @ \ {r}]
            /\ skips' = skips \/ skips' = [skips EXCEPT ![t] = @ \cup {r}]
        BY <2>2 DEF TickEvaluate
      <3>. QED
        BY <3>1 DEF Fresh
    <2>3. CASE TickMarkCompleted(t)
      BY <2>3 DEF TickMarkCompleted, Goto, Fresh
    <2>4. ASSUME NEW r \in Recipients, TickWriteSkip(t, r)
          PROVE  Fresh'
      BY <2>4 DEF TickWriteSkip, Fresh
    <2>5. ASSUME NEW r \in Recipients, TickClaim(t, r)
          PROVE  Fresh'
      <3>1. /\ tpc[t] = "schedule" /\ skips[t] = {} /\ UNCHANGED <<skips, todo, from>>
            /\ tpc' = tpc \/ tpc' = [tpc EXCEPT ![t] = "create"]
        BY <2>5 DEF TickClaim, Goto
      <3>. QED
        BY <3>1 DEF Fresh
    <2>6. CASE TickCreate(t) \/ TickWrite(t) \/ TickEnqueue(t) \/ TickFinish(t)
      BY <2>6 DEF TickCreate, TickWrite, TickEnqueue, TickFinish, Goto, Fresh
    <2>7. CASE TickCount(t) \/ TickAbort(t)
      BY <2>7, <1>f DEF TickCount, TickAbort
    <2>. QED
      BY <1>1, <2>1, <2>2, <2>3, <2>4, <2>5, <2>6, <2>7 DEF TickStep
  <1>2. ASSUME NEW r \in Recipients, NEW s \in Steps, Run(r, s) \/ OpenMail(r, s)
        PROVE  Fresh'
    BY <1>2, <1>u DEF Run, Take, Reject, PassGates, CheckReply, MarkReplied, Accept, Bounce, ReadRow,
       WriteRow, LoseRow, OpenMail
  <1>3. ASSUME NEW r \in Recipients, Detector(r)
        PROVE  Fresh'
    BY <1>3, <1>u DEF Detector, RecordReply, Suppress, DetectReply, DetectBounce
  <1>4. CASE User \/ Sweep \/ UNCHANGED vars
    BY <1>4, <1>u DEF User, PauseAll, Pause, StopRead, StopWrite, Toggle, Sweep, SweepJobs, SweepStates,
       SweepWrite, vars
  <1>5. CASE Crash
    BY <1>5 DEF Crash, Fresh
  <1>. QED
    BY <1>1, <1>2, <1>3, <1>4, <1>5 DEF Next

(***************************************************************************)
(* A sequence without conditions skips no step.                            *)
(***************************************************************************)
LEMMA UnconditionalEvaluation ==
  ASSUME Unconditional, NEW c \in Steps, NEW a \in Array, NEW open, NEW due,
         a[c].status # "SKIPPED"
  PROVE  LET e == Evaluation(c, a, open, due)
         IN /\ ~e.skip /\ e.array = a
            /\ e.complete => a[c].status = "SENT" /\ (Capped(a) \/ c = Last)
  <1>. DEFINE e == Evaluation(c, a, open, due)
  <1>1. CASE a[c].status = "SENT" /\ (due \/ Capped(a) \/ c = Last)
    <2>1. CASE Capped(a) \/ c = Last
      BY <1>1, <2>1 DEF Evaluation, AfterSent, Finished, Decision
    <2>2. CASE ~(Capped(a) \/ c = Last)
      <3>1. c + 1 \in FollowUps /\ c + 1 <= Last
        BY <2>2, StepNumbers
      <3>2. Met(c + 1, c, a, open)
        BY DEF Unconditional, Met
      <3>3. Target(c + 1, Met(c + 1, c, a, open)) = c + 1
        BY <3>1, <3>2 DEF Unconditional, Target
      <3>4. e = AfterSent(c, a, open)
        BY <1>1 DEF Evaluation
      <3>5. ~(c + 1 > Last)
        BY <3>1, StepNumbers
      <3>6. AfterSent(c, a, open) = Decision(FALSE, FALSE, c + 1, a)
        BY <2>2, <3>3, <3>5 DEF AfterSent
      <3>. QED
        BY <3>4, <3>6 DEF Decision
    <2>. QED
      BY <2>1, <2>2
  <1>2. CASE ~(a[c].status = "SENT" /\ (due \/ Capped(a) \/ c = Last))
    BY <1>2 DEF Evaluation, Nothing, Decision
  <1>. QED
    BY <1>1, <1>2

\* No entry of array a is SKIPPED.
Whole(a) == \A s \in Steps : a[s].status # "SKIPPED"

NoneSkipped ==
  /\ \A r \in Recipients : Whole(st[r])
  /\ \A r \in Recipients, s \in Steps : Whole(view[r][s])
  /\ \A t \in Ticks, r \in Recipients : Whole(plan[t][r])
  /\ \A t \in Ticks : skips[t] = {}

LEMMA WholeBlank == Whole(Blank)
  BY DEF Whole, Blank

LEMMA NoneSkippedStep ==
  ASSUME Unconditional, NobodyStops, TypeOK, NoneSkipped, [Next]_vars
  PROVE  NoneSkipped'
  <1>. USE DEF TypeOK, TickOK, RowOK, JobOK, tickVars, rowVars, jobVars, NobodyStops, NoneSkipped
  <1>u. UNCHANGED <<st, view, plan, skips>> => NoneSkipped'
    OBVIOUS
  <1>f. ASSUME NEW t \in Ticks, Forget(t), UNCHANGED <<st, view>>
        PROVE  NoneSkipped'
    BY <1>f, WholeBlank DEF Forget
  <1>1. ASSUME NEW t \in Ticks, TickStep(t) \/ TickAbort(t)
        PROVE  NoneSkipped'
    <2>1. CASE TickRead(t)
      BY <2>1, WholeBlank DEF TickRead
    <2>2. ASSUME NEW r \in Recipients, NEW due \in BOOLEAN, TickEvaluate(t, r, due)
          PROVE  NoneSkipped'
      <3>. DEFINE e == Evaluation(from[t][r], plan[t][r], opened[r], due)
      <3>1. from[t][r] \in Steps /\ plan[t][r] \in Array /\ plan[t][r][from[t][r]].status # "SKIPPED"
        BY DEF Whole
      <3>2. ~e.skip /\ e.array = plan[t][r]
        BY <3>1, UnconditionalEvaluation
      <3>3. plan' = [plan EXCEPT ![t][r] = e.array] /\ UNCHANGED <<st, view>>
            /\ skips' = IF e.skip THEN [skips EXCEPT ![t] = @ \cup {r}] ELSE skips
        BY <2>2 DEF TickEvaluate
      <3>. HIDE DEF e
      <3>4. plan' = plan /\ skips' = skips
        BY <3>2, <3>3
      <3>. QED
        BY <3>3, <3>4
    <2>3. CASE TickMarkCompleted(t) \/ TickCreate(t) \/ TickEnqueue(t) \/ TickFinish(t)
      BY <2>3 DEF TickMarkCompleted, TickCreate, TickEnqueue, TickFinish
    <2>4. ASSUME NEW r \in Recipients, TickWriteSkip(t, r)
          PROVE  NoneSkipped'
      BY <2>4 DEF TickWriteSkip
    <2>5. ASSUME NEW r \in Recipients, TickClaim(t, r)
          PROVE  NoneSkipped'
      BY <2>5 DEF TickClaim
    <2>6. CASE TickWrite(t)
      <3>. DEFINE r == item[t]
                  a == [plan[t][r] EXCEPT ![next[t][r]] = [status |-> "SCHEDULED", linked |-> TRUE]]
      <3>1. r \in Recipients /\ next[t][r] \in Steps /\ plan[t][r] \in Array
        BY <2>6 DEF TickWrite
      <3>2. Whole(a)
        BY <3>1 DEF Whole, Array
      <3>3. st' = [st EXCEPT ![r] = a] /\ UNCHANGED <<view, plan, skips>>
        BY <2>6 DEF TickWrite
      <3>. QED
        BY <3>1, <3>2, <3>3
    <2>7. CASE TickCount(t) \/ TickAbort(t)
      BY <2>7, <1>f DEF TickCount, TickAbort
    <2>. QED
      BY <1>1, <2>1, <2>2, <2>3, <2>4, <2>5, <2>6, <2>7 DEF TickStep
  <1>2. ASSUME NEW r \in Recipients, NEW s \in Steps, ReadRow(r, s)
        PROVE  NoneSkipped'
    <2>. DEFINE status == IF at[r][s] = "sent" THEN "SENT" ELSE "FAILED"
                copy == [st[r] EXCEPT ![EntryOf(r, s)].status = status]
    <2>1. Whole(copy)
      BY DEF Whole, Array, Entry
    <2>2. view' = [view EXCEPT ![r][s] = copy] /\ UNCHANGED <<st, plan, skips>>
      BY <1>2 DEF ReadRow
    <2>. HIDE DEF copy
    <2>. QED
      BY <2>1, <2>2
  <1>3. ASSUME NEW r \in Recipients, NEW s \in Steps, WriteRow(r, s) \/ LoseRow(r, s)
        PROVE  NoneSkipped'
    <2>1. view' = [view EXCEPT ![r][s] = Blank] /\ UNCHANGED <<plan, skips>>
      BY <1>3 DEF WriteRow, LoseRow
    <2>2. st' = st \/ st' = [st EXCEPT ![r] = view[r][s]]
      BY <1>3 DEF WriteRow, LoseRow
    <2>3. ASSUME NEW q \in Recipients PROVE Whole(st'[q])
      <3>1. Whole(st[q]) /\ Whole(view[r][s])
        OBVIOUS
      <3>2. st'[q] = st[q] \/ st'[q] = view[r][s]
        BY <2>2
      <3>. QED
        BY <3>1, <3>2
    <2>4. \A q \in Recipients, y \in Steps : Whole(view'[q][y])
      BY <2>1, WholeBlank
    <2>. QED
      BY <2>1, <2>3, <2>4
  <1>4. ASSUME NEW r \in Recipients, NEW s \in Steps, Run(r, s) \/ OpenMail(r, s)
        PROVE  NoneSkipped'
    BY <1>4, <1>2, <1>3, <1>u DEF Run, Take, Reject, PassGates, CheckReply, MarkReplied, Accept, Bounce, OpenMail
  <1>5. ASSUME NEW r \in Recipients, Detector(r)
        PROVE  NoneSkipped'
    BY <1>5, <1>u DEF Detector, RecordReply, Suppress, DetectReply, DetectBounce
  <1>6. CASE User \/ Sweep \/ UNCHANGED vars
    BY <1>6, <1>u DEF User, PauseAll, Pause, StopRead, StopWrite, Toggle, Sweep, SweepJobs, SweepStates,
       SweepWrite, vars
  <1>7. CASE Crash
    BY <1>7, WholeBlank DEF Crash
  <1>. QED
    BY <1>1, <1>4, <1>5, <1>6, <1>7 DEF Next

LEMMA NoneSkippedKept ==
  ASSUME Unconditional, "stop" \notin Happenings
  PROVE  Spec => []NoneSkipped
  <1>1. Init => NoneSkipped
    BY WholeBlank DEF Init, NoneSkipped
  <1>2. NobodyStops /\ TypeOK /\ NoneSkipped /\ [Next]_vars => NoneSkipped'
    BY NoneSkippedStep
  <1>. QED
    BY <1>1, <1>2, NobodyStopped, TypeCorrect, PTL DEF Spec

LEMMA SkipIsFreshKept ==
  ASSUME OneTick \/ Unconditional, "stop" \notin Happenings
  PROVE  Spec => []SkipIsFresh
  <1>1. CASE OneTick
    <2>1. Init => Fresh
      BY DEF Init, Fresh
    <2>2. TypeOK /\ Fresh /\ [Next]_vars => Fresh'
      BY <1>1, FreshStep
    <2>3. TypeOK /\ Fresh => SkipIsFresh
      BY <1>1 DEF Fresh, SkipIsFresh, TypeOK, TickOK
    <2>. QED
      BY <2>1, <2>2, <2>3, TypeCorrect, PTL DEF Spec
  <1>2. CASE Unconditional
    <2>1. NoneSkipped => SkipIsFresh
      BY DEF NoneSkipped, SkipIsFresh
    <2>. QED
      BY <1>2, <2>1, NoneSkippedKept, PTL
  <1>. QED
    BY <1>1, <1>2

(***************************************************************************)
(* What is remembered of the follow-ups a job was made for.  While nothing *)
(* is forgotten, every array of a recipient, the row's and the copies of   *)
(* ticks and runs, says SENT of all of them below the step it was read at. *)
(***************************************************************************)
Begun(r) == {s \in FollowUps : made[r][s] > 0}
SentIn(a) == {s \in FollowUps : a[s].status = "SENT"}

RowRemembers ==
  \A r \in Recipients : \A s \in Begun(r) : s < cur[r] => st[r][s].status = "SENT"

ViewRemembers ==
  \A r \in Recipients, y \in Steps : at[r][y] = "write" =>
    \A s \in Begun(r) : s < cur[r] => view[r][y][s].status = "SENT"

PlanRemembers ==
  \A t \in Ticks, r \in Recipients : \A s \in Begun(r) :
    s < from[t][r] => plan[t][r][s].status = "SENT"

\* A tick has read no later step than the current one; if it has read SENT of the
\* current step, the row still says so.
FromIsReached == \A t \in Ticks, r \in Recipients : from[t][r] <= cur[r]

PlanAgrees ==
  \A t \in Ticks, r \in Recipients :
    from[t][r] = cur[r] /\ plan[t][r][cur[r]].status = "SENT" => st[r][cur[r]].status = "SENT"

\* A tick schedules after a step that its array says is SENT, within the cap.
NextIsCounted ==
  \A t \in Ticks, r \in Recipients : next[t][r] # 0 =>
    plan[t][r][from[t][r]].status = "SENT" /\ ~Capped(plan[t][r])

\* What a tick has claimed: a step that is reached, the current one until its array is
\* written, claimed by no other tick, and counted with all begun before it.
InHand == {"create", "write", "enqueue"}

HandIsReached == \A t \in Ticks : tpc[t] \in InHand => next[t][item[t]] <= cur[item[t]]

HandIsAlone ==
  \A t, u \in Ticks : t # u /\ tpc[t] \in InHand /\ tpc[u] \in InHand /\ item[t] = item[u]
    => next[t][item[t]] # next[u][item[u]]

WriteIsNew ==
  \A t \in Ticks : tpc[t] = "write" =>
    next[t][item[t]] = cur[item[t]] /\ at[item[t]][next[t][item[t]]] = "new"

HandRemembers ==
  \A t \in Ticks : tpc[t] \in {"create", "write"} =>
    \A s \in Begun(item[t]) \ {next[t][item[t]]} : plan[t][item[t]][s].status = "SENT"

ArraysRemember == RowRemembers /\ ViewRemembers /\ PlanRemembers
TicksRemember == FromIsReached /\ PlanAgrees /\ NextIsCounted
HandsRemember == HandIsReached /\ HandIsAlone /\ WriteIsNew /\ HandRemembers
CapInv == ArraysRemember /\ TicksRemember /\ HandsRemember /\ CapIsKept

\* Begun follow-ups are reached.
LEMMA BegunReached ==
  ASSUME TypeOK, ClaimInv, NEW r \in Recipients
  PROVE  \A s \in Begun(r) : s \in Steps /\ s <= cur[r]
  BY StepNumbers DEF Begun, ClaimInv, MadeIsReached, TypeOK, JobOK

\* An evaluation changes only the entry after the step, and schedules within the cap.
LEMMA EvaluationCounts ==
  ASSUME Forward, NEW c \in Steps, NEW a \in Array, NEW open, NEW due
  PROVE  LET e == Evaluation(c, a, open, due)
         IN /\ \A x \in Steps : x # c + 1 => e.array[x] = a[x]
            /\ e.to # 0 => ~Capped(a)
  <1>. DEFINE e == Evaluation(c, a, open, due)
  <1>s. \A y \in {"SKIPPED", "PENDING"} : \A x \in Steps :
          x # c + 1 => [a EXCEPT ![c + 1].status = y][x] = a[x]
    BY DEF Array
  <1>1. CASE a[c].status = "SKIPPED"
    <2>1. CASE c = Last
      BY <1>1, <2>1 DEF Evaluation, AfterSkipped, Finished, Decision
    <2>2. CASE c # Last
      <3>1. e.to = 0 /\ e.array = [a EXCEPT ![c + 1].status = "PENDING"]
        BY <1>1, <2>2 DEF Evaluation, AfterSkipped, Decision
      <3>. QED
        BY <3>1, <1>s
    <2>. QED
      BY <2>1, <2>2
  <1>2. CASE a[c].status = "SENT" /\ (due \/ Capped(a) \/ c = Last)
    <2>0. e = AfterSent(c, a, open)
      BY <1>2 DEF Evaluation
    <2>1. CASE Capped(a) \/ c = Last
      BY <2>0, <2>1 DEF AfterSent, Finished, Decision
    <2>2. CASE ~(Capped(a) \/ c = Last)
      <3>1. e.array = a \/ e.array = [a EXCEPT ![c + 1].status = "SKIPPED"]
        BY <2>0, <2>2 DEF AfterSent, Decision
      <3>. QED
        BY <2>2, <3>1, <1>s
    <2>. QED
      BY <2>1, <2>2
  <1>3. CASE a[c].status # "SKIPPED" /\ ~(a[c].status = "SENT" /\ (due \/ Capped(a) \/ c = Last))
    BY <1>3 DEF Evaluation, Nothing, Decision
  <1>. QED
    BY <1>1, <1>2, <1>3

LEMMA SentInFinite ==
  ASSUME NEW a
  PROVE  /\ IsFiniteSet(SentIn(a)) /\ Cardinality(SentIn(a)) \in Nat
         /\ Cap > 0 /\ ~Capped(a) => Cardinality(SentIn(a)) < Cap
         /\ Capped(a) => Cap > 0 /\ Cardinality(SentIn(a)) >= Cap
  <1>1. IsFiniteSet(FollowUps)
    BY FS_Interval, SequenceAssumption DEF FollowUps
  <1>2. IsFiniteSet(SentIn(a)) /\ Cardinality(SentIn(a)) \in Nat
    BY <1>1, FS_Subset, FS_CardinalityType DEF SentIn
  <1>. QED
    BY <1>2, SequenceAssumption DEF Capped, SentIn

\* Fewer entries SENT is not more than the cap.
LEMMA CappedLess ==
  ASSUME NEW a, NEW b, ~Capped(a), SentIn(b) \subseteq SentIn(a)
  PROVE  ~Capped(b)
  <1>1. Cardinality(SentIn(b)) <= Cardinality(SentIn(a))
    BY SentInFinite, FS_Subset
  <1>2. SUFFICES ASSUME Capped(b) PROVE FALSE
    OBVIOUS
  <1>. QED
    BY <1>1, <1>2, SentInFinite, SequenceAssumption

\* What a step leaves alone is remembered.
LEMMA CapUnchanged ==
  ASSUME CapInv, UNCHANGED <<made, cur>>
  PROVE  /\ UNCHANGED st => RowRemembers'
         /\ UNCHANGED <<plan, from>> => PlanRemembers' /\ FromIsReached'
         /\ UNCHANGED <<plan, from, st>> => PlanAgrees'
         /\ UNCHANGED <<plan, from, next>> => NextIsCounted'
         /\ UNCHANGED <<tpc, next, item>> => HandIsReached' /\ HandIsAlone'
         /\ UNCHANGED <<tpc, next, item, plan>> => HandRemembers'
         /\ CapIsKept'
  <1>. USE DEF CapInv, ArraysRemember, TicksRemember, HandsRemember
  <1>b. \A r : Begun(r)' = Begun(r)
    BY DEF Begun
  <1>1. UNCHANGED st => RowRemembers'
    BY <1>b DEF RowRemembers
  <1>2. UNCHANGED <<plan, from>> => PlanRemembers' /\ FromIsReached'
    BY <1>b DEF PlanRemembers, FromIsReached
  <1>3. UNCHANGED <<plan, from, st>> => PlanAgrees'
    BY DEF PlanAgrees
  <1>4. UNCHANGED <<plan, from, next>> => NextIsCounted'
    BY DEF NextIsCounted, Capped
  <1>5. UNCHANGED <<tpc, next, item>> => HandIsReached' /\ HandIsAlone'
    BY DEF HandIsReached, HandIsAlone
  <1>6. UNCHANGED <<tpc, next, item, plan>> => HandRemembers'
    BY <1>b DEF HandRemembers
  <1>7. CapIsKept'
    BY DEF CapIsKept
  <1>. QED
    BY <1>1, <1>2, <1>3, <1>4, <1>5, <1>6, <1>7

\* Steps that touch no row, copy or claim, and no job but to move it on.
LEMMA CapMove ==
  ASSUME CapInv, UNCHANGED <<made, cur, plan, from, next, tpc, item>>,
         \A r \in Recipients, s \in Steps : at[r][s] = "new" => at'[r][s] = "new",
         TypeOK
  PROVE  /\ PlanRemembers' /\ FromIsReached' /\ NextIsCounted' /\ HandsRemember' /\ CapIsKept'
         /\ UNCHANGED <<st, view>> /\ (\A r \in Recipients, s \in Steps :
              at'[r][s] = "write" => at[r][s] = "write") => CapInv'
  <1>. USE DEF CapInv, ArraysRemember, TicksRemember, HandsRemember
  <1>1. PlanRemembers' /\ FromIsReached' /\ NextIsCounted' /\ HandIsReached' /\ HandIsAlone'
        /\ HandRemembers' /\ CapIsKept'
    BY CapUnchanged
  <1>2. WriteIsNew'
    <2>1. \A t \in Ticks : tpc[t] = "write" => item[t] \in Recipients /\ next[t][item[t]] \in Steps
      BY DEF TypeOK, TickOK
    <2>. QED
      BY <2>1 DEF WriteIsNew
  <1>3. ASSUME UNCHANGED <<st, view>>,
               \A r \in Recipients, s \in Steps : at'[r][s] = "write" => at[r][s] = "write"
        PROVE  CapInv'
    <2>1. RowRemembers' /\ PlanAgrees'
      BY <1>3, CapUnchanged
    <2>2. ViewRemembers'
      BY <1>3 DEF ViewRemembers, Begun
    <2>. QED
      BY <1>1, <1>2, <2>1, <2>2
  <1>. QED
    BY <1>1, <1>2, <1>3

LEMMA CapRun ==
  ASSUME TypeOK, EntryInv, CapInv, NEW r \in Recipients, NEW s \in Steps, Run(r, s)
  PROVE  CapInv'
  <1>. USE DEF tickVars, rowVars
  <1>m. /\ UNCHANGED <<made, cur, plan, from, next, tpc, item>>
        /\ at[r][s] \notin {"new", "none", "ended"}
        /\ \E place \in Places : MoveTo(r, s, place)
    BY DEF Run, Take, Reject, PassGates, CheckReply, MarkReplied, Accept, Bounce, ReadRow, WriteRow,
       LoseRow, Places
  <1>n. \A q \in Recipients, y \in Steps : ~(q = r /\ y = s) => at'[q][y] = at[q][y]
    BY <1>m DEF MoveTo, TypeOK, JobOK
  <1>c. s = cur[r]
    BY <1>m DEF EntryInv, JobInv, RunIsCurrent
  <1>o. PlanRemembers' /\ FromIsReached' /\ NextIsCounted' /\ HandsRemember' /\ CapIsKept'
    BY <1>m, <1>n, CapMove
  <1>1. CASE ReadRow(r, s)
    <2>. DEFINE status == IF at[r][s] = "sent" THEN "SENT" ELSE "FAILED"
                copy == [st[r] EXCEPT ![s].status = status]
    <2>1. /\ view' = [view EXCEPT ![r][s] = copy] /\ UNCHANGED st
      BY <1>1, <1>c DEF ReadRow, EntryOf
    <2>2. \A x \in Steps : x # s => copy[x] = st[r][x]
      BY DEF TypeOK, RowOK, Array
    <2>3. \A x \in Begun(r) : x < cur[r] => copy[x].status = "SENT"
      BY <1>c, <2>2, StepNumbers DEF CapInv, ArraysRemember, RowRemembers, Begun
    <2>. HIDE DEF copy
    <2>4. ViewRemembers'
      <3>1. /\ view'[r][s] = copy
            /\ \A q \in Recipients, y \in Steps : ~(q = r /\ y = s) => view'[q][y] = view[q][y]
        BY <2>1 DEF TypeOK, JobOK
      <3>. QED
        BY <1>m, <1>n, <2>3, <3>1 DEF CapInv, ArraysRemember, ViewRemembers, Begun
    <2>5. RowRemembers' /\ PlanAgrees'
      BY <1>m, <2>1, CapUnchanged
    <2>. QED
      BY <1>o, <2>4, <2>5 DEF CapInv, ArraysRemember, TicksRemember
  <1>2. CASE WriteRow(r, s)
    <2>1. /\ at[r][s] = "write" /\ st' = [st EXCEPT ![r] = view[r][s]]
          /\ view' = [view EXCEPT ![r][s] = Blank] /\ MoveTo(r, s, "ended")
      BY <1>2 DEF WriteRow
    <2>2. RowRemembers'
      <3>1. \A x \in Begun(r) : x < cur[r] => view[r][s][x].status = "SENT"
        BY <2>1 DEF CapInv, ArraysRemember, ViewRemembers
      <3>2. st'[r] = view[r][s] /\ \A q \in Recipients \ {r} : st'[q] = st[q]
        BY <2>1 DEF TypeOK, RowOK
      <3>. QED
        BY <1>m, <3>1, <3>2 DEF CapInv, ArraysRemember, RowRemembers, Begun
    <2>3. PlanAgrees'
      <3>1. \A t \in Ticks : plan[t][r][cur[r]].status # "SENT"
        BY <1>c, <2>1 DEF EntryInv, ArrayInv, CopiesAreTrue, Settled
      <3>2. \A q \in Recipients \ {r} : st'[q] = st[q]
        BY <2>1 DEF TypeOK, RowOK
      <3>. QED
        BY <1>m, <3>1, <3>2 DEF CapInv, TicksRemember, PlanAgrees
    <2>4. ViewRemembers'
      <3>1. /\ at'[r][s] = "ended"
            /\ \A q \in Recipients, y \in Steps : ~(q = r /\ y = s) => view'[q][y] = view[q][y]
        BY <2>1 DEF MoveTo, TypeOK, JobOK
      <3>. QED
        BY <1>m, <1>n, <3>1 DEF CapInv, ArraysRemember, ViewRemembers, Begun
    <2>. QED
      BY <1>o, <2>2, <2>3, <2>4 DEF CapInv, ArraysRemember, TicksRemember
  <1>3. CASE LoseRow(r, s)
    <2>1. /\ view' = [view EXCEPT ![r][s] = Blank] /\ MoveTo(r, s, "ended") /\ UNCHANGED st
      BY <1>3 DEF LoseRow
    <2>2. ViewRemembers'
      <3>1. /\ at'[r][s] = "ended"
            /\ \A q \in Recipients, y \in Steps : ~(q = r /\ y = s) => view'[q][y] = view[q][y]
        BY <2>1 DEF MoveTo, TypeOK, JobOK
      <3>. QED
        BY <1>m, <1>n, <3>1 DEF CapInv, ArraysRemember, ViewRemembers, Begun
    <2>3. RowRemembers' /\ PlanAgrees'
      BY <1>m, <2>1, CapUnchanged
    <2>. QED
      BY <1>o, <2>2, <2>3 DEF CapInv, ArraysRemember, TicksRemember
  <1>4. CASE Take(r, s) \/ Reject(r, s) \/ PassGates(r, s) \/ CheckReply(r, s) \/ MarkReplied(r, s)
             \/ Accept(r, s) \/ Bounce(r, s)
    <2>1. UNCHANGED <<st, view>> /\ \E place \in Places \ {"write"} : MoveTo(r, s, place)
      BY <1>4 DEF Take, Reject, PassGates, CheckReply, MarkReplied, Accept, Bounce, Places
    <2>2. at'[r][s] # "write"
      BY <2>1 DEF MoveTo, TypeOK, JobOK
    <2>. QED
      BY <1>m, <1>n, <2>1, <2>2, CapMove
  <1>. QED
    BY <1>1, <1>2, <1>3, <1>4 DEF Run

\* Recipients, the detector, the user, the sweep and a crash.
LEMMA CapOthers ==
  ASSUME TypeOK, NobodyStops, CapInv,
         \/ \E r \in Recipients : Detector(r) \/ \E s \in Steps : OpenMail(r, s)
         \/ User \/ Sweep \/ UNCHANGED vars
  PROVE  CapInv'
  <1>1. UNCHANGED <<made, at, cur, st, view, plan, from, next, tpc, item>>
    BY DEF Detector, RecordReply, Suppress, DetectReply, DetectBounce, OpenMail, User, PauseAll,
       Pause, StopRead, StopWrite, Toggle, Sweep, SweepJobs, SweepStates, SweepWrite, vars, rowVars,
       jobVars, tickVars, NobodyStops
  <1>. QED
    BY <1>1, CapMove

LEMMA CapCrash ==
  ASSUME TypeOK, CapInv, Crash
  PROVE  CapInv'
  <1>1. /\ \A t \in Ticks : tpc'[t] = "idle"
        /\ \A t \in Ticks, r \in Recipients :
             plan'[t][r] = Blank /\ next'[t][r] = 0 /\ from'[t][r] = 0
        /\ \A r \in Recipients, s \in Steps : at'[r][s] # "write"
        /\ UNCHANGED <<made, cur, st>>
    BY DEF Crash, rowVars
  <1>2. \A x \in Steps : Blank[x].status # "SENT"
    BY DEF Blank
  <1>3. RowRemembers' /\ CapIsKept'
    BY <1>1, CapUnchanged
  <1>4. ViewRemembers' /\ HandsRemember'
    BY <1>1 DEF ViewRemembers, HandsRemember, HandIsReached, HandIsAlone, WriteIsNew, HandRemembers,
       InHand
  <1>5. PlanRemembers'
    BY <1>1 DEF PlanRemembers, Begun, FollowUps
  <1>6. TicksRemember'
    BY <1>1, <1>2, StepNumbers DEF TicksRemember, FromIsReached, PlanAgrees, NextIsCounted, TypeOK, RowOK
  <1>. QED
    BY <1>3, <1>4, <1>5, <1>6 DEF CapInv, ArraysRemember

(***************************************************************************)
(* The steps of a tick.                                                    *)
(***************************************************************************)

\* A tick that is not at work on a job leaves what others have in hand.
LEMMA HandsAside ==
  ASSUME TypeOK, CapInv, NEW t \in Ticks, UNCHANGED <<made, cur, at>>,
         tpc'[t] \notin InHand,
         \A u \in Ticks \ {t} : /\ tpc'[u] = tpc[u] /\ next'[u] = next[u] /\ item'[u] = item[u]
                                /\ plan'[u] = plan[u]
  PROVE  HandsRemember' /\ CapIsKept'
  <1>1. \A u \in Ticks : tpc'[u] \in InHand =>
          /\ tpc'[u] = tpc[u] /\ next'[u] = next[u] /\ item'[u] = item[u] /\ plan'[u] = plan[u]
    OBVIOUS
  <1>. USE DEF CapInv, HandsRemember
  <1>2. HandIsReached' /\ HandIsAlone'
    BY <1>1 DEF HandIsReached, HandIsAlone
  <1>3. WriteIsNew' /\ HandRemembers'
    BY <1>1 DEF WriteIsNew, HandRemembers, Begun, InHand
  <1>4. CapIsKept'
    BY CapUnchanged
  <1>. QED
    BY <1>2, <1>3, <1>4

\* A tick that ends drops its copies.
LEMMA CapForget ==
  ASSUME TypeOK, CapInv, NEW t \in Ticks, NEW step \in {"idle", "finish"},
         Goto(t, step), Forget(t), UNCHANGED <<made, cur, at, st, view>>
  PROVE  CapInv'
  <1>1. /\ \A u \in Ticks \ {t} : /\ tpc'[u] = tpc[u] /\ next'[u] = next[u] /\ item'[u] = item[u]
                                  /\ plan'[u] = plan[u] /\ from'[u] = from[u]
        /\ tpc'[t] = step
        /\ \A r \in Recipients : plan'[t][r] = Blank /\ next'[t][r] = 0 /\ from'[t][r] = 0
    BY DEF Goto, Forget, TypeOK, TickOK
  <1>2. \A x \in Steps : Blank[x].status # "SENT"
    BY DEF Blank
  <1>3. HandsRemember' /\ CapIsKept'
    BY <1>1, HandsAside DEF InHand
  <1>4. RowRemembers' /\ ViewRemembers'
    <2>1. UNCHANGED made /\ UNCHANGED cur /\ UNCHANGED at /\ UNCHANGED st /\ UNCHANGED view
      OBVIOUS
    <2>2. RowRemembers'
      BY <2>1, CapUnchanged
    <2>3. ViewRemembers'
      BY <2>1 DEF CapInv, ArraysRemember, ViewRemembers, Begun
    <2>. QED
      BY <2>2, <2>3
  <1>5. PlanRemembers'
    BY <1>1 DEF PlanRemembers, CapInv, ArraysRemember, Begun, FollowUps
  <1>6. FromIsReached' /\ PlanAgrees'
    BY <1>1, <1>2, StepNumbers DEF CapInv, TicksRemember, FromIsReached, PlanAgrees, TypeOK, RowOK
  <1>7. NextIsCounted'
    <2>. SUFFICES ASSUME NEW u \in Ticks, NEW q \in Recipients, next'[u][q] # 0
                  PROVE  plan'[u][q][from'[u][q]].status = "SENT" /\ ~Capped(plan'[u][q])
      BY DEF NextIsCounted, Capped
    <2>. QED
      BY <1>1 DEF CapInv, TicksRemember, NextIsCounted
  <1>. QED
    BY <1>3, <1>4, <1>5, <1>6, <1>7 DEF CapInv, ArraysRemember, TicksRemember

LEMMA CapTickRead ==
  ASSUME TypeOK, ClaimInv, CapInv, NEW t \in Ticks, TickRead(t)
  PROVE  CapInv'
  <1>1. /\ tpc[t] = "idle" /\ tpc' = [tpc EXCEPT ![t] = "evaluate"]
        /\ from' = [from EXCEPT ![t] = [r \in Recipients |-> IF r \in {q \in Recipients : Running(q)}
                                                              THEN cur[r] ELSE 0]]
        /\ plan' = [plan EXCEPT ![t] = [r \in Recipients |-> IF r \in {q \in Recipients : Running(q)}
                                                              THEN st[r] ELSE Blank]]
        /\ UNCHANGED <<made, cur, at, st, view, next, item>>
    BY DEF TickRead, Goto, rowVars, jobVars
  <1>2. /\ \A u \in Ticks \ {t} : /\ tpc'[u] = tpc[u] /\ next'[u] = next[u] /\ item'[u] = item[u]
                                  /\ plan'[u] = plan[u] /\ from'[u] = from[u]
        /\ tpc'[t] = "evaluate"
        /\ \A r \in Recipients :
             \/ plan'[t][r] = Blank /\ from'[t][r] = 0
             \/ plan'[t][r] = st[r] /\ from'[t][r] = cur[r]
    BY <1>1 DEF TypeOK, TickOK
  <1>3. \A r \in Recipients : next[t][r] = 0
    BY <1>1 DEF ClaimInv, RestIsEmpty
  <1>b. \A x \in Steps : Blank[x].status # "SENT"
    BY DEF Blank
  <1>4. HandsRemember' /\ CapIsKept'
    BY <1>1, <1>2, HandsAside DEF InHand
  <1>5. RowRemembers' /\ ViewRemembers'
    BY <1>1, CapUnchanged DEF CapInv, ArraysRemember, ViewRemembers, Begun
  <1>6. PlanRemembers'
    <2>. SUFFICES ASSUME NEW u \in Ticks, NEW r \in Recipients, NEW s \in Begun(r), s < from'[u][r]
                  PROVE  plan'[u][r][s].status = "SENT"
      BY <1>1 DEF PlanRemembers, Begun
    <2>1. CASE u # t
      BY <1>2, <2>1 DEF CapInv, ArraysRemember, PlanRemembers
    <2>2. CASE u = t
      <3>1. ~(s < 0)
        BY DEF Begun, FollowUps
      <3>. QED
        BY <1>2, <2>2, <3>1 DEF CapInv, ArraysRemember, RowRemembers
    <2>. QED
      BY <2>1, <2>2
  <1>7. FromIsReached'
    BY <1>1, <1>2, StepNumbers DEF CapInv, TicksRemember, FromIsReached, TypeOK, RowOK
  <1>8. PlanAgrees'
    BY <1>1, <1>2, <1>b DEF CapInv, TicksRemember, PlanAgrees, TypeOK, RowOK
  <1>9. NextIsCounted'
    <2>. SUFFICES ASSUME NEW u \in Ticks, NEW q \in Recipients, next'[u][q] # 0
                  PROVE  plan'[u][q][from'[u][q]].status = "SENT" /\ ~Capped(plan'[u][q])
      BY DEF NextIsCounted, Capped
    <2>1. u # t
      BY <1>1, <1>3
    <2>2. plan'[u] = plan[u] /\ from'[u] = from[u] /\ next'[u] = next[u]
      BY <1>2, <2>1
    <2>3. next[u][q] # 0
      BY <2>2
    <2>4. plan[u][q][from[u][q]].status = "SENT" /\ ~Capped(plan[u][q])
      BY <2>3 DEF CapInv, TicksRemember, NextIsCounted
    <2>. QED
      BY <2>2, <2>4
  <1>. QED
    BY <1>4, <1>5, <1>6, <1>7, <1>8, <1>9 DEF CapInv, ArraysRemember, TicksRemember

LEMMA CapTickEvaluate ==
  ASSUME Forward, TypeOK, CapInv, NEW t \in Ticks, NEW r \in Recipients, NEW due \in BOOLEAN,
         TickEvaluate(t, r, due)
  PROVE  CapInv'
  <1>. DEFINE a == plan[t][r]
              c == from[t][r]
              e == Evaluation(c, a, opened[r], due)
  <1>1. c \in Steps /\ a \in Array
    BY DEF TypeOK, TickOK
  <1>2. /\ e.to # 0 => a[c].status = "SENT" /\ ~Capped(a)
        /\ \A x \in Steps : e.array[x].status = "SENT" => a[x].status = "SENT"
        /\ \A x \in Steps : x # c + 1 => e.array[x] = a[x]
    BY <1>1, EvaluationForward, EvaluationCounts
  <1>3. /\ tpc[t] = "evaluate"
        /\ plan' = [plan EXCEPT ![t][r] = e.array]
        /\ next' = [next EXCEPT ![t][r] = e.to]
        /\ UNCHANGED <<made, cur, at, st, view, tpc, from, item>>
    BY DEF TickEvaluate, rowVars, jobVars
  <1>. HIDE DEF e
  <1>4. e.to # 0 => ~Capped(e.array)
    BY <1>2, CappedLess, StepNumbers DEF SentIn
  <1>5. /\ plan'[t][r] = e.array /\ next'[t][r] = e.to
        /\ \A u \in Ticks, q \in Recipients :
             ~(u = t /\ q = r) => plan'[u][q] = plan[u][q] /\ next'[u][q] = next[u][q]
        /\ \A u \in Ticks \ {t} : plan'[u] = plan[u] /\ next'[u] = next[u]
    BY <1>3 DEF TypeOK, TickOK
  <1>6. HandsRemember' /\ CapIsKept'
    BY <1>3, <1>5, HandsAside DEF InHand
  <1>7. RowRemembers' /\ ViewRemembers' /\ FromIsReached'
    BY <1>3, CapUnchanged DEF CapInv, ArraysRemember, ViewRemembers, TicksRemember, FromIsReached, Begun
  <1>c. c \in Int /\ c # c + 1
    BY <1>1, StepNumbers
  <1>8. PlanRemembers'
    <2>. SUFFICES ASSUME NEW u \in Ticks, NEW q \in Recipients, NEW s \in Begun(q), s < from[u][q]
                  PROVE  plan'[u][q][s].status = "SENT"
      BY <1>3 DEF PlanRemembers, Begun
    <2>1. plan[u][q][s].status = "SENT"
      BY DEF CapInv, ArraysRemember, PlanRemembers
    <2>2. CASE ~(u = t /\ q = r)
      BY <1>5, <2>1, <2>2
    <2>3. CASE u = t /\ q = r
      <3>1. s \in Steps /\ s # c + 1
        BY <1>c, <2>3, StepNumbers DEF Begun
      <3>. QED
        BY <1>2, <1>5, <2>1, <2>3, <3>1
    <2>. QED
      BY <2>2, <2>3
  <1>9. PlanAgrees'
    BY <1>1, <1>2, <1>3, <1>5, <1>c DEF CapInv, TicksRemember, PlanAgrees
  <1>10. NextIsCounted'
    <2>. SUFFICES ASSUME NEW u \in Ticks, NEW q \in Recipients, next'[u][q] # 0
                  PROVE  plan'[u][q][from[u][q]].status = "SENT" /\ ~Capped(plan'[u][q])
      BY <1>3 DEF NextIsCounted, Capped
    <2>1. CASE ~(u = t /\ q = r)
      BY <1>5, <2>1 DEF CapInv, TicksRemember, NextIsCounted
    <2>2. CASE u = t /\ q = r
      BY <1>1, <1>2, <1>4, <1>5, <1>c, <2>2
    <2>. QED
      BY <2>1, <2>2
  <1>. QED
    BY <1>6, <1>7, <1>8, <1>9, <1>10 DEF CapInv, ArraysRemember, TicksRemember

LEMMA CapTickSkip ==
  ASSUME TypeOK, SkipIsFresh, CapInv, NEW t \in Ticks, NEW r \in Recipients, TickWriteSkip(t, r)
  PROVE  CapInv'
  <1>1. /\ r \in skips[t] /\ st' = [st EXCEPT ![r] = plan[t][r]]
        /\ UNCHANGED <<made, cur, at, view, plan, from, next, tpc, item>>
    BY DEF TickWriteSkip, jobVars
  <1>2. OneTick /\ from[t][r] = cur[r]
    BY <1>1 DEF SkipIsFresh
  <1>3. PlanRemembers' /\ FromIsReached' /\ NextIsCounted' /\ HandsRemember' /\ CapIsKept'
    BY <1>1, CapMove
  <1>4. ViewRemembers'
    BY <1>1 DEF CapInv, ArraysRemember, ViewRemembers, Begun
  <1>5. st'[r] = plan[t][r] /\ \A q \in Recipients \ {r} : st'[q] = st[q]
    BY <1>1 DEF TypeOK, RowOK
  <1>6. RowRemembers'
    BY <1>1, <1>2, <1>5 DEF CapInv, ArraysRemember, PlanRemembers, RowRemembers, Begun
  <1>7. PlanAgrees'
    BY <1>1, <1>2, <1>5 DEF CapInv, TicksRemember, PlanAgrees, OneTick
  <1>. QED
    BY <1>3, <1>4, <1>6, <1>7 DEF CapInv, ArraysRemember, TicksRemember

LEMMA CapTickClaim ==
  ASSUME TypeOK, ClaimInv, EntryInv, CapInv, NEW t \in Ticks, NEW r \in Recipients, TickClaim(t, r)
  PROVE  CapInv'
  <1>. DEFINE c == cur[r]
              n == next[t][r]
  <1>0. /\ tpc[t] = "schedule" /\ n # 0
        /\ UNCHANGED <<made, at, st, view, plan, from>>
    BY DEF TickClaim, jobVars
  <1>t. c \in Steps /\ n \in Steps /\ \A x \in Steps : x \in Int
    BY StepNumbers DEF TypeOK, RowOK, TickOK
  <1>1. CASE cur[r] = from[t][r]
    <2>1. /\ cur' = [cur EXCEPT ![r] = n] /\ item' = [item EXCEPT ![t] = r]
          /\ tpc' = [tpc EXCEPT ![t] = "create"] /\ UNCHANGED next
      BY <1>1 DEF TickClaim, Goto
    <2>2. c < n
      BY <1>0, <1>1 DEF ClaimInv, NextIsLater
    <2>3. /\ cur'[r] = n /\ \A q \in Recipients \ {r} : cur'[q] = cur[q]
          /\ tpc'[t] = "create" /\ item'[t] = r
          /\ \A u \in Ticks \ {t} : tpc'[u] = tpc[u] /\ item'[u] = item[u]
      BY <2>1 DEF TypeOK, RowOK, TickOK
    <2>4. Settled(r, c)
      BY <1>0, <1>1 DEF EntryInv, HandInv, ReadIsSettled
    <2>5. at[r][c] = "ended"
      BY <2>4 DEF Settled
    <2>6. plan[t][r][c].status = "SENT" /\ st[r][c].status = "SENT"
      BY <1>0, <1>1 DEF CapInv, TicksRemember, NextIsCounted, PlanAgrees
    <2>7. \A s \in Begun(r) : s \in Steps /\ s <= c
      BY BegunReached
    <2>b. \A q : Begun(q)' = Begun(q)
      BY <1>0 DEF Begun
    <2>. HIDE DEF c, n
    <2>8. \A s \in Begun(r) : s < c \/ s = c
      BY <2>7, <1>t
    <2>9. RowRemembers'
      <3>1. \A s \in Begun(r) : st[r][s].status = "SENT"
        BY <2>6, <2>8 DEF CapInv, ArraysRemember, RowRemembers, c
      <3>. QED
        BY <1>0, <2>3, <2>b, <3>1 DEF CapInv, ArraysRemember, RowRemembers
    <2>10. ViewRemembers'
      <3>1. \A y \in Steps : at[r][y] # "write"
        BY <2>5 DEF EntryInv, JobInv, RunIsCurrent, c
      <3>. QED
        BY <1>0, <2>3, <2>b, <3>1 DEF CapInv, ArraysRemember, ViewRemembers
    <2>11. PlanRemembers'
      BY <1>0, <2>b DEF CapInv, ArraysRemember, PlanRemembers
    <2>12. \A u \in Ticks : from[u][r] \in Steps /\ from[u][r] <= c
      BY DEF CapInv, TicksRemember, FromIsReached, TypeOK, TickOK, c
    <2>13. \A u \in Ticks : from[u][r] <= n /\ from[u][r] # n
      BY <1>t, <2>2, <2>12
    <2>14. FromIsReached' /\ PlanAgrees'
      BY <1>0, <2>3, <2>13 DEF CapInv, TicksRemember, FromIsReached, PlanAgrees
    <2>15. NextIsCounted'
      BY <1>0, <2>1 DEF CapInv, TicksRemember, NextIsCounted, Capped
    <2>16. \A u \in Ticks : u # t /\ tpc[u] \in InHand /\ item[u] = r =>
             next[u][r] \in Steps /\ next[u][r] <= c
      BY DEF CapInv, HandsRemember, HandIsReached, TypeOK, TickOK, c
    <2>17. \A u \in Ticks : u # t /\ tpc[u] \in InHand /\ item[u] = r =>
             next[u][r] <= n /\ next[u][r] # n
      BY <1>t, <2>2, <2>16
    <2>18. HandIsReached'
      <3>1. n <= n
        BY <1>t
      <3>2. \A u \in Ticks : tpc[u] \in InHand => item[u] \in Recipients
        BY DEF TypeOK, TickOK, InHand
      <3>. QED
        BY <2>1, <2>3, <2>17, <3>1, <3>2 DEF CapInv, HandsRemember, HandIsReached, n
    <2>19. HandIsAlone'
      BY <2>1, <2>3, <2>17 DEF CapInv, HandsRemember, HandIsAlone, n
    <2>20. WriteIsNew'
      <3>1. \A u \in Ticks : tpc[u] = "write" => item[u] # r
        BY <2>5 DEF CapInv, HandsRemember, WriteIsNew, c
      <3>2. \A u \in Ticks : tpc[u] = "write" => item[u] \in Recipients
        BY DEF TypeOK, TickOK
      <3>. QED
        BY <1>0, <2>1, <2>3, <3>1, <3>2 DEF CapInv, HandsRemember, WriteIsNew
    <2>21. HandRemembers'
      <3>1. \A s \in Begun(r) : plan[t][r][s].status = "SENT"
        BY <1>1, <2>6, <2>8 DEF CapInv, ArraysRemember, PlanRemembers, c
      <3>. QED
        BY <1>0, <2>1, <2>3, <2>b, <3>1 DEF CapInv, HandsRemember, HandRemembers
    <2>22. CapIsKept'
      BY <1>0 DEF CapInv, CapIsKept
    <2>. QED
      BY <2>9, <2>10, <2>11, <2>14, <2>15, <2>18, <2>19, <2>20, <2>21, <2>22
      DEF CapInv, ArraysRemember, TicksRemember, HandsRemember
  <1>2. CASE cur[r] # from[t][r]
    <2>1. next' = [next EXCEPT ![t][r] = 0] /\ UNCHANGED <<cur, item, tpc>>
      BY <1>2 DEF TickClaim
    <2>2. /\ \A u \in Ticks \ {t} : next'[u] = next[u]
          /\ \A u \in Ticks, q \in Recipients : next'[u][q] # 0 => next[u][q] # 0
      BY <2>1 DEF TypeOK, TickOK
    <2>3. HandsRemember' /\ CapIsKept'
      BY <1>0, <2>1, <2>2, HandsAside DEF InHand
    <2>4. RowRemembers' /\ PlanRemembers' /\ FromIsReached' /\ PlanAgrees'
      BY <1>0, <2>1, CapUnchanged
    <2>5. ViewRemembers'
      BY <1>0, <2>1 DEF CapInv, ArraysRemember, ViewRemembers, Begun
    <2>6. NextIsCounted'
      BY <1>0, <2>2 DEF CapInv, TicksRemember, NextIsCounted, Capped
    <2>. QED
      BY <2>3, <2>4, <2>5, <2>6 DEF CapInv, ArraysRemember, TicksRemember
  <1>. QED
    BY <1>1, <1>2

LEMMA OneMore ==
  ASSUME NEW S, IsFiniteSet(S), NEW x, NEW B, B \subseteq S \cup {x}
  PROVE  Cardinality(B) \in Nat /\ Cardinality(B) <= Cardinality(S) + 1
  <1>1. Cardinality(S) \in Nat
    BY FS_CardinalityType
  <1>2. IsFiniteSet(S \cup {x})
    BY FS_AddElement
  <1>3. Cardinality(S \cup {x}) = Cardinality(S) \/ Cardinality(S \cup {x}) = Cardinality(S) + 1
    BY FS_AddElement
  <1>4. IsFiniteSet(B) /\ Cardinality(B) <= Cardinality(S \cup {x})
    BY <1>2, FS_Subset
  <1>5. Cardinality(B) \in Nat
    BY <1>4, FS_CardinalityType
  <1>. QED
    BY <1>1, <1>3, <1>4, <1>5

\* The first job of a step: all follow-ups begun so far are SENT in the tick's array, which
\* was not capped.
LEMMA CapTickCreate ==
  ASSUME TypeOK, ClaimInv, EntryInv, CapInv, NEW t \in Ticks, TickCreate(t)
  PROVE  CapInv'
  <1>r. PICK r \in Recipients : tpc[t] = "create" /\ r = item[t]
    BY DEF TickCreate, TypeOK, TickOK
  <1>s. PICK s \in Steps : s = next[t][r]
    BY DEF TypeOK, TickOK
  <1>1. /\ tpc[t] = "create" /\ tpc' = [tpc EXCEPT ![t] = "write"]
        /\ made' = [made EXCEPT ![r][s] = @ + 1]
        /\ at' = [at EXCEPT ![r][s] = "new"]
        /\ UNCHANGED <<cur, st, view, plan, next, from, item>>
    BY <1>r, <1>s DEF TickCreate, Goto, rowVars
  <1>3. s = cur[r] /\ made[r][s] = 0
    BY <1>r, <1>s DEF EntryInv, HandInv, ClaimIsCurrent, ClaimInv, ClaimIsOpen
  <1>h. ASSUME NEW u \in Ticks, u # t, tpc[u] \in {"create", "write"}
        PROVE  item[u] # r
    <2>1. tpc[u] = "create" => next[u][item[u]] = cur[item[u]]
      BY DEF EntryInv, HandInv, ClaimIsCurrent
    <2>2. tpc[u] = "write" => next[u][item[u]] = cur[item[u]]
      BY DEF CapInv, HandsRemember, WriteIsNew
    <2>3. item[u] = item[t] => next[u][item[u]] # next[t][item[t]]
      BY <1>1, <1>h DEF CapInv, HandsRemember, HandIsAlone, InHand
    <2>. QED
      BY <1>h, <1>r, <1>s, <1>3, <2>1, <2>2, <2>3
  <1>p. \A x \in Begun(r) \ {s} : plan[t][r][x].status = "SENT"
    BY <1>r, <1>s DEF CapInv, HandsRemember, HandRemembers
  <1>4. /\ \A q \in Recipients, y \in Steps : ~(q = r /\ y = s) =>
             made'[q][y] = made[q][y] /\ at'[q][y] = at[q][y]
        /\ at'[r][s] = "new"
        /\ tpc'[t] = "write" /\ \A u \in Ticks \ {t} : tpc'[u] = tpc[u]
    BY <1>1 DEF TypeOK, JobOK, TickOK
  <1>n. \A x \in FollowUps : x \in Steps
    BY StepNumbers
  <1>5. Begun(r)' \subseteq Begun(r) \cup {s} /\ \A q \in Recipients \ {r} : Begun(q)' = Begun(q)
    BY <1>4, <1>n DEF Begun
  <1>l. ~(s < s) /\ s \notin Begun(r)
    BY <1>3, StepNumbers DEF Begun
  <1>6. RowRemembers'
    BY <1>1, <1>3, <1>5, <1>l DEF CapInv, ArraysRemember, RowRemembers
  <1>7. ViewRemembers'
    <2>1. \A q \in Recipients, y \in Steps : at'[q][y] = "write" => at[q][y] = "write"
      BY <1>4
    <2>. QED
      BY <1>1, <1>3, <1>5, <1>l, <2>1 DEF CapInv, ArraysRemember, ViewRemembers
  <1>8. PlanRemembers'
    <2>1. \A u \in Ticks : ~(s < from[u][r])
      BY <1>3, StepNumbers DEF CapInv, TicksRemember, FromIsReached, TypeOK, TickOK
    <2>. QED
      BY <1>1, <1>5, <2>1 DEF CapInv, ArraysRemember, PlanRemembers
  <1>9. TicksRemember'
    BY <1>1 DEF CapInv, TicksRemember, FromIsReached, PlanAgrees, NextIsCounted, Capped
  <1>10. HandIsReached' /\ HandIsAlone'
    BY <1>1, <1>4 DEF CapInv, HandsRemember, HandIsReached, HandIsAlone, InHand
  <1>11. WriteIsNew'
    <2>1. \A u \in Ticks \ {t} : tpc[u] = "write" => item[u] \in Recipients \ {r} /\ next[u][item[u]] \in Steps
      BY <1>h DEF TypeOK, TickOK
    <2>. QED
      <3>. SUFFICES ASSUME NEW u \in Ticks, tpc'[u] = "write"
                    PROVE  next[u][item[u]] = cur[item[u]] /\ at'[item[u]][next[u][item[u]]] = "new"
        BY <1>1 DEF WriteIsNew
      <3>1. CASE u = t
        BY <1>r, <1>s, <1>3, <1>4, <3>1
      <3>2. CASE u # t
        <4>1. tpc[u] = "write"
          BY <1>4, <3>2
        <4>2. next[u][item[u]] = cur[item[u]] /\ at[item[u]][next[u][item[u]]] = "new"
          BY <4>1 DEF CapInv, HandsRemember, WriteIsNew
        <4>. QED
          BY <1>4, <2>1, <3>2, <4>1, <4>2
      <3>. QED
        BY <3>1, <3>2
  <1>12. HandRemembers'
    <2>. SUFFICES ASSUME NEW u \in Ticks, tpc'[u] \in {"create", "write"},
                         NEW x \in Begun(item[u])', x # next[u][item[u]]
                  PROVE  plan[u][item[u]][x].status = "SENT"
      BY <1>1 DEF HandRemembers, Begun
    <2>1. CASE u = t
      BY <1>r, <1>s, <1>1, <1>5, <1>p, <2>1
    <2>2. CASE u # t
      <3>1. tpc[u] \in {"create", "write"} /\ item[u] \in Recipients \ {r}
        BY <1>4, <1>h, <2>2 DEF TypeOK, TickOK
      <3>2. x \in Begun(item[u])
        BY <1>1, <1>5, <3>1
      <3>. QED
        BY <3>1, <3>2 DEF CapInv, HandsRemember, HandRemembers
    <2>. QED
      BY <2>1, <2>2
  <1>13. CapIsKept'
    <2>1. \A q \in Recipients : Cap > 0 => Cardinality(Begun(q)) <= Cap
      BY DEF CapInv, CapIsKept, Begun
    <2>2. Cap > 0 => Cardinality(Begun(r)') <= Cap
      <3>1. CASE s = 0
        <4>1. Begun(r)' = Begun(r)
          BY <1>4, <1>n, <3>1 DEF Begun, FollowUps
        <4>. QED
          BY <2>1, <4>1
      <3>2. CASE s # 0
        <4>. SUFFICES ASSUME Cap > 0 PROVE Cardinality(Begun(r)') <= Cap
          OBVIOUS
        <4>1. ~Capped(plan[t][r])
          BY <1>s, <3>2 DEF CapInv, TicksRemember, NextIsCounted
        <4>2. IsFiniteSet(SentIn(plan[t][r])) /\ Cardinality(SentIn(plan[t][r])) \in Nat
              /\ Cardinality(SentIn(plan[t][r])) < Cap
          BY <4>1, SentInFinite
        <4>3. Begun(r) \subseteq SentIn(plan[t][r])
          BY <1>p, <1>l DEF Begun, SentIn
        <4>4. Begun(r)' \subseteq SentIn(plan[t][r]) \cup {s}
          <5>1. Begun(r)' \subseteq Begun(r) \cup {s}
            BY <1>5
          <5>. QED
            BY <4>3, <5>1
        <4>5. /\ Cardinality(Begun(r)') \in Nat
              /\ Cardinality(Begun(r)') <= Cardinality(SentIn(plan[t][r])) + 1
          BY <4>2, <4>4, OneMore
        <4>. QED
          BY <4>2, <4>5, SequenceAssumption
      <3>. QED
        BY <3>1, <3>2
    <2>3. \A q \in Recipients : Cap > 0 => Cardinality(Begun(q)') <= Cap
      BY <1>5, <2>1, <2>2
    <2>. QED
      BY <2>3 DEF CapIsKept, Begun
  <1>. QED
    BY <1>6, <1>7, <1>8, <1>9, <1>10, <1>11, <1>12, <1>13 DEF CapInv, ArraysRemember, HandsRemember

\* The array a tick writes was read at the step before the claim, and remembers.
LEMMA CapTickWrite ==
  ASSUME TypeOK, EntryInv, CapInv, NEW t \in Ticks, TickWrite(t)
  PROVE  CapInv'
  <1>r. PICK r \in Recipients : tpc[t] = "write" /\ r = item[t]
    BY DEF TickWrite, TypeOK, TickOK
  <1>s. PICK s \in Steps : s = next[t][r]
    BY DEF TypeOK, TickOK
  <1>. DEFINE array == [plan[t][r] EXCEPT ![s] = [status |-> "SCHEDULED", linked |-> TRUE]]
  <1>1. /\ tpc' = [tpc EXCEPT ![t] = "enqueue"] /\ st' = [st EXCEPT ![r] = array]
        /\ UNCHANGED <<made, cur, at, view, plan, from, next, item>>
    BY <1>r, <1>s DEF TickWrite, Goto, jobVars
  <1>2. s = cur[r] /\ at[r][s] = "new"
    BY <1>r, <1>s DEF CapInv, HandsRemember, WriteIsNew
  <1>3. \A x \in Steps \ {s} : array[x] = plan[t][r][x]
    BY DEF TypeOK, TickOK, Array
  <1>. HIDE DEF array
  <1>4. /\ st'[r] = array /\ \A q \in Recipients \ {r} : st'[q] = st[q]
        /\ tpc'[t] = "enqueue" /\ \A u \in Ticks \ {t} : tpc'[u] = tpc[u]
    BY <1>1 DEF TypeOK, RowOK, TickOK
  <1>b. \A q : Begun(q)' = Begun(q)
    BY <1>1 DEF Begun
  <1>5. RowRemembers'
    <2>. SUFFICES ASSUME NEW q \in Recipients, NEW x \in Begun(q), x < cur[q]
                  PROVE  st'[q][x].status = "SENT"
      BY <1>1, <1>b DEF RowRemembers
    <2>1. CASE q = r
      <3>1. x \in Steps /\ x # s
        BY <1>2, <2>1, StepNumbers DEF Begun
      <3>2. plan[t][r][x].status = "SENT"
        BY <1>r, <1>s, <2>1, <3>1 DEF CapInv, HandsRemember, HandRemembers
      <3>. QED
        BY <1>3, <1>4, <2>1, <3>1, <3>2
    <2>2. CASE q # r
      BY <1>4, <2>2 DEF CapInv, ArraysRemember, RowRemembers
    <2>. QED
      BY <2>1, <2>2
  <1>6. ViewRemembers' /\ PlanRemembers' /\ FromIsReached' /\ NextIsCounted' /\ CapIsKept'
    <2>1. ViewRemembers'
      BY <1>1, <1>b DEF CapInv, ArraysRemember, ViewRemembers
    <2>. QED
      BY <1>1, <2>1, CapUnchanged
  <1>7. PlanAgrees'
    <2>1. \A u \in Ticks : plan[u][r][cur[r]].status # "SENT"
      BY <1>2 DEF EntryInv, ArrayInv, CopiesAreTrue, Settled
    <2>. QED
      BY <1>1, <1>4, <2>1 DEF CapInv, TicksRemember, PlanAgrees
  <1>8. HandsRemember'
    <2>1. \A u \in Ticks : tpc'[u] \in InHand => tpc[u] \in InHand
      BY <1>r, <1>4 DEF InHand
    <2>2. \A u \in Ticks : tpc'[u] \in {"create", "write"} => u # t /\ tpc[u] = tpc'[u]
      BY <1>4
    <2>3. HandIsReached' /\ HandIsAlone'
      BY <1>1, <2>1 DEF CapInv, HandsRemember, HandIsReached, HandIsAlone
    <2>4. WriteIsNew' /\ HandRemembers'
      BY <1>1, <1>b, <2>2 DEF CapInv, HandsRemember, WriteIsNew, HandRemembers
    <2>. QED
      BY <2>3, <2>4 DEF HandsRemember
  <1>. QED
    BY <1>5, <1>6, <1>7, <1>8 DEF CapInv, ArraysRemember, TicksRemember

LEMMA CapTickEnqueue ==
  ASSUME TypeOK, CapInv, NEW t \in Ticks, TickEnqueue(t)
  PROVE  CapInv'
  <1>r. PICK r \in Recipients : tpc[t] = "enqueue" /\ r = item[t]
    BY DEF TickEnqueue, TypeOK, TickOK
  <1>s. PICK s \in Steps : s = next[t][r]
    BY DEF TypeOK, TickOK
  <1>1. /\ at' = at \/ (at[r][s] = "new" /\ at' = [at EXCEPT ![r][s] = "queued"])
        /\ next' = [next EXCEPT ![t][r] = 0] /\ item' = [item EXCEPT ![t] = NoOne]
        /\ tpc' = [tpc EXCEPT ![t] = "schedule"]
        /\ UNCHANGED <<made, cur, st, view, plan, from>>
    BY <1>r, <1>s DEF TickEnqueue, Queued, Goto, rowVars
  <1>2. /\ \A u \in Ticks \ {t} : tpc'[u] = tpc[u] /\ next'[u] = next[u] /\ item'[u] = item[u]
        /\ tpc'[t] = "schedule"
        /\ \A u \in Ticks, q \in Recipients : next'[u][q] # 0 => next'[u][q] = next[u][q]
    BY <1>1 DEF TypeOK, TickOK
  <1>3. \A q \in Recipients, y \in Steps :
          /\ at'[q][y] = at[q][y] \/ at'[q][y] = "queued"
          /\ ~(q = r /\ y = s) => at'[q][y] = at[q][y]
    <2>1. CASE at' = at
      BY <2>1
    <2>2. CASE at' = [at EXCEPT ![r][s] = "queued"]
      BY <2>2 DEF TypeOK, JobOK
    <2>. QED
      BY <1>1, <2>1, <2>2
  <1>b. \A q : Begun(q)' = Begun(q)
    BY <1>1 DEF Begun
  <1>4. RowRemembers' /\ PlanRemembers' /\ FromIsReached' /\ PlanAgrees' /\ CapIsKept'
    BY <1>1, CapUnchanged
  <1>5. ViewRemembers'
    BY <1>1, <1>3, <1>b DEF CapInv, ArraysRemember, ViewRemembers
  <1>6. NextIsCounted'
    <2>. SUFFICES ASSUME NEW u \in Ticks, NEW q \in Recipients, next'[u][q] # 0
                  PROVE  plan[u][q][from[u][q]].status = "SENT" /\ ~Capped(plan[u][q])
      BY <1>1 DEF NextIsCounted, Capped
    <2>. QED
      BY <1>2 DEF CapInv, TicksRemember, NextIsCounted
  <1>7. HandsRemember'
    <2>1. \A u \in Ticks : tpc'[u] \in InHand =>
            u # t /\ tpc'[u] = tpc[u] /\ next'[u] = next[u] /\ item'[u] = item[u]
      BY <1>2 DEF InHand
    <2>2. HandIsReached' /\ HandIsAlone'
      BY <1>1, <2>1 DEF CapInv, HandsRemember, HandIsReached, HandIsAlone
    <2>3. HandRemembers'
      BY <1>1, <1>b, <2>1 DEF CapInv, HandsRemember, HandRemembers, InHand
    <2>4. WriteIsNew'
      <3>. SUFFICES ASSUME NEW u \in Ticks, tpc'[u] = "write"
                    PROVE  /\ next[u][item[u]] = cur[item[u]]
                           /\ at'[item[u]][next[u][item[u]]] = "new" 
        BY <1>1, <2>1 DEF WriteIsNew, InHand
      <3>1. u # t /\ tpc[u] = "write"
        BY <2>1 DEF InHand
      <3>2. next[u][item[u]] = cur[item[u]] /\ at[item[u]][next[u][item[u]]] = "new"
        BY <3>1 DEF CapInv, HandsRemember, WriteIsNew
      <3>3. ~(item[u] = r /\ next[u][item[u]] = s)
        BY <1>r, <1>s, <3>1 DEF CapInv, HandsRemember, HandIsAlone, InHand
      <3>4. item[u] \in Recipients /\ next[u][item[u]] \in Steps
        BY <3>1 DEF TypeOK, TickOK
      <3>. QED
        BY <1>3, <3>2, <3>3, <3>4
    <2>. QED
      BY <2>2, <2>3, <2>4 DEF HandsRemember
  <1>. QED
    BY <1>4, <1>5, <1>6, <1>7 DEF CapInv, ArraysRemember, TicksRemember

LEMMA CapTick ==
  ASSUME Forward, TypeOK, ClaimInv, EntryInv, SkipIsFresh, CapInv,
         NEW t \in Ticks, TickStep(t) \/ TickAbort(t)
  PROVE  CapInv'
  <1>1. CASE TickMarkCompleted(t) \/ TickFinish(t)
    <2>1. /\ UNCHANGED <<made, cur, at, st, view, plan, from, next, item>>
          /\ \E step \in {"schedule", "idle"} : tpc' = [tpc EXCEPT ![t] = step]
      BY <1>1 DEF TickMarkCompleted, TickFinish, Goto, rowVars, jobVars
    <2>2. tpc'[t] \notin InHand /\ \A u \in Ticks \ {t} : tpc'[u] = tpc[u]
      BY <2>1 DEF TypeOK, TickOK, InHand
    <2>3. HandsRemember' /\ CapIsKept'
      BY <2>1, <2>2, HandsAside
    <2>4. RowRemembers' /\ PlanRemembers' /\ TicksRemember'
      BY <2>1, CapUnchanged DEF TicksRemember
    <2>5. ViewRemembers'
      BY <2>1 DEF CapInv, ArraysRemember, ViewRemembers, Begun
    <2>. QED
      BY <2>3, <2>4, <2>5 DEF CapInv, ArraysRemember
  <1>2. CASE TickCount(t) \/ TickAbort(t)
    <2>1. /\ UNCHANGED <<made, cur, at, st, view>> /\ Forget(t)
          /\ \E step \in {"idle", "finish"} : Goto(t, step)
      BY <1>2 DEF TickCount, TickAbort, rowVars, jobVars
    <2>. QED
      BY <2>1, CapForget
  <1>. QED
    BY <1>1, <1>2, CapTickRead, CapTickEvaluate, CapTickSkip, CapTickClaim, CapTickCreate,
       CapTickWrite, CapTickEnqueue DEF TickStep

LEMMA CapInit == Init => CapInv
  <1>. SUFFICES ASSUME Init PROVE CapInv
    OBVIOUS
  <1>1. \A r \in Recipients : Begun(r) = {}
    BY StepNumbers DEF Init, OnlyFirst, Begun, FollowUps
  <1>2. CapIsKept
    BY <1>1, FS_EmptySet, SequenceAssumption DEF CapIsKept, Begun
  <1>3. ArraysRemember
    BY <1>1 DEF ArraysRemember, RowRemembers, ViewRemembers, PlanRemembers
  <1>4. TicksRemember
    BY StepNumbers DEF Init, TicksRemember, FromIsReached, PlanAgrees, NextIsCounted, Blank
  <1>5. HandsRemember
    BY DEF Init, HandsRemember, HandIsReached, HandIsAlone, WriteIsNew, HandRemembers, InHand
  <1>. QED
    BY <1>2, <1>3, <1>4, <1>5 DEF CapInv

LEMMA CapNext ==
  ASSUME Forward
  PROVE  TypeOK /\ NobodyStops /\ ClaimInv /\ EntryInv /\ SkipIsFresh /\ CapInv /\ [Next]_vars
         => CapInv'
  BY CapTick, CapRun, CapOthers, CapCrash DEF Next

LEMMA CapInvKept ==
  ASSUME Forward, "stop" \notin Happenings, OneTick \/ Unconditional
  PROVE  Spec => []CapInv
  <1>1. Spec => []TypeOK /\ []NobodyStops /\ []SkipIsFresh
    BY TypeCorrect, NobodyStopped, SkipIsFreshKept
  <1>2. Init => ClaimInv /\ EntryInv /\ CapInv
    BY ClaimInit, EntryInit, CapInit
  <1>3. TypeOK /\ ClaimInv /\ [Next]_vars => ClaimInv'
    BY ClaimNext
  <1>4. TypeOK /\ ClaimInv /\ EntryInv /\ [Next]_vars => EntryInv'
    BY EntryNext
  <1>5. TypeOK /\ NobodyStops /\ ClaimInv /\ EntryInv /\ SkipIsFresh /\ CapInv /\ [Next]_vars
        => CapInv'
    BY CapNext
  <1>. QED
    BY <1>1, <1>2, <1>3, <1>4, <1>5, PTL DEF Spec

\* The cap on follow-ups holds for every sequence that goes forward, whatever crashes,
\* fails, bounces or is paused, if nobody is stopped and, where steps have conditions, ticks
\* do not overlap (sequenceScheduler.ts:129-141, 321-324).
THEOREM CapIsKeptCorrect ==
  ASSUME Forward, "stop" \notin Happenings, OneTick \/ Unconditional
  PROVE  Spec => []CapIsKept
  <1>1. CapInv => CapIsKept
    BY DEF CapInv
  <1>. QED
    BY <1>1, CapInvKept, PTL

(***************************************************************************)
(* A campaign with a sequence completes when its recipients are done. A    *)
(* tick marks a recipient completed by what it has read, and others may    *)
(* read the row before and schedule after. That they do not is the heart   *)
(* of the proof: the step of a completed recipient is settled and stays    *)
(* the current one. If ticks do not overlap, the tick that decides holds   *)
(* the row alone. If they do, and the sequence has no condition, every     *)
(* tick at the current step counts the same follow-ups as the one that     *)
(* stopped, and stops as well.                                             *)
(***************************************************************************)
\* The recipients that are completed, or will be by the tick's next update.
Over == completed \cup UNION {done[t] : t \in Ticks}

\* An open job is under way.
OpenIsUnderWay == \A r \in Recipients, s \in Steps : job[r][s] \in Open => at[r][s] \in Unsent

LEMMA OpenStep ==
  ASSUME TypeOK, OpenIsUnderWay, [Next]_vars
  PROVE  OpenIsUnderWay'
  <1>. USE DEF OpenIsUnderWay, Open, Unsent
  <1>u. UNCHANGED <<job, at>> => OpenIsUnderWay'
    OBVIOUS
  <1>1. ASSUME NEW t \in Ticks, TickStep(t) \/ TickAbort(t)
        PROVE  OpenIsUnderWay'
    <2>1. CASE TickCreate(t)
      <3>1. PICK r \in Recipients : tpc[t] = "create" /\ r = item[t]
        BY <2>1 DEF TickCreate, TypeOK, TickOK
      <3>2. PICK s \in Steps : s = next[t][r]
        BY DEF TypeOK, TickOK
      <3>3. job' = [job EXCEPT ![r][s] = "PENDING"] /\ at' = [at EXCEPT ![r][s] = "new"]
        BY <2>1, <3>1, <3>2 DEF TickCreate
      <3>. QED
        BY <3>3 DEF TypeOK, JobOK
    <2>2. CASE TickEnqueue(t)
      <3>1. PICK r \in Recipients : tpc[t] = "enqueue" /\ r = item[t]
        BY <2>2 DEF TickEnqueue, TypeOK, TickOK
      <3>2. PICK s \in Steps : s = next[t][r]
        BY DEF TypeOK, TickOK
      <3>3. (at' = at \/ at' = [at EXCEPT ![r][s] = "queued"]) /\ UNCHANGED job
        BY <2>2, <3>1, <3>2 DEF TickEnqueue, Queued
      <3>4. \A q \in Recipients, y \in Steps : at'[q][y] \in {at[q][y], "queued"}
        <4>1. CASE at' = at
          BY <4>1
        <4>2. CASE at' = [at EXCEPT ![r][s] = "queued"]
          BY <4>2 DEF TypeOK, JobOK
        <4>. QED
          BY <3>3, <4>1, <4>2
      <3>. QED
        BY <3>3, <3>4
    <2>3. CASE ~(TickCreate(t) \/ TickEnqueue(t))
      BY <1>1, <2>3, <1>u DEF TickStep, TickAbort, TickRead, TickMarkCompleted, TickWrite, TickCount,
         TickFinish, TickWriteSkip, TickClaim, TickEvaluate, jobVars
    <2>. QED
      BY <2>1, <2>2, <2>3
  <1>2. ASSUME NEW r \in Recipients, NEW s \in Steps, Run(r, s)
        PROVE  OpenIsUnderWay'
    <2>1. /\ \A q \in Recipients, y \in Steps : ~(q = r /\ y = s) =>
               job'[q][y] = job[q][y] /\ at'[q][y] = at[q][y]
          /\ job'[r][s] \in Open => at'[r][s] \in Unsent
      BY <1>2 DEF Run, Take, Reject, PassGates, CheckReply, MarkReplied, Accept, Bounce, ReadRow,
         WriteRow, LoseRow, MoveTo, SetJob, TypeOK, JobOK
    <2>. QED
      BY <2>1
  <1>3. ASSUME NEW r \in Recipients, Detector(r) \/ \E s \in Steps : OpenMail(r, s)
        PROVE  OpenIsUnderWay'
    <2>1. ASSUME NEW s \in Steps, DetectBounce(r, s) PROVE OpenIsUnderWay'
      BY <2>1 DEF DetectBounce, SetJob, TypeOK, JobOK
    <2>2. CASE ~(\E s \in Steps : DetectBounce(r, s))
      BY <1>3, <2>2, <1>u DEF Detector, RecordReply, Suppress, DetectReply, OpenMail, jobVars
    <2>. QED
      BY <2>1, <2>2
  <1>4. CASE User \/ Sweep \/ UNCHANGED vars
    BY <1>4, <1>u DEF User, PauseAll, Pause, StopRead, StopWrite, Toggle, Sweep, SweepJobs, SweepStates,
       SweepWrite, vars, jobVars
  <1>5. CASE Crash
    BY <1>5 DEF Crash, TypeOK, JobOK
  <1>. QED
    BY <1>1, <1>2, <1>3, <1>4, <1>5 DEF Next

(***************************************************************************)
(* The last step is never skipped, while nobody is stopped: only a step    *)
(* with a later one to go to is.                                           *)
(***************************************************************************)
LastIsMailed ==
  /\ \A r \in Recipients : st[r][Last].status # "SKIPPED"
  /\ \A r \in Recipients, s \in Steps : view[r][s][Last].status # "SKIPPED"
  /\ \A t \in Ticks, r \in Recipients : plan[t][r][Last].status # "SKIPPED"

\* An evaluation skips a step before the last, and completes after a step that is SENT,
\* with nothing to schedule.
LEMMA EvaluationCompletes ==
  ASSUME Forward, NEW c \in Steps, NEW a \in Array, NEW open, NEW due,
         a[Last].status # "SKIPPED"
  PROVE  LET e == Evaluation(c, a, open, due)
         IN /\ e.array[Last].status # "SKIPPED"
            /\ e.complete => a[c].status = "SENT" /\ e.to = 0
  <1>. DEFINE e == Evaluation(c, a, open, due)
  <1>l. Last \in Steps /\ Last \in Nat
    BY StepNumbers
  <1>1. CASE a[c].status = "SKIPPED"
    <2>1. c # Last /\ c + 1 \in Steps
      BY <1>1, StepNumbers
    <2>2. e = Decision(FALSE, TRUE, 0, [a EXCEPT ![c + 1].status = "PENDING"])
      BY <1>1, <2>1 DEF Evaluation, AfterSkipped
    <2>3. [a EXCEPT ![c + 1].status = "PENDING"][Last].status # "SKIPPED"
      BY <1>l, <2>1 DEF Array, Entry
    <2>. QED
      BY <2>2, <2>3 DEF Decision
  <1>2. CASE a[c].status = "SENT" /\ (due \/ Capped(a) \/ c = Last)
    <2>0. e = AfterSent(c, a, open)
      BY <1>2 DEF Evaluation
    <2>1. CASE Capped(a) \/ c = Last
      BY <1>2, <2>0, <2>1 DEF AfterSent, Finished, Decision
    <2>2. CASE ~(Capped(a) \/ c = Last)
      <3>. DEFINE n == c + 1
                  met == Met(n, c, a, open)
                  to == Target(n, met)
      <3>1. n \in FollowUps /\ n \in Steps
        BY <2>2, StepNumbers
      <3>2. CASE to > Last
        <4>1. e = Decision(TRUE, TRUE, 0, a)
          BY <2>0, <2>2, <3>2 DEF AfterSent
        <4>. QED
          BY <1>2, <4>1 DEF Decision
      <3>3. CASE ~(to > Last)
        <4>1. ~e.complete
          BY <2>0, <2>2, <3>3 DEF AfterSent, Decision
        <4>2. e.array = a \/ (to # n /\ e.array = [a EXCEPT ![n].status = "SKIPPED"])
          BY <2>0, <2>2, <3>3 DEF AfterSent, Decision
        <4>3. to # n => n # Last
          <5>1. OnMatch[n] \in {0} \cup n .. Last /\ OnNoMatch[n] \in {0} \cup n .. Last
            BY <3>1 DEF Forward
          <5>. SUFFICES ASSUME n = Last PROVE to = n
            OBVIOUS
          <5>2. OnMatch[n] \in {0, n} /\ OnNoMatch[n] \in {0, n}
            BY <1>l, <5>1
          <5>. HIDE DEF n, met
          <5>3. to \in {n, Last + 1}
            BY <5>2 DEF Target
          <5>. QED
            BY <1>l, <3>3, <5>3
        <4>4. [a EXCEPT ![n].status = "SKIPPED"][Last].status # "SKIPPED" \/ n = Last
          BY <1>l, <3>1 DEF Array, Entry
        <4>. QED
          BY <4>1, <4>2, <4>3, <4>4
      <3>. QED
        BY <3>2, <3>3
    <2>. QED
      BY <2>1, <2>2
  <1>3. CASE a[c].status # "SKIPPED" /\ ~(a[c].status = "SENT" /\ (due \/ Capped(a) \/ c = Last))
    BY <1>3 DEF Evaluation, Nothing, Decision
  <1>. QED
    BY <1>1, <1>2, <1>3

LEMMA LastStep ==
  ASSUME Forward, NobodyStops, TypeOK, LastIsMailed, [Next]_vars
  PROVE  LastIsMailed'
  <1>. USE DEF TypeOK, TickOK, RowOK, JobOK, tickVars, rowVars, jobVars, NobodyStops, LastIsMailed
  <1>l. Last \in Steps
    BY StepNumbers
  <1>b. Blank[Last].status # "SKIPPED"
    BY <1>l DEF Blank
  <1>u. UNCHANGED <<st, view, plan>> => LastIsMailed'
    OBVIOUS
  <1>f. ASSUME NEW t \in Ticks, Forget(t), UNCHANGED <<st, view>>
        PROVE  LastIsMailed'
    BY <1>f, <1>b DEF Forget
  <1>1. ASSUME NEW t \in Ticks, TickStep(t) \/ TickAbort(t)
        PROVE  LastIsMailed'
    <2>1. CASE TickRead(t)
      BY <2>1, <1>b DEF TickRead
    <2>2. ASSUME NEW r \in Recipients, NEW due \in BOOLEAN, TickEvaluate(t, r, due)
          PROVE  LastIsMailed'
      <3>. DEFINE e == Evaluation(from[t][r], plan[t][r], opened[r], due)
      <3>1. from[t][r] \in Steps /\ plan[t][r] \in Array /\ plan[t][r][Last].status # "SKIPPED"
        OBVIOUS
      <3>2. e.array[Last].status # "SKIPPED"
        BY <3>1, EvaluationCompletes
      <3>3. plan' = [plan EXCEPT ![t][r] = e.array] /\ UNCHANGED <<st, view>>
        BY <2>2 DEF TickEvaluate
      <3>. HIDE DEF e
      <3>. QED
        BY <3>2, <3>3
    <2>3. CASE TickMarkCompleted(t) \/ TickCreate(t) \/ TickEnqueue(t) \/ TickFinish(t)
      BY <2>3 DEF TickMarkCompleted, TickCreate, TickEnqueue, TickFinish
    <2>4. ASSUME NEW r \in Recipients, TickWriteSkip(t, r)
          PROVE  LastIsMailed'
      BY <2>4 DEF TickWriteSkip
    <2>5. ASSUME NEW r \in Recipients, TickClaim(t, r)
          PROVE  LastIsMailed'
      BY <2>5 DEF TickClaim
    <2>6. CASE TickWrite(t)
      <3>. DEFINE r == item[t]
                  a == [plan[t][r] EXCEPT ![next[t][r]] = [status |-> "SCHEDULED", linked |-> TRUE]]
      <3>1. r \in Recipients /\ next[t][r] \in Steps /\ plan[t][r] \in Array
        BY <2>6 DEF TickWrite
      <3>2. a[Last].status # "SKIPPED"
        BY <1>l, <3>1 DEF Array
      <3>3. st' = [st EXCEPT ![r] = a] /\ UNCHANGED <<view, plan>>
        BY <2>6 DEF TickWrite
      <3>. QED
        BY <3>1, <3>2, <3>3
    <2>7. CASE TickCount(t) \/ TickAbort(t)
      BY <2>7, <1>f DEF TickCount, TickAbort
    <2>. QED
      BY <1>1, <2>1, <2>2, <2>3, <2>4, <2>5, <2>6, <2>7 DEF TickStep
  <1>2. ASSUME NEW r \in Recipients, NEW s \in Steps, ReadRow(r, s)
        PROVE  LastIsMailed'
    <2>. DEFINE status == IF at[r][s] = "sent" THEN "SENT" ELSE "FAILED"
                copy == [st[r] EXCEPT ![EntryOf(r, s)].status = status]
    <2>1. copy[Last].status # "SKIPPED"
      BY <1>l DEF Array, Entry
    <2>2. view' = [view EXCEPT ![r][s] = copy] /\ UNCHANGED <<st, plan>>
      BY <1>2 DEF ReadRow
    <2>. HIDE DEF copy
    <2>. QED
      BY <2>1, <2>2
  <1>3. ASSUME NEW r \in Recipients, NEW s \in Steps, WriteRow(r, s) \/ LoseRow(r, s)
        PROVE  LastIsMailed'
    <2>1. view' = [view EXCEPT ![r][s] = Blank] /\ UNCHANGED plan
      BY <1>3 DEF WriteRow, LoseRow
    <2>2. st' = st \/ st' = [st EXCEPT ![r] = view[r][s]]
      BY <1>3 DEF WriteRow, LoseRow
    <2>3. \A q \in Recipients : st'[q] = st[q] \/ st'[q] = view[r][s]
      BY <2>2
    <2>5. \A q \in Recipients : st'[q][Last].status # "SKIPPED"
      BY <2>3
    <2>4. \A q \in Recipients, y \in Steps : view'[q][y][Last].status # "SKIPPED"
      BY <2>1, <1>b
    <2>. QED
      BY <2>1, <2>4, <2>5
  <1>4. ASSUME NEW r \in Recipients, NEW s \in Steps, Run(r, s) \/ OpenMail(r, s)
        PROVE  LastIsMailed'
    BY <1>4, <1>2, <1>3, <1>u DEF Run, Take, Reject, PassGates, CheckReply, MarkReplied, Accept, Bounce, OpenMail
  <1>5. ASSUME NEW r \in Recipients, Detector(r)
        PROVE  LastIsMailed'
    BY <1>5, <1>u DEF Detector, RecordReply, Suppress, DetectReply, DetectBounce
  <1>6. CASE User \/ Sweep \/ UNCHANGED vars
    BY <1>6, <1>u DEF User, PauseAll, Pause, StopRead, StopWrite, Toggle, Sweep, SweepJobs, SweepStates,
       SweepWrite, vars
  <1>7. CASE Crash
    BY <1>7, <1>b DEF Crash
  <1>. QED
    BY <1>1, <1>4, <1>5, <1>6, <1>7 DEF Next

(***************************************************************************)
(* Without conditions, ticks agree on who is done: they count.             *)
(***************************************************************************)

\* Who is over has had the last mail or as many as the cap allows.
OverIsFull == \A r \in Over : cur[r] = Last \/ (Cap > 0 /\ Cardinality(Begun(r)) >= Cap)

\* There was room under the cap before every step that was reached.
RoomBelow ==
  \A r \in Recipients, c \in Steps :
    Cap > 0 /\ c < cur[r] => Cardinality({s \in Begun(r) : s <= c}) < Cap

\* A tick's array says SENT of no step later than the one it was read at.
SentIsRead ==
  \A t \in Ticks, r \in Recipients, x \in Steps :
    plan[t][r][x].status = "SENT" => x <= from[t][r]

CountInv == OverIsFull /\ RoomBelow /\ SentIsRead

(***************************************************************************)
(* A tick that does not overlap another one forgets who is over.           *)
(***************************************************************************)
OverIsDropped == \A r \in Over, t \in Ticks : r \notin todo[t] /\ next[t][r] = 0

(***************************************************************************)
(* What both give: who is over is settled at the current step, nobody      *)
(* claims a later one, and a tick that completes has read the current step.*)
(***************************************************************************)
OverIsSettled == \A r \in Over : Settled(r, cur[r])
OverIsLeft == \A r \in Over, t \in Ticks : next[t][r] # 0 => from[t][r] # cur[r]
Completes(t, r, due) == Evaluation(from[t][r], plan[t][r], opened[r], due).complete
CompletesCurrent ==
  \A t \in Ticks, r \in Recipients, due \in BOOLEAN :
    tpc[t] = "evaluate" /\ r \in todo[t] /\ Completes(t, r, due) => from[t][r] = cur[r]

\* The follow-ups begun at the step of a tick that has read SENT there are those its
\* array counts.
LEMMA CountAgrees ==
  ASSUME TypeOK, ClaimInv, EntryInv, CapInv, SentIsRead, NEW t \in Ticks, NEW r \in Recipients
  PROVE  /\ SentIn(plan[t][r]) \subseteq {s \in Begun(r) : s <= from[t][r]}
         /\ plan[t][r][from[t][r]].status = "SENT" =>
              {s \in Begun(r) : s <= from[t][r]} \subseteq SentIn(plan[t][r])
  <1>1. ASSUME NEW s \in SentIn(plan[t][r])
        PROVE  s \in Begun(r) /\ s <= from[t][r]
    <2>1. s \in Steps /\ s \in FollowUps /\ plan[t][r][s].status = "SENT"
      BY StepNumbers DEF SentIn
    <2>2. s <= from[t][r]
      BY <2>1 DEF SentIsRead
    <2>3. at[r][s] = "ended"
      BY <2>1 DEF EntryInv, ArrayInv, CopiesAreTrue, Settled
    <2>4. made[r][s] # 0 /\ made[r][s] \in Nat
      BY <2>1, <2>3 DEF EntryInv, JobInv, NoJobYet, TypeOK, JobOK
    <2>. QED
      BY <2>1, <2>2, <2>4 DEF Begun
  <1>2. ASSUME plan[t][r][from[t][r]].status = "SENT", NEW s \in Begun(r), s <= from[t][r]
        PROVE  s \in SentIn(plan[t][r])
    <2>1. s \in FollowUps /\ s \in Steps /\ from[t][r] \in Steps
      BY StepNumbers DEF Begun, TypeOK, TickOK
    <2>2. s < from[t][r] \/ s = from[t][r]
      BY <1>2, <2>1, StepNumbers
    <2>. QED
      BY <1>2, <2>1, <2>2 DEF SentIn, CapInv, ArraysRemember, PlanRemembers
  <1>. QED
    BY <1>1, <1>2

LEMMA BegunFinite ==
  ASSUME NEW r, NEW B, B \subseteq Begun(r)
  PROVE  IsFiniteSet(B) /\ Cardinality(B) \in Nat /\ Cardinality(B) <= Cardinality(Begun(r))
         /\ Cardinality(Begun(r)) \in Nat
  <1>1. IsFiniteSet(FollowUps)
    BY FS_Interval, SequenceAssumption DEF FollowUps
  <1>2. IsFiniteSet(Begun(r))
    BY <1>1, FS_Subset DEF Begun
  <1>. QED
    BY <1>2, FS_Subset, FS_CardinalityType

\* What a tick may complete by counting.
LEMMA CountCompletes ==
  ASSUME Forward, Unconditional, NoneSkipped, TypeOK, ClaimInv, EntryInv, CapInv, CountInv,
         NEW t \in Ticks, NEW r \in Recipients, NEW due, Completes(t, r, due)
  PROVE  /\ from[t][r] = cur[r] /\ plan[t][r][cur[r]].status = "SENT"
         /\ cur[r] = Last \/ (Cap > 0 /\ Cardinality(Begun(r)) >= Cap)
  <1>. DEFINE c == from[t][r]
              a == plan[t][r]
              B == {s \in Begun(r) : s <= c}
  <1>1. c \in Steps /\ a \in Array /\ a[c].status # "SKIPPED" /\ cur[r] \in Steps
    BY DEF TypeOK, TickOK, RowOK, NoneSkipped, Whole
  <1>2. a[c].status = "SENT" /\ (Capped(a) \/ c = Last)
    BY <1>1, UnconditionalEvaluation DEF Completes
  <1>3. c <= cur[r]
    BY DEF CapInv, TicksRemember, FromIsReached
  <1>4. CASE c = Last
    <2>1. cur[r] = Last
      BY <1>1, <1>3, <1>4, StepNumbers
    <2>. QED
      BY <1>2, <1>4, <2>1
  <1>5. CASE Capped(a)
    <2>1. Cap > 0 /\ Cardinality(SentIn(a)) >= Cap /\ Cardinality(SentIn(a)) \in Nat
      BY <1>5, SentInFinite
    <2>2. SentIn(a) \subseteq B
      BY CountAgrees DEF CountInv
    <2>3. IsFiniteSet(B) /\ Cardinality(B) \in Nat /\ Cardinality(B) <= Cardinality(Begun(r))
          /\ Cardinality(Begun(r)) \in Nat
      BY BegunFinite
    <2>4. Cardinality(SentIn(a)) <= Cardinality(B)
      BY <2>2, <2>3, FS_Subset
    <2>5. Cardinality(B) >= Cap /\ Cardinality(Begun(r)) >= Cap
      BY <2>1, <2>3, <2>4, SequenceAssumption
    <2>6. ~(c < cur[r])
      <3>1. c < cur[r] => Cardinality(B) < Cap
        BY <1>1, <2>1 DEF CountInv, RoomBelow
      <3>. QED
        BY <2>3, <2>5, <3>1, SequenceAssumption
    <2>7. c = cur[r]
      BY <1>1, <1>3, <2>6, StepNumbers
    <2>. QED
      BY <1>2, <2>1, <2>5, <2>7
  <1>. QED
    BY <1>2, <1>4, <1>5

\* Nobody claims a later step for who is over: there is none, or no room.
LEMMA CountLeaves ==
  ASSUME TypeOK, ClaimInv, EntryInv, CapInv, CountInv
  PROVE  OverIsLeft
  <1>. SUFFICES ASSUME NEW r \in Over, NEW t \in Ticks, next[t][r] # 0, from[t][r] = cur[r]
                PROVE  FALSE
    BY DEF OverIsLeft
  <1>1. r \in Recipients
    BY DEF Over, TypeOK, RowOK, TickOK
  <1>2. next[t][r] \in Steps /\ cur[r] < next[t][r] /\ cur[r] \in Steps
    BY <1>1 DEF ClaimInv, NextIsLater, TypeOK, TickOK, RowOK
  <1>3. cur[r] # Last
    BY <1>2, StepNumbers DEF Steps
  <1>4. Cap > 0 /\ Cardinality(Begun(r)) >= Cap
    BY <1>3 DEF CountInv, OverIsFull
  <1>5. plan[t][r][from[t][r]].status = "SENT" /\ ~Capped(plan[t][r])
    BY <1>1 DEF CapInv, TicksRemember, NextIsCounted
  <1>6. Begun(r) \subseteq SentIn(plan[t][r])
    <2>1. \A s \in Begun(r) : s <= from[t][r]
      BY <1>1, BegunReached
    <2>. QED
      BY <1>1, <1>5, <2>1, CountAgrees DEF CountInv
  <1>7. Cardinality(SentIn(plan[t][r])) < Cap /\ Cardinality(SentIn(plan[t][r])) \in Nat
        /\ IsFiniteSet(SentIn(plan[t][r]))
    BY <1>4, <1>5, SentInFinite
  <1>8. Cardinality(Begun(r)) <= Cardinality(SentIn(plan[t][r])) /\ Cardinality(Begun(r)) \in Nat
    BY <1>6, <1>7, FS_Subset, BegunFinite
  <1>. QED
    BY <1>4, <1>7, <1>8, SequenceAssumption

(***************************************************************************)
(* What a step does to those who are over: what is settled stays, none     *)
(* moves on, and only an evaluation that completes makes another one over. *)
(***************************************************************************)
LEMMA SettledStays ==
  ASSUME TypeOK, ClaimInv, EntryInv, [Next]_vars
  PROVE  \A r \in Recipients, s \in Steps : Settled(r, s) => Settled(r, s)'
  <1>. SUFFICES \A r \in Recipients, s \in Steps : at[r][s] = "ended" =>
                  /\ at'[r][s] = "ended"
                  /\ job'[r][s] = job[r][s] \/ job'[r][s] = "FAILED"
    BY DEF Settled
  <1>u. UNCHANGED <<job, at>> => \A r \in Recipients, s \in Steps : at[r][s] = "ended" =>
          /\ at'[r][s] = "ended"
          /\ job'[r][s] = job[r][s] \/ job'[r][s] = "FAILED"
    OBVIOUS
  <1>1. ASSUME NEW t \in Ticks, TickStep(t) \/ TickAbort(t)
        PROVE  \A r \in Recipients, s \in Steps : at[r][s] = "ended" =>
                 at'[r][s] = "ended" /\ job'[r][s] = job[r][s]
    <2>1. CASE TickCreate(t)
      <3>1. PICK r \in Recipients : tpc[t] = "create" /\ r = item[t]
        BY <2>1 DEF TickCreate, TypeOK, TickOK
      <3>2. PICK s \in Steps : s = next[t][r]
        BY DEF TypeOK, TickOK
      <3>3. job' = [job EXCEPT ![r][s] = "PENDING"] /\ at' = [at EXCEPT ![r][s] = "new"]
        BY <2>1, <3>1, <3>2 DEF TickCreate
      <3>4. at[r][s] = "none"
        BY <3>1, <3>2 DEF ClaimInv, ClaimIsOpen, EntryInv, JobInv, NoJobYet
      <3>. QED
        BY <3>3, <3>4 DEF TypeOK, JobOK
    <2>2. CASE TickEnqueue(t)
      <3>1. PICK r \in Recipients : tpc[t] = "enqueue" /\ r = item[t]
        BY <2>2 DEF TickEnqueue, TypeOK, TickOK
      <3>2. PICK s \in Steps : s = next[t][r]
        BY DEF TypeOK, TickOK
      <3>3. /\ at' = at \/ (at[r][s] = "new" /\ at' = [at EXCEPT ![r][s] = "queued"])
            /\ UNCHANGED job
        BY <2>2, <3>1, <3>2 DEF TickEnqueue, Queued
      <3>4. CASE at' = at
        BY <3>3, <3>4
      <3>5. CASE at[r][s] = "new" /\ at' = [at EXCEPT ![r][s] = "queued"]
        BY <3>3, <3>5 DEF TypeOK, JobOK
      <3>. QED
        BY <3>3, <3>4, <3>5
    <2>3. CASE ~(TickCreate(t) \/ TickEnqueue(t))
      BY <1>1, <2>3, <1>u DEF TickStep, TickAbort, TickRead, TickMarkCompleted, TickWrite, TickCount,
         TickFinish, TickWriteSkip, TickClaim, TickEvaluate, jobVars
    <2>. QED
      BY <2>1, <2>2, <2>3
  <1>2. ASSUME NEW r \in Recipients, NEW s \in Steps, Run(r, s)
        PROVE  \A q \in Recipients, y \in Steps : at[q][y] = "ended" =>
                 at'[q][y] = "ended" /\ job'[q][y] = job[q][y]
    <2>1. /\ \A q \in Recipients, y \in Steps : ~(q = r /\ y = s) =>
               job'[q][y] = job[q][y] /\ at'[q][y] = at[q][y]
          /\ at[r][s] # "ended"
      BY <1>2 DEF Run, Take, Reject, PassGates, CheckReply, MarkReplied, Accept, Bounce, ReadRow,
         WriteRow, LoseRow, MoveTo, SetJob, TypeOK, JobOK
    <2>. QED
      BY <2>1
  <1>3. ASSUME NEW r \in Recipients, Detector(r) \/ \E s \in Steps : OpenMail(r, s)
        PROVE  \A q \in Recipients, y \in Steps : at[q][y] = "ended" =>
                 at'[q][y] = "ended" /\ (job'[q][y] = job[q][y] \/ job'[q][y] = "FAILED")
    <2>1. ASSUME NEW s \in Steps, DetectBounce(r, s)
          PROVE  \A q \in Recipients, y \in Steps : at[q][y] = "ended" =>
                   at'[q][y] = "ended" /\ (job'[q][y] = job[q][y] \/ job'[q][y] = "FAILED")
      BY <2>1 DEF DetectBounce, SetJob, TypeOK, JobOK
    <2>2. CASE ~(\E s \in Steps : DetectBounce(r, s))
      BY <1>3, <2>2, <1>u DEF Detector, RecordReply, Suppress, DetectReply, OpenMail, jobVars
    <2>. QED
      BY <2>1, <2>2
  <1>4. CASE User \/ Sweep \/ UNCHANGED vars
    BY <1>4, <1>u DEF User, PauseAll, Pause, StopRead, StopWrite, Toggle, Sweep, SweepJobs, SweepStates,
       SweepWrite, vars, jobVars
  <1>5. CASE Crash
    BY <1>5 DEF Crash, Unsent
  <1>. QED
    BY <1>1, <1>2, <1>3, <1>4, <1>5 DEF Next

\* Steps of others than ticks.
Aside ==
  \/ \E r \in Recipients : Detector(r) \/ \E s \in Steps : Run(r, s) \/ OpenMail(r, s)
  \/ User \/ Sweep \/ UNCHANGED vars

LEMMA AsideLeaves ==
  ASSUME Aside
  PROVE  UNCHANGED <<cur, completed, made, tpc, todo, from, plan, next, done, skips, item>>
  <1>. USE DEF rowVars, jobVars, tickVars
  <1>1. ASSUME NEW r \in Recipients, NEW s \in Steps, Run(r, s) \/ OpenMail(r, s)
        PROVE  UNCHANGED <<cur, completed, made, tickVars>>
    BY <1>1 DEF Run, Take, Reject, PassGates, CheckReply, MarkReplied, Accept, Bounce, ReadRow,
       WriteRow, LoseRow, OpenMail
  <1>2. ASSUME NEW r \in Recipients, Detector(r)
        PROVE  UNCHANGED <<cur, completed, made, tickVars>>
    BY <1>2 DEF Detector, RecordReply, Suppress, DetectReply, DetectBounce
  <1>3. CASE User \/ Sweep \/ UNCHANGED vars
    BY <1>3 DEF User, PauseAll, Pause, StopRead, StopWrite, Toggle, Sweep, SweepJobs, SweepStates,
       SweepWrite, vars
  <1>. QED
    BY <1>1, <1>2, <1>3 DEF Aside

LEMMA OverNext ==
  ASSUME TypeOK, OverIsLeft, [Next]_vars
  PROVE  /\ \A r \in Over' :
              \/ r \in Over
              \/ \E t \in Ticks, due \in BOOLEAN :
                   r \in Recipients /\ TickEvaluate(t, r, due) /\ Completes(t, r, due)
         /\ \A r \in Over : cur'[r] = cur[r]
         /\ \A r \in Recipients : Begun(r) \subseteq Begun(r)'
  <1>. USE DEF rowVars, jobVars
  <1>o. Over \subseteq Recipients
    BY DEF Over, TypeOK, RowOK, TickOK
  <1>1. ASSUME Over' \subseteq Over, UNCHANGED <<cur, made>>
        PROVE  /\ \A r \in Over' : r \in Over
               /\ \A r \in Over : cur'[r] = cur[r]
               /\ \A r \in Recipients : Begun(r) \subseteq Begun(r)'
    BY <1>1 DEF Begun
  <1>2. ASSUME NEW t \in Ticks, NEW r \in Recipients, NEW due \in BOOLEAN, TickEvaluate(t, r, due)
        PROVE  /\ \A q \in Over' : q \in Over \/ (q = r /\ Completes(t, r, due))
               /\ UNCHANGED <<cur, made>>
    <2>1. /\ UNCHANGED <<cur, made, completed>>
          /\ done' = IF Completes(t, r, due) THEN [done EXCEPT ![t] = @ \cup {r}] ELSE done
      BY <1>2 DEF TickEvaluate, Completes
    <2>2. \A u \in Ticks : done'[u] \subseteq done[u] \cup (IF Completes(t, r, due) THEN {r} ELSE {})
      BY <2>1 DEF TypeOK, TickOK
    <2>. QED
      BY <2>1, <2>2 DEF Over
  <1>3. ASSUME NEW t \in Ticks, NEW r \in Recipients, TickClaim(t, r)
        PROVE  /\ Over' = Over /\ UNCHANGED made
               /\ \A q \in Over : cur'[q] = cur[q]
    <2>1. /\ UNCHANGED <<made, completed, done>> /\ next[t][r] # 0
          /\ cur' = cur \/ (cur[r] = from[t][r] /\ cur' = [cur EXCEPT ![r] = next[t][r]])
      BY <1>3 DEF TickClaim
    <2>2. r \in Over => cur' = cur
      BY <2>1 DEF OverIsLeft
    <2>3. \A q \in Over : cur'[q] = cur[q]
      BY <1>o, <2>1, <2>2 DEF TypeOK, RowOK
    <2>. QED
      BY <2>1, <2>3 DEF Over
  <1>4. ASSUME NEW t \in Ticks, TickCreate(t)
        PROVE  /\ Over' = Over /\ UNCHANGED cur
               /\ \A r \in Recipients : Begun(r) \subseteq Begun(r)'
    <2>1. PICK r \in Recipients : tpc[t] = "create" /\ r = item[t]
      BY <1>4 DEF TickCreate, TypeOK, TickOK
    <2>2. PICK s \in Steps : s = next[t][r]
      BY DEF TypeOK, TickOK
    <2>3. made' = [made EXCEPT ![r][s] = @ + 1] /\ UNCHANGED <<cur, completed, done>>
      BY <1>4, <2>1, <2>2 DEF TickCreate
    <2>4. \A q \in Recipients, y \in Steps : made[q][y] > 0 => made'[q][y] > 0
      BY <2>3 DEF TypeOK, JobOK
    <2>. QED
      BY <2>3, <2>4, StepNumbers DEF Over, Begun
  <1>5. ASSUME NEW t \in Ticks, TickMarkCompleted(t)
        PROVE  Over' \subseteq Over /\ UNCHANGED <<cur, made>>
    <2>1. completed' = completed \cup done[t] /\ done' = [done EXCEPT ![t] = {}]
          /\ UNCHANGED <<cur, made>>
      BY <1>5 DEF TickMarkCompleted
    <2>2. \A u \in Ticks : done'[u] \subseteq done[u]
      BY <2>1 DEF TypeOK, TickOK
    <2>. QED
      BY <2>1, <2>2 DEF Over
  <1>6. ASSUME NEW t \in Ticks, TickCount(t) \/ TickAbort(t)
        PROVE  Over' \subseteq Over /\ UNCHANGED <<cur, made>>
    <2>1. done' = [done EXCEPT ![t] = {}] /\ UNCHANGED <<cur, made, completed>>
      BY <1>6 DEF TickCount, TickAbort, Forget
    <2>2. \A u \in Ticks : done'[u] \subseteq done[u]
      BY <2>1 DEF TypeOK, TickOK
    <2>. QED
      BY <2>1, <2>2 DEF Over
  <1>7. ASSUME NEW t \in Ticks, \/ TickRead(t) \/ TickWrite(t) \/ TickEnqueue(t) \/ TickFinish(t)
                                \/ \E r \in Recipients : TickWriteSkip(t, r)
        PROVE  Over' \subseteq Over /\ UNCHANGED <<cur, made>>
    BY <1>7 DEF TickRead, TickWrite, TickEnqueue, TickFinish, TickWriteSkip, Over
  <1>8. CASE Crash
    <2>1. completed' = completed /\ (\A t \in Ticks : done'[t] = {}) /\ UNCHANGED <<cur, made>>
      BY <1>8 DEF Crash
    <2>. QED
      BY <1>1, <2>1 DEF Over
  <1>9. CASE Aside
    BY <1>1, <1>9, AsideLeaves DEF Over
  <1>10. ASSUME NEW t \in Ticks, TickStep(t) \/ TickAbort(t)
         PROVE  /\ \A r \in Over' :
                     \/ r \in Over
                     \/ \E u \in Ticks, due \in BOOLEAN :
                          r \in Recipients /\ TickEvaluate(u, r, due) /\ Completes(u, r, due)
                /\ \A r \in Over : cur'[r] = cur[r]
                /\ \A r \in Recipients : Begun(r) \subseteq Begun(r)'
    <2>1. CASE \E r \in Recipients, due \in BOOLEAN : TickEvaluate(t, r, due)
      BY <1>2, <2>1 DEF Begun
    <2>2. CASE \E r \in Recipients : TickClaim(t, r)
      BY <1>3, <2>2 DEF Begun
    <2>3. CASE TickCreate(t)
      BY <1>4, <2>3
    <2>. QED
      BY <1>1, <1>5, <1>6, <1>7, <1>10, <2>1, <2>2, <2>3 DEF TickStep
  <1>. QED
    BY <1>8, <1>9, <1>10 DEF Next, Aside

(***************************************************************************)
(* Who is over stays settled, in both cases.                               *)
(***************************************************************************)
LEMMA OverIsSettledStep ==
  ASSUME Forward, TypeOK, ClaimInv, EntryInv, LastIsMailed, OverIsLeft, CompletesCurrent,
         OverIsSettled, [Next]_vars
  PROVE  OverIsSettled'
  <1>. SUFFICES ASSUME NEW r \in Over' PROVE Settled(r, cur[r])'
    BY DEF OverIsSettled, Settled
  <1>o. Over \subseteq Recipients
    BY DEF Over, TypeOK, RowOK, TickOK
  <1>1. CASE r \in Over
    <2>1. cur'[r] = cur[r] /\ Settled(r, cur[r]) /\ cur[r] \in Steps /\ r \in Recipients
      BY <1>1, <1>o, OverNext DEF OverIsSettled, TypeOK, RowOK
    <2>2. PICK c \in Steps : c = cur[r]
      BY <2>1
    <2>3. Settled(r, c)'
      BY <2>1, <2>2, SettledStays
    <2>. QED
      BY <2>1, <2>2, <2>3 DEF Settled
  <1>2. ASSUME NEW t \in Ticks, NEW due \in BOOLEAN,
               r \in Recipients, TickEvaluate(t, r, due), Completes(t, r, due)
        PROVE  Settled(r, cur[r])'
    <2>1. tpc[t] = "evaluate" /\ r \in todo[t] /\ cur' = cur
      BY <1>2 DEF TickEvaluate, rowVars
    <2>2. PICK c \in Steps : c = cur[r] /\ c = from[t][r]
      BY <1>2, <2>1 DEF CompletesCurrent, TypeOK, TickOK
    <2>3. plan[t][r] \in Array /\ plan[t][r][Last].status # "SKIPPED"
      BY <1>2 DEF TypeOK, TickOK, LastIsMailed
    <2>4. plan[t][r][c].status = "SENT"
      BY <1>2, <2>2, <2>3, EvaluationCompletes DEF Completes
    <2>5. Settled(r, c)
      BY <1>2, <2>4 DEF EntryInv, ArrayInv, CopiesAreTrue
    <2>6. Settled(r, c)'
      BY <1>2, <2>5, SettledStays
    <2>. QED
      BY <2>1, <2>2, <2>6 DEF Settled
  <1>. QED
    BY <1>1, <1>2, OverNext

(***************************************************************************)
(* Counting.                                                               *)
(***************************************************************************)
LEMMA SentIsReadStep ==
  ASSUME Forward, TypeOK, ClaimInv, EntryInv, SentIsRead, [Next]_vars
  PROVE  SentIsRead'
  <1>. USE DEF TypeOK, TickOK, RowOK
  <1>b. \A x \in Steps : Blank[x].status # "SENT"
    BY DEF Blank
  <1>u. UNCHANGED <<plan, from>> => SentIsRead'
    BY DEF SentIsRead
  <1>1. ASSUME NEW t \in Ticks, TickRead(t)
        PROVE  SentIsRead'
    <2>1. /\ \A u \in Ticks \ {t} : plan'[u] = plan[u] /\ from'[u] = from[u]
          /\ \A r \in Recipients : \/ plan'[t][r] = Blank
                                   \/ plan'[t][r] = st[r] /\ from'[t][r] = cur[r]
      BY <1>1 DEF TickRead
    <2>2. ASSUME NEW r \in Recipients, NEW x \in Steps, st[r][x].status = "SENT"
          PROVE  x <= cur[r]
      <3>1. at[r][x] = "ended"
        BY <2>2 DEF EntryInv, ArrayInv, RowsAreTrue, Settled
      <3>2. made[r][x] # 0 /\ made[r][x] \in Nat
        BY <3>1 DEF EntryInv, JobInv, NoJobYet, JobOK
      <3>. QED
        BY <3>2 DEF ClaimInv, MadeIsReached
    <2>3. ASSUME NEW u \in Ticks, NEW r \in Recipients, NEW x \in Steps, plan'[u][r][x].status = "SENT"
          PROVE  x <= from'[u][r]
      <3>1. CASE u # t
        <4>1. plan'[u] = plan[u] /\ from'[u] = from[u]
          BY <2>1, <3>1
        <4>2. plan[u][r][x].status = "SENT" /\ from'[u][r] = from[u][r]
          BY <2>3, <4>1
        <4>. QED
          BY <4>2 DEF SentIsRead
      <3>2. CASE u = t
        <4>1. plan'[u][r] # Blank
          BY <1>b, <2>3
        <4>2. plan'[u][r] = st[r] /\ from'[u][r] = cur[r]
          BY <2>1, <3>2, <4>1
        <4>. QED
          BY <2>2, <2>3, <4>2
      <3>. QED
        BY <3>1, <3>2
    <2>. QED
      BY <2>3 DEF SentIsRead
  <1>2. ASSUME NEW t \in Ticks, NEW r \in Recipients, NEW due \in BOOLEAN, TickEvaluate(t, r, due)
        PROVE  SentIsRead'
    <2>. DEFINE e == Evaluation(from[t][r], plan[t][r], opened[r], due)
    <2>1. from[t][r] \in Steps /\ plan[t][r] \in Array
      OBVIOUS
    <2>2. \A x \in Steps : e.array[x].status = "SENT" => plan[t][r][x].status = "SENT"
      BY <2>1, EvaluationForward
    <2>3. plan' = [plan EXCEPT ![t][r] = e.array] /\ UNCHANGED from
      BY <1>2 DEF TickEvaluate
    <2>. HIDE DEF e
    <2>4. \A u \in Ticks, q \in Recipients :
            plan'[u][q] = plan[u][q] \/ (u = t /\ q = r /\ plan'[u][q] = e.array)
      BY <2>3
    <2>. QED
      BY <2>2, <2>3, <2>4 DEF SentIsRead
  <1>3. ASSUME NEW t \in Ticks, TickCount(t) \/ TickAbort(t)
        PROVE  SentIsRead'
    <2>1. /\ \A u \in Ticks \ {t} : plan'[u] = plan[u] /\ from'[u] = from[u]
          /\ \A r \in Recipients : plan'[t][r] = Blank
      BY <1>3 DEF TickCount, TickAbort, Forget
    <2>. QED
      BY <1>b, <2>1 DEF SentIsRead
  <1>4. ASSUME NEW t \in Ticks, \/ TickMarkCompleted(t) \/ TickCreate(t) \/ TickWrite(t)
                                \/ TickEnqueue(t) \/ TickFinish(t)
                                \/ \E r \in Recipients : TickWriteSkip(t, r) \/ TickClaim(t, r)
        PROVE  SentIsRead'
    BY <1>4, <1>u DEF TickMarkCompleted, TickCreate, TickWrite, TickEnqueue, TickFinish, TickWriteSkip,
       TickClaim
  <1>5. CASE Crash
    BY <1>5, <1>b DEF Crash, SentIsRead
  <1>6. CASE Aside
    BY <1>6, <1>u, AsideLeaves
  <1>. QED
    BY <1>1, <1>2, <1>3, <1>4, <1>5, <1>6 DEF Next, TickStep, Aside

\* Only a claim moves a recipient on, to a step that has no job, and only a create adds one,
\* of the current step.
LEMMA Moves ==
  ASSUME TypeOK, ClaimInv, EntryInv, [Next]_vars
  PROVE  \/ UNCHANGED <<cur, made>>
         \/ \E t \in Ticks, r \in Recipients :
              /\ next[t][r] # 0 /\ cur[r] = from[t][r]
              /\ cur' = [cur EXCEPT ![r] = next[t][r]] /\ UNCHANGED made
         \/ \E r \in Recipients, s \in Steps :
              /\ s = cur[r] /\ made' = [made EXCEPT ![r][s] = @ + 1] /\ UNCHANGED cur
  <1>1. ASSUME NEW t \in Ticks, TickCreate(t)
        PROVE  \E r \in Recipients, s \in Steps :
                 /\ s = cur[r] /\ made' = [made EXCEPT ![r][s] = @ + 1] /\ UNCHANGED cur
    <2>1. PICK r \in Recipients : tpc[t] = "create" /\ r = item[t]
      BY <1>1 DEF TickCreate, TypeOK, TickOK
    <2>2. PICK s \in Steps : s = next[t][r]
      BY DEF TypeOK, TickOK
    <2>3. made' = [made EXCEPT ![r][s] = @ + 1] /\ UNCHANGED cur
      BY <1>1, <2>1, <2>2 DEF TickCreate, rowVars
    <2>4. s = cur[r]
      BY <2>1, <2>2 DEF EntryInv, HandInv, ClaimIsCurrent
    <2>. QED
      BY <2>3, <2>4
  <1>2. ASSUME NEW t \in Ticks, NEW r \in Recipients, TickClaim(t, r)
        PROVE  \/ UNCHANGED <<cur, made>>
               \/ /\ next[t][r] # 0 /\ cur[r] = from[t][r]
                  /\ cur' = [cur EXCEPT ![r] = next[t][r]] /\ UNCHANGED made
    BY <1>2 DEF TickClaim, jobVars
  <1>3. ASSUME NEW t \in Ticks, \/ TickRead(t) \/ TickMarkCompleted(t) \/ TickWrite(t)
                                \/ TickEnqueue(t) \/ TickCount(t) \/ TickFinish(t) \/ TickAbort(t)
                                \/ \E r \in Recipients : TickWriteSkip(t, r)
                                     \/ \E due \in BOOLEAN : TickEvaluate(t, r, due)
        PROVE  UNCHANGED <<cur, made>>
    BY <1>3 DEF TickRead, TickMarkCompleted, TickWrite, TickEnqueue, TickCount, TickFinish, TickAbort,
       TickWriteSkip, TickEvaluate, rowVars, jobVars
  <1>4. CASE Aside \/ Crash
    BY <1>4, AsideLeaves DEF Crash, rowVars
  <1>. QED
    BY <1>1, <1>2, <1>3, <1>4 DEF Next, TickStep, Aside

LEMMA RoomBelowStep ==
  ASSUME TypeOK, ClaimInv, EntryInv, CapInv, CountInv, [Next]_vars
  PROVE  RoomBelow'
  <1>. SUFFICES ASSUME NEW r \in Recipients, NEW c \in Steps, Cap > 0, c < cur'[r]
                PROVE  Cardinality({s \in Begun(r)' : s <= c}) < Cap
    BY DEF RoomBelow
  <1>b. Begun(r)' = {s \in FollowUps : made'[r][s] > 0} /\ Begun(r) = {s \in FollowUps : made[r][s] > 0}
    BY DEF Begun
  <1>n. FollowUps \subseteq Steps /\ Steps \subseteq Int
    BY StepNumbers
  <1>0. c < cur[r] => Cardinality({s \in Begun(r) : s <= c}) < Cap
    BY DEF CountInv, RoomBelow
  <1>1. CASE UNCHANGED <<cur, made>>
    <2>1. Begun(r)' = Begun(r)
      BY <1>1, <1>b
    <2>. QED
      BY <1>0, <1>1, <2>1
  <1>2. ASSUME NEW t \in Ticks, NEW q \in Recipients, next[t][q] # 0, cur[q] = from[t][q],
               cur' = [cur EXCEPT ![q] = next[t][q]], UNCHANGED made
        PROVE  Cardinality({s \in Begun(r)' : s <= c}) < Cap
    <2>1. Begun(r)' = Begun(r)
      BY <1>2, <1>b
    <2>2. CASE c < cur[r]
      BY <1>0, <2>1, <2>2
    <2>3. CASE ~(c < cur[r])
      <3>1. q = r
        BY <1>2, <2>3 DEF TypeOK, RowOK
      <3>2. plan[t][r][from[t][r]].status = "SENT" /\ ~Capped(plan[t][r])
        BY <1>2, <3>1 DEF CapInv, TicksRemember, NextIsCounted
      <3>3. \A s \in Begun(r) : s \in Steps /\ s <= cur[r]
        BY BegunReached
      <3>4. Begun(r) \subseteq SentIn(plan[t][r])
        BY <1>2, <3>1, <3>2, <3>3, CountAgrees DEF CountInv
      <3>5. /\ IsFiniteSet(SentIn(plan[t][r])) /\ Cardinality(SentIn(plan[t][r])) \in Nat
            /\ Cardinality(SentIn(plan[t][r])) < Cap
        BY <3>2, SentInFinite
      <3>6. {s \in Begun(r) : s <= c} \subseteq SentIn(plan[t][r])
        BY <3>4
      <3>7. /\ Cardinality({s \in Begun(r) : s <= c}) <= Cardinality(SentIn(plan[t][r]))
            /\ Cardinality({s \in Begun(r) : s <= c}) \in Nat
        BY <3>5, <3>6, FS_Subset, FS_CardinalityType
      <3>. QED
        BY <2>1, <3>5, <3>7, SequenceAssumption
    <2>. QED
      BY <2>2, <2>3
  <1>3. ASSUME NEW q \in Recipients, NEW y \in Steps, y = cur[q],
               made' = [made EXCEPT ![q][y] = @ + 1], UNCHANGED cur
        PROVE  Cardinality({s \in Begun(r)' : s <= c}) < Cap
    <2>1. \A s \in FollowUps : s <= c => made'[r][s] = made[r][s]
      <3>1. CASE q = r
        <4>1. \A s \in FollowUps : s <= c => s # y
          BY <1>3, <1>n, <3>1
        <4>. QED
          BY <1>3, <1>n, <4>1 DEF TypeOK, JobOK
      <3>2. CASE q # r
        BY <1>3, <3>2 DEF TypeOK, JobOK
      <3>. QED
        BY <3>1, <3>2
    <2>2. {s \in Begun(r)' : s <= c} = {s \in Begun(r) : s <= c}
      BY <1>b, <2>1
    <2>. QED
      BY <1>0, <1>3, <2>2
  <1>. QED
    BY <1>1, <1>2, <1>3, Moves

LEMMA OverIsFullStep ==
  ASSUME Forward, Unconditional, NoneSkipped, TypeOK, ClaimInv, EntryInv, CapInv, CountInv,
         [Next]_vars
  PROVE  OverIsFull'
  <1>. SUFFICES ASSUME NEW r \in Over'
                PROVE  cur'[r] = Last \/ (Cap > 0 /\ Cardinality(Begun(r)') >= Cap)
    BY DEF OverIsFull
  <1>o. OverIsLeft
    BY CountLeaves
  <1>1. r \in Recipients /\ cur'[r] = cur[r]
        /\ (cur[r] = Last \/ (Cap > 0 /\ Cardinality(Begun(r)) >= Cap))
    <2>1. CASE r \in Over
      BY <1>o, <2>1, OverNext DEF CountInv, OverIsFull, Over, TypeOK, RowOK, TickOK
    <2>2. ASSUME NEW t \in Ticks, NEW due \in BOOLEAN,
                 r \in Recipients, TickEvaluate(t, r, due), Completes(t, r, due)
          PROVE  cur'[r] = cur[r]
                 /\ (cur[r] = Last \/ (Cap > 0 /\ Cardinality(Begun(r)) >= Cap))
      <3>1. cur' = cur
        BY <2>2 DEF TickEvaluate, rowVars
      <3>. QED
        BY <2>2, <3>1, CountCompletes
    <2>. QED
      BY <1>o, <2>1, <2>2, OverNext
  <1>2. Begun(r) \subseteq Begun(r)'
    BY <1>o, <1>1, OverNext
  <1>3. IsFiniteSet(Begun(r)')
    <2>1. IsFiniteSet(FollowUps)
      BY FS_Interval, SequenceAssumption DEF FollowUps
    <2>2. Begun(r)' \subseteq FollowUps
      BY DEF Begun
    <2>. QED
      BY <2>1, <2>2, FS_Subset
  <1>4. /\ Cardinality(Begun(r)) <= Cardinality(Begun(r)')
        /\ Cardinality(Begun(r)) \in Nat /\ Cardinality(Begun(r)') \in Nat
    BY <1>2, <1>3, FS_Subset, FS_CardinalityType
  <1>. QED
    BY <1>1, <1>4, SequenceAssumption

LEMMA CountStep ==
  ASSUME Forward, Unconditional, NoneSkipped, TypeOK, ClaimInv, EntryInv, CapInv, CountInv,
         [Next]_vars
  PROVE  CountInv'
  BY OverIsFullStep, RoomBelowStep, SentIsReadStep DEF CountInv

(***************************************************************************)
(* Ticks that do not overlap.                                              *)
(***************************************************************************)
\* Only an evaluating tick has recipients to complete.
DoneIsHeld == \A t \in Ticks : tpc[t] # "evaluate" => done[t] = {}

DropInv == OverIsDropped /\ DoneIsHeld

LEMMA DoneIsHeldStep ==
  ASSUME TypeOK, DoneIsHeld, [Next]_vars
  PROVE  DoneIsHeld'
  <1>. USE DEF TypeOK, TickOK, DoneIsHeld, Goto
  <1>1. ASSUME NEW t \in Ticks, TickStep(t) \/ TickAbort(t)
        PROVE  DoneIsHeld'
    <2>1. /\ \A u \in Ticks \ {t} : tpc'[u] = tpc[u] /\ done'[u] = done[u]
          /\ tpc'[t] # "evaluate" => done'[t] = {}
      <3>1. CASE TickRead(t) \/ TickMarkCompleted(t) \/ TickCreate(t) \/ TickWrite(t) \/ TickEnqueue(t)
                 \/ TickFinish(t) \/ TickCount(t) \/ TickAbort(t)
        BY <3>1 DEF TickRead, TickMarkCompleted, TickCreate, TickWrite, TickEnqueue, TickFinish,
           TickCount, TickAbort, Forget
      <3>2. ASSUME NEW r \in Recipients, TickWriteSkip(t, r) \/ TickClaim(t, r)
            PROVE  /\ \A u \in Ticks \ {t} : tpc'[u] = tpc[u] /\ done'[u] = done[u]
                   /\ tpc'[t] # "evaluate" => done'[t] = {}
        BY <3>2 DEF TickWriteSkip, TickClaim
      <3>3. ASSUME NEW r \in Recipients, NEW due \in BOOLEAN, TickEvaluate(t, r, due)
            PROVE  /\ \A u \in Ticks \ {t} : tpc'[u] = tpc[u] /\ done'[u] = done[u]
                   /\ tpc'[t] # "evaluate" => done'[t] = {}
        <4>1. /\ UNCHANGED tpc /\ tpc[t] = "evaluate"
              /\ done' = done \/ done' = [done EXCEPT ![t] = @ \cup {r}]
          BY <3>3 DEF TickEvaluate
        <4>. QED
          BY <4>1
      <3>. QED
        BY <1>1, <3>1, <3>2, <3>3 DEF TickStep
    <2>. QED
      BY <2>1
  <1>2. CASE Crash
    BY <1>2 DEF Crash
  <1>3. CASE Aside
    BY <1>3, AsideLeaves
  <1>. QED
    BY <1>1, <1>2, <1>3 DEF Next, Aside

LEMMA OverIsDroppedStep ==
  ASSUME Forward, OneTick, TypeOK, LastIsMailed, DropInv, [Next]_vars
  PROVE  OverIsDropped'
  <1>. USE DEF TypeOK, TickOK, RowOK
  <1>o. Over \subseteq Recipients
    BY DEF Over
  <1>d. \A q \in Over, u \in Ticks : q \notin todo[u] /\ next[u][q] = 0
    BY DEF DropInv, OverIsDropped
  <1>1. ASSUME Over' \subseteq Over,
               \A u \in Ticks, q \in Over : q \notin todo'[u] /\ next'[u][q] = 0
        PROVE  OverIsDropped'
    BY <1>1 DEF OverIsDropped
  <1>2. ASSUME NEW t \in Ticks, TickRead(t)
        PROVE  OverIsDropped'
    <2>1. /\ tpc[t] = "idle" /\ UNCHANGED <<done, completed, next>>
          /\ todo' = [todo EXCEPT ![t] = {r \in Recipients : Running(r)}]
      BY <1>2 DEF TickRead, rowVars
    <2>2. \A u \in Ticks : u = t /\ done[u] = {}
      BY <2>1 DEF OneTick, DropInv, DoneIsHeld
    <2>3. Over = completed /\ Over' = completed
      BY <2>1, <2>2 DEF Over
    <2>. QED
      BY <1>1, <1>d, <2>1, <2>2, <2>3 DEF Running
  <1>3. ASSUME NEW t \in Ticks, NEW r \in Recipients, NEW due \in BOOLEAN, TickEvaluate(t, r, due)
        PROVE  OverIsDropped'
    <2>. DEFINE e == Evaluation(from[t][r], plan[t][r], opened[r], due)
    <2>0. from[t][r] \in Steps /\ plan[t][r] \in Array /\ plan[t][r][Last].status # "SKIPPED"
      BY DEF LastIsMailed
    <2>1. e.complete => e.to = 0
      BY <2>0, EvaluationCompletes
    <2>2. /\ r \in todo[t] /\ todo' = [todo EXCEPT ![t] = @ \ {r}] /\ UNCHANGED completed
          /\ next' = [next EXCEPT ![t][r] = e.to]
          /\ done' = IF e.complete THEN [done EXCEPT ![t] = @ \cup {r}] ELSE done
      BY <1>3 DEF TickEvaluate, rowVars
    <2>. HIDE DEF e
    <2>3. \A u \in Ticks : u = t
      BY DEF OneTick
    <2>4. Over' \subseteq Over \cup (IF e.complete THEN {r} ELSE {})
      BY <2>2 DEF Over
    <2>5. \A u \in Ticks, q \in Over : q # r /\ q \notin todo'[u] /\ next'[u][q] = 0
      BY <1>d, <1>o, <2>2, <2>3
    <2>6. e.complete => \A u \in Ticks : r \notin todo'[u] /\ next'[u][r] = 0
      BY <2>1, <2>2, <2>3
    <2>. QED
      BY <2>4, <2>5, <2>6 DEF OverIsDropped
  <1>4. ASSUME NEW t \in Ticks, TickMarkCompleted(t)
        PROVE  OverIsDropped'
    <2>1. /\ completed' = completed \cup done[t] /\ done' = [done EXCEPT ![t] = {}]
          /\ UNCHANGED <<todo, next>>
      BY <1>4 DEF TickMarkCompleted
    <2>2. Over' \subseteq Over
      BY <2>1 DEF Over
    <2>. QED
      BY <1>1, <1>d, <2>1, <2>2
  <1>5. ASSUME NEW t \in Ticks, TickCount(t) \/ TickAbort(t)
        PROVE  OverIsDropped'
    <2>1. /\ done' = [done EXCEPT ![t] = {}] /\ todo' = [todo EXCEPT ![t] = {}]
          /\ next' = [next EXCEPT ![t] = [q \in Recipients |-> 0]] /\ UNCHANGED completed
      BY <1>5 DEF TickCount, TickAbort, Forget, rowVars
    <2>2. Over' \subseteq Over
      BY <2>1 DEF Over
    <2>. QED
      BY <1>1, <1>d, <1>o, <2>1, <2>2
  <1>6. ASSUME NEW t \in Ticks, \/ TickCreate(t) \/ TickWrite(t) \/ TickFinish(t)
                                \/ \E r \in Recipients : TickWriteSkip(t, r)
        PROVE  OverIsDropped'
    <2>1. UNCHANGED <<completed, done, todo, next>>
      BY <1>6 DEF TickCreate, TickWrite, TickFinish, TickWriteSkip, rowVars
    <2>2. Over' = Over
      BY <2>1 DEF Over
    <2>3. \A u \in Ticks, q \in Over : q \notin todo'[u] /\ next'[u][q] = 0
      BY <1>d, <2>1
    <2>. QED
      BY <1>1, <2>2, <2>3
  <1>7. ASSUME NEW t \in Ticks, TickEnqueue(t) \/ \E r \in Recipients : TickClaim(t, r)
        PROVE  OverIsDropped'
    <2>1. UNCHANGED <<completed, done, todo>>
      BY <1>7 DEF TickEnqueue, TickClaim, rowVars
    <2>2. next' = next \/ \E r \in Recipients : next' = [next EXCEPT ![t][r] = 0]
      BY <1>7 DEF TickEnqueue, TickClaim, rowVars
    <2>3. \A u \in Ticks, q \in Recipients : next'[u][q] = next[u][q] \/ next'[u][q] = 0
      <3>1. CASE next' = next
        BY <3>1
      <3>2. ASSUME NEW r \in Recipients, next' = [next EXCEPT ![t][r] = 0]
            PROVE  \A u \in Ticks, q \in Recipients : next'[u][q] = next[u][q] \/ next'[u][q] = 0
        BY <3>2
      <3>. QED
        BY <2>2, <3>1, <3>2
    <2>4. Over' = Over
      BY <2>1 DEF Over
    <2>5. \A u \in Ticks, q \in Over : q \notin todo'[u] /\ next'[u][q] = 0
      BY <1>d, <1>o, <2>1, <2>3
    <2>. QED
      BY <1>1, <2>4, <2>5
  <1>8. CASE Crash
    <2>1. /\ completed' = completed /\ \A u \in Ticks : done'[u] = {} /\ todo'[u] = {}
          /\ \A u \in Ticks, q \in Recipients : next'[u][q] = 0
      BY <1>8 DEF Crash, rowVars
    <2>2. Over' \subseteq Over
      BY <2>1 DEF Over
    <2>3. \A u \in Ticks, q \in Over : q \notin todo'[u] /\ next'[u][q] = 0
      BY <1>o, <2>1
    <2>. QED
      BY <1>1, <2>2, <2>3
  <1>9. CASE Aside
    <2>1. UNCHANGED <<completed, done, todo, next>>
      BY <1>9, AsideLeaves
    <2>2. Over' = Over
      BY <2>1 DEF Over
    <2>3. \A u \in Ticks, q \in Over : q \notin todo'[u] /\ next'[u][q] = 0
      BY <1>d, <2>1
    <2>. QED
      BY <1>1, <2>2, <2>3
  <1>. QED
    BY <1>2, <1>3, <1>4, <1>5, <1>6, <1>7, <1>8, <1>9 DEF Next, TickStep, Aside

(***************************************************************************)
(* A campaign completes when nobody is running, and then nobody is.        *)
(***************************************************************************)
NobodyIsPaused == paused = {}

FinishIsDone ==
  sweep = "write" \/ campaign = "COMPLETED" \/ (\E t \in Ticks : tpc[t] = "finish") => NoneRunning

\* Without pauses and replies taken back, a recipient that does not run never runs again.
LEMMA FlagsGrow ==
  ASSUME "pause" \notin Happenings, "toggle" \notin Happenings, NobodyIsPaused, [Next]_vars
  PROVE  NobodyIsPaused' /\ (NoneRunning => NoneRunning')
  <1>. SUFFICES paused' = paused /\ completed \subseteq completed' /\ replied \subseteq replied'
    BY DEF NobodyIsPaused, NoneRunning, Running
  <1>. USE DEF rowVars
  <1>1. ASSUME NEW t \in Ticks, TickStep(t) \/ TickAbort(t)
        PROVE  UNCHANGED <<paused, replied>> /\ completed \subseteq completed'
    BY <1>1 DEF TickStep, TickAbort, TickRead, TickMarkCompleted, TickCreate, TickWrite, TickEnqueue,
       TickCount, TickFinish, TickWriteSkip, TickClaim, TickEvaluate
  <1>2. ASSUME NEW r \in Recipients, NEW s \in Steps, Run(r, s) \/ OpenMail(r, s)
        PROVE  UNCHANGED <<paused, completed>> /\ replied \subseteq replied'
    BY <1>2 DEF Run, Take, Reject, PassGates, CheckReply, MarkReplied, Accept, Bounce, ReadRow,
       WriteRow, LoseRow, OpenMail
  <1>3. ASSUME NEW r \in Recipients, Detector(r)
        PROVE  UNCHANGED <<paused, completed>> /\ replied \subseteq replied'
    BY <1>3 DEF Detector, RecordReply, Suppress, DetectReply, DetectBounce
  <1>4. CASE User \/ Sweep \/ Crash \/ UNCHANGED vars
    BY <1>4 DEF User, PauseAll, Pause, StopRead, StopWrite, Toggle, Sweep, SweepJobs, SweepStates,
       SweepWrite, Crash, vars
  <1>. QED
    BY <1>1, <1>2, <1>3, <1>4 DEF Next

LEMMA FinishStep ==
  ASSUME "pause" \notin Happenings, "toggle" \notin Happenings, TypeOK, NobodyIsPaused, FinishIsDone,
         [Next]_vars
  PROVE  FinishIsDone'
  <1>n. NoneRunning => NoneRunning'
    BY FlagsGrow
  <1>g. ASSUME \/ sweep' = "write" \/ campaign' = "COMPLETED" \/ (\E t \in Ticks : tpc'[t] = "finish")
               => \/ sweep = "write" \/ campaign = "COMPLETED" \/ (\E t \in Ticks : tpc[t] = "finish")
                  \/ NoneRunning
        PROVE  FinishIsDone'
    BY <1>g, <1>n DEF FinishIsDone
  <1>. USE DEF TypeOK, TickOK, Goto
  <1>1. ASSUME NEW t \in Ticks, \/ TickRead(t) \/ TickMarkCompleted(t) \/ TickCreate(t)
                                \/ TickWrite(t) \/ TickEnqueue(t) \/ TickAbort(t)
                                \/ \E r \in Recipients : TickWriteSkip(t, r) \/ TickClaim(t, r)
                                     \/ \E due \in BOOLEAN : TickEvaluate(t, r, due)
        PROVE  FinishIsDone'
    <2>1. /\ UNCHANGED <<sweep, campaign>>
          /\ tpc' = tpc \/ \E x \in TickSteps \ {"finish"} : tpc' = [tpc EXCEPT ![t] = x]
      BY <1>1 DEF TickRead, TickMarkCompleted, TickCreate, TickWrite, TickEnqueue, TickAbort,
         TickWriteSkip, TickClaim, TickEvaluate, TickSteps
    <2>2. \A u \in Ticks : tpc'[u] = "finish" => tpc[u] = "finish"
      BY <2>1
    <2>. QED
      BY <1>g, <2>1, <2>2
  <1>2. ASSUME NEW t \in Ticks, TickCount(t)
        PROVE  FinishIsDone'
    <2>1. /\ UNCHANGED <<sweep, campaign>>
          /\ \/ NoneRunning
             \/ tpc' = [tpc EXCEPT ![t] = "idle"]
      BY <1>2 DEF TickCount
    <2>. QED
      BY <1>g, <2>1
  <1>3. ASSUME NEW t \in Ticks, TickFinish(t)
        PROVE  FinishIsDone'
    BY <1>3, <1>g DEF TickFinish
  <1>4. ASSUME NEW r \in Recipients, \/ Detector(r)
                                     \/ \E s \in Steps : Run(r, s) \/ OpenMail(r, s)
        PROVE  FinishIsDone'
    <2>1. UNCHANGED <<sweep, tpc>> /\ (campaign' = "COMPLETED" => campaign = "COMPLETED")
      BY <1>4 DEF Detector, RecordReply, Suppress, DetectReply, DetectBounce, OpenMail, Run, Take, Reject,
         PassGates, CheckReply, MarkReplied, Accept, Bounce, ReadRow, WriteRow, LoseRow, tickVars
    <2>. QED
      BY <1>g, <2>1
  <1>5. CASE User \/ UNCHANGED vars
    BY <1>5, <1>g DEF User, PauseAll, Pause, StopRead, StopWrite, Toggle, tickVars, vars
  <1>6. CASE Sweep
    BY <1>6, <1>g DEF Sweep, SweepJobs, SweepStates, SweepWrite, tickVars
  <1>7. CASE Crash
    BY <1>7, <1>g DEF Crash
  <1>. QED
    BY <1>1, <1>2, <1>3, <1>4, <1>5, <1>6, <1>7 DEF Next, TickStep

(***************************************************************************)
(* The invariant, and what it means for a campaign that is COMPLETED.      *)
(***************************************************************************)
DoneInv == OverIsSettled /\ OpenIsUnderWay /\ FinishIsDone /\ NobodyIsPaused

LEMMA DoneInit == Init => DoneInv /\ CountInv /\ DropInv /\ LastIsMailed /\ Fresh
  <1>. SUFFICES ASSUME Init PROVE DoneInv /\ CountInv /\ DropInv /\ LastIsMailed /\ Fresh
    OBVIOUS
  <1>1. Over = {}
    BY DEF Init, Over
  <1>2. DoneInv
    BY <1>1 DEF Init, OnlyFirst, DoneInv, OverIsSettled, OpenIsUnderWay, FinishIsDone, NobodyIsPaused,
       Open, Unsent
  <1>3. CountInv
    BY <1>1, StepNumbers DEF Init, CountInv, OverIsFull, RoomBelow, SentIsRead, Steps, Blank
  <1>4. DropInv
    BY <1>1 DEF Init, DropInv, OverIsDropped, DoneIsHeld
  <1>5. Last \in Steps /\ Blank[Last].status # "SKIPPED"
    BY StepNumbers DEF Steps, Blank
  <1>6. LastIsMailed
    BY <1>5 DEF Init, LastIsMailed
  <1>7. Fresh
    BY DEF Init, Fresh
  <1>. QED
    BY <1>2, <1>3, <1>4, <1>6, <1>7

LEMMA DoneIsMeant ==
  ASSUME TypeOK, EntryInv, DoneInv
  PROVE  CompletedMeansDone
  <1>. SUFFICES ASSUME campaign = "COMPLETED"
                PROVE  NoneRunning /\ \A r \in Recipients \ replied, s \in Steps : job[r][s] \notin Open
    BY DEF CompletedMeansDone
  <1>1. NoneRunning
    BY DEF DoneInv, FinishIsDone
  <1>2. ASSUME NEW r \in Recipients \ replied, NEW s \in Steps, job[r][s] \in Open
        PROVE  FALSE
    <2>1. r \in completed
      BY <1>1 DEF NoneRunning, Running, DoneInv, NobodyIsPaused
    <2>2. at[r][cur[r]] = "ended"
      BY <2>1 DEF DoneInv, OverIsSettled, Over, Settled
    <2>3. at[r][s] \in Unsent
      BY <1>2 DEF DoneInv, OpenIsUnderWay
    <2>4. s = cur[r]
      BY <2>3 DEF EntryInv, JobInv, RunIsCurrent, Unsent
    <2>. QED
      BY <2>2, <2>3, <2>4 DEF Unsent
  <1>. QED
    BY <1>1, <1>2

LEMMA DoneStep ==
  ASSUME Forward, "pause" \notin Happenings, "toggle" \notin Happenings,
         TypeOK, ClaimInv, EntryInv, LastIsMailed, OverIsLeft, CompletesCurrent, DoneInv, [Next]_vars
  PROVE  DoneInv'
  BY OverIsSettledStep, OpenStep, FinishStep, FlagsGrow DEF DoneInv

\* In a sequence that goes forward a COMPLETED campaign has nobody left to write to,
\* whatever crashes, fails or bounces, if the user pauses and stops nobody and takes no
\* reply back and, where steps have conditions, ticks do not overlap
\* (sequenceScheduler.ts:515-534, campaignCompletion.ts:15-40).
THEOREM CompletedMeansDoneCorrect ==
  ASSUME Forward, "stop" \notin Happenings, "pause" \notin Happenings, "toggle" \notin Happenings,
         OneTick \/ Unconditional
  PROVE  Spec => []CompletedMeansDone
  <1>1. Spec => []TypeOK /\ []NobodyStops /\ []CapInv
    BY TypeCorrect, NobodyStopped, CapInvKept
  <1>2. Init => ClaimInv /\ EntryInv /\ DoneInv /\ CountInv /\ DropInv /\ LastIsMailed /\ Fresh
    BY ClaimInit, EntryInit, DoneInit
  <1>3. TypeOK /\ ClaimInv /\ [Next]_vars => ClaimInv'
    BY ClaimNext
  <1>4. TypeOK /\ ClaimInv /\ EntryInv /\ [Next]_vars => EntryInv'
    BY EntryNext
  <1>5. TypeOK /\ NobodyStops /\ LastIsMailed /\ [Next]_vars => LastIsMailed'
    BY LastStep
  <1>6. TypeOK /\ EntryInv /\ DoneInv => CompletedMeansDone
    BY DoneIsMeant
  <1>7. TypeOK /\ ClaimInv /\ EntryInv /\ LastIsMailed /\ OverIsLeft /\ CompletesCurrent /\ DoneInv
        /\ [Next]_vars => DoneInv'
    BY DoneStep
  <1>8. CASE Unconditional
    <2>1. Spec => []NoneSkipped
      BY <1>8, NoneSkippedKept
    <2>2. NoneSkipped /\ TypeOK /\ ClaimInv /\ EntryInv /\ CapInv /\ CountInv /\ [Next]_vars
          => CountInv'
      BY <1>8, CountStep
    <2>3. NoneSkipped /\ TypeOK /\ ClaimInv /\ EntryInv /\ CapInv /\ CountInv
          => OverIsLeft /\ CompletesCurrent
      BY <1>8, CountLeaves, CountCompletes DEF CompletesCurrent
    <2>. QED
      BY <1>1, <1>2, <1>3, <1>4, <1>5, <1>6, <1>7, <2>1, <2>2, <2>3, PTL DEF Spec
  <1>9. CASE OneTick
    <2>1. TypeOK /\ Fresh /\ [Next]_vars => Fresh'
      BY <1>9, FreshStep
    <2>2. TypeOK /\ LastIsMailed /\ DropInv /\ [Next]_vars => DropInv'
      BY <1>9, OverIsDroppedStep, DoneIsHeldStep DEF DropInv
    <2>3. Fresh /\ DropInv => OverIsLeft /\ CompletesCurrent
      BY DEF Fresh, DropInv, OverIsDropped, OverIsLeft, CompletesCurrent
    <2>. QED
      BY <1>1, <1>2, <1>3, <1>4, <1>5, <1>6, <1>7, <2>1, <2>2, <2>3, PTL DEF Spec
  <1>. QED
    BY <1>8, <1>9
==============================================================================
