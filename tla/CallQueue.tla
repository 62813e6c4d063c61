------------------------------ MODULE CallQueue ------------------------------
(***************************************************************************)
(* The call queue: one task per contact and user says whom to call next.   *)
(* Logging a call closes the task the page has selected and, unless the    *)
(* outcome is final, makes sure that the caller has a pending task for the *)
(* contact.  The transactions run at Read Committed: a transaction sees    *)
(* what others have committed, and an update waits for the row.            *)
(***************************************************************************)
EXTENDS Integers, FiniteSets

CONSTANTS
  Callers,    \* users of the workspace
  Prospects,  \* contacts
  Dispositions, \* requests that may be under way at the same time
  NoProspect, \* no contact
  NoCaller,   \* no user
  MaxTasks,   \* bound on the tasks ever created
  MaxLogged   \* bound on the requests

QueueAssumption ==
  /\ NoProspect \notin Prospects /\ NoCaller \notin Callers
  /\ IsFiniteSet(Dispositions) /\ MaxTasks \in Nat /\ MaxLogged \in Nat

ASSUME QueueAssumption

TaskIds == 1..MaxTasks
NoTask == 0

VARIABLES
  task,     \* CallTask rows: [status, who, owner]
  known,    \* the contacts that exist
  desk,     \* desk[u]: the task user u has selected on the page, perhaps long ago
  dispo,    \* requests: [step, via, user, who, task, outcome, found]
  logged,   \* requests so far
  crossed,  \* history, crossed[t]: requests that found t open while another was closing it
  closings, \* history, closings[t]: transactions that have closed t
  extra     \* history, extra[u][p]: lookups that could not see another's task, and tools' tasks

queueVars == <<task, known, desk, dispo, logged, crossed, closings, extra>>

Unborn == [status |-> "none", who |-> NoProspect, owner |-> NoCaller]
NoDispo == [step |-> "idle", via |-> "api", user |-> NoCaller, who |-> NoProspect,
            task |-> NoTask, outcome |-> "none", found |-> NoTask]
DispoSteps == {"idle", "find", "close", "look", "merge", "commit"}
Outcomes == {"CONNECTED", "DO_NOT_CALL"}

QueueTypeOK ==
  /\ task \in [TaskIds -> [status : {"none", "PENDING", "COMPLETED", "SKIPPED", "gone"},
                           who : Prospects \cup {NoProspect}, owner : Callers \cup {NoCaller}]]
  /\ known \subseteq Prospects
  /\ desk \in [Callers -> TaskIds \cup {NoTask}]
  /\ dispo \in [Dispositions ->
       [step : DispoSteps, via : {"api", "tool"}, user : Callers \cup {NoCaller},
        who : Prospects \cup {NoProspect}, task : TaskIds \cup {NoTask},
        outcome : Outcomes \cup {"none"}, found : TaskIds \cup {NoTask}]]
  /\ logged \in 0..MaxLogged
  /\ crossed \in [TaskIds -> Nat] /\ closings \in [TaskIds -> Nat]
  /\ extra \in [Callers -> [Prospects -> Nat]]

QueueInit ==
  /\ task = [t \in TaskIds |-> Unborn]
  /\ known = Prospects
  /\ desk = [u \in Callers |-> NoTask]
  /\ dispo = [d \in Dispositions |-> NoDispo]
  /\ logged = 0
  /\ crossed = [t \in TaskIds |-> 0] /\ closings = [t \in TaskIds |-> 0]
  /\ extra = [u \in Callers |-> [p \in Prospects |-> 0]]

Pending(u, p) == {t \in TaskIds : task[t] = [status |-> "PENDING", who |-> p, owner |-> u]}

NewTask == CHOOSE t \in TaskIds : task[t] = Unborn
Unused == \E t \in TaskIds : task[t] = Unborn

\* TERMINAL_DISPOSITIONS
IsTerminal(d) == dispo[d].outcome = "DO_NOT_CALL"

\* Rows an open transaction has updated.
Locked(d) ==
  LET x == dispo[d]
  IN (IF x.step \in {"look", "merge", "commit"} THEN {x.task} ELSE {})
     \cup (IF x.step = "commit" THEN {x.found} ELSE {})
MayUpdate(d, t) == \A other \in Dispositions \ {d} : t \notin Locked(other)

DispoGoes(d, from, to) == dispo[d].step = from /\ dispo' = [dispo EXCEPT ![d].step = to]
DispoEnds(d) == dispo' = [dispo EXCEPT ![d] = NoDispo]

BeginDispo(d, x) ==
  /\ dispo[d] = NoDispo
  /\ logged < MaxLogged
  /\ logged' = logged + 1
  /\ dispo' = [dispo EXCEPT ![d] = x]
  /\ UNCHANGED <<task, known, desk, crossed, closings, extra>>

(***************************************************************************)
(* The page.                                                               *)
(***************************************************************************)
\* fetchData and a click; the page keeps what it shows when the rows change.
SelectTask(u, t) ==
  /\ task[t].status \notin {"none", "gone"}
  /\ desk' = [desk EXCEPT ![u] = t]
  /\ UNCHANGED <<task, known, dispo, logged, crossed, closings, extra>>

\* handleLogCall, and calls_disposition_submit of the tools.
LogCall(d, u, outcome, via) ==
  /\ desk[u] # NoTask
  /\ task[desk[u]].who \in known
  /\ BeginDispo(d, [step |-> "find", via |-> via, user |-> u, who |-> task[desk[u]].who,
                    task |-> desk[u], outcome |-> outcome, found |-> NoTask])

\* createCallTask
ScheduleCall(d, u, p) ==
  /\ p \in known
  /\ BeginDispo(d, [step |-> "look", via |-> "api", user |-> u, who |-> p,
                    task |-> NoTask, outcome |-> "none", found |-> NoTask])

\* calls_task_create does not look for a pending task.
CreateByTool(u, p) ==
  /\ p \in known /\ Unused
  /\ task' = [task EXCEPT ![NewTask] = [status |-> "PENDING", who |-> p, owner |-> u]]
  /\ extra' = [extra EXCEPT ![u][p] = @ + 1]
  /\ UNCHANGED <<known, desk, dispo, logged, crossed, closings>>

(***************************************************************************)
(* applyDisposition and createOrUpdatePendingTask                          *)
(***************************************************************************)
\* Requests that have found the task open and not ended.
Closing(t) == {d \in Dispositions :
                 dispo[d].task = t /\ dispo[d].step \in {"close", "look", "merge", "commit"}}

\* The task must be PENDING; otherwise the request is answered 404 or 409.
FindTask(d) ==
  /\ dispo[d].step = "find"
  /\ IF task[dispo[d].task].status = "PENDING"
     THEN /\ DispoGoes(d, "find", "close")
          /\ crossed' = [crossed EXCEPT ![dispo[d].task] =
                           IF Closing(dispo[d].task) # {} THEN @ + 1 ELSE @]
     ELSE DispoEnds(d) /\ UNCHANGED crossed
  /\ UNCHANGED <<task, known, desk, logged, closings, extra>>

\* The update by id; a tool creates its follow-up without looking.
CloseTask(d) ==
  /\ DispoGoes(d, "close", IF IsTerminal(d) \/ dispo[d].via = "tool" THEN "commit" ELSE "look")
  /\ MayUpdate(d, dispo[d].task)
  /\ task[dispo[d].task].status # "gone"
  /\ UNCHANGED <<task, known, desk, logged, crossed, closings, extra>>

\* Others of the same user and contact that have looked and not committed.
Unseen(d) == {e \in Dispositions \ {d} :
                /\ dispo[e].user = dispo[d].user /\ dispo[e].who = dispo[d].who
                /\ dispo[e].step \in {"merge", "commit"} /\ ~IsTerminal(e)}

\* Wrong variant: a pending task is not looked for.
LookForNothing(d) ==
  /\ DispoGoes(d, "look", "commit")
  /\ UNCHANGED <<task, known, desk, logged, crossed, closings, extra>>

\* A pending task of this user for this contact, but not the one just closed.
LookForPending(d) ==
  LET x == dispo[d]
      open == Pending(x.user, x.who) \ {x.task}
  IN /\ x.step = "look"
     /\ IF open = {} THEN DispoGoes(d, "look", "commit")
        ELSE \E t \in open : dispo' = [dispo EXCEPT ![d].step = "merge", ![d].found = t]
     /\ extra' = [extra EXCEPT ![x.user][x.who] = IF Unseen(d) # {} THEN @ + 1 ELSE @]
     /\ UNCHANGED <<task, known, desk, logged, crossed, closings>>

\* The update of the pending task; its status is not looked at again.
MergeFollowUp(d) ==
  /\ DispoGoes(d, "merge", "commit")
  /\ MayUpdate(d, dispo[d].found)
  /\ task[dispo[d].found].status # "gone"
  /\ UNCHANGED <<task, known, desk, logged, crossed, closings, extra>>

NeedsTask(d) == dispo[d].found = NoTask /\ ~IsTerminal(d)

\* The transaction commits: the task is closed, a follow-up is there.
CommitDispo(d) ==
  LET x == dispo[d]
      Status == IF IsTerminal(d) THEN "SKIPPED" ELSE "COMPLETED"
      closed == IF x.task = NoTask THEN task ELSE [task EXCEPT ![x.task].status = Status]
  IN /\ x.step = "commit" /\ x.who \in known
     /\ NeedsTask(d) => Unused
     /\ task' = IF NeedsTask(d)
                THEN [closed EXCEPT ![NewTask] =
                        [status |-> "PENDING", who |-> x.who, owner |-> x.user]]
                ELSE closed
     /\ closings' = IF x.task = NoTask THEN closings ELSE [closings EXCEPT ![x.task] = @ + 1]
     /\ extra' = IF x.via = "tool" /\ NeedsTask(d) THEN [extra EXCEPT ![x.user][x.who] = @ + 1]
                 ELSE extra
     /\ DispoEnds(d)
     /\ UNCHANGED <<known, desk, logged, crossed>>

\* The transaction fails: the database or its time limit ends a wait, or a row is gone.
AbortDispo(d) ==
  /\ dispo[d].step \in {"find", "close", "look", "merge", "commit"}
  /\ DispoEnds(d)
  /\ UNCHANGED <<task, known, desk, logged, crossed, closings, extra>>

\* deleteContact: the tasks go with the contact, once no transaction holds them.
DeleteProspect(p) ==
  /\ p \in known
  /\ \A d \in Dispositions : \A t \in Locked(d) \ {NoTask} : task[t].who # p
  /\ known' = known \ {p}
  /\ task' = [t \in TaskIds |-> IF task[t].who = p THEN [task[t] EXCEPT !.status = "gone"]
                                ELSE task[t]]
  /\ UNCHANGED <<desk, dispo, logged, crossed, closings, extra>>

DispoStep(d) ==
  \/ FindTask(d) \/ CloseTask(d) \/ LookForPending(d) \/ MergeFollowUp(d)
  \/ CommitDispo(d) \/ AbortDispo(d)

QueueNext ==
  \/ \E d \in Dispositions : DispoStep(d)
  \/ \E d \in Dispositions, u \in Callers :
       \/ \E outcome \in Outcomes, via \in {"api", "tool"} : LogCall(d, u, outcome, via)
       \/ \E p \in Prospects : ScheduleCall(d, u, p)
  \/ \E u \in Callers :
       \/ \E t \in TaskIds : SelectTask(u, t)
       \/ \E p \in Prospects : CreateByTool(u, p)
  \/ \E p \in Prospects : DeleteProspect(p)

QueueSpec == QueueInit /\ [][QueueNext]_queueVars

(***************************************************************************)
(* Properties.                                                             *)
(***************************************************************************)
\* A user has one pending task for a contact, but for those of the tools and for requests
\* that look for it before another has committed its own (callControllers.ts:64-106).
PendingTwiceOnlyByRace ==
  \A u \in Callers, p \in Prospects : Cardinality(Pending(u, p)) <= 1 + extra[u][p]

\* A call is logged on a task twice only by requests that both found it open before one of
\* them had committed: a page that shows an old list does not do it
\* (callControllers.ts:146-175).
ClosedTwiceOnlyByOverlap == \A t \in TaskIds : closings[t] <= 1 + crossed[t]

\* Both at once: a task is made once and closed once, but for the races named.
TasksOnce == PendingTwiceOnlyByRace /\ ClosedTwiceOnlyByOverlap
=============================================================================
