-------------------------- MODULE CampaignLifecycle --------------------------
(***************************************************************************)
(* One campaign between the API, the MCP tools and the worker: creation    *)
(* with and without recipients, launch, the tools that set the status, and *)
(* the reads that complete a campaign.  A tool looks at the campaign and   *)
(* then writes by id.  The worker is the abstract one of EmailDelivery.    *)
(***************************************************************************)
EXTENDS Integers, FiniteSets

CONSTANTS
  Contacts,        \* addresses; also the contacts a launch finds
  Commands,        \* calls handled at the same time
  MaxRows,         \* bound on the rows of the campaign
  MaxCommands      \* bound on the calls

LifecycleAssumption ==
  /\ IsFiniteSet(Contacts) /\ Contacts # {} /\ IsFiniteSet(Commands)
  /\ MaxRows \in Nat \ {0} /\ MaxCommands \in Nat

ASSUME LifecycleAssumption

VARIABLES
  camp,        \* the campaign's status; "none" before it is created, "deleted" after
  rows,        \* rows[i]: an EmailJob: its address, its status, its queue entry
  bounced,     \* addresses on the suppression list
  followUps,   \* the campaign has a SequenceStep that a tool added
  cmd,         \* cmd[c]: the step of a call, and the status it has seen
  commands     \* counter of the bound

lifecycleVars == <<camp, rows, bounced, followUps, cmd, commands>>

RowIds == 1 .. MaxRows
NoRow == [to |-> "nobody", status |-> "none", entry |-> FALSE]
RowStates == {"PENDING", "SENDING", "SENT", "FAILED", "CANCELLED"}
CampStates == {"SCHEDULED", "SENDING", "PAUSED", "CANCELLED", "COMPLETED"}
Unbegun == [step |-> "idle", saw |-> "none"]
Waiting == {"SCHEDULED", "PAUSED"}
CommandSteps == {"idle", "enqueue", "enqueueAll", "pause", "resume", "cancel", "cancelRows",
                 "launch", "launchRows", "delete", "update", "addStep", "complete"}

LifecycleTypeOK ==
  /\ camp \in CampStates \cup {"none", "deleted"}
  /\ rows \in [RowIds -> [to : Contacts \cup {"nobody"}, status : RowStates \cup {"none"},
                          entry : BOOLEAN]]
  /\ bounced \subseteq Contacts /\ followUps \in BOOLEAN
  /\ cmd \in [Commands -> [step : CommandSteps, saw : CampStates \cup {"none", "deleted"}]]
  /\ commands \in 0 .. MaxCommands

LifecycleInit ==
  /\ camp = "none" /\ rows = [i \in RowIds |-> NoRow]
  /\ bounced \in SUBSET Contacts /\ followUps = FALSE
  /\ cmd = [c \in Commands |-> Unbegun] /\ commands = 0

There == camp \in CampStates
Rows(status) == {i \in RowIds : rows[i].status = status}
Ended == {"COMPLETED", "CANCELLED"}
OpenRows == Rows("PENDING") \cup Rows("SENDING")
FreeRows == Rows("none")
Doing(c, op) == cmd[c].step = op
Then(c, step) == cmd' = [cmd EXCEPT ![c].step = step]
Done(c) == cmd' = [cmd EXCEPT ![c] = Unbegun]
Begin(c) == cmd[c] = Unbegun /\ commands < MaxCommands /\ commands' = commands + 1

\* createMany: a row for each address.
InsertRows(A) ==
  LET f == CHOOSE g \in [A -> FreeRows] : \A a, b \in A : g[a] = g[b] => a = b
  IN /\ Cardinality(FreeRows) >= Cardinality(A)
     /\ rows' = [i \in RowIds |->
          IF \E a \in A : f[a] = i
          THEN [to |-> CHOOSE a \in A : f[a] = i, status |-> "PENDING", entry |-> FALSE]
          ELSE rows[i]]

(***************************************************************************)
(* Creation.                                                               *)
(***************************************************************************)
\* CampaignService.createCampaign: each address once, without those suppressed; nothing is
\* created if none is left.  The rows are committed before they are enqueued.
Create(c, A, next) ==
  /\ Begin(c) /\ camp = "none" /\ A \ bounced # {}
  /\ camp' = "SCHEDULED"
  /\ InsertRows(A \ bounced)
  /\ Then(c, next)
  /\ UNCHANGED <<bounced, followUps>>

\* The API goes on after a failed enqueue, the tool gives up and reports a failure.
EnqueueRow(c, i) ==
  /\ cmd[c].step \in {"enqueue", "enqueueAll"} /\ rows[i].status = "PENDING" /\ ~rows[i].entry
  /\ \/ rows' = [rows EXCEPT ![i].entry = TRUE] /\ UNCHANGED cmd
     \/ Doing(c, "enqueueAll") /\ Done(c) /\ UNCHANGED rows
  /\ UNCHANGED <<camp, bounced, followUps, commands>>

EnqueueEnds(c) ==
  /\ cmd[c].step \in {"enqueue", "enqueueAll"} /\ Done(c)
  /\ UNCHANGED <<camp, rows, bounced, followUps, commands>>

\* campaign_create without recipients.
CreateEmpty(c) ==
  /\ Begin(c) /\ camp = "none"
  /\ camp' = "SCHEDULED" /\ Done(c)
  /\ UNCHANGED <<rows, bounced, followUps>>

(***************************************************************************)
(* What a call looks at.                                                   *)
(***************************************************************************)
\* Wrong variant: a campaign that has ended may be launched again.
MayDoAnyTime(op) ==
  CASE op = "pause" -> camp \in {"SENDING", "SCHEDULED"}
    [] op = "resume" -> camp = "PAUSED"
    [] op = "cancel" -> camp # "COMPLETED"
    [] OTHER -> camp # "SENDING"

MayDo(op) ==
  CASE op = "pause" -> camp \in {"SENDING", "SCHEDULED"}
    [] op = "resume" -> camp = "PAUSED"
    [] op = "cancel" -> camp # "COMPLETED"
    [] op \in {"launch", "update", "addStep"} -> camp \in Waiting
    [] op = "delete" -> camp # "SENDING"
    [] op = "complete" -> camp \in {"SENDING", "SCHEDULED"} /\ OpenRows = {}

\* setCampaignStatus, launchCampaign, deleteCampaign, updateCampaign, upsertSequenceStep,
\* and checkAndCompleteCampaign as getCampaignById, getAllCampaigns and the sweep call it;
\* a launch also counts the PENDING rows.
LookAt(c, op) ==
  /\ Begin(c) /\ There /\ MayDo(op)
  /\ cmd' = [cmd EXCEPT ![c] = [saw |-> camp, step |->
       IF op = "launch" /\ Rows("PENDING") = {} THEN "launchRows" ELSE op]]
  /\ UNCHANGED <<camp, rows, bounced, followUps>>

(***************************************************************************)
(* What it writes, by id; a campaign that is gone makes the call fail.     *)
(***************************************************************************)
SetStatus(c, op, status, next) ==
  /\ Doing(c, op)
  /\ IF There THEN camp' = status /\ Then(c, next) ELSE UNCHANGED camp /\ Done(c)
  /\ UNCHANGED <<rows, bounced, followUps, commands>>

PauseByTool(c) == SetStatus(c, "pause", "PAUSED", "idle")
ResumeByTool(c) == SetStatus(c, "resume", "SCHEDULED", "idle")
CancelByTool(c) == SetStatus(c, "cancel", "CANCELLED", "cancelRows")
LaunchStatus(c) == SetStatus(c, "launch", "SCHEDULED", "idle")

\* Rows that are being sent are settled too.
CancelRows(c) ==
  /\ Doing(c, "cancelRows") /\ Done(c)
  /\ rows' = [i \in RowIds |-> IF i \in OpenRows
                               THEN [rows[i] EXCEPT !.status = "CANCELLED"] ELSE rows[i]]
  /\ UNCHANGED <<camp, bounced, followUps, commands>>

\* A row for every contact, suppressed or not, mailed already or not; nothing is enqueued.
LaunchRows(c) ==
  /\ Doing(c, "launchRows")
  /\ IF There
     THEN InsertRows(Contacts) /\ Then(c, "launch")
     ELSE UNCHANGED rows /\ Done(c)
  /\ UNCHANGED <<camp, bounced, followUps, commands>>

\* The rows of a campaign keep it from being deleted: the tool then reports an error.
DeleteByTool(c) ==
  /\ Doing(c, "delete") /\ Done(c)
  /\ IF There /\ FreeRows = RowIds
     THEN camp' = "deleted" /\ followUps' = FALSE
     ELSE UNCHANGED <<camp, followUps>>
  /\ UNCHANGED <<rows, bounced, commands>>

\* campaign_update changes nothing the model keeps; campaign_sequence_upsert adds a step,
\* and no recipient's state with it.
EditByTool(c) ==
  /\ cmd[c].step \in {"update", "addStep"} /\ Done(c)
  /\ followUps' = IF Doing(c, "addStep") /\ There THEN TRUE ELSE followUps
  /\ UNCHANGED <<camp, rows, bounced, commands>>

\* campaign_sequence_delete, whatever the status.
DeleteStep(c) ==
  /\ Begin(c) /\ There
  /\ followUps' = FALSE
  /\ UNCHANGED <<camp, rows, bounced, cmd>>

\* campaign_recipient_status_update: any status over any other, at any time.
OverrideRow(c, i, status) ==
  /\ Begin(c) /\ There /\ rows[i].status # "none"
  /\ rows' = [rows EXCEPT ![i].status = status]
  /\ UNCHANGED <<camp, bounced, followUps, cmd>>

\* The conditional update at the end of checkAndCompleteCampaign.
CompleteCampaign(c) ==
  /\ Doing(c, "complete") /\ Done(c)
  /\ camp' = IF camp \in {"SENDING", "SCHEDULED"} THEN "COMPLETED" ELSE camp
  /\ UNCHANGED <<rows, bounced, followUps, commands>>

(***************************************************************************)
(* The worker.                                                             *)
(***************************************************************************)
\* An entry is taken: dropped, or the row is claimed and the campaign is SENDING.
TakeRow(i) ==
  /\ rows[i].entry
  /\ IF camp \in {"SCHEDULED", "SENDING", "COMPLETED"} /\ rows[i].status = "PENDING"
     THEN /\ rows' = [rows EXCEPT ![i] = [@ EXCEPT !.entry = FALSE,
                        !.status = IF rows[i].to \in bounced THEN "FAILED" ELSE "SENDING"]]
          /\ camp' = IF camp = "SCHEDULED" THEN "SENDING" ELSE camp
     ELSE rows' = [rows EXCEPT ![i].entry = FALSE] /\ UNCHANGED camp
  /\ UNCHANGED <<bounced, followUps, cmd, commands>>

\* SENT, FAILED, or bounced and FAILED.
SettleRow(i) ==
  /\ rows[i].status = "SENDING"
  /\ \E status \in {"SENT", "FAILED"} : rows' = [rows EXCEPT ![i].status = status]
  /\ \/ rows'[i].status = "FAILED" /\ bounced' = bounced \cup {rows[i].to}
     \/ UNCHANGED bounced
  /\ UNCHANGED <<camp, followUps, cmd, commands>>

\* The worker's own completion check leaves campaigns with steps alone.
WorkerCompletes ==
  /\ camp \in {"SENDING", "SCHEDULED"} /\ OpenRows = {} /\ ~followUps
  /\ \E i \in RowIds : rows[i].status \in {"SENT", "FAILED"}
  /\ camp' = "COMPLETED"
  /\ UNCHANGED <<rows, bounced, followUps, cmd, commands>>

\* syncPendingJobs at the start of the worker process, of whatever campaign.
SyncRows ==
  /\ \E i \in Rows("PENDING") : ~rows[i].entry
  /\ rows' = [i \in RowIds |-> [rows[i] EXCEPT !.entry = @ \/ rows[i].status = "PENDING"]]
  /\ UNCHANGED <<camp, bounced, followUps, cmd, commands>>

LookingOps == {"pause", "resume", "cancel", "launch", "delete", "update", "addStep", "complete"}

CommandStep(c) ==
  \/ \E A \in SUBSET Contacts, next \in {"enqueue", "enqueueAll"} : Create(c, A, next)
  \/ CreateEmpty(c) \/ EnqueueEnds(c)
  \/ \E i \in RowIds : EnqueueRow(c, i)
  \/ \E op \in LookingOps : LookAt(c, op)
  \/ PauseByTool(c) \/ ResumeByTool(c) \/ CancelByTool(c) \/ CancelRows(c)
  \/ LaunchStatus(c) \/ LaunchRows(c) \/ DeleteByTool(c) \/ EditByTool(c) \/ DeleteStep(c)
  \/ CompleteCampaign(c)
  \/ \E i \in RowIds, status \in RowStates : OverrideRow(c, i, status)

LifecycleNext ==
  \/ \E c \in Commands : CommandStep(c)
  \/ \E i \in RowIds : TakeRow(i) \/ SettleRow(i)
  \/ WorkerCompletes \/ SyncRows

LifecycleSpec == LifecycleInit /\ [][LifecycleNext]_lifecycleVars

(***************************************************************************)
(* Properties.                                                             *)
(***************************************************************************)
\* A campaign that has ended goes on only by a call that another one has overtaken: one
\* that saw it before it ended, and writes by id what it decided then.  No call that
\* begins later, no worker, no sweep and no restart revives it (campaignOps.ts:66-86,
\* campaigns.ts:271-333, index.ts:137-172, queries.ts:59-63).
RevivedOnlyByOvertaken ==
  [][(camp \in Ended /\ There' /\ camp' \notin Ended) =>
       \E c \in Commands : cmd'[c] # cmd[c] /\ cmd[c].saw \in CampStates \ Ended]_lifecycleVars
=============================================================================
