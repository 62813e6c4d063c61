-------------------------- MODULE MailServices_proofs --------------------------
(***************************************************************************)
(* Four components around the delivery of mails: who may revive a campaign *)
(* that has ended (CampaignLifecycle), what a sender that comes and goes   *)
(* does to the mails (SenderAccounts), what is recorded of a reply         *)
(* (ReplyDetector), and when mails leave (SendTiming), for any number of   *)
(* calls, recipients, senders, scans and replies and any hours and days.   *)
(***************************************************************************)
EXTENDS CampaignLifecycle, SenderAccounts, ReplyDetector, SendTiming, WellFoundedInduction, TLAPS

(***************************************************************************)
(* CampaignLifecycle.                                                      *)
(***************************************************************************)
\* A call that will set the campaign going, or on hold, has seen it before it ended.
SawItGoing ==
  \A c \in Commands :
    cmd[c].step \in {"pause", "resume", "launch", "launchRows"} => cmd[c].saw \in CampStates \ Ended

\* A row has an address.
RowsAreAddressed == \A i \in RowIds : rows[i].status # "none" => rows[i].to \in Contacts

LifecycleInv == LifecycleTypeOK /\ SawItGoing /\ RowsAreAddressed

\* What LookAt lets pass.
LEMMA LooksWhileItGoes ==
  ASSUME NEW op \in {"pause", "resume", "launch"}, MayDo(op)
  PROVE  camp \in CampStates \ Ended
  BY DEF MayDo, Waiting, CampStates, Ended

\* New rows go to the addresses they are made for.
LEMMA InsertTyped ==
  ASSUME LifecycleTypeOK, RowsAreAddressed, NEW A \in SUBSET Contacts, InsertRows(A)
  PROVE  /\ rows' \in [RowIds -> [to : Contacts \cup {"nobody"}, status : RowStates \cup {"none"},
                                  entry : BOOLEAN]]
         /\ RowsAreAddressed'
  <1>. DEFINE f == CHOOSE g \in [A -> FreeRows] : \A a, b \in A : g[a] = g[b] => a = b
              row(i) == IF \E a \in A : f[a] = i
                        THEN [to |-> CHOOSE a \in A : f[a] = i, status |-> "PENDING", entry |-> FALSE]
                        ELSE rows[i]
  <1>1. rows' = [i \in RowIds |-> row(i)]
    BY DEF InsertRows
  <1>2. ASSUME NEW i \in RowIds
        PROVE  /\ row(i) \in [to : Contacts \cup {"nobody"}, status : RowStates \cup {"none"},
                              entry : BOOLEAN]
               /\ row(i).status # "none" => row(i).to \in Contacts
    <2>. HIDE DEF f
    <2>1. CASE \E a \in A : f[a] = i
      <3>1. (CHOOSE a \in A : f[a] = i) \in Contacts
        BY <2>1
      <3>. QED
        BY <2>1, <3>1 DEF RowStates
    <2>2. CASE ~\E a \in A : f[a] = i
      BY <2>2 DEF LifecycleTypeOK, RowsAreAddressed
    <2>. QED
      BY <2>1, <2>2
  <1>. HIDE DEF row
  <1>. QED
    BY <1>1, <1>2 DEF RowsAreAddressed

LEMMA LifecycleStep ==
  ASSUME LifecycleInv, [LifecycleNext]_lifecycleVars
  PROVE  LifecycleInv'
  <1>. USE LifecycleAssumption DEF LifecycleAssumption, LifecycleInv, LifecycleTypeOK, SawItGoing,
       RowsAreAddressed, There
  <1>. DEFINE Row == [to : Contacts \cup {"nobody"}, status : RowStates \cup {"none"}, entry : BOOLEAN]
  <1>1. CASE UNCHANGED lifecycleVars
    BY <1>1 DEF lifecycleVars
  <1>2. ASSUME NEW c \in Commands, CommandStep(c)
        PROVE  LifecycleInv'
    <2>. USE DEF Begin, Then, Done, Doing, Unbegun, CommandSteps, SetStatus, CampStates
    <2>1. ASSUME NEW A \in SUBSET Contacts, NEW next \in {"enqueue", "enqueueAll"}, Create(c, A, next)
          PROVE  LifecycleInv'
      <3>1. rows' \in [RowIds -> Row] /\ RowsAreAddressed'
        BY <2>1, InsertTyped DEF Create
      <3>2. commands' \in 0 .. MaxCommands
        BY <2>1 DEF Create
      <3>3. cmd' = [cmd EXCEPT ![c].step = next] /\ camp' = "SCHEDULED" /\ UNCHANGED <<bounced, followUps>>
        BY <2>1 DEF Create
      <3>4. /\ cmd' \in [Commands -> [step : CommandSteps, saw : CampStates \cup {"none", "deleted"}]]
            /\ cmd'[c].step = next /\ \A d \in Commands \ {c} : cmd'[d] = cmd[d]
        BY <3>3
      <3>5. SawItGoing'
        BY <3>4
      <3>. QED
        BY <3>1, <3>2, <3>3, <3>4, <3>5
    <2>2. ASSUME CreateEmpty(c) \/ EnqueueEnds(c)
          PROVE  LifecycleInv'
      BY <2>2 DEF CreateEmpty, EnqueueEnds
    <2>3. ASSUME NEW i \in RowIds, EnqueueRow(c, i)
          PROVE  LifecycleInv'
      <3>1. CASE rows' = [rows EXCEPT ![i].entry = TRUE] /\ UNCHANGED cmd
        <4>1. PICK x \in Row : x = rows[i]
          OBVIOUS
        <4>2. PICK y : y = [x EXCEPT !.entry = TRUE]
          OBVIOUS
        <4>y. y \in Row /\ y.to = x.to /\ y.status = x.status
          BY <4>2
        <4>3. rows' = [rows EXCEPT ![i] = y]
          BY <3>1, <4>1, <4>2
        <4>4. /\ rows' \in [RowIds -> Row]
              /\ \A k \in RowIds : rows'[k].to = rows[k].to /\ rows'[k].status = rows[k].status
          BY <4>1, <4>y, <4>3
        <4>5. RowsAreAddressed'
          BY <4>4
        <4>6. UNCHANGED <<camp, bounced, followUps, commands>>
          BY <2>3 DEF EnqueueRow
        <4>. QED
          BY <3>1, <4>4, <4>5, <4>6
      <3>2. CASE Done(c) /\ UNCHANGED rows
        BY <2>3, <3>2 DEF EnqueueRow
      <3>. QED
        BY <2>3, <3>1, <3>2 DEF EnqueueRow
    <2>4. ASSUME NEW op \in LookingOps, LookAt(c, op)
          PROVE  LifecycleInv'
      <3>1. camp \in CampStates /\ (op \in {"pause", "resume", "launch"} => camp \in CampStates \ Ended)
        BY <2>4, LooksWhileItGoes DEF LookAt
      <3>2. cmd'[c].step \in {op, "launchRows"} /\ (cmd'[c].step # op => op = "launch")
            /\ cmd'[c].saw = camp /\ \A d \in Commands \ {c} : cmd'[d] = cmd[d]
        BY <2>4 DEF LookAt
      <3>3. cmd' \in [Commands -> [step : CommandSteps, saw : CampStates \cup {"none", "deleted"}]]
        BY <2>4, <3>1 DEF LookAt, LookingOps
      <3>. QED
        BY <2>4, <3>1, <3>2, <3>3 DEF LookAt, LookingOps
    <2>5. ASSUME PauseByTool(c) \/ ResumeByTool(c) \/ CancelByTool(c) \/ LaunchStatus(c)
          PROVE  LifecycleInv'
      BY <2>5 DEF PauseByTool, ResumeByTool, CancelByTool, LaunchStatus
    <2>6. ASSUME CancelRows(c)
          PROVE  LifecycleInv'
      <3>1. rows' \in [RowIds -> Row] /\ RowsAreAddressed'
        <4>1. rows' = [i \in RowIds |-> IF i \in OpenRows THEN [rows[i] EXCEPT !.status = "CANCELLED"] ELSE rows[i]]
          BY <2>6 DEF CancelRows
        <4>2. ASSUME NEW i \in RowIds
              PROVE  rows'[i] \in Row /\ (rows'[i].status # "none" => rows'[i].to \in Contacts)
          <5>1. PICK x \in Row : x = rows[i]
            OBVIOUS
          <5>2. [x EXCEPT !.status = "CANCELLED"] \in Row
            BY DEF RowStates
          <5>3. x.status # "none" => x.to \in Contacts
            BY <5>1
          <5>4. i \in OpenRows => x.status # "none"
            BY <5>1 DEF OpenRows, Rows
          <5>5. rows'[i] = IF i \in OpenRows THEN [x EXCEPT !.status = "CANCELLED"] ELSE x
            BY <4>1, <5>1
          <5>. QED
            BY <5>2, <5>3, <5>4, <5>5
        <4>. QED
          BY <4>1, <4>2
      <3>. QED
        BY <2>6, <3>1 DEF CancelRows
    <2>7. ASSUME LaunchRows(c)
          PROVE  LifecycleInv'
      <3>1. rows' \in [RowIds -> Row] /\ RowsAreAddressed'
        BY <2>7, InsertTyped DEF LaunchRows
      <3>. QED
        BY <2>7, <3>1 DEF LaunchRows
    <2>8. ASSUME DeleteByTool(c) \/ EditByTool(c) \/ DeleteStep(c) \/ CompleteCampaign(c)
          PROVE  LifecycleInv'
      <3>1. CASE DeleteByTool(c)
        BY <3>1 DEF DeleteByTool
      <3>2. CASE EditByTool(c)
        BY <3>2 DEF EditByTool
      <3>3. CASE DeleteStep(c)
        <4>1. commands' \in 0 .. MaxCommands
          BY <3>3 DEF DeleteStep
        <4>2. followUps' = FALSE /\ UNCHANGED <<camp, rows, bounced, cmd>>
          BY <3>3 DEF DeleteStep
        <4>. QED
          BY <4>1, <4>2
      <3>4. CASE CompleteCampaign(c)
        BY <3>4 DEF CompleteCampaign
      <3>. QED
        BY <2>8, <3>1, <3>2, <3>3, <3>4
    <2>9. ASSUME NEW i \in RowIds, NEW status \in RowStates, OverrideRow(c, i, status)
          PROVE  LifecycleInv'
      BY <2>9 DEF OverrideRow
    <2>. QED
      BY <1>2, <2>1, <2>2, <2>3, <2>4, <2>5, <2>6, <2>7, <2>8, <2>9 DEF CommandStep
  <1>3. ASSUME NEW i \in RowIds, TakeRow(i) \/ SettleRow(i)
        PROVE  LifecycleInv'
    <2>1. CASE TakeRow(i)
      <3>1. /\ rows'[i] \in Row /\ rows'[i].to = rows[i].to
            /\ rows'[i].status = "none" <=> rows[i].status = "none"
        <4>1. CASE camp \in {"SCHEDULED", "SENDING", "COMPLETED"} /\ rows[i].status = "PENDING"
          <5>1. PICK status \in {"FAILED", "SENDING"} :
                  rows' = [rows EXCEPT ![i] = [@ EXCEPT !.entry = FALSE, !.status = status]]
            BY <2>1, <4>1 DEF TakeRow
          <5>2. rows'[i] = [rows[i] EXCEPT !.entry = FALSE, !.status = status]
            BY <5>1
          <5>3. PICK x \in Row : x = rows[i]
            OBVIOUS
          <5>4. PICK y : y = [x EXCEPT !.entry = FALSE, !.status = status]
            OBVIOUS
          <5>5. y \in Row /\ y.to = x.to /\ y.status = status
            BY <5>4 DEF RowStates
          <5>. QED
            BY <4>1, <5>2, <5>3, <5>4, <5>5
        <4>2. CASE ~(camp \in {"SCHEDULED", "SENDING", "COMPLETED"} /\ rows[i].status = "PENDING")
          <5>1. rows' = [rows EXCEPT ![i].entry = FALSE]
            BY <2>1, <4>2 DEF TakeRow
          <5>. QED
            BY <5>1
        <4>. QED
          BY <4>1, <4>2
      <3>2. rows' \in [RowIds -> Row] /\ \A k \in RowIds \ {i} : rows'[k] = rows[k]
        <4>1. rows' = [rows EXCEPT ![i] = rows'[i]]
          BY <2>1 DEF TakeRow
        <4>. QED
          BY <3>1, <4>1
      <3>3. RowsAreAddressed'
        BY <3>1, <3>2
      <3>. QED
        BY <2>1, <3>2, <3>3 DEF TakeRow, CampStates
    <2>2. CASE SettleRow(i)
      <3>1. rows' \in [RowIds -> Row] /\ bounced' \subseteq Contacts
        <4>1. PICK status \in {"SENT", "FAILED"} : rows' = [rows EXCEPT ![i].status = status]
          BY <2>2 DEF SettleRow
        <4>2. rows[i].to \in Contacts
          BY <2>2 DEF SettleRow
        <4>. QED
          BY <2>2, <4>1, <4>2 DEF SettleRow, RowStates
      <3>2. RowsAreAddressed'
        BY <2>2 DEF SettleRow
      <3>. QED
        BY <2>2, <3>1, <3>2 DEF SettleRow
    <2>. QED
      BY <1>3, <2>1, <2>2
  <1>4. CASE WorkerCompletes \/ SyncRows
    <2>1. CASE WorkerCompletes
      BY <2>1 DEF WorkerCompletes, CampStates
    <2>2. CASE SyncRows
      <3>1. ASSUME NEW i \in RowIds
            PROVE  [rows[i] EXCEPT !.entry = @ \/ rows[i].status = "PENDING"] \in Row
        <4>1. PICK x \in Row : x = rows[i]
          OBVIOUS
        <4>2. [x EXCEPT !.entry = @ \/ x.status = "PENDING"] \in Row
          OBVIOUS
        <4>. QED
          BY <4>1, <4>2
      <3>2. rows' \in [RowIds -> Row]
        BY <2>2, <3>1 DEF SyncRows
      <3>. QED
        BY <2>2, <3>2 DEF SyncRows
    <2>. QED
      BY <1>4, <2>1, <2>2
  <1>. QED
    BY <1>1, <1>2, <1>3, <1>4 DEF LifecycleNext

LEMMA LifecycleStarts == LifecycleInit => LifecycleInv
  <1>. SUFFICES ASSUME LifecycleInit PROVE LifecycleInv
    OBVIOUS
  <1>1. rows \in [RowIds -> [to : Contacts \cup {"nobody"}, status : RowStates \cup {"none"},
                             entry : BOOLEAN]]
    BY DEF LifecycleInit, NoRow
  <1>2. /\ cmd \in [Commands -> [step : CommandSteps, saw : CampStates \cup {"none", "deleted"}]]
        /\ \A c \in Commands : cmd[c].step = "idle"
    BY DEF LifecycleInit, Unbegun, CommandSteps
  <1>3. camp \in CampStates \cup {"none", "deleted"} /\ bounced \subseteq Contacts
    BY DEF LifecycleInit
  <1>4. commands \in 0 .. MaxCommands
    BY LifecycleAssumption DEF LifecycleAssumption, LifecycleInit
  <1>5. followUps \in BOOLEAN
    BY Zenon DEF LifecycleInit
  <1>6. RowsAreAddressed
    BY DEF LifecycleInit, NoRow, RowsAreAddressed
  <1>. QED
    BY <1>1, <1>2, <1>3, <1>4, <1>5, <1>6 DEF LifecycleInv, LifecycleTypeOK, SawItGoing

LEMMA LifecycleInvKept == LifecycleSpec => []LifecycleInv
  BY LifecycleStarts, LifecycleStep, PTL DEF LifecycleSpec

\* Every variable keeps its type.
THEOREM LifecycleTypeCorrect == LifecycleSpec => []LifecycleTypeOK
  <1>1. LifecycleInv => LifecycleTypeOK
    BY DEF LifecycleInv
  <1>. QED
    BY <1>1, LifecycleInvKept, PTL

\* Only calls move a campaign that has ended, and those among them that write a status that
\* goes on have seen the campaign before its end.
LEMMA RevivingStep ==
  ASSUME LifecycleInv, LifecycleNext, camp \in Ended, There', camp' \notin Ended
  PROVE  \E c \in Commands : cmd'[c] # cmd[c] /\ cmd[c].saw \in CampStates \ Ended
  <1>. USE DEF LifecycleInv, LifecycleTypeOK, SawItGoing, Ended, There, CampStates
  <1>1. ~ \E i \in RowIds : TakeRow(i) \/ SettleRow(i)
    BY DEF TakeRow, SettleRow
  <1>2. ~(WorkerCompletes \/ SyncRows)
    BY DEF WorkerCompletes, SyncRows
  <1>3. PICK c \in Commands : CommandStep(c)
    BY <1>1, <1>2 DEF LifecycleNext
  <1>4. PauseByTool(c) \/ ResumeByTool(c) \/ LaunchStatus(c)
    BY <1>3 DEF CommandStep, Create, CreateEmpty, EnqueueEnds, EnqueueRow, LookAt, CancelByTool,
       SetStatus, CancelRows, LaunchRows, DeleteByTool, EditByTool, DeleteStep, CompleteCampaign,
       OverrideRow
  <1>5. cmd[c].step \in {"pause", "resume", "launch"} /\ cmd'[c].step = "idle"
    BY <1>4 DEF PauseByTool, ResumeByTool, LaunchStatus, SetStatus, Doing, Then, Done, Unbegun
  <1>. QED
    BY <1>5

\* Whatever calls, workers, sweeps and restarts interleave, an ended campaign is revived only
\* by a call that saw it before it ended (campaignOps.ts:66-86, campaigns.ts:271-333).
THEOREM RevivedOnlyByOvertakenCorrect == LifecycleSpec => RevivedOnlyByOvertaken
  <1>1. ASSUME LifecycleInv, [LifecycleNext]_lifecycleVars
        PROVE  [(camp \in Ended /\ There' /\ camp' \notin Ended) =>
                  \E c \in Commands : cmd'[c] # cmd[c] /\ cmd[c].saw \in CampStates \ Ended]_lifecycleVars
    BY <1>1, RevivingStep
  <1>. QED
    BY <1>1, LifecycleInvKept, PTL DEF LifecycleSpec, RevivedOnlyByOvertaken

(***************************************************************************)
(* SenderAccounts: the ids of senders are not used again, a call that has  *)
(* read a verified sender finds it verified or gone, and what has passed   *)
(* the test of the mail server has been tested.                            *)
(***************************************************************************)
OldIds == 0 .. made
FreshIsEmpty == \A s \in Senders : s > made => sender[s] = NoSender

IdsAreOld ==
  /\ mailing.main \in OldIds /\ mailing.pool \subseteq OldIds \ {0}
  /\ \A r \in Recipients : mailRow[r].s \in OldIds /\ reading[r].own \in OldIds /\ reading[r].main \in OldIds

VerifiedIsTested ==
  \A s \in Senders : sender[s].verified => sender[s].password = "tested" /\ sender[s].warmup

CallSound(c) ==
  /\ c.s \in OldIds /\ c.pool \subseteq OldIds \ {0}
  /\ c.step \in {"insert", "conflict", "upgrade", "save"} => c.password = "tested"
  /\ c.step \in {"upgrade", "save", "retest"} => c.s # 0
  /\ c.verified => c.step \in {"retest", "save"} /\ (SenderThere(c.s) => sender[c.s].verified)
  /\ \A s \in c.pool : SenderThere(s) => sender[s].verified

CallIsTested == \A h \in SenderCalls : CallSound(call[h])

ReadIsTested ==
  \A r \in Recipients :
    reading[r].step = "senders" /\ reading[r].verified => reading[r].password = "tested"

TestedInv ==
  /\ SendersTypeOK /\ FreshIsEmpty /\ IdsAreOld /\ VerifiedIsTested /\ CallIsTested
  /\ ReadIsTested /\ sentWith \subseteq {"tested"}

(***************************************************************************)
(* A row that is not excused has a verified sender while its campaign goes *)
(* on, and so has what a worker has read of it, or the worker will see     *)
(* that a sender it has read is gone.                                      *)
(***************************************************************************)
Ready(own, main) == LET s == Resolved(own, main) IN s # 0 /\ sender[s].verified
NothingBefore ==
  mailing.status = "none" =>
    \A r \in Recipients : mailRow[r].status = "none" /\ reading[r].step = "idle"

GoingIsReady ==
  Going(mailing) => \A r \in StillWaiting(mailRow) \ excused : Ready(mailRow[r].s, mailing.main)

OwnIsNoticed ==
  \A r \in StillWaiting(mailRow) \ excused : mailRow[r].s \in mailing.pool \cup {mailing.main, 0}

RowReadIsReady ==
  \A r \in Recipients \ excused : reading[r].step = "row" =>
    \/ ~({reading[r].own, reading[r].main} \ {0} \subseteq Connected)
    \/ Ready(reading[r].own, reading[r].main)

SendersReadIsVerified ==
  \A r \in Recipients \ excused : reading[r].step = "senders" => reading[r].verified

ExcusedInv ==
  /\ NothingBefore /\ GoingIsReady /\ OwnIsNoticed /\ RowReadIsReady /\ SendersReadIsVerified
  /\ FailsOnlyIfLetGo

SenderRec == [of : Addresses \cup {NoAddress}, verified : BOOLEAN, password : Passwords, warmup : BOOLEAN]
CallRec ==
  [step : {"idle", "test", "retest", "insert", "conflict", "upgrade", "save", "create", "campaign"},
   of : Addresses \cup {NoAddress}, s : 0..MaxSenders, verified : BOOLEAN, password : Passwords,
   pool : SUBSET Senders]
MailingRec ==
  [status : {"none", "SCHEDULED", "SENDING", "PAUSED"}, main : 0..MaxSenders, pool : SUBSET Senders,
   elsewhere : BOOLEAN]
MailRowRec == [status : {"none", "PENDING", "SENT", "FAILED"}, s : 0..MaxSenders]
ReadingRec ==
  [step : {"idle", "row", "senders"}, own : 0..MaxSenders, main : 0..MaxSenders, verified : BOOLEAN,
   password : Passwords]

\* The steps of a call that leave the campaign alone, and those of everyone.
AccountStep ==
  \/ \E a \in Addresses : Onboard(a)
  \/ \E h \in SenderCalls :
       \/ TestLogin(h) \/ InsertSender(h) \/ OnConflict(h) \/ SaveLogin(h) \/ ToolCreates(h)
       \/ \E a \in Addresses : ConnectSender(h, a) \/ ToolLooks(h, a)
       \/ \E s \in Senders : VerifySender(h, s)
       \/ \E pool \in SUBSET Senders : CheckPool(h, pool)

LEMMA EmptyTyped ==
  /\ NoSender \in SenderRec /\ NoCall \in CallRec /\ Unread \in ReadingRec
  /\ ~NoSender.verified /\ ~NoCall.verified /\ ~Unread.verified
  /\ NoCall.step = "idle" /\ NoCall.s = 0 /\ NoCall.pool = {}
  /\ Unread.step = "idle" /\ Unread.own = 0 /\ Unread.main = 0
  BY SendersAssumption DEF SendersAssumption, SenderRec, CallRec, ReadingRec, NoSender, NoCall, Unread,
     Passwords, Senders

\* A sender is made, saved with tested credentials, or all stay as they are.
Makes == \E rec \in SenderRec : Make(rec) /\ (rec.verified => rec.password = "tested" /\ rec.warmup)
Saves ==
  \E s \in Senders :
    /\ SenderThere(s) /\ UNCHANGED made
    /\ sender' = [sender EXCEPT ![s].verified = TRUE, ![s].password = "tested", ![s].warmup = TRUE]
SendersGrow == Makes \/ Saves \/ UNCHANGED <<sender, made>>

LEMMA SendersGrowStep ==
  ASSUME TestedInv, AccountStep
  PROVE  SendersGrow
  <1>. USE DEF TestedInv, SendersGrow
  <1>t. sender \in [Senders -> SenderRec] /\ call \in [SenderCalls -> CallRec]
    BY DEF SenderRec, CallRec, SendersTypeOK
  <1>0. ASSUME NEW a \in Addresses \cup {NoAddress}, Make([NoSender EXCEPT !.of = a])
        PROVE  Makes
    <2>1. [NoSender EXCEPT !.of = a] \in SenderRec /\ ~[NoSender EXCEPT !.of = a].verified
      BY DEF NoSender, SenderRec, Passwords
    <2>. QED
      BY <1>0, <2>1 DEF Makes
  <1>1. ASSUME NEW a \in Addresses, Onboard(a)
        PROVE  SendersGrow
    BY <1>0, <1>1 DEF Onboard
  <1>2. ASSUME NEW h \in SenderCalls, InsertSender(h)
        PROVE  SendersGrow
    <2>1. CASE OfAddress(call[h].of) = {}
      <3>. DEFINE rec == [of |-> call[h].of, verified |-> TRUE, password |-> call[h].password,
                          warmup |-> TRUE]
      <3>1. rec \in SenderRec /\ rec.password = "tested" /\ rec.warmup
        BY <1>2, <1>t DEF InsertSender, CallIsTested, CallSound, CallRec, SenderRec
      <3>2. Make(rec)
        BY <1>2, <2>1 DEF InsertSender
      <3>. QED
        BY <3>1, <3>2 DEF Makes
    <2>2. CASE OfAddress(call[h].of) # {}
      BY <1>2, <2>2 DEF InsertSender
    <2>. QED
      BY <2>1, <2>2
  <1>3. ASSUME NEW h \in SenderCalls, SaveLogin(h)
        PROVE  SendersGrow
    <2>1. PICK s \in 0 .. MaxSenders : s = call[h].s
      BY <1>t DEF CallRec
    <2>2. CASE ~SenderThere(s)
      BY <1>3, <2>1, <2>2 DEF SaveLogin
    <2>3. CASE SenderThere(s)
      <3>1. s \in Senders /\ call[h].password = "tested"
        BY <1>3, <2>1, <2>3, SendersAssumption
           DEF SaveLogin, SenderThere, CallIsTested, CallSound, Senders, SendersAssumption
      <3>2. sender' = [sender EXCEPT ![s].verified = TRUE, ![s].password = "tested",
                                     ![s].warmup = @ \/ ~call[h].verified]
        BY <1>3, <2>1, <2>3, <3>1 DEF SaveLogin
      <3>3. (sender[s].warmup \/ ~call[h].verified) = TRUE
        <4>1. sender[s].warmup \in BOOLEAN /\ call[h].verified \in BOOLEAN
          BY <1>t, <3>1 DEF SenderRec, CallRec
        <4>2. call[h].verified => sender[s].verified
          BY <2>1, <2>3 DEF CallIsTested, CallSound
        <4>3. sender[s].verified => sender[s].warmup
          BY <3>1 DEF VerifiedIsTested
        <4>. QED
          BY <4>1, <4>2, <4>3
      <3>4. sender' = [sender EXCEPT ![s].verified = TRUE, ![s].password = "tested",
                                     ![s].warmup = TRUE]
        BY <3>2, <3>3, <1>t DEF SenderRec
      <3>. QED
        BY <1>3, <2>3, <3>1, <3>4 DEF Saves, SaveLogin
    <2>. QED
      BY <2>2, <2>3
  <1>4. ASSUME NEW h \in SenderCalls, ToolCreates(h)
        PROVE  SendersGrow
    <2>1. call[h].of \in Addresses \cup {NoAddress}
      BY <1>t DEF CallRec
    <2>. QED
      BY <1>0, <1>4, <2>1 DEF ToolCreates
  <1>5. ASSUME NEW h \in SenderCalls,
               \/ TestLogin(h) \/ OnConflict(h)
               \/ \E a \in Addresses : ConnectSender(h, a) \/ ToolLooks(h, a)
               \/ \E s \in Senders : VerifySender(h, s)
               \/ \E pool \in SUBSET Senders : CheckPool(h, pool)
        PROVE  SendersGrow
    BY <1>5 DEF TestLogin, OnConflict, ConnectSender, ToolLooks, VerifySender, CheckPool
  <1>. QED
    BY <1>1, <1>2, <1>3, <1>4, <1>5 DEF AccountStep

\* How senders age: an id that was given away is not given again, and who is verified
\* stays so.
Ages ==
  /\ made' \in made .. MaxSenders
  /\ \A s \in OldIds : SenderThere(s)' => SenderThere(s) /\ (sender[s].verified => sender'[s].verified)
Stay == \A s \in OldIds : SenderThere(s) => SenderThere(s)'

LEMMA GrowingAges ==
  ASSUME TestedInv, SendersGrow
  PROVE  /\ sender' \in [Senders -> SenderRec]
         /\ Ages /\ Stay /\ FreshIsEmpty' /\ VerifiedIsTested'
  <1>. USE SendersAssumption DEF SendersAssumption, Senders, Stay, Ages, SenderThere, OldIds, TestedInv
  <1>t. sender \in [Senders -> SenderRec] /\ made \in 0 .. MaxSenders
    BY DEF SenderRec, SendersTypeOK
  <1>1. CASE Makes
    <2>1. PICK rec \in SenderRec : Make(rec) /\ (rec.verified => rec.password = "tested" /\ rec.warmup)
      BY <1>1 DEF Makes
    <2>2. sender' \in [Senders -> SenderRec] /\ made' = made + 1 /\ made' \in Senders
          /\ sender' = [sender EXCEPT ![made + 1] = rec]
      BY <1>t, <2>1 DEF Make
    <2>3. FreshIsEmpty'
      BY <1>t, <2>2 DEF FreshIsEmpty
    <2>4. VerifiedIsTested'
      BY <1>t, <2>1, <2>2 DEF VerifiedIsTested
    <2>. QED
      BY <1>t, <2>2, <2>3, <2>4
  <1>2. CASE Saves
    <2>1. PICK s \in Senders :
            /\ SenderThere(s) /\ UNCHANGED made
            /\ sender' = [sender EXCEPT ![s].verified = TRUE, ![s].password = "tested", ![s].warmup = TRUE]
      BY <1>2 DEF Saves
    <2>2. sender' \in [Senders -> SenderRec] /\ sender'[s].verified /\ sender'[s].warmup
          /\ sender'[s].password = "tested" /\ \A x \in Senders \ {s} : sender'[x] = sender[x]
      <3>1. PICK x \in SenderRec : x = sender[s]
        BY <1>t
      <3>2. PICK y : y = [x EXCEPT !.verified = TRUE, !.password = "tested", !.warmup = TRUE]
        OBVIOUS
      <3>3. y \in SenderRec /\ y.verified /\ y.warmup /\ y.password = "tested"
        BY <3>2 DEF SenderRec, Passwords
      <3>4. sender' = [sender EXCEPT ![s] = y]
        BY <1>t, <2>1, <3>1, <3>2 DEF SenderRec
      <3>. QED
        BY <1>t, <3>3, <3>4
    <2>3. sender'[s] # NoSender
      BY <2>2, EmptyTyped
    <2>4. s <= made
      BY <1>t, <2>1 DEF FreshIsEmpty
    <2>5. FreshIsEmpty' /\ VerifiedIsTested'
      BY <2>1, <2>2, <2>4 DEF FreshIsEmpty, VerifiedIsTested
    <2>6. made' \in made .. MaxSenders
      BY <1>t, <2>1
    <2>7. \A x \in OldIds : SenderThere(x)' <=> SenderThere(x)
      <3>. SUFFICES ASSUME NEW x \in OldIds, x # 0 PROVE sender'[x] # NoSender <=> sender[x] # NoSender
        OBVIOUS
      <3>1. x \in Senders
        BY <1>t
      <3>2. CASE x = s
        BY <2>1, <2>3, <3>2
      <3>3. CASE x # s
        BY <2>2, <3>1, <3>3
      <3>. QED
        BY <3>2, <3>3
    <2>8. \A x \in OldIds : SenderThere(x) /\ sender[x].verified => sender'[x].verified
      BY <1>t, <2>2
    <2>. QED
      BY <2>2, <2>5, <2>6, <2>7, <2>8
  <1>3. CASE UNCHANGED <<sender, made>>
    BY <1>t, <1>3 DEF FreshIsEmpty, VerifiedIsTested
  <1>. QED
    BY <1>1, <1>2, <1>3 DEF SendersGrow

LEMMA CallAges ==
  ASSUME TestedInv, Ages, NEW c \in CallRec, CallSound(c)
  PROVE  CallSound(c)'
  BY SendersAssumption DEF SendersAssumption, TestedInv, SendersTypeOK, CallSound, Ages, OldIds, CallRec

\* A call of an account keeps to what it may.
LEMMA AccountCallStep ==
  ASSUME TestedInv, AccountStep
  PROVE  call' \in [SenderCalls -> CallRec] /\ CallIsTested' /\ UNCHANGED mailingVars
  <1>. USE DEF TestedInv
  <1>t. sender \in [Senders -> SenderRec] /\ call \in [SenderCalls -> CallRec] /\ made \in 0 .. MaxSenders
    BY DEF SenderRec, CallRec, SendersTypeOK
  <1>a. Ages /\ Stay
    BY SendersGrowStep, GrowingAges
  <1>e. CallSound(NoCall)'
    BY <1>a, <1>t, EmptyTyped, SendersAssumption DEF CallSound, Ages, OldIds, SendersAssumption
  <1>s. \A s \in Senders : SenderThere(s) => s \in OldIds \ {0}
    BY <1>t, SendersAssumption DEF SenderThere, FreshIsEmpty, OldIds, Senders, SendersAssumption
  <1>o. ASSUME NEW h \in SenderCalls, NEW c \in CallRec, CallSound(c) \/ CallSound(c)',
               call' = [call EXCEPT ![h] = c]
        PROVE  call' \in [SenderCalls -> CallRec] /\ CallIsTested'
    <2>1. CallSound(c)'
      BY <1>o, <1>a, CallAges
    <2>2. ASSUME NEW g \in SenderCalls
          PROVE  CallSound(call[g])'
      <3>1. CASE g = h
        <4>1. call'[g] = c
          BY <1>o, <1>t, <3>1
        <4>. QED
          BY <2>1, <4>1 DEF CallSound
      <3>2. CASE g # h
        <4>1. PICK d \in CallRec : d = call[g] /\ d = call'[g]
          BY <1>o, <1>t, <3>2
        <4>2. CallSound(d)'
          BY <1>a, <4>1, CallAges DEF CallIsTested
        <4>. QED
          BY <4>1, <4>2 DEF CallSound
      <3>. QED
        BY <3>1, <3>2
    <2>. QED
      BY <1>o, <1>t, <2>2 DEF CallIsTested
  <1>n. ASSUME UNCHANGED call
        PROVE  call' \in [SenderCalls -> CallRec] /\ CallIsTested'
    <2>1. ASSUME NEW g \in SenderCalls
          PROVE  CallSound(call[g])'
      <3>1. PICK d \in CallRec : d = call[g] /\ d = call'[g]
        BY <1>n, <1>t
      <3>2. CallSound(d)'
        BY <1>a, <3>1, CallAges DEF CallIsTested
      <3>. QED
        BY <3>1, <3>2 DEF CallSound
    <2>. QED
      BY <1>n, <1>t, <2>1 DEF CallIsTested
  <1>1. ASSUME NEW a \in Addresses, Onboard(a)
        PROVE  call' \in [SenderCalls -> CallRec] /\ CallIsTested' /\ UNCHANGED mailingVars
    BY <1>1, <1>n DEF Onboard
  <1>2. ASSUME NEW h \in SenderCalls, TestLogin(h)
        PROVE  call' \in [SenderCalls -> CallRec] /\ CallIsTested' /\ UNCHANGED mailingVars
    <2>1. CASE Ends(h)
      BY <1>2, <1>o, <1>e, <2>1, EmptyTyped DEF TestLogin, Ends
    <2>2. CASE ~Ends(h)
      <3>. DEFINE c == [call[h] EXCEPT !.password = "tested",
                                       !.step = IF @ = "test" THEN "insert" ELSE "save"]
      <3>1. c \in CallRec
        BY <1>t DEF CallRec, Passwords
      <3>2. CallSound(c)
        BY <1>2, <1>t DEF TestLogin, CallIsTested, CallSound, CallRec
      <3>3. call' = [call EXCEPT ![h] = c]
        BY <1>2, <1>t, <2>2 DEF TestLogin
      <3>. QED
        BY <1>2, <1>o, <3>1, <3>2, <3>3 DEF TestLogin
    <2>. QED
      BY <2>1, <2>2
  <1>3. ASSUME NEW h \in SenderCalls, InsertSender(h)
        PROVE  call' \in [SenderCalls -> CallRec] /\ CallIsTested' /\ UNCHANGED mailingVars
    <2>1. CASE Ends(h)
      BY <1>3, <1>o, <1>e, <2>1, EmptyTyped DEF InsertSender, Ends
    <2>2. CASE ~Ends(h)
      <3>. DEFINE c == [call[h] EXCEPT !.step = "conflict"]
      <3>1. c \in CallRec
        BY <1>t DEF CallRec
      <3>2. CallSound(c)
        BY <1>3, <1>t DEF InsertSender, CallIsTested, CallSound, CallRec
      <3>3. call' = [call EXCEPT ![h] = c]
        BY <1>3, <1>t, <2>2 DEF InsertSender, GoesOn
      <3>. QED
        BY <1>3, <1>o, <3>1, <3>2, <3>3 DEF InsertSender
    <2>. QED
      BY <2>1, <2>2
  <1>4. ASSUME NEW h \in SenderCalls, OnConflict(h)
        PROVE  call' \in [SenderCalls -> CallRec] /\ CallIsTested' /\ UNCHANGED mailingVars
    <2>1. CASE Ends(h)
      BY <1>4, <1>o, <1>e, <2>1, EmptyTyped DEF OnConflict, Ends
    <2>2. CASE ~Ends(h)
      <3>1. PICK s \in OfAddress(call[h].of) :
              call' = [call EXCEPT ![h].step = "upgrade", ![h].s = s]
        BY <1>4, <2>2 DEF OnConflict
      <3>2. s \in Senders /\ s \in OldIds \ {0}
        BY <1>s DEF OfAddress, Connected
      <3>. DEFINE c == [call[h] EXCEPT !.step = "upgrade", !.s = s]
      <3>3. c \in CallRec
        <4>1. s \in 0 .. MaxSenders
          BY <3>2, SendersAssumption DEF Senders, SendersAssumption
        <4>. QED
          BY <1>t, <4>1 DEF CallRec
      <3>4. CallSound(c)
        BY <1>4, <1>t, <3>2 DEF OnConflict, CallIsTested, CallSound, CallRec
      <3>5. call' = [call EXCEPT ![h] = c]
        BY <1>t, <3>1
      <3>. QED
        BY <1>4, <1>o, <3>3, <3>4, <3>5 DEF OnConflict
    <2>. QED
      BY <2>1, <2>2
  <1>5. ASSUME NEW h \in SenderCalls, SaveLogin(h) \/ ToolCreates(h)
        PROVE  call' \in [SenderCalls -> CallRec] /\ CallIsTested' /\ UNCHANGED mailingVars
    BY <1>5, <1>o, <1>e, EmptyTyped DEF SaveLogin, ToolCreates, Ends
  <1>6. ASSUME NEW h \in SenderCalls, NEW a \in Addresses, NEW step \in {"test", "create"},
               Begins(h, [NoCall EXCEPT !.step = step, !.of = a])
        PROVE  call' \in [SenderCalls -> CallRec] /\ CallIsTested'
    <2>. DEFINE c == [NoCall EXCEPT !.step = step, !.of = a]
    <2>1. c \in CallRec /\ c.step = step /\ ~c.verified /\ c.s = 0 /\ c.pool = {}
      BY EmptyTyped DEF CallRec
    <2>2. CallSound(c)
      BY <1>t, <2>1 DEF CallSound, OldIds
    <2>. QED
      BY <1>6, <1>o, <2>1, <2>2 DEF Begins
  <1>7. ASSUME NEW h \in SenderCalls, NEW s \in Senders, VerifySender(h, s)
        PROVE  call' \in [SenderCalls -> CallRec] /\ CallIsTested' /\ UNCHANGED mailingVars
    <2>. DEFINE c == [NoCall EXCEPT !.step = "retest", !.of = sender[s].of, !.s = s,
                                    !.verified = sender[s].verified]
    <2>1. c \in CallRec /\ c.step = "retest" /\ c.s = s /\ c.pool = {} /\ c.verified = sender[s].verified
      <3>1. /\ s \in 0 .. MaxSenders /\ sender[s].verified \in BOOLEAN
            /\ sender[s].of \in Addresses \cup {NoAddress}
        BY <1>t, SendersAssumption DEF SenderRec, Senders, SendersAssumption
      <3>. QED
        BY <3>1, EmptyTyped DEF CallRec
    <2>2. CallSound(c)
      BY <1>7, <1>s, <2>1 DEF CallSound, VerifySender
    <2>. QED
      BY <1>7, <1>o, <2>1, <2>2 DEF Begins, VerifySender
  <1>8. ASSUME NEW h \in SenderCalls, NEW pool \in SUBSET Senders, CheckPool(h, pool)
        PROVE  call' \in [SenderCalls -> CallRec] /\ CallIsTested' /\ UNCHANGED mailingVars
    <2>. DEFINE c == [NoCall EXCEPT !.step = "campaign", !.pool = pool]
    <2>1. c \in CallRec /\ c.step = "campaign" /\ ~c.verified /\ c.s = 0 /\ c.pool = pool
      BY EmptyTyped DEF CallRec
    <2>2. CallSound(c)
      BY <1>8, <1>s, <1>t, <2>1 DEF CallSound, CheckPool, Connected, OldIds
    <2>. QED
      BY <1>8, <1>o, <2>1, <2>2 DEF Begins, CheckPool
  <1>. QED
    BY <1>1, <1>2, <1>3, <1>4, <1>5, <1>6, <1>7, <1>8 DEF AccountStep, ConnectSender, ToolLooks

\* What a worker finds among the senders it has read.
LEMMA ResolvedIsOld ==
  ASSUME TestedInv, NEW own \in OldIds, NEW main \in OldIds
  PROVE  /\ Resolved(own, main) \in {own, main, 0} /\ Resolved(own, main) \in OldIds
         /\ Resolved(own, main) # 0 => SenderThere(Resolved(own, main))
  BY DEF Resolved, OldIds, SenderThere, TestedInv, SendersTypeOK

LEMMA OldIsTyped ==
  ASSUME TestedInv, Ages
  PROVE  OldIds \subseteq OldIds' /\ OldIds' \subseteq 0 .. MaxSenders /\ OldIds \ {0} \subseteq Senders
  BY SendersAssumption DEF TestedInv, SendersTypeOK, Ages, OldIds, Senders, SendersAssumption

LEMMA AccountTestedStep ==
  ASSUME TestedInv, AccountStep
  PROVE  TestedInv' /\ Ages /\ Stay /\ UNCHANGED mailingVars
  <1>1. /\ sender' \in [Senders -> SenderRec] /\ Ages /\ Stay /\ FreshIsEmpty' /\ VerifiedIsTested'
        /\ call' \in [SenderCalls -> CallRec] /\ CallIsTested' /\ UNCHANGED mailingVars
    BY SendersGrowStep, GrowingAges, AccountCallStep
  <1>2. UNCHANGED <<mailing, mailRow, reading, sentWith, excused>>
    BY <1>1 DEF mailingVars
  <1>3. made' \in 0 .. MaxSenders
    BY <1>1 DEF Ages, TestedInv, SendersTypeOK
  <1>4. SendersTypeOK'
    BY <1>1, <1>2, <1>3 DEF TestedInv, SendersTypeOK, SenderRec, CallRec
  <1>5. IdsAreOld' /\ ReadIsTested' /\ (sentWith \subseteq {"tested"})'
    BY <1>1, <1>2, OldIsTyped DEF TestedInv, IdsAreOld, ReadIsTested
  <1>. QED
    BY <1>1, <1>4, <1>5 DEF TestedInv

\* While the senders rest, only what the campaign and its workers change has to be looked at.
LEMMA RestingSenders ==
  ASSUME TestedInv, UNCHANGED <<sender, made>>, UNCHANGED call \/ \E h \in SenderCalls : Ends(h),
         mailing' \in MailingRec, mailRow' \in [Recipients -> MailRowRec],
         reading' \in [Recipients -> ReadingRec], sentWith' \subseteq {"tested"},
         excused' \subseteq Recipients, IdsAreOld', ReadIsTested'
  PROVE  TestedInv' /\ Ages /\ Stay
  <1>. USE DEF TestedInv
  <1>1. Ages /\ Stay /\ FreshIsEmpty' /\ VerifiedIsTested'
    BY DEF Ages, Stay, FreshIsEmpty, VerifiedIsTested, OldIds, SenderThere, SendersTypeOK
  <1>t. call \in [SenderCalls -> CallRec]
    BY DEF SendersTypeOK, CallRec
  <1>2. call' \in [SenderCalls -> CallRec] /\ CallIsTested'
    <2>1. ASSUME NEW g \in SenderCalls
          PROVE  CallSound(call[g])'
      <3>1. PICK d \in CallRec : d = call'[g] /\ (d = call[g] \/ d = NoCall)
        BY <1>t, EmptyTyped DEF Ends
      <3>2. CallSound(d)
        BY <3>1, EmptyTyped DEF CallIsTested, CallSound, OldIds, SendersTypeOK
      <3>3. CallSound(d)'
        BY <1>1, <3>2, CallAges
      <3>. QED
        BY <3>1, <3>3 DEF CallSound
    <2>2. call' \in [SenderCalls -> CallRec]
      BY <1>t, EmptyTyped DEF Ends
    <2>3. \A g \in SenderCalls : CallSound(call[g])'
      BY <2>1
    <2>. QED
      BY <2>2, <2>3 DEF CallIsTested
  <1>3. SendersTypeOK'
    BY <1>2, SendersAssumption DEF SendersTypeOK, SenderRec, CallRec, MailingRec, MailRowRec, ReadingRec,
       Passwords
  <1>. QED
    BY <1>1, <1>2, <1>3

MailingStep ==
  \/ \E h \in SenderCalls : InsertCampaign(h)
  \/ \E s \in Senders : CreateWithoutPool(s) \/ Repoint(s)
  \/ Launch \/ Pause \/ Resume
  \/ \E r \in Recipients : ReadRow(r) \/ ReadSenders(r) \/ MailRow(r)

LEMMA MailingTestedStep ==
  ASSUME TestedInv, MailingStep
  PROVE  TestedInv' /\ Ages /\ Stay
  <1>. USE DEF TestedInv, accountVars
  <1>t. /\ mailing \in MailingRec /\ mailRow \in [Recipients -> MailRowRec]
        /\ reading \in [Recipients -> ReadingRec] /\ excused \subseteq Recipients
        /\ OldIds \subseteq 0 .. MaxSenders /\ 0 \in OldIds /\ OldIds \ {0} \subseteq Senders
    BY SendersAssumption DEF SendersTypeOK, MailingRec, MailRowRec, ReadingRec, OldIds, Senders,
       SendersAssumption
  <1>c. Connected \subseteq OldIds \ {0}
    BY SendersAssumption DEF Connected, SenderThere, FreshIsEmpty, OldIds, Senders, SendersAssumption,
       SendersTypeOK
  <1>o. UNCHANGED made => OldIds' = OldIds
    BY DEF OldIds
  <1>1. ASSUME NEW h \in SenderCalls, InsertCampaign(h)
        PROVE  TestedInv' /\ Ages /\ Stay
    <2>1. CASE UNCHANGED <<mailing, mailRow>>
      BY <1>1, <1>t, <1>o, <2>1, RestingSenders DEF InsertCampaign, IdsAreOld, ReadIsTested
    <2>2. CASE ~UNCHANGED <<mailing, mailRow>>
      <3>1. PICK main \in call[h].pool, elsewhere \in BOOLEAN, of \in [Recipients -> call[h].pool] :
              /\ mailing' = [status |-> "SCHEDULED", main |-> main, pool |-> call[h].pool,
                             elsewhere |-> elsewhere]
              /\ mailRow' = [r \in Recipients |-> [status |-> "PENDING", s |-> of[r]]]
              /\ call[h].pool \subseteq Connected
        BY <1>1, <2>2 DEF InsertCampaign
      <3>2. main \in OldIds \ {0} /\ call[h].pool \subseteq OldIds \ {0} /\ \A r \in Recipients : of[r] \in OldIds \ {0}
        BY <1>c, <3>1
      <3>3. mailing' \in MailingRec /\ mailRow' \in [Recipients -> MailRowRec]
        BY <1>t, <3>1, <3>2 DEF MailingRec, MailRowRec
      <3>4. IdsAreOld' /\ ReadIsTested'
        BY <1>1, <1>o, <3>1, <3>2 DEF IdsAreOld, ReadIsTested, InsertCampaign
      <3>. QED
        BY <1>1, <1>t, <3>3, <3>4, RestingSenders DEF InsertCampaign
    <2>. QED
      BY <2>1, <2>2
  <1>2. ASSUME NEW s \in Senders, CreateWithoutPool(s) \/ Repoint(s)
        PROVE  TestedInv' /\ Ages /\ Stay
    <2>1. s \in OldIds
      BY <1>2, <1>c DEF CreateWithoutPool, Repoint, Connected
    <2>2. mailing' \in MailingRec /\ mailing'.main = s /\ mailing'.pool \subseteq mailing.pool
      BY <1>2, <1>t, <2>1 DEF CreateWithoutPool, Repoint, MailingRec
    <2>3. IdsAreOld' /\ ReadIsTested' /\ excused' \subseteq Recipients
      BY <1>2, <1>t, <1>o, <2>1, <2>2 DEF CreateWithoutPool, Repoint, IdsAreOld, ReadIsTested, StillWaiting
    <2>. QED
      BY <1>2, <1>t, <2>2, <2>3, RestingSenders DEF CreateWithoutPool, Repoint
  <1>3. CASE Launch
    <2>1. /\ mailing' \in MailingRec /\ mailing'.main = mailing.main /\ mailing'.pool = mailing.pool
          /\ excused' \subseteq Recipients
      BY <1>3, <1>t DEF Launch, MailingRec, Stranded, StillWaiting
    <2>2. /\ mailRow' \in [Recipients -> MailRowRec]
          /\ \A r \in Recipients : mailRow'[r].s \in {mailRow[r].s, mailing.main}
      <3>1. \A r \in Recipients : [status |-> "PENDING", s |-> mailing.main] \in MailRowRec
        BY <1>t DEF MailingRec, MailRowRec
      <3>. QED
        BY <1>3, <1>t, <3>1 DEF Launch
    <2>3. IdsAreOld' /\ ReadIsTested'
      BY <1>3, <1>o, <2>1, <2>2 DEF Launch, IdsAreOld, ReadIsTested
    <2>. QED
      BY <1>3, <1>t, <2>1, <2>2, <2>3, RestingSenders DEF Launch
  <1>4. CASE Pause \/ Resume
    <2>1. /\ mailing' \in MailingRec /\ mailing'.main = mailing.main /\ mailing'.pool = mailing.pool
          /\ excused' \subseteq Recipients
      BY <1>4, <1>t DEF Pause, Resume, MailingRec, Stranded, StillWaiting
    <2>2. IdsAreOld' /\ ReadIsTested'
      BY <1>4, <1>o, <2>1 DEF Pause, Resume, IdsAreOld, ReadIsTested
    <2>. QED
      BY <1>4, <1>t, <2>1, <2>2, RestingSenders DEF Pause, Resume
  <1>5. ASSUME NEW r \in Recipients, ReadRow(r)
        PROVE  TestedInv' /\ Ages /\ Stay
    <2>1. mailRow[r].s \in OldIds /\ mailing.main \in OldIds
      BY DEF IdsAreOld
    <2>. DEFINE c == [Unread EXCEPT !.step = "row", !.own = mailRow[r].s, !.main = mailing.main]
    <2>2. c \in ReadingRec /\ c.step = "row" /\ c.own = mailRow[r].s /\ c.main = mailing.main
      BY <1>t, <2>1, EmptyTyped DEF ReadingRec
    <2>3. reading' = [reading EXCEPT ![r] = c]
      BY <1>5 DEF ReadRow
    <2>. HIDE DEF c
    <2>4. reading' \in [Recipients -> ReadingRec] /\ IdsAreOld' /\ ReadIsTested'
      BY <1>5, <1>t, <1>o, <2>1, <2>2, <2>3 DEF ReadRow, IdsAreOld, ReadIsTested
    <2>. QED
      BY <1>5, <1>t, <2>4, RestingSenders DEF ReadRow
  <1>6. ASSUME NEW r \in Recipients, ReadSenders(r)
        PROVE  TestedInv' /\ Ages /\ Stay
    <2>1. PICK s \in OldIds : s = Resolved(reading[r].own, reading[r].main)
      BY ResolvedIsOld DEF IdsAreOld
    <2>. DEFINE v == s # 0 /\ sender[s].verified
                w == IF s = 0 THEN "none" ELSE sender[s].password
    <2>2. v \in BOOLEAN /\ w \in Passwords /\ (v => w = "tested")
      BY <1>t DEF SendersTypeOK, VerifiedIsTested, Passwords
    <2>3. reading' = [reading EXCEPT ![r].step = "senders", ![r].verified = v, ![r].password = w]
      BY <1>6, <2>1 DEF ReadSenders
    <2>. HIDE DEF v, w
    <2>4. reading' \in [Recipients -> ReadingRec] /\ IdsAreOld' /\ ReadIsTested'
      <3>1. [reading[r] EXCEPT !.step = "senders", !.verified = v, !.password = w] \in ReadingRec
        BY <1>t, <2>2 DEF ReadingRec
      <3>2. reading' = [reading EXCEPT ![r] = [reading[r] EXCEPT !.step = "senders", !.verified = v,
                                                                !.password = w]]
        BY <2>3
      <3>3. reading' \in [Recipients -> ReadingRec]
        BY <1>t, <3>1, <3>2
      <3>4. /\ reading'[r].verified = v /\ reading'[r].password = w
            /\ reading'[r].own = reading[r].own /\ reading'[r].main = reading[r].main
            /\ \A q \in Recipients \ {r} : reading'[q] = reading[q]
        BY <1>t, <2>3 DEF ReadingRec
      <3>5. IdsAreOld'
        BY <1>6, <1>o, <3>4 DEF ReadSenders, IdsAreOld
      <3>6. ReadIsTested'
        BY <2>2, <3>4 DEF ReadIsTested
      <3>. QED
        BY <3>3, <3>5, <3>6
    <2>5. excused' \subseteq Recipients
      BY <1>6, <1>t DEF ReadSenders
    <2>. QED
      BY <1>6, <1>t, <2>4, <2>5, RestingSenders DEF ReadSenders
  <1>7. ASSUME NEW r \in Recipients, MailRow(r)
        PROVE  TestedInv' /\ Ages /\ Stay
    <2>1. reading' \in [Recipients -> ReadingRec] /\ mailRow' \in [Recipients -> MailRowRec]
      BY <1>7, <1>t, EmptyTyped DEF MailRow, MailRowRec
    <2>2. mailing' \in MailingRec /\ mailing'.main = mailing.main /\ mailing'.pool = mailing.pool
      BY <1>7, <1>t DEF MailRow, MailingRec
    <2>3. IdsAreOld' /\ ReadIsTested'
      BY <1>7, <1>t, <1>o, <2>2, EmptyTyped DEF MailRow, IdsAreOld, ReadIsTested, MailRowRec
    <2>4. sentWith' \subseteq {"tested"}
      BY <1>7 DEF MailRow, ReadIsTested
    <2>. QED
      BY <1>7, <1>t, <2>1, <2>2, <2>3, <2>4, RestingSenders DEF MailRow
  <1>. QED
    BY <1>1, <1>2, <1>3, <1>4, <1>5, <1>6, <1>7 DEF MailingStep

LEMMA DeleteTestedStep ==
  ASSUME TestedInv, NEW s \in Senders, NEW scoped \in BOOLEAN, DeleteSender(s, scoped)
  PROVE  TestedInv' /\ Ages
  <1>. USE DEF TestedInv, DeleteSender
  <1>t. /\ sender \in [Senders -> SenderRec] /\ call \in [SenderCalls -> CallRec]
        /\ mailing \in MailingRec /\ mailRow \in [Recipients -> MailRowRec]
        /\ reading \in [Recipients -> ReadingRec] /\ made \in 0 .. MaxSenders /\ excused \subseteq Recipients
    BY DEF SendersTypeOK, SenderRec, CallRec, MailingRec, MailRowRec, ReadingRec
  <1>1. sender' \in [Senders -> SenderRec] /\ made' = made /\ OldIds' = OldIds
    BY <1>t, EmptyTyped DEF OldIds
  <1>2. Ages /\ FreshIsEmpty' /\ VerifiedIsTested'
    <2>1. \A x \in Senders : sender'[x] = IF x = s THEN NoSender ELSE sender[x]
      BY <1>t
    <2>2. FreshIsEmpty' /\ VerifiedIsTested'
      BY <1>1, <2>1, EmptyTyped DEF FreshIsEmpty, VerifiedIsTested
    <2>3. ASSUME NEW x \in OldIds, x # 0, sender'[x] # NoSender
          PROVE  sender[x] # NoSender /\ (sender[x].verified => sender'[x].verified)
      BY <1>t, <2>1, <2>3, SendersAssumption DEF OldIds, Senders, SendersAssumption
    <2>. QED
      BY <1>t, <1>1, <2>2, <2>3 DEF Ages, SenderThere
  <1>3. CallIsTested'
    <2>1. ASSUME NEW g \in SenderCalls
          PROVE  CallSound(call[g])'
      <3>1. PICK d \in CallRec : d = call'[g] /\ d = call[g]
        BY <1>t
      <3>2. CallSound(d)'
        BY <1>2, <3>1, CallAges DEF CallIsTested
      <3>. QED
        BY <3>1, <3>2 DEF CallSound
    <2>. QED
      BY <2>1 DEF CallIsTested
  <1>4. /\ mailing' \in MailingRec /\ mailing'.pool \subseteq mailing.pool
        /\ mailing'.main \in {mailing.main, 0}
    <2>1. 0 \in 0 .. MaxSenders /\ mailing.pool \ {s} \in SUBSET Senders
      BY <1>t, SendersAssumption DEF MailingRec, SendersAssumption
    <2>. QED
      BY <1>t, <2>1 DEF MailingRec
  <1>5. /\ mailRow' \in [Recipients -> MailRowRec]
        /\ \A r \in Recipients : mailRow'[r].s \in {mailRow[r].s, 0}
    <2>1. 0 \in 0 .. MaxSenders
      BY SendersAssumption DEF SendersAssumption
    <2>2. \A r \in Recipients : [mailRow[r] EXCEPT !.s = 0] \in MailRowRec
      BY <1>t, <2>1 DEF MailRowRec
    <2>. QED
      BY <1>t, <2>2 DEF MailRowRec
  <1>6. IdsAreOld' /\ ReadIsTested' /\ 0 \in OldIds
    BY <1>t, <1>1, <1>4, <1>5 DEF IdsAreOld, ReadIsTested, OldIds
  <1>7. excused' \subseteq Recipients
    BY <1>t DEF StillWaiting
  <1>8. SendersTypeOK'
    BY <1>t, <1>1, <1>4, <1>5, <1>7
       DEF SendersTypeOK, SenderRec, CallRec, MailingRec, MailRowRec, ReadingRec
  <1>. QED
    BY <1>2, <1>3, <1>6, <1>8

LEMMA TestedStep ==
  ASSUME TestedInv, [SendersNext]_sendersVars
  PROVE  TestedInv'
  <1>1. CASE UNCHANGED sendersVars
    <2>1. UNCHANGED <<sender, made, call, mailing, mailRow, reading, sentWith, excused>>
      BY <1>1 DEF sendersVars, accountVars, mailingVars
    <2>. QED
      BY <2>1 DEF TestedInv, SendersTypeOK, FreshIsEmpty, IdsAreOld, VerifiedIsTested, CallIsTested,
         CallSound, ReadIsTested, OldIds, SenderThere
  <1>2. CASE AccountStep
    BY <1>2, AccountTestedStep
  <1>3. CASE MailingStep
    BY <1>3, MailingTestedStep
  <1>4. ASSUME NEW s \in Senders, NEW scoped \in BOOLEAN, DeleteSender(s, scoped)
        PROVE  TestedInv'
    BY <1>4, DeleteTestedStep
  <1>. QED
    BY <1>1, <1>2, <1>3, <1>4 DEF SendersNext, AccountStep, MailingStep

LEMMA TestedInit == SendersInit => TestedInv
  <1>. SUFFICES ASSUME SendersInit PROVE TestedInv
    OBVIOUS
  <1>. USE DEF SendersInit
  <1>1. /\ sender \in [Senders -> SenderRec] /\ call \in [SenderCalls -> CallRec]
        /\ reading \in [Recipients -> ReadingRec]
    BY EmptyTyped
  <1>2. made \in 0 .. MaxSenders /\ 0 \in 0 .. MaxSenders /\ 0 \in OldIds
    BY SendersAssumption DEF SendersAssumption, OldIds
  <1>3. mailing \in MailingRec /\ mailRow \in [Recipients -> MailRowRec]
    BY <1>2 DEF MailingRec, MailRowRec
  <1>4. SendersTypeOK
    BY <1>1, <1>2, <1>3 DEF SendersTypeOK, SenderRec, CallRec, MailingRec, MailRowRec, ReadingRec
  <1>5. FreshIsEmpty /\ IdsAreOld /\ VerifiedIsTested /\ CallIsTested /\ ReadIsTested
    BY <1>2, EmptyTyped DEF FreshIsEmpty, IdsAreOld, VerifiedIsTested, CallIsTested, CallSound, ReadIsTested
  <1>. QED
    BY <1>4, <1>5 DEF TestedInv

(***************************************************************************)
(* What has a sender keeps it, until a removal takes it away.              *)
(***************************************************************************)
LEMMA ReadyStays ==
  ASSUME TestedInv, Ages, NEW own \in OldIds, NEW main \in OldIds,
         own # 0 /\ SenderThere(own) => SenderThere(own)',
         main # 0 /\ SenderThere(main) => SenderThere(main)'
  PROVE  Ready(own, main) => Ready(own, main)'
  BY DEF Ages, Ready, Resolved, SenderThere

LEMMA GoneStaysGone ==
  ASSUME TestedInv, Ages, NEW own \in OldIds, NEW main \in OldIds,
         ~({own, main} \ {0} \subseteq Connected)
  PROVE  ~({own, main} \ {0} \subseteq Connected')
  <1>1. PICK x \in {own, main} \ {0} : x \notin Connected
    OBVIOUS
  <1>2. x \in OldIds /\ x \in Senders
    BY OldIsTyped
  <1>3. ~SenderThere(x)
    BY <1>1, <1>2 DEF Connected
  <1>4. ~SenderThere(x)'
    BY <1>2, <1>3 DEF Ages
  <1>. QED
    BY <1>1, <1>4 DEF Connected

\* A step of an account changes nothing for the campaign.
LEMMA AccountExcusedStep ==
  ASSUME TestedInv, ExcusedInv, Ages, Stay, UNCHANGED mailingVars
  PROVE  ExcusedInv'
  <1>u. UNCHANGED <<mailing, mailRow, reading, sentWith, excused>>
    BY DEF mailingVars
  <1>i. IdsAreOld
    BY DEF TestedInv
  <1>1. GoingIsReady'
    <2>. SUFFICES ASSUME Going(mailing), NEW r \in StillWaiting(mailRow) \ excused
                  PROVE  Ready(mailRow[r].s, mailing.main)'
      BY <1>u DEF GoingIsReady, Going, StillWaiting
    <2>1. PICK own \in OldIds, main \in OldIds : own = mailRow[r].s /\ main = mailing.main
      BY <1>i DEF IdsAreOld, StillWaiting
    <2>2. Ready(own, main)
      BY <2>1 DEF ExcusedInv, GoingIsReady
    <2>3. Ready(own, main)'
      BY <2>2, ReadyStays DEF Stay
    <2>. QED
      BY <1>u, <2>1, <2>3 DEF Ready, Resolved, SenderThere
  <1>2. RowReadIsReady'
    <2>. SUFFICES ASSUME NEW r \in Recipients \ excused, reading[r].step = "row"
                  PROVE  (\/ ~({reading[r].own, reading[r].main} \ {0} \subseteq Connected)
                          \/ Ready(reading[r].own, reading[r].main))'
      BY <1>u DEF RowReadIsReady
    <2>1. PICK own \in OldIds, main \in OldIds : own = reading[r].own /\ main = reading[r].main
      BY <1>i DEF IdsAreOld
    <2>2. ~({own, main} \ {0} \subseteq Connected) \/ Ready(own, main)
      BY <2>1 DEF ExcusedInv, RowReadIsReady
    <2>3. ~({own, main} \ {0} \subseteq Connected') \/ Ready(own, main)'
      BY <2>2, ReadyStays, GoneStaysGone DEF Stay
    <2>. QED
      BY <1>u, <2>1, <2>3 DEF Ready, Resolved, SenderThere
  <1>3. NothingBefore' /\ OwnIsNoticed' /\ SendersReadIsVerified' /\ FailsOnlyIfLetGo'
    BY <1>u DEF ExcusedInv, NothingBefore, OwnIsNoticed, SendersReadIsVerified, FailsOnlyIfLetGo,
       StillWaiting
  <1>. QED
    BY <1>1, <1>2, <1>3 DEF ExcusedInv

\* A waiting row that is not stranded has its sender.
LEMMA NotStranded ==
  ASSUME NEW rs, NEW main, NEW r \in StillWaiting(rs), r \notin Stranded(rs, main)
  PROVE  Ready(rs[r].s, main)
  BY DEF Stranded, Ready

\* A step that leaves the senders alone is judged by what they are before it.
LEMMA RestingExcused ==
  ASSUME UNCHANGED sender, NothingBefore', OwnIsNoticed', SendersReadIsVerified', FailsOnlyIfLetGo',
         Going(mailing') => \A r \in StillWaiting(mailRow') \ excused' : Ready(mailRow'[r].s, mailing'.main),
         \A r \in Recipients \ excused' : reading'[r].step = "row" =>
           \/ ~({reading'[r].own, reading'[r].main} \ {0} \subseteq Connected)
           \/ Ready(reading'[r].own, reading'[r].main)
  PROVE  ExcusedInv'
  <1>1. GoingIsReady'
    BY DEF GoingIsReady, Ready, Resolved, SenderThere, Going, StillWaiting
  <1>2. Connected' = Connected
    BY DEF Connected, SenderThere
  <1>3. \A own, main : Ready(own, main)' <=> Ready(own, main)
    BY DEF Ready, Resolved, SenderThere
  <1>4. RowReadIsReady'
    BY <1>2 DEF RowReadIsReady, Ready, Resolved, SenderThere
  <1>. QED
    BY <1>1, <1>4 DEF ExcusedInv

LEMMA MailingExcusedStep ==
  ASSUME TestedInv, ExcusedInv, MailingStep
  PROVE  ExcusedInv'
  <1>. USE DEF accountVars, StillWaiting
  <1>t. /\ mailing \in MailingRec /\ mailRow \in [Recipients -> MailRowRec]
        /\ reading \in [Recipients -> ReadingRec] /\ excused \subseteq Recipients
    BY DEF TestedInv, SendersTypeOK, MailingRec, MailRowRec, ReadingRec
  <1>u. UNCHANGED sender
    BY DEF MailingStep, InsertCampaign, CreateWithoutPool, Repoint, Launch, Pause, Resume, ReadRow,
       ReadSenders, MailRow
  <1>i. /\ NothingBefore /\ OwnIsNoticed /\ SendersReadIsVerified /\ FailsOnlyIfLetGo
        /\ Going(mailing) => \A r \in StillWaiting(mailRow) \ excused : Ready(mailRow[r].s, mailing.main)
        /\ \A r \in Recipients \ excused : reading[r].step = "row" =>
             \/ ~({reading[r].own, reading[r].main} \ {0} \subseteq Connected)
             \/ Ready(reading[r].own, reading[r].main)
    BY DEF ExcusedInv, GoingIsReady, RowReadIsReady
  <1>. DEFINE R == reading'
              RowRead == \A r \in Recipients \ excused' : R[r].step = "row" =>
                           \/ ~({R[r].own, R[r].main} \ {0} \subseteq Connected)
                           \/ Ready(R[r].own, R[r].main)
              RowsReady == Going(mailing') =>
                           \A r \in StillWaiting(mailRow') \ excused' : Ready(mailRow'[r].s, mailing'.main)
              Rest == NothingBefore' /\ OwnIsNoticed' /\ SendersReadIsVerified' /\ FailsOnlyIfLetGo'
  <1>f. ASSUME RowRead, RowsReady, Rest
        PROVE  ExcusedInv'
    BY <1>f, <1>u, RestingExcused
  <1>e. ASSUME UNCHANGED reading, excused \subseteq excused'
        PROVE  RowRead /\ SendersReadIsVerified'
    BY <1>e, <1>i DEF SendersReadIsVerified
  <1>1. ASSUME NEW h \in SenderCalls, InsertCampaign(h)
        PROVE  ExcusedInv'
    <2>1. CASE UNCHANGED <<mailing, mailRow>>
      <3>1. Rest /\ RowRead /\ RowsReady
        BY <1>1, <1>i, <2>1 DEF InsertCampaign, NothingBefore, OwnIsNoticed, SendersReadIsVerified,
           FailsOnlyIfLetGo
      <3>. QED
        BY <1>f, <3>1
    <2>2. CASE ~UNCHANGED <<mailing, mailRow>>
      <3>1. PICK main \in call[h].pool, elsewhere \in BOOLEAN, of \in [Recipients -> call[h].pool] :
              /\ mailing.status = "none" /\ call[h].pool \subseteq Connected
              /\ mailing' = [status |-> "SCHEDULED", main |-> main, pool |-> call[h].pool,
                             elsewhere |-> elsewhere]
              /\ mailRow' = [r \in Recipients |-> [status |-> "PENDING", s |-> of[r]]]
        BY <1>1, <2>2 DEF InsertCampaign
      <3>2. \A s \in call[h].pool : s # 0 /\ SenderThere(s) /\ sender[s].verified
        BY <3>1 DEF TestedInv, CallIsTested, CallSound, Connected, SenderThere
      <3>3. \A r \in Recipients : Ready(of[r], main)
        BY <3>1, <3>2 DEF Ready, Resolved
      <3>4. RowsReady
        BY <3>1, <3>3
      <3>5. Rest
        BY <1>1, <1>i, <3>1 DEF InsertCampaign, NothingBefore, OwnIsNoticed, SendersReadIsVerified,
           FailsOnlyIfLetGo
      <3>6. RowRead
        BY <1>1, <1>e DEF InsertCampaign
      <3>. QED
        BY <1>f, <3>4, <3>5, <3>6
    <2>. QED
      BY <2>1, <2>2
  <1>2. ASSUME NEW s \in Senders, CreateWithoutPool(s)
        PROVE  ExcusedInv'
    <2>1. Rest /\ RowsReady
      BY <1>2, <1>i DEF CreateWithoutPool, NothingBefore, OwnIsNoticed, SendersReadIsVerified,
         FailsOnlyIfLetGo
    <2>2. RowRead
      BY <1>2, <1>e DEF CreateWithoutPool
    <2>. QED
      BY <1>f, <2>1, <2>2
  <1>3. ASSUME NEW s \in Senders, Repoint(s)
        PROVE  ExcusedInv'
    <2>1. RowsReady /\ OwnIsNoticed' /\ FailsOnlyIfLetGo'
      BY <1>3, <1>i DEF Repoint, OwnIsNoticed, FailsOnlyIfLetGo
    <2>2. NothingBefore'
      BY <1>3, <1>t DEF Repoint, NothingBefore, MailingRec
    <2>3. RowRead /\ SendersReadIsVerified'
      BY <1>3, <1>e DEF Repoint
    <2>. QED
      BY <1>f, <2>1, <2>2, <2>3
  <1>4. CASE Launch
    <2>1. RowRead /\ SendersReadIsVerified'
      BY <1>4, <1>e DEF Launch
    <2>2. mailing'.status = "SCHEDULED" /\ mailing'.main = mailing.main /\ mailing'.pool = mailing.pool
      BY <1>4, <1>t DEF Launch, MailingRec
    <2>3. \A r \in Recipients :
            \/ mailRow'[r] = mailRow[r]
            \/ mailRow'[r].status = "PENDING" /\ mailRow'[r].s = mailing.main
      BY <1>4, <1>t DEF Launch
    <2>4. RowsReady
      <3>1. \A r \in StillWaiting(mailRow') \ excused' : Ready(mailRow'[r].s, mailing.main)
        BY <1>4, NotStranded DEF Launch
      <3>. QED
        BY <2>2, <3>1
    <2>5. OwnIsNoticed' /\ NothingBefore' /\ FailsOnlyIfLetGo'
      BY <1>4, <1>i, <2>2, <2>3 DEF Launch, OwnIsNoticed, NothingBefore, FailsOnlyIfLetGo
    <2>. QED
      BY <1>f, <2>1, <2>4, <2>5
  <1>5. CASE Pause
    <2>1. RowRead /\ SendersReadIsVerified'
      BY <1>5, <1>e DEF Pause
    <2>2. mailing'.status = "PAUSED" /\ mailing'.main = mailing.main /\ mailing'.pool = mailing.pool
      BY <1>5, <1>t DEF Pause, MailingRec
    <2>3. RowsReady /\ OwnIsNoticed' /\ NothingBefore' /\ FailsOnlyIfLetGo'
      BY <1>5, <1>i, <2>2 DEF Pause, OwnIsNoticed, NothingBefore, FailsOnlyIfLetGo, Going
    <2>. QED
      BY <1>f, <2>1, <2>3
  <1>6. CASE Resume
    <2>1. RowRead /\ SendersReadIsVerified'
      BY <1>6, <1>e DEF Resume
    <2>2. mailing'.status = "SENDING" /\ mailing'.main = mailing.main /\ mailing'.pool = mailing.pool
      BY <1>6, <1>t DEF Resume, MailingRec
    <2>3. RowsReady
      BY <1>6, <2>2, NotStranded DEF Resume
    <2>4. OwnIsNoticed' /\ NothingBefore' /\ FailsOnlyIfLetGo'
      BY <1>6, <1>i, <2>2 DEF Resume, OwnIsNoticed, NothingBefore, FailsOnlyIfLetGo
    <2>. QED
      BY <1>f, <2>1, <2>3, <2>4
  <1>7. ASSUME NEW r \in Recipients, ReadRow(r)
        PROVE  ExcusedInv'
    <2>. DEFINE c == [Unread EXCEPT !.step = "row", !.own = mailRow[r].s, !.main = mailing.main]
    <2>1. c.step = "row" /\ c.own = mailRow[r].s /\ c.main = mailing.main
      BY DEF Unread
    <2>2. reading'[r] = c /\ \A q \in Recipients \ {r} : reading'[q] = reading[q]
      BY <1>7, <1>t DEF ReadRow
    <2>. HIDE DEF c
    <2>3. r \notin excused => Ready(mailRow[r].s, mailing.main)
      BY <1>7, <1>i DEF ReadRow
    <2>4. UNCHANGED <<mailing, mailRow, excused>> /\ Going(mailing)
      BY <1>7 DEF ReadRow
    <2>5. RowRead
      BY <1>i, <2>1, <2>2, <2>3, <2>4
    <2>6. Rest /\ RowsReady
      BY <1>i, <2>1, <2>2, <2>4 DEF NothingBefore, OwnIsNoticed, SendersReadIsVerified,
         FailsOnlyIfLetGo, Going
    <2>. QED
      BY <1>f, <2>5, <2>6
  <1>8. ASSUME NEW r \in Recipients, ReadSenders(r)
        PROVE  ExcusedInv'
    <2>. DEFINE own == reading[r].own  main == reading[r].main
                s == Resolved(own, main)  v == s # 0 /\ sender[s].verified
    <2>1. /\ reading'[r].step = "senders" /\ reading'[r].verified = v
          /\ \A q \in Recipients \ {r} : reading'[q] = reading[q]
      BY <1>8, <1>t DEF ReadSenders, ReadingRec
    <2>2. UNCHANGED <<mailing, mailRow>> /\ excused \subseteq excused'
      BY <1>8 DEF ReadSenders
    <2>3. r \notin excused' => v
      <3>1. r \notin excused' => {own, main} \ {0} \subseteq Connected
        BY <1>8 DEF ReadSenders
      <3>2. r \notin excused' => Ready(own, main)
        BY <1>8, <1>i, <2>2, <3>1 DEF ReadSenders
      <3>. QED
        BY <3>2 DEF Ready
    <2>4. mailing.status # "none"
      BY <1>8, <1>i DEF ReadSenders, NothingBefore
    <2>. HIDE DEF v
    <2>5. SendersReadIsVerified' /\ RowRead
      BY <1>i, <2>1, <2>2, <2>3 DEF SendersReadIsVerified
    <2>6. NothingBefore' /\ OwnIsNoticed' /\ FailsOnlyIfLetGo' /\ RowsReady
      BY <1>i, <2>2, <2>4 DEF NothingBefore, OwnIsNoticed, FailsOnlyIfLetGo, Going
    <2>. QED
      BY <1>f, <2>5, <2>6
  <1>9. ASSUME NEW r \in Recipients, MailRow(r)
        PROVE  ExcusedInv'
    <2>1. /\ reading'[r].step = "idle" /\ \A q \in Recipients \ {r} : reading'[q] = reading[q]
      BY <1>9, <1>t, EmptyTyped DEF MailRow
    <2>2. /\ mailRow'[r].status = (IF reading[r].verified THEN "SENT" ELSE "FAILED")
          /\ \A q \in Recipients \ {r} : mailRow'[q] = mailRow[q]
      BY <1>9, <1>t DEF MailRow, MailRowRec
    <2>3. mailing.status # "none"
      BY <1>9, <1>i DEF MailRow, NothingBefore
    <2>4. /\ mailing'.main = mailing.main /\ mailing'.pool = mailing.pool
          /\ mailing'.status # "none" /\ (Going(mailing') => Going(mailing))
      BY <1>9, <1>t, <2>3 DEF MailRow, MailingRec, Going
    <2>5. excused' = excused /\ (reading[r].verified \/ r \in excused)
      BY <1>9, <1>i DEF MailRow, SendersReadIsVerified
    <2>6. RowRead
      BY <1>i, <2>1, <2>5
    <2>7. RowsReady
      BY <1>i, <2>2, <2>4, <2>5
    <2>8. Rest
      BY <1>i, <2>1, <2>2, <2>4, <2>5 DEF NothingBefore, OwnIsNoticed, SendersReadIsVerified,
         FailsOnlyIfLetGo
    <2>. QED
      BY <1>f, <2>6, <2>7, <2>8
  <1>. QED
    BY <1>1, <1>2, <1>3, <1>4, <1>5, <1>6, <1>7, <1>8, <1>9 DEF MailingStep

\* Who removes the sender of a waiting row pauses the campaign, or lets the row go.
LEMMA DeleteExcusedStep ==
  ASSUME TestedInv, ExcusedInv, NEW s \in Senders, NEW scoped \in BOOLEAN, DeleteSender(s, scoped)
  PROVE  ExcusedInv'
  <1>. USE DEF DeleteSender, StillWaiting
  <1>. DEFINE reached == ~(scoped /\ mailing.elsewhere)
  <1>t. /\ mailing \in MailingRec /\ mailRow \in [Recipients -> MailRowRec]
        /\ reading \in [Recipients -> ReadingRec] /\ excused \subseteq Recipients
        /\ sender \in [Senders -> SenderRec] /\ s # 0
    BY SendersAssumption DEF TestedInv, SendersTypeOK, SenderRec, MailingRec, MailRowRec, ReadingRec,
       Senders, SendersAssumption
  <1>a. Ages
    BY DeleteTestedStep
  <1>k. \A x \in OldIds \ {s} : SenderThere(x) => SenderThere(x)'
    BY <1>t, OldIsTyped DEF SenderThere
  <1>g. s \notin Connected'
    BY <1>t DEF Connected, SenderThere
  <1>1. /\ mailing'.main = (IF mailing.main = s THEN 0 ELSE mailing.main)
        /\ mailing'.pool = mailing.pool \ {s}
        /\ mailing'.status = (IF reached /\ MailsFrom(s) /\ Going(mailing) THEN "PAUSED" ELSE mailing.status)
    BY <1>t DEF MailingRec
  <1>2. \A r \in Recipients :
          /\ mailRow'[r].status = mailRow[r].status
          /\ mailRow'[r].s = IF mailRow[r].s = s THEN 0 ELSE mailRow[r].s
    BY <1>t DEF MailRowRec
  <1>3. UNCHANGED reading /\ excused \subseteq excused'
    BY DEF DeleteSender
  <1>. HIDE DEF reached
  <1>4. NothingBefore'
    BY <1>1, <1>2, <1>3 DEF ExcusedInv, NothingBefore, Going
  <1>5. OwnIsNoticed'
    BY <1>1, <1>2, <1>3 DEF ExcusedInv, OwnIsNoticed
  <1>6. SendersReadIsVerified' /\ FailsOnlyIfLetGo'
    BY <1>2, <1>3 DEF ExcusedInv, SendersReadIsVerified, FailsOnlyIfLetGo
  <1>7. GoingIsReady'
    <2>. SUFFICES ASSUME Going(mailing)', NEW r \in StillWaiting(mailRow) \ excused'
                  PROVE  Ready(mailRow[r].s, mailing.main)'
      BY <1>2 DEF GoingIsReady
    <2>1. Going(mailing) /\ ~(reached /\ MailsFrom(s))
      BY <1>1 DEF Going
    <2>2. PICK own \in OldIds, main \in OldIds : own = mailRow[r].s /\ main = mailing.main
      BY DEF TestedInv, IdsAreOld
    <2>3. Ready(own, main)
      BY <1>3, <2>1, <2>2 DEF ExcusedInv, GoingIsReady
    <2>4. own # s /\ main # s
      <3>1. CASE reached
        BY <1>3, <1>t, <2>1, <2>2, <3>1 DEF MailsFrom, ExcusedInv, OwnIsNoticed
      <3>2. CASE ~reached
        BY <2>2, <3>2 DEF reached
      <3>. QED
        BY <3>1, <3>2
    <2>5. Ready(own, main)'
      BY <1>a, <1>k, <2>3, <2>4, ReadyStays
    <2>6. mailRow'[r].s = own /\ mailing'.main = main
      BY <1>1, <1>2, <2>2, <2>4
    <2>. QED
      BY <2>5, <2>6 DEF Ready, Resolved, SenderThere
  <1>8. RowReadIsReady'
    <2>. SUFFICES ASSUME NEW r \in Recipients \ excused', reading[r].step = "row"
                  PROVE  (\/ ~({reading[r].own, reading[r].main} \ {0} \subseteq Connected)
                          \/ Ready(reading[r].own, reading[r].main))'
      BY <1>3 DEF RowReadIsReady
    <2>1. PICK own \in OldIds, main \in OldIds : own = reading[r].own /\ main = reading[r].main
      BY DEF TestedInv, IdsAreOld
    <2>2. ~({own, main} \ {0} \subseteq Connected) \/ Ready(own, main)
      BY <1>3, <2>1 DEF ExcusedInv, RowReadIsReady
    <2>3. ~({own, main} \ {0} \subseteq Connected') \/ Ready(own, main)'
      <3>1. CASE s \in {own, main}
        BY <1>g, <1>t, <3>1
      <3>2. CASE s \notin {own, main}
        BY <1>a, <1>k, <2>2, <3>2, ReadyStays, GoneStaysGone
      <3>. QED
        BY <3>1, <3>2
    <2>. QED
      BY <1>3, <2>1, <2>3 DEF Ready, Resolved, SenderThere
  <1>. QED
    BY <1>4, <1>5, <1>6, <1>7, <1>8 DEF ExcusedInv

LEMMA ExcusedStep ==
  ASSUME TestedInv, ExcusedInv, [SendersNext]_sendersVars
  PROVE  ExcusedInv'
  <1>1. CASE UNCHANGED sendersVars
    <2>1. UNCHANGED <<sender, made, call, mailing, mailRow, reading, sentWith, excused>>
      BY <1>1 DEF sendersVars, accountVars, mailingVars
    <2>. QED
      BY <2>1 DEF ExcusedInv, NothingBefore, GoingIsReady, OwnIsNoticed, RowReadIsReady,
         SendersReadIsVerified, FailsOnlyIfLetGo, StillWaiting, Ready, Resolved, SenderThere, Connected, Going
  <1>2. CASE AccountStep
    <2>1. UNCHANGED mailingVars
      BY <1>2, AccountCallStep
    <2>2. Ages /\ Stay
      BY <1>2, SendersGrowStep, GrowingAges
    <2>. QED
      BY <2>1, <2>2, AccountExcusedStep
  <1>3. CASE MailingStep
    BY <1>3, MailingExcusedStep
  <1>4. ASSUME NEW s \in Senders, NEW scoped \in BOOLEAN, DeleteSender(s, scoped)
        PROVE  ExcusedInv'
    BY <1>4, DeleteExcusedStep
  <1>. QED
    BY <1>1, <1>2, <1>3, <1>4 DEF SendersNext, AccountStep, MailingStep

LEMMA ExcusedInit == SendersInit => ExcusedInv
  BY EmptyTyped DEF SendersInit, ExcusedInv, NothingBefore, GoingIsReady, OwnIsNoticed, RowReadIsReady,
     SendersReadIsVerified, FailsOnlyIfLetGo, StillWaiting, Going

LEMMA SendersAlways == SendersSpec => [](TestedInv /\ ExcusedInv)
  <1>1. SendersInit => TestedInv /\ ExcusedInv
    BY TestedInit, ExcusedInit
  <1>2. TestedInv /\ ExcusedInv /\ [SendersNext]_sendersVars => TestedInv' /\ ExcusedInv'
    BY TestedStep, ExcusedStep
  <1>. QED
    BY <1>1, <1>2, PTL DEF SendersSpec

\* Every variable of the senders keeps its type (the models Sender, EmailCampaign and
\* EmailJob): ids come from the database and are not used again.
THEOREM SendersTypeCorrect == SendersSpec => []SendersTypeOK
  <1>1. TestedInv /\ ExcusedInv => SendersTypeOK
    BY DEF TestedInv
  <1>. QED
    BY <1>1, SendersAlways, PTL

\* However many requests connect, verify and remove senders at the same time: mails leave
\* only with credentials that the mail server has accepted, a verified sender has its
\* warm-up, and a row fails for want of a verified sender only if it was let go
\* (senderControllers.ts:144-198, 286-321, 617-651; emailWorker.ts:410-431).
THEOREM SenderSoundCorrect == SendersSpec => []SenderSound
  <1>1. TestedInv /\ ExcusedInv => SenderSound
    BY DEF TestedInv, ExcusedInv, VerifiedIsTested, SenderSound, TestedAndWarming, Connected
  <1>. QED
    BY <1>1, SendersAlways, PTL

(***************************************************************************)
(* ReplyDetector: a scan learns of every mark that is set while it has     *)
(* the mail in its list, and what a mark stands for is recorded, is being  *)
(* recorded, or is known to be broken or taken back.                       *)
(***************************************************************************)
ScanRec ==
  [step : {"idle", "search", "list", "fetch", "next"} \cup RecordingSteps, seen : SUBSET Posts,
   open : SUBSET Answerable, mail : Answerable \cup {NoAnswerable}, since : SUBSET Answerable]
SentRowRec == [status : {"SENT", "FAILED"}, isReplied : BOOLEAN]
HandRec == [step : {"idle", "row", "sequence"}, mail : Answerable \cup {NoAnswerable}, to : BOOLEAN]

RecordsTyped ==
  /\ sentRow \in [Answerable -> SentRowRec]
  /\ follow \in [Answerable -> BOOLEAN] /\ suppressed \in BOOLEAN
  /\ scan \in [Scans -> ScanRec] /\ hand \in HandRec
  /\ answers \in [Answerable -> Nat] /\ overlapped \subseteq Answerable
  /\ unmarked \subseteq Answerable /\ broken \subseteq Answerable
AroundTyped ==
  /\ post \in [Posts -> [kind : Kinds \cup {"none"}, names : Answerable \cup {NoAnswerable}]]
  /\ loopAt \in [Loops -> {"none", "connecting", "open"}] /\ listed \in Loops \cup {NoLoop}
  /\ active \in BOOLEAN /\ booting \in BOOLEAN /\ mishaps \in 0 .. MaxMishaps

Records(s, step, m) == scan[s].step = step /\ scan[s].mail = m

\* What scan c knows of the mails it has read.
Knows(c) ==
  /\ c.step \in {"idle", "search", "list", "fetch"} => c.open = {} /\ c.since = {}
  /\ c.step \in RecordingSteps => c.mail \in c.open
  /\ \A m \in c.open \ unmarked : sentRow[m].isReplied => m \in c.since
ScansKnow == \A s \in Scans : Knows(scan[s])

CountedOnce ==
  \A m \in Answerable \ (overlapped \cup unmarked) :
    /\ \A s, t \in Scans : Records(s, "replyEvent", m) /\ Records(t, "replyEvent", m) => s = t
    /\ \A s \in Scans : Records(s, "replyEvent", m) => answers[m] = 0 /\ sentRow[m].isReplied
    /\ answers[m] \in {0, 1} /\ (answers[m] = 1 => sentRow[m].isReplied)

HandKnows ==
  /\ hand.step # "idle" => hand.mail \in Answerable
  /\ hand.step = "sequence" => hand.to \/ hand.mail \in unmarked

RepliesRecorded ==
  \A m \in Answerable \ (broken \cup unmarked) :
    /\ sentRow[m].isReplied =>
         \/ follow[m] \/ (hand.step = "sequence" /\ hand.mail = m)
         \/ \E s \in Scans : Records(s, "replyEvent", m) \/ Records(s, "sequence", m)
    /\ sentRow[m].status = "FAILED" => suppressed \/ \E s \in Scans : Records(s, "suppress", m)

RecordsInv == RecordsTyped /\ ScansKnow /\ CountedOnce /\ HandKnows /\ RepliesRecorded

recordVars == <<sentRow, follow, suppressed, hand, answers, overlapped, unmarked, broken>>

LEMMA RestingTyped ==
  /\ Resting \in ScanRec /\ Resting.step = "idle" /\ Resting.open = {} /\ Resting.since = {}
  BY DEF Resting, ScanRec

\* A scan moves on outside of the recording, or begins it.
LEMMA ScanMoves ==
  ASSUME RecordsInv, NEW s \in Scans, NEW c \in ScanRec, scan' = [scan EXCEPT ![s] = c],
         UNCHANGED recordVars, Knows(c), c.step # "replyEvent",
         scan[s].step \notin {"replyEvent", "sequence", "suppress"}
  PROVE  RecordsInv'
  <1>. USE DEF RecordsInv
  <1>u. UNCHANGED <<sentRow, follow, suppressed, hand, answers, overlapped, unmarked, broken>>
    BY DEF recordVars
  <1>1. /\ scan' \in [Scans -> ScanRec] /\ scan'[s] = c
        /\ \A t \in Scans \ {s} : scan'[t] = scan[t]
    BY DEF RecordsTyped
  <1>2. RecordsTyped'
    BY <1>u, <1>1 DEF RecordsTyped
  <1>3. ScansKnow'
    <2>1. ASSUME NEW t \in Scans
          PROVE  Knows(scan'[t])
      BY <1>1 DEF ScansKnow
    <2>. QED
      BY <1>u, <2>1 DEF ScansKnow, Knows
  <1>4. CountedOnce' /\ HandKnows'
    BY <1>u, <1>1 DEF CountedOnce, HandKnows, Records
  <1>5. RepliesRecorded'
    <2>1. \A t \in Scans, m \in Answerable, step \in {"replyEvent", "sequence", "suppress"} :
            Records(t, step, m) => Records(t, step, m)'
      BY <1>1 DEF Records
    <2>. QED
      BY <1>u, <2>1 DEF RepliesRecorded
  <1>. QED
    BY <1>2, <1>3, <1>4, <1>5

LEMMA RecordsRest ==
  ASSUME RecordsInv, UNCHANGED recordVars, UNCHANGED scan
  PROVE  RecordsInv'
  <1>u. UNCHANGED <<sentRow, follow, suppressed, hand, answers, overlapped, unmarked, broken>>
    BY DEF recordVars
  <1>. QED
    BY <1>u DEF RecordsInv, RecordsTyped, ScansKnow, Knows, CountedOnce, HandKnows, RepliesRecorded, Records

ScanStep(s) ==
  \/ CatchUp(s) \/ Search(s) \/ ReadJobs(s) \/ StartPoll(s) \/ EndPoll(s)
  \/ \E l \in Posts : Take(s, l)
  \/ Finished(s) \/ ScanLost(s) \/ \E k \in Loops : MailEvent(k, s)

LEMMA ScanStepKept ==
  ASSUME RecordsInv, NEW s \in Scans, ScanStep(s)
  PROVE  RecordsInv'
  <1>. USE DEF recordVars, rowVars, replyHistory
  <1>t. /\ scan[s] \in ScanRec /\ Knows(scan[s]) /\ scan \in [Scans -> ScanRec]
        /\ sentRow \in [Answerable -> SentRowRec]
    BY DEF RecordsInv, RecordsTyped, ScansKnow
  <1>r. Resting \in ScanRec /\ Knows(Resting) /\ Resting.step = "idle"
    BY RestingTyped DEF Knows, RecordingSteps
  <1>0. ASSUME scan' = EndedScan(s), UNCHANGED recordVars,
               scan[s].step \notin {"replyEvent", "sequence", "suppress"}
        PROVE  RecordsInv'
    BY <1>0, <1>r, ScanMoves DEF EndedScan
  <1>1. CASE CatchUp(s) \/ (Search(s) /\ scan' # EndedScan(s)) \/ StartPoll(s)
             \/ \E k \in Loops : listed = k /\ MailEvent(k, s)
    <2>1. PICK c \in ScanRec : /\ scan' = [scan EXCEPT ![s] = c]
                               /\ c.step \in {"search", "list", "fetch"} /\ c.open = {} /\ c.since = {}
      <3>1. CASE CatchUp(s)
        <4>. DEFINE c == [scan[s] EXCEPT !.step = "search"]
        <4>1. c \in ScanRec /\ c.step = "search" /\ c.open = {} /\ c.since = {}
          BY <1>t, <3>1 DEF CatchUp, Knows, ScanRec
        <4>2. scan' = [scan EXCEPT ![s] = c]
          BY <1>t, <3>1 DEF CatchUp
        <4>. QED
          BY <4>1, <4>2
      <3>2. CASE Search(s) /\ scan' # EndedScan(s)
        <4>. DEFINE c == [scan[s] EXCEPT !.step = "list", !.seen = Here]
        <4>1. c \in ScanRec /\ c.step = "list" /\ c.open = {} /\ c.since = {}
          BY <1>t, <3>2 DEF Search, Knows, ScanRec, Here
        <4>2. scan' = [scan EXCEPT ![s] = c]
          BY <1>t, <3>2 DEF Search
        <4>. QED
          BY <4>1, <4>2
      <3>3. CASE StartPoll(s)
        <4>1. [Resting EXCEPT !.step = "fetch"] \in ScanRec
          BY DEF Resting, ScanRec
        <4>2. scan' = [scan EXCEPT ![s] = [Resting EXCEPT !.step = "fetch"]]
          BY <3>3 DEF StartPoll
        <4>. QED
          BY <4>1, <4>2 DEF Resting
      <3>4. CASE \E k \in Loops : listed = k /\ MailEvent(k, s)
        <4>1. [Resting EXCEPT !.step = "search"] \in ScanRec
          BY DEF Resting, ScanRec
        <4>2. scan' = [scan EXCEPT ![s] = [Resting EXCEPT !.step = "search"]]
          BY <3>4 DEF MailEvent
        <4>. QED
          BY <4>1, <4>2 DEF Resting
      <3>. QED
        BY <1>1, <3>1, <3>2, <3>3, <3>4
    <2>2. Knows(c)
      BY <2>1 DEF Knows, RecordingSteps
    <2>3. UNCHANGED recordVars /\ scan[s].step \in {"idle", "search"}
      BY <1>1 DEF CatchUp, Search, StartPoll, MailEvent
    <2>. QED
      BY <2>1, <2>2, <2>3, ScanMoves
  <1>2. CASE ReadJobs(s) /\ scan' # EndedScan(s)
    <2>. DEFINE c == [scan[s] EXCEPT !.step = "next", !.open = OpenJobs]
    <2>1. c \in ScanRec /\ c.step = "next" /\ c.open = OpenJobs
      BY <1>t DEF ScanRec, OpenJobs
    <2>2. Knows(c)
      BY <2>1 DEF Knows, OpenJobs, RecordingSteps
    <2>3. scan' = [scan EXCEPT ![s] = c] /\ UNCHANGED recordVars /\ scan[s].step = "list"
      BY <1>2, <1>t DEF ReadJobs
    <2>. QED
      BY <2>1, <2>2, <2>3, ScanMoves
  <1>3. ASSUME NEW l \in Posts, Take(s, l)
        PROVE  RecordsInv'
    <2>1. UNCHANGED recordVars /\ scan[s].step = "next"
      BY <1>3 DEF Take
    <2>2. CASE scan' = [scan EXCEPT ![s].seen = @ \ {l}]
      <3>. DEFINE c == [scan[s] EXCEPT !.seen = @ \ {l}]
      <3>1. c \in ScanRec /\ Knows(c) /\ c.step = "next"
        BY <1>t, <2>1 DEF ScanRec, Knows
      <3>2. scan' = [scan EXCEPT ![s] = c]
        BY <1>t, <2>2
      <3>. QED
        BY <2>1, <3>1, <3>2, ScanMoves
    <2>3. CASE scan' # [scan EXCEPT ![s].seen = @ \ {l}]
      <3>1. PICK m \in Match(s, l), step \in {"markFailed", "markReplied"} :
              scan' = [scan EXCEPT ![s].seen = @ \ {l}, ![s].mail = m, ![s].step = step]
        BY <1>3, <2>3 DEF Take
      <3>2. m \in scan[s].open
        BY <3>1 DEF Match
      <3>. DEFINE c == [scan[s] EXCEPT !.seen = @ \ {l}, !.mail = m, !.step = step]
      <3>3. /\ c \in ScanRec /\ c.step = step /\ c.mail = m
            /\ c.open = scan[s].open /\ c.since = scan[s].since
        BY <1>t, <3>2 DEF ScanRec, RecordingSteps
      <3>4. Knows(c)
        BY <1>t, <3>2, <3>3 DEF Knows
      <3>5. scan' = [scan EXCEPT ![s] = c]
        BY <1>t, <3>1
      <3>. QED
        BY <2>1, <3>3, <3>4, <3>5, ScanMoves
    <2>. QED
      BY <2>2, <2>3
  <1>4. CASE EndPoll(s) \/ Finished(s) \/ ScanLost(s)
    BY <1>0, <1>4 DEF EndPoll, Finished, ScanLost
  <1>5. CASE (Search(s) \/ ReadJobs(s)) /\ scan' = EndedScan(s)
    BY <1>0, <1>5 DEF Search, ReadJobs
  <1>6. CASE \E k \in Loops : listed # k /\ MailEvent(k, s)
    BY <1>6, RecordsRest DEF MailEvent
  <1>. QED
    BY <1>1, <1>2, <1>3, <1>4, <1>5, <1>6 DEF ScanStep

\* The scans that have m in their list learn that it is marked, and nothing else changes.
LEMMA UnawareKnows ==
  ASSUME NEW scans \in [Scans -> ScanRec], NEW m \in Answerable
  PROVE  /\ Unaware(scans, m) \in [Scans -> ScanRec]
         /\ \A t \in Scans :
              LET c == Unaware(scans, m)[t]
              IN  /\ c.step = scans[t].step /\ c.mail = scans[t].mail /\ c.open = scans[t].open
                  /\ c.since = IF m \in scans[t].open THEN scans[t].since \cup {m} ELSE scans[t].since
  <1>1. \A t \in Scans : scans[t] \in ScanRec
    OBVIOUS
  <1>. QED
    BY <1>1 DEF Unaware, ScanRec

\* The mark is set, by a scan or by hand.
LEMMA MarkedKnows ==
  ASSUME RecordsInv, NEW m \in Answerable, NEW scans \in [Scans -> ScanRec],
         scan' = Unaware(scans, m), UNCHANGED unmarked,
         sentRow' = [sentRow EXCEPT ![m].isReplied = TRUE],
         \A t \in Scans : /\ scans[t].mail = scan[t].mail /\ scans[t].open = scan[t].open
                          /\ scans[t].since = scan[t].since
                          /\ \/ scans[t].step = scan[t].step
                             \/ {scans[t].step, scan[t].step} \subseteq RecordingSteps
  PROVE  ScansKnow'
  <1>t. sentRow \in [Answerable -> SentRowRec] /\ scan \in [Scans -> ScanRec]
    BY DEF RecordsInv, RecordsTyped
  <1>1. \A x \in Answerable \ {m} : sentRow'[x] = sentRow[x]
    BY <1>t
  <1>. SUFFICES ASSUME NEW t \in Scans PROVE Knows(scan[t])'
    BY DEF ScansKnow
  <1>2. /\ scan'[t].step = scans[t].step /\ scan'[t].mail = scan[t].mail /\ scan'[t].open = scan[t].open
        /\ scan'[t].since = IF m \in scan[t].open THEN scan[t].since \cup {m} ELSE scan[t].since
    <2>1. PICK f \in [Scans -> ScanRec] : f = scans
      OBVIOUS
    <2>2. LET c == Unaware(f, m)[t]
          IN  /\ c.step = f[t].step /\ c.mail = f[t].mail /\ c.open = f[t].open
              /\ c.since = IF m \in f[t].open THEN f[t].since \cup {m} ELSE f[t].since
      BY UnawareKnows
    <2>3. PICK c : c = Unaware(f, m)[t]
      OBVIOUS
    <2>4. scan'[t] = c
      BY <2>1, <2>3
    <2>5. f[t].mail = scan[t].mail /\ f[t].open = scan[t].open /\ f[t].since = scan[t].since
      BY <2>1
    <2>. QED
      BY <2>1, <2>2, <2>3, <2>4, <2>5
  <1>3. Knows(scan[t])
    BY DEF RecordsInv, ScansKnow
  <1>4. scan[t].open \subseteq Answerable
    BY <1>t DEF ScanRec
  <1>5. \A x \in scan'[t].open \ unmarked : sentRow'[x].isReplied => x \in scan'[t].since
    BY <1>1, <1>2, <1>3, <1>4 DEF Knows
  <1>6. /\ scan'[t].step \in {"idle", "search", "list", "fetch"} => scan'[t].open = {} /\ scan'[t].since = {}
        /\ scan'[t].step \in RecordingSteps => scan'[t].mail \in scan'[t].open
    BY <1>2, <1>3 DEF Knows, RecordingSteps
  <1>. QED
    BY <1>5, <1>6 DEF Knows

LEMMA MarkRepliedKept ==
  ASSUME RecordsInv, NEW s \in Scans, MarkReplied(s)
  PROVE  RecordsInv'
  <1>. USE DEF RecordsInv
  <1>t. /\ sentRow \in [Answerable -> SentRowRec] /\ scan \in [Scans -> ScanRec]
        /\ overlapped \subseteq Answerable /\ Knows(scan[s])
    BY DEF RecordsTyped, ScansKnow
  <1>u. UNCHANGED <<follow, suppressed, hand, answers, unmarked, broken>> /\ scan[s].step = "markReplied"
    BY DEF MarkReplied
  <1>1. PICK m \in Answerable : m = scan[s].mail /\ m \in scan[s].open
    BY <1>t, <1>u DEF Knows, ScanRec, RecordingSteps
  <1>. DEFINE scans == [scan EXCEPT ![s].step = "replyEvent"]
  <1>2. /\ scans \in [Scans -> ScanRec]
        /\ \A t \in Scans : /\ scans[t].mail = scan[t].mail /\ scans[t].open = scan[t].open
                            /\ scans[t].since = scan[t].since
                            /\ scans[t].step = IF t = s THEN "replyEvent" ELSE scan[t].step
    BY <1>t DEF ScanRec, RecordingSteps
  <1>3. /\ scan' = Unaware(scans, m)
        /\ sentRow' = [sentRow EXCEPT ![m].isReplied = TRUE]
        /\ overlapped' = overlapped \cup ({m} \cap scan[s].since)
    BY <1>1 DEF MarkReplied
  <1>. HIDE DEF scans
  <1>4. ScansKnow'
    <2>1. \A t \in Scans : \/ scans[t].step = scan[t].step
                            \/ {scans[t].step, scan[t].step} \subseteq RecordingSteps
      BY <1>u, <1>2 DEF RecordingSteps
    <2>2. UNCHANGED unmarked
      BY <1>u
    <2>. QED
      BY <1>2, <1>3, <2>1, <2>2, MarkedKnows
  <1>5. /\ sentRow' \in [Answerable -> SentRowRec] /\ sentRow'[m].isReplied
        /\ sentRow'[m].status = sentRow[m].status
        /\ \A x \in Answerable \ {m} : sentRow'[x] = sentRow[x]
    BY <1>t, <1>3 DEF SentRowRec
  <1>6. /\ scan' \in [Scans -> ScanRec]
        /\ \A t \in Scans : /\ scan'[t].mail = scan[t].mail
                            /\ scan'[t].step = IF t = s THEN "replyEvent" ELSE scan[t].step
    <2>1. Unaware(scans, m) \in [Scans -> ScanRec]
      BY <1>2, UnawareKnows
    <2>2. \A t \in Scans : /\ Unaware(scans, m)[t].mail = scans[t].mail
                            /\ Unaware(scans, m)[t].step = scans[t].step
      BY <1>2, UnawareKnows
    <2>. QED
      BY <1>2, <1>3, <2>1, <2>2
  <1>7. RecordsTyped'
    BY <1>t, <1>u, <1>3, <1>5, <1>6 DEF RecordsTyped
  <1>8. CountedOnce'
    <2>. SUFFICES ASSUME NEW x \in Answerable \ (overlapped' \cup unmarked)
                  PROVE  /\ \A v, t \in Scans : Records(v, "replyEvent", x)' /\ Records(t, "replyEvent", x)' => v = t
                         /\ \A v \in Scans : Records(v, "replyEvent", x)' => answers[x] = 0 /\ sentRow'[x].isReplied
                         /\ answers[x] \in {0, 1} /\ (answers[x] = 1 => sentRow'[x].isReplied)
      BY <1>u DEF CountedOnce
    <2>1. CASE x # m
      BY <1>1, <1>3, <1>5, <1>6, <2>1 DEF CountedOnce, Records
    <2>2. CASE x = m
      <3>1. ~sentRow[m].isReplied /\ m \notin overlapped
        BY <1>t, <1>1, <1>3, <2>2 DEF Knows
      <3>2. answers[m] = 0 /\ \A v \in Scans : ~Records(v, "replyEvent", m)
        BY <2>2, <3>1 DEF CountedOnce
      <3>. QED
        BY <1>5, <1>6, <2>2, <3>2 DEF Records
    <2>. QED
      BY <2>1, <2>2
  <1>9. HandKnows'
    BY <1>u DEF HandKnows
  <1>10. RepliesRecorded'
    <2>1. \A t \in Scans, x \in Answerable, step \in {"replyEvent", "sequence", "suppress"} :
            Records(t, step, x) => Records(t, step, x)'
      BY <1>u, <1>6 DEF Records
    <2>2. Records(s, "replyEvent", m)'
      BY <1>1, <1>6 DEF Records
    <2>. QED
      BY <1>u, <1>5, <2>1, <2>2 DEF RepliesRecorded
  <1>. QED
    BY <1>4, <1>7, <1>8, <1>9, <1>10

\* The next write of a recording, or none of the rest.
LEMMA RecordingGoesOn ==
  ASSUME RecordsInv, NEW s \in Scans, NEW to \in {"sequence", "suppress", "next"},
         scan[s].step \in RecordingSteps,
         scan' = [scan EXCEPT ![s].step = to, ![s].mail = IF to = "next" THEN NoAnswerable ELSE @]
  PROVE  /\ scan' \in [Scans -> ScanRec] /\ scan[s].mail \in Answerable
         /\ scan'[s].step = to /\ scan'[s].open = scan[s].open /\ scan'[s].since = scan[s].since
         /\ to # "next" => scan'[s].mail = scan[s].mail
         /\ \A t \in Scans \ {s} : scan'[t] = scan[t]
         /\ UNCHANGED unmarked /\ (\A m \in Answerable : sentRow'[m].isReplied = sentRow[m].isReplied)
              => ScansKnow'
  <1>t. scan \in [Scans -> ScanRec] /\ \A t \in Scans : Knows(scan[t])
    BY DEF RecordsInv, RecordsTyped, ScansKnow
  <1>1. scan[s].mail \in Answerable /\ scan[s].mail \in scan[s].open
    BY <1>t DEF Knows, ScanRec
  <1>2. PICK mail \in Answerable \cup {NoAnswerable} :
          mail = (IF to = "next" THEN NoAnswerable ELSE scan[s].mail)
    BY <1>1
  <1>x. PICK x \in ScanRec : x = scan[s]
    BY <1>t
  <1>c. PICK c : c = [x EXCEPT !.step = to, !.mail = mail]
    OBVIOUS
  <1>3. /\ c \in ScanRec /\ c.step = to /\ c.mail = mail
        /\ c.open = scan[s].open /\ c.since = scan[s].since
    BY <1>x, <1>c DEF ScanRec, RecordingSteps
  <1>4. scan' = [scan EXCEPT ![s] = c]
    BY <1>t, <1>2, <1>x, <1>c
  <1>5. scan' \in [Scans -> ScanRec] /\ scan'[s] = c /\ \A t \in Scans \ {s} : scan'[t] = scan[t]
    BY <1>t, <1>3, <1>4
  <1>6. ASSUME UNCHANGED unmarked, \A m \in Answerable : sentRow'[m].isReplied = sentRow[m].isReplied
        PROVE  ScansKnow'
    <2>. SUFFICES ASSUME NEW t \in Scans PROVE Knows(scan[t])'
      BY DEF ScansKnow
    <2>1. scan'[t].open = scan[t].open /\ scan'[t].since = scan[t].since /\ scan[t].open \subseteq Answerable
      BY <1>t, <1>3, <1>5 DEF ScanRec
    <2>2. scan'[t].step \in RecordingSteps => scan'[t].mail \in scan'[t].open
      BY <1>t, <1>1, <1>2, <1>3, <1>5 DEF Knows, RecordingSteps
    <2>3. scan'[t].step \in {"idle", "search", "list", "fetch"} => scan'[t] = scan[t]
      BY <1>3, <1>5
    <2>. QED
      BY <1>t, <1>6, <2>1, <2>2, <2>3 DEF Knows
  <1>. QED
    BY <1>1, <1>2, <1>3, <1>5, <1>6

LEMMA ReplyEventKept ==
  ASSUME RecordsInv, NEW s \in Scans, ReplyEvent(s)
  PROVE  RecordsInv'
  <1>. USE DEF RecordsInv, rowVars
  <1>u. /\ UNCHANGED <<sentRow, follow, suppressed, hand, overlapped, unmarked, broken>>
        /\ scan[s].step = "replyEvent" /\ answers' = [answers EXCEPT ![scan[s].mail] = @ + 1]
    BY DEF ReplyEvent, GoOn
  <1>1. /\ scan' \in [Scans -> ScanRec] /\ scan[s].mail \in Answerable /\ ScansKnow'
        /\ scan'[s].step = "sequence" /\ scan'[s].mail = scan[s].mail
        /\ \A t \in Scans \ {s} : scan'[t] = scan[t]
    BY <1>u, RecordingGoesOn DEF ReplyEvent, GoOn, RecordingSteps
  <1>2. PICK m \in Answerable : m = scan[s].mail
    BY <1>1
  <1>3. answers' \in [Answerable -> Nat] /\ answers'[m] = answers[m] + 1
        /\ \A x \in Answerable \ {m} : answers'[x] = answers[x]
    BY <1>u, <1>2 DEF RecordsTyped
  <1>4. RecordsTyped'
    BY <1>u, <1>1, <1>3 DEF RecordsTyped
  <1>5. CountedOnce'
    <2>. SUFFICES ASSUME NEW x \in Answerable \ (overlapped \cup unmarked)
                  PROVE  /\ \A v, t \in Scans : Records(v, "replyEvent", x)' /\ Records(t, "replyEvent", x)' => v = t
                         /\ \A v \in Scans : Records(v, "replyEvent", x)' => answers'[x] = 0 /\ sentRow[x].isReplied
                         /\ answers'[x] \in {0, 1} /\ (answers'[x] = 1 => sentRow[x].isReplied)
      BY <1>u DEF CountedOnce
    <2>1. CASE x # m
      BY <1>1, <1>2, <1>3, <2>1 DEF CountedOnce, Records
    <2>2. CASE x = m
      <3>1. answers[m] = 0 /\ sentRow[m].isReplied /\ \A v \in Scans : Records(v, "replyEvent", m) => v = s
        BY <1>u, <1>2, <2>2 DEF CountedOnce, Records
      <3>2. \A v \in Scans : ~Records(v, "replyEvent", m)'
        BY <1>1, <3>1 DEF Records
      <3>. QED
        BY <1>3, <2>2, <3>1, <3>2
    <2>. QED
      BY <2>1, <2>2
  <1>6. HandKnows'
    BY <1>u DEF HandKnows
  <1>7. RepliesRecorded'
    <2>1. \A t \in Scans, x \in Answerable : Records(t, "suppress", x) => Records(t, "suppress", x)'
      BY <1>u, <1>1 DEF Records
    <2>2. \A t \in Scans, x \in Answerable :
            Records(t, "replyEvent", x) \/ Records(t, "sequence", x) =>
              Records(t, "replyEvent", x)' \/ Records(t, "sequence", x)'
      BY <1>u, <1>1 DEF Records
    <2>. QED
      BY <1>u, <2>1, <2>2 DEF RepliesRecorded
  <1>. QED
    BY <1>1, <1>4, <1>5, <1>6, <1>7

LEMMA StopSequenceKept ==
  ASSUME RecordsInv, NEW s \in Scans, StopSequence(s)
  PROVE  RecordsInv'
  <1>. USE DEF RecordsInv
  <1>u. /\ UNCHANGED <<sentRow, suppressed, hand, answers, overlapped, unmarked, broken>>
        /\ scan[s].step = "sequence" /\ follow' = [follow EXCEPT ![scan[s].mail] = TRUE]
    BY DEF StopSequence, GoOn
  <1>1. /\ scan' \in [Scans -> ScanRec] /\ scan[s].mail \in Answerable /\ ScansKnow'
        /\ scan'[s].step = "next" /\ \A t \in Scans \ {s} : scan'[t] = scan[t]
    BY <1>u, RecordingGoesOn DEF StopSequence, GoOn, RecordingSteps
  <1>2. follow' \in [Answerable -> BOOLEAN] /\ follow'[scan[s].mail]
        /\ \A x \in Answerable : follow[x] => follow'[x]
    BY <1>u, <1>1 DEF RecordsTyped
  <1>3. RecordsTyped'
    BY <1>u, <1>1, <1>2 DEF RecordsTyped
  <1>4. CountedOnce' /\ HandKnows'
    <2>1. \A t \in Scans, x \in Answerable : Records(t, "replyEvent", x)' => Records(t, "replyEvent", x)
      BY <1>1 DEF Records
    <2>. QED
      BY <1>u, <2>1 DEF CountedOnce, HandKnows
  <1>5. RepliesRecorded'
    <2>1. \A t \in Scans, x \in Answerable : Records(t, "suppress", x) => Records(t, "suppress", x)'
      BY <1>u, <1>1 DEF Records
    <2>2. \A t \in Scans, x \in Answerable :
            Records(t, "replyEvent", x) \/ Records(t, "sequence", x) =>
              follow'[x] \/ Records(t, "replyEvent", x)' \/ Records(t, "sequence", x)'
      BY <1>u, <1>1, <1>2 DEF Records
    <2>. QED
      BY <1>u, <1>2, <2>1, <2>2 DEF RepliesRecorded
  <1>. QED
    BY <1>1, <1>3, <1>4, <1>5

LEMMA BounceKept ==
  ASSUME RecordsInv, NEW s \in Scans, MarkFailed(s) \/ Suppress(s)
  PROVE  RecordsInv'
  <1>. USE DEF RecordsInv
  <1>u. UNCHANGED <<follow, hand, answers, overlapped, unmarked, broken>>
        /\ scan[s].step \in {"markFailed", "suppress"}
    BY DEF MarkFailed, Suppress, GoOn
  <1>t. sentRow \in [Answerable -> SentRowRec]
    BY DEF RecordsTyped
  <1>1. CASE MarkFailed(s)
    <2>1. PICK m \in Answerable : m = scan[s].mail
      BY <1>1, RecordingGoesOn DEF MarkFailed, GoOn, RecordingSteps
    <2>2. sentRow' = [sentRow EXCEPT ![m].status = "FAILED"] /\ UNCHANGED suppressed
      BY <1>1, <2>1 DEF MarkFailed
    <2>3. /\ sentRow' \in [Answerable -> SentRowRec]
          /\ \A x \in Answerable : sentRow'[x].isReplied = sentRow[x].isReplied
          /\ \A x \in Answerable \ {m} : sentRow'[x] = sentRow[x]
      BY <1>t, <2>2 DEF SentRowRec
    <2>4. /\ scan' \in [Scans -> ScanRec] /\ ScansKnow'
          /\ scan'[s].step = "suppress" /\ scan'[s].mail = m
          /\ \A t \in Scans \ {s} : scan'[t] = scan[t]
      BY <1>1, <1>u, <2>1, <2>3, RecordingGoesOn DEF MarkFailed, GoOn, RecordingSteps
    <2>5. RecordsTyped'
      BY <1>u, <2>2, <2>3, <2>4 DEF RecordsTyped
    <2>6. CountedOnce' /\ HandKnows'
      <3>1. \A t \in Scans, x \in Answerable : Records(t, "replyEvent", x)' => Records(t, "replyEvent", x)
        BY <2>4 DEF Records
      <3>. QED
        BY <1>u, <2>3, <3>1 DEF CountedOnce, HandKnows
    <2>7. RepliesRecorded'
      <3>1. \A t \in Scans, x \in Answerable, step \in {"replyEvent", "sequence", "suppress"} :
              Records(t, step, x) => Records(t, step, x)'
        BY <1>1, <2>4 DEF Records, MarkFailed, GoOn
      <3>2. Records(s, "suppress", m)'
        BY <2>4 DEF Records
      <3>. QED
        BY <1>u, <2>2, <2>3, <3>1, <3>2 DEF RepliesRecorded
    <2>. QED
      BY <2>4, <2>5, <2>6, <2>7
  <1>2. CASE Suppress(s)
    <2>1. UNCHANGED sentRow /\ suppressed' = TRUE /\ scan[s].step = "suppress"
      BY <1>2 DEF Suppress, GoOn
    <2>2. /\ scan' \in [Scans -> ScanRec] /\ ScansKnow'
          /\ scan'[s].step = "next" /\ \A t \in Scans \ {s} : scan'[t] = scan[t]
      BY <1>2, <1>u, <2>1, RecordingGoesOn DEF Suppress, GoOn, RecordingSteps
    <2>3. RecordsTyped'
      BY <1>u, <2>1, <2>2 DEF RecordsTyped
    <2>4. CountedOnce' /\ HandKnows'
      <3>1. \A t \in Scans, x \in Answerable : Records(t, "replyEvent", x)' => Records(t, "replyEvent", x)
        BY <2>2 DEF Records
      <3>. QED
        BY <1>u, <2>1, <3>1 DEF CountedOnce, HandKnows
    <2>5. RepliesRecorded'
      <3>1. \A t \in Scans, x \in Answerable, step \in {"replyEvent", "sequence"} :
              Records(t, step, x) => Records(t, step, x)'
        BY <2>1, <2>2 DEF Records
      <3>. QED
        BY <1>u, <2>1, <3>1 DEF RepliesRecorded
    <2>. QED
      BY <2>2, <2>3, <2>4, <2>5
  <1>. QED
    BY <1>1, <1>2

LEMMA RecordingBreaks ==
  ASSUME RecordsInv, NEW s \in Scans, WriteFails(s)
  PROVE  RecordsInv'
  <1>. USE DEF RecordsInv, rowVars
  <1>u. /\ UNCHANGED <<sentRow, follow, suppressed, hand, answers, overlapped, unmarked>>
        /\ scan[s].step \in RecordingSteps /\ broken' = broken \cup {scan[s].mail}
    BY DEF WriteFails, Recording
  <1>1. scan' = [scan EXCEPT ![s].step = "next", ![s].mail = IF "next" = "next" THEN NoAnswerable ELSE @]
    BY DEF WriteFails
  <1>2. /\ scan' \in [Scans -> ScanRec] /\ scan[s].mail \in Answerable /\ ScansKnow'
        /\ scan'[s].step = "next" /\ \A t \in Scans \ {s} : scan'[t] = scan[t]
    BY <1>u, <1>1, RecordingGoesOn
  <1>3. RecordsTyped'
    BY <1>u, <1>2 DEF RecordsTyped
  <1>4. CountedOnce' /\ HandKnows'
    <2>1. \A t \in Scans, x \in Answerable : Records(t, "replyEvent", x)' => Records(t, "replyEvent", x)
      BY <1>2 DEF Records
    <2>. QED
      BY <1>u, <2>1 DEF CountedOnce, HandKnows
  <1>5. RepliesRecorded'
    <2>1. \A t \in Scans, x \in Answerable \ broken', step \in {"replyEvent", "sequence", "suppress"} :
            Records(t, step, x) => Records(t, step, x)'
      BY <1>u, <1>2 DEF Records
    <2>. QED
      BY <1>u, <2>1 DEF RepliesRecorded
  <1>. QED
    BY <1>2, <1>3, <1>4, <1>5

\* Whatever was being recorded is broken off.
LEMMA RestartKept ==
  ASSUME RecordsInv, WorkerRestarts
  PROVE  RecordsInv'
  <1>. USE DEF RecordsInv, rowVars
  <1>u. /\ UNCHANGED <<sentRow, follow, suppressed, hand, answers, overlapped, unmarked>>
        /\ broken' = broken \cup UNION {Recording(s) : s \in Scans}
        /\ scan' = [s \in Scans |-> Resting]
    BY DEF WorkerRestarts
  <1>1. scan' \in [Scans -> ScanRec] /\ \A t \in Scans : scan'[t] = Resting
    BY <1>u, RestingTyped
  <1>2. \A s \in Scans : Recording(s) \subseteq Answerable /\ Recording(s) \subseteq broken'
    <2>1. \A s \in Scans : Recording(s) \subseteq Answerable
      BY DEF Recording, ScansKnow, Knows, RecordsTyped, ScanRec
    <2>. QED
      BY <1>u, <2>1
  <1>3. RecordsTyped'
    BY <1>u, <1>1, <1>2 DEF RecordsTyped
  <1>4. ScansKnow'
    BY <1>1, RestingTyped DEF ScansKnow, Knows, RecordingSteps
  <1>5. CountedOnce' /\ HandKnows'
    BY <1>u, <1>1, RestingTyped DEF CountedOnce, HandKnows, Records
  <1>6. RepliesRecorded'
    <2>1. \A t \in Scans, x \in Answerable \ broken', step \in {"replyEvent", "sequence", "suppress"} :
            ~Records(t, step, x)
      BY <1>2 DEF Records, Recording, RecordingSteps
    <2>. QED
      BY <1>u, <2>1 DEF RepliesRecorded
  <1>. QED
    BY <1>3, <1>4, <1>5, <1>6

LEMMA HandKept ==
  ASSUME RecordsInv, (\E m \in Answerable : ToggleReplied(m)) \/ ToggleRow \/ ToggleSequence
  PROVE  RecordsInv'
  <1>. USE DEF RecordsInv, rowVars, replyHistory
  <1>t. /\ sentRow \in [Answerable -> SentRowRec] /\ scan \in [Scans -> ScanRec] /\ hand \in HandRec
        /\ follow \in [Answerable -> BOOLEAN] /\ unmarked \subseteq Answerable
    BY DEF RecordsTyped
  <1>1. ASSUME NEW m \in Answerable, ToggleReplied(m)
        PROVE  RecordsInv'
    <2>1. /\ UNCHANGED <<sentRow, follow, suppressed, scan, answers, overlapped, unmarked, broken>>
          /\ hand.step = "idle" /\ hand' = [step |-> "row", mail |-> m, to |-> ~sentRow[m].isReplied]
      BY <1>1 DEF ToggleReplied
    <2>2. hand' \in HandRec
      BY <1>t, <2>1 DEF HandRec
    <2>3. RecordsTyped' /\ ScansKnow' /\ CountedOnce'
      BY <2>1, <2>2 DEF RecordsTyped, ScansKnow, Knows, CountedOnce, Records
    <2>4. HandKnows' /\ RepliesRecorded'
      BY <2>1 DEF HandKnows, RepliesRecorded, Records
    <2>. QED
      BY <2>3, <2>4
  <1>2. CASE ToggleRow
    <2>u. /\ UNCHANGED <<follow, suppressed, answers, overlapped, broken>>
          /\ hand.step = "row" /\ hand' = [hand EXCEPT !.step = "sequence"]
      BY <1>2 DEF ToggleRow
    <2>1. PICK m \in Answerable : m = hand.mail
      BY <2>u DEF HandKnows
    <2>2. hand' \in HandRec /\ hand'.step = "sequence" /\ hand'.mail = m /\ hand'.to = hand.to
      BY <1>t, <2>u, <2>1 DEF HandRec
    <2>3. /\ sentRow' = [sentRow EXCEPT ![m].isReplied = hand.to]
          /\ scan' = IF hand.to THEN Unaware(scan, m) ELSE scan
          /\ unmarked' = IF hand.to THEN unmarked ELSE unmarked \cup {m}
      BY <1>2, <2>1 DEF ToggleRow
    <2>4. /\ sentRow' \in [Answerable -> SentRowRec] /\ sentRow'[m].isReplied = hand.to
          /\ \A x \in Answerable : sentRow'[x].status = sentRow[x].status
          /\ \A x \in Answerable \ {m} : sentRow'[x] = sentRow[x]
      <3>1. hand.to \in BOOLEAN
        BY <1>t DEF HandRec
      <3>. QED
        BY <1>t, <2>3, <3>1 DEF SentRowRec
    <2>5. /\ scan' \in [Scans -> ScanRec]
          /\ \A t \in Scans : scan'[t].step = scan[t].step /\ scan'[t].mail = scan[t].mail
      <3>1. Unaware(scan, m) \in [Scans -> ScanRec]
        BY <1>t, UnawareKnows
      <3>2. \A t \in Scans : /\ Unaware(scan, m)[t].step = scan[t].step
                              /\ Unaware(scan, m)[t].mail = scan[t].mail
        BY <1>t, UnawareKnows
      <3>3. CASE hand.to
        BY <2>3, <3>1, <3>2, <3>3
      <3>4. CASE ~hand.to
        BY <1>t, <2>3, <3>4
      <3>. QED
        BY <3>3, <3>4
    <2>6. \A t \in Scans, x \in Answerable, step \in RecordingSteps : Records(t, step, x)' <=> Records(t, step, x)
      BY <2>5 DEF Records
    <2>7. RecordsTyped'
      BY <1>t, <2>u, <2>1, <2>2, <2>3, <2>4, <2>5 DEF RecordsTyped
    <2>8. HandKnows'
      BY <2>2, <2>3 DEF HandKnows
    <2>9. CountedOnce'
      <3>1. \A x \in Answerable \ unmarked' : sentRow[x].isReplied => sentRow'[x].isReplied
        BY <2>1, <2>3, <2>4
      <3>. QED
        BY <2>u, <2>3, <2>6, <3>1 DEF CountedOnce, RecordingSteps
    <2>10. ScansKnow'
      <3>1. CASE hand.to
        BY <1>t, <2>1, <2>3, <3>1, MarkedKnows
      <3>2. CASE ~hand.to
        <4>1. ASSUME NEW t \in Scans
              PROVE  Knows(scan[t])'
          <5>1. scan'[t] = scan[t] /\ scan[t].open \subseteq Answerable /\ Knows(scan[t])
            BY <1>t, <2>3, <3>2 DEF ScansKnow, ScanRec
          <5>. QED
            BY <2>1, <2>3, <2>4, <3>2, <5>1 DEF Knows
        <4>. QED
          BY <4>1 DEF ScansKnow
      <3>. QED
        BY <3>1, <3>2
    <2>11. RepliesRecorded'
      <3>. SUFFICES ASSUME NEW x \in Answerable \ (broken \cup unmarked')
                    PROVE  /\ sentRow'[x].isReplied =>
                                \/ follow'[x] \/ (hand'.step = "sequence" /\ hand'.mail = x)
                                \/ \E s \in Scans : Records(s, "replyEvent", x)' \/ Records(s, "sequence", x)'
                           /\ sentRow'[x].status = "FAILED" => suppressed' \/ \E s \in Scans : Records(s, "suppress", x)'
        BY <2>u DEF RepliesRecorded
      <3>1. x \notin unmarked
        BY <2>3
      <3>2. CASE x = m
        BY <2>u, <2>2, <2>4, <2>6, <3>1, <3>2 DEF RepliesRecorded, RecordingSteps
      <3>3. CASE x # m
        BY <2>u, <2>4, <2>6, <3>1, <3>3 DEF RepliesRecorded, RecordingSteps
      <3>. QED
        BY <3>2, <3>3
    <2>. QED
      BY <2>7, <2>8, <2>9, <2>10, <2>11
  <1>3. CASE ToggleSequence
    <2>1. /\ UNCHANGED <<sentRow, suppressed, scan, answers, overlapped, unmarked, broken>>
          /\ hand.step = "sequence" /\ hand' = NoHand /\ follow' = [follow EXCEPT ![hand.mail] = hand.to]
      BY <1>3 DEF ToggleSequence
    <2>2. PICK m \in Answerable : m = hand.mail
      BY <2>1 DEF HandKnows
    <2>3. follow' \in [Answerable -> BOOLEAN] /\ follow'[m] = hand.to
          /\ \A x \in Answerable \ {m} : follow'[x] = follow[x]
      <3>1. hand.to \in BOOLEAN
        BY <1>t DEF HandRec
      <3>. QED
        BY <1>t, <2>1, <2>2, <3>1
    <2>4. hand' \in HandRec /\ hand'.step = "idle"
      BY <2>1 DEF NoHand, HandRec
    <2>5. RecordsTyped' /\ ScansKnow' /\ CountedOnce' /\ HandKnows'
      BY <2>1, <2>3, <2>4 DEF RecordsTyped, ScansKnow, Knows, CountedOnce, Records, HandKnows
    <2>6. RepliesRecorded'
      <3>. SUFFICES ASSUME NEW x \in Answerable \ (broken \cup unmarked)
                    PROVE  /\ sentRow[x].isReplied =>
                                \/ follow'[x]
                                \/ \E s \in Scans : Records(s, "replyEvent", x) \/ Records(s, "sequence", x)
                           /\ sentRow[x].status = "FAILED" => suppressed \/ \E s \in Scans : Records(s, "suppress", x)
        BY <2>1 DEF RepliesRecorded, Records
      <3>1. x = m => follow'[x]
        BY <2>1, <2>2, <2>3 DEF HandKnows
      <3>. QED
        BY <2>2, <2>3, <3>1 DEF RepliesRecorded
    <2>. QED
      BY <2>5, <2>6
  <1>. QED
    BY <1>1, <1>2, <1>3

LEMMA RecordsStep ==
  ASSUME RecordsInv, [ReplyNext]_replyVars
  PROVE  RecordsInv'
  <1>. USE DEF recordVars, rowVars, replyHistory
  <1>1. CASE UNCHANGED replyVars
    BY <1>1, RecordsRest DEF replyVars
  <1>2. ASSUME \/ \E l \in Posts : LetterComes(l)
               \/ SenderChanges \/ RefreshSessions \/ Booted
               \/ \E k \in Loops : LoopMoves(k)
        PROVE  RecordsInv'
    BY <1>2, RecordsRest DEF LetterComes, SenderChanges, RefreshSessions, Booted, LoopMoves
  <1>3. ASSUME NEW s \in Scans, ScanStep(s)
        PROVE  RecordsInv'
    BY <1>3, ScanStepKept
  <1>4. ASSUME NEW s \in Scans,
               \/ MarkReplied(s) \/ ReplyEvent(s) \/ StopSequence(s) \/ MarkFailed(s) \/ Suppress(s)
               \/ WriteFails(s)
        PROVE  RecordsInv'
    BY <1>4, MarkRepliedKept, ReplyEventKept, StopSequenceKept, BounceKept, RecordingBreaks
  <1>5. CASE WorkerRestarts \/ (\E m \in Answerable : ToggleReplied(m)) \/ ToggleRow \/ ToggleSequence
    BY <1>5, RestartKept, HandKept
  <1>. QED
    BY <1>1, <1>2, <1>3, <1>4, <1>5 DEF ReplyNext, ScanStep

\* Letters, sessions and the bound.
LEMMA AroundStep ==
  ASSUME AroundTyped, [ReplyNext]_replyVars
  PROVE  AroundTyped'
  <1>. USE DEF AroundTyped, sessionVars
  <1>1. UNCHANGED post => post' \in [Posts -> [kind : Kinds \cup {"none"}, names : Answerable \cup {NoAnswerable}]]
    OBVIOUS
  <1>2. UNCHANGED sessionVars => /\ loopAt' \in [Loops -> {"none", "connecting", "open"}]
                                 /\ listed' \in Loops \cup {NoLoop} /\ active' \in BOOLEAN /\ booting' \in BOOLEAN
    OBVIOUS
  <1>3. UNCHANGED mishaps \/ Mishap => mishaps' \in 0 .. MaxMishaps
    BY ReplyAssumption DEF Mishap, ReplyAssumption
  <1>4. CASE UNCHANGED replyVars
    BY <1>4 DEF replyVars
  <1>5. ASSUME NEW l \in Posts, LetterComes(l)
        PROVE  AroundTyped'
    BY <1>5 DEF LetterComes
  <1>6. CASE SenderChanges
    <2>1. mishaps' \in 0 .. MaxMishaps /\ active' \in BOOLEAN
      BY <1>3, <1>6 DEF SenderChanges, ActiveAgain, FallsOut
    <2>. QED
      BY <1>6, <2>1 DEF SenderChanges
  <1>7. CASE RefreshSessions
    BY <1>7 DEF RefreshSessions, DropSession, OpenSession
  <1>8. ASSUME NEW k \in Loops, LoopMoves(k) \/ \E s \in Scans : MailEvent(k, s)
        PROVE  AroundTyped'
    BY <1>8 DEF LoopMoves, MailEvent
  <1>9. CASE Booted
    BY <1>9 DEF Booted
  <1>10. ASSUME NEW s \in Scans,
               \/ CatchUp(s) \/ Search(s) \/ ReadJobs(s) \/ StartPoll(s) \/ EndPoll(s)
               \/ \E l \in Posts : Take(s, l)
               \/ Finished(s) \/ MarkReplied(s) \/ ReplyEvent(s) \/ StopSequence(s)
               \/ MarkFailed(s) \/ Suppress(s)
        PROVE  AroundTyped'
    BY <1>10 DEF CatchUp, Search, ReadJobs, StartPoll, EndPoll, Take, Finished, MarkReplied, ReplyEvent,
       StopSequence, MarkFailed, Suppress, GoOn
  <1>11. ASSUME NEW s \in Scans, WriteFails(s) \/ ScanLost(s)
        PROVE  AroundTyped'
    <2>1. mishaps' \in 0 .. MaxMishaps
      BY <1>3, <1>11 DEF WriteFails, ScanLost
    <2>. QED
      BY <1>11, <2>1 DEF WriteFails, ScanLost
  <1>12. CASE WorkerRestarts
    <2>1. mishaps' \in 0 .. MaxMishaps
      BY <1>3, <1>12 DEF WorkerRestarts
    <2>. QED
      BY <1>12, <2>1 DEF WorkerRestarts
  <1>13. ASSUME (\E m \in Answerable : ToggleReplied(m)) \/ ToggleRow \/ ToggleSequence
        PROVE  AroundTyped'
    <2>1. mishaps' \in 0 .. MaxMishaps
      BY <1>3, <1>13 DEF ToggleReplied, ToggleRow, ToggleSequence
    <2>. QED
      BY <1>13, <2>1 DEF ToggleReplied, ToggleRow, ToggleSequence
  <1>. QED
    BY <1>4, <1>5, <1>6, <1>7, <1>8, <1>9, <1>10, <1>11, <1>12, <1>13 DEF ReplyNext

LEMMA RepliesInit == ReplyInit => RecordsInv /\ AroundTyped
  <1>. SUFFICES ASSUME ReplyInit PROVE RecordsInv /\ AroundTyped
    OBVIOUS
  <1>. USE DEF ReplyInit
  <1>1. NoHand \in HandRec /\ NoHand.step = "idle"
    BY DEF NoHand, HandRec
  <1>2. RecordsTyped
    BY <1>1, RestingTyped DEF RecordsTyped, SentRowRec
  <1>3. ScansKnow /\ CountedOnce /\ HandKnows /\ RepliesRecorded
    BY <1>1, RestingTyped DEF ScansKnow, Knows, CountedOnce, HandKnows, RepliesRecorded, Records, RecordingSteps
  <1>4. AroundTyped
    BY ReplyAssumption DEF AroundTyped, ReplyAssumption, Kinds
  <1>. QED
    BY <1>2, <1>3, <1>4 DEF RecordsInv

LEMMA RepliesAlways == ReplySpec => [](RecordsInv /\ AroundTyped)
  <1>1. RecordsInv /\ AroundTyped /\ [ReplyNext]_replyVars => RecordsInv' /\ AroundTyped'
    BY RecordsStep, AroundStep
  <1>. QED
    BY <1>1, RepliesInit, PTL DEF ReplySpec

LEMMA RepliesTyped == RecordsInv /\ AroundTyped => ReplyTypeOK
  <1>. SUFFICES ASSUME RecordsInv, AroundTyped PROVE ReplyTypeOK
    OBVIOUS
  <1>1. \A s \in Scans :
          /\ scan[s].step \in {"idle", "search", "list", "fetch", "next"} \cup RecordingSteps
          /\ scan[s].seen \subseteq Posts /\ scan[s].open \subseteq Answerable
          /\ scan[s].mail \in Answerable \cup {NoAnswerable} /\ scan[s].since \subseteq Answerable
          /\ (scan[s].step \in RecordingSteps) => scan[s].mail \in Answerable
    BY DEF RecordsInv, RecordsTyped, ScanRec, ScansKnow, Knows
  <1>. QED
    BY <1>1 DEF RecordsInv, RecordsTyped, AroundTyped, SentRowRec, HandRec, ReplyTypeOK

\* Every variable of the reply detection keeps its type, for any mails, letters, scans and
\* sessions; a scan that records has the mail it records.
THEOREM ReplyTypeCorrect == ReplySpec => []ReplyTypeOK
  BY RepliesTyped, RepliesAlways, PTL

\* However scans, sessions, restarts, failing writes and the user's own marks interleave: a
\* reply is counted a second time only by a scan that had read its list before the first was
\* marked, or after somebody took the mark back; and the follow-ups of a mail that is marked
\* replied stop, and a bounced address is suppressed, unless the recording broke off
\* half-way (matchHeadersAndResolve and toggleReplied).
THEOREM ReplySoundCorrect == ReplySpec => []ReplySound
  <1>1. RecordsInv /\ AroundTyped => ReplySound
    <2>. SUFFICES ASSUME RecordsInv PROVE ReplySound
      OBVIOUS
    <2>1. CountedTwiceOnlyByOverlap
      BY DEF RecordsInv, CountedOnce, CountedTwiceOnlyByOverlap
    <2>2. FollowUpsStop
      BY DEF RecordsInv, RepliesRecorded, Records, Recording, RecordingSteps, FollowUpsStop
    <2>. QED
      BY <2>1, <2>2 DEF ReplySound
  <1>. QED
    BY <1>1, RepliesAlways, PTL

(***************************************************************************)
(* SendTiming: hours of days and days of weeks, for days and weeks of any  *)
(* length.                                                                 *)
(***************************************************************************)
LEMMA Divided ==
  ASSUME NEW n \in Nat \ {0}, NEW q \in Int, NEW r \in 0 .. n - 1
  PROVE  (q * n + r) % n = r /\ (q * n + r) \div n = q
  OBVIOUS

LEMMA Remainder ==
  ASSUME NEW n \in Nat \ {0}, NEW a \in Int
  PROVE  a % n \in 0 .. n - 1 /\ a \div n \in Int /\ a = (a \div n) * n + (a % n)
  <1>1. a % n \in 0 .. n - 1 /\ a = n * (a \div n) + (a % n) /\ a \div n \in Int
    OBVIOUS
  <1>2. \A d \in Int : n * d = d * n
    OBVIOUS
  <1>. QED
    BY <1>1, <1>2

\* A set of hours that is not empty has a first one.
LEMMA FirstOfSet ==
  ASSUME NEW ts \in SUBSET Nat, ts # {}
  PROVE  FirstOf(ts) \in ts
  <1>. DEFINE R == {ss \in Nat \X Nat : ss[1] < ss[2]}
  <1>1. IsWellFoundedOn(R, Nat)
    BY NatLessThanWellFounded DEF OpToRel
  <1>2. \A a, b \in Nat : a < b => <<a, b>> \in R
    OBVIOUS
  <1>. HIDE DEF R
  <1>3. PICK t \in ts : \A u \in ts : ~(<<u, t>> \in R)
    BY <1>1, WFMin
  <1>4. \A u \in ts : t <= u
    <2>. SUFFICES ASSUME NEW u \in ts PROVE ~(u < t)
      OBVIOUS
    <2>. QED
      BY <1>2, <1>3
  <1>. QED
    BY <1>4 DEF FirstOf

WeekHours == HoursPerDay * DaysPerWeek

LEMMA WeekIsLonger ==
  /\ HoursPerDay \in Nat \ {0} /\ DaysPerWeek \in Nat \ {0} /\ WeekHours \in Nat
  /\ WeekHours >= HoursPerDay /\ \A d \in 0..DaysPerWeek : d * HoursPerDay <= WeekHours
  <1>1. HoursPerDay \in Nat \ {0} /\ DaysPerWeek \in Nat \ {0}
    BY TimingAssumption DEF TimingAssumption
  <1>. QED
    BY <1>1 DEF WeekHours

LEMMA LatestIsLate ==
  Latest \in Nat /\ Latest >= Horizon + MaxGap + 4 * WeekHours /\ Horizon \in Nat /\ MaxGap \in Nat
  /\ MaxDeferrals \in Nat
  <1>1. MaxWait \in Nat /\ Horizon \in Nat /\ MaxGap \in Nat /\ MaxDeferrals \in Nat
    BY TimingAssumption DEF TimingAssumption
  <1>2. (MaxWait + 4) * DaysPerWeek * HoursPerDay = MaxWait * WeekHours + 4 * WeekHours
    BY <1>1, WeekIsLonger DEF WeekHours
  <1>3. MaxWait * WeekHours \in Nat
    BY <1>1, WeekIsLonger
  <1>. QED
    BY <1>1, <1>2, <1>3, WeekIsLonger DEF Latest

\* The hour h of the day d of the q-th week.
LEMMA HourAndDay ==
  ASSUME NEW q \in Int, NEW d \in Week, NEW h \in DayHours
  PROVE  LET t == q * WeekHours + d * HoursPerDay + h IN
         t % HoursPerDay = h /\ (t \div HoursPerDay) % DaysPerWeek = d
  <1>. DEFINE p == q * DaysPerWeek + d
  <1>1. p \in Int /\ p % DaysPerWeek = d
    BY WeekIsLonger, Divided DEF Week
  <1>2. q * WeekHours + d * HoursPerDay + h = p * HoursPerDay + h
    BY WeekIsLonger DEF WeekHours, Week, DayHours
  <1>. HIDE DEF p
  <1>3. (p * HoursPerDay + h) % HoursPerDay = h /\ (p * HoursPerDay + h) \div HoursPerDay = p
    BY <1>1, WeekIsLonger, Divided DEF DayHours
  <1>. QED
    BY <1>1, <1>2, <1>3

\* In UTC the hour is that of the day.
LEMMA HourOfUtc ==
  ASSUME NEW q \in Nat, NEW h \in DayHours
  PROVE  getHourInTimezone(q * HoursPerDay + h, 0) = h
  <1>. DEFINE p == q + DaysPerWeek
  <1>1. p \in Int /\ Local(q * HoursPerDay + h, 0) = p * HoursPerDay + h
    BY WeekIsLonger DEF Local, DayHours
  <1>. HIDE DEF p
  <1>. QED
    BY <1>1, WeekIsLonger, Divided DEF getHourInTimezone, DayHours

-----------------------------------------------------------------------------
ScheduleRec == [hour : DayHours \cup {NoHour}, days : SUBSET Week, skipWeekends : BOOLEAN]
WindowRec == [start : DayHours \cup {NoHour}, end : DayHours \cup {NoHour}]
Offsets == -HoursPerDay .. HoursPerDay

LEMMA Parameters ==
  /\ Schedules \cup {NoSchedule} \subseteq ScheduleRec
  /\ Windows \cup {DefaultWindow} \subseteq WindowRec
  /\ Zones \cup {0} \subseteq Offsets
  <1>1. NoSchedule \in ScheduleRec
    BY DEF NoSchedule, ScheduleRec
  <1>2. 0 \in Offsets
    BY WeekIsLonger DEF Offsets
  <1>. QED
    BY <1>1, <1>2, TimingAssumption DEF TimingAssumption, ScheduleRec, WindowRec, Offsets

\* Some day is allowed.
LEMMA SomeDay ==
  ASSUME NEW s \in ScheduleRec
  PROVE  \E d \in Week : d \in getAllowedDays(s)
  <1>1. WorkDays \subseteq Week /\ WorkDays # {}
    BY TimingAssumption DEF TimingAssumption
  <1>2. 0 \in Week /\ s.days \subseteq Week
    BY WeekIsLonger DEF Week, ScheduleRec
  <1>. QED
    BY <1>1, <1>2 DEF getAllowedDays

\* Within two weeks there is an hour that a sequence allows, and the code finds it.
LEMMA NextIsAllowed ==
  ASSUME NEW base \in Nat, NEW zone \in Offsets, NEW s \in ScheduleRec
  PROVE  LET next == computeNextSendTime(base, zone, s) IN
         next \in base .. base + 2 * WeekHours /\ Allowed(next, zone, s)
  <1>. DEFINE fit == {t \in base .. base + 2 * DaysPerWeek * HoursPerDay - 1 : Allowed(t, zone, s)}
              b == Local(base, zone)
              q == b \div WeekHours
  <1>1. zone \in Int /\ b \in Nat /\ b = base + zone + WeekHours
    BY WeekIsLonger DEF Local, Offsets, WeekHours
  <1>2. PICK d \in Week : d \in getAllowedDays(s)
    BY SomeDay
  <1>3. PICK h \in DayHours : s.hour # NoHour => h = s.hour
    <2>1. s.hour \in DayHours \cup {NoHour} /\ 0 \in DayHours
      BY WeekIsLonger DEF ScheduleRec, DayHours
    <2>. QED
      BY <2>1
  <1>. DEFINE o == d * HoursPerDay + h
              l == (q + 1) * WeekHours + o
              t == l - zone - WeekHours
  <1>4. o \in 0 .. WeekHours - 1
    <2>1. d + 1 \in 0..DaysPerWeek /\ (d + 1) * HoursPerDay = d * HoursPerDay + HoursPerDay
      BY WeekIsLonger DEF Week
    <2>2. (d + 1) * HoursPerDay <= WeekHours
      BY <2>1, WeekIsLonger
    <2>3. d * HoursPerDay \in Nat
      BY WeekIsLonger DEF Week
    <2>. QED
      BY <2>1, <2>2, <2>3, WeekIsLonger DEF DayHours
  <1>5. /\ q \in Int /\ b = q * WeekHours + (b % WeekHours) /\ b % WeekHours \in 0 .. WeekHours - 1
    <2>1. WeekHours \in Nat \ {0} /\ b \in Int
      BY <1>1, WeekIsLonger
    <2>. HIDE DEF b
    <2>. QED
      BY <2>1, Remainder, Zenon
  <1>6. (q + 1) * WeekHours = q * WeekHours + WeekHours /\ q * WeekHours \in Int
    BY <1>5, WeekIsLonger
  <1>7. l \in b .. b + 2 * WeekHours - 1
    <2>. DEFINE k == q * WeekHours m == b % WeekHours
    <2>1. /\ k \in Int /\ m \in 0 .. WeekHours - 1 /\ b = k + m
          /\ l = k + WeekHours + o /\ WeekHours \in Nat
      BY <1>5, <1>6, WeekIsLonger
    <2>. HIDE DEF b, l, k, m, o
    <2>. QED
      BY <1>1, <1>4, <2>1
  <1>8. t \in base .. base + 2 * WeekHours - 1 /\ Local(t, zone) = l
    <2>. HIDE DEF b, l
    <2>1. t \in Int /\ t + zone + WeekHours = l
      BY <1>1, <1>7, WeekIsLonger
    <2>. QED
      BY <2>1, <1>1, <1>7, WeekIsLonger DEF Local, WeekHours
  <1>9. l % HoursPerDay = h /\ (l \div HoursPerDay) % DaysPerWeek = d
    <2>1. q + 1 \in Int /\ l = (q + 1) * WeekHours + d * HoursPerDay + h
      <3>1. d * HoursPerDay \in Int /\ h \in Int /\ (q + 1) * WeekHours \in Int
        BY <1>5, <1>6, WeekIsLonger DEF Week, DayHours
      <3>. QED
        BY <1>5, <3>1
    <2>. HIDE DEF l, q
    <2>. QED
      BY <2>1, HourAndDay
  <1>10. Allowed(t, zone, s)
    <2>. HIDE DEF t, l
    <2>. QED
      BY <1>2, <1>3, <1>8, <1>9 DEF Allowed, getHourInTimezone, getDayOfWeekInTimezone
  <1>11. 2 * DaysPerWeek * HoursPerDay = 2 * WeekHours
    BY WeekIsLonger DEF WeekHours
  <1>12. t \in fit
    <2>. HIDE DEF t
    <2>. QED
      BY <1>8, <1>10, <1>11
  <1>13. fit \in SUBSET Nat /\ fit # {}
    BY <1>12, <1>11, WeekIsLonger
  <1>14. computeNextSendTime(base, zone, s) = FirstOf(fit)
    BY <1>12 DEF computeNextSendTime
  <1>15. FirstOf(fit) \in fit
    <2>. HIDE DEF fit
    <2>. QED
      BY <1>13, FirstOfSet
  <1>. QED
    BY <1>11, <1>14, <1>15, WeekIsLonger

(***************************************************************************)
(* The hours of business.                                                  *)
(***************************************************************************)
\* Putting a mail off takes less than three days.
LEMMA DelayIsShort ==
  ASSUME NEW t \in Nat, NEW zone \in Offsets, NEW w \in WindowRec
  PROVE  getDelayUntilBusinessHours(t, zone, w) \in 0 .. 3 * HoursPerDay
  <1>1. t % HoursPerDay \in 0 .. HoursPerDay - 1
    BY WeekIsLonger, Remainder
  <1>2. StartOf(w) \in 0 .. HoursPerDay
    BY WeekIsLonger DEF StartOf, WindowRec, DayHours
  <1>. DEFINE m == t % HoursPerDay
              o == OpensAt(t, zone, w) - t
  <1>3. o \in Int /\ o <= 3 * HoursPerDay
    <2>1. zone \in Int /\ zone <= HoursPerDay
      BY WeekIsLonger DEF Offsets
    <2>2. o = (t - m + StartOf(w) + zone + (IF getHourInTimezone(t, zone) < StartOf(w) THEN 0 ELSE HoursPerDay)) - t
      BY DEF OpensAt, Midnight
    <2>. HIDE DEF m, o
    <2>3. m \in 0 .. HoursPerDay - 1
      BY <1>1 DEF m
    <2>. QED
      BY <1>2, <2>1, <2>2, <2>3, WeekIsLonger
  <1>4. getDelayUntilBusinessHours(t, zone, w) = IF Open(t, zone, w) THEN 0 ELSE IF 0 > o THEN 0 ELSE o
    BY DEF getDelayUntilBusinessHours, Later
  <1>. HIDE DEF o
  <1>. QED
    BY <1>3, <1>4, WeekIsLonger

\* In UTC, with hours that open: from a closed hour, the delay leads to the next open one.
LEMMA DelayLeadsToOpening ==
  ASSUME NEW t \in Nat, NEW w \in WindowRec, StartOf(w) < EndOf(w), ~Open(t, 0, w)
  PROVE  LET due == t + getDelayUntilBusinessHours(t, 0, w) IN
         Open(due, 0, w) /\ \A u \in t .. due - 1 : ~Open(u, 0, w)
  <1>. DEFINE h == t % HoursPerDay q == t \div HoursPerDay k == q * HoursPerDay
              s == StartOf(w) e == EndOf(w)
              due == t + getDelayUntilBusinessHours(t, 0, w)
  <1>1. h \in DayHours /\ q \in Nat /\ t = k + h /\ k \in Nat /\ (q + 1) * HoursPerDay = k + HoursPerDay
    <2>1. h \in 0 .. HoursPerDay - 1 /\ q \in Int /\ t = q * HoursPerDay + h
      BY WeekIsLonger, Remainder
    <2>2. q \in Nat
      BY WeekIsLonger
    <2>. HIDE DEF h, q
    <2>. QED
      BY <2>1, <2>2, WeekIsLonger DEF DayHours
  <1>2. s \in DayHours /\ e \in DayHours /\ s < e
    BY WeekIsLonger DEF StartOf, EndOf, WindowRec, DayHours
  <1>3. Restricted(w)
    BY DEF Open
  <1>4. ASSUME NEW u \in Nat
        PROVE  Open(u, 0, w) <=> getHourInTimezone(u, 0) >= s /\ getHourInTimezone(u, 0) < e
    BY <1>3 DEF Open
  <1>5. \A r \in DayHours : getHourInTimezone(k + r, 0) = r
    BY <1>1, HourOfUtc
  <1>6. \A r \in DayHours : getHourInTimezone(k + HoursPerDay + r, 0) = r
    <2>1. \A r \in DayHours : getHourInTimezone((q + 1) * HoursPerDay + r, 0) = r
      <3>1. q + 1 \in Nat
        BY <1>1
      <3>. HIDE DEF q
      <3>. QED
        BY <3>1, HourOfUtc
    <2>. QED
      BY <1>1, <2>1
  <1>7. ~(h >= s /\ h < e) /\ getHourInTimezone(t, 0) = h
    <2>1. getHourInTimezone(t, 0) = h
      BY <1>1, <1>5
    <2>. QED
      BY <2>1, <1>4
  <1>8. due = IF h < s THEN k + s ELSE k + HoursPerDay + s
    <2>1. OpensAt(t, 0, w) = (t - h) + s + 0 + (IF h < s THEN 0 ELSE HoursPerDay)
      BY <1>7 DEF OpensAt, Midnight
    <2>2. due = t + (IF 0 > OpensAt(t, 0, w) - t THEN 0 ELSE OpensAt(t, 0, w) - t)
      BY DEF getDelayUntilBusinessHours, Later
    <2>3. h \in Nat /\ h <= HoursPerDay
      BY <1>1, WeekIsLonger DEF DayHours
    <2>. HIDE DEF h, s, k, q, due
    <2>. QED
      BY <1>1, <1>2, <2>1, <2>2, <2>3, WeekIsLonger DEF DayHours
  <1>9. \A u \in k .. k + HoursPerDay - 1 : getHourInTimezone(u, 0) = u - k
    <2>. SUFFICES ASSUME NEW u \in k .. k + HoursPerDay - 1 PROVE getHourInTimezone(u, 0) = u - k
      OBVIOUS
    <2>. HIDE DEF k
    <2>1. u - k \in DayHours /\ u = k + (u - k)
      BY <1>1, WeekIsLonger DEF DayHours
    <2>. QED
      BY <2>1, <1>5
  <1>10. \A u \in k + HoursPerDay .. k + HoursPerDay + HoursPerDay - 1 :
           getHourInTimezone(u, 0) = u - (k + HoursPerDay)
    <2>. SUFFICES ASSUME NEW u \in k + HoursPerDay .. k + HoursPerDay + HoursPerDay - 1
                  PROVE  getHourInTimezone(u, 0) = u - (k + HoursPerDay)
      OBVIOUS
    <2>. HIDE DEF k
    <2>1. u - (k + HoursPerDay) \in DayHours /\ u = k + HoursPerDay + (u - (k + HoursPerDay))
      BY <1>1, WeekIsLonger DEF DayHours
    <2>. QED
      BY <2>1, <1>6
  <1>. HIDE DEF h, q, k, s, e, due
  <1>11. Open(due, 0, w)
    <2>1. due \in Nat /\ getHourInTimezone(due, 0) = s
      BY <1>1, <1>2, <1>5, <1>6, <1>8, WeekIsLonger DEF DayHours
    <2>. QED
      BY <2>1, <1>2, <1>4 DEF DayHours
  <1>12. ASSUME NEW u \in t .. due - 1 PROVE ~Open(u, 0, w)
    <2>. DEFINE hour == getHourInTimezone(u, 0)
    <2>1. u \in Nat
      BY <1>1 DEF DayHours
    <2>2. CASE h < s
      <3>1. u \in k .. k + HoursPerDay - 1
        BY <1>1, <1>2, <1>8, <2>2, WeekIsLonger DEF DayHours
      <3>2. hour = u - k
        BY <3>1, <1>9
      <3>3. hour < s
        BY <3>2, <1>1, <1>2, <1>8, <2>2 DEF DayHours
      <3>. QED
        BY <2>1, <3>2, <3>3, <1>1, <1>2, <1>4 DEF DayHours
    <2>3. CASE h >= s /\ u < k + HoursPerDay
      <3>1. h >= e /\ u \in k .. k + HoursPerDay - 1
        BY <1>1, <1>2, <1>7, <2>1, <2>3, WeekIsLonger DEF DayHours
      <3>2. hour = u - k
        BY <3>1, <1>9
      <3>. QED
        BY <2>1, <3>1, <3>2, <1>1, <1>2, <1>4 DEF DayHours
    <2>4. CASE h >= s /\ u >= k + HoursPerDay
      <3>1. due = k + HoursPerDay + s
        BY <1>1, <1>2, <1>8, <2>4 DEF DayHours
      <3>2. u \in k + HoursPerDay .. k + HoursPerDay + HoursPerDay - 1
        BY <1>1, <1>2, <3>1, <2>4, WeekIsLonger DEF DayHours
      <3>3. hour = u - (k + HoursPerDay)
        BY <3>2, <1>10
      <3>4. hour < s
        BY <3>1, <3>2, <3>3, <1>1, <1>2, WeekIsLonger DEF DayHours
      <3>. QED
        BY <2>1, <3>3, <3>4, <1>1, <1>2, <1>4, WeekIsLonger DEF DayHours
    <2>. QED
      BY <2>1, <2>2, <2>3, <2>4, <1>1, <1>2, WeekIsLonger DEF DayHours
  <1>. QED
    BY <1>11, <1>12 DEF due

(***************************************************************************)
(* What holds of a mail at any time.                                       *)
(***************************************************************************)
TimedRec ==
  [step : {"none", "first", "between", "followUp", "done"}, due : SendTimes, planned : SendTimes,
   sentAt : SendTimes, putOff : 0..MaxDeferrals, at : SendTimes, late : BOOLEAN]
CampaignRec ==
  [zone : Zones \cup {0}, window : Windows \cup {DefaultWindow}, schedule : Schedules \cup {NoSchedule}]

\* A mail to be sent is due no earlier than planned, one that was sent has left no earlier.
NotEarly(x) ==
  /\ x.step \in {"first", "followUp"} => x.due >= x.planned
  /\ x.step \in {"between", "done"} => x.sentAt >= x.planned

\* A follow-up is due, and has left, when its sequence allows it, if it was not put off.
OnSchedule(x, c) ==
  /\ x.step = "followUp" /\ x.putOff = 0 => Allowed(x.due, c.zone, c.schedule)
  /\ x.step = "done" => x.putOff > 0 \/ x.late \/ Allowed(x.sentAt, c.zone, c.schedule)

\* A mail that was put off is due at the opening; the code's formula is right in UTC only.
ToOpening(x, c) ==
  c.zone = 0 /\ StartOf(c.window) < EndOf(c.window) /\ x.putOff > 0 =>
    /\ Open(x.due, 0, c.window)
    /\ \A t \in x.at .. x.due - 1 : ~Open(t, 0, c.window)
    /\ x.putOff > 1 => x.late

Timely(x, c) == x \in TimedRec /\ NotEarly(x) /\ OnSchedule(x, c) /\ ToOpening(x, c)

\* What is picked on the page is within the bound of the hours and two weeks.
Picked(t) == t \in SendTimes /\ t <= Horizon + 2 * WeekHours

TimingInv ==
  /\ now \in 0..Horizon /\ modal \in [open : BOOLEAN, temp : SendTimes]
  /\ Picked(modal.temp) /\ Picked(chosenStart)
  /\ campaign \in CampaignRec
  /\ timed \in [Receivers -> TimedRec] /\ \A r \in Receivers : Timely(timed[r], campaign)

LEMMA NotYetTimely ==
  /\ NotYet \in TimedRec /\ \A c : Timely(NotYet, c)
  /\ NotYet.step = "none" /\ NotYet.putOff = 0
  <1>1. NotYet \in TimedRec
    BY LatestIsLate DEF NotYet, TimedRec, SendTimes, NoTime
  <1>2. NotYet.step = "none" /\ NotYet.putOff = 0 /\ ~(NotYet.putOff > 0)
    BY DEF NotYet
  <1>. QED
    BY <1>1, <1>2 DEF Timely, NotEarly, OnSchedule, ToOpening

LEMMA TimingStarts == TimingInit => TimingInv
  <1>1. Picked(NoTime)
    BY WeekIsLonger, LatestIsLate DEF Picked, SendTimes, NoTime
  <1>2. Closed \in [open : BOOLEAN, temp : SendTimes] /\ Closed.temp = NoTime
    BY <1>1 DEF Closed, Picked
  <1>3. Unmade \in CampaignRec
    BY DEF Unmade, CampaignRec
  <1>. QED
    BY <1>1, <1>2, <1>3, NotYetTimely, LatestIsLate DEF TimingInit, TimingInv

\* One mail moves on in the same campaign.
LEMMA MailMoves ==
  ASSUME TimingInv, NEW r \in Receivers, NEW x, Timely(x, campaign), timed' = [timed EXCEPT ![r] = x],
         UNCHANGED <<now, modal, chosenStart, campaign>>
  PROVE  TimingInv'
  BY DEF TimingInv, Timely

LEMMA DeferKept ==
  ASSUME TimingInv, NEW r \in Receivers, Defer(r)
  PROVE  TimingInv'
  <1>. DEFINE old == timed[r]
              delay == getDelayUntilBusinessHours(now, campaign.zone, campaign.window)
              x == [old EXCEPT !.due = now + delay, !.putOff = @ + 1, !.at = now, !.late = TakenLate(r)]
  <1>1. /\ old.step \in {"first", "followUp"} /\ old.due <= now /\ old.putOff < MaxDeferrals
        /\ ~Open(now, campaign.zone, campaign.window)
    BY DEF Defer, Due
  <1>2. Timely(old, campaign) /\ old \in TimedRec /\ now \in 0..Horizon
    BY DEF TimingInv
  <1>3. campaign.zone \in Offsets /\ campaign.window \in WindowRec
    BY Parameters DEF TimingInv, CampaignRec
  <1>4. delay \in 0 .. 3 * HoursPerDay /\ now \in Nat
    BY <1>2, <1>3, LatestIsLate, DelayIsShort
  <1>5. now + delay \in SendTimes /\ now \in SendTimes /\ now + delay >= now
    <2>. HIDE DEF delay
    <2>. QED
      BY <1>2, <1>4, WeekIsLonger, LatestIsLate DEF SendTimes
  <1>6. TakenLate(r) \in BOOLEAN /\ TakenLate(r) = (old.late \/ old.due < now)
    BY DEF TakenLate
  <1>7. timed' = [timed EXCEPT ![r] = x]
    BY DEF Defer
  <1>8. old.putOff + 1 \in 0..MaxDeferrals /\ old.putOff \in Nat
    BY <1>1, <1>2, LatestIsLate DEF TimedRec
  <1>. DEFINE l == TakenLate(r) n == old.putOff + 1 d == now + delay
  <1>9. x \in TimedRec
    <2>1. x = [old EXCEPT !.due = d, !.putOff = n, !.at = now, !.late = l]
      OBVIOUS
    <2>2. d \in SendTimes /\ n \in 0..MaxDeferrals /\ l \in BOOLEAN /\ now \in SendTimes
      BY <1>5, <1>6, <1>8
    <2>. HIDE DEF d, n, l, x, old
    <2>. QED
      BY <1>2, <2>1, <2>2 DEF TimedRec
  <1>10. /\ x.step = old.step /\ x.planned = old.planned /\ x.due = now + delay /\ x.putOff = old.putOff + 1
         /\ x.at = now /\ x.late = TakenLate(r)
    <2>1. x = [old EXCEPT !.due = d, !.putOff = n, !.at = now, !.late = l]
      OBVIOUS
    <2>. HIDE DEF d, n, l, x, old
    <2>2. /\ x.step = old.step /\ x.planned = old.planned /\ x.due = d /\ x.putOff = n
          /\ x.at = now /\ x.late = l
      BY <1>2, <2>1 DEF TimedRec
    <2>. QED
      BY <2>2 DEF d, n, l
  <1>. HIDE DEF x, delay, old
  <1>11. old.planned \in Int /\ old.due \in Int
    BY <1>2, LatestIsLate DEF TimedRec, SendTimes, NoTime
  <1>12. NotEarly(x)
    BY <1>1, <1>2, <1>4, <1>10, <1>11 DEF Timely, NotEarly
  <1>13. OnSchedule(x, campaign)
    BY <1>1, <1>8, <1>10 DEF OnSchedule
  <1>14. ToOpening(x, campaign)
    <2>. SUFFICES ASSUME campaign.zone = 0, StartOf(campaign.window) < EndOf(campaign.window)
                  PROVE  /\ Open(x.due, 0, campaign.window)
                         /\ \A t \in x.at .. x.due - 1 : ~Open(t, 0, campaign.window)
                         /\ x.putOff > 1 => x.late
      BY DEF ToOpening
    <2>1. /\ Open(x.due, 0, campaign.window)
          /\ \A t \in x.at .. x.due - 1 : ~Open(t, 0, campaign.window)
      BY <1>1, <1>3, <1>4, <1>10, DelayLeadsToOpening DEF delay
    <2>2. ASSUME x.putOff > 1 PROVE x.late
      <3>1. old.putOff > 0
        BY <1>8, <1>10, <2>2
      <3>2. Open(old.due, 0, campaign.window)
        BY <1>2, <3>1 DEF Timely, ToOpening
      <3>3. old.due # now
        BY <1>1, <3>2
      <3>4. old.due < now
        BY <1>1, <1>4, <1>11, <3>3
      <3>. QED
        BY <3>4, <1>6, <1>10
    <2>. QED
      BY <2>1, <2>2
  <1>15. Timely(x, campaign)
    BY <1>9, <1>12, <1>13, <1>14 DEF Timely
  <1>16. UNCHANGED <<now, modal, chosenStart, campaign>>
    BY DEF Defer
  <1>. QED
    BY <1>7, <1>15, <1>16, MailMoves

LEMMA SendKept ==
  ASSUME TimingInv, NEW r \in Receivers, Send(r)
  PROVE  TimingInv'
  <1>. DEFINE old == timed[r]
              step == IF old.step = "first" THEN "between" ELSE "done"
              l == TakenLate(r)
              x == [old EXCEPT !.step = step, !.sentAt = now, !.late = l]
  <1>1. old.step \in {"first", "followUp"} /\ old.due <= now
    BY DEF Send, Due
  <1>2. Timely(old, campaign) /\ old \in TimedRec /\ now \in 0..Horizon
    BY DEF TimingInv
  <1>3. l \in BOOLEAN /\ l = (old.late \/ old.due < now) /\ step \in {"between", "done"}
    BY DEF TakenLate
  <1>4. now \in SendTimes /\ now \in Int
    BY <1>2, WeekIsLonger, LatestIsLate DEF SendTimes
  <1>5. timed' = [timed EXCEPT ![r] = x] /\ UNCHANGED <<now, modal, chosenStart, campaign>>
    BY DEF Send
  <1>6. step = "done" => old.step = "followUp"
    BY <1>1
  <1>. HIDE DEF l, step, old
  <1>7. x \in TimedRec
    BY <1>2, <1>3, <1>4 DEF TimedRec
  <1>8. /\ x.step = step /\ x.planned = old.planned /\ x.due = old.due /\ x.putOff = old.putOff
        /\ x.at = old.at /\ x.late = l /\ x.sentAt = now
    BY <1>2 DEF TimedRec
  <1>9. old.planned \in Int /\ old.due \in Int /\ old.putOff \in Nat
    BY <1>2, LatestIsLate DEF TimedRec, SendTimes, NoTime
  <1>. HIDE DEF x
  <1>10. NotEarly(x)
    BY <1>1, <1>2, <1>3, <1>4, <1>8, <1>9 DEF Timely, NotEarly
  <1>11. OnSchedule(x, campaign)
    <2>. SUFFICES ASSUME step = "done", old.putOff = 0, ~l
                  PROVE  Allowed(now, campaign.zone, campaign.schedule)
      BY <1>3, <1>8, <1>9 DEF OnSchedule
    <2>1. ~(old.due < now)
      BY <1>3
    <2>2. old.due = now
      BY <1>1, <1>4, <1>9, <2>1
    <2>. QED
      BY <1>2, <1>6, <2>2 DEF Timely, OnSchedule
  <1>12. ToOpening(x, campaign)
    BY <1>2, <1>3, <1>8 DEF Timely, ToOpening
  <1>13. Timely(x, campaign)
    BY <1>7, <1>10, <1>11, <1>12 DEF Timely
  <1>. QED
    BY <1>5, <1>13, MailMoves

LEMMA ScheduleKept ==
  ASSUME TimingInv, NEW r \in Receivers, ScheduleFollowUp(r)
  PROVE  TimingInv'
  <1>1. PICK gap \in 0..MaxGap :
          LET at == computeNextSendTime(now + gap, campaign.zone, campaign.schedule) IN
          timed' = [timed EXCEPT ![r] = [NotYet EXCEPT !.step = "followUp", !.due = at, !.planned = at]]
    BY DEF ScheduleFollowUp
  <1>. DEFINE at == computeNextSendTime(now + gap, campaign.zone, campaign.schedule)
              x == [NotYet EXCEPT !.step = "followUp", !.due = at, !.planned = at]
  <1>2. timed' = [timed EXCEPT ![r] = x] /\ UNCHANGED <<now, modal, chosenStart, campaign>>
    BY <1>1 DEF ScheduleFollowUp
  <1>3. campaign.zone \in Offsets /\ campaign.schedule \in ScheduleRec
    BY Parameters DEF TimingInv, CampaignRec
  <1>4. now + gap \in Nat /\ now + gap <= Horizon + MaxGap
    BY LatestIsLate DEF TimingInv
  <1>5. at \in now + gap .. now + gap + 2 * WeekHours /\ Allowed(at, campaign.zone, campaign.schedule)
    BY <1>3, <1>4, NextIsAllowed
  <1>. HIDE DEF at
  <1>6. at \in SendTimes /\ at \in Int
    BY <1>4, <1>5, WeekIsLonger, LatestIsLate DEF SendTimes
  <1>7. x \in TimedRec
    BY <1>6, NotYetTimely DEF TimedRec
  <1>8. x.step = "followUp" /\ x.due = at /\ x.planned = at /\ x.putOff = 0
    BY NotYetTimely DEF NotYet
  <1>. HIDE DEF x
  <1>9. Timely(x, campaign)
    BY <1>5, <1>6, <1>7, <1>8 DEF Timely, NotEarly, OnSchedule, ToOpening
  <1>. QED
    BY <1>2, <1>9, MailMoves

(***************************************************************************)
(* The compose page.                                                       *)
(***************************************************************************)
\* While the mails and their campaign stay, the page may pick what is within the bound.
LEMMA PagePicks ==
  ASSUME TimingInv, UNCHANGED <<now, campaign, timed>>, NEW o \in BOOLEAN, NEW t, Picked(t),
         modal' = [open |-> o, temp |-> t], Picked(chosenStart')
  PROVE  TimingInv'
  BY DEF TimingInv, Picked

LEMMA PageKept ==
  ASSUME TimingInv,
         \/ openSchedule \/ confirmSchedule \/ clearSchedule \/ closeSchedule
         \/ \E t \in 0..Horizon : onTempChange(t)
         \/ \E days \in 1..DaysPerWeek, hour \in DayHours : quickPick(days, hour)
  PROVE  TimingInv'
  <1>1. Picked(NoTime) /\ Closed = [open |-> FALSE, temp |-> NoTime]
    BY WeekIsLonger, LatestIsLate DEF Picked, SendTimes, NoTime, Closed
  <1>2. Picked(modal.temp) /\ Picked(chosenStart) /\ now \in 0..Horizon
    BY DEF TimingInv
  <1>3. CASE openSchedule
    <2>1. modal' = [open |-> TRUE, temp |-> chosenStart] /\ UNCHANGED <<chosenStart, now, campaign, timed>>
      BY <1>3 DEF openSchedule
    <2>. QED
      BY <1>2, <2>1, PagePicks
  <1>4. CASE confirmSchedule
    <2>1. chosenStart' = modal.temp /\ modal' = Closed /\ UNCHANGED <<now, campaign, timed>>
      BY <1>4 DEF confirmSchedule
    <2>. QED
      BY <1>1, <1>2, <2>1, PagePicks
  <1>5. CASE clearSchedule \/ closeSchedule
    <2>1. chosenStart' \in {NoTime, chosenStart} /\ modal' = Closed /\ UNCHANGED PageRest
      BY <1>5 DEF clearSchedule, closeSchedule
    <2>2. UNCHANGED <<now, campaign, timed>>
      BY <2>1 DEF PageRest
    <2>. QED
      BY <1>1, <1>2, <2>1, <2>2, PagePicks
  <1>6. ASSUME NEW t \in 0..Horizon, onTempChange(t) PROVE TimingInv'
    <2>1. modal' = [modal EXCEPT !.temp = t] /\ UNCHANGED <<chosenStart, now, campaign, timed>>
      BY <1>6 DEF onTempChange
    <2>2. Picked(t)
      BY WeekIsLonger, LatestIsLate DEF Picked, SendTimes
    <2>3. modal' = [open |-> modal.open, temp |-> t] /\ modal.open \in BOOLEAN
      BY <2>1 DEF TimingInv
    <2>. QED
      BY <1>2, <2>1, <2>2, <2>3, PagePicks
  <1>7. ASSUME NEW days \in 1..DaysPerWeek, NEW hour \in DayHours, quickPick(days, hour) PROVE TimingInv'
    <2>. DEFINE t == Midnight(now) + days * HoursPerDay + hour
    <2>1. chosenStart' = t /\ modal' = Closed /\ UNCHANGED <<now, campaign, timed>>
      BY <1>7 DEF quickPick
    <2>2. Midnight(now) \in 0..Horizon
      <3>1. now % HoursPerDay \in Nat /\ now % HoursPerDay <= now
        BY <1>2, LatestIsLate, WeekIsLonger
      <3>. QED
        BY <1>2, <3>1, LatestIsLate DEF Midnight
    <2>3. days * HoursPerDay \in 0..WeekHours /\ hour \in 0..WeekHours
      <3>1. days * HoursPerDay <= WeekHours /\ days * HoursPerDay \in Nat
        BY WeekIsLonger
      <3>. QED
        BY <3>1, WeekIsLonger DEF DayHours
    <2>4. Picked(t)
      <3>. DEFINE m == Midnight(now) k == days * HoursPerDay
      <3>1. m \in 0..Horizon /\ k \in 0..WeekHours
        BY <2>2, <2>3
      <3>. HIDE DEF m, k
      <3>. QED
        BY <3>1, <2>3, WeekIsLonger, LatestIsLate DEF Picked, SendTimes, m, k
    <2>. HIDE DEF t
    <2>. QED
      BY <1>1, <2>1, <2>4, PagePicks
  <1>. QED
    BY <1>3, <1>4, <1>5, <1>6, <1>7

LEMMA CreateCampaignKept ==
  ASSUME TimingInv, NEW page \in BOOLEAN, createCampaign(page)
  PROVE  TimingInv'
  <1>1. PICK gap \in [Receivers -> 0..MaxGap] :
          timed' = [r \in Receivers |->
                     LET start == (IF chosenStart = NoTime THEN now ELSE chosenStart) + gap[r] IN
                     [NotYet EXCEPT !.step = "first", !.due = Later(now, start), !.planned = start]]
    BY DEF createCampaign
  <1>2. campaign' \in CampaignRec
    BY DEF createCampaign, MadeBy, CampaignRec
  <1>3. ASSUME NEW r \in Receivers PROVE timed'[r] \in TimedRec /\ Timely(timed'[r], campaign')
    <2>. DEFINE start == (IF chosenStart = NoTime THEN now ELSE chosenStart) + gap[r]
                due == Later(now, start)
                x == [NotYet EXCEPT !.step = "first", !.due = due, !.planned = start]
    <2>1. timed'[r] = x
      BY <1>1
    <2>2. start \in Nat /\ start <= Horizon + 2 * WeekHours + MaxGap
      <3>1. gap[r] \in 0..MaxGap
        OBVIOUS
      <3>2. now \in 0..Horizon /\ Picked(chosenStart)
        BY DEF TimingInv
      <3>. QED
        BY <3>1, <3>2, WeekIsLonger, LatestIsLate DEF Picked, SendTimes, NoTime
    <2>3. now \in 0..Horizon
      BY DEF TimingInv
    <2>. HIDE DEF start
    <2>4. due \in Nat /\ due <= Horizon + 2 * WeekHours + MaxGap /\ due >= start
      BY <2>2, <2>3, WeekIsLonger, LatestIsLate DEF Later
    <2>5. start \in SendTimes /\ due \in SendTimes
      <3>. HIDE DEF due
      <3>. QED
        BY <2>2, <2>4, WeekIsLonger, LatestIsLate DEF SendTimes
    <2>. HIDE DEF due
    <2>6. x \in TimedRec
      BY <2>5, NotYetTimely DEF TimedRec
    <2>7. x.step = "first" /\ x.due = due /\ x.planned = start /\ x.putOff = 0
      BY DEF NotYet
    <2>. HIDE DEF x
    <2>8. Timely(x, campaign')
      BY <2>4, <2>6, <2>7 DEF Timely, NotEarly, OnSchedule, ToOpening
    <2>. QED
      BY <2>1, <2>6, <2>8
  <1>4. timed' \in [Receivers -> TimedRec]
    <2>1. timed' = [r \in Receivers |-> timed'[r]]
      BY <1>1
    <2>. QED
      BY <1>3, <2>1
  <1>5. Picked(NoTime) /\ chosenStart' = NoTime /\ now' = now /\ modal' = modal
    <2>1. Picked(NoTime)
      BY WeekIsLonger, LatestIsLate DEF Picked, SendTimes, NoTime
    <2>. QED
      BY <2>1 DEF createCampaign
  <1>. QED
    BY <1>2, <1>3, <1>4, <1>5 DEF TimingInv

LEMMA TimingStep == TimingInv /\ [TimingNext]_timingVars => TimingInv'
  <1>. SUFFICES ASSUME TimingInv, [TimingNext]_timingVars PROVE TimingInv'
    OBVIOUS
  <1>1. CASE Tick
    <2>1. now' \in 0..Horizon
      BY <1>1, LatestIsLate DEF Tick, TimingInv
    <2>. QED
      BY <1>1, <2>1 DEF Tick, TimingInv
  <1>2. CASE UNCHANGED timingVars
    <2>1. UNCHANGED <<now, modal, chosenStart, campaign, timed>>
      BY <1>2 DEF timingVars
    <2>. QED
      BY <2>1 DEF TimingInv
  <1>. QED
    BY <1>1, <1>2, PageKept, CreateCampaignKept, DeferKept, SendKept, ScheduleKept DEF TimingNext

LEMMA TimingAlways == TimingSpec => []TimingInv
  BY TimingStarts, TimingStep, PTL DEF TimingSpec

LEMMA TimingTyped == TimingInv => TimingTypeOK
  BY DEF TimingInv, TimingTypeOK, Picked, CampaignRec, TimedRec

\* SendTiming.TimingTypeOK: every variable of the send times keeps its type,
\* and no time is later than the bound of the module.
THEOREM TimingTypeCorrect == TimingSpec => []TimingTypeOK
  BY TimingTyped, TimingAlways, PTL

\* SendTiming.TimesAreKept: in UTC a mail that is put off comes due at the next
\* opening, a follow-up leaves when its sequence allows it unless it was put off
\* or taken late, and no mail leaves before the time planned for it, for days
\* and weeks of any length (businessHours.ts, computeNextSendTime).
THEOREM TimesAreKeptCorrect == TimingSpec => []TimesAreKept
  <1>1. TimingInv => TimesAreKept
    <2>. SUFFICES ASSUME TimingInv PROVE TimesAreKept
      OBVIOUS
    <2>1. \A r \in Receivers : Timely(timed[r], campaign)
      BY DEF TimingInv
    <2>2. PutOffToOpening
      BY <2>1 DEF PutOffToOpening, InUtc, Timely, ToOpening
    <2>3. OffScheduleOnlyWhenPutOff
      BY <2>1 DEF OffScheduleOnlyWhenPutOff, Timely, OnSchedule
    <2>4. NeverEarly
      BY <2>1 DEF NeverEarly, Timely, NotEarly
    <2>. QED
      BY <2>2, <2>3, <2>4 DEF TimesAreKept
  <1>. QED
    BY <1>1, TimingAlways, PTL
==============================================================================
