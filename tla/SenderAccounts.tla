---------------------------- MODULE SenderAccounts ----------------------------
(***************************************************************************)
(* The sender accounts of a user: connecting, verifying and removing them  *)
(* (controllers/senderControllers.ts, mcp/tools/senders.ts, the account    *)
(* made at sign-up in utils/userOnboarding.ts), with one campaign that     *)
(* mails through them, as far as senders matter to it.                     *)
(*                                                                         *)
(* The test of the credentials is a conversation with the mail server that *)
(* takes seconds: what was read before it may be gone after it.  A worker  *)
(* reads a row and its campaign, then their senders, then mails.           *)
(***************************************************************************)
EXTENDS Integers, FiniteSets

CONSTANTS Addresses,    \* of mail accounts
          NoAddress,
          SenderCalls,  \* requests handled at the same time
          Recipients,   \* of the campaign
          MaxSenders    \* bound on the senders ever made

ASSUME SendersAssumption ==
  /\ NoAddress \notin Addresses /\ IsFiniteSet(Addresses) /\ IsFiniteSet(SenderCalls)
  /\ IsFiniteSet(Recipients) /\ Recipients # {} /\ MaxSenders \in Nat \ {0}

VARIABLES
  sender,    \* sender[s]: a Sender, and whether it has a WarmupSchedule
  made,      \* senders 1..made have been made
  call,      \* call[h]: the step of a request, and what it has read
  mailing,   \* the campaign: its status, its senders, and whether it is of another scope
  mailRow,   \* mailRow[r]: an EmailJob
  reading,   \* reading[r]: what a worker has read of row r
  sentWith,  \* the passwords that mails left with (history)
  excused    \* the rows known to have lost their sender when they were let go (history)

accountVars == <<sender, made, call>>
mailingVars == <<mailing, mailRow, reading, sentWith, excused>>
sendersVars == <<accountVars, mailingVars>>

Senders == 1..MaxSenders
Passwords == {"none", "tested"}
NoSender == [of |-> NoAddress, verified |-> FALSE, password |-> "none", warmup |-> FALSE]
NoCall == [step |-> "idle", of |-> NoAddress, s |-> 0, verified |-> FALSE,
           password |-> "none", pool |-> {}]
Unread == [step |-> "idle", own |-> 0, main |-> 0, verified |-> FALSE, password |-> "none"]

SendersInit ==
  /\ sender = [s \in Senders |-> NoSender] /\ made = 0
  /\ call = [h \in SenderCalls |-> NoCall]
  /\ mailing = [status |-> "none", main |-> 0, pool |-> {}, elsewhere |-> FALSE]
  /\ mailRow = [r \in Recipients |-> [status |-> "none", s |-> 0]]
  /\ reading = [r \in Recipients |-> Unread]
  /\ sentWith = {} /\ excused = {}

SenderThere(s) == s # 0 /\ sender[s] # NoSender
Connected == {s \in Senders : SenderThere(s)}
OfAddress(a) == {s \in Connected : sender[s].of = a}

Begins(h, c) == call[h] = NoCall /\ call' = [call EXCEPT ![h] = c]
GoesOn(h, step) == call' = [call EXCEPT ![h].step = step]
Ends(h) == call' = [call EXCEPT ![h] = NoCall]

-----------------------------------------------------------------------------
(* Connecting.                                                             *)

Make(rec) == made < MaxSenders /\ made' = made + 1 /\ sender' = [sender EXCEPT ![made'] = rec]

\* The account of the address a user signs up with, unless it is there.
Onboard(a) ==
  /\ OfAddress(a) = {} /\ Make([NoSender EXCEPT !.of = a])
  /\ UNCHANGED <<call, mailingVars>>

\* createSender, as the modal calls it without a sender to verify.
ConnectSender(h, a) ==
  /\ Begins(h, [NoCall EXCEPT !.step = "test", !.of = a])
  /\ UNCHANGED <<sender, made, mailingVars>>

\* verifySender: the id may come from an old list, the sender is read first.
VerifySender(h, s) ==
  /\ SenderThere(s)
  /\ Begins(h, [NoCall EXCEPT !.step = "retest", !.of = sender[s].of, !.s = s,
                              !.verified = sender[s].verified])
  /\ UNCHANGED <<sender, made, mailingVars>>

TestLogin(h) ==
  /\ call[h].step \in {"test", "retest"}
  /\ \/ Ends(h)
     \/ call' = [call EXCEPT ![h].password = "tested",
                             ![h].step = IF @ = "test" THEN "insert" ELSE "save"]
  /\ UNCHANGED <<sender, made, mailingVars>>

\* A sender and its warm-up in one transaction; (userId, email) is unique.
InsertSender(h) ==
  /\ call[h].step = "insert"
  /\ IF OfAddress(call[h].of) = {}
     THEN /\ Make([of |-> call[h].of, verified |-> TRUE, password |-> call[h].password,
                   warmup |-> TRUE])
          /\ Ends(h)
     ELSE GoesOn(h, "conflict") /\ UNCHANGED <<sender, made>>
  /\ UNCHANGED mailingVars

\* An unverified one is upgraded, a verified one answered with 409.
OnConflict(h) ==
  /\ call[h].step = "conflict"
  /\ \/ \E s \in OfAddress(call[h].of) :
          ~sender[s].verified /\ call' = [call EXCEPT ![h].step = "upgrade", ![h].s = s]
     \/ (\A s \in OfAddress(call[h].of) : sender[s].verified) /\ Ends(h)
  /\ UNCHANGED <<sender, made, mailingVars>>

\* The transactions of the upgrade and of verifySender; the latter makes a warm-up only if
\* it has read an unverified sender.  A sender that is gone by now makes them fail.
SaveLogin(h) ==
  /\ call[h].step \in {"upgrade", "save"} /\ Ends(h)
  /\ LET s == call[h].s
     IN  sender' = IF ~SenderThere(s) THEN sender
                   ELSE [sender EXCEPT ![s].verified = TRUE, ![s].password = call[h].password,
                                       ![s].warmup = @ \/ ~call[h].verified]
  /\ UNCHANGED <<made, mailingVars>>

\* sender_create: looks, then creates an unverified sender.
ToolLooks(h, a) ==
  /\ OfAddress(a) = {} /\ Begins(h, [NoCall EXCEPT !.step = "create", !.of = a])
  /\ UNCHANGED <<sender, made, mailingVars>>

ToolCreates(h) ==
  /\ call[h].step = "create" /\ Ends(h)
  /\ IF OfAddress(call[h].of) = {} THEN Make([NoSender EXCEPT !.of = call[h].of])
     ELSE UNCHANGED <<sender, made>>
  /\ UNCHANGED mailingVars

-----------------------------------------------------------------------------
(* The campaign, as far as it has to do with senders.                      *)

\* emailJob.sender ?? campaign.sender
Resolved(own, main) == IF SenderThere(own) THEN own ELSE IF SenderThere(main) THEN main ELSE 0
Going(c) == c.status \in {"SCHEDULED", "SENDING"}

StillWaiting(rs) == {r \in Recipients : rs[r].status = "PENDING"}

\* The rows of rs that nobody can mail, with the campaign's sender main.
Stranded(rs, main) ==
  {r \in StillWaiting(rs) : ~ \E s \in {Resolved(rs[r].s, main)} \ {0} : sender[s].verified}

\* createCampaign: every sender is there, one's own and verified.
CheckPool(h, pool) ==
  /\ mailing.status = "none" /\ pool # {} /\ pool \subseteq Connected
  /\ \A s \in pool : sender[s].verified
  /\ Begins(h, [NoCall EXCEPT !.step = "campaign", !.pool = pool])
  /\ UNCHANGED <<sender, made, mailingVars>>

\* The rows are dealt out in turn, within the daily limits; the rest falls to the first.
\* A sender that is gone breaks a foreign key, and nothing is created.
InsertCampaign(h) ==
  /\ call[h].step = "campaign" /\ Ends(h)
  /\ IF mailing.status = "none" /\ call[h].pool \subseteq Connected
     THEN \E main \in call[h].pool, elsewhere \in BOOLEAN, of \in [Recipients -> call[h].pool] :
            /\ mailing' = [status |-> "SCHEDULED", main |-> main, pool |-> call[h].pool,
                           elsewhere |-> elsewhere]
            /\ mailRow' = [r \in Recipients |-> [status |-> "PENDING", s |-> of[r]]]
     ELSE UNCHANGED <<mailing, mailRow>>
  /\ UNCHANGED <<sender, made, reading, sentWith, excused>>

\* campaign_create without recipients: no pool, no rows, and any sender it is given.
CreateWithoutPool(s) ==
  /\ mailing.status = "none" /\ SenderThere(s)
  /\ \E elsewhere \in BOOLEAN :
       mailing' = [status |-> "SCHEDULED", main |-> s, pool |-> {}, elsewhere |-> elsewhere]
  /\ UNCHANGED <<accountVars, mailRow, reading, sentWith, excused>>

\* campaign_update with a senderId, verified or not: neither the pool nor the rows follow,
\* and without a pool the removal of a row's sender is not noticed any more.
Repoint(s) ==
  /\ mailing.status \in {"SCHEDULED", "PAUSED"} /\ SenderThere(s)
  /\ mailing' = [mailing EXCEPT !.main = s]
  /\ excused' = excused \cup StillWaiting(mailRow)
  /\ UNCHANGED <<accountVars, mailRow, reading, sentWith>>

\* campaign_launch: rows for the campaign's sender, whether there is one or not.
Launch ==
  /\ mailing.status \in {"SCHEDULED", "PAUSED"}
  /\ mailRow' = IF \E r \in Recipients : mailRow[r].status = "PENDING" THEN mailRow
            ELSE [r \in Recipients |-> IF mailRow[r].status # "none" THEN mailRow[r]
                                       ELSE [status |-> "PENDING", s |-> mailing.main]]
  /\ mailing' = [mailing EXCEPT !.status = "SCHEDULED"]
  /\ excused' = excused \cup Stranded(mailRow', mailing.main)
  /\ UNCHANGED <<accountVars, reading, sentWith>>

Pause ==
  /\ Going(mailing) /\ mailing' = [mailing EXCEPT !.status = "PAUSED"]
  /\ UNCHANGED <<accountVars, mailRow, reading, sentWith, excused>>

\* By a user, a tool or the auto-resume of a reason that a removal left: nobody looks at
\* the senders.
Resume ==
  /\ mailing.status = "PAUSED" /\ mailing' = [mailing EXCEPT !.status = "SENDING"]
  /\ excused' = excused \cup Stranded(mailRow, mailing.main)
  /\ UNCHANGED <<accountVars, mailRow, reading, sentWith>>

\* processEmailJob reads the row with its campaign, then the senders of both.
ReadRow(r) ==
  /\ Going(mailing) /\ mailRow[r].status = "PENDING" /\ reading[r] = Unread
  /\ reading' = [reading EXCEPT ![r] = [Unread EXCEPT !.step = "row", !.own = mailRow[r].s,
                                                      !.main = mailing.main]]
  /\ UNCHANGED <<accountVars, mailing, mailRow, sentWith, excused>>

ReadSenders(r) ==
  /\ reading[r].step = "row"
  /\ LET named == {reading[r].own, reading[r].main} \ {0}
         s == Resolved(reading[r].own, reading[r].main)
     IN  /\ reading' = [reading EXCEPT ![r].step = "senders",
                           ![r].verified = s # 0 /\ sender[s].verified,
                           ![r].password = IF s = 0 THEN "none" ELSE sender[s].password]
         /\ excused' = IF named \subseteq Connected THEN excused ELSE excused \cup {r}
  /\ UNCHANGED <<accountVars, mailing, mailRow, sentWith>>

\* FAILED without a verified sender; else the mail leaves with what was read.
MailRow(r) ==
  /\ reading[r].step = "senders" /\ reading' = [reading EXCEPT ![r] = Unread]
  /\ mailRow' = [mailRow EXCEPT ![r].status = IF reading[r].verified THEN "SENT" ELSE "FAILED"]
  /\ mailing' = [mailing EXCEPT !.status = IF @ = "SCHEDULED" THEN "SENDING" ELSE @]
  /\ sentWith' = IF reading[r].verified THEN sentWith \cup {reading[r].password} ELSE sentWith
  /\ UNCHANGED <<accountVars, excused>>

-----------------------------------------------------------------------------
(* Removing.                                                               *)

\* Wrong variant: only the campaign's first sender counts.
MailsFromMain(s) == mailing.main = s

MailsFrom(s) == mailing.main = s \/ s \in mailing.pool

\* deleteSender of the API (scoped) and of the tools: one transaction.  A pool of another
\* scope keeps the sender from being deleted; its other references become null by the
\* schema, and its campaign is not paused.
DeleteSender(s, scoped) ==
  LET reached == ~(scoped /\ mailing.elsewhere)
  IN  /\ SenderThere(s) /\ (reached \/ s \notin mailing.pool)
      /\ sender' = [sender EXCEPT ![s] = NoSender]
      /\ mailing' = [mailing EXCEPT !.main = IF @ = s THEN 0 ELSE @, !.pool = @ \ {s},
                       !.status = IF reached /\ MailsFrom(s) /\ Going(mailing) THEN "PAUSED" ELSE @]
      /\ mailRow' = [r \in Recipients |-> IF mailRow[r].s = s THEN [mailRow[r] EXCEPT !.s = 0] ELSE mailRow[r]]
      /\ excused' = IF reached THEN excused
                    ELSE excused \cup {r \in StillWaiting(mailRow) : s \in {mailRow[r].s, mailing.main}}
      /\ UNCHANGED <<made, call, reading, sentWith>>

SendersNext ==
  \/ \E a \in Addresses : Onboard(a)
  \/ \E h \in SenderCalls :
       \/ TestLogin(h) \/ InsertSender(h) \/ OnConflict(h) \/ SaveLogin(h) \/ ToolCreates(h)
       \/ InsertCampaign(h)
       \/ \E a \in Addresses : ConnectSender(h, a) \/ ToolLooks(h, a)
       \/ \E s \in Senders : VerifySender(h, s)
       \/ \E pool \in SUBSET Senders : CheckPool(h, pool)
  \/ \E s \in Senders :
       \/ CreateWithoutPool(s) \/ Repoint(s)
       \/ \E scoped \in BOOLEAN : DeleteSender(s, scoped)
  \/ Launch \/ Pause \/ Resume
  \/ \E r \in Recipients : ReadRow(r) \/ ReadSenders(r) \/ MailRow(r)

SendersSpec == SendersInit /\ [][SendersNext]_sendersVars

-----------------------------------------------------------------------------
\* Every variable keeps its type (the models Sender, EmailCampaign and EmailJob).
SendersTypeOK ==
  /\ sender \in [Senders -> [of : Addresses \cup {NoAddress}, verified : BOOLEAN,
                             password : Passwords, warmup : BOOLEAN]]
  /\ made \in 0..MaxSenders
  /\ call \in [SenderCalls ->
       [step : {"idle", "test", "retest", "insert", "conflict", "upgrade", "save", "create",
                "campaign"},
        of : Addresses \cup {NoAddress}, s : 0..MaxSenders, verified : BOOLEAN,
        password : Passwords, pool : SUBSET Senders]]
  /\ mailing \in [status : {"none", "SCHEDULED", "SENDING", "PAUSED"}, main : 0..MaxSenders,
                  pool : SUBSET Senders, elsewhere : BOOLEAN]
  /\ mailRow \in [Recipients -> [status : {"none", "PENDING", "SENT", "FAILED"}, s : 0..MaxSenders]]
  /\ reading \in [Recipients ->
       [step : {"idle", "row", "senders"}, own : 0..MaxSenders, main : 0..MaxSenders,
        verified : BOOLEAN, password : Passwords]]
  /\ sentWith \subseteq Passwords /\ excused \subseteq Recipients

\* Mails leave only with credentials the mail server has accepted, and every verified
\* sender has a warm-up schedule, although the one read before the test may have been
\* removed, verified or made anew by the time it is saved (senderControllers.ts:19-21,
\* 144-198, 286-321).
TestedAndWarming ==
  /\ sentWith \subseteq {"tested"}
  /\ \A s \in Connected : sender[s].verified => sender[s].warmup

\* Removing a sender costs no mail by itself: the campaigns that use it are paused in the
\* same transaction.  A row fails for want of a verified sender only if the campaign was set
\* going or launched while that row had none, or was given another sender by campaign_update
\* while the row waited, if the removal was in another scope, or if it fell between the two
\* reads of the worker (senderControllers.ts:617-651, emailWorker.ts:410-431).
FailsOnlyIfLetGo == {r \in Recipients : mailRow[r].status = "FAILED"} \subseteq excused

\* What the senders promise to the mails.
SenderSound == TestedAndWarming /\ FailsOnlyIfLetGo
===============================================================================
