---------------------------- MODULE ReplyDetector ----------------------------
(***************************************************************************)
(* Reply and bounce detection in one sender's mailbox: the IMAP sessions   *)
(* that listen, the scan at startup, the periodic scan, and what a scan    *)
(* records of each letter, one write after the other.  The mails went to   *)
(* one person, each from another campaign, so that an address alone does   *)
(* not tell them apart.                                                    *)
(***************************************************************************)
EXTENDS Integers, FiniteSets

CONSTANTS
  Answerable,  \* mails the sender has sent, EmailJob rows
  Posts,       \* letters that arrive in the mailbox
  Scans,       \* scans that may be under way at the same time
  Loops,       \* runs of runIdleSession
  NoAnswerable, NoLoop,
  MaxMishaps   \* bound on failed writes, lost connections, restarts, changes by hand
               \* and times the sender falls out of the active ones, together

ReplyAssumption ==
  /\ IsFiniteSet(Answerable) /\ IsFiniteSet(Posts)
  /\ NoAnswerable \notin Answerable /\ NoLoop \notin Loops
  /\ MaxMishaps \in Nat

ASSUME ReplyAssumption

VARIABLES
  sentRow,     \* EmailJob: [status, isReplied]
  follow,      \* RecipientSequenceState.replied of the mail's campaign
  suppressed,  \* the person is in the BounceList
  post,        \* letters: [kind, names]
  scan,        \* scans: [step, seen, open, mail, since]; since is history, the mails
               \* marked replied since the scan has read its list, open
  loopAt,      \* loops: "none", "connecting" (or waiting to), "open"
  listed,      \* the loop of the session in idleSessions; the others are stopped
  active,      \* the sender is verified and has sent lately
  booting,     \* the worker does its catch-up scan
  hand,        \* toggleReplied: [step, mail, to]
  mishaps,     \* counter of the bound
  answers,     \* history: REPLY events of a mail
  overlapped,  \* history: mails marked by a scan that could not know they were
  unmarked,    \* history: mails marked not replied by hand
  broken       \* history: mails whose recording failed half-way

rowVars == <<sentRow, follow, suppressed>>
sessionVars == <<loopAt, listed, active, booting>>
replyHistory == <<answers, overlapped, unmarked, broken>>
replyVars == <<rowVars, post, scan, sessionVars, hand, mishaps, replyHistory>>

Resting == [step |-> "idle", seen |-> {}, open |-> {}, mail |-> NoAnswerable,
            since |-> {}]
NoHand == [step |-> "idle", mail |-> NoAnswerable, to |-> FALSE]
RecordingSteps == {"markReplied", "replyEvent", "sequence", "markFailed", "suppress"}
Kinds == {"reply", "bounce", "plain"}

ReplyTypeOK ==
  /\ sentRow \in [Answerable -> [status : {"SENT", "FAILED"}, isReplied : BOOLEAN]]
  /\ follow \in [Answerable -> BOOLEAN] /\ suppressed \in BOOLEAN
  /\ post \in [Posts -> [kind : Kinds \cup {"none"}, names : Answerable \cup {NoAnswerable}]]
  /\ \A s \in Scans :
       /\ scan[s].step \in {"idle", "search", "list", "fetch", "next"} \cup RecordingSteps
       /\ scan[s].seen \subseteq Posts /\ scan[s].open \subseteq Answerable
       /\ scan[s].mail \in Answerable \cup {NoAnswerable} /\ scan[s].since \subseteq Answerable
       /\ (scan[s].step \in RecordingSteps) => scan[s].mail \in Answerable
  /\ loopAt \in [Loops -> {"none", "connecting", "open"}]
  /\ listed \in Loops \cup {NoLoop}
  /\ active \in BOOLEAN /\ booting \in BOOLEAN
  /\ hand \in [step : {"idle", "row", "sequence"}, mail : Answerable \cup {NoAnswerable},
               to : BOOLEAN]
  /\ mishaps \in 0..MaxMishaps
  /\ answers \in [Answerable -> Nat] /\ overlapped \subseteq Answerable
  /\ unmarked \subseteq Answerable /\ broken \subseteq Answerable

ReplyInit ==
  /\ sentRow = [m \in Answerable |-> [status |-> "SENT", isReplied |-> FALSE]]
  /\ follow = [m \in Answerable |-> FALSE] /\ suppressed = FALSE
  /\ post = [l \in Posts |-> [kind |-> "none", names |-> NoAnswerable]]
  /\ scan = [s \in Scans |-> Resting]
  /\ loopAt = [k \in Loops |-> "none"] /\ listed = NoLoop
  /\ active = TRUE /\ booting = TRUE
  /\ hand = NoHand /\ mishaps = 0
  /\ answers = [m \in Answerable |-> 0] /\ overlapped = {} /\ unmarked = {} /\ broken = {}

-----------------------------------------------------------------------------
(* The mailbox.  A bounce comes from a mailer daemon and names its mail; a *)
(* reply names one or, written as a new letter with "Re:", none; a plain   *)
(* letter is no candidate.  All but the bounce come from the person.       *)

Here == {l \in Posts : post[l].kind # "none"}
Candidates(S) == {l \in S : post[l].kind # "plain"}

LetterComes(l) ==
  /\ post[l].kind = "none"
  /\ \E k \in Kinds, m \in Answerable \cup {NoAnswerable} :
       /\ k = "bounce" => m # NoAnswerable
       /\ k = "plain" => m = NoAnswerable
       /\ post' = [post EXCEPT ![l] = [kind |-> k, names |-> m]]
  /\ UNCHANGED <<rowVars, scan, sessionVars, hand, mishaps, replyHistory>>

-----------------------------------------------------------------------------
(* Sessions.  A stopped loop goes on until its connection ends or a letter *)
(* arrives; meanwhile a new session of the sender may run.                 *)

Mishap == mishaps < MaxMishaps /\ mishaps' = mishaps + 1

ActiveAgain == ~active /\ active' = TRUE /\ UNCHANGED mishaps
FallsOut == active /\ Mishap /\ active' = FALSE

SenderChanges ==
  /\ ActiveAgain \/ FallsOut
  /\ UNCHANGED <<rowVars, post, scan, loopAt, listed, booting, hand,
                 replyHistory>>

\* refreshIdleSessions: every minute the map follows the active senders.  A
\* session whose password cannot be decrypted stays in the map without a loop.
DropSession == ~active /\ listed # NoLoop /\ listed' = NoLoop /\ UNCHANGED loopAt

OpenSession ==
  /\ active /\ listed = NoLoop
  /\ \E k \in Loops :
       /\ loopAt[k] = "none" /\ listed' = k
       /\ \E to \in {"connecting", "none"} : loopAt' = [loopAt EXCEPT ![k] = to]

RefreshSessions ==
  /\ ~booting /\ (DropSession \/ OpenSession)
  /\ UNCHANGED <<rowVars, post, scan, active, booting, hand, mishaps, replyHistory>>

\* runIdleSession: connect, open the box, lose the connection, once more.
LoopMoves(k) ==
  /\ loopAt[k] # "none"
  /\ \/ loopAt[k] = "connecting" /\ loopAt' = [loopAt EXCEPT ![k] = "open"]
     \/ listed = k /\ loopAt[k] = "open" /\ loopAt' = [loopAt EXCEPT ![k] = "connecting"]
     \/ listed # k /\ loopAt' = [loopAt EXCEPT ![k] = "none"]
  /\ UNCHANGED <<rowVars, post, scan, listed, active, booting, hand, mishaps, replyHistory>>

\* The mail event; a stopped session only ends its connection.
MailEvent(k, s) ==
  /\ loopAt[k] = "open" /\ scan[s].step = "idle"
  /\ IF listed = k
     THEN scan' = [scan EXCEPT ![s] = [Resting EXCEPT !.step = "search"]]
          /\ UNCHANGED loopAt
     ELSE loopAt' = [loopAt EXCEPT ![k] = "none"] /\ UNCHANGED scan
  /\ UNCHANGED <<rowVars, post, listed, active, booting, hand, mishaps,
                 replyHistory>>

-----------------------------------------------------------------------------
(* Scans.                                                                  *)

\* performInitialCatchupScan, alone in the mailbox.
CatchUp(s) ==
  /\ booting /\ \A t \in Scans : scan[t].step = "idle"
  /\ scan' = [scan EXCEPT ![s].step = "search"]
  /\ UNCHANGED <<rowVars, post, sessionVars, hand, mishaps, replyHistory>>

\* performStartupSelfHealing is over, after a scan or a failed connection.
Booted ==
  /\ booting /\ \A s \in Scans : scan[s].step = "idle"
  /\ booting' = FALSE
  /\ UNCHANGED <<rowVars, post, scan, loopAt, listed, active, hand, mishaps,
                 replyHistory>>

EndedScan(s) == [scan EXCEPT ![s] = Resting]

\* The headers are there: the last letters of the box.
Search(s) ==
  /\ scan[s].step = "search"
  /\ IF Candidates(Here) = {}
     THEN scan' = EndedScan(s)
     ELSE scan' = [scan EXCEPT ![s].step = "list", ![s].seen = Here]
  /\ UNCHANGED <<rowVars, post, sessionVars, hand, mishaps, replyHistory>>

\* Wrong variant: mails that are answered are looked at again.
SentJobs == {m \in Answerable : sentRow[m].status = "SENT"}

OpenJobs == {m \in Answerable : sentRow[m].status = "SENT" /\ ~sentRow[m].isReplied}

ReadJobs(s) ==
  /\ scan[s].step = "list"
  /\ IF OpenJobs = {}
     THEN scan' = EndedScan(s)
     ELSE scan' = [scan EXCEPT ![s].step = "next", ![s].open = OpenJobs]
  /\ UNCHANGED <<rowVars, post, sessionVars, hand, mishaps, replyHistory>>

\* The periodic scan reads its list and fetches the letters; the array it is
\* given is still empty, because buildMessagesFromCache is not awaited.
StartPoll(s) ==
  /\ ~booting /\ active /\ scan[s].step = "idle"
  /\ \A t \in Scans : scan[t].step # "fetch"
  /\ OpenJobs # {}
  /\ scan' = [scan EXCEPT ![s] = [Resting EXCEPT !.step = "fetch"]]
  /\ UNCHANGED <<rowVars, post, sessionVars, hand, mishaps, replyHistory>>

EndPoll(s) ==
  /\ scan[s].step = "fetch"
  /\ scan' = EndedScan(s)
  /\ UNCHANGED <<rowVars, post, sessionVars, hand, mishaps, replyHistory>>

\* Wrong variant: what the letter names need not be a mail of ours.
MatchNamed(s, l) == {post[l].names}

\* matchMessageToJob: the mail the letter names, if it is in the list, else
\* one of the mails to the letter's address; the subject chooses among several.
Match(s, l) ==
  IF post[l].names \in scan[s].open THEN {post[l].names}
  ELSE IF post[l].kind = "bounce" THEN {} ELSE scan[s].open

\* The next letter; one that matches nothing is passed over.
Take(s, l) ==
  /\ scan[s].step = "next" /\ l \in scan[s].seen
  /\ \/ /\ Match(s, l) = {}
        /\ scan' = [scan EXCEPT ![s].seen = @ \ {l}]
     \/ \E m \in Match(s, l) :
          scan' = [scan EXCEPT ![s].seen = @ \ {l}, ![s].mail = m,
                     ![s].step = IF post[l].kind = "bounce" THEN "markFailed" ELSE "markReplied"]
  /\ UNCHANGED <<rowVars, post, sessionVars, hand, mishaps, replyHistory>>

Finished(s) ==
  /\ scan[s].step = "next" /\ scan[s].seen = {}
  /\ scan' = EndedScan(s)
  /\ UNCHANGED <<rowVars, post, sessionVars, hand, mishaps, replyHistory>>

-----------------------------------------------------------------------------
(* What is recorded, in this order; the activity, the contact's stage and  *)
(* the BOUNCE event are written in between and may fail like the others.   *)

GoOn(s, from, to) ==
  /\ scan[s].step = from
  /\ scan' = [scan EXCEPT ![s].step = to,
                          ![s].mail = IF to = "next" THEN NoAnswerable ELSE @]
  /\ UNCHANGED <<post, sessionVars, hand, mishaps, unmarked, broken>>

\* The scans that have m in their list do not learn that it is marked.
Unaware(scans, m) ==
  [t \in Scans |-> IF m \in scans[t].open THEN [scans[t] EXCEPT !.since = @ \cup {m}]
                   ELSE scans[t]]

MarkReplied(s) ==
  LET m == scan[s].mail IN
  /\ scan[s].step = "markReplied"
  /\ scan' = Unaware([scan EXCEPT ![s].step = "replyEvent"], m)
  /\ sentRow' = [sentRow EXCEPT ![m].isReplied = TRUE]
  /\ overlapped' = overlapped \cup ({m} \cap scan[s].since)
  /\ UNCHANGED <<follow, suppressed, post, sessionVars, hand, mishaps, answers,
                 unmarked, broken>>

ReplyEvent(s) ==
  /\ GoOn(s, "replyEvent", "sequence")
  /\ answers' = [answers EXCEPT ![scan[s].mail] = @ + 1]
  /\ UNCHANGED <<rowVars, overlapped>>

\* After logContactActivityByEmail and updateContactStageByEmail.
StopSequence(s) ==
  /\ GoOn(s, "sequence", "next")
  /\ follow' = [follow EXCEPT ![scan[s].mail] = TRUE]
  /\ UNCHANGED <<sentRow, suppressed, answers, overlapped>>

\* After the BOUNCE event.
MarkFailed(s) ==
  /\ GoOn(s, "markFailed", "suppress")
  /\ sentRow' = [sentRow EXCEPT ![scan[s].mail].status = "FAILED"]
  /\ UNCHANGED <<follow, suppressed, answers, overlapped>>

Suppress(s) ==
  /\ GoOn(s, "suppress", "next")
  /\ suppressed' = TRUE
  /\ UNCHANGED <<sentRow, follow, answers, overlapped>>

-----------------------------------------------------------------------------
(* Mishaps.                                                                *)

Recording(s) == IF scan[s].step \in RecordingSteps THEN {scan[s].mail} ELSE {}

\* A write fails: the letter's remaining writes are skipped.
WriteFails(s) ==
  /\ Mishap
  /\ scan[s].step \in RecordingSteps
  /\ scan' = [scan EXCEPT ![s].step = "next", ![s].mail = NoAnswerable]
  /\ broken' = broken \cup Recording(s)
  /\ UNCHANGED <<rowVars, post, sessionVars, hand, answers, overlapped, unmarked>>

\* The connection, or the list, is lost.
ScanLost(s) ==
  /\ Mishap
  /\ scan[s].step \in {"search", "list", "fetch"}
  /\ scan' = EndedScan(s)
  /\ UNCHANGED <<rowVars, post, sessionVars, hand, replyHistory>>

WorkerRestarts ==
  /\ Mishap
  /\ scan' = [s \in Scans |-> Resting]
  /\ loopAt' = [k \in Loops |-> "none"] /\ listed' = NoLoop
  /\ booting' = TRUE
  /\ broken' = broken \cup UNION {Recording(s) : s \in Scans}
  /\ UNCHANGED <<rowVars, post, active, hand, answers, overlapped, unmarked>>

-----------------------------------------------------------------------------
(* toggleReplied: the row as it was read, and two writes.                  *)

ToggleReplied(m) ==
  /\ hand.step = "idle" /\ Mishap
  /\ sentRow[m].status = "SENT"
  /\ hand' = [step |-> "row", mail |-> m, to |-> ~sentRow[m].isReplied]
  /\ UNCHANGED <<rowVars, post, scan, sessionVars, replyHistory>>

ToggleRow ==
  /\ hand.step = "row" /\ hand' = [hand EXCEPT !.step = "sequence"]
  /\ sentRow' = [sentRow EXCEPT ![hand.mail].isReplied = hand.to]
  /\ scan' = IF hand.to THEN Unaware(scan, hand.mail) ELSE scan
  /\ unmarked' = IF hand.to THEN unmarked ELSE unmarked \cup {hand.mail}
  /\ UNCHANGED <<follow, suppressed, post, sessionVars, mishaps, answers, overlapped,
                 broken>>

ToggleSequence ==
  /\ hand.step = "sequence" /\ hand' = NoHand
  /\ follow' = [follow EXCEPT ![hand.mail] = hand.to]
  /\ UNCHANGED <<sentRow, suppressed, post, scan, sessionVars, mishaps,
                 replyHistory>>

-----------------------------------------------------------------------------
ReplyNext ==
  \/ \E l \in Posts : LetterComes(l)
  \/ SenderChanges \/ RefreshSessions
  \/ \E k \in Loops : LoopMoves(k) \/ \E s \in Scans : MailEvent(k, s)
  \/ Booted
  \/ \E s \in Scans :
       \/ CatchUp(s) \/ Search(s) \/ ReadJobs(s) \/ StartPoll(s) \/ EndPoll(s)
       \/ \E l \in Posts : Take(s, l)
       \/ Finished(s)
       \/ MarkReplied(s) \/ ReplyEvent(s) \/ StopSequence(s)
       \/ MarkFailed(s) \/ Suppress(s)
       \/ WriteFails(s) \/ ScanLost(s)
  \/ WorkerRestarts
  \/ \E m \in Answerable : ToggleReplied(m)
  \/ ToggleRow \/ ToggleSequence

ReplySpec == ReplyInit /\ [][ReplyNext]_replyVars

\* A mail's answer is counted a second time only by a scan that had read its
\* list before the first was marked, or after somebody took the mark back
\* (matchHeadersAndResolve, overlapping mail events and toggleReplied).
CountedTwiceOnlyByOverlap ==
  \A m \in Answerable : answers[m] > 1 => m \in overlapped \cup unmarked

\* A mail that is marked replied has its follow-ups stopped, and a bounced one
\* its address suppressed, unless that is still being recorded, failed half-way
\* (nobody comes back to it) or a hand took the mark back.
FollowUpsStop ==
  \A m \in Answerable :
    \/ m \in broken \cup unmarked
    \/ \E s \in Scans : m \in Recording(s)
    \/ hand.step = "sequence" /\ hand.mail = m
    \/ /\ sentRow[m].isReplied => follow[m]
       /\ sentRow[m].status = "FAILED" => suppressed

\* What reply detection records, it records once and completely, up to those.
ReplySound == CountedTwiceOnlyByOverlap /\ FollowUpsStop
===============================================================================
