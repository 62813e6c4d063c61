---------------------------------- MODULE Inbox ----------------------------------
(***************************************************************************)
(* The unified inbox: the synchronisations that copy the letters of a      *)
(* sender's mailbox, asked for by the worker, the page and the MCP tool,   *)
(* the flags of the copies, and the page, whose answers may come late.     *)
(* The letters of a mailbox are one conversation here, with the same       *)
(* correspondent and subject in every mailbox.                             *)
(***************************************************************************)
EXTENDS Integers, FiniteSets

CONSTANTS
  Arrivals, NoLetterRead,
  Boxes, FirstBox,     \* the mailboxes of the senders; getSenders lists FirstBox first
  NoBox,
  Syncs,               \* synchronisations at the same time
  Loads,               \* loads of the page at the same time
  Toggles,             \* star requests at the same time
  MaxSyncs, MaxClicks  \* bounds on synchronisations and on what the user does

InboxAssumption ==
  /\ IsFiniteSet(Arrivals) /\ NoLetterRead \notin Arrivals
  /\ FirstBox \in Boxes /\ NoBox \notin Boxes
  /\ IsFiniteSet(Syncs) /\ Syncs # {}
  /\ MaxSyncs \in Nat /\ MaxClicks \in Nat

ASSUME InboxAssumption

VARIABLES
  arrived,        \* arrived[m]: the mailbox it has arrived in, and whether it has a Message-ID
  copy,           \* copy[m][k]: the flags of the k-th row of InboxEmail for it; {}: no row
  sync,           \* sync[s]: its mailbox, the letters it has still to store, the one it inserts
  page,           \* the sender chosen, the mailbox of the threads shown, the e-mails shown
  load,           \* load[l]: an answer the page waits for
  toggle,         \* toggle[t]: a copy whose star is being toggled, and what was read
  syncs, clicks,  \* counters of the bounds
  raced,          \* history: letters that two synchronisations were about to insert
  loose,          \* history: an answer came late, or a reload left the mailbox shown
  misplaced       \* history: a reply has gone out from another mailbox than its letter's

inboxVars == <<arrived, copy, sync, page, load, toggle, syncs, clicks, raced, loose, misplaced>>
serverVars == <<arrived, copy, sync, toggle, syncs, raced>>

Flags == {"stored", "read", "starred", "archived", "deleted"}
CopyNumbers == 1 .. Cardinality(Syncs)
Unsent == [box |-> NoBox, known |-> FALSE]
NoSync == [box |-> NoBox, todo |-> {}, inserts |-> NoLetterRead]
EmptyPage == [sender |-> NoBox, threads |-> NoBox, emails |-> NoBox]
NoLoad == [kind |-> "no", box |-> NoBox]
NoToggle == [of |-> NoLetterRead, nr |-> 1, saw |-> FALSE]

InboxTypeOK ==
  /\ arrived \in [Arrivals -> [box : Boxes \cup {NoBox}, known : BOOLEAN]]
  /\ copy \in [Arrivals -> [CopyNumbers -> SUBSET Flags]]
  /\ sync \in [Syncs -> [box : Boxes \cup {NoBox}, todo : SUBSET Arrivals,
                         inserts : Arrivals \cup {NoLetterRead}]]
  /\ page \in [sender : Boxes \cup {NoBox}, threads : Boxes \cup {NoBox}, emails : Boxes \cup {NoBox}]
  /\ load \in [Loads -> [kind : {"no", "senders", "threads", "first", "emails"},
                         box : Boxes \cup {NoBox}]]
  /\ toggle \in [Toggles -> [of : Arrivals \cup {NoLetterRead}, nr : CopyNumbers, saw : BOOLEAN]]
  /\ syncs \in 0 .. MaxSyncs /\ clicks \in 0 .. MaxClicks
  /\ raced \subseteq Arrivals /\ loose \in BOOLEAN /\ misplaced \in BOOLEAN

InboxInit ==
  /\ arrived = [m \in Arrivals |-> Unsent]
  /\ copy = [m \in Arrivals |-> [k \in CopyNumbers |-> {}]]
  /\ sync = [s \in Syncs |-> NoSync]
  /\ page = EmptyPage
  /\ load = [l \in Loads |-> NoLoad]
  /\ toggle = [t \in Toggles |-> NoToggle]
  /\ syncs = 0 /\ clicks = 0
  /\ raced = {} /\ loose = FALSE /\ misplaced = FALSE

Stored(m, k) == "stored" \in copy[m][k]
StoredIn(box) == {m \in Arrivals : arrived[m].box = box /\ \E k \in CopyNumbers : Stored(m, k)}
Visible(m, k) == Stored(m, k) /\ copy[m][k] \cap {"archived", "deleted"} = {}
Click == clicks < MaxClicks /\ clicks' = clicks + 1
Waits(l, kind, box) == load' = [load EXCEPT ![l] = [kind |-> kind, box |-> box]]

(***************************************************************************)
(* The mailbox and its synchronisation (syncViaImap).                      *)
(***************************************************************************)
ArriveIn(m, box, known) ==
  /\ arrived[m] = Unsent
  /\ arrived' = [arrived EXCEPT ![m] = [box |-> box, known |-> known]]
  /\ UNCHANGED <<copy, sync, page, load, toggle, syncs, clicks, raced, loose, misplaced>>

\* The letters of the last 30 days, the last hundred of them.
BeginSync(s, box) ==
  /\ sync[s] = NoSync
  /\ syncs < MaxSyncs /\ syncs' = syncs + 1
  /\ \E recent \in SUBSET {m \in Arrivals : arrived[m].box = box} :
       sync' = [sync EXCEPT ![s] = [box |-> box, todo |-> recent, inserts |-> NoLetterRead]]
  /\ UNCHANGED <<arrived, copy, page, load, toggle, clicks, raced, loose, misplaced>>

\* With a Message-ID the upsert finds the row there is, whatever its flags.
UpsertLetter(s, m) ==
  /\ m \in sync[s].todo /\ sync[s].inserts = NoLetterRead /\ arrived[m].known
  /\ sync' = [sync EXCEPT ![s].todo = @ \ {m}]
  /\ copy' = [copy EXCEPT ![m][1] = @ \cup {"stored"}]
  /\ UNCHANGED <<arrived, page, load, toggle, syncs, clicks, raced, loose, misplaced>>

\* Without one, a row of the same correspondent and subject keeps it out, be it another letter.
Unnamed(s, m) == m \in sync[s].todo /\ sync[s].inserts = NoLetterRead /\ ~ arrived[m].known
InsertLater(s, m) ==
  /\ sync' = [sync EXCEPT ![s].todo = @ \ {m}, ![s].inserts = m]
  /\ raced' = IF \E r \in Syncs \ {s} : sync[r].inserts = m THEN raced \cup {m} ELSE raced

\* Wrong variant: the rows there are do not matter.
LookForLetterNot(s, m) ==
  /\ Unnamed(s, m)
  /\ InsertLater(s, m)
  /\ UNCHANGED <<arrived, copy, page, load, toggle, syncs, clicks, loose, misplaced>>

LookForLetter(s, m) ==
  /\ Unnamed(s, m)
  /\ IF StoredIn(sync[s].box) # {}
     THEN sync' = [sync EXCEPT ![s].todo = @ \ {m}] /\ UNCHANGED raced
     ELSE InsertLater(s, m)
  /\ UNCHANGED <<arrived, copy, page, load, toggle, syncs, clicks, loose, misplaced>>

\* The id made up from the time is new, so the upsert always creates.
InsertLetter(s) ==
  LET m == sync[s].inserts
      free == {k \in CopyNumbers : ~ Stored(m, k)}
  IN /\ m # NoLetterRead
     /\ sync' = [sync EXCEPT ![s].inserts = NoLetterRead]
     /\ IF free = {} THEN UNCHANGED copy
        ELSE \E k \in free : /\ \A j \in free : k <= j
                             /\ copy' = [copy EXCEPT ![m][k] = {"stored"}]
     /\ UNCHANGED <<arrived, page, load, toggle, syncs, clicks, raced, loose, misplaced>>

\* All is stored, or the connection or the process fails.
EndSync(s) ==
  /\ sync[s] # NoSync /\ sync' = [sync EXCEPT ![s] = NoSync]
  /\ UNCHANGED <<arrived, copy, page, load, toggle, syncs, clicks, raced, loose, misplaced>>

(***************************************************************************)
(* The page. An answer is applied whenever it comes.                       *)
(***************************************************************************)
\* Late: the sender has changed since the request.
Late(l) == load[l].box # page.sender
Matches(m, k, filter) ==
  /\ Stored(m, k) /\ "deleted" \notin copy[m][k]
  /\ ("archived" \in copy[m][k]) = (filter = "ARCHIVED")
  /\ (filter = "UNREAD" => "read" \notin copy[m][k]) /\ (filter = "STARRED" => "starred" \in copy[m][k])
ThreadIn(box, filter) ==
  \E m \in Arrivals, k \in CopyNumbers : arrived[m].box = box /\ Matches(m, k, filter)

\* fetchInboxData: first the senders; a change of the filter or of the search asks for it.
Reload(l) == /\ load[l] = NoLoad /\ Waits(l, "senders", page.sender)

OpenInbox(l) ==
  /\ Click /\ Reload(l)
  /\ UNCHANGED serverVars /\ UNCHANGED <<page, loose, misplaced>>

\* The first sender is chosen, whichever was before; what is shown stays for now.
SendersCome(l) ==
  /\ load[l].kind = "senders"
  /\ page' = [page EXCEPT !.sender = FirstBox]
  /\ Waits(l, "threads", FirstBox)
  /\ loose' = (loose \/ page.sender \notin {NoBox, FirstBox})
  /\ UNCHANGED serverVars /\ UNCHANGED <<clicks, misplaced>>

\* The thread stays selected, or the first one is; the e-mails of a thread with this id,
\* of whatever mailbox, are shown until the request that follows is answered.
ThreadsCome(l) ==
  /\ load[l].kind \in {"threads", "first"}
  /\ loose' = (loose \/ Late(l))
  /\ \E filter \in {"ALL", "UNREAD", "STARRED", "ARCHIVED"} :
       page' = [page EXCEPT !.threads = IF ThreadIn(load[l].box, filter) THEN load[l].box ELSE NoBox]
  /\ IF page'.threads = NoBox THEN load' = [load EXCEPT ![l] = NoLoad]
     ELSE Waits(l, "emails", page.sender)
  /\ UNCHANGED serverVars /\ UNCHANGED <<clicks, misplaced>>

\* fetchEmailsForThread. Archived e-mails are not among them.
EmailsCome(l) ==
  /\ load[l].kind = "emails"
  /\ loose' = (loose \/ Late(l))
  /\ page' = [page EXCEPT !.emails =
                IF \E m \in Arrivals, k \in CopyNumbers : arrived[m].box = load[l].box /\ Visible(m, k)
                THEN load[l].box ELSE NoBox]
  /\ load' = [load EXCEPT ![l] = NoLoad]
  /\ UNCHANGED serverVars /\ UNCHANGED <<clicks, misplaced>>

LoadFails(l) ==
  /\ load[l] # NoLoad /\ load' = [load EXCEPT ![l] = NoLoad]
  /\ UNCHANGED serverVars /\ UNCHANGED <<page, clicks, loose, misplaced>>

\* handleSwitchSender.
SwitchSender(l, box) ==
  /\ Click /\ load[l] = NoLoad
  /\ page.sender \notin {NoBox, box}
  /\ page' = [sender |-> box, threads |-> NoBox, emails |-> NoBox]
  /\ Waits(l, "first", box)
  /\ UNCHANGED serverVars /\ UNCHANGED <<loose, misplaced>>

\* sendReply: the server sends from the sender it is told.
SendReply(l) ==
  /\ Click
  /\ page.threads # NoBox /\ page.emails # NoBox
  /\ misplaced' = (misplaced \/ page.sender # page.threads \/ page.sender # page.emails)
  /\ Reload(l) \/ UNCHANGED load
  /\ UNCHANGED serverVars /\ UNCHANGED <<page, loose>>

\* markThreadRead, archiveThread, deleteThread: the e-mails shown, one request each; a
\* letter that has come since is not among them. The MCP tools name the e-mail.
FlagEmails(l, flag) ==
  /\ Click
  /\ page.emails # NoBox
  /\ \E some \in SUBSET {mk \in Arrivals \X CopyNumbers :
                           arrived[mk[1]].box = page.emails /\ Stored(mk[1], mk[2])} :
       copy' = [m \in Arrivals |-> [k \in CopyNumbers |->
                  IF <<m, k>> \in some THEN copy[m][k] \cup {flag} ELSE copy[m][k]]]
  /\ Reload(l) \/ UNCHANGED load
  /\ UNCHANGED <<arrived, sync, page, toggle, syncs, raced, loose, misplaced>>

\* toggleInboxEmailStar reads the star and writes its opposite.
ReadStar(t, m, k) ==
  /\ Click
  /\ toggle[t] = NoToggle /\ Stored(m, k)
  /\ toggle' = [toggle EXCEPT ![t] = [of |-> m, nr |-> k, saw |-> "starred" \in copy[m][k]]]
  /\ UNCHANGED <<arrived, copy, sync, page, load, syncs, raced, loose, misplaced>>

WriteStar(t) ==
  LET star == toggle[t]
  IN /\ star # NoToggle
     /\ copy' = [copy EXCEPT ![star.of][star.nr] =
                   IF star.saw THEN @ \ {"starred"} ELSE @ \cup {"starred"}]
     /\ toggle' = [toggle EXCEPT ![t] = NoToggle]
     /\ UNCHANGED <<arrived, sync, page, load, syncs, clicks, raced, loose, misplaced>>

SyncStep(s) ==
  \/ \E box \in Boxes : BeginSync(s, box)
  \/ \E m \in Arrivals : UpsertLetter(s, m) \/ LookForLetter(s, m)
  \/ InsertLetter(s) \/ EndSync(s)

PageStep(l) ==
  \/ OpenInbox(l) \/ SendersCome(l) \/ ThreadsCome(l) \/ EmailsCome(l) \/ LoadFails(l)
  \/ \E box \in Boxes : SwitchSender(l, box)
  \/ SendReply(l) \/ \E flag \in {"read", "archived", "deleted"} : FlagEmails(l, flag)

InboxNext ==
  \/ \E m \in Arrivals, box \in Boxes, known \in BOOLEAN : ArriveIn(m, box, known)
  \/ \E s \in Syncs : SyncStep(s)
  \/ \E l \in Loads : PageStep(l)
  \/ \E t \in Toggles : WriteStar(t) \/ \E m \in Arrivals, k \in CopyNumbers : ReadStar(t, m, k)

InboxSpec == InboxInit /\ [][InboxNext]_inboxVars

(***************************************************************************)
(* Properties.                                                             *)
(***************************************************************************)
\* A letter is stored twice only if two synchronisations both looked for it before either
\* stored it; a deleted letter does not come back by itself (syncViaImap).
StoredTwiceOnlyByRace ==
  \A m \in Arrivals : Cardinality({k \in CopyNumbers : Stored(m, k)}) > 1 => m \in raced

\* A reply goes out from another mailbox than the one its letter is in only after an answer
\* for a sender the user has left, or a reload that went back to the first sender
\* (fetchInboxData, handleSwitchSender, sendReply).
ReplyLeavesFromItsBox == misplaced => loose
================================================================================
