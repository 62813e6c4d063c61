-------------------------------- MODULE ImapPool --------------------------------
(***************************************************************************)
(* The pool of IMAP connections of the reply detector: one entry for each  *)
(* address, written when a connection is ready, deleted by whatever ends   *)
(* or fails, and given back under the address.  Here: the entry of one     *)
(* address, which the catch-up scan and the polls use.                     *)
(***************************************************************************)
EXTENDS Naturals, FiniteSets

CONSTANTS
  CatchUps, Polls,           \* scans of mailboxes of this address
  Connections, NoConnection  \* bound: connections opened

ImapScans == CatchUps \cup Polls

ImapAssumption == NoConnection \notin Connections /\ CatchUps \cap Polls = {}

ASSUME ImapAssumption

VARIABLES
  pooled,  \* [conn, inUse, expired], conn = NoConnection: none
  link,    \* link[c]: "new", "connecting", "ready", "ending", "closed"
  fetch,   \* fetch[s]: [step, conn]
  crossed  \* history: a connection was opened while the pool or a scan still had another

imapVars == <<pooled, link, fetch, crossed>>

NoEntry == [conn |-> NoConnection, inUse |-> FALSE, expired |-> FALSE]
NoScan == [step |-> "idle", conn |-> NoConnection]

ImapTypeOK ==
  /\ pooled \in [conn : Connections \cup {NoConnection}, inUse : BOOLEAN, expired : BOOLEAN]
  /\ link \in [Connections -> {"new", "connecting", "ready", "ending", "closed"}]
  /\ fetch \in [ImapScans -> [step : {"idle", "connecting", "using"}, conn : Connections \cup {NoConnection}]]
  /\ crossed \in BOOLEAN

ImapInit ==
  /\ pooled = NoEntry /\ link = [c \in Connections |-> "new"]
  /\ fetch = [s \in ImapScans |-> NoScan] /\ crossed = FALSE

-----------------------------------------------------------------------------
Present == pooled.conn # NoConnection

\* Wrong variant: an entry is reused although a scan is using it.
UsableAnyhow == Present /\ ~pooled.expired
Usable == Present /\ ~pooled.inUse /\ ~pooled.expired

Reuse(s) ==
  /\ fetch[s].step = "idle" /\ Usable
  /\ pooled' = [pooled EXCEPT !.inUse = TRUE]
  /\ fetch' = [fetch EXCEPT ![s] = [step |-> "using", conn |-> pooled.conn]]
  /\ UNCHANGED <<link, crossed>>

\* link after what is in the pool has been told to end
LinksEnding == [c \in Connections |-> IF c = pooled.conn /\ link[c] = "ready" THEN "ending" ELSE link[c]]

OpenConnection(s, c) ==
  /\ fetch[s].step = "idle" /\ ~Usable /\ link[c] = "new"
  /\ pooled' = NoEntry /\ link' = [LinksEnding EXCEPT ![c] = "connecting"]
  /\ fetch' = [fetch EXCEPT ![s] = [step |-> "connecting", conn |-> c]]
  /\ crossed' = (crossed \/ Present \/ (\E t \in ImapScans : fetch[t].step # "idle")
                         \/ \E d \in Connections : link[d] = "ending")

\* Whatever is in the pool by now is overwritten.
ConnectionReady(s) ==
  /\ fetch[s].step = "connecting" /\ link[fetch[s].conn] = "connecting"
  /\ link' = [link EXCEPT ![fetch[s].conn] = "ready"]
  /\ pooled' = [conn |-> fetch[s].conn, inUse |-> TRUE, expired |-> FALSE]
  /\ fetch' = [fetch EXCEPT ![s].step = "using"] /\ UNCHANGED crossed

\* The entry of the address is deleted, whichever connection it holds.
ConnectionFails(c) ==
  /\ link[c] \in {"connecting", "ready"}
  /\ link' = [link EXCEPT ![c] = "closed"] /\ pooled' = NoEntry
  /\ fetch' = [s \in ImapScans |-> IF fetch[s] = [step |-> "connecting", conn |-> c] THEN NoScan ELSE fetch[s]]
  /\ UNCHANGED crossed

ConnectionEnds(c) ==
  /\ link[c] \in {"ready", "ending"}
  /\ link' = [link EXCEPT ![c] = "closed"] /\ pooled' = NoEntry /\ UNCHANGED <<fetch, crossed>>

\* Given back under the address.
Released == IF Present THEN [pooled EXCEPT !.inUse = FALSE] ELSE pooled

\* A catch-up scan gives the connection back only when it succeeds.
EndCatchUp(s) ==
  /\ s \in CatchUps /\ fetch[s].step = "using"
  /\ pooled' \in {Released, pooled} /\ fetch' = [fetch EXCEPT ![s] = NoScan] /\ UNCHANGED <<link, crossed>>

\* A poll gives it back however it ends, and ends what has expired.
evictExpiredEntries(s) ==
  /\ s \in Polls /\ fetch[s].step = "using" /\ fetch' = [fetch EXCEPT ![s] = NoScan]
  /\ IF Present /\ pooled.expired THEN link' = LinksEnding /\ pooled' = NoEntry
     ELSE pooled' = Released /\ UNCHANGED link
  /\ UNCHANGED crossed

\* By a poll of another address.
EvictedByOther ==
  /\ Present /\ ~pooled.inUse /\ pooled.expired
  /\ link' = LinksEnding /\ pooled' = NoEntry /\ UNCHANGED <<fetch, crossed>>

Expires == Present /\ ~pooled.expired /\ pooled' = [pooled EXCEPT !.expired = TRUE] /\ UNCHANGED <<link, fetch, crossed>>

ImapNext ==
  \/ \E s \in ImapScans : Reuse(s) \/ ConnectionReady(s) \/ EndCatchUp(s) \/ evictExpiredEntries(s)
  \/ \E s \in ImapScans, c \in Connections : OpenConnection(s, c)
  \/ \E c \in Connections : ConnectionFails(c) \/ ConnectionEnds(c)
  \/ Expires \/ EvictedByOther

ImapSpec == ImapInit /\ [][ImapNext]_imapVars

-----------------------------------------------------------------------------
ScansOf(c) == {s \in ImapScans : fetch[s] = [step |-> "using", conn |-> c]}

\* Two scans never share a connection, unless a connection was once opened while the
\* pool held one, a scan was at work, or an old one was still ending.  (Entries are
\* given back and deleted by address: a late release or `end` meets the new entry.)
SharedOnlyWhenCrossed == ~crossed => \A c \in Connections : Cardinality(ScansOf(c)) <= 1

\* Likewise each open connection that no scan uses is known to the pool: the next
\* acquisition takes or ends it.
LeakedOnlyWhenCrossed == ~crossed => \A c \in Connections : link[c] = "ready" /\ ScansOf(c) = {} => pooled.conn = c

\* replyDetector.ts: the pool hands a connection to one scan at a time and loses none,
\* as long as its acquisitions do not cross.
PoolIsSound == SharedOnlyWhenCrossed /\ LeakedOnlyWhenCrossed
=============================================================================
