------------------------------ MODULE SmtpPool ------------------------------
(***************************************************************************)
(* The transporters of the e-mail worker for one sender: opened by the     *)
(* first run that needs one, shared by the runs that come while it is      *)
(* open, closed when nobody has used it for a while.                       *)
(***************************************************************************)
EXTENDS Integers, FiniteSets

CONSTANTS
  PoolRuns,        \* concurrent runs of processEmailJob for the sender
  NoTransporter,
  MaxTransporters  \* bound on the transporters opened

PoolAssumption ==
  /\ MaxTransporters \in Nat
  /\ IsFiniteSet(PoolRuns)
  /\ NoTransporter \notin 1..MaxTransporters

ASSUME PoolAssumption

VARIABLES
  entry,   \* the entry of smtpPool: [transporter, activeCount, expired]
  open,    \* transporters that are not closed
  using    \* using[w]: the transporter run w has acquired

poolVars == <<entry, open, using>>

Transporters == 1..MaxTransporters

\* smtpPool has no entry for the sender.
Absent == [transporter |-> NoTransporter, activeCount |-> 0, expired |-> FALSE]

PoolTypeOK ==
  /\ entry \in [transporter : Transporters \cup {NoTransporter}, activeCount : Nat,
                expired : BOOLEAN]
  /\ open \subseteq Transporters
  /\ using \in [PoolRuns -> Transporters \cup {NoTransporter}]

PoolInit == entry = Absent /\ open = {} /\ using = [w \in PoolRuns |-> NoTransporter]

\* acquireSmtpTransporter
ReuseTransporter(w) ==
  /\ using[w] = NoTransporter
  /\ entry # Absent
  /\ entry' = [entry EXCEPT !.activeCount = @ + 1, !.expired = FALSE]
  /\ using' = [using EXCEPT ![w] = entry.transporter]
  /\ UNCHANGED open

OpenTransporter(w) ==
  /\ using[w] = NoTransporter
  /\ entry = Absent
  /\ \E t \in Transporters :
       /\ t \notin open /\ \A v \in PoolRuns : using[v] # t
       /\ open' = open \cup {t}
       /\ entry' = [transporter |-> t, activeCount |-> 1, expired |-> FALSE]
       /\ using' = [using EXCEPT ![w] = t]

\* evictExpiredSmtpEntries
Evicted(e) == IF e.activeCount = 0 /\ e.expired THEN Absent ELSE e

\* releaseSmtpTransporter, on every way out of processEmailJob; the eviction that follows
\* finds the entry renewed.
ReleaseTransporter(w) ==
  /\ using[w] # NoTransporter
  /\ using' = [using EXCEPT ![w] = NoTransporter]
  /\ entry' = IF entry = Absent THEN entry
              ELSE [entry EXCEPT !.activeCount = IF @ > 0 THEN @ - 1 ELSE 0, !.expired = FALSE]
  /\ UNCHANGED open

\* SMTP_POOL_REUSE_MS is over.
ExpireEntry ==
  /\ entry # Absent /\ ~entry.expired
  /\ entry' = [entry EXCEPT !.expired = TRUE]
  /\ UNCHANGED <<open, using>>

\* The timer, once a minute, or a run of another sender.
Evict ==
  /\ entry # Absent
  /\ entry' = Evicted(entry)
  /\ open' = IF entry' = Absent THEN open \ {entry.transporter} ELSE open
  /\ UNCHANGED using

PoolNext ==
  \/ \E w \in PoolRuns : ReuseTransporter(w) \/ OpenTransporter(w) \/ ReleaseTransporter(w)
  \/ ExpireEntry \/ Evict

PoolSpec == PoolInit /\ [][PoolNext]_poolVars

\* A transporter is not closed under a run that sends with it: the count in the entry is
\* the number of its users, although entries come and go (emailWorker.ts:102-164).
UsedIsOpen ==
  /\ \A w \in PoolRuns : using[w] # NoTransporter => using[w] \in open
  /\ entry.activeCount = Cardinality({w \in PoolRuns : using[w] # NoTransporter})
=============================================================================
