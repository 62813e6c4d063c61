----------------------------- MODULE TrackingEvents -----------------------------
(***************************************************************************)
(* Opens and clicks: the hits of the tracking pixel and links, the Redis   *)
(* list that buffers them, the flushes of the API and of the worker that   *)
(* move them to Postgres, the hourly snapshots aggregated from there, and  *)
(* the pruning of old events.                                              *)
(***************************************************************************)
EXTENDS Integers, FiniteSets, Sequences

CONSTANTS
  Hits,          \* requests of the pixel or of a link
  Mails,         \* e-mails sent, each opened from one address
  NoMail,        \* an id in a request that no row of EmailJob has
  Flushes,       \* flushes at the same time, of both processes
  Aggregations,  \* aggregations at the same time
  FlushBatch,    \* TRACKING_BATCH_SIZE
  Window,        \* the 48 hours that are aggregated, in half hours
  PruneAge,      \* TRACKING_PRUNE_AFTER_DAYS
  MaxHalfHours,  \* bound on time
  MaxOutages     \* bound on failures of Redis and of the database, and on exits

TrackingAssumption ==
  /\ IsFiniteSet(Hits) /\ IsFiniteSet(Mails) /\ IsFiniteSet(Flushes) /\ NoMail \notin Mails
  /\ FlushBatch \in Nat \ {0} /\ Window \in Nat \ {0}
  /\ PruneAge \in Nat /\ Window < PruneAge
  /\ MaxHalfHours \in Nat /\ MaxOutages \in Nat

ASSUME TrackingAssumption

VARIABLES
  clock,     \* in half hours
  hit,       \* hit[h]: its kind, e-mail and time, and how far the request is
  buffer,    \* the list "tracking:events:buffer"
  flush,     \* flush[f]: idle, popping or applying effects, and the events in hand
  inserted,  \* rows of TrackingEvent per hit (a bag)
  reported,  \* hits whose contact activity and webhook are done
  snapshot,  \* snapshot[hour]: opens and clicks counted; -1: no row
  counting,  \* counting[a]: the counts an aggregation has still to write
  outages,   \* counter of the bound
  rivals     \* history: rivals[h], the opens of the same e-mail recorded before h arrived

trackingVars == <<clock, hit, buffer, flush, inserted, reported, snapshot, counting, outages, rivals>>

Times == 0 .. MaxHalfHours
HourOf(time) == time \div 2
Hours == {HourOf(time) : time \in Times}
NoCounts == [hour \in Hours |-> -1]
HitSteps == {"new", "asked", "done"}

TrackingTypeOK ==
  /\ clock \in Times
  /\ hit \in [Hits -> [kind : {"OPEN", "CLICK"}, mail : Mails \cup {NoMail}, time : Times, step : HitSteps]]
  /\ buffer \in Seq(Hits)
  /\ flush \in [Flushes -> [step : {"idle", "popping", "effects"}, hand : SUBSET Hits]]
  /\ inserted \in [Hits -> 0 .. Cardinality(Flushes)] /\ reported \subseteq Hits
  /\ snapshot \in [Hours -> -1 .. Cardinality(Hits)]
  /\ counting \in [Aggregations -> [Hours -> -1 .. Cardinality(Hits)]]
  /\ outages \in 0 .. MaxOutages
  /\ rivals \in [Hits -> SUBSET Hits]

TrackingInit ==
  /\ clock = 0
  /\ hit = [h \in Hits |-> [kind |-> "OPEN", mail |-> NoMail, time |-> 0, step |-> "new"]]
  /\ buffer = <<>>
  /\ flush = [f \in Flushes |-> [step |-> "idle", hand |-> {}]]
  /\ inserted = [h \in Hits |-> 0] /\ reported = {}
  /\ snapshot = NoCounts
  /\ counting = [a \in Aggregations |-> NoCounts]
  /\ outages = 0
  /\ rivals = [h \in Hits |-> {}]

Outage == outages < MaxOutages /\ outages' = outages + 1
Mend(failed) == IF failed THEN Outage ELSE UNCHANGED outages
Recorded == {h \in Hits : inserted[h] > 0}
OpensOf(mail) == {h \in Recorded : hit[h].kind = "OPEN" /\ hit[h].mail = mail}
SetFlush(f, step, hand) == flush' = [flush EXCEPT ![f] = [step |-> step, hand |-> hand]]

(***************************************************************************)
(* The pixel and the links.                                                *)
(***************************************************************************)
\* Wrong variant: an open is recorded whatever the table holds.
ArriveAgain(h, kind, mail) ==
  /\ hit[h].step = "new"
  /\ hit' = [hit EXCEPT ![h] = [kind |-> kind, mail |-> mail, time |-> clock, step |-> "asked"]]
  /\ rivals' = [rivals EXCEPT ![h] = OpensOf(mail)]
  /\ UNCHANGED <<clock, buffer, flush, inserted, reported, snapshot, counting, outages>>

\* handleOpen asks the table for an open of this e-mail from this address, and handleClick
\* nothing; a robot, a bad id or an unsafe link is not a hit.
Arrive(h, kind, mail) ==
  /\ hit[h].step = "new"
  /\ hit' = [hit EXCEPT ![h] = [kind |-> kind, mail |-> mail, time |-> clock, step |->
               IF kind = "OPEN" /\ OpensOf(mail) # {} THEN "done" ELSE "asked"]]
  /\ rivals' = [rivals EXCEPT ![h] = OpensOf(mail)]
  /\ UNCHANGED <<clock, buffer, flush, inserted, reported, snapshot, counting, outages>>

\* TrackingBufferService.buffer: nobody waits for the answer of Redis.
Buffer(h) ==
  /\ hit[h].step = "asked"
  /\ hit' = [hit EXCEPT ![h].step = "done"]
  /\ \E failed \in BOOLEAN :
       /\ Mend(failed)
       /\ buffer' = IF failed THEN buffer ELSE <<h>> \o buffer
  /\ UNCHANGED <<clock, flush, inserted, reported, snapshot, counting, rivals>>

(***************************************************************************)
(* TrackingBufferService.flush, in the API and in the worker; the interval *)
(* does not wait for the flush before.                                     *)
(***************************************************************************)
PopOne(f) ==
  /\ flush[f].step \in {"idle", "popping"}
  /\ Cardinality(flush[f].hand) < FlushBatch /\ buffer # <<>>
  /\ SetFlush(f, "popping", flush[f].hand \cup {buffer[Len(buffer)]})
  /\ buffer' = SubSeq(buffer, 1, Len(buffer) - 1)
  /\ UNCHANGED <<clock, hit, inserted, reported, snapshot, counting, outages, rivals>>

\* createMany takes the batch or refuses all of it: one event of an e-mail that does not
\* exist is enough. The events are gone from the list in either case.
InsertBatch(f) ==
  /\ flush[f].step = "popping"
  /\ Cardinality(flush[f].hand) = FlushBatch \/ buffer = <<>>
  /\ \E failed \in BOOLEAN :
       /\ Mend(failed)
       /\ IF failed \/ \E h \in flush[f].hand : hit[h].mail = NoMail
          THEN SetFlush(f, "idle", {}) /\ UNCHANGED inserted
          ELSE /\ SetFlush(f, "effects", flush[f].hand)
               /\ inserted' = [h \in Hits |-> IF h \in flush[f].hand THEN inserted[h] + 1
                                              ELSE inserted[h]]
  /\ UNCHANGED <<clock, hit, buffer, reported, snapshot, counting, rivals>>

\* The contact's activity and the webhook; after a failure the remaining events get none.
NoteBatch(f) ==
  /\ flush[f].step = "effects"
  /\ SetFlush(f, "idle", {})
  /\ \E reached \in SUBSET flush[f].hand :
       /\ Mend(reached # flush[f].hand)
       /\ reported' = reported \cup reached
  /\ UNCHANGED <<clock, hit, buffer, inserted, snapshot, counting, rivals>>

\* The process dies, or shuts down: gracefulShutdown closes Redis and exits while the
\* final flush has popped its first event.
ExitInFlush(f) ==
  /\ Outage
  /\ flush[f].step # "idle"
  /\ SetFlush(f, "idle", {})
  /\ UNCHANGED <<clock, hit, buffer, inserted, reported, snapshot, counting, rivals>>

(***************************************************************************)
(* aggregateAnalytics and the pruning.                                     *)
(***************************************************************************)
\* getAnalyticsOverview and the other reports count the rows of now.
CountOf(hits, hour) == Cardinality({h \in hits : HourOf(hit[h].time) = hour})

InWindow(h) == h \in Recorded /\ hit[h].time >= clock - Window

Aggregate(a) ==
  /\ counting[a] = NoCounts
  /\ LET seen == {h \in Hits : InWindow(h)}
         counts == [hour \in Hours |-> IF CountOf(seen, hour) > 0 THEN CountOf(seen, hour) ELSE -1]
     IN counts # NoCounts /\ counting' = [counting EXCEPT ![a] = counts]
  /\ UNCHANGED <<clock, hit, buffer, flush, inserted, reported, snapshot, outages, rivals>>

\* One upsert per hour; the counts are what was read, not increments.
WriteSnapshot(a, hour) ==
  /\ counting[a][hour] # -1
  /\ snapshot' = [snapshot EXCEPT ![hour] = counting[a][hour]]
  /\ counting' = [counting EXCEPT ![a][hour] = -1]
  /\ UNCHANGED <<clock, hit, buffer, flush, inserted, reported, outages, rivals>>

OldEvent(h) == h \in Recorded /\ hit[h].time < clock - PruneAge

PruneOldTrackingEvents ==
  LET old == {h \in Hits : OldEvent(h)}
  IN /\ old # {}
     /\ inserted' = [h \in Hits |-> IF h \in old THEN 0 ELSE inserted[h]]
     /\ UNCHANGED <<clock, hit, buffer, flush, reported, snapshot, counting, outages, rivals>>

\* An aggregation takes less than half an hour.
HalfHourPasses ==
  /\ clock < MaxHalfHours /\ clock' = clock + 1
  /\ \A a \in Aggregations : counting[a] = NoCounts
  /\ UNCHANGED <<hit, buffer, flush, inserted, reported, snapshot, counting, outages, rivals>>

TrackingNext ==
  \/ \E h \in Hits : Buffer(h)
  \/ \E h \in Hits, kind \in {"OPEN", "CLICK"}, mail \in Mails \cup {NoMail} : Arrive(h, kind, mail)
  \/ \E f \in Flushes : PopOne(f) \/ InsertBatch(f) \/ NoteBatch(f) \/ ExitInFlush(f)
  \/ \E a \in Aggregations : Aggregate(a) \/ \E hour \in Hours : WriteSnapshot(a, hour)
  \/ PruneOldTrackingEvents \/ HalfHourPasses

TrackingSpec == TrackingInit /\ [][TrackingNext]_trackingVars

(***************************************************************************)
(* Properties.                                                             *)
(***************************************************************************)
\* However the flushes of the two processes overlap, die or fail, a hit is a row of
\* TrackingEvent at most once, and of two opens of an e-mail from the same address each
\* arrived before the other was recorded (TrackingBufferService.flush, handleOpen).
OpensCountedOnce ==
  /\ \A h \in Hits : inserted[h] <= 1
  /\ \A h, g \in Hits : hit[h].kind = "OPEN" /\ h \in Recorded => g \notin rivals[h]
================================================================================
