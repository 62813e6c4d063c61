-------------------------- MODULE MailPages_proofs --------------------------
(***************************************************************************)
(* What surrounds a mail, for any number of hits, flushes, rooms, letters, *)
(* files, templates and steps: the events of its recipients                *)
(* (TrackingEvents), the domain of its links (TrackingDomain), the inbox   *)
(* (Inbox), templates and attachments (MailMaterial) and the compose page  *)
(* (SequenceComposer); and then all the components of MCMailServices       *)
(* together, one of which runs.                                            *)
(***************************************************************************)
EXTENDS MCMailServices, MailServices_proofs, MailSending_proofs

(***************************************************************************)
(* The events.  A hit is in the buffer once, or popped by one flush, or    *)
(* gone from both, and it is inserted by the flush that popped it; an open *)
(* that saw an earlier one recorded never gets there.                      *)
(***************************************************************************)
InBuffer(h) == \E i \in 1 .. Len(buffer) : buffer[i] = h
PoppedBy(f, h) == flush[f].step = "popping" /\ h \in flush[f].hand
OnTheWay(h) == InBuffer(h) \/ \E f \in Flushes : PoppedBy(f, h)
Refused(h) == hit[h].step # "done" \/ (hit[h].kind = "OPEN" /\ rivals[h] # {})

BufferedOnce == \A i, j \in 1 .. Len(buffer) : buffer[i] = buffer[j] => i = j

PoppedOnce ==
  /\ \A f \in Flushes : flush[f].step = "idle" => flush[f].hand = {}
  /\ \A h \in Hits : InBuffer(h) => \A f \in Flushes : ~PoppedBy(f, h)
  /\ \A h \in Hits : \A f, g \in Flushes : PoppedBy(f, h) /\ PoppedBy(g, h) => f = g

InsertedOnce ==
  \A h \in Hits :
    /\ inserted[h] <= 1
    /\ OnTheWay(h) => inserted[h] = 0
    /\ Refused(h) => ~OnTheWay(h) /\ inserted[h] = 0
    /\ hit[h].step # "done" /\ hit[h].kind = "OPEN" => rivals[h] = {}

HitTypes == [kind : {"OPEN", "CLICK"}, mail : Mails \cup {NoMail}, time : Times, step : HitSteps]
FlushTypes == [step : {"idle", "popping", "effects"}, hand : SUBSET Hits]
EventsTyped ==
  /\ hit \in [Hits -> HitTypes] /\ buffer \in Seq(Hits) /\ flush \in [Flushes -> FlushTypes]
  /\ inserted \in [Hits -> Nat] /\ rivals \in [Hits -> SUBSET Hits]
EventsInv == EventsTyped /\ BufferedOnce /\ PoppedOnce /\ InsertedOnce
TrackingInv == TrackingTypeOK /\ BufferedOnce /\ PoppedOnce /\ InsertedOnce

LEMMA Flushers == ASSUME NEW f \in Flushes PROVE Cardinality(Flushes) \in Nat /\ Cardinality(Flushes) >= 1
  <1>1. Cardinality(Flushes) \in Nat /\ Cardinality(Flushes) # 0
    BY TrackingAssumption, FS_CardinalityType, FS_EmptySet DEF TrackingAssumption
  <1>. QED
    BY <1>1

LEMMA TrackingNumbers ==
  /\ 0 \in Times /\ MaxHalfHours \in Nat /\ Cardinality(Hits) \in Nat /\ MaxOutages \in Nat
  /\ Cardinality(Flushes) \in Nat
  BY TrackingAssumption, FS_CardinalityType DEF TrackingAssumption, Times

LEMMA TrackingStarts == TrackingInit => TrackingInv
  <1>. SUFFICES ASSUME TrackingInit PROVE TrackingInv
    OBVIOUS
  <1>. USE TrackingNumbers DEF TrackingInit
  <1>1. /\ clock \in Times /\ outages \in 0 .. MaxOutages /\ reported \subseteq Hits
        /\ buffer \in Seq(Hits) /\ Len(buffer) = 0
    OBVIOUS
  <1>2. hit \in [Hits -> [kind : {"OPEN", "CLICK"}, mail : Mails \cup {NoMail}, time : Times, step : HitSteps]]
    BY DEF HitSteps
  <1>3. /\ flush \in [Flushes -> [step : {"idle", "popping", "effects"}, hand : SUBSET Hits]]
        /\ inserted \in [Hits -> 0 .. Cardinality(Flushes)] /\ rivals \in [Hits -> SUBSET Hits]
    OBVIOUS
  <1>4. NoCounts \in [Hours -> -1 .. Cardinality(Hits)]
    BY DEF NoCounts
  <1>5. TrackingTypeOK
    BY <1>1, <1>2, <1>3, <1>4 DEF TrackingTypeOK
  <1>6. BufferedOnce /\ PoppedOnce
    BY <1>1 DEF BufferedOnce, PoppedOnce, InBuffer, PoppedBy
  <1>7. InsertedOnce
    BY <1>1 DEF InsertedOnce, OnTheWay, InBuffer, PoppedBy
  <1>. QED
    BY <1>5, <1>6, <1>7 DEF TrackingInv

(***************************************************************************)
(* The counts of a snapshot.                                               *)
(***************************************************************************)
LEMMA CountsTyped ==
  ASSUME NEW hits \in SUBSET Hits, NEW hour \in Hours
  PROVE  CountOf(hits, hour) \in 0 .. Cardinality(Hits)
  <1>. DEFINE S == {h \in hits : HourOf(hit[h].time) = hour}
  <1>1. IsFiniteSet(Hits) /\ S \in SUBSET Hits
    BY TrackingAssumption DEF TrackingAssumption
  <1>2. IsFiniteSet(S) /\ Cardinality(S) <= Cardinality(Hits)
    BY <1>1, FS_Subset
  <1>3. Cardinality(S) \in Nat /\ Cardinality(Hits) \in Nat
    BY <1>1, <1>2, FS_CardinalityType
  <1>. QED
    BY <1>2, <1>3 DEF CountOf

LEMMA SnapshotTyped ==
  TrackingTypeOK /\ TrackingNext =>
    /\ clock' \in Times /\ outages' \in 0 .. MaxOutages /\ reported' \subseteq Hits
    /\ snapshot' \in [Hours -> -1 .. Cardinality(Hits)]
    /\ counting' \in [Aggregations -> [Hours -> -1 .. Cardinality(Hits)]]
  <1>. SUFFICES ASSUME TrackingTypeOK, TrackingNext
                PROVE  /\ clock' \in Times /\ outages' \in 0 .. MaxOutages /\ reported' \subseteq Hits
                       /\ snapshot' \in [Hours -> -1 .. Cardinality(Hits)]
                       /\ counting' \in [Aggregations -> [Hours -> -1 .. Cardinality(Hits)]]
    OBVIOUS
  <1>. DEFINE Goal == /\ clock' \in Times /\ outages' \in 0 .. MaxOutages /\ reported' \subseteq Hits
                      /\ snapshot' \in [Hours -> -1 .. Cardinality(Hits)]
                      /\ counting' \in [Aggregations -> [Hours -> -1 .. Cardinality(Hits)]]
  <1>0. /\ clock \in Times /\ outages \in 0 .. MaxOutages /\ reported \subseteq Hits
        /\ snapshot \in [Hours -> -1 .. Cardinality(Hits)]
        /\ counting \in [Aggregations -> [Hours -> -1 .. Cardinality(Hits)]]
        /\ \A f \in Flushes : flush[f].hand \subseteq Hits
    BY DEF TrackingTypeOK
  <1>1. ASSUME NEW failed \in BOOLEAN, Mend(failed) \/ Outage PROVE outages' \in 0 .. MaxOutages
    BY <1>0, <1>1, TrackingNumbers DEF Mend, Outage
  <1>2. ASSUME NEW h \in Hits, Buffer(h) PROVE Goal
    BY <1>0, <1>1, <1>2 DEF Buffer
  <1>3. ASSUME NEW h \in Hits, NEW kind, NEW m, Arrive(h, kind, m) PROVE Goal
    BY <1>0, <1>3 DEF Arrive
  <1>4. ASSUME NEW f \in Flushes, PopOne(f) \/ InsertBatch(f) \/ NoteBatch(f) \/ ExitInFlush(f) PROVE Goal
    <2>1. CASE PopOne(f)
      BY <1>0, <2>1 DEF PopOne
    <2>2. CASE InsertBatch(f)
      BY <1>0, <1>1, <2>2 DEF InsertBatch
    <2>3. CASE NoteBatch(f)
      <3>1. PICK reached \in SUBSET flush[f].hand : Mend(reached # flush[f].hand) /\ reported' = reported \cup reached
        BY <2>3 DEF NoteBatch
      <3>2. outages' \in 0 .. MaxOutages
        BY <1>0, <3>1, TrackingNumbers DEF Mend, Outage
      <3>. QED
        BY <1>0, <2>3, <3>1, <3>2 DEF NoteBatch
    <2>4. CASE ExitInFlush(f)
      BY <1>0, <1>1, <2>4 DEF ExitInFlush
    <2>. QED
      BY <1>4, <2>1, <2>2, <2>3, <2>4
  <1>5. ASSUME NEW a \in Aggregations, Aggregate(a) PROVE Goal
    <2>. DEFINE seen == {h \in Hits : InWindow(h)}
                counts == [hour \in Hours |-> IF CountOf(seen, hour) > 0 THEN CountOf(seen, hour) ELSE -1]
    <2>1. \A hour \in Hours : CountOf(seen, hour) \in 0 .. Cardinality(Hits)
      BY CountsTyped
    <2>. HIDE DEF seen
    <2>2. counts \in [Hours -> -1 .. Cardinality(Hits)]
      BY <2>1, TrackingNumbers
    <2>3. counting' = [counting EXCEPT ![a] = counts]
      BY <1>5 DEF Aggregate, seen
    <2>. HIDE DEF counts
    <2>4. counting' \in [Aggregations -> [Hours -> -1 .. Cardinality(Hits)]]
      BY <1>0, <2>2, <2>3
    <2>. QED
      BY <1>0, <1>5, <2>4 DEF Aggregate
  <1>6. ASSUME NEW a \in Aggregations, NEW hour \in Hours, WriteSnapshot(a, hour) PROVE Goal
    <2>1. counting[a][hour] \in -1 .. Cardinality(Hits) /\ -1 \in -1 .. Cardinality(Hits)
      BY <1>0, TrackingNumbers
    <2>2. snapshot' \in [Hours -> -1 .. Cardinality(Hits)]
      BY <1>0, <1>6, <2>1 DEF WriteSnapshot
    <2>3. counting' \in [Aggregations -> [Hours -> -1 .. Cardinality(Hits)]]
      BY <1>0, <1>6, <2>1 DEF WriteSnapshot
    <2>. QED
      BY <1>0, <1>6, <2>2, <2>3 DEF WriteSnapshot
  <1>7. CASE PruneOldTrackingEvents
    BY <1>0, <1>7 DEF PruneOldTrackingEvents
  <1>8. CASE HalfHourPasses
    BY <1>0, <1>8, TrackingNumbers DEF HalfHourPasses, Times
  <1>. QED
    BY <1>2, <1>3, <1>4, <1>5, <1>6, <1>7, <1>8 DEF TrackingNext

(***************************************************************************)
(* What the steps do to the hits, the buffer and the flushes.              *)
(***************************************************************************)
\* Flushes that only drop what they hold.
LEMMA FlushesEmptied ==
  ASSUME EventsInv, UNCHANGED <<hit, buffer, rivals>>, flush' \in [Flushes -> FlushTypes],
         inserted' \in [Hits -> Nat],
         \A f \in Flushes : /\ flush'[f].step = "idle" => flush'[f].hand = {}
                            /\ \A h \in Hits : PoppedBy(f, h)' => PoppedBy(f, h),
         \A h \in Hits : inserted'[h] <= inserted[h]
  PROVE  EventsInv'
  <1>1. EventsTyped' /\ BufferedOnce'
    BY DEF EventsInv, EventsTyped, BufferedOnce
  <1>2. \A h \in Hits : /\ InBuffer(h)' <=> InBuffer(h)
                        /\ OnTheWay(h)' => OnTheWay(h)
                        /\ Refused(h)' <=> Refused(h)
    BY DEF InBuffer, OnTheWay, Refused
  <1>3. PoppedOnce'
    BY <1>2 DEF EventsInv, PoppedOnce
  <1>4. InsertedOnce'
    <2>. SUFFICES ASSUME NEW h \in Hits
                  PROVE  /\ inserted'[h] <= 1 /\ (OnTheWay(h)' => inserted'[h] = 0)
                         /\ (Refused(h)' => ~OnTheWay(h)' /\ inserted'[h] = 0)
                         /\ (hit[h].step # "done" /\ hit[h].kind = "OPEN" => rivals[h] = {})
      BY DEF InsertedOnce
    <2>1. inserted[h] \in Nat /\ inserted'[h] \in Nat
      BY DEF EventsInv, EventsTyped
    <2>. QED
      BY <1>2, <2>1 DEF EventsInv, InsertedOnce
  <1>. QED
    BY <1>1, <1>3, <1>4 DEF EventsInv

LEMMA ArriveKept ==
  ASSUME EventsInv, clock \in Times, NEW h \in Hits, NEW kind \in {"OPEN", "CLICK"},
         NEW m \in Mails \cup {NoMail}, Arrive(h, kind, m)
  PROVE  EventsInv'
  <1>. DEFINE new == [kind |-> kind, mail |-> m, time |-> clock, step |->
                        IF kind = "OPEN" /\ OpensOf(m) # {} THEN "done" ELSE "asked"]
  <1>1. /\ hit[h].step = "new" /\ hit' = [hit EXCEPT ![h] = new]
        /\ rivals' = [rivals EXCEPT ![h] = OpensOf(m)] /\ UNCHANGED <<buffer, flush, inserted>>
    BY DEF Arrive
  <1>2. new \in HitTypes /\ OpensOf(m) \in SUBSET Hits
    BY DEF HitTypes, HitSteps, OpensOf, Recorded
  <1>3. new.kind = kind /\ (new.step = "done" => kind = "OPEN" /\ OpensOf(m) # {})
        /\ (kind = "OPEN" /\ OpensOf(m) # {} => new.step = "done")
    OBVIOUS
  <1>. HIDE DEF new
  <1>4. EventsTyped'
    BY <1>1, <1>2 DEF EventsInv, EventsTyped
  <1>5. \A g \in Hits : /\ InBuffer(g)' <=> InBuffer(g)
                        /\ OnTheWay(g)' <=> OnTheWay(g)
                        /\ \A f \in Flushes : PoppedBy(f, g)' <=> PoppedBy(f, g)
    BY <1>1 DEF InBuffer, OnTheWay, PoppedBy
  <1>6. BufferedOnce' /\ PoppedOnce'
    BY <1>1, <1>5 DEF EventsInv, BufferedOnce, PoppedOnce
  <1>7. Refused(h) /\ \A g \in Hits : Refused(g)' => Refused(g)
    BY <1>1 DEF EventsInv, EventsTyped, Refused
  <1>8. \A g \in Hits : hit'[g].step # "done" /\ hit'[g].kind = "OPEN" => rivals'[g] = {}
    BY <1>1, <1>3 DEF EventsInv, EventsTyped, InsertedOnce
  <1>9. InsertedOnce'
    BY <1>1, <1>5, <1>7, <1>8 DEF EventsInv, InsertedOnce
  <1>. QED
    BY <1>4, <1>6, <1>9 DEF EventsInv

LEMMA BufferKept == ASSUME EventsInv, NEW h \in Hits, Buffer(h) PROVE EventsInv'
  <1>1. /\ hit[h].step = "asked" /\ hit' = [hit EXCEPT ![h].step = "done"]
        /\ buffer' \in {buffer, <<h>> \o buffer} /\ UNCHANGED <<flush, inserted, rivals>>
    BY DEF Buffer
  <1>2. buffer \in Seq(Hits) /\ <<h>> \o buffer \in Seq(Hits)
    BY DEF EventsInv, EventsTyped
  <1>3. EventsTyped'
    <2>1. hit' \in [Hits -> HitTypes]
      BY <1>1 DEF EventsInv, EventsTyped, HitTypes, HitSteps
    <2>. QED
      BY <1>1, <1>2, <2>1 DEF EventsInv, EventsTyped
  <1>4. ~OnTheWay(h) /\ inserted[h] = 0
    BY <1>1 DEF EventsInv, InsertedOnce, Refused
  <1>5. \A g \in Hits : InBuffer(g)' => InBuffer(g) \/ g = h
    <2>1. CASE buffer' = buffer
      BY <2>1 DEF InBuffer
    <2>2. CASE buffer' = <<h>> \o buffer
      BY <1>2, <2>2 DEF InBuffer
    <2>. QED
      BY <1>1, <2>1, <2>2
  <1>6. BufferedOnce'
    <2>1. CASE buffer' = buffer
      BY <2>1 DEF EventsInv, BufferedOnce
    <2>2. CASE buffer' = <<h>> \o buffer
      <3>1. \A i \in 1 .. Len(buffer) : buffer[i] # h
        BY <1>4 DEF OnTheWay, InBuffer
      <3>2. Len(buffer) \in Nat /\ Len(buffer') = Len(buffer) + 1
            /\ \A i \in 1 .. Len(buffer') : buffer'[i] = IF i = 1 THEN h ELSE buffer[i - 1]
        BY <1>2, <2>2
      <3>. QED
        BY <3>1, <3>2 DEF EventsInv, BufferedOnce
    <2>. QED
      BY <1>1, <2>1, <2>2
  <1>7. \A g \in Hits : \A f \in Flushes : PoppedBy(f, g)' <=> PoppedBy(f, g)
    BY <1>1 DEF PoppedBy
  <1>8. PoppedOnce'
    BY <1>1, <1>4, <1>5, <1>7 DEF EventsInv, PoppedOnce, OnTheWay
  <1>9. \A g \in Hits : /\ OnTheWay(g)' => OnTheWay(g) \/ g = h
                        /\ g # h => (Refused(g)' <=> Refused(g)) /\ hit'[g] = hit[g]
    BY <1>1, <1>5, <1>7 DEF OnTheWay, Refused, EventsInv, EventsTyped
  <1>10. ~Refused(h)' /\ hit'[h].step = "done"
    BY <1>1 DEF Refused, EventsInv, EventsTyped, InsertedOnce, HitTypes
  <1>11. InsertedOnce'
    BY <1>1, <1>4, <1>9, <1>10 DEF EventsInv, InsertedOnce
  <1>. QED
    BY <1>3, <1>6, <1>8, <1>11 DEF EventsInv

LEMMA PopOneKept == ASSUME EventsInv, NEW f \in Flushes, PopOne(f) PROVE EventsInv'
  <1>0. PICK h : h = buffer[Len(buffer)]
    OBVIOUS
  <1>. DEFINE held == flush[f].hand \cup {h}
  <1>1. /\ flush[f].step \in {"idle", "popping"} /\ buffer # <<>>
        /\ flush' = [flush EXCEPT ![f] = [step |-> "popping", hand |-> held]]
        /\ buffer' = SubSeq(buffer, 1, Len(buffer) - 1) /\ UNCHANGED <<hit, inserted, rivals>>
    BY <1>0 DEF PopOne, SetFlush
  <1>2. buffer \in Seq(Hits) /\ Len(buffer) \in Nat /\ Len(buffer) > 0 /\ h \in Hits
    BY <1>0, <1>1 DEF EventsInv, EventsTyped
  <1>3. /\ buffer' \in Seq(Hits) /\ Len(buffer') = Len(buffer) - 1
        /\ \A i \in 1 .. Len(buffer) - 1 : buffer'[i] = buffer[i]
    <2>1. /\ SubSeq(buffer, 1, Len(buffer) - 1) \in Seq(Hits)
          /\ Len(SubSeq(buffer, 1, Len(buffer) - 1)) = Len(buffer) - 1
          /\ \A i \in 1 .. Len(buffer) - 1 : SubSeq(buffer, 1, Len(buffer) - 1)[i] = buffer[i]
      <3>. DEFINE n == Len(buffer) - 1
      <3>1. n \in Nat /\ \A i \in 1 .. n : buffer[i] \in Hits
        BY <1>2
      <3>2. /\ SubSeq(buffer, 1, n) \in Seq(Hits)
            /\ Len(SubSeq(buffer, 1, n)) = IF 1 <= n THEN n - 1 + 1 ELSE 0
            /\ \A i \in 1 .. n - 1 + 1 : SubSeq(buffer, 1, n)[i] = buffer[1 + i - 1]
        BY <3>1, SubSeqProperties
      <3>. HIDE DEF n
      <3>3. n - 1 + 1 = n /\ (IF 1 <= n THEN n - 1 + 1 ELSE 0) = n
        BY <3>1
      <3>5. \A i \in 1 .. n : 1 + i - 1 = i
        BY <3>1
      <3>4. SubSeq(buffer, 1, n) \in Seq(Hits) /\ Len(SubSeq(buffer, 1, n)) = n
            /\ \A i \in 1 .. n : SubSeq(buffer, 1, n)[i] = buffer[i]
        BY <3>1, <3>2, <3>3, <3>5
      <3>. QED
        BY <3>4 DEF n
    <2>. QED
      BY <1>1, <2>1
  <1>4. InBuffer(h) /\ ~InBuffer(h)' /\ \A g \in Hits : InBuffer(g)' => InBuffer(g)
    <2>1. InBuffer(h)
      BY <1>0, <1>2 DEF InBuffer
    <2>2. ASSUME NEW g \in Hits, InBuffer(g)' PROVE InBuffer(g) /\ g # h
      <3>1. PICK i \in 1 .. Len(buffer) - 1 : buffer[i] = g
        BY <1>3, <2>2 DEF InBuffer
      <3>2. i \in 1 .. Len(buffer) /\ Len(buffer) \in 1 .. Len(buffer) /\ i # Len(buffer)
        BY <1>2, <3>1
      <3>3. buffer[i] # buffer[Len(buffer)]
        BY <3>2 DEF EventsInv, BufferedOnce
      <3>. QED
        BY <1>0, <3>1, <3>2, <3>3 DEF InBuffer
    <2>3. h \in Hits
      BY <1>2
    <2>. QED
      BY <2>1, <2>2, <2>3
  <1>5. EventsTyped'
    <2>1. [step |-> "popping", hand |-> held] \in FlushTypes
      BY <1>2 DEF EventsInv, EventsTyped, FlushTypes
    <2>. QED
      BY <1>1, <1>3, <2>1 DEF EventsInv, EventsTyped
  <1>6. BufferedOnce'
    BY <1>2, <1>3 DEF EventsInv, BufferedOnce
  <1>7. \A g \in Hits : \A e \in Flushes : PoppedBy(e, g)' => PoppedBy(e, g) \/ (e = f /\ g = h)
    BY <1>1 DEF PoppedBy, EventsInv, EventsTyped, PoppedOnce
  <1>8. \A e \in Flushes : flush'[e].step = "idle" => flush'[e].hand = {}
    BY <1>1 DEF EventsInv, EventsTyped, PoppedOnce
  <1>9. PoppedOnce'
    <2>1. \A e \in Flushes : ~PoppedBy(e, h)
      BY <1>2, <1>4 DEF EventsInv, PoppedOnce
    <2>2. \A g \in Hits : InBuffer(g)' => \A e \in Flushes : ~PoppedBy(e, g)'
      <3>. SUFFICES ASSUME NEW g \in Hits, InBuffer(g)', NEW e \in Flushes PROVE ~PoppedBy(e, g)'
        OBVIOUS
      <3>1. InBuffer(g) /\ g # h
        BY <1>4
      <3>2. ~PoppedBy(e, g)
        BY <3>1 DEF EventsInv, PoppedOnce
      <3>. QED
        BY <1>7, <3>1, <3>2
    <2>3. \A g \in Hits : \A d, e \in Flushes : PoppedBy(d, g)' /\ PoppedBy(e, g)' => d = e
      BY <1>7, <2>1 DEF EventsInv, PoppedOnce
    <2>. QED
      BY <1>8, <2>2, <2>3 DEF PoppedOnce
  <1>10. \A g \in Hits : (OnTheWay(g)' => OnTheWay(g)) /\ (Refused(g)' <=> Refused(g))
    BY <1>1, <1>4, <1>7 DEF OnTheWay, Refused
  <1>11. InsertedOnce'
    BY <1>1, <1>10 DEF EventsInv, InsertedOnce
  <1>. QED
    BY <1>5, <1>6, <1>9, <1>11 DEF EventsInv

LEMMA InsertBatchKept == ASSUME EventsInv, NEW f \in Flushes, InsertBatch(f) PROVE EventsInv'
  <1>1. flush[f].step = "popping" /\ UNCHANGED <<hit, buffer, rivals>>
    BY DEF InsertBatch
  <1>2. CASE SetFlush(f, "idle", {}) /\ UNCHANGED inserted
    <2>1. flush' \in [Flushes -> FlushTypes]
      BY <1>2 DEF SetFlush, EventsInv, EventsTyped, FlushTypes
    <2>2. \A e \in Flushes : /\ flush'[e].step = "idle" => flush'[e].hand = {}
                             /\ \A h \in Hits : PoppedBy(e, h)' => PoppedBy(e, h)
      BY <1>2 DEF SetFlush, EventsInv, EventsTyped, PoppedBy, PoppedOnce
    <2>3. inserted' \in [Hits -> Nat] /\ \A h \in Hits : inserted'[h] <= inserted[h]
      BY <1>2 DEF EventsInv, EventsTyped
    <2>. QED
      BY <1>1, <2>1, <2>2, <2>3, FlushesEmptied
  <1>3. CASE /\ SetFlush(f, "effects", flush[f].hand)
             /\ inserted' = [h \in Hits |-> IF h \in flush[f].hand THEN inserted[h] + 1 ELSE inserted[h]]
    <2>1. flush' = [flush EXCEPT ![f] = [step |-> "effects", hand |-> flush[f].hand]]
      BY <1>3 DEF SetFlush
    <2>2. EventsTyped'
      <3>1. flush' \in [Flushes -> FlushTypes]
        BY <2>1 DEF EventsInv, EventsTyped, FlushTypes
      <3>2. inserted' \in [Hits -> Nat]
        BY <1>3 DEF EventsInv, EventsTyped
      <3>. QED
        BY <1>1, <3>1, <3>2 DEF EventsInv, EventsTyped
    <2>3. \A g \in Hits : \A e \in Flushes : PoppedBy(e, g)' => PoppedBy(e, g) /\ e # f
      BY <2>1 DEF PoppedBy, EventsInv, EventsTyped
    <2>4. \A e \in Flushes : flush'[e].step = "idle" => flush'[e].hand = {}
      BY <2>1 DEF EventsInv, EventsTyped, PoppedOnce
    <2>5. \A g \in Hits : (InBuffer(g)' <=> InBuffer(g)) /\ (Refused(g)' <=> Refused(g))
      BY <1>1 DEF InBuffer, Refused
    <2>6. BufferedOnce' /\ PoppedOnce'
      BY <1>1, <2>3, <2>4, <2>5 DEF EventsInv, BufferedOnce, PoppedOnce
    <2>7. \A g \in Hits : IF g \in flush[f].hand
                          THEN OnTheWay(g) /\ ~OnTheWay(g)' /\ inserted'[g] = inserted[g] + 1
                          ELSE (OnTheWay(g)' => OnTheWay(g)) /\ inserted'[g] = inserted[g]
      <3>. TAKE g \in Hits
      <3>1. CASE g \in flush[f].hand
        <4>1. PoppedBy(f, g)
          BY <1>1, <3>1 DEF PoppedBy
        <4>2. ~InBuffer(g) /\ \A e \in Flushes : PoppedBy(e, g) => e = f
          BY <4>1 DEF EventsInv, PoppedOnce
        <4>. QED
          BY <1>3, <2>3, <2>5, <3>1, <4>1, <4>2 DEF OnTheWay
      <3>2. CASE g \notin flush[f].hand
        BY <1>3, <2>3, <2>5, <3>2 DEF OnTheWay
      <3>. QED
        BY <3>1, <3>2
    <2>8. InsertedOnce'
      <3>. SUFFICES ASSUME NEW g \in Hits
                    PROVE  /\ inserted'[g] <= 1 /\ (OnTheWay(g)' => inserted'[g] = 0)
                           /\ (Refused(g)' => ~OnTheWay(g)' /\ inserted'[g] = 0)
                           /\ (hit[g].step # "done" /\ hit[g].kind = "OPEN" => rivals[g] = {})
        BY <1>1 DEF InsertedOnce
      <3>1. inserted[g] \in Nat
        BY DEF EventsInv, EventsTyped
      <3>. QED
        BY <2>5, <2>7, <3>1 DEF EventsInv, InsertedOnce
    <2>. QED
      BY <2>2, <2>6, <2>8 DEF EventsInv
  <1>. QED
    BY <1>2, <1>3 DEF InsertBatch

LEMMA FlushEndKept == ASSUME EventsInv, NEW f \in Flushes, NoteBatch(f) \/ ExitInFlush(f) PROVE EventsInv'
  <1>1. SetFlush(f, "idle", {}) /\ UNCHANGED <<hit, buffer, rivals, inserted>>
    BY DEF NoteBatch, ExitInFlush
  <1>2. flush' \in [Flushes -> FlushTypes]
    BY <1>1 DEF SetFlush, EventsInv, EventsTyped, FlushTypes
  <1>3. \A e \in Flushes : /\ flush'[e].step = "idle" => flush'[e].hand = {}
                           /\ \A h \in Hits : PoppedBy(e, h)' => PoppedBy(e, h)
    BY <1>1 DEF SetFlush, EventsInv, EventsTyped, PoppedBy, PoppedOnce
  <1>4. inserted' \in [Hits -> Nat] /\ \A h \in Hits : inserted'[h] <= inserted[h]
    BY <1>1 DEF EventsInv, EventsTyped
  <1>. QED
    BY <1>1, <1>2, <1>3, <1>4, FlushesEmptied

LEMMA EventsRestKept ==
  ASSUME EventsInv, PruneOldTrackingEvents \/ UNCHANGED <<hit, buffer, flush, inserted, rivals>>
  PROVE  EventsInv'
  <1>1. UNCHANGED <<hit, buffer, flush, rivals>>
    BY DEF PruneOldTrackingEvents
  <1>2. inserted' \in [Hits -> Nat] /\ \A h \in Hits : inserted'[h] <= inserted[h]
    <2>1. CASE PruneOldTrackingEvents
      BY <2>1 DEF PruneOldTrackingEvents, EventsInv, EventsTyped
    <2>2. CASE inserted' = inserted
      BY <2>2 DEF EventsInv, EventsTyped
    <2>. QED
      BY <2>1, <2>2
  <1>3. flush' \in [Flushes -> FlushTypes] /\
        \A e \in Flushes : /\ flush'[e].step = "idle" => flush'[e].hand = {}
                           /\ \A h \in Hits : PoppedBy(e, h)' => PoppedBy(e, h)
    BY <1>1 DEF EventsInv, EventsTyped, PoppedBy, PoppedOnce
  <1>. QED
    BY <1>1, <1>2, <1>3, FlushesEmptied

LEMMA TrackingStep == TrackingInv /\ [TrackingNext]_trackingVars => TrackingInv'
  <1>1. ASSUME TrackingInv, TrackingNext PROVE TrackingInv'
    <2>1. EventsInv /\ clock \in Times
      BY <1>1, TrackingNumbers DEF TrackingInv, TrackingTypeOK, EventsInv, EventsTyped, HitTypes, FlushTypes
    <2>2. EventsInv'
      BY <1>1, <2>1, ArriveKept, BufferKept, PopOneKept, InsertBatchKept, FlushEndKept, EventsRestKept
         DEF TrackingNext, Aggregate, WriteSnapshot, HalfHourPasses
    <2>3. inserted' \in [Hits -> 0 .. Cardinality(Flushes)]
      <3>1. inserted' \in [Hits -> Nat] /\ \A h \in Hits : inserted'[h] <= 1
        BY <2>2 DEF EventsInv, EventsTyped, InsertedOnce
      <3>2. CASE Flushes # {}
        <4>1. Cardinality(Flushes) \in Nat /\ Cardinality(Flushes) >= 1
          BY <3>2, Flushers
        <4>. QED
          BY <3>1, <4>1
      <3>3. CASE Flushes = {}
        <4>1. inserted \in [Hits -> 0 .. Cardinality(Flushes)] /\ Cardinality(Flushes) = 0
          BY <1>1, <3>3, FS_EmptySet DEF TrackingInv, TrackingTypeOK
        <4>2. inserted' = inserted \/ inserted' = [h \in Hits |-> IF OldEvent(h) THEN 0 ELSE inserted[h]]
          BY <1>1, <3>3 DEF TrackingNext, Arrive, Buffer, Aggregate, WriteSnapshot, HalfHourPasses,
             PruneOldTrackingEvents
        <4>. QED
          BY <4>1, <4>2
      <3>. QED
        BY <3>2, <3>3
    <2>4. TrackingTypeOK'
      BY <1>1, <2>2, <2>3, SnapshotTyped DEF TrackingInv, TrackingTypeOK, EventsInv, EventsTyped, HitTypes, FlushTypes
    <2>. QED
      BY <2>2, <2>4 DEF TrackingInv, EventsInv
  <1>2. ASSUME TrackingInv, UNCHANGED trackingVars PROVE TrackingInv'
    BY <1>2 DEF TrackingInv, TrackingTypeOK, trackingVars, BufferedOnce, PoppedOnce, InsertedOnce,
       InBuffer, PoppedBy, OnTheWay, Refused
  <1>. QED
    BY <1>1, <1>2

LEMMA TrackingImplies == TrackingInv => TrackingTypeOK /\ OpensCountedOnce
  <1>. SUFFICES ASSUME TrackingInv PROVE OpensCountedOnce
    BY DEF TrackingInv
  <1>1. \A h \in Hits : inserted[h] <= 1
    BY DEF TrackingInv, InsertedOnce
  <1>2. ASSUME NEW h \in Hits, NEW g \in Hits, hit[h].kind = "OPEN", h \in Recorded PROVE g \notin rivals[h]
    <2>1. inserted[h] > 0
      BY <1>2 DEF Recorded
    <2>2. ~Refused(h)
      BY <2>1 DEF TrackingInv, InsertedOnce
    <2>. QED
      BY <1>2, <2>2 DEF Refused
  <1>. QED
    BY <1>1, <1>2 DEF OpensCountedOnce

(***************************************************************************)
(* The tracking domain.  A verified name was found to point here, or saved *)
(* while a check was under way; the worker takes only verified names.      *)
(***************************************************************************)
CheckRuns ==
  \A c \in Checks : check[c].step # "idle" =>
    LET o == check[c].owner IN
      /\ o \in Owners /\ check[c].full \in Domains
      /\ setting[o].full \in {Unset, check[c].full} \/ <<o, setting[o].full>> \in overtaken
      /\ check[c].verdict = "VERIFIED" => <<o, check[c].full>> \in found

VerifiedForCause ==
  \A o \in Owners : setting[o].status = "VERIFIED" /\ setting[o].full # Unset =>
    <<o, setting[o].full>> \in found \cup overtaken

BaseForCause ==
  \A m \in Tracked :
    /\ tracked[m].step \in {"new", "own", "fallback"} => tracked[m].base = Default
    /\ tracked[m].step # "new" => tracked[m].user \in Users
    /\ tracked[m].base # Default =>
         \E o \in {tracked[m].room, tracked[m].user} : <<o, tracked[m].base>> \in found \cup overtaken

SettingTypes == [full : Domains \cup {Unset}, status : Statuses]
CheckTypes == [step : {"idle", "resolving", "resolved", "failed"}, owner : Owners \cup {Unset},
               full : Domains \cup {Unset}, verdict : Statuses]
TrackedTypes == [step : {"new", "own", "fallback", "chosen", "ready"},
                 room : Rooms \cup {Unset}, user : Users \cup {Unset},
                 base : Domains \cup {Unset}, pixel : BOOLEAN, links : BOOLEAN]

DomainInv == DomainTypeOK /\ CheckRuns /\ VerifiedForCause /\ BaseForCause

LEMMA DomainStarts == DomainInit => DomainInv
  <1>. SUFFICES ASSUME DomainInit PROVE DomainInv
    OBVIOUS
  <1>. USE DomainAssumption DEF DomainAssumption, DomainInit, NoSetting, NoCheck, Default
  <1>1. DomainTypeOK
    <2>1. setting \in [Owners -> SettingTypes]
      BY DEF Statuses, SettingTypes, CheckTypes
    <2>2. check \in [Checks -> CheckTypes]
      BY DEF Statuses, SettingTypes, CheckTypes
    <2>. QED
      BY <2>1, <2>2 DEF DomainTypeOK, SettingTypes, CheckTypes
  <1>2. CheckRuns /\ VerifiedForCause /\ BaseForCause
    BY DEF CheckRuns, VerifiedForCause, BaseForCause
  <1>. QED
    BY <1>1, <1>2 DEF DomainInv

\* The settings and their checks.
LEMMA SettingKept ==
  ASSUME DomainInv, UNCHANGED <<baseUrl, tracked>>, found \subseteq found', overtaken \subseteq overtaken',
         rooms' \subseteq Rooms, record' \in [Domains -> {"here", "elsewhere", "none", "refused"}],
         setting' \in [Owners -> SettingTypes],
         check' \in [Checks -> CheckTypes],
         found' \subseteq Owners \X Domains, overtaken' \subseteq Owners \X Domains,
         moves' \in 0 .. MaxMoves, CheckRuns', VerifiedForCause'
  PROVE  DomainInv'
  <1>1. DomainTypeOK'
    BY DEF DomainInv, DomainTypeOK, SettingTypes, CheckTypes
  <1>2. BaseForCause'
    BY DEF DomainInv, BaseForCause
  <1>. QED
    BY <1>1, <1>2 DEF DomainInv

LEMMA SaveDomainKept ==
  ASSUME DomainInv, NEW o \in Owners, NEW d \in Domains, SaveDomain(o, d) PROVE DomainInv'
  <1>. USE DomainAssumption DEF DomainAssumption, DomainInv
  <1>10. /\ rooms \subseteq Rooms /\ setting \in [Owners -> SettingTypes]
        /\ check \in [Checks -> CheckTypes]
        /\ record \in [Domains -> {"here", "elsewhere", "none", "refused"}]
        /\ found \subseteq Owners \X Domains /\ overtaken \subseteq Owners \X Domains
        /\ moves \in 0 .. MaxMoves
    BY DEF DomainTypeOK, SettingTypes, CheckTypes
  <1>1. /\ UNCHANGED <<check, found, rooms, record, baseUrl, tracked>>
        /\ setting' = [setting EXCEPT ![o] = [full |-> d, status |-> "PENDING"]]
        /\ overtaken' = IF CheckedNow(o) THEN overtaken \cup {<<o, d>>} ELSE overtaken
        /\ moves' \in 0 .. MaxMoves
    BY <1>10 DEF SaveDomain, DomainStep, Unverified, trackedRest
  <1>2. /\ setting' \in [Owners -> SettingTypes]
        /\ overtaken \subseteq overtaken' /\ overtaken' \subseteq Owners \X Domains
    BY <1>10, <1>1 DEF Statuses, SettingTypes, CheckTypes
  <1>3. \A p \in Owners : setting'[p] = IF p = o THEN [full |-> d, status |-> "PENDING"] ELSE setting[p]
    BY <1>10, <1>1
  <1>4. CheckRuns'
    <2>. SUFFICES ASSUME NEW c \in Checks, check[c].step # "idle"
                  PROVE  LET p == check[c].owner IN
                           /\ p \in Owners /\ check[c].full \in Domains
                           /\ setting'[p].full \in {Unset, check[c].full} \/ <<p, setting'[p].full>> \in overtaken'
                           /\ check[c].verdict = "VERIFIED" => <<p, check[c].full>> \in found
      BY <1>10, <1>1 DEF CheckRuns
    <2>1. CASE check[c].owner = o
      BY <1>10, <1>1, <1>3, <2>1 DEF CheckRuns, CheckedNow
    <2>2. CASE check[c].owner # o
      BY <1>10, <1>2, <1>3, <2>2 DEF CheckRuns
    <2>. QED
      BY <1>10, <2>1, <2>2
  <1>5. VerifiedForCause'
    BY <1>10, <1>1, <1>2, <1>3 DEF VerifiedForCause
  <1>. QED
    BY <1>10, <1>1, <1>2, <1>4, <1>5, SettingKept

LEMMA RemoveRoomKept == ASSUME DomainInv, NEW o \in Rooms, RemoveRoom(o) PROVE DomainInv'
  <1>. USE DomainAssumption DEF DomainAssumption, DomainInv
  <1>10. /\ rooms \subseteq Rooms /\ setting \in [Owners -> SettingTypes]
        /\ check \in [Checks -> CheckTypes]
        /\ record \in [Domains -> {"here", "elsewhere", "none", "refused"}]
        /\ found \subseteq Owners \X Domains /\ overtaken \subseteq Owners \X Domains
        /\ moves \in 0 .. MaxMoves
    BY DEF DomainTypeOK, SettingTypes, CheckTypes
  <1>0. o \in Owners
    BY <1>10 DEF Owners
  <1>1. /\ UNCHANGED <<check, found, record, baseUrl, tracked, overtaken>> /\ rooms' \subseteq Rooms
        /\ setting' = [setting EXCEPT ![o] = NoSetting] /\ moves' \in 0 .. MaxMoves
    BY <1>10 DEF RemoveRoom, DomainStep
  <1>2. setting' \in [Owners -> SettingTypes]
    BY <1>10, <1>1 DEF Statuses, NoSetting, SettingTypes, CheckTypes
  <1>3. \A p \in Owners : setting'[p] = IF p = o THEN [full |-> Unset, status |-> "PENDING"] ELSE setting[p]
    BY <1>10, <1>0, <1>1 DEF NoSetting
  <1>4. CheckRuns' /\ VerifiedForCause'
    <2>1. \A p \in Owners : setting'[p].full \in {Unset, setting[p].full}
                           /\ (setting'[p].full # Unset => setting'[p] = setting[p])
      BY <1>3
    <2>2. \A b \in Checks : check[b].step # "idle" => setting'[check[b].owner].full \in {Unset, setting[check[b].owner].full}
      BY <2>1 DEF CheckRuns
    <2>3. CheckRuns'
      <3>. SUFFICES ASSUME NEW c \in Checks, check[c].step # "idle"
                    PROVE  LET p == check[c].owner IN
                             /\ p \in Owners /\ check[c].full \in Domains
                             /\ setting'[p].full \in {Unset, check[c].full} \/ <<p, setting'[p].full>> \in overtaken
                             /\ check[c].verdict = "VERIFIED" => <<p, check[c].full>> \in found
        BY <1>1 DEF CheckRuns
      <3>. QED
        BY <2>2 DEF CheckRuns
    <2>. QED
      BY <1>1, <2>1, <2>3 DEF VerifiedForCause
  <1>. QED
    BY <1>10, <1>1, <1>2, <1>4, SettingKept

LEMMA VerifyDomainKept ==
  ASSUME DomainInv, NEW c \in Checks, NEW o \in Owners, VerifyDomain(c, o) PROVE DomainInv'
  <1>. USE DomainAssumption DEF DomainAssumption, DomainInv
  <1>10. /\ rooms \subseteq Rooms /\ setting \in [Owners -> SettingTypes]
        /\ check \in [Checks -> CheckTypes]
        /\ record \in [Domains -> {"here", "elsewhere", "none", "refused"}]
        /\ found \subseteq Owners \X Domains /\ overtaken \subseteq Owners \X Domains
        /\ moves \in 0 .. MaxMoves
    BY DEF DomainTypeOK, SettingTypes, CheckTypes
  <1>. DEFINE begun == [step |-> "resolving", owner |-> o, full |-> setting[o].full, verdict |-> "PENDING"]
  <1>1. /\ UNCHANGED <<setting, found, rooms, record, baseUrl, tracked, overtaken>>
        /\ check' = [check EXCEPT ![c] = begun] /\ moves' \in 0 .. MaxMoves /\ setting[o].full # Unset
    BY <1>10 DEF VerifyDomain, DomainStep, trackedRest
  <1>2. begun \in [step : {"idle", "resolving", "resolved", "failed"},
                   owner : Owners \cup {Unset}, full : Domains \cup {Unset}, verdict : Statuses]
        /\ setting[o].full \in Domains
    BY <1>10, <1>1 DEF Statuses, SettingTypes, CheckTypes
  <1>3. CheckRuns'
    BY <1>10, <1>1, <1>2 DEF CheckRuns
  <1>4. VerifiedForCause'
    BY <1>10, <1>1 DEF VerifiedForCause
  <1>. QED
    <2>1. check' \in [Checks -> CheckTypes]
      BY <1>10, <1>1, <1>2 DEF CheckTypes
    <2>. QED
      BY <1>10, <1>1, <1>3, <1>4, <2>1, SettingKept

LEMMA ResolveCnameKept == ASSUME DomainInv, NEW c \in Checks, ResolveCname(c) PROVE DomainInv'
  <1>. USE DomainAssumption DEF DomainAssumption, DomainInv
  <1>10. /\ rooms \subseteq Rooms /\ setting \in [Owners -> SettingTypes]
        /\ check \in [Checks -> CheckTypes]
        /\ record \in [Domains -> {"here", "elsewhere", "none", "refused"}]
        /\ found \subseteq Owners \X Domains /\ overtaken \subseteq Owners \X Domains
        /\ moves \in 0 .. MaxMoves
    BY DEF DomainTypeOK, SettingTypes, CheckTypes
  <1>. DEFINE o == check[c].owner
              d == check[c].full
  <1>1. /\ UNCHANGED <<setting, rooms, record, baseUrl, tracked, overtaken, moves>>
        /\ check[c].step = "resolving" /\ o \in Owners /\ d \in Domains
        /\ setting[o].full \in {Unset, d} \/ <<o, setting[o].full>> \in overtaken
    BY <1>10 DEF ResolveCname, trackedRest, CheckRuns
  <1>2. PICK v \in Verdicts(d) :
          /\ check' = [check EXCEPT ![c].step = IF v = "ERROR" THEN "failed" ELSE "resolved", ![c].verdict = v]
          /\ found' = IF v = "VERIFIED" THEN found \cup {<<o, d>>} ELSE found
    BY <1>10 DEF ResolveCname
  <1>3. v \in Statuses
    BY <1>10 DEF Verdicts, Statuses
  <1>4. check' \in [Checks -> CheckTypes]
    <2>. DEFINE st == IF v = "ERROR" THEN "failed" ELSE "resolved"
    <2>1. st \in {"failed", "resolved"}
      OBVIOUS
    <2>2. check' = [check EXCEPT ![c].step = st, ![c].verdict = v]
      BY <1>2
    <2>. HIDE DEF st
    <2>3. PICK x \in CheckTypes : x = check[c]
      BY <1>10
    <2>4. PICK y : y = [x EXCEPT !.step = st, !.verdict = v]
      OBVIOUS
    <2>5. y \in CheckTypes
      BY <1>3, <2>1, <2>4 DEF CheckTypes
    <2>6. check' = [check EXCEPT ![c] = y]
      BY <2>2, <2>3, <2>4
    <2>. QED
      BY <1>10, <2>5, <2>6
  <1>5. \A b \in Checks : b # c => check'[b] = check[b]
    BY <1>10, <1>2
  <1>6. check'[c].owner = o /\ check'[c].full = d /\ check'[c].verdict = v
    BY <1>10, <1>2
  <1>7. found \subseteq found' /\ found' \subseteq Owners \X Domains /\ (v = "VERIFIED" => <<o, d>> \in found')
    BY <1>10, <1>1, <1>2
  <1>. HIDE DEF o, d
  <1>8. CheckRuns'
    BY <1>10, <1>1, <1>5, <1>6, <1>7 DEF CheckRuns
  <1>9. VerifiedForCause'
    BY <1>10, <1>1, <1>7 DEF VerifiedForCause
  <1>. QED
    BY <1>10, <1>1, <1>4, <1>7, <1>8, <1>9, SettingKept

LEMMA WriteVerdictKept == ASSUME DomainInv, NEW c \in Checks, WriteVerdict(c) PROVE DomainInv'
  <1>. USE DomainAssumption DEF DomainAssumption, DomainInv
  <1>10. /\ rooms \subseteq Rooms /\ setting \in [Owners -> SettingTypes]
        /\ check \in [Checks -> CheckTypes]
        /\ record \in [Domains -> {"here", "elsewhere", "none", "refused"}]
        /\ found \subseteq Owners \X Domains /\ overtaken \subseteq Owners \X Domains
        /\ moves \in 0 .. MaxMoves
    BY DEF DomainTypeOK, SettingTypes, CheckTypes
  <1>. DEFINE o == check[c].owner
  <1>1. /\ UNCHANGED <<found, rooms, record, baseUrl, tracked, overtaken, moves>>
        /\ check[c].step = "resolved" /\ o \in Owners /\ check[c].full \in Domains
        /\ setting[o].full \in {Unset, check[c].full} \/ <<o, setting[o].full>> \in overtaken
        /\ check[c].verdict = "VERIFIED" => <<o, check[c].full>> \in found
    BY <1>10 DEF WriteVerdict, trackedRest, CheckRuns
  <1>2. CASE setting[o].full = Unset /\ check' = [check EXCEPT ![c].step = "failed"] /\ UNCHANGED setting
    <2>1. check' \in [Checks -> CheckTypes]
      BY <1>10, <1>2 DEF CheckTypes
    <2>2. /\ \A b \in Checks : b # c => check'[b] = check[b]
          /\ check'[c].owner = o /\ check'[c].full = check[c].full /\ check'[c].verdict = check[c].verdict
      BY <1>10, <1>2
    <2>. HIDE DEF o
    <2>3. CheckRuns' /\ VerifiedForCause'
      BY <1>10, <1>1, <1>2, <2>2 DEF CheckRuns, VerifiedForCause
    <2>. QED
      BY <1>10, <1>1, <1>2, <2>1, <2>3, SettingKept
  <1>3. CASE /\ setting[o].full # Unset
             /\ setting' = [setting EXCEPT ![o].status = check[c].verdict]
             /\ check' = [check EXCEPT ![c] = NoCheck]
    <2>1. check' \in [Checks -> CheckTypes]
      BY <1>10, <1>3 DEF NoCheck, Statuses, SettingTypes, CheckTypes
    <2>2. setting' \in [Owners -> SettingTypes]
      <3>1. check[c].verdict \in Statuses
        BY <1>10 DEF CheckTypes
      <3>. QED
        BY <1>10, <1>3, <3>1 DEF SettingTypes
    <2>3. \A b \in Checks : check'[b] = IF b = c THEN NoCheck ELSE check[b]
      BY <1>10, <1>3
    <2>4. \A p \in Owners : setting'[p].full = setting[p].full
                            /\ setting'[p].status = IF p = o THEN check[c].verdict ELSE setting[p].status
      BY <1>10, <1>3
    <2>. HIDE DEF o
    <2>5. CheckRuns'
      <3>1. \A b \in Checks : check'[b].step # "idle" => b # c /\ check'[b] = check[b]
        BY <2>3 DEF NoCheck
      <3>2. \A b \in Checks : check[b].step # "idle" => setting'[check[b].owner].full = setting[check[b].owner].full
        BY <2>4 DEF CheckRuns
      <3>. QED
        BY <1>1, <3>1, <3>2 DEF CheckRuns
    <2>6. VerifiedForCause'
      BY <1>10, <1>1, <1>3, <2>4 DEF VerifiedForCause
    <2>. QED
      BY <1>10, <1>1, <2>1, <2>2, <2>5, <2>6, SettingKept
  <1>. QED
    BY <1>10, <1>2, <1>3 DEF WriteVerdict

LEMMA WriteErrorKept == ASSUME DomainInv, NEW c \in Checks, WriteError(c) PROVE DomainInv'
  <1>. USE DomainAssumption DEF DomainAssumption, DomainInv
  <1>10. /\ rooms \subseteq Rooms /\ setting \in [Owners -> SettingTypes]
        /\ check \in [Checks -> CheckTypes]
        /\ record \in [Domains -> {"here", "elsewhere", "none", "refused"}]
        /\ found \subseteq Owners \X Domains /\ overtaken \subseteq Owners \X Domains
        /\ moves \in 0 .. MaxMoves
    BY DEF DomainTypeOK, SettingTypes, CheckTypes
  <1>. DEFINE o == check[c].owner
  <1>1. /\ UNCHANGED <<found, rooms, record, baseUrl, tracked, overtaken, moves>>
        /\ o \in Owners /\ check' = [check EXCEPT ![c] = NoCheck]
        /\ setting' = setting \/ setting' = [setting EXCEPT ![o].status = "ERROR"]
    BY <1>10 DEF WriteError, trackedRest, CheckRuns
  <1>2. check' \in [Checks -> CheckTypes]
    BY <1>10, <1>1 DEF NoCheck, Statuses, SettingTypes, CheckTypes
  <1>3. setting' \in [Owners -> SettingTypes]
    BY <1>10, <1>1 DEF Statuses, SettingTypes, CheckTypes
  <1>4. \A b \in Checks : check'[b] = IF b = c THEN NoCheck ELSE check[b]
    BY <1>10, <1>1
  <1>5. \A p \in Owners : setting'[p].full = setting[p].full /\ setting'[p].status \in {setting[p].status, "ERROR"}
    <2>1. CASE setting' = setting
      BY <2>1
    <2>2. CASE setting' = [setting EXCEPT ![o].status = "ERROR"]
      BY <1>10, <1>1, <2>2 DEF SettingTypes
    <2>. QED
      BY <1>1, <2>1, <2>2
  <1>. HIDE DEF o
  <1>6. CheckRuns'
    <2>1. \A b \in Checks : check'[b].step # "idle" => b # c /\ check'[b] = check[b]
      BY <1>4 DEF NoCheck
    <2>2. \A b \in Checks : check[b].step # "idle" => setting'[check[b].owner].full = setting[check[b].owner].full
      BY <1>5 DEF CheckRuns
    <2>. QED
      BY <1>1, <2>1, <2>2 DEF CheckRuns
  <1>7. VerifiedForCause'
    BY <1>10, <1>1, <1>5 DEF VerifiedForCause
  <1>. QED
    BY <1>10, <1>1, <1>2, <1>3, <1>6, <1>7, SettingKept

LEMMA ChangeRecordKept == ASSUME DomainInv, NEW d \in Domains, ChangeRecord(d) PROVE DomainInv'
  <1>. USE DomainAssumption DEF DomainAssumption, DomainInv
  <1>10. /\ rooms \subseteq Rooms /\ setting \in [Owners -> SettingTypes]
        /\ check \in [Checks -> CheckTypes]
        /\ record \in [Domains -> {"here", "elsewhere", "none", "refused"}]
        /\ found \subseteq Owners \X Domains /\ overtaken \subseteq Owners \X Domains
        /\ moves \in 0 .. MaxMoves
    BY DEF DomainTypeOK, SettingTypes, CheckTypes
  <1>1. /\ UNCHANGED <<rooms, setting, check, baseUrl, tracked, found, overtaken>> /\ moves' \in 0 .. MaxMoves
        /\ record' \in [Domains -> {"here", "elsewhere", "none", "refused"}]
    BY <1>10 DEF ChangeRecord, DomainStep
  <1>2. CheckRuns' /\ VerifiedForCause'
    BY <1>10, <1>1 DEF CheckRuns, VerifiedForCause
  <1>. QED
    BY <1>10, <1>1, <1>2, SettingKept

\* The worker.
LEMMA TrackedKept ==
  ASSUME DomainInv, UNCHANGED <<rooms, setting, record, check, baseUrl, found, overtaken, moves>>,
         NEW m \in Tracked, NEW new \in [step : {"new", "own", "fallback", "chosen", "ready"},
                              room : Rooms \cup {Unset}, user : Users \cup {Unset},
                              base : Domains \cup {Unset}, pixel : BOOLEAN, links : BOOLEAN],
         tracked' = [tracked EXCEPT ![m] = new],
         new.step \in {"new", "own", "fallback"} => new.base = Default, new.user \in Users,
         new.base # Default => \E o \in {new.room, new.user} : <<o, new.base>> \in found \cup overtaken
  PROVE  DomainInv'
  <1>1. DomainTypeOK'
    BY DEF DomainInv, DomainTypeOK
  <1>2. CheckRuns' /\ VerifiedForCause'
    BY DEF DomainInv, CheckRuns, VerifiedForCause
  <1>3. \A n \in Tracked : tracked'[n] = IF n = m THEN new ELSE tracked[n]
    BY DEF DomainInv, DomainTypeOK
  <1>4. BaseForCause'
    BY <1>3 DEF DomainInv, BaseForCause
  <1>. QED
    BY <1>1, <1>2, <1>4 DEF DomainInv

LEMMA TrackedStepKept ==
  ASSUME DomainInv, NEW m \in Tracked,
         \/ \E room \in Rooms \cup {Unset}, u \in Users : Prepare(m, room, u)
         \/ OwnDomain(m) \/ UserDomain(m) \/ AddTracking(m)
  PROVE  DomainInv'
  <1>. USE DomainAssumption DEF DomainAssumption
  <1>0. tracked \in [Tracked -> TrackedTypes] /\ tracked[m] \in TrackedTypes
    BY DEF DomainInv, DomainTypeOK, TrackedTypes
  <1>1. ASSUME NEW room \in Rooms \cup {Unset}, NEW u \in Users, Prepare(m, room, u) PROVE DomainInv'
    <2>. DEFINE new == [tracked[m] EXCEPT !.step = "own", !.room = room, !.user = u]
    <2>1. tracked' = [tracked EXCEPT ![m] = new]
          /\ UNCHANGED <<rooms, setting, record, check, baseUrl, found, overtaken, moves>>
      BY <1>1 DEF Prepare
    <2>2. new \in TrackedTypes /\ new.base = Default /\ new.user \in Users
      BY <1>0, <1>1 DEF TrackedTypes, Prepare, DomainInv, BaseForCause
    <2>. HIDE DEF new
    <2>. QED
      BY <2>1, <2>2, TrackedKept DEF TrackedTypes
  <1>2. CASE OwnDomain(m)
    <2>. DEFINE o == OwnerOf(m)
                new == IF setting[o].status = "VERIFIED"
                       THEN [tracked[m] EXCEPT !.step = "chosen", !.base = BaseFor(o)]
                       ELSE [tracked[m] EXCEPT !.step = IF tracked[m].room = Unset THEN "chosen" ELSE "fallback"]
    <2>1. tracked' = [tracked EXCEPT ![m] = new]
          /\ UNCHANGED <<rooms, setting, record, check, baseUrl, found, overtaken, moves>>
      BY <1>2 DEF OwnDomain
    <2>2. tracked[m].user \in Users /\ o \in Owners /\ o \in {tracked[m].room, tracked[m].user}
          /\ tracked[m].base = Default
      BY <1>0, <1>2 DEF OwnDomain, DomainInv, BaseForCause, OwnerOf, Owners, TrackedTypes
    <2>3. BaseFor(o) \in Domains \cup {Unset}
      BY <2>2 DEF BaseFor, Default, DomainInv, DomainTypeOK
    <2>4. new \in TrackedTypes /\ new.user = tracked[m].user /\ new.room = tracked[m].room
      BY <1>0, <2>3 DEF TrackedTypes
    <2>5. new.base # Default => new.base = setting[o].full /\ setting[o].status = "VERIFIED"
                                /\ new.step = "chosen"
      BY <1>0, <2>2 DEF TrackedTypes, BaseFor
    <2>. HIDE DEF new, o
    <2>6. new.base # Default => <<o, new.base>> \in found \cup overtaken
      BY <2>2, <2>5 DEF DomainInv, VerifiedForCause, Default
    <2>. QED
      BY <2>1, <2>2, <2>4, <2>5, <2>6, TrackedKept DEF TrackedTypes
  <1>3. CASE UserDomain(m)
    <2>. DEFINE o == tracked[m].user
                base == IF setting[o].status = "VERIFIED" THEN BaseFor(o) ELSE Default
                new == [tracked[m] EXCEPT !.step = "chosen", !.base = base]
    <2>1. tracked' = [tracked EXCEPT ![m] = new]
          /\ UNCHANGED <<rooms, setting, record, check, baseUrl, found, overtaken, moves>>
      BY <1>3 DEF UserDomain
    <2>2. o \in Users /\ o \in Owners
      BY <1>3 DEF UserDomain, DomainInv, BaseForCause, Owners
    <2>3. base \in Domains \cup {Unset}
          /\ (base # Default => base = setting[o].full /\ setting[o].status = "VERIFIED")
      BY <2>2 DEF BaseFor, Default, DomainInv, DomainTypeOK
    <2>. HIDE DEF base
    <2>4. new \in TrackedTypes /\ new.user = o /\ new.base = base /\ new.step = "chosen"
      BY <1>0, <2>3 DEF TrackedTypes
    <2>. HIDE DEF new, o
    <2>5. base # Default => <<o, base>> \in found \cup overtaken
      BY <2>2, <2>3 DEF DomainInv, VerifiedForCause, Default
    <2>. QED
      BY <2>1, <2>2, <2>4, <2>5, TrackedKept DEF TrackedTypes
  <1>4. CASE AddTracking(m)
    <2>1. PICK opens \in BOOLEAN, links \in BOOLEAN :
            tracked' = [tracked EXCEPT ![m].step = "ready", ![m].pixel = opens, ![m].links = links]
      BY <1>4 DEF AddTracking
    <2>. DEFINE new == [tracked[m] EXCEPT !.step = "ready", !.pixel = opens, !.links = links]
    <2>2. tracked' = [tracked EXCEPT ![m] = new]
          /\ UNCHANGED <<rooms, setting, record, check, baseUrl, found, overtaken, moves>>
      BY <1>4, <2>1 DEF AddTracking
    <2>3. new \in TrackedTypes /\ new.base = tracked[m].base /\ new.user = tracked[m].user
          /\ new.room = tracked[m].room /\ new.step = "ready"
      BY <1>0 DEF TrackedTypes
    <2>4. tracked[m].user \in Users
      BY <1>4 DEF AddTracking, DomainInv, BaseForCause
    <2>. HIDE DEF new
    <2>. QED
      BY <2>2, <2>3, <2>4, TrackedKept DEF TrackedTypes, DomainInv, BaseForCause
  <1>. QED
    BY <1>1, <1>2, <1>3, <1>4

LEMMA DomainStepKept == DomainInv /\ [DomainNext]_domainVars => DomainInv'
  <1>1. DomainInv /\ DomainNext => DomainInv'
    BY SaveDomainKept, RemoveRoomKept, VerifyDomainKept, ResolveCnameKept, WriteVerdictKept,
       WriteErrorKept, ChangeRecordKept, TrackedStepKept DEF DomainNext
  <1>2. DomainInv /\ UNCHANGED domainVars => DomainInv'
    BY DEF DomainInv, DomainTypeOK, CheckRuns, VerifiedForCause, BaseForCause, domainVars
  <1>. QED
    BY <1>1, <1>2

LEMMA DomainImplies == DomainInv => DomainTypeOK /\ LinksLeadHere
  BY DEF DomainInv, BaseForCause, LinksLeadHere

(***************************************************************************)
(* The inbox.  A letter that no two synchronisations were about to insert  *)
(* is stored once, or about to be by one of them; what the page shows      *)
(* belongs to the sender chosen as long as no answer came late.            *)
(***************************************************************************)
ShownBelongsToSender ==
  ~loose => ~misplaced /\ page.threads \in {NoBox, page.sender} /\ page.emails \in {NoBox, page.sender}

TodoHasArrived ==
  \A s \in Syncs : \A m \in sync[s].todo : arrived[m].box = sync[s].box /\ arrived[m].box # NoBox

InsertedHasArrived ==
  \A s \in Syncs : sync[s].inserts # NoLetterRead =>
    LET m == sync[s].inserts IN arrived[m].box # NoBox /\ ~arrived[m].known

StoredHasArrived ==
  \A m \in Arrivals, k \in CopyNumbers :
    Stored(m, k) => arrived[m].box # NoBox /\ (arrived[m].known => k = 1)

StoredOnce ==
  \A m \in Arrivals \ raced :
    /\ \A j, k \in CopyNumbers : Stored(m, j) /\ Stored(m, k) => j = k
    /\ \A s \in Syncs, k \in CopyNumbers : sync[s].inserts = m => ~Stored(m, k)
    /\ \A r, s \in Syncs : sync[r].inserts = m /\ sync[s].inserts = m => r = s

LettersInv == TodoHasArrived /\ InsertedHasArrived /\ StoredHasArrived /\ StoredOnce
InboxInv == InboxTypeOK /\ ShownBelongsToSender /\ LettersInv

LEMMA InboxNumbers == 1 \in CopyNumbers /\ {} \in SUBSET Flags /\ {"stored"} \in SUBSET Flags
  <1>1. Cardinality(Syncs) \in Nat /\ Cardinality(Syncs) # 0
    BY InboxAssumption, FS_CardinalityType, FS_EmptySet DEF InboxAssumption
  <1>. QED
    BY <1>1 DEF CopyNumbers, Flags

LEMMA InboxStarts == InboxInit => InboxInv
  <1>. SUFFICES ASSUME InboxInit PROVE InboxInv
    OBVIOUS
  <1>. USE InboxAssumption, InboxNumbers DEF InboxAssumption, InboxInit
  <1>1. InboxTypeOK
    <2>1. /\ arrived \in [Arrivals -> [box : Boxes \cup {NoBox}, known : BOOLEAN]]
          /\ copy \in [Arrivals -> [CopyNumbers -> SUBSET Flags]]
      BY DEF Unsent
    <2>2. sync \in [Syncs -> [box : Boxes \cup {NoBox}, todo : SUBSET Arrivals,
                              inserts : Arrivals \cup {NoLetterRead}]]
      BY DEF NoSync
    <2>3. /\ page \in [sender : Boxes \cup {NoBox}, threads : Boxes \cup {NoBox}, emails : Boxes \cup {NoBox}]
          /\ load \in [Loads -> [kind : {"no", "senders", "threads", "first", "emails"},
                                 box : Boxes \cup {NoBox}]]
      BY DEF EmptyPage, NoLoad
    <2>4. toggle \in [Toggles -> [of : Arrivals \cup {NoLetterRead}, nr : CopyNumbers, saw : BOOLEAN]]
      BY DEF NoToggle
    <2>5. syncs \in 0 .. MaxSyncs /\ clicks \in 0 .. MaxClicks
      OBVIOUS
    <2>6. raced \subseteq Arrivals /\ loose \in BOOLEAN /\ misplaced \in BOOLEAN
      OBVIOUS
    <2>. QED
      BY <2>1, <2>2, <2>3, <2>4, <2>5, <2>6 DEF InboxTypeOK
  <1>2. ShownBelongsToSender
    BY DEF ShownBelongsToSender, EmptyPage
  <1>3. LettersInv
    BY DEF LettersInv, TodoHasArrived, InsertedHasArrived, StoredHasArrived, StoredOnce, Stored, NoSync
  <1>. QED
    BY <1>1, <1>2, <1>3 DEF InboxInv

(***************************************************************************)
(* The page: its steps touch no copy but for the flags, and no letter.     *)
(***************************************************************************)
PageTyped ==
  /\ page \in [sender : Boxes \cup {NoBox}, threads : Boxes \cup {NoBox}, emails : Boxes \cup {NoBox}]
  /\ load \in [Loads -> [kind : {"no", "senders", "threads", "first", "emails"}, box : Boxes \cup {NoBox}]]
  /\ clicks \in 0 .. MaxClicks /\ loose \in BOOLEAN /\ misplaced \in BOOLEAN

LEMMA WaitsTyped ==
  ASSUME PageTyped, NEW l \in Loads, NEW kind \in {"no", "senders", "threads", "first", "emails"},
         NEW box \in Boxes \cup {NoBox}, Waits(l, kind, box)
  PROVE  load' \in [Loads -> [kind : {"no", "senders", "threads", "first", "emails"}, box : Boxes \cup {NoBox}]]
  BY DEF PageTyped, Waits

LEMMA InboxPageStep ==
  ASSUME PageTyped, ShownBelongsToSender, NEW l \in Loads, PageStep(l)
  PROVE  PageTyped' /\ ShownBelongsToSender'
  <1>. USE InboxAssumption DEF InboxAssumption
  <1>1. CASE OpenInbox(l)
    BY <1>1, WaitsTyped DEF OpenInbox, Reload, Click, PageTyped, ShownBelongsToSender
  <1>2. CASE SendersCome(l)
    BY <1>2, WaitsTyped DEF SendersCome, PageTyped, ShownBelongsToSender
  <1>3. CASE ThreadsCome(l)
    <2>1. PICK box \in {load[l].box, NoBox} : page' = [page EXCEPT !.threads = box]
      BY <1>3 DEF ThreadsCome
    <2>2. loose' = (loose \/ load[l].box # page.sender) /\ misplaced' = misplaced /\ clicks' = clicks
      BY <1>3 DEF ThreadsCome, Late
    <2>3. load' = [load EXCEPT ![l] = NoLoad] \/ Waits(l, "emails", page.sender)
      BY <1>3 DEF ThreadsCome
    <2>4. load' \in [Loads -> [kind : {"no", "senders", "threads", "first", "emails"}, box : Boxes \cup {NoBox}]]
      BY <2>3, WaitsTyped DEF PageTyped, NoLoad
    <2>. QED
      BY <2>1, <2>2, <2>4 DEF PageTyped, ShownBelongsToSender
  <1>4. CASE EmailsCome(l)
    <2>1. PICK box \in {load[l].box, NoBox} : page' = [page EXCEPT !.emails = box]
      BY <1>4 DEF EmailsCome
    <2>2. loose' = (loose \/ load[l].box # page.sender) /\ misplaced' = misplaced /\ clicks' = clicks
          /\ load' = [load EXCEPT ![l] = NoLoad]
      BY <1>4 DEF EmailsCome, Late
    <2>. QED
      BY <2>1, <2>2 DEF PageTyped, ShownBelongsToSender, NoLoad
  <1>5. CASE LoadFails(l)
    BY <1>5 DEF LoadFails, NoLoad, PageTyped, ShownBelongsToSender
  <1>6. ASSUME NEW box \in Boxes, SwitchSender(l, box) PROVE PageTyped' /\ ShownBelongsToSender'
    BY <1>6, WaitsTyped DEF SwitchSender, Click, PageTyped, ShownBelongsToSender
  <1>7. CASE SendReply(l)
    BY <1>7, WaitsTyped DEF SendReply, Reload, Click, PageTyped, ShownBelongsToSender
  <1>8. ASSUME NEW flag, FlagEmails(l, flag) PROVE PageTyped' /\ ShownBelongsToSender'
    BY <1>8, WaitsTyped DEF FlagEmails, Reload, Click, PageTyped, ShownBelongsToSender
  <1>. QED
    BY <1>1, <1>2, <1>3, <1>4, <1>5, <1>6, <1>7, <1>8 DEF PageStep

LEMMA InboxPageKept == InboxInv /\ InboxNext => PageTyped' /\ ShownBelongsToSender'
  <1>. SUFFICES ASSUME InboxInv, InboxNext PROVE PageTyped' /\ ShownBelongsToSender'
    OBVIOUS
  <1>0. PageTyped /\ ShownBelongsToSender
    BY DEF InboxInv, InboxTypeOK, PageTyped
  <1>1. ASSUME NEW l \in Loads, PageStep(l) PROVE PageTyped' /\ ShownBelongsToSender'
    BY <1>0, <1>1, InboxPageStep
  <1>2. ASSUME NEW m, NEW box, NEW old, ArriveIn(m, box, old) PROVE PageTyped' /\ ShownBelongsToSender'
    BY <1>0, <1>2 DEF ArriveIn, PageTyped, ShownBelongsToSender
  <1>3. ASSUME NEW s \in Syncs, SyncStep(s) PROVE PageTyped' /\ ShownBelongsToSender'
    BY <1>0, <1>3 DEF SyncStep, BeginSync, UpsertLetter, LookForLetter, InsertLetter, EndSync,
       PageTyped, ShownBelongsToSender
  <1>4. ASSUME NEW t, WriteStar(t) \/ \E m \in Arrivals, k \in CopyNumbers : ReadStar(t, m, k)
        PROVE  PageTyped' /\ ShownBelongsToSender'
    BY <1>0, <1>4, InboxAssumption DEF InboxAssumption, WriteStar, ReadStar, Click, PageTyped, ShownBelongsToSender
  <1>. QED
    BY <1>1, <1>2, <1>3, <1>4 DEF InboxNext

(***************************************************************************)
(* The letters.                                                            *)
(***************************************************************************)
LettersTyped ==
  /\ arrived \in [Arrivals -> [box : Boxes \cup {NoBox}, known : BOOLEAN]]
  /\ copy \in [Arrivals -> [CopyNumbers -> SUBSET Flags]]
  /\ sync \in [Syncs -> [box : Boxes \cup {NoBox}, todo : SUBSET Arrivals,
                         inserts : Arrivals \cup {NoLetterRead}]]
  /\ toggle \in [Toggles -> [of : Arrivals \cup {NoLetterRead}, nr : CopyNumbers, saw : BOOLEAN]]
  /\ syncs \in 0 .. MaxSyncs /\ raced \subseteq Arrivals

SyncRecords == [Syncs -> [box : Boxes \cup {NoBox}, todo : SUBSET Arrivals,
                          inserts : Arrivals \cup {NoLetterRead}]]

\* Flags that come and go leave what is stored as it is.
LEMMA FlagsLeaveLetters ==
  ASSUME LettersInv, UNCHANGED <<arrived, sync, raced>>,
         \A m \in Arrivals, k \in CopyNumbers : Stored(m, k)' <=> Stored(m, k)
  PROVE  LettersInv'
  BY DEF LettersInv, TodoHasArrived, InsertedHasArrived, StoredHasArrived, StoredOnce

LEMMA FlagEmailsKept ==
  ASSUME LettersTyped, LettersInv, NEW l \in Loads, NEW flag \in {"read", "archived", "deleted"},
         FlagEmails(l, flag)
  PROVE  LettersTyped' /\ LettersInv'
  <1>1. PICK some : copy' = [m \in Arrivals |-> [k \in CopyNumbers |->
                  IF <<m, k>> \in some THEN copy[m][k] \cup {flag} ELSE copy[m][k]]]
    BY DEF FlagEmails
  <1>2. UNCHANGED <<arrived, sync, toggle, syncs, raced>>
    BY DEF FlagEmails
  <1>3. LettersTyped'
    BY <1>1, <1>2 DEF LettersTyped, Flags
  <1>4. \A m \in Arrivals, k \in CopyNumbers : Stored(m, k)' <=> Stored(m, k)
    BY <1>1 DEF Stored, LettersTyped
  <1>. QED
    BY <1>2, <1>3, <1>4, FlagsLeaveLetters

LEMMA WriteStarKept ==
  ASSUME LettersTyped, LettersInv, NEW t \in Toggles, WriteStar(t)
  PROVE  LettersTyped' /\ LettersInv'
  <1>. DEFINE star == toggle[t]
              new == IF star.saw THEN copy[star.of][star.nr] \ {"starred"}
                     ELSE copy[star.of][star.nr] \cup {"starred"}
  <1>1. copy' = [copy EXCEPT ![star.of][star.nr] = new]
        /\ toggle' = [toggle EXCEPT ![t] = NoToggle] /\ UNCHANGED <<arrived, sync, syncs, raced>>
    BY DEF WriteStar
  <1>2. star.nr \in CopyNumbers /\ star.of \in Arrivals \cup {NoLetterRead}
    BY DEF LettersTyped
  <1>3. NoToggle \in [of : Arrivals \cup {NoLetterRead}, nr : CopyNumbers, saw : BOOLEAN]
    BY InboxNumbers DEF NoToggle
  <1>4. CASE star.of \notin Arrivals
    <2>1. copy' = copy
      BY <1>1, <1>4 DEF LettersTyped
    <2>. QED
      BY <1>1, <1>3, <2>1, FlagsLeaveLetters DEF LettersTyped, Stored
  <1>5. CASE star.of \in Arrivals
    <2>1. new \in SUBSET Flags /\ ("stored" \in new <=> "stored" \in copy[star.of][star.nr])
      BY <1>2, <1>5 DEF LettersTyped, Flags
    <2>. HIDE DEF new
    <2>2. \A m \in Arrivals, k \in CopyNumbers :
            copy'[m][k] = IF m = star.of /\ k = star.nr THEN new ELSE copy[m][k]
      BY <1>1, <1>2, <1>5 DEF LettersTyped
    <2>3. copy' \in [Arrivals -> [CopyNumbers -> SUBSET Flags]]
      BY <1>1, <1>2, <1>5, <2>1 DEF LettersTyped
    <2>4. \A m \in Arrivals, k \in CopyNumbers : Stored(m, k)' <=> Stored(m, k)
      BY <2>1, <2>2 DEF Stored
    <2>5. LettersTyped'
      BY <1>1, <1>3, <2>3 DEF LettersTyped
    <2>. QED
      BY <1>1, <2>4, <2>5, FlagsLeaveLetters
  <1>. QED
    BY <1>4, <1>5

LEMMA UpsertKept ==
  ASSUME LettersTyped, LettersInv, NEW s \in Syncs, NEW m \in Arrivals, UpsertLetter(s, m)
  PROVE  LettersTyped' /\ LettersInv'
  <1>1. /\ m \in sync[s].todo /\ arrived[m].known /\ arrived[m].box # NoBox
        /\ UNCHANGED <<arrived, toggle, syncs, raced>>
    BY DEF UpsertLetter, LettersInv, TodoHasArrived
  <1>11. sync' \in SyncRecords /\ \A r \in Syncs :
          /\ sync'[r].inserts = sync[r].inserts /\ sync'[r].box = sync[r].box
          /\ sync'[r].todo = IF r = s THEN sync[s].todo \ {m} ELSE sync[r].todo
    <2>1. sync \in SyncRecords /\ sync[s].todo \ {m} \in SUBSET Arrivals
          /\ sync[s].inserts \in Arrivals \cup {NoLetterRead}
      BY DEF LettersTyped, SyncRecords
    <2>2. sync' = [sync EXCEPT ![s].todo = sync[s].todo \ {m}]
      BY DEF UpsertLetter
    <2>4. sync' \in SyncRecords
      BY <2>1, <2>2 DEF SyncRecords
    <2>5. \A r \in Syncs : r # s => sync'[r] = sync[r]
      BY <2>1, <2>2 DEF SyncRecords
    <2>6. sync'[s].box = sync[s].box /\ sync'[s].todo = sync[s].todo \ {m} /\ sync'[s].inserts = sync[s].inserts
      BY <2>1, <2>2 DEF SyncRecords
    <2>. QED
      BY <2>4, <2>5, <2>6
  <1>2. copy' = [copy EXCEPT ![m][1] = copy[m][1] \cup {"stored"}]
    BY DEF UpsertLetter
  <1>3. \A n \in Arrivals, k \in CopyNumbers :
          copy'[n][k] = IF n = m /\ k = 1 THEN copy[n][k] \cup {"stored"} ELSE copy[n][k]
    BY <1>2, InboxNumbers DEF LettersTyped
  <1>4. \A n \in Arrivals, k \in CopyNumbers : Stored(n, k)' <=> Stored(n, k) \/ (n = m /\ k = 1)
    BY <1>3 DEF Stored
  <1>5. LettersTyped'
    <2>1. copy' \in [Arrivals -> [CopyNumbers -> SUBSET Flags]]
      BY <1>2, InboxNumbers DEF LettersTyped, Flags
    <2>. QED
      BY <1>1, <1>11, <2>1 DEF LettersTyped, SyncRecords
  <1>6. \A r \in Syncs : sync'[r].inserts = sync[r].inserts /\ sync'[r].todo \subseteq sync[r].todo
                         /\ sync'[r].box = sync[r].box
    BY <1>11
  <1>7. TodoHasArrived' /\ InsertedHasArrived'
    BY <1>1, <1>6 DEF LettersInv, TodoHasArrived, InsertedHasArrived
  <1>8. StoredHasArrived'
    BY <1>1, <1>4 DEF LettersInv, StoredHasArrived
  <1>9. \A r \in Syncs : sync[r].inserts # m
    BY <1>1, InboxAssumption DEF LettersInv, InsertedHasArrived, InboxAssumption
  <1>10. StoredOnce'
    BY <1>1, <1>4, <1>6, <1>8, <1>9 DEF LettersInv, StoredOnce, StoredHasArrived
  <1>. QED
    BY <1>5, <1>7, <1>8, <1>10 DEF LettersInv

LEMMA LookForLetterKept ==
  ASSUME LettersTyped, LettersInv, NEW s \in Syncs, NEW m \in Arrivals, LookForLetter(s, m)
  PROVE  LettersTyped' /\ LettersInv'
  <1>1. /\ m \in sync[s].todo /\ ~arrived[m].known /\ sync[s].inserts = NoLetterRead
        /\ UNCHANGED <<arrived, copy, toggle, syncs>>
        /\ arrived[m].box = sync[s].box /\ arrived[m].box # NoBox
    BY DEF LookForLetter, Unnamed, LettersInv, TodoHasArrived
  <1>2. CASE sync' = [sync EXCEPT ![s].todo = @ \ {m}] /\ UNCHANGED raced
    <2>1. sync' \in SyncRecords /\ \A r \in Syncs :
            /\ sync'[r].inserts = sync[r].inserts /\ sync'[r].box = sync[r].box
            /\ sync'[r].todo \subseteq sync[r].todo
      <3>1. sync \in SyncRecords /\ sync[s].todo \ {m} \in SUBSET Arrivals
            /\ sync[s].inserts \in Arrivals \cup {NoLetterRead}
        BY DEF LettersTyped, SyncRecords
      <3>2. sync' = [sync EXCEPT ![s].todo = sync[s].todo \ {m}]
        BY <1>2
      <3>4. sync' \in SyncRecords
        BY <3>1, <3>2 DEF SyncRecords
      <3>5. \A r \in Syncs : r # s => sync'[r] = sync[r]
        BY <3>1, <3>2 DEF SyncRecords
      <3>6. sync'[s].box = sync[s].box /\ sync'[s].todo = sync[s].todo \ {m} /\ sync'[s].inserts = sync[s].inserts
        BY <3>1, <3>2 DEF SyncRecords
      <3>. QED
        BY <3>4, <3>5, <3>6
    <2>2. LettersTyped'
      BY <1>1, <1>2, <2>1 DEF LettersTyped, SyncRecords
    <2>. QED
      BY <1>1, <1>2, <2>1, <2>2 DEF LettersInv, TodoHasArrived, InsertedHasArrived, StoredHasArrived,
         StoredOnce, Stored
  <1>3. CASE StoredIn(sync[s].box) = {} /\ InsertLater(s, m)
    <2>1. \A k \in CopyNumbers : ~Stored(m, k)
      BY <1>1, <1>3 DEF StoredIn
    <2>2. sync' \in SyncRecords /\ \A r \in Syncs :
            /\ sync'[r].todo \subseteq sync[r].todo /\ sync'[r].box = sync[r].box
            /\ sync'[r].inserts = IF r = s THEN m ELSE sync[r].inserts
      <3>1. sync \in SyncRecords /\ sync[s].todo \ {m} \in SUBSET Arrivals
        BY DEF LettersTyped, SyncRecords
      <3>2. sync' = [sync EXCEPT ![s].todo = sync[s].todo \ {m}, ![s].inserts = m]
        BY <1>3 DEF InsertLater
      <3>3. PICK y : y = [sync[s] EXCEPT !.todo = sync[s].todo \ {m}, !.inserts = m]
        OBVIOUS
      <3>4. sync' \in SyncRecords
        <4>1. y \in [box : Boxes \cup {NoBox}, todo : SUBSET Arrivals, inserts : Arrivals \cup {NoLetterRead}]
          BY <3>1, <3>3 DEF SyncRecords
        <4>2. sync' = [sync EXCEPT ![s] = y]
          BY <3>2, <3>3
        <4>. QED
          BY <3>1, <4>1, <4>2 DEF SyncRecords
      <3>5. \A r \in Syncs : r # s => sync'[r] = sync[r]
        BY <3>1, <3>2 DEF SyncRecords
      <3>6. sync'[s].box = sync[s].box /\ sync'[s].todo = sync[s].todo \ {m} /\ sync'[s].inserts = m
        BY <3>1, <3>2 DEF SyncRecords
      <3>. QED
        BY <3>4, <3>5, <3>6
    <2>3. raced \subseteq raced' /\ raced' \subseteq Arrivals
          /\ (m \notin raced' => \A r \in Syncs \ {s} : sync[r].inserts # m)
      BY <1>3 DEF InsertLater, LettersTyped
    <2>4. LettersTyped'
      BY <1>1, <2>2, <2>3 DEF LettersTyped, SyncRecords
    <2>6. TodoHasArrived'
      BY <1>1, <2>2 DEF LettersInv, TodoHasArrived
    <2>7. InsertedHasArrived'
      BY <1>1, <2>2 DEF LettersInv, InsertedHasArrived
    <2>8. StoredHasArrived'
      BY <1>1 DEF LettersInv, StoredHasArrived, Stored
    <2>9. StoredOnce'
      BY <1>1, <2>1, <2>3, <2>2 DEF LettersInv, StoredOnce, Stored
    <2>. QED
      BY <2>4, <2>6, <2>7, <2>8, <2>9 DEF LettersInv
  <1>. QED
    BY <1>2, <1>3 DEF LookForLetter

LEMMA InsertKept ==
  ASSUME LettersTyped, LettersInv, NEW s \in Syncs, InsertLetter(s)
  PROVE  LettersTyped' /\ LettersInv'
  <1>. DEFINE m == sync[s].inserts
  <1>1. /\ m # NoLetterRead /\ sync' = [sync EXCEPT ![s].inserts = NoLetterRead]
        /\ UNCHANGED <<arrived, toggle, syncs, raced>>
        /\ copy' = copy \/ \E k \in CopyNumbers : copy' = [copy EXCEPT ![m][k] = {"stored"}]
    BY DEF InsertLetter
  <1>2. m \in Arrivals /\ arrived[m].box # NoBox /\ ~arrived[m].known
    BY <1>1 DEF LettersTyped, LettersInv, InsertedHasArrived
  <1>3. sync' \in SyncRecords /\ \A r \in Syncs :
          /\ sync'[r].todo = sync[r].todo /\ sync'[r].box = sync[r].box
          /\ sync'[r].inserts = IF r = s THEN NoLetterRead ELSE sync[r].inserts
    <2>1. sync \in SyncRecords /\ sync[s].todo \in SUBSET Arrivals
      BY DEF LettersTyped, SyncRecords
    <2>4. sync' \in SyncRecords
      BY <1>1, <2>1 DEF SyncRecords
    <2>5. \A r \in Syncs : r # s => sync'[r] = sync[r]
      BY <1>1, <2>1 DEF SyncRecords
    <2>6. sync'[s].box = sync[s].box /\ sync'[s].todo = sync[s].todo /\ sync'[s].inserts = NoLetterRead
      BY <1>1, <2>1 DEF SyncRecords
    <2>. QED
      BY <2>4, <2>5, <2>6
  <1>4. TodoHasArrived' /\ InsertedHasArrived'
    BY <1>1, <1>3 DEF LettersInv, TodoHasArrived, InsertedHasArrived
  <1>5. CASE copy' = copy
    <2>1. LettersTyped'
      BY <1>1, <1>3, <1>5 DEF LettersTyped, SyncRecords
    <2>2. StoredHasArrived' /\ StoredOnce'
      BY <1>1, <1>3, <1>5, InboxAssumption DEF LettersInv, StoredHasArrived, StoredOnce, Stored, InboxAssumption
    <2>. QED
      BY <1>4, <2>1, <2>2 DEF LettersInv
  <1>6. ASSUME NEW k \in CopyNumbers, copy' = [copy EXCEPT ![m][k] = {"stored"}]
        PROVE  LettersTyped' /\ LettersInv'
    <2>. HIDE DEF m
    <2>1. copy' \in [Arrivals -> [CopyNumbers -> SUBSET Flags]]
      BY <1>2, <1>6, InboxNumbers DEF LettersTyped
    <2>2. \A n \in Arrivals, j \in CopyNumbers :
            copy'[n][j] = IF n = m /\ j = k THEN {"stored"} ELSE copy[n][j]
      BY <1>2, <1>6 DEF LettersTyped
    <2>3. \A n \in Arrivals, j \in CopyNumbers : Stored(n, j)' <=> Stored(n, j) \/ (n = m /\ j = k)
      BY <2>2 DEF Stored
    <2>4. LettersTyped'
      BY <1>1, <1>3, <2>1 DEF LettersTyped, SyncRecords
    <2>5. StoredHasArrived'
      BY <1>1, <1>2, <2>3 DEF LettersInv, StoredHasArrived
    <2>6. m \notin raced => /\ \A j \in CopyNumbers : ~Stored(m, j)
                            /\ \A r \in Syncs \ {s} : sync[r].inserts # m
      BY <1>2 DEF LettersInv, StoredOnce, m
    <2>7. StoredOnce'
      BY <1>1, <1>2, <1>3, <2>3, <2>6, InboxAssumption DEF LettersInv, StoredOnce, InboxAssumption
    <2>. QED
      BY <1>4, <2>4, <2>5, <2>7 DEF LettersInv
  <1>. QED
    BY <1>1, <1>5, <1>6

LEMMA LettersKept == InboxInv /\ InboxNext => LettersTyped' /\ LettersInv'
  <1>. SUFFICES ASSUME InboxInv, InboxNext PROVE LettersTyped' /\ LettersInv'
    OBVIOUS
  <1>0. LettersTyped /\ LettersInv
    BY DEF InboxInv, InboxTypeOK, LettersTyped
  <1>1. ASSUME NEW m \in Arrivals, NEW box \in Boxes, NEW old \in BOOLEAN, ArriveIn(m, box, old)
        PROVE  LettersTyped' /\ LettersInv'
    <2>1. arrived[m].box = NoBox /\ UNCHANGED <<copy, sync, toggle, syncs, raced>>
      BY <1>1 DEF ArriveIn, Unsent
    <2>2. arrived' = [arrived EXCEPT ![m] = [box |-> box, known |-> old]]
      BY <1>1 DEF ArriveIn
    <2>3. \A n \in Arrivals : n # m => arrived'[n] = arrived[n]
      BY <1>0, <2>2 DEF LettersTyped
    <2>4. LettersTyped'
      BY <1>0, <2>1, <2>2 DEF LettersTyped
    <2>5. \A s \in Syncs : m \notin sync[s].todo /\ sync[s].inserts # m
      BY <1>0, <2>1, InboxAssumption DEF LettersInv, TodoHasArrived, InsertedHasArrived, InboxAssumption
    <2>6. TodoHasArrived' /\ InsertedHasArrived'
      BY <1>0, <2>1, <2>3, <2>5 DEF LettersInv, LettersTyped, TodoHasArrived, InsertedHasArrived
    <2>7. StoredHasArrived'
      BY <1>0, <2>1, <2>3 DEF LettersInv, StoredHasArrived, Stored
    <2>8. StoredOnce'
      BY <1>0, <2>1 DEF LettersInv, StoredOnce, Stored
    <2>. QED
      BY <2>4, <2>6, <2>7, <2>8 DEF LettersInv
  <1>2. ASSUME NEW s \in Syncs, NEW box \in Boxes, BeginSync(s, box) PROVE LettersTyped' /\ LettersInv'
    <2>1. PICK recent \in SUBSET {m \in Arrivals : arrived[m].box = box} :
            sync' = [sync EXCEPT ![s] = [box |-> box, todo |-> recent, inserts |-> NoLetterRead]]
      BY <1>2 DEF BeginSync
    <2>2. UNCHANGED <<arrived, copy, toggle, raced>> /\ syncs' \in 0 .. MaxSyncs
      BY <1>0, <1>2, InboxAssumption DEF BeginSync, LettersTyped, InboxAssumption
    <2>3. LettersTyped'
      BY <1>0, <2>1, <2>2 DEF LettersTyped
    <2>4. \A r \in Syncs : IF r = s THEN sync'[r].box = box /\ sync'[r].todo = recent
                                         /\ sync'[r].inserts = NoLetterRead
                           ELSE sync'[r] = sync[r]
      BY <1>0, <2>1 DEF LettersTyped
    <2>5. TodoHasArrived'
      BY <1>0, <2>2, <2>4, InboxAssumption DEF LettersInv, TodoHasArrived, InboxAssumption
    <2>6. InsertedHasArrived'
      BY <1>0, <2>2, <2>4 DEF LettersInv, InsertedHasArrived
    <2>7. StoredHasArrived' /\ StoredOnce'
      BY <1>0, <2>2, <2>4, InboxAssumption DEF LettersInv, StoredHasArrived, StoredOnce, Stored, InboxAssumption
    <2>. QED
      BY <2>3, <2>5, <2>6, <2>7 DEF LettersInv
  <1>3. ASSUME NEW s \in Syncs, EndSync(s) PROVE LettersTyped' /\ LettersInv'
    <2>1. sync' = [sync EXCEPT ![s] = NoSync] /\ UNCHANGED <<arrived, copy, toggle, syncs, raced>>
      BY <1>3 DEF EndSync
    <2>2. \A r \in Syncs : IF r = s THEN sync'[r] = NoSync ELSE sync'[r] = sync[r]
      BY <1>0, <2>1 DEF LettersTyped
    <2>3. LettersTyped'
      BY <1>0, <2>1 DEF LettersTyped, NoSync
    <2>4. TodoHasArrived' /\ InsertedHasArrived'
      BY <1>0, <2>1, <2>2 DEF LettersInv, TodoHasArrived, InsertedHasArrived, NoSync
    <2>5. StoredHasArrived' /\ StoredOnce'
      BY <1>0, <2>1, <2>2, InboxAssumption DEF LettersInv, StoredHasArrived, StoredOnce, Stored, NoSync, InboxAssumption
    <2>. QED
      BY <2>3, <2>4, <2>5 DEF LettersInv
  <1>4. ASSUME NEW s \in Syncs, SyncStep(s) PROVE LettersTyped' /\ LettersInv'
    BY <1>0, <1>2, <1>3, <1>4, UpsertKept, LookForLetterKept, InsertKept DEF SyncStep
  <1>5. ASSUME NEW l \in Loads, UNCHANGED serverVars PROVE LettersTyped' /\ LettersInv'
    <2>1. \A m \in Arrivals, k \in CopyNumbers : Stored(m, k)' <=> Stored(m, k)
      BY <1>5 DEF serverVars, Stored
    <2>. QED
      BY <1>0, <1>5, <2>1, FlagsLeaveLetters DEF serverVars, LettersTyped
  <1>6. ASSUME NEW l \in Loads, PageStep(l) PROVE LettersTyped' /\ LettersInv'
    <2>1. CASE \E flag \in {"read", "archived", "deleted"} : FlagEmails(l, flag)
      BY <1>0, <2>1, FlagEmailsKept
    <2>2. CASE UNCHANGED serverVars
      BY <1>5, <2>2
    <2>. QED
      BY <1>6, <2>1, <2>2 DEF PageStep, OpenInbox, SendersCome, ThreadsCome, EmailsCome, LoadFails,
         SwitchSender, SendReply
  <1>7. ASSUME NEW t \in Toggles, NEW m \in Arrivals, NEW k \in CopyNumbers, ReadStar(t, m, k)
        PROVE  LettersTyped' /\ LettersInv'
    <2>1. UNCHANGED <<arrived, copy, sync, syncs, raced>>
          /\ toggle' = [toggle EXCEPT ![t] = [of |-> m, nr |-> k, saw |-> "starred" \in copy[m][k]]]
      BY <1>7 DEF ReadStar
    <2>2. LettersTyped'
      BY <1>0, <2>1 DEF LettersTyped
    <2>3. \A n \in Arrivals, j \in CopyNumbers : Stored(n, j)' <=> Stored(n, j)
      BY <2>1 DEF Stored
    <2>. QED
      BY <1>0, <2>1, <2>2, <2>3, FlagsLeaveLetters
  <1>8. ASSUME NEW t \in Toggles, WriteStar(t) PROVE LettersTyped' /\ LettersInv'
    BY <1>0, <1>8, WriteStarKept
  <1>. QED
    BY <1>1, <1>4, <1>6, <1>7, <1>8 DEF InboxNext

LEMMA InboxStep == InboxInv /\ [InboxNext]_inboxVars => InboxInv'
  <1>1. InboxInv /\ InboxNext => InboxInv'
    BY InboxPageKept, LettersKept DEF InboxInv, InboxTypeOK, PageTyped, LettersTyped
  <1>2. InboxInv /\ UNCHANGED inboxVars => InboxInv'
    BY DEF InboxInv, InboxTypeOK, inboxVars, ShownBelongsToSender, LettersInv, TodoHasArrived,
       InsertedHasArrived, StoredHasArrived, StoredOnce, Stored
  <1>. QED
    BY <1>1, <1>2

LEMMA InboxImplies == InboxInv => InboxTypeOK /\ StoredTwiceOnlyByRace /\ ReplyLeavesFromItsBox
  <1>. SUFFICES ASSUME InboxInv PROVE StoredTwiceOnlyByRace /\ ReplyLeavesFromItsBox
    BY DEF InboxInv
  <1>1. ASSUME NEW m \in Arrivals, m \notin raced
        PROVE  ~(Cardinality({k \in CopyNumbers : Stored(m, k)}) > 1)
    <2>. DEFINE K == {k \in CopyNumbers : Stored(m, k)}
    <2>1. CASE K = {}
      BY <2>1, FS_EmptySet
    <2>2. CASE K # {}
      <3>1. PICK j : j \in K
        BY <2>2
      <3>2. K = {j}
        BY <1>1, <3>1 DEF InboxInv, LettersInv, StoredOnce
      <3>3. Cardinality(K) = 1
        BY <3>2, FS_Singleton
      <3>. QED
        BY <3>3
    <2>. QED
      BY <2>1, <2>2
  <1>2. ReplyLeavesFromItsBox
    BY DEF InboxInv, ShownBelongsToSender, ReplyLeavesFromItsBox
  <1>. QED
    BY <1>1, <1>2 DEF StoredTwiceOnlyByRace

(***************************************************************************)
(* Templates and files.  A file somebody knows is on the disk, or was      *)
(* removed while a stored campaign held it.  A default template is in      *)
(* nobody's scope.                                                         *)
(***************************************************************************)
HeldWhenRemoved == {f \in Files : \E x \in removed : x.file = f /\ x.held}
Kept(F) == F \subseteq disk \cup HeldWhenRemoved

FilesAreThere ==
  /\ \A u \in Editors : Kept(known[u])
  /\ \A c \in Campaigns : Kept(withFiles[c].files)
  /\ missed \subseteq HeldWhenRemoved

Templates == [level : {"none", "own", "work"}, text : AnyText]
TemplateShelf == [Makers -> [TemplateNames -> Templates]]

TemplatesTyped ==
  /\ tmpl \in TemplateShelf /\ atWork \subseteq Editors
  /\ shown \in [Editors -> [TemplateIds -> AnyText]] /\ form \in [Editors -> SUBSET TemplateIds]
DraftTyped == draft \in [Editors -> [text : AnyText, pending : AnyText]] /\ asked \in 0 .. MaxRequests
FilesTyped ==
  /\ uploading \in [Editors -> SUBSET Files] /\ known \in [Editors -> SUBSET Files]
  /\ disk \subseteq Files
  /\ withFiles \in [Campaigns -> [step : {"none", "posted", "stored"}, files : SUBSET Files]]
  /\ removed \subseteq [file : Files, held : BOOLEAN]
  /\ missed \subseteq Files

MaterialInv == MaterialTypeOK /\ DefaultsKept /\ FilesAreThere

LEMMA MaterialTyped == MaterialTypeOK <=> TemplatesTyped /\ DraftTyped /\ FilesTyped
  BY DEF MaterialTypeOK, TemplatesTyped, DraftTyped, FilesTyped, TemplateShelf, Templates

LEMMA DefaultsTyped == Defaults \in [TemplateNames -> Templates] /\ NoTemplate \in Templates
                       /\ \A n \in TemplateNames : Defaults[n].level # "work"
  <1>1. (CHOOSE t \in Texts : TRUE) \in Texts
    BY MaterialAssumption DEF MaterialAssumption
  <1>. QED
    BY <1>1 DEF Defaults, Templates, AnyText, NoTemplate

LEMMA MaterialStarts == MaterialInit => MaterialInv
  <1>. SUFFICES ASSUME MaterialInit PROVE MaterialInv
    OBVIOUS
  <1>. USE MaterialAssumption DEF MaterialAssumption, MaterialInit
  <1>1. tmpl \in TemplateShelf
    BY DefaultsTyped DEF TemplateShelf, Makers
  <1>2. shown \in [Editors -> [TemplateIds -> AnyText]]
    BY DEF AnyText
  <1>3. draft \in [Editors -> [text : AnyText, pending : AnyText]]
    BY DEF EmptyDraft, AnyText
  <1>4. TemplatesTyped /\ DraftTyped
    BY <1>1, <1>2, <1>3 DEF TemplatesTyped, DraftTyped
  <1>5. FilesTyped
    BY DEF FilesTyped
  <1>6. DefaultsKept
    BY DEF DefaultsKept, Makers
  <1>7. FilesAreThere
    BY DEF FilesAreThere, Kept
  <1>. QED
    BY <1>4, <1>5, <1>6, <1>7, MaterialTyped DEF MaterialInv

(***************************************************************************)
(* Templates.                                                              *)
(***************************************************************************)
LEMMA ScopeLeavesDefaults ==
  ASSUME DefaultsKept, NEW u \in Editors, NEW r \in TemplateIds, MayEdit(u, r)
  PROVE  r[1] \in Editors
  <1>1. r[1] \in Makers /\ r[2] \in TemplateNames
    BY DEF TemplateIds
  <1>. QED
    BY <1>1, MaterialAssumption, DefaultsTyped DEF MayEdit, DefaultsKept, MaterialAssumption, Makers

\* A row of a user is written.
LEMMA ShelfWritten ==
  ASSUME TemplatesTyped, DefaultsKept, NEW m \in Editors, NEW n \in TemplateNames, NEW stored \in Templates,
         tmpl' = [tmpl EXCEPT ![m][n] = stored]
  PROVE  tmpl' \in TemplateShelf /\ DefaultsKept'
  <1>1. m # Nobody /\ m \in Makers /\ Nobody \in Makers
    BY MaterialAssumption DEF MaterialAssumption, Makers
  <1>2. tmpl' \in TemplateShelf
    BY <1>1 DEF TemplatesTyped, TemplateShelf
  <1>. QED
    BY <1>1, <1>2 DEF TemplatesTyped, TemplateShelf, DefaultsKept

LEMMA RewriteKept ==
  ASSUME TemplatesTyped, DefaultsKept, NEW r \in TemplateIds, r[1] \in Editors,
         NEW n \in TemplateNames, NEW t \in Texts, Rewrite(r, n, t)
  PROVE  tmpl' \in TemplateShelf /\ DefaultsKept'
  <1>. DEFINE m == r[1]
              k == r[2]
              stored == [tmpl[m][k] EXCEPT !.text = t]
  <1>1. k \in TemplateNames /\ m # Nobody /\ m \in Makers /\ Nobody \in Makers
    BY MaterialAssumption DEF MaterialAssumption, Makers, TemplateIds
  <1>2. tmpl[m][k] \in Templates
    BY <1>1 DEF TemplatesTyped, TemplateShelf
  <1>3. stored \in Templates
    BY <1>2 DEF Templates, AnyText
  <1>4. tmpl' = [tmpl EXCEPT ![m][k] = NoTemplate, ![m][n] = stored]
    BY DEF Rewrite
  <1>. HIDE DEF stored, m, k
  <1>5. tmpl' \in TemplateShelf
    BY <1>1, <1>3, <1>4, DefaultsTyped DEF TemplatesTyped, TemplateShelf, m
  <1>6. tmpl'[Nobody] = tmpl[Nobody]
    BY <1>1, <1>4 DEF TemplatesTyped, TemplateShelf
  <1>. QED
    BY <1>5, <1>6 DEF DefaultsKept

LEMMA TemplateSteps ==
  ASSUME TemplatesTyped, DraftTyped, DefaultsKept, NEW u \in Editors,
         \/ SwitchWorkspace(u) \/ LoadTemplates(u) \/ CreateTemplate(u)
         \/ CreateFollowUp(u) \/ ToolCreateTemplate(u) \/ ToolCreateFollowUp(u) \/ EditTemplate(u)
         \/ \E r \in TemplateIds : \/ UpdateTemplate(u, r) \/ UpdateFollowUp(u, r)
                                   \/ ToolUpdateTemplate(u, r) \/ ToolUpdateFollowUp(u, r)
                                   \/ DeleteTemplate(u, r) \/ DeleteFollowUp(u, r)
                                   \/ ToolDeleteTemplate(u, r) \/ ToolDeleteFollowUp(u, r)
  PROVE  TemplatesTyped' /\ DraftTyped' /\ DefaultsKept' /\ UNCHANGED fileVars
  <1>. DEFINE Goal == TemplatesTyped' /\ DraftTyped' /\ DefaultsKept' /\ UNCHANGED fileVars
  <1>1. Ask => asked' \in 0 .. MaxRequests
    BY MaterialAssumption DEF Ask, DraftTyped, MaterialAssumption
  <1>2. ASSUME UNCHANGED <<draft, fileVars>>, Ask \/ UNCHANGED asked,
               tmpl' \in TemplateShelf, DefaultsKept', atWork' \subseteq Editors,
               shown' \in [Editors -> [TemplateIds -> AnyText]], form' \in [Editors -> SUBSET TemplateIds]
        PROVE  Goal
    BY <1>1, <1>2 DEF TemplatesTyped, DraftTyped
  <1>3. CASE SwitchWorkspace(u)
    <2>1. atWork' \subseteq Editors
      BY <1>3 DEF SwitchWorkspace, TemplatesTyped
    <2>. QED
      BY <1>2, <1>3, <2>1 DEF SwitchWorkspace, TemplatesTyped, DefaultsKept
  <1>4. CASE LoadTemplates(u)
    <2>1. [q \in TemplateIds |-> IF q \in Offered(u) THEN tmpl[q[1]][q[2]].text ELSE NoText]
            \in [TemplateIds -> AnyText]
      <3>1. ASSUME NEW q \in TemplateIds PROVE tmpl[q[1]][q[2]].text \in AnyText
        BY DEF TemplateIds, TemplatesTyped, TemplateShelf, Templates
      <3>. QED
        BY <3>1 DEF AnyText
    <2>2. shown' \in [Editors -> [TemplateIds -> AnyText]]
      BY <1>4, <2>1 DEF LoadTemplates, TemplatesTyped
    <2>. QED
      BY <1>2, <1>4, <2>2 DEF LoadTemplates, TemplatesTyped, DefaultsKept
  <1>5. CASE CreateTemplate(u) \/ CreateFollowUp(u) \/ ToolCreateTemplate(u) \/ ToolCreateFollowUp(u)
    <2>1. PICK n \in TemplateNames : NewTemplate(u, n)
      BY <1>5 DEF CreateTemplate, CreateFollowUp, ToolCreateTemplate, ToolCreateFollowUp, TemplateNames
    <2>2. PICK t \in Texts : tmpl' = [tmpl EXCEPT ![u][n] = [level |-> Level(u), text |-> t]]
      BY <2>1 DEF NewTemplate
    <2>3. [level |-> Level(u), text |-> t] \in Templates
      BY DEF Level, Templates, AnyText
    <2>4. tmpl' \in TemplateShelf /\ DefaultsKept'
      BY <2>2, <2>3, ShelfWritten
    <2>. QED
      BY <1>2, <2>1, <2>4 DEF NewTemplate, TemplatesTyped
  <1>6. CASE EditTemplate(u)
    <2>1. form' \in [Editors -> SUBSET TemplateIds]
      BY <1>6 DEF EditTemplate, TemplatesTyped
    <2>. QED
      BY <1>2, <1>6, <2>1 DEF EditTemplate, TemplatesTyped, DefaultsKept
  <1>7. ASSUME NEW r \in TemplateIds, UpdateTemplate(u, r) PROVE Goal
    <2>1. r[1] \in Editors
      BY <1>7, ScopeLeavesDefaults DEF UpdateTemplate
    <2>2. tmpl' \in TemplateShelf /\ DefaultsKept'
      BY <1>7, <2>1, RewriteKept DEF UpdateTemplate, TemplateNames
    <2>3. form' \in [Editors -> SUBSET TemplateIds]
      BY <1>7 DEF UpdateTemplate, TemplatesTyped
    <2>. QED
      BY <1>2, <1>7, <2>2, <2>3 DEF UpdateTemplate, TemplatesTyped
  <1>8. ASSUME NEW r \in TemplateIds, UpdateFollowUp(u, r) PROVE Goal
    <2>1. r[1] \in Editors
      BY <1>8, ScopeLeavesDefaults DEF UpdateFollowUp
    <2>2. tmpl' \in TemplateShelf /\ DefaultsKept'
      BY <1>8, <2>1, RewriteKept DEF UpdateFollowUp, TemplateNames
    <2>. QED
      BY <1>2, <1>8, <2>2 DEF UpdateFollowUp, TemplatesTyped
  <1>9. ASSUME NEW r \in TemplateIds, NEW names \in {MailNames, FollowUpNames}, ToolUpdate(u, r, names) PROVE Goal
    <2>1. r[1] \in Editors /\ names \subseteq TemplateNames
      BY <1>9, ScopeLeavesDefaults DEF ToolUpdate, TemplateNames
    <2>2. tmpl' \in TemplateShelf /\ DefaultsKept'
      BY <1>9, <2>1, RewriteKept DEF ToolUpdate
    <2>. QED
      BY <1>2, <1>9, <2>2 DEF ToolUpdate, TemplatesTyped
  <1>10. ASSUME NEW r \in TemplateIds, DropTemplate(u, r) PROVE Goal
    <2>1. r[1] \in Editors /\ r[2] \in TemplateNames
      BY <1>10, ScopeLeavesDefaults DEF DropTemplate, TemplateIds
    <2>2. tmpl' \in TemplateShelf /\ DefaultsKept'
      BY <1>10, <2>1, ShelfWritten, DefaultsTyped DEF DropTemplate
    <2>. QED
      BY <1>2, <1>10, <2>2 DEF DropTemplate, TemplatesTyped
  <1>. QED
    BY <1>3, <1>4, <1>5, <1>6, <1>7, <1>8, <1>9, <1>10 DEF ToolUpdateTemplate, ToolUpdateFollowUp,
       DeleteTemplate, DeleteFollowUp, ToolDeleteTemplate, ToolDeleteFollowUp

\* The compose page.
LEMMA DraftSteps ==
  ASSUME TemplatesTyped, DraftTyped, NEW u \in Editors, TypeText(u) \/ SelectTemplate(u) \/ Decide(u)
  PROVE  DraftTyped' /\ UNCHANGED <<templateVars, fileVars>>
  <1>1. asked' \in 0 .. MaxRequests
    BY MaterialAssumption DEF Ask, DraftTyped, MaterialAssumption, TypeText, SelectTemplate, Decide
  <1>2. \E t, p \in AnyText : draft' = [draft EXCEPT ![u].text = t] \/ draft' = [draft EXCEPT ![u].pending = p]
                              \/ draft' = [draft EXCEPT ![u].text = t, ![u].pending = p]
    <2>1. CASE TypeText(u)
      BY <2>1 DEF TypeText, AnyText
    <2>2. CASE SelectTemplate(u)
      <3>1. PICK q \in TemplateIds : draft' = IF draft[u].text = NoText THEN [draft EXCEPT ![u].text = shown[u][q]]
                                                ELSE [draft EXCEPT ![u].pending = shown[u][q]]
        BY <2>2 DEF SelectTemplate
      <3>2. shown[u][q] \in AnyText
        BY DEF TemplatesTyped
      <3>. QED
        BY <3>1, <3>2
    <2>3. CASE Decide(u)
      BY <2>3 DEF Decide, DraftTyped, AnyText
    <2>. QED
      BY <2>1, <2>2, <2>3
  <1>3. draft' \in [Editors -> [text : AnyText, pending : AnyText]]
    BY <1>2 DEF DraftTyped
  <1>. QED
    BY <1>1, <1>3 DEF DraftTyped, TypeText, SelectTemplate, Decide

(***************************************************************************)
(* Files.                                                                  *)
(***************************************************************************)
LEMMA FileSteps ==
  ASSUME FilesTyped, DraftTyped, FilesAreThere,
         \/ \E u \in Editors : UploadFiles(u) \/ SaveToLocal(u)
         \/ \E u \in Editors, f \in Files : DeleteAttachment(u, f)
         \/ \E u \in Editors, c \in Campaigns : PostCampaign(u, c)
         \/ \E c \in Campaigns : StoreAttachments(c) \/ FetchAttachments(c)
  PROVE  FilesTyped' /\ DraftTyped' /\ FilesAreThere' /\ UNCHANGED templateVars
  <1>. DEFINE Goal == FilesTyped' /\ DraftTyped' /\ FilesAreThere' /\ UNCHANGED templateVars
  <1>1. DraftTyped' /\ UNCHANGED templateVars
    BY MaterialAssumption DEF Ask, DraftTyped, MaterialAssumption, UploadFiles, SaveToLocal, DeleteAttachment,
       PostCampaign, StoreAttachments, FetchAttachments
  <1>3. ASSUME NEW u \in Editors, UploadFiles(u) PROVE Goal
    <2>1. UNCHANGED <<known, disk, withFiles, removed, missed>>
          /\ \E F \in SUBSET Files : uploading' = [uploading EXCEPT ![u] = F]
      BY <1>3 DEF UploadFiles
    <2>2. FilesTyped'
      BY <2>1 DEF FilesTyped
    <2>3. FilesAreThere'
      BY <2>1 DEF FilesAreThere, Kept, HeldWhenRemoved
    <2>. QED
      BY <1>1, <2>2, <2>3
  <1>4. ASSUME NEW u \in Editors, SaveToLocal(u) PROVE Goal
    <2>1. PICK F \in SUBSET Files :
            /\ disk' = disk \cup F
            /\ known' = known \/ known' = [known EXCEPT ![u] = known[u] \cup F]
      BY <1>4 DEF SaveToLocal, FilesTyped
    <2>2. UNCHANGED <<withFiles, removed, missed>> /\ uploading' = [uploading EXCEPT ![u] = {}]
      BY <1>4 DEF SaveToLocal
    <2>3. FilesTyped'
      BY <2>1, <2>2 DEF FilesTyped
    <2>4. HeldWhenRemoved' = HeldWhenRemoved
      BY <2>2 DEF HeldWhenRemoved
    <2>5. \A v \in Editors : known'[v] \subseteq known[v] \cup F
      BY <2>1 DEF FilesTyped
    <2>6. FilesAreThere'
      BY <2>1, <2>2, <2>4, <2>5 DEF FilesAreThere, Kept
    <2>. QED
      BY <1>1, <2>3, <2>6
  <1>5. ASSUME NEW u \in Editors, NEW f \in Files, DeleteAttachment(u, f) PROVE Goal
    <2>1. UNCHANGED <<uploading, known, withFiles, missed>>
      BY <1>5 DEF DeleteAttachment
    <2>2. CASE UNCHANGED <<disk, removed>>
      BY <1>1, <2>1, <2>2 DEF FilesTyped, FilesAreThere, Kept, HeldWhenRemoved
    <2>3. CASE disk' = disk \ {f} /\ removed' = removed \cup {[file |-> f, held |-> TRUE]}
      <3>. DEFINE x == [file |-> f, held |-> TRUE]
      <3>0. x.file = f /\ x.held /\ x \in removed' /\ removed \subseteq removed'
            /\ x \in [file : Files, held : BOOLEAN]
        BY <2>3
      <3>. HIDE DEF x
      <3>1. HeldWhenRemoved \cup {f} \subseteq HeldWhenRemoved'
        BY <3>0 DEF HeldWhenRemoved
      <3>2. FilesAreThere'
        BY <2>1, <2>3, <3>1 DEF FilesAreThere, Kept
      <3>3. FilesTyped'
        BY <2>1, <2>3, <3>0 DEF FilesTyped, x
      <3>. QED
        BY <1>1, <3>2, <3>3
    <2>. QED
      BY <1>5, <2>2, <2>3 DEF DeleteAttachment, FoundAttachment
  <1>6. ASSUME NEW u \in Editors, NEW c \in Campaigns, PostCampaign(u, c) PROVE Goal
    <2>1. PICK F \in SUBSET known[u] : withFiles' = [withFiles EXCEPT ![c] = [step |-> "posted", files |-> F]]
      BY <1>6 DEF PostCampaign
    <2>2. UNCHANGED <<uploading, known, disk, removed, missed>>
      BY <1>6 DEF PostCampaign
    <2>3. F \in SUBSET Files /\ Kept(F)
      BY DEF FilesTyped, FilesAreThere, Kept
    <2>4. FilesTyped'
      BY <2>1, <2>2, <2>3 DEF FilesTyped
    <2>5. \A d \in Campaigns : withFiles'[d].files = IF d = c THEN F ELSE withFiles[d].files
      BY <2>1 DEF FilesTyped
    <2>6. FilesAreThere'
      BY <2>2, <2>3, <2>5 DEF FilesAreThere, Kept, HeldWhenRemoved
    <2>. QED
      BY <1>1, <2>4, <2>6
  <1>7. ASSUME NEW c \in Campaigns, StoreAttachments(c) PROVE Goal
    <2>1. UNCHANGED <<uploading, known, disk, removed, missed>>
      BY <1>7 DEF StoreAttachments
    <2>2. PICK new \in {[withFiles[c] EXCEPT !.step = "stored"], [step |-> "none", files |-> {}]} :
            withFiles' = [withFiles EXCEPT ![c] = new]
      BY <1>7 DEF StoreAttachments
    <2>3. new \in [step : {"none", "posted", "stored"}, files : SUBSET Files]
          /\ new.files \subseteq withFiles[c].files
      BY DEF FilesTyped
    <2>4. FilesTyped'
      BY <2>1, <2>2, <2>3 DEF FilesTyped
    <2>5. \A d \in Campaigns : withFiles'[d].files \subseteq withFiles[d].files
      BY <2>2, <2>3 DEF FilesTyped
    <2>6. FilesAreThere'
      BY <2>1, <2>5 DEF FilesAreThere, Kept, HeldWhenRemoved
    <2>. QED
      BY <1>1, <2>4, <2>6
  <1>8. ASSUME NEW c \in Campaigns, FetchAttachments(c) PROVE Goal
    <2>1. UNCHANGED <<uploading, known, disk, withFiles, removed>>
          /\ missed' = missed \cup (withFiles[c].files \ disk)
      BY <1>8 DEF FetchAttachments
    <2>2. withFiles[c].files \subseteq Files /\ Kept(withFiles[c].files)
      BY DEF FilesTyped, FilesAreThere
    <2>. QED
      BY <1>1, <2>1, <2>2 DEF FilesTyped, FilesAreThere, Kept, HeldWhenRemoved
  <1>. QED
    BY <1>3, <1>4, <1>5, <1>6, <1>7, <1>8

LEMMA MaterialStep == MaterialInv /\ [MaterialNext]_materialVars => MaterialInv'
  <1>. SUFFICES ASSUME MaterialInv, MaterialNext \/ UNCHANGED materialVars PROVE MaterialInv'
    OBVIOUS
  <1>0. TemplatesTyped /\ DraftTyped /\ FilesTyped /\ DefaultsKept /\ FilesAreThere
    BY MaterialTyped DEF MaterialInv
  <1>. DEFINE Goal == TemplatesTyped' /\ DraftTyped' /\ FilesTyped' /\ DefaultsKept' /\ FilesAreThere'
  <1>1. ASSUME UNCHANGED fileVars PROVE FilesTyped' /\ FilesAreThere'
    BY <1>0, <1>1 DEF fileVars, FilesTyped, FilesAreThere, Kept, HeldWhenRemoved
  <1>2. ASSUME UNCHANGED templateVars PROVE TemplatesTyped' /\ DefaultsKept'
    BY <1>0, <1>2 DEF templateVars, TemplatesTyped, DefaultsKept
  <1>3. ASSUME NEW u \in Editors,
               \/ SwitchWorkspace(u) \/ LoadTemplates(u) \/ CreateTemplate(u)
               \/ CreateFollowUp(u) \/ ToolCreateTemplate(u) \/ ToolCreateFollowUp(u) \/ EditTemplate(u)
               \/ \E r \in TemplateIds : \/ UpdateTemplate(u, r) \/ UpdateFollowUp(u, r)
                                         \/ ToolUpdateTemplate(u, r) \/ ToolUpdateFollowUp(u, r)
                                         \/ DeleteTemplate(u, r) \/ DeleteFollowUp(u, r)
                                         \/ ToolDeleteTemplate(u, r) \/ ToolDeleteFollowUp(u, r)
        PROVE  Goal
    BY <1>0, <1>1, <1>3, TemplateSteps
  <1>4. ASSUME NEW u \in Editors, TypeText(u) \/ SelectTemplate(u) \/ Decide(u) PROVE Goal
    BY <1>0, <1>1, <1>2, <1>4, DraftSteps
  <1>5. ASSUME \/ \E u \in Editors : UploadFiles(u) \/ SaveToLocal(u)
               \/ \E u \in Editors, f \in Files : DeleteAttachment(u, f)
               \/ \E u \in Editors, c \in Campaigns : PostCampaign(u, c)
               \/ \E c \in Campaigns : StoreAttachments(c) \/ FetchAttachments(c)
        PROVE  Goal
    BY <1>0, <1>2, <1>5, FileSteps
  <1>6. ASSUME UNCHANGED materialVars PROVE Goal
    <2>1. UNCHANGED templateVars /\ UNCHANGED fileVars /\ UNCHANGED <<draft, asked>>
      BY <1>6 DEF materialVars
    <2>. QED
      <3>1. DraftTyped'
        BY <1>0, <2>1 DEF DraftTyped
      <3>2. FilesTyped' /\ FilesAreThere'
        BY <1>1, <2>1
      <3>3. TemplatesTyped' /\ DefaultsKept'
        BY <1>2, <2>1
      <3>. QED
        BY <3>1, <3>2, <3>3
  <1>. QED
    <2>. HIDE DEF Goal
    <2>1. ASSUME MaterialNext PROVE Goal
      <3>1. ASSUME NEW u \in Editors,
                   \/ SwitchWorkspace(u) \/ LoadTemplates(u) \/ CreateTemplate(u) \/ CreateFollowUp(u)
                   \/ ToolCreateTemplate(u) \/ ToolCreateFollowUp(u) \/ EditTemplate(u)
            PROVE  Goal
        BY <1>3, <3>1
      <3>2. ASSUME NEW u \in Editors, NEW r \in TemplateIds,
                   \/ UpdateTemplate(u, r) \/ UpdateFollowUp(u, r)
                   \/ ToolUpdateTemplate(u, r) \/ ToolUpdateFollowUp(u, r)
                   \/ DeleteTemplate(u, r) \/ DeleteFollowUp(u, r)
                   \/ ToolDeleteTemplate(u, r) \/ ToolDeleteFollowUp(u, r)
            PROVE  Goal
        BY <1>3, <3>2
      <3>. QED
        BY <1>4, <1>5, <2>1, <3>1, <3>2 DEF MaterialNext
    <2>2. Goal
      <3>1. CASE MaterialNext
        BY <2>1, <3>1
      <3>2. CASE UNCHANGED materialVars
        BY <1>6, <3>2
      <3>. QED
        BY <3>1, <3>2
    <2>3. MaterialTypeOK'
      BY <2>2 DEF Goal, MaterialTypeOK, TemplatesTyped, DraftTyped, FilesTyped, TemplateShelf, Templates
    <2>. QED
      BY <2>3, <2>2 DEF MaterialInv, Goal

LEMMA MaterialImplies == MaterialInv => MaterialTypeOK /\ MaterialSound
  BY DEF MaterialInv, FilesAreThere, HeldWhenRemoved, MaterialSound, FilesLostOnlyIfHeld

(***************************************************************************)
(* The compose page.  A draft's routes lead where its user wanted, as long *)
(* as no step was moved after routes had been chosen, and so do those of   *)
(* what was saved, submitted and answered; a step without rules has no     *)
(* routes, and without routes the graph is a line, which the server takes. *)
(***************************************************************************)

IdsDiffer(s) == \A i, j \in DOMAIN s : s[i].id = s[j].id => i = j

RulesRight(s) ==
  \A i \in DOMAIN s : s[i].rules = "absent" => s[i].match = 0 /\ s[i].noMatch = 0

MatchRight(s, i) ==
  IF s[i].want = NoStep THEN s[i].match \in {0, NextPosition(s, i)}
  ELSE s[i].match \in DOMAIN s /\ s[s[i].match].id = s[i].want

NoMatchRight(s, i) ==
  IF s[i].wantElse = NoStep THEN s[i].noMatch = 0
  ELSE s[i].noMatch \in DOMAIN s /\ s[s[i].noMatch].id = s[i].wantElse

RoutesRight(s) == \A i \in DOMAIN s : MatchRight(s, i) /\ NoMatchRight(s, i)

GoodDraft(s, moved) ==
  /\ s \in Seq(Steps) /\ Len(s) <= MaxDraftSteps
  /\ IdsDiffer(s) /\ RulesRight(s)
  /\ ~moved => RoutesRight(s)

Answers == {"none", "asked", "created", "refused"}

GoodBody(b) ==
  /\ b \in [nodes: Seq(Steps), shifted: BOOLEAN, answer: Answers]
  /\ GoodDraft(b.nodes, b.shifted)

ColumnsKept ==
  /\ columns \subseteq Uploads /\ to \subseteq Uploads /\ parsedTogether \subseteq Uploads
  /\ parses \in [Uploads -> {"none", "parsing", "done"}] /\ picked \in [Uploads -> SUBSET Uploads]
  /\ to \subseteq columns \cup parsedTogether
  /\ \A u \in Parsing : /\ columns \subseteq picked[u] \cup parsedTogether
                        /\ picked[u] \subseteq columns \cup parsedTogether
  /\ \A u, v \in Parsing : u # v => u \in parsedTogether

ComposerInv ==
  /\ GoodDraft(draftSteps, shifted)
  /\ mode \in {"simple", "advanced"} /\ view \in {"open", "crashed", "away"}
  /\ shifted \in BOOLEAN /\ fetching \in BOOLEAN /\ changes \in 0..MaxChanges
  /\ GoodBody(saved) /\ GoodBody(submitted) /\ GoodBody(last)
  /\ last.answer = "refused" => ~Accepts(last.nodes)
  /\ ColumnsKept

LEMMA DraftDomain == \A s \in Seq(Steps) : DOMAIN s = 1..Len(s) /\ Len(s) \in Nat
                                           /\ \A i \in DOMAIN s : s[i] \in Steps
  BY LenProperties, ElementOfSeq

LEMMA EmptyIsGood == GoodDraft(<<>>, FALSE) /\ GoodBody(NoPost)
  <1>1. <<>> \in Seq(Steps) /\ Len(<<>>) = 0 /\ DOMAIN <<>> = {}
    BY EmptySeq
  <1>2. GoodDraft(<<>>, FALSE)
    BY <1>1, ComposerAssumption
    DEF ComposerAssumption, GoodDraft, IdsDiffer, RulesRight, RoutesRight
  <1>. QED
    BY <1>1, <1>2 DEF GoodBody, NoPost, Answers

LEMMA ComposerStarts == ComposerInit => ComposerInv
  <1>. SUFFICES ASSUME ComposerInit PROVE ComposerInv
    OBVIOUS
  <1>1. ColumnsKept
    BY DEF ComposerInit, ColumnsKept, Parsing
  <1>2. last.answer # "refused"
    BY DEF ComposerInit, NoPost
  <1>3. GoodDraft(draftSteps, shifted) /\ GoodBody(saved) /\ GoodBody(submitted) /\ GoodBody(last)
    BY EmptyIsGood DEF ComposerInit
  <1>4. /\ mode \in {"simple", "advanced"} /\ view \in {"open", "crashed", "away"}
        /\ shifted \in BOOLEAN /\ fetching \in BOOLEAN /\ changes \in 0..MaxChanges
    <2>1. MaxChanges \in Nat
      BY ComposerAssumption DEF ComposerAssumption
    <2>2. changes = 0 /\ mode = "simple" /\ view = "open" /\ shifted = FALSE /\ fetching = FALSE
      BY DEF ComposerInit
    <2>3. changes \in 0..MaxChanges
      BY <2>1, <2>2
    <2>. QED
      BY <2>2, <2>3
  <1>. QED
    BY <1>1, <1>2, <1>3, <1>4 DEF ComposerInv

-----------------------------------------------------------------------------
\* r is s without its step at i, or with the step e put in at i.
IsWithout(r, s, i) ==
  /\ r \in Seq(Steps) /\ Len(r) = Len(s) - 1
  /\ \A k \in 1..(Len(s) - 1) : r[k] = s[IF k < i THEN k ELSE k + 1]

IsWith(r, s, i, e) ==
  /\ r \in Seq(Steps) /\ Len(r) = Len(s) + 1
  /\ \A k \in 1..(Len(s) + 1) : r[k] = IF k < i THEN s[k] ELSE IF k = i THEN e ELSE s[k - 1]

LEMMA RemovedStep ==
  ASSUME NEW s \in Seq(Steps), NEW i \in DOMAIN s
  PROVE  IsWithout(SeqExt!RemoveAt(s, i), s, i)
  <1>1. DOMAIN s = 1..Len(s) /\ Len(s) \in Nat /\ (\A k \in 1..Len(s) : s[k] \in Steps) /\ i \in Int
    BY DraftDomain
  <1>. DEFINE a == SubSeq(s, 1, i - 1)
              b == SubSeq(s, i + 1, Len(s))
  <1>2. /\ a \in Seq(Steps) /\ Len(a) = i - 1
        /\ \A k \in 1..(i - 1) : a[k] = s[k]
    <2>1. \A k \in 1..(i - 1) : s[k] \in Steps
      BY <1>1
    <2>2. /\ a \in Seq(Steps)
          /\ Len(a) = IF 1 <= i - 1 THEN (i - 1) - 1 + 1 ELSE 0
          /\ \A k \in 1..((i - 1) - 1 + 1) : a[k] = s[1 + k - 1]
      BY <1>1, <2>1, SubSeqProperties
    <2>. QED
      BY <1>1, <2>2
  <1>3. /\ b \in Seq(Steps) /\ Len(b) = Len(s) - i
        /\ \A k \in 1..(Len(s) - i) : b[k] = s[i + k]
    <2>1. \A k \in (i + 1)..Len(s) : s[k] \in Steps
      BY <1>1
    <2>2. /\ b \in Seq(Steps)
          /\ Len(b) = IF i + 1 <= Len(s) THEN Len(s) - (i + 1) + 1 ELSE 0
          /\ \A k \in 1..(Len(s) - (i + 1) + 1) : b[k] = s[(i + 1) + k - 1]
      BY <1>1, <2>1, SubSeqProperties
    <2>. HIDE DEF b
    <2>3. Len(b) = Len(s) - i
      BY <1>1, <2>2
    <2>4. ASSUME NEW k \in 1..(Len(s) - i) PROVE b[k] = s[i + k]
      <3>1. k \in 1..(Len(s) - (i + 1) + 1) /\ (i + 1) + k - 1 = i + k
        BY <1>1
      <3>. QED
        BY <2>2, <3>1
    <2>. QED
      BY <2>2, <2>3, <2>4
  <1>4. SeqExt!RemoveAt(s, i) = a \o b
    BY DEF SeqExt!RemoveAt
  <1>. HIDE DEF a, b
  <1>5. /\ a \o b \in Seq(Steps) /\ Len(a \o b) = Len(a) + Len(b)
        /\ \A k \in 1..(Len(a) + Len(b)) :
             (a \o b)[k] = IF k <= Len(a) THEN a[k] ELSE b[k - Len(a)]
    BY <1>2, <1>3, ConcatProperties
  <1>6. ASSUME NEW k \in 1..(Len(s) - 1)
        PROVE  (a \o b)[k] = s[IF k < i THEN k ELSE k + 1]
    <2>1. CASE k < i
      BY <1>1, <1>2, <1>3, <1>5, <1>6, <2>1
    <2>2. CASE ~(k < i)
      <3>1. k \in 1..(Len(a) + Len(b)) /\ ~(k <= Len(a))
        BY <1>1, <1>2, <1>3, <2>2
      <3>2. (a \o b)[k] = b[k - Len(a)]
        BY <1>5, <3>1
      <3>3. k - Len(a) \in 1..(Len(s) - i) /\ i + (k - Len(a)) = k + 1
        BY <1>1, <1>2, <1>3, <2>2
      <3>4. b[k - Len(a)] = s[i + (k - Len(a))]
        BY <1>3, <3>3
      <3>. QED
        BY <2>2, <3>2, <3>3, <3>4
    <2>. QED
      BY <2>1, <2>2
  <1>7. a \o b \in Seq(Steps) /\ Len(a \o b) = Len(s) - 1
    BY <1>1, <1>2, <1>3, <1>5
  <1>8. IsWithout(a \o b, s, i)
    BY <1>6, <1>7 DEF IsWithout
  <1>. QED
    BY <1>4, <1>8

LEMMA InsertedStep ==
  ASSUME NEW s \in Seq(Steps), NEW i \in 1..(Len(s) + 1), NEW e \in Steps
  PROVE  IsWith(SeqExt!InsertAt(s, i, e), s, i, e)
  <1>1. DOMAIN s = 1..Len(s) /\ Len(s) \in Nat /\ (\A k \in 1..Len(s) : s[k] \in Steps) /\ i \in Int
    BY DraftDomain
  <1>. DEFINE a == SubSeq(s, 1, i - 1)
              b == SubSeq(s, i, Len(s))
              o == <<e>>
  <1>2. /\ a \in Seq(Steps) /\ Len(a) = i - 1
        /\ \A k \in 1..(i - 1) : a[k] = s[k]
    <2>1. \A k \in 1..(i - 1) : s[k] \in Steps
      BY <1>1
    <2>2. /\ a \in Seq(Steps)
          /\ Len(a) = IF 1 <= i - 1 THEN (i - 1) - 1 + 1 ELSE 0
          /\ \A k \in 1..((i - 1) - 1 + 1) : a[k] = s[1 + k - 1]
      BY <1>1, <2>1, SubSeqProperties
    <2>. QED
      BY <1>1, <2>2
  <1>3. /\ b \in Seq(Steps) /\ Len(b) = Len(s) - i + 1
        /\ \A k \in 1..(Len(s) - i + 1) : b[k] = s[i + k - 1]
    <2>1. \A k \in i..Len(s) : s[k] \in Steps
      BY <1>1
    <2>2. /\ b \in Seq(Steps)
          /\ Len(b) = IF i <= Len(s) THEN Len(s) - i + 1 ELSE 0
          /\ \A k \in 1..(Len(s) - i + 1) : b[k] = s[i + k - 1]
      BY <1>1, <2>1, SubSeqProperties
    <2>. QED
      BY <1>1, <2>2
  <1>4. o \in Seq(Steps) /\ Len(o) = 1 /\ o[1] = e
    OBVIOUS
  <1>5. SeqExt!InsertAt(s, i, e) = a \o o \o b
    BY DEF SeqExt!InsertAt
  <1>. HIDE DEF a, b, o
  <1>6. /\ a \o o \in Seq(Steps) /\ Len(a \o o) = Len(a) + Len(o)
        /\ \A k \in 1..(Len(a) + Len(o)) :
             (a \o o)[k] = IF k <= Len(a) THEN a[k] ELSE o[k - Len(a)]
    BY <1>2, <1>4, ConcatProperties
  <1>. DEFINE c == a \o o
  <1>7. /\ c \in Seq(Steps) /\ Len(c) = i
        /\ \A k \in 1..i : c[k] = IF k < i THEN s[k] ELSE e
    BY <1>1, <1>2, <1>4, <1>6
  <1>8. SeqExt!InsertAt(s, i, e) = c \o b
    BY <1>5
  <1>. HIDE DEF c
  <1>9. /\ c \o b \in Seq(Steps) /\ Len(c \o b) = Len(c) + Len(b)
        /\ \A k \in 1..(Len(c) + Len(b)) :
             (c \o b)[k] = IF k <= Len(c) THEN c[k] ELSE b[k - Len(c)]
    BY <1>3, <1>7, ConcatProperties
  <1>10. ASSUME NEW k \in 1..(Len(s) + 1)
         PROVE  (c \o b)[k] = IF k < i THEN s[k] ELSE IF k = i THEN e ELSE s[k - 1]
    BY <1>1, <1>3, <1>7, <1>9, <1>10
  <1>11. c \o b \in Seq(Steps) /\ Len(c \o b) = Len(s) + 1
    BY <1>1, <1>3, <1>7, <1>9
  <1>12. IsWith(c \o b, s, i, e)
    BY <1>10, <1>11 DEF IsWith
  <1>. QED
    BY <1>8, <1>12

\* A rearranged draft: every step is one of the old ones under an id of its own.
Like(new, old) ==
  /\ new.rules = old.rules /\ new.match = old.match /\ new.noMatch = old.noMatch
  /\ new.want = old.want /\ new.wantElse = old.wantElse

LEMMA RearrangedGood ==
  ASSUME NEW s, NEW moved \in BOOLEAN, GoodDraft(s, moved),
         NEW r \in Seq(Steps), Len(r) <= MaxDraftSteps, IdsDiffer(r),
         \A k \in DOMAIN r : \E i \in DOMAIN s : Like(r[k], s[i])
  PROVE  GoodDraft(r, moved \/ Routed(s))
  <1>1. s \in Seq(Steps) /\ RulesRight(s)
    BY DEF GoodDraft
  <1>2. RulesRight(r)
    BY <1>1 DEF RulesRight, Like
  <1>3. ASSUME ~(moved \/ Routed(s)) PROVE RoutesRight(r)
    <2>1. RoutesRight(s) /\ \A i \in DOMAIN s : s[i].match = 0 /\ s[i].noMatch = 0
      BY <1>3 DEF GoodDraft, Routed
    <2>2. 0 \notin DOMAIN s
      BY <1>1, DraftDomain
    <2>3. \A i \in DOMAIN s : s[i].want = NoStep /\ s[i].wantElse = NoStep
      BY <2>1, <2>2 DEF RoutesRight, MatchRight, NoMatchRight
    <2>4. \A k \in DOMAIN r : r[k].match = 0 /\ r[k].noMatch = 0 /\ r[k].want = NoStep
                              /\ r[k].wantElse = NoStep
      BY <2>1, <2>3 DEF Like
    <2>. QED
      BY <2>4 DEF RoutesRight, MatchRight, NoMatchRight
  <1>. QED
    BY <1>2, <1>3 DEF GoodDraft

LEMMA FilledGood ==
  ASSUME NEW s, NEW moved, GoodDraft(s, moved)
  PROVE  GoodDraft(Filled(s), moved)
  <1>1. s \in Seq(Steps) /\ DOMAIN s = 1..Len(s) /\ Len(s) \in Nat /\ \A i \in DOMAIN s : s[i] \in Steps
    BY DraftDomain DEF GoodDraft
  <1>. DEFINE r == Filled(s)
  <1>2. DOMAIN r = 1..Len(s) /\ \A i \in 1..Len(s) : r[i] = [s[i] EXCEPT !.filled = TRUE]
    BY <1>1 DEF Filled
  <1>3. \A i \in 1..Len(s) : r[i] \in Steps /\ Like(r[i], s[i]) /\ r[i].id = s[i].id
    <2>. SUFFICES ASSUME NEW i \in 1..Len(s)
                  PROVE  r[i] \in Steps /\ Like(r[i], s[i]) /\ r[i].id = s[i].id
      OBVIOUS
    <2>. DEFINE x == s[i]
    <2>1. x \in Steps /\ r[i] = [x EXCEPT !.filled = TRUE]
      BY <1>1, <1>2
    <2>. HIDE DEF x, r
    <2>2. r[i] \in Steps /\ Like(r[i], x) /\ r[i].id = x.id
      BY <2>1 DEF Steps, Like
    <2>. QED
      BY <2>2 DEF x
  <1>4. r \in Seq(Steps) /\ Len(r) = Len(s)
    <2>1. r \in [1..Len(s) -> Steps]
      BY <1>1, <1>3 DEF Filled
    <2>. QED
      BY <1>1, <2>1, SeqDef
  <1>. HIDE DEF r
  <1>5. IdsDiffer(r) /\ RulesRight(r)
    BY <1>1, <1>2, <1>3 DEF GoodDraft, IdsDiffer, RulesRight, Like
  <1>6. ASSUME ~moved PROVE RoutesRight(r)
    BY <1>1, <1>2, <1>3, <1>4, <1>6
    DEF GoodDraft, RoutesRight, MatchRight, NoMatchRight, NextPosition, Like
  <1>. QED
    BY <1>4, <1>5, <1>6 DEF GoodDraft, r

\* One step is edited in place.
LEMMA EditedGood ==
  ASSUME NEW s, NEW moved, GoodDraft(s, moved), NEW i \in DOMAIN s, NEW e \in Steps,
         e.id = s[i].id, e.rules = "absent" => e.match = 0 /\ e.noMatch = 0,
         ~moved => /\ IF e.want = NoStep THEN e.match \in {0, NextPosition(s, i)}
                      ELSE e.match \in DOMAIN s /\ s[e.match].id = e.want
                   /\ IF e.wantElse = NoStep THEN e.noMatch = 0
                      ELSE e.noMatch \in DOMAIN s /\ s[e.noMatch].id = e.wantElse
  PROVE  GoodDraft([s EXCEPT ![i] = e], moved)
  <1>1. s \in Seq(Steps) /\ DOMAIN s = 1..Len(s) /\ Len(s) \in Nat /\ \A k \in DOMAIN s : s[k] \in Steps
    BY DraftDomain DEF GoodDraft
  <1>. DEFINE r == [s EXCEPT ![i] = e]
  <1>2. r \in Seq(Steps) /\ Len(r) = Len(s) /\ \A k \in 1..Len(s) : r[k] = IF k = i THEN e ELSE s[k]
    BY <1>1, ExceptSeq
  <1>3. DOMAIN r = 1..Len(s)
    BY <1>1
  <1>. HIDE DEF r
  <1>4. \A k \in 1..Len(s) : r[k].id = s[k].id
    BY <1>1, <1>2
  <1>5. IdsDiffer(r)
    BY <1>1, <1>3, <1>4 DEF GoodDraft, IdsDiffer
  <1>6. RulesRight(r)
    BY <1>1, <1>2, <1>3 DEF GoodDraft, RulesRight
  <1>7. ASSUME ~moved, NEW k \in DOMAIN r PROVE MatchRight(r, k) /\ NoMatchRight(r, k)
    <2>1. MatchRight(s, k) /\ NoMatchRight(s, k) /\ NextPosition(r, k) = NextPosition(s, k)
      BY <1>1, <1>2, <1>3, <1>7 DEF GoodDraft, RoutesRight, NextPosition
    <2>2. CASE k = i
      BY <1>1, <1>2, <1>3, <1>4, <1>7, <2>1, <2>2 DEF MatchRight, NoMatchRight
    <2>3. CASE k # i
      BY <1>1, <1>2, <1>3, <1>4, <1>7, <2>1, <2>3 DEF MatchRight, NoMatchRight
    <2>. QED
      BY <2>2, <2>3
  <1>. QED
    BY <1>2, <1>5, <1>6, <1>7 DEF GoodDraft, RoutesRight, r

LEMMA Largest ==
  ASSUME NEW n \in Nat, NEW ts \in SUBSET (1..n), ts # {}
  PROVE  \E t \in ts : \A u \in ts : u <= t
  <1>. DEFINE R == {ss \in Nat \X Nat : ss[1] < ss[2]}
              below == {n - t : t \in ts}
  <1>1. IsWellFoundedOn(R, Nat)
    BY NatLessThanWellFounded DEF OpToRel
  <1>2. \A a, b \in Nat : a < b => <<a, b>> \in R
    OBVIOUS
  <1>. HIDE DEF R
  <1>3. below \subseteq Nat /\ below # {}
    <2>1. \A t \in ts : t \in Int /\ t <= n /\ n - t \in Nat
      OBVIOUS
    <2>2. PICK t \in ts : TRUE
      OBVIOUS
    <2>3. n - t \in below
      BY <2>2
    <2>. QED
      BY <2>1, <2>3
  <1>4. PICK b \in below : \A c \in below : ~(<<c, b>> \in R)
    BY <1>1, <1>3, WFMin
  <1>5. PICK t \in ts : b = n - t
    BY <1>4
  <1>6. ASSUME NEW u \in ts PROVE u <= t
    <2>1. n - u \in below /\ n - u \in Nat /\ b \in Nat
      BY <1>3, <1>4
    <2>2. ~(n - u < b)
      BY <1>2, <1>4, <2>1
    <2>. QED
      BY <1>5, <2>2
  <1>. QED
    BY <1>6

\* A written sequence without rules is a graph the server accepts.
LEMMA PlainAccepted ==
  ASSUME NEW s \in Seq(Steps), RulesRight(s),
         \A i \in DOMAIN s : s[i].filled /\ s[i].rules = "absent"
  PROVE  Accepts(s)
  <1>1. DOMAIN s = 1..Len(s) /\ Len(s) \in Nat
    BY DraftDomain
  <1>2. \A i \in 1..Len(s) : s[i].match = 0 /\ s[i].noMatch = 0
    BY <1>1 DEF RulesRight
  <1>3. \A i \in 1..Len(s) : Targets(s, i) = {NextPosition(s, i)} \ {0}
    BY <1>2 DEF Targets, Matched
  <1>4. \A i \in 1..Len(s) : \A j \in Targets(s, i) : j = i + 1 /\ j \in 1..Len(s)
    BY <1>1, <1>3 DEF NextPosition
  <1>5. \A i \in 1..Len(s) : i + 1 \in 1..Len(s) => i + 1 \in Targets(s, i)
    BY <1>1, <1>3 DEF NextPosition
  <1>6. \A i \in DOMAIN s : RuleOf(s[i]) # "empty" /\ Targets(s, i) \subseteq DOMAIN s
    BY <1>1, <1>4 DEF RuleOf
  <1>7. \A i \in DOMAIN s \ {1} : \E j \in DOMAIN s : i \in Targets(s, j)
    <2>. SUFFICES ASSUME NEW i \in DOMAIN s \ {1} PROVE \E j \in DOMAIN s : i \in Targets(s, j)
      OBVIOUS
    <2>1. i - 1 \in 1..Len(s) /\ (i - 1) + 1 = i /\ i \in 1..Len(s)
      BY <1>1
    <2>. QED
      BY <1>1, <1>5, <2>1
  <1>8. ASSUME NEW circle \in (SUBSET Led(s)) \ {{}}, \A i \in circle : Targets(s, i) \cap circle # {}
        PROVE  FALSE
    <2>1. circle \in SUBSET (1..Len(s)) /\ circle # {}
      BY <1>1, <1>8 DEF Led
    <2>2. PICK t \in circle : \A u \in circle : u <= t
      BY <1>1, <2>1, Largest
    <2>3. PICK j \in Targets(s, t) : j \in circle
      BY <1>8, <2>2
    <2>4. j = t + 1 /\ j <= t /\ t \in Int
      BY <1>1, <1>4, <2>1, <2>2, <2>3
    <2>. QED
      BY <2>4
  <1>. QED
    BY <1>6, <1>7, <1>8 DEF Accepts, AcceptsGraph

-----------------------------------------------------------------------------
LEMMA StepTyped ==
  ASSUME NEW e \in Steps
  PROVE  /\ e.id \in StepIds /\ e.filled \in BOOLEAN /\ e.type \in Types /\ e.rules \in Rules
         /\ e.match \in 0..MaxDraftSteps /\ e.noMatch \in 0..MaxDraftSteps
         /\ e.want \in StepIds \cup {NoStep} /\ e.wantElse \in StepIds \cup {NoStep}
  BY DEF Steps

\* What the actions of the builder leave of the rest of the invariant.
Elsewhere ==
  /\ mode \in {"simple", "advanced"} /\ view \in {"open", "crashed", "away"}
  /\ fetching \in BOOLEAN /\ changes \in 0..MaxChanges
  /\ GoodBody(saved) /\ GoodBody(submitted) /\ GoodBody(last)
  /\ last.answer = "refused" => ~Accepts(last.nodes)
  /\ ColumnsKept

LEMMA DraftAndRest == ComposerInv <=> (GoodDraft(draftSteps, shifted) /\ shifted \in BOOLEAN /\ Elsewhere)
  BY DEF ComposerInv, Elsewhere

LEMMA ColumnsStay ==
  ASSUME ColumnsKept, UNCHANGED uploadVars
  PROVE  ColumnsKept'
  BY DEF ColumnsKept, uploadVars, Parsing

LEMMA PostStay ==
  ASSUME last.answer = "refused" => ~Accepts(last.nodes), UNCHANGED last
  PROVE  (last.answer = "refused" => ~Accepts(last.nodes))'
  <1>1. PICK b : last = b /\ last' = b
    OBVIOUS
  <1>2. b.answer = "refused" => ~Accepts(b.nodes)
    BY <1>1
  <1>. QED
    BY <1>1, <1>2

LEMMA ElsewhereStays ==
  ASSUME Elsewhere, UNCHANGED <<uploadVars, postVars>>,
         mode' \in {"simple", "advanced"}, view' \in {"open", "crashed", "away"},
         fetching' \in BOOLEAN, changes' \in 0..MaxChanges, saved' = saved \/ GoodBody(saved')
  PROVE  Elsewhere'
  <1>1. UNCHANGED uploadVars /\ UNCHANGED submitted /\ UNCHANGED last
    BY DEF postVars
  <1>2. ColumnsKept'
    BY <1>1, ColumnsStay DEF Elsewhere
  <1>3. (last.answer = "refused" => ~Accepts(last.nodes))'
    BY <1>1, PostStay DEF Elsewhere
  <1>4. GoodBody(submitted)' /\ GoodBody(last)' /\ GoodBody(saved)'
    <2>1. PICK b, c, d : submitted = b /\ submitted' = b /\ last = c /\ last' = c /\ saved' = d
      BY <1>1
    <2>2. GoodBody(b) /\ GoodBody(c) /\ GoodBody(d)
      BY <2>1 DEF Elsewhere
    <2>. QED
      BY <2>1, <2>2
  <1>. QED
    BY <1>2, <1>3, <1>4 DEF Elsewhere

LEMMA ChangeCounts ==
  ASSUME changes \in 0..MaxChanges, changes < MaxChanges, changes' = changes + 1
  PROVE  changes' \in 0..MaxChanges
  <1>1. MaxChanges \in Nat
    BY ComposerAssumption DEF ComposerAssumption
  <1>. QED
    BY <1>1

LEMMA RearrangedKeeps ==
  ASSUME ComposerInv, NEW r \in Seq(Steps), Len(r) <= MaxDraftSteps, IdsDiffer(r),
         \A k \in DOMAIN r : \E i \in DOMAIN draftSteps : Like(r[k], draftSteps[i]),
         Rearranged(r)
  PROVE  ComposerInv'
  <1>1. draftSteps' = r /\ shifted' = (shifted \/ Routed(draftSteps)) /\ view' = ViewOf(r, mode)
        /\ UNCHANGED <<mode, saved, fetching, uploadVars, postVars>>
    BY DEF Rearranged
  <1>2. GoodDraft(r, shifted \/ Routed(draftSteps))
    BY RearrangedGood DEF ComposerInv
  <1>3. changes' \in 0..MaxChanges
    BY ChangeCounts DEF Rearranged, Change, ComposerInv
  <1>4. view' \in {"open", "crashed", "away"}
    BY <1>1 DEF ViewOf
  <1>5. Elsewhere'
    BY <1>1, <1>3, <1>4, ElsewhereStays, DraftAndRest DEF Elsewhere
  <1>6. GoodDraft(draftSteps, shifted)'
    <2>1. PICK moved \in BOOLEAN : shifted' = moved /\ moved = (shifted \/ Routed(draftSteps))
      BY <1>1
    <2>. QED
      BY <1>1, <1>2, <2>1
  <1>. QED
    BY <1>1, <1>5, <1>6 DEF ComposerInv, Elsewhere

LEMMA EditedKeeps ==
  ASSUME ComposerInv, NEW i \in DOMAIN draftSteps, NEW e \in Steps,
         GoodDraft([draftSteps EXCEPT ![i] = e], shifted), Edited(i, e)
  PROVE  ComposerInv'
  <1>1. /\ draftSteps' = [draftSteps EXCEPT ![i] = e]
        /\ UNCHANGED <<mode, view, shifted, saved, fetching, uploadVars, postVars>>
    BY DEF Edited
  <1>2. changes' \in 0..MaxChanges
    BY ChangeCounts DEF Edited, Change, ComposerInv
  <1>3. Elsewhere'
    BY <1>1, <1>2, ElsewhereStays, DraftAndRest DEF Elsewhere
  <1>4. GoodDraft(draftSteps, shifted)'
    BY <1>1
  <1>. QED
    BY <1>1, <1>3, <1>4, DraftAndRest DEF ComposerInv, Elsewhere

LEMMA DraftFacts ==
  ASSUME ComposerInv
  PROVE  /\ draftSteps \in Seq(Steps) /\ DOMAIN draftSteps = 1..Len(draftSteps)
         /\ Len(draftSteps) \in Nat /\ Len(draftSteps) <= MaxDraftSteps /\ MaxDraftSteps \in Nat
         /\ \A i \in DOMAIN draftSteps : draftSteps[i] \in Steps
         /\ IdsDiffer(draftSteps) /\ RulesRight(draftSteps) /\ (~shifted => RoutesRight(draftSteps))
  BY DraftDomain, ComposerAssumption DEF ComposerInv, GoodDraft, ComposerAssumption

LEMMA RemoveKept == ASSUME ComposerInv, NEW i \in DOMAIN draftSteps, RemoveStep(i) PROVE ComposerInv'
  <1>. DEFINE s == draftSteps
  <1>1. PICK r : r = SeqExt!RemoveAt(s, i)
    OBVIOUS
  <1>2. /\ r \in Seq(Steps) /\ Len(r) = Len(s) - 1
        /\ \A k \in 1..(Len(s) - 1) : r[k] = s[IF k < i THEN k ELSE k + 1]
    <2>1. s \in Seq(Steps)
      BY DraftFacts
    <2>2. IsWithout(r, s, i)
      BY <1>1, <2>1, RemovedStep
    <2>. QED
      BY <2>2 DEF IsWithout
  <1>3. DOMAIN r = 1..(Len(s) - 1)
    BY <1>2, DraftDomain
  <1>4. \A k \in 1..(Len(s) - 1) : (IF k < i THEN k ELSE k + 1) \in DOMAIN s
    BY DraftFacts
  <1>5. IdsDiffer(r)
    <2>. SUFFICES ASSUME NEW k \in DOMAIN r, NEW l \in DOMAIN r, r[k].id = r[l].id PROVE k = l
      BY DEF IdsDiffer
    <2>1. PICK a \in DOMAIN s : a = (IF k < i THEN k ELSE k + 1) /\ r[k] = s[a]
      BY <1>2, <1>3, <1>4
    <2>2. PICK b \in DOMAIN s : b = (IF l < i THEN l ELSE l + 1) /\ r[l] = s[b]
      BY <1>2, <1>3, <1>4
    <2>3. s[a].id = s[b].id
      BY <2>1, <2>2
    <2>4. IdsDiffer(s)
      BY DraftFacts
    <2>5. a = b
      BY <2>3, <2>4 DEF IdsDiffer
    <2>6. k \in Int /\ l \in Int /\ i \in Int
      BY <1>3, DraftFacts
    <2>. QED
      BY <2>1, <2>2, <2>5, <2>6
  <1>6. \A k \in DOMAIN r : \E l \in DOMAIN s : Like(r[k], s[l])
    BY <1>2, <1>3, <1>4 DEF Like
  <1>7. Len(r) <= MaxDraftSteps
    BY <1>2, DraftFacts
  <1>8. Rearranged(r)
    BY <1>1 DEF RemoveStep
  <1>. QED
    BY <1>2, <1>5, <1>6, <1>7, <1>8, RearrangedKeeps

LEMMA DuplicateKept ==
  ASSUME ComposerInv, NEW i \in DOMAIN draftSteps, DuplicateStep(i) PROVE ComposerInv'
  <1>. DEFINE s == draftSteps
  <1>1. PICK id \in Unused : Rearranged(SeqExt!InsertAt(s, i + 1, [s[i] EXCEPT !.id = id]))
    BY DEF DuplicateStep
  <1>2. PICK e : e = [s[i] EXCEPT !.id = id]
    OBVIOUS
  <1>3. s[i] \in Steps /\ id \in StepIds /\ \A k \in DOMAIN s : s[k].id # id
    BY DraftFacts DEF Unused
  <1>4. e \in Steps /\ e.id = id /\ Like(e, s[i])
    <2>1. PICK x \in Steps : s[i] = x
      BY <1>3
    <2>2. e = [x EXCEPT !.id = id] /\ id \in StepIds
      BY <1>2, <1>3, <2>1
    <2>3. e \in Steps /\ e.id = id /\ Like(e, x)
      BY <2>2 DEF Steps, Like
    <2>. QED
      BY <2>1, <2>3
  <1>5. PICK r : r = SeqExt!InsertAt(s, i + 1, e)
    OBVIOUS
  <1>6. i + 1 \in 1..(Len(s) + 1) /\ i \in 1..Len(s)
    BY DraftFacts
  <1>7. /\ r \in Seq(Steps) /\ Len(r) = Len(s) + 1
        /\ \A k \in 1..(Len(s) + 1) :
             r[k] = IF k < i + 1 THEN s[k] ELSE IF k = i + 1 THEN e ELSE s[k - 1]
    <2>1. PICK p \in 1..(Len(s) + 1) : p = i + 1
      BY <1>6
    <2>2. s \in Seq(Steps) /\ e \in Steps
      BY <1>4, DraftFacts
    <2>3. IsWith(SeqExt!InsertAt(s, p, e), s, p, e)
      BY <2>2, InsertedStep
    <2>4. r = SeqExt!InsertAt(s, p, e)
      BY <1>5, <2>1
    <2>5. IsWith(r, s, p, e)
      BY <2>3, <2>4
    <2>. QED
      BY <2>1, <2>5 DEF IsWith
  <1>8. DOMAIN r = 1..(Len(s) + 1)
    BY <1>7, DraftDomain
  <1>9. \A k \in DOMAIN r : \/ k < i + 1 /\ k \in DOMAIN s /\ r[k] = s[k]
                            \/ k = i + 1 /\ r[k] = e
                            \/ k > i + 1 /\ k - 1 \in DOMAIN s /\ r[k] = s[k - 1]
    BY <1>6, <1>7, <1>8, DraftFacts
  <1>10. IdsDiffer(r)
    <2>. SUFFICES ASSUME NEW k \in DOMAIN r, NEW l \in DOMAIN r, r[k].id = r[l].id PROVE k = l
      BY DEF IdsDiffer
    <2>1. \A m \in DOMAIN s : s[m].id # e.id
      BY <1>3, <1>4
    <2>. QED
      BY <1>6, <1>8, <1>9, <2>1, DraftFacts DEF IdsDiffer
  <1>11. \A k \in DOMAIN r : \E l \in DOMAIN s : Like(r[k], s[l])
    BY <1>4, <1>9 DEF Like
  <1>12. Len(r) <= MaxDraftSteps
    BY <1>7, DraftFacts DEF DuplicateStep
  <1>. QED
    BY <1>1, <1>2, <1>5, <1>7, <1>10, <1>11, <1>12, RearrangedKeeps

LEMMA MoveKept ==
  ASSUME ComposerInv, NEW i \in DOMAIN draftSteps, NEW j \in DOMAIN draftSteps \ {i}, MoveStep(i, j)
  PROVE  ComposerInv'
  <1>. DEFINE s == draftSteps
  <1>1. PICK q : q = SeqExt!RemoveAt(s, i)
    OBVIOUS
  <1>2. /\ q \in Seq(Steps) /\ Len(q) = Len(s) - 1
        /\ \A k \in 1..(Len(s) - 1) : q[k] = s[IF k < i THEN k ELSE k + 1]
    <2>1. s \in Seq(Steps)
      BY DraftFacts
    <2>2. IsWithout(q, s, i)
      BY <1>1, <2>1, RemovedStep
    <2>. QED
      BY <2>2 DEF IsWithout
  <1>3. /\ s[i] \in Steps /\ i \in 1..Len(s) /\ j \in 1..Len(s) /\ j \in 1..(Len(q) + 1)
        /\ Len(q) + 1 = Len(s)
    BY <1>2, DraftFacts
  <1>4. PICK r : r = SeqExt!InsertAt(q, j, s[i])
    OBVIOUS
  <1>5. /\ r \in Seq(Steps) /\ Len(r) = Len(q) + 1
        /\ \A k \in 1..(Len(q) + 1) :
             r[k] = IF k < j THEN q[k] ELSE IF k = j THEN s[i] ELSE q[k - 1]
    <2>1. PICK e \in Steps : e = s[i]
      BY <1>3
    <2>2. q \in Seq(Steps) /\ j \in 1..(Len(q) + 1)
      BY <1>2, <1>3
    <2>3. IsWith(SeqExt!InsertAt(q, j, e), q, j, e)
      BY <2>2, InsertedStep
    <2>4. r = SeqExt!InsertAt(q, j, e)
      BY <1>4, <2>1
    <2>5. IsWith(r, q, j, e)
      BY <2>3, <2>4
    <2>. QED
      BY <2>1, <2>5 DEF IsWith
  <1>6. DOMAIN r = 1..Len(s) /\ Len(r) = Len(s)
    BY <1>3, <1>5, DraftDomain
  <1>7. \A k \in 1..Len(s) :
           \/ k = j /\ r[k] = s[i]
           \/ k < j /\ k < i /\ r[k] = s[k]
           \/ k < j /\ k >= i /\ k + 1 \in 1..Len(s) /\ r[k] = s[k + 1]
           \/ k > j /\ k - 1 < i /\ k - 1 \in 1..Len(s) /\ r[k] = s[k - 1]
           \/ k > j /\ k - 1 >= i /\ r[k] = s[k]
    <2>. SUFFICES ASSUME NEW k \in 1..Len(s)
                  PROVE  \/ k = j /\ r[k] = s[i]
                         \/ k < j /\ k < i /\ r[k] = s[k]
                         \/ k < j /\ k >= i /\ k + 1 \in 1..Len(s) /\ r[k] = s[k + 1]
                         \/ k > j /\ k - 1 < i /\ k - 1 \in 1..Len(s) /\ r[k] = s[k - 1]
                         \/ k > j /\ k - 1 >= i /\ r[k] = s[k]
      OBVIOUS
    <2>1. CASE k = j
      BY <1>3, <1>5, <2>1
    <2>2. CASE k < j
      <3>1. k \in 1..(Len(s) - 1) /\ k \in 1..(Len(q) + 1)
        BY <1>3, <2>2, DraftFacts
      <3>2. r[k] = q[k] /\ q[k] = s[IF k < i THEN k ELSE k + 1]
        BY <1>2, <1>5, <2>2, <3>1
      <3>. QED
        BY <1>3, <2>2, <3>1, <3>2
    <2>3. CASE k > j
      <3>1. k - 1 \in 1..(Len(s) - 1) /\ k \in 1..(Len(q) + 1) /\ (k - 1) + 1 = k /\ k - 1 \in 1..Len(s)
        BY <1>3, <2>3, DraftFacts
      <3>2. r[k] = q[k - 1] /\ q[k - 1] = s[IF k - 1 < i THEN k - 1 ELSE (k - 1) + 1]
        <4>1. PICK l \in 1..(Len(s) - 1) : l = k - 1
          BY <3>1
        <4>2. q[l] = s[IF l < i THEN l ELSE l + 1]
          BY <1>2
        <4>3. r[k] = q[k - 1]
          BY <1>3, <1>5, <2>3, <3>1
        <4>. QED
          BY <4>1, <4>2, <4>3
      <3>. QED
        BY <1>3, <2>3, <3>1, <3>2
    <2>. QED
      BY <1>3, <2>1, <2>2, <2>3
  <1>8. IdsDiffer(r)
    <2>. SUFFICES ASSUME NEW k \in DOMAIN r, NEW l \in DOMAIN r, r[k].id = r[l].id PROVE k = l
      BY DEF IdsDiffer
    <2>1. k \in 1..Len(s) /\ l \in 1..Len(s) /\ \A m, n \in 1..Len(s) : s[m].id = s[n].id => m = n
      BY <1>6, DraftFacts DEF IdsDiffer
    <2>2. PICK m \in 1..Len(s) : /\ r[k] = s[m]
                                 /\ \/ k = j /\ m = i
                                    \/ k < j /\ k < i /\ m = k
                                    \/ k < j /\ k >= i /\ m = k + 1
                                    \/ k > j /\ k - 1 < i /\ m = k - 1
                                    \/ k > j /\ k - 1 >= i /\ m = k
      BY <1>3, <1>7, <2>1
    <2>3. PICK n \in 1..Len(s) : /\ r[l] = s[n]
                                 /\ \/ l = j /\ n = i
                                    \/ l < j /\ l < i /\ n = l
                                    \/ l < j /\ l >= i /\ n = l + 1
                                    \/ l > j /\ l - 1 < i /\ n = l - 1
                                    \/ l > j /\ l - 1 >= i /\ n = l
      BY <1>3, <1>7, <2>1
    <2>4. m = n
      BY <2>1, <2>2, <2>3
    <2>5. m \in Int /\ n \in Int /\ k \in Int /\ l \in Int /\ i \in Int /\ j \in Int
      BY <1>3, <2>1
    <2>. QED
      BY <2>2, <2>3, <2>4, <2>5
  <1>9. \A k \in DOMAIN r : \E l \in DOMAIN s : Like(r[k], s[l])
    BY <1>3, <1>6, <1>7, DraftFacts DEF Like
  <1>10. Len(r) <= MaxDraftSteps
    BY <1>6, DraftFacts
  <1>11. Rearranged(r)
    BY <1>1, <1>4 DEF MoveStep
  <1>. QED
    BY <1>5, <1>8, <1>9, <1>10, <1>11, RearrangedKeeps

LEMMA SetTypeKept ==
  ASSUME ComposerInv, NEW i \in DOMAIN draftSteps, NEW type \in Types, SetType(i, type)
  PROVE  ComposerInv'
  <1>1. PICK x \in Steps : draftSteps[i] = x
    BY DraftFacts
  <1>. DEFINE plain == [x EXCEPT !.type = type, !.rules = "absent", !.match = 0, !.noMatch = 0,
                                 !.want = NoStep, !.wantElse = NoStep]
              ruled == [x EXCEPT !.type = type, !.rules = IF x.rules = "absent" THEN "set" ELSE x.rules]
  <1>2. PICK e \in {plain, ruled} : Edited(i, e)
    BY <1>1 DEF SetType
  <1>3. CASE e = plain
    <2>1. MaxDraftSteps \in Nat
      BY DraftFacts
    <2>2. e \in Steps
      <3>1. 0 \in 0..MaxDraftSteps /\ "absent" \in Rules
        BY <2>1 DEF Rules
      <3>. QED
        BY <1>3, <3>1 DEF Steps
    <2>3. /\ e.id = x.id /\ e.match = 0 /\ e.noMatch = 0
          /\ e.want = NoStep /\ e.wantElse = NoStep
      BY <1>3 DEF Steps
    <2>4. GoodDraft([draftSteps EXCEPT ![i] = e], shifted)
      BY <1>1, <2>2, <2>3, EditedGood DEF ComposerInv
    <2>. QED
      BY <1>2, <2>2, <2>4, EditedKeeps
  <1>4. CASE e = ruled
    <2>1. e \in Steps /\ e.rules # "absent"
      BY <1>4 DEF Steps, Rules, Types
    <2>2. /\ e.id = x.id /\ e.match = x.match /\ e.noMatch = x.noMatch
          /\ e.want = x.want /\ e.wantElse = x.wantElse
      BY <1>4 DEF Steps
    <2>3. ~shifted => MatchRight(draftSteps, i) /\ NoMatchRight(draftSteps, i)
      BY DraftFacts DEF RoutesRight
    <2>4. ~shifted => /\ IF e.want = NoStep THEN e.match \in {0, NextPosition(draftSteps, i)}
                         ELSE e.match \in DOMAIN draftSteps /\ draftSteps[e.match].id = e.want
                      /\ IF e.wantElse = NoStep THEN e.noMatch = 0
                         ELSE e.noMatch \in DOMAIN draftSteps /\ draftSteps[e.noMatch].id = e.wantElse
      BY <1>1, <2>2, <2>3 DEF MatchRight, NoMatchRight
    <2>5. GoodDraft([draftSteps EXCEPT ![i] = e], shifted)
      BY <1>1, <2>1, <2>2, <2>4, EditedGood DEF ComposerInv
    <2>. QED
      BY <1>2, <2>1, <2>5, EditedKeeps
  <1>. QED
    BY <1>2, <1>3, <1>4

LEMMA RouteKept ==
  ASSUME ComposerInv, NEW i \in DOMAIN draftSteps, NEW j \in 0..Len(draftSteps),
         RouteMatch(i, j) \/ RouteNoMatch(i, j)
  PROVE  ComposerInv'
  <1>1. PICK x \in Steps : draftSteps[i] = x
    BY DraftFacts
  <1>2. PICK y : y = Ruled(x)
    OBVIOUS
  <1>3. y \in Steps /\ y.rules # "absent" /\ Like([y EXCEPT !.rules = x.rules], x) /\ y.id = x.id
        /\ y.match = x.match /\ y.noMatch = x.noMatch /\ y.want = x.want /\ y.wantElse = x.wantElse
    BY <1>2 DEF Ruled, Steps, Rules, Like
  <1>4. ~shifted => MatchRight(draftSteps, i) /\ NoMatchRight(draftSteps, i)
    BY DraftFacts DEF RoutesRight
  <1>5. PICK w \in StepIds \cup {NoStep} :
           /\ w = IdAt(j)
           /\ j = 0 => w = NoStep
           /\ j # 0 => j \in DOMAIN draftSteps /\ draftSteps[j].id = w /\ w # NoStep
    <2>1. j # 0 => j \in DOMAIN draftSteps
      BY DraftFacts
    <2>2. j # 0 => draftSteps[j].id \in StepIds
      BY <2>1, DraftFacts, StepTyped
    <2>. QED
      BY <2>1, <2>2, ComposerAssumption DEF IdAt, ComposerAssumption
  <1>6. j \in 0..MaxDraftSteps
    BY DraftFacts
  <1>7. CASE RouteMatch(i, j)
    <2>1. PICK e : e = [y EXCEPT !.match = j, !.want = w]
      OBVIOUS
    <2>2. /\ e \in Steps /\ e.id = x.id /\ e.rules # "absent" /\ e.match = j /\ e.want = w
          /\ e.noMatch = x.noMatch /\ e.wantElse = x.wantElse
      BY <1>3, <1>6, <2>1 DEF Steps
    <2>3. Edited(i, e)
      BY <1>1, <1>2, <1>5, <1>7, <2>1 DEF RouteMatch
    <2>4. ~shifted => /\ IF e.want = NoStep THEN e.match \in {0, NextPosition(draftSteps, i)}
                         ELSE e.match \in DOMAIN draftSteps /\ draftSteps[e.match].id = e.want
                      /\ IF e.wantElse = NoStep THEN e.noMatch = 0
                         ELSE e.noMatch \in DOMAIN draftSteps /\ draftSteps[e.noMatch].id = e.wantElse
      BY <1>1, <1>4, <1>5, <2>2 DEF NoMatchRight
    <2>5. GoodDraft([draftSteps EXCEPT ![i] = e], shifted)
      BY <1>1, <2>2, <2>4, EditedGood DEF ComposerInv
    <2>. QED
      BY <2>2, <2>3, <2>5, EditedKeeps
  <1>8. CASE RouteNoMatch(i, j)
    <2>1. PICK e : e = [y EXCEPT !.noMatch = j, !.wantElse = w]
      OBVIOUS
    <2>2. /\ e \in Steps /\ e.id = x.id /\ e.rules # "absent" /\ e.noMatch = j /\ e.wantElse = w
          /\ e.match = x.match /\ e.want = x.want
      BY <1>3, <1>6, <2>1 DEF Steps
    <2>3. Edited(i, e)
      BY <1>1, <1>2, <1>5, <1>8, <2>1 DEF RouteNoMatch
    <2>4. ~shifted => /\ IF e.want = NoStep THEN e.match \in {0, NextPosition(draftSteps, i)}
                         ELSE e.match \in DOMAIN draftSteps /\ draftSteps[e.match].id = e.want
                      /\ IF e.wantElse = NoStep THEN e.noMatch = 0
                         ELSE e.noMatch \in DOMAIN draftSteps /\ draftSteps[e.noMatch].id = e.wantElse
      BY <1>1, <1>4, <1>5, <2>2 DEF MatchRight
    <2>5. GoodDraft([draftSteps EXCEPT ![i] = e], shifted)
      BY <1>1, <2>2, <2>4, EditedGood DEF ComposerInv
    <2>. QED
      BY <2>2, <2>3, <2>5, EditedKeeps
  <1>. QED
    BY <1>7, <1>8

LEMMA AddKept == ASSUME ComposerInv, AddStep PROVE ComposerInv'
  <1>. DEFINE s == draftSteps
  <1>1. PICK id \in Unused : draftSteps' = Append(s, NewStep(id))
    BY DEF AddStep
  <1>2. PICK e \in Steps : /\ e = NewStep(id) /\ e.id = id /\ e.match = 0 /\ e.noMatch = 0
                           /\ e.want = NoStep /\ e.wantElse = NoStep
    <2>1. id \in StepIds /\ 0 \in 0..MaxDraftSteps
      BY DraftFacts DEF Unused
    <2>2. "none" \in Types /\ "absent" \in Rules
      BY DEF Types, Rules
    <2>3. /\ NewStep(id) \in Steps /\ NewStep(id).id = id
          /\ NewStep(id).match = 0 /\ NewStep(id).noMatch = 0
          /\ NewStep(id).want = NoStep /\ NewStep(id).wantElse = NoStep
      BY <2>1, <2>2 DEF NewStep, Steps
    <2>. QED
      BY <2>3
  <1>3. PICK r : r = Append(s, e)
    OBVIOUS
  <1>4. r \in Seq(Steps) /\ Len(r) = Len(s) + 1 /\ r[Len(s) + 1] = e
        /\ \A k \in 1..Len(s) : r[k] = s[k]
    BY <1>3, DraftFacts
  <1>5. DOMAIN r = 1..(Len(s) + 1)
    BY <1>4, DraftDomain
  <1>6. \A k \in DOMAIN r : \/ k \in DOMAIN s /\ r[k] = s[k] /\ k <= Len(s)
                            \/ k = Len(s) + 1 /\ r[k] = e
    BY <1>4, <1>5, DraftFacts
  <1>7. \A k \in DOMAIN s : s[k].id # e.id
    BY <1>2 DEF Unused
  <1>8. IdsDiffer(r)
    <2>. SUFFICES ASSUME NEW k \in DOMAIN r, NEW l \in DOMAIN r, r[k].id = r[l].id PROVE k = l
      BY DEF IdsDiffer
    <2>. QED
      BY <1>6, <1>7, DraftFacts DEF IdsDiffer
  <1>9. RulesRight(r)
    BY <1>2, <1>6, DraftFacts DEF RulesRight
  <1>10. ASSUME ~shifted, NEW k \in DOMAIN r PROVE MatchRight(r, k) /\ NoMatchRight(r, k)
    <2>1. CASE k = Len(s) + 1 /\ r[k] = e
      BY <1>2, <2>1 DEF MatchRight, NoMatchRight
    <2>2. CASE k \in DOMAIN s /\ r[k] = s[k] /\ k <= Len(s)
      <3>1. MatchRight(s, k) /\ NoMatchRight(s, k)
        BY <1>10, <2>2, DraftFacts DEF RoutesRight
      <3>2. NextPosition(s, k) \in {0, NextPosition(r, k)}
        BY <1>4, <2>2, DraftFacts DEF NextPosition
      <3>3. \A m \in DOMAIN s : m \in DOMAIN r /\ r[m] = s[m]
        BY <1>4, <1>5, DraftFacts
      <3>. QED
        BY <2>2, <3>1, <3>2, <3>3 DEF MatchRight, NoMatchRight
    <2>. QED
      BY <1>6, <1>10, <2>1, <2>2
  <1>11. GoodDraft(r, shifted)
    <2>1. Len(r) <= MaxDraftSteps
      BY <1>4, DraftFacts DEF AddStep
    <2>. QED
      BY <1>4, <1>8, <1>9, <1>10, <2>1 DEF GoodDraft, RoutesRight
  <1>12. draftSteps' = r /\ UNCHANGED <<mode, view, shifted, saved, fetching, uploadVars, postVars, changes>>
    BY <1>1, <1>2, <1>3 DEF AddStep
  <1>13. Elsewhere'
    BY <1>12, ElsewhereStays, DraftAndRest DEF Elsewhere
  <1>14. GoodDraft(draftSteps, shifted)'
    BY <1>11, <1>12
  <1>. QED
    BY <1>12, <1>13, <1>14 DEF ComposerInv, Elsewhere

LEMMA WriteKept == ASSUME ComposerInv, WriteSteps PROVE ComposerInv'
  <1>1. /\ draftSteps' = Filled(draftSteps)
        /\ UNCHANGED <<mode, view, shifted, saved, fetching, uploadVars, postVars, changes>>
    BY DEF WriteSteps
  <1>2. GoodDraft(Filled(draftSteps), shifted)
    BY FilledGood DEF ComposerInv
  <1>3. Elsewhere'
    BY <1>1, ElsewhereStays, DraftAndRest DEF Elsewhere
  <1>4. GoodDraft(draftSteps, shifted)'
    BY <1>1, <1>2
  <1>. QED
    BY <1>1, <1>3, <1>4 DEF ComposerInv, Elsewhere

LEMMA ConvertKept == ASSUME ComposerInv, ConvertToAdvanced PROVE ComposerInv'
  <1>. DEFINE s == draftSteps
  <1>1. PICK r : r = Expanded(s)
    OBVIOUS
  <1>2. DOMAIN s = 1..Len(s) /\ Len(s) \in Nat /\ Len(s) <= MaxDraftSteps /\ MaxDraftSteps \in Nat
    BY DraftFacts
  <1>3. ASSUME NEW i \in DOMAIN s
        PROVE  /\ r[i] \in Steps /\ r[i].id = s[i].id /\ r[i].rules # "absent"
               /\ r[i].match = (IF s[i].match # 0 THEN s[i].match ELSE NextPosition(s, i))
               /\ r[i].noMatch = s[i].noMatch /\ r[i].want = s[i].want /\ r[i].wantElse = s[i].wantElse
    <2>1. PICK x \in Steps : s[i] = x
      BY DraftFacts
    <2>2. PICK rules \in {"empty", "set", x.rules} :
             /\ rules = IF x.rules # "absent" THEN x.rules ELSE IF x.type = "none" THEN "empty" ELSE "set"
             /\ rules # "absent"
      OBVIOUS
    <2>3. PICK match : match = IF x.match # 0 THEN x.match ELSE NextPosition(s, i)
      OBVIOUS
    <2>4. r[i] = [x EXCEPT !.rules = rules, !.match = match]
      BY <1>1, <2>1, <2>2, <2>3 DEF Expanded
    <2>5. NextPosition(s, i) \in 0..MaxDraftSteps
      BY <1>2 DEF NextPosition
    <2>6. match \in 0..MaxDraftSteps
      BY <2>3, <2>5, StepTyped
    <2>7. rules \in Rules
      BY <2>2, StepTyped DEF Rules
    <2>8. /\ r[i] \in Steps /\ r[i].id = x.id /\ r[i].rules = rules /\ r[i].match = match
          /\ r[i].noMatch = x.noMatch /\ r[i].want = x.want /\ r[i].wantElse = x.wantElse
      BY <2>4, <2>6, <2>7 DEF Steps
    <2>. QED
      BY <2>1, <2>2, <2>3, <2>8
  <1>4. DOMAIN r = 1..Len(s) /\ r \in Seq(Steps) /\ Len(r) = Len(s)
    <2>1. r \in [1..Len(s) -> Steps]
      BY <1>1, <1>2, <1>3 DEF Expanded
    <2>. QED
      BY <1>2, <2>1, SeqDef
  <1>5. IdsDiffer(r) /\ RulesRight(r)
    BY <1>2, <1>3, <1>4, DraftFacts DEF IdsDiffer, RulesRight
  <1>6. ASSUME ~shifted, NEW i \in DOMAIN r PROVE MatchRight(r, i) /\ NoMatchRight(r, i)
    <2>1. MatchRight(s, i) /\ NoMatchRight(s, i) /\ NextPosition(r, i) = NextPosition(s, i)
      BY <1>2, <1>4, <1>6, DraftFacts DEF RoutesRight, NextPosition
    <2>2. 0 \notin DOMAIN s
      BY <1>2
    <2>. QED
      BY <1>2, <1>3, <1>4, <2>1, <2>2 DEF MatchRight, NoMatchRight
  <1>7. GoodDraft(r, shifted)
    BY <1>2, <1>4, <1>5, <1>6 DEF GoodDraft, RoutesRight
  <1>8. /\ draftSteps' = r /\ mode' = "advanced" /\ view' = ViewOf(draftSteps', mode')
        /\ UNCHANGED <<shifted, saved, fetching, uploadVars, postVars>>
    BY <1>1 DEF ConvertToAdvanced
  <1>9. view' \in {"open", "crashed", "away"}
    BY <1>8 DEF ViewOf
  <1>10. changes' \in 0..MaxChanges
    BY ChangeCounts DEF ConvertToAdvanced, Change, ComposerInv
  <1>11. Elsewhere'
    BY <1>8, <1>9, <1>10, ElsewhereStays, DraftAndRest DEF Elsewhere
  <1>12. GoodDraft(draftSteps, shifted)'
    BY <1>7, <1>8
  <1>. QED
    BY <1>8, <1>11, <1>12, DraftAndRest DEF ComposerInv, Elsewhere

LEMMA RevertKept == ASSUME ComposerInv, RevertToSimple PROVE ComposerInv'
  <1>. DEFINE s == draftSteps
  <1>1. PICK r : r = [i \in DOMAIN s |-> [s[i] EXCEPT !.rules = "absent", !.match = 0, !.want = NoStep,
                                                      !.wantElse = NoStep]]
    OBVIOUS
  <1>2. DOMAIN s = 1..Len(s) /\ Len(s) \in Nat /\ Len(s) <= MaxDraftSteps /\ MaxDraftSteps \in Nat
    BY DraftFacts
  <1>3. ASSUME NEW i \in DOMAIN s
        PROVE  /\ r[i] \in Steps /\ r[i].id = s[i].id /\ r[i].match = 0 /\ r[i].noMatch = 0
               /\ r[i].want = NoStep /\ r[i].wantElse = NoStep
    <2>1. PICK x \in Steps : s[i] = x
      BY DraftFacts
    <2>2. x.noMatch = 0
      <3>1. draftSteps[i].noMatch = 0
        BY DEF RevertToSimple
      <3>. QED
        BY <2>1, <3>1
    <2>3. r[i] = [x EXCEPT !.rules = "absent", !.match = 0, !.want = NoStep, !.wantElse = NoStep]
      BY <1>1, <2>1
    <2>4. 0 \in 0..MaxDraftSteps /\ "absent" \in Rules
      BY <1>2 DEF Rules
    <2>5. /\ r[i] \in Steps /\ r[i].id = x.id /\ r[i].match = 0 /\ r[i].noMatch = x.noMatch
          /\ r[i].want = NoStep /\ r[i].wantElse = NoStep
      BY <2>3, <2>4 DEF Steps
    <2>. QED
      BY <2>1, <2>2, <2>5
  <1>4. DOMAIN r = 1..Len(s) /\ r \in Seq(Steps) /\ Len(r) = Len(s)
    <2>1. r \in [1..Len(s) -> Steps]
      BY <1>1, <1>2, <1>3
    <2>. QED
      BY <1>2, <2>1, SeqDef
  <1>5. IdsDiffer(r) /\ RulesRight(r)
    BY <1>2, <1>3, <1>4, DraftFacts DEF IdsDiffer, RulesRight
  <1>6. RoutesRight(r)
    BY <1>2, <1>3, <1>4 DEF RoutesRight, MatchRight, NoMatchRight
  <1>7. GoodDraft(r, FALSE)
    BY <1>2, <1>4, <1>5, <1>6 DEF GoodDraft
  <1>8. /\ draftSteps' = r /\ mode' = "simple" /\ shifted' = FALSE
        /\ UNCHANGED <<view, saved, fetching, uploadVars, postVars>>
    BY <1>1 DEF RevertToSimple
  <1>9. changes' \in 0..MaxChanges
    BY ChangeCounts DEF RevertToSimple, Change, ComposerInv
  <1>10. Elsewhere'
    BY <1>8, <1>9, ElsewhereStays, DraftAndRest DEF Elsewhere
  <1>11. GoodDraft(draftSteps, shifted)'
    BY <1>7, <1>8
  <1>. QED
    BY <1>8, <1>10, <1>11 DEF ComposerInv, Elsewhere

LEMMA BuilderKept == ASSUME ComposerInv, Builder PROVE ComposerInv'
  <1>1. CASE AddStep \/ WriteSteps \/ ConvertToAdvanced \/ RevertToSimple
    BY <1>1, AddKept, WriteKept, ConvertKept, RevertKept
  <1>2. ASSUME NEW i \in DOMAIN draftSteps, RemoveStep(i) \/ DuplicateStep(i) PROVE ComposerInv'
    BY <1>2, RemoveKept, DuplicateKept
  <1>3. ASSUME NEW i \in DOMAIN draftSteps, NEW type \in Types, SetType(i, type) PROVE ComposerInv'
    BY <1>3, SetTypeKept
  <1>4. ASSUME NEW i \in DOMAIN draftSteps, NEW j \in DOMAIN draftSteps \ {i}, MoveStep(i, j)
        PROVE  ComposerInv'
    BY <1>4, MoveKept
  <1>5. ASSUME NEW i \in DOMAIN draftSteps, NEW j \in 0..Len(draftSteps),
               RouteMatch(i, j) \/ RouteNoMatch(i, j)
        PROVE  ComposerInv'
    BY <1>5, RouteKept
  <1>. QED
    BY <1>1, <1>2, <1>3, <1>4, <1>5 DEF Builder

-----------------------------------------------------------------------------
LEMMA SaveKept == ASSUME ComposerInv, SaveTemplate PROVE ComposerInv'
  <1>1. /\ saved' = [NoPost EXCEPT !.nodes = draftSteps, !.shifted = shifted]
        /\ UNCHANGED <<draftSteps, mode, view, shifted, fetching, uploadVars, postVars>>
    BY DEF SaveTemplate
  <1>2. GoodBody([NoPost EXCEPT !.nodes = draftSteps, !.shifted = shifted])
    BY DraftFacts DEF NoPost, GoodBody, ComposerInv, Answers
  <1>3. GoodBody(saved')
    BY <1>1, <1>2
  <1>4. changes' \in 0..MaxChanges
    BY ChangeCounts DEF SaveTemplate, Change, ComposerInv
  <1>5. Elsewhere'
    BY <1>1, <1>3, <1>4, ElsewhereStays, DraftAndRest DEF Elsewhere
  <1>6. GoodDraft(draftSteps, shifted)'
    BY <1>1 DEF ComposerInv
  <1>. QED
    BY <1>1, <1>5, <1>6 DEF ComposerInv, Elsewhere

LEMMA LoadKept ==
  ASSUME ComposerInv, NEW s, Load(s), GoodDraft(s, saved.shifted), fetching' \in BOOLEAN,
         changes' \in 0..MaxChanges
  PROVE  ComposerInv'
  <1>1. /\ draftSteps' = s /\ shifted' = saved.shifted /\ view' = ViewOf(s, mode)
        /\ UNCHANGED <<mode, saved, uploadVars, postVars>>
    BY DEF Load
  <1>2. view' \in {"open", "crashed", "away"}
    BY <1>1 DEF ViewOf
  <1>3. Elsewhere'
    BY <1>1, <1>2, ElsewhereStays, DraftAndRest DEF Elsewhere
  <1>4. GoodDraft(draftSteps, shifted)'
    <2>1. PICK moved : moved = saved.shifted
      OBVIOUS
    <2>. QED
      BY <1>1, <2>1
  <1>5. saved.shifted \in BOOLEAN
    BY DEF ComposerInv, GoodBody
  <1>. QED
    BY <1>1, <1>3, <1>4, <1>5 DEF ComposerInv, Elsewhere

LEMMA TemplateKept == ASSUME ComposerInv, ApplyPreset \/ TemplateArrives PROVE ComposerInv'
  <1>1. GoodDraft(saved.nodes, saved.shifted)
    BY DEF ComposerInv, GoodBody
  <1>2. CASE ApplyPreset
    <2>1. GoodDraft(Filled(saved.nodes), saved.shifted)
      BY <1>1, FilledGood
    <2>2. changes' \in 0..MaxChanges
      BY <1>2, ChangeCounts DEF ApplyPreset, Change, ComposerInv
    <2>3. Load(Filled(saved.nodes)) /\ fetching' \in BOOLEAN
      BY <1>2 DEF ApplyPreset, ComposerInv
    <2>. QED
      BY <2>1, <2>2, <2>3, LoadKept
  <1>3. CASE TemplateArrives
    <2>1. Load(saved.nodes) /\ fetching' \in BOOLEAN /\ changes' \in 0..MaxChanges
      BY <1>3 DEF TemplateArrives, ComposerInv
    <2>. QED
      BY <1>1, <2>1, LoadKept
  <1>. QED
    BY <1>2, <1>3

-----------------------------------------------------------------------------
LEMMA DraftStays ==
  ASSUME ComposerInv, UNCHANGED <<builderVars, postVars>>, ColumnsKept', changes' \in 0..MaxChanges
  PROVE  ComposerInv'
  <1>1. UNCHANGED <<draftSteps, mode, view, shifted, saved, fetching, submitted, last>>
    BY DEF builderVars, postVars
  <1>2. (last.answer = "refused" => ~Accepts(last.nodes))'
    BY <1>1, PostStay DEF ComposerInv
  <1>3. PICK a, b, c, d, e : /\ a = draftSteps /\ b = shifted /\ c = saved /\ d = submitted /\ e = last
                             /\ a = draftSteps' /\ b = shifted' /\ c = saved' /\ d = submitted' /\ e = last'
    BY <1>1
  <1>4. GoodDraft(a, b) /\ GoodBody(c) /\ GoodBody(d) /\ GoodBody(e)
    BY <1>3 DEF ComposerInv
  <1>5. GoodDraft(draftSteps, shifted)' /\ GoodBody(saved)' /\ GoodBody(submitted)' /\ GoodBody(last)'
    BY <1>3, <1>4
  <1>. QED
    BY <1>1, <1>2, <1>5 DEF ComposerInv

LEMMA UploadKept == ASSUME ComposerInv, ToRecipients PROVE ComposerInv'
  <1>1. ColumnsKept /\ changes \in 0..MaxChanges
    BY DEF ComposerInv
  <1>2. ASSUME NEW u \in Uploads, PickFile(u) PROVE ComposerInv'
    <2>1. changes' \in 0..MaxChanges
      BY <1>1, <1>2, ChangeCounts DEF PickFile, Change
    <2>2. /\ parses[u] = "none" /\ parses' = [parses EXCEPT ![u] = "parsing"]
          /\ picked' = [picked EXCEPT ![u] = columns]
          /\ parsedTogether' = parsedTogether \cup (IF Parsing = {} THEN {} ELSE Parsing \cup {u})
          /\ columns' = columns /\ to' = to
      BY <1>2 DEF PickFile
    <2>3. /\ parses' \in [Uploads -> {"none", "parsing", "done"}]
          /\ picked' \in [Uploads -> SUBSET Uploads] /\ picked'[u] = columns
          /\ \A v \in Uploads \ {u} : picked'[v] = picked[v]
          /\ Parsing' = Parsing \cup {u} /\ u \notin Parsing /\ Parsing \subseteq Uploads
      BY <1>1, <2>2 DEF ColumnsKept, Parsing
    <2>4. parsedTogether \subseteq parsedTogether' /\ parsedTogether' \subseteq Uploads
          /\ (Parsing # {} => Parsing \cup {u} \subseteq parsedTogether')
      BY <1>1, <2>2, <2>3 DEF ColumnsKept
    <2>5. \A v \in Parsing' : /\ columns' \subseteq picked'[v] \cup parsedTogether'
                              /\ picked'[v] \subseteq columns' \cup parsedTogether'
      BY <1>1, <2>2, <2>3, <2>4 DEF ColumnsKept
    <2>6. \A v, w \in Parsing' : v # w => v \in parsedTogether'
      BY <2>3, <2>4
    <2>7. ColumnsKept'
      BY <1>1, <2>2, <2>3, <2>4, <2>5, <2>6 DEF ColumnsKept
    <2>. QED
      BY <1>2, <2>1, <2>7, DraftStays DEF PickFile
  <1>3. ASSUME NEW u \in Uploads, FileParsed(u) PROVE ComposerInv'
    <2>1. /\ u \in Parsing /\ parses' = [parses EXCEPT ![u] = "done"]
          /\ to' = to \cup {u} /\ columns' = picked[u] \cup {u} /\ picked' = [picked EXCEPT ![u] = {}]
          /\ parsedTogether' = parsedTogether
      BY <1>3 DEF FileParsed
    <2>2. /\ parses' \in [Uploads -> {"none", "parsing", "done"}]
          /\ picked' \in [Uploads -> SUBSET Uploads]
          /\ \A v \in Uploads \ {u} : picked'[v] = picked[v]
          /\ Parsing' = Parsing \ {u} /\ Parsing \subseteq Uploads
      BY <1>1, <2>1 DEF ColumnsKept, Parsing
    <2>3. to' \subseteq columns' \cup parsedTogether'
      BY <1>1, <2>1 DEF ColumnsKept
    <2>4. \A v \in Parsing' : /\ columns' \subseteq picked'[v] \cup parsedTogether'
                              /\ picked'[v] \subseteq columns' \cup parsedTogether'
      BY <1>1, <2>1, <2>2 DEF ColumnsKept
    <2>5. ColumnsKept'
      BY <1>1, <2>1, <2>2, <2>3, <2>4 DEF ColumnsKept
    <2>. QED
      BY <1>1, <1>3, <2>5, DraftStays DEF FileParsed
  <1>4. ASSUME NEW u \in Uploads, RemoveRecipient(u) PROVE ComposerInv'
    <2>1. ColumnsKept'
      BY <1>1, <1>4 DEF RemoveRecipient, ColumnsKept, Parsing
    <2>2. changes' \in 0..MaxChanges
      BY <1>1, <1>4, ChangeCounts DEF RemoveRecipient, Change
    <2>. QED
      BY <1>4, <2>1, <2>2, DraftStays DEF RemoveRecipient
  <1>. QED
    BY <1>2, <1>3, <1>4 DEF ToRecipients

-----------------------------------------------------------------------------
LEMMA SubmitKept == ASSUME ComposerInv, Submit PROVE ComposerInv'
  <1>1. /\ submitted' = [nodes |-> draftSteps, shifted |-> shifted, answer |-> "asked"]
        /\ UNCHANGED <<draftSteps, mode, view, shifted, saved, fetching, uploadVars, last, changes>>
    BY DEF Submit, builderVars
  <1>2. GoodBody([nodes |-> draftSteps, shifted |-> shifted, answer |-> "asked"])
    BY DraftFacts DEF GoodBody, ComposerInv, Answers
  <1>3. ColumnsKept'
    BY <1>1, ColumnsStay DEF ComposerInv
  <1>4. (last.answer = "refused" => ~Accepts(last.nodes))'
    BY <1>1, PostStay DEF ComposerInv
  <1>5. PICK a, b, c, e : /\ a = draftSteps /\ b = shifted /\ c = saved /\ e = last
                          /\ a = draftSteps' /\ b = shifted' /\ c = saved' /\ e = last'
    BY <1>1
  <1>6. GoodDraft(a, b) /\ GoodBody(c) /\ GoodBody(e)
    BY <1>5 DEF ComposerInv
  <1>7. GoodDraft(draftSteps, shifted)' /\ GoodBody(saved)' /\ GoodBody(submitted)' /\ GoodBody(last)'
    BY <1>1, <1>2, <1>5, <1>6
  <1>. QED
    BY <1>1, <1>3, <1>4, <1>7 DEF ComposerInv

LEMMA AnswerKept == ASSUME ComposerInv, Answer PROVE ComposerInv'
  <1>1. PICK b : b = submitted
    OBVIOUS
  <1>2. GoodBody(b)
    BY <1>1 DEF ComposerInv
  <1>3. PICK answer \in {"created", "refused"} :
           answer = IF Accepts(b.nodes) THEN "created" ELSE "refused"
    OBVIOUS
  <1>4. PICK new : new = [b EXCEPT !.answer = answer]
    OBVIOUS
  <1>5. GoodBody(new) /\ new.nodes = b.nodes /\ new.answer = answer
    BY <1>2, <1>4 DEF GoodBody, Answers
  <1>6. new.answer = "refused" => ~Accepts(new.nodes)
    BY <1>3, <1>5
  <1>7. /\ last' = new /\ submitted' = NoPost /\ view' \in {"away", view}
        /\ UNCHANGED <<draftSteps, mode, shifted, saved, fetching, uploadVars, changes>>
    BY <1>1, <1>3, <1>4 DEF Answer
  <1>8. ColumnsKept'
    BY <1>7, ColumnsStay DEF ComposerInv
  <1>9. PICK s, moved, c : /\ s = draftSteps /\ moved = shifted /\ c = saved
                           /\ s = draftSteps' /\ moved = shifted' /\ c = saved'
    BY <1>7
  <1>10. GoodDraft(s, moved) /\ GoodBody(c) /\ GoodBody(NoPost)
    BY <1>9, EmptyIsGood DEF ComposerInv
  <1>11. GoodDraft(draftSteps, shifted)' /\ GoodBody(saved)' /\ GoodBody(submitted)' /\ GoodBody(last)'
    <2>1. GoodBody(submitted')
      BY <1>7, <1>10
    <2>. QED
      BY <1>5, <1>7, <1>9, <1>10, <2>1
  <1>12. (last.answer = "refused" => ~Accepts(last.nodes))'
    BY <1>6, <1>7
  <1>. QED
    BY <1>7, <1>8, <1>11, <1>12 DEF ComposerInv

LEMMA DiscardKept == ASSUME ComposerInv, Discard PROVE ComposerInv'
  <1>1. /\ draftSteps' = <<>> /\ shifted' = FALSE /\ to' = {} /\ view' = "away"
        /\ UNCHANGED <<mode, saved, fetching, columns, parses, picked, parsedTogether, submitted, last>>
    BY DEF Discard, postVars
  <1>2. changes' \in 0..MaxChanges
    BY ChangeCounts DEF Discard, Change, ComposerInv
  <1>3. ColumnsKept'
    BY <1>1 DEF ComposerInv, ColumnsKept, Parsing
  <1>4. (last.answer = "refused" => ~Accepts(last.nodes))'
    BY <1>1, PostStay DEF ComposerInv
  <1>5. PICK c, d, e : /\ c = saved /\ d = submitted /\ e = last
                       /\ c = saved' /\ d = submitted' /\ e = last'
    BY <1>1
  <1>6. GoodBody(c) /\ GoodBody(d) /\ GoodBody(e)
    BY <1>5 DEF ComposerInv
  <1>7. GoodDraft(draftSteps, shifted)' /\ GoodBody(saved)' /\ GoodBody(submitted)' /\ GoodBody(last)'
    BY <1>1, <1>5, <1>6, EmptyIsGood
  <1>. QED
    BY <1>1, <1>2, <1>3, <1>4, <1>7 DEF ComposerInv

LEMMA VisitKept == ASSUME ComposerInv, Visit PROVE ComposerInv'
  <1>1. /\ view' = "open" /\ mode' = "simple" /\ fetching' \in BOOLEAN
        /\ UNCHANGED <<draftSteps, shifted, saved, uploadVars, postVars>>
    BY DEF Visit
  <1>2. changes' \in 0..MaxChanges
    BY ChangeCounts DEF Visit, ComposerInv
  <1>3. Elsewhere'
    BY <1>1, <1>2, ElsewhereStays, DraftAndRest DEF Elsewhere
  <1>4. GoodDraft(draftSteps, shifted)'
    BY <1>1 DEF ComposerInv
  <1>. QED
    BY <1>1, <1>3, <1>4 DEF ComposerInv, Elsewhere

LEMMA ComposerMoves == ASSUME ComposerInv, ComposerNext PROVE ComposerInv'
  BY BuilderKept, SaveKept, TemplateKept, UploadKept, SubmitKept, AnswerKept, DiscardKept, VisitKept
  DEF ComposerNext

LEMMA ComposerStep == ComposerInv /\ [ComposerNext]_composerVars => ComposerInv'
  <1>1. ASSUME ComposerInv, UNCHANGED composerVars PROVE ComposerInv'
    <2>1. UNCHANGED <<builderVars, uploadVars, postVars, changes>>
      BY <1>1 DEF composerVars
    <2>2. ColumnsKept'
      BY <1>1, <2>1, ColumnsStay DEF ComposerInv
    <2>. QED
      BY <1>1, <2>1, <2>2, DraftStays DEF ComposerInv
  <1>. QED
    BY <1>1, ComposerMoves

-----------------------------------------------------------------------------
LEMMA ComposerImplies == ComposerInv => ComposerTypeOK /\ ComposedAsChosen
  <1>. SUFFICES ASSUME ComposerInv PROVE ComposerTypeOK /\ ComposedAsChosen
    OBVIOUS
  <1>1. ASSUME NEW b, GoodBody(b)
        PROVE  /\ Len(b.nodes) <= MaxDraftSteps /\ \A i \in DOMAIN b.nodes : b.nodes[i] \in Steps
               /\ b.shifted \in BOOLEAN /\ b.answer \in Answers
    BY <1>1, DraftDomain DEF GoodBody, GoodDraft
  <1>2. ComposerTypeOK
    <2>1. /\ Len(draftSteps) <= MaxDraftSteps /\ \A i \in DOMAIN draftSteps : draftSteps[i] \in Steps
          /\ \A i, j \in DOMAIN draftSteps : draftSteps[i].id = draftSteps[j].id => i = j
      BY DraftDomain DEF ComposerInv, GoodDraft, IdsDiffer
    <2>2. \A b \in {submitted, last, saved} :
             /\ Len(b.nodes) <= MaxDraftSteps /\ \A i \in DOMAIN b.nodes : b.nodes[i] \in Steps
             /\ b.shifted \in BOOLEAN /\ b.answer \in {"none", "asked", "created", "refused"}
      BY <1>1 DEF ComposerInv, Answers
    <2>. QED
      BY <2>1, <2>2 DEF ComposerTypeOK, ComposerInv, ColumnsKept
  <1>3. RoutesAsChosen
    <2>. DEFINE s == last.nodes
    <2>. SUFFICES ASSUME ~last.shifted, NEW i \in DOMAIN s
                  PROVE  /\ IF s[i].want = NoStep THEN Matched(s, i) = NextPosition(s, i)
                            ELSE Matched(s, i) # 0 /\ s[Matched(s, i)].id = s[i].want
                         /\ IF s[i].wantElse = NoStep THEN s[i].noMatch = 0
                            ELSE s[i].noMatch # 0 /\ s[s[i].noMatch].id = s[i].wantElse
      BY DEF RoutesAsChosen
    <2>1. GoodDraft(s, last.shifted)
      BY DEF ComposerInv, GoodBody
    <2>. HIDE DEF s
    <2>2. MatchRight(s, i) /\ NoMatchRight(s, i) /\ 0 \notin DOMAIN s
      BY <2>1, DraftDomain DEF GoodDraft, RoutesRight
    <2>. QED
      BY <2>2 DEF MatchRight, NoMatchRight, Matched
  <1>4. SimpleIsAccepted
    <2>1. last.nodes \in Seq(Steps) /\ RulesRight(last.nodes)
      BY DEF ComposerInv, GoodBody, GoodDraft
    <2>. QED
      BY <2>1, PlainAccepted DEF ComposerInv, SimpleIsAccepted
  <1>5. ColumnsLostOnlyByOverlap
    BY DEF ComposerInv, ColumnsKept, ColumnsLostOnlyByOverlap
  <1>. QED
    BY <1>2, <1>3, <1>4, <1>5 DEF ComposedAsChosen

(***************************************************************************)
(* All components.  Each keeps its own invariant while it is the one that  *)
(* runs; the others have no say in it.                                     *)
(***************************************************************************)
mailVars ==
  <<part, limitsVars, poolVars, priorityVars, lifecycleVars, trackingVars, inboxVars, composerVars,
    sendersVars, replyVars, imapVars, materialVars, domainVars, timingVars>>

MailSpec == Init /\ [][Next]_mailVars

MailInv ==
  /\ (part = "limits"    => LimitsInv)
  /\ (part = "pool"      => PoolInv)
  /\ (part = "priority"  => PriorityInv)
  /\ (part = "lifecycle" => LifecycleInv)
  /\ (part = "tracking"  => TrackingInv)
  /\ (part = "inbox"     => InboxInv)
  /\ (part = "composer"  => ComposerInv)
  /\ (part \in {"accounts", "senders"} => TestedInv /\ ExcusedInv)
  /\ (part = "replies"   => RecordsInv /\ AroundTyped)
  /\ (part = "imap"      => ImapInv)
  /\ (part = "material"  => MaterialInv)
  /\ (part = "domain"    => DomainInv)
  /\ (part = "timing"    => TimingInv)

LEMMA MailStarts == Init => MailInv
  <1>. SUFFICES ASSUME Init PROVE MailInv
    OBVIOUS
  <1>1. /\ (part = "limits" => LimitsInit) /\ (part = "pool" => PoolInit)
        /\ (part = "priority" => PriorityInit) /\ (part = "tracking" => TrackingInit)
        /\ (part = "inbox" => InboxInit) /\ (part = "composer" => ComposerInit)
        /\ (part = "imap" => ImapInit) /\ (part = "material" => MaterialInit)
        /\ (part = "domain" => DomainInit)
        /\ LifecycleInit /\ SendersInit /\ ReplyInit /\ TimingInit
    BY DEF Init
  <1>. QED
    BY <1>1, LimitsStarts, PoolStarts, PriorityStarts, LifecycleStarts, TrackingStarts, InboxStarts,
       ComposerStarts, TestedInit, ExcusedInit, RepliesInit, ImapStarts, MaterialStarts, DomainStarts,
       TimingStarts
    DEF MailInv

LEMMA MailStep == MailInv /\ [Next]_mailVars => MailInv'
  <1>. SUFFICES ASSUME MailInv, [Next]_mailVars PROVE MailInv'
    OBVIOUS
  <1>1. part' = part
    BY DEF Next, mailVars
  <1>2. /\ (part = "limits"    => [LimitsNext]_limitsVars)
        /\ (part = "pool"      => [PoolNext]_poolVars)
        /\ (part = "priority"  => [PriorityNext]_priorityVars)
        /\ (part = "lifecycle" => [LifecycleNext]_lifecycleVars)
        /\ (part = "tracking"  => [TrackingNext]_trackingVars)
        /\ (part = "inbox"     => [InboxNext]_inboxVars)
        /\ (part = "composer"  => [ComposerNext]_composerVars)
        /\ (part \in {"accounts", "senders"} => [SendersNext]_sendersVars)
        /\ (part = "replies"   => [ReplyNext]_replyVars)
        /\ (part = "imap"      => [ImapNext]_imapVars)
        /\ (part = "material"  => [MaterialNext]_materialVars)
        /\ (part = "domain"    => [DomainNext]_domainVars)
        /\ (part = "timing"    => [TimingNext]_timingVars)
    <2>1. CASE Next
      BY <2>1 DEF Next
    <2>2. CASE UNCHANGED mailVars
      BY <2>2 DEF mailVars
    <2>. QED
      BY <2>1, <2>2
  <1>3. part = "limits" => LimitsInv'
    BY <1>2, LimitsStep DEF MailInv
  <1>4. part = "pool" => PoolInv'
    BY <1>2, PoolStep DEF MailInv
  <1>5. part = "priority" => PriorityInv'
    BY <1>2, PriorityInvKept DEF MailInv
  <1>6. part = "lifecycle" => LifecycleInv'
    BY <1>2, LifecycleStep DEF MailInv
  <1>7. part = "tracking" => TrackingInv'
    BY <1>2, TrackingStep DEF MailInv
  <1>8. part = "inbox" => InboxInv'
    BY <1>2, InboxStep DEF MailInv
  <1>9. part = "composer" => ComposerInv'
    BY <1>2, ComposerStep DEF MailInv
  <1>10. part \in {"accounts", "senders"} => TestedInv' /\ ExcusedInv'
    BY <1>2, TestedStep, ExcusedStep DEF MailInv
  <1>11. part = "replies" => RecordsInv' /\ AroundTyped'
    BY <1>2, RecordsStep, AroundStep DEF MailInv
  <1>12. part = "imap" => ImapInv'
    BY <1>2, ImapStep DEF MailInv
  <1>13. part = "material" => MaterialInv'
    BY <1>2, MaterialStep DEF MailInv
  <1>14. part = "domain" => DomainInv'
    BY <1>2, DomainStepKept DEF MailInv
  <1>15. part = "timing" => TimingInv'
    BY <1>2, TimingStep DEF MailInv
  <1>. QED
    BY <1>1, <1>3, <1>4, <1>5, <1>6, <1>7, <1>8, <1>9, <1>10, <1>11, <1>12, <1>13, <1>14, <1>15
    DEF MailInv

LEMMA MailAlways == MailSpec => []MailInv
  BY MailStarts, MailStep, PTL DEF MailSpec

\* Whichever component runs keeps its variables in their types, for all the constants.
THEOREM TypesCorrect == MailSpec => []TypesOK
  <1>1. MailInv => TypesOK
    BY LimitsImplies, PoolImplies, PriorityImplies, TrackingImplies, InboxImplies, ComposerImplies,
       RepliesTyped, ImapImplies, MaterialImplies, DomainImplies, TimingTyped
    DEF MailInv, TypesOK, LifecycleInv, TestedInv
  <1>. QED
    BY <1>1, MailAlways, PTL

\* emailWorker.ts, throttleEngine.ts, dailyLimitTracker.ts: a sender's limit of the day is
\* passed by at most one mail for each other run and each increment a cache fill overwrote,
\* the counters of minute and hour by one for each other run, and mails of one sender
\* overlap only as often as a mail outlasted its slot, for any runs and limits.
THEOREM ThrottleSoundCorrect == MailSpec => []ThrottleSound
  <1>1. MailInv => ThrottleSound
    BY LimitsImplies DEF MailInv, ThrottleSound
  <1>. QED
    BY <1>1, MailAlways, PTL

\* emailWorker.ts, replyDetector.ts: no transporter is closed under a run that sends with
\* it, and the pool hands an IMAP connection to one scan at a time and loses none as long
\* as its acquisitions do not cross, for any runs, scans and connections.
THEOREM ConnectionsSoundCorrect == MailSpec => []ConnectionsSound
  <1>1. MailInv => ConnectionsSound
    BY PoolImplies, ImapImplies DEF MailInv, ConnectionsSound
  <1>. QED
    BY <1>1, MailAlways, PTL

\* priorityEmailWorker.ts: a mail with a priority row leaves twice only after an attempt
\* has taken the row over, and an open row has an entry in the queue or a run unless the
\* warmup refused it, for any mails and runs, whatever crashes.
THEOREM PrioritySoundCorrect == MailSpec => []PrioritySound
  <1>1. MailInv => PrioritySound
    BY PriorityImplies DEF MailInv, PrioritySound
  <1>. QED
    BY <1>1, MailAlways, PTL

\* trackingControllers.ts, trackingBufferService.ts, trackingDomainService.ts: a hit
\* becomes a row at most once, however flushes overlap, die or fail; and links lead to the
\* default domain or to one a check has found, unless it was saved during a check. For any
\* hits, flushes, workspaces and domains.
THEOREM TrackingSoundCorrect == MailSpec => []TrackingSound
  <1>1. MailInv => TrackingSound
    BY TrackingImplies, DomainImplies DEF MailInv, TrackingSound
  <1>. QED
    BY <1>1, MailAlways, PTL

\* inboxService.ts and the inbox page: a letter is stored twice only if two
\* synchronisations looked for it before either stored it, and a reply leaves from another
\* mailbox than its letter's only after a late answer or a reload, for any letters and
\* senders.
THEOREM InboxSoundCorrect == MailSpec => []InboxSound
  <1>1. MailInv => InboxSound
    BY InboxImplies DEF MailInv, InboxSound
  <1>. QED
    BY <1>1, MailAlways, PTL

\* The compose page, templateControllers.ts and the attachments: what is posted has the
\* routes, conditions and columns the user chose but for files parsed at the same time; a
\* mail misses a file only if it was deleted while held; default templates stay. For any
\* steps, files, templates and requests.
THEOREM PostedAsChosenCorrect == MailSpec => []PostedAsChosen
  <1>1. MailInv => PostedAsChosen
    BY ComposerImplies, MaterialImplies DEF MailInv, PostedAsChosen
  <1>. QED
    BY <1>1, MailAlways, PTL
==============================================================================
