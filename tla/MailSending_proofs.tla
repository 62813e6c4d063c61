------------------------- MODULE MailSending_proofs -------------------------
(***************************************************************************)
(* What holds a sender back and keeps its connections, for any number of   *)
(* mails, runs, scans and connections: the limits (SenderLimits), the SMTP *)
(* transporters (SmtpPool), the IMAP connections (ImapPool), and the queue *)
(* of priority mails (PriorityMail).                                       *)
(***************************************************************************)
EXTENDS SenderLimits, SmtpPool, ImapPool, PriorityMail, FiniteSetTheorems, SequenceTheorems, TLAPS

(***************************************************************************)
(* The limits of a sender.  Each bound leaves room for the runs that have  *)
(* passed its check and have not been counted, so a run that passes is     *)
(* counted on both sides; the cached count of the day is behind by the     *)
(* runs that have still to increment it and by what a fill has lost.       *)
(***************************************************************************)
ErrorRec == [count : Nat, cooling : BOOLEAN, quarantined : BOOLEAN]
NotedRec == [count : Nat, day : Nat, since : Nat, errors : ErrorRec]

LimitsTyped ==
  /\ at \in [Runs -> RunSteps] /\ noted \in [Runs -> NotedRec]
  /\ sentRows \in Nat /\ failedRows \in Nat /\ dayCount \in Nat \cup {NoCount}
  /\ minuteCount \in Nat /\ hourCount \in Nat /\ errors \in ErrorRec
  /\ slot \in {"free", "sending", "cooldown"} /\ domainCount \in Nat
  /\ day \in Nat /\ turns \in 0..MaxTurns
  /\ attempted \in 0..MaxAttempted /\ slips \in 0..MaxSlips
  /\ accepted \in Nat /\ lost \in Nat

\* The runs at some of the steps.
AtSteps(S) == {w \in Runs : at[w] \in S}

InsideSteps == {"domain", "domainCount", "sending"}
WindowSteps == {"daily", "fillDaily", "slot", "domain", "domainCount", "sending", "persist",
                "record", "recordError"}
PassedSteps == {"slot", "domain", "domainCount", "sending"}
UncountedSteps == {"persist", "record", "increment"}
Stale == {w \in Runs : at[w] = "fillDaily" /\ noted[w].day # day}

InsideCount == Cardinality(AtSteps(InsideSteps))
CapCount == Cardinality(AtSteps({"domainCount"}))
WindowCount == Cardinality(AtSteps(WindowSteps))
PersistCount == Cardinality(AtSteps({"persist"}))
PassedCount == Cardinality(AtSteps(PassedSteps))
UncountedCount == Cardinality(AtSteps(UncountedSteps))
StaleCount == Cardinality(Stale)

SlotKept ==
  /\ InsideCount <= slips + (IF slot = "sending" THEN 1 ELSE 0)
  /\ domainCount + CapCount <= DomainCap + slips

WindowsKept ==
  /\ minuteCount + WindowCount <= ProviderLimits.minute + Cardinality(Runs) - 1
  /\ hourCount + WindowCount <= ProviderLimits.hour + Cardinality(Runs) - 1

DayLimit == AtLeastOne(Least(ProviderLimits.day, UserLimits.day))

\* The rows, the cached count and what a run has read of the rows, against what was accepted.
Cached == IF dayCount = NoCount THEN 0 ELSE dayCount

DayCounted ==
  /\ accepted <= sentRows + PersistCount
  /\ accepted <= Cached + lost + UncountedCount
  /\ \A w \in Filling :
       /\ noted[w].day <= day
       /\ noted[w].day = day =>
            accepted <= noted[w].count + noted[w].since + lost + UncountedCount

DayKept ==
  accepted + PassedCount + StaleCount
    <= DayLimit + Cardinality(Runs) - 1 + lost

LimitsInv == LimitsTyped /\ SlotKept /\ WindowsKept /\ DayCounted /\ DayKept

-----------------------------------------------------------------------------
\* Counting the runs at some steps while one of them moves.
LEMMA AtStepsFinite ==
  ASSUME NEW S
  PROVE  /\ IsFiniteSet(AtSteps(S)) /\ Cardinality(AtSteps(S)) \in Nat
         /\ Cardinality(AtSteps(S)) <= Cardinality(Runs) /\ Cardinality(Runs) \in Nat
  <1>1. IsFiniteSet(Runs)
    BY LimitsAssumption DEF LimitsAssumption
  <1>2. AtSteps(S) \subseteq Runs
    BY DEF AtSteps
  <1>. QED
    BY <1>1, <1>2, FS_Subset, FS_CardinalityType

LEMMA RunMoves ==
  ASSUME at \in [Runs -> RunSteps], NEW w \in Runs, NEW to, MoveOn(w, to), NEW S
  PROVE  Cardinality(AtSteps(S)') =
           Cardinality(AtSteps(S)) + (IF to \in S THEN 1 ELSE 0) - (IF at[w] \in S THEN 1 ELSE 0)
  <1>1. IsFiniteSet(AtSteps(S)) /\ Cardinality(AtSteps(S)) \in Nat
    BY AtStepsFinite
  <1>2. at'[w] = to /\ \A v \in Runs \ {w} : at'[v] = at[v]
    BY DEF MoveOn
  <1>3. CASE to \in S /\ at[w] \in S
    <2>1. AtSteps(S)' = AtSteps(S)
      BY <1>2, <1>3 DEF AtSteps
    <2>. QED
      BY <1>1, <1>3, <2>1
  <1>4. CASE to \in S /\ at[w] \notin S
    <2>1. AtSteps(S)' = AtSteps(S) \cup {w} /\ w \notin AtSteps(S)
      BY <1>2, <1>4 DEF AtSteps
    <2>2. Cardinality(AtSteps(S) \cup {w}) = Cardinality(AtSteps(S)) + 1
      BY <1>1, <2>1, FS_AddElement
    <2>. QED
      BY <1>1, <1>4, <2>1, <2>2
  <1>5. CASE to \notin S /\ at[w] \in S
    <2>1. AtSteps(S)' = AtSteps(S) \ {w} /\ w \in AtSteps(S)
      BY <1>2, <1>5 DEF AtSteps
    <2>2. Cardinality(AtSteps(S) \ {w}) = Cardinality(AtSteps(S)) - 1
      BY <1>1, <2>1, FS_RemoveElement
    <2>. QED
      BY <1>1, <1>5, <2>1, <2>2
  <1>6. CASE to \notin S /\ at[w] \notin S
    <2>1. AtSteps(S)' = AtSteps(S)
      BY <1>2, <1>6 DEF AtSteps
    <2>. QED
      BY <1>1, <1>6, <2>1
  <1>. QED
    BY <1>3, <1>4, <1>5, <1>6

LEMMA AtStepsRest ==
  ASSUME at' = at, NEW S
  PROVE  Cardinality(AtSteps(S)') = Cardinality(AtSteps(S))
  BY DEF AtSteps

LEMMA AtStepsWithin ==
  ASSUME NEW S, NEW T, S \subseteq T
  PROVE  Cardinality(AtSteps(S)) <= Cardinality(AtSteps(T))
  BY AtStepsFinite, FS_Subset DEF AtSteps

\* Runs at different steps are different.
LEMMA Apart ==
  /\ PassedCount + UncountedCount + StaleCount <= Cardinality(Runs)
  /\ \A w \in Runs : at[w] \notin PassedSteps \cup UncountedSteps /\ w \notin Stale =>
       PassedCount + UncountedCount + StaleCount < Cardinality(Runs)
  <1>. DEFINE A == AtSteps(PassedSteps) B == AtSteps(UncountedSteps)
  <1>1. IsFiniteSet(Runs) /\ IsFiniteSet(A) /\ IsFiniteSet(B) /\ IsFiniteSet(Stale)
    BY LimitsAssumption, AtStepsFinite, FS_Subset DEF LimitsAssumption, Stale
  <1>2. A \cap B = {} /\ (A \cup B) \cap Stale = {} /\ (A \cup B) \cup Stale \subseteq Runs
    BY DEF AtSteps, PassedSteps, UncountedSteps, Stale
  <1>b. ASSUME NEW w \in Runs, at[w] \notin PassedSteps \cup UncountedSteps, w \notin Stale
        PROVE  w \notin (A \cup B) \cup Stale
    BY <1>b DEF AtSteps
  <1>. HIDE DEF A, B
  <1>a. ASSUME NEW X, NEW Y, IsFiniteSet(X), IsFiniteSet(Y), X \cap Y = {}
        PROVE  IsFiniteSet(X \cup Y) /\ Cardinality(X \cup Y) = Cardinality(X) + Cardinality(Y)
    <2>1. /\ IsFiniteSet(X \cup Y)
          /\ Cardinality(X \cup Y) = Cardinality(X) + Cardinality(Y) - Cardinality(X \cap Y)
      BY <1>a, FS_Union
    <2>2. Cardinality(X \cap Y) = 0
      BY <1>a, FS_EmptySet
    <2>3. Cardinality(X) \in Nat /\ Cardinality(Y) \in Nat
      BY <1>a, FS_CardinalityType
    <2>. QED
      BY <2>1, <2>2, <2>3
  <1>3. IsFiniteSet(A \cup B) /\ Cardinality(A \cup B) = Cardinality(A) + Cardinality(B)
    BY <1>1, <1>2, <1>a
  <1>4. Cardinality((A \cup B) \cup Stale) = Cardinality(A \cup B) + Cardinality(Stale)
    BY <1>1, <1>2, <1>3, <1>a
  <1>5. Cardinality((A \cup B) \cup Stale) <= Cardinality(Runs)
    BY <1>1, <1>2, FS_Subset
  <1>6. ASSUME NEW w \in Runs, w \notin (A \cup B) \cup Stale
        PROVE  Cardinality((A \cup B) \cup Stale) < Cardinality(Runs)
    <2>1. (A \cup B) \cup Stale # Runs
      BY <1>6
    <2>2. IsFiniteSet((A \cup B) \cup Stale)
      BY <1>1, <1>2, FS_Subset
    <2>. QED
      BY <1>1, <1>2, <2>1, <2>2, FS_Subset, FS_CardinalityType
  <1>. QED
    BY <1>1, <1>3, <1>4, <1>5, <1>6, <1>b DEF A, B, PassedCount, UncountedCount, StaleCount

\* What the checks let pass is below the limits.
LEMMA CheckedLimits ==
  ASSUME LimitsTyped
  PROVE  /\ PerMinute \in Nat /\ PerHour \in Nat /\ PerDay \in Nat
         /\ PerMinute <= ProviderLimits.minute /\ PerHour <= ProviderLimits.hour
         /\ PerDay <= DayLimit
  <1>1. /\ ProviderLimits.minute \in Nat \ {0} /\ ProviderLimits.hour \in Nat \ {0}
        /\ ProviderLimits.day \in Nat \ {0} /\ UserLimits.hour \in Nat /\ UserLimits.day \in Nat
        /\ CampaignHour \in Nat /\ WarmupLimits \in Seq(Nat)
    BY LimitsAssumption DEF LimitsAssumption
  <1>2. ASSUME NEW n \in Nat, NEW top \in Nat \ {0}, n <= top
        PROVE  Adapted(n) \in Nat /\ Adapted(n) <= top
    BY <1>2 DEF Adapted, AtLeastOne
  <1>3. ASSUME NEW a \in Nat, NEW b \in Nat PROVE Least(a, b) \in Nat /\ Least(a, b) <= a /\ Least(a, b) <= b
    BY DEF Least
  <1>4. PerMinute \in Nat /\ PerMinute <= ProviderLimits.minute
    BY <1>1, <1>2 DEF PerMinute
  <1>5. PerHour \in Nat /\ PerHour <= ProviderLimits.hour
    <2>. DEFINE n == Least(ProviderLimits.hour, UserLimits.hour)
    <2>1. n \in Nat /\ n <= ProviderLimits.hour
      BY <1>1, <1>3
    <2>. HIDE DEF n
    <2>2. Adapted(n) \in Nat /\ Adapted(n) <= ProviderLimits.hour
      BY <1>1, <1>2, <2>1
    <2>3. Least(Adapted(n), CampaignHour) \in Nat /\ Least(Adapted(n), CampaignHour) <= Adapted(n)
      BY <1>1, <1>3, <2>2
    <2>. QED
      BY <1>1, <2>2, <2>3 DEF PerHour, n
  <1>6. PerDay \in Nat /\ PerDay <= DayLimit
    <2>. DEFINE n == Least(ProviderLimits.day, UserLimits.day)
                m == IF InWarmup THEN Least(n, WarmupLimits[day + 1]) ELSE n
    <2>1. n \in Nat
      BY <1>1, <1>3
    <2>2. InWarmup => WarmupLimits[day + 1] \in Nat
      <3>1. InWarmup => day + 1 \in 1..Len(WarmupLimits)
        BY <1>1, LenProperties DEF InWarmup, LimitsTyped
      <3>. QED
        BY <1>1, <3>1, ElementOfSeq
    <2>. HIDE DEF n
    <2>3. m \in Nat /\ m <= n
      <3>1. CASE InWarmup
        BY <1>3, <2>1, <2>2, <3>1
      <3>2. CASE ~InWarmup
        BY <2>1, <3>2
      <3>. QED
        BY <3>1, <3>2
    <2>4. DayLimit \in Nat \ {0} /\ n <= DayLimit
      BY <2>1 DEF DayLimit, AtLeastOne, n
    <2>. HIDE DEF m
    <2>5. Adapted(m) \in Nat /\ Adapted(m) <= DayLimit
      BY <1>2, <2>1, <2>3, <2>4
    <2>. QED
      BY <2>5 DEF PerDay, m, n
  <1>. QED
    BY <1>4, <1>5, <1>6

LEMMA LimitsStarts == LimitsInit => LimitsInv
  <1>. SUFFICES ASSUME LimitsInit PROVE LimitsInv
    OBVIOUS
  <1>. USE LimitsAssumption DEF LimitsAssumption
  <1>1. LimitsTyped
    BY DEF LimitsInit, LimitsTyped, NotedRec, ErrorRec, Unnoted, NoErrors, RunSteps
  <1>2. ASSUME NEW S, "idle" \notin S PROVE Cardinality(AtSteps(S)) = 0
    <2>1. AtSteps(S) = {}
      BY <1>2 DEF LimitsInit, AtSteps
    <2>. QED
      BY <2>1, FS_EmptySet
  <1>3. Cardinality(Stale) = 0 /\ Filling = {}
    <2>1. Stale = {} /\ Filling = {}
      BY DEF LimitsInit, Stale, Filling
    <2>. QED
      BY <2>1, FS_EmptySet
  <1>4. Cardinality(Runs) \in Nat \ {0}
    BY FS_CardinalityType, FS_EmptySet
  <1>5. SlotKept
    <2>1. Cardinality(AtSteps(InsideSteps)) = 0
      BY <1>2 DEF InsideSteps
    <2>2. Cardinality(AtSteps({"domainCount"})) = 0
      BY <1>2
    <2>. QED
      BY <2>1, <2>2 DEF SlotKept, LimitsInit, InsideCount, CapCount
  <1>6. WindowsKept
    <2>1. Cardinality(AtSteps(WindowSteps)) = 0
      BY <1>2 DEF WindowSteps
    <2>. QED
      BY <1>4, <2>1 DEF WindowsKept, LimitsInit, WindowCount
  <1>7. DayCounted
    <2>1. Cardinality(AtSteps({"persist"})) = 0
      BY <1>2
    <2>2. Cardinality(AtSteps(UncountedSteps)) = 0
      BY <1>2 DEF UncountedSteps
    <2>. QED
      BY <1>3, <2>1, <2>2 DEF DayCounted, LimitsInit, PersistCount, UncountedCount, Cached
  <1>8. DayKept
    <2>1. Cardinality(AtSteps(PassedSteps)) = 0
      BY <1>2 DEF PassedSteps
    <2>2. DayLimit \in Nat
      BY DEF DayLimit, AtLeastOne, Least
    <2>. QED
      BY <1>3, <1>4, <2>1, <2>2 DEF DayKept, LimitsInit, PassedCount, StaleCount
  <1>. QED
    BY <1>1, <1>5, <1>6, <1>7, <1>8 DEF LimitsInv

-----------------------------------------------------------------------------
Counts == <<InsideCount, CapCount, WindowCount, PersistCount, PassedCount, UncountedCount>>

LEMMA CountsAreNumbers ==
  /\ InsideCount \in Nat /\ CapCount \in Nat /\ WindowCount \in Nat /\ PersistCount \in Nat
  /\ PassedCount \in Nat /\ UncountedCount \in Nat /\ StaleCount \in Nat
  /\ Cardinality(Runs) \in Nat \ {0}
  /\ WindowCount <= Cardinality(Runs) /\ CapCount <= InsideCount /\ PersistCount <= UncountedCount
  <1>1. IsFiniteSet(Stale) /\ StaleCount \in Nat
    BY LimitsAssumption, FS_Subset, FS_CardinalityType DEF LimitsAssumption, Stale, StaleCount
  <1>2. CapCount <= InsideCount
    BY AtStepsWithin DEF CapCount, InsideCount, InsideSteps
  <1>3. PersistCount <= UncountedCount
    BY AtStepsWithin DEF PersistCount, UncountedCount, UncountedSteps
  <1>4. Cardinality(Runs) \in Nat \ {0}
    BY LimitsAssumption, FS_CardinalityType, FS_EmptySet DEF LimitsAssumption
  <1>5. /\ InsideCount \in Nat /\ CapCount \in Nat /\ WindowCount \in Nat /\ PersistCount \in Nat
        /\ PassedCount \in Nat /\ UncountedCount \in Nat /\ WindowCount <= Cardinality(Runs)
    BY AtStepsFinite DEF InsideCount, CapCount, WindowCount, PersistCount, PassedCount, UncountedCount
  <1>. QED
    BY <1>1, <1>2, <1>3, <1>4, <1>5

In(step, S) == IF step \in S THEN 1 ELSE 0

LEMMA CountsMove ==
  ASSUME LimitsTyped, NEW w \in Runs, NEW to, MoveOn(w, to)
  PROVE  /\ InsideCount' = InsideCount + In(to, InsideSteps) - In(at[w], InsideSteps)
         /\ CapCount' = CapCount + In(to, {"domainCount"}) - In(at[w], {"domainCount"})
         /\ WindowCount' = WindowCount + In(to, WindowSteps) - In(at[w], WindowSteps)
         /\ PersistCount' = PersistCount + In(to, {"persist"}) - In(at[w], {"persist"})
         /\ PassedCount' = PassedCount + In(to, PassedSteps) - In(at[w], PassedSteps)
         /\ UncountedCount' = UncountedCount + In(to, UncountedSteps) - In(at[w], UncountedSteps)
         /\ InsideCount' \in Nat /\ CapCount' \in Nat /\ WindowCount' \in Nat
         /\ PersistCount' \in Nat /\ PassedCount' \in Nat /\ UncountedCount' \in Nat
  <1>1. at \in [Runs -> RunSteps]
    BY DEF LimitsTyped
  <1>2. \A S : /\ Cardinality(AtSteps(S)') = Cardinality(AtSteps(S)) + In(to, S) - In(at[w], S)
               /\ Cardinality(AtSteps(S)) \in Nat /\ (at[w] \in S => Cardinality(AtSteps(S)) > 0)
    <2>. TAKE S
    <2>1. Cardinality(AtSteps(S)') = Cardinality(AtSteps(S)) + In(to, S) - In(at[w], S)
      BY <1>1, RunMoves DEF In
    <2>2. IsFiniteSet(AtSteps(S)) /\ Cardinality(AtSteps(S)) \in Nat
      BY AtStepsFinite
    <2>3. at[w] \in S => AtSteps(S) # {}
      BY DEF AtSteps
    <2>. QED
      BY <2>1, <2>2, <2>3, FS_EmptySet
  <1>3. \A S : Cardinality(AtSteps(S)') \in Nat
    BY <1>2 DEF In
  <1>4. /\ InsideCount' = Cardinality(AtSteps(InsideSteps)')
        /\ CapCount' = Cardinality(AtSteps({"domainCount"})')
        /\ WindowCount' = Cardinality(AtSteps(WindowSteps)')
        /\ PersistCount' = Cardinality(AtSteps({"persist"})')
        /\ PassedCount' = Cardinality(AtSteps(PassedSteps)')
        /\ UncountedCount' = Cardinality(AtSteps(UncountedSteps)')
    BY DEF InsideCount, CapCount, WindowCount, PersistCount, PassedCount, UncountedCount,
       InsideSteps, WindowSteps, PassedSteps, UncountedSteps
  <1>. QED
    BY <1>2, <1>3, <1>4 DEF InsideCount, CapCount, WindowCount, PersistCount, PassedCount, UncountedCount

LEMMA CountsRest ==
  ASSUME at' = at
  PROVE  UNCHANGED Counts
  BY DEF Counts, InsideCount, CapCount, WindowCount, PersistCount, PassedCount, UncountedCount, AtSteps,
     InsideSteps, WindowSteps, PassedSteps, UncountedSteps

LEMMA StaleMoves ==
  ASSUME LimitsTyped, NEW w \in Runs, NEW to, MoveOn(w, to), day' = day,
         \A v \in Runs \ {w} : noted'[v].day = noted[v].day,
         to = "fillDaily" => noted'[w].day = day
  PROVE  StaleCount' \in Nat /\ StaleCount' = StaleCount - (IF w \in Stale THEN 1 ELSE 0)
  <1>1. at'[w] = to /\ \A v \in Runs \ {w} : at'[v] = at[v]
    BY DEF MoveOn, LimitsTyped
  <1>2. Stale' = Stale \ {w}
    BY <1>1 DEF Stale
  <1>3. IsFiniteSet(Stale)
    BY LimitsAssumption, FS_Subset DEF LimitsAssumption, Stale
  <1>4. /\ Cardinality(Stale \ {w}) = IF w \in Stale THEN StaleCount - 1 ELSE StaleCount
        /\ Cardinality(Stale \ {w}) \in Nat /\ StaleCount \in Nat
    BY <1>3, FS_RemoveElement, FS_CardinalityType DEF StaleCount
  <1>5. StaleCount' = Cardinality(Stale \ {w})
    BY <1>2 DEF StaleCount
  <1>. QED
    BY <1>4, <1>5

-----------------------------------------------------------------------------
\* Steps outside the slot.
LEMMA SlotRests ==
  ASSUME LimitsTyped, SlotKept, NEW w \in Runs, NEW to, MoveOn(w, to),
         at[w] \notin InsideSteps, to \notin InsideSteps, UNCHANGED <<slot, slips, domainCount>>
  PROVE  SlotKept'
  <1>1. InsideCount' = InsideCount
    BY CountsMove, CountsAreNumbers DEF In
  <1>2. CapCount' = CapCount
    BY CountsMove, CountsAreNumbers DEF In, InsideSteps
  <1>. QED
    BY <1>1, <1>2 DEF SlotKept

\* Steps that pass no check of the windows and count nothing in them.
LEMMA WindowsRest ==
  ASSUME LimitsTyped, WindowsKept, NEW w \in Runs, NEW to, MoveOn(w, to),
         to \in WindowSteps => at[w] \in WindowSteps, UNCHANGED <<minuteCount, hourCount>>
  PROVE  WindowsKept'
  <1>1. WindowCount' \in Nat /\ WindowCount' <= WindowCount
    BY CountsMove, CountsAreNumbers DEF In
  <1>2. /\ minuteCount \in Nat /\ hourCount \in Nat /\ WindowCount \in Nat /\ Cardinality(Runs) \in Nat
        /\ ProviderLimits.minute \in Nat /\ ProviderLimits.hour \in Nat
    BY LimitsAssumption, CountsAreNumbers DEF LimitsTyped, LimitsAssumption
  <1>. QED
    BY <1>1, <1>2 DEF WindowsKept

DayVarsRest == UNCHANGED <<accepted, sentRows, dayCount, lost, day>>

\* Steps that count nothing of the day and fill nothing.
LEMMA DayCountedRests ==
  ASSUME LimitsTyped, DayCounted, NEW w \in Runs, NEW to, MoveOn(w, to), DayVarsRest,
         at[w] \notin UncountedSteps, to \notin UncountedSteps,
         to \notin {"fillCapacity", "fillDaily"},
         \A v \in Runs \ {w} : noted'[v] = noted[v]
  PROVE  DayCounted'
  <1>1. PersistCount' = PersistCount /\ UncountedCount' = UncountedCount
    BY CountsMove, CountsAreNumbers DEF In, UncountedSteps
  <1>2. \A v \in Filling' : v \in Filling \ {w}
    BY DEF Filling, MoveOn, LimitsTyped
  <1>. QED
    BY <1>1, <1>2 DEF DayCounted, DayVarsRest, Filling, Cached, Cached

DayNumbers ==
  /\ DayLimit \in Nat \ {0} /\ Cardinality(Runs) \in Nat \ {0} /\ accepted \in Nat /\ lost \in Nat
  /\ PassedCount \in Nat /\ StaleCount \in Nat /\ UncountedCount \in Nat /\ PersistCount \in Nat
  /\ PersistCount <= UncountedCount
  /\ PassedCount + UncountedCount + StaleCount <= Cardinality(Runs)

LEMMA DayNumbersTyped == LimitsTyped => DayNumbers
  <1>1. DayLimit \in Nat \ {0}
    BY LimitsAssumption DEF DayLimit, AtLeastOne, Least, LimitsAssumption
  <1>. QED
    BY <1>1, CountsAreNumbers, Apart DEF DayNumbers, LimitsTyped

LEMMA DayKeptRests ==
  ASSUME LimitsTyped, DayKept, NEW w \in Runs, NEW to, MoveOn(w, to), DayVarsRest,
         to \in PassedSteps => at[w] \in PassedSteps,
         \A v \in Runs \ {w} : noted'[v].day = noted[v].day,
         to = "fillDaily" => noted'[w].day = day
  PROVE  DayKept'
  <1>1. PassedCount' \in Nat /\ PassedCount' <= PassedCount
    BY CountsMove, CountsAreNumbers DEF In
  <1>2. StaleCount' \in Nat /\ StaleCount' <= StaleCount
    BY StaleMoves, CountsAreNumbers DEF DayVarsRest
  <1>. QED
    BY <1>1, <1>2, DayNumbersTyped DEF DayKept, DayNumbers, DayVarsRest, DayLimit, AtLeastOne, Least

-----------------------------------------------------------------------------
LEMMA MovesTyped ==
  ASSUME LimitsTyped, NEW w \in Runs, NEW to \in RunSteps, MoveOn(w, to)
  PROVE  at' \in [Runs -> RunSteps]
  BY DEF MoveOn, LimitsTyped

LEMMA UnnotedTyped == Unnoted \in NotedRec /\ NoErrors \in ErrorRec
  BY DEF Unnoted, NoErrors, NotedRec, ErrorRec

\* The types, and what else a run's step keeps, action by action.
LEMMA TakeMailKept == ASSUME LimitsInv, NEW w \in Runs, TakeMail(w) PROVE LimitsInv'
  <1>. USE DEF windowVars, dayVars, clockVars
  <1>1. MoveOn(w, "capacity") /\ at[w] = "idle" /\ LimitsTyped
    BY DEF TakeMail, LimitsInv
  <1>2. LimitsTyped'
    <2>1. at' \in [Runs -> RunSteps]
      BY <1>1, MovesTyped DEF RunSteps
    <2>2. attempted' \in 0..MaxAttempted
      BY <1>1, LimitsAssumption DEF TakeMail, LimitsTyped, LimitsAssumption
    <2>. QED
      BY <1>1, <2>1, <2>2 DEF TakeMail, LimitsTyped
  <1>3. SlotKept'
    BY <1>1, SlotRests DEF LimitsInv, TakeMail, InsideSteps
  <1>4. WindowsKept'
    BY <1>1, WindowsRest DEF LimitsInv, TakeMail, WindowSteps
  <1>5. DayCounted'
    BY <1>1, DayCountedRests DEF LimitsInv, TakeMail, UncountedSteps, DayVarsRest
  <1>6. DayKept'
    BY <1>1, DayKeptRests DEF LimitsInv, TakeMail, PassedSteps, DayVarsRest
  <1>. QED
    BY <1>2, <1>3, <1>4, <1>5, <1>6 DEF LimitsInv

\* A run that passes the check of the day leaves room for the others.
LEMMA DayPassed ==
  ASSUME LimitsTyped, NEW w \in Runs, MoveOn(w, "slot"), at[w] \notin PassedSteps \cup UncountedSteps,
         NEW count \in Nat, count < PerDay, lost' \in Nat, UNCHANGED <<accepted, day>>,
         accepted <= count + lost' + UncountedCount,
         \A v \in Runs \ {w} : noted'[v].day = noted[v].day
  PROVE  DayKept'
  <1>1. PerDay \in Nat /\ PerDay <= DayLimit
    BY CheckedLimits
  <1>2. DayNumbers
    BY DayNumbersTyped
  <1>3. PassedCount' = PassedCount + 1
    BY CountsMove, CountsAreNumbers DEF In, PassedSteps
  <1>4. StaleCount' = StaleCount - (IF w \in Stale THEN 1 ELSE 0)
    BY StaleMoves
  <1>5. PassedCount + UncountedCount + StaleCount + (IF w \in Stale THEN 0 ELSE 1) <= Cardinality(Runs)
    BY <1>2, Apart DEF DayNumbers
  <1>6. accepted + PassedCount' + StaleCount' <= DayLimit + Cardinality(Runs) - 1 + lost'
    BY <1>1, <1>2, <1>3, <1>4, <1>5 DEF DayNumbers
  <1>. QED
    BY <1>6 DEF DayKept, DayLimit, AtLeastOne, Least

LEMMA ReadDayCountKept ==
  ASSUME LimitsInv, NEW w \in Runs,
         \/ ReadDayCount(w, "capacity", "fillCapacity", "throttle")
         \/ ReadDayCount(w, "daily", "fillDaily", "slot")
  PROVE  LimitsInv'
  <1>. USE DEF windowVars, dayVars, clockVars
  <1>1. PICK here \in {"capacity", "daily"}, fill \in {"fillCapacity", "fillDaily"}, next \in {"throttle", "slot"} :
          /\ ReadDayCount(w, here, fill, next)
          /\ here = "capacity" => fill = "fillCapacity" /\ next = "throttle"
          /\ here = "daily" => fill = "fillDaily" /\ next = "slot"
    BY Zenon
  <1>2. LimitsTyped /\ at[w] = here
    BY <1>1 DEF ReadDayCount, LimitsInv
  <1>3. /\ UNCHANGED <<minuteCount, hourCount, failedRows, sentRows, dayCount, accepted, lost, errors,
                       slot, domainCount, day, turns, attempted, slips>>
    BY <1>1 DEF ReadDayCount
  <1>4. PICK to \in {fill, next, "idle"} :
          /\ MoveOn(w, to)
          /\ \/ to # fill /\ dayCount # NoCount /\ noted' = noted /\ (to = next => dayCount < PerDay)
             \/ /\ to = fill /\ dayCount = NoCount
                /\ noted' = [noted EXCEPT ![w].count = sentRows, ![w].day = day, ![w].since = 0]
    <2>1. CASE dayCount # NoCount
      <3>1. PICK to \in {next, "idle"} : MoveOn(w, to) /\ (to = next => dayCount < PerDay) /\ noted' = noted
        BY <1>1, <2>1 DEF ReadDayCount, Judge
      <3>. QED
        BY <1>1, <2>1, <3>1
    <2>2. CASE dayCount = NoCount
      BY <1>1, <2>2 DEF ReadDayCount
    <2>. QED
      BY <2>1, <2>2
  <1>5. noted' \in [Runs -> NotedRec] /\ (\A v \in Runs \ {w} : noted'[v] = noted[v])
        /\ (to = fill => noted'[w].count = sentRows /\ noted'[w].day = day /\ noted'[w].since = 0)
    <2>1. CASE noted' = noted /\ to # fill
      BY <1>2, <2>1 DEF LimitsTyped
    <2>2. CASE noted' = [noted EXCEPT ![w].count = sentRows, ![w].day = day, ![w].since = 0]
      <3>1. noted \in [Runs -> NotedRec] /\ sentRows \in Nat /\ day \in Nat
        BY <1>2 DEF LimitsTyped
      <3>2. noted' \in [Runs -> NotedRec]
        BY <2>2, <3>1 DEF NotedRec
      <3>3. (\A v \in Runs \ {w} : noted'[v] = noted[v])
            /\ noted'[w].count = sentRows /\ noted'[w].day = day /\ noted'[w].since = 0
        BY <2>2, <3>1 DEF NotedRec
      <3>. QED
        BY <3>2, <3>3
    <2>. QED
      BY <1>4, <2>1, <2>2
  <1>6. LimitsTyped'
    <2>1. at' \in [Runs -> RunSteps]
      BY <1>2, <1>4, MovesTyped DEF RunSteps
    <2>. QED
      BY <1>2, <1>3, <1>5, <2>1 DEF LimitsTyped
  <1>7. SlotKept'
    BY <1>2, <1>3, <1>4, SlotRests DEF LimitsInv, InsideSteps
  <1>8. WindowsKept'
    BY <1>1, <1>2, <1>3, <1>4, WindowsRest DEF LimitsInv, WindowSteps
  <1>9. DayCounted'
    <2>1. CASE to # fill
      BY <1>1, <1>2, <1>3, <1>4, <1>5, <2>1, DayCountedRests DEF LimitsInv, UncountedSteps, DayVarsRest
    <2>2. CASE to = fill
      <3>1. PersistCount' = PersistCount /\ UncountedCount' = UncountedCount
        BY <1>2, <1>4, CountsMove, CountsAreNumbers DEF In, UncountedSteps
      <3>2. ASSUME NEW v \in Filling' PROVE v = w \/ v \in Filling
        BY <1>2, <1>4 DEF Filling, MoveOn, LimitsTyped
      <3>3. accepted <= noted'[w].count + noted'[w].since + lost + UncountedCount
        <4>1. accepted <= sentRows + PersistCount
          BY DEF LimitsInv, DayCounted
        <4>. QED
          BY <1>2, <1>5, <2>2, <4>1, CountsAreNumbers DEF LimitsTyped
      <3>4. noted'[w].day = day /\ day \in Nat
        BY <1>2, <1>5, <2>2 DEF LimitsTyped
      <3>5. \A v \in Filling' \ {w} : v \in Filling /\ noted'[v] = noted[v]
        BY <1>5, <3>2 DEF Filling
      <3>. QED
        BY <1>3, <3>1, <3>3, <3>4, <3>5 DEF LimitsInv, DayCounted, Cached
    <2>. QED
      BY <2>1, <2>2
  <1>10. DayKept'
    <2>1. CASE to = "slot"
      <3>1. dayCount # NoCount /\ dayCount < PerDay /\ dayCount \in Nat
        BY <1>1, <1>2, <1>4, <2>1 DEF LimitsTyped
      <3>2. accepted <= dayCount + lost + UncountedCount
        BY <3>1 DEF LimitsInv, DayCounted, Cached
      <3>. QED
        BY <1>2, <1>3, <1>4, <1>5, <2>1, <3>1, <3>2, DayPassed DEF LimitsTyped, PassedSteps, UncountedSteps
    <2>2. CASE to # "slot"
      BY <1>1, <1>2, <1>3, <1>4, <1>5, <2>2, DayKeptRests DEF LimitsInv, PassedSteps, DayVarsRest
    <2>. QED
      BY <2>1, <2>2
  <1>. QED
    BY <1>6, <1>7, <1>8, <1>9, <1>10 DEF LimitsInv

LEMMA FillDayCountKept ==
  ASSUME LimitsInv, NEW w \in Runs,
         FillDayCount(w, "fillCapacity", "throttle") \/ FillDayCount(w, "fillDaily", "slot")
  PROVE  LimitsInv'
  <1>. USE DEF windowVars, dayVars, clockVars
  <1>1. PICK here \in {"fillCapacity", "fillDaily"}, next \in {"throttle", "slot"} :
          /\ FillDayCount(w, here, next)
          /\ here = "fillCapacity" => next = "throttle"
          /\ here = "fillDaily" => next = "slot"
    BY Zenon
  <1>2. LimitsTyped /\ at[w] = here /\ w \in Filling
    BY <1>1 DEF FillDayCount, LimitsInv, Filling
  <1>3. UNCHANGED <<minuteCount, hourCount, failedRows, sentRows, accepted, errors, slot, domainCount,
                    day, turns, attempted, slips>>
    BY <1>1 DEF FillDayCount
  <1>4. PICK to \in {next, "idle"} : MoveOn(w, to) /\ (to = next => noted[w].count < PerDay)
    BY <1>1 DEF FillDayCount, Judge
  <1>5. /\ noted[w].count \in Nat /\ noted[w].day \in Nat /\ noted[w].since \in Nat
        /\ dayCount \in Nat \cup {NoCount} /\ lost \in Nat /\ accepted \in Nat /\ day \in Nat
    BY <1>2 DEF LimitsTyped, NotedRec
  <1>6. \/ noted[w].day = day /\ dayCount' = noted[w].count /\ lost' = lost + noted[w].since
        \/ noted[w].day # day /\ dayCount' = dayCount /\ lost' = lost
    BY <1>1 DEF FillDayCount
  <1>7. noted' \in [Runs -> NotedRec] /\ \A v \in Runs \ {w} : noted'[v] = noted[v]
    <2>1. noted' = [noted EXCEPT ![w] = Unnoted]
      BY <1>1 DEF FillDayCount
    <2>. QED
      BY <1>2, <2>1, UnnotedTyped DEF LimitsTyped
  <1>8. LimitsTyped'
    <2>1. at' \in [Runs -> RunSteps]
      BY <1>2, <1>4, MovesTyped DEF RunSteps
    <2>2. dayCount' \in Nat \cup {NoCount} /\ lost' \in Nat
      BY <1>5, <1>6
    <2>. QED
      BY <1>2, <1>3, <1>7, <2>1, <2>2 DEF LimitsTyped
  <1>9. SlotKept'
    BY <1>2, <1>3, <1>4, SlotRests DEF LimitsInv, InsideSteps
  <1>10. WindowsKept'
    BY <1>1, <1>2, <1>3, <1>4, WindowsRest DEF LimitsInv, WindowSteps
  <1>11. PersistCount' = PersistCount /\ UncountedCount' = UncountedCount
    BY <1>2, <1>4, CountsMove, CountsAreNumbers DEF In, UncountedSteps
  <1>12. noted[w].day = day => accepted <= noted[w].count + noted[w].since + lost + UncountedCount
    BY <1>2 DEF LimitsInv, DayCounted
  <1>13. DayCounted'
    <2>1. \A v \in Filling' : v \in Filling \ {w}
      BY <1>2, <1>4 DEF Filling, MoveOn, LimitsTyped
    <2>2. accepted <= Cached' + lost' + UncountedCount
      BY <1>5, <1>6, <1>12, CountsAreNumbers DEF LimitsInv, DayCounted, Cached, NoCount
    <2>3. ASSUME NEW v \in Filling'
          PROVE  /\ noted'[v].day <= day
                 /\ noted'[v].day = day =>
                      accepted <= noted'[v].count + noted'[v].since + lost' + UncountedCount
      <3>1. v \in Filling /\ v \in Runs \ {w} /\ noted'[v] = noted[v]
        BY <1>7, <2>1 DEF Filling
      <3>2. /\ noted[v].day <= day
            /\ noted[v].day = day => accepted <= noted[v].count + noted[v].since + lost + UncountedCount
        BY <3>1 DEF LimitsInv, DayCounted
      <3>3. noted[v].count \in Nat /\ noted[v].since \in Nat
        BY <1>2, <3>1 DEF LimitsTyped, NotedRec
      <3>4. lost' \in Nat /\ lost' >= lost
        BY <1>5, <1>6
      <3>. QED
        BY <1>5, <3>1, <3>2, <3>3, <3>4, CountsAreNumbers
    <2>. QED
      BY <1>3, <1>11, <2>2, <2>3 DEF LimitsInv, DayCounted
  <1>14. DayKept'
    <2>1. CASE to = "slot" /\ noted[w].day = day
      <3>1. accepted <= noted[w].count + lost' + UncountedCount /\ lost' \in Nat
        BY <1>5, <1>6, <1>12, <2>1, CountsAreNumbers
      <3>. QED
        BY <1>1, <1>2, <1>3, <1>4, <1>5, <1>7, <2>1, <3>1, DayPassed DEF PassedSteps, UncountedSteps
    <2>2. CASE to = "slot" /\ noted[w].day # day
      <3>1. w \in Stale
        BY <1>1, <1>2, <1>4, <2>2 DEF Stale
      <3>2. PassedCount' = PassedCount + 1 /\ PassedCount \in Nat
        BY <1>2, <1>4, <2>2, CountsMove, CountsAreNumbers DEF In, PassedSteps
      <3>3. StaleCount' = StaleCount - 1 /\ StaleCount \in Nat
        BY <1>2, <1>3, <1>4, <1>7, <2>2, <3>1, StaleMoves, CountsAreNumbers
      <3>4. DayNumbers
        BY <1>2, DayNumbersTyped
      <3>. QED
        BY <1>3, <1>6, <2>2, <3>2, <3>3, <3>4
           DEF LimitsInv, DayKept, DayNumbers, DayLimit, AtLeastOne, Least
    <2>3. CASE to # "slot"
      <3>1. PassedCount' = PassedCount /\ PassedCount \in Nat
        BY <1>1, <1>2, <1>4, <2>3, CountsMove, CountsAreNumbers DEF In, PassedSteps
      <3>2. StaleCount' \in Nat /\ StaleCount' <= StaleCount /\ StaleCount \in Nat
        BY <1>1, <1>2, <1>3, <1>4, <1>7, <2>3, StaleMoves, CountsAreNumbers
      <3>3. lost' \in Nat /\ lost' >= lost
        BY <1>5, <1>6
      <3>4. DayNumbers
        BY <1>2, DayNumbersTyped
      <3>. QED
        BY <1>3, <1>5, <3>1, <3>2, <3>3, <3>4 DEF LimitsInv, DayKept, DayNumbers, DayLimit, AtLeastOne, Least
    <2>. QED
      BY <1>1, <1>4, <2>1, <2>2, <2>3
  <1>. QED
    BY <1>8, <1>9, <1>10, <1>13, <1>14 DEF LimitsInv

\* A step that reads no count of the day.
OtherGates(w) == Throttle(w) \/ TakeSlot(w) \/ GiveUpSlot(w) \/ ReadDomain(w) \/ CountDomain(w)

LEMMA OtherGatesKept == ASSUME LimitsInv, NEW w \in Runs, OtherGates(w) PROVE LimitsInv'
  <1>. USE DEF windowVars, dayVars, clockVars
  <1>1. LimitsTyped
    BY DEF LimitsInv
  <1>2. UNCHANGED <<noted, minuteCount, hourCount, failedRows, sentRows, dayCount, accepted, lost,
                    errors, day, turns, attempted, slips>>
    BY DEF OtherGates, Throttle, TakeSlot, GiveUpSlot, ReadDomain, CountDomain
  <1>3. PICK to \in {"idle", "daily", "domain", "domainCount", "sending"} :
          /\ MoveOn(w, to)
          /\ \/ at[w] = "throttle" /\ to \in {"idle", "daily"} /\ UNCHANGED <<slot, domainCount>>
                /\ (to = "daily" => minuteCount < PerMinute /\ hourCount < PerHour)
             \/ at[w] = "slot" /\ to = "domain" /\ slot = "free" /\ slot' = "sending" /\ UNCHANGED domainCount
             \/ at[w] = "slot" /\ to = "idle" /\ UNCHANGED <<slot, domainCount>>
             \/ at[w] = "domain" /\ to = "idle" /\ slot' = "cooldown" /\ UNCHANGED domainCount
             \/ at[w] = "domain" /\ to = "domainCount" /\ domainCount < DomainCap /\ UNCHANGED <<slot, domainCount>>
             \/ at[w] = "domainCount" /\ to = "sending" /\ domainCount' = domainCount + 1 /\ UNCHANGED slot
    <2>1. CASE Throttle(w)
      <3>1. PerMinute \in Nat /\ PerHour \in Nat /\ minuteCount \in Nat /\ hourCount \in Nat
        BY <1>1, CheckedLimits DEF LimitsTyped
      <3>2. CASE (errors.cooling /\ ~errors.quarantined) \/ minuteCount >= PerMinute \/ hourCount >= PerHour
        BY <2>1, <3>2 DEF Throttle
      <3>3. CASE ~((errors.cooling /\ ~errors.quarantined) \/ minuteCount >= PerMinute \/ hourCount >= PerHour)
        <4>1. minuteCount < PerMinute /\ hourCount < PerHour
          BY <3>1, <3>3
        <4>. QED
          BY <2>1, <3>3, <4>1 DEF Throttle
      <3>. QED
        BY <3>2, <3>3
    <2>2. CASE TakeSlot(w)
      BY <2>2 DEF TakeSlot
    <2>3. CASE GiveUpSlot(w)
      BY <2>3 DEF GiveUpSlot
    <2>4. CASE ReadDomain(w)
      <3>1. domainCount \in Nat /\ DomainCap \in Nat
        BY <1>1, LimitsAssumption DEF LimitsTyped, LimitsAssumption
      <3>2. CASE domainCount >= DomainCap
        BY <2>4, <3>2 DEF ReadDomain
      <3>3. CASE ~(domainCount >= DomainCap)
        <4>1. domainCount < DomainCap
          BY <3>1, <3>3
        <4>. QED
          BY <2>4, <3>3, <4>1 DEF ReadDomain
      <3>. QED
        BY <3>2, <3>3
    <2>5. CASE CountDomain(w)
      BY <2>5 DEF CountDomain
    <2>. QED
      BY <2>1, <2>2, <2>3, <2>4, <2>5 DEF OtherGates
  <1>4. LimitsTyped'
    <2>1. at' \in [Runs -> RunSteps]
      BY <1>1, <1>3, MovesTyped DEF RunSteps
    <2>2. slot' \in {"free", "sending", "cooldown"} /\ domainCount' \in Nat
      BY <1>1, <1>3 DEF LimitsTyped
    <2>. QED
      BY <1>1, <1>2, <2>1, <2>2 DEF LimitsTyped
  <1>5. SlotKept'
    <2>1. /\ InsideCount' = InsideCount + In(to, InsideSteps) - In(at[w], InsideSteps)
          /\ CapCount' = CapCount + In(to, {"domainCount"}) - In(at[w], {"domainCount"})
          /\ InsideCount' \in Nat /\ CapCount' \in Nat
      BY <1>1, <1>3, CountsMove
    <2>2. InsideCount \in Nat /\ CapCount \in Nat /\ CapCount <= InsideCount
      BY CountsAreNumbers
    <2>3. /\ slips \in Nat /\ domainCount \in Nat /\ DomainCap \in Nat \ {0}
          /\ slot \in {"free", "sending", "cooldown"}
      BY <1>1, LimitsAssumption DEF LimitsTyped, LimitsAssumption
    <2>4. CASE at[w] = "domain" /\ to = "domainCount"
      <3>1. CapCount + 1 <= InsideCount
        <4>1. AtSteps({"domainCount"}) \subseteq AtSteps(InsideSteps) \ {w} /\ w \in AtSteps(InsideSteps)
          BY <2>4 DEF AtSteps, InsideSteps
        <4>2. IsFiniteSet(AtSteps(InsideSteps))
          BY AtStepsFinite
        <4>3. Cardinality(AtSteps(InsideSteps) \ {w}) = InsideCount - 1 /\ IsFiniteSet(AtSteps(InsideSteps) \ {w})
          BY <4>1, <4>2, FS_RemoveElement DEF InsideCount
        <4>4. CapCount <= InsideCount - 1
          BY <4>1, <4>3, FS_Subset DEF CapCount
        <4>. QED
          BY <2>2, <4>4
      <3>2. InsideCount' = InsideCount /\ CapCount' = CapCount + 1
        BY <2>1, <2>2, <2>4 DEF In, InsideSteps
      <3>. QED
        BY <1>2, <1>3, <2>2, <2>3, <2>4, <3>1, <3>2 DEF LimitsInv, SlotKept
    <2>5. CASE ~(at[w] = "domain" /\ to = "domainCount")
      BY <1>2, <1>3, <2>1, <2>2, <2>3, <2>5 DEF LimitsInv, SlotKept, In, InsideSteps
    <2>. QED
      BY <2>4, <2>5
  <1>6. WindowsKept'
    <2>1. CASE to = "daily"
      <3>1. WindowCount' = WindowCount + 1 /\ WindowCount \in Nat
        BY <1>1, <1>3, <2>1, CountsMove, CountsAreNumbers DEF In, WindowSteps
      <3>2. WindowCount + 1 <= Cardinality(Runs) /\ Cardinality(Runs) \in Nat
        <4>1. w \notin AtSteps(WindowSteps) /\ AtSteps(WindowSteps) \subseteq Runs
          BY <1>3, <2>1 DEF AtSteps, WindowSteps
        <4>2. IsFiniteSet(Runs) /\ IsFiniteSet(AtSteps(WindowSteps))
          BY AtStepsFinite, LimitsAssumption DEF LimitsAssumption
        <4>3. Cardinality(Runs) # WindowCount
          BY <4>1, <4>2, FS_Subset DEF WindowCount
        <4>. QED
          BY <3>1, <4>3, CountsAreNumbers
      <3>3. minuteCount < ProviderLimits.minute /\ hourCount < ProviderLimits.hour
        BY <1>1, <1>3, <2>1, CheckedLimits, LimitsAssumption DEF LimitsTyped, LimitsAssumption
      <3>4. minuteCount \in Nat /\ hourCount \in Nat /\ ProviderLimits.minute \in Nat /\ ProviderLimits.hour \in Nat
        BY <1>1, LimitsAssumption DEF LimitsTyped, LimitsAssumption
      <3>. QED
        BY <1>2, <3>1, <3>2, <3>3, <3>4 DEF WindowsKept
    <2>2. CASE to # "daily"
      BY <1>1, <1>2, <1>3, <2>2, WindowsRest DEF LimitsInv, WindowSteps
    <2>. QED
      BY <2>1, <2>2
  <1>7. DayCounted'
    BY <1>1, <1>2, <1>3, DayCountedRests DEF LimitsInv, UncountedSteps, DayVarsRest
  <1>8. DayKept'
    BY <1>1, <1>2, <1>3, DayKeptRests DEF LimitsInv, PassedSteps, DayVarsRest
  <1>. QED
    BY <1>4, <1>5, <1>6, <1>7, <1>8 DEF LimitsInv

\* The mail is sent or not, and the slot is given up.
LEMMA SendEndsKept ==
  ASSUME LimitsInv, NEW w \in Runs, SendMail(w) \/ SendFails(w) PROVE LimitsInv'
  <1>. USE DEF windowVars, dayVars, clockVars
  <1>1. LimitsTyped /\ at[w] = "sending"
    BY DEF LimitsInv, SendMail, SendFails
  <1>2. UNCHANGED <<noted, minuteCount, hourCount, failedRows, sentRows, dayCount, lost,
                    errors, day, turns, attempted, slips, domainCount>> /\ slot' = "cooldown"
    BY DEF SendMail, SendFails
  <1>3. \/ MoveOn(w, "persist") /\ accepted' = accepted + 1
        \/ MoveOn(w, "recordError") /\ accepted' = accepted
    BY DEF SendMail, SendFails
  <1>4. PICK to \in {"persist", "recordError"} :
          MoveOn(w, to) /\ accepted' = accepted + In(to, {"persist"})
    <2>1. accepted \in Nat
      BY <1>1 DEF LimitsTyped
    <2>. QED
      BY <1>3, <2>1 DEF In
  <1>5. LimitsTyped'
    <2>1. at' \in [Runs -> RunSteps]
      BY <1>1, <1>4, MovesTyped DEF RunSteps
    <2>2. accepted' \in Nat
      BY <1>1, <1>4 DEF LimitsTyped, In
    <2>. QED
      BY <1>1, <1>2, <2>1, <2>2 DEF LimitsTyped
  <1>6. SlotKept'
    <2>1. InsideCount' = InsideCount - 1 /\ CapCount' = CapCount /\ InsideCount \in Nat /\ CapCount \in Nat
      BY <1>1, <1>4, CountsMove, CountsAreNumbers DEF In, InsideSteps
    <2>2. slips \in Nat
      BY <1>1 DEF LimitsTyped
    <2>. QED
      BY <1>2, <2>1, <2>2 DEF LimitsInv, SlotKept
  <1>7. WindowsKept'
    BY <1>1, <1>2, <1>4, WindowsRest DEF LimitsInv, WindowSteps
  <1>8. /\ PersistCount' = PersistCount + In(to, {"persist"})
        /\ UncountedCount' = UncountedCount + In(to, {"persist"})
        /\ PassedCount' = PassedCount - 1
    BY <1>1, <1>4, CountsMove, CountsAreNumbers DEF In, UncountedSteps, PassedSteps
  <1>9. StaleCount' = StaleCount
    BY <1>1, <1>2, <1>4, StaleMoves, CountsAreNumbers DEF Stale
  <1>10. DayNumbers /\ In(to, {"persist"}) \in {0, 1} /\ sentRows \in Nat /\ dayCount \in Nat \cup {NoCount}
    BY <1>1, DayNumbersTyped DEF In, LimitsTyped
  <1>11. DayCounted'
    <2>1. accepted' <= sentRows + PersistCount'
      BY <1>4, <1>8, <1>10 DEF LimitsInv, DayCounted, DayNumbers
    <2>2. accepted' <= Cached + lost + UncountedCount'
      BY <1>4, <1>8, <1>10 DEF LimitsInv, DayCounted, DayNumbers, Cached
    <2>3. ASSUME NEW v \in Filling', noted[v].day = day
          PROVE  accepted' <= noted[v].count + noted[v].since + lost + UncountedCount'
      <3>1. v \in Filling
        BY <1>1, <1>4 DEF Filling, MoveOn, LimitsTyped
      <3>2. noted[v].count \in Nat /\ noted[v].since \in Nat
        BY <1>1, <3>1 DEF LimitsTyped, NotedRec, Filling
      <3>3. accepted <= noted[v].count + noted[v].since + lost + UncountedCount
        BY <2>3, <3>1 DEF LimitsInv, DayCounted
      <3>. QED
        BY <1>4, <1>8, <1>10, <3>2, <3>3 DEF DayNumbers
    <2>4. \A v \in Filling' : v \in Filling
      BY <1>1, <1>4 DEF Filling, MoveOn, LimitsTyped
    <2>. QED
      BY <1>2, <2>1, <2>2, <2>3, <2>4 DEF LimitsInv, DayCounted, Cached
  <1>12. DayKept'
    BY <1>2, <1>4, <1>8, <1>9, <1>10 DEF LimitsInv, DayKept, DayNumbers, DayLimit, AtLeastOne, Least
  <1>. QED
    BY <1>5, <1>6, <1>7, <1>11, <1>12 DEF LimitsInv

LEMMA PersistSentKept == ASSUME LimitsInv, NEW w \in Runs, PersistSent(w) PROVE LimitsInv'
  <1>. USE DEF windowVars, dayVars, clockVars
  <1>1. /\ LimitsTyped /\ at[w] = "persist" /\ MoveOn(w, "record") /\ sentRows' = sentRows + 1
        /\ UNCHANGED <<noted, minuteCount, hourCount, failedRows, dayCount, accepted, lost, errors, slot,
                       domainCount, day, turns, attempted, slips>>
    BY DEF LimitsInv, PersistSent
  <1>2. LimitsTyped'
    <2>1. at' \in [Runs -> RunSteps]
      BY <1>1, MovesTyped DEF RunSteps
    <2>. QED
      BY <1>1, <2>1 DEF LimitsTyped
  <1>3. SlotKept'
    BY <1>1, SlotRests DEF LimitsInv, InsideSteps
  <1>4. WindowsKept'
    BY <1>1, WindowsRest DEF LimitsInv, WindowSteps
  <1>5. /\ PersistCount' = PersistCount - 1 /\ UncountedCount' = UncountedCount
        /\ PassedCount' = PassedCount
    BY <1>1, CountsMove, CountsAreNumbers DEF In, UncountedSteps, PassedSteps
  <1>6. StaleCount' = StaleCount
    BY <1>1, StaleMoves, CountsAreNumbers DEF Stale
  <1>7. DayCounted'
    <2>1. accepted <= sentRows' + PersistCount'
      BY <1>1, <1>5, CountsAreNumbers DEF LimitsInv, DayCounted, LimitsTyped
    <2>2. \A v \in Filling' : v \in Filling
      BY <1>1 DEF Filling, MoveOn, LimitsTyped
    <2>. QED
      BY <1>1, <1>5, <2>1, <2>2 DEF LimitsInv, DayCounted, Cached
  <1>8. DayKept'
    BY <1>1, <1>5, <1>6 DEF LimitsInv, DayKept, DayLimit, AtLeastOne, Least
  <1>. QED
    BY <1>2, <1>3, <1>4, <1>7, <1>8 DEF LimitsInv

LEMMA CountWindowKept == ASSUME LimitsInv, NEW w \in Runs, CountWindow(w) PROVE LimitsInv'
  <1>. USE DEF windowVars, dayVars, clockVars
  <1>1. /\ LimitsTyped /\ at[w] \in {"record", "recordError"}
        /\ minuteCount' = minuteCount + 1 /\ hourCount' = hourCount + 1
        /\ UNCHANGED <<noted, failedRows, sentRows, dayCount, accepted, lost, errors, slot,
                       domainCount, day, turns, attempted, slips>>
    BY DEF LimitsInv, CountWindow
  <1>2. PICK to \in {"increment", "readErrors"} :
          MoveOn(w, to) /\ (to = "increment" <=> at[w] = "record")
    BY DEF CountWindow
  <1>3. LimitsTyped'
    <2>1. at' \in [Runs -> RunSteps]
      BY <1>1, <1>2, MovesTyped DEF RunSteps
    <2>. QED
      BY <1>1, <2>1 DEF LimitsTyped
  <1>4. SlotKept'
    BY <1>1, <1>2, SlotRests DEF LimitsInv, InsideSteps
  <1>5. WindowsKept'
    <2>1. WindowCount' = WindowCount - 1 /\ WindowCount \in Nat
      BY <1>1, <1>2, CountsMove, CountsAreNumbers DEF In, WindowSteps
    <2>2. minuteCount \in Nat /\ hourCount \in Nat
      BY <1>1 DEF LimitsTyped
    <2>. QED
      BY <1>1, <2>1, <2>2 DEF LimitsInv, WindowsKept
  <1>6. /\ PersistCount' = PersistCount /\ UncountedCount' = UncountedCount
        /\ PassedCount' = PassedCount
    BY <1>1, <1>2, CountsMove, CountsAreNumbers DEF In, UncountedSteps, PassedSteps
  <1>7. StaleCount' = StaleCount
    BY <1>1, <1>2, StaleMoves, CountsAreNumbers DEF Stale
  <1>8. DayCounted'
    <2>2. \A v \in Filling' : v \in Filling
      BY <1>1, <1>2 DEF Filling, MoveOn, LimitsTyped
    <2>. QED
      BY <1>1, <1>6, <2>2 DEF LimitsInv, DayCounted, Cached
  <1>9. DayKept'
    BY <1>1, <1>6, <1>7 DEF LimitsInv, DayKept, DayLimit, AtLeastOne, Least
  <1>. QED
    BY <1>3, <1>4, <1>5, <1>8, <1>9 DEF LimitsInv

\* An increment that a fill may lose is noted by the run that fills.
LEMMA IncrementDayKept == ASSUME LimitsInv, NEW w \in Runs, IncrementDay(w) PROVE LimitsInv'
  <1>. USE DEF windowVars, dayVars, clockVars
  <1>1. /\ LimitsTyped /\ at[w] = "increment" /\ MoveOn(w, "reset")
        /\ dayCount' = IF dayCount = NoCount THEN 1 ELSE dayCount + 1
        /\ noted' = [v \in Runs |-> IF v \in Filling THEN [noted[v] EXCEPT !.since = @ + 1] ELSE noted[v]]
        /\ UNCHANGED <<minuteCount, hourCount, failedRows, sentRows, accepted, lost, errors, slot,
                       domainCount, day, turns, attempted, slips>>
    BY DEF LimitsInv, IncrementDay
  <1>2. ASSUME NEW v \in Runs
        PROVE  /\ noted'[v] \in NotedRec /\ noted'[v].day = noted[v].day
               /\ noted'[v].count = noted[v].count
               /\ v \in Filling => noted'[v].since = noted[v].since + 1
    <2>1. noted[v] \in NotedRec
      BY <1>1 DEF LimitsTyped
    <2>2. noted'[v] = IF v \in Filling THEN [noted[v] EXCEPT !.since = noted[v].since + 1] ELSE noted[v]
      BY <1>1
    <2>. QED
      BY <2>1, <2>2 DEF NotedRec
  <1>3. LimitsTyped'
    <2>1. at' \in [Runs -> RunSteps]
      BY <1>1, MovesTyped DEF RunSteps
    <2>2. noted' \in [Runs -> NotedRec]
      BY <1>1, <1>2
    <2>3. dayCount' \in Nat \cup {NoCount}
      BY <1>1 DEF LimitsTyped
    <2>. QED
      BY <1>1, <2>1, <2>2, <2>3 DEF LimitsTyped
  <1>4. SlotKept'
    BY <1>1, SlotRests DEF LimitsInv, InsideSteps
  <1>5. WindowsKept'
    BY <1>1, WindowsRest DEF LimitsInv, WindowSteps
  <1>6. /\ PersistCount' = PersistCount /\ UncountedCount' = UncountedCount - 1
        /\ PassedCount' = PassedCount
    BY <1>1, CountsMove, CountsAreNumbers DEF In, UncountedSteps, PassedSteps
  <1>7. StaleCount' = StaleCount
    BY <1>1, <1>2, StaleMoves, CountsAreNumbers DEF Stale
  <1>8. DayNumbers /\ sentRows \in Nat /\ dayCount \in Nat \cup {NoCount}
    BY <1>1, DayNumbersTyped DEF LimitsTyped
  <1>9. PersistCount <= UncountedCount - 1
    <2>1. AtSteps({"persist"}) \subseteq AtSteps(UncountedSteps) \ {w} /\ w \in AtSteps(UncountedSteps)
      BY <1>1 DEF AtSteps, UncountedSteps
    <2>2. IsFiniteSet(AtSteps(UncountedSteps))
      BY AtStepsFinite
    <2>3. Cardinality(AtSteps(UncountedSteps) \ {w}) = UncountedCount - 1
          /\ IsFiniteSet(AtSteps(UncountedSteps) \ {w})
      BY <2>1, <2>2, FS_RemoveElement DEF UncountedCount
    <2>. QED
      BY <2>1, <2>3, FS_Subset DEF PersistCount
  <1>10. DayCounted'
    <2>1. accepted <= sentRows + PersistCount'
      BY <1>6 DEF LimitsInv, DayCounted
    <2>2. accepted <= Cached' + lost + UncountedCount'
      BY <1>1, <1>6, <1>8 DEF LimitsInv, DayCounted, DayNumbers, Cached, NoCount
    <2>3. ASSUME NEW v \in Filling'
          PROVE  /\ noted'[v].day <= day
                 /\ noted'[v].day = day =>
                      accepted <= noted'[v].count + noted'[v].since + lost + UncountedCount'
      <3>1. v \in Filling /\ v \in Runs
        BY <1>1 DEF Filling, MoveOn, LimitsTyped
      <3>2. /\ noted[v].day <= day
            /\ noted[v].day = day => accepted <= noted[v].count + noted[v].since + lost + UncountedCount
        BY <3>1 DEF LimitsInv, DayCounted
      <3>3. noted[v].count \in Nat /\ noted[v].since \in Nat
        BY <1>1, <3>1 DEF LimitsTyped, NotedRec
      <3>. QED
        BY <1>2, <1>6, <1>8, <3>1, <3>2, <3>3 DEF DayNumbers
    <2>. QED
      BY <1>1, <2>1, <2>2, <2>3 DEF DayCounted
  <1>11. DayKept'
    BY <1>1, <1>6, <1>7 DEF LimitsInv, DayKept, DayLimit, AtLeastOne, Least
  <1>. QED
    BY <1>3, <1>4, <1>5, <1>10, <1>11 DEF LimitsInv

\* The records of errors.
LEMMA ErrorStepKept ==
  ASSUME LimitsInv, NEW w \in Runs, ResetErrors(w) \/ ReadErrors(w) \/ WriteErrors(w) PROVE LimitsInv'
  <1>. USE DEF windowVars, dayVars, clockVars
  <1>1. /\ LimitsTyped
        /\ UNCHANGED <<minuteCount, hourCount, sentRows, dayCount, accepted, lost, slot, domainCount, day,
                       turns, attempted, slips>>
    BY DEF LimitsInv, ResetErrors, ReadErrors, WriteErrors
  <1>2. PICK to \in {"idle", "writeErrors"} :
          MoveOn(w, to) /\ at[w] \in {"reset", "readErrors", "writeErrors"}
    BY DEF ResetErrors, ReadErrors, WriteErrors
  <1>3. /\ noted' \in [Runs -> NotedRec] /\ errors' \in ErrorRec /\ failedRows' \in Nat
        /\ \A v \in Runs \ {w} : noted'[v] = noted[v]
    <2>0. noted \in [Runs -> NotedRec] /\ errors \in ErrorRec /\ failedRows \in Nat
      BY <1>1 DEF LimitsTyped
    <2>1. CASE ResetErrors(w)
      <3>1. errors' = [errors EXCEPT !.count = 0, !.cooling = FALSE] /\ UNCHANGED <<noted, failedRows>>
        BY <2>1 DEF ResetErrors
      <3>. QED
        BY <2>0, <3>1 DEF ErrorRec
    <2>2. CASE ReadErrors(w)
      <3>1. noted' = [noted EXCEPT ![w].errors = errors] /\ UNCHANGED <<errors, failedRows>>
        BY <2>2 DEF ReadErrors
      <3>2. noted' \in [Runs -> NotedRec]
        BY <2>0, <3>1 DEF NotedRec
      <3>. QED
        BY <2>0, <3>1, <3>2
    <2>3. CASE WriteErrors(w)
      <3>1. /\ noted' = [noted EXCEPT ![w] = Unnoted] /\ failedRows' = failedRows + 1
            /\ errors' = AfterError(noted[w].errors)
        BY <2>3 DEF WriteErrors
      <3>2. noted[w].errors \in ErrorRec
        BY <2>0 DEF NotedRec
      <3>3. ASSUME NEW e \in ErrorRec PROVE AfterError(e) \in ErrorRec
        BY DEF AfterError, ErrorRec
      <3>. QED
        BY <2>0, <3>1, <3>2, <3>3, UnnotedTyped
    <2>. QED
      BY <2>1, <2>2, <2>3
  <1>4. LimitsTyped'
    <2>1. at' \in [Runs -> RunSteps]
      BY <1>1, <1>2, MovesTyped DEF RunSteps
    <2>. QED
      BY <1>1, <1>3, <2>1 DEF LimitsTyped
  <1>5. SlotKept'
    BY <1>1, <1>2, SlotRests DEF LimitsInv, InsideSteps
  <1>6. WindowsKept'
    BY <1>1, <1>2, WindowsRest DEF LimitsInv, WindowSteps
  <1>7. DayCounted'
    BY <1>1, <1>2, <1>3, DayCountedRests DEF LimitsInv, UncountedSteps, DayVarsRest
  <1>8. DayKept'
    BY <1>1, <1>2, <1>3, DayKeptRests DEF LimitsInv, PassedSteps, DayVarsRest
  <1>. QED
    BY <1>4, <1>5, <1>6, <1>7, <1>8 DEF LimitsInv

\* The steps of time.
LEMMA TimeKept == ASSUME LimitsInv, Time PROVE LimitsInv'
  <1>. USE DEF windowVars, dayVars, clockVars
  <1>0. LimitsTyped /\ UNCHANGED Counts /\ at' = at /\ noted' = noted /\ noted \in [Runs -> NotedRec]
    <2>1. at' = at /\ noted' = noted
      BY DEF Time, TimePasses, CooldownEnds, GapEnds, SlotExpires
    <2>. QED
      BY <2>1, CountsRest DEF LimitsInv, LimitsTyped
  <1>c. /\ InsideCount' = InsideCount /\ CapCount' = CapCount /\ WindowCount' = WindowCount
        /\ PersistCount' = PersistCount /\ PassedCount' = PassedCount /\ UncountedCount' = UncountedCount
    BY <1>0 DEF Counts
  <1>n. /\ InsideCount \in Nat /\ CapCount \in Nat /\ WindowCount \in Nat
        /\ WindowCount <= Cardinality(Runs) /\ CapCount <= InsideCount /\ DayNumbers
        /\ DomainCap \in Nat \ {0} /\ ProviderLimits.minute \in Nat \ {0} /\ ProviderLimits.hour \in Nat \ {0}
        /\ slips \in Nat /\ domainCount \in Nat /\ minuteCount \in Nat /\ hourCount \in Nat
        /\ MaxTurns \in Nat /\ MaxSlips \in Nat
    BY <1>0, CountsAreNumbers, DayNumbersTyped, LimitsAssumption DEF LimitsTyped, LimitsAssumption
  <1>d. ASSUME UNCHANGED day PROVE StaleCount' = StaleCount
    BY <1>0, <1>d DEF StaleCount, Stale
  <1>f. Filling' = Filling
    BY <1>0 DEF Filling
  <1>1. CASE CooldownEnds
    <2>1. UNCHANGED <<sentRows, failedRows, dayCount, minuteCount, hourCount, slot, domainCount, day, turns,
                      attempted, slips, accepted, lost>>
      BY <1>1 DEF CooldownEnds
    <2>2. errors' \in ErrorRec
      BY <1>0, <1>1 DEF CooldownEnds, LimitsTyped, ErrorRec
    <2>3. LimitsTyped'
      BY <1>0, <2>1, <2>2 DEF LimitsTyped
    <2>. QED
      BY <1>0, <1>c, <1>d, <1>f, <2>1, <2>3 DEF LimitsInv, SlotKept, WindowsKept, DayCounted, DayKept,
         DayLimit, AtLeastOne, Least, Cached
  <1>2. CASE GapEnds \/ SlotExpires
    <2>1. UNCHANGED <<sentRows, failedRows, dayCount, minuteCount, hourCount, domainCount, day, turns,
                      attempted, accepted, lost, errors>>
      BY <1>2 DEF GapEnds, SlotExpires
    <2>2. LimitsTyped'
      BY <1>0, <1>2, <1>n, <2>1 DEF LimitsTyped, GapEnds, SlotExpires
    <2>3. SlotKept'
      BY <1>2, <1>c, <1>n DEF GapEnds, SlotExpires, LimitsInv, SlotKept
    <2>. QED
      BY <1>0, <1>c, <1>d, <1>f, <2>1, <2>2, <2>3 DEF LimitsInv, WindowsKept, DayCounted, DayKept,
         DayLimit, AtLeastOne, Least, Cached
  <1>3. ASSUME NEW hour \in BOOLEAN, NEW midnight \in BOOLEAN, TimePasses(hour, midnight)
        PROVE  LimitsInv'
    <2>1. /\ turns < MaxTurns /\ turns' = turns + 1 /\ minuteCount' = 0
          /\ UNCHANGED <<errors, slot, attempted, slips>>
          /\ \/ hourCount' = 0 /\ failedRows' = 0 /\ domainCount' = 0
             \/ UNCHANGED <<hourCount, failedRows, domainCount>>
      BY <1>3 DEF TimePasses
    <2>2. \/ day' = day + 1 /\ sentRows' = 0 /\ dayCount' = NoCount /\ accepted' = 0 /\ lost' = 0
          \/ UNCHANGED <<day, sentRows, dayCount, accepted, lost>>
      BY <1>3 DEF TimePasses
    <2>3. LimitsTyped'
      <3>1. turns' \in 0..MaxTurns
        BY <1>0, <1>n, <2>1 DEF LimitsTyped
      <3>. QED
        BY <1>0, <2>1, <2>2, <3>1 DEF LimitsTyped
    <2>4. SlotKept'
      BY <1>c, <1>n, <2>1 DEF LimitsInv, SlotKept
    <2>5. WindowsKept'
      BY <1>c, <1>n, <2>1 DEF LimitsInv, WindowsKept, DayNumbers
    <2>6. CASE UNCHANGED <<day, sentRows, dayCount, accepted, lost>>
      BY <1>0, <1>c, <1>d, <1>f, <2>3, <2>4, <2>5, <2>6 DEF LimitsInv, DayCounted, DayKept,
         DayLimit, AtLeastOne, Least, Cached
    <2>7. CASE day' = day + 1 /\ sentRows' = 0 /\ dayCount' = NoCount /\ accepted' = 0 /\ lost' = 0
      <3>1. ASSUME NEW v \in Filling PROVE noted[v].day <= day' /\ noted[v].day # day'
        <4>1. noted[v].day \in Nat /\ day \in Nat /\ noted[v].day <= day
          BY <1>0, <3>1 DEF LimitsInv, DayCounted, LimitsTyped, NotedRec, Filling
        <4>. QED
          BY <2>7, <4>1
      <3>2. DayCounted'
        BY <1>0, <1>c, <1>f, <1>n, <2>7, <3>1 DEF DayCounted, Cached, DayNumbers
      <3>3. PassedCount + StaleCount' <= Cardinality(Runs) /\ StaleCount' \in Nat
        <4>1. Stale' \cap AtSteps(PassedSteps) = {} /\ Stale' \subseteq Runs /\ AtSteps(PassedSteps) \subseteq Runs
          BY <1>0 DEF Stale, AtSteps, PassedSteps
        <4>2. IsFiniteSet(Runs) /\ IsFiniteSet(Stale') /\ IsFiniteSet(AtSteps(PassedSteps))
          BY <4>1, LimitsAssumption, FS_Subset DEF LimitsAssumption
        <4>3. ASSUME NEW X, NEW Y, IsFiniteSet(X), IsFiniteSet(Y), X \cap Y = {}, X \subseteq Runs, Y \subseteq Runs
              PROVE  Cardinality(X) + Cardinality(Y) <= Cardinality(Runs)
          <5>1. /\ IsFiniteSet(X \cup Y)
                /\ Cardinality(X \cup Y) = Cardinality(X) + Cardinality(Y) - Cardinality(X \cap Y)
            BY <4>3, FS_Union
          <5>2. Cardinality(X \cap Y) = 0
            BY <4>3, FS_EmptySet
          <5>3. Cardinality(X) \in Nat /\ Cardinality(Y) \in Nat
            BY <4>3, FS_CardinalityType
          <5>4. Cardinality(X \cup Y) <= Cardinality(Runs)
            BY <4>2, <4>3, FS_Subset
          <5>. QED
            BY <5>1, <5>2, <5>3, <5>4
        <4>4. Cardinality(Stale') + Cardinality(AtSteps(PassedSteps)) <= Cardinality(Runs)
          BY <4>1, <4>2, <4>3
        <4>5. Cardinality(Stale') \in Nat
          BY <4>2, FS_CardinalityType
        <4>. QED
          BY <4>4, <4>5, <1>n DEF StaleCount, PassedCount, DayNumbers
      <3>4. DayKept'
        BY <1>c, <1>n, <2>7, <3>3 DEF DayKept, DayNumbers, DayLimit, AtLeastOne, Least
      <3>. QED
        BY <2>3, <2>4, <2>5, <3>2, <3>4 DEF LimitsInv
    <2>. QED
      BY <2>2, <2>6, <2>7
  <1>. QED
    BY <1>1, <1>2, <1>3 DEF Time

LEMMA LimitsStep == LimitsInv /\ [LimitsNext]_limitsVars => LimitsInv'
  <1>1. ASSUME LimitsInv, NEW w \in Runs, Gates(w) \/ Sending(w) PROVE LimitsInv'
    <2>1. CASE Gates(w)
      <3>1. CASE TakeMail(w)
        BY <1>1, <3>1, TakeMailKept
      <3>2. CASE \/ ReadDayCount(w, "capacity", "fillCapacity", "throttle")
                 \/ ReadDayCount(w, "daily", "fillDaily", "slot")
        BY <1>1, <3>2, ReadDayCountKept
      <3>3. CASE FillDayCount(w, "fillCapacity", "throttle") \/ FillDayCount(w, "fillDaily", "slot")
        BY <1>1, <3>3, FillDayCountKept
      <3>4. CASE OtherGates(w)
        BY <1>1, <3>4, OtherGatesKept
      <3>. QED
        BY <2>1, <3>1, <3>2, <3>3, <3>4 DEF Gates, OtherGates
    <2>2. CASE Sending(w)
      BY <1>1, <2>2, SendEndsKept, PersistSentKept, CountWindowKept, IncrementDayKept, ErrorStepKept
         DEF Sending
    <2>. QED
      BY <1>1, <2>1, <2>2
  <1>2. ASSUME LimitsInv, UNCHANGED limitsVars PROVE LimitsInv'
    <2>1. UNCHANGED <<at, noted, sentRows, failedRows, dayCount, minuteCount, hourCount, errors, slot,
                      domainCount, day, turns, attempted, slips, accepted, lost>>
      BY <1>2 DEF limitsVars, windowVars, dayVars, clockVars
    <2>. QED
      BY <1>2, <2>1 DEF LimitsInv, LimitsTyped, SlotKept, WindowsKept, DayCounted, DayKept, DayLimit,
         AtLeastOne, Least, Cached, InsideCount, CapCount, WindowCount, PersistCount, PassedCount,
         UncountedCount, StaleCount, Stale, AtSteps, Filling, InsideSteps, WindowSteps, PassedSteps,
         UncountedSteps
  <1>. QED
    BY <1>1, <1>2, TimeKept DEF LimitsNext

LEMMA LimitsImplies == LimitsInv => LimitsTypeOK /\ SlotSound /\ LimitsNearlyKept
  <1>. SUFFICES ASSUME LimitsInv PROVE LimitsTypeOK /\ SlotSound /\ LimitsNearlyKept
    OBVIOUS
  <1>1. LimitsTyped
    BY DEF LimitsInv
  <1>2. LimitsTypeOK
    BY <1>1 DEF LimitsTyped, LimitsTypeOK, NotedRec, ErrorRec
  <1>3. /\ InsideCount \in Nat /\ CapCount \in Nat /\ WindowCount \in Nat /\ DayNumbers
        /\ slips \in Nat /\ domainCount \in Nat /\ minuteCount \in Nat /\ hourCount \in Nat
        /\ DomainCap \in Nat /\ ProviderLimits.minute \in Nat /\ ProviderLimits.hour \in Nat
    BY <1>1, CountsAreNumbers, DayNumbersTyped, LimitsAssumption DEF LimitsTyped, LimitsAssumption
  <1>4. Inside = AtSteps(InsideSteps)
    BY DEF Inside, AtSteps, InsideSteps
  <1>5. SlotSound
    BY <1>3, <1>4 DEF LimitsInv, SlotKept, SlotSound, SlotOverlap, DomainCapKept, InsideCount
  <1>6. LimitsNearlyKept
    BY <1>3 DEF LimitsInv, WindowsKept, DayKept, DayNumbers, LimitsNearlyKept, DayLimit
  <1>. QED
    BY <1>2, <1>5, <1>6

(***************************************************************************)
(* The pool of transporters.  Whoever uses one uses that of the entry, and *)
(* the entry's is open: so the count tells when it may be closed.          *)
(***************************************************************************)
PoolUsers == {w \in PoolRuns : using[w] # NoTransporter}

UsersShare ==
  /\ entry # Absent => entry.transporter \in open
  /\ \A w \in PoolRuns : using[w] # NoTransporter => entry # Absent /\ using[w] = entry.transporter

PoolInv == PoolTypeOK /\ UsersShare /\ entry.activeCount = Cardinality(PoolUsers)

LEMMA PoolStarts == PoolInit => PoolInv
  <1>. SUFFICES ASSUME PoolInit PROVE PoolInv
    OBVIOUS
  <1>1. PoolTypeOK
    BY DEF PoolInit, PoolTypeOK, Absent
  <1>2. UsersShare
    BY DEF PoolInit, UsersShare
  <1>3. PoolUsers = {}
    BY DEF PoolInit, PoolUsers
  <1>. QED
    BY <1>1, <1>2, <1>3, FS_EmptySet DEF PoolInv, PoolInit, Absent

LEMMA PoolStep == PoolInv /\ [PoolNext]_poolVars => PoolInv'
  <1>. SUFFICES ASSUME PoolInv, [PoolNext]_poolVars PROVE PoolInv'
    OBVIOUS
  <1>. USE PoolAssumption DEF PoolAssumption, PoolInv, PoolTypeOK, UsersShare
  <1>0. IsFiniteSet(PoolUsers) /\ entry.activeCount \in Nat
    BY FS_Subset DEF PoolUsers
  <1>1. ASSUME NEW w \in PoolRuns, ReuseTransporter(w) PROVE PoolInv'
    <2>1. entry.transporter \in Transporters /\ entry.transporter # NoTransporter
      BY <1>1 DEF ReuseTransporter, Transporters
    <2>2. w \notin PoolUsers /\ PoolUsers' = PoolUsers \cup {w}
      BY <1>1, <2>1 DEF ReuseTransporter, PoolUsers
    <2>3. Cardinality(PoolUsers') = Cardinality(PoolUsers) + 1
      BY <2>2, <1>0, FS_AddElement
    <2>4. entry' = [transporter |-> entry.transporter, activeCount |-> entry.activeCount + 1,
                    expired |-> FALSE]
      BY <1>1 DEF ReuseTransporter
    <2>5. entry' # Absent
      BY <2>1, <2>4 DEF Absent
    <2>6. open' = open /\ using' = [using EXCEPT ![w] = entry.transporter]
      BY <1>1 DEF ReuseTransporter
    <2>7. UsersShare'
      BY <1>1, <2>1, <2>4, <2>5, <2>6 DEF ReuseTransporter
    <2>8. PoolTypeOK'
      BY <2>1, <2>4, <2>6, <1>0
    <2>. QED
      BY <2>3, <2>4, <2>7, <2>8
  <1>2. ASSUME NEW w \in PoolRuns, OpenTransporter(w) PROVE PoolInv'
    <2>1. PICK t \in Transporters :
            /\ open' = open \cup {t}
            /\ entry' = [transporter |-> t, activeCount |-> 1, expired |-> FALSE]
            /\ using' = [using EXCEPT ![w] = t]
      BY <1>2 DEF OpenTransporter
    <2>2. t # NoTransporter /\ entry' # Absent
      BY <2>1 DEF Transporters, Absent
    <2>3. PoolUsers = {}
      BY <1>2 DEF OpenTransporter, PoolUsers
    <2>4. PoolUsers' = {w}
      BY <2>1, <2>2, <2>3 DEF PoolUsers
    <2>5. \A v \in PoolRuns : using'[v] # NoTransporter => v = w
      BY <2>4 DEF PoolUsers
    <2>. QED
      BY <2>1, <2>2, <2>4, <2>5, FS_Singleton
  <1>3. ASSUME NEW w \in PoolRuns, ReleaseTransporter(w) PROVE PoolInv'
    <2>1. w \in PoolUsers /\ PoolUsers' = PoolUsers \ {w}
      BY <1>3 DEF ReleaseTransporter, PoolUsers
    <2>2. Cardinality(PoolUsers') = Cardinality(PoolUsers) - 1
      BY <2>1, <1>0, FS_RemoveElement
    <2>3. entry.activeCount > 0
      BY <2>1, <1>0, FS_EmptySet
    <2>4. entry' = [transporter |-> entry.transporter, activeCount |-> entry.activeCount - 1,
                    expired |-> FALSE]
      BY <1>3, <2>3 DEF ReleaseTransporter, PoolUsers
    <2>5. entry' # Absent
      BY <1>3, <2>4 DEF Absent, ReleaseTransporter, Transporters
    <2>6. open' = open /\ using' = [using EXCEPT ![w] = NoTransporter]
      BY <1>3 DEF ReleaseTransporter
    <2>7. UsersShare'
      BY <1>3, <2>4, <2>5, <2>6 DEF ReleaseTransporter
    <2>8. PoolTypeOK'
      BY <1>0, <2>3, <2>4, <2>6
    <2>. QED
      BY <2>2, <2>4, <2>7, <2>8
  <1>4. ASSUME ExpireEntry PROVE PoolInv'
    <2>1. PoolUsers' = PoolUsers
      BY <1>4 DEF ExpireEntry, PoolUsers
    <2>2. entry' # Absent
      BY <1>4 DEF ExpireEntry, Absent
    <2>. QED
      BY <1>4, <2>1, <2>2 DEF ExpireEntry
  <1>5. ASSUME Evict PROVE PoolInv'
    <2>1. PoolUsers' = PoolUsers
      BY <1>5 DEF Evict, PoolUsers
    <2>2. CASE entry.activeCount = 0 /\ entry.expired
      <3>1. PoolUsers = {}
        BY <2>2, <1>0, FS_EmptySet
      <3>2. entry' = Absent /\ open' = open \ {entry.transporter} /\ using' = using
        BY <1>5, <2>2 DEF Evict, Evicted
      <3>3. \A w \in PoolRuns : using'[w] = NoTransporter
        BY <3>1, <3>2 DEF PoolUsers
      <3>. QED
        BY <2>1, <3>1, <3>2, <3>3, FS_EmptySet DEF Absent
    <2>3. CASE ~(entry.activeCount = 0 /\ entry.expired)
      BY <1>5, <2>1, <2>3 DEF Evict, Evicted
    <2>. QED
      BY <2>2, <2>3
  <1>6. ASSUME UNCHANGED poolVars PROVE PoolInv'
    BY <1>6 DEF poolVars, PoolUsers
  <1>. QED
    BY <1>1, <1>2, <1>3, <1>4, <1>5, <1>6 DEF PoolNext

LEMMA PoolImplies == PoolInv => PoolTypeOK /\ UsedIsOpen
  BY DEF PoolInv, UsersShare, UsedIsOpen, PoolUsers

\* A transporter in use is never closed, and the entry counts its users
\* (emailWorker.ts:102-164), for any number of runs.
THEOREM UsedIsOpenCorrect == PoolSpec => []UsedIsOpen
  <1>1. PoolSpec => []PoolInv
    BY PoolStarts, PoolStep, PTL DEF PoolSpec
  <1>. QED
    BY <1>1, PoolImplies, PTL

(***************************************************************************)
(* The pool of IMAP connections.  As long as no acquisition has crossed    *)
(* another, one connection at most is alive, one scan at most is at work,  *)
(* and a connection that is ready is the one of the entry.                 *)
(***************************************************************************)
EntryIsReady == Present => link[pooled.conn] = "ready"

OpenerIsThere ==
  \A c \in Connections : link[c] = "connecting" =>
    \E s \in ImapScans : fetch[s] = [step |-> "connecting", conn |-> c]

OneAlive ==
  \A c, d \in Connections :
    link[c] \notin {"new", "closed"} /\ link[d] \notin {"new", "closed"} => c = d

OneAtWork ==
  /\ \A s, t \in ImapScans : fetch[s].step # "idle" /\ fetch[t].step # "idle" => s = t
  /\ \A s \in ImapScans : /\ fetch[s].step = "using" => pooled.inUse \/ ~Present
                          /\ fetch[s].step = "connecting" => ~Present

ReadyIsPooled == \A c \in Connections : link[c] = "ready" => pooled.conn = c

ImapInv ==
  /\ ImapTypeOK /\ EntryIsReady /\ OpenerIsThere
  /\ ~crossed => OneAlive /\ OneAtWork /\ ReadyIsPooled

LEMMA ImapStarts == ImapInit => ImapInv
  <1>. SUFFICES ASSUME ImapInit PROVE ImapInv
    OBVIOUS
  <1>1. ImapTypeOK
    BY DEF ImapInit, ImapTypeOK, NoEntry, NoScan
  <1>2. EntryIsReady /\ OpenerIsThere
    BY DEF ImapInit, EntryIsReady, OpenerIsThere, Present, NoEntry
  <1>3. OneAlive /\ OneAtWork /\ ReadyIsPooled
    BY DEF ImapInit, OneAlive, OneAtWork, ReadyIsPooled, NoScan
  <1>. QED
    BY <1>1, <1>2, <1>3 DEF ImapInv

\* What a step does to the types.
LEMMA ImapTyped == ImapTypeOK /\ ImapNext => ImapTypeOK'
  <1>. SUFFICES ASSUME ImapTypeOK, ImapNext PROVE ImapTypeOK'
    OBVIOUS
  <1>. USE DEF ImapTypeOK, NoEntry, NoScan
  <1>0. LinksEnding \in [Connections -> {"new", "connecting", "ready", "ending", "closed"}]
    BY DEF LinksEnding
  <1>1. ASSUME NEW s \in ImapScans, Reuse(s) PROVE ImapTypeOK'
    BY <1>1 DEF Reuse
  <1>2. ASSUME NEW s \in ImapScans, ConnectionReady(s) PROVE ImapTypeOK'
    BY <1>2 DEF ConnectionReady
  <1>3. ASSUME NEW s \in ImapScans, EndCatchUp(s) PROVE ImapTypeOK'
    BY <1>3 DEF EndCatchUp, Released
  <1>4. ASSUME NEW s \in ImapScans, evictExpiredEntries(s) PROVE ImapTypeOK'
    <2>1. link' \in {link, LinksEnding} /\ pooled' \in {NoEntry, Released}
          /\ fetch' = [fetch EXCEPT ![s] = NoScan] /\ crossed' = crossed
      BY <1>4 DEF evictExpiredEntries
    <2>2. Released \in [conn : Connections \cup {NoConnection}, inUse : BOOLEAN, expired : BOOLEAN]
      BY DEF Released
    <2>. HIDE DEF NoEntry
    <2>3. NoEntry \in [conn : Connections \cup {NoConnection}, inUse : BOOLEAN, expired : BOOLEAN]
      BY DEF NoEntry
    <2>. QED
      BY <1>0, <2>1, <2>2, <2>3
  <1>5. ASSUME NEW s \in ImapScans, NEW c \in Connections, OpenConnection(s, c) PROVE ImapTypeOK'
    BY <1>0, <1>5 DEF OpenConnection, Present
  <1>6. ASSUME NEW c \in Connections, ConnectionFails(c) \/ ConnectionEnds(c) PROVE ImapTypeOK'
    <2>1. CASE ConnectionFails(c)
      BY <2>1 DEF ConnectionFails
    <2>2. CASE ConnectionEnds(c)
      BY <2>2 DEF ConnectionEnds
    <2>. QED
      BY <1>6, <2>1, <2>2
  <1>7. ASSUME Expires PROVE ImapTypeOK'
    BY <1>7 DEF Expires
  <1>8. ASSUME EvictedByOther PROVE ImapTypeOK'
    BY <1>0, <1>8 DEF EvictedByOther
  <1>. QED
    BY <1>1, <1>2, <1>3, <1>4, <1>5, <1>6, <1>7, <1>8 DEF ImapNext

\* What is in the pool is ready, and what is opened has its opener, crossed or not.
LEMMA ImapBacked ==
  ImapTypeOK /\ EntryIsReady /\ OpenerIsThere /\ ImapNext => EntryIsReady' /\ OpenerIsThere'
  <1>. SUFFICES ASSUME ImapTypeOK, EntryIsReady, OpenerIsThere, ImapNext
                PROVE  EntryIsReady' /\ OpenerIsThere'
    OBVIOUS
  <1>. USE ImapAssumption DEF ImapAssumption, ImapTypeOK, NoEntry, NoScan, EntryIsReady, OpenerIsThere, Present
  <1>1. ASSUME NEW s \in ImapScans, Reuse(s) PROVE EntryIsReady' /\ OpenerIsThere'
    BY <1>1 DEF Reuse
  <1>2. ASSUME NEW s \in ImapScans, ConnectionReady(s) PROVE EntryIsReady' /\ OpenerIsThere'
    BY <1>2 DEF ConnectionReady
  <1>3. ASSUME NEW s \in ImapScans, EndCatchUp(s) PROVE EntryIsReady' /\ OpenerIsThere'
    BY <1>3 DEF EndCatchUp, Released
  <1>4. ASSUME NEW s \in ImapScans, evictExpiredEntries(s) PROVE EntryIsReady' /\ OpenerIsThere'
    BY <1>4 DEF evictExpiredEntries, Released, LinksEnding
  <1>5. ASSUME NEW s \in ImapScans, NEW c \in Connections, OpenConnection(s, c)
        PROVE  EntryIsReady' /\ OpenerIsThere'
    BY <1>5 DEF OpenConnection, LinksEnding
  <1>6. ASSUME NEW c \in Connections, ConnectionFails(c) \/ ConnectionEnds(c)
        PROVE  EntryIsReady' /\ OpenerIsThere'
    BY <1>6 DEF ConnectionFails, ConnectionEnds
  <1>7. ASSUME Expires \/ EvictedByOther PROVE EntryIsReady' /\ OpenerIsThere'
    BY <1>7 DEF Expires, EvictedByOther, LinksEnding
  <1>. QED
    BY <1>1, <1>2, <1>3, <1>4, <1>5, <1>6, <1>7 DEF ImapNext

Uncrossed == OneAlive /\ OneAtWork /\ ReadyIsPooled

LEMMA ImapUncrossed ==
  ImapTypeOK /\ EntryIsReady /\ OpenerIsThere /\ Uncrossed /\ ~crossed' /\ ImapNext => Uncrossed'
  <1>. SUFFICES ASSUME ImapTypeOK, EntryIsReady, OpenerIsThere, Uncrossed, ~crossed', ImapNext
                PROVE  Uncrossed'
    OBVIOUS
  <1>. USE ImapAssumption DEF ImapAssumption, ImapTypeOK, NoEntry, NoScan, Present, Uncrossed,
           OneAlive, OneAtWork, ReadyIsPooled
  <1>1. ASSUME NEW s \in ImapScans, Reuse(s) PROVE Uncrossed'
    <2>1. pooled.conn # NoConnection /\ ~pooled.inUse /\ ~crossed
      BY <1>1 DEF Reuse, Usable
    <2>2. \A t \in ImapScans : fetch[t].step = "idle"
      BY <2>1
    <2>3. fetch' = [fetch EXCEPT ![s] = [step |-> "using", conn |-> pooled.conn]]
          /\ pooled' = [pooled EXCEPT !.inUse = TRUE] /\ link' = link
      BY <1>1 DEF Reuse
    <2>4. OneAtWork'
      BY <2>2, <2>3
    <2>. QED
      BY <2>3, <2>4
  <1>2. ASSUME NEW s \in ImapScans, ConnectionReady(s) PROVE Uncrossed'
    BY <1>2 DEF ConnectionReady
  <1>3. ASSUME NEW s \in ImapScans, EndCatchUp(s) PROVE Uncrossed'
    BY <1>3 DEF EndCatchUp, Released
  <1>4. ASSUME NEW s \in ImapScans, evictExpiredEntries(s) PROVE Uncrossed'
    BY <1>4 DEF evictExpiredEntries, Released, LinksEnding, EntryIsReady
  <1>5. ASSUME NEW s \in ImapScans, NEW c \in Connections, OpenConnection(s, c) PROVE Uncrossed'
    <2>1. ~Present /\ (\A t \in ImapScans : fetch[t].step = "idle")
          /\ \A d \in Connections : link[d] # "ending"
      BY <1>5 DEF OpenConnection
    <2>2. ASSUME NEW d \in Connections PROVE link[d] \in {"new", "closed"}
      <3>1. link[d] # "ready"
        BY <2>1
      <3>2. link[d] # "connecting"
        <4>1. SUFFICES ASSUME link[d] = "connecting" PROVE FALSE
          OBVIOUS
        <4>2. PICK t \in ImapScans : fetch[t] = [step |-> "connecting", conn |-> d]
          BY <4>1 DEF OpenerIsThere
        <4>3. fetch[t].step = "connecting"
          BY <4>2
        <4>. QED
          BY <2>1, <4>3
      <3>3. link[d] \in {"new", "connecting", "ready", "ending", "closed"}
        OBVIOUS
      <3>. QED
        BY <2>1, <3>1, <3>2, <3>3
    <2>. QED
      BY <1>5, <2>1, <2>2 DEF OpenConnection, LinksEnding
  <1>6. ASSUME NEW c \in Connections, ConnectionFails(c) \/ ConnectionEnds(c) PROVE Uncrossed'
    BY <1>6 DEF ConnectionFails, ConnectionEnds
  <1>7. ASSUME Expires \/ EvictedByOther PROVE Uncrossed'
    BY <1>7 DEF Expires, EvictedByOther, LinksEnding
  <1>. QED
    BY <1>1, <1>2, <1>3, <1>4, <1>5, <1>6, <1>7 DEF ImapNext

LEMMA CrossedStays == ImapNext /\ crossed => crossed'
  BY DEF ImapNext, Reuse, ConnectionReady, EndCatchUp, evictExpiredEntries, OpenConnection,
     ConnectionFails, ConnectionEnds, Expires, EvictedByOther

LEMMA ImapStep == ImapInv /\ [ImapNext]_imapVars => ImapInv'
  <1>1. ImapInv /\ ImapNext => ImapInv'
    BY ImapTyped, ImapBacked, ImapUncrossed, CrossedStays DEF ImapInv, Uncrossed
  <1>2. ImapInv /\ UNCHANGED imapVars => ImapInv'
    BY DEF ImapInv, imapVars, ImapTypeOK, EntryIsReady, OpenerIsThere, OneAlive, OneAtWork,
       ReadyIsPooled, Present
  <1>. QED
    BY <1>1, <1>2

LEMMA ImapImplies == ImapInv => ImapTypeOK /\ PoolIsSound
  <1>. SUFFICES ASSUME ImapInv PROVE ImapTypeOK /\ PoolIsSound
    OBVIOUS
  <1>1. ASSUME ~crossed, NEW c \in Connections PROVE Cardinality(ScansOf(c)) <= 1
    <2>1. CASE ScansOf(c) = {}
      BY <2>1, FS_EmptySet
    <2>2. CASE ScansOf(c) # {}
      <3>1. PICK s \in ImapScans : s \in ScansOf(c)
        BY <2>2 DEF ScansOf
      <3>2. ScansOf(c) = {s}
        BY <1>1, <3>1 DEF ImapInv, OneAtWork, ScansOf
      <3>. QED
        BY <3>2, FS_Singleton
    <2>. QED
      BY <2>1, <2>2
  <1>2. LeakedOnlyWhenCrossed
    BY DEF ImapInv, ReadyIsPooled, LeakedOnlyWhenCrossed
  <1>. QED
    BY <1>1, <1>2 DEF ImapInv, PoolIsSound, SharedOnlyWhenCrossed

\* replyDetector.ts: a connection is handed to one scan at a time and none is lost, as long
\* as acquisitions do not cross, for any scans and connections.
THEOREM PoolIsSoundCorrect == ImapSpec => []PoolIsSound
  <1>1. ImapSpec => []ImapInv
    BY ImapStarts, ImapStep, PTL DEF ImapSpec
  <1>. QED
    BY <1>1, ImapImplies, PTL

(***************************************************************************)
(* Priority mail.  Who sends a mail has claimed it, from PENDING or in a   *)
(* takeover: so the copies and the senders are one more than the takeovers *)
(* at most, and none more while the mail may be claimed anew.              *)
(***************************************************************************)
RowRec == [status : {"PRIORITY_PENDING", "PRIORITY_SENDING", "SENT", "FAILED"},
           retryCount : 0..MaxRetries]
LimitRec == [used : Nat, over : BOOLEAN]

\* The runs that have claimed mail m, and those whose copy has been accepted.
Claimants(m) == {w \in PriorityRuns : letter[w] = m /\ doing[w] = "smtp"}
Persisting(m) == {w \in PriorityRuns : letter[w] = m /\ doing[w] = "persist"}
Copying(m) == Cardinality(Claimants(m)) + (IF ordinary[m] = "sending" THEN 1 ELSE 0)

\* A run works on a letter, and is refused for good only in the warmup.
RunsHaveLetters ==
  \A w \in PriorityRuns : /\ (doing[w] = "idle" <=> letter[w] = NoLetter)
                          /\ (doing[w] = "refuseForGood" => warming)

CopiesCounted ==
  \A m \in Letters :
    /\ letters[m] + Copying(m) <= takeovers[m] + (IF mail[m] = "PENDING" THEN 0 ELSE 1)
    /\ mail[m] = "SENDING" /\ Copying(m) = 0 /\ Persisting(m) = {} => letters[m] <= takeovers[m]

\* Somebody will look at a row that is open.
OpenRowTended ==
  \A m \in Letters :
    row[m].status \in {"PRIORITY_PENDING", "PRIORITY_SENDING"} /\ ~warming =>
      waiting[m] > 0 \/ \E w \in PriorityRuns : letter[w] = m /\ doing[w] # "failMail"

PriorityInv == PriorityTypeOK /\ RunsHaveLetters /\ CopiesCounted /\ OpenRowTended

LEMMA PriorityStarts == PriorityInit => PriorityInv
  <1>. SUFFICES ASSUME PriorityInit PROVE PriorityInv
    OBVIOUS
  <1>. USE PriorityAssumption DEF PriorityAssumption
  <1>1. PriorityTypeOK
    BY DEF PriorityInit, PriorityTypeOK, PrioritySteps
  <1>2. RunsHaveLetters
    BY DEF PriorityInit, RunsHaveLetters
  <1>3. ASSUME NEW m \in Letters PROVE Copying(m) = 0
    <2>1. Claimants(m) = {}
      BY DEF PriorityInit, Claimants
    <2>. QED
      BY <2>1, FS_EmptySet DEF Copying, PriorityInit
  <1>4. CopiesCounted
    BY <1>3 DEF PriorityInit, CopiesCounted
  <1>5. OpenRowTended
    BY DEF PriorityInit, OpenRowTended
  <1>. QED
    BY <1>1, <1>2, <1>4, <1>5 DEF PriorityInv

\* What a step of a run does to who sends.
LEMMA ClaimantsCounted ==
  ASSUME PriorityTypeOK, NEW m \in Letters
  PROVE  /\ IsFiniteSet(Claimants(m)) /\ Cardinality(Claimants(m)) \in Nat
         /\ Copying(m) \in Nat
         /\ (Copying(m) = 0 => Claimants(m) = {} /\ ordinary[m] # "sending")
         /\ (Claimants(m) = {} /\ ordinary[m] # "sending" => Copying(m) = 0)
  <1>1. IsFiniteSet(Claimants(m)) /\ Cardinality(Claimants(m)) \in Nat
    <2>1. IsFiniteSet(PriorityRuns)
      BY PriorityAssumption DEF PriorityAssumption
    <2>2. Claimants(m) \subseteq PriorityRuns
      BY DEF Claimants
    <2>. QED
      BY <2>1, <2>2, FS_Subset, FS_CardinalityType
  <1>2. Cardinality(Claimants(m)) = 0 <=> Claimants(m) = {}
    BY <1>1, FS_EmptySet
  <1>. QED
    BY <1>1, <1>2 DEF Copying

\* The types.
LEMMA PriorityTyped == PriorityTypeOK /\ RunsHaveLetters /\ PriorityNext => PriorityTypeOK'
  <1>. SUFFICES ASSUME PriorityTypeOK, RunsHaveLetters, PriorityNext PROVE PriorityTypeOK'
    OBVIOUS
  <1>. USE PriorityAssumption DEF PriorityAssumption
  <1>0. /\ mail \in [Letters -> {"PENDING", "SENDING", "SENT", "FAILED"}]
        /\ ordinary \in [Letters -> {"none", "queued", "sending"}]
        /\ row \in [Letters -> RowRec]
        /\ waiting \in [Letters -> 0..MaxWaiting]
        /\ doing \in [PriorityRuns -> PrioritySteps]
        /\ letter \in [PriorityRuns -> Letters \cup {NoLetter}]
        /\ tried \in [PriorityRuns -> 0..MaxRetries]
        /\ quota \in LimitRec /\ domain \in LimitRec
        /\ warming \in BOOLEAN /\ hours \in 0..MaxHours /\ failures \in 0..MaxFailures
        /\ letters \in [Letters -> Nat] /\ takeovers \in [Letters -> Nat]
    BY DEF PriorityTypeOK, RowRec, LimitRec
  <1>. DEFINE Goal == PriorityTypeOK'
  <1>. USE DEF letterVars, limitRowVars, priorityBounds, historyVars, priorityRunVars, Step
  <1>a. ASSUME NEW m \in Letters,
               NEW s \in {"PRIORITY_PENDING", "PRIORITY_SENDING", "SENT", "FAILED"}, SetRow(m, s)
        PROVE  row' \in [Letters -> RowRec]
    BY <1>0, <1>a DEF RowRec, SetRow
  <1>b. ASSUME NEW m \in Letters, Requeue(m) PROVE waiting' \in [Letters -> 0..MaxWaiting]
    BY <1>0, <1>b DEF Requeue
  <1>c. ASSUME NEW w \in PriorityRuns, doing[w] # "idle" PROVE letter[w] \in Letters
    BY <1>0, <1>c DEF RunsHaveLetters
  <1>d. ASSUME NEW w \in PriorityRuns, NEW from, Finish(w, from)
        PROVE  /\ doing' \in [PriorityRuns -> PrioritySteps]
               /\ letter' \in [PriorityRuns -> Letters \cup {NoLetter}]
               /\ tried' \in [PriorityRuns -> 0..MaxRetries]
    BY <1>0, <1>d DEF Finish, PrioritySteps
  <1>e. ASSUME NEW w \in PriorityRuns, NEW from, NEW to \in PrioritySteps, Step(w, from, to)
        PROVE  doing' \in [PriorityRuns -> PrioritySteps]
    BY <1>0, <1>e
  <1>f. ASSUME NEW r \in LimitRec
        PROVE  /\ [used |-> 0, over |-> FALSE] \in LimitRec /\ [r EXCEPT !.used = @ + 1] \in LimitRec
               /\ [used |-> r.used + 1, over |-> FALSE] \in LimitRec
               /\ [r EXCEPT !.over = TRUE] \in LimitRec
    <2>1. r.used \in Nat /\ r = [used |-> r.used, over |-> r.over] /\ r.over \in BOOLEAN
      BY DEF LimitRec
    <2>2. [used |-> 0, over |-> FALSE] \in LimitRec /\ [used |-> r.used + 1, over |-> FALSE] \in LimitRec
      BY <2>1 DEF LimitRec
    <2>3. [r EXCEPT !.used = @ + 1] \in LimitRec
      BY <2>1 DEF LimitRec
    <2>4. [r EXCEPT !.over = TRUE] \in LimitRec
      BY <2>1 DEF LimitRec
    <2>. QED
      BY <2>2, <2>3, <2>4
  <1>1. ASSUME NEW w \in PriorityRuns, NEW m \in Letters, StartPriority(w, m)
        PROVE  Goal
    <2>1. row[m].retryCount \in 0..MaxRetries
      BY <1>0 DEF RowRec
    <2>2. waiting' \in [Letters -> 0..MaxWaiting] /\ tried' \in [PriorityRuns -> 0..MaxRetries]
      BY <1>0, <1>1, <2>1 DEF StartPriority
    <2>3. row' \in [Letters -> RowRec] /\ doing' \in [PriorityRuns -> PrioritySteps]
      BY <1>1, <1>a, <1>e DEF StartPriority, PrioritySteps
    <2>4. letter' \in [PriorityRuns -> Letters \cup {NoLetter}]
      BY <1>0, <1>1 DEF StartPriority
    <2>. QED
      BY <1>0, <1>1, <2>2, <2>3, <2>4 DEF StartPriority, PriorityTypeOK, RowRec, LimitRec
  <1>2. ASSUME NEW w \in PriorityRuns,
               \/ CheckQuota(w) \/ ResetQuota(w) \/ CheckDomain(w) \/ ResetDomain(w)
               \/ CheckWarmup(w) \/ CountQuota(w) \/ CountDomainRate(w)
        PROVE  Goal
    <2>1. /\ doing' \in [PriorityRuns -> PrioritySteps] /\ quota' \in LimitRec /\ domain' \in LimitRec
          /\ UNCHANGED <<letterVars, row, waiting, letter, tried, priorityBounds, historyVars>>
      <3>1. CASE CheckQuota(w)
        BY <3>1, <1>0 DEF CheckQuota, PrioritySteps
      <3>2. CASE ResetQuota(w) \/ ResetDomain(w)
        <4>1. [used |-> 0, over |-> FALSE] \in LimitRec
          BY <1>0, <1>f
        <4>2. CASE ResetQuota(w)
          BY <4>1, <4>2, <1>0 DEF ResetQuota, PrioritySteps
        <4>3. CASE ResetDomain(w)
          BY <4>1, <4>3, <1>0 DEF ResetDomain, PrioritySteps
        <4>. QED
          BY <3>2, <4>2, <4>3
      <3>3. CASE CheckDomain(w) \/ CheckWarmup(w)
        BY <3>3, <1>0 DEF CheckDomain, CheckWarmup, PrioritySteps
      <3>4. CASE CountQuota(w)
        <4>1. quota' \in LimitRec /\ UNCHANGED domain
          BY <3>4, <1>0, <1>f DEF CountQuota
        <4>. QED
          BY <3>4, <4>1, <1>0 DEF CountQuota, PrioritySteps
      <3>5. CASE CountDomainRate(w)
        <4>1. domain' \in LimitRec /\ UNCHANGED quota
          BY <3>5, <1>0, <1>f DEF CountDomainRate
        <4>. QED
          BY <3>5, <4>1, <1>0 DEF CountDomainRate, PrioritySteps
      <3>. QED
        BY <1>2, <3>1, <3>2, <3>3, <3>4, <3>5
    <2>. QED
      BY <1>0, <2>1 DEF PriorityTypeOK, RowRec, LimitRec
  <1>3. ASSUME NEW w \in PriorityRuns,
               \/ Refuse(w) \/ RefuseForGood(w) \/ FailMail(w) \/ GiveUpAfterError(w) \/ Succeed(w)
               \/ Retry(w, "hold") \/ Retry(w, "catch")
        PROVE  Goal
    <2>1. letter[w] \in Letters /\ tried[w] \in Nat
      BY <1>0, <1>3, <1>c DEF Refuse, RefuseForGood, FailMail, GiveUpAfterError, Succeed, Retry, Finish
    <2>2. row' \in [Letters -> RowRec] /\ waiting' \in [Letters -> 0..MaxWaiting]
          /\ mail' \in [Letters -> {"PENDING", "SENDING", "SENT", "FAILED"}]
          /\ UNCHANGED <<ordinary, limitRowVars, priorityBounds, historyVars>>
      <3>1. CASE Refuse(w)
        BY <3>1, <2>1, <1>0, <1>a, <1>b DEF Refuse
      <3>2. CASE RefuseForGood(w) \/ GiveUpAfterError(w) \/ Succeed(w)
        BY <3>2, <2>1, <1>0, <1>a DEF RefuseForGood, GiveUpAfterError, Succeed
      <3>3. CASE FailMail(w)
        BY <3>3, <2>1, <1>0 DEF FailMail
      <3>4. ASSUME NEW from, Retry(w, from)
            PROVE  /\ row' \in [Letters -> RowRec] /\ waiting' \in [Letters -> 0..MaxWaiting]
                   /\ mail' \in [Letters -> {"PENDING", "SENDING", "SENT", "FAILED"}]
                   /\ UNCHANGED <<ordinary, limitRowVars, priorityBounds, historyVars>>
        <4>1. tried[w] + 1 \in 0..MaxRetries
          BY <2>1, <3>4 DEF Retry, MayRetry
        <4>2. row' \in [Letters -> RowRec]
          BY <4>1, <2>1, <1>0, <3>4 DEF Retry, RowRec
        <4>3. waiting' \in [Letters -> 0..MaxWaiting]
          BY <2>1, <3>4, <1>b DEF Retry
        <4>. QED
          BY <4>2, <4>3, <3>4, <1>0 DEF Retry
      <3>. QED
        BY <1>3, <3>1, <3>2, <3>3, <3>4
    <2>3. PICK from : Finish(w, from)
      BY <1>3 DEF Refuse, RefuseForGood, FailMail, GiveUpAfterError, Succeed, Retry
    <2>. QED
      BY <1>0, <1>d, <2>2, <2>3 DEF PriorityTypeOK, RowRec, LimitRec
  <1>4. ASSUME NEW w \in PriorityRuns, DecideTiming(w) \/ GiveUpHolding(w)
        PROVE  Goal
    <2>1. letter[w] \in Letters
      BY <1>0, <1>4, <1>c DEF DecideTiming, GiveUpHolding
    <2>2. row' \in [Letters -> RowRec] /\ doing' \in [PriorityRuns -> PrioritySteps]
          /\ UNCHANGED <<letterVars, waiting, letter, tried, limitRowVars, priorityBounds, historyVars>>
      <3>1. CASE DecideTiming(w)
        BY <3>1, <2>1, <1>0, <1>a DEF DecideTiming, PrioritySteps
      <3>2. CASE GiveUpHolding(w)
        BY <3>2, <2>1, <1>0, <1>a DEF GiveUpHolding, PrioritySteps
      <3>. QED
        BY <1>4, <3>1, <3>2
    <2>. QED
      BY <1>0, <2>2 DEF PriorityTypeOK, RowRec, LimitRec
  <1>5. ASSUME NEW w \in PriorityRuns,
               ClaimLetter(w) \/ SmtpAccepts(w) \/ SmtpRefuses(w) \/ PersistLetter(w)
        PROVE  Goal
    <2>1. letter[w] \in Letters
      BY <1>0, <1>5, <1>c DEF ClaimLetter, SmtpAccepts, SmtpRefuses, PersistLetter
    <2>2. doing' \in [PriorityRuns -> PrioritySteps]
          /\ mail' \in [Letters -> {"PENDING", "SENDING", "SENT", "FAILED"}]
          /\ ordinary' \in [Letters -> {"none", "queued", "sending"}]
          /\ letters' \in [Letters -> Nat] /\ takeovers' \in [Letters -> Nat]
          /\ UNCHANGED <<row, waiting, letter, tried, limitRowVars, priorityBounds>>
      <3>1. CASE ClaimLetter(w)
        BY <3>1, <2>1, <1>0 DEF ClaimLetter, PrioritySteps
      <3>2. CASE SmtpAccepts(w)
        BY <3>2, <2>1, <1>0 DEF SmtpAccepts, PrioritySteps
      <3>3. CASE SmtpRefuses(w)
        BY <3>3, <2>1, <1>0 DEF SmtpRefuses, PrioritySteps
      <3>4. CASE PersistLetter(w)
        BY <3>4, <2>1, <1>0 DEF PersistLetter, PrioritySteps
      <3>. QED
        BY <1>5, <3>1, <3>2, <3>3, <3>4
    <2>. QED
      BY <1>0, <2>2 DEF PriorityTypeOK, RowRec, LimitRec
  <1>6. ASSUME NEW w \in PriorityRuns, Verify(w)
        PROVE  Goal
    <2>1. letter[w] \in Letters
      BY <1>0, <1>6, <1>c DEF Verify
    <2>2. UNCHANGED <<letterVars, waiting, limitRowVars, priorityBounds, historyVars>>
      BY <1>6 DEF Verify
    <2>3. CASE Finish(w, "verify") /\ SetRow(letter[w], "FAILED")
      BY <1>0, <1>a, <1>d, <2>1, <2>2, <2>3 DEF PriorityTypeOK, RowRec, LimitRec
    <2>4. CASE (Step(w, "verify", "countQuota") \/ Step(w, "verify", "catch")) /\ UNCHANGED <<letter, tried, row>>
      <3>1. doing' \in [PriorityRuns -> PrioritySteps]
        BY <1>0, <2>4 DEF PrioritySteps
      <3>. QED
        BY <1>0, <2>2, <2>4, <3>1 DEF PriorityTypeOK, RowRec, LimitRec
    <2>. QED
      BY <1>6, <2>3, <2>4 DEF Verify
  <1>7. ASSUME NEW m \in Letters, OrdinaryClaim(m) \/ OrdinaryEnd(m) \/ SweepOrdinary(m)
        PROVE  Goal
    <2>1. mail' \in [Letters -> {"PENDING", "SENDING", "SENT", "FAILED"}]
          /\ ordinary' \in [Letters -> {"none", "queued", "sending"}]
          /\ letters' \in [Letters -> Nat]
          /\ UNCHANGED <<row, waiting, priorityRunVars, limitRowVars, priorityBounds, takeovers>>
      <3>1. CASE OrdinaryClaim(m)
        BY <3>1, <1>0 DEF OrdinaryClaim
      <3>2. CASE OrdinaryEnd(m)
        BY <3>2, <1>0 DEF OrdinaryEnd
      <3>3. CASE SweepOrdinary(m)
        BY <3>3, <1>0 DEF SweepOrdinary
      <3>. QED
        BY <1>7, <3>1, <3>2, <3>3
    <2>. QED
      BY <1>0, <2>1 DEF PriorityTypeOK, RowRec, LimitRec
  <1>8. ASSUME NEW midnight \in BOOLEAN, HourPasses(midnight) PROVE Goal
    <2>1. hours' \in 0..MaxHours
      BY <1>0, <1>8 DEF HourPasses
    <2>2. [domain EXCEPT !.over = TRUE] \in LimitRec /\ [quota EXCEPT !.over = TRUE] \in LimitRec
      BY <1>0, <1>f
    <2>3. domain' \in LimitRec /\ quota' \in LimitRec
      BY <1>0, <1>8, <2>2 DEF HourPasses
    <2>. QED
      BY <1>0, <1>8, <2>1, <2>3 DEF PriorityTypeOK, RowRec, LimitRec, HourPasses
  <1>9. ASSUME NEW m \in Letters, SweepPriority(m) PROVE Goal
    <2>1. failures' \in 0..MaxFailures /\ row' \in [Letters -> RowRec]
          /\ waiting' \in [Letters -> 0..MaxWaiting]
      BY <1>0, <1>9, <1>a, <1>b DEF SweepPriority
    <2>. QED
      BY <1>0, <1>9, <2>1 DEF PriorityTypeOK, RowRec, LimitRec, SweepPriority
  <1>10. ASSUME CrashPriority PROVE Goal
    <2>1. failures' \in 0..MaxFailures
      BY <1>0, <1>10 DEF CrashPriority
    <2>2. mail' \in [Letters -> {"PENDING", "SENDING", "SENT", "FAILED"}]
          /\ ordinary' \in [Letters -> {"none", "queued", "sending"}]
      BY <1>0, <1>10 DEF CrashPriority
    <2>3. row' \in [Letters -> RowRec]
      <3>1. row' = [m \in Letters |-> IF row[m].status = "PRIORITY_SENDING"
                                      THEN [row[m] EXCEPT !.status = "PRIORITY_PENDING"] ELSE row[m]]
        BY <1>10 DEF CrashPriority
      <3>. QED
        BY <1>0, <3>1 DEF RowRec
    <2>4. waiting' \in [Letters -> 0..MaxWaiting]
      <3>. DEFINE added(m) == Cardinality({w \in PriorityRuns : letter[w] = m})
                              + (IF row[m].status = "PRIORITY_SENDING" THEN 1 ELSE 0)
                  bounded(n) == IF n < MaxWaiting THEN n ELSE MaxWaiting
      <3>1. ASSUME NEW m \in Letters PROVE added(m) \in Nat
        <4>1. Cardinality({w \in PriorityRuns : letter[w] = m}) \in Nat
          BY FS_Subset, FS_CardinalityType
        <4>. QED
          BY <4>1
      <3>2. waiting' = [m \in Letters |-> bounded(waiting[m] + added(m))]
        BY <1>10 DEF CrashPriority
      <3>. HIDE DEF added
      <3>3. ASSUME NEW m \in Letters PROVE bounded(waiting[m] + added(m)) \in 0..MaxWaiting
        <4>1. waiting[m] \in 0..MaxWaiting
          BY <1>0
        <4>. QED
          BY <3>1, <4>1
      <3>. HIDE DEF bounded
      <3>. QED
        BY <3>2, <3>3
    <2>5. /\ doing' \in [PriorityRuns -> PrioritySteps]
          /\ letter' \in [PriorityRuns -> Letters \cup {NoLetter}]
          /\ tried' \in [PriorityRuns -> 0..MaxRetries]
          /\ UNCHANGED <<limitRowVars, warming, hours, historyVars>>
      BY <1>10 DEF CrashPriority, PrioritySteps
    <2>. QED
      BY <1>0, <2>1, <2>2, <2>3, <2>4, <2>5 DEF PriorityTypeOK, RowRec, LimitRec
  <1>. HIDE DEF Goal
  <1>11. Goal
    BY <1>1, <1>2, <1>3, <1>4, <1>5, <1>6, <1>7, <1>8, <1>9, <1>10 DEF PriorityNext, PriorityStep
  <1>. QED
    BY <1>11 DEF Goal

(***************************************************************************)
(* Runs and their letters, and the rows that somebody tends.               *)
(***************************************************************************)
LEMMA RunsStep == PriorityTypeOK /\ RunsHaveLetters /\ PriorityNext => RunsHaveLetters'
  <1>. SUFFICES ASSUME PriorityTypeOK, RunsHaveLetters, PriorityNext PROVE RunsHaveLetters'
    OBVIOUS
  <1>. USE PriorityAssumption DEF PriorityAssumption, Step, Finish, letterVars, limitRowVars,
       priorityBounds, historyVars, priorityRunVars
  <1>0. doing \in [PriorityRuns -> PrioritySteps] /\ letter \in [PriorityRuns -> Letters \cup {NoLetter}]
    BY DEF PriorityTypeOK
  <1>1. ASSUME NEW w \in PriorityRuns, NEW m \in Letters, StartPriority(w, m)
        PROVE  RunsHaveLetters'
    BY <1>0, <1>1 DEF StartPriority, RunsHaveLetters
  <1>2. ASSUME NEW w \in PriorityRuns, CheckWarmup(w)
        PROVE  RunsHaveLetters'
    BY <1>0, <1>2 DEF CheckWarmup, RunsHaveLetters
  <1>3. ASSUME NEW w \in PriorityRuns, NEW from, Finish(w, from), UNCHANGED warming
        PROVE  RunsHaveLetters'
    BY <1>0, <1>3 DEF RunsHaveLetters
  <1>4. ASSUME NEW w \in PriorityRuns, NEW from, NEW to, Step(w, from, to), from # "idle",
               to \notin {"idle", "refuseForGood"}, UNCHANGED <<letter, warming>>
        PROVE  RunsHaveLetters'
    BY <1>0, <1>4 DEF RunsHaveLetters
  <1>5. ASSUME UNCHANGED <<doing, letter, warming>> PROVE RunsHaveLetters'
    BY <1>5 DEF RunsHaveLetters
  <1>6. ASSUME CrashPriority PROVE RunsHaveLetters'
    BY <1>6 DEF CrashPriority, RunsHaveLetters
  <1>7. ASSUME NEW w \in PriorityRuns, PriorityStep(w) PROVE RunsHaveLetters'
    <2>1. CASE \/ Refuse(w) \/ RefuseForGood(w) \/ Retry(w, "hold") \/ Retry(w, "catch")
               \/ FailMail(w) \/ Succeed(w) \/ GiveUpAfterError(w)
      <3>1. PICK from : Finish(w, from) /\ UNCHANGED warming
        BY <2>1 DEF Refuse, RefuseForGood, Retry, FailMail, Succeed, GiveUpAfterError
      <3>. QED
        BY <3>1, <1>3
    <2>2. CASE CheckQuota(w)
      <3>1. PICK to \in {"resetQuota", "refuse", "domain"} : Step(w, "quota", to)
        BY <2>2 DEF CheckQuota
      <3>. QED
        BY <2>2, <3>1, <1>4 DEF CheckQuota
    <2>3. CASE ResetQuota(w) \/ ResetDomain(w)
      BY <2>3, <1>4 DEF ResetQuota, ResetDomain
    <2>4. CASE CheckDomain(w)
      <3>1. PICK to \in {"resetDomain", "refuse", "warmup"} : Step(w, "domain", to)
        BY <2>4 DEF CheckDomain
      <3>. QED
        BY <2>4, <3>1, <1>4 DEF CheckDomain
    <2>5. CASE DecideTiming(w) \/ GiveUpHolding(w)
      BY <2>5, <1>4 DEF DecideTiming, GiveUpHolding
    <2>6. CASE ClaimLetter(w) \/ SmtpAccepts(w)
      BY <2>6, <1>4 DEF ClaimLetter, SmtpAccepts
    <2>7. CASE SmtpRefuses(w) \/ PersistLetter(w)
      BY <2>7, <1>4 DEF SmtpRefuses, PersistLetter
    <2>8. CASE CountQuota(w) \/ CountDomainRate(w)
      BY <2>8, <1>4 DEF CountQuota, CountDomainRate
    <2>9. CASE Verify(w)
      <3>1. UNCHANGED warming
        BY <2>9 DEF Verify
      <3>2. CASE Finish(w, "verify")
        BY <3>1, <3>2, <1>3
      <3>3. CASE (Step(w, "verify", "countQuota") \/ Step(w, "verify", "catch")) /\ UNCHANGED letter
        <4>1. PICK to \in {"countQuota", "catch"} : Step(w, "verify", to)
          BY <3>3
        <4>. QED
          BY <4>1, <3>1, <3>3, <1>4
      <3>. QED
        BY <2>9, <3>2, <3>3 DEF Verify
    <2>. QED
      BY <1>2, <1>7, <2>1, <2>2, <2>3, <2>4, <2>5, <2>6, <2>7, <2>8, <2>9 DEF PriorityStep
  <1>8. ASSUME NEW m \in Letters, OrdinaryClaim(m) \/ OrdinaryEnd(m) \/ SweepPriority(m) \/ SweepOrdinary(m)
        PROVE  RunsHaveLetters'
    BY <1>5, <1>8 DEF OrdinaryClaim, OrdinaryEnd, SweepPriority, SweepOrdinary
  <1>9. ASSUME NEW midnight \in BOOLEAN, HourPasses(midnight) PROVE RunsHaveLetters'
    BY <1>5, <1>9 DEF HourPasses
  <1>. QED
    BY <1>1, <1>6, <1>7, <1>8, <1>9 DEF PriorityNext

\* A mail whose row is open, or a run that will still put it back.
Tended(m) == waiting[m] > 0 \/ \E w \in PriorityRuns : letter[w] = m /\ doing[w] # "failMail"
OpenRow(m) == row[m].status \in {"PRIORITY_PENDING", "PRIORITY_SENDING"} /\ ~warming

LEMMA TendedStep ==
  PriorityTypeOK /\ RunsHaveLetters /\ OpenRowTended /\ PriorityNext => OpenRowTended'
  <1>. SUFFICES ASSUME PriorityTypeOK, RunsHaveLetters, OpenRowTended, PriorityNext
                PROVE  OpenRowTended'
    OBVIOUS
  <1>. USE PriorityAssumption DEF PriorityAssumption, Step, Finish, letterVars, limitRowVars,
       priorityBounds, historyVars, priorityRunVars
  <1>0. /\ doing \in [PriorityRuns -> PrioritySteps]
        /\ letter \in [PriorityRuns -> Letters \cup {NoLetter}]
        /\ waiting \in [Letters -> 0..MaxWaiting] /\ row \in [Letters -> RowRec]
    BY DEF PriorityTypeOK, RowRec
  <1>b. \A m \in Letters : OpenRow(m) => Tended(m)
    BY DEF OpenRowTended, OpenRow, Tended
  <1>. SUFFICES \A m \in Letters : OpenRow(m)' => Tended(m)'
    BY DEF OpenRowTended, OpenRow, Tended
  <1>. DEFINE Goal == \A m \in Letters : OpenRow(m)' => Tended(m)'
  \* The letters but those of one run keep their tenders.
  <1>c. ASSUME NEW w \in PriorityRuns, NEW k \in Letters, letter[w] = k,
               \A v \in PriorityRuns \ {w} : letter'[v] = letter[v] /\ doing'[v] = doing[v],
               \A m \in Letters \ {k} : waiting'[m] = waiting[m] /\ row'[m] = row[m],
               UNCHANGED warming, OpenRow(k)' => Tended(k)'
        PROVE  Goal
    BY <1>0, <1>b, <1>c DEF OpenRow, Tended
  <1>d. ASSUME NEW m \in Letters, Requeue(m)
        PROVE  waiting'[m] > 0 /\ \A k \in Letters \ {m} : waiting'[k] = waiting[k]
    BY <1>0, <1>d DEF Requeue
  <1>e. ASSUME NEW m \in Letters, NEW s, SetRow(m, s)
        PROVE  row'[m].status = s /\ \A k \in Letters \ {m} : row'[k] = row[k]
    BY <1>0, <1>e DEF SetRow, RowRec
  <1>f. ASSUME NEW w \in PriorityRuns, doing[w] # "idle" PROVE letter[w] \in Letters
    BY <1>0, <1>f DEF RunsHaveLetters
  <1>g. ASSUME NEW w \in PriorityRuns, NEW from, NEW to, Step(w, from, to), UNCHANGED <<letter, warming, waiting>>,
               to # "failMail", letter[w] \in Letters,
               \A k \in Letters \ {letter[w]} : row'[k] = row[k]
        PROVE  Goal
    <2>1. doing'[w] = to /\ letter'[w] = letter[w] /\ \A v \in PriorityRuns \ {w} : doing'[v] = doing[v]
      BY <1>0, <1>g
    <2>2. Tended(letter[w])'
      BY <1>g, <2>1 DEF Tended
    <2>. QED
      BY <1>c, <1>g, <2>1, <2>2
  <1>h. ASSUME NEW w \in PriorityRuns, NEW from, Finish(w, from), UNCHANGED warming,
               NEW m \in Letters, letter[w] = m,
               \A k \in Letters \ {m} : row'[k] = row[k] /\ waiting'[k] = waiting[k],
               OpenRow(m)' => waiting'[m] > 0
        PROVE  Goal
    <2>1. \A v \in PriorityRuns \ {w} : letter'[v] = letter[v] /\ doing'[v] = doing[v]
      BY <1>0, <1>h
    <2>2. OpenRow(m)' => Tended(m)'
      BY <1>h DEF Tended
    <2>. QED
      BY <1>c, <1>h, <2>1, <2>2
  <1>1. ASSUME NEW w \in PriorityRuns, NEW m \in Letters, StartPriority(w, m) PROVE Goal
    <2>1. doing'[w] = "quota" /\ letter'[w] = m /\ letter[w] = NoLetter
      BY <1>0, <1>1 DEF StartPriority, RunsHaveLetters
    <2>2. \A v \in PriorityRuns \ {w} : letter'[v] = letter[v] /\ doing'[v] = doing[v]
      BY <1>0, <1>1 DEF StartPriority
    <2>3. \A k \in Letters \ {m} : waiting'[k] = waiting[k] /\ row'[k] = row[k]
      BY <1>0, <1>1, <1>e DEF StartPriority
    <2>4. Tended(m)'
      BY <2>1 DEF Tended
    <2>5. warming' = warming
      BY <1>1 DEF StartPriority
    <2>6. ASSUME NEW k \in Letters \ {m}, OpenRow(k)' PROVE Tended(k)'
      BY <1>b, <2>1, <2>2, <2>3, <2>5, <2>6 DEF Tended, OpenRow
    <2>. QED
      BY <2>4, <2>6
  <1>2. ASSUME NEW w \in PriorityRuns, PriorityStep(w) PROVE Goal
    <2>. HIDE DEF Goal
    <2>0. doing[w] # "idle"
      BY <1>2 DEF PriorityStep, CheckQuota, ResetQuota, CheckDomain, ResetDomain, CheckWarmup, Refuse,
         RefuseForGood, DecideTiming, Retry, GiveUpHolding, FailMail, ClaimLetter, SmtpAccepts,
         SmtpRefuses, PersistLetter, Verify, CountQuota, CountDomainRate, Succeed, GiveUpAfterError
    <2>a. letter[w] \in Letters /\ warming' = warming
      <3>1. letter[w] \in Letters
        BY <2>0, <1>f
      <3>2. warming' = warming
        BY <1>2 DEF PriorityStep, CheckQuota, ResetQuota, CheckDomain, ResetDomain, CheckWarmup, Refuse,
           RefuseForGood, DecideTiming, Retry, GiveUpHolding, FailMail, ClaimLetter, SmtpAccepts,
           SmtpRefuses, PersistLetter, Verify, CountQuota, CountDomainRate, Succeed, GiveUpAfterError
      <3>. QED
        BY <3>1, <3>2
    <2>b. PICK m \in Letters : letter[w] = m
      BY <2>a
    <2>1. CASE Refuse(w)
      <3>1. waiting'[m] > 0 /\ \A k \in Letters \ {m} : waiting'[k] = waiting[k]
        BY <2>1, <2>a, <2>b, <1>d DEF Refuse
      <3>2. \A k \in Letters \ {m} : row'[k] = row[k]
        BY <2>1, <2>a, <2>b, <1>e DEF Refuse
      <3>. QED
        BY <2>1, <2>a, <2>b, <3>1, <3>2, <1>h DEF Refuse
    <2>2. CASE RefuseForGood(w)
      <3>1. warming
        BY <2>2 DEF RefuseForGood, RunsHaveLetters
      <3>2. \A k \in Letters : ~OpenRow(k)'
        BY <2>a, <2>b, <3>1 DEF OpenRow
      <3>. QED
        BY <3>2 DEF Goal
    <2>3. ASSUME NEW from, Retry(w, from) PROVE Goal
      <3>1. waiting'[m] > 0 /\ \A k \in Letters \ {m} : waiting'[k] = waiting[k]
        BY <2>3, <2>a, <2>b, <1>d DEF Retry
      <3>2. \A k \in Letters \ {m} : row'[k] = row[k]
        BY <2>3, <2>a, <2>b, <1>0 DEF Retry, RowRec
      <3>. QED
        BY <2>3, <2>a, <2>b, <3>1, <3>2, <1>h DEF Retry
    <2>4. CASE Succeed(w) \/ GiveUpAfterError(w)
      <3>1. PICK from \in {"succeed", "catch"}, s \in {"SENT", "FAILED"} : Finish(w, from) /\ SetRow(m, s)
        BY <2>b, <2>4 DEF Succeed, GiveUpAfterError, SetRow
      <3>2. waiting' = waiting
        BY <2>4 DEF Succeed, GiveUpAfterError
      <3>3. ~OpenRow(m)'
        BY <3>1, <2>a, <2>b, <1>e DEF OpenRow
      <3>4. \A k \in Letters \ {m} : row'[k] = row[k]
        BY <3>1, <1>e
      <3>. QED
        BY <2>a, <2>b, <3>1, <3>2, <3>3, <3>4, <1>h
    <2>5. CASE FailMail(w)
      <3>1. doing[w] = "failMail" /\ waiting' = waiting /\ row' = row
        BY <2>5 DEF FailMail
      <3>2. \A v \in PriorityRuns \ {w} : letter'[v] = letter[v] /\ doing'[v] = doing[v]
        BY <1>0, <2>5 DEF FailMail
      <3>3. ASSUME NEW k \in Letters, OpenRow(k)' PROVE Tended(k)'
        <4>1. OpenRow(k)
          BY <3>1, <3>3, <2>a, <2>b DEF OpenRow
        <4>. QED
          BY <1>b, <3>1, <3>2, <4>1 DEF Tended
      <3>. QED
        BY <3>3 DEF Goal
    <2>6. CASE GiveUpHolding(w)
      <3>1. waiting' = waiting /\ letter' = letter
            /\ \A v \in PriorityRuns \ {w} : doing'[v] = doing[v]
        BY <1>0, <2>6 DEF GiveUpHolding
      <3>2. ~OpenRow(m)' /\ \A k \in Letters \ {m} : row'[k] = row[k]
        BY <2>6, <2>a, <2>b, <1>e DEF GiveUpHolding, OpenRow
      <3>. QED
        BY <2>a, <2>b, <3>1, <3>2, <1>c
    <2>7. CASE CheckQuota(w)
      <3>1. PICK to \in {"resetQuota", "refuse", "domain"} : Step(w, "quota", to)
        BY <2>7 DEF CheckQuota
      <3>2. UNCHANGED <<letter, waiting, row>>
        BY <2>7 DEF CheckQuota
      <3>. QED
        BY <2>a, <2>b, <3>1, <3>2, <1>g
    <2>8. CASE ResetQuota(w) \/ ResetDomain(w)
      BY <2>8, <2>a, <2>b, <1>g DEF ResetQuota, ResetDomain
    <2>9. CASE CheckDomain(w)
      <3>1. PICK to \in {"resetDomain", "refuse", "warmup"} : Step(w, "domain", to)
        BY <2>9 DEF CheckDomain
      <3>2. UNCHANGED <<letter, waiting, row>>
        BY <2>9 DEF CheckDomain
      <3>. QED
        BY <2>a, <2>b, <3>1, <3>2, <1>g
    <2>10. CASE CheckWarmup(w)
      <3>1. PICK to \in {"refuseForGood", "timing"} : Step(w, "warmup", to)
        BY <2>10 DEF CheckWarmup
      <3>2. UNCHANGED <<letter, waiting, row>>
        BY <2>10 DEF CheckWarmup
      <3>. QED
        BY <2>a, <2>b, <3>1, <3>2, <1>g
    <2>11. CASE DecideTiming(w)
      <3>1. \A k \in Letters \ {m} : row'[k] = row[k]
        BY <2>11, <2>a, <2>b, <1>e DEF DecideTiming
      <3>. QED
        BY <2>11, <2>a, <2>b, <3>1, <1>g DEF DecideTiming
    <2>12. CASE ClaimLetter(w) \/ SmtpAccepts(w)
      BY <2>12, <2>a, <2>b, <1>g DEF ClaimLetter, SmtpAccepts
    <2>13. CASE SmtpRefuses(w) \/ PersistLetter(w)
      BY <2>13, <2>a, <2>b, <1>g DEF SmtpRefuses, PersistLetter
    <2>14. CASE CountQuota(w) \/ CountDomainRate(w)
      BY <2>14, <2>a, <2>b, <1>g DEF CountQuota, CountDomainRate
    <2>15. CASE Verify(w)
      <3>1. waiting' = waiting
        BY <2>15 DEF Verify
      <3>2. CASE Finish(w, "verify") /\ SetRow(m, "FAILED")
        <4>1. ~OpenRow(m)' /\ \A k \in Letters \ {m} : row'[k] = row[k]
          BY <3>2, <2>a, <2>b, <1>e DEF OpenRow
        <4>. QED
          BY <2>a, <2>b, <3>1, <3>2, <4>1, <1>h
      <3>3. CASE (Step(w, "verify", "countQuota") \/ Step(w, "verify", "catch")) /\ UNCHANGED <<letter, row>>
        <4>1. PICK to \in {"countQuota", "catch"} : Step(w, "verify", to)
          BY <3>3
        <4>. QED
          BY <2>a, <2>b, <3>1, <3>3, <4>1, <1>g
      <3>. QED
        BY <2>b, <2>15, <3>2, <3>3 DEF Verify
    <2>. QED
      BY <1>2, <2>1, <2>2, <2>3, <2>4, <2>5, <2>6, <2>7, <2>8, <2>9, <2>10, <2>11, <2>12, <2>13,
         <2>14, <2>15 DEF PriorityStep
  <1>3. ASSUME UNCHANGED <<row, waiting, doing, letter, warming>> PROVE Goal
    BY <1>3, <1>b DEF OpenRow, Tended
  <1>4. ASSUME NEW m \in Letters, SweepPriority(m) PROVE Goal
    <2>1. waiting'[m] > 0 /\ (\A k \in Letters \ {m} : waiting'[k] = waiting[k])
          /\ \A k \in Letters \ {m} : row'[k] = row[k]
      BY <1>4, <1>d, <1>e DEF SweepPriority
    <2>2. UNCHANGED <<doing, letter, warming>>
      BY <1>4 DEF SweepPriority
    <2>. QED
      BY <1>b, <2>1, <2>2 DEF OpenRow, Tended
  <1>5. ASSUME CrashPriority PROVE Goal
    <2>. SUFFICES ASSUME NEW m \in Letters, OpenRow(m)' PROVE Tended(m)'
      OBVIOUS
    <2>. DEFINE dead == {w \in PriorityRuns : letter[w] = m}
                added == Cardinality(dead) + (IF row[m].status = "PRIORITY_SENDING" THEN 1 ELSE 0)
    <2>1. waiting'[m] = IF waiting[m] + added < MaxWaiting THEN waiting[m] + added ELSE MaxWaiting
      BY <1>5 DEF CrashPriority
    <2>2. IsFiniteSet(dead) /\ Cardinality(dead) \in Nat
      BY FS_Subset, FS_CardinalityType
    <2>3. dead # {} => Cardinality(dead) > 0
      BY <2>2, FS_EmptySet
    <2>4. OpenRow(m)
      <3>1. row'[m] = IF row[m].status = "PRIORITY_SENDING"
                      THEN [row[m] EXCEPT !.status = "PRIORITY_PENDING"] ELSE row[m]
        BY <1>5 DEF CrashPriority
      <3>2. warming' = warming
        BY <1>5 DEF CrashPriority
      <3>. QED
        BY <3>1, <3>2 DEF OpenRow
    <2>5. waiting[m] > 0 \/ dead # {}
      BY <1>b, <2>4 DEF Tended
    <2>6. waiting[m] \in Nat
      BY <1>0
    <2>7. waiting'[m] > 0
      <3>. HIDE DEF dead
      <3>. QED
        BY <2>1, <2>2, <2>3, <2>5, <2>6
    <2>. QED
      BY <2>7 DEF Tended
  <1>6. ASSUME NEW m \in Letters, OrdinaryClaim(m) \/ OrdinaryEnd(m) \/ SweepOrdinary(m) PROVE Goal
    BY <1>3, <1>6 DEF OrdinaryClaim, OrdinaryEnd, SweepOrdinary
  <1>7. ASSUME NEW midnight \in BOOLEAN, HourPasses(midnight) PROVE Goal
    BY <1>3, <1>7 DEF HourPasses
  <1>. HIDE DEF Goal
  <1>8. Goal
    BY <1>1, <1>2, <1>4, <1>5, <1>6, <1>7 DEF PriorityNext
  <1>. QED
    BY <1>8 DEF Goal

(***************************************************************************)
(* The copies of a mail.                                                   *)
(***************************************************************************)
Counted(m) ==
  /\ letters[m] + Copying(m) <= takeovers[m] + (IF mail[m] = "PENDING" THEN 0 ELSE 1)
  /\ mail[m] = "SENDING" /\ Copying(m) = 0 /\ Persisting(m) = {} => letters[m] <= takeovers[m]

LEMMA CountedStep ==
  PriorityTypeOK /\ PriorityTypeOK' /\ RunsHaveLetters /\ CopiesCounted /\ PriorityNext
    => CopiesCounted'
  <1>. SUFFICES ASSUME PriorityTypeOK, PriorityTypeOK', RunsHaveLetters, CopiesCounted, PriorityNext
                PROVE  CopiesCounted'
    OBVIOUS
  <1>. USE DEF Step, Finish, letterVars, limitRowVars, priorityBounds, historyVars, priorityRunVars
  <1>0. /\ doing \in [PriorityRuns -> PrioritySteps]
        /\ letter \in [PriorityRuns -> Letters \cup {NoLetter}]
        /\ mail \in [Letters -> {"PENDING", "SENDING", "SENT", "FAILED"}]
        /\ ordinary \in [Letters -> {"none", "queued", "sending"}]
        /\ letters \in [Letters -> Nat] /\ takeovers \in [Letters -> Nat]
        /\ NoLetter \notin Letters
    BY PriorityAssumption DEF PriorityTypeOK, PriorityAssumption
  <1>b. \A m \in Letters : Counted(m)
    BY DEF CopiesCounted, Counted
  <1>n. \A m \in Letters : /\ IsFiniteSet(Claimants(m)) /\ Cardinality(Claimants(m)) \in Nat
                           /\ Copying(m) \in Nat
    BY ClaimantsCounted
  <1>. SUFFICES \A m \in Letters : Counted(m)'
    BY DEF CopiesCounted, Counted
  <1>. DEFINE Goal == \A m \in Letters : Counted(m)'
  <1>a. ASSUME NEW w \in PriorityRuns, doing[w] # "idle" PROVE letter[w] \in Letters
    BY <1>0, <1>a DEF RunsHaveLetters
  \* A letter that no step touches.
  <1>c. ASSUME NEW m \in Letters, mail'[m] = mail[m], ordinary'[m] = ordinary[m],
               letters'[m] = letters[m], takeovers'[m] = takeovers[m],
               Claimants(m)' = Claimants(m), Persisting(m)' = Persisting(m)
        PROVE  Counted(m)'
    BY <1>b, <1>c DEF Counted, Copying
  \* A run that does not send, before and after its step.
  <1>d. ASSUME NEW w \in PriorityRuns,
               \A v \in PriorityRuns \ {w} : letter'[v] = letter[v] /\ doing'[v] = doing[v],
               doing[w] \notin {"smtp", "persist"}, doing'[w] \notin {"smtp", "persist"},
               UNCHANGED <<mail, ordinary, letters, takeovers>>
        PROVE  Goal
    <2>1. ASSUME NEW m \in Letters PROVE Claimants(m)' = Claimants(m) /\ Persisting(m)' = Persisting(m)
      BY <1>d DEF Claimants, Persisting
    <2>. QED
      BY <1>c, <1>d, <2>1
  <1>e. ASSUME NEW w \in PriorityRuns, NEW from, NEW to, Step(w, from, to), UNCHANGED letter
        PROVE  /\ \A v \in PriorityRuns \ {w} : letter'[v] = letter[v] /\ doing'[v] = doing[v]
               /\ doing[w] = from /\ doing'[w] = to /\ letter'[w] = letter[w]
    BY <1>0, <1>e
  <1>f. ASSUME NEW w \in PriorityRuns, NEW from, Finish(w, from)
        PROVE  /\ \A v \in PriorityRuns \ {w} : letter'[v] = letter[v] /\ doing'[v] = doing[v]
               /\ doing[w] = from /\ doing'[w] = "idle"
    BY <1>0, <1>f
  <1>1. ASSUME NEW w \in PriorityRuns, NEW m \in Letters, StartPriority(w, m) PROVE Goal
    <2>1. \A v \in PriorityRuns \ {w} : letter'[v] = letter[v] /\ doing'[v] = doing[v]
      BY <1>0, <1>1 DEF StartPriority
    <2>2. doing[w] = "idle" /\ doing'[w] = "quota" /\ UNCHANGED <<mail, ordinary, letters, takeovers>>
      BY <1>0, <1>1 DEF StartPriority
    <2>. QED
      BY <1>d, <2>1, <2>2
  <1>2. ASSUME NEW w \in PriorityRuns,
               \/ CheckQuota(w) \/ ResetQuota(w) \/ CheckDomain(w) \/ ResetDomain(w) \/ CheckWarmup(w)
               \/ DecideTiming(w) \/ GiveUpHolding(w) \/ CountQuota(w) \/ CountDomainRate(w)
        PROVE  Goal
    <2>1. UNCHANGED <<mail, ordinary, letters, takeovers, letter>>
      BY <1>2 DEF CheckQuota, ResetQuota, CheckDomain, ResetDomain, CheckWarmup, DecideTiming,
         GiveUpHolding, CountQuota, CountDomainRate
    <2>2. PICK from \in PrioritySteps \ {"smtp", "persist"}, to \in PrioritySteps \ {"smtp", "persist"} :
            Step(w, from, to)
      <3>1. CASE CheckQuota(w)
        BY <3>1 DEF CheckQuota, PrioritySteps
      <3>2. CASE ResetQuota(w) \/ ResetDomain(w)
        BY <3>2 DEF ResetQuota, ResetDomain, PrioritySteps
      <3>3. CASE CheckDomain(w)
        BY <3>3 DEF CheckDomain, PrioritySteps
      <3>4. CASE CheckWarmup(w)
        BY <3>4 DEF CheckWarmup, PrioritySteps
      <3>5. CASE DecideTiming(w) \/ GiveUpHolding(w)
        BY <3>5 DEF DecideTiming, GiveUpHolding, PrioritySteps
      <3>6. CASE CountQuota(w) \/ CountDomainRate(w)
        BY <3>6 DEF CountQuota, CountDomainRate, PrioritySteps
      <3>. QED
        BY <1>2, <3>1, <3>2, <3>3, <3>4, <3>5, <3>6
    <2>. HIDE DEF Step
    <2>. QED
      BY <1>d, <1>e, <2>1, <2>2
  <1>3. ASSUME NEW w \in PriorityRuns,
               \/ Refuse(w) \/ RefuseForGood(w) \/ GiveUpAfterError(w) \/ Succeed(w)
               \/ Retry(w, "hold") \/ Retry(w, "catch")
        PROVE  Goal
    <2>1. UNCHANGED <<mail, ordinary, letters, takeovers>>
      BY <1>3 DEF Refuse, RefuseForGood, GiveUpAfterError, Succeed, Retry
    <2>2. PICK from \in PrioritySteps \ {"smtp", "persist"} : Finish(w, from)
      BY <1>3 DEF Refuse, RefuseForGood, GiveUpAfterError, Succeed, Retry, PrioritySteps
    <2>. HIDE DEF Finish
    <2>. QED
      BY <1>d, <1>f, <2>1, <2>2
  <1>4. ASSUME NEW w \in PriorityRuns, FailMail(w) PROVE Goal
    <2>1. PICK k \in Letters : letter[w] = k
      BY <1>a, <1>4 DEF FailMail
    <2>2. /\ \A v \in PriorityRuns \ {w} : letter'[v] = letter[v] /\ doing'[v] = doing[v]
          /\ doing[w] = "failMail" /\ doing'[w] = "idle"
      BY <1>4, <1>f DEF FailMail
    <2>3. ASSUME NEW m \in Letters PROVE Claimants(m)' = Claimants(m) /\ Persisting(m)' = Persisting(m)
      BY <2>2 DEF Claimants, Persisting
    <2>4. mail' = [mail EXCEPT ![k] = "FAILED"] /\ UNCHANGED <<ordinary, letters, takeovers>>
      BY <1>4, <2>1 DEF FailMail
    <2>5. Counted(k)'
      <3>1. Copying(k)' = Copying(k)
        BY <2>3, <2>4 DEF Copying
      <3>2. letters[k] + Copying(k) <= takeovers[k] + 1 /\ mail'[k] = "FAILED"
        BY <1>0, <1>b, <1>n, <2>4 DEF Counted
      <3>. QED
        BY <2>4, <3>1, <3>2 DEF Counted
    <2>. QED
      BY <1>0, <1>c, <2>3, <2>4, <2>5
  <1>5. ASSUME NEW w \in PriorityRuns, ClaimLetter(w) PROVE Goal
    <2>1. PICK k \in Letters : letter[w] = k
      BY <1>a, <1>5 DEF ClaimLetter
    <2>2. CASE MayClaim(k, tried[w])
      <3>1. /\ Step(w, "claim", "smtp") /\ mail' = [mail EXCEPT ![k] = "SENDING"]
            /\ takeovers' = [takeovers EXCEPT ![k] = IF mail[k] = "SENDING" THEN takeovers[k] + 1
                                                     ELSE takeovers[k]]
            /\ UNCHANGED <<ordinary, letter, letters>>
        BY <1>5, <2>1, <2>2 DEF ClaimLetter
      <3>2. /\ \A v \in PriorityRuns \ {w} : letter'[v] = letter[v] /\ doing'[v] = doing[v]
            /\ doing[w] = "claim" /\ doing'[w] = "smtp" /\ letter'[w] = k
        BY <1>e, <2>1, <3>1
      <3>3. ASSUME NEW m \in Letters \ {k}
            PROVE  Claimants(m)' = Claimants(m) /\ Persisting(m)' = Persisting(m)
        BY <2>1, <3>2 DEF Claimants, Persisting
      <3>4. w \notin Claimants(k) /\ Claimants(k)' = Claimants(k) \cup {w}
        BY <2>1, <3>2 DEF Claimants
      <3>5. Cardinality(Claimants(k)') = Cardinality(Claimants(k)) + 1
        BY <1>n, <3>4, FS_AddElement
      <3>6. Copying(k)' = Copying(k) + 1
        BY <1>n, <3>1, <3>5 DEF Copying
      <3>7. Counted(k)'
        <4>1. mail[k] \in {"PENDING", "SENDING"}
          BY <2>2 DEF MayClaim
        <4>2. mail'[k] = "SENDING" /\ letters'[k] = letters[k]
              /\ takeovers'[k] = takeovers[k] + (IF mail[k] = "SENDING" THEN 1 ELSE 0)
          BY <1>0, <3>1
        <4>3. letters[k] \in Nat /\ takeovers[k] \in Nat /\ Copying(k) \in Nat
          BY <1>0, <1>n
        <4>4. letters[k] + Copying(k) <= takeovers[k] + (IF mail[k] = "PENDING" THEN 0 ELSE 1)
          BY <1>b DEF Counted
        <4>. QED
          BY <3>6, <4>1, <4>2, <4>3, <4>4 DEF Counted
      <3>. QED
        BY <1>0, <1>c, <3>1, <3>3, <3>7
    <2>3. CASE ~MayClaim(k, tried[w])
      <3>1. Step(w, "claim", "verify") /\ UNCHANGED <<mail, ordinary, takeovers, letter, letters>>
        BY <1>5, <2>1, <2>3 DEF ClaimLetter
      <3>. QED
        BY <1>d, <1>e, <3>1
    <2>. QED
      BY <2>2, <2>3
  \* A run that stops sending.
  <1>g. ASSUME NEW w \in PriorityRuns, NEW k \in Letters, letter[w] = k, letter'[w] = k,
               \A v \in PriorityRuns \ {w} : letter'[v] = letter[v] /\ doing'[v] = doing[v],
               doing[w] = "smtp", doing'[w] # "smtp"
        PROVE  /\ \A m \in Letters \ {k} : Claimants(m)' = Claimants(m) /\ Persisting(m)' = Persisting(m)
               /\ Cardinality(Claimants(k)') = Cardinality(Claimants(k)) - 1
               /\ Cardinality(Claimants(k)) > 0
               /\ (doing'[w] = "persist" => Persisting(k)' # {})
               /\ (doing'[w] # "persist" => Persisting(k)' = Persisting(k))
    <2>1. \A m \in Letters \ {k} : Claimants(m)' = Claimants(m) /\ Persisting(m)' = Persisting(m)
      BY <1>g DEF Claimants, Persisting
    <2>2. w \in Claimants(k) /\ Claimants(k)' = Claimants(k) \ {w}
      BY <1>g DEF Claimants
    <2>3. Cardinality(Claimants(k)') = Cardinality(Claimants(k)) - 1
      BY <1>n, <2>2, FS_RemoveElement
    <2>a. Cardinality(Claimants(k)) > 0
      BY <1>n, <2>2, FS_EmptySet
    <2>4. doing'[w] = "persist" => Persisting(k)' # {}
      BY <1>g DEF Persisting
    <2>5. doing'[w] # "persist" => Persisting(k)' = Persisting(k)
      BY <1>g DEF Persisting
    <2>. QED
      BY <2>1, <2>3, <2>a, <2>4, <2>5
  <1>6. ASSUME NEW w \in PriorityRuns, SmtpAccepts(w) PROVE Goal
    <2>1. PICK k \in Letters : letter[w] = k
      BY <1>a, <1>6 DEF SmtpAccepts
    <2>2. /\ letters' = [letters EXCEPT ![k] = letters[k] + 1]
          /\ UNCHANGED <<mail, ordinary, takeovers, letter>> /\ Step(w, "smtp", "persist")
      BY <1>6, <2>1 DEF SmtpAccepts
    <2>3. /\ \A v \in PriorityRuns \ {w} : letter'[v] = letter[v] /\ doing'[v] = doing[v]
          /\ doing[w] = "smtp" /\ doing'[w] = "persist" /\ letter'[w] = k
      BY <1>e, <2>1, <2>2
    <2>4. /\ \A m \in Letters \ {k} : Claimants(m)' = Claimants(m) /\ Persisting(m)' = Persisting(m)
          /\ Cardinality(Claimants(k)') = Cardinality(Claimants(k)) - 1 /\ Persisting(k)' # {}
      BY <1>g, <2>1, <2>3
    <2>5. Counted(k)'
      <3>1. Copying(k)' = Copying(k) - 1
        BY <1>n, <2>2, <2>4 DEF Copying
      <3>2. letters[k] \in Nat /\ takeovers[k] \in Nat /\ Copying(k) \in Nat
            /\ letters'[k] = letters[k] + 1
        BY <1>0, <1>n, <2>2
      <3>3. letters[k] + Copying(k) <= takeovers[k] + (IF mail[k] = "PENDING" THEN 0 ELSE 1)
        BY <1>b DEF Counted
      <3>. QED
        BY <2>2, <2>4, <3>1, <3>2, <3>3 DEF Counted
    <2>. QED
      BY <1>0, <1>c, <2>2, <2>4, <2>5
  <1>7. ASSUME NEW w \in PriorityRuns, SmtpRefuses(w) PROVE Goal
    <2>1. PICK k \in Letters : letter[w] = k
      BY <1>a, <1>7 DEF SmtpRefuses
    <2>2. PICK to \in {"verify", "catch"} : Step(w, "smtp", to)
      BY <1>7 DEF SmtpRefuses
    <2>3. /\ \/ mail' = [mail EXCEPT ![k] = "FAILED"] /\ UNCHANGED ordinary
             \/ /\ mail' = [mail EXCEPT ![k] = "PENDING"]
                /\ ordinary' = [ordinary EXCEPT ![k] = IF ordinary[k] = "none" THEN "queued"
                                                       ELSE ordinary[k]]
             \/ UNCHANGED <<mail, ordinary>>
          /\ UNCHANGED <<letters, takeovers, letter>>
      BY <1>7, <2>1 DEF SmtpRefuses
    <2>4. /\ \A v \in PriorityRuns \ {w} : letter'[v] = letter[v] /\ doing'[v] = doing[v]
          /\ doing[w] = "smtp" /\ doing'[w] = to /\ letter'[w] = k
      BY <1>e, <2>1, <2>2, <2>3
    <2>5. /\ \A m \in Letters \ {k} : Claimants(m)' = Claimants(m) /\ Persisting(m)' = Persisting(m)
          /\ Cardinality(Claimants(k)') = Cardinality(Claimants(k)) - 1
          /\ Cardinality(Claimants(k)) > 0 /\ Persisting(k)' = Persisting(k)
      BY <1>g, <2>1, <2>4
    <2>6. Counted(k)'
      <3>0. ordinary'[k] = "sending" <=> ordinary[k] = "sending"
        BY <1>0, <2>3
      <3>1. Copying(k)' = Copying(k) - 1
        BY <1>n, <2>5, <3>0 DEF Copying
      <3>2. letters[k] \in Nat /\ takeovers[k] \in Nat /\ Copying(k) \in Nat
        BY <1>0, <1>n
      <3>3. letters[k] + Copying(k) <= takeovers[k] + (IF mail[k] = "PENDING" THEN 0 ELSE 1)
        BY <1>b DEF Counted
      <3>4. letters'[k] + Copying(k)' <= takeovers'[k]
        BY <2>3, <3>1, <3>2, <3>3
      <3>5. Copying(k)' \in Nat
        BY <3>0, <3>1, <3>2, <1>n, <2>5 DEF Copying
      <3>. QED
        BY <2>3, <3>2, <3>4, <3>5 DEF Counted
    <2>7. ASSUME NEW m \in Letters \ {k} PROVE mail'[m] = mail[m] /\ ordinary'[m] = ordinary[m]
      BY <1>0, <2>3
    <2>. QED
      BY <1>c, <2>3, <2>5, <2>6, <2>7
  <1>8. ASSUME NEW w \in PriorityRuns, PersistLetter(w) PROVE Goal
    <2>1. PICK k \in Letters : letter[w] = k
      BY <1>a, <1>8 DEF PersistLetter
    <2>2. mail' = [mail EXCEPT ![k] = "SENT"] /\ Step(w, "persist", "verify")
          /\ UNCHANGED <<ordinary, letters, takeovers, letter>>
      BY <1>8, <2>1 DEF PersistLetter
    <2>3. /\ \A v \in PriorityRuns \ {w} : letter'[v] = letter[v] /\ doing'[v] = doing[v]
          /\ doing[w] = "persist" /\ doing'[w] = "verify" /\ letter'[w] = k
      BY <1>e, <2>1, <2>2
    <2>4. /\ \A m \in Letters : Claimants(m)' = Claimants(m)
          /\ \A m \in Letters \ {k} : Persisting(m)' = Persisting(m)
      BY <2>1, <2>3 DEF Claimants, Persisting
    <2>5. Counted(k)'
      <3>1. Copying(k)' = Copying(k) /\ mail'[k] = "SENT"
        BY <1>0, <2>2, <2>4 DEF Copying
      <3>2. letters[k] \in Nat /\ takeovers[k] \in Nat /\ Copying(k) \in Nat
        BY <1>0, <1>n
      <3>3. letters[k] + Copying(k) <= takeovers[k] + (IF mail[k] = "PENDING" THEN 0 ELSE 1)
        BY <1>b DEF Counted
      <3>. QED
        BY <2>2, <3>1, <3>2, <3>3 DEF Counted
    <2>. QED
      BY <1>0, <1>c, <2>2, <2>4, <2>5
  <1>9. ASSUME NEW w \in PriorityRuns, Verify(w) PROVE Goal
    <2>1. UNCHANGED <<mail, ordinary, letters, takeovers>>
      BY <1>9 DEF Verify
    <2>2. CASE Finish(w, "verify")
      BY <1>d, <1>f, <2>1, <2>2
    <2>3. CASE (Step(w, "verify", "countQuota") \/ Step(w, "verify", "catch")) /\ UNCHANGED letter
      <3>1. PICK to \in {"countQuota", "catch"} : Step(w, "verify", to)
        BY <2>3
      <3>. HIDE DEF Step
      <3>. QED
        BY <1>d, <1>e, <2>1, <2>3, <3>1
    <2>. QED
      BY <1>9, <2>2, <2>3 DEF Verify
  \* The ordinary worker.
  <1>h. ASSUME UNCHANGED <<doing, letter>>, NEW m \in Letters
        PROVE  Claimants(m)' = Claimants(m) /\ Persisting(m)' = Persisting(m)
    BY <1>h DEF Claimants, Persisting
  <1>10. ASSUME NEW k \in Letters, OrdinaryClaim(k) \/ OrdinaryEnd(k) \/ SweepOrdinary(k) PROVE Goal
    <2>1. UNCHANGED <<doing, letter, takeovers>>
      BY <1>10 DEF OrdinaryClaim, OrdinaryEnd, SweepOrdinary
    <2>2. ASSUME NEW m \in Letters \ {k}
          PROVE  mail'[m] = mail[m] /\ ordinary'[m] = ordinary[m] /\ letters'[m] = letters[m]
      BY <1>0, <1>10 DEF OrdinaryClaim, OrdinaryEnd, SweepOrdinary
    <2>3. Claimants(k)' = Claimants(k) /\ Persisting(k)' = Persisting(k)
      BY <1>h, <2>1
    <2>4. /\ letters[k] \in Nat /\ takeovers[k] \in Nat /\ Cardinality(Claimants(k)) \in Nat
          /\ takeovers'[k] = takeovers[k]
      BY <1>0, <1>n, <2>1
    <2>5. letters[k] + Copying(k) <= takeovers[k] + (IF mail[k] = "PENDING" THEN 0 ELSE 1)
      BY <1>b DEF Counted
    <2>6. CASE OrdinaryClaim(k)
      <3>1. \/ mail[k] = "PENDING" /\ mail'[k] = "SENDING" /\ ordinary'[k] = "sending"
            \/ mail'[k] = mail[k] /\ ordinary'[k] = "none"
        BY <1>0, <2>6 DEF OrdinaryClaim
      <3>2. ordinary[k] = "queued" /\ letters' = letters
        BY <2>6 DEF OrdinaryClaim
      <3>3. Counted(k)'
        <4>1. CASE mail[k] = "PENDING" /\ mail'[k] = "SENDING" /\ ordinary'[k] = "sending"
          BY <4>1, <2>3, <2>4, <2>5, <3>2 DEF Counted, Copying
        <4>2. CASE mail'[k] = mail[k] /\ ordinary'[k] = "none"
          <5>1. Copying(k)' = Copying(k)
            BY <4>2, <2>3, <3>2 DEF Copying
          <5>. QED
            BY <1>b, <4>2, <5>1, <2>3, <2>4, <3>2 DEF Counted
        <4>. QED
          BY <3>1, <4>1, <4>2
      <3>. QED
        BY <1>c, <1>h, <2>1, <2>2, <3>3
    <2>7. CASE OrdinaryEnd(k)
      <3>1. /\ ordinary[k] = "sending" /\ ordinary'[k] # "sending"
            /\ \/ mail'[k] = "SENT" /\ letters'[k] = letters[k] + 1
               \/ mail'[k] \in {"FAILED", "PENDING"} /\ letters'[k] = letters[k]
        BY <1>0, <2>7 DEF OrdinaryEnd
      <3>2. Counted(k)'
        BY <2>3, <2>4, <2>5, <3>1 DEF Counted, Copying
      <3>. QED
        BY <1>c, <1>h, <2>1, <2>2, <3>2
    <2>8. CASE SweepOrdinary(k)
      <3>1. /\ mail[k] = "SENDING" /\ ordinary[k] # "sending" /\ letters' = letters
            /\ mail'[k] = "PENDING" /\ ordinary'[k] = "queued"
        BY <1>0, <2>8 DEF SweepOrdinary
      <3>2. Claimants(k) = {} /\ Persisting(k) = {}
        BY <2>8 DEF SweepOrdinary, Claimants, Persisting
      <3>3. Cardinality(Claimants(k)) = 0 /\ Copying(k) = 0
        BY <3>1, <3>2, FS_EmptySet DEF Copying
      <3>4. letters[k] <= takeovers[k]
        BY <1>b, <3>1, <3>2, <3>3 DEF Counted
      <3>5. Copying(k)' = 0
        BY <2>3, <3>1, <3>3 DEF Copying
      <3>6. Counted(k)'
        BY <2>4, <3>1, <3>4, <3>5 DEF Counted
      <3>. QED
        BY <1>c, <1>h, <2>1, <2>2, <3>6
    <2>. QED
      BY <1>10, <2>6, <2>7, <2>8
  <1>11. ASSUME UNCHANGED <<mail, ordinary, letters, takeovers, doing, letter>> PROVE Goal
    BY <1>c, <1>h, <1>11
  <1>12. ASSUME CrashPriority PROVE Goal
    <2>. SUFFICES ASSUME NEW m \in Letters PROVE Counted(m)'
      OBVIOUS
    <2>1. Claimants(m)' = {} /\ Persisting(m)' = {}
      BY <1>12 DEF CrashPriority, Claimants, Persisting
    <2>. DEFINE Accepted == {letter[w] : w \in {v \in PriorityRuns : doing[v] = "persist"}}
                opened == mail[m] \in {"PENDING", "SENDING"} /\ m \notin Accepted
    <2>2. /\ mail'[m] = IF m \in Accepted /\ mail[m] = "SENDING" THEN "SENT"
                        ELSE IF opened THEN "PENDING" ELSE mail[m]
          /\ ordinary'[m] = (IF opened THEN "queued" ELSE "none")
          /\ letters' = letters /\ takeovers' = takeovers
      BY <1>12 DEF CrashPriority
    <2>3. m \in Accepted <=> Persisting(m) # {}
      BY DEF Persisting
    <2>4. Copying(m)' = 0
      BY <2>1, <2>2, FS_EmptySet DEF Copying
    <2>5. /\ letters[m] \in Nat /\ takeovers[m] \in Nat /\ Copying(m) \in Nat
          /\ mail[m] \in {"PENDING", "SENDING", "SENT", "FAILED"}
      BY <1>0, <1>n
    <2>6. /\ letters[m] + Copying(m) <= takeovers[m] + (IF mail[m] = "PENDING" THEN 0 ELSE 1)
          /\ mail[m] = "SENDING" /\ Copying(m) = 0 /\ Persisting(m) = {} => letters[m] <= takeovers[m]
      BY <1>b DEF Counted
    <2>. HIDE DEF Accepted
    <2>7. mail'[m] = "PENDING" => letters[m] <= takeovers[m]
      BY <2>2, <2>3, <2>5, <2>6
    <2>8. mail'[m] # "SENDING"
      BY <2>2, <2>5
    <2>. QED
      BY <2>2, <2>4, <2>5, <2>6, <2>7, <2>8 DEF Counted
  <1>13. ASSUME NEW m \in Letters, SweepPriority(m) PROVE Goal
    BY <1>11, <1>13 DEF SweepPriority
  <1>14. ASSUME NEW midnight \in BOOLEAN, HourPasses(midnight) PROVE Goal
    BY <1>11, <1>14 DEF HourPasses
  <1>. HIDE DEF Goal
  <1>15. Goal
    BY <1>1, <1>2, <1>3, <1>4, <1>5, <1>6, <1>7, <1>8, <1>9, <1>10, <1>12, <1>13, <1>14
       DEF PriorityNext, PriorityStep
  <1>. QED
    BY <1>15 DEF Goal

LEMMA PriorityInvKept == PriorityInv /\ [PriorityNext]_priorityVars => PriorityInv'
  <1>1. PriorityInv /\ PriorityNext => PriorityInv'
    BY PriorityTyped, RunsStep, TendedStep, CountedStep DEF PriorityInv
  <1>2. PriorityInv /\ UNCHANGED priorityVars => PriorityInv'
    <2>. SUFFICES ASSUME PriorityInv, UNCHANGED priorityVars PROVE PriorityInv'
      OBVIOUS
    <2>1. UNCHANGED <<mail, ordinary, row, waiting, doing, letter, tried, quota, domain, warming,
                      hours, failures, letters, takeovers>>
      BY DEF priorityVars, letterVars, priorityRunVars, limitRowVars, priorityBounds, historyVars
    <2>. QED
      BY <2>1 DEF PriorityInv, PriorityTypeOK, RunsHaveLetters, CopiesCounted, OpenRowTended,
         Copying, Claimants, Persisting
  <1>. QED
    BY <1>1, <1>2

LEMMA PriorityImplies == PriorityInv => PriorityTypeOK /\ TwiceOnlyByTakeover /\ OpenRowHasEntry
  <1>. SUFFICES ASSUME PriorityInv PROVE PriorityTypeOK /\ TwiceOnlyByTakeover /\ OpenRowHasEntry
    OBVIOUS
  <1>1. PriorityTypeOK
    BY DEF PriorityInv
  <1>2. ASSUME NEW m \in Letters PROVE letters[m] <= 1 + takeovers[m]
    <2>1. Copying(m) \in Nat /\ letters[m] \in Nat /\ takeovers[m] \in Nat
      BY <1>1, ClaimantsCounted DEF PriorityTypeOK
    <2>2. letters[m] + Copying(m) <= takeovers[m] + (IF mail[m] = "PENDING" THEN 0 ELSE 1)
      BY DEF PriorityInv, CopiesCounted
    <2>. QED
      BY <2>1, <2>2
  <1>3. OpenRowHasEntry
    BY DEF PriorityInv, OpenRowTended, OpenRowHasEntry
  <1>. QED
    BY <1>1, <1>2, <1>3 DEF TwiceOnlyByTakeover
==============================================================================
