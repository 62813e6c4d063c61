------------------------ MODULE WorkspaceParts_proofs ------------------------
(***************************************************************************)
(* The other services around users and contacts, for any number of         *)
(* requests, tabs, events, payments, bulk actions and calls: the check of  *)
(* addresses (AddressCheck), the enrichment of contacts (Enrichment),      *)
(* sessions and their tokens (Sessions), subscriptions (Subscription), the *)
(* cards of contacts (Relationships) and the call queue (CallQueue); and   *)
(* then all the components of MCWorkspaceServices together, one of which   *)
(* runs.                                                                   *)
(***************************************************************************)
EXTENDS MCWorkspaceServices, WorkspaceServices_proofs, SequenceTheorems

(***************************************************************************)
(* The verdict.  It is valid only for an address that can be written to,   *)
(* and invalid only for one that cannot, or that DNS was silent about, or  *)
(* by its looks.                                                           *)
(***************************************************************************)
LEMMA PointsBounded ==
  ASSUME NEW p \in AllLooks, NEW dns \in DnsAnswers(p)
  PROVE  /\ LooksPoints(p) \in Nat /\ DnsPoints(p, dns) \in {0, 10, 50, 60}
         /\ dns.mx => DnsPoints(p, dns) <= 10
  <1>1. analyzeLocalPart(p) \in {0, 15, 30}
    BY DEF analyzeLocalPart
  <1>2. LooksPoints(p) \in Nat
    BY <1>1 DEF LooksPoints
  <1>3. DnsPoints(p, dns) \in {0, 10, 50, 60} /\ (dns.mx => DnsPoints(p, dns) <= 10)
    <2>1. PICK m \in {0, 50}, n \in {0, 10} : DnsPoints(p, dns) = m + n /\ (dns.mx => m = 0)
      BY DEF DnsPoints
    <2>. QED
      BY <2>1
  <1>. QED
    BY <1>2, <1>3

LEMMA AnswersTrue ==
  ASSUME NEW p \in AllLooks, NEW dns \in DnsAnswers(p)
  PROVE  /\ dns.mx \in BOOLEAN /\ dns.spf \in BOOLEAN /\ p.mx \in BOOLEAN /\ p.syntax \in BOOLEAN
         /\ dns.mx => p.mx
  BY DEF DnsAnswers, Lookup, AllLooks

LEMMA JudgeTyped ==
  ASSUME NEW p \in AllLooks, NEW dns \in DnsAnswers(p)
  PROVE  Judge(p, dns) \in Verdict /\ Judge(p, dns).known
  <1>1. CASE ~p.syntax
    BY <1>1 DEF Judge, Verdict
  <1>2. CASE p.syntax
    <2>. DEFINE points == Least(100, LooksPoints(p) + DnsPoints(p, dns))
    <2>1. points \in 0..100
      BY PointsBounded DEF Least
    <2>2. Passes(p, dns.mx, points) \in BOOLEAN
      BY AnswersTrue DEF Passes
    <2>3. Judge(p, dns) = [known |-> TRUE, points |-> points, valid |-> Passes(p, dns.mx, points)]
      BY <1>2 DEF Judge
    <2>. HIDE DEF points
    <2>. QED
      BY <2>1, <2>2, <2>3 DEF Verdict
  <1>. QED
    BY <1>1, <1>2

LEMMA ValidIsDeliverable ==
  ASSUME NEW p \in AllLooks, NEW dns \in DnsAnswers(p), Judge(p, dns).valid
  PROVE  ~Undeliverable(p)
  <1>1. p.syntax
    BY DEF Judge
  <1>2. Judge(p, dns).valid = Passes(p, dns.mx, Least(100, LooksPoints(p) + DnsPoints(p, dns)))
    BY <1>1 DEF Judge
  <1>3. dns.mx /\ p.domain # "disposable"
    BY <1>2 DEF Passes
  <1>. QED
    BY <1>1, <1>3, AnswersTrue DEF Undeliverable

LEMMA InvalidForCause ==
  ASSUME NEW p \in AllLooks, NEW dns \in DnsAnswers(p), ~Judge(p, dns).valid
  PROVE  Undeliverable(p) \/ Silent(p, dns) \/ LooksPoints(p) + 10 >= 80
  <1>. SUFFICES ASSUME ~Undeliverable(p), ~Silent(p, dns) PROVE LooksPoints(p) + 10 >= 80
    OBVIOUS
  <1>. DEFINE points == Least(100, LooksPoints(p) + DnsPoints(p, dns))
  <1>1. p.syntax /\ p.mx /\ p.domain # "disposable"
    BY DEF Undeliverable
  <1>2. dns.mx
    BY <1>1, AnswersTrue DEF Silent
  <1>3. Judge(p, dns) = [known |-> TRUE, points |-> points, valid |-> Passes(p, dns.mx, points)]
    BY <1>1 DEF Judge
  <1>4. points \in Int
    BY PointsBounded DEF Least
  <1>5. PICK l \in Nat, d \in {0, 10, 50, 60} : l = LooksPoints(p) /\ d = DnsPoints(p, dns) /\ d <= 10
    BY <1>2, PointsBounded
  <1>6. points = IF 100 < l + d THEN 100 ELSE l + d
    BY <1>5 DEF Least
  <1>. HIDE DEF points
  <1>7. ~(points < 80)
    <2>1. Judge(p, dns).valid = Passes(p, dns.mx, points)
      BY <1>3
    <2>2. ~Passes(p, dns.mx, points)
      BY <2>1
    <2>. QED
      BY <1>1, <1>2, <2>2 DEF Passes
  <1>8. l + 10 >= 80
    BY <1>4, <1>5, <1>6, <1>7
  <1>. QED
    BY <1>5, <1>8

(***************************************************************************)
(* The validator.                                                          *)
(***************************************************************************)
\* A verdict was made of what DNS answered, and silence is remembered.
Made(v, p, quiet) == \E dns \in DnsAnswers(p) : v = Judge(p, dns) /\ (Silent(p, dns) => quiet)

ValidationTypes ==
  [step : {"none", "asked", "judging"}, alive : BOOLEAN, asked : SUBSET Written,
   todo : SUBSET Addresses, verdict : [Addresses -> Verdict]]

PanelTypes == [busy : BOOLEAN, open : BOOLEAN, asked : SUBSET Addresses, verdict : [Addresses -> Verdict]]

AllMade(v) == \A a \in Addresses : v[a].known => Made(v[a], profile[a], a \in silent)

JudgingGoesOn ==
  \A r \in Validations :
    /\ AllMade(validation[r].verdict)
    /\ validation[r].step = "asked" => validation[r].todo = {} /\ validation[r].verdict = Unjudged
    /\ validation[r].step = "judging" =>
         \A w \in validation[r].asked :
           w[1] \in validation[r].todo \/ validation[r].verdict[w[1]].known

PanelIsJudged ==
  /\ AllMade(panel.verdict)
  /\ \A a \in panel.asked : panel.verdict[a].known

AddressInv == AddressTypeOK /\ JudgingGoesOn /\ PanelIsJudged /\ ListIsChecked

LEMMA NothingJudged ==
  /\ Unjudged \in [Addresses -> Verdict] /\ \A a \in Addresses : ~Unjudged[a].known
  /\ NoPanel \in PanelTypes /\ NoRequest \in ValidationTypes
  /\ NoPanel.verdict = Unjudged /\ NoPanel.asked = {} /\ ~NoPanel.open
  /\ NoRequest.step = "none" /\ NoRequest.verdict = Unjudged
  <1>1. NoVerdict \in Verdict /\ ~NoVerdict.known
    BY DEF NoVerdict, Verdict
  <1>2. Unjudged \in [Addresses -> Verdict] /\ \A a \in Addresses : ~Unjudged[a].known
    BY <1>1 DEF Unjudged
  <1>. HIDE DEF Unjudged
  <1>. QED
    BY <1>2 DEF NoPanel, NoRequest, PanelTypes, ValidationTypes

LEMMA AddressStarts == AddressInit => AddressInv
  <1>. SUFFICES ASSUME AddressInit PROVE AddressInv
    OBVIOUS
  <1>1. MaxEntries \in Nat
    BY AddressAssumption DEF AddressAssumption
  <1>2. AddressTypeOK
    <2>1. entries \in 0..MaxEntries
      BY <1>1 DEF AddressInit
    <2>. QED
      BY <2>1, NothingJudged DEF AddressInit, AddressTypeOK, PanelTypes, ValidationTypes
  <1>3. JudgingGoesOn /\ PanelIsJudged /\ ListIsChecked
    BY NothingJudged
    DEF AddressInit, JudgingGoesOn, PanelIsJudged, AllMade, ListIsChecked, CleanedListIsClean, RemovedForCause
  <1>. QED
    BY <1>2, <1>3 DEF AddressInv

\* Silence is never forgotten.
LEMMA MadeStays ==
  ASSUME profile' = profile, silent \subseteq silent', NEW v, AllMade(v)
  PROVE  \A a \in Addresses : v[a].known => Made(v[a], profile'[a], a \in silent')
  <1>. SUFFICES ASSUME NEW a \in Addresses, v[a].known PROVE Made(v[a], profile'[a], a \in silent')
    OBVIOUS
  <1>1. PICK dns \in DnsAnswers(profile[a]) : v[a] = Judge(profile[a], dns) /\ (Silent(profile[a], dns) => a \in silent)
    BY DEF AllMade, Made
  <1>. QED
    BY <1>1 DEF Made

LEMMA MadeProves ==
  ASSUME AddressTypeOK, NEW a \in Addresses, NEW v, Made(v, profile[a], a \in silent)
  PROVE  /\ v.valid => ~Undeliverable(profile[a])
         /\ ~v.valid => Undeliverable(profile[a]) \/ a \in silent \/ LooksPoints(profile[a]) + 10 >= 80
         /\ v \in Verdict /\ v.known
  <1>1. profile[a] \in AllLooks
    BY AddressAssumption DEF AddressAssumption, AddressTypeOK
  <1>2. PICK p \in AllLooks : p = profile[a]
    BY <1>1
  <1>3. PICK dns \in DnsAnswers(p) : v = Judge(p, dns) /\ (Silent(p, dns) => a \in silent)
    BY <1>2 DEF Made
  <1>4. /\ v.valid => ~Undeliverable(p)
        /\ ~v.valid => Undeliverable(p) \/ a \in silent \/ LooksPoints(p) + 10 >= 80
    BY <1>3, ValidIsDeliverable, InvalidForCause
  <1>. QED
    BY <1>2, <1>3, <1>4, JudgeTyped

\* The recipients change, and what the panel shows.
LEMMA LeavesKeeps ==
  ASSUME AddressInv, NEW ws \in SUBSET Written, NEW shown \in PanelTypes, Leaves(ws, shown),
         AllMade(shown.verdict), \A a \in shown.asked : shown.verdict[a].known,
         UNCHANGED <<profile, silent, entries>>
  PROVE  /\ JudgingGoesOn' /\ PanelIsJudged' /\ to' = ws
         /\ panel' \in PanelTypes /\ validation' \in [Validations -> ValidationTypes]
  <1>1. PICK pan \in {shown, NoPanel} : panel' = pan
    BY DEF Leaves
  <1>2. pan \in PanelTypes /\ AllMade(pan.verdict) /\ \A a \in pan.asked : pan.verdict[a].known
    BY <1>1, NothingJudged DEF AllMade
  <1>3. PanelIsJudged'
    <2>1. \A a \in Addresses : pan.verdict[a].known => Made(pan.verdict[a], profile'[a], a \in silent')
      BY <1>2, MadeStays
    <2>. QED
      BY <1>1, <1>2, <2>1 DEF PanelIsJudged, AllMade
  <1>4. validation \in [Validations -> ValidationTypes]
    BY DEF AddressInv, AddressTypeOK, ValidationTypes
  <1>5. /\ validation' \in [Validations -> ValidationTypes]
        /\ \A r \in Validations : /\ validation'[r].step = validation[r].step
                                  /\ validation'[r].asked = validation[r].asked
                                  /\ validation'[r].todo = validation[r].todo
                                  /\ validation'[r].verdict = validation[r].verdict
    <2>1. CASE ws # {}
      BY <1>4, <2>1 DEF Leaves
    <2>2. CASE ws = {}
      <3>1. validation' = [r \in Validations |-> [validation[r] EXCEPT !.alive = FALSE]]
        BY <2>2 DEF Leaves
      <3>. QED
        BY <1>4, <3>1 DEF ValidationTypes
    <2>. QED
      BY <2>1, <2>2
  <1>6. JudgingGoesOn'
    <2>1. \A r \in Validations : \A a \in Addresses :
             validation'[r].verdict[a].known => Made(validation'[r].verdict[a], profile'[a], a \in silent')
      <3>. SUFFICES ASSUME NEW r \in Validations
                    PROVE  \A a \in Addresses : validation'[r].verdict[a].known =>
                              Made(validation'[r].verdict[a], profile'[a], a \in silent')
        OBVIOUS
      <3>1. PICK v : v = validation[r].verdict /\ v = validation'[r].verdict
        BY <1>5
      <3>2. AllMade(v)
        BY <3>1 DEF AddressInv, JudgingGoesOn
      <3>3. \A a \in Addresses : v[a].known => Made(v[a], profile'[a], a \in silent')
        BY <3>2, MadeStays
      <3>. QED
        BY <3>1, <3>3
    <2>2. \A r \in Validations :
            /\ validation'[r].step = "asked" => validation'[r].todo = {} /\ validation'[r].verdict = Unjudged
            /\ validation'[r].step = "judging" =>
                 \A w \in validation'[r].asked :
                   w[1] \in validation'[r].todo \/ validation'[r].verdict[w[1]].known
      BY <1>5 DEF AddressInv, JudgingGoesOn
    <2>. QED
      BY <2>1, <2>2 DEF JudgingGoesOn, AllMade
  <1>. QED
    BY <1>1, <1>2, <1>3, <1>5, <1>6 DEF Leaves

LEMMA AddressFacts ==
  ASSUME AddressInv
  PROVE  /\ panel \in PanelTypes /\ validation \in [Validations -> ValidationTypes]
         /\ to \in SUBSET Written /\ AddressTypeOK
         /\ AllMade(panel.verdict) /\ \A a \in panel.asked : panel.verdict[a].known
         /\ NoPanel \in PanelTypes /\ AllMade(NoPanel.verdict) /\ NoPanel.asked = {}
  BY NothingJudged DEF AddressInv, AddressTypeOK, PanelTypes, ValidationTypes, PanelIsJudged, AllMade

LEMMA RecipientsKept ==
  ASSUME AddressInv,
         \/ \E w \in Written : TakeOut(w)
         \/ RemoveRisky \/ \E a \in Addresses : RemoveOne(a)
  PROVE  AddressInv'
  <1>1. PICK ws \in SUBSET to, shown \in {panel, NoPanel} :
           Leaves(ws, shown) /\ UNCHANGED <<profile, cleaned, removed, silent, entries>>
    BY DEF TakeOut, RemoveRisky, RemoveOne, Without
  <1>2. ws \in SUBSET Written /\ shown \in PanelTypes /\ AllMade(shown.verdict)
        /\ \A a \in shown.asked : shown.verdict[a].known
    BY AddressFacts
  <1>3. /\ JudgingGoesOn' /\ PanelIsJudged' /\ to' = ws
        /\ panel' \in PanelTypes /\ validation' \in [Validations -> ValidationTypes]
    BY <1>1, <1>2, LeavesKeeps
  <1>4. AddressTypeOK'
    BY <1>1, <1>2, <1>3 DEF AddressInv, AddressTypeOK, PanelTypes, ValidationTypes
  <1>5. ListIsChecked'
    BY <1>1, <1>3 DEF AddressInv, ListIsChecked, CleanedListIsClean, RemovedForCause
  <1>. QED
    BY <1>3, <1>4, <1>5 DEF AddressInv

LEMMA RemoveInvalidKept == ASSUME AddressInv, handleRemoveInvalid PROVE AddressInv'
  <1>. DEFINE bad == {a \in Addresses : Invalid(panel.verdict[a])}
  <1>1. /\ Leaves(Without(bad), NoPanel) /\ cleaned' = panel.asked /\ removed' = bad
        /\ UNCHANGED <<profile, silent, entries>>
    BY DEF handleRemoveInvalid
  <1>2. PICK ws \in SUBSET to : ws = Without(bad)
    BY DEF Without
  <1>3. /\ JudgingGoesOn' /\ PanelIsJudged' /\ to' = ws
        /\ panel' \in PanelTypes /\ validation' \in [Validations -> ValidationTypes]
    BY <1>1, <1>2, AddressFacts, LeavesKeeps
  <1>4. bad \subseteq Addresses /\ panel.asked \subseteq Addresses
    BY AddressFacts DEF PanelTypes
  <1>5. AddressTypeOK'
    BY <1>1, <1>2, <1>3, <1>4 DEF AddressInv, AddressTypeOK, PanelTypes, ValidationTypes
  <1>6. ASSUME NEW a \in Addresses, panel.verdict[a].known
        PROVE  /\ a \notin bad => ~Undeliverable(profile[a])
               /\ a \in bad => Undeliverable(profile[a]) \/ a \in silent \/ LooksPoints(profile[a]) + 10 >= 80
    <2>1. Made(panel.verdict[a], profile[a], a \in silent)
      BY <1>6, AddressFacts DEF AllMade
    <2>2. PICK v : v = panel.verdict[a]
      OBVIOUS
    <2>3. /\ v.valid => ~Undeliverable(profile[a])
          /\ ~v.valid => Undeliverable(profile[a]) \/ a \in silent \/ LooksPoints(profile[a]) + 10 >= 80
      BY <2>1, <2>2, AddressFacts, MadeProves
    <2>. QED
      BY <1>6, <2>2, <2>3 DEF Invalid
  <1>7. CleanedListIsClean'
    <2>. SUFFICES ASSUME NEW a \in cleaned', <<a, "plain">> \in to' PROVE ~Undeliverable(profile'[a])
      BY DEF CleanedListIsClean
    <2>1. a \in Addresses /\ panel.verdict[a].known
      BY <1>1, <1>4, AddressFacts
    <2>2. a \notin bad
      BY <1>2, <1>3 DEF Without
    <2>. QED
      BY <1>1, <1>6, <2>1, <2>2
  <1>8. RemovedForCause'
    <2>. SUFFICES ASSUME NEW a \in bad
                  PROVE  Undeliverable(profile[a]) \/ a \in silent \/ LooksPoints(profile[a]) + 10 >= 80
      BY <1>1 DEF RemovedForCause
    <2>1. a \in Addresses /\ panel.verdict[a].known
      BY DEF Invalid
    <2>. QED
      BY <1>6, <2>1
  <1>. QED
    BY <1>3, <1>5, <1>7, <1>8 DEF AddressInv, ListIsChecked

LEMMA PutInKept == ASSUME AddressInv, NEW ws \in SUBSET Written, PutIn(ws) PROVE AddressInv'
  <1>1. /\ to' = to \cup ws /\ entries' = entries + 1 /\ entries < MaxEntries
        /\ cleaned' = cleaned \ {w[1] : w \in ws} /\ removed' = removed \ {w[1] : w \in ws}
        /\ UNCHANGED <<profile, panel, validation, silent>>
    BY DEF PutIn
  <1>2. entries' \in 0..MaxEntries
    BY <1>1, AddressAssumption DEF AddressInv, AddressTypeOK, AddressAssumption
  <1>3. AddressTypeOK'
    BY <1>1, <1>2 DEF AddressInv, AddressTypeOK
  <1>4. JudgingGoesOn' /\ PanelIsJudged'
    BY <1>1 DEF AddressInv, JudgingGoesOn, PanelIsJudged, AllMade
  <1>5. CleanedListIsClean'
    <2>. SUFFICES ASSUME NEW a \in cleaned', <<a, "plain">> \in to' PROVE ~Undeliverable(profile'[a])
      BY DEF CleanedListIsClean
    <2>1. a \in cleaned /\ <<a, "plain">> \notin ws
      BY <1>1
    <2>. QED
      BY <1>1, <2>1 DEF AddressInv, ListIsChecked, CleanedListIsClean
  <1>6. RemovedForCause'
    BY <1>1 DEF AddressInv, ListIsChecked, RemovedForCause
  <1>. QED
    BY <1>3, <1>4, <1>5, <1>6 DEF AddressInv, ListIsChecked

\* A validation changes, or the panel.
LEMMA ValidationKeeps ==
  ASSUME AddressInv, NEW r \in Validations, NEW v \in ValidationTypes,
         validation' = [validation EXCEPT ![r] = v],
         panel' \in PanelTypes, silent' \in SUBSET Addresses, silent \subseteq silent',
         UNCHANGED <<profile, to, cleaned, removed, entries>>,
         \A a \in Addresses : v.verdict[a].known => Made(v.verdict[a], profile[a], a \in silent'),
         v.step = "asked" => v.todo = {} /\ v.verdict = Unjudged,
         v.step = "judging" => \A w \in v.asked : w[1] \in v.todo \/ v.verdict[w[1]].known,
         \A a \in Addresses : panel'.verdict[a].known => Made(panel'.verdict[a], profile[a], a \in silent'),
         \A a \in panel'.asked : panel'.verdict[a].known
  PROVE  AddressInv'
  <1>1. validation \in [Validations -> ValidationTypes]
    BY AddressFacts
  <1>2. validation' \in [Validations -> ValidationTypes] /\ validation'[r] = v
        /\ \A s \in Validations \ {r} : validation'[s] = validation[s]
    BY <1>1
  <1>3. AddressTypeOK'
    BY <1>2 DEF AddressInv, AddressTypeOK, PanelTypes, ValidationTypes
  <1>4. PanelIsJudged'
    BY DEF PanelIsJudged, AllMade
  <1>5. ASSUME NEW s \in Validations
        PROVE  /\ \A a \in Addresses : validation'[s].verdict[a].known =>
                      Made(validation'[s].verdict[a], profile'[a], a \in silent')
               /\ validation'[s].step = "asked" => validation'[s].todo = {} /\ validation'[s].verdict = Unjudged
               /\ validation'[s].step = "judging" =>
                    \A w \in validation'[s].asked :
                      w[1] \in validation'[s].todo \/ validation'[s].verdict[w[1]].known
    <2>1. CASE s = r
      BY <1>2, <2>1
    <2>2. CASE s # r
      <3>1. PICK x : x = validation[s].verdict /\ x = validation'[s].verdict
        BY <1>2, <2>2
      <3>2. AllMade(x)
        BY <3>1 DEF AddressInv, JudgingGoesOn
      <3>3. \A a \in Addresses : x[a].known => Made(x[a], profile'[a], a \in silent')
        BY <3>2, MadeStays
      <3>. QED
        BY <1>2, <2>2, <3>1, <3>3 DEF AddressInv, JudgingGoesOn
    <2>. QED
      BY <2>1, <2>2
  <1>6. JudgingGoesOn'
    BY <1>5 DEF JudgingGoesOn, AllMade
  <1>7. ListIsChecked'
    BY DEF AddressInv, ListIsChecked, CleanedListIsClean, RemovedForCause
  <1>. QED
    BY <1>3, <1>4, <1>6, <1>7 DEF AddressInv

LEMMA PanelMade ==
  ASSUME AddressInv
  PROVE  \A a \in Addresses : panel.verdict[a].known => Made(panel.verdict[a], profile[a], a \in silent)
  BY AddressFacts DEF AllMade

LEMMA AskKept == ASSUME AddressInv, NEW r \in Validations, handleValidate(r) PROVE AddressInv'
  <1>. DEFINE v == [NoRequest EXCEPT !.step = "asked", !.alive = TRUE, !.asked = to]
              pan == [panel EXCEPT !.busy = TRUE]
  <1>1. v \in ValidationTypes /\ v.step = "asked" /\ v.verdict = Unjudged /\ v.todo = {}
    BY AddressFacts, NothingJudged DEF NoRequest, ValidationTypes
  <1>2. panel' = pan /\ pan \in PanelTypes /\ pan.verdict = panel.verdict /\ pan.asked = panel.asked
    BY AddressFacts DEF handleValidate, PanelTypes
  <1>3. validation' = [validation EXCEPT ![r] = v] /\ UNCHANGED <<profile, to, cleaned, removed, silent, entries>>
    BY DEF handleValidate
  <1>4. silent \in SUBSET Addresses
    BY DEF AddressInv, AddressTypeOK
  <1>. HIDE DEF v, pan
  <1>. QED
    BY <1>1, <1>2, <1>3, <1>4, AddressFacts, PanelMade, NothingJudged, ValidationKeeps

LEMMA RequestReceivedKept == ASSUME AddressInv, NEW r \in Validations, validateRecipients(r) PROVE AddressInv'
  <1>1. PICK x \in ValidationTypes : x = validation[r]
    BY AddressFacts
  <1>6. PICK as \in SUBSET Addresses : as = {w[1] : w \in x.asked}
    <2>1. \A w \in x.asked : w[1] \in Addresses
      BY DEF ValidationTypes, Written
    <2>. QED
      BY <2>1
  <1>7. \A w \in x.asked : w[1] \in as
    BY <1>6
  <1>. DEFINE v == [x EXCEPT !.step = "judging", !.todo = as]
  <1>2. /\ v \in ValidationTypes /\ v.step = "judging" /\ v.verdict = x.verdict /\ v.asked = x.asked
        /\ \A w \in v.asked : w[1] \in v.todo
    BY <1>7 DEF ValidationTypes
  <1>3. validation' = [validation EXCEPT ![r] = v] /\ UNCHANGED <<profile, to, panel, cleaned, removed, silent, entries>>
    BY <1>1, <1>6 DEF validateRecipients, ValidationTypes
  <1>4. silent \in SUBSET Addresses
    BY DEF AddressInv, AddressTypeOK
  <1>5. x.verdict = Unjudged
    BY <1>1 DEF AddressInv, JudgingGoesOn, validateRecipients
  <1>. HIDE DEF v
  <1>. QED
    BY <1>2, <1>3, <1>4, <1>5, AddressFacts, PanelMade, NothingJudged, ValidationKeeps

LEMMA JudgeKept == ASSUME AddressInv, NEW r \in Validations, validateEmail(r) PROVE AddressInv'
  <1>1. PICK x \in ValidationTypes : x = validation[r]
    BY AddressFacts
  <1>2. PICK a \in x.todo : \E dns \in DnsAnswers(profile[a]) :
          /\ validation' = [validation EXCEPT ![r].todo = x.todo \ {a}, ![r].verdict[a] = Judge(profile[a], dns)]
          /\ silent' = IF Silent(profile[a], dns) THEN silent \cup {a} ELSE silent
    BY <1>1 DEF validateEmail
  <1>3. PICK dns \in DnsAnswers(profile[a]) :
          /\ validation' = [validation EXCEPT ![r].todo = x.todo \ {a}, ![r].verdict[a] = Judge(profile[a], dns)]
          /\ silent' = IF Silent(profile[a], dns) THEN silent \cup {a} ELSE silent
    BY <1>2
  <1>4. a \in Addresses /\ profile[a] \in AllLooks
    BY AddressAssumption DEF AddressAssumption, AddressInv, AddressTypeOK, ValidationTypes
  <1>5. PICK j \in Verdict : j = Judge(profile[a], dns) /\ j.known
    BY <1>3, <1>4, JudgeTyped
  <1>6. silent' \in SUBSET Addresses /\ silent \subseteq silent' /\ (Silent(profile[a], dns) => a \in silent')
    BY <1>3, <1>4 DEF AddressInv, AddressTypeOK
  <1>7. Made(j, profile[a], a \in silent')
    BY <1>3, <1>5, <1>6 DEF Made
  <1>. DEFINE v == [x EXCEPT !.todo = x.todo \ {a}, !.verdict = [x.verdict EXCEPT ![a] = j]]
  <1>8. validation' = [validation EXCEPT ![r] = v]
    BY <1>1, <1>3, <1>5 DEF ValidationTypes
  <1>9. /\ v \in ValidationTypes /\ v.step = x.step /\ v.asked = x.asked /\ v.todo = x.todo \ {a}
        /\ v.verdict = [x.verdict EXCEPT ![a] = j]
    BY DEF ValidationTypes
  <1>10. x.step = "judging" /\ UNCHANGED <<profile, to, panel, cleaned, removed, entries>>
    BY <1>1 DEF validateEmail
  <1>. HIDE DEF v
  <1>11. x.verdict \in [Addresses -> Verdict] /\ \A w \in x.asked : w[1] \in Addresses
    BY DEF ValidationTypes, Written
  <1>12. AllMade(x.verdict) /\ \A w \in x.asked : w[1] \in x.todo \/ x.verdict[w[1]].known
    BY <1>1, <1>10 DEF AddressInv, JudgingGoesOn
  <1>13. \A b \in Addresses : v.verdict[b].known => Made(v.verdict[b], profile[b], b \in silent')
    <2>. SUFFICES ASSUME NEW b \in Addresses, v.verdict[b].known PROVE Made(v.verdict[b], profile[b], b \in silent')
      OBVIOUS
    <2>1. CASE b = a
      BY <1>7, <1>9, <1>11, <2>1
    <2>2. CASE b # a
      <3>1. v.verdict[b] = x.verdict[b]
        BY <1>9, <1>11, <2>2
      <3>2. Made(x.verdict[b], profile'[b], b \in silent')
        BY <1>6, <1>10, <1>12, <3>1, MadeStays
      <3>. QED
        BY <1>10, <3>1, <3>2
    <2>. QED
      BY <2>1, <2>2
  <1>14. \A w \in v.asked : w[1] \in v.todo \/ v.verdict[w[1]].known
    BY <1>5, <1>9, <1>11, <1>12
  <1>15. \A b \in Addresses : panel.verdict[b].known => Made(panel.verdict[b], profile[b], b \in silent')
    <2>1. AllMade(panel.verdict)
      BY AddressFacts
    <2>. QED
      BY <1>6, <1>10, <2>1, MadeStays
  <1>. QED
    BY <1>6, <1>8, <1>9, <1>10, <1>13, <1>14, <1>15, AddressFacts, ValidationKeeps

LEMMA AnswerShownKept ==
  ASSUME AddressInv, NEW r \in Validations, ShowVerdicts(r) \/ ValidationFails(r) PROVE AddressInv'
  <1>1. PICK x \in ValidationTypes : x = validation[r]
    BY AddressFacts
  <1>2. validation' = [validation EXCEPT ![r] = NoRequest] /\ UNCHANGED <<profile, to, cleaned, removed, silent, entries>>
    BY DEF ShowVerdicts, ValidationFails
  <1>3. PICK pan \in PanelTypes : panel' = pan /\ AllMade(pan.verdict) /\ \A a \in pan.asked : pan.verdict[a].known
    <2>1. CASE panel' = panel
      BY <2>1, AddressFacts
    <2>2. CASE panel' = [panel EXCEPT !.busy = FALSE]
      <3>1. panel' \in PanelTypes /\ panel'.verdict = panel.verdict /\ panel'.asked = panel.asked
        BY <2>2, AddressFacts DEF PanelTypes
      <3>. QED
        BY <3>1, AddressFacts
    <2>3. CASE /\ x.step = "judging" /\ x.todo = {}
               /\ panel' = [busy |-> FALSE, open |-> TRUE, asked |-> {w[1] : w \in x.asked}, verdict |-> x.verdict]
      <3>1. x.verdict \in [Addresses -> Verdict] /\ \A w \in x.asked : w[1] \in Addresses
        BY DEF ValidationTypes, Written
      <3>2. AllMade(x.verdict) /\ \A w \in x.asked : x.verdict[w[1]].known
        BY <1>1, <2>3 DEF AddressInv, JudgingGoesOn
      <3>3. PICK as \in SUBSET Addresses : as = {w[1] : w \in x.asked}
        BY <3>1
      <3>4. PICK pan : pan = [busy |-> FALSE, open |-> TRUE, asked |-> as, verdict |-> x.verdict]
        OBVIOUS
      <3>5. pan \in PanelTypes /\ pan.verdict = x.verdict /\ pan.asked = as
        BY <3>1, <3>4 DEF PanelTypes
      <3>6. \A a \in as : x.verdict[a].known
        BY <3>2, <3>3
      <3>. QED
        BY <2>3, <3>2, <3>3, <3>4, <3>5, <3>6
    <2>. QED
      BY <1>1, <2>1, <2>2, <2>3 DEF ShowVerdicts, ValidationFails
  <1>4. silent \in SUBSET Addresses
    BY DEF AddressInv, AddressTypeOK
  <1>5. \A a \in Addresses : pan.verdict[a].known => Made(pan.verdict[a], profile[a], a \in silent)
    BY <1>3 DEF AllMade
  <1>. QED
    BY <1>2, <1>3, <1>4, <1>5, NothingJudged, ValidationKeeps

LEMMA CloseKept == ASSUME AddressInv, closeModal PROVE AddressInv'
  <1>1. panel' = NoPanel /\ UNCHANGED <<profile, to, validation, cleaned, removed, silent, entries>>
    BY DEF closeModal
  <1>2. AddressTypeOK'
    BY <1>1, NothingJudged DEF AddressInv, AddressTypeOK, PanelTypes
  <1>3. PanelIsJudged'
    BY <1>1, NothingJudged DEF PanelIsJudged, AllMade
  <1>4. JudgingGoesOn' /\ ListIsChecked'
    BY <1>1 DEF AddressInv, JudgingGoesOn, AllMade, ListIsChecked, CleanedListIsClean, RemovedForCause
  <1>. QED
    BY <1>2, <1>3, <1>4 DEF AddressInv

LEMMA AddressStep == AddressInv /\ [AddressNext]_addressVars => AddressInv'
  <1>1. AddressInv /\ AddressNext => AddressInv'
    BY PutInKept, RecipientsKept, AskKept, RequestReceivedKept, JudgeKept, AnswerShownKept, CloseKept,
       RemoveInvalidKept DEF AddressNext
  <1>2. AddressInv /\ UNCHANGED addressVars => AddressInv'
    BY DEF addressVars, AddressInv, AddressTypeOK, JudgingGoesOn, PanelIsJudged, AllMade, ListIsChecked,
       CleanedListIsClean, RemovedForCause
  <1>. QED
    BY <1>1, <1>2

LEMMA AddressImplies == AddressInv => AddressTypeOK /\ ListIsChecked
  BY DEF AddressInv

(***************************************************************************)
(* Enrichment.  What is known of a candidate was made of an answer, and    *)
(* what was picked among judged candidates is the best of them.            *)
(***************************************************************************)
EnrichTypes ==
  [step : {"new", "looking", "judging", "done"}, given : Candidates \cup {NoCandidate},
   ranked : SUBSET Candidates, verdict : [Candidates -> Verdict], picked : Candidates \cup {NoCandidate}]

AllHeard(v, e) == \A a \in Candidates : v[a].known => Made(v[a], looks[a], <<e, a>> \in unheard)

BestOf(f) ==
  /\ f.picked \in f.ranked
  /\ \A b \in f.ranked : f.verdict[b].known /\ Better(f.verdict[f.picked], looks[f.picked], f.verdict[b], looks[b])

Enriched(f) ==
  /\ f.step \in {"new", "looking"} => f.ranked = {}
  /\ f.step \in {"new", "judging"} => f.given = NoCandidate
  /\ f.given # NoCandidate => f.ranked = {}
  /\ f.step = "done" => (f.given # NoCandidate => f.picked = f.given) /\ (f.ranked # {} => BestOf(f))

AllEnriched == \A e \in Enrichments : AllHeard(enrich[e].verdict, e) /\ Enriched(enrich[e])

EnrichmentInv == EnrichmentTypeOK /\ AllEnriched

LEMMA EnrichFacts ==
  ASSUME EnrichmentInv, NEW e \in Enrichments
  PROVE  \E f \in EnrichTypes : f = enrich[e] /\ AllHeard(f.verdict, e) /\ Enriched(f)
  BY DEF EnrichmentInv, EnrichmentTypeOK, EnrichTypes, AllEnriched

LEMMA LooksKnown ==
  ASSUME EnrichmentTypeOK, NEW a \in Candidates
  PROVE  looks[a] \in AllLooks
  BY EnrichmentAssumption DEF EnrichmentAssumption, EnrichmentTypeOK

LEMMA EnrichmentStarts == EnrichmentInit => EnrichmentInv
  <1>. SUFFICES ASSUME EnrichmentInit PROVE EnrichmentInv
    OBVIOUS
  <1>1. NoVerdict \in Verdict /\ ~NoVerdict.known
    BY DEF NoVerdict, Verdict
  <1>2. NoneJudged \in [Candidates -> Verdict] /\ \A a \in Candidates : NoneJudged[a] = NoVerdict
    BY <1>1 DEF NoneJudged
  <1>3. /\ NoEnrichment \in EnrichTypes /\ NoEnrichment.step = "new" /\ NoEnrichment.given = NoCandidate
        /\ NoEnrichment.ranked = {} /\ NoEnrichment.verdict = NoneJudged
    BY <1>2 DEF NoEnrichment, EnrichTypes
  <1>4. EnrichmentTypeOK
    BY <1>3 DEF EnrichmentInit, EnrichmentTypeOK, EnrichTypes
  <1>5. \A e \in Enrichments : enrich[e] = NoEnrichment
    BY DEF EnrichmentInit
  <1>6. AllEnriched
    <2>. SUFFICES ASSUME NEW e \in Enrichments PROVE AllHeard(NoneJudged, e) /\ Enriched(NoEnrichment)
      BY <1>3, <1>5 DEF AllEnriched
    <2>1. AllHeard(NoneJudged, e)
      BY <1>1, <1>2 DEF AllHeard
    <2>. QED
      BY <1>3, <2>1 DEF Enriched
  <1>. QED
    BY <1>4, <1>6 DEF EnrichmentInv

\* What every step of an enrichment keeps: the others are left alone, and silence is only added.
LEMMA EnrichKeeps ==
  ASSUME EnrichmentInv, NEW e \in Enrichments, NEW f \in EnrichTypes, enrich' = [enrich EXCEPT ![e] = f],
         looks' = looks, unheard \subseteq unheard', unheard' \subseteq Enrichments \X Candidates,
         \A a \in Candidates : f.verdict[a].known => Made(f.verdict[a], looks[a], <<e, a>> \in unheard'),
         Enriched(f)
  PROVE  EnrichmentInv'
  <1>1. enrich \in [Enrichments -> EnrichTypes] /\ enrich' \in [Enrichments -> EnrichTypes]
    BY DEF EnrichmentInv, EnrichmentTypeOK, EnrichTypes
  <1>2. EnrichmentTypeOK'
    BY <1>1 DEF EnrichmentInv, EnrichmentTypeOK, EnrichTypes
  <1>3. ASSUME NEW d \in Enrichments
        PROVE  /\ \A a \in Candidates : enrich'[d].verdict[a].known =>
                     Made(enrich'[d].verdict[a], looks'[a], <<d, a>> \in unheard')
               /\ Enriched(enrich[d])'
    <2>1. PICK x \in EnrichTypes : x = enrich'[d]
      BY <1>1
    <2>2. \A a \in Candidates : x.verdict[a].known => Made(x.verdict[a], looks[a], <<d, a>> \in unheard')
      <3>1. CASE d = e
        BY <1>1, <2>1, <3>1
      <3>2. CASE d # e
        <4>1. x = enrich[d]
          BY <1>1, <2>1, <3>2
        <4>2. \A a \in Candidates : x.verdict[a].known => Made(x.verdict[a], looks[a], <<d, a>> \in unheard)
          BY <4>1 DEF EnrichmentInv, AllEnriched, AllHeard
        <4>. QED
          BY <4>2 DEF Made
      <3>. QED
        BY <3>1, <3>2
    <2>3. Enriched(x)
      <3>1. CASE d = e
        BY <1>1, <2>1, <3>1
      <3>2. CASE d # e
        BY <1>1, <2>1, <3>2 DEF EnrichmentInv, AllEnriched
      <3>. QED
        BY <3>1, <3>2
    <2>4. Enriched(x)'
      BY <2>3 DEF Enriched, BestOf
    <2>5. Enriched(enrich[d])'
      BY <2>1, <2>4 DEF Enriched, BestOf
    <2>. QED
      BY <2>1, <2>2, <2>5
  <1>4. AllEnriched'
    BY <1>3 DEF AllEnriched, AllHeard
  <1>. QED
    BY <1>2, <1>4 DEF EnrichmentInv

\* A candidate is judged, with what DNS answers.
LEMMA JudgesMade ==
  ASSUME EnrichmentInv, NEW e \in Enrichments, NEW a \in Candidates, NEW x \in EnrichTypes,
         AllHeard(x.verdict, e), Enriched(x), x.step # "done", Judges(e, a, x), looks' = looks
  PROVE  EnrichmentInv'
  <1>1. PICK dns \in DnsAnswers(looks[a]) :
          /\ enrich' = [enrich EXCEPT ![e] = [x EXCEPT !.verdict[a] = Judge(looks[a], dns)]]
          /\ unheard' = IF Silent(looks[a], dns) THEN unheard \cup {<<e, a>>} ELSE unheard
    BY DEF Judges
  <1>2. looks[a] \in AllLooks
    BY LooksKnown DEF EnrichmentInv
  <1>3. PICK j \in Verdict : j = Judge(looks[a], dns)
    BY <1>2, JudgeTyped
  <1>4. /\ unheard \subseteq unheard' /\ unheard' \subseteq Enrichments \X Candidates
        /\ Silent(looks[a], dns) => <<e, a>> \in unheard'
    BY <1>1 DEF EnrichmentInv, EnrichmentTypeOK
  <1>5. Made(j, looks[a], <<e, a>> \in unheard')
    BY <1>3, <1>4 DEF Made
  <1>. DEFINE f == [x EXCEPT !.verdict = [x.verdict EXCEPT ![a] = j]]
  <1>6. enrich' = [enrich EXCEPT ![e] = f]
    BY <1>1, <1>3 DEF EnrichTypes
  <1>7. /\ f \in EnrichTypes /\ f.verdict = [x.verdict EXCEPT ![a] = j] /\ f.step = x.step
        /\ f.given = x.given /\ f.ranked = x.ranked /\ f.picked = x.picked
    BY DEF EnrichTypes
  <1>. HIDE DEF f
  <1>8. x.verdict \in [Candidates -> Verdict]
    BY DEF EnrichTypes
  <1>9. \A b \in Candidates : f.verdict[b].known => Made(f.verdict[b], looks[b], <<e, b>> \in unheard')
    <2>. SUFFICES ASSUME NEW b \in Candidates, f.verdict[b].known PROVE Made(f.verdict[b], looks[b], <<e, b>> \in unheard')
      OBVIOUS
    <2>1. CASE b = a
      BY <1>5, <1>7, <1>8, <2>1
    <2>2. CASE b # a
      <3>1. f.verdict[b] = x.verdict[b]
        BY <1>7, <1>8, <2>2
      <3>2. Made(x.verdict[b], looks[b], <<e, b>> \in unheard)
        BY <3>1 DEF AllHeard
      <3>. QED
        BY <1>4, <3>1, <3>2 DEF Made
    <2>. QED
      BY <2>1, <2>2
  <1>10. Enriched(f)
    BY <1>7 DEF Enriched
  <1>. QED
    BY <1>4, <1>6, <1>7, <1>9, <1>10, EnrichKeeps

LEMMA GivenKept == ASSUME EnrichmentInv, NEW e \in Enrichments, enrichContactInput(e) PROVE EnrichmentInv'
  <1>1. PICK f \in EnrichTypes : f = enrich[e] /\ AllHeard(f.verdict, e) /\ Enriched(f)
    BY EnrichFacts
  <1>2. f.step = "new" /\ looks' = looks
    BY <1>1 DEF enrichContactInput
  <1>3. ASSUME NEW a \in Candidates, Judges(e, a, [f EXCEPT !.step = "looking", !.given = a]) PROVE EnrichmentInv'
    <2>1. PICK x : x = [f EXCEPT !.step = "looking", !.given = a]
      OBVIOUS
    <2>2. x \in EnrichTypes /\ x.verdict = f.verdict /\ x.ranked = f.ranked /\ x.step = "looking"
      BY <2>1 DEF EnrichTypes
    <2>3. Enriched(x) /\ AllHeard(x.verdict, e)
      BY <1>1, <1>2, <2>2 DEF Enriched
    <2>. QED
      BY <1>2, <1>3, <2>1, <2>2, <2>3, JudgesMade
  <1>4. ASSUME enrich' = [enrich EXCEPT ![e].step = "looking"], unheard' = unheard PROVE EnrichmentInv'
    <2>1. PICK x : x = [f EXCEPT !.step = "looking"]
      OBVIOUS
    <2>2. x \in EnrichTypes /\ x.verdict = f.verdict /\ x.ranked = f.ranked /\ x.step = "looking" /\ x.given = f.given
      BY <2>1 DEF EnrichTypes
    <2>3. Enriched(x)
      BY <1>1, <1>2, <2>2 DEF Enriched
    <2>4. enrich' = [enrich EXCEPT ![e] = x]
      BY <1>1, <1>4, <2>1
    <2>5. \A a \in Candidates : x.verdict[a].known => Made(x.verdict[a], looks[a], <<e, a>> \in unheard')
      BY <1>1, <1>4, <2>2 DEF AllHeard
    <2>6. unheard \subseteq unheard' /\ unheard' \subseteq Enrichments \X Candidates
      BY <1>4 DEF EnrichmentInv, EnrichmentTypeOK
    <2>. QED
      BY <1>2, <2>2, <2>3, <2>4, <2>5, <2>6, EnrichKeeps
  <1>. QED
    BY <1>1, <1>3, <1>4 DEF enrichContactInput

\* A step after which nothing more is known of the candidates.
LEMMA UnjudgedKept ==
  ASSUME EnrichmentInv, NEW e \in Enrichments, NEW f \in EnrichTypes, f = enrich[e], NEW x \in EnrichTypes,
         enrich' = [enrich EXCEPT ![e] = x], UNCHANGED <<looks, unheard>>, x.verdict = f.verdict, Enriched(x)
  PROVE  EnrichmentInv'
  <1>1. \A a \in Candidates : x.verdict[a].known => Made(x.verdict[a], looks[a], <<e, a>> \in unheard')
    BY EnrichFacts DEF AllHeard
  <1>2. unheard \subseteq unheard' /\ unheard' \subseteq Enrichments \X Candidates
    BY DEF EnrichmentInv, EnrichmentTypeOK
  <1>. QED
    BY <1>1, <1>2, EnrichKeeps

LEMMA PagesKept == ASSUME EnrichmentInv, NEW e \in Enrichments, fetchRelevantPages(e) PROVE EnrichmentInv'
  <1>1. PICK f \in EnrichTypes : f = enrich[e] /\ AllHeard(f.verdict, e) /\ Enriched(f)
    BY EnrichFacts
  <1>2. f.step = "looking" /\ UNCHANGED <<looks, unheard>>
    BY <1>1 DEF fetchRelevantPages
  <1>3. PICK pool \in Pools :
          IF f.given # NoCandidate \/ pool = {}
          THEN enrich' = [enrich EXCEPT ![e].step = "done", ![e].picked = f.given]
          ELSE \E s \in Rankings(pool) : enrich' = [enrich EXCEPT ![e].step = "judging", ![e].ranked = s]
    BY <1>1 DEF fetchRelevantPages
  <1>4. ASSUME enrich' = [enrich EXCEPT ![e].step = "done", ![e].picked = f.given] PROVE EnrichmentInv'
    <2>1. PICK x : x = [f EXCEPT !.step = "done", !.picked = f.given]
      OBVIOUS
    <2>2. /\ x \in EnrichTypes /\ x.verdict = f.verdict /\ x.ranked = f.ranked /\ x.step = "done"
          /\ x.given = f.given /\ x.picked = f.given
      BY <2>1 DEF EnrichTypes
    <2>3. Enriched(x)
      BY <1>1, <1>2, <2>2 DEF Enriched
    <2>4. enrich' = [enrich EXCEPT ![e] = x]
      BY <1>1, <1>4, <2>1
    <2>. QED
      BY <1>1, <1>2, <2>2, <2>3, <2>4, UnjudgedKept
  <1>5. ASSUME f.given = NoCandidate, NEW s \in Rankings(pool), enrich' = [enrich EXCEPT ![e].step = "judging", ![e].ranked = s]
        PROVE EnrichmentInv'
    <2>1. PICK x : x = [f EXCEPT !.step = "judging", !.ranked = s]
      OBVIOUS
    <2>2. s \in SUBSET Candidates
      BY <1>3, <1>5 DEF Rankings, Pools
    <2>3. /\ x \in EnrichTypes /\ x.verdict = f.verdict /\ x.step = "judging" /\ x.given = f.given
      BY <2>1, <2>2 DEF EnrichTypes
    <2>4. Enriched(x)
      BY <1>5, <2>3 DEF Enriched
    <2>5. enrich' = [enrich EXCEPT ![e] = x]
      BY <1>1, <1>5, <2>1
    <2>. QED
      BY <1>1, <1>2, <2>3, <2>4, <2>5, UnjudgedKept
  <1>. QED
    BY <1>3, <1>4, <1>5

LEMMA CandidateKept == ASSUME EnrichmentInv, NEW e \in Enrichments, validateCandidate(e) PROVE EnrichmentInv'
  <1>1. PICK f \in EnrichTypes : f = enrich[e] /\ AllHeard(f.verdict, e) /\ Enriched(f)
    BY EnrichFacts
  <1>2. f.step = "judging" /\ looks' = looks
    BY <1>1 DEF validateCandidate
  <1>3. PICK a \in f.ranked : Judges(e, a, f)
    BY <1>1 DEF validateCandidate
  <1>4. a \in Candidates
    BY DEF EnrichTypes
  <1>. QED
    BY <1>1, <1>2, <1>3, <1>4, JudgesMade

LEMMA SelectKept == ASSUME EnrichmentInv, NEW e \in Enrichments, selectBestEmailCandidate(e) PROVE EnrichmentInv'
  <1>1. PICK f \in EnrichTypes : f = enrich[e] /\ AllHeard(f.verdict, e) /\ Enriched(f)
    BY EnrichFacts
  <1>2. f.step = "judging" /\ (\A a \in f.ranked : f.verdict[a].known) /\ UNCHANGED <<looks, unheard>>
    BY <1>1 DEF selectBestEmailCandidate
  <1>3. PICK a \in f.ranked :
          /\ \A b \in f.ranked : Better(f.verdict[a], looks[a], f.verdict[b], looks[b])
          /\ enrich' = [enrich EXCEPT ![e].step = "done", ![e].picked = a]
    BY <1>1 DEF selectBestEmailCandidate
  <1>4. a \in Candidates
    BY DEF EnrichTypes
  <1>5. PICK x : x = [f EXCEPT !.step = "done", !.picked = a]
    OBVIOUS
  <1>6. /\ x \in EnrichTypes /\ x.verdict = f.verdict /\ x.ranked = f.ranked /\ x.step = "done"
        /\ x.given = f.given /\ x.picked = a
    BY <1>4, <1>5 DEF EnrichTypes
  <1>7. BestOf(x)
    BY <1>2, <1>3, <1>6 DEF BestOf
  <1>8. Enriched(x)
    BY <1>1, <1>2, <1>6, <1>7 DEF Enriched
  <1>9. enrich' = [enrich EXCEPT ![e] = x]
    BY <1>1, <1>3, <1>5
  <1>. QED
    BY <1>1, <1>2, <1>6, <1>8, <1>9, UnjudgedKept

LEMMA CompanyKept == ASSUME EnrichmentInv, NEW e \in Enrichments, enrichCompanyProfile(e) PROVE EnrichmentInv'
  <1>1. PICK f \in EnrichTypes : f = enrich[e] /\ AllHeard(f.verdict, e) /\ Enriched(f)
    BY EnrichFacts
  <1>2. f.step = "new" /\ UNCHANGED <<looks, unheard>>
    BY <1>1 DEF enrichCompanyProfile
  <1>3. PICK a \in Candidates \cup {NoCandidate} : enrich' = [enrich EXCEPT ![e].step = "done", ![e].picked = a]
    BY DEF enrichCompanyProfile
  <1>5. PICK x : x = [f EXCEPT !.step = "done", !.picked = a]
    OBVIOUS
  <1>6. x \in EnrichTypes /\ x.verdict = f.verdict /\ x.ranked = f.ranked /\ x.step = "done" /\ x.given = f.given
    BY <1>5 DEF EnrichTypes
  <1>8. Enriched(x)
    BY <1>1, <1>2, <1>6 DEF Enriched
  <1>9. enrich' = [enrich EXCEPT ![e] = x]
    BY <1>1, <1>3, <1>5
  <1>. QED
    BY <1>1, <1>2, <1>6, <1>8, <1>9, UnjudgedKept

LEMMA EnrichmentStep == EnrichmentInv /\ [EnrichmentNext]_enrichmentVars => EnrichmentInv'
  <1>1. EnrichmentInv /\ EnrichmentNext => EnrichmentInv'
    BY GivenKept, PagesKept, CandidateKept, SelectKept, CompanyKept DEF EnrichmentNext
  <1>2. EnrichmentInv /\ UNCHANGED enrichmentVars => EnrichmentInv'
    BY DEF EnrichmentInv, EnrichmentTypeOK, AllEnriched, AllHeard, Enriched, BestOf, enrichmentVars
  <1>. QED
    BY <1>1, <1>2

\* What is picked is the best, by the verdicts and then by what they mean.
LEMMA EnrichmentImplies == EnrichmentInv => PickedIsBest
  <1>. SUFFICES ASSUME EnrichmentInv, NEW e \in Enrichments, enrich[e].step = "done"
                PROVE  /\ enrich[e].given # NoCandidate => enrich[e].picked = enrich[e].given
                       /\ ( /\ \E a \in enrich[e].ranked : ~Undeliverable(looks[a]) /\ LooksPoints(looks[a]) + 10 < 80
                            /\ \A a \in enrich[e].ranked : <<e, a>> \notin unheard )
                          => ~Undeliverable(looks[enrich[e].picked])
    BY DEF PickedIsBest
  <1>1. PICK f \in EnrichTypes : f = enrich[e] /\ AllHeard(f.verdict, e) /\ Enriched(f)
    BY EnrichFacts
  <1>2. ASSUME NEW a \in f.ranked, ~Undeliverable(looks[a]), LooksPoints(looks[a]) + 10 < 80,
               \A c \in f.ranked : <<e, c>> \notin unheard
        PROVE  ~Undeliverable(looks[f.picked])
    <2>1. BestOf(f) /\ f.ranked \subseteq Candidates /\ f.verdict \in [Candidates -> Verdict]
      BY <1>1, <1>2 DEF Enriched, EnrichTypes
    <2>2. PICK p \in Candidates : p = f.picked /\ p \in f.ranked
      BY <2>1 DEF BestOf
    <2>3. looks[a] \in AllLooks /\ looks[p] \in AllLooks
      BY <2>1, <2>2, LooksKnown DEF EnrichmentInv
    <2>4. f.verdict[a].known /\ f.verdict[p].known /\ Better(f.verdict[p], looks[p], f.verdict[a], looks[a])
      BY <1>2, <2>1, <2>2 DEF BestOf
    <2>5. PICK dns \in DnsAnswers(looks[a]) : f.verdict[a] = Judge(looks[a], dns) /\ ~Silent(looks[a], dns)
      BY <1>1, <1>2, <2>1, <2>4 DEF AllHeard, Made
    <2>6. LooksPoints(looks[a]) \in Nat
      BY <2>3, <2>5, PointsBounded
    <2>7. f.verdict[a].valid
      <3>. SUFFICES ASSUME ~f.verdict[a].valid PROVE FALSE
        OBVIOUS
      <3>1. ~Judge(looks[a], dns).valid
        BY <2>5
      <3>2. LooksPoints(looks[a]) + 10 >= 80
        BY <1>2, <2>3, <2>5, <3>1, InvalidForCause
      <3>. QED
        BY <1>2, <2>6, <3>2
    <2>8. f.verdict[p].valid
      BY <2>1, <2>4, <2>7 DEF Better, Verdict
    <2>9. PICK answer \in DnsAnswers(looks[p]) : f.verdict[p] = Judge(looks[p], answer)
      BY <1>1, <2>2, <2>4 DEF AllHeard, Made
    <2>10. Judge(looks[p], answer).valid
      BY <2>8, <2>9
    <2>. QED
      BY <2>2, <2>3, <2>10, ValidIsDeliverable
  <1>. QED
    BY <1>1, <1>2 DEF Enriched

(***************************************************************************)
(* Sessions.                                                               *)
(***************************************************************************)
TokenRows ==
  [state : {"none", "live", "revoked", "expired"}, parent : 0 .. MaxTokens, width : 0 .. Cardinality(Handlers)]
TabRows == [page : {"closed", "app", "login"}, user : {"out", "loading", "in"}, memory : 0 .. MaxTokens]
RequestRows == [at : {"idle", "sent", "queued", "waiting"}, with : 0 .. MaxTokens, retry : BOOLEAN]
RefreshSteps == {"no", "sent", "found", "revoked", "granted", "refused"}
RefreshRows ==
  [step : RefreshSteps, of : 0 .. MaxTokens, new : 0 .. MaxTokens, for : Tabs \cup {NoTab}]

Issued == {n \in Numbers : token[n].state # "none"}
Handling == {"found", "revoked"}

\* Tokens are issued in order, and everybody has only issued ones.
IssuedInOrder == \E k \in 0 .. MaxTokens : Issued = 1 .. k

OnlyIssued ==
  /\ browser.cookie \in Issued \cup {0}
  /\ \A n \in Numbers : token[n].parent \in Issued \cup {0}
  /\ \A h \in Handlers : /\ refresher[h].new \in Issued \cup {0}
                         /\ refresher[h].step \in Handling => refresher[h].of \in Issued

\* A live token has no successor, and no refresh is about to give it one.
LiveIsUnused ==
  \A n \in Numbers : token[n].state = "live" =>
    /\ \A m \in Numbers : token[m].parent # n
    /\ \A h \in Handlers : ~(refresher[h].step = "revoked" /\ refresher[h].of = n)

\* Every refresh that has a token in hand may give it one successor.
HandsCounted == \A n \in Numbers : Cardinality(Successors(n)) + Cardinality(InHand(n)) <= token[n].width

RotationInv == IssuedInOrder /\ OnlyIssued /\ LiveIsUnused /\ HandsCounted

\* A tab has one refresh under way.
OneRefresh ==
  \A h, g \in Handlers : refresher[h].for # NoTab /\ refresher[h].for = refresher[g].for => h = g

SessionsInv == SessionsTypeOK /\ RotationInv /\ OneRefresh /\ WaitsForRefresh

LEMMA SessionsFinite ==
  ASSUME NEW n
  PROVE  /\ IsFiniteSet(Successors(n)) /\ Cardinality(Successors(n)) \in Nat
         /\ IsFiniteSet(InHand(n)) /\ Cardinality(InHand(n)) \in Nat
  <1>1. IsFiniteSet(Numbers)
    BY FS_Interval, SessionsAssumption DEF SessionsAssumption, Numbers
  <1>2. Successors(n) \subseteq Numbers /\ InHand(n) \subseteq Handlers
    BY DEF Successors, InHand
  <1>3. IsFiniteSet(Handlers)
    BY SessionsAssumption DEF SessionsAssumption
  <1>4. IsFiniteSet(Successors(n)) /\ IsFiniteSet(InHand(n))
    BY <1>1, <1>2, <1>3, FS_Subset
  <1>. QED
    BY <1>4, FS_CardinalityType

LEMMA SessionsFiniteNext ==
  ASSUME NEW n
  PROVE  /\ IsFiniteSet(Successors(n)') /\ Cardinality(Successors(n)') \in Nat
         /\ IsFiniteSet(InHand(n)') /\ Cardinality(InHand(n)') \in Nat
  <1>1. IsFiniteSet(Numbers)
    BY FS_Interval, SessionsAssumption DEF SessionsAssumption, Numbers
  <1>2. Successors(n)' \subseteq Numbers /\ InHand(n)' \subseteq Handlers
    BY DEF Successors, InHand
  <1>3. IsFiniteSet(Handlers)
    BY SessionsAssumption DEF SessionsAssumption
  <1>4. IsFiniteSet(Successors(n)') /\ IsFiniteSet(InHand(n)')
    BY <1>1, <1>2, <1>3, FS_Subset
  <1>. QED
    BY <1>4, FS_CardinalityType

\* The next token is new.
LEMMA NextIsNew ==
  ASSUME IssuedInOrder, NextToken \in Numbers
  PROVE  NextToken \notin Issued /\ \E k \in 0 .. MaxTokens : Issued \cup {NextToken} = 1 .. k
  <1>1. PICK k \in 0 .. MaxTokens : Issued = 1 .. k
    BY DEF IssuedInOrder
  <1>2. MaxTokens \in Nat
    BY SessionsAssumption DEF SessionsAssumption
  <1>3. Cardinality(1 .. k) = k
    BY <1>2, FS_Interval
  <1>4. NextToken = 1 + k
    BY <1>1, <1>3 DEF NextToken, Issued
  <1>5. k + 1 \in 0 .. MaxTokens /\ 1 .. (k + 1) = (1 .. k) \cup {1 + k} /\ 1 + k \notin 1 .. k
    BY <1>2, <1>4 DEF Numbers
  <1>. QED
    BY <1>1, <1>4, <1>5

(***************************************************************************)
(* What the steps keep of the tokens.                                      *)
(***************************************************************************)
\* No token is issued, and no refresh takes one in hand.
LEMMA TokensSpent ==
  ASSUME RotationInv, SessionsTypeOK, SessionsTypeOK',
         \A m \in Numbers : /\ token'[m].parent = token[m].parent /\ token'[m].width = token[m].width
                            /\ token'[m].state = "none" <=> token[m].state = "none"
                            /\ token'[m].state = "live" => token[m].state = "live",
         browser'.cookie \in Issued \cup {0},
         \A g \in Handlers :
           /\ refresher'[g].new \in Issued \cup {0}
           /\ refresher'[g].step \in Handling => /\ refresher[g].step \in Handling
                                                 /\ refresher'[g].of = refresher[g].of
           /\ refresher'[g].step = "revoked" => \/ refresher[g].step = "revoked"
                                                \/ token'[refresher[g].of].state # "live"
  PROVE  RotationInv'
  <1>1. Issued' = Issued
    BY DEF Issued
  <1>2. IssuedInOrder' /\ OnlyIssued'
    BY <1>1 DEF RotationInv, IssuedInOrder, OnlyIssued
  <1>3. LiveIsUnused'
    BY DEF RotationInv, LiveIsUnused, Handling
  <1>4. HandsCounted'
    <2>. SUFFICES ASSUME NEW n \in Numbers
                  PROVE  Cardinality(Successors(n)') + Cardinality(InHand(n)') <= token'[n].width
      BY DEF HandsCounted
    <2>1. PICK w \in Nat : w = token[n].width /\ w = token'[n].width
      BY DEF SessionsTypeOK
    <2>2. Cardinality(Successors(n)) + Cardinality(InHand(n)) <= w
      BY <2>1 DEF RotationInv, HandsCounted
    <2>3. Successors(n)' = Successors(n)
      BY DEF Successors
    <2>4. InHand(n)' \subseteq InHand(n)
      BY DEF InHand, Handling
    <2>5. Cardinality(InHand(n)') <= Cardinality(InHand(n))
      BY <2>4, SessionsFinite, FS_Subset
    <2>. QED
      BY <2>1, <2>2, <2>3, <2>5, SessionsFinite, SessionsFiniteNext
  <1>. QED
    BY <1>2, <1>3, <1>4 DEF RotationInv

\* A token is issued, as the successor of one that a refresh had in hand or of none.
LEMMA TokenIssued ==
  ASSUME RotationInv, SessionsTypeOK, SessionsTypeOK', NEW p \in 0 .. MaxTokens, NEW n \in Numbers, n = NextToken,
         Issue(n, p), p \in Issued \cup {0}, p # 0 => token[p].state # "live",
         p # 0 => \E h \in Handlers : refresher[h].step \in Handling /\ refresher[h].of = p
                                      /\ refresher'[h].step \notin Handling,
         browser'.cookie \in Issued \cup {0, n},
         \A g \in Handlers :
           /\ refresher'[g].new \in Issued \cup {0, n}
           /\ refresher'[g].step \in Handling => /\ refresher'[g].step = refresher[g].step
                                                 /\ refresher'[g].of = refresher[g].of
  PROVE  RotationInv'
  <1>1. n \notin Issued /\ \E k \in 0 .. MaxTokens : Issued \cup {n} = 1 .. k
    BY NextIsNew DEF RotationInv
  <1>2. token \in [Numbers -> TokenRows]
    BY DEF SessionsTypeOK, TokenRows
  <1>3. /\ token'[n].state = "live" /\ token'[n].parent = p /\ token'[n].width = 0
        /\ \A m \in Numbers : m # n => token'[m] = token[m]
    BY <1>2 DEF Issue
  <1>4. Issued' = Issued \cup {n}
    BY <1>3 DEF Issued
  <1>5. IssuedInOrder'
    BY <1>1, <1>4 DEF IssuedInOrder
  <1>6. OnlyIssued'
    <2>1. \A m \in Numbers : token'[m].parent \in Issued \cup {0, n}
      BY <1>3 DEF RotationInv, OnlyIssued
    <2>2. \A g \in Handlers : refresher'[g].step \in Handling => refresher'[g].of \in Issued
      BY DEF RotationInv, OnlyIssued
    <2>. QED
      BY <1>4, <2>1, <2>2 DEF OnlyIssued
  <1>7. n # 0 /\ n # p
    BY <1>1, SessionsAssumption DEF Numbers, SessionsAssumption
  <1>8. /\ \A m \in Numbers : token'[m].parent # n
        /\ \A g \in Handlers : refresher'[g].step \in Handling => refresher'[g].of # n
    <2>1. \A m \in Numbers : token[m].parent # n
      BY <1>1, <1>7 DEF RotationInv, OnlyIssued
    <2>2. \A g \in Handlers : refresher[g].step \in Handling => refresher[g].of # n
      BY <1>1 DEF RotationInv, OnlyIssued
    <2>. QED
      BY <1>3, <1>7, <2>1, <2>2
  <1>9. LiveIsUnused'
    <2>. SUFFICES ASSUME NEW l \in Numbers, token'[l].state = "live"
                  PROVE  /\ \A m \in Numbers : token'[m].parent # l
                         /\ \A g \in Handlers : ~(refresher'[g].step = "revoked" /\ refresher'[g].of = l)
      BY DEF LiveIsUnused
    <2>1. CASE l = n
      BY <1>8, <2>1 DEF Handling
    <2>2. CASE l # n
      <3>1. token[l].state = "live" /\ l # p
        BY <1>3, <2>2, SessionsAssumption DEF Numbers, SessionsAssumption
      <3>2. /\ \A m \in Numbers : token[m].parent # l
            /\ \A g \in Handlers : ~(refresher[g].step = "revoked" /\ refresher[g].of = l)
        BY <3>1 DEF RotationInv, LiveIsUnused
      <3>. QED
        BY <1>3, <3>1, <3>2 DEF Handling
    <2>. QED
      BY <2>1, <2>2
  <1>10. HandsCounted'
    <2>. SUFFICES ASSUME NEW m \in Numbers
                  PROVE  Cardinality(Successors(m)') + Cardinality(InHand(m)') <= token'[m].width
      BY DEF HandsCounted
    <2>1. CASE m = n
      <3>1. Successors(m)' = {} /\ InHand(m)' = {}
        BY <1>8, <2>1 DEF Successors, InHand, Handling
      <3>. QED
        BY <1>3, <2>1, <3>1, FS_EmptySet
    <2>2. CASE m # n
      <3>1. PICK w \in Nat : w = token[m].width /\ w = token'[m].width
        BY <1>3, <2>2 DEF SessionsTypeOK
      <3>2. Cardinality(Successors(m)) + Cardinality(InHand(m)) <= w
        BY <3>1 DEF RotationInv, HandsCounted
      <3>3. InHand(m)' \subseteq InHand(m)
        BY DEF InHand, Handling
      <3>4. CASE m # p
        <4>1. Successors(m)' \subseteq Successors(m)
          BY <1>3, <3>4 DEF Successors
        <4>2. Cardinality(Successors(m)') <= Cardinality(Successors(m)) /\ Cardinality(InHand(m)') <= Cardinality(InHand(m))
          BY <3>3, <4>1, SessionsFinite, FS_Subset
        <4>. QED
          BY <3>1, <3>2, <4>2, SessionsFinite, SessionsFiniteNext
      <3>5. CASE m = p
        <4>1. p # 0
          BY <3>5 DEF Numbers
        <4>2. PICK h \in Handlers : refresher[h].step \in Handling /\ refresher[h].of = p /\ refresher'[h].step \notin Handling
          BY <4>1
        <4>3. h \in InHand(m) /\ InHand(m)' \subseteq InHand(m) \ {h}
          BY <3>3, <3>5, <4>2 DEF InHand, Handling
        <4>4. Cardinality(InHand(m) \ {h}) = Cardinality(InHand(m)) - 1 /\ IsFiniteSet(InHand(m) \ {h})
          BY <4>3, SessionsFinite, FS_RemoveElement
        <4>5. Cardinality(InHand(m)') <= Cardinality(InHand(m)) - 1
          BY <4>3, <4>4, FS_Subset
        <4>6. Successors(m)' \subseteq Successors(m) \cup {n}
          BY <1>3 DEF Successors
        <4>7. /\ IsFiniteSet(Successors(m) \cup {n})
              /\ Cardinality(Successors(m) \cup {n}) <= Cardinality(Successors(m)) + 1
          <5>1. PICK c \in Nat : c = Cardinality(Successors(m))
            BY SessionsFinite
          <5>2. /\ IsFiniteSet(Successors(m) \cup {n})
                /\ Cardinality(Successors(m) \cup {n}) = c \/ Cardinality(Successors(m) \cup {n}) = c + 1
            BY <5>1, SessionsFinite, FS_AddElement
          <5>3. c <= c + 1 /\ c + 1 <= c + 1
            OBVIOUS
          <5>. QED
            BY <5>1, <5>2, <5>3
        <4>8. Cardinality(Successors(m)') <= Cardinality(Successors(m) \cup {n})
          BY <4>6, <4>7, FS_Subset
        <4>9. Cardinality(Successors(m) \cup {n}) \in Nat
          BY <4>7, FS_CardinalityType
        <4>. QED
          BY <3>1, <3>2, <4>5, <4>7, <4>8, <4>9, SessionsFinite, SessionsFiniteNext
      <3>. QED
        BY <3>4, <3>5
    <2>. QED
      BY <2>1, <2>2
  <1>. QED
    BY <1>5, <1>6, <1>9, <1>10 DEF RotationInv

(***************************************************************************)
(* What the steps keep of the tabs.                                        *)
(***************************************************************************)
WaitsIn(q) == q.at \in {"queued", "waiting"}

\* No refresh begins or ends for a tab, and no request begins or ceases to wait.
LEMMA TabsLeft ==
  ASSUME OneRefresh, WaitsForRefresh, \A g \in Handlers : refresher'[g].for = refresher[g].for,
         \A t \in Tabs, r \in Requests : WaitsIn(request'[t][r]) <=> WaitsIn(request[t][r])
  PROVE  OneRefresh' /\ WaitsForRefresh'
  <1>1. OneRefresh'
    BY DEF OneRefresh
  <1>2. \A t \in Tabs : RefreshesFor(t)' = RefreshesFor(t)
    BY DEF RefreshesFor
  <1>3. WaitsForRefresh'
    BY <1>2 DEF WaitsForRefresh, WaitsIn
  <1>. QED
    BY <1>1, <1>3

\* A tab has no refresh and no waiting request any more.
LEMMA TabReleased ==
  ASSUME OneRefresh, WaitsForRefresh, NEW t \in Tabs,
         \A g \in Handlers : /\ refresher[g].for = t => refresher'[g].for = NoTab
                             /\ refresher[g].for # t => refresher'[g].for = refresher[g].for,
         \A u \in Tabs, r \in Requests : /\ u # t => request'[u][r] = request[u][r]
                                         /\ u = t => ~WaitsIn(request'[u][r])
  PROVE  OneRefresh' /\ WaitsForRefresh'
  <1>1. OneRefresh'
    BY DEF OneRefresh
  <1>2. NoTab # t /\ \A u \in Tabs : u # NoTab
    BY SessionsAssumption DEF SessionsAssumption
  <1>3. ASSUME NEW u \in Tabs
        PROVE  RefreshesFor(u)' # {} <=> \E r \in Requests : WaitsIn(request'[u][r])
    <2>1. CASE u = t
      <3>1. RefreshesFor(u)' = {}
        BY <1>2, <2>1 DEF RefreshesFor
      <3>. QED
        BY <2>1, <3>1
    <2>2. CASE u # t
      <3>1. RefreshesFor(u)' = RefreshesFor(u)
        BY <1>2, <2>2 DEF RefreshesFor
      <3>. QED
        BY <2>2, <3>1 DEF WaitsForRefresh, WaitsIn
    <2>. QED
      BY <2>1, <2>2
  <1>4. WaitsForRefresh'
    BY <1>3 DEF WaitsForRefresh, WaitsIn
  <1>. QED
    BY <1>1, <1>4

\* A request of the tab waits, for a refresh that is there or begins.
LEMMA TabWaits ==
  ASSUME OneRefresh, WaitsForRefresh, NEW t \in Tabs, NEW r \in Requests, NEW h \in Handlers,
         refresher'[h].for = t, \A g \in Handlers : g # h => refresher'[g].for = refresher[g].for,
         refresher[h].for = t \/ (RefreshesFor(t) = {} /\ refresher[h].for = NoTab),
         WaitsIn(request'[t][r]),
         \A u \in Tabs, q \in Requests : u # t => request'[u][q] = request[u][q]
  PROVE  OneRefresh' /\ WaitsForRefresh'
  <1>1. OneRefresh'
    BY DEF OneRefresh, RefreshesFor
  <1>2. NoTab # t /\ \A u \in Tabs : u # NoTab
    BY SessionsAssumption DEF SessionsAssumption
  <1>3. ASSUME NEW u \in Tabs
        PROVE  RefreshesFor(u)' # {} <=> \E q \in Requests : WaitsIn(request'[u][q])
    <2>1. CASE u = t
      <3>1. h \in RefreshesFor(u)'
        BY <2>1 DEF RefreshesFor
      <3>. QED
        BY <2>1, <3>1
    <2>2. CASE u # t
      <3>1. RefreshesFor(u)' = RefreshesFor(u)
        BY <1>2, <2>2 DEF RefreshesFor
      <3>. QED
        BY <2>2, <3>1 DEF WaitsForRefresh, WaitsIn
    <2>. QED
      BY <2>1, <2>2
  <1>4. WaitsForRefresh'
    BY <1>3 DEF WaitsForRefresh, WaitsIn
  <1>. QED
    BY <1>1, <1>4

(***************************************************************************)
(* The server.                                                             *)
(***************************************************************************)
LEMMA SessionRows ==
  ASSUME SessionsTypeOK
  PROVE  /\ token \in [Numbers -> TokenRows] /\ expired \subseteq Numbers
         /\ browser \in [cookie : 0 .. MaxTokens, stored : 0 .. MaxTokens]
         /\ tab \in [Tabs -> TabRows] /\ request \in [Tabs -> [Requests -> RequestRows]]
         /\ refresher \in [Handlers -> RefreshRows] /\ occasions \in 0 .. MaxOccasions
         /\ MaxTokens \in Nat /\ MaxOccasions \in Nat
  BY SessionsAssumption DEF SessionsAssumption, SessionsTypeOK, TokenRows, TabRows, RequestRows, RefreshRows, RefreshSteps

LEMMA SessionRowsNext ==
  ASSUME token' \in [Numbers -> TokenRows], expired' \subseteq Numbers,
         browser' \in [cookie : 0 .. MaxTokens, stored : 0 .. MaxTokens],
         tab' \in [Tabs -> TabRows], request' \in [Tabs -> [Requests -> RequestRows]],
         refresher' \in [Handlers -> RefreshRows], occasions' \in 0 .. MaxOccasions
  PROVE  SessionsTypeOK'
  BY DEF SessionsTypeOK, TokenRows, TabRows, RequestRows, RefreshRows, RefreshSteps

LEMMA OccasionCounted ==
  ASSUME SessionsTypeOK, Occasion
  PROVE  occasions' \in 0 .. MaxOccasions
  BY SessionRows DEF Occasion

LEMMA StepMoves ==
  ASSUME SessionsTypeOK, NEW h \in Handlers, NEW s \in RefreshSteps, RefreshStep(h, s)
  PROVE  /\ refresher' \in [Handlers -> RefreshRows]
         /\ \A g \in Handlers : /\ refresher'[g].of = refresher[g].of /\ refresher'[g].new = refresher[g].new
                                /\ refresher'[g].for = refresher[g].for
                                /\ refresher'[g].step = IF g = h THEN s ELSE refresher[g].step
  <1>1. PICK x \in RefreshRows : x = refresher[h]
    BY SessionRows
  <1>2. PICK y : y = [x EXCEPT !.step = s]
    OBVIOUS
  <1>3. y \in RefreshRows /\ y.step = s /\ y.of = x.of /\ y.new = x.new /\ y.for = x.for
    BY <1>2 DEF RefreshRows
  <1>4. refresher' = [refresher EXCEPT ![h] = y]
    BY <1>1, <1>2 DEF RefreshStep
  <1>. QED
    BY <1>1, <1>3, <1>4, SessionRows

\* The row of a token becomes another one.
LEMMA StateMoves ==
  ASSUME SessionsTypeOK, NEW n \in Numbers, NEW s \in {"revoked", "expired"}, token' = [token EXCEPT ![n].state = s]
  PROVE  /\ token' \in [Numbers -> TokenRows]
         /\ \A m \in Numbers : /\ token'[m].parent = token[m].parent /\ token'[m].width = token[m].width
                               /\ token'[m].state = IF m = n THEN s ELSE token[m].state
  <1>1. PICK x \in TokenRows : x = token[n]
    BY SessionRows
  <1>2. PICK y : y = [x EXCEPT !.state = s]
    OBVIOUS
  <1>3. y \in TokenRows /\ y.state = s /\ y.parent = x.parent /\ y.width = x.width
    BY <1>2 DEF TokenRows
  <1>4. token' = [token EXCEPT ![n] = y]
    BY <1>1, <1>2
  <1>. QED
    BY <1>1, <1>3, <1>4, SessionRows

LEMMA ExpiryKept ==
  ASSUME SessionsInv, NEW n \in Numbers, AccessExpires(n) \/ RefreshExpires(n)
  PROVE  SessionsInv'
  <1>1. SessionsTypeOK /\ RotationInv /\ OneRefresh /\ WaitsForRefresh
    BY DEF SessionsInv
  <1>2. UNCHANGED <<browser, tab, request, refresher>> /\ occasions' \in 0 .. MaxOccasions
    BY <1>1, OccasionCounted DEF AccessExpires, RefreshExpires
  <1>3. expired' \subseteq Numbers
    BY <1>1 DEF SessionsTypeOK, AccessExpires, RefreshExpires
  <1>4. /\ token' \in [Numbers -> TokenRows]
        /\ \A m \in Numbers : /\ token'[m].parent = token[m].parent /\ token'[m].width = token[m].width
                              /\ token'[m].state = "none" <=> token[m].state = "none"
                              /\ token'[m].state = "live" => token[m].state = "live"
    <2>1. CASE token' = token
      BY <1>1, <2>1, SessionRows
    <2>2. CASE token[n].state = "live" /\ token' = [token EXCEPT ![n].state = "expired"]
      <3>1. PICK s \in {"revoked", "expired"} : s = "expired"
        OBVIOUS
      <3>2. token' = [token EXCEPT ![n].state = s]
        BY <2>2, <3>1
      <3>. QED
        BY <1>1, <2>2, <3>1, <3>2, StateMoves
    <2>. QED
      BY <2>1, <2>2 DEF AccessExpires, RefreshExpires
  <1>5. SessionsTypeOK'
    BY <1>1, <1>2, <1>3, <1>4, SessionRows, SessionRowsNext
  <1>6. RotationInv'
    BY <1>1, <1>2, <1>4, <1>5, TokensSpent DEF RotationInv, OnlyIssued
  <1>7. OneRefresh' /\ WaitsForRefresh'
    BY <1>1, <1>2, TabsLeft
  <1>. QED
    BY <1>5, <1>6, <1>7 DEF SessionsInv

\* A refresh ends, or fails, at the server.
LEMMA StepKept ==
  ASSUME SessionsInv, NEW h \in Handlers, RefreshStep(h, "refused"),
         UNCHANGED <<token, expired, browser, tab, request, occasions>>
  PROVE  SessionsInv'
  <1>1. SessionsTypeOK /\ RotationInv /\ OneRefresh /\ WaitsForRefresh
    BY DEF SessionsInv
  <1>2. /\ refresher' \in [Handlers -> RefreshRows]
        /\ \A g \in Handlers : /\ refresher'[g].of = refresher[g].of /\ refresher'[g].new = refresher[g].new
                               /\ refresher'[g].for = refresher[g].for
                               /\ refresher'[g].step = IF g = h THEN "refused" ELSE refresher[g].step
    BY <1>1, StepMoves DEF RefreshSteps
  <1>3. SessionsTypeOK'
    BY <1>1, <1>2, SessionRows, SessionRowsNext
  <1>4. RotationInv'
    BY <1>1, <1>2, <1>3, TokensSpent DEF RotationInv, OnlyIssued, Handling
  <1>5. OneRefresh' /\ WaitsForRefresh'
    BY <1>1, <1>2, TabsLeft
  <1>. QED
    BY <1>3, <1>4, <1>5 DEF SessionsInv

LEMMA RevokeKept == ASSUME SessionsInv, NEW h \in Handlers, RevokeToken(h) PROVE SessionsInv'
  <1>1. SessionsTypeOK /\ RotationInv /\ OneRefresh /\ WaitsForRefresh
    BY DEF SessionsInv
  <1>2. /\ refresher[h].step = "found" /\ RefreshStep(h, "revoked")
        /\ UNCHANGED <<expired, browser, tab, request, occasions>>
    BY DEF RevokeToken
  <1>3. PICK n \in Numbers : n = refresher[h].of /\ n \in Issued
    BY <1>1, <1>2 DEF RotationInv, OnlyIssued, Handling, Issued
  <1>4. token' = [token EXCEPT ![n].state = "revoked"]
    BY <1>3 DEF RevokeToken
  <1>5. /\ token' \in [Numbers -> TokenRows]
        /\ \A m \in Numbers : /\ token'[m].parent = token[m].parent /\ token'[m].width = token[m].width
                              /\ token'[m].state = IF m = n THEN "revoked" ELSE token[m].state
    BY <1>1, <1>4, StateMoves
  <1>6. /\ refresher' \in [Handlers -> RefreshRows]
        /\ \A g \in Handlers : /\ refresher'[g].of = refresher[g].of /\ refresher'[g].new = refresher[g].new
                               /\ refresher'[g].for = refresher[g].for
                               /\ refresher'[g].step = IF g = h THEN "revoked" ELSE refresher[g].step
    BY <1>1, <1>2, StepMoves DEF RefreshSteps
  <1>7. SessionsTypeOK'
    BY <1>1, <1>2, <1>5, <1>6, SessionRows, SessionRowsNext
  <1>8. \A m \in Numbers : /\ token'[m].parent = token[m].parent /\ token'[m].width = token[m].width
                           /\ token'[m].state = "none" <=> token[m].state = "none"
                           /\ token'[m].state = "live" => token[m].state = "live"
    BY <1>3, <1>5 DEF Issued
  <1>9. \A g \in Handlers :
           /\ refresher'[g].new \in Issued \cup {0}
           /\ refresher'[g].step \in Handling => /\ refresher[g].step \in Handling
                                                 /\ refresher'[g].of = refresher[g].of
           /\ refresher'[g].step = "revoked" => \/ refresher[g].step = "revoked"
                                                \/ token'[refresher[g].of].state # "live"
    BY <1>1, <1>2, <1>3, <1>5, <1>6 DEF RotationInv, OnlyIssued, Handling
  <1>10. RotationInv'
    BY <1>1, <1>2, <1>7, <1>8, <1>9, TokensSpent DEF RotationInv, OnlyIssued
  <1>11. OneRefresh' /\ WaitsForRefresh'
    BY <1>1, <1>2, <1>6, TabsLeft
  <1>. QED
    BY <1>7, <1>10, <1>11 DEF SessionsInv

LEMMA FindKept == ASSUME SessionsInv, NEW h \in Handlers, FindToken(h) PROVE SessionsInv'
  <1>1. SessionsTypeOK /\ RotationInv /\ OneRefresh /\ WaitsForRefresh
    BY DEF SessionsInv
  <1>2. UNCHANGED <<expired, browser, tab, request, occasions>> /\ refresher[h].step = "sent"
    BY DEF FindToken
  <1>3. CASE RefreshStep(h, "refused") /\ UNCHANGED token
    BY <1>2, <1>3, StepKept
  <1>4. ASSUME NEW n \in Numbers, n = refresher[h].of, token[n].state = "live", Find(h, n) PROVE SessionsInv'
    <2>1. /\ refresher' \in [Handlers -> RefreshRows]
          /\ \A g \in Handlers : /\ refresher'[g].of = refresher[g].of /\ refresher'[g].new = refresher[g].new
                                 /\ refresher'[g].for = refresher[g].for
                                 /\ refresher'[g].step = IF g = h THEN "found" ELSE refresher[g].step
      BY <1>1, <1>4, StepMoves DEF RefreshSteps, Find
    <2>2. PICK x \in TokenRows : x = token[n]
      BY <1>1, SessionRows
    <2>3. PICK c \in Nat : c = Cardinality(InHand(n))
      BY SessionsFinite
    <2>4. PICK w : w = IF x.width < c + 1 THEN c + 1 ELSE x.width
      OBVIOUS
    <2>5. h \notin InHand(n) /\ h \in InHand(n)' /\ InHand(n)' = InHand(n) \cup {h}
      BY <1>2, <1>4, <2>1 DEF InHand
    <2>6. PICK d \in Nat : d = Cardinality(Handlers)
      BY SessionsAssumption, FS_CardinalityType DEF SessionsAssumption
    <2>7. c + 1 <= d
      <3>1. IsFiniteSet(InHand(n) \cup {h}) /\ Cardinality(InHand(n) \cup {h}) = c + 1
        BY <2>3, <2>5, SessionsFinite, FS_AddElement
      <3>2. InHand(n) \cup {h} \subseteq Handlers /\ IsFiniteSet(Handlers)
        BY SessionsAssumption DEF SessionsAssumption, InHand
      <3>. QED
        BY <2>6, <3>1, <3>2, FS_Subset
    <2>8. x.width \in 0 .. d /\ x.width \in Nat
      BY <2>6 DEF TokenRows
    <2>9. w \in 0 .. d /\ w \in Nat /\ w >= c + 1 /\ w >= x.width
      BY <2>4, <2>7, <2>8
    <2>10. PICK y : y = [x EXCEPT !.width = w]
      OBVIOUS
    <2>11. y \in TokenRows /\ y.state = x.state /\ y.parent = x.parent /\ y.width = w
      BY <2>6, <2>9, <2>10 DEF TokenRows
    <2>12. token' = [token EXCEPT ![n] = y]
      <3>1. token' = [token EXCEPT ![n].width = IF token[n].width < c + 1 THEN c + 1 ELSE token[n].width]
        BY <1>4, <2>3 DEF Find
      <3>. QED
        BY <2>2, <2>4, <2>10, <3>1
    <2>13. /\ token' \in [Numbers -> TokenRows] /\ token'[n].width = w
           /\ \A m \in Numbers : /\ token'[m].parent = token[m].parent /\ token'[m].state = token[m].state
                                 /\ m # n => token'[m].width = token[m].width
      BY <1>1, <2>2, <2>11, <2>12, SessionRows
    <2>14. SessionsTypeOK'
      BY <1>1, <1>2, <2>1, <2>13, SessionRows, SessionRowsNext
    <2>15. Issued' = Issued
      BY <2>13 DEF Issued
    <2>16. n \in Issued
      BY <1>4 DEF Issued
    <2>17. IssuedInOrder' /\ OnlyIssued'
      BY <1>1, <1>2, <1>4, <2>1, <2>13, <2>15, <2>16 DEF RotationInv, IssuedInOrder, OnlyIssued, Handling
    <2>18. LiveIsUnused'
      BY <1>1, <2>1, <2>13 DEF RotationInv, LiveIsUnused
    <2>19. HandsCounted'
      <3>. SUFFICES ASSUME NEW m \in Numbers
                    PROVE  Cardinality(Successors(m)') + Cardinality(InHand(m)') <= token'[m].width
        BY DEF HandsCounted
      <3>1. Successors(m)' = Successors(m)
        BY <2>13 DEF Successors
      <3>2. CASE m = n
        <4>1. Successors(m) = {}
          BY <1>1, <1>4, <3>2 DEF RotationInv, LiveIsUnused, Successors
        <4>2. Cardinality(InHand(m)') = c + 1
          BY <2>3, <2>5, <3>2, SessionsFinite, FS_AddElement
        <4>. QED
          BY <2>9, <2>13, <3>1, <3>2, <4>1, <4>2, FS_EmptySet
      <3>3. CASE m # n
        <4>1. InHand(m)' = InHand(m)
          BY <1>2, <1>4, <2>1, <3>3 DEF InHand
        <4>2. Cardinality(Successors(m)) + Cardinality(InHand(m)) <= token[m].width
          BY <1>1 DEF RotationInv, HandsCounted
        <4>. QED
          BY <2>13, <3>1, <3>3, <4>1, <4>2
      <3>. QED
        BY <3>2, <3>3
    <2>20. OneRefresh' /\ WaitsForRefresh'
      BY <1>1, <1>2, <2>1, TabsLeft
    <2>. QED
      BY <2>14, <2>17, <2>18, <2>19, <2>20 DEF SessionsInv, RotationInv
  <1>5. refresher[h].of \in 0 .. MaxTokens /\ (refresher[h].of # 0 => refresher[h].of \in Numbers)
    BY <1>1, SessionRows DEF RefreshRows, Numbers
  <1>. QED
    BY <1>3, <1>4, <1>5 DEF FindToken

\* What every issue of a token needs.
LEMMA IssueTyped ==
  ASSUME SessionsTypeOK, NEW n \in Numbers, NEW p \in 0 .. MaxTokens, Issue(n, p)
  PROVE  token' \in [Numbers -> TokenRows] /\ n \in 0 .. MaxTokens
  <1>1. 0 \in 0 .. Cardinality(Handlers)
    <2>1. Cardinality(Handlers) \in Nat
      BY SessionsAssumption, FS_CardinalityType DEF SessionsAssumption
    <2>. QED
      BY <2>1
  <1>2. PICK y : y = [state |-> "live", parent |-> p, width |-> 0]
    OBVIOUS
  <1>3. y \in TokenRows
    BY <1>1, <1>2 DEF TokenRows
  <1>. QED
    BY <1>2, <1>3, SessionRows DEF Issue, Numbers

LEMMA RotateKept == ASSUME SessionsInv, NEW h \in Handlers, RotateToken(h) PROVE SessionsInv'
  <1>1. SessionsTypeOK /\ RotationInv /\ OneRefresh /\ WaitsForRefresh
    BY DEF SessionsInv
  <1>2. UNCHANGED <<expired, browser, tab, request, occasions>> /\ refresher[h].step = "revoked"
    BY DEF RotateToken
  <1>3. CASE RefreshStep(h, "refused") /\ UNCHANGED token
    BY <1>2, <1>3, StepKept
  <1>4. ASSUME NEW n \in Numbers, n = NextToken, Issue(n, refresher[h].of),
               refresher' = [refresher EXCEPT ![h] = [@ EXCEPT !.step = "granted", !.new = n]]
        PROVE  SessionsInv'
    <2>1. PICK x \in RefreshRows : x = refresher[h]
      BY <1>1, SessionRows
    <2>2. PICK p \in 0 .. MaxTokens : p = x.of
      BY DEF RefreshRows
    <2>3. PICK y : y = [x EXCEPT !.step = "granted", !.new = n]
      OBVIOUS
    <2>4. token' \in [Numbers -> TokenRows] /\ n \in 0 .. MaxTokens
      BY <1>1, <1>4, <2>1, <2>2, IssueTyped
    <2>5. y \in RefreshRows /\ y.step = "granted" /\ y.new = n /\ y.of = x.of /\ y.for = x.for
      BY <2>3, <2>4 DEF RefreshRows, RefreshSteps
    <2>6. refresher' = [refresher EXCEPT ![h] = y]
      BY <1>4, <2>1, <2>3
    <2>7. /\ refresher' \in [Handlers -> RefreshRows]
          /\ refresher'[h].step = "granted" /\ refresher'[h].new = n
          /\ \A g \in Handlers : /\ refresher'[g].of = refresher[g].of /\ refresher'[g].for = refresher[g].for
                                 /\ g # h => refresher'[g] = refresher[g]
      BY <1>1, <2>1, <2>5, <2>6, SessionRows
    <2>8. SessionsTypeOK'
      BY <1>1, <1>2, <2>4, <2>7, SessionRows, SessionRowsNext
    <2>9. p \in Issued /\ p # 0 /\ refresher[h].of = p
      BY <1>1, <1>2, <2>1, <2>2 DEF RotationInv, OnlyIssued, Handling, Issued, Numbers
    <2>10. token[p].state # "live"
      BY <1>1, <1>2, <2>9 DEF RotationInv, LiveIsUnused, Issued
    <2>11. /\ refresher[h].step \in Handling /\ refresher[h].of = p /\ refresher'[h].step \notin Handling
           /\ browser'.cookie \in Issued \cup {0, n}
      BY <1>1, <1>2, <2>7, <2>9 DEF Handling, RotationInv, OnlyIssued
    <2>12. \A g \in Handlers :
             /\ refresher'[g].new \in Issued \cup {0, n}
             /\ refresher'[g].step \in Handling => /\ refresher'[g].step = refresher[g].step
                                                   /\ refresher'[g].of = refresher[g].of
      BY <1>1, <2>7 DEF Handling, RotationInv, OnlyIssued
    <2>13. Issue(n, p)
      BY <1>4, <2>9
    <2>14. RotationInv'
      BY <1>1, <1>4, <2>8, <2>9, <2>10, <2>11, <2>12, <2>13, TokenIssued
    <2>15. OneRefresh' /\ WaitsForRefresh'
      BY <1>1, <1>2, <2>7, TabsLeft
    <2>. QED
      BY <2>8, <2>14, <2>15 DEF SessionsInv
  <1>. QED
    BY <1>3, <1>4 DEF RotateToken

LEMMA NoRefreshTyped ==
  /\ NoRefresh \in RefreshRows /\ NoRefresh.step = "no" /\ NoRefresh.new = 0 /\ NoRefresh.for = NoTab
  /\ Resting \in RequestRows /\ ~WaitsIn(Resting) /\ 0 \in 0 .. MaxTokens
  <1>1. 0 \in 0 .. MaxTokens
    <2>1. MaxTokens \in Nat
      BY SessionsAssumption DEF SessionsAssumption
    <2>. QED
      BY <2>1
  <1>. QED
    BY <1>1 DEF NoRefresh, RefreshRows, RefreshSteps, Resting, RequestRows, WaitsIn

\* A refresh is forgotten, and what waited for it is settled.
LEMMA RefreshOver ==
  ASSUME SessionsInv, NEW h \in Handlers, refresher[h].step \notin Handling,
         refresher' = [refresher EXCEPT ![h] = NoRefresh], token' = token, browser'.cookie \in Issued \cup {0},
         SessionsTypeOK'
  PROVE  /\ RotationInv'
         /\ \A g \in Handlers : refresher'[g].for = IF g = h THEN NoTab ELSE refresher[g].for
  <1>1. SessionsTypeOK /\ RotationInv
    BY DEF SessionsInv
  <1>2. \A g \in Handlers : refresher'[g] = IF g = h THEN NoRefresh ELSE refresher[g]
    BY <1>1, SessionRows
  <1>3. \A g \in Handlers :
           /\ refresher'[g].new \in Issued \cup {0}
           /\ refresher'[g].step \in Handling => /\ refresher[g].step \in Handling
                                                 /\ refresher'[g].of = refresher[g].of
           /\ refresher'[g].step = "revoked" => refresher[g].step = "revoked"
    BY <1>1, <1>2, NoRefreshTyped DEF RotationInv, OnlyIssued, Handling
  <1>4. RotationInv'
    BY <1>1, <1>3, TokensSpent
  <1>. QED
    BY <1>2, <1>4, NoRefreshTyped

LEMMA UnreadKept == ASSUME SessionsInv, NEW h \in Handlers, Unread(h) PROVE SessionsInv'
  <1>1. SessionsTypeOK /\ RotationInv /\ OneRefresh /\ WaitsForRefresh
    BY DEF SessionsInv
  <1>2. /\ UNCHANGED <<token, expired, browser, tab, request, occasions>> /\ refresher[h].for = NoTab
        /\ refresher[h].step \notin Handling /\ refresher' = [refresher EXCEPT ![h] = NoRefresh]
    BY DEF Unread, Handling
  <1>3. SessionsTypeOK'
    BY <1>1, <1>2, NoRefreshTyped, SessionRows, SessionRowsNext
  <1>4. browser'.cookie \in Issued \cup {0}
    BY <1>1, <1>2 DEF RotationInv, OnlyIssued
  <1>5. RotationInv' /\ \A g \in Handlers : refresher'[g].for = refresher[g].for
    BY <1>2, <1>3, <1>4, RefreshOver
  <1>6. OneRefresh' /\ WaitsForRefresh'
    BY <1>1, <1>2, <1>5, TabsLeft
  <1>. QED
    BY <1>3, <1>5, <1>6 DEF SessionsInv

(***************************************************************************)
(* The tabs.                                                               *)
(***************************************************************************)
LEMMA RequestSet ==
  ASSUME SessionsTypeOK, NEW t \in Tabs, NEW r \in Requests, NEW v \in RequestRows, SetRequest(t, r, v)
  PROVE  /\ request' \in [Tabs -> [Requests -> RequestRows]] /\ request'[t][r] = v
         /\ \A u \in Tabs, q \in Requests : (u # t \/ q # r) => request'[u][q] = request[u][q]
  <1>1. PICK row \in [Requests -> RequestRows] : row = request[t]
    BY SessionRows
  <1>2. PICK new : new = [row EXCEPT ![r] = v]
    OBVIOUS
  <1>3. new \in [Requests -> RequestRows] /\ new[r] = v /\ \A q \in Requests : q # r => new[q] = row[q]
    BY <1>2
  <1>4. request' = [request EXCEPT ![t] = new]
    BY <1>1, <1>2 DEF SetRequest
  <1>5. request \in [Tabs -> [Requests -> RequestRows]]
    BY SessionRows
  <1>6. request'[t] = new /\ \A u \in Tabs : u # t => request'[u] = request[u]
    BY <1>4, <1>5
  <1>7. request' \in [Tabs -> [Requests -> RequestRows]]
    BY <1>3, <1>4, <1>5
  <1>. QED
    BY <1>1, <1>3, <1>6, <1>7

\* All requests of a tab become others.
LEMMA RequestsSet ==
  ASSUME SessionsTypeOK, NEW t \in Tabs, NEW new \in [Requests -> RequestRows], request' = [request EXCEPT ![t] = new]
  PROVE  /\ request' \in [Tabs -> [Requests -> RequestRows]]
         /\ \A q \in Requests : request'[t][q] = new[q]
         /\ \A u \in Tabs, q \in Requests : u # t => request'[u][q] = request[u][q]
  <1>1. request \in [Tabs -> [Requests -> RequestRows]]
    BY SessionRows
  <1>2. request'[t] = new /\ \A u \in Tabs : u # t => request'[u] = request[u]
    BY <1>1
  <1>3. request' \in [Tabs -> [Requests -> RequestRows]]
    BY <1>1
  <1>. QED
    BY <1>2, <1>3

LEMMA TabSet ==
  ASSUME SessionsTypeOK, NEW t \in Tabs,
         \/ tab' = SignOut(t)
         \/ LoginPage(t)
         \/ \E m \in 0 .. MaxTokens : tab' = [tab EXCEPT ![t].memory = m]
         \/ tab' = [tab EXCEPT ![t].user = "loading"]
         \/ tab' = [tab EXCEPT ![t] = [@ EXCEPT !.user = "in", !.page = "app"]]
         \/ tab' = [tab EXCEPT ![t] = [page |-> "app", user |-> "loading", memory |-> 0]]
  PROVE  tab' \in [Tabs -> TabRows]
  <1>1. PICK x \in TabRows : x = tab[t]
    BY SessionRows
  <1>2. ASSUME NEW y \in TabRows, tab' = [tab EXCEPT ![t] = y] PROVE tab' \in [Tabs -> TabRows]
    BY <1>2, SessionRows
  <1>3. CASE tab' = SignOut(t)
    <2>1. PICK y : y = [x EXCEPT !.page = "login", !.user = "out"]
      OBVIOUS
    <2>2. y \in TabRows /\ tab' = [tab EXCEPT ![t] = y]
      BY <1>1, <1>3, <2>1 DEF SignOut, TabRows
    <2>. QED
      BY <1>2, <2>2
  <1>4. CASE LoginPage(t)
    <2>1. PICK y : y = [page |-> "login", user |-> "out", memory |-> 0]
      OBVIOUS
    <2>2. y \in TabRows /\ tab' = [tab EXCEPT ![t] = y]
      BY <1>4, <2>1, NoRefreshTyped DEF LoginPage, TabRows
    <2>. QED
      BY <1>2, <2>2
  <1>5. ASSUME NEW m \in 0 .. MaxTokens, tab' = [tab EXCEPT ![t].memory = m] PROVE tab' \in [Tabs -> TabRows]
    <2>1. PICK y : y = [x EXCEPT !.memory = m]
      OBVIOUS
    <2>2. y \in TabRows /\ tab' = [tab EXCEPT ![t] = y]
      BY <1>1, <1>5, <2>1 DEF TabRows
    <2>. QED
      BY <1>2, <2>2
  <1>6. CASE tab' = [tab EXCEPT ![t].user = "loading"]
    <2>1. PICK y : y = [x EXCEPT !.user = "loading"]
      OBVIOUS
    <2>2. y \in TabRows /\ tab' = [tab EXCEPT ![t] = y]
      BY <1>1, <1>6, <2>1 DEF TabRows
    <2>. QED
      BY <1>2, <2>2
  <1>7. CASE tab' = [tab EXCEPT ![t] = [@ EXCEPT !.user = "in", !.page = "app"]]
    <2>1. PICK y : y = [x EXCEPT !.user = "in", !.page = "app"]
      OBVIOUS
    <2>2. y \in TabRows /\ tab' = [tab EXCEPT ![t] = y]
      BY <1>1, <1>7, <2>1 DEF TabRows
    <2>. QED
      BY <1>2, <2>2
  <1>8. CASE tab' = [tab EXCEPT ![t] = [page |-> "app", user |-> "loading", memory |-> 0]]
    <2>1. PICK y : y = [page |-> "app", user |-> "loading", memory |-> 0]
      OBVIOUS
    <2>2. y \in TabRows /\ tab' = [tab EXCEPT ![t] = y]
      BY <1>8, <2>1, NoRefreshTyped DEF TabRows
    <2>. QED
      BY <1>2, <2>2
  <1>. QED
    BY <1>3, <1>4, <1>5, <1>6, <1>7, <1>8

\* The tokens and the refreshes are left alone.
LEMMA RotationLeft ==
  ASSUME SessionsInv, SessionsTypeOK', UNCHANGED <<token, refresher>>, browser'.cookie \in {0, browser.cookie}
  PROVE  RotationInv'
  BY TokensSpent DEF SessionsInv, RotationInv, OnlyIssued

\* A request is sent, or answered.
LEMMA SendKept ==
  ASSUME SessionsInv, NEW t \in Tabs, NEW r \in Requests, Send(t, r) \/ Succeeds(t, r) \/ RefusedAgain(t, r)
  PROVE  SessionsInv'
  <1>1. SessionsTypeOK /\ RotationInv /\ OneRefresh /\ WaitsForRefresh
    BY DEF SessionsInv
  <1>2. UNCHANGED <<token, expired, refresher, occasions>> /\ ~WaitsIn(request[t][r])
    BY NoRefreshTyped DEF Send, Succeeds, RefusedAgain, WaitsIn
  <1>3. PICK v \in RequestRows : SetRequest(t, r, v) /\ ~WaitsIn(v)
    <2>1. CASE Send(t, r)
      <3>1. PICK x \in TabRows : x = tab[t]
        BY <1>1, SessionRows
      <3>2. Bearer(tab[t].memory) \in 0 .. MaxTokens
        BY <1>1, <3>1, SessionRows DEF Bearer, TabRows
      <3>3. PICK w \in 0 .. MaxTokens : w = Bearer(tab[t].memory)
        BY <3>2
      <3>4. [at |-> "sent", with |-> w, retry |-> FALSE] \in RequestRows
        BY DEF RequestRows
      <3>. QED
        BY <2>1, <3>3, <3>4 DEF Send, WaitsIn
    <2>2. CASE Succeeds(t, r) \/ RefusedAgain(t, r)
      BY <2>2, NoRefreshTyped DEF Succeeds, RefusedAgain
    <2>. QED
      BY <2>1, <2>2
  <1>4. /\ request' \in [Tabs -> [Requests -> RequestRows]] /\ request'[t][r] = v
        /\ \A u \in Tabs, q \in Requests : (u # t \/ q # r) => request'[u][q] = request[u][q]
    BY <1>1, <1>3, RequestSet
  <1>5. tab' \in [Tabs -> TabRows]
    <2>1. CASE tab' = tab
      BY <1>1, <2>1, SessionRows
    <2>2. CASE tab' = SignOut(t) \/ tab' = [tab EXCEPT ![t] = [@ EXCEPT !.user = "in", !.page = "app"]]
      BY <1>1, <2>2, TabSet
    <2>. QED
      BY <2>1, <2>2 DEF Send, Succeeds, RefusedAgain
  <1>6. browser' \in [cookie : 0 .. MaxTokens, stored : 0 .. MaxTokens] /\ browser'.cookie = browser.cookie
    <2>1. browser \in [cookie : 0 .. MaxTokens, stored : 0 .. MaxTokens]
      BY <1>1, SessionRows
    <2>2. browser' = browser \/ browser' = [browser EXCEPT !.stored = 0]
      BY DEF Send, Succeeds, RefusedAgain
    <2>. QED
      BY <2>1, <2>2, NoRefreshTyped
  <1>7. SessionsTypeOK'
    BY <1>1, <1>2, <1>4, <1>5, <1>6, SessionRows, SessionRowsNext
  <1>8. RotationInv'
    BY <1>2, <1>6, <1>7, RotationLeft
  <1>9. \A u \in Tabs, q \in Requests : WaitsIn(request'[u][q]) <=> WaitsIn(request[u][q])
    BY <1>2, <1>3, <1>4
  <1>10. OneRefresh' /\ WaitsForRefresh'
    BY <1>1, <1>2, <1>9, TabsLeft
  <1>. QED
    BY <1>7, <1>8, <1>10 DEF SessionsInv

\* A refused request waits, for a refresh under way or for its own.
LEMMA RefusedKept == ASSUME SessionsInv, NEW t \in Tabs, NEW r \in Requests, Refused(t, r) PROVE SessionsInv'
  <1>1. SessionsTypeOK /\ RotationInv /\ OneRefresh /\ WaitsForRefresh
    BY DEF SessionsInv
  <1>2. UNCHANGED <<token, expired, browser, tab, occasions>>
    BY DEF Refused
  <1>3. PICK x \in RequestRows : x = request[t][r]
    BY <1>1, SessionRows
  <1>4. NoTab \notin Tabs
    BY SessionsAssumption DEF SessionsAssumption
  <1>5. CASE RefreshesFor(t) # {} /\ SetRequest(t, r, [x EXCEPT !.at = "queued"]) /\ UNCHANGED refresher
    <2>1. PICK v : v = [x EXCEPT !.at = "queued"]
      OBVIOUS
    <2>2. v \in RequestRows /\ WaitsIn(v)
      BY <2>1 DEF RequestRows, WaitsIn
    <2>3. SetRequest(t, r, v)
      BY <1>5, <2>1
    <2>4. /\ request' \in [Tabs -> [Requests -> RequestRows]] /\ request'[t][r] = v
          /\ \A u \in Tabs, q \in Requests : (u # t \/ q # r) => request'[u][q] = request[u][q]
      BY <1>1, <2>2, <2>3, RequestSet
    <2>5. SessionsTypeOK'
      BY <1>1, <1>2, <1>5, <2>4, SessionRows, SessionRowsNext
    <2>6. RotationInv'
      BY <1>2, <1>5, <2>5, RotationLeft
    <2>7. PICK h \in Handlers : refresher[h].for = t
      BY <1>5 DEF RefreshesFor
    <2>8. OneRefresh' /\ WaitsForRefresh'
      BY <1>1, <1>5, <2>2, <2>4, <2>7, TabWaits
    <2>. QED
      BY <2>5, <2>6, <2>8 DEF SessionsInv
  <1>6. ASSUME RefreshesFor(t) = {}, SetRequest(t, r, [x EXCEPT !.at = "waiting", !.retry = TRUE]),
               NEW h \in Handlers, refresher[h] = NoRefresh,
               refresher' = [refresher EXCEPT ![h] = [NoRefresh EXCEPT !.step = "sent", !.of = browser.cookie, !.for = t]]
        PROVE  SessionsInv'
    <2>1. PICK v : v = [x EXCEPT !.at = "waiting", !.retry = TRUE]
      OBVIOUS
    <2>2. v \in RequestRows /\ WaitsIn(v)
      BY <2>1 DEF RequestRows, WaitsIn
    <2>3. SetRequest(t, r, v)
      BY <1>6, <2>1
    <2>4. /\ request' \in [Tabs -> [Requests -> RequestRows]] /\ request'[t][r] = v
          /\ \A u \in Tabs, q \in Requests : (u # t \/ q # r) => request'[u][q] = request[u][q]
      BY <1>1, <2>2, <2>3, RequestSet
    <2>5. PICK y : y = [NoRefresh EXCEPT !.step = "sent", !.of = browser.cookie, !.for = t]
      OBVIOUS
    <2>6. browser.cookie \in 0 .. MaxTokens
      BY <1>1, SessionRows
    <2>7. y \in RefreshRows /\ y.step = "sent" /\ y.new = 0 /\ y.for = t
      BY <2>5, <2>6, NoRefreshTyped DEF RefreshRows, RefreshSteps, NoRefresh
    <2>8. refresher' \in [Handlers -> RefreshRows] /\ refresher'[h] = y /\ \A g \in Handlers : g # h => refresher'[g] = refresher[g]
      BY <1>1, <1>6, <2>5, <2>7, SessionRows
    <2>9. SessionsTypeOK'
      BY <1>1, <1>2, <2>4, <2>8, SessionRows, SessionRowsNext
    <2>10. \A g \in Handlers :
             /\ refresher'[g].new \in Issued \cup {0}
             /\ refresher'[g].step \in Handling => /\ refresher[g].step \in Handling
                                                   /\ refresher'[g].of = refresher[g].of
             /\ refresher'[g].step = "revoked" => refresher[g].step = "revoked"
      BY <1>1, <2>7, <2>8 DEF RotationInv, OnlyIssued, Handling
    <2>11. RotationInv'
      BY <1>1, <1>2, <2>9, <2>10, TokensSpent DEF RotationInv, OnlyIssued
    <2>12. refresher[h].for = NoTab
      BY <1>6, NoRefreshTyped
    <2>13. OneRefresh' /\ WaitsForRefresh'
      BY <1>1, <1>6, <2>2, <2>4, <2>7, <2>8, <2>12, TabWaits
    <2>. QED
      BY <2>9, <2>11, <2>13 DEF SessionsInv
  <1>. QED
    BY <1>3, <1>5, <1>6 DEF Refused

\* A refresh ends for its tab, which has waited for it alone.
LEMMA EndsForTab ==
  ASSUME SessionsInv, NEW t \in Tabs, NEW h \in Handlers, refresher[h].for = t,
         \A g \in Handlers : refresher'[g].for = IF g = h THEN NoTab ELSE refresher[g].for
  PROVE  \A g \in Handlers : /\ refresher[g].for = t => refresher'[g].for = NoTab
                             /\ refresher[g].for # t => refresher'[g].for = refresher[g].for
  BY SessionsAssumption DEF SessionsAssumption, SessionsInv, OneRefresh

LEMMA RefreshedKept == ASSUME SessionsInv, NEW t \in Tabs, NEW h \in Handlers, Refreshed(t, h) PROVE SessionsInv'
  <1>1. SessionsTypeOK /\ RotationInv /\ OneRefresh /\ WaitsForRefresh
    BY DEF SessionsInv
  <1>2. PICK n \in 0 .. MaxTokens : n = refresher[h].new /\ n \in Issued \cup {0}
    BY <1>1, SessionRows DEF RefreshRows, RotationInv, OnlyIssued
  <1>3. /\ UNCHANGED <<token, expired, occasions>> /\ refresher[h].for = t /\ refresher[h].step \notin Handling
        /\ refresher' = [refresher EXCEPT ![h] = NoRefresh]
        /\ browser' = [cookie |-> n, stored |-> n] /\ tab' = [tab EXCEPT ![t].memory = n]
    BY <1>2 DEF Refreshed, Handling
  <1>4. PICK row \in [Requests -> RequestRows] : row = request[t]
    BY <1>1, SessionRows
  <1>5. PICK new : new = [r \in Requests |-> IF row[r].at \in {"queued", "waiting"}
                                              THEN [row[r] EXCEPT !.at = "sent", !.with = n] ELSE row[r]]
    OBVIOUS
  <1>6. request' = [request EXCEPT ![t] = new]
    BY <1>2, <1>4, <1>5 DEF Refreshed
  <1>7. new \in [Requests -> RequestRows] /\ \A r \in Requests : ~WaitsIn(new[r])
    <2>1. ASSUME NEW r \in Requests PROVE new[r] \in RequestRows /\ ~WaitsIn(new[r])
      <3>1. PICK x \in RequestRows : x = row[r]
        OBVIOUS
      <3>2. CASE x.at \in {"queued", "waiting"}
        <4>1. new[r] = [x EXCEPT !.at = "sent", !.with = n]
          BY <1>5, <3>1, <3>2
        <4>. QED
          BY <4>1 DEF RequestRows, WaitsIn
      <3>3. CASE x.at \notin {"queued", "waiting"}
        BY <1>5, <3>1, <3>3 DEF WaitsIn
      <3>. QED
        BY <3>2, <3>3
    <2>. QED
      BY <1>5, <2>1
  <1>8. /\ request' \in [Tabs -> [Requests -> RequestRows]]
        /\ \A q \in Requests : request'[t][q] = new[q]
        /\ \A u \in Tabs, q \in Requests : u # t => request'[u][q] = request[u][q]
    BY <1>1, <1>6, <1>7, RequestsSet
  <1>9. tab' \in [Tabs -> TabRows]
    BY <1>1, <1>3, TabSet
  <1>10. SessionsTypeOK'
    BY <1>1, <1>3, <1>8, <1>9, NoRefreshTyped, SessionRows, SessionRowsNext
  <1>11. RotationInv' /\ \A g \in Handlers : refresher'[g].for = IF g = h THEN NoTab ELSE refresher[g].for
    BY <1>2, <1>3, <1>10, RefreshOver
  <1>12. OneRefresh' /\ WaitsForRefresh'
    <2>1. \A g \in Handlers : /\ refresher[g].for = t => refresher'[g].for = NoTab
                              /\ refresher[g].for # t => refresher'[g].for = refresher[g].for
      BY <1>3, <1>11, EndsForTab
    <2>2. \A u \in Tabs, r \in Requests : /\ u # t => request'[u][r] = request[u][r]
                                          /\ u = t => ~WaitsIn(request'[u][r])
      BY <1>7, <1>8
    <2>. QED
      BY <1>1, <2>1, <2>2, TabReleased
  <1>. QED
    BY <1>10, <1>11, <1>12 DEF SessionsInv

LEMMA RestingRequests == [r \in Requests |-> Resting] \in [Requests -> RequestRows]
  BY NoRefreshTyped

LEMMA FailsKept == ASSUME SessionsInv, NEW t \in Tabs, NEW h \in Handlers, RefreshFails(t, h) PROVE SessionsInv'
  <1>1. SessionsTypeOK /\ RotationInv /\ OneRefresh /\ WaitsForRefresh
    BY DEF SessionsInv
  <1>2. /\ UNCHANGED <<token, expired, occasions>> /\ refresher[h].for = t /\ refresher[h].step \notin Handling
        /\ refresher' = [refresher EXCEPT ![h] = NoRefresh]
        /\ browser' = [browser EXCEPT !.stored = 0] /\ LoginPage(t)
    BY DEF RefreshFails, Handling
  <1>3. PICK new \in [Requests -> RequestRows] : new = [r \in Requests |-> Resting]
    BY RestingRequests
  <1>4. request' = [request EXCEPT ![t] = new]
    BY <1>3 DEF RefreshFails, Reset
  <1>5. /\ request' \in [Tabs -> [Requests -> RequestRows]]
        /\ \A q \in Requests : request'[t][q] = new[q]
        /\ \A u \in Tabs, q \in Requests : u # t => request'[u][q] = request[u][q]
    BY <1>1, <1>3, <1>4, RequestsSet
  <1>6. tab' \in [Tabs -> TabRows]
    BY <1>1, <1>2, TabSet
  <1>7. browser' \in [cookie : 0 .. MaxTokens, stored : 0 .. MaxTokens] /\ browser'.cookie = browser.cookie
    BY <1>1, <1>2, NoRefreshTyped, SessionRows
  <1>8. SessionsTypeOK'
    BY <1>1, <1>2, <1>5, <1>6, <1>7, NoRefreshTyped, SessionRows, SessionRowsNext
  <1>9. RotationInv' /\ \A g \in Handlers : refresher'[g].for = IF g = h THEN NoTab ELSE refresher[g].for
    BY <1>1, <1>2, <1>7, <1>8, RefreshOver DEF RotationInv, OnlyIssued
  <1>10. OneRefresh' /\ WaitsForRefresh'
    <2>1. \A g \in Handlers : /\ refresher[g].for = t => refresher'[g].for = NoTab
                              /\ refresher[g].for # t => refresher'[g].for = refresher[g].for
      BY <1>2, <1>9, EndsForTab
    <2>2. \A u \in Tabs, r \in Requests : /\ u # t => request'[u][r] = request[u][r]
                                          /\ u = t => ~WaitsIn(request'[u][r])
      BY <1>3, <1>5, NoRefreshTyped
    <2>. QED
      BY <1>1, <2>1, <2>2, TabReleased
  <1>. QED
    BY <1>8, <1>9, <1>10 DEF SessionsInv

LEMMA LoadPageKept == ASSUME SessionsInv, NEW t \in Tabs, LoadPage(t) PROVE SessionsInv'
  <1>1. SessionsTypeOK /\ RotationInv /\ OneRefresh /\ WaitsForRefresh
    BY DEF SessionsInv
  <1>2. UNCHANGED <<token, expired, browser>> /\ occasions' \in 0 .. MaxOccasions
    BY <1>1, OccasionCounted DEF LoadPage
  <1>3. PICK new \in [Requests -> RequestRows] :
          request' = [request EXCEPT ![t] = new] /\ \A r \in Requests : ~WaitsIn(new[r])
    <2>1. CASE Reset(t)
      <3>1. PICK new \in [Requests -> RequestRows] : new = [r \in Requests |-> Resting]
        BY RestingRequests
      <3>2. request' = [request EXCEPT ![t] = new] /\ \A r \in Requests : new[r] = Resting
        BY <2>1, <3>1 DEF Reset
      <3>. QED
        BY <3>2, NoRefreshTyped
    <2>2. CASE request' = [request EXCEPT ![t] =
                 [r \in Requests |-> IF r = Me THEN [Resting EXCEPT !.at = "sent", !.with = browser.stored] ELSE Resting]]
      <3>1. PICK v : v = [Resting EXCEPT !.at = "sent", !.with = browser.stored]
        OBVIOUS
      <3>2. browser.stored \in 0 .. MaxTokens
        BY <1>1, SessionRows
      <3>3. v \in RequestRows /\ ~WaitsIn(v)
        BY <3>1, <3>2 DEF RequestRows, Resting, WaitsIn
      <3>4. PICK new : new = [r \in Requests |-> IF r = Me THEN v ELSE Resting]
        OBVIOUS
      <3>5. new \in [Requests -> RequestRows] /\ \A r \in Requests : ~WaitsIn(new[r])
        BY <3>3, <3>4, NoRefreshTyped
      <3>. QED
        BY <2>2, <3>1, <3>4, <3>5
    <2>. QED
      BY <2>1, <2>2 DEF LoadPage
  <1>4. /\ request' \in [Tabs -> [Requests -> RequestRows]]
        /\ \A q \in Requests : request'[t][q] = new[q]
        /\ \A u \in Tabs, q \in Requests : u # t => request'[u][q] = request[u][q]
    BY <1>1, <1>3, RequestsSet
  <1>5. tab' \in [Tabs -> TabRows]
    BY <1>1, TabSet DEF LoadPage
  <1>6. refresher' = [h \in Handlers |-> IF refresher[h].for = t
                                        THEN [refresher[h] EXCEPT !.for = NoTab] ELSE refresher[h]]
    BY DEF LoadPage
  <1>7. ASSUME NEW g \in Handlers
        PROVE  /\ refresher'[g] \in RefreshRows
               /\ refresher'[g].new = refresher[g].new /\ refresher'[g].step = refresher[g].step
               /\ refresher'[g].of = refresher[g].of
               /\ refresher[g].for = t => refresher'[g].for = NoTab
               /\ refresher[g].for # t => refresher'[g].for = refresher[g].for
    <2>1. PICK x \in RefreshRows : x = refresher[g]
      BY <1>1, SessionRows
    <2>2. CASE x.for = t
      <3>1. refresher'[g] = [x EXCEPT !.for = NoTab]
        BY <1>6, <2>1, <2>2
      <3>. QED
        BY <2>1, <2>2, <3>1 DEF RefreshRows
    <2>3. CASE x.for # t
      BY <1>6, <2>1, <2>3
    <2>. QED
      BY <2>2, <2>3
  <1>8. refresher' \in [Handlers -> RefreshRows]
    BY <1>6, <1>7
  <1>9. SessionsTypeOK'
    BY <1>1, <1>2, <1>4, <1>5, <1>8, SessionRows, SessionRowsNext
  <1>10. RotationInv'
    <2>1. browser'.cookie \in Issued \cup {0} /\ \A g \in Handlers : refresher'[g].new \in Issued \cup {0}
      BY <1>1, <1>2, <1>7 DEF RotationInv, OnlyIssued
    <2>. QED
      BY <1>1, <1>2, <1>7, <1>9, <2>1, TokensSpent
  <1>11. OneRefresh' /\ WaitsForRefresh'
    <2>1. \A u \in Tabs, r \in Requests : /\ u # t => request'[u][r] = request[u][r]
                                          /\ u = t => ~WaitsIn(request'[u][r])
      BY <1>3, <1>4
    <2>. QED
      BY <1>1, <1>7, <2>1, TabReleased
  <1>. QED
    BY <1>9, <1>10, <1>11 DEF SessionsInv

LEMMA LoginKept == ASSUME SessionsInv, NEW t \in Tabs, Login(t) PROVE SessionsInv'
  <1>1. SessionsTypeOK /\ RotationInv /\ OneRefresh /\ WaitsForRefresh
    BY DEF SessionsInv
  <1>2. PICK n \in Numbers : n = NextToken
    BY DEF Login
  <1>3. /\ UNCHANGED <<expired, refresher, occasions>> /\ request[t][Me] = Resting /\ Me \in Requests
        /\ Issue(n, 0) /\ browser' = [cookie |-> n, stored |-> n] /\ tab' = [tab EXCEPT ![t].user = "loading"]
        /\ SetRequest(t, Me, [at |-> "sent", with |-> n, retry |-> FALSE])
    BY <1>2, SessionsAssumption DEF Login, SessionsAssumption
  <1>4. token' \in [Numbers -> TokenRows] /\ n \in 0 .. MaxTokens
    BY <1>1, <1>3, NoRefreshTyped, IssueTyped
  <1>5. PICK v \in RequestRows : v = [at |-> "sent", with |-> n, retry |-> FALSE] /\ ~WaitsIn(v)
    <2>1. PICK v : v = [at |-> "sent", with |-> n, retry |-> FALSE]
      OBVIOUS
    <2>2. v \in RequestRows /\ v.at = "sent"
      BY <1>4, <2>1 DEF RequestRows
    <2>. QED
      BY <2>1, <2>2 DEF WaitsIn
  <1>6. /\ request' \in [Tabs -> [Requests -> RequestRows]] /\ request'[t][Me] = v
        /\ \A u \in Tabs, q \in Requests : (u # t \/ q # Me) => request'[u][q] = request[u][q]
    BY <1>1, <1>3, <1>5, RequestSet
  <1>7. tab' \in [Tabs -> TabRows]
    BY <1>1, <1>3, TabSet
  <1>8. SessionsTypeOK'
    BY <1>1, <1>3, <1>4, <1>6, <1>7, SessionRows, SessionRowsNext
  <1>9. \A g \in Handlers :
           /\ refresher'[g].new \in Issued \cup {0, n}
           /\ refresher'[g].step \in Handling => /\ refresher'[g].step = refresher[g].step
                                                 /\ refresher'[g].of = refresher[g].of
    BY <1>1, <1>3 DEF RotationInv, OnlyIssued
  <1>10. PICK p \in 0 .. MaxTokens : p = 0
    BY NoRefreshTyped
  <1>11. Issue(n, p) /\ p \in Issued \cup {0} /\ browser'.cookie \in Issued \cup {0, n}
    BY <1>3, <1>10
  <1>12. RotationInv'
    BY <1>1, <1>2, <1>8, <1>9, <1>10, <1>11, TokenIssued
  <1>13. \A u \in Tabs, q \in Requests : WaitsIn(request'[u][q]) <=> WaitsIn(request[u][q])
    BY <1>3, <1>5, <1>6, NoRefreshTyped
  <1>14. OneRefresh' /\ WaitsForRefresh'
    BY <1>1, <1>3, <1>13, TabsLeft
  <1>. QED
    BY <1>8, <1>12, <1>14 DEF SessionsInv

LEMMA LogoutKept == ASSUME SessionsInv, NEW t \in Tabs, Logout(t) PROVE SessionsInv'
  <1>1. SessionsTypeOK /\ RotationInv /\ OneRefresh /\ WaitsForRefresh
    BY DEF SessionsInv
  <1>2. UNCHANGED <<expired, request, refresher>> /\ occasions' \in 0 .. MaxOccasions /\ tab' = SignOut(t)
    BY <1>1, OccasionCounted DEF Logout
  <1>3. PICK n \in Issued \cup {0} : n = browser.cookie
    BY <1>1 DEF RotationInv, OnlyIssued
  <1>4. browser' \in [cookie : 0 .. MaxTokens, stored : 0 .. MaxTokens] /\ browser'.cookie \in {0, n}
    BY <1>1, <1>3, NoRefreshTyped, SessionRows DEF Logout
  <1>5. /\ token' \in [Numbers -> TokenRows]
        /\ \A m \in Numbers : /\ token'[m].parent = token[m].parent /\ token'[m].width = token[m].width
                              /\ token'[m].state = "none" <=> token[m].state = "none"
                              /\ token'[m].state = "live" => token[m].state = "live"
    <2>1. CASE token' = token
      BY <1>1, <2>1, SessionRows
    <2>2. CASE n # 0 /\ token' = [token EXCEPT ![n].state = "revoked"]
      <3>1. n \in Numbers /\ token[n].state # "none"
        BY <1>3, <2>2 DEF Issued
      <3>2. PICK s \in {"revoked", "expired"} : s = "revoked"
        OBVIOUS
      <3>3. token' = [token EXCEPT ![n].state = s]
        BY <2>2, <3>2
      <3>. QED
        BY <1>1, <3>1, <3>2, <3>3, StateMoves
    <2>. QED
      BY <1>3, <2>1, <2>2 DEF Logout
  <1>6. tab' \in [Tabs -> TabRows]
    BY <1>1, <1>2, TabSet
  <1>7. SessionsTypeOK'
    BY <1>1, <1>2, <1>4, <1>5, <1>6, SessionRows, SessionRowsNext
  <1>8. RotationInv'
    BY <1>1, <1>2, <1>3, <1>4, <1>5, <1>7, TokensSpent DEF RotationInv, OnlyIssued
  <1>9. OneRefresh' /\ WaitsForRefresh'
    BY <1>1, <1>2, TabsLeft
  <1>. QED
    BY <1>7, <1>8, <1>9 DEF SessionsInv

LEMMA SessionsStarts == SessionsInit => SessionsInv
  <1>. SUFFICES ASSUME SessionsInit PROVE SessionsInv
    OBVIOUS
  <1>1. Cardinality(Handlers) \in Nat /\ MaxTokens \in Nat /\ MaxOccasions \in Nat /\ NoTab \notin Tabs
    BY SessionsAssumption, FS_CardinalityType DEF SessionsAssumption
  <1>2. 0 \in 0 .. Cardinality(Handlers) /\ 0 \in 0 .. MaxTokens /\ 0 \in 0 .. MaxOccasions
    BY <1>1
  <1>3. Unissued \in TokenRows /\ Unissued.state = "none" /\ Unissued.parent = 0 /\ Unissued.width = 0
    BY <1>2 DEF Unissued, TokenRows
  <1>4. ClosedTab \in TabRows
    BY <1>2 DEF ClosedTab, TabRows
  <1>5. SessionsTypeOK
    <2>1. token \in [Numbers -> TokenRows] /\ tab \in [Tabs -> TabRows] /\ refresher \in [Handlers -> RefreshRows]
      BY <1>3, <1>4, NoRefreshTyped DEF SessionsInit
    <2>2. request \in [Tabs -> [Requests -> RequestRows]]
      BY RestingRequests DEF SessionsInit
    <2>. QED
      BY <1>2, <2>1, <2>2 DEF SessionsInit, SessionsTypeOK, TokenRows, TabRows, RequestRows, RefreshRows, RefreshSteps
  <1>6. /\ \A n \in Numbers : token[n] = Unissued
        /\ \A h \in Handlers : refresher[h] = NoRefresh
        /\ \A t \in Tabs, r \in Requests : request[t][r] = Resting
        /\ browser.cookie = 0
    BY DEF SessionsInit
  <1>7. Issued = 1 .. 0
    BY <1>3, <1>6 DEF Issued
  <1>8. IssuedInOrder /\ OnlyIssued /\ LiveIsUnused
    BY <1>2, <1>3, <1>6, <1>7, NoRefreshTyped DEF IssuedInOrder, OnlyIssued, LiveIsUnused, Handling
  <1>9. HandsCounted
    <2>. SUFFICES ASSUME NEW n \in Numbers PROVE Cardinality(Successors(n)) + Cardinality(InHand(n)) <= token[n].width
      BY DEF HandsCounted
    <2>1. Successors(n) = {} /\ InHand(n) = {}
      BY <1>3, <1>6, NoRefreshTyped DEF Successors, InHand, Numbers
    <2>. QED
      BY <1>3, <1>6, <2>1, FS_EmptySet
  <1>10. OneRefresh
    BY <1>6, NoRefreshTyped DEF OneRefresh
  <1>11. WaitsForRefresh
    BY <1>1, <1>6, NoRefreshTyped DEF WaitsForRefresh, RefreshesFor, WaitsIn
  <1>. QED
    BY <1>5, <1>8, <1>9, <1>10, <1>11 DEF SessionsInv, RotationInv

LEMMA SessionsStep == SessionsInv /\ [SessionsNext]_sessionsVars => SessionsInv'
  <1>1. SessionsInv /\ SessionsNext => SessionsInv'
    BY SendKept, RefusedKept, RefreshedKept, FailsKept, LoadPageKept, LoginKept, LogoutKept,
       FindKept, RevokeKept, RotateKept, UnreadKept, ExpiryKept DEF SessionsNext, TabStep
  <1>2. ASSUME SessionsInv, UNCHANGED sessionsVars PROVE SessionsInv'
    <2>1. UNCHANGED <<token, expired, browser, tab, request, refresher, occasions>>
      BY <1>2 DEF sessionsVars
    <2>2. SessionsTypeOK'
      BY <1>2, <2>1 DEF SessionsInv, SessionsTypeOK
    <2>3. RotationInv'
      BY <1>2, <2>1, <2>2, RotationLeft
    <2>4. OneRefresh' /\ WaitsForRefresh'
      BY <1>2, <2>1, TabsLeft DEF SessionsInv
    <2>. QED
      BY <2>2, <2>3, <2>4 DEF SessionsInv
  <1>. QED
    BY <1>1, <1>2

LEMMA SessionsImplies == SessionsInv => RotatesOnce /\ WaitsForRefresh
  <1>. SUFFICES ASSUME SessionsInv, NEW n \in Numbers PROVE Cardinality(Successors(n)) <= token[n].width
    BY DEF SessionsInv, RotatesOnce
  <1>1. Cardinality(Successors(n)) + Cardinality(InHand(n)) <= token[n].width
    BY DEF SessionsInv, RotationInv, HandsCounted
  <1>2. token[n].width \in Int
    BY DEF SessionsInv, SessionsTypeOK
  <1>. QED
    BY <1>1, <1>2, SessionsFinite

(***************************************************************************)
(* Subscriptions.  Every date that is written down anywhere, in an event,  *)
(* a webhook, the row or a request of the owner, is one that the provider  *)
(* has reported for some subscription, or that was guessed.                *)
(***************************************************************************)
BillRows == [status : {"none", "open"} \cup RowStatus, ends : Instants, trial : Instants, leaving : BOOLEAN]
EventRows ==
  [sub : Subs, kind : EventKinds, status : RowStatus, ends : Instants, trial : Instants, leaving : BOOLEAN]
SubRows ==
  [status : {"NONE"} \cup RowStatus, sub : Subs \cup {NoSub}, ends : Instants, trial : Instants, leaving : BOOLEAN]
HookSteps == {"idle", "claim", "retrieve", "activate", "clear", "update", "downgrade", "clearLast"}
HookRows(n) == [step : HookSteps, event : 0 .. n, ends : Instants, trial : Instants]
OwnerSteps == {"idle", "note", "sync", "clear"}
OwnerRows ==
  [step : OwnerSteps, sub : Subs \cup {NoSub}, status : RowStatus, ends : Instants, trial : Instants,
   leaving : BOOLEAN]
CacheRows == [premium : BOOLEAN, ends : Instants, until : Int]
ReadRows == [premium : BOOLEAN, ends : Instants, until : -1 .. 0]

\* Somebody has paid up to x, or beyond it; or it was guessed so.
PaidTo(x) == x <= guessed \/ \E s \in Subs : x <= billing[s].ends
PaidAfter(x) == x < guessed \/ \E s \in Subs : x < billing[s].ends

IsPaid(s) == billing[s].status \in RowStatus

\* The same after the step.
PaidToNext(x) == x <= guessed' \/ \E s \in Subs : x <= billing'[s].ends
PaidAfterNext(x) == x < guessed' \/ \E s \in Subs : x < billing'[s].ends
IsPaidNext(s) == billing'[s].status \in RowStatus

BillsOK ==
  /\ now \in 0 .. MaxNow /\ billing \in [Subs -> BillRows]
  /\ guessed \in Instants /\ guessed <= now + Period
  /\ \A s \in Subs : /\ billing[s].status \in {"none", "open"} => billing[s].ends = 0
                     /\ billing[s].status = "open" => billing[s].trial \in {0, Trial}
                     /\ IsPaid(s) => billing[s].trial <= billing[s].ends

EventsOK ==
  /\ events \in Seq(EventRows) /\ Len(events) <= MaxEvents
  /\ \A i \in 1 .. Len(events) :
       IsPaid(events[i].sub) /\ PaidTo(events[i].ends) /\ PaidTo(events[i].trial)

RowOK ==
  /\ subrow \in SubRows /\ PaidTo(subrow.ends) /\ PaidTo(subrow.trial)
  /\ subrow.sub # NoSub => IsPaid(subrow.sub)

HooksOK ==
  /\ hook \in [Hooks -> HookRows(Len(events))]
  /\ \A h \in Hooks : /\ PaidTo(hook[h].ends) /\ PaidTo(hook[h].trial)
                      /\ hook[h].step # "idle" => hook[h].event # 0

OwnerOK == owner \in OwnerRows /\ PaidTo(owner.ends) /\ PaidTo(owner.trial)

\* Who is told to be premium was so a moment ago, and no entry outlives its time.
CacheOK ==
  /\ cache \in [Customers -> CacheRows] /\ reading \in [Customers -> ReadRows]
  /\ \A u \in Customers : /\ reading[u].premium => PaidAfter(now)
                          /\ cache[u].premium => now < cache[u].until /\ PaidAfter(cache[u].until - PositiveTtl)

MarksOK == processed \subseteq 1 .. Len(events) /\ swept \in BOOLEAN /\ mishaps \in 0 .. MaxMishaps

Claiming(s) == {h \in Hooks : hook[h].step \in {"retrieve", "activate"} /\ EventOf(h).sub = s}

OnceOK ==
  /\ activated \subseteq Subs /\ applied \in [Subs -> Nat] /\ lost \in [Subs -> Nat]
  /\ \A s \in Subs : applied[s] + lost[s] + Cardinality(Claiming(s)) = IF s \in activated THEN 1 ELSE 0

SubscriptionInv ==
  BillsOK /\ EventsOK /\ RowOK /\ HooksOK /\ OwnerOK /\ CacheOK /\ MarksOK /\ OnceOK

LEMMA SubscriptionTyped == SubscriptionInv => SubscriptionTypeOK
  <1>. SUFFICES ASSUME SubscriptionInv PROVE SubscriptionTypeOK
    OBVIOUS
  <1>1. \A i \in 1 .. Len(events) : events[i] \in EventRows
    BY DEF SubscriptionInv, EventsOK
  <1>2. \A i \in 1 .. Len(events) : events[i].kind \in EventKinds /\ events[i].sub \in Subs
    BY <1>1 DEF EventRows
  <1>3. owner.step \in {"idle", "note", "sync", "clear"}
    BY DEF SubscriptionInv, OwnerOK, OwnerRows, OwnerSteps
  <1>. QED
    BY <1>2, <1>3 DEF SubscriptionInv, BillsOK, EventsOK, RowOK, HooksOK, CacheOK, MarksOK, OnceOK, SubscriptionTypeOK,
       BillRows, SubRows, HookRows, HookSteps, CacheRows, ReadRows

LEMMA SubConstants ==
  /\ Period \in Nat \ {0} /\ Trial \in Nat \ {0} /\ PositiveTtl \in Nat \ {0} /\ NegativeTtl \in Nat \ {0}
  /\ MaxNow \in Nat /\ MaxEvents \in Nat /\ MaxMishaps \in Nat /\ NoSub \notin Subs
  /\ IsFiniteSet(Hooks) /\ Instants \subseteq Nat /\ 0 \in Instants
  /\ \A n \in 0 .. MaxNow : n \in Instants /\ n + Period \in Instants /\ n + Trial \in Instants
  <1>1. /\ Period \in Nat \ {0} /\ Trial \in Nat \ {0} /\ PositiveTtl \in Nat \ {0} /\ NegativeTtl \in Nat \ {0}
        /\ MaxNow \in Nat /\ MaxEvents \in Nat /\ MaxMishaps \in Nat /\ NoSub \notin Subs /\ IsFiniteSet(Hooks)
    BY SubscriptionAssumption DEF SubscriptionAssumption
  <1>. QED
    BY <1>1 DEF Instants

LEMMA InstantsCount == \A x \in Instants : x \in Int
  BY SubConstants

\* What was paid stays paid: the provider and the guesses only add to it.
LEMMA StaysPaid ==
  ASSUME guessed \in Int, guessed' \in Int, guessed <= guessed',
         \A s \in Subs : billing[s].ends \in Int /\ billing'[s].ends \in Int /\ billing[s].ends <= billing'[s].ends,
         NEW x \in Int
  PROVE  (PaidTo(x) => PaidToNext(x)) /\ (PaidAfter(x) => PaidAfterNext(x))
  BY DEF PaidTo, PaidAfter, PaidToNext, PaidAfterNext

LEMMA ZeroPaid == ASSUME guessed \in Nat PROVE PaidTo(0)
  BY DEF PaidTo, PaidToNext

\* What a step leaves alone that does not touch the provider, nor guesses.
LEMMA SubRests ==
  ASSUME SubscriptionInv, UNCHANGED <<now, billing, events, guessed>>
  PROVE  /\ BillsOK' /\ EventsOK'
         /\ \A x \in Int : (PaidTo(x) <=> PaidToNext(x)) /\ (PaidAfter(x) <=> PaidAfterNext(x))
         /\ UNCHANGED subrow => RowOK'
         /\ UNCHANGED hook => HooksOK'
         /\ UNCHANGED owner => OwnerOK'
         /\ UNCHANGED <<cache, reading>> => CacheOK'
         /\ UNCHANGED <<processed, swept, mishaps>> => MarksOK'
         /\ UNCHANGED <<hook, activated, applied, lost>> => OnceOK'
  <1>1. BillsOK'
    BY DEF SubscriptionInv, BillsOK, IsPaid, IsPaidNext
  <1>2. EventsOK'
    BY DEF SubscriptionInv, EventsOK, IsPaid, PaidTo, PaidToNext, IsPaidNext
  <1>3. \A x : (PaidTo(x) <=> PaidToNext(x)) /\ (PaidAfter(x) <=> PaidAfterNext(x))
    BY DEF PaidTo, PaidAfter, PaidToNext, PaidAfterNext
  <1>4. UNCHANGED subrow => RowOK'
    BY DEF SubscriptionInv, RowOK, IsPaid, PaidTo, PaidToNext, IsPaidNext
  <1>5. UNCHANGED hook => HooksOK'
    BY DEF SubscriptionInv, HooksOK, PaidTo, PaidToNext
  <1>6. UNCHANGED owner => OwnerOK'
    BY DEF SubscriptionInv, OwnerOK, PaidTo, PaidToNext
  <1>7. UNCHANGED <<cache, reading>> => CacheOK'
    BY DEF SubscriptionInv, CacheOK, PaidAfter, PaidAfterNext
  <1>8. UNCHANGED <<processed, swept, mishaps>> => MarksOK'
    BY DEF SubscriptionInv, MarksOK
  <1>9. UNCHANGED <<hook, activated, applied, lost>> => OnceOK'
    BY DEF SubscriptionInv, OnceOK, Claiming, EventOf
  <1>. QED
    BY <1>1, <1>2, <1>3, <1>4, <1>5, <1>6, <1>7, <1>8, <1>9

\* What it keeps when more is paid, or guessed, or the provider sends more events.
LEMMA SubGrows ==
  ASSUME SubscriptionInv, BillsOK', now' = now, guessed <= guessed',
         \A s \in Subs : /\ billing[s].ends <= billing'[s].ends
                         /\ IsPaid(s) => IsPaidNext(s),
         events' \in Seq(EventRows), Len(events) <= Len(events'),
         \A i \in 1 .. Len(events) : events'[i] = events[i]
  PROVE  /\ \A x \in Int : (PaidTo(x) => PaidToNext(x)) /\ (PaidAfter(x) => PaidAfterNext(x))
         /\ \A i \in 1 .. Len(events) :
              IsPaidNext(events'[i].sub) /\ PaidToNext(events'[i].ends) /\ PaidToNext(events'[i].trial)
         /\ UNCHANGED subrow => RowOK'
         /\ UNCHANGED hook => HooksOK'
         /\ UNCHANGED owner => OwnerOK'
         /\ UNCHANGED <<cache, reading>> => CacheOK'
         /\ UNCHANGED <<processed, swept, mishaps>> => MarksOK'
         /\ UNCHANGED <<hook, activated, applied, lost>> => OnceOK'
  <1>1. /\ guessed \in Int /\ guessed' \in Int
        /\ \A s \in Subs : billing[s].ends \in Int /\ billing'[s].ends \in Int
    <2>1. guessed \in Instants /\ guessed' \in Instants /\ billing \in [Subs -> BillRows] /\ billing' \in [Subs -> BillRows]
      BY DEF SubscriptionInv, BillsOK
    <2>2. \A s \in Subs : billing[s].ends \in Instants /\ billing'[s].ends \in Instants
      BY <2>1 DEF BillRows
    <2>. QED
      BY <2>1, <2>2, InstantsCount
  <1>2. \A x \in Int : (PaidTo(x) => PaidToNext(x)) /\ (PaidAfter(x) => PaidAfterNext(x))
    BY <1>1, StaysPaid
  <1>3. ASSUME NEW i \in 1 .. Len(events)
        PROVE  IsPaidNext(events'[i].sub) /\ PaidToNext(events'[i].ends) /\ PaidToNext(events'[i].trial)
    <2>1. PICK e \in EventRows : e = events[i] /\ e = events'[i]
      BY DEF SubscriptionInv, EventsOK
    <2>2. IsPaid(e.sub) /\ PaidTo(e.ends) /\ PaidTo(e.trial)
      BY <2>1 DEF SubscriptionInv, EventsOK
    <2>3. e.sub \in Subs /\ e.ends \in Int /\ e.trial \in Int
      BY InstantsCount DEF EventRows
    <2>4. IsPaidNext(e.sub) /\ PaidToNext(e.ends) /\ PaidToNext(e.trial)
      BY <1>2, <2>2, <2>3
    <2>. QED
      BY <2>1, <2>4 DEF IsPaid, PaidTo, PaidToNext, IsPaidNext
  <1>4. ASSUME UNCHANGED subrow PROVE RowOK'
    <2>1. PICK r \in SubRows : r = subrow /\ r = subrow'
      BY <1>4 DEF SubscriptionInv, RowOK
    <2>2. PaidTo(r.ends) /\ PaidTo(r.trial) /\ (r.sub # NoSub => IsPaid(r.sub))
      BY <2>1 DEF SubscriptionInv, RowOK
    <2>3. r.ends \in Int /\ r.trial \in Int /\ (r.sub # NoSub => r.sub \in Subs)
      BY InstantsCount DEF SubRows
    <2>4. PaidToNext(r.ends) /\ PaidToNext(r.trial) /\ (r.sub # NoSub => IsPaidNext(r.sub))
      BY <1>2, <2>2, <2>3
    <2>. QED
      BY <2>1, <2>4 DEF RowOK, PaidTo, IsPaid, PaidToNext, IsPaidNext
  <1>5. ASSUME UNCHANGED hook PROVE HooksOK'
    <2>1. \A h \in Hooks : hook'[h] = hook[h] /\ hook[h] \in HookRows(Len(events))
      BY <1>5 DEF SubscriptionInv, HooksOK
    <2>2. HookRows(Len(events)) \subseteq HookRows(Len(events'))
      <3>1. Len(events) \in Nat /\ Len(events') \in Nat
        BY DEF SubscriptionInv, EventsOK
      <3>2. 0 .. Len(events) \subseteq 0 .. Len(events')
        BY <3>1
      <3>. QED
        BY <3>2 DEF HookRows
    <2>3. hook' \in [Hooks -> HookRows(Len(events'))]
      BY <1>5, <2>1, <2>2 DEF SubscriptionInv, HooksOK
    <2>4. ASSUME NEW h \in Hooks
          PROVE  /\ PaidToNext(hook'[h].ends) /\ PaidToNext(hook'[h].trial)
                 /\ hook'[h].step # "idle" => hook'[h].event # 0
      <3>1. PICK x \in HookRows(Len(events)) : x = hook[h] /\ x = hook'[h]
        BY <2>1
      <3>2. PaidTo(x.ends) /\ PaidTo(x.trial) /\ (x.step # "idle" => x.event # 0)
        BY <3>1 DEF SubscriptionInv, HooksOK
      <3>3. x.ends \in Int /\ x.trial \in Int
        BY InstantsCount DEF HookRows
      <3>4. PaidToNext(x.ends) /\ PaidToNext(x.trial)
        BY <1>2, <3>2, <3>3
      <3>. QED
        BY <3>1, <3>2, <3>4 DEF PaidTo, PaidToNext
    <2>. QED
      BY <2>3, <2>4 DEF HooksOK, PaidTo, PaidToNext
  <1>6. ASSUME UNCHANGED owner PROVE OwnerOK'
    <2>1. PICK o \in OwnerRows : o = owner /\ o = owner'
      BY <1>6 DEF SubscriptionInv, OwnerOK
    <2>2. PaidTo(o.ends) /\ PaidTo(o.trial)
      BY <2>1 DEF SubscriptionInv, OwnerOK
    <2>3. o.ends \in Int /\ o.trial \in Int
      BY InstantsCount DEF OwnerRows
    <2>4. PaidToNext(o.ends) /\ PaidToNext(o.trial)
      BY <1>2, <2>2, <2>3
    <2>. QED
      BY <2>1, <2>4 DEF OwnerOK, PaidTo, PaidToNext
  <1>7. ASSUME UNCHANGED <<cache, reading>> PROVE CacheOK'
    <2>1. now \in Int
      BY DEF SubscriptionInv, BillsOK
    <2>2. ASSUME NEW u \in Customers
          PROVE  /\ reading'[u].premium => PaidAfterNext(now)
                 /\ cache'[u].premium => now' < cache'[u].until /\ PaidAfterNext(cache'[u].until - PositiveTtl)
      <3>1. PICK n \in Int : n = now /\ n = now'
        BY <2>1
      <3>2. PICK x \in Int : x = cache[u].until - PositiveTtl /\ x = cache'[u].until - PositiveTtl
        BY <1>7, SubConstants DEF SubscriptionInv, CacheOK, CacheRows
      <3>3. (reading'[u].premium => PaidAfter(n)) /\ (cache'[u].premium => now' < cache'[u].until /\ PaidAfter(x))
        BY <1>7, <3>1, <3>2 DEF SubscriptionInv, CacheOK
      <3>4. (reading'[u].premium => PaidAfterNext(n)) /\ (cache'[u].premium => now' < cache'[u].until /\ PaidAfterNext(x))
        BY <1>2, <3>3
      <3>. QED
        BY <3>1, <3>2, <3>4 DEF PaidAfter, PaidAfterNext
    <2>. QED
      BY <1>7, <2>2 DEF SubscriptionInv, CacheOK, PaidAfter, PaidAfterNext
  <1>8. ASSUME UNCHANGED <<processed, swept, mishaps>> PROVE MarksOK'
    <2>1. Len(events) \in Nat /\ Len(events') \in Nat
      BY DEF SubscriptionInv, EventsOK
    <2>2. 1 .. Len(events) \subseteq 1 .. Len(events')
      BY <2>1
    <2>. QED
      BY <1>8, <2>2 DEF SubscriptionInv, MarksOK
  <1>9. ASSUME UNCHANGED <<hook, activated, applied, lost>> PROVE OnceOK'
    <2>1. ASSUME NEW h \in Hooks, hook[h].step # "idle" PROVE EventOf(h)' = EventOf(h)
      <3>1. PICK i \in 1 .. Len(events) : i = hook[h].event /\ i = hook'[h].event
        <4>1. hook[h].event \in 0 .. Len(events) /\ hook[h].event # 0
          BY <2>1 DEF SubscriptionInv, HooksOK, HookRows
        <4>2. Len(events) \in Nat
          BY DEF SubscriptionInv, EventsOK
        <4>. QED
          BY <1>9, <4>1, <4>2
      <3>2. EventOf(h) = events[i] /\ EventOf(h)' = events'[i]
        BY <3>1 DEF EventOf
      <3>. QED
        BY <3>2
    <2>2. \A s \in Subs : Claiming(s)' = Claiming(s)
      BY <1>9, <2>1 DEF Claiming
    <2>. QED
      BY <1>9, <2>2 DEF SubscriptionInv, OnceOK
  <1>. QED
    BY <1>2, <1>3, <1>4, <1>5, <1>6, <1>7, <1>8, <1>9

(***************************************************************************)
(* The provider.                                                           *)
(***************************************************************************)
PaidBills == {b \in BillRows : b.status \in RowStatus /\ b.trial <= b.ends}

LEMMA EventsSent ==
  ASSUME EventsOK, NEW s \in Subs, NEW b \in PaidBills, NEW kinds \in Seq(EventKinds), Report(s, b, kinds)
  PROVE  /\ events' \in Seq(EventRows) /\ Len(events') <= MaxEvents /\ Len(events) <= Len(events')
         /\ \A i \in 1 .. Len(events) : events'[i] = events[i]
         /\ \A i \in 1 .. Len(events') : i \in 1 .. Len(events) \/
              (events'[i].sub = s /\ events'[i].ends = b.ends /\ events'[i].trial = b.trial)
  <1>1. PICK n \in Nat : n = Len(kinds)
    OBVIOUS
  <1>2. PICK notes : notes = [i \in 1 .. n |-> Notice(s, kinds[i], b)]
    OBVIOUS
  <1>3. ASSUME NEW i \in 1 .. n
        PROVE  notes[i] \in EventRows /\ notes[i].sub = s /\ notes[i].ends = b.ends /\ notes[i].trial = b.trial
    <2>1. PICK k \in EventKinds : k = kinds[i]
      BY <1>1
    <2>2. notes[i] = Notice(s, k, b)
      BY <1>2, <2>1
    <2>. QED
      BY <2>2 DEF Notice, EventRows, PaidBills, BillRows
  <1>4. notes \in Seq(EventRows) /\ Len(notes) = n
    BY <1>2, <1>3
  <1>5. events' = events \o notes /\ Len(events) + n <= MaxEvents
    BY <1>1, <1>2 DEF Report
  <1>6. PICK old \in Seq(EventRows), m \in Nat : old = events /\ m = Len(old) /\ m = Len(events)
    BY DEF EventsOK
  <1>9. PICK new : new = old \o notes
    OBVIOUS
  <1>10. new \in Seq(EventRows) /\ Len(new) = m + n
    BY <1>4, <1>6, <1>9, ConcatProperties
  <1>11. \A i \in 1 .. m + n : new[i] = IF i <= m THEN old[i] ELSE notes[i - m]
    BY <1>4, <1>6, <1>9, ConcatProperties
  <1>7. /\ events' \in Seq(EventRows) /\ Len(events') = Len(events) + n
        /\ \A i \in 1 .. Len(events) : events'[i] = events[i]
        /\ \A i \in 1 .. n : events'[Len(events) + i] = notes[i]
    <2>1. events' = new
      BY <1>5, <1>6, <1>9
    <2>2. \A i \in 1 .. m : new[i] = old[i]
      BY <1>11
    <2>3. ASSUME NEW i \in 1 .. n PROVE new[m + i] = notes[i]
      <3>1. PICK k \in 1 .. m + n : k = m + i /\ k - m = i /\ ~(k <= m)
        OBVIOUS
      <3>2. new[k] = notes[k - m]
        BY <1>11, <3>1
      <3>. QED
        BY <3>1, <3>2
    <2>. QED
      BY <1>6, <1>10, <2>1, <2>2, <2>3
  <1>8. ASSUME NEW i \in 1 .. Len(events'), i \notin 1 .. Len(events)
        PROVE  events'[i].sub = s /\ events'[i].ends = b.ends /\ events'[i].trial = b.trial
    <2>1. PICK j \in 1 .. n : j = i - m
      <3>1. i \in 1 .. m + n /\ i \notin 1 .. m
        BY <1>6, <1>7, <1>8
      <3>. QED
        BY <3>1
    <2>2. i = Len(events) + j
      BY <1>6, <1>7, <2>1
    <2>3. events'[i] = notes[j]
      BY <1>7, <2>1, <2>2
    <2>. QED
      BY <1>3, <2>3
  <1>. QED
    BY <1>1, <1>5, <1>6, <1>7, <1>8

LEMMA BillsChange ==
  ASSUME BillsOK, NEW s \in Subs, NEW b \in BillRows, billing' = [billing EXCEPT ![s] = b],
         UNCHANGED <<now, guessed>>, billing[s].ends <= b.ends,
         b.status \in {"none", "open"} => b.ends = 0 /\ ~IsPaid(s),
         b.status = "open" => b.trial \in {0, Trial}, b.status \in RowStatus => b.trial <= b.ends
  PROVE  BillsOK' /\ \A r \in Subs : /\ billing[r].ends <= billing'[r].ends
                                     /\ IsPaid(r) => IsPaidNext(r)
  <1>1. /\ billing' \in [Subs -> BillRows] /\ billing'[s] = b
        /\ \A r \in Subs : r # s => billing'[r] = billing[r]
    BY DEF BillsOK
  <1>2. \A r \in Subs : billing[r].ends \in Int
    BY InstantsCount DEF BillsOK, BillRows
  <1>3. BillsOK'
    BY <1>1 DEF BillsOK, IsPaid
  <1>4. ASSUME NEW r \in Subs PROVE billing[r].ends <= billing'[r].ends /\ (IsPaid(r) => IsPaidNext(r))
    <2>1. CASE r = s
      BY <1>1, <2>1 DEF BillRows, IsPaid, IsPaidNext
    <2>2. CASE r # s
      BY <1>1, <1>2, <2>2 DEF IsPaid, IsPaidNext
    <2>. QED
      BY <2>1, <2>2
  <1>. QED
    BY <1>3, <1>4

LEMMA ReportKept ==
  ASSUME SubscriptionInv, NEW s \in Subs, NEW b \in PaidBills, NEW kinds \in Seq(EventKinds), Report(s, b, kinds),
         billing[s].ends <= b.ends, ProviderOnly,
         owner' = owner \/ (owner' \in OwnerRows /\ owner'.ends = 0 /\ owner'.trial = 0)
  PROVE  SubscriptionInv'
  <1>1. UNCHANGED <<now, processed, activated, subrow, cache, reading, hook, swept, mishaps, guessed, applied, lost>>
    BY DEF ProviderOnly, markerVars, cacheVars, subHistory
  <1>2. BillsOK' /\ \A r \in Subs : billing[r].ends <= billing'[r].ends /\ (IsPaid(r) => IsPaidNext(r))
    <2>1. billing' = [billing EXCEPT ![s] = b] /\ BillsOK
      BY DEF Report, SubscriptionInv
    <2>2. b \in BillRows /\ b.status \notin {"none", "open"} /\ b.trial <= b.ends
      BY DEF PaidBills, RowStatus
    <2>. QED
      BY <1>1, <2>1, <2>2, BillsChange
  <1>3. /\ events' \in Seq(EventRows) /\ Len(events') <= MaxEvents /\ Len(events) <= Len(events')
        /\ \A i \in 1 .. Len(events) : events'[i] = events[i]
        /\ \A i \in 1 .. Len(events') : i \in 1 .. Len(events) \/
             (events'[i].sub = s /\ events'[i].ends = b.ends /\ events'[i].trial = b.trial)
    BY EventsSent DEF SubscriptionInv
  <1>4. guessed <= guessed'
    BY <1>1, InstantsCount DEF SubscriptionInv, BillsOK
  <1>5. /\ \A i \in 1 .. Len(events) :
             IsPaidNext(events'[i].sub) /\ PaidToNext(events'[i].ends) /\ PaidToNext(events'[i].trial)
        /\ RowOK' /\ HooksOK' /\ CacheOK' /\ MarksOK' /\ OnceOK' /\ (UNCHANGED owner => OwnerOK')
    BY <1>1, <1>2, <1>3, <1>4, SubGrows
  <1>6. IsPaidNext(s) /\ PaidToNext(b.ends) /\ PaidToNext(b.trial) /\ PaidToNext(0)
    <2>1. billing'[s] = b
      BY DEF Report, SubscriptionInv, BillsOK
    <2>2. b.status \in RowStatus /\ b.ends \in Int /\ b.trial \in Int /\ b.trial <= b.ends
      BY InstantsCount DEF PaidBills, BillRows
    <2>3. guessed' \in Nat
      BY <1>1, SubConstants DEF SubscriptionInv, BillsOK
    <2>. QED
      BY <2>1, <2>2, <2>3 DEF IsPaidNext, PaidToNext
  <1>7. \A i \in 1 .. Len(events') :
          IsPaidNext(events'[i].sub) /\ PaidToNext(events'[i].ends) /\ PaidToNext(events'[i].trial)
    BY <1>3, <1>5, <1>6
  <1>8. EventsOK'
    BY <1>3, <1>7 DEF EventsOK, IsPaid, IsPaidNext, PaidTo, PaidToNext
  <1>9. OwnerOK'
    BY <1>5, <1>6 DEF OwnerOK, PaidTo, PaidToNext
  <1>. QED
    BY <1>2, <1>5, <1>8, <1>9 DEF SubscriptionInv

LEMMA FewKinds ==
  /\ \A k \in EventKinds : <<k>> \in Seq(EventKinds)
  /\ \A k, l \in EventKinds : <<k, l>> \in Seq(EventKinds)
  OBVIOUS

LEMMA BillFacts ==
  ASSUME SubscriptionInv, NEW s \in Subs
  PROVE  \E b \in BillRows : /\ b = billing[s] /\ b.ends \in Nat /\ b.trial \in Nat
                             /\ b.status \in {"none", "open"} => b.ends = 0
                             /\ b.status = "open" => b.trial \in {0, Trial}
                             /\ b.status \in RowStatus => b.trial <= b.ends
  <1>1. PICK b \in BillRows : b = billing[s]
    BY DEF SubscriptionInv, BillsOK
  <1>2. b.ends \in Nat /\ b.trial \in Nat
    BY SubConstants DEF BillRows
  <1>. QED
    BY <1>1, <1>2 DEF SubscriptionInv, BillsOK, IsPaid

LEMMA CheckoutKept == ASSUME SubscriptionInv, NEW s \in Subs, Checkout(s) PROVE SubscriptionInv'
  <1>1. PICK b \in BillRows : b = billing[s] /\ b.ends \in Nat /\ (b.status \in {"none", "open"} => b.ends = 0)
    BY BillFacts
  <1>2. PICK t \in {0, Trial} : t = IF subrow = NoRow THEN Trial ELSE 0
    OBVIOUS
  <1>3. PICK c : c = [b EXCEPT !.status = "open", !.trial = t]
    OBVIOUS
  <1>4. billing' = [billing EXCEPT ![s] = c] /\ b.status = "none"
    BY <1>1, <1>2, <1>3 DEF Checkout
  <1>5. t \in Instants
    <2>1. 0 \in 0 .. MaxNow
      BY SubConstants
    <2>2. 0 + Trial \in Instants
      BY <2>1, SubConstants
    <2>3. 0 + Trial = Trial
      BY SubConstants
    <2>. QED
      BY <2>2, <2>3, SubConstants
  <1>6. c \in BillRows /\ c.status = "open" /\ c.trial = t /\ c.ends = 0
    BY <1>1, <1>3, <1>4, <1>5 DEF BillRows
  <1>7. /\ UNCHANGED <<now, processed, activated, subrow, cache, reading, hook, swept, mishaps, guessed, applied, lost>>
        /\ UNCHANGED <<events, owner>>
    BY DEF Checkout, ProviderOnly, markerVars, cacheVars, subHistory
  <1>8. BillsOK' /\ \A r \in Subs : billing[r].ends <= billing'[r].ends /\ (IsPaid(r) => IsPaidNext(r))
    <2>1. ~IsPaid(s) /\ billing[s].ends <= c.ends /\ c.status \notin RowStatus
      BY <1>1, <1>4, <1>6 DEF IsPaid, RowStatus
    <2>2. BillsOK
      BY DEF SubscriptionInv
    <2>. QED
      BY <1>4, <1>6, <1>7, <2>1, <2>2, BillsChange
  <1>9. /\ events' \in Seq(EventRows) /\ Len(events) <= Len(events') /\ guessed <= guessed'
        /\ \A i \in 1 .. Len(events) : events'[i] = events[i]
    BY <1>7, InstantsCount DEF SubscriptionInv, BillsOK, EventsOK
  <1>10. /\ \A i \in 1 .. Len(events) :
              IsPaidNext(events'[i].sub) /\ PaidToNext(events'[i].ends) /\ PaidToNext(events'[i].trial)
         /\ RowOK' /\ HooksOK' /\ CacheOK' /\ MarksOK' /\ OnceOK' /\ OwnerOK'
    BY <1>7, <1>8, <1>9, SubGrows
  <1>11. EventsOK'
    BY <1>7, <1>10 DEF SubscriptionInv, EventsOK, IsPaid, IsPaidNext, PaidTo, PaidToNext
  <1>. QED
    BY <1>8, <1>10, <1>11 DEF SubscriptionInv

LEMMA PayKept == ASSUME SubscriptionInv, NEW s \in Subs, Pay(s) PROVE SubscriptionInv'
  <1>1. PICK b \in BillRows : b = billing[s] /\ b.ends = 0 /\ b.trial \in {0, Trial}
    BY BillFacts DEF Pay
  <1>2. now \in 0 .. MaxNow /\ now + Period \in Instants /\ now + Trial \in Instants /\ 0 \in Instants
    BY SubConstants DEF SubscriptionInv, BillsOK
  <1>3. PICK trialEnd \in Instants : trialEnd = IF b.trial > 0 THEN now + b.trial ELSE 0
    BY <1>1, <1>2, SubConstants
  <1>4. PICK ends \in Instants : ends = IF b.trial > 0 THEN trialEnd ELSE now + Period
    BY <1>2
  <1>5. PICK c : c = [status |-> "ACTIVE", ends |-> ends, trial |-> trialEnd, leaving |-> FALSE]
    OBVIOUS
  <1>6. trialEnd <= ends /\ 0 <= ends
    <2>1. trialEnd \in Nat /\ ends \in Nat /\ b.trial \in Nat
      BY <1>1, SubConstants
    <2>. QED
      BY <1>3, <1>4, <2>1
  <1>7. c \in BillRows /\ c.status = "ACTIVE" /\ c.ends = ends /\ c.trial = trialEnd
    BY <1>5 DEF BillRows, RowStatus
  <1>8. c \in PaidBills /\ billing[s].ends <= c.ends
    BY <1>1, <1>6, <1>7 DEF PaidBills, RowStatus
  <1>9. PICK kinds \in {<<"payment.succeeded", "subscription.active">>, <<"checkout.completed">>} : Report(s, c, kinds)
    BY <1>1, <1>3, <1>4, <1>5 DEF Pay
  <1>10. kinds \in Seq(EventKinds)
    <2>1. {"payment.succeeded", "subscription.active", "checkout.completed"} \subseteq EventKinds
      BY DEF EventKinds, ActivatingKinds
    <2>. QED
      BY <1>9, <2>1, FewKinds
  <1>. QED
    BY <1>8, <1>9, <1>10, ReportKept DEF Pay

LEMMA TurnOverKept == ASSUME SubscriptionInv, NEW s \in Subs, TurnOver(s) PROVE SubscriptionInv'
  <1>1. PICK b \in BillRows : /\ b = billing[s] /\ b.ends \in Nat /\ b.trial \in Nat
                              /\ b.status \in RowStatus => b.trial <= b.ends
    BY BillFacts
  <1>2. b.status \in RowStatus /\ b.trial <= b.ends /\ b.ends <= now
    BY <1>1 DEF TurnOver, RowStatus
  <1>3. now \in Nat /\ now + Period \in Instants /\ Period \in Nat
    BY SubConstants DEF SubscriptionInv, BillsOK
  <1>4. PICK c \in PaidBills, kinds \in Seq(EventKinds) : Report(s, c, kinds) /\ b.ends <= c.ends
    <2>1. \A k \in EventKinds : <<k>> \in Seq(EventKinds)
      BY FewKinds
    <2>2. {"subscription.updated", "payment.failed", "payment.cancelled"} \subseteq EventKinds
      BY DEF EventKinds
    <2>3. CASE Report(s, [b EXCEPT !.status = "ACTIVE", !.ends = now + Period], <<"subscription.updated">>)
      <3>1. PICK c : c = [b EXCEPT !.status = "ACTIVE", !.ends = now + Period]
        OBVIOUS
      <3>2. c \in BillRows /\ c.status = "ACTIVE" /\ c.ends = now + Period /\ c.trial = b.trial
        BY <1>3, <3>1 DEF BillRows, RowStatus
      <3>3. c \in PaidBills /\ b.ends <= c.ends
        BY <1>1, <1>2, <1>3, <3>2 DEF PaidBills, RowStatus
      <3>. QED
        BY <2>1, <2>2, <2>3, <3>1, <3>3
    <2>4. ASSUME NEW k \in {"payment.failed", "payment.cancelled", "subscription.updated"}, NEW st \in RowStatus,
                 Report(s, [b EXCEPT !.status = st], <<k>>)
          PROVE  \E c \in PaidBills, kinds \in Seq(EventKinds) : Report(s, c, kinds) /\ b.ends <= c.ends
      <3>1. PICK c : c = [b EXCEPT !.status = st]
        OBVIOUS
      <3>2. c \in BillRows /\ c.status = st /\ c.ends = b.ends /\ c.trial = b.trial
        BY <3>1 DEF BillRows, RowStatus
      <3>3. c \in PaidBills /\ b.ends <= c.ends
        BY <1>1, <1>2, <3>2 DEF PaidBills
      <3>. QED
        BY <2>1, <2>2, <2>4, <3>1, <3>3
    <2>5. "ON_HOLD" \in RowStatus /\ {"CANCELLED", "EXPIRED"} \subseteq RowStatus
      BY DEF RowStatus
    <2>. QED
      BY <1>1, <2>3, <2>4, <2>5 DEF TurnOver
  <1>. QED
    BY <1>1, <1>4, ReportKept DEF TurnOver

LEMMA RenewalKept == ASSUME SubscriptionInv, NEW leaving \in BOOLEAN, ChangeRenewal(leaving) PROVE SubscriptionInv'
  <1>1. PICK s \in Subs : s = subrow.sub /\ IsPaid(s)
    BY DEF ChangeRenewal, SubscriptionInv, RowOK, SubRows
  <1>2. PICK b \in BillRows : /\ b = billing[s] /\ b.ends \in Nat /\ b.trial \in Nat
                              /\ b.status \in RowStatus => b.trial <= b.ends
    BY BillFacts
  <1>3. PICK c : c = [b EXCEPT !.leaving = leaving]
    OBVIOUS
  <1>4. c \in BillRows /\ c.status = b.status /\ c.ends = b.ends /\ c.trial = b.trial
    BY <1>3 DEF BillRows
  <1>5. c \in PaidBills /\ billing[s].ends <= c.ends
    BY <1>1, <1>2, <1>4 DEF PaidBills, IsPaid
  <1>6. PICK kinds \in Seq(EventKinds) : kinds = <<"subscription.updated">>
    <2>1. "subscription.updated" \in EventKinds
      BY DEF EventKinds
    <2>. QED
      BY <2>1, FewKinds
  <1>7. Report(s, c, kinds) /\ ProviderOnly
    BY <1>1, <1>2, <1>3, <1>6 DEF ChangeRenewal
  <1>8. owner' \in OwnerRows /\ owner'.ends = 0 /\ owner'.trial = 0
    <2>1. PICK o : o = [Closed EXCEPT !.step = "note", !.leaving = leaving]
      OBVIOUS
    <2>2. o \in OwnerRows /\ o.ends = 0 /\ o.trial = 0
      BY <2>1, SubConstants DEF Closed, OwnerRows, OwnerSteps, RowStatus
    <2>. QED
      BY <2>1, <2>2 DEF ChangeRenewal
  <1>. QED
    BY <1>5, <1>7, <1>8, ReportKept

(***************************************************************************)
(* The webhooks.                                                           *)
(***************************************************************************)
Claims(x, s) == IF x.step \in {"retrieve", "activate"} /\ events[x.event].sub = s THEN 1 ELSE 0

LEMMA HookFacts ==
  ASSUME SubscriptionInv, NEW h \in Hooks
  PROVE  \E x \in HookRows(Len(events)) :
           /\ x = hook[h] /\ PaidTo(x.ends) /\ PaidTo(x.trial) /\ Len(events) \in Nat
           /\ x.step # "idle" => /\ x.event \in 1 .. Len(events)
                                 /\ \E e \in EventRows : /\ e = events[x.event] /\ e = EventOf(h) /\ IsPaid(e.sub)
                                                         /\ PaidTo(e.ends) /\ PaidTo(e.trial)
  <1>1. PICK x \in HookRows(Len(events)) : x = hook[h]
    BY DEF SubscriptionInv, HooksOK
  <1>2. PaidTo(x.ends) /\ PaidTo(x.trial) /\ (x.step # "idle" => x.event # 0)
    BY <1>1 DEF SubscriptionInv, HooksOK
  <1>3. PICK n \in Nat : n = Len(events)
    BY DEF SubscriptionInv, EventsOK
  <1>4. ASSUME x.step # "idle"
        PROVE  /\ x.event \in 1 .. Len(events)
               /\ \E e \in EventRows : /\ e = events[x.event] /\ e = EventOf(h) /\ IsPaid(e.sub)
                                       /\ PaidTo(e.ends) /\ PaidTo(e.trial)
    <2>1. PICK i \in 1 .. n : i = x.event
      BY <1>2, <1>3, <1>4 DEF HookRows
    <2>2. PICK e \in EventRows : e = events[i]
      BY <1>3 DEF SubscriptionInv, EventsOK
    <2>3. IsPaid(e.sub) /\ PaidTo(e.ends) /\ PaidTo(e.trial)
      BY <1>3, <2>2 DEF SubscriptionInv, EventsOK
    <2>4. e = EventOf(h)
      BY <1>1, <2>1, <2>2 DEF EventOf
    <2>. QED
      BY <1>3, <2>1, <2>2, <2>3, <2>4
  <1>. QED
    BY <1>1, <1>2, <1>3, <1>4

\* A hook goes on to the row y; the activations stay counted.
HookGoes(h, y) == hook' = [hook EXCEPT ![h] = y]
Counted(s) == IF s \in activated THEN 1 ELSE 0
CountedNext(s) == IF s \in activated' THEN 1 ELSE 0
Balanced(h, y) ==
  \A s \in Subs : applied'[s] + lost'[s] + Claims(y, s) + Counted(s)
                  = applied[s] + lost[s] + Claims(hook[h], s) + CountedNext(s)
MoreIsPaid == \A z \in Int : PaidTo(z) => PaidToNext(z)

\* One hook moves: the others claim what they claimed.
LEMMA ClaimingCounted ==
  ASSUME HooksOK, NEW h \in Hooks, NEW y, HookGoes(h, y), events' = events, NEW s
  PROVE  \E c \in Nat : /\ Cardinality(Claiming(s)) = c + Claims(hook[h], s)
                        /\ Cardinality(Claiming(s)') = c + Claims(y, s)
  <1>0. hook \in [Hooks -> HookRows(Len(events))]
    BY DEF HooksOK
  <1>1. hook'[h] = y /\ \A g \in Hooks : g # h => hook'[g] = hook[g]
    BY <1>0 DEF HookGoes
  <1>2. Claiming(s)' = {g \in Hooks : Claims(hook'[g], s) = 1}
    BY DEF Claiming, Claims, EventOf
  <1>3. Claiming(s) = {g \in Hooks : Claims(hook[g], s) = 1}
    BY DEF Claiming, Claims, EventOf
  <1>4. PICK A, B, C : A = Claiming(s) /\ B = Claiming(s)' /\ C = A \ {h}
    OBVIOUS
  <1>5. /\ C = {g \in Hooks \ {h} : Claims(hook[g], s) = 1} /\ C \subseteq Hooks /\ h \notin C
        /\ Claims(hook[h], s) = 1 => A = C \cup {h}
        /\ Claims(hook[h], s) # 1 => A = C
    BY <1>3, <1>4
  <1>6. /\ Claims(hook'[h], s) = 1 => B = C \cup {h}
        /\ Claims(hook'[h], s) # 1 => B = C
    <2>1. \A g \in Hooks : g # h => Claims(hook'[g], s) = Claims(hook[g], s)
      BY <1>1
    <2>. QED
      BY <1>2, <1>4, <1>5, <2>1
  <1>7. IsFiniteSet(C) /\ Cardinality(C) \in Nat
    BY <1>5, SubConstants, FS_Subset, FS_CardinalityType
  <1>8. Cardinality(C \cup {h}) = Cardinality(C) + 1
    BY <1>5, <1>7, FS_AddElement
  <1>9. Claims(hook[h], s) \in {0, 1} /\ Claims(hook'[h], s) \in {0, 1}
    BY DEF Claims
  <1>10. PICK c \in Nat : c = Cardinality(C)
    BY <1>7
  <1>11. Cardinality(A) = c + Claims(hook[h], s)
    <2>1. CASE Claims(hook[h], s) = 1
      BY <1>5, <1>8, <1>10, <2>1
    <2>2. CASE Claims(hook[h], s) = 0
      BY <1>5, <1>10, <2>2
    <2>. QED
      BY <1>9, <2>1, <2>2
  <1>12. Cardinality(B) = c + Claims(hook'[h], s)
    <2>1. CASE Claims(hook'[h], s) = 1
      BY <1>6, <1>8, <1>10, <2>1
    <2>2. CASE Claims(hook'[h], s) = 0
      BY <1>6, <1>10, <2>2
    <2>. QED
      BY <1>9, <2>1, <2>2
  <1>. QED
    BY <1>1, <1>4, <1>11, <1>12

\* What every step of a hook keeps.
LEMMA HookKeeps ==
  ASSUME SubscriptionInv, NEW h \in Hooks, NEW y \in HookRows(Len(events)), HookGoes(h, y), events' = events,
         MoreIsPaid, PaidToNext(y.ends), PaidToNext(y.trial), y.step # "idle" => y.event # 0
  PROVE  HooksOK'
  <1>1. hook \in [Hooks -> HookRows(Len(events))]
    BY DEF SubscriptionInv, HooksOK
  <1>2. hook' \in [Hooks -> HookRows(Len(events))] /\ hook'[h] = y /\ \A g \in Hooks : g # h => hook'[g] = hook[g]
    BY <1>1 DEF HookGoes
  <1>3. ASSUME NEW g \in Hooks
        PROVE  /\ PaidToNext(hook'[g].ends) /\ PaidToNext(hook'[g].trial)
               /\ hook'[g].step # "idle" => hook'[g].event # 0
    <2>1. CASE g = h
      BY <1>2, <2>1
    <2>2. CASE g # h
      <3>1. PICK z \in HookRows(Len(events)) : z = hook[g] /\ z = hook'[g]
        BY <1>1, <1>2, <2>2
      <3>2. PaidTo(z.ends) /\ PaidTo(z.trial) /\ (z.step # "idle" => z.event # 0)
        BY <3>1 DEF SubscriptionInv, HooksOK
      <3>3. z.ends \in Int /\ z.trial \in Int
        BY InstantsCount DEF HookRows
      <3>4. PaidToNext(z.ends) /\ PaidToNext(z.trial)
        BY <3>2, <3>3 DEF MoreIsPaid
      <3>. QED
        BY <3>1, <3>2, <3>4
    <2>. QED
      BY <2>1, <2>2
  <1>. QED
    BY <1>2, <1>3 DEF HooksOK, PaidTo, PaidToNext

LEMMA OnceKept ==
  ASSUME SubscriptionInv, NEW h \in Hooks, NEW y, HookGoes(h, y), events' = events, Balanced(h, y),
         activated' \subseteq Subs, applied' \in [Subs -> Nat], lost' \in [Subs -> Nat]
  PROVE  OnceOK'
  <1>1. ASSUME NEW s \in Subs
        PROVE  applied'[s] + lost'[s] + Cardinality(Claiming(s)') = IF s \in activated' THEN 1 ELSE 0
    <2>1. PICK c \in Nat : /\ Cardinality(Claiming(s)) = c + Claims(hook[h], s)
                           /\ Cardinality(Claiming(s)') = c + Claims(y, s)
      <3>1. HooksOK
        BY DEF SubscriptionInv
      <3>. QED
        BY <3>1, ClaimingCounted
    <2>2. PICK k, l \in {0, 1} : k = Claims(hook[h], s) /\ l = Claims(y, s)
      BY DEF Claims
    <2>3. PICK i, j \in {0, 1} : i = Counted(s) /\ j = CountedNext(s)
      BY DEF Counted, CountedNext
    <2>4. PICK a, b, m, n \in Nat : a = applied[s] /\ b = lost[s] /\ m = applied'[s] /\ n = lost'[s]
      BY DEF SubscriptionInv, OnceOK
    <2>5. m + n + l + i = a + b + k + j
      BY <2>2, <2>3, <2>4 DEF Balanced
    <2>6. a + b + (c + k) = i
      BY <2>1, <2>2, <2>3, <2>4 DEF SubscriptionInv, OnceOK, Counted
    <2>7. m + n + (c + l) = j
      BY <2>5, <2>6
    <2>. QED
      BY <2>1, <2>2, <2>3, <2>4, <2>7 DEF CountedNext
  <1>. QED
    BY <1>1 DEF OnceOK

LEMMA OnceRests ==
  ASSUME SubscriptionInv, NEW h \in Hooks, NEW y, HookGoes(h, y), events' = events,
         activated' = activated, applied' = applied, lost' = lost,
         \A s \in Subs : Claims(hook[h], s) = Claims(y, s)
  PROVE  OnceOK'
  <1>1. Balanced(h, y)
    BY DEF Balanced, Counted, CountedNext
  <1>2. activated' \subseteq Subs /\ applied' \in [Subs -> Nat] /\ lost' \in [Subs -> Nat]
    BY DEF SubscriptionInv, OnceOK
  <1>. QED
    BY <1>1, <1>2, OnceKept

\* A step of a hook that does not touch the provider, nor guesses.
LEMMA HookMoves ==
  ASSUME SubscriptionInv, NEW h \in Hooks, NEW y \in HookRows(Len(events)), HookGoes(h, y),
         now' = now, billing' = billing, events' = events, guessed' = guessed,
         PaidTo(y.ends), PaidTo(y.trial), y.step # "idle" => y.event # 0
  PROVE  BillsOK' /\ EventsOK' /\ HooksOK'
  <1>1. MoreIsPaid /\ PaidToNext(y.ends) /\ PaidToNext(y.trial)
    BY DEF MoreIsPaid, PaidTo, PaidToNext
  <1>2. HooksOK'
    BY <1>1, HookKeeps
  <1>. QED
    BY <1>2, SubRests

LEMMA CachesCleared ==
  ASSUME SubscriptionInv, UNCHANGED <<now, billing, guessed, reading>>, ClearCaches
  PROVE  CacheOK' /\ mishaps' \in 0 .. MaxMishaps
  <1>1. NoEntry \in CacheRows /\ ~NoEntry.premium
    BY SubConstants DEF NoEntry, CacheRows
  <1>2. CASE cache' = [u \in Customers |-> NoEntry] /\ UNCHANGED mishaps
    BY <1>1, <1>2 DEF SubscriptionInv, CacheOK, MarksOK, PaidAfter
  <1>3. CASE mishaps < MaxMishaps /\ mishaps' = mishaps + 1 /\ UNCHANGED cache
    <2>1. CacheOK'
      BY <1>3 DEF SubscriptionInv, CacheOK, PaidAfter
    <2>2. mishaps \in 0 .. MaxMishaps /\ MaxMishaps \in Nat
      BY SubConstants DEF SubscriptionInv, MarksOK
    <2>. QED
      BY <1>3, <2>1, <2>2
  <1>. QED
    BY <1>2, <1>3 DEF ClearCaches

\* An idle hook, and one that goes on with what it has.
LEMMA HookRowsMade ==
  ASSUME SubscriptionInv, NEW x \in HookRows(Len(events)), NEW step \in HookSteps
  PROVE  /\ Idle \in HookRows(Len(events)) /\ Idle.ends = 0 /\ Idle.trial = 0 /\ Idle.step = "idle"
         /\ PaidTo(0)
         /\ \E y \in HookRows(Len(events)) :
              /\ y = [x EXCEPT !.step = step] /\ y.step = step /\ y.event = x.event
              /\ y.ends = x.ends /\ y.trial = x.trial
  <1>1. 0 \in 0 .. Len(events)
    <2>1. Len(events) \in Nat
      BY DEF SubscriptionInv, EventsOK
    <2>. QED
      BY <2>1
  <1>2. Idle \in HookRows(Len(events)) /\ Idle.ends = 0 /\ Idle.trial = 0 /\ Idle.step = "idle"
    BY <1>1, SubConstants DEF Idle, HookRows, HookSteps
  <1>3. PICK y : y = [x EXCEPT !.step = step]
    OBVIOUS
  <1>4. /\ y \in HookRows(Len(events)) /\ y.step = step /\ y.event = x.event
        /\ y.ends = x.ends /\ y.trial = x.trial
    BY <1>3 DEF HookRows
  <1>5. PaidTo(0)
    BY SubConstants DEF SubscriptionInv, BillsOK, PaidTo
  <1>. QED
    BY <1>2, <1>3, <1>4, <1>5

\* A hook that goes on with its event and dates, or has answered.
LEMMA HookAdvances ==
  ASSUME SubscriptionInv, NEW h \in Hooks, hook[h].step # "idle", NEW step \in HookSteps,
         Move(h, step) \/ Answered(h), now' = now, billing' = billing, events' = events, guessed' = guessed
  PROVE  /\ BillsOK' /\ EventsOK' /\ HooksOK'
         /\ \E y \in HookRows(Len(events)) :
              HookGoes(h, y) /\ y.step \in {step, "idle"} /\ (Move(h, step) => y.step = step /\ y.event = hook[h].event)
  <1>1. PICK x \in HookRows(Len(events)) : /\ x = hook[h] /\ PaidTo(x.ends) /\ PaidTo(x.trial)
                                           /\ x.step # "idle" => x.event \in 1 .. Len(events)
    BY HookFacts
  <1>2. /\ Idle \in HookRows(Len(events)) /\ Idle.ends = 0 /\ Idle.trial = 0 /\ Idle.step = "idle"
        /\ PaidTo(0)
        /\ \E y \in HookRows(Len(events)) :
             /\ y = [x EXCEPT !.step = step] /\ y.step = step /\ y.event = x.event
             /\ y.ends = x.ends /\ y.trial = x.trial
    BY HookRowsMade
  <1>3. x.event # 0
    BY <1>1
  <1>4. CASE Move(h, step)
    <2>1. PICK y \in HookRows(Len(events)) : /\ y = [x EXCEPT !.step = step] /\ y.step = step /\ y.event = x.event
                                             /\ y.ends = x.ends /\ y.trial = x.trial
      BY <1>2
    <2>2. HookGoes(h, y)
      BY <1>1, <1>4, <2>1 DEF Move, HookGoes
    <2>3. PaidTo(y.ends) /\ PaidTo(y.trial) /\ (y.step # "idle" => y.event # 0)
      BY <1>1, <1>3, <2>1
    <2>4. BillsOK' /\ EventsOK' /\ HooksOK'
      BY <2>2, <2>3, HookMoves
    <2>. QED
      BY <1>1, <2>1, <2>2, <2>4
  <1>5. CASE Answered(h) /\ ~Move(h, step)
    <2>1. HookGoes(h, Idle)
      BY <1>5 DEF Answered, HookGoes
    <2>2. BillsOK' /\ EventsOK' /\ HooksOK'
      BY <1>2, <2>1, HookMoves
    <2>. QED
      BY <1>2, <1>5, <2>1, <2>2
  <1>. QED
    BY <1>4, <1>5

LEMMA ReceiveKept ==
  ASSUME SubscriptionInv, NEW h \in Hooks, NEW i \in 1 .. Len(events), Receive(h, i) PROVE SubscriptionInv'
  <1>1. PICK x \in HookRows(Len(events)) : x = hook[h] /\ PaidTo(x.ends) /\ PaidTo(x.trial) /\ Len(events) \in Nat
    BY HookFacts
  <1>2. x.step = "idle"
    BY <1>1 DEF Receive, At
  <1>3. PICK step \in {"claim", "update", "downgrade"} :
          hook' = [hook EXCEPT ![h] = [Idle EXCEPT !.event = i, !.step = step]]
    <2>1. PICK step : step = CASE events[i].kind \in ActivatingKinds -> "claim"
                               [] events[i].kind = "subscription.updated" -> "update"
                               [] OTHER -> "downgrade"
      OBVIOUS
    <2>2. step \in {"claim", "update", "downgrade"}
      BY <2>1
    <2>3. hook' = [hook EXCEPT ![h] = [Idle EXCEPT !.event = i, !.step = step]]
      BY <2>1 DEF Receive
    <2>. QED
      BY <2>2, <2>3
  <1>4. PICK y : y = [Idle EXCEPT !.event = i, !.step = step]
    OBVIOUS
  <1>5. y \in HookRows(Len(events)) /\ y.step = step /\ y.event = i /\ y.ends = 0 /\ y.trial = 0 /\ y.event # 0
    <2>1. i \in 0 .. Len(events) /\ i # 0
      BY <1>1
    <2>. QED
      BY <1>4, <2>1, SubConstants DEF Idle, HookRows, HookSteps
  <1>6. PaidTo(y.ends) /\ PaidTo(y.trial)
    BY <1>1, <1>5, HookRowsMade DEF HookSteps
  <1>7. /\ now' = now /\ billing' = billing /\ events' = events /\ guessed' = guessed /\ processed' = processed \cup {i}
        /\ activated' = activated /\ applied' = applied /\ lost' = lost
        /\ UNCHANGED <<owner, subrow, cache, reading, swept, mishaps>> /\ HookGoes(h, y)
    BY <1>3, <1>4 DEF Receive, billingVars, cacheVars, subHistory, HookGoes
  <1>8. \A s \in Subs : Claims(hook[h], s) = Claims(y, s)
    BY <1>1, <1>2, <1>5 DEF Claims
  <1>9. BillsOK' /\ EventsOK' /\ HooksOK'
    BY <1>5, <1>6, <1>7, HookMoves
  <1>10. OnceOK'
    BY <1>7, <1>8, OnceRests
  <1>11. OwnerOK' /\ RowOK' /\ CacheOK'
    BY <1>7, SubRests
  <1>12. MarksOK'
    BY <1>7 DEF SubscriptionInv, MarksOK
  <1>. QED
    BY <1>9, <1>10, <1>11, <1>12 DEF SubscriptionInv

LEMMA ClaimKept == ASSUME SubscriptionInv, NEW h \in Hooks, ClaimMarker(h) PROVE SubscriptionInv'
  <1>1. hook[h].step = "claim" /\ hook[h].step # "idle"
    BY DEF ClaimMarker, At
  <1>2. PICK e \in EventRows : e = events[hook[h].event] /\ e = EventOf(h) /\ e.sub \in Subs
    BY <1>1, HookFacts DEF EventRows
  <1>3. /\ now' = now /\ billing' = billing /\ events' = events /\ guessed' = guessed
        /\ UNCHANGED <<owner, processed, subrow, cache, reading, swept, mishaps>>
        /\ applied' = applied /\ lost' = lost
    BY DEF ClaimMarker, billingVars, cacheVars, subHistory
  <1>4. \A s \in Subs : Claims(hook[h], s) = 0
    BY <1>1 DEF Claims
  <1>5. OwnerOK' /\ RowOK' /\ CacheOK' /\ MarksOK'
    BY <1>3, SubRests
  <1>6. CASE e.sub \notin activated /\ activated' = activated \cup {e.sub} /\ Move(h, "retrieve")
    <2>1. PICK y \in HookRows(Len(events)) : HookGoes(h, y) /\ y.step = "retrieve" /\ y.event = hook[h].event
      BY <1>1, <1>3, <1>6, HookAdvances DEF HookSteps
    <2>2. BillsOK' /\ EventsOK' /\ HooksOK'
      BY <1>1, <1>3, <1>6, HookAdvances DEF HookSteps
    <2>3. ASSUME NEW s \in Subs
          PROVE  applied'[s] + lost'[s] + Claims(y, s) + Counted(s)
                 = applied[s] + lost[s] + Claims(hook[h], s) + CountedNext(s)
      <3>1. PICK m, n \in Nat : m = applied[s] /\ n = lost[s] /\ m = applied'[s] /\ n = lost'[s]
        BY <1>3 DEF SubscriptionInv, OnceOK
      <3>2. CASE s = e.sub
        <4>1. Claims(y, s) = 1 /\ Counted(s) = 0 /\ CountedNext(s) = 1 /\ Claims(hook[h], s) = 0
          BY <1>2, <1>4, <1>6, <2>1, <3>2 DEF Claims, Counted, CountedNext
        <4>. QED
          BY <3>1, <4>1
      <3>3. CASE s # e.sub
        <4>1. Claims(y, s) = 0 /\ Counted(s) = CountedNext(s) /\ Claims(hook[h], s) = 0
          BY <1>2, <1>4, <1>6, <2>1, <3>3 DEF Claims, Counted, CountedNext
        <4>. QED
          BY <3>1, <4>1
      <3>. QED
        BY <3>2, <3>3
    <2>4. Balanced(h, y)
      BY <2>3 DEF Balanced
    <2>5. activated' \subseteq Subs /\ applied' \in [Subs -> Nat] /\ lost' \in [Subs -> Nat]
      BY <1>2, <1>3, <1>6 DEF SubscriptionInv, OnceOK
    <2>6. OnceOK'
      BY <1>3, <2>1, <2>4, <2>5, OnceKept
    <2>. QED
      BY <1>5, <2>2, <2>6 DEF SubscriptionInv
  <1>7. CASE activated' = activated /\ (Move(h, "update") \/ Answered(h))
    <2>1. PICK y \in HookRows(Len(events)) : HookGoes(h, y) /\ y.step \in {"update", "idle"}
      BY <1>1, <1>3, <1>7, HookAdvances DEF HookSteps
    <2>2. BillsOK' /\ EventsOK' /\ HooksOK'
      BY <1>1, <1>3, <1>7, HookAdvances DEF HookSteps
    <2>3. \A s \in Subs : Claims(hook[h], s) = Claims(y, s)
      BY <1>4, <2>1 DEF Claims
    <2>4. OnceOK'
      BY <1>3, <1>7, <2>1, <2>3, OnceRests
    <2>. QED
      BY <1>5, <2>2, <2>4 DEF SubscriptionInv
  <1>. QED
    BY <1>2, <1>6, <1>7 DEF ClaimMarker

LEMMA RetrieveKept == ASSUME SubscriptionInv, NEW h \in Hooks, Retrieve(h) PROVE SubscriptionInv'
  <1>1. PICK x \in HookRows(Len(events)) : /\ x = hook[h]
                                           /\ x.step # "idle" => /\ x.event \in 1 .. Len(events)
                                                                 /\ \E e \in EventRows : e = EventOf(h) /\ IsPaid(e.sub)
    BY HookFacts
  <1>2. x.step = "retrieve" /\ x.step # "idle" /\ x.event # 0
    BY <1>1 DEF Retrieve, At
  <1>3. PICK e \in EventRows : e = EventOf(h) /\ IsPaid(e.sub) /\ e.sub \in Subs
    BY <1>1, <1>2 DEF EventRows
  <1>4. PICK b \in BillRows : /\ b = billing[e.sub] /\ b.ends \in Nat /\ b.trial \in Nat
                              /\ b.status \in RowStatus => b.trial <= b.ends
    BY <1>3, BillFacts
  <1>5. /\ now' = now /\ billing' = billing /\ events' = events
        /\ UNCHANGED <<owner, processed, subrow, cache, reading, swept>>
        /\ activated' = activated /\ applied' = applied /\ lost' = lost
    BY DEF Retrieve, billingVars, markerVars, cacheVars
  <1>6. now \in 0 .. MaxNow /\ now + Period \in Instants /\ 0 \in Instants /\ now \in Int /\ guessed \in Instants
    BY SubConstants DEF SubscriptionInv, BillsOK
  \* The dates that the hook goes on with are paid after the step.
  <1>7. \E y \in HookRows(Len(events)) :
          /\ HookGoes(h, y) /\ y.step = "activate" /\ y.event = x.event
          /\ PaidToNext(y.ends) /\ PaidToNext(y.trial)
          /\ guessed' \in Instants /\ guessed <= guessed' /\ guessed' <= now + Period /\ mishaps' \in 0 .. MaxMishaps
    <2>1. CASE /\ hook' = [hook EXCEPT ![h] = [@ EXCEPT !.step = "activate", !.ends = b.ends, !.trial = b.trial]]
               /\ UNCHANGED <<mishaps, guessed>>
      <3>1. PICK y : y = [x EXCEPT !.step = "activate", !.ends = b.ends, !.trial = b.trial]
        OBVIOUS
      <3>2. HookGoes(h, y)
        BY <1>1, <2>1, <3>1 DEF HookGoes, SubscriptionInv, HooksOK
      <3>3. /\ y \in HookRows(Len(events)) /\ y.step = "activate" /\ y.event = x.event
            /\ y.ends = b.ends /\ y.trial = b.trial
        BY <3>1 DEF HookRows, HookSteps, BillRows
      <3>4. b.status \in RowStatus /\ b.trial <= b.ends
        BY <1>3, <1>4 DEF IsPaid
      <3>5. billing'[e.sub].ends = b.ends
        BY <1>4, <1>5
      <3>6. PaidToNext(y.ends) /\ PaidToNext(y.trial)
        BY <1>3, <1>4, <3>3, <3>4, <3>5 DEF PaidToNext
      <3>7. guessed' \in Instants /\ guessed <= guessed' /\ guessed' <= now + Period /\ mishaps' \in 0 .. MaxMishaps
        BY <2>1, InstantsCount DEF SubscriptionInv, BillsOK, MarksOK
      <3>. QED
        BY <3>2, <3>3, <3>6, <3>7
    <2>2. CASE /\ mishaps < MaxMishaps /\ mishaps' = mishaps + 1
               /\ hook' = [hook EXCEPT ![h] = [@ EXCEPT !.step = "activate", !.ends = now + Period, !.trial = 0]]
               /\ guessed' = now + Period
      <3>1. PICK y : y = [x EXCEPT !.step = "activate", !.ends = now + Period, !.trial = 0]
        OBVIOUS
      <3>2. HookGoes(h, y)
        BY <1>1, <2>2, <3>1 DEF HookGoes, SubscriptionInv, HooksOK
      <3>3. /\ y \in HookRows(Len(events)) /\ y.step = "activate" /\ y.event = x.event
            /\ y.ends = now + Period /\ y.trial = 0
        BY <1>6, <3>1 DEF HookRows, HookSteps
      <3>4. 0 <= guessed' /\ guessed' <= guessed' /\ guessed' \in Instants
        BY <1>6, <2>2, SubConstants
      <3>5. PaidToNext(y.ends) /\ PaidToNext(y.trial)
        BY <2>2, <3>3, <3>4 DEF PaidToNext
      <3>6. guessed <= now + Period /\ now + Period \in Int
        BY <1>6, InstantsCount DEF SubscriptionInv, BillsOK
      <3>7. mishaps' \in 0 .. MaxMishaps
        BY <2>2, SubConstants DEF SubscriptionInv, MarksOK
      <3>. QED
        BY <2>2, <3>2, <3>3, <3>4, <3>5, <3>6, <3>7
    <2>. QED
      BY <1>3, <1>4, <2>1, <2>2 DEF Retrieve
  <1>8. PICK y \in HookRows(Len(events)) :
          /\ HookGoes(h, y) /\ y.step = "activate" /\ y.event = x.event
          /\ PaidToNext(y.ends) /\ PaidToNext(y.trial)
          /\ guessed' \in Instants /\ guessed <= guessed' /\ guessed' <= now + Period /\ mishaps' \in 0 .. MaxMishaps
    BY <1>7
  <1>9. BillsOK'
    BY <1>5, <1>8 DEF SubscriptionInv, BillsOK, IsPaid
  <1>10. \A s \in Subs : billing[s].ends <= billing'[s].ends /\ (IsPaid(s) => IsPaidNext(s))
    <2>1. \A s \in Subs : billing[s].ends \in Int
      BY InstantsCount DEF SubscriptionInv, BillsOK, BillRows
    <2>. QED
      BY <1>5, <2>1 DEF IsPaid, IsPaidNext
  <1>11. events' \in Seq(EventRows) /\ Len(events) <= Len(events') /\ \A i \in 1 .. Len(events) : events'[i] = events[i]
    BY <1>5 DEF SubscriptionInv, EventsOK
  <1>12. /\ \A z \in Int : (PaidTo(z) => PaidToNext(z)) /\ (PaidAfter(z) => PaidAfterNext(z))
         /\ \A i \in 1 .. Len(events) :
              IsPaidNext(events'[i].sub) /\ PaidToNext(events'[i].ends) /\ PaidToNext(events'[i].trial)
         /\ RowOK' /\ OwnerOK' /\ CacheOK'
    BY <1>5, <1>8, <1>9, <1>10, <1>11, SubGrows
  <1>13. EventsOK'
    BY <1>5, <1>12 DEF SubscriptionInv, EventsOK, IsPaid, IsPaidNext, PaidTo, PaidToNext
  <1>14. HooksOK'
    <2>1. MoreIsPaid /\ y.event # 0
      BY <1>2, <1>8, <1>12 DEF MoreIsPaid
    <2>. QED
      BY <1>5, <1>8, <2>1, HookKeeps
  <1>15. OnceOK'
    <2>1. \A s \in Subs : Claims(hook[h], s) = Claims(y, s)
      BY <1>1, <1>2, <1>8 DEF Claims
    <2>. QED
      BY <1>5, <1>8, <2>1, OnceRests
  <1>16. MarksOK'
    BY <1>5, <1>8 DEF SubscriptionInv, MarksOK
  <1>. QED
    BY <1>9, <1>12, <1>13, <1>14, <1>15, <1>16 DEF SubscriptionInv

LEMMA ActivateKept == ASSUME SubscriptionInv, NEW h \in Hooks, Activate(h) PROVE SubscriptionInv'
  <1>1. PICK x \in HookRows(Len(events)) : /\ x = hook[h] /\ PaidTo(x.ends) /\ PaidTo(x.trial)
                                           /\ x.step # "idle" => /\ x.event \in 1 .. Len(events)
                                                                 /\ \E e \in EventRows : /\ e = events[x.event] /\ e = EventOf(h)
                                                                                         /\ IsPaid(e.sub)
    BY HookFacts
  <1>2. x.step = "activate" /\ x.step # "idle"
    BY <1>1 DEF Activate, At
  <1>3. PICK e \in EventRows : e = events[x.event] /\ e = EventOf(h) /\ IsPaid(e.sub) /\ e.sub \in Subs
    BY <1>1, <1>2 DEF EventRows
  <1>4. /\ now' = now /\ billing' = billing /\ events' = events /\ guessed' = guessed
        /\ UNCHANGED <<owner, processed, cache, reading, swept, mishaps>>
        /\ activated' = activated /\ lost' = lost
    BY DEF Activate, billingVars, markerVars, cacheVars
  <1>5. PICK y \in HookRows(Len(events)) : HookGoes(h, y) /\ y.step = "clear"
    BY <1>1, <1>2, <1>4, HookAdvances DEF HookSteps, Activate
  <1>6. BillsOK' /\ EventsOK' /\ HooksOK'
    BY <1>1, <1>2, <1>4, HookAdvances DEF HookSteps, Activate
  <1>7. RowOK'
    <2>1. PICK r : r = [status |-> "ACTIVE", sub |-> e.sub, ends |-> x.ends, trial |-> x.trial, leaving |-> FALSE]
      OBVIOUS
    <2>2. r \in SubRows /\ r.sub = e.sub /\ r.ends = x.ends /\ r.trial = x.trial
      BY <1>3, <2>1 DEF SubRows, RowStatus, HookRows
    <2>3. subrow' = r
      BY <1>1, <1>3, <2>1 DEF Activate
    <2>4. PaidToNext(r.ends) /\ PaidToNext(r.trial) /\ IsPaidNext(r.sub)
      BY <1>1, <1>3, <1>4, <2>2 DEF PaidTo, PaidToNext, IsPaid, IsPaidNext
    <2>. QED
      BY <2>2, <2>3, <2>4 DEF RowOK, PaidTo, PaidToNext, IsPaid, IsPaidNext
  <1>8. applied' = [applied EXCEPT ![e.sub] = @ + 1]
    BY <1>3 DEF Activate
  <1>9. ASSUME NEW s \in Subs
        PROVE  applied'[s] + lost'[s] + Claims(y, s) + Counted(s)
               = applied[s] + lost[s] + Claims(hook[h], s) + CountedNext(s)
    <2>1. PICK m, n \in Nat : m = applied[s] /\ n = lost[s] /\ n = lost'[s]
      BY <1>4 DEF SubscriptionInv, OnceOK
    <2>2. PICK i \in {0, 1} : i = Counted(s) /\ i = CountedNext(s)
      BY <1>4 DEF Counted, CountedNext
    <2>3. Claims(y, s) = 0
      BY <1>5 DEF Claims
    <2>4. CASE s = e.sub
      <3>1. applied'[s] = m + 1
        BY <1>8, <2>1, <2>4 DEF SubscriptionInv, OnceOK
      <3>2. Claims(hook[h], s) = 1
        BY <1>1, <1>2, <1>3, <2>4 DEF Claims
      <3>3. applied'[s] + lost'[s] + Claims(y, s) + Counted(s) = (m + 1) + n + 0 + i
        BY <2>1, <2>2, <2>3, <3>1
      <3>4. applied[s] + lost[s] + Claims(hook[h], s) + CountedNext(s) = m + n + 1 + i
        BY <2>1, <2>2, <3>2
      <3>5. (m + 1) + n + 0 + i = m + n + 1 + i
        OBVIOUS
      <3>. QED
        BY <3>3, <3>4, <3>5
    <2>5. CASE s # e.sub
      <3>1. applied'[s] = m
        BY <1>8, <2>1, <2>5 DEF SubscriptionInv, OnceOK
      <3>2. Claims(hook[h], s) = 0
        BY <1>1, <1>2, <1>3, <2>5 DEF Claims
      <3>. QED
        BY <2>1, <2>2, <2>3, <3>1, <3>2
    <2>. QED
      BY <2>4, <2>5
  <1>10. Balanced(h, y)
    BY <1>9 DEF Balanced
  <1>11. activated' \subseteq Subs /\ applied' \in [Subs -> Nat] /\ lost' \in [Subs -> Nat]
    BY <1>3, <1>4, <1>8 DEF SubscriptionInv, OnceOK
  <1>12. OnceOK'
    BY <1>4, <1>5, <1>10, <1>11, OnceKept
  <1>13. OwnerOK' /\ CacheOK' /\ MarksOK'
    BY <1>4, SubRests
  <1>. QED
    BY <1>6, <1>7, <1>12, <1>13 DEF SubscriptionInv

LEMMA ClearAfterHookKept == ASSUME SubscriptionInv, NEW h \in Hooks, ClearAfterHook(h) PROVE SubscriptionInv'
  <1>1. hook[h].step \in {"clear", "clearLast"} /\ hook[h].step # "idle" /\ (Move(h, "update") \/ Answered(h))
    BY DEF ClearAfterHook, At
  <1>2. /\ now' = now /\ billing' = billing /\ events' = events /\ guessed' = guessed
        /\ UNCHANGED <<owner, processed, reading, swept, subrow>> /\ ClearCaches
        /\ activated' = activated /\ lost' = lost /\ applied' = applied
    BY DEF ClearAfterHook, billingVars, markerVars, subHistory
  <1>3. PICK y \in HookRows(Len(events)) : HookGoes(h, y) /\ y.step \in {"update", "idle"}
    BY <1>1, <1>2, HookAdvances DEF HookSteps
  <1>4. BillsOK' /\ EventsOK' /\ HooksOK'
    BY <1>1, <1>2, HookAdvances DEF HookSteps
  <1>5. \A s \in Subs : Claims(hook[h], s) = Claims(y, s)
    BY <1>1, <1>3 DEF Claims
  <1>6. OnceOK'
    BY <1>2, <1>3, <1>5, OnceRests
  <1>7. CacheOK' /\ mishaps' \in 0 .. MaxMishaps
    BY <1>2, CachesCleared
  <1>8. MarksOK'
    BY <1>2, <1>7 DEF SubscriptionInv, MarksOK
  <1>9. OwnerOK' /\ RowOK'
    BY <1>2, SubRests
  <1>. QED
    BY <1>4, <1>6, <1>7, <1>8, <1>9 DEF SubscriptionInv

\* The row follows an event: its new dates are those of the event, or its own.
LEMMA RowWritten ==
  ASSUME SubscriptionInv, NEW h \in Hooks, hook[h].step \in {"update", "downgrade"},
         now' = now, billing' = billing, events' = events, guessed' = guessed,
         UNCHANGED <<owner, processed, cache, reading, swept, mishaps>>,
         activated' = activated, lost' = lost, applied' = applied,
         Move(h, "clearLast") \/ Answered(h), RowOK'
  PROVE  SubscriptionInv'
  <1>1. hook[h].step # "idle"
    OBVIOUS
  <1>2. PICK y \in HookRows(Len(events)) : HookGoes(h, y) /\ y.step \in {"clearLast", "idle"}
    BY <1>1, HookAdvances DEF HookSteps
  <1>3. BillsOK' /\ EventsOK' /\ HooksOK'
    BY <1>1, HookAdvances DEF HookSteps
  <1>4. \A s \in Subs : Claims(hook[h], s) = Claims(y, s)
    BY <1>2 DEF Claims
  <1>5. OnceOK'
    BY <1>2, <1>4, OnceRests
  <1>6. OwnerOK' /\ CacheOK' /\ MarksOK'
    BY SubRests
  <1>. QED
    BY <1>3, <1>5, <1>6 DEF SubscriptionInv

LEMMA UpdateKept == ASSUME SubscriptionInv, NEW h \in Hooks, Update(h) PROVE SubscriptionInv'
  <1>1. hook[h].step \in {"update", "downgrade"} /\ hook[h].step # "idle"
    BY DEF Update, At
  <1>2. PICK e \in EventRows : e = EventOf(h) /\ IsPaid(e.sub) /\ PaidTo(e.ends) /\ PaidTo(e.trial) /\ e.sub \in Subs
    BY <1>1, HookFacts DEF EventRows
  <1>3. /\ now' = now /\ billing' = billing /\ events' = events /\ guessed' = guessed
        /\ UNCHANGED <<owner, processed, cache, reading, swept, mishaps>>
        /\ activated' = activated /\ lost' = lost /\ applied' = applied /\ (Move(h, "clearLast") \/ Answered(h))
    BY DEF Update, billingVars, markerVars, cacheVars, subHistory
  <1>4. CASE subrow' = subrow
    BY <1>3, <1>4, SubRests, <1>1, RowWritten
  <1>5. CASE subrow' = [status |-> e.status, sub |-> e.sub, ends |-> e.ends, trial |-> e.trial, leaving |-> e.leaving]
    <2>1. PICK r : r = [status |-> e.status, sub |-> e.sub, ends |-> e.ends, trial |-> e.trial, leaving |-> e.leaving]
      OBVIOUS
    <2>2. r \in SubRows /\ r.sub = e.sub /\ r.ends = e.ends /\ r.trial = e.trial
      BY <2>1 DEF SubRows, EventRows
    <2>3. PaidToNext(r.ends) /\ PaidToNext(r.trial) /\ IsPaidNext(r.sub)
      BY <1>2, <1>3, <2>2 DEF PaidTo, PaidToNext, IsPaid, IsPaidNext
    <2>4. RowOK'
      BY <1>5, <2>1, <2>2, <2>3 DEF RowOK, PaidTo, PaidToNext, IsPaid, IsPaidNext
    <2>. QED
      BY <1>1, <1>3, <2>4, RowWritten
  <1>. QED
    BY <1>2, <1>4, <1>5 DEF Update

LEMMA DowngradeKept == ASSUME SubscriptionInv, NEW h \in Hooks, Downgrade(h) PROVE SubscriptionInv'
  <1>1. hook[h].step \in {"update", "downgrade"}
    BY DEF Downgrade, At
  <1>2. /\ now' = now /\ billing' = billing /\ events' = events /\ guessed' = guessed
        /\ UNCHANGED <<owner, processed, cache, reading, swept, mishaps>>
        /\ activated' = activated /\ lost' = lost /\ applied' = applied /\ (Move(h, "clearLast") \/ Answered(h))
    BY DEF Downgrade, billingVars, markerVars, cacheVars, subHistory
  <1>3. PICK st \in RowStatus : st = IF EventOf(h).kind = "payment.cancelled" THEN "ON_HOLD" ELSE "PAST_DUE"
    BY DEF RowStatus
  <1>4. CASE subrow' = subrow
    BY <1>1, <1>2, <1>4, SubRests, RowWritten
  <1>5. CASE subrow' = [subrow EXCEPT !.status = st]
    <2>1. PICK q \in SubRows : q = subrow
      BY DEF SubscriptionInv, RowOK
    <2>2. PICK r : r = [q EXCEPT !.status = st]
      OBVIOUS
    <2>3. r \in SubRows /\ r.sub = q.sub /\ r.ends = q.ends /\ r.trial = q.trial
      BY <2>2 DEF SubRows
    <2>4. PaidToNext(r.ends) /\ PaidToNext(r.trial) /\ (r.sub # NoSub => IsPaidNext(r.sub))
      BY <1>2, <2>1, <2>3 DEF SubscriptionInv, RowOK, PaidTo, PaidToNext, IsPaid, IsPaidNext
    <2>5. RowOK'
      BY <1>5, <2>1, <2>2, <2>3, <2>4 DEF RowOK, PaidTo, PaidToNext, IsPaid, IsPaidNext
    <2>. QED
      BY <1>1, <1>2, <2>5, RowWritten
  <1>. QED
    BY <1>3, <1>4, <1>5 DEF Downgrade

LEMMA HookFailsKept == ASSUME SubscriptionInv, NEW h \in Hooks, HookFails(h) PROVE SubscriptionInv'
  <1>1. PICK x \in HookRows(Len(events)) : /\ x = hook[h]
                                           /\ x.step # "idle" => \E e \in EventRows : e = events[x.event] /\ e = EventOf(h)
    BY HookFacts
  <1>2. x.step # "idle" /\ hook[h].step # "idle"
    BY <1>1 DEF HookFails, At
  <1>3. PICK e \in EventRows : e = events[x.event] /\ e = EventOf(h) /\ e.sub \in Subs
    BY <1>1, <1>2 DEF EventRows
  <1>4. /\ now' = now /\ billing' = billing /\ events' = events /\ guessed' = guessed
        /\ UNCHANGED <<owner, processed, cache, reading, swept, subrow>>
        /\ activated' = activated /\ applied' = applied /\ Answered(h) /\ mishaps' = mishaps + 1 /\ mishaps < MaxMishaps
    BY DEF HookFails, Answered, billingVars, markerVars, cacheVars
  <1>5. Idle \in HookRows(Len(events)) /\ Idle.step = "idle" /\ HookGoes(h, Idle)
    BY <1>1, <1>4, HookRowsMade DEF HookSteps, Answered, HookGoes
  <1>6. BillsOK' /\ EventsOK' /\ HooksOK'
    BY <1>2, <1>4, HookAdvances DEF HookSteps
  <1>7. \A s \in Subs : Claims(Idle, s) = 0
    BY <1>5 DEF Claims
  <1>8. OnceOK'
    <2>1. CASE x.step \in {"retrieve", "activate"}
      <3>1. lost' = [lost EXCEPT ![e.sub] = @ + 1]
        BY <1>1, <1>3, <2>1 DEF HookFails
      <3>2. ASSUME NEW s \in Subs
            PROVE  applied'[s] + lost'[s] + Claims(Idle, s) + Counted(s)
                   = applied[s] + lost[s] + Claims(hook[h], s) + CountedNext(s)
        <4>1. PICK m, n \in Nat : m = applied[s] /\ n = lost[s] /\ m = applied'[s]
          BY <1>4 DEF SubscriptionInv, OnceOK
        <4>2. PICK i \in {0, 1} : i = Counted(s) /\ i = CountedNext(s)
          BY <1>4 DEF Counted, CountedNext
        <4>3. CASE s = e.sub
          <5>1. lost'[s] = n + 1
            BY <3>1, <4>1, <4>3 DEF SubscriptionInv, OnceOK
          <5>2. Claims(hook[h], s) = 1
            BY <1>1, <1>3, <2>1, <4>3 DEF Claims
          <5>3. applied'[s] + lost'[s] + Claims(Idle, s) + Counted(s) = m + (n + 1) + 0 + i
            BY <1>7, <4>1, <4>2, <5>1
          <5>4. applied[s] + lost[s] + Claims(hook[h], s) + CountedNext(s) = m + n + 1 + i
            BY <4>1, <4>2, <5>2
          <5>5. m + (n + 1) + 0 + i = m + n + 1 + i
            OBVIOUS
          <5>. QED
            BY <5>3, <5>4, <5>5
        <4>4. CASE s # e.sub
          <5>1. lost'[s] = n
            BY <3>1, <4>1, <4>4 DEF SubscriptionInv, OnceOK
          <5>2. Claims(hook[h], s) = 0
            BY <1>1, <1>3, <4>4 DEF Claims
          <5>. QED
            BY <1>7, <4>1, <4>2, <5>1, <5>2
        <4>. QED
          BY <4>3, <4>4
      <3>3. Balanced(h, Idle)
        BY <3>2 DEF Balanced
      <3>4. activated' \subseteq Subs /\ applied' \in [Subs -> Nat] /\ lost' \in [Subs -> Nat]
        BY <1>3, <1>4, <3>1 DEF SubscriptionInv, OnceOK
      <3>. QED
        BY <1>4, <1>5, <3>3, <3>4, OnceKept
    <2>2. CASE x.step \notin {"retrieve", "activate"}
      <3>1. lost' = lost
        BY <1>1, <2>2 DEF HookFails
      <3>2. \A s \in Subs : Claims(hook[h], s) = Claims(Idle, s)
        BY <1>1, <1>7, <2>2 DEF Claims
      <3>. QED
        BY <1>4, <1>5, <3>1, <3>2, OnceRests
    <2>. QED
      BY <2>1, <2>2
  <1>9. MarksOK'
    <2>1. mishaps' \in 0 .. MaxMishaps
      BY <1>4, SubConstants DEF SubscriptionInv, MarksOK
    <2>. QED
      BY <1>4, <2>1 DEF SubscriptionInv, MarksOK
  <1>10. OwnerOK' /\ RowOK' /\ CacheOK'
    BY <1>4, SubRests
  <1>. QED
    BY <1>6, <1>8, <1>9, <1>10 DEF SubscriptionInv

(***************************************************************************)
(* The cached answers, the owner's requests, the sweep.                    *)
(***************************************************************************)
\* Who is premium by the row has paid beyond now.
LEMMA PremiumPaysNow == ASSUME SubscriptionInv, RowPremium PROVE PaidAfter(now)
  <1>1. PICK x \in Nat : PaidTo(x) /\ now < x
    <2>1. subrow.ends \in Nat /\ subrow.trial \in Nat
      BY SubConstants DEF SubscriptionInv, RowOK, SubRows
    <2>2. now < subrow.ends \/ now < subrow.trial
      BY <2>1 DEF RowPremium, SubscriptionInv, BillsOK
    <2>. QED
      BY <2>1, <2>2 DEF SubscriptionInv, RowOK
  <1>2. now \in Int /\ guessed \in Int /\ \A s \in Subs : billing[s].ends \in Int
    BY InstantsCount DEF SubscriptionInv, BillsOK, BillRows
  <1>. QED
    BY <1>1, <1>2 DEF PaidTo, PaidAfter

LEMMA NoEntryRow == NoEntry \in CacheRows /\ NoEntry \in ReadRows /\ ~NoEntry.premium
  BY SubConstants DEF NoEntry, CacheRows, ReadRows

LEMMA MissCacheKept == ASSUME SubscriptionInv, NEW u \in Customers, MissCache(u) PROVE SubscriptionInv'
  <1>1. /\ now' = now /\ billing' = billing /\ events' = events /\ guessed' = guessed
        /\ UNCHANGED <<owner, processed, swept, subrow, hook, mishaps, activated, applied, lost>>
    BY DEF MissCache, billingVars, markerVars, subHistory
  <1>2. BillsOK' /\ EventsOK' /\ HooksOK' /\ OwnerOK' /\ RowOK' /\ MarksOK' /\ OnceOK'
    BY <1>1, SubRests
  <1>3. PICK p \in BOOLEAN : p = RowPremium
    BY DEF RowPremium
  <1>4. PICK ends \in Instants : ends = IF u = "owner" /\ RowPremium THEN Earliest(subrow.ends, subrow.trial) ELSE 0
    BY SubConstants DEF Earliest, SubscriptionInv, RowOK, SubRows
  <1>5. PICK a : a = [premium |-> p, ends |-> ends, until |-> 0]
    OBVIOUS
  <1>6. a \in ReadRows /\ a.premium = p
    BY <1>5 DEF ReadRows
  <1>7. cache' = [cache EXCEPT ![u] = NoEntry] /\ reading' = [reading EXCEPT ![u] = a]
    BY <1>3, <1>4, <1>5 DEF MissCache, Answer
  <1>8. cache' \in [Customers -> CacheRows] /\ reading' \in [Customers -> ReadRows]
    BY <1>6, <1>7, NoEntryRow DEF SubscriptionInv, CacheOK
  <1>9. ASSUME NEW v \in Customers
        PROVE  /\ reading'[v].premium => PaidAfter(now)
               /\ cache'[v].premium => now < cache'[v].until /\ PaidAfter(cache'[v].until - PositiveTtl)
    <2>1. CASE v = u
      <3>1. reading'[v] = a /\ cache'[v] = NoEntry
        BY <1>7, <2>1 DEF SubscriptionInv, CacheOK
      <3>. QED
        BY <1>3, <1>6, <3>1, NoEntryRow, PremiumPaysNow
    <2>2. CASE v # u
      <3>1. reading'[v] = reading[v] /\ cache'[v] = cache[v]
        BY <1>7, <2>2 DEF SubscriptionInv, CacheOK
      <3>. QED
        BY <3>1 DEF SubscriptionInv, CacheOK
    <2>. QED
      BY <2>1, <2>2
  <1>10. CacheOK'
    BY <1>1, <1>8, <1>9 DEF CacheOK, PaidAfter
  <1>. QED
    BY <1>2, <1>10 DEF SubscriptionInv

LEMMA StoreAnswerKept == ASSUME SubscriptionInv, NEW u \in Customers, StoreAnswer(u) PROVE SubscriptionInv'
  <1>1. /\ now' = now /\ billing' = billing /\ events' = events /\ guessed' = guessed
        /\ UNCHANGED <<owner, processed, swept, subrow, hook, mishaps, activated, applied, lost>>
    BY DEF StoreAnswer, billingVars, markerVars, subHistory
  <1>2. BillsOK' /\ EventsOK' /\ HooksOK' /\ OwnerOK' /\ RowOK' /\ MarksOK' /\ OnceOK'
    BY <1>1, SubRests
  <1>3. PICK a \in ReadRows : a = reading[u]
    BY DEF SubscriptionInv, CacheOK
  <1>4. now \in Int /\ a.ends \in Int
    BY <1>3, InstantsCount DEF SubscriptionInv, BillsOK, ReadRows
  <1>5. PICK ttl \in Int : ttl = TimeToLive(a) /\ (a.premium => 1 <= ttl /\ ttl <= PositiveTtl)
    BY <1>4, SubConstants DEF TimeToLive
  <1>6. PICK until \in Int : until = now + ttl
    BY <1>4
  <1>7. PICK c : c = [a EXCEPT !.until = until]
    OBVIOUS
  <1>8. c \in CacheRows /\ c.premium = a.premium /\ c.until = until
    BY <1>7 DEF ReadRows, CacheRows
  <1>9. cache' = [cache EXCEPT ![u] = c] /\ reading' = [reading EXCEPT ![u] = NoEntry]
    BY <1>3, <1>5, <1>6, <1>7 DEF StoreAnswer
  <1>10. cache' \in [Customers -> CacheRows] /\ reading' \in [Customers -> ReadRows]
    BY <1>8, <1>9, NoEntryRow DEF SubscriptionInv, CacheOK
  <1>11. ASSUME NEW v \in Customers
         PROVE  /\ reading'[v].premium => PaidAfter(now)
                /\ cache'[v].premium => now < cache'[v].until /\ PaidAfter(cache'[v].until - PositiveTtl)
    <2>1. CASE v = u
      <3>1. reading'[v] = NoEntry /\ cache'[v] = c
        BY <1>9, <2>1 DEF SubscriptionInv, CacheOK
      <3>2. ASSUME a.premium PROVE now < until /\ PaidAfter(until - PositiveTtl)
        <4>1. now < until /\ until - PositiveTtl <= now /\ until - PositiveTtl \in Int
          BY <1>4, <1>5, <1>6, <3>2, SubConstants
        <4>2. PaidAfter(now)
          BY <1>3, <3>2 DEF SubscriptionInv, CacheOK
        <4>3. guessed \in Int /\ \A s \in Subs : billing[s].ends \in Int
          BY InstantsCount DEF SubscriptionInv, BillsOK, BillRows
        <4>4. PICK n \in Int : n = until - PositiveTtl
          BY <4>1
        <4>5. PaidAfter(n)
          BY <1>4, <4>1, <4>2, <4>3, <4>4 DEF PaidAfter
        <4>. QED
          BY <4>1, <4>4, <4>5
      <3>. QED
        BY <1>8, <3>1, <3>2, NoEntryRow
    <2>2. CASE v # u
      <3>1. reading'[v] = reading[v] /\ cache'[v] = cache[v]
        BY <1>9, <2>2 DEF SubscriptionInv, CacheOK
      <3>. QED
        BY <3>1 DEF SubscriptionInv, CacheOK
    <2>. QED
      BY <2>1, <2>2
  <1>12. CacheOK'
    BY <1>1, <1>10, <1>11 DEF CacheOK, PaidAfter
  <1>. QED
    BY <1>2, <1>12 DEF SubscriptionInv

\* The row keeps its subscription and takes dates that are paid.
LEMMA RowTakes ==
  ASSUME SubscriptionInv, billing' = billing, guessed' = guessed, NEW r \in SubRows, subrow' = r, r.sub = subrow.sub,
         PaidTo(r.ends), PaidTo(r.trial)
  PROVE  RowOK'
  <1>1. PaidToNext(r.ends) /\ PaidToNext(r.trial) /\ (r.sub # NoSub => IsPaidNext(r.sub))
    BY DEF SubscriptionInv, RowOK, PaidTo, PaidToNext, IsPaid, IsPaidNext
  <1>. QED
    BY <1>1 DEF RowOK, PaidTo, PaidToNext, IsPaid, IsPaidNext

LEMMA OwnerTakes ==
  ASSUME SubscriptionInv, billing' = billing, guessed' = guessed, NEW o \in OwnerRows, owner' = o,
         PaidTo(o.ends), PaidTo(o.trial)
  PROVE  OwnerOK'
  <1>1. PaidToNext(o.ends) /\ PaidToNext(o.trial)
    BY DEF PaidTo, PaidToNext
  <1>. QED
    BY <1>1 DEF OwnerOK, PaidTo, PaidToNext

LEMMA OwnerRow ==
  ASSUME SubscriptionInv
  PROVE  \E o \in OwnerRows : o = owner /\ PaidTo(o.ends) /\ PaidTo(o.trial)
  BY DEF SubscriptionInv, OwnerOK

LEMMA RowRow ==
  ASSUME SubscriptionInv
  PROVE  \E r \in SubRows : r = subrow /\ PaidTo(r.ends) /\ PaidTo(r.trial)
  BY DEF SubscriptionInv, RowOK

LEMMA OwnerClears ==
  ASSUME SubscriptionInv, billing' = billing, guessed' = guessed, owner' = [owner EXCEPT !.step = "clear"]
  PROVE  OwnerOK'
  <1>1. PICK o \in OwnerRows : o = owner /\ PaidTo(o.ends) /\ PaidTo(o.trial)
    BY OwnerRow
  <1>2. PICK p : p = [o EXCEPT !.step = "clear"]
    OBVIOUS
  <1>3. p \in OwnerRows /\ p.ends = o.ends /\ p.trial = o.trial /\ owner' = p
    BY <1>1, <1>2 DEF OwnerRows, OwnerSteps
  <1>. QED
    BY <1>1, <1>3, OwnerTakes

LEMMA NoteRenewalKept == ASSUME SubscriptionInv, NoteRenewal PROVE SubscriptionInv'
  <1>1. /\ now' = now /\ billing' = billing /\ events' = events /\ guessed' = guessed
        /\ UNCHANGED <<processed, cache, reading, swept, hook, mishaps, activated, applied, lost>>
    BY DEF NoteRenewal, billingVars, markerVars, cacheVars, subHistory
  <1>2. BillsOK' /\ EventsOK' /\ HooksOK' /\ CacheOK' /\ MarksOK' /\ OnceOK'
    BY <1>1, SubRests
  <1>3. OwnerOK'
    BY <1>1, OwnerClears DEF NoteRenewal
  <1>4. PICK r \in SubRows : r = subrow /\ PaidTo(r.ends) /\ PaidTo(r.trial)
    BY RowRow
  <1>5. PICK b \in BOOLEAN : b = owner.leaving
    BY OwnerRow DEF OwnerRows
  <1>6. PICK p : p = [r EXCEPT !.leaving = b]
    OBVIOUS
  <1>7. p \in SubRows /\ p.ends = r.ends /\ p.trial = r.trial /\ p.sub = r.sub
    BY <1>6 DEF SubRows
  <1>8. subrow' = p
    BY <1>4, <1>5, <1>6 DEF NoteRenewal
  <1>9. RowOK'
    BY <1>1, <1>4, <1>7, <1>8, RowTakes
  <1>. QED
    BY <1>2, <1>3, <1>9 DEF SubscriptionInv

LEMMA AskProviderKept == ASSUME SubscriptionInv, AskProvider PROVE SubscriptionInv'
  <1>1. /\ now' = now /\ billing' = billing /\ events' = events /\ guessed' = guessed
        /\ UNCHANGED <<processed, cache, reading, swept, subrow, hook, mishaps, activated, applied, lost>>
    BY DEF AskProvider, billingVars, markerVars, cacheVars, subHistory
  <1>2. BillsOK' /\ EventsOK' /\ HooksOK' /\ RowOK' /\ CacheOK' /\ MarksOK' /\ OnceOK'
    BY <1>1, SubRests
  <1>3. PICK s \in Subs : s = subrow.sub /\ IsPaid(s)
    BY DEF AskProvider, SubscriptionInv, RowOK, SubRows
  <1>4. PICK b \in BillRows : /\ b = billing[s] /\ b.ends \in Nat /\ b.trial \in Nat
                              /\ b.status \in RowStatus => b.trial <= b.ends
    BY BillFacts
  <1>5. b.status \in RowStatus /\ b.trial <= b.ends
    BY <1>3, <1>4 DEF IsPaid
  <1>6. PICK o : o = [step |-> "sync", sub |-> s, status |-> b.status, ends |-> b.ends,
                      trial |-> b.trial, leaving |-> b.leaving]
    OBVIOUS
  <1>7. o \in OwnerRows /\ o.ends = b.ends /\ o.trial = b.trial
    BY <1>5, <1>6 DEF OwnerRows, OwnerSteps, BillRows
  <1>8. owner' = o
    BY <1>3, <1>4, <1>6 DEF AskProvider
  <1>9. PaidTo(o.ends) /\ PaidTo(o.trial)
    BY <1>4, <1>5, <1>7 DEF PaidTo
  <1>10. OwnerOK'
    BY <1>1, <1>7, <1>8, <1>9, OwnerTakes
  <1>. QED
    BY <1>2, <1>10 DEF SubscriptionInv

LEMMA WriteSyncKept == ASSUME SubscriptionInv, WriteSync PROVE SubscriptionInv'
  <1>1. /\ now' = now /\ billing' = billing /\ events' = events /\ guessed' = guessed
        /\ UNCHANGED <<processed, cache, reading, swept, hook, mishaps, activated, applied, lost>>
    BY DEF WriteSync, billingVars, markerVars, cacheVars, subHistory
  <1>2. BillsOK' /\ EventsOK' /\ HooksOK' /\ CacheOK' /\ MarksOK' /\ OnceOK'
    BY <1>1, SubRests
  <1>3. OwnerOK'
    BY <1>1, OwnerClears DEF WriteSync
  <1>4. PICK r \in SubRows : r = subrow
    BY RowRow
  <1>5. PICK o \in OwnerRows : o = owner /\ PaidTo(o.ends) /\ PaidTo(o.trial)
    BY OwnerRow
  <1>6. PICK p : p = [r EXCEPT !.status = o.status, !.ends = o.ends, !.trial = o.trial, !.leaving = o.leaving]
    OBVIOUS
  <1>7. p \in SubRows /\ p.ends = o.ends /\ p.trial = o.trial /\ p.sub = r.sub
    BY <1>6 DEF SubRows, OwnerRows
  <1>8. subrow' = p
    BY <1>4, <1>5, <1>6 DEF WriteSync
  <1>9. RowOK'
    BY <1>1, <1>4, <1>5, <1>7, <1>8, RowTakes
  <1>. QED
    BY <1>2, <1>3, <1>9 DEF SubscriptionInv

LEMMA ClearAtDeskKept == ASSUME SubscriptionInv, ClearAtDesk PROVE SubscriptionInv'
  <1>1. /\ now' = now /\ billing' = billing /\ events' = events /\ guessed' = guessed /\ ClearCaches
        /\ UNCHANGED <<processed, reading, swept, subrow, hook, activated, applied, lost>> /\ owner' = Closed
    BY DEF ClearAtDesk, billingVars, markerVars, subHistory
  <1>2. BillsOK' /\ EventsOK' /\ HooksOK' /\ RowOK' /\ OnceOK'
    BY <1>1, SubRests
  <1>3. CacheOK' /\ mishaps' \in 0 .. MaxMishaps
    BY <1>1, CachesCleared
  <1>4. MarksOK'
    BY <1>1, <1>3 DEF SubscriptionInv, MarksOK
  <1>5. Closed \in OwnerRows /\ Closed.ends = 0 /\ Closed.trial = 0
    BY SubConstants DEF Closed, OwnerRows, OwnerSteps, RowStatus
  <1>6. PaidTo(Closed.ends) /\ PaidTo(Closed.trial)
    BY <1>5, SubConstants DEF SubscriptionInv, BillsOK, PaidTo
  <1>7. OwnerOK'
    BY <1>1, <1>5, <1>6, OwnerTakes
  <1>. QED
    BY <1>2, <1>3, <1>4, <1>7 DEF SubscriptionInv

LEMMA SweepExpiredKept == ASSUME SubscriptionInv, SweepExpired PROVE SubscriptionInv'
  <1>1. /\ now' = now /\ billing' = billing /\ events' = events /\ guessed' = guessed /\ swept' = TRUE
        /\ UNCHANGED <<processed, cache, reading, owner, hook, mishaps, activated, applied, lost>>
    BY DEF SweepExpired, billingVars, markerVars, cacheVars, subHistory
  <1>2. BillsOK' /\ EventsOK' /\ HooksOK' /\ OwnerOK' /\ CacheOK' /\ OnceOK'
    BY <1>1, SubRests
  <1>3. MarksOK'
    BY <1>1 DEF SubscriptionInv, MarksOK
  <1>4. PICK r \in SubRows : r = subrow /\ PaidTo(r.ends) /\ PaidTo(r.trial)
    BY RowRow
  <1>5. PICK p : p = [r EXCEPT !.status = "EXPIRED"]
    OBVIOUS
  <1>6. p \in SubRows /\ p.ends = r.ends /\ p.trial = r.trial /\ p.sub = r.sub /\ subrow' = p
    BY <1>4, <1>5 DEF SubRows, RowStatus, SweepExpired
  <1>7. RowOK'
    BY <1>1, <1>4, <1>6, RowTakes
  <1>. QED
    BY <1>2, <1>3, <1>7 DEF SubscriptionInv

LEMMA ClearSweptKept == ASSUME SubscriptionInv, ClearSwept PROVE SubscriptionInv'
  <1>1. /\ now' = now /\ billing' = billing /\ events' = events /\ guessed' = guessed /\ ClearCaches /\ swept' = FALSE
        /\ UNCHANGED <<processed, reading, owner, subrow, hook, activated, applied, lost>>
    BY DEF ClearSwept, billingVars, markerVars, subHistory
  <1>2. BillsOK' /\ EventsOK' /\ HooksOK' /\ RowOK' /\ OwnerOK' /\ OnceOK'
    BY <1>1, SubRests
  <1>3. CacheOK' /\ mishaps' \in 0 .. MaxMishaps
    BY <1>1, CachesCleared
  <1>4. MarksOK'
    BY <1>1, <1>3 DEF SubscriptionInv, MarksOK
  <1>. QED
    BY <1>2, <1>3, <1>4 DEF SubscriptionInv

LEMMA TimePassesKept == ASSUME SubscriptionInv, TimePasses PROVE SubscriptionInv'
  <1>1. /\ UNCHANGED <<billing, events, guessed, reading, swept, mishaps>>
        /\ UNCHANGED <<processed, owner, subrow, hook, activated, applied, lost>>
    BY DEF TimePasses, markerVars, subHistory
  <1>2. PICK n \in Nat : n = now /\ n < MaxNow /\ now' = n + 1 /\ n + 1 \in 0 .. MaxNow
    BY SubConstants DEF TimePasses, SubscriptionInv, BillsOK
  <1>3. BillsOK'
    <2>1. guessed' \in Instants /\ guessed' <= now' + Period
      BY <1>1, <1>2, SubConstants DEF SubscriptionInv, BillsOK
    <2>. QED
      BY <1>1, <1>2, <2>1 DEF SubscriptionInv, BillsOK, IsPaid
  <1>4. EventsOK' /\ RowOK' /\ HooksOK' /\ OwnerOK' /\ MarksOK' /\ OnceOK'
    <2>1. EventsOK' /\ RowOK'
      BY <1>1 DEF SubscriptionInv, EventsOK, RowOK, IsPaid, PaidTo
    <2>2. HooksOK' /\ OwnerOK'
      BY <1>1 DEF SubscriptionInv, HooksOK, OwnerOK, PaidTo
    <2>3. MarksOK' /\ OnceOK'
      BY <1>1 DEF SubscriptionInv, MarksOK, OnceOK, Claiming, EventOf
    <2>. QED
      BY <2>1, <2>2, <2>3
  <1>5. cache' = [u \in Customers |-> IF cache[u].until <= n + 1 THEN NoEntry ELSE cache[u]]
    BY <1>2 DEF TimePasses
  <1>6. cache' \in [Customers -> CacheRows]
    BY <1>5, NoEntryRow DEF SubscriptionInv, CacheOK
  <1>7. ASSUME NEW u \in Customers
        PROVE  /\ ~reading'[u].premium
               /\ cache'[u].premium => n + 1 < cache'[u].until /\ PaidAfter(cache'[u].until - PositiveTtl)
    <2>1. ~reading'[u].premium
      BY <1>1, NoEntryRow DEF TimePasses
    <2>2. CASE cache[u].until <= n + 1
      BY <1>5, <2>1, <2>2, NoEntryRow
    <2>3. CASE ~(cache[u].until <= n + 1)
      <3>1. cache'[u] = cache[u] /\ cache[u].until \in Int
        BY <1>5, <2>3 DEF SubscriptionInv, CacheOK, CacheRows
      <3>2. n + 1 < cache[u].until
        BY <2>3, <3>1
      <3>3. cache[u].premium => PaidAfter(cache[u].until - PositiveTtl)
        BY DEF SubscriptionInv, CacheOK
      <3>. QED
        BY <2>1, <3>1, <3>2, <3>3
    <2>. QED
      BY <2>2, <2>3
  <1>8. CacheOK'
    <2>1. reading' \in [Customers -> ReadRows]
      BY <1>1 DEF SubscriptionInv, CacheOK
    <2>. QED
      BY <1>1, <1>2, <1>6, <1>7, <2>1 DEF CacheOK, PaidAfter
  <1>. QED
    BY <1>3, <1>4, <1>8 DEF SubscriptionInv

LEMMA SubscriptionStarts == SubscriptionInit => SubscriptionInv
  <1>. SUFFICES ASSUME SubscriptionInit PROVE SubscriptionInv
    OBVIOUS
  <1>1. 0 \in Instants /\ 0 \in 0 .. MaxNow /\ 0 <= 0 + Period /\ 0 \in Nat
    BY SubConstants
  <1>2. now = 0 /\ guessed = 0 /\ events = <<>> /\ Len(events) = 0 /\ PaidTo(0)
    BY DEF SubscriptionInit, PaidTo
  <1>3. BillsOK
    BY <1>1 DEF SubscriptionInit, BillsOK, BillRows, IsPaid, RowStatus
  <1>4. EventsOK
    BY <1>2, SubConstants DEF EventsOK
  <1>5. RowOK
    BY <1>1, <1>2 DEF SubscriptionInit, RowOK, NoRow, SubRows
  <1>6. HooksOK
    <2>1. Idle \in HookRows(0) /\ Idle.ends = 0 /\ Idle.trial = 0 /\ Idle.step = "idle"
      BY <1>1 DEF Idle, HookRows, HookSteps
    <2>. QED
      BY <1>2, <2>1 DEF SubscriptionInit, HooksOK
  <1>7. OwnerOK
    BY <1>1, <1>2 DEF SubscriptionInit, OwnerOK, Closed, OwnerRows, OwnerSteps, RowStatus
  <1>8. CacheOK
    BY NoEntryRow DEF SubscriptionInit, CacheOK
  <1>9. MarksOK
    <2>1. mishaps \in 0 .. MaxMishaps
      BY SubConstants DEF SubscriptionInit
    <2>. QED
      BY <2>1 DEF SubscriptionInit, MarksOK
  <1>10. OnceOK
    <2>1. ASSUME NEW s \in Subs PROVE applied[s] + lost[s] + Cardinality(Claiming(s)) = 0 /\ s \notin activated
      <3>1. \A h \in Hooks : hook[h].step = "idle"
        BY DEF SubscriptionInit, Idle
      <3>2. Claiming(s) = {}
        BY <3>1 DEF Claiming
      <3>3. Cardinality(Claiming(s)) = 0
        BY <3>2, FS_EmptySet
      <3>4. applied[s] = 0 /\ lost[s] = 0 /\ activated = {}
        BY DEF SubscriptionInit
      <3>. QED
        BY <3>3, <3>4
    <2>2. activated \subseteq Subs /\ applied \in [Subs -> Nat] /\ lost \in [Subs -> Nat]
      BY DEF SubscriptionInit
    <2>. QED
      BY <2>1, <2>2 DEF OnceOK
  <1>. QED
    BY <1>3, <1>4, <1>5, <1>6, <1>7, <1>8, <1>9, <1>10 DEF SubscriptionInv

LEMMA SubscriptionStep == SubscriptionInv /\ [SubscriptionNext]_subscriptionVars => SubscriptionInv'
  <1>. SUFFICES ASSUME SubscriptionInv, [SubscriptionNext]_subscriptionVars PROVE SubscriptionInv'
    OBVIOUS
  <1>1. ASSUME NEW s \in Subs, Checkout(s) \/ Pay(s) \/ TurnOver(s) PROVE SubscriptionInv'
    BY <1>1, CheckoutKept, PayKept, TurnOverKept
  <1>2. ASSUME NEW h \in Hooks, HookStep(h) PROVE SubscriptionInv'
    BY <1>2, ReceiveKept, ClaimKept, RetrieveKept, ActivateKept, ClearAfterHookKept, UpdateKept, DowngradeKept,
       HookFailsKept DEF HookStep
  <1>3. ASSUME NEW u \in Customers, MissCache(u) \/ StoreAnswer(u) PROVE SubscriptionInv'
    BY <1>3, MissCacheKept, StoreAnswerKept
  <1>4. ASSUME NEW leaving \in BOOLEAN, ChangeRenewal(leaving) PROVE SubscriptionInv'
    BY <1>4, RenewalKept
  <1>5. ASSUME NoteRenewal \/ AskProvider \/ WriteSync \/ ClearAtDesk PROVE SubscriptionInv'
    BY <1>5, NoteRenewalKept, AskProviderKept, WriteSyncKept, ClearAtDeskKept
  <1>6. ASSUME SweepExpired \/ ClearSwept \/ TimePasses PROVE SubscriptionInv'
    BY <1>6, SweepExpiredKept, ClearSweptKept, TimePassesKept
  <1>7. ASSUME UNCHANGED subscriptionVars PROVE SubscriptionInv'
    <2>1. /\ UNCHANGED <<now, billing, events, guessed>> /\ UNCHANGED subrow /\ UNCHANGED hook /\ UNCHANGED owner
          /\ UNCHANGED <<cache, reading>> /\ UNCHANGED <<processed, swept, mishaps>>
          /\ UNCHANGED <<hook, activated, applied, lost>>
      BY <1>7 DEF subscriptionVars, billingVars, markerVars, cacheVars, subHistory
    <2>. QED
      BY <2>1, SubRests DEF SubscriptionInv
  <1>. QED
    BY <1>1, <1>2, <1>3, <1>4, <1>5, <1>6, <1>7 DEF SubscriptionNext

LEMMA SubscriptionImplies == SubscriptionInv => PremiumIsPaid /\ ActivatedOnce
  <1>. SUFFICES ASSUME SubscriptionInv PROVE PremiumIsPaid /\ ActivatedOnce
    OBVIOUS
  <1>1. ActivatedOnce
    BY DEF SubscriptionInv, OnceOK, ActivatedOnce, Claiming
  <1>2. now \in Int /\ guessed \in Int /\ PositiveTtl \in Nat /\ \A s \in Subs : billing[s].ends \in Int
    BY InstantsCount, SubConstants DEF SubscriptionInv, BillsOK, BillRows
  <1>3. ASSUME NEW u \in Customers, (Cached(u) /\ cache[u].premium) \/ RowPremium
        PROVE  now < guessed + PositiveTtl \/ \E s \in Subs : now < billing[s].ends + PositiveTtl
    <2>1. PICK n \in Int : PaidAfter(n) /\ now <= n + PositiveTtl
      <3>1. CASE cache[u].premium
        <4>1. now < cache[u].until /\ PaidAfter(cache[u].until - PositiveTtl) /\ cache[u].until \in Int
          BY <3>1 DEF SubscriptionInv, CacheOK, CacheRows
        <4>2. PICK n \in Int : n = cache[u].until - PositiveTtl
          BY <1>2, <4>1
        <4>. QED
          BY <1>2, <4>1, <4>2
      <3>2. CASE RowPremium
        BY <1>2, <3>2, PremiumPaysNow
      <3>. QED
        BY <1>3, <3>1, <3>2
    <2>. QED
      BY <1>2, <2>1 DEF PaidAfter
  <1>. QED
    BY <1>1, <1>3 DEF PremiumIsPaid

(***************************************************************************)
(* Contacts under forms, bulk actions and their undo.  What a bulk action  *)
(* has read is, for the contacts that nobody else has written since, what  *)
(* they were when it was applied.                                          *)
(***************************************************************************)
CardRows == Contact \cup {Absent}
EditorRows == [step : {"closed", "form", "call"}, who : Cards \cup {NoCard}, seen : CardRows]
BulkRows == [step : BulkSteps, who : SUBSET Cards, prev : [Cards -> CardRows]]

\* Contacts of k that only k has written since it read them.
Untouched(k) == bulk[k].who \ touched[k]

CardsTyped ==
  /\ card \in [Cards -> CardRows] /\ tagged \subseteq Tags /\ edits \in 0 .. MaxEdits
  /\ editor \in [Editors -> EditorRows]

BulksTyped ==
  /\ bulk \in [Bulks -> BulkRows] /\ before \in [Bulks -> [Cards -> CardRows]]
  /\ touched \in [Bulks -> SUBSET Cards]

BulksFaithful ==
  \A k \in Bulks : \A p \in Untouched(k) :
    /\ bulk[k].step \in {"read", "applied", "undoing"} => card[p] # Absent
    /\ bulk[k].step = "read" => bulk[k].prev[p] = card[p]
    /\ bulk[k].step \in {"applied", "undoing", "undone"} => bulk[k].prev[p] = before[k][p]
    /\ bulk[k].step = "undone" => card[p] = before[k][p]

RelationsInv == CardsTyped /\ BulksTyped /\ BulksFaithful

LEMMA RelationsImplies == RelationsInv => RelationsTypeOK /\ UndoRestores
  <1>. SUFFICES ASSUME RelationsInv PROVE RelationsTypeOK /\ UndoRestores
    OBVIOUS
  <1>1. \A k \in Bulks : bulk[k] \in BulkRows
    BY DEF RelationsInv, BulksTyped
  <1>2. \A k \in Bulks : bulk[k].step \in BulkSteps /\ bulk[k].who \subseteq Cards
    BY <1>1 DEF BulkRows
  <1>3. RelationsTypeOK
    BY <1>2 DEF RelationsInv, CardsTyped, BulksTyped, RelationsTypeOK, CardRows, EditorRows
  <1>4. UndoRestores
    BY DEF RelationsInv, BulksFaithful, Untouched, UndoRestores
  <1>. QED
    BY <1>3, <1>4

LEMMA AbsentIsNone == Absent \in CardRows /\ Absent.stage \notin Stages /\ \A c \in Contact : c # Absent
  <1>1. \A c \in Contact : c.stage \in Stages
    BY DEF Contact
  <1>. QED
    BY <1>1 DEF CardRows, Absent, Stages

LEMMA RelationsStarts == RelationsInit => RelationsInv
  <1>. SUFFICES ASSUME RelationsInit PROVE RelationsInv
    OBVIOUS
  <1>1. CardsTyped
    <2>1. [stage |-> "COLD", tags |-> {}] \in CardRows /\ NoEditor \in EditorRows
      BY AbsentIsNone DEF CardRows, Contact, Stages, NoEditor, EditorRows
    <2>2. edits \in 0 .. MaxEdits
      BY RelationsAssumption DEF RelationsAssumption, RelationsInit
    <2>. QED
      BY <2>1, <2>2 DEF RelationsInit, CardsTyped
  <1>2. BulksTyped /\ BulksFaithful
    <2>1. [p \in Cards |-> Absent] \in [Cards -> CardRows]
      BY AbsentIsNone
    <2>2. NoBulk \in BulkRows /\ NoBulk.who = {}
      BY <2>1 DEF NoBulk, BulkRows, BulkSteps
    <2>. QED
      BY <2>1, <2>2 DEF RelationsInit, BulksTyped, BulksFaithful, Untouched
  <1>. QED
    BY <1>1, <1>2 DEF RelationsInv

LEMMA WroteTyped ==
  ASSUME RelationsInv, NEW ps \in SUBSET Cards, NEW own, Wrote(ps, own)
  PROVE  /\ edits' \in 0 .. MaxEdits /\ touched' \in [Bulks -> SUBSET Cards]
         /\ \A k \in Bulks : touched[k] \subseteq touched'[k]
         /\ \A k \in Bulks : bulk[k].step # "unused" /\ k \notin own => ps \subseteq touched'[k]
         /\ \A k \in Bulks : k \in own => touched'[k] = touched[k]
  <1>1. edits' \in 0 .. MaxEdits
    BY RelationsAssumption DEF RelationsAssumption, RelationsInv, CardsTyped, Wrote
  <1>. QED
    BY <1>1 DEF RelationsInv, BulksTyped, Wrote

\* Somebody writes contacts, and every bulk action that has read takes note of it.
LEMMA OthersWrite ==
  ASSUME RelationsInv, NEW ps \in SUBSET Cards, Wrote(ps, {}), UNCHANGED <<bulk, before>>,
         card' \in [Cards -> CardRows], \A p \in Cards : p \notin ps => card'[p] = card[p],
         tagged' \subseteq Tags, editor' \in [Editors -> EditorRows]
  PROVE  RelationsInv'
  <1>1. /\ edits' \in 0 .. MaxEdits /\ touched' \in [Bulks -> SUBSET Cards]
        /\ \A k \in Bulks : touched[k] \subseteq touched'[k]
        /\ \A k \in Bulks : bulk[k].step # "unused" => ps \subseteq touched'[k]
    <2>1. PICK own : own = {} /\ Wrote(ps, own)
      OBVIOUS
    <2>2. /\ edits' \in 0 .. MaxEdits /\ touched' \in [Bulks -> SUBSET Cards]
          /\ \A k \in Bulks : touched[k] \subseteq touched'[k]
          /\ \A k \in Bulks : bulk[k].step # "unused" /\ k \notin own => ps \subseteq touched'[k]
      BY <2>1, WroteTyped
    <2>. QED
      BY <2>1, <2>2
  <1>2. CardsTyped' /\ BulksTyped'
    BY <1>1 DEF RelationsInv, CardsTyped, BulksTyped
  <1>3. ASSUME NEW k \in Bulks, NEW p \in Untouched(k)', bulk[k].step # "unused"
        PROVE  p \in Untouched(k) /\ card'[p] = card[p]
    <2>1. p \in Cards /\ p \in bulk[k].who /\ p \notin touched'[k]
      BY <1>3 DEF Untouched, RelationsInv, BulksTyped, BulkRows
    <2>. QED
      BY <1>1, <1>3, <2>1 DEF Untouched
  <1>4. BulksFaithful'
    BY <1>3 DEF RelationsInv, BulksFaithful
  <1>. QED
    BY <1>2, <1>4 DEF RelationsInv

LEMMA CardWritten ==
  ASSUME RelationsInv, NEW p \in Cards, NEW c \in CardRows, WriteCard(p, c), UNCHANGED <<bulk, before, tagged>>,
         editor' \in [Editors -> EditorRows]
  PROVE  RelationsInv'
  <1>1. card' \in [Cards -> CardRows] /\ \A q \in Cards : q \notin {p} => card'[q] = card[q]
    BY DEF WriteCard, RelationsInv, CardsTyped
  <1>2. Wrote({p}, {}) /\ {p} \in SUBSET Cards /\ tagged' \subseteq Tags
    BY DEF WriteCard, RelationsInv, CardsTyped
  <1>. QED
    BY <1>1, <1>2, OthersWrite

\* Nobody writes a contact and no bulk action moves.
LEMMA NobodyWrites ==
  ASSUME RelationsInv, UNCHANGED <<card, tagged, bulk, edits, before, touched>>, editor' \in [Editors -> EditorRows]
  PROVE  RelationsInv'
  BY DEF RelationsInv, CardsTyped, BulksTyped, BulksFaithful, Untouched

LEMMA PresentTyped ==
  ASSUME RelationsInv, NEW p \in Cards
  PROVE  card[p] \in CardRows /\ (p \in Present => card[p] \in Contact)
  BY DEF RelationsInv, CardsTyped, Present, CardRows

LEMMA UpsertKept == ASSUME RelationsInv, NEW p \in Cards, UpsertContact(p) PROVE RelationsInv'
  <1>1. PICK stage \in Stages, tags \in SUBSET tagged, staged \in BOOLEAN, retagged \in BOOLEAN :
          WriteCard(p, IF p \in Present
                       THEN [stage |-> IF staged THEN stage ELSE card[p].stage,
                             tags |-> IF retagged THEN tags ELSE card[p].tags]
                       ELSE [stage |-> IF staged THEN stage ELSE "COLD",
                             tags |-> IF retagged THEN tags ELSE {}])
    BY DEF UpsertContact
  <1>2. PICK s \in Stages : s = IF staged THEN stage ELSE IF p \in Present THEN card[p].stage ELSE "COLD"
    BY PresentTyped DEF Contact, Stages
  <1>3. PICK ts \in SUBSET Tags : ts = IF retagged THEN tags ELSE IF p \in Present THEN card[p].tags ELSE {}
    BY PresentTyped DEF Contact, RelationsInv, CardsTyped
  <1>4. PICK c : c = [stage |-> s, tags |-> ts]
    OBVIOUS
  <1>5. c \in CardRows
    BY <1>4 DEF CardRows, Contact
  <1>6. WriteCard(p, c)
    <2>1. CASE p \in Present
      BY <1>1, <1>2, <1>3, <1>4, <2>1
    <2>2. CASE p \notin Present
      BY <1>1, <1>2, <1>3, <1>4, <2>2
    <2>. QED
      BY <2>1, <2>2
  <1>7. UNCHANGED <<bulk, before, tagged>> /\ editor' \in [Editors -> EditorRows]
    BY DEF UpsertContact, RelationsInv, CardsTyped
  <1>. QED
    BY <1>5, <1>6, <1>7, CardWritten

LEMMA OpenEditorKept ==
  ASSUME RelationsInv, NEW f \in Editors, NEW p \in Cards, NEW step \in {"form", "call"}, OpenEditor(f, p, step)
  PROVE  RelationsInv'
  <1>1. [step |-> step, who |-> p, seen |-> card[p]] \in EditorRows
    BY PresentTyped DEF EditorRows
  <1>2. editor' \in [Editors -> EditorRows]
    BY <1>1 DEF OpenEditor, RelationsInv, CardsTyped
  <1>. QED
    BY <1>2, NobodyWrites DEF OpenEditor

LEMMA EditorClosed == ASSUME RelationsInv, NEW f \in Editors, CloseEditor(f) PROVE editor' \in [Editors -> EditorRows]
  <1>1. NoEditor \in EditorRows
    BY AbsentIsNone DEF NoEditor, EditorRows
  <1>. QED
    BY <1>1 DEF CloseEditor, RelationsInv, CardsTyped

LEMMA SaveFormKept == ASSUME RelationsInv, NEW f \in Editors, SaveForm(f) PROVE RelationsInv'
  <1>1. editor' \in [Editors -> EditorRows] /\ UNCHANGED <<tagged, bulk, before>>
    BY EditorClosed DEF SaveForm
  <1>2. ASSUME editor[f].who \in Present, NEW stage \in Stages, NEW tags \in SUBSET tagged,
               WriteCard(editor[f].who, [stage |-> stage, tags |-> tags])
        PROVE  RelationsInv'
    <2>1. PICK c : c = [stage |-> stage, tags |-> tags]
      OBVIOUS
    <2>2. c \in CardRows
      BY <2>1 DEF CardRows, Contact, RelationsInv, CardsTyped
    <2>3. PICK p \in Cards : p = editor[f].who
      BY <1>2 DEF Present
    <2>. QED
      BY <1>1, <1>2, <2>1, <2>2, <2>3, CardWritten
  <1>3. CASE UNCHANGED <<card, edits, touched>>
    BY <1>1, <1>3, NobodyWrites
  <1>. QED
    BY <1>2, <1>3 DEF SaveForm

LEMMA WriteCallStageKept == ASSUME RelationsInv, NEW f \in Editors, WriteCallStage(f) PROVE RelationsInv'
  <1>1. editor' \in [Editors -> EditorRows] /\ UNCHANGED <<tagged, bulk, before>>
    BY EditorClosed DEF WriteCallStage
  <1>2. ASSUME editor[f].who \in Present, WriteCard(editor[f].who, [card[editor[f].who] EXCEPT !.stage = "HOT"])
        PROVE  RelationsInv'
    <2>1. PICK p \in Cards : p = editor[f].who /\ p \in Present
      BY <1>2 DEF Present
    <2>2. PICK x \in Contact : x = card[p]
      BY <2>1, PresentTyped
    <2>3. PICK c : c = [x EXCEPT !.stage = "HOT"]
      OBVIOUS
    <2>4. c \in CardRows
      BY <2>3 DEF CardRows, Contact, Stages
    <2>. QED
      BY <1>1, <1>2, <2>1, <2>2, <2>3, <2>4, CardWritten
  <1>3. CASE UNCHANGED <<card, edits, touched>>
    BY <1>1, <1>3, NobodyWrites
  <1>. QED
    BY <1>2, <1>3 DEF WriteCallStage

LEMMA StageByWorkerKept == ASSUME RelationsInv, NEW p \in Cards, StageByWorker(p) PROVE RelationsInv'
  <1>1. PICK x \in Contact : x = card[p]
    BY PresentTyped DEF StageByWorker
  <1>2. PICK c : c = [x EXCEPT !.stage = "CONTACTED"]
    OBVIOUS
  <1>3. c \in CardRows
    BY <1>2 DEF CardRows, Contact, Stages
  <1>4. WriteCard(p, c) /\ UNCHANGED <<bulk, before, tagged>> /\ editor' \in [Editors -> EditorRows]
    BY <1>1, <1>2 DEF StageByWorker, RelationsInv, CardsTyped
  <1>. QED
    BY <1>3, <1>4, CardWritten

LEMMA TagContactKept == ASSUME RelationsInv, NEW p \in Cards, NEW t \in Tags, TagContact(p, t) PROVE RelationsInv'
  <1>1. PICK x \in Contact : x = card[p]
    BY PresentTyped DEF TagContact
  <1>2. PICK tags \in SUBSET Tags : WriteCard(p, [x EXCEPT !.tags = tags])
    BY <1>1 DEF TagContact, Contact
  <1>3. PICK c : c = [x EXCEPT !.tags = tags]
    OBVIOUS
  <1>4. c \in CardRows
    BY <1>3 DEF CardRows, Contact
  <1>5. WriteCard(p, c) /\ UNCHANGED <<bulk, before, tagged>> /\ editor' \in [Editors -> EditorRows]
    BY <1>2, <1>3 DEF TagContact, RelationsInv, CardsTyped
  <1>. QED
    BY <1>4, <1>5, CardWritten

LEMMA DeleteContactsKept == ASSUME RelationsInv, NEW ps \in SUBSET Cards, DeleteContacts(ps) PROVE RelationsInv'
  <1>1. card' \in [Cards -> CardRows] /\ \A p \in Cards : p \notin ps => card'[p] = card[p]
    BY AbsentIsNone DEF DeleteContacts, RelationsInv, CardsTyped
  <1>2. /\ Wrote(ps, {}) /\ UNCHANGED <<bulk, before>> /\ tagged' \subseteq Tags
        /\ editor' \in [Editors -> EditorRows]
    BY DEF DeleteContacts, RelationsInv, CardsTyped
  <1>. QED
    BY <1>1, <1>2, OthersWrite

LEMMA DeleteTagKept == ASSUME RelationsInv, NEW t \in Tags, DeleteTag(t) PROVE RelationsInv'
  <1>1. PICK ps \in SUBSET Cards : ps = {p \in Cards : t \in card[p].tags}
    OBVIOUS
  <1>2. ASSUME NEW p \in Cards PROVE card'[p] \in CardRows /\ (p \notin ps => card'[p] = card[p])
    <2>1. PICK x \in CardRows : x = card[p]
      BY PresentTyped
    <2>2. PICK y : y = [x EXCEPT !.tags = @ \ {t}]
      OBVIOUS
    <2>3. card'[p] = y
      BY <2>1, <2>2 DEF DeleteTag
    <2>4. CASE x \in Contact
      <3>1. y \in Contact
        BY <2>2, <2>4 DEF Contact
      <3>2. p \notin ps => x.tags \ {t} = x.tags
        BY <1>1, <2>1
      <3>3. p \notin ps => y = x
        BY <2>2, <2>4, <3>2 DEF Contact
      <3>. QED
        BY <2>1, <2>3, <3>1, <3>3 DEF CardRows
    <2>5. CASE x = Absent
      <3>1. y = Absent
        BY <2>2, <2>5 DEF Absent
      <3>. QED
        BY <2>1, <2>3, <2>5, <3>1, AbsentIsNone
    <2>. QED
      BY <2>1, <2>4, <2>5 DEF CardRows
  <1>3. card' \in [Cards -> CardRows]
    BY <1>2 DEF DeleteTag
  <1>4. /\ Wrote(ps, {}) /\ UNCHANGED <<bulk, before>> /\ tagged' \subseteq Tags
        /\ editor' \in [Editors -> EditorRows]
    BY <1>1 DEF DeleteTag, RelationsInv, CardsTyped
  <1>. QED
    BY <1>2, <1>3, <1>4, OthersWrite

LEMMA BulkRow == ASSUME RelationsInv, NEW k \in Bulks PROVE \E b \in BulkRows : b = bulk[k]
  BY DEF RelationsInv, BulksTyped

LEMMA ReadBulkKept ==
  ASSUME RelationsInv, NEW k \in Bulks, NEW ps \in SUBSET Cards, ReadBulk(k, ps) PROVE RelationsInv'
  <1>1. PICK prev : prev = [p \in Cards |-> IF p \in ps THEN card[p] ELSE Absent]
    OBVIOUS
  <1>2. prev \in [Cards -> CardRows] /\ \A p \in ps : prev[p] = card[p]
    BY <1>1, AbsentIsNone DEF RelationsInv, CardsTyped
  <1>3. PICK b : b = [step |-> "read", who |-> ps, prev |-> prev]
    OBVIOUS
  <1>4. b \in BulkRows /\ b.step = "read" /\ b.who = ps /\ b.prev = prev
    BY <1>2, <1>3 DEF BulkRows, BulkSteps
  <1>5. bulk' = [bulk EXCEPT ![k] = b] /\ UNCHANGED <<card, tagged, editor, edits, before, touched>>
    BY <1>1, <1>3 DEF ReadBulk
  <1>6. CardsTyped' /\ BulksTyped'
    BY <1>4, <1>5 DEF RelationsInv, CardsTyped, BulksTyped
  <1>7. ASSUME NEW j \in Bulks, NEW p \in Untouched(j)'
        PROVE  /\ bulk'[j].step \in {"read", "applied", "undoing"} => card'[p] # Absent
               /\ bulk'[j].step = "read" => bulk'[j].prev[p] = card'[p]
               /\ bulk'[j].step \in {"applied", "undoing", "undone"} => bulk'[j].prev[p] = before'[j][p]
               /\ bulk'[j].step = "undone" => card'[p] = before'[j][p]
    <2>1. CASE j = k
      <3>1. bulk'[j] = b
        BY <1>5, <2>1 DEF RelationsInv, BulksTyped
      <3>2. p \in ps /\ card[p] # Absent
        BY <1>4, <1>7, <3>1 DEF Untouched, ReadBulk, Present
      <3>. QED
        BY <1>2, <1>4, <1>5, <3>1, <3>2
    <2>2. CASE j # k
      <3>1. bulk'[j] = bulk[j]
        BY <1>5, <2>2 DEF RelationsInv, BulksTyped
      <3>2. p \in Untouched(j)
        BY <1>5, <1>7, <3>1 DEF Untouched
      <3>. QED
        BY <1>5, <3>1, <3>2 DEF RelationsInv, BulksFaithful
    <2>. QED
      BY <2>1, <2>2
  <1>8. BulksFaithful'
    BY <1>7 DEF BulksFaithful
  <1>. QED
    BY <1>6, <1>8 DEF RelationsInv

\* A bulk action only moves on.
LEMMA BulkMoves ==
  ASSUME RelationsInv, NEW k \in Bulks, NEW step \in {"applied", "undoing", "expired"},
         bulk[k].step \in {"applied", "undoing"}, bulk' = [bulk EXCEPT ![k].step = step],
         UNCHANGED <<card, tagged, editor, edits, before, touched>>
  PROVE  RelationsInv'
  <1>1. PICK x \in BulkRows : x = bulk[k]
    BY BulkRow
  <1>2. PICK b : b = [x EXCEPT !.step = step]
    OBVIOUS
  <1>3. b \in BulkRows /\ b.step = step /\ b.who = x.who /\ b.prev = x.prev
    BY <1>2 DEF BulkRows, BulkSteps
  <1>4. bulk' = [bulk EXCEPT ![k] = b]
    BY <1>1, <1>2 DEF RelationsInv, BulksTyped
  <1>5. CardsTyped' /\ BulksTyped'
    BY <1>3, <1>4 DEF RelationsInv, CardsTyped, BulksTyped
  <1>6. ASSUME NEW j \in Bulks, NEW p \in Untouched(j)'
        PROVE  /\ bulk'[j].step \in {"read", "applied", "undoing"} => card'[p] # Absent
               /\ bulk'[j].step = "read" => bulk'[j].prev[p] = card'[p]
               /\ bulk'[j].step \in {"applied", "undoing", "undone"} => bulk'[j].prev[p] = before'[j][p]
               /\ bulk'[j].step = "undone" => card'[p] = before'[j][p]
    <2>1. CASE j = k
      <3>1. bulk'[j] = b
        BY <1>4, <2>1 DEF RelationsInv, BulksTyped
      <3>2. p \in Untouched(k)
        BY <1>1, <1>3, <1>6, <2>1, <3>1 DEF Untouched
      <3>3. card[p] # Absent /\ x.prev[p] = before[k][p]
        BY <1>1, <3>2 DEF RelationsInv, BulksFaithful
      <3>. QED
        BY <1>3, <2>1, <3>1, <3>3
    <2>2. CASE j # k
      <3>1. bulk'[j] = bulk[j]
        BY <1>4, <2>2 DEF RelationsInv, BulksTyped
      <3>2. p \in Untouched(j)
        BY <1>6, <3>1 DEF Untouched
      <3>. QED
        BY <3>1, <3>2 DEF RelationsInv, BulksFaithful
    <2>. QED
      BY <2>1, <2>2
  <1>7. BulksFaithful'
    BY <1>6 DEF BulksFaithful
  <1>. QED
    BY <1>5, <1>7 DEF RelationsInv

\* A bulk action writes its contacts: the others take note.
LEMMA BulkWrites ==
  ASSUME RelationsInv, NEW k \in Bulks, NEW b \in BulkRows, NEW ps \in SUBSET Cards,
         bulk' = [bulk EXCEPT ![k] = b], b.who = bulk[k].who, Wrote(ps, {k}),
         card' \in [Cards -> CardRows], \A p \in Cards : p \notin ps => card'[p] = card[p],
         before' \in [Bulks -> [Cards -> CardRows]], \A j \in Bulks : j # k => before'[j] = before[j],
         UNCHANGED <<tagged, editor>>,
         \A p \in Untouched(k) :
           /\ b.step \in {"read", "applied", "undoing"} => card'[p] # Absent
           /\ b.step = "read" => b.prev[p] = card'[p]
           /\ b.step \in {"applied", "undoing", "undone"} => b.prev[p] = before'[k][p]
           /\ b.step = "undone" => card'[p] = before'[k][p]
  PROVE  RelationsInv'
  <1>3. /\ edits' \in 0 .. MaxEdits /\ touched' \in [Bulks -> SUBSET Cards]
        /\ \A j \in Bulks : touched[j] \subseteq touched'[j]
        /\ \A j \in Bulks : bulk[j].step # "unused" /\ j \notin {k} => ps \subseteq touched'[j]
        /\ \A j \in Bulks : j \in {k} => touched'[j] = touched[j]
    <2>1. PICK own : own = {k}
      OBVIOUS
    <2>2. Wrote(ps, own)
      BY <2>1
    <2>3. /\ edits' \in 0 .. MaxEdits /\ touched' \in [Bulks -> SUBSET Cards]
          /\ \A j \in Bulks : touched[j] \subseteq touched'[j]
          /\ \A j \in Bulks : bulk[j].step # "unused" /\ j \notin own => ps \subseteq touched'[j]
          /\ \A j \in Bulks : j \in own => touched'[j] = touched[j]
      BY <2>2, WroteTyped
    <2>. QED
      BY <2>1, <2>3
  <1>4. CardsTyped' /\ BulksTyped'
    BY <1>3 DEF RelationsInv, CardsTyped, BulksTyped
  <1>5. ASSUME NEW j \in Bulks, NEW p \in Untouched(j)'
        PROVE  /\ bulk'[j].step \in {"read", "applied", "undoing"} => card'[p] # Absent
               /\ bulk'[j].step = "read" => bulk'[j].prev[p] = card'[p]
               /\ bulk'[j].step \in {"applied", "undoing", "undone"} => bulk'[j].prev[p] = before'[j][p]
               /\ bulk'[j].step = "undone" => card'[p] = before'[j][p]
    <2>1. CASE j = k
      <3>1. bulk'[j] = b
        BY <2>1 DEF RelationsInv, BulksTyped
      <3>2. p \in Untouched(k)
        BY <1>3, <1>5, <2>1, <3>1 DEF Untouched
      <3>. QED
        BY <2>1, <3>1, <3>2
    <2>2. CASE j # k /\ bulk[j].step # "unused"
      <3>1. bulk'[j] = bulk[j] /\ before'[j] = before[j]
        BY <2>2 DEF RelationsInv, BulksTyped
      <3>2. p \in Untouched(j) /\ p \notin ps /\ p \in Cards
        <4>1. p \in bulk[j].who /\ p \notin touched'[j]
          BY <1>5, <3>1 DEF Untouched
        <4>2. bulk[j].who \subseteq Cards
          BY BulkRow DEF BulkRows
        <4>. QED
          BY <1>3, <2>2, <4>1, <4>2 DEF Untouched
      <3>3. card'[p] = card[p]
        BY <3>2
      <3>. QED
        BY <3>1, <3>2, <3>3 DEF RelationsInv, BulksFaithful
    <2>3. CASE j # k /\ bulk[j].step = "unused"
      BY <2>3 DEF RelationsInv, BulksTyped
    <2>. QED
      BY <2>1, <2>2, <2>3
  <1>6. BulksFaithful'
    BY <1>5 DEF BulksFaithful
  <1>. QED
    BY <1>4, <1>6 DEF RelationsInv

LEMMA EffectsTyped == ASSUME RelationsInv PROVE BulkEffects \subseteq [Contact -> Contact]
  <1>1. tagged \subseteq Tags
    BY DEF RelationsInv, CardsTyped
  <1>2. \A stage \in Stages : [c \in Contact |-> [c EXCEPT !.stage = stage]] \in [Contact -> Contact]
    BY DEF Contact
  <1>3. \A t \in Tags : [c \in Contact |-> [c EXCEPT !.tags = @ \cup {t}]] \in [Contact -> Contact]
    BY DEF Contact
  <1>4. \A t \in Tags : [c \in Contact |-> [c EXCEPT !.tags = @ \ {t}]] \in [Contact -> Contact]
    BY DEF Contact
  <1>. QED
    BY <1>1, <1>2, <1>3, <1>4 DEF BulkEffects

LEMMA ApplyBulkKept == ASSUME RelationsInv, NEW k \in Bulks, ApplyBulk(k) PROVE RelationsInv'
  <1>1. PICK x \in BulkRows : x = bulk[k] /\ x.step = "read"
    BY BulkRow DEF ApplyBulk
  <1>2. PICK b : b = [x EXCEPT !.step = "applied"]
    OBVIOUS
  <1>3. b \in BulkRows /\ b.step = "applied" /\ b.who = x.who /\ b.prev = x.prev
    BY <1>2 DEF BulkRows, BulkSteps
  <1>4. bulk' = [bulk EXCEPT ![k] = b] /\ before' = [before EXCEPT ![k] = card] /\ Wrote(x.who, {k})
        /\ UNCHANGED <<tagged, editor>> /\ x.who \in SUBSET Cards
    BY <1>1, <1>2 DEF ApplyBulk, BulkRows, RelationsInv, BulksTyped
  <1>5. PICK effect \in [Contact -> Contact] :
          card' = [p \in Cards |-> IF p \in x.who \cap Present THEN effect[card[p]] ELSE card[p]]
    BY <1>1, EffectsTyped DEF ApplyBulk
  <1>6. \A p \in Cards : card'[p] \in CardRows /\ (p \in Present => card'[p] # Absent)
    BY <1>5, PresentTyped, AbsentIsNone DEF CardRows, Present
  <1>7. card' \in [Cards -> CardRows] /\ \A p \in Cards : p \notin x.who => card'[p] = card[p]
    BY <1>1, <1>5, <1>6
  <1>8. before' \in [Bulks -> [Cards -> CardRows]] /\ before'[k] = card /\ \A j \in Bulks : j # k => before'[j] = before[j]
    BY <1>4 DEF RelationsInv, CardsTyped, BulksTyped
  <1>9. \A p \in Untouched(k) : card'[p] # Absent /\ b.prev[p] = before'[k][p]
    <2>. SUFFICES ASSUME NEW p \in Untouched(k) PROVE card'[p] # Absent /\ b.prev[p] = before'[k][p]
      OBVIOUS
    <2>1. p \in Cards /\ card[p] # Absent /\ x.prev[p] = card[p]
      BY <1>1 DEF Untouched, BulkRows, RelationsInv, BulksFaithful
    <2>. QED
      BY <1>3, <1>6, <1>8, <2>1 DEF Present
  <1>10. \A p \in Untouched(k) :
           /\ b.step \in {"read", "applied", "undoing"} => card'[p] # Absent
           /\ b.step = "read" => b.prev[p] = card'[p]
           /\ b.step \in {"applied", "undoing", "undone"} => b.prev[p] = before'[k][p]
           /\ b.step = "undone" => card'[p] = before'[k][p]
    BY <1>3, <1>9
  <1>11. b.who = bulk[k].who
    BY <1>1, <1>3
  <1>12. \A p \in Cards : p \notin x.who => card'[p] = card[p]
    BY <1>7
  <1>13. \A j \in Bulks : j # k => before'[j] = before[j]
    BY <1>8
  <1>14. x.who \in SUBSET Cards /\ b \in BulkRows /\ card' \in [Cards -> CardRows]
         /\ before' \in [Bulks -> [Cards -> CardRows]]
    BY <1>3, <1>4, <1>7, <1>8
  <1>15. bulk' = [bulk EXCEPT ![k] = b] /\ Wrote(x.who, {k}) /\ UNCHANGED <<tagged, editor>>
    BY <1>4
  <1>. QED
    BY <1>10, <1>11, <1>12, <1>13, <1>14, <1>15, BulkWrites

LEMMA UndoBulkKept == ASSUME RelationsInv, NEW k \in Bulks, UndoBulk(k) PROVE RelationsInv'
  <1>1. PICK x \in BulkRows : x = bulk[k] /\ x.step = "undoing"
    BY BulkRow DEF UndoBulk
  <1>2. CASE /\ card' = [p \in Cards |-> IF p \in x.who \cap Present THEN x.prev[p] ELSE card[p]]
             /\ bulk' = [bulk EXCEPT ![k].step = "undone"]
             /\ Wrote(x.who \cap Present, {k})
    <2>0. PICK ps \in SUBSET Cards : ps = x.who \cap Present /\ Wrote(ps, {k})
      BY <1>2 DEF BulkRows
    <2>1. PICK b : b = [x EXCEPT !.step = "undone"]
      OBVIOUS
    <2>2. b \in BulkRows /\ b.step = "undone" /\ b.who = x.who /\ b.prev = x.prev
      BY <2>1 DEF BulkRows, BulkSteps
    <2>3. bulk' = [bulk EXCEPT ![k] = b]
      BY <1>1, <1>2, <2>1 DEF RelationsInv, BulksTyped
    <2>4. UNCHANGED <<tagged, editor, before>>
      BY DEF UndoBulk
    <2>5. card' \in [Cards -> CardRows] /\ \A p \in Cards : p \notin ps => card'[p] = card[p]
      BY <1>1, <1>2, <2>0 DEF BulkRows, RelationsInv, CardsTyped
    <2>6. before' \in [Bulks -> [Cards -> CardRows]] /\ \A j \in Bulks : j # k => before'[j] = before[j]
      BY <2>4 DEF RelationsInv, BulksTyped
    <2>7. \A p \in Untouched(k) : x.prev[p] = before'[k][p] /\ card'[p] = before'[k][p]
      <3>. SUFFICES ASSUME NEW p \in Untouched(k) PROVE x.prev[p] = before'[k][p] /\ card'[p] = before'[k][p]
        OBVIOUS
      <3>1. p \in Cards /\ card[p] # Absent /\ x.prev[p] = before[k][p] /\ p \in x.who
        BY <1>1 DEF Untouched, BulkRows, RelationsInv, BulksFaithful
      <3>. QED
        BY <1>2, <2>4, <3>1 DEF Present
    <2>8. \A p \in Untouched(k) :
            /\ b.step \in {"read", "applied", "undoing"} => card'[p] # Absent
            /\ b.step = "read" => b.prev[p] = card'[p]
            /\ b.step \in {"applied", "undoing", "undone"} => b.prev[p] = before'[k][p]
            /\ b.step = "undone" => card'[p] = before'[k][p]
      BY <2>2, <2>7
    <2>9. b.who = bulk[k].who /\ UNCHANGED <<tagged, editor>>
      BY <1>1, <2>2, <2>4
    <2>. QED
      BY <2>0, <2>2, <2>3, <2>4, <2>5, <2>6, <2>8, <2>9, BulkWrites
  <1>3. CASE bulk' = [bulk EXCEPT ![k].step = "applied"] /\ UNCHANGED <<card, edits, touched>>
    <2>1. UNCHANGED <<card, tagged, editor, edits, before, touched>> /\ bulk[k].step \in {"applied", "undoing"}
      BY <1>1, <1>3 DEF UndoBulk
    <2>. QED
      BY <1>3, <2>1, BulkMoves
  <1>. QED
    BY <1>1, <1>2, <1>3 DEF UndoBulk

LEMMA RelationsStep == RelationsInv /\ [RelationsNext]_relationsVars => RelationsInv'
  <1>. SUFFICES ASSUME RelationsInv, [RelationsNext]_relationsVars PROVE RelationsInv'
    OBVIOUS
  <1>1. ASSUME NEW p \in Cards, UpsertContact(p) \/ StageByWorker(p) \/ \E t \in Tags : TagContact(p, t)
        PROVE  RelationsInv'
    BY <1>1, UpsertKept, StageByWorkerKept, TagContactKept
  <1>2. ASSUME NEW p \in Cards, NEW f \in Editors, NEW step \in {"form", "call"}, OpenEditor(f, p, step)
        PROVE  RelationsInv'
    BY <1>2, OpenEditorKept
  <1>3. ASSUME NEW f \in Editors, SaveForm(f) \/ WriteCallStage(f) PROVE RelationsInv'
    BY <1>3, SaveFormKept, WriteCallStageKept
  <1>4. ASSUME NEW ps \in SUBSET Cards, DeleteContacts(ps) \/ \E k \in Bulks : ReadBulk(k, ps) PROVE RelationsInv'
    BY <1>4, DeleteContactsKept, ReadBulkKept
  <1>5. ASSUME NEW t \in Tags, DeleteTag(t) PROVE RelationsInv'
    BY <1>5, DeleteTagKept
  <1>6. ASSUME NEW k \in Bulks, ApplyBulk(k) \/ UndoBulk(k) PROVE RelationsInv'
    BY <1>6, ApplyBulkKept, UndoBulkKept
  <1>7. ASSUME NEW k \in Bulks, AskUndo(k) \/ UndoExpires(k) PROVE RelationsInv'
    <2>1. bulk[k].step \in {"applied", "undoing"} /\ UNCHANGED <<card, tagged, editor, edits, before, touched>>
      BY <1>7 DEF AskUndo, UndoExpires
    <2>2. bulk' = [bulk EXCEPT ![k].step = "undoing"] \/ bulk' = [bulk EXCEPT ![k].step = "expired"]
      BY <1>7 DEF AskUndo, UndoExpires
    <2>. QED
      BY <2>1, <2>2, BulkMoves
  <1>8. ASSUME UNCHANGED relationsVars PROVE RelationsInv'
    BY <1>8 DEF relationsVars, RelationsInv, CardsTyped, BulksTyped, BulksFaithful, Untouched
  <1>. QED
    BY <1>1, <1>2, <1>3, <1>4, <1>5, <1>6, <1>7, <1>8 DEF RelationsNext

(***************************************************************************)
(* The call queue.  A request that is about to commit a follow-up counts   *)
(* as the pending task it will make, in place of the one that it closes.   *)
(***************************************************************************)
TaskRows == [status : {"none", "PENDING", "COMPLETED", "SKIPPED", "gone"}, who : Prospects \cup {NoProspect},
             owner : Callers \cup {NoCaller}]
DispoRows ==
  [step : DispoSteps, via : {"api", "tool"}, user : Callers \cup {NoCaller}, who : Prospects \cup {NoProspect},
   task : TaskIds \cup {NoTask}, outcome : Outcomes \cup {"none"}, found : TaskIds \cup {NoTask}]

\* A task that is shown or worked on has been created.
Born(t) == t = NoTask \/ task[t].status # "none"

TasksBorn ==
  /\ \A t \in TaskIds : task[t].status = "none" => task[t] = Unborn
  /\ \A u \in Callers : Born(desk[u])
  /\ \A d \in Dispositions : Born(dispo[d].task)

RowSound(x) ==
  /\ x.step = "look" => x.via = "api" /\ x.outcome # "DO_NOT_CALL"
  /\ x.step = "merge" => x.found # NoTask

Closes(x, t) == x.task = t /\ x.step \in {"close", "look", "merge", "commit"}

ClosingsCounted ==
  \A t \in TaskIds : /\ task[t].status \in {"none", "PENDING"} => closings[t] = 0
                     /\ closings[t] + Cardinality(Closing(t)) <= 1 + crossed[t]

\* The request x makes a pending task of u for p when it commits.
Makes(x, u, p) ==
  /\ x.step = "commit" /\ x.via = "api" /\ x.found = NoTask /\ x.outcome # "DO_NOT_CALL"
  /\ x.user = u /\ x.who = p
Makers(u, p) == {d \in Dispositions : Makes(dispo[d], u, p)}
\* Pending tasks that no maker is about to close.
Loose(u, p) == {t \in Pending(u, p) : \A d \in Makers(u, p) : dispo[d].task # t}

MakersCounted ==
  \A u \in Callers, p \in Prospects : Cardinality(Loose(u, p)) + Cardinality(Makers(u, p)) <= 1 + extra[u][p]

QueueInv ==
  QueueTypeOK /\ TasksBorn /\ (\A d \in Dispositions : RowSound(dispo[d])) /\ ClosingsCounted /\ MakersCounted

LEMMA QueueImplies == QueueInv => QueueTypeOK /\ TasksOnce
  <1>. SUFFICES ASSUME QueueInv PROVE TasksOnce
    BY DEF QueueInv
  <1>1. IsFiniteSet(Dispositions) /\ IsFiniteSet(TaskIds)
    BY QueueAssumption, FS_Interval DEF QueueAssumption, TaskIds
  <1>2. ASSUME NEW t \in TaskIds PROVE closings[t] <= 1 + crossed[t]
    <2>1. PICK a, b \in Nat : a = closings[t] /\ b = crossed[t]
      BY DEF QueueInv, QueueTypeOK
    <2>2. Cardinality(Closing(t)) \in Nat
      BY <1>1, FS_Subset, FS_CardinalityType DEF Closing
    <2>3. closings[t] + Cardinality(Closing(t)) <= 1 + crossed[t]
      BY DEF QueueInv, ClosingsCounted
    <2>. QED
      BY <2>1, <2>2, <2>3
  <1>3. ASSUME NEW u \in Callers, NEW p \in Prospects PROVE Cardinality(Pending(u, p)) <= 1 + extra[u][p]
    <2>1. PICK P, L, M, H : /\ P = Pending(u, p) /\ L = Loose(u, p) /\ M = Makers(u, p)
                            /\ H = {dispo[d].task : d \in M}
      OBVIOUS
    <2>2. IsFiniteSet(P) /\ IsFiniteSet(M) /\ IsFiniteSet(L)
      BY <1>1, <2>1, FS_Subset DEF Pending, Loose, Makers
    <2>3. IsFiniteSet(H) /\ Cardinality(H) <= Cardinality(M)
      <3>1. PICK f : f = [d \in M |-> dispo[d].task]
        OBVIOUS
      <3>2. H = {f[d] : d \in M}
        BY <2>1, <3>1
      <3>3. f \in Surjection(M, H)
        BY <3>1, <3>2 DEF Surjection
      <3>. QED
        BY <2>2, <3>3, FS_Surjection
    <2>4. P \subseteq L \cup H
      BY <2>1 DEF Loose
    <2>5. Cardinality(P) <= Cardinality(L \cup H) /\ IsFiniteSet(L \cup H)
      BY <2>2, <2>3, <2>4, FS_Subset, FS_Union
    <2>6. Cardinality(L \cup H) = Cardinality(L) + Cardinality(H) - Cardinality(L \cap H)
      BY <2>2, <2>3, FS_Union
    <2>7. PICK a, b, c, e \in Nat : /\ a = Cardinality(L) /\ b = Cardinality(H) /\ c = Cardinality(M)
                                    /\ e = Cardinality(L \cap H)
      BY <2>2, <2>3, FS_CardinalityType, FS_Intersection
    <2>8. Cardinality(P) \in Nat
      BY <2>2, FS_CardinalityType
    <2>9. a + c <= 1 + extra[u][p]
      BY <2>1, <2>7 DEF QueueInv, MakersCounted
    <2>10. extra[u][p] \in Nat
      BY DEF QueueInv, QueueTypeOK
    <2>. QED
      BY <2>1, <2>3, <2>5, <2>6, <2>7, <2>8, <2>9, <2>10
  <1>. QED
    BY <1>2, <1>3 DEF TasksOnce, PendingTwiceOnlyByRace, ClosedTwiceOnlyByOverlap

LEMMA QueueConstants ==
  /\ IsFiniteSet(Dispositions) /\ IsFiniteSet(TaskIds) /\ MaxTasks \in Nat /\ MaxLogged \in Nat
  /\ NoProspect \notin Prospects /\ NoCaller \notin Callers /\ NoTask \notin TaskIds /\ TaskIds \subseteq Nat
  BY QueueAssumption, FS_Interval DEF QueueAssumption, TaskIds, NoTask

\* How the size of a finite set changes with one element.
LEMMA SizeMoves ==
  ASSUME NEW S, IsFiniteSet(S)
  PROVE  /\ Cardinality(S) \in Nat
         /\ \A T : T \subseteq S => Cardinality(T) \in Nat /\ Cardinality(T) <= Cardinality(S)
         /\ \A T, x : T \subseteq S \cup {x} => Cardinality(T) \in Nat /\ Cardinality(T) <= Cardinality(S) + 1
         /\ \A T, x : x \in S /\ T \subseteq S \ {x} => Cardinality(T) \in Nat /\ Cardinality(T) + 1 <= Cardinality(S)
  <1>1. Cardinality(S) \in Nat
    BY FS_CardinalityType
  <1>2. ASSUME NEW T, T \subseteq S PROVE Cardinality(T) \in Nat /\ Cardinality(T) <= Cardinality(S)
    BY <1>2, FS_Subset, FS_CardinalityType
  <1>3. ASSUME NEW T, NEW x, T \subseteq S \cup {x}
        PROVE  Cardinality(T) \in Nat /\ Cardinality(T) <= Cardinality(S) + 1
    <2>1. PICK U : U = S \cup {x}
      OBVIOUS
    <2>2. IsFiniteSet(U) /\ (Cardinality(U) = Cardinality(S) \/ Cardinality(U) = Cardinality(S) + 1)
      BY <2>1, FS_AddElement
    <2>3. IsFiniteSet(T) /\ Cardinality(T) <= Cardinality(U)
      BY <1>3, <2>1, <2>2, FS_Subset
    <2>4. Cardinality(T) \in Nat
      BY <2>3, FS_CardinalityType
    <2>. QED
      BY <1>1, <2>2, <2>3, <2>4
  <1>4. ASSUME NEW T, NEW x, x \in S, T \subseteq S \ {x}
        PROVE  Cardinality(T) \in Nat /\ Cardinality(T) + 1 <= Cardinality(S)
    <2>1. PICK U : U = S \ {x}
      OBVIOUS
    <2>2. IsFiniteSet(U) /\ Cardinality(U) = Cardinality(S) - 1
      BY <1>4, <2>1, FS_RemoveElement
    <2>3. IsFiniteSet(T) /\ Cardinality(T) <= Cardinality(U)
      BY <1>4, <2>1, <2>2, FS_Subset
    <2>4. Cardinality(T) \in Nat
      BY <2>3, FS_CardinalityType
    <2>. QED
      BY <1>1, <2>2, <2>3, <2>4
  <1>. QED
    BY <1>1, <1>2, <1>3, <1>4

LEMMA QueueStarts == QueueInit => QueueInv
  <1>. SUFFICES ASSUME QueueInit PROVE QueueInv
    OBVIOUS
  <1>1. 0 \in Nat /\ 0 \in 0 .. MaxLogged
    BY QueueConstants
  <1>2. Unborn \in TaskRows /\ Unborn.status = "none"
    BY DEF Unborn, TaskRows
  <1>3. NoDispo \in DispoRows /\ NoDispo.step = "idle" /\ NoDispo.task = NoTask
    BY DEF NoDispo, DispoRows, DispoSteps
  <1>4. QueueTypeOK
    BY <1>1, <1>2, <1>3 DEF QueueInit, QueueTypeOK, TaskRows, DispoRows
  <1>5. TasksBorn
    BY <1>3 DEF QueueInit, TasksBorn, Born
  <1>6. \A d \in Dispositions : RowSound(dispo[d])
    BY <1>3 DEF QueueInit, RowSound
  <1>7. \A d \in Dispositions : dispo[d].step = "idle"
    BY <1>3 DEF QueueInit
  <1>8. ClosingsCounted
    <2>1. \A t \in TaskIds : Closing(t) = {} /\ closings[t] = 0 /\ crossed[t] = 0
      BY <1>7 DEF Closing, QueueInit
    <2>2. Cardinality({}) = 0
      BY FS_EmptySet
    <2>. QED
      BY <2>1, <2>2 DEF ClosingsCounted
  <1>9. MakersCounted
    <2>. SUFFICES ASSUME NEW u \in Callers, NEW p \in Prospects
                  PROVE  Cardinality(Loose(u, p)) + Cardinality(Makers(u, p)) <= 1 + extra[u][p]
      BY DEF MakersCounted
    <2>1. Makers(u, p) = {}
      BY <1>7 DEF Makers, Makes
    <2>2. Loose(u, p) = {}
      BY DEF QueueInit, Loose, Pending, Unborn
    <2>3. Cardinality({}) = 0 /\ extra[u][p] = 0
      BY FS_EmptySet DEF QueueInit
    <2>. QED
      BY <2>1, <2>2, <2>3
  <1>. QED
    BY <1>4, <1>5, <1>6, <1>8, <1>9 DEF QueueInv

(***************************************************************************)
(* One request moves.                                                      *)
(***************************************************************************)
DispoIs(d, y) == dispo' = [dispo EXCEPT ![d] = y]

LEMMA DispoRow ==
  ASSUME QueueInv, NEW d \in Dispositions
  PROVE  \E x \in DispoRows : x = dispo[d] /\ RowSound(x) /\ Born(x.task)
  BY DEF QueueInv, QueueTypeOK, DispoRows, TasksBorn

LEMMA DispoMoves ==
  ASSUME QueueInv, NEW d \in Dispositions, NEW y \in DispoRows, DispoIs(d, y)
  PROVE  /\ dispo' \in [Dispositions -> DispoRows] /\ dispo'[d] = y
         /\ \A e \in Dispositions : e # d => dispo'[e] = dispo[e]
  BY DEF QueueInv, QueueTypeOK, DispoRows, DispoIs

\* The requests that close t, before and after.
LEMMA ClosingMoves ==
  ASSUME QueueInv, NEW d \in Dispositions, NEW y \in DispoRows, DispoIs(d, y), NEW t \in TaskIds
  PROVE  \E m, n \in Nat :
           /\ m = Cardinality(Closing(t)) /\ n = Cardinality(Closing(t)') /\ n <= m + 1
           /\ (Closes(y, t) => Closes(dispo[d], t)) => n <= m
           /\ Closes(dispo[d], t) /\ ~Closes(y, t) => n + 1 <= m
           /\ Closing(t) = {} => n <= 1
  <1>1. PICK A, B : A = Closing(t) /\ B = Closing(t)'
    OBVIOUS
  <1>2. IsFiniteSet(A)
    BY <1>1, QueueConstants, FS_Subset DEF Closing
  <1>3. /\ dispo'[d] = y /\ \A e \in Dispositions : e # d => dispo'[e] = dispo[e]
    BY DispoMoves
  <1>4. A = {e \in Dispositions : Closes(dispo[e], t)} /\ B = {e \in Dispositions : Closes(dispo'[e], t)}
    BY <1>1 DEF Closing, Closes
  <1>5. /\ B \subseteq A \cup {d}
        /\ (Closes(y, t) => Closes(dispo[d], t)) => B \subseteq A
        /\ Closes(dispo[d], t) /\ ~Closes(y, t) => d \in A /\ B \subseteq A \ {d}
    BY <1>3, <1>4
  <1>6. PICK m, n \in Nat : m = Cardinality(A) /\ n = Cardinality(B) /\ n <= m + 1
    BY <1>2, <1>5, SizeMoves
  <1>7. (Closes(y, t) => Closes(dispo[d], t)) => n <= m
    BY <1>2, <1>5, <1>6, SizeMoves
  <1>8. Closes(dispo[d], t) /\ ~Closes(y, t) => n + 1 <= m
    BY <1>2, <1>5, <1>6, SizeMoves
  <1>9. A = {} => m = 0
    BY <1>6, FS_EmptySet
  <1>. QED
    BY <1>1, <1>6, <1>7, <1>8, <1>9

\* A request that is not about to make a task of u for p after its step.
LEMMA MakersDrop ==
  ASSUME QueueInv, NEW d \in Dispositions, NEW y \in DispoRows, DispoIs(d, y),
         NEW u \in Callers, NEW p \in Prospects, ~Makes(y, u, p), Pending(u, p)' \subseteq Pending(u, p),
         extra'[u][p] \in Nat, extra[u][p] <= extra'[u][p]
  PROVE  Cardinality(Loose(u, p)') + Cardinality(Makers(u, p)') <= 1 + extra'[u][p]
  <1>1. PICK A, B, K, L : A = Makers(u, p) /\ B = Makers(u, p)' /\ K = Loose(u, p) /\ L = Loose(u, p)'
    OBVIOUS
  <1>2. IsFiniteSet(A) /\ IsFiniteSet(K)
    BY <1>1, QueueConstants, FS_Subset DEF Makers, Loose, Pending
  <1>3. /\ dispo'[d] = y /\ \A e \in Dispositions : e # d => dispo'[e] = dispo[e]
    BY DispoMoves
  <1>4. A = {e \in Dispositions : Makes(dispo[e], u, p)} /\ B = {e \in Dispositions : Makes(dispo'[e], u, p)}
    BY <1>1 DEF Makers
  <1>5. B \subseteq A \ {d} /\ A \subseteq B \cup {d}
    BY <1>3, <1>4
  <1>6. K = {t \in Pending(u, p) : \A e \in A : dispo[e].task # t}
    BY <1>1 DEF Loose
  <1>7. L = {t \in Pending(u, p)' : \A e \in B : dispo'[e].task # t}
    BY <1>1 DEF Loose
  <1>8. L \subseteq {t \in Pending(u, p) : \A e \in B : dispo[e].task # t}
    BY <1>3, <1>4, <1>5, <1>7
  <1>9. PICK a, k, b, l \in Nat : a = Cardinality(A) /\ k = Cardinality(K) /\ b = Cardinality(B) /\ l = Cardinality(L)
    <2>1. L \subseteq K \cup {dispo[d].task}
      BY <1>5, <1>6, <1>8
    <2>2. B \subseteq A
      BY <1>5
    <2>. QED
      BY <1>2, <2>1, <2>2, SizeMoves
  <1>10. CASE d \in A
    <2>1. L \subseteq K \cup {dispo[d].task}
      BY <1>5, <1>6, <1>8
    <2>2. l <= k + 1 /\ b + 1 <= a
      BY <1>2, <1>5, <1>9, <1>10, <2>1, SizeMoves
    <2>. QED
      BY <1>1, <1>9, <2>2 DEF QueueInv, QueueTypeOK, MakersCounted
  <1>11. CASE d \notin A
    <2>1. B = A
      BY <1>5, <1>11
    <2>2. L \subseteq K
      BY <1>6, <1>8, <2>1
    <2>3. l <= k /\ b <= a
      BY <1>2, <1>9, <2>1, <2>2, SizeMoves
    <2>. QED
      BY <1>1, <1>9, <2>3 DEF QueueInv, QueueTypeOK, MakersCounted
  <1>. QED
    BY <1>10, <1>11

\* The tasks stay as they are and one request moves.
LEMMA DispoKept ==
  ASSUME QueueInv, NEW d \in Dispositions, NEW y \in DispoRows, DispoIs(d, y),
         UNCHANGED <<task, known, desk, closings>>, logged' \in 0 .. MaxLogged,
         crossed' \in [TaskIds -> Nat], extra' \in [Callers -> [Prospects -> Nat]],
         Born(y.task), RowSound(y),
         \A t \in TaskIds : closings[t] + Cardinality(Closing(t)') <= 1 + crossed'[t],
         \A u \in Callers, p \in Prospects :
           Cardinality(Loose(u, p)') + Cardinality(Makers(u, p)') <= 1 + extra'[u][p]
  PROVE  QueueInv'
  <1>1. /\ dispo' \in [Dispositions -> DispoRows] /\ dispo'[d] = y
        /\ \A e \in Dispositions : e # d => dispo'[e] = dispo[e]
    BY DispoMoves
  <1>2. QueueTypeOK'
    BY <1>1 DEF QueueInv, QueueTypeOK, DispoRows
  <1>3. \A e \in Dispositions : Born(dispo'[e].task) /\ RowSound(dispo'[e])
    BY <1>1, DispoRow
  <1>4. TasksBorn'
    BY <1>3 DEF QueueInv, TasksBorn, Born
  <1>5. (\A e \in Dispositions : RowSound(dispo[e]))'
    BY <1>3 DEF RowSound
  <1>6. ClosingsCounted'
    BY DEF QueueInv, ClosingsCounted
  <1>7. MakersCounted'
    BY DEF MakersCounted
  <1>. QED
    BY <1>2, <1>4, <1>5, <1>6, <1>7 DEF QueueInv

\* It neither closes another task than before nor is about to make one.
LEMMA DispoCalm ==
  ASSUME QueueInv, NEW d \in Dispositions, NEW y \in DispoRows, DispoIs(d, y),
         UNCHANGED <<task, known, desk, closings, crossed>>, logged' \in 0 .. MaxLogged, Born(y.task), RowSound(y),
         extra' \in [Callers -> [Prospects -> Nat]],
         \A u \in Callers, p \in Prospects : extra[u][p] <= extra'[u][p] /\ ~Makes(y, u, p),
         \A t \in TaskIds : Closes(y, t) => Closes(dispo[d], t)
  PROVE  QueueInv'
  <1>1. ASSUME NEW t \in TaskIds PROVE closings[t] + Cardinality(Closing(t)') <= 1 + crossed'[t]
    <2>1. PICK m, n \in Nat : m = Cardinality(Closing(t)) /\ n = Cardinality(Closing(t)') /\ n <= m
      BY ClosingMoves
    <2>2. PICK a, b \in Nat : a = closings[t] /\ b = crossed[t] /\ a + m <= 1 + b
      BY <2>1 DEF QueueInv, QueueTypeOK, ClosingsCounted
    <2>. QED
      BY <2>1, <2>2
  <1>2. ASSUME NEW u \in Callers, NEW p \in Prospects
        PROVE  Cardinality(Loose(u, p)') + Cardinality(Makers(u, p)') <= 1 + extra'[u][p]
    <2>1. Pending(u, p)' \subseteq Pending(u, p)
      BY DEF Pending
    <2>2. extra'[u][p] \in Nat
      OBVIOUS
    <2>. QED
      BY <2>1, <2>2, MakersDrop
  <1>3. crossed' \in [TaskIds -> Nat]
    BY DEF QueueInv, QueueTypeOK
  <1>. QED
    BY <1>1, <1>2, <1>3, DispoKept

\* A request goes to another step with what it has.
LEMMA StepTaken ==
  ASSUME QueueInv, NEW d \in Dispositions, NEW s \in DispoSteps, DispoGoes(d, dispo[d].step, s)
  PROVE  \E y \in DispoRows :
           /\ DispoIs(d, y) /\ y.step = s /\ y.via = dispo[d].via /\ y.user = dispo[d].user /\ y.who = dispo[d].who
           /\ y.task = dispo[d].task /\ y.outcome = dispo[d].outcome /\ y.found = dispo[d].found
  <1>1. PICK x \in DispoRows : x = dispo[d]
    BY DispoRow
  <1>2. PICK y : y = [x EXCEPT !.step = s]
    OBVIOUS
  <1>3. /\ y \in DispoRows /\ y.step = s /\ y.via = x.via /\ y.user = x.user /\ y.who = x.who
        /\ y.task = x.task /\ y.outcome = x.outcome /\ y.found = x.found
    BY <1>2 DEF DispoRows
  <1>4. DispoIs(d, y)
    BY <1>1, <1>2 DEF DispoGoes, DispoIs, QueueInv, QueueTypeOK
  <1>. QED
    BY <1>1, <1>3, <1>4

LEMMA LoggedMore == ASSUME QueueInv PROVE logged \in 0 .. MaxLogged /\ (logged < MaxLogged => logged + 1 \in 0 .. MaxLogged)
  BY QueueConstants DEF QueueInv, QueueTypeOK

LEMMA ExtraTyped == ASSUME QueueInv, extra' = extra
                    PROVE  /\ extra' \in [Callers -> [Prospects -> Nat]]
                           /\ \A u \in Callers, p \in Prospects : extra[u][p] <= extra'[u][p]
  <1>1. extra \in [Callers -> [Prospects -> Nat]]
    BY DEF QueueInv, QueueTypeOK
  <1>2. \A u \in Callers, p \in Prospects : extra[u][p] \in Nat
    BY <1>1
  <1>. QED
    BY <1>1, <1>2

LEMMA LogCallKept ==
  ASSUME QueueInv, NEW d \in Dispositions, NEW u \in Callers, NEW outcome \in Outcomes, NEW via \in {"api", "tool"},
         LogCall(d, u, outcome, via)
  PROVE  QueueInv'
  <1>1. PICK who \in Prospects : who = task[desk[u]].who
    BY DEF LogCall, QueueInv, QueueTypeOK
  <1>2. PICK y : y = [step |-> "find", via |-> via, user |-> u, who |-> who,
                      task |-> desk[u], outcome |-> outcome, found |-> NoTask]
    OBVIOUS
  <1>3. y \in DispoRows /\ y.step = "find" /\ y.task = desk[u]
    BY <1>2 DEF DispoRows, DispoSteps, QueueInv, QueueTypeOK
  <1>4. /\ DispoIs(d, y) /\ logged' \in 0 .. MaxLogged /\ UNCHANGED <<task, known, desk, closings, crossed>>
        /\ extra' = extra
    BY <1>1, <1>2, LoggedMore DEF LogCall, BeginDispo, DispoIs
  <1>5. Born(y.task) /\ RowSound(y)
    BY <1>3 DEF QueueInv, TasksBorn, RowSound
  <1>6. /\ \A v \in Callers, p \in Prospects : ~Makes(y, v, p)
        /\ \A t \in TaskIds : Closes(y, t) => Closes(dispo[d], t)
    BY <1>3 DEF Makes, Closes
  <1>7. /\ extra' \in [Callers -> [Prospects -> Nat]]
        /\ \A v \in Callers, p \in Prospects : extra[v][p] <= extra'[v][p] /\ ~Makes(y, v, p)
    BY <1>4, <1>6, ExtraTyped
  <1>. QED
    BY <1>3, <1>4, <1>5, <1>6, <1>7, DispoCalm

LEMMA ScheduleCallKept ==
  ASSUME QueueInv, NEW d \in Dispositions, NEW u \in Callers, NEW who \in Prospects, ScheduleCall(d, u, who)
  PROVE  QueueInv'
  <1>2. PICK y : y = [step |-> "look", via |-> "api", user |-> u, who |-> who,
                      task |-> NoTask, outcome |-> "none", found |-> NoTask]
    OBVIOUS
  <1>3. y \in DispoRows /\ y.step = "look" /\ y.task = NoTask /\ y.via = "api" /\ y.outcome = "none"
    BY <1>2 DEF DispoRows, DispoSteps
  <1>4. /\ DispoIs(d, y) /\ logged' \in 0 .. MaxLogged /\ UNCHANGED <<task, known, desk, closings, crossed>>
        /\ extra' = extra
    BY <1>2, LoggedMore DEF ScheduleCall, BeginDispo, DispoIs
  <1>5. Born(y.task) /\ RowSound(y)
    BY <1>3 DEF Born, RowSound
  <1>6. /\ \A v \in Callers, p \in Prospects : ~Makes(y, v, p)
        /\ \A t \in TaskIds : Closes(y, t) => Closes(dispo[d], t)
    BY <1>3, QueueConstants DEF Makes, Closes
  <1>7. /\ extra' \in [Callers -> [Prospects -> Nat]]
        /\ \A v \in Callers, p \in Prospects : extra[v][p] <= extra'[v][p] /\ ~Makes(y, v, p)
    BY <1>4, <1>6, ExtraTyped
  <1>. QED
    BY <1>3, <1>4, <1>5, <1>6, <1>7, DispoCalm

\* A request ends, with nothing done.
LEMMA DispoEndsKept ==
  ASSUME QueueInv, NEW d \in Dispositions, DispoEnds(d), UNCHANGED <<task, known, desk, closings, crossed, logged>>,
         extra' = extra
  PROVE  QueueInv'
  <1>1. NoDispo \in DispoRows /\ NoDispo.step = "idle" /\ NoDispo.task = NoTask
    BY DEF NoDispo, DispoRows, DispoSteps
  <1>2. DispoIs(d, NoDispo) /\ logged' \in 0 .. MaxLogged
    BY LoggedMore DEF DispoEnds, DispoIs
  <1>3. Born(NoDispo.task) /\ RowSound(NoDispo)
    BY <1>1 DEF Born, RowSound
  <1>4. /\ \A v \in Callers, p \in Prospects : ~Makes(NoDispo, v, p)
        /\ \A t \in TaskIds : Closes(NoDispo, t) => Closes(dispo[d], t)
    BY <1>1 DEF Makes, Closes
  <1>5. /\ extra' \in [Callers -> [Prospects -> Nat]]
        /\ \A v \in Callers, p \in Prospects : extra[v][p] <= extra'[v][p] /\ ~Makes(NoDispo, v, p)
    BY <1>4, ExtraTyped
  <1>. QED
    BY <1>1, <1>2, <1>3, <1>4, <1>5, DispoCalm

LEMMA AbortKept == ASSUME QueueInv, NEW d \in Dispositions, AbortDispo(d) PROVE QueueInv'
  BY DispoEndsKept DEF AbortDispo

LEMMA FindTaskKept == ASSUME QueueInv, NEW d \in Dispositions, FindTask(d) PROVE QueueInv'
  <1>1. CASE DispoEnds(d) /\ UNCHANGED crossed
    BY <1>1, DispoEndsKept DEF FindTask
  <1>2. CASE /\ task[dispo[d].task].status = "PENDING" /\ DispoGoes(d, "find", "close")
             /\ crossed' = [crossed EXCEPT ![dispo[d].task] =
                              IF Closing(dispo[d].task) # {} THEN @ + 1 ELSE @]
    <2>1. PICK x \in DispoRows : x = dispo[d] /\ RowSound(x) /\ Born(x.task) /\ x.step = "find"
      BY DispoRow DEF FindTask
    <2>2. PICK y \in DispoRows : DispoIs(d, y) /\ y.step = "close" /\ y.task = x.task
      BY <1>2, <2>1, StepTaken DEF DispoSteps
    <2>3. UNCHANGED <<task, known, desk, closings>> /\ logged' \in 0 .. MaxLogged /\ extra' = extra
      BY LoggedMore DEF FindTask
    <2>4. Born(y.task) /\ RowSound(y)
      BY <2>1, <2>2 DEF RowSound
    <2>6. crossed' \in [TaskIds -> Nat]
      <3>1. crossed \in [TaskIds -> Nat]
        BY DEF QueueInv, QueueTypeOK
      <3>2. PICK v : v = IF Closing(x.task) # {} THEN crossed[x.task] + 1 ELSE crossed[x.task]
        OBVIOUS
      <3>3. crossed' = [crossed EXCEPT ![x.task] = v]
        BY <1>2, <2>1, <3>2
      <3>4. CASE x.task \in TaskIds
        <4>1. v \in Nat
          BY <3>1, <3>2, <3>4
        <4>. QED
          BY <3>1, <3>3, <4>1
      <3>5. CASE x.task \notin TaskIds
        BY <3>1, <3>3, <3>5
      <3>. QED
        BY <3>4, <3>5
    <2>5. ASSUME NEW t \in TaskIds
          PROVE  closings[t] + Cardinality(Closing(t)') <= 1 + crossed'[t]
      <3>1. PICK a, b \in Nat : a = closings[t] /\ b = crossed[t]
        BY DEF QueueInv, QueueTypeOK
      <3>2. PICK m, n \in Nat : /\ m = Cardinality(Closing(t)) /\ n = Cardinality(Closing(t)') /\ n <= m + 1
                                /\ (Closes(y, t) => Closes(dispo[d], t)) => n <= m
                                /\ Closing(t) = {} => n <= 1
        BY <2>2, ClosingMoves
      <3>3. a + m <= 1 + b
        BY <3>1, <3>2 DEF QueueInv, ClosingsCounted
      <3>4. CASE t # x.task
        <4>1. n <= m
          BY <2>2, <3>2, <3>4 DEF Closes
        <4>2. crossed'[t] = b
          BY <1>2, <2>1, <3>1, <3>4 DEF QueueInv, QueueTypeOK
        <4>. QED
          BY <3>1, <3>2, <3>3, <4>1, <4>2
      <3>5. CASE t = x.task /\ Closing(t) # {}
        <4>1. crossed'[t] = b + 1
          BY <1>2, <2>1, <3>1, <3>5 DEF QueueInv, QueueTypeOK
        <4>. QED
          BY <3>1, <3>2, <3>3, <4>1
      <3>6. CASE t = x.task /\ Closing(t) = {}
        <4>1. crossed'[t] = b
          BY <1>2, <2>1, <3>1, <3>6 DEF QueueInv, QueueTypeOK
        <4>2. a = 0
          BY <1>2, <2>1, <3>1, <3>6 DEF QueueInv, ClosingsCounted
        <4>. QED
          BY <3>1, <3>2, <3>6, <4>1, <4>2
      <3>. QED
        BY <3>4, <3>5, <3>6
    <2>7. ASSUME NEW u \in Callers, NEW p \in Prospects
          PROVE  Cardinality(Loose(u, p)') + Cardinality(Makers(u, p)') <= 1 + extra'[u][p]
      <3>1. Pending(u, p)' \subseteq Pending(u, p) /\ ~Makes(y, u, p)
        BY <2>2, <2>3 DEF Pending, Makes
      <3>2. extra'[u][p] \in Nat /\ extra[u][p] <= extra'[u][p]
        BY <2>3, ExtraTyped
      <3>. QED
        BY <2>2, <3>1, <3>2, MakersDrop
    <2>8. extra' \in [Callers -> [Prospects -> Nat]]
      BY <2>3, ExtraTyped
    <2>. QED
      BY <2>2, <2>3, <2>4, <2>5, <2>6, <2>7, <2>8, DispoKept
  <1>. QED
    BY <1>1, <1>2 DEF FindTask

LEMMA CloseTaskKept == ASSUME QueueInv, NEW d \in Dispositions, CloseTask(d) PROVE QueueInv'
  <1>1. PICK x \in DispoRows : x = dispo[d] /\ RowSound(x) /\ Born(x.task) /\ x.step = "close"
    BY DispoRow DEF CloseTask, DispoGoes
  <1>2. PICK s \in {"commit", "look"} :
          DispoGoes(d, "close", s) /\ s = IF IsTerminal(d) \/ dispo[d].via = "tool" THEN "commit" ELSE "look"
    BY DEF CloseTask
  <1>3. PICK y \in DispoRows : /\ DispoIs(d, y) /\ y.step = s /\ y.via = x.via
                               /\ y.task = x.task /\ y.outcome = x.outcome
    BY <1>1, <1>2, StepTaken DEF DispoSteps
  <1>4. /\ UNCHANGED <<task, known, desk, closings, crossed>> /\ logged' \in 0 .. MaxLogged /\ extra' = extra
    BY LoggedMore DEF CloseTask
  <1>5. /\ s = "look" => x.via = "api" /\ x.outcome # "DO_NOT_CALL"
        /\ s = "commit" => x.via = "tool" \/ x.outcome = "DO_NOT_CALL"
    BY <1>1, <1>2 DEF IsTerminal, DispoRows
  <1>6. Born(y.task) /\ RowSound(y)
    BY <1>1, <1>2, <1>3, <1>5 DEF RowSound
  <1>7. /\ \A v \in Callers, p \in Prospects : ~Makes(y, v, p)
        /\ \A t \in TaskIds : Closes(y, t) => Closes(dispo[d], t)
    BY <1>1, <1>2, <1>3, <1>5 DEF Makes, Closes
  <1>8. /\ extra' \in [Callers -> [Prospects -> Nat]]
        /\ \A v \in Callers, p \in Prospects : extra[v][p] <= extra'[v][p] /\ ~Makes(y, v, p)
    BY <1>4, <1>7, ExtraTyped
  <1>. QED
    BY <1>3, <1>4, <1>6, <1>7, <1>8, DispoCalm

LEMMA MergeFollowUpKept == ASSUME QueueInv, NEW d \in Dispositions, MergeFollowUp(d) PROVE QueueInv'
  <1>1. PICK x \in DispoRows : x = dispo[d] /\ RowSound(x) /\ Born(x.task) /\ x.step = "merge"
    BY DispoRow DEF MergeFollowUp, DispoGoes
  <1>2. PICK y \in DispoRows : DispoIs(d, y) /\ y.step = "commit" /\ y.task = x.task /\ y.found = x.found
    BY <1>1, StepTaken DEF DispoSteps, MergeFollowUp
  <1>3. /\ UNCHANGED <<task, known, desk, closings, crossed>> /\ logged' \in 0 .. MaxLogged /\ extra' = extra
    BY LoggedMore DEF MergeFollowUp
  <1>4. Born(y.task) /\ RowSound(y)
    BY <1>1, <1>2 DEF RowSound
  <1>5. /\ \A v \in Callers, p \in Prospects : ~Makes(y, v, p)
        /\ \A t \in TaskIds : Closes(y, t) => Closes(dispo[d], t)
    BY <1>1, <1>2 DEF Makes, Closes, RowSound
  <1>6. /\ extra' \in [Callers -> [Prospects -> Nat]]
        /\ \A v \in Callers, p \in Prospects : extra[v][p] <= extra'[v][p] /\ ~Makes(y, v, p)
    BY <1>3, <1>5, ExtraTyped
  <1>. QED
    BY <1>2, <1>3, <1>4, <1>5, <1>6, DispoCalm

LEMMA ExtraUp ==
  ASSUME QueueInv, NEW a, NEW b, extra' = [extra EXCEPT ![a][b] = @ + 1]
  PROVE  /\ extra' \in [Callers -> [Prospects -> Nat]]
         /\ \A u \in Callers, p \in Prospects : extra[u][p] <= extra'[u][p]
         /\ a \in Callers /\ b \in Prospects => extra'[a][b] = extra[a][b] + 1
  <1>1. extra \in [Callers -> [Prospects -> Nat]]
    BY DEF QueueInv, QueueTypeOK
  <1>2. PICK f : f = [extra[a] EXCEPT ![b] = @ + 1]
    OBVIOUS
  <1>3. extra' = [extra EXCEPT ![a] = f]
    BY <1>2
  <1>4. \A u \in Callers, p \in Prospects : extra[u][p] \in Nat
    BY <1>1
  <1>5. CASE a \notin Callers
    <2>1. extra' = extra
      BY <1>1, <1>3, <1>5
    <2>. QED
      BY <1>5, <2>1, ExtraTyped
  <1>6. CASE a \in Callers
    <2>1. PICK g \in [Prospects -> Nat] : g = extra[a]
      BY <1>1, <1>6
    <2>2. f = [g EXCEPT ![b] = g[b] + 1]
      BY <1>2, <2>1
    <2>3. f \in [Prospects -> Nat] /\ (\A p \in Prospects : g[p] <= f[p]) /\ (b \in Prospects => f[b] = g[b] + 1)
      <3>1. CASE b \in Prospects
        <4>1. PICK n \in Nat : n = g[b]
          BY <3>1
        <4>2. f = [g EXCEPT ![b] = n + 1]
          BY <2>2, <4>1
        <4>3. \A p \in Prospects : f[p] = IF p = b THEN n + 1 ELSE g[p]
          BY <4>2
        <4>4. f \in [Prospects -> Nat]
          <5>1. PICK k \in Nat : k = n + 1
            OBVIOUS
          <5>2. f = [g EXCEPT ![b] = k]
            BY <4>2, <5>1
          <5>. QED
            BY <5>2
        <4>5. ASSUME NEW p \in Prospects PROVE g[p] <= f[p]
          <5>1. g[p] \in Nat
            OBVIOUS
          <5>2. CASE p = b
            BY <4>1, <4>3, <5>2
          <5>3. CASE p # b
            BY <4>3, <5>1, <5>3
          <5>. QED
            BY <5>2, <5>3
        <4>. QED
          BY <3>1, <4>1, <4>3, <4>4, <4>5
      <3>2. CASE b \notin Prospects
        <4>1. f = g
          BY <2>2, <3>2
        <4>. QED
          BY <3>2, <4>1
      <3>. QED
        BY <3>1, <3>2
    <2>4. extra' \in [Callers -> [Prospects -> Nat]] /\ extra'[a] = f
      BY <1>1, <1>3, <1>6, <2>3
    <2>5. \A u \in Callers : u # a => extra'[u] = extra[u]
      BY <1>1, <1>3
    <2>6. ASSUME NEW u \in Callers, NEW p \in Prospects PROVE extra[u][p] <= extra'[u][p]
      <3>1. CASE u = a
        BY <2>1, <2>3, <2>4, <3>1
      <3>2. CASE u # a
        BY <1>4, <2>5, <3>2
      <3>. QED
        BY <3>1, <3>2
    <2>. QED
      BY <2>1, <2>3, <2>4, <2>6
  <1>. QED
    BY <1>5, <1>6

LEMMA LookForPendingKept == ASSUME QueueInv, NEW d \in Dispositions, LookForPending(d) PROVE QueueInv'
  <1>1. PICK x \in DispoRows : x = dispo[d] /\ RowSound(x) /\ Born(x.task) /\ x.step = "look"
    BY DispoRow DEF LookForPending
  <1>2. x.via = "api" /\ x.outcome # "DO_NOT_CALL"
    BY <1>1 DEF RowSound
  <1>3. UNCHANGED <<task, known, desk, closings, crossed>> /\ logged' \in 0 .. MaxLogged
    BY LoggedMore DEF LookForPending
  <1>4. /\ extra' \in [Callers -> [Prospects -> Nat]]
        /\ \A u \in Callers, p \in Prospects : extra[u][p] <= extra'[u][p]
        /\ Unseen(d) # {} /\ x.user \in Callers /\ x.who \in Prospects => extra'[x.user][x.who] = extra[x.user][x.who] + 1
    <2>1. CASE Unseen(d) # {}
      <3>1. extra' = [extra EXCEPT ![x.user][x.who] = @ + 1]
        BY <1>1, <2>1 DEF LookForPending
      <3>. QED
        BY <3>1, ExtraUp
    <2>2. CASE Unseen(d) = {}
      <3>1. extra' = extra
        BY <1>1, <2>2 DEF LookForPending, QueueInv, QueueTypeOK
      <3>. QED
        BY <2>2, <3>1, ExtraTyped
    <2>. QED
      BY <2>1, <2>2
  <1>5. CASE \E t \in Pending(x.user, x.who) \ {x.task} : dispo' = [dispo EXCEPT ![d].step = "merge", ![d].found = t]
    <2>1. PICK t \in TaskIds : dispo' = [dispo EXCEPT ![d].step = "merge", ![d].found = t]
      BY <1>5 DEF Pending
    <2>2. PICK y : y = [x EXCEPT !.step = "merge", !.found = t]
      OBVIOUS
    <2>3. y \in DispoRows /\ y.step = "merge" /\ y.task = x.task /\ y.found = t
      BY <2>2 DEF DispoRows, DispoSteps
    <2>4. DispoIs(d, y)
      BY <1>1, <2>1, <2>2 DEF DispoIs, QueueInv, QueueTypeOK
    <2>5. Born(y.task) /\ RowSound(y)
      BY <1>1, <2>3, QueueConstants DEF RowSound
    <2>6. /\ \A u \in Callers, p \in Prospects : extra[u][p] <= extra'[u][p] /\ ~Makes(y, u, p)
          /\ \A k \in TaskIds : Closes(y, k) => Closes(dispo[d], k)
      BY <1>1, <1>4, <2>3 DEF Makes, Closes
    <2>. QED
      BY <1>3, <1>4, <2>3, <2>4, <2>5, <2>6, DispoCalm
  <1>6. CASE Pending(x.user, x.who) \ {x.task} = {} /\ DispoGoes(d, "look", "commit")
    <2>1. PICK y \in DispoRows : /\ DispoIs(d, y) /\ y.step = "commit" /\ y.via = x.via /\ y.user = x.user /\ y.who = x.who
                                 /\ y.task = x.task /\ y.outcome = x.outcome /\ y.found = x.found
      BY <1>1, <1>6, StepTaken DEF DispoSteps
    <2>2. Born(y.task) /\ RowSound(y)
      BY <1>1, <2>1 DEF RowSound
    <2>3. ASSUME NEW t \in TaskIds PROVE closings[t] + Cardinality(Closing(t)') <= 1 + crossed'[t]
      <3>1. Closes(y, t) => Closes(dispo[d], t)
        BY <1>1, <2>1 DEF Closes
      <3>2. PICK m, n \in Nat : m = Cardinality(Closing(t)) /\ n = Cardinality(Closing(t)') /\ n <= m
        BY <2>1, <3>1, ClosingMoves
      <3>3. PICK a, b \in Nat : a = closings[t] /\ b = crossed[t] /\ a + m <= 1 + b
        BY <3>2 DEF QueueInv, QueueTypeOK, ClosingsCounted
      <3>. QED
        BY <1>3, <3>2, <3>3
    <2>4. ASSUME NEW u \in Callers, NEW p \in Prospects
          PROVE  Cardinality(Loose(u, p)') + Cardinality(Makers(u, p)') <= 1 + extra'[u][p]
      <3>1. CASE ~Makes(y, u, p)
        <4>1. Pending(u, p)' \subseteq Pending(u, p) /\ extra'[u][p] \in Nat /\ extra[u][p] <= extra'[u][p]
          BY <1>3, <1>4 DEF Pending
        <4>. QED
          BY <2>1, <3>1, <4>1, MakersDrop
      <3>2. CASE Makes(y, u, p)
        <4>1. u = x.user /\ p = x.who
          BY <2>1, <3>2 DEF Makes
        <4>2. /\ dispo'[d] = y /\ \A e \in Dispositions : e # d => dispo'[e] = dispo[e]
          BY <2>1, DispoMoves
        <4>3. Loose(u, p)' = {}
          <5>1. d \in Makers(u, p)'
            BY <3>2, <4>2 DEF Makers
          <5>2. Pending(u, p)' \subseteq {x.task}
            BY <1>3, <1>6, <4>1 DEF Pending
          <5>3. dispo'[d].task = x.task
            BY <2>1, <4>2
          <5>. QED
            BY <5>1, <5>2, <5>3 DEF Loose
        <4>4. PICK A, B : A = Makers(u, p) /\ B = Makers(u, p)'
          OBVIOUS
        <4>5. B \subseteq A \cup {d} /\ IsFiniteSet(A)
          <5>1. B \subseteq A \cup {d}
            BY <4>2, <4>4 DEF Makers
          <5>. QED
            BY <4>4, <5>1, QueueConstants, FS_Subset DEF Makers
        <4>6. PICK a, b \in Nat : a = Cardinality(A) /\ b = Cardinality(B) /\ b <= a + 1
          BY <4>5, SizeMoves
        <4>7. Cardinality(Loose(u, p)) \in Nat
          <5>1. IsFiniteSet(Loose(u, p))
            BY QueueConstants, FS_Subset DEF Loose, Pending
          <5>. QED
            BY <5>1, FS_CardinalityType
        <4>8. Cardinality(Loose(u, p)) + a <= 1 + extra[u][p] /\ extra[u][p] \in Nat /\ extra'[u][p] \in Nat
          BY <1>4, <4>4, <4>6 DEF QueueInv, QueueTypeOK, MakersCounted
        <4>9. b <= 1 + extra'[u][p]
          <5>1. CASE A = {}
            BY <4>6, <4>8, <5>1, FS_EmptySet
          <5>2. CASE A # {}
            <6>1. PICK e \in Dispositions : Makes(dispo[e], u, p)
              BY <4>4, <5>2 DEF Makers
            <6>2. e \in Unseen(d)
              BY <1>1, <4>1, <6>1 DEF Unseen, Makes, IsTerminal
            <6>3. extra'[u][p] = extra[u][p] + 1
              BY <1>4, <4>1, <6>2
            <6>. QED
              BY <4>6, <4>7, <4>8, <6>3
          <5>. QED
            BY <5>1, <5>2
        <4>10. Cardinality({}) = 0
          BY FS_EmptySet
        <4>. QED
          BY <4>3, <4>4, <4>6, <4>8, <4>9, <4>10
      <3>. QED
        BY <3>1, <3>2
    <2>5. crossed' \in [TaskIds -> Nat]
      BY <1>3 DEF QueueInv, QueueTypeOK
    <2>. QED
      BY <1>3, <1>4, <2>1, <2>2, <2>3, <2>4, <2>5, DispoKept
  <1>. QED
    BY <1>1, <1>5, <1>6 DEF LookForPending

(***************************************************************************)
(* Tasks are made and closed.                                              *)
(***************************************************************************)
LEMMA NewTaskUnborn == ASSUME Unused PROVE NewTask \in TaskIds /\ task[NewTask] = Unborn
  BY DEF Unused, NewTask

LEMMA TaskRow == ASSUME QueueInv, NEW t \in TaskIds PROVE task[t] \in TaskRows
  BY DEF QueueInv, QueueTypeOK, TaskRows

\* What a commit does to the tasks: n is the follow-up, or none.
LEMMA CommitTasks ==
  ASSUME QueueInv, NEW d \in Dispositions, CommitDispo(d)
  PROVE  \E x \in DispoRows, n \in TaskIds \cup {NoTask} :
           /\ x = dispo[d] /\ x.step = "commit" /\ Born(x.task) /\ x.who \in Prospects
           /\ NeedsTask(d) => n \in TaskIds
           /\ ~NeedsTask(d) => n = NoTask
           /\ n \in TaskIds => /\ task[n] = Unborn /\ n # x.task
                               /\ task'[n] = [status |-> "PENDING", who |-> x.who, owner |-> x.user]
           /\ task' \in [TaskIds -> TaskRows]
           /\ \A t \in TaskIds : /\ t # n /\ t # x.task => task'[t] = task[t]
                                 /\ t = x.task => task'[t].status \in {"SKIPPED", "COMPLETED"}
  <1>1. PICK x \in DispoRows : x = dispo[d] /\ Born(x.task)
    BY DispoRow
  <1>2. x.step = "commit" /\ x.who \in Prospects
    BY <1>1 DEF CommitDispo, QueueInv, QueueTypeOK
  <1>3. PICK st \in {"SKIPPED", "COMPLETED"} : st = IF IsTerminal(d) THEN "SKIPPED" ELSE "COMPLETED"
    OBVIOUS
  <1>4. PICK closed : closed = IF x.task = NoTask THEN task ELSE [task EXCEPT ![x.task].status = st]
    OBVIOUS
  <1>5. /\ closed \in [TaskIds -> TaskRows]
        /\ \A t \in TaskIds : /\ t # x.task => closed[t] = task[t]
                              /\ t = x.task => closed[t].status = st
    <2>0. task \in [TaskIds -> TaskRows]
      BY DEF QueueInv, QueueTypeOK, TaskRows
    <2>1. CASE x.task = NoTask
      BY <1>4, <2>0, <2>1, QueueConstants
    <2>2. CASE x.task # NoTask
      <3>1. x.task \in TaskIds
        BY <2>2 DEF DispoRows
      <3>2. PICK r \in TaskRows : r = task[x.task]
        BY <2>0, <3>1
      <3>3. PICK q : q = [r EXCEPT !.status = st]
        OBVIOUS
      <3>4. q \in TaskRows /\ q.status = st
        BY <3>3 DEF TaskRows
      <3>5. closed = [task EXCEPT ![x.task] = q]
        BY <1>4, <2>2, <3>2, <3>3
      <3>. QED
        BY <2>0, <3>1, <3>4, <3>5
    <2>. QED
      BY <2>1, <2>2
  <1>6. /\ NeedsTask(d) => Unused
        /\ task' = IF NeedsTask(d)
                   THEN [closed EXCEPT ![NewTask] = [status |-> "PENDING", who |-> x.who, owner |-> x.user]]
                   ELSE closed
    BY <1>1, <1>3, <1>4 DEF CommitDispo
  <1>7. CASE NeedsTask(d)
    <2>1. PICK n \in TaskIds : n = NewTask /\ task[n] = Unborn
      BY <1>6, <1>7, NewTaskUnborn
    <2>2. n # x.task
      <3>1. n # NoTask /\ task[n].status = "none"
        BY <2>1, QueueConstants DEF Unborn
      <3>. QED
        BY <1>1, <3>1 DEF Born
    <2>3. PICK r : r = [status |-> "PENDING", who |-> x.who, owner |-> x.user]
      OBVIOUS
    <2>4. r \in TaskRows
      BY <1>2, <2>3 DEF TaskRows, DispoRows
    <2>5. task' = [closed EXCEPT ![n] = r]
      BY <1>6, <1>7, <2>1, <2>3
    <2>6. /\ task' \in [TaskIds -> TaskRows] /\ task'[n] = r
          /\ \A t \in TaskIds : t # n => task'[t] = closed[t]
      BY <1>5, <2>4, <2>5
    <2>7. \A t \in TaskIds : /\ t # n /\ t # x.task => task'[t] = task[t]
                             /\ t = x.task => task'[t].status \in {"SKIPPED", "COMPLETED"}
      BY <1>5, <2>2, <2>6
    <2>. QED
      BY <1>1, <1>2, <1>7, <2>1, <2>2, <2>3, <2>6, <2>7
  <1>8. CASE ~NeedsTask(d)
    <2>1. task' = closed
      BY <1>6, <1>8
    <2>2. /\ task' \in [TaskIds -> TaskRows]
          /\ \A t \in TaskIds : /\ t # NoTask /\ t # x.task => task'[t] = task[t]
                                /\ t = x.task => task'[t].status \in {"SKIPPED", "COMPLETED"}
      BY <1>5, <2>1
    <2>3. NoTask \notin TaskIds
      BY QueueConstants
    <2>. QED
      BY <1>1, <1>2, <1>8, <2>2, <2>3
  <1>. QED
    BY <1>7, <1>8

LEMMA CommitKept == ASSUME QueueInv, NEW d \in Dispositions, CommitDispo(d) PROVE QueueInv'
  <1>1. PICK x \in DispoRows, n \in TaskIds \cup {NoTask} :
          /\ x = dispo[d] /\ x.step = "commit" /\ Born(x.task) /\ x.who \in Prospects
          /\ NeedsTask(d) => n \in TaskIds
          /\ ~NeedsTask(d) => n = NoTask
          /\ n \in TaskIds => /\ task[n] = Unborn /\ n # x.task
                              /\ task'[n] = [status |-> "PENDING", who |-> x.who, owner |-> x.user]
          /\ task' \in [TaskIds -> TaskRows]
          /\ \A t \in TaskIds : /\ t # n /\ t # x.task => task'[t] = task[t]
                                /\ t = x.task => task'[t].status \in {"SKIPPED", "COMPLETED"}
    BY CommitTasks
  <1>2. NoDispo \in DispoRows /\ NoDispo.step = "idle" /\ NoDispo.task = NoTask /\ DispoIs(d, NoDispo)
    BY DEF NoDispo, DispoRows, DispoSteps, CommitDispo, DispoEnds, DispoIs
  <1>3. /\ dispo' \in [Dispositions -> DispoRows] /\ dispo'[d] = NoDispo
        /\ \A e \in Dispositions : e # d => dispo'[e] = dispo[e]
    BY <1>2, DispoMoves
  <1>4. UNCHANGED <<known, desk, logged, crossed>>
    BY DEF CommitDispo
  <1>5. n = NoTask => n \notin TaskIds
    BY QueueConstants
  <1>6. /\ extra' \in [Callers -> [Prospects -> Nat]]
        /\ \A u \in Callers, p \in Prospects : extra[u][p] <= extra'[u][p]
        /\ x.via = "tool" /\ n \in TaskIds /\ x.user \in Callers => extra'[x.user][x.who] = extra[x.user][x.who] + 1
    <2>1. CASE x.via = "tool" /\ NeedsTask(d)
      <3>1. extra' = [extra EXCEPT ![x.user][x.who] = @ + 1]
        BY <1>1, <2>1 DEF CommitDispo
      <3>. QED
        BY <1>1, <3>1, ExtraUp
    <2>2. CASE ~(x.via = "tool" /\ NeedsTask(d))
      <3>1. extra' = extra
        BY <1>1, <2>2 DEF CommitDispo
      <3>2. ~(x.via = "tool" /\ n \in TaskIds)
        BY <1>1, <1>5, <2>2
      <3>. QED
        BY <3>1, <3>2, ExtraTyped
    <2>. QED
      BY <2>1, <2>2
  <1>7. /\ closings' \in [TaskIds -> Nat]
        /\ \A t \in TaskIds : closings'[t] = IF t = x.task THEN closings[t] + 1 ELSE closings[t]
    <2>0. closings \in [TaskIds -> Nat] /\ NoTask \notin TaskIds
      BY QueueConstants DEF QueueInv, QueueTypeOK
    <2>1. CASE x.task = NoTask
      BY <1>1, <2>0, <2>1 DEF CommitDispo
    <2>2. CASE x.task # NoTask
      <3>1. x.task \in TaskIds
        BY <2>2 DEF DispoRows
      <3>2. PICK k \in Nat : k = closings[x.task] + 1
        BY <2>0, <3>1
      <3>3. closings' = [closings EXCEPT ![x.task] = k]
        BY <1>1, <2>2, <3>2 DEF CommitDispo
      <3>. QED
        BY <2>0, <3>1, <3>2, <3>3
    <2>. QED
      BY <2>1, <2>2
  <1>8. QueueTypeOK'
    BY <1>1, <1>3, <1>4, <1>6, <1>7 DEF QueueInv, QueueTypeOK, TaskRows, DispoRows
  <1>9. \A t \in TaskIds : (task'[t].status = "none" => task'[t] = task[t])
                           /\ (task[t].status # "none" => task'[t].status # "none")
    <2>. SUFFICES ASSUME NEW t \in TaskIds
                  PROVE  (task'[t].status = "none" => task'[t] = task[t])
                         /\ (task[t].status # "none" => task'[t].status # "none")
      OBVIOUS
    <2>1. CASE t = n
      BY <1>1, <2>1
    <2>2. CASE t = x.task
      BY <1>1, <2>2
    <2>3. CASE t # n /\ t # x.task
      BY <1>1, <2>3
    <2>. QED
      BY <2>1, <2>2, <2>3
  <1>10. TasksBorn'
    <2>1. \A t \in TaskIds : task'[t].status = "none" => task'[t] = Unborn
      BY <1>9 DEF QueueInv, TasksBorn
    <2>2. \A u \in Callers : desk[u] \in TaskIds \cup {NoTask}
      BY DEF QueueInv, QueueTypeOK
    <2>3. \A u \in Callers : desk'[u] = NoTask \/ task'[desk'[u]].status # "none"
      BY <1>4, <1>9, <2>2 DEF QueueInv, TasksBorn, Born
    <2>4. ASSUME NEW e \in Dispositions PROVE dispo'[e].task = NoTask \/ task'[dispo'[e].task].status # "none"
      <3>1. CASE e = d
        BY <1>2, <1>3, <3>1
      <3>2. CASE e # d
        <4>1. PICK z \in DispoRows : z = dispo[e] /\ z = dispo'[e] /\ Born(z.task)
          BY <1>3, <3>2, DispoRow
        <4>2. z.task = NoTask \/ z.task \in TaskIds
          BY DEF DispoRows
        <4>. QED
          BY <1>9, <4>1, <4>2 DEF Born
      <3>. QED
        BY <3>1, <3>2
    <2>. QED
      BY <2>1, <2>3, <2>4 DEF TasksBorn, Born
  <1>11. (\A e \in Dispositions : RowSound(dispo[e]))'
    <2>1. RowSound(NoDispo)
      BY <1>2 DEF RowSound
    <2>2. \A e \in Dispositions : RowSound(dispo'[e])
      BY <1>3, <2>1, DispoRow
    <2>. QED
      BY <2>2 DEF RowSound
  <1>12. ClosingsCounted'
    <2>. SUFFICES ASSUME NEW t \in TaskIds
                  PROVE  /\ task'[t].status \in {"none", "PENDING"} => closings'[t] = 0
                         /\ closings'[t] + Cardinality(Closing(t)') <= 1 + crossed'[t]
      BY DEF ClosingsCounted
    <2>1. PICK a, b \in Nat : a = closings[t] /\ b = crossed[t] /\ b = crossed'[t]
      BY <1>4 DEF QueueInv, QueueTypeOK
    <2>2. ~Closes(NoDispo, t)
      BY <1>2 DEF Closes
    <2>3. PICK m, k \in Nat : /\ m = Cardinality(Closing(t)) /\ k = Cardinality(Closing(t)') /\ k <= m
                              /\ Closes(dispo[d], t) => k + 1 <= m
      BY <1>2, <2>2, ClosingMoves
    <2>4. a + m <= 1 + b
      BY <2>1, <2>3 DEF QueueInv, ClosingsCounted
    <2>5. CASE t = x.task
      <3>1. Closes(dispo[d], t)
        BY <1>1, <2>5 DEF Closes
      <3>2. task'[t].status \notin {"none", "PENDING"}
        BY <1>1, <2>5
      <3>3. closings'[t] = a + 1
        BY <1>7, <2>1, <2>5
      <3>. QED
        BY <2>1, <2>3, <2>4, <3>1, <3>2, <3>3
    <2>6. CASE t # x.task
      <3>1. closings'[t] = a
        BY <1>7, <2>1, <2>6
      <3>2. task'[t].status \in {"none", "PENDING"} => task[t].status \in {"none", "PENDING"}
        <4>1. CASE t = n
          BY <1>1, <4>1 DEF Unborn
        <4>2. CASE t # n
          BY <1>1, <2>6, <4>2
        <4>. QED
          BY <4>1, <4>2
      <3>3. task[t].status \in {"none", "PENDING"} => a = 0
        BY <2>1 DEF QueueInv, ClosingsCounted
      <3>. QED
        BY <2>1, <2>3, <2>4, <3>1, <3>2, <3>3
    <2>. QED
      BY <2>5, <2>6
  <1>13. MakersCounted'
    <2>. SUFFICES ASSUME NEW u \in Callers, NEW p \in Prospects
                  PROVE  Cardinality(Loose(u, p)') + Cardinality(Makers(u, p)') <= 1 + extra'[u][p]
      BY DEF MakersCounted
    <2>1. extra'[u][p] \in Nat /\ extra[u][p] \in Nat /\ extra[u][p] <= extra'[u][p]
      BY <1>6 DEF QueueInv, QueueTypeOK
    <2>2. ~Makes(NoDispo, u, p)
      BY <1>2 DEF Makes
    <2>3. \A t \in Pending(u, p)' : t # n => t \in Pending(u, p) /\ t # x.task
      <3>. SUFFICES ASSUME NEW t \in Pending(u, p)', t # n PROVE t \in Pending(u, p) /\ t # x.task
        OBVIOUS
      <3>1. t \in TaskIds /\ task'[t] = [status |-> "PENDING", who |-> p, owner |-> u]
        BY DEF Pending
      <3>2. t # x.task
        BY <1>1, <3>1
      <3>3. task'[t] = task[t]
        BY <1>1, <3>1, <3>2
      <3>. QED
        BY <3>1, <3>2, <3>3 DEF Pending
    <2>4. CASE n \notin TaskIds \/ u # x.user \/ p # x.who
      <3>1. n \notin Pending(u, p)'
        <4>1. CASE n \notin TaskIds
          BY <4>1 DEF Pending
        <4>2. CASE n \in TaskIds /\ (u # x.user \/ p # x.who)
          <5>1. task'[n] = [status |-> "PENDING", who |-> x.who, owner |-> x.user]
            BY <1>1, <4>2
          <5>2. task'[n].who = x.who /\ task'[n].owner = x.user
            BY <5>1
          <5>. QED
            BY <4>2, <5>2 DEF Pending
        <4>. QED
          BY <2>4, <4>1, <4>2
      <3>2. Pending(u, p)' \subseteq Pending(u, p)
        BY <2>3, <3>1
      <3>. QED
        BY <1>2, <2>1, <2>2, <3>2, MakersDrop
    <2>5. CASE n \in TaskIds /\ u = x.user /\ p = x.who
      <3>1. PICK A, B, K, L : A = Makers(u, p) /\ B = Makers(u, p)' /\ K = Loose(u, p) /\ L = Loose(u, p)'
        OBVIOUS
      <3>2. IsFiniteSet(A) /\ IsFiniteSet(K)
        BY <3>1, QueueConstants, FS_Subset DEF Makers, Loose, Pending
      <3>3. B \subseteq A \ {d} /\ A \subseteq B \cup {d}
        BY <1>3, <2>2, <3>1 DEF Makers
      <3>4. L \subseteq K \cup {n}
        <4>. SUFFICES ASSUME NEW t \in L, t # n PROVE t \in K
          OBVIOUS
        <4>1. t \in Pending(u, p)' /\ \A e \in B : dispo'[e].task # t
          BY <3>1 DEF Loose
        <4>2. t \in Pending(u, p) /\ t # x.task
          BY <2>3, <4>1
        <4>3. \A e \in A : dispo[e].task # t
          <5>. SUFFICES ASSUME NEW e \in A PROVE dispo[e].task # t
            OBVIOUS
          <5>1. CASE e = d
            BY <1>1, <4>2, <5>1
          <5>2. CASE e # d
            <6>1. e \in B /\ e \in Dispositions
              BY <3>1, <3>3, <5>2 DEF Makers
            <6>. QED
              BY <1>3, <4>1, <5>2, <6>1
          <5>. QED
            BY <5>1, <5>2
        <4>. QED
          BY <3>1, <4>2, <4>3 DEF Loose
      <3>5. PICK a, b, k, l \in Nat : /\ a = Cardinality(A) /\ b = Cardinality(B) /\ b <= a
                                      /\ k = Cardinality(K) /\ l = Cardinality(L) /\ l <= k + 1
        <4>1. B \subseteq A
          BY <3>3
        <4>. QED
          BY <3>2, <3>4, <4>1, SizeMoves
      <3>6. k + a <= 1 + extra[u][p]
        BY <3>1, <3>5 DEF QueueInv, MakersCounted
      <3>7. NeedsTask(d) /\ x.found = NoTask /\ x.outcome # "DO_NOT_CALL"
        BY <1>1, <1>5, <2>5 DEF NeedsTask, IsTerminal
      <3>8. CASE x.via = "api"
        <4>1. d \in A
          BY <1>1, <2>5, <3>1, <3>7, <3>8 DEF Makers, Makes
        <4>2. b + 1 <= a
          BY <3>2, <3>3, <3>5, <4>1, SizeMoves
        <4>. QED
          BY <2>1, <3>1, <3>5, <3>6, <4>2
      <3>9. CASE x.via = "tool"
        <4>1. extra'[u][p] = extra[u][p] + 1
          BY <1>6, <2>5, <3>9
        <4>. QED
          BY <2>1, <3>1, <3>5, <3>6, <4>1
      <3>. QED
        BY <3>8, <3>9 DEF DispoRows
    <2>. QED
      BY <2>4, <2>5
  <1>. QED
    BY <1>8, <1>10, <1>11, <1>12, <1>13 DEF QueueInv

\* Without a move of a request.
LEMMA MakersStay ==
  ASSUME QueueInv, dispo' = dispo, NEW u \in Callers, NEW p \in Prospects, NEW n,
         Pending(u, p)' \subseteq Pending(u, p) \cup {n}, extra'[u][p] \in Nat, extra[u][p] <= extra'[u][p],
         Pending(u, p)' \subseteq Pending(u, p) \/ extra'[u][p] = extra[u][p] + 1
  PROVE  Cardinality(Loose(u, p)') + Cardinality(Makers(u, p)') <= 1 + extra'[u][p]
  <1>1. PICK A, K, L : A = Makers(u, p) /\ A = Makers(u, p)' /\ K = Loose(u, p) /\ L = Loose(u, p)'
    BY DEF Makers
  <1>2. IsFiniteSet(A) /\ IsFiniteSet(K)
    BY <1>1, QueueConstants, FS_Subset DEF Makers, Loose, Pending
  <1>3. K = {t \in Pending(u, p) : \A e \in A : dispo[e].task # t}
    BY <1>1 DEF Loose
  <1>4. L = {t \in Pending(u, p)' : \A e \in A : dispo[e].task # t}
    BY <1>1 DEF Loose
  <1>5. L \subseteq K \cup {n} /\ (Pending(u, p)' \subseteq Pending(u, p) => L \subseteq K)
    BY <1>3, <1>4
  <1>6. PICK a, k, l \in Nat : a = Cardinality(A) /\ k = Cardinality(K) /\ l = Cardinality(L) /\ l <= k + 1
    BY <1>2, <1>5, SizeMoves
  <1>7. Pending(u, p)' \subseteq Pending(u, p) => l <= k
    BY <1>2, <1>5, <1>6, SizeMoves
  <1>8. k + a <= 1 + extra[u][p] /\ extra[u][p] \in Nat
    BY <1>1, <1>6 DEF QueueInv, QueueTypeOK, MakersCounted
  <1>. QED
    BY <1>1, <1>6, <1>7, <1>8

\* The requests and desks stay: what they name stays created.
LEMMA TasksStayBorn ==
  ASSUME QueueInv, dispo' = dispo, desk' = desk,
         \A t \in TaskIds : /\ task'[t].status = "none" => task'[t] = task[t]
                            /\ task[t].status # "none" => task'[t].status # "none"
  PROVE  TasksBorn'
  <1>1. \A t \in TaskIds : task'[t].status = "none" => task'[t] = Unborn
    BY DEF QueueInv, TasksBorn
  <1>2. \A u \in Callers : desk[u] \in TaskIds \cup {NoTask}
    BY DEF QueueInv, QueueTypeOK
  <1>3. \A u \in Callers : desk'[u] = NoTask \/ task'[desk'[u]].status # "none"
    BY <1>2 DEF QueueInv, TasksBorn, Born
  <1>4. ASSUME NEW e \in Dispositions PROVE dispo'[e].task = NoTask \/ task'[dispo'[e].task].status # "none"
    <2>1. PICK z \in DispoRows : z = dispo[e] /\ z = dispo'[e] /\ Born(z.task)
      BY DispoRow
    <2>2. z.task = NoTask \/ z.task \in TaskIds
      BY DEF DispoRows
    <2>. QED
      BY <2>1, <2>2 DEF Born
  <1>. QED
    BY <1>1, <1>3, <1>4 DEF TasksBorn, Born

LEMMA CreateByToolKept ==
  ASSUME QueueInv, NEW u \in Callers, NEW p \in Prospects, CreateByTool(u, p) PROVE QueueInv'
  <1>1. PICK n \in TaskIds : n = NewTask /\ task[n] = Unborn
    BY NewTaskUnborn DEF CreateByTool
  <1>2. PICK r : r = [status |-> "PENDING", who |-> p, owner |-> u]
    OBVIOUS
  <1>3. r \in TaskRows /\ r.status = "PENDING" /\ r.who = p /\ r.owner = u
    BY <1>2 DEF TaskRows
  <1>4. task' = [task EXCEPT ![n] = r] /\ UNCHANGED <<known, desk, dispo, logged, crossed, closings>>
    BY <1>1, <1>2 DEF CreateByTool
  <1>5. task' \in [TaskIds -> TaskRows] /\ task'[n] = r /\ \A t \in TaskIds : t # n => task'[t] = task[t]
    BY <1>3, <1>4 DEF QueueInv, QueueTypeOK, TaskRows
  <1>6. /\ extra' \in [Callers -> [Prospects -> Nat]]
        /\ \A v \in Callers, q \in Prospects : extra[v][q] <= extra'[v][q]
        /\ extra'[u][p] = extra[u][p] + 1
    BY ExtraUp DEF CreateByTool
  <1>7. QueueTypeOK'
    BY <1>4, <1>5, <1>6 DEF QueueInv, QueueTypeOK, TaskRows
  <1>8. \A t \in TaskIds : /\ task'[t].status = "none" => task'[t] = task[t]
                           /\ task[t].status # "none" => task'[t].status # "none"
                           /\ task'[t].status \in {"none", "PENDING"} => task[t].status \in {"none", "PENDING"}
    BY <1>1, <1>3, <1>5 DEF Unborn
  <1>9. TasksBorn' /\ (\A d \in Dispositions : RowSound(dispo[d]))'
    BY <1>4, <1>8, TasksStayBorn DEF QueueInv, RowSound
  <1>10. ClosingsCounted'
    BY <1>4, <1>8 DEF QueueInv, ClosingsCounted, Closing
  <1>11. ASSUME NEW v \in Callers, NEW q \in Prospects
         PROVE  Cardinality(Loose(v, q)') + Cardinality(Makers(v, q)') <= 1 + extra'[v][q]
    <2>1. \A t \in Pending(v, q)' : t # n => t \in Pending(v, q)
      BY <1>5 DEF Pending
    <2>2. v # u \/ q # p => n \notin Pending(v, q)'
      BY <1>3, <1>5 DEF Pending
    <2>3. extra'[v][q] \in Nat /\ extra[v][q] <= extra'[v][q] /\ Pending(v, q)' \subseteq Pending(v, q) \cup {n}
      BY <1>6, <2>1
    <2>4. Pending(v, q)' \subseteq Pending(v, q) \/ extra'[v][q] = extra[v][q] + 1
      BY <1>6, <2>1, <2>2
    <2>. QED
      BY <1>4, <2>3, <2>4, MakersStay
  <1>12. MakersCounted'
    BY <1>11 DEF MakersCounted
  <1>. QED
    BY <1>7, <1>9, <1>10, <1>12 DEF QueueInv

LEMMA DeleteProspectKept == ASSUME QueueInv, NEW p \in Prospects, DeleteProspect(p) PROVE QueueInv'
  <1>1. UNCHANGED <<desk, dispo, logged, crossed, closings, extra>> /\ known' \subseteq Prospects
    BY DEF DeleteProspect, QueueInv, QueueTypeOK
  <1>2. ASSUME NEW t \in TaskIds
        PROVE  /\ task'[t] \in TaskRows
               /\ task[t].who = p => task'[t].status = "gone" /\ task[t].status # "none"
               /\ task[t].who # p => task'[t] = task[t]
    <2>1. PICK r \in TaskRows : r = task[t]
      BY TaskRow
    <2>2. PICK g : g = [r EXCEPT !.status = "gone"]
      OBVIOUS
    <2>3. g \in TaskRows /\ g.status = "gone"
      BY <2>2 DEF TaskRows
    <2>4. task'[t] = IF r.who = p THEN g ELSE r
      BY <2>1, <2>2 DEF DeleteProspect
    <2>5. r.who = p => r.status # "none"
      BY <2>1, QueueConstants DEF QueueInv, TasksBorn, Unborn
    <2>. QED
      BY <2>1, <2>3, <2>4, <2>5
  <1>3. task' \in [TaskIds -> TaskRows]
    BY <1>2 DEF DeleteProspect
  <1>4. QueueTypeOK'
    BY <1>1, <1>3 DEF QueueInv, QueueTypeOK, TaskRows
  <1>5. \A t \in TaskIds : /\ task'[t].status = "none" => task'[t] = task[t]
                           /\ task[t].status # "none" => task'[t].status # "none"
                           /\ task'[t].status \in {"none", "PENDING"} => task'[t] = task[t]
    BY <1>2
  <1>6. TasksBorn' /\ (\A d \in Dispositions : RowSound(dispo[d]))'
    BY <1>1, <1>5, TasksStayBorn DEF QueueInv, RowSound
  <1>7. ClosingsCounted'
    BY <1>1, <1>5 DEF QueueInv, ClosingsCounted, Closing
  <1>8. ASSUME NEW v \in Callers, NEW q \in Prospects
        PROVE  Cardinality(Loose(v, q)') + Cardinality(Makers(v, q)') <= 1 + extra'[v][q]
    <2>1. Pending(v, q)' \subseteq Pending(v, q)
      <3>. SUFFICES ASSUME NEW t \in Pending(v, q)' PROVE t \in Pending(v, q)
        OBVIOUS
      <3>1. t \in TaskIds /\ task'[t] = [status |-> "PENDING", who |-> q, owner |-> v] /\ task'[t].status = "PENDING"
        BY DEF Pending
      <3>. QED
        BY <1>5, <3>1 DEF Pending
    <2>2. PICK n : Pending(v, q)' \subseteq Pending(v, q) \cup {n}
      BY <2>1
    <2>3. extra'[v][q] \in Nat /\ extra[v][q] <= extra'[v][q]
      BY <1>1, ExtraTyped
    <2>. QED
      BY <1>1, <2>1, <2>2, <2>3, MakersStay
  <1>9. MakersCounted'
    BY <1>8 DEF MakersCounted
  <1>. QED
    BY <1>4, <1>6, <1>7, <1>9 DEF QueueInv

LEMMA SelectTaskKept == ASSUME QueueInv, NEW u \in Callers, NEW t \in TaskIds, SelectTask(u, t) PROVE QueueInv'
  <1>1. UNCHANGED <<task, known, dispo, logged, crossed, closings, extra>> /\ desk' = [desk EXCEPT ![u] = t]
        /\ task[t].status # "none"
    BY DEF SelectTask
  <1>2. QueueTypeOK'
    BY <1>1 DEF QueueInv, QueueTypeOK
  <1>3. TasksBorn'
    BY <1>1 DEF QueueInv, QueueTypeOK, TasksBorn, Born
  <1>4. (\A d \in Dispositions : RowSound(dispo[d]))' /\ ClosingsCounted'
    BY <1>1 DEF QueueInv, RowSound, ClosingsCounted, Closing
  <1>5. MakersCounted'
    BY <1>1 DEF QueueInv, MakersCounted, Loose, Makers, Pending
  <1>. QED
    BY <1>2, <1>3, <1>4, <1>5 DEF QueueInv

LEMMA QueueStep == QueueInv /\ [QueueNext]_queueVars => QueueInv'
  <1>. SUFFICES ASSUME QueueInv, [QueueNext]_queueVars PROVE QueueInv'
    OBVIOUS
  <1>1. ASSUME NEW d \in Dispositions, DispoStep(d) PROVE QueueInv'
    BY <1>1, FindTaskKept, CloseTaskKept, LookForPendingKept, MergeFollowUpKept, CommitKept, AbortKept DEF DispoStep
  <1>2. ASSUME NEW d \in Dispositions, NEW u \in Callers,
               \E outcome \in Outcomes, via \in {"api", "tool"} : LogCall(d, u, outcome, via)
        PROVE  QueueInv'
    BY <1>2, LogCallKept
  <1>3. ASSUME NEW d \in Dispositions, NEW u \in Callers, \E p \in Prospects : ScheduleCall(d, u, p) PROVE QueueInv'
    BY <1>3, ScheduleCallKept
  <1>4. ASSUME NEW u \in Callers, \E t \in TaskIds : SelectTask(u, t) PROVE QueueInv'
    BY <1>4, SelectTaskKept
  <1>5. ASSUME NEW u \in Callers, \E p \in Prospects : CreateByTool(u, p) PROVE QueueInv'
    BY <1>5, CreateByToolKept
  <1>6. ASSUME NEW p \in Prospects, DeleteProspect(p) PROVE QueueInv'
    BY <1>6, DeleteProspectKept
  <1>7. ASSUME UNCHANGED queueVars PROVE QueueInv'
    <2>1. UNCHANGED <<task, known, desk, dispo, logged, crossed, closings, extra>>
      BY <1>7 DEF queueVars
    <2>2. QueueTypeOK' /\ TasksBorn'
      BY <2>1 DEF QueueInv, QueueTypeOK, TasksBorn, Born
    <2>3. (\A d \in Dispositions : RowSound(dispo[d]))' /\ ClosingsCounted'
      BY <2>1 DEF QueueInv, RowSound, ClosingsCounted, Closing
    <2>4. MakersCounted'
      BY <2>1 DEF QueueInv, MakersCounted, Loose, Makers, Pending
    <2>. QED
      BY <2>2, <2>3, <2>4 DEF QueueInv
  <1>. QED
    BY <1>1, <1>2, <1>3, <1>4, <1>5, <1>6, <1>7 DEF QueueNext

(***************************************************************************)
(* All components.  Each keeps its own invariant while it is the one that  *)
(* runs; the others have no say in it.                                     *)
(***************************************************************************)
servicesVars ==
  <<part, subscriptionVars, workspaceVars, sessionsVars, queueVars, relationsVars, bookVars, toolVars,
    addressVars, enrichmentVars>>

ServicesSpec == Init /\ [][Next]_servicesVars

ServicesInv ==
  /\ (part = "subscription" => SubscriptionInv)
  /\ (part = "workspace"    => Held)
  /\ (part = "sessions"     => SessionsInv)
  /\ (part = "calls"        => QueueInv)
  /\ (part = "relations"    => RelationsInv)
  /\ (part = "contacts"     => BookInv)
  /\ (part = "tools"        => PageInv /\ BatchInv)
  /\ (part = "check"        => AddressInv)
  /\ (part = "enrich"       => EnrichmentInv)

LEMMA ServicesStart == Init => ServicesInv
  <1>. SUFFICES ASSUME Init PROVE ServicesInv
    OBVIOUS
  <1>1. /\ (part = "subscription" => SubscriptionInit) /\ (part = "sessions" => SessionsInit)
        /\ (part = "calls" => QueueInit) /\ (part = "relations" => RelationsInit)
        /\ (part = "check" => AddressInit) /\ (part = "enrich" => EnrichmentInit)
        /\ WorkspaceInit /\ BookInit /\ ToolsInit
    BY DEF Init
  <1>. QED
    BY <1>1, SubscriptionStarts, InitHeld, SessionsStarts, QueueStarts, RelationsStarts, BookStarts,
       PageInit, CallsInit, AddressStarts, EnrichmentStarts
    DEF ServicesInv

LEMMA ServicesStep == ServicesInv /\ [Next]_servicesVars => ServicesInv'
  <1>. SUFFICES ASSUME ServicesInv, [Next]_servicesVars PROVE ServicesInv'
    OBVIOUS
  <1>1. part' = part
    BY DEF Next, servicesVars
  <1>2. /\ (part = "subscription" => [SubscriptionNext]_subscriptionVars)
        /\ (part = "workspace"    => [WorkspaceNext]_workspaceVars)
        /\ (part = "sessions"     => [SessionsNext]_sessionsVars)
        /\ (part = "calls"        => [QueueNext]_queueVars)
        /\ (part = "relations"    => [RelationsNext]_relationsVars)
        /\ (part = "contacts"     => [BookNext]_bookVars)
        /\ (part = "tools"        => [ToolsNext]_toolVars)
        /\ (part = "check"        => [AddressNext]_addressVars)
        /\ (part = "enrich"       => [EnrichmentNext]_enrichmentVars)
    <2>1. CASE Next
      BY <2>1 DEF Next
    <2>2. CASE UNCHANGED servicesVars
      BY <2>2 DEF servicesVars
    <2>. QED
      BY <2>1, <2>2
  <1>3. part = "subscription" => SubscriptionInv'
    BY <1>2, SubscriptionStep DEF ServicesInv
  <1>4. part = "workspace" => Held'
    BY <1>2, HeldStep DEF ServicesInv
  <1>5. part = "sessions" => SessionsInv'
    BY <1>2, SessionsStep DEF ServicesInv
  <1>6. part = "calls" => QueueInv'
    BY <1>2, QueueStep DEF ServicesInv
  <1>7. part = "relations" => RelationsInv'
    BY <1>2, RelationsStep DEF ServicesInv
  <1>8. part = "contacts" => BookInv'
    BY <1>2, BookStep DEF ServicesInv
  <1>9. part = "tools" => PageInv' /\ BatchInv'
    <2>1. PageInv /\ [ToolsNext]_toolVars => PageInv'
      BY PageStep
    <2>2. BatchInv /\ PageInv /\ [ToolsNext]_toolVars => BatchInv'
      BY BatchStep DEF PageInv
    <2>. QED
      BY <1>2, <2>1, <2>2 DEF ServicesInv
  <1>10. part = "check" => AddressInv'
    BY <1>2, AddressStep DEF ServicesInv
  <1>11. part = "enrich" => EnrichmentInv'
    BY <1>2, EnrichmentStep DEF ServicesInv
  <1>. QED
    BY <1>1, <1>3, <1>4, <1>5, <1>6, <1>7, <1>8, <1>9, <1>10, <1>11 DEF ServicesInv

LEMMA ServicesAlways == ServicesSpec => []ServicesInv
  BY ServicesStart, ServicesStep, PTL DEF ServicesSpec

\* Whichever component runs keeps its variables in their types, for all the constants.
THEOREM TypesCorrect == ServicesSpec => []TypesOK
  <1>1. ServicesInv => TypesOK
    BY SubscriptionTyped, QueueImplies, RelationsImplies, ToolsTyped, AddressImplies
    DEF ServicesInv, TypesOK, Held, SessionsInv, BookInv, EnrichmentInv
  <1>. QED
    BY <1>1, ServicesAlways, PTL

\* subscriptionControllers.ts, premiumCheck.ts: nobody counts as premium for longer than a
\* cached answer lives after the last period reported or guessed, and every subscription is
\* activated once, or its only activation is lost with the call that claimed it. For any
\* customers, subscriptions, hooks and periods.
THEOREM SubscriptionSoundCorrect == ServicesSpec => []SubscriptionSound
  <1>1. ServicesInv => SubscriptionSound
    BY SubscriptionImplies DEF ServicesInv, SubscriptionSound
  <1>. QED
    BY <1>1, ServicesAlways, PTL

\* authControllers.ts, the client's axios interceptors: a refresh token gets as many
\* successors as refreshes had read its row before the first revoked it, and a request
\* waits only while a refresh of its tab is in flight, for any tabs, requests and handlers.
THEOREM SessionsSoundCorrect == ServicesSpec => []SessionsSound
  <1>1. ServicesInv => SessionsSound
    BY SessionsImplies DEF ServicesInv, SessionsSound
  <1>. QED
    BY <1>1, ServicesAlways, PTL

\* callControllers.ts, prmControllers.ts: a user has a second pending task for a contact,
\* or closes a task twice, only by the races that are counted; and an undone bulk action
\* leaves every contact that nobody has written since as it was. For any users, contacts
\* and actions.
THEOREM ProspectsSoundCorrect == ServicesSpec => []ProspectsSound
  <1>1. ServicesInv => ProspectsSound
    BY QueueImplies, RelationsImplies DEF ServicesInv, ProspectsSound
  <1>. QED
    BY <1>1, ServicesAlways, PTL

\* The e-mail validator and the contact enrichment: no address that stays on a cleaned list
\* is undeliverable, none is removed without a cause, and an undeliverable one is not
\* picked over a judged deliverable one of low looks when DNS answered. For any addresses
\* and requests.
THEOREM AddressesJudgedCorrect == ServicesSpec => []AddressesJudged
  <1>1. ServicesInv => AddressesJudged
    BY AddressImplies, EnrichmentImplies DEF ServicesInv, AddressesJudged
  <1>. QED
    BY <1>1, ServicesAlways, PTL
==============================================================================
