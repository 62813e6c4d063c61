------------------------------- MODULE Enrichment -------------------------------
(***************************************************************************)
(* Enrichment: the address of a contact or of a company is looked for on   *)
(* its web pages.  Each page may fail; the addresses found are the         *)
(* candidates, or else addresses made of the name of the contact; the best *)
(* ranked ones are judged, and the best judged one is taken.               *)
(***************************************************************************)
EXTENDS AddressVerdict, FiniteSets

CONSTANTS
  Candidates, NoCandidate,  \* addresses, normalised
  Looks,                    \* what an address may look like
  Enrichments,              \* enrichments at the same time
  MaxRanked                 \* candidates that are judged (8)

EnrichmentAssumption ==
  NoCandidate \notin Candidates /\ Looks \subseteq AllLooks /\ MaxRanked \in Nat \ {0}

ASSUME EnrichmentAssumption

VARIABLES
  looks,   \* looks[a]: what a looks like, and what DNS knows of it
  enrich,  \* enrich[e]: [step, given, ranked, verdict, picked]
  unheard  \* history: <<e, a>> when DNS did not answer e for a

enrichmentVars == <<looks, enrich, unheard>>

NoneJudged == [a \in Candidates |-> NoVerdict]
NoEnrichment == [step |-> "new", given |-> NoCandidate, ranked |-> {}, verdict |-> NoneJudged, picked |-> NoCandidate]

EnrichmentTypeOK ==
  /\ looks \in [Candidates -> Looks]
  /\ enrich \in [Enrichments -> [step : {"new", "looking", "judging", "done"}, given : Candidates \cup {NoCandidate},
                                 ranked : SUBSET Candidates, verdict : [Candidates -> Verdict],
                                 picked : Candidates \cup {NoCandidate}]]
  /\ unheard \subseteq Enrichments \X Candidates

EnrichmentInit ==
  /\ looks \in [Candidates -> Looks] /\ enrich = [e \in Enrichments |-> NoEnrichment] /\ unheard = {}

-----------------------------------------------------------------------------
(* A contact.                                                              *)

scoreEmailCandidate(p) ==
  (CASE p.fits = "same" -> 40 [] p.fits = "below" -> 25 [] OTHER -> 0)
  + (IF FreeProvider(p) THEN 0 ELSE 20) + (IF p.local = "role" THEN 0 ELSE 10)

\* The first MaxRanked of the pool by score.
Rankings(pool) ==
  {s \in SUBSET pool :
     /\ Cardinality(s) = Least(MaxRanked, Cardinality(pool))
     /\ \A a \in s, b \in pool \ s : scoreEmailCandidate(looks[a]) >= scoreEmailCandidate(looks[b])}

\* a is judged by DNS as it answers e now.
Judges(e, a, entry) ==
  \E dns \in DnsAnswers(looks[a]) :
    /\ enrich' = [enrich EXCEPT ![e] = [entry EXCEPT !.verdict[a] = Judge(looks[a], dns)]]
    /\ unheard' = IF Silent(looks[a], dns) THEN unheard \cup {<<e, a>>} ELSE unheard

\* A given address is judged, and kept whatever the verdict.
enrichContactInput(e) ==
  /\ enrich[e].step = "new" /\ UNCHANGED looks
  /\ \/ \E a \in Candidates : Judges(e, a, [enrich[e] EXCEPT !.step = "looking", !.given = a])
     \/ enrich' = [enrich EXCEPT ![e].step = "looking"] /\ UNCHANGED unheard

\* What is found on the pages that answer comes before what can be made of the name.
Pools ==
  ((SUBSET Candidates) \ {{}}) \cup SUBSET {a \in Candidates : looks[a].fits = "same"}

fetchRelevantPages(e) ==
  /\ enrich[e].step = "looking" /\ UNCHANGED <<looks, unheard>>
  /\ \E pool \in Pools :
       IF enrich[e].given # NoCandidate \/ pool = {}
       THEN enrich' = [enrich EXCEPT ![e].step = "done", ![e].picked = enrich[e].given]
       ELSE \E s \in Rankings(pool) : enrich' = [enrich EXCEPT ![e].step = "judging", ![e].ranked = s]

validateCandidate(e) ==
  /\ enrich[e].step = "judging" /\ UNCHANGED looks
  /\ \E a \in enrich[e].ranked : ~enrich[e].verdict[a].known /\ Judges(e, a, enrich[e])

Better(v, p, w, q) ==
  \/ v.valid /\ ~w.valid
  \/ v.valid = w.valid /\ v.points < w.points
  \/ v.valid = w.valid /\ v.points = w.points /\ scoreEmailCandidate(p) >= scoreEmailCandidate(q)

selectBestEmailCandidate(e) ==
  LET ranked == enrich[e].ranked
      verdict == enrich[e].verdict IN
  /\ enrich[e].step = "judging" /\ \A a \in ranked : verdict[a].known
  /\ \E a \in ranked :
       /\ \A b \in ranked : Better(verdict[a], looks[a], verdict[b], looks[b])
       /\ enrich' = [enrich EXCEPT ![e].step = "done", ![e].picked = a]
  /\ UNCHANGED <<looks, unheard>>

-----------------------------------------------------------------------------
(* A company is given the address on its pages that scores best, unjudged. *)

pickCompanyEmail(p) ==
  (IF p.fits = "same" THEN 40 ELSE 0) + (IF FreeProvider(p) THEN 0 ELSE 20) + (IF p.local = "role" THEN 25 ELSE 0)

CompanyPages == SUBSET Candidates \* what the pages that answer may hold

enrichCompanyProfile(e) ==
  /\ enrich[e].step = "new" /\ UNCHANGED <<looks, unheard>>
  /\ \E found \in CompanyPages, a \in Candidates \cup {NoCandidate} :
       /\ IF found = {} THEN a = NoCandidate
          ELSE a \in found /\ \A b \in found : pickCompanyEmail(looks[a]) >= pickCompanyEmail(looks[b])
       /\ enrich' = [enrich EXCEPT ![e].step = "done", ![e].picked = a]

EnrichmentNext ==
  \E e \in Enrichments :
    \/ enrichContactInput(e) \/ fetchRelevantPages(e) \/ validateCandidate(e)
    \/ selectBestEmailCandidate(e) \/ enrichCompanyProfile(e)

EnrichmentSpec == EnrichmentInit /\ [][EnrichmentNext]_enrichmentVars

-----------------------------------------------------------------------------
\* A given address is never replaced.  One that was picked among judged candidates can
\* be written to, if any of them can, looks right and DNS answered for all of them.
PickedIsBest ==
  \A e \in Enrichments : LET f == enrich[e] IN f.step = "done" =>
    /\ f.given # NoCandidate => f.picked = f.given
    /\ ( /\ \E a \in f.ranked : ~Undeliverable(looks[a]) /\ LooksPoints(looks[a]) + 10 < 80
         /\ \A a \in f.ranked : <<e, a>> \notin unheard )
       => ~Undeliverable(looks[f.picked])
=============================================================================
