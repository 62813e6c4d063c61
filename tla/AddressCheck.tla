------------------------------ MODULE AddressCheck ------------------------------
(***************************************************************************)
(* The validator of the compose page: it asks the server for verdicts on   *)
(* the recipients and removes those that are judged badly.                 *)
(***************************************************************************)
EXTENDS AddressVerdict, FiniteSets

CONSTANTS
  Addresses,    \* normalised: lower case, no spaces
  Profiles,     \* what an address may look like
  Validations,  \* validations under way at the same time
  MaxAsked,     \* addresses in one validation (1000)
  MaxEntries    \* bound: how often recipients are put in

AddressAssumption == Profiles \subseteq AllLooks /\ MaxAsked \in Nat \ {0} /\ MaxEntries \in Nat

ASSUME AddressAssumption

VARIABLES
  profile,     \* profile[a]: what a looks like, and what DNS knows of it
  to,          \* recipients on the compose page, as they are written
  panel,       \* the validator: [busy, open, asked, verdict]
  validation,  \* validation[r]: [step, alive, asked, todo, verdict]
  cleaned,     \* history: judged when the invalid ones were removed, not put in since
  removed,     \* history: removed as invalid, not put in since
  silent,      \* history: DNS did not answer for them
  entries      \* counter of the bound

addressVars == <<profile, to, panel, validation, cleaned, removed, silent, entries>>

Written == Addresses \X {"plain", "capital"}
Unjudged == [a \in Addresses |-> NoVerdict]
NoRequest == [step |-> "none", alive |-> FALSE, asked |-> {}, todo |-> {}, verdict |-> Unjudged]
NoPanel == [busy |-> FALSE, open |-> FALSE, asked |-> {}, verdict |-> Unjudged]

AddressTypeOK ==
  /\ profile \in [Addresses -> Profiles] /\ to \subseteq Written
  /\ panel \in [busy : BOOLEAN, open : BOOLEAN, asked : SUBSET Addresses, verdict : [Addresses -> Verdict]]
  /\ validation \in [Validations -> [step : {"none", "asked", "judging"}, alive : BOOLEAN, asked : SUBSET Written,
                               todo : SUBSET Addresses, verdict : [Addresses -> Verdict]]]
  /\ cleaned \subseteq Addresses /\ removed \subseteq Addresses /\ silent \subseteq Addresses
  /\ entries \in 0..MaxEntries

AddressInit ==
  /\ profile \in [Addresses -> Profiles] /\ to = {} /\ panel = NoPanel
  /\ validation = [r \in Validations |-> NoRequest] /\ cleaned = {} /\ removed = {} /\ silent = {} /\ entries = 0

-----------------------------------------------------------------------------
(* The compose page and its validator, which is there while there are      *)
(* recipients: without any it goes away and forgets what it asked.         *)

Leaves(ws, shown) ==
  /\ to' = ws
  /\ panel' = IF ws = {} THEN NoPanel ELSE shown
  /\ validation' = IF ws # {} THEN validation ELSE [r \in Validations |-> [validation[r] EXCEPT !.alive = FALSE]]

PutIn(ws) ==
  /\ entries < MaxEntries /\ ws # {}
  /\ to' = to \cup ws /\ entries' = entries + 1
  /\ cleaned' = cleaned \ {w[1] : w \in ws} /\ removed' = removed \ {w[1] : w \in ws}
  /\ UNCHANGED <<profile, panel, validation, silent>>

TakeOut(w) ==
  /\ w \in to /\ ~panel.open /\ Leaves(to \ {w}, panel)
  /\ UNCHANGED <<profile, cleaned, removed, silent, entries>>

handleValidate(r) ==
  /\ to # {} /\ ~panel.busy /\ ~panel.open /\ validation[r].step = "none"
  /\ panel' = [panel EXCEPT !.busy = TRUE]
  /\ validation' = [validation EXCEPT ![r] = [NoRequest EXCEPT !.step = "asked", !.alive = TRUE, !.asked = to]]
  /\ UNCHANGED <<profile, to, cleaned, removed, silent, entries>>

\* Wrong variant: every spelling is an address of its own.
validateAsTyped(r) ==
  /\ validation[r].step = "asked" /\ Cardinality(validation[r].asked) <= MaxAsked
  /\ validation' = [validation EXCEPT ![r].step = "judging", ![r].todo = validation[r].asked]
  /\ UNCHANGED <<profile, to, panel, cleaned, removed, silent, entries>>

\* The server takes one spelling of every address.
validateRecipients(r) ==
  /\ validation[r].step = "asked" /\ Cardinality(validation[r].asked) <= MaxAsked
  /\ validation' = [validation EXCEPT ![r].step = "judging", ![r].todo = {w[1] : w \in validation[r].asked}]
  /\ UNCHANGED <<profile, to, panel, cleaned, removed, silent, entries>>

validateEmail(r) ==
  /\ validation[r].step = "judging"
  /\ \E a \in validation[r].todo : \E dns \in DnsAnswers(profile[a]) :
       /\ validation' = [validation EXCEPT ![r].todo = @ \ {a}, ![r].verdict[a] = Judge(profile[a], dns)]
       /\ silent' = IF Silent(profile[a], dns) THEN silent \cup {a} ELSE silent
  /\ UNCHANGED <<profile, to, panel, cleaned, removed, entries>>

ShowVerdicts(r) ==
  /\ validation[r].step = "judging" /\ validation[r].todo = {}
  /\ validation' = [validation EXCEPT ![r] = NoRequest]
  /\ panel' = IF ~validation[r].alive THEN panel
              ELSE [busy |-> FALSE, open |-> TRUE, asked |-> {w[1] : w \in validation[r].asked},
                    verdict |-> validation[r].verdict]
  /\ UNCHANGED <<profile, to, cleaned, removed, silent, entries>>

\* No premium, too many addresses, or an error: the page only says so.
ValidationFails(r) ==
  /\ validation[r].step # "none" /\ validation' = [validation EXCEPT ![r] = NoRequest]
  /\ panel' = IF validation[r].alive THEN [panel EXCEPT !.busy = FALSE] ELSE panel
  /\ UNCHANGED <<profile, to, cleaned, removed, silent, entries>>

\* A closed panel is of no use any more: the next answer replaces what it has.
closeModal == panel.open /\ panel' = NoPanel /\ UNCHANGED <<profile, to, validation, cleaned, removed, silent, entries>>

\* Recipients are taken out under the normalised spelling.
Without(as) == {w \in to : w \notin as \X {"plain"}}

handleRemoveInvalid ==
  LET bad == {a \in Addresses : Invalid(panel.verdict[a])} IN
  /\ panel.open /\ bad # {} /\ Leaves(Without(bad), NoPanel)
  /\ cleaned' = panel.asked /\ removed' = bad
  /\ UNCHANGED <<profile, silent, entries>>

RemoveRisky ==
  LET bad == {a \in Addresses : Risky(panel.verdict[a])} IN
  /\ panel.open /\ bad # {} /\ Leaves(Without(bad), NoPanel)
  /\ UNCHANGED <<profile, cleaned, removed, silent, entries>>

RemoveOne(a) ==
  /\ panel.open /\ panel.verdict[a].known /\ Leaves(Without({a}), panel)
  /\ UNCHANGED <<profile, cleaned, removed, silent, entries>>

AddressNext ==
  \/ \E ws \in SUBSET Written : PutIn(ws)
  \/ \E w \in Written : TakeOut(w)
  \/ \E r \in Validations : \/ handleValidate(r) \/ validateRecipients(r) \/ validateEmail(r)
                         \/ ShowVerdicts(r) \/ ValidationFails(r)
  \/ closeModal \/ handleRemoveInvalid \/ RemoveRisky
  \/ \E a \in Addresses : RemoveOne(a)

AddressSpec == AddressInit /\ [][AddressNext]_addressVars

-----------------------------------------------------------------------------
\* Once the invalid ones of the recipients that were asked about have been
\* removed, an address that cannot be written to is among them only under a
\* spelling with capitals, which the removal does not find, or put in again;
\* whatever the recipients did between the question and the answer.
CleanedListIsClean == \A a \in cleaned : <<a, "plain">> \in to => ~Undeliverable(profile[a])

\* An address is removed as invalid only when it cannot be written to, when DNS
\* was silent, or when its looks alone make 80 points.
RemovedForCause ==
  \A a \in removed : Undeliverable(profile[a]) \/ a \in silent \/ LooksPoints(profile[a]) + 10 >= 80

\* The verdicts do on the page what they are for.
ListIsChecked == CleanedListIsClean /\ RemovedForCause
=============================================================================
