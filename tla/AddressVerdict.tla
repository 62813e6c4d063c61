----------------------------- MODULE AddressVerdict -----------------------------
(***************************************************************************)
(* The verdict on an e-mail address: a sum of points over what it looks    *)
(* like and what DNS answers.  The validator of the compose page and the   *)
(* enrichment of contacts both ask for it.                                 *)
(***************************************************************************)
EXTENDS Integers

\* popular: gmail.com and the like, whose misspellings are listed
Domains == {"work", "free", "popular", "misspelt", "disposable"}
Locals == {"person", "role", "digits", "ill"}

\* mx, spf: what DNS knows of the domain.  fits: how the domain lies to that of a company.
AllLooks ==
  [syntax : BOOLEAN, local : Locals, domain : Domains, suspicious : BOOLEAN,
   mx : BOOLEAN, spf : BOOLEAN, fits : {"same", "below", "other"}]

Verdict == [known : BOOLEAN, points : 0..100, valid : BOOLEAN]
NoVerdict == [known |-> FALSE, points |-> 0, valid |-> FALSE]

FreeProvider(p) == p.domain \in {"free", "popular"}

\* The popular names are themselves within two letters of a listed misspelling.
checkTypoDomain(p) == p.domain \in {"misspelt", "popular"}

analyzeLocalPart(p) == CASE p.local = "ill" -> 30 [] p.local = "digits" -> 15 [] OTHER -> 0

Least(m, n) == IF m < n THEN m ELSE n

LooksPoints(p) ==
  analyzeLocalPart(p) + (IF p.local = "role" THEN 15 ELSE 0) + (IF checkTypoDomain(p) THEN 40 ELSE 0)
  + (IF p.domain = "disposable" THEN 60 ELSE 0) + (IF p.suspicious THEN 20 ELSE 0)

\* dns.mx, dns.spf: what was answered
DnsPoints(p, dns) == (IF dns.mx THEN 0 ELSE 50) + (IF dns.spf \/ FreeProvider(p) THEN 0 ELSE 10)

\* Wrong variant: the points of a disposable domain are thought to be enough.
PassesByPoints(p, mx, points) == mx /\ points < 80
Passes(p, mx, points) == mx /\ p.domain # "disposable" /\ points < 80

Judge(p, dns) ==
  IF ~p.syntax THEN [known |-> TRUE, points |-> 100, valid |-> FALSE]
  ELSE LET points == Least(100, LooksPoints(p) + DnsPoints(p, dns)) IN
       [known |-> TRUE, points |-> points, valid |-> Passes(p, dns.mx, points)]

\* A lookup that gets no answer counts as no record.
Lookup(known) == IF known THEN BOOLEAN ELSE {FALSE}
DnsAnswers(p) == [mx : Lookup(p.mx), spf : Lookup(p.spf)]
Silent(p, dns) == p.syntax /\ (dns.mx # p.mx \/ dns.spf # p.spf)

riskLevel(v) ==
  CASE v.points > 80 -> "critical" [] v.points > 50 -> "high" [] v.points > 20 -> "medium" [] OTHER -> "low"

Risky(v) == v.known /\ riskLevel(v) \in {"high", "critical"}
Invalid(v) == v.known /\ ~v.valid

Undeliverable(p) == ~p.syntax \/ ~p.mx \/ p.domain = "disposable"
=============================================================================
