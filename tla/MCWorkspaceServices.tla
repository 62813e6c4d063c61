------------------------- MODULE MCWorkspaceServices -------------------------
(***************************************************************************)
(* The components around users, workspaces and contacts, each on its own:  *)
(* the values of their constants, and their properties side by side.       *)
(***************************************************************************)
EXTENDS Subscription, Workspace, Sessions, CallQueue, Relationships, ContactBook,
  ToolServer, AddressCheck, Enrichment, TLC

CONSTANTS x1, x2, y1, y2, z1, z2, p1, p2

\* The component that runs.
VARIABLE part

Likeness(l, d, m, f) == [syntax |-> TRUE, local |-> l, domain |-> d, suspicious |-> FALSE,
                         mx |-> m, spf |-> m, fits |-> f]
Popular == Likeness("ill", "popular", FALSE, "other")
SomeLooks == {Likeness("person", "work", TRUE, "same"), Likeness("person", "disposable", TRUE, "other"),
              Popular, Likeness("person", "work", FALSE, "below")}

Swap == Permutations({x1, x2}) \cup Permutations({y1, y2}) \cup Permutations({z1, z2})

\* Variables of components that do not run need no value of their types.
SubscriptionRests == now = 0 /\ billing = 0 /\ events = 0 /\ processed = 0
  /\ activated = 0 /\ subrow = 0 /\ cache = 0 /\ reading = 0 /\ hook = 0 /\ owner = 0
  /\ swept = 0 /\ mishaps = 0 /\ guessed = 0 /\ applied = 0 /\ lost = 0
SessionsRests == token = 0 /\ expired = 0 /\ browser = 0 /\ tab = 0 /\ request = 0
  /\ refresher = 0 /\ occasions = 0
QueueRests == task = 0 /\ known = 0 /\ desk = 0 /\ dispo = 0 /\ logged = 0
  /\ crossed = 0 /\ closings = 0 /\ extra = 0
RelationsRests == card = 0 /\ tagged = 0 /\ editor = 0 /\ bulk = 0 /\ edits = 0
  /\ before = 0 /\ touched = 0
AddressRests == profile = 0 /\ to = 0 /\ panel = 0 /\ validation = 0 /\ cleaned = 0
  /\ removed = 0 /\ silent = 0 /\ entries = 0
EnrichmentRests == looks = 0 /\ enrich = 0 /\ unheard = 0

Init ==
  /\ part \in {"subscription", "workspace", "sessions", "calls", "relations",
               "contacts", "tools", "check", "enrich"}
  /\ IF part = "subscription" THEN SubscriptionInit ELSE SubscriptionRests
  /\ IF part = "sessions"     THEN SessionsInit     ELSE SessionsRests
  /\ IF part = "calls"        THEN QueueInit        ELSE QueueRests
  /\ IF part = "relations"    THEN RelationsInit    ELSE RelationsRests
  /\ IF part = "check"        THEN AddressInit      ELSE AddressRests
  /\ IF part = "enrich"       THEN EnrichmentInit   ELSE EnrichmentRests
  /\ WorkspaceInit /\ BookInit /\ ToolsInit
  /\ (part # "contacts" => works = {})
  /\ (part # "tools" => \A t \in Tasks : kind[t].access = "read" /\ ~kind[t].destructive)

\* The components that do not run.
OthersWait ==
  /\ (part # "subscription" => UNCHANGED subscriptionVars)
  /\ (part # "workspace"    => UNCHANGED workspaceVars)
  /\ (part # "sessions"     => UNCHANGED sessionsVars)
  /\ (part # "calls"        => UNCHANGED queueVars)
  /\ (part # "relations"    => UNCHANGED relationsVars)
  /\ (part # "contacts"     => UNCHANGED bookVars)
  /\ (part # "tools"        => UNCHANGED toolVars)
  /\ (part # "check"        => UNCHANGED addressVars)
  /\ (part # "enrich"       => UNCHANGED enrichmentVars)

Next ==
  /\ UNCHANGED part /\ OthersWait
  /\ \/ part = "subscription" /\ SubscriptionNext
     \/ part = "workspace"    /\ WorkspaceNext
     \/ part = "sessions"     /\ SessionsNext
     \/ part = "calls"        /\ QueueNext
     \/ part = "relations"    /\ RelationsNext
     \/ part = "contacts"     /\ BookNext
     \/ part = "tools"        /\ ToolsNext
     \/ part = "check"        /\ AddressNext
     \/ part = "enrich"       /\ EnrichmentNext

\* The component that runs keeps its variables in their types.
TypesOK ==
  /\ (part = "subscription" => SubscriptionTypeOK)
  /\ (part = "workspace"    => WorkspaceTypeOK)
  /\ (part = "sessions"     => SessionsTypeOK)
  /\ (part = "calls"        => QueueTypeOK)
  /\ (part = "relations"    => RelationsTypeOK)
  /\ (part = "contacts"     => BookTypeOK)
  /\ (part = "tools"        => ToolsTypeOK)
  /\ (part = "check"        => AddressTypeOK)
  /\ (part = "enrich"       => EnrichmentTypeOK)

\* subscriptionControllers.ts, premiumCheck.ts: premium is what was paid for, and a payment
\* activates once.
SubscriptionSound == part = "subscription" => PremiumIsPaid /\ ActivatedOnce

\* authControllers.ts, the client's axios interceptors: a token is rotated once, and
\* requests that find theirs expired wait for the one refresh.
SessionsSound == part = "sessions" => RotatesOnce /\ WaitsForRefresh

\* callControllers.ts, prmControllers.ts: a prospect has one pending call task but for races,
\* and undoing a bulk action restores what it changed.
ProspectsSound ==
  /\ part = "calls" => TasksOnce
  /\ part = "relations" => UndoRestores

\* The e-mail validator and the contact enrichment: who stays on the list has been checked,
\* and the address that is picked is the best of those judged.
AddressesJudged ==
  /\ part = "check" => ListIsChecked
  /\ part = "enrich" => PickedIsBest
==============================================================================
