--------------------------- MODULE MCMailServices ----------------------------
(***************************************************************************)
(* The components around the delivery of mails, each on its own: the       *)
(* values of their constants, and their properties side by side.           *)
(***************************************************************************)
EXTENDS SenderLimits, SmtpPool, PriorityMail, CampaignLifecycle, TrackingEvents, Inbox,
  SequenceComposer, SenderAccounts, ReplyDetector, ImapPool, MailMaterial,
  TrackingDomain, SendTiming, TLC

CONSTANTS x1, x2, y1, y2, z1, z2, p1, p2

\* The component that runs.
VARIABLE part

Provider == [minute |-> 2, hour |-> 3, day |-> 2]
User == [hour |-> 3, day |-> 2]
Warmup == <<1>>

Business(s, e) == [start |-> s, end |-> e]
SomeWindows == {Business(1, 3), Business(2, 1), Business(NoHour, 2), Business(NoHour, NoHour)}
Usual == Business(1, 3)
SomeZones == {-1, 0, 1}
SomeSchedules == {[hour |-> NoHour, days |-> {}, skipWeekends |-> TRUE],
                  [hour |-> 3, days |-> {0, 2}, skipWeekends |-> FALSE]}

Swap == Permutations({x1, x2}) \cup Permutations({y1, y2}) \cup Permutations({z1, z2})

\* Bound on SenderAccounts: requests overlap while there is no campaign.
OneCall(calls) == Cardinality({h \in SenderCalls : calls[h] # NoCall}) <= 1

\* Variables of components that do not run need no value of their types.
LimitsRests == at = 0 /\ noted = 0 /\ sentRows = 0 /\ failedRows = 0 /\ dayCount = 0
  /\ minuteCount = 0 /\ hourCount = 0 /\ errors = 0 /\ slot = 0 /\ domainCount = 0
  /\ day = 0 /\ turns = 0 /\ attempted = 0 /\ slips = 0 /\ accepted = 0 /\ lost = 0
PoolRests == entry = 0 /\ open = 0 /\ using = 0
PriorityRests == mail = 0 /\ ordinary = 0 /\ row = 0 /\ waiting = 0 /\ doing = 0
  /\ letter = 0 /\ tried = 0 /\ quota = 0 /\ domain = 0 /\ warming = 0 /\ hours = 0
  /\ failures = 0 /\ letters = 0 /\ takeovers = 0
TrackingRests == clock = 0 /\ hit = 0 /\ buffer = 0 /\ flush = 0 /\ inserted = 0
  /\ reported = 0 /\ snapshot = 0 /\ counting = 0 /\ outages = 0 /\ rivals = 0
InboxRests == arrived = 0 /\ copy = 0 /\ sync = 0 /\ page = 0 /\ load = 0 /\ toggle = 0
  /\ syncs = 0 /\ clicks = 0 /\ raced = 0 /\ loose = 0 /\ misplaced = 0
ComposerRests == draftSteps = 0 /\ mode = 0 /\ view = 0 /\ shifted = 0 /\ saved = 0
  /\ fetching = 0 /\ columns = 0 /\ to = 0 /\ parses = 0 /\ picked = 0
  /\ parsedTogether = 0 /\ submitted = 0 /\ last = 0 /\ changes = 0
ImapRests == pooled = 0 /\ link = 0 /\ fetch = 0 /\ crossed = 0
MaterialRests == tmpl = 0 /\ atWork = 0 /\ shown = 0 /\ form = 0 /\ draft = 0
  /\ uploading = 0 /\ known = 0 /\ disk = 0 /\ withFiles = 0 /\ removed = 0
  /\ missed = 0 /\ asked = 0
DomainRests == rooms = 0 /\ setting = 0 /\ record = 0 /\ check = 0 /\ baseUrl = 0
  /\ tracked = 0 /\ found = 0 /\ overtaken = 0 /\ moves = 0

Init ==
  /\ part \in {"limits", "pool", "priority", "lifecycle", "tracking", "inbox",
               "composer", "accounts", "senders", "replies", "imap", "material", "domain", "timing"}
  /\ IF part = "limits"    THEN LimitsInit    ELSE LimitsRests
  /\ IF part = "pool"      THEN PoolInit      ELSE PoolRests
  /\ IF part = "priority"  THEN PriorityInit  ELSE PriorityRests
  /\ IF part = "tracking"  THEN TrackingInit  ELSE TrackingRests
  /\ IF part = "inbox"     THEN InboxInit     ELSE InboxRests
  /\ IF part = "composer"  THEN ComposerInit  ELSE ComposerRests
  /\ IF part = "imap"      THEN ImapInit      ELSE ImapRests
  /\ IF part = "material"  THEN MaterialInit  ELSE MaterialRests
  /\ IF part = "domain"    THEN DomainInit    ELSE DomainRests
  /\ LifecycleInit /\ SendersInit /\ ReplyInit /\ TimingInit
  /\ (part # "lifecycle" => bounced = {})

\* The components that do not run.
OthersWait ==
  /\ (part # "limits"    => UNCHANGED limitsVars)
  /\ (part # "pool"      => UNCHANGED poolVars)
  /\ (part # "priority"  => UNCHANGED priorityVars)
  /\ (part # "lifecycle" => UNCHANGED lifecycleVars)
  /\ (part # "tracking"  => UNCHANGED trackingVars)
  /\ (part # "inbox"     => UNCHANGED inboxVars)
  /\ (part # "composer"  => UNCHANGED composerVars)
  /\ (part \notin {"accounts", "senders"} => UNCHANGED sendersVars)
  /\ (part # "replies"   => UNCHANGED replyVars)
  /\ (part # "imap"      => UNCHANGED imapVars)
  /\ (part # "material"  => UNCHANGED materialVars)
  /\ (part # "domain"    => UNCHANGED domainVars)
  /\ (part # "timing"    => UNCHANGED timingVars)

Next ==
  /\ UNCHANGED part /\ OthersWait
  /\ \/ part = "limits"    /\ LimitsNext
     \/ part = "pool"      /\ PoolNext
     \/ part = "priority"  /\ PriorityNext
     \/ part = "lifecycle" /\ LifecycleNext
     \/ part = "tracking"  /\ TrackingNext
     \/ part = "inbox"     /\ InboxNext
     \/ part = "composer"  /\ ComposerNext
     \/ part = "accounts"  /\ SendersNext /\ UNCHANGED mailing
     \/ part = "senders"   /\ SendersNext /\ OneCall(call')
     \/ part = "replies"   /\ ReplyNext
     \/ part = "imap"      /\ ImapNext
     \/ part = "material"  /\ MaterialNext
     \/ part = "domain"    /\ DomainNext
     \/ part = "timing"    /\ TimingNext

\* The component that runs keeps its variables in their types.
TypesOK ==
  /\ (part = "limits"    => LimitsTypeOK)
  /\ (part = "pool"      => PoolTypeOK)
  /\ (part = "priority"  => PriorityTypeOK)
  /\ (part = "lifecycle" => LifecycleTypeOK)
  /\ (part = "tracking"  => TrackingTypeOK)
  /\ (part = "inbox"     => InboxTypeOK)
  /\ (part = "composer"  => ComposerTypeOK)
  /\ (part \in {"accounts", "senders"} => SendersTypeOK)
  /\ (part = "replies"   => ReplyTypeOK)
  /\ (part = "imap"      => ImapTypeOK)
  /\ (part = "material"  => MaterialTypeOK)
  /\ (part = "domain"    => DomainTypeOK)
  /\ (part = "timing"    => TimingTypeOK)

\* emailWorker.ts, throttleEngine.ts, adaptiveThrottle.ts: the limits of a sender and of a
\* domain are passed by no more than the requests that race, and two mails of a sender
\* overlap only when a send slot ran out.
ThrottleSound == part = "limits" => SlotSound /\ LimitsNearlyKept

\* emailWorker.ts, replyDetector.ts: a pooled connection is not closed or given to
\* somebody else under its user's hands.
ConnectionsSound ==
  /\ part = "pool" => UsedIsOpen
  /\ part = "imap" => PoolIsSound

\* priorityEmailWorker.ts: a priority mail leaves twice only after a takeover, and a row
\* that still waits has an entry that will try it.
PrioritySound == part = "priority" => TwiceOnlyByTakeover /\ OpenRowHasEntry

\* trackingControllers.ts, trackingBufferService.ts, the tracking domain: every link leads
\* to a verified name or to the server itself, and an open is reported once.
TrackingSound ==
  /\ part = "tracking" => OpensCountedOnce
  /\ part = "domain" => LinksLeadHere

\* inboxService.ts and the inbox page: letters are stored once but for races, and an
\* answer leaves from the mailbox of its letter.
InboxSound == part = "inbox" => StoredTwiceOnlyByRace /\ ReplyLeavesFromItsBox

\* The compose page: the campaign that is posted is what the user chose, and so are the
\* templates and the attachments of its mails.
PostedAsChosen ==
  /\ part = "composer" => ComposedAsChosen
  /\ part = "material" => MaterialSound
==============================================================================
