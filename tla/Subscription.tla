----------------------------- MODULE Subscription -----------------------------
(***************************************************************************)
(* The subscription of a workspace owner: a row that follows the payment   *)
(* provider through webhooks, which come late, twice and in any order, and *)
(* a cached answer per user, which a member inherits from the owner.       *)
(***************************************************************************)
EXTENDS Integers, Sequences, FiniteSets

CONSTANTS
  Customers,     \* who asks: the "owner", a "member" of the workspace, or both
  Subs,          \* subscriptions at the provider, one per checkout that is paid
  Hooks,         \* concurrent calls of handleWebhook
  NoSub,         \* no subscription
  Period, Trial, \* a billing period and the trial, in ticks
  PositiveTtl, NegativeTtl,  \* PREMIUM_CACHE_TTL, and the 60 seconds of a refusal
  MaxNow, MaxEvents, MaxMishaps  \* bounds on time, events, and failed calls

SubscriptionAssumption ==
  /\ Customers \subseteq {"owner", "member"}
  /\ IsFiniteSet(Subs) /\ IsFiniteSet(Hooks) /\ NoSub \notin Subs
  /\ {Period, Trial, PositiveTtl, NegativeTtl} \subseteq Nat \ {0}
  /\ {MaxNow, MaxEvents, MaxMishaps} \subseteq Nat

ASSUME SubscriptionAssumption

VARIABLES
  now,
  billing,      \* the provider's record of s
  events,       \* what the provider has sent
  processed,    \* ProcessedWebhook: events
  activated,    \* ProcessedWebhook: activation markers
  subrow,       \* Subscription of the owner
  cache,        \* cache[u]: premium, the end it knows of (0: none), when Redis drops it
  reading,      \* reading[u]: what a check has read and not stored yet
  hook,         \* hook[h]: step, event, dates fetched
  owner,         \* the owner's own request: cancel, reactivate or sync
  swept,        \* the expiry sweep has updated and not cleared the caches yet
  mishaps,      \* counter of the bound
  guessed,      \* history: latest end that was guessed because the provider did not answer
  applied, lost \* history: activations written, and claimed but not written

billingVars == <<now, billing, events>>
markerVars == <<processed, activated>>
cacheVars == <<cache, reading>>
subHistory == <<guessed, applied, lost>>
subscriptionVars == <<billingVars, markerVars, subrow, cacheVars, hook, owner, swept, mishaps,
                      subHistory>>

NoEntry == [premium |-> FALSE, ends |-> 0, until |-> -1]
NoRow == [status |-> "NONE", sub |-> NoSub, ends |-> 0, trial |-> 0, leaving |-> FALSE]
Idle == [step |-> "idle", event |-> 0, ends |-> 0, trial |-> 0]
Closed == [step |-> "idle", sub |-> NoSub, status |-> "ACTIVE", ends |-> 0, trial |-> 0,
           leaving |-> FALSE]
ActivatingKinds == {"payment.succeeded", "checkout.completed", "subscription.active"}
EventKinds == ActivatingKinds \cup {"subscription.updated", "payment.failed", "payment.cancelled"}
RowStatus == {"ACTIVE", "PAST_DUE", "ON_HOLD", "CANCELLED", "EXPIRED"}
Instants == 0 .. MaxNow + Period + Trial

SubscriptionTypeOK ==
  /\ now \in 0 .. MaxNow
  /\ billing \in [Subs -> [status : {"none", "open"} \cup RowStatus, ends : Instants,
                           trial : Instants, leaving : BOOLEAN]]
  /\ Len(events) <= MaxEvents
  /\ \A i \in 1 .. Len(events) : events[i].kind \in EventKinds /\ events[i].sub \in Subs
  /\ processed \subseteq 1 .. Len(events) /\ activated \subseteq Subs
  /\ subrow \in [status : {"NONE"} \cup RowStatus, sub : Subs \cup {NoSub}, ends : Instants,
                 trial : Instants, leaving : BOOLEAN]
  /\ cache \in [Customers -> [premium : BOOLEAN, ends : Instants, until : Int]]
  /\ reading \in [Customers -> [premium : BOOLEAN, ends : Instants, until : -1 .. 0]]
  /\ hook \in [Hooks -> [step : {"idle", "claim", "retrieve", "activate", "clear", "update",
                                 "downgrade", "clearLast"},
                         event : 0 .. Len(events), ends : Instants, trial : Instants]]
  /\ owner.step \in {"idle", "note", "sync", "clear"} /\ swept \in BOOLEAN
  /\ mishaps \in 0 .. MaxMishaps /\ guessed \in Instants
  /\ applied \in [Subs -> Nat] /\ lost \in [Subs -> Nat]

SubscriptionInit ==
  /\ now = 0
  /\ billing = [s \in Subs |-> [status |-> "none", ends |-> 0, trial |-> 0, leaving |-> FALSE]]
  /\ events = <<>> /\ processed = {} /\ activated = {}
  /\ subrow = NoRow
  /\ cache = [u \in Customers |-> NoEntry] /\ reading = [u \in Customers |-> NoEntry]
  /\ hook = [h \in Hooks |-> Idle] /\ owner = Closed /\ swept = FALSE /\ mishaps = 0
  /\ guessed = 0
  /\ applied = [s \in Subs |-> 0] /\ lost = [s \in Subs |-> 0]

(***************************************************************************)
(* getSubscriptionStatus and the cache in front of it.                     *)
(***************************************************************************)
\* Wrong variant: the status alone decides.
StatusPremium == subrow.status = "ACTIVE"

\* The owner is premium, and the member of the workspace with the owner.
RowPremium == subrow.status = "ACTIVE" /\ (subrow.ends > now \/ subrow.trial > now)

Earliest(ends, trial) == IF trial = 0 THEN ends ELSE IF ends = 0 \/ trial < ends THEN trial ELSE ends

\* An inherited answer carries no dates.
Answer(u) ==
  [premium |-> RowPremium,
   ends |-> IF u = "owner" /\ RowPremium THEN Earliest(subrow.ends, subrow.trial) ELSE 0,
   until |-> 0]

Cached(u) == cache[u] # NoEntry /\ (cache[u].premium /\ cache[u].ends > 0 => cache[u].ends > now)

\* checkPremiumStatus, up to the answer of the database.
MissCache(u) ==
  /\ reading[u] = NoEntry
  /\ ~Cached(u)
  /\ cache' = [cache EXCEPT ![u] = NoEntry]
  /\ reading' = [reading EXCEPT ![u] = Answer(u)]
  /\ UNCHANGED <<billingVars, markerVars, subrow, hook, owner, swept, mishaps, subHistory>>

\* getCacheTtlSeconds: a date that is past still gives a second.
TimeToLive(answer) ==
  IF ~answer.premium THEN NegativeTtl
  ELSE IF answer.ends = 0 THEN PositiveTtl
  ELSE IF answer.ends - now < 1 THEN 1
  ELSE IF answer.ends - now < PositiveTtl THEN answer.ends - now ELSE PositiveTtl

StoreAnswer(u) ==
  /\ reading[u] # NoEntry
  /\ cache' = [cache EXCEPT ![u] = [reading[u] EXCEPT !.until = now + TimeToLive(reading[u])]]
  /\ reading' = [reading EXCEPT ![u] = NoEntry]
  /\ UNCHANGED <<billingVars, markerVars, subrow, hook, owner, swept, mishaps, subHistory>>

\* invalidatePremiumCacheForUserAndInheritedMembers: a del that fails is swallowed.
ClearCaches ==
  \/ cache' = [u \in Customers |-> NoEntry] /\ UNCHANGED mishaps
  \/ mishaps < MaxMishaps /\ mishaps' = mishaps + 1 /\ UNCHANGED cache

(***************************************************************************)
(* The provider: checkout, payments, renewals, ends.                       *)
(***************************************************************************)
Notice(s, kind, b) ==
  [sub |-> s, kind |-> kind, status |-> b.status, ends |-> b.ends, trial |-> b.trial,
   leaving |-> b.leaving]

\* The provider changes its record and sends an event of every kind.
Report(s, b, kinds) ==
  /\ Len(events) + Len(kinds) <= MaxEvents
  /\ billing' = [billing EXCEPT ![s] = b]
  /\ events' = events \o [i \in 1 .. Len(kinds) |-> Notice(s, kinds[i], b)]

ProviderOnly == UNCHANGED <<now, markerVars, subrow, cacheVars, hook, swept, mishaps, subHistory>>

\* createSubscription: refused to a premium owner; who had a subscription gets no trial.
Checkout(s) ==
  /\ billing[s].status = "none"
  /\ ~RowPremium
  /\ billing' = [billing EXCEPT ![s] = [@ EXCEPT !.status = "open",
                                                 !.trial = IF subrow = NoRow THEN Trial ELSE 0]]
  /\ UNCHANGED <<events, owner>> /\ ProviderOnly

Pay(s) ==
  LET b == billing[s]
      trialEnd == IF b.trial > 0 THEN now + b.trial ELSE 0
      ends == IF b.trial > 0 THEN trialEnd ELSE now + Period
  IN /\ b.status = "open"
     /\ \E kinds \in {<<"payment.succeeded", "subscription.active">>, <<"checkout.completed">>} :
          Report(s, [status |-> "ACTIVE", ends |-> ends, trial |-> trialEnd, leaving |-> FALSE], kinds)
     /\ UNCHANGED owner /\ ProviderOnly

\* At the end of a period the provider renews, fails to collect, or stops.
TurnOver(s) ==
  LET b == billing[s]
  IN /\ b.status \in {"ACTIVE", "ON_HOLD"} /\ b.ends <= now
     /\ \/ ~b.leaving /\ Report(s, [b EXCEPT !.status = "ACTIVE", !.ends = now + Period],
                                <<"subscription.updated">>)
        \/ ~b.leaving /\ \E kind \in {"payment.failed", "payment.cancelled", "subscription.updated"} :
             Report(s, [b EXCEPT !.status = "ON_HOLD"], <<kind>>)
        \/ \E ended \in {"CANCELLED", "EXPIRED"} :
             Report(s, [b EXCEPT !.status = ended], <<"subscription.updated">>)
     /\ UNCHANGED owner /\ ProviderOnly

(***************************************************************************)
(* handleWebhook                                                           *)
(***************************************************************************)
At(h, step) == hook[h].step = step
EventOf(h) == events[hook[h].event]
Move(h, step) == hook' = [hook EXCEPT ![h].step = step]

Answered(h) == hook' = [hook EXCEPT ![h] = Idle]

\* Any event may come, now, later or again; it is marked as processed before anything is
\* done about it, and one that is marked changes nothing.
Receive(h, i) ==
  /\ At(h, "idle") /\ i \notin processed
  /\ processed' = processed \cup {i}
  /\ hook' = [hook EXCEPT ![h] =
       [Idle EXCEPT !.event = i, !.step = CASE events[i].kind \in ActivatingKinds -> "claim"
                                            [] events[i].kind = "subscription.updated" -> "update"
                                            [] OTHER -> "downgrade"]]
  /\ UNCHANGED <<billingVars, activated, subrow, cacheVars, owner, swept, mishaps, subHistory>>

AfterActivation(h) == EventOf(h).kind = "subscription.active"

\* claimActivationMarker
ClaimMarker(h) ==
  /\ At(h, "claim")
  /\ IF EventOf(h).sub \notin activated
     THEN /\ activated' = activated \cup {EventOf(h).sub}
          /\ Move(h, "retrieve")
     ELSE /\ UNCHANGED activated
          /\ IF AfterActivation(h) THEN Move(h, "update") ELSE Answered(h)
  /\ UNCHANGED <<billingVars, processed, subrow, cacheVars, owner, swept, mishaps, subHistory>>

\* subscriptions.retrieve; without an answer a month from now is assumed.
Retrieve(h) ==
  LET b == billing[EventOf(h).sub]
  IN /\ At(h, "retrieve")
     /\ \/ /\ hook' = [hook EXCEPT ![h] = [@ EXCEPT !.step = "activate", !.ends = b.ends,
                                                     !.trial = b.trial]]
           /\ UNCHANGED <<mishaps, guessed>>
        \/ /\ mishaps < MaxMishaps /\ mishaps' = mishaps + 1
           /\ hook' = [hook EXCEPT ![h] = [@ EXCEPT !.step = "activate", !.ends = now + Period,
                                                     !.trial = 0]]
           /\ guessed' = now + Period
     /\ UNCHANGED <<billingVars, markerVars, subrow, cacheVars, owner, swept, applied, lost>>

\* activateSubscriptionFromPayment, handleCheckoutCompleted: ACTIVE, whatever was retrieved.
Activate(h) ==
  /\ At(h, "activate")
  /\ subrow' = [status |-> "ACTIVE", sub |-> EventOf(h).sub, ends |-> hook[h].ends,
                trial |-> hook[h].trial, leaving |-> FALSE]
  /\ applied' = [applied EXCEPT ![EventOf(h).sub] = @ + 1]
  /\ Move(h, "clear")
  /\ UNCHANGED <<billingVars, markerVars, cacheVars, owner, swept, mishaps, guessed, lost>>

\* After an activation by subscription.active its own data follow.
ClearAfterHook(h) ==
  /\ \/ At(h, "clear") /\ AfterActivation(h) /\ Move(h, "update")
     \/ At(h, "clear") /\ ~AfterActivation(h) /\ Answered(h)
     \/ At(h, "clearLast") /\ Answered(h)
  /\ ClearCaches
  /\ UNCHANGED <<billingVars, markerVars, subrow, reading, owner, swept, subHistory>>

\* updateSubscriptionFromWebhook: the data of the event, however old they are.
Update(h) ==
  LET e == EventOf(h)
  IN /\ At(h, "update")
     /\ IF subrow.sub = e.sub
        THEN /\ subrow' = [status |-> e.status, sub |-> e.sub, ends |-> e.ends, trial |-> e.trial,
                           leaving |-> e.leaving]
             /\ Move(h, "clearLast")
        ELSE Answered(h) /\ UNCHANGED subrow
     /\ UNCHANGED <<billingVars, markerVars, cacheVars, owner, swept, mishaps, subHistory>>

\* payment.failed, payment.cancelled
Downgrade(h) ==
  LET e == EventOf(h)
  IN /\ At(h, "downgrade")
     /\ IF subrow.sub = e.sub
        THEN /\ subrow' = [subrow EXCEPT !.status = IF e.kind = "payment.cancelled" THEN "ON_HOLD"
                                                    ELSE "PAST_DUE"]
             /\ Move(h, "clearLast")
        ELSE Answered(h) /\ UNCHANGED subrow
     /\ UNCHANGED <<billingVars, markerVars, cacheVars, owner, swept, mishaps, subHistory>>

\* A call throws or the process dies: the event comes again and is found processed.
HookFails(h) ==
  /\ ~At(h, "idle")
  /\ mishaps < MaxMishaps /\ mishaps' = mishaps + 1
  /\ hook' = [hook EXCEPT ![h] = Idle]
  /\ lost' = IF hook[h].step \in {"retrieve", "activate"}
             THEN [lost EXCEPT ![EventOf(h).sub] = @ + 1] ELSE lost
  /\ UNCHANGED <<billingVars, markerVars, subrow, cacheVars, owner, swept, guessed, applied>>

(***************************************************************************)
(* The owner's requests and the sweep.                                     *)
(***************************************************************************)
\* cancelSubscription, reactivateSubscription: the provider first, then the row.
ChangeRenewal(leaving) ==
  LET s == subrow.sub
  IN /\ owner.step = "idle" /\ s # NoSub
     /\ Report(s, [billing[s] EXCEPT !.leaving = leaving], <<"subscription.updated">>)
     /\ owner' = [Closed EXCEPT !.step = "note", !.leaving = leaving]
     /\ ProviderOnly

NoteRenewal ==
  /\ owner.step = "note"
  /\ subrow' = [subrow EXCEPT !.leaving = owner.leaving]
  /\ owner' = [owner EXCEPT !.step = "clear"]
  /\ UNCHANGED <<billingVars, markerVars, cacheVars, hook, swept, mishaps, subHistory>>

\* getSubscription of an owner who is not premium: syncSubscriptionFromDodo
AskProvider ==
  LET b == billing[subrow.sub]
  IN /\ owner.step = "idle" /\ subrow.sub # NoSub /\ ~RowPremium
     /\ owner' = [step |-> "sync", sub |-> subrow.sub, status |-> b.status, ends |-> b.ends,
                 trial |-> b.trial, leaving |-> b.leaving]
     /\ UNCHANGED <<billingVars, markerVars, subrow, cacheVars, hook, swept, mishaps, subHistory>>

\* The dates are written to the row of the user, whatever subscription it has by now.
WriteSync ==
  /\ owner.step = "sync"
  /\ subrow' = [subrow EXCEPT !.status = owner.status, !.ends = owner.ends, !.trial = owner.trial,
                              !.leaving = owner.leaving]
  /\ owner' = [owner EXCEPT !.step = "clear"]
  /\ UNCHANGED <<billingVars, markerVars, cacheVars, hook, swept, mishaps, subHistory>>

ClearAtDesk ==
  /\ owner.step = "clear"
  /\ owner' = Closed
  /\ ClearCaches
  /\ UNCHANGED <<billingVars, markerVars, subrow, reading, hook, swept, subHistory>>

\* processExpiredSubscriptions
SweepExpired ==
  /\ ~swept
  /\ subrow.status \in {"ACTIVE", "CANCELLED"} /\ subrow.ends <= now
  /\ subrow' = [subrow EXCEPT !.status = "EXPIRED"]
  /\ swept' = TRUE
  /\ UNCHANGED <<billingVars, markerVars, cacheVars, hook, owner, mishaps, subHistory>>

ClearSwept ==
  /\ swept /\ swept' = FALSE
  /\ ClearCaches
  /\ UNCHANGED <<billingVars, markerVars, subrow, reading, hook, owner, subHistory>>

\* Redis drops what is due; a check takes less than a tick.
TimePasses ==
  /\ now < MaxNow /\ now' = now + 1
  /\ \A u \in Customers : reading[u] = NoEntry
  /\ cache' = [u \in Customers |-> IF cache[u].until <= now' THEN NoEntry ELSE cache[u]]
  /\ UNCHANGED <<billing, events, markerVars, subrow, reading, hook, owner, swept,
                 mishaps, subHistory>>

HookStep(h) ==
  \/ ClaimMarker(h) \/ Retrieve(h) \/ Activate(h) \/ ClearAfterHook(h) \/ Update(h)
  \/ Downgrade(h) \/ HookFails(h) \/ \E i \in 1 .. Len(events) : Receive(h, i)

SubscriptionNext ==
  \/ \E s \in Subs : Checkout(s) \/ Pay(s) \/ TurnOver(s)
  \/ \E h \in Hooks : HookStep(h)
  \/ \E u \in Customers : MissCache(u) \/ StoreAnswer(u)
  \/ \E leaving \in BOOLEAN : ChangeRenewal(leaving)
  \/ NoteRenewal \/ AskProvider \/ WriteSync \/ ClearAtDesk
  \/ SweepExpired \/ ClearSwept \/ TimePasses

SubscriptionSpec == SubscriptionInit /\ [][SubscriptionNext]_subscriptionVars

(***************************************************************************)
(* Properties.                                                             *)
(***************************************************************************)
\* Nobody is told to be premium for longer than the lifetime of a cached answer after the
\* last period that the provider has reported, or that was guessed when it did not answer:
\* no lost, late, repeated or overtaken event, no write of old data and no answer stored
\* after the caches were cleared gets around it (subscriptionService.ts:467-524,
\* premiumCheck.ts:17-69).
PremiumIsPaid ==
  \A u \in Customers : (Cached(u) /\ cache[u].premium) \/ RowPremium =>
    \/ now < guessed + PositiveTtl
    \/ \E s \in Subs : now < billing[s].ends + PositiveTtl

\* Every subscription is activated once and no more, by whichever of its events comes
\* first, or its only activation is lost because the call that claimed it failed
\* (subscriptionControllers.ts:189-208, 269-280, 332-352, 400-420).
ActivatedOnce ==
  \A s \in Subs :
    applied[s] + lost[s]
      + Cardinality({h \in Hooks : hook[h].step \in {"retrieve", "activate"} /\ EventOf(h).sub = s})
    = IF s \in activated THEN 1 ELSE 0
=============================================================================
