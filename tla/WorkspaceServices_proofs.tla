---------------------- MODULE WorkspaceServices_proofs ----------------------
(***************************************************************************)
(* What the services around the workspaces promise, for any number of      *)
(* keys, tasks, requests and users: a task that no request with it timed   *)
(* out is applied once, and the page of the keys lists what belongs there  *)
(* (ToolServer); contacts are refused, and listed across the border of the *)
(* workspace, only where the code's scopes let them (ContactBook); a       *)
(* workspace has one owner, nobody beyond the team limit but the           *)
(* invitations accepted at once, and nobody enters who is no member        *)
(* (Workspace).                                                            *)
(***************************************************************************)
EXTENDS ToolServer, ContactBook, Workspace, FiniteSetTheorems, TLAPS

(***************************************************************************)
(* The requests of the client.  The tasks of two requests whose answers    *)
(* the client waits for are different, and none of them has a good answer. *)
(***************************************************************************)
Answers == UNION {[T -> Results] : T \in SUBSET Tasks}
ToolCallRec ==
  [step : {"idle", "sent", "running", "abandoned"}, key : Keys \cup {SessionOnly}, grant : AnyGrant,
   result : Answers]
KindRec == [area : Areas, access : {"read", "write"}, destructive : BOOLEAN]
KeyRec ==
  [step : {"none", "active", "revoked", "expired"}, scope : Scopes, access : {"read", "write"},
   areas : SUBSET Areas]
KeysTyped == keyRow \in [Keys -> KeyRec]

Batch(r) == DOMAIN toolCall[r].result
AwaitedCall(r) == toolCall[r].step \in {"sent", "running"}
AbandonedTimedOut == \A r \in ToolCalls : toolCall[r].step = "abandoned" => Batch(r) \subseteq timedOut
OneBatchPerTask ==
  \A r, q \in ToolCalls : AwaitedCall(r) /\ AwaitedCall(q) /\ r # q => Batch(r) \cap Batch(q) = {}
AwaitedIsUnserved == \A r \in ToolCalls : AwaitedCall(r) => Batch(r) \cap served = {}
SentIsFresh ==
  \A r \in ToolCalls : toolCall[r].step = "sent" => \A t \in Batch(r) : toolCall[r].result[t] = "none"

\* The request that has applied the task and has not been answered yet.
Applied(r, t) == toolCall[r].step = "running" /\ t \in Batch(r) /\ toolCall[r].result[t] = "good"
OncePerTask ==
  \A t \in Tasks \ timedOut :
    /\ effects[t] \in {0, 1}
    /\ effects[t] = 1 => t \in served \/ \E r \in ToolCalls : Applied(r, t)

CallsTyped ==
  /\ kind \in [Tasks -> KindRec] /\ confirmed \subseteq Tasks
  /\ toolCall \in [ToolCalls -> ToolCallRec]
  /\ effects \in [Tasks -> Nat] /\ served \subseteq Tasks /\ timedOut \subseteq Tasks

BatchInv ==
  /\ CallsTyped /\ AbandonedTimedOut /\ OneBatchPerTask /\ AwaitedIsUnserved /\ SentIsFresh /\ OncePerTask

LEMMA EndedTyped ==
  /\ Ended \in ToolCallRec /\ Ended.step = "idle" /\ Ended.grant \in AnyGrant
  <1>1. <<>> \in [{} -> Results]
    OBVIOUS
  <1>2. <<>> \in Answers
    BY <1>1 DEF Answers
  <1>3. [access |-> "read", areas |-> {}] \in AnyGrant
    BY DEF AnyGrant
  <1>. QED
    BY <1>2, <1>3 DEF Ended, ToolCallRec

LEMMA AnswersHold ==
  ASSUME NEW a \in Answers
  PROVE  DOMAIN a \subseteq Tasks /\ \A t \in DOMAIN a : a[t] \in Results
  BY DEF Answers

LEMMA AnswerGiven ==
  ASSUME NEW a \in Answers, NEW t \in DOMAIN a, NEW o \in Results
  PROVE  /\ [a EXCEPT ![t] = o] \in Answers /\ DOMAIN [a EXCEPT ![t] = o] = DOMAIN a
         /\ [a EXCEPT ![t] = o][t] = o
         /\ \A u \in DOMAIN a \ {t} : [a EXCEPT ![t] = o][u] = a[u]
  <1>1. PICK T \in SUBSET Tasks : a \in [T -> Results]
    BY DEF Answers
  <1>2. [a EXCEPT ![t] = o] \in [T -> Results]
    BY <1>1
  <1>. QED
    BY <1>1, <1>2 DEF Answers

LEMMA CallsInit == ToolsInit => BatchInv
  <1>. SUFFICES ASSUME ToolsInit PROVE BatchInv
    OBVIOUS
  <1>1. CallsTyped
    BY EndedTyped DEF ToolsInit, CallsTyped, KindRec
  <1>. QED
    BY <1>1, EndedTyped DEF ToolsInit, BatchInv, AbandonedTimedOut, OneBatchPerTask, AwaitedIsUnserved,
       SentIsFresh, OncePerTask, AwaitedCall

\* A request goes out for tasks that nobody else is doing.
LEMMA SendCallStep ==
  ASSUME BatchInv, NEW r \in ToolCalls, SendCall(r)
  PROVE  BatchInv'
  <1>. USE DEF BatchInv
  <1>1. PICK k \in Keys \cup {SessionOnly}, T \in SUBSET (Tasks \ served) :
          /\ \A q \in ToolCalls : AwaitedCall(q) => Batch(q) \cap T = {}
          /\ toolCall' = [toolCall EXCEPT ![r] = [step |-> "sent", key |-> k, grant |-> Ended.grant,
                                                  result |-> [t \in T |-> "none"]]]
    BY DEF SendCall, AwaitedCall, Batch
  <1>. DEFINE c == [step |-> "sent", key |-> k, grant |-> Ended.grant, result |-> [t \in T |-> "none"]]
  <1>2. c \in ToolCallRec /\ c.step = "sent" /\ DOMAIN c.result = T /\ \A t \in T : c.result[t] = "none"
    <2>1. [t \in T |-> "none"] \in [T -> Results]
      BY DEF Results
    <2>2. [t \in T |-> "none"] \in Answers
      BY <2>1 DEF Answers
    <2>. QED
      BY <2>2, EndedTyped DEF ToolCallRec
  <1>3. /\ toolCall' \in [ToolCalls -> ToolCallRec] /\ toolCall'[r] = c
        /\ \A q \in ToolCalls \ {r} : toolCall'[q] = toolCall[q]
    BY <1>1, <1>2 DEF CallsTyped
  <1>. HIDE DEF c
  <1>4. UNCHANGED <<kind, confirmed, effects, served, timedOut>> /\ toolCall[r].step = "idle"
    BY DEF SendCall
  <1>5. CallsTyped'
    BY <1>3, <1>4 DEF CallsTyped
  <1>6. AbandonedTimedOut' /\ SentIsFresh' /\ AwaitedIsUnserved'
    BY <1>2, <1>3, <1>4 DEF AbandonedTimedOut, SentIsFresh, AwaitedIsUnserved, AwaitedCall, Batch
  <1>7. OneBatchPerTask'
    BY <1>1, <1>2, <1>3 DEF OneBatchPerTask, AwaitedCall, Batch
  <1>8. OncePerTask'
    <2>1. \A t \in Tasks, q \in ToolCalls : Applied(q, t) => Applied(q, t)'
      BY <1>3, <1>4 DEF Applied, Batch
    <2>. QED
      BY <1>4, <2>1 DEF OncePerTask
  <1>. QED
    BY <1>5, <1>6, <1>7, <1>8

\* Its batch and its answers stay as they are.
LEMMA MovesOnStep ==
  ASSUME BatchInv, NEW r \in ToolCalls, NEW c \in ToolCallRec,
         toolCall' = [toolCall EXCEPT ![r] = c], UNCHANGED <<kind, effects>>,
         \/ c.step = "running" /\ toolCall[r].step = "sent" /\ c.result = toolCall[r].result
         \/ c.step = "abandoned" /\ toolCall[r].step = "running" /\ c.result = toolCall[r].result
         \/ c.step = "idle",
         confirmed' \subseteq Tasks, served' \subseteq Tasks, timedOut' \subseteq Tasks,
         timedOut \subseteq timedOut', served \subseteq served',
         c.step = "abandoned" => Batch(r) \subseteq timedOut',
         \A q \in ToolCalls \ {r} : AwaitedCall(q) => Batch(q) \cap served' = {},
         c.step # "idle" => served' = served,
         \A t \in Tasks \ timedOut : c.step = "idle" /\ Applied(r, t) => t \in served'
  PROVE  BatchInv'
  <1>. USE DEF BatchInv
  <1>1. /\ toolCall' \in [ToolCalls -> ToolCallRec] /\ toolCall'[r] = c
        /\ \A q \in ToolCalls \ {r} : toolCall'[q] = toolCall[q]
    BY DEF CallsTyped
  <1>2. CallsTyped'
    BY <1>1 DEF CallsTyped
  <1>3. AbandonedTimedOut' /\ SentIsFresh'
    BY <1>1 DEF AbandonedTimedOut, SentIsFresh, Batch
  <1>4. OneBatchPerTask' /\ AwaitedIsUnserved'
    BY <1>1 DEF OneBatchPerTask, AwaitedIsUnserved, AwaitedCall, Batch
  <1>5. OncePerTask'
    <2>. SUFFICES ASSUME NEW t \in Tasks \ timedOut', effects[t] = 1, t \notin served'
                  PROVE  \E q \in ToolCalls : Applied(q, t)'
      BY DEF OncePerTask
    <2>1. PICK q \in ToolCalls : Applied(q, t)
      BY DEF OncePerTask
    <2>2. Applied(q, t)'
      BY <1>1, <2>1 DEF Applied, Batch
    <2>. QED
      BY <2>2
  <1>. QED
    BY <1>2, <1>3, <1>4, <1>5

\* Keys decide at once, an answer tells what was applied, a time-out tells nothing.
LEMMA RequestStep ==
  ASSUME KeysTyped, BatchInv, NEW r \in ToolCalls, AuthenticateCall(r) \/ Respond(r) \/ TimeOut(r) \/ RunOut(r)
  PROVE  BatchInv'
  <1>. USE DEF BatchInv
  <1>t. toolCall \in [ToolCalls -> ToolCallRec] /\ Batch(r) \subseteq Tasks
        /\ confirmed \subseteq Tasks /\ served \subseteq Tasks /\ timedOut \subseteq Tasks
    BY AnswersHold DEF CallsTyped, ToolCallRec, Batch
  <1>1. CASE AuthenticateCall(r)
    <2>1. CASE toolCall' = [toolCall EXCEPT ![r] = Ended]
      <3>1. UNCHANGED <<kind, confirmed, effects, served, timedOut>> /\ toolCall[r].step = "sent"
        BY <1>1 DEF AuthenticateCall
      <3>2. \A t \in Tasks : ~Applied(r, t)
        BY <3>1 DEF Applied
      <3>. QED
        BY <1>t, <2>1, <3>1, <3>2, EndedTyped, MovesOnStep DEF AwaitedIsUnserved
    <2>2. CASE toolCall' # [toolCall EXCEPT ![r] = Ended]
      <3>1. PICK g \in AnyGrant : toolCall' = [toolCall EXCEPT ![r] = [@ EXCEPT !.step = "running", !.grant = g]]
        <4>. DEFINE k == toolCall[r].key
                    g == IF k = SessionOnly THEN [access |-> "write", areas |-> Areas]
                         ELSE [access |-> keyRow[k].access, areas |-> keyRow[k].areas]
        <4>1. k \in Keys \cup {SessionOnly}
          BY <1>t DEF ToolCallRec
        <4>2. g \in AnyGrant
          BY <4>1 DEF AnyGrant, KeysTyped, KeyRec
        <4>3. toolCall' = [toolCall EXCEPT ![r] = [@ EXCEPT !.step = "running", !.grant = g]]
          BY <1>1, <2>2 DEF AuthenticateCall
        <4>. QED
          BY <4>2, <4>3
      <3>. DEFINE c == [toolCall[r] EXCEPT !.step = "running", !.grant = g]
      <3>2. c \in ToolCallRec /\ c.step = "running" /\ c.result = toolCall[r].result
        BY <1>t DEF ToolCallRec
      <3>3. toolCall' = [toolCall EXCEPT ![r] = c]
        BY <3>1
      <3>. HIDE DEF c
      <3>. QED
        BY <1>1, <1>t, <3>2, <3>3, MovesOnStep DEF AuthenticateCall, AwaitedIsUnserved
    <2>. QED
      BY <2>1, <2>2
  <1>2. CASE Respond(r)
    <2>1. Learnt(r) \subseteq Batch(r) /\ confirmed' \subseteq Tasks
      BY <1>2, <1>t DEF Respond, Learnt, Batch
    <2>2. \A q \in ToolCalls \ {r} : AwaitedCall(q) => Batch(q) \cap served' = {}
      BY <1>2, <2>1 DEF Respond, AwaitedIsUnserved, OneBatchPerTask, AwaitedCall
    <2>3. \A t \in Tasks : Applied(r, t) => t \in served'
      BY <1>2 DEF Respond, Applied, Learnt, Batch
    <2>4. toolCall' = [toolCall EXCEPT ![r] = Ended] /\ UNCHANGED <<kind, effects, timedOut>>
          /\ served' = served \cup Learnt(r)
      BY <1>2 DEF Respond
    <2>. QED
      BY <1>t, <2>1, <2>2, <2>3, <2>4, EndedTyped, MovesOnStep
  <1>3. CASE TimeOut(r)
    <2>. DEFINE c == [toolCall[r] EXCEPT !.step = "abandoned"]
    <2>1. c \in ToolCallRec /\ c.step = "abandoned" /\ c.result = toolCall[r].result
      BY <1>t DEF ToolCallRec
    <2>2. toolCall' = [toolCall EXCEPT ![r] = c]
      BY <1>3, <1>t DEF TimeOut
    <2>. HIDE DEF c
    <2>3. timedOut' = timedOut \cup Batch(r)
      BY <1>3 DEF TimeOut, Batch
    <2>. QED
      BY <1>3, <1>t, <2>1, <2>2, <2>3, MovesOnStep DEF TimeOut, AwaitedIsUnserved
  <1>4. CASE RunOut(r)
    BY <1>4, <1>t, EndedTyped, MovesOnStep DEF RunOut, AwaitedIsUnserved, Applied
  <1>. QED
    BY <1>1, <1>2, <1>3, <1>4

\* Of the requests with a task, only one that timed out can apply it once more.
LEMMA CallToolStep ==
  ASSUME BatchInv, NEW r \in ToolCalls, NEW t \in Tasks, CallTool(r, t)
  PROVE  BatchInv'
  <1>. USE DEF BatchInv
  <1>1. PICK o \in Results :
          /\ toolCall' = [toolCall EXCEPT ![r].result[t] = o]
          /\ effects' = IF o = "good" /\ kind[t].access = "write"
                        THEN [effects EXCEPT ![t] = @ + 1] ELSE effects
    BY DEF CallTool, ToolOutcomes, Results
  <1>2. PICK a \in Answers : a = toolCall[r].result
    BY DEF CallsTyped, ToolCallRec
  <1>3. t \in DOMAIN a /\ a[t] = "none" /\ toolCall[r].step \in {"running", "abandoned"}
    BY <1>2 DEF CallTool
  <1>. DEFINE b == [a EXCEPT ![t] = o]
              c == [toolCall[r] EXCEPT !.result = b]
  <1>4. b \in Answers /\ DOMAIN b = DOMAIN a /\ b[t] = o /\ \A u \in DOMAIN a \ {t} : b[u] = a[u]
    BY <1>3, AnswerGiven
  <1>5. toolCall' = [toolCall EXCEPT ![r] = c]
    BY <1>1, <1>2
  <1>. HIDE DEF b
  <1>6. c \in ToolCallRec /\ c.step = toolCall[r].step /\ c.result = b
    BY <1>4 DEF CallsTyped, ToolCallRec
  <1>. HIDE DEF c
  <1>7. /\ toolCall' \in [ToolCalls -> ToolCallRec] /\ toolCall'[r] = c
        /\ \A q \in ToolCalls \ {r} : toolCall'[q] = toolCall[q]
    BY <1>5, <1>6 DEF CallsTyped
  <1>8. UNCHANGED <<kind, confirmed, served, timedOut>>
    BY DEF CallTool
  <1>9. \A q \in ToolCalls : Batch(q)' = Batch(q) /\ toolCall'[q].step = toolCall[q].step
    BY <1>2, <1>4, <1>6, <1>7 DEF Batch
  <1>10. AbandonedTimedOut' /\ OneBatchPerTask' /\ AwaitedIsUnserved'
    BY <1>8, <1>9 DEF AbandonedTimedOut, OneBatchPerTask, AwaitedIsUnserved, AwaitedCall
  <1>11. SentIsFresh'
    BY <1>3, <1>7, <1>9 DEF SentIsFresh, Batch
  <1>12. effects' \in [Tasks -> Nat] /\ \A u \in Tasks \ {t} : effects'[u] = effects[u]
    BY <1>1 DEF CallsTyped
  <1>13. \A u \in Tasks, q \in ToolCalls : Applied(q, u) => Applied(q, u)'
    <2>1. ASSUME NEW u \in Tasks, NEW q \in ToolCalls, Applied(q, u)
          PROVE  toolCall'[q].result[u] = "good"
      BY <1>2, <1>3, <1>4, <1>6, <1>7, <2>1 DEF Applied, Batch
    <2>. QED
      BY <1>9, <2>1 DEF Applied
  <1>14. OncePerTask'
    <2>1. ASSUME NEW u \in Tasks \ timedOut, effects'[u] = effects[u]
          PROVE  /\ effects'[u] \in {0, 1}
                 /\ effects'[u] = 1 => u \in served \/ \E q \in ToolCalls : Applied(q, u)'
      BY <1>13, <2>1 DEF OncePerTask
    <2>2. ASSUME t \notin timedOut, effects'[t] # effects[t]
          PROVE  effects'[t] = 1 /\ \E q \in ToolCalls : Applied(q, t)'
      <3>1. o = "good" /\ effects'[t] = effects[t] + 1
        BY <1>1, <2>2 DEF CallsTyped
      <3>2. toolCall[r].step = "running" /\ t \in Batch(r)
        BY <1>2, <1>3, <2>2 DEF AbandonedTimedOut, Batch
      <3>3. effects[t] = 0
        <4>1. t \notin served
          BY <3>2 DEF AwaitedIsUnserved, AwaitedCall
        <4>2. \A q \in ToolCalls : ~Applied(q, t)
          BY <1>2, <1>3, <3>2 DEF Applied, OneBatchPerTask, AwaitedCall
        <4>. QED
          BY <2>2, <4>1, <4>2 DEF OncePerTask
      <3>4. Applied(r, t)'
        BY <1>4, <1>6, <1>7, <1>9, <3>1, <3>2 DEF Applied
      <3>. QED
        BY <3>1, <3>3, <3>4
    <2>3. ASSUME NEW u \in Tasks \ timedOut
          PROVE  /\ effects'[u] \in {0, 1}
                 /\ effects'[u] = 1 => u \in served \/ \E q \in ToolCalls : Applied(q, u)'
      BY <1>12, <2>1, <2>2
    <2>. QED
      BY <1>8, <2>3 DEF OncePerTask
  <1>15. CallsTyped'
    BY <1>7, <1>8, <1>12 DEF CallsTyped
  <1>. QED
    BY <1>10, <1>11, <1>14, <1>15

LEMMA BatchStep ==
  ASSUME KeysTyped, BatchInv, [ToolsNext]_toolVars
  PROVE  BatchInv'
  <1>1. CASE UNCHANGED callVars
    <2>1. UNCHANGED <<kind, confirmed, toolCall, effects, served, timedOut>>
      BY <1>1 DEF callVars
    <2>. QED
      BY <2>1 DEF BatchInv, CallsTyped, AbandonedTimedOut, OneBatchPerTask, AwaitedIsUnserved, SentIsFresh,
         OncePerTask, AwaitedCall, Batch, Applied
  <1>2. ASSUME NEW r \in ToolCalls, SendCall(r)
        PROVE  BatchInv'
    BY <1>2, SendCallStep
  <1>3. ASSUME NEW r \in ToolCalls, AuthenticateCall(r) \/ Respond(r) \/ TimeOut(r) \/ RunOut(r)
        PROVE  BatchInv'
    BY <1>3, RequestStep
  <1>4. ASSUME NEW r \in ToolCalls, NEW t \in Tasks, CallTool(r, t)
        PROVE  BatchInv'
    BY <1>4, CallToolStep
  <1>5. CASE UNCHANGED toolVars
    BY <1>1, <1>5 DEF toolVars
  <1>6. ASSUME NEW k \in Keys,
               \/ CreateKey(k) \/ KeyCreated(k) \/ ToolCreateKey(k) \/ RevokeKey(k)
               \/ ToolRevokeKey(k) \/ DeleteKey(k) \/ Expire(k)
        PROVE  UNCHANGED callVars
    BY <1>6 DEF CreateKey, KeyCreated, ToolCreateKey, RevokeKey, ToolRevokeKey, DeleteKey, Expire
  <1>7. ASSUME \/ \E x \in {"member", "premium"} : Lose(x)
               \/ Refresh \/ SwitchTab
               \/ \E l \in loads : KeysRead(l) \/ KeysArrive(l) \/ LoadFails(l)
        PROVE  UNCHANGED callVars
    BY <1>7 DEF Lose, Refresh, SwitchTab, KeysRead, KeysArrive, LoadFails
  <1>. QED
    BY <1>1, <1>2, <1>3, <1>4, <1>5, <1>6, <1>7 DEF ToolsNext

(***************************************************************************)
(* The page.  Keys keep their scope, so what a load has found fits the     *)
(* scope it was asked for, and the last load was asked for the selected    *)
(* one.                                                                    *)
(***************************************************************************)
LoadRec == [id : 1 .. MaxOrders, scope : Scopes, step : {"asked", "back"}, got : SUBSET Keys]
KeysTabRec == [scope : Scopes, keys : SUBSET Keys, last : 0 .. MaxOrders, failed : BOOLEAN]
PageTyped ==
  /\ keysTab \in KeysTabRec /\ loads \subseteq LoadRec /\ creating \subseteq Keys /\ early \subseteq Keys
  /\ entitled \subseteq {"member", "premium"} /\ orders \in 0 .. MaxOrders /\ keysTab.last <= orders

LoadsOfPage ==
  \A l \in loads : l.id <= keysTab.last /\ (l.id = keysTab.last => l.scope = keysTab.scope)
GotIsThere == \A l \in loads : \A k \in l.got : keyRow[k].step # "none" /\ keyRow[k].scope = l.scope
ListedIsThere == \A k \in keysTab.keys \cup creating : keyRow[k].step # "none"
FitsUnlessLoading ==
  \/ \E l \in loads : IsLast(l)
  \/ keysTab.failed
  \/ \A k \in keysTab.keys : keyRow[k].scope = keysTab.scope \/ k \in early

PageInv ==
  /\ KeysTyped /\ PageTyped /\ LoadsOfPage /\ GotIsThere /\ ListedIsThere /\ FitsUnlessLoading

\* A key that is there stays, in its scope.
Kept ==
  \A k \in Keys : keyRow[k].step # "none" => keyRow'[k].step # "none" /\ keyRow'[k].scope = keyRow[k].scope

LEMMA NewKeyKept ==
  ASSUME KeysTyped, NEW k \in Keys, NEW scope \in Scopes, NEW grants \in SUBSET AnyGrant,
         NewKey(k, scope, grants)
  PROVE  KeysTyped' /\ Kept /\ keyRow'[k].step # "none"
  <1>1. PICK g \in AnyGrant :
          keyRow' = [keyRow EXCEPT ![k] =
            [step |-> "active", scope |-> scope, access |-> g.access, areas |-> g.areas]]
    BY DEF NewKey
  <1>2. [step |-> "active", scope |-> scope, access |-> g.access, areas |-> g.areas] \in KeyRec
    BY DEF KeyRec, AnyGrant
  <1>. QED
    BY <1>1, <1>2 DEF KeysTyped, Kept, NewKey

LEMMA GrantsTyped ==
  /\ Presets \subseteq AnyGrant
  /\ {Permissions(a, A) : a \in {"read", "write"}, A \in SUBSET Areas} \subseteq AnyGrant
  <1>1. \A a \in {"read", "write"}, A \in SUBSET Areas : Permissions(a, A) \in AnyGrant
    BY DEF Permissions, AnyGrant
  <1>. QED
    BY <1>1 DEF Presets

LEMMA ChangedKept ==
  ASSUME KeysTyped, NEW k \in Keys, NEW step \in {"revoked", "expired"}, keyRow[k].step # "none",
         keyRow' = [keyRow EXCEPT ![k].step = step]
  PROVE  KeysTyped' /\ Kept
  BY DEF KeysTyped, KeyRec, Kept

\* A step that only makes and changes keys.
LEMMA RestingPage ==
  ASSUME PageInv, KeysTyped', Kept, UNCHANGED <<keysTab, loads, early>>, creating' \subseteq Keys,
         \A k \in creating' \ creating : keyRow'[k].step # "none",
         entitled' \subseteq entitled, orders' \in orders .. MaxOrders
  PROVE  PageInv'
  <1>. USE DEF PageInv
  <1>1. PageTyped'
    BY DEF PageTyped, KeysTabRec
  <1>2. LoadsOfPage' /\ GotIsThere' /\ ListedIsThere'
    BY DEF LoadsOfPage, GotIsThere, ListedIsThere, Kept, PageTyped, LoadRec, KeysTabRec
  <1>3. FitsUnlessLoading'
    BY DEF FitsUnlessLoading, IsLast, ListedIsThere, Kept, PageTyped, KeysTabRec
  <1>. QED
    BY <1>1, <1>2, <1>3

LEMMA KeyStep ==
  ASSUME PageInv, NEW k \in Keys,
         CreateKey(k) \/ ToolCreateKey(k) \/ RevokeKey(k) \/ ToolRevokeKey(k) \/ Expire(k)
  PROVE  PageInv'
  <1>t. KeysTyped /\ PageTyped /\ keysTab.scope \in Scopes /\ "personal" \in Scopes /\ creating \subseteq Keys
    BY DEF PageInv, PageTyped, KeysTabRec, Scopes
  <1>o. Order => orders' \in orders .. MaxOrders
    BY <1>t, ToolServerAssumption DEF Order, PageTyped, ToolServerAssumption
  <1>1. CASE CreateKey(k)
    <2>1. KeysTyped' /\ Kept /\ keyRow'[k].step # "none"
      BY <1>1, <1>t, NewKeyKept, GrantsTyped DEF CreateKey
    <2>. QED
      BY <1>1, <1>t, <1>o, <2>1, RestingPage DEF CreateKey
  <1>2. CASE ToolCreateKey(k)
    <2>1. KeysTyped' /\ Kept
      BY <1>2, <1>t, NewKeyKept, GrantsTyped DEF ToolCreateKey
    <2>. QED
      BY <1>2, <1>t, <1>o, <2>1, RestingPage DEF ToolCreateKey, pageVars
  <1>3. CASE RevokeKey(k) \/ ToolRevokeKey(k) \/ Expire(k)
    <2>1. KeysTyped' /\ Kept
      BY <1>3, <1>t, ChangedKept DEF RevokeKey, ToolRevokeKey, Expire, RevokeRow
    <2>. QED
      BY <1>3, <1>t, <1>o, <2>1, RestingPage DEF RevokeKey, ToolRevokeKey, Expire, pageVars
  <1>. QED
    BY <1>1, <1>2, <1>3

LEMMA KeyCreatedStep ==
  ASSUME PageInv, NEW k \in Keys, KeyCreated(k)
  PROVE  PageInv'
  <1>. USE DEF PageInv
  <1>1. keysTab' \in KeysTabRec /\ keysTab'.keys = keysTab.keys \cup {k} /\ keysTab'.scope = keysTab.scope
        /\ keysTab'.last = keysTab.last /\ keysTab'.failed = keysTab.failed
    BY DEF KeyCreated, PageTyped, KeysTabRec
  <1>2. UNCHANGED <<keyRow, entitled, loads, orders>> /\ creating' = creating \ {k} /\ k \in creating
        /\ early' = IF keyRow[k].scope = keysTab.scope THEN early ELSE early \cup {k}
    BY DEF KeyCreated
  <1>3. KeysTyped' /\ PageTyped'
    BY <1>1, <1>2 DEF KeysTyped, PageTyped
  <1>4. LoadsOfPage' /\ GotIsThere' /\ ListedIsThere'
    BY <1>1, <1>2 DEF LoadsOfPage, GotIsThere, ListedIsThere
  <1>5. FitsUnlessLoading'
    BY <1>1, <1>2 DEF FitsUnlessLoading, IsLast
  <1>. QED
    BY <1>3, <1>4, <1>5

\* A row that goes is listed nowhere.
LEMMA DeleteKeyStep ==
  ASSUME PageInv, NEW k \in Keys, DeleteKey(k)
  PROVE  PageInv'
  <1>. USE DEF PageInv
  <1>1. keysTab' \in KeysTabRec /\ keysTab'.keys = keysTab.keys \ {k} /\ keysTab'.scope = keysTab.scope
        /\ keysTab'.last = keysTab.last /\ keysTab'.failed = keysTab.failed
    BY DEF DeleteKey, PageTyped, KeysTabRec
  <1>2. UNCHANGED entitled /\ creating' = creating \ {k} /\ early' = early \ {k}
        /\ loads' = {[l EXCEPT !.got = @ \ {k}] : l \in loads} /\ orders' \in orders .. MaxOrders
    BY ToolServerAssumption DEF DeleteKey, Order, PageTyped, ToolServerAssumption
  <1>3. KeysTyped' /\ \A x \in Keys \ {k} : keyRow'[x] = keyRow[x]
    <2>1. NoKeyRow \in KeyRec
      BY DEF NoKeyRow, KeyRec, Scopes
    <2>. QED
      BY <2>1 DEF DeleteKey, DeleteRow, KeysTyped
  <1>4. /\ \A l \in loads' : /\ l \in LoadRec
                             /\ \E m \in loads : /\ l.id = m.id /\ l.scope = m.scope
                                                 /\ l.got = m.got \ {k}
        /\ \A m \in loads : \E l \in loads' : l.id = m.id
    <2>1. \A m \in loads : LET l == [m EXCEPT !.got = @ \ {k}]
                           IN  l \in LoadRec /\ l.id = m.id /\ l.scope = m.scope /\ l.got = m.got \ {k}
      BY DEF PageTyped, LoadRec
    <2>2. ASSUME NEW l \in loads'
          PROVE  /\ l \in LoadRec
                 /\ \E m \in loads : l.id = m.id /\ l.scope = m.scope /\ l.got = m.got \ {k}
      <3>1. PICK m \in loads : l = [m EXCEPT !.got = @ \ {k}]
        BY <1>2
      <3>. QED
        BY <2>1, <3>1
    <2>3. ASSUME NEW m \in loads PROVE \E l \in loads' : l.id = m.id
      <3>1. PICK l : l = [m EXCEPT !.got = @ \ {k}]
        OBVIOUS
      <3>2. l \in loads'
        BY <1>2, <3>1
      <3>. QED
        BY <2>1, <3>1, <3>2
    <2>. QED
      BY <2>2, <2>3
  <1>5. PageTyped'
    BY <1>1, <1>2, <1>4 DEF PageTyped, KeysTabRec
  <1>6. LoadsOfPage'
    BY <1>1, <1>4 DEF LoadsOfPage
  <1>7. GotIsThere'
    <2>. SUFFICES ASSUME NEW l \in loads', NEW x \in l.got
                  PROVE  keyRow'[x].step # "none" /\ keyRow'[x].scope = l.scope
      BY DEF GotIsThere
    <2>1. PICK m \in loads : l.scope = m.scope /\ l.got = m.got \ {k}
      BY <1>4
    <2>2. x \in Keys \ {k} /\ x \in m.got
      BY <1>4, <2>1 DEF LoadRec
    <2>. QED
      BY <1>3, <2>1, <2>2 DEF GotIsThere
  <1>8. ListedIsThere'
    BY <1>1, <1>2, <1>3 DEF ListedIsThere, PageTyped, KeysTabRec
  <1>9. FitsUnlessLoading'
    <2>1. CASE \E l \in loads : IsLast(l)
      BY <1>1, <1>4, <2>1 DEF FitsUnlessLoading, IsLast
    <2>2. CASE ~\E l \in loads : IsLast(l)
      BY <1>1, <1>2, <1>3, <2>2 DEF FitsUnlessLoading, PageTyped, KeysTabRec
    <2>. QED
      BY <2>1, <2>2
  <1>. QED
    BY <1>3, <1>5, <1>6, <1>7, <1>8, <1>9

LEMMA LoadStep ==
  ASSUME PageInv, NEW scope \in Scopes, Load(scope), UNCHANGED <<keyRow, entitled, creating, early>>
  PROVE  PageInv'
  <1>. USE ToolServerAssumption DEF PageInv, ToolServerAssumption
  <1>. DEFINE new == [id |-> keysTab.last + 1, scope |-> scope, step |-> "asked", got |-> {}]
  <1>1. orders' = orders + 1 /\ orders' \in 0 .. MaxOrders
    BY DEF Load, Order, PageTyped
  <1>2. keysTab.last + 1 \in 1 .. MaxOrders /\ keysTab.last + 1 <= orders' /\ keysTab.last \in Nat
    BY <1>1 DEF PageTyped, KeysTabRec
  <1>3. keysTab' \in KeysTabRec /\ keysTab'.keys = keysTab.keys /\ keysTab'.scope = scope
        /\ keysTab'.last = keysTab.last + 1
    <2>1. PICK n \in 0 .. MaxOrders : n = keysTab.last + 1
      BY <1>2
    <2>2. keysTab \in KeysTabRec /\ keysTab' = [keysTab EXCEPT !.scope = scope, !.last = n]
      BY <2>1 DEF Load, PageTyped
    <2>. QED
      BY <2>1, <2>2 DEF KeysTabRec
  <1>4. new \in LoadRec /\ new.id = keysTab.last + 1 /\ new.scope = scope /\ new.got = {}
    BY <1>2 DEF LoadRec
  <1>5. loads' = loads \cup {new}
    BY DEF Load
  <1>. HIDE DEF new
  <1>6. KeysTyped' /\ PageTyped'
    BY <1>1, <1>2, <1>3, <1>4, <1>5 DEF KeysTyped, PageTyped
  <1>7. LoadsOfPage'
    BY <1>2, <1>3, <1>4, <1>5 DEF LoadsOfPage, PageTyped, LoadRec
  <1>8. GotIsThere' /\ ListedIsThere'
    BY <1>3, <1>4, <1>5 DEF GotIsThere, ListedIsThere
  <1>9. FitsUnlessLoading'
    BY <1>3, <1>4, <1>5 DEF FitsUnlessLoading, IsLast
  <1>. QED
    BY <1>6, <1>7, <1>8, <1>9

LEMMA AnswerStep ==
  ASSUME PageInv, NEW l \in loads, KeysRead(l) \/ KeysArrive(l) \/ LoadFails(l)
  PROVE  PageInv'
  <1>. USE DEF PageInv
  <1>t. l \in LoadRec /\ keysTab \in KeysTabRec /\ loads \subseteq LoadRec
    BY DEF PageTyped
  <1>1. CASE KeysRead(l)
    <2>1. PICK got \in {ListKeys(l.scope), {}} :
            loads' = (loads \ {l}) \cup {[l EXCEPT !.step = "back", !.got = got]}
      BY <1>1 DEF KeysRead
    <2>. DEFINE m == [l EXCEPT !.step = "back", !.got = got]
    <2>2. got \subseteq Keys /\ \A k \in got : keyRow[k].step # "none" /\ keyRow[k].scope = l.scope
      BY <2>1 DEF ListKeys
    <2>3. m \in LoadRec /\ m.id = l.id /\ m.scope = l.scope /\ m.got = got
      BY <1>t, <2>2 DEF LoadRec
    <2>. HIDE DEF m
    <2>4. UNCHANGED <<keyRow, entitled, keysTab, creating, early, orders>> /\ loads' = (loads \ {l}) \cup {m}
      BY <1>1, <2>1 DEF KeysRead, m
    <2>5. KeysTyped' /\ PageTyped'
      BY <1>t, <2>3, <2>4 DEF KeysTyped, PageTyped
    <2>6. LoadsOfPage' /\ GotIsThere' /\ ListedIsThere' /\ FitsUnlessLoading'
      BY <2>2, <2>3, <2>4 DEF LoadsOfPage, GotIsThere, ListedIsThere, FitsUnlessLoading, IsLast
    <2>. QED
      BY <2>5, <2>6
  <1>2. CASE KeysArrive(l)
    <2>1. UNCHANGED <<keyRow, entitled, creating, orders>> /\ loads' = loads \ {l}
      BY <1>2 DEF KeysArrive
    <2>2. CASE IsLast(l)
      <3>1. /\ keysTab' \in KeysTabRec /\ keysTab'.keys = l.got /\ keysTab'.scope = keysTab.scope
            /\ keysTab'.last = keysTab.last /\ early' = early \ l.got
        BY <1>2, <1>t, <2>2 DEF KeysArrive, KeysTabRec, LoadRec
      <3>2. KeysTyped' /\ PageTyped' /\ LoadsOfPage' /\ GotIsThere' /\ ListedIsThere'
        BY <1>t, <2>1, <3>1 DEF KeysTyped, PageTyped, LoadsOfPage, GotIsThere, ListedIsThere
      <3>3. FitsUnlessLoading'
        BY <2>1, <2>2, <3>1 DEF FitsUnlessLoading, IsLast, GotIsThere, LoadsOfPage
      <3>. QED
        BY <3>2, <3>3
    <2>3. CASE ~IsLast(l)
      <3>1. UNCHANGED <<keysTab, early>>
        BY <1>2, <2>3 DEF KeysArrive
      <3>. QED
        BY <2>1, <2>3, <3>1 DEF KeysTyped, PageTyped, LoadsOfPage, GotIsThere, ListedIsThere,
           FitsUnlessLoading, IsLast
    <2>. QED
      BY <2>2, <2>3
  <1>3. CASE LoadFails(l)
    <2>1. UNCHANGED <<keyRow, entitled, creating, early>> /\ loads' = loads \ {l}
          /\ orders' \in 0 .. MaxOrders /\ orders <= orders'
      BY <1>3, ToolServerAssumption DEF LoadFails, Order, PageTyped, ToolServerAssumption
    <2>2. /\ keysTab' \in KeysTabRec /\ keysTab'.keys = keysTab.keys /\ keysTab'.scope = keysTab.scope
          /\ keysTab'.last = keysTab.last
          /\ keysTab'.failed = (IF IsLast(l) THEN TRUE ELSE keysTab.failed)
      BY <1>3, <1>t DEF LoadFails, KeysTabRec
    <2>3. KeysTyped' /\ LoadsOfPage' /\ GotIsThere' /\ ListedIsThere'
      BY <2>1, <2>2 DEF KeysTyped, LoadsOfPage, GotIsThere, ListedIsThere
    <2>4. PageTyped'
      BY <1>t, <2>1, <2>2 DEF PageTyped, KeysTabRec
    <2>5. FitsUnlessLoading'
      BY <2>1, <2>2 DEF FitsUnlessLoading, IsLast
    <2>. QED
      BY <2>3, <2>4, <2>5
  <1>. QED
    BY <1>1, <1>2, <1>3

LEMMA PageStep ==
  ASSUME PageInv, [ToolsNext]_toolVars
  PROVE  PageInv'
  <1>t. KeysTyped /\ PageTyped /\ creating \subseteq Keys /\ orders \in orders .. MaxOrders
    BY ToolServerAssumption DEF PageInv, PageTyped, ToolServerAssumption
  <1>r. ASSUME UNCHANGED <<keyRow, keysTab, loads, creating, early, orders>>, entitled' \subseteq entitled
        PROVE  PageInv'
    BY <1>r, <1>t, RestingPage DEF KeysTyped, Kept
  <1>o. Order => orders' \in orders .. MaxOrders
    BY <1>t, ToolServerAssumption DEF Order, PageTyped, ToolServerAssumption
  <1>1. CASE UNCHANGED toolVars
    BY <1>1, <1>r DEF toolVars, pageVars
  <1>2. ASSUME NEW k \in Keys,
               \/ CreateKey(k) \/ KeyCreated(k) \/ ToolCreateKey(k) \/ RevokeKey(k)
               \/ ToolRevokeKey(k) \/ DeleteKey(k) \/ Expire(k)
        PROVE  PageInv'
    BY <1>2, KeyStep, KeyCreatedStep, DeleteKeyStep
  <1>3. ASSUME NEW x \in {"member", "premium"}, Lose(x)
        PROVE  PageInv'
    BY <1>3, <1>t, <1>o, RestingPage DEF Lose, pageVars, KeysTyped, Kept
  <1>4. CASE Refresh
    BY <1>4, LoadStep DEF Refresh, PageInv, PageTyped, KeysTabRec
  <1>5. CASE SwitchTab
    BY <1>5, LoadStep DEF SwitchTab
  <1>6. ASSUME NEW l \in loads, KeysRead(l) \/ KeysArrive(l) \/ LoadFails(l)
        PROVE  PageInv'
    BY <1>6, AnswerStep
  <1>7. ASSUME NEW r \in ToolCalls, SendCall(r)
        PROVE  PageInv'
    BY <1>7, <1>t, <1>o, RestingPage DEF SendCall, pageVars, KeysTyped, Kept
  <1>8. ASSUME NEW r \in ToolCalls,
               \/ AuthenticateCall(r) \/ Respond(r) \/ TimeOut(r) \/ RunOut(r)
               \/ \E t \in Tasks : CallTool(r, t)
        PROVE  PageInv'
    BY <1>8, <1>r DEF AuthenticateCall, Respond, TimeOut, RunOut, CallTool, pageVars
  <1>. QED
    BY <1>1, <1>2, <1>3, <1>4, <1>5, <1>6, <1>7, <1>8 DEF ToolsNext

LEMMA PageInit == ToolsInit => PageInv
  <1>1. NoKeyRow \in KeyRec
    BY DEF NoKeyRow, KeyRec, Scopes
  <1>2. 0 \in 0 .. MaxOrders
    BY ToolServerAssumption DEF ToolServerAssumption
  <1>. QED
    BY <1>1, <1>2 DEF ToolsInit, PageInv, KeysTyped, PageTyped, KeysTabRec, LoadsOfPage, GotIsThere,
       ListedIsThere, FitsUnlessLoading, Scopes

LEMMA ToolsAlways == ToolsSpec => [](PageInv /\ BatchInv)
  <1>1. ToolsInit => PageInv /\ BatchInv
    BY PageInit, CallsInit
  <1>2. PageInv /\ BatchInv /\ [ToolsNext]_toolVars => PageInv' /\ BatchInv'
    BY PageStep, BatchStep DEF PageInv
  <1>. QED
    BY <1>1, <1>2, PTL DEF ToolsSpec

LEMMA ToolsTyped == PageInv /\ BatchInv => ToolsTypeOK
  <1>. SUFFICES ASSUME PageInv, BatchInv PROVE ToolsTypeOK
    OBVIOUS
  <1>1. \A r \in ToolCalls : /\ toolCall[r] \in ToolCallRec
                             /\ DOMAIN toolCall[r].result \subseteq Tasks
                             /\ \A t \in DOMAIN toolCall[r].result : toolCall[r].result[t] \in Results
    BY AnswersHold DEF BatchInv, CallsTyped, ToolCallRec
  <1>2. \A r \in ToolCalls : /\ toolCall[r].step \in {"idle", "sent", "running", "abandoned"}
                             /\ toolCall[r].key \in Keys \cup {SessionOnly}
                             /\ toolCall[r].grant \in AnyGrant
    BY <1>1 DEF ToolCallRec
  <1>3. \A l \in loads : /\ l.id \in 1 .. MaxOrders /\ l.scope \in Scopes
                         /\ l.step \in {"asked", "back"} /\ l.got \subseteq Keys
    BY DEF PageInv, PageTyped, LoadRec
  <1>. QED
    BY <1>1, <1>2, <1>3 DEF PageInv, BatchInv, PageTyped, KeysTyped, CallsTyped, KeyRec, KindRec,
       KeysTabRec, ToolsTypeOK

\* Every variable of the tool server and of the page keeps its type, for any keys, tasks,
\* requests and orders.
THEOREM ToolsTypeCorrect == ToolsSpec => []ToolsTypeOK
  BY ToolsTyped, ToolsAlways, PTL

\* However many requests with batches of tools are under way, and however they time out and
\* are repeated: a task is applied twice only if a request with it timed out and ran on; and
\* the page of the keys lists what belongs to the selected scope whenever nothing is loading
\* and the last load has not failed (MCPRequestHandler.callTool, withTimeout; loadData and
\* handleCreated of the page).
THEOREM ToolServerSoundCorrect == ToolsSpec => []ToolServerSound
  <1>1. PageInv /\ BatchInv => ToolServerSound
    <2>. SUFFICES ASSUME PageInv, BatchInv PROVE ToolServerSound
      OBVIOUS
    <2>1. AppliedTwiceOnlyAfterTimeout
      BY DEF BatchInv, OncePerTask, AppliedTwiceOnlyAfterTimeout
    <2>2. ListFitsScope
      BY DEF PageInv, FitsUnlessLoading, ListFitsScope
    <2>. QED
      BY <2>1, <2>2 DEF ToolServerSound
  <1>. QED
    BY <1>1, ToolsAlways, PTL

(***************************************************************************)
(* ContactBook: what a request has read of an address is still so, or the  *)
(* request is marked as crossed; and what a page shows is in the scope it  *)
(* was loaded in.                                                          *)
(***************************************************************************)
SaveRec ==
  [step : {"idle", "look", "write"}, via : {"create", "import", "tool"}, user : Owners \cup {NoOwner},
   at : {"own", "work"}, rows : SUBSET Mailboxes, row : Mailboxes \cup {NoMailbox},
   found : Owners \cup {NoOwner}, gone : BOOLEAN, crossed : BOOLEAN]

\* A request at work has a user; about to write, it has a row.
Asked(s) == (s.step # "idle" => s.user \in Owners) /\ (s.step = "write" => s.row \in Mailboxes)

\* The row that was found is in the book b as long as it is not gone.
FoundIsThere(s, b) ==
  s.step = "write" /\ s.found # NoOwner /\ ~s.gone =>
    b[s.found][s.row] # "none" /\ (s.at = "work" => b[s.found][s.row] = "work")

\* An address that was not found is free, but for those the look-up does not see.
UnfoundIsFree(s, b) ==
  s.step = "write" /\ s.found = NoOwner /\ ~s.crossed =>
    IF s.at = "work" THEN \A v \in Owners : b[v][s.row] # "work" ELSE b[s.user][s.row] = "none"

\* What a request may rely on.
Relies(s, b) == Asked(s) /\ FoundIsThere(s, b) /\ UnfoundIsFree(s, b) /\ (s.gone => s.crossed)

SavesRely == \A r \in Saves : Relies(save[r], book)

\* What a page shows is in the scope it was loaded in.
ShownInScope ==
  \A u \in Owners : \A c \in view[u].shown :
    IF view[u].at = "work" THEN book[c[1]][c[2]] = "work" ELSE c[1] = u

BookInv == BookTypeOK /\ SavesRely /\ ShownInScope /\ BookSound

LEMMA IdleRelies == NoSave \in SaveRec /\ \A b : Relies(NoSave, b)
  BY DEF NoSave, SaveRec, Relies, Asked, FoundIsThere, UnfoundIsFree

LEMMA BookStarts == BookInit => BookInv
  <1>. SUFFICES ASSUME BookInit PROVE BookInv
    OBVIOUS
  <1>1. BookTypeOK
    <2>1. save \in [Saves -> SaveRec]
      BY IdleRelies DEF BookInit
    <2>2. requests \in 0..MaxRequests
      BY BookAssumption DEF BookInit, BookAssumption
    <2>3. view \in [Owners -> [at : {"own", "work"}, shown : SUBSET People]]
      BY DEF BookInit
    <2>. QED
      BY <2>1, <2>2, <2>3 DEF BookInit, BookTypeOK, SaveRec, Levels
  <1>2. SavesRely
    BY IdleRelies DEF BookInit, SavesRely
  <1>3. ShownInScope /\ BookSound
    BY DEF BookInit, ShownInScope, BookSound, RefusedOnlyIfTaken, StrangersOnlyByStalePage
  <1>. QED
    BY <1>1, <1>2, <1>3 DEF BookInv

(***************************************************************************)
(* The requests.  One changes, and so may the book: what the others rely   *)
(* on must stay.                                                           *)
(***************************************************************************)
SavedAs(r, s) == save' = [save EXCEPT ![r] = s] /\ book' = book

\* If one request moves on and the book stays, only the one counts.
LEMMA OneMoves ==
  ASSUME BookInv, NEW r \in Saves, NEW s \in SaveRec, Relies(s, book), SavedAs(r, s)
  PROVE  save' \in [Saves -> SaveRec] /\ SavesRely'
  <1>1. save \in [Saves -> SaveRec]
    BY DEF BookInv, BookTypeOK, SaveRec
  <1>2. \A q \in Saves : save'[q] = IF q = r THEN s ELSE save[q]
    BY <1>1 DEF SavedAs
  <1>. QED
    BY <1>1, <1>2 DEF SavesRely, BookInv, SavedAs

\* A request that begins relies on nothing.
LEMMA BeginRelies ==
  ASSUME BookInv, NEW r \in Saves, NEW via \in {"create", "import", "tool"}, NEW u \in Owners,
         NEW rows \in SUBSET Mailboxes, Begin(r, via, u, rows), book' = book
  PROVE  save' \in [Saves -> SaveRec] /\ SavesRely' /\ requests' \in 0..MaxRequests
  <1>. DEFINE s == [NoSave EXCEPT !.step = "look", !.via = via, !.user = u, !.at = Scope(u), !.rows = rows]
  <1>1. s \in SaveRec /\ Relies(s, book)
    BY DEF NoSave, SaveRec, Relies, Asked, FoundIsThere, UnfoundIsFree, Scope
  <1>2. SavedAs(r, s)
    BY DEF Begin, SavedAs
  <1>3. save' \in [Saves -> SaveRec] /\ SavesRely'
    <2>. HIDE DEF s
    <2>. QED
      BY <1>1, <1>2, OneMoves
  <1>4. requests' \in 0..MaxRequests
    BY BookAssumption DEF BookAssumption, BookInv, BookTypeOK, Begin, Request
  <1>. QED
    BY <1>3, <1>4

\* A request is done with its row.
LEMMA DoneRelies ==
  ASSUME BookInv, NEW r \in Saves
  PROVE  Done(r) \in SaveRec /\ (save[r].step = "write" => \A b : Relies(Done(r), b))
  <1>. DEFINE s == [save[r] EXCEPT !.step = "look", !.row = NoMailbox, !.found = NoOwner]
  <1>1. save[r] \in SaveRec /\ Relies(save[r], book)
    BY DEF BookInv, BookTypeOK, SaveRec, SavesRely
  <1>2. s \in SaveRec
    BY <1>1 DEF SaveRec
  <1>3. s.step = "look" /\ s.user = save[r].user /\ s.gone = save[r].gone /\ s.crossed = save[r].crossed
    BY <1>1 DEF SaveRec
  <1>4. Done(r) = IF save[r].rows = {} THEN NoSave ELSE s
    BY DEF Done
  <1>5. save[r].step = "write" => \A b : Relies(s, b)
    <2>. HIDE DEF s
    <2>. QED
      BY <1>1, <1>3 DEF Relies, Asked, FoundIsThere, UnfoundIsFree
  <1>. HIDE DEF s
  <1>. QED
    BY <1>2, <1>4, <1>5, IdleRelies

\* A look-up reads what it will rely on.
LEMMA LookUpRelies ==
  ASSUME BookInv, NEW r \in Saves, LookUp(r)
  PROVE  save' \in [Saves -> SaveRec] /\ SavesRely'
  <1>1. PICK e \in save[r].rows, v \in Owners \cup {NoOwner} :
          /\ v \in FindContact(r, e) \/ (v = NoOwner /\ FindContact(r, e) = {})
          /\ save' = [save EXCEPT ![r].step = "write", ![r].row = e, ![r].found = v,
                                  ![r].rows = @ \ {e}, ![r].gone = FALSE, ![r].crossed = FALSE]
    BY DEF LookUp
  <1>2. save[r] \in SaveRec /\ Asked(save[r]) /\ save[r].step = "look" /\ book' = book
    BY DEF BookInv, BookTypeOK, SaveRec, SavesRely, Relies, LookUp
  <1>. DEFINE s == [save[r] EXCEPT !.step = "write", !.row = e, !.found = v, !.rows = @ \ {e},
                                   !.gone = FALSE, !.crossed = FALSE]
  <1>3. SavedAs(r, s)
    <2>1. save \in [Saves -> SaveRec]
      BY DEF BookInv, BookTypeOK, SaveRec
    <2>. QED
      BY <1>1, <1>2, <2>1 DEF SavedAs, SaveRec
  <1>4. s \in SaveRec
    BY <1>1, <1>2 DEF SaveRec
  <1>5. /\ s.user = save[r].user /\ s.at = save[r].at /\ s.row = e /\ s.found = v
        /\ s.step = "write" /\ ~s.gone /\ ~s.crossed /\ e \in Mailboxes
    BY <1>1, <1>2 DEF SaveRec
  <1>6. Relies(s, book)
    <2>. HIDE DEF s
    <2>1. CASE v \in FindContact(r, e)
      <3>1. v # NoOwner
        BY <2>1, BookAssumption DEF FindContact, BookAssumption
      <3>. QED
        BY <2>1, <3>1, <1>2, <1>5 DEF FindContact, Relies, Asked, FoundIsThere, UnfoundIsFree
    <2>2. CASE v = NoOwner /\ FindContact(r, e) = {}
      <3>1. IF s.at = "work" THEN \A w \in Owners : book[w][e] # "work" ELSE book[s.user][e] = "none"
        BY <2>2, <1>2, <1>5 DEF FindContact, Asked
      <3>. QED
        BY <2>2, <3>1, <1>2, <1>5 DEF Relies, Asked, FoundIsThere, UnfoundIsFree
    <2>. QED
      BY <1>1, <2>1, <2>2
  <1>. HIDE DEF s
  <1>. QED
    BY <1>3, <1>4, <1>6, OneMoves

\* A request that is done with its row, while the book stays.
LEMMA DoneKept ==
  ASSUME BookInv, NEW r \in Saves, save[r].step = "write", save' = [save EXCEPT ![r] = Done(r)],
         book' = book
  PROVE  save' \in [Saves -> SaveRec] /\ SavesRely'
  BY DoneRelies, OneMoves DEF SavedAs

\* An update finds the row as it was read: the book stays as it is.
LEMMA UpdateProspectKept ==
  ASSUME BookInv, NEW r \in Saves, UpdateProspect(r)
  PROVE  save' \in [Saves -> SaveRec] /\ SavesRely' /\ book' = book
  <1>. DEFINE e == save[r].row v == save[r].found
  <1>1. /\ save[r].step = "write" /\ v # NoOwner /\ ~save[r].gone
        /\ book' = [book EXCEPT ![v][e] = IF save[r].at = "work" THEN "work" ELSE @]
        /\ save' = [save EXCEPT ![r] = Done(r)]
    BY DEF UpdateProspect
  <1>2. v \in Owners /\ e \in Mailboxes /\ (save[r].at = "work" => book[v][e] = "work")
    <2>1. save[r] \in SaveRec /\ Relies(save[r], book)
      BY DEF BookInv, BookTypeOK, SaveRec, SavesRely
    <2>. QED
      BY <2>1, <1>1 DEF SaveRec, Relies, Asked, FoundIsThere
  <1>3. book' = book
    <2>1. book \in [Owners -> [Mailboxes -> Levels]]
      BY DEF BookInv, BookTypeOK
    <2>. DEFINE level == IF save[r].at = "work" THEN "work" ELSE book[v][e]
    <2>2. level = book[v][e]
      BY <1>2
    <2>3. book' = [book EXCEPT ![v] = [book[v] EXCEPT ![e] = level]]
      BY <1>1, <1>2, <2>1
    <2>. HIDE DEF level
    <2>4. [book[v] EXCEPT ![e] = level] = book[v]
      BY <2>1, <2>2, <1>2
    <2>. QED
      BY <2>1, <2>3, <2>4
  <1>. QED
    BY <1>1, <1>3, DoneKept

\* Rows of the workspace stay what they are when one is created.
BookGrows ==
  \A v \in Owners, e \in Mailboxes : book[v][e] = "work" => book'[v][e] = "work"

LEMMA CreateKept ==
  ASSUME BookInv, NEW r \in Saves, Create(r)
  PROVE  /\ save' \in [Saves -> SaveRec] /\ SavesRely'
         /\ book' \in [Owners -> [Mailboxes -> Levels]] /\ BookGrows
  <1>. DEFINE e == save[r].row u == save[r].user
  <1>1. /\ save[r].step = "write" /\ ~Taken(r) /\ save' = [Crossed(e) EXCEPT ![r] = Done(r)]
        /\ book' = [book EXCEPT ![u][e] = save[r].at]
    BY DEF Create
  <1>2. save \in [Saves -> SaveRec] /\ book \in [Owners -> [Mailboxes -> Levels]]
    BY DEF BookInv, BookTypeOK, SaveRec
  <1>3. u \in Owners /\ e \in Mailboxes /\ save[r].at \in Levels
    BY <1>1, <1>2 DEF BookInv, SavesRely, Relies, Asked, SaveRec, Levels
  <1>4. book[u][e] = "none"
    BY <1>1 DEF Taken
  <1>5. book' \in [Owners -> [Mailboxes -> Levels]]
    BY <1>1, <1>2, <1>3
  <1>6. \A v \in Owners, m \in Mailboxes : ~(v = u /\ m = e) => book'[v][m] = book[v][m]
    BY <1>1, <1>2, <1>3
  <1>7. \A q \in Saves : save'[q] = IF q = r THEN Done(r)
                                    ELSE IF save[q].row = e THEN [save[q] EXCEPT !.crossed = TRUE]
                                    ELSE save[q]
    BY <1>1 DEF Crossed
  <1>8. \A q \in Saves : save'[q] \in SaveRec /\ Relies(save'[q], book')
    <2>. SUFFICES ASSUME NEW q \in Saves PROVE save'[q] \in SaveRec /\ Relies(save'[q], book')
      OBVIOUS
    <2>1. CASE q = r
      BY <2>1, <1>1, <1>7, DoneRelies
    <2>2. CASE q # r /\ save[q].row = e
      <3>0. PICK x \in SaveRec : x = save[q]
        BY <1>2
      <3>1. PICK s : s = [x EXCEPT !.crossed = TRUE]
        OBVIOUS
      <3>2. /\ s \in SaveRec /\ s.step = x.step /\ s.user = x.user /\ s.row = x.row
            /\ s.found = x.found /\ s.gone = x.gone /\ s.at = x.at /\ s.crossed
        BY <3>1 DEF SaveRec
      <3>3. Relies(x, book) /\ x.found \in Owners \cup {NoOwner} /\ x.row = e
        BY <2>2, <3>0 DEF BookInv, SavesRely, SaveRec
      <3>4. save'[q] = s
        BY <1>7, <2>2, <3>0, <3>1
      <3>. QED
        BY <3>2, <3>3, <3>4, <1>3, <1>4, <1>6 DEF Relies, Asked, FoundIsThere, UnfoundIsFree
    <2>3. CASE q # r /\ save[q].row # e
      <3>1. Relies(save[q], book) /\ save[q].found \in Owners \cup {NoOwner} /\ save'[q] = save[q]
        BY <1>2, <1>7, <2>3 DEF BookInv, SavesRely, SaveRec
      <3>2. save[q].row \in Mailboxes => \A v \in Owners : book'[v][save[q].row] = book[v][save[q].row]
        BY <1>6, <2>3
      <3>. QED
        BY <3>1, <3>2, <1>2 DEF Relies, Asked, FoundIsThere, UnfoundIsFree
    <2>. QED
      BY <2>1, <2>2, <2>3
  <1>9. save' \in [Saves -> SaveRec]
    <2>1. save' = [q \in Saves |-> save'[q]]
      BY <1>1 DEF Crossed
    <2>. QED
      BY <2>1, <1>8
  <1>10. BookGrows
    BY <1>4, <1>6 DEF BookGrows
  <1>. QED
    BY <1>5, <1>8, <1>9, <1>10 DEF SavesRely

\* Whoever has a deleted row in hand, or was about to make one, is marked.
LEMMA ForgetKept ==
  ASSUME BookInv, NEW C \in SUBSET People, Forget(C)
  PROVE  /\ save' \in [Saves -> SaveRec] /\ SavesRely'
         /\ book' \in [Owners -> [Mailboxes -> Levels]]
         /\ \A c \in People : book'[c[1]][c[2]] = IF c \in C THEN "none" ELSE book[c[1]][c[2]]
  <1>1. save \in [Saves -> SaveRec] /\ book \in [Owners -> [Mailboxes -> Levels]]
    BY DEF BookInv, BookTypeOK, SaveRec
  <1>2. book' = [u \in Owners |-> [e \in Mailboxes |-> IF <<u, e>> \in C THEN "none" ELSE book[u][e]]]
    BY DEF Forget
  <1>3. book' \in [Owners -> [Mailboxes -> Levels]]
    BY <1>1, <1>2 DEF Levels
  <1>4. \A q \in Saves : save'[q] \in SaveRec /\ Relies(save'[q], book')
    <2>. SUFFICES ASSUME NEW q \in Saves PROVE save'[q] \in SaveRec /\ Relies(save'[q], book')
      OBVIOUS
    <2>. DEFINE lost == <<save[q].found, save[q].row>> \in C
                other == \E c \in C : c[2] = save[q].row
                s == [save[q] EXCEPT !.gone = @ \/ lost, !.crossed = @ \/ other]
    <2>1. save'[q] = s
      BY DEF Forget
    <2>2. save[q] \in SaveRec /\ Relies(save[q], book)
      BY <1>1 DEF BookInv, SavesRely
    <2>3. s \in SaveRec
      <3>. HIDE DEF lost, other
      <3>1. (save[q].gone \/ lost) \in BOOLEAN /\ (save[q].crossed \/ other) \in BOOLEAN
        OBVIOUS
      <3>. QED
        BY <2>2, <3>1 DEF SaveRec
    <2>4. /\ s.step = save[q].step /\ s.user = save[q].user /\ s.row = save[q].row
          /\ s.found = save[q].found /\ s.at = save[q].at
          /\ s.gone = (save[q].gone \/ lost) /\ s.crossed = (save[q].crossed \/ other)
      <3>. HIDE DEF lost, other
      <3>. QED
        BY <2>2 DEF SaveRec
    <2>5. lost => other
      OBVIOUS
    <2>. HIDE DEF s
    <2>6. Asked(s) /\ (s.gone => s.crossed)
      BY <2>2, <2>4, <2>5 DEF Relies, Asked
    <2>7. FoundIsThere(s, book')
      BY <2>2, <2>4, <2>6, <1>2 DEF Relies, Asked, FoundIsThere, SaveRec
    <2>8. UnfoundIsFree(s, book')
      BY <2>2, <2>4, <2>6, <1>2 DEF Relies, Asked, UnfoundIsFree, SaveRec
    <2>. QED
      BY <2>1, <2>3, <2>6, <2>7, <2>8 DEF Relies
  <1>5. save' \in [Saves -> SaveRec]
    <2>1. save' = [q \in Saves |-> save'[q]]
      BY DEF Forget
    <2>. QED
      BY <2>1, <1>4
  <1>6. \A c \in People : book'[c[1]][c[2]] = IF c \in C THEN "none" ELSE book[c[1]][c[2]]
    BY <1>2 DEF People
  <1>. QED
    BY <1>3, <1>4, <1>5, <1>6 DEF SavesRely

\* What is refused has been taken, or the request was crossed.
LEMMA RefuseKept ==
  ASSUME BookInv, NEW r \in Saves, RefuseRow(r)
  PROVE  /\ save' \in [Saves -> SaveRec] /\ SavesRely'
         /\ refused' \subseteq [at : {"own", "work"}, held : Levels, crossed : BOOLEAN]
         /\ RefusedOnlyIfTaken'
  <1>. DEFINE e == save[r].row v == save[r].found u == save[r].user
              x == [at |-> save[r].at, held |-> book[u][e], crossed |-> save[r].crossed]
  <1>1. /\ save[r].step = "write" /\ save' = [save EXCEPT ![r] = Done(r)] /\ book' = book
        /\ IF v = NoOwner THEN Taken(r) ELSE save[r].gone \/ save[r].via = "tool"
        /\ refused' = IF v # NoOwner /\ save[r].via = "tool" THEN refused ELSE refused \cup {x}
    BY DEF RefuseRow
  <1>2. save[r] \in SaveRec /\ Relies(save[r], book) /\ book \in [Owners -> [Mailboxes -> Levels]]
    BY DEF BookInv, BookTypeOK, SaveRec, SavesRely
  <1>3. u \in Owners /\ e \in Mailboxes
    BY <1>1, <1>2 DEF Relies, Asked
  <1>4. x \in [at : {"own", "work"}, held : Levels, crossed : BOOLEAN]
    BY <1>2, <1>3 DEF SaveRec
  <1>5. ASSUME refused' # refused PROVE save[r].crossed \/ (save[r].at = "work" /\ book[u][e] = "own")
    <2>1. CASE v # NoOwner
      BY <1>1, <1>2, <1>5, <2>1 DEF Relies
    <2>2. CASE v = NoOwner /\ ~save[r].crossed
      <3>1. IF save[r].at = "work" THEN \A w \in Owners : book[w][e] # "work" ELSE book[u][e] = "none"
        BY <1>1, <1>2, <2>2 DEF Relies, UnfoundIsFree
      <3>2. book[u][e] # "none" \/ (save[r].at = "work" /\ \E w \in Owners : book[w][e] = "work")
        BY <1>1, <2>2 DEF Taken
      <3>3. book[u][e] \in {"none", "own", "work"}
        BY <1>2, <1>3 DEF Levels
      <3>. QED
        BY <3>1, <3>2, <3>3, <1>3
    <2>. QED
      BY <2>1, <2>2
  <1>6. refused \subseteq [at : {"own", "work"}, held : Levels, crossed : BOOLEAN] /\ RefusedOnlyIfTaken
    BY DEF BookInv, BookTypeOK, BookSound
  <1>7. RefusedOnlyIfTaken'
    BY <1>1, <1>5, <1>6 DEF RefusedOnlyIfTaken
  <1>. QED
    BY <1>1, <1>4, <1>6, <1>7, DoneKept

(***************************************************************************)
(* Pages and lists.                                                        *)
(***************************************************************************)
Pages == [Owners -> [at : {"own", "work"}, shown : SUBSET People]]
ListsTyped ==
  /\ shelf \in [Owners -> [Names -> Levels]] /\ shelved \in [Owners -> [Names -> SUBSET People]]
  /\ strays \subseteq (Owners \X Names) \X People

\* A contact that may be in a list: of the workspace in one of the workspace, or its owner's.
Belongs(l, c) == (shelf[l[1]][l[2]] = "work" /\ book[c[1]][c[2]] = "work") \/ c[1] = l[1]

\* What is visible belongs into a list of the scope.
LEMMA VisibleBelongs ==
  ASSUME NEW u \in Owners, NEW at \in {"own", "work"}, NEW l \in Shelves(u, at), NEW c \in Visible(u, at)
  PROVE  Belongs(l, c)
  BY DEF Shelves, Visible, InScope, Belongs

\* So does what is shown on a page of the same scope, and on any page what is still visible.
LEMMA ShownBelongs ==
  ASSUME BookInv, NEW u \in Owners, NEW l \in Shelves(u, Scope(u)), NEW c \in view[u].shown,
         view[u].at = Scope(u) \/ c \in Visible(u, Scope(u))
  PROVE  Belongs(l, c)
  <1>1. Scope(u) \in {"own", "work"}
    BY DEF Scope
  <1>2. CASE c \in Visible(u, Scope(u))
    BY <1>1, <1>2, VisibleBelongs
  <1>3. CASE view[u].at = Scope(u)
    <2>1. IF view[u].at = "work" THEN book[c[1]][c[2]] = "work" ELSE c[1] = u
      BY DEF BookInv, ShownInScope
    <2>. QED
      BY <1>1, <1>3, <2>1 DEF Belongs, Shelves, InScope
  <1>. QED
    BY <1>2, <1>3

\* A page that stays shows what it showed, while no row of the workspace goes.
LEMMA PagesStay ==
  ASSUME ShownInScope, view' = view, view \in Pages, BookGrows
  PROVE  ShownInScope'
  <1>. SUFFICES ASSUME NEW u \in Owners, NEW c \in view[u].shown
                PROVE  IF view[u].at = "work" THEN book'[c[1]][c[2]] = "work" ELSE c[1] = u
    BY DEF ShownInScope
  <1>1. c[1] \in Owners /\ c[2] \in Mailboxes
    BY DEF Pages, People
  <1>. QED
    BY <1>1 DEF ShownInScope, BookGrows

\* Neither do lists that stay get strangers by it.
LEMMA ListsStay ==
  ASSUME StrangersOnlyByStalePage, ListsTyped, shelf' = shelf, shelved' = shelved, strays' = strays,
         BookGrows
  PROVE  StrangersOnlyByStalePage'
  <1>. SUFFICES ASSUME NEW u \in Owners, NEW n \in Names, NEW c \in shelved[u][n]
                PROVE  \/ shelf[u][n] = "work" /\ book'[c[1]][c[2]] = "work"
                       \/ c[1] = u
                       \/ <<<<u, n>>, c>> \in strays
    BY DEF StrangersOnlyByStalePage
  <1>1. c[1] \in Owners /\ c[2] \in Mailboxes
    BY DEF ListsTyped, People
  <1>. QED
    BY <1>1 DEF StrangersOnlyByStalePage, BookGrows

LEMMA LoadKept ==
  ASSUME BookInv, NEW u \in Owners, LoadContacts(u)
  PROVE  view' \in Pages /\ ShownInScope'
  <1>. DEFINE at == Scope(u) shown == Visible(u, at) p == [at |-> at, shown |-> shown]
  <1>1. view \in Pages /\ view' = [view EXCEPT ![u] = p] /\ book' = book
    BY DEF BookInv, BookTypeOK, Pages, LoadContacts
  <1>2. p \in [at : {"own", "work"}, shown : SUBSET People]
    BY DEF Visible, Scope
  <1>3. \A c \in shown : IF at = "work" THEN book[c[1]][c[2]] = "work" ELSE c[1] = u
    BY DEF Visible, InScope, Scope
  <1>. HIDE DEF at, shown
  <1>. QED
    BY <1>1, <1>2, <1>3 DEF Pages, ShownInScope, BookInv

\* What is deleted goes from the pages and the lists.
LEMMA ForgetRest ==
  ASSUME BookInv, NEW C \in SUBSET People, Forget(C), shelf' = shelf
  PROVE  view' \in Pages /\ ShownInScope' /\ ListsTyped' /\ StrangersOnlyByStalePage'
  <1>1. view \in Pages /\ ListsTyped
    BY DEF BookInv, BookTypeOK, Pages, ListsTyped
  <1>2. \A c \in People : book'[c[1]][c[2]] = IF c \in C THEN "none" ELSE book[c[1]][c[2]]
    BY ForgetKept
  <1>3. view' = [u \in Owners |-> [view[u] EXCEPT !.shown = @ \ C]]
    BY DEF Forget
  <1>4. \A u \in Owners : /\ view'[u] \in [at : {"own", "work"}, shown : SUBSET People]
                          /\ view'[u].at = view[u].at /\ view'[u].shown = view[u].shown \ C
    BY <1>1, <1>3 DEF Pages
  <1>5. view' \in Pages
    BY <1>3, <1>4 DEF Pages
  <1>6. ShownInScope'
    <2>. SUFFICES ASSUME NEW u \in Owners, NEW c \in view'[u].shown
                  PROVE  IF view'[u].at = "work" THEN book'[c[1]][c[2]] = "work" ELSE c[1] = u
      BY DEF ShownInScope
    <2>1. c \in People /\ c \notin C /\ c \in view[u].shown
      BY <1>1, <1>4 DEF Pages
    <2>. QED
      BY <2>1, <1>2, <1>4 DEF BookInv, ShownInScope
  <1>7. /\ shelved' = [u \in Owners |-> [n \in Names |-> shelved[u][n] \ C]]
        /\ strays' = {s \in strays : s[2] \notin C}
    BY DEF Forget
  <1>8. ListsTyped'
    BY <1>1, <1>7 DEF ListsTyped
  <1>9. StrangersOnlyByStalePage'
    <2>. SUFFICES ASSUME NEW u \in Owners, NEW n \in Names, NEW c \in shelved'[u][n]
                  PROVE  \/ shelf[u][n] = "work" /\ book'[c[1]][c[2]] = "work"
                         \/ c[1] = u
                         \/ <<<<u, n>>, c>> \in strays'
      BY DEF StrangersOnlyByStalePage
    <2>1. c \in People /\ c \notin C /\ c \in shelved[u][n]
      BY <1>1, <1>7 DEF ListsTyped
    <2>2. \/ shelf[u][n] = "work" /\ book[c[1]][c[2]] = "work"
          \/ c[1] = u
          \/ <<<<u, n>>, c>> \in strays
      BY <2>1 DEF BookInv, BookSound, StrangersOnlyByStalePage
    <2>. QED
      BY <2>1, <2>2, <1>2, <1>7
  <1>. QED
    BY <1>5, <1>6, <1>8, <1>9

\* The requests about lists.
ListStep(u) ==
  \/ \E n \in Names : CreateList(u, n)
  \/ \E l \in Owners \X Names :
       DropList(u, l) \/ AddToList(u, l) \/ ToolAddToList(u, l) \/ RemoveFromList(u, l)

\* A list that is written gets only what belongs into it, or what is noted as a stray.
LEMMA OneListWritten ==
  ASSUME BookInv, NEW l \in Owners \X Names, NEW D \in SUBSET People, NEW S \in SUBSET ((Owners \X Names) \X People),
         shelved' = [shelved EXCEPT ![l[1]][l[2]] = D], shelf' = shelf, book' = book, strays' = S,
         \A s \in strays : s \in S \/ (s[1] = l /\ s[2] \notin D),
         \A c \in D : Belongs(l, c) \/ <<l, c>> \in S
  PROVE  ListsTyped' /\ StrangersOnlyByStalePage'
  <1>1. ListsTyped
    BY DEF BookInv, BookTypeOK, ListsTyped
  <1>2. \A u \in Owners, n \in Names :
          shelved'[u][n] = IF u = l[1] /\ n = l[2] THEN D ELSE shelved[u][n]
    BY <1>1 DEF ListsTyped
  <1>3. ListsTyped'
    BY <1>1 DEF ListsTyped
  <1>4. StrangersOnlyByStalePage'
    <2>. SUFFICES ASSUME NEW u \in Owners, NEW n \in Names, NEW c \in shelved'[u][n]
                  PROVE  \/ shelf[u][n] = "work" /\ book[c[1]][c[2]] = "work"
                         \/ c[1] = u
                         \/ <<<<u, n>>, c>> \in S
      BY DEF StrangersOnlyByStalePage
    <2>1. CASE u = l[1] /\ n = l[2]
      <3>1. l = <<u, n>>
        BY <2>1
      <3>. QED
        BY <2>1, <3>1, <1>2 DEF Belongs
    <2>2. CASE ~(u = l[1] /\ n = l[2])
      <3>1. <<u, n>> # l
        BY <2>2
      <3>2. \/ shelf[u][n] = "work" /\ book[c[1]][c[2]] = "work"
            \/ c[1] = u
            \/ <<<<u, n>>, c>> \in strays
        BY <1>2, <2>2 DEF BookInv, BookSound, StrangersOnlyByStalePage
      <3>. QED
        BY <3>1, <3>2
    <2>. QED
      BY <2>1, <2>2
  <1>. QED
    BY <1>3, <1>4

LEMMA ListsKept ==
  ASSUME BookInv, NEW u \in Owners, ListStep(u)
  PROVE  ListsTyped' /\ StrangersOnlyByStalePage' /\ requests' \in 0..MaxRequests /\ UNCHANGED listRest
  <1>1. ListsTyped /\ StrangersOnlyByStalePage
    BY DEF BookInv, BookTypeOK, ListsTyped, BookSound
  <1>2. ASSUME NEW n \in Names, CreateList(u, n)
        PROVE  ListsTyped' /\ StrangersOnlyByStalePage' /\ Request /\ UNCHANGED listRest
    <2>1. /\ shelf[u][n] = "none" /\ shelf' = [shelf EXCEPT ![u][n] = Scope(u)] /\ Request
          /\ shelved' = shelved /\ strays' = strays /\ UNCHANGED listRest
      BY <1>2 DEF CreateList
    <2>2. book' = book
      BY <2>1 DEF listRest
    <2>3. Scope(u) \in Levels
      BY DEF Scope, Levels
    <2>4. ListsTyped'
      BY <1>1, <2>1, <2>3 DEF ListsTyped
    <2>5. \A v \in Owners, m \in Names : shelf[v][m] = "work" => shelf'[v][m] = "work"
      BY <1>1, <2>1 DEF ListsTyped
    <2>6. StrangersOnlyByStalePage'
      BY <1>1, <2>1, <2>2, <2>5 DEF StrangersOnlyByStalePage
    <2>. QED
      BY <2>1, <2>4, <2>6
  <1>3. ASSUME NEW l \in Owners \X Names, DropList(u, l)
        PROVE  ListsTyped' /\ StrangersOnlyByStalePage' /\ Request /\ UNCHANGED listRest
    <2>1. /\ shelf' = [shelf EXCEPT ![l[1]][l[2]] = "none"]
          /\ shelved' = [shelved EXCEPT ![l[1]][l[2]] = {}]
          /\ strays' = {s \in strays : s[1] # l} /\ Request /\ UNCHANGED listRest
      BY <1>3 DEF DropList
    <2>2. book' = book
      BY <2>1 DEF listRest
    <2>3. \A v \in Owners, m \in Names :
            /\ shelved'[v][m] = IF <<v, m>> = l THEN {} ELSE shelved[v][m]
            /\ <<v, m>> # l => shelf'[v][m] = shelf[v][m]
      BY <1>1, <2>1 DEF ListsTyped
    <2>4. ListsTyped'
      BY <1>1, <2>1 DEF ListsTyped, Levels
    <2>5. StrangersOnlyByStalePage'
      <3>. SUFFICES ASSUME NEW v \in Owners, NEW m \in Names, NEW c \in shelved'[v][m]
                    PROVE  \/ shelf'[v][m] = "work" /\ book[c[1]][c[2]] = "work"
                           \/ c[1] = v
                           \/ <<<<v, m>>, c>> \in strays'
        BY <2>2 DEF StrangersOnlyByStalePage
      <3>1. <<v, m>> # l /\ c \in shelved[v][m]
        BY <2>3
      <3>. QED
        BY <1>1, <2>1, <2>3, <3>1 DEF StrangersOnlyByStalePage
    <2>. QED
      BY <2>1, <2>4, <2>5
  <1>4. ASSUME NEW l \in Owners \X Names, AddToList(u, l)
        PROVE  ListsTyped' /\ StrangersOnlyByStalePage' /\ Request /\ UNCHANGED listRest
    <2>1. l \in Shelves(u, Scope(u)) /\ Request /\ shelf' = shelf /\ UNCHANGED listRest
      BY <1>4 DEF AddToList
    <2>2. PICK C \in SUBSET view[u].shown :
            /\ shelved' = [shelved EXCEPT ![l[1]][l[2]] = @ \cup C]
            /\ strays' = IF view[u].at = Scope(u) THEN strays
                         ELSE strays \cup ({l} \X (C \ Visible(u, Scope(u))))
      BY <1>4 DEF AddToList
    <2>. DEFINE D == shelved[l[1]][l[2]] \cup C
                S == IF view[u].at = Scope(u) THEN strays
                     ELSE strays \cup ({l} \X (C \ Visible(u, Scope(u))))
    <2>3. view[u].shown \subseteq People /\ shelved[l[1]][l[2]] \subseteq People
      BY <1>1 DEF ListsTyped, BookInv, BookTypeOK
    <2>4. D \in SUBSET People /\ S \in SUBSET ((Owners \X Names) \X People) /\ strays \subseteq S
      BY <1>1, <2>2, <2>3 DEF ListsTyped
    <2>5. shelved' = [shelved EXCEPT ![l[1]][l[2]] = D]
      BY <1>1, <2>2 DEF ListsTyped
    <2>6. \A c \in D : Belongs(l, c) \/ <<l, c>> \in S
      <3>1. ASSUME NEW c \in shelved[l[1]][l[2]] PROVE Belongs(l, c) \/ <<l, c>> \in S
        <4>1. <<<<l[1], l[2]>>, c>> = <<l, c>>
          OBVIOUS
        <4>. QED
          BY <1>1, <2>4, <3>1, <4>1 DEF StrangersOnlyByStalePage, Belongs
      <3>2. ASSUME NEW c \in C PROVE Belongs(l, c) \/ <<l, c>> \in S
        BY <2>1, <2>2, <3>2, ShownBelongs
      <3>. QED
        BY <3>1, <3>2
    <2>7. book' = book
      BY <2>1 DEF listRest
    <2>. HIDE DEF D, S
    <2>8. strays' = S /\ \A s \in strays : s \in S \/ (s[1] = l /\ s[2] \notin D)
      BY <2>2, <2>4 DEF S
    <2>9. shelf' = shelf
      BY <2>1
    <2>10. D \in SUBSET People /\ S \in SUBSET ((Owners \X Names) \X People)
      BY <2>4
    <2>11. ListsTyped' /\ StrangersOnlyByStalePage'
      BY <2>5, <2>6, <2>7, <2>8, <2>9, <2>10, OneListWritten
    <2>. QED
      BY <2>1, <2>11
  <1>5. ASSUME NEW l \in Owners \X Names, ToolAddToList(u, l)
        PROVE  ListsTyped' /\ StrangersOnlyByStalePage' /\ Request /\ UNCHANGED listRest
    <2>1. l \in Shelves(u, Scope(u)) /\ Request /\ shelf' = shelf /\ strays' = strays /\ UNCHANGED listRest
      BY <1>5 DEF ToolAddToList
    <2>2. PICK C \in SUBSET People : shelved' = [shelved EXCEPT ![l[1]][l[2]] = @ \cup ToolAddable(u, C)]
      BY <1>5 DEF ToolAddToList
    <2>. DEFINE D == shelved[l[1]][l[2]] \cup ToolAddable(u, C)
    <2>3. D \in SUBSET People /\ strays \in SUBSET ((Owners \X Names) \X People)
      BY <1>1 DEF ListsTyped, ToolAddable
    <2>4. shelved' = [shelved EXCEPT ![l[1]][l[2]] = D]
      BY <1>1, <2>2 DEF ListsTyped
    <2>5. \A c \in D : Belongs(l, c) \/ <<l, c>> \in strays
      <3>1. ASSUME NEW c \in shelved[l[1]][l[2]] PROVE Belongs(l, c) \/ <<l, c>> \in strays
        <4>1. <<<<l[1], l[2]>>, c>> = <<l, c>>
          OBVIOUS
        <4>. QED
          BY <1>1, <3>1, <4>1 DEF StrangersOnlyByStalePage, Belongs
      <3>2. ASSUME NEW c \in ToolAddable(u, C) PROVE Belongs(l, c)
        <4>1. Scope(u) \in {"own", "work"}
          BY DEF Scope
        <4>. QED
          BY <2>1, <3>2, <4>1, VisibleBelongs DEF ToolAddable
      <3>. QED
        BY <3>1, <3>2
    <2>6. book' = book
      BY <2>1 DEF listRest
    <2>. DEFINE S == strays
    <2>7. S \in SUBSET ((Owners \X Names) \X People) /\ strays' = S /\ \A s \in strays : s \in S
      BY <2>1, <2>3
    <2>8. \A c \in D : Belongs(l, c) \/ <<l, c>> \in S
      BY <2>5
    <2>. HIDE DEF D, S
    <2>. QED
      BY <2>1, <2>3, <2>4, <2>6, <2>7, <2>8, OneListWritten
  <1>6. ASSUME NEW l \in Owners \X Names, RemoveFromList(u, l)
        PROVE  ListsTyped' /\ StrangersOnlyByStalePage' /\ Request /\ UNCHANGED listRest
    <2>1. Request /\ shelf' = shelf /\ UNCHANGED listRest
      BY <1>6 DEF RemoveFromList
    <2>2. PICK c \in shelved[l[1]][l[2]] :
            shelved' = [shelved EXCEPT ![l[1]][l[2]] = @ \ {c}] /\ strays' = strays \ {<<l, c>>}
      BY <1>6 DEF RemoveFromList
    <2>. DEFINE D == shelved[l[1]][l[2]] \ {c} S == strays \ {<<l, c>>}
    <2>3. D \in SUBSET People /\ S \in SUBSET ((Owners \X Names) \X People)
      BY <1>1 DEF ListsTyped
    <2>4. shelved' = [shelved EXCEPT ![l[1]][l[2]] = D]
      BY <1>1, <2>2 DEF ListsTyped
    <2>5. \A d \in D : Belongs(l, d) \/ <<l, d>> \in S
      <3>. SUFFICES ASSUME NEW d \in D PROVE Belongs(l, d) \/ <<l, d>> \in S
        OBVIOUS
      <3>1. <<<<l[1], l[2]>>, d>> = <<l, d>>
        OBVIOUS
      <3>. QED
        BY <1>1, <3>1 DEF StrangersOnlyByStalePage, Belongs
    <2>6. \A s \in strays : s \in S \/ (s[1] = l /\ s[2] \notin D)
      OBVIOUS
    <2>7. book' = book
      BY <2>1 DEF listRest
    <2>. HIDE DEF D, S
    <2>8. strays' = S
      BY <2>2 DEF S
    <2>. QED
      BY <2>1, <2>3, <2>4, <2>5, <2>6, <2>7, <2>8, OneListWritten
  <1>7. Request => requests' \in 0..MaxRequests
    BY BookAssumption DEF BookAssumption, BookInv, BookTypeOK, Request
  <1>. QED
    BY <1>2, <1>3, <1>4, <1>5, <1>6, <1>7 DEF ListStep

(***************************************************************************)
(* Every step.                                                             *)
(***************************************************************************)
\* The steps of requests that save contacts.
SaveStep ==
  \/ \E r \in Saves, u \in Owners :
       CreateContact(r, u, "create") \/ CreateContact(r, u, "tool") \/ Import(r, u)
  \/ \E r \in Saves : LookUp(r) \/ UpdateProspect(r) \/ Create(r) \/ RefuseRow(r) \/ EndImport(r)

\* The parts of the type that only few steps touch.
WizardTyped ==
  wizard \in [file : Sheets \cup {NoSheet}, asked : SUBSET Sheets, mapped : Sheets \cup {NoSheet}]
FirmsTyped == firm \in [Owners -> Levels] /\ phone \in [Owners -> BOOLEAN] /\ refresh \subseteq Owners
RefusedTyped == refused \subseteq [at : {"own", "work"}, held : Levels, crossed : BOOLEAN]

\* What a step must keep, part by part.
BookParts ==
  /\ book \in [Owners -> [Mailboxes -> Levels]] /\ save \in [Saves -> SaveRec] /\ SavesRely
  /\ RefusedTyped /\ RefusedOnlyIfTaken
  /\ view \in Pages /\ ShownInScope
  /\ ListsTyped /\ StrangersOnlyByStalePage
  /\ WizardTyped /\ FirmsTyped /\ works \subseteq Owners /\ requests \in 0..MaxRequests

LEMMA InParts == BookInv <=> BookParts
  BY DEF BookInv, BookTypeOK, BookSound, BookParts, SaveRec, RefusedTyped, Pages, ListsTyped,
         WizardTyped, FirmsTyped

LEMMA SaveStepKept ==
  ASSUME BookInv, SaveStep
  PROVE  BookParts'
  <1>1. BookParts
    BY InParts
  <1>. DEFINE saved == save' \in [Saves -> SaveRec] /\ SavesRely'
              bookKept == book' \in [Owners -> [Mailboxes -> Levels]] /\ BookGrows
              refusedKept == RefusedTyped' /\ RefusedOnlyIfTaken'
              rest == /\ UNCHANGED <<shelf, firm, phone, shelved, works, view, refresh, strays>>
                      /\ WizardTyped' /\ requests' \in 0..MaxRequests
  <1>2. book' = book => bookKept
    BY <1>1 DEF BookParts, BookGrows
  <1>3. refused' = refused => refusedKept
    BY <1>1 DEF BookParts, RefusedTyped, RefusedOnlyIfTaken
  <1>4. wizard' = wizard => WizardTyped'
    BY <1>1 DEF BookParts, WizardTyped
  <1>5. ASSUME NEW r \in Saves, NEW u \in Owners, NEW via \in {"create", "tool"}, CreateContact(r, u, via)
        PROVE  saved /\ bookKept /\ refusedKept /\ rest
    <2>1. PICK e \in Mailboxes : Begin(r, via, u, {e})
      BY <1>5 DEF CreateContact
    <2>2. /\ book' = book /\ refused' = refused /\ wizard' = wizard
          /\ UNCHANGED <<shelf, firm, phone, shelved, works, view, refresh, strays>>
      BY <1>5 DEF CreateContact
    <2>3. saved /\ requests' \in 0..MaxRequests
      BY <2>1, <2>2, BeginRelies
    <2>. QED
      BY <1>2, <1>3, <1>4, <2>2, <2>3
  <1>6. ASSUME NEW r \in Saves, NEW u \in Owners, Import(r, u)
        PROVE  saved /\ bookKept /\ refusedKept /\ rest
    <2>1. PICK rows \in SUBSET Mailboxes : Begin(r, "import", u, rows)
      BY <1>6 DEF Import
    <2>2. /\ book' = book /\ refused' = refused
          /\ wizard' = [wizard EXCEPT !.file = NoSheet, !.mapped = NoSheet]
          /\ UNCHANGED <<shelf, firm, phone, shelved, works, view, refresh, strays>>
      BY <1>6 DEF Import
    <2>3. saved /\ requests' \in 0..MaxRequests
      BY <2>1, <2>2, BeginRelies
    <2>4. WizardTyped'
      BY <1>1, <2>2 DEF BookParts, WizardTyped
    <2>. QED
      BY <1>2, <1>3, <2>2, <2>3, <2>4
  <1>7. ASSUME NEW r \in Saves, LookUp(r)
        PROVE  saved /\ bookKept /\ refusedKept /\ rest
    <2>1. /\ book' = book /\ refused' = refused /\ wizard' = wizard /\ requests' = requests
          /\ UNCHANGED <<shelf, firm, phone, shelved, works, view, refresh, strays>>
      BY <1>7 DEF LookUp
    <2>. QED
      BY <1>1, <1>2, <1>3, <1>4, <1>7, <2>1, LookUpRelies DEF BookParts
  <1>8. ASSUME NEW r \in Saves, UpdateProspect(r)
        PROVE  saved /\ bookKept /\ refusedKept /\ rest
    <2>1. /\ refused' = refused /\ wizard' = wizard /\ requests' = requests
          /\ UNCHANGED <<shelf, firm, phone, shelved, works, view, refresh, strays>>
      BY <1>8 DEF UpdateProspect
    <2>. QED
      BY <1>1, <1>2, <1>3, <1>4, <1>8, <2>1, UpdateProspectKept DEF BookParts
  <1>9. ASSUME NEW r \in Saves, Create(r)
        PROVE  saved /\ bookKept /\ refusedKept /\ rest
    <2>1. /\ refused' = refused /\ wizard' = wizard /\ requests' = requests
          /\ UNCHANGED <<shelf, firm, phone, shelved, works, view, refresh, strays>>
      BY <1>9 DEF Create
    <2>. QED
      BY <1>1, <1>3, <1>4, <1>9, <2>1, CreateKept DEF BookParts
  <1>10. ASSUME NEW r \in Saves, RefuseRow(r)
         PROVE  saved /\ bookKept /\ refusedKept /\ rest
    <2>1. /\ book' = book /\ wizard' = wizard /\ requests' = requests
          /\ UNCHANGED <<shelf, firm, phone, shelved, works, view, refresh, strays>>
      BY <1>10 DEF RefuseRow
    <2>2. saved /\ refusedKept
      BY <1>10, RefuseKept DEF RefusedTyped
    <2>. QED
      BY <1>1, <1>2, <1>4, <2>1, <2>2 DEF BookParts
  <1>11. ASSUME NEW r \in Saves, EndImport(r)
         PROVE  saved /\ bookKept /\ refusedKept /\ rest
    <2>1. /\ book' = book /\ refused' = refused /\ wizard' = wizard /\ requests' = requests
          /\ UNCHANGED <<shelf, firm, phone, shelved, works, view, refresh, strays>>
          /\ save' = [save EXCEPT ![r] = NoSave]
      BY <1>11 DEF EndImport
    <2>2. saved
      BY <2>1, IdleRelies, OneMoves DEF SavedAs
    <2>. QED
      BY <1>1, <1>2, <1>3, <1>4, <2>1, <2>2 DEF BookParts
  <1>12. saved /\ bookKept /\ refusedKept /\ rest
    BY <1>5, <1>6, <1>7, <1>8, <1>9, <1>10, <1>11 DEF SaveStep
  <1>13. ShownInScope'
    BY <1>1, <1>12, PagesStay DEF BookParts
  <1>14. StrangersOnlyByStalePage'
    BY <1>1, <1>12, ListsStay DEF BookParts
  <1>15. ListsTyped' /\ FirmsTyped' /\ view' \in Pages /\ works' \subseteq Owners
    BY <1>1, <1>12 DEF BookParts, ListsTyped, FirmsTyped
  <1>. QED
    BY <1>12, <1>13, <1>14, <1>15 DEF BookParts

\* Nothing that concerns contacts and lists changes.
Undisturbed == UNCHANGED <<book, shelf, shelved, save, refused, strays>>

LEMMA UndisturbedKept ==
  ASSUME BookInv, Undisturbed
  PROVE  /\ book' \in [Owners -> [Mailboxes -> Levels]] /\ save' \in [Saves -> SaveRec] /\ SavesRely'
         /\ RefusedTyped' /\ RefusedOnlyIfTaken' /\ ListsTyped' /\ StrangersOnlyByStalePage'
         /\ view' = view => view' \in Pages /\ ShownInScope'
  <1>1. BookParts
    BY InParts
  <1>2. BookGrows
    BY DEF Undisturbed, BookGrows
  <1>3. StrangersOnlyByStalePage'
    BY <1>1, <1>2, ListsStay DEF BookParts, Undisturbed
  <1>4. view' = view => ShownInScope'
    BY <1>1, <1>2, PagesStay DEF BookParts
  <1>. QED
    BY <1>1, <1>3, <1>4 DEF BookParts, Undisturbed, SavesRely, RefusedTyped, RefusedOnlyIfTaken, ListsTyped

LEMMA BookStep == BookInv /\ [BookNext]_bookVars => BookInv'
  <1>. SUFFICES ASSUME BookInv, [BookNext]_bookVars PROVE BookParts'
    BY DEF BookInv, BookTypeOK, BookSound, BookParts, SaveRec, RefusedTyped, Pages, ListsTyped,
           WizardTyped, FirmsTyped
  <1>1. BookParts
    BY InParts
  <1>2. Request => requests' \in 0..MaxRequests
    BY <1>1, BookAssumption DEF BookParts, BookAssumption, Request
  <1>3. CASE SaveStep
    BY <1>3, SaveStepKept
  <1>4. ASSUME NEW u \in Owners, SwitchScope(u) PROVE BookParts'
    <2>1. /\ Undisturbed /\ view' = view /\ Request
          /\ works' = IF u \in works THEN works \ {u} ELSE works \cup {u}
          /\ UNCHANGED <<firm, phone, refresh, wizard>>
      BY <1>4 DEF SwitchScope, Undisturbed
    <2>2. works' \subseteq Owners
      BY <1>1, <2>1 DEF BookParts
    <2>. QED
      BY <1>1, <1>2, <2>1, <2>2, UndisturbedKept DEF BookParts, FirmsTyped, WizardTyped
  <1>5. ASSUME NEW u \in Owners, LoadContacts(u) PROVE BookParts'
    <2>1. Undisturbed /\ UNCHANGED <<firm, phone, works, refresh, wizard, requests>>
      BY <1>5 DEF LoadContacts, Undisturbed
    <2>. QED
      BY <1>1, <1>5, <2>1, LoadKept, UndisturbedKept DEF BookParts, FirmsTyped, WizardTyped
  <1>6. ASSUME NEW u \in Owners, BulkDelete(u) PROVE BookParts'
    <2>1. PICK C \in SUBSET (view[u].shown \cap Visible(u, Scope(u))) : Forget(C)
      BY <1>6 DEF BulkDelete
    <2>2. C \in SUBSET People
      BY DEF Visible
    <2>3. Request /\ UNCHANGED <<shelf, firm, phone, works, refresh, wizard, refused>>
      BY <1>6 DEF BulkDelete
    <2>. QED
      BY <1>1, <1>2, <2>1, <2>2, <2>3, ForgetKept, ForgetRest
      DEF BookParts, FirmsTyped, WizardTyped, RefusedTyped, RefusedOnlyIfTaken
  <1>7. ASSUME NEW u \in Owners, ListStep(u) PROVE BookParts'
    <2>1. UNCHANGED listRest /\ ListsTyped' /\ StrangersOnlyByStalePage' /\ requests' \in 0..MaxRequests
      BY <1>7, ListsKept
    <2>2. UNCHANGED <<book, firm, phone, works, view, save, refresh, wizard, refused>>
      BY <2>1 DEF listRest
    <2>3. BookGrows
      BY <2>2 DEF BookGrows
    <2>4. ShownInScope'
      BY <1>1, <2>2, <2>3, PagesStay DEF BookParts
    <2>. QED
      BY <1>1, <2>1, <2>2, <2>4
      DEF BookParts, FirmsTyped, WizardTyped, RefusedTyped, RefusedOnlyIfTaken, SavesRely
  <1>8. ASSUME NEW f \in Sheets, PickFile(f) \/ HeadersCome(f) PROVE BookParts'
    <2>1. Undisturbed /\ view' = view /\ UNCHANGED <<firm, phone, works, refresh>>
      BY <1>8 DEF PickFile, HeadersCome, Undisturbed
    <2>2. requests' \in 0..MaxRequests
      BY <1>1, <1>2, <1>8 DEF PickFile, HeadersCome, BookParts
    <2>3. WizardTyped'
      <3>1. CASE PickFile(f)
        BY <1>1, <3>1 DEF PickFile, BookParts, WizardTyped
      <3>2. CASE HeadersCome(f)
        <4>1. PICK m \in {f, wizard.mapped} : wizard' = [wizard EXCEPT !.asked = @ \ {f}, !.mapped = m]
          BY <3>2 DEF HeadersCome
        <4>2. m \in Sheets \cup {NoSheet}
          BY <1>1 DEF BookParts, WizardTyped
        <4>. QED
          BY <1>1, <4>1, <4>2 DEF BookParts, WizardTyped
      <3>. QED
        BY <1>8, <3>1, <3>2
    <2>. QED
      BY <1>1, <2>1, <2>2, <2>3, UndisturbedKept DEF BookParts, FirmsTyped
  <1>9. ASSUME NEW u \in Owners, CreateCompany(u) \/ RefreshCompany(u) \/ RefreshAnswered(u) PROVE BookParts'
    <2>1. UNCHANGED firmRest
      BY <1>9 DEF CreateCompany, RefreshCompany, RefreshAnswered
    <2>2. Undisturbed /\ UNCHANGED <<view, works, wizard>>
      BY <2>1 DEF firmRest, Undisturbed
    <2>3. requests' \in 0..MaxRequests
      BY <1>1, <1>2, <1>9 DEF CreateCompany, RefreshCompany, RefreshAnswered, BookParts
    <2>4. FirmsTyped'
      <3>1. CASE CreateCompany(u)
        BY <1>1, <3>1 DEF CreateCompany, BookParts, FirmsTyped, Scope, Levels
      <3>2. CASE RefreshCompany(u)
        BY <1>1, <3>2 DEF RefreshCompany, BookParts, FirmsTyped
      <3>3. CASE RefreshAnswered(u)
        <4>1. firm' = firm
          BY <3>3 DEF RefreshAnswered
        <4>. QED
          BY <1>1, <3>3, <4>1 DEF RefreshAnswered, BookParts, FirmsTyped
      <3>. QED
        BY <1>9, <3>1, <3>2, <3>3
    <2>. QED
      BY <1>1, <2>2, <2>3, <2>4, UndisturbedKept DEF BookParts, WizardTyped
  <1>10. CASE UNCHANGED bookVars
    <2>1. /\ Undisturbed /\ view' = view /\ UNCHANGED <<firm, phone, works, refresh, wizard, requests>>
      BY <1>10 DEF bookVars, Undisturbed
    <2>. QED
      BY <1>1, <2>1, UndisturbedKept DEF BookParts, FirmsTyped, WizardTyped
  <1>. QED
    BY <1>3, <1>4, <1>5, <1>6, <1>7, <1>8, <1>9, <1>10 DEF BookNext, SaveStep, ListStep

LEMMA BookAlways == BookSpec => []BookInv
  BY BookStarts, BookStep, PTL DEF BookSpec

\* ContactBook.BookTypeOK: every variable of the address book keeps its type.
THEOREM BookTypeCorrect == BookSpec => []BookTypeOK
  <1>1. BookInv => BookTypeOK
    BY DEF BookInv
  <1>. QED
    BY <1>1, BookAlways, PTL

\* ContactBook.BookSound: an address is refused only if it is taken where the
\* look-up does not see it, or another request was faster; and a list of the
\* workspace holds contacts of others only by a page of another scope
\* (upsertContact, addContactsToList).
THEOREM BookSoundCorrect == BookSpec => []BookSound
  <1>1. BookInv => BookSound
    BY DEF BookInv
  <1>. QED
    BY <1>1, BookAlways, PTL

(***************************************************************************)
(* Workspace: who is in a workspace, for any users, workspaces, requests   *)
(* handled at the same time and team limit.                                *)
(***************************************************************************)
(***************************************************************************)
(* What a request holds, by its step.                                      *)
(***************************************************************************)
KeyOK == apiKey # NoKey => apiKey.user \in Users

CallOK ==
  \A c \in Calls :
    /\ call[c].step = "idle" => call[c].org = NoOrg
    /\ call[c].step \notin {"idle", "mcp"} => call[c].user \in Users
    /\ call[c].step \in {"enter", "invite", "revoke", "accept", "remove", "reassign", "role",
                         "leave", "moveOn", "delete"} => call[c].org \in Orgs
    /\ call[c].step \in {"invite", "revoke", "remove", "reassign", "role"} => call[c].other \in Users

Held == WorkspaceTypeOK /\ KeyOK /\ CallOK

(***************************************************************************)
(* No request in flight takes the owner away or makes another one: it has  *)
(* looked at a workspace that had an owner other than its target, and an   *)
(* owner stays as long as the workspace.                                   *)
(***************************************************************************)
HandsOff ==
  \A c \in Calls :
    LET o == call[c].org
    IN /\ On(c, "remove") \/ On(c, "role") => orgOwner[o] \notin {NoUser, call[c].other}
       /\ On(c, "leave") => orgOwner[o] \notin {NoUser, call[c].user}
       /\ On(c, "personal") /\ o # NoOrg => orgOwner[o] \in {call[c].user, "gone"}

(***************************************************************************)
(* The members of a workspace and those who are about to accept.           *)
(***************************************************************************)
Accepting(o) == {c \in Calls : On(c, "accept") /\ call[c].org = o}
Guests(o) == {call[c].user : c \in Accepting(o)}
Team(o) == Members(o) \cup Guests(o)

TeamBounded == \A o \in Orgs : Cardinality(Team(o)) <= MaxTeam + Cardinality(Calls) - 1
LEMMA InitHeld == WorkspaceInit => Held
  <1>. SUFFICES ASSUME WorkspaceInit PROVE Held
    OBVIOUS
  <1>1. /\ Free \in [step : CallSteps, user : Users \cup {NoUser}, org : Orgs \cup {NoOrg},
                     other : Users \cup {NoUser}]
        /\ Free.step = "idle" /\ Free.org = NoOrg
    BY DEF Free, CallSteps
  <1>2. WorkspaceTypeOK
    <2>1. /\ orgOwner \in [Orgs -> Users \cup {NoUser, "gone"}]
          /\ role \in [Orgs -> [Users -> Roles \cup {"none"}]]
          /\ activeOrg \in [Users -> Orgs \cup {NoOrg}]
          /\ pending \in [Orgs -> SUBSET Users]
      BY DEF WorkspaceInit
    <2>2. invited \in 0 .. MaxInvites
      BY WorkspaceAssumption DEF WorkspaceAssumption, WorkspaceInit
    <2>3. apiKey \in [user : Users \cup {NoUser}, org : Orgs \cup {NoOrg}]
      BY DEF WorkspaceInit, NoKey
    <2>4. call \in [Calls -> [step : CallSteps, user : Users \cup {NoUser},
                              org : Orgs \cup {NoOrg}, other : Users \cup {NoUser}]]
      BY <1>1 DEF WorkspaceInit
    <2>. QED
      BY <2>1, <2>2, <2>3, <2>4 DEF WorkspaceTypeOK
  <1>3. KeyOK
    BY DEF WorkspaceInit, KeyOK
  <1>4. CallOK
    BY <1>1 DEF WorkspaceInit, CallOK
  <1>. QED
    BY <1>2, <1>3, <1>4 DEF Held

\* A step of a request, seen from the others: only its own record changes.
LEMMA CallIsTyped ==
  ASSUME Held, NEW c \in Calls, NEW f \in [step : CallSteps, user : Users \cup {NoUser},
                                           org : Orgs \cup {NoOrg}, other : Users \cup {NoUser}],
         call' = [call EXCEPT ![c] = f],
         f.step = "idle" => f.org = NoOrg,
         f.step \notin {"idle", "mcp"} => f.user \in Users,
         f.step \in {"enter", "invite", "revoke", "accept", "remove", "reassign", "role",
                     "leave", "moveOn", "delete"} => f.org \in Orgs,
         f.step \in {"invite", "revoke", "remove", "reassign", "role"} => f.other \in Users
  PROVE  /\ CallOK'
         /\ call' \in [Calls -> [step : CallSteps, user : Users \cup {NoUser},
                                 org : Orgs \cup {NoOrg}, other : Users \cup {NoUser}]]
  BY DEF Held, WorkspaceTypeOK, CallOK

LEMMA FreeIsTyped ==
  ASSUME Held, NEW c \in Calls, Hangup(c)
  PROVE  /\ CallOK'
         /\ call' \in [Calls -> [step : CallSteps, user : Users \cup {NoUser},
                                 org : Orgs \cup {NoOrg}, other : Users \cup {NoUser}]]
  <1>. DEFINE f == Free
  <1>1. /\ f \in [step : CallSteps, user : Users \cup {NoUser}, org : Orgs \cup {NoOrg},
                  other : Users \cup {NoUser}]
        /\ f.step = "idle" /\ f.org = NoOrg
    BY DEF Free, CallSteps
  <1>2. call' = [call EXCEPT ![c] = f]
    BY DEF Hangup
  <1>. QED
    BY <1>1, <1>2, CallIsTyped

LEMMA StepIsTyped ==
  ASSUME Held, NEW c \in Calls, NEW step \in CallSteps, Goto(c, step),
         call[c].user \in Users,
         step \in {"ready", "reassign", "moveOn", "unset"},
         step = "reassign" => On(c, "remove"), step = "moveOn" => On(c, "leave")
  PROVE  /\ CallOK'
         /\ call' \in [Calls -> [step : CallSteps, user : Users \cup {NoUser},
                                 org : Orgs \cup {NoOrg}, other : Users \cup {NoUser}]]
  <1>. DEFINE f == [call[c] EXCEPT !.step = step]
  <1>1. /\ f \in [step : CallSteps, user : Users \cup {NoUser}, org : Orgs \cup {NoOrg},
                  other : Users \cup {NoUser}]
        /\ f.step = step /\ f.user = call[c].user /\ f.org = call[c].org /\ f.other = call[c].other
    BY DEF Held, WorkspaceTypeOK
  <1>2. call' = [call EXCEPT ![c] = f]
    BY DEF Goto
  <1>3. /\ step = "reassign" => call[c].org \in Orgs /\ call[c].other \in Users
        /\ step = "moveOn" => call[c].org \in Orgs
    BY DEF Held, CallOK, On
  <1>. HIDE DEF f
  <1>. QED
    BY <1>1, <1>2, <1>3, CallIsTyped

\* What a request turns to next.
Turn(c, step, org, other) ==
  call' = [call EXCEPT ![c] = [@ EXCEPT !.step = step, !.org = org, !.other = other]]

\* What Look chooses, as far as the invariants depend on it.
LookStep(c) ==
  LET u == call[c].user
      o == call[c].org
  IN \/ \E step \in {"create", "key"} : Turn(c, step, NoOrg, NoUser)
     \/ \E p \in Orgs \cup {NoOrg} :
          (p # NoOrg => orgOwner[p] = u) /\ Turn(c, "personal", p, NoUser)
     \/ \E p \in Orgs : Turn(c, "enter", p, NoUser)
     \/ \E p \in Orgs : (role[p][u] # "none" \/ RoomInTeam(p)) /\ Turn(c, "accept", p, NoUser)
     \/ o \in Orgs /\ \E v \in Users, step \in {"invite", "revoke"} : Turn(c, step, o, v)
     \/ o \in Orgs /\ \E v \in Users, step \in {"remove", "role"} :
                        MayChange(u, o, v) /\ Turn(c, step, o, v)
     \/ o \in Orgs /\ RoleIn(u, o) \notin {"none", "OWNER"} /\ Turn(c, "leave", o, NoUser)
     \/ o \in Orgs /\ \E step \in {"delete", "key"} : Turn(c, step, o, NoUser)

LEMMA LookChooses ==
  ASSUME Held, NEW c \in Calls, Look(c)
  PROVE  LookStep(c) /\ On(c, "ready") /\ UNCHANGED <<orgRows, pending, invited, apiKey>>
  <1>. DEFINE u == call[c].user
              o == call[c].org
  <1>1. o \in Orgs \cup {NoOrg}
    BY DEF Held, WorkspaceTypeOK
  <1>2. RoleIn(u, NoOrg) = "none"
    BY DEF RoleIn
  <1>3. \A v : Manages(u, o) \/ Owns(u, o) \/ MayInvite(u, o, v) \/ MayChange(u, o, v)
               \/ RoleIn(u, o) # "none" => o \in Orgs
    BY <1>1, <1>2 DEF Manages, Owns, MayInvite, MayChange
  <1>4. /\ On(c, "ready")
        /\ \/ ~OwnsAny(u) /\ Turn(c, "create", NoOrg, NoUser)
           \/ /\ activeOrg[u] = NoOrg
              /\ \E p \in SomeOrg({q \in Orgs : orgOwner[q] = u}) : Turn(c, "personal", p, NoUser)
           \/ \E p \in Orgs :
                \/ role[p][u] # "none" /\ Turn(c, "enter", p, NoUser)
                \/ /\ u \in pending[p] /\ (role[p][u] # "none" \/ RoomInTeam(p))
                   /\ Turn(c, "accept", p, NoUser)
           \/ \E v \in Users :
                \/ MayInvite(u, o, v) /\ Turn(c, "invite", o, v)
                \/ Manages(u, o) /\ v \in pending[o] /\ Turn(c, "revoke", o, v)
                \/ MayChange(u, o, v) /\ \E step \in {"remove", "role"} : Turn(c, step, o, v)
           \/ RoleIn(u, o) \notin {"none", "OWNER"} /\ Turn(c, "leave", o, NoUser)
           \/ Owns(u, o) /\ Turn(c, "delete", o, NoUser)
           \/ Manages(u, o) /\ Turn(c, "key", o, NoUser)
           \/ Turn(c, "key", NoOrg, NoUser)
        /\ UNCHANGED <<orgRows, pending, invited, apiKey>>
    BY DEF Look, Turn
  <1>5. ASSUME NEW p \in SomeOrg({q \in Orgs : orgOwner[q] = u})
        PROVE  p \in Orgs \cup {NoOrg} /\ (p # NoOrg => orgOwner[p] = u)
    BY DEF SomeOrg
  <1>. HIDE DEF u, o
  <1>6. \/ \E step \in {"create", "key"} : Turn(c, step, NoOrg, NoUser)
        \/ \E p \in Orgs \cup {NoOrg} :
             (p # NoOrg => orgOwner[p] = u) /\ Turn(c, "personal", p, NoUser)
        \/ \E p \in Orgs : Turn(c, "enter", p, NoUser)
        \/ \E p \in Orgs : (role[p][u] # "none" \/ RoomInTeam(p)) /\ Turn(c, "accept", p, NoUser)
        \/ o \in Orgs /\ \E v \in Users, step \in {"invite", "revoke"} : Turn(c, step, o, v)
        \/ o \in Orgs /\ \E v \in Users, step \in {"remove", "role"} :
                           MayChange(u, o, v) /\ Turn(c, step, o, v)
        \/ o \in Orgs /\ RoleIn(u, o) \notin {"none", "OWNER"} /\ Turn(c, "leave", o, NoUser)
        \/ o \in Orgs /\ \E step \in {"delete", "key"} : Turn(c, step, o, NoUser)
    BY <1>3, <1>4, <1>5
  <1>. QED
    BY <1>4, <1>6 DEF LookStep, u, o

LEMMA TurnIsTyped ==
  ASSUME Held, NEW c \in Calls, call[c].user \in Users,
         NEW step \in CallSteps \ {"idle"}, NEW org \in Orgs \cup {NoOrg}, NEW other \in Users \cup {NoUser},
         Turn(c, step, org, other),
         step \in {"enter", "invite", "revoke", "accept", "remove", "reassign", "role",
                   "leave", "moveOn", "delete"} => org \in Orgs,
         step \in {"invite", "revoke", "remove", "reassign", "role"} => other \in Users
  PROVE  /\ CallOK'
         /\ call' \in [Calls -> [step : CallSteps, user : Users \cup {NoUser},
                                 org : Orgs \cup {NoOrg}, other : Users \cup {NoUser}]]
  <1>0. PICK x \in [step : CallSteps, user : Users \cup {NoUser}, org : Orgs \cup {NoOrg},
                     other : Users \cup {NoUser}] : x = call[c]
    BY DEF Held, WorkspaceTypeOK
  <1>1. PICK f : f = [x EXCEPT !.step = step, !.org = org, !.other = other]
    OBVIOUS
  <1>2. /\ f \in [step : CallSteps, user : Users \cup {NoUser}, org : Orgs \cup {NoOrg},
                  other : Users \cup {NoUser}]
        /\ f.step = step /\ f.user = x.user /\ f.org = org /\ f.other = other
    BY <1>1
  <1>3. call' = [call EXCEPT ![c] = f]
    BY <1>0, <1>1 DEF Turn
  <1>4. f.user \in Users
    BY <1>0, <1>2
  <1>. QED
    BY <1>2, <1>3, <1>4, CallIsTyped

Row == [step : CallSteps, user : Users \cup {NoUser}, org : Orgs \cup {NoOrg},
        other : Users \cup {NoUser}]

LEMMA RoleIsTyped ==
  ASSUME role \in [Orgs -> [Users -> Roles \cup {"none"}]], NEW o \in Orgs, NEW u,
         NEW r \in Roles \cup {"none"}, role' = [role EXCEPT ![o][u] = r]
  PROVE  role' \in [Orgs -> [Users -> Roles \cup {"none"}]]
  <1>1. [role[o] EXCEPT ![u] = r] \in [Users -> Roles \cup {"none"}]
    BY DEF Roles
  <1>2. role' = [role EXCEPT ![o] = [role[o] EXCEPT ![u] = r]]
    OBVIOUS
  <1>. QED
    BY <1>1, <1>2

LEMMA HeldStep ==
  ASSUME Held, [WorkspaceNext]_workspaceVars
  PROVE  Held'
  <1>. USE WorkspaceAssumption DEF WorkspaceAssumption, orgRows
  <1>g. ASSUME CallOK', call' \in [Calls -> Row],
               orgOwner' \in [Orgs -> Users \cup {NoUser, "gone"}],
               role' \in [Orgs -> [Users -> Roles \cup {"none"}]],
               activeOrg' \in [Users -> Orgs \cup {NoOrg}],
               pending' \in [Orgs -> SUBSET Users], invited' \in 0 .. MaxInvites,
               KeyOK', apiKey' \in [user : Users \cup {NoUser}, org : Orgs \cup {NoOrg}]
        PROVE  Held'
    BY <1>g DEF Held, WorkspaceTypeOK, Row
  <1>t. /\ call \in [Calls -> Row]
        /\ orgOwner \in [Orgs -> Users \cup {NoUser, "gone"}]
        /\ role \in [Orgs -> [Users -> Roles \cup {"none"}]]
        /\ activeOrg \in [Users -> Orgs \cup {NoOrg}]
        /\ pending \in [Orgs -> SUBSET Users] /\ invited \in 0 .. MaxInvites
        /\ KeyOK /\ apiKey \in [user : Users \cup {NoUser}, org : Orgs \cup {NoOrg}]
    BY DEF Held, WorkspaceTypeOK, Row
  <1>f. ASSUME NEW c \in Calls, Hangup(c)
        PROVE  CallOK' /\ call' \in [Calls -> Row]
    BY <1>f, FreeIsTyped DEF Row
  <1>k. ASSUME UNCHANGED call
        PROVE  CallOK' /\ call' \in [Calls -> Row]
    BY <1>k, <1>t DEF Held, CallOK
  <1>q. ASSUME UNCHANGED apiKey
        PROVE  KeyOK' /\ apiKey' \in [user : Users \cup {NoUser}, org : Orgs \cup {NoOrg}]
    BY <1>q, <1>t DEF KeyOK
  <1>c. ASSUME NEW c \in Calls
        PROVE  /\ call[c].step \notin {"idle", "mcp"} => call[c].user \in Users
               /\ call[c].step \in {"enter", "invite", "revoke", "accept", "remove", "reassign", "role",
                                    "leave", "moveOn", "delete"} => call[c].org \in Orgs
               /\ call[c].step \in {"invite", "revoke", "remove", "reassign", "role"}
                  => call[c].other \in Users
               /\ call[c].org \in Orgs \cup {NoOrg}
    BY <1>t DEF Held, CallOK, Row
  <1>1. ASSUME NEW c \in Calls, NEW u \in Users, Authenticate(c, u)
        PROVE  Held'
    <2>. DEFINE o == activeOrg[u]
                f == [Free EXCEPT !.user = u, !.org = IF RoleIn(u, o) # "none" THEN o ELSE NoOrg,
                        !.step = IF o = NoOrg \/ RoleIn(u, o) # "none" THEN "ready" ELSE "unset"]
    <2>1. /\ f \in [step : CallSteps, user : Users \cup {NoUser}, org : Orgs \cup {NoOrg},
                    other : Users \cup {NoUser}]
          /\ f.step \in {"ready", "unset"} /\ f.user \in Users
      BY <1>t DEF Free, CallSteps
    <2>2. call' = [call EXCEPT ![c] = f] /\ UNCHANGED <<orgRows, pending, invited, apiKey>>
      BY <1>1 DEF Authenticate
    <2>. HIDE DEF f
    <2>3. CallOK' /\ call' \in [Calls -> Row]
      BY <2>1, <2>2, CallIsTyped DEF Row
    <2>. QED
      BY <1>g, <1>t, <1>q, <2>2, <2>3
  <1>2. ASSUME NEW c \in Calls, UseKey(c)
        PROVE  Held'
    <2>. DEFINE f == [Free EXCEPT !.step = "mcp", !.user = apiKey.user, !.org = apiKey.org]
    <2>1. /\ f \in [step : CallSteps, user : Users \cup {NoUser}, org : Orgs \cup {NoOrg},
                    other : Users \cup {NoUser}]
          /\ f.step = "mcp"
      BY <1>t DEF Free, CallSteps
    <2>2. call' = [call EXCEPT ![c] = f] /\ UNCHANGED <<orgRows, pending, invited, apiKey>>
      BY <1>2 DEF UseKey
    <2>. HIDE DEF f
    <2>3. CallOK' /\ call' \in [Calls -> Row]
      BY <2>1, <2>2, CallIsTyped DEF Row
    <2>. QED
      BY <1>g, <1>t, <1>q, <2>2, <2>3
  <1>3. ASSUME NEW c \in Calls, Unset(c)
        PROVE  Held'
    <2>1. On(c, "unset") /\ Goto(c, "ready")
          /\ UNCHANGED <<orgOwner, role, pending, invited, apiKey>>
          /\ activeOrg' = [activeOrg EXCEPT ![call[c].user] = NoOrg]
      BY <1>3 DEF Unset
    <2>2. CallOK' /\ call' \in [Calls -> Row]
      BY <1>c, <2>1, StepIsTyped DEF On, Row, CallSteps
    <2>. QED
      BY <1>g, <1>t, <1>q, <2>1, <2>2
  <1>4. ASSUME NEW c \in Calls, Look(c)
        PROVE  Held'
    <2>1. LookStep(c) /\ On(c, "ready") /\ UNCHANGED <<orgRows, pending, invited, apiKey>>
      BY <1>4, LookChooses
    <2>2. call[c].user \in Users
      BY <1>c, <2>1 DEF On
    <2>3. CallOK' /\ call' \in [Calls -> Row]
      BY <1>c, <2>1, <2>2, TurnIsTyped DEF LookStep, CallSteps, Row
    <2>. QED
      BY <1>g, <1>t, <1>q, <2>1, <2>3
  <1>5. ASSUME NEW c \in Calls, NEW o \in Orgs, CreateOrg(c, o)
        PROVE  Held'
    <2>. DEFINE f == [call[c] EXCEPT !.step = "enter", !.org = o]
    <2>1. /\ f \in [step : CallSteps, user : Users \cup {NoUser}, org : Orgs \cup {NoOrg},
                    other : Users \cup {NoUser}]
          /\ f.step = "enter" /\ f.user = call[c].user /\ f.org = o
      <3>1. call[c] \in [step : CallSteps, user : Users \cup {NoUser}, org : Orgs \cup {NoOrg},
                         other : Users \cup {NoUser}]
        BY <1>t DEF Row
      <3>2. "enter" \in CallSteps
        BY DEF CallSteps
      <3>. QED
        BY <3>1, <3>2
    <2>2. /\ call' = [call EXCEPT ![c] = f] /\ UNCHANGED <<activeOrg, pending, invited, apiKey>>
          /\ orgOwner' = [orgOwner EXCEPT ![o] = call[c].user]
          /\ role' = [role EXCEPT ![o][call[c].user] = "OWNER"]
          /\ call[c].user \in Users
      BY <1>5, <1>c DEF CreateOrg, Found, SetRole, On
    <2>. HIDE DEF f
    <2>3. CallOK' /\ call' \in [Calls -> Row]
      BY <2>1, <2>2, CallIsTyped DEF Row
    <2>4. orgOwner' \in [Orgs -> Users \cup {NoUser, "gone"}]
      BY <1>t, <2>2
    <2>5. role' \in [Orgs -> [Users -> Roles \cup {"none"}]]
      BY <1>t, <2>2 DEF Roles
    <2>. QED
      BY <1>g, <1>t, <1>q, <2>2, <2>3, <2>4, <2>5
  <1>6. ASSUME NEW c \in Calls, NEW o \in Orgs, EnsurePersonal(c, o)
        PROVE  Held'
    <2>1. /\ Hangup(c) /\ call[c].user \in Users /\ UNCHANGED <<pending, invited, apiKey>>
          /\ activeOrg' = [activeOrg EXCEPT ![call[c].user] = o]
          /\ role' = [role EXCEPT ![o][call[c].user] = "OWNER"]
          /\ orgOwner' = orgOwner \/ orgOwner' = [orgOwner EXCEPT ![o] = call[c].user]
      BY <1>6, <1>c DEF EnsurePersonal, Found, SetRole, On
    <2>2. orgOwner' \in [Orgs -> Users \cup {NoUser, "gone"}]
      BY <1>t, <2>1
    <2>3. role' \in [Orgs -> [Users -> Roles \cup {"none"}]]
      BY <1>t, <2>1, RoleIsTyped DEF Roles
    <2>4. activeOrg' \in [Users -> Orgs \cup {NoOrg}]
      BY <1>t, <2>1
    <2>. QED
      BY <1>f, <1>g, <1>t, <1>q, <2>1, <2>2, <2>3, <2>4
  <1>7. ASSUME NEW c \in Calls, Enter(c)
        PROVE  Held'
    <2>1. activeOrg' \in [Users -> Orgs \cup {NoOrg}]
      BY <1>7, <1>t, <1>c DEF Enter
    <2>. QED
      BY <1>7, <1>f, <1>g, <1>t, <1>q, <2>1 DEF Enter
  <1>8. ASSUME NEW c \in Calls, Invite(c) \/ Revoke(c)
        PROVE  Held'
    <2>1. /\ Hangup(c) /\ call[c].other \in Users /\ call[c].org \in Orgs
          /\ UNCHANGED <<orgRows, apiKey>>
          /\ invited' = invited \/ (invited < MaxInvites /\ invited' = invited + 1)
          /\ \/ pending' = pending
             \/ pending' = [pending EXCEPT ![call[c].org] = @ \cup {call[c].other}]
             \/ pending' = [pending EXCEPT ![call[c].org] = @ \ {call[c].other}]
      <3>1. CASE Invite(c)
        BY <3>1, <1>c DEF Invite, On
      <3>2. CASE Revoke(c)
        BY <3>2, <1>c DEF Revoke, On
      <3>. QED
        BY <1>8, <3>1, <3>2
    <2>2. pending' \in [Orgs -> SUBSET Users]
      BY <1>t, <2>1
    <2>3. invited' \in 0 .. MaxInvites
      BY <1>t, <2>1
    <2>. QED
      BY <1>f, <1>g, <1>t, <1>q, <2>1, <2>2, <2>3
  <1>9. ASSUME NEW c \in Calls, Accept(c)
        PROVE  Held'
    <2>1. /\ Hangup(c) /\ call[c].user \in Users /\ call[c].org \in Orgs
          /\ UNCHANGED <<orgOwner, invited, apiKey>>
          /\ activeOrg' = activeOrg \/ activeOrg' = [activeOrg EXCEPT ![call[c].user] = call[c].org]
          /\ pending' = pending \/ pending' = [pending EXCEPT ![call[c].org] = @ \ {call[c].user}]
          /\ \/ role' = role
             \/ \E r \in OfferedRoles \cup {role[call[c].org][call[c].user]} :
                  role' = [role EXCEPT ![call[c].org][call[c].user] = r]
      BY <1>9, <1>c DEF Accept, SetRole, On
    <2>2. role' \in [Orgs -> [Users -> Roles \cup {"none"}]]
      <3>1. ASSUME NEW r \in OfferedRoles \cup {role[call[c].org][call[c].user]},
                   role' = [role EXCEPT ![call[c].org][call[c].user] = r]
            PROVE  role' \in [Orgs -> [Users -> Roles \cup {"none"}]]
        <4>1. role[call[c].org][call[c].user] \in Roles \cup {"none"}
          BY <1>t, <2>1
        <4>2. r \in Roles \cup {"none"}
          BY <3>1, <4>1 DEF Roles
        <4>. QED
          BY <1>t, <2>1, <3>1, <4>2, RoleIsTyped
      <3>. QED
        BY <1>t, <2>1, <3>1
    <2>3. activeOrg' \in [Users -> Orgs \cup {NoOrg}]
      BY <1>t, <2>1
    <2>4. pending' \in [Orgs -> SUBSET Users]
      BY <1>t, <2>1
    <2>. QED
      BY <1>f, <1>g, <1>t, <1>q, <2>1, <2>2, <2>3, <2>4
  <1>10. ASSUME NEW c \in Calls, Remove(c) \/ Leave(c)
        PROVE  Held'
    <2>1. /\ UNCHANGED <<orgOwner, activeOrg, pending, invited, apiKey>>
          /\ call[c].user \in Users
          /\ \E step \in {"reassign", "moveOn"} :
               /\ Goto(c, step)
               /\ step = "reassign" => On(c, "remove")
               /\ step = "moveOn" => On(c, "leave")
          /\ \E u \in Users \cup {NoUser} : role' = [role EXCEPT ![call[c].org][u] = "none"]
      BY <1>10, <1>c, <1>t DEF Remove, Leave, SetRole, On, Row
    <2>2. CallOK' /\ call' \in [Calls -> Row]
      BY <2>1, StepIsTyped DEF Row, CallSteps
    <2>3. role' \in [Orgs -> [Users -> Roles \cup {"none"}]]
      BY <1>t, <1>c, <2>1, RoleIsTyped DEF On
    <2>. QED
      BY <1>g, <1>t, <1>q, <2>1, <2>2, <2>3
  <1>11. ASSUME NEW c \in Calls, Reassign(c) \/ MoveOn(c)
        PROVE  Held'
    <2>1. /\ Hangup(c) /\ UNCHANGED <<orgOwner, role, pending, invited, apiKey>>
          /\ \E p \in Orgs \cup {NoOrg}, u \in Users : activeOrg' = [activeOrg EXCEPT ![u] = p]
             \/ activeOrg' = [activeOrg EXCEPT ![u] = activeOrg[u]]
      BY <1>11, <1>c DEF Reassign, MoveOn, On, SomeOrg, OtherOrgs
    <2>2. activeOrg' \in [Users -> Orgs \cup {NoOrg}]
      BY <1>t, <2>1
    <2>. QED
      BY <1>f, <1>g, <1>t, <1>q, <2>1, <2>2
  <1>12. ASSUME NEW c \in Calls, ChangeRole(c)
        PROVE  Held'
    <2>1. /\ Hangup(c) /\ UNCHANGED <<orgOwner, activeOrg, pending, invited, apiKey>>
          /\ \E r \in OfferedRoles \cup {"none"} :
               role' = [role EXCEPT ![call[c].org][call[c].other] = r]
      BY <1>12 DEF ChangeRole, SetRole
    <2>2. role' \in [Orgs -> [Users -> Roles \cup {"none"}]]
      <3>1. ASSUME NEW r \in OfferedRoles \cup {"none"},
                   role' = [role EXCEPT ![call[c].org][call[c].other] = r]
            PROVE  role' \in [Orgs -> [Users -> Roles \cup {"none"}]]
        <4>1. r \in Roles \cup {"none"}
          BY DEF Roles
        <4>. QED
          BY <1>t, <1>12, <1>c, <3>1, <4>1, RoleIsTyped DEF ChangeRole, On
      <3>. QED
        BY <2>1, <3>1
    <2>. QED
      BY <1>f, <1>g, <1>t, <1>q, <2>1, <2>2
  <1>13. ASSUME NEW c \in Calls, DeleteOrg(c)
        PROVE  Held'
    <2>1. /\ Hangup(c) /\ UNCHANGED invited /\ call[c].org \in Orgs
          /\ orgOwner' = [orgOwner EXCEPT ![call[c].org] = "gone"]
          /\ role' = [role EXCEPT ![call[c].org] = [u \in Users |-> "none"]]
          /\ pending' = [pending EXCEPT ![call[c].org] = {}]
          /\ apiKey' = apiKey \/ apiKey' = [apiKey EXCEPT !.org = NoOrg]
          /\ activeOrg' \in [Users -> Orgs \cup {NoOrg}]
      BY <1>13, <1>c DEF DeleteOrg, On
    <2>2. role' \in [Orgs -> [Users -> Roles \cup {"none"}]]
      BY <1>t, <2>1
    <2>3. KeyOK' /\ apiKey' \in [user : Users \cup {NoUser}, org : Orgs \cup {NoOrg}]
      BY <1>t, <2>1 DEF KeyOK, NoKey
    <2>. QED
      BY <1>f, <1>g, <1>t, <2>1, <2>2, <2>3
  <1>14. ASSUME NEW c \in Calls, ManageKey(c)
        PROVE  Held'
    <2>1. /\ Hangup(c) /\ UNCHANGED <<orgRows, pending, invited>>
          /\ apiKey' \in {apiKey, NoKey, [user |-> call[c].user, org |-> call[c].org]}
          /\ call[c].user \in Users
      BY <1>14, <1>c DEF ManageKey, On
    <2>2. KeyOK' /\ apiKey' \in [user : Users \cup {NoUser}, org : Orgs \cup {NoOrg}]
      BY <1>t, <1>c, <2>1 DEF KeyOK, NoKey
    <2>. QED
      BY <1>f, <1>g, <1>t, <2>1, <2>2
  <1>15. ASSUME NEW c \in Calls, RunTool(c)
        PROVE  Held'
    BY <1>15, <1>f, <1>g, <1>t, <1>q DEF RunTool
  <1>16. ASSUME NEW o \in Orgs, NEW u \in Users, InviteExpires(o, u)
        PROVE  Held'
    <2>1. pending' \in [Orgs -> SUBSET Users]
      BY <1>16, <1>t DEF InviteExpires
    <2>. QED
      BY <1>16, <1>k, <1>g, <1>t, <1>q, <2>1 DEF InviteExpires
  <1>17. CASE UNCHANGED workspaceVars
    BY <1>17, <1>k, <1>g, <1>t, <1>q DEF workspaceVars
  <1>. QED
    BY <1>1, <1>2, <1>3, <1>4, <1>5, <1>6, <1>7, <1>8, <1>9, <1>10, <1>11, <1>12, <1>13, <1>14,
       <1>15, <1>16, <1>17 DEF WorkspaceNext, CallStep

(***************************************************************************)
(* One owner.                                                              *)
(***************************************************************************)
\* OneOwner, user by user.
RoleRule ==
  \A o \in Orgs, u \in Users :
    /\ role[o][u] = "OWNER" <=> orgOwner[o] = u
    /\ ~Exists(o) => role[o][u] = "none"

LEMMA OneOwnerMeans == OneOwner <=> RoleRule
  BY DEF OneOwner, RoleRule, Exists, Members

\* An owner stays as long as the workspace.
Ages == \A o \in Orgs : orgOwner[o] = NoUser \/ orgOwner'[o] \in {orgOwner[o], "gone"}

LEMMA OwnersAge ==
  ASSUME Held, [WorkspaceNext]_workspaceVars
  PROVE  Ages
  <1>. USE DEF orgRows, Ages, Held, WorkspaceTypeOK
  <1>1. ASSUME NEW c \in Calls, NEW o \in Orgs, CreateOrg(c, o) \/ EnsurePersonal(c, o)
        PROVE  Ages
    BY <1>1 DEF CreateOrg, EnsurePersonal, Found
  <1>2. ASSUME NEW c \in Calls, DeleteOrg(c)
        PROVE  Ages
    BY <1>2 DEF DeleteOrg
  <1>3. ASSUME UNCHANGED orgOwner
        PROVE  Ages
    BY <1>3
  <1>4. CASE UNCHANGED workspaceVars
    BY <1>3, <1>4 DEF workspaceVars
  <1>5. ASSUME NEW o \in Orgs, NEW u \in Users, InviteExpires(o, u)
        PROVE  Ages
    BY <1>3, <1>5 DEF InviteExpires
  <1>6. ASSUME NEW c \in Calls, CallStep(c)
        PROVE  Ages
    BY <1>1, <1>2, <1>3, <1>6 DEF CallStep, Authenticate, UseKey, Unset, Look, Enter, Invite, Revoke,
       Accept, Remove, Reassign, ChangeRole, Leave, MoveOn, ManageKey, RunTool
  <1>. QED
    BY <1>4, <1>5, <1>6 DEF WorkspaceNext

LEMMA HandsStayOff ==
  ASSUME Held, HandsOff, Ages, NEW c \in Calls,
         \A d \in Calls \ {c} : call'[d] = call[d],
         call'[c].step \notin {"remove", "role", "leave", "personal"}
  PROVE  HandsOff'
  <1>. USE WorkspaceAssumption DEF WorkspaceAssumption, On, Held, CallOK, HandsOff, Ages
  <1>. SUFFICES ASSUME NEW d \in Calls
                PROVE  LET o == call'[d].org
                       IN /\ call'[d].step \in {"remove", "role"} => orgOwner'[o] \notin {NoUser, call'[d].other}
                          /\ call'[d].step = "leave" => orgOwner'[o] \notin {NoUser, call'[d].user}
                          /\ call'[d].step = "personal" /\ o # NoOrg => orgOwner'[o] \in {call'[d].user, "gone"}
    OBVIOUS
  <1>1. CASE d = c
    BY <1>1
  <1>2. CASE d # c
    <2>1. call'[d] = call[d]
      BY <1>2
    <2>2. call[d].org \in Orgs \cup {NoOrg}
      BY DEF WorkspaceTypeOK
    <2>. QED
      BY <2>1, <2>2
  <1>. QED
    BY <1>1, <1>2

LEMMA RoleRuleKept ==
  ASSUME RoleRule, UNCHANGED <<orgOwner, role>>
  PROVE  RoleRule'
  BY DEF RoleRule, Exists

\* One role changes: not the owner's, and to anything but OWNER.
LEMMA OtherRoleChanges ==
  ASSUME Held, RoleRule, orgOwner' = orgOwner, NEW o \in Orgs, NEW v \in Users,
         NEW r \in Roles \cup {"none"}, r # "OWNER", orgOwner[o] # v,
         r = "none" \/ Exists(o), role' = [role EXCEPT ![o][v] = r]
  PROVE  RoleRule'
  <1>1. ASSUME NEW p \in Orgs, NEW u \in Users
        PROVE  role'[p][u] = IF p = o /\ u = v THEN r ELSE role[p][u]
    BY DEF Held, WorkspaceTypeOK
  <1>. QED
    BY <1>1 DEF RoleRule, Exists

LEMMA FoundIsRuled ==
  ASSUME Held, RoleRule, NEW c \in Calls, NEW o \in Orgs, Found(c, o), call[c].user \in Users
  PROVE  RoleRule'
  <1>. USE WorkspaceAssumption DEF WorkspaceAssumption
  <1>1. /\ orgOwner[o] = NoUser
        /\ \A p \in Orgs : orgOwner'[p] = IF p = o THEN call[c].user ELSE orgOwner[p]
    BY DEF Found, Held, WorkspaceTypeOK
  <1>2. ASSUME NEW p \in Orgs, NEW u \in Users
        PROVE  role'[p][u] = IF p = o /\ u = call[c].user THEN "OWNER" ELSE role[p][u]
    BY DEF Found, SetRole, Held, WorkspaceTypeOK
  <1>. QED
    BY <1>1, <1>2 DEF RoleRule, Exists

LEMMA OwnerStep ==
  ASSUME Held, RoleRule, HandsOff, [WorkspaceNext]_workspaceVars
  PROVE  RoleRule' /\ HandsOff'
  <1>. USE WorkspaceAssumption DEF WorkspaceAssumption, orgRows
  <1>a. Ages
    BY OwnersAge
  <1>t. /\ call \in [Calls -> Row]
        /\ orgOwner \in [Orgs -> Users \cup {NoUser, "gone"}]
        /\ role \in [Orgs -> [Users -> Roles \cup {"none"}]]
    BY DEF Held, WorkspaceTypeOK, Row
  <1>c. ASSUME NEW c \in Calls
        PROVE  /\ call[c].step \notin {"idle", "mcp"} => call[c].user \in Users
               /\ call[c].step \in {"enter", "invite", "revoke", "accept", "remove", "reassign", "role",
                                    "leave", "moveOn", "delete"} => call[c].org \in Orgs
               /\ call[c].step \in {"invite", "revoke", "remove", "reassign", "role"}
                  => call[c].other \in Users
    BY DEF Held, CallOK
  <1>h. ASSUME NEW c \in Calls, NEW f, call' = [call EXCEPT ![c] = f],
               f.step \notin {"remove", "role", "leave", "personal"}
        PROVE  HandsOff'
    <2>1. call'[c] = f /\ \A d \in Calls \ {c} : call'[d] = call[d]
      BY <1>h, <1>t
    <2>. QED
      BY <1>h, <1>a, <2>1, HandsStayOff
  <1>f. ASSUME NEW c \in Calls, Hangup(c)
        PROVE  HandsOff'
    <2>1. Free.step \notin {"remove", "role", "leave", "personal"}
      BY DEF Free
    <2>. QED
      BY <1>f, <1>h, <2>1 DEF Hangup
  <1>s. ASSUME NEW c \in Calls, NEW step \in {"ready", "reassign", "moveOn"}, Goto(c, step)
        PROVE  HandsOff'
    <2>1. [call[c] EXCEPT !.step = step].step = step
      BY <1>t DEF Row
    <2>. QED
      BY <1>s, <1>h, <2>1 DEF Goto
  <1>1. ASSUME NEW c \in Calls, NEW u \in Users, Authenticate(c, u)
        PROVE  RoleRule' /\ HandsOff'
    <2>. DEFINE o == activeOrg[u]
                f == [Free EXCEPT !.user = u, !.org = IF RoleIn(u, o) # "none" THEN o ELSE NoOrg,
                        !.step = IF o = NoOrg \/ RoleIn(u, o) # "none" THEN "ready" ELSE "unset"]
    <2>1. f.step \in {"ready", "unset"}
      BY DEF Free
    <2>2. call' = [call EXCEPT ![c] = f] /\ UNCHANGED <<orgOwner, role>>
      BY <1>1 DEF Authenticate
    <2>. HIDE DEF f
    <2>. QED
      BY <1>h, <2>1, <2>2, RoleRuleKept
  <1>2. ASSUME NEW c \in Calls, UseKey(c)
        PROVE  RoleRule' /\ HandsOff'
    <2>. DEFINE f == [Free EXCEPT !.step = "mcp", !.user = apiKey.user, !.org = apiKey.org]
    <2>1. f.step = "mcp"
      BY DEF Free
    <2>2. call' = [call EXCEPT ![c] = f] /\ UNCHANGED <<orgOwner, role>>
      BY <1>2 DEF UseKey
    <2>. HIDE DEF f
    <2>. QED
      BY <1>h, <2>1, <2>2, RoleRuleKept
  <1>3. ASSUME NEW c \in Calls, Unset(c)
        PROVE  RoleRule' /\ HandsOff'
    BY <1>3, <1>s, RoleRuleKept DEF Unset
  <1>4. ASSUME NEW c \in Calls, Look(c)
        PROVE  RoleRule' /\ HandsOff'
    <2>. DEFINE u == call[c].user
                o == call[c].org
    <2>1. LookStep(c) /\ On(c, "ready") /\ UNCHANGED <<orgRows, pending, invited, apiKey>>
      BY <1>4, LookChooses
    <2>2. RoleRule'
      BY <2>1, RoleRuleKept
    <2>3. ASSUME NEW step, NEW org, NEW other, Turn(c, step, org, other)
          PROVE  /\ call'[c].step = step /\ call'[c].user = u /\ call'[c].org = org
                 /\ call'[c].other = other
                 /\ \A d \in Calls \ {c} : call'[d] = call[d]
      BY <2>3, <1>t DEF Turn, Row
    <2>4. ASSUME NEW step, NEW org, NEW other, Turn(c, step, org, other),
                 step \notin {"remove", "role", "leave", "personal"}
          PROVE  HandsOff'
      BY <2>3, <2>4, <1>a, HandsStayOff
    <2>5. ASSUME NEW step \in {"remove", "role", "leave", "personal"}, NEW org, NEW other,
                 Turn(c, step, org, other),
                 step \in {"remove", "role"} => orgOwner[org] \notin {NoUser, other},
                 step = "leave" => orgOwner[org] \notin {NoUser, u},
                 step = "personal" /\ org # NoOrg => orgOwner[org] = u
          PROVE  HandsOff'
      <3>1. ASSUME NEW d \in Calls
            PROVE  LET p == call'[d].org
                   IN /\ call'[d].step \in {"remove", "role"} => orgOwner[p] \notin {NoUser, call'[d].other}
                      /\ call'[d].step = "leave" => orgOwner[p] \notin {NoUser, call'[d].user}
                      /\ call'[d].step = "personal" /\ p # NoOrg => orgOwner[p] \in {call'[d].user, "gone"}
        <4>1. CASE d = c
          BY <4>1, <2>3, <2>5
        <4>2. CASE d # c
          BY <4>2, <2>3, <2>5 DEF HandsOff, On
        <4>. QED
          BY <4>1, <4>2
      <3>. QED
        BY <3>1, <2>1 DEF HandsOff, On
    <2>6. ASSUME o \in Orgs, NEW v \in Users, MayChange(u, o, v)
          PROVE  orgOwner[o] \notin {NoUser, v}
      BY <2>6, <1>c, <2>1 DEF MayChange, Owns, RoleIn, RoleRule, On
    <2>7. ASSUME o \in Orgs, RoleIn(u, o) \notin {"none", "OWNER"}
          PROVE  orgOwner[o] \notin {NoUser, u}
      BY <2>7, <1>c, <1>t, <2>1 DEF RoleIn, RoleRule, On, Exists
    <2>. HIDE DEF u, o
    <2>8. HandsOff'
      <3>1. \/ \E step \in {"create", "key"} : Turn(c, step, NoOrg, NoUser)
            \/ \E p \in Orgs \cup {NoOrg} :
                 (p # NoOrg => orgOwner[p] = u) /\ Turn(c, "personal", p, NoUser)
            \/ \E p \in Orgs, step \in {"enter", "accept"} : Turn(c, step, p, NoUser)
            \/ \E v \in Users, step \in {"invite", "revoke"} : Turn(c, step, o, v)
            \/ o \in Orgs /\ \E v \in Users, step \in {"remove", "role"} :
                               MayChange(u, o, v) /\ Turn(c, step, o, v)
            \/ o \in Orgs /\ RoleIn(u, o) \notin {"none", "OWNER"} /\ Turn(c, "leave", o, NoUser)
            \/ \E step \in {"delete", "key"} : Turn(c, step, o, NoUser)
        BY <2>1 DEF LookStep, u, o
      <3>. QED
        BY <3>1, <2>4, <2>5, <2>6, <2>7
    <2>. QED
      BY <2>2, <2>8
  <1>5. ASSUME NEW c \in Calls, NEW o \in Orgs, CreateOrg(c, o)
        PROVE  RoleRule' /\ HandsOff'
    <2>. DEFINE f == [call[c] EXCEPT !.step = "enter", !.org = o]
    <2>1. f.step = "enter"
      BY <1>t DEF Row
    <2>2. call' = [call EXCEPT ![c] = f] /\ Found(c, o) /\ call[c].user \in Users
      BY <1>5, <1>c DEF CreateOrg, On
    <2>. HIDE DEF f
    <2>. QED
      BY <1>h, <2>1, <2>2, FoundIsRuled
  <1>6. ASSUME NEW c \in Calls, NEW o \in Orgs, EnsurePersonal(c, o)
        PROVE  RoleRule' /\ HandsOff'
    <2>1. Hangup(c) /\ call[c].user \in Users
      BY <1>6, <1>c DEF EnsurePersonal, On
    <2>2. CASE Found(c, o)
      BY <1>f, <2>1, <2>2, FoundIsRuled
    <2>3. CASE call[c].org = o /\ Exists(o) /\ SetRole(o, call[c].user, "OWNER") /\ UNCHANGED orgOwner
      <3>1. orgOwner[o] = call[c].user
        BY <1>6, <2>3 DEF EnsurePersonal, HandsOff, Exists
      <3>2. role[o][call[c].user] = "OWNER"
        BY <3>1, <2>1 DEF RoleRule
      <3>3. role' = role
        BY <2>1, <2>3, <3>2, <1>t DEF SetRole
      <3>. QED
        BY <1>f, <2>1, <2>3, <3>3, RoleRuleKept
    <2>. QED
      BY <1>6, <2>2, <2>3 DEF EnsurePersonal
  <1>7. ASSUME NEW c \in Calls, \/ Enter(c) \/ Invite(c) \/ Revoke(c) \/ Reassign(c) \/ MoveOn(c)
                                \/ ManageKey(c) \/ RunTool(c)
        PROVE  RoleRule' /\ HandsOff'
    <2>1. Hangup(c) /\ UNCHANGED <<orgOwner, role>>
      BY <1>7 DEF Enter, Invite, Revoke, Reassign, MoveOn, ManageKey, RunTool
    <2>. QED
      BY <1>f, <2>1, RoleRuleKept
  <1>8. ASSUME NEW c \in Calls, Accept(c)
        PROVE  RoleRule' /\ HandsOff'
    <2>. DEFINE o == call[c].org
                u == call[c].user
    <2>1. Hangup(c) /\ u \in Users /\ o \in Orgs /\ orgOwner' = orgOwner
          /\ \/ role' = role
             \/ Exists(o) /\ \E r \in OfferedRoles :
                  role' = [role EXCEPT ![o][u] = IF role[o][u] = "none" THEN r ELSE role[o][u]]
      BY <1>8, <1>c DEF Accept, SetRole, On
    <2>2. RoleRule'
      <3>1. CASE role' = role
        BY <2>1, <3>1, RoleRuleKept
      <3>2. ASSUME role[o][u] # "none", role' = [role EXCEPT ![o][u] = role[o][u]]
            PROVE  role' = role
        BY <3>2, <2>1, <1>t
      <3>3. ASSUME Exists(o), role[o][u] = "none", NEW r \in OfferedRoles,
                   role' = [role EXCEPT ![o][u] = r]
            PROVE  RoleRule'
        <4>1. orgOwner[o] # u
          BY <2>1, <3>3 DEF RoleRule
        <4>2. r \in Roles /\ r # "OWNER"
          BY <3>3 DEF Roles
        <4>. QED
          BY <2>1, <3>3, <4>1, <4>2, OtherRoleChanges
      <3>. QED
        BY <2>1, <3>1, <3>2, <3>3
    <2>. QED
      BY <1>f, <2>1, <2>2
  <1>9. ASSUME NEW c \in Calls, Remove(c) \/ Leave(c)
        PROVE  RoleRule' /\ HandsOff'
    <2>1. /\ orgOwner' = orgOwner /\ call[c].org \in Orgs
          /\ \E step \in {"reassign", "moveOn"} : Goto(c, step)
          /\ \E v \in Users : /\ orgOwner[call[c].org] # v
                              /\ role' = [role EXCEPT ![call[c].org][v] = "none"]
      BY <1>9, <1>c DEF Remove, Leave, SetRole, On, HandsOff
    <2>2. RoleRule'
      BY <2>1, OtherRoleChanges
    <2>. QED
      BY <1>s, <2>1, <2>2
  <1>10. ASSUME NEW c \in Calls, ChangeRole(c)
        PROVE  RoleRule' /\ HandsOff'
    <2>. DEFINE o == call[c].org
                v == call[c].other
    <2>1. /\ Hangup(c) /\ orgOwner' = orgOwner /\ o \in Orgs /\ v \in Users /\ orgOwner[o] # v
          /\ \E r \in OfferedRoles : role' = [role EXCEPT ![o][v] = IF role[o][v] = "none" THEN "none" ELSE r]
      BY <1>10, <1>c DEF ChangeRole, SetRole, On, HandsOff
    <2>2. PICK r \in OfferedRoles : role' = [role EXCEPT ![o][v] = IF role[o][v] = "none" THEN "none" ELSE r]
      BY <2>1
    <2>3. r \in Roles /\ r # "OWNER"
      BY DEF Roles
    <2>4. RoleRule'
      <3>1. CASE role[o][v] = "none"
        BY <2>1, <2>2, <3>1, OtherRoleChanges
      <3>2. CASE role[o][v] # "none"
        <4>1. Exists(o)
          BY <2>1, <3>2 DEF RoleRule
        <4>. QED
          BY <2>1, <2>2, <2>3, <3>2, <4>1, OtherRoleChanges
      <3>. QED
        BY <3>1, <3>2
    <2>. QED
      BY <1>f, <2>1, <2>4
  <1>11. ASSUME NEW c \in Calls, DeleteOrg(c)
        PROVE  RoleRule' /\ HandsOff'
    <2>1. /\ Hangup(c) /\ call[c].org \in Orgs
          /\ orgOwner' = [orgOwner EXCEPT ![call[c].org] = "gone"]
          /\ role' = [role EXCEPT ![call[c].org] = [u \in Users |-> "none"]]
      BY <1>11, <1>c DEF DeleteOrg, On
    <2>2. RoleRule'
      BY <2>1, <1>t DEF RoleRule, Exists
    <2>. QED
      BY <1>f, <2>1, <2>2
  <1>12. ASSUME UNCHANGED <<orgOwner, role, call>>
        PROVE  RoleRule' /\ HandsOff'
    BY <1>12, RoleRuleKept DEF HandsOff, On
  <1>13. CASE UNCHANGED workspaceVars
    BY <1>12, <1>13 DEF workspaceVars
  <1>14. ASSUME NEW o \in Orgs, NEW u \in Users, InviteExpires(o, u)
        PROVE  RoleRule' /\ HandsOff'
    BY <1>12, <1>14 DEF InviteExpires
  <1>. QED
    BY <1>1, <1>2, <1>3, <1>4, <1>5, <1>6, <1>7, <1>8, <1>9, <1>10, <1>11, <1>13, <1>14
       DEF WorkspaceNext, CallStep

(***************************************************************************)
(* The team limit.                                                         *)
(***************************************************************************)
LEMMA TeamIsFinite ==
  ASSUME Held, NEW o \in Orgs
  PROVE  Team(o) \subseteq Users /\ IsFiniteSet(Team(o))
  <1>1. Team(o) \subseteq Users
    BY DEF Team, Members, Guests, Accepting, On, Held, CallOK
  <1>. QED
    BY <1>1, FS_Subset, WorkspaceAssumption DEF WorkspaceAssumption

\* One call moves, and not to its acceptance.
LEMMA GuestsShrink ==
  ASSUME NEW c \in Calls, \A d \in Calls \ {c} : call'[d] = call[d], NEW o,
         call'[c].step # "accept" \/ call'[c].org # o
  PROVE  Guests(o)' \subseteq Guests(o)
  BY DEF Guests, Accepting, On

LEMMA TeamShrinks ==
  ASSUME Held, TeamBounded, NEW o \in Orgs, Team(o)' \subseteq Team(o)
  PROVE  Cardinality(Team(o)') <= MaxTeam + Cardinality(Calls) - 1
  <1>. USE WorkspaceAssumption DEF WorkspaceAssumption
  <1>1. IsFiniteSet(Team(o))
    BY TeamIsFinite
  <1>2. /\ IsFiniteSet(Team(o)') /\ Cardinality(Team(o)') <= Cardinality(Team(o))
    BY <1>1, FS_Subset
  <1>3. Cardinality(Team(o)) \in Nat /\ Cardinality(Team(o)') \in Nat /\ Cardinality(Calls) \in Nat
    BY <1>1, <1>2, FS_CardinalityType
  <1>4. Cardinality(Team(o)) <= MaxTeam + Cardinality(Calls) - 1
    BY DEF TeamBounded
  <1>. QED
    BY <1>2, <1>3, <1>4

LEMMA UnionIsSmall ==
  ASSUME NEW M, IsFiniteSet(M), NEW G, IsFiniteSet(G)
  PROVE  /\ IsFiniteSet(M \cup G)
         /\ Cardinality(M \cup G) \in Nat /\ Cardinality(M) \in Nat /\ Cardinality(G) \in Nat
         /\ Cardinality(M \cup G) <= Cardinality(M) + Cardinality(G)
  <1>1. /\ IsFiniteSet(M \cap G) /\ IsFiniteSet(M \cup G)
        /\ Cardinality(M \cup G) = Cardinality(M) + Cardinality(G) - Cardinality(M \cap G)
    BY FS_Union, FS_Intersection
  <1>2. /\ Cardinality(M) \in Nat /\ Cardinality(G) \in Nat /\ Cardinality(M \cap G) \in Nat
        /\ Cardinality(M \cup G) \in Nat
    BY <1>1, FS_CardinalityType
  <1>. QED
    BY <1>1, <1>2

\* A call that looks while there is room may join others who have looked.
LEMMA RoomForOne ==
  ASSUME Held, NEW o \in Orgs, UNCHANGED role, RoomInTeam(o), call' \in [Calls -> Row]
  PROVE  Cardinality(Team(o)') <= MaxTeam + Cardinality(Calls) - 1
  <1>. USE WorkspaceAssumption DEF WorkspaceAssumption
  <1>1. Members(o)' = Members(o) /\ Members(o) \subseteq Users
    BY DEF Members
  <1>2. IsFiniteSet(Members(o)) /\ Cardinality(Members(o)) \in Nat
    BY <1>1, FS_Subset, FS_CardinalityType
  <1>3. Cardinality(Members(o)) <= MaxTeam - 1
    BY <1>2 DEF RoomInTeam, TeamSize
  <1>. DEFINE C == {c \in Calls : call'[c].step = "accept" /\ call'[c].org = o}
              g == [c \in C |-> call'[c].user]
  <1>4. C \in SUBSET Calls
    OBVIOUS
  <1>5. g \in Surjection(C, Guests(o)')
    BY DEF Surjection, Guests, Accepting, On
  <1>. HIDE DEF C, g
  <1>6. IsFiniteSet(C) /\ Cardinality(C) <= Cardinality(Calls)
    BY <1>4, FS_Subset
  <1>7. IsFiniteSet(Guests(o)') /\ Cardinality(Guests(o)') <= Cardinality(C)
    BY <1>5, <1>6, FS_Surjection
  <1>8. Cardinality(C) \in Nat /\ Cardinality(Calls) \in Nat
    BY <1>6, FS_CardinalityType
  <1>9. /\ Cardinality(Members(o) \cup Guests(o)') <= Cardinality(Members(o)) + Cardinality(Guests(o)')
        /\ Cardinality(Members(o) \cup Guests(o)') \in Nat /\ Cardinality(Guests(o)') \in Nat
    BY <1>2, <1>7, UnionIsSmall
  <1>10. Cardinality(Members(o) \cup Guests(o)') <= MaxTeam + Cardinality(Calls) - 1
    BY <1>2, <1>3, <1>6, <1>7, <1>8, <1>9
  <1>. QED
    BY <1>1, <1>10 DEF Team

\* A new workspace has its owner, and at most the other calls at its door.
LEMMA FoundWithRoom ==
  ASSUME Held, RoleRule, NEW c \in Calls, NEW o \in Orgs, Found(c, o), call[c].user \in Users,
         call'[c].step # "accept"
  PROVE  Cardinality(Team(o)') <= MaxTeam + Cardinality(Calls) - 1
  <1>. USE WorkspaceAssumption DEF WorkspaceAssumption
  <1>. DEFINE M == {call[c].user}
              C == {d \in Calls : call'[d].step = "accept" /\ call'[d].org = o}
              g == [d \in C |-> call'[d].user]
  <1>1. Members(o)' = M
    <2>1. \A u \in Users : role[o][u] = "none"
      BY DEF Found, RoleRule, Exists
    <2>2. \A u \in Users : role'[o][u] = IF u = call[c].user THEN "OWNER" ELSE role[o][u]
      BY DEF Found, SetRole, Held, WorkspaceTypeOK
    <2>. QED
      BY <2>1, <2>2 DEF Members
  <1>2. IsFiniteSet(M) /\ Cardinality(M) = 1
    BY FS_Singleton
  <1>3. IsFiniteSet(Calls \ {c}) /\ Cardinality(Calls \ {c}) = Cardinality(Calls) - 1
    BY FS_RemoveElement
  <1>4. C \in SUBSET (Calls \ {c})
    OBVIOUS
  <1>5. g \in Surjection(C, Guests(o)')
    BY DEF Surjection, Guests, Accepting, On
  <1>. HIDE DEF C, M, g
  <1>6. IsFiniteSet(C) /\ Cardinality(C) <= Cardinality(Calls \ {c})
    BY <1>3, <1>4, FS_Subset
  <1>7. IsFiniteSet(Guests(o)') /\ Cardinality(Guests(o)') <= Cardinality(C)
    BY <1>5, <1>6, FS_Surjection
  <1>8. Cardinality(C) \in Nat /\ Cardinality(Calls) \in Nat
    BY <1>6, FS_CardinalityType
  <1>9. /\ Cardinality(M \cup Guests(o)') <= Cardinality(M) + Cardinality(Guests(o)')
        /\ Cardinality(M \cup Guests(o)') \in Nat /\ Cardinality(Guests(o)') \in Nat
    BY <1>2, <1>7, UnionIsSmall
  <1>10. Cardinality(M \cup Guests(o)') <= MaxTeam + Cardinality(Calls) - 1
    BY <1>2, <1>3, <1>6, <1>7, <1>8, <1>9
  <1>. QED
    BY <1>1, <1>10 DEF Team

LEMMA TeamStep ==
  ASSUME Held, Held', RoleRule, HandsOff, TeamBounded, [WorkspaceNext]_workspaceVars
  PROVE  TeamBounded'
  <1>. USE DEF orgRows
  <1>t. /\ call \in [Calls -> Row] /\ call' \in [Calls -> Row]
        /\ role \in [Orgs -> [Users -> Roles \cup {"none"}]]
    BY DEF Held, WorkspaceTypeOK, Row
  <1>c. ASSUME NEW c \in Calls
        PROVE  /\ call[c].step \notin {"idle", "mcp"} => call[c].user \in Users
               /\ call[c].step \in {"enter", "invite", "revoke", "accept", "remove", "reassign", "role",
                                    "leave", "moveOn", "delete"} => call[c].org \in Orgs
    BY DEF Held, CallOK
  <1>. SUFFICES ASSUME NEW o \in Orgs
                PROVE  Cardinality(Team(o)') <= MaxTeam + Cardinality(Calls) - 1
    BY DEF TeamBounded
  <1>s. ASSUME NEW c \in Calls, \A d \in Calls \ {c} : call'[d] = call[d],
               call'[c].step # "accept" \/ call'[c].org # o, Members(o)' \subseteq Team(o)
        PROVE  Cardinality(Team(o)') <= MaxTeam + Cardinality(Calls) - 1
    <2>1. Guests(o)' \subseteq Guests(o)
      BY <1>s, GuestsShrink
    <2>2. Team(o)' \subseteq Team(o)
      BY <1>s, <2>1 DEF Team
    <2>. QED
      BY <2>2, TeamShrinks
  <1>m. ASSUME \A u \in Users : role'[o][u] = "none" \/ role[o][u] # "none"
        PROVE  Members(o)' \subseteq Team(o)
    BY <1>m DEF Members, Team
  <1>f. ASSUME NEW c \in Calls, NEW f, call' = [call EXCEPT ![c] = f], f.step # "accept"
        PROVE  call'[c].step # "accept" /\ \A d \in Calls \ {c} : call'[d] = call[d]
    BY <1>f, <1>t
  <1>h. ASSUME NEW c \in Calls, Hangup(c)
        PROVE  call'[c].step # "accept" /\ \A d \in Calls \ {c} : call'[d] = call[d]
    <2>1. Free.step # "accept"
      BY DEF Free
    <2>. QED
      BY <1>h, <1>f, <2>1 DEF Hangup
  <1>g. ASSUME NEW c \in Calls, NEW step \in {"ready", "reassign", "moveOn"}, Goto(c, step)
        PROVE  call'[c].step # "accept" /\ \A d \in Calls \ {c} : call'[d] = call[d]
    BY <1>g, <1>t DEF Goto, Row
  <1>1. ASSUME NEW c \in Calls, NEW u \in Users, Authenticate(c, u)
        PROVE  Cardinality(Team(o)') <= MaxTeam + Cardinality(Calls) - 1
    <2>. DEFINE p == activeOrg[u]
                f == [Free EXCEPT !.user = u, !.org = IF RoleIn(u, p) # "none" THEN p ELSE NoOrg,
                        !.step = IF p = NoOrg \/ RoleIn(u, p) # "none" THEN "ready" ELSE "unset"]
    <2>1. f.step \in {"ready", "unset"}
      BY DEF Free
    <2>2. call' = [call EXCEPT ![c] = f] /\ UNCHANGED role
      BY <1>1 DEF Authenticate
    <2>. HIDE DEF f
    <2>. QED
      BY <1>f, <1>m, <1>s, <2>1, <2>2
  <1>2. ASSUME NEW c \in Calls, UseKey(c)
        PROVE  Cardinality(Team(o)') <= MaxTeam + Cardinality(Calls) - 1
    <2>. DEFINE f == [Free EXCEPT !.step = "mcp", !.user = apiKey.user, !.org = apiKey.org]
    <2>1. f.step = "mcp"
      BY DEF Free
    <2>2. call' = [call EXCEPT ![c] = f] /\ UNCHANGED role
      BY <1>2 DEF UseKey
    <2>. HIDE DEF f
    <2>. QED
      BY <1>f, <1>m, <1>s, <2>1, <2>2
  <1>3. ASSUME NEW c \in Calls, Unset(c)
        PROVE  Cardinality(Team(o)') <= MaxTeam + Cardinality(Calls) - 1
    BY <1>3, <1>g, <1>m, <1>s DEF Unset
  <1>4. ASSUME NEW c \in Calls, Look(c)
        PROVE  Cardinality(Team(o)') <= MaxTeam + Cardinality(Calls) - 1
    <2>1. LookStep(c) /\ On(c, "ready") /\ UNCHANGED <<orgRows, pending, invited, apiKey>>
      BY <1>4, LookChooses
    <2>2. \E step, org, other :
            /\ Turn(c, step, org, other)
            /\ step = "accept" => role[org][call[c].user] # "none" \/ RoomInTeam(org)
      BY <2>1 DEF LookStep
    <2>3. PICK step, org, other :
            /\ Turn(c, step, org, other)
            /\ step = "accept" => role[org][call[c].user] # "none" \/ RoomInTeam(org)
      BY <2>2
    <2>4. /\ call'[c].step = step /\ call'[c].user = call[c].user /\ call'[c].org = org
          /\ \A d \in Calls \ {c} : call'[d] = call[d]
      BY <2>3, <1>t DEF Turn, Row
    <2>5. Members(o)' = Members(o)
      BY <2>1 DEF Members
    <2>6. CASE step # "accept" \/ org # o
      BY <1>s, <2>4, <2>5, <2>6 DEF Team
    <2>7. CASE step = "accept" /\ org = o /\ RoomInTeam(o)
      BY <2>1, <2>7, <1>t, RoomForOne
    <2>8. CASE step = "accept" /\ org = o /\ role[o][call[c].user] # "none"
      <3>1. call[c].user \in Members(o)
        BY <1>c, <2>1, <2>8 DEF On, Members
      <3>2. Guests(o)' \subseteq Guests(o) \cup {call[c].user}
        BY <2>4 DEF Guests, Accepting, On
      <3>3. Team(o)' \subseteq Team(o)
        BY <2>5, <3>1, <3>2 DEF Team
      <3>. QED
        BY <3>3, TeamShrinks
    <2>. QED
      BY <2>3, <2>6, <2>7, <2>8
  <1>5. ASSUME NEW c \in Calls, NEW p \in Orgs, Found(c, p), call[c].user \in Users,
               call'[c].step # "accept", \A d \in Calls \ {c} : call'[d] = call[d]
        PROVE  Cardinality(Team(o)') <= MaxTeam + Cardinality(Calls) - 1
    <2>1. CASE p = o
      BY <1>5, <2>1, FoundWithRoom
    <2>2. CASE p # o
      <3>1. role'[o] = role[o]
        BY <1>5, <1>t, <2>2 DEF Found, SetRole
      <3>. QED
        BY <1>5, <1>m, <1>s, <3>1
    <2>. QED
      BY <2>1, <2>2
  <1>6. ASSUME NEW c \in Calls, NEW p \in Orgs, CreateOrg(c, p)
        PROVE  Cardinality(Team(o)') <= MaxTeam + Cardinality(Calls) - 1
    <2>. DEFINE f == [call[c] EXCEPT !.step = "enter", !.org = p]
    <2>1. f.step = "enter"
      BY <1>t DEF Row
    <2>2. call' = [call EXCEPT ![c] = f] /\ Found(c, p) /\ call[c].user \in Users
      BY <1>6, <1>c DEF CreateOrg, On
    <2>. HIDE DEF f
    <2>. QED
      BY <1>5, <1>f, <2>1, <2>2
  <1>7. ASSUME NEW c \in Calls, NEW p \in Orgs, EnsurePersonal(c, p)
        PROVE  Cardinality(Team(o)') <= MaxTeam + Cardinality(Calls) - 1
    <2>1. Hangup(c) /\ call[c].user \in Users
      BY <1>7, <1>c DEF EnsurePersonal, On
    <2>2. CASE Found(c, p)
      BY <1>5, <1>h, <2>1, <2>2
    <2>3. CASE call[c].org = p /\ Exists(p) /\ SetRole(p, call[c].user, "OWNER") /\ UNCHANGED orgOwner
      <3>1. orgOwner[p] = call[c].user
        BY <1>7, <2>3, WorkspaceAssumption DEF WorkspaceAssumption, EnsurePersonal, HandsOff, Exists
      <3>2. role[p][call[c].user] = "OWNER"
        BY <3>1, <2>1 DEF RoleRule
      <3>3. role' = role
        BY <2>1, <2>3, <3>2, <1>t DEF SetRole
      <3>. QED
        BY <1>h, <1>m, <1>s, <2>1, <3>3
    <2>. QED
      BY <1>7, <2>2, <2>3 DEF EnsurePersonal
  <1>8. ASSUME NEW c \in Calls, \/ Enter(c) \/ Invite(c) \/ Revoke(c) \/ Reassign(c) \/ MoveOn(c)
                                \/ ManageKey(c) \/ RunTool(c)
        PROVE  Cardinality(Team(o)') <= MaxTeam + Cardinality(Calls) - 1
    <2>1. Hangup(c) /\ UNCHANGED role
      BY <1>8 DEF Enter, Invite, Revoke, Reassign, MoveOn, ManageKey, RunTool
    <2>. QED
      BY <1>h, <1>m, <1>s, <2>1
  <1>9. ASSUME NEW c \in Calls, Accept(c)
        PROVE  Cardinality(Team(o)') <= MaxTeam + Cardinality(Calls) - 1
    <2>. DEFINE p == call[c].org
                u == call[c].user
    <2>1. /\ Hangup(c) /\ u \in Users /\ p \in Orgs /\ u \in Guests(p)
          /\ \/ role' = role
             \/ \E r \in OfferedRoles :
                  role' = [role EXCEPT ![p][u] = IF role[p][u] = "none" THEN r ELSE role[p][u]]
      BY <1>9, <1>c DEF Accept, SetRole, On, Guests, Accepting
    <2>2. \A v \in Users : role'[o][v] = role[o][v] \/ (o = p /\ v = u)
      <3>1. ASSUME NEW r, role' = [role EXCEPT ![p][u] = r]
            PROVE  \A v \in Users : role'[o][v] = role[o][v] \/ (o = p /\ v = u)
        BY <2>1, <3>1, <1>t
      <3>2. \/ role' = role
            \/ \E r : role' = [role EXCEPT ![p][u] = r]
        BY <2>1
      <3>. HIDE DEF p, u
      <3>. QED
        BY <3>1, <3>2
    <2>3. Members(o)' \subseteq Team(o)
      BY <2>1, <2>2 DEF Members, Team
    <2>. QED
      BY <1>h, <1>s, <2>1, <2>3
  <1>10. ASSUME NEW c \in Calls, Remove(c) \/ Leave(c)
        PROVE  Cardinality(Team(o)') <= MaxTeam + Cardinality(Calls) - 1
    <2>1. /\ call[c].org \in Orgs
          /\ \E step \in {"reassign", "moveOn"} : Goto(c, step)
          /\ \E v : role' = [role EXCEPT ![call[c].org][v] = "none"]
      BY <1>10, <1>c DEF Remove, Leave, SetRole, On
    <2>2. PICK v : role' = [role EXCEPT ![call[c].org][v] = "none"]
      BY <2>1
    <2>3. \A u \in Users : role'[o][u] = "none" \/ role'[o][u] = role[o][u]
      BY <2>2, <1>t
    <2>. QED
      BY <1>g, <1>m, <1>s, <2>1, <2>3
  <1>11. ASSUME NEW c \in Calls, ChangeRole(c)
        PROVE  Cardinality(Team(o)') <= MaxTeam + Cardinality(Calls) - 1
    <2>. DEFINE p == call[c].org
                v == call[c].other
    <2>1. PICK r \in OfferedRoles : role' = [role EXCEPT ![p][v] = IF role[p][v] = "none" THEN "none" ELSE r]
      BY <1>11 DEF ChangeRole, SetRole
    <2>2. \A u \in Users : \/ role'[o][u] = role[o][u]
                           \/ o = p /\ u = v /\ role[o][u] # "none"
      BY <2>1, <1>t
    <2>3. Hangup(c)
      BY <1>11 DEF ChangeRole
    <2>. QED
      BY <1>h, <1>m, <1>s, <2>2, <2>3
  <1>12. ASSUME NEW c \in Calls, DeleteOrg(c)
        PROVE  Cardinality(Team(o)') <= MaxTeam + Cardinality(Calls) - 1
    <2>1. Hangup(c) /\ role' = [role EXCEPT ![call[c].org] = [u \in Users |-> "none"]]
      BY <1>12 DEF DeleteOrg
    <2>2. \A u \in Users : role'[o][u] = "none" \/ role'[o][u] = role[o][u]
      BY <2>1, <1>t
    <2>. QED
      BY <1>h, <1>m, <1>s, <2>1, <2>2
  <1>13. ASSUME UNCHANGED <<role, call>>
         PROVE  Cardinality(Team(o)') <= MaxTeam + Cardinality(Calls) - 1
    <2>1. Team(o)' = Team(o)
      BY <1>13 DEF Team, Members, Guests, Accepting, On
    <2>. QED
      BY <2>1, TeamShrinks
  <1>14. CASE UNCHANGED workspaceVars
    BY <1>13, <1>14 DEF workspaceVars
  <1>15. ASSUME NEW p \in Orgs, NEW u \in Users, InviteExpires(p, u)
         PROVE  Cardinality(Team(o)') <= MaxTeam + Cardinality(Calls) - 1
    BY <1>13, <1>15 DEF InviteExpires
  <1>. QED
    BY <1>1, <1>2, <1>3, <1>4, <1>6, <1>7, <1>8, <1>9, <1>10, <1>11, <1>12, <1>14, <1>15
       DEF WorkspaceNext, CallStep

(***************************************************************************)
(* The theorems.                                                           *)
(***************************************************************************)
LEMMA MembershipInit == WorkspaceInit => Held /\ RoleRule /\ HandsOff /\ TeamBounded
  <1>. USE WorkspaceAssumption DEF WorkspaceAssumption
  <1>. SUFFICES ASSUME WorkspaceInit PROVE Held /\ RoleRule /\ HandsOff /\ TeamBounded
    OBVIOUS
  <1>1. \A c \in Calls : call[c].step = "idle"
    BY DEF WorkspaceInit, Free
  <1>2. RoleRule
    BY DEF WorkspaceInit, RoleRule
  <1>3. HandsOff
    BY <1>1 DEF HandsOff, On
  <1>4. \A o \in Orgs : Team(o) = {}
    BY <1>1 DEF WorkspaceInit, Team, Members, Guests, Accepting, On
  <1>5. Cardinality({}) = 0 /\ Cardinality(Calls) \in Nat
    BY FS_EmptySet, FS_CardinalityType
  <1>6. ASSUME NEW o \in Orgs
        PROVE  Cardinality(Team(o)) <= MaxTeam + Cardinality(Calls) - 1
    <2>1. Cardinality(Team(o)) = 0
      BY <1>4, <1>5
    <2>. QED
      BY <1>5, <2>1
  <1>. QED
    BY <1>2, <1>3, <1>6, InitHeld DEF TeamBounded

\* The inductive invariant behind MembershipSound.
MembershipRules == Held /\ RoleRule /\ HandsOff /\ TeamBounded

LEMMA TeamIsNearlyKept ==
  ASSUME MembershipRules
  PROVE  MembershipSound
  <1>. USE WorkspaceAssumption DEF WorkspaceAssumption
  <1>1. OneOwner
    BY OneOwnerMeans DEF MembershipRules
  <1>2. ASSUME NEW o \in Orgs
        PROVE  TeamSize(o) <= MaxTeam + Cardinality(Calls) - 1
    <2>1. IsFiniteSet(Team(o)) /\ Members(o) \subseteq Team(o)
      BY TeamIsFinite DEF MembershipRules, Team
    <2>2. IsFiniteSet(Members(o)) /\ Cardinality(Members(o)) <= Cardinality(Team(o))
      BY <2>1, FS_Subset
    <2>3. /\ Cardinality(Members(o)) \in Nat /\ Cardinality(Team(o)) \in Nat
          /\ Cardinality(Calls) \in Nat
      BY <2>1, <2>2, FS_CardinalityType
    <2>. QED
      BY <2>2, <2>3 DEF TeamSize, MembershipRules, TeamBounded
  <1>. QED
    BY <1>1, <1>2 DEF MembershipSound, TeamNearlyKept

\* Every variable keeps its type, for any users, workspaces and requests.
THEOREM WorkspaceTypeCorrect == WorkspaceSpec => []WorkspaceTypeOK
  <1>1. Held => WorkspaceTypeOK
    BY DEF Held
  <1>. QED
    BY <1>1, InitHeld, HeldStep, PTL DEF WorkspaceSpec

\* A workspace has one owner, whatever removals, changes of role, departures and
\* acceptances overtake each other, and its team exceeds the limit at most by the requests
\* handled at the same time (organizationControllers.ts:243-295, 566-680).
THEOREM MembershipCorrect == WorkspaceSpec => []MembershipSound
  <1>1. WorkspaceInit => MembershipRules
    BY MembershipInit DEF MembershipRules
  <1>2. MembershipRules /\ [WorkspaceNext]_workspaceVars => MembershipRules'
    BY HeldStep, OwnerStep, TeamStep DEF MembershipRules
  <1>. QED
    BY <1>1, <1>2, TeamIsNearlyKept, PTL DEF WorkspaceSpec

\* No request and no tool begins in a workspace that its user is not a member of, whatever
\* the row says is the active one (authMiddleware.ts:46-66, apiKeyService.ts:124-137).
THEOREM EntersAsMemberCorrect == WorkspaceSpec => EntersAsMember
  <1>1. ASSUME Held, [WorkspaceNext]_workspaceVars
        PROVE  [\A c \in Calls :
                  call[c].step = "idle" /\ call'[c].org # NoOrg
                    => RoleIn(call'[c].user, call'[c].org) # "none"]_workspaceVars
    <2>t. call \in [Calls -> Row] /\ \A c \in Calls : call'[c].org \in Orgs \cup {NoOrg}
      BY <1>1, HeldStep DEF Held, WorkspaceTypeOK, Row
    <2>. SUFFICES ASSUME WorkspaceNext, NEW c \in Calls, On(c, "idle"), call'[c].org # NoOrg
                  PROVE  RoleIn(call'[c].user, call'[c].org) # "none"
      BY <1>1 DEF On
    <2>1. ASSUME NEW u \in Users, Authenticate(c, u)
          PROVE  RoleIn(call'[c].user, call'[c].org) # "none"
      <3>. DEFINE f == [Free EXCEPT !.user = u,
                          !.org = IF RoleIn(u, activeOrg[u]) # "none" THEN activeOrg[u] ELSE NoOrg,
                          !.step = IF activeOrg[u] = NoOrg \/ RoleIn(u, activeOrg[u]) # "none"
                                   THEN "ready" ELSE "unset"]
      <3>1. call'[c] = f
        BY <2>1, <2>t DEF Authenticate
      <3>2. f.user = u /\ f.org = IF RoleIn(u, activeOrg[u]) # "none" THEN activeOrg[u] ELSE NoOrg
        BY DEF Free
      <3>. HIDE DEF f
      <3>. QED
        BY <3>1, <3>2
    <2>2. ASSUME UseKey(c)
          PROVE  RoleIn(call'[c].user, call'[c].org) # "none"
      <3>. DEFINE f == [Free EXCEPT !.step = "mcp", !.user = apiKey.user, !.org = apiKey.org]
      <3>1. call'[c] = f /\ (apiKey.org # NoOrg => RoleIn(apiKey.user, apiKey.org) # "none")
        BY <2>2, <2>t DEF UseKey
      <3>2. f.user = apiKey.user /\ f.org = apiKey.org
        BY DEF Free
      <3>. HIDE DEF f
      <3>. QED
        BY <3>1, <3>2
    <2>3. ASSUME call'[c] = call[c]
          PROVE  FALSE
      BY <1>1, <2>3 DEF Held, CallOK, On
    <2>4. ASSUME NEW d \in Calls, CallStep(d)
          PROVE  \/ d = c /\ (UseKey(c) \/ \E u \in Users : Authenticate(c, u))
                 \/ call'[c] = call[c]
      <3>1. CASE d = c
        BY <2>4, <3>1 DEF CallStep, On, Unset, Look, Enter, Invite, Revoke, Accept, Remove, Reassign,
           ChangeRole, Leave, MoveOn, DeleteOrg, ManageKey, RunTool, CreateOrg, EnsurePersonal
      <3>2. CASE d # c
        <4>1. Look(d) => \E f : call' = [call EXCEPT ![d] = f]
          BY <1>1, LookChooses DEF LookStep, Turn
        <4>2. \E f : call' = [call EXCEPT ![d] = f]
          BY <2>4, <4>1 DEF CallStep, Authenticate, UseKey, Unset, Enter, Invite, Revoke, Accept,
             Remove, Reassign, ChangeRole, Leave, MoveOn, DeleteOrg, ManageKey, RunTool, CreateOrg,
             EnsurePersonal, Goto, Hangup
        <4>. QED
          BY <3>2, <4>2, <2>t
      <3>. QED
        BY <3>1, <3>2
    <2>5. ASSUME NEW o \in Orgs, NEW u \in Users, InviteExpires(o, u)
          PROVE  call'[c] = call[c]
      BY <2>5 DEF InviteExpires
    <2>. QED
      BY <2>1, <2>2, <2>3, <2>4, <2>5 DEF WorkspaceNext
  <1>. QED
    BY <1>1, InitHeld, HeldStep, PTL DEF WorkspaceSpec, EntersAsMember
==============================================================================
