----------------------------- MODULE ToolServer -----------------------------
(***************************************************************************)
(* The MCP server: API keys, the page that manages them, and the requests  *)
(* of a client that calls tools in batches.  A request is authenticated    *)
(* once; the calls of its batch run side by side, and one that takes too   *)
(* long is answered "Request timeout" while its calls run on.  The client  *)
(* sends again what it has no good answer for.                             *)
(***************************************************************************)
EXTENDS Integers, FiniteSets

CONSTANTS
  Keys,         \* names of API keys, unique per user
  SessionOnly,  \* a request with the user's session instead of a key
  Areas,        \* categories of tools
  Tasks,        \* what the client wants done, one tool call each
  ToolCalls,    \* requests under way at the same time
  MaxOrders     \* bound: acts of the user and the client

ToolServerAssumption == SessionOnly \notin Keys /\ MaxOrders \in Nat

ASSUME ToolServerAssumption

VARIABLES
  keyRow,     \* key rows: [step, scope, access, areas]
  entitled,   \* of "member" and "premium" what the keys' owner is
  keysTab,    \* the page: [scope, keys, last, failed]
  loads,      \* loadData under way: [id, scope, step, got]
  creating,   \* keys created whose answer has not reached the page
  early,      \* history: keys whose answer found the page at another scope
  kind,       \* kind[t]: [area, access, destructive]
  confirmed,  \* tasks the client sends with confirm: true
  toolCall,   \* requests: [step, key, grant, result]
  effects,    \* effects[t]: how often the tool changed something for the task
  served,     \* tasks with a good answer
  timedOut,   \* history: tasks of requests that timed out
  orders      \* counter of the bound

pageVars == <<keysTab, loads, creating, early>>
callVars == <<kind, confirmed, toolCall, effects, served, timedOut>>
toolVars == <<keyRow, entitled, pageVars, callVars, orders>>

Scopes == {"personal", "organization"}
KeyFields == [scope : Scopes, access : {"read", "write"}, areas : (SUBSET Areas) \ {{}}]
AnyGrant == [access : {"read", "write"}, areas : SUBSET Areas]
Results == {"none", "good", "failed", "denied", "unconfirmed"}
Ended == [step |-> "idle", key |-> SessionOnly, grant |-> [access |-> "read", areas |-> {}],
          result |-> <<>>]
NoKeyRow == [step |-> "none", scope |-> "personal", access |-> "read", areas |-> Areas]

ToolsTypeOK ==
  /\ keyRow \in [Keys -> [step : {"none", "active", "revoked", "expired"}, scope : Scopes,
                          access : {"read", "write"}, areas : SUBSET Areas]]
  /\ entitled \subseteq {"member", "premium"}
  /\ keysTab.scope \in Scopes /\ keysTab.keys \subseteq Keys /\ keysTab.last \in 0..MaxOrders
  /\ keysTab.failed \in BOOLEAN
  /\ \A l \in loads : /\ l.id \in 1..MaxOrders /\ l.scope \in Scopes
                      /\ l.step \in {"asked", "back"} /\ l.got \subseteq Keys
  /\ creating \subseteq Keys /\ early \subseteq Keys
  /\ kind \in [Tasks -> [area : Areas, access : {"read", "write"}, destructive : BOOLEAN]]
  /\ confirmed \subseteq Tasks
  /\ \A r \in ToolCalls : /\ toolCall[r].step \in {"idle", "sent", "running", "abandoned"}
                         /\ toolCall[r].key \in Keys \cup {SessionOnly} /\ toolCall[r].grant \in AnyGrant
                         /\ DOMAIN toolCall[r].result \subseteq Tasks
                         /\ \A t \in DOMAIN toolCall[r].result : toolCall[r].result[t] \in Results
  /\ effects \in [Tasks -> Nat] /\ served \subseteq Tasks /\ timedOut \subseteq Tasks
  /\ orders \in 0..MaxOrders

ToolsInit ==
  /\ keyRow = [k \in Keys |-> NoKeyRow] /\ entitled = {"member", "premium"}
  /\ keysTab = [scope |-> "personal", keys |-> {}, last |-> 0, failed |-> FALSE]
  /\ loads = {} /\ creating = {} /\ early = {}
  /\ kind \in [Tasks -> [area : Areas, access : {"read", "write"}, destructive : BOOLEAN]]
  /\ \A t \in Tasks : kind[t].destructive => kind[t].access = "write"
  /\ confirmed = {} /\ toolCall = [r \in ToolCalls |-> Ended]
  /\ effects = [t \in Tasks |-> 0] /\ served = {} /\ timedOut = {} /\ orders = 0

Order == orders < MaxOrders /\ orders' = orders + 1

-----------------------------------------------------------------------------
(* Keys.                                                                   *)

\* normalizePermissions: no areas means all of them.
Permissions(access, A) == [access |-> access, areas |-> IF A = {} THEN Areas ELSE A]

\* The presets of the modal: read only, full, or to write in the selected areas.
Presets == {Permissions("read", Areas), Permissions("write", Areas)}
             \cup {Permissions("write", A) : A \in (SUBSET Areas) \ {{}}}

\* A name is taken as long as there is a row, revoked or not.
NewKey(k, scope, grants) ==
  /\ keyRow[k].step = "none" /\ (scope = "organization" => "member" \in entitled)
  /\ \E g \in grants : keyRow' = [keyRow EXCEPT ![k] =
       [step |-> "active", scope |-> scope, access |-> g.access, areas |-> g.areas]]

\* The modal can be closed, and the scope be switched, before the answer.
CreateKey(k) ==
  /\ Order /\ NewKey(k, keysTab.scope, Presets) /\ creating' = creating \cup {k}
  /\ UNCHANGED <<entitled, keysTab, loads, early, callVars>>

\* handleCreated: the key is shown on top of the list, whatever it lists.
KeyCreated(k) ==
  /\ k \in creating /\ creating' = creating \ {k}
  /\ keysTab' = [keysTab EXCEPT !.keys = @ \cup {k}]
  /\ early' = IF keyRow[k].scope = keysTab.scope THEN early ELSE early \cup {k}
  /\ UNCHANGED <<keyRow, entitled, loads, callVars, orders>>

ToolCreateKey(k) ==
  /\ Order
  /\ NewKey(k, "personal",
            {Permissions(a, A) : a \in {"read", "write"}, A \in SUBSET Areas})
  /\ UNCHANGED <<entitled, pageVars, callVars>>

MayManage(k) == keyRow[k].scope = "organization" => "member" \in entitled

\* Its row stays, and with it the name.
RevokeRow(k) ==
  keyRow[k].step \in {"active", "expired"} /\ keyRow' = [keyRow EXCEPT ![k].step = "revoked"]

\* The page marks the key as revoked, and keeps it.
RevokeKey(k) ==
  /\ Order /\ k \in keysTab.keys /\ MayManage(k) /\ RevokeRow(k)
  /\ UNCHANGED <<entitled, pageVars, callVars>>

ToolRevokeKey(k) ==
  /\ Order /\ keyRow[k].scope = "personal" /\ RevokeRow(k)
  /\ UNCHANGED <<entitled, pageVars, callVars>>

DeleteRow(k) == keyRow[k].step # "none" /\ keyRow' = [keyRow EXCEPT ![k] = NoKeyRow]

DeleteKey(k) ==
  /\ Order /\ k \in keysTab.keys /\ MayManage(k) /\ DeleteRow(k)
  /\ keysTab' = [keysTab EXCEPT !.keys = @ \ {k}] /\ early' = early \ {k}
  /\ creating' = creating \ {k}
  /\ loads' = {[l EXCEPT !.got = @ \ {k}] : l \in loads}
  /\ UNCHANGED <<entitled, callVars>>

Expire(k) ==
  /\ keyRow[k].step = "active" /\ Order /\ keyRow' = [keyRow EXCEPT ![k].step = "expired"]
  /\ UNCHANGED <<entitled, pageVars, callVars>>

Lose(x) ==
  /\ x \in entitled /\ Order /\ entitled' = entitled \ {x}
  /\ UNCHANGED <<keyRow, pageVars, callVars>>

-----------------------------------------------------------------------------
(* The page's list.                                                        *)

ListKeys(scope) ==
  {k \in Keys : /\ keyRow[k].step # "none" /\ keyRow[k].scope = scope
                /\ (scope = "organization" => "member" \in entitled)}

\* A load of the selected scope; every one has a number.
Load(scope) ==
  /\ Order
  /\ keysTab' = [keysTab EXCEPT !.scope = scope, !.last = @ + 1]
  /\ loads' = loads \cup {[id |-> keysTab.last + 1, scope |-> scope, step |-> "asked", got |-> {}]}

Refresh == Load(keysTab.scope) /\ UNCHANGED <<keyRow, entitled, creating, early, callVars>>
SwitchTab ==
  /\ \E scope \in Scopes \ {keysTab.scope} : Load(scope)
  /\ UNCHANGED <<keyRow, entitled, creating, early, callVars>>

\* A failed look-up of the workspace counts as having none.
KeysRead(l) ==
  /\ l.step = "asked"
  /\ \E keys \in {ListKeys(l.scope)} \cup IF l.scope = "organization" THEN {{}} ELSE {} :
       loads' = (loads \ {l}) \cup {[l EXCEPT !.step = "back", !.got = keys]}
  /\ UNCHANGED <<keyRow, entitled, keysTab, creating, early, callVars, orders>>

\* The answer of a load that is not the last one is dropped.
IsLast(l) == l.id = keysTab.last

KeysArrive(l) ==
  /\ l.step = "back" /\ loads' = loads \ {l}
  /\ keysTab' = IF IsLast(l) THEN [keysTab EXCEPT !.keys = l.got, !.failed = FALSE] ELSE keysTab
  /\ early' = IF IsLast(l) THEN early \ l.got ELSE early
  /\ UNCHANGED <<keyRow, entitled, creating, callVars, orders>>

\* After an error the list stays as it was.
LoadFails(l) ==
  /\ Order /\ loads' = loads \ {l}
  /\ keysTab' = IF IsLast(l) THEN [keysTab EXCEPT !.failed = TRUE] ELSE keysTab
  /\ UNCHANGED <<keyRow, entitled, creating, early, callVars>>

-----------------------------------------------------------------------------
(* Requests.                                                               *)

\* An agent confirms what it was asked to confirm.
SendCall(r) ==
  /\ Order /\ toolCall[r].step = "idle"
  /\ \E k \in Keys \cup {SessionOnly}, T \in SUBSET (Tasks \ served) :
       /\ T # {} /\ (k # SessionOnly => keyRow[k].step # "none")
       /\ \A q \in ToolCalls : toolCall[q].step \in {"sent", "running"} =>
                                DOMAIN toolCall[q].result \cap T = {}
       /\ toolCall' = [toolCall EXCEPT ![r] = [step |-> "sent", key |-> k, grant |-> Ended.grant,
                                       result |-> [t \in T |-> "none"]]]
  /\ UNCHANGED <<keyRow, entitled, pageVars, kind, confirmed, effects, served, timedOut>>

\* validateMcpApiKey
LiveKey(k) ==
  /\ keyRow[k].step = "active"
  /\ keyRow[k].scope = "organization" => "member" \in entitled

\* A session has no permissions of its own: it may do everything.
AuthenticateCall(r) ==
  LET k == toolCall[r].key IN
  /\ toolCall[r].step = "sent"
  /\ toolCall' = [toolCall EXCEPT ![r] =
       IF (k # SessionOnly => LiveKey(k)) /\ "premium" \in entitled
       THEN [@ EXCEPT !.step = "running",
                      !.grant = IF k = SessionOnly THEN [access |-> "write", areas |-> Areas]
                                ELSE [access |-> keyRow[k].access, areas |-> keyRow[k].areas]]
       ELSE Ended]
  /\ UNCHANGED <<keyRow, entitled, pageVars, kind, confirmed, effects, served, timedOut, orders>>

Denied(r, t) ==
  \/ kind[t].area \notin toolCall[r].grant.areas
  \/ kind[t].access = "write" /\ toolCall[r].grant.access # "write"

Unconfirmed(t) == kind[t].destructive /\ t \notin confirmed

\* The tool's handler; one that throws is an error of its own call.
ToolOutcomes(r, t) ==
  IF Denied(r, t) THEN {"denied"}
  ELSE IF Unconfirmed(t) THEN {"unconfirmed"} ELSE {"good", "failed"}

\* It also runs when the request has timed out in the meantime.
CallTool(r, t) ==
  /\ toolCall[r].step \in {"running", "abandoned"} /\ t \in DOMAIN toolCall[r].result
  /\ toolCall[r].result[t] = "none"
  /\ \E outcome \in ToolOutcomes(r, t) :
       /\ toolCall' = [toolCall EXCEPT ![r].result[t] = outcome]
       /\ effects' = IF outcome = "good" /\ kind[t].access = "write"
                     THEN [effects EXCEPT ![t] = @ + 1] ELSE effects
  /\ UNCHANGED <<keyRow, entitled, pageVars, kind, confirmed, served, timedOut, orders>>

Finished(r) == \A t \in DOMAIN toolCall[r].result : toolCall[r].result[t] # "none"

\* Wrong variant: one call that fails fails the whole batch.
LearntIfAllGood(r) ==
  IF \A t \in DOMAIN toolCall[r].result : toolCall[r].result[t] = "good" THEN DOMAIN toolCall[r].result ELSE {}

\* Every call of the batch has an answer of its own.
Learnt(r) == {t \in DOMAIN toolCall[r].result : toolCall[r].result[t] = "good"}

Respond(r) ==
  /\ toolCall[r].step = "running" /\ Finished(r)
  /\ toolCall' = [toolCall EXCEPT ![r] = Ended] /\ served' = served \cup Learnt(r)
  /\ confirmed' = confirmed \cup {t \in DOMAIN toolCall[r].result : toolCall[r].result[t] = "unconfirmed"}
  /\ UNCHANGED <<keyRow, entitled, pageVars, kind, effects, timedOut, orders>>

\* withTimeout: status 408 for the whole batch.
TimeOut(r) ==
  /\ toolCall[r].step = "running" /\ ~Finished(r)
  /\ toolCall' = [toolCall EXCEPT ![r].step = "abandoned"]
  /\ timedOut' = timedOut \cup DOMAIN toolCall[r].result
  /\ UNCHANGED <<keyRow, entitled, pageVars, kind, confirmed, effects, served, orders>>

RunOut(r) ==
  /\ toolCall[r].step = "abandoned" /\ Finished(r) /\ toolCall' = [toolCall EXCEPT ![r] = Ended]
  /\ UNCHANGED <<keyRow, entitled, pageVars, kind, confirmed, effects, served, timedOut, orders>>

-----------------------------------------------------------------------------
ToolsNext ==
  \/ \E k \in Keys : \/ CreateKey(k) \/ KeyCreated(k) \/ ToolCreateKey(k) \/ RevokeKey(k)
                     \/ ToolRevokeKey(k) \/ DeleteKey(k) \/ Expire(k)
  \/ \E x \in {"member", "premium"} : Lose(x)
  \/ Refresh \/ SwitchTab
  \/ \E l \in loads : KeysRead(l) \/ KeysArrive(l) \/ LoadFails(l)
  \/ \E r \in ToolCalls : SendCall(r) \/ AuthenticateCall(r) \/ Respond(r) \/ TimeOut(r) \/ RunOut(r)
  \/ \E r \in ToolCalls, t \in Tasks : CallTool(r, t)

ToolsSpec == ToolsInit /\ [][ToolsNext]_toolVars

\* A tool changes something twice for one task only if a request with it timed
\* out and ran on; a call that fails makes no other call of its batch repeat
\* (MCPRequestHandler.callTool, withTimeout).
AppliedTwiceOnlyAfterTimeout == \A t \in Tasks : effects[t] > 1 => t \in timedOut

\* When no load is under way the page lists keys of the selected scope, but for
\* those whose creation was answered after a switch, unless the last load
\* failed (loadData, handleCreated).
ListFitsScope ==
  loads = {} /\ ~keysTab.failed => \A k \in keysTab.keys : keyRow[k].scope = keysTab.scope \/ k \in early

\* Calls are repeated, and keys listed in the wrong place, only then.
ToolServerSound == AppliedTwiceOnlyAfterTimeout /\ ListFitsScope
===============================================================================
