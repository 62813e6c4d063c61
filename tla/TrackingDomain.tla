----------------------------- MODULE TrackingDomain -----------------------------
(***************************************************************************)
(* The domain of one's own that tracking links may lead to: a setting per  *)
(* user and per workspace, checked against DNS on request, and read by the *)
(* worker for every mail.  A check reads the setting, waits for DNS and    *)
(* writes its verdict by the id of the row.                                *)
(***************************************************************************)
EXTENDS Integers, FiniteSets

CONSTANTS
  Users, Rooms,  \* a room is a workspace
  Domains,       \* names subdomain.rootDomain, normalised
  Unset,         \* no domain, no owner
  Checks,        \* verifications at the same time
  Tracked,       \* mails that the worker prepares
  MaxMoves       \* bound: saves, verifications, removals and changes of DNS

DomainAssumption == Unset \notin Domains \cup Users \cup Rooms /\ MaxMoves \in Nat

ASSUME DomainAssumption

VARIABLES
  rooms,      \* workspaces that there still are
  setting,    \* setting[o]: [full, status], full = Unset: no row
  record,     \* record[d]: what DNS says of d
  check,      \* check[c]: [step, owner, full, verdict]
  baseUrl,    \* TRACKING_BASE_URL of the worker
  tracked,    \* tracked[m]: [step, room, user, base, pixel, links]
  found,      \* history: <<o, d>> that a check of o found to point here
  overtaken,  \* history: <<o, d>> saved while a check of o was under way
  moves       \* counter of the bound

domainVars == <<rooms, setting, record, check, baseUrl, tracked, found, overtaken, moves>>

Owners == Users \cup Rooms
Statuses == {"PENDING", "VERIFIED", "MISSING", "MISMATCH", "ERROR"}
NoSetting == [full |-> Unset, status |-> "PENDING"]
NoCheck == [step |-> "idle", owner |-> Unset, full |-> Unset, verdict |-> "PENDING"]
Default == Unset

DomainTypeOK ==
  /\ rooms \subseteq Rooms
  /\ setting \in [Owners -> [full : Domains \cup {Unset}, status : Statuses]]
  /\ record \in [Domains -> {"here", "elsewhere", "none", "refused"}]
  /\ check \in [Checks -> [step : {"idle", "resolving", "resolved", "failed"},
                           owner : Owners \cup {Unset}, full : Domains \cup {Unset},
                           verdict : Statuses]]
  /\ baseUrl \in {"public", "local", "unset"}
  /\ tracked \in [Tracked -> [step : {"new", "own", "fallback", "chosen", "ready"},
                              room : Rooms \cup {Unset}, user : Users \cup {Unset},
                              base : Domains \cup {Unset}, pixel : BOOLEAN, links : BOOLEAN]]
  /\ found \subseteq Owners \X Domains /\ overtaken \subseteq Owners \X Domains
  /\ moves \in 0..MaxMoves

DomainInit ==
  /\ rooms = Rooms /\ setting = [o \in Owners |-> NoSetting] /\ record = [d \in Domains |-> "none"]
  /\ check = [c \in Checks |-> NoCheck] /\ baseUrl \in {"public", "local", "unset"}
  /\ tracked = [m \in Tracked |-> [step |-> "new", room |-> Unset, user |-> Unset,
                                   base |-> Default, pixel |-> FALSE, links |-> FALSE]]
  /\ found = {} /\ overtaken = {} /\ moves = 0

DomainStep == moves < MaxMoves /\ moves' = moves + 1
trackedRest == <<rooms, record, baseUrl, tracked>>

-----------------------------------------------------------------------------
(* The settings.                                                           *)

CheckedNow(o) == \E c \in Checks : check[c].step # "idle" /\ check[c].owner = o

\* A new domain is not verified yet.
Unverified(o, d) == [full |-> d, status |-> "PENDING"]

\* Two owners may save the same domain.
SaveDomain(o, d) ==
  /\ DomainStep /\ o \in Users \cup rooms /\ setting' = [setting EXCEPT ![o] = Unverified(o, d)]
  /\ overtaken' = IF CheckedNow(o) THEN overtaken \cup {<<o, d>>} ELSE overtaken
  /\ UNCHANGED <<check, found, trackedRest>>

\* The workspace is deleted, and its setting with it.
RemoveRoom(o) ==
  /\ DomainStep /\ o \in rooms /\ rooms' = rooms \ {o}
  /\ setting' = [setting EXCEPT ![o] = NoSetting]
  /\ UNCHANGED <<record, check, baseUrl, tracked, found, overtaken>>

VerifyDomain(c, o) ==
  /\ DomainStep /\ check[c].step = "idle" /\ setting[o].full # Unset
  /\ check' = [check EXCEPT ![c] = [step |-> "resolving", owner |-> o, full |-> setting[o].full,
                                    verdict |-> "PENDING"]]
  /\ UNCHANGED <<setting, found, overtaken, trackedRest>>

\* An answer that takes too long counts as none.
Verdicts(d) ==
  CASE record[d] = "here" -> {"VERIFIED", "MISSING"}
    [] record[d] = "elsewhere" -> {"MISMATCH", "MISSING"}
    [] record[d] = "none" -> {"MISSING"}
    [] OTHER -> {"MISSING", "ERROR"}

ResolveCname(c) ==
  /\ check[c].step = "resolving"
  /\ \E v \in Verdicts(check[c].full) :
       /\ check' = [check EXCEPT ![c].step = IF v = "ERROR" THEN "failed" ELSE "resolved",
                                 ![c].verdict = v]
       /\ found' = IF v = "VERIFIED" THEN found \cup {<<check[c].owner, check[c].full>>} ELSE found
  /\ UNCHANGED <<setting, overtaken, moves, trackedRest>>

\* The verdict goes to the row of the id, whatever domain it has by now; a row that
\* is gone makes the update fail.
WriteVerdict(c) ==
  /\ check[c].step = "resolved"
  /\ IF setting[check[c].owner].full = Unset
     THEN check' = [check EXCEPT ![c].step = "failed"] /\ UNCHANGED setting
     ELSE /\ setting' = [setting EXCEPT ![check[c].owner].status = check[c].verdict]
          /\ check' = [check EXCEPT ![c] = NoCheck]
  /\ UNCHANGED <<found, overtaken, moves, trackedRest>>

\* The catch of the handler looks the row up again.
WriteError(c) ==
  /\ check[c].step = "failed" /\ check' = [check EXCEPT ![c] = NoCheck]
  /\ setting' = IF setting[check[c].owner].full = Unset THEN setting
                ELSE [setting EXCEPT ![check[c].owner].status = "ERROR"]
  /\ UNCHANGED <<found, overtaken, moves, trackedRest>>

ChangeRecord(d) ==
  /\ DomainStep
  /\ \E r \in {"here", "elsewhere", "none", "refused"} \ {record[d]} :
       record' = [record EXCEPT ![d] = r]
  /\ UNCHANGED <<rooms, setting, check, baseUrl, tracked, found, overtaken>>

-----------------------------------------------------------------------------
(* The worker.                                                             *)

\* The campaign belongs to a user, or to a workspace and the member who made it.
Prepare(m, room, u) ==
  /\ tracked[m].step = "new"
  /\ tracked' = [tracked EXCEPT ![m].step = "own", ![m].room = room, ![m].user = u]
  /\ UNCHANGED <<rooms, setting, record, check, baseUrl, found, overtaken, moves>>

OwnerOf(m) == IF tracked[m].room = Unset THEN tracked[m].user ELSE tracked[m].room

\* Without TRACKING_BASE_URL there is no link to put the domain in.
BaseFor(o) == IF baseUrl = "unset" THEN Default ELSE setting[o].full

OwnDomain(m) ==
  /\ tracked[m].step = "own"
  /\ tracked' = IF setting[OwnerOf(m)].status = "VERIFIED"
                THEN [tracked EXCEPT ![m].step = "chosen", ![m].base = BaseFor(OwnerOf(m))]
                ELSE [tracked EXCEPT ![m].step = IF tracked[m].room = Unset THEN "chosen"
                                                 ELSE "fallback"]
  /\ UNCHANGED <<rooms, setting, record, check, baseUrl, found, overtaken, moves>>

\* A workspace without a verified domain uses that of the campaign's user.
UserDomain(m) ==
  /\ tracked[m].step = "fallback"
  /\ tracked' = [tracked EXCEPT ![m].step = "chosen",
                   ![m].base = IF setting[tracked[m].user].status = "VERIFIED"
                               THEN BaseFor(tracked[m].user) ELSE Default]
  /\ UNCHANGED <<rooms, setting, record, check, baseUrl, found, overtaken, moves>>

\* In production a local base is not used, but a domain of one's own is.
HasBase(m) == baseUrl = "public" \/ tracked[m].base # Default

\* preprocessEmailHtml, as the campaign has it.
AddTracking(m) ==
  /\ tracked[m].step = "chosen"
  /\ \E opens, clicks \in BOOLEAN :
       tracked' = [tracked EXCEPT ![m].step = "ready", ![m].pixel = opens /\ HasBase(m),
                                  ![m].links = clicks /\ HasBase(m)]
  /\ UNCHANGED <<rooms, setting, record, check, baseUrl, found, overtaken, moves>>

-----------------------------------------------------------------------------
DomainNext ==
  \/ \E o \in Rooms : RemoveRoom(o)
  \/ \E o \in Owners : \/ \E d \in Domains : SaveDomain(o, d)
                       \/ \E c \in Checks : VerifyDomain(c, o)
  \/ \E c \in Checks : ResolveCname(c) \/ WriteVerdict(c) \/ WriteError(c)
  \/ \E d \in Domains : ChangeRecord(d)
  \/ \E m \in Tracked : \/ \E room \in Rooms \cup {Unset}, u \in Users : Prepare(m, room, u)
                        \/ OwnDomain(m) \/ UserDomain(m) \/ AddTracking(m)

DomainSpec == DomainInit /\ [][DomainNext]_domainVars

\* The links of a mail lead to the default domain, or to one that a check of the
\* campaign's workspace or user found to point here, unless that domain was saved while
\* a check was under way (upsertTrackingDomainSettings, verifyTrackingDomainSettings and
\* processEmailJob).
LinksLeadHere ==
  \A m \in Tracked :
    (tracked[m].pixel \/ tracked[m].links) /\ tracked[m].base # Default =>
      \E o \in {tracked[m].room, tracked[m].user} :
        <<o, tracked[m].base>> \in found \cup overtaken
===============================================================================
