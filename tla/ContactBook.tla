----------------------------- MODULE ContactBook -----------------------------
(***************************************************************************)
(* The address book: contacts, lists and company profiles of the users of  *)
(* one workspace, each user also working outside of it.  A row belongs to  *)
(* the user who made it and may belong to the workspace as well; addresses *)
(* are unique per user and per workspace, names of lists and domains of    *)
(* companies per user.  Whoever works in the workspace sees its rows;      *)
(* outside, a user sees every row of his own.                              *)
(***************************************************************************)
EXTENDS Integers, FiniteSets

CONSTANTS
  Owners,      \* users
  Mailboxes,   \* e-mail addresses of contacts
  Names,       \* names of lists
  Saves,       \* requests that create or import contacts, at the same time
  Sheets,      \* files that may be imported
  NoOwner, NoMailbox, NoSheet,
  MaxRequests  \* bound on what the users ask for, reading aside

BookAssumption ==
  /\ NoOwner \notin Owners /\ NoMailbox \notin Mailboxes /\ NoSheet \notin Sheets
  /\ IsFiniteSet(Mailboxes) /\ MaxRequests \in Nat

ASSUME BookAssumption

VARIABLES
  book,      \* book[u][e], the contact: "none", "own", or "work" if it is the workspace's too
  shelf,     \* shelf[u][n], the list: the same
  firm,      \* firm[u], the profile of a company: the same
  phone,     \* phone[u]: it has a telephone number
  shelved,   \* shelved[u][n]: the contacts <<user, address>> in the list
  works,     \* users whose active organization is the workspace
  view,      \* the page: [at, shown], the scope in which it was loaded and its contacts
  save,      \* requests: [step, via, user, at, rows, row, found, gone, crossed]
             \* gone: the row that was found has been deleted
  refresh,   \* refreshCompany: users whose profile is being looked up again
  wizard,    \* ImportModal: [file, asked, mapped], mapped: whose headers the mapping names
  requests,  \* counter of the bound
  refused,   \* history: [at, held, crossed] of the rows that were refused
  strays     \* history: <<list, contact>> added from a page of another scope

bookVars == <<book, shelf, firm, phone, shelved, works, view, save, refresh, wizard, requests,
              refused, strays>>

Levels == {"none", "own", "work"}
People == Owners \X Mailboxes
NoSave == [step |-> "idle", via |-> "create", user |-> NoOwner, at |-> "own", rows |-> {},
         row |-> NoMailbox, found |-> NoOwner, gone |-> FALSE, crossed |-> FALSE]

BookTypeOK ==
  /\ book \in [Owners -> [Mailboxes -> Levels]] /\ shelf \in [Owners -> [Names -> Levels]]
  /\ firm \in [Owners -> Levels] /\ phone \in [Owners -> BOOLEAN]
  /\ shelved \in [Owners -> [Names -> SUBSET People]] /\ works \subseteq Owners
  /\ view \in [Owners -> [at : {"own", "work"}, shown : SUBSET People]]
  /\ save \in [Saves -> [step : {"idle", "look", "write"}, via : {"create", "import", "tool"},
                         user : Owners \cup {NoOwner}, at : {"own", "work"},
                         rows : SUBSET Mailboxes, row : Mailboxes \cup {NoMailbox},
                         found : Owners \cup {NoOwner}, gone : BOOLEAN, crossed : BOOLEAN]]
  /\ refresh \subseteq Owners
  /\ wizard \in [file : Sheets \cup {NoSheet}, asked : SUBSET Sheets,
                 mapped : Sheets \cup {NoSheet}]
  /\ requests \in 0..MaxRequests
  /\ refused \subseteq [at : {"own", "work"}, held : Levels, crossed : BOOLEAN]
  /\ strays \subseteq (Owners \X Names) \X People

BookInit ==
  /\ book = [u \in Owners |-> [e \in Mailboxes |-> "none"]]
  /\ shelf = [u \in Owners |-> [n \in Names |-> "none"]]
  /\ firm = [u \in Owners |-> "none"] /\ phone = [u \in Owners |-> FALSE]
  /\ shelved = [u \in Owners |-> [n \in Names |-> {}]]
  /\ works \in SUBSET Owners
  /\ view = [u \in Owners |-> [at |-> "own", shown |-> {}]]
  /\ save = [r \in Saves |-> NoSave] /\ refresh = {}
  /\ wizard = [file |-> NoSheet, asked |-> {}, mapped |-> NoSheet]
  /\ requests = 0 /\ refused = {} /\ strays = {}

-----------------------------------------------------------------------------
(* Scopes.                                                                 *)

Scope(u) == IF u \in works THEN "work" ELSE "own"

\* getOrgScope: the workspace's rows, or all rows the user has made anywhere.
InScope(level, maker, u, at) ==
  IF at = "work" THEN level = "work" ELSE maker = u /\ level # "none"

Visible(u, at) == {c \in People : InScope(book[c[1]][c[2]], c[1], u, at)}
Shelves(u, at) == {l \in Owners \X Names : InScope(shelf[l[1]][l[2]], l[1], u, at)}

Request == requests < MaxRequests /\ requests' = requests + 1

\* In another tab; the page stays as it is.
SwitchScope(u) ==
  /\ Request
  /\ works' = IF u \in works THEN works \ {u} ELSE works \cup {u}
  /\ UNCHANGED <<book, shelf, firm, phone, shelved, view, save, refresh, wizard, refused,
                 strays>>

LoadContacts(u) ==
  /\ view' = [view EXCEPT ![u] = [at |-> Scope(u), shown |-> Visible(u, Scope(u))]]
  /\ UNCHANGED <<book, shelf, firm, phone, shelved, works, save, refresh, wizard, requests,
                 refused, strays>>

-----------------------------------------------------------------------------
(* Creating and importing: upsertContact looks first and then writes.      *)

Begin(r, via, u, rows) ==
  /\ save[r].step = "idle" /\ Request
  /\ save' = [save EXCEPT ![r] = [NoSave EXCEPT !.step = "look", !.via = via, !.user = u,
                                              !.at = Scope(u), !.rows = rows]]

CreateContact(r, u, via) ==
  /\ \E e \in Mailboxes : Begin(r, via, u, {e})
  /\ UNCHANGED <<book, shelf, firm, phone, shelved, works, view, refresh, wizard,
                 refused, strays>>

\* Wrong variant: the workspace's row is looked for among the user's own.
FindMine(r, e) == {v \in Owners : v = save[r].user /\ book[v][e] # "none"}

\* The row the look-up answers with, by its maker.
FindContact(r, e) ==
  {v \in Owners : IF save[r].at = "work" THEN book[v][e] = "work"
                  ELSE v = save[r].user /\ book[v][e] # "none"}

LookUp(r) ==
  /\ save[r].step = "look" /\ save[r].rows # {}
  /\ \E e \in save[r].rows, v \in Owners \cup {NoOwner} :
       /\ v \in FindContact(r, e) \/ (v = NoOwner /\ FindContact(r, e) = {})
       /\ save' = [save EXCEPT ![r].step = "write", ![r].row = e, ![r].found = v,
                               ![r].rows = @ \ {e}, ![r].gone = FALSE, ![r].crossed = FALSE]
  /\ UNCHANGED <<book, shelf, firm, phone, shelved, works, view, refresh, wizard, requests,
                 refused, strays>>

\* The other requests that have looked the address up and not written yet.
Crossed(e) == [q \in Saves |-> IF save[q].row = e THEN [save[q] EXCEPT !.crossed = TRUE]
                               ELSE save[q]]
Done(r) == IF save[r].rows = {} THEN NoSave
           ELSE [save[r] EXCEPT !.step = "look", !.row = NoMailbox, !.found = NoOwner]

Taken(r) ==
  LET e == save[r].row IN
  book[save[r].user][e] # "none" \/ (save[r].at = "work" /\ \E v \in Owners : book[v][e] = "work")

\* The update names the row by its id: a new row with the address does not do.
UpdateProspect(r) ==
  LET e == save[r].row v == save[r].found IN
  /\ save[r].step = "write" /\ v # NoOwner /\ ~save[r].gone /\ save[r].via # "tool"
  /\ book' = [book EXCEPT ![v][e] = IF save[r].at = "work" THEN "work" ELSE @]
  /\ save' = [save EXCEPT ![r] = Done(r)]
  /\ UNCHANGED <<shelf, firm, phone, shelved, works, view, refresh, wizard, requests,
                 refused, strays>>

Create(r) ==
  /\ save[r].step = "write" /\ save[r].found = NoOwner /\ ~Taken(r)
  /\ book' = [book EXCEPT ![save[r].user][save[r].row] = save[r].at]
  /\ save' = [Crossed(save[r].row) EXCEPT ![r] = Done(r)]
  /\ UNCHANGED <<shelf, firm, phone, shelved, works, view, refresh, wizard, requests,
                 refused, strays>>

\* The address is taken, or the row is gone: an error for this row.  The tool
\* says as much of a contact it finds.
RefuseRow(r) ==
  LET e == save[r].row v == save[r].found IN
  /\ save[r].step = "write"
  /\ IF v = NoOwner THEN Taken(r) ELSE save[r].gone \/ save[r].via = "tool"
  /\ save' = [save EXCEPT ![r] = Done(r)]
  /\ refused' = IF v # NoOwner /\ save[r].via = "tool" THEN refused
                ELSE refused \cup {[at |-> save[r].at, held |-> book[save[r].user][e],
                                    crossed |-> save[r].crossed]}
  /\ UNCHANGED <<book, shelf, firm, phone, shelved, works, view, refresh, wizard, requests,
                 strays>>

-----------------------------------------------------------------------------
(* ImportModal: the server reads the headers of the file, the user maps    *)
(* them, the file is sent again with the mapping.                          *)

PickFile(f) ==
  /\ Request /\ wizard' = [wizard EXCEPT !.file = f, !.asked = @ \cup {f}]
  /\ UNCHANGED <<book, shelf, firm, phone, shelved, works, view, save, refresh,
                 refused, strays>>

HeadersCome(f) ==
  /\ f \in wizard.asked
  /\ \E m \in {f, wizard.mapped} :  \* a file without headers maps nothing
       wizard' = [wizard EXCEPT !.asked = @ \ {f}, !.mapped = m]
  /\ UNCHANGED <<book, shelf, firm, phone, shelved, works, view, save, refresh, requests,
                 refused, strays>>

\* A mapping made for another file finds no addresses: every row is an error.
Import(r, u) ==
  /\ wizard.mapped # NoSheet
  /\ \E rows \in SUBSET Mailboxes :
       /\ rows # {} <=> wizard.mapped = wizard.file
       /\ Begin(r, "import", u, rows)
  /\ wizard' = [wizard EXCEPT !.file = NoSheet, !.mapped = NoSheet]
  /\ UNCHANGED <<book, shelf, firm, phone, shelved, works, view, refresh, refused, strays>>

EndImport(r) ==
  /\ save[r].step = "look" /\ save[r].rows = {}
  /\ save' = [save EXCEPT ![r] = NoSave]
  /\ UNCHANGED <<book, shelf, firm, phone, shelved, works, view, refresh, wizard, requests,
                 refused, strays>>

-----------------------------------------------------------------------------
(* Deleting: what is selected on the page, as far as it is in the scope.   *)

Forget(C) ==
  /\ book' = [u \in Owners |-> [e \in Mailboxes |-> IF <<u, e>> \in C THEN "none" ELSE book[u][e]]]
  /\ shelved' = [u \in Owners |-> [n \in Names |-> shelved[u][n] \ C]]
  /\ strays' = {s \in strays : s[2] \notin C}
  /\ view' = [u \in Owners |-> [view[u] EXCEPT !.shown = @ \ C]]
  /\ save' = [q \in Saves |-> [save[q] EXCEPT !.gone = @ \/ <<save[q].found, save[q].row>> \in C,
                                            !.crossed = @ \/ \E c \in C : c[2] = save[q].row]]

BulkDelete(u) ==
  /\ Request
  /\ \E C \in SUBSET (view[u].shown \cap Visible(u, Scope(u))) : C # {} /\ Forget(C)
  /\ UNCHANGED <<shelf, firm, phone, works, refresh, wizard, refused>>

-----------------------------------------------------------------------------
(* Lists.                                                                  *)

listRest == <<book, firm, phone, works, view, save, refresh, wizard, refused>>

CreateList(u, n) ==
  /\ Request /\ shelf[u][n] = "none"  \* else "A list with this name already exists"
  /\ shelf' = [shelf EXCEPT ![u][n] = Scope(u)]
  /\ UNCHANGED <<shelved, strays, listRest>>

DropList(u, l) ==
  /\ Request /\ l \in Shelves(u, Scope(u))
  /\ shelf' = [shelf EXCEPT ![l[1]][l[2]] = "none"]
  /\ shelved' = [shelved EXCEPT ![l[1]][l[2]] = {}]
  /\ strays' = {s \in strays : s[1] # l}
  /\ UNCHANGED <<listRest>>

\* addContactsToList: the list is looked up in the scope, the contacts are not.
AddToList(u, l) ==
  /\ Request /\ l \in Shelves(u, Scope(u))
  /\ \E C \in SUBSET view[u].shown :
       /\ C # {}
       /\ shelved' = [shelved EXCEPT ![l[1]][l[2]] = @ \cup C]
       /\ strays' = IF view[u].at = Scope(u) THEN strays
                    ELSE strays \cup ({l} \X (C \ Visible(u, Scope(u))))
  /\ UNCHANGED <<shelf, listRest>>

\* The tool's: it takes any ids and keeps those of the scope.
ToolAddable(u, C) == C \cap Visible(u, Scope(u))

ToolAddToList(u, l) ==
  /\ Request /\ l \in Shelves(u, Scope(u))
  /\ \E C \in SUBSET People : shelved' = [shelved EXCEPT ![l[1]][l[2]] = @ \cup ToolAddable(u, C)]
  /\ UNCHANGED <<shelf, strays, listRest>>

RemoveFromList(u, l) ==
  /\ Request /\ l \in Shelves(u, Scope(u))
  /\ \E c \in shelved[l[1]][l[2]] :
       /\ shelved' = [shelved EXCEPT ![l[1]][l[2]] = @ \ {c}]
       /\ strays' = strays \ {<<l, c>>}
  /\ UNCHANGED <<shelf, listRest>>

-----------------------------------------------------------------------------
(* Company profiles; a web site that does not answer leaves no number.     *)

firmRest == <<book, shelf, shelved, works, view, save, wizard, refused, strays>>

\* The upsert finds the user's row of any scope and moves it into this one.
CreateCompany(u) ==
  /\ Request /\ firm' = [firm EXCEPT ![u] = Scope(u)]
  /\ \E answers \in BOOLEAN : phone' = [phone EXCEPT ![u] = answers]
  /\ UNCHANGED <<refresh, firmRest>>

RefreshCompany(u) ==
  /\ Request
  /\ \E v \in Owners : InScope(firm[v], v, u, Scope(u)) /\ refresh' = refresh \cup {v}
  /\ UNCHANGED <<firm, phone, firmRest>>

RefreshAnswered(v) ==
  /\ v \in refresh /\ refresh' = refresh \ {v} /\ UNCHANGED requests
  /\ \E answers \in BOOLEAN : phone' = [phone EXCEPT ![v] = answers]
  /\ UNCHANGED <<firm, firmRest>>

-----------------------------------------------------------------------------
BookNext ==
  \/ \E u \in Owners : SwitchScope(u) \/ LoadContacts(u) \/ BulkDelete(u)
  \/ \E r \in Saves, u \in Owners :
       CreateContact(r, u, "create") \/ CreateContact(r, u, "tool") \/ Import(r, u)
  \/ \E r \in Saves : LookUp(r) \/ UpdateProspect(r) \/ Create(r) \/ RefuseRow(r) \/ EndImport(r)
  \/ \E f \in Sheets : PickFile(f) \/ HeadersCome(f)
  \/ \E u \in Owners, n \in Names : CreateList(u, n)
  \/ \E u \in Owners, l \in Owners \X Names :
       DropList(u, l) \/ AddToList(u, l) \/ ToolAddToList(u, l) \/ RemoveFromList(u, l)
  \/ \E u \in Owners : CreateCompany(u) \/ RefreshCompany(u) \/ RefreshAnswered(u)

BookSpec == BookInit /\ [][BookNext]_bookVars

\* A row is refused only if its user already has the address in a row that is
\* not the workspace's, or the row came or went after it was looked up
\* (upsertContact; the unique keys of Contact).
RefusedOnlyIfTaken ==
  \A x \in refused : x.crossed \/ (x.at = "work" /\ x.held = "own")

\* A list of the workspace holds only the workspace's contacts, and any list
\* only those its readers can see, but for what its owner put there outside of
\* the workspace and what came from a page that was loaded in another scope.
StrangersOnlyByStalePage ==
  \A u \in Owners, n \in Names : \A c \in shelved[u][n] :
    \/ shelf[u][n] = "work" /\ book[c[1]][c[2]] = "work"
    \/ c[1] = u
    \/ <<<<u, n>>, c>> \in strays

\* Contacts are refused and listed across the border of the workspace only then.
BookSound == RefusedOnlyIfTaken /\ StrangersOnlyByStalePage
===============================================================================
