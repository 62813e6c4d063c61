------------------------------ MODULE Sessions -------------------------------
(***************************************************************************)
(* Signing in: access tokens that expire, refresh tokens that are rotated, *)
(* and the tabs of a browser, which share the cookie and the local storage *)
(* and each refresh on their own when a request is refused.                *)
(***************************************************************************)
EXTENDS Integers, FiniteSets

CONSTANTS
  Tabs, Requests,   \* the requests of a tab; one of them is Me
  Me,               \* GET /api/users of the AuthContext
  Handlers,         \* refreshes the server handles at the same time
  NoTab,
  MaxTokens,        \* bound on the pairs of tokens ever issued
  MaxOccasions      \* bound on pages loaded, tokens expired and sessions ended

SessionsAssumption ==
  /\ IsFiniteSet(Tabs) /\ IsFiniteSet(Requests) /\ Me \in Requests
  /\ IsFiniteSet(Handlers) /\ NoTab \notin Tabs
  /\ MaxTokens \in Nat \ {0} /\ MaxOccasions \in Nat

ASSUME SessionsAssumption

VARIABLES
  token,      \* token[n]: the row of the n-th refresh token: its state and predecessor,
              \* and (history) how many refreshes have had it in hand at the same time
  expired,    \* access tokens that have expired
  browser,    \* the cookie and the stored access token; 0: none
  tab,        \* tab[t]: its page, what it knows of the user, the token its axios remembers
  request,    \* request[t][r]: where a request is, the access token it carries, _retry
  refresher,  \* refresher[h]: a refresh in flight, and the tab that waits for it
  occasions   \* counter of the bound

sessionsVars == <<token, expired, browser, tab, request, refresher, occasions>>

Numbers == 1 .. MaxTokens
Unissued == [state |-> "none", parent |-> 0, width |-> 0]
Resting == [at |-> "idle", with |-> 0, retry |-> FALSE]
NoRefresh == [step |-> "no", of |-> 0, new |-> 0, for |-> NoTab]
ClosedTab == [page |-> "closed", user |-> "out", memory |-> 0]

SessionsTypeOK ==
  /\ token \in [Numbers -> [state : {"none", "live", "revoked", "expired"}, parent : 0 .. MaxTokens,
                          width : 0 .. Cardinality(Handlers)]]
  /\ expired \subseteq Numbers
  /\ browser \in [cookie : 0 .. MaxTokens, stored : 0 .. MaxTokens]
  /\ tab \in [Tabs -> [page : {"closed", "app", "login"}, user : {"out", "loading", "in"},
                       memory : 0 .. MaxTokens]]
  /\ request \in [Tabs -> [Requests -> [at : {"idle", "sent", "queued", "waiting"},
                                        with : 0 .. MaxTokens, retry : BOOLEAN]]]
  /\ refresher \in [Handlers -> [step : {"no", "sent", "found", "revoked", "granted", "refused"},
                                 of : 0 .. MaxTokens, new : 0 .. MaxTokens, for : Tabs \cup {NoTab}]]
  /\ occasions \in 0 .. MaxOccasions

SessionsInit ==
  /\ token = [n \in Numbers |-> Unissued] /\ expired = {}
  /\ browser = [cookie |-> 0, stored |-> 0]
  /\ tab = [t \in Tabs |-> ClosedTab]
  /\ request = [t \in Tabs |-> [r \in Requests |-> Resting]]
  /\ refresher = [h \in Handlers |-> NoRefresh]
  /\ occasions = 0

NextToken == 1 + Cardinality({n \in Numbers : token[n].state # "none"})
Successors(n) == {m \in Numbers : token[m].parent = n}
RefreshesFor(t) == {h \in Handlers : refresher[h].for = t}
InHand(n) == {h \in Handlers : refresher[h].of = n /\ refresher[h].step \in {"found", "revoked"}}
Issue(n, parent) ==
  token' = [token EXCEPT ![n] = [state |-> "live", parent |-> parent, width |-> 0]]
Occasion == occasions < MaxOccasions /\ occasions' = occasions + 1
SetRequest(t, r, v) == request' = [request EXCEPT ![t][r] = v]

(***************************************************************************)
(* The server.                                                             *)
(***************************************************************************)
\* authMiddleware, verifyAccessToken.
Accepted(n) == n # 0 /\ n \notin expired

AccessExpires(n) ==
  /\ Occasion
  /\ token[n].state # "none" /\ n \notin expired
  /\ expired' = expired \cup {n}
  /\ UNCHANGED <<token, browser, tab, request, refresher>>

RefreshExpires(n) ==
  /\ Occasion
  /\ token[n].state = "live"
  /\ token' = [token EXCEPT ![n].state = "expired"]
  /\ UNCHANGED <<expired, browser, tab, request, refresher>>

RefreshStep(h, step) == refresher' = [refresher EXCEPT ![h].step = step]

Find(h, n) ==
  LET width == Cardinality(InHand(n)) + 1
  IN /\ RefreshStep(h, "found")
     /\ token' = [token EXCEPT ![n].width = IF @ < width THEN width ELSE @]

\* refreshAccessToken: the row is read, and its user.
FindToken(h) ==
  LET n == refresher[h].of
  IN /\ refresher[h].step = "sent"
     /\ IF n # 0 /\ token[n].state = "live"
        THEN Find(h, n) ELSE RefreshStep(h, "refused") /\ UNCHANGED token
     /\ UNCHANGED <<expired, browser, tab, request, occasions>>

\* It is revoked whatever it is by now.
RevokeToken(h) ==
  /\ refresher[h].step = "found"
  /\ token' = [token EXCEPT ![refresher[h].of].state = "revoked"]
  /\ RefreshStep(h, "revoked")
  /\ UNCHANGED <<expired, browser, tab, request, occasions>>

\* The successor is created, unless the database fails.
RotateToken(h) ==
  LET n == NextToken
  IN /\ refresher[h].step = "revoked"
     /\ \/ /\ n \in Numbers
           /\ Issue(n, refresher[h].of)
           /\ refresher' = [refresher EXCEPT ![h] = [@ EXCEPT !.step = "granted", !.new = n]]
        \/ RefreshStep(h, "refused") /\ UNCHANGED token
     /\ UNCHANGED <<expired, browser, tab, request, occasions>>

\* Nobody waits for the answer any more: its cookie is not kept.
Unread(h) ==
  /\ refresher[h].for = NoTab /\ refresher[h].step \in {"granted", "refused"}
  /\ refresher' = [refresher EXCEPT ![h] = NoRefresh]
  /\ UNCHANGED <<token, expired, browser, tab, request, occasions>>

(***************************************************************************)
(* axios.ts.                                                               *)
(***************************************************************************)
\* The request interceptor: the stored token, or else the one in the defaults or in the
\* request that is sent again.
Bearer(other) == IF browser.stored # 0 THEN browser.stored ELSE other

Send(t, r) ==
  /\ tab[t].page = "app" /\ request[t][r] = Resting /\ r # Me
  /\ tab[t].user = "in"
  /\ SetRequest(t, r, [at |-> "sent", with |-> Bearer(tab[t].memory), retry |-> FALSE])
  /\ UNCHANGED <<token, expired, browser, tab, refresher, occasions>>

\* What a failed or answered request means to the AuthContext and its guard.
SignOut(t) == [tab EXCEPT ![t] = [@ EXCEPT !.page = "login", !.user = "out"]]

Succeeds(t, r) ==
  /\ request[t][r].at = "sent" /\ Accepted(request[t][r].with)
  /\ SetRequest(t, r, Resting)
  /\ tab' = IF r = Me THEN [tab EXCEPT ![t] = [@ EXCEPT !.user = "in", !.page = "app"]] ELSE tab
  /\ UNCHANGED <<token, expired, browser, refresher, occasions>>

\* The second refusal of a request is passed on; fetchUser then has no user, and the guard
\* or the login page removes the stored token.
RefusedAgain(t, r) ==
  /\ request[t][r].at = "sent" /\ ~Accepted(request[t][r].with) /\ request[t][r].retry
  /\ SetRequest(t, r, Resting)
  /\ IF r = Me
     THEN tab' = SignOut(t) /\ browser' = [browser EXCEPT !.stored = 0]
     ELSE UNCHANGED <<tab, browser>>
  /\ UNCHANGED <<token, expired, refresher, occasions>>

\* The response interceptor: one refresh at a time, the others queue.
Refused(t, r) ==
  LET q == request[t][r]
  IN /\ q.at = "sent" /\ ~Accepted(q.with) /\ ~q.retry
     /\ IF RefreshesFor(t) # {}
        THEN SetRequest(t, r, [q EXCEPT !.at = "queued"]) /\ UNCHANGED refresher
        ELSE /\ SetRequest(t, r, [q EXCEPT !.at = "waiting", !.retry = TRUE])
             /\ \E h \in Handlers :
                  /\ refresher[h] = NoRefresh
                  /\ refresher' = [refresher EXCEPT ![h] =
                       [NoRefresh EXCEPT !.step = "sent", !.of = browser.cookie, !.for = t]]
     /\ UNCHANGED <<token, expired, browser, tab, occasions>>

\* The tokens are kept, then the queue and the request itself are sent again.
Refreshed(t, h) ==
  LET n == refresher[h].new
  IN /\ refresher[h].for = t /\ refresher[h].step = "granted"
     /\ browser' = [cookie |-> n, stored |-> n]
     /\ tab' = [tab EXCEPT ![t].memory = n]
     /\ request' = [request EXCEPT ![t] =
          [r \in Requests |-> IF @[r].at \in {"queued", "waiting"}
                              THEN [@[r] EXCEPT !.at = "sent", !.with = n] ELSE @[r]]]
     /\ refresher' = [refresher EXCEPT ![h] = NoRefresh]
     /\ UNCHANGED <<token, expired, occasions>>

Reset(t) == request' = [request EXCEPT ![t] = [r \in Requests |-> Resting]]
LoginPage(t) == tab' = [tab EXCEPT ![t] = [page |-> "login", user |-> "out", memory |-> 0]]

\* Refused, failed, or the answer is lost with the cookie in it: the queue is rejected, the
\* stored token removed, whoever stored it, and the login page loaded.
RefreshFails(t, h) ==
  /\ refresher[h].for = t /\ refresher[h].step \in {"refused", "granted"}
  /\ browser' = [browser EXCEPT !.stored = 0]
  /\ LoginPage(t) /\ Reset(t)
  /\ refresher' = [refresher EXCEPT ![h] = NoRefresh]
  /\ UNCHANGED <<token, expired, occasions>>

\* Wrong variant: the new page gets the answer to the refresh of the old one.
LoadPageAnswered(t) ==
  /\ Occasion
  /\ IF browser.stored = 0 THEN LoginPage(t)
     ELSE tab' = [tab EXCEPT ![t] = [page |-> "app", user |-> "loading", memory |-> 0]]
  /\ Reset(t)
  /\ UNCHANGED <<token, expired, browser, refresher>>

\* A page is loaded, and forgets the refresh it may have been waiting for; fetchUser asks
\* who the user is if a token is stored.
LoadPage(t) ==
  /\ Occasion
  /\ IF browser.stored = 0 THEN LoginPage(t) /\ Reset(t)
     ELSE /\ tab' = [tab EXCEPT ![t] = [page |-> "app", user |-> "loading", memory |-> 0]]
          /\ request' = [request EXCEPT ![t] =
               [r \in Requests |-> IF r = Me THEN [Resting EXCEPT !.at = "sent", !.with = browser.stored]
                                   ELSE Resting]]
  /\ refresher' = [h \in Handlers |-> IF refresher[h].for = t
                                     THEN [refresher[h] EXCEPT !.for = NoTab] ELSE refresher[h]]
  /\ UNCHANGED <<token, expired, browser>>

\* googleLogin: a new pair; the page stores it and asks who the user is.
Login(t) ==
  LET n == NextToken
  IN /\ tab[t].page = "login" /\ request[t][Me] = Resting /\ n \in Numbers
     /\ Issue(n, 0)
     /\ browser' = [cookie |-> n, stored |-> n]
     /\ tab' = [tab EXCEPT ![t].user = "loading"]
     /\ SetRequest(t, Me, [at |-> "sent", with |-> n, retry |-> FALSE])
     /\ UNCHANGED <<expired, refresher, occasions>>

\* logout: the token of the cookie is revoked and the cookie cleared, unless the call
\* fails; the stored token is removed in any case.
Logout(t) ==
  LET n == browser.cookie
  IN /\ Occasion
     /\ tab[t].user = "in" /\ tab[t].page = "app"
     /\ \/ /\ token' = IF n = 0 THEN token ELSE [token EXCEPT ![n].state = "revoked"]
           /\ browser' = [cookie |-> 0, stored |-> 0]
        \/ browser' = [browser EXCEPT !.stored = 0] /\ UNCHANGED token
     /\ tab' = SignOut(t)
     /\ UNCHANGED <<expired, request, refresher>>

TabStep(t) ==
  \/ \E h \in Handlers : Refreshed(t, h) \/ RefreshFails(t, h)
  \/ LoadPage(t) \/ Login(t) \/ Logout(t)
  \/ \E r \in Requests : Send(t, r) \/ Succeeds(t, r) \/ RefusedAgain(t, r) \/ Refused(t, r)

SessionsNext ==
  \/ \E t \in Tabs : TabStep(t)
  \/ \E h \in Handlers : FindToken(h) \/ RevokeToken(h) \/ RotateToken(h) \/ Unread(h)
  \/ \E n \in Numbers : AccessExpires(n) \/ RefreshExpires(n)

SessionsSpec == SessionsInit /\ [][SessionsNext]_sessionsVars

(***************************************************************************)
(* Properties.                                                             *)
(***************************************************************************)
\* A refresh token is used up: it gets as many successors as there were refreshes that had
\* read its row before the first of them revoked it, and none by a request that comes
\* later, whichever tab, page or lost answer it comes from (authControllers.ts:76-102).
RotatesOnce == \A n \in Numbers : Cardinality(Successors(n)) <= token[n].width

\* No request waits for a refresh that is over: a queued or waiting request always has a
\* refresh of its own tab in flight, and a refresh the request that asked for it
\* (axios.ts:36-95).
WaitsForRefresh ==
  \A t \in Tabs :
    RefreshesFor(t) # {} <=> \E r \in Requests : request[t][r].at \in {"queued", "waiting"}
=============================================================================
