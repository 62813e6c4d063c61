\* The components around users, workspaces and contacts, one at a time: subscription,
\* workspace, sessions, call queue, relationships, contact book, tool server, address check,
\* enrichment.  x, y and z are interchangeable pairs.
CONSTANTS
  x1 = x1  x2 = x2  y1 = y1  y2 = y2  z1 = z1  z2 = z2  p1 = p1  p2 = p2
  \* Subscription
  Customers = {"member"}
  Subs = {p1}
  Hooks = {x1, x2}
  NoSub = NoSub
  Period = 1
  Trial = 1
  PositiveTtl = 1
  NegativeTtl = 1
  MaxNow = 2
  MaxEvents = 2
  MaxMishaps = 1
  \* Workspace
  Orgs = {p1}
  Users = {x1, x2, y1, y2}
  Calls = {z1, z2}
  NoOrg = NoOrg
  NoUser = NoUser
  MaxTeam = 2
  OfferedRoles = {"MEMBER"}
  MaxInvites = 2
  \* Sessions
  Tabs = {x1, x2}
  Requests = {p1, p2}
  Me = p1
  Handlers = {y1, y2}
  NoTab = NoTab
  MaxTokens = 3
  MaxOccasions = 4
  \* CallQueue
  Callers = {p1}
  Prospects = {p1}
  Dispositions = {x1, x2}
  NoProspect = NoProspect
  NoCaller = NoCaller
  MaxTasks = 3
  MaxLogged = 3
  \* Relationships
  Cards = {p1, p2}
  Tags = {p2}
  Editors = {p1}
  Bulks = {p1}
  NoCard = NoCard
  MaxEdits = 3
  \* ContactBook
  Owners = {x1, x2}
  Mailboxes = {p1}
  Names = {p2}
  Saves = {y1, y2}
  Sheets = {z1, z2}
  NoOwner = NoOwner
  NoMailbox = NoMailbox
  NoSheet = NoSheet
  MaxRequests = 4
  \* ToolServer
  Keys = {p1}
  SessionOnly = SessionOnly
  Areas = {p1}
  Tasks = {y1, y2}
  ToolCalls = {z1, z2}
  MaxOrders = 3
  \* AddressCheck
  Addresses = {x1, x2}
  Profiles <- SomeLooks
  Validations = {p1}
  MaxAsked = 2
  MaxEntries = 2
  \* Enrichment
  Candidates = {z1, z2}
  NoCandidate = NoCandidate
  Looks <- SomeLooks
  Enrichments = {p1}
  MaxRanked = 2
INIT Init
NEXT Next
SYMMETRY Swap
CHECK_DEADLOCK FALSE
INVARIANTS
  TypesOK
  SubscriptionSound
  MembershipSound
  SessionsSound
  
  BookSound
  
  AddressesJudged

  
