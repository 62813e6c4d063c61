\* The components around the delivery of mails, one at a time: limits, SMTP pool, priority
\* mail, campaign lifecycle, tracking events, inbox, composer, senders, reply detector, IMAP
\* pool, mail material, tracking domain, send times.  x, y and z are interchangeable pairs.
CONSTANTS
  x1 = x1  x2 = x2  y1 = y1  y2 = y2  z1 = z1  z2 = z2  p1 = p1  p2 = p2
  \* SenderLimits
  Runs = {x1, x2}
  ProviderLimits <- Provider
  UserLimits <- User
  WarmupLimits <- Warmup
  CampaignHour = 0
  DomainCap = 1
  CooldownLimit = 1
  QuarantineLimit = 2
  MaxAttempted = 4
  MaxTurns = 1
  MaxSlips = 1
  \* SmtpPool
  PoolRuns = {x1, x2}
  NoTransporter = NoTransporter
  MaxTransporters = 3
  \* PriorityMail
  Letters = {p1}
  PriorityRuns = {x1, x2}
  NoLetter = NoLetter
  DailyQuota = 1
  HourlyCap = 1
  MaxRetries = 2
  MaxWaiting = 2
  MaxHours = 1
  MaxFailures = 2
  \* CampaignLifecycle
  Contacts = {p1, p2}
  Commands = {x1, x2}
  MaxRows = 3
  MaxCommands = 3
  \* TrackingEvents
  Hits = {x1, x2}
  Mails = {p1}
  NoMail = NoMail
  Flushes = {y1, y2}
  Aggregations = {p1}
  FlushBatch = 2
  Window = 1
  PruneAge = 2
  MaxHalfHours = 3
  MaxOutages = 1
  \* Inbox
  Arrivals = {x1, x2}
  NoLetterRead = NoLetterRead
  Boxes = {p1, p2}
  FirstBox = p1
  NoBox = NoBox
  Syncs = {y1, y2}
  Loads = {z1, z2}
  Toggles = {p1}
  MaxSyncs = 2
  MaxClicks = 2
  \* SequenceComposer
  StepIds = {x1, x2}
  NoStep = NoStep
  Uploads = {y1, y2}
  MaxDraftSteps = 2
  MaxChanges = 3
  \* SenderAccounts
  Addresses = {x1, x2}
  NoAddress = NoAddress
  SenderCalls = {y1, y2}
  Recipients = {p1}
  MaxSenders = 2
  \* ReplyDetector
  Answerable = {p1, p2}
  Posts = {p1}
  Scans = {y1, y2}
  Loops = {p1}
  NoAnswerable = NoAnswerable
  NoLoop = NoLoop
  MaxMishaps = 1
  \* ImapPool
  CatchUps = {p1}
  Polls = {x1, x2}
  Connections = {y1, y2, p1}
  NoConnection = NoConnection
  \* MailMaterial
  Editors = {x1, x2}
  Nobody = Nobody
  MailNames = {p1}
  FollowUpNames = {p2}
  Texts = {p1}
  NoText = NoText
  Files = {y1, y2}
  Campaigns = {z1, z2}
  MaxTotal = 1
  MaxRequests = 4
  \* TrackingDomain
  Users = {p1}
  Rooms = {p2}
  Domains = {y1, y2}
  Unset = Unset
  Checks = {z1, z2}
  Tracked = {p1}
  MaxMoves = 4
  \* SendTiming
  Receivers = {p1}
  HoursPerDay = 4
  DaysPerWeek = 3
  WorkDays = {1, 2}
  Zones <- SomeZones
  Windows <- SomeWindows
  DefaultWindow <- Usual
  Schedules <- SomeSchedules
  MaxWait = 1
  MaxGap = 1
  MaxDeferrals = 2
  Horizon = 14
INIT Init
NEXT Next
SYMMETRY Swap
CHECK_DEADLOCK FALSE
INVARIANTS
  TypesOK
  ThrottleSound
  ConnectionsSound
  
  TrackingSound
  InboxSound
  PostedAsChosen
  SenderSound
  ReplySound
  TimesAreKept

  
