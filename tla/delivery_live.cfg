SPECIFICATION FairSpec
CONSTANTS
  Jobs = {j1}
  Workers = {w1}
  NoJob = NoJob
  Pool = TRUE
  MaxAttempts = 1
  MaxEntries = 1
  MaxCopies = 2
  MaxCrashes = 1
  MaxSlips = 0
  Faults = {"crash", "persist", "marker"}
CHECK_DEADLOCK FALSE
PROPERTIES
  StuckCampaignCompletes
  
  NeverStuck
  AcceptedBecomesSent
