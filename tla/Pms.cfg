SPECIFICATION Spec
CONSTANTS
  Titles = {"sets", "time"}
  Whole = {"sets"}
  Missing <- MCMissing
  Basename <- MCBasename
  Campaigns <- MCCampaigns
  LogFiles <- MCLogFiles
INVARIANTS RunsAccounted ReportFair
PROPERTY CampaignEnds
