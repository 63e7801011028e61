SPECIFICATION FairSpec
CONSTANTS
  ToolTokens = {"curl"}
  CrawlerTokens = {"googlebot"}
  CrawlerHosts <- MCCrawlerHosts
  CipherFamilies = {"openssl", "python-ssl", "chromium"}
  ScriptedFamilies = {"openssl", "python-ssl"}
  ArtifactPaths = {"/.env"}
  AdminPaths = {"/admin"}
  LoginPaths = {"/login"}
  ContentPaths = {"/products"}
  FailingLogins = {"/login"}
  StaticStatus <- MCStaticStatus
  SweepPaths = 2
  EnumerationPaths = 3
  RatioRequests = 2
  FewUsernames = 1
  ManyUsernames = 2
  ManyUserAgents = 2
  HighVolume = 3
  CalmRequests = 1
  CalmPaths = 1
  Slots = {s1, s2}
  Nobody = nobody
  Requests <- MCRequests
  RDNS <- MCRDNS
  VelocityWindow = 0
  MaxTime = 1
  MaxArrivals = 3
INVARIANTS
  TypeOK
  VerdictRebuildable
  StoredExactlyWhenAnswered
  IdOrderIsTimeOrder
PROPERTIES
  DurableRowsStay
  IndependentProfiles
  EveryReadyRequestEnds
CHECK_DEADLOCK FALSE
