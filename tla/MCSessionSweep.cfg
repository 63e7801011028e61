SPECIFICATION Spec
CONSTANTS
  ToolTokens = {"curl"}
  CrawlerTokens = {"googlebot"}
  CrawlerHosts <- MCCrawlerHosts
  CipherFamilies = {"openssl", "python-ssl", "chromium"}
  ScriptedFamilies = {"openssl", "python-ssl"}
  ArtifactPaths = {"/.env"}
  AdminPaths = {"/admin"}
  LoginPaths = {"/login"}
  ContentPaths = {"/products"}
  FailingLogins = {"/login"}
  StaticStatus <- MCStaticStatus
  SweepPaths = 8
  EnumerationPaths = 20
  RatioRequests = 5
  FewUsernames = 2
  ManyUsernames = 5
  ManyUserAgents = 3
  HighVolume = 60
  CalmRequests = 5
  CalmPaths = 3
  Stacks <- MCBrowserOnly
  Targets <- MCSweepTargets
  Users = {}
  Agents = {"a1"}
  StrayPath = "/stray"
  MaxSent = 24
INVARIANT SweepIsNeverHuman
