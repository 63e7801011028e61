SPECIFICATION Spec
SYMMETRY Alike
CONSTANTS
  ToolTokens = {"curl"}
  CrawlerTokens = {"googlebot"}
  CrawlerHosts <- MCCrawlerHosts
  CipherFamilies = {"openssl", "python-ssl", "chromium"}
  ScriptedFamilies = {"openssl", "python-ssl"}
  ArtifactPaths = {"/.env"}
  AdminPaths = {"/admin"}
  LoginPaths = {"/login"}
  ContentPaths = {"/products"}
  FailingLogins = {"/login"}
  StaticStatus <- MCStaticStatus
  SweepPaths = 2
  EnumerationPaths = 3
  RatioRequests = 3
  FewUsernames = 1
  ManyUsernames = 2
  ManyUserAgents = 2
  HighVolume = 5
  CalmRequests = 2
  CalmPaths = 2
  Stacks <- MCStacks
  Targets <- MCTargets
  Users = {u1, u2}
  Agents = {a1, a2}
  StrayPath = "/stray"
  MaxSent = 4
INVARIANTS
  TypeOK
  ForgedHeadersBuyNothing
  AutomationNeverOutvotesIntent
  IdentityOutranksBehaviour
  ConfidenceIsHonest
  HistoryNeverLaunders
PROPERTIES
  RehabilitatedOnlyBy
