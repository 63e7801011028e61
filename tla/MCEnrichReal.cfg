SPECIFICATION Spec
CONSTANTS
  ToolTokens = {"curl"}
  CrawlerTokens = {"googlebot"}
  CrawlerHosts <- MCCrawlerHosts
  CipherFamilies = {"openssl", "python-ssl", "chromium"}
  ScriptedFamilies = {"openssl", "python-ssl"}
  ArtifactPaths = {"/.env"}
  AdminPaths = {"/admin"}
  LoginPaths = {"/login"}
  ContentPaths = {"/products"}
  FailingLogins = {"/login"}
  StaticStatus <- MCStaticStatus
  SweepPaths = 8
  EnumerationPaths = 20
  RatioRequests = 5
  FewUsernames = 2
  ManyUsernames = 5
  ManyUserAgents = 3
  HighVolume = 60
  CalmRequests = 5
  CalmPaths = 3
  Addresses = {"bot", "liar", "mover", "lan"}
  PrivateAddresses = {"lan"}
  IPv4Addresses = {"bot", "liar", "mover", "lan"}
  Zones <- MCZones
  CacheSize = 2
  CrawlerRequest <- MCCrawlerRequest
  MaxChanges = 3
INVARIANT RealOnesAlwaysPass
