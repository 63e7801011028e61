------------------------------ MODULE MCSensor ------------------------------
EXTENDS Sensor, TLC

MCCrawlerHosts == "googlebot" :> {"crawl.googlebot.com"}
MCStaticStatus == ("/" :> 200) @@ ("/login" :> 200)

Request(ip, method, path, user, ua) ==
  [ ip |-> ip, method |-> method, path |-> path, exploits |-> 0, user |-> user,
    headers |-> <<"host", "user-agent">>, ua |-> ua, wildcard |-> FALSE,
    lang |-> "", ja4 |-> <<>> ]

\* A client guessing logins, a browser behind the same address, and the first
\* client from another address.
MCRequests ==
  { Request("ip1", "POST", "/login", "u1", {"curl"}),
    Request("ip1", "GET", "/x", None, {"mozilla", "chrome"}),
    Request("ip2", "POST", "/login", "u2", {"curl"}) }

MCRDNS == ("ip1" :> {None}) @@ ("ip2" :> {None})
==============================================================================
