------------------------------ MODULE MCSession ------------------------------
EXTENDS Session, TLC

Alike == Permutations(Users) \union Permutations(Agents)

MCCrawlerHosts == "googlebot" :> {"crawl.googlebot.com"}
MCStaticStatus == ("/login" :> 200) @@ ("/admin" :> 401) @@ ("/products" :> 200)

Browser == {"mozilla", "chrome"}
Full  == <<"host", "user-agent", "accept", "accept-language", "accept-encoding",
           "sec-fetch-mode", "sec-ch-ua", "referer">>
Hints == <<"host", "user-agent", "accept", "accept-language", "accept-encoding",
           "sec-fetch-mode", "sec-ch-ua">>
Plain == <<"host", "user-agent", "accept">>

Stack(headers, ua, ja4, host) ==
  [headers |-> headers, ua |-> ua, wildcard |-> FALSE, lang |-> "pt", ja4 |-> ja4, host |-> host]

JA4(family) == <<"t13", family, "x">>

\* A browser with and without TLS data, one with fewer headers, the same header
\* sets over a scripted handshake, scripts, a crawler and its impersonator.
MCStacks ==
  { Stack(Full, Browser, <<>>, None),
    Stack(Full, Browser, JA4("chromium"), None),
    Stack(Hints, Browser, <<>>, None),
    Stack(Full, Browser, JA4("openssl"), None),
    Stack(Plain, Browser, JA4("python-ssl"), None),
    Stack(Plain, {"curl"}, JA4("openssl"), None),
    Stack(<<"host">>, {}, <<>>, None),
    Stack(Full, {"mozilla", "googlebot"}, <<>>, "crawl.googlebot.com"),
    Stack(Plain, {"mozilla", "googlebot"}, <<>>, "host.example.net") }

Target(method, path, exploits) == [method |-> method, path |-> path, exploits |-> exploits]

MCTargets ==
  { Target("POST", "/login", 0),
    Target("GET", "/products", 0), Target("GET", "/.env", 0), Target("GET", "/stray", 0),
    Target("GET", "/products", 1) }

\* One coherent browser walking through paths that do not exist.
MCSweepTargets == { Target("GET", "/stray", 0) }

MCBrowserOnly == { Stack(Full, Browser, JA4("chromium"), None) }
==============================================================================
