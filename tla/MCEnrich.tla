------------------------------ MODULE MCEnrich ------------------------------
EXTENDS Enrich, TLC

MCCrawlerHosts == "googlebot" :> {"crawl"}
MCStaticStatus == "/" :> 200

MCCrawlerRequest ==
  [ method |-> "GET", path |-> "/", exploits |-> 0, user |-> None,
    headers |-> <<"host", "user-agent", "accept">>, ua |-> {"mozilla", "googlebot"},
    wildcard |-> TRUE, lang |-> "", ja4 |-> <<>> ]

\* "bot" and "bot6" are the crawler's addresses, one of each family; "liar" points
\* its PTR at the crawler or at a host of its own, which it lists; "mover" is let
\* by the crawler for a time.
Zone(liar, mover) ==
  [ ptr     |-> ("bot" :> "crawl") @@ ("bot6" :> "crawl") @@ ("liar" :> liar)
                @@ ("mover" :> "crawl") @@ ("lan" :> None),
    forward |-> ("crawl" :> ({"bot", "bot6"} \union mover)) @@ ("own" :> {"liar"}) ]

MCZones == {Zone(liar, mover) : liar \in {"crawl", "own", None}, mover \in {{}, {"mover"}}}
==============================================================================
