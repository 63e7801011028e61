------------------------------- MODULE Enrich -------------------------------
(***************************************************************************)
(* Forward-confirmed reverse DNS and its cache (honeypot/app/enrich.py),   *)
(* asked on behalf of requests that claim to be a crawler.                 *)
(*                                                                         *)
(* Lookups block the event loop, so there is one at a time.  It makes two  *)
(* queries, and the DNS may change, fail and recover between them.  The    *)
(* answer goes into an lru_cache that holds on to it until it is evicted,  *)
(* whether it is a host name or a failure.                                 *)
(***************************************************************************)
EXTENDS Classifier, SequencesExt

CONSTANTS Addresses,       \* client addresses
          PrivateAddresses,\* is_private, or not an address at all
          IPv4Addresses,   \* those of the one family gethostbyname_ex answers with
          Zones,           \* states of the DNS: [ptr, forward]
          CacheSize,       \* maxsize of the lru_cache
          CrawlerRequest,  \* the request that claims to be a crawler
          MaxChanges       \* bound: changes of the DNS

ASSUME EnrichAssumption ==
         /\ PrivateAddresses \subseteq Addresses /\ IPv4Addresses \subseteq Addresses
         /\ CacheSize \in Nat \ {0}
         /\ MaxChanges \in Nat
         /\ CrawlerRequest.ua \cap CrawlerTokens # {}
         /\ None \notin CrawlerHosts[DeclaredCrawler(CrawlerRequest.ua)]
         /\ CrawlerRequest.exploits \in Nat

\* A host that has no address has an empty set of them.
ASSUME ZoneAssumption ==
         \A z, y \in Zones : \A a \in Addresses : z.ptr[a] # None => z.ptr[a] \in DOMAIN y.forward

VARIABLES zone,      \* what the DNS says: ptr of an address, addresses of a host
          failing,   \* the resolver does not get an answer
          changes,   \* changes of the DNS so far
          cache,     \* sequence of [ip, host], least recently used first
          lookup,    \* the lookup in progress: [phase, ip, host, hurt]
          spoilt,    \* addresses whose cached answer came from a failed query
          vouched,   \* pairs <<ip, host>> the forward zone has ever listed
          since      \* who was asked about since an address last was; itself if never

vars == <<zone, failing, changes, cache, lookup, spoilt, vouched, since>>

Idle == [phase |-> "idle", ip |-> None, host |-> None]

Entry(ip, host) == [ip |-> ip, host |-> host]

Listed(z) == {p \in Addresses \X DOMAIN z.forward : p[1] \in z.forward[p[2]]}

Init ==
  /\ zone \in Zones /\ failing = FALSE /\ changes = 0
  /\ cache = <<>> /\ lookup = Idle /\ spoilt = {}
  /\ vouched = Listed(zone)
  /\ since = [a \in Addresses |-> Addresses]

CachedIps == {cache[i].ip : i \in DOMAIN cache}

Asked(ip) ==
  since' = [a \in Addresses |-> IF a = ip THEN {} ELSE since[a] \union {ip}]

\* A new entry pushes the least recently used one out of a full cache.
Store(ip, host) ==
  /\ LET kept == IF Len(cache) < CacheSize THEN cache ELSE Tail(cache)
     IN cache' = Append(kept, Entry(ip, host))
  /\ Asked(ip)

\* Mutant: entries stay in the order in which they were stored.
HitUnmoved(ip) ==
  /\ lookup.phase = "idle" /\ ip \in CachedIps
  /\ Asked(ip)
  /\ UNCHANGED <<zone, failing, changes, cache, lookup, spoilt, vouched>>

\* lru_cache hit: the entry becomes the most recently used one.
Hit(ip) ==
  /\ lookup.phase = "idle"
  /\ \E i \in DOMAIN cache : /\ cache[i].ip = ip
                            /\ cache' = Append(RemoveAt(cache, i), cache[i])
  /\ Asked(ip)
  /\ UNCHANGED <<zone, failing, changes, lookup, spoilt, vouched>>

\* Mutant: private addresses are looked up too.
MissPrivate(ip) ==
  /\ lookup.phase = "idle" /\ ip \notin CachedIps
  /\ lookup' = [phase |-> "ptr", ip |-> ip, host |-> None]
  /\ UNCHANGED <<zone, failing, changes, cache, spoilt, vouched, since>>

Miss(ip) ==
  /\ lookup.phase = "idle" /\ ip \notin CachedIps
  /\ IF ip \in PrivateAddresses
     THEN Store(ip, None) /\ UNCHANGED lookup
     ELSE /\ lookup' = [phase |-> "ptr", ip |-> ip, host |-> None]
          /\ UNCHANGED <<cache, since>>
  /\ UNCHANGED <<zone, failing, changes, spoilt, vouched>>

\* The lookup returns host, which the cache remembers.
Return(host) ==
  /\ Store(lookup.ip, host)
  /\ spoilt' = IF failing THEN spoilt \union {lookup.ip} ELSE spoilt \ {lookup.ip}
  /\ lookup' = Idle

\* gethostbyaddr: no PTR and no answer are both an error.
ReverseQuery ==
  /\ lookup.phase = "ptr"
  /\ LET host == zone.ptr[lookup.ip]
     IN IF failing \/ host = None
        THEN Return(None)
        ELSE /\ lookup' = [lookup EXCEPT !.phase = "forward", !.host = host]
             /\ UNCHANGED <<cache, spoilt, since>>
  /\ UNCHANGED <<zone, failing, changes, vouched>>

\* Mutant: the forward query only has to succeed.
ForwardUnchecked ==
  /\ lookup.phase = "forward"
  /\ Return(IF failing THEN None ELSE lookup.host)
  /\ UNCHANGED <<zone, failing, changes, vouched>>

\* Mutant: the host must have this one address and no other.
ForwardOnlyAddress ==
  /\ lookup.phase = "forward"
  /\ LET host == lookup.host
     IN Return(IF ~failing /\ zone.forward[host] \cap IPv4Addresses = {lookup.ip}
               THEN host ELSE None)
  /\ UNCHANGED <<zone, failing, changes, vouched>>

\* gethostbyname_ex, and the address must be among the answers, which are the
\* IPv4 addresses of the host: the text of an IPv6 address is never one of them.
ForwardQuery ==
  /\ lookup.phase = "forward"
  /\ LET host == lookup.host
     IN Return(IF ~failing /\ lookup.ip \in zone.forward[host] \cap IPv4Addresses
               THEN host ELSE None)
  /\ UNCHANGED <<zone, failing, changes, vouched>>

\* The world outside.
DNSFails    == ~failing /\ failing' = TRUE
DNSRecovers == failing /\ failing' = FALSE

DNSChanges ==
  /\ changes < MaxChanges
  /\ changes' = changes + 1
  /\ \/ (DNSFails \/ DNSRecovers) /\ UNCHANGED <<zone, vouched>>
     \/ /\ zone' \in Zones /\ zone' # zone
        /\ vouched' = vouched \union Listed(zone')
        /\ UNCHANGED failing
  /\ UNCHANGED <<cache, lookup, spoilt, since>>

Next ==
  \/ \E ip \in Addresses : Hit(ip) \/ Miss(ip)
  \/ ReverseQuery \/ ForwardQuery \/ DNSChanges

Spec == Init /\ [][Next]_vars

------------------------------------------------------------------------------
\* The verdict the first request of a client at the cached entry e gets when it
\* claims to be the crawler.
First == [requests |-> 1, distinct_paths |-> 1, distinct_usernames |-> 0,
          distinct_user_agents |-> 1, not_found |-> 0]

VerdictAt(e) == Classify(CrawlerRequest, BuildFingerprint(CrawlerRequest, e.host), First)

Entries == {cache[i] : i \in DOMAIN cache}

TypeOK ==
  /\ zone \in Zones /\ failing \in BOOLEAN /\ changes \in 0 .. MaxChanges
  /\ lookup.phase \in {"idle", "ptr", "forward"}
  /\ Len(cache) <= CacheSize
  /\ \A i, j \in DOMAIN cache : cache[i].ip = cache[j].ip => i = j
  /\ lookup.phase # "idle" => lookup.ip \in Addresses \ (PrivateAddresses \union CachedIps)

\* PTR alone proves nothing: a client is taken for the crawler only if the
\* crawler's own forward zone listed its address at some time.  Whoever owns
\* the reverse zone of an address cannot get there by pointing its PTR at the
\* crawler, however the queries fall among the changes of the DNS.
VerifiedOnlyIfVouchedFor ==
  \A e \in Entries : VerdictAt(e) = "verified_crawler" =>
    \E host \in CrawlerHosts[DeclaredCrawler(CrawlerRequest.ua)] : <<e.ip, host>> \in vouched

\* An address that is the crawler's in every state of the DNS.
Genuine ==
  {a \in Addresses \ PrivateAddresses : \E h \in CrawlerHosts[DeclaredCrawler(CrawlerRequest.ua)] :
     \A z \in Zones : z.ptr[a] = h /\ a \in z.forward[h]}

\* A genuine crawler that comes over IPv4 is refused only through a query that
\* failed: no change of zone, order of lookups or eviction costs it its identity.
\* One that comes over IPv6 is refused whatever the DNS says (ForwardQuery).
RefusedOnlyAfterFailure ==
  \A e \in Entries :
    e.ip \in Genuine \cap IPv4Addresses /\ VerdictAt(e) # "verified_crawler" => e.ip \in spoilt

\* A scanner that asks for hundreds of paths blocks the event loop for one lookup,
\* not for one each time (enrich.py:24-28): the answer for an address is kept until
\* CacheSize others have been asked about, whatever those are and in whatever order.
KeptWhileInUse ==
  \A a \in Addresses \ CachedIps :
    a \in since[a] \/ Cardinality(since[a]) >= CacheSize

\* What the classifier assumes when it scores an unverified claim as one of the
\* cleanest malicious indicators: "the real ones always pass rDNS"
\* (classifier.py:220-221), at least while the DNS answers.  An instance that has
\* an IPv6 address refutes it at the first lookup, one without at the first failure.
RealOnesAlwaysPass ==
  \A e \in Entries : e.ip \in Genuine /\ ~failing => VerdictAt(e) = "verified_crawler"
==============================================================================
