----------------------------- MODULE EnrichProofs -----------------------------
(***************************************************************************)
(* Forward-confirmed rDNS for any addresses, any behaviour of the DNS and  *)
(* any size of the cache.                                                  *)
(*                                                                         *)
(* An answer is as good as the query that gave it was, however old it is:  *)
(* a host in the cache was listed for its address when it got there, and   *)
(* vouched only grows.  A genuine address has one host in every state of   *)
(* the DNS, so its entry is that host unless a query failed; and spoilt    *)
(* forgets an address only with a new entry for it.                        *)
(***************************************************************************)
EXTENDS Enrich, SequenceTheorems, FunctionTheorems, FiniteSetTheorems, TLAPS

------------------------------------------------------------------------------
(* What is needed of the classifier.                                       *)

IsRequest(req)    == req.exploits \in Nat
IsFingerprint(fp) == fp.missing_baseline \in Nat

\* The best scored intent exists, is an intent, and no intent beats it.
LEMMA TopIntentIsBest ==
  ASSUME NEW scores \in ScoreBoards
  PROVE  /\ TopIntent(scores) \in IntentVerdicts
         /\ \A v \in IntentVerdicts : scores[v] <= scores[TopIntent(scores)]
<1> DEFINE Best(i) == /\ \A j \in 1 .. 4 : scores[IntentOrder[j]] <= scores[IntentOrder[i]]
                      /\ \A j \in 1 .. (i - 1) : scores[IntentOrder[j]] < scores[IntentOrder[i]]
<1>1. /\ scores[IntentOrder[1]] \in Nat /\ scores[IntentOrder[2]] \in Nat
      /\ scores[IntentOrder[3]] \in Nat /\ scores[IntentOrder[4]] \in Nat
  BY DEF ScoreBoards, Verdicts, IntentVerdicts, IntentOrder
<1>2. \E i \in 1 .. 4 : Best(i)
  BY <1>1
<1>3. PICK i \in 1 .. 4 : Best(i) /\ TopIntent(scores) = IntentOrder[i]
  BY <1>2 DEF TopIntent
<1>4. \A v \in IntentVerdicts : \E j \in 1 .. 4 : v = IntentOrder[j]
  BY DEF IntentVerdicts, IntentOrder
<1>5. IntentOrder[i] \in IntentVerdicts
  BY DEF IntentVerdicts, IntentOrder
<1> QED
  BY <1>3, <1>4, <1>5

\* Every request has a fingerprint that can be scored.
LEMMA PrintIsScorable ==
  ASSUME NEW req, NEW host
  PROVE  IsFingerprint(BuildFingerprint(req, host))
<1> DEFINE missing == BaselineHeaders \ Names(req.headers)
<1>1. IsFiniteSet(BaselineHeaders)
  <2>1. IsFiniteSet({"accept"})
    BY FS_Singleton
  <2>2. IsFiniteSet({"accept"} \union {"accept-encoding"})
    BY <2>1, FS_AddElement
  <2>3. IsFiniteSet(({"accept"} \union {"accept-encoding"}) \union {"accept-language"})
    BY <2>2, FS_AddElement
  <2>4. IsFiniteSet((({"accept"} \union {"accept-encoding"}) \union {"accept-language"})
                      \union {"user-agent"})
    BY <2>3, FS_AddElement
  <2>5. BaselineHeaders = (({"accept"} \union {"accept-encoding"}) \union {"accept-language"})
                            \union {"user-agent"}
    BY DEF BaselineHeaders
  <2> QED
    BY <2>4, <2>5
<1>2. Cardinality(missing) \in Nat
  BY <1>1, FS_Subset, FS_CardinalityType
<1>3. BuildFingerprint(req, host).missing_baseline = Cardinality(missing)
  BY DEF BuildFingerprint
<1> QED
  BY <1>2, <1>3 DEF IsFingerprint

\* The scores are a table of numbers.
LEMMA ScoresType ==
  ASSUME NEW req, NEW fp, NEW vel, IsRequest(req), IsFingerprint(fp)
  PROVE  Scores(req, fp, vel) \in ScoreBoards
<1>2. /\ PathSignals(req).vuln_scanner \in Nat
      /\ PathSignals(req).recon_probe \in Nat
      /\ PathSignals(req).credential_attack \in Nat
      /\ PathSignals(req).content_scraper \in Nat
  BY DEF PathSignals, IsRequest, Worth
<1>3. /\ FingerprintSignals(fp).verified_crawler \in Nat
      /\ FingerprintSignals(fp).content_scraper \in Nat
      /\ FingerprintSignals(fp).unclassified_automation \in Nat
  BY DEF FingerprintSignals, IsFingerprint, Worth
<1>4. /\ TLSSignals(fp).unclassified_automation \in Nat
      /\ TLSSignals(fp).likely_human \in Nat
  BY DEF TLSSignals, Worth
<1>5. HumanSignals(fp, vel) \in Nat /\ StatusSignals(req) \in Nat
  BY DEF HumanSignals, StatusSignals, Worth
<1>6. ASSUME NEW login
      PROVE  /\ VelocitySignals(vel, login).vuln_scanner \in Nat
             /\ VelocitySignals(vel, login).recon_probe \in Nat
             /\ VelocitySignals(vel, login).credential_attack \in Nat
             /\ VelocitySignals(vel, login).unclassified_automation \in Nat
             /\ VelocitySignals(vel, login).content_scraper \in Nat
  BY DEF VelocitySignals, Worth
<1> QED
  BY <1>2, <1>3, <1>4, <1>5, <1>6 DEF Scores, ScoreBoards, Verdicts, IntentVerdicts

\* The verdict of a verified crawler goes to proven identities, and to no one else.
LEMMA VerifiedExactlyWhenProven ==
  ASSUME NEW req, NEW vel, NEW fp, IsRequest(req), IsFingerprint(fp)
  PROVE  Classify(req, fp, vel) = "verified_crawler"
         <=> fp.declared_crawler # None /\ fp.crawler_verified
<1> DEFINE S == Scores(req, fp, vel)
<1>1. S \in ScoreBoards
  BY ScoresType
<1>2. S.verified_crawler = IF fp.declared_crawler # None /\ fp.crawler_verified THEN 16 ELSE 0
  BY DEF Scores, FingerprintSignals, Worth
<1>3. TopIntent(S) # "verified_crawler"
  BY <1>1, TopIntentIsBest DEF IntentVerdicts
<1>4. Decide[S] = "verified_crawler" <=> S.verified_crawler > 0
  BY <1>1, <1>3 DEF Decide
<1> QED
  BY <1>2, <1>4 DEF Classify

------------------------------------------------------------------------------

Answers == {None} \union UNION {DOMAIN z.forward : z \in Zones}

TheCrawlers == CrawlerHosts[DeclaredCrawler(CrawlerRequest.ua)]

CacheInv ==
  /\ cache \in Seq([ip : Addresses, host : Answers])
  /\ \A i \in DOMAIN cache : cache[i].host # None => <<cache[i].ip, cache[i].host>> \in vouched

\* The genuine addresses the forward query can confirm.
GenuineV4 == Genuine \cap IPv4Addresses

LookupInv ==
  /\ lookup = [phase |-> lookup.phase, ip |-> lookup.ip, host |-> lookup.host]
  /\ lookup.phase = "forward" =>
       /\ lookup.host # None /\ \A z \in Zones : lookup.host \in DOMAIN z.forward
       /\ lookup.ip \in GenuineV4 => /\ lookup.host \in TheCrawlers
                                     /\ \A z \in Zones : lookup.ip \in z.forward[lookup.host]

GenuineInv ==
  \A i \in DOMAIN cache : cache[i].ip \in GenuineV4 \ spoilt =>
                            cache[i].host # None /\ cache[i].host \in TheCrawlers

IInv == /\ TypeOK /\ CacheInv /\ Listed(zone) \subseteq vouched
        /\ LookupInv /\ GenuineInv

------------------------------------------------------------------------------
(* What a genuine address is, and what the verdict reads of an entry.      *)

LEMMA GenuineHost ==
  ASSUME NEW a \in GenuineV4, NEW z \in Zones
  PROVE  /\ z.ptr[a] \in TheCrawlers /\ z.ptr[a] # None
         /\ a \in Addresses \ PrivateAddresses /\ a \in IPv4Addresses
         /\ \A y \in Zones : a \in y.forward[z.ptr[a]]
BY EnrichAssumption DEF GenuineV4, Genuine, TheCrawlers

LEMMA VerdictReadsHost ==
  ASSUME NEW e
  PROVE  VerdictAt(e) = "verified_crawler" <=> e.host # None /\ e.host \in TheCrawlers
<1> DEFINE fp == BuildFingerprint(CrawlerRequest, e.host)
<1>1. DeclaredCrawler(CrawlerRequest.ua) # None
  <2>1. PICK c \in CrawlerTokens : c \in CrawlerRequest.ua
    BY EnrichAssumption
  <2> QED
    BY <2>1, CrawlerHostsAssumption DEF DeclaredCrawler
<1>2. fp.declared_crawler = DeclaredCrawler(CrawlerRequest.ua)
  BY DEF BuildFingerprint
<1>3. fp.crawler_verified <=> e.host # None /\ e.host \in TheCrawlers
  BY <1>1 DEF BuildFingerprint, VerifyCrawler, TheCrawlers
<1>4. IsRequest(CrawlerRequest) /\ IsFingerprint(fp)
  BY EnrichAssumption, PrintIsScorable DEF IsRequest
<1> QED
  BY <1>1, <1>2, <1>3, <1>4, VerifiedExactlyWhenProven DEF VerdictAt

------------------------------------------------------------------------------
(* The cache.  Whatever it drops or moves, its entries are old ones or the *)
(* new one, and addresses still differ.                                    *)

\* An element that is taken out and appended again.
LEMMA MovedToEnd ==
  ASSUME NEW E, NEW s \in Seq(E), NEW h \in DOMAIN s
  PROVE  LET t == Append(RemoveAt(s, h), s[h])
             n == Len(s)
         IN /\ t \in Seq(E) /\ Len(t) = n
            /\ \A i \in 1 .. n : t[i] = s[IF i < h THEN i ELSE IF i < n THEN i + 1 ELSE h]
<1> DEFINE front == SubSeq(s, 1, h - 1)
           back  == SubSeq(s, h + 1, Len(s))
<1>1. Len(s) \in Nat /\ DOMAIN s = 1 .. Len(s) /\ h \in 1 .. Len(s) /\ s[h] \in E
  BY LenProperties, ElementOfSeq
<1>2. /\ front \in Seq(E) /\ Len(front) = h - 1 /\ \A i \in 1 .. h - 1 : front[i] = s[i]
  BY <1>1
<1>3. /\ back \in Seq(E) /\ Len(back) = Len(s) - h /\ \A i \in 1 .. Len(s) - h : back[i] = s[h + i]
  BY <1>1
<1>4. RemoveAt(s, h) = front \o back
  BY DEF RemoveAt
<1> HIDE DEF front, back
<1>5. front \in Seq(E) /\ back \in Seq(E)
  BY <1>2, <1>3
<1> DEFINE rest == front \o back
<1>6. /\ rest \in Seq(E) /\ Len(rest) = Len(front) + Len(back)
      /\ \A i \in 1 .. Len(front) + Len(back) :
            rest[i] = IF i <= Len(front) THEN front[i] ELSE back[i - Len(front)]
  BY <1>5, ConcatProperties
<1> HIDE DEF rest
<1>7. Len(rest) = Len(s) - 1
  BY <1>1, <1>2, <1>3, <1>6
<1>8. \A i \in 1 .. Len(s) - 1 : rest[i] = s[IF i < h THEN i ELSE i + 1]
  <2> SUFFICES ASSUME NEW i \in 1 .. Len(s) - 1
               PROVE  rest[i] = s[IF i < h THEN i ELSE i + 1]
    OBVIOUS
  <2>1. CASE i < h
    BY <1>1, <1>2, <1>3, <1>6, <2>1
  <2>2. CASE ~(i < h)
    <3>1. i - (h - 1) \in 1 .. Len(s) - h /\ h + (i - (h - 1)) = i + 1
      BY <1>1, <2>2
    <3>2. rest[i] = back[i - (h - 1)]
      BY <1>1, <1>2, <1>3, <1>6, <2>2
    <3> QED
      BY <1>3, <2>2, <3>1, <3>2
  <2> QED
    BY <2>1, <2>2
<1> DEFINE t == Append(rest, s[h])
<1>9. /\ t \in Seq(E) /\ Len(t) = Len(rest) + 1 /\ t[Len(rest) + 1] = s[h]
      /\ \A i \in 1 .. Len(rest) : t[i] = rest[i]
  BY <1>1, <1>6, AppendProperties
<1> HIDE DEF t
<1>10. Len(t) = Len(s) /\ \A i \in 1 .. Len(s) : t[i] = s[IF i < h THEN i ELSE IF i < Len(s) THEN i + 1 ELSE h]
  BY <1>1, <1>7, <1>8, <1>9
<1> QED
  BY <1>4, <1>9, <1>10 DEF rest, t

\* The new entry is the last one, behind all the old ones or, if the cache was full,
\* behind all but the first.
LEMMA StoreShape ==
  ASSUME TypeOK, CacheInv, NEW ip \in Addresses, NEW host \in Answers, Store(ip, host)
  PROVE  /\ cache' \in Seq([ip : Addresses, host : Answers])
         /\ Len(cache') <= CacheSize
         /\ \E n \in Nat, k \in {0, 1} :
               /\ Len(cache') = n + 1 /\ Len(cache) = n + k /\ cache'[n + 1] = Entry(ip, host)
               /\ \A i \in 1 .. n : cache'[i] = cache[i + k]
               /\ k = 1 => Len(cache) = CacheSize
<1> DEFINE E == [ip : Addresses, host : Answers]
<1>1. /\ cache \in Seq(E) /\ Len(cache) <= CacheSize /\ CacheSize \in Nat \ {0}
      /\ DOMAIN cache = 1 .. Len(cache) /\ Len(cache) \in Nat
  BY LenProperties, EnrichAssumption DEF CacheInv, TypeOK
<1> DEFINE e == Entry(ip, host)
<1>2. e \in E
  BY DEF Entry
<1>3. \/ Len(cache) < CacheSize /\ cache' = Append(cache, e)
      \/ ~(Len(cache) < CacheSize) /\ cache' = Append(Tail(cache), e)
  BY DEF Store
<1> HIDE DEF E, e
<1>4. CASE Len(cache) < CacheSize
  <2>1. cache' = Append(cache, e)
    BY <1>3, <1>4
  <2>2. /\ cache' \in Seq(E) /\ Len(cache') = Len(cache) + 1 /\ cache'[Len(cache) + 1] = e
        /\ \A i \in 1 .. Len(cache) : cache'[i] = cache[i + 0]
    BY <1>1, <1>2, <2>1, AppendProperties
  <2> DEFINE n == Len(cache)
             k == 0
  <2>3. n = n + k /\ Len(cache') <= CacheSize /\ n \in Nat /\ k \in {0, 1} /\ k # 1
    BY <1>1, <1>4, <2>2
  <2>4. Len(cache) = n + k /\ Len(cache') = n + 1 /\ cache'[n + 1] = e
        /\ \A i \in 1 .. n : cache'[i] = cache[i + k]
    BY <2>2, <2>3
  <2> HIDE DEF n, k
  <2> QED
    BY <2>2, <2>3, <2>4 DEF E, e
<1>5. CASE ~(Len(cache) < CacheSize)
  <2> DEFINE r == Tail(cache)
  <2>1. cache' = Append(r, e) /\ cache # <<>>
    BY <1>1, <1>3, <1>5
  <2>2. r \in Seq(E) /\ Len(r) = Len(cache) - 1 /\ \A i \in 1 .. Len(r) : r[i] = cache[i + 1]
    BY <1>1, <2>1, HeadTailProperties
  <2> HIDE DEF r
  <2>3. /\ cache' \in Seq(E) /\ Len(cache') = Len(r) + 1 /\ cache'[Len(r) + 1] = e
        /\ \A i \in 1 .. Len(r) : cache'[i] = r[i]
    BY <1>2, <2>1, <2>2, AppendProperties
  <2>4. Len(r) \in Nat
    BY <2>2, LenProperties
  <2>5. Len(cache) = Len(r) + 1 /\ Len(cache) = CacheSize
    <3>1. Len(cache) = CacheSize
      <4>1. Len(cache) <= CacheSize /\ Len(cache) \in Int /\ CacheSize \in Int
        BY <1>1
      <4> QED
        BY <1>5, <4>1
    <3>2. Len(cache) \in Nat /\ Len(r) = Len(cache) - 1
      BY <1>1, <2>2
    <3> QED
      BY <3>1, <3>2
  <2>7. Len(cache') <= CacheSize
    BY <1>1, <2>3, <2>5
  <2>6. \A i \in 1 .. Len(r) : cache'[i] = cache[i + 1]
    BY <2>2, <2>3
  <2> QED
    BY <2>3, <2>4, <2>5, <2>6, <2>7 DEF E, e
<1> QED
  BY <1>4, <1>5

LEMMA StoreKeeps ==
  ASSUME TypeOK, CacheInv, NEW ip \in Addresses \ CachedIps, NEW host \in Answers,
         Store(ip, host)
  PROVE  /\ cache' \in Seq([ip : Addresses, host : Answers])
         /\ Len(cache') <= CacheSize
         /\ \A i, j \in DOMAIN cache' : cache'[i].ip = cache'[j].ip => i = j
         /\ \A i \in DOMAIN cache' : \/ cache'[i] = Entry(ip, host)
                                     \/ \E j \in DOMAIN cache : cache'[i] = cache[j]
<1> DEFINE E == [ip : Addresses, host : Answers]
           e == Entry(ip, host)
<1>1. cache \in Seq(E) /\ DOMAIN cache = 1 .. Len(cache)
  BY LenProperties DEF CacheInv
<1>2. e.ip = ip
  BY DEF Entry
<1>5. cache' \in Seq(E) /\ Len(cache') <= CacheSize
  BY StoreShape
<1>6. PICK n \in Nat, k \in {0, 1} :
        /\ Len(cache') = n + 1 /\ Len(cache) = n + k /\ cache'[n + 1] = e
        /\ \A i \in 1 .. n : cache'[i] = cache[i + k]
  BY StoreShape
<1> HIDE DEF E, e
<1>7. DOMAIN cache' = 1 .. n + 1
  BY <1>5, <1>6, LenProperties
<1>8. ASSUME NEW i \in 1 .. n
      PROVE  i + k \in DOMAIN cache /\ cache'[i] = cache[i + k] /\ cache'[i].ip # ip
  <2>1. i + k \in DOMAIN cache /\ cache'[i] = cache[i + k]
    BY <1>1, <1>6
  <2> QED
    BY <2>1 DEF CachedIps
<1>9. \A i \in DOMAIN cache' : i \in 1 .. n \/ i = n + 1
  BY <1>7
<1>10. ASSUME NEW i \in DOMAIN cache', NEW j \in DOMAIN cache', cache'[i].ip = cache'[j].ip
      PROVE  i = j
  <2>1. CASE i \in 1 .. n /\ j \in 1 .. n
    <3>1. i + k = j + k
      BY <1>8, <1>10, <2>1 DEF TypeOK
    <3> QED
      BY <2>1, <3>1
  <2>2. CASE i = n + 1 \/ j = n + 1
    BY <1>2, <1>6, <1>8, <1>9, <1>10, <2>2 DEF e
  <2> QED
    BY <1>9, <2>1, <2>2
<1>11. \A i \in DOMAIN cache' : \/ cache'[i] = e
                                \/ \E j \in DOMAIN cache : cache'[i] = cache[j]
  BY <1>6, <1>8, <1>9
<1> QED
  BY <1>5, <1>10, <1>11 DEF E, e

LEMMA HitKeeps ==
  ASSUME TypeOK, CacheInv, NEW ip \in Addresses, Hit(ip)
  PROVE  /\ cache' \in Seq([ip : Addresses, host : Answers])
         /\ Len(cache') <= CacheSize
         /\ \A i, j \in DOMAIN cache' : cache'[i].ip = cache'[j].ip => i = j
         /\ \A i \in DOMAIN cache' : \E j \in DOMAIN cache : cache'[i] = cache[j]
<1> DEFINE E == [ip : Addresses, host : Answers]
           n == Len(cache)
<1>1. PICK h \in DOMAIN cache : cache' = Append(RemoveAt(cache, h), cache[h])
  BY DEF Hit
<1>2. cache \in Seq(E) /\ DOMAIN cache = 1 .. n /\ n <= CacheSize
  BY LenProperties DEF CacheInv, TypeOK
<1>3. n \in Nat /\ h \in 1 .. n
  BY <1>2, LenProperties
<1> DEFINE Old(i) == IF i < h THEN i ELSE IF i < n THEN i + 1 ELSE h
<1> HIDE DEF E
<1>4. cache' \in Seq(E) /\ Len(cache') = n /\ \A i \in 1 .. n : cache'[i] = cache[Old(i)]
  BY <1>1, <1>2, MovedToEnd
<1> HIDE DEF n
<1>5. \A i \in 1 .. n : Old(i) \in 1 .. n
  BY <1>3
<1>6. ASSUME NEW k \in 1 .. n
      PROVE  \/ k < h /\ Old(k) = k
             \/ h <= k /\ k < n /\ Old(k) = k + 1
             \/ k = n /\ Old(k) = h
  <2>1. CASE k < h
    BY <2>1
  <2>2. CASE ~(k < h) /\ k < n
    BY <1>3, <2>2
  <2>3. CASE ~(k < h) /\ ~(k < n)
    BY <1>3, <2>3
  <2> QED
    BY <2>1, <2>2, <2>3
<1>7. DOMAIN cache' = 1 .. n
  BY <1>4, LenProperties
<1> HIDE DEF Old
<1>8. \A i, j \in 1 .. n : Old(i) = Old(j) => i = j
  <2> SUFFICES ASSUME NEW i \in 1 .. n, NEW j \in 1 .. n, Old(i) = Old(j) PROVE i = j
    OBVIOUS
  <2>1. \/ i < h /\ Old(i) = i
        \/ h <= i /\ i < n /\ Old(i) = i + 1
        \/ i = n /\ Old(i) = h
    BY <1>6
  <2>2. \/ j < h /\ Old(j) = j
        \/ h <= j /\ j < n /\ Old(j) = j + 1
        \/ j = n /\ Old(j) = h
    BY <1>6
  <2> QED
    BY <1>3, <2>1, <2>2
<1>9. \A i, j \in DOMAIN cache' : cache'[i].ip = cache'[j].ip => i = j
  <2> SUFFICES ASSUME NEW i \in 1 .. n, NEW j \in 1 .. n, cache'[i].ip = cache'[j].ip
               PROVE  i = j
    BY <1>7
  <2>1. cache[Old(i)].ip = cache[Old(j)].ip
    BY <1>4
  <2>2. Old(i) = Old(j)
    BY <1>2, <1>5, <2>1 DEF TypeOK
  <2> QED
    BY <1>8, <2>2
<1> QED
  BY <1>2, <1>4, <1>5, <1>7, <1>9 DEF E
------------------------------------------------------------------------------
(* Every step keeps the invariant.                                         *)

LEMMA InitAnswers == Init => IInv
<1> SUFFICES ASSUME Init PROVE IInv
  OBVIOUS
<1>1. /\ zone \in Zones /\ failing = FALSE /\ changes = 0 /\ cache = <<>>
      /\ lookup = Idle /\ spoilt = {} /\ vouched = Listed(zone)
  BY DEF Init
<1>2. DOMAIN cache = {} /\ Len(cache) = 0 /\ cache \in Seq([ip : Addresses, host : Answers])
  BY <1>1
<1>3. TypeOK
  <2>1. lookup.phase = "idle"
    BY <1>1 DEF Idle
  <2>2. Len(cache) <= CacheSize /\ changes \in 0 .. MaxChanges
    BY <1>1, <1>2, EnrichAssumption
  <2>3. failing \in BOOLEAN
    BY <1>1
  <2> QED
    BY <1>1, <1>2, <2>1, <2>2, <2>3 DEF TypeOK
<1>4. CacheInv /\ GenuineInv
  BY <1>2 DEF CacheInv, GenuineInv
<1>5. LookupInv
  BY <1>1 DEF LookupInv, Idle
<1> QED
  BY <1>1, <1>3, <1>4, <1>5 DEF IInv

\* A lookup may end with an answer that was vouched for, unless a query failed
\* with one that a genuine address gets.
LEMMA ReturnKeeps ==
  ASSUME IInv, lookup.phase # "idle", NEW host \in Answers, Return(host),
         host # None => <<lookup.ip, host>> \in vouched,
         lookup.ip \in GenuineV4 /\ ~failing => host # None /\ host \in TheCrawlers,
         UNCHANGED <<zone, failing, changes, vouched>>
  PROVE  IInv'
<1> DEFINE ip == lookup.ip
<1>1. ip \in Addresses \ CachedIps
  BY DEF IInv, TypeOK
<1>2. Store(ip, host) /\ lookup' = Idle
      /\ spoilt' = IF failing THEN spoilt \union {ip} ELSE spoilt \ {ip}
  BY DEF Return
<1>3. /\ cache' \in Seq([ip : Addresses, host : Answers])
      /\ Len(cache') <= CacheSize
      /\ \A i, j \in DOMAIN cache' : cache'[i].ip = cache'[j].ip => i = j
      /\ \A i \in DOMAIN cache' : \/ cache'[i] = Entry(ip, host)
                                  \/ \E j \in DOMAIN cache : cache'[i] = cache[j]
  BY <1>1, <1>2, StoreKeeps DEF IInv
<1>4. TypeOK'
  BY <1>2, <1>3 DEF IInv, TypeOK, Idle
<1>5. CacheInv'
  <2> SUFFICES ASSUME NEW i \in DOMAIN cache', cache'[i].host # None
               PROVE  <<cache'[i].ip, cache'[i].host>> \in vouched
    BY <1>3 DEF CacheInv, Answers
  <2>1. CASE cache'[i] = Entry(ip, host)
    BY <2>1 DEF Entry
  <2>2. CASE \E j \in DOMAIN cache : cache'[i] = cache[j]
    BY <2>2 DEF IInv, CacheInv
  <2> QED
    BY <1>3, <2>1, <2>2
<1>6. LookupInv'
  BY <1>2 DEF LookupInv, Idle
<1>7. GenuineInv'
  <2> SUFFICES ASSUME NEW i \in DOMAIN cache', cache'[i].ip \in GenuineV4 \ spoilt'
               PROVE  cache'[i].host # None /\ cache'[i].host \in TheCrawlers
    BY DEF GenuineInv, GenuineV4, Genuine
  <2>1. CASE cache'[i] = Entry(ip, host)
    BY <1>2, <2>1 DEF Entry
  <2>2. ASSUME NEW j \in DOMAIN cache, cache'[i] = cache[j]
        PROVE  cache'[i].host # None /\ cache'[i].host \in TheCrawlers
    <3>1. cache[j].ip # ip
      BY <1>1 DEF CachedIps
    <3>2. cache[j].ip \in GenuineV4 \ spoilt
      BY <1>2, <2>2, <3>1
    <3> QED
      BY <2>2, <3>2 DEF IInv, GenuineInv
  <2> QED
    BY <1>3, <2>1, <2>2
<1>8. Listed(zone)' \subseteq vouched'
  BY DEF IInv, Listed
<1> QED
  BY <1>4, <1>5, <1>6, <1>7, <1>8 DEF IInv

LEMMA HitInv == ASSUME IInv, NEW ip \in Addresses, Hit(ip) PROVE IInv'
<1>1. lookup.phase = "idle" /\ UNCHANGED <<zone, failing, changes, lookup, spoilt, vouched>>
  BY DEF Hit
<1>2. /\ cache' \in Seq([ip : Addresses, host : Answers])
      /\ Len(cache') <= CacheSize
      /\ \A i, j \in DOMAIN cache' : cache'[i].ip = cache'[j].ip => i = j
      /\ \A i \in DOMAIN cache' : \E j \in DOMAIN cache : cache'[i] = cache[j]
  BY HitKeeps DEF IInv
<1>3. TypeOK'
  BY <1>1, <1>2 DEF IInv, TypeOK
<1>4. CacheInv' /\ GenuineInv'
  BY <1>1, <1>2 DEF IInv, CacheInv, GenuineInv, GenuineV4, Genuine
<1>5. LookupInv' /\ Listed(zone)' \subseteq vouched'
  BY <1>1 DEF IInv, LookupInv, Listed, GenuineV4, Genuine
<1> QED
  BY <1>3, <1>4, <1>5 DEF IInv

LEMMA MissInv == ASSUME IInv, NEW ip \in Addresses, Miss(ip) PROVE IInv'
<1>1. /\ lookup.phase = "idle" /\ ip \notin CachedIps
      /\ UNCHANGED <<zone, failing, changes, spoilt, vouched>>
  BY DEF Miss
<1>2. Listed(zone)' \subseteq vouched'
  BY <1>1 DEF IInv, Listed
<1>3. CASE ip \in PrivateAddresses
  <2>1. Store(ip, None) /\ lookup' = lookup
    BY <1>3 DEF Miss
  <2>2. None \in Answers /\ ip \in Addresses \ CachedIps
    BY <1>1 DEF Answers
  <2>3. /\ cache' \in Seq([ip : Addresses, host : Answers])
        /\ Len(cache') <= CacheSize
        /\ \A i, j \in DOMAIN cache' : cache'[i].ip = cache'[j].ip => i = j
        /\ \A i \in DOMAIN cache' : \/ cache'[i] = Entry(ip, None)
                                    \/ \E j \in DOMAIN cache : cache'[i] = cache[j]
    <3>1. TypeOK /\ CacheInv
      BY DEF IInv
    <3> QED
      BY <2>1, <2>2, <3>1, StoreKeeps
  <2>4. TypeOK'
    BY <1>1, <2>1, <2>3 DEF IInv, TypeOK
  <2>5. ip \notin GenuineV4
    BY <1>3 DEF GenuineV4, Genuine
  <2>6. CacheInv'
    BY <1>1, <2>3 DEF IInv, CacheInv, Entry
  <2>7. GenuineInv'
    BY <1>1, <2>3, <2>5 DEF IInv, GenuineInv, GenuineV4, Genuine, Entry
  <2>8. LookupInv'
    BY <1>1, <2>1 DEF IInv, LookupInv, GenuineV4, Genuine
  <2> QED
    BY <1>2, <2>4, <2>6, <2>7, <2>8 DEF IInv
<1>4. CASE ip \notin PrivateAddresses
  <2>1. lookup' = [phase |-> "ptr", ip |-> ip, host |-> None] /\ cache' = cache
    BY <1>4 DEF Miss
  <2>2. TypeOK'
    BY <1>1, <1>4, <2>1 DEF IInv, TypeOK, CachedIps
  <2>3. CacheInv' /\ GenuineInv'
    BY <1>1, <2>1 DEF IInv, CacheInv, GenuineInv, GenuineV4, Genuine
  <2>4. LookupInv'
    BY <2>1 DEF LookupInv
  <2> QED
    BY <1>2, <2>2, <2>3, <2>4 DEF IInv
<1> QED
  BY <1>3, <1>4

LEMMA ReverseInv == ASSUME IInv, ReverseQuery PROVE IInv'
<1> DEFINE ip   == lookup.ip
           host == zone.ptr[ip]
<1>1. /\ lookup.phase = "ptr" /\ UNCHANGED <<zone, failing, changes, vouched>>
      /\ zone \in Zones /\ ip \in Addresses
  BY DEF ReverseQuery, IInv, TypeOK
<1>2. CASE failing \/ host = None
  <2>1. Return(None)
    BY <1>2 DEF ReverseQuery
  <2>2. None \in Answers
    BY DEF Answers
  <2>3. ~(ip \in GenuineV4 /\ ~failing)
    BY <1>1, <1>2, GenuineHost
  <2> QED
    BY <1>1, <1>2, <2>1, <2>2, <2>3, ReturnKeeps
<1>3. CASE ~(failing \/ host = None)
  <2>1. /\ lookup' = [phase |-> "forward", ip |-> ip, host |-> host]
        /\ cache' = cache /\ spoilt' = spoilt
    BY <1>3 DEF ReverseQuery, IInv, LookupInv
  <2>2. host # None /\ \A z \in Zones : host \in DOMAIN z.forward
    BY <1>1, <1>3, ZoneAssumption
  <2>3. ip \in GenuineV4 => host \in TheCrawlers /\ \A z \in Zones : ip \in z.forward[host]
    BY <1>1, GenuineHost
  <2>4. LookupInv'
    BY <1>1, <2>1, <2>2, <2>3 DEF LookupInv, GenuineV4, Genuine
  <2>5. TypeOK'
    BY <1>1, <2>1 DEF IInv, TypeOK, CachedIps
  <2>6. CacheInv' /\ GenuineInv' /\ Listed(zone)' \subseteq vouched'
    BY <1>1, <2>1 DEF IInv, CacheInv, GenuineInv, GenuineV4, Genuine, Listed
  <2> QED
    BY <2>4, <2>5, <2>6 DEF IInv
<1> QED
  BY <1>2, <1>3

LEMMA ForwardInv == ASSUME IInv, ForwardQuery PROVE IInv'
<1> DEFINE ip   == lookup.ip
           host == lookup.host
           answer == IF ~failing /\ ip \in zone.forward[host] \cap IPv4Addresses THEN host ELSE None
<1>1. /\ lookup.phase = "forward" /\ UNCHANGED <<zone, failing, changes, vouched>>
      /\ Return(answer) /\ zone \in Zones /\ ip \in Addresses
  BY DEF ForwardQuery, IInv, TypeOK
<1>2. /\ host # None /\ host \in DOMAIN zone.forward
      /\ ip \in GenuineV4 => host \in TheCrawlers /\ ip \in zone.forward[host]
  BY <1>1 DEF IInv, LookupInv
<1>3. answer \in Answers
  BY <1>1, <1>2 DEF Answers
<1>4. answer # None => <<ip, answer>> \in vouched
  <2> SUFFICES ASSUME answer # None PROVE <<ip, host>> \in Listed(zone)
    BY DEF IInv
  <2> QED
    BY <1>1, <1>2 DEF Listed
<1>5. ip \in GenuineV4 /\ ~failing => answer # None /\ answer \in TheCrawlers
  BY <1>2 DEF GenuineV4
<1> HIDE DEF answer
<1> QED
  BY <1>1, <1>3, <1>4, <1>5, ReturnKeeps

LEMMA ChangesInv == ASSUME IInv, DNSChanges PROVE IInv'
<1>1. /\ changes < MaxChanges /\ changes' = changes + 1
      /\ UNCHANGED <<cache, lookup, spoilt>>
      /\ zone' \in Zones /\ vouched \subseteq vouched'
      /\ Listed(zone)' \subseteq vouched'
  BY DEF DNSChanges, DNSFails, DNSRecovers, IInv, TypeOK, Listed
<1>2. failing' \in BOOLEAN
  BY DEF DNSChanges, DNSFails, DNSRecovers, IInv, TypeOK
<1>3. changes' \in 0 .. MaxChanges
  BY <1>1, EnrichAssumption DEF IInv, TypeOK
<1>4. TypeOK'
  BY <1>1, <1>2, <1>3 DEF IInv, TypeOK, CachedIps
<1>5. CacheInv' /\ GenuineInv' /\ LookupInv'
  BY <1>1 DEF IInv, CacheInv, GenuineInv, LookupInv, GenuineV4, Genuine
<1> QED
  BY <1>1, <1>4, <1>5 DEF IInv

LEMMA AnswersHold == Spec => []IInv
<1>1. IInv /\ [Next]_vars => IInv'
  <2> SUFFICES ASSUME IInv, [Next]_vars PROVE IInv'
    OBVIOUS
  <2>1. CASE UNCHANGED vars
    BY <2>1 DEF vars, IInv, TypeOK, CacheInv, GenuineInv, LookupInv, GenuineV4, Genuine, Listed, CachedIps
  <2> QED
    BY <2>1, HitInv, MissInv, ReverseInv, ForwardInv, ChangesInv DEF Next
<1> QED
  BY <1>1, InitAnswers, PTL DEF Spec

------------------------------------------------------------------------------
(* What is in the cache is what was asked about last.  Of a cached address  *)
(* since holds the entries behind its own; when an entry is pushed out that *)
(* is all the others and the new one, as many as the cache has room for.    *)

Behind(i) == {cache[j].ip : j \in i + 1 .. Len(cache)}

RecencyInv ==
  /\ since = [a \in Addresses |-> since[a]]
  /\ \A i \in DOMAIN cache : since[cache[i].ip] = Behind(i)
  /\ \A a \in Addresses \ CachedIps :
        a \in since[a] \/ (IsFiniteSet(since[a]) /\ Cardinality(since[a]) >= CacheSize)

LEMMA AskedAbout ==
  ASSUME since = [a \in Addresses |-> since[a]], NEW ip \in Addresses, Asked(ip)
  PROVE  /\ since' = [a \in Addresses |-> since'[a]] /\ since'[ip] = {}
         /\ \A a \in Addresses \ {ip} : since'[a] = since[a] \union {ip}
BY DEF Asked

\* An address that is not cached has been asked about as long ago as before, or longer.
LEMMA StaysOut ==
  ASSUME RecencyInv, NEW ip \in Addresses, Asked(ip), NEW a \in Addresses \ {ip},
         a \notin CachedIps
  PROVE  a \in since'[a] \/ (IsFiniteSet(since'[a]) /\ Cardinality(since'[a]) >= CacheSize)
<1>1. since'[a] = since[a] \union {ip}
  BY AskedAbout DEF RecencyInv
<1>2. CASE a \in since[a]
  BY <1>1, <1>2
<1>3. CASE IsFiniteSet(since[a]) /\ Cardinality(since[a]) >= CacheSize
  <2> DEFINE s == since[a]
  <2>1. /\ IsFiniteSet(s \union {ip})
        /\ Cardinality(s \union {ip}) = IF ip \in s THEN Cardinality(s) ELSE Cardinality(s) + 1
    BY <1>3, FS_AddElement
  <2>2. Cardinality(s) \in Nat /\ CacheSize \in Nat
    BY <1>3, FS_CardinalityType, EnrichAssumption
  <2> HIDE DEF s
  <2>3. Cardinality(s \union {ip}) >= CacheSize
    <3>1. Cardinality(s) >= CacheSize
      BY <1>3 DEF s
    <3>2. CASE ip \in s
      BY <2>1, <3>1, <3>2
    <3>3. CASE ip \notin s
      BY <2>1, <2>2, <3>1, <3>3
    <3> QED
      BY <3>2, <3>3
  <2> QED
    BY <1>1, <2>1, <2>3 DEF s
<1> QED
  BY <1>2, <1>3 DEF RecencyInv

LEMMA Distinct ==
  ASSUME NEW n \in Nat, NEW f, \A i, j \in 2 .. n + 1 : f[i] = f[j] => i = j
  PROVE  /\ IsFiniteSet({f[j] : j \in 2 .. n + 1})
         /\ Cardinality({f[j] : j \in 2 .. n + 1}) = n
<1> DEFINE s == {f[j] : j \in 2 .. n + 1}
           g == [i \in 1 .. n |-> f[i + 1]]
<1>1. \A i \in 1 .. n : i + 1 \in 2 .. n + 1
  OBVIOUS
<1>2. g \in [1 .. n -> s]
  BY <1>1
<1>3. \A i, j \in 1 .. n : g[i] = g[j] => i = j
  <2> SUFFICES ASSUME NEW i \in 1 .. n, NEW j \in 1 .. n, g[i] = g[j] PROVE i = j
    OBVIOUS
  <2>1. i + 1 = j + 1
    BY <1>1
  <2> QED
    BY <2>1
<1>4. \A x \in s : \E i \in 1 .. n : g[i] = x
  <2> SUFFICES ASSUME NEW j \in 2 .. n + 1 PROVE \E i \in 1 .. n : g[i] = f[j]
    OBVIOUS
  <2>1. j - 1 \in 1 .. n /\ (j - 1) + 1 = j
    OBVIOUS
  <2>2. g[j - 1] = f[j]
    BY <2>1
  <2> QED
    BY <2>1, <2>2
<1> HIDE DEF g, s
<1>5. ExistsBijection(1 .. n, s)
  BY <1>2, <1>3, <1>4, Fun_IsBij DEF ExistsBijection
<1> QED
  BY <1>5, FS_NatBijection, FS_CountingElements DEF s

LEMMA StoreRecency ==
  ASSUME TypeOK, CacheInv, RecencyInv, NEW ip \in Addresses \ CachedIps,
         NEW host \in Answers, Store(ip, host)
  PROVE  RecencyInv'
<1> DEFINE E == [ip : Addresses, host : Answers]
<1>1. PICK n \in Nat, k \in {0, 1} :
        /\ Len(cache') = n + 1 /\ Len(cache) = n + k /\ cache'[n + 1] = Entry(ip, host)
        /\ \A i \in 1 .. n : cache'[i] = cache[i + k]
        /\ k = 1 => Len(cache) = CacheSize
  BY StoreShape
<1>2. /\ cache \in Seq(E) /\ DOMAIN cache = 1 .. n + k /\ DOMAIN cache' = 1 .. n + 1
      /\ cache'[n + 1].ip = ip
  BY <1>1, LenProperties, StoreShape DEF CacheInv, Entry
<1>3. \A i \in 1 .. n + k : cache[i].ip \in Addresses /\ cache[i].ip # ip
  <2> SUFFICES ASSUME NEW i \in 1 .. n + k
               PROVE  cache[i].ip \in Addresses /\ cache[i].ip # ip
    OBVIOUS
  <2>1. cache[i] \in E
    <3> HIDE DEF E
    <3> QED
      BY <1>1, <1>2, ElementOfSeq
  <2> QED
    BY <1>2, <2>1 DEF CachedIps
<1> HIDE DEF E
<1>4. \A i \in 1 .. n : i + k \in 1 .. n + k
  OBVIOUS
<1>5. /\ Asked(ip) /\ since' = [a \in Addresses |-> since'[a]] /\ since'[ip] = {}
      /\ \A a \in Addresses \ {ip} : since'[a] = since[a] \union {ip}
  BY AskedAbout DEF Store, RecencyInv
<1>6. ASSUME NEW i \in 1 .. n + 1
      PROVE  since'[cache'[i].ip] = {cache'[j].ip : j \in i + 1 .. n + 1}
  <2>1. CASE i = n + 1
    <3>1. i + 1 .. n + 1 = {}
      BY <2>1
    <3> QED
      BY <1>2, <1>5, <2>1, <3>1
  <2>2. CASE i \in 1 .. n
    <3>1. since'[cache'[i].ip] = {cache[j].ip : j \in i + k + 1 .. n + k} \union {ip}
      <4>1. i + k \in 1 .. n + k /\ cache'[i] = cache[i + k]
        BY <1>1, <1>4, <2>2
      <4>2. since'[cache[i + k].ip] = since[cache[i + k].ip] \union {ip}
        BY <1>3, <1>5, <4>1
      <4>3. since[cache[i + k].ip] = Behind(i + k)
        BY <1>2, <4>1 DEF RecencyInv
      <4>4. Behind(i + k) = {cache[j].ip : j \in i + k + 1 .. n + k}
        BY <1>1 DEF Behind
      <4> QED
        BY <4>1, <4>2, <4>3, <4>4
    <3>2. ASSUME NEW j \in i + k + 1 .. n + k
          PROVE  \E m \in i + 1 .. n + 1 : cache[j].ip = cache'[m].ip
      <4> DEFINE m == j - k
      <4>1. m \in i + 1 .. n + 1 /\ m \in 1 .. n /\ m + k = j
        BY <2>2
      <4> HIDE DEF m
      <4>2. cache'[m] = cache[j]
        BY <1>1, <4>1
      <4> QED
        BY <4>1, <4>2
    <3>3. n + 1 \in i + 1 .. n + 1
      BY <2>2
    <3>4. ASSUME NEW m \in i + 1 .. n + 1
          PROVE  cache'[m].ip = ip \/ \E j \in i + k + 1 .. n + k : cache'[m].ip = cache[j].ip
      <4>1. CASE m = n + 1
        BY <1>2, <4>1
      <4>2. CASE m # n + 1
        <5>1. m \in 1 .. n /\ m + k \in i + k + 1 .. n + k
          BY <2>2, <4>2
        <5>2. cache'[m] = cache[m + k]
          BY <1>1, <5>1
        <5> QED
          BY <5>1, <5>2
      <4> QED
        BY <4>1, <4>2
    <3> DEFINE old == {cache[j].ip : j \in i + k + 1 .. n + k} \union {ip}
               new == {cache'[j].ip : j \in i + 1 .. n + 1}
    <3>5. old \subseteq new
      BY <1>2, <3>2, <3>3
    <3>6. new \subseteq old
      BY <3>4
    <3> QED
      BY <3>1, <3>5, <3>6
  <2> QED
    BY <2>1, <2>2
<1>7. ASSUME NEW a \in Addresses \ CachedIps'
      PROVE  a \in since'[a] \/ (IsFiniteSet(since'[a]) /\ Cardinality(since'[a]) >= CacheSize)
  <2>1. a # ip
    BY <1>2 DEF CachedIps
  <2>2. CASE a \notin CachedIps
    BY <1>5, <2>1, <2>2, StaysOut
  <2>3. CASE a \in CachedIps
    <3>1. PICK i \in 1 .. n + k : a = cache[i].ip
      BY <1>2, <2>3 DEF CachedIps
    <3>2. ~(i - k \in 1 .. n)
      <4> SUFFICES ASSUME i - k \in 1 .. n PROVE FALSE
        OBVIOUS
      <4>1. cache'[i - k] = cache[(i - k) + k] /\ (i - k) + k = i /\ i - k \in 1 .. n + 1
        BY <1>1
      <4> QED
        BY <1>2, <3>1, <4>1 DEF CachedIps
    <3>3. k = 1 /\ i = 1 /\ Len(cache) = n + 1 /\ Len(cache) = CacheSize
      <4>1. k = 1 /\ i = 1
        BY <3>2
      <4> QED
        BY <1>1, <4>1
    <3> DEFINE f == [j \in 1 .. n + 1 |-> cache[j].ip]
               s == {f[j] : j \in 2 .. n + 1}
    <3>4. \A j, m \in 2 .. n + 1 : f[j] = f[m] => j = m
      BY <1>2, <3>3 DEF TypeOK
    <3>5. since[a] = s
      <4>1. since[a] = {cache[j].ip : j \in 2 .. n + 1}
        <5>1. since[a] = Behind(1)
          BY <1>2, <3>1, <3>3 DEF RecencyInv
        <5>2. Len(cache) = n + 1 /\ 1 + 1 = 2
          BY <3>3
        <5> QED
          BY <5>1, <5>2 DEF Behind
      <4>2. \A j \in 2 .. n + 1 : f[j] = cache[j].ip
        OBVIOUS
      <4> QED
        BY <4>1, <4>2
    <3>6. ip \notin s
      <4>1. \A j \in 2 .. n + 1 : j \in 1 .. n + k /\ f[j] = cache[j].ip
        BY <3>3
      <4> QED
        BY <1>3, <4>1
    <3> HIDE DEF f
    <3>7. IsFiniteSet(s) /\ Cardinality(s) = n
      BY ONLY <3>4, n \in Nat, Distinct
    <3> HIDE DEF s
    <3>8. IsFiniteSet(s \union {ip}) /\ Cardinality(s \union {ip}) = n + 1
      BY <3>6, <3>7, FS_AddElement
    <3>9. since'[a] = s \union {ip}
      BY <1>5, <1>7, <2>1, <3>5
    <3>10. n + 1 >= CacheSize
      BY <3>3, EnrichAssumption
    <3> QED
      BY <3>8, <3>9, <3>10
  <2> QED
    BY <2>2, <2>3
<1> QED
  BY <1>1, <1>2, <1>5, <1>6, <1>7 DEF RecencyInv, Behind

LEMMA HitRecency ==
  ASSUME TypeOK, CacheInv, RecencyInv, NEW ip \in Addresses, Hit(ip)
  PROVE  RecencyInv'
<1> DEFINE E == [ip : Addresses, host : Answers]
           n == Len(cache)
<1>1. PICK h \in DOMAIN cache : cache[h].ip = ip /\ cache' = Append(RemoveAt(cache, h), cache[h])
  BY DEF Hit
<1>2. cache \in Seq(E) /\ DOMAIN cache = 1 .. n /\ n \in Nat /\ h \in 1 .. n
  BY <1>1, LenProperties DEF CacheInv
<1>3. \A i \in 1 .. n : cache[i].ip \in Addresses
  <2> SUFFICES ASSUME NEW i \in 1 .. n PROVE cache[i].ip \in Addresses
    OBVIOUS
  <2>1. cache[i] \in E
    <3> HIDE DEF E
    <3> QED
      BY <1>2, ElementOfSeq
  <2> QED
    BY <2>1
<1> HIDE DEF E
<1>4. /\ cache' \in Seq(E) /\ Len(cache') = n
      /\ \A i \in 1 .. n : cache'[i] = cache[IF i < h THEN i ELSE IF i < n THEN i + 1 ELSE h]
  BY <1>1, <1>2, MovedToEnd
<1>5. DOMAIN cache' = 1 .. n
  BY <1>4, LenProperties
<1> HIDE DEF n
<1>6. /\ \A i \in 1 .. h - 1 : cache'[i] = cache[i]
      /\ \A i \in h .. n - 1 : cache'[i] = cache[i + 1]
      /\ cache'[n] = cache[h]
  BY <1>2, <1>4
<1>7. \A i \in 1 .. n : cache[i].ip = ip => i = h
  BY <1>1, <1>2 DEF TypeOK
<1>8. /\ Asked(ip) /\ since' = [a \in Addresses |-> since'[a]] /\ since'[ip] = {}
      /\ \A a \in Addresses \ {ip} : since'[a] = since[a] \union {ip}
  BY AskedAbout DEF Hit, RecencyInv
<1>9. \A i \in 1 .. n : since[cache[i].ip] = {cache[j].ip : j \in i + 1 .. n}
  BY <1>2 DEF RecencyInv, Behind, n
\* What was behind entry i and differs from ip still is, and ip is now behind all.
<1>10. ASSUME NEW j \in 1 .. n, cache[j].ip # ip
       PROVE  \E m \in 1 .. n - 1 : /\ cache'[m] = cache[j]
                                    /\ (m = j /\ j < h) \/ (m = j - 1 /\ j > h)
  <2>1. j # h
    BY <1>1, <1>10
  <2>2. CASE j < h
    <3>1. j \in 1 .. n - 1 /\ j \in 1 .. h - 1
      BY <1>2, <2>2
    <3> QED
      BY <1>6, <2>2, <3>1
  <2>3. CASE j > h
    <3>1. j - 1 \in 1 .. n - 1 /\ j - 1 \in h .. n - 1 /\ (j - 1) + 1 = j
      BY <1>2, <2>3
    <3> QED
      BY <1>6, <2>3, <3>1
  <2> QED
    BY <1>2, <2>1, <2>2, <2>3
<1>11. ASSUME NEW m \in 1 .. n - 1
       PROVE  \E j \in 1 .. n : /\ cache'[m] = cache[j] /\ cache[j].ip # ip
                                /\ (m = j /\ j < h) \/ (m = j - 1 /\ j > h)
  <2>1. CASE m < h
    BY <1>2, <1>6, <1>7, <2>1
  <2>2. CASE ~(m < h)
    <3>1. m + 1 \in 1 .. n /\ m \in h .. n - 1 /\ m = (m + 1) - 1 /\ m + 1 > h /\ m + 1 # h
      BY <1>2, <2>2
    <3> QED
      BY <1>6, <1>7, <3>1
  <2> QED
    BY <2>1, <2>2
<1>12. ASSUME NEW i \in 1 .. n
       PROVE  since'[cache'[i].ip] = {cache'[m].ip : m \in i + 1 .. n}
  <2>1. CASE i = n
    <3>1. i + 1 .. n = {} /\ cache'[i].ip = ip
      <4>1. i + 1 .. n = {}
        BY <1>2, <2>1
      <4> QED
        BY <1>1, <1>6, <2>1, <4>1
    <3> QED
      BY <1>8, <3>1
  <2>2. CASE i # n
    <3>1. PICK o \in 1 .. n : /\ cache'[i] = cache[o] /\ cache[o].ip # ip
                              /\ (i = o /\ o < h) \/ (i = o - 1 /\ o > h)
      <4>1. i \in 1 .. n - 1
        BY <1>2, <2>2
      <4> QED
        BY <1>11, <4>1
    <3>2. since'[cache'[i].ip] = {cache[j].ip : j \in o + 1 .. n} \union {ip}
      BY <1>3, <1>8, <1>9, <3>1
    <3>3. ASSUME NEW j \in o + 1 .. n, cache[j].ip # ip
          PROVE  \E m \in i + 1 .. n : cache[j].ip = cache'[m].ip
      <4>1. j \in 1 .. n
        BY <1>2, <3>1
      <4>2. PICK m \in 1 .. n - 1 : /\ cache'[m] = cache[j]
                                    /\ (m = j /\ j < h) \/ (m = j - 1 /\ j > h)
        BY <1>10, <3>3, <4>1
      <4>3. m \in i + 1 .. n
        BY <1>2, <3>1, <4>1, <4>2
      <4> QED
        BY <4>2, <4>3
    <3>4. n \in i + 1 .. n /\ cache'[n].ip = ip
      BY <1>1, <1>2, <1>6, <2>2
    <3>5. ASSUME NEW m \in i + 1 .. n, cache'[m].ip # ip
          PROVE  \E j \in o + 1 .. n : cache'[m].ip = cache[j].ip
      <4>1. m \in 1 .. n - 1
        BY <1>2, <3>4, <3>5
      <4>2. PICK j \in 1 .. n : /\ cache'[m] = cache[j]
                                /\ (m = j /\ j < h) \/ (m = j - 1 /\ j > h)
        BY <1>11, <4>1
      <4>3. j \in o + 1 .. n
        BY <1>2, <3>1, <4>1, <4>2
      <4> QED
        BY <4>2, <4>3
    <3> QED
      BY <3>2, <3>3, <3>4, <3>5
  <2> QED
    BY <2>1, <2>2
<1>13. CachedIps \subseteq CachedIps'
  <2>3. ASSUME NEW x, x \in CachedIps PROVE \E j \in 1 .. n : x = cache[j].ip
    BY <1>2, <2>3 DEF CachedIps
  <2>4. ASSUME NEW m \in 1 .. n PROVE cache'[m].ip \in CachedIps'
    BY <1>5 DEF CachedIps
  <2> SUFFICES ASSUME NEW j \in 1 .. n PROVE \E m \in 1 .. n : cache'[m].ip = cache[j].ip
    BY <2>3, <2>4
  <2>1. CASE cache[j].ip = ip
    BY <1>1, <1>2, <1>6, <2>1
  <2>2. CASE cache[j].ip # ip
    BY <1>2, <1>10, <2>2
  <2> QED
    BY <2>1, <2>2
<1>14. ASSUME NEW a \in Addresses \ CachedIps'
       PROVE  a \in since'[a] \/ (IsFiniteSet(since'[a]) /\ Cardinality(since'[a]) >= CacheSize)
  <2>1. a \notin CachedIps /\ a # ip
    BY <1>1, <1>2, <1>13 DEF CachedIps
  <2> QED
    BY <1>8, <2>1, StaysOut
<1> QED
  BY <1>4, <1>5, <1>8, <1>12, <1>14 DEF RecencyInv, Behind

LEMMA RecencyHolds == Spec => []RecencyInv
<1>1. Init => RecencyInv
  <2> SUFFICES ASSUME Init PROVE RecencyInv
    OBVIOUS
  <2>1. cache = <<>> /\ DOMAIN cache = {} /\ since = [a \in Addresses |-> Addresses]
    BY DEF Init
  <2> QED
    BY <2>1 DEF RecencyInv
<1>2. IInv /\ RecencyInv /\ [Next]_vars => RecencyInv'
  <2> SUFFICES ASSUME IInv, RecencyInv, [Next]_vars PROVE RecencyInv'
    OBVIOUS
  <2>1. TypeOK /\ CacheInv
    BY DEF IInv
  <2>2. CASE UNCHANGED <<cache, since>>
    <3>1. CachedIps' = CachedIps /\ \A i : Behind(i)' = Behind(i)
      BY <2>2 DEF CachedIps, Behind
    <3> QED
      BY <2>2, <3>1 DEF RecencyInv
  <2>3. ASSUME NEW ip \in Addresses, Hit(ip) PROVE RecencyInv'
    BY <2>1, <2>3, HitRecency
  <2>4. ASSUME NEW ip \in Addresses, Miss(ip) PROVE RecencyInv'
    BY <2>1, <2>2, <2>4, StoreRecency DEF Miss, Answers
  <2>5. ASSUME lookup.phase # "idle", NEW host \in Answers, Return(host) PROVE RecencyInv'
    BY <2>1, <2>5, StoreRecency DEF Return, TypeOK
  <2>6. CASE ReverseQuery
    BY <2>2, <2>5, <2>6 DEF ReverseQuery, Answers
  <2>7. CASE ForwardQuery
    <3>1. zone \in Zones /\ lookup.phase = "forward" /\ lookup.host \in DOMAIN zone.forward
      BY <2>7 DEF ForwardQuery, IInv, TypeOK, LookupInv
    <3>2. lookup.host \in Answers /\ None \in Answers
      BY <3>1 DEF Answers
    <3> QED
      BY <2>5, <2>7, <3>1, <3>2 DEF ForwardQuery
  <2>8. CASE DNSChanges
    BY <2>2, <2>8 DEF DNSChanges
  <2>9. CASE UNCHANGED vars
    BY <2>2, <2>9 DEF vars
  <2> QED
    BY <2>3, <2>4, <2>6, <2>7, <2>8, <2>9 DEF Next
<1> QED
  BY <1>1, <1>2, AnswersHold, PTL DEF Spec

------------------------------------------------------------------------------
\* The cache holds at most maxsize answers, one for an address, and a lookup runs
\* only for a public address that has none (enrich.py:23-44).
THEOREM EnrichTyping == Spec => []TypeOK
<1>1. IInv => TypeOK
  BY DEF IInv
<1> QED
  BY <1>1, AnswersHold, PTL

\* Whatever the DNS does and whoever owns the reverse zone, nobody is verified as
\* the crawler whose address the crawler's own zone never listed.
THEOREM NobodyVouchesForThemselves == Spec => []VerifiedOnlyIfVouchedFor
<1>1. IInv => VerifiedOnlyIfVouchedFor
  <2> SUFFICES ASSUME IInv, NEW e \in Entries, VerdictAt(e) = "verified_crawler"
               PROVE  \E host \in TheCrawlers : <<e.ip, host>> \in vouched
    BY DEF VerifiedOnlyIfVouchedFor, TheCrawlers
  <2>1. e.host # None /\ e.host \in TheCrawlers
    BY VerdictReadsHost
  <2>2. <<e.ip, e.host>> \in vouched
    BY <2>1 DEF IInv, CacheInv, Entries
  <2> QED
    BY <2>1, <2>2
<1> QED
  BY <1>1, AnswersHold, PTL

\* A genuine crawler that comes over IPv4 loses its identity to a failed query
\* and to nothing else (enrich.py:34-44).
THEOREM OnlyFailuresRefuseTheGenuine == Spec => []RefusedOnlyAfterFailure
<1>1. IInv => RefusedOnlyAfterFailure
  <2> SUFFICES ASSUME IInv, NEW e \in Entries, e.ip \in GenuineV4, e.ip \notin spoilt
               PROVE  VerdictAt(e) = "verified_crawler"
    BY DEF RefusedOnlyAfterFailure, GenuineV4
  <2>1. e.host # None /\ e.host \in TheCrawlers
    BY DEF IInv, GenuineInv, Entries
  <2> QED
    BY <2>1, VerdictReadsHost
<1> QED
  BY <1>1, AnswersHold, PTL

\* An address is looked up again only after as many others as the cache holds, however
\* hits, misses and lookups that fail follow one another.
THEOREM RepeatedRequestsCostNothing == Spec => []KeptWhileInUse
<1>1. RecencyInv => KeptWhileInUse
  BY DEF RecencyInv, KeptWhileInUse
<1> QED
  BY <1>1, RecencyHolds, PTL
==============================================================================
