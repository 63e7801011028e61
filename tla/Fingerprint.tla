----------------------------- MODULE Fingerprint -----------------------------
(***************************************************************************)
(* The client stack as the sensor sees it (honeypot/app/fingerprint.py).   *)
(*                                                                         *)
(* A User-Agent is the set of the needles found in it, the empty set being *)
(* an absent or empty header; "mozilla" and "chrome" stand for matches of  *)
(* the two regular expressions.  Of several crawler names in one User-     *)
(* Agent always the same one is taken.  A header list is the sequence of   *)
(* the header names in arrival order.  A JA4 header is the sequence of its *)
(* "_" separated parts, the empty sequence being an absent header.  The    *)
(* truncated SHA-256 digests are taken to be injective, so a digest is the *)
(* digested value itself.                                                  *)
(***************************************************************************)
EXTENDS Naturals, Sequences, FiniteSets

CONSTANTS ToolTokens,      \* needles of TOOL_UA_SIGNATURES
          CrawlerTokens,   \* names in DECLARED_CRAWLERS
          CrawlerHosts,    \* crawler name -> hosts under its published suffixes
          CipherFamilies,  \* TLS families named in JA4_CIPHER_FAMILIES
          ScriptedFamilies \* SCRIPTED_TLS_FAMILIES

\* Python's None, wherever a text is optional.
None == "none"

ASSUME CrawlerHostsAssumption ==
         /\ CrawlerTokens \subseteq DOMAIN CrawlerHosts
         /\ None \notin CrawlerTokens

ASSUME ScriptedAssumption ==
         /\ ScriptedFamilies \subseteq CipherFamilies
         /\ "chromium" \notin ScriptedFamilies

BaselineHeaders   == {"accept", "accept-encoding", "accept-language", "user-agent"}
SecFetchHeaders   == {"sec-fetch-site", "sec-fetch-mode", "sec-fetch-dest", "sec-fetch-user"}
ClientHintHeaders == {"sec-ch-ua", "sec-ch-ua-mobile", "sec-ch-ua-platform"}

Names(headers) == {headers[i] : i \in DOMAIN headers}

IsTool(ua) == ua \cap ToolTokens # {}

DeclaredCrawler(ua) ==
  IF ua \cap CrawlerTokens = {} THEN None ELSE CHOOSE c \in CrawlerTokens : c \in ua

\* host comes out of a forward-confirmed lookup, or is None.
VerifyCrawler(name, host) == host # None /\ host \in CrawlerHosts[name]

UAFamily(ua) ==
  CASE ua = {}                                  -> "absent"
    [] ua # {} /\ IsTool(ua)                    -> "tool"
    [] ~IsTool(ua) /\ ua \cap CrawlerTokens # {} -> "declared-crawler"
    [] OTHER -> IF "chrome" \in ua       THEN "chromium"
                ELSE IF "firefox" \in ua THEN "firefox"
                ELSE IF "safari" \in ua  THEN "safari"
                ELSE IF "mozilla" \in ua THEN "browser-like"
                ELSE "unknown"

TLSFamily(ja4) ==
  IF Len(ja4) = 3 /\ ja4[2] \in CipherFamilies THEN ja4[2] ELSE None

\* The request-shape identity: everything of the client, nothing of its address.
ClientId(headers, ja4, lang, family) == <<headers, ja4, lang, family>>

\* req is a captured request (see Classifier), host the confirmed rDNS name.
BuildFingerprint(req, host) ==
  LET declared == DeclaredCrawler(req.ua)
      present  == Names(req.headers)
  IN [ ua_raw           |-> req.ua,
       header_count     |-> Len(req.headers),
       missing_baseline |-> Cardinality(BaselineHeaders \ present),
       has_sec_fetch    |-> SecFetchHeaders \cap present # {},
       has_client_hints |-> ClientHintHeaders \cap present # {},
       claims_browser   |-> "mozilla" \in req.ua,
       tool_signature   |-> IsTool(req.ua),
       declared_crawler |-> declared,
       crawler_verified |-> declared # None /\ VerifyCrawler(declared, host),
       wildcard_accept  |-> req.wildcard,
       has_referer      |-> "referer" \in present,
       ja4              |-> req.ja4,
       tls_family       |-> TLSFamily(req.ja4),
       client_id        |-> ClientId(req.headers, req.ja4, req.lang, UAFamily(req.ua)) ]
==============================================================================
