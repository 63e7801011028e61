---------------------------- MODULE MCDashboard ----------------------------
EXTENDS Dashboard

Kind(verdict, path, source, tool, ja4) ==
  [ id |-> 0, ts |-> 0, verdict |-> verdict, path |-> path, src_ip_hash |-> source, tool |-> tool,
    ua_family |-> "chrome", ja4 |-> ja4, tls_family |-> "chromium", claims_browser |-> TRUE,
    client_id |-> source, username_hash |-> None ]

\* A visitor, a crawler, and a scanner behind the address of the visitor.
MCKinds ==
  { Kind("likely_human", "/", "ip1", None, "j1"),
    Kind("verified_crawler", "/", "ip2", None, "j2"),
    Kind("recon_probe", "/.env", "ip1", "curl", None) }
==============================================================================
