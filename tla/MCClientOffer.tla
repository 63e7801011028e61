--------------------------- MODULE MCClientOffer ---------------------------
EXTENDS ClientOffer

\* 6698 (0x1a2a) and extension 10 only look like GREASE.
MCCiphers == {4865, 6698, 2570, 51914}

Ext(type, values) == [type |-> type, values |-> values]

MCExtensions ==
  { Ext(ServerName, <<97, 98>>),
    Ext(ALPN, << <<104, 50>>, <<104, 51>> >>),
    Ext(ALPN, << <<58, 104>> >>),
    Ext(SigAlgs, <<1027, 6682, 2052>>),
    Ext(SupportedVers, <<39578, 771, 772>>),
    Ext(10, <<29>>),
    Ext(6682, <<>>), Ext(64250, <<0>>) }

MCVersions == {769, 771}
==============================================================================
