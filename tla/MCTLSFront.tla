----------------------------- MODULE MCTLSFront -----------------------------
EXTENDS TLSFront

Start == <<22, 3, 1, 0, 0, 1, 0, 0, 0, 3, 3, 0, 0, 2, 19, 1>>

\* A hello with a server name, one without extensions, one cut by its record.
MCRecords ==
  { Start \o <<1, 0, 0, 10, 0, 0, 0, 6, 0, 4, 0, 0, 1, 97>>,
    Start \o <<1, 0, 0, 0>>,
    Start \o <<1, 0, 0, 10, 0, 0>> }

\* A value that no header of tlsfront has.
Theirs == <<0>>

MCRequests ==
  { [h \in {"Host"} |-> Theirs],
    [h \in TrustedHeaders \union {"Host"} |-> Theirs] }

MCListed == { {}, {"X-Edge-JA4"}, TrustedHeaders }
==============================================================================
