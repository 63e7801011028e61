----------------------------- MODULE MCStoreOpen -----------------------------
EXTENDS StoreOpen, SequencesExt

MCCore == {"core"}
MCMigrations == <<"ja4", "ja4_raw", "tls_family", "client_id">>

\* The four indexes of the first release need its columns only; they are one.
MCIndexes ==
  << [name |-> "idx_first_release", columns |-> {"core"}],
     [name |-> "idx_ja4",           columns |-> {"ja4"}],
     [name |-> "idx_client",        columns |-> {"core", "client_id"}] >>

\* A file whose table has the first k migrated columns, with the indexes for them.
Release(k) ==
  LET present == MCCore \union {MCMigrations[i] : i \in 1 .. k}
  IN [ columns |-> present,
       indexes |-> {i.name : i \in {j \in ToSet(MCIndexes) : j.columns \subseteq present}} ]

NoFile == [columns |-> {}, indexes |-> {}]

MCReleases == {NoFile} \union {Release(k) : k \in 0 .. 4}
==============================================================================
