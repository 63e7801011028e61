------------------------------ MODULE Profiles ------------------------------
(***************************************************************************)
(* What keying velocity by client identity promises: every identity - a    *)
(* client behind an address - has a bucket of its own, a request adds one  *)
(* event to its own bucket, and the verdict it gets is decided by that     *)
(* bucket alone.  There is no table, no event loop and no neighbour.       *)
(***************************************************************************)
EXTENDS Integers

CONSTANTS Identities,      \* <<client_id, src_ip_hash>>
          JudgedBy(_, _)   \* JudgedBy(bucket, e): the bucket decided e's verdict

VARIABLE profile           \* identity -> the events of its bucket

ProfilesInit == profile = [i \in Identities |-> {}]

\* One request of the identity i is observed.
Observe(i) ==
  \E e \in profile'[i] \ profile[i] :
    /\ \A j \in Identities : \A q \in profile[j] : q.id < e.id
    /\ JudgedBy(profile[i], e)
    /\ profile' = [profile EXCEPT ![i] = @ \union {e}]

\* A power loss takes the most recent events, of whatever bucket.
Forget ==
  /\ profile' = [i \in Identities |-> profile'[i]]
  /\ \A i \in Identities : profile'[i] \subseteq profile[i]
  /\ \A i, j \in Identities :
       \A kept \in profile'[i], gone \in profile[j] \ profile'[j] : kept.id < gone.id

ProfilesNext == Forget \/ \E i \in Identities : Observe(i)

ProfilesSpec == ProfilesInit /\ [][ProfilesNext]_profile
==============================================================================
