---------------------------- MODULE MCEventStore ----------------------------
(* Small instances of EventStore for TLC: a database created by the current  *)
(* version and shared by every process, or one that v0.1 wrote and a single  *)
(* process upgrades.                                                         *)
EXTENDS EventStore

VARIABLE active  \* the processes that use the database

MCvars == <<events, projection, client, acked, active>>

MCInit ==
    \/ active = Clients /\ InitWith({})
    \/ InitWith(LegacyCourses) /\ \E p \in Clients : active = {p}

MCNext ==
    /\ Next
    /\ \A p \in Clients \ active : client'[p] = client[p]
    /\ UNCHANGED active

MCSpec == MCInit /\ [][MCNext]_MCvars

ClientSymmetry == Permutations(Clients)

=============================================================================
