----------------------------- MODULE Repository -----------------------------
(***************************************************************************)
(* What the Resolver relies on when it caches what a Repository returns:   *)
(* the interfaces Repository and Revisioner, as a specification that every *)
(* store must implement.  A writing call touches one zone, and the zone is *)
(* busy from the first change of the call until the revision has been      *)
(* incremented after the last one.                                         *)
(***************************************************************************)
EXTENDS Naturals

CONSTANT Zones

VARIABLES
    zones,      \* the zones ListZones returns
    records,    \* the records ListRecords and Lookup return
    revision,   \* Revision()
    busy        \* the zones with a change that no increment has followed yet

repositoryVars == <<zones, records, revision, busy>>

Outside(stored, zone) == {r \in stored : r.zone # zone}

RepositoryInit ==
    /\ revision \in Nat
    /\ busy = {}

\* A change inside one zone, which is busy afterwards.
Change(zone) ==
    /\ zones' \ {zone} = zones \ {zone}
    /\ Outside(records', zone) = Outside(records, zone)
    /\ busy' = busy \cup {zone}
    /\ UNCHANGED revision

\* An increment, after which at most the zones it stands for are no longer busy.
Announce ==
    /\ revision' = revision + 1
    /\ busy' \subseteq busy
    /\ UNCHANGED <<zones, records>>

\* The process that holds the store starts again, and its resolver with it.
Reopen ==
    /\ revision' = 0
    /\ busy' = {}
    /\ UNCHANGED <<zones, records>>

RepositoryNext ==
    \/ \E zone \in Zones : Change(zone)
    \/ Announce
    \/ Reopen

RepositorySpec == RepositoryInit /\ [][RepositoryNext]_repositoryVars
=============================================================================
