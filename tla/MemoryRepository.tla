-------------------------- MODULE MemoryRepository --------------------------
(***************************************************************************)
(* The Repository that MemoryStore implements.                             *)
(***************************************************************************)
EXTENDS MemoryStore

Contract == INSTANCE Repository WITH busy <- {z \in Zones : Busy(z)}

\* The store by itself, under the writing calls of any goroutines.
StoreSpec == StoreInit /\ [][StoreNext]_storeVars

-----------------------------------------------------------------------------
\* The store implements the specification the resolver relies on: every change is
\* inside the zone of a call under way, and no call ends but by incrementing the
\* revision after its last change.
MemoryImplementsRepository == Contract!RepositorySpec
=============================================================================
