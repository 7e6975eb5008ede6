------------------------------ MODULE MCStores ------------------------------
(* The two stores with calls that overlap, one of them at a time: the part is *)
(* chosen at the start, and the other rests in one initial state.             *)
EXTENDS TaskCache, PlanLibrary, TLC

CONSTANT h1

\* Two tasks of this deployment and one of an earlier one, for one request:
\* other hashes share no entry with it.
OneHash == {h1}
SameHash == [t \in Tasks |-> h1]

VARIABLE part

StoresInit ==
    /\ part \in {"cache", "library"}
    /\ CacheInit /\ LibInit
    /\ part = "library" => \A t \in Tasks : cachedTask[t] = "absent"
    /\ part = "library" => \A h \in Hashes : cachedID[h] = NoTask

StoresNext ==
    /\ UNCHANGED part
    /\ \/ part = "cache" /\ CacheNext /\ UNCHANGED libVars
       \/ part = "library" /\ LibNext /\ UNCHANGED cachedVars

StoresSpec == StoresInit /\ [][StoresNext]_<<part, cachedVars, libVars>>

\* Every variable has its type.
StoresTypeOK == CacheTypeOK /\ LibTypeOK

\* Readers and calls, and what they act on, are interchangeable.
Symmetric == Permutations(Readers) \cup Permutations(Writers)
=============================================================================
