--------------------------- MODULE MCTaskService ---------------------------
(* Budgets of hazards and request hashes for the instances of TaskService. *)
EXTENDS TaskService, TLC

CONSTANT h1

\* Every call asks for the same plan; other hashes share no state with it.
OneHash == {h1}
SameHash == [t \in Tasks |-> h1]

Calm == [k \in Hazards |-> 0]

\* Each budget allows the hazards it names, once unless said otherwise.
Unreliable == [Calm EXCEPT !["faults"] = 1, !["disconnects"] = 1, !["slowHolders"] = 1,
                           !["expiries"] = 1, !["crashes"] = 1]
SlowHolder == [Calm EXCEPT !["slowHolders"] = 1]
TwoDisconnects == [Calm EXCEPT !["disconnects"] = 2]
DisconnectAndCrash == [Calm EXCEPT !["disconnects"] = 1, !["crashes"] = 1]
Hostile == [Calm EXCEPT !["faults"] = 1, !["disconnects"] = 2, !["crashes"] = 1]

Symmetric == Permutations(Tasks) \cup Permutations(Streams)
=============================================================================
