---------------------------- MODULE PlanLibrary ----------------------------
(***************************************************************************)
(* The plan library of src/internal/plans: one user's plans saved from one *)
(* task, and their public copies.  A plan and its public copy live in two  *)
(* stores (user_plans, public_plans) which no transaction spans: each call *)
(* of the service is a sequence of store operations, and calls of the same *)
(* user overlap.                                                           *)
(*                                                                         *)
(* A plan is its publish status and its deletion mark, a public copy its   *)
(* status and its counters, taken as one; texts are left out.  A call that *)
(* is refused by its first read changes nothing and is no step.            *)
(***************************************************************************)
EXTENDS Naturals, FiniteSets

CONSTANTS
    Plans,          \* plan ids; a Save draws one not used before
    Calls,          \* requests under way at the same time
    NoPlan,         \* not a plan: the call has none yet
    StoreKind,      \* "memory" or "mysql"
    MaxCount,       \* bound: a public copy is counted fewer times
    MaxFaults       \* bound: how many store calls fail

ASSUME LibraryAssumption ==
    /\ NoPlan \notin Plans
    /\ StoreKind \in {"memory", "mysql"}
    /\ MaxCount \in Nat /\ MaxFaults \in Nat

VARIABLES
    plans,          \* the private plans
    archived,       \* the plans with a conversation archive
    publics,        \* the public copy of each plan
    call,           \* of each call: its operation (op), the store call it makes
                    \* next (at), its plan (on), the publish status it read
                    \* (seen), the status of the public copy it read (found)
    counted,        \* history: the views and saves counted
    faults,         \* history: the store calls that failed
    disturbed       \* history: plans on which calls overlapped or failed
                    \* since a Publish last went through; NoPlan if Saves
                    \* overlapped since one last began alone

storeVars == <<plans, archived, publics>>
libVars == <<storeVars, call, counted, faults, disturbed>>

PlanStatus == {"none", "draft", "published", "unpublished"}
PublicStatus == {"none", "published", "unpublished"}
OwnerOps == {"rename", "delete", "publish", "unpublish"}

Stored(p) == plans[p].status # "none"
Live(p) == Stored(p) /\ ~plans[p].deleted
Fresh == {p \in Plans : ~Stored(p)}

\* The calls of the owner on p; the Saves that have not created their plan.
Busy(p) == {c \in Calls : call[c].on = p /\ call[c].op \in OwnerOps}
Saving == {c \in Calls : call[c].at = "create"}

Idle == [op |-> "none", at |-> "idle", on |-> NoPlan,
         seen |-> "none", found |-> "none"]

LibInit ==
    /\ plans = [p \in Plans |-> [status |-> "none", deleted |-> FALSE]]
    /\ archived = {}
    /\ publics = [p \in Plans |-> [status |-> "none", count |-> 0]]
    /\ call = [c \in Calls |-> Idle]
    /\ counted = [p \in Plans |-> 0]
    /\ faults = 0
    /\ disturbed = {}

-----------------------------------------------------------------------------
(* How a call goes on                                                      *)

\* Call c, with what it knows by now, goes on with store call "to" or returns.
Continues(c, known, to) ==
    call' = [call EXCEPT ![c] = IF to = "idle" THEN Idle
                                ELSE [known EXCEPT !.at = to]]
Goes(c, from, to) == call[c].at = from /\ Continues(c, call[c], to)

\* Call c begins with operation o on p, having read the publish status.
Begins(c, o, p, status, to) ==
    /\ call[c] = Idle
    /\ call' = [call EXCEPT ![c] = [op |-> o, at |-> to, on |-> p,
                                    seen |-> status, found |-> "none"]]

\* Faulty variants, for the sensitivity of the properties: the lookup of a
\* saved plan finds none; an Update of deleted plans; an Upsert that resets the
\* counters; an Unpublish that forgets the status; an archive without a plan.
SavedNone == {}
AnyStored(p) == Stored(p)
CountReset(p) == 0
StatusSeen(c) == IF call[c].op = "publish" THEN "published" ELSE call[c].seen
ArchiveFirst(c) ==
    /\ call[c].at = "create"
    /\ \E p \in Fresh :
          /\ archived' = archived \cup {p}
          /\ Continues(c, [call[c] EXCEPT !.on = p], "archive")
    /\ UNCHANGED <<plans, publics, counted, faults, disturbed>>

\* GetByTaskID: the plans already saved from the task.
SavedFromTask == {p \in Plans : Live(p)}

\* Update writes the whole plan: without a deletion mark in memory, only where
\* there is none in MySQL.
Updatable(p) == Stored(p) /\ (StoreKind = "mysql" => ~plans[p].deleted)

\* Upsert of an existing public copy keeps its counters.
CountKept(p) == publics[p].count

\* The publish status a call writes; Rename and Edit write the one they read.
StatusWritten(c) ==
    CASE call[c].op = "publish" -> "published"
      [] call[c].op = "unpublish" -> "unpublished"
      [] OTHER -> call[c].seen

\* Where a call goes after GetByPlanID, with or without a public copy; an error
\* is taken for "without".
AfterFind(c, status) ==
    CASE call[c].op = "publish" -> "upsert"
      [] call[c].op = "rename" /\ status # "none" -> "upsert"
      [] call[c].op \in {"delete", "unpublish"} /\ status # "none"
            -> "setStatus"
      [] call[c].op = "unpublish" /\ status = "none" -> "update"
      [] OTHER -> "idle"

\* Only the public copy of a plan that was read as published is followed up.
AfterWrite(c) ==
    IF call[c].op \in {"rename", "delete"} /\ call[c].seen = "published"
    THEN "findPublic" ELSE "idle"

-----------------------------------------------------------------------------
(* The first read of a call                                                *)

Open(c, o, p, to) ==
    /\ Live(p)
    /\ Begins(c, o, p, plans[p].status, to)
    /\ disturbed' = CASE Busy(p) # {} -> disturbed \cup {p}
                      [] Busy(p) = {} /\ o = "publish" -> disturbed \ {p}
                      [] OTHER -> disturbed
    /\ UNCHANGED <<storeVars, counted, faults>>

\* Rename, and Edit, which writes more fields in the same way.
Rename(c, p) == Open(c, "rename", p, "update")
Delete(c, p) == Open(c, "delete", p, "softDelete")
Publish(c, p) == Open(c, "publish", p, "findPublic")
Unpublish(c, p) ==
    plans[p].status = "published" /\ Open(c, "unpublish", p, "findPublic")

\* Save of a finished task of the user that is not saved yet.
Save(c) ==
    /\ SavedFromTask = {}
    /\ Cardinality(Saving) < Cardinality(Fresh)     \* bound
    /\ Begins(c, "save", NoPlan, "none", "create")
    /\ disturbed' = IF Saving = {} THEN disturbed \ {NoPlan}
                    ELSE disturbed \cup {NoPlan}
    /\ UNCHANGED <<storeVars, counted, faults>>

\* GetPublic of a view that counts, or SavePublicAsCopy, by anybody.
ReadPublic(c, p) ==
    /\ publics[p].status = "published"
    /\ Begins(c, "count", p, "none", "count")
    /\ UNCHANGED <<storeVars, counted, faults, disturbed>>

-----------------------------------------------------------------------------
(* The store calls that follow                                             *)

CreatePlan(c) ==
    /\ call[c].at = "create"
    /\ \E p \in Fresh :
          /\ plans' = [plans EXCEPT ![p].status = "draft"]
          /\ Continues(c, [call[c] EXCEPT !.on = p], "archive")
    /\ UNCHANGED <<archived, publics, counted, faults, disturbed>>

CreateArchive(c) ==
    /\ Goes(c, "archive", "idle")
    /\ archived' = archived \cup {call[c].on}
    /\ UNCHANGED <<plans, publics, counted, faults, disturbed>>

\* A Publish then reads the public copy back for its answer.
UpdatePlan(c) ==
    /\ \/ /\ Goes(c, "update", AfterWrite(c))
          /\ Updatable(call[c].on)
          /\ plans' = [plans EXCEPT ![call[c].on] =
                           [status |-> StatusWritten(c), deleted |-> FALSE]]
       \/ /\ Goes(c, "update", "idle")
          /\ ~Updatable(call[c].on)
          /\ UNCHANGED plans
    /\ UNCHANGED <<archived, publics, counted, faults, disturbed>>

\* MySQL refuses to delete a plan twice.
SoftDelete(c) ==
    /\ \/ /\ Goes(c, "softDelete", AfterWrite(c))
          /\ StoreKind = "mysql" => ~plans[call[c].on].deleted
          /\ plans' = [plans EXCEPT ![call[c].on].deleted = TRUE]
       \/ /\ Goes(c, "softDelete", "idle")
          /\ StoreKind = "mysql" /\ plans[call[c].on].deleted
          /\ UNCHANGED plans
    /\ UNCHANGED <<archived, publics, counted, faults, disturbed>>

\* Call c found this status of the public copy.
Finds(c, status) ==
    Continues(c, [call[c] EXCEPT !.found = status], AfterFind(c, status))

FindPublic(c) ==
    /\ call[c].at = "findPublic"
    /\ Finds(c, publics[call[c].on].status)
    /\ UNCHANGED <<storeVars, counted, faults, disturbed>>

\* The whole public copy is written, its status as read before but for Publish.
Upsert(c) ==
    /\ Goes(c, "upsert", IF call[c].op = "publish" THEN "update" ELSE "idle")
    /\ publics' = [publics EXCEPT ![call[c].on] =
                      [status |-> IF call[c].op = "publish" THEN "published"
                                  ELSE call[c].found,
                       count |-> CountKept(call[c].on)]]
    /\ UNCHANGED <<plans, archived, counted, faults, disturbed>>

SetStatus(c) ==
    /\ Goes(c, "setStatus", IF call[c].op = "unpublish" THEN "update" ELSE "idle")
    /\ publics' = [publics EXCEPT ![call[c].on].status = "unpublished"]
    /\ UNCHANGED <<plans, archived, counted, faults, disturbed>>

\* IncrementCounter reads and writes in one operation.
Count(c) ==
    /\ Goes(c, "count", "idle")
    /\ publics[call[c].on].count < MaxCount        \* bound
    /\ publics' = [publics EXCEPT ![call[c].on].count = @ + 1]
    /\ counted' = [counted EXCEPT ![call[c].on] = @ + 1]
    /\ UNCHANGED <<plans, archived, faults, disturbed>>

\* A store call fails.  The call ends, whether it returns the error, ignores it
\* or is cut off; only after a failed GetByPlanID may it go on.  A call whose
\* confirmation is lost has its effect and fails at the next one.
StoreFails(c) ==
    /\ faults < MaxFaults
    /\ faults' = faults + 1
    /\ \/ call[c] # Idle /\ Continues(c, Idle, "idle")
       \/ call[c].at = "findPublic" /\ Finds(c, "none")
    /\ disturbed' = IF call[c].op \in OwnerOps THEN disturbed \cup {call[c].on}
                    ELSE disturbed
    /\ UNCHANGED <<storeVars, counted>>

LibNext ==
    \E c \in Calls :
        \/ Save(c)
        \/ \E p \in Plans :
              \/ Rename(c, p) \/ Delete(c, p) \/ Publish(c, p) \/ Unpublish(c, p)
              \/ ReadPublic(c, p)
        \/ CreatePlan(c) \/ CreateArchive(c)
        \/ UpdatePlan(c) \/ SoftDelete(c)
        \/ FindPublic(c) \/ Upsert(c) \/ SetStatus(c)
        \/ Count(c)
        \/ StoreFails(c)

LibSpec == LibInit /\ [][LibNext]_libVars

-----------------------------------------------------------------------------

Places == {"idle", "create", "archive", "update", "softDelete", "findPublic",
           "upsert", "setStatus", "count"}

\* Type invariant; only stored plans are archived, published or deleted.
LibTypeOK ==
    /\ plans \in [Plans -> [status : PlanStatus, deleted : BOOLEAN]]
    /\ publics \in [Plans -> [status : PublicStatus, count : 0 .. MaxCount]]
    /\ archived \subseteq Plans \ Fresh
    /\ \A p \in Fresh : publics[p].status = "none" /\ ~plans[p].deleted
    /\ call \in [Calls -> [op : OwnerOps \cup {"none", "save", "count"},
                           at : Places, on : Plans \cup {NoPlan},
                           seen : PlanStatus, found : PublicStatus]]
    /\ counted \in [Plans -> 0 .. MaxCount]
    /\ faults \in 0 .. MaxFaults
    /\ disturbed \subseteq Plans \cup {NoPlan}

\* The public copy is visible exactly while its plan is published and not
\* deleted: in every sequence of calls of which none overlapped or failed, and
\* from the next undisturbed Publish on in one where some did (Publish writes
\* both copies whatever it finds).
PublishedAgrees ==
    \A p \in Plans \ disturbed :
        Busy(p) = {} =>
            (publics[p].status = "published"
                <=> Live(p) /\ plans[p].status = "published")

\* The plans that are stored without an archive, and no Save is about to give
\* them one.
Unarchived ==
    {p \in Plans \ (Fresh \cup archived) :
        ~\E c \in Calls : call[c].at = "archive" /\ call[c].on = p}

\* A task has one plan, however often it is saved, Saves fail between their
\* store calls and the plan is deleted meanwhile, unless two Saves overlapped
\* and none that began alone came after; and a plan is left without its archive
\* by a failing store call only, at most one by each (Save creates the two one
\* after the other, and the next Save finds the plan).
SavedOnce ==
    /\ NoPlan \notin disturbed =>
          \A p, q \in Plans : Live(p) /\ Live(q) => p = q
    /\ Cardinality(Unarchived) <= faults

\* Saving a task again reuses its plan, whenever it is saved again.
OnePlanPerTask ==
    \A p, q \in Plans : Live(p) /\ Live(q) => p = q

\* No view or save is lost, whichever Publish, Rename or Edit writes back the
\* public copy around it.
CountersSurvive ==
    \A p \in Plans : publics[p].count = counted[p]

\* A deleted plan stays deleted, though Rename, Edit, Publish and Unpublish
\* write back plans they read before (MySQL).
DeletedStaysDeleted ==
    [][\A p \in Plans : plans[p].deleted => plans'[p].deleted]_libVars

\* The public copy of a deleted plan is hidden once the calls on it are over,
\* as long as no store call failed.
DeletedIsHidden ==
    faults = 0 =>
        \A p \in Plans :
            plans[p].deleted /\ Busy(p) = {} => publics[p].status # "published"
=============================================================================
