----------------------------- MODULE TaskStore -----------------------------
(***************************************************************************)
(* The task stores of src/internal/travel (task_store.go and               *)
(* mysql_task_store.go) as the service sees them: the status of every      *)
(* task and the index from request hash to task.  Every operation is one   *)
(* atomic step: a mutex, a Redis transaction or a SQL transaction.         *)
(*                                                                         *)
(* MySQL has a unique index on the hash and refuses a second task for it;  *)
(* the memory and Redis stores overwrite the index entry, on Create and on *)
(* every Update.                                                           *)
(***************************************************************************)
EXTENDS Naturals

CONSTANTS
    Tasks,
    Hashes,
    HashOf,         \* HashOf[t]: the request hash of task t
    UniqueHash,     \* TRUE: unique index on request_hash (MySQL)
    NoTask          \* not a task: the index has no entry

VARIABLES
    tasks,          \* tasks[t]: stored status, "absent" when not stored
    hashToID        \* hashToID[h]: the task a lookup of h leads to

storeVars == <<tasks, hashToID>>

Status == {"absent", "pending", "running", "succeeded", "failed"}
TerminalStatus == {"succeeded", "failed"}

StoreInit ==
    /\ tasks = [t \in Tasks |-> "absent"]
    /\ hashToID = [h \in Hashes |-> NoTask]

\* Faulty variants, for the sensitivity of the properties: a lookup that only
\* sees finished tasks; no unique index; an Update that insists on "pending".
FindFinished(c) ==
    LET t == hashToID[HashOf[c]]
    IN IF t # NoTask /\ tasks[t] \in TerminalStatus THEN t ELSE NoTask
NoIndex(t) == TRUE
UpdatePending(t, status) ==
    /\ tasks[t] = "pending"
    /\ tasks' = [tasks EXCEPT ![t] = status]
    /\ hashToID' = [hashToID EXCEPT ![HashOf[t]] = t]

\* The task FindByHash returns for the request of c, NoTask for none.
FindByHash(c) == hashToID[HashOf[c]]

\* Create fails on a duplicate hash exactly where the index is unique.
CreateAllowed(t) == UniqueHash => FindByHash(t) = NoTask

Create(t) ==
    /\ CreateAllowed(t)
    /\ tasks' = [tasks EXCEPT ![t] = "pending"]
    /\ hashToID' = [hashToID EXCEPT ![HashOf[t]] = t]

\* Update writes the whole task, its index entry included.
Update(t, status) ==
    /\ tasks[t] # "absent"
    /\ tasks' = [tasks EXCEPT ![t] = status]
    /\ hashToID' = [hashToID EXCEPT ![HashOf[t]] = t]

-----------------------------------------------------------------------------

StoreTypeOK ==
    /\ tasks \in [Tasks -> Status]
    /\ hashToID \in [Hashes -> Tasks \cup {NoTask}]

Stored == {t \in Tasks : tasks[t] # "absent"}
=============================================================================
