--------------------------- MODULE AtomicTaskStore ---------------------------
(***************************************************************************)
(* What the TaskStore interface of src/internal/travel/task_store.go       *)
(* promises to its callers: Create and Update take effect at one instant,  *)
(* and a read is answered with what was stored at one instant between its  *)
(* call and its return, or with an error.                                  *)
(***************************************************************************)
EXTENDS TaskStore

CONSTANTS
    Readers,        \* callers of Get and FindByHash
    Legacy          \* tasks an earlier deployment kept in Redis only

VARIABLES
    query,          \* query[r]: the read r waits for, NoQuery if none
    answer          \* answer[r]: what it was answered, Unanswered until then

atomicVars == <<storeVars, query, answer>>

NoQuery == [kind |-> "none", of |-> NoTask]
\* A Get of a task, or a FindByHash of the request hash it has.
Query == [kind : {"get", "find"}, of : Tasks]

Answer(t, status) == [task |-> t, status |-> status]
Unanswered == Answer(NoTask, "unanswered")
Failed == Answer(NoTask, "failure")
Missing == Answer(NoTask, "absent")

\* What a read that happens now returns.
Found(t) == IF t = NoTask \/ tasks[t] = "absent" THEN Missing ELSE Answer(t, tasks[t])
Current(q) == IF q.kind = "get" THEN Found(q.of) ELSE Found(FindByHash(q.of))

AtomicInit ==
    /\ StoreInit
    /\ query = [r \in Readers |-> NoQuery]
    /\ answer = [r \in Readers |-> Unanswered]

Write(t) ==
    /\ Create(t) \/ \E status \in Status \ {"absent"} : Update(t, status)
    /\ UNCHANGED <<query, answer>>

Ask(r, q) ==
    /\ query[r] = NoQuery
    /\ query' = [query EXCEPT ![r] = q]
    /\ UNCHANGED <<storeVars, answer>>

\* The instant of a read: the store as it is, an error, or the outcome of a
\* task the earlier deployment finished.
Take(r) ==
    /\ query[r] # NoQuery
    /\ answer[r] = Unanswered
    /\ \/ answer' = [answer EXCEPT ![r] = Current(query[r])]
       \/ answer' = [answer EXCEPT ![r] = Failed]
       \/ /\ query[r].kind = "get" /\ query[r].of \in Legacy
          /\ \E status \in TerminalStatus :
                answer' = [answer EXCEPT ![r] = Answer(query[r].of, status)]
    /\ UNCHANGED <<storeVars, query>>

\* The read returns, or its caller is gone.
Return(r) ==
    /\ query[r] # NoQuery
    /\ query' = [query EXCEPT ![r] = NoQuery]
    /\ answer' = [answer EXCEPT ![r] = Unanswered]
    /\ UNCHANGED storeVars

AtomicNext ==
    \/ \E t \in Tasks : Write(t)
    \/ \E r \in Readers :
          \/ \E q \in Query : Ask(r, q)
          \/ Take(r) \/ Return(r)

AtomicSpec == AtomicInit /\ [][AtomicNext]_atomicVars
=============================================================================
