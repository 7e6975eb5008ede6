---------------------------- MODULE HarnessRunner ----------------------------
(***************************************************************************)
(* The runs of the evaluation harness (src/internal/harness/runner.go)     *)
(* with more than one worker: the main goroutine hands the cases out over  *)
(* an unbuffered channel, workers plan and evaluate them and put their     *)
(* results into a buffered one, which is read only when all of them have   *)
(* stopped.  The context may be cancelled; it is looked at before a case   *)
(* is handed out, never while one waits for a worker.                      *)
(***************************************************************************)
EXTENDS Naturals, Sequences, FiniteSets

CONSTANTS
    Workers,        \* the goroutines: Runner.Concurrency many
    Jobs            \* cases times Runner.Repeat

ASSUME HarnessAssumption == IsFiniteSet(Workers) /\ Workers # {} /\ Jobs \in Nat

VARIABLES
    runner,     \* the main goroutine: "checking", "sending", "waiting" or "ended"
    sent,       \* cases handed out
    job,        \* job[w]: the case of worker w; 0 if none, Stopped at its end
    results,    \* resultCh
    report,     \* results of the report
    cancelled   \* the context is cancelled

harnessVars == <<runner, sent, job, results, report, cancelled>>

Stopped == Jobs + 1

HarnessInit ==
    /\ runner = IF Jobs = 0 THEN "waiting" ELSE "checking"
    /\ sent = 0
    /\ job = [w \in Workers |-> 0]
    /\ results = <<>> /\ report = <<>>
    /\ cancelled = FALSE

\* A faulty variant, for the sensitivity of the properties: a result for each
\* worker fits into the channel.
RoomForWorkers == Cardinality(Workers)

\* The capacity of resultCh.
ResultRoom == Jobs

----------------------------------------------------------------------------
\* The context is looked at.  When it is cancelled no further case is handed
\* out, and jobCh is closed at once.
CheckContext ==
    /\ runner = "checking"
    /\ runner' = IF cancelled THEN "waiting" ELSE "sending"
    /\ UNCHANGED <<sent, job, results, report, cancelled>>

\* A case goes to a worker that waits for one; jobCh is closed after the last.
HandOut(w) ==
    /\ runner = "sending" /\ job[w] = 0
    /\ sent' = sent + 1
    /\ job' = [job EXCEPT ![w] = sent + 1]
    /\ runner' = IF sent + 1 = Jobs THEN "waiting" ELSE "checking"
    /\ UNCHANGED <<results, report, cancelled>>

\* runCase returns and its result is put into the channel when there is room.
FinishCase(w) ==
    /\ job[w] \in 1..Jobs
    /\ Len(results) < ResultRoom
    /\ results' = Append(results, job[w])
    /\ job' = [job EXCEPT ![w] = 0]
    /\ UNCHANGED <<runner, sent, report, cancelled>>

\* jobCh is closed and empty.
StopWorker(w) ==
    /\ runner = "waiting" /\ job[w] = 0
    /\ job' = [job EXCEPT ![w] = Stopped]
    /\ UNCHANGED <<runner, sent, results, report, cancelled>>

\* wg.Wait returns; the report is made, unless the run was cut short.
EndRun ==
    /\ runner = "waiting" /\ \A w \in Workers : job[w] = Stopped
    /\ runner' = "ended"
    /\ report' = IF sent = Jobs THEN results ELSE <<>>
    /\ UNCHANGED <<sent, job, results, cancelled>>

\* The caller cancels the context.
CancelRun ==
    /\ ~cancelled /\ runner # "ended"
    /\ cancelled' = TRUE
    /\ UNCHANGED <<runner, sent, job, results, report>>

HarnessNext ==
    \/ CheckContext \/ EndRun \/ CancelRun
    \/ \E w \in Workers : HandOut(w) \/ FinishCase(w) \/ StopWorker(w)

HarnessSpec == HarnessInit /\ [][HarnessNext]_harnessVars

\* Goroutines run and the planner returns.
HarnessFairness ==
    /\ WF_harnessVars(CheckContext) /\ WF_harnessVars(EndRun)
    /\ \A w \in Workers : /\ WF_harnessVars(FinishCase(w))
                          /\ WF_harnessVars(StopWorker(w))
    /\ WF_harnessVars(\E w \in Workers : HandOut(w))

----------------------------------------------------------------------------
\* Every variable has its type.
HarnessTypeOK ==
    /\ runner \in {"checking", "sending", "waiting", "ended"}
    /\ sent \in 0..Jobs
    /\ job \in [Workers -> 0..Stopped]
    /\ results \in Seq(1..Jobs) /\ report \in Seq(1..Jobs)
    /\ cancelled \in BOOLEAN

\* A run ends, whenever it is cancelled, and a run that was not cut short ends
\* with one result for each case in its report: no worker waits for room in a
\* channel that is only read when all workers have stopped (Runner.Run).
RunEnds ==
    <>(/\ runner = "ended"
       /\ \/ cancelled /\ report = <<>>
          \/ \A n \in 1..Jobs : Cardinality({i \in DOMAIN report : report[i] = n}) = 1)
=============================================================================
