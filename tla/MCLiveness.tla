----------------------------- MODULE MCLiveness -----------------------------
(* What must end: tasks and their streams, the calls of the map provider and  *)
(* the runs of the harness, one of the three at a time.  No symmetry: it is   *)
(* not sound for liveness.  A part that rests is in a state in which none of  *)
(* the steps its fairness names is enabled: the first two in their initial    *)
(* states, where nothing was called yet, the harness after its end.           *)
EXTENDS MCTaskService, ExternalLimiter, HarnessRunner

VARIABLE part

LiveInit ==
    /\ part \in {"tasks", "provider", "harness"}
    /\ Init /\ LimiterInit
    /\ IF part = "harness" THEN HarnessInit
       ELSE /\ runner = "ended" /\ sent = Jobs /\ cancelled = TRUE
            /\ job = [w \in Workers |-> Stopped]
            /\ results = <<>> /\ report = <<>>

LiveNext ==
    /\ UNCHANGED part
    /\ \/ part = "tasks" /\ Next /\ UNCHANGED <<limiterVars, harnessVars>>
       \/ part = "provider" /\ LimiterNext /\ UNCHANGED <<vars, harnessVars>>
       \/ part = "harness" /\ HarnessNext /\ UNCHANGED <<vars, limiterVars>>

LiveSpec ==
    /\ LiveInit /\ [][LiveNext]_<<part, vars, limiterVars, harnessVars>>
    /\ Fairness /\ LimiterFairness /\ HarnessFairness
=============================================================================
