---------------------------- MODULE PublicViews ----------------------------
(***************************************************************************)
(* How the views and saves of one public plan are counted, in              *)
(* src/internal/plans: a read asks the deduper whether to count, then the  *)
(* counter is incremented, then an audit event is recorded; each may fail  *)
(* without failing the read, and reads overlap.  The plan stays published: *)
(* publishing is the matter of PlanLibrary.                                *)
(*                                                                         *)
(* A viewer is a deduplication key (PublicViewer.DedupKey): an account, or *)
(* an address with a browser.  The deduper and the store are both the      *)
(* memory ones or Redis and MySQL.                                         *)
(***************************************************************************)
EXTENDS Integers, FiniteSets

CONSTANTS
    Viewers,        \* deduplication keys
    Reads,          \* requests under way at the same time
    NoViewer,       \* not a viewer: the request is not under way
    TTL,            \* ticks during which a viewer is counted once
    Lag,            \* ticks by which the time a read took is behind
    SeenLimit,      \* entries beyond which the memory deduper cleans up
    MaxViewClock,   \* bound: the clock
    MaxCounts,      \* bound: the calls counted
    MaxViewFaults   \* bound: how many calls fail

ASSUME ViewAssumption ==
    /\ NoViewer \notin Viewers
    /\ TTL \in Nat \ {0} /\ Lag \in Nat /\ SeenLimit \in Nat
    /\ MaxViewClock \in Nat /\ MaxCounts \in Nat /\ MaxViewFaults \in Nat

VARIABLES
    durable,        \* Redis and MySQL, not memory; fixed at the start
    viewClock,      \* time
    seen,           \* when the entry of each viewer ends; 0 without one
    score,          \* the view and save counters and hot_score
    read,           \* of each request: its step, viewer, kind and time
    lastAllowed,    \* history: when each viewer was last allowed; 0 if never
    events,         \* history: the events recorded
    viewFaults      \* history: the calls that failed

viewVars == <<durable, viewClock, seen, score, read, lastAllowed, events, viewFaults>>

Weight(kind) == IF kind = "view" THEN 1 ELSE 5
NotReading == [at |-> "idle", of |-> NoViewer, kind |-> "view", now |-> 0]

ViewInit ==
    /\ durable \in BOOLEAN
    /\ viewClock = TTL
    /\ seen = [v \in Viewers |-> 0]
    /\ score = [view |-> 0, save |-> 0, hot |-> 0]
    /\ read = [r \in Reads |-> NotReading]
    /\ lastAllowed = [v \in Viewers |-> 0]
    /\ events = 0
    /\ viewFaults = 0

\* Request r ends, or makes the step that follows.
ReadGoes(r, to) ==
    read' = [read EXCEPT ![r] = IF to = "idle" THEN NotReading ELSE [@ EXCEPT !.at = to]]

\* A faulty variant, for the sensitivity of the properties: a cleanup that
\* drops entries which still hold.
DropAll(now) == [v \in Viewers |-> 0]

DropExpired(now) == [v \in Viewers |-> IF seen[v] <= now THEN 0 ELSE seen[v]]

\* computeHotScore in memory.  The UPDATE of MySQL assigns from left to right:
\* hot_score adds one to a column which already holds the new count.
HotScore(s, kind) ==
    LET sum == s.view + 5 * s.save IN
    IF durable THEN sum + Weight(kind) ELSE sum

-----------------------------------------------------------------------------

\* GetPublic takes its time before it asks the deduper; SavePublicAsCopy counts
\* the copy it has created, without asking.
OpenView(r, v) ==
    /\ read[r] = NotReading
    /\ \E now \in viewClock - Lag .. viewClock :
           /\ now >= 1
           /\ read' = [read EXCEPT ![r] =
                  [at |-> "allow", of |-> v, kind |-> "view", now |-> now]]
    /\ UNCHANGED <<durable, viewClock, seen, score, lastAllowed, events, viewFaults>>

SaveCopy(r, v) ==
    /\ read[r] = NotReading
    /\ read' = [read EXCEPT ![r] =
           [at |-> "count", of |-> v, kind |-> "save", now |-> viewClock]]
    /\ UNCHANGED <<durable, viewClock, seen, score, lastAllowed, events, viewFaults>>

\* The memory deduper compares the time of the read, under its mutex; Redis
\* uses its own clock.
Allow(r) ==
    LET v == read[r].of
        now == IF durable THEN viewClock ELSE read[r].now
        full == ~durable /\ Cardinality({w \in Viewers : seen[w] # 0}) > SeenLimit
    IN /\ read[r].at = "allow"
       /\ IF now < seen[v]
          THEN ReadGoes(r, "idle") /\ UNCHANGED <<seen, lastAllowed>>
          ELSE /\ ReadGoes(r, "count")
               /\ seen' = [(IF full THEN DropExpired(now) ELSE seen) EXCEPT ![v] = now + TTL]
               /\ lastAllowed' = [lastAllowed EXCEPT ![v] = now]
       /\ UNCHANGED <<durable, viewClock, score, events, viewFaults>>

\* IncrementCounter: one counter and the score, in one atomic step.
Increment(r) ==
    /\ read[r].at = "count"
    /\ score.view + score.save < MaxCounts
    /\ LET kind == read[r].kind
           counted == [score EXCEPT ![kind] = @ + 1]
       IN score' = [counted EXCEPT !.hot = HotScore(counted, kind)]
    /\ ReadGoes(r, "event")
    /\ UNCHANGED <<durable, viewClock, seen, lastAllowed, events, viewFaults>>

RecordEvent(r) ==
    /\ read[r].at = "event"
    /\ events' = events + 1
    /\ ReadGoes(r, "idle")
    /\ UNCHANGED <<durable, viewClock, seen, score, lastAllowed, viewFaults>>

\* A deduper that fails counts the view; a counter or event that fails is
\* given up, and the viewer is not asked again before its entry ends.
ViewFails(r) ==
    /\ read[r].at # "idle"
    /\ viewFaults < MaxViewFaults
    /\ viewFaults' = viewFaults + 1
    /\ ReadGoes(r, CASE read[r].at = "allow" -> "count"
                     [] OTHER -> "idle")
    /\ UNCHANGED <<durable, viewClock, seen, score, lastAllowed, events>>

\* Time passes; no request is older than Lag when it asks the deduper.
ViewTick ==
    /\ viewClock < MaxViewClock
    /\ \A r \in Reads : read[r].at = "allow" => read[r].now + Lag > viewClock
    /\ viewClock' = viewClock + 1
    /\ UNCHANGED <<durable, seen, score, read, lastAllowed, events, viewFaults>>

ViewNext ==
    \/ \E r \in Reads :
          \/ \E v \in Viewers : OpenView(r, v) \/ SaveCopy(r, v)
          \/ Allow(r) \/ Increment(r) \/ RecordEvent(r) \/ ViewFails(r)
    \/ ViewTick

ViewSpec == ViewInit /\ [][ViewNext]_viewVars

-----------------------------------------------------------------------------
(* Properties                                                              *)

ViewTypeOK ==
    /\ durable \in BOOLEAN /\ viewClock \in Nat
    /\ seen \in [Viewers -> Nat] /\ lastAllowed \in [Viewers -> Nat]
    /\ score \in [view : Nat, save : Nat, hot : Nat]
    /\ read \in [Reads -> [at : {"idle", "allow", "count", "event"},
                           of : Viewers \cup {NoViewer}, kind : {"view", "save"},
                           now : Nat]]
    /\ \A r \in Reads : read[r].at = "allow" => read[r].of \in Viewers
    /\ events \in Nat /\ viewFaults \in 0 .. MaxViewFaults

\* However the reads of a viewer overlap, whoever's read cleans up, and while
\* no deduper fails: it is not allowed twice within the TTL, but for the lag
\* of a time taken before the mutex (GetPublic, MemoryPublicViewDeduper.Allow).
CountedOncePerTTL ==
    [][\A v \in Viewers :
        lastAllowed[v] # 0 /\ lastAllowed'[v] # lastAllowed[v] =>
            lastAllowed'[v] + Lag >= lastAllowed[v] + TTL]_viewVars

\* The audit log never says more than the counters, and less only by the
\* events that failed or are still to be written (incrementPublicCounter).
EventsBackCounts ==
    LET counts == score.view + score.save
        toWrite == Cardinality({r \in Reads : read[r].at = "event"})
    IN /\ events + toWrite <= counts
       /\ counts <= events + toWrite + viewFaults

\* docs/api.md:426: hot_score = view_count + save_count*5 + copy_count*3.
HotScoreAgrees == score.hot = score.view + 5 * score.save

=============================================================================
