------------------------------ MODULE EventBus ------------------------------
(***************************************************************************)
(* The in-process event bus of src/internal/travel/event_bus.go.           *)
(*                                                                         *)
(* Publish works in two halves.  Under the mutex it numbers the event,     *)
(* appends it to the bounded history of its task and copies the set of     *)
(* subscriber channels; after the unlock it offers the event to each of    *)
(* those channels with a non-blocking send.  Subscribe and unsubscribe run *)
(* entirely under the mutex, so they interleave with the second half of a  *)
(* Publish: the half is one action per channel here.                       *)
(*                                                                         *)
(* A task has one publisher at a time: the CreateTask call that announces  *)
(* it, then the runTask goroutine started afterwards, whose planner calls  *)
(* the reporters synchronously from a linear chain of nodes.               *)
(***************************************************************************)
EXTENDS Naturals, Sequences

CONSTANTS
    Tasks,          \* task identifiers, the key of every map of the bus
    Subscribers,    \* one element per call of Subscribe
    EventTypes,     \* the event types the properties tell apart
    HistoryLimit,   \* eventHistoryLimit (100 in the code)
    ChannelSlack,   \* free slots of a new channel beyond its history (16)
    MaxEvents       \* bound: events published for one task

ASSUME BusAssumption ==
    /\ HistoryLimit \in Nat \ {0}
    /\ ChannelSlack \in Nat \ {0}
    /\ MaxEvents \in Nat

VARIABLES
    sequences,      \* sequences[t]: number of the last event of t
    history,        \* history[t]: the kept events of t, oldest first
    subscribers,    \* subscribers[t]: the registered channels of t
    channel,        \* channel[s]: events buffered in the channel of s
    capacity,       \* capacity[s]: its capacity, 0 before Subscribe
    closed,         \* the channels closed by unsubscribe
    sending,        \* sending[t]: channels the Publish in progress has left
    lastRead,       \* lastRead[s]: number of the last event s has taken
    missed          \* subscribers that were not given some event: their
                    \* channel was full or the sends stopped before them

busVars == <<sequences, history, subscribers, channel, capacity, closed,
             sending, lastRead, missed>>

Event == [type : EventTypes, seq : Nat \ {0}]

BusInit ==
    /\ sequences = [t \in Tasks |-> 0]
    /\ history = [t \in Tasks |-> <<>>]
    /\ subscribers = [t \in Tasks |-> {}]
    /\ channel = [s \in Subscribers |-> <<>>]
    /\ capacity = [s \in Subscribers |-> 0]
    /\ closed = {}
    /\ sending = [t \in Tasks |-> {}]
    /\ lastRead = [s \in Subscribers |-> 0]
    /\ missed = {}

-----------------------------------------------------------------------------

\* Faulty variants of the operators below, for the sensitivity of the
\* properties: the history keeps its first events; it keeps one event too
\* many; a new channel starts empty; it is not made larger for the events it
\* is filled with.
TrimNewest(events) ==
    IF Len(events) > HistoryLimit THEN SubSeq(events, 1, HistoryLimit) ELSE events
TrimLate(events) ==
    IF Len(events) > HistoryLimit + 1 THEN Tail(events) ELSE events
PreloadNothing(t) == <<>>
CapacityOfSlack(t) == ChannelSlack

\* The last HistoryLimit events.
Trim(events) ==
    IF Len(events) > HistoryLimit
    THEN SubSeq(events, Len(events) - HistoryLimit + 1, Len(events))
    ELSE events

\* The first half of Publish, under the mutex.
Publish(t, type) ==
    /\ sending[t] = {}
    /\ sequences' = [sequences EXCEPT ![t] = @ + 1]
    /\ history' = [history EXCEPT ![t] =
                       Trim(Append(@, [type |-> type, seq |-> sequences[t] + 1]))]
    /\ sending' = [sending EXCEPT ![t] = subscribers[t]]
    /\ UNCHANGED <<subscribers, channel, capacity, closed, lastRead, missed>>

\* The event being sent: nothing is appended for t until the sends are over.
InFlight(t) == history[t][Len(history[t])]

\* One send of the second half: there is room in the channel.
Deliver(t, s) ==
    /\ s \in sending[t] \ closed
    /\ Len(channel[s]) < capacity[s]
    /\ channel' = [channel EXCEPT ![s] = Append(@, InFlight(t))]
    /\ sending' = [sending EXCEPT ![t] = @ \ {s}]
    /\ UNCHANGED <<sequences, history, subscribers, capacity, closed,
                   lastRead, missed>>

\* One send of the second half: the channel is full, "default" is taken.
Drop(t, s) ==
    /\ s \in sending[t] \ closed
    /\ Len(channel[s]) = capacity[s]
    /\ missed' = missed \cup {s}
    /\ sending' = [sending EXCEPT ![t] = @ \ {s}]
    /\ UNCHANGED <<sequences, history, subscribers, channel, capacity, closed,
                   lastRead>>

\* One send of the second half: the channel was closed after it was copied,
\* the send panics and the remaining channels are not served.
SendOnClosed(t, s) ==
    /\ s \in sending[t] \cap closed
    /\ sending' = [sending EXCEPT ![t] = {}]
    /\ missed' = missed \cup (sending[t] \ closed)
    /\ UNCHANGED <<sequences, history, subscribers, channel, capacity, closed,
                   lastRead>>

\* What a new channel is filled with, and how large it is made.
Preload(t) == history[t]
InitialCapacity(t) == Len(history[t]) + ChannelSlack

\* Subscribe: a channel preloaded with the history, then registered.
Subscribe(s, t) ==
    /\ capacity[s] = 0
    /\ channel' = [channel EXCEPT ![s] = Preload(t)]
    /\ capacity' = [capacity EXCEPT ![s] = InitialCapacity(t)]
    /\ subscribers' = [subscribers EXCEPT ![t] = @ \cup {s}]
    /\ lastRead' = [lastRead EXCEPT ![s] = sequences[t] - Len(history[t])]
    /\ UNCHANGED <<sequences, history, closed, sending, missed>>

\* The function returned by Subscribe.
Unsubscribe(s, t) ==
    /\ s \in subscribers[t]
    /\ subscribers' = [subscribers EXCEPT ![t] = @ \ {s}]
    /\ closed' = closed \cup {s}
    /\ UNCHANGED <<sequences, history, channel, capacity, sending, lastRead,
                   missed>>

\* The subscriber takes the next event; it reads only until it unsubscribes.
Receive(s) ==
    /\ s \notin closed
    /\ channel[s] # <<>>
    /\ lastRead' = [lastRead EXCEPT ![s] = Head(channel[s]).seq]
    /\ channel' = [channel EXCEPT ![s] = Tail(@)]
    /\ UNCHANGED <<sequences, history, subscribers, capacity, closed, sending,
                   missed>>

BusNext ==
    \/ \E t \in Tasks, type \in EventTypes :
          sequences[t] < MaxEvents /\ Publish(t, type)
    \/ \E t \in Tasks, s \in Subscribers :
          \/ Deliver(t, s)
          \/ Drop(t, s)
          \/ SendOnClosed(t, s)
          \/ Subscribe(s, t)
          \/ Unsubscribe(s, t)
    \/ \E s \in Subscribers : Receive(s)

BusSpec == BusInit /\ [][BusNext]_busVars

-----------------------------------------------------------------------------

\* Type invariant; Subscribe fills its channel while it holds the mutex, so a
\* channel holding more than its capacity would block every user of the bus.
BusTypeOK ==
    /\ sequences \in [Tasks -> Nat]
    /\ history \in [Tasks -> Seq(Event)]
    /\ subscribers \in [Tasks -> SUBSET Subscribers]
    /\ channel \in [Subscribers -> Seq(Event)]
    /\ capacity \in [Subscribers -> Nat]
    /\ closed \subseteq Subscribers
    /\ sending \in [Tasks -> SUBSET Subscribers]
    /\ lastRead \in [Subscribers -> Nat]
    /\ missed \subseteq Subscribers
    /\ \A s \in Subscribers : Len(channel[s]) <= capacity[s]

\* The history of a task is exactly its newest events, numbered without a
\* hole up to the last one published, and never longer than the limit
\* (append, trim and numbering of Publish).
HistoryIsTail ==
    \A t \in Tasks :
        /\ Len(history[t]) =
              IF sequences[t] < HistoryLimit THEN sequences[t] ELSE HistoryLimit
        /\ \A i \in 1 .. Len(history[t]) :
              history[t][i].seq = (sequences[t] - Len(history[t])) + i

\* Channel s of task t holds consecutive events up to the newest one, or up to
\* the one before while the newest is still to be sent to it.
Complete(t, s) ==
    /\ lastRead[s] + Len(channel[s])
          + (IF s \in sending[t] THEN 1 ELSE 0) = sequences[t]
    /\ \A i \in 1 .. Len(channel[s]) : channel[s][i].seq = lastRead[s] + i

\* A registered channel that missed nothing holds every event from the oldest
\* one in the history at the time of Subscribe up to the last one published
\* (or the one before while that one is still to be sent): the copy of the
\* history and the registration in Subscribe leave no hole and no overlap
\* with a Publish whose sends are under way.
NoGapNoDuplicate ==
    \A t \in Tasks : \A s \in subscribers[t] \ missed : Complete(t, s)

\* What channel s of task t holds lies above the last event read, in rising
\* order, and below the event still to be sent to it.
Rising(t, s) ==
    /\ \A i \in 1 .. Len(channel[s]) :
          /\ lastRead[s] < channel[s][i].seq
          /\ channel[s][i].seq <= sequences[t]
          /\ s \in sending[t] => channel[s][i].seq < sequences[t]
    /\ \A i, j \in 1 .. Len(channel[s]) :
          i < j => channel[s][i].seq < channel[s][j].seq
    /\ lastRead[s] <= sequences[t]
    /\ s \in sending[t] => lastRead[s] < sequences[t]

\* A missed event leaves a hole in what a subscriber sees but never reorders it:
\* numbers rise along the channel, and the event still to be sent to a
\* channel is newer than all it holds.
DeliveryOrdered ==
    \A t \in Tasks : \A s \in subscribers[t] : Rising(t, s)

\* A subscriber that reads twice reads a newer event the second time, whatever
\* publishes, drops and unsubscribes happen around it (the loop of StreamPlan
\* and the client's de-duplication by sequence rely on it).
ReadsMoveForward ==
    [][\A s \in Subscribers : Receive(s) => lastRead'[s] > lastRead[s]]_busVars
=============================================================================
