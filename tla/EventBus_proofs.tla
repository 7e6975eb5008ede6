-------------------------- MODULE EventBus_proofs --------------------------
(***************************************************************************)
(* What the event bus guarantees for any number of tasks, subscribers and  *)
(* events, any history limit and any channel slack.                        *)
(*                                                                         *)
(* None of the delivery invariants is inductive alone.  That an event sent *)
(* late still fits after what a channel holds needs the history to end in  *)
(* the newest event (HistoryIsTail), the order of the channel              *)
(* (DeliveryOrdered), and that the channel belongs to this task alone and  *)
(* is registered unless it is closed (Registered, OpenRegistered).         *)
(***************************************************************************)
EXTENDS EventBus, SequenceTheorems, TLAPS

\* Who is in the subscriber maps: open channels, each for one task; a channel
\* that a Publish still has to serve is registered or closed since.
Registered ==
    /\ \A t \in Tasks : \A s \in subscribers[t] : s \notin closed /\ capacity[s] # 0
    /\ \A t, u \in Tasks : \A s \in subscribers[t] \cap subscribers[u] : t = u
    /\ \A t \in Tasks : sending[t] \subseteq subscribers[t] \cup closed
    /\ \A s \in closed : capacity[s] # 0

\* An open channel is registered, as long as the bus lives.
OpenRegistered ==
    \A s \in Subscribers \ closed :
        capacity[s] # 0 => \E t \in Tasks : s \in subscribers[t]

BusInv ==
    /\ BusTypeOK
    /\ Registered
    /\ HistoryIsTail
    /\ DeliveryOrdered
    /\ NoGapNoDuplicate

-----------------------------------------------------------------------------
(* Lemmas about the operators                                              *)

\* Moving one between the summands.
LEMMA Shift ==
    ASSUME NEW a \in Nat, NEW b \in Nat
    PROVE  /\ a + (b + 1) = (a + b) + 1
           /\ (a + 1) + b = a + (b + 1)
OBVIOUS

\* The events of a history of n events end in number q, without a hole.
EndsAt(events, q) ==
    \A i \in 1 .. Len(events) : events[i].seq = (q - Len(events)) + i

\* Trim keeps the newest events: appending the next number to a history that
\* ends at q and trimming it yields one that ends at q + 1, as long as it can
\* be up to the limit (the append and trim of Publish).
LEMMA TrimAppend ==
    ASSUME NEW h \in Seq(Event), NEW q \in Nat, NEW e \in Event,
           e.seq = q + 1, EndsAt(h, q),
           Len(h) = IF q < HistoryLimit THEN q ELSE HistoryLimit
    PROVE  LET r == Trim(Append(h, e)) IN
           /\ r \in Seq(Event)
           /\ Len(r) = IF q + 1 < HistoryLimit THEN q + 1 ELSE HistoryLimit
           /\ EndsAt(r, q + 1)
<1> DEFINE a == Append(h, e)
           n == Len(h)
<1>0. HistoryLimit \in Nat \ {0}
  BY BusAssumption
<1>1. /\ a \in Seq(Event)
      /\ n \in Nat
      /\ Len(a) = n + 1
      /\ \A i \in 1 .. n : a[i] = h[i]
      /\ a[n + 1] = e
      /\ a # <<>>
  BY AppendProperties, LenProperties
<1>2. \A i \in 1 .. Len(a) : a[i].seq = ((q + 1) - Len(a)) + i
  <2> SUFFICES ASSUME NEW i \in 1 .. Len(a)
               PROVE  a[i].seq = ((q + 1) - Len(a)) + i
    OBVIOUS
  <2>1. CASE i = n + 1
    <3>1. a[i] = e
      BY <1>1, <2>1
    <3> HIDE DEF a, n
    <3> QED
      BY <1>1, <2>1, <3>1
  <2>2. CASE i # n + 1
    <3>1. i \in 1 .. n
      <4> HIDE DEF a, n
      <4> QED  BY <1>1, <2>2
    <3>2. a[i] = h[i] /\ h[i].seq = (q - n) + i
      BY <1>1, <3>1 DEF EndsAt
    <3> HIDE DEF a, n
    <3> QED
      BY <1>1, <3>1, <3>2
  <2> QED
    BY <2>1, <2>2
<1>3. CASE ~(Len(a) > HistoryLimit)
  <2>1. Trim(a) = a
    BY <1>3 DEF Trim
  <2>2. n = q
    <3> HIDE DEF a
    <3> QED  BY <1>0, <1>1, <1>3
  <2>3. Len(a) = IF q + 1 < HistoryLimit THEN q + 1 ELSE HistoryLimit
    <3> HIDE DEF a, n
    <3> QED  BY <1>0, <1>1, <1>3, <2>2
  <2> QED
    BY <1>1, <1>2, <2>1, <2>3 DEF EndsAt
<1>4. CASE Len(a) > HistoryLimit
  <2>1. /\ n = HistoryLimit
        /\ ~(q < HistoryLimit)
    <3> HIDE DEF a
    <3> QED  BY <1>0, <1>1, <1>4
  <2>2. Trim(a) = Tail(a)
    <3>1. Len(a) - HistoryLimit + 1 = 2
      <4> HIDE DEF a, n
      <4> QED  BY <1>0, <1>1, <2>1
    <3>2. Tail(a) = SubSeq(a, 2, Len(a))
      BY <1>1, TailIsSubSeq
    <3> HIDE DEF a, n
    <3> QED
      BY <1>4, <3>1, <3>2 DEF Trim
  <2> DEFINE r == Tail(a)
  <2>3. /\ r \in Seq(Event)
        /\ Len(r) = Len(a) - 1
        /\ \A i \in 1 .. Len(r) : r[i] = a[i + 1]
    <3> HIDE DEF a, n
    <3> QED  BY <1>1, HeadTailProperties
  <2>4. Len(r) = HistoryLimit /\ ~(q + 1 < HistoryLimit)
    <3> HIDE DEF a, n, r
    <3> QED  BY <1>0, <1>1, <2>1, <2>3
  <2>5. ASSUME NEW i \in 1 .. Len(r)
        PROVE  r[i].seq = ((q + 1) - Len(r)) + i
    <3>1. i + 1 \in 1 .. Len(a)
      <4> HIDE DEF a, n, r
      <4> QED  BY <1>1, <2>3
    <3>2. r[i] = a[i + 1]
      BY <2>3
    <3>3. a[i + 1].seq = ((q + 1) - Len(a)) + (i + 1)
      BY <1>2, <3>1
    <3> HIDE DEF a, n, r
    <3> QED
      BY <1>0, <1>1, <2>3, <3>1, <3>2, <3>3
  <2>6. EndsAt(r, q + 1)
    <3> HIDE DEF r
    <3> QED  BY <2>5 DEF EndsAt
  <2>7. Trim(a) = r
    BY <2>2
  <2> HIDE DEF r
  <2> QED
    BY <2>3, <2>4, <2>6, <2>7
<1> QED
  BY <1>3, <1>4

\* The event being sent is the newest one.
LEMMA InFlightIsNewest ==
    ASSUME BusTypeOK, HistoryIsTail, NEW t \in Tasks, sequences[t] > 0
    PROVE  InFlight(t) \in Event /\ InFlight(t).seq = sequences[t]
<1>1. /\ sequences[t] \in Nat
      /\ history[t] \in Seq(Event)
      /\ HistoryLimit \in Nat \ {0}
  BY BusAssumption DEF BusTypeOK
<1>2. Len(history[t]) \in Nat /\ Len(history[t]) > 0
  BY <1>1, LenProperties DEF HistoryIsTail
<1>3. Len(history[t]) \in 1 .. Len(history[t])
  BY <1>2
<1>4. InFlight(t) \in Event
  BY <1>1, <1>3, ElementOfSeq DEF InFlight
<1>5. InFlight(t).seq = (sequences[t] - Len(history[t])) + Len(history[t])
  BY <1>3 DEF HistoryIsTail, InFlight
<1> QED
  BY <1>1, <1>2, <1>4, <1>5

\* What a registered channel holds is typed and numbered by naturals.
LEMMA ChannelTyped ==
    ASSUME BusTypeOK, NEW s \in Subscribers
    PROVE  /\ channel[s] \in Seq(Event)
           /\ Len(channel[s]) \in Nat
           /\ lastRead[s] \in Nat
           /\ capacity[s] \in Nat
           /\ Len(channel[s]) <= capacity[s]
           /\ \A i \in 1 .. Len(channel[s]) : channel[s][i].seq \in Nat
<1>1. /\ channel[s] \in Seq(Event)
      /\ lastRead[s] \in Nat
      /\ capacity[s] \in Nat
      /\ Len(channel[s]) <= capacity[s]
  BY DEF BusTypeOK
<1>2. Len(channel[s]) \in Nat
  BY <1>1, LenProperties
<1>3. ASSUME NEW i \in 1 .. Len(channel[s])
      PROVE  channel[s][i].seq \in Nat
  <2>1. channel[s][i] \in Event
    BY <1>1, ElementOfSeq
  <2> QED
    BY <2>1 DEF Event
<1> QED
  BY <1>1, <1>2, <1>3

\* A channel whose contents, reader and pending send a step leaves alone, and
\* whose task publishes nothing, stays as good as it was.
LEMMA ChannelUntouched ==
    ASSUME NEW t \in Tasks, NEW s \in Subscribers,
           channel'[s] = channel[s], lastRead'[s] = lastRead[s],
           sequences'[t] = sequences[t],
           s \in sending'[t] <=> s \in sending[t]
    PROVE  /\ Rising(t, s) => Rising(t, s)'
           /\ Complete(t, s) => Complete(t, s)'
BY DEF Rising, Complete

-----------------------------------------------------------------------------
(* Every operation preserves the invariant                                 *)

LEMMA PublishStep ==
    ASSUME BusInv, NEW t \in Tasks, NEW type \in EventTypes, Publish(t, type)
    PROVE  BusInv'
<1> USE DEF BusInv
<1> DEFINE e == [type |-> type, seq |-> sequences[t] + 1]
<1>1. /\ sequences[t] \in Nat
      /\ history[t] \in Seq(Event)
      /\ e \in Event
      /\ e.seq = sequences[t] + 1
  <2>1. sequences[t] \in Nat /\ history[t] \in Seq(Event)
    BY DEF BusTypeOK
  <2>2. sequences[t] + 1 \in Nat \ {0}
    BY <2>1
  <2> QED
    BY <2>1, <2>2 DEF Event
<1>2. /\ EndsAt(history[t], sequences[t])
      /\ Len(history[t]) =
            IF sequences[t] < HistoryLimit THEN sequences[t] ELSE HistoryLimit
  BY DEF HistoryIsTail, EndsAt
<1>3. /\ history'[t] = Trim(Append(history[t], e))
      /\ sequences'[t] = sequences[t] + 1
      /\ \A u \in Tasks : u # t =>
            history'[u] = history[u] /\ sequences'[u] = sequences[u]
                /\ sending'[u] = sending[u]
      /\ sending[t] = {} /\ sending'[t] = subscribers[t]
      /\ UNCHANGED <<subscribers, channel, capacity, closed, lastRead, missed>>
  BY DEF Publish, BusTypeOK
<1> HIDE DEF e
<1>4. /\ history'[t] \in Seq(Event)
      /\ Len(history'[t]) =
            IF sequences[t] + 1 < HistoryLimit THEN sequences[t] + 1 ELSE HistoryLimit
      /\ EndsAt(history'[t], sequences[t] + 1)
  BY <1>1, <1>2, <1>3, TrimAppend
<1>5. BusTypeOK'
  <2>1. sequences' \in [Tasks -> Nat]
    BY <1>1 DEF BusTypeOK, Publish
  <2>2. history' \in [Tasks -> Seq(Event)]
    <3>1. history' = [history EXCEPT ![t] = history'[t]]
      BY DEF Publish, BusTypeOK
    <3> QED
      BY <1>4, <3>1 DEF BusTypeOK
  <2>3. sending' \in [Tasks -> SUBSET Subscribers]
    BY DEF BusTypeOK, Publish
  <2> QED
    BY <2>1, <2>2, <2>3, <1>3 DEF BusTypeOK
<1>6. Registered'
  BY <1>3 DEF Registered, BusTypeOK
<1>7. HistoryIsTail'
  BY <1>3, <1>4 DEF HistoryIsTail, EndsAt
<1>8. ASSUME NEW u \in Tasks, NEW s \in subscribers[u]
      PROVE  Rising(u, s)' /\ (s \notin missed => Complete(u, s)')
  <2>0. /\ Rising(u, s)
        /\ s \notin missed => Complete(u, s)
    BY <1>8 DEF DeliveryOrdered, NoGapNoDuplicate
  <2>1. CASE u # t
    BY <1>3, <2>0, <2>1 DEF Rising, Complete
  <2>2. CASE u = t
    <3>1. s \in Subscribers
      BY <1>8 DEF BusTypeOK
    <3>2. /\ channel[s] \in Seq(Event)
          /\ Len(channel[s]) \in Nat
          /\ lastRead[s] \in Nat
          /\ \A i \in 1 .. Len(channel[s]) : channel[s][i].seq \in Nat
      BY <3>1, ChannelTyped
    <3>3. Rising(u, s)'
      <4>1. /\ channel'[s] = channel[s] /\ lastRead'[s] = lastRead[s]
            /\ sequences'[u] = sequences[u] + 1 /\ sequences[u] \in Nat
        BY <1>1, <1>3, <2>2
      <4>2. \A i \in 1 .. Len(channel[s]) :
               /\ lastRead[s] < channel[s][i].seq
               /\ channel[s][i].seq <= sequences[u]
        BY <2>0 DEF Rising
      <4>3. \A i \in 1 .. Len(channel[s]) : channel[s][i].seq < sequences[u] + 1
        BY <3>2, <4>1, <4>2
      <4>4. /\ lastRead[s] <= sequences[u] + 1 /\ lastRead[s] < sequences[u] + 1
            /\ \A i \in 1 .. Len(channel[s]) : channel[s][i].seq <= sequences[u] + 1
        <5>1. lastRead[s] <= sequences[u]
          BY <2>0 DEF Rising
        <5> QED
          BY <3>2, <4>1, <4>3, <5>1
      <4>5. \A i, j \in 1 .. Len(channel[s]) :
               i < j => channel[s][i].seq < channel[s][j].seq
        BY <2>0 DEF Rising
      <4> QED
        BY <4>1, <4>2, <4>3, <4>4, <4>5 DEF Rising
    <3>4. s \notin missed => Complete(u, s)'
      BY <1>1, <1>3, <1>8, <2>0, <2>2, <3>1, <3>2 DEF Complete
    <3> QED
      BY <3>3, <3>4
  <2> QED
    BY <2>1, <2>2
<1>9. DeliveryOrdered' /\ NoGapNoDuplicate'
  BY <1>3, <1>8 DEF DeliveryOrdered, NoGapNoDuplicate
<1> QED
  BY <1>5, <1>6, <1>7, <1>9

LEMMA DeliverStep ==
    ASSUME BusInv, NEW t \in Tasks, NEW s \in Subscribers, Deliver(t, s)
    PROVE  BusInv'
<1> USE DEF BusInv
<1>1. /\ s \in subscribers[t]
      /\ s \in sending[t]
      /\ \A u \in Tasks : s \in subscribers[u] => u = t
  BY DEF Deliver, Registered
<1>2. /\ channel[s] \in Seq(Event)
      /\ Len(channel[s]) \in Nat
      /\ lastRead[s] \in Nat
      /\ capacity[s] \in Nat
      /\ \A i \in 1 .. Len(channel[s]) : channel[s][i].seq \in Nat
  BY ChannelTyped
<1>3. Rising(t, s) /\ sequences[t] \in Nat
  BY <1>1 DEF DeliveryOrdered, BusTypeOK
<1>4. sequences[t] > 0
  BY <1>1, <1>2, <1>3 DEF Rising
<1>5. InFlight(t) \in Event /\ InFlight(t).seq = sequences[t]
  BY <1>4, InFlightIsNewest
<1>6. /\ channel'[s] = Append(channel[s], InFlight(t))
      /\ \A x \in Subscribers : x # s => channel'[x] = channel[x]
      /\ sending'[t] = sending[t] \ {s}
      /\ \A u \in Tasks : u # t => sending'[u] = sending[u]
      /\ UNCHANGED <<sequences, history, subscribers, capacity, closed,
                     lastRead, missed>>
  BY DEF Deliver, BusTypeOK
<1>7. /\ channel'[s] \in Seq(Event)
      /\ Len(channel'[s]) = Len(channel[s]) + 1
      /\ \A i \in 1 .. Len(channel[s]) : channel'[s][i] = channel[s][i]
      /\ channel'[s][Len(channel[s]) + 1] = InFlight(t)
  BY <1>2, <1>5, <1>6, AppendProperties
<1>8. BusTypeOK'
  <2>1. channel' \in [Subscribers -> Seq(Event)]
    <3>1. channel' = [channel EXCEPT ![s] = channel'[s]]
      BY DEF Deliver, BusTypeOK
    <3> QED
      BY <1>7, <3>1 DEF BusTypeOK
  <2>2. \A x \in Subscribers : Len(channel'[x]) <= capacity[x]
    BY <1>2, <1>6, <1>7 DEF BusTypeOK, Deliver
  <2>3. sending' \in [Tasks -> SUBSET Subscribers]
    BY DEF BusTypeOK, Deliver
  <2> QED
    BY <1>6, <2>1, <2>2, <2>3 DEF BusTypeOK
<1>9. Registered'
  BY <1>6 DEF Registered, BusTypeOK
<1>10. HistoryIsTail'
  BY <1>6 DEF HistoryIsTail
<1>11. Rising(t, s)'
  <2>1. \A i \in 1 .. Len(channel'[s]) :
           IF i = Len(channel[s]) + 1
           THEN channel'[s][i].seq = sequences[t]
           ELSE i \in 1 .. Len(channel[s])
                /\ channel'[s][i].seq = channel[s][i].seq
    BY <1>2, <1>5, <1>7
  <2> QED
    BY <1>1, <1>2, <1>3, <1>6, <1>7, <2>1 DEF Rising
<1>12. ASSUME s \notin missed
       PROVE  Complete(t, s)'
  <2>1. Complete(t, s)
    BY <1>1, <1>12 DEF NoGapNoDuplicate
  <2>2. lastRead[s] + Len(channel[s]) + 1 = sequences[t]
    BY <1>1, <2>1 DEF Complete
  <2>3. \A i \in 1 .. Len(channel'[s]) : channel'[s][i].seq = lastRead[s] + i
    <3> SUFFICES ASSUME NEW i \in 1 .. Len(channel'[s])
                 PROVE  channel'[s][i].seq = lastRead[s] + i
      OBVIOUS
    <3>1. CASE i = Len(channel[s]) + 1
      <4>1. channel'[s][i].seq = sequences[t]
        BY <1>5, <1>7, <3>1
      <4>2. lastRead[s] + i = sequences[t]
        BY <1>2, <2>2, <3>1, Shift
      <4> QED
        BY <4>1, <4>2
    <3>2. CASE i # Len(channel[s]) + 1
      <4>1. i \in 1 .. Len(channel[s])
        BY <1>2, <1>7, <3>2
      <4>2. channel[s][i].seq = lastRead[s] + i
        BY <2>1, <4>1 DEF Complete
      <4>3. channel'[s][i] = channel[s][i]
        BY <1>7, <4>1
      <4> QED
        BY <4>2, <4>3
    <3> QED
      BY <3>1, <3>2
  <2>4. lastRead[s] + Len(channel'[s]) + 0 = sequences[t]
    BY <1>2, <1>3, <1>7, <2>2
  <2> QED
    BY <1>6, <2>3, <2>4 DEF Complete
<1>13. ASSUME NEW u \in Tasks, NEW x \in subscribers[u]
       PROVE  Rising(u, x)' /\ (x \notin missed => Complete(u, x)')
  <2>1. CASE x = s
    BY <1>1, <1>11, <1>12, <1>13, <2>1
  <2>2. CASE x # s
    <3>1. x \in Subscribers
      BY <1>13 DEF BusTypeOK
    <3>2. /\ channel'[x] = channel[x]
          /\ lastRead'[x] = lastRead[x]
          /\ sequences'[u] = sequences[u]
          /\ x \in sending'[u] <=> x \in sending[u]
      BY <1>6, <2>2, <3>1
    <3> QED
      BY <1>13, <3>1, <3>2, ChannelUntouched DEF DeliveryOrdered, NoGapNoDuplicate
  <2> QED
    BY <2>1, <2>2
<1>14. DeliveryOrdered' /\ NoGapNoDuplicate'
  BY <1>6, <1>13 DEF DeliveryOrdered, NoGapNoDuplicate
<1> QED
  BY <1>8, <1>9, <1>10, <1>14

\* The steps that end a send without filling the channel.
LEMMA DropStep ==
    ASSUME BusInv, NEW t \in Tasks, NEW s \in Subscribers, Drop(t, s)
    PROVE  BusInv'
<1> USE DEF BusInv
<1>1. /\ sending'[t] = sending[t] \ {s}
      /\ \A u \in Tasks : u # t => sending'[u] = sending[u]
      /\ sending' \in [Tasks -> SUBSET Subscribers]
      /\ missed' = missed \cup {s}
      /\ UNCHANGED <<sequences, history, subscribers, channel, capacity,
                     closed, lastRead>>
  BY DEF Drop, BusTypeOK
<1>2. BusTypeOK' /\ Registered' /\ HistoryIsTail'
  BY <1>1 DEF BusTypeOK, Registered, HistoryIsTail
<1>3. ASSUME NEW u \in Tasks, NEW x \in subscribers[u]
      PROVE  Rising(u, x)' /\ (x \notin missed' => Complete(u, x)')
  <2>1. Rising(u, x)'
    BY <1>1, <1>3 DEF DeliveryOrdered, Rising
  <2>2. ASSUME x \notin missed'
        PROVE  Complete(u, x)'
    BY <1>1, <1>3, <2>2 DEF NoGapNoDuplicate, Complete
  <2> QED
    BY <2>1, <2>2
<1> QED
  BY <1>1, <1>2, <1>3 DEF DeliveryOrdered, NoGapNoDuplicate

LEMMA SendOnClosedStep ==
    ASSUME BusInv, NEW t \in Tasks, NEW s \in Subscribers, SendOnClosed(t, s)
    PROVE  BusInv'
<1> USE DEF BusInv
<1>1. /\ sending'[t] = {}
      /\ \A u \in Tasks : u # t => sending'[u] = sending[u]
      /\ sending' \in [Tasks -> SUBSET Subscribers]
      /\ missed' = missed \cup (sending[t] \ closed)
      /\ UNCHANGED <<sequences, history, subscribers, channel, capacity,
                     closed, lastRead>>
  BY DEF SendOnClosed, BusTypeOK
<1>2. BusTypeOK' /\ Registered' /\ HistoryIsTail'
  <2>1. missed' \subseteq Subscribers
    BY <1>1 DEF BusTypeOK
  <2> QED
    BY <1>1, <2>1 DEF BusTypeOK, Registered, HistoryIsTail
<1>3. ASSUME NEW u \in Tasks, NEW x \in subscribers[u]
      PROVE  Rising(u, x)' /\ (x \notin missed' => Complete(u, x)')
  <2>1. Rising(u, x)'
    BY <1>1, <1>3 DEF DeliveryOrdered, Rising
  <2>2. ASSUME x \notin missed'
        PROVE  Complete(u, x)'
    <3>1. x \in sending'[u] <=> x \in sending[u]
      BY <1>1, <1>3, <2>2 DEF Registered
    <3> QED
      BY <1>1, <1>3, <2>2, <3>1 DEF NoGapNoDuplicate, Complete
  <2> QED
    BY <2>1, <2>2
<1> QED
  BY <1>1, <1>2, <1>3 DEF DeliveryOrdered, NoGapNoDuplicate

LEMMA SubscribeStep ==
    ASSUME BusInv, NEW t \in Tasks, NEW s \in Subscribers, Subscribe(s, t)
    PROVE  BusInv'
<1> USE DEF BusInv
<1>1. /\ capacity[s] = 0
      /\ s \notin closed
      /\ \A u \in Tasks : s \notin subscribers[u] /\ s \notin sending[u]
  BY DEF Subscribe, Registered
<1>2. /\ sequences[t] \in Nat
      /\ history[t] \in Seq(Event)
      /\ Len(history[t]) \in Nat
      /\ ChannelSlack \in Nat \ {0}
      /\ HistoryLimit \in Nat \ {0}
  BY LenProperties, BusAssumption DEF BusTypeOK
<1>3. Len(history[t]) <= sequences[t]
  BY <1>2 DEF HistoryIsTail
<1>4. /\ channel' = [channel EXCEPT ![s] = history[t]]
      /\ capacity' = [capacity EXCEPT ![s] = Len(history[t]) + ChannelSlack]
      /\ lastRead' = [lastRead EXCEPT ![s] = sequences[t] - Len(history[t])]
      /\ subscribers' = [subscribers EXCEPT ![t] = @ \cup {s}]
      /\ UNCHANGED <<sequences, history, closed, sending, missed>>
  BY DEF Subscribe, Preload, InitialCapacity
<1>5. /\ channel'[s] = history[t]
      /\ capacity'[s] = Len(history[t]) + ChannelSlack
      /\ lastRead'[s] = sequences[t] - Len(history[t])
      /\ subscribers'[t] = subscribers[t] \cup {s}
      /\ \A u \in Tasks : u # t => subscribers'[u] = subscribers[u]
      /\ \A x \in Subscribers : x # s =>
            /\ channel'[x] = channel[x]
            /\ capacity'[x] = capacity[x]
            /\ lastRead'[x] = lastRead[x]
  BY <1>4 DEF BusTypeOK
<1>6. /\ lastRead'[s] \in Nat
      /\ capacity'[s] \in Nat
      /\ capacity'[s] # 0
      /\ Len(channel'[s]) <= capacity'[s]
  BY <1>2, <1>3, <1>5
<1>7. BusTypeOK'
  <2>1. /\ channel' \in [Subscribers -> Seq(Event)]
        /\ subscribers' \in [Tasks -> SUBSET Subscribers]
    BY <1>2, <1>4 DEF BusTypeOK
  <2>2. capacity' \in [Subscribers -> Nat]
    BY <1>4, <1>5, <1>6 DEF BusTypeOK
  <2>3. lastRead' \in [Subscribers -> Nat]
    BY <1>4, <1>5, <1>6 DEF BusTypeOK
  <2>4. \A x \in Subscribers : Len(channel'[x]) <= capacity'[x]
    BY <1>5, <1>6 DEF BusTypeOK
  <2> QED
    BY <1>4, <2>1, <2>2, <2>3, <2>4 DEF BusTypeOK
<1>8. Registered'
  <2>1. \A u \in Tasks : \A x \in subscribers'[u] : x \notin closed' /\ capacity'[x] # 0
    BY <1>1, <1>4, <1>5, <1>6 DEF Registered, BusTypeOK
  <2>2. \A u, v \in Tasks : \A x \in subscribers'[u] \cap subscribers'[v] : u = v
    BY <1>1, <1>5 DEF Registered
  <2>3. \A u \in Tasks : sending'[u] \subseteq subscribers'[u] \cup closed'
    BY <1>4, <1>5 DEF Registered
  <2>4. \A x \in closed' : capacity'[x] # 0
    BY <1>1, <1>4, <1>5 DEF Registered, BusTypeOK
  <2> QED
    BY <2>1, <2>2, <2>3, <2>4 DEF Registered
<1>9. HistoryIsTail'
  BY <1>4 DEF HistoryIsTail
<1>10. \A i \in 1 .. Len(channel'[s]) : channel'[s][i].seq = lastRead'[s] + i
  BY <1>5 DEF HistoryIsTail
<1>11. Complete(t, s)'
  <2>1. (lastRead'[s] + Len(channel'[s])) + 0 = sequences[t]
    BY <1>2, <1>3, <1>5
  <2> QED
    BY <1>1, <1>4, <1>10, <2>1 DEF Complete
<1>12. Rising(t, s)'
  <2>1. lastRead'[s] + Len(channel'[s]) = sequences[t]
    BY <1>2, <1>3, <1>5
  <2>2. Len(channel'[s]) \in Nat
    BY <1>2, <1>5
  <2>3. ASSUME NEW i \in 1 .. Len(channel'[s])
        PROVE  lastRead'[s] < channel'[s][i].seq /\ channel'[s][i].seq <= sequences[t]
    <3>1. channel'[s][i].seq = lastRead'[s] + i
      BY <1>10
    <3>2. lastRead'[s] < lastRead'[s] + i /\ lastRead'[s] + i <= sequences[t]
      BY <1>2, <1>6, <2>1, <2>2
    <3> QED
      BY <3>1, <3>2
  <2>4. ASSUME NEW i \in 1 .. Len(channel'[s]), NEW j \in 1 .. Len(channel'[s]),
               i < j
        PROVE  channel'[s][i].seq < channel'[s][j].seq
    <3>1. channel'[s][i].seq = lastRead'[s] + i /\ channel'[s][j].seq = lastRead'[s] + j
      BY <1>10
    <3>2. lastRead'[s] + i < lastRead'[s] + j
      BY <1>6, <2>2, <2>4
    <3> QED
      BY <3>1, <3>2
  <2>5. lastRead'[s] <= sequences[t]
    BY <1>2, <1>6, <2>1, <2>2
  <2> QED
    BY <1>1, <1>4, <2>3, <2>4, <2>5 DEF Rising
<1>13. ASSUME NEW u \in Tasks, NEW x \in subscribers'[u]
       PROVE  Rising(u, x)' /\ (x \notin missed => Complete(u, x)')
  <2>1. CASE x = s
    BY <1>1, <1>5, <1>11, <1>12, <1>13, <2>1
  <2>2. CASE x # s
    <3>1. x \in subscribers[u] /\ x \in Subscribers
      <4>1. CASE u = t
        BY <1>5, <1>13, <2>2, <4>1 DEF BusTypeOK
      <4>2. CASE u # t
        BY <1>5, <1>13, <4>2 DEF BusTypeOK
      <4> QED
        BY <4>1, <4>2
    <3> QED
      BY <1>4, <1>5, <2>2, <3>1, ChannelUntouched DEF DeliveryOrdered, NoGapNoDuplicate
  <2> QED
    BY <2>1, <2>2
<1> QED
  BY <1>4, <1>7, <1>8, <1>9, <1>13 DEF DeliveryOrdered, NoGapNoDuplicate

LEMMA UnsubscribeStep ==
    ASSUME BusInv, NEW t \in Tasks, NEW s \in Subscribers, Unsubscribe(s, t)
    PROVE  BusInv'
<1> USE DEF BusInv
<1>1. /\ s \in subscribers[t]
      /\ subscribers'[t] = subscribers[t] \ {s}
      /\ \A u \in Tasks : u # t => subscribers'[u] = subscribers[u]
      /\ subscribers' \in [Tasks -> SUBSET Subscribers]
      /\ closed' = closed \cup {s}
      /\ UNCHANGED <<sequences, history, channel, capacity, sending, lastRead,
                     missed>>
  BY DEF Unsubscribe, BusTypeOK
<1>2. BusTypeOK' /\ HistoryIsTail'
  BY <1>1 DEF BusTypeOK, HistoryIsTail
<1>3. Registered'
  <2>1. \A u \in Tasks : s \in subscribers[u] => u = t
    BY <1>1 DEF Registered
  <2>2. \A u \in Tasks : \A x \in subscribers'[u] : x \notin closed' /\ capacity'[x] # 0
    BY <1>1, <2>1 DEF Registered
  <2>3. /\ \A u, v \in Tasks : \A x \in subscribers'[u] \cap subscribers'[v] : u = v
        /\ \A u \in Tasks : sending'[u] \subseteq subscribers'[u] \cup closed'
        /\ \A x \in closed' : capacity'[x] # 0
    BY <1>1 DEF Registered
  <2> QED
    BY <2>2, <2>3 DEF Registered
<1>4. ASSUME NEW u \in Tasks, NEW x \in subscribers'[u]
      PROVE  Rising(u, x)' /\ (x \notin missed => Complete(u, x)')
  <2>1. x \in subscribers[u] /\ x \in Subscribers
    BY <1>1, <1>4 DEF BusTypeOK
  <2> QED
    BY <1>1, <2>1, ChannelUntouched DEF DeliveryOrdered, NoGapNoDuplicate
<1> QED
  BY <1>1, <1>2, <1>3, <1>4 DEF DeliveryOrdered, NoGapNoDuplicate

LEMMA ReceiveStep ==
    ASSUME BusInv, NEW q \in Tasks, NEW s \in subscribers[q], Receive(s)
    PROVE  BusInv' /\ lastRead'[s] > lastRead[s]
<1> USE DEF BusInv
<1>0. s \in Subscribers
  BY DEF BusTypeOK
<1>1. /\ channel[s] \in Seq(Event)
      /\ Len(channel[s]) \in Nat
      /\ lastRead[s] \in Nat
      /\ capacity[s] \in Nat
      /\ Len(channel[s]) <= capacity[s]
      /\ \A i \in 1 .. Len(channel[s]) : channel[s][i].seq \in Nat
  BY <1>0, ChannelTyped
<1>2. channel[s] # <<>> /\ s \notin closed
  BY DEF Receive
<1>3. /\ Tail(channel[s]) \in Seq(Event)
      /\ Len(Tail(channel[s])) = Len(channel[s]) - 1
      /\ \A i \in 1 .. Len(Tail(channel[s])) : Tail(channel[s])[i] = channel[s][i + 1]
      /\ Head(channel[s]) = channel[s][1]
  BY <1>1, <1>2, HeadTailProperties
<1>4. 1 \in 1 .. Len(channel[s])
  BY <1>1, <1>2, EmptySeq
<1>5. /\ channel' = [channel EXCEPT ![s] = Tail(channel[s])]
      /\ lastRead' = [lastRead EXCEPT ![s] = channel[s][1].seq]
      /\ UNCHANGED <<sequences, history, subscribers, capacity, closed,
                     sending, missed>>
  BY <1>3 DEF Receive
<1>6. /\ channel'[s] = Tail(channel[s])
      /\ lastRead'[s] = channel[s][1].seq
      /\ \A x \in Subscribers : x # s =>
            channel'[x] = channel[x] /\ lastRead'[x] = lastRead[x]
  BY <1>5 DEF BusTypeOK
<1>7. /\ lastRead'[s] \in Nat
      /\ Len(channel'[s]) = Len(channel[s]) - 1
      /\ \A i \in 1 .. Len(channel'[s]) :
            i + 1 \in 1 .. Len(channel[s]) /\ channel'[s][i] = channel[s][i + 1]
  BY <1>1, <1>3, <1>4, <1>6
<1>8. BusTypeOK'
  <2>1. channel' \in [Subscribers -> Seq(Event)] /\ lastRead' \in [Subscribers -> Nat]
    BY <1>3, <1>5, <1>6, <1>7 DEF BusTypeOK
  <2>2. \A x \in Subscribers : Len(channel'[x]) <= capacity'[x]
    BY <1>1, <1>5, <1>6, <1>7 DEF BusTypeOK
  <2> QED
    BY <1>5, <2>1, <2>2 DEF BusTypeOK
<1>9. Registered' /\ HistoryIsTail'
  BY <1>5 DEF Registered, HistoryIsTail
<1>10. ASSUME NEW t \in Tasks, s \in subscribers[t]
       PROVE  Rising(t, s)' /\ (s \notin missed => Complete(t, s)')
  <2>1. Rising(t, s) /\ sequences[t] \in Nat
    BY <1>10 DEF DeliveryOrdered, BusTypeOK
  <2>2. ASSUME NEW i \in 1 .. Len(channel'[s])
        PROVE  /\ channel'[s][i].seq = channel[s][i + 1].seq
               /\ i + 1 \in 1 .. Len(channel[s])
               /\ 1 < i + 1
    BY <1>1, <1>7
  <2>3. ASSUME NEW i \in 1 .. Len(channel'[s])
        PROVE  /\ lastRead'[s] < channel'[s][i].seq
               /\ channel'[s][i].seq <= sequences[t]
               /\ s \in sending[t] => channel'[s][i].seq < sequences[t]
    BY <1>4, <1>6, <2>1, <2>2 DEF Rising
  <2>4. ASSUME NEW i \in 1 .. Len(channel'[s]), NEW j \in 1 .. Len(channel'[s]),
               i < j
        PROVE  channel'[s][i].seq < channel'[s][j].seq
    <3>1. i + 1 < j + 1
      BY <1>1, <1>7, <2>4
    <3> QED
      BY <2>1, <2>2, <3>1 DEF Rising
  <2>5. /\ lastRead'[s] <= sequences[t]
        /\ s \in sending[t] => lastRead'[s] < sequences[t]
    BY <1>4, <1>6, <2>1 DEF Rising
  <2>6. Rising(t, s)'
    BY <1>5, <2>3, <2>4, <2>5 DEF Rising
  <2>7. ASSUME s \notin missed
        PROVE  Complete(t, s)'
    <3>1. Complete(t, s)
      BY <1>10, <2>7 DEF NoGapNoDuplicate
    <3>2. lastRead'[s] = lastRead[s] + 1
      BY <1>4, <1>6, <3>1 DEF Complete
    <3>3. ASSUME NEW i \in 1 .. Len(channel'[s])
          PROVE  channel'[s][i].seq = lastRead'[s] + i
      <4>1. channel[s][i + 1].seq = lastRead[s] + (i + 1)
        BY <2>2, <3>1 DEF Complete
      <4>2. lastRead'[s] + i = lastRead[s] + (i + 1)
        <5>1. i \in Nat
          OBVIOUS
        <5> QED
          BY <1>1, <3>2, <5>1, Shift
      <4> QED
        BY <2>2, <4>1, <4>2
    <3>4. lastRead'[s] + Len(channel'[s]) = lastRead[s] + Len(channel[s])
      <4>1. /\ Len(channel'[s]) \in Nat
            /\ Len(channel[s]) = Len(channel'[s]) + 1
        BY <1>1, <1>4, <1>7
      <4> QED
        BY <1>1, <3>2, <4>1, Shift
    <3> QED
      BY <1>5, <3>1, <3>3, <3>4 DEF Complete
  <2> QED
    BY <2>6, <2>7
<1>11. ASSUME NEW u \in Tasks, NEW x \in subscribers[u]
       PROVE  Rising(u, x)' /\ (x \notin missed => Complete(u, x)')
  <2>1. CASE x = s
    BY <1>10, <1>11, <2>1
  <2>2. CASE x # s
    <3>1. x \in Subscribers
      BY <1>11 DEF BusTypeOK
    <3> QED
      BY <1>5, <1>6, <1>11, <2>2, <3>1, ChannelUntouched
         DEF DeliveryOrdered, NoGapNoDuplicate
  <2> QED
    BY <2>1, <2>2
<1>12. lastRead'[s] > lastRead[s]
  <2>1. Rising(q, s)
    BY DEF DeliveryOrdered
  <2> QED
    BY <1>1, <1>4, <1>6, <2>1 DEF Rising
<1> QED
  BY <1>5, <1>8, <1>9, <1>11, <1>12 DEF DeliveryOrdered, NoGapNoDuplicate

\* Who can read is registered.
LEMMA ReaderRegistered ==
    ASSUME BusInv, OpenRegistered, NEW s \in Subscribers, Receive(s)
    PROVE  \E t \in Tasks : s \in subscribers[t]
<1>1. /\ Len(channel[s]) \in Nat /\ Len(channel[s]) <= capacity[s] /\ capacity[s] \in Nat
      /\ channel[s] \in Seq(Event)
  BY ChannelTyped DEF BusInv
<1>2. channel[s] # <<>> /\ s \notin closed
  BY DEF Receive
<1>3. capacity[s] # 0
  BY <1>1, <1>2, EmptySeq
<1> QED
  BY <1>2, <1>3 DEF OpenRegistered

\* No operation leaves an open channel unregistered.
LEMMA OpenStep ==
    ASSUME BusInv, OpenRegistered, [BusNext]_busVars
    PROVE  OpenRegistered'
<1> USE DEF BusInv
<1>1. CASE UNCHANGED <<subscribers, capacity, closed>>
  BY <1>1 DEF OpenRegistered
<1>2. ASSUME NEW t \in Tasks, NEW s \in Subscribers, Subscribe(s, t)
      PROVE  OpenRegistered'
  <2>1. /\ subscribers'[t] = subscribers[t] \cup {s}
        /\ \A u \in Tasks : u # t => subscribers'[u] = subscribers[u]
        /\ \A x \in Subscribers : x # s => capacity'[x] = capacity[x]
        /\ closed' = closed
    BY <1>2 DEF Subscribe, BusTypeOK
  <2> QED
    BY <2>1 DEF OpenRegistered
<1>3. ASSUME NEW t \in Tasks, NEW s \in Subscribers, Unsubscribe(s, t)
      PROVE  OpenRegistered'
  <2>1. /\ subscribers'[t] = subscribers[t] \ {s}
        /\ \A u \in Tasks : u # t => subscribers'[u] = subscribers[u]
        /\ closed' = closed \cup {s} /\ capacity' = capacity
    BY <1>3 DEF Unsubscribe, BusTypeOK
  <2> QED
    BY <2>1 DEF OpenRegistered
<1> QED
  BY <1>1, <1>2, <1>3
     DEF BusNext, busVars, Publish, Deliver, Drop, SendOnClosed, Receive

-----------------------------------------------------------------------------
(* The theorems                                                            *)

\* The invariant is inductive: it holds at the start and every operation of
\* the bus keeps it.
THEOREM BusInvariant == BusSpec => [](BusInv /\ OpenRegistered)
<1>1. BusInit => BusInv /\ OpenRegistered
  <2> SUFFICES ASSUME BusInit
               PROVE  BusInv /\ OpenRegistered
    OBVIOUS
  <2>1. <<>> \in Seq(Event) /\ Len(<<>>) = 0
    BY EmptySeq
  <2>2. BusTypeOK
    BY <2>1 DEF BusInit, BusTypeOK
  <2>3. HistoryIsTail
    <3>1. 0 < HistoryLimit
      BY BusAssumption
    <3>2. ASSUME NEW t \in Tasks
          PROVE  history[t] = <<>> /\ sequences[t] = 0
      BY DEF BusInit
    <3>3. ASSUME NEW t \in Tasks
          PROVE  Len(history[t]) = 0
      BY <2>1, <3>2
    <3>4. ASSUME NEW t \in Tasks
          PROVE  /\ Len(history[t]) =
                       IF sequences[t] < HistoryLimit THEN sequences[t] ELSE HistoryLimit
                 /\ 1 .. Len(history[t]) = {}
      BY <3>1, <3>2, <3>3
    <3> QED
      BY <3>4 DEF HistoryIsTail
  <2>4. Registered /\ OpenRegistered /\ DeliveryOrdered /\ NoGapNoDuplicate
    BY DEF BusInit, Registered, OpenRegistered, DeliveryOrdered, NoGapNoDuplicate
  <2> QED
    BY <2>2, <2>3, <2>4 DEF BusInv
<1>2. BusInv /\ OpenRegistered /\ [BusNext]_busVars => (BusInv /\ OpenRegistered)'
  <2> SUFFICES ASSUME BusInv, OpenRegistered, [BusNext]_busVars
               PROVE  BusInv'
    BY OpenStep
  <2>1. ASSUME NEW t \in Tasks, NEW type \in EventTypes, Publish(t, type)
        PROVE  BusInv'
    BY <2>1, PublishStep
  <2>2. ASSUME NEW t \in Tasks, NEW s \in Subscribers, Deliver(t, s)
        PROVE  BusInv'
    BY <2>2, DeliverStep
  <2>3. ASSUME NEW t \in Tasks, NEW s \in Subscribers, Drop(t, s)
        PROVE  BusInv'
    BY <2>3, DropStep
  <2>4. ASSUME NEW t \in Tasks, NEW s \in Subscribers, SendOnClosed(t, s)
        PROVE  BusInv'
    BY <2>4, SendOnClosedStep
  <2>5. ASSUME NEW t \in Tasks, NEW s \in Subscribers, Subscribe(s, t)
        PROVE  BusInv'
    BY <2>5, SubscribeStep
  <2>6. ASSUME NEW t \in Tasks, NEW s \in Subscribers, Unsubscribe(s, t)
        PROVE  BusInv'
    BY <2>6, UnsubscribeStep
  <2>7. ASSUME NEW s \in Subscribers, Receive(s)
        PROVE  BusInv'
    BY <2>7, ReaderRegistered, ReceiveStep
  <2>8. CASE UNCHANGED busVars
    BY <2>8 DEF busVars, BusInv, BusTypeOK, Registered, HistoryIsTail,
                DeliveryOrdered, Rising, NoGapNoDuplicate, Complete
  <2> QED
    BY <2>1, <2>2, <2>3, <2>4, <2>5, <2>6, <2>7, <2>8 DEF BusNext
<1> QED
  BY <1>1, <1>2, PTL DEF BusSpec

\* Type correctness, and that Subscribe never fills a channel beyond its
\* capacity (it would block the whole bus, as it holds the mutex).
THEOREM BusTypeCorrect == BusSpec => []BusTypeOK
<1>1. BusInv => BusTypeOK
  BY DEF BusInv
<1> QED
  BY <1>1, BusInvariant, PTL

\* The history replayed to a late reader is exactly the newest events, at most
\* HistoryLimit of them (append and trim of Publish).
THEOREM HistoryCorrect == BusSpec => []HistoryIsTail
<1>1. BusInv => HistoryIsTail
  BY DEF BusInv
<1> QED
  BY <1>1, BusInvariant, PTL

\* A subscriber whose channel was never full has lost and repeated nothing,
\* however its Subscribe interleaved with a Publish.
THEOREM DeliveryComplete == BusSpec => []NoGapNoDuplicate
<1>1. BusInv => NoGapNoDuplicate
  BY DEF BusInv
<1> QED
  BY <1>1, BusInvariant, PTL

\* Every subscriber, a slow one included, gets rising sequence numbers.
THEOREM DeliveryInOrder == BusSpec => []DeliveryOrdered
<1>1. BusInv => DeliveryOrdered
  BY DEF BusInv
<1> QED
  BY <1>1, BusInvariant, PTL

\* Each read of a subscriber is of a newer event than the one before (the loop
\* of StreamPlan).
THEOREM ReadsAdvance == BusSpec => ReadsMoveForward
<1>1. BusInv /\ OpenRegistered /\ [BusNext]_busVars =>
         [\A s \in Subscribers : Receive(s) => lastRead'[s] > lastRead[s]]_busVars
  BY ReaderRegistered, ReceiveStep
<1> QED
  BY <1>1, BusInvariant, PTL DEF BusSpec, ReadsMoveForward
=============================================================================
