------------------------ MODULE OutboxDeliveryProofs ------------------------
(***************************************************************************)
(* What holds of OutboxDelivery for every number of events, workers, tries *)
(* and crashes: nothing is lost, the mechanism is the at-least-once        *)
(* channel of DispatchChannel, and a handler succeeds for an event at most *)
(* once per worker and once more per crash.                                *)
(***************************************************************************)
EXTENDS OutboxDelivery, TLAPS, WellFoundedInduction, SequenceTheorems, FiniteSetTheorems

-----------------------------------------------------------------------------
(* The inductive invariant *)

HasEntry(e) == \E i \in 1..Len(stream) : stream[i] = e

\* A row is stamped only when an entry of it is in the stream.
Copied ==
  /\ \A e \in Events : outbox[e] = "published" => HasEntry(e)
  /\ \A w \in Workers : unstamped[w] # 0 => HasEntry(unstamped[w])

\* What publishers, entries and handlers work on has been committed.
Committed ==
  /\ \A w \in Workers : \A e \in batch[w] : outbox[e] # "absent"
  /\ \A w \in Workers : unstamped[w] # 0 => outbox[unstamped[w]] # "absent"
  /\ \A i \in 1..Len(stream) : outbox[stream[i]] # "absent"
  /\ \A e \in Events : handled[e] > 0 => outbox[e] # "absent"

\* A dispatch under way has an entry.
HoldsEntry == \A w \in Workers : pc[w] # "next" => buffer[w] # {}

\* An acknowledgement is given for a recorded event ...
Recorded ==
  /\ \A w \in Workers : pc[w] = "ack" => Current(w) \in inbox
  /\ \A i \in 1..delivered : i \notin pending => stream[i] \in inbox

\* ... and an event is recorded when its handler has succeeded.
Performed ==
  /\ \A w \in Workers : pc[w] \in {"record", "ack"} => handled[Current(w)] > 0
  /\ \A e \in inbox : handled[e] > 0

IInv == TypeOK /\ Copied /\ Committed /\ HoldsEntry /\ Recorded /\ Performed

-----------------------------------------------------------------------------
(* Entries and their events *)

LEMMA LeastIn ==
  ASSUME NEW S, S \subseteq Nat, S # {}
  PROVE  Least(S) \in S
<1>1. \E x \in S : \A y \in S : ~ (<<y, x>> \in OpToRel(<, Nat))
      BY NatLessThanWellFounded, WFMin, Zenon
<1>2. \A x, y \in Nat : <<y, x>> \in OpToRel(<, Nat) <=> y < x
      BY DEF OpToRel
<1>3. \E x \in S : \A y \in S : ~ (y < x)
      BY <1>1, <1>2, Zenon
<1>4. \E x \in S : \A y \in S : x <= y
      BY <1>3
<1>. QED BY <1>4, Zenon DEF Least

LEMMA EntryTyped ==
  ASSUME TypeOK, NEW w \in Workers, buffer[w] # {}
  PROVE  /\ Entry(w) \in buffer[w]
         /\ Entry(w) \in 1..delivered
         /\ Entry(w) \in 1..Len(stream)
         /\ Current(w) \in Events
<1>1. buffer[w] \subseteq 1..delivered /\ delivered \in 0..Len(stream)
      BY DEF TypeOK
<1>2. Len(stream) \in Nat
      BY DEF TypeOK
<1>3. Entry(w) \in buffer[w]
      BY <1>1, <1>2, LeastIn DEF Entry
<1>4. Entry(w) \in 1..delivered /\ Entry(w) \in 1..Len(stream)
      BY <1>1, <1>2, <1>3
<1>. QED BY <1>3, <1>4 DEF Current, TypeOK

\* The other workers' entries stay what they are, also when the stream grows.
LEMMA OthersKeep ==
  ASSUME TypeOK, NEW v \in Workers, buffer[v] # {}, buffer'[v] = buffer[v],
         \/ stream' = stream
         \/ \E e \in Events : stream' = Append(stream, e)
  PROVE  Entry(v)' = Entry(v) /\ Current(v)' = Current(v)
<1>1. Entry(v)' = Entry(v)
      BY DEF Entry
<1>2. Entry(v) \in 1..Len(stream)
      BY EntryTyped
<1>3. stream'[Entry(v)] = stream[Entry(v)]
      BY <1>2, AppendProperties DEF TypeOK
<1>. QED BY <1>1, <1>3 DEF Current

-----------------------------------------------------------------------------
(* Type correctness *)

LEMMA InitTyped == Init => TypeOK
BY DEF Init, TypeOK

LEMMA PublisherTyped ==
  ASSUME TypeOK, NEW w \in Workers, PublisherNext(w)
  PROVE  TypeOK'
<1>. USE DeliveryAssumption
<1>1. CASE Select(w)
      BY <1>1 DEF TypeOK, Select, log, consumer, history
<1>2. CASE Publish(w)
  <2>. DEFINE e == Least(batch[w])
  <2>1. batch[w] \subseteq Events /\ batch[w] # {}
        BY <1>2 DEF TypeOK, Publish
  <2>2. e \in Events
        BY <2>1, LeastIn
  <2>3. stream' = Append(stream, e) /\ unstamped' = [unstamped EXCEPT ![w] = e]
        BY <1>2 DEF Publish
  <2>. HIDE DEF e
  <2>4. stream' \in Seq(Events) /\ Len(stream') = Len(stream) + 1
        BY <2>2, <2>3, AppendProperties DEF TypeOK
  <2>5. delivered' \in 0..Len(stream')
        BY <1>2, <2>4 DEF TypeOK, Publish
  <2>. QED BY <1>2, <2>2, <2>3, <2>4, <2>5 DEF TypeOK, Publish, consumer, history
<1>3. CASE Stamp(w)
      BY <1>3 DEF TypeOK, Stamp, consumer, history
<1>. QED BY <1>1, <1>2, <1>3 DEF PublisherNext

LEMMA ConsumerTyped ==
  ASSUME TypeOK, HoldsEntry, NEW w \in Workers, ConsumerNext(w)
  PROVE  TypeOK'
<1>. USE DEF TypeOK, log, publisher, history
<1>0. pc[w] # "next" => Current(w) \in Events /\ Entry(w) \in 1..delivered
      BY EntryTyped DEF HoldsEntry
<1>1. CASE Reclaim(w)
      BY <1>1 DEF Reclaim
<1>2. CASE Read(w)
  <2>. DEFINE new == {i \in 1..Len(stream) : i > delivered}
  <2>1. /\ buffer' = [buffer EXCEPT ![w] = new]
        /\ pending' = pending \union new
        /\ delivered' = Len(stream)
        BY <1>2 DEF Read
  <2>2. new \subseteq 1..delivered' /\ 1..delivered \subseteq 1..delivered' /\ delivered' \in 0..Len(stream)
        BY <2>1
  <2>. HIDE DEF new
  <2>. QED BY <1>2, <2>1, <2>2 DEF Read
<1>3. CASE Begin(w)
      BY <1>3 DEF Begin
<1>4. CASE SkipDuplicate(w)
      BY <1>4 DEF SkipDuplicate, XAck, Drop
<1>5. CASE HandlerSucceeds(w)
      BY <1>0, <1>5 DEF HandlerSucceeds
<1>6. CASE TryAgain(w)
      BY <1>6 DEF TryAgain
<1>7. CASE GiveUp(w)
      BY <1>7 DEF GiveUp, Drop
<1>8. CASE RecordProcessed(w)
      BY <1>0, <1>8 DEF RecordProcessed
<1>9. CASE Ack(w)
      BY <1>9 DEF Ack, XAck, Drop
<1>. QED BY <1>1, <1>2, <1>3, <1>4, <1>5, <1>6, <1>7, <1>8, <1>9 DEF ConsumerNext

LEMMA EnvironmentTyped ==
  ASSUME TypeOK,
         \/ \E e \in Events : Commit(e)
         \/ \E w \in Workers : Crash(w)
         \/ \E i \in pending : GrowStale(i)
         \/ UNCHANGED vars
  PROVE  TypeOK'
<1>1. ASSUME NEW e \in Events, Commit(e) PROVE TypeOK'
      BY <1>1 DEF TypeOK, Commit, publisher, consumer, history
<1>2. ASSUME NEW w \in Workers, Crash(w) PROVE TypeOK'
      BY <1>2 DEF TypeOK, Crash, log
<1>3. ASSUME NEW i \in pending, GrowStale(i) PROVE TypeOK'
      BY <1>3 DEF TypeOK, GrowStale, publisher, consumer, history
<1>4. CASE UNCHANGED vars
      BY <1>4 DEF TypeOK, vars
<1>. QED BY <1>1, <1>2, <1>3, <1>4

LEMMA HoldsEntryKept ==
  ASSUME TypeOK, HoldsEntry, [Next]_vars
  PROVE  HoldsEntry'
<1>. USE DEF TypeOK, HoldsEntry, log, publisher, consumer, history
<1>1. ASSUME NEW w \in Workers, ConsumerNext(w)
      PROVE  HoldsEntry'
  <2>1. CASE Reclaim(w)  BY <2>1 DEF Reclaim
  <2>2. CASE Read(w)  BY <2>2 DEF Read
  <2>3. CASE Begin(w)  BY <2>3 DEF Begin
  <2>4. CASE SkipDuplicate(w)  BY <2>4 DEF SkipDuplicate, Drop
  <2>5. CASE HandlerSucceeds(w)  BY <2>5 DEF HandlerSucceeds
  <2>6. CASE TryAgain(w)  BY <2>6 DEF TryAgain
  <2>7. CASE GiveUp(w)  BY <2>7 DEF GiveUp, Drop
  <2>8. CASE RecordProcessed(w)  BY <2>8 DEF RecordProcessed
  <2>9. CASE Ack(w)  BY <2>9 DEF Ack, Drop
  <2>. QED BY <1>1, <2>1, <2>2, <2>3, <2>4, <2>5, <2>6, <2>7, <2>8, <2>9 DEF ConsumerNext
<1>2. ASSUME NEW w \in Workers, PublisherNext(w)
      PROVE  HoldsEntry'
      BY <1>2 DEF PublisherNext, Select, Publish, Stamp
<1>3. ASSUME NEW w \in Workers, Crash(w)
      PROVE  HoldsEntry'
      BY <1>3 DEF Crash
<1>4. ASSUME NEW e \in Events, Commit(e)
      PROVE  HoldsEntry'
      BY <1>4 DEF Commit
<1>5. ASSUME NEW i \in pending, GrowStale(i)
      PROVE  HoldsEntry'
      BY <1>5 DEF GrowStale
<1>6. CASE UNCHANGED vars
      BY <1>6 DEF vars
<1>. QED BY <1>1, <1>2, <1>3, <1>4, <1>5, <1>6 DEF Next

\* Type correctness of the delivery model, whatever dies and fails.
THEOREM DeliveryTypeCorrect == Spec => []TypeOK
<1>1. Init => HoldsEntry
      BY DEF Init, HoldsEntry
<1>2. TypeOK /\ HoldsEntry /\ [Next]_vars => TypeOK' /\ HoldsEntry'
      BY PublisherTyped, ConsumerTyped, EnvironmentTyped, HoldsEntryKept DEF Next
<1>. QED BY InitTyped, <1>1, <1>2, PTL DEF Spec

-----------------------------------------------------------------------------
(* The parts of the invariant *)

LEMMA StreamGrows ==
  ASSUME TypeOK, [Next]_vars
  PROVE  \/ stream' = stream
         \/ \E e \in Events : stream' = Append(stream, e)
<1>1. ASSUME NEW w \in Workers, Publish(w)
      PROVE  \E e \in Events : stream' = Append(stream, e)
  <2>1. batch[w] \subseteq Nat /\ batch[w] # {} /\ batch[w] \subseteq Events
        BY <1>1, DeliveryAssumption DEF Publish, TypeOK
  <2>2. Least(batch[w]) \in Events
        BY <2>1, LeastIn
  <2>. QED BY <1>1, <2>2 DEF Publish
<1>. QED
      BY <1>1 DEF Next, vars, Commit, PublisherNext, Select, Stamp, ConsumerNext, Reclaim,
         Read, Begin, SkipDuplicate, HandlerSucceeds, TryAgain, GiveUp, RecordProcessed,
         Ack, Crash, GrowStale, log

LEMMA EntriesStay ==
  ASSUME TypeOK, [Next]_vars
  PROVE  /\ Len(stream) <= Len(stream)' /\ Len(stream) \in Nat /\ Len(stream)' \in Nat
         /\ \A i \in 1..Len(stream) : stream'[i] = stream[i]
         /\ \A e \in Events : HasEntry(e) => HasEntry(e)'
<1>1. /\ Len(stream) <= Len(stream)' /\ Len(stream) \in Nat /\ Len(stream)' \in Nat
      /\ \A i \in 1..Len(stream) : stream'[i] = stream[i]
  <2>1. CASE stream' = stream
        BY <2>1 DEF TypeOK
  <2>2. ASSUME NEW e \in Events, stream' = Append(stream, e)
        PROVE  /\ Len(stream)' = Len(stream) + 1
               /\ \A i \in 1..Len(stream) : stream'[i] = stream[i]
        BY <2>2, AppendProperties DEF TypeOK
  <2>3. Len(stream) \in Nat
        BY DEF TypeOK
  <2>. QED BY <2>1, <2>2, <2>3, StreamGrows
<1>. QED BY <1>1 DEF HasEntry

LEMMA CopiedKept ==
  ASSUME TypeOK, Copied, [Next]_vars
  PROVE  Copied'
<1>1. ASSUME NEW w \in Workers, Publish(w)
      PROVE  Copied'
  <2>. DEFINE e == Least(batch[w])
  <2>1. e \in Events
        BY <1>1, LeastIn, DeliveryAssumption DEF Publish, TypeOK
  <2>2. stream' = Append(stream, e)
        BY <1>1 DEF Publish
  <2>3. unstamped' = [unstamped EXCEPT ![w] = e] /\ outbox' = outbox
        BY <1>1 DEF Publish
  <2>. HIDE DEF e
  <2>4. \E i \in 1..Len(stream)' : stream'[i] = e
    <3>1. stream \in Seq(Events)
          BY DEF TypeOK
    <3>2. Len(stream)' = Len(stream) + 1 /\ Len(stream) \in Nat /\ stream'[Len(stream) + 1] = e
          BY <2>1, <2>2, <3>1, AppendProperties
    <3>. QED BY <3>2
  <2>5. ASSUME NEW v \in Workers
        PROVE  (unstamped[v] # 0 => HasEntry(unstamped[v]))'
    <3>1. CASE v = w
      <4>1. unstamped'[v] = e
            BY <2>3, <3>1 DEF TypeOK
      <4>. QED BY <2>4, <4>1 DEF HasEntry
    <3>2. CASE v # w
      <4>1. unstamped'[v] = unstamped[v] /\ unstamped[v] \in Events \union {0}
            BY <2>3, <3>2 DEF TypeOK
      <4>. QED BY <4>1, EntriesStay DEF HasEntry, Copied
    <3>. QED BY <3>1, <3>2
  <2>. QED BY <2>3, <2>5, EntriesStay DEF Copied
<1>2. ASSUME NEW w \in Workers, Stamp(w)
      PROVE  Copied'
      BY <1>2, EntriesStay DEF Copied, Stamp, TypeOK
<1>3. ASSUME NEW w \in Workers, Crash(w)
      PROVE  Copied'
      BY <1>3, EntriesStay DEF Copied, Crash, log, TypeOK
<1>4. ASSUME NEW e \in Events, Commit(e)
      PROVE  Copied'
      BY <1>4, EntriesStay DEF Copied, Commit, publisher, TypeOK
<1>5. CASE UNCHANGED <<outbox, unstamped>>
      BY <1>5, EntriesStay DEF Copied, TypeOK
<1>. QED
      BY <1>1, <1>2, <1>3, <1>4, <1>5
         DEF Next, vars, PublisherNext, Select, ConsumerNext, Reclaim, Read, Begin, SkipDuplicate,
             HandlerSucceeds, TryAgain, GiveUp, RecordProcessed, Ack, GrowStale, log, publisher

LEMMA CommittedKept ==
  ASSUME TypeOK, HoldsEntry, Committed, [Next]_vars
  PROVE  Committed'
<1>0. \A e \in Events : outbox[e] # "absent" => outbox'[e] # "absent"
      BY DEF TypeOK, Next, vars, Commit, PublisherNext, Select, Publish, Stamp, ConsumerNext,
             Reclaim, Read, Begin, SkipDuplicate, HandlerSucceeds, TryAgain, GiveUp,
             RecordProcessed, Ack, Crash, GrowStale, log
<1>1. ASSUME NEW w \in Workers, Publish(w)
      PROVE  Committed'
  <2>. DEFINE e == Least(batch[w])
  <2>1. e \in Events /\ e \in batch[w]
        BY <1>1, LeastIn, DeliveryAssumption DEF Publish, TypeOK
  <2>2. /\ stream' = Append(stream, e)
        /\ unstamped' = [unstamped EXCEPT ![w] = e]
        /\ outbox' = outbox /\ batch' = batch /\ handled' = handled
        BY <1>1 DEF Publish, history
  <2>3. outbox[e] # "absent"
        BY <2>1 DEF Committed
  <2>. HIDE DEF e
  <2>4. \A i \in 1..Len(stream)' : outbox[stream'[i]] # "absent"
    <3>1. Len(stream)' = Len(stream) + 1 /\ Len(stream) \in Nat
          BY <2>1, <2>2, AppendProperties DEF TypeOK
    <3>2. stream'[Len(stream) + 1] = e /\ \A i \in 1..Len(stream) : stream'[i] = stream[i]
          BY <2>1, <2>2, AppendProperties DEF TypeOK
    <3>. QED BY <2>3, <3>1, <3>2 DEF Committed
  <2>. QED BY <2>2, <2>3, <2>4 DEF Committed, TypeOK
<1>2. ASSUME NEW w \in Workers, Select(w)
      PROVE  Committed'
      BY <1>2 DEF Committed, Select, log, history, TypeOK
<1>3. ASSUME NEW w \in Workers, Stamp(w)
      PROVE  Committed'
  <2>1. /\ stream' = stream /\ handled' = handled
        /\ \A v \in Workers : /\ batch'[v] \subseteq batch[v] /\ batch[v] \subseteq Events
                              /\ unstamped'[v] # 0 => unstamped'[v] = unstamped[v]
        BY <1>3 DEF Stamp, history, TypeOK
  <2>. QED BY <1>0, <2>1 DEF Committed, TypeOK
<1>4. ASSUME NEW w \in Workers, HandlerSucceeds(w)
      PROVE  Committed'
  <2>1. Entry(w) \in 1..Len(stream) /\ Current(w) = stream[Entry(w)] /\ Current(w) \in Events
        BY <1>4, EntryTyped DEF HandlerSucceeds, HoldsEntry, Current
  <2>2. /\ handled' = [handled EXCEPT ![Current(w)] = @ + 1]
        /\ UNCHANGED <<outbox, stream, batch, unstamped>>
        BY <1>4 DEF HandlerSucceeds, log, publisher
  <2>3. outbox[Current(w)] # "absent"
        BY <2>1 DEF Committed
  <2>. QED BY <2>1, <2>2, <2>3 DEF Committed, TypeOK
<1>5. ASSUME NEW w \in Workers, Crash(w)
      PROVE  Committed'
      BY <1>5 DEF Committed, Crash, log, TypeOK
<1>6. ASSUME NEW e \in Events, Commit(e)
      PROVE  Committed'
      BY <1>0, <1>6 DEF Committed, Commit, publisher, history, TypeOK
<1>7. CASE UNCHANGED <<outbox, stream, batch, unstamped, handled>>
      BY <1>7 DEF Committed
<1>. QED
      BY <1>1, <1>2, <1>3, <1>4, <1>5, <1>6, <1>7
         DEF Next, vars, PublisherNext, ConsumerNext, Reclaim, Read, Begin, SkipDuplicate,
             TryAgain, GiveUp, RecordProcessed, Ack, GrowStale, log, publisher, history

\* A worker whose dispatch goes on, or is in the hands of a process that
\* takes no step, goes on with the same event.
LEMMA HandStays ==
  ASSUME TypeOK, HoldsEntry, [Next]_vars,
         NEW v \in Workers, pc[v] # "next", buffer'[v] = buffer[v]
  PROVE  Current(v)' = Current(v) /\ Current(v) \in Events
<1>1. buffer[v] # {}
      BY DEF HoldsEntry
<1>. QED BY <1>1, StreamGrows, OthersKeep, EntryTyped

\* The steps that leave the dispatches alone.
LEMMA DispatchesStay ==
  ASSUME \/ UNCHANGED vars
         \/ \E e \in Events : Commit(e)
         \/ \E w \in Workers : PublisherNext(w)
         \/ \E i \in pending : GrowStale(i)
  PROVE  UNCHANGED <<pc, buffer, inbox, pending, delivered, handled>>
BY DEF vars, Commit, PublisherNext, Select, Publish, Stamp, GrowStale, log, consumer, history

LEMMA RecordedKept ==
  ASSUME TypeOK, HoldsEntry, Recorded, [Next]_vars
  PROVE  Recorded'
<1>0. ASSUME UNCHANGED <<delivered, pending, inbox>>
      PROVE  \A i \in 1..delivered' : i \notin pending' => stream'[i] \in inbox'
  <2>1. delivered \in 0..Len(stream) /\ Len(stream) \in Nat
        BY DEF TypeOK
  <2>2. \A i \in 1..delivered : stream'[i] = stream[i]
        BY <2>1, EntriesStay
  <2>. QED BY <1>0, <2>2 DEF Recorded
<1>1. ASSUME UNCHANGED <<pc, buffer, inbox, pending, delivered, handled>>
      PROVE  Recorded'
  <2>1. ASSUME NEW v \in Workers, pc[v] = "ack"
        PROVE  Current(v)' \in inbox'
        BY <1>1, <2>1, HandStays DEF Recorded
  <2>. QED BY <1>0, <1>1, <2>1 DEF Recorded
<1>2. ASSUME NEW w \in Workers, ConsumerNext(w) \/ Crash(w)
      PROVE  Recorded'
  <2>1. ASSUME NEW v \in Workers, v # w, pc'[v] = "ack"
        PROVE  Current(v)' \in inbox'
    <3>1. pc'[v] = pc[v] /\ buffer'[v] = buffer[v] /\ inbox \subseteq inbox'
          BY <1>2, <2>1 DEF TypeOK, ConsumerNext, Reclaim, Read, Begin, SkipDuplicate,
             HandlerSucceeds, TryAgain, GiveUp, RecordProcessed, Ack, Crash, Drop, log
    <3>. QED BY <2>1, <3>1, HandStays DEF Recorded
  <2>2. ASSUME pc'[w] = "ack"
        PROVE  Current(w)' \in inbox'
    <3>1. RecordProcessed(w)
          BY <1>2, <2>2 DEF TypeOK, ConsumerNext, Reclaim, Read, Begin, SkipDuplicate,
             HandlerSucceeds, TryAgain, GiveUp, Ack, Crash, Drop
    <3>2. pc[w] # "next" /\ buffer' = buffer /\ inbox' = inbox \union {Current(w)}
          BY <3>1 DEF RecordProcessed
    <3>. QED BY <3>2, HandStays
  <2>3. \A i \in 1..delivered' : i \notin pending' => stream'[i] \in inbox'
    <3>1. CASE Read(w)
      <4>1. /\ pending' = pending \union {i \in 1..Len(stream) : i > delivered}
            /\ delivered' = Len(stream) /\ delivered \in 0..Len(stream)
            /\ stream' = stream /\ inbox' = inbox
            BY <3>1 DEF Read, TypeOK
      <4>. QED BY <4>1 DEF Recorded
    <3>2. CASE SkipDuplicate(w) \/ Ack(w)
      <4>1. pending' = pending \ {Entry(w)} /\ UNCHANGED <<delivered, stream, inbox>>
            BY <3>2 DEF SkipDuplicate, Ack, XAck
      <4>2. stream[Entry(w)] \in inbox
            BY <3>2 DEF SkipDuplicate, Ack, Recorded, Current
      <4>. QED BY <4>1, <4>2 DEF Recorded
    <3>3. CASE RecordProcessed(w)
          BY <3>3 DEF RecordProcessed, Recorded
    <3>4. CASE UNCHANGED <<delivered, pending, inbox>>
          BY <1>0, <3>4
    <3>. QED BY <1>2, <3>1, <3>2, <3>3, <3>4
             DEF ConsumerNext, Reclaim, Begin, HandlerSucceeds, TryAgain, GiveUp, Crash, log
  <2>. QED BY <2>1, <2>2, <2>3 DEF Recorded
<1>. QED BY <1>1, <1>2, DispatchesStay DEF Next

LEMMA PerformedKept ==
  ASSUME TypeOK, HoldsEntry, Performed, [Next]_vars
  PROVE  Performed'
<1>1. ASSUME UNCHANGED <<pc, buffer, inbox, pending, delivered, handled>>
      PROVE  Performed'
  <2>1. ASSUME NEW v \in Workers, pc[v] \in {"record", "ack"}
        PROVE  handled'[Current(v)'] > 0
        BY <1>1, <2>1, HandStays DEF Performed
  <2>. QED BY <1>1, <2>1 DEF Performed
<1>2. ASSUME NEW w \in Workers, ConsumerNext(w) \/ Crash(w)
      PROVE  Performed'
  <2>1. ASSUME pc[w] # "next"
        PROVE  Current(w) \in Events
        BY <2>1, EntryTyped DEF HoldsEntry
  <2>2. \A e \in Events : handled[e] \in Nat /\ (handled[e] > 0 => handled'[e] > 0)
    <3>1. CASE HandlerSucceeds(w)
      <4>1. handled' = [handled EXCEPT ![Current(w)] = @ + 1] /\ Current(w) \in Events
            BY <2>1, <3>1 DEF HandlerSucceeds
      <4>. QED BY <4>1 DEF TypeOK
    <3>2. CASE handled' = handled
          BY <3>2 DEF TypeOK
    <3>. QED
        BY <1>2, <3>1, <3>2 DEF ConsumerNext, Reclaim, Read, Begin, SkipDuplicate,
           TryAgain, GiveUp, RecordProcessed, Ack, Crash, history
  <2>3. ASSUME NEW v \in Workers, v # w, pc'[v] \in {"record", "ack"}
        PROVE  handled'[Current(v)'] > 0
    <3>1. pc'[v] = pc[v] /\ buffer'[v] = buffer[v]
          BY <1>2, <2>3 DEF TypeOK, ConsumerNext, Reclaim, Read, Begin, SkipDuplicate,
             HandlerSucceeds, TryAgain, GiveUp, RecordProcessed, Ack, Crash, Drop
    <3>. QED BY <2>2, <2>3, <3>1, HandStays DEF Performed
  <2>4. ASSUME pc'[w] \in {"record", "ack"}
        PROVE  handled'[Current(w)'] > 0
    <3>1. HandlerSucceeds(w) \/ RecordProcessed(w)
          BY <1>2, <2>4 DEF TypeOK, ConsumerNext, Reclaim, Read, Begin, SkipDuplicate,
             TryAgain, GiveUp, Ack, Crash, Drop
    <3>2. pc[w] # "next" /\ buffer' = buffer
          BY <3>1 DEF HandlerSucceeds, RecordProcessed
    <3>3. Current(w)' = Current(w) /\ Current(w) \in Events
          BY <3>2, HandStays
    <3>4. handled'[Current(w)] > 0
      <4>1. CASE HandlerSucceeds(w)
            BY <3>3, <4>1 DEF HandlerSucceeds, TypeOK
      <4>2. CASE RecordProcessed(w)
            BY <2>2, <3>3, <4>2 DEF RecordProcessed, Performed
      <4>. QED BY <3>1, <4>1, <4>2
    <3>. QED BY <3>3, <3>4
  <2>5. \A e \in inbox' : handled'[e] > 0
    <3>1. CASE RecordProcessed(w)
      <4>1. inbox' = inbox \union {Current(w)} /\ handled[Current(w)] > 0 /\ Current(w) \in Events
            BY <2>1, <3>1 DEF RecordProcessed, Performed
      <4>. QED BY <2>2, <4>1 DEF Performed, TypeOK
    <3>2. CASE inbox' = inbox
          BY <2>2, <3>2 DEF Performed, TypeOK
    <3>. QED BY <1>2, <3>1, <3>2
             DEF ConsumerNext, Reclaim, Read, Begin, SkipDuplicate, HandlerSucceeds, TryAgain,
                 GiveUp, Ack, Crash, log
  <2>. QED BY <2>3, <2>4, <2>5 DEF Performed
<1>. QED BY <1>1, <1>2, DispatchesStay DEF Next

-----------------------------------------------------------------------------
(* Nothing is lost *)

\* The inductive invariant.
THEOREM DeliveryInvariant == Spec => []IInv
<1>1. Init => IInv
      BY InitTyped, DeliveryAssumption
         DEF Init, IInv, Copied, Committed, HoldsEntry, Recorded, Performed, HasEntry
<1>2. IInv /\ [Next]_vars => TypeOK' /\ HoldsEntry'
      BY PublisherTyped, ConsumerTyped, EnvironmentTyped, HoldsEntryKept DEF Next, IInv
<1>3. IInv /\ [Next]_vars => IInv'
      BY <1>2, CopiedKept, CommittedKept, RecordedKept, PerformedKept DEF IInv
<1>. QED BY <1>1, <1>3, PTL DEF Spec

\* No committed event is lost between its commit and the inbox, however many
\* publishers, workers and crashes there are (outbox_publisher.py stamps after
\* it publishes, apps/worker acknowledges after it records).
THEOREM NothingIsLost == Spec => []NothingLost
<1>1. IInv => NothingLost
  <2>. SUFFICES ASSUME IInv, NEW e \in Events, outbox[e] # "absent", e \notin inbox
                PROVE  InTransit(e)
       BY DEF NothingLost
  <2>1. CASE outbox[e] = "committed"
        BY <2>1 DEF InTransit
  <2>2. CASE outbox[e] = "published"
    <3>1. PICK i \in 1..Len(stream) : stream[i] = e
          BY <2>2 DEF IInv, Copied, HasEntry
    <3>2. i > delivered \/ i \in pending
          BY <3>1 DEF IInv, Recorded, TypeOK
    <3>. QED BY <3>1, <3>2 DEF InTransit
  <2>. QED BY <2>1, <2>2 DEF IInv, TypeOK
<1>. QED BY <1>1, DeliveryInvariant, PTL

-----------------------------------------------------------------------------
(* The mechanism implements the channel *)

Emitted  == {e \in Events : outbox[e] # "absent"}
Open     == {e \in Events : outbox[e] # "absent" /\ (e \notin inbox \/ InHand(e))}
Achieved == {e \in Events : handled[e] > 0}

LEMMA InboxCommitted == IInv => \A e \in inbox : e \in Events /\ outbox[e] # "absent"
BY DEF IInv, TypeOK, Performed, Committed

LEMMA InHandOf ==
  ASSUME IInv, NEW w \in Workers, pc[w] \in {"handle", "record"}
  PROVE  InHand(Current(w)) /\ Current(w) \in Open
<1>1. InHand(Current(w))
      BY DEF InHand
<1>2. Entry(w) \in 1..Len(stream) /\ Current(w) = stream[Entry(w)] /\ Current(w) \in Events
      BY EntryTyped DEF IInv, HoldsEntry, Current
<1>3. outbox[Current(w)] # "absent"
      BY <1>2 DEF IInv, Committed
<1>. QED BY <1>1, <1>2, <1>3 DEF Open

\* A step that leaves every dispatch in the hands it was in.
LEMMA InHandStays ==
  ASSUME IInv, [Next]_vars, UNCHANGED <<pc, buffer>>, NEW e
  PROVE  InHand(e)' = InHand(e)
<1>1. \A v \in Workers : pc[v] \in {"handle", "record"} => Current(v)' = Current(v)
      BY HandStays DEF IInv
<1>. QED BY <1>1 DEF InHand

\* A step of w that lets its event go, or takes none.
LEMMA InHandLetGo ==
  ASSUME IInv, [Next]_vars, NEW w \in Workers,
         pc'[w] \notin {"handle", "record"},
         \A v \in Workers \ {w} : pc'[v] = pc[v] /\ buffer'[v] = buffer[v],
         NEW e
  PROVE  /\ InHand(e)' => InHand(e)
         /\ InHand(e) /\ ~ InHand(e)' => pc[w] \in {"handle", "record"} /\ Current(w) = e
<1>1. \A v \in Workers \ {w} : pc[v] \in {"handle", "record"} => Current(v)' = Current(v)
      BY HandStays DEF IInv
<1>. QED BY <1>1 DEF InHand

\* Letting an event go settles it when it is recorded, and is nothing otherwise.
LEMMA LetGoStep ==
  ASSUME IInv, IInv', [Next]_vars, NEW w \in Workers,
         pc'[w] \notin {"handle", "record"},
         \A v \in Workers \ {w} : pc'[v] = pc[v] /\ buffer'[v] = buffer[v],
         outbox' = outbox, handled' = handled,
         \/ inbox' = inbox
         \/ pc[w] = "record" /\ inbox' = inbox \union {Current(w)}
  PROVE  \/ \E e \in Open \intersect Achieved :
               Open' = Open \ {e} /\ Emitted' = Emitted /\ Achieved' = Achieved
         \/ UNCHANGED <<Emitted, Open, Achieved>>
<1>1. Emitted' = Emitted /\ Achieved' = Achieved
      BY DEF Emitted, Achieved
<1>2. \A f : InHand(f)' => InHand(f)
      BY InHandLetGo
<1>3. CASE pc[w] \notin {"handle", "record"}
  <2>1. inbox' = inbox /\ \A f : InHand(f)' <=> InHand(f)
        BY <1>3, InHandLetGo
  <2>. QED BY <1>1, <2>1 DEF Open
<1>4. CASE pc[w] \in {"handle", "record"}
  <2>. DEFINE e == Current(w)
  <2>1. e \in Open /\ e \in Events
        BY <1>4, InHandOf DEF Open
  <2>2. \A f : f # e => (InHand(f)' <=> InHand(f)) /\ (f \in inbox' <=> f \in inbox)
        BY InHandLetGo
  <2>3. \A f : f # e => (f \in Open' <=> f \in Open)
        BY <2>2 DEF Open
  <2>4. CASE e \in Open'
        BY <1>1, <2>1, <2>3, <2>4
  <2>5. CASE e \notin Open'
    <3>1. e \in inbox'
          BY <2>1, <2>5 DEF Open
    <3>2. e \in Achieved
          BY <2>1, <3>1 DEF Achieved, IInv, Performed
    <3>. QED BY <1>1, <2>1, <2>3, <2>5, <3>2
  <2>. QED BY <2>4, <2>5
<1>. QED BY <1>3, <1>4

\* Every step of the mechanism is a step of the channel, or none.
LEMMA ChannelStep ==
  ASSUME IInv, IInv', [Next]_vars
  PROVE  \/ \E e \in Events :
              \/ /\ e \notin Emitted
                 /\ Emitted' = Emitted \union {e}
                 /\ Open' = Open \union {e}
                 /\ Achieved' = Achieved
              \/ /\ e \in Open
                 /\ Achieved' = Achieved \union {e}
                 /\ Emitted' = Emitted /\ Open' = Open
              \/ /\ e \in Open \intersect Achieved
                 /\ Open' = Open \ {e}
                 /\ Emitted' = Emitted /\ Achieved' = Achieved
         \/ UNCHANGED <<Emitted, Open, Achieved>>
<1>1. ASSUME NEW e \in Events, Commit(e)
      PROVE  /\ e \notin Emitted
             /\ Emitted' = Emitted \union {e}
             /\ Open' = Open \union {e}
             /\ Achieved' = Achieved
  <2>1. /\ outbox[e] = "absent" /\ outbox' = [outbox EXCEPT ![e] = "committed"]
        /\ UNCHANGED <<pc, buffer, inbox, handled>>
        BY <1>1 DEF Commit, consumer, history
  <2>2. e \notin inbox
        BY <2>1, InboxCommitted
  <2>3. \A f \in Events : InHand(f)' = InHand(f)
        BY <2>1, InHandStays
  <2>. QED BY <2>1, <2>2, <2>3 DEF Emitted, Open, Achieved, IInv, TypeOK
<1>2. ASSUME NEW w \in Workers, PublisherNext(w)
      PROVE  UNCHANGED <<Emitted, Open, Achieved>>
  <2>1. UNCHANGED <<pc, buffer, inbox, handled>>
        BY <1>2, DispatchesStay
  <2>2. \A e \in Events : outbox'[e] # "absent" <=> outbox[e] # "absent"
        BY <1>2 DEF PublisherNext, Select, Publish, Stamp, IInv, TypeOK, Committed, log
  <2>3. \A f \in Events : InHand(f)' = InHand(f)
        BY <2>1, InHandStays
  <2>. QED BY <2>1, <2>2, <2>3 DEF Emitted, Open, Achieved
<1>3. CASE (\E i \in pending : GrowStale(i)) \/ UNCHANGED vars
  <2>1. UNCHANGED <<pc, buffer, inbox, handled>>
        BY <1>3, DispatchesStay
  <2>2. outbox' = outbox
        BY <1>3 DEF GrowStale, vars
  <2>3. \A f \in Events : InHand(f)' = InHand(f)
        BY <2>1, InHandStays
  <2>. QED BY <2>1, <2>2, <2>3 DEF Emitted, Open, Achieved
<1>4. ASSUME NEW w \in Workers, Crash(w) \/ ConsumerNext(w),
             pc'[w] \notin {"handle", "record"}
      PROVE  \/ \E e \in Open \intersect Achieved :
                   Open' = Open \ {e} /\ Emitted' = Emitted /\ Achieved' = Achieved
             \/ UNCHANGED <<Emitted, Open, Achieved>>
  <2>1. /\ outbox' = outbox /\ handled' = handled
        /\ \A v \in Workers \ {w} : pc'[v] = pc[v] /\ buffer'[v] = buffer[v]
        /\ \/ inbox' = inbox
           \/ pc[w] = "record" /\ inbox' = inbox \union {Current(w)}
        BY <1>4 DEF Crash, ConsumerNext, Reclaim, Read, Begin, SkipDuplicate, HandlerSucceeds,
           TryAgain, GiveUp, RecordProcessed, Ack, Drop, log, history, IInv, TypeOK
  <2>. QED BY <1>4, <2>1, LetGoStep
<1>5. ASSUME NEW w \in Workers, Begin(w)
      PROVE  UNCHANGED <<Emitted, Open, Achieved>>
  <2>1. /\ UNCHANGED <<outbox, stream, inbox, handled, buffer>>
        /\ pc' = [pc EXCEPT ![w] = "handle"]
        /\ buffer[w] # {} /\ Current(w) \notin inbox
        BY <1>5 DEF Begin, log, history
  <2>2. /\ Current(w) = stream[Entry(w)] /\ Entry(w) \in 1..Len(stream) /\ Current(w) \in Events
        BY <2>1, EntryTyped DEF IInv, Current
  <2>3. Current(w) \in Open
        BY <2>1, <2>2 DEF Open, IInv, Committed
  <2>4. \A v \in Workers : buffer[v] # {} => Current(v)' = Current(v)
        BY <2>1, OthersKeep DEF IInv
  <2>5. \A f : InHand(f)' <=> InHand(f) \/ f = Current(w)
        BY <2>1, <2>4 DEF InHand, IInv, TypeOK, HoldsEntry
  <2>. QED BY <2>1, <2>3, <2>5 DEF Emitted, Open, Achieved
<1>6. ASSUME NEW w \in Workers, HandlerSucceeds(w)
      PROVE  /\ Current(w) \in Open
             /\ Achieved' = Achieved \union {Current(w)}
             /\ Emitted' = Emitted /\ Open' = Open
  <2>1. /\ UNCHANGED <<outbox, inbox, buffer>>
        /\ pc[w] = "handle" /\ pc' = [pc EXCEPT ![w] = "record"]
        /\ handled' = [handled EXCEPT ![Current(w)] = @ + 1]
        BY <1>6 DEF HandlerSucceeds, log
  <2>2. Current(w) \in Open /\ Current(w) \in Events
        BY <2>1, InHandOf DEF Open
  <2>3. Achieved' = Achieved \union {Current(w)}
        BY <2>1, <2>2 DEF Achieved, IInv, TypeOK
  <2>4. \A v \in Workers : pc[v] # "next" => Current(v)' = Current(v)
        BY <2>1, HandStays DEF IInv
  <2>5. \A f : InHand(f)' <=> InHand(f)
        BY <2>1, <2>4 DEF InHand, IInv, TypeOK
  <2>. QED BY <2>1, <2>2, <2>3, <2>5 DEF Emitted, Open
<1>7. ASSUME NEW w \in Workers, TryAgain(w)
      PROVE  UNCHANGED <<Emitted, Open, Achieved>>
  <2>1. UNCHANGED <<outbox, pc, buffer, inbox, handled>>
        BY <1>7 DEF TryAgain, log
  <2>2. \A f \in Events : InHand(f)' = InHand(f)
        BY <2>1, InHandStays
  <2>. QED BY <2>1, <2>2 DEF Emitted, Open, Achieved
<1>8. ASSUME NEW w \in Workers, ConsumerNext(w), pc'[w] \in {"handle", "record"}
      PROVE  Begin(w) \/ HandlerSucceeds(w) \/ TryAgain(w)
      BY <1>8 DEF ConsumerNext, Reclaim, Read, SkipDuplicate, GiveUp, RecordProcessed, Ack,
         Drop, IInv, TypeOK
<1>9. ASSUME NEW w \in Workers, Crash(w)
      PROVE  pc'[w] \notin {"handle", "record"}
      BY <1>9 DEF Crash, IInv, TypeOK
<1>10. Open \subseteq Events
       BY DEF Open
<1>. QED BY <1>1, <1>2, <1>3, <1>4, <1>5, <1>6, <1>7, <1>8, <1>9, <1>10 DEF Next

\* Publisher, stream, pending list, retries and inbox together are the
\* at-least-once channel: only a committed event that is not settled is handed
\* to a handler, and it is not settled before its handler has succeeded.
THEOREM DeliveryImplementsChannel == Spec => ChannelHolds
<1>1. Init => Channel!ChannelInit
      BY DEF Init, Channel!ChannelInit
<1>2. IInv /\ IInv' /\ [Next]_vars => [Channel!ChannelNext]_Channel!channel
  <2>. SUFFICES ASSUME IInv, IInv', [Next]_vars
                PROVE  [Channel!ChannelNext]_Channel!channel
       OBVIOUS
  <2>. QED BY ChannelStep, Zenon
           DEF Emitted, Open, Achieved, Channel!ChannelNext, Channel!channel,
               Channel!EmitEvent, Channel!Perform, Channel!Settle
<1>. QED BY <1>1, <1>2, DeliveryInvariant, PTL DEF Spec, ChannelHolds, Channel!ChannelSpec

-----------------------------------------------------------------------------
(* How often a handler can succeed *)

Handling(e)  == {w \in Workers : pc[w] = "handle" /\ Current(w) = e}
Recording(e) == {w \in Workers : pc[w] = "record" /\ Current(w) = e}

\* Before an event is recorded, its handler has succeeded only for workers
\* that are about to record it or have died; afterwards only those that had
\* taken it up by then may still succeed.
EffectsOf(e) ==
  /\ e \notin inbox => handled[e] <= crashes + Cardinality(Recording(e))
  /\ e \in inbox =>
       handled[e] + Cardinality(Handling(e)) <= crashes + Cardinality(Workers)

\* What the counts are worth: no worker is in both places.
LEMMA Hands ==
  ASSUME IsFiniteSet(Workers), NEW e
  PROVE  /\ IsFiniteSet(Handling(e)) /\ IsFiniteSet(Recording(e))
         /\ Cardinality(Workers) \in Nat
         /\ Cardinality(Handling(e)) \in Nat /\ Cardinality(Recording(e)) \in Nat
         /\ Cardinality(Handling(e)) + Cardinality(Recording(e)) <= Cardinality(Workers)
<1>1. Handling(e) \in SUBSET Workers /\ Recording(e) \in SUBSET Workers
      BY DEF Handling, Recording
<1>2. IsFiniteSet(Handling(e)) /\ IsFiniteSet(Recording(e))
      BY <1>1, FS_Subset
<1>3. /\ Cardinality(Workers) \in Nat
      /\ Cardinality(Handling(e)) \in Nat /\ Cardinality(Recording(e)) \in Nat
      BY <1>2, FS_CardinalityType
<1>. DEFINE both == Handling(e) \union Recording(e)
<1>4. Handling(e) \intersect Recording(e) = {}
      BY DEF Handling, Recording
<1>5. Cardinality(both) = Cardinality(Handling(e)) + Cardinality(Recording(e)) - 0
      BY <1>2, <1>4, FS_Union, FS_EmptySet
<1>6. both \in SUBSET Workers
      BY <1>1
<1>7. Cardinality(both) <= Cardinality(Workers)
      BY <1>6, FS_Subset
<1>. HIDE DEF both
<1>. QED BY <1>2, <1>3, <1>5, <1>7

\* A step after which nobody new has the event in hand, and whoever was about
\* to record it still is, or has recorded it, or has died.
LEMMA EffectsStay ==
  ASSUME IsFiniteSet(Workers), TypeOK, TypeOK', NEW e \in Events, EffectsOf(e),
         handled' = handled,
         Handling(e)' \subseteq Handling(e) \/ e \notin inbox',
         inbox \subseteq inbox',
         \/ Recording(e)' = Recording(e) /\ (e \in inbox' => e \in inbox) /\ crashes' = crashes
         \/ e \in inbox' /\ Handling(e)' \subseteq Handling(e) /\ crashes' = crashes
         \/ \E w : Recording(e)' = Recording(e) \ {w} /\ inbox' = inbox /\ crashes' = crashes + 1
  PROVE  EffectsOf(e)'
<1>. DEFINE W == Cardinality(Workers)
            H == Cardinality(Handling(e))
            R == Cardinality(Recording(e))
            H2 == Cardinality(Handling(e)')
            R2 == Cardinality(Recording(e)')
<1>1. /\ W \in Nat /\ H \in Nat /\ R \in Nat /\ H + R <= W
      /\ IsFiniteSet(Handling(e)) /\ IsFiniteSet(Recording(e))
      BY Hands
<1>2. handled[e] \in Nat /\ crashes \in Nat /\ crashes' \in Nat
      BY DEF TypeOK
<1>3. Handling(e)' \subseteq Handling(e) => H2 \in Nat /\ H2 <= H
      BY <1>1, FS_Subset, FS_CardinalityType
<1>4. \A w : Recording(e)' = Recording(e) \ {w} => R2 \in Nat /\ R <= R2 + 1
  <2>. SUFFICES ASSUME NEW w, Recording(e)' = Recording(e) \ {w}
                PROVE  R2 \in Nat /\ R <= R2 + 1
       OBVIOUS
  <2>1. R2 = IF w \in Recording(e) THEN R - 1 ELSE R
        BY <1>1, FS_RemoveElement
  <2>2. IsFiniteSet(Recording(e)')
        BY <1>1, FS_RemoveElement
  <2>3. R2 \in Nat
        BY <2>2, FS_CardinalityType
  <2>. QED BY <1>1, <2>1, <2>3
<1>5. Recording(e)' = Recording(e) => R2 = R
      OBVIOUS
<1>6. EffectsOf(e) <=> /\ e \notin inbox => handled[e] <= crashes + R
                       /\ e \in inbox => handled[e] + H <= crashes + W
      BY DEF EffectsOf
<1>7. EffectsOf(e)' <=> /\ e \notin inbox' => handled'[e] <= crashes' + R2
                        /\ e \in inbox' => handled'[e] + H2 <= crashes' + W
      BY DEF EffectsOf
<1>. HIDE DEF W, H, R, H2, R2
<1>8. CASE e \notin inbox'
      BY <1>1, <1>2, <1>4, <1>5, <1>6, <1>7, <1>8
<1>9. CASE e \in inbox'
      BY <1>1, <1>2, <1>3, <1>6, <1>7, <1>9
<1>. QED BY <1>8, <1>9

\* A step of w leaves everybody else's event in hand.
LEMMA OthersInHand ==
  ASSUME IInv, [Next]_vars, NEW w \in Workers,
         \A v \in Workers \ {w} : pc'[v] = pc[v] /\ buffer'[v] = buffer[v],
         NEW e
  PROVE  /\ Handling(e)' \ {w} = Handling(e) \ {w}
         /\ Recording(e)' \ {w} = Recording(e) \ {w}
<1>1. \A v \in Workers \ {w} : pc[v] # "next" => Current(v)' = Current(v)
      BY HandStays DEF IInv
<1>. QED BY <1>1 DEF Handling, Recording

LEMMA EffectsKept ==
  ASSUME IsFiniteSet(Workers), IInv, IInv', [Next]_vars, NEW e \in Events, EffectsOf(e)
  PROVE  EffectsOf(e)'
<1>. USE DEF log, publisher, consumer, history
<1>0. TypeOK /\ TypeOK' /\ HoldsEntry
      BY DEF IInv
<1>1. ASSUME UNCHANGED <<pc, buffer, inbox, handled, crashes>> PROVE EffectsOf(e)'
  <2>1. \A v \in Workers : pc[v] # "next" => Current(v)' = Current(v)
        BY <1>1, HandStays DEF IInv
  <2>2. Handling(e)' = Handling(e) /\ Recording(e)' = Recording(e)
        BY <1>1, <2>1 DEF Handling, Recording
  <2>. QED BY <1>0, <1>1, <2>2, EffectsStay
<1>2. ASSUME \/ \E f \in Events : Commit(f)
             \/ \E w \in Workers : PublisherNext(w)
             \/ \E i \in pending : GrowStale(i)
             \/ UNCHANGED vars
      PROVE  EffectsOf(e)'
      BY <1>1, <1>2 DEF vars, Commit, PublisherNext, Select, Publish, Stamp, GrowStale
<1>3. ASSUME NEW w \in Workers, ConsumerNext(w) \/ Crash(w) PROVE EffectsOf(e)'
  <2>1. \A v \in Workers \ {w} : pc'[v] = pc[v] /\ buffer'[v] = buffer[v]
        BY <1>3 DEF ConsumerNext, Reclaim, Read, Begin, SkipDuplicate, HandlerSucceeds,
           TryAgain, GiveUp, RecordProcessed, Ack, Crash, Drop, IInv, TypeOK
  <2>2. /\ Handling(e)' \ {w} = Handling(e) \ {w}
        /\ Recording(e)' \ {w} = Recording(e) \ {w}
        BY <2>1, OthersInHand
  <2>3. pc[w] # "next" /\ buffer'[w] = buffer[w] => Current(w)' = Current(w)
        BY HandStays DEF IInv
  <2>4. ASSUME pc'[w] \notin {"handle", "record"}
        PROVE  Handling(e)' \subseteq Handling(e) /\ Recording(e)' = Recording(e) \ {w}
        BY <2>2, <2>4 DEF Handling, Recording
  <2>5. ASSUME pc[w] # "record" PROVE w \notin Recording(e)
        BY <2>5 DEF Recording
  <2>6. CASE Crash(w)
    <3>1. pc'[w] = "next" /\ crashes' = crashes + 1 /\ inbox' = inbox /\ handled' = handled
          BY <2>6 DEF Crash, IInv, TypeOK
    <3>. QED BY <1>0, <2>4, <3>1, EffectsStay
  <2>7. CASE Reclaim(w) \/ Read(w) \/ SkipDuplicate(w) \/ GiveUp(w) \/ Ack(w)
    <3>1. pc'[w] = "next" /\ pc[w] # "record" /\ UNCHANGED <<inbox, handled, crashes>>
          BY <2>7 DEF Reclaim, Read, SkipDuplicate, GiveUp, Ack, Drop, IInv, TypeOK
    <3>. QED BY <1>0, <2>4, <2>5, <3>1, EffectsStay
  <2>8. CASE TryAgain(w)
        BY <1>1, <2>8 DEF TryAgain
  <2>9. CASE Begin(w)
    <3>1. /\ pc'[w] = "handle" /\ pc[w] = "next" /\ UNCHANGED <<inbox, handled, crashes>>
          /\ buffer[w] # {} /\ buffer' = buffer /\ stream' = stream /\ Current(w) \notin inbox
          BY <2>9 DEF Begin, IInv, TypeOK
    <3>2. Current(w)' = Current(w)
          BY <1>0, <3>1, OthersKeep
    <3>3. Recording(e)' = Recording(e)
          BY <2>2, <3>1 DEF Recording
    <3>4. Handling(e)' \subseteq Handling(e) \/ e \notin inbox'
          BY <2>2, <3>1, <3>2 DEF Handling
    <3>. QED BY <1>0, <3>1, <3>3, <3>4, EffectsStay
  <2>10. CASE RecordProcessed(w)
    <3>1. /\ pc'[w] = "ack" /\ pc[w] = "record" /\ UNCHANGED <<handled, crashes>>
          /\ inbox' = inbox \union {Current(w)}
          BY <2>10 DEF RecordProcessed, IInv, TypeOK
    <3>2. Handling(e)' \subseteq Handling(e) /\ Recording(e)' = Recording(e) \ {w}
          BY <2>4, <3>1
    <3>3. CASE Current(w) = e
          BY <1>0, <3>1, <3>2, <3>3, EffectsStay
    <3>4. CASE Current(w) # e
      <4>1. w \notin Recording(e)
            BY <3>4 DEF Recording
      <4>. QED BY <1>0, <3>1, <3>2, <3>4, <4>1, EffectsStay
    <3>. QED BY <3>3, <3>4
  <2>11. CASE HandlerSucceeds(w)
    <3>1. /\ pc'[w] = "record" /\ pc[w] = "handle" /\ UNCHANGED <<inbox, crashes>>
          /\ handled' = [handled EXCEPT ![Current(w)] = @ + 1] /\ Current(w)' = Current(w)
          BY <2>3, <2>11 DEF HandlerSucceeds, IInv, TypeOK
    <3>2. CASE Current(w) # e
      <4>1. Handling(e)' = Handling(e) /\ Recording(e)' = Recording(e) /\ handled'[e] = handled[e]
            BY <2>2, <3>1, <3>2 DEF Handling, Recording, IInv, TypeOK
      <4>. QED BY <3>1, <4>1 DEF EffectsOf
    <3>3. CASE Current(w) = e
      <4>1. /\ w \in Handling(e) /\ Handling(e)' = Handling(e) \ {w}
            /\ w \notin Recording(e) /\ Recording(e)' = Recording(e) \union {w}
            BY <2>2, <3>1, <3>3 DEF Handling, Recording
      <4>2. handled'[e] = handled[e] + 1 /\ handled[e] \in Nat /\ crashes \in Nat
            BY <3>1, <3>3 DEF IInv, TypeOK
      <4>3. /\ Cardinality(Handling(e)') = Cardinality(Handling(e)) - 1
            /\ Cardinality(Recording(e)') = Cardinality(Recording(e)) + 1
        <5>1. IsFiniteSet(Handling(e)) /\ IsFiniteSet(Recording(e))
              BY Hands
        <5>2. Cardinality(Handling(e) \ {w}) = Cardinality(Handling(e)) - 1
              BY <4>1, <5>1, FS_RemoveElement
        <5>3. Cardinality(Recording(e) \union {w}) = Cardinality(Recording(e)) + 1
              BY <4>1, <5>1, FS_AddElement
        <5>. QED BY <4>1, <5>2, <5>3
      <4>4. /\ Cardinality(Handling(e)) \in Nat /\ Cardinality(Recording(e)) \in Nat
            /\ Cardinality(Workers) \in Nat
            BY Hands
      <4>5. EffectsOf(e)' <=>
              /\ e \notin inbox => handled'[e] <= crashes + Cardinality(Recording(e)')
              /\ e \in inbox =>
                   handled'[e] + Cardinality(Handling(e)') <= crashes + Cardinality(Workers)
            BY <3>1 DEF EffectsOf
      <4>. QED BY <4>2, <4>3, <4>4, <4>5 DEF EffectsOf
    <3>. QED BY <3>2, <3>3
  <2>. QED BY <1>3, <2>6, <2>7, <2>8, <2>9, <2>10, <2>11 DEF ConsumerNext
<1>. QED BY <1>2, <1>3 DEF Next

\* However often an event is published, delivered, claimed and retried, its handler succeeds at
\* most once per worker and once more for each crash: the inbox stops all the others.
THEOREM EffectsPerWorker ==
  ASSUME IsFiniteSet(Workers)
  PROVE  Spec => [](\A e \in Events : handled[e] <= Cardinality(Workers) + crashes)
<1>. DEFINE Effects == \A e \in Events : EffectsOf(e)
            Bound   == \A e \in Events : handled[e] <= Cardinality(Workers) + crashes
<1>1. Init => Effects
  <2>. SUFFICES ASSUME Init, NEW e \in Events PROVE EffectsOf(e)
       OBVIOUS
  <2>1. handled[e] = 0 /\ crashes = 0 /\ inbox = {}
        BY DEF Init
  <2>2. Cardinality(Recording(e)) \in Nat
        BY Hands
  <2>. QED BY <2>1, <2>2 DEF EffectsOf
<1>2. IInv /\ IInv' /\ Effects /\ [Next]_vars => Effects'
      BY EffectsKept
<1>3. IInv /\ Effects => Bound
  <2>. SUFFICES ASSUME IInv, NEW e \in Events, EffectsOf(e)
                PROVE  handled[e] <= Cardinality(Workers) + crashes
       OBVIOUS
  <2>1. /\ Cardinality(Workers) \in Nat
        /\ Cardinality(Handling(e)) \in Nat /\ Cardinality(Recording(e)) \in Nat
        /\ Cardinality(Handling(e)) + Cardinality(Recording(e)) <= Cardinality(Workers)
        BY Hands
  <2>2. handled[e] \in Nat /\ crashes \in Nat
        BY DEF IInv, TypeOK
  <2>. QED BY <2>1, <2>2 DEF EffectsOf
<1>. HIDE DEF Effects, Bound
<1>4. Spec => []Bound
      BY <1>1, <1>2, <1>3, DeliveryInvariant, PTL DEF Spec
<1>. QED BY <1>4 DEF Bound

\* With one worker: once, and once more for each crash (EffectsBounded).
THEOREM EffectsAreBounded ==
  ASSUME NEW w, Workers = {w} PROVE Spec => []EffectsBounded
<1>1. IsFiniteSet(Workers) /\ Cardinality(Workers) = 1
      BY FS_Singleton
<1>2. (\A e \in Events : handled[e] <= Cardinality(Workers) + crashes) => EffectsBounded
      BY <1>1 DEF EffectsBounded
<1>. QED BY <1>1, <1>2, EffectsPerWorker, PTL
=============================================================================
