--------------------------- MODULE OutboxDelivery ---------------------------
(***************************************************************************)
(* The way of an event from the transaction that commits it to its         *)
(* handler: the outbox row, the publisher that copies it to a stream, the  *)
(* consumer group with its pending entries list, the dispatch loop of a    *)
(* worker with its retries, and the inbox that recognises duplicates.      *)
(*                                                                         *)
(* One stream and its workers.  A worker process runs a publisher and a    *)
(* consumer as two tasks of one event loop, and loses both when it dies.   *)
(* All workers use the same consumer name, so the pending list has no      *)
(* owners.                                                                 *)
(*                                                                         *)
(* Abstracted: the contents of events; the batch sizes of the publisher    *)
(* (100) and the consumer (10) with the claim cursor, so that a fetch      *)
(* takes all there is; the clock, of which is left that a pending entry    *)
(* may at any time have been idle for longer than _STALE_PENDING_MS.       *)
(***************************************************************************)
EXTENDS Naturals, Sequences, FiniteSets

CONSTANTS
  Events,      \* the rows of the outbox, numbered by occurred_at
  Workers,
  MaxAttempts, \* tries per delivery: 5 in apps/worker, 3 in apps/stt_worker
  MaxCrashes,  \* bound: worker processes that die
  MaxFailures  \* bound: handler calls that raise

ASSUME DeliveryAssumption ==
  /\ Events \subseteq Nat \ {0}
  /\ MaxAttempts \in Nat \ {0}
  /\ MaxCrashes \in Nat
  /\ MaxFailures \in Nat

VARIABLES
  outbox,    \* per event: not committed, committed, or stamped published_at
  stream,    \* the events of the entries, in order; entries are numbered
  delivered, \* the group's last-delivered-id
  pending,   \* entries delivered and not acknowledged
  stale,     \* pending entries idle for longer than _STALE_PENDING_MS
  inbox,     \* events recorded as processed
  batch,     \* per worker: rows selected by its publisher, still to publish
  unstamped, \* per worker: the row published and not yet stamped, or 0
  turn,      \* per worker: which of the two fetches comes next
  buffer,    \* per worker: entries fetched and not yet dispatched
  pc,        \* per worker: where the dispatch of the current entry is
  attempt,   \* per worker: failed tries of the current delivery
  handled,   \* per event: times its handler succeeded
  crashes, failures

log       == <<outbox, stream, delivered, pending, stale, inbox>>
publisher == <<batch, unstamped>>
consumer  == <<turn, buffer, pc, attempt>>
history   == <<handled, crashes, failures>>
vars == <<outbox, stream, delivered, pending, stale, inbox, batch, unstamped,
          turn, buffer, pc, attempt, handled, crashes, failures>>

Init ==
  /\ outbox = [e \in Events |-> "absent"]
  /\ stream = <<>>
  /\ delivered = 0
  /\ pending = {}
  /\ stale = {}
  /\ inbox = {}
  /\ batch = [w \in Workers |-> {}]
  /\ unstamped = [w \in Workers |-> 0]
  /\ turn = [w \in Workers |-> "reclaim"]
  /\ buffer = [w \in Workers |-> {}]
  /\ pc = [w \in Workers |-> "next"]
  /\ attempt = [w \in Workers |-> 0]
  /\ handled = [e \in Events |-> 0]
  /\ crashes = 0
  /\ failures = 0

Least(S) == CHOOSE x \in S : \A y \in S : x <= y

\* A unit of work writes its events with the rows they are about.
Commit(e) ==
  /\ outbox[e] = "absent"
  /\ outbox' = [outbox EXCEPT ![e] = "committed"]
  /\ UNCHANGED <<stream, delivered, pending, stale, inbox, publisher, consumer, history>>

-----------------------------------------------------------------------------
(* Publisher *)

Select(w) ==
  LET rows == {e \in Events : outbox[e] = "committed"} IN
  /\ batch[w] = {} /\ rows # {}
  /\ batch' = [batch EXCEPT ![w] = rows]
  /\ UNCHANGED <<log, unstamped, consumer, history>>

Publish(w) ==
  LET e == Least(batch[w]) IN
  /\ batch[w] # {} /\ unstamped[w] = 0
  /\ stream' = Append(stream, e)
  /\ unstamped' = [unstamped EXCEPT ![w] = e]
  /\ UNCHANGED <<outbox, delivered, pending, stale, inbox, batch, consumer, history>>

Stamp(w) ==
  LET e == unstamped[w] IN
  /\ e # 0
  /\ outbox' = [outbox EXCEPT ![e] = "published"]
  /\ batch' = [batch EXCEPT ![w] = @ \ {e}]
  /\ unstamped' = [unstamped EXCEPT ![w] = 0]
  /\ UNCHANGED <<stream, delivered, pending, stale, inbox, consumer, history>>

-----------------------------------------------------------------------------
(* Consumer *)

\* Mutant: entries left behind by a dead worker are not claimed.
ReclaimNothing(w) ==
  /\ pc[w] = "next" /\ buffer[w] = {} /\ turn[w] = "reclaim"
  /\ turn' = [turn EXCEPT ![w] = "read"]
  /\ UNCHANGED <<log, buffer, pc, attempt, publisher, history>>

\* XAUTOCLAIM: every stale entry, whoever had it; claiming restarts its idle
\* time.
Reclaim(w) ==
  /\ pc[w] = "next" /\ buffer[w] = {} /\ turn[w] = "reclaim"
  /\ buffer' = [buffer EXCEPT ![w] = stale]
  /\ stale' = {}
  /\ turn' = [turn EXCEPT ![w] = "read"]
  /\ UNCHANGED <<outbox, stream, delivered, pending, inbox, pc, attempt, publisher, history>>

\* Mutant: the last-delivered-id is one too far.
ReadAhead(w) ==
  LET new == {i \in 1..Len(stream) : i > delivered} IN
  /\ pc[w] = "next" /\ buffer[w] = {} /\ turn[w] = "read"
  /\ buffer' = [buffer EXCEPT ![w] = new]
  /\ pending' = pending \union new
  /\ delivered' = Len(stream) + 1
  /\ turn' = [turn EXCEPT ![w] = "reclaim"]
  /\ UNCHANGED <<outbox, stream, stale, inbox, pc, attempt, publisher, history>>

\* XREADGROUP ">": the entries nobody has been given.
Read(w) ==
  LET new == {i \in 1..Len(stream) : i > delivered} IN
  /\ pc[w] = "next" /\ buffer[w] = {} /\ turn[w] = "read"
  /\ buffer' = [buffer EXCEPT ![w] = new]
  /\ pending' = pending \union new
  /\ delivered' = Len(stream)
  /\ turn' = [turn EXCEPT ![w] = "reclaim"]
  /\ UNCHANGED <<outbox, stream, stale, inbox, pc, attempt, publisher, history>>

\* The entry w dispatches and its event.
Entry(w)   == Least(buffer[w])
Current(w) == stream[Entry(w)]

\* Mutant: a delivery is started without a look at the inbox.
BeginAnyway(w) ==
  /\ pc[w] = "next" /\ buffer[w] # {}
  /\ pc' = [pc EXCEPT ![w] = "handle"]
  /\ UNCHANGED <<log, turn, buffer, attempt, publisher, history>>

Begin(w) ==
  /\ pc[w] = "next" /\ buffer[w] # {}
  /\ Current(w) \notin inbox
  /\ pc' = [pc EXCEPT ![w] = "handle"]
  /\ UNCHANGED <<log, turn, buffer, attempt, publisher, history>>

\* The current entry is done with, acknowledged or not.
Drop(w) ==
  /\ buffer' = [buffer EXCEPT ![w] = @ \ {Entry(w)}]
  /\ pc' = [pc EXCEPT ![w] = "next"]
  /\ attempt' = [attempt EXCEPT ![w] = 0]

XAck(w) ==
  /\ pending' = pending \ {Entry(w)}
  /\ stale' = stale \ {Entry(w)}

SkipDuplicate(w) ==
  /\ pc[w] = "next" /\ buffer[w] # {}
  /\ Current(w) \in inbox
  /\ XAck(w) /\ Drop(w)
  /\ UNCHANGED <<outbox, stream, delivered, inbox, turn, publisher, history>>

HandlerSucceeds(w) ==
  /\ pc[w] = "handle"
  /\ handled' = [handled EXCEPT ![Current(w)] = @ + 1]
  /\ pc' = [pc EXCEPT ![w] = "record"]
  /\ UNCHANGED <<log, turn, buffer, attempt, publisher, crashes, failures>>

\* The handler raised and is tried again after a pause ...
TryAgain(w) ==
  /\ pc[w] = "handle"
  /\ attempt[w] + 1 < MaxAttempts
  /\ failures < MaxFailures
  /\ failures' = failures + 1
  /\ attempt' = [attempt EXCEPT ![w] = @ + 1]
  /\ UNCHANGED <<log, turn, buffer, pc, publisher, handled, crashes>>

\* ... until its tries are used up; the entry stays pending.
GiveUp(w) ==
  /\ pc[w] = "handle"
  /\ attempt[w] + 1 >= MaxAttempts
  /\ failures < MaxFailures
  /\ failures' = failures + 1
  /\ Drop(w)
  /\ UNCHANGED <<log, turn, publisher, handled, crashes>>

\* Mutant: an event is acknowledged although it was never recorded.
AckUnrecorded(w) ==
  /\ pc[w] = "record"
  /\ pc' = [pc EXCEPT ![w] = "ack"]
  /\ UNCHANGED <<log, turn, buffer, attempt, publisher, history>>

RecordProcessed(w) ==
  /\ pc[w] = "record"
  /\ inbox' = inbox \union {Current(w)}
  /\ pc' = [pc EXCEPT ![w] = "ack"]
  /\ UNCHANGED <<outbox, stream, delivered, pending, stale, turn, buffer, attempt,
                 publisher, history>>

Ack(w) ==
  /\ pc[w] = "ack"
  /\ XAck(w) /\ Drop(w)
  /\ UNCHANGED <<outbox, stream, delivered, inbox, turn, publisher, history>>

-----------------------------------------------------------------------------
\* Time passes: a pending entry has been idle for too long.
GrowStale(i) ==
  /\ i \in pending \ stale
  /\ stale' = stale \union {i}
  /\ UNCHANGED <<outbox, stream, delivered, pending, inbox, publisher, consumer, history>>

\* A worker process dies, of an error outside the handler too (Redis or
\* Postgres away in the loop), and starts again with nothing in memory.
Crash(w) ==
  /\ crashes < MaxCrashes
  /\ crashes' = crashes + 1
  /\ batch' = [batch EXCEPT ![w] = {}]
  /\ unstamped' = [unstamped EXCEPT ![w] = 0]
  /\ turn' = [turn EXCEPT ![w] = "reclaim"]
  /\ buffer' = [buffer EXCEPT ![w] = {}]
  /\ pc' = [pc EXCEPT ![w] = "next"]
  /\ attempt' = [attempt EXCEPT ![w] = 0]
  /\ UNCHANGED <<log, handled, failures>>

PublisherNext(w) == Select(w) \/ Publish(w) \/ Stamp(w)

ConsumerNext(w) ==
  \/ Reclaim(w) \/ Read(w)
  \/ Begin(w) \/ SkipDuplicate(w)
  \/ HandlerSucceeds(w) \/ TryAgain(w) \/ GiveUp(w)
  \/ RecordProcessed(w) \/ Ack(w)

Next ==
  \/ \E e \in Events : Commit(e)
  \/ \E w \in Workers : PublisherNext(w) \/ ConsumerNext(w) \/ Crash(w)
  \/ \E i \in pending : GrowStale(i)

Spec == Init /\ [][Next]_vars

\* The two loops of a worker run for ever, restarted by the container's
\* restart policy, and time passes.  Nothing obliges anybody to commit an
\* event, to raise or to crash.
Fairness ==
  /\ \A w \in Workers : WF_vars(PublisherNext(w)) /\ WF_vars(ConsumerNext(w))
  /\ WF_vars(\E i \in pending : GrowStale(i))

FairSpec == Spec /\ Fairness

-----------------------------------------------------------------------------
TypeOK ==
  /\ outbox \in [Events -> {"absent", "committed", "published"}]
  /\ stream \in Seq(Events)
  /\ delivered \in 0..Len(stream)
  /\ pending \subseteq 1..delivered
  /\ stale \subseteq pending
  /\ inbox \subseteq Events
  /\ batch \in [Workers -> SUBSET Events]
  /\ unstamped \in [Workers -> Events \union {0}]
  /\ turn \in [Workers -> {"reclaim", "read"}]
  /\ buffer \in [Workers -> SUBSET (1..delivered)]
  /\ pc \in [Workers -> {"next", "handle", "record", "ack"}]
  /\ attempt \in [Workers -> Nat]
  /\ handled \in [Events -> Nat]
  /\ crashes \in Nat
  /\ failures \in Nat

\* No committed event is lost, whatever dies when: until it is recorded as
\* processed, its row is still to be published or an entry of it is still to
\* be delivered or pending (outbox_publisher.py stamps after publishing,
\* __main__.py acknowledges after recording).
InTransit(e) ==
  \/ outbox[e] = "committed"
  \/ \E i \in 1..Len(stream) : stream[i] = e /\ (i > delivered \/ i \in pending)

NothingLost ==
  \A e \in Events : outbox[e] # "absent" /\ e \notin inbox => InTransit(e)

\* One worker process, whose loop dispatches one entry at a time: the handler
\* of an event succeeds once, and once more for each crash at worst (between
\* the handler and the inbox).  Duplicate entries of an event add nothing.
EffectsBounded == \A e \in Events : handled[e] <= 1 + crashes

\* The events in a worker's hands count as open until it lets them go, even
\* if another worker has recorded them meanwhile.
InHand(e) == \E w \in Workers : pc[w] \in {"handle", "record"} /\ Current(w) = e

Channel ==
  INSTANCE DispatchChannel WITH
    Event     <- Events,
    emitted   <- {e \in Events : outbox[e] # "absent"},
    open      <- {e \in Events : outbox[e] # "absent" /\ (e \notin inbox \/ InHand(e))},
    performed <- {e \in Events : handled[e] > 0}

\* The mechanism is an at-least-once channel.
ChannelHolds == Channel!ChannelSpec

\* Every committed event is processed in the end, crashes, duplicates and
\* failing handlers notwithstanding.
EveryEventProcessed ==
  \A e \in Events : outbox[e] # "absent" ~> e \in inbox
=============================================================================
