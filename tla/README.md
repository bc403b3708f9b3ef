# A TLA+ model of actix-mqtt-client

`actix-mqtt-client` is an MQTT 3.1.1 client whose parts are actix actors. All
actors run on one arbiter, so a handler is atomic; everything that makes the
client hard happens between handlers: messages wait in bounded mailboxes, tasks
wait for answers and timers, packets are dropped and handled again, and actors
stop while others still talk to them. The modules here model those steps, TLC
checks them on small instances, and TLAPS proves what holds for all instances.
Paths are relative to the crate's `src/`.

## 1. Inventory

| Component | Source | State | Operations |
|---|---|---|---|
| Actor messaging | `actors/mod.rs`, `actors/macros.rs`, `actions/stop.rs` | mailboxes, which actors live, delayed resends | do_send, try_send (Closed / Full), resend, StopMessage to all |
| Packet status | `actions/status.rs`, `packets/mod.rs`, `packets/macros.rs` | `packet_status_map` by identifier, timers, tasks that wait | set, remove, get and remove, exists, report to DisconnectActor, status check after COMMAND_TIMEOUT |
| Transport | `actions/send.rs`, `recv.rs`, `dispatch.rs` | writer's buffer, stream | write, parse, dispatch by type, read and write errors |
| Packet identifiers | `actors/utils.rs` | a static counter | `next_id` |
| Publishing | `packets/publish.rs`, `puback.rs`, `pubrec.rs`, `pubcomp.rs` | retry counts in messages | publish with QoS 0, 1, 2; PUBACK; PUBREC -> PUBREL; PUBCOMP |
| Receiving | `packets/publish.rs`, `pubrel.rs` | retry counts in messages, tasks | deliver with QoS 0, 1, 2; PUBREL -> PUBCOMP |
| Disconnecting | `packets/disconnect.rs`, `client.rs` | `packet_send_finished`, `pending_disconnect`, the client's addresses | disconnect(force), is_disconnected |
| Connecting | `packets/connect.rs`, `connack.rs` | connect status map (0 connecting, 1 connected), the timeout | connect, CONNACK, timeout, is_connected |
| Keeping alive | `packets/pingreq.rs`, `pingresp.rs` | ping status map, tasks | interval, the two questions, ping, answer |
| Subscribing | `packets/subscribe.rs`, `suback.rs`, `unsubscribe.rs`, `unsuback.rs` | two status maps | subscribe, unsubscribe |
| Client | `client.rs` | addresses | wires the actors, offers the calls |

How they interact. A call of the client is a message to one actor. That actor
sets a status, sends the packet to SendActor and starts a timer. RecvActor
parses what the server sends, DispatchActor hands it to the actor of its type,
and that actor removes or replaces the status and may answer. When the timer
ends a task asks the status actor for the status, which also removes it; if it
is still there the original message is handled again. There are five status
actors (for PUBLISH in both directions, SUBSCRIBE, UNSUBSCRIBE, connecting and
pinging); the one for PUBLISH reports to DisconnectActor, after every operation,
whether its map is empty. A send that fails because the target has stopped makes
the StopActor stop everybody; a send that fails because a mailbox is full is
repeated after RESEND_DELAY, or the message is lost, depending on the place.

What makes it correct:

- publishing: one retry chain per message, a bound on transmissions, none after
  the answer, no answer credited to the wrong message, and at QoS 2 one
  message for the server;
- subscribing: the same bound and the same silence after the answer, and no
  request settled by another one;
- both directions at once: what one side does to the statuses the sides share
  hurts the other only where both use the same identifier;
- connecting: it always has an outcome, and the timeout stops no client that was
  answered in time;
- keeping alive: no ping before the connection is accepted, as many as the
  intervals account for, none forgotten;
- receiving: a PUBLISH handled again is not delivered again, a message of QoS 2
  is not answered before it is delivered, exchanges end, and at QoS 2 one
  message for the application;
- packet status: every status is removed in the end;
- disconnecting: a graceful disconnection waits while the status actor reports
  pending packets (which is less than all that is pending, see section 3), is
  never forgotten and completes;
- stopping: all actors stop, those the StopActor does not know too, and nobody
  waits for one that has stopped;
- packet identifiers: what an answer settles was answered, and where the
  counter repeats an identifier, no other identifier is affected.

The hazards, each at its line, are in `PROJECT.json`.

## 2. Modules

```
Actors            mailboxes, sends, resend, StopActor
 |- PacketStatus  status map, reports, status checks, the packet actor macros
 |   |- Identifiers   next_id
 |- Transport     SendActor, RecvActor, DispatchActor, the connection
     Session      PacketStatus + Transport: everything in the background
      |- OutgoingPublish   SendPublishActor, Puback-, Pubrec-, PubcompActor
      |- IncomingPublish   RecvPublishActor, PubrelActor
      |    |- PublishBoth    both over one status actor (instances of the two)
      |- Command           SubscribeActor and SubackActor, or the Unsub... pair
      |- Connecting        connect(), ConnectActor, ConnackActor
      |    |- KeepAlive      PingreqActor and PingrespActor, over Connecting
      |- Disconnect        DisconnectActor, disconnect(), is_disconnected()
           Closing         OutgoingPublish + Disconnect: publish, then disconnect

Retransmission    abstract: what the client promises of a request;
                  implemented by OutgoingPublish and by Command

Session_proofs    types of everything in the background, for every exchange
 |- Chain_proofs  following a message and an identifier from step to step, counting
     |- OutgoingPublish_proofs
     |    |- PublishAnswers_proofs
     |    |- Closing_proofs
     |- IncomingPublish_proofs
     |- Command_proofs
     |- KeepAlive_proofs
```

`MCOutgoing`, `MCIncoming`, `MCPublishBoth`, `MCCommand`, `MCKeepAlive` and
`MCClosing` give the constants their values.

**Actors.** `mbox[a]` is actor a's mailbox in order, `alive` the actors that
have not stopped. `Closed`, `Full` and `Accepts` are the three outcomes of
`try_send`; `Post` is `do_send`, which ignores the capacity. A handler takes the
head of a mailbox (`Take`) and builds the next mailboxes in the order of its
sends. `resends` is a bag: two identical messages may be on their way at once.
The StopActor passes the first StopMessage on and stops (`BroadcastStop`).

**PacketStatus.** `packetStatus[id]` is the payload of the status, or
`NoStatus`. A status check passes through three bags, one for each point where
other actors may run: `timers` (run_later), `asking` (the task has not been able
to send its question, which waits while the mailbox is full), `answered`. The
question itself is a message in the status actor's mailbox between the last two.
A timer belongs to an actor's context and dies with it, or to the arbiter and
does not (`owner`). `SetSendSchedule` is the sequence set_packet_status,
send_packet, schedule_status_check with its early returns; `SendPacketHandle`
and `ResponseHandle` are the two macros that make packet actors. `HandleStop`
drops mailbox and timers, and answers the dropped questions with "Closed", as
actix does when an answer channel is dropped.

**Transport.** `toBroker` holds what is written and not read, the writer's
buffer included; when SendActor stops, any suffix of it may be lost. RecvActor
and DispatchActor drop a packet whose target is full. `MayBreak` allows read and
write errors. DispatchActor has no StopMessage; it ends when RecvActor, which
holds its only address, is gone.

**OutgoingPublish.** A message `m` of the application has a QoS; `BadTopic` are
those whose topic `TopicName::new` refuses. Every attempt takes an identifier
from `idCounter` (Identifiers). `sentAs`, `acked` and `taken` are history: the
identifiers an `m` was sent with, those an answer has settled, what the server
took. The server (external) answers each packet it reads, whenever it likes or
never.

**IncomingPublish.** The server (external) sends `PUBLISH` up to `MaxSends`
times until it is answered and follows PUBREC with PUBREL. A message of QoS 2 is
handled in two parts: `RecvLevel2` spawns the task that asks for the status,
`Deliver` is the rest of that task, after the await.

**PublishBoth** instantiates the two over the same mailboxes, status map and
connection. It is where identifiers chosen by the client and by the server meet.

**Command.** `CommandActor` and `AnswerType` say which of the two pairs of
actors an instance is; their code differs in names and in the packet, and each
pair has a status actor of its own, so the two do not meet except in next_id. A
request passes the mailbox of its actor twice: as the client's message and, by
`ctx.notify`, as a batch of one. The identifier is taken before the retry_count
is tested (`BatchHandle`), so that giving up a request removes the status of an
identifier nobody has used, if the counter does not repeat itself.

**Identifiers.** `NextId` and `TakeId` are `next_id`: a counter that wraps at
`UsizeRange`, taken modulo `MaxId`. In the code these are 2^64 and 65535, and 2^64 is
1 modulo 65535: the last identifier before the wrap and the first one after it
are the same, `WrapId`. `WrapAssumption` demands that residue of every instance.

**Retransmission** is the abstract specification behind both: of each request a
`phase` and a number of `attempts`. The refinement mapping computes the phase
from what may still make the client go on with the request (`Continues` of
PacketStatus: its message in the mailbox, in a resend, or in a status check at
any of its points) and from `acked`. A status check whose answer is "absent", or
one whose actor stops, is the abstract `End`.

**Connecting.** `held` are those of the client's addresses that keep an actor
alive; `connectStatus` is the map of the connect status actor, `connectCheck`
the one timeout with its task. It is not a set of timers as in PacketStatus
because connect() is called once. `Connack` and `Connect` stop when CONNACK
accepts, all others by losing their last address (`...Orphaned`).

**KeepAlive** adds the ping. A task first asks the connect status actor
(`AskConnected`, `ExistsHandle`) and then the ping status actor; the second
question uses the bags of PacketStatus, with a task of kind "ping" that no
stopping actor takes with it. Every ping uses status 0.

**Disconnect, Closing.** `disconnect()` is two actions, the send and the return
of the await that clears the addresses (`DisconnectReturns`); between them the
actors run. In `Closing` the application makes one call at a time, and the
server closes the connection when it has read DISCONNECT.

## 3. Runs

| Run | Instance | Properties |
|---|---|---|
| `outgoing_answers` | messages of QoS 2 and 0, mailboxes of 1 and 2 places but for SendActor's, 1 retry, fair | `TypeOK`, `AckStopsRetry`, `PublishKeepsPromise`, `StatusDrains` |
| `outgoing_full` | two messages of QoS 1 and one with a refused topic, mailboxes of 1 and 2 places, 1 retry, the counter wraps between two attempts | `SingleRetryChain`, `RetryCountsAttempts`, `TransmissionBound`, `AckedWasTaken`, `ConfusedOnlyAtWrap` |
| `incoming_full` | messages of QoS 0 and 2, mailboxes of 1 and 2 places, 1 retry, connection and application may break | `TypeOK`, `OncePerReceipt`, `ReleasedMeansDelivered` |
| `incoming_slow_app` | messages of QoS 1 and 2, one place in the application's mailbox, 1 retry, fair | `EventuallyReceived`, `ExchangeEnds`, `StatusDrains` |
| `publish_both` | a message of QoS 1 out, messages of QoS 0 and 2 in, one place in the application's mailbox, equal and different identifiers, no retry | `SettledOrShared`, `DeliveredOrShared` |
| `command` | a SUBSCRIBE and one with a refused topic, mailboxes of 1 and 2 places, 1 retry, the connection may break, fair | `TypeOK`, `CommandKeepsPromise`, `CommandsEnd`, `StopReachesAll` |
| `connecting` | connect(), one interval, mailboxes of 1 and 2 places, no retry, the connection may break, fair | `TimeoutJustified`, `ConnectDecided`, `NothingLeftBehind` |
| `keep_alive` | the same with two intervals and a connection that holds | `TypeOK`, `PingAfterAccept`, `PingsBounded`, `PingWatched` |
| `closing` | one message of QoS 1, both kinds of disconnect, ample mailboxes, fair | `DisconnectTypeOK`, `BeliefIsCurrent`, `WaitsForSomething`, `NeverStuck`, `GracefulDisconnectCompletes`, `DisconnectionStopsClient` |

`PublishKeepsPromise` and `CommandKeepsPromise` are the refinements: the
specification of Retransmission under the mapping, initial states, steps and
all. `CommandsEnd` is its liveness under the same mapping. `RetryCountsAttempts`
says why `TransmissionBound` holds: whatever may be handled again has counted
every transmission.

Identifiers. What an answer means rests on identifiers that no unfinished
attempt has, and nothing in `next_id` sees to that. In `outgoing_answers`,
`closing` and `command` there are as many identifiers as attempts and the counter
does not wrap, so that none repeats: what these runs show of answers, late ones
included, they show for that case. In `outgoing_full` the counter wraps, and two
attempts on the two sides of the wrap do share `WrapId`: two attempts at one
message, or attempts at two messages. Then a PUBACK to one message settles another
that the server never took, so that `AckMeansTaken` and `PublishKeepsPromise` are
false there. What the run shows is how far that goes: to no other identifier
(`ConfusedOnlyAtWrap`), and to no attempt whose identifier the server has not taken
with some message (`AckedWasTaken`). The retry chain and the bound on
transmissions do not depend on identifiers at all.

What `publish_both` shows is a limit, not a guarantee: with equal identifiers a
message of the server can be lost and one of the client can be counted as
acknowledged. The run shows that nothing else can go wrong between the two
sides; nothing in the client keeps the identifiers apart.

Three runs show where the code does not do what a comment, a doc or a test of
the repository says:

- `resent_twice`: a PUBREC that is late, not lost, makes SendPublishActor send
  the message again under a new identifier; the server takes a QoS 2 message
  twice (`lib.rs:632` expects no multiple receive).
- `received_twice`: a PUBLISH that the server sends again between the removal
  of a status and its being set again, or after check_status_phase_2 removed
  it, is delivered again (`lib.rs:632`).
- `status_leak`: after SendActor's mailbox was full, the status of the attempt
  that failed stays for ever, and disconnect(false) waits with nothing left to
  end it (`README.md:123`, `lib.rs:265`).

The comment at `disconnect.rs:52`, that all pending packets are waited for before the
disconnection, is not kept either; it has no run of its own. disconnect(false) does
not wait for a message that is still in the mailbox of SendPublishActor, or in a
resend to it, nor for one whose SetPacketStatus the status actor has not handled
yet. And a disconnection that waits goes on although a message is about to be sent
again: the check that finds the message unanswered removes its status
(`status.rs:64-66`) before the message is handled again, the status actor reports
that nothing is pending, and DisconnectActor disconnects (`disconnect.rs:83-88`).
`BeliefIsCurrent` says exactly how much DisconnectActor knows: the status map, up to
the reports on their way.

One limit contradicts no word of the repository: after a lost connection
is_disconnected() stays false, since DisconnectActor is not told to stop, and
is_connected() stays true, since nothing removes status 1.

**Bounds.** MAX_RETRY_COUNT is 5 in the code and 0 or 1 here: one retry already
has a first, a repeated and an exhausted handling, and the code tests the
counter only against the bound. Where it is 0 the first repetition is the
exhausted one. It is 0 in `connecting` and `keep_alive` because two chains of
pings with a retry each have more states than the run can visit; what the chains
do to each other happens between a question and an answer, which 0 has too.
`MaxTicks` bounds the intervals of the ping: 2 is the first number with two
chains. `publish_both` has no retry for the same reason: an identifier is
shared, or not, in the first attempt already: the counter starts at 0 or 1, so
that the client's message gets identifier 1 or 2, and the server's has 2.
Capacities are 64 and 256 in the code. 20 stands for "never full", since fewer
messages exist; 1 and 2 make every mailbox of interest fill up. Identifiers are
0 .. MaxId with MaxId at least the number of attempts, so that no identifier
repeats within a run but for the wrap. In `outgoing_full` the counter starts two
before `UsizeRange`, so that attempts are made on both sides of the wrap.
`MaxSends` bounds the server's repetitions: 1
where messages of the server are received as TCP delivers them, 2 in
`received_twice`. RESEND_DELAY and COMMAND_TIMEOUT are not measured: a timer may
end at any time after it was set, which includes every order of timers.

CHECK_DEADLOCK is FALSE in all runs: when everything is published and answered,
or the client has stopped, the system rightly does nothing.

**Fairness.** Weak fairness for every handler of an actor that has messages, for
tasks that can go on and for timers: the arbiter polls all of them and time
passes. Weak fairness for the return of a call, once it can return. Nothing
obliges the application to call, the connection to break, the interval of the
ping to elapse, or, except in IncomingPublish, the server to answer. An actor
without addresses stops (`...Orphaned`): actix drops its context at the next
poll. In IncomingPublish the server reads what the client sends; the exchange
cannot end otherwise. `SessionFairness` is stated per step with the subscript
`sessionVars`: each of those steps changes it. `KeepAlive` states one conjunct
per step, each with what the step leaves alone (`Elsewhere`).

**Mutants.** Definitions marked as mutants are plausible mistakes in the code (a
missing return, an off-by-one, a check after the wrong await). They are used by
no action; each shows that a property would notice the mistake.

## 4. Proofs

The theorems hold for all values of the constants that satisfy the named
assumptions: any set of messages, any number of identifiers, any capacities, any
MAX_RETRY_COUNT, and, but for what a theorem says itself, with and without
errors of the connection.

| Module | Theorem | States |
|---|---|---|
| `OutgoingPublish_proofs` | `TypeCorrect` | `TypeOK` |
| | `RetryChainSingle` | `SingleRetryChain` |
| | `RetriesCounted` | `RetryCountsAttempts` |
| | `TransmissionsBounded` | `TransmissionBound` |
| `PublishAnswers_proofs` | `SettledWasTaken` | `AckedWasTaken` |
| | `AckedNotResent` | `AckStopsRetry`, while identifiers are fresh |
| | `AnsweredIsTaken` | `AckMeansTaken`, while identifiers are fresh |
| | `PublishRefines` | `PublishKeepsPromise`, while identifiers are fresh |
| `IncomingPublish_proofs` | `IncomingTypeCorrect` | `TypeOK` |
| | `ReleaseIsSafe` | `ReleasedMeansDelivered`, if identifiers are distinct |
| | `ReceiptIsOnce` | `OncePerReceipt` |
| `Command_proofs` | `CommandTypeCorrect` | `TypeOK` |
| | `CommandRefines` | `CommandKeepsPromise`, while identifiers are fresh |
| | `RemovesOnlyTaken` | `RemovedOnlyIfTaken`, while identifiers are fresh |
| `KeepAlive_proofs` | `KeepAliveTypeCorrect` | `TypeOK` |
| | `PingsAfterAccept` | `PingAfterAccept` |
| | `TimeoutIsJustified` | `TimeoutJustified` |
| | `PingsAreWatched` | `PingWatched` |
| | `PingsAreBounded` | `PingsBounded` |
| `Closing_proofs` | `DisconnectTypeCorrect` | `DisconnectTypeOK` |
| | `BeliefCorrect` | `BeliefIsCurrent` |
| | `WaitingCorrect` | `WaitsForSomething` |

**Types.** `TypeOK` is more than the types of the variables: a mailbox holds only
messages its actor has a handler for, wherever they passed (status checks,
resends, dispatcher), and no message in any mailbox, task or resend has a
retry_count above MaxRetryCount + 1. It is inductive as it stands, because it
speaks of every place a message can be. `Session_proofs` states it once for all
exchanges, `SessionOK(K)`: the record K says which messages, resends, tasks and
packets an exchange has. Each helper of Actors, PacketStatus and Transport has a
lemma there (`PostTyped`, `TakeTyped`, `SetSendScheduleTyped`, ...), and each
exchange adds one lemma per action of its own.

**Chains.** `Chain_proofs` follows the messages of a set S for an actor a through
the six places where such a message can wait: the mailbox, a resend, a timer, a
task that is about to ask, its question in the mailbox of the status actor, the
answer. `AtMostOne(K, a, S)` says that there is at most one, counted over all
places, `Absent(K, a, S)` that there is none. Every step of the background
preserves both (`BackgroundCarries`), and so do the handlers of other actors
(`...Carries`, `...Keeps`); the handler of a itself takes the one message and,
whatever branch it takes, lets at most one be handled again (`...Moves`).

From these follows `Chains` of `OutgoingPublish_proofs`, which is inductive: of
each message of the application there is at most one copy; a copy whose
retry_count is less than the number of transmissions is nowhere; there is none
before `publish()`; and no more than MaxRetryCount + 1 identifiers were used.
`SingleRetryChain` alone is not inductive, since a handler that is not the only
one would add a second copy, and neither is `TransmissionBound`: a copy with an
old retry_count would pass the test once too often. None of this needs anything
of the identifiers: where they repeat, a check finds the status of another
attempt and a message is handled again without need, but on the one chain.

**Answers.** What an answer means does depend on the identifiers.
`PublishAnswers_proofs` shows it from `Inv == Chains /\ Known /\ Attempts`. `Known`
says of every packet, task and operation on the status map whose it is: what is
written was sent with one of the message's identifiers, and an answer, wherever
it is, has the identifier of a message that the server took; only a message of QoS
2 leads to PUBREC, PUBREL and the status PendingComp (`KnownK(sent, tk)` is a set of
messages like those of the types, but it grows with `sentAs` and `taken`, and
`KnownGrows` says that it only grows). It needs nothing of the identifiers, so
`SettledWasTaken` follows from it alone and holds at the wrap, too: an attempt that
is settled has the identifier of a message the server took. Which message that
is, only identifiers that differ can say. `Attempts` has the parts that it has for
Command, below, with one difference: PUBREC does not remove the status but
replaces it, so that an attempt is settled when its status is no longer one of
`Waiting`, rather than when there is none. A check that finds PendingComp hands
nothing on: its `expect` holds the status the attempt itself has set (`Unanswered`).
When an answer settles an attempt, `AttemptsApart` says that the attempt is at one
message, `AttemptsHeld` that the one check left is of that attempt, and
`AckedClear` that it will find nothing to repeat.

**Counting.** Two properties compare numbers: what the application has got with
what the server has sent, and the PINGREQ sent with the intervals that have
elapsed. There may be any number of equal messages at once, so `AtMostOne` is of no
use. The third part of `Chain_proofs` gives every message m to an actor a a weight
`w[a][m]`, how often something may still be done because of it, and defines
`Load(K, w)`: the number of tokens when each message in a mailbox, and each resend,
task, answer and packet from the server that will become one, has as many as it
weighs. `Weighed(K, w)` says that nothing becomes heavier on its way (a resend
weighs what its message does, an answer what its question did). Then no step of the
background adds to the load (`BackgroundLightens`), nor does a step of the status
actor or of a response actor, and a handler adds what its branch posts
(`HandlerLightens`, `HandlerSpends`, `TaskStarts`, `TaskEnds`). The tokens are a finite
set, part of the invariant (`Counted`), because mailboxes and bags have no bound.

`ReceiptIsOnce` weighs for one message b of the server. A PUBLISH of b is worth one,
and so is what it becomes until the application has it; of a QoS 2 message only the
first attempt, since one that has a retry_count above 0 no longer delivers. `Once(b)`
says `received[b] + Load <= sends[b]`. The step that needs care is the answer to the
duplicate check: it delivers b and handles the PUBLISH again only with a
retry_count that is worth nothing. `PingsAreBounded` weighs attempts: a tick, the
question whether the client is connected and the question whether a ping waits
are worth MaxRetryCount + 1, a SendPing with retry_count r what is left of them,
MaxRetryCount + 1 - r. `TicksPay` says that the pings sent, the questions to be asked
and the load are together at most what the ticks were worth. Sending turns one
unit into a PINGREQ (`SendPingHandlePays`); chains that take the status from each
other only lose.

**Command.** `Chains` holds there for the same reasons. The refinement also
says that nothing is transmitted after its answer. The invariant is
`Inv == Chains /\ Attempts`. `Clear(K, id)` says that the status of id is gone
and no message is left that would set it; `Held(r, id)` that all that may repeat
request r is one check, of id; `Attempts`, that the messages that set a status are
ahead of all others about it (`StatusFirst`), the status of an answered
attempt is clear (`AckedClear`), each attempt whose status is there or answered is
held (`AttemptsHeld`), and no two requests have used the same identifier
(`AttemptsApart`). So when the answer of an attempt removes its status, the one
check that is left finds nothing, and `PromisedStep` maps every step to a step
of Retransmission or a stutter. `Removals` adds what RemovedOnlyIfTaken needs: as
long as the server has not taken a packet, no answer to it exists anywhere, and
no message that removes its status while there is one to remove.

The theorems about answers, here and for publishing, have the form
`Spec /\ FreshIdentifiers => ...`. The hypothesis says that an attempt takes an
identifier without a status, without history and without an operation on its
way. No run checks it, since the bounds of an instance decide it, and it is
needed: an identifier of the code is one of 65535, the counter comes round and
repeats itself at the wrap, so a request may take one that an unfinished attempt
still uses, and then the answer to one settles the other (`outgoing_full`).
No assumption on the constants excludes that, because the number of attempts is
not bounded by the constants alone in the code; with it the theorems say that this
is the only way in which the promise can be broken.

**Receiving.** `ReleasedMeansDelivered` is about what is not there: the invariant
`Traces` says that a message of QoS 2 the application does not have yet has left no
trace: no status and nothing that sets one, no PUBREC in the mailbox of SendActor
or on the connection, no attempt but first ones, no answer that calls it a
duplicate, and a server that has not let go of it. Every step that makes a trace
comes after the delivery in the same handler. `ReleaseIsSafe` assumes that the
server does not use an identifier for two messages (`DistinctIds`). It is needed:
the status and the PUBREC carry only the identifier, and a PUBREC of the one
message that is late releases the other.

**KeepAlive.** `NoPings`: before CONNACK accepts, there is no SendPing anywhere, no
message to the connect status actor that the client is connected, and no status
1; after it ConnackActor has stopped, so that a second CONNACK changes nothing.
For `TimeoutJustified`, `ConnectOnce` says that CONNECT is sent once and that
nothing that could be its answer exists before, and `AnswerEndsConnecting` that
from then on the status 0, and every message that sets it, is followed in the
mailbox by one that removes it (`TakenBack`). For `PingWatched`, `Watching` says the
same of the ping status, unless there is a SendPing that will ask: the
messages that end the status are the removals and the questions, and the answer
to a question that finds the status makes a SendPing. PingWatched requires that
SendActor runs as well as PingreqActor and the status actor: SendPing sets the
status before it sends, and if SendActor has stopped it returns without a timer.
The client is stopping then, and the status stays. The run `keep_alive` alone
would not show this, as its bounds have no retry; the proof does.

**Closing.** The run `closing` is limited to mailboxes that never fill up and a
connection that does not break, the theorems are not. They follow from
`ClosingInv`, which is inductive (`ClosingInvariant`).
`BeliefIsCurrent` alone is not: a resend whose target is DisconnectActor would
hand it a message, and nothing says that what is in its mailbox is of the kinds
it handles. `ClosingInv` adds `TypeOK`, from which follows that no status check
and no packet from the server is for DisconnectActor; `NoResendToLiving`: the
only resend to it is made by the handler in which it stops; and
`PendingIsUnfinished`: it waits only while it believes that packets are pending,
without which a waiting disconnection could be forgotten although the belief is
right. The lemmas `Believe...` say what reading and adding a message does to the
belief an actor will end up with; the lemmas `...Quiet` that every step but
those of the status actor, of DisconnectActor and of `disconnect()` leaves its
mailbox and the status map alone; `TypeOK` is preserved by the lemmas of
`OutgoingPublish_proofs`.

**Only proved.** `AckMeansTaken` and `RemovedOnlyIfTaken` are about several messages
or requests with identifiers that differ. In a run the bounds would decide that
they do, and for one message or request they say little, so no run checks them.

**Assumptions.** Those of the modules: `ActorAssumption`, `StatusAssumption`,
`TransportAssumption`, `IdentifierAssumption`, `OutgoingAssumption`,
`IncomingAssumption`, `CommandAssumption`, `ConnectingAssumption`,
`KeepAliveAssumption` and `DisconnectAssumption`. They state how `start_actors`
wires the actors (which of them exist, which the StopActor knows, which packet
goes to which actor, who is told about the statuses) and that bounds are natural
numbers; TLC evaluates those of the modules a run extends. `WrapAssumption`, the
residue of the counter, is there for the runs; no proof uses it.

**Only model-checked.**

- `SettledOrShared`, `DeliveredOrShared`: about both directions at once, and with
  the same hypothesis on the client's side.
- `NeverStuck`: false in general (the run `status_leak`); it holds where the
  mailboxes never fill up.
- `ConfusedOnlyAtWrap`: it holds for as long as no more attempts are made than
  there are identifiers, which no assumption on the constants says.
- Liveness (`StatusDrains`, `EventuallyReceived`, `ExchangeEnds`, `CommandsEnd`,
  `StopReachesAll`, `ConnectDecided`, `NothingLeftBehind`,
  `GracefulDisconnectCompletes`, `DisconnectionStopsClient`) is beyond the prover.

## 5. Not modelled, and why

- The text of topics, payloads and errors, the error recipient, logging and
  names: no property depends on them.
- Encoding and parsing of packets are the `mqtt` crate's. A parse error is
  `RecvError`.
- `MailboxError::Timeout`: the code never sets a timeout on `send()`. With it goes
  the retry_count of `Pingreq`, which is 0 for ever.
- The branches of ConnectActor and its task for a connect status actor that is
  closed: whoever would see it closed has its address, which keeps it alive, and
  the StopActor does not know it.
- `is_connected()` is a predicate of the connect status map, not a message in its
  mailbox; the ping's question, which is the same message, is modelled as one.
- `ctx.notify` puts its message behind those in the mailbox. actix handles it in
  the same poll of the actor, before or after others; the model's order is one of
  them, and a batch that is handled later meets more of the other actors' steps.
- Subscribing, connecting and publishing are checked apart. They share the
  connection's actors, the StopActor and next_id, and nothing else: a mailbox of
  those that another exchange fills is full in the runs with small capacities too.
- Identifiers of the client that come round while they are in use (65535
  attempts within one COMMAND_TIMEOUT). The wrap at 2^64 is modelled, and run for
  publishing; no run has two requests of Command on the two sides of it.
- `lib.rs` (re-exports and tests).

## 6. Plan

Theorems, in this order:

1. `SettledOrShared` and `DeliveredOrShared` of PublishBoth, from
   `AnsweredIsTaken` and `ReleaseIsSafe`, over the shared status actor.
