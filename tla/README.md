# Restaurant order system: specification and proofs

A TLA+ model of the server, display client and updater client in `src/`, the TLC
configurations that check it, and TLAPS proofs of its main safety properties.
`PROJECT.json` maps every definition to the source lines it models.

## 1. The system

| Component | State it keeps | Operations | Interacts with |
|---|---|---|---|
| `Server` (`server.cpp`) | `m_orders`, `m_display_clients`, `m_next_order_id`, all under `m_mutex` | `register_display`, `unregister_display`, `process_new_order`, `process_item_update`, `process_order_update`, `broadcast` | called by Client threads; enqueues into the queues of registered Clients |
| `MessageQueue` (`message_queue.cpp`) | `m_queue`, `m_mutex`, `m_avail` | `enqueue`, `dequeue` with a one-second timeout | filled by any Client thread, emptied by its owner |
| `Client` (`client.cpp`), one object and detached thread per connection | socket, mode, its queue, `m_running` | `chat`, `display_loop`, `updater_loop`, `send_message` | Server, its remote program |
| accept loop (`server.cpp`, `server_main.cpp`) | none | `server_loop`, `client_thread_start` | creates Clients |
| `Order`, `Item` (`model.cpp`) | id, status, items | `find_item`, setters, deep copy | owned by `m_orders` and by messages |
| `Message` (`message.cpp`), `Wire` (`wire.cpp`) | none | constructors, `encode`, `decode` | every exchange |
| `IO`, `rio_*` (`io.cpp`, `csapp.cpp`) | none across calls | `send`, `receive` of length-prefixed frames | sockets |
| display program (`display_main.cpp`) | `orders` map | login, three handlers, main loop | receives DISP messages and heartbeats |
| updater program (`updater_main.cpp`) | none | login, `order_new`, `item_update`, `order_update`, `quit` | one request at a time, waits for its response |
| `PasswordDB`, `Guard`, `FdGuard`, exceptions | none | | |

What is hard here: a display's registration and snapshot race the broadcasts of
updater threads; the server keeps raw `Client*` pointers to objects deleted by their
own threads; the queue's semaphore and mutex are separate, and a wait may time out
just before a post; a display learns of an item's and its order's change in two
messages; connections end at any moment and the server notices only when it reads
or writes; two updaters race for one transition; the order's status is maintained
incrementally; `broadcast` takes the queues' mutexes while it holds the server's;
free text with separators changes the structure of a message; frames are cut up by the
sockets and have a maximal length.

What makes each part correct:

- Server: an order's status agrees with its items; only a repeated item id can keep an
  order from being finished; only finished orders leave; each operation with its broadcasts is atomic; nobody waits for ever for
  its mutex.
- MessageQueue: exclusive access, no pop from an empty deque, FIFO, no lost wakeup.
- Display path: no broadcast to a dead Client; what a display shows plus what is under
  way is exactly the server's state; the display never meets a message it rejects; it
  catches up; dead displays are unregistered.
- Updater path: at most one updater wins a transition; acknowledged changes hold;
  requests are answered, each once; sessions end.
- Wire: a message without separators in its free text is decoded as it was encoded; with
  separators it is that, or refused, or an order with more items; whatever is accepted can
  be written and decoded again.
- Frames: messages arrive whole, in order; the ends never lose step; a stored order that
  came with enough room in its frame can be sent to the displays.

## 2. Modules

| Module | Models |
|---|---|
| `OrderModel` | `model.h`, `model.cpp`: orders and items as records, `std::map` as a function |
| `Messages` | `message.h`: one operator per message; a queued message is a value, as `duplicate()` copies deeply |
| `Server` | `server.h`, `server.cpp`: each operation runs under `Guard g(m_mutex)` from first to last statement and is one action; a failed check (`SemanticError`) is a disabled action |
| `MessageQueue`, `FifoChannel` | `message_queue.cpp` statement by statement, and the atomic channel it implements, which justifies the sequences `m_queue[c]` of `Server` |
| `DisplayClient` | the handlers of `display_main.cpp` as operators on its `orders` map |
| `KitchenDisplay` | composition: `Server`, `DisplayClient`, display threads (`pc`), connections (`login`, `wire`, `broken`), display programs (`peer`, `orders`) |
| `UpdaterSession` | composition: `Server`, updater threads (`pc`, `msg`), connections (`request`, `reply`, `broken`), updater programs (`prog`, `asked`) |
| `IO` | `io.cpp` on `rio_readn`, `rio_writen`; a byte is a message and a position in its frame |
| `Wire` | `wire.cpp`, `util.h`'s `split`: `encode` and `decode` on sequences of tokens, the length of a frame, and the way of an order from the updater's text to the display's |
| `ServerThreads` | `Server` with its threads, `m_mutex`, and the mutex and semaphore of every queue; `broadcast` and the snapshot make their enqueue calls one by one (`msgs`, `left`, `target`: what thread `t` has still to enqueue, to whom, and whose `enqueue` it is in); refines `Server` |
| `ServerOutOfMemory` | `ServerThreads` with `std::bad_alloc` thrown by `push_back` in `enqueue` |
| `ServerProofs`, `ServerThreadsProofs`, `MessageQueueProofs`, `UpdaterProofs`, `ViewProofs`, `KitchenProofs`, `IOProofs`, `WireProofs` | theorems about the module each extends (`ViewProofs`: the lemmas on displays' views that `KitchenProofs` needs) |
| `MC*` | instances for TLC |

Abstractions. Descriptions and quantities never influence the server and appear only
in `Wire`, where a string is a sequence of tokens. What the tokens are is a constant: the
proofs hold for characters; TLC takes separators, protocol words, numerals and words of
free text for tokens, some of which stand for longer text (`TokenLen`). `to_str`,
`to_string` and `stoi` are constants too, of which only what `NamesAssumption`,
`NumbersAssumption` and `LengthAssumption` say is known. Elsewhere a message is a value; credentials are `valid`, `invalid` or
`malformed`, a request whose text `Wire::decode` refuses is `MALFORMED`, and a second
LOGIN stands for every request of a type that `updater_loop` does not expect. The members
of `Clients` and `Updaters` are slots: one connection after another uses a slot, each with
a Client object of its own. A connection is two FIFO channels; `broken` means that the
server's reads and writes fail. What a display receives is processed in the order sent;
what is in transit when a display dies is lost; a request in transit when the connection
breaks may or may not still be read. A blocked `write` is the guard on `WireCap`. In
`KitchenDisplay` updaters are represented by `UpdaterRequest`, any successful operation
at any time; `UpdaterSession` has no displays, as the updater's thread does not depend
on them. `ServerThreads` leaves out what comes before `display_loop` (`KitchenDisplay`)
and what an updater is answered (`UpdaterSession`); taking a mutex and the statements
after it that touch only what the mutex protects are one step. In `Wire` an order may
have any status when it is sent: which occur is the matter of `Server`. `acks`
(`UpdaterSession`), `calls` and `received` (`MessageQueue`) are history variables.
Definitions marked "Faulty variant for mutation testing" are no part of the model: each stands for a
plausible bug and shows that a property can fail.

## 3. Runs

| Run | Configuration | Shows |
|---|---|---|
| `server` | two orders of one or two items, also with an id used twice, one display | `OrderStatusTracksItems`, `OnlyRepeatedIdsBlock`, `OnlyFinishedOrdersLeave` |
| `message_queue` | two updater threads and the display's, two messages, four calls | `DequeAccessExclusive`, `AvailCountsMessages`, `FifoSpec` (refinement), `EveryMessageIsReturned` |
| `kitchen_two_displays` | two connection slots, one order of one new item, or of two of which one is started, and which may share an id | `NoDanglingClient`, `DisplayNeverRejects`, `ShownStatusNeverAhead`, `ViewIsConsistent` |
| `kitchen_two_orders` | one slot, two orders, fair threads | `ViewIsConsistent`, `ShownOrdersAdvance`, `DisplaysCatchUp`, `DeadDisplaysLeave`, `LoginIsAnswered` |
| `updater_race` | two updaters, one order, every request | `OneResponsePerRequest`, `OneWinner`, `AcknowledgedUpdatesHold` |
| `updater_liveness` | one updater slot, one order | `RequestsAreAnswered`, `SessionsEnd` |
| `io` | three messages and one too long, buffer smaller than a frame | `ReceivedIsPrefixOfSent`, `FramesStayAligned`, `AllArrive` |
| `server_threads` | two displays that come and go, two updater threads, one order | `EnqueueOnlyToLiveClients`, `QueueMutexIsLeaf`, `ServerMutexIsReleased`, `ImplementsServer` (refinement) |
| `wire` | one message of every kind, descriptions with up to ten separators, two descriptions of 4970 characters, all strings one token away from a message | `PlainMessagesArrive`, `MisreadOnlyAsMoreItems`, `DisplaysDecodeTheOrder`, `GrowthIsBounded` |
| `server_started_items` | an ORDER_NEW with a started item | violates `AllDoneOrdersAreDone` |
| `server_out_of_memory` | memory runs out in `enqueue` | violates `ServerMutexIsReleased` |
| `wire_limit` | an ORDER_NEW of framed length 9999 | violates `EveryOrderCanBeDisplayed` |

The first run of each state machine also checks its type invariant.
`ReceivedIsPrefixOfSent` and `FramesStayAligned` play that part for `IO`.

The last three are disagreements between the code and its documentation;
`PROJECT.json` quotes them under `findings`. Of these only the long description is
reached by the two client programs with ordinary input.

A fourth disagreement needs no run. `src/README.txt` (38-41) explains the absence of
deadlocks by saying that the server's mutex and a queue's mutex are never held together
and that the server releases its own before it adds to a queue. `server.cpp:72-82` calls
`enqueue` under `m_mutex`, and must: `EnqueueOnlyToLiveClients` and `ImplementsServer`
rest on it. What excludes a deadlock is `QueueMutexIsLeaf`: whoever holds a queue's mutex
needs nothing more to release it.

### Bounds, and why they are enough

- `MaxOrderId` 1000 or 1001: one or two orders. Orders never interact except through
  the snapshot, the messages' order and the id counter, which two orders exercise.
- Two items distinguish the first item from the others and "some" from "all". With two
  displays an order of two new items is beyond what a short run can check (4.8 million
  states); there one of the items has already been started, and the theorems of
  `KitchenProofs` cover every item list.
- Two displays or two updaters: displays interact only through `m_display_clients`,
  and a race has two sides. The proofs hold for any number.
- `WireCap` 1 or 2: a sender that blocks at once, and two messages in flight.
- `MaxEnqueues` 4 with three threads: every thread can be between push and post at once.
- `BufferCap` 6 with frames of 5 to 9 bytes: frames do not fit the buffer, and parts of
  two frames can be in it.
- `server_threads`: one order; an update of it broadcasts two messages to two displays, so
  a thread has up to four enqueue calls to make while others wait, leave or register.
- `wire`: a description is taken for k further items only if it holds 4k times `:` and k
  times `;`. The run has all texts of up to three tokens, alternating texts with three
  (any) and four (`;`, `:`) separators, a description that makes one further item, all
  texts one token away from it, one that makes two, and a pair of items that each make
  one (`BreakingTexts`, `Break`). With two descriptions of 4970 characters an order fits a
  frame while it is new but not in every status, so sending it both succeeds and fails.
  Strings of other programs differ from a message by one token, which is enough for every
  check of `decode` to fail once.
- The clients' names are interchangeable in `kitchen_two_displays`, which has no
  temporal property; it uses symmetry.

### Fairness

- A thread or program that can take a step eventually does (weak fairness): they are
  preemptively scheduled, and mutexes are held only for short critical sections.
- `ResetByPeer`: when a display's process is gone, its host answers the next message
  or heartbeat with a reset, or TCP gives up; then writes fail. Heartbeats are sent
  every second, so there is always a next message.
- `ServerThreads`: only of threads inside `enqueue` and `dequeue`, where each step is weakly
  fair. `send_message` may block for ever. Weak fairness is enough although the mutexes
  are not queued: while an enqueuer waits for a queue's mutex, nobody else can post to
  that queue (it holds `m_mutex`), so the consumer soon stops taking the mutex.
- A client program that waits in `read` learns that its connection has broken (its
  `EndOfStream`). TCP tells it when the server closes or resets the connection. A network
  that silently drops everything is not covered: neither side uses keepalive, so the
  program would wait.
- Nothing else is assumed of users, updaters or the network; in particular nobody has to
  type or to deliver an order.
- `DisplaysCatchUp` says "infinitely often": the number of orders is bounded, so updates
  pause; without a pause a display may for ever be a message behind.
- `EveryMessageIsReturned` assumes that `display_loop` goes on calling `dequeue`.

## 4. Proofs

All theorems hold for every value of the constants that satisfies the named assumptions:
any sets of clients, threads and item lists, any number of orders and messages, any
buffers. Each invariant's proof has the three usual parts (it holds initially, each
action preserves it, it implies the property), with one lemma per action.

| Theorem | Property | Run |
|---|---|---|
| `ServerProofs!TypeCorrect`, `OrderStatusCorrect`, `DeliveryCorrect`, `Progress` | `TypeOK`, `OrderStatusTracksItems`, `OnlyFinishedOrdersLeave`, `OnlyRepeatedIdsBlock` | `server` |
| `ServerThreadsProofs!ThreadsTypeCorrect`, `LiveClientsOnly`, `NoMutexCycle`, `ThreadsImplementServer` | `ThreadsTypeOK`, `EnqueueOnlyToLiveClients`, `QueueMutexIsLeaf`, `ImplementsServer` | `server_threads` |
| `ServerThreadsProofs!ThreadsKeepStatuses`, `ThreadsDeliverFinished` | `OrderStatusTracksItems`, `OnlyFinishedOrdersLeave`, at every step of the threads | |
| `MessageQueueProofs!TypeCorrect`, `MutualExclusion`, `SemaphoreCorrect`, `QueueIsFifo` | `TypeOK`, `DequeAccessExclusive`, `AvailCountsMessages`, `FifoSpec` | `message_queue` |
| `UpdaterProofs!UpdaterTypeCorrect`, `OneResponse`, `AtMostOneWinner`, `AcknowledgedStays` | `UpdaterTypeOK`, `OneResponsePerRequest`, `OneWinner`, `AcknowledgedUpdatesHold` | `updater_race` |
| `KitchenProofs!KitchenTypeCorrect`, `NoUseAfterFree`, `NeverRejects`, `NeverShownAhead`, `ViewConsistent` | `KitchenTypeOK`, `NoDanglingClient`, `DisplayNeverRejects`, `ShownStatusNeverAhead`, `ViewIsConsistent` | `kitchen_two_displays` |
| `KitchenProofs!ShownAdvances` | `ShownOrdersAdvance` | `kitchen_two_orders` |
| `IOProofs!StaysAligned`, `ReceivesWhatWasSent` | `FramesStayAligned`, `ReceivedIsPrefixOfSent` | `io` |
| `WireProofs!WireTypeCorrect`, `PlainMessagesAlwaysArrive`, `MisreadAlwaysAsMoreItems`, `DisplaysAlwaysDecodeTheOrder`, `GrowthAlwaysBounded` | `WireTypeOK`, `PlainMessagesArrive`, `MisreadOnlyAsMoreItems`, `DisplaysDecodeTheOrder`, `GrowthIsBounded` | `wire` |
| `WireProofs!DecodedText`, `OrdersWithRoomFit` | what `decode` returns for any string; the part of `EveryOrderCanBeDisplayed` that is true | |

- `ServerProofs!TypeCorrect`: `TypeOK` is inductive by itself. The lemmas `NewOrderStep`,
  `ItemUpdateStep`, `OrderUpdateStep` and `DisplayStep` describe what each operation does
  to the state; `NextCases` splits a step into them.
- `ServerProofs!OrderStatusCorrect`: `OrderStatusTracksItems` with `TypeOK` is inductive
  when items arrive `NEW` (`ItemsArriveNew`, a hypothesis of the theorem). The heart is
  `AutoStatusTracks`: after one forward step of one item, the status chosen from the
  previous status and a scan for unfinished items is again the right one.
- `ServerProofs!DeliveryCorrect`: the action property follows, since only
  `process_order_update` shrinks `m_orders` and it requires status `DONE`.
- `ServerProofs!Progress`: an item that is not shadowed by an earlier one with its id is
  the one `find_item` reaches, so an order with distinct ids that is not `DONE` has an item
  that can be moved on. A shadowed item is never reached: it stays `NEW`, and as the
  status tracks the items its order never becomes `DONE`.
- `MessageQueueProofs`: the invariant `IInv` adds to types and mutual exclusion that only
  the consumer is inside `dequeue`, that each `enqueue` under way has an argument, and
  the account `Len(m_queue) = m_avail + Cardinality(Unposted) + Claimed`. The account is
  what makes it inductive: the messages pushed and not yet posted are exactly those of
  the threads in `Unposted`. `TypeCorrect`, `MutualExclusion` and `SemaphoreCorrect`
  follow. `QueueIsFifo` shows the refinement with the mapping `Available`, the prefix of
  the deque covered by semaphore units; the steps that change it are post and pop.
- `ServerThreadsProofs`: `IInv` says which thread can be where (`Roles`), that a Client is
  registered from `register_display` to `unregister_display`, that `m_mutex` is held by
  exactly the thread that has enqueue calls under way (`HolderEnqueues`), that those calls
  go to registered Clients only (`CallsUnderWay`), who may hold a queue's mutex
  (`QueueHolders`), and the semaphore's account of each queue. `LiveClientsOnly` follows
  because a Client leaves `m_display_clients` only with `m_mutex`, which the enqueuing thread
  holds; `NoMutexCycle` is a part of `QueueHolders`. For `ThreadsImplementServer` each queue
  is mapped to itself followed by what the holder of `m_mutex` has still to push into it
  (`CompletedQueue`): an operation then takes effect when it takes `m_mutex`, every push
  is a stutter, and a pop takes the head that the atomic queue has too. `ThreadsKeepStatuses`
  and `ThreadsDeliverFinished` carry the Server's two main properties over to the threads:
  `OrdersStep` shows that of all their steps only three touch `m_orders`, and how.
- `UpdaterProofs`: `IInv` is the protocol of a session (`Session`: what can be under way in
  each state of the program, so that the reply a program reads answers the request it
  waits for; `OneResponse` is a consequence), order ids given out once (`Allocated`), and `Acknowledgements`: for each
  update, acknowledgements received and under way number at most one, and if there is one
  the update still holds (`Holds`). The last part makes it inductive: an update that holds
  is not accepted again, as statuses only move forward and ids do not come back.
- `ViewProofs`: a message is a `Link` between two views if the program accepts it in the
  first and then shows the second, a well-formed map that has only advanced; `Leads(v, ms, w)`
  says that the messages `ms` are such links, one after the other, from `v` to `w`.
  Lemmas show that `Leads` survives appending and removing a message, and that it gives the
  value of the recursive function `ViewAfter`. Then every operation of the Server
  `Announces` itself: what it broadcasts leads from the old `m_orders` to the new, through
  the intermediate view between an item's update and its order's; and the snapshot, in the
  ascending order in which `std::map` iterates, leads from the empty map to `m_orders` (a
  count of the ids shows that the iteration reaches every order).
- `KitchenProofs`: `IInv` is types, the Server's own invariant, `ThreadOK` (a Client is
  registered exactly while its thread is in the loop) and `ProgramOK`. The heart is
  `Admitted`: what is ahead of an admitted display, on the wire, in the thread's hand and
  in its queue, is accepted message by message, and leads to `m_orders` if the connection
  works and the Client is registered. Every theorem of the module is an instance of it.
  No hypothesis on the items is needed: also for orders with repeated ids or started
  items the displays follow the server.
- `IOProofs`: the bytes between the two ends (`Pending`: read, in the sockets, still to be
  written) are a `Run`: within a frame and from one frame to the next each byte is followed
  by its successor. `IInv` adds that the run begins where the receiver expects the next
  frame or body (`Begins`), that until the connection breaks it ends with the last frame
  (`Ends`), and that what is read and what is left to read make up a prefix or a payload
  (`Expects`). A read or write leaves the run as it is, a frame extends it, the receiver
  takes a prefix or a body off its front, and a break cuts off its end. `Run` relates
  any two bytes of a frame, not only neighbours, so no induction along it is needed.

- `WireProofs` is about what `encode`, `decode` and `split` compute, for strings of any
  length, orders of any number of items and any texts of other programs (`OtherTexts`).
  - `Join` and `split` are inverse: `JoinSplit` (the components joined again are the string),
    `SplitJoin` (parts without separator are the components of their joined string), and
    `SplitCount` (there is one component more than there are separators).
  - `RoundTrip`: `decode(encode(msg)) = {msg}` if the free text holds no separator.
  - With separators in the free text the argument is one of counting. A `|` or `,` in it
    makes a field too many, which `decode` refuses. With `;` and `:` only, k times `;` makes
    k items more, each of which needs four `:` more, so the descriptions hold at least 5k
    separators; and if k = 0, each item must have exactly its four `:` (`ItemsSeparate`) and
    is read as it was written.
  - `DecodedText`: whatever the string, `decode` gives at most one message; its
    descriptions are components of components, hence without separators (`PlainOrder`).
    So the order that `process_new_order` renumbers has an encoding, in every status, and
    this is decoded as the order it is: `DisplaysAlwaysDecodeTheOrder`. Nothing is said
    there of its length, which is the next point.
  - `GrowthAlwaysBounded`: the fields of the text and of the DISP_ORDER are compared one by
    one. An id or quantity does not get longer (`stoi` reads no string shorter than the one
    `to_string` writes), the order's id in the order and in each item becomes `NewId`, a
    status grows by at most eight letters; `JoinBound` adds this up over the items.
  - The invariant `WireInv` connects these facts with the stages: the text is what `encode`
    wrote, what was received is what `decode` makes of the text, and the order is the
    renumbered one (`Renewed`) of an ORDER_NEW that was received.

  The assumptions are what the code's tables and library functions satisfy: each name is
  written with a string of its own that has no separator (`wire.cpp` 14-80), `std::stoi`
  reads what `std::to_string` writes, statuses have 3 to 11 letters. Messages of the
  programs have positive numbers, because `updater_main.cpp` reads them with
  `ClientUtil::parse_positive_int`. `wire_limit` shows that `EveryOrderCanBeDisplayed` is
  false in general; `OrdersWithRoomFit` proves it for orders that leave room for `Growth`.

Induction over numbers, where a proof needs it, uses the lemmas `ViewProofs!LeastNumber` and
`WireProofs!SmallestNumber`: a non-empty set of numbers has a least element, from the
well-foundedness of strict inclusion of finite sets in the library. For sequences
`WireProofs!AllSequences` says that a set which holds the empty sequence, and with a sequence
also its extension by an element, holds all sequences. Properties are expressed as sets
because the provers cannot instantiate an operator. `HistoryExists` shows that the recursive
functions inside `Join`, `split` and `Total` exist, so that their equations can be used.

The hypothesis `ItemsArriveNew` is necessary: the run `server_started_items` shows what
happens without it. `updater_main.cpp` guarantees it for its own orders. Nothing guarantees
that item ids are distinct, and nothing assumes it: `OnlyRepeatedIdsBlock` says what happens
in both cases.

Only model-checked:

- every liveness property (`EveryMessageIsReturned`, `DisplaysCatchUp`, `DeadDisplaysLeave`,
  `LoginIsAnswered`, `RequestsAreAnswered`, `SessionsEnd`, `AllArrive`,
  `ServerMutexIsReleased`): the prover does not handle fairness and `ENABLED`.

`EveryOrderCanBeDisplayed` is false, as `wire_limit` shows; no passing run checks it.

## 5. Not modelled

- `Message::operator==` and the models' comparison operators (tests only), `trim` and
  `invert_map` (used nowhere). Printing, the test framework, the unused part of `csapp.cpp`.
- Shared orders: the message that `process_new_order` broadcasts refers to the stored
  order, but every `enqueue` call is given a `duplicate()`, which copies deeply. With
  messages as values the models rely on that; a model with references would have no
  step on which a queued order is shared.
- Failure of `accept` itself and of `open_listenfd`: no state changes.
- A half-open connection to an idle updater: the server has no timeout there, so the
  thread stays for ever. The same on the client's side: a program that waits for a
  message over a network that has silently gone (section 3, Fairness).
- In `KitchenDisplay` messages have no length: a send that fails because the text is too
  long for a frame is one of the ways in which a connection fails (`NetworkFails`), at any
  message. Which orders it can happen to is the matter of `Wire`.
- Exceptions out of `register_display` (memory runs out in the snapshot): the Client is
  then deleted while it is registered. Only `std::bad_alloc` in an updater's `enqueue`
  is modelled, as the finding is about it.
- Overflow of `m_next_order_id`: it would need two thousand million orders; the models
  bound it by `MaxOrderId`.
- The growth of a queue whose display does not read: the code has no bound to state.

## 6. State of the work

Modelled: orders, server, queue, display path, updater path with unexpected requests,
frames, wire encoding, the server's threads and mutexes. Proved: all invariants, action
properties and refinements that the passing runs check. Open: exceptions out of `register_display`, and the
liveness properties beyond the bounds of the runs.
