# A TLA+ verification project for cpp-demo-build

The repository is a small electronic exchange in C++: order-entry datagrams come
in over UDP, a matching engine keeps limit-order books, and market data goes out
as JSON lines. Three event-loop threads connect the three stages. Around that
core lie a set of message libraries (FIX order routing, normalised market data)
and a client.

Paths below are relative to the repository root, except where they name a file
of this directory. `engine.cpp` is `src/matching_engine/src/engine.cpp`;
`PROJECT.json` gives for every definition the lines it stands for, with the
prefix `src/` for the repository itself.

## 1. Inventory

| component | state | operations | hard behaviours |
|---|---|---|---|
| matching engine (`src/matching_engine`) | books of price levels (`order_book.hpp`), identity index and node pool, two id counters (`engine.hpp`) | `send` of new order, cancel, replace, flush | raw pointers shared by three structures, iterators kept over erasures, unsigned wrap, which changes deserve a book update, zero prices and quantities |
| event loop (`src/lab/lab/event_loop.hpp`) | running flag, thread, SPSC queue, pollers | `start`, `stop`, `join`, `post`, `run_busy_spin`, `run_timed_wait`, `drain`, destructor | visibility of an enqueue, posts that race the drain, parking |
| server application (`src/server`) | three loops, three stages, the asio context, `started_` | `start` (every step may fail, and may be tried again), `stop`, `run`, destructor, `main` | order of starting, stopping and destroying; failures half-way; what a second `start` meets |
| UDP receiver and runtime session (`src/lab/libs/network`, `src/order_entry/src/runtime`) | socket, pending receive, buffer | `open`, `poll`, completion handler, `stop` | `stop` on one thread while the handler re-arms on another; datagrams lost, repeated, reordered |
| order-entry session and decoder (`src/order_entry`) | none | decode, dispatch, error funnel | defaults for missing fields, malformed input |
| publisher and encoder (`src/market_data`) | sink | encode, write | order of messages, subscribers that attach late |
| FIX order routing (`src/mor`, `src/morfix`, `src/morfix_quickfix`, `src/quickfix_fix`, `src/ospec`) | sessions with sequence-less in-memory transport | conversions between three vocabularies, tag-value messages and their text codec, initiator/acceptor dispatch | lossy conversions, delimiters, unknown values, repeated tags |
| normalised market data (`src/mmd`, `src/mmd_json`, `src/mmdfix`, `src/mmd_transport`) | sinks | conversions, encoders | lossy conversions |
| order client (`src/order_client`, `src/client`) | socket | encode, send | must be the inverse of the decoder |
| lab utilities (`src/lab/lab`) | none | type wrappers, errors, logging, JSON reflection | none of their own |

How they interact. The input loop polls the UDP receiver; its handler decodes a
datagram and posts the request to the processing loop. The task there calls
`engine::send`, whose callbacks post each market-data message to the output loop,
and the task there calls `publisher::send`. Execution reports and cancel rejects
leave the engine through a second callback, which the server only logs. The main
thread starts the loops from consumer to producer, waits for a signal, and stops
them from producer to consumer, joining each before it touches the next.

What makes each part correct:

* engine: index, pool and books describe the same orders; a level's total agrees
  with its orders; the book is uncrossed between requests; matching is by price,
  then by time; the two event streams account for every quantity; a subscriber
  that applies the book updates knows the top of the book; every handler ends;
* event loop and server: messages keep their order and none is lost or
  duplicated across the two queues; a stop loses nothing that was accepted, and
  ends; no task or poller runs against a destroyed stage, even after a `start`
  that failed half-way; nobody posts to a loop that has begun its last drain;
  reception goes on whatever the datagrams hold; a `start` that is tried again
  leaves no thread with a receiver that is closed or polled twice;
* market data: the two JSON feeds carry the same records, and a subscriber of any
  feed, however late, knows the present top of the book at rest;
* client, network and session: the request that the session hands on is the one
  on the client's line, whatever the network does; the client sends nothing after
  a line that failed; defaults agree with what the engine does;
* codecs: decoding inverts encoding, except where a loss can be named, and every
  input is either translated or refused.

## 2. Modules

| module | stands for |
|---|---|
| `MatchingEngine` | `engine.cpp`, `order_book.hpp`, `matching.hpp`, `factories.hpp` |
| `PriceTimePriority` | what the engine promises (abstract specification) |
| `MatchingEngineProofs` | theorems about `MatchingEngine`: types and ownership |
| `BookProofs` | theorems about its levels and its events: order, totals, uncrossed books, what an order is accounted for, progress of `match`; the engine implements `PriceTimePriority`; extends the previous one |
| `EventLoop` | `event_loop.hpp`: the steps of one loop |
| `Server` | `application.cpp`, `main.cpp`, `asio_udp_receiver.cpp`, the runtime session; composes three instances of the steps of `EventLoop` |
| `ServerRun` | `Server` with a second thread in `application::run` |
| `ServerProofs` | the theorems about `Server` |
| `Startup` | `application.cpp` and the runtime stages again, for callers that call `start` more than once: contexts, receivers, pollers |
| `StartupProofs` | the theorems about `Startup` |
| `JsonCodec` | `json_decoder.cpp` of order entry and `json_encoder.cpp` of the client, without state |
| `OrderPath` | `client/src/main.cpp`, `order_client/src`, the network and `order_entry/src/session.cpp`; uses `JsonCodec` |
| `OrderPathProofs` | the theorems about `JsonCodec` and `OrderPath` |
| `FixCodec` | the conversions of `mor` and `morfix`, the codes of `ospec`, the codecs of `morfix_quickfix`; uses the vocabulary of `JsonCodec` |
| `FixRouting` | the in-memory sessions of `quickfix_fix` with an encoder and a decoder at either end, and `morfix::lifecycle_state` |
| `FixRoutingProofs` | the theorems about `FixCodec` and `FixRouting` |
| `FixText` | the messages and the text codec of `quickfix_fix` |
| `FixTextProofs` | the theorems about `FixText` |
| `MarketDataCodec` | the messages and encoders of `market_data`, `mmd` and `mmd_json`, the FIX-shaped forms of `mmdfix` and the codes of `ospec`, without state |
| `MarketFeed` | the engine, the output queue, the publisher and subscribers; extends `MatchingEngine`, uses `MarketDataCodec` |
| `MarketFeedProofs` | theorems about the book updates of the engine and about `MarketFeed`; extends `MarketFeed` and `BookProofs` |
| `MCMatchingEngine`, `MCServer`, `MCServerRun`, `MCStartup`, `MCOrderPath`, `MCFixRouting`, `MCFixText`, `MCMarketFeed` | instances for TLC |

Definitions called a faulty variant are plausible bugs. No specification uses
them; each property has one with which TLC finds it violated (`mutants` in
`PROJECT.json`).

### MatchingEngine

`nodes` is the node pool: the slots handed out, each with its `order_state`.
`index` is `resting_index_`, `levels` all the side maps of all the books, keyed
by (symbol, side, price); a level is the sequence of its nodes and its running
total. A raw pointer is a node id, so a dangling pointer is an id outside
`DOMAIN nodes`, and a leak is a node that no level or index entry names.
`request`, `taker`, `consumed` and `last_traded` are the locals of the running
handler; `events` is what it has emitted. `earlier`, `view` and `flushed` are
history variables: the order of arrival, the last top a subscriber was told for
each (security_id, side), and the keys flushed without an update since.

A handler that does not match is one action (`RejectNewOrder`, `CancelMiss`,
`Cancel`, `RejectReplace`, `HandleFlush`). One that does is `AcceptNewOrder` or
`AcceptReplace` up to the call of `match()`, then `Fill` for each iteration of
`consume_level`, then `Settle` for the bulk erase, the residual, the summary and
the book updates. `Return` ends every handler. Only one thread drives the engine;
the split is there so that the invariants are checked between two fills, where an
emptied level is still in its map. A new order's slot is any free one: the pool's
choice does not matter, and `NodeIds` bounds the number of resting orders.

Quantities are unsigned modulo `QtyMod`, the exec and trade ids modulo `IdMod`
(2^64 in the build). Time stamps, account fields and the texts of rejections are
left out: the engine copies them and never looks at them.

Two places where the source disagrees with itself are modelled as the code runs:
a replace that names its own id as the new one is rejected as a duplicate, because
`contains` sees the original; and a cancel of an unknown order emits a cancel
reject, although the comment at `engine.cpp:247-248` says it is dropped silently.

### PriceTimePriority

A set of resting orders, the relation "came to rest before", and at most one
aggressor. Each execution is between the aggressor and the resting order that
precedes every other tradable one. `ImplementsPriceTime` is this specification
with the orders read through the index. Acceptance and rejection are part of it,
the loss of the original in a replace that names no book included, so the
refinement fixes every change that a request may make to the set of orders.

### EventLoop

For a loop `l`, `running[l]` is `running_`, `phase[l]` where its thread is,
`queue[l]` the task queue and `visible[l]` how much of it the consumer can see
already: an enqueue is seen some time later (`Propagate`), except that a consumer
that reads `running_ = false` sees what its controller had synchronised with
before the store (`synced`). The queue itself is a library; only that guarantee
and FIFO order are assumed of it. A `wait_dequeue_timed` that times out and one
that finds a task are both possible whenever the queue allows it.

### Server and ServerRun

`main` is the main thread's position in `start`, `stop` and the destructors;
`receiver` the state of the pending `async_receive_from`; `socket` the kernel's
buffer. `Arrive` lets any datagram arrive at any time, which includes repeated
and reordered ones; a lost one is one that does not arrive. `PollReceive` and
`PollForward` split the completion handler, so that `stop` can come between its
entry and its re-arming. `Setup` and each `StartLoop` may fail; the failure paths
run the same destructors as in the code. The engine is reduced to the number of
messages a request causes, which `Emits` gives.

`ServerRun` adds a thread that sits in `application::run`, as
`src/server/server/application.hpp:66-70` describes it; `main` does not do so.

### Startup

`Server` follows `main`, which starts the application once. `Startup` follows a
caller that keeps calling: `start` after a failure, after success, after `stop`.
`at` is the call of `start` that is next (session, engine, publisher, wiring,
opening, three loops), each of which may fail where the code can; `context` is
the number of the `start` that made the present `io_context_`, 0 for none, and
`socket.context` the one the receiver's socket was made on. `config` is any
receiver type with an address that parses or does not. `loops` are the threads
that run; `pollers` how many the input loop has. A socket is "receiving" once it is
bound and its receive armed on its own context; that a later `start` destroys that
context, and the pending receive with it, shows in `socket.context` alone, so
`NoThreadBeforeBind` says that the socket is bound. Threads are not interleaved
here, `Server` does that. `stop` does nothing unless `started_`: after a `start`
that failed at the second or third loop the threads that run stay until the
destructor.

### JsonCodec and OrderPath

A JSON document is a function from member names to typed values, and a request
a function from its fields to values. The decoder's functions all do the same
with each member (required, optional with a default, refused), so one definition
over the table `Members` stands for the four of them, and one for the four
encoders. A number is converted to an unsigned one modulo `UintMod`, as
`json::get` does it: -1 becomes the largest value. Members that a message type
does not have are not looked at. Sizes are counted in members, which is enough
for the three limits to disagree.

In `OrderPath` the client reads a line, decodes it, encodes the request and sends
it, in one action per line with each way it can end. `flying` is the set of
datagrams under way: `Deliver` leaves a datagram there, so it may come again or
after a later one, and `Lose` takes it away. `outcomes` is the history of what the
session did, with the line each datagram stems from. Other senders use the port
too.

### FixCodec and FixRouting

The same style: a message of any of the layers is a function from its fields, an
empty `std::optional` is a field that is not there, and a conversion is a table of
renamings. `normalize` and `parse` are the two tables of `b3.cpp`, each as it is
written there; the codes are names, so that a reject reason may also be spelled
`01`, which `from_chars` accepts, is left out. A tag-value message is a function from tag numbers, so two fields
with one tag would overwrite each other as in `message::set`.

`FixRouting` is the loop of `test/morfix_quickfix/src/codecs_test.cpp`: an end
takes a message of `order_entry`, converts it to `mor` and `morfix`, encodes it and
hands it to its session; delivery is a direct call, so the decoding and the way
back up at the other end belong to the same action. Sessions are connected and
callbacks assigned at any time, in one direction only if need be. `Foreign` holds
messages that another encoder has made, bad ones among them. The server does not
use this stack yet, and nothing wires `lifecycle_state` to an acceptor: that the
acceptor remembers each request it decodes is this module's composition.

### FixText

A payload is the sequence of the pieces between delimiters: a field with its tag
and text, an empty piece, one without a separator, one whose tag is no number. A
value is a text and the pieces that follow if it holds delimiters itself (`Rests`),
because `encode` escapes nothing. `Set` changes the message the sender owns, its
MsgType tag among the fields too; `Write` builds the text of another encoder piece
by piece; `Receive` is `decode`, a recursive function over the pieces that applies
`decode_field` to each and keeps the first error. `encode` is one over the fields. `FixCodec` and `FixRouting` do not use it: the in-memory sessions hand over
messages, not text.

### MarketDataCodec and MarketFeed

Messages are functions from fields again, with `None` for an empty optional. The
fields, the members that the `encode_*` functions name and the enumerator tables of
`market_data` and of `mmd` are written twice, each from its own header and encoder,
because that they agree, and that no field is forgotten in between, is what
`SameRecords` is about. `MarketFeed` extends `MatchingEngine`: each step of a
handler posts what it emits, `Publish` takes one message, encodes it three ways
and lets the subscriber of each feed read it, and `Attach` makes the subscribers
forget and start anew. `Announce` posts messages for which the server has no
producer yet (security definitions and states). `ReadJson` and `ReadFix` are what a
subscriber does with a line; only the encodings stand for code of the repository.

## 3. Runs

| run | question | result |
|---|---|---|
| `engine_one_book` | do the structures, the streams and the matching rule survive every sequence of requests on one book? | holds, about 280 000 states |
| `engine_two_books` | and when two books share index, pool and streams, a replace moves an order between them, and takers sweep two levels? does every handler end, that of an order without quantity too? | holds, about 231 000 states |
| `engine_total` | is a level's total the sum of its orders? | violated: it wraps |
| `engine_replace` | does a rejected replace leave the original alone? | violated |
| `server` | is anything lost, reordered, posted too late or run too late, in any interleaving of four threads with failing starts? does a stop end, does everything accepted get published, does reception go on? | holds, about 245 000 states |
| `order_path` | does the session act on exactly what the client read, over any network and for any input? | holds, about 105 000 states |
| `fix_routing` | which messages survive the FIX stack unchanged? | all but the ones `Carried` names, about 326 000 states |
| `market_feed` | are the feeds the same, and does a late subscriber know a present top, also where two books share a security_id? | holds, about 57 000 states |
| `startup` | can `start` be tried again without a thread on a closed receiver or a second poller? | holds, 146 states |
| `startup_again` | does the receiver's context outlive it? | violated: `start` replaces it first |
| `fix_text` | which messages does the text codec give back, and what does it make of any text? | exactly the clean ones; the last value of a tag counts, about 392 000 states |
| `server_run` | can `run` and `stop` be used as documented? | violated: two joins of one thread |

The four violations are the project's findings, with the quoted lines, in
`PROJECT.json`. `startup_again` concerns callers other than `main`, which calls
`start` once: `application.cpp:62` emplaces a new context before
`session::setup` refuses to be called twice, so the socket of the receiver that
stays engaged belongs to a context that is gone. `PollerIsSafe` holds all the same:
the `start` that did it fails, and no input thread comes to run.

Bounds. Three identities let two clients share a `cl_ord_id` and one client have
two orders, and are enough for a level with a head, a middle and a tail, of which
any may go. Two prices give crossing, touching and resting on both sides and a
sweep over two levels. `QtyMod = 4` with quantities up to 3 makes totals wrap.
`IdMod` is 1 or 2: no property but the type uses the identifiers, and a larger
modulus only multiplies states. Three nodes suffice for three identities, and
the run is symmetric in them: no definition orders node ids. Requests include a
zero quantity, market orders on both sides, unknown symbols, and replaces that
cross, move sides, reuse an id or name no book. In the server two datagrams make
every pair of pipeline stages busy at once, one of them causes two messages so
that a stop can fall between them, and a third kind is rejected. Both idle
strategies occur: the input loop spins, the others wait. On the order path two lines are enough for one datagram to
overtake the other; the 14 lines are one of each kind of good command, with and
without its optional members, with a negative number, and one for each way to be
refused; the server's limit is one member below the client's, so that only a
replace is too large for it. In the FIX loop three messages let two clients use
one ClOrdID and a third message follow; between them the events have
every optional field present and absent and every exec type. In the market
feed both books go by security_id 0, which is what the decoder makes of requests
that name none; one message may be pending when a request begins, so that a
handler's updates queue up behind an older one and subscribers attach between any
two of them. Four calls of `start` allow a failure, another failure of a later
step, a success and a refusal. The text codec gets two tags besides MsgType, four
pieces, and values that end in a delimiter or go on with rubbish or with a field
of their own, which is each kind of piece in each place the decoder could tell apart.

Fairness. The server's liveness assumes weak fairness of each thread and of the
visibility of each queue: the operating system runs every runnable thread, and a
store becomes visible in finite time. Nothing is assumed of signals or datagrams,
and a receive may fail at any time, after which `ReceptionGoesOn` promises nothing:
the code arms no further receive and reports nothing.
The engine's `FairSpec` assumes that the processing thread goes on with a handler
it has begun. Requests may never come.

`CHECK_DEADLOCK` is on where the system is meant to go on: the engine and the feed
always accept a request when idle, the server ends in `Gone`, and the order path
and the FIX loop end in `Quiet` and `Done`, which stutter. It is off in the runs of
`Startup`, where nothing is left to do once the application is destroyed, and of
`FixText`, which follows one message to its decoding.

## 4. Theorems

`MatchingEngineProofs` proves, for every set of well-formed requests, every
number of books, clients and pool slots, and every width of the integers:

* `TypeCorrect`: `Spec => []TypeOK`. Handlers look up only keys and nodes that
  exist, and emit only well-formed events;
* `OwnershipHolds`: `Spec => []Ownership`. Index, pool and books describe the
  same orders, each once, under its own key and at its own level, also between
  two fills;
* `Invariance`: `Spec => []IndInv`, from which both follow.

The assumptions are `WidthAssumption` (moduli are positive, prices natural),
`RequestAssumption` (requests are well-formed records, configured symbols are
symbols) and, for the refinement and the streams, `NoneAssumption` (None is
neither an order nor a number). TLC evaluates them in every engine run.

`Ownership` is not inductive. `IndInv` adds two facts. `TakerInScope`: while
`match` runs, the taker is an order for a configured symbol whose key is not in
the index. Without it `emplace` in `Settle` could meet an existing entry and
leave the new node unindexed. It holds because acceptance tests `contains`, a
replace erases the original's key first and has tested the new one before, and
fills only remove keys. `EmptiedLevels`: the levels without orders are levels
`match`'s iterator has stepped over, and the levels it has stepped over have no
orders. Without it a fill could take the head of an empty list, and the bulk
erase could drop a level that still has orders. The proof first treats the three
structures as plain values (lemmas `IndexedErase`, `LinkedErase`, `LinkedInsert`,
`CancelUnlinks`, `LinkedBulkErase` and others) and then goes through the handlers
one by one (`NextInv`).

`BookProofs` goes on from there, in the same generality:

* `BookAtRestHolds`, `ArrivalOrderHolds`, `LevelTotalsHold`: `Spec => []BookAtRest`,
  `[]ArrivalOrder` and `[]LevelTotals`;
* `BookInvariance`: `Spec => []BookInv`, from which they follow with `IndInv`;
* `MatchProgress`: `Spec => MatchProgresses`. Each iteration of `match` fills a
  positive quantity and never more than the taker has left;
* `AccountedForHolds`: `Spec => []AccountedFor`, from `AccountInvariance`.

`BookAtRest` says nothing while `match` runs, and so cannot be inductive. `BookInv`
says of the levels themselves, at any time, that no bid level reaches an ask level
(`Uncrossed`), that every node has quantity left (`Live`), that a level lists its
orders by arrival (`Ordered`) and that its total is the wrapped sum (`Summed`). The
taker that crosses is not in the book, so this holds inside `match` too. The step
that matters is the placing of the residual in `Settle`: the loop ends with
quantity left only when no crossing level has orders, and by `EmptiedLevels` the
levels without orders are the ones the bulk erase removes. For `Summed` a removal
in the middle needs that wrapped subtraction takes wrapped addition back, and the
witness for the shorter list is written down explicitly.

`MatchProgress` rests on `Live`: the head of the list that `match` looks at is an
order at rest, which has quantity left, and the loop runs only while the taker has
some. It bounds the iterations of one handler by the quantity of its order, for
every book. This is the part of `HandlerReturns` that is about the code; what is left
to TLC is that a thread that can take a step takes it.

`AccountedFor` speaks of the end of a handler. `AccountInv` says what leads there:
while `match` runs, what has left the taker is what the trades so far add up to
(`Dealt`), no summary and no trade report is out yet (`Unreported`), and no price
the iterator can still reach is better for the taker than one traded at
(`PricedInOrder`). The sum of the trades is a recursive function over the events.
That one more event adds what it traded (`TradedAppend`) needs that two functions
that satisfy the recursion agree, which is proved by the least place where they
would differ, without an induction schema.

The second half of `BookProofs` proves `Refinement`: `Spec => ImplementsPriceTime`.
Each action of the engine is mapped to its action of `PriceTimePriority` or to a stutter, with
orders read through the index. `HistoryInv` is needed in addition: the relation
`earlier` is over orders at rest only, and asymmetric. With `ArrivalOrder` it gives
that nothing at a level precedes the head of its list, and with `Uncrossed` and the
definition of the best level that nothing tradable precedes it at all.

`RejectedOnlyWithoutBook` bounds the finding of `engine_replace`: after any handler, a
reject that is not unknown_order leaves its original at rest, unless the replacement
names a symbol without a book. `RejectInv` adds that nothing is emitted between two
requests and no reject before `match` has ended.

`MarketFeedProofs` proves, for every set of requests and any number of books, under
security ids of their own or shared, any length of the output queue and any time
of attaching:

* `ViewIsTopHolds`: `Spec => []ViewIsTop`, from `ViewInvariance`;
* `FeedTypeCorrect`, `SameRecordsHold`, `SubscriberKnowsATopHolds`:
  `FeedSpec => []FeedTypeOK`, `[]SameRecords` and `[]SubscriberKnowsATop`, from
  `FeedInvariance`.

`ViewInv` says when the last update of a side is its top: always, except on the
side that `match` is still eating, whose update comes with `Settle`
(`BeingEaten`), and after a flush, which sends none (`Hushed`: the side is then
empty). `ExactView` says so of a book with a security_id of its own; `SharedView`
of books that share one, where the picture is that of some book. Both are needed
between the steps of a handler, since a replace moves two tops in one request.
`FeedInv` takes it over the queue: for each feed and side, either no update is on
its way and the subscriber knows the latest top, or the last update on its way
shows it. Encoding and reading a message is proved to give the top it carries, one
feed at a time. `FeedAssumption` types the constants (identifiers are natural
numbers, the empty optional is no enumerator and no date) and says that an
announcement is a message that is not about a book of the engine: the server has
no producer of announcements yet, and the engine is the only source of its books'
updates.

`ServerProofs` proves, for every set of requests and of messages they cause, any
bound of the datagrams and either idle strategy in each loop:

* `ServerTypeCorrect`: `Spec => []TypeOK`;
* `StagesOutliveTasksHolds`: `Spec => []StagesOutliveTasks`;
* `NoPostAfterDrainHolds`: `Spec => NoPostAfterDrain`, an action property;
* `PublishedInOrderHolds` and `NothingLostAtStopHolds`: `Spec => []PublishedInOrder`
  and `[]NothingLostAtStop`, from `FlowInvariance`.

`ServerInv` adds what the order of starting and stopping establishes. `MainOrder`
ties the main thread's position to the loops: up to the last step of `start` there
is no input thread; in `stop` the loops before the present one are joined and those
after it are still told to run. `QuietWithoutInput`: without an input thread, no
queue holds a task, which is why a `start` that fails half-way may destroy the
stages before the loops. `EmittingInTask`: market data is posted from a task of the
processing loop. `FlagSeen`: a loop drains only after it was told to stop. The
assumption is `ServerAssumption` (three loops, each with one of the two idle
strategies; a request causes some number of messages).

`FlowInv` follows the data. `Handed`: the processing queue is what was accepted
beyond what is processed. `Lists`: the messages published, in the output queue and
still to be posted by the running task, read in a row, are exactly the messages of
the processed requests, in order. `Drained`: a loop that drains sees its whole
queue, and one that has ended has left nothing; this rests on `synced`, which is
set because each loop is stopped only after its producer was joined. A message is
named by the request it belongs to and its number there, so that order and
completeness are statements about pairs of numbers and no list has to be built.

`StartupProofs` proves `PollerIsSafeHolds` and `NoThreadBeforeBindHolds` for any
number of calls of `start`. `StartupInv` adds how far a `start` under way has come
(`InStart`), that before the first set-up everything is untouched (`Untouched`), and
that an input thread runs only between the end of `start` and `stop`, when another
`start` is refused (`InputOnlyStarted`). The argument is that only the first `start` to pass
`session::setup` can reach `Wire` or a loop. `ContextSafeOnce` bounds the finding of
`startup_again`: until `start` is called a second time, the receiver's context is the
living one.

`OrderPathProofs` proves, for every input, every set of other senders, every
setting of the three limits and every width of the integers:

* `RoundTrip`: decoding the encoding of a request gives the request back;
* `RelayHolds`: `Spec => []RelayExact`;
* `PrefixHolds`: `Spec => []SentIsPrefix`;
* `DefaultsHold`: `Spec => []DefaultsAgreeWithEngine`;
* `PathTypeCorrect`: `Spec => []TypeOK`.

The assumptions are `CodecAssumption` (the width is positive, the default exchange
is a name) and `PathAssumption` (lines are documents of integers and strings, or
no documents). `RelayExact` speaks of outcomes only; `IndInv` adds `FlyingOK`, that
a datagram of the client is the encoding of the request on its line, and that this
line decodes. It survives the growth of the input because lines are never changed,
and gives `RelayExact` at delivery by `RoundTrip`. `DefaultsAgreeWithEngine` then
follows without an induction of its own.

`FixRoutingProofs` proves, for every set of messages and of foreign messages, every
set of names and texts, every width of the integers and any number of messages
sent:

* `RoundTrip`: what the decoder of the other end and the conversions above it make
  of an encoded message: the message itself, or a refusal if a name is empty;
* `OnlyWellFormed`, `CarriedHolds`, `CorrelatedHolds`: `Spec => []TypeOK`,
  `[]Carried` and `[]Correlated`, from `RoutingInvariance`.

The tables are compared entry by entry (no tag, type or code is used twice where
it is read; every code that is written is read), the rest of the codec is proved
over any field of its kind. `DecodedWell` is the counterpart for a message that
any encoder has made. `RoutingInv` relates the two histories: an item of an inbox
stands for an entry of the log that was heard (`Genuine`), for no other item's
(`AtMostOnce`), and each entry that was heard has its item (`AtLeastOnce`); whether
an entry was heard depends on the entry alone. The assumptions are
`CodecAssumption`, `TextsAssumption` (the empty text is a text) and
`RoutingAssumption` (each end sends messages of its kind; the texts in foreign
messages are texts).

`FixTextProofs` proves, for any set of tags, types, texts and values, messages of any
number of fields and payloads of any length:

* `OneValuePerTagHolds`, `ExactWhenCleanHolds`, `DecodeTakesLastHolds`:
  `Spec => []OneValuePerTag`, `[]ExactWhenClean` and `[]DecodeTakesLast`;
* `TextInvariance`: `Spec => []TextInv`, from which they follow.

`TextInv` ties the four variables together: the message has no tag twice, a payload
that was sent is still the encoding of the message, and what was received is the
decoding of a payload that is not empty. The last word is needed: without it a
payload could be sent again under an answer that is already there. The weight is in
what `decode` and `encode` compute. That their recursive functions exist, and what
they hold after k steps, is proved without an induction schema, by the least k for
which it would fail (`NoneBad`). For the decoder the statement is `Good`: after k
pieces it has failed if and only if one of them is no field; otherwise MsgType is
the one given last, the fields are the tags given so far, each once and with its last
value, and of two fields every place of the later one has a place of the earlier one
in front of it. `GoodStep` goes through the kinds of pieces: empty, no field, MsgType,
a tag that is there, a new one. `ExactWhenClean` needs both directions: the text of a
clean message is one piece for its type and for each field, and after each piece the
decoder has the prefix of the message up to it (`CleanDecode`); what the decoder
accepts is always clean (`DecodedIsClean`), so no other message can come back. The
assumption is `FixTextAssumption`: 35 is not among the tags, the empty text is a value
and no type, and what follows a delimiter within a value is made of pieces.

Only model-checked:

* liveness, out of the prover's reach (`HandlerReturns`, `StopCompletes`,
  `AcceptedIsPublished`, `ReceptionGoesOn`);
* that the four properties expected to be violated are, each by its own run.

## 5. Not modelled

* asio gives no guarantee for one socket used by two threads. The model takes
  `cancel` and the re-arming as atomic and explores their orders.
* The ef_vi receiver is a stub whose `open` fails, and is modelled as one.
* What a sink does after `publisher.send`: `published` means handed to it.
  `docs/runtime-startup.md:163` ends the shutdown with a flush of the publisher,
  for which `application::stop` has no step and the publisher no operation; the
  standard-output sink flushes with each record (`spdlog_sink.cpp:20-21`).
* Exhausted memory: `std::bad_alloc` ends the process through the task.
* `Server` starts once, as `main` does; `Startup` starts again but does not
  interleave the threads. A `start` that meets running threads fails at
  `session::setup`, before it touches a loop.
* Sinks, logging, configuration files and command-line parsing: pure I/O and a
  JSON library. The models begin with a configuration that has been read.
* The utilities of `src/lab/lab` other than the event loop and the queue: type
  wrappers (`strong_type.hpp`, `fixed_string.hpp`), error plumbing (`result.hpp`,
  `variant.hpp`), logging and JSON reflection. They keep no state of the system.
* JSON numbers with a fraction, and numbers beyond 64 bits, which the JSON
  library turns into floating point; the wording of rejections.
* The ExecID counter of `morfix` (`morfix/src/session.cpp:7-10`): nothing calls it.

## 6. Plan

1. *Core* (done): `MatchingEngine`, `PriceTimePriority`, `EventLoop`, `Server`,
   `ServerRun`; types, ownership, the books, the streams, the refinement and the
   server's pipeline proved.
2. *Order entry* (done): `JsonCodec`, `OrderPath`, with their proofs.
3. *FIX* (done): `FixCodec`, `FixRouting` and `FixText`, with their proofs.
4. *Market data* (done): `MarketDataCodec` and `MarketFeed`, the engine composed
   with its three feeds, the default security_id included, with their proofs.
5. *Life cycle* (done): `Startup`; its proofs and those of `Server`.
6. Left: the composition of `OrderPath` with `MatchingEngine`, to show what a
   repeated datagram does to the books.
