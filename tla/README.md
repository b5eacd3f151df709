# Formal models of itch-lob-engine

TLA+ models of the engine's order books, its lock-free pipeline, its lossy
feed receiver, its file sources, its query server and its execution layer; the TLC runs that
check them on small instances; and TLAPS proofs of the central promises for
every value of the constants. Paths such as `include/book/order_book.hpp` are
relative to the repository root.

```
tlc -workers 2 -config MCBooks.cfg MCBooks     # one model-checking run
tlapm BookProofs.tla                           # one set of proofs
```

`PROJECT.json` lists components, runs, theorems and hazards, maps each
definition to the lines it models, and gives for each checked property a
mutation of the model, standing for a plausible bug, that violates it.

## 1. Inventory

| Component | State | Operations | Hard behaviour |
|---|---|---|---|
| `book::OrderBook` (`include/book/order_book.hpp`) | `orders_` (reference -> order), `bids_`/`asks_` (price -> shares, count) | add, execute, cancel, remove, replace; getters | two redundant descriptions of one book; unsigned counters; replace is two mutations, the second may be refused |
| `book::LadderBook` (`include/book/ladder_book.hpp`) | arrays of levels over a price range, cached best indices, level counts | the same, plus growth of the range | re-homing moves every slot and every index; the range snaps to a tick grid, saturates at the ends of `uint32_t`, stops at `kMaxTicks` |
| `BookBuilder`, `BookTable`, `dispatch_to_book` (`include/pipeline/`) | one book per locate, `touched`, `unknown_refs` | one handler per message type | two dispatch paths (direct, through an envelope) meant to agree |
| ITCH parser (`include/itch/parser.hpp`) | none | `dispatch`, `parse_stream` | type and length checks decide whether a frame touches a book; the loop stops at a frame of length zero |
| File sources (`include/io/`), `replay` | descriptor, mapping, `pending` | open, run: read, inflate, parse, carry; release | frames split by reads and chunks; cut and damaged files; each call may fail |
| `pipeline::SpscQueue` | ring, `head_`, `tail_` | push, pop, size | two threads, acquire/release visibility, full against empty |
| `pipeline::run_pipeline` (`threaded_replay.hpp`), `replay_threaded` | the queue, `producer_done`, the result of each thread | parser thread, builder thread, join | the flag races with the last elements; both sides spin; the source may throw on the parser thread |
| `net::MulticastReceiver`, `net::MoldUdp64Receiver` (`multicast_receiver.hpp`) | two sockets, `next_seq_`, `pending_`, `finished_` | construction; poll: buffer, gap fill with attempts and a deadline, drain | loss, duplication, reordering, late replies, a cap |
| `live_replay`, `multicast_sender` | the books, `g_stop`; the messages sent | the poll loop, the SIGINT handler; send_all, serving requests | a late join, Ctrl-C inside a gap fill, a sender that has gone, a constructor that fails half way |
| `pipeline::SnapshotStore` and `replay_query` | the last published books, a version | publish, locked reads; the ingest loop | an answer is several critical sections |
| `net::QueryServer` | listening socket, accept thread, `conn_threads_`, stop flag | start, accept loop, connection threads, reap, stop | stop() races with accept, with blocked threads and with lines already buffered |
| Strategies (`include/exec/twap.hpp`, `vwap.hpp`, `pov.hpp`, `almgren_chriss.hpp`) | schedule, next bin or shares sent, a bounded child queue | on_tick, advance, drain | rounding, uneven windows, a full queue in the middle of due bins |
| `exec::RiskGate` | limits, reference price, totals, kill switch | check, record, apply, reset, set_reference_price | check and record apart, a push that may fail between them, a latch |
| `exec::FillSimulator` | last quote and print, fills, totals | on_bbo, on_trade, fill | a bounded fill queue and 32-bit totals |
| Differential fuzzer (`fuzz/fuzz_differential.cpp`) | a table of each kind of book, marked locates | apply_and_diff | one book may refuse what the other takes |
| Synthetic session, benchmark (`bench/`) | pools of open orders; a fresh table per pass | generate; warm-up and measured passes | the pools must track what the books will hold |

Who calls whom: a source gives frames to the parser; the parser calls a
handler (`BookBuilder`, `QueueProducer` or the publishing handler of
`replay_query`); a builder owns one book per locate. `run_pipeline` puts
`SpscQueue` between parser and builder. `live_replay` takes its frames from
`MoldUdp64Receiver`, which asks `multicast_sender` for what it missed. The
fuzzer and the benchmark put both kinds of book through the same frames. `replay_query` publishes copies of the books into
`SnapshotStore`, which the threads of `QueryServer` read. Market data drives
the strategies, whose children go through `RiskGate` to `FillSimulator`.

What makes each part correct:

- books: levels are an exact summary of the resting orders after *any* message
  stream; both implementations show a caller the same book until a price comes
  that the ladder may not hold; arrays stay bounded whatever the wire says;
- sources: every frame once whatever splits it; success means the whole day;
  nothing is leaked and nothing is read after its release;
- pipeline: nothing lost, duplicated or torn; it ends; the result is that of
  the single-threaded replay;
- receiver: each message exactly once and in order; bounded memory; every gap
  closed in the end; the books are at any exit those of a prefix of the
  session; Ctrl-C works;
- query server: snapshots are prefixes of the file and recent; nothing of the
  server runs after stop(); no thread is lost; the limit holds; slots come
  back; stop() returns;
- execution: a strategy never runs ahead of its schedule or exceeds its
  parent, and completes; limits are hard; a breach stops everything until
  reset(); fills and their totals agree.

## 2. Modules

| Module | Models |
|---|---|
| `BookTypes` | sides, orders, levels, maps as functions with erase and insert |
| `BookOps` | the mutators and getters of `OrderBook` as operators on book values, so that `replace` is remove followed by add as in the code, and a table of books can use them |
| `BookSpec` | abstract: resting orders only; every getter is *defined* from them |
| `OrderBook` | one book as a state machine, one action per mutator |
| `LadderOps` | the mutators, growth and getters of `LadderBook` as operators on ladder values |
| `Ladders` | the ladders of one configuration, under a name of their own beside `BookOps`; their getters |
| `LadderBook` | one ladder as a state machine |
| `BookBuilder` | `dispatch`, the handlers, `BookTable`, `dispatch_to_book`; `Sequential` is what one pass over a sequence of frames gives |
| `Differential` | `BookOps` and `LadderOps` side by side: `BookTraits<LadderBook>`, the two tables, the fuzzer's handler |
| `SyntheticSession` | the generator of the benchmark's input |
| `BookComparison` | `Differential` + `SyntheticSession`: the fuzzer and the benchmark's passes |
| `BookProofs` | the proofs about both books, the fuzzer and the benchmark |
| `FileSource` | `GzipSource`, `MmapSource` and the whole-file read, with `parse_stream` |
| `FileReplay`, `FileReplayProofs` | `FileSource` + `BookBuilder`: `replay`, and what `replay_query` and `replay_threaded` share with it |
| `BoundedFifo` | abstract: a FIFO of Capacity - 1 elements |
| `SpscQueue` | push and pop split at each shared access |
| `ThreadedReplay`, `ThreadedReplayProofs` | `SpscQueue` + `FileReplay` + the two threads, the flag and the joins |
| `MoldReceiver` | receiver, sender and network |
| `LiveReplay`, `LiveReplayProofs` | `MoldReceiver` + `BookBuilder` + the life of the two processes |
| `SnapshotQueries`, `SnapshotQueriesProofs` | `FileReplay` + the store + publishing ingest + `handle_line` |
| `QueryServer`, `QueryServerProofs` | the server's threads |
| `ChildOrderQueue` | the capacity of the queue strategies and gate fill |
| `Strategies` | Twap, Vwap with its curve, Pov, AlmgrenChriss (uniform trajectory) |
| `RiskGate` | the gate and `apply` |
| `FillSimulator` | the simulator |
| `ExecChain` | gate in front of simulator, with the single-threaded caller that connects them |
| `ExecProofs` | the proofs about gate, chain and strategies |
| `FoldLemmas` | induction over the natural numbers, and what the folds and sums of the community modules give; used by the proofs |
| `MC*` | instances for TLC |

How state and actions correspond to the code:

**OrderBook.** `book` is the object (`orders_`, `bids_`, `asks_`), `ret` the
boolean the last mutator returned. The inputs are arbitrary: duplicate
references, unknown ones, executes larger than the order, size zero. The clamps
and early returns are those of `reduce`, `sub_in` and `remove`.

**LadderBook.** `lad` is the object, `lret` what its last mutator returned;
`grow_to_include` contains the whole of the
code's growth, copying and re-basing of indices included; when a
level empties, `next_best` is the slot the code's retreat stops at. `window_pct` is a
rational and prices are natural numbers saturating at `UINT32_MAX`.

**Differential, SyntheticSession, BookComparison.** `reference` and `candidate`
are the fuzzer's two tables; `make` is `BookTraits<LadderBook>::make`, so every
ladder is sized by the first message of its locate. `apply_and_diff` is the
whole of the handler: both books, the marking of a locate, the comparison of
the getters and the abort. A generated session is a sequence of frames chosen
as the random draws allow; a pass folds the handler of the benchmark, one for each
type of book, over it.

**FileSource, FileReplay.** A file is its decompressed bytes, how much of them
each `fread` makes available, and what follows them (end marker, nothing,
damage). `src` is the source with its place in the code: the constructors' calls
one by one, then read, inflate, parse and carry. `inflate` is external; the
model has what the loop sees of it: output until the chunk is full or the input
used up, the end marker only after that. `held` is the set of descriptors and
mappings. `phase` and `status` are those of `main`.

**SpscQueue.** An acquire load may return any value of the other thread's index
that coherence allows. `tailSeen` and `headSeen` are how many of the other
side's stores are visible, and grow in the actions `SeeTail` and `SeeHead` of
their own. A slot is *ordered* for a thread when the store that hands it over
is visible. Touching a slot that is not ordered is a data race, whose outcome
is `Torn`, an arbitrary value. `size()` is evaluated from both sides.

**ThreadedReplay.** One action per step of each thread between two shared
accesses. Loading `producer_done` as true makes every earlier store of `tail_`
visible (acquire/release); it may be loaded as false for a while after it was
stored. Corrupt frames and skipped ones are envelopes with their type byte, as
`on_other` pushes them. The source runs on the parser thread; when it throws,
the process is terminated (`ParserThrows`), since the only try block is on the
main thread.

**MoldReceiver.** A packet `[seq, n]` carries the messages seq .. seq+n-1.
`onWire` is how much was multicast; the network gives the receiver any packet
already sent, any number of times, in any order, or none. Requests and replies
are sets from which an element may be lost or taken late. `resolve_gaps`, the
attempts with their deadline (`Timeout`) and the drain (`DrainOne`, one packet
a step) are separate steps since
packets of the channel arrive between them; calling the handler on
a packet's messages (`applied`) is part of the drain step.

**LiveReplay.** `ReceiverCalls` and `SenderCalls` list the constructors' system
calls in order, each with what it opens and what its failing path closes;
`OpenReceiver` and `OpenSender` walk them. `joined` is how much had been sent when the
group was joined: of that, only retransmissions reach the receiver. `Sigint`
may happen at any moment; the loop looks at `g_stop` where the code does.

**SnapshotQueries.** Each critical section of the store's mutex is one step.
`handle_line` reads the store several times, so an answer is a sequence of
steps of its connection between which the ingest thread may publish.

**QueryServer.** `accept` and `worker[c].pc` are the places where the threads
block or look at `stop_requested_`; `conn_threads` and `joining` are the two
lists a thread may be in; `main` is the thread that owns server and store.
poll, recv and send return any result the code distinguishes.

**Strategies.** A parent is a record with its kind; `advance` and the tick
handlers compute the shares due with the code's integer arithmetic (floating
point where it is exact is a rational) and push until the queue is full.
`emitted` and `clock` are histories.

**RiskGate, FillSimulator, ExecChain.** `in` is what `apply` has still to look
at, one child per step; `passed` (history) is the shares and notional the accepted queue
took since the last reset, `breach` the totals at the first cumulative breach. In `ExecChain` the caller walks the accepted orders, hands each
to the simulator and clears the queue; quotes and prints arrive
between two batches. The share counters wrap at `ShareMod`, the 2^32 of the code.

## 3. Runs

Twelve runs. Six pass; each of the other six shows a disagreement between the
code and one of its own comments, and the passing runs check what does hold in
its place. Components that share no state are checked by one run: in `MCBooks`,
`MCQueries` and `MCExecution` a variable `part`, chosen once at the start, says
which of the two a behaviour exercises, and the other stays as it was built.

| Run | What it shows |
|---|---|
| `books` | `OrderBook` and `LadderBook`. Any message sequence leaves the levels of the first an exact count and sum of the resting orders. In the second every order has a slot in range and on the grid, and slots summarise orders. The getters of both, the cached best indices included, are those of `BookSpec` (refinement; the ladder may refuse). |
| `book_comparison` | Under any frames the two kinds of book agree until a locate is marked (`BooksAgree`); what marks it is always a price without a slot and never anything else (`DivergenceIsPolicy`), which the harness says it cannot tell; no ladder passes the ceiling although its constructor checks nothing (`LaddersBounded`); every message of a generated session applies, in every pass and to both kinds of book, and the books end as the generator's pools (`SessionIsLive`). |
| `threaded_replay` | For every delay of visibility: no slot race, FIFO delivery, `size()` is an upper bound for the producer and a lower one for the consumer, the builder never exits before the last frame, success means the books of the single-threaded replay of the whole file, the ring implements `BoundedFifo`, and the process ends, also when the source throws. |
| `threaded_corrupt` | *violation*: section 6, finding 1. |
| `mold_receiver` | The two processes with everything that can go wrong between them: every message once and in order, nothing stale in `pending_` unless a batched packet overtook a reply (`StaleOnlyByBatch`), at any exit the books of messages 1 .. next_seq_ - 1 and no socket left open, and Ctrl-C always ends `live_replay`. |
| `mold_cap_full` | *violation*: finding 2. |
| `mold_batched` | *violation*: finding 3. |
| `mold_no_retry` | *violation*: finding 4. |
| `queries` | `SnapshotQueries`: `pending` is between two chunks exactly the incomplete frame (`CarryIsTail`); success means every frame of the file and, for a .gz file, a complete day; mapping and descriptor are held as long as they are read and released on every path; the served snapshot is a prefix of the file no older than the cadence; the last one is the final state; the parts of an answer are of one snapshot unless a publish came between their reads, and then a quote's version and `unknown_refs` are never older than its book (`TornOnlyByPublish`). `QueryServer`: after stop() no thread of the server runs or touches the store; every thread is in exactly one joinable list; the limit holds; slots come back; stop() returns. |
| `torn_answer` | *violation*: finding 5. |
| `execution` | `Strategies`: schedules, completion and budgets under any order of ticks, full queues and drains; the budget of an AlmgrenChriss up to what its rounding may add (`Overshoot`). `ExecChain`: limits, the latch and the gate's accounts; every fill within its limit price; fills and totals agree up to the capacity and the width. |
| `almgren_rounding` | *violation*: finding 6. |

### Bounds and why they are enough

For every safety property of a passing run the proofs of section 4 remove the
bounds; they matter for the liveness properties, and as a check that the
properties are about situations that occur.

- `books`, `OrderBook`: three references, two prices, sizes 0..2. Two orders share a
  level while a third rests elsewhere; each size class (zero, partial, exact,
  too large) occurs.
- `books`, `LadderBook`: ticks of 2, 16 price values, ceiling of 7 slots. Prices lie
  below, inside, above, off the grid and at the top of the type; one pair of
  prices needs exactly the ceiling and another one slot more. References are
  interchangeable (symmetry) in both, and nothing checked there is a liveness
  property.
- `book_comparison`: two references and two locates for the fuzzer; prices of
  zero, off the grid, above `kMaxSanePrice`, and two that a ladder built around
  one can just reach from the other with the ceiling's 19 slots. Sessions of three
  messages over two symbols: an order can be added, reduced or replaced, and removed.
- `threaded_replay`: all mapped files of up to two frames over every frame type, and
  files of six frames over a ring of four, which fill it and go round, through
  every source; .gz files whole, cut at a frame boundary and inside a frame,
  damaged and followed by part of a frame. `threaded_corrupt` uses a ring of two.
- `mold_receiver`: four packets, the second with two messages, a cap of three
  packets, two attempts, requests of at most two messages: gaps of one and of
  several packets, a full map, a gap larger than one request, and a reply
  buffered inside the batched packet before that is applied all occur.
  Each of the five messages changes what the ones after it do to the book, so
  a message left out or repeated shows.
  `mold_batched` has the first three of these packets. `mold_cap_full` and
  `mold_no_retry` use three packets of one message, as the repository's sender
  sends them, with a cap of two and of three.
- `queries` and `torn_answer`, answers: fourteen files over all kinds of source, three chunk sizes
  that split prefixes and payloads, cadences 0 (off), 1 and 2, one client:
  readers do not change the store, so a second one adds nothing.
- `queries`, threads: three clients, a limit of two, two lines per recv: an
  admission is refused, a slot is reused, stop() finds threads at every place.
- `execution` and `almgren_rounding`, strategies: a queue of two, at most four
  bins (five are refused by the constructor), windows that are and are not
  multiples of the bin, shorter and longer than the curve's thirteen buckets,
  participation below and above 100%. Among the parents are AlmgrenChriss of 0,
  2, 5 and 7 shares over three and four bins, so that the clamp of the last bin
  does and does not bite.
- `execution`, chain: five orders, batches of at most two, an accepted queue of two,
  one fill slot, `MaxAttempts` = 3 attempted fills, counters that wrap at 7.

A bound on a counter is a constant of its module (`MaxItems`, `MaxAttempts`,
`MaxLines`, `kTotalMessages`) and appears in the guard of the action it bounds.
`threaded_replay` has `MaxItems` at the longest file, so it cuts nothing off.

### Fairness

- `ThreadedReplay`: weak fairness of main, of each thread, of the joins and of
  visibility. The operating system keeps scheduling both threads, and the C++
  standard says stores become visible in a finite time.
- `MoldReceiver`, in two of the violation runs only. Both processes run on
  (`RunsOn`, weak fairness), a message requested again and again is
  retransmitted and its reply read (`RequestsAnswered`, strong fairness):
  `mold_no_retry` shows that the gap stays open all the same.
  `mold_cap_full` assumes in addition that the newest packet is received again
  and again (`FeedGoesOn`), which makes `poll` look for the gap for ever. The
  repository's sender does not do that; the assumption is there to show that a
  feed that goes on would not help either.
- `LiveReplay`: weak fairness of the receiving process alone (its calls return,
  a wait for a reply is over in the end, a drain goes on, a loop whose condition
  fails is left). Both sockets have a receive timeout, so no `recv` blocks for
  ever. Nothing is assumed of sender and network: `StopIsNoticed` holds against
  a sender that is gone.
- `QueryServer`: weak fairness of each thread; poll and recv have timeouts
  in the code. That a blocked `send` returns is an assumption on the client,
  which reads or goes away: the code sets no send timeout. `StopReturns` rests
  on it; `SlotsComeBack` needs only the accept loop and stop().
- Elsewhere nothing is assumed: the remaining runs check safety only.
  `FilledByEnd` says what one call at the end of the window has done, and is
  an action property.

## 4. Proofs

All proofs hold for every value of the constants that meets the named
assumption of the module. TLC evaluates these assumptions in its runs. Each
inductive invariant below is proved in three steps: Init establishes it,
every action keeps it, it implies the promise.

| Property | Specification | Theorem |
|---|---|---|
| `LevelsCountOrders`, `LevelsSumShares`, `ImplementsBookSpec` | `OrderBook` | `LevelsExact`, `SharesExact`, `Refinement` |
| `SlotsMatchOrders`, `LadderImplementsBookSpec` | `LadderBook` | `SlotsMatch`, `LadderRefinement` |
| `BooksAgree`, `LaddersBounded`, `DivergenceIsPolicy`; `SessionIsLive` | `BookComparison` | `BooksNeverDisagree`, `LaddersStayBounded`, `DivergenceOnlyByPolicy`; `SessionLive` |
| `NoSlotRace`, `FifoDelivery`, `SizeBrackets`, `ImplementsFifo` | `SpscQueue` | `NoRace`, `InOrder`, `SizeIsBracketed`, `Refinement` |
| `NoSlotRace`, `FifoDelivery`, `SizeBrackets`; `DrainedAtExit`; `SourceIsHeld`, `CarryIsTail`; `SuccessIsWholeDay` | `ThreadedReplay` | `ThreadsKeepQueue`, `DrainedTheorem`, `ThreadsKeepSource`, `ThreadedWholeDay` |
| `InOrderExactlyOnce`, `PendingBounded`, `StaleOnlyByBatch`, `NothingStale` | `MoldReceiver` | `ExactlyOnce`, `CapHolds`, `StaleNeedsABatch`, `SinglesNeverStale` |
| `InOrderExactlyOnce`, `PendingBounded`, `StaleOnlyByBatch`; `ExitIsClean` | `LiveReplay` | `LiveExactlyOnce`, `ExitsClean` |
| `CarryIsTail`, `SourceIsHeld`, `SuccessIsWholeDay`, `ServedIsRecent`, `FinalIsServed`, `TornOnlyByPublish` | `SnapshotQueries` | `CarryTheorem`, `HeldTheorem`, `WholeDayTheorem`, `RecentTheorem`, `FinalTheorem`, `AnswersTheorem` |
| `QuietAfterStop`, `ThreadsAreOwned`, `CapHolds` | `QueryServer` | `StopIsQuiet`, `NoThreadLost`, `Capped` |
| `LimitsHold`, `TotalsAreOfTheSent`, `NothingAfterBreach` | `RiskGate`, `ExecChain` | `HardCeiling`, `AccountsExactly`, `KillSwitchHolds`; `ChainGate` |
| `FillsRespectLimits`, `TotalsMatchFills` | `ExecChain` | `FillsTheorem`, `TotalsTheorem` |
| `DoneMeansAll`, `NeverAhead`, `FilledByEnd` | `Strategies` | `AllSent`, `WithinSchedule`, `VwapFills` |

The type invariants of `OrderBook`, `MoldReceiver`, `QueryServer`, `RiskGate`
and of the ring are theorems as well (`TypeCorrect`, `QTypeCorrect`), and so is
the cap on `pending_`; these need no run.

**FoldLemmas.** Several models are folds or recursive functions over data: the
books after a sequence of frames, the frames of a file, the sum of the shares
at a price. The library's induction rules take an operator, which the provers
here cannot instantiate; `NatInduct` states induction for a *set* of naturals,
which they can, and follows from the well-foundedness of `<`. From it come
what the folds of the community modules give for one more element
(`Step` is a constant, so each proof module instantiates the lemmas with its
own step), and the sum over a finite set when one element is added, removed or
changed. A sum over a set is defined through `CHOOSE`, so these lemmas first
show that its value does not depend on the order of the elements. The module also
has what division by a divisor that is no numeral needs, and sums over intervals.

**BookProofs, one book** (`Ref` finite; prices and shares natural numbers).
`BookInv` consists of `WellFormed`, `Counted` (a level's count is the
cardinality of the set of orders at its price) and `Summed` (its shares are
their sum). Type correctness needs the other two: the counters are unsigned,
and `sub_in` must never meet a count of zero or take more shares than a level
holds. That the sum is exact is also why the clamp in `sub_in` never bites.
Lemmas are about book values (`AddKeeps`, `ReduceKeeps`, `RemoveKeeps`), so
`replace` follows by composing two of them. The refinement maps the orders to
themselves and the getters to `view`; each mutator is then the abstract action
of its name, refused calls included.

**BookProofs, the ladder** (any tick, 0 included, any window, any ceiling;
`LadderAssumption`: prices are `uint32_t`). The invariant is that the ladder is
the ladder *of a book*: `LadderOf(lo, hi, b)` is the image of an OrderBook value
b over a range that starts on the grid, with the best slots and the level
counts that b determines, and `IsLadder(L, b)` says that L is that image for a
range every level of b has a slot in, and that `BookInv(b)`. One lemma for each
mutator shows that it turns the ladder of b into the ladder of what the mutator of
`BookOps` makes of b: growth re-homes every slot and index without changing b
(`LadderResize`), a new order moves the cached best slot only when it must
(`BestAdd`), and the search for the next best slot after an emptied level finds the
best price of the levels left (`BestSub`). With this the ladder needs no second
argument: its slots are exact because the levels of b are, its getters show
what those of b show (`LadderShows`), and the refinement of `BookSpec` is the
one of `OrderBook` with refusals.

**BookProofs, the comparison.** `FuzzInv`: the ladder of a locate is the ladder of the
locate's OrderBook unless the locate is marked, and of some book in any case, with at
most `kMaxTicks` slots. A frame makes both answer alike, or leaves them one
order apart, which the OrderBook took and the ladder has no slot for
(`OneApart`); that is `DivergenceIsPolicy`. Assumption (`TraitsAssumption`):
the window around the largest price `make` accepts fits under the ceiling, in the code
600,002 slots of 8,000,000; the constructor checks nothing, so `LaddersBounded`
is false without it. `SessionInv`, for the benchmark: each pool names every order
once, by a reference drawn before `next_ref`, and the tables that the frames
so far give, of both types, hold exactly the pools. That `swap_remove` takes out the order
picked is in `PoolShrinks`, where the references must be distinct. The ladders
must never refuse: both ends of a ladder's range are always those of windows
around prices drawn for the symbol (`Ranged`), and by `SymbolsAssumption` any
two of those leave room. The assumption is about the table of symbols: prices
from a dollar amount of 118.75 to 625 with five per cent around them, on the
grid of the ladders.

**FileReplayProofs** holds the lemmas both replays use. `SourceInv` says where
the source is in the file: `pending` is a window of the content that ends with
what has been inflated (`GzipWindow`), begins on a frame boundary and holds no
complete frame between two calls of `parse_stream` (`GzipWalk`), and the frames
ahead of it are those the handler has not had (`Position`). The point is that
walking a cut-off prefix of a file reaches the same boundaries as walking the
file as far as both go. `Reach` and `Rest` name the recursive functions behind
`frame_boundary` and `parse_stream`; induction over the offset shows that they
are well defined and give on a window what they give on the whole. `HeldInv` gives for each place of the
program what is open; `PhaseInv` ties success to a source that is done.
Assumption (`SourceAssumption`): contents are bytes, chunks are not empty, and
the reads of a .gz file make more and more of its content available, in the
end all of it.

**SnapshotQueriesProofs.** `SystemInv` adds to it: the books are those of the
frames handled (`BuilderInv`), the store holds the last publish (`StoreInv`),
`since_publish` bounds the book-touching frames since some publish of a prefix
(`RecentInv`), and each answer in the making has only parts that were current at
a version between the request's and the store's (`ConnInv`). For a quote it
keeps that the book is read first (`Ordered`) and that what was read after it is
no older (`BookFirst`). The last survives
any publish because versions only grow and the history `published` is only appended to.

**ThreadedReplayProofs** (`Capacity` > 1, `Torn` not a value, every envelope a
value). The ring alone: the code compares residues, the argument is about the
counts behind them. `Counts` says
headSeen <= popped <= tailSeen <= pushed <= headSeen + Capacity - 1, strict
where a push or pop is under way, and `Contents` that the slots between head
and tail hold the elements not yet popped. Without the visibility counts the
induction fails: a push is safe because of the head it *saw*. Six lemmas on
residues carry the comparison over to the counts, and nowhere does the proof
need the capacity to be a power of two. The threads: `ThreadInv` adds that what
was pushed is the envelopes of the frames so far (`SentInv`), that the flag is
set only by a parser whose source is done (`ParserInv`), and that a builder which has loaded
the flag as true sees every push there will be (`BuilderInv`); this is what
makes one more look at the queue after the flag enough. `ThreadedWholeDay` has
the hypothesis `Intact`, that no frame of a decoded type is corrupt: without
it the statement is false (section 6, finding 1).

**LiveReplayProofs** (any finite feed, any network). The receiver alone: the
invariant ties `next_seq_` to the length of the delivered prefix and bounds the
domain of `pending_`. `BInv` adds where the buffered packets come from: each is
a packet of the feed or a reply (`Sourced`), and a key below `next_seq_` means
that a batched packet around it was applied (`Ahead`); since `begin()` is the
least key, that gives `StaleOnlyByBatch` for every feed. With one message per
packet, which is what `MoldUdp64Sender` sends, there is no such packet, and
`SinglesNeverStale` follows. The processes: `LiveInv` adds that everything buffered or replied
is of the session, that the books are those of the messages before `next_seq_`,
and what each constructor holds before each of its calls (`SocketInv`).
Assumption (`LiveAssumption`): no packet of the feed goes beyond its last message.

**QueryServerProofs** (any number of clients, any cap). That nothing runs after
stop() is not
inductive: it needs `Owned` (every started, unjoined thread is in exactly one
list) and `Phases` (the accept loop, which alone adds to a list, is over
before stop() swaps the lists). `Capped` needs a bound on the length of the
list rather than on the running threads.

**ExecProofs, the chain** (any orders, limits, batches, capacities, quotes, prints;
`ChainAssumption`: an order's side is Buy or Sell, a print has a price). The gate: the limits are compared
with its totals while the promise is about orders that left, so the
invariant carries the equality of the two, and that a noted breach has latched
the switch. The chain: every step of the caller and the simulator is one of the
gate or leaves it alone, so the gate's invariant carries over. `ChainInv` adds that fills and filled orders grow
together; the 32-bit totals follow from the residue of a sum being the residue
of the sum of residues (`ModAdd`), for every width.

**ExecProofs, the strategies** (any parents their constructors accept, any
timestamps in any order, any capacity of the child queue; `StrategyAssumption`
types the fields of a parent). `StrategyInv` says for Twap and AlmgrenChriss
that what was emitted is the sum of the first `next_bin` bins, whose boundaries
have been passed; for Vwap that it is what was counted as sent and never above the
target at the latest time seen within the window; for Pov that it is at most
what was counted as sent, which is at most the parent. The rest is arithmetic:
the bins of a schedule sum to the parent's shares, or for an AlmgrenChriss to
at most what its rounding may add (`ScheduleSums`, over any number of bins), and
the curve's target rises with time and ends at the parent's shares exactly
(`TargetRises`). Rounding each of n bins on its own may add up to half a share
per bin, and the clamp of the last bin may keep it from being taken back;
`RoundingBound` shows that the excess x satisfies 2nx <= n(n - 1) - 2 * total,
which is `Overshoot`. `AllSent` and `WithinSchedule` therefore hold for every
parent the constructors accept, and say "exactly" for an AlmgrenChriss of at
least n(n - 1)/2 shares; for fewer the exact statement is false (finding 6).

Only model-checked: liveness (`Terminates`, `StopIsNoticed`, `SlotsComeBack`,
`StopReturns`), which the prover does not handle. Every invariant and every
action property of a passing run is a theorem. Two theorems have a hypothesis
beside the assumptions of their modules, without which they are false, as a
violation run shows: `Intact` (`threaded_corrupt`) and one message per packet
(`mold_batched`).

## 5. Hazards

`PROJECT.json` lists what in this code is hard to test, each at its line with
the properties that would catch it. Two have no property, and say why: no
document states what should happen when the last Twap boundary lies after
`end_ts` (`twap.hpp:96`), and Pov does not look at the result of push
(`pov.hpp:54`), which only lowers what it hands over. `StopReturns` covers
stop() against threads in `recv` and in a batch of lines, and not against a
`send` that blocks for ever, which its fairness excludes. Of the same sort, and
not in the list: market orders have a notional
of 0, so no notional limit binds them (`risk_gate.hpp:119`); a requested locate
is cut to 16 bits (`query_server.hpp:433`); `SpscQueue<T, 1>` compiles and
refuses every push (`spsc_queue.hpp:79`), which nothing instantiates.

## 6. Where code and comments disagree

1. `threaded_corrupt`: `include/pipeline/threaded_replay.hpp:66`. `on_other`
   keeps the type byte of a corrupt frame over a zeroed payload, and
   `dispatch_to_book` dispatches on it. A short 'A' frame therefore rests a
   phantom order at locate 0 in the threaded replay alone, although line 56
   says "Skipped/corrupt frames don't touch any book". On files without
   corrupt frames `threaded_replay` shows both replays agree.
2. `mold_cap_full`: `include/net/multicast_receiver.hpp:306`. When all the room
   in `pending_` is taken by packets beyond a gap, the reply that would close
   the gap is refused too, and nothing ever drains; lines 253-256 say that room
   is freed and the packet requested again.
3. `mold_batched`: `include/net/multicast_receiver.hpp:355`. A reply buffered
   for a message inside a batched packet is left below `next_seq_` when that
   packet is applied after it; `begin()` is then neither ahead of `next_seq_`
   nor equal to it, and nothing behind it is requested or drained again.
   `moldudp64.hpp:22-26` says that batching "doesn't change the session/gap-fill
   semantics". `StaleOnlyByBatch` shows that this is the only way, and
   `SinglesNeverStale` that the repository's sender cannot cause it.
4. `mold_no_retry`: `include/net/multicast_receiver.hpp:213`. A gap that is still
   open when `resolve_gaps` returns is looked at again only when another data
   packet arrives, not on a poll that times out; lines 316-317 leave it "for a
   later packet/poll to retry". A gap before the last packets of a session
   therefore stays open when end-of-session is lost too.
5. `torn_answer`: `include/net/query_server.hpp:428`. The parts of an answer are
   read in separate critical sections, so a publish may come between them, while
   `query_server.hpp:116-123` speaks of "that same snapshot" and
   `book_snapshot.hpp:131-134` of the "generation of the book it reflects".
   `TornOnlyByPublish` is what does hold.
6. `almgren_rounding`: `include/exec/almgren_chriss.hpp:161`. Bins are rounded one
   by one and the last is clamped at zero, so two shares over four bins at risk
   aversion 0 become three. Lines 143-146 and the test at
   `tests/test_exec_almgren_chriss.cpp:115` say that the schedule sums exactly to
   `total_shares`. `Overshoot` bounds the excess.

Met while modelling; the models have the code's behaviour, and no run is
devoted to it:

- `ladder_book.hpp:136`: the constructor does not check its first allocation
  against `kMaxTicks`, although 193-194 include it. `books` builds
  ladders whose first window fits; `LaddersBounded` shows that `BookTraits`
  lets no other through when `kMaxSanePrice` and the ceiling are in the code's proportion
  (proved: `LaddersStayBounded`).
- `fuzz_differential.cpp:151`: "both rejected" is no unchanged state, since a
  refused duplicate add may have grown the ladder first; the getters still agree.
- `gzip_source.hpp:118` against `parser.hpp:110`: at a frame of length zero a mapped file
  stops cleanly and succeeds, a .gz file keeps the rest in `pending` and
  throws. `SuccessIsWholeDay` is stated so that both are right.
- `gzip_source.hpp:68-92`: the loop ends at the first end marker, so of a file of several gzip
  members only the first is read, without an error.
- `threaded_replay.hpp:145-153`: an exception of the source on the parser thread calls
  `std::terminate`; the message and status 1 of `dispatch_args` are never reached.
- `multicast_receiver.hpp:274`: end-of-session ends `live_replay` whatever is
  still missing; `ExitIsClean` says that the report is then a prefix.
- `pov.hpp:54` against `types.hpp:87-90`: Pov does not look at the result of
  push, so its shares sent may exceed what it handed over.
- `risk_gate.hpp:136` against 57-59: a what-if `check()` latches the kill switch.
- `fill_sim.hpp:134` against 50-52: `fills_` is never emptied, so it bounds a
  session and not a batch.

## 7. Not modelled

- `bench_threaded_main.cpp`: it times `SpscQueue` and `run_pipeline`, which
  have modules of their own; its clocks and statistics have no property here.
- Thread affinity: one best-effort call whose failure changes nothing.
- The ITCH encoder, field decoding and the packet layout of `moldudp64.hpp`:
  byte layouts; a frame and a packet are records. `fuzz_parser.cpp` looks for
  crashes in exactly these, and the dashboard is a viewer.
- AlmgrenChriss's sinh trajectories: floating point, for which TLC has no numbers.
- Reports, options, pacing and timing of the executables.
- `replay`, `replay_query` and `replay_threaded` run over either kind of book;
  their modules use `OrderBook` (`--map`). What the other kind does differently is
  the subject of `book_comparison`. `live_replay` has `OrderBook` only.
- Several `.gz` members in one file.

## 8. Plan

Done: books and their abstract specification; queue, its abstract specification
and its proofs; file sources and the three replays; receiver, sender and
`live_replay`; the table of ladders, fuzzer and benchmark; snapshots and query
server; strategies; gate, simulator, chain.

The proofs cover every safety property of a passing run.

Left: strategies as the producers of the batches of `ExecChain`, in one
specification; the replays over ladders, the default of the executables, for which
`IsLadder` is the invariant to use.
