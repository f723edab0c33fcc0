# open-outcry in TLA+

Specifications, model-checking runs and machine-checked proofs for
`ziaulalam1/open-outcry`: a live order book that thirty phones trade on while a
chaos layer breaks the delivery to one half of a projector.

Every definition is translated from the Go and JavaScript source under `src/`; `PROJECT.json`
names, for each, the lines it stands for.

## The system

```
phones --ws--> hub --> wire --> loop --> engine --> invariant
                ^                 |
                |<---- direct ----|
                |<---- chaos <----|   (degraded lane)
projector <-ws--/
```

| component | state it keeps | operations | what must hold |
|---|---|---|---|
| **engine** (`internal/engine`) | two ladders of FIFO queues, an index by id, a sequence counter, a ledger | `Apply(Submit)`, `Apply(Cancel)`, snapshot | price-time priority; never crossed; index = ladders; orders leave filled or released to their owner; totals honest |
| **invariant** (`internal/invariant`) | none: a pure function over a read-only view | `Check` after every command | clean on every book this engine can reach; wrong books are reported |
| **loop** (`internal/loop`) | a bounded channel, the halt flag, counters, the last good result | `Submit` (any goroutine), `apply`, `republish`, stop | commands in order and once; nothing shown after a halt; both lanes tell one story; refusals counted and reported |
| **chaos** (`internal/chaos`) | a bounded channel, a policy, a queue of delayed frames, one timer | `Publish`, `Configure`, the branches of `Run` | no frame reordered or doubled; every frame accounted for; nothing held for ever |
| **hub** (`internal/hub`) | clients, retained frames, counters; per client a bounded send channel and two pumps | register, unregister, publish, stats tick, shutdown | gapless join; never send on a closed channel; drop and count; no goroutine outlives its connection |
| **server** (`cmd/open-outcry`) | the wiring, the connection count | `/ws`, `/chaos`, `shutdown` in data-flow order | everything stops; the stale pane snaps back |
| **wire** (`internal/wire`) | none | decode a command, encode frames | only well-formed commands pass; the session is the connection's |
| **seed** (`internal/seed`) | none | fourteen ordinary Submits | the front door only |
| **web views** (`web/`) | the phone's optimistic rows and socket buffer; the projector's two panes | frames in, taps out | rows settle on the right order; panes do not go back in time |
| **swarm** (`cmd/swarm`), `web/qr.js`, `internal/arch` | | load client, QR encoder, import rules | outside the running system |

Who talks to whom: a connection's read pump calls `loop.Submit`, which never
blocks; one goroutine owns the book and applies one command at a time; it
offers each book to the hub (direct lane) and to the chaos line (degraded
lane), neither of which may block it; the chaos line forwards to the hub; the
hub alone sends to clients. Counters travel as messages in the same direction.

The hard behaviours are what a sweep does to shared structures between two
fills; int64 sums that may wrap; policy changes while frames wait on one timer;
`select`s with several ready branches, above all around cancellation; bounded
channels that refuse, shed or block; and comparisons of sequence numbers across
connections. `PROJECT.json` lists them as hazards, line by line.

## Modules

| module | models | how its state and actions correspond to the code |
|---|---|---|
| `Types` | `types.go` | sides, rejection reasons, `Int64(x)`: wrap-around of a two's complement register whose width is a constant |
| `Ladder` | `ladder.go`, and the ladder's part of `match.go` | a ladder is a sequence of levels `[price, orders, total]`; each method is an operator from the old ladder to the new (`Push`, `Insert`, `HitBest`, `RemoveOrder`, ...). Queues hold ids where the code holds pointers |
| `Invariant` | `internal/invariant` | the ledger and `Check` as operators over exactly what the read-only interface shows; a report is the set of kinds that failed |
| `Book` | `book.go`, `match.go`, `snapshot.go`, `event.go`, `adapt.go` | `Apply(Submit)` is cut at the head of the match loop: `AcceptSubmit`, one `Fill` per trip, `Finish` (rest the remainder, check, return). `RejectSubmit`, `CancelOrder`, `RejectCancel` are one step each. The heap `order` is the sequence of all orders, so an id is its position |
| `PriceTime` | (abstract) | the market the engine promises, told without ladders, queues, index or ledger: a set of resting orders, at most one arriving, one event a step |
| `Runner` | `internal/loop` | the command channel, the engine as an `Applier` that may report any command bad (`ApplyGood`, `ApplyBad`), `Ignore` after a halt, `Keyframe`, `Stop`; the lanes are the frames offered to them, in order |
| `Chaos` | `internal/chaos` | `Publish`; `Configure` cut at its unlock (`SetLatest`, `SendPolicy`); one action for each branch of `Run`'s select; waiting times run down with `Tick` instead of a clock |
| `LossyFifo` | (abstract) | what arrives arrives once and in order: the promise of the degraded lane and of the command channel |
| `Hub` | `internal/hub`, the `/ws` handler and `shutdown` of `main.go`, `waitConns` and `stop` of `stack.go`, `shutdownConn` of `cmd/swarm` | the hub's `select`, one action a branch (`Register` with its replay, `Unregister`, `Deliver` for a published frame and for the stats tick, `ShutDown`); per connection a handler that becomes the read pump (`Serve` ... `Return`), a write pump (`Write`, `PingFails`, `WriteClose`) and a peer; `main` as it stops |
| `Mirror` | (abstract) | what one pane promises: it only moves forward, to books the engine of the present life has had |
| `Stage` | the wiring of `stack.go`, `publishBook` and `republish`, the bounded channels in between, `applyFrame` of `projector.js`, the reconnecting socket | loop, chaos line, hub and projector composed, each as what its own module shows of it; `Restart` is a new process with the old screens |
| `Phone` | `trader.js`, the socket of `app.js`, the `/ws` callback, `DecodeCommand`, `SessionFrames`, `Busy` | one phone from a tap (`Tap`) to the row that is settled (`Receive`), over a socket that buffers and reconnects |
| `MCBook`, `MCChaos`, `MCHub` | | instances for TLC: model values and symmetry |
| `QueueProofs` | | lemmas on sequences, rising sequences and least elements, for the modules below |
| `LadderProofs`, `BookProofs`, `ReportProofs` | | theorems about `Ladder`, `Book` and what `Invariant` says of it, checked by TLAPS |
| `RunnerProofs`, `ChaosProofs`, `HubProofs`, `StageProofs` | | theorems about the module each is named for |

Definitions marked "a plausible bug" are not part of any specification. Each
replaces its neighbour in turn, to see that the property which ought to catch
that bug does.

Abstractions worth knowing: sessions are opaque model values, as they are to
the engine; a `Traded` event keeps the ids of taker and maker instead of the
fields copied from them; `HeadOpen` of a frontier, which no check reads, and the
wording of violations are left out; in `Runner` all frames that one result sends
to phones are one frame of kind `phones`; in `Chaos` the only publisher is the
loop, so a frame is the ordinal of its `Publish`; `flush` forwards what is ready
in one step, since it reads the clock once and downstream never blocks.

In `Hub` the upgrade of a connection, `conns.Add` and the queueing of `hello` are
one step, `Serve`, so a shutdown that falls between the first two is not seen; a
frame a write pump is writing counts as still in its channel, which it left a
moment before; what a peer sends is its close frame or nothing, because a command
changes nothing in the hub; the counters that only feed the stats frame are left
out. `Deliver` does not keep the channel of published frames: that channel, with
its refusals, is in `Stage`, where three bounded queues feed one another.

`Stage` takes from `Runner` that a book is offered to both lanes after every good
command, a halt once, and nothing after it; from `Chaos` that the line is a queue
that keeps its order and loses frames only while armed (that is `LossyFifo`,
which run `lane` shows `Chaos` to implement); from `Hub` that joining replays and
that a full channel drops the new frame. Its frames keep topic and seq; frames
for phones and stats frames, which would only fill the queues more, are left out,
as full queues are reached without them.

In `Phone` the book is whatever it may answer: fills best price first, none worse
than the limit, then perhaps a remainder that rests. Taps are numbered in the
model to state the property; the phone does not number them.

## Runs

| run | bounds | what it shows |
|---|---|---|
| `market` | 2 sessions, prices {0,1,2}, quantities {0,1,3}, 4 commands, int64 = -4 .. 3, `Depth` 1 | every command, good and bad, while ledger, notionals and totals overflow: `ImplementsPriceTime`, `IndexMatchesLadder`, `LeavesFilledOrReleased`, `ConservedMidSweep`, `SnapshotAddsUp`, `NoFalseHalt` |
| `sweep` | 1 session, 2 prices, 2 quantities, 5 commands | sweeps over two levels and several makers, partial fills, cancels in the middle of a queue: `Inductive`, `NotCrossed`, `SweepInOrder`, `TotalsHonest`, `NoFalseHalt`, `FillsBestMaker`, `NoQueueJump`, and `ApplyReturns` under fairness |
| `lane` | queues of 2, control channel of 1, 4 frames, 2 presenters, 2 policies out of 8 | `Accounted`, `TimerRunsWhilePending`, `ImplementsLossyFifo`, `FramesMoveOn`, `ConfigureReturns` |
| `loop` | channel of 2, 5 commands, 2 keyframes | `LanesAgree`, `OnlyGoodBooksShown`, `ReportsAddUp`, `ImplementsLossyFifo`, `CommandsAreReceived` |
| `room` | a projector that may fall silent or close, a phone, 2 topics, send channels of 2, 1 unregistration, 2 frames | `JoinIsGapless`, `NoPanic`, `CleanClose`, and under fairness `ConnectionsEnd`, `ShutdownEnds` |
| `stage` | line of 1, hub channel and send channels of 2, one command in the first life of the server and two in the second, one socket that may break | `BooksInOrder`, `ImplementsMirror`, and under fairness `SnapsBack`, `LateJoinerSeesAll` |
| `late` | one life of three commands, line and hub channel of 1, send channels of 2, one socket that may break | `LateJoinerSeesAll` where it is hardest: two books and a halt at once |
| `halted`, `drain`, `report`, `echo`, `rows` | the smallest that show it | five places where the code and its comments disagree, below |

Why the bounds are enough. Two prices and five orders already give a sweep that
empties a level and enters the next, a level with three makers, a removal from
the middle, and a remainder that rests; the engine treats prices only by
comparison. Two sessions distinguish owner from stranger. A register of 3 bits
overflows after two orders. A queue of two is the least that has a head, a tail
and a full state; four frames overflow it while the timer runs. What the
instances cannot show for larger constants is what the proofs are for. In `room`
a send channel of two is filled by `hello` and one replayed frame, so a drop at
the join, a drop later and a drained channel all happen; two connections compete
for the one place in the channel of unregistrations; two topics tell the order
of the replay. In `stage` a book, its
keyframe and a halt do not fit any of the queues together, so every channel
refuses something; with one command in the first life and two in the second the
new market stays behind, reaches and passes what the old one left on screen. A
hub channel of one would be too small there: the fresh half of a keyframe would
fill it, and the stale half could find it full every time, which a channel of 256
that is drained at memory speed does not do. A life of two commands has no halt
while two books differ, so `late` has three: of two books the first is retained
and the second still in the line when a pane joins a halted market, and its send
channel is full with the first and the halt. Its hub channel may be one, because
no keyframe comes after the halt and those before it are not needed. Where a
bound ends a run (`MaxCommands`, `MaxFrames`, `MaxRequests`, `MaxKeyframes`) the
cfg says `CHECK_DEADLOCK FALSE`: the real system also may simply have nothing to
do.

Prices and quantities of zero are inputs of the engine's own API and its
rejections are reachable there; the server's decoder refuses them earlier. The
`market` instance stands for sums that exceed 2^63 by sums that exceed 2^2: with
the decoder's limits that takes a market longer than any evening, but the engine
itself states no limit.

## Fairness

`Book`: `Fill` and `Finish` are weakly fair, because `Apply` is straight code
with no blocking call; no command is obliged to come. `Chaos` and `Runner`: a Go
`select` chooses a ready branch at random, so a branch that stays ready is taken
(each branch weakly fair); time passes (`Tick`); a blocked channel send proceeds
once there is room (`SendPolicy`, weakly fair per presenter). Nobody is obliged
to publish, submit, reconfigure or stop.

`Hub`: the hub's goroutine and every pump are weakly fair: the hub never blocks,
a write ends in success or at its deadline, and a peer that never reads runs into
the read deadline. No peer is obliged to answer a close frame, nobody has to
interrupt the server, and the drain budget need not run out, so `ShutdownEnds` is
shown without its help.

`Stage`: browsers reconnect for as long as they are down and read what they get
(weak fairness); the hub and the line go on, and a channel that has room again
and again is found with room now and then (strong fairness: the chaos line and the
loop compete for one channel that the hub drains at memory speed). Keyframes are
not assumed: they stop with a halt, so `SnapsBack` has them as its hypothesis
(`KeyframesGoOn`, which asks room in the hub's channel for the fresh pane, and an
empty line and channel for the stale one, now and then), and `LateJoinerSeesAll`,
which is about a halted market, does without.

## Where code and comments disagree

- `halted`: after a halt, `apply` returns without a word although `Submit`
  returned nil (`runner.go:171`); `main.go:195` and `runner_test.go:209` say
  commands are refused, never silently dropped.
- `drain`: `Run` leaves accepted commands in its channel when its context is
  cancelled (`runner.go:157`); `main.go:83-86` and `106` describe a final drain.
- `report`: refusals counted during keyframes are reported only with the next
  command (`runner.go:219-224`); `runner_test.go:253` wants them on screen.
- `echo`: `Configure` sends outside its mutex (`chaos.go:105-107`), so the policy
  `Snapshot` echoes and the policy that runs can differ until the next request.

- `rows`: a fill carries the maker's price, and the phone looks for its row by
  price (`trader.js:224`), so an order that trades at a better price than it asked
  gets a second row and its own stays pending; `trader.js:140` and `223` say the
  row is reconciled. The same property fails, in longer behaviours or with other
  constants, for a rejection of the older of two orders (`trader.js:237`), for an order above
  `MaxPrice`, which the decoder drops without an answer (`main.go:192`), and, if
  the connection may break, for an order that was on its way.

Met on the way and not a run of their own. After a halt nothing repeats a book
(`runner.go:220`), so one that is shed stays shed: the halt overtakes the books in
the chaos line, a disarm pours those into the hub (`chaos.go:178-181`), and a
projector that has just joined may find its channel full of what was replayed
(`hub.go:216-222`); its stale pane then stays on a book older than the retained one
until it connects again. So does the fresh pane when the hub's channel is full as
the last good book is published (`runner.go:229`), under a banner that reads "last
known good book shown below" (`projector.js:364`). `LateJoinerSeesAll` therefore
promises what was retained while a pane was away, and no later book: the same
property about later books too is refuted by three commands.
`RUNBOOK.md` 10.4 says restarting the
binary brings the room back, but a projector page that stays open ignores the new
market until its seq passes the old one (`projector.js:422`; the second disjunct
of `CaughtUp` in `Stage`), and a halt stays on it until it is reloaded.
`client.go:138` says a retired client's channel is not drained, but a closed Go
channel yields what it still holds before it reports the close, so `Write` goes on
with frames of a closed channel. `observe.go:151` says the observer's own
handshake follows its `Stop`, but the deadline `Stop` sets makes the reader's
error final, and the drain that should wait for the peer returns at once.
`conns.Add` (`main.go:180`) may come after `Wait` has found nobody, since
`srv.Shutdown` does not wait for a hijacked connection.
`projector.js:419-421` explains its reorder guard by frames that leave the delay
ring after newer ones, which the line never does (`ImplementsLossyFifo`; `chaos.go:48` says so too); the guard is
still needed for keyframes that repeat a seq. `conservation.go:46-63` says a
quantity shared by trade and book surfaces in `checkMakerResidual`, but the trade
copies its `MakerLeft` from the very field the book shows. `priority.go:36-39`
says one of two comparisons fails when a better price is skipped; both do.

## Proofs

Every invariant and every action property of the passing runs is also a theorem,
and so are the four refinements; only liveness is not (below). The theorems hold
for every value of the constants: any sessions, prices, quantities and width of
integer, any topics, queue capacities, policies and connections, and any bound on
the run. They assume what each module's `ASSUME` says and nothing else: the
numbers of a command fit a register and `Depth` is positive; a capacity is not 0
(of a send channel in `Stage`, at least 2, the two frames of its replay); delays
and rates are numbers; a client subscribes to a topic once. TLC evaluates these
assumptions on every run.

A property that matters is seldom inductive by itself. Each component's proof
has an invariant `Inductive` that is, one lemma per action, and a last part that
draws the theorems from it. TLC checked each of them on the run of its component
before it was proved.

**The engine** (`BookProofs`). `Inductive`, which run `sweep` checks too, is what
every step relies on: the ladders well formed (levels strictly best-first, queues
in arrival order, never empty, every order at home and alive), ids in arrival
order, the index equal to what rests, the order that is matching on no ladder yet,
and the book not crossed. `NotCrossed` and `IndexMatchesLadder` need all of it:
that an arriving remainder crosses nothing needs the head of the opposite ladder
to be its best price, and that a filled head leaves the index clean needs it to be
queued once. From it follow `TypeCorrect`, `NeverCrossed`, `IndexAndLaddersAgree`,
the action properties `FillsTakeTheBest`, `NobodyJumpsTheQueue` and
`OrdersLeaveProperly`, and `BookImplementsPriceTime`: an engine step is one step of
the abstract market or a stutter. `LadderProofs` holds the lemmas about the
operators: where `Insert` stops and what it returns, what removal and a hit on the
head preserve, that the head of the first level precedes every other order.

**What the engine tells and what the checker says of it** (`ReportProofs`, on top
of `Inductive`). Three more invariants, each inductive once the ones before hold:

- `Accounts`: each level's cached total is, modulo 2^w, what its queue holds, and
  each side's ledger balances with what is live. From it `TotalsAreHonest`,
  `ConservedAlways` and `SnapshotsAddUp`. The sums are those of the community
  modules, which recurse over a set in an order of their own choosing; the lemmas
  about them (what one more element adds, what a change of one element changes)
  unfold that recursion and take a least counterexample where one would use
  induction, since the induction theorems are out of the provers' reach. Overflow
  is congruence modulo 2^w: a register that wraps at each step ends where one that
  wraps once at the end does (`WrapLater`, `SumWraps`).
- `SweepInOrder`: the fills so far start at the frontier photographed before the
  command, walk the opposite side in strict priority order within the limit,
  agree with what the heap holds of their makers, and stand before whatever still
  rests there. It is a property of run `sweep` in its own right
  (`SweepsGoInOrder`), and what the checks of priority need.
- `NoFalseHalt` (`NeverFalselyHalted`): the report of every command is clean. The
  four checks are taken one by one over the book as the command leaves it
  (`BookIsClean`): conservation by `Accounts`, the walk over the
  levels by the ladders' shape, the residual of the last maker and the frontier
  by `SweepInOrder`. So no stream of commands, however long and whatever
  overflows, makes the runner halt the market.

**The degraded lane** (`ChaosProofs`). `Inductive` adds to `Accounted` and
`TimerRunsWhilePending` that a presenter has one policy in flight, that a line
which is not armed holds nothing (so `PassThrough` overtakes nobody), and
`AllInOrder`: what has left, what waits and what queues, read as one sequence,
only rises, up to what was published. `LaneIsALossyFifo` maps that sequence to the
abstract queue.

**The loop** (`RunnerProofs`). `Inductive`: commands applied and commands in the
channel are one rising sequence; until a halt the last good result is the engine's
last; the degraded lane is offered no book newer than that; and the direct lane without its private frames is the
degraded lane. The last is `LanesAlwaysAgree`; the filter behind it is stated by
its places (`Public`), so that a frame appended to both lanes is one step.
`ReportsAlwaysAddUp` needs three more conjuncts: the loop's own counters are exact,
no frame is newer than the engine's last result, and the last good book has been
offered. A command's frame is then the first to show its seq, so no refusal comes
after it and its report misses none; a keyframe repeats a seq that has been shown,
so a refusal of it is one more that the last report misses, and one more that
`Since` has. After a halt there are none. `CommandsKeepTheirOrder` maps the channel and the engine to `LossyFifo`.

**The hub** (`HubProofs`). For `NoPanic`: a client in the registry has an open
channel and a handler that has registered it, and only pumps past their last
breath wait in `unreg` (`Registry`). For `CleanClose`: nobody is told goodbye
while the server serves unless its pump has read the peer's (`Handshake`). For
`JoinIsGapless`: the delivered frames are numbered, the last of each topic is
retained (`History`), before it registers a client is owed `hello` only
(`Waiting`), and what it took, holds and lost is what it is owed: each delivery
extends both sides by the same frame or counts it as dropped.

**The whole way** (`StageProofs`). For each pane, the books on the socket, the
retained one, those in the hub's channel and those in the chaos line are one
rising sequence between the book shown and the last good one (`OnItsWay`); until
a halt the engine's last result is its last good one; each queue carries what it
is meant to. `BooksInOrder` follows, and so does the refinement of `Mirror`: what
a pane shows next is later than what it shows and was published in this life. A
restart empties every queue, and `Shown` forgets the book of an earlier life.

`QueueProofs` holds what these share: sequences place by place, rising sequences
(`Flow`) and what each operation of a queue does to them, flattening a sequence of
queues, and least elements.

Only model-checked: the eight liveness properties (`ApplyReturns`,
`FramesMoveOn`, `ConfigureReturns`, `CommandsAreReceived`, `ConnectionsEnd`,
`ShutdownEnds`, `SnapsBack`, `LateJoinerSeesAll`), since the prover knows neither
fairness nor `ENABLED`; and the five disagreements listed above, which are
counterexamples. `Phone` has no theorem: the property it is for fails.

## Plan

Done: engine, checker, loop, chaos line, hub with its connections and shutdown,
the composition up to the projector's screen with restarts, the phone; and the
theorems: every invariant and action property of the passing runs, and the
refinements. Next:

1. `FaultyMatcher`: the matcher with one bug at a time in front of the same
   `Check`: which bugs each check catches, as its comments claim.
2. The upgrade and `conns.Add` as two steps, the three steps of the `/chaos`
   handler, and the counters on their way to the stats frame.

## Not modelled

JSON encoding, the book and the stats frame, HTTP routing, flags, the LAN address,
the QR encoder, fixtures, layout and animation: formatting or I/O, with no state
that a property depends on. `internal/seed` is fourteen ordinary Submits before
the loop starts, a prefix of behaviours `Book` already has. `cmd/swarm` drives the
server in tests: its closing handshake and the client that never reads are the
peers of `Hub`, its order profiles and statistics are not modelled.
`internal/arch` checks import rules: nothing runs.
