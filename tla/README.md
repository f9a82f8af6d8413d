# gelato, specified

gelato receives log lines over TCP, keeps the latest ones in memory and shows
them in a browser. This directory holds a TLA+ model of it: modules that follow
the code, configurations for TLC, and proofs for TLAPS. Paths below are relative
to the repository root.

## The system

| part | code | state | operations | talks to |
|---|---|---|---|---|
| wiring | `cmd/gelato/main.go`, `internal/config/config.go` | limits | start, signal | creates all the others |
| runtime | `internal/app/runtime.go` | context, `snapshotMu` | `Start`, `Close`, `Snapshot` | engine channels |
| TCP server | `internal/server/server.go` | `listeners` by id, per listener and per source counters, `totalConns` | `Start`, `Stop`, accept loop, read loop, stats | shard channels of the engine; drop sink |
| engine | `internal/engine/` | listeners, sources, per-source and global buffers, filters, filter cache, drop and error counters, rates | select loop: lines, commands, snapshot requests, drop updates, two tickers | started and stopped by the runtime; calls the TCP server for listener commands |
| line buffers | `internal/store/ring_buffer.go` | array, start, size, version | append, clear, read | engine |
| rates | `internal/store/stats.go` | buckets, start | add, snapshot | engine |
| HTTP API | `internal/web/server.go` | its copy of the filters | snapshot, filters, listener and source commands | command channel and `Runtime.Snapshot` |
| hub | `internal/web/hub.go`, `delta.go` | clients, last snapshot and its sequence number, time of the last full frame | `serveWS`, `broadcastTick`, `writeLoop`, `enqueue` | `Runtime.Snapshot`; one channel of one frame per client |
| browser store | `web/src/lib/store.ts`, `api.ts` | snapshot, sequence number, connection state | connect, apply a snapshot, apply a delta, force a snapshot | the hub, over a WebSocket; the HTTP API |
| browser pages | `web/src/routes`, `web/src/components` | the filter chosen in the page | rendering, API calls | browser store, HTTP API |
| terminal UI | `internal/ui/` | view, mode, selection, scroll, filter text, last snapshot | keys, ticks, snapshots, results of commands | engine channels; nothing imports it |

Goroutines: one accept loop per listener, one read loop per connection, one
forwarder per shard, the engine, the hub, one write loop per WebSocket client,
one per HTTP request, and main, which waits in the HTTP server. The terminal UI
would add its loop and one goroutine per snapshot or result it waits for. The engine owns its maps and is reached through channels
only; the TCP server and the hub share state under mutexes and atomics.

### What is hard here

- a line crosses two channels and a forwarder's hand, next to lines of other
  connections; the read loop drops when the first channel is full;
- callers of `Snapshot` share one request and one response channel that carry no
  identity, and the engine sends the answer outside its select;
- the accept loops check connection limits and then count, each on its own;
- the engine's status of a listener and the server's table are two copies that
  the handlers of four commands keep together, next to HTTP timeouts;
- the hub and the handler of a new WebSocket both move the snapshot that deltas
  are computed from, each client has room for one frame, and the browser decides
  by sequence number alone what to apply;
- the buffer wraps, and its version is what the filter cache trusts;
- an interrupt ends engine, hub, write loops and HTTP server in any order, while
  some of them wait for others without a timeout;
- dashboards send their whole filter without waiting for earlier requests, and the
  filter is one for all of them;
- the terminal UI asks for snapshots from goroutines of their own and sends commands
  inside its loop.

The hazards, with their lines and the properties that cover them, are listed in
`PROJECT.json`.

## Correctness, component by component

| part | what makes it correct |
|---|---|
| line buffers | they hold the latest lines in order, and their version changes whenever their content does |
| ingest | lines of a connection are applied in order, at most once, none vanishes uncounted, the rate is exact, accepted lines are applied in the end |
| engine loop | a caller of `Snapshot` gets its own answer, in the end; nobody outside can block the engine |
| TCP server | limits hold up to a known excess, counters agree with the connections there are, no place is lost, a stopped listener stops |
| commands | the engine's, the server's and the operating system's listeners agree (status "error" apart), as do the engine's filter, the API's copy and what a dashboard asked for last |
| engine state | snapshots are fresh, tables are bounded, the two copies of a line agree, settings last |
| hub and browser | a screen that missed nothing has the lines, counters and rows of the snapshot it stands for, any screen recovers |
| rates, drop counters | each event counts once, in the interval in which it happened |
| start and end | the program ends when it is told to, whoever waits for what |
| terminal UI | it shows a part of its lines, names the filter that is applied, and comes to show the engine's state |

## Modules

| module | models | about |
|---|---|---|
| `RingBuffer` | `internal/store/ring_buffer.go` | the rotating array with its start, size and version |
| `BoundedLog` | the same, abstractly | the latest `Capacity` entries; `RingBuffer` implements it |
| `Ingest` | `readLoop`, `internal/engine/ingest.go`, the line cases of `Engine.Run` | read loops, shards, forwarders, bursts (asynchronous mode), the drain of a tick (synchronous mode), cancellation |
| `LineDelivery` | the same, abstractly | at most once, oldest first, per connection; `Ingest` implements it |
| `EngineLoop` | `Engine.Run`, `Runtime.Snapshot` | who waits for whom under endless traffic |
| `Program` | `main.go`, `Runtime.Close`, `Start` of `web/server.go`, `run` and `closeAll` of `hub.go` | `EngineLoop` with the goroutines around it, from start to end |
| `Connections` | `internal/server/server.go` | listeners, accept loops, read loops, three kinds of counters |
| `Commands` | `sendCommand`, the filter and listener handlers, `internal/engine/commands.go`, `Start` and `Stop`, the filter requests of `DashboardPage.tsx` | three tables of listeners, abandoned handlers, three filters |
| `EngineState` | `applyEvent`, source commands, `buildSnapshot`, `filters.go` | sources, buffers, filter and cache |
| `Delta` | `delta.go`, `applySnapshot` and `applyDelta` of `store.ts` | operators on snapshots and frames |
| `LiveView` | `hub.go`, `store.ts` | ticks, handlers, one-frame channels, broken connections, refreshes, a restart |
| `DropStats` | counters of `server.go`, `DropSink`, `internal/engine/stats.go`, the merge of `snapshot.go` | a drop from the read loop to the snapshot, counted by the server and by the engine |
| `Rates` | `internal/store/stats.go`, the numbers of `DashboardPage.tsx` | one rolling counter |
| `TerminalUI` | `internal/ui/` | `Update`, its keys and messages, the commands and the snapshots it asks for, the window of its dashboard |
| `RingBufferProofs`, `IngestProofs`, `ProgramProofs`, `ConnectionsProofs`, `CommandsProofs`, `EngineStateProofs`, `DropStatsProofs`, `LiveViewProofs` | | theorems and proofs about the module they are named after |
| `MC...` | | values for TLC |

How they fit together. Each module has the part of the state that its actors
share and leaves the rest to the module that owns it: `Connections` says which
read loops run and `Ingest` what becomes of their lines; `Ingest` ends where a
line is given to `applyEvent`, and `EngineState` begins there; `EngineState`
takes a buffer to be its latest lines and a version, which `RingBuffer` shows;
`EngineLoop` shows that a snapshot is one step of the engine, given to the one
who asked, and `LiveView`, `Commands` and `TerminalUI` use it as such; `Program`
extends `EngineLoop` with main, hub and handlers, each of its steps a step of the
loop or one that leaves it alone; `LiveView` takes the data operators of `Delta` by
extending it. `Ingest` says when a line is dropped
and `DropStats` what is counted then; `Rates` is one of the counters that the
engine feeds from both.

Steps are the atomic steps of the code: one operation on a channel, an atomic
counter, or what is done under one mutex. What only the engine's goroutine
touches changes in one step, whole handlers included.

Definitions named `X_Y` are faulty forms of `X` that the checks substitute for it
to see that a property can fail: no specification uses them.

### RingBuffer and BoundedLog

`entries`, `start`, `size`, `version` are the fields of the Go struct, with
text and level of a line as one entry. `AppendWithLevel` and `Clear` are the two
operations that change it. The abstract module keeps a sequence and drops what
is too old; `KeepsLatestEntries` says that the array implements it under
`Items`. `VersionTracksItems`: no step changes the items and not the version,
which the filter cache relies on.

### Ingest and LineDelivery

A line is its connection and its number. `ReadLine` is the read loop from a
complete line to the non-blocking send; `ForwarderTake`, `ForwarderSend` and
`ForwarderStop` are the two selects of a forwarder; `Consume`, `BurstConsume` and
`BurstEnd` are the receive of the select loop and the burst behind it; `TickSync`,
`DrainConsume`, `DrainNextShard` and `DrainEnd` are the drain of a tick, lines
arriving all the while. The mode is chosen when the program starts and never
changes. `Cancel` may come anywhere.

### EngineLoop and Program

Lines and commands are anonymous tokens that may arrive for ever, so liveness is
asked under unbounded traffic although the state is finite. A caller of
`Snapshot` locks, asks, waits and unlocks; the engine sends its answer outside
the select, which is the one place where the outside could block it.

`Program` says who the callers are, the hub at its ticks and HTTP handlers, when
they may come, and what main does: `Bind` or `BindFails`, `ServeReturns`,
`CloseRuntime`, `Exit`. `ListenAndServe` returns as soon as `Shutdown` is called, and
`Close` does not wait, so main needs nobody: `Exits` says so under every state that
engine, hub and handlers may be in, among them the one in which a caller has sent
its request to an engine that has ended and keeps the mutex. `SnapshotReturns` is
therefore a promise until the program ends. `shut` is the call of `Shutdown`, with
its two seconds' wait left out, for nobody waits for it. A handler serves one
WebSocket client in the model, and listeners, which run under a context of their
own, are `LineArrives` until the end.

### Connections

A member of `Listeners` is one `listenerState`: an id that is started again is
another member. `CheckGlobal`, `CheckOwn`, `CountTotal`, `CountActive` are four
steps because they are four atomic operations in the code, and the counters of a
closed connection move in three. `late` counts the lines read after `Stop`; it is
there for `AtMostOneLateLine` and bounded by `MaxLate`, which is larger than what
the property allows. `RejectsOnlyWhenFull` is about the connections there are,
not about the counters: a counter that leaked would turn clients away although
there is room. Temporary errors of `Accept` (none in the model) only repeat the
loop.

### Commands

The three kinds of requests are `PostListener`, `ListenerByID` and `PatchFilters`.
A request's handler sends, waits, copies or gives up, because its client left or
the five seconds passed; the command stays in the queue. A request about the filter
comes from some dashboard, opened or changed (`wanted` is what was asked for last, by
any of them), and
`crossed` marks that two such requests overlapped or a client left, the cases in
which `FiltersAgree` promises less. `Ids` are what users
typed, and two ids may stand for one address (a name and a number), which the
operating system refuses to open twice. Other programs may take an address at
any time. `StatusIsTrue` takes the engine's word for "listening" (there is a socket, at
the id's address, of no other id) and for "stopped" (there is none), and not for "error":
adding or retrying a listener that listens fails, and its socket stays open. Trimming
the source and the text of a filter (`internal/web/server.go:156`) is left out.
Requests are interchangeable, so the run uses symmetry. Commands about
sources take the same way and are `EngineState`'s.

### EngineState

An event, a command and a snapshot are one step each. `from`, the key of each line
of the global buffer, is for `BuffersAgree` only, which compares the copies of a line
by its place among its source's lines counted from the latest (`Rank`). The overflow source is made anew
for every line that has no room; `SettingsLast` excepts it. Of every other source it
says that its name changes by its own rename only and its flag by its own mute:
commands about another source, filters and clearings are no excuse. Colours are set and
kept like names, `LastSeen` is shown and never tested, and nothing reads
`overflowBuffer`; they are left out. The level of a line is what the server
detected, `Unknown` included, which every mask lets through.

### Delta and LiveView

A frame is hello, a full snapshot or a delta. `enqueue` is two steps (offer, offer
again) because the writer and the other producer may come between; a healthy
client whose channel is filled again at that moment is closed. The browser
decides by the sequence number alone: it looks neither at `fromSeq` nor at
`truncateHint`, so a replaced delta leaves it with a gap until the next full
snapshot.

A snapshot lists its rows in an `order`: listeners come out of a map and sources are
sorted by figures that may be the same, so any order may come (`SnapshotsNow`), and two
snapshots of one state may differ in it. A delta brings the rows that changed, in the
order of the new list (`PatchOrder`), and the browser writes them over its own rows where
those stand and puts new ones behind them (`Patched`). Its order is therefore not the
snapshot's, even if nothing was missed, and what the properties compare is `Content`
(lines, rows by key, counters), plus that each row is listed once (`Lists`). A row is a
listener or a source with its statistics; statistics of a host without a source, one that
connected and has sent no line yet, are left out, since no delta brings them
(`internal/web/delta.go:122`) and no page reads them.

`standsFor` is the snapshot a screen ought to show because it missed
nothing, and `calm` counts ticks since the last disturbance; both are for the
properties only. `troubles` bounds what may go wrong or change: a line, a filter, a
row, a broken connection, a refresh or a restart weighs one, a change of the counters
two. `ConvergesWhenCalm` is a bounded convergence instead of a
liveness property because sequence numbers grow for ever; it speaks of programs that
were never restarted, `ConvergesAfterRestart` of all. Left out: the reason of a full frame, which nothing reads; the
error and `resync_required` frames, which the hub never sends; failing HTTP
fetches other than by a restart; the wait of `closeAll`. A closed connection
leaves the hub's table in the same step. Ticks are assumed at least one tick's time apart.

### DropStats

An update is the connection that sent it: its listener, its source and its shard
follow from that. The server's counters belong to one start of a listener (`of`,
`current`), since starting it again makes a new `listenerState` while read loops of
the former may still count; the engine's belong to the id. A drop is three steps
(`DropLine`, `CountSource`, `EmitDrop`), a snapshot two (`ReadListenerStats`,
`BuildSnapshot`), because they read and write the same atomics. Updates with errors
and without drops stop at `internal/app/runtime.go:36` and are therefore not sent.
The period of the aggregator's ticker, and the `Reset` that starts it anew each time the
batch has filled its array (`internal/engine/stats.go:22`), are left out: it may fire at
any time, and `AcceptedIsCounted` assumes that it goes on firing. In the code it does,
since `append` doubles the array before the next `Reset`; the run does not show that. The
batch has no bound in the code either.

### Rates

Time is counted in ticks of the engine, an interval is some of them, and at most one
`Add` falls on a tick. `advance` is part of `Add` and of `Snapshot`. The dashboard
shows the last bucket (`Last`).

### TerminalUI

`m` is the `Model` that `Update` returns, without sizes and styles. `Fetch` and `Send`
are what a handler may return to be run: a goroutine that asks for a snapshot
(`asked`, then `answered`, a bag because their messages come in any order) or one
that waits for a result. `sending` is the command that `Update` itself is putting
into the engine's queue; until there is room nothing else is handled. Levels and
source of the filter are not in `m`, because `toggleLevel` and `toggleSourceFocus`
set them in a copy: `m` has all levels and no source for ever. Tab and the keys of
a search that is opened, typed or given up are not counted (`Browse`); entering it,
other keys, resizes and arrivals of lines share the bound `MaxEvents`, so that a
behaviour has a changed text and two more changes of levels, source or text around it.
Quitting ends the model.

## Runs

| run | question | bounds |
|---|---|---|
| `ring_buffer` | does the array implement the log, with fresh versions? | three slots, eight operations: the array wraps more than twice |
| `ingest` | order, no loss, no duplicate, exact rate, both modes; is every accepted line applied in the end? | two connections of one source on the second of two shards, three lines each against a shard of five; or two lines of theirs next to two of a third connection that keeps the first shard busy (`Traffic`); batches and bursts of one |
| `program` | own answers, no blocking, every call returns or the program ends, an interrupt ends it | the hub and one handler, one shard, channels of one, endless traffic |
| `live_view` | has a screen that missed nothing the content of its snapshot, and does any screen recover from what was lost? | one tab, two connections, two rows in either order (interchangeable: symmetry), two troubles, four numbers, a full snapshot every second tick; with no trouble left, one handler at a time and a second connection or a refresh, neither with rows (`Followed`) |
| `live_view_restart` | does a screen recover from a restart? It does not | one restart |
| `connections` | limits, counters, rejections, late lines; does a stopped loop end? | three clients of two hosts, two listeners, one global place, two places each: both limits are met, both loops pass together |
| `commands` | do the tables and the three filters agree? | four requests, two ids of one address, two filters, a queue of two |
| `engine_state` | fresh snapshots, bounds, agreeing buffers, lasting settings | two hosts and room for one, three lines, two commands, buffers of two and three |
| `drop_stats` | is every drop counted once or lost, do shown numbers grow, is every update counted in the end? | one listener started twice, two connections of one source, two drops, one error line, a channel of one |
| `drop_stats_shown` | is a drop shown once? It is not | as above |
| `terminal_ui` | is the window inside the lines, is the filter shown the one applied, does the screen come to show the engine's state? | one listener, one source, one text, two lines, two snapshots on the way, a queue of one, three counted events, any number of tabs and keys of an unfinished search |
| `rates` | does the dashboard show a steady stream? It does not | three buckets of two ticks, six ticks |

Two of most things are enough for what is asked here: two loops to pass a test
together, two producers of one channel, two callers to mix up answers, two hosts
where one has room. Where a third matters (a third connection to be rejected, a
fourth request that meets what three left behind) there is one. `CHECK_DEADLOCK
FALSE` stands in every configuration because every model ends when its bounds are
used up or its context is cancelled.

### Fairness

`Ingest` and `Program`: a goroutine that can run does (weak fairness). A case of
a select that is ready again and again is chosen in the end, since Go picks among
the ready cases at random (strong fairness of `Consume`, `HandleCommand`,
`BuildSnapshot` and the ticks); waiters of a channel or a mutex are served in
order (strong fairness of `ForwarderSend` and `Lock`). Nothing obliges clients to
send, callers to call or a user to interrupt. `Ingest` promises nothing once the
context is cancelled; `Program` assumes no fairness of what ends then (the hub, a write
loop, the engine may choose another case for ever), only of main and of the goroutine
that waits to call `Shutdown`.
`Connections`: accept loops and read loops that are not waiting for input run, and
`Stop` goes on to close the socket. That a peer sends or closes is not assumed: a
silent connection of a stopped listener stays and keeps its place.
`DropStats`: a snapshot that was begun ends, and the engine's select chooses the drop
channel and the aggregator's tick in the end (strong fairness of `Collect` and
`FlushStats`, the ticker taken to fire again and again), however many snapshots and
commands compete. Read loops owe nothing.
`TerminalUI`: the engine answers and takes commands, and the loop takes ticks,
snapshots and results in the end, among each other and keys (strong fairness: they
are handed over on one channel, first come first served). Nobody has to press a key.

## Proofs

All for every value of the constants that the modules' `ASSUME`s allow.

| theorem | says | along which argument |
|---|---|---|
| `RingBufferProofs!TypeCorrect` | the window stays inside the array | inductive with: the oldest entry is in slot 0 until the buffer is full |
| `RingBufferProofs!ImplementsBoundedLog` | the array implements the log | one lemma per operation about `Items` |
| `RingBufferProofs!VersionIsFresh` | a change of content is a change of version | from the step itself |
| `IngestProofs!TypeCorrect` | channels keep to their capacity | inductive as it stands |
| `IngestProofs!ImplementsDelivery` | the pipeline implements `LineDelivery` | `Inv`: each connection's lines form one chain through ingest channel, forwarder's hand and shard (`Chain`), every line is in the shard of its connection (`Routed`), all lines up to `sent` are somewhere (`ReadSoFar`), dropped lines are nowhere else, and nothing is between shards and engine in synchronous mode |
| `IngestProofs!OrderIsKept`, `NothingVanishes` | order without gaps, account | from `Inv` and the delivery specification |
| `IngestProofs!RateIsExact` | counted and pending lines are the lines applied | inductive with the type |
| `ProgramProofs!OneAtATime` | at most one request, snapshot or answer is under way, and it is that of the caller who holds the mutex | `Rendezvous`, inductive as it stands; every step of the program is a step of the loop, the end of its context, or leaves the loop alone (`LoopStep`) |
| `ProgramProofs!AnswersArePaired`, `EngineNeverBlocked` | nobody is given another's snapshot; the engine finds room for its answer | from `OneAtATime`: the answer there is was made for the holder, and there is none when the engine makes one |
| `ProgramProofs!TypeCorrect` | types, and no channel of the engine beyond its capacity | inductive with `Rendezvous`, without which the engine might have nobody to answer |
| `ConnectionsProofs!ListenerLimitHolds` | a listener's counter is within its limit | a loop that has passed its test has left room for one: only that loop counts up |
| `ConnectionsProofs!GlobalLimitHolds` | the shared counter exceeds its limit by less than the number of loops | once a loop has passed, what is counted plus the loops that have passed and not yet counted is within the limit plus that slack; cardinalities of the two sets of loops |
| `ConnectionsProofs!CountersHold`, `TypeCorrect` | counters are exact when nobody is under way, and never negative | `CountInv`: each counter is the cardinality of the connections that have counted in it and not yet out (`Counts`), and a busy loop and the connection it accepted name each other (`Held`) |
| `ConnectionsProofs!RejectionsJustified` | nobody is turned away with room left | from `CountInv` at the step that rejects: the counter that was tested is the cardinality of a set of connections that are there |
| `ConnectionsProofs!LateLinesBounded` | one line at most after `Stop` | a connection that had its late line is at the test that ends it, or past it (`LateInv`) |
| `CommandsProofs!TypeCorrect` | the queue has room, a request is in it once, errors are no more than requests | `QueueInv` (what is queued was sent and has no answer), and errors so far plus requests not yet handled are at most all requests (`ErrorsInv`) |
| `CommandsProofs!NoSocketIsOrphaned`, `StatusHolds` | every socket is some id's; a status other than error is the socket's, and an entry is of one id | `TablesAgree`: sockets differ in number and in address, no two ids have one entry, each entry is an open socket at its id's address, and a status excludes or requires the entry; without the address part, starting an id again could lose a socket |
| `CommandsProofs!FiltersHold` | the three filters are one | `FilterInv`: there is a filter sent last, which a queued request, the engine, the copy and the dashboard each have or are about to have, until requests cross |
| `EngineStateProofs!CacheIsSound` | a cache hit is what filtering would give | versions only grow, and the version in the cache stands for the content it was made from, in whichever buffer it was |
| `EngineStateProofs!SourcesStayBounded` | the table of sources is bounded | the test precedes the insertion in the same step; overflow apart |
| `EngineStateProofs!TypeCorrect` | no buffer outgrows its capacity, every source has one | `TypeInv`: versions are at most the events and commands so far, errors at most the events |
| `EngineStateProofs!SettingsHold` | name and mute change by a rename and a mute of that source only | from the type of a source: an event changes one field of one record, or the overflow source; a command about a source changes that one |
| `EngineStateProofs!CopiesHold` | the r-th latest line of a source is the same in both buffers | `CopiesAgree`, inductive with the type. Its lemmas are about ranks: a line of the source moves its others one back (`RankOfAppend`), lines that fall out of a buffer are the oldest and move nobody (`RankOfSuffix`, by a bijection of the indices) |
| `EngineStateProofs!GlobalBufferIsLog`, `SourceBuffersAreLogs` | each buffer of the engine is a `BoundedLog` | from the type: a buffer is never longer than its capacity, so the last of a sequence with one line more is the sequence or its tail (`AppendedIsLatest`); no step touches a buffer except by appending or clearing (`LogStep`). With `ImplementsBoundedLog` this joins the array to the engine's state |
| `DropStatsProofs!DropsAccounted` | each drop counted once, under way, or lost | `AccountInv`: total, listener, source and shard counter each owe the drops of their connections less what is in hand, in the channel, in the batch or lost; `Flow` bounds the channel and what a read loop has in hand. The lemmas count the places of a sequence by key and show that appending, taking the head and tallying a batch move them from one side to the other |
| `DropStatsProofs!ShownHolds` | shown drops never fall | `ShowInv`: both tables only grow, the engine's keys are among the server's, the half-made snapshot has read no more than the tables hold now, and the last one shown is behind both (`Behind`), listeners stopped since apart |
| `DropStatsProofs!TypeCorrect` | types, the channel within its capacity | from `ShowInv` |
| `LiveViewProofs!ExactWithoutGaps` | a screen that missed nothing has the content of its snapshot and lists each row once | `LiveInv`: there is a history, a function from numbers to snapshots, and everything that keeps a snapshot with a number (hub, handler, frame in a channel or on the wire, browser) agrees with it; every delta under way leads from one of its snapshots to another of which it was right to send it. A number that is given out extends the history. It is needed because tick and handler each take a snapshot and a number in steps of their own: nothing in the code keeps the two together. `DeltaIsExact`: such a delta patched onto any screen with the content kept of the first, however it is ordered, gives the content that would be kept of the second (`PatchedIsListed`: and each row once) |
| `LiveViewProofs!CalmConverges` | after a calm full period a tab that has handled its frames shows the engine's lines, counters and rows | `CalmInv`, inductive with `LiveInv`; see below |
| `LiveViewProofs!TypeCorrect` | frames, channels and screens are of their types | from `LiveInv` |

`CalmConverges` is the one statement here that needs progress to be counted. The tab
discards snapshots whose number is not above its own, the tick sends a full snapshot
only now and then, and a channel of one place drops the frame that waits in it, so
that nothing under way need ever arrive. What holds is this: `calm` counts ticks
since something last changed or was lost, and while it is positive

- `CalmTick`: the snapshot the tick compares with or is about to send has the engine's
  content, whatever its order;
- `ShiftInv`: a tab's number is above the hub's by the snapshots it fetched itself, at
  most (each numbered its snapshot one beyond the hub's last);
- every connected tab is settled or pending (`CalmTabs`). *Settled*: it shows the
  engine's state, or a snapshot of it that the tab will not discard is under way
  with only older frames before it, and whatever follows on the wire, in the slot or
  in the tick's hand renews the same state. *Pending*: the full snapshot is still to
  come, and the tab's number is either no obstacle or has at least `calm` numbers of
  its lead used up. A tab with a lead of `n` is therefore pending for `n` calm ticks
  at most, and then until the next full snapshot, at most `FullEvery` ticks further on.

`Period` is that sum, so a tab which has been calm for its period is settled, and one
with nothing under way shows the engine's state (`CalmIsConvergence`). Without
`ShiftInv` a tab's number could be beyond the hub's for ever, which is what
`live_view_restart` finds after a restart; hence the condition `restarts = 0`. The
proof has one lemma per action; the hard ones are `OfferCalm` (a frame is put in the
slot, or takes the place of the one there) and `AnswerCalm` (a tab's own snapshot
arrives between frames).

What is assumed is what the `ASSUME`s say and TLC evaluates: capacities and limits are
positive where the code makes them so, the tables of names are functions, requests,
connections and rows are finitely many (`Commands`, `DropStats`, `LiveView`), and
"no snapshot" is not a snapshot (`LiveView`).

Only model-checked:

- everything under fairness (`AcceptedIsApplied`, `SnapshotReturns`, `Exits`,
  `StopEndsLoop`, `AcceptedIsCounted`, `Settles`): TLAPS does not reason about `ENABLED`;
- `TypeOK` and `SearchAgrees` of `TerminalUI`: what is asked and answered is a bag,
  and a command is merged with its number (`@@`), neither of which the provers can
  expand; the runs cover both;
- the three properties that are violated, of `LiveView`, `DropStats` and `Rates`.

## What the checks found

- The server and the engine both count a drop, and a snapshot shows the sum of the
  two: every drop that reached the engine is shown twice (`drop_stats_shown`,
  `internal/engine/snapshot.go:122`).
- `RollingCounter.Add` moves the start before it computes the bucket, so every event
  falls into the first one, and the dashboard shows the last: logs per second are
  zero whatever arrives (`rates`, `internal/store/stats.go:24`).
- After a restart of the program an open page discards everything until the new
  numbers exceed the old one (`live_view_restart`, `web/src/lib/store.ts:143`).

Also seen while modelling, with no property of its own: a tab that has missed nothing
may list its sources in another order than the snapshot does (sorted,
`internal/engine/snapshot.go:110`; patched in place, `web/src/lib/store.ts:231`), so that
the eight of them the dashboard shows (`web/src/routes/DashboardPage.tsx:143`) may be
others until the next full snapshot; statistics of a host that connected before its
first line travel in no delta (`internal/web/delta.go:122`); the merge adds the errors of
a listener or a source once more in its last loop (`internal/engine/snapshot.go:123`,
`:134`, `:144`, `:155`; `Merged` has it); nothing calls `updateDropStats`
(`internal/engine/stats.go:40`); a tick can overtake the initial snapshot of a
new page (`internal/web/hub.go:133`), which then discards that snapshot and asks
again over HTTP; a filter that is loosened without changing the lines before travels as a delta although a comment
in `internal/web/delta.go` promises a full snapshot; removing or retrying an
unknown listener answers only by the timeout; retrying a listener that listens
gives it the status error while it goes on listening; muting a source changes
nothing but its flag (`Muted` is read nowhere); every dashboard that is opened sets
the filter of all of them to everything, because it sends its own on being mounted
(`web/src/routes/DashboardPage.tsx:30`), and two requests of one dashboard may arrive
in the other order; error counters of a line are kept before the limit on sources is
tested, so their keys are not bounded by it (`internal/engine/ingest.go:96`).

Of the end: `ListenAndServe` returns as soon as `Shutdown` is called, so the two
seconds meant for handlers (`internal/web/server.go:96`) have no effect; a hub or a
handler that asks for a snapshot after the engine's end waits until the process is gone.

Of `internal/ui`: level keys and the source focus never combine or clear, because
they are set in a copy (`filters.go:49`, `:87`; the view promises "Press enter to
clear"); "lines above" counts the lines below (`render_components.go:98`); a paused
dashboard moves as lines arrive, since `scroll` counts from the end; each filter, mute
or clear leaves a goroutine that waits for ever (`commands.go:120`); rows of listeners
come in the order of a map, so the cursor may stand on another one after each
snapshot; ctrl+c does not quit while text is entered.

## Not modelled

- styles, layout and labels of `internal/ui/`: wording and looks only.
- `internal/config/`, `internal/model/` and the flags of `main.go`: constants of the
  modules here.
- validation and encoding in the HTTP API, static files, rendering in the browser:
  pure functions of their inputs. The source requests of the API are commands of
  `EngineState`, put into the queue like those of `Commands`.
- tests.

## State of the work

Modelled: the line's way to the buffer, the loop and the program around it, the way to
the screen, the server, the commands and filters, the engine's state, the
statistics, the terminal UI. Every invariant the passing runs check, except those of
`TerminalUI`, and every action property is also a theorem.

Open, most important first:

1. `SearchAgrees` of `TerminalUI` as a theorem: the last text on its way to the engine is
   the model's. It wants commands as records of one shape in place of the merge.
2. An abstract screen that `LiveView` implements, as a `PROPERTY` of the run: it shows some past
   snapshot or is marked as having a gap. As an invariant this is `ExactWithoutGaps`.
