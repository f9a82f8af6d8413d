------------------------------- MODULE LiveView -------------------------------
(***************************************************************************)
(* How a change inside the engine reaches the screens: the hub's ticks and   *)
(* the handlers of new WebSockets (internal/web/hub.go), which move one      *)
(* shared "last snapshot" under a mutex, the channel of one frame per        *)
(* connection, and the browser's store (web/src/lib/store.ts), which applies *)
(* frames by sequence number and reconnects when a connection breaks.        *)
(* The engine is its buffer, its filter and its tables; a snapshot of it is  *)
(* atomic (module EngineLoop).  Connection <<b, i>> is the i-th of browser b.*)
(***************************************************************************)
EXTENDS Delta

CONSTANTS
  Browsers,
  Text,          (* contents a line may have                                *)
  Filters,       (* sets of texts that a filter lets through                *)
  NoFilter,      (* the filter a program starts with: every text            *)
  Rows,          (* listeners and sources                                   *)
  MaxStats,      (* the counters are a number up to this one                *)
  Capacity,      (* lines the engine keeps                                  *)
  FullEvery,     (* ticks from one full snapshot to the next                *)
  WireSize,      (* frames under way on a connection before a write waits   *)
  Attempts,      (* bound on the connections of a browser                   *)
  MaxTroubles,   (* bound on changes inside the engine, broken connections,
                    uses of the refresh button and restarts, all together;
                    a change of the counters weighs two                     *)
  MaxSeq,        (* bound on the sequence number                            *)
  None           (* no snapshot                                             *)

ASSUME LiveViewAssumption ==
  /\ IsFiniteSet(Rows)
  /\ NoFilter \in Filters
  /\ Text \subseteq NoFilter
  /\ {Capacity, FullEvery, WireSize} \subseteq Nat \ {0}
  /\ {Attempts, MaxTroubles, MaxSeq, MaxStats} \subseteq Nat

Conns == Browsers \X (1 .. Attempts)

VARIABLES
  log, filter, stats,   (* the engine                                       *)
  rows,          (* its tables: a value for each row                        *)
  seq,           (* hub.seq                                                 *)
  last,          (* hub.lastSnap with its lastSnapSeq, or None              *)
  age,           (* ticks since lastFullTime                                *)
  tick,          (* the hub goroutine inside broadcastTick                  *)
  status,        (* of each connection: "new", "open" or "closed"           *)
  serve,         (* the handler of each connection inside serveWS           *)
  slot,          (* client.send: at most one frame                          *)
  wire,          (* frames written and not yet handled by the browser       *)
  attempt,       (* connections each browser has opened                     *)
  shown,         (* state.snapshot of each browser                          *)
  shownSeq,      (* state.seq                                               *)
  fetches,       (* answers of GET /api/v1/snapshot under way               *)
  refreshes,     (* snapshots each browser asked for by itself              *)
  restarts,
  troubles,      (* for MaxTroubles                                         *)
  standsFor,     (* for the properties: the snapshot a screen should show
                    because no frame was missed since a full one, or None   *)
  calm           (* for the properties: ticks since the last disturbance    *)

backend == <<log, filter, stats, rows>>
hub == <<seq, last, age, tick>>
links == <<status, serve, slot, wire, attempt>>
browser == <<shown, shownSeq, fetches, refreshes, standsFor>>
program == <<restarts, troubles>>
vars == <<backend, hub, links, browser, program, calm>>

(* The content of a snapshot taken now. *)
Visible ==
  [lines |-> Passing(log, filter),
   rows  |-> rows,
   stats |-> stats]

(* What Snapshot("active") may return.  Its lists are made of maps, in no order
   (listeners), or sorted by figures that may be the same (sources). *)
Orders == {o \in [1 .. Cardinality(DOMAIN rows) -> DOMAIN rows] : Lists(o, DOMAIN rows)}

Built(o) ==
  [lines |-> Visible.lines, rows |-> rows, order |-> o, stats |-> stats]

SnapshotsNow == {Built(o) : o \in Orders}

Idle == [at |-> "idle"]

Disturbed == calm' = 0

(* What may happen from outside, up to the bound. *)
Trouble(weight) ==
  /\ troubles + weight <= MaxTroubles
  /\ troubles' = troubles + weight
  /\ Disturbed

Clients == {k \in Conns : status[k] = "open"}

Current(b) == <<b, attempt[b]>>

Connected(b) == Current(b) \in Clients

(* Ticks after which a tab has a full snapshot it does not discard: each refresh
   has put it one number ahead. *)
Period(b) == FullEvery + refreshes[b]

Init ==
  /\ log = << >> /\ filter = NoFilter /\ rows = << >> /\ stats = 0
  /\ seq = 0 /\ last = None /\ age = FullEvery /\ tick = Idle
  /\ status = [k \in Conns |-> "new"]
  /\ serve = [k \in Conns |-> Idle]
  /\ slot = [k \in Conns |-> << >>]
  /\ wire = [k \in Conns |-> << >>]
  /\ attempt = [b \in Browsers |-> 0]
  /\ shown = [b \in Browsers |-> None]
  /\ shownSeq = [b \in Browsers |-> 0]
  /\ fetches = [b \in Browsers |-> << >>]
  /\ refreshes = [b \in Browsers |-> 0]
  /\ restarts = 0
  /\ troubles = 0
  /\ standsFor = [b \in Browsers |-> None]
  /\ calm = 0

-------------------------------------------------------------------------------
(* The engine. *)

AppendLine(t) ==
  /\ Trouble(1)
  /\ log' = LastOf(Append(log, t), Capacity)
  /\ UNCHANGED <<filter, stats, rows, hub, links, browser, restarts>>

SetFilter(f) ==
  /\ Trouble(1)
  /\ f # filter
  /\ filter' = f
  /\ UNCHANGED <<log, stats, rows, hub, links, browser, restarts>>

(* A listener or a source appears, or something of it changes. *)
ChangeRow(r) ==
  /\ Trouble(1)
  /\ rows' = [q \in DOMAIN rows \cup {r} |->
                IF q \notin DOMAIN rows THEN 0 ELSE IF q = r THEN 1 - rows[q] ELSE rows[q]]
  /\ UNCHANGED <<log, filter, stats, hub, links, browser, restarts>>

ChangeStats ==
  /\ Trouble(2)
  /\ stats' \in (0 .. MaxStats) \ {stats}
  /\ UNCHANGED <<log, filter, rows, hub, links, browser, restarts>>

-------------------------------------------------------------------------------
(* Frames.  What a delta stands for is noted for the properties, not sent. *)

HelloFrame == [type |-> "hello"]

SnapshotFrame(snap, n) == [type |-> "snapshot", seq |-> n, of |-> snap]

DeltaFrame(prev, from, snap, n) ==
  [type |-> "delta", from |-> from, seq |-> n,
   newLogs |-> NewLogs(prev, snap), truncated |-> Truncated(prev, snap),
   patches |-> Patches(prev, snap), order |-> PatchOrder(prev, snap),
   stats |-> snap.stats, of |-> snap]

(* wsClient.enqueue: put the frame when there is room; else take out what is
   there, whatever it is, and try once more; else close.  The writer and the
   other producer may come between the two tries. *)
Crowded(k) == status[k] = "open" /\ slot[k] # << >>

Put(k, frame) ==
  slot' = IF status[k] = "open" THEN [slot EXCEPT ![k] = <<frame>>] ELSE slot

TakeOut(k) == slot' = [slot EXCEPT ![k] = << >>]

Close(k) ==
  /\ status' = [status EXCEPT ![k] = "closed"]
  /\ slot' = [slot EXCEPT ![k] = << >>]
  /\ wire' = [wire EXCEPT ![k] = << >>]

Offer_Queues(k, frame) == slot' = [slot EXCEPT ![k] = Append(@, frame)]

Offer(k, frame) == IF Crowded(k) THEN TakeOut(k) ELSE Put(k, frame)

OfferAgain(k, frame) ==
  IF Crowded(k) THEN Close(k) ELSE Put(k, frame) /\ UNCHANGED <<status, wire>>

-------------------------------------------------------------------------------
(* serveWS: hello, a snapshot, its number, publish it as the last one, send it. *)

Connect(b) ==
  /\ ~Connected(b)
  /\ attempt[b] < Attempts
  /\ attempt' = [attempt EXCEPT ![b] = @ + 1]
  /\ status' = [status EXCEPT ![Current(b)'] = "open"]
  /\ serve' = [serve EXCEPT ![Current(b)'] = [at |-> "hello", again |-> FALSE]]
  /\ standsFor' = [standsFor EXCEPT ![b] = None]
  /\ Disturbed
  /\ UNCHANGED <<backend, hub, slot, wire, shown, shownSeq, fetches, refreshes, program>>

Serving(k) ==
  IF serve[k].at = "hello" THEN HelloFrame
  ELSE SnapshotFrame(serve[k].snap, serve[k].seq)

Served(k) == IF serve[k].at = "hello" THEN [at |-> "snapshot"] ELSE Idle

ServeOffer(k) ==
  /\ serve[k].at \in {"hello", "initial"}
  /\ ~serve[k].again
  /\ Offer(k, Serving(k))
  /\ serve' = [serve EXCEPT ![k] = IF Crowded(k) THEN [@ EXCEPT !.again = TRUE] ELSE Served(k)]
  /\ Disturbed
  /\ UNCHANGED <<backend, hub, status, wire, attempt, browser, program>>

ServeOfferAgain(k) ==
  /\ serve[k].at \in {"hello", "initial"}
  /\ serve[k].again
  /\ OfferAgain(k, Serving(k))
  /\ serve' = [serve EXCEPT ![k] = Served(k)]
  /\ Disturbed
  /\ UNCHANGED <<backend, hub, attempt, browser, program>>

ServeSnapshot(k) ==
  /\ serve[k].at = "snapshot"
  /\ \E snap \in SnapshotsNow : serve' = [serve EXCEPT ![k] = [at |-> "number", snap |-> snap]]
  /\ Disturbed
  /\ UNCHANGED <<backend, hub, status, slot, wire, attempt, browser, program>>

ServeNumber(k) ==
  /\ serve[k].at = "number"
  /\ seq < MaxSeq
  /\ seq' = seq + 1
  /\ serve' = [serve EXCEPT ![k] = [at |-> "publish", snap |-> @.snap, seq |-> seq']]
  /\ Disturbed
  /\ UNCHANGED <<backend, last, age, tick, status, slot, wire, attempt, browser, program>>

ServePublish(k) ==
  /\ serve[k].at = "publish"
  /\ last' = [snap |-> serve[k].snap, seq |-> serve[k].seq]
  /\ age' = 0
  /\ serve' = [serve EXCEPT ![k] =
                 [at |-> "initial", again |-> FALSE, snap |-> @.snap, seq |-> @.seq]]
  /\ Disturbed
  /\ UNCHANGED <<backend, seq, tick, status, slot, wire, attempt, browser, program>>

-------------------------------------------------------------------------------
(* broadcastTick.  At least one tick's time passes from a tick to the next. *)

TimePasses ==
  age' \in {n \in 1 .. FullEvery : n > age \/ n = FullEvery}

TickSkip ==
  /\ tick = Idle
  /\ Clients = {}
  /\ TimePasses
  /\ UNCHANGED <<backend, seq, last, tick, links, browser, program, calm>>

TickBegin_NoPeriodic ==
  /\ tick = Idle
  /\ Clients # {}
  /\ TimePasses
  /\ tick' = [at |-> "snapshot", prev |-> last, full |-> last = None]
  /\ calm' = IF \E b \in Browsers : calm < Period(b) THEN calm + 1 ELSE calm
  /\ UNCHANGED <<backend, seq, last, links, browser, program>>

TickBegin ==
  /\ tick = Idle
  /\ Clients # {}
  /\ TimePasses
  /\ tick' = [at |-> "snapshot", prev |-> last, full |-> last = None \/ age' = FullEvery]
  /\ calm' = IF \E b \in Browsers : calm < Period(b) THEN calm + 1 ELSE calm
  /\ UNCHANGED <<backend, seq, last, links, browser, program>>

TickSnapshot ==
  /\ tick.at = "snapshot"
  /\ \E snap \in SnapshotsNow :
       tick' = [at |-> "number", prev |-> tick.prev, full |-> tick.full, snap |-> snap]
  /\ UNCHANGED <<backend, seq, last, age, links, browser, program, calm>>

(* An empty delta is not sent. *)
Silent(t) == ~t.full /\ Unchanged(t.prev.snap, t.snap)

TickFrame_CurrentSeq(t, n) ==
  IF t.full \/ ~AppendOnly(t.prev.snap, t.snap) THEN SnapshotFrame(t.snap, n)
  ELSE DeltaFrame(t.prev.snap, last.seq, t.snap, n)

TickFrame(t, n) ==
  IF t.full \/ ~AppendOnly(t.prev.snap, t.snap) THEN SnapshotFrame(t.snap, n)
  ELSE DeltaFrame(t.prev.snap, t.prev.seq, t.snap, n)

TickNumber ==
  /\ tick.at = "number"
  /\ seq < MaxSeq
  /\ seq' = seq + 1
  /\ tick' = IF Silent(tick) THEN Idle
             ELSE [at |-> "publish", prev |-> tick.prev, frame |-> TickFrame(tick, seq')]
  /\ UNCHANGED <<backend, last, age, links, browser, program, calm>>

(* broadcast: the frame goes to each client, in any order. *)
Enqueueing(frame, to) ==
  IF to = {} THEN Idle ELSE [at |-> "enqueue", frame |-> frame, to |-> to, again |-> {}]

TickPublish ==
  /\ tick.at = "publish"
  /\ last' = [snap |-> tick.frame.of, seq |-> tick.frame.seq]
  /\ age' = IF tick.frame.type = "snapshot" THEN 0 ELSE age
  /\ tick' = Enqueueing(tick.frame, Clients)
  /\ UNCHANGED <<backend, seq, links, browser, program, calm>>

TickOffer(k) ==
  /\ tick.at = "enqueue"
  /\ k \in tick.to
  /\ tick.again = {}
  /\ Offer(k, tick.frame)
  /\ \/ /\ Crowded(k)
        /\ tick' = [tick EXCEPT !.again = {k}]
        /\ Disturbed
     \/ /\ ~Crowded(k)
        /\ tick' = Enqueueing(tick.frame, tick.to \ {k})
        /\ UNCHANGED calm
  /\ UNCHANGED <<backend, seq, last, age, status, serve, wire, attempt, browser, program>>

TickOfferAgain(k) ==
  /\ tick.at = "enqueue"
  /\ k \in tick.again
  /\ OfferAgain(k, tick.frame)
  /\ tick' = Enqueueing(tick.frame, tick.to \ {k})
  /\ Disturbed
  /\ UNCHANGED <<backend, seq, last, age, serve, attempt, browser, program>>

-------------------------------------------------------------------------------
(* A connection. *)

(* writeLoop takes a frame and writes it, when the connection has room. *)
Write(k) ==
  /\ status[k] = "open"
  /\ slot[k] # << >>
  /\ Len(wire[k]) < WireSize
  /\ wire' = [wire EXCEPT ![k] = @ \o slot[k]]
  /\ slot' = [slot EXCEPT ![k] = << >>]
  /\ UNCHANGED <<backend, hub, status, serve, attempt, browser, program, calm>>

(* The connection breaks, or a write times out: the client is dropped, and the
   frames under way are lost. *)
Break(k) ==
  /\ status[k] = "open"
  /\ Close(k)
  /\ Trouble(1)
  /\ UNCHANGED <<backend, hub, serve, attempt, browser, restarts>>

-------------------------------------------------------------------------------
(* The browser. *)

Asked == [at |-> "asked"]

ApplySnapshot(b, frame) ==
  \/ /\ frame.seq <= shownSeq[b]
     /\ UNCHANGED browser
  \/ /\ frame.seq > shownSeq[b]
     /\ shown' = [shown EXCEPT ![b] = Kept(frame.of)]
     /\ shownSeq' = [shownSeq EXCEPT ![b] = frame.seq]
     /\ standsFor' = [standsFor EXCEPT ![b] = frame.of]
     /\ UNCHANGED <<fetches, refreshes>>

(* The browser's store applies a delta to whatever it shows; only when it shows
   nothing does it ask for a snapshot.  (The screen stands for a snapshot when
   the delta starts where the browser is.) *)
ApplyDelta(b, frame) ==
  \/ /\ frame.seq <= shownSeq[b]
     /\ UNCHANGED browser
  \/ /\ frame.seq > shownSeq[b]
     /\ shown[b] = None
     /\ shownSeq' = [shownSeq EXCEPT ![b] = frame.seq]
     /\ fetches' = [fetches EXCEPT ![b] = Append(@, Asked)]
     /\ refreshes' = [refreshes EXCEPT ![b] = @ + 1]
     /\ UNCHANGED <<shown, standsFor>>
  \/ /\ frame.seq > shownSeq[b]
     /\ shown[b] # None
     /\ shown' = [shown EXCEPT ![b] = Patched(@, frame)]
     /\ shownSeq' = [shownSeq EXCEPT ![b] = frame.seq]
     /\ standsFor' = [standsFor EXCEPT ![b] =
                        IF @ # None /\ frame.from = shownSeq[b] /\ ~frame.truncated
                        THEN frame.of ELSE None]
     /\ UNCHANGED <<fetches, refreshes>>

(* handleFrame *)
Handle(b) ==
  LET k == Current(b) IN
  /\ Connected(b)
  /\ wire[k] # << >>
  /\ wire' = [wire EXCEPT ![k] = Tail(@)]
  /\ LET frame == Head(wire[k]) IN
     CASE frame.type = "hello"    -> UNCHANGED browser
       [] frame.type = "snapshot" -> ApplySnapshot(b, frame)
       [] frame.type = "delta"    -> ApplyDelta(b, frame)
  /\ UNCHANGED <<backend, hub, status, serve, slot, attempt, program, calm>>

(* forceSnapshot: the refresh button, the answer, and its use as a snapshot
   numbered one above what the browser shows by then. *)
Refresh(b) ==
  /\ Trouble(1)
  /\ fetches' = [fetches EXCEPT ![b] = Append(@, Asked)]
  /\ refreshes' = [refreshes EXCEPT ![b] = @ + 1]
  /\ UNCHANGED <<backend, hub, links, shown, shownSeq, standsFor, restarts>>

Answer(b, i) ==
  /\ fetches[b][i] = Asked
  /\ \E snap \in SnapshotsNow :
       fetches' = [fetches EXCEPT ![b][i] = [at |-> "answered", snap |-> snap]]
  /\ UNCHANGED <<backend, hub, links, shown, shownSeq, refreshes, standsFor, program, calm>>

Refreshed(b, i) ==
  /\ fetches[b][i].at = "answered"
  /\ shown' = [shown EXCEPT ![b] = Kept(fetches[b][i].snap)]
  /\ shownSeq' = [shownSeq EXCEPT ![b] = @ + 1]
  /\ fetches' = [fetches EXCEPT ![b] = RemoveAt(@, i)]
  /\ standsFor' = [standsFor EXCEPT ![b] = None]
  /\ Disturbed
  /\ UNCHANGED <<backend, hub, links, refreshes, program>>

-------------------------------------------------------------------------------
(* The program ends and is started again; the browsers' tabs stay. *)
Restart ==
  /\ Trouble(1)
  /\ restarts' = restarts + 1
  /\ log' = << >> /\ filter' = NoFilter /\ rows' = << >> /\ stats' = 0
  /\ seq' = 0 /\ last' = None /\ age' = FullEvery /\ tick' = Idle
  /\ status' = [k \in Conns |-> IF status[k] = "new" THEN "new" ELSE "closed"]
  /\ serve' = [k \in Conns |-> Idle]
  /\ slot' = [k \in Conns |-> << >>]
  /\ wire' = [k \in Conns |-> << >>]
  /\ fetches' = [b \in Browsers |-> << >>]
  /\ UNCHANGED <<attempt, shown, shownSeq, refreshes, standsFor>>

-------------------------------------------------------------------------------
Engine ==
  \/ \E t \in Text : AppendLine(t)
  \/ \E f \in Filters : SetFilter(f)
  \/ \E r \in Rows : ChangeRow(r)
  \/ ChangeStats

ServeWS(k) ==
  \/ ServeOffer(k) \/ ServeOfferAgain(k)
  \/ ServeSnapshot(k) \/ ServeNumber(k) \/ ServePublish(k)

BroadcastTick ==
  \/ TickSkip
  \/ TickBegin \/ TickSnapshot \/ TickNumber \/ TickPublish
  \/ \E k \in Conns : TickOffer(k) \/ TickOfferAgain(k)

Browser(b) ==
  \/ Connect(b) \/ Handle(b) \/ Refresh(b)
  \/ \E i \in DOMAIN fetches[b] : Answer(b, i) \/ Refreshed(b, i)

Next ==
  \/ Engine
  \/ BroadcastTick
  \/ \E k \in Conns : ServeWS(k) \/ Write(k) \/ Break(k)
  \/ \E b \in Browsers : Browser(b)
  \/ Restart

Spec == Init /\ [][Next]_vars

-------------------------------------------------------------------------------
Lines == UNION {[1 .. n -> Text] : n \in 0 .. Capacity}
RowTables == UNION {[R -> 0 .. 1] : R \in SUBSET Rows}
Listings == Seq(Rows)
Snapshots ==
  {s \in [lines : Lines, rows : RowTables, order : Listings,
          stats : 0 .. MaxStats] : Lists(s.order, DOMAIN s.rows)}
Frames ==
  {HelloFrame}
    \cup [type : {"snapshot"}, seq : 1 .. MaxSeq, of : Snapshots]
    \cup [type : {"delta"}, from : 1 .. MaxSeq, seq : 1 .. MaxSeq,
          newLogs : Lines, truncated : BOOLEAN, patches : RowTables,
          order : Listings, stats : 0 .. MaxStats, of : Snapshots]

ASSUME NoneAssumption == None \notin Snapshots

(* Type correctness.  A connection's channel holds at most one frame, a delta
   brings between one and MaxLogBatch lines when it is cut, and a browser shows
   at most MaxClientLines of them. *)
TypeOK ==
  /\ SnapshotsNow \subseteq Snapshots
  /\ seq \in 0 .. MaxSeq
  /\ age \in 0 .. FullEvery
  /\ last # None => last.seq \in 1 .. seq
  /\ status \in [Conns -> {"new", "open", "closed"}]
  /\ \A k \in Conns :
       /\ Len(slot[k]) <= 1
       /\ Len(wire[k]) <= WireSize
       /\ ToSet(slot[k]) \cup ToSet(wire[k]) \subseteq Frames
       /\ status[k] # "open" => slot[k] = << >> /\ wire[k] = << >>
  /\ attempt \in [Browsers -> 0 .. Attempts]
  /\ \A b \in Browsers : shown[b] # None => Len(shown[b].lines) <= MaxClientLines

(* A browser that got a full snapshot and since then only deltas that start at
   the number it was at, none of them cut, shows the lines, the counters and the
   rows of the snapshot its number stands for, and its lists have each of the rows
   once, whichever of the hub's tick and the handlers of new connections computed
   it, however they interleaved and however the lists were ordered.  The order
   itself is not the snapshot's: a delta does not bring it
   (hub.go:187-260, delta.go:93-133, store.ts:142-236). *)
GapFreeIsExact ==
  \A b \in Browsers : standsFor[b] # None =>
    /\ Content(shown[b]) = Kept(Content(standsFor[b]))
    /\ Lists(shown[b].order, DOMAIN shown[b].rows)

UpToDate(b) ==
  /\ Connected(b)
  /\ tick = Idle
  /\ slot[Current(b)] = << >>
  /\ wire[Current(b)] = << >>
  /\ calm >= Period(b)
  => shown[b] # None /\ Content(shown[b]) = Kept(Visible)

(* Whatever frames were replaced, reordered or lost before: once nothing has
   changed for a full period, a connected browser that has handled what was sent
   to it shows the engine's lines, counters and rows, in whatever order
   (hub.go:202-221), as long as the program has not been started again. *)
ConvergesWhenCalm == restarts = 0 => \A b \in Browsers : UpToDate(b)

(* README.md:52, of the open page: "You should now see logs appear on the
   dashboard in real time" - after a restart of the program, too. *)
ConvergesAfterRestart == \A b \in Browsers : UpToDate(b)
===============================================================================
