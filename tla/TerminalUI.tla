------------------------------- MODULE TerminalUI -------------------------------
(***************************************************************************)
(* The terminal interface (internal/ui): one loop, Update, that takes keys,  *)
(* ticks, snapshots and results of commands and returns the next model,      *)
(* next to goroutines that each ask the engine for one snapshot or wait for  *)
(* one result.  A key that gives a command puts it into the engine's queue   *)
(* inside Update, which waits while the queue is full.                       *)
(* The engine is the tables and the number of lines a snapshot would show,   *)
(* in any order (it ranges over maps), and a version that grows with every   *)
(* change.  Levels and source of the filter are not part of the model m:     *)
(* toggleLevel and toggleSourceFocus set them in a copy, which is sent and   *)
(* forgotten.  Styles and layout are left out.                               *)
(***************************************************************************)
EXTENDS Integers, Sequences, SequencesExt, FiniteSets, Bags, TLC

CONSTANTS
  Ids,           (* listeners that may be added                             *)
  Default,       (* the one that an empty input stands for                  *)
  Sources,       (* hosts that may send lines                               *)
  Texts,         (* search texts                                            *)
  NoText,
  Levels,        (* the bits of LevelMaskAll                                *)
  NoSource,
  MaxLines,      (* lines the engine keeps                                  *)
  Heights,       (* how many lines of the dashboard fit                     *)
  CommandSize,   (* capacity of uiCmdCh (64)                                *)
  MaxFetches,    (* bound on the goroutines that ask for a snapshot         *)
  MaxEvents,     (* bound on arrivals of lines, resizes and keys, those apart
                    that change the view or belong to an unfinished search  *)
  None

ASSUME TerminalUIAssumption ==
  /\ Heights \subseteq Nat \ {0}
  /\ Heights # {}
  /\ {CommandSize, MaxFetches} \subseteq Nat \ {0}
  /\ {MaxLines, MaxEvents} \subseteq Nat
  /\ Default \in Ids
  /\ NoText \notin Texts

VARIABLES
  engine,        (* its tables, its filters and the number of visible lines *)
  m,             (* the Model: what Update returned last                    *)
  asked,         (* how many goroutines of requestSnapshot wait             *)
  answered,      (* the bag of the snapshots they hand to Update            *)
  sending,       (* the command Update is putting into the queue, or None   *)
  queue,         (* uiCmdCh                                                 *)
  waiters,       (* goroutines of waitForCommandResult                      *)
  events,        (* for MaxEvents                                           *)
  quit

vars == <<engine, m, asked, answered, sending, queue, waiters, events, quit>>

Views == <<"dashboard", "listeners", "sources", "filters">>

NextView(view) == Views[((CHOOSE i \in 1 .. 4 : Views[i] = view) % 4) + 1]

AllFilters == [text |-> NoText, levels |-> Levels, source |-> NoSource]

NoSnapshot == [version |-> 0, lines |-> 0, listeners |-> << >>, sources |-> << >>]

(* Init of the loop asks for a snapshot and starts the one chain of ticks. *)
Init ==
  /\ engine = [version |-> 0, lines |-> 0, listeners |-> {}, sources |-> {}, filters |-> AllFilters]
  /\ m = [view |-> "listeners", mode |-> "keys", input |-> Default, search |-> NoText,
          text |-> NoText, selected |-> 1, sourceIndex |-> 1, scroll |-> 0, follow |-> TRUE,
          failed |-> FALSE, height |-> Min(Heights), snapshot |-> NoSnapshot]
  /\ asked = 1
  /\ answered = EmptyBag
  /\ sending = None
  /\ queue = << >>
  /\ waiters = {}
  /\ events = 0
  /\ quit = FALSE

-------------------------------------------------------------------------------
(* The engine. *)

(* quit cancels the engine's context and ends the program. *)
Event == ~quit /\ events < MaxEvents /\ events' = events + 1

LinesArrive ==
  /\ Event
  /\ \E n \in {engine.lines, engine.lines + 1} \cap 0 .. MaxLines, s \in Sources :
       engine' = [engine EXCEPT !.version = @ + 1, !.lines = n, !.sources = @ \cup {s}]
  /\ UNCHANGED <<m, asked, answered, sending, queue, waiters, quit>>

Snapshots ==
  [version : {engine.version}, lines : {engine.lines},
   listeners : SetToSeqs(engine.listeners), sources : SetToSeqs(engine.sources)]

(* The engine answers one of those who asked. *)
AnswerSnapshot ==
  /\ ~quit
  /\ asked > 0
  /\ asked' = asked - 1
  /\ \E s \in Snapshots : answered' = answered (+) SetToBag({s})
  /\ UNCHANGED <<engine, m, sending, queue, waiters, events, quit>>

(* What a command does to the tables; a listener is never forgotten, only its
   status changes.  A filter and a cleared buffer change what is visible. *)
AfterCommand(c) ==
  CASE c.op = "add" -> [engine EXCEPT !.listeners = @ \cup {c.id}]
    [] c.op = "filter" -> [engine EXCEPT !.filters = c.filters]
    [] OTHER -> engine

ListenerOps == {"add", "remove", "retry"}

(* Only commands about listeners the engine knows are answered. *)
Results(c) ==
  IF c.op = "add" \/ (c.op \in ListenerOps /\ c.id \in engine.listeners)
  THEN {"ok", "failed"} ELSE {"none"}

HandleCommand ==
  /\ ~quit
  /\ queue # << >>
  /\ queue' = Tail(queue)
  /\ LET c == Head(queue) IN
     /\ \E n \in IF c.op \in {"filter", "clear"} THEN 0 .. MaxLines ELSE {engine.lines} :
          engine' = [AfterCommand(c) EXCEPT !.version = @ + 1, !.lines = n]
     /\ \E r \in Results(c) :
          waiters' = {IF w.n = c.n THEN [w EXCEPT !.result = r] ELSE w : w \in waiters}
  /\ UNCHANGED <<m, asked, answered, sending, events, quit>>

-------------------------------------------------------------------------------
(* Update: what it returns. *)

Handles == ~quit /\ sending = None

(* The next model, and nothing to run. *)
Show(next) == m' = next /\ UNCHANGED <<asked, answered, sending, waiters>>

(* The next model, and a goroutine that asks for a snapshot. *)
Fetch(next) ==
  /\ asked + BagCardinality(answered) < MaxFetches
  /\ m' = next
  /\ asked' = asked + 1
  /\ UNCHANGED <<answered, sending>>

(* The next model, a command, and a goroutine that waits for its result. *)
Send(next, command) ==
  /\ m' = next
  /\ sending' = command @@ [n |-> events']
  /\ waiters' = waiters \cup {[n |-> events', op |-> command.op, result |-> "none"]}
  /\ UNCHANGED <<asked, answered>>

Enqueue ==
  /\ sending # None
  /\ Len(queue) < CommandSize
  /\ queue' = Append(queue, sending)
  /\ sending' = None
  /\ UNCHANGED <<engine, m, asked, answered, waiters, events, quit>>

-------------------------------------------------------------------------------
(* Messages other than keys. *)

TickMsg_Stops ==
  /\ Handles
  /\ m.view = "dashboard"
  /\ Fetch(m)
  /\ UNCHANGED <<engine, queue, waiters, events, quit>>

TickMsg ==
  /\ Handles
  /\ Fetch(m)
  /\ UNCHANGED <<engine, queue, waiters, events, quit>>

(* Whichever snapshot comes, an older one too. *)
SnapshotMsg(s) ==
  /\ Handles
  /\ m' = [m EXCEPT !.snapshot = s, !.selected = Min({@, Max({1, Len(s.listeners)})})]
  /\ answered' = answered (-) SetToBag({s})
  /\ UNCHANGED <<engine, asked, sending, queue, waiters, events, quit>>

ResultMsg(w) ==
  /\ Handles
  /\ w.result # "none"
  /\ Fetch([m EXCEPT !.failed = w.result = "failed"])
  /\ waiters' = waiters \ {w}
  /\ UNCHANGED <<engine, queue, events, quit>>

ResizeMsg ==
  /\ Handles
  /\ Event
  /\ \E h \in Heights \ {m.height} : Show([m EXCEPT !.height = h])
  /\ UNCHANGED <<engine, queue, quit>>

-------------------------------------------------------------------------------
(* Keys. *)

Press(mode) ==
  /\ Handles
  /\ m.mode = mode
  /\ Event
  /\ UNCHANGED <<engine, queue, quit>>

(* A key that is not counted. *)
Browse(mode) ==
  /\ Handles
  /\ m.mode = mode
  /\ UNCHANGED <<engine, queue, events, quit>>

Quit ==
  /\ Handles
  /\ m.mode = "keys"
  /\ quit' = TRUE
  /\ UNCHANGED <<engine, m, asked, answered, sending, queue, waiters, events>>

Tab ==
  /\ Browse("keys")
  /\ Fetch([m EXCEPT !.view = NextView(@)])
  /\ UNCHANGED waiters

Up ==
  /\ Press("keys")
  /\ Show(CASE m.view = "dashboard" ->
                 [m EXCEPT !.follow = FALSE, !.scroll = Min({@ + 1, Max({0, m.snapshot.lines - 1})})]
            [] m.view = "sources" -> [m EXCEPT !.sourceIndex = Max({1, @ - 1})]
            [] OTHER -> [m EXCEPT !.selected = Max({1, @ - 1})])

Down ==
  /\ Press("keys")
  /\ Show(CASE m.view = "dashboard" ->
                 [m EXCEPT !.scroll = Max({0, @ - 1}), !.follow = @ \/ m.scroll <= 1]
            [] m.view = "sources" ->
                 [m EXCEPT !.sourceIndex = IF @ < Len(m.snapshot.sources) THEN @ + 1 ELSE @]
            [] OTHER -> [m EXCEPT !.selected = IF @ < Len(m.snapshot.listeners) THEN @ + 1 ELSE @])

Follow ==
  /\ Press("keys")
  /\ m.view = "dashboard"
  /\ Show([m EXCEPT !.follow = ~@, !.scroll = IF m.follow THEN @ ELSE 0])

FilterCommand(text, levels, source) ==
  [op |-> "filter", filters |-> [text |-> text, levels |-> levels, source |-> source]]

(* toggleLevel, of the levels m has, which are all. *)
Toggled(mask, level) ==
  LET base == IF mask = Levels THEN {} ELSE mask
      new  == IF level \in base THEN base \ {level} ELSE base \cup {level}
  IN  IF new = {} THEN Levels ELSE new

Level_OfTheInput ==
  /\ Press("keys")
  /\ m.view = "dashboard"
  /\ \E l \in Levels : Send(m, FilterCommand(m.search, Toggled(Levels, l), NoSource))

Level ==
  /\ Press("keys")
  /\ m.view = "dashboard"
  /\ \E l \in Levels : Send(m, FilterCommand(m.text, Toggled(Levels, l), NoSource))

OpenSearch ==
  /\ Browse("keys")
  /\ m.view = "dashboard"
  /\ Show([m EXCEPT !.mode = "search", !.search = m.text])

ClearSearch ==
  /\ Press("keys")
  /\ m.view = "dashboard"
  /\ Send([m EXCEPT !.text = NoText, !.search = NoText], FilterCommand(NoText, Levels, NoSource))

(* toggleSourceFocus *)
Focus ==
  /\ Press("keys")
  /\ m.view = "sources"
  /\ m.sourceIndex \in DOMAIN m.snapshot.sources
  /\ Send(m, FilterCommand(m.text, Levels, m.snapshot.sources[m.sourceIndex]))

OpenAdd ==
  /\ Press("keys")
  /\ m.view = "listeners"
  /\ Show([m EXCEPT !.mode = "add", !.input = Default, !.failed = FALSE])

(* ctrl+d and ctrl+r, on the selected listener. *)
ListenerKey(op) ==
  /\ Press("keys")
  /\ m.view = "listeners"
  /\ m.selected \in DOMAIN m.snapshot.listeners
  /\ Send(m, [op |-> op, id |-> m.snapshot.listeners[m.selected]])

(* m and x, on the selected source. *)
SourceKey(op) ==
  /\ Press("keys")
  /\ m.view = "sources"
  /\ m.sourceIndex \in DOMAIN m.snapshot.sources
  /\ Send(m, [op |-> op, key |-> m.snapshot.sources[m.sourceIndex]])

(* handleAddInput; the input is what parseHostPort makes of it. *)
AddType ==
  /\ Press("add")
  /\ \E id \in Ids \cup {None} : Show([m EXCEPT !.input = id])

AddEnter ==
  /\ Press("add")
  /\ \/ /\ m.input = None
        /\ Show([m EXCEPT !.failed = TRUE])
     \/ /\ m.input # None
        /\ Send([m EXCEPT !.mode = "keys", !.input = Default], [op |-> "add", id |-> m.input])

AddEscape ==
  /\ Press("add")
  /\ Show([m EXCEPT !.mode = "keys", !.input = Default])

(* handleSearchInput *)
SearchType ==
  /\ Browse("search")
  /\ \E text \in Texts \cup {NoText} : Show([m EXCEPT !.search = text])

SearchEnter ==
  /\ Press("search")
  /\ Send([m EXCEPT !.mode = "keys", !.text = m.search, !.search = NoText, !.scroll = 0, !.follow = TRUE],
          FilterCommand(m.search, Levels, NoSource))

SearchEscape ==
  /\ Browse("search")
  /\ Show([m EXCEPT !.mode = "keys", !.search = NoText])

-------------------------------------------------------------------------------
(* renderDashboard: of the lines there are, it shows those after Start, up to
   End. *)

Scroll == IF m.follow THEN 0 ELSE m.scroll

Start_Unclamped == m.snapshot.lines - m.height - Scroll

Start == Max({0, m.snapshot.lines - m.height - Scroll})

End == Min({m.snapshot.lines, Start + m.height})

-------------------------------------------------------------------------------
Key ==
  \/ Quit \/ Tab \/ Up \/ Down \/ Follow
  \/ Level \/ OpenSearch \/ ClearSearch \/ Focus \/ OpenAdd
  \/ \E op \in {"remove", "retry"} : ListenerKey(op)
  \/ \E op \in {"mute", "clear"} : SourceKey(op)
  \/ AddType \/ AddEnter \/ AddEscape
  \/ SearchType \/ SearchEnter \/ SearchEscape

Update ==
  \/ TickMsg
  \/ \E s \in BagToSet(answered) : SnapshotMsg(s)
  \/ \E w \in waiters : ResultMsg(w)
  \/ ResizeMsg
  \/ Key
  \/ Enqueue

Engine ==
  \/ LinesArrive
  \/ AnswerSnapshot
  \/ HandleCommand

Next == Update \/ Engine

(* The engine serves each case of its select in the end (module Program), the
   goroutines' messages are taken in the order they come, the chain of ticks goes
   on.  Nobody has to press a key. *)
Fairness ==
  /\ WF_vars(AnswerSnapshot) /\ WF_vars(HandleCommand) /\ WF_vars(Enqueue)
  /\ SF_vars(\E s \in BagToSet(answered) : SnapshotMsg(s))
  /\ SF_vars(TickMsg)
  /\ SF_vars(\E w \in waiters : ResultMsg(w))

Spec == Init /\ [][Next]_vars /\ Fairness

-------------------------------------------------------------------------------
(* Type correctness, and what would panic otherwise: whatever is scrolled while
   snapshots grow and shrink, the dashboard cuts its lines inside of them and
   shows as many as fit, the latest when it follows. *)
TypeOK ==
  /\ engine.version \in Nat /\ engine.lines \in 0 .. MaxLines
  /\ engine.listeners \subseteq Ids /\ engine.sources \subseteq Sources
  /\ m.view \in ToSet(Views)
  /\ m.mode \in {"keys", "add", "search"}
  /\ m.mode = "add" => m.view = "listeners"
  /\ m.mode = "search" => m.view = "dashboard"
  /\ m.text \in Texts \cup {NoText} /\ m.search \in Texts \cup {NoText}
  /\ m.input \in Ids \cup {None}
  /\ m.selected \in 1 .. Max({1, Len(m.snapshot.listeners)})
  /\ m.sourceIndex \in Nat \ {0}
  /\ m.scroll \in Nat /\ m.follow \in BOOLEAN /\ m.failed \in BOOLEAN
  /\ m.snapshot.lines > 0 =>
       /\ 0 <= Start /\ Start < End /\ End <= m.snapshot.lines
       /\ End - Start = Min({m.height, m.snapshot.lines})
       /\ m.follow => End = m.snapshot.lines
  /\ Len(queue) <= CommandSize
  /\ events \in 0 .. MaxEvents /\ quit \in BOOLEAN

(* The text that the dashboard names as its filter is the one the engine applies
   when no command is under way, in whatever order text, levels and source were
   changed: each of these keys sends all three (commands.go:51-69). *)
SearchAgrees ==
  sending = None /\ queue = << >> => engine.filters.text = m.text

Settled ==
  /\ m.snapshot.version = engine.version
  /\ \A w \in waiters : w.op \notin ListenerOps

(* When the keys and the lines stop, the screen comes to show the engine's state
   and keeps it, although older snapshots may be applied after newer ones, and
   every command about a listener has had its result shown (model.go:79-95). *)
Settles == <>[](Settled \/ quit)
===============================================================================
