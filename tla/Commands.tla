------------------------------- MODULE Commands --------------------------------
(***************************************************************************)
(* Commands from the HTTP API: each request's handler puts a command into    *)
(* the engine's queue (internal/web/server.go, sendCommand), the engine      *)
(* performs them one by one (internal/engine/commands.go), calling the TCP   *)
(* server to open and close sockets, and the handler waits for the result of *)
(* a listener command, for its client to leave, or for five seconds.  Three  *)
(* tables say which listeners there are: the engine's, the server's and the  *)
(* operating system's.  Start and Stop run inside the engine's goroutine and *)
(* nothing else reads their tables, so a command is one step.                *)
(***************************************************************************)
EXTENDS Integers, Sequences, FiniteSets

CONSTANTS
  Requests,      (* HTTP requests, each made once                           *)
  Ids,           (* listener ids: host and port as asked for                *)
  Addresses,     (* what a host and a port resolve to                       *)
  AddressOf,     (* the address of each id                                  *)
  Filters,
  FirstFilter,   (* the filter the engine and its copy start with           *)
  QueueSize,     (* capacity of uiCmdCh                                     *)
  None

ASSUME CommandsAssumption ==
  /\ IsFiniteSet(Requests)
  /\ AddressOf \in [Ids -> Addresses]
  /\ FirstFilter \in Filters
  /\ QueueSize \in Nat \ {0}

ListenerOps == {"add", "remove", "retry"}

ListenerCommands == [op : ListenerOps, id : Ids]
FilterCommands == [op : {"filter"}, filter : Filters]
Cmds == ListenerCommands \cup FilterCommands

VARIABLES
  queue,         (* uiCmdCh: requests whose command is waiting              *)
  at,            (* where the handler of each request is                    *)
  cmd,           (* the command of each request, or None                    *)
  answer,        (* the response channel of each request: at most one       *)
  running,       (* has the engine's context not been cancelled?            *)
  status,        (* Engine.listeners: the status of each id                 *)
  table,         (* Server.listeners: the socket each id stands for, or 0   *)
  sockets,       (* listening sockets of this program                       *)
  opened,        (* sockets opened so far                                   *)
  taken,         (* addresses that another program listens on               *)
  errors,        (* Engine.errors, as far as commands add to it             *)
  filters,       (* Engine.filters                                          *)
  copy,          (* web Server.filters                                      *)
  wanted,        (* the filter the dashboards asked for last                *)
  crossed        (* for the properties: which steps of two filter requests
                    have overlapped, "commands" or "copies"                 *)

handlers == <<at, cmd>>
listeners == <<status, table, sockets, opened>>
engine == <<running, errors, filters>>
pages == <<wanted, crossed>>
vars == <<queue, handlers, answer, engine, listeners, taken, copy, pages>>

Init ==
  /\ queue = << >>
  /\ at = [r \in Requests |-> "idle"]
  /\ cmd = [r \in Requests |-> None]
  /\ answer = [r \in Requests |-> << >>]
  /\ running = TRUE
  /\ status = [i \in Ids |-> "unknown"]
  /\ table = [i \in Ids |-> 0]
  /\ sockets = {}
  /\ opened = 0
  /\ taken = {}
  /\ errors = 0
  /\ filters = FirstFilter
  /\ copy = FirstFilter
  /\ wanted = FirstFilter
  /\ crossed = {}

-------------------------------------------------------------------------------
(* The handlers. *)

Arrives(r, c) ==
  /\ at[r] = "idle"
  /\ at' = [at EXCEPT ![r] = "sending"]
  /\ cmd' = [cmd EXCEPT ![r] = c]
  /\ UNCHANGED <<queue, answer, engine, listeners, taken, copy>>

(* What is not valid is refused before this and changes nothing. *)
PostListener(r) == (\E i \in Ids : Arrives(r, [op |-> "add", id |-> i])) /\ UNCHANGED pages

(* DELETE of a listener, or POST to its retry. *)
ListenerByID(r) ==
  /\ \E i \in Ids, op \in {"remove", "retry"} : Arrives(r, [op |-> op, id |-> i])
  /\ UNCHANGED pages

ExpectsResponse(r) == cmd[r].op \in ListenerOps

(* A dashboard asks for its whole filter 150 ms after it was opened or its filter
   was changed, and does not wait for the answer to an earlier request. *)
PatchFilters(r) ==
  /\ \E f \in Filters : Arrives(r, [op |-> "filter", filter |-> f]) /\ wanted' = f
  /\ crossed' = crossed \cup
       IF \E q \in Requests : at[q] = "sending" /\ ~ExpectsResponse(q) THEN {"commands"} ELSE {}

Send_Overfills(r) ==
  /\ at[r] = "sending"
  /\ Len(queue) <= QueueSize
  /\ queue' = Append(queue, r)
  /\ at' = [at EXCEPT ![r] = IF ExpectsResponse(r) THEN "waiting" ELSE "copying"]
  /\ UNCHANGED <<cmd, answer, engine, listeners, taken, copy, pages>>

Send(r) ==
  /\ at[r] = "sending"
  /\ Len(queue) < QueueSize
  /\ queue' = Append(queue, r)
  /\ at' = [at EXCEPT ![r] = IF ExpectsResponse(r) THEN "waiting" ELSE "copying"]
  /\ crossed' = crossed \cup
       IF ~ExpectsResponse(r) /\ (\E q \in Requests : at[q] = "copying") THEN {"copies"} ELSE {}
  /\ UNCHANGED <<cmd, answer, engine, listeners, taken, copy, wanted>>

(* handleFilters keeps a copy for later GETs. *)
Copy(r) ==
  /\ at[r] = "copying"
  /\ copy' = cmd[r].filter
  /\ at' = [at EXCEPT ![r] = "done"]
  /\ UNCHANGED <<queue, cmd, answer, engine, listeners, taken, pages>>

Receive(r) ==
  /\ at[r] = "waiting"
  /\ answer[r] # << >>
  /\ answer' = [answer EXCEPT ![r] = << >>]
  /\ at' = [at EXCEPT ![r] = "done"]
  /\ UNCHANGED <<queue, cmd, engine, listeners, taken, copy, pages>>

TimesOut(r) ==
  /\ at[r] = "waiting"
  /\ at' = [at EXCEPT ![r] = "gaveUp"]
  /\ UNCHANGED <<queue, cmd, answer, engine, listeners, taken, copy, pages>>

ClientLeaves_Copies(r) ==
  /\ at[r] \in {"sending", "waiting"}
  /\ at' = [at EXCEPT ![r] = "gaveUp"]
  /\ crossed' = crossed \cup IF ExpectsResponse(r) THEN {} ELSE {"commands"}
  /\ copy' = IF ExpectsResponse(r) THEN copy ELSE cmd[r].filter
  /\ UNCHANGED <<queue, cmd, answer, engine, listeners, taken, wanted>>

ClientLeaves(r) ==
  /\ at[r] \in {"sending", "waiting"}
  /\ at' = [at EXCEPT ![r] = "gaveUp"]
  /\ crossed' = crossed \cup IF ExpectsResponse(r) THEN {} ELSE {"commands"}
  /\ UNCHANGED <<queue, cmd, answer, engine, listeners, taken, copy, wanted>>

-------------------------------------------------------------------------------
(* The TCP server's Start and Stop. *)

Listenable(i) ==
  /\ AddressOf[i] \notin taken
  /\ \A s \in sockets : s.address # AddressOf[i]

Started(i) ==
  /\ opened' = opened + 1
  /\ sockets' = sockets \cup {[address |-> AddressOf[i], number |-> opened']}
  /\ table' = [table EXCEPT ![i] = opened']

Stopped_KeepsSocket(i) ==
  /\ table' = [table EXCEPT ![i] = 0]
  /\ UNCHANGED <<sockets, opened>>

Stopped(i) ==
  /\ table' = [table EXCEPT ![i] = 0]
  /\ sockets' = {s \in sockets : s.number # table[i]}
  /\ UNCHANGED opened

-------------------------------------------------------------------------------
(* The engine takes the next command.  Nobody but the handler reads a response
   channel, which has room for one result; no response is sent for an id the
   engine does not know. *)

HasRoom(r) == answer[r] = << >>

Take ==
  /\ running
  /\ queue # << >>
  /\ queue' = Tail(queue)
  /\ UNCHANGED <<handlers, running, taken, copy, pages>>

Succeeds(r) ==
  /\ HasRoom(r)
  /\ answer' = [answer EXCEPT ![r] = <<"ok">>]
  /\ UNCHANGED errors

Fails(r) ==
  /\ HasRoom(r)
  /\ answer' = [answer EXCEPT ![r] = <<"failed">>]
  /\ errors' = errors + 1

NotFound == errors' = errors + 1 /\ UNCHANGED <<listeners, answer>>

StartListener_AnywayListening(r, i) ==
  /\ status' = [status EXCEPT ![i] = "listening"]
  /\ \/ /\ Listenable(i)
        /\ Started(i)
        /\ Succeeds(r)
     \/ /\ ~Listenable(i)
        /\ UNCHANGED <<table, sockets, opened>>
        /\ Fails(r)

StartListener(r, i) ==
  \/ /\ Listenable(i)
     /\ Started(i)
     /\ status' = [status EXCEPT ![i] = "listening"]
     /\ Succeeds(r)
  \/ /\ ~Listenable(i)
     /\ status' = [status EXCEPT ![i] = "error"]
     /\ UNCHANGED <<table, sockets, opened>>
     /\ Fails(r)

AddListener(r, c) ==
  /\ c.op = "add"
  /\ StartListener(r, c.id)

RetryListener(r, c) ==
  /\ c.op = "retry"
  /\ IF status[c.id] = "unknown" THEN NotFound ELSE StartListener(r, c.id)

RemoveListener(r, c) ==
  /\ c.op = "remove"
  /\ \/ /\ status[c.id] = "unknown"
        /\ NotFound
     \/ /\ status[c.id] # "unknown"
        /\ table[c.id] # 0
        /\ Stopped(c.id)
        /\ status' = [status EXCEPT ![c.id] = "stopped"]
        /\ Succeeds(r)
     \/ /\ status[c.id] # "unknown"
        /\ table[c.id] = 0
        /\ status' = [status EXCEPT ![c.id] = "error"]
        /\ UNCHANGED <<table, sockets, opened>>
        /\ Fails(r)

ListenerCommand(r, c) ==
  /\ AddListener(r, c) \/ RetryListener(r, c) \/ RemoveListener(r, c)
  /\ UNCHANGED filters

SetFilters(c) ==
  /\ c.op = "filter"
  /\ filters' = c.filter
  /\ UNCHANGED <<listeners, errors, answer>>

HandleCommand ==
  /\ Take
  /\ LET r == Head(queue) IN ListenerCommand(r, cmd[r]) \/ SetFilters(cmd[r])

EngineStops ==
  /\ running
  /\ running' = FALSE
  /\ UNCHANGED <<queue, handlers, answer, errors, filters, listeners, taken, copy, pages>>

-------------------------------------------------------------------------------
(* Another program opens or closes a socket. *)
Elsewhere(a) ==
  /\ \A s \in sockets : s.address # a
  /\ taken' = IF a \in taken THEN taken \ {a} ELSE taken \cup {a}
  /\ UNCHANGED <<queue, handlers, answer, engine, listeners, copy, pages>>

Next ==
  \/ \E r \in Requests :
       \/ PostListener(r) \/ ListenerByID(r) \/ PatchFilters(r)
       \/ Send(r) \/ Copy(r) \/ Receive(r) \/ TimesOut(r) \/ ClientLeaves(r)
  \/ HandleCommand
  \/ EngineStops
  \/ \E a \in Addresses : Elsewhere(a)

Spec == Init /\ [][Next]_vars

-------------------------------------------------------------------------------
(* Type correctness: the queue holds each request once, and the number a table
   entry or a socket carries has been given out. *)
TypeOK ==
  /\ Len(queue) <= QueueSize
  /\ \A i, j \in DOMAIN queue : queue[i] = queue[j] => i = j
  /\ at \in [Requests -> {"idle", "sending", "waiting", "copying", "done", "gaveUp"}]
  /\ cmd \in [Requests -> Cmds \cup {None}]
  /\ \A r \in Requests : answer[r] \in {<< >>, <<"ok">>, <<"failed">>}
  /\ running \in BOOLEAN
  /\ status \in [Ids -> {"unknown", "listening", "stopped", "error"}]
  /\ table \in [Ids -> 0 .. opened]
  /\ sockets \subseteq [address : Addresses, number : 1 .. opened]
  /\ taken \subseteq Addresses
  /\ errors \in 0 .. Cardinality(Requests)
  /\ filters \in Filters /\ copy \in Filters
  /\ wanted \in Filters /\ crossed \subseteq {"commands", "copies"}

(* Every socket the program listens on can be closed by a command: the server's
   table has it under an id that the engine knows, even after failed, repeated or
   abandoned requests and when two ids stand for one address
   (commands.go:37-127, server.go:69-97). *)
NoOrphanSocket ==
  \A s \in sockets : \E i \in Ids : table[i] = s.number /\ status[i] # "unknown"

(* What the engine says of a listener and the socket its id stands for go
   together.  A socket in the server's table is open, at the address of its id, is
   no other id's, and is called listening or error; what is called listening has
   one; what is called stopped has none, and if its address is listened on, that is
   another id's socket.  "error" says nothing: adding or retrying a listening
   listener again fails and leaves its socket open (commands.go:37-127,
   server.go:69-97). *)
StatusIsTrue ==
  \A i \in Ids :
    /\ status[i] = "listening" => table[i] # 0
    /\ table[i] # 0 =>
         /\ status[i] \in {"listening", "error"}
         /\ \E s \in sockets : s.number = table[i] /\ s.address = AddressOf[i]
         /\ \A j \in Ids \ {i} : table[j] # table[i]
    /\ status[i] = "stopped" =>
         /\ table[i] = 0
         /\ \A s \in sockets : s.address = AddressOf[i] =>
              \E j \in Ids \ {i} : table[j] = s.number

(* When no request about filters is under way, the engine's filter, the copy that
   GET /api/v1/filters answers with, and what a dashboard asked for last are one,
   whatever became of other requests.  The copy may differ when two handlers
   overlapped between the command and the copy, and the engine may have an older
   filter than was asked for last when two requests were on their way together or a
   client left (web/server.go:164-170, DashboardPage.tsx:30-39).  That the handler
   trims the source and the text (server.go:156-163) is left out. *)
FiltersAgree ==
  /\ \A i \in DOMAIN queue : ExpectsResponse(queue[i])
  /\ \A r \in Requests : at[r] \in {"sending", "copying"} => ExpectsResponse(r)
  =>
  /\ "copies" \notin crossed => copy = filters
  /\ "commands" \notin crossed => wanted = filters
===============================================================================
