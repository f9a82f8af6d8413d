----------------------------- MODULE CommandsProofs -----------------------------
(***************************************************************************)
(* Proofs about Commands: its types, what the three tables of listeners say  *)
(* of each other, and the three copies of the filter, for every number of    *)
(* requests, ids and addresses, and every capacity of the queue.             *)
(***************************************************************************)
EXTENDS Commands, FiniteSetTheorems, TLAPS

Stages == {"idle", "sending", "waiting", "copying", "done", "gaveUp"}

Answers == {<< >>, <<"ok">>, <<"failed">>}

Indices == 1 .. Len(queue)

-------------------------------------------------------------------------------
(* The queue and the handlers. *)

Handlers ==
  /\ at \in [Requests -> Stages]
  /\ cmd \in [Requests -> Cmds \cup {None}]
  /\ answer \in [Requests -> Answers]
  /\ \A r \in Requests :
       /\ at[r] # "idle" => cmd[r] \in Cmds
       /\ at[r] \in {"idle", "sending"} => answer[r] = << >>
       /\ at[r] = "waiting" => ExpectsResponse(r)
       /\ at[r] = "copying" => ~ExpectsResponse(r)

(* Each request is queued once, after its handler sent it and before it has an
   answer. *)
Queued ==
  /\ queue \in Seq(Requests)
  /\ Len(queue) <= QueueSize
  /\ \A i, j \in Indices : queue[i] = queue[j] => i = j
  /\ \A i \in Indices :
       /\ at[queue[i]] \notin {"idle", "sending"}
       /\ answer[queue[i]] = << >>

QueueInv == Handlers /\ Queued

(* What the two ends of the queue do to its elements. *)
LEMMA AtTheEnd ==
  ASSUME NEW S, NEW s \in Seq(S), NEW e \in S
  PROVE  /\ Append(s, e) \in Seq(S)
         /\ Len(Append(s, e)) = Len(s) + 1
         /\ \A i \in 1 .. Len(s) : Append(s, e)[i] = s[i]
         /\ Append(s, e)[Len(s) + 1] = e
OBVIOUS

LEMMA AtTheFront ==
  ASSUME NEW S, NEW s \in Seq(S), Len(s) >= 1
  PROVE  /\ Tail(s) \in Seq(S)
         /\ Len(Tail(s)) = Len(s) - 1
         /\ \A i \in 1 .. Len(Tail(s)) : Tail(s)[i] = s[i + 1] /\ i + 1 \in 1 .. Len(s)
OBVIOUS

(* What commands there are. *)
LEMMA CommandKinds ==
  ASSUME NEW c \in Cmds
  PROVE  \/ c.op \in ListenerOps /\ c.id \in Ids
         \/ c.op = "filter" /\ c.op \notin ListenerOps /\ c.filter \in Filters
BY DEF Cmds, ListenerCommands, FilterCommands, ListenerOps

(* What one command does to the answers and the errors. *)
LEMMA OneCommand ==
  ASSUME QueueInv, HandleCommand
  PROVE  /\ Len(queue) >= 1 /\ queue[1] \in Requests
         /\ queue' = Tail(queue)
         /\ UNCHANGED <<at, cmd, running, taken, copy, wanted, crossed>>
         /\ \E a \in Answers : answer' = [answer EXCEPT ![queue[1]] = a]
         /\ errors' = errors \/ errors' = errors + 1
<1> DEFINE r == queue[1]
<1>1. queue # << >> /\ queue' = Tail(queue) /\ r = Head(queue) /\ r \in Requests /\ Len(queue) >= 1
  BY DEF HandleCommand, Take, QueueInv, Queued
<1>2. UNCHANGED <<at, cmd, running, taken, copy, wanted, crossed>>
  BY DEF HandleCommand, Take, handlers, pages
<1>3. answer \in [Requests -> Answers]
  BY DEF QueueInv, Handlers
<1>4. CASE Succeeds(r) \/ Fails(r) \/ UNCHANGED <<errors, answer>> \/ NotFound
  <2>1. \E a \in Answers : answer' = [answer EXCEPT ![r] = a]
    <3>1. CASE UNCHANGED answer
      <4>1. answer' = [answer EXCEPT ![r] = answer[r]] /\ answer[r] \in Answers
        BY <1>1, <1>3, <3>1
      <4> QED
        BY <4>1
    <3>2. CASE Succeeds(r) \/ Fails(r)
      BY <3>2 DEF Succeeds, Fails, Answers
    <3> QED
      BY <1>4, <3>1, <3>2 DEF NotFound
  <2>2. errors' = errors \/ errors' = errors + 1
    BY <1>4 DEF Succeeds, Fails, NotFound
  <2> QED
    BY <1>1, <1>2, <2>1, <2>2
<1>5. Succeeds(r) \/ Fails(r) \/ UNCHANGED <<errors, answer>> \/ NotFound
  BY <1>1 DEF HandleCommand, ListenerCommand, AddListener, RetryListener, RemoveListener,
              StartListener, SetFilters
<1> QED
  BY <1>4, <1>5

LEMMA InitQueueInv == Init => QueueInv
BY CommandsAssumption DEF Init, QueueInv, Handlers, Queued, Stages, Answers, Indices

LEMMA QueueStep == QueueInv /\ [Next]_vars => QueueInv'
<1> SUFFICES ASSUME QueueInv, [Next]_vars PROVE QueueInv'
  OBVIOUS
<1> USE CommandsAssumption DEF QueueInv, Handlers, Queued, Stages, Answers, Indices
<1>1. ASSUME NEW r \in Requests, NEW c \in Cmds, Arrives(r, c)
      PROVE  QueueInv'
  <2>1. /\ at[r] = "idle" /\ at' = [at EXCEPT ![r] = "sending"]
        /\ cmd' = [cmd EXCEPT ![r] = c]
        /\ UNCHANGED <<queue, answer>>
    BY <1>1 DEF Arrives
  <2>2. Handlers'
    BY <2>1 DEF ExpectsResponse
  <2>3. Queued'
    BY <2>1
  <2> QED
    BY <2>2, <2>3
<1>2. ASSUME NEW r \in Requests, Send(r)
      PROVE  QueueInv'
  <2>1. /\ at[r] = "sending" /\ queue' = Append(queue, r) /\ Len(queue) < QueueSize
        /\ UNCHANGED <<cmd, answer>>
    BY <1>2 DEF Send
  <2>2. at' = [at EXCEPT ![r] = IF ExpectsResponse(r) THEN "waiting" ELSE "copying"]
    BY <1>2 DEF Send
  <2>3. Handlers'
    BY <2>1, <2>2 DEF ExpectsResponse
  <2>4. /\ queue' \in Seq(Requests)
        /\ Len(queue') = Len(queue) + 1
        /\ \A i \in 1 .. Len(queue) : queue'[i] = queue[i]
        /\ queue'[Len(queue) + 1] = r
    BY <2>1, AtTheEnd
  <2>5. \A i \in 1 .. Len(queue) : queue[i] \in Requests /\ queue[i] # r
    BY <2>1
  <2>6. /\ at'[r] \notin {"idle", "sending"}
        /\ \A q \in Requests : q # r => at'[q] = at[q]
    BY <2>2
  <2>7. answer[r] = << >>
    BY <2>1
  <2>8. Queued'
    <3>1. \A i, j \in 1 .. Len(queue') : queue'[i] = queue'[j] => i = j
      <4>1. \A i \in 1 .. Len(queue') : i \in 1 .. Len(queue) \/ i = Len(queue) + 1
        BY <2>4
      <4> QED
        BY <2>4, <2>5, <4>1
    <3>2. \A i \in 1 .. Len(queue') :
            at'[queue'[i]] \notin {"idle", "sending"} /\ answer[queue'[i]] = << >>
      <4>1. \A i \in 1 .. Len(queue') : i \in 1 .. Len(queue) \/ i = Len(queue) + 1
        BY <2>4
      <4>2. \A i \in 1 .. Len(queue) :
              at'[queue[i]] \notin {"idle", "sending"} /\ answer[queue[i]] = << >>
        BY <2>5, <2>6
      <4> QED
        BY <2>4, <2>6, <2>7, <4>1, <4>2
    <3>3. Len(queue') <= QueueSize
      BY <2>1, <2>4
    <3> QED
      BY <2>1, <2>4, <3>1, <3>2, <3>3
  <2> QED
    BY <2>3, <2>8
<1>3. ASSUME NEW r \in Requests, Copy(r) \/ Receive(r) \/ TimesOut(r) \/ ClientLeaves(r)
      PROVE  QueueInv'
  <2>1. /\ at[r] \notin {"idle"} /\ UNCHANGED <<queue, cmd>>
        /\ \E p \in {"done", "gaveUp"} : at' = [at EXCEPT ![r] = p]
        /\ answer' = answer \/ answer' = [answer EXCEPT ![r] = << >>]
    BY <1>3 DEF Copy, Receive, TimesOut, ClientLeaves
  <2>2. PICK p \in {"done", "gaveUp"} : at' = [at EXCEPT ![r] = p]
    BY <2>1
  <2>3. Handlers'
    BY <2>1, <2>2 DEF ExpectsResponse
  <2>4. Queued'
    BY <2>1, <2>2
  <2> QED
    BY <2>3, <2>4
<1>4. CASE HandleCommand
  <2>1. /\ Len(queue) >= 1 /\ queue[1] \in Requests
        /\ queue' = Tail(queue)
        /\ UNCHANGED <<at, cmd>>
    BY <1>4, OneCommand
  <2>2. PICK a \in Answers : answer' = [answer EXCEPT ![queue[1]] = a]
    BY <1>4, OneCommand
  <2>3. Handlers'
    BY <2>1, <2>2 DEF ExpectsResponse
  <2>4. /\ queue' \in Seq(Requests)
        /\ Len(queue') = Len(queue) - 1
        /\ \A i \in 1 .. Len(queue') : queue'[i] = queue[i + 1] /\ i + 1 \in 1 .. Len(queue)
    BY <2>1, AtTheFront
  <2>5. \A i \in 1 .. Len(queue') : queue'[i] \in Requests /\ queue'[i] # queue[1]
    BY <2>1, <2>4
  <2>6. \A i, j \in 1 .. Len(queue') : queue'[i] = queue'[j] => i = j
    BY <2>1, <2>4
  <2>7. \A i \in 1 .. Len(queue') : answer'[queue'[i]] = << >> /\ at'[queue'[i]] \notin {"idle", "sending"}
    BY <2>1, <2>2, <2>4, <2>5
  <2>8. Queued'
    BY <2>1, <2>4, <2>6, <2>7
  <2> QED
    BY <2>3, <2>8
<1>5. CASE EngineStops \/ (\E a \in Addresses : Elsewhere(a)) \/ UNCHANGED vars
  BY <1>5 DEF EngineStops, Elsewhere, vars, handlers, ExpectsResponse
<1>6. ASSUME NEW r \in Requests, PostListener(r) \/ ListenerByID(r) \/ PatchFilters(r)
      PROVE  QueueInv'
  <2>1. PICK c \in Cmds : Arrives(r, c)
    BY <1>6 DEF PostListener, ListenerByID, PatchFilters, Cmds, ListenerCommands,
                FilterCommands, ListenerOps
  <2> QED
    BY <1>1, <2>1
<1> QED
  BY <1>2, <1>3, <1>4, <1>5, <1>6 DEF Next

-------------------------------------------------------------------------------
(* The errors: each request that the engine has yet to see can still add one. *)

Pending == {r \in Requests : at[r] \in {"idle", "sending"} \/ \E i \in Indices : queue[i] = r}

ErrorsInv == errors \in Nat /\ errors + Cardinality(Pending) <= Cardinality(Requests)

LEMMA PendingIsFinite == IsFiniteSet(Pending) /\ Cardinality(Pending) \in Nat
BY FS_Subset, FS_CardinalityType, CommandsAssumption DEF Pending

LEMMA NothingHandled ==
  ASSUME QueueInv, ErrorsInv, errors' = errors, Pending' \subseteq Pending
  PROVE  ErrorsInv'
<1>1. /\ IsFiniteSet(Pending') /\ Cardinality(Pending') \in Nat
      /\ Cardinality(Pending') <= Cardinality(Pending)
  BY FS_Subset, FS_CardinalityType, PendingIsFinite
<1>2. Cardinality(Requests) \in Nat /\ Cardinality(Pending) \in Nat
  BY FS_CardinalityType, PendingIsFinite, CommandsAssumption
<1> QED
  BY <1>1, <1>2 DEF ErrorsInv

LEMMA ErrorsStep == QueueInv /\ ErrorsInv /\ [Next]_vars => ErrorsInv'
<1> SUFFICES ASSUME QueueInv, ErrorsInv, [Next]_vars PROVE ErrorsInv'
  OBVIOUS
<1> USE DEF QueueInv, Handlers, Queued, Stages, Indices
<1>1. ASSUME NEW r \in Requests, NEW c, Arrives(r, c)
      PROVE  ErrorsInv'
  <2>1. Pending' \subseteq Pending /\ errors' = errors
    BY <1>1 DEF Arrives, Pending, engine
  <2> QED
    BY <2>1, NothingHandled
<1>2. ASSUME NEW r \in Requests, Send(r)
      PROVE  ErrorsInv'
  <2>1. /\ at[r] = "sending" /\ queue' = Append(queue, r) /\ errors' = errors
        /\ at' = [at EXCEPT ![r] = IF ExpectsResponse(r) THEN "waiting" ELSE "copying"]
    BY <1>2 DEF Send, engine
  <2>2. /\ Len(queue') = Len(queue) + 1
        /\ \A i \in 1 .. Len(queue) : queue'[i] = queue[i]
        /\ queue'[Len(queue) + 1] = r
    BY <2>1, AtTheEnd
  <2>3. \A i \in 1 .. Len(queue') : queue'[i] = r \/ (i \in 1 .. Len(queue) /\ queue'[i] = queue[i])
    <3>1. \A i \in 1 .. Len(queue') : i \in 1 .. Len(queue) \/ i = Len(queue) + 1
      BY <2>2
    <3> QED
      BY <2>2, <3>1
  <2>4. \A q \in Requests : at'[q] \in {"idle", "sending"} => at[q] \in {"idle", "sending"}
    BY <2>1
  <2>5. Pending' \subseteq Pending
    BY <2>1, <2>3, <2>4 DEF Pending
  <2> QED
    BY <2>1, <2>5, NothingHandled
<1>3. ASSUME NEW r \in Requests, Copy(r) \/ Receive(r) \/ TimesOut(r) \/ ClientLeaves(r)
      PROVE  ErrorsInv'
  <2>1. UNCHANGED <<queue, errors>> /\ \E p \in {"done", "gaveUp"} : at' = [at EXCEPT ![r] = p]
    BY <1>3 DEF Copy, Receive, TimesOut, ClientLeaves, engine
  <2>2. Pending' \subseteq Pending
    BY <2>1 DEF Pending
  <2> QED
    BY <2>1, <2>2, NothingHandled
<1>4. CASE HandleCommand
  <2> DEFINE r == queue[1]
  <2>1. /\ Len(queue) >= 1 /\ r \in Requests /\ queue' = Tail(queue) /\ UNCHANGED at
        /\ errors' \in {errors, errors + 1}
    BY <1>4, OneCommand
  <2>2. /\ Len(queue') = Len(queue) - 1
        /\ \A i \in 1 .. Len(queue') : queue'[i] = queue[i + 1] /\ i + 1 \in 1 .. Len(queue)
    BY <2>1, AtTheFront
  <2>3. r \in Pending
    BY <2>1 DEF Pending
  <2>4. Pending' \subseteq Pending \ {r}
    BY <2>1, <2>2 DEF Pending
  <2>5. /\ Cardinality(Pending \ {r}) = Cardinality(Pending) - 1
        /\ IsFiniteSet(Pending \ {r})
    BY <2>3, PendingIsFinite, FS_RemoveElement
  <2>6. /\ Cardinality(Pending') <= Cardinality(Pending \ {r})
        /\ Cardinality(Pending') \in Nat
    BY <2>4, <2>5, FS_Subset, FS_CardinalityType
  <2>7. Cardinality(Requests) \in Nat /\ Cardinality(Pending) \in Nat
    BY FS_CardinalityType, PendingIsFinite, CommandsAssumption
  <2> HIDE DEF r
  <2> QED
    BY <2>1, <2>5, <2>6, <2>7 DEF ErrorsInv
<1>5. CASE EngineStops \/ (\E a \in Addresses : Elsewhere(a)) \/ UNCHANGED vars
  <2>1. UNCHANGED <<queue, at, errors>>
    BY <1>5 DEF EngineStops, Elsewhere, vars, handlers, engine
  <2> QED
    BY <2>1, NothingHandled DEF Pending
<1> QED
  BY <1>1, <1>2, <1>3, <1>4, <1>5 DEF Next, PostListener, ListenerByID, PatchFilters

-------------------------------------------------------------------------------
(* The tables of listeners: the engine's, the server's and the sockets. *)

TableTypes ==
  /\ opened \in Nat
  /\ status \in [Ids -> {"unknown", "listening", "stopped", "error"}]
  /\ table \in [Ids -> 0 .. opened]
  /\ sockets \subseteq [address : Addresses, number : 1 .. opened]

(* Sockets have numbers and addresses of their own; an entry of the server's
   table is one of them, at the id's address, and each is some id's. *)
TablesAgree ==
  /\ \A s, t \in sockets : s.number = t.number \/ s.address = t.address => s = t
  /\ \A i, j \in Ids : table[i] = table[j] /\ table[i] # 0 => i = j
  /\ \A i \in Ids : table[i] # 0 =>
       \E s \in sockets : s.number = table[i] /\ s.address = AddressOf[i]
  /\ NoOrphanSocket
  /\ \A i \in Ids :
       /\ status[i] = "listening" => table[i] # 0
       /\ status[i] \in {"unknown", "stopped"} => table[i] = 0

TableInv == TableTypes /\ TablesAgree

LEMMA StartKeepsTables ==
  ASSUME TableInv, NEW r, NEW i \in Ids, StartListener(r, i)
  PROVE  TableInv'
<1> USE CommandsAssumption DEF TableInv, TableTypes
<1>1. CASE Listenable(i) /\ Started(i) /\ status' = [status EXCEPT ![i] = "listening"]
  <2> DEFINE new == [address |-> AddressOf[i], number |-> opened + 1]
  <2>1. /\ opened' = opened + 1
        /\ sockets' = sockets \cup {new}
        /\ table' = [table EXCEPT ![i] = opened + 1]
    BY <1>1 DEF Started
  <2>2. new \in [address : Addresses, number : 1 .. opened + 1]
    OBVIOUS
  <2>3. TableTypes'
    <3>1. \A s \in sockets : s \in [address : Addresses, number : 1 .. opened + 1]
      OBVIOUS
    <3> QED
      BY <1>1, <2>1, <2>2, <3>1
  <2>4. table[i] = 0 /\ \A s \in sockets : s.address # AddressOf[i] /\ s.number # opened + 1
    BY <1>1 DEF Listenable, TablesAgree
  <2>5. new.address = AddressOf[i] /\ new.number = opened + 1 /\ new \in sockets'
    BY <2>1
  <2>6. \A s, t \in sockets' : s.number = t.number \/ s.address = t.address => s = t
    BY <2>1, <2>4, <2>5 DEF TablesAgree
  <2>7. /\ table'[i] = opened + 1
        /\ \A j \in Ids : j # i => table'[j] = table[j] /\ table[j] # opened + 1
    BY <2>1
  <2>8. \A j, k \in Ids : table'[j] = table'[k] /\ table'[j] # 0 => j = k
    BY <2>7 DEF TablesAgree
  <2>9. \A j \in Ids : table'[j] # 0 =>
          \E s \in sockets' : s.number = table'[j] /\ s.address = AddressOf[j]
    BY <2>1, <2>5, <2>7 DEF TablesAgree
  <2>10. NoOrphanSocket'
    <3>1. \A s \in sockets : \E j \in Ids : j # i /\ table'[j] = s.number /\ status'[j] # "unknown"
      BY <1>1, <2>4, <2>7 DEF TablesAgree, NoOrphanSocket
    <3>2. status'[i] # "unknown"
      BY <1>1
    <3> QED
      BY <2>1, <2>5, <2>7, <3>1, <3>2 DEF NoOrphanSocket
  <2>11. \A j \in Ids : /\ status'[j] = "listening" => table'[j] # 0
                        /\ status'[j] \in {"unknown", "stopped"} => table'[j] = 0
    BY <1>1, <2>7 DEF TablesAgree
  <2> QED
    BY <2>3, <2>6, <2>8, <2>9, <2>10, <2>11 DEF TablesAgree
<1>2. CASE status' = [status EXCEPT ![i] = "error"] /\ UNCHANGED <<table, sockets, opened>>
  BY <1>2 DEF TablesAgree, NoOrphanSocket
<1> QED
  BY <1>1, <1>2 DEF StartListener

LEMMA StopKeepsTables ==
  ASSUME TableInv, NEW i \in Ids, table[i] # 0, Stopped(i),
         status' = [status EXCEPT ![i] = "stopped"]
  PROVE  TableInv'
<1> USE DEF TableInv, TableTypes
<1>1. /\ table' = [table EXCEPT ![i] = 0]
      /\ sockets' = {s \in sockets : s.number # table[i]}
      /\ opened' = opened
  BY DEF Stopped
<1>2. TableTypes'
  BY <1>1
<1>3. \A s, t \in sockets' : s.number = t.number \/ s.address = t.address => s = t
  BY <1>1 DEF TablesAgree
<1>4. \A j, k \in Ids : table'[j] = table'[k] /\ table'[j] # 0 => j = k
  BY <1>1 DEF TablesAgree
<1>5. \A j \in Ids : j # i => table'[j] = table[j] /\ (table[j] # 0 => table[j] # table[i])
  BY <1>1 DEF TablesAgree
<1>6. \A j \in Ids : table'[j] # 0 =>
        \E s \in sockets' : s.number = table'[j] /\ s.address = AddressOf[j]
  <2> SUFFICES ASSUME NEW j \in Ids, table'[j] # 0
               PROVE  \E s \in sockets' : s.number = table'[j] /\ s.address = AddressOf[j]
    OBVIOUS
  <2>1. j # i
    BY <1>1
  <2>2. PICK s \in sockets : s.number = table[j] /\ s.address = AddressOf[j]
    BY <1>5, <2>1 DEF TablesAgree
  <2> QED
    BY <1>1, <1>5, <2>1, <2>2
<1>7. NoOrphanSocket'
  <2> SUFFICES ASSUME NEW s \in sockets'
               PROVE  \E j \in Ids : table'[j] = s.number /\ status'[j] # "unknown"
    BY DEF NoOrphanSocket
  <2>1. PICK j \in Ids : table[j] = s.number /\ status[j] # "unknown"
    BY <1>1 DEF TablesAgree, NoOrphanSocket
  <2>2. j # i
    BY <1>1, <2>1
  <2> QED
    BY <1>5, <2>1, <2>2
<1>8. \A j \in Ids : /\ status'[j] = "listening" => table'[j] # 0
                     /\ status'[j] \in {"unknown", "stopped"} => table'[j] = 0
  BY <1>1 DEF TablesAgree
<1> QED
  BY <1>2, <1>3, <1>4, <1>6, <1>7, <1>8 DEF TablesAgree

LEMMA InitTableInv == Init => TableInv
BY DEF Init, TableInv, TableTypes, TablesAgree, NoOrphanSocket

LEMMA TableStep == QueueInv /\ TableInv /\ [Next]_vars => TableInv'
<1> SUFFICES ASSUME QueueInv, TableInv, [Next]_vars PROVE TableInv'
  OBVIOUS
<1>1. CASE UNCHANGED listeners
  BY <1>1 DEF listeners, TableInv, TableTypes, TablesAgree, NoOrphanSocket
<1>2. CASE HandleCommand
  <2>1. PICK r \in Requests : cmd[r] \in Cmds /\ (ListenerCommand(r, cmd[r]) \/ SetFilters(cmd[r]))
    <3>1. Len(queue) >= 1 /\ queue[1] \in Requests /\ Head(queue) = queue[1]
      BY <1>2, OneCommand DEF QueueInv, Queued
    <3>2. cmd[queue[1]] \in Cmds
      BY <3>1 DEF QueueInv, Queued, Handlers, Indices
    <3> QED
      BY <1>2, <3>1, <3>2 DEF HandleCommand
  <2> DEFINE c == cmd[r]
  <2>2. CASE SetFilters(c)
    BY <1>1, <2>2 DEF SetFilters
  <2>3. CASE ListenerCommand(r, c)
    <3>1. c.op \in ListenerOps
      BY <2>3 DEF ListenerCommand, AddListener, RetryListener, RemoveListener, ListenerOps
    <3>2. c.id \in Ids
      BY <2>1, <3>1, CommandKinds
    <3> HIDE DEF c
    <3>3. CASE StartListener(r, c.id)
      BY <3>2, <3>3, StartKeepsTables
    <3>4. CASE NotFound
      BY <1>1, <3>4 DEF NotFound
    <3>5. CASE /\ status' = [status EXCEPT ![c.id] = "stopped"]
               /\ table[c.id] # 0
               /\ Stopped(c.id)
      BY <3>2, <3>5, StopKeepsTables
    <3>6. CASE /\ status' = [status EXCEPT ![c.id] = "error"]
               /\ UNCHANGED <<table, sockets, opened>>
      BY <3>2, <3>6 DEF TableInv, TableTypes, TablesAgree, NoOrphanSocket
    <3> QED
      BY <2>3, <3>3, <3>4, <3>5, <3>6 DEF ListenerCommand, AddListener, RetryListener,
                                          RemoveListener
  <2> QED
    BY <2>1, <2>2, <2>3
<1>3. ASSUME ~HandleCommand
      PROVE  UNCHANGED listeners
  BY <1>3 DEF Next, PostListener, ListenerByID, PatchFilters, Arrives, Send, Copy, Receive,
              TimesOut, ClientLeaves, EngineStops, Elsewhere, vars
<1> QED
  BY <1>1, <1>2, <1>3

-------------------------------------------------------------------------------
(* The engine's filter, the copy and the dashboard's. *)

IsFilter(c) == c.op \notin ListenerOps

(* The filter that the engine has once it has handled every command queued. *)
LastSent(f) ==
  \/ f = filters /\ \A i \in Indices : ~IsFilter(cmd[queue[i]])
  \/ \E i \in Indices :
       /\ IsFilter(cmd[queue[i]]) /\ f = cmd[queue[i]].filter
       /\ \A j \in Indices : j > i => ~IsFilter(cmd[queue[j]])

(* Unless the copies of two requests overlapped, the copy is that filter, or is
   about to be. *)
CopyFollows(f) ==
  /\ \A r \in Requests : at[r] = "copying" => cmd[r].filter = f
  /\ (\A r \in Requests : at[r] # "copying") => copy = f
  /\ \A r, q \in Requests : at[r] = "copying" /\ at[q] = "copying" => r = q

(* Unless two requests were on their way together, that filter is the one the
   dashboard asked for last, or is about to be. *)
Sending(r) == at[r] = "sending" /\ IsFilter(cmd[r])

WantedFollows(f) ==
  /\ \A r \in Requests : Sending(r) => cmd[r].filter = wanted
  /\ (\A r \in Requests : ~Sending(r)) => wanted = f
  /\ \A r, q \in Requests : Sending(r) /\ Sending(q) => r = q

FilterInv ==
  /\ filters \in Filters /\ copy \in Filters /\ wanted \in Filters
  /\ crossed \subseteq {"commands", "copies"}
  /\ \E f \in Filters :
       /\ LastSent(f)
       /\ "copies" \notin crossed => CopyFollows(f)
       /\ "commands" \notin crossed => WantedFollows(f)

LEMMA InitFilterInv == Init => FilterInv
<1> SUFFICES ASSUME Init PROVE FilterInv
  OBVIOUS
<1>1. LastSent(FirstFilter) /\ CopyFollows(FirstFilter) /\ WantedFollows(FirstFilter)
  BY DEF Init, LastSent, CopyFollows, WantedFollows, Sending, Indices
<1> QED
  BY <1>1, CommandsAssumption DEF Init, FilterInv

(* What the engine will have does not change by what happens to the handlers. *)
LEMMA QueueUntouched ==
  ASSUME NEW f, LastSent(f), UNCHANGED <<queue, filters>>,
         \A i \in Indices : cmd'[queue[i]] = cmd[queue[i]]
  PROVE  LastSent(f)'
BY DEF LastSent, Indices

(* A command sent joins the queue's end. *)
LEMMA SentLast ==
  ASSUME QueueInv, NEW f, LastSent(f), NEW r \in Requests, NEW g, g = cmd[r].filter,
         queue' = Append(queue, r), UNCHANGED <<filters, cmd>>
  PROVE  IF IsFilter(cmd[r]) THEN LastSent(g)' ELSE LastSent(f)'
<1> USE DEF QueueInv, Queued
<1>1. /\ Len(queue') = Len(queue) + 1 /\ Len(queue) \in Nat
      /\ \A i \in Indices : queue'[i] = queue[i]
      /\ queue'[Len(queue) + 1] = r
  BY AtTheEnd DEF Indices
<1>2. /\ Indices' = Indices \cup {Len(queue) + 1}
      /\ \A i \in Indices : Len(queue) + 1 > i /\ ~(i > Len(queue) + 1)
      /\ ~(Len(queue) + 1 > Len(queue) + 1)
  BY <1>1 DEF Indices
<1> DEFINE new == Len(queue) + 1
<1> HIDE DEF new
<1>3. CASE IsFilter(cmd[r])
  <2>1. new \in Indices' /\ queue'[new] = r /\ \A j \in Indices' : ~(j > new)
    BY <1>1, <1>2 DEF new
  <2>2. \E i \in Indices' :
          /\ IsFilter(cmd'[queue'[i]]) /\ g = cmd'[queue'[i]].filter
          /\ \A j \in Indices' : j > i => ~IsFilter(cmd'[queue'[j]])
    BY <1>3, <2>1
  <2> QED
    BY <1>3, <2>2 DEF LastSent
<1>4. CASE ~IsFilter(cmd[r])
  <2>1. \A i \in Indices' : i \in Indices \/ i = new
    BY <1>2 DEF new
  <2>2. queue'[new] = r /\ ~IsFilter(cmd'[queue'[new]])
    BY <1>1, <1>4 DEF new
  <2>3. \A i \in Indices : i \in Indices' /\ cmd'[queue'[i]] = cmd[queue[i]]
    BY <1>1, <1>2
  <2>4. CASE f = filters /\ \A i \in Indices : ~IsFilter(cmd[queue[i]])
    <3>1. \A i \in Indices' : ~IsFilter(cmd'[queue'[i]])
      BY <2>1, <2>2, <2>3, <2>4
    <3> QED
      BY <1>4, <2>4, <3>1 DEF LastSent
  <2>5. ASSUME NEW i \in Indices,
               IsFilter(cmd[queue[i]]), f = cmd[queue[i]].filter,
               \A j \in Indices : j > i => ~IsFilter(cmd[queue[j]])
        PROVE  LastSent(f)'
    <3>1. \A j \in Indices' : j > i => ~IsFilter(cmd'[queue'[j]])
      BY <2>1, <2>2, <2>3, <2>5
    <3> QED
      BY <2>3, <2>5, <3>1 DEF LastSent
  <2> QED
    BY <1>4, <2>4, <2>5 DEF LastSent
<1> QED
  BY <1>3, <1>4

(* A command handled leaves the queue's front. *)
LEMMA FrontHandled ==
  ASSUME QueueInv, NEW f, LastSent(f), Len(queue) >= 1, queue' = Tail(queue), UNCHANGED cmd,
         filters' = IF IsFilter(cmd[queue[1]]) THEN cmd[queue[1]].filter ELSE filters
  PROVE  LastSent(f)'
<1> USE DEF QueueInv, Queued
<1>1. /\ Len(queue') = Len(queue) - 1 /\ Len(queue) \in Nat
      /\ \A i \in Indices' : queue'[i] = queue[i + 1] /\ i + 1 \in Indices
  BY AtTheFront DEF Indices
<1>2. \A i \in Indices : i = 1 \/ (i - 1 \in Indices' /\ queue'[i - 1] = queue[i])
  BY <1>1 DEF Indices
<1>3. CASE f = filters /\ \A i \in Indices : ~IsFilter(cmd[queue[i]])
  <2>1. 1 \in Indices
    BY DEF Indices
  <2>2. filters' = filters
    BY <1>3, <2>1
  <2>3. \A i \in Indices' : ~IsFilter(cmd'[queue'[i]])
    BY <1>1, <1>3
  <2> QED
    BY <1>3, <2>2, <2>3 DEF LastSent
<1>4. ASSUME NEW i \in Indices,
             IsFilter(cmd[queue[i]]), f = cmd[queue[i]].filter,
             \A j \in Indices : j > i => ~IsFilter(cmd[queue[j]])
      PROVE  LastSent(f)'
  <2>1. CASE i = 1
    <3>1. filters' = f
      BY <1>4, <2>1
    <3>2. \A j \in Indices' : ~IsFilter(cmd'[queue'[j]])
      <4>1. \A j \in Indices' : j + 1 > 1
        BY <1>1 DEF Indices
      <4> QED
        BY <1>1, <1>4, <2>1, <4>1
    <3> QED
      BY <3>1, <3>2 DEF LastSent
  <2>2. CASE i # 1
    <3>1. i - 1 \in Indices' /\ queue'[i - 1] = queue[i]
      BY <1>2, <2>2
    <3>2. \A j \in Indices' : j > i - 1 => j + 1 > i
      BY <1>1 DEF Indices
    <3>3. \A j \in Indices' : j > i - 1 => ~IsFilter(cmd'[queue'[j]])
      BY <1>1, <1>4, <3>2
    <3> DEFINE k == i - 1
    <3>4. /\ k \in Indices' /\ IsFilter(cmd'[queue'[k]]) /\ f = cmd'[queue'[k]].filter
          /\ \A j \in Indices' : j > k => ~IsFilter(cmd'[queue'[j]])
      BY <1>4, <3>1, <3>3
    <3> HIDE DEF k
    <3> QED
      BY <3>4 DEF LastSent
  <2> QED
    BY <2>1, <2>2
<1> QED
  BY <1>3, <1>4 DEF LastSent

LEMMA FilterStep == QueueInv /\ FilterInv /\ [Next]_vars => FilterInv'
<1> SUFFICES ASSUME QueueInv, FilterInv, [Next]_vars PROVE FilterInv'
  OBVIOUS
<1> USE DEF Stages
<1>0. PICK f \in Filters : /\ LastSent(f)
                           /\ "copies" \notin crossed => CopyFollows(f)
                           /\ "commands" \notin crossed => WantedFollows(f)
  BY DEF FilterInv
<1>1. /\ at \in [Requests -> Stages]
      /\ cmd \in [Requests -> Cmds \cup {None}]
      /\ queue \in Seq(Requests)
      /\ \A r \in Requests :
           /\ at[r] # "idle" => cmd[r] \in Cmds
           /\ at[r] = "waiting" => ~IsFilter(cmd[r])
           /\ at[r] = "copying" => IsFilter(cmd[r])
      /\ \A i \in Indices : queue[i] \in Requests /\ at[queue[i]] \notin {"idle", "sending"}
  BY DEF QueueInv, Handlers, Queued, IsFilter, ExpectsResponse, Indices
<1>2. /\ filters \in Filters /\ copy \in Filters /\ wanted \in Filters
      /\ crossed \subseteq {"commands", "copies"}
  BY DEF FilterInv
<1>3. \A r \in Requests : at[r] # "idle" /\ IsFilter(cmd[r]) => cmd[r].filter \in Filters
  BY <1>1, CommandKinds DEF IsFilter
<1>4. ASSUME NEW r \in Requests, NEW c \in Cmds, Arrives(r, c)
      PROVE  /\ LastSent(f)' /\ UNCHANGED <<filters, copy, queue>>
             /\ at[r] = "idle" /\ at' = [at EXCEPT ![r] = "sending"]
             /\ cmd' = [cmd EXCEPT ![r] = c]
             /\ CopyFollows(f) => CopyFollows(f)'
  <2>1. /\ at[r] = "idle" /\ at' = [at EXCEPT ![r] = "sending"]
        /\ cmd' = [cmd EXCEPT ![r] = c]
        /\ UNCHANGED <<filters, copy, queue>>
    BY <1>4 DEF Arrives, engine
  <2>2. \A i \in Indices : cmd'[queue[i]] = cmd[queue[i]]
    BY <1>1, <2>1
  <2>3. LastSent(f)'
    BY <1>0, <2>1, <2>2, QueueUntouched
  <2>4. CopyFollows(f) => CopyFollows(f)'
    BY <1>1, <2>1 DEF CopyFollows
  <2> QED
    BY <2>1, <2>3, <2>4
<1>5. ASSUME NEW r \in Requests, PostListener(r) \/ ListenerByID(r)
      PROVE  FilterInv'
  <2>1. UNCHANGED pages
    BY <1>5 DEF PostListener, ListenerByID
  <2>2. PICK c \in Cmds : Arrives(r, c) /\ ~IsFilter(c)
    <3>1. \A i \in Ids, op \in ListenerOps :
            [op |-> op, id |-> i] \in Cmds /\ ~IsFilter([op |-> op, id |-> i])
      BY DEF Cmds, ListenerCommands, IsFilter
    <3>2. \E i \in Ids, op \in ListenerOps : Arrives(r, [op |-> op, id |-> i])
      BY <1>5 DEF PostListener, ListenerByID, ListenerOps
    <3> QED
      BY <3>1, <3>2
  <2>3. WantedFollows(f) => WantedFollows(f)'
    BY <1>1, <1>4, <2>1, <2>2 DEF WantedFollows, Sending, pages
  <2> QED
    BY <1>0, <1>2, <1>4, <2>1, <2>2, <2>3 DEF FilterInv, pages
<1>6. ASSUME NEW r \in Requests, PatchFilters(r)
      PROVE  FilterInv'
  <2>1. PICK g \in Filters : Arrives(r, [op |-> "filter", filter |-> g]) /\ wanted' = g
    BY <1>6 DEF PatchFilters
  <2> DEFINE c == [op |-> "filter", filter |-> g]
  <2>2. c \in Cmds /\ IsFilter(c) /\ c.filter = g
    BY DEF Cmds, FilterCommands, ListenerOps, IsFilter
  <2> HIDE DEF c
  <2>3. Arrives(r, c)
    BY <2>1 DEF c
  <2>4. crossed' = crossed \cup
          IF \E q \in Requests : at[q] = "sending" /\ ~ExpectsResponse(q) THEN {"commands"} ELSE {}
    BY <1>6 DEF PatchFilters
  <2>5. CASE \E q \in Requests : Sending(q)
    <3>1. crossed' = crossed \cup {"commands"}
      BY <2>4, <2>5 DEF Sending, IsFilter, ExpectsResponse
    <3> QED
      BY <1>0, <1>2, <1>4, <2>1, <2>2, <2>3, <3>1 DEF FilterInv
  <2>6. CASE ~\E q \in Requests : Sending(q)
    <3>1. crossed' = crossed
      BY <2>4, <2>6 DEF Sending, IsFilter, ExpectsResponse
    <3>2. \A q \in Requests : Sending(q)' <=> q = r
      BY <1>1, <1>4, <2>2, <2>3, <2>6 DEF Sending
    <3>3. cmd'[r].filter = wanted'
      BY <1>1, <1>4, <2>1, <2>2, <2>3
    <3>4. WantedFollows(f)'
      BY <3>2, <3>3 DEF WantedFollows
    <3> QED
      BY <1>0, <1>2, <1>4, <2>1, <2>2, <2>3, <3>1, <3>4 DEF FilterInv
  <2> QED
    BY <2>5, <2>6
<1>7. ASSUME NEW r \in Requests, Send(r)
      PROVE  FilterInv'
  <2>1. /\ at[r] = "sending" /\ queue' = Append(queue, r)
        /\ UNCHANGED <<filters, copy, cmd, wanted>>
    BY <1>7 DEF Send, engine
  <2>2. CASE ~IsFilter(cmd[r])
    <3>1. at' = [at EXCEPT ![r] = "waiting"] /\ crossed' = crossed
      BY <1>7, <2>2 DEF Send, IsFilter, ExpectsResponse
    <3>2. LastSent(f)'
      BY <1>0, <2>1, <2>2, SentLast
    <3>3. CopyFollows(f) => CopyFollows(f)'
      BY <1>1, <2>1, <3>1 DEF CopyFollows
    <3>4. \A q \in Requests : Sending(q)' <=> Sending(q)
      BY <1>1, <2>1, <2>2, <3>1 DEF Sending
    <3>5. WantedFollows(f) => WantedFollows(f)'
      BY <2>1, <3>4 DEF WantedFollows
    <3> QED
      BY <1>0, <1>2, <2>1, <3>1, <3>2, <3>3, <3>5 DEF FilterInv
  <2>3. CASE IsFilter(cmd[r])
    <3>0. PICK g \in Filters : g = cmd[r].filter
      BY <1>1, <1>3, <2>1, <2>3
    <3>1. at' = [at EXCEPT ![r] = "copying"]
      BY <1>7, <2>3 DEF Send, IsFilter, ExpectsResponse
    <3>2. crossed' = crossed \cup IF \E q \in Requests : at[q] = "copying" THEN {"copies"} ELSE {}
      BY <1>7, <2>3 DEF Send, IsFilter, ExpectsResponse
    <3>3. LastSent(g)'
      BY <1>0, <2>1, <2>3, <3>0, SentLast
    <3>4. "copies" \notin crossed' => CopyFollows(g)'
      <4>1. "copies" \notin crossed' => \A q \in Requests : at'[q] = "copying" <=> q = r
        BY <1>1, <3>1, <3>2
      <4>2. cmd'[r].filter = g
        BY <2>1, <3>0
      <4> QED
        BY <2>1, <4>1, <4>2 DEF CopyFollows
    <3>5. "commands" \notin crossed' => WantedFollows(g)'
      <4> SUFFICES ASSUME "commands" \notin crossed' PROVE WantedFollows(g)'
        OBVIOUS
      <4>1. WantedFollows(f)
        BY <1>0, <3>2
      <4>2. Sending(r)
        BY <2>1, <2>3 DEF Sending
      <4>3. g = wanted' /\ \A q \in Requests : Sending(q) => q = r
        BY <2>1, <3>0, <4>1, <4>2 DEF WantedFollows
      <4>4. \A q \in Requests : ~Sending(q)'
        BY <1>1, <2>1, <3>1, <4>3 DEF Sending
      <4> QED
        BY <2>1, <4>3, <4>4 DEF WantedFollows
    <3> QED
      <4>1. crossed' \subseteq {"commands", "copies"}
        BY <1>2, <3>2
      <4>2. UNCHANGED <<filters, copy, wanted>>
        BY <2>1
      <4>3. /\ LastSent(g)'
            /\ "copies" \notin crossed' => CopyFollows(g)'
            /\ "commands" \notin crossed' => WantedFollows(g)'
        BY <3>3, <3>4, <3>5
      <4> QED
        BY <1>2, <4>1, <4>2, <4>3 DEF FilterInv
  <2> QED
    BY <2>2, <2>3
<1>8. ASSUME NEW r \in Requests, Copy(r)
      PROVE  FilterInv'
  <2>1. /\ at[r] = "copying" /\ at' = [at EXCEPT ![r] = "done"] /\ copy' = cmd[r].filter
        /\ UNCHANGED <<queue, cmd, filters, wanted, crossed>>
    BY <1>8 DEF Copy, engine, pages
  <2>2. LastSent(f)'
    BY <1>0, <2>1, QueueUntouched
  <2>3. CopyFollows(f) => CopyFollows(f)'
    BY <1>1, <2>1 DEF CopyFollows
  <2>4. \A q \in Requests : Sending(q)' <=> Sending(q)
    BY <1>1, <2>1 DEF Sending
  <2>5. WantedFollows(f) => WantedFollows(f)'
    BY <2>1, <2>4 DEF WantedFollows
  <2>6. copy' \in Filters
    BY <1>1, <1>3, <2>1
  <2> QED
    BY <1>0, <1>2, <2>1, <2>2, <2>3, <2>5, <2>6 DEF FilterInv
<1>9. ASSUME NEW r \in Requests, Receive(r) \/ TimesOut(r) \/ ClientLeaves(r)
      PROVE  FilterInv'
  <2>1. /\ at[r] \in {"waiting", "sending"}
        /\ \E p \in {"done", "gaveUp"} : at' = [at EXCEPT ![r] = p]
        /\ UNCHANGED <<queue, cmd, filters, copy, wanted>>
    BY <1>9 DEF Receive, TimesOut, ClientLeaves, engine, pages
  <2>2. LastSent(f)'
    BY <1>0, <2>1, QueueUntouched
  <2>3. CopyFollows(f) => CopyFollows(f)'
    BY <1>1, <2>1 DEF CopyFollows
  <2>4. CASE Sending(r)
    <3>1. crossed' = crossed \cup {"commands"}
      BY <1>1, <1>9, <2>4 DEF Sending, IsFilter, ExpectsResponse, Receive, TimesOut, ClientLeaves
    <3> QED
      BY <1>0, <1>2, <2>1, <2>2, <2>3, <3>1 DEF FilterInv
  <2>5. CASE ~Sending(r)
    <3>1. ~IsFilter(cmd[r])
      BY <1>1, <2>1, <2>5 DEF Sending
    <3>2. crossed' = crossed
      BY <1>9, <3>1 DEF IsFilter, ExpectsResponse, Receive, TimesOut, ClientLeaves, pages
    <3>3. \A q \in Requests : Sending(q)' <=> Sending(q)
      BY <1>1, <2>1, <2>5 DEF Sending
    <3>4. WantedFollows(f) => WantedFollows(f)'
      BY <2>1, <3>3 DEF WantedFollows
    <3> QED
      BY <1>0, <1>2, <2>1, <2>2, <2>3, <3>2, <3>4 DEF FilterInv
  <2> QED
    BY <2>4, <2>5
<1>10. CASE HandleCommand
  <2>1. /\ Len(queue) >= 1 /\ queue[1] \in Requests /\ queue' = Tail(queue)
        /\ UNCHANGED <<at, cmd, copy, wanted, crossed>>
    BY <1>10, OneCommand
  <2> DEFINE r == queue[1]
  <2>2. cmd[r] \in Cmds /\ Head(queue) = r
    <3>1. 1 \in Indices
      BY <2>1, <1>1 DEF Indices
    <3> QED
      BY <1>1, <2>1, <3>1
  <2>3. ListenerCommand(r, cmd[r]) \/ SetFilters(cmd[r])
    BY <1>10, <2>2 DEF HandleCommand
  <2> HIDE DEF r
  <2>4. filters' = IF IsFilter(cmd[r]) THEN cmd[r].filter ELSE filters
    <3>1. CASE SetFilters(cmd[r])
      BY <3>1 DEF SetFilters, IsFilter, ListenerOps
    <3>2. CASE ListenerCommand(r, cmd[r])
      BY <3>2 DEF ListenerCommand, AddListener, RetryListener, RemoveListener, IsFilter, ListenerOps
    <3> QED
      BY <2>3, <3>1, <3>2
  <2>5. filters' \in Filters
    BY <1>2, <2>2, <2>4, CommandKinds DEF IsFilter
  <2>6. LastSent(f)'
    BY <1>0, <2>1, <2>4, FrontHandled DEF r
  <2>7. (CopyFollows(f) => CopyFollows(f)') /\ (WantedFollows(f) => WantedFollows(f)')
    BY <2>1 DEF CopyFollows, WantedFollows, Sending
  <2> QED
    BY <1>0, <1>2, <2>1, <2>5, <2>6, <2>7 DEF FilterInv
<1>11. CASE EngineStops \/ (\E a \in Addresses : Elsewhere(a)) \/ UNCHANGED vars
  <2>1. UNCHANGED <<queue, at, cmd, filters, copy, wanted, crossed>>
    BY <1>11 DEF EngineStops, Elsewhere, vars, handlers, engine, pages
  <2>2. LastSent(f)'
    BY <1>0, <2>1, QueueUntouched
  <2>3. (CopyFollows(f) => CopyFollows(f)') /\ (WantedFollows(f) => WantedFollows(f)')
    BY <2>1 DEF CopyFollows, WantedFollows, Sending
  <2> QED
    BY <1>0, <1>2, <2>1, <2>2, <2>3 DEF FilterInv
<1> QED
  BY <1>5, <1>6, <1>7, <1>8, <1>9, <1>10, <1>11 DEF Next

-------------------------------------------------------------------------------
CommandsInv ==
  /\ QueueInv /\ ErrorsInv /\ TableInv /\ FilterInv
  /\ running \in BOOLEAN
  /\ taken \subseteq Addresses

LEMMA CommandsInvHolds == Spec => []CommandsInv
<1>1. Init => CommandsInv
  <2> SUFFICES ASSUME Init PROVE CommandsInv
    OBVIOUS
  <2>1. ErrorsInv
    <3>1. Pending \subseteq Requests
      BY DEF Pending
    <3>2. Cardinality(Pending) <= Cardinality(Requests) /\ Cardinality(Pending) \in Nat
      BY <3>1, FS_Subset, PendingIsFinite, CommandsAssumption
    <3> QED
      BY <3>2, FS_CardinalityType, CommandsAssumption DEF Init, ErrorsInv
  <2> QED
    BY <2>1, InitQueueInv, InitTableInv, InitFilterInv DEF Init, CommandsInv
<1>2. CommandsInv /\ [Next]_vars => CommandsInv'
  <2> SUFFICES ASSUME CommandsInv, [Next]_vars PROVE CommandsInv'
    OBVIOUS
  <2>1. running' \in BOOLEAN /\ taken' \subseteq Addresses
    <3>1. CASE HandleCommand
      BY <3>1, OneCommand DEF CommandsInv
    <3>2. CASE ~HandleCommand
      BY <3>2 DEF CommandsInv, Next, PostListener, ListenerByID, PatchFilters, Arrives, Send, Copy,
                  Receive, TimesOut, ClientLeaves, EngineStops, Elsewhere, vars, engine
    <3> QED
      BY <3>1, <3>2
  <2> QED
    BY <2>1, QueueStep, ErrorsStep, TableStep, FilterStep DEF CommandsInv
<1> QED
  BY <1>1, <1>2, PTL DEF Spec

(* The queue holds each request once and never more than it has room for, every
   request adds at most one error, and no table names a socket that was not
   opened, in every interleaving of handlers, time-outs, departures and the
   engine (web/server.go:353-389, commands.go:37-127). *)
THEOREM TypeCorrect == Spec => []TypeOK
<1>1. CommandsInv => TypeOK
  <2> SUFFICES ASSUME CommandsInv PROVE TypeOK
    OBVIOUS
  <2>1. errors \in 0 .. Cardinality(Requests)
    BY PendingIsFinite, FS_CardinalityType, CommandsAssumption DEF CommandsInv, ErrorsInv
  <2>2. DOMAIN queue = Indices
    BY DEF CommandsInv, QueueInv, Queued, Indices
  <2>3. \A r \in Requests : answer[r] \in {<< >>, <<"ok">>, <<"failed">>}
    BY DEF CommandsInv, QueueInv, Handlers, Answers
  <2> QED
    BY <2>1, <2>2, <2>3 DEF CommandsInv, QueueInv, Handlers, Queued, Stages, TableInv, TableTypes,
                            FilterInv, TypeOK
<1> QED
  BY <1>1, CommandsInvHolds, PTL

(* No socket stays open that no command can close, whatever requests failed,
   were repeated or were abandoned, and although two ids may stand for one
   address (commands.go:37-127, server.go:69-97). *)
THEOREM NoSocketIsOrphaned == Spec => []NoOrphanSocket
<1>1. CommandsInv => NoOrphanSocket
  BY DEF CommandsInv, TableInv, TablesAgree
<1> QED
  BY <1>1, CommandsInvHolds, PTL

(* For every order of requests: an entry of the server's table is an open socket at
   the address of its id, of no other id, and the id is called listening or error; a
   listener called listening has an entry; one called stopped has none, nor a socket
   at its address that is not another id's.  Of a listener called error it says that
   much and no more: it may have a socket or none (commands.go:63-127). *)
THEOREM StatusHolds == Spec => []StatusIsTrue
<1>1. CommandsInv => StatusIsTrue
  <2> SUFFICES ASSUME CommandsInv, NEW i \in Ids
               PROVE  /\ status[i] = "listening" => table[i] # 0
                      /\ table[i] # 0 =>
                           /\ status[i] \in {"listening", "error"}
                           /\ \E s \in sockets : s.number = table[i] /\ s.address = AddressOf[i]
                           /\ \A j \in Ids \ {i} : table[j] # table[i]
                      /\ status[i] = "stopped" =>
                           /\ table[i] = 0
                           /\ \A s \in sockets : s.address = AddressOf[i] =>
                                \E j \in Ids \ {i} : table[j] = s.number
    BY DEF StatusIsTrue
  <2> USE DEF CommandsInv, TableInv, TablesAgree
  <2>1. status[i] = "listening" => table[i] # 0
    OBVIOUS
  <2>2. ASSUME table[i] # 0
        PROVE  /\ status[i] \in {"listening", "error"}
               /\ \E s \in sockets : s.number = table[i] /\ s.address = AddressOf[i]
               /\ \A j \in Ids \ {i} : table[j] # table[i]
    <3>1. status[i] \in {"unknown", "listening", "stopped", "error"}
      BY DEF TableTypes
    <3>2. status[i] \in {"listening", "error"}
      BY <2>2, <3>1
    <3>3. \A j \in Ids \ {i} : table[j] # table[i]
      BY <2>2
    <3> QED
      BY <2>2, <3>2, <3>3
  <2>3. ASSUME status[i] = "stopped"
        PROVE  /\ table[i] = 0
               /\ \A s \in sockets : \E j \in Ids \ {i} : table[j] = s.number
    <3>1. table[i] = 0
      BY <2>3
    <3>2. \A s \in sockets : s.number # 0
      BY DEF TableTypes
    <3> QED
      BY <3>1, <3>2 DEF NoOrphanSocket
  <2> QED
    BY <2>1, <2>2, <2>3
<1> QED
  BY <1>1, CommandsInvHolds, PTL

(* Between requests the engine, the copy served to new pages and the dashboard
   have one filter, unless the steps of two filter requests overlapped or a
   client left one (web/server.go:164-170, commands.go:142-144). *)
THEOREM FiltersHold == Spec => []FiltersAgree
<1>1. CommandsInv => FiltersAgree
  <2> SUFFICES ASSUME CommandsInv,
                      \A i \in DOMAIN queue : ExpectsResponse(queue[i]),
                      \A r \in Requests : at[r] \in {"sending", "copying"} => ExpectsResponse(r)
               PROVE  /\ "copies" \notin crossed => copy = filters
                      /\ "commands" \notin crossed => wanted = filters
    BY DEF FiltersAgree
  <2>1. PICK f \in Filters : /\ LastSent(f)
                             /\ "copies" \notin crossed => CopyFollows(f)
                             /\ "commands" \notin crossed => WantedFollows(f)
    BY DEF CommandsInv, FilterInv
  <2>2. DOMAIN queue = Indices
    BY DEF CommandsInv, QueueInv, Queued, Indices
  <2>3. f = filters
    BY <2>1, <2>2 DEF LastSent, IsFilter, ExpectsResponse
  <2>4. \A r \in Requests : at[r] # "copying" /\ ~Sending(r)
    BY DEF Sending, IsFilter, ExpectsResponse, CommandsInv, QueueInv, Handlers
  <2> QED
    BY <2>1, <2>3, <2>4 DEF CopyFollows, WantedFollows
<1> QED
  BY <1>1, CommandsInvHolds, PTL
===============================================================================
