--------------------------------- MODULE Rates ---------------------------------
(***************************************************************************)
(* A rolling counter: events counted in buckets of one interval each        *)
(* (internal/store/stats.go), as the engine feeds it at its ticks and reads  *)
(* it for a snapshot, and the number the dashboard shows of it               *)
(* (web/src/routes/DashboardPage.tsx).  Time passes in ticks; an interval is *)
(* some ticks long.                                                          *)
(***************************************************************************)
EXTENDS Integers

CONSTANTS
  BucketCount,  (* 60 for logs per second, 30 for errors and drops per minute *)
  Step,         (* ticks in an interval                                    *)
  MaxNow,       (* bound on the time                                       *)
  MaxCount      (* bound on the events of a tick                           *)

VARIABLES
  now,
  buckets, start, (* the fields of RollingCounter                          *)
  counted,        (* for the property: events at each time so far          *)
  kpi             (* what the dashboard shows, and whether the two intervals
                     before it had events all the time                     *)

vars == <<now, buckets, start, counted, kpi>>

Slots == 0 .. BucketCount - 1

Init ==
  /\ now = 0
  /\ buckets = [i \in Slots |-> 0]
  /\ start = 0
  /\ counted = [t \in 0 .. MaxNow |-> 0]
  /\ kpi = [value |-> 0, steady |-> FALSE]

(* The bucket of time t when the first one starts at s. *)
Index(t, s) == ((t - s) \div Step) % BucketCount

(* advance: buckets whose interval has begun since are cleared, and the start
   moves up to the present interval. *)
Elapsed == (now - start) \div Step

Cleared ==
  IF Elapsed >= BucketCount THEN Slots
  ELSE {(Index(start + i * Step, start) + 1) % BucketCount : i \in 0 .. Elapsed - 1}

AdvancedStart ==
  IF Elapsed >= BucketCount THEN now ELSE start + Elapsed * Step

AdvancedBuckets == [i \in Slots |-> IF i \in Cleared THEN 0 ELSE buckets[i]]

(* The engine adds what it has taken since its last tick. *)
Add(n) ==
  /\ counted[now] = 0
  /\ start' = AdvancedStart
  /\ buckets' = [AdvancedBuckets EXCEPT ![Index(now, start')] = @ + n]
  /\ counted' = [counted EXCEPT ![now] = n]
  /\ UNCHANGED <<now, kpi>>

Steady == now >= 2 * Step /\ \A t \in now - 2 * Step .. now : counted[t] > 0

(* A snapshot reaches the dashboard, which shows the last of the buckets. *)
Last(b) == b[BucketCount - 1]

Snapshot ==
  /\ start' = AdvancedStart
  /\ buckets' = AdvancedBuckets
  /\ kpi' = [value |-> Last(buckets'), steady |-> Steady]
  /\ UNCHANGED <<now, counted>>

TimePasses ==
  /\ now < MaxNow
  /\ now' = now + 1
  /\ UNCHANGED <<buckets, start, counted, kpi>>

Next ==
  \/ \E n \in 1 .. MaxCount : Add(n)
  \/ Snapshot
  \/ TimePasses

Spec == Init /\ [][Next]_vars

-------------------------------------------------------------------------------
(* "Logs / sec" (DashboardPage.tsx:54): after two intervals in which every tick
   had events, the number on the dashboard is not zero. *)
SteadyStreamShows == kpi.steady => kpi.value > 0
===============================================================================
