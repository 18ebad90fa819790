--------------------------- MODULE DeliveryProofs ---------------------------
(***************************************************************************)
(* Proofs about the forwarding of events, for every finite set of requests *)
(* and of persistence workers and every capacity of the three channels.    *)
(*                                                                         *)
(* PlaceInv says that a request is in exactly one place and once there;    *)
(* ResultInv what its result, its row and the sink know of it meanwhile;   *)
(* TaskInv where the tasks stand while the shutdown goes on.  The three    *)
(* are inductive together, and the counters add up because every step      *)
(* that moves a request between places moves it between counters.          *)
(***************************************************************************)
EXTENDS Delivery, FiniteSetTheorems, TLAPS

NoDup(s) == \A i, j \in DOMAIN s : s[i] = s[j] => i = j

PlaceInv ==
  /\ \A r \in Requests :
       /\ r \in Items(queue) <=> stage[r] = "queue"
       /\ r = held <=> stage[r] = "held"
       /\ r \in tasks <=> stage[r] = "task"
       /\ r \in Items(outcomes) <=> stage[r] = "outcome"
       /\ r \in Items(pending) <=> stage[r] = "pending"
       /\ (\E w \in Writers : writer[w] = r) <=> stage[r] = "writing"
       /\ r \in uncounted => stage[r] \notin {"new", "refused"}
  /\ NoDup(queue) /\ NoDup(outcomes) /\ NoDup(pending)
  /\ \A v, w \in Writers : writer[v] = writer[w] /\ writer[v] \in Requests => v = w
  /\ fwd \in {"permit", "drainPermit"} <=> held # None

ResultInv ==
  \A r \in Requests :
    /\ stage[r] \in {"new", "refused", "queue", "held"} => calls[r] = 0
    /\ stage[r] = "task" => calls[r] = IF r \in sent THEN 1 ELSE 0
    /\ stage[r] \in {"new", "refused", "queue", "held", "task"} =>
         result[r] = None /\ row[r] = None
    /\ calls[r] <= 1
    /\ row[r] \in {None, result[r]}
    /\ result[r] # None /\ result[r] = "answered" => calls[r] = 1

\* Where the tasks stand while the shutdown goes on.
TaskInv ==
  /\ fwd \in {"drain", "drainPermit", "abort", "exited"} => Signalled
  /\ fwd \in {"drain", "drainPermit", "abort", "exited"} => ~queueOpen
  /\ fwd \in {"abort", "exited"} => queue = <<>>
  /\ driver \in {"joinConsumer", "stopWriter", "down"} => fwd = "exited"
  /\ fwd = "exited" /\ ~error => tasks = {}
  /\ cons = "exited" => outcomes = <<>> /\ ~outcomesOpen
  /\ driver \in {"stopWriter", "down"} => cons = "exited"
  /\ ~storage => pending = <<>> /\ cons # "count"
  /\ storage => \A w \in Writers :
       writer[w] = "exited" => driver = "down" \/ (cons = "exited" /\ pending = <<>>)
  /\ driver = "down" /\ ~error =>
       pending = <<>> /\ \A w \in Writers : writer[w] = "exited"
  /\ \A r \in Requests : stage[r] \in Lost => Signalled

Permits == permits + Cardinality(tasks) = MaxInFlight

SafeInv == TypeOK /\ PlaceInv /\ ResultInv /\ TaskInv /\ Permits

IInv == SafeInv /\ ForwarderAccounts /\ PersistenceAccounts

-----------------------------------------------------------------------------
(* The operations of the channels, as sets of requests.                    *)

\* What Append does to the items of a sequence.
LEMMA AppendItems ==
  ASSUME NEW S, NEW s \in Seq(S), NEW e \in S
  PROVE  /\ Append(s, e) \in Seq(S) /\ Items(Append(s, e)) = Items(s) \cup {e}
         /\ Len(Append(s, e)) = Len(s) + 1
         /\ NoDup(s) /\ e \notin Items(s) => NoDup(Append(s, e))
<1>1. /\ Append(s, e) \in Seq(S) /\ Len(s) \in Nat /\ DOMAIN s = 1..Len(s)
      /\ DOMAIN Append(s, e) = 1..Len(s) + 1 /\ Len(Append(s, e)) = Len(s) + 1
      /\ \A i \in 1..Len(s) : Append(s, e)[i] = s[i]
      /\ Append(s, e)[Len(s) + 1] = e
  OBVIOUS
<1>2. Items(Append(s, e)) \subseteq Items(s) \cup {e}
  BY <1>1 DEF Items
<1>3. Items(s) \subseteq Items(Append(s, e)) /\ e \in Items(Append(s, e))
  BY <1>1 DEF Items
<1>4. NoDup(s) /\ e \notin Items(s) => NoDup(Append(s, e))
  BY <1>1 DEF Items, NoDup
<1> QED
  BY <1>1, <1>2, <1>3, <1>4

\* What Tail does to the items of a sequence.
LEMMA TailItems ==
  ASSUME NEW S, NEW s \in Seq(S), s # <<>>
  PROVE  /\ Head(s) \in S /\ Tail(s) \in Seq(S) /\ Len(Tail(s)) = Len(s) - 1
         /\ Items(s) = {Head(s)} \cup Items(Tail(s))
         /\ NoDup(s) => NoDup(Tail(s)) /\ Head(s) \notin Items(Tail(s))
<1>1. /\ Len(s) \in Nat /\ Len(s) > 0 /\ Head(s) = s[1] /\ DOMAIN s = 1..Len(s)
      /\ DOMAIN Tail(s) = 1..Len(s) - 1 /\ Len(Tail(s)) = Len(s) - 1
      /\ Tail(s) \in Seq(S)
  OBVIOUS
<1>2. \A i \in 1..Len(s) : i = 1 \/ (i - 1 \in 1..Len(s) - 1
                                       /\ Tail(s)[i - 1] = s[i])
  BY <1>1
<1>3. \A i \in 1..Len(s) - 1 : i + 1 \in 1..Len(s) /\ Tail(s)[i] = s[i + 1]
  BY <1>1
<1>4. Items(s) \subseteq {Head(s)} \cup Items(Tail(s))
  <2>1. SUFFICES ASSUME NEW i \in 1..Len(s)
                 PROVE  s[i] \in {Head(s)} \cup Items(Tail(s))
    BY <1>1 DEF Items
  <2>2. CASE i = 1
    BY <1>1, <2>2
  <2>3. CASE i # 1
    BY <1>1, <1>2, <2>3 DEF Items
  <2> QED
    BY <2>2, <2>3
<1>5. {Head(s)} \cup Items(Tail(s)) \subseteq Items(s)
  BY <1>1, <1>3 DEF Items
<1>6. NoDup(s) => NoDup(Tail(s)) /\ Head(s) \notin Items(Tail(s))
  BY <1>1, <1>3 DEF NoDup, Items
<1> QED
  BY <1>1, <1>4, <1>5, <1>6

\* The empty channel has no items.
LEMMA NoItems == Items(<<>>) = {} /\ NoDup(<<>>) /\ Len(<<>>) = 0
BY DEF Items, NoDup

\* A channel without duplicates is as long as it has items.
LEMMA ItemsCount ==
  ASSUME NEW S, NEW s \in Seq(S), NoDup(s)
  PROVE  IsFiniteSet(Items(s)) /\ Cardinality(Items(s)) = Len(s)
<1>1. Len(s) \in Nat /\ DOMAIN s = 1..Len(s)
  OBVIOUS
<1>2. IsFiniteSet(1..Len(s)) /\ Cardinality(1..Len(s)) = Len(s)
  BY <1>1, FS_Interval, SMTT(30)
<1> DEFINE f == [i \in 1..Len(s) |-> s[i]]
<1>3. f \in Bijection(1..Len(s), Items(s))
  <2>1. f \in [1..Len(s) -> Items(s)]
    BY <1>1 DEF Items
  <2>2. \A a, b \in 1..Len(s) : f[a] = f[b] => a = b
    BY <1>1 DEF NoDup
  <2>3. \A t \in Items(s) : \E a \in 1..Len(s) : f[a] = t
    BY <1>1 DEF Items
  <2> QED
    BY <2>1, <2>2, <2>3 DEF Bijection, Injection, Surjection, IsInjective
<1> HIDE DEF f
<1> QED
  BY <1>2, <1>3, FS_Bijection DEF ExistsBijection

-----------------------------------------------------------------------------
\* The invariant holds when the runtime starts.
LEMMA InitIInv == Init => IInv
<1> SUFFICES ASSUME Init PROVE IInv
  OBVIOUS
<1> USE DeliveryAssumption, NoItems DEF Init
<1>1. TypeOK
  <2>1. storage \in BOOLEAN /\ permits \in 0..MaxInFlight
    OBVIOUS
  <2>2. writer \in [Writers -> Requests \cup {"idle", "exited"}]
    OBVIOUS
  <2>3. /\ stats \in [Statuses \cup {"accepted", "backpressure", "dropped"} -> Nat]
        /\ pstats \in [{"enqueued", "full", "ok", "failed", "timeout"} -> Nat]
    OBVIOUS
  <2>4. queue \in Seq(Requests) /\ outcomes \in Seq(Requests) /\ pending \in Seq(Requests)
    OBVIOUS
  <2> QED
    BY <2>1, <2>2, <2>3, <2>4 DEF TypeOK
<1>2. PlaceInv
  BY DEF PlaceInv
<1>3. ResultInv
  BY DEF ResultInv
<1>4. TaskInv
  BY DEF TaskInv, Signalled, Lost
<1>5. Permits
  BY FS_EmptySet DEF Permits
<1>6. \A T : Gone(T) = Cardinality({r \in Requests : "new" \in T})
  BY DEF Gone
<1>7. ForwarderAccounts
  <2>1. {r \in Requests : "new" \in {"lost", "vanished"}} = {}
    OBVIOUS
  <2>2. {r \in Requests : "new" \in {"aborted", "discarded"}} = {}
    OBVIOUS
  <2>3. {r \in Requests : "new" \in Lost} = {}
    BY DEF Lost
  <2>4. Holding = {}
    BY DEF Holding
  <2>5. /\ Gone({"lost", "vanished"}) = 0 /\ Gone({"aborted", "discarded"}) = 0
        /\ Gone(Lost) = 0 /\ Cardinality(Holding) = 0
        /\ Cardinality(uncounted) = 0 /\ Cardinality(tasks) = 0
    BY <1>6, <2>1, <2>2, <2>3, <2>4, FS_EmptySet
  <2>6. \A c \in {"answered", "timedOut", "failed", "accepted", "dropped"} : stats[c] = 0
    BY DEF Statuses
  <2> QED
    BY <2>5, <2>6 DEF ForwarderAccounts, Settled
<1>8. PersistenceAccounts
  <2>1. {r \in Requests : "new" \in {"cutOff"}} = {}
    OBVIOUS
  <2>2. {w \in Writers : writer[w] \in Requests} = {}
    OBVIOUS
  <2>3. Gone({"cutOff"}) = 0 /\ Cardinality({w \in Writers : writer[w] \in Requests}) = 0
    BY <1>6, <2>1, <2>2, FS_EmptySet
  <2> QED
    BY <2>3 DEF PersistenceAccounts, Enqueued
<1> QED
  BY <1>1, <1>2, <1>3, <1>4, <1>5, <1>7, <1>8 DEF IInv, SafeInv

-----------------------------------------------------------------------------
(* Every action preserves the type invariant.                              *)

Stages ==
  {"new", "refused", "queue", "held", "task", "outcome", "pending",
   "writing", "done", "unreported", "unsaved", "aborted"} \cup Lost

\* A request that moves, moves alone.
LEMMA MoveType ==
  ASSUME NEW r \in Requests, NEW s \in Stages, stage \in [Requests -> Stages],
         Move(r, s)
  PROVE  /\ stage' \in [Requests -> Stages] /\ stage'[r] = s
         /\ \A q \in Requests \ {r} : stage'[q] = stage[q]
BY DEF Move

\* Requests that are dropped together have the same stage afterwards.
LEMMA DropType ==
  ASSUME NEW set, NEW s \in Stages, stage \in [Requests -> Stages],
         Drop(set, s)
  PROVE  /\ stage' \in [Requests -> Stages]
         /\ \A q \in Requests : stage'[q] = IF q \in set THEN s ELSE stage[q]
BY DEF Drop

\* A counter that is increased leaves the others as they are.
LEMMA CountType ==
  ASSUME NEW N, NEW counters \in [N -> Nat], NEW c \in N
  PROVE  /\ Count(counters, c) \in [N -> Nat]
         /\ Count(counters, c)[c] = counters[c] + 1
         /\ \A d \in N \ {c} : Count(counters, c)[d] = counters[d]
BY DEF Count

\* A write leaves the row as it was or puts the result into it.
LEMMA WriteType ==
  ASSUME NEW r \in Requests, NEW c, WriteOutcome(r, c),
         row \in [Requests -> Statuses \cup {None}],
         result \in [Requests -> Statuses \cup {None}]
  PROVE  /\ row' \in [Requests -> Statuses \cup {None}]
         /\ row'[r] \in {row[r], result[r]}
         /\ \A q \in Requests \ {r} : row'[q] = row[q]
<1>1. PICK s \in {row[r], result[r]} : row' = [row EXCEPT ![r] = s]
  BY DEF WriteOutcome
<1> QED
  BY <1>1

\* The names of the counters of the forwarder, and the stages.
LEMMA StatNames ==
  /\ {"answered", "timedOut", "failed", "accepted", "backpressure", "dropped"}
       = Statuses \cup {"accepted", "backpressure", "dropped"}
  /\ {"new", "refused", "queue", "held", "task", "outcome", "pending",
      "writing", "done", "unreported", "unsaved", "aborted", "lost",
      "vanished", "discarded", "cutOff"} = Stages
BY DEF Statuses, Stages, Lost

-----------------------------------------------------------------------------
(* Every action keeps the requests in their places.                        *)

\* TryForward preserves the invariant.
LEMMA TryForwardKeeps ==
  ASSUME SafeInv, NEW r \in Requests, TryForward(r)
  PROVE  SafeInv'
<1> USE DeliveryAssumption DEF SafeInv
<1>t. /\ stage \in [Requests -> Stages] /\ queue \in Seq(Requests)
      /\ outcomes \in Seq(Requests) /\ pending \in Seq(Requests)
  BY DEF TypeOK, Stages
<1>u. UNCHANGED <<storage, calls, result, row, queueOpen, fwd, held, tasks,
                   sent, permits, outcomes, outcomesOpen, cons, pending,
                   writer, consumed, pstats, driver, error>>
  BY DEF TryForward, fwdVars, taskVars, outcomeVars, writerVars, driverVars
<1>a. /\ stage[r] = "new" /\ stage' \in [Requests -> Stages]
      /\ \A q \in Requests \ {r} : stage'[q] = stage[q]
      /\ stats' \in [Statuses \cup {"accepted", "backpressure", "dropped"} -> Nat]
      /\ \/ /\ queueOpen /\ queue' \in Seq(Requests) /\ NoDup(queue')
            /\ Items(queue') = Items(queue) \cup {r}
            /\ uncounted' = uncounted \cup {r} /\ stage'[r] = "queue"
         \/ queue' = queue /\ uncounted' = uncounted /\ stage'[r] = "refused"
  <2>1. stage[r] = "new" /\ r \notin Items(queue) /\ NoDup(queue)
    BY DEF TryForward, PlaceInv
  <2>2. /\ Append(queue, r) \in Seq(Requests) /\ NoDup(Append(queue, r))
        /\ Items(Append(queue, r)) = Items(queue) \cup {r}
    BY <1>t, <2>1, AppendItems
  <2>3. \/ /\ queueOpen /\ queue' = Append(queue, r)
           /\ uncounted' = uncounted \cup {r} /\ Move(r, "queue") /\ stats' = stats
        \/ /\ Move(r, "refused") /\ queue' = queue /\ uncounted' = uncounted
           /\ stats' \in {stats, Count(stats, "backpressure")}
    BY DEF TryForward
  <2>4. stats' \in [Statuses \cup {"accepted", "backpressure", "dropped"} -> Nat]
    <3>1. /\ stats \in [Statuses \cup {"accepted", "backpressure", "dropped"} -> Nat]
          /\ "backpressure" \in Statuses \cup {"accepted", "backpressure", "dropped"}
      BY DEF TypeOK
    <3>2. Count(stats, "backpressure")
            \in [Statuses \cup {"accepted", "backpressure", "dropped"} -> Nat]
      BY <3>1, CountType
    <3> QED
      BY <2>3, <3>1, <3>2
  <2> QED
    BY <1>t, <2>1, <2>2, <2>3, <2>4, MoveType, StatNames
<1>1. TypeOK'
  <2>1. queue' \in Seq(Requests) /\ uncounted' \subseteq Requests
    BY <1>t, <1>a DEF TypeOK
  <2> QED
    BY <1>u, <1>a, <2>1 DEF TypeOK, Stages
<1>2. PlaceInv'
  BY <1>t, <1>u, <1>a, SMTT(30) DEF TypeOK, PlaceInv
<1>3. ResultInv'
  BY <1>t, <1>u, <1>a DEF TypeOK, PlaceInv, ResultInv
<1>4. TaskInv'
  BY <1>t, <1>u, <1>a DEF TypeOK, PlaceInv, TaskInv, Signalled, Lost
<1>5. Permits'
  BY <1>t, <1>u, <1>a DEF Permits
<1> QED
  BY <1>1, <1>2, <1>3, <1>4, <1>5

\* RecordAcceptance preserves the invariant.
LEMMA RecordAcceptanceKeeps ==
  ASSUME SafeInv, NEW r \in Requests, RecordAcceptance(r)
  PROVE  SafeInv'
<1> USE DeliveryAssumption DEF SafeInv
<1>t. /\ stage \in [Requests -> Stages] /\ queue \in Seq(Requests)
      /\ outcomes \in Seq(Requests) /\ pending \in Seq(Requests)
  BY DEF TypeOK, Stages
<1>u. UNCHANGED <<storage, stage, calls, result, row, queue, queueOpen,
                   fwd, held, tasks, sent, permits, outcomes, outcomesOpen,
                   cons, pending, writer, consumed, pstats, driver, error>>
  BY DEF RecordAcceptance, fwdVars, taskVars, outcomeVars, writerVars, driverVars
<1>a. /\ uncounted' = uncounted \ {r}
      /\ stats' \in [Statuses \cup {"accepted", "backpressure", "dropped"} -> Nat]
  BY CountType DEF RecordAcceptance, TypeOK
<1>1. TypeOK'
  BY <1>t, <1>u, <1>a DEF TypeOK, Stages
<1>2. PlaceInv'
  BY <1>t, <1>u, <1>a DEF TypeOK, PlaceInv
<1>3. ResultInv'
  BY <1>t, <1>u, <1>a DEF TypeOK, PlaceInv, ResultInv
<1>4. TaskInv'
  BY <1>t, <1>u, <1>a DEF TypeOK, PlaceInv, TaskInv, Signalled, Lost
<1>5. Permits'
  BY <1>t, <1>u, <1>a DEF Permits
<1> QED
  BY <1>1, <1>2, <1>3, <1>4, <1>5

\* FwdReceive preserves the invariant.
LEMMA FwdReceiveKeeps ==
  ASSUME SafeInv, FwdReceive
  PROVE  SafeInv'
<1> USE DeliveryAssumption DEF SafeInv
<1>t. /\ stage \in [Requests -> Stages] /\ queue \in Seq(Requests)
      /\ outcomes \in Seq(Requests) /\ pending \in Seq(Requests)
  BY DEF TypeOK, Stages
<1>u. UNCHANGED <<storage, calls, result, row, uncounted, queueOpen, tasks,
                   sent, permits, outcomes, outcomesOpen, cons, pending,
                   writer, stats, consumed, pstats, driver, error>>
  BY DEF FwdReceive, fwdVars, taskVars, outcomeVars, writerVars, driverVars
<1>a. /\ Head(queue) \in Requests /\ queue' \in Seq(Requests) /\ NoDup(queue')
      /\ Items(queue) = {Head(queue)} \cup Items(queue')
      /\ Head(queue) \notin Items(queue') /\ queue # <<>>
      /\ held' = Head(queue) /\ stage'[Head(queue)] = "held"
      /\ stage' \in [Requests -> Stages]
      /\ \A q \in Requests \ {Head(queue)} : stage'[q] = stage[q]
      /\ \/ fwd = "select" /\ fwd' = "permit"
         \/ fwd = "drain" /\ fwd' = "drainPermit"
  <2>1. queue # <<>> /\ queue' = Tail(queue) /\ Move(Head(queue), "held")
    BY DEF FwdReceive
  <2>2. NoDup(queue)
    BY DEF PlaceInv
  <2>3. /\ Head(queue) \in Requests /\ queue' \in Seq(Requests) /\ NoDup(queue')
        /\ Items(queue) = {Head(queue)} \cup Items(queue')
        /\ Head(queue) \notin Items(queue')
    BY <1>t, <2>1, <2>2, TailItems
  <2>4. /\ stage' \in [Requests -> Stages] /\ stage'[Head(queue)] = "held"
        /\ \A q \in Requests \ {Head(queue)} : stage'[q] = stage[q]
    BY <1>t, <2>1, <2>3, MoveType, StatNames
  <2> QED
    BY <2>1, <2>3, <2>4 DEF FwdReceive
<1>1. TypeOK'
  BY <1>t, <1>u, <1>a, SMTT(30) DEF TypeOK, Stages
<1>2. PlaceInv'
  BY <1>t, <1>u, <1>a DEF TypeOK, PlaceInv
<1>3. ResultInv'
  BY <1>t, <1>u, <1>a DEF TypeOK, PlaceInv, ResultInv
<1>4. TaskInv'
  BY <1>t, <1>u, <1>a DEF TypeOK, PlaceInv, TaskInv, Signalled, Lost
<1>5. Permits'
  BY <1>t, <1>u, <1>a DEF Permits
<1> QED
  BY <1>1, <1>2, <1>3, <1>4, <1>5

\* FwdSpawn preserves the invariant.
LEMMA FwdSpawnKeeps ==
  ASSUME SafeInv, FwdSpawn
  PROVE  SafeInv'
<1> USE DeliveryAssumption DEF SafeInv
<1>t. /\ stage \in [Requests -> Stages] /\ queue \in Seq(Requests)
      /\ outcomes \in Seq(Requests) /\ pending \in Seq(Requests)
  BY DEF TypeOK, Stages
<1>u. UNCHANGED <<storage, calls, result, row, uncounted, queue, queueOpen,
                   sent, outcomes, outcomesOpen, cons, pending, writer,
                   stats, consumed, pstats, driver, error>>
  BY DEF FwdSpawn, fwdVars, taskVars, outcomeVars, writerVars, driverVars
<1>a. /\ held \in Requests /\ held' = None /\ tasks' = tasks \cup {held}
      /\ held \notin tasks /\ held \notin sent /\ permits > 0 /\ permits' = permits - 1
      /\ stage[held] = "held" /\ stage'[held] = "task"
      /\ stage' \in [Requests -> Stages]
      /\ \A q \in Requests \ {held} : stage'[q] = stage[q]
      /\ \/ fwd = "permit" /\ fwd' = "select"
         \/ fwd = "drainPermit" /\ fwd' = "drain"
  <2>1. held \in Requests /\ held \notin tasks /\ held \notin sent /\ stage[held] = "held"
    BY DEF FwdSpawn, TypeOK, PlaceInv
  <2> QED
    BY <1>t, <2>1, MoveType, StatNames DEF FwdSpawn
<1>p. Permits' /\ permits' \in 0..MaxInFlight
  <2>1. IsFiniteSet(tasks)
    BY FS_Subset DEF TypeOK
  <2> QED
    <3>1. Cardinality(tasks') = Cardinality(tasks) + 1 /\ Cardinality(tasks) \in Nat
      BY <1>a, <2>1, FS_AddElement, FS_CardinalityType
    <3> QED
      BY <1>a, <3>1 DEF Permits, TypeOK
<1>1. TypeOK'
  BY <1>t, <1>u, <1>a, <1>p DEF TypeOK, Stages
<1>2. PlaceInv'
  BY <1>t, <1>u, <1>a, <1>p DEF TypeOK, PlaceInv
<1>3. ResultInv'
  BY <1>t, <1>u, <1>a, <1>p DEF TypeOK, PlaceInv, ResultInv
<1>4. TaskInv'
  BY <1>t, <1>u, <1>a, <1>p DEF TypeOK, PlaceInv, TaskInv, Signalled, Lost
<1>5. Permits'
  BY <1>p
<1> QED
  BY <1>1, <1>2, <1>3, <1>4, <1>5

\* FwdSeesShutdown preserves the invariant.
LEMMA FwdSeesShutdownKeeps ==
  ASSUME SafeInv, FwdSeesShutdown
  PROVE  SafeInv'
<1> USE DeliveryAssumption DEF SafeInv
<1>t. /\ stage \in [Requests -> Stages] /\ queue \in Seq(Requests)
      /\ outcomes \in Seq(Requests) /\ pending \in Seq(Requests)
  BY DEF TypeOK, Stages
<1>u. UNCHANGED <<storage, stage, calls, result, row, uncounted, queue,
                   held, tasks, sent, permits, outcomes, outcomesOpen, cons,
                   pending, writer, stats, consumed, pstats, driver, error>>
  BY DEF FwdSeesShutdown, fwdVars, taskVars, outcomeVars, writerVars, driverVars
<1> USE DEF FwdSeesShutdown
<1>1. TypeOK'
  BY <1>t, <1>u DEF TypeOK, Stages
<1>2. PlaceInv'
  BY <1>t, <1>u DEF TypeOK, PlaceInv
<1>3. ResultInv'
  BY <1>t, <1>u DEF TypeOK, PlaceInv, ResultInv
<1>4. TaskInv'
  BY <1>t, <1>u DEF TypeOK, PlaceInv, TaskInv, Signalled, Lost
<1>5. Permits'
  BY <1>t, <1>u DEF Permits
<1> QED
  BY <1>1, <1>2, <1>3, <1>4, <1>5

\* FwdExits preserves the invariant.
LEMMA FwdExitsKeeps ==
  ASSUME SafeInv, FwdExits
  PROVE  SafeInv'
<1> USE DeliveryAssumption DEF SafeInv
<1>t. /\ stage \in [Requests -> Stages] /\ queue \in Seq(Requests)
      /\ outcomes \in Seq(Requests) /\ pending \in Seq(Requests)
  BY DEF TypeOK, Stages
<1>u. UNCHANGED <<storage, stage, calls, result, row, uncounted, queue,
                   queueOpen, held, tasks, sent, permits, outcomes,
                   outcomesOpen, cons, pending, writer, stats, consumed,
                   pstats, driver, error>>
  BY DEF FwdExits, fwdVars, taskVars, outcomeVars, writerVars, driverVars
<1> USE DEF FwdExits
<1>1. TypeOK'
  BY <1>t, <1>u DEF TypeOK, Stages
<1>2. PlaceInv'
  BY <1>t, <1>u DEF TypeOK, PlaceInv
<1>3. ResultInv'
  BY <1>t, <1>u DEF TypeOK, PlaceInv, ResultInv
<1>4. TaskInv'
  BY <1>t, <1>u DEF TypeOK, PlaceInv, TaskInv, Signalled, Lost
<1>5. Permits'
  BY <1>t, <1>u DEF Permits
<1> QED
  BY <1>1, <1>2, <1>3, <1>4, <1>5

\* DrainTimeout preserves the invariant.
LEMMA DrainTimeoutKeeps ==
  ASSUME SafeInv, DrainTimeout
  PROVE  SafeInv'
<1> USE DeliveryAssumption DEF SafeInv
<1>t. /\ stage \in [Requests -> Stages] /\ queue \in Seq(Requests)
      /\ outcomes \in Seq(Requests) /\ pending \in Seq(Requests)
  BY DEF TypeOK, Stages
<1>u. UNCHANGED <<storage, calls, result, row, uncounted, queueOpen, tasks,
                   sent, permits, outcomes, outcomesOpen, cons, pending,
                   writer, stats, consumed, pstats, driver, error>>
  BY DEF DrainTimeout, fwdVars, taskVars, outcomeVars, writerVars, driverVars
<1>a. /\ stage' \in [Requests -> Stages]
      /\ \A q \in Requests : stage'[q] = IF q \in Items(queue) \cup Holding THEN "lost" ELSE stage[q]
      /\ queue' = <<>> /\ Items(queue') = {} /\ NoDup(queue') /\ held' = None
      /\ fwd \in {"drain", "drainPermit"} /\ fwd' = "abort"
  <2>1. Drop(Items(queue) \cup Holding, "lost")
    BY DEF DrainTimeout
  <2> QED
    BY <1>t, <2>1, DropType, StatNames, NoItems DEF DrainTimeout
<1>1. TypeOK'
  BY <1>t, <1>u, <1>a DEF TypeOK, Stages
<1>2. PlaceInv'
  BY <1>t, <1>u, <1>a DEF TypeOK, PlaceInv, Holding
<1>3. ResultInv'
  BY <1>t, <1>u, <1>a DEF TypeOK, PlaceInv, ResultInv, Holding
<1>4. TaskInv'
  BY <1>t, <1>u, <1>a DEF TypeOK, PlaceInv, TaskInv, Signalled, Lost, Holding
<1>5. Permits'
  BY <1>t, <1>u, <1>a DEF Permits
<1> QED
  BY <1>1, <1>2, <1>3, <1>4, <1>5

\* AbortDone preserves the invariant.
LEMMA AbortDoneKeeps ==
  ASSUME SafeInv, AbortDone
  PROVE  SafeInv'
<1> USE DeliveryAssumption DEF SafeInv
<1>t. /\ stage \in [Requests -> Stages] /\ queue \in Seq(Requests)
      /\ outcomes \in Seq(Requests) /\ pending \in Seq(Requests)
  BY DEF TypeOK, Stages
<1>u. UNCHANGED <<storage, stage, calls, result, row, uncounted, queue,
                   queueOpen, held, tasks, sent, permits, outcomes,
                   outcomesOpen, cons, pending, writer, stats, consumed,
                   pstats, driver, error>>
  BY DEF AbortDone, fwdVars, taskVars, outcomeVars, writerVars, driverVars
<1> USE DEF AbortDone
<1>1. TypeOK'
  BY <1>t, <1>u DEF TypeOK, Stages
<1>2. PlaceInv'
  BY <1>t, <1>u DEF TypeOK, PlaceInv
<1>3. ResultInv'
  BY <1>t, <1>u DEF TypeOK, PlaceInv, ResultInv
<1>4. TaskInv'
  BY <1>t, <1>u DEF TypeOK, PlaceInv, TaskInv, Signalled, Lost
<1>5. Permits'
  BY <1>t, <1>u DEF Permits
<1> QED
  BY <1>1, <1>2, <1>3, <1>4, <1>5

\* TaskSend preserves the invariant.
LEMMA TaskSendKeeps ==
  ASSUME SafeInv, NEW r \in Requests, TaskSend(r)
  PROVE  SafeInv'
<1> USE DeliveryAssumption DEF SafeInv
<1>t. /\ stage \in [Requests -> Stages] /\ queue \in Seq(Requests)
      /\ outcomes \in Seq(Requests) /\ pending \in Seq(Requests)
  BY DEF TypeOK, Stages
<1>u. UNCHANGED <<storage, stage, result, row, uncounted, queue, queueOpen,
                   fwd, held, tasks, permits, outcomes, outcomesOpen, cons,
                   pending, writer, stats, consumed, pstats, driver, error>>
  BY DEF TaskSend, fwdVars, taskVars, outcomeVars, writerVars, driverVars
<1> USE DEF TaskSend
<1>1. TypeOK'
  BY <1>t, <1>u, SMTT(30) DEF TypeOK, Stages
<1>2. PlaceInv'
  BY <1>t, <1>u DEF TypeOK, PlaceInv
<1>3. ResultInv'
  BY <1>t, <1>u DEF TypeOK, PlaceInv, ResultInv
<1>4. TaskInv'
  BY <1>t, <1>u, SMTT(30) DEF TypeOK, PlaceInv, TaskInv, Signalled, Lost
<1>5. Permits'
  BY <1>t, <1>u DEF Permits
<1> QED
  BY <1>1, <1>2, <1>3, <1>4, <1>5

\* TaskEnd preserves the invariant.
LEMMA TaskEndKeeps ==
  ASSUME SafeInv, NEW r \in Requests, TaskEnd(r)
  PROVE  SafeInv'
<1> USE DeliveryAssumption DEF SafeInv
<1>t. /\ stage \in [Requests -> Stages] /\ queue \in Seq(Requests)
      /\ outcomes \in Seq(Requests) /\ pending \in Seq(Requests)
  BY DEF TypeOK, Stages
<1>u. UNCHANGED <<storage, calls, row, uncounted, queue, queueOpen, fwd,
                   held, outcomesOpen, cons, pending, writer, consumed,
                   pstats, driver, error>>
  BY DEF TaskEnd, fwdVars, taskVars, outcomeVars, writerVars, driverVars
<1>a. /\ r \in tasks /\ stage[r] = "task" /\ tasks' = tasks \ {r} /\ sent' = sent \ {r}
      /\ permits' = permits + 1 /\ stage' \in [Requests -> Stages]
      /\ \A q \in Requests \ {r} : stage'[q] = stage[q]
      /\ stats' \in [Statuses \cup {"accepted", "backpressure", "dropped"} -> Nat]
      /\ result' \in [Requests -> Statuses \cup {None}]
      /\ \A q \in Requests \ {r} : result'[q] = result[q]
      /\ result'[r] = "answered" => r \in sent
      /\ \/ /\ stage'[r] = "outcome" /\ outcomesOpen
            /\ outcomes' \in Seq(Requests) /\ NoDup(outcomes')
            /\ Items(outcomes') = Items(outcomes) \cup {r}
         \/ stage'[r] = "unreported" /\ outcomes' = outcomes
  <2>1. PICK status \in Statuses :
          (status = "answered" => r \in sent) /\ ReportOutcome(r, status)
    BY DEF TaskEnd
  <2>2. r \in tasks /\ stage[r] = "task" /\ r \notin Items(outcomes) /\ NoDup(outcomes)
    BY DEF TaskEnd, PlaceInv
  <2>3. /\ Append(outcomes, r) \in Seq(Requests) /\ NoDup(Append(outcomes, r))
        /\ Items(Append(outcomes, r)) = Items(outcomes) \cup {r}
    BY <1>t, <2>2, AppendItems
  <2>4. stats' \in [Statuses \cup {"accepted", "backpressure", "dropped"} -> Nat]
    <3>1. Count(stats, status) \in [Statuses \cup {"accepted", "backpressure", "dropped"} -> Nat]
      BY CountType DEF TypeOK
    <3>2. Count(Count(stats, status), "dropped")
            \in [Statuses \cup {"accepted", "backpressure", "dropped"} -> Nat]
      BY <3>1, CountType
    <3> QED
      BY <2>1, <3>1, <3>2 DEF ReportOutcome
  <2>5. /\ result' \in [Requests -> Statuses \cup {None}] /\ result'[r] = status
        /\ \A q \in Requests \ {r} : result'[q] = result[q]
    BY <2>1 DEF ReportOutcome, TypeOK
  <2>6. \/ outcomesOpen /\ outcomes' = Append(outcomes, r) /\ Move(r, "outcome")
        \/ outcomes' = outcomes /\ Move(r, "unreported")
    BY <2>1 DEF ReportOutcome
  <2>7. tasks' = tasks \ {r} /\ sent' = sent \ {r} /\ permits' = permits + 1
    BY DEF TaskEnd, ReleaseTask
  <2>8. /\ stage' \in [Requests -> Stages]
        /\ \A q \in Requests \ {r} : stage'[q] = stage[q]
        /\ \/ outcomesOpen /\ outcomes' = Append(outcomes, r) /\ stage'[r] = "outcome"
           \/ outcomes' = outcomes /\ stage'[r] = "unreported"
    BY <1>t, <2>6, MoveType, StatNames
  <2>9. \/ /\ stage'[r] = "outcome" /\ outcomesOpen
           /\ outcomes' \in Seq(Requests) /\ NoDup(outcomes')
           /\ Items(outcomes') = Items(outcomes) \cup {r}
        \/ stage'[r] = "unreported" /\ outcomes' = outcomes
    BY <2>3, <2>8
  <2>10. result'[r] = "answered" => r \in sent
    BY <2>1, <2>5
  <2> QED
    BY <2>2, <2>4, <2>5, <2>7, <2>8, <2>9, <2>10
<1>p. Permits' /\ permits' \in 0..MaxInFlight
  <2>1. IsFiniteSet(tasks)
    BY FS_Subset DEF TypeOK
  <2> QED
    <3>1. /\ Cardinality(tasks') = Cardinality(tasks) - 1
          /\ Cardinality(tasks) \in Nat /\ Cardinality(tasks') \in Nat
      BY <1>a, <2>1, FS_RemoveElement, FS_CardinalityType
    <3>2. permits' = permits + 1 /\ permits \in 0..MaxInFlight
      BY <1>a DEF TypeOK
    <3> QED
      BY <3>1, <3>2 DEF Permits
<1>1. TypeOK'
  BY <1>t, <1>u, <1>a, <1>p DEF TypeOK, Stages
<1>2. PlaceInv'
  BY <1>t, <1>u, <1>a, <1>p DEF TypeOK, PlaceInv
<1>3. ResultInv'
  BY <1>t, <1>u, <1>a, <1>p, SMTT(30) DEF TypeOK, PlaceInv, ResultInv
<1>4. TaskInv'
  BY <1>t, <1>u, <1>a, <1>p DEF TypeOK, PlaceInv, TaskInv, Signalled, Lost
<1>5. Permits'
  BY <1>p
<1> QED
  BY <1>1, <1>2, <1>3, <1>4, <1>5

\* TaskAborted preserves the invariant.
LEMMA TaskAbortedKeeps ==
  ASSUME SafeInv, NEW r \in Requests, TaskAborted(r)
  PROVE  SafeInv'
<1> USE DeliveryAssumption DEF SafeInv
<1>t. /\ stage \in [Requests -> Stages] /\ queue \in Seq(Requests)
      /\ outcomes \in Seq(Requests) /\ pending \in Seq(Requests)
  BY DEF TypeOK, Stages
<1>u. UNCHANGED <<storage, calls, result, row, uncounted, queue, queueOpen,
                   fwd, held, outcomes, outcomesOpen, cons, pending, writer,
                   consumed, pstats, driver, error>>
  BY DEF TaskAborted, fwdVars, taskVars, outcomeVars, writerVars, driverVars
<1>a. /\ r \in tasks /\ stage[r] = "task" /\ tasks' = tasks \ {r} /\ sent' = sent \ {r}
      /\ permits' = permits + 1 /\ stage' \in [Requests -> Stages]
      /\ \A q \in Requests \ {r} : stage'[q] = stage[q]
      /\ stats' \in [Statuses \cup {"accepted", "backpressure", "dropped"} -> Nat]
      /\ stage'[r] \in {"aborted", "vanished"} /\ fwd \in {"abort", "exited"}
  <2>1. r \in tasks /\ stage[r] = "task"
    BY DEF TaskAborted, PlaceInv
  <2>2. stats' \in [Statuses \cup {"accepted", "backpressure", "dropped"} -> Nat]
    <3>1. /\ stats \in [Statuses \cup {"accepted", "backpressure", "dropped"} -> Nat]
          /\ "failed" \in Statuses \cup {"accepted", "backpressure", "dropped"}
      BY DEF TypeOK, Statuses
    <3> QED
      BY <3>1, CountType DEF TaskAborted
  <2>3. tasks' = tasks \ {r} /\ sent' = sent \ {r} /\ permits' = permits + 1
    BY DEF TaskAborted, ReleaseTask
  <2> QED
    BY <1>t, <2>1, <2>2, <2>3, MoveType, StatNames DEF TaskAborted
<1>p. Permits' /\ permits' \in 0..MaxInFlight
  <2>1. IsFiniteSet(tasks)
    BY FS_Subset DEF TypeOK
  <2> QED
    <3>1. /\ Cardinality(tasks') = Cardinality(tasks) - 1
          /\ Cardinality(tasks) \in Nat /\ Cardinality(tasks') \in Nat
      BY <1>a, <2>1, FS_RemoveElement, FS_CardinalityType
    <3>2. permits' = permits + 1 /\ permits \in 0..MaxInFlight
      BY <1>a DEF TypeOK
    <3> QED
      BY <3>1, <3>2 DEF Permits
<1>1. TypeOK'
  BY <1>t, <1>u, <1>a, <1>p DEF TypeOK, Stages
<1>2. PlaceInv'
  BY <1>t, <1>u, <1>a, <1>p DEF TypeOK, PlaceInv
<1>3. ResultInv'
  BY <1>t, <1>u, <1>a, <1>p DEF TypeOK, PlaceInv, ResultInv
<1>4. TaskInv'
  BY <1>t, <1>u, <1>a, <1>p DEF TypeOK, PlaceInv, TaskInv, Signalled, Lost
<1>5. Permits'
  BY <1>p
<1> QED
  BY <1>1, <1>2, <1>3, <1>4, <1>5

\* ConsReceive preserves the invariant.
LEMMA ConsReceiveKeeps ==
  ASSUME SafeInv, ConsReceive
  PROVE  SafeInv'
<1> USE DeliveryAssumption DEF SafeInv
<1>t. /\ stage \in [Requests -> Stages] /\ queue \in Seq(Requests)
      /\ outcomes \in Seq(Requests) /\ pending \in Seq(Requests)
  BY DEF TypeOK, Stages
<1>u. UNCHANGED <<storage, calls, result, row, uncounted, queue, queueOpen,
                   fwd, held, tasks, sent, permits, outcomesOpen, writer,
                   stats, driver, error>>
  BY DEF ConsReceive, fwdVars, taskVars, outcomeVars, writerVars, driverVars
<1>a. /\ Head(outcomes) \in Requests /\ outcomes' \in Seq(Requests) /\ NoDup(outcomes')
      /\ Items(outcomes) = {Head(outcomes)} \cup Items(outcomes')
      /\ Head(outcomes) \notin Items(outcomes') /\ cons = "select"
      /\ stage' \in [Requests -> Stages]
      /\ \A q \in Requests \ {Head(outcomes)} : stage'[q] = stage[q]
      /\ pstats' \in [{"enqueued", "full", "ok", "failed", "timeout"} -> Nat]
      /\ consumed' \in Nat
      /\ \/ /\ storage /\ cons' = "count" /\ stage'[Head(outcomes)] = "pending"
            /\ pending' \in Seq(Requests) /\ NoDup(pending')
            /\ Items(pending') = Items(pending) \cup {Head(outcomes)}
         \/ /\ cons' = cons /\ pending' = pending
            /\ stage'[Head(outcomes)] = "unsaved"
  <2> DEFINE r == Head(outcomes)
  <2>1. /\ outcomes # <<>> /\ outcomes' = Tail(outcomes) /\ SaveOutcome(r)
        /\ cons = "select" /\ consumed' = consumed + 1
    BY DEF ConsReceive
  <2>2. NoDup(outcomes) /\ NoDup(pending)
    BY DEF PlaceInv
  <2>3. /\ r \in Requests /\ Tail(outcomes) \in Seq(Requests) /\ NoDup(Tail(outcomes))
        /\ Items(outcomes) = {r} \cup Items(Tail(outcomes))
        /\ r \notin Items(Tail(outcomes))
    BY <1>t, <2>1, <2>2, TailItems
  <2>4. stage[r] = "outcome" /\ r \notin Items(pending)
    BY <2>3 DEF PlaceInv
  <2>5. /\ Append(pending, r) \in Seq(Requests) /\ NoDup(Append(pending, r))
        /\ Items(Append(pending, r)) = Items(pending) \cup {r}
    BY <1>t, <2>2, <2>3, <2>4, AppendItems
  <2>6. \/ /\ storage /\ cons' = "count" /\ Move(r, "pending")
           /\ pending' = Append(pending, r) /\ pstats' = pstats
        \/ /\ cons' = cons /\ pending' = pending /\ Move(r, "unsaved")
           /\ pstats' \in {pstats, Count(pstats, "full")}
    BY <2>1 DEF SaveOutcome
  <2>7. /\ pstats' \in [{"enqueued", "full", "ok", "failed", "timeout"} -> Nat]
        /\ consumed' \in Nat
    <3>1. /\ pstats \in [{"enqueued", "full", "ok", "failed", "timeout"} -> Nat]
          /\ "full" \in {"enqueued", "full", "ok", "failed", "timeout"}
      BY DEF TypeOK
    <3>2. Count(pstats, "full") \in [{"enqueued", "full", "ok", "failed", "timeout"} -> Nat]
      BY <3>1, CountType
    <3> QED
      BY <2>1, <2>6, <3>1, <3>2, SMTT(30) DEF TypeOK
  <2> QED
    BY <1>t, <2>1, <2>3, <2>5, <2>6, <2>7, MoveType, StatNames
<1>1. TypeOK'
  <2>1. cons' \in {"select", "count", "exited"} /\ pending' \in Seq(Requests)
    BY <1>t, <1>a
  <2> QED
    BY <1>u, <1>a, <2>1, ZenonT(40) DEF TypeOK, Stages
<1>2. PlaceInv'
  <2>1. ASSUME NEW q \in Requests
        PROVE  /\ q \in Items(queue') <=> stage'[q] = "queue"
               /\ q = held' <=> stage'[q] = "held"
               /\ q \in tasks' <=> stage'[q] = "task"
               /\ q \in Items(outcomes') <=> stage'[q] = "outcome"
               /\ q \in Items(pending') <=> stage'[q] = "pending"
               /\ q \in uncounted' => stage'[q] \notin {"new", "refused"}
    BY <1>t, <1>u, <1>a DEF PlaceInv
  <2>2. ASSUME NEW q \in Requests
        PROVE  (\E v \in Writers : writer'[v] = q) <=> stage'[q] = "writing"
    BY <1>t, <1>u, <1>a DEF PlaceInv
  <2>3. \A v, x \in Writers : writer'[v] = writer'[x] /\ writer'[v] \in Requests => v = x
    BY <1>t, <1>u, <1>a DEF PlaceInv
  <2>4. NoDup(queue') /\ NoDup(outcomes') /\ NoDup(pending')
    BY <1>u, <1>a DEF PlaceInv
  <2>5. fwd' \in {"permit", "drainPermit"} <=> held' # None
    BY <1>u DEF PlaceInv
  <2> QED
    BY <2>1, <2>2, <2>3, <2>4, <2>5 DEF PlaceInv
<1>3. ResultInv'
  BY <1>t, <1>u, <1>a, ZenonT(40) DEF TypeOK, PlaceInv, ResultInv
<1>4. TaskInv'
  BY <1>t, <1>u, <1>a DEF TypeOK, PlaceInv, TaskInv, Signalled, Lost
<1>5. Permits'
  BY <1>t, <1>u, <1>a DEF Permits
<1> QED
  BY <1>1, <1>2, <1>3, <1>4, <1>5

\* ConsCount preserves the invariant.
LEMMA ConsCountKeeps ==
  ASSUME SafeInv, ConsCount
  PROVE  SafeInv'
<1> USE DeliveryAssumption DEF SafeInv
<1>t. /\ stage \in [Requests -> Stages] /\ queue \in Seq(Requests)
      /\ outcomes \in Seq(Requests) /\ pending \in Seq(Requests)
  BY DEF TypeOK, Stages
<1>u. UNCHANGED <<storage, stage, calls, result, row, uncounted, queue,
                   queueOpen, fwd, held, tasks, sent, permits, outcomes,
                   outcomesOpen, pending, writer, stats, consumed, driver,
                   error>>
  BY DEF ConsCount, fwdVars, taskVars, outcomeVars, writerVars, driverVars
<1>a. /\ cons = "count" /\ cons' = "select"
      /\ pstats' \in [{"enqueued", "full", "ok", "failed", "timeout"} -> Nat]
  BY CountType DEF ConsCount, TypeOK
<1>1. TypeOK'
  BY <1>t, <1>u, <1>a, SMTT(30) DEF TypeOK, Stages
<1>2. PlaceInv'
  BY <1>t, <1>u, <1>a DEF TypeOK, PlaceInv
<1>3. ResultInv'
  BY <1>t, <1>u, <1>a DEF TypeOK, PlaceInv, ResultInv
<1>4. TaskInv'
  BY <1>t, <1>u, <1>a DEF TypeOK, PlaceInv, TaskInv, Signalled, Lost
<1>5. Permits'
  BY <1>t, <1>u, <1>a DEF Permits
<1> QED
  BY <1>1, <1>2, <1>3, <1>4, <1>5

\* ConsSeesShutdown preserves the invariant.
LEMMA ConsSeesShutdownKeeps ==
  ASSUME SafeInv, ConsSeesShutdown
  PROVE  SafeInv'
<1> USE DeliveryAssumption DEF SafeInv
<1>t. /\ stage \in [Requests -> Stages] /\ queue \in Seq(Requests)
      /\ outcomes \in Seq(Requests) /\ pending \in Seq(Requests)
  BY DEF TypeOK, Stages
<1>u. UNCHANGED <<storage, stage, calls, result, row, uncounted, queue,
                   queueOpen, fwd, held, tasks, sent, permits, outcomes,
                   cons, pending, writer, stats, consumed, pstats, driver,
                   error>>
  BY DEF ConsSeesShutdown, fwdVars, taskVars, outcomeVars, writerVars, driverVars
<1>o. outcomesOpen' \in BOOLEAN
  BY DEF ConsSeesShutdown
<1>1. TypeOK'
  BY <1>u, <1>o DEF TypeOK
<1> USE DEF ConsSeesShutdown
<1>2. PlaceInv'
  BY <1>t, <1>u DEF TypeOK, PlaceInv
<1>3. ResultInv'
  BY <1>t, <1>u DEF TypeOK, PlaceInv, ResultInv
<1>4. TaskInv'
  BY <1>t, <1>u DEF TypeOK, PlaceInv, TaskInv, Signalled, Lost
<1>5. Permits'
  BY <1>t, <1>u DEF Permits
<1> QED
  BY <1>1, <1>2, <1>3, <1>4, <1>5

\* ConsExits preserves the invariant.
LEMMA ConsExitsKeeps ==
  ASSUME SafeInv, ConsExits
  PROVE  SafeInv'
<1> USE DeliveryAssumption DEF SafeInv
<1>t. /\ stage \in [Requests -> Stages] /\ queue \in Seq(Requests)
      /\ outcomes \in Seq(Requests) /\ pending \in Seq(Requests)
  BY DEF TypeOK, Stages
<1>u. UNCHANGED <<storage, stage, calls, result, row, uncounted, queue,
                   queueOpen, fwd, held, tasks, sent, permits, outcomes,
                   outcomesOpen, pending, writer, stats, consumed, pstats,
                   driver, error>>
  BY DEF ConsExits, fwdVars, taskVars, outcomeVars, writerVars, driverVars
<1> USE DEF ConsExits
<1>1. TypeOK'
  BY <1>t, <1>u DEF TypeOK, Stages
<1>2. PlaceInv'
  BY <1>t, <1>u DEF TypeOK, PlaceInv
<1>3. ResultInv'
  BY <1>t, <1>u DEF TypeOK, PlaceInv, ResultInv
<1>4. TaskInv'
  BY <1>t, <1>u DEF TypeOK, PlaceInv, TaskInv, Signalled, Lost
<1>5. Permits'
  BY <1>t, <1>u DEF Permits
<1> QED
  BY <1>1, <1>2, <1>3, <1>4, <1>5

\* WriterReceive preserves the invariant.
LEMMA WriterReceiveKeeps ==
  ASSUME SafeInv, NEW w \in Writers, WriterReceive(w)
  PROVE  SafeInv'
<1> USE DeliveryAssumption DEF SafeInv
<1>t. /\ stage \in [Requests -> Stages] /\ queue \in Seq(Requests)
      /\ outcomes \in Seq(Requests) /\ pending \in Seq(Requests)
  BY DEF TypeOK, Stages
<1>u. UNCHANGED <<storage, calls, result, row, uncounted, queue, queueOpen,
                   fwd, held, tasks, sent, permits, outcomes, outcomesOpen,
                   cons, stats, consumed, pstats, driver, error>>
  BY DEF WriterReceive, fwdVars, taskVars, outcomeVars, writerVars, driverVars
<1>a. /\ Head(pending) \in Requests /\ pending' \in Seq(Requests) /\ NoDup(pending')
      /\ Items(pending) = {Head(pending)} \cup Items(pending') /\ pending # <<>>
      /\ Head(pending) \notin Items(pending') /\ stage'[Head(pending)] = "writing"
      /\ stage' \in [Requests -> Stages]
      /\ \A q \in Requests \ {Head(pending)} : stage'[q] = stage[q]
      /\ writer[w] = "idle" /\ writer' = [writer EXCEPT ![w] = Head(pending)]
      /\ writer \in [Writers -> Requests \cup {"idle", "exited"}]
  <2>1. /\ pending # <<>> /\ pending' = Tail(pending)
        /\ Move(Head(pending), "writing")
    BY DEF WriterReceive
  <2>2. NoDup(pending) /\ writer \in [Writers -> Requests \cup {"idle", "exited"}]
    BY DEF PlaceInv, TypeOK
  <2> QED
    BY <1>t, <2>1, <2>2, TailItems, MoveType, StatNames DEF WriterReceive
<1>1. TypeOK'
  BY <1>t, <1>u, <1>a, SMTT(30) DEF TypeOK, Stages
<1>2. PlaceInv'
  <2>w. /\ writer'[w] = Head(pending) /\ \A v \in Writers \ {w} : writer'[v] = writer[v]
        /\ stage[Head(pending)] = "pending"
    BY <1>a DEF PlaceInv
  <2>1. ASSUME NEW q \in Requests
        PROVE  /\ q \in Items(queue') <=> stage'[q] = "queue"
               /\ q = held' <=> stage'[q] = "held"
               /\ q \in tasks' <=> stage'[q] = "task"
               /\ q \in Items(outcomes') <=> stage'[q] = "outcome"
               /\ q \in Items(pending') <=> stage'[q] = "pending"
               /\ q \in uncounted' => stage'[q] \notin {"new", "refused"}
    BY <1>t, <1>u, <1>a DEF PlaceInv
  <2>2. ASSUME NEW q \in Requests
        PROVE  (\E v \in Writers : writer'[v] = q) <=> stage'[q] = "writing"
    BY <1>t, <1>u, <1>a, <2>w DEF PlaceInv
  <2>3. \A v, x \in Writers : writer'[v] = writer'[x] /\ writer'[v] \in Requests => v = x
    BY <1>t, <1>u, <1>a, <2>w DEF PlaceInv
  <2>4. NoDup(queue') /\ NoDup(outcomes') /\ NoDup(pending')
    BY <1>u, <1>a DEF PlaceInv
  <2>5. fwd' \in {"permit", "drainPermit"} <=> held' # None
    BY <1>u DEF PlaceInv
  <2> QED
    BY <2>1, <2>2, <2>3, <2>4, <2>5 DEF PlaceInv
<1>3. ResultInv'
  BY <1>t, <1>u, <1>a DEF TypeOK, PlaceInv, ResultInv
<1>4. TaskInv'
  BY <1>t, <1>u, <1>a, SMTT(30) DEF TypeOK, PlaceInv, TaskInv, Signalled, Lost
<1>5. Permits'
  BY <1>t, <1>u, <1>a DEF Permits
<1> QED
  BY <1>1, <1>2, <1>3, <1>4, <1>5

\* WriterEnds preserves the invariant.
LEMMA WriterEndsKeeps ==
  ASSUME SafeInv, NEW w \in Writers, WriterEnds(w)
  PROVE  SafeInv'
<1> USE DeliveryAssumption DEF SafeInv
<1>t. /\ stage \in [Requests -> Stages] /\ queue \in Seq(Requests)
      /\ outcomes \in Seq(Requests) /\ pending \in Seq(Requests)
  BY DEF TypeOK, Stages
<1>u. UNCHANGED <<storage, calls, result, uncounted, queue, queueOpen, fwd,
                   held, tasks, sent, permits, outcomes, outcomesOpen, cons,
                   pending, stats, consumed, driver, error>>
  BY DEF WriterEnds, fwdVars, taskVars, outcomeVars, writerVars, driverVars
<1>a. /\ writer[w] \in Requests /\ writer' = [writer EXCEPT ![w] = "idle"]
      /\ writer \in [Writers -> Requests \cup {"idle", "exited"}]
      /\ stage[writer[w]] = "writing" /\ stage'[writer[w]] = "done"
      /\ stage' \in [Requests -> Stages]
      /\ \A q \in Requests \ {writer[w]} : stage'[q] = stage[q] /\ row'[q] = row[q]
      /\ row' \in [Requests -> Statuses \cup {None}]
      /\ row'[writer[w]] \in {row[writer[w]], result[writer[w]]}
      /\ pstats' \in [{"enqueued", "full", "ok", "failed", "timeout"} -> Nat]
  <2>1. PICK c \in {"ok", "failed", "timeout"} :
          pstats' = Count(pstats, c) /\ WriteOutcome(writer[w], c)
    BY DEF WriterEnds
  <2>2. /\ writer[w] \in Requests /\ writer \in [Writers -> Requests \cup {"idle", "exited"}]
        /\ stage[writer[w]] = "writing"
    BY DEF WriterEnds, PlaceInv, TypeOK
  <2>3. /\ row' \in [Requests -> Statuses \cup {None}]
        /\ row'[writer[w]] \in {row[writer[w]], result[writer[w]]}
        /\ \A q \in Requests \ {writer[w]} : row'[q] = row[q]
    BY <2>1, <2>2, WriteType DEF TypeOK
  <2>4. pstats' \in [{"enqueued", "full", "ok", "failed", "timeout"} -> Nat]
    BY <2>1, CountType DEF TypeOK
  <2> QED
    BY <1>t, <2>2, <2>3, <2>4, MoveType, StatNames DEF WriterEnds
<1>1. TypeOK'
  BY <1>t, <1>u, <1>a, SMTT(30) DEF TypeOK, Stages
<1>2. PlaceInv'
  BY <1>t, <1>u, <1>a, SMTT(30) DEF TypeOK, PlaceInv
<1>3. ResultInv'
  <2>1. SUFFICES ASSUME NEW r \in Requests
                 PROVE  /\ stage'[r] \in {"new", "refused", "queue", "held"} => calls[r] = 0
                        /\ stage'[r] = "task" => calls[r] = IF r \in sent THEN 1 ELSE 0
                        /\ stage'[r] \in {"new", "refused", "queue", "held", "task"} =>
                             result[r] = None /\ row'[r] = None
                        /\ calls[r] <= 1
                        /\ row'[r] \in {None, result[r]}
                        /\ result[r] # None /\ result[r] = "answered" => calls[r] = 1
    BY <1>u DEF ResultInv
  <2>2. CASE r = writer[w]
    BY <1>a, <2>2 DEF ResultInv
  <2>3. CASE r # writer[w]
    BY <1>a, <2>3 DEF ResultInv
  <2> QED
    BY <2>2, <2>3
<1>4. TaskInv'
  <2>1. /\ writer'[w] = "idle" /\ \A v \in Writers \ {w} : writer'[v] = writer[v]
        /\ writer[w] # "exited" /\ "idle" # "exited"
    BY <1>a
  <2>2. \A r \in Requests : stage'[r] \in Lost => Signalled'
    BY <1>u, <1>a DEF TaskInv, Signalled, Lost
  <2> QED
    BY <1>u, <2>1, <2>2 DEF TaskInv, Signalled
<1>5. Permits'
  BY <1>t, <1>u, <1>a DEF Permits
<1> QED
  BY <1>1, <1>2, <1>3, <1>4, <1>5

\* WriterExits preserves the invariant.
LEMMA WriterExitsKeeps ==
  ASSUME SafeInv, NEW w \in Writers, WriterExits(w)
  PROVE  SafeInv'
<1> USE DeliveryAssumption DEF SafeInv
<1>t. /\ stage \in [Requests -> Stages] /\ queue \in Seq(Requests)
      /\ outcomes \in Seq(Requests) /\ pending \in Seq(Requests)
  BY DEF TypeOK, Stages
<1>u. UNCHANGED <<storage, stage, calls, result, row, uncounted, queue,
                   queueOpen, fwd, held, tasks, sent, permits, outcomes,
                   outcomesOpen, cons, pending, stats, consumed, pstats,
                   driver, error>>
  BY DEF WriterExits, fwdVars, taskVars, outcomeVars, writerVars, driverVars
<1> USE DEF WriterExits
<1>1. TypeOK'
  BY <1>t, <1>u DEF TypeOK, Stages
<1>2. PlaceInv'
  BY <1>t, <1>u DEF TypeOK, PlaceInv
<1>3. ResultInv'
  BY <1>t, <1>u DEF TypeOK, PlaceInv, ResultInv
<1>4. TaskInv'
  BY <1>t, <1>u DEF TypeOK, PlaceInv, TaskInv, Signalled, Lost
<1>5. Permits'
  BY <1>t, <1>u DEF Permits
<1> QED
  BY <1>1, <1>2, <1>3, <1>4, <1>5

\* ShutdownBegins preserves the invariant.
LEMMA ShutdownBeginsKeeps ==
  ASSUME SafeInv, ShutdownBegins
  PROVE  SafeInv'
<1> USE DeliveryAssumption DEF SafeInv
<1>t. /\ stage \in [Requests -> Stages] /\ queue \in Seq(Requests)
      /\ outcomes \in Seq(Requests) /\ pending \in Seq(Requests)
  BY DEF TypeOK, Stages
<1>u. UNCHANGED <<storage, stage, calls, result, row, uncounted, queue,
                   queueOpen, fwd, held, tasks, sent, permits, outcomes,
                   outcomesOpen, cons, pending, writer, stats, consumed,
                   pstats, error>>
  BY DEF ShutdownBegins, fwdVars, taskVars, outcomeVars, writerVars, driverVars
<1> USE DEF ShutdownBegins
<1>1. TypeOK'
  BY <1>t, <1>u DEF TypeOK, Stages
<1>2. PlaceInv'
  BY <1>t, <1>u DEF TypeOK, PlaceInv
<1>3. ResultInv'
  BY <1>t, <1>u DEF TypeOK, PlaceInv, ResultInv
<1>4. TaskInv'
  BY <1>t, <1>u DEF TypeOK, PlaceInv, TaskInv, Signalled, Lost
<1>5. Permits'
  BY <1>t, <1>u DEF Permits
<1> QED
  BY <1>1, <1>2, <1>3, <1>4, <1>5

\* JoinForwarder preserves the invariant.
LEMMA JoinForwarderKeeps ==
  ASSUME SafeInv, JoinForwarder
  PROVE  SafeInv'
<1> USE DeliveryAssumption DEF SafeInv
<1>t. /\ stage \in [Requests -> Stages] /\ queue \in Seq(Requests)
      /\ outcomes \in Seq(Requests) /\ pending \in Seq(Requests)
  BY DEF TypeOK, Stages
<1>u. UNCHANGED <<storage, stage, calls, result, row, uncounted, queue,
                   queueOpen, fwd, held, tasks, sent, permits, outcomes,
                   outcomesOpen, cons, pending, writer, stats, consumed,
                   pstats, error>>
  BY DEF JoinForwarder, fwdVars, taskVars, outcomeVars, writerVars, driverVars
<1> USE DEF JoinForwarder
<1>1. TypeOK'
  BY <1>t, <1>u DEF TypeOK, Stages
<1>2. PlaceInv'
  BY <1>t, <1>u DEF TypeOK, PlaceInv
<1>3. ResultInv'
  BY <1>t, <1>u DEF TypeOK, PlaceInv, ResultInv
<1>4. TaskInv'
  BY <1>t, <1>u DEF TypeOK, PlaceInv, TaskInv, Signalled, Lost
<1>5. Permits'
  BY <1>t, <1>u DEF Permits
<1> QED
  BY <1>1, <1>2, <1>3, <1>4, <1>5

\* AbortForwarder preserves the invariant.
LEMMA AbortForwarderKeeps ==
  ASSUME SafeInv, AbortForwarder
  PROVE  SafeInv'
<1> USE DeliveryAssumption DEF SafeInv
<1>t. /\ stage \in [Requests -> Stages] /\ queue \in Seq(Requests)
      /\ outcomes \in Seq(Requests) /\ pending \in Seq(Requests)
  BY DEF TypeOK, Stages
<1>u. UNCHANGED <<storage, calls, result, row, uncounted, tasks, sent,
                   permits, outcomes, outcomesOpen, cons, pending, writer,
                   stats, consumed, pstats>>
  BY DEF AbortForwarder, fwdVars, taskVars, outcomeVars, writerVars, driverVars
<1>a. /\ stage' \in [Requests -> Stages]
      /\ \A q \in Requests : stage'[q] = IF q \in Items(queue) \cup Holding THEN "lost" ELSE stage[q]
      /\ queue' = <<>> /\ Items(queue') = {} /\ NoDup(queue') /\ held' = None
      /\ queueOpen' = FALSE /\ fwd' = "exited" /\ error' = TRUE
      /\ driver = "joinForwarder" /\ driver' = "joinConsumer"
  <2>1. Drop(Items(queue) \cup Holding, "lost")
    BY DEF AbortForwarder
  <2> QED
    BY <1>t, <2>1, DropType, StatNames, NoItems DEF AbortForwarder
<1>1. TypeOK'
  <2>1. (stage \in [Requests -> Stages])'
    BY <1>t, <1>u, <1>a
  <2>2. (queue \in Seq(Requests))'
    BY <1>t, <1>u, <1>a
  <2>3. (queueOpen \in BOOLEAN /\ error \in BOOLEAN)'
    BY <1>t, <1>u, <1>a
  <2>4. (held \in Requests \cup {None})'
    BY <1>t, <1>u, <1>a
  <2> QED
    BY <2>1, <2>2, <2>3, <2>4, <1>t, <1>u, <1>a DEF TypeOK, Stages
<1>2. PlaceInv'
  BY <1>t, <1>u, <1>a DEF TypeOK, PlaceInv, Holding
<1>3. ResultInv'
  BY <1>t, <1>u, <1>a DEF TypeOK, PlaceInv, ResultInv, Holding
<1>4. TaskInv'
  BY <1>t, <1>u, <1>a DEF TypeOK, PlaceInv, TaskInv, Signalled, Lost, Holding
<1>5. Permits'
  BY <1>t, <1>u, <1>a DEF Permits
<1> QED
  BY <1>1, <1>2, <1>3, <1>4, <1>5

\* JoinConsumer preserves the invariant.
LEMMA JoinConsumerKeeps ==
  ASSUME SafeInv, JoinConsumer
  PROVE  SafeInv'
<1> USE DeliveryAssumption DEF SafeInv
<1>t. /\ stage \in [Requests -> Stages] /\ queue \in Seq(Requests)
      /\ outcomes \in Seq(Requests) /\ pending \in Seq(Requests)
  BY DEF TypeOK, Stages
<1>u. UNCHANGED <<storage, stage, calls, result, row, uncounted, queue,
                   queueOpen, fwd, held, tasks, sent, permits, outcomes,
                   outcomesOpen, cons, pending, writer, stats, consumed,
                   pstats, error>>
  BY DEF JoinConsumer, fwdVars, taskVars, outcomeVars, writerVars, driverVars
<1> USE DEF JoinConsumer
<1>1. TypeOK'
  BY <1>t, <1>u DEF TypeOK, Stages
<1>2. PlaceInv'
  BY <1>t, <1>u DEF TypeOK, PlaceInv
<1>3. ResultInv'
  BY <1>t, <1>u DEF TypeOK, PlaceInv, ResultInv
<1>4. TaskInv'
  BY <1>t, <1>u DEF TypeOK, PlaceInv, TaskInv, Signalled, Lost
<1>5. Permits'
  BY <1>t, <1>u DEF Permits
<1> QED
  BY <1>1, <1>2, <1>3, <1>4, <1>5

\* AbortConsumer preserves the invariant.
LEMMA AbortConsumerKeeps ==
  ASSUME SafeInv, AbortConsumer
  PROVE  SafeInv'
<1> USE DeliveryAssumption DEF SafeInv
<1>t. /\ stage \in [Requests -> Stages] /\ queue \in Seq(Requests)
      /\ outcomes \in Seq(Requests) /\ pending \in Seq(Requests)
  BY DEF TypeOK, Stages
<1>u. UNCHANGED <<storage, calls, result, row, uncounted, queue, queueOpen,
                   fwd, held, tasks, sent, permits, pending, writer, stats,
                   consumed, pstats>>
  BY DEF AbortConsumer, fwdVars, taskVars, outcomeVars, writerVars, driverVars
<1>a. /\ stage' \in [Requests -> Stages]
      /\ \A q \in Requests : stage'[q] = IF q \in Items(outcomes) THEN "discarded" ELSE stage[q]
      /\ outcomes' = <<>> /\ Items(outcomes') = {} /\ NoDup(outcomes')
      /\ outcomesOpen' = FALSE /\ cons = "select" /\ cons' = "exited" /\ error' = TRUE
      /\ driver = "joinConsumer" /\ driver' = "stopWriter"
  <2>1. Drop(Items(outcomes), "discarded")
    BY DEF AbortConsumer
  <2> QED
    BY <1>t, <2>1, DropType, StatNames, NoItems DEF AbortConsumer
<1>1. TypeOK'
  <2>1. (stage \in [Requests -> Stages])'
    BY <1>t, <1>u, <1>a
  <2>2. (outcomes \in Seq(Requests))'
    BY <1>t, <1>u, <1>a
  <2>3. (outcomesOpen \in BOOLEAN /\ error \in BOOLEAN)'
    BY <1>t, <1>u, <1>a
  <2> QED
    BY <2>1, <2>2, <2>3, <1>t, <1>u, <1>a DEF TypeOK, Stages
<1>2. PlaceInv'
  BY <1>t, <1>u, <1>a DEF TypeOK, PlaceInv
<1>3. ResultInv'
  BY <1>t, <1>u, <1>a DEF TypeOK, PlaceInv, ResultInv
<1>4. TaskInv'
  BY <1>t, <1>u, <1>a DEF TypeOK, PlaceInv, TaskInv, Signalled, Lost
<1>5. Permits'
  BY <1>t, <1>u, <1>a DEF Permits
<1> QED
  BY <1>1, <1>2, <1>3, <1>4, <1>5

\* JoinWriters preserves the invariant.
LEMMA JoinWritersKeeps ==
  ASSUME SafeInv, JoinWriters
  PROVE  SafeInv'
<1> USE DeliveryAssumption DEF SafeInv
<1>t. /\ stage \in [Requests -> Stages] /\ queue \in Seq(Requests)
      /\ outcomes \in Seq(Requests) /\ pending \in Seq(Requests)
  BY DEF TypeOK, Stages
<1>u. UNCHANGED <<storage, stage, calls, result, row, uncounted, queue,
                   queueOpen, fwd, held, tasks, sent, permits, outcomes,
                   outcomesOpen, cons, pending, writer, stats, consumed,
                   pstats, error>>
  BY DEF JoinWriters, fwdVars, taskVars, outcomeVars, writerVars, driverVars
<1> USE DEF JoinWriters
<1>1. TypeOK'
  BY <1>t, <1>u DEF TypeOK, Stages
<1>2. PlaceInv'
  BY <1>t, <1>u DEF TypeOK, PlaceInv
<1>3. ResultInv'
  BY <1>t, <1>u DEF TypeOK, PlaceInv, ResultInv
<1>4. TaskInv'
  BY <1>t, <1>u DEF TypeOK, PlaceInv, TaskInv, Signalled, Lost
<1>5. Permits'
  BY <1>t, <1>u DEF Permits
<1> QED
  BY <1>1, <1>2, <1>3, <1>4, <1>5

\* WriterTimeout preserves the invariant.
LEMMA WriterTimeoutKeeps ==
  ASSUME SafeInv, NEW w \in Writers, WriterTimeout(w)
  PROVE  SafeInv'
<1> USE DeliveryAssumption DEF SafeInv
<1>t. /\ stage \in [Requests -> Stages] /\ queue \in Seq(Requests)
      /\ outcomes \in Seq(Requests) /\ pending \in Seq(Requests)
  BY DEF TypeOK, Stages
<1>u. UNCHANGED <<storage, calls, result, uncounted, queue, queueOpen, fwd,
                   held, tasks, sent, permits, outcomes, outcomesOpen, cons,
                   stats, consumed, pstats>>
  BY DEF WriterTimeout, fwdVars, taskVars, outcomeVars, writerVars, driverVars
<1>a. /\ writer[w] # "exited" /\ writer' = [writer EXCEPT ![w] = "exited"]
      /\ writer \in [Writers -> Requests \cup {"idle", "exited"}]
      /\ stage' \in [Requests -> Stages]
      /\ row' \in [Requests -> Statuses \cup {None}]
      /\ \A q \in Requests : row'[q] \in {row[q], IF q = writer[w] THEN result[q] ELSE row[q]}
      /\ driver = "stopWriter" /\ driver' = "down" /\ error' = TRUE
      /\ pending' \in Seq(Requests)
      /\ \/ /\ pending' = <<>> /\ Items(pending') = {} /\ NoDup(pending')
            /\ \A q \in Requests : stage'[q] = IF q = writer[w] \/ q \in Items(pending)
                                               THEN "cutOff" ELSE stage[q]
         \/ /\ pending' = pending
            /\ \A q \in Requests : stage'[q] = IF q = writer[w] THEN "cutOff" ELSE stage[q]
  <2>1. /\ writer[w] # "exited" /\ writer \in [Writers -> Requests \cup {"idle", "exited"}]
        /\ AbortWriter(w)
    BY DEF WriterTimeout, TypeOK
  <2>2. \/ Drop({writer[w]} \cup Items(pending), "cutOff") /\ pending' = <<>>
        \/ Drop({writer[w]}, "cutOff") /\ pending' = pending
    BY <2>1 DEF AbortWriter
  <2>3. /\ row' \in [Requests -> Statuses \cup {None}]
        /\ \A q \in Requests : row'[q] \in {row[q], IF q = writer[w] THEN result[q] ELSE row[q]}
    <3>1. CASE writer[w] = "idle"
      BY <2>1, <3>1 DEF AbortWriter, TypeOK
    <3>2. CASE writer[w] # "idle"
      BY <2>1, <3>2, WriteType DEF AbortWriter, TypeOK
    <3> QED
      BY <3>1, <3>2
  <2>4. pending' \in Seq(Requests)
    <3>1. <<>> \in Seq(Requests)
      OBVIOUS
    <3>2. pending' = <<>> \/ pending' = pending
      BY <2>2
    <3> QED
      BY <1>t, <3>1, <3>2
  <2>5. \/ /\ pending' = <<>> /\ Items(pending') = {} /\ NoDup(pending')
           /\ \A q \in Requests : stage'[q] = IF q = writer[w] \/ q \in Items(pending)
                                              THEN "cutOff" ELSE stage[q]
        \/ /\ pending' = pending
           /\ \A q \in Requests : stage'[q] = IF q = writer[w] THEN "cutOff" ELSE stage[q]
    BY <1>t, <2>2, NoItems DEF Drop
  <2>6. stage' \in [Requests -> Stages]
    BY <1>t, <2>2, DropType, StatNames
  <2> QED
    BY <2>1, <2>3, <2>4, <2>5, <2>6 DEF WriterTimeout, AbortWriter
<1>1. TypeOK'
  <2>1. (stage \in [Requests -> Stages])'
    BY <1>t, <1>u, <1>a
  <2>2. (row \in [Requests -> Statuses \cup {None}])'
    BY <1>t, <1>u, <1>a
  <2>3. (pending \in Seq(Requests))'
    BY <1>t, <1>u, <1>a
  <2>4. (writer \in [Writers -> Requests \cup {"idle", "exited"}])'
    BY <1>t, <1>u, <1>a
  <2>5. (driver \in {"up", "joinForwarder", "joinConsumer", "stopWriter", "down"})'
    BY <1>t, <1>u, <1>a
  <2>6. (error \in BOOLEAN)'
    BY <1>t, <1>u, <1>a
  <2> QED
    BY <2>1, <2>2, <2>3, <2>4, <2>5, <2>6, <1>t, <1>u, <1>a DEF TypeOK, Stages
<1>2. PlaceInv'
  <2>w. writer'[w] = "exited" /\ \A v \in Writers \ {w} : writer'[v] = writer[v]
    BY <1>a
  <2>1. ASSUME NEW q \in Requests
        PROVE  /\ q \in Items(queue') <=> stage'[q] = "queue"
               /\ q = held' <=> stage'[q] = "held"
               /\ q \in tasks' <=> stage'[q] = "task"
               /\ q \in Items(outcomes') <=> stage'[q] = "outcome"
               /\ q \in Items(pending') <=> stage'[q] = "pending"
               /\ q \in uncounted' => stage'[q] \notin {"new", "refused"}
    BY <1>t, <1>u, <1>a, SMTT(30) DEF PlaceInv
  <2>2. ASSUME NEW q \in Requests
        PROVE  (\E v \in Writers : writer'[v] = q) <=> stage'[q] = "writing"
    BY <1>t, <1>u, <1>a, <2>w DEF PlaceInv
  <2>3. \A v, x \in Writers : writer'[v] = writer'[x] /\ writer'[v] \in Requests => v = x
    BY <1>t, <1>u, <1>a, <2>w DEF PlaceInv
  <2>4. NoDup(queue') /\ NoDup(outcomes') /\ NoDup(pending')
    BY <1>u, <1>a DEF PlaceInv
  <2>5. fwd' \in {"permit", "drainPermit"} <=> held' # None
    BY <1>u DEF PlaceInv
  <2> QED
    BY <2>1, <2>2, <2>3, <2>4, <2>5 DEF PlaceInv
<1>3. ResultInv'
  BY <1>t, <1>u, <1>a, SMTT(30) DEF TypeOK, PlaceInv, ResultInv
<1>4. TaskInv'
  BY <1>t, <1>u, <1>a DEF TypeOK, PlaceInv, TaskInv, Signalled, Lost
<1>5. Permits'
  BY <1>t, <1>u, <1>a DEF Permits
<1> QED
  BY <1>1, <1>2, <1>3, <1>4, <1>5

-----------------------------------------------------------------------------
(* The counters.                                                           *)

\* A request that is accepted waits, is in flight, or is settled or gone.
AcceptedAccounts ==
  stats["accepted"] + Cardinality(uncounted) =
    Len(queue) + Cardinality(Holding) + Cardinality(tasks) + Settled
      + Gone({"lost", "vanished"})

\* A status that is counted is handed on, consumed, or dropped or gone.
SettledAccounts ==
  Settled = Len(outcomes) + consumed + stats["dropped"]
              + Gone({"aborted", "discarded"})

BusyWriters == {w \in Writers : writer[w] \in Requests}

\* The terms of the accounts are numbers.
LEMMA Numbers ==
  ASSUME SafeInv
  PROVE  /\ IsFiniteSet(uncounted) /\ IsFiniteSet(tasks) /\ IsFiniteSet(Holding)
         /\ IsFiniteSet(BusyWriters)
         /\ Cardinality(uncounted) \in Nat /\ Cardinality(tasks) \in Nat
         /\ Cardinality(Holding) \in Nat /\ Cardinality(BusyWriters) \in Nat
         /\ Len(queue) \in Nat /\ Len(outcomes) \in Nat /\ Len(pending) \in Nat
         /\ consumed \in Nat
         /\ \A c \in {"answered", "timedOut", "failed", "accepted",
                      "backpressure", "dropped"} : stats[c] \in Nat
         /\ \A c \in {"enqueued", "full", "ok", "failed", "timeout"} : pstats[c] \in Nat
<1> USE DeliveryAssumption DEF SafeInv
<1>1. IsFiniteSet(uncounted) /\ IsFiniteSet(tasks)
  BY FS_Subset DEF TypeOK
<1>2. IsFiniteSet(Holding)
  BY FS_Singleton, FS_Difference DEF Holding
<1>3. IsFiniteSet(BusyWriters)
  <2>1. BusyWriters \in SUBSET Writers
    BY DEF BusyWriters
  <2> QED
    BY <2>1, FS_Subset
<1>4. \A c \in {"answered", "timedOut", "failed", "accepted",
                "backpressure", "dropped"} : stats[c] \in Nat
  BY DEF TypeOK, Statuses
<1>5. /\ Cardinality(uncounted) \in Nat /\ Cardinality(tasks) \in Nat
      /\ Cardinality(Holding) \in Nat /\ Cardinality(BusyWriters) \in Nat
  BY <1>1, <1>2, <1>3, FS_CardinalityType
<1>6. /\ Len(queue) \in Nat /\ Len(outcomes) \in Nat /\ Len(pending) \in Nat
      /\ consumed \in Nat
      /\ \A c \in {"enqueued", "full", "ok", "failed", "timeout"} : pstats[c] \in Nat
  BY DEF TypeOK
<1> QED
  BY <1>1, <1>2, <1>3, <1>4, <1>5, <1>6

\* The set that Gone counts.
LEMMA GoneNumber ==
  ASSUME NEW T
  PROVE  IsFiniteSet({r \in Requests : stage[r] \in T}) /\ Gone(T) \in Nat
<1>1. {r \in Requests : stage[r] \in T} \in SUBSET Requests
  OBVIOUS
<1> QED
  BY <1>1, DeliveryAssumption, FS_Subset, FS_CardinalityType DEF Gone

\* The terms of the forwarder's accounts.
LEMMA AccountNumbers ==
  ASSUME SafeInv
  PROVE  /\ Cardinality(uncounted) \in Nat /\ Cardinality(tasks) \in Nat
         /\ Cardinality(Holding) \in Nat /\ Settled \in Nat
         /\ Len(queue) \in Nat /\ Len(outcomes) \in Nat /\ consumed \in Nat
         /\ stats["accepted"] \in Nat /\ stats["dropped"] \in Nat
         /\ Gone({"lost", "vanished"}) \in Nat /\ Gone({"aborted", "discarded"}) \in Nat
<1>1. /\ stats["answered"] \in Nat /\ stats["timedOut"] \in Nat
      /\ stats["failed"] \in Nat
      /\ stats["accepted"] \in Nat /\ stats["dropped"] \in Nat
  BY Numbers
<1>2. Settled \in Nat
  BY <1>1 DEF Settled
<1>3. Gone({"lost", "vanished"}) \in Nat /\ Gone({"aborted", "discarded"}) \in Nat
  BY GoneNumber
<1> QED
  BY <1>1, <1>2, <1>3, Numbers

\* A request that moves is counted where it goes and no longer where it was.
LEMMA GoneMoves ==
  ASSUME NEW T, NEW r \in Requests,
         \A q \in Requests \ {r} : stage'[q] = stage[q]
  PROVE  Gone(T)' = Gone(T)
           + (IF stage'[r] \in T THEN 1 ELSE 0) - (IF stage[r] \in T THEN 1 ELSE 0)
<1> DEFINE A == {q \in Requests : stage[q] \in T}
           B == {q \in Requests : stage'[q] \in T}
<1>1. IsFiniteSet(A) /\ Cardinality(A) \in Nat /\ Gone(T) = Cardinality(A)
  BY GoneNumber DEF Gone
<1>2. Gone(T)' = Cardinality(B)
  BY DEF Gone
<1>3. r \in A <=> stage[r] \in T
  OBVIOUS
<1>4. stage'[r] \in T => B = A \cup {r}
  OBVIOUS
<1>5. stage'[r] \notin T => B = A \ {r}
  OBVIOUS
<1> HIDE DEF A, B
<1>6. CASE stage'[r] \in T
  BY <1>1, <1>2, <1>3, <1>4, <1>6, FS_AddElement
<1>7. CASE stage'[r] \notin T
  BY <1>1, <1>2, <1>3, <1>5, <1>7, FS_RemoveElement
<1> QED
  BY <1>6, <1>7

\* A move between stages outside T does not change what Gone(T) counts.
LEMMA GoneStays ==
  ASSUME NEW T, NEW r \in Requests, stage[r] \notin T, stage'[r] \notin T,
         \A q \in Requests \ {r} : stage'[q] = stage[q]
  PROVE  Gone(T)' = Gone(T)
<1>1. Gone(T)' = Gone(T)
        + (IF stage'[r] \in T THEN 1 ELSE 0) - (IF stage[r] \in T THEN 1 ELSE 0)
  BY GoneMoves
<1>2. Gone(T) \in Nat
  BY GoneNumber
<1> QED
  BY <1>1, <1>2

\* A move into T adds one to what Gone(T) counts.
LEMMA GoneGrows ==
  ASSUME NEW T, NEW r \in Requests, stage[r] \notin T, stage'[r] \in T,
         \A q \in Requests \ {r} : stage'[q] = stage[q]
  PROVE  Gone(T)' = Gone(T) + 1
<1>1. Gone(T)' = Gone(T)
        + (IF stage'[r] \in T THEN 1 ELSE 0) - (IF stage[r] \in T THEN 1 ELSE 0)
  BY GoneMoves
<1>2. Gone(T) \in Nat
  BY GoneNumber
<1> QED
  BY <1>1, <1>2

\* Requests that are dropped together are counted together.
LEMMA GoneDrops ==
  ASSUME NEW T, NEW X \in SUBSET Requests, NEW s,
         \A q \in X : stage[q] \notin T,
         \A q \in Requests : stage'[q] = IF q \in X THEN s ELSE stage[q]
  PROVE  /\ Gone(T)' = Gone(T) + (IF s \in T THEN Cardinality(X) ELSE 0)
         /\ IsFiniteSet(X) /\ Cardinality(X) \in Nat
<1> DEFINE A == {q \in Requests : stage[q] \in T}
           B == {q \in Requests : stage'[q] \in T}
<1>1. IsFiniteSet(A) /\ Cardinality(A) \in Nat /\ Gone(T) = Cardinality(A)
  BY GoneNumber DEF Gone
<1>2. Gone(T)' = Cardinality(B)
  BY DEF Gone
<1>3. IsFiniteSet(X) /\ Cardinality(X) \in Nat
  BY DeliveryAssumption, FS_Subset, FS_CardinalityType
<1>4. A \cap X = {}
  OBVIOUS
<1>5. s \in T => B = A \cup X
  OBVIOUS
<1>6. s \notin T => B = A
  OBVIOUS
<1> HIDE DEF A, B
<1>7. Cardinality(A \cup X) = Cardinality(A) + Cardinality(X)
  <2>1. Cardinality(A \cup X) = Cardinality(A) + Cardinality(X) - Cardinality(A \cap X)
    BY <1>1, <1>3, FS_Union
  <2>2. Cardinality(A \cap X) = 0
    BY <1>4, FS_EmptySet
  <2> QED
    BY <1>1, <1>3, <2>1, <2>2
<1>8. CASE s \in T
  BY <1>1, <1>2, <1>3, <1>5, <1>7, <1>8
<1>9. CASE s \notin T
  BY <1>1, <1>2, <1>3, <1>6, <1>9
<1> QED
  BY <1>3, <1>8, <1>9

\* Requests that are dropped into T are added to what Gone(T) counts.
LEMMA GoneSwept ==
  ASSUME NEW T, NEW X \in SUBSET Requests, NEW s \in T,
         \A q \in X : stage[q] \notin T,
         \A q \in Requests : stage'[q] = IF q \in X THEN s ELSE stage[q]
  PROVE  Gone(T)' = Gone(T) + Cardinality(X)
BY GoneDrops

\* Requests that are dropped elsewhere are not.
LEMMA GoneUnswept ==
  ASSUME NEW T, NEW X \in SUBSET Requests, NEW s, s \notin T,
         \A q \in X : stage[q] \notin T,
         \A q \in Requests : stage'[q] = IF q \in X THEN s ELSE stage[q]
  PROVE  Gone(T)' = Gone(T)
<1>1. Gone(T)' = Gone(T) + (IF s \in T THEN Cardinality(X) ELSE 0)
  BY GoneDrops
<1>2. Gone(T) \in Nat
  BY GoneNumber
<1> QED
  BY <1>1, <1>2

\* Counting a status settles one request.
LEMMA CountStatus ==
  ASSUME TypeOK, NEW status \in Statuses, NEW c, c = Count(stats, status)
  PROVE  /\ c["answered"] + c["timedOut"] + c["failed"] = Settled + 1
         /\ c["accepted"] = stats["accepted"] /\ c["dropped"] = stats["dropped"]
         /\ c \in [Statuses \cup {"accepted", "backpressure", "dropped"} -> Nat]
<1>1. stats \in [Statuses \cup {"accepted", "backpressure", "dropped"} -> Nat]
  BY DEF TypeOK
<1>2. c = [stats EXCEPT ![status] = @ + 1]
  BY DEF Count
<1>3. CASE status = "answered"
  BY <1>1, <1>2, <1>3 DEF Statuses, Settled
<1>4. CASE status = "timedOut"
  BY <1>1, <1>2, <1>4 DEF Statuses, Settled
<1>5. CASE status = "failed"
  BY <1>1, <1>2, <1>5 DEF Statuses, Settled
<1> QED
  BY <1>3, <1>4, <1>5 DEF Statuses

\* What the counters of the forwarder do in each step that concerns them.
LEMMA TryForwardAccounts ==
  ASSUME SafeInv, AcceptedAccounts, SettledAccounts,
         NEW r \in Requests, TryForward(r)
  PROVE  (AcceptedAccounts /\ SettledAccounts)'
<1> USE DeliveryAssumption DEF SafeInv
<1>1. /\ stage[r] = "new" /\ r \notin uncounted /\ stage'[r] \in {"queue", "refused"}
      /\ \A q \in Requests \ {r} : stage'[q] = stage[q]
      /\ UNCHANGED <<held, tasks, outcomes, consumed>>
  BY DEF TryForward, PlaceInv, TypeOK, Move, taskVars, outcomeVars
<1>2. /\ Gone({"lost", "vanished"})' = Gone({"lost", "vanished"})
      /\ Gone({"aborted", "discarded"})' = Gone({"aborted", "discarded"})
  BY <1>1, GoneStays
<1>3. \A c \in {"answered", "timedOut", "failed", "accepted", "dropped"} :
        stats'[c] = stats[c]
  BY ZenonT(40) DEF TryForward, Count, TypeOK, Statuses
<1>4. \/ Len(queue') = Len(queue) + 1 /\ uncounted' = uncounted \cup {r}
      \/ queue' = queue /\ uncounted' = uncounted
  BY AppendItems DEF TryForward, TypeOK
<1>5. Cardinality(uncounted \cup {r}) = Cardinality(uncounted) + 1
  BY <1>1, Numbers, FS_AddElement
<1>6. Settled' = Settled /\ Holding' = Holding
  BY <1>1, <1>3 DEF Settled, Holding
<1>7. AcceptedAccounts'
  <2> DEFINE a == stats["accepted"]
             u == Cardinality(uncounted)
             q == Len(queue)
             h == Cardinality(Holding)
             k == Cardinality(tasks)
             g == Gone({"lost", "vanished"})
  <2>1. a' = a /\ h' = h /\ k' = k /\ g' = g
    BY <1>1, <1>2, <1>3, <1>6
  <2>2. (q' = q + 1 /\ u' = u + 1) \/ (q' = q /\ u' = u)
    <3>1. CASE Len(queue') = Len(queue) + 1 /\ uncounted' = uncounted \cup {r}
      <4>1. Cardinality(uncounted') = Cardinality(uncounted \cup {r})
        BY <3>1
      <4>2. u' = u + 1
        BY <1>5, <4>1
      <4>3. q' = q + 1
        BY <3>1
      <4> QED
        BY <4>2, <4>3
    <3>2. CASE queue' = queue /\ uncounted' = uncounted
      BY <3>2
    <3> QED
      BY <1>4, <3>1, <3>2
  <2>3. /\ a \in Nat /\ u \in Nat /\ q \in Nat /\ h \in Nat /\ k \in Nat
        /\ g \in Nat /\ Settled \in Nat
    BY AccountNumbers
  <2>4. a + u = q + h + k + Settled + g
    BY DEF AcceptedAccounts
  <2> HIDE DEF a, u, q, h, k, g
  <2>5. a' + u' = q' + h' + k' + Settled' + g'
    BY <1>6, <2>1, <2>2, <2>3, <2>4
  <2> QED
    BY <2>5 DEF AcceptedAccounts, a, u, q, h, k, g
<1>8. SettledAccounts'
  BY <1>1, <1>2, <1>3, <1>6 DEF SettledAccounts
<1> QED
  BY <1>7, <1>8

\* record_acceptance() moves a request between the two terms of the left side.
LEMMA RecordAcceptanceAccounts ==
  ASSUME SafeInv, AcceptedAccounts, SettledAccounts,
         NEW r \in Requests, RecordAcceptance(r)
  PROVE  (AcceptedAccounts /\ SettledAccounts)'
<1> USE DeliveryAssumption DEF SafeInv
<1>1. /\ r \in uncounted /\ uncounted' = uncounted \ {r}
      /\ UNCHANGED <<stage, queue, held, tasks, outcomes, consumed>>
  BY DEF RecordAcceptance, taskVars, outcomeVars
<1>2. /\ Gone({"lost", "vanished"})' = Gone({"lost", "vanished"})
      /\ Gone({"aborted", "discarded"})' = Gone({"aborted", "discarded"})
  BY <1>1 DEF Gone
<1>3. /\ stats'["answered"] = stats["answered"] /\ stats'["timedOut"] = stats["timedOut"]
      /\ stats'["failed"] = stats["failed"] /\ stats'["dropped"] = stats["dropped"]
      /\ stats'["accepted"] = stats["accepted"] + 1
  BY DEF RecordAcceptance, Count, TypeOK, Statuses
<1>4. Cardinality(uncounted') = Cardinality(uncounted) - 1
  BY <1>1, Numbers, FS_RemoveElement
<1>5. Settled' = Settled /\ Holding' = Holding
  BY <1>1, <1>3 DEF Settled, Holding
<1>6. AcceptedAccounts'
  <2> DEFINE a == stats["accepted"]
             u == Cardinality(uncounted)
             q == Len(queue)
             h == Cardinality(Holding)
             k == Cardinality(tasks)
             g == Gone({"lost", "vanished"})
  <2>1. a' = a + 1 /\ u' = u - 1 /\ q' = q /\ h' = h /\ k' = k /\ g' = g
    BY <1>1, <1>2, <1>3, <1>4, <1>5
  <2>2. /\ a \in Nat /\ u \in Nat /\ q \in Nat /\ h \in Nat /\ k \in Nat
        /\ g \in Nat /\ Settled \in Nat
    BY AccountNumbers
  <2>3. a + u = q + h + k + Settled + g
    BY DEF AcceptedAccounts
  <2> HIDE DEF a, u, q, h, k, g
  <2>4. a' + u' = q' + h' + k' + Settled' + g'
    BY <1>5, <2>1, <2>2, <2>3
  <2> QED
    BY <2>4 DEF AcceptedAccounts, a, u, q, h, k, g
<1>7. SettledAccounts'
  BY <1>1, <1>2, <1>3, <1>5 DEF SettledAccounts
<1> QED
  BY <1>6, <1>7

\* A request that the worker holds is counted as held.
LEMMA HoldingCount ==
  /\ held = None => Holding = {} /\ Cardinality(Holding) = 0
  /\ held # None => Holding = {held} /\ Cardinality(Holding) = 1
<1>1. held = None => Holding = {}
  BY DEF Holding
<1>2. held # None => Holding = {held}
  BY DEF Holding
<1> QED
  BY <1>1, <1>2, FS_EmptySet, FS_Singleton

\* A request that is received is held instead of queued.
LEMMA FwdReceiveAccounts ==
  ASSUME SafeInv, AcceptedAccounts, SettledAccounts, FwdReceive
  PROVE  (AcceptedAccounts /\ SettledAccounts)'
<1> USE DeliveryAssumption DEF SafeInv
<1>1. /\ queue \in Seq(Requests) /\ queue # <<>> /\ queue' = Tail(queue)
      /\ held = None /\ held' = Head(queue)
      /\ UNCHANGED <<uncounted, stats, tasks, outcomes, consumed>>
  BY DEF FwdReceive, PlaceInv, TypeOK, taskVars, outcomeVars
<1>2. /\ Head(queue) \in Requests /\ Len(queue') = Len(queue) - 1
      /\ Head(queue) \in Items(queue)
  BY <1>1, TailItems
<1>3. /\ stage[Head(queue)] = "queue" /\ stage'[Head(queue)] = "held"
      /\ \A q \in Requests \ {Head(queue)} : stage'[q] = stage[q]
  BY <1>2 DEF FwdReceive, Move, PlaceInv, TypeOK
<1>4. /\ Gone({"lost", "vanished"})' = Gone({"lost", "vanished"})
      /\ Gone({"aborted", "discarded"})' = Gone({"aborted", "discarded"})
  BY <1>2, <1>3, GoneStays
<1>5. Cardinality(Holding) = 0 /\ Cardinality(Holding') = 1
  <2>1. held' # None
    BY <1>1, <1>2
  <2>2. Holding' = {held'}
    BY <2>1 DEF Holding
  <2> QED
    BY <1>1, <2>2, HoldingCount, FS_Singleton
<1>6. Settled' = Settled
  BY <1>1 DEF Settled
<1>7. AcceptedAccounts'
  BY <1>1, <1>2, <1>4, <1>5, <1>6, AccountNumbers DEF AcceptedAccounts
<1>8. SettledAccounts'
  BY <1>1, <1>4, <1>6 DEF SettledAccounts
<1> QED
  BY <1>7, <1>8

\* A request that is spawned is in flight instead of held.
LEMMA FwdSpawnAccounts ==
  ASSUME SafeInv, AcceptedAccounts, SettledAccounts, FwdSpawn
  PROVE  (AcceptedAccounts /\ SettledAccounts)'
<1> USE DeliveryAssumption DEF SafeInv
<1>1. /\ held \in Requests /\ held # None /\ held' = None /\ held \notin tasks
      /\ tasks' = tasks \cup {held} /\ stage[held] = "held" /\ stage'[held] = "task"
      /\ \A q \in Requests \ {held} : stage'[q] = stage[q]
      /\ UNCHANGED <<uncounted, queue, stats, outcomes, consumed>>
  BY DEF FwdSpawn, Move, PlaceInv, TypeOK, outcomeVars
<1>2. /\ Gone({"lost", "vanished"})' = Gone({"lost", "vanished"})
      /\ Gone({"aborted", "discarded"})' = Gone({"aborted", "discarded"})
  BY <1>1, GoneStays
<1>3. Cardinality(Holding) = 1 /\ Cardinality(Holding') = 0
  <2>1. Holding' = {}
    BY <1>1 DEF Holding
  <2> QED
    BY <1>1, <2>1, HoldingCount, FS_EmptySet
<1>4. Cardinality(tasks') = Cardinality(tasks) + 1
  BY <1>1, Numbers, FS_AddElement
<1>5. Settled' = Settled
  BY <1>1 DEF Settled
<1>6. AcceptedAccounts'
  BY <1>1, <1>2, <1>3, <1>4, <1>5, AccountNumbers DEF AcceptedAccounts
<1>7. SettledAccounts'
  BY <1>1, <1>2, <1>5 DEF SettledAccounts
<1> QED
  BY <1>6, <1>7

\* What is dropped with the worker: DrainTimeout and AbortForwarder.
LEMMA ForwarderDropsAccounts ==
  ASSUME SafeInv, AcceptedAccounts, SettledAccounts,
         Drop(Items(queue) \cup Holding, "lost"), queue' = <<>>, held' = None,
         UNCHANGED <<uncounted, tasks, stats, outcomes, consumed>>
  PROVE  (AcceptedAccounts /\ SettledAccounts)'
<1> USE DeliveryAssumption DEF SafeInv
<1> DEFINE X == Items(queue) \cup Holding
<1>1. queue \in Seq(Requests) /\ NoDup(queue) /\ held \in Requests \cup {None}
  BY DEF TypeOK, PlaceInv
<1>2. X \in SUBSET Requests /\ \A q \in X : stage[q] \in {"queue", "held"}
  BY <1>1 DEF Items, Holding, PlaceInv
<1>3. \A q \in Requests : stage'[q] = IF q \in X THEN "lost" ELSE stage[q]
  BY DEF Drop
<1>4. Cardinality(X) = Len(queue) + Cardinality(Holding)
  <2>1. IsFiniteSet(Items(queue)) /\ Cardinality(Items(queue)) = Len(queue)
    BY <1>1, ItemsCount
  <2>2. Items(queue) \cap Holding = {}
    BY <1>1, <1>2 DEF Holding, PlaceInv
  <2>3. Cardinality(X) = Cardinality(Items(queue)) + Cardinality(Holding)
                           - Cardinality(Items(queue) \cap Holding)
    BY <2>1, Numbers, FS_Union
  <2>4. Cardinality(Items(queue) \cap Holding) = 0
    BY <2>2, FS_EmptySet
  <2> QED
    BY <2>1, <2>3, <2>4, AccountNumbers
<1> HIDE DEF X
<1>5. Gone({"lost", "vanished"})' = Gone({"lost", "vanished"}) + Cardinality(X)
  <2>1. \A q \in X : stage[q] \notin {"lost", "vanished"}
    BY <1>2
  <2> QED
    BY <1>2, <1>3, <2>1, GoneSwept
<1>6. Gone({"aborted", "discarded"})' = Gone({"aborted", "discarded"})
  <2>1. \A q \in X : stage[q] \notin {"aborted", "discarded"}
    BY <1>2
  <2> QED
    BY <1>2, <1>3, <2>1, GoneUnswept
<1>7. Cardinality(Holding') = 0 /\ Len(queue') = 0
  <2>1. Holding' = {}
    BY DEF Holding
  <2> QED
    BY <2>1, FS_EmptySet
<1>8. Settled' = Settled
  BY DEF Settled
<1>9. AcceptedAccounts'
  BY <1>4, <1>5, <1>7, <1>8, AccountNumbers DEF AcceptedAccounts
<1>10. SettledAccounts'
  BY <1>6, <1>8 DEF SettledAccounts
<1> QED
  BY <1>9, <1>10

\* A delivery that ends is counted under its status and handed on or dropped.
LEMMA TaskEndAccounts ==
  ASSUME SafeInv, AcceptedAccounts, SettledAccounts,
         NEW r \in Requests, TaskEnd(r)
  PROVE  (AcceptedAccounts /\ SettledAccounts)'
<1> USE DeliveryAssumption DEF SafeInv
<1>1. /\ r \in tasks /\ tasks' = tasks \ {r} /\ stage[r] = "task"
      /\ UNCHANGED <<uncounted, queue, held, consumed>>
  BY DEF TaskEnd, ReleaseTask, PlaceInv, fwdVars
<1>2. PICK status \in Statuses : ReportOutcome(r, status)
  BY DEF TaskEnd
<1>3. /\ stage'[r] \in {"outcome", "unreported"}
      /\ \A q \in Requests \ {r} : stage'[q] = stage[q]
  BY <1>2 DEF ReportOutcome, Move, TypeOK
<1>4. /\ Gone({"lost", "vanished"})' = Gone({"lost", "vanished"})
      /\ Gone({"aborted", "discarded"})' = Gone({"aborted", "discarded"})
  BY <1>1, <1>3, GoneStays
<1> DEFINE c == Count(stats, status)
<1>5. /\ c["answered"] + c["timedOut"] + c["failed"] = Settled + 1
      /\ c["accepted"] = stats["accepted"] /\ c["dropped"] = stats["dropped"]
      /\ c \in [Statuses \cup {"accepted", "backpressure", "dropped"} -> Nat]
  BY CountStatus
<1> HIDE DEF c
<1>6. /\ Settled' = Settled + 1 /\ stats'["accepted"] = stats["accepted"]
      /\ \/ Len(outcomes') = Len(outcomes) + 1 /\ stats'["dropped"] = stats["dropped"]
         \/ outcomes' = outcomes /\ stats'["dropped"] = stats["dropped"] + 1
  <2>1. CASE stats' = c /\ outcomes' = Append(outcomes, r)
    BY <1>5, <2>1, AppendItems DEF Settled, TypeOK
  <2>2. CASE stats' = Count(c, "dropped") /\ outcomes' = outcomes
    <3>1. stats' = [c EXCEPT !["dropped"] = @ + 1]
      BY <2>2 DEF Count
    <3>2. /\ stats'["answered"] = c["answered"] /\ stats'["timedOut"] = c["timedOut"]
          /\ stats'["failed"] = c["failed"] /\ stats'["accepted"] = c["accepted"]
          /\ stats'["dropped"] = c["dropped"] + 1
      BY <1>5, <3>1 DEF Statuses
    <3> QED
      BY <1>5, <2>2, <3>2 DEF Settled
  <2> QED
    BY <1>2, <2>1, <2>2 DEF ReportOutcome, c
<1>7. Cardinality(tasks') = Cardinality(tasks) - 1
  BY <1>1, Numbers, FS_RemoveElement
<1>8. Holding' = Holding
  BY <1>1 DEF Holding
<1>9. AcceptedAccounts'
  BY <1>1, <1>4, <1>6, <1>7, <1>8, AccountNumbers DEF AcceptedAccounts
<1>10. SettledAccounts'
  <2>1. CASE Len(outcomes') = Len(outcomes) + 1 /\ stats'["dropped"] = stats["dropped"]
    <3>1. consumed' = consumed /\ Settled' = Settled + 1
      BY <1>1, <1>6
    <3> QED
      BY <1>4, <2>1, <3>1, AccountNumbers, SMTT(30) DEF SettledAccounts
  <2>2. CASE outcomes' = outcomes /\ stats'["dropped"] = stats["dropped"] + 1
    BY <1>1, <1>4, <1>6, <2>2, AccountNumbers, SMTT(30) DEF SettledAccounts
  <2> QED
    BY <1>6, <2>1, <2>2
<1> QED
  BY <1>9, <1>10

\* An aborted task is counted as failed, or it vanishes.
LEMMA TaskAbortedAccounts ==
  ASSUME SafeInv, AcceptedAccounts, SettledAccounts,
         NEW r \in Requests, TaskAborted(r)
  PROVE  (AcceptedAccounts /\ SettledAccounts)'
<1> USE DeliveryAssumption DEF SafeInv
<1>1. /\ r \in tasks /\ tasks' = tasks \ {r} /\ stage[r] = "task"
      /\ UNCHANGED <<uncounted, queue, held, outcomes, consumed>>
      /\ \A q \in Requests \ {r} : stage'[q] = stage[q]
  BY DEF TaskAborted, ReleaseTask, PlaceInv, TypeOK, Move, fwdVars, outcomeVars
<1>2. \/ stage'[r] = "aborted" /\ stats' = Count(stats, "failed")
      \/ stage'[r] = "vanished" /\ stats' = stats
  BY DEF TaskAborted, Move, TypeOK
<1>3. Cardinality(tasks') = Cardinality(tasks) - 1
  BY <1>1, Numbers, FS_RemoveElement
<1>4. Holding' = Holding
  BY <1>1 DEF Holding
<1>5. CASE stage'[r] = "aborted" /\ stats' = Count(stats, "failed")
  <2>1. /\ Gone({"lost", "vanished"})' = Gone({"lost", "vanished"})
        /\ Gone({"aborted", "discarded"})' = Gone({"aborted", "discarded"}) + 1
    BY <1>1, <1>5, GoneStays, GoneGrows
  <2>2. /\ Settled' = Settled + 1 /\ stats'["accepted"] = stats["accepted"]
        /\ stats'["dropped"] = stats["dropped"]
    BY <1>5, CountStatus DEF Settled, Statuses
  <2>3. AcceptedAccounts'
    BY <1>1, <1>3, <1>4, <2>1, <2>2, AccountNumbers DEF AcceptedAccounts
  <2>4. SettledAccounts'
    <3>1. SettledAccounts /\ outcomes' = outcomes /\ consumed' = consumed
      BY <1>1, <1>5
    <3> QED
      BY <2>1, <2>2, <3>1, AccountNumbers, SMTT(30) DEF SettledAccounts
  <2> QED
    BY <2>3, <2>4
<1>6. CASE stage'[r] = "vanished" /\ stats' = stats
  <2>1. /\ Gone({"lost", "vanished"})' = Gone({"lost", "vanished"}) + 1
        /\ Gone({"aborted", "discarded"})' = Gone({"aborted", "discarded"})
    BY <1>1, <1>6, GoneStays, GoneGrows
  <2>2. Settled' = Settled
    BY <1>6 DEF Settled
  <2>3. AcceptedAccounts'
    BY <1>1, <1>3, <1>4, <1>6, <2>1, <2>2, AccountNumbers DEF AcceptedAccounts
  <2>4. SettledAccounts'
    BY <1>1, <1>6, <2>1, <2>2, AccountNumbers DEF SettledAccounts
  <2> QED
    BY <2>3, <2>4
<1> QED
  BY <1>2, <1>5, <1>6

\* The outcome that the consumer takes.
LEMMA ConsReceiveMoves ==
  ASSUME SafeInv, ConsReceive
  PROVE  /\ outcomes \in Seq(Requests) /\ outcomes # <<>>
         /\ Head(outcomes) \in Requests /\ Len(Tail(outcomes)) = Len(outcomes) - 1
         /\ stage[Head(outcomes)] = "outcome"
         /\ stage'[Head(outcomes)] \in {"pending", "unsaved"}
         /\ \A q \in Requests \ {Head(outcomes)} : stage'[q] = stage[q]
<1> USE DeliveryAssumption DEF SafeInv
<1>1. outcomes \in Seq(Requests) /\ outcomes # <<>> /\ SaveOutcome(Head(outcomes))
  BY DEF ConsReceive, TypeOK
<1>2. /\ Head(outcomes) \in Requests /\ Len(Tail(outcomes)) = Len(outcomes) - 1
      /\ Head(outcomes) \in Items(outcomes)
  BY <1>1, TailItems
<1>3. /\ stage[Head(outcomes)] = "outcome"
      /\ stage'[Head(outcomes)] \in {"pending", "unsaved"}
      /\ \A q \in Requests \ {Head(outcomes)} : stage'[q] = stage[q]
  BY <1>1, <1>2 DEF SaveOutcome, Move, PlaceInv, TypeOK
<1> QED
  BY <1>1, <1>2, <1>3

\* An outcome that is received is consumed.
LEMMA ConsReceiveAccounts ==
  ASSUME SafeInv, AcceptedAccounts, SettledAccounts, ConsReceive
  PROVE  (AcceptedAccounts /\ SettledAccounts)'
<1> USE DeliveryAssumption DEF SafeInv
<1>1. /\ outcomes \in Seq(Requests) /\ outcomes # <<>> /\ outcomes' = Tail(outcomes)
      /\ consumed' = consumed + 1 /\ SaveOutcome(Head(outcomes))
      /\ UNCHANGED <<uncounted, queue, held, tasks, stats>>
  BY DEF ConsReceive, TypeOK, fwdVars, taskVars
<1>2. Head(outcomes) \in Requests /\ Len(outcomes') = Len(outcomes) - 1
  BY <1>1, ConsReceiveMoves
<1>3. /\ stage[Head(outcomes)] = "outcome"
      /\ stage'[Head(outcomes)] \in {"pending", "unsaved"}
      /\ \A q \in Requests \ {Head(outcomes)} : stage'[q] = stage[q]
  BY ConsReceiveMoves
<1>4. /\ Gone({"lost", "vanished"})' = Gone({"lost", "vanished"})
      /\ Gone({"aborted", "discarded"})' = Gone({"aborted", "discarded"})
  BY <1>2, <1>3, GoneStays
<1>5. Settled' = Settled /\ Holding' = Holding
  BY <1>1 DEF Settled, Holding
<1>6. AcceptedAccounts'
  BY <1>1, <1>4, <1>5 DEF AcceptedAccounts
<1>7. SettledAccounts'
  BY <1>1, <1>2, <1>4, <1>5, AccountNumbers DEF SettledAccounts
<1> QED
  BY <1>6, <1>7

\* The outcomes in the channel are discarded with the consumer.
LEMMA AbortConsumerAccounts ==
  ASSUME SafeInv, AcceptedAccounts, SettledAccounts, AbortConsumer
  PROVE  (AcceptedAccounts /\ SettledAccounts)'
<1> USE DeliveryAssumption DEF SafeInv
<1>1. /\ outcomes \in Seq(Requests) /\ NoDup(outcomes) /\ outcomes' = <<>>
      /\ UNCHANGED <<uncounted, queue, held, tasks, stats, consumed>>
  BY DEF AbortConsumer, TypeOK, PlaceInv, fwdVars, taskVars
<1>2. Items(outcomes) \in SUBSET Requests /\ \A q \in Items(outcomes) : stage[q] = "outcome"
  BY <1>1 DEF Items, PlaceInv
<1>3. \A q \in Requests : stage'[q] = IF q \in Items(outcomes) THEN "discarded" ELSE stage[q]
  BY DEF AbortConsumer, Drop
<1>4. Cardinality(Items(outcomes)) = Len(outcomes) /\ Len(outcomes') = 0
  BY <1>1, ItemsCount
<1>5. Gone({"lost", "vanished"})' = Gone({"lost", "vanished"})
  <2>1. \A q \in Items(outcomes) : stage[q] \notin {"lost", "vanished"}
    BY <1>2
  <2> QED
    BY <1>2, <1>3, <2>1, GoneUnswept
<1>6. Gone({"aborted", "discarded"})' = Gone({"aborted", "discarded"}) + Len(outcomes)
  <2>1. \A q \in Items(outcomes) : stage[q] \notin {"aborted", "discarded"}
    BY <1>2
  <2>2. Gone({"aborted", "discarded"})' =
          Gone({"aborted", "discarded"}) + Cardinality(Items(outcomes))
    BY <1>2, <1>3, <2>1, GoneSwept
  <2> QED
    BY <1>4, <2>2
<1>7. Settled' = Settled /\ Holding' = Holding
  BY <1>1 DEF Settled, Holding
<1>8. AcceptedAccounts'
  BY <1>1, <1>5, <1>7 DEF AcceptedAccounts
<1>9. SettledAccounts'
  BY <1>1, <1>4, <1>6, <1>7, AccountNumbers DEF SettledAccounts
<1> QED
  BY <1>8, <1>9

\* The steps of the writers leave the forwarder's counters alone.
LEMMA WriterForwarderAccounts ==
  ASSUME SafeInv, AcceptedAccounts, SettledAccounts, NEW w \in Writers,
         Writer(w) \/ WriterTimeout(w)
  PROVE  (AcceptedAccounts /\ SettledAccounts)'
<1> USE DeliveryAssumption DEF SafeInv
<1>1. UNCHANGED <<uncounted, queue, held, tasks, stats, outcomes, consumed>>
  BY DEF Writer, WriterReceive, WriterEnds, WriterExits, WriterTimeout,
         fwdVars, taskVars, outcomeVars
<1>2. \A q \in Requests : stage'[q] = stage[q] \/
        /\ stage[q] \in {"pending", "writing"}
        /\ stage'[q] \in {"writing", "done", "cutOff"}
  <2>1. CASE WriterReceive(w)
    <3>1. Head(pending) \in Requests /\ Head(pending) \in Items(pending)
      BY <2>1, TailItems DEF WriterReceive, TypeOK
    <3> QED
      BY <2>1, <3>1 DEF WriterReceive, Move, PlaceInv, TypeOK
  <2>2. CASE WriterEnds(w)
    BY <2>2 DEF WriterEnds, Move, PlaceInv, TypeOK
  <2>3. CASE WriterExits(w)
    BY <2>3 DEF WriterExits
  <2>4. CASE WriterTimeout(w)
    BY <2>4 DEF WriterTimeout, AbortWriter, Drop, PlaceInv
  <2> QED
    BY <2>1, <2>2, <2>3, <2>4 DEF Writer
<1>3. \A T \in {{"lost", "vanished"}, {"aborted", "discarded"}} : Gone(T)' = Gone(T)
  <2> SUFFICES ASSUME NEW T \in {{"lost", "vanished"}, {"aborted", "discarded"}}
               PROVE  Gone(T)' = Gone(T)
    OBVIOUS
  <2>1. {q \in Requests : stage'[q] \in T} = {q \in Requests : stage[q] \in T}
    BY <1>2
  <2> QED
    BY <2>1 DEF Gone
<1>4. Settled' = Settled /\ Holding' = Holding
  BY <1>1 DEF Settled, Holding
<1>5. AcceptedAccounts'
  BY <1>1, <1>3, <1>4 DEF AcceptedAccounts
<1>6. SettledAccounts'
  BY <1>1, <1>3, <1>4 DEF SettledAccounts
<1> QED
  BY <1>5, <1>6

\* So do the steps that move no request.
LEMMA QuietAccounts ==
  ASSUME AcceptedAccounts, SettledAccounts,
         UNCHANGED <<stage, uncounted, queue, held, tasks, stats, outcomes, consumed>>
  PROVE  (AcceptedAccounts /\ SettledAccounts)'
BY DEF AcceptedAccounts, SettledAccounts, Settled, Holding, Gone

-----------------------------------------------------------------------------
(* The counters of the persistence writer.                                 *)

\* The terms of its accounts, by name.
Saving == Len(pending)
Busy == Cardinality(BusyWriters)
Written == pstats["ok"] + pstats["failed"] + pstats["timeout"]
CutOff == Gone({"cutOff"})

\* They are numbers, and the accounts are about them.
LEMMA WriterNumbers ==
  ASSUME SafeInv
  PROVE  /\ Saving \in Nat /\ Busy \in Nat /\ Written \in Nat /\ CutOff \in Nat
         /\ Enqueued \in Nat /\ consumed \in Nat /\ pstats["full"] \in Nat
<1>1. /\ pstats["ok"] \in Nat /\ pstats["failed"] \in Nat /\ pstats["timeout"] \in Nat
      /\ pstats["enqueued"] \in Nat /\ pstats["full"] \in Nat
  BY Numbers
<1>2. Written \in Nat /\ Enqueued \in Nat
  BY <1>1 DEF Written, Enqueued
<1>3. Saving \in Nat /\ Busy \in Nat /\ consumed \in Nat
  BY Numbers DEF Saving, Busy
<1>4. CutOff \in Nat
  BY GoneNumber DEF CutOff
<1> QED
  BY <1>1, <1>2, <1>3, <1>4

\* PersistenceAccounts in these terms.
LEMMA WriterAccountsForm ==
  ASSUME SafeInv
  PROVE  PersistenceAccounts <=>
           /\ storage => consumed = Enqueued + pstats["full"]
           /\ Enqueued = Saving + Busy + Written + CutOff
<1>1. /\ pstats["ok"] \in Nat /\ pstats["failed"] \in Nat /\ pstats["timeout"] \in Nat
  BY Numbers
<1>2. Saving \in Nat /\ Busy \in Nat /\ CutOff \in Nat
  BY WriterNumbers
<1>3. Saving + Busy + Written + CutOff =
        Saving + Busy + pstats["ok"] + pstats["failed"] + pstats["timeout"] + CutOff
  BY <1>1, <1>2 DEF Written
<1> QED
  BY <1>3 DEF PersistenceAccounts, Saving, Busy, BusyWriters, CutOff

\* The same after a step.
LEMMA WriterAccountsNext ==
  ASSUME SafeInv'
  PROVE  PersistenceAccounts' <=>
           /\ storage' => consumed' = Enqueued' + pstats'["full"]
           /\ Enqueued' = Saving' + Busy' + Written' + CutOff'
<1>1. (SafeInv => (PersistenceAccounts <=>
           /\ storage => consumed = Enqueued + pstats["full"]
           /\ Enqueued = Saving + Busy + Written + CutOff))'
  BY WriterAccountsForm, PTL
<1> QED
  BY <1>1

\* A step that does not concern the persistence writer leaves its accounts as
\* they are.
LEMMA OtherPersistence ==
  ASSUME PersistenceAccounts,
         UNCHANGED <<storage, consumed, pending, writer, pstats, cons>>,
         \A q \in Requests : stage'[q] = "cutOff" <=> stage[q] = "cutOff"
  PROVE  PersistenceAccounts'
<1>1. {q \in Requests : stage'[q] \in {"cutOff"}} = {q \in Requests : stage[q] \in {"cutOff"}}
  OBVIOUS
<1>2. Gone({"cutOff"})' = Gone({"cutOff"})
  BY <1>1 DEF Gone
<1>3. Enqueued' = Enqueued
  BY DEF Enqueued
<1> QED
  BY <1>2, <1>3 DEF PersistenceAccounts

\* An outcome that is consumed is enqueued or counted as refused by a full queue.
LEMMA ConsReceivePersistence ==
  ASSUME SafeInv, SafeInv', PersistenceAccounts, ConsReceive
  PROVE  PersistenceAccounts'
<1> USE DeliveryAssumption DEF SafeInv
<1>1. /\ outcomes \in Seq(Requests) /\ outcomes # <<>> /\ cons = "select"
      /\ consumed' = consumed + 1 /\ SaveOutcome(Head(outcomes))
      /\ UNCHANGED <<storage, writer>>
  BY DEF ConsReceive, TypeOK
<1>2. Head(outcomes) \in Requests
  BY ConsReceiveMoves
<1>3. /\ stage[Head(outcomes)] = "outcome"
      /\ stage'[Head(outcomes)] \in {"pending", "unsaved"}
      /\ \A q \in Requests \ {Head(outcomes)} : stage'[q] = stage[q]
  BY ConsReceiveMoves
<1>4. CutOff' = CutOff
  BY <1>2, <1>3, GoneStays DEF CutOff
<1>5. Busy' = Busy
  BY <1>1 DEF Busy, BusyWriters
<1>6. /\ Saving \in Nat /\ Busy \in Nat /\ Written \in Nat /\ CutOff \in Nat
      /\ Enqueued \in Nat /\ consumed \in Nat /\ pstats["full"] \in Nat
      /\ pstats["enqueued"] \in Nat
  BY WriterNumbers, Numbers
<1>7. /\ storage => consumed = Enqueued + pstats["full"]
      /\ Enqueued = Saving + Busy + Written + CutOff
  BY WriterAccountsForm
<1>8. CASE /\ storage /\ pending' = Append(pending, Head(outcomes))
           /\ cons' = "count" /\ pstats' = pstats
  <2>1. Saving' = Saving + 1
    BY <1>2, <1>8, AppendItems DEF Saving, TypeOK
  <2>2. Enqueued' = Enqueued + 1 /\ Written' = Written /\ pstats'["full"] = pstats["full"]
    BY <1>1, <1>6, <1>8 DEF Enqueued, Written
  <2>3. consumed' = Enqueued' + pstats'["full"]
    <3>1. consumed = Enqueued + pstats["full"]
      BY <1>7, <1>8
    <3>2. consumed' = consumed + 1
      BY <1>1
    <3> QED
      BY <1>6, <2>2, <3>1, <3>2
  <2>4. Enqueued' = Saving' + Busy' + Written' + CutOff'
    BY <1>4, <1>5, <1>6, <1>7, <2>1, <2>2
  <2> QED
    BY <2>3, <2>4, WriterAccountsNext
<1>9. CASE /\ pstats' = IF storage THEN Count(pstats, "full") ELSE pstats
           /\ pending' = pending /\ cons' = cons
  <2>1. Saving' = Saving
    BY <1>9 DEF Saving
  <2>2. /\ pstats'["ok"] = pstats["ok"] /\ pstats'["failed"] = pstats["failed"]
        /\ pstats'["timeout"] = pstats["timeout"]
        /\ pstats'["enqueued"] = pstats["enqueued"]
        /\ storage => pstats'["full"] = pstats["full"] + 1
    BY <1>9 DEF Count, TypeOK
  <2>3. Enqueued' = Enqueued /\ Written' = Written
    BY <1>9, <2>2 DEF Enqueued, Written
  <2>4. storage' => consumed' = Enqueued' + pstats'["full"]
    BY <1>1, <1>6, <1>7, <2>2, <2>3
  <2>5. Enqueued' = Saving' + Busy' + Written' + CutOff'
    BY <1>4, <1>5, <1>7, <2>1, <2>3
  <2> QED
    BY <2>4, <2>5, WriterAccountsNext
<1> QED
  BY <1>1, <1>8, <1>9 DEF SaveOutcome

\* Counting the outcome later leaves the sum alone.
LEMMA ConsCountPersistence ==
  ASSUME SafeInv, SafeInv', PersistenceAccounts, ConsCount
  PROVE  PersistenceAccounts'
<1> USE DeliveryAssumption DEF SafeInv
<1>1. /\ cons = "count" /\ cons' = "select" /\ pstats' = Count(pstats, "enqueued")
      /\ UNCHANGED <<storage, stage, consumed, pending, writer>>
  BY DEF ConsCount
<1>2. /\ pstats'["ok"] = pstats["ok"] /\ pstats'["failed"] = pstats["failed"]
      /\ pstats'["timeout"] = pstats["timeout"] /\ pstats'["full"] = pstats["full"]
      /\ pstats'["enqueued"] = pstats["enqueued"] + 1
      /\ pstats["enqueued"] \in Nat
  BY <1>1 DEF Count, TypeOK
<1>3. Enqueued' = Enqueued
  BY <1>1, <1>2 DEF Enqueued
<1>4. Saving' = Saving /\ Busy' = Busy /\ CutOff' = CutOff /\ Written' = Written
  BY <1>1, <1>2 DEF Saving, Busy, BusyWriters, CutOff, Gone, Written
<1>5. /\ storage => consumed = Enqueued + pstats["full"]
      /\ Enqueued = Saving + Busy + Written + CutOff
  BY WriterAccountsForm
<1> QED
  BY <1>1, <1>2, <1>3, <1>4, <1>5, WriterAccountsNext

\* The consumer ends; it has nothing left to count.
LEMMA ConsumerEndsPersistence ==
  ASSUME SafeInv, SafeInv', PersistenceAccounts, ConsExits \/ AbortConsumer
  PROVE  PersistenceAccounts'
<1> USE DeliveryAssumption DEF SafeInv
<1>1. /\ cons = "select" /\ cons' = "exited"
      /\ UNCHANGED <<storage, consumed, pending, writer, pstats>>
  BY DEF ConsExits, AbortConsumer, writerVars
<1>2. Enqueued' = Enqueued
  BY <1>1 DEF Enqueued
<1>3. Saving' = Saving /\ Busy' = Busy /\ Written' = Written
  BY <1>1 DEF Saving, Busy, BusyWriters, Written
<1>4. CutOff' = CutOff
  <2>1. CASE ConsExits
    BY <2>1 DEF ConsExits, CutOff, Gone
  <2>2. CASE AbortConsumer
    <3>1. \A q \in Requests : stage'[q] = IF q \in Items(outcomes) THEN "discarded" ELSE stage[q]
      BY <2>2 DEF AbortConsumer, Drop
    <3>2. Items(outcomes) \in SUBSET Requests
          /\ \A q \in Items(outcomes) : stage[q] = "outcome"
      <4>1. outcomes \in Seq(Requests)
        BY DEF TypeOK
      <4>2. Items(outcomes) \in SUBSET Requests
        BY <4>1 DEF Items
      <4> QED
        BY <4>2 DEF PlaceInv
    <3>3. \A q \in Items(outcomes) : stage[q] \notin {"cutOff"}
      BY <3>2
    <3> QED
      BY <3>1, <3>2, <3>3, GoneUnswept DEF CutOff
  <2> QED
    BY <2>1, <2>2
<1>5. /\ storage => consumed = Enqueued + pstats["full"]
      /\ Enqueued = Saving + Busy + Written + CutOff
  BY WriterAccountsForm
<1> QED
  BY <1>1, <1>2, <1>3, <1>4, <1>5, WriterAccountsNext

\* An outcome that a worker receives is being written instead of queued.
LEMMA WriterReceivePersistence ==
  ASSUME SafeInv, SafeInv', PersistenceAccounts, NEW w \in Writers, WriterReceive(w)
  PROVE  PersistenceAccounts'
<1> USE DeliveryAssumption DEF SafeInv
<1>1. /\ pending \in Seq(Requests) /\ pending # <<>> /\ pending' = Tail(pending)
      /\ writer[w] = "idle" /\ writer' = [writer EXCEPT ![w] = Head(pending)]
      /\ writer \in [Writers -> Requests \cup {"idle", "exited"}]
      /\ UNCHANGED <<storage, cons, consumed, pstats>>
  BY DEF WriterReceive, TypeOK, outcomeVars
<1>2. /\ Head(pending) \in Requests /\ Head(pending) \in Items(pending)
      /\ Len(pending') = Len(pending) - 1
  BY <1>1, TailItems
<1>3. /\ stage[Head(pending)] = "pending" /\ stage'[Head(pending)] = "writing"
      /\ \A q \in Requests \ {Head(pending)} : stage'[q] = stage[q]
  BY <1>2, SMTT(30) DEF WriterReceive, Move, PlaceInv, TypeOK
<1>4. CutOff' = CutOff
  BY <1>2, <1>3, GoneStays DEF CutOff
<1>5. Saving' = Saving - 1
  BY <1>2 DEF Saving
<1>6. Busy' = Busy + 1
  <2>1. w \notin BusyWriters
    BY <1>1 DEF BusyWriters
  <2>2. BusyWriters' = BusyWriters \cup {w}
    BY <1>1, <1>2 DEF BusyWriters
  <2>3. Cardinality(BusyWriters \cup {w}) = Cardinality(BusyWriters) + 1
    BY <2>1, Numbers, FS_AddElement
  <2> QED
    BY <2>2, <2>3 DEF Busy
<1>7. Enqueued' = Enqueued /\ Written' = Written /\ pstats'["full"] = pstats["full"]
  BY <1>1 DEF Enqueued, Written
<1>8. /\ storage => consumed = Enqueued + pstats["full"]
      /\ Enqueued = Saving + Busy + Written + CutOff
  BY WriterAccountsForm
<1>9. Enqueued' = Saving' + Busy' + Written' + CutOff'
  BY <1>4, <1>5, <1>6, <1>7, <1>8, WriterNumbers
<1> QED
  BY <1>1, <1>7, <1>8, <1>9, WriterAccountsNext

\* A write that ends is counted under what became of it.
LEMMA WriterEndsPersistence ==
  ASSUME SafeInv, SafeInv', PersistenceAccounts, NEW w \in Writers, WriterEnds(w)
  PROVE  PersistenceAccounts'
<1> USE DeliveryAssumption DEF SafeInv
<1>1. /\ writer[w] \in Requests /\ writer' = [writer EXCEPT ![w] = "idle"]
      /\ writer \in [Writers -> Requests \cup {"idle", "exited"}]
      /\ UNCHANGED <<storage, cons, consumed, pending>>
  BY DEF WriterEnds, TypeOK, outcomeVars
<1>2. /\ stage[writer[w]] = "writing" /\ stage'[writer[w]] = "done"
      /\ \A q \in Requests \ {writer[w]} : stage'[q] = stage[q]
  BY <1>1 DEF WriterEnds, Move, PlaceInv, TypeOK
<1>3. CutOff' = CutOff
  BY <1>1, <1>2, GoneStays DEF CutOff
<1>4. Busy' = Busy - 1
  <2>1. w \in BusyWriters
    BY <1>1 DEF BusyWriters
  <2>2. BusyWriters' = BusyWriters \ {w}
    BY <1>1 DEF BusyWriters
  <2>3. Cardinality(BusyWriters \ {w}) = Cardinality(BusyWriters) - 1
    BY <2>1, Numbers, FS_RemoveElement
  <2> QED
    BY <2>2, <2>3 DEF Busy
<1>5. /\ Written' = Written + 1 /\ pstats'["full"] = pstats["full"]
      /\ pstats'["enqueued"] = pstats["enqueued"]
  <2>1. PICK c \in {"ok", "failed", "timeout"} : pstats' = [pstats EXCEPT ![c] = @ + 1]
    BY DEF WriterEnds, Count
  <2>2. pstats \in [{"enqueued", "full", "ok", "failed", "timeout"} -> Nat]
    BY DEF TypeOK
  <2>3. CASE c = "ok"
    BY <2>1, <2>2, <2>3 DEF Written
  <2>4. CASE c = "failed"
    BY <2>1, <2>2, <2>4 DEF Written
  <2>5. CASE c = "timeout"
    BY <2>1, <2>2, <2>5 DEF Written
  <2> QED
    BY <2>3, <2>4, <2>5
<1>6. Enqueued' = Enqueued /\ Saving' = Saving
  BY <1>1, <1>5 DEF Enqueued, Saving
<1>7. /\ storage => consumed = Enqueued + pstats["full"]
      /\ Enqueued = Saving + Busy + Written + CutOff
  BY WriterAccountsForm
<1>8. Enqueued' = Saving' + Busy' + Written' + CutOff'
  BY <1>3, <1>4, <1>5, <1>6, <1>7, WriterNumbers
<1> QED
  BY <1>1, <1>5, <1>6, <1>7, <1>8, WriterAccountsNext

\* A worker that ends has nothing in its hands.
LEMMA WriterExitsPersistence ==
  ASSUME SafeInv, SafeInv', PersistenceAccounts, NEW w \in Writers, WriterExits(w)
  PROVE  PersistenceAccounts'
<1> USE DeliveryAssumption DEF SafeInv
<1>1. /\ writer[w] = "idle" /\ writer' = [writer EXCEPT ![w] = "exited"]
      /\ writer \in [Writers -> Requests \cup {"idle", "exited"}]
      /\ UNCHANGED <<storage, stage, cons, consumed, pending, pstats>>
  BY DEF WriterExits, TypeOK, outcomeVars
<1>2. BusyWriters' = BusyWriters
  BY <1>1 DEF BusyWriters
<1>3. /\ Enqueued' = Enqueued /\ Saving' = Saving /\ Busy' = Busy
      /\ Written' = Written /\ CutOff' = CutOff
  BY <1>1, <1>2 DEF Enqueued, Saving, Busy, Written, CutOff, Gone
<1>4. /\ storage => consumed = Enqueued + pstats["full"]
      /\ Enqueued = Saving + Busy + Written + CutOff
  BY WriterAccountsForm
<1> QED
  BY <1>1, <1>3, <1>4, WriterAccountsNext

\* What a worker was writing is cut off with it, and the queue with the last.
LEMMA WriterTimeoutPersistence ==
  ASSUME SafeInv, SafeInv', PersistenceAccounts, NEW w \in Writers, WriterTimeout(w)
  PROVE  PersistenceAccounts'
<1> USE DeliveryAssumption DEF SafeInv
<1>1. /\ writer[w] # "exited" /\ writer' = [writer EXCEPT ![w] = "exited"]
      /\ writer \in [Writers -> Requests \cup {"idle", "exited"}]
      /\ pending \in Seq(Requests) /\ NoDup(pending)
      /\ UNCHANGED <<storage, cons, consumed, pstats>>
  BY DEF WriterTimeout, AbortWriter, TypeOK, PlaceInv, outcomeVars
<1> DEFINE W == {writer[w]} \cap Requests
<1>2. IsFiniteSet(W) /\ Cardinality(W) \in Nat /\ Busy' = Busy - Cardinality(W)
  <2>1. CASE writer[w] \in Requests
    <3>1. W = {writer[w]}
      BY <2>1
    <3>2. IsFiniteSet(W) /\ Cardinality(W) = 1
      <4>1. IsFiniteSet({writer[w]}) /\ Cardinality({writer[w]}) = 1
        BY FS_Singleton
      <4> HIDE DEF W
      <4> QED
        BY <3>1, <4>1
    <3>3. w \in BusyWriters /\ BusyWriters' = BusyWriters \ {w}
      BY <1>1, <2>1 DEF BusyWriters
    <3>4. Cardinality(BusyWriters \ {w}) = Cardinality(BusyWriters) - 1
      BY <3>3, Numbers, FS_RemoveElement
    <3> QED
      BY <3>2, <3>3, <3>4 DEF Busy
  <2>2. CASE writer[w] \notin Requests
    <3>1. W = {}
      BY <2>2
    <3>2. IsFiniteSet(W) /\ Cardinality(W) = 0
      BY <3>1, FS_EmptySet
    <3>3. BusyWriters' = BusyWriters
      BY <1>1, <2>2 DEF BusyWriters
    <3>4. Busy' = Busy /\ Busy \in Nat
      BY <3>3, WriterNumbers DEF Busy
    <3> QED
      BY <3>2, <3>4
  <2> QED
    BY <2>1, <2>2
<1>3. /\ W \in SUBSET Requests /\ \A q \in W : stage[q] = "writing"
      /\ Items(pending) \in SUBSET Requests /\ \A q \in Items(pending) : stage[q] = "pending"
  BY <1>1 DEF Items, PlaceInv
<1>4. IsFiniteSet(Items(pending)) /\ Cardinality(Items(pending)) = Len(pending)
  BY <1>1, ItemsCount
<1>5. \/ /\ \A q \in Requests : stage'[q] = IF q \in W \cup Items(pending) THEN "cutOff" ELSE stage[q]
         /\ pending' = <<>>
      \/ /\ \A q \in Requests : stage'[q] = IF q \in W THEN "cutOff" ELSE stage[q]
         /\ pending' = pending
  BY DEF WriterTimeout, AbortWriter, Drop
<1> HIDE DEF W
<1>6. /\ Saving \in Nat /\ Busy \in Nat /\ Written \in Nat /\ CutOff \in Nat
      /\ Enqueued \in Nat
  BY WriterNumbers
<1> DEFINE n == Cardinality(W)
<1>7. n \in Nat /\ Busy' = Busy - n
  BY <1>2
<1>8. \/ Saving' = 0 /\ CutOff' = CutOff + n + Saving
      \/ Saving' = Saving /\ CutOff' = CutOff + n
  <2>1. CASE /\ \A q \in Requests : stage'[q] = IF q \in W \cup Items(pending) THEN "cutOff" ELSE stage[q]
             /\ pending' = <<>>
    <3>1. /\ W \cup Items(pending) \in SUBSET Requests
          /\ \A q \in W \cup Items(pending) : stage[q] \notin {"cutOff"}
      BY <1>3
    <3>2. CutOff' = CutOff + Cardinality(W \cup Items(pending))
      BY <2>1, <3>1, GoneSwept DEF CutOff
    <3>3. W \cap Items(pending) = {}
      BY <1>3
    <3>4. Cardinality(W \cap Items(pending)) = 0
      BY <3>3, FS_EmptySet
    <3>5. Cardinality(W \cup Items(pending)) =
            Cardinality(W) + Cardinality(Items(pending)) - Cardinality(W \cap Items(pending))
      BY <1>2, <1>4, FS_Union
    <3>6. Cardinality(Items(pending)) = Saving
      BY <1>4 DEF Saving
    <3> DEFINE m == Cardinality(W \cup Items(pending))
    <3>7. m = n + Saving
      BY <1>6, <1>7, <3>4, <3>5, <3>6
    <3>8. Saving' = 0
      BY <2>1, NoItems DEF Saving
    <3> HIDE DEF n, m
    <3>9. CutOff' = CutOff + m
      BY <3>2 DEF m
    <3> QED
      BY <1>6, <1>7, <3>7, <3>8, <3>9
  <2>2. CASE /\ \A q \in Requests : stage'[q] = IF q \in W THEN "cutOff" ELSE stage[q]
             /\ pending' = pending
    <3>1. \A q \in W : stage[q] \notin {"cutOff"}
      BY <1>3
    <3>2. CutOff' = CutOff + n
      BY <1>3, <2>2, <3>1, GoneSwept DEF CutOff
    <3>3. Saving' = Saving
      BY <2>2 DEF Saving
    <3> HIDE DEF n
    <3> QED
      BY <1>6, <1>7, <3>2, <3>3
  <2> QED
    BY <1>5, <2>1, <2>2
<1> HIDE DEF n
<1>9. Enqueued' = Enqueued /\ Written' = Written
  BY <1>1 DEF Enqueued, Written
<1>10. /\ storage => consumed = Enqueued + pstats["full"]
       /\ Enqueued = Saving + Busy + Written + CutOff
  BY WriterAccountsForm
<1>11. Enqueued' = Saving' + Busy' + Written' + CutOff'
  <2>1. CASE Saving' = 0 /\ CutOff' = CutOff + n + Saving
    BY <1>6, <1>7, <1>9, <1>10, <2>1
  <2>2. CASE Saving' = Saving /\ CutOff' = CutOff + n
    BY <1>6, <1>7, <1>9, <1>10, <2>2
  <2> QED
    BY <1>8, <2>1, <2>2
<1> QED
  BY <1>1, <1>9, <1>10, <1>11, WriterAccountsNext

-----------------------------------------------------------------------------
(* The theorems.                                                           *)

\* A request that is gone without a trace was cut off by the shutdown.
LEMMA GoneIsSignalled ==
  ASSUME SafeInv
  PROVE  Gone(Lost) > 0 => Signalled
<1> DEFINE G == {r \in Requests : stage[r] \in Lost}
<1>1. G = {} => Gone(Lost) = 0
  BY FS_EmptySet DEF Gone
<1>2. G # {} => Signalled
  BY DEF SafeInv, TaskInv
<1>3. G = {} => ~(Gone(Lost) > 0)
  BY <1>1
<1> QED
  BY <1>2, <1>3

\* Every step leaves each request in one place.
LEMMA NextSafe ==
  ASSUME SafeInv, Next
  PROVE  SafeInv'
BY TryForwardKeeps, RecordAcceptanceKeeps, TaskSendKeeps, TaskEndKeeps, TaskAbortedKeeps,
   FwdReceiveKeeps, FwdSpawnKeeps, FwdSeesShutdownKeeps, FwdExitsKeeps, AbortDoneKeeps,
   DrainTimeoutKeeps, ConsReceiveKeeps, ConsCountKeeps, ConsSeesShutdownKeeps, ConsExitsKeeps,
   WriterReceiveKeeps, WriterEndsKeeps, WriterExitsKeeps, WriterTimeoutKeeps,
   ShutdownBeginsKeeps, JoinForwarderKeeps, AbortForwarderKeeps, JoinConsumerKeeps,
   AbortConsumerKeeps, JoinWritersKeeps
   DEF Next, Forwarder, Consumer, Writer, Driver

\* Every step keeps the counters of the forwarder balanced.
LEMMA NextForwarder ==
  ASSUME SafeInv, AcceptedAccounts, SettledAccounts, Next
  PROVE  (AcceptedAccounts /\ SettledAccounts)'
<1>1. CASE \E r \in Requests : TaskSend(r)
  BY <1>1, QuietAccounts DEF TaskSend, fwdVars, outcomeVars
<1>2. CASE FwdSeesShutdown \/ FwdExits \/ AbortDone
  BY <1>2, QuietAccounts DEF FwdSeesShutdown, FwdExits, AbortDone, taskVars, outcomeVars
<1>3. CASE ConsCount \/ ConsSeesShutdown \/ ConsExits
  BY <1>3, QuietAccounts DEF ConsCount, ConsSeesShutdown, ConsExits, fwdVars, taskVars
<1>4. CASE ShutdownBegins \/ JoinForwarder \/ JoinConsumer \/ JoinWriters
  BY <1>4, QuietAccounts
     DEF ShutdownBegins, JoinForwarder, JoinConsumer, JoinWriters, fwdVars, taskVars, outcomeVars
<1>5. CASE DrainTimeout \/ AbortForwarder
  BY <1>5, ForwarderDropsAccounts DEF DrainTimeout, AbortForwarder, taskVars, outcomeVars
<1>6. CASE \E r \in Requests : TryForward(r) \/ RecordAcceptance(r)
  BY <1>6, TryForwardAccounts, RecordAcceptanceAccounts
<1>7. CASE \E r \in Requests : TaskEnd(r) \/ TaskAborted(r)
  BY <1>7, TaskEndAccounts, TaskAbortedAccounts
<1>8. CASE FwdReceive \/ FwdSpawn
  BY <1>8, FwdReceiveAccounts, FwdSpawnAccounts
<1>9. CASE ConsReceive \/ AbortConsumer
  BY <1>9, ConsReceiveAccounts, AbortConsumerAccounts
<1>10. CASE \E w \in Writers : Writer(w) \/ WriterTimeout(w)
  BY <1>10, WriterForwarderAccounts
<1> QED
  BY <1>1, <1>2, <1>3, <1>4, <1>5, <1>6, <1>7, <1>8, <1>9, <1>10
     DEF Next, Forwarder, Consumer, Driver

\* Every step keeps the counters of the persistence writer balanced.
LEMMA NextPersistence ==
  ASSUME SafeInv, SafeInv', PersistenceAccounts, Next
  PROVE  PersistenceAccounts'
<1>1. CASE ConsReceive
  BY <1>1, ConsReceivePersistence
<1>2. CASE ConsCount
  BY <1>2, ConsCountPersistence
<1>3. CASE ConsExits \/ AbortConsumer
  BY <1>3, ConsumerEndsPersistence
<1>4. CASE \E w \in Writers : Writer(w)
  BY <1>4, WriterReceivePersistence, WriterEndsPersistence, WriterExitsPersistence DEF Writer
<1>5. CASE \E w \in Writers : WriterTimeout(w)
  BY <1>5, WriterTimeoutPersistence
<1> DEFINE Untouched ==
      /\ UNCHANGED <<storage, consumed, pending, writer, pstats, cons>>
      /\ \A q \in Requests : stage'[q] = "cutOff" <=> stage[q] = "cutOff"
<1>6. Untouched => PersistenceAccounts'
  BY OtherPersistence
<1>7. CASE \E r \in Requests : TaskSend(r) \/ RecordAcceptance(r)
  <2>1. Untouched
    BY <1>7 DEF TaskSend, RecordAcceptance, outcomeVars, writerVars
  <2> QED
    BY <1>6, <2>1
<1>8. CASE \/ FwdSeesShutdown \/ FwdExits \/ AbortDone \/ ConsSeesShutdown
           \/ ShutdownBegins \/ JoinForwarder \/ JoinConsumer \/ JoinWriters
  <2>1. Untouched
    BY <1>8 DEF FwdSeesShutdown, FwdExits, AbortDone, ConsSeesShutdown, ShutdownBegins,
                JoinForwarder, JoinConsumer, JoinWriters, outcomeVars, writerVars
  <2> QED
    BY <1>6, <2>1
<1>9. CASE DrainTimeout \/ AbortForwarder
  <2>1. \A q \in Requests :
          stage'[q] = IF q \in Items(queue) \cup Holding THEN "lost" ELSE stage[q]
    BY <1>9 DEF DrainTimeout, AbortForwarder, Drop
  <2>2. \A q \in Requests :
          q \in Items(queue) \cup Holding => stage[q] \in {"queue", "held"}
    BY DEF SafeInv, PlaceInv, Holding
  <2>3. \A q \in Requests : stage'[q] = "cutOff" <=> stage[q] = "cutOff"
    BY <2>1, <2>2
  <2>4. Untouched
    BY <1>9, <2>3 DEF DrainTimeout, AbortForwarder, outcomeVars, writerVars
  <2> QED
    BY <1>6, <2>4
<1>10. CASE \E r \in Requests : TryForward(r) \/ TaskEnd(r) \/ TaskAborted(r)
  <2>1. PICK r \in Requests : TryForward(r) \/ TaskEnd(r) \/ TaskAborted(r)
    BY <1>10
  <2>2. /\ stage[r] \in {"new", "task"}
        /\ \E s \in {"queue", "refused", "outcome", "unreported", "aborted", "vanished"} :
             Move(r, s)
    BY <2>1 DEF TryForward, TaskEnd, TaskAborted, ReportOutcome, SafeInv, PlaceInv
  <2>3. \A q \in Requests : stage'[q] = "cutOff" <=> stage[q] = "cutOff"
    BY <2>2 DEF Move, SafeInv, TypeOK
  <2>4. Untouched
    BY <2>1, <2>3 DEF TryForward, TaskEnd, TaskAborted, outcomeVars, writerVars
  <2> QED
    BY <1>6, <2>4
<1>11. CASE FwdReceive
  <2>1. Head(queue) \in Requests /\ Head(queue) \in Items(queue)
    <3>1. queue \in Seq(Requests) /\ queue # <<>>
      BY <1>11 DEF FwdReceive, SafeInv, TypeOK
    <3> QED
      BY <3>1, TailItems
  <2>2. stage[Head(queue)] = "queue" /\ Move(Head(queue), "held")
    BY <1>11, <2>1 DEF FwdReceive, SafeInv, PlaceInv
  <2>3. \A q \in Requests : stage'[q] = "cutOff" <=> stage[q] = "cutOff"
    BY <2>1, <2>2 DEF Move, SafeInv, TypeOK
  <2>4. Untouched
    BY <1>11, <2>3 DEF FwdReceive, outcomeVars, writerVars
  <2> QED
    BY <1>6, <2>4
<1>12. CASE FwdSpawn
  <2>1. held \in Requests /\ stage[held] = "held" /\ Move(held, "task")
    BY <1>12 DEF FwdSpawn, SafeInv, PlaceInv, TypeOK
  <2>2. \A q \in Requests : stage'[q] = "cutOff" <=> stage[q] = "cutOff"
    BY <2>1 DEF Move, SafeInv, TypeOK
  <2>3. Untouched
    BY <1>12, <2>2 DEF FwdSpawn, outcomeVars, writerVars
  <2> QED
    BY <1>6, <2>3
<1> HIDE DEF Untouched
<1> QED
  BY <1>1, <1>2, <1>3, <1>4, <1>5, <1>7, <1>8, <1>9, <1>10, <1>11, <1>12
     DEF Next, Forwarder, Consumer, Driver

\* The invariant is inductive.
LEMMA NextIInv == IInv /\ [Next]_vars => IInv'
<1> SUFFICES ASSUME IInv, [Next]_vars
             PROVE  IInv'
  OBVIOUS
<1>1. SafeInv /\ AcceptedAccounts /\ SettledAccounts /\ PersistenceAccounts
  BY DEF IInv, ForwarderAccounts, AcceptedAccounts, SettledAccounts
<1>2. CASE Next
  <2>1. SafeInv'
    BY <1>1, <1>2, NextSafe
  <2>2. (AcceptedAccounts /\ SettledAccounts)'
    BY <1>1, <1>2, NextForwarder
  <2>3. PersistenceAccounts'
    BY <1>1, <1>2, <2>1, NextPersistence
  <2>4. (Gone(Lost) > 0 => Signalled)'
    BY <2>1, GoneIsSignalled, PTL
  <2> QED
    BY <2>1, <2>2, <2>3, <2>4
       DEF IInv, ForwarderAccounts, AcceptedAccounts, SettledAccounts
<1>3. CASE UNCHANGED vars
  <2> USE <1>3 DEF vars
  <2>1. TypeOK'
    BY <1>1 DEF SafeInv, TypeOK
  <2>2. PlaceInv' /\ ResultInv'
    BY <1>1 DEF SafeInv, PlaceInv, ResultInv
  <2>3. TaskInv' /\ Permits'
    BY <1>1 DEF SafeInv, TaskInv, Permits, Signalled
  <2>4. Settled' = Settled /\ Holding' = Holding /\ Enqueued' = Enqueued
    BY DEF Settled, Holding, Enqueued
  <2>5. \A T : Gone(T)' = Gone(T)
    BY DEF Gone
  <2>6. ForwarderAccounts'
    BY <2>4, <2>5 DEF IInv, ForwarderAccounts, Signalled
  <2>7. PersistenceAccounts'
    BY <2>4, <2>5 DEF IInv, PersistenceAccounts
  <2> QED
    BY <2>1, <2>2, <2>3, <2>6, <2>7 DEF IInv, SafeInv
<1> QED
  BY <1>2, <1>3

\* In every state of every behaviour a request is in exactly one place, its
\* result and its row agree with what the sink has seen, and the counters of
\* the forwarder and of the persistence writer balance.
THEOREM Invariant == Spec => []IInv
BY InitIInv, NextIInv, PTL DEF Spec

\* Every variable keeps its type; in particular the semaphore never has more
\* than max_in_flight permits to give.
THEOREM TypesHold == Spec => []TypeOK
<1>1. IInv => TypeOK
  BY DEF IInv, SafeInv
<1> QED
  BY <1>1, Invariant, PTL

\* ForwarderStats add up at every moment, whatever the capacities and however
\* the drain of the shutdown and its timeouts interleave with the deliveries.
THEOREM ForwarderAccountsHold == Spec => []ForwarderAccounts
<1>1. IInv => ForwarderAccounts
  BY DEF IInv
<1> QED
  BY <1>1, Invariant, PTL

\* PersistenceWriterStats add up, however many workers share the queue and
\* whichever of them the shutdown aborts.
THEOREM PersistenceAccountsHold == Spec => []PersistenceAccounts
<1>1. IInv => PersistenceAccounts
  BY DEF IInv
<1> QED
  BY <1>1, Invariant, PTL

\* Only the task of a request calls its sink.
LEMMA CallsChange ==
  ASSUME Next, calls' # calls
  PROVE  \E r \in Requests : TaskSend(r)
<1> USE DEF fwdVars, taskVars, outcomeVars, writerVars, driverVars
<1>1. ASSUME NEW r \in Requests,
             TryForward(r) \/ RecordAcceptance(r) \/ TaskEnd(r) \/ TaskAborted(r)
      PROVE  FALSE
  BY <1>1 DEF TryForward, RecordAcceptance, TaskEnd, TaskAborted
<1>2. ASSUME Forwarder \/ DrainTimeout PROVE FALSE
  BY <1>2 DEF Forwarder, FwdReceive, FwdSpawn, FwdSeesShutdown, FwdExits, AbortDone, DrainTimeout
<1>3. ASSUME Consumer PROVE FALSE
  BY <1>3 DEF Consumer, ConsReceive, ConsCount, ConsSeesShutdown, ConsExits
<1>4. ASSUME NEW w \in Writers, Writer(w) \/ WriterTimeout(w) PROVE FALSE
  BY <1>4 DEF Writer, WriterReceive, WriterEnds, WriterExits, WriterTimeout
<1>5. ASSUME Driver PROVE FALSE
  BY <1>5 DEF Driver, ShutdownBegins, JoinForwarder, AbortForwarder, JoinConsumer,
              AbortConsumer, JoinWriters
<1> QED
  BY <1>1, <1>2, <1>3, <1>4, <1>5 DEF Next

\* A sink is called only for a request that a delivery task has and that has no
\* outcome yet, by no more than max_in_flight tasks at a time, and not after the
\* forwarder has ended unless shutdown() reports an error.
THEOREM NoLateCallHolds == Spec => NoLateCall
<1> DEFINE OnTime(r) == /\ stage[r] = "task" /\ result[r] = None /\ row[r] = None
                        /\ fwd = "exited" => error
                        /\ Cardinality({q \in Requests : stage[q] = "task"}) <= MaxInFlight
<1>1. ASSUME IInv, [Next]_vars
      PROVE  [\A r \in Requests : calls'[r] # calls[r] => OnTime(r)]_vars
  <2> SUFFICES ASSUME Next, NEW r \in Requests, calls'[r] # calls[r] PROVE OnTime(r)
    BY <1>1
  <2>1. PICK t \in Requests : TaskSend(t)
    BY CallsChange
  <2>2. t \in tasks /\ t = r
    BY <2>1 DEF TaskSend, IInv, SafeInv, TypeOK
  <2>3. stage[r] = "task" /\ result[r] = None /\ row[r] = None
    BY <1>1, <2>2 DEF IInv, SafeInv, PlaceInv, ResultInv
  <2>4. fwd = "exited" => error
    BY <1>1, <2>2 DEF IInv, SafeInv, TaskInv, TypeOK
  <2>5. {q \in Requests : stage[q] = "task"} = tasks
    BY <1>1 DEF IInv, SafeInv, PlaceInv, TypeOK
  <2>6. Cardinality(tasks) \in Nat /\ permits \in Nat /\ MaxInFlight \in Nat
    BY <1>1, Numbers, DeliveryAssumption DEF IInv, SafeInv, TypeOK
  <2>7. permits + Cardinality(tasks) = MaxInFlight
    BY <1>1 DEF IInv, SafeInv, Permits
  <2>8. Cardinality(tasks) <= MaxInFlight
    BY <2>6, <2>7
  <2> QED
    BY <2>3, <2>4, <2>5, <2>8
<1> QED
  BY <1>1, Invariant, PTL DEF Spec, NoLateCall

\* A row of sink_delivery_outcomes has the status the delivery ended with, and
\* says answered only if the sink got the request, also when the write that
\* made it was counted as failed or cut off.
THEOREM RowsTruthfulHolds == Spec => []RowsTruthful
<1>1. IInv => RowsTruthful
  BY DEF IInv, SafeInv, ResultInv, RowsTruthful
<1> QED
  BY <1>1, Invariant, PTL

\* When ProjectRuntime::shutdown returns without an error the queue, the
\* outcome channel and the persistence queue are empty, no delivery task is
\* left and every persistence worker has ended.
THEOREM StoppedIsQuietHolds == Spec => []StoppedIsQuiet
<1>1. IInv => StoppedIsQuiet
  BY DEF IInv, SafeInv, PlaceInv, TaskInv, StoppedIsQuiet
<1> QED
  BY <1>1, Invariant, PTL
=============================================================================
