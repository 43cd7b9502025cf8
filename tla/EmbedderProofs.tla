--------------------------- MODULE EmbedderProofs ---------------------------
(***************************************************************************)
(* Proofs about the embedding service, for any number of requests.         *)
(***************************************************************************)
EXTENDS EmbedderService, FiniteSetTheorems, TLAPS

RegisteredQueries == {q \in Queries : Registered(q)}

(* A process that is down serves nobody. *)
DownIsEmpty == (server = "down") => \A r \in Requests : ~InFlight(r)

ServiceInv ==
    /\ TypeOK
    /\ GpuIsExclusive
    /\ WaitingCountIsExact
    /\ NoLostWakeup
    /\ QueryWaitsForOneBatch
    /\ DownIsEmpty

-----------------------------------------------------------------------------
(* Counting. *)

(* The registered queries are a finite set, no larger than Queries. *)
LEMMA RegisteredFinite ==
    \A S \in SUBSET Queries :
        IsFiniteSet(S) /\ Cardinality(S) \in 0 .. Cardinality(Queries)
  BY FS_Subset, FS_CardinalityType, ServiceAssumption

(* One more. *)
LEMMA CountAdd ==
    ASSUME NEW S \in SUBSET Queries, NEW q \in Queries \ S
    PROVE  Cardinality(S \union {q}) = Cardinality(S) + 1
  BY FS_AddElement, RegisteredFinite

(* One less, and there was one to take. *)
LEMMA CountRemove ==
    ASSUME NEW S \in SUBSET Queries, NEW q \in S
    PROVE  /\ Cardinality(S \ {q}) = Cardinality(S) - 1
           /\ Cardinality(S) \in Nat \ {0}
  BY FS_RemoveElement, FS_EmptySet, FS_CardinalityType, RegisteredFinite

(* Nobody waiting is a legal count. *)
LEMMA ZeroIsACount ==
    0 \in 0 .. Cardinality(Queries) /\ 0 \in 0 .. IdleTimeout /\ 0 \in 0 .. MaxRaises
  BY FS_EmptySet, RegisteredFinite, ServiceAssumption

(* A zero count means no query is waiting (the second half of the wait condition). *)
LEMMA ZeroMeansNobody ==
    ASSUME ServiceInv, Alive
    PROVE  waiting = 0 <=> \A q \in Queries : ~Registered(q)
  <1>1. RegisteredQueries \in SUBSET Queries
    BY DEF RegisteredQueries
  <1>2. Cardinality(RegisteredQueries) = 0 <=> RegisteredQueries = {}
    BY <1>1, FS_EmptySet, RegisteredFinite
  <1> QED
    BY <1>2 DEF ServiceInv, WaitingCountIsExact, RegisteredQueries

-----------------------------------------------------------------------------
(* Steps of the threads. *)

(* The history stays typed and bounded when a batch is admitted, because no query
   is registered then; and when a query is, because it adds nothing. *)
LEMMA AdmitKeepsBehind ==
    ASSUME ServiceInv, Alive, NEW r \in Requests, CanTake(r), Admit(r)
    PROVE  behind' = behind
  <1>1. behind \in [Queries -> SUBSET Batches]
    BY DEF ServiceInv, TypeOK
  <1>2. r \in Batches => \A q \in Queries : ~Registered(q)
    BY ZeroMeansNobody DEF CanTake
  <1> QED
    BY <1>1, <1>2 DEF Admit

(* Admission keeps the invariant, provided the count is right afterwards. *)
LEMMA AdmitKeepsInv ==
    ASSUME ServiceInv, Alive, NEW r \in Requests, CanTake(r), Admit(r),
           pc[r] \in {"entering", "awake"},
           UNCHANGED <<idle, server, raises>>,
           WaitingCountIsExact'
    PROVE  ServiceInv'
  <1> USE DEF ServiceInv, Alive
  <1>1. behind' = behind
    BY AdmitKeepsBehind
  <1>2. waiting' \in 0 .. Cardinality(Queries)
    <2>1. {q \in Queries : Registered(q)}' \in SUBSET Queries
      OBVIOUS
    <2> QED
      BY <2>1, RegisteredFinite DEF WaitingCountIsExact
  <1>3. TypeOK'
    BY <1>1, <1>2 DEF TypeOK, Admit
  <1>4. GpuIsExclusive'
    BY DEF GpuIsExclusive, Admit, CanTake, TypeOK
  <1>5. NoLostWakeup' /\ QueryWaitsForOneBatch' /\ DownIsEmpty'
    BY <1>1 DEF NoLostWakeup, QueryWaitsForOneBatch, DownIsEmpty, Admit
  <1> QED
    BY <1>3, <1>4, <1>5

(* Admitted on arrival: nobody's registration changes. *)
LEMMA EnterAdmittedKeepsInv ==
    ASSUME ServiceInv, NEW r \in Requests, EnterAdmitted(r)
    PROVE  ServiceInv'
  <1>1. {q \in Queries : Registered(q)}' = {q \in Queries : Registered(q)}
    BY DEF EnterAdmitted, Admit, Registered, ServiceInv, TypeOK
  <1>2. WaitingCountIsExact'
    BY <1>1 DEF ServiceInv, WaitingCountIsExact, EnterAdmitted, Alive
  <1> QED
    BY <1>2, AdmitKeepsInv DEF EnterAdmitted

(* A query that stops waiting takes its count with it; a batch has none. *)
LEMMA LeavingIsCounted ==
    ASSUME ServiceInv, Alive, Alive', NEW r \in Requests, Registered(r),
           {q \in Queries : Registered(q)}' = {q \in Queries : Registered(q)} \ {r},
           waiting' = waiting - Counted(r)
    PROVE  WaitingCountIsExact'
  <1> DEFINE S == {q \in Queries : Registered(q)}
  <1>1. waiting = Cardinality(S) /\ S \in SUBSET Queries /\ Cardinality(S) \in Nat
    BY RegisteredFinite DEF ServiceInv, WaitingCountIsExact
  <1>2. CASE r \in Queries
    <2>1. r \in S
      BY <1>2
    <2>2. Cardinality(S \ {r}) = Cardinality(S) - 1
      BY <1>1, <2>1, CountRemove
    <2> QED
      BY <1>1, <1>2, <2>2 DEF WaitingCountIsExact, Counted
  <1>3. CASE r \notin Queries
    <2>1. S \ {r} = S
      BY <1>3
    <2> QED
      BY <1>1, <1>3, <2>1 DEF WaitingCountIsExact, Counted
  <1> QED
    BY <1>2, <1>3

(* Admitted after waiting: the count goes down by the query that left. *)
LEMMA WakeAdmittedKeepsInv ==
    ASSUME ServiceInv, NEW r \in Requests, WakeAdmitted(r)
    PROVE  ServiceInv'
  <1>1. {q \in Queries : Registered(q)}' = {q \in Queries : Registered(q)} \ {r}
    BY DEF WakeAdmitted, Admit, Registered, ServiceInv, TypeOK
  <1>2. WaitingCountIsExact'
    BY <1>1, LeavingIsCounted DEF WakeAdmitted, Alive, Registered
  <1> QED
    BY <1>2, AdmitKeepsInv DEF WakeAdmitted

(* Parked on arrival: a query is counted and starts its record; a batch that parks
   beside a free GPU does so for a query that is awake. *)
LEMMA EnterParkedKeepsInv ==
    ASSUME ServiceInv, NEW r \in Requests, EnterParked(r)
    PROVE  ServiceInv'
  <1> USE DEF ServiceInv, Alive, EnterParked
  <1> DEFINE S == {q \in Queries : Registered(q)}
  <1>1. waiting = Cardinality(S) /\ S \in SUBSET Queries /\ Cardinality(S) \in Nat
    BY RegisteredFinite DEF WaitingCountIsExact
  <1>2. WaitingCountIsExact'
    <2>1. CASE r \in Queries
      <3>1. S' = S \union {r} /\ r \notin S
        BY <2>1 DEF Registered, TypeOK
      <3>2. Cardinality(S \union {r}) = Cardinality(S) + 1
        BY <1>1, <2>1, <3>1, CountAdd
      <3> QED
        BY <1>1, <2>1, <3>1, <3>2 DEF WaitingCountIsExact, Counted
    <2>2. CASE r \notin Queries
      <3>1. S' = S
        BY <2>2 DEF Registered, TypeOK
      <3>2. waiting' = waiting
        BY <1>1, <2>2 DEF Counted
      <3>3. waiting' = Cardinality(S')
        BY <1>1, <3>1, <3>2
      <3> QED
        BY <3>3 DEF WaitingCountIsExact
    <2> QED
      BY <2>1, <2>2
  <1>3. waiting' \in 0 .. Cardinality(Queries)
    <2>1. S' \in SUBSET Queries
      OBVIOUS
    <2> QED
      BY <1>2, <2>1, RegisteredFinite DEF WaitingCountIsExact
  <1>4. TypeOK'
    BY <1>3 DEF TypeOK, RunningBatches
  <1>5. GpuIsExclusive'
    BY DEF GpuIsExclusive, TypeOK
  <1>6. NoLostWakeup'
    <2> SUFFICES ASSUME ~busy, NEW s \in Requests, pc'[s] = "parked"
                 PROVE  s \in Batches /\ \E q \in Queries : pc'[q] = "awake"
      BY DEF NoLostWakeup
    <2>1. CASE s # r
      BY <2>1 DEF NoLostWakeup, TypeOK
    <2>2. CASE s = r
      <3>1. r \in Batches /\ waiting # 0
        BY <2>2 DEF CanTake
      <3>2. PICK q \in Queries : Registered(q)
        BY <3>1, ZeroMeansNobody
      <3>3. pc[q] = "awake" /\ q # r
        BY <3>2, ServiceAssumption DEF NoLostWakeup, Registered, Requests
      <3> QED
        BY <2>2, <3>1, <3>3 DEF TypeOK, Requests
    <2> QED
      BY <2>1, <2>2
  <1>7. QueryWaitsForOneBatch'
    BY DEF QueryWaitsForOneBatch, RunningBatches, GpuIsExclusive, TypeOK, Requests
  <1>8. DownIsEmpty'
    BY DEF DownIsEmpty
  <1> QED
    BY <1>2, <1>4, <1>5, <1>6, <1>7, <1>8

(* Parked again: as on arrival, without the count. *)
LEMMA WakeParkedKeepsInv ==
    ASSUME ServiceInv, NEW r \in Requests, WakeParked(r)
    PROVE  ServiceInv'
  <1> USE DEF ServiceInv, Alive, WakeParked
  <1>1. {q \in Queries : Registered(q)}' = {q \in Queries : Registered(q)}
    BY DEF Registered, TypeOK
  <1>2. WaitingCountIsExact'
    BY <1>1 DEF WaitingCountIsExact
  <1>3. NoLostWakeup'
    <2> SUFFICES ASSUME ~busy, NEW s \in Requests, pc'[s] = "parked"
                 PROVE  s \in Batches /\ \E q \in Queries : pc'[q] = "awake"
      BY DEF NoLostWakeup
    <2>1. r \in Batches /\ waiting # 0
      BY DEF CanTake
    <2>2. PICK q \in Queries : Registered(q)
      BY <2>1, ZeroMeansNobody
    <2>3. pc[q] = "awake" /\ q # r
      BY <2>1, <2>2, ServiceAssumption DEF NoLostWakeup, Registered, Requests
    <2>4. s \in Batches
      BY <2>1 DEF NoLostWakeup, TypeOK
    <2> QED
      BY <2>3, <2>4 DEF TypeOK, Requests
  <1>4. TypeOK' /\ GpuIsExclusive' /\ QueryWaitsForOneBatch' /\ DownIsEmpty'
    BY DEF TypeOK, GpuIsExclusive, QueryWaitsForOneBatch, DownIsEmpty
  <1> QED
    BY <1>2, <1>3, <1>4

(* An admission that raises gives its count back and wakes whom it held back. *)
LEMMA AdmissionRaisesKeepsInv ==
    ASSUME ServiceInv, NEW r \in Requests, AdmissionRaises(r)
    PROVE  ServiceInv'
  <1> USE DEF ServiceInv, Alive, AdmissionRaises
  <1> DEFINE S == {q \in Queries : Registered(q)}
  <1>1. /\ pc' \in [Requests -> {"new", "entering", "parked", "awake", "running", "done", "cut"}]
        /\ \A s \in Requests \ {r} :
                \/ pc'[s] = pc[s]
                \/ r \in Queries /\ ~busy /\ pc[s] = "parked" /\ pc'[s] = "awake"
        /\ pc'[r] = "done"
        /\ (r \in Queries /\ ~busy) => \A s \in Requests : pc'[s] # "parked"
        /\ ~(r \in Queries /\ ~busy) => \A s \in Requests \ {r} : pc'[s] = pc[s]
    BY DEF Leaves, NotifyAll, TypeOK
  <1>2. S' = S \ {r}
    BY <1>1 DEF Registered, Requests
  <1>3. WaitingCountIsExact'
    BY <1>2, LeavingIsCounted DEF Leaves, Registered
  <1>4. waiting' \in 0 .. Cardinality(Queries)
    <2>1. S' \in SUBSET Queries
      OBVIOUS
    <2> QED
      BY <1>3, <2>1, RegisteredFinite DEF WaitingCountIsExact
  <1>5. TypeOK'
    BY <1>1, <1>4, ServiceAssumption DEF TypeOK
  <1>6. GpuIsExclusive'
    BY <1>1 DEF GpuIsExclusive
  <1>7. NoLostWakeup'
    <2> SUFFICES ASSUME ~busy, NEW s \in Requests, pc'[s] = "parked"
                 PROVE  s \in Batches /\ \E q \in Queries : pc'[q] = "awake"
      BY DEF NoLostWakeup
    <2>1. r \notin Queries
      BY <1>1
    <2>2. s # r /\ pc[s] = "parked"
      BY <1>1, <2>1
    <2> QED
      BY <1>1, <2>1, <2>2 DEF NoLostWakeup, Requests
  <1>8. QueryWaitsForOneBatch' /\ DownIsEmpty'
    BY DEF QueryWaitsForOneBatch, DownIsEmpty
  <1> QED
    BY <1>3, <1>5, <1>6, <1>7, <1>8

(* Release wakes everybody. *)
LEMMA ReleaseKeepsInv ==
    ASSUME ServiceInv, NEW r \in Requests, Release(r)
    PROVE  ServiceInv'
  <1> USE DEF ServiceInv, Alive, Release
  <1>1. /\ pc' \in [Requests -> {"new", "entering", "parked", "awake", "running", "done", "cut"}]
        /\ \A s \in Requests \ {r} :
                IF pc[s] = "parked" THEN pc'[s] = "awake" ELSE pc'[s] = pc[s]
        /\ pc'[r] = "done"
    BY DEF NotifyAll, TypeOK
  <1>2. {q \in Queries : Registered(q)}' = {q \in Queries : Registered(q)}
    BY <1>1 DEF Registered, Requests
  <1>3. WaitingCountIsExact'
    BY <1>2 DEF WaitingCountIsExact
  <1>4. GpuIsExclusive'
    BY <1>1 DEF GpuIsExclusive
  <1>5. NoLostWakeup'
    BY <1>1 DEF NoLostWakeup
  <1>6. TypeOK' /\ QueryWaitsForOneBatch' /\ DownIsEmpty'
    BY <1>1 DEF TypeOK, QueryWaitsForOneBatch, DownIsEmpty
  <1> QED
    BY <1>3, <1>4, <1>5, <1>6

(* A step that leaves the monitor alone and the process up keeps the invariant. *)
LEMMA ClockKeepsInv ==
    ASSUME ServiceInv, Alive, Alive', TypeOK',
           [r \in Requests |-> Registered(r)]' = [r \in Requests |-> Registered(r)],
           \A r \in Requests : pc'[r] \in {"awake", "parked", "running"} => pc'[r] = pc[r],
           \A r \in Requests : pc[r] \in {"awake", "parked", "running"} => pc'[r] = pc[r],
           UNCHANGED <<busy, waiting, behind>>
    PROVE  ServiceInv'
  <1> USE DEF ServiceInv
  <1>1. {q \in Queries : Registered(q)}' = {q \in Queries : Registered(q)}
    BY DEF Registered, Requests
  <1>2. WaitingCountIsExact'
    BY <1>1 DEF WaitingCountIsExact
  <1>3. GpuIsExclusive' /\ NoLostWakeup'
    BY DEF GpuIsExclusive, NoLostWakeup, Requests
  <1>4. QueryWaitsForOneBatch' /\ DownIsEmpty'
    BY DEF QueryWaitsForOneBatch, DownIsEmpty, Alive
  <1> QED
    BY <1>2, <1>3, <1>4

(* Arrivals, probes and the clock do not touch the monitor. *)
LEMMA OutsideKeepsInv ==
    ASSUME ServiceInv,
           (\E r \in Requests : Arrive(r)) \/ Handshake \/ Tick \/ WatchdogFires
    PROVE  ServiceInv'
  <1>1. Alive /\ Alive' /\ UNCHANGED <<busy, waiting, behind>>
    BY DEF Arrive, Handshake, Tick, WatchdogFires, Alive, monitor
  <1>2. TypeOK'
    BY ServiceAssumption DEF ServiceInv, TypeOK, Arrive, Handshake, Tick, WatchdogFires, monitor
  <1>3. \A r \in Requests :
            \/ pc'[r] = pc[r]
            \/ pc[r] = "new" /\ pc'[r] = "entering"
    BY DEF ServiceInv, TypeOK, Arrive, Handshake, Tick, WatchdogFires, monitor
  <1> QED
    BY <1>1, <1>2, <1>3, ClockKeepsInv DEF Registered

(* The end of the process takes every request in flight with it, and a new one starts empty. *)
LEMMA ServerKeepsInv ==
    ASSUME ServiceInv, ServerExits \/ Boot
    PROVE  ServiceInv'
  <1> USE DEF ServiceInv, Alive
  <1>1. CASE ServerExits
    <2>1. TypeOK'
      BY <1>1 DEF ServerExits, TypeOK
    <2> QED
      BY <1>1, <2>1 DEF ServerExits, GpuIsExclusive, WaitingCountIsExact, NoLostWakeup,
                        QueryWaitsForOneBatch, DownIsEmpty, InFlight
  <1>2. CASE Boot
    <2>1. \A r \in Requests : ~InFlight(r) /\ ~InFlight(r)'
      BY <1>2 DEF Boot, DownIsEmpty, InFlight
    <2>2. {q \in Queries : Registered(q)}' = {}
      BY <2>1 DEF InFlight, Registered, Requests
    <2>3. WaitingCountIsExact'
      BY <1>2, <2>2, FS_EmptySet DEF Boot, WaitingCountIsExact
    <2>4. TypeOK'
      BY <1>2, ZeroIsACount DEF Boot, TypeOK
    <2> QED
      BY <1>2, <2>1, <2>3, <2>4 DEF Boot, GpuIsExclusive, NoLostWakeup,
                        QueryWaitsForOneBatch, DownIsEmpty, InFlight
  <1> QED
    BY <1>1, <1>2

-----------------------------------------------------------------------------
(* The theorems. *)

(* ServiceInv holds in every reachable state of the service, whatever the number
   of queries and batches (gpu, install_idle_watchdog). *)
THEOREM ServiceInvariance == Spec => []ServiceInv
  <1>1. Init => ServiceInv
    <2> SUFFICES ASSUME Init PROVE ServiceInv
      OBVIOUS
    <2>1. {q \in Queries : Registered(q)} = {}
      BY DEF Init, Registered, Requests
    <2>2. WaitingCountIsExact
      BY <2>1, FS_EmptySet DEF Init, WaitingCountIsExact
    <2>3. TypeOK
      BY ZeroIsACount DEF Init, TypeOK
    <2> QED
      BY <2>2, <2>3 DEF Init, ServiceInv, GpuIsExclusive, NoLostWakeup,
                        QueryWaitsForOneBatch, DownIsEmpty
  <1>2. ServiceInv /\ [Next]_vars => ServiceInv'
    <2> SUFFICES ASSUME ServiceInv, [Next]_vars PROVE ServiceInv'
      OBVIOUS
    <2>1. ASSUME NEW r \in Requests, Thread(r) PROVE ServiceInv'
      BY <2>1, EnterAdmittedKeepsInv, EnterParkedKeepsInv, WakeAdmittedKeepsInv,
         WakeParkedKeepsInv, ReleaseKeepsInv DEF Thread
    <2>2. ASSUME NEW r \in Requests, AdmissionRaises(r) PROVE ServiceInv'
      BY <2>2, AdmissionRaisesKeepsInv
    <2>3. CASE (\E r \in Requests : Arrive(r)) \/ Handshake \/ Tick \/ WatchdogFires
      BY <2>3, OutsideKeepsInv
    <2>4. CASE ServerExits \/ Boot
      BY <2>4, ServerKeepsInv
    <2>5. CASE UNCHANGED vars
      BY <2>5 DEF vars, monitor, ServiceInv, TypeOK, GpuIsExclusive, WaitingCountIsExact,
                  NoLostWakeup, QueryWaitsForOneBatch, DownIsEmpty, Alive, Registered, InFlight
    <2> QED
      BY <2>1, <2>2, <2>3, <2>4, <2>5 DEF Next
  <1> QED
    BY <1>1, <1>2, PTL DEF Spec

(* One request at a time holds the model (gpu). *)
THEOREM GpuExclusion == Spec => []GpuIsExclusive
  <1>1. ServiceInv => GpuIsExclusive
    BY DEF ServiceInv
  <1> QED
    BY <1>1, ServiceInvariance, PTL

(* The count of waiting queries is never leaked, not even by an admission that raises (gpu). *)
THEOREM WaitingCount == Spec => []WaitingCountIsExact
  <1>1. ServiceInv => WaitingCountIsExact
    BY DEF ServiceInv
  <1> QED
    BY <1>1, ServiceInvariance, PTL

(* Nobody sleeps beside a free GPU without a query that will wake it (gpu). *)
THEOREM WakeupsAreNotLost == Spec => []NoLostWakeup
  <1>1. ServiceInv => NoLostWakeup
    BY DEF ServiceInv
  <1> QED
    BY <1>1, ServiceInvariance, PTL

(* A registered query waits for one batch at most, for any depth of the queue (gpu). *)
THEOREM QueryBound == Spec => []QueryWaitsForOneBatch
  <1>1. ServiceInv => QueryWaitsForOneBatch
    BY DEF ServiceInv
  <1> QED
    BY <1>1, ServiceInvariance, PTL

-----------------------------------------------------------------------------
(* The monitor implements PriorityLock. *)

(* What the abstract guards say of the monitor: the flag is the lock, and a count
   of zero means that nobody is ahead. *)
LEMMA GuardsCarryOver ==
    ASSUME ServiceInv, Alive
    PROVE  /\ Gpu!Free <=> ~busy
           /\ Gpu!NobodyAhead <=> waiting = 0
           /\ \A r \in Requests : CanTake(r) =>
                  Gpu!Free /\ (r \in Batches => Gpu!NobodyAhead)
  <1>1. \A r \in Requests : phases[r] = "holding" <=> pc[r] = "running"
    BY DEF phases, Phase, Registered
  <1>2. \A q \in Queries : phases[q] = "registered" <=> Registered(q)
    BY DEF phases, Phase, Registered, Requests
  <1>3. Gpu!Free <=> ~busy
    BY <1>1 DEF ServiceInv, GpuIsExclusive, Gpu!Free, Gpu!Requests, Requests
  <1>4. Gpu!NobodyAhead <=> waiting = 0
    BY <1>2, ZeroMeansNobody DEF Gpu!NobodyAhead
  <1> QED
    BY <1>3, <1>4 DEF CanTake

(* A step that takes one request from one place to another, and leaves every other
   request in the phase it was in. *)
Moves(r, to) ==
    /\ Phase(r)' = to
    /\ \A s \in Requests \ {r} : Phase(s)' = Phase(s)

(* Such a step changes one entry of the abstract function. *)
LEMMA MovesOne ==
    ASSUME NEW r \in Requests, NEW to, Moves(r, to)
    PROVE  phases' = [phases EXCEPT ![r] = to]
  <1>1. \A s \in Requests : Phase(s)' = IF s = r THEN to ELSE phases[s]
    BY DEF Moves, phases
  <1> QED
    BY <1>1 DEF phases

(* A step in which every request keeps its phase is not seen. *)
LEMMA KeepsPhases ==
    ASSUME \A s \in Requests : Phase(s)' = Phase(s)
    PROVE  phases' = phases
  BY DEF phases

(* A wake-up is not seen. *)
LEMMA WakingKeepsPhase ==
    ASSUME NEW s \in Requests,
           \/ pc'[s] = pc[s]
           \/ pc[s] \in {"parked", "awake"} /\ pc'[s] \in {"parked", "awake"}
    PROVE  Phase(s)' = Phase(s)
  BY DEF Phase, Registered

(* The phase of a request in each place. *)
LEMMA PhaseOfPlace ==
    ASSUME NEW r \in Requests
    PROVE  /\ pc[r] = "new" <=> Phase(r) = "outside"
           /\ pc[r] = "entering" => Phase(r) = "asking"
           /\ pc[r] = "running" => Phase(r) = "holding"
           /\ Registered(r) => Phase(r) = IF r \in Queries THEN "registered" ELSE "asking"
           /\ pc[r] \in {"done", "cut"} => Phase(r) = "over"
           /\ phases[r] = Phase(r)
  BY DEF Phase, Registered, phases

(* The same of the place a step takes it to. *)
LEMMA PhaseOfNextPlace ==
    ASSUME NEW r \in Requests
    PROVE  /\ pc'[r] = "new" <=> Phase(r)' = "outside"
           /\ pc'[r] = "entering" => Phase(r)' = "asking"
           /\ pc'[r] = "running" => Phase(r)' = "holding"
           /\ pc'[r] \in {"parked", "awake"} =>
                  Phase(r)' = IF r \in Queries THEN "registered" ELSE "asking"
           /\ pc'[r] \in {"done", "cut"} => Phase(r)' = "over"
  BY DEF Phase, Registered

(* Admission is a grant, on arrival and after waiting alike. *)
LEMMA AdmissionIsGrant ==
    ASSUME ServiceInv, NEW r \in Requests, EnterAdmitted(r) \/ WakeAdmitted(r)
    PROVE  Gpu!Grant(r)
  <1>1. Alive /\ CanTake(r) /\ Admit(r) /\ pc[r] \in {"entering", "awake"}
    BY DEF EnterAdmitted, WakeAdmitted
  <1>2. Moves(r, "holding")
    BY <1>1, WakingKeepsPhase, PhaseOfNextPlace DEF Moves, Admit, ServiceInv, TypeOK
  <1>3. phases[r] \in {"asking", "registered"}
    BY <1>1, PhaseOfPlace DEF Registered
  <1> QED
    BY <1>1, <1>2, <1>3, MovesOne, GuardsCarryOver DEF Gpu!Grant

(* A query parks only beside a GPU in use; a batch that parks is not seen. *)
LEMMA ParkingIsRegistering ==
    ASSUME ServiceInv, NEW r \in Requests, EnterParked(r)
    PROVE  IF r \in Queries THEN Gpu!Register(r) ELSE phases' = phases
  <1>1. Alive /\ ~CanTake(r) /\ pc[r] = "entering"
    BY DEF EnterParked
  <1>2. \A s \in Requests \ {r} : Phase(s)' = Phase(s)
    BY WakingKeepsPhase DEF EnterParked, ServiceInv, TypeOK
  <1>3. pc'[r] = "parked"
    BY DEF EnterParked, ServiceInv, TypeOK
  <1>4. CASE r \in Queries
    <2>1. ~Gpu!Free
      BY <1>1, <1>4, GuardsCarryOver, ServiceAssumption DEF CanTake
    <2>2. Moves(r, "registered")
      BY <1>2, <1>3, <1>4, PhaseOfNextPlace DEF Moves
    <2>3. phases[r] = "asking"
      BY <1>1, PhaseOfPlace
    <2> QED
      BY <1>4, <2>1, <2>2, <2>3, MovesOne DEF Gpu!Register
  <1>5. CASE r \notin Queries
    <2>1. Phase(r)' = Phase(r)
      BY <1>1, <1>3, <1>5, PhaseOfPlace, PhaseOfNextPlace
    <2> QED
      BY <1>2, <1>5, <2>1, KeepsPhases
  <1> QED
    BY <1>4, <1>5

(* Leaving: with an answer, or by an exception; whom it wakes is not seen. *)
LEMMA LeavingIsSeenOnce ==
    ASSUME ServiceInv, NEW r \in Requests
    PROVE  /\ Release(r) => Gpu!Return(r)
           /\ AdmissionRaises(r) => Gpu!GiveUp(r)
  <1>1. ASSUME Release(r) PROVE Gpu!Return(r)
    <2>1. Moves(r, "over")
      BY <1>1, WakingKeepsPhase, PhaseOfNextPlace
         DEF Moves, Release, NotifyAll, ServiceInv, TypeOK
    <2>2. phases[r] = "holding"
      BY <1>1, PhaseOfPlace DEF Release
    <2> QED
      BY <2>1, <2>2, MovesOne DEF Gpu!Return
  <1>2. ASSUME AdmissionRaises(r) PROVE Gpu!GiveUp(r)
    <2>1. Moves(r, "over")
      BY <1>2, WakingKeepsPhase, PhaseOfNextPlace
         DEF Moves, AdmissionRaises, Leaves, NotifyAll, ServiceInv, TypeOK
    <2>2. phases[r] \in {"asking", "registered"}
      BY <1>2, PhaseOfPlace DEF AdmissionRaises, Registered
    <2> QED
      BY <2>1, <2>2, MovesOne DEF Gpu!GiveUp
  <1> QED
    BY <1>1, <1>2

(* The end of the process is a stop: only what never arrived is spared. *)
LEMMA ExitIsStop ==
    ASSUME ServiceInv, ServerExits
    PROVE  Gpu!Stop
  <1>1. \A r \in Requests : Phase(r)' = IF phases[r] = "outside" THEN "outside" ELSE "over"
    <2> SUFFICES ASSUME NEW r \in Requests
                 PROVE  Phase(r)' = IF phases[r] = "outside" THEN "outside" ELSE "over"
      OBVIOUS
    <2>1. pc'[r] = IF InFlight(r) THEN "cut" ELSE pc[r]
      BY DEF ServerExits
    <2>2. InFlight(r) \/ pc[r] \in {"new", "done", "cut"}
      BY DEF InFlight, ServiceInv, TypeOK
    <2> QED
      BY <2>1, <2>2, PhaseOfPlace, PhaseOfNextPlace DEF InFlight
  <1> QED
    BY <1>1 DEF Gpu!Stop, Gpu!Requests, Requests, phases

(* Every step of the service is a step of the lock, or not seen. *)
LEMMA StepIsALockStep ==
    ASSUME ServiceInv, [Next]_vars
    PROVE  [Gpu!Next]_phases
  <1> USE DEF Gpu!Next, Gpu!Requests, Requests
  <1>1. ASSUME NEW r \in Requests, Arrive(r) PROVE Gpu!Next
    <2>1. Moves(r, "asking") /\ phases[r] = "outside"
      BY <1>1, WakingKeepsPhase, PhaseOfPlace, PhaseOfNextPlace
         DEF Moves, Arrive, ServiceInv, TypeOK
    <2>2. Gpu!Ask(r)
      BY <2>1, MovesOne DEF Gpu!Ask
    <2> QED
      BY <2>2
  <1>2. ASSUME NEW r \in Requests, Thread(r) PROVE [Gpu!Next]_phases
    <2>1. CASE EnterAdmitted(r) \/ WakeAdmitted(r)
      BY <2>1, AdmissionIsGrant
    <2>2. CASE EnterParked(r)
      BY <2>2, ParkingIsRegistering
    <2>3. CASE WakeParked(r)
      <3>1. \A s \in Requests : Phase(s)' = Phase(s)
        BY <2>3, WakingKeepsPhase DEF WakeParked, ServiceInv, TypeOK
      <3> QED
        BY <3>1, KeepsPhases
    <2>4. CASE Release(r)
      BY <2>4, LeavingIsSeenOnce
    <2> QED
      BY <1>2, <2>1, <2>2, <2>3, <2>4 DEF Thread
  <1>3. ASSUME NEW r \in Requests, AdmissionRaises(r) PROVE Gpu!Next
    BY <1>3, LeavingIsSeenOnce
  <1>4. CASE ServerExits
    BY <1>4, ExitIsStop
  <1>5. CASE Handshake \/ Tick \/ WatchdogFires \/ Boot \/ UNCHANGED vars
    <2>1. pc' = pc
      BY <1>5 DEF Handshake, Tick, WatchdogFires, Boot, vars, monitor
    <2>2. \A s \in Requests : Phase(s)' = Phase(s)
      BY <2>1, WakingKeepsPhase
    <2> QED
      BY <2>2, KeepsPhases
  <1> QED
    BY <1>1, <1>2, <1>3, <1>4, <1>5 DEF Next

(* The condition variable of gpu(), its flag and its count are a lock on which a
   batch never overtakes a registered query, whatever the number of requests, through
   admissions that raise, idle stops and restarts (gpu, install_idle_watchdog). *)
THEOREM ServiceIsPriorityLock == Spec => IsPriorityLock
  <1>1. Init => Gpu!Init
    <2> SUFFICES ASSUME Init PROVE Gpu!Init
      OBVIOUS
    <2>1. \A r \in Requests : Phase(r) = "outside"
      BY PhaseOfPlace DEF Init
    <2> QED
      BY <2>1 DEF Gpu!Init, Gpu!Requests, Requests, phases
  <1>2. ServiceInv /\ [Next]_vars => [Gpu!Next]_phases
    BY StepIsALockStep
  <1>3. Spec => [][Gpu!Next]_phases
    BY ServiceInvariance, <1>2, PTL DEF Spec
  <1> QED
    BY <1>1, <1>3, PTL DEF Spec, IsPriorityLock, Gpu!Spec

=============================================================================
