-------------------------- MODULE EmbedderService ---------------------------
(***************************************************************************)
(* The embedding service (scripts/embedder-service/server.py): requests    *)
(* that share one GPU, and the watchdog that stops an idle process.        *)
(*                                                                         *)
(* Every request is served by a thread of its own.  gpu() admits one at a  *)
(* time; an interactive query that is waiting holds back every batch.  The *)
(* monitor is a condition variable: a thread that cannot be admitted       *)
(* parks, a notification makes all parked threads look again.  What a      *)
(* thread does while it holds the monitor's lock is one step.              *)
(***************************************************************************)
EXTENDS Naturals, FiniteSets

CONSTANTS
    Queries,      \* /embed requests of kind "query"
    Batches,      \* every other request: /embed of passages, /tokenize
    IdleTimeout,  \* --idle-timeout in ticks; 0 disables the watchdog
    MaxRaises     \* bound on admissions that end in an exception

Requests == Queries \union Batches

ASSUME ServiceAssumption ==
    /\ IsFiniteSet(Queries) /\ IsFiniteSet(Batches)
    /\ Queries \intersect Batches = {}
    /\ IdleTimeout \in Nat /\ MaxRaises \in Nat

VARIABLES
    pc,       \* where the thread of each request is
    busy,     \* _gpu_busy
    waiting,  \* _queries_waiting
    idle,     \* time since _last_used, up to the timeout
    server,   \* the process: up, stopping (shutdown() was called), down
    behind,   \* history: the batches each query has waited for since it registered
    raises

monitor == <<pc, busy, waiting, behind>>
vars    == <<monitor, idle, server, raises>>

TypeOK ==
    /\ pc \in [Requests -> {"new", "entering", "parked", "awake", "running", "done", "cut"}]
    /\ busy \in BOOLEAN
    /\ waiting \in 0 .. Cardinality(Queries)
    /\ idle \in 0 .. IdleTimeout
    /\ server \in {"up", "stopping", "down"}
    /\ behind \in [Queries -> SUBSET Batches]
    /\ raises \in 0 .. MaxRaises

Init ==
    /\ pc = [r \in Requests |-> "new"]
    /\ busy = FALSE
    /\ waiting = 0
    /\ idle = 0
    /\ server = "up"
    /\ behind = [q \in Queries |-> {}]
    /\ raises = 0

-----------------------------------------------------------------------------
Alive == server # "down"

Registered(q) == pc[q] \in {"parked", "awake"}

RunningBatches == {b \in Batches : pc[b] = "running"}

(* The handler marks the service used before it asks for the GPU. *)
Arrive(r) ==
    /\ Alive
    /\ pc[r] = "new"
    /\ pc' = [pc EXCEPT ![r] = "entering"]
    /\ idle' = 0
    /\ UNCHANGED <<busy, waiting, behind, server, raises>>

(* GET /handshake counts as use and needs no GPU. *)
Handshake ==
    /\ Alive
    /\ idle' = 0
    /\ UNCHANGED <<monitor, server, raises>>

(* First come, first served; and a query that does not wait for the call in flight. *)
CanTakeFirstCome(r) == ~busy
CanTakeAtOnce(r) == r \in Queries \/ (~busy /\ waiting = 0)

(* The condition of the wait loop: a batch declines a free GPU while a query is waiting. *)
CanTake(r) == ~busy /\ (r \in Batches => waiting = 0)

(* Every registered query sees the batch that was let in before it. *)
Admit(r) ==
    /\ pc' = [pc EXCEPT ![r] = "running"]
    /\ busy' = TRUE
    /\ behind' = [q \in Queries |-> IF Registered(q) /\ r \in Batches
                                     THEN behind[q] \union {r} ELSE behind[q]]

(* A query that is admitted at once registers and leaves under one hold of the lock. *)
EnterAdmitted(r) ==
    /\ Alive
    /\ pc[r] = "entering"
    /\ CanTake(r)
    /\ Admit(r)
    /\ UNCHANGED <<waiting, idle, server, raises>>

(* Only queries are counted. *)
Counted(r) == IF r \in Queries THEN 1 ELSE 0

EnterParked(r) ==
    /\ Alive
    /\ pc[r] = "entering"
    /\ ~CanTake(r)
    /\ pc' = [pc EXCEPT ![r] = "parked"]
    /\ waiting' = waiting + Counted(r)
    /\ behind' = [q \in Queries |-> IF q = r THEN RunningBatches ELSE behind[q]]
    /\ UNCHANGED <<busy, idle, server, raises>>

WakeAdmitted(r) ==
    /\ Alive
    /\ pc[r] = "awake"
    /\ CanTake(r)
    /\ Admit(r)
    /\ waiting' = waiting - Counted(r)
    /\ UNCHANGED <<idle, server, raises>>

WakeParked(r) ==
    /\ Alive
    /\ pc[r] = "awake"
    /\ ~CanTake(r)
    /\ pc' = [pc EXCEPT ![r] = "parked"]
    /\ UNCHANGED <<busy, waiting, behind, idle, server, raises>>

(* notify_all *)
NotifyAll(f) == [r \in Requests |-> IF f[r] = "parked" THEN "awake" ELSE f[r]]

(* An admission that raises: the request leaves, and the count with it. *)
LeavesLeaking(r) ==
    /\ waiting' = waiting
    /\ pc' = [pc EXCEPT ![r] = "done"]

LeavesSilently(r) ==
    /\ waiting' = waiting - Counted(r)
    /\ pc' = [pc EXCEPT ![r] = "done"]

(* If the GPU is free nobody else will wake the batches that deferred to it. *)
Leaves(r) ==
    /\ waiting' = waiting - Counted(r)
    /\ LET left == [pc EXCEPT ![r] = "done"]
       IN pc' = IF r \in Queries /\ ~busy THEN NotifyAll(left) ELSE left

AdmissionRaises(r) ==
    /\ Alive
    /\ pc[r] \in {"parked", "awake"}
    /\ raises < MaxRaises /\ raises' = raises + 1
    /\ Leaves(r)
    /\ UNCHANGED <<busy, behind, idle, server>>

(* The call is over, whether it returned or raised. *)
Release(r) ==
    /\ Alive
    /\ pc[r] = "running"
    /\ busy' = FALSE
    /\ pc' = NotifyAll([pc EXCEPT ![r] = "done"])
    /\ UNCHANGED <<waiting, behind, idle, server, raises>>

-----------------------------------------------------------------------------
Tick ==
    /\ Alive
    /\ idle < IdleTimeout
    /\ idle' = idle + 1
    /\ UNCHANGED <<monitor, server, raises>>

(* The watchdog looks at the clock and then asks the server to stop. *)
WatchdogFires ==
    /\ server = "up"
    /\ IdleTimeout > 0 /\ idle >= IdleTimeout
    /\ server' = "stopping"
    /\ UNCHANGED <<monitor, idle, raises>>

InFlight(r) == pc[r] \in {"entering", "parked", "awake", "running"}

(* serve_forever returns and the process ends; its request threads are daemons. *)
ServerExits ==
    /\ server = "stopping"
    /\ server' = "down"
    /\ pc' = [r \in Requests |-> IF InFlight(r) THEN "cut" ELSE pc[r]]
    /\ UNCHANGED <<busy, waiting, behind, idle, raises>>

(* A timer or an operator starts the service again. *)
Boot ==
    /\ server = "down"
    /\ server' = "up"
    /\ busy' = FALSE
    /\ waiting' = 0
    /\ idle' = 0
    /\ UNCHANGED <<pc, behind, raises>>

Thread(r) ==
    \/ EnterAdmitted(r) \/ EnterParked(r)
    \/ WakeAdmitted(r) \/ WakeParked(r)
    \/ Release(r)

Next ==
    \/ \E r \in Requests : Arrive(r) \/ Thread(r) \/ AdmissionRaises(r)
    \/ Handshake \/ Tick \/ WatchdogFires \/ ServerExits \/ Boot

Spec == Init /\ [][Next]_vars

(* Threads are scheduled, and a call on the GPU comes to an end. *)
Fairness == \A r \in Requests : WF_vars(Thread(r))

FairSpec == Spec /\ Fairness

-----------------------------------------------------------------------------
(* One request at a time holds the model, and the flag says whether one does. *)
GpuIsExclusive ==
    Alive => /\ \A r, s \in Requests : (pc[r] = "running" /\ pc[s] = "running") => r = s
             /\ busy = (\E r \in Requests : pc[r] = "running")

(* _queries_waiting is the number of queries that registered and were neither
   admitted nor lost: a count left behind would hold every batch back for ever. *)
WaitingCountIsExact ==
    Alive => waiting = Cardinality({q \in Queries : Registered(q)})

(* No lost wake-up: while the GPU is free nobody sleeps, but batches that defer
   to a query that is about to look again. *)
NoLostWakeup ==
    (Alive /\ ~busy) =>
        \A r \in Requests : pc[r] = "parked" =>
            r \in Batches /\ \E q \in Queries : pc[q] = "awake"

(* A query waits for at most one batch from the moment it registers, however
   many are queued: the one in flight (the bound gpu() states). *)
QueryWaitsForOneBatch ==
    \A q \in Queries : \A b, c \in behind[q] : b = c

(* What a request can see of the monitor: parked and awake are one phase, and a batch
   that waits is not registered. *)
Phase(r) ==
    CASE pc[r] = "new"                     -> "outside"
      [] pc[r] = "entering"                -> "asking"
      [] Registered(r) /\ r \notin Queries -> "asking"
      [] Registered(r) /\ r \in Queries    -> "registered"
      [] pc[r] = "running"                 -> "holding"
      [] OTHER                             -> "over"

phases == [r \in Requests |-> Phase(r)]

Gpu == INSTANCE PriorityLock WITH phase <- phases

(* The flag, the count and the notifications amount to a lock on which a registered
   query is never overtaken by a batch (the promise of gpu), also across admissions
   that raise and across restarts. *)
IsPriorityLock == Gpu!Spec

(* Every request that arrived is answered, or cut off by the end of the process. *)
EveryRequestEnds ==
    \A r \in Requests : (pc[r] = "entering") ~> (pc[r] \in {"done", "cut"})

=============================================================================
