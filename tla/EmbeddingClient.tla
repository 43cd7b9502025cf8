-------------------------- MODULE EmbeddingClient ---------------------------
(***************************************************************************)
(* The embedding client (internal/embed): a ServiceEmbedder shared by      *)
(* concurrent calls.  A call is let through once the backend's             *)
(* configuration was compared with the pins; its input is cut into         *)
(* sub-batches that run concurrently, each with its own retries; the first *)
(* failure cancels the others.  The backend stops and comes back, possibly *)
(* with another configuration; the caller's context ends at any time.      *)
(***************************************************************************)
EXTENDS Naturals, FiniteSets

CONSTANTS
    Calls,          \* calls of EmbedQuery and EmbedDocuments
    Parts,          \* [Calls -> Nat]: sub-batches of BatchSize texts, the last one shorter
    MaxConcurrent,  \* Profile.MaxConcurrent
    MaxRetries,     \* Profile.MaxRetries: attempts, not extra attempts
    Fields,         \* the fields of the handshake
    Backends,       \* configurations a service may come up with, as it reports them
    Down,           \* no service listens
    Zero,           \* the vector make([]Embedding, n) leaves
    NoCall,
    MaxChanges,     \* bound on stops and starts of the service
    MaxFaults       \* bound on attempts that fail though the service is up

Reports == [Fields -> {"pinned", "other", "absent"}]

ASSUME ClientAssumption ==
    /\ Parts \in [Calls -> Nat]
    /\ MaxConcurrent \in Nat \ {0} /\ MaxRetries \in Nat \ {0}
    /\ Backends \subseteq Reports
    /\ Down \notin Backends /\ Zero \notin Backends
    /\ NoCall \notin Calls
    /\ MaxChanges \in Nat /\ MaxFaults \in Nat

VARIABLES
    backend,   \* the configuration of the service that is listening, or Down
    verified,  \* the latch: some report matched the pins
    gate,      \* the call that holds verifyGate
    ctx,       \* the caller's context of each call
    pc,        \* where each call is
    sub,       \* where the goroutine of each sub-batch is
    tries,     \* attempts each sub-batch has made
    out,       \* the results each sub-batch has written
    firstErr,  \* the error that is kept; setting it cancels the call's own context
    answer,    \* what the call returned
    changes, faults,
    swapped    \* history: a service came up after the latch was set

service == <<backend, changes, swapped>>
fanOut  == <<sub, tries, out, firstErr>>
vars    == <<service, verified, gate, ctx, pc, fanOut, answer, faults>>

Errors == {"cancelled", "backend", "handshake", "invalid"}

SubBatches(c) == 1 .. Parts[c]

TypeOK ==
    /\ backend \in Backends \union {Down}
    /\ verified \in BOOLEAN /\ swapped \in BOOLEAN
    /\ gate \in Calls \union {NoCall}
    /\ ctx \in [Calls -> {"live", "cancelled", "expired"}]
    /\ pc \in [Calls -> {"new", "entered", "waiting", "verifying", "running", "over"}]
    /\ DOMAIN sub = Calls /\ DOMAIN tries = Calls /\ DOMAIN out = Calls
    /\ \A c \in Calls :
        /\ sub[c] \in [SubBatches(c) -> {"queued", "calling", "backoff", "done"}]
        /\ tries[c] \in [SubBatches(c) -> 0 .. MaxRetries]
        /\ out[c] \in [SubBatches(c) -> Backends \union {Zero}]
    /\ firstErr \in [Calls -> Errors \union {"none"}]
    /\ answer \in [Calls -> Errors \union {"none", "vectors"}]
    /\ changes \in 0 .. MaxChanges /\ faults \in 0 .. MaxFaults

Init ==
    /\ backend \in Backends \union {Down}
    /\ verified = FALSE /\ swapped = FALSE
    /\ gate = NoCall
    /\ ctx = [c \in Calls |-> "live"]
    /\ pc = [c \in Calls |-> "new"]
    /\ sub = [c \in Calls |-> [i \in SubBatches(c) |-> "queued"]]
    /\ tries = [c \in Calls |-> [i \in SubBatches(c) |-> 0]]
    /\ out = [c \in Calls |-> [i \in SubBatches(c) |-> Zero]]
    /\ firstErr = [c \in Calls |-> "none"]
    /\ answer = [c \in Calls |-> "none"]
    /\ changes = 0 /\ faults = 0

-----------------------------------------------------------------------------
(* A check that lets an unreported field pass. *)
AcceptsUnreported(report) == \A f \in Fields : report[f] # "other"

(* Every field is reported and is the pinned one; an absent field is a divergence. *)
ValidateHandshake(report) == \A f \in Fields : report[f] \notin {"other", "absent"}

(* A call ends with this when its caller's context ended: a deadline is an
   outage of the backend, a cancellation is the caller's own. *)
CtxError(c) == IF ctx[c] = "expired" THEN "backend" ELSE "cancelled"

CtxDone(c) == ctx[c] # "live"

(* runCtx: the caller's context ended, or a sub-batch failed and cancelled the rest. *)
RunDone(c) == CtxDone(c) \/ firstErr[c] # "none"

Return(c, a) ==
    /\ pc' = [pc EXCEPT ![c] = "over"]
    /\ answer' = [answer EXCEPT ![c] = a]

Fault == faults < MaxFaults /\ faults' = faults + 1

(* An attempt fails because nothing listens, because its context ended, or for another reason. *)
AttemptFails(done) ==
    \/ (backend = Down \/ done) /\ UNCHANGED faults
    \/ backend # Down /\ ~done /\ Fault

-----------------------------------------------------------------------------
Call(c) ==
    /\ pc[c] = "new"
    /\ pc' = [pc EXCEPT ![c] = "entered"]
    /\ UNCHANGED <<service, verified, gate, ctx, fanOut, answer, faults>>

EnterDead(c) ==
    /\ pc[c] = "entered"
    /\ Parts[c] > 0
    /\ CtxDone(c)
    /\ Return(c, CtxError(c))
    /\ UNCHANGED <<service, verified, gate, ctx, fanOut, faults>>

(* An empty input asks nothing of the backend, and of the context neither. *)
Enter(c) ==
    /\ pc[c] = "entered"
    /\ Parts[c] = 0 \/ ~CtxDone(c)
    /\ pc' = [pc EXCEPT ![c] = IF verified \/ Parts[c] = 0 THEN "running" ELSE "waiting"]
    /\ UNCHANGED <<service, verified, gate, ctx, fanOut, answer, faults>>

(* The slot is free.  Whoever queued behind the call that confirmed finds the latch set. *)
TakeGate(c) ==
    /\ pc[c] = "waiting"
    /\ gate = NoCall
    /\ \/ verified /\ pc' = [pc EXCEPT ![c] = "running"] /\ UNCHANGED gate
       \/ ~verified /\ pc' = [pc EXCEPT ![c] = "verifying"] /\ gate' = c
    /\ UNCHANGED <<service, verified, ctx, fanOut, answer, faults>>

(* The wait is abandonable. *)
AbandonGate(c) ==
    /\ pc[c] = "waiting"
    /\ CtxDone(c)
    /\ Return(c, CtxError(c))
    /\ UNCHANGED <<service, verified, gate, ctx, fanOut, faults>>

HandshakeConfirms(c) ==
    /\ pc[c] = "verifying"
    /\ backend # Down /\ ValidateHandshake(backend)
    /\ verified' = TRUE
    /\ gate' = NoCall
    /\ pc' = [pc EXCEPT ![c] = "running"]
    /\ UNCHANGED <<service, ctx, fanOut, answer, faults>>

HandshakeDiverges(c) ==
    /\ pc[c] = "verifying"
    /\ backend # Down /\ ~ValidateHandshake(backend)
    /\ gate' = NoCall
    /\ Return(c, "handshake")
    /\ UNCHANGED <<service, verified, ctx, fanOut, faults>>

(* A failure that leaves the slot taken. *)
KeepsGate(c) ==
    /\ pc[c] = "verifying"
    /\ AttemptFails(CtxDone(c))
    /\ Return(c, IF CtxDone(c) THEN CtxError(c) ELSE "backend")
    /\ UNCHANGED <<service, verified, gate, ctx, fanOut>>

HandshakeFails(c) ==
    /\ pc[c] = "verifying"
    /\ AttemptFails(CtxDone(c))
    /\ gate' = NoCall
    /\ Return(c, IF CtxDone(c) THEN CtxError(c) ELSE "backend")
    /\ UNCHANGED <<service, verified, ctx, fanOut>>

(* Handshake called by its owner, outside of any embedding (cmd/cli). *)
ExplicitHandshake ==
    /\ ~verified
    /\ backend # Down /\ ValidateHandshake(backend)
    /\ verified' = TRUE
    /\ UNCHANGED <<service, gate, ctx, pc, fanOut, answer, faults>>

-----------------------------------------------------------------------------
Holding(c) == {i \in SubBatches(c) : sub[c][i] \in {"calling", "backoff"}}

Finish(c, i) == sub' = [sub EXCEPT ![c][i] = "done"]

(* The last failure wins. *)
RecordLast(c, e) == firstErr' = [firstErr EXCEPT ![c] = e]

(* The first failure is kept; what the cancellation it causes makes of the others is not. *)
Record(c, e) == firstErr' = [firstErr EXCEPT ![c] = IF @ = "none" THEN e ELSE @]

(* A permit of the semaphore; the first attempt starts unless the call is doomed. *)
Acquire(c, i) ==
    /\ pc[c] = "running"
    /\ sub[c][i] = "queued"
    /\ Cardinality(Holding(c)) < MaxConcurrent
    /\ \/ /\ ~RunDone(c)
          /\ sub' = [sub EXCEPT ![c][i] = "calling"]
          /\ tries' = [tries EXCEPT ![c][i] = 1]
          /\ UNCHANGED firstErr
       \/ /\ RunDone(c)
          /\ Finish(c, i) /\ Record(c, CtxError(c))
          /\ UNCHANGED tries
    /\ UNCHANGED <<service, verified, gate, ctx, pc, out, answer, faults>>

(* A sub-batch that gives up without a word. *)
GiveUpSilently(c, i) ==
    /\ pc[c] = "running"
    /\ sub[c][i] = "queued"
    /\ RunDone(c)
    /\ Finish(c, i)
    /\ UNCHANGED <<service, verified, gate, ctx, pc, tries, out, firstErr, answer, faults>>

(* A sub-batch that waits for a permit and finds the call cancelled: it has
   written nothing, so the caller's own cancellation is recorded here. *)
GiveUp(c, i) ==
    /\ pc[c] = "running"
    /\ sub[c][i] = "queued"
    /\ RunDone(c)
    /\ Finish(c, i)
    /\ IF CtxDone(c) THEN Record(c, CtxError(c)) ELSE UNCHANGED firstErr
    /\ UNCHANGED <<service, verified, gate, ctx, pc, tries, out, answer, faults>>

Replies(c, i) ==
    /\ sub[c][i] = "calling"
    /\ backend # Down
    /\ out' = [out EXCEPT ![c][i] = backend]
    /\ Finish(c, i)
    /\ UNCHANGED <<service, verified, gate, ctx, pc, tries, firstErr, answer, faults>>

(* One embedding short, or a vector that breaks the contract: not asked again. *)
RepliesInvalid(c, i) ==
    /\ sub[c][i] = "calling"
    /\ backend # Down
    /\ Fault
    /\ Finish(c, i) /\ Record(c, "invalid")
    /\ UNCHANGED <<service, verified, gate, ctx, pc, tries, out, answer>>

Exhausted(c, i) == tries[c][i] = MaxRetries

CallFails(c, i) ==
    /\ sub[c][i] = "calling"
    /\ AttemptFails(RunDone(c))
    /\ \/ /\ RunDone(c)
          /\ Finish(c, i) /\ Record(c, CtxError(c))
       \/ /\ ~RunDone(c) /\ ~Exhausted(c, i)
          /\ sub' = [sub EXCEPT ![c][i] = "backoff"]
          /\ UNCHANGED firstErr
       \/ /\ ~RunDone(c) /\ Exhausted(c, i)
          /\ Finish(c, i) /\ Record(c, "backend")
    /\ UNCHANGED <<service, verified, gate, ctx, pc, tries, out, answer>>

(* The delay is over, or the call's context is. *)
Retry(c, i) ==
    /\ sub[c][i] = "backoff"
    /\ \/ /\ ~RunDone(c)
          /\ sub' = [sub EXCEPT ![c][i] = "calling"]
          /\ tries' = [tries EXCEPT ![c][i] = @ + 1]
          /\ UNCHANGED firstErr
       \/ /\ RunDone(c)
          /\ Finish(c, i) /\ Record(c, CtxError(c))
          /\ UNCHANGED tries
    /\ UNCHANGED <<service, verified, gate, ctx, pc, out, answer, faults>>

(* wg.Wait: nothing is returned before every sub-batch is over. *)
Join(c) ==
    /\ pc[c] = "running"
    /\ \A i \in SubBatches(c) : sub[c][i] = "done"
    /\ Return(c, IF firstErr[c] = "none" THEN "vectors" ELSE firstErr[c])
    /\ UNCHANGED <<service, verified, gate, ctx, fanOut, faults>>

-----------------------------------------------------------------------------
ContextEnds(c) ==
    /\ ctx[c] = "live" /\ pc[c] # "over"
    /\ \E end \in {"cancelled", "expired"} : ctx' = [ctx EXCEPT ![c] = end]
    /\ UNCHANGED <<service, verified, gate, pc, fanOut, answer, faults>>

ServiceStops ==
    /\ backend # Down
    /\ changes < MaxChanges /\ changes' = changes + 1
    /\ backend' = Down
    /\ UNCHANGED <<swapped, verified, gate, ctx, pc, fanOut, answer, faults>>

ServiceStarts ==
    /\ backend = Down
    /\ changes < MaxChanges /\ changes' = changes + 1
    /\ backend' \in Backends
    /\ swapped' = (swapped \/ verified)
    /\ UNCHANGED <<verified, gate, ctx, pc, fanOut, answer, faults>>

CallStep(c) ==
    \/ EnterDead(c) \/ Enter(c)
    \/ TakeGate(c) \/ AbandonGate(c)
    \/ HandshakeConfirms(c) \/ HandshakeDiverges(c) \/ HandshakeFails(c)
    \/ Join(c)

SubStep(c, i) ==
    \/ Acquire(c, i) \/ GiveUp(c, i)
    \/ Replies(c, i) \/ RepliesInvalid(c, i) \/ CallFails(c, i)
    \/ Retry(c, i)

Next ==
    \/ \E c \in Calls :
        \/ Call(c) \/ CallStep(c)
        \/ \E i \in SubBatches(c) : SubStep(c, i)
        \/ ContextEnds(c)
    \/ ExplicitHandshake \/ ServiceStops \/ ServiceStarts

Spec == Init /\ [][Next]_vars

(* Goroutines are scheduled, and an attempt ends because it has a deadline. *)
Fairness ==
    \A c \in Calls :
        /\ WF_vars(CallStep(c))
        /\ \A i \in SubBatches(c) : WF_vars(SubStep(c, i))

FairSpec == Spec /\ Fairness

-----------------------------------------------------------------------------
(* No zero vector is ever returned as a result: a call that answers has the
   vectors of all its sub-batches, though a cancelled one leaves its share of
   the slice as make() filled it. *)
NoZeroVector ==
    \A c \in Calls : answer[c] = "vectors" => \A i \in SubBatches(c) : out[c][i] # Zero

(* Nothing is embedded through an unconfirmed backend: vectors of another
   configuration take a service that was replaced after the confirmation,
   however often it was down or wrong before. *)
OnlyConfirmedSpace ==
    \A c \in Calls : \A i \in SubBatches(c) :
        out[c][i] = Zero \/ (verified /\ (swapped \/ \A f \in Fields : out[c][i][f] = "pinned"))

(* The error that is reported is the cause: a call ends as cancelled only if its
   own caller cancelled it, never because of what a failing sub-batch did to the others. *)
CancelledByCallerOnly ==
    \A c \in Calls : answer[c] = "cancelled" => ctx[c] = "cancelled"

(* Every call returns. *)
EveryCallReturns == \A c \in Calls : (pc[c] = "entered") ~> (pc[c] = "over")

-----------------------------------------------------------------------------
(* The contract the callers rely on. *)
Phase(c) ==
    CASE pc[c] = "new"           -> "idle"
      [] answer[c] = "vectors"   -> "answered"
      [] answer[c] \in Errors    -> "failed"
      [] OTHER                   -> "busy"

Result(c) == IF answer[c] = "vectors" THEN out[c] ELSE <<>>

Contract == INSTANCE AtomicEmbedding
    WITH phase <- [c \in Calls |-> Phase(c)],
         result <- [c \in Calls |-> Result(c)],
         confirmed <- verified,
         Vectors <- Backends

(* The client implements the contract: sub-batches, retries, the gate and a
   backend that comes and goes look like one atomic answer or one error. *)
ImplementsContract == Contract!Spec
=============================================================================
