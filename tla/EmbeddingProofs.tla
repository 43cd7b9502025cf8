-------------------------- MODULE EmbeddingProofs ---------------------------
(***************************************************************************)
(* Proofs about the embedding client, for any number of calls, sub-batches *)
(* and retries and any history of the service: it implements the contract  *)
(* of AtomicEmbedding.                                                     *)
(***************************************************************************)
EXTENDS EmbeddingClient, TLAPS

Unfinished == {"calling", "backoff"}

(* What a call has written is backed by the latch, what it has not written by an
   error, and the error by its own context when it says so. *)
CallInv(c) ==
    /\ pc[c] = "over" <=> answer[c] # "none"
    /\ pc[c] = "running" => verified \/ Parts[c] = 0
    /\ firstErr[c] = "cancelled" => ctx[c] = "cancelled"
    /\ answer[c] = "cancelled" => ctx[c] = "cancelled"
    /\ \A i \in SubBatches(c) :
        /\ sub[c][i] \in Unfinished => pc[c] = "running"
        /\ sub[c][i] = "backoff" => ~Exhausted(c, i)
        /\ sub[c][i] = "done" => out[c][i] # Zero \/ firstErr[c] # "none"
        /\ answer[c] = "vectors" => out[c][i] # Zero
        /\ out[c][i] # Zero => verified /\ (swapped \/ \A f \in Fields : out[c][i][f] = "pinned")

(* Until the service is replaced, the one that was confirmed is the one that answers. *)
ConfirmedBackend ==
    verified /\ ~swapped /\ backend # Down => \A f \in Fields : backend[f] = "pinned"

ClientInv == TypeOK /\ ConfirmedBackend /\ \A c \in Calls : CallInv(c)

-----------------------------------------------------------------------------
(* What the constants are. *)
LEMMA ClientConstants ==
    /\ \A c \in Calls : Parts[c] \in Nat
    /\ MaxRetries \in Nat /\ MaxRetries >= 1 /\ MaxChanges \in Nat /\ MaxFaults \in Nat
    /\ Backends \subseteq Reports /\ Down \notin Backends /\ Zero \notin Backends /\ NoCall \notin Calls
  BY ClientAssumption

LEMMA InitClient == Init => ClientInv
  <1> SUFFICES ASSUME Init PROVE ClientInv
    OBVIOUS
  <1>1. TypeOK
    <2>1. /\ 0 \in 0 .. MaxRetries /\ 0 \in 0 .. MaxChanges /\ 0 \in 0 .. MaxFaults
          /\ Zero \in Backends \union {Zero}
      BY ClientConstants
    <2>2. \A c \in Calls : /\ sub[c] \in [SubBatches(c) -> {"queued", "calling", "backoff", "done"}]
                           /\ tries[c] \in [SubBatches(c) -> 0 .. MaxRetries]
                           /\ out[c] \in [SubBatches(c) -> Backends \union {Zero}]
      BY <2>1 DEF Init
    <2>3. DOMAIN sub = Calls /\ DOMAIN tries = Calls /\ DOMAIN out = Calls
      BY DEF Init
    <2> QED
      BY <2>1, <2>2, <2>3 DEF Init, TypeOK, Errors
  <1>2. ConfirmedBackend /\ \A c \in Calls : CallInv(c)
    BY DEF Init, ConfirmedBackend, CallInv, Unfinished
  <1> QED
    BY <1>1, <1>2 DEF ClientInv

(* The steps of a call keep the types. *)
LEMMA CallTypes ==
    ASSUME TypeOK, NEW c \in Calls, Call(c) \/ CallStep(c)
    PROVE  TypeOK'
  <1> USE ClientConstants DEF TypeOK, Return, Errors
  <1>1. CASE Call(c)
    BY <1>1 DEF Call, service, fanOut
  <1>2. CASE EnterDead(c)
    BY <1>2 DEF EnterDead, CtxError, service, fanOut
  <1>3. CASE Enter(c)
    BY <1>3 DEF Enter, service, fanOut
  <1>4. CASE TakeGate(c)
    BY <1>4 DEF TakeGate, service, fanOut
  <1>5. CASE AbandonGate(c)
    BY <1>5 DEF AbandonGate, CtxError, service, fanOut
  <1>6. CASE HandshakeConfirms(c)
    BY <1>6 DEF HandshakeConfirms, service, fanOut
  <1>7. CASE HandshakeDiverges(c)
    BY <1>7 DEF HandshakeDiverges, service, fanOut
  <1>8. CASE HandshakeFails(c)
    BY <1>8 DEF HandshakeFails, AttemptFails, Fault, CtxError, service, fanOut
  <1>9. CASE Join(c)
    BY <1>9 DEF Join, service, fanOut
  <1> QED
    BY <1>1, <1>2, <1>3, <1>4, <1>5, <1>6, <1>7, <1>8, <1>9 DEF CallStep

(* What is around the calls too. *)
LEMMA WorldTypes ==
    ASSUME TypeOK,
           \/ \E c \in Calls : ContextEnds(c)
           \/ ExplicitHandshake \/ ServiceStops \/ ServiceStarts
    PROVE  TypeOK'
  <1> USE ClientConstants DEF TypeOK
  <1>1. ASSUME NEW c \in Calls, ContextEnds(c) PROVE TypeOK'
    BY <1>1 DEF ContextEnds, service, fanOut
  <1>2. CASE ExplicitHandshake
    BY <1>2 DEF ExplicitHandshake, service, fanOut
  <1>3. CASE ServiceStops
    BY <1>3 DEF ServiceStops, fanOut
  <1>4. CASE ServiceStarts
    BY <1>4 DEF ServiceStarts, fanOut
  <1> QED
    BY <1>1, <1>2, <1>3, <1>4

(* One sub-batch moves on, and the others stay where they are. *)
LEMMA MoveSub ==
    ASSUME TypeOK, NEW c \in Calls, NEW i \in SubBatches(c),
           NEW to \in {"queued", "calling", "backoff", "done"},
           sub' = [sub EXCEPT ![c][i] = to]
    PROVE  /\ DOMAIN sub' = Calls
           /\ \A d \in Calls : sub'[d] \in [SubBatches(d) -> {"queued", "calling", "backoff", "done"}]
           /\ sub'[c][i] = to
           /\ \A d \in Calls : d # c => sub'[d] = sub[d]
           /\ \A j \in SubBatches(c) : j # i => sub'[c][j] = sub[c][j]
  BY DEF TypeOK

(* The same of the attempts it made. *)
LEMMA CountTry ==
    ASSUME TypeOK, NEW c \in Calls, NEW i \in SubBatches(c), NEW n \in 0 .. MaxRetries,
           tries' = [tries EXCEPT ![c][i] = n]
    PROVE  /\ DOMAIN tries' = Calls
           /\ \A d \in Calls : tries'[d] \in [SubBatches(d) -> 0 .. MaxRetries]
           /\ \A d \in Calls : d # c => tries'[d] = tries[d]
           /\ \A j \in SubBatches(c) : j # i => tries'[c][j] = tries[c][j]
  BY DEF TypeOK

(* And of what it wrote. *)
LEMMA WriteOut ==
    ASSUME TypeOK, NEW c \in Calls, NEW i \in SubBatches(c), NEW v \in Backends,
           out' = [out EXCEPT ![c][i] = v]
    PROVE  /\ DOMAIN out' = Calls
           /\ \A d \in Calls : out'[d] \in [SubBatches(d) -> Backends \union {Zero}]
           /\ out'[c][i] = v
           /\ \A d \in Calls : d # c => out'[d] = out[d]
           /\ \A j \in SubBatches(c) : j # i => out'[c][j] = out[c][j]
  BY DEF TypeOK

(* An error is kept where none was. *)
LEMMA KeepError ==
    ASSUME TypeOK, NEW c \in Calls, NEW e \in Errors, Record(c, e)
    PROVE  /\ firstErr' \in [Calls -> Errors \union {"none"}]
           /\ firstErr'[c] = (IF firstErr[c] = "none" THEN e ELSE firstErr[c])
           /\ \A d \in Calls : d # c => firstErr'[d] = firstErr[d]
  BY DEF TypeOK, Record

(* What one step of a sub-batch amounts to. *)
SubMoves(c, i) ==
    /\ pc[c] = "running" \/ sub[c][i] \in Unfinished
    /\ UNCHANGED <<backend, changes, swapped, verified, gate, ctx, pc, answer>>
    /\ faults' \in 0 .. MaxFaults
    /\ \E to \in {"calling", "backoff", "done"} : sub' = [sub EXCEPT ![c][i] = to]
    /\ \/ UNCHANGED tries
       \/ \E n \in 0 .. MaxRetries : tries' = [tries EXCEPT ![c][i] = n]
    /\ \/ UNCHANGED out
       \/ backend # Down /\ out' = [out EXCEPT ![c][i] = backend]
    /\ \/ UNCHANGED firstErr
       \/ \E e \in Errors : Record(c, e) /\ (e = "cancelled" => RunDone(c) /\ e = CtxError(c))
    /\ sub'[c][i] = "done" => out'[c][i] # Zero \/ firstErr'[c] # "none"
    /\ sub'[c][i] = "backoff" => tries'[c][i] # MaxRetries

LEMMA SubStepMoves ==
    ASSUME TypeOK, NEW c \in Calls, CallInv(c), NEW i \in SubBatches(c), SubStep(c, i)
    PROVE  SubMoves(c, i)
  <1>1. /\ tries[c][i] \in 0 .. MaxRetries /\ 1 \in 0 .. MaxRetries
        /\ sub[c][i] = "backoff" => tries[c][i] + 1 \in 0 .. MaxRetries
    <2>1. tries[c][i] \in 0 .. MaxRetries
      BY DEF TypeOK
    <2>2. sub[c][i] = "backoff" => tries[c][i] # MaxRetries
      BY DEF CallInv, Exhausted
    <2> QED
      BY <2>1, <2>2, ClientConstants
  <1>2. CtxError(c) \in Errors /\ {"backend", "invalid"} \subseteq Errors
    BY DEF CtxError, Errors
  <1>3. faults \in 0 .. MaxFaults /\ (Fault => faults' \in 0 .. MaxFaults)
    BY ClientConstants DEF TypeOK, Fault
  <1>4. \A e \in Errors : Record(c, e) => firstErr'[c] # "none"
    BY KeepError DEF Errors
  <1>5. \A to \in {"calling", "backoff", "done"} : sub' = [sub EXCEPT ![c][i] = to] => sub'[c][i] = to
    BY MoveSub, ZenonT(60)
  <1> USE DEF SubMoves, Finish, service, Unfinished
  <1>6. CASE Acquire(c, i)
    BY <1>1, <1>2, <1>3, <1>4, <1>5, <1>6 DEF Acquire
  <1>7. CASE GiveUp(c, i)
    BY <1>2, <1>3, <1>4, <1>5, <1>7 DEF GiveUp, RunDone
  <1>8. CASE Replies(c, i)
    <2>1. out'[c][i] = backend /\ backend # Zero
      BY <1>8, ClientConstants, WriteOut DEF Replies, TypeOK
    <2> QED
      BY <1>3, <1>5, <1>8, <2>1 DEF Replies
  <1>9. CASE RepliesInvalid(c, i)
    BY <1>2, <1>3, <1>4, <1>5, <1>9 DEF RepliesInvalid
  <1>10. CASE CallFails(c, i)
    BY <1>2, <1>3, <1>4, <1>5, <1>10 DEF CallFails, AttemptFails, Exhausted
  <1>11. CASE Retry(c, i)
    BY <1>1, <1>2, <1>3, <1>4, <1>5, <1>11 DEF Retry
  <1> QED
    BY <1>6, <1>7, <1>8, <1>9, <1>10, <1>11 DEF SubStep

(* The steps of a sub-batch keep the types. *)
LEMMA SubTypes ==
    ASSUME TypeOK, NEW c \in Calls, NEW i \in SubBatches(c), SubMoves(c, i)
    PROVE  TypeOK'
  <1>1. /\ DOMAIN sub' = Calls
        /\ \A d \in Calls : sub'[d] \in [SubBatches(d) -> {"queued", "calling", "backoff", "done"}]
    BY MoveSub DEF SubMoves
  <1>2. DOMAIN tries' = Calls /\ \A d \in Calls : tries'[d] \in [SubBatches(d) -> 0 .. MaxRetries]
    BY CountTry DEF SubMoves, TypeOK
  <1>3. DOMAIN out' = Calls /\ \A d \in Calls : out'[d] \in [SubBatches(d) -> Backends \union {Zero}]
    BY WriteOut, SMTT(30) DEF SubMoves, TypeOK
  <1>4. firstErr' \in [Calls -> Errors \union {"none"}]
    BY KeepError DEF SubMoves, TypeOK
  <1> QED
    BY <1>1, <1>2, <1>3, <1>4 DEF TypeOK, SubMoves

(* And what the calls know. *)
LEMMA SubKeeps ==
    ASSUME TypeOK, ConfirmedBackend, \A d \in Calls : CallInv(d),
           NEW c \in Calls, NEW i \in SubBatches(c), SubMoves(c, i), NEW d \in Calls
    PROVE  CallInv(d)'
  <1>1. /\ \A b \in Calls : b # c => /\ sub'[b] = sub[b] /\ tries'[b] = tries[b] /\ out'[b] = out[b]
                                     /\ firstErr'[b] = firstErr[b]
        /\ UNCHANGED <<verified, swapped, ctx, pc, answer>>
    BY MoveSub, CountTry, WriteOut, KeepError DEF SubMoves, TypeOK
  <1>2. CASE d # c
    BY <1>1, <1>2 DEF CallInv, Exhausted
  <1>3. CASE d = c
    <2>1. pc[c] = "running" /\ verified /\ answer[c] = "none"
      BY ClientConstants DEF SubMoves, CallInv, SubBatches
    <2>2. \A j \in SubBatches(c) : j # i =>
              sub'[c][j] = sub[c][j] /\ tries'[c][j] = tries[c][j] /\ out'[c][j] = out[c][j]
      BY MoveSub, CountTry, WriteOut DEF SubMoves, TypeOK
    <2>3. firstErr'[c] = "cancelled" => ctx[c] = "cancelled"
      BY KeepError DEF SubMoves, CallInv, RunDone, CtxDone, CtxError, TypeOK
    <2>4. out'[c][i] # Zero => swapped \/ \A f \in Fields : out'[c][i][f] = "pinned"
      BY <2>1, WriteOut DEF SubMoves, CallInv, ConfirmedBackend, TypeOK
    <2>5. firstErr[c] # "none" => firstErr'[c] # "none"
      BY KeepError DEF SubMoves, Errors
    <2> QED
      BY <1>1, <1>3, <2>1, <2>2, <2>3, <2>4, <2>5 DEF SubMoves, CallInv, Exhausted
  <1> QED
    BY <1>2, <1>3

(* The steps of a call. *)
LEMMA CallKeeps ==
    ASSUME TypeOK, ConfirmedBackend, \A d \in Calls : CallInv(d),
           NEW c \in Calls, Call(c) \/ CallStep(c), NEW d \in Calls
    PROVE  ConfirmedBackend' /\ CallInv(d)'
  <1>1. \A i \in SubBatches(c) : pc[c] # "running" => sub[c][i] \notin Unfinished
    BY DEF CallInv
  <1>2. pc[c] # "over" /\ answer[c] = "none"
    BY DEF CallInv, Call, CallStep, EnterDead, Enter, TakeGate, AbandonGate, HandshakeConfirms,
           HandshakeDiverges, HandshakeFails, Join
  <1> USE DEF TypeOK, service, fanOut, Exhausted
  <1>3. ASSUME UNCHANGED <<service, verified, ctx, fanOut, answer>>,
               NEW to \in {"entered", "waiting", "verifying", "running"},
               pc' = [pc EXCEPT ![c] = to],
               to = "running" => verified \/ Parts[c] = 0, pc[c] # "running"
        PROVE  ConfirmedBackend' /\ CallInv(d)'
    BY <1>1, <1>2, <1>3 DEF ConfirmedBackend, CallInv
  <1>4. ASSUME UNCHANGED <<service, verified, ctx, fanOut>>,
               NEW a \in Errors, Return(c, a), a = "cancelled" => ctx[c] = "cancelled",
               \A i \in SubBatches(c) : sub[c][i] \notin Unfinished
        PROVE  ConfirmedBackend' /\ CallInv(d)'
    BY <1>2, <1>4 DEF ConfirmedBackend, CallInv, Return, Errors
  <1>5. CtxError(c) \in Errors /\ (CtxDone(c) /\ CtxError(c) = "cancelled" => ctx[c] = "cancelled")
    BY DEF CtxError, CtxDone, Errors
  <1>6. CASE Call(c) \/ Enter(c) \/ TakeGate(c)
    BY <1>3, <1>6 DEF Call, Enter, TakeGate
  <1>7. CASE EnterDead(c) \/ AbandonGate(c)
    BY <1>1, <1>4, <1>5, <1>7 DEF EnterDead, AbandonGate
  <1>8. CASE HandshakeDiverges(c) \/ HandshakeFails(c)
    <2>1. "handshake" \in Errors /\ "backend" \in Errors
      BY DEF Errors
    <2> QED
      BY <1>1, <1>4, <1>5, <1>8, <2>1 DEF HandshakeDiverges, HandshakeFails
  <1>9. CASE HandshakeConfirms(c)
    <2>1. \A f \in Fields : backend[f] = "pinned"
      BY <1>9, ClientConstants DEF HandshakeConfirms, ValidateHandshake, Reports
    <2> QED
      BY <1>1, <1>2, <1>9, <2>1 DEF HandshakeConfirms, ConfirmedBackend, CallInv
  <1>10. CASE Join(c)
    <2>1. CASE firstErr[c] = "none"
      <3>1. \A i \in SubBatches(c) : out[c][i] # Zero
        BY <1>10, <2>1 DEF Join, CallInv
      <3> QED
        BY <1>2, <1>10, <2>1, <3>1 DEF Join, Return, ConfirmedBackend, CallInv, Unfinished
    <2>2. CASE firstErr[c] # "none"
      <3>1. firstErr[c] \in Errors /\ (firstErr[c] = "cancelled" => ctx[c] = "cancelled")
        BY <2>2 DEF CallInv
      <3> QED
        BY <1>4, <1>10, <2>2, <3>1 DEF Join, Unfinished
    <2> QED
      BY <2>1, <2>2
  <1> QED
    BY <1>6, <1>7, <1>8, <1>9, <1>10 DEF CallStep

(* What happens around the calls. *)
LEMMA WorldKeeps ==
    ASSUME TypeOK, ConfirmedBackend, \A d \in Calls : CallInv(d),
           \/ \E c \in Calls : ContextEnds(c)
           \/ ExplicitHandshake \/ ServiceStops \/ ServiceStarts
    PROVE  ConfirmedBackend' /\ \A d \in Calls : CallInv(d)'
  <1> USE DEF TypeOK, service, fanOut, Exhausted, ConfirmedBackend, CallInv
  <1>1. ASSUME NEW c \in Calls, ContextEnds(c)
        PROVE  ConfirmedBackend' /\ \A d \in Calls : CallInv(d)'
    BY <1>1 DEF ContextEnds
  <1>2. CASE ExplicitHandshake
    <2>1. \A f \in Fields : backend[f] = "pinned"
      BY <1>2, ClientConstants DEF ExplicitHandshake, ValidateHandshake, Reports
    <2> QED
      BY <1>2, <2>1 DEF ExplicitHandshake
  <1>3. CASE ServiceStops
    BY <1>3 DEF ServiceStops
  <1>4. CASE ServiceStarts
    BY <1>4 DEF ServiceStarts
  <1> QED
    BY <1>1, <1>2, <1>3, <1>4

LEMMA ClientStep == ClientInv /\ [Next]_vars => ClientInv'
  <1> SUFFICES ASSUME ClientInv, [Next]_vars PROVE ClientInv'
    OBVIOUS
  <1>1. TypeOK /\ ConfirmedBackend /\ \A d \in Calls : CallInv(d)
    BY DEF ClientInv
  <1>2. ASSUME NEW c \in Calls, Call(c) \/ CallStep(c) PROVE ClientInv'
    BY <1>1, <1>2, CallTypes, CallKeeps DEF ClientInv
  <1>3. ASSUME NEW c \in Calls, NEW i \in SubBatches(c), SubStep(c, i) PROVE ClientInv'
    <2>1. SubMoves(c, i)
      BY <1>1, <1>3, SubStepMoves
    <2>2. ConfirmedBackend'
      BY <1>1, <2>1 DEF SubMoves, ConfirmedBackend
    <2> QED
      BY <1>1, <2>1, <2>2, SubTypes, SubKeeps DEF ClientInv
  <1>4. CASE \/ \E c \in Calls : ContextEnds(c)
             \/ ExplicitHandshake \/ ServiceStops \/ ServiceStarts
    BY <1>1, <1>4, WorldTypes, WorldKeeps DEF ClientInv
  <1>5. CASE UNCHANGED vars
    BY <1>1, <1>5 DEF vars, service, fanOut, ClientInv, TypeOK, ConfirmedBackend, CallInv, Exhausted
  <1> QED
    BY <1>2, <1>3, <1>4, <1>5 DEF Next

-----------------------------------------------------------------------------
(* The inductive invariant of the client. *)
THEOREM ClientInvariance == Spec => []ClientInv
  BY InitClient, ClientStep, PTL DEF Spec

(* Nothing is embedded through an unconfirmed backend (embed, ensureVerified:
   internal/embed/service.go). *)
THEOREM ConfirmedSpaceOnly == Spec => []OnlyConfirmedSpace
  <1>1. ClientInv => OnlyConfirmedSpace
    BY DEF ClientInv, CallInv, OnlyConfirmedSpace
  <1> QED
    BY <1>1, ClientInvariance, PTL

(* The zero vectors a cancelled sub-batch leaves in the result are never returned
   (embed: internal/embed/service.go). *)
THEOREM ZeroVectorsStayInside == Spec => []NoZeroVector
  <1>1. ClientInv => NoZeroVector
    BY DEF ClientInv, CallInv, NoZeroVector
  <1> QED
    BY <1>1, ClientInvariance, PTL

(* A call ends as cancelled only if its own caller cancelled it, whatever a failing
   sub-batch did to the others (embed: internal/embed/service.go). *)
THEOREM CancellationIsTheCallers == Spec => []CancelledByCallerOnly
  <1>1. ClientInv => CancelledByCallerOnly
    BY DEF ClientInv, CallInv, CancelledByCallerOnly
  <1> QED
    BY <1>1, ClientInvariance, PTL

-----------------------------------------------------------------------------
(* The refinement. *)
phases  == [c \in Calls |-> Phase(c)]
results == [c \in Calls |-> Result(c)]

(* The initial states map to initial states. *)
LEMMA InitImplements == Init => Contract!Init
  <1> SUFFICES ASSUME Init PROVE Contract!Init
    OBVIOUS
  <1>1. \A c \in Calls : Phase(c) = "idle" /\ Result(c) = <<>>
    BY DEF Init, Phase, Result, Errors
  <1> QED
    BY <1>1 DEF Init, Contract!Init

(* A step that neither begins a call nor returns from one is not seen by the caller. *)
LEMMA StepIsInternal ==
    ASSUME \A d \in Calls : CallInv(d), UNCHANGED <<answer, verified>>,
           \A d \in Calls : /\ pc'[d] = "new" <=> pc[d] = "new"
                            /\ answer[d] = "none" \/ out'[d] = out[d]
    PROVE  UNCHANGED <<phases, results, verified>>
  <1>1. \A d \in Calls : Phase(d)' = Phase(d) /\ Result(d)' = Result(d)
    BY DEF Phase, Result
  <1> QED
    BY <1>1 DEF phases, results

(* Asking, and returning an error. *)
LEMMA StepIsSeen ==
    ASSUME \A d \in Calls : CallInv(d), TypeOK, UNCHANGED <<verified, out>>, NEW c \in Calls
    PROVE  /\ pc[c] = "new" /\ pc' = [pc EXCEPT ![c] = "entered"] /\ UNCHANGED answer
                => Contract!Ask(c)
           /\ \A e \in Errors : pc[c] \notin {"new", "over"} /\ Return(c, e) => Contract!Fail(c)
  <1>1. \A d \in Calls : d # c /\ pc'[d] = pc[d] /\ answer'[d] = answer[d]
                            => Phase(d)' = Phase(d) /\ Result(d)' = Result(d)
    BY DEF Phase, Result
  <1>2. ASSUME pc[c] = "new", pc' = [pc EXCEPT ![c] = "entered"], UNCHANGED answer
        PROVE  Contract!Ask(c)
    <2>1. Phase(c) = "idle" /\ Phase(c)' = "busy" /\ Result(c)' = Result(c)
      <3>1. answer[c] = "none" /\ answer'[c] = "none" /\ pc'[c] = "entered"
        BY <1>2 DEF CallInv, TypeOK
      <3> QED
        BY <1>2, <3>1 DEF Phase, Result, Errors
    <2>2. \A d \in Calls : d # c => Phase(d)' = Phase(d) /\ Result(d)' = Result(d)
      BY <1>1, <1>2 DEF TypeOK
    <2> QED
      BY <2>1, <2>2 DEF Contract!Ask
  <1>3. ASSUME NEW e \in Errors, pc[c] \notin {"new", "over"}, Return(c, e)
        PROVE  Contract!Fail(c)
    <2>1. Phase(c) = "busy" /\ Phase(c)' = "failed" /\ Result(c)' = Result(c)
      BY <1>3 DEF CallInv, Phase, Result, TypeOK, Return, Errors
    <2>2. \A d \in Calls : d # c => Phase(d)' = Phase(d) /\ Result(d)' = Result(d)
      BY <1>1, <1>3 DEF TypeOK, Return
    <2> QED
      BY <2>1, <2>2 DEF Contract!Fail
  <1> QED
    BY <1>2, <1>3

(* The join answers with one vector for every part of the input, from a confirmed backend. *)
LEMMA JoinAnswers ==
    ASSUME \A d \in Calls : CallInv(d), TypeOK, NEW c \in Calls, Join(c), firstErr[c] = "none"
    PROVE  Contract!Answer(c)
  <1>1. out[c] \in Contract!Answers(c)
    <2>1. \A i \in SubBatches(c) : out[c][i] \in Backends
      BY DEF Join, CallInv, TypeOK
    <2> QED
      BY <2>1 DEF TypeOK, SubBatches, Contract!Answers
  <1>2. verified \/ Parts[c] = 0
    BY DEF Join, CallInv
  <1>3. /\ Phase(c) = "busy" /\ Phase(c)' = "answered"
        /\ Result(c)' = out[c] /\ UNCHANGED verified
    BY DEF Join, Return, CallInv, Phase, Result, TypeOK, fanOut, Errors
  <1>4. \A d \in Calls : d # c => Phase(d)' = Phase(d) /\ Result(d)' = Result(d)
    BY DEF Join, Return, Phase, Result, TypeOK, fanOut
  <1> QED
    BY <1>1, <1>2, <1>3, <1>4 DEF Contract!Answer

(* Every step is a step of the contract, or is not seen by it. *)
LEMMA StepImplements ==
    ASSUME ClientInv, [Next]_vars
    PROVE  [Contract!Next]_(Contract!vars)
  <1>0. TypeOK /\ \A d \in Calls : CallInv(d)
    BY DEF ClientInv
  <1>1. UNCHANGED <<phases, results, verified>> => UNCHANGED Contract!vars
    BY DEF phases, results, Contract!vars
  <1>2. ASSUME NEW c \in Calls, Call(c) PROVE Contract!Next
    BY <1>0, <1>2, StepIsSeen DEF Call, fanOut, Contract!Next
  <1>3. ASSUME NEW c \in Calls, CallStep(c) PROVE [Contract!Next]_(Contract!vars)
    <2>1. CASE Enter(c) \/ TakeGate(c)
      BY <1>0, <1>1, <2>1, StepIsInternal DEF Enter, TakeGate, fanOut, TypeOK
    <2>2. CASE EnterDead(c) \/ AbandonGate(c) \/ HandshakeDiverges(c) \/ HandshakeFails(c)
      <3>1. \E e \in Errors : Return(c, e)
        BY <2>2 DEF EnterDead, AbandonGate, HandshakeDiverges, HandshakeFails, CtxError, Errors
      <3>2. Contract!Fail(c)
        BY <1>0, <2>2, <3>1, StepIsSeen
           DEF EnterDead, AbandonGate, HandshakeDiverges, HandshakeFails, fanOut
      <3> QED
        BY <3>2 DEF Contract!Next
    <2>3. CASE HandshakeConfirms(c)
      <3>1. \A d \in Calls : Phase(d)' = Phase(d) /\ Result(d)' = Result(d)
        BY <1>0, <2>3 DEF HandshakeConfirms, Phase, Result, fanOut, TypeOK
      <3>2. Contract!Confirm
        BY <2>3, <3>1 DEF HandshakeConfirms, Contract!Confirm
      <3> QED
        BY <3>2 DEF Contract!Next
    <2>4. CASE Join(c) /\ firstErr[c] = "none"
      BY <1>0, <2>4, JoinAnswers DEF Contract!Next
    <2>5. CASE Join(c) /\ firstErr[c] # "none"
      <3>1. Contract!Fail(c)
        BY <1>0, <2>5, StepIsSeen DEF Join, fanOut, TypeOK
      <3> QED
        BY <3>1 DEF Contract!Next
    <2> QED
      BY <1>3, <2>1, <2>2, <2>3, <2>4, <2>5 DEF CallStep
  <1>4. ASSUME NEW c \in Calls, NEW i \in SubBatches(c), SubStep(c, i)
        PROVE  UNCHANGED Contract!vars
    <2>1. SubMoves(c, i)
      BY <1>0, <1>4, SubStepMoves
    <2>2. answer[c] = "none" /\ UNCHANGED <<answer, verified, pc>>
      BY <1>0, <2>1 DEF SubMoves, CallInv
    <2>3. \A d \in Calls : d # c => out'[d] = out[d]
      BY <1>0, <2>1, WriteOut DEF SubMoves, TypeOK
    <2> QED
      BY <1>0, <1>1, <2>2, <2>3, StepIsInternal
  <1>5. CASE ExplicitHandshake
    <2>1. \A d \in Calls : Phase(d)' = Phase(d) /\ Result(d)' = Result(d)
      BY <1>5 DEF ExplicitHandshake, Phase, Result, fanOut
    <2>2. Contract!Confirm
      BY <1>5, <2>1 DEF ExplicitHandshake, Contract!Confirm
    <2> QED
      BY <2>2 DEF Contract!Next
  <1>6. CASE (\E c \in Calls : ContextEnds(c)) \/ ServiceStops \/ ServiceStarts \/ UNCHANGED vars
    BY <1>0, <1>1, <1>6, StepIsInternal
       DEF ContextEnds, ServiceStops, ServiceStarts, vars, service, fanOut
  <1> QED
    BY <1>2, <1>3, <1>4, <1>5, <1>6 DEF Next

(* The client implements the contract of AtomicEmbedding: sub-batches, retries, the gate
   and a backend that comes and goes look like one atomic answer or one error
   (ServiceEmbedder, internal/embed/service.go). *)
THEOREM ClientImplementsContract == Spec => ImplementsContract
  <1>1. Spec => [][Contract!Next]_(Contract!vars)
    BY ClientInvariance, StepImplements, PTL DEF Spec
  <1> QED
    BY <1>1, InitImplements, PTL DEF Spec, ImplementsContract, Contract!Spec
=============================================================================
