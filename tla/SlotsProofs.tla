---------------------------- MODULE SlotsProofs ----------------------------
(***************************************************************************)
(* Theorems about the storage engine, for every number of clients,         *)
(* packages, firmwares and boots and every combination of faults.          *)
(***************************************************************************)
EXTENDS Slots, TLAPS

(* The empty values have the types of the values they stand for. *)
LEMMA EmptyTypes ==
    /\ EmptyBinding \in Binding
    /\ EmptyOperation \in Operation
    /\ NoBindings \in [BindingIndex -> Binding]
    /\ ZeroState \in State
    /\ NoRequest \in Request
<1>1. EmptyBinding \in Binding
  BY DEF EmptyBinding, Binding
<1>2. EmptyOperation \in Operation
  BY DEF EmptyOperation, Operation
<1>3. NoBindings \in [BindingIndex -> Binding]
  BY <1>1 DEF NoBindings
<1>4. ZeroState \in State
  BY <1>2, <1>3, RecordAssumption DEF ZeroState, State, IDLE, ABORTED
<1>5. NoRequest \in Request
  BY <1>2, <1>3, RecordAssumption DEF NoRequest, Request
<1> QED BY <1>1, <1>2, <1>3, <1>4, <1>5

(* Giving the lock back leaves the engine's variables well typed. *)
LEMMA UnlockType ==
    ASSUME NEW r \in Results \cup {"none"}, Unlock(r)
    PROVE  EngineType'
BY EmptyTypes DEF Unlock, EngineType, Steps

(* The initial record and every blob the engine may leave behind. *)
LEMMA BlobTypes ==
    /\ Absent \in Blob
    /\ Damaged \in Blob
    /\ \A s \in State : Encoded(s) \in Blob
BY EmptyTypes DEF Absent, Damaged, Encoded, Blob

(* Either outcome of commit_next leaves the engine's variables well typed, *)
(* and a record about to be written has passed state_valid.                *)
LEMMA CommitNextType ==
    ASSUME EngineType, pc = "begin" \/ pc = "verify",
           NEW before \in State, NEW after \in State, CommitNext(before, after)
    PROVE  EngineType' /\ (pc' = "commit" => StateValid(next'))
<1> DEFINE successor == [after EXCEPT !.sequence = before.sequence + 1]
<1>1. CASE Unlock("INVALID")
  <2>1. EngineType'
    BY <1>1, UnlockType DEF Results
  <2> QED BY <2>1, <1>1 DEF Unlock
<1>2. CASE /\ before.sequence # MaxSequence /\ StateValid(successor)
           /\ pc' = "commit" /\ current' = before /\ next' = successor
           /\ UNCHANGED <<lock, request, committed, offset, result>>
  <2>1. before.sequence + 1 \in 0..MaxSequence
    BY <1>2, RecordAssumption DEF State
  <2>2. successor \in State
    BY <2>1 DEF State
  <2> QED BY <1>2, <2>2 DEF EngineType, Steps
<1> QED BY <1>1, <1>2 DEF CommitNext

-----------------------------------------------------------------------------
(* Types and validity of the record.  The type of an instance's slot and   *)
(* package depends on the validity of the durable record, so the two are   *)
(* proved together.                                                        *)

RecordSound ==
    /\ nvs.kind = "record" => StateValid(nvs.state)
    /\ pc = "commit" => StateValid(next)

Sound == TypeOK /\ RecordSound

(* A phase transition keeps the engine's variables well typed. *)
LEMMA TransitionType ==
    ASSUME TypeOK,
           NEW op, NEW refusal \in Results, NEW regions, NEW after \in State,
           Transition(op, refusal, regions, after)
    PROVE  EngineType' /\ (pc' = "commit" => StateValid(next'))
<1>1. PICK r \in Results :
          IF r = "OK" THEN CommitNext(nvs.state, after) ELSE Unlock(r)
  BY DEF Transition
<1>2. pc = "begin" /\ nvs.state \in State /\ EngineType
  BY DEF Transition, TypeOK, MediaType, Blob
<1>3. CASE r = "OK"
  BY <1>1, <1>2, <1>3, CommitNextType
<1>4. CASE r # "OK"
  <2>1. Unlock(r)
    BY <1>1, <1>4
  <2>2. EngineType'
    BY <2>1, UnlockType
  <2> QED BY <2>1, <2>2 DEF Unlock
<1> QED BY <1>3, <1>4

(* What a valid record says about the slots and packages it names. *)
LEMMA ValidRecord ==
    ASSUME NEW s \in State, StateValid(s)
    PROVE  /\ s.sequence \in 1..MaxSequence
           /\ s.phase # IDLE =>
                 /\ s.operation.slot \in Slots
                 /\ s.operation.package \in Packages
                 /\ s.operation.id \in OperationIds
           /\ s.phase \in PendingPhases =>
                 \A i \in BindingIndex : s.bindings[i].package_present =>
                     s.bindings[i].slot # s.operation.slot
           /\ \A i \in BindingIndex : s.bindings[i].package_present =>
                 /\ s.bindings[i].slot \in Slots
                 /\ s.bindings[i].package \in Packages
<1>1. s.sequence \in 1..MaxSequence
  BY RecordAssumption DEF StateValid, State
<1>2. s.phase \in IDLE..ABORTED /\ s.operation \in Operation
  BY DEF State
<1>3. ASSUME s.phase # IDLE
      PROVE  /\ s.operation.slot \in Slots
             /\ s.operation.package \in Packages
             /\ s.operation.id \in OperationIds
  BY <1>2, <1>3 DEF StateValid, OperationValid, Operation
<1>4. ASSUME s.phase \in PendingPhases
      PROVE  \A i \in BindingIndex : s.bindings[i].package_present =>
                 s.bindings[i].slot # s.operation.slot
  BY <1>2, <1>4 DEF StateValid, OperationValid, PendingPhases, IDLE, WRITING,
                    HEALTH_VERIFIED
<1>5. ASSUME NEW i \in BindingIndex, s.bindings[i].package_present
      PROVE  s.bindings[i].slot \in Slots /\ s.bindings[i].package \in Packages
  <2>1. s.bindings[i] \in Binding
    BY DEF State
  <2>2. BindingValid(s.bindings[i])
    BY DEF StateValid
  <2>3. s.bindings[i] # EmptyBinding
    BY <1>5 DEF EmptyBinding
  <2> QED BY <1>5, <2>1, <2>2, <2>3 DEF BindingValid, Binding
<1> QED BY <1>1, <1>3, <1>4, <1>5

(* Every call taken leaves the engine's variables well typed. *)
LEMMA TakeType ==
    ASSUME TypeOK, NEW c \in Clients, NEW op \in Operations,
           NEW operation \in Operation, NEW bindings \in [BindingIndex -> Binding],
           Take(c, op, operation, bindings)
    PROVE  EngineType' /\ MediaType' /\ pc' = "begin" /\ nvs' = nvs
<1>1. view[c].sequence \in 0..MaxSequence
  BY DEF TypeOK, ClientType, State
<1>2. request' \in Request
  BY <1>1 DEF Take, Request
<1> QED BY <1>2 DEF Take, TypeOK, EngineType, MediaType, Steps, media

(* The refusals and verdicts are results. *)
LEMMA RefusalTypes ==
    ASSUME NEW s \in State, NEW op \in Operation
    PROVE  /\ ReserveRefusal(s) \in Results
           /\ ReserveVerdict(s, op) \in Results
           /\ WriteRefusal(s) \in Results
           /\ TrialRefusal(s) \in Results
           /\ HealthRefusal(s) \in Results
           /\ ConfirmRefusal(s) \in Results
           /\ AbandonRefusal(s) \in Results
<1>1. ReserveVerdict(s, op) \in Results
  BY DEF ReserveVerdict, Results
<1>2. AbandonRefusal(s) \in Results
  BY DEF AbandonRefusal, Results
<1> QED BY <1>1, <1>2 DEF ReserveRefusal, WriteRefusal, TrialRefusal,
             HealthRefusal, ConfirmRefusal, Results

(* The phases the calls lead to. *)
LEMMA PhaseTypes ==
    {WRITING, PREPARED, TRIAL_STARTED, HEALTH_VERIFIED, CONFIRMED, ABORTED}
        \subseteq IDLE..ABORTED
BY DEF WRITING, PREPARED, TRIAL_STARTED, HEALTH_VERIFIED, CONFIRMED, IDLE, ABORTED

(* Replacing one part of a record gives a record. *)
LEMMA FieldTypes ==
    /\ \A t \in State, p \in IDLE..ABORTED : [t EXCEPT !.phase = p] \in State
    /\ \A t \in State, n \in 0..MaxSequence : [t EXCEPT !.sequence = n] \in State
    /\ \A t \in State, b \in [BindingIndex -> Binding] :
           [t EXCEPT !.bindings = b] \in State
    /\ \A t \in State, op \in Operation : [t EXCEPT !.operation = op] \in State
BY DEF State

(* The records the engine derives from a record are records. *)
LEMMA SuccessorTypes ==
    ASSUME NEW s \in State, WorldType
    PROVE  /\ \A p \in IDLE..ABORTED : [s EXCEPT !.phase = p] \in State
           /\ [s EXCEPT !.phase = TRIAL_STARTED,
                        !.operation.trial_boot_id = boot] \in State
           /\ [s EXCEPT !.phase = CONFIRMED, !.bindings = Rebound(s)] \in State
           /\ \A op \in Operation : \A k \in Slots :
                 [s EXCEPT !.phase = WRITING, !.operation = [op EXCEPT !.slot = k]]
                     \in State
<1>1. boot \in Nat
  BY EngineAssumption DEF WorldType
<1>2. \A p \in IDLE..ABORTED : [s EXCEPT !.phase = p] \in State
  BY DEF State
<1>3. [s EXCEPT !.phase = TRIAL_STARTED, !.operation.trial_boot_id = boot] \in State
  <2> DEFINE t == [s EXCEPT !.phase = TRIAL_STARTED]
             op == [t.operation EXCEPT !.trial_boot_id = boot]
  <2>1. t \in State
    BY <1>2, PhaseTypes
  <2>2. t.operation \in Operation
    BY <2>1 DEF State
  <2>3. op \in Operation
    BY <1>1, <2>2 DEF Operation
  <2> HIDE DEF t, op
  <2>4. [t EXCEPT !.operation = op] \in State
    BY <2>1, <2>3, FieldTypes
  <2> QED BY <2>4 DEF t, op
<1>4. Rebound(s) \in [BindingIndex -> Binding]
  <2> SUFFICES ASSUME NEW i \in BindingIndex
               PROVE  Rebound(s)[i] \in Binding
    BY DEF Rebound
  <2>1. s.bindings[i] \in Binding /\ s.operation \in Operation
    BY DEF State
  <2>2. [s.bindings[i] EXCEPT !.package_present = TRUE,
            !.slot = s.operation.slot, !.size = s.operation.size,
            !.package = s.operation.package, !.abi = s.operation.abi,
            !.schema = s.operation.schema] \in Binding
    BY <2>1 DEF Binding, Operation
  <2> QED BY <2>1, <2>2 DEF Rebound
<1>5. [s EXCEPT !.phase = CONFIRMED, !.bindings = Rebound(s)] \in State
  <2> DEFINE t == [s EXCEPT !.phase = CONFIRMED]
  <2>1. t \in State
    BY <1>2, PhaseTypes
  <2> HIDE DEF t
  <2>2. [t EXCEPT !.bindings = Rebound(s)] \in State
    BY <1>4, <2>1, FieldTypes
  <2> QED BY <2>2 DEF t
<1>6. ASSUME NEW op \in Operation, NEW k \in Slots
      PROVE  [s EXCEPT !.phase = WRITING, !.operation = [op EXCEPT !.slot = k]] \in State
  <2> DEFINE t == [s EXCEPT !.phase = WRITING]
  <2>1. t \in State
    BY <1>2, PhaseTypes
  <2>2. [op EXCEPT !.slot = k] \in Operation
    BY DEF Operation, Slots
  <2> HIDE DEF t
  <2>3. [t EXCEPT !.operation = [op EXCEPT !.slot = k]] \in State
    BY <2>1, <2>2, FieldTypes
  <2> QED BY <2>3 DEF t
<1> QED BY <1>2, <1>3, <1>5, <1>6

(* The steps of calls in progress preserve types and validity. *)
LEMMA EngineSound ==
    ASSUME Sound, EngineStep
    PROVE  Sound'
<1> USE DEF Sound
<1>0. /\ TypeOK /\ RecordSound /\ EngineType /\ MediaType /\ ClientType /\ WorldType
      /\ nvs.state \in State /\ request.operation \in Operation
      /\ request.bindings \in [BindingIndex -> Binding]
  BY DEF TypeOK, MediaType, Blob, EngineType, Request
<1>s. ASSUME EngineType', UNCHANGED <<media, clients, world>>,
             pc' = "commit" => StateValid(next')
      PROVE  Sound'
  <2>1. MediaType' /\ ClientType' /\ WorldType'
    BY <1>0, <1>s DEF media, clients, world, MediaType, ClientType, WorldType
  <2> QED BY <1>0, <1>s, <2>1 DEF TypeOK, RecordSound, media
<1>u. ASSUME NEW r \in Results, Unlock(r)
      PROVE  EngineType' /\ pc' # "commit"
  <2>1. EngineType'
    BY <1>u, UnlockType
  <2> QED BY <1>u, <2>1 DEF Unlock
<1>1. CASE Initialize
  <2> DEFINE initial == [ZeroState EXCEPT !.sequence = 1, !.bindings = request.bindings]
  <2>1. initial \in State
    <3> DEFINE first == [ZeroState EXCEPT !.sequence = 1]
    <3>1. first \in State
      BY EmptyTypes, RecordAssumption, FieldTypes
    <3> HIDE DEF first
    <3>2. [first EXCEPT !.bindings = request.bindings] \in State
      BY <1>0, <3>1, FieldTypes
    <3> QED BY <3>2 DEF first
  <2>2. UNCHANGED <<media, clients, world>>
    BY <1>1 DEF Initialize
  <2>3. \/ \E r \in Results : Unlock(r)
        \/ /\ StateValid(initial) /\ pc' = "commit" /\ next' = initial
           /\ UNCHANGED <<lock, request, current, committed, offset, result>>
    BY <1>1 DEF Initialize, Results
  <2>4. CASE \E r \in Results : Unlock(r)
    BY <2>2, <2>4, <1>u, <1>s
  <2>5. CASE /\ StateValid(initial) /\ pc' = "commit" /\ next' = initial
             /\ UNCHANGED <<lock, request, current, committed, offset, result>>
    <3>1. EngineType'
      BY <1>0, <2>1, <2>5 DEF EngineType, Steps
    <3> QED BY <3>1, <2>2, <2>5, <1>s
  <2> QED BY <2>3, <2>4, <2>5
<1>2. CASE Load \/ Reconcile
  <2>1. PICK r \in Results : Unlock(r)
    BY <1>2 DEF Load, Reconcile
  <2>2. view' \in [Clients -> State]
    BY <1>0, <1>2 DEF Load, Reconcile, ClientType, clients
  <2>3. decision' \in [Clients -> Decisions]
    <3>1. \A q \in Results : BootDecision(nvs.state, q) \in Decisions
      BY DEF BootDecision, Decisions
    <3> QED BY <1>0, <1>2, <3>1 DEF Load, Reconcile, ClientType, clients
  <2>4. UNCHANGED <<media, world>>
    BY <1>2 DEF Load, Reconcile
  <2>5. MediaType' /\ WorldType' /\ nvs' = nvs
    BY <1>0, <2>4 DEF MediaType, WorldType, media, world
  <2> QED BY <1>0, <1>u, <2>1, <2>2, <2>3, <2>5 DEF TypeOK, RecordSound, ClientType
<1>3. CASE Reserve
  <2>1. UNCHANGED <<media, clients, world>> /\ pc = "begin"
    BY <1>3 DEF Reserve
  <2>2. \/ \E r \in Results : Unlock(r)
        \/ \E k \in Slots :
              CommitNext(nvs.state, [nvs.state EXCEPT !.phase = WRITING,
                            !.operation = [request.operation EXCEPT !.slot = k]])
    BY <1>0, <1>3, RefusalTypes DEF Reserve, FreeSlots
  <2>3. CASE \E r \in Results : Unlock(r)
    BY <2>1, <2>3, <1>u, <1>s
  <2>4. CASE \E k \in Slots :
              CommitNext(nvs.state, [nvs.state EXCEPT !.phase = WRITING,
                            !.operation = [request.operation EXCEPT !.slot = k]])
    <3>1. EngineType' /\ (pc' = "commit" => StateValid(next'))
      BY <1>0, <2>1, <2>4, SuccessorTypes, CommitNextType
    <3> QED BY <3>1, <2>1, <1>s
  <2> QED BY <2>2, <2>3, <2>4
<1>4. CASE WriteAndPrepare
  <2>1. UNCHANGED <<media, clients, world>>
    BY <1>4 DEF WriteAndPrepare
  <2>2. \/ \E r \in Results : Unlock(r)
        \/ /\ pc' = "erase" /\ current' = nvs.state
           /\ UNCHANGED <<lock, request, next, committed, offset, result>>
    BY <1>4 DEF WriteAndPrepare
  <2>3. EngineType' /\ pc' # "commit"
    BY <1>0, <1>u, <2>2 DEF EngineType, Steps
  <2> QED BY <2>1, <2>3, <1>s
<1>5. CASE Erase \/ WriteChunk
  <2>1. EngineType' /\ pc' # "commit"
    <3>1. \/ Unlock("IO_FAILED")
          \/ /\ pc' \in Steps \ {"commit"} /\ offset' \in Nat
             /\ UNCHANGED <<lock, request, current, next, committed, result>>
      BY <1>0, <1>5 DEF Erase, WriteChunk, EngineType, Steps
    <3> QED BY <1>0, <1>u, <3>1 DEF EngineType, Steps, Results
  <2>2. MediaType'
    BY <1>0, <1>5 DEF Erase, WriteChunk, MediaType, Content
  <2>3. nvs' = nvs /\ UNCHANGED <<clients, world>>
    BY <1>5 DEF Erase, WriteChunk
  <2>4. ClientType' /\ WorldType'
    BY <1>0, <2>3 DEF ClientType, WorldType, clients, world
  <2> QED BY <1>0, <2>1, <2>2, <2>3, <2>4 DEF TypeOK, RecordSound
<1>6. CASE WriteDone
  <2>1. EngineType' /\ pc' # "commit"
    BY <1>0, <1>6 DEF WriteDone, EngineType, Steps
  <2> QED BY <1>6, <2>1, <1>s DEF WriteDone
<1>7. CASE Verify
  <2>1. UNCHANGED <<media, clients, world>> /\ pc = "verify"
    BY <1>7 DEF Verify
  <2>2. \/ \E r \in Results : Unlock(r)
        \/ CommitNext(current, [current EXCEPT !.phase = PREPARED])
    BY <1>7 DEF Verify
  <2>3. CASE \E r \in Results : Unlock(r)
    BY <2>1, <2>3, <1>u, <1>s
  <2>4. CASE CommitNext(current, [current EXCEPT !.phase = PREPARED])
    <3>1. current \in State /\ PREPARED \in IDLE..ABORTED
      BY <1>0 DEF EngineType, PREPARED, IDLE, ABORTED
    <3>2. [current EXCEPT !.phase = PREPARED] \in State
      BY <1>0, <3>1, SuccessorTypes
    <3>3. EngineType' /\ (pc' = "commit" => StateValid(next'))
      BY <1>0, <2>1, <2>4, <3>1, <3>2, CommitNextType
    <3> QED BY <3>3, <2>1, <1>s
  <2> QED BY <2>2, <2>3, <2>4
<1>8. CASE BeginTrial \/ MarkHealthy \/ Confirm \/ Abandon
  <2>0. HEALTH_VERIFIED \in IDLE..ABORTED /\ ABORTED \in IDLE..ABORTED
    BY DEF HEALTH_VERIFIED, IDLE, ABORTED
  <2>1. \E op, regions : \E refusal \in Results, after \in State :
            Transition(op, refusal, regions, after)
    BY <1>0, <1>8, <2>0, RefusalTypes, SuccessorTypes
       DEF BeginTrial, MarkHealthy, Confirm, Abandon
  <2>2. EngineType' /\ (pc' = "commit" => StateValid(next'))
    BY <1>0, <2>1, TransitionType
  <2>3. UNCHANGED <<media, clients, world>>
    BY <2>1 DEF Transition
  <2> QED BY <2>2, <2>3, <1>s
<1>9. CASE WriteBlob
  <2>1. EngineType' /\ pc' # "commit"
    BY <1>0, <1>9 DEF WriteBlob, EngineType, Steps
  <2>2. nvs' \in {nvs, Encoded(next), Damaged}
    BY <1>9 DEF WriteBlob
  <2>3. MediaType'
    BY <1>0, <1>9, <2>2, BlobTypes DEF WriteBlob, MediaType, EngineType
  <2>4. ClientType' /\ WorldType'
    BY <1>0, <1>9 DEF WriteBlob, ClientType, WorldType, clients, world
  <2>5. nvs'.kind = "record" => StateValid(nvs'.state)
    BY <1>0, <1>9, <2>2 DEF WriteBlob, RecordSound, Encoded, Damaged
  <2> QED BY <2>1, <2>3, <2>4, <2>5 DEF TypeOK, RecordSound
<1>10. CASE ReadBack
  <2>1. PICK r \in Results : Unlock(r)
    BY <1>10 DEF ReadBack
  <2>2. view' \in [Clients -> State] /\ decision' = decision
    BY <1>0, <1>10 DEF ReadBack, ClientType, EngineType
  <2>3. UNCHANGED <<media, world>>
    BY <1>10 DEF ReadBack
  <2>4. MediaType' /\ WorldType' /\ nvs' = nvs
    BY <1>0, <2>3 DEF MediaType, WorldType, media, world
  <2> QED BY <1>0, <1>u, <2>1, <2>2, <2>4 DEF TypeOK, RecordSound, ClientType
<1> QED
  BY <1>1, <1>2, <1>3, <1>4, <1>5, <1>6, <1>7, <1>8, <1>9, <1>10 DEF EngineStep

(* So do the clients' calls ... *)
LEMMA CallSound ==
    ASSUME Sound, NEW c \in Clients, NEW op \in Operations,
           NEW operation \in Operation, NEW bindings \in [BindingIndex -> Binding],
           Take(c, op, operation, bindings), ClientType', WorldType'
    PROVE  Sound'
BY TakeType DEF Sound, TypeOK, RecordSound

(* ... each of them, with the starts of instances clients ask for ... *)
LEMMA ClientSound ==
    ASSUME Sound, NEW c \in Clients, ClientStep(c)
    PROVE  Sound'
<1>0. /\ TypeOK /\ RecordSound /\ EngineType /\ MediaType /\ ClientType /\ WorldType
      /\ view[c] \in State
  BY DEF Sound, TypeOK, ClientType
<1>v. [view EXCEPT ![c] = ZeroState] \in [Clients -> State]
  BY <1>0, EmptyTypes DEF ClientType
<1>d. [decision EXCEPT ![c] = "BLOCKED"] \in [Clients -> Decisions]
  BY <1>0 DEF ClientType, Decisions
<1>c. UNCHANGED clients => ClientType'
  BY <1>0 DEF ClientType, clients
<1>w. UNCHANGED world => WorldType'
  BY <1>0 DEF WorldType, world
<1>1. CASE CallInitialize(c)
  <2>1. PICK b \in Installations : Take(c, "initialize", EmptyOperation, b)
    BY <1>1 DEF CallInitialize
  <2>2. b \in [BindingIndex -> Binding]
    BY EngineAssumption
  <2>3. ClientType' /\ WorldType'
    BY <1>1, <1>c, <1>w DEF CallInitialize
  <2> QED BY <2>1, <2>2, <2>3, CallSound, EmptyTypes DEF Operations
<1>2. CASE CallLoad(c) \/ CallReconcile(c)
  <2>1. ClientType' /\ WorldType'
    BY <1>0, <1>2, <1>v, <1>d, <1>w DEF CallLoad, CallReconcile, ClientType
  <2>2. \E op \in Operations : Take(c, op, EmptyOperation, NoBindings)
    BY <1>2 DEF CallLoad, CallReconcile, Operations
  <2> QED BY <2>1, <2>2, CallSound, EmptyTypes
<1>3. CASE RefuseLoad(c) \/ RefuseReconcile(c)
  <2>1. ClientType'
    BY <1>0, <1>3, <1>v, <1>d DEF RefuseLoad, RefuseReconcile, ClientType
  <2>2. UNCHANGED <<media, engine, world>>
    BY <1>3 DEF RefuseLoad, RefuseReconcile
  <2> QED
    BY <1>0, <1>w, <2>1, <2>2
       DEF Sound, TypeOK, RecordSound, MediaType, EngineType, media, engine
<1>4. CASE CallReserve(c)
  <2>1. PICK id \in OperationIds, k \in Claims :
            Take(c, "reserve",
                 [EmptyOperation EXCEPT
                     !.id = id, !.target = firmware.running, !.package = k.package,
                     !.size = k.size, !.abi = k.abi, !.schema = k.schema],
                 NoBindings)
    BY <1>4 DEF CallReserve
  <2>2. firmware.running \in Firmwares
    BY <1>0, EngineAssumption DEF WorldType
  <2>3. k \in [package : Packages, size : Nat, abi : Nat, schema : Nat]
    BY EngineAssumption
  <2>4. [EmptyOperation EXCEPT
            !.id = id, !.target = firmware.running, !.package = k.package,
            !.size = k.size, !.abi = k.abi, !.schema = k.schema] \in Operation
    BY <2>2, <2>3 DEF EmptyOperation, Operation
  <2>5. ClientType' /\ WorldType'
    BY <1>4, <1>c, <1>w DEF CallReserve
  <2> QED BY <2>1, <2>4, <2>5, CallSound, EmptyTypes DEF Operations
<1>5. CASE \/ CallWriteAndPrepare(c) \/ CallBeginTrial(c)
           \/ CallConfirm(c) \/ CallAbandon(c)
  <2>1. ClientType' /\ WorldType'
    BY <1>5, <1>c, <1>w
       DEF CallWriteAndPrepare, CallBeginTrial, CallConfirm, CallAbandon, Call
  <2>2. \E op \in Operations : Take(c, op, EmptyOperation, NoBindings)
    BY <1>5 DEF CallWriteAndPrepare, CallBeginTrial, CallConfirm, CallAbandon,
                Call, Operations
  <2> QED BY <2>1, <2>2, CallSound, EmptyTypes
<1>6. CASE CallMarkHealthy(c)
  <2>1. ClientType' /\ WorldType'
    BY <1>0, <1>6, <1>c DEF CallMarkHealthy, Call, WorldType, Instance
  <2>2. Take(c, "mark_healthy", EmptyOperation, NoBindings)
    BY <1>6 DEF CallMarkHealthy, Call
  <2> QED BY <2>1, <2>2, CallSound, EmptyTypes DEF Operations
<1>7. CASE StartTrial(c) \/ StartConfirmed(c)
  <2>1. nvs.kind = "record" /\ nvs.state = view[c]
    BY <1>7 DEF StartTrial, StartConfirmed, Encoded
  <2>2. StateValid(view[c])
    BY <1>0, <2>1 DEF RecordSound
  <2>3. PICK kind \in {"trial", "confirmed"}, id \in OperationIds \cup {Zero},
             x \in Operation \cup Binding :
            /\ x.slot \in Slots /\ x.package \in Packages
            /\ StartInstance(kind, x, id)
    <3>0. /\ view[c].operation \in Operation
          /\ \A i \in BindingIndex : view[c].bindings[i] \in Binding
      <4>1. view[c] \in State
        BY <1>0
      <4> QED BY <4>1 DEF State
    <3>1. CASE StartTrial(c)
      BY <1>0, <2>2, <3>0, <3>1, ValidRecord DEF StartTrial, TRIAL_STARTED, IDLE
    <3>2. CASE StartConfirmed(c)
      BY <1>0, <2>2, <3>0, <3>2, ValidRecord DEF StartConfirmed
    <3> QED BY <1>7, <3>1, <3>2
  <2>4. instance' \in Instance
    BY <2>3 DEF StartInstance, Instance, Content
  <2>5. WorldType'
    BY <1>0, <2>3, <2>4 DEF StartInstance, WorldType
  <2>6. UNCHANGED <<media, engine, clients>>
    BY <2>3 DEF StartInstance
  <2> QED
    BY <1>0, <1>c, <2>5, <2>6
       DEF Sound, TypeOK, RecordSound, MediaType, EngineType, media, engine
<1> QED
  BY <1>1, <1>2, <1>3, <1>4, <1>5, <1>6, <1>7 DEF ClientStep

(* ... and what the executor and the hardware do. *)
LEMMA WorldSound ==
    ASSUME Sound, StopInstance \/ PowerCycle \/ \E k \in Slots : Decay(k)
    PROVE  Sound'
<1>0. /\ TypeOK /\ RecordSound /\ EngineType /\ MediaType /\ ClientType /\ WorldType
  BY DEF Sound, TypeOK
<1>i. NoInstance \in Instance
  BY DEF NoInstance, Instance, Slots, Content
<1>1. CASE StopInstance
  <2>1. WorldType' /\ UNCHANGED <<media, engine, clients>>
    BY <1>0, <1>1, <1>i DEF StopInstance, WorldType
  <2> QED
    BY <1>0, <2>1 DEF Sound, TypeOK, RecordSound, MediaType, EngineType,
                      ClientType, media, engine, clients
<1>2. CASE PowerCycle
  <2>1. WorldType'
    BY <1>0, <1>2, <1>i, EngineAssumption DEF PowerCycle, WorldType
  <2>2. ClientType'
    BY <1>2, EmptyTypes DEF PowerCycle, ClientType, Decisions
  <2>3. Unlock("none") /\ UNCHANGED media
    BY <1>2 DEF PowerCycle
  <2>4. EngineType' /\ pc' = "idle"
    <3>1. EngineType'
      BY <2>3, UnlockType
    <3> QED BY <3>1, <2>3 DEF Unlock
  <2> QED
    BY <1>0, <2>1, <2>2, <2>3, <2>4 DEF Sound, TypeOK, RecordSound, MediaType, media
<1>3. CASE \E k \in Slots : Decay(k)
  <2>1. MediaType' /\ nvs' = nvs /\ UNCHANGED <<engine, clients, world>>
    BY <1>0, <1>3 DEF Decay, MediaType, Content
  <2> QED
    BY <1>0, <2>1 DEF Sound, TypeOK, RecordSound, EngineType, ClientType,
                      WorldType, engine, clients, world
<1> QED BY <1>1, <1>2, <1>3

(* The state at first boot is sound. *)
LEMMA InitSound == Init => Sound
<1> SUFFICES ASSUME Init PROVE Sound
  OBVIOUS
<1>1. MediaType
  BY EngineAssumption, BlobTypes DEF Init, MediaType
<1>2. EngineType
  BY EmptyTypes DEF Init, EngineType, Steps
<1>3. ClientType
  BY EmptyTypes DEF Init, ClientType, Decisions
<1>4. WorldType
  BY EngineAssumption DEF Init, WorldType, Instance, NoInstance, Slots, Content
<1>5. RecordSound
  BY DEF Init, RecordSound, Absent
<1> QED BY <1>1, <1>2, <1>3, <1>4, <1>5 DEF Sound, TypeOK

(* Every step keeps types and the validity of the record. *)
LEMMA NextSound == Sound /\ [Next]_vars => Sound'
<1> SUFFICES ASSUME Sound, [Next]_vars PROVE Sound'
  OBVIOUS
<1>1. CASE UNCHANGED vars
  BY <1>1 DEF Sound, TypeOK, RecordSound, MediaType, EngineType, ClientType,
              WorldType, vars, media, engine, clients, world
<1> QED BY <1>1, EngineSound, ClientSound, WorldSound DEF Next

(* Types are kept, and every record in NVS passes state_valid: a record    *)
(* that a crash leaves behind always decodes at the next boot.             *)
THEOREM SoundAlways == Spec => []Sound
BY InitSound, NextSound, PTL DEF Spec

(* The type invariant of the engine. *)
THEOREM TypeCorrect == Spec => []TypeOK
<1>1. Sound => TypeOK
  BY DEF Sound
<1> QED BY <1>1, SoundAlways, PTL

-----------------------------------------------------------------------------
(* Bytes in flash.  ReferencedBytesIntact is not inductive: it also takes  *)
(* that a call between its erase and its commit works on the slot the      *)
(* durable record still reserves, and that a record on its way to NVS      *)
(* refers only to bytes that are there.                                    *)

References(s) == ConfirmedReferences(s) \cup CandidateReferences(s)

Intact(x) == Matches(x) \/ x.slot \in decayed

WritesReserved ==
    pc \in {"erase", "write", "verify"} =>
        nvs = Encoded(current) /\ current.phase = WRITING

BytesInv ==
    /\ nvs.kind = "record" => \A x \in References(nvs.state) : Intact(x)
    /\ WritesReserved
    /\ pc = "commit" => \A x \in References(next) : Intact(x)

(* A step that leaves NVS and flash alone and prepares no record. *)
LEMMA QuietBytes ==
    ASSUME BytesInv, UNCHANGED media,
           UNCHANGED engine \/ pc' \in {"idle", "begin", "readback"}
    PROVE  BytesInv'
<1>1. \A x : Intact(x) <=> Intact(x)'
  BY DEF Intact, Matches, media
<1> QED BY <1>1 DEF BytesInv, WritesReserved, media, engine, References

(* A record handed to commit_next refers to the same bytes as the record   *)
(* commit_next writes.                                                     *)
LEMMA CommitNextBytes ==
    ASSUME BytesInv, UNCHANGED media, NEW before \in State, NEW after \in State,
           CommitNext(before, after), \A x \in References(after) : Intact(x)
    PROVE  BytesInv'
<1>1. CASE Unlock("INVALID")
  BY <1>1, QuietBytes DEF Unlock
<1>2. CASE pc' = "commit" /\ next' = [after EXCEPT !.sequence = before.sequence + 1]
  <2>1. /\ next'.bindings = after.bindings
        /\ next'.operation = after.operation
        /\ next'.phase = after.phase
    BY <1>2 DEF State
  <2>2. References(next)' = References(after)
    BY <2>1 DEF References, ConfirmedReferences, CandidateReferences
  <2>3. \A x : Intact(x) <=> Intact(x)'
    BY DEF Intact, Matches, media
  <2> QED BY <1>2, <2>2, <2>3 DEF BytesInv, WritesReserved, media, References
<1> QED BY <1>1, <1>2 DEF CommitNext

(* What a phase transition establishes before it prepares a record. *)
LEMMA TransitionBytes ==
    ASSUME Sound, BytesInv,
           NEW op, NEW refusal, NEW regions, NEW after \in State,
           Transition(op, refusal, regions, after),
           ASSUME Decodes(nvs), refusal = "OK", \A x \in regions : Matches(x)
           PROVE  \A x \in References(after) : Intact(x)
    PROVE  BytesInv'
<1>1. PICK r \in Results :
          /\ GateResult(refusal, regions, r)
          /\ IF r = "OK" THEN CommitNext(nvs.state, after) ELSE Unlock(r)
  BY DEF Transition
<1>2. UNCHANGED media /\ nvs.state \in State
  BY DEF Transition, Sound, TypeOK, MediaType, Blob
<1>3. CASE r = "OK"
  <2>1. Decodes(nvs) /\ refusal = "OK" /\ \A x \in regions : Matches(x)
    BY <1>1, <1>3 DEF GateResult, BeginResult, LoadResult, HashResult
  <2> QED BY <1>1, <1>2, <1>3, <2>1, CommitNextBytes
<1>4. CASE r # "OK"
  BY <1>1, <1>2, <1>4, QuietBytes DEF Unlock
<1> QED BY <1>3, <1>4

(* Writing to the reserved slot disturbs no confirmed package. *)
LEMMA WriteBytes ==
    ASSUME Sound, BytesInv, pc \in {"erase", "write"}, nvs' = nvs,
           NEW content \in Content,
           \/ UNCHANGED <<flash, decayed>>
           \/ /\ flash' = [flash EXCEPT ![current.operation.slot] = content]
              /\ \/ decayed' = decayed
                 \/ decayed' = decayed \ {current.operation.slot},
           \/ pc' = "idle"
           \/ pc' \in {"write", "verify"} /\ current' = current
    PROVE  BytesInv'
<1>0. TypeOK /\ RecordSound /\ MediaType
  BY DEF Sound, TypeOK
<1>1. nvs = Encoded(current) /\ current.phase = WRITING
  BY DEF BytesInv, WritesReserved
<1>2. nvs.kind = "record" /\ nvs.state = current /\ current \in State
  BY <1>0, <1>1 DEF Encoded, TypeOK, EngineType
<1>3. StateValid(current)
  BY <1>0, <1>2 DEF RecordSound
<1>4. current.phase \in PendingPhases
  BY <1>1 DEF PendingPhases, WRITING, HEALTH_VERIFIED
<1>5. ASSUME NEW x \in References(current)
      PROVE  Intact(x)'
  <2>1. x \in ConfirmedReferences(current)
    BY <1>1, <1>5 DEF References, CandidateReferences, CompletePhases, WRITING,
                      PREPARED, HEALTH_VERIFIED
  <2>2. PICK i \in BindingIndex :
            current.bindings[i].package_present /\ x = Reference(current.bindings[i])
    BY <2>1 DEF ConfirmedReferences
  <2>3. x.slot = current.bindings[i].slot
    BY <2>2 DEF Reference
  <2>4. x.slot \in Slots /\ x.slot # current.operation.slot
    BY <1>2, <1>3, <1>4, <2>2, <2>3, ValidRecord
  <2>5. flash'[x.slot] = flash[x.slot]
    BY <1>0, <2>4 DEF MediaType
  <2>6. x.slot \in decayed => x.slot \in decayed'
    BY <2>4
  <2>7. Intact(x)
    BY <1>2, <1>5 DEF BytesInv
  <2> QED BY <2>5, <2>6, <2>7 DEF Intact, Matches
<1> QED BY <1>1, <1>2, <1>5 DEF BytesInv, WritesReserved, References

(* The successor records of the phase transitions refer to bytes that were *)
(* intact or have just been hashed.                                        *)
LEMMA TransitionsBytes ==
    ASSUME Sound, BytesInv, BeginTrial \/ MarkHealthy \/ Confirm \/ Abandon
    PROVE  BytesInv'
<1> DEFINE s == nvs.state
<1>0. s \in State /\ WorldType /\ RecordSound
  BY DEF Sound, TypeOK, MediaType, Blob
<1>m. \A x : Matches(x) => Intact(x)
  BY DEF Intact
<1>c. Decodes(nvs) => \A x \in ConfirmedReferences(s) : Intact(x)
  BY DEF Decodes, BytesInv, References
<1>1. CASE BeginTrial
  <2> DEFINE after == [s EXCEPT !.phase = TRIAL_STARTED,
                                !.operation.trial_boot_id = boot]
  <2>1. after \in State
    BY <1>0, SuccessorTypes
  <2>2. ASSUME TrialRefusal(s) = "OK",
               \A x \in ConfirmedReferences(s) \cup CandidateReferences(s) : Matches(x)
        PROVE  \A x \in References(after) : Intact(x)
    <3>1. s.phase = PREPARED
      BY <2>2 DEF TrialRefusal
    <3>2. after.bindings = s.bindings /\ Reference(after.operation) = Reference(s.operation)
      BY <1>0 DEF State, Operation, Reference
    <3>3. References(after) \subseteq ConfirmedReferences(s) \cup CandidateReferences(s)
      BY <3>1, <3>2 DEF References, ConfirmedReferences, CandidateReferences,
                        CompletePhases, PREPARED, HEALTH_VERIFIED
    <3> QED BY <1>m, <2>2, <3>3
  <2> HIDE DEF after
  <2>3. Transition("begin_trial", TrialRefusal(s),
                   ConfirmedReferences(s) \cup CandidateReferences(s), after)
    BY <1>1 DEF BeginTrial, after
  <2> QED BY <2>1, <2>2, <2>3, TransitionBytes
<1>2. CASE MarkHealthy
  <2> DEFINE after == [s EXCEPT !.phase = HEALTH_VERIFIED]
  <2>1. after \in State
    BY <1>0, PhaseTypes, SuccessorTypes
  <2>2. ASSUME HealthRefusal(s) = "OK",
               \A x \in ConfirmedReferences(s) \cup CandidateReferences(s) : Matches(x)
        PROVE  \A x \in References(after) : Intact(x)
    <3>1. s.phase = TRIAL_STARTED
      BY <2>2 DEF HealthRefusal
    <3>2. after.bindings = s.bindings /\ after.operation = s.operation
      BY <1>0 DEF State
    <3>3. References(after) \subseteq ConfirmedReferences(s) \cup CandidateReferences(s)
      BY <3>1, <3>2 DEF References, ConfirmedReferences, CandidateReferences,
                        CompletePhases, PREPARED, TRIAL_STARTED, HEALTH_VERIFIED
    <3> QED BY <1>m, <2>2, <3>3
  <2> HIDE DEF after
  <2>3. Transition("mark_healthy", HealthRefusal(s),
                   ConfirmedReferences(s) \cup CandidateReferences(s), after)
    BY <1>2 DEF MarkHealthy, after
  <2> QED BY <2>1, <2>2, <2>3, TransitionBytes
<1>3. CASE Confirm
  <2> DEFINE after == [s EXCEPT !.phase = CONFIRMED, !.bindings = Rebound(s)]
  <2>1. after \in State
    BY <1>0, SuccessorTypes
  <2>2. ASSUME ConfirmRefusal(s) = "OK",
               \A x \in ConfirmedReferences(s) \cup CandidateReferences(s) : Matches(x)
        PROVE  \A x \in References(after) : Intact(x)
    <3>1. s.phase = HEALTH_VERIFIED
      BY <2>2 DEF ConfirmRefusal
    <3>2. Reference(s.operation) \in CandidateReferences(s)
      BY <3>1 DEF CandidateReferences, CompletePhases, PREPARED, HEALTH_VERIFIED
    <3>3. after.bindings = Rebound(s) /\ after.phase = CONFIRMED
      BY <1>0 DEF State
    <3>4. \A i \in BindingIndex : s.bindings[i] \in Binding
      BY <1>0 DEF State
    <3>5. \A i \in BindingIndex :
              Rebound(s)[i] = s.bindings[i] \/
              Reference(Rebound(s)[i]) = Reference(s.operation)
      BY <3>4 DEF Rebound, Reference, Binding
    <3>6. CandidateReferences(after) = {}
      BY <3>3 DEF CandidateReferences, CompletePhases, PREPARED, HEALTH_VERIFIED,
                  CONFIRMED
    <3>7. ConfirmedReferences(after) \subseteq
              ConfirmedReferences(s) \cup {Reference(s.operation)}
      BY <3>3, <3>5 DEF ConfirmedReferences
    <3> QED BY <1>m, <2>2, <3>2, <3>6, <3>7 DEF References
  <2> HIDE DEF after
  <2>3. Transition("confirm", ConfirmRefusal(s),
                   ConfirmedReferences(s) \cup CandidateReferences(s), after)
    BY <1>3 DEF Confirm, after
  <2> QED BY <2>1, <2>2, <2>3, TransitionBytes
<1>4. CASE Abandon
  <2> DEFINE after == [s EXCEPT !.phase = ABORTED]
  <2>1. after \in State
    BY <1>0, PhaseTypes, SuccessorTypes
  <2>2. ASSUME \A x \in ConfirmedReferences(s) : Matches(x)
        PROVE  \A x \in References(after) : Intact(x)
    <3>1. after.bindings = s.bindings /\ after.phase = ABORTED
      BY <1>0 DEF State
    <3>2. References(after) \subseteq ConfirmedReferences(s)
      BY <3>1 DEF References, ConfirmedReferences, CandidateReferences,
                  CompletePhases, PREPARED, HEALTH_VERIFIED, ABORTED
    <3> QED BY <1>m, <2>2, <3>2
  <2> HIDE DEF after
  <2>3. Transition("abandon", AbandonRefusal(s), ConfirmedReferences(s), after)
    BY <1>4 DEF Abandon, after
  <2> QED BY <2>1, <2>2, <2>3, TransitionBytes
<1> QED BY <1>1, <1>2, <1>3, <1>4

(* The engine's steps never leave a reference without its bytes. *)
LEMMA EngineBytes ==
    ASSUME Sound, BytesInv, EngineStep
    PROVE  BytesInv'
<1>0. /\ TypeOK /\ RecordSound /\ WorldType /\ EngineType /\ MediaType
      /\ nvs.state \in State /\ request.operation \in Operation
      /\ current \in State
  BY DEF Sound, TypeOK, MediaType, Blob, EngineType, Request
<1>m. \A x : Matches(x) => Intact(x)
  BY DEF Intact
<1>u. ASSUME NEW r, Unlock(r), UNCHANGED media
      PROVE  BytesInv'
  BY <1>u, QuietBytes DEF Unlock
<1>1. CASE Initialize
  <2> DEFINE initial == [ZeroState EXCEPT !.sequence = 1, !.bindings = request.bindings]
  <2>1. UNCHANGED media
    BY <1>1 DEF Initialize
  <2>2. \/ \E r : Unlock(r)
        \/ /\ HashResult(ConfirmedReferences(initial), "OK")
           /\ pc' = "commit" /\ next' = initial
    BY <1>1 DEF Initialize
  <2>3. CASE HashResult(ConfirmedReferences(initial), "OK")
             /\ pc' = "commit" /\ next' = initial
    <3>1. CandidateReferences(initial) = {}
      BY DEF CandidateReferences, CompletePhases, PREPARED, HEALTH_VERIFIED, IDLE,
             ZeroState
    <3>2. \A x \in References(initial) : Matches(x)
      BY <2>3, <3>1 DEF HashResult, References
    <3>3. \A x : Intact(x) <=> Intact(x)'
      BY <2>1 DEF Intact, Matches, media
    <3> QED BY <1>m, <2>1, <2>3, <3>2, <3>3 DEF BytesInv, WritesReserved, media, References
  <2> QED BY <1>u, <2>1, <2>2, <2>3
<1>2. CASE Load \/ Reconcile \/ ReadBack
  BY <1>2, <1>u DEF Load, Reconcile, ReadBack
<1>3. CASE Reserve
  <2>1. UNCHANGED media
    BY <1>3 DEF Reserve
  <2>2. \/ \E r : Unlock(r)
        \/ \E k \in Slots :
              /\ Decodes(nvs)
              /\ CommitNext(nvs.state, [nvs.state EXCEPT !.phase = WRITING,
                            !.operation = [request.operation EXCEPT !.slot = k]])
    BY <1>3 DEF Reserve, FreeSlots, GateResult, BeginResult, LoadResult
  <2>3. ASSUME NEW k \in Slots, Decodes(nvs),
               CommitNext(nvs.state, [nvs.state EXCEPT !.phase = WRITING,
                            !.operation = [request.operation EXCEPT !.slot = k]])
        PROVE  BytesInv'
    <3> DEFINE after == [nvs.state EXCEPT !.phase = WRITING,
                            !.operation = [request.operation EXCEPT !.slot = k]]
    <3>1. after \in State
      BY <1>0, SuccessorTypes
    <3>2. after.bindings = nvs.state.bindings /\ after.phase = WRITING
      BY <1>0 DEF State
    <3>3. References(after) \subseteq ConfirmedReferences(nvs.state)
      BY <3>2 DEF References, ConfirmedReferences, CandidateReferences,
                  CompletePhases, PREPARED, HEALTH_VERIFIED, WRITING
    <3>4. \A x \in References(after) : Intact(x)
      BY <2>3, <3>3 DEF Decodes, BytesInv, References
    <3> HIDE DEF after
    <3>5. CommitNext(nvs.state, after)
      BY <2>3 DEF after
    <3> QED BY <1>0, <2>1, <3>1, <3>4, <3>5, CommitNextBytes
  <2> QED BY <1>u, <2>1, <2>2, <2>3
<1>4. CASE WriteAndPrepare
  <2>1. UNCHANGED media
    BY <1>4 DEF WriteAndPrepare
  <2>2. \/ \E r : Unlock(r)
        \/ /\ nvs.kind = "record" /\ nvs.state.phase = WRITING
           /\ pc' = "erase" /\ current' = nvs.state
    BY <1>4 DEF WriteAndPrepare, GateResult, BeginResult, LoadResult, Decodes,
                WriteRefusal
  <2>3. CASE /\ nvs.kind = "record" /\ nvs.state.phase = WRITING
             /\ pc' = "erase" /\ current' = nvs.state
    <3>1. nvs' = Encoded(current')
      BY <1>0, <2>1, <2>3 DEF MediaType, Blob, Encoded, media
    <3>2. \A x : Intact(x) <=> Intact(x)'
      BY <2>1 DEF Intact, Matches, media
    <3> QED BY <2>1, <2>3, <3>1, <3>2 DEF BytesInv, WritesReserved, media, References
  <2> QED BY <1>u, <2>1, <2>2, <2>3
<1>5. CASE Erase
  <2>1. Garbage \in Content
    BY DEF Content
  <2> QED BY <1>5, <2>1, WriteBytes DEF Erase, Unlock
<1>6. CASE WriteChunk
  <2>1. PICK content \in Content :
            \/ UNCHANGED flash
            \/ flash' = [flash EXCEPT ![current.operation.slot] = content]
    BY <1>6 DEF WriteChunk, Content
  <2>2. \/ pc' = "idle"
        \/ pc' \in {"write", "verify"} /\ current' = current
    BY <1>6 DEF WriteChunk, Unlock
  <2>3. pc \in {"erase", "write"} /\ nvs' = nvs /\ decayed' = decayed
    BY <1>6 DEF WriteChunk
  <2> QED BY <2>1, <2>2, <2>3, WriteBytes
<1>7. CASE WriteDone
  <2>1. Garbage \in Content
    BY DEF Content
  <2> QED BY <1>7, <2>1, WriteBytes DEF WriteDone, media
<1>8. CASE Verify
  <2>1. UNCHANGED media
    BY <1>8 DEF Verify
  <2>2. nvs = Encoded(current) /\ current.phase = WRITING
    BY <1>8 DEF Verify, BytesInv, WritesReserved
  <2>3. \/ \E r : Unlock(r)
        \/ /\ Matches(Reference(current.operation))
           /\ CommitNext(current, [current EXCEPT !.phase = PREPARED])
    BY <1>8 DEF Verify, HashResult
  <2>4. CASE /\ Matches(Reference(current.operation))
             /\ CommitNext(current, [current EXCEPT !.phase = PREPARED])
    <3> DEFINE after == [current EXCEPT !.phase = PREPARED]
    <3>1. after \in State
      BY <1>0, PhaseTypes, SuccessorTypes
    <3>2. after.bindings = current.bindings /\ after.operation = current.operation
      BY <1>0 DEF State
    <3>3. References(after) \subseteq
              ConfirmedReferences(current) \cup {Reference(current.operation)}
      BY <3>2 DEF References, ConfirmedReferences, CandidateReferences
    <3>4. \A x \in ConfirmedReferences(current) : Intact(x)
      BY <2>2 DEF BytesInv, References, Encoded
    <3>5. \A x \in References(after) : Intact(x)
      BY <1>m, <2>4, <3>3, <3>4
    <3> HIDE DEF after
    <3>6. CommitNext(current, after)
      BY <2>4 DEF after
    <3> QED BY <1>0, <2>1, <3>1, <3>5, <3>6, CommitNextBytes
  <2> QED BY <1>u, <2>1, <2>3, <2>4
<1>9. CASE BeginTrial \/ MarkHealthy \/ Confirm \/ Abandon
  BY <1>9, TransitionsBytes
<1>10. CASE WriteBlob
  <2>1. nvs' \in {nvs, Encoded(next), Damaged} /\ UNCHANGED <<flash, decayed>>
        /\ pc = "commit" /\ pc' = "readback"
    BY <1>10 DEF WriteBlob
  <2>2. \A x : Intact(x) <=> Intact(x)'
    BY <2>1 DEF Intact, Matches
  <2>3. nvs'.kind = "record" =>
            nvs' = nvs \/ References(nvs'.state) = References(next)
    BY <2>1 DEF Encoded, Damaged
  <2> QED BY <2>1, <2>2, <2>3 DEF BytesInv, WritesReserved, References
<1> QED
  BY <1>1, <1>2, <1>3, <1>4, <1>5, <1>6, <1>7, <1>8, <1>9, <1>10 DEF EngineStep

(* Every step keeps the referenced bytes, and what the engine knows of them. *)
LEMMA NextBytes == Sound /\ BytesInv /\ [Next]_vars => BytesInv'
<1> SUFFICES ASSUME Sound, BytesInv, [Next]_vars PROVE BytesInv'
  OBVIOUS
<1>1. CASE UNCHANGED vars
  BY <1>1, QuietBytes DEF vars
<1>2. CASE EngineStep
  BY <1>2, EngineBytes
<1>3. ASSUME NEW c \in Clients, ClientStep(c) PROVE BytesInv'
  <2>1. UNCHANGED media /\ (UNCHANGED engine \/ pc' = "begin")
    BY <1>3 DEF ClientStep, CallInitialize, CallLoad, CallReconcile, CallReserve,
       CallWriteAndPrepare, CallBeginTrial, CallMarkHealthy, CallConfirm,
       CallAbandon, RefuseLoad, RefuseReconcile, StartTrial, StartConfirmed,
       StartInstance, Call, Take
  <2> QED BY <2>1, QuietBytes
<1>4. CASE StopInstance \/ PowerCycle
  BY <1>4, QuietBytes DEF StopInstance, PowerCycle, Unlock
<1>5. ASSUME NEW k \in Slots, Decay(k) PROVE BytesInv'
  <2>1. ASSUME NEW x, Intact(x), x.slot \in Slots PROVE Intact(x)'
    BY <1>5, <2>1 DEF Decay, Intact, Matches, Sound, TypeOK, MediaType
  <2>2. ASSUME NEW s \in State, StateValid(s), NEW x \in References(s)
        PROVE  x.slot \in Slots
    <3>1. CASE x \in ConfirmedReferences(s)
      BY <2>2, <3>1, ValidRecord DEF ConfirmedReferences, Reference
    <3>2. CASE x \in CandidateReferences(s)
      BY <2>2, <3>2, ValidRecord DEF CandidateReferences, Reference,
         CompletePhases, PREPARED, HEALTH_VERIFIED, IDLE
    <3> QED BY <2>2, <3>1, <3>2 DEF References
  <2>3. nvs.state \in State /\ next \in State /\ RecordSound
    BY DEF Sound, TypeOK, MediaType, EngineType, Blob
  <2>4. nvs' = nvs /\ UNCHANGED engine
    BY <1>5 DEF Decay
  <2> QED BY <2>1, <2>2, <2>3, <2>4
          DEF BytesInv, WritesReserved, RecordSound, engine, References
<1> QED BY <1>1, <1>2, <1>3, <1>4, <1>5 DEF Next

(* At first boot there is no record that could refer to anything. *)
LEMMA InitBytes == Init => BytesInv
BY DEF Init, BytesInv, WritesReserved, Absent

(* The inductive invariant behind BytesSafe holds in every reachable state: *)
(* also a record that is about to be written refers to bytes in place.     *)
THEOREM BytesAlways == Spec => []BytesInv
<1>1. Sound /\ BytesInv /\ [Next]_vars => BytesInv'
  BY NextBytes
<1> QED BY <1>1, InitBytes, SoundAlways, PTL DEF Spec

(* The engine never destroys bytes the durable record refers to: neither a *)
(* confirmed package of either firmware nor a completely written candidate *)
(* is erased or overwritten, whatever fails and wherever power is lost.    *)
THEOREM BytesSafe == Spec => []ReferencedBytesIntact
<1>1. BytesInv => ReferencedBytesIntact
  BY DEF BytesInv, ReferencedBytesIntact, References, Intact
<1> QED BY <1>1, BytesAlways, PTL
=============================================================================
