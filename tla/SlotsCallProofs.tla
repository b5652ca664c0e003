-------------------------- MODULE SlotsCallProofs --------------------------
(***************************************************************************)
(* What a call of the storage engine knows while it runs, and the          *)
(* properties that follow from it.  A call compares nothing but a sequence *)
(* number when it begins and reads nothing again before it writes; so what *)
(* has to be invariant is that the record it replaces is the one it has    *)
(* loaded and its client has seen, and that the record it writes is a      *)
(* legal successor of that one.  The last part is the refinement of        *)
(* ProductUpdate.                                                          *)
(***************************************************************************)
EXTENDS SlotsRefinement, SlotsProofs

(* A package that validation has accepted, described as what it is. *)
Qualified(x) == x.package \in Trusted /\ Claim(x) = TrueClaim(x.package)

(* The call holds the lock from its first step to its last, and its        *)
(* arguments are those its client and the executor gave it then.           *)
RequestInv ==
    /\ lock = NoClient <=> pc = "idle"
    /\ lock = NoClient => request.op = "none"
    /\ request.op \notin {"none", "initialize", "load", "reconcile"} =>
           request.expected = view[lock].sequence
    /\ request.op = "initialize" => request.bindings \in Installations
    /\ request.op = "reserve" =>
           /\ request.operation.id \in OperationIds
           /\ request.operation.target = firmware.running
           /\ request.operation.trial_boot_id = 0
           /\ Claim(request.operation) \in Claims
    /\ request.op = "begin_trial" => instance = NoInstance

(* No snapshot is ahead of the durable record, and one with its sequence   *)
(* number is a copy of it.                                                 *)
SnapshotInv ==
    \A c \in Clients :
        /\ nvs.kind = "absent" => view[c].sequence = 0
        /\ nvs.kind = "record" =>
               /\ view[c].sequence <= nvs.state.sequence
               /\ view[c].sequence = nvs.state.sequence => view[c] = nvs.state

(* The first record, as initialize builds it. *)
Installs(t) ==
    /\ t.sequence = 1
    /\ t.phase = IDLE
    /\ t.operation = EmptyOperation
    /\ t.bindings \in Installations

(* The record t with which a call may replace the record s. *)
Reserves(s, t) ==
    /\ request.op = "reserve"
    /\ s.phase \notin PendingPhases
    /\ BoundFirmwares(s) = firmware.bootable
    /\ \E i \in BindingIndex :
          /\ BindsFirmware(s, i, firmware.running)
          /\ s.bindings[i].package_present =>
                 s.bindings[i].schema = request.operation.schema
    /\ t.phase = WRITING
    /\ t.bindings = s.bindings
    /\ t.operation.slot \in FreeSlots(s, request.operation.size)
    /\ t.operation = [request.operation EXCEPT !.slot = t.operation.slot]

Prepares(s, t) ==
    /\ request.op = "write_and_prepare"
    /\ s.phase = WRITING
    /\ Qualified(s.operation)
    /\ t.phase = PREPARED
    /\ t.bindings = s.bindings
    /\ t.operation = s.operation

Tries(s, t) ==
    /\ request.op = "begin_trial"
    /\ s.phase = PREPARED
    /\ s.operation.target = firmware.running
    /\ t.phase = TRIAL_STARTED
    /\ t.bindings = s.bindings
    /\ t.operation = [s.operation EXCEPT !.trial_boot_id = boot]

Passes(s, t) ==
    /\ request.op = "mark_healthy"
    /\ s.phase = TRIAL_STARTED
    /\ s.operation.trial_boot_id = boot
    /\ t.phase = HEALTH_VERIFIED
    /\ t.bindings = s.bindings
    /\ t.operation = s.operation

Confirms(s, t) ==
    /\ request.op = "confirm"
    /\ ConfirmRefusal(s) = "OK"
    /\ t.phase = CONFIRMED
    /\ t.bindings = Rebound(s)
    /\ t.operation = s.operation

Abandons(s, t) ==
    /\ request.op = "abandon"
    /\ AbandonRefusal(s) = "OK"
    /\ t.phase = ABORTED
    /\ t.bindings = s.bindings
    /\ t.operation = s.operation

Succeeds(s, t) ==
    /\ t.sequence = s.sequence + 1
    /\ \/ Reserves(s, t) \/ Prepares(s, t) \/ Tries(s, t)
       \/ Passes(s, t) \/ Confirms(s, t) \/ Abandons(s, t)

(* Where the call is, it knows the durable record. *)
ProgressInv ==
    /\ pc \in {"erase", "write", "verify"} =>
           request.op = "write_and_prepare" /\ view[lock] = current
    /\ pc = "commit" =>
           \/ /\ request.op = "initialize"
              /\ nvs = Absent
              /\ Installs(next)
           \/ /\ nvs = Encoded(current)
              /\ view[lock] = current
              /\ Succeeds(current, next)

(* Nothing is in NVS until initialize has written. *)
BlankInv == nvs.kind = "absent" => nvs = Absent

CallInv == RequestInv /\ SnapshotInv /\ ProgressInv /\ BlankInv

-----------------------------------------------------------------------------
(* What the durable record says, beyond state_valid. *)

(* Every package a firmware is bound to, and every candidate past          *)
(* write_and_prepare, is qualified; a pending update keeps the data schema *)
(* of the package it would replace.                                        *)
QualifiedRecord(s) ==
    /\ \A i \in BindingIndex :
          s.bindings[i].package_present => Qualified(s.bindings[i])
    /\ s.phase \in CompletePhases => Qualified(s.operation)

SchemaRecord(s) ==
    s.phase \in PendingPhases =>
        \A i \in BindingIndex :
            /\ BindsFirmware(s, i, s.operation.target)
            /\ s.bindings[i].package_present
            => s.bindings[i].schema = s.operation.schema

RecordInv ==
    nvs.kind = "record" => QualifiedRecord(nvs.state) /\ SchemaRecord(nvs.state)

(* A trial of this boot is under way. *)
OnTrial(s) ==
    s.phase \in {TRIAL_STARTED, HEALTH_VERIFIED} /\ s.operation.trial_boot_id = boot

(* A running instance is the candidate while the record says that its      *)
(* trial is under way, and the running firmware's package otherwise.       *)
InstanceInv ==
    instance # NoInstance =>
        /\ nvs.kind # "absent"
        /\ nvs.kind = "record" =>
              LET s == nvs.state
              IN  IF OnTrial(s)
                  THEN /\ instance.kind = "trial"
                       /\ instance.id = s.operation.id
                       /\ instance.slot = s.operation.slot
                       /\ instance.package = s.operation.package
                  ELSE \E i \in BindingIndex :
                          /\ BindsFirmware(s, i, firmware.running)
                          /\ s.bindings[i].package_present
                          /\ s.bindings[i].slot = instance.slot
                          /\ s.bindings[i].package = instance.package

-----------------------------------------------------------------------------
(* What a call proposes.  Every call that gets past its checks hands       *)
(* commit_next a legal successor of the durable record.                    *)

Successor(before, after) == [after EXCEPT !.sequence = before.sequence + 1]

(* A call that is refused: not with OK, and with INVALID only when the     *)
(* blob in NVS does not decode.                                            *)
Refused ==
    \E r \in Results \ {"OK"} :
        Unlock(r) /\ (r = "INVALID" => nvs.kind # "absent" /\ ~Decodes(nvs))

Proposed(s, after) ==
    /\ nvs = Encoded(s)
    /\ view[lock] = s
    /\ Succeeds(s, Successor(s, after))
    /\ CommitNext(s, after)

(* The parts of a successor record. *)
LEMMA SuccessorFields ==
    ASSUME NEW before \in State, NEW after \in State
    PROVE  /\ Successor(before, after).sequence = before.sequence + 1
           /\ Successor(before, after).phase = after.phase
           /\ Successor(before, after).bindings = after.bindings
           /\ Successor(before, after).operation = after.operation
BY DEF Successor, State

(* The comparison of sequence numbers in begin_locked is enough: the       *)
(* client has seen the record its call has loaded.                         *)
LEMMA GatePassed ==
    ASSUME Sound, RequestInv, SnapshotInv, pc # "idle",
           request.op \notin {"none", "initialize", "load", "reconcile"},
           NEW refusal, NEW regions, GateResult(refusal, regions, "OK")
    PROVE  /\ refusal = "OK"
           /\ \A x \in regions : Matches(x)
           /\ nvs = Encoded(nvs.state)
           /\ view[lock] = nvs.state
<1>1. /\ refusal = "OK" /\ \A x \in regions : Matches(x)
      /\ Decodes(nvs) /\ nvs.state.sequence = request.expected
  BY DEF GateResult, BeginResult, LoadResult, HashResult
<1>2. nvs.kind = "record" /\ nvs = Encoded(nvs.state)
  BY <1>1 DEF Decodes, Encoded, Sound, TypeOK, MediaType, Blob
<1>3. lock \in Clients
  BY DEF RequestInv, Sound, TypeOK, EngineType
<1>4. view[lock].sequence = nvs.state.sequence
  BY <1>1 DEF RequestInv
<1> QED BY <1>1, <1>2, <1>3, <1>4 DEF SnapshotInv

(* Results with which the checks of a call end it. *)
LEMMA GateFailed ==
    ASSUME NEW refusal \in Results \ {"INVALID"}, NEW regions,
           NEW r \in Results, r # "OK", GateResult(refusal, regions, r)
    PROVE  r = "INVALID" => nvs.kind # "absent" /\ ~Decodes(nvs)
BY DEF GateResult, BeginResult, LoadResult, HashResult

(* The refusals a call computes are never INVALID. *)
LEMMA RefusalValues ==
    ASSUME NEW s \in State, NEW op \in Operation
    PROVE  /\ ReserveRefusal(s) \in Results \ {"INVALID"}
           /\ ReserveVerdict(s, op) \in Results \ {"INVALID"}
           /\ TrialRefusal(s) \in Results \ {"INVALID"}
           /\ HealthRefusal(s) \in Results \ {"INVALID"}
           /\ ConfirmRefusal(s) \in Results \ {"INVALID"}
           /\ AbandonRefusal(s) \in Results \ {"INVALID"}
           /\ WriteRefusal(s) \in Results \ {"INVALID"}
<1>1. ReserveVerdict(s, op) \in Results \ {"INVALID"}
  BY DEF ReserveVerdict, Results
<1>2. AbandonRefusal(s) \in Results \ {"INVALID"}
  BY DEF AbandonRefusal, Results
<1> QED BY <1>1, <1>2 DEF ReserveRefusal, WriteRefusal, TrialRefusal,
             HealthRefusal, ConfirmRefusal, Results

(* A phase transition is refused or proposes its successor record. *)
LEMMA TransitionProposes ==
    ASSUME Sound, CallInv,
           NEW op \in Operations \ {"initialize", "load", "reconcile"},
           NEW refusal \in Results \ {"INVALID"}, NEW regions, NEW after \in State,
           Transition(op, refusal, regions, after),
           ASSUME refusal = "OK", request.op = op
           PROVE  Succeeds(nvs.state, Successor(nvs.state, after))
    PROVE  Refused \/ Proposed(nvs.state, after)
<1>1. PICK r \in Results :
          /\ GateResult(refusal, regions, r)
          /\ IF r = "OK" THEN CommitNext(nvs.state, after) ELSE Unlock(r)
  BY DEF Transition
<1>2. pc = "begin" /\ request.op = op
  BY DEF Transition
<1>3. request.op \notin {"none", "initialize", "load", "reconcile"}
  BY <1>2 DEF Operations
<1>4. CASE r = "OK"
  <2>1. refusal = "OK" /\ nvs = Encoded(nvs.state) /\ view[lock] = nvs.state
    BY <1>1, <1>2, <1>3, <1>4, GatePassed DEF CallInv
  <2>2. Succeeds(nvs.state, Successor(nvs.state, after))
    BY <1>2, <2>1
  <2> QED BY <1>1, <1>4, <2>1, <2>2 DEF Proposed
<1>5. CASE r # "OK"
  BY <1>1, <1>5, GateFailed DEF Refused
<1> QED BY <1>4, <1>5

(* The calls that move a reserved package through its trial. *)
LEMMA TransitionsPropose ==
    ASSUME Sound, CallInv, BeginTrial \/ MarkHealthy \/ Confirm \/ Abandon
    PROVE  Refused \/ \E after \in State : Proposed(nvs.state, after)
<1> DEFINE s == nvs.state
<1>0. /\ s \in State /\ s.operation \in Operation /\ WorldType
      /\ EmptyOperation \in Operation
  BY EmptyTypes DEF Sound, TypeOK, MediaType, Blob, State
<1>1. CASE BeginTrial
  <2> DEFINE after == [s EXCEPT !.phase = TRIAL_STARTED,
                                !.operation.trial_boot_id = boot]
  <2>1. after \in State
    BY <1>0, SuccessorTypes
  <2>2. /\ after.phase = TRIAL_STARTED /\ after.bindings = s.bindings
        /\ after.operation = [s.operation EXCEPT !.trial_boot_id = boot]
    BY <1>0 DEF State
  <2>3. Transition("begin_trial", TrialRefusal(s),
                   ConfirmedReferences(s) \cup CandidateReferences(s), after)
    BY <1>1 DEF BeginTrial
  <2> HIDE DEF after
  <2>4. ASSUME TrialRefusal(s) = "OK", request.op = "begin_trial"
        PROVE  Succeeds(s, Successor(s, after))
    BY <1>0, <2>1, <2>2, <2>4, SuccessorFields DEF TrialRefusal, Succeeds, Tries
  <2> QED BY <1>0, <2>1, <2>3, <2>4, TransitionProposes, RefusalValues DEF Operations
<1>2. CASE MarkHealthy
  <2> DEFINE after == [s EXCEPT !.phase = HEALTH_VERIFIED]
  <2>1. after \in State
    BY <1>0, PhaseTypes, SuccessorTypes
  <2>2. /\ after.phase = HEALTH_VERIFIED /\ after.bindings = s.bindings
        /\ after.operation = s.operation
    BY <1>0 DEF State
  <2>3. Transition("mark_healthy", HealthRefusal(s),
                   ConfirmedReferences(s) \cup CandidateReferences(s), after)
    BY <1>2 DEF MarkHealthy
  <2> HIDE DEF after
  <2>4. ASSUME HealthRefusal(s) = "OK", request.op = "mark_healthy"
        PROVE  Succeeds(s, Successor(s, after))
    BY <1>0, <2>1, <2>2, <2>4, SuccessorFields DEF HealthRefusal, Succeeds, Passes
  <2> QED BY <1>0, <2>1, <2>3, <2>4, TransitionProposes, RefusalValues DEF Operations
<1>3. CASE Confirm
  <2> DEFINE after == [s EXCEPT !.phase = CONFIRMED, !.bindings = Rebound(s)]
  <2>1. after \in State
    BY <1>0, SuccessorTypes
  <2>2. /\ after.phase = CONFIRMED /\ after.bindings = Rebound(s)
        /\ after.operation = s.operation
    BY <1>0 DEF State
  <2>3. Transition("confirm", ConfirmRefusal(s),
                   ConfirmedReferences(s) \cup CandidateReferences(s), after)
    BY <1>3 DEF Confirm
  <2> HIDE DEF after
  <2>4. ASSUME ConfirmRefusal(s) = "OK", request.op = "confirm"
        PROVE  Succeeds(s, Successor(s, after))
    BY <1>0, <2>1, <2>2, <2>4, SuccessorFields DEF Succeeds, Confirms
  <2> QED BY <1>0, <2>1, <2>3, <2>4, TransitionProposes, RefusalValues DEF Operations
<1>4. CASE Abandon
  <2> DEFINE after == [s EXCEPT !.phase = ABORTED]
  <2>1. after \in State
    BY <1>0, PhaseTypes, SuccessorTypes
  <2>2. /\ after.phase = ABORTED /\ after.bindings = s.bindings
        /\ after.operation = s.operation
    BY <1>0 DEF State
  <2>3. Transition("abandon", AbandonRefusal(s), ConfirmedReferences(s), after)
    BY <1>4 DEF Abandon
  <2> HIDE DEF after
  <2>4. ASSUME AbandonRefusal(s) = "OK", request.op = "abandon"
        PROVE  Succeeds(s, Successor(s, after))
    BY <1>0, <2>1, <2>2, <2>4, SuccessorFields DEF Succeeds, Abandons
  <2> QED BY <1>0, <2>1, <2>3, <2>4, TransitionProposes, RefusalValues DEF Operations
<1> QED BY <1>1, <1>2, <1>3, <1>4

(* A reservation that is not refused is for a free slot. *)
LEMMA ReserveProposes ==
    ASSUME Sound, CallInv, Reserve
    PROVE  Refused \/ \E after \in State : Proposed(nvs.state, after)
<1> DEFINE s == nvs.state
           op == request.operation
           verdict == ReserveVerdict(s, op)
<1>0. /\ s \in State /\ op \in Operation /\ WorldType
  BY DEF Sound, TypeOK, MediaType, Blob, EngineType, Request
<1>1. pc = "begin" /\ request.op = "reserve"
  BY DEF Reserve
<1>2. PICK r \in Results :
          /\ GateResult(ReserveRefusal(s),
                        ConfirmedReferences(s) \cup CandidateReferences(s), r)
          /\ \/ r # "OK" /\ Unlock(r)
             \/ r = "OK" /\ verdict # "OK" /\ Unlock(verdict)
             \/ /\ r = "OK" /\ verdict = "OK"
                /\ \E k \in FreeSlots(s, op.size) :
                      CommitNext(s, [s EXCEPT !.phase = WRITING,
                                              !.operation = [op EXCEPT !.slot = k]])
  BY DEF Reserve
<1>3. CASE r # "OK"
  <2>1. ReserveRefusal(s) \in Results \ {"INVALID"}
    BY <1>0, RefusalValues
  <2>2. r = "INVALID" => nvs.kind # "absent" /\ ~Decodes(nvs)
    BY <1>2, <1>3, <2>1, GateFailed
  <2>3. Unlock(r)
    BY <1>2, <1>3
  <2> QED BY <1>3, <2>2, <2>3 DEF Refused
<1>4. CASE r = "OK" /\ verdict # "OK"
  <2>1. verdict \in Results \ {"INVALID", "OK"}
    BY <1>0, <1>4, RefusalValues
  <2> QED BY <1>2, <1>4, <2>1 DEF Refused
<1>5. CASE r = "OK" /\ verdict = "OK"
  <2>1. /\ ReserveRefusal(s) = "OK" /\ nvs = Encoded(s) /\ view[lock] = s
    BY <1>1, <1>2, <1>5, GatePassed DEF CallInv
  <2>2. s.phase \notin PendingPhases
    BY <1>5 DEF ReserveVerdict
  <2>3. PICK k \in FreeSlots(s, op.size) :
            CommitNext(s, [s EXCEPT !.phase = WRITING,
                                    !.operation = [op EXCEPT !.slot = k]])
    BY <1>2, <1>5
  <2> DEFINE after == [s EXCEPT !.phase = WRITING, !.operation = [op EXCEPT !.slot = k]]
  <2>4. k \in Slots
    BY DEF FreeSlots
  <2>5. after \in State
    BY <1>0, <2>4, SuccessorTypes
  <2>6. /\ after.phase = WRITING /\ after.bindings = s.bindings
        /\ after.operation = [op EXCEPT !.slot = k]
    BY <1>0 DEF State
  <2>7. CommitNext(s, after)
    BY <2>3
  <2> HIDE DEF after
  <2>8. after.operation.slot = k
    BY <1>0, <2>6 DEF Operation
  <2>9. Reserves(s, Successor(s, after))
    BY <1>0, <1>1, <2>1, <2>2, <2>5, <2>6, <2>8, SuccessorFields
       DEF Reserves, ReserveRefusal
  <2>10. Succeeds(s, Successor(s, after))
    BY <1>0, <2>5, <2>9, SuccessorFields DEF Succeeds
  <2> QED BY <2>1, <2>5, <2>7, <2>10 DEF Proposed
<1> QED BY <1>2, <1>3, <1>4, <1>5

(* A package that was written is proposed only after validate_fn accepts it. *)
LEMMA VerifyProposes ==
    ASSUME Sound, BytesInv, CallInv, Verify
    PROVE  Refused \/ \E after \in State : Proposed(nvs.state, after)
<1> DEFINE after == [current EXCEPT !.phase = PREPARED]
<1>0. current \in State /\ WorldType
  BY DEF Sound, TypeOK, EngineType
<1>1. /\ pc = "verify" /\ nvs = Encoded(current) /\ current.phase = WRITING
      /\ request.op = "write_and_prepare" /\ view[lock] = current
  BY DEF Verify, BytesInv, WritesReserved, CallInv, ProgressInv
<1>2. nvs.state = current
  BY <1>1 DEF Encoded
<1>3. \/ \E r \in Results \ {"OK", "INVALID"} : Unlock(r)
      \/ Qualified(current.operation) /\ CommitNext(current, after)
  BY DEF Verify, HashResult, ValidateResult, Qualified
<1>4. CASE \E r \in Results \ {"OK", "INVALID"} : Unlock(r)
  BY <1>4 DEF Refused
<1>5. CASE Qualified(current.operation) /\ CommitNext(current, after)
  <2>1. after \in State
    BY <1>0, PhaseTypes, SuccessorTypes
  <2>2. /\ after.phase = PREPARED /\ after.bindings = current.bindings
        /\ after.operation = current.operation
    BY <1>0 DEF State
  <2> HIDE DEF after
  <2>3. Succeeds(current, Successor(current, after))
    BY <1>0, <1>1, <1>5, <2>1, <2>2, SuccessorFields DEF Succeeds, Prepares
  <2> QED BY <1>1, <1>2, <1>5, <2>1, <2>3 DEF Proposed
<1> QED BY <1>3, <1>4, <1>5

-----------------------------------------------------------------------------
(* The inductive invariant of calls. *)

(* What a legal successor is depends on the arguments of the call, on the  *)
(* boot and on the instance, all of which stay while the call runs.        *)
LEMMA SucceedsStable ==
    ASSUME NEW s, NEW t, UNCHANGED <<request, firmware, boot, instance>>
    PROVE  Succeeds(s, t)' <=> Succeeds(s, t)
BY DEF Succeeds, Reserves, Prepares, Tries, Passes, Confirms, Abandons, Rebound,
       ConfirmRefusal, AbandonRefusal, TrialStopped, FreeSlots, Qualified

(* The end of a call. *)
LEMMA UnlockCall ==
    ASSUME NEW r, Unlock(r), SnapshotInv', BlankInv'
    PROVE  CallInv'
BY DEF Unlock, CallInv, RequestInv, ProgressInv, NoRequest

(* A call that was refused, or that hands its record to commit_next. *)
LEMMA ProposedCall ==
    ASSUME Sound, CallInv, UNCHANGED <<media, clients, world>>, pc # "idle",
           Refused \/ \E after \in State : Proposed(nvs.state, after)
    PROVE  CallInv'
<1>1. SnapshotInv' /\ BlankInv'
  BY DEF CallInv, SnapshotInv, BlankInv, media, clients
<1>2. CASE \E r : Unlock(r)
  BY <1>1, <1>2, UnlockCall
<1>3. ASSUME NEW after \in State, Proposed(nvs.state, after)
      PROVE  CallInv'
  <2> DEFINE s == nvs.state
             t == Successor(s, after)
  <2>1. \/ Unlock("INVALID")
        \/ /\ pc' = "commit" /\ current' = s /\ next' = t
           /\ UNCHANGED <<lock, request, committed, offset, result>>
    BY <1>3 DEF Proposed, CommitNext, Successor
  <2>2. CASE /\ pc' = "commit" /\ current' = s /\ next' = t
             /\ UNCHANGED <<lock, request, committed, offset, result>>
    <3>1. RequestInv'
      BY <2>2 DEF CallInv, RequestInv, clients, world
    <3>2. Succeeds(s, t) /\ view[lock] = s /\ nvs = Encoded(s)
      BY <1>3 DEF Proposed
    <3> HIDE DEF t
    <3>3. Succeeds(current', next')
      BY <2>2, <3>2
    <3>4. Succeeds(current, next)'
      BY <2>2, <3>3, SucceedsStable DEF world
    <3>5. nvs' = Encoded(current') /\ view'[lock'] = current'
      BY <2>2, <3>2 DEF media, clients
    <3>6. ProgressInv'
      BY <2>2, <3>4, <3>5 DEF ProgressInv, Encoded
    <3> QED BY <1>1, <3>1, <3>6 DEF CallInv
  <2> QED BY <1>2, <2>1, <2>2
<1> QED BY <1>2, <1>3 DEF Refused

(* A step that leaves the call and what it relies on alone. *)
LEMMA QuietCall ==
    ASSUME CallInv, UNCHANGED <<nvs, engine, clients, boot, firmware>>,
           UNCHANGED instance \/ lock = NoClient
    PROVE  CallInv'
<1>1. SnapshotInv' /\ BlankInv'
  BY DEF CallInv, SnapshotInv, BlankInv, clients
<1>2. RequestInv'
  BY DEF CallInv, RequestInv, engine, clients
<1>3. CASE UNCHANGED instance
  <2>1. Succeeds(current, next)' <=> Succeeds(current, next)
    BY <1>3 DEF engine, Succeeds, Reserves, Prepares, Tries, Passes, Confirms,
       Abandons, Rebound, ConfirmRefusal, AbandonRefusal, TrialStopped, FreeSlots,
       Qualified
  <2>2. Installs(next)' <=> Installs(next)
    BY DEF Installs, engine
  <2> QED BY <1>1, <1>2, <2>1, <2>2 DEF CallInv, ProgressInv, engine, clients, Encoded
<1>4. CASE lock = NoClient
  <2>1. pc' = "idle"
    BY <1>4 DEF CallInv, RequestInv, engine
  <2> QED BY <1>1, <1>2, <2>1 DEF CallInv, ProgressInv
<1> QED BY <1>3, <1>4

(* A record that was found in NVS, or read back from it, is a faithful     *)
(* snapshot of it.                                                         *)
LEMMA FreshSnapshot ==
    ASSUME Sound, CallInv, lock # NoClient, nvs' = nvs,
           \/ view' = view
           \/ /\ nvs.kind = "record"
              /\ view' = [view EXCEPT ![lock] = nvs.state]
    PROVE  SnapshotInv' /\ BlankInv'
<1>1. BlankInv'
  BY DEF CallInv, BlankInv
<1>2. CASE view' = view
  BY <1>1, <1>2 DEF CallInv, SnapshotInv
<1>3. CASE nvs.kind = "record" /\ view' = [view EXCEPT ![lock] = nvs.state]
  <2> SUFFICES ASSUME NEW c \in Clients
               PROVE  /\ view'[c].sequence <= nvs.state.sequence
                      /\ view'[c].sequence = nvs.state.sequence => view'[c] = nvs.state
    BY <1>1, <1>3 DEF SnapshotInv
  <2>1. view \in [Clients -> State] /\ nvs.state.sequence \in Nat
    BY RecordAssumption DEF Sound, TypeOK, ClientType, MediaType, Blob, State
  <2>2. CASE c = lock
    BY <1>3, <2>1, <2>2
  <2>3. CASE c # lock
    <3>1. view'[c] = view[c]
      BY <1>3, <2>1, <2>3
    <3> QED BY <1>3, <3>1 DEF CallInv, SnapshotInv
  <2> QED BY <2>2, <2>3
<1> QED BY <1>2, <1>3

(* The write to NVS leaves every snapshot behind, or changes nothing. *)
LEMMA WriteSnapshot ==
    ASSUME Sound, CallInv, WriteBlob
    PROVE  SnapshotInv' /\ BlankInv'
<1>1. /\ nvs' \in {nvs, Encoded(next), Damaged} /\ UNCHANGED view /\ pc = "commit"
  BY DEF WriteBlob, clients
<1>2. CASE nvs' = nvs
  BY <1>1, <1>2 DEF CallInv, SnapshotInv, BlankInv
<1>3. CASE nvs' = Damaged
  BY <1>3 DEF SnapshotInv, BlankInv, Damaged
<1>4. CASE nvs' = Encoded(next)
  <2>1. nvs'.kind = "record" /\ nvs'.state = next
    BY <1>4 DEF Encoded
  <2>2. ASSUME NEW c \in Clients PROVE view[c].sequence < next.sequence
    <3>0. view[c].sequence \in Nat /\ next.sequence \in Nat /\ current.sequence \in Nat
      BY RecordAssumption DEF Sound, TypeOK, ClientType, EngineType, State
    <3>1. CASE nvs = Absent /\ Installs(next)
      BY <3>0, <3>1 DEF CallInv, SnapshotInv, Absent, Installs
    <3>2. CASE nvs = Encoded(current) /\ Succeeds(current, next)
      <4>1. view[c].sequence <= current.sequence
        BY <3>2 DEF CallInv, SnapshotInv, Encoded
      <4>2. next.sequence = current.sequence + 1
        BY <3>2 DEF Succeeds
      <4> QED BY <3>0, <4>1, <4>2
    <3> QED BY <1>1, <3>1, <3>2 DEF CallInv, ProgressInv
  <2>3. \A c \in Clients : view[c].sequence \in Nat
    BY RecordAssumption DEF Sound, TypeOK, ClientType, State
  <2>4. next.sequence \in Nat
    BY RecordAssumption DEF Sound, TypeOK, EngineType, State
  <2> QED BY <1>1, <2>1, <2>2, <2>3, <2>4 DEF SnapshotInv, BlankInv
<1> QED BY <1>1, <1>2, <1>3, <1>4

(* Every step of a running call keeps what the call knows. *)
LEMMA EngineCall ==
    ASSUME Sound, BytesInv, CallInv, EngineStep
    PROVE  CallInv'
<1>0. /\ nvs.state \in State /\ request.bindings \in [BindingIndex -> Binding]
      /\ nvs \in Blob
  BY DEF Sound, TypeOK, MediaType, Blob, EngineType, Request
<1>l. pc # "idle" => lock # NoClient
  BY DEF CallInv, RequestInv
<1>1. CASE Initialize
  <2> DEFINE initial == [ZeroState EXCEPT !.sequence = 1, !.bindings = request.bindings]
  <2>1. /\ UNCHANGED <<media, clients, world>> /\ pc = "begin"
        /\ request.op = "initialize"
    BY <1>1 DEF Initialize
  <2>2. SnapshotInv' /\ BlankInv'
    BY <1>l, <2>1, FreshSnapshot DEF media, clients
  <2>3. \/ \E r : Unlock(r)
        \/ /\ nvs.kind = "absent" /\ pc' = "commit" /\ next' = initial
           /\ UNCHANGED <<lock, request, current>>
    BY <1>1 DEF Initialize, LoadResult
  <2>4. CASE /\ nvs.kind = "absent" /\ pc' = "commit" /\ next' = initial
             /\ UNCHANGED <<lock, request, current>>
    <3>1. RequestInv'
      BY <2>1, <2>4 DEF CallInv, RequestInv, clients, world
    <3>2. nvs' = Absent
      BY <2>1, <2>4 DEF CallInv, BlankInv, media
    <3>3. /\ initial.sequence = 1 /\ initial.phase = IDLE
          /\ initial.operation = EmptyOperation
          /\ initial.bindings = request.bindings
      BY DEF ZeroState
    <3>4. request.bindings \in Installations
      BY <2>1 DEF CallInv, RequestInv
    <3> HIDE DEF initial
    <3>5. Installs(next)'
      BY <2>4, <3>3, <3>4 DEF Installs
    <3> QED BY <2>1, <2>2, <2>4, <3>1, <3>2, <3>5 DEF CallInv, ProgressInv, Absent
  <2> QED BY <2>2, <2>3, <2>4, UnlockCall
<1>2. CASE Load \/ Reconcile
  <2>1. (\E r : Unlock(r)) /\ pc = "begin" /\ nvs' = nvs
    BY <1>2 DEF Load, Reconcile, media
  <2>2. \/ view' = view
        \/ nvs.kind = "record" /\ view' = [view EXCEPT ![lock] = nvs.state]
    BY <1>2 DEF Load, Reconcile, LoadResult, Decodes, clients
  <2> QED BY <1>l, <2>1, <2>2, FreshSnapshot, UnlockCall
<1>3. CASE ReadBack
  <2>1. (\E r : Unlock(r)) /\ pc = "readback" /\ nvs' = nvs
    BY <1>3 DEF ReadBack, media
  <2>2. \/ view' = view
        \/ nvs = Encoded(next) /\ view' = [view EXCEPT ![lock] = next]
    BY <1>3 DEF ReadBack, ReadBackResult
  <2>3. \/ view' = view
        \/ nvs.kind = "record" /\ view' = [view EXCEPT ![lock] = nvs.state]
    BY <2>2 DEF Encoded
  <2> QED BY <1>l, <2>1, <2>3, FreshSnapshot, UnlockCall
<1>4. CASE Reserve
  <2>1. UNCHANGED <<media, clients, world>> /\ pc = "begin"
    BY <1>4 DEF Reserve
  <2> QED BY <1>4, <2>1, ReserveProposes, ProposedCall
<1>5. CASE Verify
  <2>1. UNCHANGED <<media, clients, world>> /\ pc = "verify"
    BY <1>5 DEF Verify
  <2> QED BY <1>5, <2>1, VerifyProposes, ProposedCall
<1>6. CASE BeginTrial \/ MarkHealthy \/ Confirm \/ Abandon
  <2>1. UNCHANGED <<media, clients, world>> /\ pc = "begin"
    BY <1>6 DEF BeginTrial, MarkHealthy, Confirm, Abandon, Transition
  <2> QED BY <1>6, <2>1, TransitionsPropose, ProposedCall
<1>7. CASE WriteAndPrepare
  <2>1. /\ UNCHANGED <<media, clients, world>> /\ pc = "begin"
        /\ request.op = "write_and_prepare"
    BY <1>7 DEF WriteAndPrepare
  <2>2. SnapshotInv' /\ BlankInv'
    BY <1>l, <2>1, FreshSnapshot DEF media, clients
  <2>3. PICK r \in Results :
            /\ GateResult(WriteRefusal(nvs.state), ConfirmedReferences(nvs.state), r)
            /\ \/ r # "OK" /\ Unlock(r)
               \/ /\ r = "OK" /\ pc' = "erase" /\ current' = nvs.state
                  /\ UNCHANGED <<lock, request, next, committed, offset, result>>
    BY <1>7 DEF WriteAndPrepare
  <2>4. CASE r = "OK"
    <3>1. view[lock] = nvs.state
      BY <2>1, <2>3, <2>4, GatePassed DEF CallInv
    <3>2. RequestInv'
      BY <2>1, <2>3, <2>4 DEF CallInv, RequestInv, clients, world
    <3>3. ProgressInv'
      BY <2>1, <2>3, <2>4, <3>1 DEF ProgressInv, clients
    <3> QED BY <2>2, <3>2, <3>3 DEF CallInv
  <2> QED BY <2>2, <2>3, <2>4, UnlockCall
<1>8. CASE Erase \/ WriteChunk \/ WriteDone
  <2>1. /\ nvs' = nvs /\ UNCHANGED <<clients, world>>
        /\ pc \in {"erase", "write", "verify"}
    BY <1>8 DEF Erase, WriteChunk, WriteDone, media
  <2>2. SnapshotInv' /\ BlankInv'
    BY <1>l, <2>1, FreshSnapshot DEF clients
  <2>3. \/ \E r : Unlock(r)
        \/ /\ pc' \in {"write", "verify"}
           /\ UNCHANGED <<lock, request, current, next>>
    BY <1>8 DEF Erase, WriteChunk, WriteDone
  <2>4. CASE pc' \in {"write", "verify"} /\ UNCHANGED <<lock, request, current, next>>
    <3>1. RequestInv'
      BY <2>1, <2>4 DEF CallInv, RequestInv, clients, world
    <3>2. ProgressInv'
      BY <2>1, <2>4 DEF CallInv, ProgressInv, clients
    <3> QED BY <2>2, <3>1, <3>2 DEF CallInv
  <2> QED BY <2>2, <2>3, <2>4, UnlockCall
<1>9. CASE WriteBlob
  <2>1. /\ pc = "commit" /\ pc' = "readback"
        /\ UNCHANGED <<lock, request, clients, world>>
    BY <1>9 DEF WriteBlob
  <2>2. RequestInv'
    BY <2>1 DEF CallInv, RequestInv, clients, world
  <2>3. ProgressInv'
    BY <2>1 DEF ProgressInv
  <2> QED BY <1>9, <2>2, <2>3, WriteSnapshot DEF CallInv
<1> QED
  BY <1>1, <1>2, <1>3, <1>4, <1>5, <1>6, <1>7, <1>8, <1>9 DEF EngineStep

(* A client that clears its snapshot makes it no less faithful. *)
LEMMA ClearedSnapshot ==
    ASSUME Sound, CallInv, NEW c \in Clients, nvs' = nvs,
           view' = view \/ view' = [view EXCEPT ![c] = ZeroState]
    PROVE  SnapshotInv' /\ BlankInv'
<1>1. BlankInv'
  BY DEF CallInv, BlankInv
<1>2. view \in [Clients -> State] /\ nvs.state \in State /\ RecordSound
  BY DEF Sound, TypeOK, ClientType, MediaType, Blob
<1>3. ASSUME NEW d \in Clients
      PROVE  view'[d] = view[d] \/ view'[d] = ZeroState
  BY <1>2
<1>4. ZeroState.sequence = 0
  BY DEF ZeroState
<1>5. nvs.kind = "record" => nvs.state.sequence \in Nat /\ nvs.state.sequence > 0
  BY <1>2, ValidRecord, RecordAssumption DEF RecordSound
<1> QED BY <1>1, <1>3, <1>4, <1>5 DEF CallInv, SnapshotInv

(* The beginning of a call. *)
LEMMA TakeCall ==
    ASSUME Sound, CallInv, NEW c \in Clients, NEW op \in Operations,
           NEW operation, NEW bindings, Take(c, op, operation, bindings),
           \/ view' = view
           \/ op \in {"load", "reconcile"} /\ view' = [view EXCEPT ![c] = ZeroState],
           op = "initialize" => bindings \in Installations,
           op = "reserve" => /\ operation.id \in OperationIds
                             /\ operation.target = firmware'.running
                             /\ operation.trial_boot_id = 0
                             /\ Claim(operation) \in Claims,
           op = "begin_trial" => instance' = NoInstance
    PROVE  CallInv'
<1>1. /\ lock' = c /\ pc' = "begin" /\ nvs' = nvs
      /\ request' = [op |-> op, expected |-> view[c].sequence,
                     operation |-> operation, bindings |-> bindings]
  BY DEF Take, media
<1>2. SnapshotInv' /\ BlankInv'
  BY <1>1, ClearedSnapshot
<1>3. c # NoClient /\ op # "none"
  BY EngineAssumption DEF Operations
<1>4. /\ request'.op = op /\ request'.expected = view[c].sequence
      /\ request'.operation = operation /\ request'.bindings = bindings
  BY <1>1
<1>5. op \notin {"load", "reconcile"} => view'[lock'].sequence = view[c].sequence
  BY <1>1
<1>6. RequestInv'
  BY <1>1, <1>3, <1>4, <1>5 DEF RequestInv, Claim
<1>7. ProgressInv'
  BY <1>1 DEF ProgressInv
<1> QED BY <1>2, <1>6, <1>7 DEF CallInv

(* What clients do keeps what the running call knows. *)
LEMMA ClientCall ==
    ASSUME Sound, CallInv, NEW c \in Clients, ClientStep(c)
    PROVE  CallInv'
<1>1. CASE CallInitialize(c)
  <2>1. PICK b \in Installations : Take(c, "initialize", EmptyOperation, b)
    BY <1>1 DEF CallInitialize
  <2>2. view' = view
    BY <1>1 DEF CallInitialize, clients
  <2> QED BY <2>1, <2>2, TakeCall DEF Operations
<1>2. CASE CallLoad(c) \/ CallReconcile(c)
  <2>1. \E op \in {"load", "reconcile"} : Take(c, op, EmptyOperation, NoBindings)
    BY <1>2 DEF CallLoad, CallReconcile
  <2>2. view' = [view EXCEPT ![c] = ZeroState]
    BY <1>2 DEF CallLoad, CallReconcile
  <2> QED BY <2>1, <2>2, TakeCall DEF Operations
<1>3. CASE RefuseLoad(c) \/ RefuseReconcile(c)
  <2>1. /\ view' = [view EXCEPT ![c] = ZeroState] /\ UNCHANGED <<media, engine, world>>
        /\ lock \notin {NoClient, c}
    BY <1>3 DEF RefuseLoad, RefuseReconcile
  <2>2. SnapshotInv' /\ BlankInv'
    BY <2>1, ClearedSnapshot DEF media
  <2>3. view'[lock'] = view[lock]
    BY <2>1 DEF engine, Sound, TypeOK, EngineType, ClientType
  <2>4. RequestInv'
    BY <2>1, <2>3 DEF CallInv, RequestInv, engine, world
  <2>5. Succeeds(current, next)' <=> Succeeds(current, next)
    BY <2>1 DEF engine, world, Succeeds, Reserves, Prepares, Tries, Passes, Confirms,
       Abandons, Rebound, ConfirmRefusal, AbandonRefusal, TrialStopped, FreeSlots,
       Qualified
  <2>6. Installs(next)' <=> Installs(next)
    BY <2>1 DEF Installs, engine
  <2>7. ProgressInv'
    BY <2>1, <2>3, <2>5, <2>6 DEF CallInv, ProgressInv, engine, media, Encoded
  <2> QED BY <2>2, <2>4, <2>7 DEF CallInv
<1>4. CASE CallReserve(c)
  <2>1. PICK id \in OperationIds, k \in Claims :
            Take(c, "reserve",
                 [EmptyOperation EXCEPT
                     !.id = id, !.target = firmware.running, !.package = k.package,
                     !.size = k.size, !.abi = k.abi, !.schema = k.schema],
                 NoBindings)
    BY <1>4 DEF CallReserve
  <2> DEFINE op == [EmptyOperation EXCEPT
                     !.id = id, !.target = firmware.running, !.package = k.package,
                     !.size = k.size, !.abi = k.abi, !.schema = k.schema]
  <2>2. /\ op.id = id /\ op.target = firmware.running /\ op.trial_boot_id = 0
        /\ op.package = k.package /\ op.size = k.size
        /\ op.abi = k.abi /\ op.schema = k.schema
    BY DEF EmptyOperation
  <2>3. k \in [package : Packages, size : Nat \ {0}, abi : Nat \ {0}, schema : Nat \ {0}]
    BY EngineAssumption
  <2>4. Take(c, "reserve", op, NoBindings)
    BY <2>1
  <2> HIDE DEF op
  <2>5. Claim(op) = k
    BY <2>2, <2>3 DEF Claim
  <2>6. view' = view /\ firmware' = firmware
    BY <1>4 DEF CallReserve, clients, world
  <2> QED BY <2>2, <2>4, <2>5, <2>6, TakeCall DEF Operations
<1>5. CASE \/ CallWriteAndPrepare(c) \/ CallBeginTrial(c) \/ CallMarkHealthy(c)
           \/ CallConfirm(c) \/ CallAbandon(c)
  <2>1. PICK op \in Operations \ {"initialize", "reserve"} :
            /\ Take(c, op, EmptyOperation, NoBindings)
            /\ op = "begin_trial" => instance' = NoInstance
    BY <1>5 DEF CallWriteAndPrepare, CallBeginTrial, CallMarkHealthy, CallConfirm,
                CallAbandon, Call, Operations, world
  <2>2. view' = view
    BY <1>5 DEF CallWriteAndPrepare, CallBeginTrial, CallMarkHealthy, CallConfirm,
                CallAbandon, Call, clients
  <2> QED BY <2>1, <2>2, TakeCall
<1>6. CASE StartTrial(c) \/ StartConfirmed(c)
  <2>1. lock = NoClient /\ UNCHANGED <<media, engine, clients, boot, firmware>>
    BY <1>6 DEF StartTrial, StartConfirmed, StartInstance
  <2> QED BY <2>1, QuietCall DEF media
<1> QED BY <1>1, <1>2, <1>3, <1>4, <1>5, <1>6 DEF ClientStep

(* Every step keeps what the running call knows. *)
LEMMA NextCall == Sound /\ BytesInv /\ CallInv /\ [Next]_vars => CallInv'
<1> SUFFICES ASSUME Sound, BytesInv, CallInv, [Next]_vars PROVE CallInv'
  OBVIOUS
<1>1. CASE UNCHANGED vars
  BY <1>1, QuietCall DEF vars, media, world
<1>2. CASE StopInstance
  BY <1>2, QuietCall DEF StopInstance, media
<1>3. CASE PowerCycle
  <2>1. /\ Unlock("none") /\ UNCHANGED media
        /\ view' = [c \in Clients |-> ZeroState]
    BY <1>3 DEF PowerCycle
  <2>2. nvs.kind = "record" => nvs.state.sequence \in Nat /\ nvs.state.sequence > 0
    BY ValidRecord, RecordAssumption
       DEF Sound, RecordSound, TypeOK, MediaType, Blob
  <2>3. SnapshotInv' /\ BlankInv'
    BY <2>1, <2>2 DEF CallInv, SnapshotInv, BlankInv, media, ZeroState
  <2> QED BY <2>1, <2>3, UnlockCall
<1>4. CASE \E k \in Slots : Decay(k)
  BY <1>4, QuietCall DEF Decay, world
<1> QED BY <1>1, <1>2, <1>3, <1>4, EngineCall, ClientCall DEF Next

(* No call runs at first boot, and nobody has seen a record. *)
LEMMA InitCall == Init => CallInv
BY DEF Init, CallInv, RequestInv, SnapshotInv, ProgressInv, BlankInv, Absent,
       ZeroState, NoRequest

(* In every reachable state the running call works on the record its       *)
(* client has seen, and the record it is about to write is a legal         *)
(* successor of the durable one.                                           *)
THEOREM CallAlways == Spec => []CallInv
<1>1. Sound /\ BytesInv /\ CallInv /\ [Next]_vars => CallInv'
  BY NextCall
<1> QED BY <1>1, InitCall, SoundAlways, BytesAlways, PTL DEF Spec

-----------------------------------------------------------------------------
(* Concurrent clients. *)

(* A sequence number names one record, which is what makes comparing       *)
(* sequence numbers in begin_locked as good as comparing records.          *)
THEOREM SnapshotsFaithful == Spec => []SnapshotsNotAliased
<1>1. CallInv => SnapshotsNotAliased
  BY DEF CallInv, SnapshotInv, SnapshotsNotAliased
<1> QED BY <1>1, CallAlways, PTL

(* The record in NVS changes in one step of the engine only, the write of  *)
(* persist_locked.                                                         *)
LEMMA OnlyWriteBlob ==
    ASSUME [Next]_vars, nvs' # nvs
    PROVE  WriteBlob
<1>1. ASSUME NEW op, NEW refusal, NEW regions, NEW after,
             Transition(op, refusal, regions, after)
      PROVE  nvs' = nvs
  BY <1>1 DEF Transition, media
<1>2. EngineStep => WriteBlob
  BY <1>1 DEF EngineStep, Initialize, Load, Reconcile, Reserve, WriteAndPrepare,
     Erase, WriteChunk, WriteDone, Verify, BeginTrial, MarkHealthy, Confirm,
     Abandon, ReadBack, media
<1>3. ASSUME NEW c \in Clients, ClientStep(c) PROVE nvs' = nvs
  BY <1>3 DEF ClientStep, CallInitialize, CallLoad, CallReconcile, CallReserve,
     CallWriteAndPrepare, CallBeginTrial, CallMarkHealthy, CallConfirm, CallAbandon,
     RefuseLoad, RefuseReconcile, StartTrial, StartConfirmed, StartInstance, Call,
     Take, media
<1> QED BY <1>2, <1>3 DEF Next, vars, StopInstance, PowerCycle, Decay, media

(* A durable record is only replaced by a client that has seen it: no      *)
(* update of another client is lost.                                       *)
THEOREM NoUpdateLost == Spec => NoLostUpdate
<1> DEFINE P == nvs.kind = "record" /\ nvs' # nvs =>
                    lock \in Clients /\ view[lock] = nvs.state
<1>1. Sound /\ CallInv /\ [Next]_vars => P
  <2> SUFFICES ASSUME Sound, CallInv, [Next]_vars, nvs.kind = "record", nvs' # nvs
               PROVE  lock \in Clients /\ view[lock] = nvs.state
    OBVIOUS
  <2>1. pc = "commit"
    BY OnlyWriteBlob DEF WriteBlob
  <2>2. lock \in Clients
    BY <2>1 DEF CallInv, RequestInv, Sound, TypeOK, EngineType
  <2>3. nvs = Encoded(current) /\ view[lock] = current
    BY <2>1 DEF CallInv, ProgressInv, Absent
  <2> QED BY <2>2, <2>3 DEF Encoded
<1> QED BY <1>1, SoundAlways, CallAlways, PTL DEF Spec, NoLostUpdate

(* A damaged record stays as it is: no call, not even initialize, writes   *)
(* over it.                                                                *)
THEOREM DamageKept == Spec => DamagePreserved
<1> DEFINE P == nvs.kind = "damaged" => nvs' = nvs
<1>1. CallInv /\ [Next]_vars => P
  <2> SUFFICES ASSUME CallInv, [Next]_vars, nvs.kind = "damaged", nvs' # nvs
               PROVE  FALSE
    OBVIOUS
  <2>1. pc = "commit"
    BY OnlyWriteBlob DEF WriteBlob
  <2> QED BY <2>1 DEF CallInv, ProgressInv, Absent, Encoded
<1> QED BY <1>1, CallAlways, PTL DEF Spec, DamagePreserved

-----------------------------------------------------------------------------
(* What is written.  A record changes only from a durable record to one of *)
(* its legal successors, or from nothing to what initialize was given.     *)

LEMMA RecordReplaced ==
    ASSUME Sound, CallInv, [Next]_vars, nvs' # nvs, nvs'.kind = "record"
    PROVE  /\ nvs' = Encoded(next) /\ nvs'.state = next
           /\ next \in State /\ StateValid(next)
           /\ UNCHANGED <<request, boot, firmware, instance>>
           /\ \/ nvs = Absent /\ Installs(next)
              \/ /\ nvs.kind = "record" /\ nvs.state = current
                 /\ current \in State /\ StateValid(current)
                 /\ Succeeds(current, next)
<1>1. WriteBlob
  BY OnlyWriteBlob
<1>2. /\ nvs' = Encoded(next) /\ pc = "commit"
      /\ UNCHANGED <<request, boot, firmware, instance>>
  BY <1>1 DEF WriteBlob, world, Damaged
<1>3. /\ next \in State /\ current \in State /\ StateValid(next)
      /\ nvs.kind = "record" => StateValid(nvs.state)
  BY <1>2 DEF Sound, TypeOK, EngineType, RecordSound
<1> QED BY <1>2, <1>3 DEF CallInv, ProgressInv, Encoded

(* A binding the running firmware's update redirects, and one it does not. *)
LEMMA ReboundBinding ==
    ASSUME NEW s \in State, NEW i \in BindingIndex
    PROVE  /\ s.bindings[i] \in Binding
           /\ \/ /\ ~BindsFirmware(s, i, firmware.running)
                 /\ Rebound(s)[i] = s.bindings[i]
              \/ /\ BindsFirmware(s, i, firmware.running)
                 /\ Rebound(s)[i].present = s.bindings[i].present
                 /\ Rebound(s)[i].firmware = s.bindings[i].firmware
                 /\ Rebound(s)[i].package_present
                 /\ Rebound(s)[i].slot = s.operation.slot
                 /\ Rebound(s)[i].package = s.operation.package
                 /\ Rebound(s)[i].schema = s.operation.schema
                 /\ Claim(Rebound(s)[i]) = Claim(s.operation)
<1>1. s.bindings[i] \in Binding
  BY DEF State
<1> QED BY <1>1 DEF Rebound, Binding, Claim

(* A valid record binds a firmware once. *)
LEMMA OneBinding ==
    ASSUME NEW s \in State, StateValid(s), NEW i \in BindingIndex, NEW j \in BindingIndex,
           NEW f, BindsFirmware(s, i, f), BindsFirmware(s, j, f)
    PROVE  i = j
BY DEF StateValid, BindingsConsistent, BindsFirmware, BindingIndex

(* A legal successor of a qualified record is qualified, and keeps to the  *)
(* data schema.                                                            *)
LEMMA SucceedsRecord ==
    ASSUME RequestInv, EngineType, NEW s \in State, StateValid(s), NEW t \in State,
           QualifiedRecord(s), SchemaRecord(s), Succeeds(s, t)
    PROVE  QualifiedRecord(t) /\ SchemaRecord(t)
<1> USE DEF CompletePhases, PendingPhases, WRITING, PREPARED, TRIAL_STARTED,
            HEALTH_VERIFIED, CONFIRMED, ABORTED
<1>0. s.operation \in Operation /\ request.operation \in Operation
  BY DEF State, EngineType, Request
<1>1. CASE Reserves(s, t)
  <2>1. QualifiedRecord(t)
    BY <1>1 DEF Reserves, QualifiedRecord
  <2>2. t.operation.target = firmware.running
        /\ t.operation.schema = request.operation.schema
    BY <1>0, <1>1 DEF Reserves, RequestInv, Operation
  <2>3. PICK j \in BindingIndex :
            /\ BindsFirmware(s, j, firmware.running)
            /\ s.bindings[j].package_present =>
                   s.bindings[j].schema = request.operation.schema
    BY <1>1 DEF Reserves
  <2>4. t.bindings = s.bindings
    BY <1>1 DEF Reserves
  <2>5. ASSUME NEW i \in BindingIndex, BindsFirmware(t, i, t.operation.target),
               t.bindings[i].package_present
        PROVE  t.bindings[i].schema = t.operation.schema
    <3>1. BindsFirmware(s, i, firmware.running)
      BY <2>2, <2>4, <2>5 DEF BindsFirmware
    <3>2. i = j
      BY <2>3, <3>1, OneBinding
    <3> QED BY <2>2, <2>3, <2>4, <2>5, <3>2
  <2> QED BY <2>1, <2>5 DEF SchemaRecord
<1>2. CASE Prepares(s, t)
  BY <1>2 DEF Prepares, QualifiedRecord, SchemaRecord, BindsFirmware
<1>3. CASE Tries(s, t)
  <2>1. /\ t.operation.target = s.operation.target
        /\ t.operation.schema = s.operation.schema
        /\ t.operation.package = s.operation.package
        /\ Claim(t.operation) = Claim(s.operation)
    BY <1>0, <1>3 DEF Tries, Operation, Claim
  <2> QED BY <1>3, <2>1 DEF Tries, QualifiedRecord, SchemaRecord, BindsFirmware, Qualified
<1>4. CASE Passes(s, t)
  BY <1>4 DEF Passes, QualifiedRecord, SchemaRecord, BindsFirmware
<1>5. CASE Confirms(s, t)
  <2>1. Qualified(s.operation)
    BY <1>5 DEF Confirms, ConfirmRefusal, QualifiedRecord
  <2>2. ASSUME NEW i \in BindingIndex, t.bindings[i].package_present
        PROVE  Qualified(t.bindings[i])
    <3>1. t.bindings[i] = Rebound(s)[i]
      BY <1>5 DEF Confirms
    <3>2. CASE t.bindings[i] = s.bindings[i]
      BY <2>2, <3>2 DEF QualifiedRecord
    <3>3. CASE /\ t.bindings[i].package = s.operation.package
               /\ Claim(t.bindings[i]) = Claim(s.operation)
      BY <2>1, <3>3 DEF Qualified
    <3> QED BY <3>1, <3>2, <3>3, ReboundBinding
  <2> QED BY <1>5, <2>2 DEF Confirms, QualifiedRecord, SchemaRecord
<1>6. CASE Abandons(s, t)
  BY <1>6 DEF Abandons, QualifiedRecord, SchemaRecord
<1> QED BY <1>1, <1>2, <1>3, <1>4, <1>5, <1>6 DEF Succeeds

(* The durable record only ever names qualified packages of the right      *)
(* schema.                                                                 *)
LEMMA NextRecord == Sound /\ CallInv /\ RecordInv /\ [Next]_vars => RecordInv'
<1> SUFFICES ASSUME Sound, CallInv, RecordInv, [Next]_vars PROVE RecordInv'
  OBVIOUS
<1>1. CASE nvs' = nvs
  BY <1>1 DEF RecordInv, QualifiedRecord, SchemaRecord, Qualified
<1>2. CASE nvs'.kind # "record"
  BY <1>2 DEF RecordInv
<1>3. CASE nvs' # nvs /\ nvs'.kind = "record"
  <2>1. /\ nvs'.state = next /\ next \in State
        /\ \/ nvs = Absent /\ Installs(next)
           \/ /\ nvs.kind = "record" /\ nvs.state = current
              /\ current \in State /\ StateValid(current)
              /\ Succeeds(current, next)
    BY <1>3, RecordReplaced
  <2>2. CASE Installs(next)
    BY <2>1, <2>2, InstallationAssumption
       DEF Installs, RecordInv, QualifiedRecord, SchemaRecord, Qualified,
           CompletePhases, PendingPhases, IDLE, WRITING, PREPARED, HEALTH_VERIFIED
  <2>3. CASE /\ nvs.kind = "record" /\ nvs.state = current
             /\ current \in State /\ StateValid(current)
             /\ Succeeds(current, next)
    <3>1. QualifiedRecord(next) /\ SchemaRecord(next)
      BY <2>1, <2>3, SucceedsRecord DEF RecordInv, CallInv, Sound, TypeOK
    <3> QED BY <2>1, <3>1 DEF RecordInv, QualifiedRecord, SchemaRecord, Qualified
  <2> QED BY <2>1, <2>2, <2>3
<1> QED BY <1>1, <1>2, <1>3

(* The inductive invariant behind PackagesQualified and SchemasKept: also  *)
(* a candidate past write_and_prepare is qualified, and a pending update   *)
(* keeps the data schema.                                                  *)
THEOREM RecordAlways == Spec => []RecordInv
<1>1. Init => RecordInv
  BY DEF Init, RecordInv, Absent
<1>2. Sound /\ CallInv /\ RecordInv /\ [Next]_vars => RecordInv'
  BY NextRecord
<1> QED BY <1>1, <1>2, SoundAlways, CallAlways, PTL DEF Spec

(* No path - retry, crash, race or failed write - binds a firmware to a    *)
(* package that validation has not accepted as what the binding says.      *)
THEOREM PackagesQualified == Spec => []OnlyQualifiedBound
<1>1. RecordInv => OnlyQualifiedBound
  BY DEF RecordInv, QualifiedRecord, Qualified, OnlyQualifiedBound
<1> QED BY <1>1, RecordAlways, PTL

(* The record of the other firmware, and whether the running one has a     *)
(* package, survive every update.                                          *)
THEOREM RollbackKept == Spec => RollbackPackageKept
<1> DEFINE Kept(i) ==
               LET old == nvs.state.bindings[i]
                   new == nvs'.state.bindings[i]
               IN  \/ new = old
                   \/ /\ new.firmware = firmware.running
                      /\ old.firmware = firmware.running
                      /\ new.package_present
           P == nvs.kind = "record" /\ nvs'.kind = "record" =>
                    \A i \in BindingIndex : Kept(i)
<1>1. Sound /\ CallInv /\ [Next]_vars => P
  <2> SUFFICES ASSUME Sound, CallInv, [Next]_vars, nvs.kind = "record",
                      nvs'.kind = "record", NEW i \in BindingIndex, nvs' # nvs
               PROVE  Kept(i)
    OBVIOUS
  <2>1. /\ nvs'.state = next /\ nvs.state = current /\ current \in State
        /\ Succeeds(current, next)
    BY RecordReplaced DEF Absent
  <2>2. CASE next.bindings = current.bindings
    BY <2>1, <2>2
  <2>3. CASE next.bindings = Rebound(current)
    BY <2>1, <2>3, ReboundBinding DEF BindsFirmware
  <2> QED BY <2>1, <2>2, <2>3
          DEF Succeeds, Reserves, Prepares, Tries, Passes, Confirms, Abandons
<1> QED BY <1>1, SoundAlways, CallAlways, PTL DEF Spec, RollbackPackageKept

(* The schema comparison of reserve still holds when confirm changes the   *)
(* binding, several calls and possibly reboots later.                      *)
THEOREM SchemasKept == Spec => SchemaKept
<1> DEFINE Kept(i) ==
               nvs.state.bindings[i].package_present =>
                   nvs'.state.bindings[i].schema = nvs.state.bindings[i].schema
           P == nvs.kind = "record" /\ nvs'.kind = "record" =>
                    \A i \in BindingIndex : Kept(i)
<1>1. Sound /\ CallInv /\ RecordInv /\ [Next]_vars => P
  <2> SUFFICES ASSUME Sound, CallInv, RecordInv, [Next]_vars, nvs.kind = "record",
                      nvs'.kind = "record", NEW i \in BindingIndex, nvs' # nvs,
                      nvs.state.bindings[i].package_present
               PROVE  nvs'.state.bindings[i].schema = nvs.state.bindings[i].schema
    OBVIOUS
  <2>1. /\ nvs'.state = next /\ nvs.state = current /\ current \in State
        /\ Succeeds(current, next)
    BY RecordReplaced DEF Absent
  <2>2. CASE next.bindings = current.bindings
    BY <2>1, <2>2
  <2>3. CASE Confirms(current, next)
    <3>1. /\ next.bindings = Rebound(current)
          /\ current.operation.target = firmware.running
          /\ current.phase \in PendingPhases
      BY <2>3 DEF Confirms, ConfirmRefusal, PendingPhases, WRITING, HEALTH_VERIFIED
    <3>2. SchemaRecord(current)
      BY <2>1 DEF RecordInv
    <3>3. BindsFirmware(current, i, firmware.running) =>
              current.bindings[i].schema = current.operation.schema
      BY <2>1, <3>1, <3>2 DEF SchemaRecord
    <3> QED BY <2>1, <3>1, <3>3, ReboundBinding
  <2> QED BY <2>1, <2>2, <2>3
          DEF Succeeds, Reserves, Prepares, Tries, Passes, Abandons
<1> QED BY <1>1, SoundAlways, CallAlways, RecordAlways, PTL DEF Spec, SchemaKept

-----------------------------------------------------------------------------
(* state_valid agrees with the engine. *)

(* The rebound bindings of a record whose candidate is confirmed. *)
LEMMA ConfirmedValid ==
    ASSUME NEW s \in State, StateValid(s), NEW t \in State, Confirms(s, t)
    PROVE  /\ \A i \in BindingIndex : BindingValid(t.bindings[i])
           /\ BindingsConsistent(t)
           /\ ConfirmationRecorded(t)
           /\ OperationValid(t)
<1> USE DEF PendingPhases, IDLE, WRITING, PREPARED, TRIAL_STARTED, HEALTH_VERIFIED,
            CONFIRMED, ABORTED
<1> DEFINE op == s.operation
<1>1. /\ s.phase = HEALTH_VERIFIED /\ op.target = firmware.running
      /\ t.phase = CONFIRMED /\ t.bindings = Rebound(s) /\ t.operation = op
  BY DEF Confirms, ConfirmRefusal
<1>2. /\ op.id # Zero /\ op.target # Zero /\ op.package # Zero /\ op.slot \in Slots
      /\ op.size \in 1..SlotSize[op.slot] /\ op.abi > 0 /\ op.schema > 0
      /\ op.trial_boot_id # 0
      /\ \A i \in BindingIndex :
             s.bindings[i].package_present => s.bindings[i].slot # op.slot
  BY <1>1 DEF StateValid, OperationValid
<1>3. PICK k \in BindingIndex : BindsFirmware(s, k, op.target)
  BY <1>1 DEF StateValid, OperationValid
<1>4. /\ t.bindings[k].present /\ t.bindings[k].firmware = op.target
      /\ t.bindings[k].package_present /\ t.bindings[k].slot = op.slot
      /\ Claim(t.bindings[k]) = Claim(op)
  BY <1>1, <1>3, ReboundBinding DEF BindsFirmware
<1>5. \A i \in BindingIndex : i # k => t.bindings[i] = s.bindings[i]
  <2> SUFFICES ASSUME NEW i \in BindingIndex, i # k
               PROVE  ~BindsFirmware(s, i, firmware.running)
    BY <1>1, ReboundBinding
  <2> QED BY <1>1, <1>3, OneBinding
<1>6. ASSUME NEW i \in BindingIndex PROVE BindingValid(t.bindings[i])
  <2>1. CASE i # k
    BY <1>5, <2>1 DEF StateValid
  <2>2. CASE i = k
    <3>1. /\ t.bindings[i].package = op.package /\ t.bindings[i].size = op.size
          /\ t.bindings[i].abi = op.abi /\ t.bindings[i].schema = op.schema
      BY <1>4, <2>2 DEF Claim
    <3> QED BY <1>2, <1>4, <2>2, <3>1 DEF BindingValid
  <2> QED BY <2>1, <2>2
<1>7. BindingsConsistent(t)
  <2>1. \A i \in BindingIndex : /\ t.bindings[i].present = s.bindings[i].present
                                /\ t.bindings[i].firmware = s.bindings[i].firmware
    BY <1>1, ReboundBinding
  <2>2. \A i \in BindingIndex : i # k /\ t.bindings[i].package_present =>
            t.bindings[i].slot # t.bindings[k].slot
    BY <1>2, <1>4, <1>5
  <2> QED BY <2>1, <2>2 DEF StateValid, BindingsConsistent, BindingIndex
<1>8. ConfirmationRecorded(t)
  BY <1>1, <1>3, <1>4 DEF ConfirmationRecorded, BindsFirmware
<1>9. OperationValid(t)
  BY <1>1, <1>2, <1>3, <1>4 DEF OperationValid, BindsFirmware
<1> QED BY <1>6, <1>7, <1>8, <1>9

(* Every legal successor of a valid record passes state_valid. *)
LEMMA SuccessorValid ==
    ASSUME WorldType, EngineType, RequestInv,
           NEW s \in State, StateValid(s), NEW t \in State, Succeeds(s, t)
    PROVE  StateValid(t)
<1> USE DEF PendingPhases, IDLE, WRITING, PREPARED, TRIAL_STARTED, HEALTH_VERIFIED,
            CONFIRMED, ABORTED
<1>0. /\ s.operation \in Operation /\ request.operation \in Operation
      /\ s.sequence \in Nat /\ boot # 0 /\ firmware.running \in Firmwares
  BY RecordAssumption, EngineAssumption DEF State, EngineType, Request, WorldType
<1>1. t.sequence # 0
  BY <1>0 DEF Succeeds
<1>s. ASSUME t.bindings = s.bindings, t.phase # CONFIRMED, OperationValid(t)
      PROVE  StateValid(t)
  BY <1>1, <1>s DEF StateValid, BindingsConsistent, ConfirmationRecorded
<1>2. CASE Reserves(s, t)
  <2> DEFINE op == request.operation
  <2>1. /\ t.operation.id = op.id /\ t.operation.target = op.target
        /\ t.operation.package = op.package /\ t.operation.size = op.size
        /\ t.operation.abi = op.abi /\ t.operation.schema = op.schema
        /\ t.operation.trial_boot_id = op.trial_boot_id
    BY <1>0, <1>2 DEF Reserves, Operation
  <2>2. /\ op.id \in OperationIds /\ op.target = firmware.running
        /\ op.trial_boot_id = 0 /\ Claim(op) \in Claims
    BY <1>2 DEF Reserves, RequestInv
  <2>3. /\ op.package \in Packages /\ op.size \in Nat \ {0}
        /\ op.abi \in Nat \ {0} /\ op.schema \in Nat \ {0}
    BY <2>2, EngineAssumption DEF Claim
  <2>4. /\ t.operation.slot \in Slots /\ op.size <= SlotSize[t.operation.slot]
        /\ \A i \in BindingIndex :
               s.bindings[i].package_present => s.bindings[i].slot # t.operation.slot
    BY <1>2 DEF Reserves, FreeSlots
  <2>5. op.size \in 1..SlotSize[t.operation.slot]
    BY <2>3, <2>4, RecordAssumption
  <2>6. \E i \in BindingIndex : BindsFirmware(t, i, op.target)
    BY <1>2, <2>2 DEF Reserves, BindsFirmware
  <2>7. op.id # Zero /\ op.target # Zero /\ op.package # Zero
    BY <1>0, <2>2, <2>3, RecordAssumption
  <2>8. t.phase = WRITING /\ t.bindings = s.bindings
    BY <1>2 DEF Reserves
  <2>9. OperationValid(t)
    BY <2>1, <2>2, <2>3, <2>4, <2>5, <2>6, <2>7, <2>8 DEF OperationValid
  <2> QED BY <2>8, <2>9, <1>s
<1>3. CASE Prepares(s, t) \/ Passes(s, t)
  <2>1. OperationValid(t)
    BY <1>3 DEF Prepares, Passes, StateValid, OperationValid, BindsFirmware
  <2> QED BY <1>3, <2>1, <1>s DEF Prepares, Passes
<1>4. CASE Tries(s, t)
  <2>1. /\ t.operation.id = s.operation.id /\ t.operation.target = s.operation.target
        /\ t.operation.package = s.operation.package
        /\ t.operation.slot = s.operation.slot /\ t.operation.size = s.operation.size
        /\ t.operation.abi = s.operation.abi /\ t.operation.schema = s.operation.schema
        /\ t.operation.trial_boot_id = boot
    BY <1>0, <1>4 DEF Tries, Operation
  <2>2. OperationValid(t)
    BY <1>0, <1>4, <2>1 DEF Tries, StateValid, OperationValid, BindsFirmware
  <2> QED BY <1>4, <2>2, <1>s DEF Tries
<1>5. CASE Confirms(s, t)
  BY <1>1, <1>5, ConfirmedValid DEF StateValid
<1>6. CASE Abandons(s, t)
  <2>1. s.phase \in PendingPhases
    BY <1>6 DEF Abandons, AbandonRefusal
  <2>2. OperationValid(t)
    BY <1>6, <2>1 DEF Abandons, StateValid, OperationValid, BindsFirmware
  <2> QED BY <1>6, <2>2, <1>s DEF Abandons
<1> QED BY <1>2, <1>3, <1>4, <1>5, <1>6 DEF Succeeds

(* commit_next refuses a proposal only for want of sequence numbers. *)
LEMMA ProposalRefused ==
    ASSUME Sound, CallInv, NEW after \in State, Proposed(nvs.state, after),
           Unlock("INVALID"), pc # "idle"
    PROVE  nvs.state.sequence = MaxSequence
<1> DEFINE s == nvs.state
           t == Successor(s, after)
<1>0. /\ s \in State /\ WorldType /\ EngineType /\ RequestInv /\ StateValid(s)
      /\ Succeeds(s, t)
  BY DEF Sound, RecordSound, TypeOK, MediaType, Blob, CallInv, Proposed, Encoded
<1>1. s.sequence = MaxSequence \/ ~StateValid(t)
  BY DEF Proposed, CommitNext, Successor, Unlock
<1>2. ASSUME s.sequence # MaxSequence PROVE t \in State
  <2>1. s.sequence + 1 \in 0..MaxSequence
    BY <1>0, <1>2, RecordAssumption DEF State
  <2> QED BY <2>1, FieldTypes DEF Successor
<1> QED BY <1>0, <1>1, <1>2, SuccessorValid

(* A call ends, other than by loss of power, in a step of its own. *)
LEMMA ReturnsInEngine ==
    ASSUME Sound, [Next]_vars, Returns
    PROVE  EngineStep
<1>1. ASSUME NEW c \in Clients, ClientStep(c) PROVE lock = NoClient \/ lock' = lock
  BY <1>1 DEF ClientStep, CallInitialize, CallLoad, CallReconcile, CallReserve,
     CallWriteAndPrepare, CallBeginTrial, CallMarkHealthy, CallConfirm, CallAbandon,
     RefuseLoad, RefuseReconcile, StartTrial, StartConfirmed, StartInstance, Call,
     Take, engine
<1>2. ~PowerCycle
  BY EngineAssumption DEF PowerCycle, Returns, Sound, TypeOK, WorldType
<1> QED BY <1>1, <1>2 DEF Next, Returns, vars, StopInstance, Decay, engine

(* A call on a sound record returns INVALID only when the sequence numbers *)
(* are used up: state_valid refuses no record the engine builds.           *)
THEOREM InvalidEarned == Spec => NoSpuriousInvalid
<1> DEFINE Earned == \/ nvs.kind = "damaged"
                     \/ nvs.state.sequence = MaxSequence
                     \/ request.op = "initialize"
           P == Returns /\ result' = "INVALID" => Earned
<1>1. Sound /\ BytesInv /\ CallInv /\ [Next]_vars => P
  <2> SUFFICES ASSUME Sound, BytesInv, CallInv, [Next]_vars, Returns,
                      result' = "INVALID"
               PROVE  Earned
    OBVIOUS
  <2>0. /\ EngineStep /\ lock' # lock /\ nvs.state \in State
    BY ReturnsInEngine DEF Returns, Sound, TypeOK, MediaType, Blob
  <2>d. nvs.kind # "absent" /\ ~Decodes(nvs) => nvs.kind = "damaged"
    BY DEF Sound, RecordSound, TypeOK, MediaType, Blob, Decodes
  <2>1. CASE Refused \/ \E after \in State : Proposed(nvs.state, after)
    <3>1. CASE Refused
      BY <2>d, <3>1 DEF Refused, Unlock
    <3>2. ASSUME NEW after \in State, Proposed(nvs.state, after) PROVE Earned
      <4>1. Unlock("INVALID")
        BY <2>0, <3>2 DEF Proposed, CommitNext
      <4>2. pc # "idle"
        BY DEF CallInv, RequestInv, Returns
      <4> QED BY <3>2, <4>1, <4>2, ProposalRefused
    <3> QED BY <2>1, <3>1, <3>2
  <2>2. CASE Initialize
    BY <2>2 DEF Initialize
  <2>3. CASE Load \/ Reconcile
    BY <2>3, <2>d DEF Load, Reconcile, LoadResult, HashResult, Unlock
  <2>4. CASE WriteAndPrepare
    <3>1. PICK r \in Results :
              /\ GateResult(WriteRefusal(nvs.state), ConfirmedReferences(nvs.state), r)
              /\ r # "OK" /\ Unlock(r)
      BY <2>0, <2>4 DEF WriteAndPrepare
    <3>2. WriteRefusal(nvs.state) \in Results \ {"INVALID"}
      BY <2>0, RefusalValues, EmptyTypes
    <3> QED BY <2>d, <3>1, <3>2, GateFailed DEF Unlock
  <2>5. CASE Erase \/ WriteChunk \/ WriteDone \/ WriteBlob
    BY <2>0, <2>5 DEF Erase, WriteChunk, WriteDone, WriteBlob, Unlock
  <2>6. CASE ReadBack
    BY <2>6 DEF ReadBack, ReadBackResult, Unlock
  <2> QED BY <2>0, <2>1, <2>2, <2>3, <2>4, <2>5, <2>6, ReserveProposes,
             VerifyProposes, TransitionsPropose DEF EngineStep
<1> QED BY <1>1, SoundAlways, BytesAlways, CallAlways, PTL DEF Spec, NoSpuriousInvalid

-----------------------------------------------------------------------------
(* What a call tells its client. *)

(* OK means that the new record is durable and in the client's hands, and  *)
(* any failure but UNCERTAIN that the old one is still in place.           *)
THEOREM ResultsTruthful == Spec => ResultsTellTheTruth
<1> DEFINE Ok == result' = "OK" /\ request.op \notin {"load", "reconcile"} =>
                     /\ nvs' = Encoded(next)
                     /\ request.op # "initialize" => Encoded(view'[lock]) = nvs'
           Failed == result' \notin {"OK", "UNCERTAIN"} /\ pc = "readback" =>
                         nvs' = Encoded(current)
           P == Returns => Ok /\ Failed
<1>1. Sound /\ BytesInv /\ CallInv /\ [Next]_vars => P
  <2> SUFFICES ASSUME Sound, BytesInv, CallInv, [Next]_vars, Returns
               PROVE  Ok /\ Failed
    OBVIOUS
  <2>0. /\ EngineStep /\ lock' # lock /\ lock \in Clients
        /\ view \in [Clients -> State] /\ nvs.state \in State
    BY ReturnsInEngine
       DEF Returns, Sound, TypeOK, EngineType, ClientType, MediaType, Blob
  <2>1. CASE /\ pc # "readback"
             /\ result' # "OK" \/ request.op \in {"load", "reconcile"}
    BY <2>1
  <2>2. CASE Reserve \/ Verify \/ BeginTrial \/ MarkHealthy \/ Confirm \/ Abandon
    <3>1. pc # "readback"
      BY <2>2 DEF Reserve, Verify, BeginTrial, MarkHealthy, Confirm, Abandon, Transition
    <3>2. Refused \/ \E after \in State : Proposed(nvs.state, after)
      BY <2>2, ReserveProposes, VerifyProposes, TransitionsPropose
    <3>3. result' # "OK"
      BY <2>0, <3>2 DEF Refused, Proposed, CommitNext, Unlock
    <3> QED BY <2>1, <3>1, <3>3
  <2>3. CASE Initialize \/ Load \/ Reconcile \/ WriteAndPrepare
    BY <2>0, <2>1, <2>3 DEF Initialize, Load, Reconcile, WriteAndPrepare, Unlock
  <2>4. CASE Erase \/ WriteChunk \/ WriteDone \/ WriteBlob
    BY <2>0, <2>1, <2>4 DEF Erase, WriteChunk, WriteDone, WriteBlob, Unlock
  <2>5. CASE ReadBack
    <3>1. PICK r \in Results :
              /\ ReadBackResult(r)
              /\ view' = IF r = "OK" /\ request.op # "initialize"
                         THEN [view EXCEPT ![lock] = next] ELSE view
              /\ result' = r
      BY <2>5 DEF ReadBack, Unlock
    <3>2. nvs' = nvs
      BY <2>5 DEF ReadBack, media
    <3>3. r = "OK" => nvs = Encoded(next)
      BY <3>1 DEF ReadBackResult
    <3>4. r \notin {"OK", "UNCERTAIN"} => nvs = Encoded(current)
      BY <3>1 DEF ReadBackResult
    <3>5. r = "OK" /\ request.op # "initialize" => view'[lock] = next
      BY <2>0, <3>1
    <3> QED BY <3>1, <3>2, <3>3, <3>4, <3>5
  <2> QED BY <2>0, <2>2, <2>3, <2>4, <2>5 DEF EngineStep
<1> QED BY <1>1, SoundAlways, BytesAlways, CallAlways, PTL
        DEF Spec, ResultsTellTheTruth

(* Hashing no region at all succeeds. *)
LEMMA HashNothing ==
    ASSUME NEW r, HashResult({}, r)
    PROVE  r = "OK"
BY DEF HashResult

(* A client is told to start a confirmed package only by a reconcile that  *)
(* has just hashed every confirmed package and found the bootable          *)
(* firmwares to be the bound ones, and is told of a pending operation and  *)
(* of a candidate that is not in place.                                    *)
THEOREM DecisionsSound == Spec => BootDecisionSound
<1> DEFINE P == \A c \in Clients :
               decision'[c] # "BLOCKED" /\ decision'[c] # decision[c] =>
                   /\ view'[c] = nvs.state
                   /\ BoundFirmwares(nvs.state) = firmware.bootable
                   /\ \A x \in ConfirmedReferences(nvs.state) : Matches(x)
                   /\ decision'[c] = "CONFIRMED" <=> nvs.state.phase \notin PendingPhases
                   /\ IF decision'[c] = "RECOVER_CONFIRMED_CANDIDATE_INVALID"
                      THEN CandidateReferences(nvs.state) # {}
                      ELSE \A x \in CandidateReferences(nvs.state) : Matches(x)
<1>1. Sound /\ [Next]_vars => P
  <2> SUFFICES ASSUME Sound, [Next]_vars, NEW c \in Clients,
                      decision'[c] # "BLOCKED", decision'[c] # decision[c]
               PROVE  /\ view'[c] = nvs.state
                      /\ BoundFirmwares(nvs.state) = firmware.bootable
                      /\ \A x \in ConfirmedReferences(nvs.state) : Matches(x)
                      /\ decision'[c] = "CONFIRMED" <=>
                             nvs.state.phase \notin PendingPhases
                      /\ IF decision'[c] = "RECOVER_CONFIRMED_CANDIDATE_INVALID"
                         THEN CandidateReferences(nvs.state) # {}
                         ELSE \A x \in CandidateReferences(nvs.state) : Matches(x)
    OBVIOUS
  <2>0. view \in [Clients -> State] /\ decision \in [Clients -> Decisions]
    BY DEF Sound, TypeOK, ClientType
  <2>1. Reconcile
    <3>1. ASSUME NEW op, NEW refusal, NEW regions, NEW after,
                 Transition(op, refusal, regions, after)
          PROVE  decision' = decision
      BY <3>1 DEF Transition, clients
    <3>2. EngineStep => Reconcile
      BY <3>1 DEF EngineStep, Initialize, Load, Reserve, WriteAndPrepare, Erase,
         WriteChunk, WriteDone, Verify, BeginTrial, MarkHealthy, Confirm, Abandon,
         WriteBlob, ReadBack, clients
    <3>3. ASSUME NEW d \in Clients, ClientStep(d)
          PROVE  decision' = decision \/ decision' = [decision EXCEPT ![d] = "BLOCKED"]
      BY <3>3 DEF ClientStep, CallInitialize, CallLoad, CallReconcile, CallReserve,
         CallWriteAndPrepare, CallBeginTrial, CallMarkHealthy, CallConfirm,
         CallAbandon, RefuseLoad, RefuseReconcile, StartTrial, StartConfirmed,
         StartInstance, Call, clients
    <3>4. ~\E d \in Clients : ClientStep(d)
      BY <2>0, <3>3
    <3> QED BY <3>2, <3>4 DEF Next, vars, StopInstance, PowerCycle, Decay, clients
  <2>2. PICK r \in Results :
            /\ BoundFirmwares(nvs.state) = firmware.bootable
            /\ HashResult(ConfirmedReferences(nvs.state), "OK")
            /\ HashResult(CandidateReferences(nvs.state), r)
            /\ view' = [view EXCEPT ![lock] = nvs.state]
            /\ decision' = [decision EXCEPT ![lock] = BootDecision(nvs.state, r)]
    BY <2>1 DEF Reconcile, clients
  <2>3. c = lock
    BY <2>0, <2>2
  <2>4. view'[c] = nvs.state /\ decision'[c] = BootDecision(nvs.state, r)
    BY <2>0, <2>2, <2>3
  <2>5. \A x \in ConfirmedReferences(nvs.state) : Matches(x)
    BY <2>2 DEF HashResult
  <2>6. r # "OK" => nvs.state.phase \in PendingPhases
    <3>1. CandidateReferences(nvs.state) # {} => nvs.state.phase \in PendingPhases
      BY DEF CandidateReferences, CompletePhases, PendingPhases, WRITING, PREPARED,
             HEALTH_VERIFIED
    <3> QED BY <2>2, <3>1, HashNothing
  <2>7. BootDecision(nvs.state, r) = "CONFIRMED" <=>
            nvs.state.phase \notin PendingPhases
    <3>1. CASE r # "OK"
      BY <2>6, <3>1 DEF BootDecision
    <3>2. CASE r = "OK" /\ nvs.state.phase \in PendingPhases
      BY <3>2 DEF BootDecision
    <3>3. CASE r = "OK" /\ nvs.state.phase \notin PendingPhases
      BY <3>3 DEF BootDecision
    <3> QED BY <3>1, <3>2, <3>3
  <2>8. /\ r # "OK" => CandidateReferences(nvs.state) # {}
        /\ r = "OK" => \A x \in CandidateReferences(nvs.state) : Matches(x)
    <3>1. r # "OK" => CandidateReferences(nvs.state) # {}
      BY <2>2, HashNothing
    <3>2. r = "OK" => \A x \in CandidateReferences(nvs.state) : Matches(x)
      BY <2>2 DEF HashResult
    <3> QED BY <3>1, <3>2
  <2>9. BootDecision(nvs.state, r) = "RECOVER_CONFIRMED_CANDIDATE_INVALID" <=> r # "OK"
    <3>1. CASE r # "OK"
      BY <3>1 DEF BootDecision
    <3>2. CASE r = "OK" /\ nvs.state.phase \in PendingPhases
      BY <3>2 DEF BootDecision
    <3>3. CASE r = "OK" /\ nvs.state.phase \notin PendingPhases
      BY <3>3 DEF BootDecision
    <3> QED BY <3>1, <3>2, <3>3
  <2>10. IF decision'[c] = "RECOVER_CONFIRMED_CANDIDATE_INVALID"
         THEN CandidateReferences(nvs.state) # {}
         ELSE \A x \in CandidateReferences(nvs.state) : Matches(x)
    BY <2>4, <2>8, <2>9
  <2> QED BY <2>2, <2>4, <2>5, <2>7, <2>10
<1> QED BY <1>1, SoundAlways, PTL DEF Spec, BootDecisionSound

-----------------------------------------------------------------------------
(* Flash, and the instance that runs from it. *)

(* Flash changes by erasing and writing, and by decay. *)
LEMMA FlashChanged ==
    ASSUME [Next]_vars, <<flash, decayed>>' # <<flash, decayed>>
    PROVE  Erase \/ WriteChunk \/ \E k \in Slots : Decay(k)
<1>1. ASSUME NEW op, NEW refusal, NEW regions, NEW after,
             Transition(op, refusal, regions, after)
      PROVE  UNCHANGED <<flash, decayed>>
  BY <1>1 DEF Transition, media
<1>2. EngineStep => Erase \/ WriteChunk
  BY <1>1 DEF EngineStep, Initialize, Load, Reconcile, Reserve, WriteAndPrepare,
     WriteDone, Verify, BeginTrial, MarkHealthy, Confirm, Abandon, WriteBlob,
     ReadBack, media
<1>3. ASSUME NEW c \in Clients, ClientStep(c) PROVE UNCHANGED <<flash, decayed>>
  BY <1>3 DEF ClientStep, CallInitialize, CallLoad, CallReconcile, CallReserve,
     CallWriteAndPrepare, CallBeginTrial, CallMarkHealthy, CallConfirm, CallAbandon,
     RefuseLoad, RefuseReconcile, StartTrial, StartConfirmed, StartInstance, Call,
     Take, media
<1> QED BY <1>2, <1>3 DEF Next, vars, StopInstance, PowerCycle, media

(* A slot is erased or written only while the durable record reserves it:  *)
(* power lost at any moment leaves a record that tells the slot is dirty.  *)
THEOREM ReservedFirst == Spec => ReservedBeforeErase
<1> DEFINE P == \A k \in Slots :
               flash'[k] # flash[k] /\ k \notin decayed' =>
                   /\ nvs.kind = "record"
                   /\ nvs.state.phase = WRITING
                   /\ nvs.state.operation.slot = k
<1>1. Sound /\ BytesInv /\ [Next]_vars => P
  <2> SUFFICES ASSUME Sound, BytesInv, [Next]_vars, NEW k \in Slots,
                      flash'[k] # flash[k], k \notin decayed'
               PROVE  /\ nvs.kind = "record"
                      /\ nvs.state.phase = WRITING
                      /\ nvs.state.operation.slot = k
    OBVIOUS
  <2>0. flash \in [Slots -> Content]
    BY DEF Sound, TypeOK, MediaType
  <2>1. ~Decay(k) /\ \A j \in Slots : Decay(j) => j = k
    BY <2>0 DEF Decay
  <2>2. Erase \/ WriteChunk
    BY <2>1, FlashChanged
  <2>3. pc \in {"erase", "write"} /\ k = current.operation.slot
    BY <2>0, <2>2 DEF Erase, WriteChunk
  <2> QED BY <2>3 DEF BytesInv, WritesReserved, Encoded
<1> QED BY <1>1, SoundAlways, BytesAlways, PTL DEF Spec, ReservedBeforeErase

(* What InstanceInv says of one record. *)
LEMMA InstanceRecord ==
    ASSUME NEW s \in State, NEW t \in State, StateValid(s), Succeeds(s, t), RequestInv,
           WorldType,
           instance # NoInstance,
           IF OnTrial(s)
           THEN /\ instance.kind = "trial"
                /\ instance.id = s.operation.id
                /\ instance.slot = s.operation.slot
                /\ instance.package = s.operation.package
           ELSE \E i \in BindingIndex :
                   /\ BindsFirmware(s, i, firmware.running)
                   /\ s.bindings[i].package_present
                   /\ s.bindings[i].slot = instance.slot
                   /\ s.bindings[i].package = instance.package
    PROVE  IF OnTrial(t)
           THEN /\ instance.kind = "trial"
                /\ instance.id = t.operation.id
                /\ instance.slot = t.operation.slot
                /\ instance.package = t.operation.package
           ELSE \E i \in BindingIndex :
                   /\ BindsFirmware(t, i, firmware.running)
                   /\ t.bindings[i].package_present
                   /\ t.bindings[i].slot = instance.slot
                   /\ t.bindings[i].package = instance.package
<1> USE DEF PendingPhases, WRITING, PREPARED, TRIAL_STARTED, HEALTH_VERIFIED,
            CONFIRMED, ABORTED
<1>1. CASE Reserves(s, t)
  BY <1>1 DEF Reserves, OnTrial, BindsFirmware
<1>2. CASE Prepares(s, t)
  BY <1>2 DEF Prepares, OnTrial, BindsFirmware
<1>3. CASE Tries(s, t)
  BY <1>3 DEF Tries, RequestInv
<1>4. CASE Passes(s, t)
  BY <1>4 DEF Passes, OnTrial, BindsFirmware
<1>5. CASE Confirms(s, t)
  <2>1. /\ OnTrial(s) /\ ~OnTrial(t)
    BY <1>5 DEF Confirms, ConfirmRefusal, OnTrial
  <2>2. PICK i \in BindingIndex : BindsFirmware(s, i, firmware.running)
    BY <1>5 DEF Confirms, ConfirmRefusal
  <2>3. t.bindings = Rebound(s)
    BY <1>5 DEF Confirms
  <2> QED BY <2>1, <2>2, <2>3, ReboundBinding DEF BindsFirmware
<1>6. CASE Abandons(s, t)
  <2>1. ~OnTrial(s)
    BY <1>6 DEF Abandons, AbandonRefusal, OnTrial, TrialStopped
  <2> QED BY <1>6, <2>1 DEF Abandons, OnTrial, BindsFirmware
<1> QED BY <1>1, <1>2, <1>3, <1>4, <1>5, <1>6 DEF Succeeds

(* An instance is started, stopped or lost with power; no call changes it. *)
LEMMA InstanceChanged ==
    ASSUME [Next]_vars, <<instance, boot, firmware>>' # <<instance, boot, firmware>>
    PROVE  instance' = NoInstance \/ \E c \in Clients : StartTrial(c) \/ StartConfirmed(c)
<1>1. ASSUME NEW op, NEW refusal, NEW regions, NEW after,
             Transition(op, refusal, regions, after)
      PROVE  UNCHANGED world
  BY <1>1 DEF Transition
<1>2. EngineStep => UNCHANGED world
  BY <1>1 DEF EngineStep, Initialize, Load, Reconcile, Reserve, WriteAndPrepare, Erase,
     WriteChunk, WriteDone, Verify, BeginTrial, MarkHealthy, Confirm, Abandon,
     WriteBlob, ReadBack
<1>3. ASSUME NEW c \in Clients, ClientStep(c), ~StartTrial(c), ~StartConfirmed(c)
      PROVE  UNCHANGED <<instance, boot, firmware>>
  BY <1>3 DEF ClientStep, CallInitialize, CallLoad, CallReconcile, CallReserve,
     CallWriteAndPrepare, CallBeginTrial, CallMarkHealthy, CallConfirm, CallAbandon,
     RefuseLoad, RefuseReconcile, Call, world
<1> QED BY <1>2, <1>3 DEF Next, vars, StopInstance, PowerCycle, Decay, world

(* Every step keeps the instance and the record in agreement. *)
LEMMA NextInstance == Sound /\ CallInv /\ InstanceInv /\ [Next]_vars => InstanceInv'
<1> SUFFICES ASSUME Sound, CallInv, InstanceInv, [Next]_vars, instance' # NoInstance
             PROVE  InstanceInv'
  BY DEF InstanceInv
<1>1. CASE UNCHANGED <<nvs, instance, boot, firmware>>
  BY <1>1 DEF InstanceInv, OnTrial, BindsFirmware
<1>2. CASE nvs' # nvs
  <2>1. UNCHANGED <<instance, boot, firmware>> /\ nvs' \in {Encoded(next), Damaged}
    BY <1>2, OnlyWriteBlob DEF WriteBlob, world
  <2>2. nvs'.kind # "absent"
    BY <2>1 DEF Encoded, Damaged
  <2>3. CASE nvs'.kind # "record"
    BY <2>2, <2>3 DEF InstanceInv
  <2>4. CASE nvs'.kind = "record"
    <3>1. /\ nvs'.state = next /\ next \in State
          /\ \/ nvs = Absent
             \/ /\ nvs.kind = "record" /\ nvs.state = current
                /\ current \in State /\ StateValid(current)
                /\ Succeeds(current, next)
      BY <1>2, <2>4, RecordReplaced
    <3>2. nvs # Absent
      BY <2>1 DEF InstanceInv, Absent
    <3>3. RequestInv /\ WorldType /\ instance # NoInstance
      BY <2>1 DEF CallInv, Sound, TypeOK
    <3>4. IF OnTrial(next)
          THEN /\ instance.kind = "trial"
               /\ instance.id = next.operation.id
               /\ instance.slot = next.operation.slot
               /\ instance.package = next.operation.package
          ELSE \E i \in BindingIndex :
                  /\ BindsFirmware(next, i, firmware.running)
                  /\ next.bindings[i].package_present
                  /\ next.bindings[i].slot = instance.slot
                  /\ next.bindings[i].package = instance.package
      BY <3>1, <3>2, <3>3, InstanceRecord DEF InstanceInv
    <3> QED BY <2>1, <2>4, <3>1, <3>4 DEF InstanceInv, OnTrial, BindsFirmware
  <2> QED BY <2>3, <2>4
<1>3. CASE <<instance, boot, firmware>>' # <<instance, boot, firmware>>
  <2>1. PICK c \in Clients : StartTrial(c) \/ StartConfirmed(c)
    BY <1>3, InstanceChanged
  <2>2. /\ nvs.kind = "record" /\ nvs.state = view[c] /\ nvs' = nvs
        /\ UNCHANGED <<boot, firmware>>
    BY <2>1 DEF StartTrial, StartConfirmed, StartInstance, Encoded, media
  <2>3. CASE StartTrial(c)
    BY <2>2, <2>3 DEF StartTrial, StartInstance, InstanceInv, OnTrial
  <2>4. CASE StartConfirmed(c)
    <3>1. ~OnTrial(nvs.state)
      BY <2>2, <2>4 DEF StartConfirmed, OnTrial
    <3>2. PICK i \in BindingIndex :
              /\ BindsFirmware(nvs.state, i, firmware.running)
              /\ nvs.state.bindings[i].package_present
              /\ instance'.slot = nvs.state.bindings[i].slot
              /\ instance'.package = nvs.state.bindings[i].package
      BY <2>2, <2>4 DEF StartConfirmed, StartInstance
    <3> QED BY <2>2, <3>1, <3>2 DEF InstanceInv, OnTrial, BindsFirmware
  <2> QED BY <2>1, <2>3, <2>4
<1> QED BY <1>1, <1>2, <1>3

(* An instance that runs in agreement with the record runs from bytes the  *)
(* record refers to.                                                       *)
LEMMA InstanceReferenced ==
    ASSUME InstanceInv, ReferencedBytesIntact, nvs.kind = "record"
    PROVE  InstanceBytesIntact
<1> SUFFICES ASSUME instance # NoInstance
             PROVE  flash[instance.slot] = instance.package \/ instance.slot \in decayed
  BY DEF InstanceBytesIntact
<1> DEFINE s == nvs.state
<1>1. CASE OnTrial(s)
  <2>1. Reference(s.operation) \in CandidateReferences(s)
    BY <1>1 DEF OnTrial, CandidateReferences, CompletePhases, PREPARED,
                TRIAL_STARTED, HEALTH_VERIFIED
  <2>2. Matches(Reference(s.operation)) \/ s.operation.slot \in decayed
    BY <2>1 DEF ReferencedBytesIntact, Reference
  <2>3. instance.slot = s.operation.slot /\ instance.package = s.operation.package
    BY <1>1 DEF InstanceInv
  <2> QED BY <2>2, <2>3 DEF Matches, Reference
<1>2. CASE ~OnTrial(s)
  <2>1. PICK i \in BindingIndex :
            /\ s.bindings[i].package_present
            /\ s.bindings[i].slot = instance.slot
            /\ s.bindings[i].package = instance.package
    BY <1>2 DEF InstanceInv
  <2>2. Reference(s.bindings[i]) \in ConfirmedReferences(s)
    BY <2>1 DEF ConfirmedReferences
  <2>3. Matches(Reference(s.bindings[i])) \/ s.bindings[i].slot \in decayed
    BY <2>2 DEF ReferencedBytesIntact, Reference
  <2> QED BY <2>1, <2>3 DEF Matches, Reference
<1> QED BY <1>1, <1>2

(* A running instance is always the one the durable record describes: a    *)
(* trial while its trial is under way, the running firmware's confirmed    *)
(* package otherwise.                                                      *)
THEOREM InstanceAlways == Spec => []InstanceInv
<1>1. Init => InstanceInv
  BY DEF Init, InstanceInv
<1>2. Sound /\ CallInv /\ InstanceInv /\ [Next]_vars => InstanceInv'
  BY NextInstance
<1> QED BY <1>1, <1>2, SoundAlways, CallAlways, PTL DEF Spec

(* No reservation, erase or write takes the slot of a running instance     *)
(* away from it.                                                           *)
THEOREM InstanceBytesSafe == Spec => []InstanceBytesIntact
<1>1. Init => InstanceBytesIntact
  BY DEF Init, InstanceBytesIntact
<1>2. InstanceInv /\ ReferencedBytesIntact /\ nvs.kind = "record" => InstanceBytesIntact
  BY InstanceReferenced
<1>3. /\ Sound /\ BytesInv /\ InstanceBytesIntact /\ [Next]_vars
      /\ ~(nvs.kind = "record")'
      => InstanceBytesIntact'
  <2> SUFFICES ASSUME Sound, BytesInv, InstanceBytesIntact, [Next]_vars,
                      nvs'.kind # "record", instance' # NoInstance
               PROVE  InstanceBytesIntact'
    BY DEF InstanceBytesIntact
  <2>1. instance' = instance
    BY InstanceChanged DEF StartTrial, StartConfirmed, StartInstance, Encoded, media
  <2>2. ~Erase /\ ~WriteChunk
    BY DEF Erase, WriteChunk, BytesInv, WritesReserved, Encoded
  <2>3. CASE UNCHANGED <<flash, decayed>>
    BY <2>1, <2>3 DEF InstanceBytesIntact
  <2>4. ASSUME NEW k \in Slots, Decay(k) PROVE InstanceBytesIntact'
    BY <2>1, <2>4 DEF InstanceBytesIntact, Decay, Sound, TypeOK, MediaType,
                      WorldType, Instance
  <2> QED BY <2>2, <2>3, <2>4, FlashChanged
<1> QED
  BY <1>1, <1>2, <1>3, SoundAlways, BytesAlways, BytesSafe, InstanceAlways, PTL DEF Spec

-----------------------------------------------------------------------------
(* Refinement.                                                             *)
(*                                                                         *)
(* The engine implements the promise of ProductUpdate, for every number of *)
(* clients, packages and firmwares and every combination of faults.  All   *)
(* steps but two leave what the product sees alone; the write of a blob is *)
(* one abstract step, which one the call that writes it decides, and loss  *)
(* of power is a reboot.                                                   *)

(* What is bound depends on the bindings only. *)
LEMMA BoundSame ==
    ASSUME NEW b, NEW c, b.state.bindings = c.state.bindings
    PROVE  BoundIn(b) = BoundIn(c)
BY DEF BoundIn, BoundFirmwares, BindsFirmware

(* The firmwares of a valid record. *)
LEMMA BoundDomain ==
    ASSUME NEW s \in State, StateValid(s)
    PROVE  BoundFirmwares(s) \subseteq Firmwares /\ BoundFirmwares(s) # {}
<1>1. ASSUME NEW i \in BindingIndex, s.bindings[i].present
      PROVE  s.bindings[i].firmware \in Firmwares
  <2>1. s.bindings[i] \in Binding /\ BindingValid(s.bindings[i])
    BY DEF State, StateValid
  <2>2. s.bindings[i].firmware # Zero
    BY <1>1, <2>1 DEF BindingValid, EmptyBinding
  <2> QED BY <2>1, <2>2 DEF Binding
<1>2. \E i \in BindingIndex : s.bindings[i].present
  BY DEF StateValid, BindingsConsistent, BindingIndex
<1>3. BoundFirmwares(s) # {}
  <2>1. PICK i \in BindingIndex : s.bindings[i].present
    BY <1>2
  <2>2. s.bindings[i].firmware \in BoundFirmwares(s)
    BY <2>1 DEF BoundFirmwares
  <2> QED BY <2>2
<1>4. BoundFirmwares(s) \subseteq Firmwares
  BY <1>1 DEF BoundFirmwares
<1> QED BY <1>3, <1>4

(* A firmware of a valid record has the package of its one binding. *)
LEMMA BoundPackage ==
    ASSUME NEW b, b.state \in State, StateValid(b.state),
           NEW i \in BindingIndex, b.state.bindings[i].present
    PROVE  LET f == b.state.bindings[i].firmware
           IN  /\ f \in BoundFirmwares(b.state)
               /\ BoundIn(b)[f] = IF b.state.bindings[i].package_present
                                  THEN {Claim(b.state.bindings[i])} ELSE {}
<1> DEFINE f == b.state.bindings[i].firmware
<1>1. f \in BoundFirmwares(b.state)
  BY DEF BoundFirmwares
<1>2. \A j \in BindingIndex : BindsFirmware(b.state, j, f) <=> j = i
  <2>1. BindsFirmware(b.state, i, f)
    BY DEF BindsFirmware
  <2> QED BY <2>1, OneBinding
<1>3. BoundIn(b)[f] = {Claim(b.state.bindings[j]) :
                          j \in {k \in BindingIndex : /\ BindsFirmware(b.state, k, f)
                                                      /\ b.state.bindings[k].package_present}}
  BY <1>1 DEF BoundIn
<1> HIDE DEF f
<1>4. BoundIn(b)[f] = IF b.state.bindings[i].package_present
                      THEN {Claim(b.state.bindings[i])} ELSE {}
  BY <1>2, <1>3
<1> QED BY <1>1, <1>4 DEF f

(* Every firmware a valid record binds has an index. *)
LEMMA BoundIndex ==
    ASSUME NEW s, NEW f \in BoundFirmwares(s)
    PROVE  \E i \in BindingIndex : s.bindings[i].present /\ s.bindings[i].firmware = f
BY DEF BoundFirmwares

-----------------------------------------------------------------------------
(* The abstract step each write is. *)

Genuine == {TrueClaim(p) : p \in Trusted}

(* initialize installs. *)
LEMMA InstallStep ==
    ASSUME NEW b, b.state \in State, StateValid(b.state), Installs(b.state)
    PROVE  /\ BoundIn(b) \in [BoundFirmwares(b.state) -> {{}} \cup {{k} : k \in Genuine}]
           /\ UpdateIn(b) = [stage |-> "none"]
<1>1. ASSUME NEW f \in BoundFirmwares(b.state)
      PROVE  BoundIn(b)[f] \in {{}} \cup {{k} : k \in Genuine}
  <2>1. PICK i \in BindingIndex : /\ b.state.bindings[i].present
                                  /\ b.state.bindings[i].firmware = f
    BY BoundIndex
  <2>2. BoundIn(b)[f] = IF b.state.bindings[i].package_present
                        THEN {Claim(b.state.bindings[i])} ELSE {}
    BY <2>1, BoundPackage
  <2>3. b.state.bindings[i].package_present => Claim(b.state.bindings[i]) \in Genuine
    BY InstallationAssumption DEF Installs, Genuine
  <2> QED BY <2>2, <2>3
<1>2. BoundIn(b) \in [BoundFirmwares(b.state) -> {{}} \cup {{k} : k \in Genuine}]
  <2>1. BoundIn(b) = [f \in BoundFirmwares(b.state) |-> BoundIn(b)[f]]
    BY DEF BoundIn
  <2> QED BY <1>1, <2>1
<1>3. UpdateIn(b) = [stage |-> "none"]
  BY DEF Installs, UpdateIn, PendingPhases, IDLE, WRITING, PREPARED, TRIAL_STARTED,
         HEALTH_VERIFIED
<1> QED BY <1>2, <1>3

(* confirm gives the running firmware the candidate and leaves the others. *)
LEMMA AdoptStep ==
    ASSUME NEW b, NEW c, b.state \in State, StateValid(b.state),
           c.state \in State, StateValid(c.state), Confirms(b.state, c.state)
    PROVE  BoundIn(c) = [BoundIn(b) EXCEPT ![firmware.running] = {Claim(b.state.operation)}]
<1> DEFINE s == b.state
           t == c.state
<1>1. t.bindings = Rebound(s)
  BY DEF Confirms
<1>2. \A i \in BindingIndex : /\ t.bindings[i].present = s.bindings[i].present
                              /\ t.bindings[i].firmware = s.bindings[i].firmware
  BY <1>1, ReboundBinding
<1>3. BoundFirmwares(t) = BoundFirmwares(s)
  BY <1>2 DEF BoundFirmwares
<1>4. /\ BoundIn(b) = [f \in BoundFirmwares(s) |-> BoundIn(b)[f]]
      /\ BoundIn(c) = [f \in BoundFirmwares(s) |-> BoundIn(c)[f]]
  BY <1>3 DEF BoundIn
<1>5. ASSUME NEW f \in BoundFirmwares(s)
      PROVE  BoundIn(c)[f] = IF f = firmware.running
                             THEN {Claim(s.operation)} ELSE BoundIn(b)[f]
  <2>1. PICK i \in BindingIndex : s.bindings[i].present /\ s.bindings[i].firmware = f
    BY BoundIndex
  <2>2. BoundIn(b)[f] = IF s.bindings[i].package_present
                        THEN {Claim(s.bindings[i])} ELSE {}
    BY <2>1, BoundPackage
  <2>3. BoundIn(c)[f] = IF t.bindings[i].package_present
                        THEN {Claim(t.bindings[i])} ELSE {}
    BY <1>2, <2>1, BoundPackage
  <2>4. CASE f = firmware.running
    <3>1. BindsFirmware(s, i, firmware.running)
      BY <2>1, <2>4 DEF BindsFirmware
    <3>2. t.bindings[i].package_present /\ Claim(t.bindings[i]) = Claim(s.operation)
      BY <1>1, <3>1, ReboundBinding
    <3> QED BY <2>3, <2>4, <3>2
  <2>5. CASE f # firmware.running
    <3>1. ~BindsFirmware(s, i, firmware.running)
      BY <2>1, <2>5 DEF BindsFirmware
    <3>2. t.bindings[i] = s.bindings[i]
      BY <1>1, <3>1, ReboundBinding
    <3> QED BY <2>2, <2>3, <2>5, <3>2
  <2> QED BY <2>4, <2>5
<1> HIDE DEF s, t
<1>6. BoundIn(c) = [BoundIn(b) EXCEPT ![firmware.running] = {Claim(s.operation)}]
  BY <1>4, <1>5
<1> QED BY <1>6 DEF s

(* What the update looks like in each phase. *)
LEMMA UpdateValues ==
    ASSUME NEW b
    PROVE  LET op == b.state.operation
           IN  /\ b.state.phase = WRITING =>
                     UpdateIn(b) = [stage |-> "proposed", target |-> op.target,
                                    what |-> Claim(op)]
               /\ b.state.phase = PREPARED =>
                     UpdateIn(b) = [stage |-> "qualified", target |-> op.target,
                                    what |-> Claim(op)]
               /\ b.state.phase = TRIAL_STARTED =>
                     UpdateIn(b) = [stage |-> "trying", target |-> op.target,
                                    what |-> Claim(op), since |-> op.trial_boot_id]
               /\ b.state.phase = HEALTH_VERIFIED =>
                     UpdateIn(b) = [stage |-> "passed", target |-> op.target,
                                    what |-> Claim(op), since |-> op.trial_boot_id]
               /\ b.state.phase \notin PendingPhases =>
                     UpdateIn(b) = [stage |-> "none"]
<1> USE DEF PendingPhases, WRITING, PREPARED, TRIAL_STARTED, HEALTH_VERIFIED
<1>1. /\ Stage(WRITING) = "proposed" /\ Stage(PREPARED) = "qualified"
      /\ Stage(TRIAL_STARTED) = "trying" /\ Stage(HEALTH_VERIFIED) = "passed"
  BY DEF Stage
<1>2. b.state.phase \notin PendingPhases => UpdateIn(b) = [stage |-> "none"]
  BY DEF UpdateIn
<1>3. b.state.phase \in {WRITING, PREPARED} =>
          UpdateIn(b) = [stage |-> Stage(b.state.phase),
                         target |-> b.state.operation.target,
                         what |-> Claim(b.state.operation)]
  BY DEF UpdateIn
<1>4. b.state.phase \in {TRIAL_STARTED, HEALTH_VERIFIED} =>
          UpdateIn(b) = [stage |-> Stage(b.state.phase),
                         target |-> b.state.operation.target,
                         what |-> Claim(b.state.operation),
                         since |-> b.state.operation.trial_boot_id]
  BY DEF UpdateIn
<1> QED BY <1>1, <1>2, <1>3, <1>4

(* A pending update is an update. *)
LEMMA PendingUpdate ==
    ASSUME NEW b, b.state.phase \in PendingPhases
    PROVE  UpdateIn(b) # [stage |-> "none"]
<1>1. b.state.phase \in {WRITING, PREPARED, TRIAL_STARTED, HEALTH_VERIFIED}
  BY DEF PendingPhases, WRITING, PREPARED, TRIAL_STARTED, HEALTH_VERIFIED
<1>2. UpdateIn(b).stage # "none"
  BY <1>1, UpdateValues
<1> QED BY <1>2

(* The write of a successor record is the abstract step of its call. *)
LEMMA SuccessorStep ==
    ASSUME RequestInv, EngineType, WorldType, UNCHANGED <<boot, firmware>>,
           nvs.kind = "record", nvs'.kind = "record",
           nvs.state \in State, StateValid(nvs.state),
           nvs'.state \in State, StateValid(nvs'.state),
           QualifiedRecord(nvs.state), Succeeds(nvs.state, nvs'.state)
    PROVE  Product!Next
<1> USE DEF PendingPhases, WRITING, PREPARED, TRIAL_STARTED, HEALTH_VERIFIED,
            CONFIRMED, ABORTED
<1> DEFINE s == nvs.state
           t == nvs'.state
<1>0. s.operation \in Operation /\ request.operation \in Operation
  BY DEF State, EngineType, Request
<1>f. UNCHANGED <<nvs.kind, boot, firmware.running>>
  OBVIOUS
<1>b. t.bindings = s.bindings => BoundIn(nvs)' = BoundIn(nvs)
  BY BoundSame
<1>1. CASE Reserves(s, t)
  <2> DEFINE k == Claim(t.operation)
  <2>1. /\ t.operation.target = firmware.running
        /\ Claim(t.operation) = Claim(request.operation)
        /\ t.operation.schema = request.operation.schema
    BY <1>0, <1>1 DEF Reserves, RequestInv, Operation, Claim
  <2>2. k \in Claims
    BY <1>1, <2>1 DEF Reserves, RequestInv
  <2>3. UpdateIn(nvs) = [stage |-> "none"]
    BY <1>1, UpdateValues DEF Reserves
  <2>4. UpdateIn(nvs)' = [stage |-> "proposed", target |-> firmware.running, what |-> k]
    BY <1>1, <2>1, UpdateValues DEF Reserves
  <2>5. PICK i \in BindingIndex :
            /\ BindsFirmware(s, i, firmware.running)
            /\ s.bindings[i].package_present =>
                   s.bindings[i].schema = request.operation.schema
    BY <1>1 DEF Reserves
  <2>6. /\ firmware.running \in BoundFirmwares(s)
        /\ BoundIn(nvs)[firmware.running] =
               IF s.bindings[i].package_present THEN {Claim(s.bindings[i])} ELSE {}
    BY <2>5, BoundPackage DEF BindsFirmware
  <2>7. firmware.running \in DOMAIN BoundIn(nvs)
    BY <2>6 DEF BoundIn
  <2>8. \A old \in BoundIn(nvs)[firmware.running] : old.schema = k.schema
    BY <2>1, <2>5, <2>6 DEF Claim
  <2>9. BoundIn(nvs)' = BoundIn(nvs)
    BY <1>1, <1>b DEF Reserves
  <2>10. Product!Propose(k)
    BY <1>f, <2>3, <2>4, <2>7, <2>8, <2>9 DEF Product!Propose, Product!None
  <2> QED BY <2>2, <2>10 DEF Product!Next
<1>2. CASE Prepares(s, t)
  <2>1. /\ UpdateIn(nvs) = [stage |-> "proposed", target |-> s.operation.target,
                            what |-> Claim(s.operation)]
        /\ UpdateIn(nvs)' = [stage |-> "qualified", target |-> s.operation.target,
                             what |-> Claim(s.operation)]
    BY <1>2, UpdateValues DEF Prepares
  <2>2. Claim(s.operation) \in Genuine
    BY <1>2 DEF Prepares, Qualified, Genuine
  <2>3. BoundIn(nvs)' = BoundIn(nvs)
    BY <1>2, <1>b DEF Prepares
  <2>4. Product!Qualify
    BY <1>f, <2>1, <2>2, <2>3 DEF Product!Qualify, Genuine
  <2> QED BY <2>4 DEF Product!Next
<1>3. CASE Tries(s, t)
  <2>0. /\ t.operation.target = s.operation.target
        /\ t.operation.trial_boot_id = boot
        /\ Claim(t.operation) = Claim(s.operation)
    BY <1>0, <1>3 DEF Tries, Operation, Claim
  <2>p. /\ s.phase = PREPARED /\ t.phase = TRIAL_STARTED
        /\ s.operation.target = firmware.running
    BY <1>3 DEF Tries
  <2>1. /\ UpdateIn(nvs) = [stage |-> "qualified", target |-> firmware.running,
                            what |-> Claim(s.operation)]
        /\ UpdateIn(nvs)' = [stage |-> "trying", target |-> firmware.running,
                             what |-> Claim(s.operation), since |-> boot]
    BY <2>0, <2>p, UpdateValues
  <2>2. BoundIn(nvs)' = BoundIn(nvs)
    BY <1>3, <1>b DEF Tries
  <2>3. Product!Try
    BY <1>f, <2>1, <2>2 DEF Product!Try
  <2> QED BY <2>3 DEF Product!Next
<1>4. CASE Passes(s, t)
  <2>1. /\ UpdateIn(nvs) = [stage |-> "trying", target |-> s.operation.target,
                            what |-> Claim(s.operation), since |-> boot]
        /\ UpdateIn(nvs)' = [stage |-> "passed", target |-> s.operation.target,
                             what |-> Claim(s.operation), since |-> boot]
    BY <1>4, UpdateValues DEF Passes
  <2>2. BoundIn(nvs)' = BoundIn(nvs)
    BY <1>4, <1>b DEF Passes
  <2>3. Product!Pass
    BY <1>f, <2>1, <2>2 DEF Product!Pass
  <2> QED BY <2>3 DEF Product!Next
<1>5. CASE Confirms(s, t)
  <2>1. /\ UpdateIn(nvs) = [stage |-> "passed", target |-> firmware.running,
                            what |-> Claim(s.operation), since |-> boot]
        /\ UpdateIn(nvs)' = [stage |-> "none"]
    BY <1>5, UpdateValues DEF Confirms, ConfirmRefusal
  <2>2. BoundIn(nvs)' =
            [BoundIn(nvs) EXCEPT ![firmware.running] = {Claim(s.operation)}]
    BY <1>5, AdoptStep
  <2>3. Product!Adopt
    BY <1>f, <2>1, <2>2 DEF Product!Adopt, Product!None
  <2> QED BY <2>3 DEF Product!Next
<1>6. CASE Abandons(s, t)
  <2>1. s.phase \in PendingPhases
    BY <1>6 DEF Abandons, AbandonRefusal
  <2>2. UpdateIn(nvs) # [stage |-> "none"] /\ UpdateIn(nvs)' = [stage |-> "none"]
    BY <1>6, <2>1, PendingUpdate, UpdateValues DEF Abandons
  <2>3. BoundIn(nvs)' = BoundIn(nvs)
    BY <1>6, <1>b DEF Abandons
  <2>4. Product!Discard
    BY <1>f, <2>2, <2>3 DEF Product!Discard, Product!None
  <2> QED BY <2>4 DEF Product!Next
<1> QED BY <1>1, <1>2, <1>3, <1>4, <1>5, <1>6 DEF Succeeds

(* Every step of the engine and its surroundings is a step of the abstract *)
(* store or leaves what the product sees alone.                            *)
LEMMA StepRefines ==
    ASSUME Sound, CallInv, RecordInv, [Next]_vars
    PROVE  [Product!Next]_(Product!vars)
<1>0. firmware.running \in Firmwares /\ boot \in Nat
  BY EngineAssumption DEF Sound, TypeOK, WorldType
<1>1. CASE UNCHANGED <<nvs, boot, firmware>>
  BY <1>1 DEF Product!vars, BoundIn, UpdateIn, BoundFirmwares, BindsFirmware
<1>2. CASE nvs' # nvs /\ nvs'.kind # "record"
  <2>1. nvs' = Damaged /\ UNCHANGED <<boot, firmware>>
    <3>1. WriteBlob
      BY <1>2, OnlyWriteBlob
    <3>2. nvs' \in {nvs, Encoded(next), Damaged} /\ UNCHANGED <<boot, firmware>>
      BY <3>1 DEF WriteBlob, world
    <3>3. Encoded(next).kind = "record"
      BY DEF Encoded
    <3> QED BY <1>2, <3>2, <3>3
  <2>2. Damaged.state.phase = IDLE /\ Damaged.state.bindings = NoBindings
    BY DEF Damaged, ZeroState
  <2>3. BoundFirmwares(Damaged.state) = {}
    BY <2>2 DEF BoundFirmwares, NoBindings, EmptyBinding
  <2>4. BoundIn(Damaged) = Product!Nothing
    BY <2>3 DEF BoundIn, Product!Nothing
  <2>5. UpdateIn(Damaged) = [stage |-> "none"]
    BY <2>2, UpdateValues DEF PendingPhases, IDLE, WRITING, HEALTH_VERIFIED
  <2>6. Product!Lose
    BY <2>1, <2>4, <2>5 DEF Product!Lose, Product!None, Damaged
  <2> QED BY <2>6 DEF Product!Next
<1>3. CASE nvs' # nvs /\ nvs'.kind = "record"
  <2>1. /\ nvs'.state = next /\ next \in State /\ StateValid(next)
        /\ UNCHANGED <<boot, firmware>>
        /\ \/ nvs = Absent /\ Installs(next)
           \/ /\ nvs.kind = "record" /\ nvs.state = current
              /\ current \in State /\ StateValid(current)
              /\ Succeeds(current, next)
    BY <1>3, RecordReplaced
  <2>2. CASE nvs = Absent /\ Installs(next)
    <3>1. Absent.state.phase = IDLE
      BY DEF Absent, ZeroState
    <3>2. UpdateIn(nvs) = [stage |-> "none"]
      BY <2>2, <3>1, UpdateValues DEF PendingPhases, IDLE, WRITING, HEALTH_VERIFIED
    <3>3. /\ BoundIn(nvs') \in [BoundFirmwares(nvs'.state) ->
                                    {{}} \cup {{k} : k \in Genuine}]
          /\ UpdateIn(nvs') = [stage |-> "none"]
      BY <2>1, <2>2, InstallStep
    <3>4. BoundFirmwares(nvs'.state) \in (SUBSET Firmwares) \ {{}}
      BY <2>1, BoundDomain
    <3>5. Product!Install
      BY <1>3, <2>1, <2>2, <3>2, <3>3, <3>4 DEF Product!Install, Absent, Genuine
    <3> QED BY <3>5 DEF Product!Next
  <2>3. CASE /\ nvs.kind = "record" /\ nvs.state = current
             /\ current \in State /\ StateValid(current)
             /\ Succeeds(current, next)
    <3>1. RequestInv /\ EngineType /\ WorldType /\ QualifiedRecord(current)
      BY <2>3 DEF CallInv, Sound, TypeOK, RecordInv
    <3> QED BY <1>3, <2>1, <2>3, <3>1, SuccessorStep
  <2> QED BY <2>1, <2>2, <2>3
<1>4. CASE <<boot, firmware>>' # <<boot, firmware>>
  <2>1. PowerCycle
    <3>1. ASSUME NEW op, NEW refusal, NEW regions, NEW after,
                 Transition(op, refusal, regions, after)
          PROVE  UNCHANGED world
      BY <3>1 DEF Transition
    <3>2. EngineStep => UNCHANGED world
      BY <3>1 DEF EngineStep, Initialize, Load, Reconcile, Reserve, WriteAndPrepare,
         Erase, WriteChunk, WriteDone, Verify, BeginTrial, MarkHealthy, Confirm,
         Abandon, WriteBlob, ReadBack
    <3>3. ASSUME NEW c \in Clients, ClientStep(c) PROVE UNCHANGED <<boot, firmware>>
      BY <3>3 DEF ClientStep, CallInitialize, CallLoad, CallReconcile, CallReserve,
         CallWriteAndPrepare, CallBeginTrial, CallMarkHealthy, CallConfirm,
         CallAbandon, RefuseLoad, RefuseReconcile, StartTrial, StartConfirmed,
         StartInstance, Call, world
    <3> QED BY <1>4, <3>2, <3>3 DEF Next, vars, StopInstance, Decay, world
  <2>2. boot' = boot + 1 /\ nvs' = nvs /\ firmware'.running \in Firmwares
    BY <2>1, EngineAssumption DEF PowerCycle, media
  <2>3. BoundIn(nvs)' = BoundIn(nvs) /\ UpdateIn(nvs)' = UpdateIn(nvs)
    BY <2>2 DEF BoundIn, UpdateIn, BoundFirmwares, BindsFirmware
  <2>4. Product!Reboot
    BY <2>2, <2>3 DEF Product!Reboot
  <2> QED BY <2>4 DEF Product!Next
<1> QED BY <1>1, <1>2, <1>3, <1>4

(* The first boot finds the abstract store empty. *)
LEMMA InitRefines ==
    ASSUME Init
    PROVE  Product!Init
<1>1. nvs.state.phase = IDLE /\ nvs.state.bindings = NoBindings /\ nvs.kind = "absent"
  BY DEF Init, Absent, ZeroState
<1>2. BoundFirmwares(nvs.state) = {}
  BY <1>1 DEF BoundFirmwares, NoBindings, EmptyBinding
<1>3. BoundIn(nvs) = Product!Nothing
  BY <1>2 DEF BoundIn, Product!Nothing
<1>4. UpdateIn(nvs) = [stage |-> "none"]
  BY <1>1, UpdateValues DEF PendingPhases, IDLE, WRITING, HEALTH_VERIFIED
<1>5. boot = 1 /\ firmware.running \in Firmwares
  BY EngineAssumption DEF Init
<1> QED BY <1>1, <1>3, <1>4, <1>5 DEF Product!Init, Product!None

(* Every behaviour of the engine is a behaviour of the abstract store: a   *)
(* call takes effect in the one step in which NVS replaces its blob, or    *)
(* not at all, whoever else calls, whatever fails and wherever power is    *)
(* lost.                                                                   *)
THEOREM EngineImplementsProduct == Spec => RefinesProduct
<1>1. Init => Product!Init
  BY InitRefines
<1>2. Sound /\ CallInv /\ RecordInv /\ [Next]_vars => [Product!Next]_(Product!vars)
  BY StepRefines
<1> QED BY <1>1, <1>2, SoundAlways, CallAlways, RecordAlways, PTL
        DEF Spec, RefinesProduct, Product!Spec
=============================================================================
