------------------------------- MODULE Slots -------------------------------
(***************************************************************************)
(* The storage transaction engine of slots.c.  Several client tasks call   *)
(* its operations; every call takes a try-lock, loads the one durable      *)
(* record, compares its sequence number with the one the client last saw,  *)
(* hashes the flash the record refers to and writes the successor record.  *)
(* Between any two accesses to NVS or flash the power may fail.            *)
(*                                                                         *)
(* Outside src/ are the storage media, the product (which decides what to  *)
(* call, and validates packages) and the executor that runs instances of   *)
(* packages; they are modelled by what slots.c and esp_container_slots.h   *)
(* say of them.                                                            *)
(***************************************************************************)
EXTENDS SlotRecord

CONSTANTS
    Clients,        \* tasks that call the engine
    NoClient,       \* the owner of a free lock
    Garbage,        \* content of a slot that is no package: erased, partial, damaged
    Info,           \* package -> what it really is: [size, abi, schema]
    Trusted,        \* packages that pass signature, profile and grant checks
    Claims,         \* what clients ask to install: [package, size, abi, schema]
    Installations,  \* bindings the product may pass to initialize
    InitialFlash,   \* content of the slots at first boot
    FirmwareSets,   \* firmware situations a boot may find: [bootable, running]
    MaxBoots,       \* bound on the number of boots
    Faults          \* kinds of failure that can happen

FaultKinds ==
    {"nvs_read", "nvs_write", "nvs_damage", "flash_read", "flash_write",
     "decay", "power"}

Content == Packages \cup {Garbage}

ASSUME EngineAssumption ==
    /\ NoClient \notin Clients
    /\ Garbage \notin Packages
    /\ Info \in [Packages -> [size : Nat \ {0}, abi : Nat \ {0}, schema : Nat \ {0}]]
    /\ Trusted \subseteq Packages
    /\ Claims \subseteq [package : Packages, size : Nat \ {0}, abi : Nat \ {0},
                         schema : Nat \ {0}]
    /\ Installations \subseteq [BindingIndex -> Binding]
    /\ InitialFlash \in [Slots -> Content]
    /\ FirmwareSets \subseteq [bootable : SUBSET Firmwares, running : Firmwares]
    /\ \A f \in FirmwareSets : f.running \in f.bootable   \* firmware_set_valid
    /\ MaxBoots \in Nat \ {0}
    /\ Faults \subseteq FaultKinds

(* What a package is, in the form a binding or an operation claims it. *)
TrueClaim(p) ==
    [package |-> p, size |-> Info[p].size, abi |-> Info[p].abi,
     schema |-> Info[p].schema]

(* The product installs by hand only what it would also accept by download. *)
ASSUME InstallationAssumption ==
    \A b \in Installations : \A i \in BindingIndex :
        b[i].package_present =>
            b[i].package \in Trusted /\ Claim(b[i]) = TrueClaim(b[i].package)

VARIABLES
    nvs,        \* the blob in NVS
    flash,      \* content of each slot
    decayed,    \* history: slots the medium has damaged since their last erase
    lock,       \* owner of the storage lock
    pc,         \* where the running call is
    request,    \* its arguments
    current,    \* its copy of the record it loaded
    next,       \* the record it is about to make durable
    committed,  \* what write_blob returned
    offset,     \* blocks written by the write loop
    result,     \* result of the last call that got the lock and has ended
    view,       \* per client: the state the engine last returned to it
    decision,   \* per client: the boot decision it was last given
    boot,       \* identifier of the current boot
    firmware,   \* what this boot found: bootable firmwares, the running one
    instance,   \* the instance the executor is running
    attested    \* history: the operation whose trial was seen to be healthy

media   == <<nvs, flash, decayed>>
engine  == <<lock, pc, request, current, next, committed, offset, result>>
clients == <<view, decision>>
world   == <<boot, firmware, instance, attested>>
vars    == <<media, engine, clients, world>>

Results ==
    {"OK", "EMPTY", "INVALID", "IO_FAILED", "UNCERTAIN", "BUSY", "NO_SPACE",
     "CONFLICT", "UNTRUSTED"}

Decisions ==
    {"BLOCKED", "CONFIRMED", "RECOVER_CONFIRMED",
     "RECOVER_CONFIRMED_CANDIDATE_INVALID"}

Operations ==
    {"initialize", "load", "reconcile", "reserve", "write_and_prepare",
     "begin_trial", "mark_healthy", "confirm", "abandon"}

Steps == {"idle", "begin", "erase", "write", "verify", "commit", "readback"}

NoRequest ==
    [op |-> "none", expected |-> 0, operation |-> EmptyOperation,
     bindings |-> NoBindings]

NoInstance == [kind |-> "none", id |-> Zero, slot |-> 0, package |-> Garbage]

Init ==
    /\ nvs = Absent
    /\ flash = InitialFlash
    /\ decayed = {}
    /\ lock = NoClient
    /\ pc = "idle"
    /\ request = NoRequest
    /\ current = ZeroState
    /\ next = ZeroState
    /\ committed = FALSE
    /\ offset = 0
    /\ result = "none"
    /\ view = [c \in Clients |-> ZeroState]
    /\ decision = [c \in Clients |-> "BLOCKED"]
    /\ boot = 1
    /\ firmware \in FirmwareSets
    /\ instance = NoInstance
    /\ attested = Zero

-----------------------------------------------------------------------------
(* Calls.  Arguments a public function refuses before it takes the lock    *)
(* change nothing and are left out; so do calls refused because the lock   *)
(* is taken, except that load and reconcile have then cleared their output.*)

Take(c, op, operation, bindings) ==
    /\ lock = NoClient
    /\ lock' = c
    /\ pc' = "begin"
    /\ request' = [op |-> op, expected |-> view[c].sequence,
                   operation |-> operation, bindings |-> bindings]
    /\ result' = "none"
    /\ UNCHANGED <<current, next, committed, offset, media>>

Call(c, op) ==
    /\ Take(c, op, EmptyOperation, NoBindings)
    /\ UNCHANGED clients

CallInitialize(c) ==
    /\ \E b \in Installations : Take(c, "initialize", EmptyOperation, b)
    /\ UNCHANGED <<clients, world>>

(* memset(state), *decision = BLOCKED come before the attempt to lock. *)
CallLoad(c) ==
    /\ Take(c, "load", EmptyOperation, NoBindings)
    /\ view' = [view EXCEPT ![c] = ZeroState]
    /\ UNCHANGED <<decision, world>>

CallReconcile(c) ==
    /\ Take(c, "reconcile", EmptyOperation, NoBindings)
    /\ view' = [view EXCEPT ![c] = ZeroState]
    /\ decision' = [decision EXCEPT ![c] = "BLOCKED"]
    /\ UNCHANGED world

RefuseLoad(c) ==
    /\ lock \notin {NoClient, c}
    /\ view' = [view EXCEPT ![c] = ZeroState]
    /\ UNCHANGED <<media, engine, decision, world>>

RefuseReconcile(c) ==
    /\ lock \notin {NoClient, c}
    /\ view' = [view EXCEPT ![c] = ZeroState]
    /\ decision' = [decision EXCEPT ![c] = "BLOCKED"]
    /\ UNCHANGED <<media, engine, world>>

(* The target has to be the running firmware, slot and boot id zero. *)
CallReserve(c) ==
    /\ \E id \in OperationIds, k \in Claims :
          Take(c, "reserve",
               [EmptyOperation EXCEPT
                   !.id = id, !.target = firmware.running, !.package = k.package,
                   !.size = k.size, !.abi = k.abi, !.schema = k.schema],
               NoBindings)
    /\ UNCHANGED <<clients, world>>

CallWriteAndPrepare(c) ==
    /\ Call(c, "write_and_prepare")
    /\ UNCHANGED world

(* "caller has already stopped/reclaimed the previous instance" *)
CallBeginTrial(c) ==
    /\ instance = NoInstance
    /\ Call(c, "begin_trial")
    /\ UNCHANGED world

(* A client reports health only of the trial it sees running. *)
CallMarkHealthy(c) ==
    /\ instance.kind = "trial"
    /\ Call(c, "mark_healthy")
    /\ attested' = instance.id
    /\ UNCHANGED <<boot, firmware, instance>>

CallConfirm(c) ==
    /\ Call(c, "confirm")
    /\ UNCHANGED world

CallAbandon(c) ==
    /\ Call(c, "abandon")
    /\ UNCHANGED world

-----------------------------------------------------------------------------
(* What every call is made of.  A relation "...Result(..., r)" says that r *)
(* is a possible result of the function of that name.                      *)

(* io->unlock and return: the locals of the call are gone. *)
Unlock(r) ==
    /\ lock' = NoClient
    /\ pc' = "idle"
    /\ result' = r
    /\ request' = NoRequest
    /\ current' = ZeroState
    /\ next' = ZeroState
    /\ committed' = FALSE
    /\ offset' = 0

LoadResult(r) ==
    \/ r = "IO_FAILED" /\ "nvs_read" \in Faults
    \/ r = "EMPTY"     /\ nvs.kind = "absent"
    \/ r = "INVALID"   /\ nvs.kind # "absent" /\ ~Decodes(nvs)
    \/ r = "OK"        /\ Decodes(nvs)

(* Mutant: the sequence number is not compared. *)
MutantBeginUnchecked(r) == LoadResult(r)

(* begin_locked: the record must be the one the client has seen. *)
BeginResult(r) ==
    \/ r # "OK" /\ LoadResult(r)
    \/ /\ LoadResult("OK")
       /\ r = IF nvs.state.sequence = request.expected THEN "OK" ELSE "CONFLICT"

(* The first x.size blocks of the slot have the digest x.package. *)
Matches(x) == flash[x.slot] = x.package /\ x.size = Info[x.package].size

(* hash_flash of one region after the other, up to the first failure. *)
HashResult(regions, r) ==
    \/ r = "IO_FAILED" /\ regions # {} /\ "flash_read" \in Faults
    \/ r = "UNTRUSTED" /\ \E x \in regions : ~Matches(x)
    \/ r = "OK"        /\ \A x \in regions : Matches(x)

(* What stands between taking the lock and the call's own work: refusal is *)
(* the call's reason not to proceed, regions the flash it wants hashed.    *)
GateResult(refusal, regions, r) ==
    \/ r # "OK" /\ BeginResult(r)
    \/ BeginResult("OK") /\ refusal # "OK" /\ r = refusal
    \/ BeginResult("OK") /\ refusal = "OK" /\ HashResult(regions, r)

(* Mutants: the check for the last sequence number is missing and the sum  *)
(* kept in a wider word than the record has for it; the increment is       *)
(* missing.                                                                *)
MutantCommitOverflows(before, after) ==
    LET successor == [after EXCEPT !.sequence = before.sequence + 1]
    IN  IF StateValid(successor)
        THEN /\ pc' = "commit" /\ current' = before /\ next' = successor
             /\ UNCHANGED <<lock, request, committed, offset, result>>
        ELSE Unlock("INVALID")

MutantCommitSameSequence(before, after) ==
    IF StateValid(after)
    THEN /\ pc' = "commit" /\ current' = before /\ next' = after
         /\ UNCHANGED <<lock, request, committed, offset, result>>
    ELSE Unlock("INVALID")

(* commit_next: the successor record, refused unless it is valid itself.   *)
(* The lock is given back or persist_locked comes next.                    *)
CommitNext(before, after) ==
    LET successor == [after EXCEPT !.sequence = before.sequence + 1]
        refused   == before.sequence = MaxSequence \/ ~StateValid(successor)
    IN  \/ /\ refused
           /\ Unlock("INVALID")
        \/ /\ ~refused
           /\ pc' = "commit"
           /\ current' = before
           /\ next' = successor
           /\ UNCHANGED <<lock, request, committed, offset, result>>

(* The calls that only move the record from one phase to the next. *)
Transition(op, refusal, regions, after) ==
    /\ pc = "begin" /\ request.op = op
    /\ \E r \in Results :
          /\ GateResult(refusal, regions, r)
          /\ IF r = "OK" THEN CommitNext(nvs.state, after) ELSE Unlock(r)
    /\ UNCHANGED <<media, clients, world>>

(* persist_locked, first half: NVS replaces one key atomically, but may    *)
(* report failure of a write that took place, and the blob may be damaged. *)
WriteBlob ==
    /\ pc = "commit"
    /\ pc' = "readback"
    /\ \/ nvs' = Encoded(next) /\ committed' = TRUE
       \/ /\ "nvs_write" \in Faults
          /\ nvs' \in {nvs, Encoded(next)} /\ committed' = FALSE
       \/ /\ "nvs_damage" \in Faults
          /\ nvs' = Damaged /\ committed' \in BOOLEAN
    /\ UNCHANGED <<flash, decayed, lock, request, current, next, offset,
                   result, clients, world>>

(* Mutant: the return value of write_blob is believed without a read back. *)
MutantReadBackTrusting(r) == r = IF committed THEN "OK" ELSE "IO_FAILED"

(* persist_locked, second half: what is in NVS decides, not the return     *)
(* value alone.  initialize has no old record and no output state.         *)
ReadBackResult(r) ==
    LET fresh == request.op = "initialize"
    IN  \/ r = "UNCERTAIN" /\ "nvs_read" \in Faults
        \/ r = "OK" /\ nvs = Encoded(next) /\ committed
        \/ r = "UNCERTAIN" /\ nvs = Encoded(next) /\ ~committed
        \/ r = "IO_FAILED" /\ nvs = Encoded(current) /\ ~fresh
        \/ /\ r = "UNCERTAIN"
           /\ nvs # Encoded(next)
           /\ nvs # Encoded(current) \/ fresh

ReadBack ==
    /\ pc = "readback"
    /\ \E r \in Results :
          /\ ReadBackResult(r)
          /\ view' = IF r = "OK" /\ request.op # "initialize"
                     THEN [view EXCEPT ![lock] = next] ELSE view
          /\ Unlock(r)
    /\ UNCHANGED <<media, decision, world>>

-----------------------------------------------------------------------------
(* The operations, from the moment they hold the lock. *)

(* Mutant: a record that does not decode is taken for an empty store. *)
MutantInitializeOverDamage ==
    LET initial == [ZeroState EXCEPT !.sequence = 1, !.bindings = request.bindings]
    IN  /\ pc = "begin" /\ request.op = "initialize"
        /\ \/ LoadResult("OK") /\ Unlock("CONFLICT")
           \/ /\ ~LoadResult("OK")
              /\ StateValid(initial)
              /\ pc' = "commit" /\ next' = initial
              /\ UNCHANGED <<lock, request, current, committed, offset, result>>
           \/ ~LoadResult("OK") /\ ~StateValid(initial) /\ Unlock("INVALID")
        /\ UNCHANGED <<media, clients, world>>

Initialize ==
    LET initial == [ZeroState EXCEPT !.sequence = 1, !.bindings = request.bindings]
        sound   == StateValid(initial) /\ BoundFirmwares(initial) = firmware.bootable
    IN  /\ pc = "begin" /\ request.op = "initialize"
        /\ \/ \E r \in Results \ {"EMPTY"} :
                 /\ LoadResult(r)
                 /\ Unlock(IF r = "OK" THEN "CONFLICT" ELSE r)
           \/ LoadResult("EMPTY") /\ ~sound /\ Unlock("INVALID")
           \/ /\ LoadResult("EMPTY")
              /\ sound
              /\ \E r \in Results :
                    /\ HashResult(ConfirmedReferences(initial), r)
                    /\ \/ r # "OK" /\ Unlock(r)
                       \/ /\ r = "OK"
                          /\ pc' = "commit"
                          /\ next' = initial
                          /\ UNCHANGED <<lock, request, current, committed,
                                         offset, result>>
        /\ UNCHANGED <<media, clients, world>>

Load ==
    /\ pc = "begin" /\ request.op = "load"
    /\ \E r \in Results :
          /\ LoadResult(r)
          /\ view' = IF r = "OK" THEN [view EXCEPT ![lock] = nvs.state] ELSE view
          /\ Unlock(r)
    /\ UNCHANGED <<media, decision, world>>

(* Mutant: a pending operation is not reported unless it was being tried. *)
MutantDecisionForgetsPending(s, candidate) ==
    CASE candidate # "OK" -> "RECOVER_CONFIRMED_CANDIDATE_INVALID"
      [] candidate = "OK" /\ s.phase \in TRIAL_STARTED..HEALTH_VERIFIED -> "RECOVER_CONFIRMED"
      [] candidate = "OK" /\ s.phase \notin TRIAL_STARTED..HEALTH_VERIFIED -> "CONFIRMED"

(* Mutant: what hashing the candidate has shown is not looked at. *)
MutantDecisionTrusting(s, candidate) ==
    IF s.phase \in PendingPhases THEN "RECOVER_CONFIRMED" ELSE "CONFIRMED"

(* What the startup path may do, given the result of hashing a candidate. *)
BootDecision(s, candidate) ==
    CASE candidate # "OK" -> "RECOVER_CONFIRMED_CANDIDATE_INVALID"
      [] candidate = "OK" /\ s.phase \in PendingPhases    -> "RECOVER_CONFIRMED"
      [] candidate = "OK" /\ s.phase \notin PendingPhases -> "CONFIRMED"

(* A damaged candidate is reported, but does not stop the confirmed package. *)
Reconcile ==
    LET s       == nvs.state
        matches == BoundFirmwares(s) = firmware.bootable
    IN  /\ pc = "begin" /\ request.op = "reconcile"
        /\ \/ \E r \in Results \ {"OK"} :
                 /\ \/ LoadResult(r)
                    \/ LoadResult("OK") /\ ~matches /\ r = "CONFLICT"
                    \/ LoadResult("OK") /\ matches /\ HashResult(ConfirmedReferences(s), r)
                 /\ Unlock(r)
                 /\ UNCHANGED clients
           \/ /\ LoadResult("OK")
              /\ matches
              /\ HashResult(ConfirmedReferences(s), "OK")
              /\ \E r \in Results :
                    /\ HashResult(CandidateReferences(s), r)
                    /\ view' = [view EXCEPT ![lock] = s]
                    /\ decision' = [decision EXCEPT ![lock] = BootDecision(s, r)]
                    /\ Unlock(r)
        /\ UNCHANGED <<media, world>>

(* Mutant: the schema of the replaced package is not looked at. *)
MutantReserveAnySchema(s) ==
    IF /\ BoundFirmwares(s) = firmware.bootable
       /\ \E i \in BindingIndex : BindsFirmware(s, i, firmware.running)
    THEN "OK" ELSE "CONFLICT"

(* The bootable firmwares must be the bound ones, and an update keeps the  *)
(* data schema of the package it replaces.                                 *)
ReserveRefusal(s) ==
    IF /\ BoundFirmwares(s) = firmware.bootable
       /\ \E i \in BindingIndex :
             /\ BindsFirmware(s, i, firmware.running)
             /\ s.bindings[i].package_present =>
                    s.bindings[i].schema = request.operation.schema
    THEN "OK" ELSE "CONFLICT"

(* Mutant: only the first binding protects its slot. *)
MutantFreeSlotsOneBinding(s, size) ==
    {k \in Slots : /\ s.bindings[0].package_present => s.bindings[0].slot # k
                   /\ size <= SlotSize[k]}

(* Slots no confirmed package needs and that are large enough. *)
FreeSlots(s, size) ==
    {k \in Slots : /\ \A i \in BindingIndex :
                         s.bindings[i].package_present => s.bindings[i].slot # k
                   /\ size <= SlotSize[k]}

(* Mutant: a reservation may replace a pending operation. *)
MutantReserveOverPending(s, op) ==
    IF s.phase # IDLE /\ s.operation.id = op.id THEN "BUSY"
    ELSE IF FreeSlots(s, op.size) = {} THEN "NO_SPACE" ELSE "OK"

(* The answer to a reservation once the references have been checked. *)
ReserveVerdict(s, op) ==
    LET repeated == s.phase # IDLE /\ s.operation.id = op.id
        same     == s.operation.target = op.target /\ Claim(s.operation) = Claim(op)
    IN  CASE repeated /\ same  -> "BUSY"
          [] repeated /\ ~same -> "CONFLICT"
          [] ~repeated /\ s.phase \in PendingPhases -> "BUSY"
          [] ~repeated /\ s.phase \notin PendingPhases ->
                 IF FreeSlots(s, op.size) = {} THEN "NO_SPACE" ELSE "OK"

Reserve ==
    LET s       == nvs.state
        op      == request.operation
        verdict == ReserveVerdict(s, op)
        free    == FreeSlots(s, op.size)
    IN  /\ pc = "begin" /\ request.op = "reserve"
        /\ \E r \in Results :
              /\ GateResult(ReserveRefusal(s),
                            ConfirmedReferences(s) \cup CandidateReferences(s), r)
              /\ \/ r # "OK" /\ Unlock(r)
                 \/ r = "OK" /\ verdict # "OK" /\ Unlock(verdict)
                 \/ /\ r = "OK" /\ verdict = "OK"
                    /\ \E k \in free :
                          /\ \A j \in free : k <= j
                          /\ CommitNext(s, [s EXCEPT
                                 !.phase = WRITING,
                                 !.operation = [op EXCEPT !.slot = k]])
        /\ UNCHANGED <<media, clients, world>>

-----------------------------------------------------------------------------
(* write_and_prepare: check, erase, write block by block, verify, commit. *)

(* Mutant: a slot that already holds its candidate may be written again. *)
MutantRewritePrepared(s) ==
    IF s.phase \in {WRITING, PREPARED} THEN "OK" ELSE "CONFLICT"

WriteRefusal(s) == IF s.phase = WRITING THEN "OK" ELSE "CONFLICT"

WriteAndPrepare ==
    /\ pc = "begin" /\ request.op = "write_and_prepare"
    /\ \E r \in Results :
          /\ GateResult(WriteRefusal(nvs.state), ConfirmedReferences(nvs.state), r)
          /\ \/ r # "OK" /\ Unlock(r)
             \/ /\ r = "OK"
                /\ pc' = "erase"
                /\ current' = nvs.state
                /\ UNCHANGED <<lock, request, next, committed, offset, result>>
    /\ UNCHANGED <<media, clients, world>>

(* Mutant: the slot is taken from the request, not from the reservation. *)
MutantEraseRequested ==
    /\ pc = "erase"
    /\ flash' = [flash EXCEPT ![request.operation.slot] = Garbage]
    /\ decayed' = decayed \ {request.operation.slot}
    /\ pc' = "write"
    /\ UNCHANGED <<nvs, lock, request, current, next, committed, offset, result,
                   clients, world>>

(* A failed erase may have begun its work. *)
Erase ==
    LET k == current.operation.slot
    IN  /\ pc = "erase"
        /\ \/ /\ flash' = [flash EXCEPT ![k] = Garbage]
              /\ decayed' = decayed \ {k}
              /\ pc' = "write"
              /\ UNCHANGED <<lock, request, current, next, committed, offset, result>>
           \/ /\ "flash_write" \in Faults
              /\ \/ UNCHANGED <<flash, decayed>>
                 \/ /\ flash' = [flash EXCEPT ![k] = Garbage]
                    /\ decayed' = decayed \ {k}
              /\ Unlock("IO_FAILED")
        /\ UNCHANGED <<nvs, clients, world>>

(* Mutant: the loop does not advance. *)
MutantChunkStuck ==
    /\ pc = "write" /\ offset < current.operation.size
    /\ UNCHANGED vars

(* One turn of the loop.  A slot holds nothing recognizable until its last *)
(* block is written, and then whatever the source has supplied.            *)
WriteChunk ==
    LET op == current.operation
    IN  /\ pc = "write" /\ offset < op.size
        /\ IF offset + 1 = op.size
           THEN \E supplied \in {p \in Packages : Info[p].size = op.size} \cup {Garbage} :
                   flash' = [flash EXCEPT ![op.slot] = supplied]
           ELSE flash' = flash
        /\ \/ /\ offset' = offset + 1
              /\ UNCHANGED <<lock, pc, request, current, next, committed, result>>
           \/ /\ "flash_write" \in Faults
              /\ Unlock("IO_FAILED")
        /\ UNCHANGED <<nvs, decayed, clients, world>>

WriteDone ==
    /\ pc = "write" /\ offset >= current.operation.size
    /\ pc' = "verify"
    /\ UNCHANGED <<lock, request, current, next, committed, offset, result,
                   media, clients, world>>

(* validate_fn: the package parser and the product's own authorization,    *)
(* applied to the durable reservation and the bytes in flash. A read that  *)
(* fails while the imports are scanned is answered UNTRUSTED, any other    *)
(* IO_FAILED (ReadFailuresReported of PackageVerify).                      *)
ValidateResult(op, r) ==
    LET accepted == op.package \in Trusted /\ Claim(op) = TrueClaim(op.package)
    IN  \/ r = "IO_FAILED" /\ "flash_read" \in Faults
        \/ r = "UNTRUSTED" /\ (~accepted \/ "flash_read" \in Faults)
        \/ r = "OK" /\ accepted

(* Mutant: the digest alone qualifies a package. *)
MutantVerifyHashOnly ==
    LET op == current.operation
    IN  /\ pc = "verify"
        /\ \E r \in Results :
              /\ HashResult({Reference(op)}, r)
              /\ IF r = "OK"
                 THEN CommitNext(current, [current EXCEPT !.phase = PREPARED])
                 ELSE Unlock(r)
        /\ UNCHANGED <<media, clients, world>>

Verify ==
    LET op == current.operation
    IN  /\ pc = "verify"
        /\ \E r \in Results :
              \/ r # "OK" /\ HashResult({Reference(op)}, r) /\ Unlock(r)
              \/ /\ HashResult({Reference(op)}, "OK")
                 /\ ValidateResult(op, r)
                 /\ IF r = "OK"
                    THEN CommitNext(current, [current EXCEPT !.phase = PREPARED])
                    ELSE Unlock(r)
        /\ UNCHANGED <<media, clients, world>>

-----------------------------------------------------------------------------
(* Trial, health, confirmation, cancellation. *)

TrialRefusal(s) ==
    IF s.phase = PREPARED /\ s.operation.target = firmware.running
    THEN "OK" ELSE "CONFLICT"

BeginTrial ==
    LET s == nvs.state
    IN  Transition("begin_trial", TrialRefusal(s),
                   ConfirmedReferences(s) \cup CandidateReferences(s),
                   [s EXCEPT !.phase = TRIAL_STARTED,
                             !.operation.trial_boot_id = boot])

HealthRefusal(s) ==
    IF s.phase = TRIAL_STARTED /\ s.operation.trial_boot_id = boot
    THEN "OK" ELSE "CONFLICT"

MarkHealthy ==
    LET s == nvs.state
    IN  Transition("mark_healthy", HealthRefusal(s),
                   ConfirmedReferences(s) \cup CandidateReferences(s),
                   [s EXCEPT !.phase = HEALTH_VERIFIED])

(* Mutant: the health proof of an earlier boot is accepted. *)
MutantConfirmAnyBoot(s) ==
    IF s.phase = HEALTH_VERIFIED /\ s.operation.target = firmware.running
    THEN "OK" ELSE "CONFLICT"

ConfirmRefusal(s) ==
    IF /\ s.phase = HEALTH_VERIFIED
       /\ \E i \in BindingIndex : BindsFirmware(s, i, firmware.running)
       /\ s.operation.target = firmware.running
       /\ s.operation.trial_boot_id = boot
    THEN "OK" ELSE "CONFLICT"

(* Mutant: every present binding is redirected. *)
MutantReboundAll(s) ==
    [i \in BindingIndex |->
        IF s.bindings[i].present
        THEN [s.bindings[i] EXCEPT
                 !.package_present = TRUE, !.slot = s.operation.slot,
                 !.size = s.operation.size, !.package = s.operation.package,
                 !.abi = s.operation.abi, !.schema = s.operation.schema]
        ELSE s.bindings[i]]

(* The running firmware's binding becomes the operation's package. *)
Rebound(s) ==
    [i \in BindingIndex |->
        IF BindsFirmware(s, i, firmware.running)
        THEN [s.bindings[i] EXCEPT
                 !.package_present = TRUE,
                 !.slot    = s.operation.slot,
                 !.size    = s.operation.size,
                 !.package = s.operation.package,
                 !.abi     = s.operation.abi,
                 !.schema  = s.operation.schema]
        ELSE s.bindings[i]]

Confirm ==
    LET s == nvs.state
    IN  Transition("confirm", ConfirmRefusal(s),
                   ConfirmedReferences(s) \cup CandidateReferences(s),
                   [s EXCEPT !.phase = CONFIRMED, !.bindings = Rebound(s)])

(* trial_stopped_fn: asked of the executor, under the storage lock. *)
TrialStopped(id) == ~(instance.kind = "trial" /\ instance.id = id)

(* Mutant: the executor is not asked whether the trial has stopped. *)
MutantAbandonRunning(s) ==
    IF s.phase \in PendingPhases THEN "OK" ELSE "CONFLICT"

(* Mutant: like mark_healthy, only in the boot of the trial. *)
MutantAbandonSameBoot(s) ==
    IF /\ s.phase \in PendingPhases
       /\ s.phase >= TRIAL_STARTED => s.operation.trial_boot_id = boot
    THEN "OK" ELSE "CONFLICT"

AbandonRefusal(s) ==
    CASE s.phase \notin PendingPhases -> "CONFLICT"
      [] s.phase \in PendingPhases ->
            IF /\ s.phase >= TRIAL_STARTED
               /\ s.operation.trial_boot_id = boot
               /\ ~TrialStopped(s.operation.id)
            THEN "BUSY" ELSE "OK"

(* The candidate itself may be damaged. *)
Abandon ==
    LET s == nvs.state
    IN  Transition("abandon", AbandonRefusal(s), ConfirmedReferences(s),
                   [s EXCEPT !.phase = ABORTED])

-----------------------------------------------------------------------------
(* The executor.  There is one instance at most, and its owner serializes  *)
(* starting and stopping it with storage operations.                       *)

StartInstance(kind, x, id) ==
    /\ lock = NoClient
    /\ instance = NoInstance
    /\ instance' = [kind |-> kind, id |-> id, slot |-> x.slot, package |-> x.package]
    /\ UNCHANGED <<media, engine, clients, boot, firmware, attested>>

(* A client that sees the trial it has begun runs the candidate ... *)
StartTrial(c) ==
    /\ Encoded(view[c]) = nvs
    /\ view[c].phase = TRIAL_STARTED
    /\ view[c].operation.trial_boot_id = boot
    /\ StartInstance("trial", view[c].operation, view[c].operation.id)

(* ... and one that was allowed to boot runs the confirmed package of the  *)
(* running firmware, unless a trial is under way.                          *)
StartConfirmed(c) ==
    /\ decision[c] # "BLOCKED"
    /\ Encoded(view[c]) = nvs
    /\ ~ /\ view[c].phase \in {TRIAL_STARTED, HEALTH_VERIFIED}
         /\ view[c].operation.trial_boot_id = boot
    /\ \E i \in BindingIndex :
          /\ BindsFirmware(view[c], i, firmware.running)
          /\ view[c].bindings[i].package_present
          /\ StartInstance("confirmed", view[c].bindings[i], Zero)

StopInstance ==
    /\ lock = NoClient
    /\ instance # NoInstance
    /\ instance' = NoInstance
    /\ UNCHANGED <<media, engine, clients, boot, firmware, attested>>

-----------------------------------------------------------------------------
(* The hardware. *)

(* Power fails at any moment; the next boot has a new identifier and may   *)
(* find another firmware running.  Only NVS and flash survive.             *)
PowerCycle ==
    /\ "power" \in Faults
    /\ boot < MaxBoots
    /\ boot' = boot + 1
    /\ firmware' \in FirmwareSets
    /\ instance' = NoInstance
    /\ attested' = Zero
    /\ view' = [c \in Clients |-> ZeroState]
    /\ decision' = [c \in Clients |-> "BLOCKED"]
    /\ Unlock("none")
    /\ UNCHANGED media

(* Flash loses what it held. *)
Decay(k) ==
    /\ "decay" \in Faults
    /\ flash[k] # Garbage
    /\ flash' = [flash EXCEPT ![k] = Garbage]
    /\ decayed' = decayed \cup {k}
    /\ UNCHANGED <<nvs, engine, clients, world>>

-----------------------------------------------------------------------------

EngineStep ==
    \/ Initialize \/ Load \/ Reconcile \/ Reserve
    \/ WriteAndPrepare \/ Erase \/ WriteChunk \/ WriteDone \/ Verify
    \/ BeginTrial \/ MarkHealthy \/ Confirm \/ Abandon
    \/ WriteBlob \/ ReadBack

ClientStep(c) ==
    \/ CallInitialize(c) \/ CallLoad(c) \/ CallReconcile(c) \/ CallReserve(c)
    \/ CallWriteAndPrepare(c) \/ CallBeginTrial(c) \/ CallMarkHealthy(c)
    \/ CallConfirm(c) \/ CallAbandon(c) \/ RefuseLoad(c) \/ RefuseReconcile(c)
    \/ StartTrial(c) \/ StartConfirmed(c)

Next ==
    \/ EngineStep
    \/ \E c \in Clients : ClientStep(c)
    \/ StopInstance
    \/ PowerCycle
    \/ \E k \in Slots : Decay(k)

Spec == Init /\ [][Next]_vars

(* A call is sequential code that waits for nothing once it has the lock. *)
FairSpec == Spec /\ WF_vars(EngineStep)

(* A product that does not give up: it loads the record and abandons what  *)
(* is pending again and again, among all its other calls; no trial runs    *)
(* for ever, and neither NVS nor the flash fails for ever.                 *)
RecoverySpec ==
    /\ FairSpec
    /\ SF_vars(Load /\ result' = "OK")
    /\ SF_vars(Abandon /\ pc' = "commit")
    /\ SF_vars(WriteBlob /\ committed')
    /\ SF_vars(StopInstance)
    /\ \A c \in Clients :
          /\ SF_vars(CallLoad(c))
          /\ SF_vars(Encoded(view[c]) = nvs /\ instance = NoInstance /\ CallAbandon(c))
-----------------------------------------------------------------------------
(* Properties. *)

Request ==
    [op : Operations \cup {"none"}, expected : 0..MaxSequence,
     operation : Operation, bindings : [BindingIndex -> Binding]]

Instance ==
    [kind : {"none", "confirmed", "trial"}, id : OperationIds \cup {Zero},
     slot : Slots, package : Content]

MediaType ==
    /\ nvs \in Blob
    /\ flash \in [Slots -> Content]
    /\ decayed \subseteq Slots

EngineType ==
    /\ lock \in Clients \cup {NoClient}
    /\ pc \in Steps
    /\ request \in Request
    /\ current \in State
    /\ next \in State
    /\ committed \in BOOLEAN
    /\ offset \in Nat
    /\ result \in Results \cup {"none"}

ClientType ==
    /\ view \in [Clients -> State]
    /\ decision \in [Clients -> Decisions]

WorldType ==
    /\ boot \in 1..MaxBoots
    /\ firmware \in FirmwareSets
    /\ instance \in Instance
    /\ attested \in OperationIds \cup {Zero}

(* Every variable has its type: in particular no sequence number beyond    *)
(* UINT32_MAX is ever computed, and an instance runs from a real slot.     *)
TypeOK == MediaType /\ EngineType /\ ClientType /\ WorldType

(* What the durable record refers to - the confirmed packages of both      *)
(* firmwares and a candidate that was completely written - is in flash,    *)
(* unless the medium itself has lost it: the engine never erases or        *)
(* overwrites referenced bytes, whatever fails and wherever power is lost. *)
ReferencedBytesIntact ==
    nvs.kind = "record" =>
        \A x \in ConfirmedReferences(nvs.state) \cup CandidateReferences(nvs.state) :
            Matches(x) \/ x.slot \in decayed

(* A sequence number names one record: a client whose snapshot carries the *)
(* durable sequence number holds the durable record.  begin_locked relies  *)
(* on it when it compares nothing but sequence numbers.                    *)
SnapshotsNotAliased ==
    \A c \in Clients :
        nvs.kind = "record" /\ view[c].sequence = nvs.state.sequence =>
            view[c] = nvs.state

(* The package a running instance executes from stays in its slot (or is   *)
(* lost by the medium): no reservation hands that slot to another          *)
(* operation while the instance runs.                                      *)
InstanceBytesIntact ==
    instance # NoInstance =>
        flash[instance.slot] = instance.package \/ instance.slot \in decayed

(* Every confirmed package passed validation, and its binding says what    *)
(* the package is: no path binds a package around write_and_prepare.       *)
OnlyQualifiedBound ==
    nvs.kind = "record" =>
        \A i \in BindingIndex :
            LET b == nvs.state.bindings[i]
            IN  b.package_present =>
                    b.package \in Trusted /\ Claim(b) = TrueClaim(b.package)

(* A durable record is only ever replaced by a client whose snapshot was   *)
(* that very record: concurrent clients lose no update.                    *)
NoLostUpdate ==
    [][nvs.kind = "record" /\ nvs' # nvs =>
         lock \in Clients /\ view[lock] = nvs.state]_vars

(* An update of the product never touches the package of the other         *)
(* firmware, the one a rollback would boot into, and never takes a package *)
(* away from the running one.                                              *)
RollbackPackageKept ==
    [][nvs.kind = "record" /\ nvs'.kind = "record" =>
         \A i \in BindingIndex :
             LET old == nvs.state.bindings[i]
                 new == nvs'.state.bindings[i]
             IN  \/ new = old
                 \/ /\ new.firmware = firmware.running
                    /\ old.firmware = firmware.running
                    /\ new.package_present]_vars

(* A confirmed package is replaced only by one with the same data schema,  *)
(* although the schema is compared when the slot is reserved and the       *)
(* binding changes several calls, and possibly reboots, later.             *)
SchemaKept ==
    [][nvs.kind = "record" /\ nvs'.kind = "record" =>
         \A i \in BindingIndex :
             nvs.state.bindings[i].package_present =>
                 nvs'.state.bindings[i].schema = nvs.state.bindings[i].schema]_vars

(* The end of a call, other than by loss of power. *)
Returns == lock # NoClient /\ lock' = NoClient /\ boot' = boot

(* A result means what it says: OK from a call that changes the record     *)
(* only if its new record is durable and is what the client was given; any *)
(* other result but UNCERTAIN only if the record is the one the call       *)
(* loaded.                                                                 *)
ResultsTellTheTruth ==
    [][Returns =>
         /\ result' = "OK" /\ request.op \notin {"load", "reconcile"} =>
               /\ nvs' = Encoded(next)
               /\ request.op # "initialize" => Encoded(view'[lock]) = nvs'
         /\ result' \notin {"OK", "UNCERTAIN"} /\ pc = "readback" =>
               nvs' = Encoded(current)]_vars

(* state_valid never refuses a record the engine itself has built: a call  *)
(* on a sound record returns INVALID only when sequence numbers are used   *)
(* up (initialize may be given unsound bindings).                          *)
NoSpuriousInvalid ==
    [][Returns /\ result' = "INVALID" =>
         \/ nvs.kind = "damaged"
         \/ nvs.state.sequence = MaxSequence
         \/ request.op = "initialize"]_vars

(* A damaged record is left as it is: nothing, not even initialize, takes  *)
(* it for an empty store and writes over it.                               *)
DamagePreserved ==
    [][nvs.kind = "damaged" => nvs' = nvs]_vars

(* The engine changes a slot only while the durable record reserves that   *)
(* slot for writing: the reservation is durable before the first erase.    *)
ReservedBeforeErase ==
    [][\A k \in Slots :
         flash'[k] # flash[k] /\ k \notin decayed' =>
             /\ nvs.kind = "record"
             /\ nvs.state.phase = WRITING
             /\ nvs.state.operation.slot = k]_vars

(* A client may start a confirmed package only after a reconcile that has  *)
(* found every confirmed package in place and the firmwares of the record  *)
(* to be the bootable ones.  It is told of a pending operation, and that   *)
(* the candidate is invalid unless a candidate that was completely written *)
(* is in place too.                                                        *)
BootDecisionSound ==
    [][\A c \in Clients :
         decision'[c] # "BLOCKED" /\ decision'[c] # decision[c] =>
             /\ view'[c] = nvs.state
             /\ BoundFirmwares(nvs.state) = firmware.bootable
             /\ \A x \in ConfirmedReferences(nvs.state) : Matches(x)
             /\ decision'[c] = "CONFIRMED" <=> nvs.state.phase \notin PendingPhases
             /\ IF decision'[c] = "RECOVER_CONFIRMED_CANDIDATE_INVALID"
                THEN CandidateReferences(nvs.state) # {}
                ELSE \A x \in CandidateReferences(nvs.state) : Matches(x)]_vars

(* A pending operation never wedges the store: whatever phase, boot and    *)
(* firmware it was left in by failed writes and losses of power, abandon   *)
(* settles it in the end, unless the sequence numbers are used up.         *)
PendingSettled ==
    LET pending == nvs.kind = "record" /\ nvs.state.phase \in PendingPhases
    IN  pending ~> ~pending \/ nvs.state.sequence = MaxSequence

(* A call ends, whatever fails in it: the lock is always given back. *)
LockReleased == [](lock # NoClient => <>(lock = NoClient))
=============================================================================
