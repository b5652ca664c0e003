----------------------------- MODULE SlotRecord -----------------------------
(***************************************************************************)
(* The durable record of the three-slot package store: one NVS blob that   *)
(* binds each bootable firmware to a confirmed package and describes the   *)
(* single operation in progress (esp_container_slots.h), with the validity *)
(* conditions slots.c imposes before it writes or trusts a record.  As in  *)
(* the C structs, an absent part of the record is all zeros.               *)
(***************************************************************************)
EXTENDS Naturals

CONSTANTS
    Firmwares,      \* SHA-256 digests of firmware images
    Packages,       \* SHA-256 digests of product packages
    OperationIds,   \* 16-byte operation identifiers
    Zero,           \* the all-zero digest or identifier
    SlotSize,       \* geometry: size of each slot, in blocks of SLOT_IO_BYTES
    MaxSequence     \* UINT32_MAX, the last sequence number

Slots        == 0..2          \* ECONTAINER_SLOT_COUNT regions of raw flash
BindingIndex == 0..1          \* ECONTAINER_SLOT_BINDING_COUNT bindings

ASSUME RecordAssumption ==
    /\ Zero \notin Firmwares \cup Packages \cup OperationIds
    /\ SlotSize \in [Slots -> Nat \ {0}]
    /\ MaxSequence \in Nat \ {0}

(* econtainer_slot_phase_t; the code compares phases with < and >. *)
IDLE            == 0
WRITING         == 1
PREPARED        == 2
TRIAL_STARTED   == 3
HEALTH_VERIFIED == 4
CONFIRMED       == 5
ABORTED         == 6

PendingPhases   == WRITING..HEALTH_VERIFIED    \* a candidate owns a slot
CompletePhases  == PREPARED..HEALTH_VERIFIED   \* ... which holds all of it

Binding ==
    [present : BOOLEAN, package_present : BOOLEAN, slot : Nat,
     firmware : Firmwares \cup {Zero}, package : Packages \cup {Zero},
     size : Nat, abi : Nat, schema : Nat]

(* The trial boot id is a boot number; 0 is the all-zero id. *)
Operation ==
    [id : OperationIds \cup {Zero}, target : Firmwares \cup {Zero},
     package : Packages \cup {Zero}, slot : Nat, size : Nat, abi : Nat,
     schema : Nat, trial_boot_id : Nat]

State ==
    [sequence : 0..MaxSequence, bindings : [BindingIndex -> Binding],
     phase : IDLE..ABORTED, operation : Operation]

EmptyBinding ==
    [present |-> FALSE, package_present |-> FALSE, slot |-> 0,
     firmware |-> Zero, package |-> Zero, size |-> 0, abi |-> 0, schema |-> 0]

EmptyOperation ==
    [id |-> Zero, target |-> Zero, package |-> Zero, slot |-> 0, size |-> 0,
     abi |-> 0, schema |-> 0, trial_boot_id |-> 0]

NoBindings == [i \in BindingIndex |-> EmptyBinding]

ZeroState ==
    [sequence |-> 0, bindings |-> NoBindings, phase |-> IDLE,
     operation |-> EmptyOperation]

-----------------------------------------------------------------------------
(* Validity of a record: binding_valid, operation_valid, state_valid. *)

BindingValid(b) ==
    \/ b = EmptyBinding
    \/ /\ b.present
       /\ ~b.package_present
       /\ b.firmware # Zero
       /\ b = [EmptyBinding EXCEPT !.present = TRUE, !.firmware = b.firmware]
    \/ /\ b.present
       /\ b.package_present
       /\ b.firmware # Zero
       /\ b.package # Zero
       /\ b.slot \in Slots
       /\ b.size \in 1..SlotSize[b.slot]
       /\ b.abi > 0
       /\ b.schema > 0

(* The fields a binding and an operation share; what a package is said to be. *)
Claim(x) ==
    [package |-> x.package, size |-> x.size, abi |-> x.abi,
     schema |-> x.schema]

(* binding_for_firmware: the index it returns, when there is one. *)
BindsFirmware(s, i, f) == s.bindings[i].present /\ s.bindings[i].firmware = f

OperationValid(s) ==
    LET op == s.operation
    IN  \/ s.phase = IDLE /\ op = EmptyOperation
        \/ /\ s.phase \in WRITING..ABORTED
           /\ op.id # Zero /\ op.target # Zero /\ op.package # Zero
           /\ op.slot \in Slots
           /\ op.size \in 1..SlotSize[op.slot]
           /\ op.abi > 0 /\ op.schema > 0
           /\ \E i \in BindingIndex : BindsFirmware(s, i, op.target)
           /\ s.phase \in PendingPhases =>
                \A i \in BindingIndex :
                    s.bindings[i].package_present => s.bindings[i].slot # op.slot
           /\ s.phase \in {WRITING, PREPARED} => op.trial_boot_id = 0
           /\ s.phase \in TRIAL_STARTED..CONFIRMED => op.trial_boot_id # 0

(* Two firmwares may share a slot only for the very same package. *)
BindingsConsistent(s) ==
    LET b0 == s.bindings[0]
        b1 == s.bindings[1]
    IN  /\ b0.present \/ b1.present
        /\ b0.present /\ b1.present => b0.firmware # b1.firmware
        /\ b0.package_present /\ b1.package_present /\ b0.slot = b1.slot =>
               Claim(b0) = Claim(b1)

(* A CONFIRMED record already binds its target to the operation's package. *)
ConfirmationRecorded(s) ==
    s.phase = CONFIRMED =>
        \E i \in BindingIndex :
            /\ BindsFirmware(s, i, s.operation.target)
            /\ s.bindings[i].package_present
            /\ s.bindings[i].slot = s.operation.slot
            /\ Claim(s.bindings[i]) = Claim(s.operation)

StateValid(s) ==
    /\ s.sequence # 0
    /\ \A i \in BindingIndex : BindingValid(s.bindings[i])
    /\ BindingsConsistent(s)
    /\ OperationValid(s)
    /\ ConfirmationRecorded(s)

-----------------------------------------------------------------------------
(* The blob: what the one NVS key holds.  A record is stored with a magic  *)
(* number, a version and a CRC, so anything but a complete encoded record  *)
(* reads back as damaged.                                                  *)

Blob   == [kind : {"absent", "record", "damaged"}, state : State]
Absent  == [kind |-> "absent",  state |-> ZeroState]
Damaged == [kind |-> "damaged", state |-> ZeroState]

(* encode_state *)
Encoded(s) == [kind |-> "record", state |-> s]

(* decode_state: the checks on the frame, then those on the contents. *)
Decodes(blob) == blob.kind = "record" /\ StateValid(blob.state)

-----------------------------------------------------------------------------
(* Parts of a record the engine asks for. *)

(* firmware_set_matches compares counts and members; for a valid record,    *)
(* whose firmwares are distinct, that is equality of the two sets.         *)
BoundFirmwares(s) ==
    {s.bindings[i].firmware : i \in {j \in BindingIndex : s.bindings[j].present}}

(* A region of flash and the digest it has to have. *)
Reference(x) == [slot |-> x.slot, size |-> x.size, package |-> x.package]

(* check_references: the confirmed packages of both firmwares ... *)
ConfirmedReferences(s) ==
    {Reference(s.bindings[i]) :
        i \in {j \in BindingIndex : s.bindings[j].package_present}}

(* ... and, when the caller asks for it, a completely written candidate. *)
CandidateReferences(s) ==
    IF s.phase \in CompletePhases THEN {Reference(s.operation)} ELSE {}

=============================================================================
