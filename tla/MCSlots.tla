------------------------------ MODULE MCSlots ------------------------------
(* Small instances of Slots for TLC.                                       *)
EXTENDS SlotsRefinement, FiniteSets, TLC

CONSTANTS f1, f2, p1, p2, p3, p4, c1, c2, o1, o2

(* p1 and p2 are good packages of one and two blocks; p3 is as long as p1  *)
(* but not trusted; p4 is as long as p2 but has another data schema.       *)
MCTrusted == Packages \ {p3}
MCInfo == [p \in Packages |->
              [size   |-> IF p \in {p2, p4} THEN 2 ELSE 1, abi |-> 1,
               schema |-> IF p = p4 THEN 2 ELSE 1]]
MCSlotSize == [k \in 0..2 |-> IF k = 0 THEN 1 ELSE 2]

ClaimOf(p, schema) ==
    [package |-> p, size |-> MCInfo[p].size, abi |-> 1, schema |-> schema]

BoundTo(f, k, p) ==
    [EmptyBinding EXCEPT
        !.present = TRUE, !.firmware = f, !.package_present = TRUE, !.slot = k,
        !.package = p, !.size = MCInfo[p].size, !.abi = 1, !.schema = 1]

Unbound(f) == [EmptyBinding EXCEPT !.present = TRUE, !.firmware = f]

Pair(a, b) == [i \in 0..1 |-> IF i = 0 THEN a ELSE b]

Boots(bootable) == [bootable : {bootable}, running : bootable]

(* One firmware, no package yet; and bindings initialize has to refuse:    *)
(* the package is not in that slot, or nothing is bound at all.            *)
OneFirmwareInstallations ==
    {Pair(Unbound(f1), EmptyBinding), Pair(BoundTo(f1, 2, p1), EmptyBinding),
     NoBindings}

MCInitialFlash == [k \in 0..2 |-> IF k = 0 THEN p1 ELSE Garbage]
OneFirmware    == Boots({f1})
FirmwareAdded  == Boots({f1}) \cup Boots({f1, f2})

(* Two firmwares that share the package in slot 0. *)
TwoFirmwareInstallations == {Pair(BoundTo(f1, 0, p1), BoundTo(f2, 0, p1))}
TwoFirmwares == Boots({f1, f2})

OneClaim   == {ClaimOf(p2, 1)}
UpdateClaims == {ClaimOf(p2, 1), ClaimOf(p4, 2)}
AllClaims  == {ClaimOf(p1, 1), ClaimOf(p2, 1), ClaimOf(p3, 1), ClaimOf(p2, 2)}

(* Clients and operation identifiers are interchangeable. *)
MCSymmetry == Permutations(Clients) \cup Permutations(OperationIds)

AllFaults      == FaultKinds
FaultsButDecay == FaultKinds \ {"decay"}
=============================================================================
