----------------------------- MODULE MCSlotsIdf -----------------------------
(* The ESP-IDF provider for TLC: its flash callbacks under the engine that *)
(* calls them (SlotFlash) and its two functions on NVS (NvsBlob).  The     *)
(* halves share no state, so a behaviour exercises one and leaves the      *)
(* other alone.                                                            *)
(*                                                                         *)
(* The address space has 32 bytes.  The package partition may end at the   *)
(* last address a geometry may use, and one byte behind it; its slots are  *)
(* placed everywhere on and off the erase units.                           *)
EXTENDS SlotFlash, NvsBlob

VARIABLE half

MCInit ==
    /\ half \in {"flash", "nvs"}
    /\ Init
    /\ NvsInit
    /\ half = "flash" => namespace = FALSE
    /\ half = "nvs" => table = CHOOSE t \in Tables : TRUE

MCNext ==
    /\ \/ half = "flash" /\ Next /\ UNCHANGED nvs_vars
       \/ half = "nvs" /\ NvsNext /\ UNCHANGED vars
    /\ UNCHANGED half

MCSpec == MCInit /\ [][MCNext]_<<half, vars, nvs_vars>>

At(from, count) == [offset |-> from, size |-> count]

Part(from, count, unit, enc, ro) ==
    [found |-> TRUE, readonly |-> ro, encrypted |-> enc, address |-> from,
     size |-> count, erase |-> unit]

NvsPart == Part(4, 4, 4, FALSE, FALSE)
Missing == [NvsPart EXCEPT !.found = FALSE]

(* Plain and encrypted, in the middle and at the end of the address space, *)
(* over the end, over NVS, read only, absent, erase units zero and three.  *)
MCTables ==
    {[package |-> p, nvs |-> NvsPart] :
        p \in {Part(8, 12, 4, TRUE, FALSE), Part(8, 12, 2, FALSE, FALSE),
               Part(16, 15, 4, TRUE, FALSE), Part(20, 11, 2, FALSE, FALSE),
               Part(20, 12, 4, FALSE, FALSE), Part(4, 12, 4, FALSE, FALSE),
               Part(8, 12, 4, FALSE, TRUE), Part(8, 12, 0, FALSE, FALSE),
               Part(9, 12, 3, FALSE, FALSE), Missing}}
        \cup {[package |-> Part(8, 12, 4, FALSE, FALSE), nvs |-> Missing]}

MCSlots == {At(8, 2), At(8, 4), At(8, 8), At(12, 0), At(12, 4), At(14, 4), At(14, 2),
            At(16, 4), At(16, 3), At(16, 8), At(18, 2), At(20, 4), At(20, 2),
            At(22, 2), At(22, 8), At(24, 4), At(24, 6), At(28, 2), At(28, 4), At(30, 1), At(4, 4)}

MCConfigs ==
    [named : BOOLEAN, package : {At(t.package.address, t.package.size) : t \in MCTables},
     nvs : {At(4, 4), At(4, 5)}, slots : [SlotIndex -> {At(8, 4)}]]
    \cup
    [named : {TRUE}, package : {At(t.package.address, t.package.size) : t \in MCTables},
     nvs : {At(4, 4)}, slots : [SlotIndex -> MCSlots]]

MCSizes == {1, 3, 4, 7, 8}
=============================================================================
