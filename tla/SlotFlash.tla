----------------------------- MODULE SlotFlash -----------------------------
(***************************************************************************)
(* The addresses of the storage engine: which geometries bind and          *)
(* geometry_valid accept, which addresses the erase, write and hash loops  *)
(* of slots.c then ask for, and which of those the ESP-IDF provider lets   *)
(* through to the partition.  Slots.tla takes a slot for a number and a    *)
(* write for a block; here both are ranges of 32-bit addresses, which may  *)
(* lie at the very end of the address space.                               *)
(***************************************************************************)
EXTENDS Integers

CONSTANTS
    Word,            \* number of values of a uint32_t
    SlotIoBytes,     \* SLOT_IO_BYTES, the size of the transfer buffer
    PlainWrite,      \* write unit of a plain partition (4) ...
    EncryptedWrite,  \* ... and of an encrypted one (16)
    Tables,          \* partition tables: [package, nvs : Partition]
    Configs,         \* what the product passes to bind
    PackageSizes     \* sizes of packages a client may reserve space for

Addresses == 0..(Word - 1)
SlotIndex == 0..2
Region    == [offset : Addresses, size : Addresses]
Partition == [found : BOOLEAN, readonly : BOOLEAN, encrypted : BOOLEAN,
              address : Addresses, size : Addresses, erase : Addresses]

ASSUME FlashAssumption ==
    /\ Word \in Nat \ {0}
    /\ SlotIoBytes \in 1..(Word - 1)
    /\ {PlainWrite, EncryptedWrite} \subseteq 1..(Word - 1)
    /\ Tables \subseteq [package : Partition, nvs : Partition]
    /\ Configs \subseteq [named : BOOLEAN, package : Region, nvs : Region,
                          slots : [SlotIndex -> Region]]
    /\ PackageSizes \subseteq 1..(Word - 1)
    \* The partition tool places partitions on erase units, inside the flash.
    /\ \A t \in Tables : t.package.found /\ t.package.erase # 0 =>
           t.package.address % t.package.erase = 0

VARIABLES
    table,     \* the partition table of the device
    geometry,  \* provider->geometry, or Unbound after a refused bind
    pc,        \* step of write_and_prepare
    slot,      \* the slot of the operation
    size,      \* the size of its package
    offset,    \* local of the write and of the hash loop
    cell,      \* what was done to each address since the call began
    access,    \* the last range the partition was asked for
    refused    \* the provider refused a call the engine made

vars == <<table, geometry, pc, slot, size, offset, cell, access, refused>>

Range(from, count) == from..(from + count - 1)

(* The address slot->offset_bytes + offset, in 32 bits. *)
Plus(a, b) == (a + b) % Word

Unbound  == [partition |-> [offset |-> 0, size |-> 0], erase |-> 0, write |-> 0,
             slots |-> [k \in SlotIndex |-> [offset |-> 0, size |-> 0]]]
NoAccess == [op |-> "none", from |-> 0, count |-> 0]

Init ==
    /\ table \in Tables
    /\ geometry = Unbound
    /\ pc = "idle"
    /\ slot = 0 /\ size = 0 /\ offset = 0
    /\ cell = [a \in Addresses |-> "old"]
    /\ access = NoAccess
    /\ refused = FALSE

-----------------------------------------------------------------------------
(* econtainer_slots_geometry_valid and econtainer_slots_idf_bind.  Their   *)
(* sums are of 64 bits: none of them wraps.                                *)

(* (n & (n - 1)) == 0, for n # 0: n has no odd divisor but one. *)
PowerOfTwo(n) == \A d \in 1..n : n % d = 0 => d = 1 \/ d % 2 = 0

(* Mutant: a region that begins before the other one and reaches into it. *)
MutantOverlap(r, s) == s.offset <= r.offset /\ r.offset < s.offset + s.size

Overlap(r, s) == r.offset < s.offset + s.size /\ s.offset < r.offset + r.size

RegionValid(g, r) ==
    /\ r.size # 0
    /\ r.offset >= g.partition.offset
    /\ r.offset % g.erase = 0
    /\ r.size % g.erase = 0
    /\ r.offset + r.size <= g.partition.offset + g.partition.size

UnitsValid(g) ==
    /\ g.partition.size # 0 /\ g.erase # 0 /\ g.write # 0
    /\ g.write <= SlotIoBytes
    /\ SlotIoBytes % g.write = 0
    /\ g.erase % g.write = 0
    /\ PowerOfTwo(g.erase) /\ PowerOfTwo(g.write)
    /\ g.partition.offset + g.partition.size <= Word - 1

GeometryValid(g) ==
    /\ UnitsValid(g)
    /\ \A k \in SlotIndex : RegionValid(g, g.slots[k])
    /\ \A j, k \in SlotIndex : j < k => ~Overlap(g.slots[k], g.slots[j])

NamesValid(c) == c.named

(* The partitions found must be what was asked for. *)
PartitionsMatch(c) ==
    LET At(p) == [offset |-> p.address, size |-> p.size]
    IN  /\ NamesValid(c)
        /\ c.package.offset # 0 /\ c.package.size # 0 /\ c.nvs.size # 0
        /\ table.package.found /\ table.nvs.found
        /\ ~table.package.readonly /\ ~table.nvs.readonly
        /\ At(table.package) = c.package /\ At(table.nvs) = c.nvs
        /\ ~Overlap(c.package, c.nvs)
        /\ table.package.erase # 0

Geometry(c) ==
    [partition |-> c.package, erase |-> table.package.erase,
     write |-> IF table.package.encrypted THEN EncryptedWrite ELSE PlainWrite,
     slots |-> c.slots]

(* The provider is cleared first, so that a refused bind leaves it empty. *)
Bind ==
    /\ pc = "idle" /\ geometry = Unbound
    /\ \E c \in Configs :
          geometry' = IF PartitionsMatch(c) /\ GeometryValid(Geometry(c))
                      THEN Geometry(c) ELSE Unbound
    /\ UNCHANGED <<table, pc, slot, size, offset, cell, access, refused>>

-----------------------------------------------------------------------------
(* The callbacks of the provider.                                          *)

(* Mutant: the last byte of the partition is out of range. *)
MutantRangeOffByOne(from, count) ==
    /\ count > 0 /\ count <= table.package.size
    /\ from >= table.package.address
    /\ from - table.package.address < table.package.size - count

RangeValid(from, count) ==
    /\ count > 0 /\ count <= table.package.size
    /\ from >= table.package.address
    /\ from - table.package.address <= table.package.size - count

(* esp_partition_*: the range of flash behind a relative address. *)
Device(from, count) ==
    Range(Plus(table.package.address, from - table.package.address), count)

(* A call of the engine ends: it was refused, or the device failed. *)
Fail(refusal) ==
    /\ pc' = "idle"
    /\ refused' = (refused \/ refusal)
    /\ offset' = 0
    /\ UNCHANGED <<cell, access>>

Touch(op, from, count) == access' = [op |-> op, from |-> from, count |-> count]

-----------------------------------------------------------------------------
(* The flash calls of econtainer_slots_write_and_prepare.                  *)

(* reserve has found a slot that is large enough.  The call starts, or is  *)
(* made again after a failure or a power loss.                             *)
Start(k, n) ==
    /\ pc = "idle" /\ geometry # Unbound
    /\ n <= geometry.slots[k].size
    /\ size # 0 => k = slot /\ n = size
    /\ pc' = "erase"
    /\ slot' = k /\ size' = n /\ offset' = 0
    /\ UNCHANGED <<table, geometry, cell, access, refused>>

(* Mutant: a last erase unit that the package only begins is left alone. *)
MutantErase ==
    LET r == geometry.slots[slot]
        n == size - (size % geometry.erase)
    IN  /\ pc = "erase"
        /\ pc' = "write"
        /\ cell' = [a \in Addresses |->
                       IF a \in Device(r.offset, n) THEN "blank" ELSE cell[a]]
        /\ Touch("erase", r.offset, n)
        /\ UNCHANGED <<table, geometry, slot, size, offset, refused>>

Erase ==
    LET r  == geometry.slots[slot]
        ok == /\ RangeValid(r.offset, r.size)
              /\ r.offset % geometry.erase = 0
              /\ r.size % geometry.erase = 0
    IN  /\ pc = "erase"
        /\ \/ Fail(~ok)
           \/ /\ ok
              /\ pc' = "write"
              /\ cell' = [a \in Addresses |->
                             IF a \in Device(r.offset, r.size) THEN "blank" ELSE cell[a]]
              /\ Touch("erase", r.offset, r.size)
              /\ UNCHANGED <<offset, refused>>
        /\ UNCHANGED <<table, geometry, slot, size>>

(* A cell can be programmed once after an erase, with a byte of the package*)
(* or with the 0xff the buffer was filled with.                            *)
Programmed(a) == IF cell[a] = "blank" THEN "data" ELSE "spoilt"

Min(a, b) == IF a < b THEN a ELSE b

(* The count of the next transfer, rounded up to write units. *)
Actual     == Min(size - offset, SlotIoBytes)
Aligned(n) == ((n + geometry.write - 1) \div geometry.write) * geometry.write

WriteChunk ==
    LET from  == Plus(geometry.slots[slot].offset, offset)
        count == Aligned(Actual)
        ok    == /\ RangeValid(from, count)
                 /\ from % geometry.write = 0
                 /\ count % geometry.write = 0
    IN  /\ pc = "write" /\ offset < size
        /\ \/ Fail(~ok)
           \/ /\ ok
              /\ cell' = [a \in Addresses |->
                             IF a \in Device(from, count) THEN Programmed(a) ELSE cell[a]]
              /\ offset' = offset + Actual
              /\ Touch("write", from, count)
              /\ UNCHANGED <<pc, refused>>
        /\ UNCHANGED <<table, geometry, slot, size>>

WriteDone ==
    /\ pc = "write" /\ offset >= size
    /\ pc' = "hash"
    /\ offset' = 0
    /\ UNCHANGED <<table, geometry, slot, size, cell, access, refused>>

(* Mutant: the reader does not know where the package ends. *)
MutantRelativeValid(at, count) ==
    /\ at <= geometry.slots[slot].size /\ count <= geometry.slots[slot].size - at
    /\ at <= Word - 1 - geometry.slots[slot].offset

(* flash_relative_read, on behalf of hash_flash and of the validator. *)
RelativeValid(at, count) ==
    /\ at <= size /\ count <= size - at
    /\ at <= Word - 1 - geometry.slots[slot].offset

RelativeRead(at, count, after) ==
    LET from == Plus(geometry.slots[slot].offset, at)
        ok   == RelativeValid(at, count) /\ RangeValid(from, count)
    IN  \/ /\ ok
           /\ Touch("read", from, count)
           /\ offset' = after
           /\ UNCHANGED <<pc, cell, refused>>
        \/ Fail(~ok /\ at + count <= size)

HashChunk ==
    /\ pc = "hash" /\ offset < size
    /\ RelativeRead(offset, Actual, offset + Actual)
    /\ UNCHANGED <<table, geometry, slot, size>>

HashDone ==
    /\ pc = "hash" /\ offset >= size
    /\ pc' = "validate"
    /\ offset' = 0
    /\ UNCHANGED <<table, geometry, slot, size, cell, access, refused>>

(* The validator reads what it likes and answers at last. *)
ValidatorRead(at, count) ==
    /\ pc = "validate" /\ count > 0
    /\ RelativeRead(at, count, offset)
    /\ UNCHANGED <<table, geometry, slot, size>>

Validated ==
    /\ pc = "validate"
    /\ pc' = "idle"
    /\ UNCHANGED <<table, geometry, slot, size, offset, cell, access, refused>>

PowerLoss ==
    /\ pc # "idle"
    /\ Fail(FALSE)
    /\ UNCHANGED <<table, geometry, slot, size>>

Next ==
    \/ Bind
    \/ \E k \in SlotIndex, n \in PackageSizes : Start(k, n)
    \/ Erase \/ WriteChunk \/ WriteDone \/ HashChunk \/ HashDone \/ Validated
    \/ \E at \in Addresses, count \in 0..SlotIoBytes : ValidatorRead(at, count)
    \/ PowerLoss

Spec == Init /\ [][Next]_vars

-----------------------------------------------------------------------------
(* An operation erases and programs its own slot only: no other slot, which *)
(* may hold the confirmed package, nothing outside the package partition,   *)
(* and no byte of NVS, wherever the regions lie in the address space.  And  *)
(* hash_flash and the validator see bytes of the package only, not what the *)
(* slot holds behind it; no read runs over the end of the address space.    *)
OwnSlotOnly ==
    LET own == geometry.slots[slot]
    IN  /\ \A a \in Addresses : cell[a] # "old" =>
              /\ a \in Range(own.offset, own.size)
              /\ \A k \in SlotIndex \ {slot} :
                     a \notin Range(geometry.slots[k].offset, geometry.slots[k].size)
              /\ a \in Range(table.package.address, table.package.size)
              /\ a \notin Range(table.nvs.address, table.nvs.size)
        /\ access.op = "read" =>
              /\ access.from >= own.offset
              /\ access.from + access.count <= own.offset + size
              /\ access.from + access.count < Word

(* Whatever geometry was accepted, the provider's range and alignment checks*)
(* refuse no erase, write or read the engine makes with it: a package that  *)
(* fits its slot never fails to install because of where the slot lies.     *)
NoSpuriousRefusal == ~refused

(* Every byte of the package is programmed exactly once after an erase, also*)
(* when the call is repeated after a failure or a power loss, and all of    *)
(* them are when the hash of the slot begins.                               *)
ProgrammedOnce ==
    /\ \A a \in Addresses : cell[a] # "spoilt"
    /\ pc \in {"hash", "validate"} =>
           \A a \in Range(geometry.slots[slot].offset, size) : cell[a] = "data"
=============================================================================
