--------------------------- MODULE ProviderProofs ---------------------------
(***************************************************************************)
(* Theorems about the storage below the engine.  The first part is about   *)
(* its addresses, for every width of an address, every buffer, erase and   *)
(* write unit, every partition table and every configuration a product may *)
(* bind.  The second is about provider_read_blob and provider_write_blob:  *)
(* for every set of records, every failure of the NVS library and every    *)
(* loss of power, they are the register the engine takes them for, and     *)
(* they leave no handle open.                                              *)
(***************************************************************************)
EXTENDS SlotFlash, NvsBlob, TLAPS

-----------------------------------------------------------------------------
(* Arithmetic of units and of 32-bit addresses. *)

LEMMA Division ==
    ASSUME NEW a \in Nat, NEW w \in Nat \ {0}
    PROVE  /\ a \div w \in Nat /\ a % w \in Nat
           /\ a = (w * (a \div w)) + (a % w)
           /\ a % w < w
           /\ a < w => a % w = a
BY Z3

LEMMA MultipleMod ==
    ASSUME NEW k \in Nat, NEW w \in Nat \ {0}
    PROVE  w * k \in Nat /\ (w * k) % w = 0
BY Z3

LEMMA Products ==
    ASSUME NEW a \in Nat, NEW b \in Nat, NEW c \in Nat
    PROVE  /\ a * (b + c) = (a * b) + (a * c)
           /\ (a * b) * c = a * (b * c) /\ b * c \in Nat
BY Z3

LEMMA WholeUnits ==
    ASSUME NEW a \in Nat, NEW w \in Nat \ {0}, a % w = 0
    PROVE  \E k \in Nat : a = w * k
<1>1. a \div w \in Nat /\ a = (w * (a \div w)) + 0
  BY Division
<1>2. w * (a \div w) \in Nat
  BY <1>1, MultipleMod
<1>3. a = w * (a \div w)
  BY <1>1, <1>2
<1> QED
  BY <1>1, <1>3

(* Sums and multiples of whole units are whole units. *)
LEMMA UnitsAdd ==
    ASSUME NEW a \in Nat, NEW b \in Nat, NEW w \in Nat \ {0}, a % w = 0, b % w = 0
    PROVE  (a + b) % w = 0
<1>1. PICK j \in Nat : a = w * j
  BY WholeUnits
<1>2. PICK k \in Nat : b = w * k
  BY WholeUnits
<1>3. a + b = w * (j + k) /\ j + k \in Nat
  BY <1>1, <1>2, Products
<1> QED
  BY <1>3, MultipleMod

LEMMA UnitsSubtract ==
    ASSUME NEW a \in Nat, NEW b \in Nat, NEW w \in Nat \ {0}, b <= a, a % w = 0, b % w = 0
    PROVE  a - b \in Nat /\ (a - b) % w = 0
<1>1. PICK j \in Nat : a = w * j
  BY WholeUnits
<1>2. PICK k \in Nat : b = w * k
  BY WholeUnits
<1>3. k <= j
  BY <1>1, <1>2, Z3
<1> DEFINE d == j - k
<1>4. d \in Nat /\ j = k + d
  BY <1>3
<1>5. a = b + (w * d) /\ w * d \in Nat
  BY <1>1, <1>2, <1>4, Products, MultipleMod
<1> HIDE DEF d
<1>6. a - b = w * d
  BY <1>5
<1> QED
  BY <1>4, <1>6, MultipleMod

LEMMA UnitsNest ==
    ASSUME NEW a \in Nat, NEW e \in Nat \ {0}, NEW w \in Nat \ {0}, a % e = 0, e % w = 0
    PROVE  a % w = 0
<1>1. PICK j \in Nat : a = e * j
  BY WholeUnits
<1>2. PICK k \in Nat : e = w * k
  BY WholeUnits
<1>3. a = w * (k * j) /\ k * j \in Nat
  BY <1>1, <1>2, Products
<1> QED
  BY <1>3, MultipleMod

RoundUp(n, w) == ((n + w - 1) \div w) * w

(* Rounding up to units does not pass a bound that is whole units. *)
LEMMA RoundUpFacts ==
    ASSUME NEW n \in Nat, NEW w \in Nat \ {0}
    PROVE  /\ RoundUp(n, w) \in Nat
           /\ RoundUp(n, w) % w = 0
           /\ n <= RoundUp(n, w)
           /\ \A m \in Nat : n <= m /\ m % w = 0 => RoundUp(n, w) <= m
<1> DEFINE q == (n + w - 1) \div w
           r == (n + w - 1) % w
<1>1. n + w - 1 \in Nat
  OBVIOUS
<1>2. q \in Nat /\ r \in Nat /\ n + w - 1 = (w * q) + r /\ r < w
  BY <1>1, Division
<1>3. RoundUp(n, w) = w * q
  BY <1>2, Z3 DEF RoundUp
<1> HIDE DEF q, r
<1>4. w * q \in Nat /\ (w * q) % w = 0
  BY <1>2, MultipleMod
<1>5. n <= w * q /\ w * q < n + w
  BY <1>2, <1>4
<1>6. ASSUME NEW m \in Nat, n <= m, m % w = 0 PROVE w * q <= m
  <2>1. PICK k \in Nat : m = w * k
    BY <1>6, WholeUnits
  <2>2. CASE q <= k
    BY <1>2, <2>1, <2>2, Z3
  <2>3. CASE q >= k + 1
    <3>1. w * q >= (w * k) + w
      BY <1>2, <2>3, Z3
    <3> QED
      BY <1>5, <1>6, <1>4, <2>1, <3>1
  <2> QED
    BY <1>2, <2>2, <2>3
<1> QED
  BY <1>3, <1>4, <1>5, <1>6

(* A sum that stays below 2^32 does not wrap. *)
LEMMA PlusFacts ==
    ASSUME FlashAssumption, NEW a \in Int, NEW b \in Int, a + b \in Nat, a + b < Word
    PROVE  Plus(a, b) = a + b
<1>1. Word \in Nat \ {0}
  BY DEF FlashAssumption
<1> DEFINE s == a + b
<1>2. s \in Nat /\ s < Word => s % Word = s
  BY <1>1, Division
<1> QED
  BY <1>2 DEF Plus

-----------------------------------------------------------------------------
(* The inductive invariant. *)

(* What bind has made sure of, on a table that is what it found. *)
Fits ==
    LET p == table.package
    IN  /\ geometry.erase \in Nat \ {0} /\ geometry.write \in Nat \ {0}
        /\ SlotIoBytes % geometry.write = 0 /\ geometry.erase % geometry.write = 0
        /\ p.address + p.size < Word
        /\ \A k \in SlotIndex :
              LET r == geometry.slots[k]
              IN  /\ r.offset \in Nat /\ r.size \in Nat \ {0}
                  /\ r.offset % geometry.erase = 0 /\ r.size % geometry.erase = 0
                  /\ p.address <= r.offset
                  /\ r.offset + r.size <= p.address + p.size
        /\ \A j, k \in SlotIndex : j # k => ~Overlap(geometry.slots[k], geometry.slots[j])
        /\ ~Overlap([offset |-> p.address, size |-> p.size],
                    [offset |-> table.nvs.address, size |-> table.nvs.size])

Own == geometry.slots[slot]

FlashTypes ==
    /\ table \in Tables
    /\ pc \in {"idle", "erase", "write", "hash", "validate"}
    /\ slot \in SlotIndex /\ size \in Nat /\ offset \in Nat
    /\ cell \in [Addresses -> {"old", "blank", "data", "spoilt"}]

(* An operation is about one slot, which its package fits. *)
OperationInv ==
    /\ geometry # Unbound => Fits
    /\ pc # "idle" => size > 0
    /\ size > 0 => geometry # Unbound /\ size <= Own.size
    /\ size = 0 => access.op = "none"
    /\ access.op = "read" =>
          /\ Own.offset <= access.from
          /\ access.from + access.count <= Own.offset + size
          /\ access.from + access.count < Word

(* The cells of the slot: programmed up to the offset, blank behind it.    *)
(* The offset is on a write unit unless the package has ended.             *)
CellInv ==
    /\ \A a \in Addresses : cell[a] # "old" =>
          size > 0 /\ Own.offset <= a /\ a < Own.offset + Own.size
    /\ \A a \in Addresses : cell[a] # "spoilt"
    /\ pc = "erase" => offset = 0
    /\ pc \in {"write", "hash"} => offset <= size
    /\ pc = "write" /\ offset < size =>
          /\ offset % geometry.write = 0
          /\ \A a \in Addresses :
                Own.offset + offset <= a /\ a < Own.offset + Own.size => cell[a] = "blank"
    /\ \A a \in Addresses :
          /\ pc \in {"write", "hash", "validate"} /\ Own.offset <= a
          /\ a < Own.offset + IF pc = "write" THEN offset ELSE size
          => cell[a] = "data"

FlashInv == FlashTypes /\ OperationInv /\ CellInv /\ refused = FALSE

-----------------------------------------------------------------------------
(* What an accepted geometry gives. *)

LEMMA TableTypes ==
    ASSUME FlashAssumption, table \in Tables
    PROVE  /\ Word \in Nat \ {0}
           /\ table.package.address \in Nat /\ table.package.size \in Nat
           /\ table.package.erase \in Nat
           /\ table.nvs.address \in Nat /\ table.nvs.size \in Nat
BY DEF FlashAssumption, Partition, Addresses

(* econtainer_slots_idf_bind stores a geometry that fits the table. *)
LEMMA BindFits ==
    ASSUME FlashAssumption, table \in Tables, NEW c \in Configs, PartitionsMatch(c),
           GeometryValid(Geometry(c)), geometry' = Geometry(c), table' = table
    PROVE  Fits'
<1> DEFINE g == Geometry(c)
           p == table.package
<1>1. /\ g.partition = c.package /\ g.erase = p.erase /\ g.slots = c.slots
      /\ g.write \in {EncryptedWrite, PlainWrite}
  BY DEF Geometry
<1>2. /\ p.address = c.package.offset /\ p.size = c.package.size
      /\ c.package = [offset |-> p.address, size |-> p.size]
      /\ c.nvs = [offset |-> table.nvs.address, size |-> table.nvs.size]
      /\ ~Overlap(c.package, c.nvs)
  BY DEF PartitionsMatch
<1>3. /\ g.write \in Nat \ {0} /\ g.erase \in Nat \ {0}
      /\ SlotIoBytes % g.write = 0 /\ g.erase % g.write = 0
      /\ p.address + p.size < Word
  <2>1. g.write \in Nat \ {0}
    BY <1>1 DEF FlashAssumption
  <2>2. g.erase \in Nat \ {0}
    BY <1>1, TableTypes DEF GeometryValid, UnitsValid
  <2>3. p.address + p.size <= Word - 1
    BY <1>1, <1>2 DEF GeometryValid, UnitsValid
  <2> QED
    BY <2>1, <2>2, <2>3, TableTypes DEF GeometryValid, UnitsValid
<1>4. ASSUME NEW k \in SlotIndex
      PROVE  LET r == g.slots[k]
             IN  /\ r.offset \in Nat /\ r.size \in Nat \ {0}
                 /\ r.offset % g.erase = 0 /\ r.size % g.erase = 0
                 /\ p.address <= r.offset
                 /\ r.offset + r.size <= p.address + p.size
  <2>1. c.slots[k].offset \in Nat /\ c.slots[k].size \in Nat
    BY <1>4 DEF FlashAssumption, Region, Addresses
  <2>2. RegionValid(g, g.slots[k])
    BY <1>4 DEF GeometryValid
  <2> QED
    BY <1>1, <1>2, <2>1, <2>2, TableTypes DEF RegionValid
<1>5. ASSUME NEW j \in SlotIndex, NEW k \in SlotIndex, j # k
      PROVE  ~Overlap(g.slots[k], g.slots[j])
  BY <1>5 DEF GeometryValid, Overlap, SlotIndex
<1>6. geometry' = g /\ table' = table
  OBVIOUS
<1> HIDE DEF g
<1> QED
  BY <1>2, <1>3, <1>4, <1>5, <1>6 DEF Fits

(* The slot of an operation, as seen from the provider. *)
LEMMA OwnFacts ==
    ASSUME FlashAssumption, FlashTypes, OperationInv, size > 0
    PROVE  /\ Own.offset \in Nat /\ Own.size \in Nat \ {0} /\ size <= Own.size
           /\ Own.offset + Own.size < Word
           /\ table.package.address \in Nat /\ table.package.size \in Nat
           /\ table.package.address <= Own.offset
           /\ Own.offset + Own.size <= table.package.address + table.package.size
           /\ geometry.erase \in Nat \ {0} /\ geometry.write \in Nat \ {0}
           /\ Own.offset % geometry.erase = 0 /\ Own.size % geometry.erase = 0
           /\ Own.offset % geometry.write = 0 /\ Own.size % geometry.write = 0
           /\ SlotIoBytes % geometry.write = 0
<1>1. Fits /\ slot \in SlotIndex /\ size <= Own.size
  BY DEF OperationInv, FlashTypes
<1>2. /\ Own.offset \in Nat /\ Own.size \in Nat \ {0}
      /\ Own.offset % geometry.erase = 0 /\ Own.size % geometry.erase = 0
      /\ table.package.address <= Own.offset
      /\ Own.offset + Own.size <= table.package.address + table.package.size
  BY <1>1 DEF Fits, Own
<1>3. /\ table.package.address + table.package.size < Word
      /\ geometry.erase \in Nat \ {0} /\ geometry.write \in Nat \ {0}
      /\ SlotIoBytes % geometry.write = 0 /\ geometry.erase % geometry.write = 0
  BY <1>1 DEF Fits
<1>4. /\ table.package.address \in Nat /\ table.package.size \in Nat /\ Word \in Nat
  BY TableTypes DEF FlashTypes
<1>5. Own.offset % geometry.write = 0 /\ Own.size % geometry.write = 0
  BY <1>2, <1>3, UnitsNest
<1>6. Own.offset + Own.size < Word
  BY <1>2, <1>3, <1>4
<1> QED
  BY <1>1, <1>2, <1>3, <1>4, <1>5, <1>6

(* The provider lets through what lies in the slot, and to that place. *)
LEMMA Reaches ==
    ASSUME FlashAssumption, FlashTypes, OperationInv, size > 0,
           NEW from \in Nat, NEW count \in Nat \ {0},
           Own.offset <= from, from + count <= Own.offset + Own.size
    PROVE  RangeValid(from, count) /\ Device(from, count) = Range(from, count)
<1>1. RangeValid(from, count)
  BY OwnFacts DEF RangeValid
<1>2. Plus(table.package.address, from - table.package.address) = from
  <2>1. /\ table.package.address \in Int /\ from - table.package.address \in Int
        /\ table.package.address + (from - table.package.address) = from
        /\ from < Word
    BY OwnFacts, TableTypes DEF FlashTypes
  <2> QED
    BY <2>1, PlusFacts
<1> QED
  BY <1>1, <1>2 DEF Device

(* A transfer takes what is left or a full buffer. *)
LEMMA ActualFacts ==
    ASSUME FlashAssumption, FlashTypes, offset < size
    PROVE  /\ Actual \in Nat \ {0} /\ Actual <= size - offset
           /\ offset + Actual < size => Actual = SlotIoBytes
BY DEF FlashAssumption, FlashTypes, Actual, Min

(* A chunk of the write loop lies in the slot and on write units.  It only *)
(* passes the end of its data at the end of the package.                   *)
LEMMA ChunkFacts ==
    ASSUME FlashAssumption, FlashTypes, OperationInv, CellInv, pc = "write", offset < size
    PROVE  /\ Aligned(Actual) \in Nat \ {0} /\ Actual <= Aligned(Actual)
           /\ offset + Aligned(Actual) <= Own.size
           /\ Plus(Own.offset, offset) = Own.offset + offset
           /\ (Own.offset + offset) % geometry.write = 0
           /\ Aligned(Actual) % geometry.write = 0
           /\ offset + Actual < size => Aligned(Actual) = Actual
<1>1. size > 0 /\ offset \in Nat /\ size \in Nat
  BY DEF FlashTypes, OperationInv
<1>2. /\ Own.offset \in Nat /\ Own.size \in Nat /\ size <= Own.size
      /\ Own.offset + Own.size < Word
      /\ geometry.write \in Nat \ {0}
      /\ Own.offset % geometry.write = 0 /\ Own.size % geometry.write = 0
      /\ SlotIoBytes % geometry.write = 0
  BY <1>1, OwnFacts
<1>3. /\ Actual \in Nat \ {0} /\ Actual <= size - offset
      /\ offset + Actual < size => Actual = SlotIoBytes
  BY ActualFacts
<1>4. Aligned(Actual) = RoundUp(Actual, geometry.write)
  BY DEF Aligned, RoundUp
<1>5. offset % geometry.write = 0
  BY DEF CellInv
<1>5a. /\ offset <= Own.size /\ Word \in Nat
      /\ Own.offset + offset \in Nat /\ Own.offset + offset < Word
  BY <1>1, <1>2 DEF FlashAssumption
<1>6. Own.size - offset \in Nat /\ (Own.size - offset) % geometry.write = 0
  <2>1. /\ Own.size \in Nat /\ offset \in Nat /\ geometry.write \in Nat \ {0}
        /\ offset <= Own.size
    BY ONLY <1>1, <1>2, <1>5a
  <2> QED
    BY ONLY <1>2, <1>5, <2>1, UnitsSubtract
<1>7. Actual <= Own.size - offset
  BY <1>1, <1>2, <1>3
<1>8. /\ Aligned(Actual) \in Nat /\ Aligned(Actual) % geometry.write = 0
      /\ Actual <= Aligned(Actual)
      /\ \A m \in Nat : Actual <= m /\ m % geometry.write = 0 => Aligned(Actual) <= m
  <2>1. Actual \in Nat /\ geometry.write \in Nat \ {0}
    BY ONLY <1>2, <1>3
  <2> QED
    BY ONLY <1>4, <2>1, RoundUpFacts
<1>9. Aligned(Actual) <= Own.size - offset
  BY <1>6, <1>7, <1>8
<1>10. (Own.offset + offset) % geometry.write = 0
  BY <1>1, <1>2, <1>5, UnitsAdd
<1>11. Plus(Own.offset, offset) = Own.offset + offset
  BY <1>5a, <1>1, <1>2, PlusFacts
<1>12. offset + Actual < size => Aligned(Actual) = Actual
  BY <1>2, <1>3, <1>8
<1> QED
  BY <1>1, <1>2, <1>3, <1>8, <1>9, <1>10, <1>11, <1>12

(* A read of part of the package is within the bounds of the reader and of *)
(* the provider; one that passes both ends in the package.                 *)
LEMMA ReadFacts ==
    ASSUME FlashAssumption, FlashTypes, OperationInv, size > 0,
           NEW at \in Nat, NEW count \in Nat \ {0}
    PROVE  /\ at + count <= size =>
                 RelativeValid(at, count) /\ RangeValid(Plus(Own.offset, at), count)
           /\ RelativeValid(at, count) =>
                 /\ Plus(Own.offset, at) = Own.offset + at
                 /\ Own.offset + at + count <= Own.offset + size
                 /\ Own.offset + at + count < Word
<1>1. /\ Own.offset \in Nat /\ Own.size \in Nat /\ size \in Nat /\ size <= Own.size
      /\ Own.offset + Own.size < Word /\ Word \in Nat
  BY OwnFacts, TableTypes DEF FlashTypes
<1>2. ASSUME at + count <= size
      PROVE  RelativeValid(at, count) /\ RangeValid(Plus(Own.offset, at), count)
  <2>1. RelativeValid(at, count)
    BY <1>1, <1>2 DEF RelativeValid, Own
  <2>2. Plus(Own.offset, at) = Own.offset + at
    BY <1>1, <1>2, PlusFacts
  <2>3. RangeValid(Own.offset + at, count)
    BY <1>1, <1>2, Reaches
  <2> QED
    BY <2>1, <2>2, <2>3
<1>3. ASSUME RelativeValid(at, count)
      PROVE  /\ Plus(Own.offset, at) = Own.offset + at
             /\ Own.offset + at + count <= Own.offset + size
             /\ Own.offset + at + count < Word
  <2>1. at + count <= size
    BY <1>1, <1>3 DEF RelativeValid
  <2>2. Plus(Own.offset, at) = Own.offset + at
    BY <1>1, <2>1, PlusFacts
  <2> QED
    BY <1>1, <2>1, <2>2
<1> QED
  BY <1>2, <1>3

-----------------------------------------------------------------------------
(* Init and every step of Next keep the invariant. *)

LEMMA FlashInit == Init => FlashInv
<1> SUFFICES ASSUME Init PROVE FlashInv
  OBVIOUS
<1>1. FlashTypes
  BY DEF Init, FlashTypes, SlotIndex
<1>2. OperationInv
  BY DEF Init, OperationInv, NoAccess
<1>3. CellInv
  BY DEF Init, CellInv
<1> QED
  BY <1>1, <1>2, <1>3 DEF FlashInv, Init

(* A call that ends early changes no cell. *)
LEMMA FailKeeps ==
    ASSUME FlashInv, Fail(FALSE), UNCHANGED <<table, geometry, slot, size>>
    PROVE  FlashInv'
<1>1. FlashTypes'
  BY DEF FlashInv, FlashTypes, Fail
<1>2. OperationInv'
  BY DEF FlashInv, OperationInv, Fail, Fits, Own
<1>3. CellInv'
  BY DEF FlashInv, CellInv, Fail, Own
<1> QED
  BY <1>1, <1>2, <1>3 DEF FlashInv, Fail

LEMMA FlashNext == FlashInv /\ [Next]_vars => FlashInv'
<1> SUFFICES ASSUME FlashInv, [Next]_vars PROVE FlashInv'
  OBVIOUS
<1> USE FlashAssumption
<1>a. FlashTypes /\ OperationInv /\ CellInv /\ refused = FALSE
  BY DEF FlashInv
<1>b. ASSUME NEW at \in Nat, NEW count \in Nat \ {0}, NEW after \in Nat,
             pc \in {"hash", "validate"},
             pc = "hash" => after <= size,
             RelativeRead(at, count, after), UNCHANGED <<table, geometry, slot, size>>
      PROVE  FlashInv'
  <2>1. size > 0
    BY <1>a, <1>b DEF OperationInv
  <2> DEFINE from == Plus(geometry.slots[slot].offset, at)
             ok   == RelativeValid(at, count) /\ RangeValid(from, count)
  <2>2. at + count <= size => ok
    BY <1>a, <1>b, <2>1, ReadFacts DEF Own
  <2>3. CASE Fail(~ok /\ at + count <= size)
    <3>1. (~ok /\ at + count <= size) = FALSE
      BY <2>2
    <3>2. Fail(FALSE)
      BY <2>3, <3>1, <1>a DEF Fail
    <3> QED
      BY <1>b, <3>2, FailKeeps
  <2>4. CASE ok /\ Touch("read", from, count) /\ offset' = after /\ UNCHANGED <<pc, cell, refused>>
    <3>1. /\ from = Own.offset + at
          /\ Own.offset + at + count <= Own.offset + size
          /\ Own.offset + at + count < Word
      BY <1>a, <1>b, <2>1, <2>4, ReadFacts DEF Own
    <3>2. access'.op = "read" /\ access'.from = from /\ access'.count = count
      BY <2>4 DEF Touch
    <3>3. Own.offset <= from
      BY <1>a, <1>b, <2>1, <3>1, OwnFacts
    <3>4. Own' = Own
      BY <1>b DEF Own
    <3> HIDE DEF from, ok
    <3>5. FlashTypes'
      BY <1>a, <1>b, <2>4 DEF FlashTypes
    <3>6. OperationInv'
      BY <1>a, <1>b, <2>1, <2>4, <3>1, <3>2, <3>3, <3>4 DEF OperationInv, Fits
    <3>7. CellInv'
      BY <1>a, <1>b, <2>1, <2>4, <3>4 DEF CellInv
    <3> QED
      BY <1>a, <2>4, <3>5, <3>6, <3>7 DEF FlashInv
  <2> QED
    BY <1>b, <2>3, <2>4 DEF RelativeRead
<1>1. CASE UNCHANGED vars
  BY <1>1, <1>a DEF vars, FlashInv, FlashTypes, OperationInv, CellInv, Fits, Own
<1>2. CASE Bind
  <2>1. geometry = Unbound /\ size = 0 /\ pc = "idle"
    BY <1>2, <1>a DEF Bind, OperationInv, FlashTypes
  <2>2. geometry' # Unbound => Fits'
    BY <1>2, <1>a, BindFits DEF Bind, FlashTypes
  <2>3. FlashTypes' /\ CellInv'
    BY <1>2, <1>a, <2>1 DEF Bind, FlashTypes, CellInv
  <2>4. OperationInv'
    BY <1>2, <1>a, <2>1, <2>2 DEF Bind, OperationInv
  <2> QED
    BY <1>2, <1>a, <2>3, <2>4 DEF Bind, FlashInv
<1>3. ASSUME NEW k \in SlotIndex, NEW n \in PackageSizes, Start(k, n) PROVE FlashInv'
  <2>1. n \in Nat \ {0}
    BY DEF FlashAssumption
  <2>2. size > 0 => Own' = Own /\ size' = size
    BY <1>3, <1>a DEF Start, Own, FlashTypes
  <2>3. size = 0 => (\A a \in Addresses : cell[a] = "old") /\ access.op = "none"
    BY <1>a DEF OperationInv, CellInv
  <2>4. FlashTypes'
    BY <1>3, <1>a, <2>1 DEF Start, FlashTypes
  <2>5. OperationInv'
    <3>1. Fits' /\ geometry' # Unbound
      BY <1>3, <1>a DEF Start, OperationInv, Fits
    <3>2. size' > 0 /\ size' <= Own'.size
      BY <1>3, <2>1 DEF Start, Own
    <3> QED
      BY <1>3, <1>a, <2>1, <2>2, <2>3, <3>1, <3>2 DEF Start, OperationInv, FlashTypes
  <2>6. CellInv'
    <3>1. size' > 0 /\ pc' = "erase" /\ offset' = 0 /\ UNCHANGED cell
      BY <1>3, <2>1 DEF Start
    <3> QED
      BY <1>a, <2>2, <2>3, <3>1 DEF CellInv, FlashTypes
  <2> QED
    BY <1>3, <1>a, <2>4, <2>5, <2>6 DEF Start, FlashInv
<1>4. CASE Erase
  <2>1. size > 0 /\ pc = "erase" /\ offset = 0
    BY <1>4, <1>a DEF Erase, OperationInv, CellInv
  <2>2. /\ RangeValid(Own.offset, Own.size)
        /\ Own.offset % geometry.erase = 0 /\ Own.size % geometry.erase = 0
        /\ Device(Own.offset, Own.size) = Range(Own.offset, Own.size)
    BY <1>a, <2>1, OwnFacts, Reaches
  <2>3. CASE Fail(FALSE)
    BY <1>4, <2>3, FailKeeps DEF Erase
  <2>4. CASE /\ pc' = "write"
             /\ cell' = [a \in Addresses |->
                            IF a \in Range(Own.offset, Own.size) THEN "blank" ELSE cell[a]]
             /\ Touch("erase", Own.offset, Own.size)
             /\ UNCHANGED <<offset, refused>>
    <3>1. UNCHANGED <<table, geometry, slot, size>> /\ Own' = Own
      BY <1>4 DEF Erase, Own
    <3>2. FlashTypes'
      BY <1>a, <2>4, <3>1 DEF FlashTypes
    <3>3. OperationInv'
      BY <1>a, <2>1, <2>4, <3>1 DEF OperationInv, Fits, Touch, FlashTypes
    <3>4. /\ Own.offset \in Nat /\ Own.size \in Nat
          /\ \A a \in Addresses : a \in Range(Own.offset, Own.size) <=>
                Own.offset <= a /\ a < Own.offset + Own.size
      <4>1. Own.offset \in Nat /\ Own.size \in Nat
        BY <1>a, <2>1, OwnFacts
      <4>2. Addresses \subseteq Nat
        BY DEF Addresses, FlashAssumption
      <4> QED
        BY <4>1, <4>2 DEF Range
    <3>5. 0 % geometry.write = 0
      BY <1>a, <2>1, OwnFacts, Division
    <3>6. CellInv'
      BY <1>a, <2>1, <2>4, <3>1, <3>4, <3>5, TableTypes DEF CellInv, Addresses, FlashTypes
    <3> QED
      BY <1>a, <2>4, <3>2, <3>3, <3>6 DEF FlashInv
  <2> QED
    BY <1>4, <1>a, <2>2, <2>3, <2>4 DEF Erase, Own, Fail
<1>5. CASE WriteChunk
  <2> DEFINE from == Own.offset + offset
             count == Aligned(Actual)
  <2>1. size > 0 /\ pc = "write" /\ offset < size
    BY <1>5, <1>a DEF WriteChunk, OperationInv
  <2>2. /\ Own.offset \in Nat /\ Own.size \in Nat /\ size <= Own.size
        /\ offset \in Nat /\ size \in Nat /\ Word \in Nat
    BY <1>a, <2>1, OwnFacts, TableTypes DEF FlashTypes
  <2>3. /\ count \in Nat \ {0} /\ Actual <= count
        /\ offset + count <= Own.size
        /\ Plus(Own.offset, offset) = from
        /\ from % geometry.write = 0 /\ count % geometry.write = 0
        /\ offset + Actual < size => count = Actual
    BY <1>a, <2>1, ChunkFacts
  <2>4. RangeValid(from, count) /\ Device(from, count) = Range(from, count)
    BY <1>a, <2>1, <2>2, <2>3, Reaches
  <2>5. CASE Fail(FALSE)
    BY <1>5, <2>5, FailKeeps DEF WriteChunk
  <2>6. CASE /\ cell' = [a \in Addresses |->
                            IF a \in Range(from, count) THEN Programmed(a) ELSE cell[a]]
             /\ offset' = offset + Actual
             /\ Touch("write", from, count)
             /\ UNCHANGED <<pc, refused>>
    <3>1. UNCHANGED <<table, geometry, slot, size>> /\ Own' = Own
      BY <1>5 DEF WriteChunk, Own
    <3>2. Actual \in Nat \ {0} /\ Actual <= size - offset
      BY <1>a, <2>1, ActualFacts
    <3> HIDE DEF count
    <3>3. \A a \in Addresses : a \in Range(from, count) <=>
             Own.offset + offset <= a /\ a < Own.offset + offset + count
      BY <2>2, <2>3 DEF Range, Addresses
    <3>4. \A a \in Addresses : a \in Range(from, count) => Programmed(a) = "data"
      <4> TAKE a \in Addresses
      <4>1. a \in Nat
        BY <2>2 DEF Addresses
      <4>2. a \in Range(from, count) => Own.offset + offset <= a /\ a < Own.offset + Own.size
        BY <2>2, <2>3, <3>3, <4>1
      <4> QED
        BY <1>a, <2>1, <4>2 DEF CellInv, Programmed
    <3>5. \A a \in Addresses : cell'[a] = IF a \in Range(from, count) THEN "data" ELSE cell[a]
      BY <2>6, <3>4
    <3>6. FlashTypes'
      <4>1. cell' \in [Addresses -> {"old", "blank", "data", "spoilt"}]
        BY <1>a, <2>6, <3>4 DEF FlashTypes
      <4>2. offset' \in Nat
        BY <2>2, <2>6, <3>2
      <4> QED
        BY <1>a, <2>6, <3>1, <4>1, <4>2 DEF FlashTypes
    <3>7. OperationInv'
      BY <1>a, <2>1, <2>6, <3>1 DEF OperationInv, Fits, Touch
    <3>8. CellInv'
      <4>1. offset' \in Nat /\ offset' <= size /\ pc' = "write"
        BY <2>1, <2>2, <2>6, <3>2
      <4>2. ASSUME NEW a \in Addresses
            PROVE  /\ cell'[a] # "spoilt"
                   /\ cell'[a] # "old" => Own.offset <= a /\ a < Own.offset + Own.size
                   /\ Own.offset <= a /\ a < Own.offset + offset' => cell'[a] = "data"
                   /\ offset' < size /\ Own.offset + offset' <= a /\ a < Own.offset + Own.size =>
                         cell'[a] = "blank"
        <5>1. a \in Nat
          BY <2>2 DEF Addresses
        <5>2. CASE a \in Range(from, count)
          <6>1. cell'[a] = "data" /\ Own.offset + offset <= a /\ a < Own.offset + offset + count
            BY <3>3, <3>5, <5>2
          <6>2. offset' < size => offset' = offset + count
            BY <2>3, <2>6
          <6> QED
            BY <2>2, <2>3, <4>1, <5>1, <6>1, <6>2
        <5>3. CASE a \notin Range(from, count)
          <6>1. cell'[a] = cell[a]
            BY <3>5, <5>3
          <6>2. a < Own.offset + offset \/ Own.offset + offset + count <= a
            BY <2>2, <2>3, <3>3, <5>1, <5>3
          <6>3. offset' <= offset + count
            BY <2>2, <2>3, <2>6, <3>2
          <6>4. Own.offset <= a /\ a < Own.offset + offset' => cell[a] = "data"
            <7>1. Own.offset <= a /\ a < Own.offset + offset' => a < Own.offset + offset
              BY <2>2, <2>3, <4>1, <5>1, <6>2, <6>3
            <7> QED
              BY <1>a, <2>1, <7>1 DEF CellInv
          <6>5. Own.offset + offset' <= a /\ a < Own.offset + Own.size => cell[a] = "blank"
            <7>1. Own.offset + offset' <= a => Own.offset + offset <= a
              BY <2>2, <2>6, <3>2, <5>1
            <7> QED
              BY <1>a, <2>1, <7>1 DEF CellInv
          <6> QED
            BY <1>a, <6>1, <6>4, <6>5 DEF CellInv
        <5> QED
          BY <5>2, <5>3
      <4>3. offset' < size => offset' % geometry.write = 0
        <5>1. offset % geometry.write = 0
          BY <1>a, <2>1 DEF CellInv
        <5>2. geometry.write \in Nat \ {0}
          BY <1>a, <2>1, OwnFacts
        <5>3. (offset + count) % geometry.write = 0
          BY <2>2, <2>3, <5>1, <5>2, UnitsAdd
        <5> QED
          BY <2>3, <2>6, <5>3
      <4> QED
        BY <2>1, <3>1, <4>1, <4>2, <4>3 DEF CellInv
    <3> QED
      BY <1>a, <2>6, <3>6, <3>7, <3>8 DEF FlashInv
  <2> QED
    BY <1>5, <1>a, <2>3, <2>4, <2>5, <2>6 DEF WriteChunk, Own, Fail
<1>6. CASE WriteDone
  <2>1. Own' = Own /\ offset = size
    BY <1>6, <1>a DEF WriteDone, Own, CellInv, FlashTypes
  <2>2. size > 0 /\ Own.offset \in Nat /\ size \in Nat
    BY <1>6, <1>a, OwnFacts DEF WriteDone, OperationInv, FlashTypes
  <2>3. FlashTypes' /\ OperationInv'
    BY <1>6, <1>a, <2>1 DEF WriteDone, FlashTypes, OperationInv, Fits
  <2>4. CellInv'
    BY <1>6, <1>a, <2>1, <2>2 DEF WriteDone, CellInv
  <2> QED
    BY <1>6, <1>a, <2>3, <2>4 DEF WriteDone, FlashInv
<1>7. CASE HashChunk
  <2>1. /\ offset \in Nat /\ size \in Nat /\ offset < size
        /\ Actual \in Nat \ {0} /\ Actual <= size - offset
    BY <1>7, <1>a, ActualFacts DEF HashChunk, FlashTypes
  <2>2. offset + Actual \in Nat /\ offset + Actual <= size
    BY <2>1
  <2> QED
    BY <1>7, <2>1, <2>2, <1>b DEF HashChunk
<1>8. CASE HashDone
  <2>1. Own' = Own
    BY <1>8 DEF HashDone, Own
  <2>2. FlashTypes' /\ OperationInv'
    BY <1>8, <1>a, <2>1 DEF HashDone, FlashTypes, OperationInv, Fits
  <2>3. CellInv'
    BY <1>8, <1>a, <2>1 DEF HashDone, CellInv
  <2> QED
    BY <1>8, <1>a, <2>2, <2>3 DEF HashDone, FlashInv
<1>9. CASE Validated
  <2>1. Own' = Own
    BY <1>9 DEF Validated, Own
  <2>2. FlashTypes' /\ OperationInv'
    BY <1>9, <1>a, <2>1 DEF Validated, FlashTypes, OperationInv, Fits
  <2>3. CellInv'
    BY <1>9, <1>a, <2>1 DEF Validated, CellInv
  <2> QED
    BY <1>9, <1>a, <2>2, <2>3 DEF Validated, FlashInv
<1>10. ASSUME NEW at \in Addresses, NEW count \in 0..SlotIoBytes, ValidatorRead(at, count)
       PROVE  FlashInv'
  <2>1. at \in Nat /\ count \in Nat \ {0}
    BY <1>10, <1>a, TableTypes DEF ValidatorRead, Addresses, FlashAssumption, FlashTypes
  <2> QED
    BY <1>10, <1>a, <2>1, <1>b DEF ValidatorRead, FlashTypes
<1>11. CASE PowerLoss
  BY <1>11, FailKeeps DEF PowerLoss
<1> QED
  BY <1>1, <1>2, <1>3, <1>4, <1>5, <1>6, <1>7, <1>8, <1>9, <1>10, <1>11 DEF Next

-----------------------------------------------------------------------------
(* The theorems. *)

(* The inductive invariant holds in every reachable state. *)
THEOREM FlashAlways == Spec => []FlashInv
BY FlashInit, FlashNext, PTL DEF Spec

(* erase, write and the reads of hash_flash and of the validator keep to   *)
(* the slot of the operation, in whatever geometry bind accepts, up to the *)
(* last address of 32 bits.                                                *)
THEOREM KeepsToOwnSlot == Spec => []OwnSlotOnly
<1>1. FlashInv => OwnSlotOnly
  <2> SUFFICES ASSUME FlashInv PROVE OwnSlotOnly
    OBVIOUS
  <2> USE FlashAssumption
  <2>a. FlashTypes /\ OperationInv /\ CellInv
    BY DEF FlashInv
  <2>1. ASSUME NEW a \in Addresses, cell[a] # "old"
        PROVE  /\ a \in Range(Own.offset, Own.size)
               /\ \A k \in SlotIndex \ {slot} :
                     a \notin Range(geometry.slots[k].offset, geometry.slots[k].size)
               /\ a \in Range(table.package.address, table.package.size)
               /\ a \notin Range(table.nvs.address, table.nvs.size)
    <3>1. size > 0 /\ Own.offset <= a /\ a < Own.offset + Own.size
      BY <2>a, <2>1 DEF CellInv
    <3>2. Fits /\ a \in Nat /\ slot \in SlotIndex
      BY <2>a, <2>1, <3>1 DEF OperationInv, FlashTypes, FlashAssumption, Addresses
    <3>3. /\ table.package.address \in Nat /\ table.package.size \in Nat
          /\ table.nvs.address \in Nat /\ table.nvs.size \in Nat
          /\ \A k \in SlotIndex : geometry.slots[k].offset \in Nat /\ geometry.slots[k].size \in Nat
      BY <2>a, <3>2, TableTypes DEF FlashTypes, Fits
    <3>4. /\ Own.offset \in Nat /\ Own.size \in Nat
          /\ table.package.address <= Own.offset
          /\ Own.offset + Own.size <= table.package.address + table.package.size
      BY <2>a, <3>1, OwnFacts
    <3>5. /\ a \in Range(Own.offset, Own.size)
          /\ a \in Range(table.package.address, table.package.size)
      BY <3>1, <3>2, <3>3, <3>4 DEF Range
    <3>6. ASSUME NEW k \in SlotIndex, k # slot
          PROVE  a \notin Range(geometry.slots[k].offset, geometry.slots[k].size)
      <4>1. ~Overlap(geometry.slots[k], Own)
        BY <3>2, <3>6 DEF Fits, Own
      <4> QED
        BY <3>1, <3>2, <3>3, <3>4, <4>1 DEF Overlap, Range
    <3>7. a \notin Range(table.nvs.address, table.nvs.size)
      <4>1. ~Overlap([offset |-> table.package.address, size |-> table.package.size],
                     [offset |-> table.nvs.address, size |-> table.nvs.size])
        BY <3>2 DEF Fits
      <4> QED
        BY <3>1, <3>2, <3>3, <3>4, <4>1 DEF Overlap, Range
    <3> QED
      BY <3>5, <3>6, <3>7
  <2>2. access.op = "read" =>
           /\ access.from >= Own.offset
           /\ access.from + access.count <= Own.offset + size
           /\ access.from + access.count < Word
    BY <2>a DEF OperationInv
  <2> QED
    BY <2>1, <2>2 DEF OwnSlotOnly, Own
<1> QED
  BY <1>1, FlashAlways, PTL

(* The checks of the provider refuse nothing the engine asks for: a        *)
(* geometry bind accepts can be erased, written and read.                  *)
THEOREM NothingRefused == Spec => []NoSpuriousRefusal
<1>1. FlashInv => NoSpuriousRefusal
  BY DEF FlashInv, NoSpuriousRefusal
<1> QED
  BY <1>1, FlashAlways, PTL

(* The erase and write loops of write_and_prepare program every byte of    *)
(* the package once, whatever the units, and after a repeated call too.    *)
THEOREM EachByteOnce == Spec => []ProgrammedOnce
<1>1. FlashInv => ProgrammedOnce
  <2> SUFFICES ASSUME FlashInv PROVE ProgrammedOnce
    OBVIOUS
  <2> USE FlashAssumption
  <2>a. FlashTypes /\ OperationInv /\ CellInv
    BY DEF FlashInv
  <2>1. \A a \in Addresses : cell[a] # "spoilt"
    BY <2>a DEF CellInv
  <2>2. ASSUME pc \in {"hash", "validate"}, NEW a \in Range(Own.offset, size)
        PROVE  cell[a] = "data"
    <3>1. size > 0
      BY <2>a, <2>2 DEF OperationInv
    <3>2. /\ Own.offset \in Nat /\ Own.size \in Nat /\ size \in Nat /\ size <= Own.size
          /\ Own.offset + Own.size < Word /\ Word \in Nat
      BY <2>a, <3>1, OwnFacts, TableTypes DEF FlashTypes
    <3>3. a \in Addresses /\ Own.offset <= a /\ a < Own.offset + size
      BY <2>2, <3>2 DEF Range, Addresses
    <3> QED
      BY <2>a, <2>2, <3>3 DEF CellInv
  <2> QED
    BY <2>1, <2>2 DEF ProgrammedOnce, Own
<1> QED
  BY <1>1, FlashAlways, PTL

-----------------------------------------------------------------------------
(* provider_read_blob and provider_write_blob *)

HoldsHandle == {"read_size", "read_value", "set_blob", "commit"}
Writing     == {"write_open", "set_blob", "commit"}

(* The inductive invariant: a handle is open exactly between nvs_open and  *)
(* nvs_close, a value is staged exactly between nvs_set_blob and           *)
(* nvs_commit, the value is read only after its size was found right, and  *)
(* there is no entry without a namespace.                                  *)
NvsInv ==
    /\ nvs_pc \in {"idle", "read_open", "write_open"} \cup HoldsHandle
    /\ handles = IF nvs_pc \in HoldsHandle THEN 1 ELSE 0
    /\ staged = IF nvs_pc = "commit" THEN {blob} ELSE {}
    /\ nvs_pc \in Writing => blob \in Blobs
    /\ nvs_pc = "read_value" => entry \in Blobs
    /\ entry \in Blobs \cup {Absent, Damaged}
    /\ namespace \in BOOLEAN
    /\ ~namespace => entry = Absent /\ nvs_pc \notin HoldsHandle

LEMMA InvInit == NvsInit => NvsInv
BY DEF NvsInit, NvsInv, HoldsHandle, Writing

(* Every call of the library and every loss of power keeps NvsInv. *)
LEMMA InvNext == NvsInv /\ [NvsNext]_nvs_vars => NvsInv'
<1> SUFFICES ASSUME NvsInv, [NvsNext]_nvs_vars PROVE NvsInv'
  OBVIOUS
<1> USE DEF NvsInv, HoldsHandle, Writing
<1>1. CASE UNCHANGED nvs_vars
  BY <1>1 DEF nvs_vars
<1>2. CASE ReadBlob
  BY <1>2 DEF ReadBlob
<1>3. CASE ReadOpen
  BY <1>3 DEF ReadOpen, Return
<1>4. CASE ReadSize
  BY <1>4 DEF ReadSize, Return
<1>5. CASE ReadValue
  BY <1>5 DEF ReadValue, Return
<1>6. ASSUME NEW b \in Blobs, WriteBlob(b) PROVE NvsInv'
  BY <1>6 DEF WriteBlob
<1>7. CASE WriteOpen
  <2>1. namespace' \in BOOLEAN
    BY <1>7 DEF WriteOpen, Return
  <2>2. handles' = IF nvs_pc' \in HoldsHandle THEN 1 ELSE 0
    BY <1>7 DEF WriteOpen, Return
  <2>3. ~namespace' => entry' = Absent /\ nvs_pc' \notin HoldsHandle
    <3>1. CASE namespace' = TRUE
      BY <3>1
    <3>2. CASE UNCHANGED namespace /\ nvs_pc' = "idle"
      BY <1>7, <3>2 DEF WriteOpen
    <3> QED
      BY <1>7, <3>1, <3>2 DEF WriteOpen, Return
  <2> QED
    BY <1>7, <2>1, <2>2, <2>3 DEF WriteOpen, Return
<1>8. CASE SetBlob
  BY <1>8 DEF SetBlob, Return
<1>9. CASE Commit
  BY <1>9 DEF Commit, Return, Settle
<1>10. CASE NvsPowerLoss
  BY <1>10 DEF NvsPowerLoss, Settle
<1> QED
  BY <1>1, <1>2, <1>3, <1>4, <1>5, <1>6, <1>7, <1>8, <1>9, <1>10 DEF NvsNext

(* NvsInv holds in every reachable state. *)
THEOREM NvsAlways == NvsSpec => []NvsInv
BY InvInit, InvNext, PTL DEF NvsSpec

(* provider_read_blob and provider_write_blob close the handle they opened *)
(* on every way out.                                                       *)
THEOREM NoHandleLeaks == NvsSpec => []HandlesClosed
<1>1. NvsInv => HandlesClosed
  BY DEF NvsInv, HandlesClosed, HoldsHandle
<1> QED
  BY <1>1, NvsAlways, PTL

-----------------------------------------------------------------------------
(* The refinement. *)

(* Nothing is in progress at first. *)
LEMMA RegisterStarts == NvsInit => Register!RegisterInit
BY DEF NvsInit, Register!RegisterInit, RegisterCall

(* Every step is a step of the register, or of no concern to it. *)
LEMMA RegisterSteps ==
    NvsInv /\ NvsInv' /\ [NvsNext]_nvs_vars => [Register!RegisterNext]_(Register!register)
<1> SUFFICES ASSUME NvsInv, NvsInv', [NvsNext]_nvs_vars
             PROVE  [Register!RegisterNext]_(Register!register)
  OBVIOUS
<1> USE DEF RegisterCall, Register!register, Register!RegisterNext
<1>1. CASE UNCHANGED nvs_vars
  BY <1>1 DEF nvs_vars
<1>2. CASE ReadBlob
  BY <1>2 DEF ReadBlob, Register!Read
<1>3. CASE ReadOpen
  BY <1>3 DEF ReadOpen, Return, Register!ReadEnds, NvsInv
<1>4. CASE ReadSize
  BY <1>4 DEF ReadSize, Return, Register!ReadEnds
<1>5. CASE ReadValue
  BY <1>5 DEF ReadValue, Return, Register!ReadEnds, NvsInv
<1>6. ASSUME NEW b \in Blobs, WriteBlob(b) PROVE Register!RegisterNext
  BY <1>6 DEF WriteBlob, Register!Write
<1>7. CASE WriteOpen
  BY <1>7 DEF WriteOpen, Return, Register!WriteEnds
<1>8. CASE SetBlob
  BY <1>8 DEF SetBlob, Return, Register!WriteEnds
<1>9. CASE Commit
  BY <1>9 DEF Commit, Return, Settle, Register!WriteEnds, NvsInv
<1>10. CASE NvsPowerLoss
  BY <1>10 DEF NvsPowerLoss, Settle, Register!PowerLoss, NvsInv
<1> QED
  BY <1>1, <1>2, <1>3, <1>4, <1>5, <1>6, <1>7, <1>8, <1>9, <1>10 DEF NvsNext

(* The two functions implement the register slots.c relies on: "not found" *)
(* is never a failure in disguise, a record found is the stored one, and   *)
(* an acknowledged write is durable.                                       *)
THEOREM ProviderImplementsRegister == NvsSpec => RefinesRegister
BY RegisterStarts, RegisterSteps, NvsAlways, PTL
   DEF NvsSpec, RefinesRegister, Register!RegisterSpec
=============================================================================
