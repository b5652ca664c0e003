-------------------------- MODULE AdmissionProofs --------------------------
(***************************************************************************)
(* Theorems about the three parsers of a Wasm module, for every module,    *)
(* request, authorization and set of limits.  Each parser is a list of     *)
(* checks of which the first that fails decides; the lemmas take such a    *)
(* list apart, show check by check that what package_wasm.c accepts,       *)
(* wasm_scan.c and module_abi_matches accept, and follow an index from the *)
(* numbering of one into that of the other.  The last part is about the    *)
(* list of capabilities in the manifest, which is where the request comes  *)
(* from.                                                                   *)
(***************************************************************************)
EXTENDS WasmAdmission, CapabilityList, SequenceTheorems, WellFoundedInduction, TLAPS

(* Of the checks that fail there is a first. *)
LEMMA FirstOf ==
    ASSUME NEW n \in Nat, NEW S \in SUBSET (1..n), S # {}
    PROVE  \E i \in S : \A j \in 1..(i - 1) : j \notin S
<1> DEFINE Less == {p \in Nat \X Nat : p[1] < p[2]}
<1>1. IsWellFoundedOn(Less, Nat)
  BY NatLessThanWellFounded DEF OpToRel
<1>2. S \subseteq Nat
  OBVIOUS
<1>3. PICK i \in S : \A j \in S : <<j, i>> \notin Less
  <2> HIDE DEF Less
  <2> QED BY <1>1, <1>2, WFMin
<1>4. ASSUME NEW j \in 1..(i - 1), j \in S PROVE FALSE
  <2>1. i \in Nat /\ j \in Nat /\ j < i
    BY <1>2, <1>4
  <2> QED BY <2>1, <1>3, <1>4
<1> QED BY <1>4

(* scan_sections accepts when no section is at fault and none is missing. *)
LEMMA SectionsOK ==
    ASSUME NEW m \in Modules
    PROVE  ScanSections(m) = "OK" <=>
             /\ m.magic
             /\ \A i \in 1..Len(m.sections) : SectionVerdict(m, i) = "OK"
             /\ {1, 3, 5, 7, 10} \subseteq Ids(m)
<1> DEFINE n == Len(m.sections)
           S == {i \in 1..n : SectionVerdict(m, i) # "OK"}
<1>1. n \in Nat
  BY ModulesAssumption
<1>2. FirstFault(n, LAMBDA i : SectionVerdict(m, i)) = "OK"
         <=> \A i \in 1..n : SectionVerdict(m, i) = "OK"
  <2>1. CASE S = {}
    BY <2>1 DEF FirstFault
  <2>2. CASE S # {}
    <3>1. \E i \in S : \A j \in 1..(i - 1) : j \notin S
      <4> HIDE DEF n, S
      <4> QED BY <1>1, <2>2, FirstOf DEF S
    <3>2. \E i \in 1..n : /\ SectionVerdict(m, i) # "OK"
                          /\ \A j \in 1..(i - 1) : SectionVerdict(m, j) = "OK"
      BY <3>1, <1>1
    <3> QED BY <3>2 DEF FirstFault
  <2> QED BY <2>1, <2>2
<1> QED BY <1>2 DEF ScanSections, Then, Check

(* The section an identifier stands for, when all sections are accepted. *)
LEMMA BodyFacts ==
    ASSUME NEW m \in Modules, NEW id \in Nat \ {0}, id \in Ids(m),
           \A i \in 1..Len(m.sections) : m.sections[i].id # 0 => InOrder(m, i)
    PROVE  /\ \E i \in 1..Len(m.sections) :
                 m.sections[i].id = id /\ Body(m, id) = m.sections[i].body
           /\ \A i \in 1..Len(m.sections) :
                 m.sections[i].id = id => Body(m, id) = m.sections[i].body
<1> DEFINE c == CHOOSE i \in DOMAIN m.sections : m.sections[i].id = id
<1>1. Len(m.sections) \in Nat /\ DOMAIN m.sections = 1..Len(m.sections)
  BY ModulesAssumption
<1>2. c \in DOMAIN m.sections /\ m.sections[c].id = id
  BY DEF Ids
<1>3. Body(m, id) = m.sections[c].body
  BY DEF Body
<1>4. ASSUME NEW i \in 1..Len(m.sections), m.sections[i].id = id PROVE i = c
  <2> HIDE DEF c
  <2>1. InOrder(m, i) /\ InOrder(m, c)
    BY <1>1, <1>2, <1>4
  <2>2. ~(i < c)
    BY <2>1, <1>1, <1>2, <1>4 DEF InOrder
  <2>3. ~(c < i)
    BY <2>1, <1>1, <1>2, <1>4 DEF InOrder
  <2> QED BY <2>2, <2>3, <1>1, <1>2
<1> HIDE DEF c
<1> QED BY <1>1, <1>2, <1>3, <1>4

(* Types of the sections that are looked at. *)
LEMMA BodyTypes ==
    ASSUME NEW m \in Modules
    PROVE  /\ \A id \in {1, 2, 3, 7, 10} : id \in Ids(m) =>
                 /\ Len(Body(m, id).items) \in Nat
                 /\ DOMAIN Body(m, id).items = 1..Len(Body(m, id).items)
                 /\ Body(m, id).cut \in BOOLEAN /\ Body(m, id).rest \in BOOLEAN
           /\ 1 \in Ids(m) => \A k \in DOMAIN Body(m, 1).items :
                 Body(m, 1).items[k].results \in Seq(STRING)
           /\ 2 \in Ids(m) => \A k \in DOMAIN Body(m, 2).items :
                 Body(m, 2).items[k].index \in Nat
           /\ 3 \in Ids(m) => Body(m, 3).items \in Seq(Nat)
           /\ 5 \in Ids(m) => Body(m, 5).max \in Nat
           /\ 7 \in Ids(m) => \A k \in DOMAIN Body(m, 7).items :
                 Body(m, 7).items[k].index \in Nat
<1>1. ASSUME NEW id, id \in Ids(m)
      PROVE  \E i \in DOMAIN m.sections :
                 m.sections[i].id = id /\ Body(m, id) = m.sections[i].body
  BY <1>1 DEF Ids, Body
<1>2. \A i \in DOMAIN m.sections : SectionTyped(m.sections[i])
  BY ModulesAssumption
<1>3. ASSUME NEW T, NEW b \in Listing(T)
      PROVE  /\ Len(b.items) \in Nat /\ DOMAIN b.items = 1..Len(b.items)
             /\ \A k \in DOMAIN b.items : b.items[k] \in T
             /\ b.cut \in BOOLEAN /\ b.rest \in BOOLEAN
  <2>1. b.items \in Seq(T) /\ b.cut \in BOOLEAN /\ b.rest \in BOOLEAN
    BY <1>3 DEF Listing
  <2> QED BY <2>1
<1>4. 1 \in Ids(m) =>
        Body(m, 1) \in Listing([func : BOOLEAN, params : Seq(STRING), results : Seq(STRING)])
  BY <1>1, <1>2 DEF SectionTyped
<1>5. 2 \in Ids(m) =>
        Body(m, 2) \in Listing([module : STRING, field : STRING, kind : Nat, index : Nat])
  BY <1>1, <1>2 DEF SectionTyped
<1>6. 3 \in Ids(m) => Body(m, 3) \in Listing(Nat)
  BY <1>1, <1>2 DEF SectionTyped
<1>7. 7 \in Ids(m) => Body(m, 7) \in Listing([name : STRING, kind : Nat, index : Nat])
  BY <1>1, <1>2 DEF SectionTyped
<1>8. 10 \in Ids(m) => Body(m, 10) \in Listing([size : Nat, ends : BOOLEAN])
  BY <1>1, <1>2 DEF SectionTyped
<1>9. 5 \in Ids(m) => Body(m, 5).max \in Nat
  BY <1>1, <1>2 DEF SectionTyped
<1>10. ASSUME NEW id, id \in {1, 2, 3, 7, 10}, id \in Ids(m)
       PROVE  /\ Len(Body(m, id).items) \in Nat
              /\ DOMAIN Body(m, id).items = 1..Len(Body(m, id).items)
              /\ Body(m, id).cut \in BOOLEAN /\ Body(m, id).rest \in BOOLEAN
  BY <1>3, <1>4, <1>5, <1>6, <1>7, <1>8, <1>10, Zenon
<1>11. 1 \in Ids(m) => \A k \in DOMAIN Body(m, 1).items :
                           Body(m, 1).items[k].results \in Seq(STRING)
  <2> DEFINE T == [func : BOOLEAN, params : Seq(STRING), results : Seq(STRING)]
  <2>1. ASSUME 1 \in Ids(m), NEW k \in DOMAIN Body(m, 1).items
        PROVE  Body(m, 1).items[k] \in T
    <3> HIDE DEF T
    <3> QED BY <1>3, <1>4, <2>1, Zenon DEF T
  <2>2. \A x \in T : x.results \in Seq(STRING)
    OBVIOUS
  <2> QED BY <2>1, <2>2, Zenon
<1>12. 2 \in Ids(m) => \A k \in DOMAIN Body(m, 2).items : Body(m, 2).items[k].index \in Nat
  <2> DEFINE T == [module : STRING, field : STRING, kind : Nat, index : Nat]
  <2>1. ASSUME 2 \in Ids(m), NEW k \in DOMAIN Body(m, 2).items
        PROVE  Body(m, 2).items[k] \in T
    <3> HIDE DEF T
    <3> QED BY <1>3, <1>5, <2>1, Zenon DEF T
  <2>2. \A x \in T : x.index \in Nat
    OBVIOUS
  <2> QED BY <2>1, <2>2, Zenon
<1>13. 3 \in Ids(m) => Body(m, 3).items \in Seq(Nat)
  BY <1>6 DEF Listing
<1>14. 7 \in Ids(m) => \A k \in DOMAIN Body(m, 7).items : Body(m, 7).items[k].index \in Nat
  <2> DEFINE T == [name : STRING, kind : Nat, index : Nat]
  <2>1. ASSUME 7 \in Ids(m), NEW k \in DOMAIN Body(m, 7).items
        PROVE  Body(m, 7).items[k] \in T
    <3> HIDE DEF T
    <3> QED BY <1>3, <1>7, <2>1, Zenon DEF T
  <2>2. \A x \in T : x.index \in Nat
    OBVIOUS
  <2> QED BY <2>1, <2>2, Zenon
<1> QED BY <1>9, <1>10, <1>11, <1>12, <1>13, <1>14, Zenon

(* What an accepted section list says of every section. *)
LEMMA SectionFacts ==
    ASSUME NEW m \in Modules, ScanSections(m) = "OK", NEW i \in 1..Len(m.sections)
    PROVE  /\ m.sections[i].cut = FALSE
           /\ m.sections[i].id \in (0..12) \ {4, 8, 9}
           /\ m.sections[i].id # 0 => InOrder(m, i)
<1>1. m.sections[i].id \in Nat /\ m.sections[i].cut \in BOOLEAN
  BY ModulesAssumption DEF SectionTyped
<1>2. SectionVerdict(m, i) = "OK"
  BY SectionsOK
<1>3. m.sections[i].cut = FALSE
  BY <1>1, <1>2 DEF SectionVerdict
<1>4. m.sections[i].id \in (0..12) \ {4, 8, 9}
  BY <1>1, <1>2, <1>3 DEF SectionVerdict
<1>5. ASSUME m.sections[i].id # 0 PROVE InOrder(m, i)
  BY <1>1, <1>2, <1>3, <1>4, <1>5 DEF SectionVerdict, Check
<1> QED BY <1>3, <1>4, <1>5

(* scan_imports accepts when no import is at fault and the bytes are used up. *)
LEMMA ImportsOK ==
    ASSUME NEW m \in Modules, 2 \in Ids(m), ScanImports(m) = "OK"
    PROVE  /\ Count(Body(m, 2)) <= 4
           /\ \A i \in 1..Len(Body(m, 2).items) : ImportVerdict(m, i) = "OK"
           /\ Body(m, 2).cut = FALSE /\ Body(m, 2).rest = FALSE
<1> DEFINE n == Len(Body(m, 2).items)
           S == {i \in 1..n : ImportVerdict(m, i) # "OK"}
<1>1. n \in Nat /\ Body(m, 2).cut \in BOOLEAN /\ Body(m, 2).rest \in BOOLEAN
  BY BodyTypes
<1>2. ASSUME FirstFault(n, LAMBDA i : ImportVerdict(m, i)) = "OK"
      PROVE  \A i \in 1..n : ImportVerdict(m, i) = "OK"
  <2> SUFFICES ASSUME S # {} PROVE FALSE
    OBVIOUS
  <2>1. \E i \in S : \A j \in 1..(i - 1) : j \notin S
    <3> HIDE DEF n, S
    <3> QED BY <1>1, FirstOf DEF S
  <2>2. \E i \in 1..n : /\ ImportVerdict(m, i) # "OK"
                        /\ \A j \in 1..(i - 1) : ImportVerdict(m, j) = "OK"
    BY <2>1, <1>1
  <2> QED BY <1>2, <2>2 DEF FirstFault
<1> QED BY <1>1, <1>2 DEF ScanImports, Then, Check

(* scan_exports accepts four exports, none of them at fault. *)
LEMMA ExportsOK ==
    ASSUME NEW m \in Modules, 7 \in Ids(m), ScanExports(m) = "OK"
    PROVE  /\ Len(Body(m, 7).items) = 4
           /\ \A i \in 1..4 : ExportVerdict(m, i) = "OK"
           /\ Body(m, 7).cut = FALSE /\ Body(m, 7).rest = FALSE
<1> DEFINE n == Len(Body(m, 7).items)
           S == {i \in 1..n : ExportVerdict(m, i) # "OK"}
<1>1. n \in Nat /\ Body(m, 7).cut \in BOOLEAN /\ Body(m, 7).rest \in BOOLEAN
  BY BodyTypes
<1>2. ASSUME FirstFault(n, LAMBDA i : ExportVerdict(m, i)) = "OK"
      PROVE  \A i \in 1..n : ExportVerdict(m, i) = "OK"
  <2> SUFFICES ASSUME S # {} PROVE FALSE
    OBVIOUS
  <2>1. \E i \in S : \A j \in 1..(i - 1) : j \notin S
    <3> HIDE DEF n, S
    <3> QED BY <1>1, FirstOf DEF S
  <2>2. \E i \in 1..n : /\ ExportVerdict(m, i) # "OK"
                        /\ \A j \in 1..(i - 1) : ExportVerdict(m, j) = "OK"
    BY <2>1, <1>1
  <2> QED BY <1>2, <2>2 DEF FirstFault
<1>3. Count(Body(m, 7)) = 4 /\ Body(m, 7).cut = FALSE /\ Body(m, 7).rest = FALSE
  <2>1. Count(Body(m, 7)) = 4 /\ ~Body(m, 7).cut /\ ~Body(m, 7).rest
    BY DEF ScanExports, Then, Check
  <2>2. Body(m, 7).cut = FALSE /\ Body(m, 7).rest = FALSE
    BY ONLY <1>1, <2>1, Zenon
  <2> QED BY ONLY <2>1, <2>2
<1>4. n = 4
  <2>1. Count(Body(m, 7)) = n + 0
    BY ONLY <1>3, Zenon DEF Count
  <2>2. Count(Body(m, 7)) = 4
    BY <1>3
  <2>3. n \in Nat
    BY <1>1
  <2> HIDE DEF n
  <2> QED BY ONLY <2>1, <2>2, <2>3
<1>5. FirstFault(n, LAMBDA i : ExportVerdict(m, i)) = "OK"
  BY DEF ScanExports, Then, Check
<1> QED BY <1>2, <1>3, <1>4, <1>5

(* The two scanners of imports agree on the type of each. *)
LEMMA ImportTypesAgree ==
    ASSUME NEW m \in Modules, 1 \in Ids(m), NEW wanted \in Nat, NEW field \in ImportFields,
           TypeMatches(m, wanted, PackageImportType(field))
    PROVE  ImportTypeMatches(m, wanted, field)
<1> DEFINE b == Body(m, 1)
           t == b.items[wanted + 1]
           type == PackageImportType(field)
<1>1. Len(b.items) \in Nat /\ DOMAIN b.items = 1..Len(b.items)
  BY BodyTypes
<1>2. /\ \A k \in DOMAIN b.items : b.items[k].func
      /\ wanted < Len(b.items)
      /\ t.params = type.params /\ t.results = <<type.result>>
  BY DEF TypeMatches
<1>3. \A k \in 1..(wanted + 1) : b.items[k].func
  BY <1>1, <1>2
<1>4. Len(t.results) = 1 /\ t.results[1] = type.result
  <2> HIDE DEF t, type
  <2> QED BY <1>2
<1>5. CASE field = "monotonic_ms"
  BY <1>2, <1>3, <1>4, <1>5 DEF PackageImportType, ImportTypeMatches, Capability, Clock, Signature
<1>6. CASE field = "log"
  BY <1>2, <1>3, <1>4, <1>6 DEF PackageImportType, ImportTypeMatches, Capability, Log, Signature
<1>7. CASE field = "timer_start"
  BY <1>2, <1>3, <1>4, <1>7
     DEF PackageImportType, ImportTypeMatches, Capability, TStart, Signature
<1>8. CASE field = "timer_cancel"
  BY <1>2, <1>3, <1>4, <1>8
     DEF PackageImportType, ImportTypeMatches, Capability, Cancel, Signature
<1> QED BY <1>5, <1>6, <1>7, <1>8 DEF ImportFields

(* econtainer_package_wasm_check accepts only if every one of its checks   *)
(* does.                                                                   *)
LEMMA PackageOK ==
    ASSUME NEW m \in Modules, NEW r, NEW a, PackageWasmCheck(m, r, a) = "OK"
    PROVE  /\ RequestVerdict(r, a) = "OK"
           /\ ScanSections(m) = "OK" /\ ScanImports(m) = "OK" /\ ScanExports(m) = "OK"
           /\ ImportedCapabilities(m) \subseteq r.caps
           /\ Cardinality({Exported(m, Entries[k]) : k \in 1..3}) = 3
           /\ \A k \in 1..3 : EntryVerdict(m, k) = "OK"
           /\ MemoryWithin(m, r.pages) /\ ScanCode(m)
<1> DEFINE First == FirstFault(3, LAMBDA k : EntryVerdict(m, k))
           S == {k \in 1..3 : EntryVerdict(m, k) # "OK"}
           Distinct == Cardinality({Exported(m, Entries[k]) : k \in 1..3}) = 3
<1>1. PackageWasmCheck(m, r, a) =
        Then(RequestVerdict(r, a),
        Then(ScanSections(m),
        Then(ScanAbi(m),
        Then(Check(ImportedCapabilities(m) \subseteq r.caps, "INVALID"),
        Then(Check(Distinct, "UNSUPPORTED"),
        Then(First, Check(MemoryWithin(m, r.pages) /\ ScanCode(m), "INVALID")))))))
  BY DEF PackageWasmCheck
<1>2. First = "OK" => \A k \in 1..3 : EntryVerdict(m, k) = "OK"
  <2> SUFFICES ASSUME First = "OK", S # {} PROVE FALSE
    OBVIOUS
  <2>1. \E i \in S : \A j \in 1..(i - 1) : j \notin S
    <3>1. S \in SUBSET (1..3) /\ 3 \in Nat
      OBVIOUS
    <3> HIDE DEF S
    <3> QED BY <3>1, FirstOf
  <2>2. \E i \in 1..3 : /\ EntryVerdict(m, i) # "OK"
                        /\ \A j \in 1..(i - 1) : EntryVerdict(m, j) = "OK"
    BY <2>1
  <2> QED BY <2>2 DEF FirstFault
<1> HIDE DEF First, Distinct
<1>3. /\ RequestVerdict(r, a) = "OK" /\ ScanSections(m) = "OK" /\ ScanAbi(m) = "OK"
      /\ ImportedCapabilities(m) \subseteq r.caps
      /\ Distinct /\ First = "OK"
      /\ MemoryWithin(m, r.pages) /\ ScanCode(m)
  BY <1>1 DEF Then, Check
<1>4. ScanImports(m) = "OK" /\ ScanExports(m) = "OK"
  BY <1>3 DEF ScanAbi, Then
<1> QED BY <1>2, <1>3, <1>4 DEF Distinct

(* What package_wasm.c accepts, wasm_scan.c accepts. *)
LEMMA ScannersAgree ==
    ASSUME NEW m \in Modules, ScanSections(m) = "OK", ScanImports(m) = "OK",
           ScanExports(m) = "OK"
    PROVE  ScanModule(m) = "OK"
<1>1. /\ m.magic /\ {1, 3, 5, 7, 10} \subseteq Ids(m)
      /\ Len(m.sections) \in Nat
  BY SectionsOK, ModulesAssumption
<1>2. \A i \in 1..Len(m.sections) :
        /\ m.sections[i].cut = FALSE
        /\ m.sections[i].id \in (0..12) \ {4, 8, 9}
        /\ m.sections[i].id # 0 => InOrder(m, i)
  BY SectionFacts
<1>3. ASSUME NEW i \in 1..Len(m.sections) PROVE ScanSection(m, i) = "OK"
  <2> DEFINE s == m.sections[i]
             inner == Then(FirstFault(Len(s.body.items), LAMBDA k : ScanExport(s.body.items[k])),
                           Check(~s.body.cut /\ ~s.body.rest, "INVALID"))
  <2>1. ASSUME s.id = 7 PROVE inner = "OK"
    <3>1. s.body = Body(m, 7)
      <4>1. 7 \in Nat \ {0} /\ 7 \in Ids(m)
        BY ONLY <1>1
      <4>2. \A j \in 1..Len(m.sections) : m.sections[j].id # 0 => InOrder(m, j)
        BY ONLY <1>2
      <4>3. \A j \in 1..Len(m.sections) :
              m.sections[j].id = 7 => Body(m, 7) = m.sections[j].body
        BY <4>1, <4>2, BodyFacts, Zenon
      <4> QED BY <2>1, <4>3, Zenon
    <3>2. /\ Len(s.body.items) = 4 /\ s.body.cut = FALSE /\ s.body.rest = FALSE
          /\ \A k \in 1..4 : ExportVerdict(m, k) = "OK"
      BY <1>1, <3>1, ExportsOK
    <3>3. ASSUME NEW k \in 1..4 PROVE ScanExport(s.body.items[k]) = "OK"
      <4> DEFINE item == s.body.items[k]
      <4>1. \/ item.name \in {Entries[j] : j \in 1..3} /\ item.kind = 0
            \/ item.name = "memory" /\ item.kind = 2 /\ item.index = 0
        BY <3>1, <3>2 DEF ExportVerdict, Check
      <4>2. item.name \in {"econtainer_init", "econtainer_on_event", "econtainer_stop", "memory"}
        BY <4>1 DEF Entries
      <4>3. item.kind \in {0, 2}
        BY <4>1
      <4> HIDE DEF item
      <4>4. item.name \notin Dangerous /\ item.kind <= 3
        BY ONLY <4>2, <4>3 DEF Dangerous
      <4> QED BY <4>4 DEF ScanExport, Then, Check, item
    <3>4. FirstFault(Len(s.body.items), LAMBDA k : ScanExport(s.body.items[k])) = "OK"
      BY <3>2, <3>3 DEF FirstFault
    <3> QED BY <3>2, <3>4, Zenon DEF Then, Check
  <2>2. /\ s.cut = FALSE /\ s.id <= 12 /\ (s.id = 0 \/ InOrder(m, i)) /\ s.id # 8
    <3>1. /\ s.cut = FALSE /\ s.id \in (0..12) \ {4, 8, 9}
          /\ s.id # 0 => InOrder(m, i)
      BY <1>2, Zenon
    <3>2. s.id <= 12 /\ s.id # 8
      <4>1. s.id \in (0..12) \ {4, 8, 9}
        BY <3>1, Zenon
      <4> HIDE DEF s
      <4> QED BY ONLY <4>1
    <3> QED BY <3>1, <3>2, Zenon
  <2>3. ScanSection(m, i) =
        Then(Check(~s.cut, "INVALID"),
        Then(Check(s.id <= 12, "UNSUPPORTED"),
        Then(Check(s.id = 0 \/ InOrder(m, i), "INVALID"),
        Then(Check(s.id # 8, "UNSUPPORTED"), IF s.id # 7 THEN "OK" ELSE inner))))
    BY DEF ScanSection
  <2> HIDE DEF inner
  <2> QED BY <2>1, <2>2, <2>3, Zenon DEF Then, Check
<1>4. FirstFault(Len(m.sections), LAMBDA i : ScanSection(m, i)) = "OK"
  BY <1>3 DEF FirstFault
<1>5. ASSUME 2 \in Ids(m)
      PROVE  /\ Count(Body(m, 2)) <= 4
             /\ FirstFault(Len(Body(m, 2).items), LAMBDA i : ScanImport(m, i)) = "OK"
             /\ ~Body(m, 2).cut /\ ~Body(m, 2).rest
  <2> DEFINE items == Body(m, 2).items
  <2>1. /\ Count(Body(m, 2)) <= 4
        /\ \A i \in 1..Len(items) : ImportVerdict(m, i) = "OK"
        /\ Body(m, 2).cut = FALSE /\ Body(m, 2).rest = FALSE
    BY <1>5, ImportsOK
  <2>2. DOMAIN items = 1..Len(items) /\ \A i \in DOMAIN items : items[i].index \in Nat
    BY <1>5, BodyTypes
  <2>3. ASSUME NEW i \in 1..Len(items) PROVE ScanImport(m, i) = "OK"
    <3>1. /\ items[i].module = "econtainer" /\ items[i].kind = 0
          /\ items[i].field \in ImportFields
          /\ \A j \in 1..(i - 1) : items[j].field # items[i].field
          /\ TypeMatches(m, items[i].index, PackageImportType(items[i].field))
      BY <2>1 DEF ImportVerdict, Check
    <3>2. ImportTypeMatches(m, items[i].index, items[i].field)
      BY <1>1, <2>2, <3>1, ImportTypesAgree
    <3> QED BY <3>1, <3>2 DEF ScanImport, Check
  <2>4. FirstFault(Len(items), LAMBDA i : ScanImport(m, i)) = "OK"
    BY <2>3 DEF FirstFault
  <2> QED BY <2>1, <2>4
<1> QED BY <1>1, <1>4, <1>5, Zenon DEF ScanModule, Then, Check

-----------------------------------------------------------------------------
(* The entries of an accepted module. *)

(* The list of imports, empty where there is no import section. *)
LEMMA ImportsList ==
    ASSUME NEW m \in Modules
    PROVE  /\ Len(Imports(m)) \in Nat /\ DOMAIN Imports(m) = 1..Len(Imports(m))
           /\ \A i \in DOMAIN Imports(m) : Imports(m)[i].index \in Nat
<1>1. CASE 2 \in Ids(m)
  BY <1>1, BodyTypes DEF Imports
<1>2. CASE 2 \notin Ids(m)
  BY <1>2 DEF Imports
<1> QED BY <1>1, <1>2

(* The engine's numbering: a function behind the imports is one that the   *)
(* module defines.                                                         *)
LEMMA FunctionNumber ==
    ASSUME NEW m \in Modules, 3 \in Ids(m), NEW index \in Nat, index >= Len(Imports(m)),
           index - Len(Imports(m)) < Len(Body(m, 3).items)
    PROVE  FunctionTypes(m)[index + 1] = Body(m, 3).items[(index - Len(Imports(m))) + 1]
<1> DEFINE p == [i \in DOMAIN Imports(m) |-> Imports(m)[i].index]
           f == Body(m, 3).items
           n == Len(Imports(m))
<1>1. /\ n \in Nat /\ DOMAIN Imports(m) = 1..n
      /\ \A i \in DOMAIN Imports(m) : Imports(m)[i].index \in Nat
  BY ImportsList
<1>0. n \in Nat
  BY <1>1
<1>2. p \in Seq(Nat) /\ Len(p) = n
  <2>1. p \in [1..n -> Nat]
    BY <1>1
  <2> HIDE DEF p, n
  <2> QED BY <1>1, <2>1
<1>3. f \in Seq(Nat)
  BY BodyTypes
<1>4. FunctionTypes(m) = p \o f
  BY DEF FunctionTypes
<1>5. index \in Nat /\ index >= n /\ index - n < Len(f)
  OBVIOUS
<1> HIDE DEF p, f, n
<1>6. (p \o f)[index + 1] = f[(index - n) + 1]
  <2>1. n \in Nat /\ Len(f) \in Nat
    BY ONLY <1>0, <1>3
  <2>2. /\ index + 1 \in 1..(Len(p) + Len(f)) /\ ~(index + 1 <= Len(p))
        /\ (index + 1) - Len(p) = (index - n) + 1
    BY ONLY <2>1, <1>2, <1>5
  <2>3. (p \o f)[index + 1] = f[(index + 1) - Len(p)]
    BY ONLY <1>2, <1>3, <2>2, ConcatProperties
  <2> QED BY ONLY <2>2, <2>3
<1> QED BY <1>4, <1>6 DEF f, n

(* The four exports carry the four names of the ABI, each once, so that    *)
(* the index recorded for an entry is that of its one export.              *)
LEMMA ExportFacts ==
    ASSUME NEW m \in Modules, 7 \in Ids(m), ScanExports(m) = "OK"
    PROVE  /\ \A i \in 1..4 :
                 /\ \A j \in 1..(i - 1) : Body(m, 7).items[j].name # Body(m, 7).items[i].name
                 /\ \/ \E k \in 1..3 : /\ Body(m, 7).items[i].name = Entries[k]
                                       /\ Body(m, 7).items[i].kind = 0
                                       /\ Body(m, 7).items[i].index = Exported(m, Entries[k])
                    \/ Body(m, 7).items[i].name = "memory" /\ Body(m, 7).items[i].kind = 2
           /\ \A k \in 1..3 : Exported(m, Entries[k]) \in Nat
<1> DEFINE e == Body(m, 7).items
<1>1. /\ Len(e) = 4 /\ DOMAIN e = 1..4
      /\ \A i \in 1..4 : e[i].index \in Nat
      /\ \A i \in 1..4 : ExportVerdict(m, i) = "OK"
  BY ExportsOK, BodyTypes
<1>2. \A i \in 1..4 :
        /\ \A j \in 1..(i - 1) : e[j].name # e[i].name
        /\ \/ e[i].name \in {Entries[k] : k \in 1..3} /\ e[i].kind = 0
           \/ e[i].name = "memory" /\ e[i].kind = 2
  BY <1>1 DEF ExportVerdict, Check
<1>3. \A i, j \in 1..4 : e[i].name = e[j].name => i = j
  <2> TAKE i, j \in 1..4
  <2> HAVE e[i].name = e[j].name
  <2> HIDE DEF e
  <2>1. ~(i < j) /\ ~(j < i)
    BY <1>2
  <2> QED BY <2>1
<1>4. ASSUME NEW i \in 1..4, NEW k \in 1..3, e[i].name = Entries[k]
      PROVE  e[i].index = Exported(m, Entries[k])
  <2> DEFINE c == CHOOSE x \in DOMAIN e : e[x].name = Entries[k]
  <2>1. c \in DOMAIN e /\ e[c].name = Entries[k]
    BY <1>1, <1>4
  <2>2. Exported(m, Entries[k]) = e[c].index
    BY DEF Exported
  <2> HIDE DEF c
  <2>3. c = i
    BY <1>1, <1>3, <1>4, <2>1
  <2> QED BY <2>2, <2>3
<1>5. ASSUME NEW k \in 1..3 PROVE \E i \in 1..4 : e[i].name = Entries[k]
  <2> DEFINE names == {"econtainer_init", "econtainer_on_event", "econtainer_stop", "memory"}
  <2>1. e[1].name \in names /\ e[2].name \in names /\ e[3].name \in names /\ e[4].name \in names
    <3>1. \A i \in 1..4 : e[i].name \in {Entries[j] : j \in 1..3} \cup {"memory"}
      BY <1>2
    <3>2. {Entries[j] : j \in 1..3} \cup {"memory"} = names
      BY DEF Entries
    <3> QED BY <3>1, <3>2
  <2>2. /\ e[1].name # e[2].name /\ e[1].name # e[3].name /\ e[1].name # e[4].name
        /\ e[2].name # e[3].name /\ e[2].name # e[4].name /\ e[3].name # e[4].name
    BY <1>3
  <2>3. Entries[k] \in {"econtainer_init", "econtainer_on_event", "econtainer_stop"}
    BY DEF Entries
  <2> HIDE DEF e
  <2>4. \/ e[1].name = Entries[k] \/ e[2].name = Entries[k]
        \/ e[3].name = Entries[k] \/ e[4].name = Entries[k]
    BY <2>1, <2>2, <2>3
  <2> QED BY <2>4
<1>6. \A k \in 1..3 : Exported(m, Entries[k]) \in Nat
  BY <1>1, <1>4, <1>5
<1>7. ASSUME NEW i \in 1..4
      PROVE  \/ \E k \in 1..3 : /\ e[i].name = Entries[k] /\ e[i].kind = 0
                                /\ e[i].index = Exported(m, Entries[k])
             \/ e[i].name = "memory" /\ e[i].kind = 2
  BY <1>2, <1>4
<1> QED BY <1>2, <1>6, <1>7

(* The types the entries must have. *)
EntryParams(k) == IF k = 2 THEN <<"i32", "i32">> ELSE <<>>

(* An entry of an accepted module is a function the module defines, and    *)
(* has, in the numbering of the engine, the type package_wasm.c looked up. *)
LEMMA EntryFacts ==
    ASSUME NEW m \in Modules, {1, 3, 7} \subseteq Ids(m), ScanExports(m) = "OK",
           NEW k \in 1..3, EntryVerdict(m, k) = "OK"
    PROVE  LET index == Exported(m, Entries[k])
           IN  /\ index \in Nat /\ index >= Len(Imports(m))
               /\ index < Len(Imports(m)) + Len(Body(m, 3).items)
               /\ FunctionType(m, index).params = EntryParams(k)
               /\ FunctionType(m, index).results = <<"i32">>
<1> DEFINE index == Exported(m, Entries[k])
           n == Len(Imports(m))
           f == Body(m, 3).items
           type == f[(index - n) + 1]
           sig == Signature(EntryParams(k), "i32")
<1>1. index \in Nat /\ n \in Nat /\ Len(f) \in Nat
  BY ExportFacts, ImportsList, BodyTypes
<1>2. index >= n /\ index - n < Len(f) /\ TypeMatches(m, type, sig)
  BY DEF EntryVerdict, Then, Check, EntryParams
<1>3. FunctionTypes(m)[index + 1] = type
  BY <1>1, <1>2, FunctionNumber
<1>4. FunctionType(m, index) = Body(m, 1).items[type + 1]
  BY <1>3 DEF FunctionType
<1>5. /\ Body(m, 1).items[type + 1].params = EntryParams(k)
      /\ Body(m, 1).items[type + 1].results = <<"i32">>
  <2>1. sig.params = EntryParams(k) /\ sig.result = "i32"
    BY DEF Signature
  <2> HIDE DEF type, sig
  <2> QED BY <1>2, <2>1 DEF TypeMatches
<1> HIDE DEF index, n, f, type, sig
<1>6. index < n + Len(f)
  <2>1. index - n < Len(f)
    BY <1>2, Zenon
  <2> QED BY ONLY <1>1, <2>1
<1> QED BY <1>1, <1>2, <1>4, <1>5, <1>6, Zenon DEF index, n, f

(* What package_wasm.c accepts, module_abi_matches accepts. *)
LEMMA AbiAgrees ==
    ASSUME NEW m \in Modules, {1, 3, 7} \subseteq Ids(m), ScanExports(m) = "OK",
           \A k \in 1..3 : EntryVerdict(m, k) = "OK", Body(m, 5).flags = 1
    PROVE  ModuleAbiMatches(m)
<1> DEFINE e == Body(m, 7).items
<1>1. Exports(m) = e /\ Len(e) = 4
  BY ExportsOK DEF Exports
<1>2. ASSUME NEW i \in 1..4
      PROVE  /\ \A j \in 1..(i - 1) : e[j].name # e[i].name
             /\ \/ \E k \in 1..3 : /\ e[i].name = Entries[k] /\ e[i].kind = 0
                                   /\ e[i].index = Exported(m, Entries[k])
                \/ e[i].name = "memory" /\ e[i].kind = 2
  BY ExportFacts
<1>3. ASSUME NEW i \in 1..4
      PROVE  CASE e[i].name = "memory" -> e[i].kind = 2 /\ Body(m, 5).flags # 3
               [] e[i].name = "econtainer_on_event" ->
                    e[i].kind = 0 /\ FunctionTypeMatches(FunctionType(m, e[i].index), 2)
               [] e[i].name \in {"econtainer_init", "econtainer_stop"} ->
                    e[i].kind = 0 /\ FunctionTypeMatches(FunctionType(m, e[i].index), 0)
               [] OTHER -> FALSE
  <2>1. CASE e[i].name = "memory" /\ e[i].kind = 2
    BY <2>1
  <2>2. ASSUME NEW k \in 1..3, e[i].name = Entries[k], e[i].kind = 0,
               e[i].index = Exported(m, Entries[k])
        PROVE  CASE e[i].name = "memory" -> e[i].kind = 2 /\ Body(m, 5).flags # 3
                 [] e[i].name = "econtainer_on_event" ->
                      e[i].kind = 0 /\ FunctionTypeMatches(FunctionType(m, e[i].index), 2)
                 [] e[i].name \in {"econtainer_init", "econtainer_stop"} ->
                      e[i].kind = 0 /\ FunctionTypeMatches(FunctionType(m, e[i].index), 0)
                 [] OTHER -> FALSE
    <3> DEFINE type == FunctionType(m, e[i].index)
    <3>1. type.params = EntryParams(k) /\ type.results = <<"i32">>
      BY <2>2, EntryFacts
    <3> HIDE DEF type
    <3>2. CASE k = 2
      <4>1. FunctionTypeMatches(type, 2)
        BY <3>1, <3>2 DEF FunctionTypeMatches, EntryParams
      <4>2. e[i].name = "econtainer_on_event"
        BY <2>2, <3>2 DEF Entries
      <4> QED BY <2>2, <4>1, <4>2 DEF type
    <3>3. CASE k # 2
      <4>1. FunctionTypeMatches(type, 0)
        BY <3>1, <3>3 DEF FunctionTypeMatches, EntryParams
      <4>2. e[i].name \in {"econtainer_init", "econtainer_stop"}
        BY <2>2, <3>3 DEF Entries
      <4> QED BY <2>2, <4>1, <4>2 DEF type
    <3> QED BY <3>2, <3>3
  <2> QED BY <1>2, <2>1, <2>2
<1> QED BY <1>1, <1>2, <1>3 DEF ModuleAbiMatches

-----------------------------------------------------------------------------
(* The behaviours. *)

(* The inductive invariant: a verdict is that of the package check on the  *)
(* module at hand, an open that the checks decided carries their answer,   *)
(* one that the engine decided passed them, and native functions exist     *)
(* only for the imports of a module that was opened.                       *)
AdmissionInv ==
    /\ module \in Modules /\ request \in Requests /\ limits \in Limits
    /\ verdict = "OK" => PackageWasmCheck(module, request, authorization) = "OK"
    /\ opened.by = "checks" => /\ opened.result = OpenVerdict(module, limits)
                               /\ opened.result # "OK"
    /\ opened.by = "engine" => /\ OpenVerdict(module, limits) = "OK"
                               /\ opened.result \in LoadResults(module)
    /\ opened.by \in {"none", "checks", "engine"}
    /\ opened = [by |-> opened.by, result |-> opened.result]
    /\ IF opened.result = "OK"
       THEN opened.by = "engine" /\ natives = Natives(ImportedCapabilities(module))
       ELSE natives = NoNatives

(* The invariant holds before anything was checked. *)
LEMMA AdmissionInit == Init => AdmissionInv
BY DEF Init, AdmissionInv

(* econtainer_package_wasm_check and econtainer_runtime_open keep it. *)
LEMMA AdmissionNext == AdmissionInv /\ [Next]_vars => AdmissionInv'
<1> SUFFICES ASSUME AdmissionInv, [Next]_vars PROVE AdmissionInv'
  OBVIOUS
<1>1. CASE UNCHANGED vars
  BY <1>1 DEF AdmissionInv, vars
<1>2. CASE Admit
  BY <1>2 DEF AdmissionInv, Admit
<1>3. CASE Open
  <2> DEFINE checks == OpenVerdict(module, limits)
             results == LoadResults(module)
             table == Natives(ImportedCapabilities(module))
  <2>1. /\ module' = module /\ request' = request /\ authorization' = authorization
        /\ verdict' = verdict /\ limits' = limits
        /\ natives' = IF opened'.result = "OK" THEN table ELSE NoNatives
    BY <1>3 DEF Open
  <2>2. CASE checks # "OK"
    <3>1. opened' = [by |-> "checks", result |-> checks]
      BY <1>3, <2>2 DEF Open
    <3> HIDE DEF checks, results, table
    <3> QED BY <2>1, <2>2, <3>1 DEF AdmissionInv, checks, results, table
  <2>3. CASE checks = "OK"
    <3>1. PICK r \in results : opened' = [by |-> "engine", result |-> r]
      BY <1>3, <2>3 DEF Open
    <3> QED BY <2>1, <2>3, <3>1 DEF AdmissionInv
  <2> QED BY <2>2, <2>3
<1>4. CASE Done
  BY <1>4 DEF AdmissionInv, Done, vars
<1> QED BY <1>1, <1>2, <1>3, <1>4 DEF Next

(* Verdicts and native functions are always those of the module at hand. *)
THEOREM AdmissionAlways == Spec => []AdmissionInv
BY AdmissionInit, AdmissionNext, PTL DEF Spec

(* What the package check accepts passes every check of an open whose      *)
(* limits cover the request.                                               *)
LEMMA ChecksAgree ==
    ASSUME NEW m \in Modules, NEW r \in Requests, NEW a, NEW l \in Limits,
           PackageWasmCheck(m, r, a) = "OK",
           LimitsValid(l), r.caps \subseteq l.caps, r.pages <= l.pages
    PROVE  OpenVerdict(m, l) = "OK" /\ ModuleAbiMatches(m)
<1>1. /\ ScanSections(m) = "OK" /\ ScanImports(m) = "OK" /\ ScanExports(m) = "OK"
      /\ ImportedCapabilities(m) \subseteq r.caps
      /\ \A k \in 1..3 : EntryVerdict(m, k) = "OK"
      /\ MemoryWithin(m, r.pages)
  BY PackageOK
<1>2. {1, 3, 5, 7, 10} \subseteq Ids(m)
  BY <1>1, SectionsOK
<1>3. ScanModule(m) = "OK"
  BY <1>1, ScannersAgree
<1>4. ImportedCapabilities(m) \subseteq l.caps
  BY <1>1
<1>5. MemoryWithinLimit(m, l.pages)
  <2>1. r.pages \in Nat /\ l.pages \in Nat /\ l.pages # 0
    BY PagesAssumption DEF LimitsValid
  <2>2. Body(m, 5).max \in Nat
    BY <1>2, BodyTypes
  <2>3. Body(m, 5).max <= l.pages
    <3>1. Body(m, 5).max <= r.pages
      BY <1>1 DEF MemoryWithin
    <3> QED BY <2>1, <2>2, <3>1
  <2> QED BY <1>1, <1>2, <2>1, <2>3 DEF MemoryWithin, MemoryWithinLimit
<1>6. ModuleAbiMatches(m)
  <2>1. Body(m, 5).flags = 1
    BY <1>1 DEF MemoryWithin
  <2> QED BY <1>1, <1>2, <2>1, AbiAgrees
<1> QED BY <1>3, <1>4, <1>5, <1>6 DEF OpenVerdict, Then, Check

(* A module that econtainer_package_wasm_check admitted passes all checks  *)
(* of econtainer_runtime_open under limits that cover its manifest.        *)
THEOREM AdmittedModulesOpen == Spec => []AdmittedOpens
<1>1. AdmissionInv => AdmittedOpens
  <2> SUFFICES ASSUME AdmissionInv, verdict = "OK", opened.by # "none", LimitsValid(limits),
                      request.caps \subseteq limits.caps, request.pages <= limits.pages
               PROVE  opened \in {[by |-> "engine", result |-> r] : r \in {"OK", "BAD_WASM"}}
    BY DEF AdmittedOpens
  <2>1. OpenVerdict(module, limits) = "OK" /\ ModuleAbiMatches(module)
    BY ChecksAgree DEF AdmissionInv
  <2>2. opened.by = "engine" /\ opened.result \in LoadResults(module)
    BY <2>1 DEF AdmissionInv
  <2>3. opened.result \in {"OK", "BAD_WASM"}
    BY <2>1, <2>2 DEF LoadResults
  <2>4. opened = [by |-> opened.by, result |-> opened.result]
    BY DEF AdmissionInv
  <2> QED BY <2>2, <2>3, <2>4
<1> QED BY <1>1, AdmissionAlways, PTL

(* wasm_scan.c accepts an import only with the type it knows for it. *)
LEMMA ScannedImports ==
    ASSUME NEW m \in Modules, 2 \in Ids(m), ScanModule(m) = "OK"
    PROVE  \A i \in 1..Len(Body(m, 2).items) : ScanImport(m, i) = "OK"
<1> DEFINE n == Len(Body(m, 2).items)
           S == {i \in 1..n : ScanImport(m, i) # "OK"}
<1>1. n \in Nat
  BY BodyTypes
<1>2. FirstFault(n, LAMBDA i : ScanImport(m, i)) = "OK"
  BY DEF ScanModule, Then, Check
<1> SUFFICES ASSUME S # {} PROVE FALSE
  OBVIOUS
<1>3. \E i \in S : \A j \in 1..(i - 1) : j \notin S
  <2> HIDE DEF n, S
  <2> QED BY <1>1, FirstOf DEF S
<1>4. \E i \in 1..n : /\ ScanImport(m, i) # "OK"
                      /\ \A j \in 1..(i - 1) : ScanImport(m, j) = "OK"
  BY <1>1, <1>3
<1> QED BY <1>2, <1>4 DEF FirstFault

(* The type wasm_scan.c demands is the one native_symbols registers. *)
LEMMA NativeTypesAgree ==
    ASSUME NEW m \in Modules, NEW wanted \in Nat, NEW field \in ImportFields,
           ImportTypeMatches(m, wanted, field)
    PROVE  /\ Body(m, 1).items[wanted + 1].params = NativeType(field).params
           /\ Body(m, 1).items[wanted + 1].results = <<NativeType(field).result>>
<1> DEFINE t == Body(m, 1).items[wanted + 1]
<1>1. 1 \in Ids(m) /\ wanted < Len(Body(m, 1).items) /\ Len(t.results) = 1
  BY DEF ImportTypeMatches
<1>2. t.results \in Seq(STRING)
  <2>1. wanted + 1 \in DOMAIN Body(m, 1).items
    BY <1>1, BodyTypes
  <2> QED BY <1>1, <2>1, BodyTypes
<1>3. t.params = NativeType(field).params /\ t.results[1] = NativeType(field).result
  <2>1. CASE field = "monotonic_ms"
    BY <2>1 DEF ImportTypeMatches, Capability, NativeType, Clock, Signature
  <2>2. CASE field = "log"
    BY <2>2 DEF ImportTypeMatches, Capability, NativeType, Log, Signature
  <2>3. CASE field = "timer_start"
    BY <2>3 DEF ImportTypeMatches, Capability, NativeType, TStart, Signature
  <2>4. CASE field = "timer_cancel"
    BY <2>4 DEF ImportTypeMatches, Capability, NativeType, Cancel, Signature
  <2> QED BY <2>1, <2>2, <2>3, <2>4 DEF ImportFields
<1> HIDE DEF t
<1>4. t.results = <<t.results[1]>>
  BY <1>1, <1>2
<1> QED BY <1>3, <1>4 DEF t

(* The imports of an opened module meet native functions of their types,   *)
(* and no capability is reachable that limits, manifest or product refuse. *)
THEOREM ImportsAreLinked == Spec => []ImportsLinked
<1>1. AdmissionInv => ImportsLinked
  <2> SUFFICES ASSUME AdmissionInv PROVE ImportsLinked
    OBVIOUS
  <2> DEFINE required == ImportedCapabilities(module)
             reachable == {Capability(n) : n \in DOMAIN natives}
  <2>1. module \in Modules
    BY DEF AdmissionInv
  <2>2. ASSUME opened.result = "OK"
        PROVE  /\ ScanModule(module) = "OK" /\ required \subseteq limits.caps
               /\ natives = Natives(required)
    <3>1. OpenVerdict(module, limits) = "OK" /\ natives = Natives(required)
      BY <2>2 DEF AdmissionInv
    <3> QED BY <3>1 DEF OpenVerdict, Then, Check
  <2>3. ASSUME opened.result = "OK", NEW i \in DOMAIN Imports(module)
        PROVE  LET item == Imports(module)[i]
                   type == Body(module, 1).items[item.index + 1]
               IN  /\ item.field \in DOMAIN natives
                   /\ type.params = natives[item.field].params
                   /\ type.results = <<natives[item.field].result>>
    <3> DEFINE item == Imports(module)[i]
               type == Body(module, 1).items[item.index + 1]
    <3>1. 2 \in Ids(module) /\ Imports(module) = Body(module, 2).items
      BY <2>3 DEF Imports
    <3>2. i \in 1..Len(Body(module, 2).items) /\ item.index \in Nat
      BY <2>1, <2>3, <3>1, ImportsList
    <3>3. ScanImport(module, i) = "OK"
      BY <2>1, <2>2, <2>3, <3>1, <3>2, ScannedImports
    <3>4. item.field \in ImportFields /\ ImportTypeMatches(module, item.index, item.field)
      BY <3>1, <3>3 DEF ScanImport, Check
    <3>5. Capability(item.field) \in required
      BY <2>3 DEF ImportedCapabilities
    <3>6. item.field \in DOMAIN natives /\ natives[item.field] = NativeType(item.field)
      BY <2>2, <2>3, <3>4, <3>5 DEF Natives
    <3>7. /\ type.params = NativeType(item.field).params
          /\ type.results = <<NativeType(item.field).result>>
      BY <2>1, <3>2, <3>4, NativeTypesAgree
    <3> QED BY <3>6, <3>7
  <2>4. reachable \subseteq required
    <3>1. CASE opened.result = "OK"
      BY <2>2, <3>1 DEF Natives
    <3>2. CASE opened.result # "OK"
      BY <3>2 DEF AdmissionInv, NoNatives
    <3> QED BY <3>1, <3>2
  <2>5. reachable \subseteq limits.caps
    <3>1. CASE opened.result = "OK"
      BY <2>2, <2>4, <3>1
    <3>2. CASE opened.result # "OK"
      BY <3>2 DEF AdmissionInv, NoNatives
    <3> QED BY <3>1, <3>2
  <2>6. ASSUME verdict = "OK"
        PROVE  reachable \subseteq request.caps \cap authorization.caps
    <3>1. RequestVerdict(request, authorization) = "OK" /\ required \subseteq request.caps
      BY <2>1, <2>6, PackageOK DEF AdmissionInv
    <3>2. request.caps \subseteq authorization.caps
      BY <3>1 DEF RequestVerdict, Then, Check
    <3> QED BY <2>4, <3>1, <3>2
  <2> QED BY <2>3, <2>5, <2>6 DEF ImportsLinked
<1> QED BY <1>1, AdmissionAlways, PTL

(* The entries invoke calls are functions of the guest's own, of the types *)
(* it passes arguments for.                                                *)
THEOREM EntriesAreOwnCode == Spec => []EntriesAreGuestCode
<1>1. AdmissionInv => EntriesAreGuestCode
  <2> SUFFICES ASSUME AdmissionInv, verdict = "OK" PROVE EntriesAreGuestCode
    BY DEF EntriesAreGuestCode
  <2> DEFINE index(k) == Exported(module, Entries[k])
  <2>1. /\ module \in Modules
        /\ PackageWasmCheck(module, request, authorization) = "OK"
    BY DEF AdmissionInv
  <2>2. /\ ScanSections(module) = "OK" /\ ScanExports(module) = "OK"
        /\ \A k \in 1..3 : EntryVerdict(module, k) = "OK"
        /\ ScanCode(module)
        /\ Cardinality({index(k) : k \in 1..3}) = 3
    BY <2>1, PackageOK
  <2>3. {1, 3, 7} \subseteq Ids(module)
    BY <2>1, <2>2, SectionsOK
  <2>4. Len(Body(module, 10).items) = Len(Body(module, 3).items)
    BY <2>2 DEF ScanCode
  <2>5. \A k \in 1..3 :
          /\ index(k) >= Len(Imports(module))
          /\ index(k) < Len(Imports(module)) + Len(Body(module, 10).items)
          /\ FunctionType(module, index(k)).params = EntryParams(k)
          /\ FunctionType(module, index(k)).results = <<"i32">>
    BY <2>1, <2>2, <2>3, <2>4, EntryFacts
  <2>6. /\ FunctionType(module, index(1)).params = <<>>
        /\ FunctionType(module, index(2)).params = <<"i32", "i32">>
        /\ FunctionType(module, index(3)).params = <<>>
    <3>1. /\ EntryParams(1) = <<>> /\ EntryParams(2) = <<"i32", "i32">>
          /\ EntryParams(3) = <<>>
      BY DEF EntryParams
    <3> QED BY <2>5, <3>1
  <2> QED BY <2>2, <2>5, <2>6 DEF EntriesAreGuestCode
<1> QED BY <1>1, AdmissionAlways, PTL

-----------------------------------------------------------------------------
(* json_caps *)

(* The lesser of two lengths. *)
LEMMA MinOfTwo ==
    ASSUME NEW x \in Nat, NEW y \in Nat
    PROVE  Min({x, y}) = IF x <= y THEN x ELSE y
BY DEF Min

(* Identifiers in dictionary order are in the order of memcmp and lengths. *)
LEMMA BeforeAscends ==
    ASSUME NEW a \in Seq(Nat), NEW b \in Seq(Nat), Before(a, b)
    PROVE  Ascends(a, b)
<1> DEFINE n == Min({Len(a), Len(b)})
           differs == {i \in 1..n : a[i] # b[i]}
<1>1. /\ Len(a) \in Nat /\ Len(b) \in Nat
      /\ n \in Nat /\ n <= Len(a) /\ n <= Len(b)
  <2>1. Len(a) \in Nat /\ Len(b) \in Nat
    OBVIOUS
  <2>2. n = IF Len(a) <= Len(b) THEN Len(a) ELSE Len(b)
    BY <2>1, MinOfTwo
  <2> HIDE DEF n
  <2> QED BY ONLY <2>1, <2>2
<1>2. \A i \in 1..n : a[i] \in Nat /\ b[i] \in Nat
  <2> HIDE DEF n
  <2> SUFFICES ASSUME NEW i \in 1..n PROVE a[i] \in Nat /\ b[i] \in Nat
    OBVIOUS
  <2>1. i \in 1..Len(a) /\ i \in 1..Len(b)
    BY <1>1
  <2> QED BY <2>1, ElementOfSeq
<1>3. CASE Len(a) < Len(b) /\ SubSeq(b, 1, Len(a)) = a
  <2>1. \A i \in 1..Len(a) : b[i] = a[i]
    BY <1>3
  <2>2. differs = {}
    <3> HIDE DEF n
    <3>1. ASSUME NEW i \in 1..n PROVE i \in 1..Len(a)
      BY ONLY <1>1, i \in 1..n
    <3> QED BY <2>1, <3>1, Zenon
  <2>3. Compare(a, b) = 0
    BY <2>2 DEF Compare
  <2> QED BY <1>1, <1>3, <2>3 DEF Ascends
<1>4. ASSUME NEW i \in 1..n, a[i] < b[i], SubSeq(a, 1, i - 1) = SubSeq(b, 1, i - 1)
      PROVE  Ascends(a, b)
  <2> HIDE DEF n
  <2>1. \A j \in 1..(i - 1) : a[j] = b[j]
    <3> TAKE j \in 1..(i - 1)
    <3>1. j \in Nat /\ i \in Nat /\ i <= Len(a) /\ i <= Len(b)
      BY <1>1
    <3>2. SubSeq(a, 1, i - 1)[j] = a[j] /\ SubSeq(b, 1, i - 1)[j] = b[j]
      BY <3>1
    <3> QED BY <3>2, <1>4
  <2>2. i \in differs /\ \A j \in differs : i <= j
    BY <1>1, <1>2, <1>4, <2>1
  <2>3. Min(differs) = i
    <3> DEFINE c == CHOOSE x \in differs : \A y \in differs : x <= y
    <3> HIDE DEF differs
    <3>1. c \in differs /\ \A y \in differs : c <= y
      BY <2>2
    <3>2. c <= i /\ i <= c
      BY <2>2, <3>1
    <3>3. c \in Nat
      BY <1>1, <3>1 DEF differs
    <3>4. c = i
      BY <1>1, <3>2, <3>3
    <3> QED BY <3>4 DEF Min
  <2>4. Compare(a, b) = a[i] - b[i]
    <3>1. differs # {}
      BY <2>2
    <3> QED BY <3>1, <2>3 DEF Compare, n
  <2>5. a[i] \in Nat /\ b[i] \in Nat
    BY <1>2
  <2> QED BY <2>4, <2>5, <1>4 DEF Ascends
<1> QED BY <1>3, <1>4 DEF Before

(* The identifiers read so far. *)
Names == {tokens[i].text : i \in {j \in 1..cursor : tokens[j].kind = "name"}}

(* The inductive invariant: the items before the cursor are identifiers    *)
(* and commas in turn, previous is the last identifier, the two results    *)
(* are those of the identifiers read, and no part of a list that was       *)
(* rejected is canonical.                                                  *)
CapsTypes ==
    /\ tokens \in Seq(Tokens)
    /\ cursor \in Nat /\ cursor <= Len(tokens)
    /\ count \in Nat
    /\ state \in {"item", "after", "accepted", "rejected"}

CapsForm ==
    /\ state = "item" => cursor = 2 * count
    /\ state = "after" => cursor = (2 * count) + 1
    /\ state \in {"item", "after"} =>
          \A i \in 1..cursor :
              IF i % 2 = 0 THEN tokens[i] = Comma ELSE tokens[i].kind = "name"
    /\ state = "item" =>
          previous = IF count = 0 THEN <<>> ELSE tokens[cursor - 1].text
    /\ state = "after" => previous = tokens[cursor].text
    /\ state = "accepted" => cursor < Len(tokens) /\ tokens[cursor + 1] = Close

CapsResults ==
    /\ requested = Names \cap Known
    /\ has_unknown <=> (Names \ Known # {})

CapsRefusal ==
    state = "rejected" => \A n \in 1..Len(tokens) : ~Canonical(SubSeq(tokens, 1, n))

CapsInv == CapsTypes /\ CapsForm /\ CapsResults /\ CapsRefusal

(* A token is an identifier, the bracket or the comma. *)
LEMMA TokenFacts ==
    /\ Close.kind # "name" /\ Comma.kind # "name" /\ Close # Comma
    /\ \A t \in Tokens : t.kind = "name" => t.text \in Seq(Nat)
<1>1. Close.kind = "]" /\ Comma.kind = ","
  BY DEF Close, Comma, Token
<1>2. \A t \in Tokens : t.kind = "name" => t.text \in Texts
  <2> SUFFICES ASSUME NEW t \in Tokens, t.kind = "name" PROVE t.text \in Texts
    OBVIOUS
  <2>1. PICK x \in Texts : t = Name(x)
    BY <1>1 DEF Tokens
  <2> QED BY <2>1 DEF Name
<1> QED BY <1>1, <1>2, CapsAssumption

(* A canonical list within the input that begins like what was read. *)
LEMMA CanonicalFacts ==
    ASSUME tokens \in Seq(Tokens), NEW n \in 1..Len(tokens), Canonical(SubSeq(tokens, 1, n))
    PROVE  /\ tokens[n] = Close
           /\ \/ n = 1
              \/ /\ n % 2 = 0 /\ n \div 2 <= MaxCaps
                 /\ \A i \in 1..(n - 1) :
                       IF i % 2 = 0 THEN tokens[i] = Comma ELSE tokens[i].kind = "name"
                 /\ \A i \in 3..(n - 1) :
                       i % 2 = 1 => Before(tokens[i - 2].text, tokens[i].text)
<1> DEFINE L == SubSeq(tokens, 1, n)
<1>1. Len(L) = n /\ \A i \in 1..n : L[i] = tokens[i]
  OBVIOUS
<1> HIDE DEF L
<1>2. CASE L = <<Close>>
  <2>1. Len(L) = 1 /\ L[1] = Close
    BY <1>2
  <2> QED BY <1>1, <2>1
<1>3. CASE /\ Len(L) % 2 = 0 /\ Len(L) \div 2 \in 1..MaxCaps
           /\ L[Len(L)] = Close
           /\ \A i \in 1..(Len(L) - 1) :
                 IF i % 2 = 0 THEN L[i] = Comma ELSE L[i].kind = "name"
           /\ \A i \in 3..(Len(L) - 1) :
                 i % 2 = 1 => Before(L[i - 2].text, L[i].text)
  <2>1. tokens[n] = Close /\ n % 2 = 0 /\ n \div 2 <= MaxCaps
    BY <1>1, <1>3, CapsAssumption
  <2>2. ASSUME NEW i \in 1..(n - 1)
        PROVE  IF i % 2 = 0 THEN tokens[i] = Comma ELSE tokens[i].kind = "name"
    BY <1>1, <1>3
  <2>3. ASSUME NEW i \in 3..(n - 1), i % 2 = 1
        PROVE  Before(tokens[i - 2].text, tokens[i].text)
    <3>1. L[i] = tokens[i] /\ L[i - 2] = tokens[i - 2]
      BY <1>1
    <3> QED BY <1>1, <1>3, <2>3, <3>1
  <2> QED BY <2>1, <2>2, <2>3
<1> QED BY <1>2, <1>3 DEF Canonical, L

(* The results after one more token. *)
LEMMA NamesStep ==
    ASSUME CapsTypes, cursor < Len(tokens), tokens' = tokens, cursor' = cursor + 1
    PROVE  Names' = IF tokens[cursor + 1].kind = "name"
                    THEN Names \cup {tokens[cursor + 1].text} ELSE Names
<1>1. 1..(cursor + 1) = (1..cursor) \cup {cursor + 1}
  BY DEF CapsTypes
<1> QED BY <1>1 DEF Names, CapsTypes

(* The invariant holds before the first token. *)
LEMMA CapsStart == CapsInit => CapsInv
<1> SUFFICES ASSUME CapsInit PROVE CapsInv
  OBVIOUS
<1>1. tokens \in Seq(Tokens)
  <2>1. PICK n \in 0..MaxTokens : tokens \in [1..n -> Tokens]
    BY DEF CapsInit
  <2>2. n \in Nat
    BY CapsAssumption
  <2> QED BY <2>1, <2>2
<1>2. CapsTypes
  BY <1>1 DEF CapsInit, CapsTypes
<1>3. Names = {}
  BY DEF CapsInit, Names
<1>4. CapsForm
  BY DEF CapsInit, CapsForm
<1>5. CapsResults
  BY <1>3, Zenon DEF CapsInit, CapsResults
<1>6. CapsRefusal
  BY DEF CapsInit, CapsRefusal
<1> QED BY <1>2, <1>4, <1>5, <1>6 DEF CapsInv

(* A step that only answers leaves tokens, cursor and results alone. *)
LEMMA ReturnKeeps ==
    ASSUME CapsInv, NEW r \in {"accepted", "rejected"}, Return(r)
    PROVE  CapsTypes' /\ CapsResults'
<1>1. CapsTypes'
  BY DEF CapsInv, CapsTypes, Return
<1>2. Names' = Names
  BY DEF Names, Return
<1>3. CapsResults'
  BY <1>2, Zenon DEF CapsInv, CapsResults, Return
<1> QED BY <1>1, <1>3

(* The closing bracket. *)
LEMMA CloseKeeps ==
    ASSUME CapsInv, Sees(Close), Return("accepted")
    PROVE  CapsInv'
<1>1. CapsTypes' /\ CapsResults'
  BY ReturnKeeps
<1>2. CapsForm'
  BY DEF CapsForm, Return, Sees
<1>3. CapsRefusal'
  BY DEF CapsRefusal, Return
<1> QED BY <1>1, <1>2, <1>3 DEF CapsInv

(* A list is refused only where no canonical one can go on. *)
LEMMA NoneCanonical ==
    ASSUME CapsInv, state \in {"item", "after"}, NEW n \in 1..Len(tokens),
           Canonical(SubSeq(tokens, 1, n))
    PROVE  \/ n = 1 /\ cursor = 0 /\ tokens[1] = Close
           \/ /\ cursor < n /\ tokens[n] = Close
              /\ n % 2 = 0 /\ n \div 2 <= MaxCaps
              /\ \A i \in 1..(n - 1) :
                    IF i % 2 = 0 THEN tokens[i] = Comma ELSE tokens[i].kind = "name"
              /\ \A i \in 3..(n - 1) :
                    i % 2 = 1 => Before(tokens[i - 2].text, tokens[i].text)
<1>1. /\ tokens \in Seq(Tokens) /\ cursor \in Nat
      /\ \A i \in 1..cursor :
            IF i % 2 = 0 THEN tokens[i] = Comma ELSE tokens[i].kind = "name"
  BY DEF CapsInv, CapsTypes, CapsForm
<1>2. tokens[n] = Close /\ n \in Nat /\ n >= 1
  BY <1>1, CanonicalFacts
<1>3. ~(n <= cursor)
  <2> SUFFICES ASSUME n <= cursor PROVE FALSE
    OBVIOUS
  <2>1. n \in 1..cursor
    BY <1>1, <1>2
  <2>2. tokens[n] = Comma \/ tokens[n].kind = "name"
    BY <1>1, <2>1
  <2> QED BY <1>2, <2>2, TokenFacts
<1>4. cursor < n
  BY <1>1, <1>2, <1>3
<1>5. CASE n = 1
  BY <1>1, <1>2, <1>4, <1>5
<1>6. CASE n # 1
  BY <1>1, <1>2, <1>4, <1>6, CanonicalFacts
<1> QED BY <1>5, <1>6

(* json_caps gives up only on what no canonical list contains. *)
LEMMA RejectKeeps ==
    ASSUME CapsInv, Reject
    PROVE  CapsInv'
<1>1. Return("rejected")
  BY DEF Reject
<1>2. CapsTypes' /\ CapsResults'
  BY <1>1, ReturnKeeps
<1>3. CapsForm'
  BY <1>1 DEF CapsForm, Return
<1>4. ASSUME NEW n \in 1..Len(tokens), Canonical(SubSeq(tokens, 1, n)) PROVE FALSE
  <2>1. /\ tokens \in Seq(Tokens) /\ cursor \in Nat /\ count \in Nat /\ cursor <= Len(tokens)
        /\ state = "item" => cursor = 2 * count
        /\ state = "after" => cursor = (2 * count) + 1
        /\ state \in {"item", "after"} /\ n \in Nat /\ Len(tokens) \in Nat /\ n <= Len(tokens)
    BY DEF CapsInv, CapsTypes, CapsForm, Reject
  <2>2. CASE n = 1 /\ cursor = 0 /\ tokens[1] = Close
    <3>1. Sees(Close)
      BY <2>1, <2>2 DEF Sees
    <3>2. state = "item" /\ count = 0
      BY <2>1, <2>2
    <3> QED BY <3>1, <3>2, CapsAssumption DEF Reject
  <2>3. CASE /\ cursor < n /\ tokens[n] = Close
             /\ n % 2 = 0 /\ n \div 2 <= MaxCaps
             /\ \A i \in 1..(n - 1) :
                   IF i % 2 = 0 THEN tokens[i] = Comma ELSE tokens[i].kind = "name"
    <3>1. CASE state = "item"
      <4>1. /\ cursor + 1 \in 1..(n - 1) /\ (cursor + 1) % 2 = 1
            /\ count < MaxCaps /\ cursor < Len(tokens)
        BY <2>1, <2>3, <3>1, CapsAssumption
      <4>2. SeesName
        BY <2>3, <4>1 DEF SeesName
      <4> QED BY <2>1, <3>1, <4>1, <4>2, CapsAssumption DEF Reject
    <3>2. CASE state = "after"
      <4>1. cursor < Len(tokens) /\ (cursor + 1) % 2 = 0
        BY <2>1, <2>3, <3>2
      <4>2. CASE n = cursor + 1
        BY <2>1, <2>3, <3>2, <4>1, <4>2 DEF Reject, Sees
      <4>3. CASE n # cursor + 1
        <5>1. cursor + 1 \in 1..(n - 1)
          BY <2>1, <2>3, <4>3
        <5>2. Sees(Comma)
          BY <2>3, <4>1, <5>1 DEF Sees
        <5> QED BY <3>2, <5>2 DEF Reject
      <4> QED BY <4>2, <4>3
    <3> QED BY <2>1, <3>1, <3>2
  <2> QED BY <1>4, <2>1, <2>2, <2>3, NoneCanonical
<1>5. CapsRefusal'
  BY <1>1, <1>4 DEF CapsRefusal, Return
<1> QED BY <1>2, <1>3, <1>5 DEF CapsInv

(* An identifier is recorded, and refused only if out of order. *)
LEMMA ItemKeeps ==
    ASSUME CapsInv, Item
    PROVE  CapsInv'
<1> DEFINE current == tokens[cursor + 1].text
           fits == previous = <<>> \/ Ascends(previous, current)
<1>1. /\ tokens \in Seq(Tokens) /\ cursor \in Nat /\ count \in Nat
      /\ cursor < Len(tokens) /\ tokens[cursor + 1].kind = "name"
      /\ state = "item" /\ count < MaxCaps /\ cursor = 2 * count
      /\ Len(tokens) \in Nat
  BY DEF CapsInv, CapsTypes, CapsForm, Item, SeesName
<1>2. /\ tokens' = tokens /\ count' = count /\ cursor' = cursor + 1
      /\ requested' = requested \cup ({current} \cap Known)
      /\ has_unknown' = (has_unknown \/ Unknown(current))
      /\ IF fits THEN state' = "after" /\ previous' = current
                 ELSE state' = "rejected" /\ previous' = previous
  BY DEF Item
<1>3. CapsTypes'
  BY <1>1, <1>2 DEF CapsTypes
<1>4. Names' = Names \cup {current}
  BY <1>1, <1>2, NamesStep DEF CapsInv
<1>5. CapsResults'
  <2>1. /\ requested = Names \cap Known
        /\ has_unknown <=> (Names \ Known # {})
    BY DEF CapsInv, CapsResults
  <2> HIDE DEF current
  <2>2. requested' = Names' \cap Known
    BY ONLY <1>2, <1>4, <2>1
  <2>3. has_unknown' <=> (Names' \ Known # {})
    <3>1. Names' \ Known # {} <=> (Names \ Known # {} \/ current \notin Known)
      BY ONLY <1>4
    <3> QED BY <1>2, <2>1, <3>1, Zenon DEF Unknown
  <2> QED BY <2>2, <2>3, Zenon DEF CapsResults
<1>6. CASE fits
  <2>1. state' = "after" /\ previous' = current
    BY <1>2, <1>6
  <2>2. \A i \in 1..cursor :
          IF i % 2 = 0 THEN tokens[i] = Comma ELSE tokens[i].kind = "name"
    BY <1>1 DEF CapsInv, CapsForm
  <2>3. ASSUME NEW i \in 1..(cursor + 1)
        PROVE  IF i % 2 = 0 THEN tokens[i] = Comma ELSE tokens[i].kind = "name"
    <3>1. CASE i \in 1..cursor
      BY <2>2, <3>1
    <3>2. CASE i \notin 1..cursor
      <4>1. i = cursor + 1 /\ (cursor + 1) % 2 = 1
        BY <1>1, <3>2
      <4> QED BY <1>1, <4>1
    <3> QED BY <3>1, <3>2
  <2>4. CapsForm'
    BY <1>1, <1>2, <2>1, <2>3 DEF CapsForm
  <2>5. CapsRefusal'
    BY <2>1 DEF CapsRefusal
  <2> QED BY <1>3, <1>5, <2>4, <2>5 DEF CapsInv
<1>7. CASE ~fits
  <2>1. state' = "rejected"
    BY <1>2, <1>7
  <2>2. CapsForm'
    BY <2>1 DEF CapsForm
  <2>3. ASSUME NEW n \in 1..Len(tokens), Canonical(SubSeq(tokens, 1, n)) PROVE FALSE
    <3>1. count # 0 /\ previous = tokens[cursor - 1].text
      BY <1>1, <1>7 DEF CapsInv, CapsForm
    <3>2. /\ cursor < n /\ n % 2 = 0
          /\ \A i \in 3..(n - 1) : i % 2 = 1 => Before(tokens[i - 2].text, tokens[i].text)
      <4>1. cursor # 0
        BY ONLY <1>1, <3>1
      <4>2. state \in {"item", "after"}
        BY <1>1
      <4> HIDE DEF current, fits
      <4> QED BY <2>3, <4>1, <4>2, NoneCanonical, Zenon
    <3>3. /\ cursor + 1 \in 3..(n - 1) /\ (cursor + 1) % 2 = 1
          /\ (cursor + 1) - 2 = cursor - 1 /\ cursor - 1 \in 1..cursor /\ (cursor - 1) % 2 = 1
      BY <1>1, <3>1, <3>2
    <3>4. Before(tokens[cursor - 1].text, current)
      BY <3>2, <3>3
    <3>5. tokens[cursor - 1].kind = "name"
      BY <1>1, <3>3 DEF CapsInv, CapsForm
    <3>6. tokens[cursor - 1] \in Tokens /\ tokens[cursor + 1] \in Tokens
      BY <1>1, <3>3
    <3>7. previous \in Seq(Nat) /\ current \in Seq(Nat)
      BY <1>1, <3>1, <3>5, <3>6, TokenFacts
    <3> QED BY <1>7, <3>1, <3>4, <3>7, BeforeAscends
  <2>4. CapsRefusal'
    BY <1>2, <2>3 DEF CapsRefusal
  <2> QED BY <1>3, <1>5, <2>2, <2>4 DEF CapsInv
<1> QED BY <1>6, <1>7

(* A comma leads back to the head of the loop. *)
LEMMA SeparatorKeeps ==
    ASSUME CapsInv, Separator
    PROVE  CapsInv'
<1>1. /\ tokens \in Seq(Tokens) /\ cursor \in Nat /\ count \in Nat
      /\ cursor < Len(tokens) /\ tokens[cursor + 1] = Comma
      /\ cursor = (2 * count) + 1 /\ previous = tokens[cursor].text
      /\ Len(tokens) \in Nat
      /\ \A i \in 1..cursor :
            IF i % 2 = 0 THEN tokens[i] = Comma ELSE tokens[i].kind = "name"
  BY DEF CapsInv, CapsTypes, CapsForm, Separator, Sees
<1>2. /\ tokens' = tokens /\ count' = count + 1 /\ cursor' = cursor + 1
      /\ requested' = requested /\ has_unknown' = has_unknown
      /\ state' = "item" /\ previous' = previous
  BY DEF Separator
<1>3. CapsTypes'
  BY <1>1, <1>2 DEF CapsTypes
<1>4. Names' = Names
  BY <1>1, <1>2, NamesStep, TokenFacts DEF CapsInv
<1>5. CapsResults'
  BY <1>2, <1>4, Zenon DEF CapsInv, CapsResults
<1>6. ASSUME NEW i \in 1..(cursor + 1)
      PROVE  IF i % 2 = 0 THEN tokens[i] = Comma ELSE tokens[i].kind = "name"
  <2>1. CASE i \in 1..cursor
    BY <1>1, <2>1
  <2>2. CASE i \notin 1..cursor
    <3>1. i = cursor + 1 /\ (cursor + 1) % 2 = 0
      BY <1>1, <2>2
    <3> QED BY <1>1, <3>1
  <2> QED BY <2>1, <2>2
<1>7. CapsForm'
  <2>1. /\ cursor' = 2 * count' /\ count' # 0 /\ cursor' - 1 = cursor
    BY <1>1, <1>2
  <2>2. previous' = tokens'[cursor' - 1].text
    BY <1>1, <1>2, <2>1
  <2> QED BY <1>2, <1>6, <2>1, <2>2 DEF CapsForm
<1>8. CapsRefusal'
  BY <1>2 DEF CapsRefusal
<1> QED BY <1>3, <1>5, <1>7, <1>8 DEF CapsInv

(* Every step of json_caps keeps the invariant. *)
LEMMA CapsSteps == CapsInv /\ [CapsNext]_caps => CapsInv'
<1> SUFFICES ASSUME CapsInv, [CapsNext]_caps PROVE CapsInv'
  OBVIOUS
<1>1. ASSUME UNCHANGED caps PROVE CapsInv'
  BY <1>1 DEF caps, CapsInv, CapsTypes, CapsForm, CapsResults, CapsRefusal, Names
<1>2. CASE CloseEmpty \/ CloseList
  BY <1>2, CloseKeeps DEF CloseEmpty, CloseList
<1>3. CASE Item
  BY <1>3, ItemKeeps
<1>4. CASE Separator
  BY <1>4, SeparatorKeeps
<1>5. CASE Reject
  BY <1>5, RejectKeeps
<1>6. CASE CapsDone
  BY <1>1, <1>6 DEF CapsDone
<1> QED BY <1>1, <1>2, <1>3, <1>4, <1>5, <1>6 DEF CapsNext

(* The results of json_caps are at all times those of what it has read. *)
THEOREM CapsAlways == CapsSpec => []CapsInv
BY CapsStart, CapsSteps, PTL DEF CapsSpec

(* json_caps asks for exactly the capabilities an accepted list names,     *)
(* reports others if and only if there are any, and refuses no canonical   *)
(* list of up to MaxCaps identifiers.                                      *)
THEOREM ListsReadExactly == CapsSpec => []RequestIsList
<1>1. CapsInv => RequestIsList
  <2> SUFFICES ASSUME CapsInv PROVE RequestIsList
    OBVIOUS
  <2>1. ASSUME state = "accepted" PROVE Listed = Names
    <3>1. /\ tokens \in Seq(Tokens) /\ cursor \in Nat /\ cursor + 1 <= Len(tokens)
          /\ tokens[cursor + 1] = Close
      BY <2>1 DEF CapsInv, CapsTypes, CapsForm
    <3>2. DOMAIN List = 1..(cursor + 1) /\ \A i \in 1..(cursor + 1) : List[i] = tokens[i]
      BY <3>1 DEF List
    <3>3. \A i \in 1..(cursor + 1) : tokens[i].kind = "name" => i \in 1..cursor
      BY <3>1, TokenFacts
    <3>4. {j \in DOMAIN List : List[j].kind = "name"}
            = {j \in 1..cursor : tokens[j].kind = "name"}
      BY <3>1, <3>2, <3>3
    <3> QED BY <3>1, <3>2, <3>4 DEF Listed, Names
  <2>2. /\ requested = Names \cap Known
        /\ has_unknown <=> (Names \ Known # {})
    BY DEF CapsInv, CapsResults
  <2>3. state = "rejected" => \A n \in 1..Len(tokens) : ~Canonical(SubSeq(tokens, 1, n))
    BY DEF CapsInv, CapsRefusal
  <2> QED BY <2>1, <2>2, <2>3, Zenon DEF RequestIsList
<1> QED BY <1>1, CapsAlways, PTL
=============================================================================
