--------------------------- MODULE WasmAdmission ---------------------------
(***************************************************************************)
(* A Wasm module is parsed by three programs: econtainer_package_wasm_check*)
(* when its package is installed (package_wasm.c), scan_module and its     *)
(* companions when it is opened (wasm_scan.c), and the engine, which loads *)
(* it and shows its exports to module_abi_matches (runtime.c).  Each has   *)
(* its own tables of names, types and limits; this module translates them  *)
(* one by one, so that a run can compare them.                             *)
(*                                                                         *)
(* A module is its sequence of sections.  The bytes of a section are       *)
(* abstracted to its items, in the order of the file, and two flags: cut,  *)
(* the bytes end before the item count says so, and rest, bytes are left   *)
(* over.  Names are strings and value types "i32", "i64", "f32", "f64".    *)
(***************************************************************************)
EXTENDS Integers, FiniteSets, Sequences

CONSTANTS
    Modules,         \* modules to be installed: [magic, sections]
    Requests,        \* what the manifest asks for: [abi, classic, unknown, caps, pages, stack]
    Authorizations,  \* what the product grants: [caps, pages, stack]
    Limits           \* what the product passes to open: [caps, pages, log, timers, event]

(* What the readers decode: the items of a section by its id. *)
Listing(T) == [items : Seq(T), cut : BOOLEAN, rest : BOOLEAN]

SectionTyped(s) ==
    /\ s.id \in Nat /\ s.cut \in BOOLEAN
    /\ s.id = 1 => s.body \in Listing([func : BOOLEAN, params : Seq(STRING), results : Seq(STRING)])
    /\ s.id = 2 => s.body \in Listing([module : STRING, field : STRING, kind : Nat, index : Nat])
    /\ s.id = 3 => s.body \in Listing(Nat)
    /\ s.id = 5 => s.body \in [count : Nat, flags : Nat, min : Nat, max : Nat,
                               cut : BOOLEAN, rest : BOOLEAN]
    /\ s.id = 7 => s.body \in Listing([name : STRING, kind : Nat, index : Nat])
    /\ s.id = 10 => s.body \in Listing([size : Nat, ends : BOOLEAN])

ASSUME ModulesAssumption ==
    \A m \in Modules :
        /\ Len(m.sections) \in Nat /\ DOMAIN m.sections = 1..Len(m.sections)
        /\ \A i \in DOMAIN m.sections : SectionTyped(m.sections[i])

ASSUME PagesAssumption ==
    /\ \A r \in Requests : r.pages \in Nat
    /\ \A l \in Limits : l.pages \in Nat

MaxLogBytes     == 256
TimerCapacity   == 8
TimerEventBytes == 16

VARIABLES
    module,
    request,
    authorization,
    verdict,    \* result of econtainer_package_wasm_check
    opened,     \* result of econtainer_runtime_open, and who decided it
    limits,     \* its limits
    natives     \* the native functions of the opened runtime: name -> type

vars == <<module, request, authorization, verdict, opened, limits, natives>>

NoNatives == [n \in {} |-> {}]

Init ==
    /\ module \in Modules
    /\ request \in Requests
    /\ authorization \in Authorizations
    /\ verdict = "none"
    /\ opened = [by |-> "none", result |-> "none"]
    /\ limits \in Limits
    /\ natives = NoNatives

-----------------------------------------------------------------------------
(* Checks in the order of the code: the first that fails decides. *)
Then(v, w) == IF v # "OK" THEN v ELSE w

FirstFault(n, Verdict(_)) ==
    IF \A i \in 1..n : Verdict(i) = "OK" THEN "OK"
    ELSE Verdict(CHOOSE i \in 1..n : /\ Verdict(i) # "OK"
                                     /\ \A j \in 1..(i - 1) : Verdict(j) = "OK")

Check(ok, otherwise) == IF ok THEN "OK" ELSE otherwise

Ids(m)      == {m.sections[i].id : i \in DOMAIN m.sections}
Body(m, id) == m.sections[CHOOSE i \in DOMAIN m.sections : m.sections[i].id = id].body
Count(b)    == Len(b.items) + IF b.cut THEN 1 ELSE 0

(* Sections other than custom ones come in ascending order. *)
InOrder(m, i) == \A j \in 1..(i - 1) : m.sections[j].id < m.sections[i].id

(* The types of the imports of the guest ABI. *)
Signature(params, result) == [params |-> params, result |-> result]

Clock  == Signature(<<>>, "i64")
Log    == Signature(<<"i32", "i32">>, "i32")
TStart == Signature(<<"i32", "i32">>, "i64")
Cancel == Signature(<<"i64">>, "i32")

ImportFields == {"monotonic_ms", "log", "timer_start", "timer_cancel"}

Capabilities == {"time", "log", "timer"}

Capability(field) ==
    CASE field = "monotonic_ms" -> "time"
      [] field = "log"          -> "log"
      [] OTHER                  -> "timer"

-----------------------------------------------------------------------------
(* package_wasm.c *)

SectionVerdict(m, i) ==
    LET s == m.sections[i]
    IN  CASE s.cut                              -> "INVALID"
          [] ~s.cut /\ s.id \notin (0..12) \ {4, 8, 9} -> "UNSUPPORTED"
          [] ~s.cut /\ s.id \in 1..12 \ {4, 8, 9} -> Check(InOrder(m, i), "INVALID")
          [] ~s.cut /\ s.id = 0 ->
                Then(Check(~s.body.cut, "INVALID"),
                     Check(s.body.items # <<"target_features">>, "UNSUPPORTED"))

ScanSections(m) ==
    Then(Check(m.magic, "INVALID"),
    Then(FirstFault(Len(m.sections), LAMBDA i : SectionVerdict(m, i)),
         Check({1, 3, 5, 7, 10} \subseteq Ids(m), "INVALID")))

ValueTypes == {"i32", "i64", "f32", "f64"}

(* Every type is read, whichever one is wanted. *)
TypeMatches(m, wanted, signature) ==
    LET b == Body(m, 1)
    IN  /\ ~b.cut /\ ~b.rest
        /\ \A k \in DOMAIN b.items :
              LET t == b.items[k]
              IN  t.func /\ \A v \in {t.params[j] : j \in DOMAIN t.params}
                                \cup {t.results[j] : j \in DOMAIN t.results} : v \in ValueTypes
        /\ wanted < Len(b.items)
        /\ b.items[wanted + 1].params = signature.params
        /\ b.items[wanted + 1].results = <<signature.result>>

(* Mutant: the timer functions share one entry of the table of types. *)
MutantPackageImportType(field) ==
    CASE field = "monotonic_ms" -> Clock
      [] field = "log"          -> Log
      [] field = "timer_start"  -> TStart
      [] field = "timer_cancel" -> TStart

PackageImportType(field) ==
    CASE field = "monotonic_ms" -> Clock
      [] field = "log"          -> Log
      [] field = "timer_start"  -> TStart
      [] field = "timer_cancel" -> Cancel

ImportVerdict(m, i) ==
    LET items == Body(m, 2).items
        item  == items[i]
    IN  Check(/\ item.module = "econtainer" /\ item.kind = 0
              /\ item.field \in ImportFields
              /\ \A j \in 1..(i - 1) : items[j].field # item.field
              /\ TypeMatches(m, item.index, PackageImportType(item.field)),
              "UNSUPPORTED")

ScanImports(m) ==
    IF 2 \notin Ids(m) THEN "OK"
    ELSE Then(Check(Count(Body(m, 2)) <= 4, "UNSUPPORTED"),
         Then(FirstFault(Len(Body(m, 2).items), LAMBDA i : ImportVerdict(m, i)),
              Check(~Body(m, 2).cut /\ ~Body(m, 2).rest, "INVALID")))

Imports(m) == IF 2 \in Ids(m) THEN Body(m, 2).items ELSE <<>>

ImportedCapabilities(m) == {Capability(Imports(m)[i].field) : i \in DOMAIN Imports(m)}

Entries == <<"econtainer_init", "econtainer_on_event", "econtainer_stop">>

ExportVerdict(m, i) ==
    LET items == Body(m, 7).items
        item  == items[i]
    IN  Check(/\ \A j \in 1..(i - 1) : items[j].name # item.name
              /\ \/ item.name \in {Entries[k] : k \in 1..3} /\ item.kind = 0
                 \/ item.name = "memory" /\ item.kind = 2 /\ item.index = 0,
              "UNSUPPORTED")

ScanExports(m) ==
    Then(Check(Count(Body(m, 7)) = 4, "UNSUPPORTED"),
    Then(FirstFault(Len(Body(m, 7).items), LAMBDA i : ExportVerdict(m, i)),
         Check(~Body(m, 7).cut /\ ~Body(m, 7).rest, "INVALID")))

(* abi.functions[k - 1] *)
Exported(m, name) ==
    LET items == Body(m, 7).items
    IN  items[CHOOSE i \in DOMAIN items : items[i].name = name].index

(* Mutant: imports are not counted in the index of a function. *)
MutantEntryVerdict(m, k) ==
    LET functions == Body(m, 3)
        index     == Exported(m, Entries[k])
    IN  Check(/\ ~functions.cut /\ ~functions.rest
              /\ index < Len(functions.items)
              /\ TypeMatches(m, functions.items[index + 1],
                     Signature(IF k = 2 THEN <<"i32", "i32">> ELSE <<>>, "i32")),
              "INVALID")

(* function_type and type_matches of one entry: functions the module       *)
(* defines are numbered after those it imports.                            *)
EntryVerdict(m, k) ==
    LET functions == Body(m, 3)
        index     == Exported(m, Entries[k])
        wanted    == index - Len(Imports(m))
        types     == Count(Body(m, 1))
    IN  Then(Check(index >= Len(Imports(m)), "UNSUPPORTED"),
             Check(/\ ~functions.cut /\ ~functions.rest
                   /\ wanted < Len(functions.items)
                   /\ \A j \in DOMAIN functions.items : functions.items[j] < types
                   /\ TypeMatches(m, functions.items[wanted + 1],
                          Signature(IF k = 2 THEN <<"i32", "i32">> ELSE <<>>, "i32")),
                   "INVALID"))

MemoryWithin(m, pages) ==
    LET b == Body(m, 5)
    IN  /\ b.count = 1 /\ b.flags = 1
        /\ b.min > 0 /\ b.min <= b.max /\ b.max <= pages
        /\ ~b.cut /\ ~b.rest

ScanCode(m) ==
    LET b == Body(m, 10)
    IN  /\ ~b.cut /\ ~b.rest
        /\ Len(b.items) = Len(Body(m, 3).items)
        /\ \A j \in DOMAIN b.items : b.items[j].size >= 2 /\ b.items[j].ends

(* The checks of the signed request, before any byte of Wasm is read. *)
RequestVerdict(r, a) ==
    Then(Check(/\ r.caps \cup a.caps \subseteq Capabilities
               /\ r.pages >= 1 /\ r.stack > 0 /\ a.pages >= 1 /\ a.stack > 0, "INVALID"),
    Then(Check(r.abi = 1 /\ r.classic /\ ~r.unknown, "UNSUPPORTED"),
         Check(r.caps \subseteq a.caps /\ r.pages <= a.pages /\ r.stack <= a.stack,
               "NOT_AUTHORIZED")))

(* scan_exports also runs when scan_imports found something unsupported,   *)
(* and what is invalid then counts before what is unsupported.             *)
ScanAbi(m) ==
    IF "INVALID" \in {ScanImports(m), ScanExports(m)} THEN "INVALID"
    ELSE Then(ScanImports(m), ScanExports(m))

(* econtainer_package_wasm_check; its reads and its digest are in          *)
(* PackageVerify.                                                          *)
PackageWasmCheck(m, r, a) ==
    LET entry(k) == Exported(m, Entries[k])
    IN  Then(RequestVerdict(r, a),
        Then(ScanSections(m),
        Then(ScanAbi(m),
        Then(Check(ImportedCapabilities(m) \subseteq r.caps, "INVALID"),
        Then(Check(Cardinality({entry(k) : k \in 1..3}) = 3, "UNSUPPORTED"),
        Then(FirstFault(3, LAMBDA k : EntryVerdict(m, k)),
             Check(MemoryWithin(m, r.pages) /\ ScanCode(m), "INVALID")))))))

Admit ==
    /\ verdict = "none"
    /\ verdict' = PackageWasmCheck(module, request, authorization)
    /\ UNCHANGED <<module, request, authorization, opened, limits, natives>>

-----------------------------------------------------------------------------
(* wasm_scan.c *)

(* dangerous_export *)
Dangerous == {"__post_instantiate", "__wasm_call_ctors", "_initialize"}

ScanExport(item) ==
    Then(Check(item.name \notin Dangerous, "UNSUPPORTED"), Check(item.kind <= 3, "INVALID"))

ScanSection(m, i) ==
    LET s == m.sections[i]
    IN  Then(Check(~s.cut, "INVALID"),
        Then(Check(s.id <= 12, "UNSUPPORTED"),
        Then(Check(s.id = 0 \/ InOrder(m, i), "INVALID"),
        Then(Check(s.id # 8, "UNSUPPORTED"),
             IF s.id # 7 THEN "OK"
             ELSE Then(FirstFault(Len(s.body.items), LAMBDA k : ScanExport(s.body.items[k])),
                       Check(~s.body.cut /\ ~s.body.rest, "INVALID"))))))

(* The types before the one wanted are skipped, those after it not read. *)
ImportTypeMatches(m, wanted, field) ==
    /\ 1 \in Ids(m)
    /\ LET b == Body(m, 1)
           t == b.items[wanted + 1]
       IN  /\ wanted < Len(b.items)
           /\ \A k \in 1..(wanted + 1) : b.items[k].func
           /\ Len(t.results) = 1
           /\ CASE Capability(field) = "time" -> t.params = <<>> /\ t.results[1] = "i64"
                [] Capability(field) = "log"  -> /\ t.params = <<"i32", "i32">>
                                                 /\ t.results[1] = "i32"
                [] field = "timer_cancel"     -> t.params = <<"i64">> /\ t.results[1] = "i32"
                [] field = "timer_start"      -> /\ t.params = <<"i32", "i32">>
                                                 /\ t.results[1] = "i64"

ScanImport(m, i) ==
    LET items == Body(m, 2).items
        item  == items[i]
    IN  Check(/\ item.kind = 0 /\ item.module = "econtainer"
              /\ item.field \in ImportFields
              /\ \A j \in 1..(i - 1) : items[j].field # item.field
              /\ ImportTypeMatches(m, item.index, item.field),
              "UNSUPPORTED")

ScanModule(m) ==
    Then(Check(m.magic, "INVALID"),
    Then(FirstFault(Len(m.sections), LAMBDA i : ScanSection(m, i)),
         IF 2 \notin Ids(m) THEN "OK"
         ELSE Then(Check(Count(Body(m, 2)) <= 4, "UNSUPPORTED"),
              Then(FirstFault(Len(Body(m, 2).items), LAMBDA i : ScanImport(m, i)),
                   Check(~Body(m, 2).cut /\ ~Body(m, 2).rest, "INVALID")))))

(* econtainer_wasm_memory_within_limit, of a module ScanModule accepts *)
MemoryWithinLimit(m, pages) ==
    /\ pages # 0 /\ 5 \in Ids(m)
    /\ LET b == Body(m, 5)
       IN  /\ b.count = 1 /\ b.flags = 1 /\ b.min > 0
           /\ b.min <= b.max /\ b.max <= pages
           /\ ~b.cut /\ ~b.rest

-----------------------------------------------------------------------------
(* runtime.c *)

(* limits_valid; the limits left out (sizes of the stack and the heap,     *)
(* budgets, duration) are taken to be valid.                               *)
LimitsValid(l) ==
    /\ l.pages > 0 /\ l.event > 0
    /\ l.caps \subseteq Capabilities
    /\ IF "log" \in l.caps THEN l.log \in 1..MaxLogBytes ELSE l.log = 0
    /\ IF "timer" \in l.caps
       THEN l.timers \in 1..TimerCapacity /\ l.event >= TimerEventBytes
       ELSE l.timers = 0

(* What econtainer_runtime_open decides from the bytes and the limits      *)
(* before it claims the engine.                                            *)
OpenVerdict(m, l) ==
    Then(Check(LimitsValid(l), "INVALID_INPUT"),
    Then(Check(ScanModule(m) = "OK", "BAD_WASM"),
    Then(Check(ImportedCapabilities(m) \subseteq l.caps, "NOT_AUTHORIZED"),
         Check(MemoryWithinLimit(m, l.pages), "BAD_ABI"))))

(* Mutant: timer_cancel is registered with the signature of timer_start. *)
MutantNativeType(name) ==
    CASE name = "monotonic_ms" -> Clock
      [] name = "log"          -> Log
      [] OTHER                 -> TStart

(* "()I", "(ii)i", "(ii)I" and "(I)i" of native_symbols *)
NativeType(name) ==
    CASE name = "monotonic_ms" -> Clock
      [] name = "log"          -> Log
      [] name = "timer_start"  -> TStart
      [] name = "timer_cancel" -> Cancel

(* Mutant: every native function is registered, whatever is imported. *)
MutantNatives(required) == [name \in ImportFields |-> NativeType(name)]

Natives(required) ==
    [name \in {n \in ImportFields : Capability(n) \in required} |-> NativeType(name)]

(* The engine numbers the imported functions first, then the defined ones. *)
FunctionTypes(m) ==
    [i \in DOMAIN Imports(m) |-> Imports(m)[i].index]
        \o (IF 3 \in Ids(m) THEN Body(m, 3).items ELSE <<>>)

(* The type of function index, 0 the first *)
FunctionType(m, index) == Body(m, 1).items[FunctionTypes(m)[index + 1] + 1]

Exports(m) == IF 7 \in Ids(m) THEN Body(m, 7).items ELSE <<>>

(* What the engine is relied on to refuse: indexes beyond the end. *)
Loadable(m) ==
    /\ \A i \in DOMAIN FunctionTypes(m) :
          1 \in Ids(m) /\ FunctionTypes(m)[i] < Len(Body(m, 1).items)
    /\ \A i \in DOMAIN Exports(m) :
          Exports(m)[i].kind = 0 => Exports(m)[i].index < Len(FunctionTypes(m))

FunctionTypeMatches(type, params) ==
    /\ Len(type.params) = params
    /\ type.results = <<"i32">>
    /\ \A j \in 1..params : type.params[j] = "i32"

ModuleAbiMatches(m) ==
    LET e == Exports(m)
    IN  /\ Len(e) = 4
        /\ \A i \in 1..4 :
              /\ \A j \in 1..(i - 1) : e[j].name # e[i].name
              /\ CASE e[i].name = "memory" -> e[i].kind = 2 /\ Body(m, 5).flags # 3
                   [] e[i].name = "econtainer_on_event" ->
                        e[i].kind = 0 /\ FunctionTypeMatches(FunctionType(m, e[i].index), 2)
                   [] e[i].name \in {"econtainer_init", "econtainer_stop"} ->
                        e[i].kind = 0 /\ FunctionTypeMatches(FunctionType(m, e[i].index), 0)
                   [] OTHER -> FALSE

(* Once the checks are passed the engine may refuse the module for reasons *)
(* of its own.  Claiming it, allocation and instantiation, which may fail  *)
(* whatever the module is, are in RuntimeOwnership.                        *)
LoadResults(m) ==
    {"BAD_WASM"} \cup
    IF Loadable(m) THEN {IF ModuleAbiMatches(m) THEN "OK" ELSE "BAD_ABI"} ELSE {}

Open ==
    /\ opened.by = "none"
    /\ IF OpenVerdict(module, limits) # "OK"
       THEN opened' = [by |-> "checks", result |-> OpenVerdict(module, limits)]
       ELSE \E r \in LoadResults(module) : opened' = [by |-> "engine", result |-> r]
    /\ natives' = IF opened'.result = "OK" THEN Natives(ImportedCapabilities(module))
                  ELSE NoNatives
    /\ UNCHANGED <<module, request, authorization, verdict, limits>>

Done == verdict # "none" /\ opened.by # "none" /\ UNCHANGED vars

Next == Admit \/ Open \/ Done

Spec == Init /\ [][Next]_vars

-----------------------------------------------------------------------------
(* A module that was admitted with its package is not refused when it is   *)
(* opened under limits that cover what its manifest asked for: the checks  *)
(* of wasm_scan.c and module_abi_matches hold whenever those of            *)
(* package_wasm.c do, and only the engine itself may still object.         *)
AdmittedOpens ==
    /\ verdict = "OK" /\ opened.by # "none"
    /\ LimitsValid(limits) /\ request.caps \subseteq limits.caps /\ request.pages <= limits.pages
    => opened \in {[by |-> "engine", result |-> r] : r \in {"OK", "BAD_WASM"}}

(* Every import of an opened module is backed by a native function of the  *)
(* type the module declares for it: the engine calls native code with the  *)
(* arguments that code takes.  And no module can reach a capability that   *)
(* its product withheld, nor one its signed manifest does not name,        *)
(* whichever of the checks it went through and in whichever order.         *)
ImportsLinked ==
    LET reachable == {Capability(n) : n \in DOMAIN natives}
    IN  /\ opened.result = "OK" =>
              \A i \in DOMAIN Imports(module) :
                  LET item == Imports(module)[i]
                      type == Body(module, 1).items[item.index + 1]
                  IN  /\ item.field \in DOMAIN natives
                      /\ type.params = natives[item.field].params
                      /\ type.results = <<natives[item.field].result>>
        /\ reachable \subseteq limits.caps
        /\ verdict = "OK" => reachable \subseteq request.caps \cap authorization.caps

(* The three entries of an admitted module are three functions with bodies *)
(* of its own, and in the engine's numbering they have the types invoke    *)
(* passes arguments for.                                                   *)
EntriesAreGuestCode ==
    verdict = "OK" =>
        LET index(k) == Exported(module, Entries[k])
        IN  /\ \A k \in 1..3 : /\ index(k) >= Len(Imports(module))
                                /\ index(k) < Len(Imports(module)) + Len(Body(module, 10).items)
                                /\ FunctionType(module, index(k)).results = <<"i32">>
            /\ FunctionType(module, index(1)).params = <<>>
            /\ FunctionType(module, index(2)).params = <<"i32", "i32">>
            /\ FunctionType(module, index(3)).params = <<>>
            /\ Cardinality({index(k) : k \in 1..3}) = 3
=============================================================================
