# Formal model of esp-container

TLA+ specifications of the component `components/esp_container`: the three-slot
package store with its flash and NVS provider, the verification and inspection of
packages, and the runtime that executes Wasm guests. TLC checks them on small
instances; TLAPS proves every safety property of the passing runs, and both refinements,
for every instance.

Paths below are relative to the repository; `slots.c`, `runtime.c` and so on are in
`components/esp_container/src`.

## 1. The system

| Part | State | Operations | Hard because |
|---|---|---|---|
| Slot record (`slots.c`, `esp_container_slots.h`) | one 288-byte NVS blob: sequence number, two firmware bindings, phase, operation | encode, decode, `state_valid` | written by one version of events, read after any crash |
| Slot engine (`slots.c`) | the blob, three flash slots, a try-lock, each client's snapshot | `initialize`, `load`, `reconcile`, `reserve`, `write_and_prepare`, `begin_trial`, `mark_healthy`, `confirm`, `abandon` | clients interleave; NVS writes fail, lie or damage; power fails anywhere; checks made in one call justify writes in a later one |
| Geometry and ESP-IDF provider (`slots.c`, `slots_idf.c`) | a semaphore, partition handles, NVS handles | `geometry_valid`, `bind`, the callbacks the engine uses | address arithmetic of 32 bits, aligned writes, NVS calls that fail one by one |
| Package admission (`package_slot.c`, `package_stream.c`, `package_wasm.c`, `wasm_scan.c`, `package_crypto.c`) | a workspace, digest contexts | verify an archive, inspect its Wasm, compare with the reservation | bytes are read several times; every exit has to clean up |
| Guest runtime (`runtime.c`) | lifecycle state, pending log, timer table, entry deadline | `open`, `init`, `on_event`, `poll_timer`, `next_timer_deadline`, `take_log`, `stop`, `close`; host calls `log`, `timer_start`, `timer_cancel`, `monotonic_ms` | the guest calls back at any point, time passes everywhere, entries overrun, trap or fail |
| Runtime ownership (`runtime.c`) | `runtime_claimed`, resources acquired so far, `call_active` | the claim, eight stages of `open`, `release_runtime`, `claim_call` | several tasks; failure at every stage; global engine state |

How they interact. A product downloads a package and drives it through the slot engine:
`reserve` picks a free slot, `write_and_prepare` fills and validates it (calling package
admission under the lock), `begin_trial` allows it to be run once, `mark_healthy` and
`confirm` make it the package of the running firmware, `abandon` gives it up. After a
boot `reconcile` says what may be started. The product's executor runs the chosen
package with the runtime; the engine asks it (`trial_stopped_fn`) before it gives up a
trial of the current boot. Engine and runtime share no state except the bytes of the
slot a guest was loaded from.

What makes each part correct:

* record: whatever a crash leaves in NVS is a record that decodes, or is recognised as
  damaged;
* engine: bytes a record refers to are never erased; a package is bound only after
  validation and a healthy trial in the same boot; concurrent clients lose no update;
  results tell the truth about what is durable; a rollback firmware keeps its package;
* flash and provider: no access leaves the slot it is meant for, nothing valid is
  refused, flash is erased before it is programmed again, and the two NVS callbacks
  behave as one stable register;
* package admission: what is inspected is what was signed; a refused package leaves
  nothing behind; a module admitted at installation also opens, and is linked with
  exactly the native functions it declares and was granted;
* runtime: an overrun entry is undone, no timer outlives stop or a failed `init`, no timer
  is lost, doubled or starved;
* ownership: one owner of the global engine, no leak and no dangling reference from a
  failed `open`, methods and `close` exclude each other.

`PROJECT.json` lists all components, also those not modelled, the hazards with the
properties aimed at them, and the source lines of every definition.

## 2. Modules

| Module | Models |
|---|---|
| `SlotRecord` | the record, its validity, its blob, what it refers to |
| `Slots` | the engine, its clients, the media, the executor, loss of power |
| `ProductUpdate` | the abstract store: one package per firmware, one update at a time |
| `SlotsRefinement` | the mapping under which `Slots` implements `ProductUpdate` |
| `SlotsProofs` | proofs about `Slots`: the record and the bytes it refers to |
| `SlotsCallProofs` | proofs about `Slots`: what a call knows, and what follows for clients, packages, results and instances; that `Slots` implements `ProductUpdate` |
| `SlotFlash` | geometry, partition binding and every access to flash with its addresses |
| `NvsBlob` | `read_blob` and `write_blob`, one NVS call a step |
| `BlobRegister` | the abstract register `NvsBlob` implements |
| `ProviderProofs` | proofs about `SlotFlash` and `NvsBlob`, the refinement of the latter included |
| `PackageVerify` | `econtainer_package_slot_validate`: verification, inspection and final digest as a sequence of reads |
| `PackageVerifyProofs` | proofs about `PackageVerify` |
| `WasmAdmission` | what the parser of installation, the scanner of opening and the ABI check decide about a module |
| `Numerals` | the decoders of Wasm and manifest integers |
| `NumeralsProofs` | proofs about `Numerals` |
| `CapabilityList` | the parser of the manifest's capability list |
| `AdmissionProofs` | proofs about `WasmAdmission` and `CapabilityList` |
| `Runtime` | one guest instance, its timers, log and deadlines |
| `RuntimeProofs` | proofs about `Runtime` |
| `RuntimeOwnership` | the claim, staged open and release, the call claim |
| `RuntimeOwnershipProofs` | proofs about `RuntimeOwnership` |
| `MC...` | instances for TLC |

Definitions named `Mutant...` are plausible errors in the definition that follows them.
No specification uses them; they serve to show that a property fails when the code is
wrong.

### Slot record

Digests, operation ids and firmware images are values of constant sets, with `Zero` for
the all-zero bytes the code tests for; a package's SHA-256 is the package. The phases
keep their numbers because the code compares them with `<` and `>`. `BindingValid`,
`OperationValid` and `StateValid` follow the functions of those names conjunct by
conjunct. Magic, version, reserved bytes and CRC make the difference between a `record`
and a `damaged` blob; decoding then applies `StateValid` as `decode_state` does.

### Slot engine

A call is split at every access to NVS or flash that changes it, so that a loss of power
falls between any two of them. `pc` is where the call stands:

    begin -> [erase -> write* -> verify] -> commit -> readback -> idle

`begin` covers the load, the comparison of sequence numbers, the call's own refusal and
the hashing of references, which only read while the lock is held. `commit` is
`write_blob`, `readback` the second half of `persist_locked`. `current` and `next` are
the locals of the same names, `view[c]` is the `state` output a client holds and takes
its expected sequence number from, `decision[c]` the output of `reconcile`. `load` and
`reconcile` clear their output before they try the lock, also when they are then
refused. A refused argument, or a refused lock in any other call, changes nothing and is
no action.

A slot holds a package or `Garbage`; its bytes become a package when the last block of
the write loop is written, and the source may supply any package of the reserved size or
garbage. One block stands for `SLOT_IO_BYTES`.

Outside the source, and modelled from how `slots.c` and its header use them:

* *Media.* NVS replaces one key atomically; a write may fail, take effect and be
  reported as failed, or leave a damaged blob, reported either way. Flash reads, erases
  and writes may fail, and flash may decay. `Faults` selects which of these a run has.
* *Validation.* `ValidateResult` is `econtainer_package_slot_validate` with signature,
  product, limits and Wasm profile summarised as membership of `Trusted`, and the sizes
  and versions compared with those the package really has.
* *Executor and product.* At most one instance runs; it is started from the durable
  record a client has seen and not while a storage call runs (the header asks the
  executor for that). `begin_trial` is called with the previous instance stopped, and
  `mark_healthy` only for the trial that is running, as the header demands. Boot id and
  running firmware are passed as they are. The bindings given to `initialize` describe
  accepted packages.

`decayed`, `attested` in `Slots` and `issued`, `settled`, `overtaken`, `log_origin` in
`Runtime` are history variables: no guard of the code's actions reads them.

### Flash and NVS

`SlotFlash` has addresses where `Slots` has slots. `GeometryValid` and
`PartitionsMatch` follow the code conjunct by conjunct, over a word of few bits so that
sums wrap as they would at 2^32 if the code let them. A run then binds every geometry of
a small set, and for those accepted erases, writes in blocks padded to the write unit,
hashes and reads for the validator; power may fail in between and the write be repeated.
The partition API is external: it refuses what lies outside the partition.

In `NvsBlob` a call of the provider is a sequence of NVS calls, each of which may fail.
`nvs_set_blob` may reach the medium before `nvs_commit` or not at all, and power may fail
anywhere. The refinement maps this to `BlobRegister`: an operation returns the value of
the register at some moment of the call, or failure; a reported success is durable.

### Package admission

`PackageVerify` is one call of `econtainer_package_slot_validate` on a package in flash.
Each step is a read through the callback, with the check the code makes on what it has
read; the flash may decay between reads, reads and digest calls may fail. A package is a
sequence of units (a header, a part of the manifest, of the signature, of the Wasm, or
padding), of which `Block` make a tar block; the manifest keeps the fields that later
stages use. The inspection is the scans of `econtainer_package_wasm_check` in their order,
each of which may begin wherever its section lies: a scan reads the unit under its cursor
through the one-block cache (`Look`), passes over what a length tells it to (`Skip`), goes
back to compare a name with the next one (`NextName`), calls `type_matches` for an import
(`ImportType`), turns to the next import or export (`NextItem`) or returns (`ScanEnds`).
What a unit says is abstracted to whether a scan finds fault with it (`Clean`), so the
model takes every way a scan may go through a module; what is kept is which reads there
are, how the loops are bounded, and what each caller makes of a scan that returns false or
sets `*unsupported`. The payload is hashed last. Cryptography is assumed: a digest is the
sequence of units fed to it, and only the signer's manifest passes the signature check.

`WasmAdmission` compares the programs that parse the same module: package_wasm.c at
installation, wasm_scan.c and `module_abi_matches` at opening, and the engine, which
numbers imported functions before defined ones. A section is a list of items with two
flags, bytes missing and bytes left over; each parser's checks are translated in their
order. `Admit` and `Open` are independent, since `econtainer_runtime_open` accepts any
module. The engine is external: it may refuse a module for its own reasons and does
refuse one with indexes out of range.

`Numerals` gives each iteration of `read_u32`, `next_u32` and `json_uint32` a step, with
the widths as parameters, and compares with what the numeral says in unbounded integers:
the number whose digits, found by division, are those of the numeral (`WasmSays`,
`JsonSays`). That is its value as a sum over the octets, without the recursion of a sum.
`CapabilityList` is `json_caps` over tokens; identifiers are short sequences
of letters because the code compares them lexicographically.

### Runtime

`pc` is `idle`, `guest` (inside `wasm_runtime_call_wasm`) or `selected` (in `poll_timer`
between rearming the timer and delivering its event). `Tick` lets time pass at any point,
inside the guest too. A host call first runs `native_owner`: after the deadline, or when
the clock fails, it raises an exception and the guest makes no further call. A guest may
trap or exhaust its budget at any time. `GuestReturns` is the rest of `invoke` together
with what `init`, `on_event`, `poll_timer` and `stop` make of its status. A log is its
size. The clock is read once per host call; times stay far below 2^64 milliseconds
because they come from a signed microsecond counter. The handle allocator wraps at
`MaxHandle` to its terminal value 0.

### Ownership

`held[t]` are the resources of task `t`'s runtime; `OpenRank` and `ReleaseRank` are the
orders of acquisition and release. A stage may fail, and a missing entry point is found
when the environment already exists, so failing may add `env`.

## 3. Runs

| Run | Instance | Checks |
|---|---|---|
| `race` | two clients, two operation ids, one firmware, two boots, failing, lying and damaging NVS writes, loss of power | `SnapshotsNotAliased`, `InstanceBytesIntact`, `NoLostUpdate`, `RefinesProduct` |
| `faults` | one client, all faults, firmware added by OTA, claims that are true, untrusted or lie about the schema | `TypeOK`, `ReferencedBytesIntact`, `OnlyQualifiedBound`, `ResultsTellTheTruth`, `DamagePreserved`, `ReservedBeforeErase`, `BootDecisionSound` |
| `two_firmwares` | two firmwares sharing a package, updates until slots are reused, loss of power | `RollbackPackageKept`, `SchemaKept`, `NoSpuriousInvalid` |
| `liveness` | one client, two firmwares, all faults but decay of the flash | `LockReleased`, `PendingSettled` |
| `timers` | two timers, one-shot and of period 2, late polls within 5 ms, three handles; logs, traps, deadlines of 2 ms, failing clock | `TypeOK`, `NoTimerSurvives`, `TimersAccounted`, `HandlesNeverReissued`, `NoStarvation`, `PeriodsCoalesced`, `OverrunUndone` |
| `ownership` | three tasks, a module that needs every stage | `EngineExclusive`, `NothingDangles`, `CallsProtected`, `ClaimReturned` |
| `provider` | geometries and partitions in a word of 32 values, some touching its end; two records in NVS, every NVS call may fail, loss of power | `OwnSlotOnly`, `NoSpuriousRefusal`, `ProgrammedOnce`, `HandlesClosed`, `RefinesRegister` |
| `package` | good, refused and forged packages, failing reads and digests, one decay; two imports, exports and entries | `AcceptedIsSigned`, `NothingLeftBehind`, `Answers` |
| `contents` | all inputs of up to five octets, two payload bits, words of five bits; all lists of up to six tokens, four identifiers, at most three entries; 1440 modules around a good one, four requests, four grants, four limits | `IntegersExact`, `RequestIsList`, `AdmittedOpens`, `ImportsLinked`, `EntriesAreGuestCode` |
| `values_canonical` | the same lists | violates `OnlyCanonical`, see section 6 |
| `read_failures` | one good package, failing reads and digests | violates `ReadFailuresReported`, see section 6 |
| `overrun_log` | one timer, logs, traps, a reliable clock | violates `OverrunLogDiscarded`, see section 6 |

Bounds, and why they suffice for the cases that matter:

* Six sequence numbers reach from the first installation to a confirmed package (1 and
  five transitions); `faults` and `race` also stop at the last one, so the check against
  `UINT32_MAX` is exercised. Twelve allow two full updates with a reservation after them,
  which reuses a slot that one of them has freed.
* Slot 0 has one block, the others two, so the size decides which slots are eligible,
  and the write loop makes one turn or several.
* Two boots put one loss of power anywhere, including between health proof and
  confirmation. Two clients are enough for a conflict over one record: the engine
  treats all clients alike and only one holds the lock.
* Three handles and two timer slots let the allocator reach its end while a slot is
  reused; five milliseconds let a timer of period 2 miss more periods than `MaxSkipped`
  counts.
* In `provider` regions of a few units in a word a little larger put slots next to each
  other, on top of each other and across the end of the word. Its two halves, like the
  three parts of `contents`, share no state, so each behaviour exercises one of them.
* One decay in `package` puts a change before or after any read; a payload of more than
  one block makes the cache refetch. Two names and two entries let every loop of the scans
  go round again and end.
* In `contents` two imports suffice for order, repetition and the offset of function
  indexes; everything else is edited once. Five-bit words with two-bit payloads leave
  one bit for the third octet, as 32 bits leave four for the fifth. Six tokens reach a
  list of three and the limit of three entries.
* Symmetry is used for clients and operation ids in the safety runs only.

Fairness. `LockReleased` assumes that a call that holds the lock goes on (`WF` of the
engine's steps): it is sequential code that waits for nobody, and its callbacks return.
`ClaimReturned` assumes the same of `open` and of `release_runtime`, and `Answers` of
the validation of a package (`WF` of its next step). These assume no client to call
anything. `PendingSettled` is about a product that does not give up (`RecoverySpec`): it
loads the record and abandons what is pending again and again (`SF`, because other calls
come in between), its trials end, and NVS and flash, which may fail any number of times,
do not fail for ever. `LockReleased` is checked under the same specification; it needs no
more than `WF`, since a call ends whichever way an access to the media turns out. Nothing
is assumed of losses of power. Deadlock is checked in all runs.

## 4. Proofs

All theorems are about the specifications the runs check, for every value of the
constants that satisfies the assumptions stated on them (`RecordAssumption`,
`EngineAssumption`, `InstallationAssumption`, `RuntimeAssumption`,
`OwnershipAssumption`, `FlashAssumption`, `PackageAssumption`, `ModulesAssumption`,
`PagesAssumption`, `CapsAssumption`, `WidthsAssumption`; TLC evaluates them in every run).
`PowersAssumption` restricts nothing: it states the two equations that define
exponentiation, which the provers do not know, for the exponents that occur. None of the
properties is inductive as it stands. The invariants below are; TLC checked each on the
instance of a run before it was proved.

### The record and its bytes: `SlotsProofs`

For any number of clients, packages, firmwares, operations, boots and any set of faults:

* `TypeCorrect`: `Spec => []TypeOK`. Types alone are not inductive: that an instance
  runs from one of the three slots, and a package rather than the all-zero digest,
  follows only if the record it was started from is valid. The invariant is `Sound`, the
  types together with "a blob that is a record satisfies `StateValid`, and so does the
  record a call is about to commit". It holds because `commit_next` and `initialize`
  refuse everything else. `SoundAlways` is the
  theorem; it also says that every record a crash leaves behind decodes at the next boot.
* `BytesSafe`: `Spec => []ReferencedBytesIntact`. The invariant `BytesInv` adds what
  the calls in progress know: while a slot is erased, written or verified, the durable
  record is the one the call has loaded, in phase `WRITING` (`WritesReserved`); and what
  the record about to be committed refers to is already in flash. The first part with
  `OperationValid` (a pending operation's slot is no confirmed one) gives that no erase
  or write touches a reference; the second that no commit creates a reference to missing
  bytes.

### Calls: `SlotsCallProofs`

A call compares sequence numbers once, when it begins, and reads nothing again before it
writes. Three invariants say why that is enough.

* `CallInv`: the arguments of the call are those its client and the executor gave
  (`RequestInv`); no snapshot is ahead of the durable record, and one with its sequence
  number is a copy of it (`SnapshotInv`); the call that commits has loaded the durable
  record, its client has seen it, and the record it proposes is a legal successor of it
  (`ProgressInv`, with one predicate `Reserves`, `Prepares`, ... for each call). From it
  `SnapshotsFaithful`, `NoUpdateLost`, `DamageKept`, `RollbackKept`, `InvalidEarned`,
  `ResultsTruthful`, `DecisionsSound` and `ReservedFirst`.
* `RecordInv`: bound packages and candidates past `write_and_prepare` are qualified, and
  a pending update keeps the schema of what it would replace. It carries a check made by
  one call to the call that relies on it: `PackagesQualified`, `SchemasKept`.
* `InstanceInv`: a running instance is the candidate while the record says its trial of
  this boot is under way, and otherwise the running firmware's package; its slot is
  therefore referred to, and `BytesInv` gives `InstanceBytesSafe`.

### Refinement: `SlotsCallProofs`, last part

`EngineImplementsProduct` is `Spec => RefinesProduct`. The abstract state is a function
of the durable blob, the firmware and what was attested, so only three kinds of step can
change it: the write of a blob, which is one abstract action decided by the call
(`ProgressInv` says which successor is written), a change of firmwares, and loss of
power, which is a reboot. The invariants above are what the mapped guards need.

### Flash and NVS: `ProviderProofs`

* `KeepsToOwnSlot`, `NothingRefused` and `EachByteOnce`, for every word, buffer, unit,
  partition table and configuration. `FlashInv` says that a bound geometry fits the
  partition table without reaching the end of the word (`Fits`, which is what
  `geometry_valid` and `partitions_match` establish), that an operation is about a
  package that fits its slot, and that the slot is programmed up to the offset and blank
  behind it, the offset being on a write unit until the package ends. The rest is
  arithmetic of whole units: rounding up to a unit stays within a bound that is a
  multiple of it (`RoundUpFacts`), so neither the padded last block nor the erased range
  leaves the slot.
* `NoHandleLeaks` and `ProviderImplementsRegister` from `NvsInv`: a handle is open exactly
  between open and close, a value staged exactly between set and commit, and the value is
  read only after its size was found right.

### Packages: `PackageVerifyProofs`

`OnlySigned` and `NothingLeft`, for every content of the slot, block and record size,
limit, course of the scans and number of decays. `VerifyInv` says which digest is open at
which stage (`DigestInv`); that the stream digest was fed as many units as the cursor has
passed, and that signature and Wasm are among them, the Wasm at the offset noted
(`StreamInv`); that info is about all of it (`AcceptInv`); and, for the later reads, that
a scan stays within the module whatever lengths it goes by (`Sound`) and whatever the
inspection saw or has cached at a place was written there *or the place has decayed*
(`InspectInv`), so that where the payload digest is fed what was written, the
inspection had seen it too (`PayloadInv`). This rests on flash not recovering from decay:
were it possible to read wrong bytes first and the right ones later, hashing last would
not help, and neither would the code. Cryptography is assumed as in the model.

### Admission: `AdmissionProofs`

* `AdmittedModulesOpen`, `ImportsAreLinked` and `EntriesAreOwnCode`, for every module,
  request, authorization and set of limits. `AdmissionInv` only ties the two verdicts and
  the native functions to the module at hand; the substance is in the lemmas about the
  parsers. Each parser is a list of checks of which the first that fails decides, and
  accepts only if none fails (of those that fail there is a first, lemma `FirstOf`).
  Sections in order have different ids, so both parsers mean the same section by an id
  (`BodyFacts`). Four exports with four different names out of four are all of them, so
  that the index recorded for an entry is that of its one export (`ExportFacts`), and
  behind the imports the engine's number of a function is the parser's (`FunctionNumber`).
  From these `ScannersAgree`, `AbiAgrees` and `NativeTypesAgree`, one for each pair of
  tables.
* `ListsReadExactly`, for any alphabet of identifiers, any known ones and any number of
  entries. `CapsInv` says that what was read is identifiers and commas in turn, that
  `previous` is the last identifier and that the results are those of what was read; a
  step that rejects then meets something no canonical list has at this place. Dictionary
  order is the order of `memcmp` and lengths (`BeforeAscends`).

### Integers: `NumeralsProofs`

`IntegersReadExactly`, for all widths of octets and words, all bases and inputs of any
length. Induction over the octets is not available to the provers, and not needed: the
decoder goes through the octets one by one, so an invariant of its loop does it.

* `WasmInv`: the octets read so far all announce another, and the result is the number
  they say. An octet more is a digit more above them (`WasmDigit`), it is shifted without
  loss and the result stays within the word unless the octet spills (`WasmFits`); and if it
  spills, no number of the word has these digits (`WasmTooLarge`). The code tests the whole
  last octet, its announcing bit included, so a sixth octet is never reached. Both
  `read_u32` and `next_u32` are this loop, counted in bits and in octets
  (`ReadIsIteration`, `NextIsIteration`).
* `JsonInv`: the result is the number the digits read so far say, and every number of the
  word that the whole numeral says starts with them (`JsonPrefix`), so that it is at least
  the result and is refused only if it does not fit. The limit of `MaxDigits` digits
  refuses nothing else because a numeral without leading zero is at least a power of the
  base, which is the last part of the invariant.
* `WasmDecodersAgree`: both decoders of Wasm integers refuse the same integers and find the
  same value and the same end of the others, since digits determine a number
  (`WasmSaysOne`).

The laws of powers are proved from `PowersAssumption`; where induction on the exponent
would be used, the proofs take the least exponent at which the law fails (`LeastOf`).

### Runtime: `RuntimeProofs`, `RuntimeOwnershipProofs`

* `RuntimeTypes`, `StoppedMeansSilent`, `NoTimerLost`, `HandlesUnique`, `OverrunsUndone`,
  `NobodyStarves` and `PhaseKept`, for any number of timers, any limits and any guest.
  The parts of `Inv` are what the state of the instance is at each `pc` (`PhaseInv`), that
  nothing is armed when it stops or has overrun (`DisarmedInv`; that a failed `init` leaves
  nothing armed is a fact about the one step, lemma `FailedInitDisarms`), what a poll in progress
  has taken (`SelectedInv`), that armed handles are issued, unsettled and different
  (`HandleInv`), that unsettled ones are armed (`ArmedInv`), that a timer delivered while
  another was due is now due after it (`TurnInv`), and whose log is pending (`LogInv`).
  Between rearming a timer and delivering its event the table of timers satisfies none of
  this; the invariants are about `Table`, the table as it is if the event cannot be
  delivered.
* `EngineSafe`, `CallsSafe` from `OwnerInv`, for any number of tasks: the claim belongs to
  the one task that is not idle, an idle task holds nothing, a ready one everything, and a
  method is inside only a ready runtime whose `call_active` is set.
* `DependenciesSafe` (`NothingDangles`) from `Grounded`, the dependencies between the
  resources of one runtime: what the next stage acquires comes after everything it is
  built on in `OpenRank`, and what is released next comes before everything it is built
  on in `ReleaseRank` (lemma `Ranks`), so neither order can break a dependency.

### Only model-checked

* `LockReleased`, `PendingSettled`, `ClaimReturned` and `Answers`: liveness under
  fairness is outside the prover's reach.

## 5. What is not modelled

* Byte formats below the level of the models: octal fields and checksums of tar headers,
  hexadecimal digests, CRC, the order of the manifest's keys (a fixed sequence of
  literals) and the instructions of a Wasm body. They are membership tests here.
* Cryptography: a digest identifies a content, a signature its signer. The OpenSSL
  adapters of the host tests have the same interface as the PSA ones and are left out.
* The Wasm engine itself; what is relied on of it is marked external in the map.
* The guest SDK (declarations), packaging scripts (sequential host programs) and the
  examples, which use the engine directly.
* Use of a runtime pointer after another task has closed it, which the API forbids.

## 6. Findings

**Log of an overrun entry.** `docs/operations/host-api-checkpoint.md` says that an entry
that overruns its deadline has the log it wrote discarded. `invoke` (`runtime.c:483`)
compares the clock with the deadline only if the guest's call did not trap: a guest that
logs, overruns and then traps or exhausts its instruction budget leaves its log to be
taken, with result `ENGINE_FAILURE` or `INSTRUCTION_LIMIT`. Run `overrun_log` shows it. The instance does
fail, and what `OverrunUndone` says of entries reported as expired holds.

**Trailing comma.** `docs/operations/package-stream-checkpoint.md` says that the manifest
parser refuses encodings other than the canonical one. `json_caps`
(`package_stream.c:147`) tries the closing bracket at the head of every iteration, after
a comma too, so `"required_capabilities":["log",]` is accepted, which is not JSON and
which the host tool refuses. Run `values_canonical` shows it. The list still
means what it says (`RequestIsList`), and the manifest has to be signed.

**A failed read taken for a verdict.** `docs/operations/package-stream-checkpoint.md` says
that a read that fails while the Wasm is read again is passed on as `IO_FAILED`, so that a
failure of flash is not reported as an untrusted package
(`three-slot-storage-checkpoint.md` makes the same distinction). `scan_imports`
(`package_wasm.c:291`) takes a `type_matches` that returns false for an import that is not
supported, also when a read in it has failed; it returns true, and if the reads of
`scan_exports` succeed `wasm_check` answers `UNSUPPORTED` without looking at
`read_failed`, which becomes `UNTRUSTED`. Run `read_failures` shows it. All other failed
reads are answered `IO_FAILED`, and in no case is the package accepted. The engine keeps
the operation in WRITING after either answer, so what is wrong is the report.

## 7. Plan

All invariants and action properties of the passing runs are proved, and both refinements.
The four liveness properties stay with TLC. A change of the code that adds a call, a stage
or a host function adds an action, a step to the proof of each invariant, and a mutant.
