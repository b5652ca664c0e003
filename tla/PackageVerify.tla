--------------------------- MODULE PackageVerify ---------------------------
(***************************************************************************)
(* econtainer_package_slot_validate: the package in a slot is streamed and *)
(* its signature verified (package_stream.c), compared with the operation  *)
(* (package_slot.c), and its Wasm member is read again, first in pieces    *)
(* for inspection and then in order for a digest (package_wasm.c).  Every  *)
(* read goes to flash, which may decay between any two of them; every read *)
(* and every call of the cryptographic library may fail.                   *)
(*                                                                         *)
(* The bytes of a package are abstracted to units, of which Block make a   *)
(* tar block; a digest is the sequence of units it was fed.                *)
(***************************************************************************)
EXTENDS Integers, FiniteSets, Sequences, SequencesExt

CONSTANTS
    Block,          \* units of a tar block, and of a read
    Record,         \* units of a tar record, to which a package is padded
    MaxManifest,    \* ECONTAINER_PACKAGE_MANIFEST_MAX_BYTES
    SignatureSize,  \* ECONTAINER_PACKAGE_SIGNATURE_BYTES
    MaxWasm,        \* the product's limit on the Wasm member
    Slack,          \* what a package may hold besides manifest and Wasm (8192)
    WasmUnits,      \* the contents a unit of a Wasm module may have
    Magic,          \* those that begin with the Wasm header
    Clean,          \* those in which the inspection finds no fault
    Names,          \* how many imports the host has, and exports a module (4)
    Entries,        \* how many of the exports are functions (3)
    MediumContents, \* what a slot may hold: sequences of units
    Claims,         \* what the operation says of it: [abi, schema]
    MaxDecays       \* bound on the number of units that decay

Zero              == [kind |-> "zero"]
Header(name, n)   == [kind |-> "header", name |-> name, size |-> n]
Wasm(w)           == [kind |-> "wasm", wasm |-> w]
ManifestUnit(m)   == [kind |-> "manifest", manifest |-> m]
SignatureUnit(m)  == [kind |-> "signature", signed |-> m]
Junk              == [kind |-> "junk"]

(* Everything that can be read from a slot, before and after it decays. *)
Units ==
    {Junk} \cup {Wasm(w) : w \in WasmUnits}
           \cup UNION {{m[i] : i \in DOMAIN m} : m \in MediumContents}

ASSUME PackageAssumption ==
    /\ Block \in Nat \ {0} /\ Record \in Nat \ {0}
    /\ SignatureSize \in 1..Block
    /\ {MaxManifest, MaxWasm, Slack, Names, Entries, MaxDecays} \subseteq Nat
    /\ MediumContents \subseteq Seq(Units)

VARIABLES
    medium,     \* what the slot holds now
    written,    \* what it held when the engine had hashed it
    claim,      \* the operation: package, size, abi, schema
    pc,         \* the stage, named for the bytes it reads
    left,       \* units the stage has yet to read
    got,        \* units it has read: its output buffer
    member,     \* member_size
    cursor,     \* stream->cursor
    digest,     \* the contexts: stream.digest, wasm_digest, the payload's
    manifest,   \* workspace->manifest
    signature,  \* workspace->signature
    info,       \* the local info, later *verified_info
    reader,     \* wasm_reader_t, and the scan that uses it with its locals
    inspected,  \* history: what the inspection saw, and where
    answer      \* result of econtainer_package_slot_validate

stream == <<left, got, member, cursor>>
memory == <<manifest, signature, info>>
world  == <<medium, written, claim>>
vars   == <<world, pc, stream, digest, memory, reader, inspected, answer>>

size == Len(written)

NoInfo   == [present |-> FALSE, published |-> FALSE, package |-> <<>>,
             offset |-> 0, size |-> 0, wasm |-> <<>>]
Unused   == [state |-> "unstarted", fed |-> <<>>]
Digests  == {"stream", "wasm", "payload"}

(* The functions that scan the module, in the order they first run.        *)
(* type_matches is called for every import and for every entry point.      *)
Scans == {"sections", "imports", "import type", "exports", "function", "entry type",
          "memory", "code"}

NoReader ==
    [scan |-> "sections",
     at |-> 0, mark |-> 0,          \* cursor, and where it goes back to
     index |-> 0, tries |-> 0,      \* of the loops over entries and over names
     looked |-> FALSE,              \* it has just read what it goes by next
     begin |-> 0, cache |-> <<>>,   \* cached_begin, workspace->block
     failed |-> FALSE,              \* read_failed
     unsupported |-> FALSE]

(* The engine calls validate right after hash_flash has found the bytes of *)
(* the operation in the slot.                                              *)
Init ==
    /\ medium \in MediumContents
    /\ written = medium
    /\ claim \in Claims
    /\ pc = "validate"
    /\ left = 0 /\ got = <<>> /\ member = 0 /\ cursor = 0
    /\ digest = [d \in Digests |-> Unused]
    \* left by the validation of an earlier package
    /\ manifest = <<Junk>> /\ signature = <<Junk>> /\ info = [NoInfo EXCEPT !.present = TRUE]
    /\ reader = NoReader
    /\ inspected = {}
    /\ answer = "none"

-----------------------------------------------------------------------------
(* The way out. *)

Abort(d) == [digest EXCEPT ![d].state = "closed"]

Cleared == manifest' = <<>> /\ signature' = <<>> /\ info' = NoInfo

(* IO_FAILED tells the engine to try again, UNTRUSTED to give up. *)
Answer(r) ==
    /\ pc' = "done"
    /\ answer' = CASE r = "OK"          -> "OK"
                   [] r = "READ_FAILED" -> "IO_FAILED"
                   [] OTHER             -> "UNTRUSTED"

(* Mutant: the Wasm digest is aborted whether it was started or not. *)
MutantFail(r) ==
    /\ digest' = [d \in Digests |->
          IF d = "payload" THEN digest[d]
          ELSE [digest[d] EXCEPT !.state = IF @ = "unstarted" THEN "corrupt" ELSE "closed"]]
    /\ Cleared
    /\ Answer(r)

(* The label done of econtainer_package_verify; the answer is the one of   *)
(* slot_validate, which returns at once.                                   *)
Fail(r) ==
    /\ digest' = [d \in Digests |->
          IF d = "stream" \/ (d = "wasm" /\ digest[d].state = "open")   \* wasm_digest_active
          THEN [digest[d] EXCEPT !.state = "closed"] ELSE digest[d]]
    /\ Cleared
    /\ Answer(r)

Start(d) == [digest EXCEPT ![d] = [state |-> "open", fed |-> <<>>]]
Feed(d, units) == [digest EXCEPT ![d].fed = @ \o units]

-----------------------------------------------------------------------------
(* econtainer_package_verify. *)

(* slot_validate clears its outputs and calls verify, whose arguments are  *)
(* sound but for the size.                                                 *)
Validate ==
    /\ pc = "validate"
    /\ \/ /\ size % Block # 0 \/ size > MaxWasm + MaxManifest + Slack
          /\ Answer("INVALID")
          /\ UNCHANGED <<stream, digest>>
       \/ \* the digest cannot be started, and cleans up after itself
          /\ Answer("INVALID")
          /\ digest' = Abort("stream")
          /\ UNCHANGED stream
       \/ /\ size % Block = 0 /\ size <= MaxWasm + MaxManifest + Slack
          /\ digest' = Start("stream")
          /\ pc' = "manifest header" /\ left' = Block /\ got' = <<>>
          /\ UNCHANGED <<member, cursor, answer>>
    /\ Cleared
    /\ UNCHANGED <<world, reader, inspected>>

Padding(n) == (Block - (n % Block)) % Block

ZeroStages == {"manifest padding", "signature padding", "wasm padding", "end"}
Stages     == ZeroStages \cup
    {"manifest header", "manifest", "signature header", "signature",
     "wasm header", "wasm"}

(* What a stage looks at while it reads. *)
Plausible(units) ==
    /\ pc \in ZeroStages => \A i \in DOMAIN units : units[i] = Zero
    /\ pc = "wasm" /\ got = <<>> => units[1].kind = "wasm" /\ units[1].wasm \in Magic

(* stream_read, and with it stream_bytes, stream_zeros, stream_header and  *)
(* the loop over the Wasm member, which feeds two digests.                 *)
StreamRead ==
    LET amount == IF left < Block THEN left ELSE Block
        units  == SubSeq(medium, cursor + 1, cursor + amount)
        fed    == Feed("stream", units)
    IN  /\ pc \in Stages /\ left > 0
        /\ \/ amount > size - cursor /\ Fail("INVALID") /\ UNCHANGED stream
           \/ amount <= size - cursor /\ Fail("READ_FAILED") /\ UNCHANGED stream
           \/ amount <= size - cursor /\ Fail("INVALID")     \* a digest failed
              /\ UNCHANGED stream
           \/ /\ amount <= size - cursor
              /\ ~Plausible(units) /\ Fail("INVALID") /\ UNCHANGED stream
           \/ /\ amount <= size - cursor
              /\ Plausible(units)
              /\ digest' = IF pc = "wasm" THEN [fed EXCEPT !["wasm"].fed = @ \o units]
                           ELSE fed
              /\ cursor' = cursor + amount
              /\ left' = left - amount
              /\ got' = got \o units
              /\ UNCHANGED <<pc, member, memory, answer>>
        /\ UNCHANGED <<world, reader, inspected>>

(* The next stage reads n units. *)
Goto(stage, n) ==
    /\ pc' = stage /\ left' = n /\ got' = <<>>
    /\ UNCHANGED <<cursor, answer>>

(* tar_size and tar_header_matches: the whole block is the header of a     *)
(* member of that name and of the size it gives.                           *)
HeaderMatches(name) ==
    /\ got[1].kind = "header"
    /\ got = [i \in 1..Block |-> Header(name, got[1].size)]

AfterHeader(name, lo, hi, stage) ==
    LET ok == HeaderMatches(name) /\ got[1].size \in lo..hi
    IN  /\ left = 0
        /\ \/ ~ok /\ Fail("INVALID") /\ UNCHANGED stream
           \/ /\ ok
              /\ member' = got[1].size
              /\ Goto(stage, got[1].size)
              /\ UNCHANGED <<digest, memory>>
        /\ UNCHANGED <<world, reader, inspected>>

ManifestHeader  == pc = "manifest header" /\ AfterHeader("manifest.json", 1, MaxManifest, "manifest")
SignatureHeader == pc = "signature header" /\
                   AfterHeader("signature.bin", SignatureSize, SignatureSize, "signature")

ManifestRead ==
    /\ pc = "manifest" /\ left = 0
    /\ manifest' = got
    /\ Goto("manifest padding", Padding(member))
    /\ UNCHANGED <<world, member, digest, signature, info, reader, inspected>>

(* parse_manifest: canonical, of the expected key and within the limit. *)
Parses(units) ==
    /\ Len(units) = 1 /\ units[1].kind = "manifest"
    /\ units[1].manifest.canonical
    /\ units[1].manifest.size \in 1..MaxWasm

Manifest == manifest[1].manifest

ManifestPadded ==
    /\ pc = "manifest padding" /\ left = 0
    /\ \/ ~Parses(manifest) /\ Fail("INVALID") /\ UNCHANGED stream
       \/ /\ Parses(manifest)
          /\ Goto("signature header", Block)
          /\ UNCHANGED <<member, digest, memory>>
    /\ UNCHANGED <<world, reader, inspected>>

SignatureRead ==
    /\ pc = "signature" /\ left = 0
    /\ signature' = got
    /\ Goto("signature padding", Block - member)
    /\ UNCHANGED <<world, member, digest, manifest, info, reader, inspected>>

(* Mutant: any signature will do. *)
MutantSignatureValid == signature # <<>>

SignatureValid == signature = <<SignatureUnit(Manifest)>>

(* econtainer_package_signature_verify: its own digest and key are released*)
(* on every path; it may also fail for want of resources.                  *)
SignaturePadded ==
    /\ pc = "signature padding" /\ left = 0
    /\ \/ Fail("UNTRUSTED") /\ UNCHANGED stream
       \/ /\ SignatureValid
          /\ Goto("wasm header", Block)
          /\ UNCHANGED <<member, digest, memory>>
    /\ UNCHANGED <<world, reader, inspected>>

WasmHeader ==
    LET ok == HeaderMatches("app.wasm") /\ got[1].size = Manifest.size
    IN  /\ pc = "wasm header" /\ left = 0
        /\ \/ Fail("INVALID") /\ UNCHANGED stream     \* ~ok, or no digest to be had
           \/ /\ ok
              /\ member' = got[1].size
              /\ digest' = Start("wasm")
              /\ info' = [info EXCEPT !.offset = cursor]   \* wasm_offset_bytes
              /\ Goto("wasm", got[1].size)
              /\ UNCHANGED <<manifest, signature>>
        /\ UNCHANGED <<world, reader, inspected>>

Hash(d) == digest[d].fed
Content(wasm) == [i \in DOMAIN wasm |-> Wasm(wasm[i])]

(* The digest is finished, successfully or not, before it is compared. *)
WasmRead ==
    /\ pc = "wasm" /\ left = 0
    /\ \/ Fail("INVALID") /\ UNCHANGED stream
       \/ /\ Hash("wasm") = Content(Manifest.wasm)
          /\ digest' = Abort("wasm")
          /\ Goto("wasm padding", Padding(member))
          /\ UNCHANGED <<member, memory>>
    /\ UNCHANGED <<world, reader, inspected>>

(* Two blocks of zeros end an archive, padded to a whole record. *)
CanonicalSize == ((cursor + 2 * Block + Record - 1) \div Record) * Record

WasmPadded ==
    /\ pc = "wasm padding" /\ left = 0
    /\ \/ CanonicalSize # size /\ Fail("INVALID") /\ UNCHANGED stream
       \/ /\ CanonicalSize = size
          /\ Goto("end", size - cursor)
          /\ UNCHANGED <<member, digest, memory>>
    /\ UNCHANGED <<world, reader, inspected>>

(* The last digest is finished and info filled in: verify returns OK. *)
Verified ==
    /\ pc = "end" /\ left = 0
    /\ \/ Fail("INVALID") /\ UNCHANGED stream
       \/ /\ digest' = Abort("stream")
          /\ info' = [info EXCEPT !.present = TRUE, !.package = Hash("stream"),
                                  !.size = member, !.wasm = Content(Manifest.wasm)]
          /\ pc' = "accept"
          /\ UNCHANGED <<stream, manifest, signature, answer>>
    /\ UNCHANGED <<world, reader, inspected>>

-----------------------------------------------------------------------------
(* econtainer_package_slot_validate and econtainer_package_wasm_check. *)

(* Mutant: the workspace keeps what verify left in it. *)
MutantRefuse(r) ==
    /\ info' = NoInfo
    /\ Answer(r)
    /\ UNCHANGED <<manifest, signature>>

(* The end of slot_validate without OK: info was a local. *)
Refuse(r) == Cleared /\ Answer(r)

(* It is the package of the operation, for this product, within the limits,*)
(* and what it asks for is granted (the first checks of wasm_check).       *)
Accepted ==
    /\ info.package = written
    /\ Manifest.abi = claim.abi /\ Manifest.schema = claim.schema
    /\ Manifest.product /\ Manifest.limits /\ Manifest.granted

Accept ==
    /\ pc = "accept"
    /\ \/ ~Accepted /\ Refuse("UNTRUSTED")
       \/ Accepted /\ pc' = "inspect" /\ UNCHANGED <<memory, answer>>
    /\ UNCHANGED <<world, stream, digest, reader, inspected>>

(* byte_at: a block of the module is cached; another one replaces it. *)
Cached(at) == reader.cache # <<>> /\ at >= reader.begin
              /\ at - reader.begin < Len(reader.cache)

FetchedFrom(at) ==
    LET begin  == (at \div Block) * Block
        amount == IF info.size - begin < Block THEN info.size - begin ELSE Block
    IN  [begin |-> begin,
         cache |-> SubSeq(medium, info.offset + begin + 1, info.offset + begin + amount)]

(* A scan begins with its section, wherever scan_sections has found it. *)
Begins(r, scan, index) ==
    {[r EXCEPT !.scan = scan, !.index = index, !.at = at, !.mark = at, !.tries = 0,
               !.looked = FALSE] : at \in 0..info.size}

GoesOn(readers) == reader' \in readers /\ UNCHANGED <<pc, memory, answer>>

(* A scan that sets *unsupported returns true.  The imports and exports    *)
(* are scanned before wasm_check looks at it.                              *)
Unsupported(r) ==
    \/ r.scan \in {"sections", "exports"} /\ Refuse("UNSUPPORTED") /\ reader' = r
    \/ /\ r.scan \in {"imports", "import type"}
       /\ GoesOn(Begins([r EXCEPT !.unsupported = TRUE], "exports", 0))

(* A scan returns false.  To scan_imports, a type that could not be read is*)
(* one that does not match.                                                *)
ScanFails(r) ==
    \/ r.scan = "import type" /\ Unsupported(r)
    \/ /\ r.scan # "import type"
       /\ Refuse(IF r.failed THEN "READ_FAILED" ELSE "INVALID")
       /\ reader' = r

(* byte_at and next_byte, and with them next_u32: a scan looks at the unit *)
(* under its cursor and moves on.                                          *)
Look ==
    LET at   == reader.at
        read == IF Cached(at) THEN reader
                ELSE [reader EXCEPT !.begin = FetchedFrom(at).begin,
                                    !.cache = FetchedFrom(at).cache]
        unit == read.cache[at - read.begin + 1]
        ok   == unit.kind = "wasm" /\ unit.wasm \in Clean
    IN  /\ pc = "inspect"
        /\ \/ at >= info.size /\ ScanFails(reader) /\ UNCHANGED inspected
           \/ at < info.size /\ ~Cached(at)
              /\ ScanFails([reader EXCEPT !.cache = <<>>, !.failed = TRUE])
              /\ UNCHANGED inspected
           \/ /\ at < info.size
              /\ inspected' = inspected \cup {<<at + 1, unit>>}
              /\ \/ ~ok /\ (ScanFails(read) \/ Unsupported(read))
                 \/ ok /\ GoesOn({[read EXCEPT !.at = @ + 1, !.looked = TRUE]})
        /\ UNCHANGED <<world, stream, digest>>

(* Mutant: a length is not compared with what remains, and the sum wraps. *)
MutantSkipsTo(at) == {(at + n) % (info.size + 1) : n \in 1..info.size}

(* Where a length in the module takes the cursor: not beyond the end. *)
SkipsTo(at) == {at + n : n \in {m \in 1..info.size : m <= info.size - at}}

(* What a scan passes over unseen: the body of a section or of a function, *)
(* a name of another length.                                               *)
Skip ==
    /\ pc = "inspect" /\ reader.looked
    /\ GoesOn({[reader EXCEPT !.at = to, !.looked = FALSE] : to \in SkipsTo(reader.at)})
    /\ UNCHANGED <<world, stream, digest, inspected>>

(* The name of an import or export is compared with one after another. *)
NextName ==
    /\ pc = "inspect" /\ reader.looked
    /\ reader.scan \in {"imports", "exports"} /\ reader.tries + 1 < Names
    /\ GoesOn({[reader EXCEPT !.at = reader.mark, !.tries = @ + 1, !.looked = FALSE]})
    /\ UNCHANGED <<world, stream, digest, inspected>>

(* An import has been read, and type_matches is called. *)
ImportType ==
    /\ pc = "inspect" /\ reader.looked
    /\ reader.scan = "imports" /\ reader.index < Names
    /\ GoesOn({[r EXCEPT !.mark = reader.at] : r \in Begins(reader, "import type", reader.index)})
    /\ UNCHANGED <<world, stream, digest, inspected>>

(* The next import or export. *)
NextItem ==
    /\ pc = "inspect" /\ reader.looked
    /\ \/ /\ reader.scan = "import type"    \* it matches
          /\ GoesOn({[reader EXCEPT !.scan = "imports", !.at = reader.mark,
                                    !.index = @ + 1, !.tries = 0, !.looked = FALSE]})
       \/ /\ reader.scan = "exports" /\ reader.index < Names
          /\ GoesOn({[reader EXCEPT !.mark = reader.at,
                                    !.index = @ + 1, !.tries = 0, !.looked = FALSE]})
    /\ UNCHANGED <<world, stream, digest, inspected>>

(* A scan returns true and wasm_check calls the next one.  A module need   *)
(* not have a section of imports; one that has may list none in it.        *)
ScanEnds ==
    LET Then(scan, index) == GoesOn(Begins(reader, scan, index))
    IN  /\ pc = "inspect"
        /\ \/ /\ reader.scan = "sections" /\ reader.at = info.size
              /\ Then("imports", 0) \/ Then("exports", 0)
           \/ /\ reader.scan = "imports" /\ (reader.looked <=> reader.index = 0)
              /\ Then("exports", 0)
           \/ /\ reader.scan = "exports" /\ reader.index = Names
              /\ \/ reader.unsupported /\ Refuse("UNSUPPORTED") /\ UNCHANGED reader
                 \/ ~reader.unsupported /\ Then("function", 1)
           \/ reader.looked /\ reader.scan = "function" /\ Then("entry type", reader.index)
           \/ /\ reader.looked /\ reader.scan = "entry type"
              /\ \/ reader.index < Entries /\ Then("function", reader.index + 1)
                 \/ reader.index >= Entries /\ Then("memory", 0)
           \/ reader.looked /\ reader.scan = "memory" /\ Then("code", 0)
        /\ UNCHANGED <<world, stream, digest, inspected>>

(* verify_payload_digest starts. *)
Inspected ==
    /\ pc = "inspect" /\ reader.scan = "code" /\ reader.looked
    /\ \/ Refuse("INVALID") /\ digest' = Abort("payload")
       \/ /\ pc' = "payload" /\ digest' = Start("payload")
          /\ UNCHANGED <<memory, answer>>
    /\ reader' = [reader EXCEPT !.at = 0]
    /\ UNCHANGED <<world, stream, inspected>>

PayloadRead ==
    LET chunk == FetchedFrom(reader.at).cache
    IN  /\ pc = "payload" /\ reader.at < info.size
        /\ \/ /\ Refuse("READ_FAILED") /\ digest' = Abort("payload")
              /\ UNCHANGED reader
           \/ /\ Refuse("INVALID") /\ digest' = Abort("payload")
              /\ UNCHANGED reader
           \/ /\ digest' = Feed("payload", chunk)
              /\ reader' = [reader EXCEPT !.at = @ + Len(chunk)]
              /\ UNCHANGED <<pc, memory, answer>>
        /\ UNCHANGED <<world, stream, inspected>>

(* Mutant: what was inspected is not hashed again. *)
MutantPayloadMatches == TRUE

PayloadMatches == Hash("payload") = info.wasm

(* *verified_info = info. *)
Finish ==
    /\ pc = "payload" /\ reader.at >= info.size
    /\ digest' = Abort("payload")
    /\ \/ Refuse("INVALID")
       \/ /\ PayloadMatches
          /\ info' = [info EXCEPT !.published = TRUE]
          /\ Answer("OK")
          /\ UNCHANGED <<manifest, signature>>
    /\ UNCHANGED <<world, stream, reader, inspected>>

-----------------------------------------------------------------------------
(* The medium: a unit loses what was written to it, for good. *)
Decay ==
    /\ pc # "done"
    /\ Cardinality({i \in DOMAIN medium : medium[i] # written[i]}) < MaxDecays
    /\ \E i \in DOMAIN medium :
          /\ medium[i] = written[i]
          /\ \E u \in {Junk} \cup {Wasm(w) : w \in IF written[i].kind = "wasm"
                                                 THEN WasmUnits ELSE {}} :
                u # written[i] /\ medium' = [medium EXCEPT ![i] = u]
    /\ UNCHANGED <<written, claim, pc, stream, digest, memory, reader, inspected, answer>>

Done == pc = "done" /\ UNCHANGED vars

Step ==
    \/ Validate \/ StreamRead
    \/ ManifestHeader \/ ManifestRead \/ ManifestPadded
    \/ SignatureHeader \/ SignatureRead \/ SignaturePadded
    \/ WasmHeader \/ WasmRead \/ WasmPadded \/ Verified
    \/ Accept \/ Look \/ Skip \/ NextName \/ ImportType \/ NextItem \/ ScanEnds
    \/ Inspected \/ PayloadRead \/ Finish

Next == Step \/ Decay \/ Done

Spec == Init /\ [][Next]_vars

(* A call runs: it is a function of the task that holds the storage lock. *)
FairSpec == Spec /\ WF_vars(Step)

-----------------------------------------------------------------------------
(* A package is accepted only if what the inspection saw of its Wasm, block*)
(* by block and possibly more than once, is what the signed manifest says, *)
(* although flash was read three times and may have changed in between.    *)
(* And what is published as verified is true of the bytes the operation is *)
(* about: the whole package was hashed, once and in order, its manifest is *)
(* the signed one, and the Wasm lies where and as long as info says.       *)
AcceptedIsSigned ==
    /\ answer = "OK" =>
          \A see \in inspected : see[2] = Wasm(Manifest.wasm[see[1]])
    /\ info.published =>
          /\ cursor = size
          /\ Contains(written, SignatureUnit(Manifest))
          /\ SubSeq(written, info.offset + 1, info.offset + info.size) = Content(Manifest.wasm)

(* However validation fails, nothing of the refused package stays behind,  *)
(* no info, manifest or signature, and whatever fails no digest context is *)
(* left open and none is aborted that was never initialised.               *)
NothingLeftBehind ==
    /\ pc = "done" /\ answer # "OK" =>
          ~info.present /\ manifest = <<>> /\ signature = <<>>
    /\ \A d \in Digests :
          /\ digest[d].state # "corrupt"
          /\ pc = "done" => digest[d].state # "open"

(* Validation answers, whatever the slot holds and wherever flash decays:  *)
(* the storage lock is held while it runs.                                 *)
Answers == <>(pc = "done")

(* A read that fails while the Wasm is read again is reported as IO_FAILED *)
(* (docs/operations/package-stream-checkpoint.md), so that a failure of    *)
(* flash is never taken for a package that is not to be trusted.           *)
ReadFailuresReported == pc = "done" /\ reader.failed => answer = "IO_FAILED"
=============================================================================
