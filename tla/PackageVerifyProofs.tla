------------------------ MODULE PackageVerifyProofs ------------------------
(***************************************************************************)
(* Theorems about the validation of a package, for every block size and    *)
(* every limit, whatever the slot holds, wherever the scans of the module  *)
(* go and flash decays meanwhile.                                          *)
(***************************************************************************)
EXTENDS PackageVerify, SequenceTheorems, TLAPS

Infos == [present : BOOLEAN, published : BOOLEAN, package : Seq(Units), offset : Nat,
          size : Nat, wasm : Seq(Units)]

Readers == [scan : Scans, at : Nat, mark : Nat, index : Nat, tries : Nat, looked : BOOLEAN,
            begin : Nat, cache : Seq(Units), failed : BOOLEAN, unsupported : BOOLEAN]

Types ==
    /\ medium \in Seq(Units) /\ written \in Seq(Units) /\ Len(medium) = Len(written)
    /\ pc \in Stages \cup {"validate", "accept", "inspect", "payload", "done"}
    /\ left \in Nat /\ got \in Seq(Units) /\ member \in Nat
    /\ cursor \in Nat /\ cursor <= size
    /\ digest \in [Digests -> [state : {"unstarted", "open", "closed"}, fed : Seq(Units)]]
    /\ manifest \in Seq(Units) /\ signature \in Seq(Units) /\ info \in Infos
    /\ reader \in Readers
    /\ answer \in {"none", "OK", "IO_FAILED", "UNTRUSTED"}

(* Which digest is open when: each for as long as its bytes are read. *)
DigestInv ==
    /\ digest["stream"].state = "open" <=> pc \in Stages
    /\ digest["wasm"].state = "open" <=> pc = "wasm"
    /\ digest["payload"].state = "open" <=> pc = "payload"

(* What is left when validation has answered. *)
DoneInv ==
    /\ pc = "done" <=> answer # "none"
    /\ pc = "done" /\ answer # "OK" => info = NoInfo /\ manifest = <<>> /\ signature = <<>>
    /\ info.published => answer = "OK"

AfterManifest  == {"signature header", "signature", "signature padding", "wasm header", "wasm",
                   "wasm padding", "end", "accept", "inspect", "payload"}
AfterSignature == {"wasm header", "wasm", "wasm padding", "end", "accept", "inspect", "payload"}
AfterWasm      == {"wasm padding", "end", "accept", "inspect", "payload"}
AfterStream    == {"accept", "inspect", "payload"}

Read == digest["stream"].fed    \* what the stream has read so far

(* What was read of the package is what the digest was fed, and everything *)
(* the verifier goes by was read: the signature, and the Wasm at its       *)
(* offset.                                                                 *)
StreamInv ==
    /\ pc = "validate" => cursor = 0
    /\ pc \in Stages \cup AfterStream => Len(Read) = cursor
    /\ pc \in Stages => \A k \in 1..Len(got) : \E j \in 1..Len(Read) : Read[j] = got[k]
    /\ pc \in AfterManifest => Parses(manifest)
    /\ pc = "signature" => member = SignatureSize
    /\ pc = "signature padding" =>
          \A k \in 1..Len(signature) : \E j \in 1..Len(Read) : Read[j] = signature[k]
    /\ pc \in AfterSignature => \E j \in 1..Len(Read) : Read[j] = SignatureUnit(Manifest)
    /\ pc \in {"wasm"} \cup AfterWasm => member > 0
    /\ pc = "wasm" => cursor + left = info.offset + member
    /\ pc \in {"wasm"} \cup AfterWasm =>
          /\ Len(Hash("wasm")) = IF pc = "wasm" THEN cursor - info.offset ELSE member
          /\ info.offset + Len(Hash("wasm")) <= cursor
          /\ \A i \in 1..Len(Hash("wasm")) : Read[info.offset + i] = Hash("wasm")[i]
    /\ pc \in AfterWasm => Hash("wasm") = Content(Manifest.wasm)
    /\ pc = "end" => cursor + left = size

(* verify returned OK: info is about what was read, in full. *)
AcceptInv ==
    /\ pc \in AfterStream =>
          /\ cursor = size
          /\ info.package = Read
          /\ info.size = member /\ info.wasm = Hash("wasm")
    /\ pc \in {"inspect", "payload"} => info.package = written

(* What the inspection saw or has cached was written there, or decayed     *)
(* before: a unit that is sound now was sound when it was looked at.       *)
Seen(i, u) ==
    /\ i \in 1..(info.size)
    /\ u = written[info.offset + i] \/ medium[info.offset + i] # written[info.offset + i]

(* A reader is within the module, whatever lengths it went by, and what it *)
(* has cached is what it read there.                                       *)
Sound(r) ==
    /\ r \in Readers /\ r.at <= info.size /\ r.mark <= info.size
    /\ \A k \in 1..Len(r.cache) : Seen(r.begin + k, r.cache[k])

InspectInv ==
    /\ pc \in Stages \cup {"validate", "accept"} => inspected = {} /\ reader = NoReader
    /\ pc \in {"inspect", "payload"} => \A see \in inspected : Seen(see[1], see[2])
    /\ pc = "inspect" => Sound(reader)

(* The payload's digest is fed in order.  Where it was fed what was        *)
(* written, so was the inspection.                                         *)
PayloadInv ==
    pc = "payload" =>
        /\ reader.at <= info.size
        /\ reader.at < info.size => reader.at % Block = 0
        /\ Len(Hash("payload")) = reader.at
        /\ \A see \in inspected :
              see[1] <= reader.at /\ Hash("payload")[see[1]] = written[info.offset + see[1]] =>
                  see[2] = written[info.offset + see[1]]

VerifyInv ==
    /\ Types /\ DigestInv /\ DoneInv /\ StreamInv /\ AcceptInv /\ InspectInv /\ PayloadInv
    /\ AcceptedIsSigned

-----------------------------------------------------------------------------
(* The ways out. *)

DigestType == [Digests -> [state : {"unstarted", "open", "closed"}, fed : Seq(Units)]]

(* What the calls of the cryptographic library do to the contexts. *)
LEMMA AbortFacts ==
    ASSUME digest \in DigestType, NEW d \in Digests
    PROVE  /\ Abort(d) \in DigestType
           /\ Abort(d)[d].state = "closed" /\ Abort(d)[d].fed = digest[d].fed
           /\ \A e \in Digests \ {d} : Abort(d)[e] = digest[e]
BY DEF DigestType, Abort

LEMMA StartFacts ==
    ASSUME digest \in DigestType, NEW d \in Digests
    PROVE  /\ Start(d) \in DigestType
           /\ Start(d)[d].state = "open" /\ Start(d)[d].fed = <<>>
           /\ \A e \in Digests \ {d} : Start(d)[e] = digest[e]
BY EmptySeq DEF DigestType, Start

LEMMA FeedFacts ==
    ASSUME digest \in DigestType, NEW d \in Digests, NEW units \in Seq(Units)
    PROVE  /\ Feed(d, units) \in DigestType
           /\ Feed(d, units)[d].state = digest[d].state
           /\ Feed(d, units)[d].fed = digest[d].fed \o units
           /\ \A e \in Digests \ {d} : Feed(d, units)[e] = digest[e]
<1>1. digest[d].fed \o units \in Seq(Units)
  BY ConcatProperties DEF DigestType
<1> QED
  BY <1>1 DEF DigestType, Feed

(* Nothing is open and everything is cleared: the invariant asks no more   *)
(* of a validation that has refused the package.                           *)
LEMMA EndKeeps ==
    ASSUME VerifyInv, pc' = "done", answer' \in {"IO_FAILED", "UNTRUSTED"}, Cleared,
           digest' \in DigestType, \A d \in Digests : digest'[d].state # "open",
           UNCHANGED <<world, stream>>,
           reader' \in Readers
    PROVE  VerifyInv'
<1>1. <<>> \in Seq(Units)
  BY EmptySeq
<1>2. NoInfo \in Infos /\ NoInfo.published = FALSE
  BY <1>1 DEF NoInfo, Infos
<1>3. Types'
  BY <1>1, <1>2 DEF VerifyInv, Types, Cleared, world, stream, DigestType, size
<1>4. DigestInv'
  BY DEF DigestInv, Digests, Stages, ZeroStages
<1>5. DoneInv'
  BY <1>2 DEF DoneInv, Cleared
<1>6. StreamInv' /\ AcceptInv' /\ InspectInv' /\ PayloadInv'
  BY DEF StreamInv, AcceptInv, InspectInv, PayloadInv, AfterManifest, AfterSignature, AfterWasm,
         AfterStream, Stages, ZeroStages
<1>7. AcceptedIsSigned'
  BY <1>2 DEF AcceptedIsSigned, Cleared
<1> QED
  BY <1>3, <1>4, <1>5, <1>6, <1>7 DEF VerifyInv

(* The label done of econtainer_package_verify. *)
LEMMA FailKeeps ==
    ASSUME VerifyInv, pc \in Stages, NEW r \in {"INVALID", "READ_FAILED", "UNTRUSTED"}, Fail(r),
           UNCHANGED <<world, stream, reader>>
    PROVE  VerifyInv'
<1>1. pc' = "done" /\ answer' \in {"IO_FAILED", "UNTRUSTED"} /\ Cleared
  BY DEF Fail, Answer
<1>2. digest' \in DigestType
  BY DEF Fail, VerifyInv, Types, DigestType
<1>3. digest["payload"].state # "open"
  BY DEF VerifyInv, DigestInv, Stages, ZeroStages
<1>4. \A d \in Digests : digest'[d].state # "open"
  BY <1>3 DEF Fail, VerifyInv, Types, Digests
<1> QED
  BY <1>1, <1>2, <1>4, EndKeeps DEF VerifyInv, Types

(* The end of econtainer_package_slot_validate without OK. *)
LEMMA RefuseKeeps ==
    ASSUME VerifyInv, pc \in AfterStream,
           NEW r \in {"INVALID", "READ_FAILED", "UNTRUSTED", "UNSUPPORTED"},
           Refuse(r), (digest' = digest /\ pc # "payload") \/ digest' = Abort("payload"),
           UNCHANGED <<world, stream>>,
           reader' \in Readers
    PROVE  VerifyInv'
<1>1. pc' = "done" /\ answer' \in {"IO_FAILED", "UNTRUSTED"} /\ Cleared
  BY DEF Refuse, Answer
<1>2. digest' \in DigestType
  BY AbortFacts DEF VerifyInv, Types, DigestType, Digests
<1>3. digest["stream"].state # "open" /\ digest["wasm"].state # "open"
  BY DEF VerifyInv, DigestInv, Stages, ZeroStages, AfterStream
<1>4. pc # "payload" => digest["payload"].state # "open"
  BY DEF VerifyInv, DigestInv
<1>5. \A d \in Digests : digest'[d].state # "open"
  BY <1>3, <1>4, AbortFacts DEF VerifyInv, Types, DigestType, Digests
<1> QED
  BY <1>1, <1>2, <1>5, EndKeeps

(* While the stream is read, only its own parts of the invariant matter. *)
LEMMA StageKeeps ==
    ASSUME VerifyInv, pc \in Stages \cup {"validate"}, pc' \in Stages, UNCHANGED answer,
           info'.published = FALSE, UNCHANGED <<reader, inspected>>,
           Types', DigestInv', StreamInv'
    PROVE  VerifyInv'
<1>1. answer' = "none" /\ pc' # "done"
  BY DEF VerifyInv, DoneInv, Types, Stages, ZeroStages
<1>2. DoneInv' /\ AcceptInv' /\ PayloadInv' /\ AcceptedIsSigned'
  BY <1>1 DEF DoneInv, AcceptInv, PayloadInv, AcceptedIsSigned, AfterStream, Stages, ZeroStages
<1>3. InspectInv'
  BY DEF VerifyInv, InspectInv, Stages, ZeroStages
<1> QED
  BY <1>2, <1>3 DEF VerifyInv

LEMMA Unpublished == ASSUME VerifyInv, pc # "done" PROVE info.published = FALSE
BY DEF VerifyInv, Types, DoneInv, Infos

-----------------------------------------------------------------------------

LEMMA VerifyInit == Init => VerifyInv
<1> SUFFICES ASSUME Init PROVE VerifyInv
  OBVIOUS
<1> USE PackageAssumption
<1>1. <<>> \in Seq(Units) /\ <<Junk>> \in Seq(Units) /\ Len(<<>>) = 0
  BY EmptySeq DEF Units
<1>2. medium \in Seq(Units) /\ Len(medium) \in Nat
  BY LenProperties DEF Init, PackageAssumption
<1>3. info \in Infos /\ info.published = FALSE
  BY <1>1 DEF Init, NoInfo, Infos
<1>4. digest \in DigestType /\ \A d \in Digests : digest[d].state = "unstarted"
  BY <1>1 DEF Init, Unused, DigestType
<1>5. reader \in Readers
  BY <1>1 DEF Init, NoReader, Readers, Scans
<1>6. Types
  BY <1>1, <1>2, <1>3, <1>4, <1>5 DEF Init, Types, size, DigestType
<1>7. DigestInv
  BY <1>4 DEF Init, DigestInv, Digests, Stages, ZeroStages
<1>8. DoneInv /\ AcceptedIsSigned
  BY <1>3 DEF Init, DoneInv, AcceptedIsSigned
<1>9. StreamInv /\ AcceptInv /\ InspectInv /\ PayloadInv
  BY DEF Init, StreamInv, AcceptInv, InspectInv, PayloadInv, AfterManifest, AfterSignature,
         AfterWasm, AfterStream, Stages, ZeroStages
<1> QED
  BY <1>6, <1>7, <1>8, <1>9 DEF VerifyInv

(* econtainer_package_verify begins. *)
LEMMA ValidateKeeps == ASSUME VerifyInv, Validate PROVE VerifyInv'
<1> USE PackageAssumption
<1>1. pc = "validate" /\ Cleared /\ UNCHANGED <<world, reader, inspected>>
  BY DEF Validate
<1>2. \A d \in Digests : digest[d].state # "open"
  BY <1>1 DEF VerifyInv, DigestInv, Digests, Stages, ZeroStages
<1>3. CASE Answer("INVALID") /\ UNCHANGED <<stream, digest>>
  BY <1>1, <1>2, <1>3, EndKeeps DEF Answer, VerifyInv, Types, DigestType
<1>4. CASE Answer("INVALID") /\ digest' = Abort("stream") /\ UNCHANGED stream
  <2>1. digest' \in DigestType /\ \A d \in Digests : digest'[d].state # "open"
    BY <1>2, <1>4, AbortFacts DEF VerifyInv, Types, DigestType, Digests
  <2> QED
    BY <1>1, <1>4, <2>1, EndKeeps DEF Answer, VerifyInv, Types
<1>5. CASE /\ digest' = Start("stream")
           /\ pc' = "manifest header" /\ left' = Block /\ got' = <<>>
           /\ UNCHANGED <<member, cursor, answer>>
  <2>1. <<>> \in Seq(Units) /\ Len(<<>>) = 0
    BY EmptySeq
  <2>2. info' \in Infos /\ info'.published = FALSE /\ manifest' = <<>> /\ signature' = <<>>
    BY <1>1, <2>1 DEF Cleared, NoInfo, Infos
  <2>3. /\ digest' \in DigestType
        /\ digest'["stream"].state = "open" /\ digest'["stream"].fed = <<>>
        /\ digest'["wasm"].state # "open" /\ digest'["payload"].state # "open"
    BY <1>2, <1>5, StartFacts DEF VerifyInv, Types, DigestType, Digests
  <2>4. Types'
    BY <1>1, <1>5, <2>1, <2>2, <2>3
       DEF VerifyInv, Types, DigestType, world, size, Stages, PackageAssumption
  <2>5. DigestInv'
    BY <1>5, <2>3 DEF DigestInv, Stages
  <2>6. StreamInv'
    BY <1>1, <1>5, <2>1, <2>3 DEF VerifyInv, StreamInv, Read, AfterManifest, AfterSignature,
       AfterWasm, AfterStream
  <2> QED
    BY <1>1, <1>5, <2>2, <2>4, <2>5, <2>6, StageKeeps DEF Stages
<1> QED
  BY <1>3, <1>4, <1>5 DEF Validate

-----------------------------------------------------------------------------
(* Reading. *)

(* A piece of the medium. *)
LEMMA PieceFacts ==
    ASSUME Types, NEW a \in Nat, NEW n \in Nat, a + n <= size
    PROVE  LET piece == SubSeq(medium, a + 1, a + n)
           IN  /\ piece \in Seq(Units) /\ Len(piece) = n
               /\ \A i \in 1..n : piece[i] = medium[a + i]
<1>1. Len(medium) \in Nat /\ a + n <= Len(medium)
  BY LenProperties DEF Types, size
<1>2. \A i \in (a + 1)..(a + n) : medium[i] \in Units
  BY <1>1, ElementOfSeq DEF Types
<1> DEFINE piece == SubSeq(medium, a + 1, a + n)
<1>3. /\ piece \in Seq(Units)
      /\ Len(piece) = IF a + 1 <= a + n THEN (a + n) - (a + 1) + 1 ELSE 0
      /\ \A i \in 1..((a + n) - (a + 1) + 1) : piece[i] = medium[(a + 1) + i - 1]
  BY <1>2, SubSeqProperties
<1> HIDE DEF piece
<1>4. Len(piece) = n
  BY <1>3
<1>5. \A i \in 1..n : piece[i] = medium[a + i]
  <2> TAKE i \in 1..n
  <2>1. i \in 1..((a + n) - (a + 1) + 1) /\ (a + 1) + i - 1 = a + i
    OBVIOUS
  <2> QED
    BY <1>3, <2>1
<1> QED
  BY <1>3, <1>4, <1>5 DEF piece

(* stream_read: what is read is added to the digest, and in the Wasm to    *)
(* both.                                                                   *)
LEMMA StreamReadKeeps == ASSUME VerifyInv, StreamRead PROVE VerifyInv'
<1> USE PackageAssumption
<1> DEFINE amount == IF left < Block THEN left ELSE Block
           units  == SubSeq(medium, cursor + 1, cursor + amount)
           fed    == Feed("stream", units)
<1>1. pc \in Stages /\ left > 0 /\ UNCHANGED <<world, reader, inspected>>
  BY DEF StreamRead
<1>2. CASE \E r \in {"INVALID", "READ_FAILED"} : Fail(r) /\ UNCHANGED stream
  BY <1>1, <1>2, FailKeeps
<1>3. CASE /\ amount <= size - cursor
           /\ digest' = IF pc = "wasm" THEN [fed EXCEPT !["wasm"].fed = @ \o units] ELSE fed
           /\ cursor' = cursor + amount
           /\ left' = left - amount
           /\ got' = got \o units
           /\ UNCHANGED <<pc, member, memory, answer>>
  <2>a. Types /\ DigestInv /\ StreamInv
    BY DEF VerifyInv
  <2>1. /\ size \in Nat /\ cursor \in Nat /\ left \in Nat /\ got \in Seq(Units)
        /\ digest \in DigestType
    BY <2>a, LenProperties DEF Types, size, DigestType
  <2>b. amount <= size - cursor /\ cursor' = cursor + amount /\ left' = left - amount
    BY <1>3
  <2>c. size \in Nat /\ cursor \in Nat /\ left \in Nat /\ left > 0
    BY <1>1, <2>1
  <2>d. amount \in Nat /\ 0 < amount /\ amount <= left
    BY <2>c DEF PackageAssumption
  <2> HIDE DEF amount
  <2>2. /\ amount \in Nat /\ 0 < amount /\ amount <= left /\ cursor + amount <= size
    BY ONLY <2>b, <2>c, <2>d
  <2>3. units \in Seq(Units) /\ Len(units) = amount
    BY <2>a, <2>1, <2>2, PieceFacts
  <2> HIDE DEF units
  <2>4. /\ fed \in DigestType /\ fed["stream"].state = digest["stream"].state
        /\ fed["stream"].fed = Read \o units
        /\ \A e \in Digests \ {"stream"} : fed[e] = digest[e]
    BY <2>1, <2>3, FeedFacts DEF Digests, Read
  <2> HIDE DEF fed
  <2>5. Read \in Seq(Units) /\ Hash("wasm") \in Seq(Units)
    BY <2>1 DEF Read, Hash, DigestType, Digests
  <2>6. /\ digest' \in DigestType
        /\ \A d \in Digests : digest'[d].state = digest[d].state
        /\ Read' = Read \o units
        /\ Hash("wasm")' = IF pc = "wasm" THEN Hash("wasm") \o units ELSE Hash("wasm")
    <3>1. CASE pc # "wasm"
      BY <1>3, <2>4, <3>1 DEF Read, Hash, Digests
    <3>2. CASE pc = "wasm"
      <4>1. digest' = [fed EXCEPT !["wasm"].fed = @ \o units]
        BY <1>3, <3>2
      <4>2. fed["wasm"].fed \o units \in Seq(Units) /\ fed["wasm"] = digest["wasm"]
        BY <2>3, <2>4, <2>5, ConcatProperties DEF Hash, Digests
      <4> QED
        BY <3>2, <4>1, <4>2, <2>4 DEF Read, Hash, Digests, DigestType
    <3> QED
      BY <3>1, <3>2
  <2>7. /\ Read' \in Seq(Units) /\ Len(Read') = Len(Read) + amount
        /\ Len(Read) \in Nat /\ Len(Read) = cursor
        /\ \A j \in 1..Len(Read) : Read'[j] = Read[j]
        /\ \A m \in 1..amount : Read'[cursor + m] = units[m]
    <3>1. Len(Read) \in Nat /\ Len(Read) = cursor
      BY <1>1, <2>a, <2>1 DEF StreamInv
    <3>2. /\ Read' \in Seq(Units) /\ Len(Read') = Len(Read) + amount
          /\ \A i \in 1..(Len(Read) + amount) :
                Read'[i] = IF i <= Len(Read) THEN Read[i] ELSE units[i - Len(Read)]
      BY <2>3, <2>5, <2>6, ConcatProperties
    <3>3. \A j \in 1..Len(Read) : Read'[j] = Read[j]
      BY <2>2, <3>1, <3>2
    <3>4. ASSUME NEW m \in 1..amount PROVE Read'[cursor + m] = units[m]
      <4>1. cursor + m \in 1..(Len(Read) + amount) /\ ~(cursor + m <= Len(Read))
            /\ (cursor + m) - Len(Read) = m
        BY <2>2, <3>1
      <4> QED
        BY <3>2, <4>1
    <3> QED
      BY <3>1, <3>2, <3>3, <3>4
  <2>8. /\ got' \in Seq(Units) /\ Len(got') = Len(got) + amount /\ Len(got) \in Nat
        /\ \A k \in 1..(Len(got) + amount) :
              got'[k] = IF k <= Len(got) THEN got[k] ELSE units[k - Len(got)]
    BY <1>3, <2>1, <2>3, ConcatProperties, LenProperties
  <2>9. Types'
    <3>1. cursor' \in Nat /\ cursor' <= size /\ left' \in Nat
      BY ONLY <2>b, <2>c, <2>2
    <3> QED
      BY <1>1, <1>3, <2>a, <2>6, <2>8, <3>1 DEF Types, DigestType, memory, world, size
  <2>10. DigestInv'
    BY <1>3, <2>a, <2>6 DEF DigestInv, Digests
  <2>11. StreamInv'
    <3>1. Len(Read') = cursor'
      BY <1>3, <2>7
    <3>2. ASSUME NEW u, \E j \in 1..Len(Read) : Read[j] = u
          PROVE  \E j \in 1..Len(Read') : Read'[j] = u
      BY <2>2, <2>7, <3>2
    <3>3. \A k \in 1..Len(got') : \E j \in 1..Len(Read') : Read'[j] = got'[k]
      <4> TAKE k \in 1..Len(got')
      <4>1. CASE k <= Len(got)
        <5>1. k \in 1..Len(got) /\ got'[k] = got[k]
          BY <2>8, <4>1
        <5> QED
          BY <1>1, <2>a, <3>2, <5>1 DEF StreamInv
      <4>2. CASE ~(k <= Len(got))
        <5>1. k - Len(got) \in 1..amount /\ got'[k] = units[k - Len(got)]
          BY <2>2, <2>8, <4>2
        <5>2. cursor + (k - Len(got)) \in 1..Len(Read')
          <6> DEFINE m == k - Len(got)
          <6>1. m \in 1..amount /\ Len(Read') = cursor + amount
            BY <2>7, <5>1
          <6> HIDE DEF m
          <6>2. cursor + m \in 1..(cursor + amount)
            BY ONLY <6>1, <2>c, <2>d
          <6> QED
            BY <6>1, <6>2 DEF m
        <5> QED
          BY <2>7, <5>1, <5>2
      <4> QED
        BY <4>1, <4>2
    <3>4. UNCHANGED <<pc, manifest, signature, info, member>> /\ size' = size
      BY <1>1, <1>3 DEF memory, world, size
    <3>5. pc = "signature padding" =>
             \A k \in 1..Len(signature) : \E j \in 1..Len(Read') : Read'[j] = signature[k]
      BY <2>a, <3>2 DEF StreamInv
    <3>6. pc \in AfterSignature => \E j \in 1..Len(Read') : Read'[j] = SignatureUnit(Manifest)
      BY <2>a, <3>2 DEF StreamInv
    <3>7. pc \in {"wasm", "end"} => cursor' + left' = cursor + left
      BY <1>3, <2>1, <2>2
    <3>8. ASSUME pc \in {"wasm"} \cup AfterWasm
          PROVE  /\ Len(Hash("wasm"))' = IF pc = "wasm" THEN cursor' - info.offset ELSE member
                 /\ info.offset + Len(Hash("wasm"))' <= cursor'
                 /\ \A i \in 1..Len(Hash("wasm")') :
                       Read'[info.offset + i] = Hash("wasm")'[i]
      <4> DEFINE w == Hash("wasm")
      <4>1. /\ Len(w) = IF pc = "wasm" THEN cursor - info.offset ELSE member
            /\ info.offset + Len(w) <= cursor
            /\ \A i \in 1..Len(w) : Read[info.offset + i] = w[i]
            /\ info.offset \in Nat /\ Len(w) \in Nat
        BY <2>a, <2>5, <3>8, LenProperties DEF StreamInv, Types, Infos
      <4>o. info.offset \in Nat /\ Len(w) \in Nat /\ info.offset + Len(w) <= cursor
        BY <4>1
      <4> HIDE DEF w
      <4>2. ASSUME NEW i \in 1..Len(w) PROVE Read'[info.offset + i] = w[i]
        <5>1. info.offset + i \in 1..cursor
          BY ONLY <2>c, <4>o, i \in 1..Len(w)
        <5> QED
          BY <2>7, <4>1, <5>1
      <4>3. CASE pc # "wasm"
        <5>1. w' = w
          BY <2>6, <4>3 DEF w
        <5>2. info.offset + Len(w) <= cursor'
          BY ONLY <2>b, <2>c, <2>d, <4>o
        <5> QED
          BY <4>1, <4>2, <4>3, <5>1, <5>2 DEF w
      <4>4. CASE pc = "wasm"
        <5>1. /\ w' = w \o units /\ Len(w') = Len(w) + amount
              /\ \A i \in 1..(Len(w) + amount) :
                    w'[i] = IF i <= Len(w) THEN w[i] ELSE units[i - Len(w)]
          <6>1. w' = w \o units /\ w \in Seq(Units)
            BY <2>5, <2>6, <4>4 DEF w
          <6> QED
            BY ONLY <2>3, <6>1, ConcatProperties
        <5>2. info.offset + Len(w) = cursor
          <6>1. Len(w) = cursor - info.offset
            BY <4>1, <4>4
          <6> QED
            BY ONLY <2>c, <4>o, <6>1
        <5>3. ASSUME NEW i \in 1..Len(w') PROVE Read'[info.offset + i] = w'[i]
          <6>0. i \in 1..(Len(w) + amount)
            BY <5>1
          <6>1. CASE i <= Len(w)
            <7>1. i \in 1..Len(w)
              BY ONLY <4>o, <6>0, <6>1, <2>d
            <7> QED
              BY <4>2, <5>1, <6>0, <6>1, <7>1
          <6>2. CASE ~(i <= Len(w))
            <7>1. i - Len(w) \in 1..amount /\ info.offset + i = cursor + (i - Len(w))
              BY ONLY <2>c, <2>d, <4>o, <5>2, <6>0, <6>2
            <7> QED
              BY <2>7, <5>1, <6>0, <6>2, <7>1
          <6> QED
            BY <6>1, <6>2
        <5>4. Len(w') = cursor' - info.offset /\ info.offset + Len(w') <= cursor'
          <6>1. Len(w') = Len(w) + amount
            BY <5>1
          <6> QED
            BY ONLY <2>b, <2>c, <2>d, <4>o, <5>2, <6>1
        <5> QED
          BY <4>4, <5>3, <5>4 DEF w
      <4> QED
        BY <4>3, <4>4
    <3>9. pc # "validate" /\ (pc \in AfterWasm => pc # "wasm")
      BY <1>1 DEF Stages, ZeroStages, AfterWasm
    <3>10. pc \in AfterWasm => Hash("wasm")' = Content(Manifest.wasm)
      BY <2>a, <2>6, <3>9 DEF StreamInv
    <3>11. Manifest' = Manifest /\ Parses(manifest)' = Parses(manifest)
      BY <3>4 DEF Manifest, Parses
    <3> QED
      BY <2>a, <3>1, <3>3, <3>4, <3>5, <3>6, <3>7, <3>8, <3>9, <3>10, <3>11 DEF StreamInv
  <2> QED
    BY <1>1, <1>3, <2>9, <2>10, <2>11, StageKeeps, Unpublished DEF memory, Stages, ZeroStages
<1> QED
  BY <1>2, <1>3 DEF StreamRead

-----------------------------------------------------------------------------
(* From stage to stage. *)

(* What the next stage must find, when no digest is started or finished. *)
LEMMA GotoKeeps ==
    ASSUME VerifyInv, pc \in Stages \ {"wasm"}, NEW stage \in Stages \ {"wasm"}, NEW n \in Nat,
           Goto(stage, n), UNCHANGED <<world, digest, info, reader, inspected>>,
           member' \in Nat, manifest' \in Seq(Units), signature' \in Seq(Units),
           stage \in AfterManifest => Parses(manifest'),
           stage = "signature" => member' = SignatureSize,
           stage = "signature padding" =>
              \A k \in 1..Len(signature') : \E j \in 1..Len(Read) : Read[j] = signature'[k],
           stage \in AfterSignature => \E j \in 1..Len(Read) : Read[j] = SignatureUnit(Manifest'),
           stage \in AfterWasm => pc \in AfterWasm /\ UNCHANGED <<member, manifest>>,
           stage = "end" => cursor + n = size
    PROVE  VerifyInv'
<1>1. pc' = stage /\ left' = n /\ got' = <<>> /\ UNCHANGED <<cursor, answer>>
  BY DEF Goto
<1>2. <<>> \in Seq(Units) /\ Len(<<>>) = 0
  BY EmptySeq
<1>3. size' = size /\ Read' = Read /\ Hash("wasm")' = Hash("wasm")
  BY DEF size, world, Read, Hash
<1>4. Types'
  BY <1>1, <1>2, <1>3 DEF VerifyInv, Types, world
<1>5. DigestInv'
  BY <1>1 DEF VerifyInv, DigestInv, Stages, ZeroStages
<1>6. StreamInv'
  <2>1. pc' \in Stages /\ pc' # "validate" /\ pc' # "wasm" /\ Len(got') = 0
    BY <1>1, <1>2 DEF Stages, ZeroStages
  <2>2. Len(Read) = cursor
    BY DEF VerifyInv, StreamInv
  <2>3. pc' \in AfterManifest => Parses(manifest)'
    BY <1>1 DEF Parses
  <2>4. pc' \in AfterSignature => \E j \in 1..Len(Read') : Read'[j] = SignatureUnit(Manifest)'
    BY <1>1, <1>3 DEF SignatureUnit
  <2>5. ASSUME pc' \in {"wasm"} \cup AfterWasm
        PROVE  /\ member' > 0
               /\ Len(Hash("wasm")') = member'
               /\ info'.offset + Len(Hash("wasm")') <= cursor'
               /\ \A i \in 1..Len(Hash("wasm")') : Read'[info'.offset + i] = Hash("wasm")'[i]
               /\ Hash("wasm")' = Content(Manifest.wasm)'
    <3>1. pc \in AfterWasm /\ pc # "wasm" /\ UNCHANGED <<member, manifest, info, cursor>>
      BY <1>1, <2>1, <2>5
    <3>2. Content(Manifest.wasm)' = Content(Manifest.wasm)
      BY <3>1 DEF Content, Manifest
    <3>3. /\ member > 0 /\ Len(Hash("wasm")) = member
          /\ info.offset + Len(Hash("wasm")) <= cursor
          /\ \A i \in 1..Len(Hash("wasm")) : Read[info.offset + i] = Hash("wasm")[i]
          /\ Hash("wasm") = Content(Manifest.wasm)
      BY <3>1 DEF VerifyInv, StreamInv
    <3> QED
      BY ONLY <1>3, <3>1, <3>2, <3>3
  <2>6. pc' = "end" => cursor' + left' = size'
    BY <1>1, <1>3
  <2>7. /\ pc' = "signature" => member' = SignatureSize
        /\ pc' = "signature padding" =>
             \A k \in 1..Len(signature') : \E j \in 1..Len(Read') : Read'[j] = signature'[k]
    BY <1>1, <1>3
  <2>8. Len(Read') = cursor' /\ \A k \in 1..Len(got') : \E j \in 1..Len(Read') : Read'[j] = got'[k]
    <3>1. 1..Len(got') = {}
      BY ONLY <2>1
    <3> QED
      BY <1>1, <1>3, <2>2, <3>1
  <2> QED
    BY ONLY <2>1, <2>3, <2>4, <2>5, <2>6, <2>7, <2>8 DEF StreamInv, AfterWasm
<1> QED
  BY <1>1, <1>4, <1>5, <1>6, StageKeeps, Unpublished DEF Stages, ZeroStages

LEMMA ManifestHeaderKeeps == ASSUME VerifyInv, ManifestHeader PROVE VerifyInv'
<1> USE PackageAssumption
<1> DEFINE n == got[1].size
<1>1. pc = "manifest header" /\ UNCHANGED <<world, reader, inspected>>
  BY DEF ManifestHeader, AfterHeader
<1>2. CASE Fail("INVALID") /\ UNCHANGED stream
  BY <1>1, <1>2, FailKeeps DEF Stages
<1>3. CASE /\ n \in 1..MaxManifest /\ member' = n /\ Goto("manifest", n)
           /\ UNCHANGED <<digest, memory>>
  <2>1. n \in Nat /\ manifest' \in Seq(Units) /\ signature' \in Seq(Units)
    BY <1>3 DEF PackageAssumption, memory, VerifyInv, Types
  <2> HIDE DEF n
  <2> QED
    BY <1>1, <1>3, <2>1, GotoKeeps DEF Stages, ZeroStages, AfterManifest, AfterSignature,
       AfterWasm, memory
<1> QED
  BY <1>2, <1>3 DEF ManifestHeader, AfterHeader

LEMMA ManifestReadKeeps == ASSUME VerifyInv, ManifestRead PROVE VerifyInv'
<1> USE PackageAssumption
<1>1. Padding(member) \in Nat
  BY DEF PackageAssumption, Padding, VerifyInv, Types
<1>2. member' \in Nat /\ manifest' \in Seq(Units) /\ signature' \in Seq(Units)
  BY DEF ManifestRead, VerifyInv, Types
<1> QED
  BY <1>1, <1>2, GotoKeeps DEF ManifestRead, Stages, ZeroStages, AfterManifest, AfterSignature,
     AfterWasm

LEMMA ManifestPaddedKeeps == ASSUME VerifyInv, ManifestPadded PROVE VerifyInv'
<1> USE PackageAssumption
<1>1. pc = "manifest padding" /\ UNCHANGED <<world, reader, inspected>>
  BY DEF ManifestPadded
<1>2. CASE Fail("INVALID") /\ UNCHANGED stream
  BY <1>1, <1>2, FailKeeps DEF Stages, ZeroStages
<1>3. CASE Parses(manifest) /\ Goto("signature header", Block) /\ UNCHANGED <<member, digest, memory>>
  <2>1. /\ Block \in Nat /\ member' \in Nat /\ Parses(manifest')
        /\ manifest' \in Seq(Units) /\ signature' \in Seq(Units)
    BY <1>3 DEF PackageAssumption, memory, VerifyInv, Types
  <2> QED
    BY <1>1, <1>3, <2>1, GotoKeeps DEF Stages, ZeroStages, AfterSignature, AfterWasm, memory
<1> QED
  BY <1>2, <1>3 DEF ManifestPadded

LEMMA SignatureHeaderKeeps == ASSUME VerifyInv, SignatureHeader PROVE VerifyInv'
<1> USE PackageAssumption
<1> DEFINE n == got[1].size
<1>1. pc = "signature header" /\ UNCHANGED <<world, reader, inspected>>
  BY DEF SignatureHeader, AfterHeader
<1>2. CASE Fail("INVALID") /\ UNCHANGED stream
  BY <1>1, <1>2, FailKeeps DEF Stages
<1>3. CASE /\ n \in SignatureSize..SignatureSize /\ member' = n /\ Goto("signature", n)
           /\ UNCHANGED <<digest, memory>>
  <2>1. n = SignatureSize /\ n \in Nat
    BY <1>3 DEF PackageAssumption
  <2>2. manifest' \in Seq(Units) /\ signature' \in Seq(Units) /\ manifest' = manifest
    BY <1>3 DEF memory, VerifyInv, Types
  <2>3. Parses(manifest')
    BY <1>1, <2>2 DEF VerifyInv, StreamInv, AfterManifest
  <2> HIDE DEF n
  <2> QED
    BY <1>1, <1>3, <2>1, <2>2, <2>3, GotoKeeps DEF Stages, ZeroStages, AfterSignature, AfterWasm,
       memory
<1> QED
  BY <1>2, <1>3 DEF SignatureHeader, AfterHeader

LEMMA SignatureReadKeeps == ASSUME VerifyInv, SignatureRead PROVE VerifyInv'
<1> USE PackageAssumption
<1>1. pc = "signature" /\ signature' = got /\ UNCHANGED <<manifest, member>>
  BY DEF SignatureRead
<1>2. member = SignatureSize /\ Parses(manifest)
  BY <1>1 DEF VerifyInv, StreamInv, AfterManifest
<1>3. Block - member \in Nat
  BY <1>2 DEF PackageAssumption
<1>4. \A k \in 1..Len(got) : \E j \in 1..Len(Read) : Read[j] = got[k]
  BY <1>1 DEF VerifyInv, StreamInv, Stages
<1>5. member' \in Nat /\ manifest' \in Seq(Units) /\ signature' \in Seq(Units)
  BY <1>1 DEF VerifyInv, Types
<1> QED
  BY <1>1, <1>2, <1>3, <1>4, <1>5, GotoKeeps DEF SignatureRead, Stages, ZeroStages,
     AfterSignature, AfterWasm

LEMMA SignaturePaddedKeeps == ASSUME VerifyInv, SignaturePadded PROVE VerifyInv'
<1> USE PackageAssumption
<1>1. pc = "signature padding" /\ UNCHANGED <<world, reader, inspected>>
  BY DEF SignaturePadded
<1>2. CASE Fail("UNTRUSTED") /\ UNCHANGED stream
  BY <1>1, <1>2, FailKeeps DEF Stages, ZeroStages
<1>3. CASE SignatureValid /\ Goto("wasm header", Block) /\ UNCHANGED <<member, digest, memory>>
  <2>1. /\ Block \in Nat /\ member' \in Nat
        /\ manifest' \in Seq(Units) /\ signature' \in Seq(Units) /\ manifest' = manifest
    BY <1>3 DEF PackageAssumption, memory, VerifyInv, Types
  <2>2. Parses(manifest')
    BY <1>1, <2>1 DEF VerifyInv, StreamInv, AfterManifest
  <2>3. Manifest' = Manifest
    BY <2>1 DEF Manifest
  <2>4. Len(signature) = 1 /\ signature[1] = SignatureUnit(Manifest)
    BY <1>3 DEF SignatureValid
  <2>5. \A k \in 1..Len(signature) : \E j \in 1..Len(Read) : Read[j] = signature[k]
    BY <1>1 DEF VerifyInv, StreamInv
  <2>6. \E j \in 1..Len(Read) : Read[j] = SignatureUnit(Manifest')
    BY <2>3, <2>4, <2>5
  <2> QED
    BY <1>1, <1>3, <2>1, <2>2, <2>6, GotoKeeps DEF Stages, ZeroStages, AfterWasm, memory
<1> QED
  BY <1>2, <1>3 DEF SignaturePadded

LEMMA WasmPaddedKeeps == ASSUME VerifyInv, WasmPadded PROVE VerifyInv'
<1>1. pc = "wasm padding" /\ UNCHANGED <<world, reader, inspected>>
  BY DEF WasmPadded
<1>2. CASE Fail("INVALID") /\ UNCHANGED stream
  BY <1>1, <1>2, FailKeeps DEF Stages, ZeroStages
<1>3. CASE Goto("end", size - cursor) /\ UNCHANGED <<member, digest, memory>>
  <2>1. /\ member' \in Nat
        /\ manifest' \in Seq(Units) /\ signature' \in Seq(Units) /\ manifest' = manifest
    BY <1>3 DEF memory, VerifyInv, Types
  <2>2. cursor \in Nat /\ cursor <= size /\ size \in Nat
    BY LenProperties DEF VerifyInv, Types, size
  <2>3. size - cursor \in Nat /\ cursor + (size - cursor) = size
    BY ONLY <2>2
  <2>4. Parses(manifest') /\ \E j \in 1..Len(Read) : Read[j] = SignatureUnit(Manifest')
    BY <1>1, <2>1 DEF VerifyInv, StreamInv, AfterManifest, AfterSignature, Manifest
  <2> QED
    BY <1>1, <1>3, <2>1, <2>3, <2>4, GotoKeeps DEF Stages, ZeroStages, AfterWasm, memory
<1> QED
  BY <1>2, <1>3 DEF WasmPadded

(* The Wasm begins, where info will say: its digest has been fed nothing. *)
LEMMA WasmHeaderKeeps == ASSUME VerifyInv, WasmHeader PROVE VerifyInv'
<1> USE PackageAssumption
<1> DEFINE n == got[1].size
<1>1. pc = "wasm header" /\ UNCHANGED <<world, reader, inspected>>
  BY DEF WasmHeader
<1>2. CASE Fail("INVALID") /\ UNCHANGED stream
  BY <1>1, <1>2, FailKeeps DEF Stages
<1>3. CASE /\ n = Manifest.size /\ member' = n /\ digest' = Start("wasm")
           /\ info' = [info EXCEPT !.offset = cursor]
           /\ Goto("wasm", n) /\ UNCHANGED <<manifest, signature>>
  <2>a. Types /\ DigestInv /\ StreamInv
    BY DEF VerifyInv
  <2>1. Parses(manifest) /\ \E j \in 1..Len(Read) : Read[j] = SignatureUnit(Manifest)
    BY <1>1, <2>a DEF StreamInv, AfterManifest, AfterSignature
  <2>2. n \in Nat /\ n > 0
    BY <1>3, <2>1 DEF Parses, Manifest, PackageAssumption
  <2> HIDE DEF n
  <2>3. /\ pc' = "wasm" /\ left' = n /\ got' = <<>> /\ member' = n
        /\ UNCHANGED <<cursor, answer, manifest, signature>>
    BY <1>3 DEF Goto
  <2>4. <<>> \in Seq(Units) /\ Len(<<>>) = 0
    BY EmptySeq
  <2>5. /\ info' \in Infos /\ info'.offset = cursor /\ info'.published = FALSE
        /\ cursor \in Nat
    BY <1>1, <1>3, <2>a, Unpublished DEF Types, Infos
  <2>6. /\ digest' \in DigestType /\ digest'["wasm"].state = "open" /\ digest'["wasm"].fed = <<>>
        /\ digest'["stream"] = digest["stream"] /\ digest'["payload"] = digest["payload"]
    BY <1>3, <2>a, StartFacts DEF Types, DigestType, Digests
  <2>7. Read' = Read /\ Hash("wasm")' = <<>> /\ Manifest' = Manifest /\ size' = size
    BY <1>1, <2>3, <2>6 DEF Read, Hash, Manifest, size, world
  <2>8. Types'
    BY <1>1, <2>a, <2>2, <2>3, <2>4, <2>5, <2>6, <2>7 DEF Types, world, DigestType, Stages
  <2>9. DigestInv'
    BY <1>1, <2>a, <2>3, <2>6 DEF DigestInv, Stages
  <2>10. StreamInv'
    <3>1. Len(Read) = cursor
      BY <1>1, <2>a DEF StreamInv, Stages
    <3>2. Len(got') = 0 /\ Len(Hash("wasm")') = 0
      BY <2>3, <2>4, <2>7
    <3>3. 1..Len(got') = {} /\ 1..Len(Hash("wasm")') = {}
      BY ONLY <3>2
    <3>4. Len(Hash("wasm")') = cursor' - info'.offset /\ info'.offset + Len(Hash("wasm")') <= cursor'
      BY ONLY <2>3, <2>5, <3>2
    <3>5. Parses(manifest)' /\ \E j \in 1..Len(Read') : Read'[j] = SignatureUnit(Manifest)'
      BY <2>1, <2>3, <2>7 DEF Parses, SignatureUnit
    <3>6. cursor' + left' = info'.offset + member' /\ member' > 0
      BY <2>2, <2>3, <2>5
    <3> QED
      BY ONLY <2>3, <2>7, <3>1, <3>3, <3>4, <3>5, <3>6 DEF StreamInv, AfterWasm
  <2> QED
    BY <1>1, <2>3, <2>5, <2>8, <2>9, <2>10, StageKeeps DEF Stages
<1> QED
  BY <1>2, <1>3 DEF WasmHeader

(* The Wasm has been read, and is the one the manifest names. *)
LEMMA WasmReadKeeps == ASSUME VerifyInv, WasmRead PROVE VerifyInv'
<1> USE PackageAssumption
<1>1. pc = "wasm" /\ left = 0 /\ UNCHANGED <<world, reader, inspected>>
  BY DEF WasmRead
<1>2. CASE Fail("INVALID") /\ UNCHANGED stream
  BY <1>1, <1>2, FailKeeps DEF Stages
<1>3. CASE /\ Hash("wasm") = Content(Manifest.wasm) /\ digest' = Abort("wasm")
           /\ Goto("wasm padding", Padding(member)) /\ UNCHANGED <<member, memory>>
  <2>a. Types /\ DigestInv /\ StreamInv
    BY DEF VerifyInv
  <2>1. /\ pc' = "wasm padding" /\ left' = Padding(member) /\ got' = <<>>
        /\ UNCHANGED <<cursor, answer, member, manifest, signature, info>>
    BY <1>3 DEF Goto, memory
  <2>2. Padding(member) \in Nat
    BY <2>a DEF Padding, Types, PackageAssumption
  <2>3. <<>> \in Seq(Units) /\ Len(<<>>) = 0
    BY EmptySeq
  <2>4. /\ digest' \in DigestType /\ digest'["wasm"].state = "closed"
        /\ digest'["wasm"].fed = digest["wasm"].fed
        /\ digest'["stream"] = digest["stream"] /\ digest'["payload"] = digest["payload"]
    BY <1>3, <2>a, AbortFacts DEF Types, DigestType, Digests
  <2>5. /\ Read' = Read /\ Hash("wasm")' = Hash("wasm") /\ size' = size
        /\ Manifest' = Manifest /\ Content(Manifest.wasm)' = Content(Manifest.wasm)
    BY <1>1, <2>1, <2>4 DEF Read, Hash, Manifest, Content, size, world
  <2>6. Types'
    BY <1>1, <2>a, <2>1, <2>2, <2>3, <2>4, <2>5 DEF Types, world, DigestType, Stages, ZeroStages
  <2>7. DigestInv'
    BY <1>1, <2>a, <2>1, <2>4 DEF DigestInv, Stages, ZeroStages
  <2>8. StreamInv'
    <3>1. /\ Len(Read) = cursor /\ Parses(manifest) /\ member > 0
          /\ \E j \in 1..Len(Read) : Read[j] = SignatureUnit(Manifest)
          /\ cursor + left = info.offset + member
          /\ Len(Hash("wasm")) = cursor - info.offset
          /\ info.offset + Len(Hash("wasm")) <= cursor
          /\ \A i \in 1..Len(Hash("wasm")) : Read[info.offset + i] = Hash("wasm")[i]
      BY <1>1, <2>a DEF StreamInv, Stages, AfterManifest, AfterSignature
    <3>2. cursor \in Nat /\ info.offset \in Nat /\ member \in Nat
      BY <2>a DEF Types, Infos
    <3>3. Len(Hash("wasm")) = member
      BY ONLY <1>1, <3>1, <3>2
    <3>4. Len(got') = 0
      BY <2>1, <2>3
    <3>5. 1..Len(got') = {}
      BY ONLY <3>4
    <3>6. Parses(manifest)' /\ \E j \in 1..Len(Read') : Read'[j] = SignatureUnit(Manifest)'
      BY <2>1, <2>5, <3>1 DEF Parses, SignatureUnit
    <3> QED
      BY ONLY <1>3, <2>1, <2>5, <3>1, <3>3, <3>5, <3>6 DEF StreamInv
  <2> QED
    BY <1>1, <2>1, <2>6, <2>7, <2>8, StageKeeps, Unpublished DEF Stages, ZeroStages
<1> QED
  BY <1>2, <1>3 DEF WasmRead

(* verify returns OK: info is about all that the slot was read to hold. *)
LEMMA VerifiedKeeps == ASSUME VerifyInv, Verified PROVE VerifyInv'
<1>1. pc = "end" /\ left = 0 /\ UNCHANGED <<world, reader, inspected>>
  BY DEF Verified
<1>2. CASE Fail("INVALID") /\ UNCHANGED stream
  BY <1>1, <1>2, FailKeeps DEF Stages, ZeroStages
<1>3. CASE /\ digest' = Abort("stream")
           /\ info' = [info EXCEPT !.present = TRUE, !.package = Hash("stream"),
                                   !.size = member, !.wasm = Content(Manifest.wasm)]
           /\ pc' = "accept" /\ UNCHANGED <<stream, manifest, signature, answer>>
  <2>a. Types /\ DigestInv /\ StreamInv /\ DoneInv /\ InspectInv
    BY DEF VerifyInv
  <2>1. UNCHANGED <<left, got, member, cursor, manifest, signature, answer>>
    BY <1>3 DEF stream
  <2>2. /\ digest' \in DigestType /\ digest'["stream"].state = "closed"
        /\ digest'["stream"].fed = digest["stream"].fed
        /\ digest'["wasm"] = digest["wasm"] /\ digest'["payload"] = digest["payload"]
    BY <1>3, <2>a, AbortFacts DEF Types, DigestType, Digests
  <2>3. /\ Len(Read) = cursor /\ Parses(manifest) /\ member > 0
        /\ \E j \in 1..Len(Read) : Read[j] = SignatureUnit(Manifest)
        /\ Len(Hash("wasm")) = member /\ info.offset + Len(Hash("wasm")) <= cursor
        /\ \A i \in 1..Len(Hash("wasm")) : Read[info.offset + i] = Hash("wasm")[i]
        /\ Hash("wasm") = Content(Manifest.wasm)
        /\ cursor + left = size
    BY <1>1, <2>a
       DEF StreamInv, Stages, ZeroStages, AfterManifest, AfterSignature, AfterWasm
  <2>4. Read \in Seq(Units) /\ Hash("wasm") \in Seq(Units) /\ Hash("stream") = Read
    BY <2>a DEF Types, Read, Hash, Digests
  <2>5. /\ info' \in Infos /\ info'.offset = info.offset /\ info'.published = FALSE
        /\ info'.package = Read /\ info'.size = member /\ info'.wasm = Hash("wasm")
    <3>1. info \in Infos /\ member \in Nat /\ info.published = FALSE
      BY <1>1, <2>a, Unpublished DEF Types
    <3>2. info' = [info EXCEPT !.present = TRUE, !.package = Read,
                               !.size = member, !.wasm = Hash("wasm")]
      BY <1>3, <2>3, <2>4
    <3> QED
      BY ONLY <2>4, <3>1, <3>2 DEF Infos
  <2>6. /\ Read' = Read /\ Hash("wasm")' = Hash("wasm") /\ size' = size
        /\ Manifest' = Manifest /\ Content(Manifest.wasm)' = Content(Manifest.wasm)
    BY <1>1, <2>1, <2>2 DEF Read, Hash, Manifest, Content, size, world
  <2>7. Types'
    BY <1>1, <1>3, <2>a, <2>1, <2>2, <2>5, <2>6 DEF Types, world, DigestType
  <2>8. DigestInv'
    BY <1>1, <1>3, <2>a, <2>2 DEF DigestInv, Stages, ZeroStages
  <2>9. answer' = "none"
    BY <1>1, <2>1, <2>a DEF DoneInv
  <2>10. DoneInv' /\ AcceptedIsSigned' /\ PayloadInv'
    BY <1>3, <2>5, <2>9 DEF DoneInv, AcceptedIsSigned, PayloadInv
  <2>11. StreamInv'
    <3>1. Parses(manifest)' /\ \E j \in 1..Len(Read') : Read'[j] = SignatureUnit(Manifest)'
      BY <2>1, <2>3, <2>6 DEF Parses, SignatureUnit
    <3>2. pc' = "accept" /\ pc' \notin Stages
      BY <1>3 DEF Stages, ZeroStages
    <3> QED
      BY ONLY <2>1, <2>3, <2>5, <2>6, <3>1, <3>2 DEF StreamInv
  <2>12. inspected' = {} /\ reader' = NoReader
    BY <1>1, <2>a DEF InspectInv, Stages, ZeroStages
  <2>13. InspectInv'
    BY <1>3, <2>12 DEF InspectInv
  <2>14. cursor = size
    <3>1. cursor \in Nat
      BY <2>a DEF Types
    <3> QED
      BY <1>1, <2>3, <3>1
  <2>15. AcceptInv'
    BY <1>3, <2>1, <2>5, <2>6, <2>14 DEF AcceptInv
  <2> QED
    BY <2>7, <2>8, <2>10, <2>11, <2>13, <2>15 DEF VerifyInv
<1> QED
  BY <1>2, <1>3 DEF Verified

-----------------------------------------------------------------------------
(* econtainer_package_slot_validate. *)

(* What verify established stays: nothing it went by is written again. *)
LEMMA AfterKeeps ==
    ASSUME VerifyInv, pc \in AfterStream, pc' \in {"inspect", "payload"},
           UNCHANGED <<world, stream, memory, answer>>, info.package = written,
           digest' \in DigestType, digest'["stream"] = digest["stream"],
           digest'["wasm"] = digest["wasm"],
           digest'["payload"].state = "open" <=> pc' = "payload",
           reader' \in Readers,
           InspectInv', PayloadInv'
    PROVE  VerifyInv'
<1>1. UNCHANGED <<medium, written, left, got, member, cursor, manifest, signature, info>>
  BY DEF world, stream, memory
<1>2. /\ Read' = Read /\ Hash("wasm")' = Hash("wasm") /\ size' = size
      /\ Manifest' = Manifest /\ Content(Manifest.wasm)' = Content(Manifest.wasm)
      /\ Parses(manifest)' = Parses(manifest)
      /\ SignatureUnit(Manifest)' = SignatureUnit(Manifest)
  BY <1>1 DEF Read, Hash, Manifest, Content, size, Parses, SignatureUnit
<1>3. Types'
  BY <1>1, <1>2 DEF VerifyInv, Types, DigestType
<1>4. answer' = "none" /\ pc' # "done" /\ info'.published = FALSE
  BY <1>1, Unpublished DEF VerifyInv, DoneInv, AfterStream
<1>5. DoneInv' /\ AcceptedIsSigned'
  BY <1>4 DEF DoneInv, AcceptedIsSigned
<1>6. DigestInv'
  BY DEF VerifyInv, DigestInv, AfterStream, Stages, ZeroStages
<1>7. StreamInv'
  <2>1. /\ Len(Read) = cursor /\ Parses(manifest) /\ member > 0
        /\ \E j \in 1..Len(Read) : Read[j] = SignatureUnit(Manifest)
        /\ Len(Hash("wasm")) = member /\ info.offset + Len(Hash("wasm")) <= cursor
        /\ \A i \in 1..Len(Hash("wasm")) : Read[info.offset + i] = Hash("wasm")[i]
        /\ Hash("wasm") = Content(Manifest.wasm)
    BY DEF VerifyInv, StreamInv, AfterStream, AfterManifest, AfterSignature, AfterWasm
  <2>2. pc' \notin Stages /\ pc' # "validate" /\ pc' # "wasm" /\ pc' # "end"
        /\ pc' # "signature" /\ pc' # "signature padding"
    BY DEF Stages, ZeroStages
  <2> QED
    BY ONLY <1>1, <1>2, <2>1, <2>2 DEF StreamInv
<1>8. AcceptInv'
  BY <1>1, <1>2 DEF VerifyInv, AcceptInv, AfterStream
<1> QED
  BY <1>3, <1>5, <1>6, <1>7, <1>8 DEF VerifyInv

(* The package is the one of the operation. *)
LEMMA AcceptKeeps == ASSUME VerifyInv, Accept PROVE VerifyInv'
<1>1. pc = "accept" /\ UNCHANGED <<world, stream, digest, reader, inspected>>
  BY DEF Accept
<1>2. CASE Refuse("UNTRUSTED")
  BY <1>1, <1>2, RefuseKeeps DEF VerifyInv, Types, AfterStream
<1>3. CASE Accepted /\ pc' = "inspect" /\ UNCHANGED <<memory, answer>>
  <2>1. info.package = written /\ inspected = {} /\ reader = NoReader
    BY <1>1, <1>3 DEF Accepted, VerifyInv, InspectInv
  <2>2. info.size > 0 /\ info' = info
    BY <1>1, <1>3 DEF memory, VerifyInv, AcceptInv, StreamInv, AfterStream, AfterWasm
  <2>3. /\ reader' \in Readers /\ reader'.at = 0 /\ reader'.mark = 0
        /\ reader'.cache = <<>> /\ Len(<<>>) = 0
    BY <1>1, <2>1, EmptySeq DEF NoReader, VerifyInv, Types
  <2>4. 1..Len(reader'.cache) = {}
    BY ONLY <2>3
  <2>5. InspectInv'
    <3>1. info.size \in Nat
      BY DEF VerifyInv, Types, Infos
    <3>2. Sound(reader)'
      BY <2>2, <2>3, <2>4, <3>1 DEF Sound
    <3> QED
      BY <1>1, <1>3, <2>1, <3>2 DEF InspectInv, Stages, ZeroStages
  <2>6. PayloadInv'
    BY <1>3 DEF PayloadInv
  <2>7. digest \in DigestType /\ digest["payload"].state # "open"
    BY <1>1 DEF VerifyInv, Types, DigestInv, DigestType
  <2> QED
    BY <1>1, <1>3, <2>1, <2>3, <2>5, <2>6, <2>7, AfterKeeps DEF AfterStream, VerifyInv, Types
<1> QED
  BY <1>2, <1>3 DEF Accept

-----------------------------------------------------------------------------
(* econtainer_package_wasm_check. *)

(* The block a position lies in. *)
LEMMA BlockFacts ==
    ASSUME NEW at \in Nat, NEW w \in Nat \ {0}, NEW b, b = (at \div w) * w
    PROVE  /\ b \in Nat /\ b <= at /\ at < b + w
           /\ (b + w) % w = 0
           /\ at % w = 0 => b = at
<1>1. /\ at \div w \in Nat /\ at % w \in Nat /\ at % w < w
      /\ at = ((at \div w) * w) + (at % w) /\ (at \div w) * w \in Nat
  BY Z3
<1>2. b \in Nat /\ at = b + (at % w)
  BY <1>1
<1>3. (b + w) % w = 0
  <2>1. (b + w) = ((at \div w) + 1) * w
    BY <1>1, Z3
  <2>2. \A k \in Nat : (k * w) % w = 0
    BY Z3
  <2> QED
    BY <1>1, <2>1, <2>2
<1> QED
  BY <1>1, <1>2, <1>3

(* The Wasm lies within the slot, where it was written as the manifest     *)
(* says.                                                                   *)
LEMMA WasmPlace ==
    ASSUME VerifyInv, pc \in {"inspect", "payload"}
    PROVE  /\ info.offset \in Nat /\ info.size \in Nat /\ info.size > 0
           /\ size \in Nat /\ info.offset + info.size <= size
           /\ info.wasm = Content(Manifest.wasm) /\ Len(info.wasm) = info.size
           /\ \A i \in 1..(info.size) : written[info.offset + i] = info.wasm[i]
<1>1. info.offset \in Nat /\ info.size \in Nat /\ size \in Nat
  BY LenProperties DEF VerifyInv, Types, Infos, size
<1>2. /\ cursor = size /\ info.package = Read /\ info.package = written
      /\ info.size = member /\ info.wasm = Hash("wasm")
  BY DEF VerifyInv, AcceptInv, AfterStream
<1>3. /\ member > 0 /\ Len(Hash("wasm")) = member /\ info.offset + Len(Hash("wasm")) <= cursor
      /\ \A i \in 1..Len(Hash("wasm")) : Read[info.offset + i] = Hash("wasm")[i]
      /\ Hash("wasm") = Content(Manifest.wasm)
  BY DEF VerifyInv, StreamInv, AfterWasm
<1> QED
  BY ONLY <1>1, <1>2, <1>3

(* What is read of it there. *)
LEMMA FetchFacts ==
    ASSUME VerifyInv, pc \in {"inspect", "payload"}, NEW at \in Nat, at < info.size,
           NEW f, f = FetchedFrom(at)
    PROVE  /\ f.begin \in Nat /\ f.cache \in Seq(Units) /\ Len(f.cache) \in Nat
           /\ f.begin <= at /\ at < f.begin + Len(f.cache)
           /\ f.begin + Len(f.cache) <= info.size
           /\ at % Block = 0 => f.begin = at
           /\ f.begin + Len(f.cache) < info.size => (f.begin + Len(f.cache)) % Block = 0
           /\ \A k \in 1..Len(f.cache) : f.cache[k] = medium[info.offset + (f.begin + k)]
<1> USE PackageAssumption
<1> DEFINE begin  == (at \div Block) * Block
           amount == IF info.size - begin < Block THEN info.size - begin ELSE Block
           piece  == SubSeq(medium, info.offset + begin + 1, info.offset + begin + amount)
<1>1. f.begin = begin /\ f.cache = piece
  BY DEF FetchedFrom
<1>2. Block \in Nat \ {0}
  BY DEF PackageAssumption
<1>3. /\ begin \in Nat /\ begin <= at /\ at < begin + Block
      /\ (begin + Block) % Block = 0
      /\ at % Block = 0 => begin = at
  BY <1>2, BlockFacts
<1> HIDE DEF begin
<1>4. info.offset \in Nat /\ info.size \in Nat /\ size \in Nat /\ info.offset + info.size <= size
  BY WasmPlace
<1>5. /\ amount \in Nat /\ begin + amount <= info.size /\ at < begin + amount
      /\ begin + amount < info.size => amount = Block
  <2> DEFINE s == info.size
  <2>1. s \in Nat /\ at \in Nat /\ at < s
    BY <1>4
  <2>2. amount = IF s - begin < Block THEN s - begin ELSE Block
    OBVIOUS
  <2> HIDE DEF s, amount
  <2>3. CASE s - begin < Block
    <3>1. amount = s - begin
      BY <2>2, <2>3
    <3>2. begin + amount = s /\ amount \in Nat
      BY ONLY <1>3, <2>1, <3>1
    <3> QED
      BY ONLY <1>3, <2>1, <3>2 DEF s
  <2>4. CASE ~(s - begin < Block)
    <3>1. amount = Block
      BY <2>2, <2>4
    <3>2. begin + Block <= s
      BY ONLY <1>2, <1>3, <2>1, <2>4
    <3> QED
      BY <1>2, <1>3, <3>1, <3>2 DEF s
  <2> QED
    BY <2>3, <2>4
<1> HIDE DEF amount
<1>6. info.offset + begin \in Nat /\ (info.offset + begin) + amount <= size
  BY ONLY <1>3, <1>4, <1>5
<1>7. piece \in Seq(Units) /\ Len(piece) = amount
      /\ \A k \in 1..amount : piece[k] = medium[(info.offset + begin) + k]
  BY <1>5, <1>6, PieceFacts DEF VerifyInv
<1> HIDE DEF piece
<1>8. \A k \in 1..amount : (info.offset + begin) + k = info.offset + (begin + k)
  BY <1>3, <1>4, <1>5
<1>9. \A k \in 1..amount : piece[k] = medium[info.offset + (begin + k)]
  BY <1>7, <1>8
<1>10. ASSUME begin + amount < info.size PROVE (begin + amount) % Block = 0
  <2>1. amount = Block
    BY ONLY <1>5, <1>10
  <2> QED
    BY ONLY <1>3, <2>1
<1>11. /\ f.begin = begin /\ f.cache = piece /\ Len(f.cache) = amount
  BY <1>1, <1>7
<1> QED
  BY ONLY <1>3, <1>5, <1>7, <1>9, <1>10, <1>11

(* What is read from flash now is sound, or has decayed. *)
LEMMA FetchSeen ==
    ASSUME VerifyInv, pc \in {"inspect", "payload"}, NEW at \in Nat, at < info.size,
           NEW f, f = FetchedFrom(at), NEW k \in 1..Len(f.cache)
    PROVE  Seen(f.begin + k, f.cache[k])
<1>1. /\ f.begin \in Nat /\ Len(f.cache) \in Nat /\ f.begin + Len(f.cache) <= info.size
      /\ f.cache[k] = medium[info.offset + (f.begin + k)]
  BY FetchFacts
<1>2. info.size \in Nat
  BY WasmPlace
<1>3. f.begin + k \in 1..(info.size)
  BY ONLY <1>1, <1>2, k \in 1..Len(f.cache)
<1> QED
  BY <1>1, <1>3 DEF Seen

(* Another reader with the same cache, still within the module. *)
LEMMA SameCache ==
    ASSUME NEW r, Sound(r), NEW q \in Readers, q.at <= info.size, q.mark <= info.size,
           q.begin = r.begin, q.cache = r.cache
    PROVE  Sound(q)
BY DEF Sound

LEMMA BeginsFacts ==
    ASSUME info.size \in Nat, NEW r, Sound(r), NEW scan \in Scans, NEW index \in Nat,
           NEW q \in Begins(r, scan, index)
    PROVE  Sound(q)
<1>1. r \in Readers
  BY DEF Sound
<1>2. PICK at \in 0..info.size :
        q = [r EXCEPT !.scan = scan, !.index = index, !.at = at, !.mark = at, !.tries = 0,
                      !.looked = FALSE]
  BY DEF Begins
<1>3. at \in Nat /\ at <= info.size
  BY <1>2
<1>4. /\ q \in Readers /\ q.at = at /\ q.mark = at
      /\ q.begin = r.begin /\ q.cache = r.cache
  BY ONLY <1>1, <1>2, <1>3, scan \in Scans, index \in Nat DEF Readers
<1> QED
  BY <1>3, <1>4, SameCache

(* What holds throughout the inspection. *)
LEMMA InspectFacts ==
    ASSUME VerifyInv, pc = "inspect"
    PROVE  /\ Sound(reader) /\ reader \in Readers /\ info.size \in Nat /\ info.package = written
           /\ \A see \in inspected : Seen(see[1], see[2])
           /\ digest \in DigestType /\ digest["payload"].state # "open"
<1>1. info.size \in Nat
  BY WasmPlace
<1> QED
  BY <1>1 DEF VerifyInv, Types, InspectInv, AcceptInv, AfterStream, Sound, DigestInv, DigestType

(* The inspection goes on: with a reader that is sound, and having seen    *)
(* what is there.                                                          *)
LEMMA GoesOnKeeps ==
    ASSUME VerifyInv, pc = "inspect", UNCHANGED <<world, stream, digest>>,
           NEW readers, GoesOn(readers), \A r \in readers : Sound(r),
           \A see \in inspected' : Seen(see[1], see[2])
    PROVE  VerifyInv'
<1>1. /\ Sound(reader') /\ UNCHANGED <<memory, answer>> /\ pc' = "inspect"
      /\ UNCHANGED <<medium, written, info>>
  BY DEF GoesOn, world, memory
<1>2. InspectInv'
  <2>1. \A see \in inspected' : Seen(see[1], see[2])'
    BY <1>1 DEF Seen
  <2>2. \A k \in 1..Len(reader'.cache) : Seen(reader.begin + k, reader.cache[k])'
    BY <1>1 DEF Sound, Seen
  <2>3. Sound(reader)'
    BY <1>1, <2>2 DEF Sound
  <2> QED
    BY <1>1, <2>1, <2>3 DEF InspectInv, Stages, ZeroStages
<1>3. PayloadInv'
  BY <1>1 DEF PayloadInv
<1>4. reader' \in Readers
  BY <1>1 DEF Sound
<1> QED
  BY <1>1, <1>2, <1>3, <1>4, InspectFacts, AfterKeeps DEF AfterStream

(* A scan sets *unsupported. *)
LEMMA UnsupportedKeeps ==
    ASSUME VerifyInv, pc = "inspect", UNCHANGED <<world, stream, digest>>,
           NEW r, Sound(r), Unsupported(r), \A see \in inspected' : Seen(see[1], see[2])
    PROVE  VerifyInv'
<1>1. r \in Readers
  BY DEF Sound
<1>2. CASE Refuse("UNSUPPORTED") /\ reader' = r
  BY <1>1, <1>2, RefuseKeeps DEF AfterStream
<1>3. CASE GoesOn(Begins([r EXCEPT !.unsupported = TRUE], "exports", 0))
  <2> DEFINE q == [r EXCEPT !.unsupported = TRUE]
  <2>1. /\ q \in Readers /\ q.at = r.at /\ q.mark = r.mark
        /\ q.begin = r.begin /\ q.cache = r.cache
    BY <1>1 DEF Readers
  <2>2. GoesOn(Begins(q, "exports", 0))
    BY <1>3
  <2> HIDE DEF q
  <2>3. Sound(q)
    BY <2>1, SameCache DEF Sound
  <2>4. \A p \in Begins(q, "exports", 0) : Sound(p)
    BY <2>3, InspectFacts, BeginsFacts DEF Scans
  <2> QED
    BY <2>2, <2>4, GoesOnKeeps
<1> QED
  BY <1>2, <1>3 DEF Unsupported

(* A scan returns false. *)
LEMMA ScanFailsKeeps ==
    ASSUME VerifyInv, pc = "inspect", UNCHANGED <<world, stream, digest>>,
           NEW r, Sound(r), ScanFails(r), \A see \in inspected' : Seen(see[1], see[2])
    PROVE  VerifyInv'
<1>1. CASE Unsupported(r)
  BY <1>1, UnsupportedKeeps
<1>2. CASE Refuse(IF r.failed THEN "READ_FAILED" ELSE "INVALID") /\ reader' = r
  <2>1. reader' \in Readers
    BY <1>2 DEF Sound
  <2>2. Refuse("READ_FAILED") \/ Refuse("INVALID")
    BY <1>2
  <2> QED
    BY <2>1, <2>2, RefuseKeeps DEF AfterStream
<1> QED
  BY <1>1, <1>2 DEF ScanFails

(* byte_at, and what the scans make of it. *)
LEMMA LookKeeps == ASSUME VerifyInv, Look PROVE VerifyInv'
<1> DEFINE at   == reader.at
           read == IF Cached(at) THEN reader
                   ELSE [reader EXCEPT !.begin = FetchedFrom(at).begin,
                                       !.cache = FetchedFrom(at).cache]
           unit == read.cache[at - read.begin + 1]
<1>1. pc = "inspect" /\ UNCHANGED <<world, stream, digest>>
  BY DEF Look
<1>2. /\ reader \in Readers /\ Sound(reader) /\ at \in Nat /\ info.size \in Nat
      /\ \A see \in inspected : Seen(see[1], see[2])
  BY <1>1, InspectFacts DEF Readers
<1>3. CASE ScanFails(reader) /\ UNCHANGED inspected
  BY <1>1, <1>2, <1>3, ScanFailsKeeps
<1>4. CASE ScanFails([reader EXCEPT !.cache = <<>>, !.failed = TRUE]) /\ UNCHANGED inspected
  <2> DEFINE q == [reader EXCEPT !.cache = <<>>, !.failed = TRUE]
  <2>1. <<>> \in Seq(Units) /\ Len(<<>>) = 0
    BY EmptySeq
  <2>2. /\ q \in Readers /\ q.at = reader.at /\ q.mark = reader.mark /\ q.cache = <<>>
    BY <1>2, <2>1 DEF Readers
  <2>3. ScanFails(q)
    BY <1>4
  <2> HIDE DEF q
  <2>4. Sound(q)
    BY <1>2, <2>1, <2>2 DEF Sound
  <2> QED
    BY <1>1, <1>2, <1>4, <2>3, <2>4, ScanFailsKeeps
<1>5. CASE /\ at < info.size /\ inspected' = inspected \cup {<<at + 1, unit>>}
           /\ \/ ScanFails(read) \/ Unsupported(read)
              \/ GoesOn({[read EXCEPT !.at = @ + 1, !.looked = TRUE]})
  <2>1. /\ Sound(read) /\ read.at = at
        /\ read.begin <= at /\ at < read.begin + Len(read.cache)
    <3>1. CASE Cached(at)
      <4>1. read = reader
        BY <3>1
      <4>2. Len(reader.cache) \in Nat /\ reader.begin \in Nat
        BY <1>2, LenProperties DEF Readers
      <4>3. at >= reader.begin /\ at - reader.begin < Len(reader.cache)
        BY <3>1 DEF Cached
      <4> HIDE DEF at
      <4>4. reader.begin <= at /\ at < reader.begin + Len(reader.cache)
        BY ONLY <1>2, <4>2, <4>3
      <4> QED
        BY <1>2, <4>1, <4>4 DEF at
    <3>2. CASE ~Cached(at)
      <4> DEFINE f == FetchedFrom(at)
      <4>1. /\ f.begin \in Nat /\ f.cache \in Seq(Units)
            /\ f.begin <= at /\ at < f.begin + Len(f.cache)
        BY <1>1, <1>2, <1>5, FetchFacts
      <4>2. \A k \in 1..Len(f.cache) : Seen(f.begin + k, f.cache[k])
        BY <1>1, <1>2, <1>5, FetchSeen
      <4>3. read = [reader EXCEPT !.begin = f.begin, !.cache = f.cache]
        BY <3>2
      <4> HIDE DEF f, read
      <4>4. /\ read \in Readers /\ read.at = reader.at /\ read.mark = reader.mark
            /\ read.begin = f.begin /\ read.cache = f.cache
        BY <1>2, <4>1, <4>3 DEF Readers
      <4> QED
        BY <1>2, <4>1, <4>2, <4>4 DEF Sound
    <3> QED
      BY <3>1, <3>2
  <2> HIDE DEF read
  <2>2. read \in Readers
    BY <2>1 DEF Sound
  <2>3. Seen(at + 1, unit)
    <3> DEFINE k == at - read.begin + 1
    <3>1. Len(read.cache) \in Nat /\ read.begin \in Nat
      BY <2>2, LenProperties DEF Readers
    <3> HIDE DEF at
    <3>2. k \in 1..Len(read.cache) /\ read.begin + k = at + 1
      BY ONLY <1>2, <2>1, <3>1
    <3> QED
      BY <2>1, <3>2 DEF Sound
  <2>4. \A see \in inspected' : Seen(see[1], see[2])
    <3> DEFINE new == <<at + 1, unit>>
    <3>1. new[1] = at + 1 /\ new[2] = unit
      OBVIOUS
    <3>2. inspected' = inspected \cup {new}
      BY <1>5
    <3> HIDE DEF new
    <3> QED
      BY <1>2, <2>3, <3>1, <3>2
  <2>5. CASE ScanFails(read) \/ Unsupported(read)
    BY <1>1, <2>1, <2>4, <2>5, ScanFailsKeeps, UnsupportedKeeps
  <2>6. CASE GoesOn({[read EXCEPT !.at = @ + 1, !.looked = TRUE]})
    <3> DEFINE q == [read EXCEPT !.at = @ + 1, !.looked = TRUE]
    <3>a. q = [read EXCEPT !.at = at + 1, !.looked = TRUE] /\ at + 1 \in Nat
      BY <1>2, <2>1
    <3>1. /\ q \in Readers /\ q.at = at + 1 /\ q.mark = read.mark
          /\ q.begin = read.begin /\ q.cache = read.cache
      BY ONLY <2>2, <3>a DEF Readers
    <3>2. GoesOn({q})
      BY <2>6
    <3> HIDE DEF q, at
    <3>3. q.at <= info.size
      BY <1>2, <1>5, <3>1
    <3>4. Sound(q)
      BY <2>1, <3>1, <3>3, SameCache DEF Sound
    <3> QED
      BY <1>1, <2>4, <3>2, <3>4, GoesOnKeeps
  <2> QED
    BY <1>5, <2>5, <2>6
<1> QED
  BY <1>3, <1>4, <1>5 DEF Look

(* A length does not take a scan beyond the module. *)
LEMMA SkipKeeps == ASSUME VerifyInv, Skip PROVE VerifyInv'
<1> DEFINE readers == {[reader EXCEPT !.at = to, !.looked = FALSE] : to \in SkipsTo(reader.at)}
<1>1. /\ pc = "inspect" /\ GoesOn(readers) /\ UNCHANGED <<world, stream, digest, inspected>>
  BY DEF Skip
<1>2. /\ Sound(reader) /\ reader \in Readers /\ reader.at \in Nat /\ info.size \in Nat
      /\ \A see \in inspected : Seen(see[1], see[2])
  BY <1>1, InspectFacts DEF Readers
<1>3. ASSUME NEW q \in readers PROVE Sound(q)
  <2>1. PICK to \in SkipsTo(reader.at) : q = [reader EXCEPT !.at = to, !.looked = FALSE]
    OBVIOUS
  <2>2. PICK n \in 1..info.size : n <= info.size - reader.at /\ to = reader.at + n
    BY <2>1 DEF SkipsTo
  <2> HIDE DEF readers
  <2>a. to \in Nat /\ to <= info.size
    BY <1>2, <2>2
  <2>3. /\ q \in Readers /\ q.at = to /\ q.mark = reader.mark
        /\ q.begin = reader.begin /\ q.cache = reader.cache
    BY <1>2, <2>1, <2>a DEF Readers
  <2> QED
    BY <1>2, <2>a, <2>3, SameCache DEF Sound
<1> HIDE DEF readers
<1> QED
  BY <1>1, <1>2, <1>3, GoesOnKeeps

LEMMA NextNameKeeps == ASSUME VerifyInv, NextName PROVE VerifyInv'
<1> DEFINE q == [reader EXCEPT !.at = reader.mark, !.tries = @ + 1, !.looked = FALSE]
<1>1. pc = "inspect" /\ GoesOn({q}) /\ UNCHANGED <<world, stream, digest, inspected>>
  BY DEF NextName
<1>2. /\ Sound(reader) /\ reader \in Readers
      /\ \A see \in inspected : Seen(see[1], see[2])
  BY <1>1, InspectFacts
<1>a. /\ reader.mark \in Nat /\ reader.tries + 1 \in Nat
      /\ q = [reader EXCEPT !.at = reader.mark, !.tries = reader.tries + 1, !.looked = FALSE]
  BY <1>2 DEF Readers
<1>3. /\ q \in Readers /\ q.at = reader.mark /\ q.mark = reader.mark
      /\ q.begin = reader.begin /\ q.cache = reader.cache
  BY ONLY <1>2, <1>a DEF Readers
<1> HIDE DEF q
<1>4. Sound(q)
  BY <1>2, <1>3, SameCache DEF Sound
<1> QED
  BY <1>1, <1>2, <1>4, GoesOnKeeps

LEMMA ImportTypeKeeps == ASSUME VerifyInv, ImportType PROVE VerifyInv'
<1> DEFINE begun   == Begins(reader, "import type", reader.index)
           readers == {[r EXCEPT !.mark = reader.at] : r \in begun}
<1>1. pc = "inspect" /\ GoesOn(readers) /\ UNCHANGED <<world, stream, digest, inspected>>
  BY DEF ImportType
<1>2. /\ Sound(reader) /\ reader \in Readers /\ info.size \in Nat
      /\ \A see \in inspected : Seen(see[1], see[2])
  BY <1>1, InspectFacts
<1>3. reader.index \in Nat /\ reader.at \in Nat /\ reader.at <= info.size
  BY <1>2 DEF Readers, Sound
<1>4. \A r \in begun : Sound(r)
  BY <1>2, <1>3, BeginsFacts DEF Scans
<1> HIDE DEF begun
<1>5. ASSUME NEW q \in readers PROVE Sound(q)
  <2>1. PICK r \in begun : q = [r EXCEPT !.mark = reader.at]
    OBVIOUS
  <2>2. Sound(r) /\ r \in Readers
    BY <1>4 DEF Sound
  <2>3. /\ q \in Readers /\ q.at = r.at /\ q.mark = reader.at
        /\ q.begin = r.begin /\ q.cache = r.cache
    BY <1>3, <2>1, <2>2 DEF Readers
  <2> QED
    BY <1>3, <2>2, <2>3, SameCache DEF Sound
<1> HIDE DEF readers
<1> QED
  BY <1>1, <1>2, <1>5, GoesOnKeeps

LEMMA NextItemKeeps == ASSUME VerifyInv, NextItem PROVE VerifyInv'
<1>1. pc = "inspect" /\ UNCHANGED <<world, stream, digest, inspected>>
  BY DEF NextItem
<1>2. /\ Sound(reader) /\ reader \in Readers
      /\ \A see \in inspected : Seen(see[1], see[2])
  BY <1>1, InspectFacts
<1> DEFINE import == [reader EXCEPT !.scan = "imports", !.at = reader.mark,
                                    !.index = @ + 1, !.tries = 0, !.looked = FALSE]
           export == [reader EXCEPT !.mark = reader.at,
                                    !.index = @ + 1, !.tries = 0, !.looked = FALSE]
<1>a. /\ reader.mark \in Nat /\ reader.at \in Nat /\ reader.index + 1 \in Nat
      /\ import = [reader EXCEPT !.scan = "imports", !.at = reader.mark,
                                 !.index = reader.index + 1, !.tries = 0, !.looked = FALSE]
      /\ export = [reader EXCEPT !.mark = reader.at,
                                 !.index = reader.index + 1, !.tries = 0, !.looked = FALSE]
  BY <1>2 DEF Readers
<1>3. /\ import \in Readers /\ import.at = reader.mark /\ import.mark = reader.mark
      /\ import.begin = reader.begin /\ import.cache = reader.cache
  <2>1. "imports" \in Scans
    BY DEF Scans
  <2> QED
    BY ONLY <1>2, <1>a, <2>1 DEF Readers
<1>4. /\ export \in Readers /\ export.at = reader.at /\ export.mark = reader.at
      /\ export.begin = reader.begin /\ export.cache = reader.cache
  BY ONLY <1>2, <1>a DEF Readers
<1>5. GoesOn({import}) \/ GoesOn({export})
  BY DEF NextItem
<1> HIDE DEF import, export
<1>6. Sound(import) /\ Sound(export)
  BY <1>2, <1>3, <1>4, SameCache DEF Sound
<1> QED
  BY <1>1, <1>2, <1>5, <1>6, GoesOnKeeps

(* wasm_check calls the next scan, or returns. *)
LEMMA ScanEndsKeeps == ASSUME VerifyInv, ScanEnds PROVE VerifyInv'
<1>1. pc = "inspect" /\ UNCHANGED <<world, stream, digest, inspected>>
  BY DEF ScanEnds
<1>2. /\ Sound(reader) /\ reader \in Readers /\ info.size \in Nat /\ reader.index \in Nat
      /\ \A see \in inspected : Seen(see[1], see[2])
  BY <1>1, InspectFacts DEF Readers
<1>3. CASE Refuse("UNSUPPORTED") /\ UNCHANGED reader
  BY <1>1, <1>2, <1>3, RefuseKeeps DEF AfterStream
<1>4. CASE \E scan \in Scans, index \in Nat : GoesOn(Begins(reader, scan, index))
  <2>1. PICK scan \in Scans, index \in Nat : GoesOn(Begins(reader, scan, index))
    BY <1>4
  <2>2. \A q \in Begins(reader, scan, index) : Sound(q)
    BY <1>2, BeginsFacts
  <2> QED
    BY <1>1, <1>2, <2>1, <2>2, GoesOnKeeps
<1>5. reader.index + 1 \in Nat
  BY <1>2
<1> QED
  BY <1>2, <1>3, <1>4, <1>5 DEF ScanEnds, Scans

(* verify_payload_digest has been fed nothing. *)
LEMMA InspectedKeeps == ASSUME VerifyInv, Inspected PROVE VerifyInv'
<1> USE PackageAssumption
<1>1. /\ pc = "inspect" /\ reader' = [reader EXCEPT !.at = 0]
      /\ UNCHANGED <<world, stream, inspected>>
  BY DEF Inspected
<1>2. /\ reader \in Readers /\ info.package = written
      /\ \A see \in inspected : Seen(see[1], see[2])
  BY <1>1 DEF VerifyInv, Types, Readers, InspectInv, AcceptInv, AfterStream
<1>3. reader' \in Readers /\ reader'.at = 0
  BY <1>1, <1>2 DEF Readers
<1>4. CASE Refuse("INVALID") /\ digest' = Abort("payload")
  BY <1>1, <1>3, <1>4, RefuseKeeps DEF AfterStream, Readers
<1>5. CASE pc' = "payload" /\ digest' = Start("payload") /\ UNCHANGED <<memory, answer>>
  <2>1. UNCHANGED <<medium, written, info>>
    BY <1>1, <1>5 DEF world, memory
  <2>2. /\ digest' \in DigestType /\ digest'["payload"].state = "open"
        /\ digest'["payload"].fed = <<>>
        /\ digest'["stream"] = digest["stream"] /\ digest'["wasm"] = digest["wasm"]
    BY <1>5, StartFacts DEF VerifyInv, Types, DigestType, Digests
  <2>3. Len(Hash("payload")') = 0
    BY <2>2, EmptySeq DEF Hash
  <2>4. info.size \in Nat /\ info.size > 0
    BY <1>1, WasmPlace
  <2>5. \A see \in inspected' : Seen(see[1], see[2])' /\ ~(see[1] <= 0)
    BY <1>1, <1>2, <2>1, <2>4 DEF Seen
  <2>6. InspectInv'
    BY <1>5, <2>5 DEF InspectInv, Stages, ZeroStages
  <2>7. 0 % Block = 0
    BY DEF PackageAssumption
  <2>8. PayloadInv'
    BY <1>3, <2>1, <2>3, <2>4, <2>5, <2>7 DEF PayloadInv
  <2> QED
    BY <1>1, <1>2, <1>3, <1>5, <2>2, <2>6, <2>8, AfterKeeps DEF AfterStream, Readers
<1> QED
  BY <1>4, <1>5 DEF Inspected

(* The next block is hashed.  Where it is sound now it was sound when the  *)
(* inspection looked at it, for flash does not recover.                    *)
LEMMA PayloadReadKeeps == ASSUME VerifyInv, PayloadRead PROVE VerifyInv'
<1> DEFINE at    == reader.at
           chunk == FetchedFrom(at).cache
<1>1. pc = "payload" /\ at < info.size /\ UNCHANGED <<world, stream, inspected>>
  BY DEF PayloadRead
<1>2. /\ reader \in Readers /\ at \in Nat /\ info.package = written
      /\ \A see \in inspected : Seen(see[1], see[2])
  BY <1>1 DEF VerifyInv, Types, Readers, InspectInv, AcceptInv, AfterStream
<1>3. CASE \E r \in {"READ_FAILED", "INVALID"} :
              Refuse(r) /\ digest' = Abort("payload") /\ UNCHANGED reader
  BY <1>1, <1>2, <1>3, RefuseKeeps DEF AfterStream, Readers
<1>4. CASE /\ digest' = Feed("payload", chunk)
           /\ reader' = [reader EXCEPT !.at = @ + Len(chunk)]
           /\ UNCHANGED <<pc, memory, answer>>
  <2> DEFINE fed == Hash("payload")
             n   == Len(chunk)
  <2>1. /\ at % Block = 0 /\ Len(fed) = at
        /\ \A see \in inspected :
              see[1] <= at /\ fed[see[1]] = written[info.offset + see[1]] =>
                  see[2] = written[info.offset + see[1]]
    BY <1>1 DEF VerifyInv, PayloadInv
  <2>2. /\ chunk \in Seq(Units) /\ n \in Nat /\ at + n <= info.size
        /\ at + n < info.size => (at + n) % Block = 0
        /\ \A k \in 1..n : chunk[k] = medium[info.offset + (at + k)]
    <3>1. FetchedFrom(at).begin = at
      BY <1>1, <1>2, <2>1, FetchFacts
    <3> QED
      BY <1>1, <1>2, <3>1, FetchFacts
  <2> HIDE DEF chunk
  <2>3. /\ digest' \in DigestType /\ digest'["payload"].state = digest["payload"].state
        /\ digest'["payload"].fed = digest["payload"].fed \o chunk
        /\ digest'["stream"] = digest["stream"] /\ digest'["wasm"] = digest["wasm"]
    <3>1. digest \in DigestType /\ digest' = Feed("payload", chunk)
      BY <1>4 DEF VerifyInv, Types, DigestType
    <3> QED
      BY ONLY <2>2, <3>1, FeedFacts DEF Digests
  <2>4. fed \in Seq(Units) /\ fed' = fed \o chunk
    BY <2>3 DEF VerifyInv, Types, Hash, Digests
  <2> HIDE DEF fed
  <2>5. /\ Len(fed') = at + n
        /\ \A i \in 1..(at + n) : fed'[i] = IF i <= at THEN fed[i] ELSE chunk[i - at]
    <3>1. /\ Len(fed \o chunk) = Len(fed) + Len(chunk)
          /\ \A i \in 1..(Len(fed) + Len(chunk)) :
                (fed \o chunk)[i] = IF i <= Len(fed) THEN fed[i] ELSE chunk[i - Len(fed)]
      BY ONLY <2>2, <2>4, ConcatProperties
    <3> QED
      BY ONLY <2>1, <2>4, <3>1
  <2>a. reader' = [reader EXCEPT !.at = at + n] /\ at + n \in Nat
    BY <1>2, <1>4, <2>2
  <2>6. reader' \in Readers /\ reader'.at = at + n
    BY ONLY <1>2, <2>a DEF Readers
  <2>7. UNCHANGED <<medium, written, info>> /\ pc' = "payload"
    BY <1>1, <1>4 DEF world, memory
  <2>8. ASSUME NEW see \in inspected, see[1] <= at + n,
               fed'[see[1]] = written[info.offset + see[1]]
        PROVE  see[2] = written[info.offset + see[1]]
    <3> DEFINE i == see[1]
    <3>1. info.size \in Nat
      BY <1>1, WasmPlace
    <3>2. i \in 1..(info.size)
      BY <1>2 DEF Seen
    <3>3. i \in 1..(at + n)
      BY <1>2, <2>2, <2>8, <3>1, <3>2
    <3>4. CASE i <= at
      BY <2>1, <2>5, <2>8, <3>3, <3>4
    <3>5. CASE ~(i <= at)
      <4> HIDE DEF at, n, i
      <4>1. i - at \in 1..n /\ at + (i - at) = i
        BY ONLY <1>2, <2>2, <3>3, <3>5
      <4>2. fed'[i] = medium[info.offset + i]
        BY <2>2, <2>5, <3>3, <3>5, <4>1
      <4> QED
        BY <1>2, <2>8, <4>2 DEF i, Seen
    <3> QED
      BY <3>4, <3>5
  <2>9. InspectInv'
    <3>1. \A see \in inspected' : Seen(see[1], see[2])'
      BY <1>1, <1>2, <2>7 DEF Seen
    <3> QED
      BY <2>7, <3>1 DEF InspectInv, Stages, ZeroStages
  <2>10. PayloadInv'
    <3>1. Hash("payload")' = fed'
      BY DEF fed
    <3> QED
      BY <1>1, <2>2, <2>5, <2>6, <2>7, <2>8, <3>1 DEF PayloadInv
  <2>11. digest["payload"].state = "open"
    BY <1>1 DEF VerifyInv, DigestInv
  <2> QED
    BY <1>1, <1>2, <1>4, <2>3, <2>6, <2>7, <2>9, <2>10, <2>11, AfterKeeps DEF AfterStream, Readers
<1> QED
  BY <1>3, <1>4 DEF PayloadRead

(* What was written of the Wasm, piece for piece, is what the manifest     *)
(* says.                                                                   *)
LEMMA WasmWritten ==
    ASSUME VerifyInv, pc \in {"inspect", "payload"}
    PROVE  SubSeq(written, info.offset + 1, info.offset + info.size) = Content(Manifest.wasm)
<1> DEFINE o == info.offset
           n == info.size
           piece == SubSeq(written, o + 1, o + n)
<1>1. /\ o \in Nat /\ n \in Nat /\ size \in Nat /\ o + n <= size
      /\ info.wasm = Content(Manifest.wasm) /\ Len(info.wasm) = n
      /\ \A i \in 1..n : written[o + i] = info.wasm[i]
  BY WasmPlace
<1>2. written \in Seq(Units) /\ size = Len(written) /\ info.wasm \in Seq(Units)
  BY DEF VerifyInv, Types, Infos, size
<1> HIDE DEF o, n
<1>3. \A i \in (o + 1)..(o + n) : written[i] \in Units
  <2>1. \A i \in (o + 1)..(o + n) : i \in 1..Len(written)
    BY <1>1, <1>2
  <2> QED
    BY <1>2, <2>1, ElementOfSeq
<1>4. /\ piece \in Seq(Units)
      /\ Len(piece) = IF o + 1 <= o + n THEN (o + n) - (o + 1) + 1 ELSE 0
      /\ \A i \in 1..((o + n) - (o + 1) + 1) : piece[i] = written[(o + 1) + i - 1]
  <2> DEFINE from == o + 1
             to   == o + n
  <2>1. from \in Int /\ to \in Int
    BY ONLY <1>1
  <2>2. \A i \in from..to : written[i] \in Units
    BY ONLY <1>3
  <2> HIDE DEF from, to
  <2>3. /\ SubSeq(written, from, to) \in Seq(Units)
        /\ Len(SubSeq(written, from, to)) = IF from <= to THEN to - from + 1 ELSE 0
        /\ \A i \in 1..(to - from + 1) : SubSeq(written, from, to)[i] = written[from + i - 1]
    BY ONLY <2>1, <2>2, SubSeqProperties
  <2> QED
    BY ONLY <2>3 DEF from, to
<1> HIDE DEF piece
<1>5. Len(piece) = n
  BY ONLY <1>1, <1>4
<1>6. \A i \in 1..n : piece[i] = info.wasm[i]
  <2> TAKE i \in 1..n
  <2>1. i \in 1..((o + n) - (o + 1) + 1) /\ (o + 1) + i - 1 = o + i
    BY ONLY <1>1, i \in 1..n
  <2> QED
    BY <1>1, <1>4, <2>1
<1>7. piece = info.wasm
  BY <1>1, <1>2, <1>4, <1>5, <1>6, SeqEqual
<1> QED
  BY <1>1, <1>7 DEF piece, o, n

(* The digest of the payload is compared with the manifest's: it was fed   *)
(* what was written, and so, wherever it looked, was the inspection.       *)
LEMMA FinishKeeps == ASSUME VerifyInv, Finish PROVE VerifyInv'
<1>1. /\ pc = "payload" /\ reader.at >= info.size /\ digest' = Abort("payload")
      /\ UNCHANGED <<world, stream, reader, inspected>>
  BY DEF Finish
<1>2. CASE Refuse("INVALID")
  BY <1>1, <1>2, RefuseKeeps DEF AfterStream, VerifyInv, Types
<1>3. CASE /\ PayloadMatches /\ info' = [info EXCEPT !.published = TRUE]
           /\ Answer("OK") /\ UNCHANGED <<manifest, signature>>
  <2>a. Types /\ DigestInv /\ StreamInv /\ AcceptInv /\ InspectInv /\ PayloadInv
    BY DEF VerifyInv
  <2>1. /\ pc' = "done" /\ answer' = "OK"
        /\ UNCHANGED <<medium, written, left, got, member, cursor, manifest, signature>>
    BY <1>1, <1>3 DEF Answer, world, stream
  <2>2. /\ info' \in Infos /\ info'.published = TRUE /\ info'.offset = info.offset
        /\ info'.size = info.size
    BY <1>3, <2>a DEF Types, Infos
  <2>3. /\ digest' \in DigestType /\ digest'["payload"].state = "closed"
        /\ digest'["stream"] = digest["stream"] /\ digest'["wasm"] = digest["wasm"]
    BY <1>1, <2>a, AbortFacts DEF Types, DigestType, Digests
  <2>4. Types'
    BY <1>1, <2>a, <2>1, <2>2, <2>3 DEF Types, DigestType, size
  <2>5. DigestInv'
    BY <1>1, <2>a, <2>1, <2>3 DEF DigestInv, Stages, ZeroStages
  <2>6. DoneInv'
    BY <2>1 DEF DoneInv
  <2>7. StreamInv' /\ AcceptInv' /\ InspectInv' /\ PayloadInv'
    BY <2>1 DEF StreamInv, AcceptInv, InspectInv, PayloadInv, AfterManifest, AfterSignature,
       AfterWasm, AfterStream, Stages, ZeroStages
  <2>8. /\ info.offset \in Nat /\ info.size \in Nat
        /\ info.wasm = Content(Manifest.wasm) /\ Len(info.wasm) = info.size
        /\ \A i \in 1..(info.size) : written[info.offset + i] = info.wasm[i]
    BY <1>1, WasmPlace
  <2>9. ASSUME NEW see \in inspected PROVE see[2] = Wasm(Manifest.wasm[see[1]])
    <3>1. see[1] \in 1..(info.size)
      BY <1>1, <2>a DEF InspectInv, Seen
    <3>2. see[1] <= reader.at
      <4>1. reader.at \in Nat
        BY <2>a DEF Types, Readers
      <4> QED
        BY ONLY <1>1, <2>8, <3>1, <4>1
    <3>3. Hash("payload")[see[1]] = written[info.offset + see[1]]
      BY <1>3, <2>8, <3>1 DEF PayloadMatches
    <3>4. see[2] = written[info.offset + see[1]]
      BY <1>1, <2>a, <3>2, <3>3 DEF PayloadInv
    <3>5. see[2] = Content(Manifest.wasm)[see[1]]
      BY <2>8, <3>1, <3>4
    <3>6. see[1] \in DOMAIN Content(Manifest.wasm)
      <4>1. info.wasm \in Seq(Units)
        BY <2>a DEF Types, Infos
      <4>2. DOMAIN info.wasm = 1..Len(info.wasm)
        BY <4>1, LenProperties
      <4> QED
        BY <2>8, <3>1, <4>2
    <3> QED
      BY <3>5, <3>6 DEF Content
  <2>10. Manifest' = Manifest /\ size' = size
    BY <2>1 DEF Manifest, size
  <2>11. cursor = size /\ \E j \in 1..Len(written) : written[j] = SignatureUnit(Manifest)
    BY <1>1, <2>a DEF AcceptInv, StreamInv, AfterStream, AfterSignature
  <2>12. SubSeq(written, info.offset + 1, info.offset + info.size) = Content(Manifest.wasm)
    BY <1>1, WasmWritten
  <2>13. AcceptedIsSigned'
    <3>1. \A see \in inspected' : see[2] = Wasm(Manifest.wasm[see[1]])'
      BY <1>1, <2>9, <2>10 DEF Wasm
    <3>2. Contains(written, SignatureUnit(Manifest))'
      BY <2>1, <2>10, <2>11 DEF Contains, SignatureUnit
    <3>3. (SubSeq(written, info.offset + 1, info.offset + info.size) = Content(Manifest.wasm))'
      BY <2>1, <2>2, <2>10, <2>12 DEF Content
    <3> QED
      BY <2>1, <2>10, <2>11, <3>1, <3>2, <3>3 DEF AcceptedIsSigned
  <2> QED
    BY <2>4, <2>5, <2>6, <2>7, <2>13 DEF VerifyInv
<1> QED
  BY <1>2, <1>3 DEF Finish

-----------------------------------------------------------------------------
(* A unit that decays does not come back: what the inspection saw there is *)
(* excused from now on.                                                    *)
LEMMA DecayKeeps == ASSUME VerifyInv, Decay PROVE VerifyInv'
<1>a. Types /\ InspectInv
  BY DEF VerifyInv
<1>1. /\ pc # "done"
      /\ UNCHANGED <<written, claim, pc, stream, digest, memory, reader, inspected, answer>>
  BY DEF Decay
<1>2. UNCHANGED <<left, got, member, cursor, manifest, signature, info>>
  BY <1>1 DEF stream, memory
<1>3. PICK i \in DOMAIN medium, u \in {Junk} \cup {Wasm(w) : w \in WasmUnits} :
        medium[i] = written[i] /\ u # written[i] /\ medium' = [medium EXCEPT ![i] = u]
  <2>1. PICK i \in DOMAIN medium :
          /\ medium[i] = written[i]
          /\ \E u \in {Junk} \cup {Wasm(w) : w \in IF written[i].kind = "wasm"
                                                   THEN WasmUnits ELSE {}} :
                u # written[i] /\ medium' = [medium EXCEPT ![i] = u]
    BY DEF Decay
  <2>2. PICK u \in {Junk} \cup {Wasm(w) : w \in IF written[i].kind = "wasm"
                                                THEN WasmUnits ELSE {}} :
          u # written[i] /\ medium' = [medium EXCEPT ![i] = u]
    BY <2>1
  <2>3. u \in {Junk} \cup {Wasm(w) : w \in WasmUnits}
    BY <2>2
  <2> QED
    BY <2>1, <2>2, <2>3
<1>4. i \in 1..Len(medium) /\ u \in Units /\ medium \in Seq(Units)
  BY <1>a, <1>3, LenProperties DEF Types, Units
<1>5. /\ medium' \in Seq(Units) /\ Len(medium') = Len(medium)
      /\ \A j \in 1..Len(medium) : medium'[j] = IF j = i THEN u ELSE medium[j]
  BY <1>3, <1>4, ExceptSeq
<1>6. \A j \in 1..Len(medium) : medium[j] # written[j] => medium'[j] # written[j]
  BY <1>3, <1>5
<1>7. /\ size' = size /\ Read' = Read /\ Manifest' = Manifest
      /\ \A d \in Digests : Hash(d)' = Hash(d)
  BY <1>1, <1>2 DEF size, Read, Manifest, Hash
<1>8. Types'
  BY <1>a, <1>1, <1>2, <1>5, <1>7 DEF Types
<1>9. DigestInv' /\ DoneInv'
  BY <1>1, <1>2 DEF VerifyInv, DigestInv, DoneInv
<1>10. AcceptedIsSigned'
  <2>1. answer' # "OK" /\ ~info'.published
    BY <1>1, <1>2, Unpublished DEF VerifyInv, DoneInv
  <2> QED
    BY <2>1 DEF AcceptedIsSigned
<1>11. StreamInv' /\ AcceptInv' /\ PayloadInv'
  <2>1. (StreamInv' <=> StreamInv) /\ (AcceptInv' <=> AcceptInv) /\ (PayloadInv' <=> PayloadInv)
    BY <1>1, <1>2 DEF StreamInv, AcceptInv, PayloadInv, Read, Hash, Manifest, Parses, Content, size
  <2> QED
    BY <2>1 DEF VerifyInv
<1>12. ASSUME pc \in {"inspect", "payload"}, NEW k, NEW v, Seen(k, v)
       PROVE  k \in 1..(info'.size) /\ (v = written'[info'.offset + k]
                 \/ medium'[info'.offset + k] # written'[info'.offset + k])
  <2>1. /\ info.offset \in Nat /\ info.size \in Nat /\ size \in Nat
        /\ info.offset + info.size <= size /\ Len(medium) = size
    BY <1>a, <1>12, WasmPlace DEF Types, size
  <2>2. k \in 1..(info.size)
    BY <1>12 DEF Seen
  <2>3. info.offset + k \in 1..Len(medium)
    BY ONLY <2>1, <2>2
  <2> QED
    BY <1>1, <1>2, <1>6, <1>12, <2>3 DEF Seen
<1>13. InspectInv'
  <2>1. pc' \in {"inspect", "payload"} => \A see \in inspected' : Seen(see[1], see[2])'
    BY <1>a, <1>1, <1>12 DEF InspectInv, Seen
  <2>2. pc' = "inspect" => Sound(reader)'
    <3> SUFFICES ASSUME pc = "inspect" PROVE Sound(reader)'
      BY <1>1
    <3>1. Sound(reader)
      BY <1>a DEF InspectInv
    <3>2. \A k \in 1..Len(reader'.cache) : Seen(reader.begin + k, reader.cache[k])'
      BY <1>1, <1>12, <3>1 DEF Sound, Seen
    <3> QED
      BY <1>1, <1>2, <3>1, <3>2 DEF Sound
  <2>3. pc' \in Stages \cup {"validate", "accept"} => inspected' = {} /\ reader' = NoReader
    BY <1>a, <1>1 DEF InspectInv
  <2> QED
    BY <2>1, <2>2, <2>3 DEF InspectInv
<1> QED
  BY <1>8, <1>9, <1>10, <1>11, <1>13 DEF VerifyInv

LEMMA VerifyStutter == ASSUME VerifyInv, UNCHANGED vars PROVE VerifyInv'
<1>1. UNCHANGED <<medium, written, pc, left, got, member, cursor, digest, manifest, signature,
                  info, reader, inspected, answer>>
  BY DEF vars, world, stream, memory
<1>2. Types' /\ DigestInv' /\ DoneInv'
  BY <1>1 DEF VerifyInv, Types, DigestInv, DoneInv, size
<1>3. StreamInv' <=> StreamInv
  BY <1>1 DEF StreamInv, Read, Hash, Manifest, Parses, Content, size
<1>4. (AcceptInv' <=> AcceptInv) /\ (InspectInv' <=> InspectInv) /\ (PayloadInv' <=> PayloadInv)
  BY <1>1 DEF AcceptInv, InspectInv, PayloadInv, Sound, Seen, Read, Hash, size
<1>5. AcceptedIsSigned' <=> AcceptedIsSigned
  BY <1>1 DEF AcceptedIsSigned, Manifest, Content, size
<1> QED
  BY <1>2, <1>3, <1>4, <1>5 DEF VerifyInv

LEMMA VerifyNext == ASSUME VerifyInv, [Next]_vars PROVE VerifyInv'
<1>1. CASE Step
  <2>1. CASE Validate \/ StreamRead
    BY <2>1, ValidateKeeps, StreamReadKeeps
  <2>2. CASE ManifestHeader \/ ManifestRead \/ ManifestPadded
    BY <2>2, ManifestHeaderKeeps, ManifestReadKeeps, ManifestPaddedKeeps
  <2>3. CASE SignatureHeader \/ SignatureRead \/ SignaturePadded
    BY <2>3, SignatureHeaderKeeps, SignatureReadKeeps, SignaturePaddedKeeps
  <2>4. CASE WasmHeader \/ WasmRead \/ WasmPadded \/ Verified
    BY <2>4, WasmHeaderKeeps, WasmReadKeeps, WasmPaddedKeeps, VerifiedKeeps
  <2>5. CASE Accept \/ Look \/ Skip \/ NextName
    BY <2>5, AcceptKeeps, LookKeeps, SkipKeeps, NextNameKeeps
  <2>6. CASE ImportType \/ NextItem \/ ScanEnds
    BY <2>6, ImportTypeKeeps, NextItemKeeps, ScanEndsKeeps
  <2>7. CASE Inspected \/ PayloadRead \/ Finish
    BY <2>7, InspectedKeeps, PayloadReadKeeps, FinishKeeps
  <2> QED
    BY <1>1, <2>1, <2>2, <2>3, <2>4, <2>5, <2>6, <2>7 DEF Step
<1>2. CASE Decay
  BY <1>2, DecayKeeps
<1>3. CASE Done \/ UNCHANGED vars
  BY <1>3, VerifyStutter DEF Done
<1> QED
  BY <1>1, <1>2, <1>3 DEF Next

-----------------------------------------------------------------------------
(* The invariant of a validation: which digest is open at which stage,     *)
(* what the verifier knows of the bytes it has read, and that flash, once  *)
(* decayed, cannot show the inspection and the digest of the payload the   *)
(* same wrong bytes.                                                       *)
THEOREM VerifyAlways == Spec => []VerifyInv
<1>1. VerifyInv /\ [Next]_vars => VerifyInv'
  BY VerifyNext
<1> QED
  BY <1>1, VerifyInit, PTL DEF Spec

(* A package is accepted only if all that the inspection saw of its Wasm,  *)
(* over however many reads, is what the signed manifest says, and then the *)
(* published info is true of the bytes of the operation                    *)
(* (econtainer_package_slot_validate, econtainer_package_wasm_check).      *)
THEOREM OnlySigned == Spec => []AcceptedIsSigned
<1>1. VerifyInv => AcceptedIsSigned
  BY DEF VerifyInv
<1> QED
  BY <1>1, VerifyAlways, PTL

(* Whichever call fails, validation leaves nothing of a refused package    *)
(* and no digest context open, and aborts none that was never initialised  *)
(* (the label done of econtainer_package_verify, and the end of            *)
(* econtainer_package_slot_validate).                                      *)
THEOREM NothingLeft == Spec => []NothingLeftBehind
<1>1. VerifyInv => NothingLeftBehind
  <2> SUFFICES ASSUME VerifyInv PROVE NothingLeftBehind
    OBVIOUS
  <2>1. \A d \in Digests : digest[d].state # "corrupt"
    BY DEF VerifyInv, Types
  <2>2. pc = "done" => \A d \in Digests : digest[d].state # "open"
    BY DEF VerifyInv, DigestInv, Digests, Stages, ZeroStages
  <2>3. pc = "done" /\ answer # "OK" => ~info.present /\ manifest = <<>> /\ signature = <<>>
    BY DEF VerifyInv, DoneInv, NoInfo
  <2> QED
    BY <2>1, <2>2, <2>3 DEF NothingLeftBehind
<1> QED
  BY <1>1, VerifyAlways, PTL
=============================================================================
