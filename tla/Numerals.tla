------------------------------ MODULE Numerals ------------------------------
(***************************************************************************)
(* The integers of a package: the variable length integers of Wasm, which  *)
(* read_u32 (wasm_scan.c) and next_u32 (package_wasm.c) decode, and the    *)
(* decimal integers of the manifest, which json_uint32 (package_stream.c)  *)
(* decodes.  Each decoder is a loop that reads one octet an iteration, an  *)
(* iteration is a step, and the three read the same input one after        *)
(* another.                                                                *)
(*                                                                         *)
(* The widths are parameters.  In the code an octet of a Wasm integer      *)
(* carries PayloadBits = 7 bits of a word of WordBits = 32, below the bit  *)
(* that says whether more follow, and a manifest integer has Base = 10.    *)
(***************************************************************************)
EXTENDS Integers, Sequences, FiniteSetsExt

CONSTANTS
    PayloadBits,
    WordBits,
    Base,        \* octets below it are digits
    MaxLength    \* bound on the length of the input

ASSUME WidthsAssumption ==
    /\ PayloadBits \in Nat \ {0} /\ WordBits \in Nat \ {0} /\ PayloadBits < WordBits
    /\ Base \in 2..2^PayloadBits /\ MaxLength \in Nat

(* What a power is, up to the exponents the proofs use.  This holds of all *)
(* widths; the provers do not know it.                                     *)
ASSUME PowersAssumption ==
    \A x \in {2, Base} :
        /\ x^0 = 1
        /\ \A n \in 0..(2 * WordBits + MaxLength) : x^(n + 1) = x * x^n

VARIABLES
    input,
    allow_zero,   \* parameter of json_uint32
    read, next, json

numerals == <<input, allow_zero, read, next, json>>

Octets    == 0..(2^(PayloadBits + 1) - 1)
Word      == 2^WordBits
LastIndex == (WordBits - 1) \div PayloadBits    \* 4 in the code

Payload(octet) == octet % 2^PayloadBits
More(octet)    == octet >= 2^PayloadBits

(* octet & 0xf0: bits of the last octet that do not fit in the word *)
Spills(octet) == octet >= 2^(WordBits - (PayloadBits * LastIndex))

Shifted(octet, shift) == (Payload(octet) * 2^shift) % Word

Idle == [state |-> "idle", cursor |-> 0, step |-> 0, result |-> 0]

NumeralsInit ==
    /\ \E n \in 0..MaxLength : input \in [1..n -> Octets]
    /\ allow_zero \in BOOLEAN
    /\ read = [Idle EXCEPT !.state = "loop"]
    /\ next = Idle
    /\ json = Idle

Fails(d)    == [d EXCEPT !.state = "fails"]
Finishes(d) == d.state \in {"fails", "value"}

-----------------------------------------------------------------------------
(* Mutant: the loop stops one octet early. *)
MutantReadIteration(d) ==
    LET octet == input[d.cursor + 1]
    IN  IF d.step >= PayloadBits * LastIndex \/ d.cursor >= Len(input) THEN Fails(d)
        ELSE [d EXCEPT !.cursor = @ + 1,
                       !.result = @ + Shifted(octet, d.step),
                       !.state = IF More(octet) THEN "loop" ELSE "value",
                       !.step = IF More(octet) THEN @ + PayloadBits ELSE @]

(* One iteration of read_u32; step is its shift. *)
ReadIteration(d) ==
    LET octet == input[d.cursor + 1]
        after == [d EXCEPT !.cursor = @ + 1]
    IN  IF d.step >= PayloadBits * (LastIndex + 1) \/ d.cursor >= Len(input) THEN Fails(d)
        ELSE IF d.step = PayloadBits * LastIndex /\ Spills(octet) THEN Fails(after)
        ELSE [after EXCEPT !.result = @ + Shifted(octet, d.step),
                           !.state = IF More(octet) THEN "loop" ELSE "value",
                           !.step = IF More(octet) THEN @ + PayloadBits ELSE @]

(* Mutant: bits beyond the word are shifted out instead of refused. *)
MutantNextIteration(d) ==
    LET octet == input[d.cursor + 1]
    IN  IF d.step > LastIndex \/ d.cursor >= Len(input) THEN Fails(d)
        ELSE [d EXCEPT !.cursor = @ + 1,
                       !.result = @ + Shifted(octet, PayloadBits * d.step),
                       !.state = IF More(octet) THEN "loop" ELSE "value",
                       !.step = IF More(octet) THEN @ + 1 ELSE @]

(* One iteration of next_u32; step is its index. *)
NextIteration(d) ==
    LET octet == input[d.cursor + 1]
        after == [d EXCEPT !.cursor = @ + 1]
    IN  IF d.step > LastIndex \/ d.cursor >= Len(input) THEN Fails(d)
        ELSE IF d.step = LastIndex /\ Spills(octet) THEN Fails(after)
        ELSE [after EXCEPT !.result = @ + Shifted(octet, PayloadBits * d.step),
                           !.state = IF More(octet) THEN "loop" ELSE "value",
                           !.step = IF More(octet) THEN @ + 1 ELSE @]

(* Decimal digits of UINT32_MAX *)
MaxDigits == CHOOSE n \in 1..WordBits : Base^n >= Word /\ Base^(n - 1) < Word

(* Mutant: a zero may stand in front of other digits. *)
MutantJsonIteration(d) ==
    LET digit == input[d.cursor + 1]
    IN  IF d.cursor < Len(input) /\ digit < Base
        THEN IF d.step + 1 > MaxDigits \/ (d.result * Base) + digit >= Word THEN Fails(d)
             ELSE [d EXCEPT !.cursor = @ + 1, !.step = @ + 1, !.result = (@ * Base) + digit]
        ELSE IF d.step = 0 \/ (~allow_zero /\ d.result = 0) THEN Fails(d)
        ELSE [d EXCEPT !.state = "value"]

(* One iteration of json_uint32, or its end; step is its digits. *)
JsonIteration(d) ==
    LET digit == input[d.cursor + 1]
    IN  IF d.cursor < Len(input) /\ digit < Base
        THEN IF d.step + 1 > MaxDigits \/ (d.result * Base) + digit >= Word THEN Fails(d)
             ELSE [d EXCEPT !.cursor = @ + 1, !.step = @ + 1, !.result = (@ * Base) + digit]
        ELSE IF \/ d.step = 0
                \/ input[1] = 0 /\ d.step # 1
                \/ ~allow_zero /\ d.result = 0 THEN Fails(d)
        ELSE [d EXCEPT !.state = "value"]

Start(d, started) == IF started THEN [d EXCEPT !.state = "loop"] ELSE d

ReadStep ==
    /\ read.state = "loop"
    /\ read' = ReadIteration(read)
    /\ next' = Start(next, Finishes(read'))
    /\ UNCHANGED <<input, allow_zero, json>>

NextStep ==
    /\ next.state = "loop"
    /\ next' = NextIteration(next)
    /\ json' = Start(json, Finishes(next'))
    /\ UNCHANGED <<input, allow_zero, read>>

JsonStep ==
    /\ json.state = "loop"
    /\ json' = JsonIteration(json)
    /\ UNCHANGED <<input, allow_zero, read, next>>

NumeralsDone == Finishes(json) /\ UNCHANGED numerals

NumeralsNext == ReadStep \/ NextStep \/ JsonStep \/ NumeralsDone

NumeralsSpec == NumeralsInit /\ [][NumeralsNext]_numerals

-----------------------------------------------------------------------------
(* What the encodings mean, without a word to overflow.  A number is what  *)
(* a numeral says if its digits, which division finds one by one, are      *)
(* those of the numeral.                                                   *)

(* Number of octets of the Wasm integer the input starts with, 0 if none *)
WasmLength ==
    LET ends == {n \in 1..Len(input) : ~More(input[n])}
    IN  IF ends = {} THEN 0 ELSE Min(ends)

(* The first octet holds the least significant digit. *)
WasmSays(v, length) ==
    /\ v < 2^(PayloadBits * length)
    /\ \A n \in 1..length :
          (v \div 2^(PayloadBits * (n - 1))) % 2^PayloadBits = Payload(input[n])

(* A decoder of Wasm integers accepts exactly those of at most             *)
(* LastIndex + 1 octets whose value fits in the word, and yields that      *)
(* value and the place after them.                                         *)
WasmExact(d) ==
    Finishes(d) =>
        IF WasmLength \in 1..(LastIndex + 1) /\ \E v \in 0..(Word - 1) : WasmSays(v, WasmLength)
        THEN /\ d.state = "value" /\ d.cursor = WasmLength
             /\ d.result \in 0..(Word - 1) /\ WasmSays(d.result, WasmLength)
        ELSE d.state = "fails"

(* Number of digits the input starts with *)
JsonLength ==
    LET others == {n \in 1..Len(input) : input[n] >= Base}
    IN  IF others = {} THEN Len(input) ELSE Min(others) - 1

(* The first octet is the most significant digit. *)
JsonSays(v, length) ==
    /\ v < Base^length
    /\ \A n \in 1..length : (v \div Base^(length - n)) % Base = input[n]

(* An integer of the manifest is accepted exactly when its digits are the  *)
(* one canonical way to write a number that fits in the word.              *)
JsonExact(d) ==
    Finishes(d) =>
        IF /\ JsonLength > 0
           /\ input[1] = 0 => JsonLength = 1
           /\ \E v \in 0..(Word - 1) : JsonSays(v, JsonLength) /\ (v = 0 => allow_zero)
        THEN /\ d.state = "value" /\ d.cursor = JsonLength
             /\ d.result \in 0..(Word - 1) /\ JsonSays(d.result, JsonLength)
        ELSE d.state = "fails"

(* Every integer of a package is read as what it says, or refused: the     *)
(* parser of installation and the scanner of opening give each Wasm        *)
(* integer its exact value and go on at the same place, so that they see   *)
(* one module in the same bytes, and json_uint32 takes canonical integers  *)
(* within the word only.                                                   *)
IntegersExact == WasmExact(read) /\ WasmExact(next) /\ JsonExact(json)
=============================================================================
