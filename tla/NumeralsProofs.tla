--------------------------- MODULE NumeralsProofs ---------------------------
(***************************************************************************)
(* The integers of a package are read exactly, for all widths of octets    *)
(* and words, all bases and all inputs.                                    *)
(*                                                                         *)
(* No induction on the octets is needed: a decoder does it.  After each    *)
(* iteration its result has the digits read so far (WasmInv, JsonInv), the *)
(* lemmas WasmDigit and JsonDigit are the step of that induction, and what *)
(* an iteration refuses is no number of the word: WasmTooLarge, and for    *)
(* json_uint32 JsonPrefix, since a number is at least its leading digits.  *)
(***************************************************************************)
EXTENDS Numerals, WellFoundedInduction, TLAPS

(* A nonempty set of naturals has a least element. *)
LEMMA LeastOf ==
    ASSUME NEW S \in SUBSET Nat, S # {}
    PROVE  \E i \in S : \A j \in S : i <= j
<1> DEFINE Less == {p \in Nat \X Nat : p[1] < p[2]}
<1>1. IsWellFoundedOn(Less, Nat)
  BY NatLessThanWellFounded DEF OpToRel
<1>2. PICK i \in S : \A j \in S : <<j, i>> \notin Less
  <2> HIDE DEF Less
  <2> QED BY <1>1, WFMin
<1>3. ASSUME NEW j \in S PROVE i <= j
  <2>1. i \in Nat /\ j \in Nat
    OBVIOUS
  <2>2. j < i => <<j, i>> \in Less
    BY <2>1
  <2>3. ~(j < i)
    BY <2>2, <1>2
  <2> QED BY <2>1, <2>3
<1> QED BY <1>3

(* Division by a unit, which Z3 finds when it is alone. *)
LEMMA Quotient ==
    ASSUME NEW w \in Nat \ {0}, NEW q \in Nat, NEW r \in Nat, r < w
    PROVE  ((w * q) + r) \div w = q /\ ((w * q) + r) % w = r
BY Z3

(* Quotient and remainder. *)
LEMMA Division ==
    ASSUME NEW a \in Nat, NEW w \in Nat \ {0}
    PROVE  /\ a \div w \in Nat /\ a % w \in Nat
           /\ a = (w * (a \div w)) + (a % w)
           /\ a % w < w
           /\ a < w => a % w = a
BY Z3

(* What the provers need of products, one law at a time. *)
LEMMA Products ==
    ASSUME NEW a \in Nat, NEW b \in Nat, NEW c \in Nat
    PROVE  /\ a * b \in Nat /\ a * b = b * a
           /\ a * (b + c) = (a * b) + (a * c)
           /\ (a * b) * c = a * (b * c)
           /\ b <= c => a * b <= a * c
           /\ 1 <= b => a <= a * b
BY Z3

(* Multiples of the unit pass through division by it. *)
LEMMA MultiplesPass ==
    ASSUME NEW a \in Nat, NEW m \in Nat, NEW w \in Nat \ {0}
    PROVE  /\ (a + (w * m)) \div w = (a \div w) + m
           /\ (a + (w * m)) % w = a % w
<1> DEFINE q == a \div w
           r == a % w
<1>1. q \in Nat /\ r \in Nat /\ a = (w * q) + r /\ r < w
  BY Division
<1> HIDE DEF q, r
<1>2. w * (q + m) = (w * q) + (w * m) /\ w * q \in Nat /\ w * m \in Nat
  BY <1>1, Products
<1>3. a + (w * m) = (w * (q + m)) + r
  BY <1>1, <1>2
<1>4. ((w * (q + m)) + r) \div w = q + m /\ ((w * (q + m)) + r) % w = r
  BY <1>1, Quotient
<1> QED BY <1>3, <1>4 DEF q, r

(* Two divisions are one by the product, and their remainders one. *)
LEMMA TwoDivisions ==
    ASSUME NEW a \in Nat, NEW u \in Nat \ {0}, NEW w \in Nat \ {0}
    PROVE  /\ (a \div u) \div w = a \div (u * w)
           /\ a % (u * w) = (u * ((a \div u) % w)) + (a % u)
<1> DEFINE q == a \div u
           r == a % u
           s == q \div w
           t == q % w
<1>1. q \in Nat /\ r \in Nat /\ a = (u * q) + r /\ r < u
  BY Division
<1>2. s \in Nat /\ t \in Nat /\ q = (w * s) + t /\ t < w
  <2> HIDE DEF q
  <2> QED BY <1>1, Division
<1> HIDE DEF q, r, s, t
<1>3. u * w \in Nat \ {0}
  <2>1. 1 <= w => u <= u * w
    BY Products
  <2> QED BY <2>1, Products
<1>4. u * q = ((u * w) * s) + (u * t) /\ u * t \in Nat /\ w * s \in Nat /\ (u * w) * s \in Nat
  <2>1. w * s \in Nat /\ u * t \in Nat
    BY <1>2, Products
  <2>2. u * ((w * s) + t) = (u * (w * s)) + (u * t)
    BY <1>2, <2>1, Products
  <2>3. (u * w) * s = u * (w * s) /\ u * (w * s) \in Nat
    BY <1>2, <2>1, Products
  <2> QED BY <1>2, <2>1, <2>2, <2>3
<1>5. (u * t) + r \in Nat /\ (u * t) + r < u * w
  <2>1. u * (t + 1) = (u * t) + (u * 1)
    BY <1>2, Products
  <2>2. u * (t + 1) <= u * w
    BY <1>2, Products
  <2>3. u * w \in Nat /\ u * 1 = u
    BY <1>3
  <2> QED BY <1>1, <1>4, <2>1, <2>2, <2>3
<1>6. a = ((u * w) * s) + ((u * t) + r)
  BY <1>1, <1>4
<1>7. /\ (((u * w) * s) + ((u * t) + r)) \div (u * w) = s
      /\ (((u * w) * s) + ((u * t) + r)) % (u * w) = (u * t) + r
  BY <1>2, <1>3, <1>5, Quotient
<1> QED BY <1>6, <1>7 DEF s, t, r, q

(* A quotient is at least q exactly when the number is at least q units. *)
LEMMA QuotientBounds ==
    ASSUME NEW a \in Nat, NEW w \in Nat \ {0}, NEW q \in Nat
    PROVE  /\ a < w * q <=> a \div w < q
           /\ a \div w <= a
<1> DEFINE d == a \div w
           r == a % w
<1>1. d \in Nat /\ r \in Nat /\ a = (w * d) + r /\ r < w
  BY Division
<1> HIDE DEF d, r
<1>2. w * d \in Nat /\ w * q \in Nat /\ w * (d + 1) = (w * d) + (w * 1) /\ w * 1 = w
  BY <1>1, Products
<1>3. q <= d => w * q <= w * d
  BY <1>1, Products
<1>4. d + 1 <= q => w * (d + 1) <= w * q
  BY <1>1, Products
<1>5. d <= w * d
  BY <1>1, Products
<1> QED BY <1>1, <1>2, <1>3, <1>4, <1>5 DEF d

-----------------------------------------------------------------------------
(* Powers.  Induction on the exponent is the least exponent that fails. *)

Exponents == 0..(2 * WordBits + MaxLength + 1)

(* The types of the constants. *)
LEMMA BoundFact == /\ 2 * WordBits \in Nat /\ 2 * WordBits + MaxLength + 1 \in Nat
                   /\ WordBits \in Nat /\ MaxLength \in Nat
                   /\ Base \in Nat /\ Base >= 2
BY WidthsAssumption

(* The two equations of powers, for exponents of the proofs. *)
LEMMA PowerZero == ASSUME NEW x \in {2, Base} PROVE x^0 = 1
BY PowersAssumption

LEMMA PowerNext ==
    ASSUME NEW x \in {2, Base}, NEW n \in Exponents, n + 1 \in Exponents
    PROVE  x^(n + 1) = x * x^n
<1>1. n \in 0..(2 * WordBits + MaxLength)
  BY BoundFact DEF Exponents
<1> QED BY <1>1, PowersAssumption

(* Powers are positive. *)
LEMMA PowerPositive ==
    ASSUME NEW x \in {2, Base}, NEW n \in Exponents
    PROVE  x^n \in Nat \ {0}
<1> DEFINE S == {i \in Exponents : x^i \notin Nat \ {0}}
<1> SUFFICES ASSUME S # {} PROVE FALSE
  OBVIOUS
<1>1. S \in SUBSET Nat
  BY BoundFact DEF Exponents
<1>2. PICK i \in S : \A j \in S : i <= j
  <2> HIDE DEF S
  <2> QED BY <1>1, LeastOf
<1>3. i # 0
  <2>1. x^0 = 1
    BY PowerZero, Zenon
  <2>2. x^0 \in Nat \ {0}
    BY <2>1
  <2> QED BY <2>2, <1>2
<1>4. i - 1 \in Exponents /\ i \in Exponents /\ i = (i - 1) + 1 /\ ~(i <= i - 1)
  BY <1>3, BoundFact DEF Exponents
<1>5. x^(i - 1) \in Nat \ {0}
  BY <1>2, <1>4
<1>6. x^i = x * x^(i - 1)
  BY <1>4, PowerNext
<1>7. x \in Nat \ {0}
  BY BoundFact
<1>8. ASSUME NEW y \in Nat \ {0} PROVE x * y \in Nat \ {0}
  <2>1. x * y \in Nat /\ (1 <= y => x <= x * y)
    BY <1>7, Products
  <2> QED BY <1>7, <2>1
<1> QED BY <1>5, <1>6, <1>8

(* Powers of sums are products. *)
LEMMA PowerSum ==
    ASSUME NEW x \in {2, Base}, NEW i \in Nat, NEW j \in Nat, i + j \in Exponents
    PROVE  x^(i + j) = x^i * x^j
<1> DEFINE S == {k \in 0..j : x^(i + k) # x^i * x^k}
<1> SUFFICES ASSUME S # {} PROVE FALSE
  <2>1. j \in 0..j
    OBVIOUS
  <2> QED BY <2>1
<1>1. S \in SUBSET Nat
  OBVIOUS
<1>2. PICK k \in S : \A l \in S : k <= l
  <2> HIDE DEF S
  <2> QED BY <1>1, LeastOf
<1>e. /\ i \in Exponents
      /\ \A l \in 0..j : l \in Exponents /\ i + l \in Exponents
  BY BoundFact DEF Exponents
<1>3. k # 0
  <2>1. x^i \in Nat
    BY <1>e, PowerPositive
  <2>2. x^i * 1 = x^i
    BY <2>1
  <2>3. x^0 = 1
    BY PowerZero, Zenon
  <2>4. x^(i + 0) = x^i * x^0
    BY <2>2, <2>3
  <2> QED BY <2>4
<1> DEFINE l == k - 1
<1>4. l \in 0..j /\ k \in 0..j /\ k = l + 1 /\ ~(k <= l) /\ i + k = (i + l) + 1
  BY <1>3
<1>5. x^(i + l) = x^i * x^l
  BY <1>2, <1>4
<1> HIDE DEF l
<1>6. x^(i + k) = x * x^(i + l)
  BY <1>4, <1>e, PowerNext
<1>7. x^k = x * x^l
  BY <1>4, <1>e, PowerNext
<1>8. x \in Nat /\ x^i \in Nat /\ x^l \in Nat
  BY <1>4, <1>e, PowerPositive, BoundFact
<1>9. ASSUME NEW a \in Nat, NEW b \in Nat, NEW c \in Nat PROVE a * (b * c) = b * (a * c)
  <2>1. a * (b * c) = (a * b) * c /\ a * b = b * a /\ (b * a) * c = b * (a * c)
    BY Products
  <2> QED BY <2>1
<1>10. x * (x^i * x^l) = x^i * (x * x^l)
  BY <1>8, <1>9
<1>11. k \in S
  BY <1>2
<1> QED BY <1>5, <1>6, <1>7, <1>10, <1>11

(* Powers grow with the exponent. *)
LEMMA PowerGrows ==
    ASSUME NEW x \in {2, Base}, NEW i \in Exponents, NEW j \in Exponents, i <= j
    PROVE  x^i <= x^j
<1> DEFINE d == j - i
<1>1. d \in Nat /\ i \in Nat /\ i + d = j /\ d \in Exponents
  BY BoundFact DEF Exponents
<1> HIDE DEF d
<1>2. x^(i + d) = x^i * x^d
  BY <1>1, PowerSum
<1>3. x^i \in Nat /\ x^d \in Nat \ {0}
  BY <1>1, PowerPositive
<1>4. ASSUME NEW a \in Nat, NEW b \in Nat \ {0} PROVE a <= a * b
  BY Products
<1>5. x^i <= x^i * x^d
  BY <1>3, <1>4
<1> QED BY <1>1, <1>2, <1>5

(* The base is at least two, so its powers are at least those of two. *)
LEMMA BaseOutgrows ==
    ASSUME NEW n \in Exponents
    PROVE  2^n <= Base^n
<1> DEFINE S == {i \in Exponents : ~(2^i <= Base^i)}
<1> SUFFICES ASSUME S # {} PROVE FALSE
  OBVIOUS
<1>1. S \in SUBSET Nat
  BY BoundFact DEF Exponents
<1>2. PICK i \in S : \A j \in S : i <= j
  <2> HIDE DEF S
  <2> QED BY <1>1, LeastOf
<1>3. i # 0
  <2>1. 2^0 = 1 /\ Base^0 = 1
    BY PowerZero
  <2>2. 2^0 <= Base^0
    BY <2>1
  <2> QED BY <2>2, <1>2
<1> DEFINE l == i - 1
<1>4. l \in Exponents /\ i \in Exponents /\ i = l + 1 /\ ~(i <= l)
  BY <1>3, BoundFact DEF Exponents
<1>5. 2^l <= Base^l
  BY <1>2, <1>4
<1>n. i \in S
  BY <1>2
<1> HIDE DEF l
<1>6. 2^i = 2 * 2^l /\ Base^i = Base * Base^l
  BY <1>4, PowerNext
<1>7. 2^l \in Nat /\ Base^l \in Nat
  BY <1>4, PowerPositive
<1>8. ASSUME NEW a \in Nat, NEW b \in Nat, NEW c \in Nat, a <= b, 2 <= c
      PROVE  2 * a <= c * b
  <2>1. b * 2 <= b * c /\ b * c = c * b /\ b * c \in Nat
    BY <1>8, Products
  <2> QED BY <1>8, <2>1
<1>9. 2 * 2^l <= Base * Base^l
  BY <1>5, <1>7, <1>8, BoundFact
<1> QED BY <1>6, <1>9, <1>n

-----------------------------------------------------------------------------
(* The invariant.                                                          *)

Decoders ==
    [state : {"idle", "loop", "fails", "value"}, cursor : Nat, step : Nat, result : Nat]

InputOK ==
    /\ Len(input) \in 0..MaxLength
    /\ input \in [1..Len(input) -> Octets]
    /\ allow_zero \in BOOLEAN

(* A decoder of Wasm integers, unit being what an octet adds to its step,  *)
(* has read as many octets as cursor says, each announcing another, and    *)
(* its result is the number they say so far.                               *)
WasmInv(d, unit) ==
    /\ d \in Decoders
    /\ d.state = "idle" => d = Idle
    /\ d.state = "loop" =>
          /\ d.cursor <= Len(input) /\ d.cursor <= LastIndex
          /\ d.step = unit * d.cursor
          /\ \A n \in 1..d.cursor : More(input[n])
          /\ WasmSays(d.result, d.cursor)
    /\ WasmExact(d)

(* json_uint32 has read as many digits as cursor says, its result is the   *)
(* number they say, and the number the whole says starts with them.        *)
JsonInv(d) ==
    /\ d \in Decoders
    /\ d.state = "idle" => d = Idle
    /\ d.state = "loop" =>
          /\ d.cursor <= Len(input) /\ d.cursor <= MaxDigits
          /\ d.step = d.cursor
          /\ \A n \in 1..d.cursor : input[n] < Base
          /\ d.result < Word
          /\ JsonSays(d.result, d.cursor)
          /\ \A v \in 0..(Word - 1) :
                JsonSays(v, JsonLength) =>
                    v \div Base^(JsonLength - d.cursor) = d.result
          /\ d.cursor > 0 /\ input[1] # 0 => d.result >= Base^(d.cursor - 1)
    /\ JsonExact(d)

(* A decoder starts when the one before it is done. *)
InTurn ==
    /\ read.state = "loop" => next.state = "idle"
    /\ next.state \in {"idle", "loop"} => json.state = "idle"

NumeralsInv ==
    InputOK /\ WasmInv(read, PayloadBits) /\ WasmInv(next, 1) /\ JsonInv(json) /\ InTurn

-----------------------------------------------------------------------------
(* Widths and places. *)

(* The last octet has room for at least one bit and at most a payload. *)
LEMMA LastOctet ==
    /\ LastIndex \in Nat /\ PayloadBits * LastIndex \in Nat
    /\ WordBits - (PayloadBits * LastIndex) \in 1..PayloadBits
<1>1. PayloadBits \in Nat \ {0} /\ WordBits \in Nat \ {0} /\ WordBits - 1 \in Nat
  BY WidthsAssumption
<1> DEFINE q == (WordBits - 1) \div PayloadBits
           r == (WordBits - 1) % PayloadBits
<1>2. q \in Nat /\ r \in Nat /\ WordBits - 1 = (PayloadBits * q) + r /\ r < PayloadBits
  BY <1>1, Division
<1>3. PayloadBits * q \in Nat
  <2> HIDE DEF q, r
  <2> QED BY <1>1, <1>2, Products
<1>4. LastIndex = q
  BY DEF LastIndex
<1> HIDE DEF q, r
<1>5. WordBits - (PayloadBits * q) = r + 1
  BY <1>1, <1>2, <1>3
<1> QED BY <1>1, <1>2, <1>3, <1>4, <1>5

(* Places of digits are powers of the radix. *)
LEMMA Places ==
    ASSUME NEW k \in 0..LastIndex
    PROVE  /\ PayloadBits * k \in Exponents /\ PayloadBits * k \in Nat
           /\ PayloadBits * (k + 1) \in Exponents
           /\ PayloadBits * (k + 1) = (PayloadBits * k) + PayloadBits
           /\ 2^(PayloadBits * k) \in Nat \ {0}
           /\ 2^PayloadBits \in Nat \ {0} /\ PayloadBits \in Exponents
           /\ 2^(PayloadBits * (k + 1)) = 2^(PayloadBits * k) * 2^PayloadBits
<1>1. /\ PayloadBits \in Nat \ {0} /\ WordBits \in Nat
      /\ PayloadBits < WordBits /\ MaxLength \in Nat
  BY WidthsAssumption
<1>2. k \in Nat /\ k <= LastIndex /\ LastIndex \in Nat
  BY LastOctet
<1>3. PayloadBits * k \in Nat /\ PayloadBits * k <= PayloadBits * LastIndex
  BY <1>1, <1>2, Products
<1>4. PayloadBits * (k + 1) = (PayloadBits * k) + PayloadBits
  BY <1>1, <1>2
<1>5. PayloadBits * LastIndex < WordBits /\ PayloadBits * LastIndex \in Nat
  BY <1>1, LastOctet
<1>6. /\ PayloadBits * k \in Exponents /\ PayloadBits \in Exponents
      /\ (PayloadBits * k) + PayloadBits \in Exponents
  BY <1>1, <1>3, <1>5 DEF Exponents
<1>7. 2^((PayloadBits * k) + PayloadBits) = 2^(PayloadBits * k) * 2^PayloadBits
  BY <1>1, <1>3, <1>6, PowerSum
<1>8. 2^(PayloadBits * k) \in Nat \ {0} /\ 2^PayloadBits \in Nat \ {0}
  BY <1>6, PowerPositive
<1> QED BY <1>3, <1>4, <1>6, <1>7, <1>8

(* A place is a multiple of the radix and of each place below it. *)
LEMMA PlacesBelow ==
    ASSUME NEW k \in 0..LastIndex, NEW n \in 0..(k - 1)
    PROVE  \E m \in Nat : 2^(PayloadBits * k) = 2^(PayloadBits * n) * (2^PayloadBits * m)
<1> DEFINE d == k - (n + 1)
<1>1. n \in 0..LastIndex /\ d \in 0..LastIndex /\ LastIndex \in Nat /\ k = (n + 1) + d
  BY LastOctet
<1> HIDE DEF d
<1>2. PayloadBits \in Nat
  BY WidthsAssumption
<1>3. PayloadBits * ((n + 1) + d) = (PayloadBits * (n + 1)) + (PayloadBits * d)
  BY <1>1, <1>2, Products
<1>4. PayloadBits * (n + 1) \in Nat /\ PayloadBits * d \in Nat
  BY <1>1, <1>2, Places, Products
<1>5. 2^((PayloadBits * (n + 1)) + (PayloadBits * d))
         = 2^(PayloadBits * (n + 1)) * 2^(PayloadBits * d)
  <2>1. (PayloadBits * (n + 1)) + (PayloadBits * d) \in Exponents
    BY <1>1, <1>3, Places
  <2> QED BY <1>4, <2>1, PowerSum
<1>6. /\ 2^(PayloadBits * (n + 1)) = 2^(PayloadBits * n) * 2^PayloadBits
      /\ 2^(PayloadBits * n) \in Nat /\ 2^PayloadBits \in Nat /\ 2^(PayloadBits * d) \in Nat
  BY <1>1, Places
<1>7. 2^(PayloadBits * k) = 2^(PayloadBits * n) * (2^PayloadBits * 2^(PayloadBits * d))
  BY <1>1, <1>3, <1>5, <1>6, Products
<1> QED BY <1>6, <1>7

(* The word in places: LastIndex full digits and what the last octet may add. *)
LEMMA WordFacts ==
    /\ Word \in Nat \ {0} /\ Word > 1
    /\ WordBits - (PayloadBits * LastIndex) \in Exponents
    /\ 2^(WordBits - (PayloadBits * LastIndex)) \in Nat \ {0}
    /\ 2^(WordBits - (PayloadBits * LastIndex)) <= 2^PayloadBits
    /\ Word = 2^(PayloadBits * LastIndex) * 2^(WordBits - (PayloadBits * LastIndex))
    /\ \A k \in 0..(LastIndex - 1) : 2^(PayloadBits * (k + 1)) <= Word
<1> DEFINE t == WordBits - (PayloadBits * LastIndex)
<1>1. /\ PayloadBits \in Nat \ {0} /\ WordBits \in Nat \ {0} /\ MaxLength \in Nat
      /\ PayloadBits < WordBits
  BY WidthsAssumption
<1>2. t \in 1..PayloadBits /\ PayloadBits * LastIndex \in Nat
      /\ (PayloadBits * LastIndex) + t = WordBits /\ LastIndex \in Nat
  BY <1>1, LastOctet
<1> HIDE DEF t
<1>3. t \in Exponents /\ t \in Nat /\ WordBits \in Exponents /\ PayloadBits \in Exponents
  BY <1>1, <1>2 DEF Exponents
<1>4. 2^((PayloadBits * LastIndex) + t) = 2^(PayloadBits * LastIndex) * 2^t
  BY <1>2, <1>3, PowerSum
<1>5. 2^t \in Nat \ {0} /\ 2^WordBits \in Nat \ {0} /\ 2^t <= 2^PayloadBits
  BY <1>2, <1>3, PowerPositive, PowerGrows
<1>6. 2^WordBits > 1
  <2> DEFINE w == WordBits - 1
  <2>1. w \in Exponents /\ w + 1 = WordBits
    BY <1>1 DEF Exponents
  <2> HIDE DEF w
  <2>2. 2^(w + 1) = 2 * 2^w /\ 2^w \in Nat \ {0}
    BY <1>3, <2>1, PowerNext, PowerPositive
  <2> QED BY <2>1, <2>2
<1>7. ASSUME NEW k \in 0..(LastIndex - 1) PROVE 2^(PayloadBits * (k + 1)) <= 2^WordBits
  <2>1. k \in 0..LastIndex /\ k + 1 <= LastIndex /\ k + 1 \in Nat
    BY <1>2
  <2>2. PayloadBits * (k + 1) <= PayloadBits * LastIndex /\ PayloadBits * (k + 1) \in Nat
    BY <1>1, <1>2, <2>1, Products
  <2>3. PayloadBits * (k + 1) <= WordBits
    BY <1>2, <2>2
  <2>4. PayloadBits * (k + 1) \in Exponents
    BY <2>1, Places
  <2> QED BY <1>3, <2>3, <2>4, PowerGrows
<1>8. Word = 2^WordBits
  BY DEF Word
<1> QED BY <1>2, <1>3, <1>4, <1>5, <1>6, <1>7, <1>8 DEF t

-----------------------------------------------------------------------------
(* Where numerals end. *)

(* An octet is below the radix unless it announces another. *)
LEMMA OctetFacts ==
    ASSUME InputOK, NEW n \in 1..Len(input)
    PROVE  /\ input[n] \in Nat /\ Len(input) \in Nat
           /\ Payload(input[n]) \in 0..(2^PayloadBits - 1)
           /\ ~More(input[n]) => Payload(input[n]) = input[n]
<1>1. 2^PayloadBits \in Nat \ {0}
  BY LastOctet, Places
<1>2. input[n] \in Octets /\ Len(input) \in Nat
  BY BoundFact DEF InputOK
<1>3. PayloadBits + 1 \in Exponents
  BY WidthsAssumption DEF Exponents
<1>4. 2^(PayloadBits + 1) \in Nat
  BY <1>3, PowerPositive
<1>5. input[n] \in Nat
  BY <1>2, <1>4 DEF Octets
<1>6. /\ input[n] % 2^PayloadBits \in Nat /\ input[n] % 2^PayloadBits < 2^PayloadBits
      /\ input[n] < 2^PayloadBits => input[n] % 2^PayloadBits = input[n]
  BY <1>1, <1>5, Division
<1> QED BY <1>1, <1>2, <1>5, <1>6 DEF Payload, More

(* A Wasm integer ends at the first octet that announces no other. *)
LEMMA WasmEnd ==
    ASSUME InputOK
    PROVE  /\ WasmLength \in 0..Len(input)
           /\ WasmLength = 0 => \A n \in 1..Len(input) : More(input[n])
           /\ WasmLength # 0 => /\ ~More(input[WasmLength])
                                /\ \A n \in 1..(WasmLength - 1) : More(input[n])
<1> DEFINE ends == {n \in 1..Len(input) : ~More(input[n])}
<1>0. Len(input) \in Nat
  BY BoundFact DEF InputOK
<1>1. CASE ends = {}
  <2>1. WasmLength = 0
    BY <1>1 DEF WasmLength
  <2> QED BY <1>0, <1>1, <2>1
<1>2. CASE ends # {}
  <2>1. PICK i \in ends : \A j \in ends : i <= j
    <3>1. ends \in SUBSET Nat
      BY <1>0
    <3> HIDE DEF ends
    <3> QED BY <1>2, <3>1, LeastOf
  <2>2. WasmLength = Min(ends)
    BY <1>2 DEF WasmLength
  <2>3. Min(ends) \in ends /\ \A j \in ends : Min(ends) <= j
    <3> HIDE DEF ends
    <3> QED BY <2>1 DEF Min
  <2>4. WasmLength \in ends /\ \A j \in ends : WasmLength <= j
    BY <2>2, <2>3
  <2> QED BY <1>0, <2>4
<1> QED BY <1>1, <1>2

(* An integer of the manifest ends before the first octet that is no digit. *)
LEMMA JsonEnd ==
    ASSUME InputOK
    PROVE  /\ JsonLength \in 0..Len(input)
           /\ \A n \in 1..JsonLength : input[n] < Base
           /\ JsonLength < Len(input) => ~(input[JsonLength + 1] < Base)
<1> DEFINE others == {n \in 1..Len(input) : input[n] >= Base}
<1>0. Len(input) \in Nat /\ Base \in Nat /\ \A n \in 1..Len(input) : input[n] \in Nat
  BY BoundFact, OctetFacts DEF InputOK
<1>1. CASE others = {}
  <2>1. JsonLength = Len(input)
    BY <1>1 DEF JsonLength
  <2> QED BY <1>0, <1>1, <2>1
<1>2. CASE others # {}
  <2>1. PICK i \in others : \A j \in others : i <= j
    <3>1. others \in SUBSET Nat
      BY <1>0
    <3> HIDE DEF others
    <3> QED BY <1>2, <3>1, LeastOf
  <2>2. JsonLength = Min(others) - 1
    BY <1>2 DEF JsonLength
  <2>3. Min(others) \in others /\ \A j \in others : Min(others) <= j
    <3> HIDE DEF others
    <3> QED BY <2>1 DEF Min
  <2>4. PICK m \in others : m = Min(others) /\ \A j \in others : m <= j
    BY <2>3
  <2>5. JsonLength = m - 1 /\ m \in 1..Len(input) /\ input[m] >= Base
    BY <2>2, <2>4
  <2>6. ASSUME NEW n \in 1..JsonLength PROVE input[n] < Base
    <3>1. n \in 1..Len(input) /\ ~(m <= n)
      BY <1>0, <2>5
    <3>2. n \notin others
      BY <2>4, <3>1
    <3> QED BY <1>0, <3>1, <3>2
  <2>7. JsonLength \in 0..Len(input) /\ JsonLength + 1 = m
    BY <1>0, <2>5
  <2> QED BY <1>0, <2>5, <2>6, <2>7
<1> QED BY <1>1, <1>2

-----------------------------------------------------------------------------
(* Wasm integers. *)

(* An octet more is a digit more, above those read so far. *)
LEMMA WasmDigit ==
    ASSUME InputOK, NEW k \in 0..LastIndex, k + 1 \in 1..Len(input),
           NEW r \in Nat, WasmSays(r, k)
    PROVE  LET p == Payload(input[k + 1])
           IN  /\ p * 2^(PayloadBits * k) \in Nat
               /\ WasmSays(r + (p * 2^(PayloadBits * k)), k + 1)
<1> DEFINE p == Payload(input[k + 1])
           u == 2^(PayloadBits * k)
           radix == 2^PayloadBits
           s == r + (p * u)
<1>1. p \in 0..(radix - 1) /\ p \in Nat /\ radix \in Nat \ {0} /\ u \in Nat \ {0} /\ p < radix
  BY OctetFacts, Places
<1>2. 2^(PayloadBits * (k + 1)) = u * radix /\ k \in Nat
  BY Places, LastOctet
<1>3. r < u /\ \A n \in 1..k : (r \div 2^(PayloadBits * (n - 1))) % radix = Payload(input[n])
  BY DEF WasmSays
<1>4. p * u = u * p /\ u * p \in Nat /\ s \in Nat /\ s = (u * p) + r
  <2> HIDE DEF p, u
  <2>1. p * u = u * p /\ u * p \in Nat
    BY <1>1, Products
  <2> QED BY <2>1
<1>5. s \div u = p
  <2> HIDE DEF p, u, s
  <2> QED BY <1>1, <1>3, <1>4, Quotient
<1>6. s < u * radix
  <2> HIDE DEF p, u, s, radix
  <2> QED BY <1>1, <1>4, <1>5, QuotientBounds
<1>7. ASSUME NEW n \in 1..(k + 1)
      PROVE  (s \div 2^(PayloadBits * (n - 1))) % radix = Payload(input[n])
  <2>1. CASE n = k + 1
    <3>1. p % radix = p
      <4> HIDE DEF p, radix
      <4> QED BY <1>1, Division
    <3>2. n - 1 = k
      BY <1>2, <2>1
    <3> QED BY <1>5, <2>1, <3>1, <3>2
  <2>2. CASE n # k + 1
    <3> DEFINE l == n - 1
               low == 2^(PayloadBits * l)
    <3>1. l \in 0..(k - 1) /\ l \in 0..LastIndex /\ n \in 1..k
      BY <1>2, <2>2, LastOctet
    <3>2. low \in Nat \ {0}
      <4> HIDE DEF l
      <4> QED BY <3>1, Places
    <3>3. PICK m \in Nat : u = low * (radix * m)
      <4> HIDE DEF l
      <4> QED BY <3>1, PlacesBelow
    <3>4. (r \div low) % radix = Payload(input[n])
      BY <1>3, <3>1
    <3> HIDE DEF low, l, u, radix, p
    <3> DEFINE q == radix * (m * p)
    <3>5. m * p \in Nat /\ radix * m \in Nat /\ q \in Nat
      BY <1>1, <3>3, Products
    <3>6. u * p = low * q
      <4>1. (low * (radix * m)) * p = low * ((radix * m) * p)
        BY <1>1, <3>2, <3>5, Products
      <4>2. (radix * m) * p = radix * (m * p)
        BY <1>1, <3>3, Products
      <4> QED BY <3>3, <4>1, <4>2
    <3>7. r \div low \in Nat
      BY <3>2, Division
    <3>8. s = r + (low * q)
      <4> HIDE DEF s, q
      <4>1. u * p \in Nat
        BY <1>4
      <4> QED BY <1>4, <3>6
    <3>9. (r + (low * q)) \div low = (r \div low) + q
      <4> HIDE DEF q
      <4> QED BY <3>2, <3>5, MultiplesPass
    <3>10. ((r \div low) + (radix * (m * p))) % radix = (r \div low) % radix
      <4> DEFINE x == r \div low
                 y == m * p
      <4>1. x \in Nat /\ y \in Nat /\ radix \in Nat \ {0}
        BY <1>1, <3>5, <3>7
      <4> HIDE DEF x, y
      <4>2. (x + (radix * y)) % radix = x % radix
        BY <4>1, MultiplesPass
      <4> QED BY <4>2 DEF x, y
    <3>11. (s \div low) % radix = Payload(input[n])
      BY <3>4, <3>8, <3>9, <3>10
    <3> QED BY <3>11 DEF low, l
  <2> QED BY <2>1, <2>2
<1>8. WasmSays(s, k + 1)
  BY <1>2, <1>6, <1>7 DEF WasmSays
<1> QED BY <1>4, <1>8

(* What does not spill is shifted without loss and fits in the word. *)
LEMMA WasmFits ==
    ASSUME InputOK, NEW k \in 0..LastIndex, k + 1 \in 1..Len(input),
           NEW r \in Nat, WasmSays(r, k), k = LastIndex => ~Spills(input[k + 1])
    PROVE  LET p == Payload(input[k + 1])
           IN  /\ Shifted(input[k + 1], PayloadBits * k) = p * 2^(PayloadBits * k)
               /\ r + (p * 2^(PayloadBits * k)) \in 0..(Word - 1)
               /\ k = LastIndex => ~More(input[k + 1])
<1> DEFINE p == Payload(input[k + 1])
           u == 2^(PayloadBits * k)
           s == r + (p * u)
           t == 2^(WordBits - (PayloadBits * LastIndex))
<1>1. p * u \in Nat /\ WasmSays(s, k + 1)
  BY WasmDigit
<1>2. Word \in Nat \ {0} /\ s \in Nat
  BY <1>1, WordFacts
<1>3. k = LastIndex => input[k + 1] < t /\ ~More(input[k + 1]) /\ p = input[k + 1]
  <2>1. input[k + 1] \in Nat /\ t \in Nat /\ t <= 2^PayloadBits /\ 2^PayloadBits \in Nat
    BY OctetFacts, WordFacts, Places
  <2>2. k = LastIndex => ~(input[k + 1] >= t)
    BY DEF Spills
  <2>3. k = LastIndex => ~(input[k + 1] >= 2^PayloadBits)
    BY <2>1, <2>2
  <2>4. ~More(input[k + 1]) => p = input[k + 1]
    BY OctetFacts
  <2> QED BY <2>1, <2>2, <2>3, <2>4 DEF More
<1>4. s < Word
  <2>1. CASE k = LastIndex
    <3>1. Word = u * t /\ u \in Nat \ {0} /\ t \in Nat /\ p \in Nat /\ r < u /\ p < t
      BY <1>3, <2>1, WordFacts, Places, OctetFacts DEF WasmSays
    <3> HIDE DEF p, u, t
    <3>2. p * u = u * p
      BY <3>1, Products
    <3>3. ((u * p) + r) \div u = p
      BY <3>1, Quotient
    <3>4. s = (u * p) + r /\ (u * p) + r \in Nat
      BY <1>1, <3>2
    <3> QED BY <3>1, <3>3, <3>4, QuotientBounds
  <2>2. CASE k # LastIndex
    <3>1. k \in 0..(LastIndex - 1)
      BY <2>2, LastOctet
    <3>2. 2^(PayloadBits * (k + 1)) <= Word
      BY <3>1, WordFacts
    <3>3. 2^(PayloadBits * (k + 1)) \in Nat
      BY Places, PowerPositive
    <3> QED BY <1>1, <1>2, <3>2, <3>3 DEF WasmSays
  <2> QED BY <2>1, <2>2
<1>5. p * u < Word
  BY <1>1, <1>2, <1>4
<1>6. (p * u) % Word = p * u
  <2> HIDE DEF p, u
  <2> QED BY <1>1, <1>2, <1>5, Division
<1> QED BY <1>2, <1>3, <1>4, <1>6 DEF Shifted

(* An integer whose last octet spills is none of the word's numbers. *)
LEMMA WasmTooLarge ==
    ASSUME InputOK, LastIndex + 1 \in 1..Len(input), ~More(input[LastIndex + 1]),
           Spills(input[LastIndex + 1]), NEW v \in 0..(Word - 1)
    PROVE  ~WasmSays(v, LastIndex + 1)
<1> SUFFICES ASSUME WasmSays(v, LastIndex + 1) PROVE FALSE
  OBVIOUS
<1> DEFINE u == 2^(PayloadBits * LastIndex)
           t == 2^(WordBits - (PayloadBits * LastIndex))
           radix == 2^PayloadBits
<1>1. /\ LastIndex \in 0..LastIndex /\ LastIndex + 1 \in 1..(LastIndex + 1)
      /\ (LastIndex + 1) - 1 = LastIndex
  BY LastOctet
<1>2. /\ u \in Nat \ {0} /\ t \in Nat /\ radix \in Nat \ {0} /\ Word = u * t
      /\ 2^(PayloadBits * (LastIndex + 1)) = u * radix
      /\ v \in Nat /\ v < Word
  <2>1. u \in Nat \ {0} /\ radix \in Nat \ {0} /\ 2^(PayloadBits * (LastIndex + 1)) = u * radix
    BY <1>1, Places
  <2>2. t \in Nat /\ Word = u * t /\ Word \in Nat \ {0}
    BY WordFacts
  <2>3. v \in Nat /\ v < Word
    BY <2>2
  <2> QED BY <2>1, <2>2, <2>3
<1>3. v < u * radix
  BY <1>2 DEF WasmSays
<1>4. (v \div u) % radix = input[LastIndex + 1]
  <2>1. (v \div 2^(PayloadBits * ((LastIndex + 1) - 1))) % radix = Payload(input[LastIndex + 1])
    BY <1>1 DEF WasmSays
  <2> QED BY <1>1, <2>1, OctetFacts
<1>5. input[LastIndex + 1] >= t
  BY DEF Spills
<1> HIDE DEF u, t, radix
<1>6. v \div u < radix /\ v \div u < t /\ v \div u \in Nat
  BY <1>2, <1>3, QuotientBounds, Division
<1>7. (v \div u) % radix = v \div u
  BY <1>2, <1>6, Division
<1> QED BY <1>2, <1>4, <1>5, <1>6, <1>7

(* The two decoders of Wasm integers are one loop that counts its          *)
(* iterations in different units.                                          *)
WasmIteration(d, unit) ==
    LET octet == input[d.cursor + 1]
        after == [d EXCEPT !.cursor = @ + 1]
    IN  IF d.cursor >= Len(input) THEN Fails(d)
        ELSE IF d.cursor = LastIndex /\ Spills(octet) THEN Fails(after)
        ELSE [after EXCEPT !.result = @ + Shifted(octet, PayloadBits * d.cursor),
                           !.state = IF More(octet) THEN "loop" ELSE "value",
                           !.step = IF More(octet) THEN @ + unit ELSE @]

(* read_u32 is that loop. *)
LEMMA ReadIsIteration ==
    ASSUME NEW d, WasmInv(d, PayloadBits), d.state = "loop"
    PROVE  ReadIteration(d) = WasmIteration(d, PayloadBits)
<1>1. /\ PayloadBits \in Nat \ {0} /\ LastIndex \in Nat /\ d.cursor \in Nat
      /\ d.cursor <= LastIndex /\ d.step = PayloadBits * d.cursor
  BY WidthsAssumption, LastOctet DEF WasmInv, Decoders
<1>2. ASSUME NEW k \in Nat
      PROVE  /\ PayloadBits * k >= PayloadBits * (LastIndex + 1) => k > LastIndex
             /\ PayloadBits * k = PayloadBits * LastIndex <=> k = LastIndex
  <2>1. k + 1 <= LastIndex + 1 => PayloadBits * (k + 1) <= PayloadBits * (LastIndex + 1)
    BY <1>1, Products
  <2>2. LastIndex + 1 <= k => PayloadBits * (LastIndex + 1) <= PayloadBits * k
    BY <1>1, Products
  <2>3. k + 1 <= LastIndex => PayloadBits * (k + 1) <= PayloadBits * LastIndex
    BY <1>1, Products
  <2>4. /\ PayloadBits * (k + 1) = (PayloadBits * k) + PayloadBits
        /\ PayloadBits * (LastIndex + 1) = (PayloadBits * LastIndex) + PayloadBits
        /\ PayloadBits * k \in Nat /\ PayloadBits * LastIndex \in Nat
    BY <1>1, Products
  <2> QED BY <1>1, <2>1, <2>2, <2>3, <2>4
<1>3. ~(d.step >= PayloadBits * (LastIndex + 1))
  BY <1>1, <1>2
<1>4. d.step = PayloadBits * LastIndex <=> d.cursor = LastIndex
  BY <1>1, <1>2
<1> QED BY <1>1, <1>3, <1>4 DEF ReadIteration, WasmIteration

(* next_u32 is that loop. *)
LEMMA NextIsIteration ==
    ASSUME NEW d, WasmInv(d, 1), d.state = "loop"
    PROVE  NextIteration(d) = WasmIteration(d, 1)
<1>1. LastIndex \in Nat /\ d.cursor \in Nat /\ d.cursor <= LastIndex /\ d.step = d.cursor
  BY LastOctet DEF WasmInv, Decoders
<1> QED BY <1>1 DEF NextIteration, WasmIteration

(* The updates a decoder makes, one record at a time. *)
LEMMA CursorMoves ==
    ASSUME NEW d \in Decoders, NEW c \in Nat
    PROVE  LET e == [d EXCEPT !.cursor = c]
           IN  /\ e \in Decoders /\ e.cursor = c
               /\ e.state = d.state /\ e.step = d.step /\ e.result = d.result
BY DEF Decoders

LEMMA DecoderFails ==
    ASSUME NEW d \in Decoders
    PROVE  Fails(d) \in Decoders /\ Fails(d).state = "fails"
BY DEF Decoders, Fails

(* An iteration keeps the invariant, the decoder's promise included. *)
LEMMA WasmIterationKeeps ==
    ASSUME InputOK, NEW unit \in Nat, NEW d, WasmInv(d, unit), d.state = "loop"
    PROVE  WasmInv(WasmIteration(d, unit), unit)
<1> DEFINE k == d.cursor
           octet == input[k + 1]
           e == WasmIteration(d, unit)
<1> SUFFICES WasmInv(e, unit)
  OBVIOUS
<1>1. /\ d \in Decoders /\ k \in Nat /\ d.result \in Nat /\ d.step \in Nat
      /\ k <= Len(input) /\ k <= LastIndex /\ d.step = unit * k
      /\ \A n \in 1..k : More(input[n])
      /\ WasmSays(d.result, k)
      /\ Len(input) \in Nat /\ LastIndex \in Nat
  BY BoundFact, LastOctet DEF WasmInv, Decoders, InputOK
<1>2. /\ WasmLength \in 0..Len(input)
      /\ WasmLength = 0 => \A n \in 1..Len(input) : More(input[n])
      /\ WasmLength # 0 => /\ ~More(input[WasmLength])
                           /\ \A n \in 1..(WasmLength - 1) : More(input[n])
  BY WasmEnd
<1>3. CASE k >= Len(input)
  <2>1. e = Fails(d)
    BY <1>3 DEF WasmIteration
  <2>2. WasmLength = 0
    BY <1>1, <1>2, <1>3
  <2> HIDE DEF e
  <2>3. e \in Decoders /\ e.state = "fails"
    BY <1>1, <2>1, DecoderFails
  <2> QED BY <2>2, <2>3 DEF WasmInv, WasmExact, Finishes
<1>4. CASE k < Len(input) /\ k = LastIndex /\ Spills(octet)
  <2>1. e = Fails([d EXCEPT !.cursor = k + 1])
    BY <1>1, <1>4 DEF WasmIteration
  <2>2. e \in Decoders /\ e.state = "fails"
    <3>0. d \in Decoders /\ k + 1 \in Nat
      BY <1>1
    <3>1. [d EXCEPT !.cursor = k + 1] \in Decoders
      BY <3>0, CursorMoves, Zenon
    <3> QED BY <2>1, <3>1, DecoderFails
  <2> HIDE DEF e
  <2>3. ASSUME WasmLength \in 1..(LastIndex + 1), NEW v \in 0..(Word - 1), WasmSays(v, WasmLength)
        PROVE  FALSE
    <3>1. WasmLength = LastIndex + 1 /\ ~More(input[LastIndex + 1])
      BY <1>1, <1>2, <1>4, <2>3
    <3>2. LastIndex + 1 \in 1..Len(input)
      BY <1>1, <1>4
    <3> QED BY <1>4, <2>3, <3>1, <3>2, WasmTooLarge
  <2> QED BY <2>2, <2>3 DEF WasmInv, WasmExact, Finishes
<1>5. CASE k < Len(input) /\ ~(k = LastIndex /\ Spills(octet))
  <2> DEFINE s == d.result + (Payload(octet) * 2^(PayloadBits * k))
  <2>1. k \in 0..LastIndex /\ k + 1 \in 1..Len(input)
    BY <1>1, <1>5
  <2>2. /\ Shifted(octet, PayloadBits * k) = Payload(octet) * 2^(PayloadBits * k)
        /\ s \in 0..(Word - 1)
        /\ k = LastIndex => ~More(octet)
    BY <1>1, <1>5, <2>1, WasmFits
  <2>3. WasmSays(s, k + 1)
    BY <1>1, <2>1, WasmDigit
  <2>4. s \in Nat
    BY <2>2, WordFacts
  <2>5. /\ e \in Decoders /\ e.cursor = k + 1 /\ e.result = s
        /\ e.state = (IF More(octet) THEN "loop" ELSE "value")
        /\ e.step = (IF More(octet) THEN d.step + unit ELSE d.step)
    <3> DEFINE after == [d EXCEPT !.cursor = k + 1]
               st == IF More(octet) THEN "loop" ELSE "value"
               step == IF More(octet) THEN d.step + unit ELSE d.step
    <3>0. d \in Decoders /\ k + 1 \in Nat
      BY <1>1
    <3>1. /\ after \in Decoders /\ after.cursor = k + 1
          /\ after.result = d.result /\ after.step = d.step
      BY <3>0, CursorMoves, Zenon
    <3>2. st \in {"loop", "value"} /\ step \in Nat
      BY <1>1
    <3>3. /\ after.result + Shifted(octet, PayloadBits * k) = s
          /\ (IF More(octet) THEN after.step + unit ELSE after.step) = step
      BY <2>2, <3>1
    <3>4. e = [after EXCEPT !.result = after.result + Shifted(octet, PayloadBits * k),
                            !.state = st,
                            !.step = IF More(octet) THEN after.step + unit ELSE after.step]
      BY <1>1, <1>5 DEF WasmIteration
    <3> HIDE DEF after, st, step, s, e
    <3>5. e = [after EXCEPT !.result = s, !.state = st, !.step = step]
      BY <3>3, <3>4
    <3>6. /\ e \in Decoders /\ e.cursor = after.cursor
          /\ e.result = s /\ e.state = st /\ e.step = step
      BY <2>4, <3>1, <3>2, <3>5 DEF Decoders
    <3> QED BY <3>1, <3>6 DEF st, step
  <2> HIDE DEF s, e
  <2>6. CASE More(octet)
    <3>1. k + 1 <= LastIndex /\ k + 1 <= Len(input)
      BY <1>1, <2>1, <2>2, <2>6
    <3>2. unit * (k + 1) = (unit * k) + unit
      BY <1>1
    <3>3. \A n \in 1..(k + 1) : More(input[n])
      BY <1>1, <2>6
    <3> QED BY <1>1, <2>3, <2>5, <2>6, <3>1, <3>2, <3>3 DEF WasmInv, WasmExact, Finishes
  <2>7. CASE ~More(octet)
    <3>1. WasmLength = k + 1
      BY <1>1, <1>2, <2>1, <2>7
    <3>2. WasmLength \in 1..(LastIndex + 1)
      BY <1>1, <3>1
    <3> QED BY <2>2, <2>3, <2>5, <2>7, <3>1, <3>2 DEF WasmInv, WasmExact, Finishes
  <2> QED BY <2>6, <2>7
<1> QED BY <1>1, <1>3, <1>4, <1>5

-----------------------------------------------------------------------------
(* Integers of the manifest. *)

(* MaxDigits is defined: some number of digits reaches the word. *)
LEMMA DigitsOfTheWord ==
    /\ MaxDigits \in 1..WordBits
    /\ Base^MaxDigits >= Word /\ Base^(MaxDigits - 1) < Word
<1> DEFINE S == {n \in 1..WordBits : Base^n >= Word}
<1>1. WordBits \in 1..WordBits /\ WordBits \in Exponents /\ WordBits \in Nat
      /\ \A n \in 0..WordBits : n \in Exponents
  BY WidthsAssumption, BoundFact DEF Exponents
<1>2. \A n \in 0..WordBits : Base^n \in Nat
  BY <1>1, PowerPositive
<1>3. Word = 2^WordBits /\ Word \in Nat /\ Word > 1
  BY WordFacts DEF Word
<1>4. Base^WordBits >= Word
  BY <1>1, <1>2, <1>3, BaseOutgrows
<1>5. PICK i \in S : \A j \in S : i <= j
  <2>1. S \in SUBSET Nat /\ WordBits \in S
    BY <1>1, <1>4
  <2>2. S # {}
    BY <2>1
  <2> HIDE DEF S
  <2> QED BY <2>1, <2>2, LeastOf
<1>6. Base^(i - 1) < Word
  <2>1. CASE i = 1
    <3>1. i - 1 = 0 /\ Base^0 = 1
      BY <2>1, PowerZero
    <3> QED BY <1>3, <3>1
  <2>2. CASE i # 1
    <3>1. i - 1 \in 1..WordBits /\ ~(i <= i - 1) /\ i - 1 \in 0..WordBits
      BY <1>1, <2>2
    <3>2. ~(Base^(i - 1) >= Word)
      BY <1>5, <3>1
    <3> QED BY <1>2, <1>3, <3>1, <3>2
  <2> QED BY <2>1, <2>2
<1>7. \E n \in 1..WordBits : Base^n >= Word /\ Base^(n - 1) < Word
  BY <1>6
<1> QED BY <1>7 DEF MaxDigits

(* Places of digits of the manifest are powers of the base. *)
LEMMA BasePlaces ==
    ASSUME InputOK, NEW n \in 0..Len(input)
    PROVE  /\ n \in Exponents /\ Base^n \in Nat \ {0}
           /\ Base^(n + 1) = Base^n * Base
<1>1. n \in Exponents /\ n + 1 \in Exponents
  BY BoundFact DEF InputOK, Exponents
<1>2. Base^n \in Nat \ {0}
  BY <1>1, PowerPositive
<1>3. Base^(n + 1) = Base * Base^n
  BY <1>1, PowerNext
<1>4. Base * Base^n = Base^n * Base
  BY <1>2, BoundFact
<1> QED BY <1>1, <1>2, <1>3, <1>4

(* An octet more moves the digits read so far one place up. *)
LEMMA JsonDigit ==
    ASSUME InputOK, NEW k \in 0..(Len(input) - 1), input[k + 1] < Base,
           NEW r \in Nat, JsonSays(r, k)
    PROVE  LET s == (r * Base) + input[k + 1]
           IN  s \in Nat /\ r * Base <= s /\ r * Base \in Nat /\ JsonSays(s, k + 1)
<1> DEFINE c == input[k + 1]
           s == (r * Base) + c
<1>1. /\ k \in Nat /\ k \in 0..Len(input) /\ k + 1 \in 1..Len(input) /\ c \in Nat /\ c < Base
      /\ Base \in Nat \ {0} /\ Len(input) \in Nat
  <2>1. Len(input) \in Nat
    BY BoundFact DEF InputOK
  <2>2. k \in Nat /\ k \in 0..Len(input) /\ k + 1 \in 1..Len(input)
    BY <2>1
  <2> QED BY <2>1, <2>2, BoundFact, OctetFacts
<1> HIDE DEF c
<1>2. r * Base \in Nat /\ r * Base = Base * r /\ s = (Base * r) + c /\ s \in Nat /\ r * Base <= s
  <2>1. r * Base \in Nat /\ r * Base = Base * r
    BY <1>1, Products
  <2> QED BY <1>1, <2>1
<1>3. s \div Base = r /\ s % Base = c
  BY <1>1, <1>2, Quotient
<1>4. s < Base^(k + 1)
  <2>1. r < Base^k /\ Base^k \in Nat /\ Base^(k + 1) = Base^k * Base
    BY <1>1, BasePlaces DEF JsonSays
  <2>2. Base^k * Base = Base * Base^k
    BY <1>1, <2>1, Products
  <2> HIDE DEF s
  <2>3. s \div Base < Base^k => s < Base * Base^k
    BY <1>1, <1>2, <2>1, QuotientBounds
  <2> QED BY <1>3, <2>1, <2>2, <2>3
<1>5. ASSUME NEW n \in 1..(k + 1)
      PROVE  (s \div Base^((k + 1) - n)) % Base = input[n]
  <2>1. CASE n = k + 1
    <3>1. (k + 1) - n = 0 /\ Base^0 = 1
      BY <1>1, <2>1, PowerZero
    <3>2. s \div 1 = s
      <4> HIDE DEF s
      <4> QED BY <1>2
    <3> QED BY <1>3, <2>1, <3>1, <3>2 DEF c
  <2>2. CASE n # k + 1
    <3> DEFINE l == k - n
    <3>1. n \in 1..k /\ l \in 0..Len(input) /\ (k + 1) - n = l + 1
      BY <1>1, <2>2
    <3> HIDE DEF l
    <3>2. Base^l \in Nat \ {0} /\ Base^(l + 1) = Base^l * Base
      BY <3>1, BasePlaces
    <3>3. Base^l * Base = Base * Base^l
      BY <1>1, <3>2, Products
    <3>4. (s \div Base) \div Base^l = s \div (Base * Base^l)
      <4> HIDE DEF s
      <4> QED BY <1>1, <1>2, <3>2, TwoDivisions
    <3>5. (r \div Base^l) % Base = input[n]
      BY <3>1 DEF JsonSays, l
    <3> QED BY <1>3, <3>1, <3>2, <3>3, <3>4, <3>5
  <2> QED BY <2>1, <2>2
<1>6. JsonSays(s, k + 1)
  BY <1>4, <1>5 DEF JsonSays
<1> QED BY <1>2, <1>6 DEF c

(* Of a number the numeral says, so are its leading digits. *)
LEMMA JsonPrefix ==
    ASSUME InputOK, NEW length \in 0..Len(input), NEW k \in 0..(length - 1),
           NEW v \in Nat, JsonSays(v, length),
           NEW r \in Nat, v \div Base^(length - k) = r
    PROVE  v \div Base^(length - (k + 1)) = (r * Base) + input[k + 1]
<1> DEFINE l == length - (k + 1)
           x == v \div Base^l
<1>1. /\ length \in Nat /\ l \in 0..Len(input) /\ length - k = l + 1 /\ k + 1 \in 1..length
  BY BoundFact DEF InputOK
<1>2. (v \div Base^l) % Base = input[k + 1]
  BY <1>1 DEF JsonSays
<1> HIDE DEF l
<1>3. Base^l \in Nat \ {0} /\ Base^(l + 1) = Base^l * Base /\ Base \in Nat \ {0}
  BY <1>1, BasePlaces, BoundFact
<1>4. x \in Nat
  BY <1>3, Division
<1>5. x \div Base = r
  <2>1. (v \div Base^l) \div Base = v \div (Base^l * Base)
    BY <1>3, TwoDivisions
  <2> QED BY <1>1, <1>3, <2>1
<1>6. x % Base = input[k + 1]
  BY <1>2
<1> HIDE DEF x
<1>7. x = (Base * (x \div Base)) + (x % Base)
  BY <1>3, <1>4, Division
<1>8. Base * r = r * Base
  BY <1>3, Products
<1>9. x = (r * Base) + input[k + 1]
  BY <1>5, <1>6, <1>7, <1>8
<1> QED BY <1>9 DEF x, l

(* An iteration of json_uint32 keeps the invariant. *)
LEMMA JsonIterationKeeps ==
    ASSUME InputOK, NEW d, JsonInv(d), d.state = "loop"
    PROVE  JsonInv(JsonIteration(d))
<1> DEFINE k == d.cursor
           r == d.result
           digit == input[k + 1]
           length == JsonLength
           e == JsonIteration(d)
           Fits == {v \in 0..(Word - 1) : JsonSays(v, length)}
<1> SUFFICES JsonInv(e)
  OBVIOUS
<1>1. /\ d \in Decoders /\ k \in Nat /\ r \in Nat
      /\ k <= Len(input) /\ k <= MaxDigits /\ d.step = k
      /\ \A n \in 1..k : input[n] < Base
      /\ r < Word /\ JsonSays(r, k)
      /\ \A v \in Fits : v \div Base^(length - k) = r
      /\ k > 0 /\ input[1] # 0 => r >= Base^(k - 1)
  BY DEF JsonInv, Decoders
<1>2. /\ Len(input) \in Nat /\ Word \in Nat \ {0} /\ MaxDigits \in Nat \ {0}
      /\ Base \in Nat \ {0} /\ WordBits \in Nat
  BY BoundFact, WordFacts, DigitsOfTheWord DEF InputOK
<1>3. /\ length \in 0..Len(input) /\ length \in Nat
      /\ \A n \in 1..length : input[n] < Base
      /\ length < Len(input) => ~(input[length + 1] < Base)
  BY <1>2, JsonEnd
<1>4. ASSUME e = Fails(d),
             ~(/\ length > 0
               /\ input[1] = 0 => length = 1
               /\ \E v \in 0..(Word - 1) : JsonSays(v, length) /\ (v = 0 => allow_zero))
      PROVE  JsonInv(e)
  <2>1. e \in Decoders /\ e.state = "fails"
    BY <1>1, <1>4, DecoderFails
  <2> HIDE DEF e
  <2> QED BY <1>4, <2>1 DEF JsonInv, JsonExact, Finishes
<1>5. CASE k < Len(input) /\ digit < Base
  <2> DEFINE s == (r * Base) + digit
  <2>1. k \in 0..(Len(input) - 1) /\ k + 1 \in 1..Len(input) /\ k \in 0..Len(input)
    BY <1>1, <1>2, <1>5
  <2>2. s \in Nat /\ r * Base <= s /\ r * Base \in Nat /\ JsonSays(s, k + 1)
    BY <1>1, <1>5, <2>1, JsonDigit
  <2>3. k + 1 <= length /\ k \in 0..(length - 1)
    BY <1>1, <1>2, <1>3, <1>5
  <2>4. ASSUME NEW v \in Fits PROVE v \div Base^(length - (k + 1)) = s /\ s <= v
    <3>1. v \in Nat /\ JsonSays(v, length) /\ v \div Base^(length - k) = r
      BY <1>1, <1>2
    <3>2. v \div Base^(length - (k + 1)) = s
      <4> HIDE DEF length
      <4> QED BY <1>1, <1>3, <2>3, <3>1, JsonPrefix
    <3> DEFINE l == length - (k + 1)
    <3>3. l \in 0..Len(input)
      <4> HIDE DEF length
      <4>1. length \in Nat /\ length <= Len(input) /\ k \in Nat /\ k + 1 <= length
        BY <1>1, <1>2, <1>3, <2>3
      <4> QED BY <1>2, <4>1
    <3> HIDE DEF l
    <3>4. Base^l \in Nat \ {0}
      BY <3>3, BasePlaces
    <3>5. v \div Base^l <= v
      BY <3>1, <3>4, QuotientBounds
    <3> QED BY <3>2, <3>5 DEF l
  <2>5. k > 0 /\ input[1] # 0 => r * Base >= Base^k
    <3> HAVE k > 0 /\ input[1] # 0
    <3> DEFINE l == k - 1
    <3>1. r >= Base^l /\ l \in 0..Len(input) /\ k = l + 1
      BY <1>1, <1>2
    <3> HIDE DEF l
    <3>2. Base^l \in Nat /\ Base^(l + 1) = Base^l * Base
      BY <3>1, BasePlaces
    <3>3. Base * Base^l <= Base * r /\ Base * Base^l = Base^l * Base /\ Base * r = r * Base
      BY <1>1, <1>2, <3>1, <3>2, Products
    <3>4. Base^k = Base^l * Base
      BY <3>1, <3>2
    <3> QED BY <1>1, <1>2, <2>2, <3>2, <3>3, <3>4
  <2> HIDE DEF s
  <2>6. CASE s >= Word
    <3>1. e = Fails(d)
      BY <1>1, <1>5, <2>6 DEF JsonIteration, s
    <3>2. Fits = {}
      <4>1. ASSUME NEW v \in Fits PROVE FALSE
        <5>1. v \in 0..(Word - 1) /\ s <= v
          BY <2>4
        <5> QED BY <1>2, <2>2, <2>6, <5>1
      <4> QED BY <4>1
    <3>3. ~\E v \in 0..(Word - 1) : JsonSays(v, length) /\ (v = 0 => allow_zero)
      BY <3>2
    <3> QED BY <1>4, <3>1, <3>3
  <2>7. CASE k + 1 > MaxDigits
    <3>1. e = Fails(d)
      BY <1>1, <1>5, <2>7 DEF JsonIteration
    <3>2. k = MaxDigits /\ k > 0 /\ length > 1
      BY <1>1, <1>2, <1>3, <2>3, <2>7
    <3>3. ASSUME input[1] # 0 PROVE Fits = {}
      <4>1. ASSUME NEW v \in Fits PROVE FALSE
        <5>1. v \in 0..(Word - 1) /\ s <= v
          BY <2>4
        <5>2. Base^k >= Word /\ Base^k \in Nat
          BY <2>1, <3>2, DigitsOfTheWord, BasePlaces
        <5>3. r * Base >= Base^k
          BY <2>5, <3>2, <3>3
        <5> QED BY <1>2, <2>2, <5>1, <5>2, <5>3
      <4> QED BY <4>1
    <3>4. ASSUME input[1] = 0 => length = 1, NEW v \in 0..(Word - 1), JsonSays(v, length)
          PROVE  FALSE
      <4>1. input[1] # 0
        BY <3>2, <3>4
      <4>2. v \in Fits
        BY <3>4
      <4> QED BY <3>3, <4>1, <4>2
    <3> QED BY <1>4, <3>1, <3>4
  <2>8. CASE ~(k + 1 > MaxDigits) /\ ~(s >= Word)
    <3>1. e = [d EXCEPT !.cursor = k + 1, !.step = k + 1, !.result = s]
      BY <1>1, <1>5, <2>8 DEF JsonIteration, s
    <3> HIDE DEF e
    <3>2. /\ e \in Decoders /\ e.cursor = k + 1 /\ e.step = k + 1 /\ e.result = s
          /\ e.state = "loop"
      <4> DEFINE c == k + 1
      <4>1. c \in Nat /\ e = [d EXCEPT !.cursor = c, !.step = c, !.result = s]
        BY <1>1, <3>1
      <4> HIDE DEF c
      <4>2. e \in Decoders /\ e.cursor = c /\ e.step = c /\ e.result = s /\ e.state = d.state
        BY <1>1, <2>2, <4>1 DEF Decoders
      <4> QED BY <4>2 DEF c
    <3>3. k + 1 > 0 /\ input[1] # 0 => s >= Base^((k + 1) - 1)
      <4> HAVE input[1] # 0
      <4>1. (k + 1) - 1 = k
        BY <1>1
      <4>2. CASE k = 0
        <5>1. s >= 1
          BY <1>1, <2>1, <2>2, <4>2, OctetFacts DEF s
        <5>2. Base^0 = 1
          BY PowerZero
        <5> QED BY <4>1, <4>2, <5>1, <5>2
      <4>3. CASE k # 0
        <5>1. r * Base >= Base^k
          BY <1>1, <2>5, <4>3
        <5>2. Base^k \in Nat
          BY <2>1, BasePlaces
        <5> QED BY <2>2, <4>1, <5>1, <5>2
      <4> QED BY <4>2, <4>3
    <3>4. /\ e.cursor <= Len(input) /\ e.cursor <= MaxDigits /\ s < Word
          /\ \A n \in 1..e.cursor : input[n] < Base
      BY <1>1, <1>2, <1>5, <2>1, <2>2, <2>8, <3>2
    <3>5. \A v \in 0..(Word - 1) :
             JsonSays(v, length) => v \div Base^(length - e.cursor) = e.result
      BY <2>4, <3>2
    <3>6. JsonExact(e)
      BY <3>2 DEF JsonExact, Finishes
    <3> QED BY <2>2, <3>2, <3>3, <3>4, <3>5, <3>6 DEF JsonInv
  <2> QED BY <1>2, <2>2, <2>6, <2>7, <2>8
<1>6. CASE ~(k < Len(input) /\ digit < Base)
  <2>1. k = length
    <3>1. k <= length
      BY <1>1, <1>2, <1>3
    <3>2. ~(k < length)
      BY <1>1, <1>2, <1>3, <1>6
    <3> QED BY <1>1, <1>3, <3>1, <3>2
  <2>2. ASSUME NEW v \in 0..(Word - 1), JsonSays(v, length) PROVE v = r
    <3>1. length - k = 0 /\ Base^0 = 1
      BY <1>3, <2>1, PowerZero
    <3>2. v \div Base^(length - k) = r
      BY <1>1, <2>2
    <3>3. v \in Nat
      BY <1>2
    <3>4. v \div 1 = v
      BY <3>3
    <3> QED BY <3>1, <3>2, <3>4
  <2>3. CASE k = 0 \/ (input[1] = 0 /\ k # 1) \/ (~allow_zero /\ r = 0)
    <3>1. e = Fails(d)
      BY <1>1, <1>6, <2>3 DEF JsonIteration
    <3>2. ~(/\ length > 0
            /\ input[1] = 0 => length = 1
            /\ \E v \in 0..(Word - 1) : JsonSays(v, length) /\ (v = 0 => allow_zero))
      BY <2>1, <2>2, <2>3
    <3> QED BY <1>4, <3>1, <3>2
  <2>4. CASE ~(k = 0 \/ (input[1] = 0 /\ k # 1) \/ (~allow_zero /\ r = 0))
    <3>1. e = [d EXCEPT !.state = "value"]
      BY <1>1, <1>6, <2>4 DEF JsonIteration
    <3> HIDE DEF e
    <3>2. e \in Decoders /\ e.state = "value" /\ e.cursor = k /\ e.result = r
      BY <1>1, <3>1 DEF Decoders
    <3>3. r \in 0..(Word - 1) /\ length > 0 /\ (input[1] = 0 => length = 1)
          /\ (r = 0 => allow_zero) /\ JsonSays(r, length)
      BY <1>1, <1>2, <2>1, <2>4
    <3> QED BY <2>1, <3>2, <3>3 DEF JsonInv, JsonExact
  <2> QED BY <2>3, <2>4
<1> QED BY <1>5, <1>6

-----------------------------------------------------------------------------
(* What the invariant says of a decoder depends on the input and the       *)
(* decoder alone.                                                          *)
LEMMA LengthsKept ==
    ASSUME UNCHANGED input
    PROVE  WasmLength' = WasmLength /\ JsonLength' = JsonLength
<1>1. WasmLength' = WasmLength
  BY DEF WasmLength
<1>2. JsonLength' = JsonLength
  BY DEF JsonLength
<1> QED BY <1>1, <1>2

LEMMA InputKept ==
    ASSUME UNCHANGED <<input, allow_zero>>, InputOK
    PROVE  InputOK'
BY DEF InputOK

LEMMA ReadKept ==
    ASSUME UNCHANGED input, WasmInv(read', PayloadBits)
    PROVE  WasmInv(read, PayloadBits)'
BY LengthsKept DEF WasmInv, WasmExact, WasmSays, Finishes

LEMMA NextKept ==
    ASSUME UNCHANGED input, WasmInv(next', 1)
    PROVE  WasmInv(next, 1)'
BY LengthsKept DEF WasmInv, WasmExact, WasmSays, Finishes

LEMMA JsonKept ==
    ASSUME UNCHANGED <<input, allow_zero>>, JsonInv(json')
    PROVE  JsonInv(json)'
BY LengthsKept DEF JsonInv, JsonExact, JsonSays, Finishes

(* Before its first iteration a decoder has read nothing, which says zero. *)
LEMMA IdleFacts ==
    LET first == [Idle EXCEPT !.state = "loop"]
    IN  /\ Idle \in Decoders /\ Idle.state = "idle"
        /\ first \in Decoders /\ first.state = "loop"
        /\ first.cursor = 0 /\ first.step = 0 /\ first.result = 0
BY DEF Idle, Decoders

LEMMA WasmStarts ==
    ASSUME InputOK, NEW unit \in Nat
    PROVE  WasmInv(Idle, unit) /\ WasmInv([Idle EXCEPT !.state = "loop"], unit)
<1> DEFINE first == [Idle EXCEPT !.state = "loop"]
<1>1. /\ Idle \in Decoders /\ Idle.state = "idle"
      /\ first \in Decoders /\ first.state = "loop"
      /\ first.cursor = 0 /\ first.step = 0 /\ first.result = 0
  BY IdleFacts
<1>2. 0 <= Len(input) /\ 0 <= LastIndex /\ unit * 0 = 0
  BY BoundFact, LastOctet DEF InputOK
<1>3. WasmSays(0, 0)
  <2>1. PayloadBits * 0 = 0
    BY WidthsAssumption
  <2>2. 2^0 = 1
    BY PowerZero
  <2>3. 2^(PayloadBits * 0) = 1
    BY <2>1, <2>2, Zenon
  <2> QED BY <2>3 DEF WasmSays
<1>4. WasmInv(Idle, unit)
  BY <1>1 DEF WasmInv, WasmExact, Finishes
<1> HIDE DEF first
<1>5. WasmInv(first, unit)
  BY <1>1, <1>2, <1>3 DEF WasmInv, WasmExact, Finishes
<1> QED BY <1>4, <1>5 DEF first

LEMMA JsonStarts ==
    ASSUME InputOK
    PROVE  JsonInv(Idle) /\ JsonInv([Idle EXCEPT !.state = "loop"])
<1> DEFINE first == [Idle EXCEPT !.state = "loop"]
<1>1. /\ Idle \in Decoders /\ Idle.state = "idle"
      /\ first \in Decoders /\ first.state = "loop"
      /\ first.cursor = 0 /\ first.step = 0 /\ first.result = 0
  BY IdleFacts
<1>2. 0 <= Len(input) /\ 0 <= MaxDigits /\ 0 < Word /\ Word \in Nat
  BY BoundFact, WordFacts, DigitsOfTheWord DEF InputOK
<1>3. JsonSays(0, 0)
  <2>1. Base^0 = 1
    BY PowerZero
  <2> QED BY <2>1 DEF JsonSays
<1>4. ASSUME NEW v \in 0..(Word - 1), JsonSays(v, JsonLength)
      PROVE  v \div Base^(JsonLength - 0) = 0
  <2>1. JsonLength \in 0..Len(input) /\ JsonLength - 0 = JsonLength
    BY JsonEnd, BoundFact DEF InputOK
  <2>2. Base^JsonLength \in Nat \ {0} /\ v \in Nat /\ v < Base^JsonLength
    BY <1>2, <1>4, <2>1, BasePlaces DEF JsonSays
  <2>3. ASSUME NEW w \in Nat \ {0}, v < w PROVE v \div w = 0
    BY <2>2, <2>3, Z3
  <2> QED BY <2>1, <2>2, <2>3
<1>5. JsonInv(Idle)
  BY <1>1 DEF JsonInv, JsonExact, Finishes
<1> HIDE DEF first
<1>6. JsonInv(first)
  BY <1>1, <1>2, <1>3, <1>4 DEF JsonInv, JsonExact, Finishes
<1> QED BY <1>5, <1>6 DEF first

-----------------------------------------------------------------------------
(* Initially nothing is read. *)
LEMMA NumeralsStart == NumeralsInit => NumeralsInv
<1> SUFFICES ASSUME NumeralsInit PROVE NumeralsInv
  OBVIOUS
<1>1. InputOK
  <2>1. PICK n \in 0..MaxLength : input \in [1..n -> Octets]
    BY DEF NumeralsInit
  <2>2. n \in Nat /\ n <= MaxLength
    BY BoundFact
  <2>3. Len(input) = n
    BY <2>1, <2>2
  <2> QED BY <2>1, <2>3 DEF InputOK, NumeralsInit
<1>2. PayloadBits \in Nat /\ 1 \in Nat
  BY WidthsAssumption
<1>3. WasmInv(read, PayloadBits) /\ WasmInv(next, 1) /\ JsonInv(json)
  BY <1>1, <1>2, WasmStarts, JsonStarts DEF NumeralsInit
<1>4. InTurn
  BY IdleFacts DEF NumeralsInit, InTurn
<1> QED BY <1>1, <1>3, <1>4 DEF NumeralsInv

(* One step per decoder: the others, and the input, are as they were. *)
LEMMA NumeralsStep == NumeralsInv /\ [NumeralsNext]_numerals => NumeralsInv'
<1> SUFFICES ASSUME NumeralsInv, [NumeralsNext]_numerals PROVE NumeralsInv'
  OBVIOUS
<1>1. InputOK /\ WasmInv(read, PayloadBits) /\ WasmInv(next, 1) /\ JsonInv(json) /\ InTurn
  BY DEF NumeralsInv
<1>2. PayloadBits \in Nat /\ 1 \in Nat
  BY WidthsAssumption
<1>3. UNCHANGED <<input, allow_zero>>
  BY DEF NumeralsNext, ReadStep, NextStep, JsonStep, NumeralsDone, numerals
<1>4. InputOK'
  BY <1>1, <1>3, InputKept
<1>5. ASSUME WasmInv(read', PayloadBits), WasmInv(next', 1), JsonInv(json'), InTurn'
      PROVE  NumeralsInv'
  BY <1>3, <1>4, <1>5, ReadKept, NextKept, JsonKept DEF NumeralsInv
<1>6. CASE ReadStep
  <2>1. read.state = "loop" /\ next.state = "idle" /\ next = Idle
    BY <1>1, <1>6 DEF ReadStep, InTurn, WasmInv
  <2>2. read' = WasmIteration(read, PayloadBits)
    BY <1>1, <1>6, <2>1, ReadIsIteration DEF ReadStep
  <2>3. WasmInv(read', PayloadBits)
    BY <1>1, <1>2, <2>1, <2>2, WasmIterationKeeps
  <2>4. json' = json /\ json.state = "idle"
    BY <1>1, <1>6, <2>1 DEF ReadStep, InTurn
  <2>5. CASE Finishes(read')
    <3>1. next' = [Idle EXCEPT !.state = "loop"]
      BY <1>6, <2>1, <2>5 DEF ReadStep, Start
    <3>2. WasmInv(next', 1) /\ next'.state = "loop"
      BY <1>1, <1>2, <3>1, WasmStarts, IdleFacts
    <3>3. read'.state # "loop"
      BY <2>5 DEF Finishes
    <3> QED BY <1>1, <1>5, <2>3, <2>4, <3>2, <3>3 DEF InTurn
  <2>6. CASE ~Finishes(read')
    <3>1. next' = next
      BY <1>6, <2>6 DEF ReadStep, Start
    <3> QED BY <1>1, <1>5, <2>1, <2>3, <2>4, <3>1 DEF InTurn
  <2> QED BY <2>5, <2>6
<1>7. CASE NextStep
  <2>1. next.state = "loop" /\ json.state = "idle" /\ json = Idle /\ read.state # "loop"
    BY <1>1, <1>7 DEF NextStep, InTurn, JsonInv
  <2>2. next' = WasmIteration(next, 1)
    BY <1>1, <1>7, <2>1, NextIsIteration DEF NextStep
  <2>3. WasmInv(next', 1)
    BY <1>1, <1>2, <2>1, <2>2, WasmIterationKeeps
  <2>4. read' = read
    BY <1>7 DEF NextStep
  <2>5. CASE Finishes(next')
    <3>1. json' = [Idle EXCEPT !.state = "loop"]
      BY <1>7, <2>1, <2>5 DEF NextStep, Start
    <3>2. JsonInv(json')
      BY <1>1, <3>1, JsonStarts
    <3>3. next'.state \notin {"idle", "loop"}
      BY <2>5 DEF Finishes
    <3> QED BY <1>1, <1>5, <2>1, <2>3, <2>4, <3>2, <3>3 DEF InTurn
  <2>6. CASE ~Finishes(next')
    <3>1. json' = json
      BY <1>7, <2>6 DEF NextStep, Start
    <3> QED BY <1>1, <1>5, <2>1, <2>3, <2>4, <3>1 DEF InTurn
  <2> QED BY <2>5, <2>6
<1>8. CASE JsonStep
  <2>1. /\ json.state = "loop" /\ read' = read /\ next' = next
        /\ json' = JsonIteration(json)
    BY <1>8 DEF JsonStep
  <2>2. next.state \notin {"idle", "loop"} /\ read.state # "loop"
    BY <1>1, <2>1 DEF InTurn
  <2>3. JsonInv(json')
    BY <1>1, <2>1, JsonIterationKeeps
  <2> QED BY <1>1, <1>5, <2>1, <2>2, <2>3 DEF InTurn
<1>9. CASE NumeralsDone \/ UNCHANGED numerals
  <2>1. read' = read /\ next' = next /\ json' = json
    BY <1>9 DEF NumeralsDone, numerals
  <2> QED BY <1>1, <1>5, <2>1 DEF InTurn
<1> QED BY <1>6, <1>7, <1>8, <1>9 DEF NumeralsNext

(* The invariant of the three decoders. *)
THEOREM NumeralsAlways == NumeralsSpec => []NumeralsInv
<1>1. NumeralsInit => NumeralsInv
  BY NumeralsStart
<1>2. NumeralsInv /\ [NumeralsNext]_numerals => NumeralsInv'
  BY NumeralsStep
<1> QED BY <1>1, <1>2, PTL DEF NumeralsSpec

(* Every integer is read as what it says or refused, whatever the widths   *)
(* of octets and words, the base and the length of the input.              *)
THEOREM IntegersReadExactly == NumeralsSpec => []IntegersExact
<1>1. NumeralsInv => IntegersExact
  BY DEF NumeralsInv, WasmInv, JsonInv, IntegersExact
<1> QED BY <1>1, NumeralsAlways, PTL

(* The digits of a number determine it. *)
LEMMA WasmSaysOne ==
    ASSUME NEW length \in 0..(LastIndex + 1), NEW v \in Nat, NEW w \in Nat,
           WasmSays(v, length), WasmSays(w, length)
    PROVE  v = w
<1> DEFINE place(n) == 2^(PayloadBits * n)
           radix == 2^PayloadBits
           S == {n \in 0..length : v % place(n) # w % place(n)}
<1>1. length \in Nat /\ LastIndex \in Nat
  BY LastOctet
<1>2. place(0) = 1
  <2>1. PayloadBits * 0 = 0
    BY WidthsAssumption
  <2>2. 2^0 = 1
    BY PowerZero
  <2> QED BY <2>1, <2>2, Zenon
<1>3. ASSUME NEW n \in 0..LastIndex
      PROVE  place(n) \in Nat \ {0} /\ radix \in Nat \ {0} /\ place(n + 1) = place(n) * radix
  BY Places
<1>4. S = {}
  <2> SUFFICES ASSUME S # {} PROVE FALSE
    OBVIOUS
  <2>1. S \in SUBSET Nat
    BY <1>1
  <2>2. PICK i \in S : \A j \in S : i <= j
    <3> HIDE DEF S
    <3> QED BY <2>1, LeastOf
  <2>3. i # 0
    <3>1. v % 1 = w % 1
      OBVIOUS
    <3> HIDE DEF place
    <3> QED BY <1>2, <2>2, <3>1
  <2> DEFINE l == i - 1
  <2>4. l \in 0..length /\ l \in 0..LastIndex /\ i = l + 1 /\ ~(i <= l) /\ i \in 1..length
    BY <1>1, <2>3
  <2>5. v % place(l) = w % place(l)
    BY <2>2, <2>4
  <2>6. (v \div place(l)) % radix = (w \div place(l)) % radix
    BY <2>4 DEF WasmSays
  <2>7. v % place(i) # w % place(i)
    BY <2>2
  <2> HIDE DEF l, place, radix, S
  <2>8. /\ v % (place(l) * radix) = (place(l) * ((v \div place(l)) % radix)) + (v % place(l))
        /\ w % (place(l) * radix) = (place(l) * ((w \div place(l)) % radix)) + (w % place(l))
    BY <1>3, <2>4, TwoDivisions
  <2> QED BY <1>3, <2>4, <2>5, <2>6, <2>7, <2>8
<1>5. length \in 0..length
  BY <1>1
<1>6. v % place(length) = w % place(length)
  BY <1>4, <1>5
<1>7. v < place(length) /\ w < place(length)
  BY DEF WasmSays
<1>8. place(length) \in Nat \ {0}
  <2>1. PayloadBits * length \in Exponents
    <3>1. CASE length = LastIndex + 1
      BY <1>1, <3>1, Places
    <3>2. CASE length # LastIndex + 1
      <4>1. length \in 0..LastIndex
        BY <1>1, <3>2
      <4> QED BY <4>1, Places
    <3> QED BY <3>1, <3>2
  <2> QED BY <2>1, PowerPositive
<1> HIDE DEF place
<1>9. v % place(length) = v /\ w % place(length) = w
  BY <1>7, <1>8, Division
<1> QED BY <1>6, <1>9

(* What read_u32 and next_u32 make of the same octets is the same. *)
DecodersAgree ==
    Finishes(read) /\ Finishes(next) =>
        /\ read.state = next.state
        /\ read.state = "value" => read.result = next.result /\ read.cursor = next.cursor

(* The scanner of opening and the parser of installation never disagree on *)
(* a Wasm integer: they refuse the same ones, and of the others they find  *)
(* the same value and the same end.                                        *)
THEOREM WasmDecodersAgree == NumeralsSpec => []DecodersAgree
<1>1. NumeralsInv => DecodersAgree
  <2> SUFFICES ASSUME NumeralsInv, Finishes(read), Finishes(next)
               PROVE  /\ read.state = next.state
                      /\ read.state = "value" =>
                            read.result = next.result /\ read.cursor = next.cursor
    BY DEF DecodersAgree
  <2>1. WasmExact(read) /\ WasmExact(next)
    BY DEF NumeralsInv, WasmInv
  <2>2. CASE WasmLength \in 1..(LastIndex + 1) /\ \E v \in 0..(Word - 1) : WasmSays(v, WasmLength)
    <3>1. /\ read.state = "value" /\ read.cursor = WasmLength
          /\ read.result \in 0..(Word - 1) /\ WasmSays(read.result, WasmLength)
          /\ next.state = "value" /\ next.cursor = WasmLength
          /\ next.result \in 0..(Word - 1) /\ WasmSays(next.result, WasmLength)
      BY <2>1, <2>2 DEF WasmExact
    <3>2. read.result \in Nat /\ next.result \in Nat /\ WasmLength \in 0..(LastIndex + 1)
      BY <2>2, <3>1, WordFacts, LastOctet
    <3>3. read.result = next.result
      BY <3>1, <3>2, WasmSaysOne
    <3> QED BY <3>1, <3>3
  <2>3. CASE ~(/\ WasmLength \in 1..(LastIndex + 1)
               /\ \E v \in 0..(Word - 1) : WasmSays(v, WasmLength))
    <3>1. read.state = "fails" /\ next.state = "fails"
      BY <2>1, <2>3 DEF WasmExact
    <3> QED BY <3>1
  <2> QED BY <2>2, <2>3
<1> QED BY <1>1, NumeralsAlways, PTL
=============================================================================
