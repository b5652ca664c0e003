--------------------------- MODULE CapabilityList ---------------------------
(***************************************************************************)
(* json_caps of package_stream.c, the parser of the list                   *)
(*     "required_capabilities":["log","timer"]                             *)
(* of a manifest, from after its opening bracket.  The input is a sequence *)
(* of tokens: an identifier in quotes is a token [kind |-> "name",         *)
(* text |-> its letters], the bracket and the comma are tokens of their    *)
(* own.  An iteration of the loop is two steps, one on each side of its    *)
(* identifier.                                                             *)
(***************************************************************************)
EXTENDS Integers, Sequences, FiniteSetsExt

CONSTANTS
    Texts,      \* identifiers: sequences of letters, which are naturals
    Known,      \* those that name a capability
    MaxCaps,    \* 16 in the code
    MaxTokens   \* bound on the length of the input

ASSUME CapsAssumption ==
    /\ Texts \subseteq Seq(Nat) \ {<<>>}
    /\ MaxCaps \in Nat \ {0} /\ MaxTokens \in Nat

VARIABLES
    tokens,       \* the input
    cursor,
    count,
    previous,     \* the identifier before, or <<>>
    requested,    \* manifest->requested_capabilities
    has_unknown,  \* manifest->has_unknown_capability
    state

caps == <<tokens, cursor, count, previous, requested, has_unknown, state>>

Token(kind)   == [kind |-> kind, text |-> <<>>]
Name(text)    == [kind |-> "name", text |-> text]
Close         == Token("]")
Comma         == Token(",")
Tokens        == {Name(t) : t \in Texts} \cup {Close, Comma}

CapsInit ==
    /\ \E n \in 0..MaxTokens : tokens \in [1..n -> Tokens]
    /\ cursor = 0 /\ count = 0 /\ previous = <<>>
    /\ requested = {} /\ has_unknown = FALSE
    /\ state = "item"

Sees(token) == cursor < Len(tokens) /\ tokens[cursor + 1] = token
SeesName    == cursor < Len(tokens) /\ tokens[cursor + 1].kind = "name"

Return(result) ==
    /\ state' = result
    /\ UNCHANGED <<tokens, cursor, count, previous, requested, has_unknown>>

-----------------------------------------------------------------------------
(* memcmp over the common length: the first letter that differs, if any *)
Compare(a, b) ==
    LET differs == {i \in 1..Min({Len(a), Len(b)}) : a[i] # b[i]}
    IN  IF differs = {} THEN 0 ELSE a[Min(differs)] - b[Min(differs)]

(* Mutant: an identifier and its extension count as out of order. *)
MutantAscends(a, b) == Compare(a, b) < 0

Ascends(a, b) == ~(Compare(a, b) > 0 \/ (Compare(a, b) = 0 /\ Len(a) >= Len(b)))

CloseEmpty ==
    /\ state = "item" /\ count < MaxCaps /\ Sees(Close)
    /\ Return("accepted")

(* Mutant: an identifier that names no capability is passed over. *)
MutantUnknown(text) == FALSE

Unknown(text) == text \notin Known

Item ==
    /\ state = "item" /\ count < MaxCaps /\ SeesName
    /\ LET current == tokens[cursor + 1].text
       IN  /\ requested' = requested \cup ({current} \cap Known)
           /\ has_unknown' = (has_unknown \/ Unknown(current))
           /\ IF previous = <<>> \/ Ascends(previous, current)
              THEN state' = "after" /\ previous' = current
              ELSE state' = "rejected" /\ UNCHANGED previous
    /\ cursor' = cursor + 1
    /\ UNCHANGED <<tokens, count>>

CloseList ==
    /\ state = "after" /\ Sees(Close)
    /\ Return("accepted")

Separator ==
    /\ state = "after" /\ Sees(Comma)
    /\ state' = "item" /\ cursor' = cursor + 1 /\ count' = count + 1
    /\ UNCHANGED <<tokens, previous, requested, has_unknown>>

Reject ==
    /\ \/ state = "item" /\ (count = MaxCaps \/ ~(Sees(Close) \/ SeesName))
       \/ state = "after" /\ ~(Sees(Close) \/ Sees(Comma))
    /\ Return("rejected")

CapsDone == state \in {"accepted", "rejected"} /\ UNCHANGED caps

CapsNext == CloseEmpty \/ Item \/ CloseList \/ Separator \/ Reject \/ CapsDone

CapsSpec == CapsInit /\ [][CapsNext]_caps

-----------------------------------------------------------------------------
(* The lists a canonical encoder writes: at most MaxCaps identifiers, each *)
(* before the next in dictionary order, with one comma between two.        *)
Before(a, b) ==
    \/ Len(a) < Len(b) /\ SubSeq(b, 1, Len(a)) = a
    \/ \E i \in 1..Min({Len(a), Len(b)}) :
          a[i] < b[i] /\ SubSeq(a, 1, i - 1) = SubSeq(b, 1, i - 1)

Canonical(list) ==
    \/ list = <<Close>>
    \/ /\ Len(list) % 2 = 0 /\ Len(list) \div 2 \in 1..MaxCaps
       /\ list[Len(list)] = Close
       /\ \A i \in 1..(Len(list) - 1) :
             IF i % 2 = 0 THEN list[i] = Comma ELSE list[i].kind = "name"
       /\ \A i \in 3..(Len(list) - 1) :
             i % 2 = 1 => Before(list[i - 2].text, list[i].text)

(* What was read, with the closing bracket *)
List == SubSeq(tokens, 1, cursor + 1)

Listed == {List[i].text : i \in {j \in DOMAIN List : List[j].kind = "name"}}

(* An accepted list asks for exactly the capabilities it names, and says   *)
(* that it names others if and only if it does: what the product is then   *)
(* asked to grant is what was signed.  And no list of the host's packaging *)
(* tool is refused, one of MaxCaps identifiers either.                     *)
RequestIsList ==
    /\ state = "accepted" =>
          /\ requested = Listed \cap Known
          /\ has_unknown <=> (Listed \ Known # {})
    /\ state = "rejected" =>
          \A n \in 1..Len(tokens) : ~Canonical(SubSeq(tokens, 1, n))

(* "拒绝 ... 非规范编码": a list in another than the canonical encoding is *)
(* refused (docs/operations/package-stream-checkpoint.md).                 *)
OnlyCanonical == state = "accepted" => Canonical(List)
=============================================================================
