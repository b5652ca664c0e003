-------------------------- MODULE MCPackageVerify --------------------------
(* Packages for TLC: good ones of one, three and four units of Wasm, and   *)
(* every way of being malformed that a stage of the verifier looks for.    *)
EXTENDS PackageVerify

(* A module begins with "h"; "x" is what the inspection refuses. *)
MCWasmUnits == {"h", "a", "x"}
MCMagic     == {"h"}
MCClean     == {"h", "a"}
MCClaims    == {[abi |-> 1, schema |-> 1]}

ManifestOf(wasm) ==
    [canonical |-> TRUE, size |-> Len(wasm), wasm |-> wasm, abi |-> 1, schema |-> 1,
     product |-> TRUE, limits |-> TRUE, granted |-> TRUE]

Times(n, u) == [i \in 1..n |-> u]

(* The archive of the three members, padded with zeros to n units. *)
Archive(m, s, wasm, n) ==
    LET Member(name, units) ==
            Times(Block, Header(name, Len(units))) \o units
                \o Times((Block - (Len(units) % Block)) % Block, Zero)
        members == Member("manifest.json", <<ManifestUnit(m)>>)
                \o Member("signature.bin", <<SignatureUnit(s)>>)
                \o Member("app.wasm", [i \in DOMAIN wasm |-> Wasm(wasm[i])])
    IN  members \o Times(n - Len(members), Zero)

Signed(m, n)   == Archive(m, m, m.wasm, n)
Good           == Signed(ManifestOf(<<"h", "a", "a">>), 20)
With(s, i, u)  == [s EXCEPT ![i] = u]

GoodPackages == {Signed(ManifestOf(<<"h">>), 16), Good,
                 Signed(ManifestOf(<<"h", "a", "a", "a">>), 20)}

(* Signed by the product's own key, and yet to be refused. *)
RefusedPackages ==
    {Signed(ManifestOf(<<"h", "a", "x">>), 20),
     Signed(ManifestOf(<<"a", "h">>), 16),
     Signed([ManifestOf(<<"h">>) EXCEPT !.abi = 2], 16),
     Signed([ManifestOf(<<"h">>) EXCEPT !.schema = 2], 16),
     Signed([ManifestOf(<<"h">>) EXCEPT !.product = FALSE], 16),
     Signed([ManifestOf(<<"h">>) EXCEPT !.limits = FALSE], 16),
     Signed([ManifestOf(<<"h">>) EXCEPT !.granted = FALSE], 16),
     Signed([ManifestOf(<<"h">>) EXCEPT !.canonical = FALSE], 16),
     Signed([ManifestOf(<<"h">>) EXCEPT !.size = 2], 16),
     Signed(ManifestOf(<<"h">>), 20), Signed(ManifestOf(<<"h", "a">>), 15),
     Signed(ManifestOf(<<"h">>), 24), Signed(ManifestOf(<<"h", "a", "a", "a", "a">>), 20)}

(* Put together by someone else, or damaged before it was hashed. *)
ForgedPackages ==
    {Archive(ManifestOf(<<"h">>), ManifestOf(<<"a">>), <<"h">>, 16),
     Archive(ManifestOf(<<"h", "a">>), ManifestOf(<<"h", "a">>), <<"h", "x">>, 16)}
    \cup {With(Good, i, Junk) : i \in {1, 3, 4, 6, 7, 8, 10, 12, 14, 20}}
    \cup {With(With(Good, 1, Header("manifest.json", n)), 2, Header("manifest.json", n)) : n \in {0, 2, 9}}
    \cup {With(With(Good, 5, Header("signature.bin", n)), 6, Header("signature.bin", n)) : n \in {0, 2}}
    \cup {SubSeq(Good, 1, 16), SubSeq(Good, 1, 4), <<>>}

OneGood     == {Good}
AllContents == GoodPackages \cup RefusedPackages \cup ForgedPackages
=============================================================================
