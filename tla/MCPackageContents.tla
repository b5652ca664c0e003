------------------------- MODULE MCPackageContents -------------------------
(* What a package contains, for TLC: its integers (Numerals), its list of  *)
(* capabilities (CapabilityList) and its Wasm module (WasmAdmission).  The *)
(* three share no state, so a behaviour reads one of them.                 *)
(*                                                                         *)
(* Octets have two payload bits and words five: an integer has at most     *)
(* three octets, of which the last may hold one bit, as the fifth of the   *)
(* code may hold four.  Identifiers have one or two letters, and one of    *)
(* them extends another.  Modules are those around a good one: its         *)
(* imports, the indexes of its exports and its functions in all            *)
(* combinations, everything else one edit at a time.                       *)
EXTENDS Numerals, CapabilityList, WasmAdmission, SequencesExt

CONSTANT Parts    \* what is read in this instance

VARIABLE part     \* what is read in this behaviour

MCTexts == {<<1>>, <<1, 1>>, <<1, 2>>, <<2>>}
MCKnown == {<<1>>, <<1, 2>>}

Items(items) == [items |-> items, cut |-> FALSE, rest |-> FALSE]
Func(params, results) == [func |-> TRUE, params |-> params, results |-> results]
Import(field, index) == [module |-> "econtainer", field |-> field, kind |-> 0, index |-> index]
Export(name, kind, index) == [name |-> name, kind |-> kind, index |-> index]
Section(id, body) == [id |-> id, cut |-> FALSE, body |-> body]

Types == << Func(<<>>, <<"i32">>), Func(<<"i32", "i32">>, <<"i32">>), Func(<<>>, <<"i64">>),
            Func(<<"i32", "i32">>, <<"i64">>), Func(<<"i64">>, <<"i32">>) >>

Memory == [count |-> 1, flags |-> 1, min |-> 1, max |-> 2, cut |-> FALSE, rest |-> FALSE]

Built(imports, functions, exports, code) ==
    [magic |-> TRUE,
     sections |-> << Section(1, Items(Types)), Section(2, Items(imports)),
                     Section(3, Items(functions)), Section(5, Memory),
                     Section(7, Items(exports)), Section(10, Items(code)) >>]

Named(init, event, stop) ==
    << Export("econtainer_init", 0, init), Export("memory", 2, 0),
       Export("econtainer_on_event", 0, event), Export("econtainer_stop", 0, stop) >>

Bodies(n) == [i \in 1..n |-> [size |-> 2, ends |-> TRUE]]

Importable ==
    {Import("monotonic_ms", 2), Import("log", 1), Import("timer_start", 3),
     Import("timer_cancel", 4), Import("timer_cancel", 3), Import("log", 5)}

ImportLists == BoundedSeq(Importable, 2)

Combined ==
    {Built(i, f, Named(e[1], e[2], e[3]), Bodies(n)) :
        i \in ImportLists, f \in {<<0, 1, 0>>, <<0, 1, 0, 4>>, <<1, 0, 1>>},
        e \in {<<0, 1, 2>>, <<1, 2, 3>>, <<2, 3, 4>>, <<2, 3, 2>>, <<1, 3, 4>>}, n \in {3, 4}}

Plain == Built(<<Import("log", 1), Import("timer_start", 3)>>, <<0, 1, 0>>, Named(2, 3, 4), Bodies(3))

WithSections(s) == [Plain EXCEPT !.sections = s]
WithBody(k, b)  == [Plain EXCEPT !.sections[k].body = b]
At(k)           == Plain.sections[k].body

Inserted ==
    {WithSections(InsertAt(Plain.sections, k, s)) :
        k \in {1, 4, 7},
        s \in {Section(id, Items(<<>>)) : id \in {4, 6, 8, 9, 11, 12, 13}}
              \cup {Section(0, [Items(<<n>>) EXCEPT !.cut = c]) :
                       n \in {"name", "target_features"}, c \in BOOLEAN}}

Removed == {WithSections(RemoveAt(Plain.sections, k)) : k \in 1..6}

Trimmed ==
    {WithBody(k, [At(k) EXCEPT !.cut = TRUE]) : k \in 1..6}
    \cup {WithBody(k, [At(k) EXCEPT !.rest = TRUE]) : k \in 1..6}
    \cup {[Plain EXCEPT !.sections[k].cut = TRUE] : k \in 1..6}

Memories ==
    {WithBody(4, [Memory EXCEPT !.count = c, !.flags = f, !.min = a, !.max = b]) :
        c \in 1..2, f \in {0, 1, 3}, a \in 0..2, b \in 0..3}

OtherTypes ==
    {WithBody(1, Items(Append(Types, t))) :
        t \in {Func(<<"v128">>, <<>>), [Func(<<>>, <<>>) EXCEPT !.func = FALSE], Func(<<>>, <<>>)}}
    \cup {WithBody(1, [At(1) EXCEPT !.items[k].func = FALSE]) : k \in 1..5}

OtherImports ==
    {WithBody(2, Items(<<i>>)) :
        i \in {[Import("log", 1) EXCEPT !.module = "env"], Import("gpio", 1),
               [Import("log", 1) EXCEPT !.kind = 2]}}
    \cup {WithBody(2, Items([k \in 1..5 |-> Import("log", 1)]))}

OtherExports ==
    {WithBody(5, Items(Named(2, 3, 4) \o <<e>>)) :
        e \in {Export("_initialize", 0, 2), Export("extra", 0, 2)}}
    \cup {WithBody(5, [At(5) EXCEPT !.items[2] = e]) :
        e \in {Export("memory", 2, 1), Export("memory", 0, 0), Export("_initialize", 0, 2),
               Export("econtainer_init", 0, 2), Export("econtainer_init", 4, 2)}}

OtherCode ==
    {WithBody(6, [At(6) EXCEPT !.items[2] = c]) :
        c \in {[size |-> 1, ends |-> TRUE], [size |-> 2, ends |-> FALSE]}}

MCModules ==
    Combined \cup Inserted \cup Removed \cup Trimmed \cup Memories \cup OtherTypes
    \cup OtherImports \cup OtherExports \cup OtherCode
    \cup {[Plain EXCEPT !.magic = FALSE]}

Request == [abi |-> 1, classic |-> TRUE, unknown |-> FALSE,
            caps |-> {"log", "timer"}, pages |-> 2, stack |-> 1]

MCRequests ==
    {Request, [Request EXCEPT !.caps = Capabilities], [Request EXCEPT !.unknown = TRUE],
     [Request EXCEPT !.caps = {}, !.pages = 1]}

MCAuthorizations ==
    {[caps |-> c, pages |-> p, stack |-> 1] : c \in {Capabilities, {"log", "timer"}}, p \in {2, 1}}

Granted == [caps |-> Capabilities, pages |-> 2, stack |-> 1]
Limit   == [caps |-> Capabilities, pages |-> 2, log |-> 256, timers |-> 8, event |-> 16]

MCLimits ==
    {Limit, [Limit EXCEPT !.event = 15],
     [caps |-> Capabilities, pages |-> 1, log |-> 1, timers |-> 1, event |-> 16],
     [caps |-> {"log"}, pages |-> 2, log |-> 1, timers |-> 0, event |-> 1]}

MCInit ==
    /\ part \in Parts
    /\ \/ part = "module"
       \/ /\ part # "module"
          /\ module = Plain /\ request = Request
          /\ authorization = Granted /\ limits = Limit
    /\ Init
    /\ part # "integers" => input = <<>> /\ allow_zero = TRUE
    /\ NumeralsInit
    /\ part # "list" => tokens = <<>>
    /\ CapsInit

MCNext ==
    /\ \/ part = "integers" /\ NumeralsNext /\ UNCHANGED <<caps, vars>>
       \/ part = "list" /\ CapsNext /\ UNCHANGED <<numerals, vars>>
       \/ part = "module" /\ Next /\ UNCHANGED <<numerals, caps>>
    /\ UNCHANGED part

MCSpec == MCInit /\ [][MCNext]_<<part, numerals, caps, vars>>
=============================================================================
