----------------------------- MODULE MCFrontEnd -----------------------------
(***************************************************************************)
(* Two families of programs of four files, f0 being the entry.  In the     *)
(* first the entry imports two files, two files import up to two, itself   *)
(* and the entry included, and the last may import back or something that  *)
(* is not there, with nothing but a namespace for each: shapes of graphs.  *)
(* In the second the graph is a diamond, and the imports are of every kind *)
(* and the files declare names that may be private or clash.               *)
(*                                                                         *)
(* The classes of Types have a contract and a subclass, are declared again *)
(* without the one, and extended by a later program.                       *)
(***************************************************************************)
EXTENDS FrontEnd, TypeExprs

CONSTANTS f0, f1, f2, f3, main, worker

MCModules == {f0, f1, f2, f3}

Space(m) == [target |-> m, kind |-> "space", item |-> "f", alias |-> m]

UpToTwo(S) == {<<>>} \union {<<x>> : x \in S} \union {<<x, y>> : x, y \in S}

Nothing == [n \in {} |-> "implicit"]

File(decls, stem, imports) == [decls |-> decls, stem |-> stem, imports |-> imports]

Spaces(targets) == File(Nothing, "s", [i \in DOMAIN targets |-> Space(targets[i])])

Graphs ==
    {f0 :> Spaces(p) @@ f1 :> Spaces(q) @@ f2 :> Spaces(r) @@ f3 :> Spaces(s) :
        p \in {<<f1, f2>>, <<f1, f3>>, <<f2, f1>>, <<f3, f1>>}, q \in UpToTwo({f0, f2, f3}),
        r \in UpToTwo({f1, f2, f3}), s \in UpToTwo({f1, Missing}) \ {<<Missing, Missing>>}}

Kinds == {"plain", "space", "wild", "item"}

Of(m, kind, alias) == [target |-> m, kind |-> kind, item |-> "f", alias |-> alias]

Diamonds ==
    {f0 :> File("main" :> "implicit", "e", <<Of(f1, k1, "x"), Of(f2, k2, y)>>)
     @@ f1 :> File("g" :> "implicit", s, <<Of(f3, k3, "f")>>)
     @@ f2 :> File(d :> "implicit", s, <<Of(f3, k4, "f")>>)
     @@ f3 :> File("f" :> v @@ "p" :> w, "c", <<>>) :
        k1 \in Kinds \ {"item"}, k2 \in Kinds, k3 \in Kinds, k4 \in Kinds, y \in {"x", "y"},
        s \in {"s", "t"}, d \in {"f", "g"}, v \in {"implicit", "export"}, w \in {"implicit", "private"}}

MCPrograms == Graphs \union Diamonds

(* The program that is compiled. *)
MCCompiled ==
    {f0 :> Spaces(<<f1, f2>>) @@ f1 :> Spaces(<<f3>>) @@ f2 :> Spaces(<<f3>>) @@ f3 :> Spaces(<<>>)}

MCThreads == {main, worker}

Class(n, super, contracts) == [name |-> n, super |-> super, contracts |-> contracts]

MCClassPrograms ==
    {<<>>, <<Class("A", "", {"C"}), Class("B", "A", {})>>, <<Class("A", "", {})>>,
     <<Class("B", "A", {"D"})>>}

int == Plain("int")
String == Plain("String")
Number == Plain("Number")
T == Plain("T")

OrNilOf(S) == S \union {OrNil(s) : s \in S}

MCAnnotations ==
    OrNilOf({int, Number, ArrayOf(int)})
    \union {String, Plain("Array"), ArrayOf(String), ArrayOf(ArrayOf(int)),
            ArrayOf(OrNil(int)), Union(<<int, String>>),
            Union(<<int, Plain("Nil")>>), Union(<<OrNil(String), int>>)}

nil == Data("Nil")
one == Data("int")
half == Data("float")
text0 == Data("String")

MCDataValues ==
    {nil, one, half, text0}
    \union {ArrayWith(v) : v \in {<<>>, <<one>>, <<text0>>, <<one, text0>>, <<nil>>, <<ArrayWith(<<one>>)>>,
                              <<ArrayWith(<<one>>), ArrayWith(<<text0>>)>>}}

MCGeneric ==
    {<<T>>, <<T, T>>, <<ArrayOf(T), T>>, <<OrNil(T), T>>,
     <<ArrayOf(ArrayOf(T)), T>>, <<Union(<<T, Plain("Nil")>>)>>}
=============================================================================
