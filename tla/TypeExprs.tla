----------------------------- MODULE TypeExprs ------------------------------
(***************************************************************************)
(* TypeExpr (src/type_system.cpp): the syntax tree of a type, with its     *)
(* name, arguments, variants if it is a union, and whether it may be nil;  *)
(* and values, of which types tell apart the kind, the elements, and the   *)
(* names of the class and its superclasses.                                *)
(***************************************************************************)
Plain(n) == [name |-> n, args |-> <<>>, nullable |-> FALSE, variants |-> <<>>]

ArrayOf(type) == [Plain("Array") EXCEPT !.args = <<type>>]

OrNil(type) == [type EXCEPT !.nullable = TRUE]

Union(types) == [Plain("") EXCEPT !.variants = types]

AnyType == Plain("Any")

Data(kind) == [kind |-> kind, elements |-> <<>>, chain |-> <<>>]

ArrayWith(values) == [Data("Array") EXCEPT !.elements = values]
=============================================================================
