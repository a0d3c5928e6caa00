---------------------------- MODULE SourceLoader ----------------------------
(***************************************************************************)
(* The source loader (src/source_loader.cpp): it turns an entry file and   *)
(* everything it imports, directly or not, into one program text.          *)
(*                                                                         *)
(* processModule walks the imports depth first.  A module other than the   *)
(* entry has its top-level names renamed to symbols that carry the         *)
(* module's number, and an import binds the importer's names to the        *)
(* symbols of the module it names.  emitModule then writes the modules     *)
(* after the modules they depend on.                                       *)
(*                                                                         *)
(* A module's text is abstracted to its top-level declarations and its     *)
(* imports; that a text is rewritten consistently is left out.             *)
(***************************************************************************)
EXTENDS Integers, Sequences, SequencesExt, FiniteSets

CONSTANTS
    Modules,   \* the files there are
    Entry,     \* the file the program starts from
    Programs,  \* [module -> [decls, stem, imports]]: what the files may hold
    Missing    \* the target of an import that no file answers

(* A program is a text for each file, with a list of imports.               *)
ASSUME LoaderAssumption ==
    /\ IsFiniteSet(Modules)
    /\ Entry \in Modules /\ Missing \notin Modules
    /\ \A p \in Programs, m \in Modules :
           /\ Len(p[m].imports) \in Nat /\ DOMAIN p[m].imports = 1 .. Len(p[m].imports)
           /\ \A i \in DOMAIN p[m].imports :
                  /\ p[m].imports[i].target \in Modules \union {Missing}
                  /\ p[m].imports[i].kind \in {"plain", "wild", "item", "space"}

VARIABLES
    program,   \* what the files hold
    stack,     \* the modules being processed, innermost first
    loaded,    \* [module -> record]: LoaderState::modules
    nextId,    \* LoaderState::nextModuleId
    writing,   \* the modules that emitModule is in, innermost first
    emitted,   \* the modules written so far
    phase      \* "load", "emit", "done", or why loading failed

vars == <<program, stack, loaded, nextId, writing, emitted, phase>>

Top == Head(stack)

Imports(m) == program[m].imports

Decls(m) == DOMAIN program[m].decls

-----------------------------------------------------------------------------
(* Exports and bindings. *)

Symbol(id, name) == [id |-> id, name |-> name]

(* Without a modifier anywhere everything is exported, with one only what  *)
(* says so; the entry exports nothing.                                     *)
UsesVisibility(m) == \E d \in Decls(m) : program[m].decls[d] # "implicit"

Exported(m) ==
    IF m = Entry THEN {}
    ELSE {d \in Decls(m) : UsesVisibility(m) => program[m].decls[d] = "export"}

Exports(m, id) == [d \in Exported(m) |-> Symbol(id, d)]

(* What one import binds in the importer: names, and namespaces. *)
BoundNames(i, exports) ==
    CASE i.kind \in {"plain", "wild"} -> exports
      [] i.kind = "item"  -> [n \in {i.alias} |-> exports[i.item]]
      [] i.kind = "space" -> <<>>

BoundSpaces(i, exports) ==
    CASE i.kind = "plain" -> [s \in {program[i.target].stem} |-> exports]
      [] i.kind = "space" -> [s \in {i.alias} |-> exports]
      [] i.kind \in {"wild", "item"} -> <<>>

(* appendImportAlias, appendNamespaceAlias: a name that is bound already    *)
(* may only be bound to the same thing again, and stays.                   *)
Extend(f, g) == [n \in DOMAIN f \union DOMAIN g |-> IF n \in DOMAIN f THEN f[n] ELSE g[n]]

Agree(f, g) == \A n \in DOMAIN f \intersect DOMAIN g : f[n] = g[n]

-----------------------------------------------------------------------------
(* processModule. *)

Fail(why) ==
    /\ phase' = why
    /\ UNCHANGED <<program, stack, loaded, nextId, writing, emitted>>

Frame(m, id) == [module |-> m, id |-> id, next |-> 1, deps |-> <<>>, names |-> <<>>, spaces |-> <<>>]

Active == {stack[i].module : i \in DOMAIN stack}

AtImport == phase = "load" /\ stack # <<>> /\ Top.next <= Len(Imports(Top.module))

Import == Imports(Top.module)[Top.next]

Unresolved == AtImport /\ Import.target = Missing /\ Fail("unresolved")

MutCycleOfOne == AtImport /\ Import.target = Top.module /\ Fail("cycle")

Cycle == AtImport /\ Import.target \in Active /\ Fail("cycle")

MutEnterNumbersByLoaded ==
    /\ AtImport
    /\ Import.target \in Modules \ (Active \union DOMAIN loaded)
    /\ stack' = <<Frame(Import.target, Cardinality(DOMAIN loaded) + 2)>> \o stack
    /\ nextId' = nextId + 1
    /\ UNCHANGED <<program, loaded, writing, emitted, phase>>

(* An imported module that is not loaded yet is processed first; its       *)
(* number is taken before those of its own imports.                        *)
Enter ==
    /\ AtImport
    /\ Import.target \in Modules \ (Active \union DOMAIN loaded)
    /\ stack' = <<Frame(Import.target, nextId)>> \o stack
    /\ nextId' = nextId + 1
    /\ UNCHANGED <<program, loaded, writing, emitted, phase>>

ItemMissing ==
    /\ AtImport
    /\ Import.target \in DOMAIN loaded
    /\ Import.kind = "item" /\ Import.item \notin DOMAIN loaded[Import.target].exports
    /\ Fail("no export")

(* A module that is loaded is bound, whoever loaded it. *)
Bind ==
    LET exports == loaded[Import.target].exports
        names   == BoundNames(Import, exports)
        spaces  == BoundSpaces(Import, exports)
    IN  /\ AtImport
        /\ Import.target \in DOMAIN loaded
        /\ Import.kind = "item" => Import.item \in DOMAIN exports
        /\ IF Agree(names, Top.names) /\ Agree(spaces, Top.spaces)
           THEN /\ stack' = <<[Top EXCEPT !.next   = @ + 1,
                                          !.deps   = IF Contains(@, Import.target) THEN @
                                                     ELSE Append(@, Import.target),
                                          !.names  = Extend(@, names),
                                          !.spaces = Extend(@, spaces)]>> \o Tail(stack)
                /\ UNCHANGED <<program, loaded, nextId, writing, emitted, phase>>
           ELSE Fail("collision")

Finish ==
    LET m == Top.module
    IN  /\ phase = "load" /\ stack # <<>>
        /\ Top.next > Len(Imports(m))
        /\ IF Decls(m) \intersect DOMAIN Top.names # {} THEN Fail("conflict")
           ELSE /\ loaded' = Extend(loaded, [k \in {m} |->
                                [id |-> Top.id, deps |-> Top.deps, names |-> Top.names,
                                 exports |-> Exports(m, Top.id)]])
                /\ stack' = Tail(stack)
                /\ IF Len(stack) = 1
                   THEN phase' = "emit" /\ writing' = <<[module |-> m, next |-> 1]>>
                   ELSE UNCHANGED <<phase, writing>>
                /\ UNCHANGED <<program, nextId, emitted>>

-----------------------------------------------------------------------------
(* emitModule. *)

AtModule == phase = "emit" /\ writing # <<>>

Writing == Head(writing).module

Written == Contains(emitted, Writing)

Deps(m) == loaded[m].deps

Skip ==
    /\ AtModule /\ Written
    /\ writing' = Tail(writing)
    /\ UNCHANGED <<program, stack, loaded, nextId, emitted, phase>>

Descend ==
    LET i == Head(writing).next
    IN  /\ AtModule /\ ~Written /\ i <= Len(Deps(Writing))
        /\ writing' = <<[module |-> Deps(Writing)[i], next |-> 1], [module |-> Writing, next |-> i + 1]>>
                      \o Tail(writing)
        /\ UNCHANGED <<program, stack, loaded, nextId, emitted, phase>>

(* Written before its dependencies, which then are not looked at. *)
MutWriteFirst ==
    /\ AtModule /\ ~Written
    /\ emitted' = Append(emitted, Writing)
    /\ writing' = [i \in 1 .. Len(Deps(Writing)) |-> [module |-> Deps(Writing)[i], next |-> 1]]
                  \o Tail(writing)
    /\ phase' = IF Len(writing) = 1 THEN "done" ELSE phase
    /\ UNCHANGED <<program, stack, loaded, nextId>>

Write ==
    /\ AtModule /\ ~Written /\ Head(writing).next > Len(Deps(Writing))
    /\ emitted' = Append(emitted, Writing)
    /\ writing' = Tail(writing)
    /\ phase' = IF Len(writing) = 1 THEN "done" ELSE phase
    /\ UNCHANGED <<program, stack, loaded, nextId>>

-----------------------------------------------------------------------------
Init ==
    /\ program \in Programs
    /\ stack = <<Frame(Entry, 1)>>
    /\ loaded = <<>>
    /\ nextId = 2
    /\ writing = <<>>
    /\ emitted = <<>>
    /\ phase = "load"

Next ==
    \/ Unresolved \/ Cycle \/ Enter \/ ItemMissing \/ Bind \/ Finish
    \/ Skip \/ Descend \/ Write

(* The loader is called and runs to its end on one thread. *)
Spec == Init /\ [][Next]_vars /\ WF_vars(Next)

-----------------------------------------------------------------------------
TypeOK ==
    /\ \A i \in DOMAIN stack : stack[i].module \in Modules /\ stack[i].id < nextId
    /\ DOMAIN loaded \subseteq Modules
    /\ nextId <= Cardinality(Modules) + 1
    /\ \A i \in DOMAIN emitted : emitted[i] \in DOMAIN loaded
    /\ phase \in {"load", "emit", "done", "unresolved", "cycle", "no export", "collision", "conflict"}

ImportsOf(m) == {Imports(m)[i].target : i \in DOMAIN Imports(m)} \ {Missing}

Closed(S) == \A k \in S : ImportsOf(k) \subseteq S

(* The modules reachable from m by one import or more. *)
Below(m) ==
    {k \in Modules : \A S \in SUBSET Modules : ImportsOf(m) \subseteq S /\ Closed(S) => k \in S}

Reachable == {Entry} \union Below(Entry)

(* "Circular import detected" is said of programs with a cycle among what  *)
(* the entry reaches, and a program with such a cycle is never accepted,   *)
(* in whatever order the imports are met and cached (processModule).       *)
CyclesAreFound ==
    /\ phase = "cycle" => \E m \in Reachable : m \in Below(m)
    /\ phase \in {"emit", "done"} => \A m \in Reachable : m \notin Below(m)

(* The program text holds every module the entry reaches once, each after  *)
(* all it imports, also where modules share a dependency (emitModule).     *)
EmittedInOrder ==
    phase = "done" =>
        /\ ToSet(emitted) = Reachable
        /\ IsInjective(emitted)
        /\ \A i, j \in DOMAIN emitted : emitted[j] \in ImportsOf(emitted[i]) => j < i

(* What of a program is loaded is decided right, and written in order.     *)
LoadedInOrder == CyclesAreFound /\ EmittedInOrder

(* Every name that an emitted module takes from another is bound to a      *)
(* symbol that exactly one module defines, which exports it and stands     *)
(* before the importer (processModule, makeInternalSymbol).                *)
DefinesBefore(k, i, s) ==
    /\ loaded[emitted[k]].id = s.id
    /\ s.name \in Decls(emitted[k])
    /\ UsesVisibility(emitted[k]) => program[emitted[k]].decls[s.name] = "export"
    /\ k < i

NamesAreBound ==
    phase = "done" =>
        \A i \in DOMAIN emitted : \A n \in DOMAIN loaded[emitted[i]].names :
            LET s == loaded[emitted[i]].names[n]
            IN  /\ \E k \in DOMAIN emitted : DefinesBefore(k, i, s)
                /\ \A k, l \in DOMAIN emitted :
                       loaded[emitted[k]].id = s.id /\ loaded[emitted[l]].id = s.id => k = l

(* Loading ends, with a program or with an error. *)
Terminates == <>(phase \notin {"load", "emit"})
=============================================================================
