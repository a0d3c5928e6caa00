------------------------------ MODULE Packages ------------------------------
(***************************************************************************)
(* The package manager (src/package_manager.cpp, driven by                 *)
(* src/main.cpp): a registry that publishers fill, and one project whose   *)
(* owner locks, installs, updates and removes dependencies.                *)
(*                                                                         *)
(* Both are directories of files.  Publishing copies file by file and then *)
(* writes the release's metadata; a project command writes the manifest,   *)
(* the lock file, the installed trees and uranium.dep one after another.   *)
(* Any step may fail, or its process be killed, and leaves what it had     *)
(* done.  Registry and project are used by different processes: a command  *)
(* sees whatever a publisher has copied so far.                            *)
(*                                                                         *)
(* A tree is the set of the files it holds, each whole or cut short: two   *)
(* publishers of one version publish the same files, and the second may    *)
(* truncate what the first has copied.  The hash of a tree (fnv64 over the *)
(* names and contents of its files) is the tree itself, as it was read,    *)
(* file by file; the metadata file of another publisher, which the hash    *)
(* would cover, is left out of it.                                         *)
(* Reading the registry to build a lock, and copying one release into the  *)
(* project, are one step each.                                             *)
(***************************************************************************)
EXTENDS Semver, Sequences, SequencesExt, FiniteSets

CONSTANTS
    Releases,    \* the releases there are or will be, and what each depends
                 \* on: [locator -> [names -> requests]]
    Published,   \* the releases that are complete in the registry at first
    Manifests,   \* what the project's manifest may depend on
    Publishers,  \* who may publish
    MaxCommands, \* bound on the commands of a run
    Nil,         \* no such file
    Broken       \* a file cut short: it does not parse

Locators == DOMAIN Releases

Names == {l.name : l \in Locators}

At(n, v) == [name |-> n, version |-> v]

(* The file with the manifest, uranium.pkg, and the source that is the     *)
(* package's entry; uranium.lock is never copied and registry-entry.json   *)
(* is kept apart, in meta.                                                 *)
Files == {"manifest", "source"}

(* What a tree holds of a file. *)
Whole(f) == <<f, "whole">>

CutShort(f) == <<f, "cut">>

Contents == Files \X {"whole", "cut"}

WholeTree == {Whole(f) : f \in Files}

ASSUME FewEnough == MaxCommands \in Nat /\ Published \subseteq DOMAIN Releases

(* What parses as dependencies: requests for names. *)
Dependencies(d) == d = [n \in DOMAIN d |-> d[n]] /\ \A n \in DOMAIN d : d[n] \in Request

ASSUME RegistryAssumption ==
    /\ IsFiniteSet(Locators)
    /\ \A l \in Locators : l = At(l.name, l.version) /\ l.version \in Version
    /\ \A l \in Locators : Dependencies(Releases[l])
    /\ \A d \in Manifests : Dependencies(d)

Versions == {l.version : l \in Locators}

(* The names that manifests ask for; the registry need not have them. *)
Asked == UNION {DOMAIN d : d \in Manifests}

(* What a lock file that parses may hold, when it pins the names S for the *)
(* project and lists the releases L.                                       *)
Pins == UNION {[S -> Versions] : S \in SUBSET Names}

Locks(S, L) == [direct : [S -> Versions], packages : [L -> [deps : Pins, integrity : SUBSET Contents]]]

ASSUME NilAssumption ==
    /\ Nil # Broken
    /\ \A S \in SUBSET Contents : S \notin {Nil, Broken}
    /\ \A S \in SUBSET Names, L \in SUBSET Locators : Nil \notin Locks(S, L) /\ Broken \notin Locks(S, L)
    /\ Broken \notin Manifests /\ Nil \notin Versions \union Locators

VARIABLES
    tree,       \* [Locators -> what the registry's directory holds, or Nil]
    meta,       \* [Locators -> the integrity in registry-entry.json, Broken or Nil]
    publisher,  \* [Publishers -> [pc, release, todo, file, overrun, hash]]
    contested,  \* history: the releases that two publishers were at work on
                \* at once
    abandoned,  \* history: the releases that a publisher has left half copied
    manifest,   \* the project's dependencies, or Broken
    lock,       \* [direct, packages], Broken or Nil
    installed,  \* [paths -> [files, lock]]: the trees under .uranium/packages
    depFile,    \* the releases that uranium.dep lists
    pc,         \* what the command does next
    command,    \* the command: its kind, and the name it removes
    agenda,     \* what is left to install, innermost first
    outcome,    \* how the last command ended
    commands    \* the number of commands so far

registryVars == <<tree, meta, publisher, contested, abandoned>>
projectVars == <<manifest, lock, installed, depFile, pc, command, agenda, outcome, commands>>
vars == <<tree, meta, publisher, contested, abandoned, manifest, lock, installed, depFile, pc, command,
          agenda, outcome, commands>>

-----------------------------------------------------------------------------
(* Publishing: publishPackageToRegistry. *)

Resting == [pc |-> "idle", release |-> Nil, todo |-> {}, file |-> Nil, overrun |-> FALSE, hash |-> {}]

Starting(l) ==
    [pc |-> "copy", release |-> l, todo |-> Files, file |-> Nil, overrun |-> FALSE, hash |-> {}]

(* A directory that holds nothing does not keep a version from being       *)
(* published.                                                              *)
BeginPublish(p, l) ==
    /\ publisher[p] = Resting
    /\ tree[l] \in {Nil, {}}
    /\ tree' = [tree EXCEPT ![l] = {}]
    /\ publisher' = [publisher EXCEPT ![p] = Starting(l)]
    /\ contested' = contested \union {k \in {l} : \E q \in Publishers : publisher[q].release = k}
    /\ UNCHANGED <<meta, abandoned, projectVars>>

Writes(q, l, f) == publisher[q].pc = "fill" /\ publisher[q].release = l /\ publisher[q].file = f

(* copyPackageTree: the files are copied in whatever order the directory   *)
(* lists them.  Opening one truncates it, whoever has written it or is     *)
(* about to (overwrite_existing): what is left of the writing of others    *)
(* need not make it whole.                                                 *)
OpenFile(p, f) ==
    LET l == publisher[p].release
    IN  /\ publisher[p].pc = "copy"
        /\ f \in publisher[p].todo
        /\ tree' = [tree EXCEPT ![l] = (@ \ {Whole(f)}) \union {CutShort(f)}]
        /\ publisher' = [q \in Publishers |->
              IF q = p
              THEN [publisher[p] EXCEPT !.pc = "fill", !.todo = @ \ {f}, !.file = f, !.overrun = FALSE]
              ELSE [publisher[q] EXCEPT !.overrun = @ \/ Writes(q, l, f)]]
        /\ UNCHANGED <<meta, contested, abandoned, projectVars>>

Filled(t, f) == (t \ {CutShort(f)}) \union {Whole(f)}

(* Mutant: the copying ends with the first file.                           *)
MutCopiedOne(r) == [r EXCEPT !.pc = "hash", !.todo = Files, !.file = Nil]

Copied(r) ==
    IF r.todo = {} THEN [r EXCEPT !.pc = "hash", !.todo = Files, !.file = Nil]
    ELSE [r EXCEPT !.pc = "copy", !.file = Nil]

(* The file is written; if it was truncated meanwhile, it may be whole     *)
(* now or wait for the one who did.                                        *)
FillFile(p) ==
    LET l == publisher[p].release
    IN  /\ publisher[p].pc = "fill"
        /\ \/ tree' = [tree EXCEPT ![l] = Filled(@, publisher[p].file)]
           \/ publisher[p].overrun /\ tree' = tree
        /\ publisher' = [publisher EXCEPT ![p] = Copied(@)]
        /\ UNCHANGED <<meta, contested, abandoned, projectVars>>

Hashed(r, f, t) ==
    [r EXCEPT !.pc = IF r.todo = {f} THEN "write" ELSE "hash",
              !.todo = @ \ {f}, !.hash = @ \union {c \in t : c[1] = f}]

(* computePackageIntegrity: one file. *)
HashFile(p, f) ==
    /\ publisher[p].pc = "hash"
    /\ f \in publisher[p].todo
    /\ publisher' = [publisher EXCEPT ![p] = Hashed(@, f, tree[@.release])]
    /\ UNCHANGED <<tree, meta, contested, abandoned, projectVars>>

WriteMetadata(p) ==
    /\ publisher[p].pc = "write"
    /\ meta' = [meta EXCEPT ![publisher[p].release] = publisher[p].hash]
    /\ publisher' = [publisher EXCEPT ![p] = Resting]
    /\ UNCHANGED <<tree, contested, abandoned, projectVars>>

Copying(p) == publisher[p].pc \in {"copy", "fill"}

(* A step fails or the process is killed: a file that was being written    *)
(* stays cut short, and so may the metadata.                               *)
PublisherStops(p) ==
    /\ publisher[p] # Resting
    /\ \/ meta' = meta
       \/ publisher[p].pc = "write" /\ meta' = [meta EXCEPT ![publisher[p].release] = Broken]
    /\ publisher' = [publisher EXCEPT ![p] = Resting]
    /\ abandoned' = abandoned \union {k \in {publisher[p].release} : Copying(p)}
    /\ UNCHANGED <<tree, contested, projectVars>>

-----------------------------------------------------------------------------
(* Resolving: what the registry offers right now. *)

Candidates(n, r) ==
    {v \in {l.version : l \in {k \in Locators : k.name = n /\ tree[k] # Nil}} : Matches(v, r)}

(* resolveRegistryDependencyVersion: the newest version whose directory    *)
(* exists, however far its publisher has got.                              *)
Resolve(n, r) == IF Candidates(n, r) = {} THEN Nil ELSE Newest(Candidates(n, r))

ResolveAll(deps) == [n \in DOMAIN deps |-> Resolve(n, deps[n])]

LocatorsOf(versions) == {At(n, versions[n]) : n \in DOMAIN versions}

(* loadRegistryPackageManifest; a manifest that is cut short does not      *)
(* parse.                                                                  *)
Loadable(l) == l \in Locators /\ tree[l] # Nil /\ Whole("manifest") \in tree[l]

Needs(l) == IF Loadable(l) THEN LocatorsOf(ResolveAll(Releases[l])) ELSE {}

(* Everything that a set of releases depends on, itself included. *)
Closure(S) ==
    LET step[n \in Nat] == IF n = 0 THEN S
                           ELSE step[n - 1] \union UNION {Needs(l) : l \in step[n - 1]}
    IN  step[Cardinality(Locators)]

(* buildPackageLockForSource: the recursion reaches every dependency and   *)
(* gives up at one that does not resolve or load, whose metadata does not  *)
(* parse, or that it is in the middle of.                                  *)
Lockable(deps) ==
    \A l \in Closure(LocatorsOf(ResolveAll(deps))) :
        /\ Loadable(l)
        /\ meta[l] # Broken
        /\ l \notin Closure(Needs(l))

Integrity(l) == IF meta[l] = Nil THEN tree[l] ELSE meta[l]

LockEntry(l) == [deps |-> ResolveAll(Releases[l]), integrity |-> Integrity(l)]

LockFor(deps) ==
    [direct   |-> ResolveAll(deps),
     packages |-> [l \in Closure(LocatorsOf(ResolveAll(deps))) |-> LockEntry(l)]]

-----------------------------------------------------------------------------
(* The project's commands. *)

Idle == [kind |-> "none", name |-> Nil]

Locked == lock \notin {Nil, Broken}

(* What a command that ends leaves behind. *)
Ends(how) ==
    /\ pc' = "idle"
    /\ command' = Idle
    /\ agenda' = <<>>
    /\ outcome' = how

Goes(where) == pc' = where /\ UNCHANGED <<command, outcome>>

(* The owner edits uranium.pkg between two commands. *)
EditManifest ==
    /\ pc = "idle"
    /\ commands < MaxCommands
    /\ \E m \in Manifests \ {manifest} : manifest' = m
    /\ UNCHANGED <<registryVars, lock, installed, depFile, pc, command, agenda, outcome, commands>>

Begin(kind, n, where) ==
    /\ pc = "idle"
    /\ commands < MaxCommands
    /\ commands' = commands + 1
    /\ pc' = where
    /\ command' = [kind |-> kind, name |-> n]
    /\ outcome' = "running"
    /\ UNCHANGED <<registryVars, manifest, lock, installed, depFile, agenda>>

BeginLock == Begin("lock", Nil, "pin")

(* installPackageDependencies: a lock file that is there is used as it is; *)
(* one that does not parse ends the command.                               *)
BeginInstall ==
    Begin("install", Nil, IF lock = Nil THEN "pin" ELSE IF Locked THEN "clear" ELSE "stop")

(* updatePackageDependencies does not look at the lock that is there. *)
BeginUpdate == Begin("update", Nil, "pin")

BeginRemove(n) == manifest # Broken /\ n \in DOMAIN manifest /\ Begin("remove", n, "unlist")

(* removePackageDependency: the manifest first, then an update. *)
Unlist ==
    /\ pc = "unlist"
    /\ manifest' = [n \in DOMAIN manifest \ {command.name} |-> manifest[n]]
    /\ Goes("pin")
    /\ UNCHANGED <<registryVars, lock, installed, depFile, agenda, commands>>

(* generatePackageLockData and writePackageLockData. *)
Pin ==
    /\ pc = "pin"
    /\ manifest # Broken /\ Lockable(manifest)
    /\ lock' = LockFor(manifest)
    /\ IF command.kind = "lock" THEN Ends("locked") ELSE Goes("clear") /\ agenda' = agenda
    /\ UNCHANGED <<registryVars, manifest, installed, depFile, commands>>

Tasks(step, paths) == [i \in DOMAIN paths |-> [step |-> step, path |-> paths[i]]]

(* One task for each release below a path; the names are sorted in the     *)
(* code, and stand in one fixed order here.                                *)
Below(path, versions) ==
    Tasks("place", SetToSeq({Append(path, l) : l \in LocatorsOf(versions)}))

(* installPackageDependenciesFromLockData: what is installed goes first. *)
Clear ==
    /\ pc = "clear"
    /\ installed' = <<>>
    /\ agenda' = Below(<<>>, lock.direct)
    /\ Goes("place")
    /\ UNCHANGED <<registryVars, manifest, lock, depFile, commands>>

Placed(path, files, itsLock) ==
    [p \in DOMAIN installed \union {path} |->
        IF p = path THEN [files |-> files, lock |-> itsLock] ELSE installed[p]]

(* A release that is being installed already, that the lock does not list  *)
(* or that the registry does not have ends the command.                    *)
Installable(path) ==
    /\ Last(path) \notin ToSet(Front(path))
    /\ Last(path) \in DOMAIN lock.packages
    /\ Loadable(Last(path))

MutPlaceWithoutNested ==
    LET path == Head(agenda).path
    IN  /\ pc = "place"
        /\ agenda # <<>> /\ Head(agenda).step = "place"
        /\ Installable(path)
        /\ installed' = Placed(path, tree[Last(path)], Nil)
        /\ agenda' = Tasks("seal", <<path>>) \o Tail(agenda)
        /\ UNCHANGED <<registryVars, manifest, lock, depFile, pc, command, outcome, commands>>

(* installLockedDependencyGraph, on the way down.  The integrity that the  *)
(* lock records is compared with itself, so there is no test of it here.   *)
Place ==
    LET path == Head(agenda).path
    IN  /\ pc = "place"
        /\ agenda # <<>> /\ Head(agenda).step = "place"
        /\ Installable(path)
        /\ installed' = Placed(path, tree[Last(path)], Nil)
        /\ agenda' = Below(path, lock.packages[Last(path)].deps)
                     \o Tasks("seal", <<path>>) \o Tail(agenda)
        /\ UNCHANGED <<registryVars, manifest, lock, depFile, pc, command, outcome, commands>>

(* ... and on the way up: the package gets a lock file of its own. *)
Seal ==
    LET path == Head(agenda).path
    IN  /\ pc = "place"
        /\ agenda # <<>> /\ Head(agenda).step = "seal"
        /\ installed' = [installed EXCEPT ![path].lock = lock.packages[Last(path)].deps]
        /\ agenda' = Tail(agenda)
        /\ UNCHANGED <<registryVars, manifest, lock, depFile, pc, command, outcome, commands>>

(* Only an install goes on to write uranium.dep; that it cannot be opened  *)
(* is not an error.                                                        *)
AllPlaced ==
    /\ pc = "place" /\ agenda = <<>>
    /\ IF command.kind = "install" THEN Goes("dep") /\ agenda' = agenda ELSE Ends("installed")
    /\ UNCHANGED <<registryVars, manifest, lock, installed, depFile, commands>>

WriteDepFile ==
    /\ pc = "dep"
    /\ depFile' \in {depFile, DOMAIN lock.packages}
    /\ Ends("installed")
    /\ UNCHANGED <<registryVars, manifest, lock, installed, commands>>

(* What a copy of the tree t that stops may have left. *)
Partial(t) ==
    {some \union cut : some \in SUBSET t, cut \in {{}} \union {{CutShort(f)} : f \in Files}}

(* A step fails, or the process is killed in the middle of it: the command *)
(* ends there, and the file that was being written is cut short, the tree  *)
(* that was being removed or copied is incomplete.                         *)
CommandStops ==
    /\ pc # "idle"
    /\ Ends("failed")
    /\ \/ UNCHANGED <<manifest, lock, installed, depFile>>
       \/ /\ pc = "unlist" /\ manifest' = Broken
          /\ UNCHANGED <<lock, installed, depFile>>
       \/ /\ pc = "pin" /\ manifest # Broken /\ Lockable(manifest) /\ lock' = Broken
          /\ UNCHANGED <<manifest, installed, depFile>>
       \/ /\ pc = "clear"
          /\ \E left \in SUBSET DOMAIN installed : installed' = [p \in left |-> installed[p]]
          /\ UNCHANGED <<manifest, lock, depFile>>
       \/ /\ pc = "place" /\ agenda # <<>> /\ Head(agenda).step = "place"
          /\ Installable(Head(agenda).path)
          /\ LET path == Head(agenda).path
                 t    == tree[Last(path)]
             IN  \E files \in Partial(t) : installed' = Placed(path, files, Nil)
          /\ UNCHANGED <<manifest, lock, depFile>>
       \/ /\ pc = "place" /\ agenda # <<>> /\ Head(agenda).step = "seal"
          /\ installed' = [installed EXCEPT ![Head(agenda).path].lock = Broken]
          /\ UNCHANGED <<manifest, lock, depFile>>
       \/ /\ pc = "dep"
          /\ \E some \in SUBSET DOMAIN lock.packages : depFile' = some
          /\ UNCHANGED <<manifest, lock, installed>>
    /\ UNCHANGED <<registryVars, commands>>

-----------------------------------------------------------------------------
Init ==
    /\ tree = [l \in Locators |-> IF l \in Published THEN WholeTree ELSE Nil]
    /\ meta = tree
    /\ publisher = [p \in Publishers |-> Resting]
    /\ contested = {} /\ abandoned = {}
    /\ manifest \in Manifests
    /\ lock = Nil
    /\ installed = <<>>
    /\ depFile = {}
    /\ pc = "idle"
    /\ command = Idle
    /\ agenda = <<>>
    /\ outcome = "none"
    /\ commands = 0

Publishing ==
    \E p \in Publishers :
        \/ \E l \in Locators : BeginPublish(p, l)
        \/ \E f \in Files : OpenFile(p, f) \/ HashFile(p, f)
        \/ FillFile(p)
        \/ WriteMetadata(p)
        \/ PublisherStops(p)

Next ==
    \/ Publishing
    \/ EditManifest
    \/ BeginLock \/ BeginInstall \/ BeginUpdate \/ \E n \in Asked : BeginRemove(n)
    \/ Unlist \/ Pin \/ Clear \/ Place \/ Seal \/ AllPlaced \/ WriteDepFile
    \/ CommandStops

Spec == Init /\ [][Next]_vars

-----------------------------------------------------------------------------
(* What an import sees: resolveImportPath and                              *)
(* tryResolveInstalledPackageImport.  The importer is a file of the tree   *)
(* at path owner, <<>> being the project itself.                           *)

OwnersLock(owner) ==
    IF owner # <<>> THEN installed[owner].lock
    ELSE IF Locked THEN lock.direct ELSE lock

(* resolveInstalledPackageEntry: both files are there, whole or not. *)
EntryExists(path) ==
    /\ path \in DOMAIN installed
    /\ \A f \in Files : \E c \in installed[path].files : c[1] = f

(* uranium.dep stands in the project's directory, above every importer,    *)
(* and is asked first; its lines name releases directly below the project. *)
DepFileAnswers(n) == {<<l>> : l \in {k \in depFile : k.name = n /\ EntryExists(<<k>>)}}

(* The lock of the package that the importer belongs to is asked then. *)
LockAnswers(owner, n) ==
    LET direct == OwnersLock(owner)
    IN  IF direct \in {Nil, Broken} \/ n \notin DOMAIN direct THEN {}
        ELSE {p \in {Append(owner, At(n, direct[n]))} : EntryExists(p)}

ImportAnswers(owner, n) ==
    IF DepFileAnswers(n) # {} THEN DepFileAnswers(n) ELSE LockAnswers(owner, n)

-----------------------------------------------------------------------------
TypeOK ==
    /\ \A l \in Locators : /\ tree[l] \in (SUBSET Contents) \union {Nil}
                           /\ meta[l] \in (SUBSET Contents) \union {Nil, Broken}
    /\ \A p \in Publishers : publisher[p].pc \in {"idle", "copy", "fill", "hash", "write"}
    /\ contested \subseteq Locators /\ abandoned \subseteq Locators
    /\ manifest = Broken \/ Dependencies(manifest)
    /\ pc \in {"idle", "unlist", "pin", "clear", "place", "dep", "stop"}
    /\ Locked => lock \in Locks(DOMAIN lock.direct, DOMAIN lock.packages)
    /\ pc \in {"clear", "place", "dep"} => Locked
    /\ depFile \subseteq Locators
    /\ \A p \in DOMAIN installed : p \in Seq(Locators) /\ installed[p].files \in SUBSET Contents

(* A release whose metadata can be read has all its files, as the metadata *)
(* says: from then on if nobody else was publishing it, wherever           *)
(* publishers of it have stopped before; and if others were, its files are *)
(* whole once all have ended, unless one of them stopped while it was      *)
(* copying (publishPackageToRegistry, copyPackageTree).                    *)
PublishedIsWhole ==
    \A l \in Locators : meta[l] \notin {Nil, Broken} =>
        /\ l \notin contested => tree[l] = WholeTree /\ meta[l] = WholeTree
        /\ \/ tree[l] = WholeTree
           \/ l \in abandoned
           \/ \E p \in Publishers : publisher[p].release = l

(* The state is well formed, and what is published is whole.               *)
WellFormed == TypeOK /\ PublishedIsWhole

(* "Publishing writes per-package registry metadata for integrity lookup"  *)
(* (process.md:221): what is looked up is the integrity of the release.    *)
(* The test that a version is new looks at its directory before the first  *)
(* file is copied, and the files are copied over what is there             *)
(* (publishPackageToRegistry, copyPackageTree).                            *)
MetadataMatches == \A l \in Locators : meta[l] \notin {Nil, Broken} => meta[l] = tree[l]

(* A lock file that can be read is closed and has no cycle, so the         *)
(* recursion of installLockedDependencyGraph neither misses an entry nor   *)
(* meets its cycle test, whatever was being published while it was made.   *)
LockedNeeds(l) == LocatorsOf(lock.packages[l].deps)

LockIsClosed ==
    Locked =>
        LET reach[n \in Nat] == IF n = 0 THEN [l \in DOMAIN lock.packages |-> LockedNeeds(l)]
                                ELSE [l \in DOMAIN lock.packages |->
                                        reach[n - 1][l] \union UNION {LockedNeeds(k) : k \in reach[n - 1][l]}]
        IN  /\ LocatorsOf(lock.direct) \subseteq DOMAIN lock.packages
            /\ \A l \in DOMAIN lock.packages : LockedNeeds(l) \subseteq DOMAIN lock.packages
            /\ \A l \in DOMAIN lock.packages : l \notin reach[Cardinality(Locators)][l]

(* What a lock pins is what the manifests asked for, by the meaning of     *)
(* their ranges and not by the bounds the code computes                    *)
(* (matchesVersionRequest, resolveRegistryDependencyVersion).              *)
LockIsCompatible ==
    Locked =>
        \A l \in DOMAIN lock.packages : \A n \in DOMAIN Releases[l] :
            /\ n \in DOMAIN lock.packages[l].deps
            /\ Compatible(lock.packages[l].deps[n], Releases[l][n])

(* A lock is as it must be for the installation that follows: closed, free *)
(* of cycles and compatible (buildPackageLockForSource).                   *)
LockIsSound == LockIsClosed /\ LockIsCompatible

(* The paths along which the lock file's edges can be followed. *)
LockedPaths ==
    LET paths[n \in Nat] ==
            IF n = 0 THEN {<<l>> : l \in LocatorsOf(lock.direct)}
            ELSE paths[n - 1] \union UNION {{Append(p, l) : l \in LockedNeeds(Last(p))} : p \in paths[n - 1]}
    IN  paths[Cardinality(Locators)]

(* After an install or an update that succeeds, whatever failed before it, *)
(* the project holds the locked graph unfolded: nothing is left over,      *)
(* nothing is missing, and each package's own lock says what lies below    *)
(* it; and the project's own imports find the locked release and no other, *)
(* although uranium.dep is asked first and only an install writes it       *)
(* (installPackageDependenciesFromLockData, resolveImportPath).            *)
InstalledIsLocked ==
    outcome = "installed" =>
        /\ Locked
        /\ DOMAIN installed = LockedPaths
        /\ \A p \in DOMAIN installed : installed[p].lock = lock.packages[Last(p)].deps
        /\ \A n \in DOMAIN lock.direct : ImportAnswers(<<>>, n) \subseteq {<<At(n, lock.direct[n])>>}

(* The same of every package's imports: process.md lists "dependency-aware *)
(* import resolution through lockfile".  uranium.dep answers for importers *)
(* everywhere below the project, so a nested package gets the project's    *)
(* version of a dependency that it has locked at another.                  *)
ImportsAreLocked ==
    outcome = "installed" =>
        \A p \in DOMAIN installed : \A n \in DOMAIN installed[p].lock :
            ImportAnswers(p, n) \subseteq {Append(p, At(n, installed[p].lock[n]))}

(* "Pinning resolutions with integrity hashes": what is installed has the  *)
(* integrity that the lock file records for it.                            *)
InstalledHasLockedIntegrity ==
    outcome = "installed" =>
        \A p \in DOMAIN installed : installed[p].files = lock.packages[Last(p)].integrity
=============================================================================
