--------------------------- MODULE PackagesProofs ---------------------------
(* Theorems about the package manager, for every registry, every manifest  *)
(* and any number of publishers and commands; and about version requests:  *)
(* the upper bounds that the code computes are the ranges it means, for    *)
(* every version, the corners of ^0.x.y and ^0.0.z included.               *)
EXTENDS Packages, FiniteSetTheorems, SequenceTheorems, TLAPS

(* A caret range is everything from its base on that keeps the base's      *)
(* components up to the leftmost one that is not zero                      *)
(* (nextCaretUpperBound).                                                  *)
LEMMA CaretRange ==
    ASSUME NEW v \in Version, NEW b \in Version
    PROVE  ~Before(v, b) /\ Before(v, NextCaretUpperBound(b))
               <=> SameUpToLeftmost(v, b) /\ ~Before(v, b)
<1>1. CASE b.major > 0
  BY <1>1 DEF Version, Before, NextCaretUpperBound, SameUpToLeftmost, V
<1>2. CASE b.major = 0 /\ b.minor > 0
  BY <1>2 DEF Version, Before, NextCaretUpperBound, SameUpToLeftmost, V
<1>3. CASE b.major = 0 /\ b.minor = 0
  <2>1. v = b <=> v.major = b.major /\ v.minor = b.minor /\ v.patch = b.patch
    BY DEF Version
  <2>2. QED
    BY <1>3, <2>1 DEF Version, Before, NextCaretUpperBound, SameUpToLeftmost, V
<1>4. b.major \in Nat /\ b.minor \in Nat
  BY DEF Version
<1>5. QED
  BY <1>1, <1>2, <1>3, <1>4

(* A tilde range is everything from its base on that keeps the base's      *)
(* major and minor component (nextTildeUpperBound).                        *)
LEMMA TildeRange ==
    ASSUME NEW v \in Version, NEW b \in Version
    PROVE  ~Before(v, b) /\ Before(v, NextTildeUpperBound(b))
               <=> v.major = b.major /\ v.minor = b.minor /\ v.patch >= b.patch
BY DEF Version, Before, NextTildeUpperBound, V

(* Whatever matchesVersionRequest accepts is what the request means, and   *)
(* the other way round.                                                    *)
THEOREM MatchesIsCompatible ==
    \A v \in Version, r \in Request : Matches(v, r) <=> Compatible(v, r)
<1> SUFFICES ASSUME NEW v \in Version, NEW r \in Request
             PROVE  Matches(v, r) <=> Compatible(v, r)
  OBVIOUS
<1>1. r.base \in Version /\ r.kind \in Kinds
  BY DEF Request
<1>2. CASE r.kind = "any"
  BY <1>2 DEF Matches, Compatible
<1>3. CASE r.kind = "exact"
  BY <1>3 DEF Matches, Compatible
<1>4. CASE r.kind = "caret"
  BY <1>1, <1>4, CaretRange DEF Matches, Compatible
<1>5. CASE r.kind = "tilde"
  BY <1>1, <1>5, TildeRange DEF Matches, Compatible
<1>6. QED
  BY <1>1, <1>2, <1>3, <1>4, <1>5 DEF Kinds

-----------------------------------------------------------------------------
(* Sets of numbers, iteration                                              *)

LEMMA LeastNatural ==
    ASSUME NEW S \in SUBSET Nat, S # {}
    PROVE  \E x \in S : \A y \in S : x <= y
<1> DEFINE R == StrictSubsetOrdering(Nat)
           F == FiniteSubsetsOf(Nat)
           T == {1 .. n : n \in S}
<1>1. IsWellFoundedOn(R, F)
  BY FS_StrictSubsetOrderingWellFounded
<1>2. T \subseteq F /\ T # {}
  <2>1. \A n \in Nat : IsFiniteSet(1 .. n) /\ 1 .. n \in SUBSET Nat
    BY FS_Interval
  <2> QED
    BY <2>1 DEF FiniteSubsetsOf
<1>3. \E x \in T : \A y \in T : ~(<<y, x>> \in R)
  <2> HIDE DEF R, F, T
  <2> QED
    BY <1>1, <1>2, WFMin
<1>4. PICK x \in S : \A y \in S : ~(<<1 .. y, 1 .. x>> \in R)
  BY <1>3
<1>5. ASSUME NEW y \in S, y < x PROVE FALSE
  <2>1. 1 .. y \subseteq 1 .. x
    BY <1>5
  <2>2. x \in 1 .. x /\ x \notin 1 .. y
    BY <1>5
  <2>3. <<1 .. y, 1 .. x>> \in (SUBSET Nat) \X (SUBSET Nat)
    OBVIOUS
  <2>4. <<1 .. y, 1 .. x>> \in R
    BY <2>1, <2>2, <2>3 DEF StrictSubsetOrdering
  <2> QED
    BY <2>4, <1>4
<1> QED
  BY <1>5

(* Induction, for a property that is given as a set. *)
LEMMA AllNaturals ==
    ASSUME NEW P \in SUBSET Nat, 0 \in P, \A n \in P : n + 1 \in P
    PROVE  P = Nat
<1> SUFFICES ASSUME P # Nat PROVE FALSE
  OBVIOUS
<1>1. Nat \ P \in SUBSET Nat /\ Nat \ P # {}
  OBVIOUS
<1>2. PICK x \in Nat \ P : \A y \in Nat \ P : x <= y
  BY <1>1, LeastNatural
<1>3. x # 0 /\ x - 1 \in Nat /\ ~(x <= x - 1) /\ (x - 1) + 1 = x
  BY <1>2
<1>4. x - 1 \in P
  BY <1>2, <1>3
<1> QED
  BY <1>2, <1>3, <1>4

(* A function on T can be iterated: what the definitions below rest on     *)
(* that are recursive in a number.                                         *)
Iterates(f, T, F, x) == f \in [Nat -> T] /\ f[0] = x /\ \A n \in Nat : f[n + 1] = F[f[n]]

LEMMA Iteration ==
    ASSUME NEW T, NEW F \in [T -> T], NEW x \in T
    PROVE  \E f : Iterates(f, T, F, x)
<1> DEFINE Upto(n) == {g \in [0 .. n -> T] : g[0] = x /\ \A i \in Nat : i < n => g[i + 1] = F[g[i]]}
           P == {n \in Nat : Upto(n) # {}}
<1>1. P = Nat
  <2>1. 0 \in P
    <3>1. [i \in 0 .. 0 |-> x] \in Upto(0)
      OBVIOUS
    <3> QED
      BY <3>1
  <2>2. ASSUME NEW n \in P PROVE n + 1 \in P
    <3>1. PICK g \in [0 .. n -> T] : g[0] = x /\ \A i \in Nat : i < n => g[i + 1] = F[g[i]]
      OBVIOUS
    <3> DEFINE h == [i \in 0 .. n + 1 |-> IF i = n + 1 THEN F[g[n]] ELSE g[i]]
    <3>2. h \in [0 .. n + 1 -> T]
      BY <3>1
    <3>3. h[0] = x
      BY <3>1
    <3>4. ASSUME NEW i \in Nat, i < n + 1 PROVE h[i + 1] = F[h[i]]
      <4>1. CASE i = n
        BY <4>1
      <4>2. CASE i # n
        BY <3>1, <3>4, <4>2
      <4> QED
        BY <4>1, <4>2
    <3> HIDE DEF h
    <3>5. h \in Upto(n + 1)
      BY <3>2, <3>3, <3>4
    <3> QED
      BY <3>5
  <2> HIDE DEF P
  <2> QED
    BY <2>1, <2>2, AllNaturals DEF P
<1> DEFINE c == [n \in Nat |-> CHOOSE g \in Upto(n) : TRUE]
           f == [n \in Nat |-> c[n][n]]
<1>2. \A n \in Nat : c[n] \in Upto(n)
  BY <1>1
<1> HIDE DEF P, c
<1>3. ASSUME NEW n \in Nat PROVE f[n] \in T
  BY <1>2
<1>4. f[0] = x
  BY <1>2
<1>5. ASSUME NEW n \in Nat PROVE f[n + 1] = F[f[n]]
  <2> DEFINE Q == {i \in Nat : i <= n => c[n][i] = c[n + 1][i]}
  <2>1. 0 \in Q
    BY <1>2
  <2>2. ASSUME NEW i \in Q PROVE i + 1 \in Q
    <3>1. CASE i + 1 <= n
      <4>1. c[n][i] = c[n + 1][i] /\ i < n /\ i < n + 1 /\ i \in Nat
        BY <3>1
      <4>2. c[n][i + 1] = F[c[n][i]]
        BY <1>2, <4>1
      <4>3. c[n + 1][i + 1] = F[c[n + 1][i]]
        BY <1>2, <4>1
      <4> QED
        BY <4>1, <4>2, <4>3
    <3>2. CASE ~(i + 1 <= n)
      BY <3>2
    <3> QED
      BY <3>1, <3>2
  <2>3. Q = Nat
    <3> HIDE DEF Q
    <3> QED
      BY <2>1, <2>2, AllNaturals DEF Q
  <2>4. c[n][n] = c[n + 1][n]
    BY <2>3
  <2>5. c[n + 1][n + 1] = F[c[n + 1][n]]
    BY <1>2
  <2> QED
    BY <2>4, <2>5
<1> HIDE DEF f
<1>6. f \in [Nat -> T]
  BY <1>3 DEF f
<1> QED
  BY <1>4, <1>5, <1>6 DEF Iterates

-----------------------------------------------------------------------------
(* Files and trees                                                         *)

Trees == (SUBSET Contents) \union {Nil}

Wholes(S) == {Whole(f) : f \in S}

LEMMA FileContents ==
    /\ \A f \in Files : Whole(f) \in Contents /\ CutShort(f) \in Contents
    /\ \A f, g \in Files : /\ Whole(f) # CutShort(g)
                           /\ Whole(f) = Whole(g) => f = g
                           /\ CutShort(f) = CutShort(g) => f = g
    /\ \A c \in Contents : \E f \in Files : c = Whole(f) \/ c = CutShort(f)
    /\ \A f \in Files : Whole(f)[1] = f
  BY DEF Whole, CutShort, Contents, Files

LEMMA NilFacts ==
    /\ Nil \notin SUBSET Contents /\ Broken \notin SUBSET Contents /\ Nil # Broken
    /\ Nil \notin Locators
    /\ Files # {} /\ WholeTree \in SUBSET Contents /\ WholeTree # {}
    /\ WholeTree = Wholes(Files)
<1>1. Nil \notin SUBSET Contents /\ Broken \notin SUBSET Contents /\ Nil # Broken /\ Nil \notin Locators
  BY NilAssumption
<1>2. Files # {}
  BY DEF Files
<1>3. WholeTree \in SUBSET Contents /\ WholeTree # {}
  BY <1>2, FileContents DEF WholeTree
<1> QED
  BY <1>1, <1>2, <1>3 DEF WholeTree, Wholes

-----------------------------------------------------------------------------
(* Publishing                                                              *)

Publications == [pc : {"idle", "copy", "fill", "hash", "write"}, release : Locators \union {Nil},
                 todo : SUBSET Files, file : Files \union {Nil}, overrun : BOOLEAN,
                 hash : SUBSET Contents]

RegistryTypes ==
    /\ tree \in [Locators -> Trees]
    /\ meta \in [Locators -> Trees \union {Broken}]
    /\ publisher \in [Publishers -> Publications]
    /\ contested \in SUBSET Locators /\ abandoned \in SUBSET Locators

(* A file is there, whole or cut short.                                    *)
Touched(l, f) == tree[l] # Nil /\ (Whole(f) \in tree[l] \/ CutShort(f) \in tree[l])

(* The files that a publisher is done with are there.                      *)
Shape(p) ==
    \/ publisher[p] = Resting
    \/ /\ publisher[p].release \in Locators
       /\ publisher[p].pc \in {"copy", "fill", "hash", "write"}
       /\ tree[publisher[p].release] \in SUBSET Contents
       /\ publisher[p].pc = "fill" => publisher[p].file \in Files \ publisher[p].todo
       /\ \A f \in Files :
             (Copying(p) /\ f \in publisher[p].todo) \/ Touched(publisher[p].release, f)

(* What a publisher that nobody gets in the way of has done so far.        *)
Progress(r, t) ==
    /\ ~r.overrun
    /\ r.pc = "copy" => t = Wholes(Files \ r.todo) /\ r.hash = {}
    /\ r.pc = "fill" => /\ t = Wholes(Files \ (r.todo \union {r.file})) \union {CutShort(r.file)}
                        /\ r.hash = {}
    /\ r.pc = "hash" => t = WholeTree /\ r.hash = Wholes(Files \ r.todo)
    /\ r.pc = "write" => t = WholeTree /\ r.hash = WholeTree

Alone(p) ==
    publisher[p] # Resting /\ publisher[p].release \notin contested =>
        /\ \A q \in Publishers : publisher[q].release = publisher[p].release => q = p
        /\ meta[publisher[p].release] \in {Nil, Broken}
        /\ Progress(publisher[p], tree[publisher[p].release])

(* Metadata that can be read is of a release whose files are all there.    *)
Described(l) ==
    meta[l] \notin {Nil, Broken} =>
        /\ \A f \in Files : Touched(l, f)
        /\ l \notin contested => tree[l] = WholeTree /\ meta[l] = WholeTree

(* A file is whole, or being written by the last who opened it.            *)
Secure(l, f) ==
    l \notin abandoned /\ Touched(l, f) =>
        \/ Whole(f) \in tree[l] /\ CutShort(f) \notin tree[l]
        \/ \E q \in Publishers : Writes(q, l, f) /\ ~publisher[q].overrun

RegistryInv ==
    /\ RegistryTypes
    /\ \A p \in Publishers : Shape(p) /\ Alone(p)
    /\ \A l \in Locators : Described(l) /\ \A f \in Files : Secure(l, f)

LEMMA RestingFacts ==
    /\ Resting \in Publications /\ Resting.pc = "idle" /\ Resting.release = Nil
    /\ \A l \in Locators :
          /\ Starting(l) \in Publications /\ Starting(l) # Resting
          /\ Starting(l).pc = "copy" /\ Starting(l).release = l /\ Starting(l).todo = Files
          /\ Starting(l).overrun = FALSE /\ Starting(l).hash = {}
<1>1. Resting \in Publications /\ Resting.pc = "idle" /\ Resting.release = Nil
  BY DEF Resting, Publications
<1>2. ASSUME NEW l \in Locators
      PROVE  /\ Starting(l).pc = "copy" /\ Starting(l).release = l /\ Starting(l).todo = Files
             /\ Starting(l).overrun = FALSE /\ Starting(l).hash = {}
  BY DEF Starting
<1>3. ASSUME NEW l \in Locators PROVE Starting(l) \in Publications
  BY DEF Starting, Publications
<1>4. "copy" # "idle"
  OBVIOUS
<1> QED
  BY <1>1, <1>2, <1>3, <1>4

LEMMA RegistryStart == Init => RegistryInv
<1> SUFFICES ASSUME Init PROVE RegistryInv
  OBVIOUS
<1> USE NilFacts, RestingFacts
<1>1. /\ tree = [l \in Locators |-> IF l \in Published THEN WholeTree ELSE Nil] /\ meta = tree
      /\ publisher = [p \in Publishers |-> Resting] /\ contested = {} /\ abandoned = {}
  BY DEF Init
<1>2. RegistryTypes
  BY <1>1 DEF RegistryTypes, Trees
<1>3. \A p \in Publishers : Shape(p) /\ Alone(p)
  BY <1>1 DEF Shape, Alone
<1>4. ASSUME NEW l \in Locators, l \in Published PROVE Described(l) /\ \A f \in Files : Secure(l, f)
  <2>1. tree[l] = WholeTree /\ meta[l] = WholeTree
    BY <1>1, <1>4
  <2>2. \A f \in Files : Whole(f) \in WholeTree /\ CutShort(f) \notin WholeTree
    BY FileContents DEF WholeTree
  <2> QED
    BY <2>1, <2>2 DEF Described, Secure, Touched
<1>5. ASSUME NEW l \in Locators, l \notin Published PROVE Described(l) /\ \A f \in Files : Secure(l, f)
  <2>1. tree[l] = Nil /\ meta[l] = Nil
    BY <1>1, <1>5
  <2> QED
    BY <2>1, <1>1 DEF Described, Secure, Touched
<1> QED
  BY <1>2, <1>3, <1>4, <1>5 DEF RegistryInv

(* What publisher p does to its record and to the tree of its release      *)
(* leaves what another has done as it is.                                  *)
Keeps(q, o) ==
    /\ publisher'[q] = [publisher[q] EXCEPT !.overrun = o]
    /\ o \in BOOLEAN

LEMMA OthersStand ==
    ASSUME RegistryInv, NEW q \in Publishers, NEW o \in BOOLEAN,
           publisher'[q] = [publisher[q] EXCEPT !.overrun = o],
           publisher[q] = Resting => publisher'[q] = Resting,
           \A l \in Locators : \/ tree'[l] = tree[l]
                               \/ /\ tree'[l] \in SUBSET Contents
                                  /\ tree[l] # Nil \/ publisher[q].release # l
                                  /\ \A f \in Files : Touched(l, f) => Touched(l, f)'
    PROVE  Shape(q)'
<1>1. Shape(q) /\ publisher[q] \in Publications
  BY DEF RegistryInv, RegistryTypes
<1>2. /\ publisher'[q].pc = publisher[q].pc /\ publisher'[q].release = publisher[q].release
      /\ publisher'[q].todo = publisher[q].todo /\ publisher'[q].file = publisher[q].file
  BY <1>1 DEF Publications
<1>3. CASE publisher[q] = Resting
  BY <1>3 DEF Shape
<1>4. CASE publisher[q] # Resting
  <2> DEFINE l == publisher[q].release
  <2>1. /\ l \in Locators
        /\ publisher[q].pc \in {"copy", "fill", "hash", "write"}
        /\ tree[l] \in SUBSET Contents
        /\ publisher[q].pc = "fill" => publisher[q].file \in Files \ publisher[q].todo
        /\ \A f \in Files : (Copying(q) /\ f \in publisher[q].todo) \/ Touched(l, f)
    BY <1>1, <1>4 DEF Shape
  <2>2. tree'[l] \in SUBSET Contents /\ \A f \in Files : Touched(l, f) => Touched(l, f)'
    BY <2>1 DEF Touched
  <2>3. Copying(q) => Copying(q)'
    BY <1>2 DEF Copying
  <2> HIDE DEF l
  <2>4. publisher'[q].release = l
    BY <1>2 DEF l
  <2> QED
    BY <1>2, <2>1, <2>2, <2>3, <2>4 DEF Shape, Touched
<1> QED
  BY <1>3, <1>4

(* A step of publisher p on the release l.                                 *)
StepOn(p, l) ==
    /\ \A k \in Locators : k # l => tree'[k] = tree[k] /\ meta'[k] = meta[k]
    /\ contested \subseteq contested' /\ abandoned \subseteq abandoned'
    /\ publisher'[p].release \in {l, Nil}
    /\ \/ publisher[p].release = l
       \/ publisher[p] = Resting /\ \A q \in Publishers : publisher[q].release = l => l \in contested'
    /\ \A q \in Publishers : q # p =>
          \/ publisher'[q] = publisher[q]
          \/ publisher[q].release = l /\ publisher'[q].release = l

LEMMA Elsewhere ==
    ASSUME RegistryInv, NEW p \in Publishers, NEW l \in Locators, StepOn(p, l)
    PROVE  /\ \A q \in Publishers : q # p => Alone(q)'
           /\ \A k \in Locators : k # l => Described(k)' /\ \A f \in Files : Secure(k, f)'
<1> USE NilFacts, RestingFacts
<1>0. /\ \A q \in Publishers : Shape(q) /\ Alone(q)
      /\ \A k \in Locators : Described(k) /\ \A f \in Files : Secure(k, f)
  BY DEF RegistryInv
<1>1. ASSUME NEW q \in Publishers, q # p PROVE Alone(q)'
  <2> SUFFICES ASSUME publisher'[q] # Resting, publisher'[q].release \notin contested'
               PROVE  /\ \A r \in Publishers : publisher'[r].release = publisher'[q].release => r = q
                      /\ meta'[publisher'[q].release] \in {Nil, Broken}
                      /\ Progress(publisher'[q], tree'[publisher'[q].release])
    BY DEF Alone
  <2>1. publisher'[q].release = publisher[q].release /\ publisher[q] # Resting
    BY <1>1 DEF StepOn
  <2>2. PICK k : k = publisher[q].release
    OBVIOUS
  <2>3. k \in Locators
    BY <1>0, <2>1, <2>2 DEF Shape
  <2>4. k \notin contested /\ k \notin contested'
    BY <2>1, <2>2 DEF StepOn
  <2>5. /\ \A r \in Publishers : publisher[r].release = k => r = q
        /\ meta[k] \in {Nil, Broken} /\ Progress(publisher[q], tree[k])
    BY <1>0, <2>1, <2>2, <2>4 DEF Alone
  <2>6. k # l
    BY <1>1, <2>2, <2>4, <2>5 DEF StepOn
  <2>7. publisher'[q] = publisher[q] /\ tree'[k] = tree[k] /\ meta'[k] = meta[k]
    BY <1>1, <2>2, <2>3, <2>6 DEF StepOn
  <2>8. \A r \in Publishers : publisher'[r].release = k => r = q
    BY <2>3, <2>5, <2>6, <2>7 DEF StepOn
  <2> QED
    BY <2>1, <2>2, <2>5, <2>7, <2>8
<1>2. ASSUME NEW k \in Locators, k # l PROVE Described(k)'
  <2>1. tree'[k] = tree[k] /\ meta'[k] = meta[k] /\ contested \subseteq contested'
    BY <1>2 DEF StepOn
  <2>2. Described(k)
    BY <1>0
  <2> QED
    BY <2>1, <2>2 DEF Described, Touched
<1>3. ASSUME NEW k \in Locators, k # l, NEW f \in Files PROVE Secure(k, f)'
  <2>1. tree'[k] = tree[k] /\ abandoned \subseteq abandoned'
    BY <1>3 DEF StepOn
  <2>2. Secure(k, f)
    BY <1>0
  <2>3. ASSUME NEW q \in Publishers, Writes(q, k, f), ~publisher[q].overrun
        PROVE  publisher'[q] = publisher[q]
    <3>1. publisher[q].pc = "fill" /\ publisher[q].release = k
      BY <2>3 DEF Writes
    <3>2. q # p
      BY <1>3, <3>1 DEF StepOn
    <3> QED
      BY <1>3, <3>1, <3>2 DEF StepOn
  <2> QED
    BY <2>1, <2>2, <2>3 DEF Secure, Touched, Writes
<1> QED
  BY <1>1, <1>2, <1>3

LEMMA BeginPublishStep ==
    ASSUME RegistryInv, NEW p \in Publishers, NEW l \in Locators, BeginPublish(p, l)
    PROVE  RegistryInv'
<1> USE NilFacts, RestingFacts
<1>0. /\ RegistryTypes
      /\ \A q \in Publishers : Shape(q) /\ Alone(q)
      /\ \A k \in Locators : Described(k) /\ \A f \in Files : Secure(k, f)
  BY DEF RegistryInv
<1>1. /\ publisher[p] = Resting /\ tree[l] \in {Nil, {}} /\ tree' = [tree EXCEPT ![l] = {}]
      /\ publisher' = [publisher EXCEPT ![p] = Starting(l)]
      /\ meta' = meta /\ abandoned' = abandoned
      /\ contested' = contested \union {k \in {l} : \E q \in Publishers : publisher[q].release = k}
  BY DEF BeginPublish
<1>2. RegistryTypes'
  BY <1>0, <1>1 DEF RegistryTypes, Trees
<1>3. tree'[l] = {} /\ publisher'[p] = Starting(l) /\ \A q \in Publishers : q # p => publisher'[q] = publisher[q]
  BY <1>0, <1>1 DEF RegistryTypes
<1>4. \A k \in Locators : k # l => tree'[k] = tree[k]
  BY <1>0, <1>1 DEF RegistryTypes
<1>5. StepOn(p, l)
  BY <1>1, <1>3, <1>4 DEF StepOn
<1>6. \A f \in Files : ~Touched(l, f) /\ ~Touched(l, f)'
  BY <1>1, <1>3 DEF Touched
<1>7. meta[l] \in {Nil, Broken}
  BY <1>0, <1>6 DEF Described
<1>8. ASSUME NEW q \in Publishers PROVE Shape(q)'
  <2>1. CASE q = p
    BY <1>3, <2>1 DEF Shape, Copying
  <2>2. CASE q # p
    <3>1. publisher[q] \in Publications /\ publisher'[q] = publisher[q]
      BY <1>0, <1>3, <2>2 DEF RegistryTypes
    <3>2. publisher[q].overrun \in BOOLEAN /\ publisher'[q] = [publisher[q] EXCEPT !.overrun = publisher[q].overrun]
      BY <3>1 DEF Publications
    <3>3. tree[l] # Nil \/ publisher[q].release # l
      BY <1>0 DEF Shape
    <3>4. \A k \in Locators : \/ tree'[k] = tree[k]
                              \/ /\ tree'[k] \in SUBSET Contents
                                 /\ tree[k] # Nil \/ publisher[q].release # k
                                 /\ \A f \in Files : Touched(k, f) => Touched(k, f)'
      BY <1>3, <1>4, <1>6, <3>3
    <3> QED
      BY <3>1, <3>2, <3>4, OthersStand
  <2> QED
    BY <2>1, <2>2
<1>9. Alone(p)'
  <2> SUFFICES ASSUME l \notin contested'
               PROVE  /\ \A q \in Publishers : publisher'[q].release = l => q = p
                      /\ meta[l] \in {Nil, Broken}
                      /\ Progress(Starting(l), {})
    <3>1. PICK r : r = Starting(l)
      OBVIOUS
    <3>2. publisher'[p] = r /\ r.release = l /\ tree'[l] = {} /\ meta'[l] = meta[l]
      BY <1>1, <1>3, <3>1
    <3> QED
      BY <3>1, <3>2 DEF Alone
  <2>1. \A q \in Publishers : publisher[q].release # l
    BY <1>1
  <2>2. Progress(Starting(l), {})
    BY DEF Progress, Wholes
  <2> QED
    BY <1>3, <1>7, <2>1, <2>2
<1>10. Described(l)' /\ \A f \in Files : Secure(l, f)'
  BY <1>1, <1>6, <1>7 DEF Described, Secure
<1> QED
  BY <1>2, <1>5, <1>8, <1>9, <1>10, Elsewhere DEF RegistryInv

(* A step on a tree that only gains files, or cuts them short.             *)
LEMMA ShapesStand ==
    ASSUME RegistryInv, NEW p \in Publishers, NEW l \in Locators, StepOn(p, l),
           tree'[l] \in SUBSET Contents, tree[l] # Nil,
           \A f \in Files : Touched(l, f) => Touched(l, f)',
           \A q \in Publishers : q # p =>
              \/ publisher'[q] = publisher[q]
              \/ /\ publisher[q] # Resting
                 /\ publisher'[q] = [publisher[q] EXCEPT !.overrun = TRUE]
    PROVE  \A q \in Publishers : q # p => Shape(q)'
<1> SUFFICES ASSUME NEW q \in Publishers, q # p PROVE Shape(q)'
  OBVIOUS
<1>1. publisher[q] \in Publications
  BY DEF RegistryInv, RegistryTypes
<1>2. publisher[q].overrun \in BOOLEAN /\ publisher[q] = [publisher[q] EXCEPT !.overrun = publisher[q].overrun]
  BY <1>1 DEF Publications
<1>3. PICK o \in BOOLEAN : publisher'[q] = [publisher[q] EXCEPT !.overrun = o]
  BY <1>2
<1>4. publisher[q] = Resting => publisher'[q] = Resting
  OBVIOUS
<1>5. \A k \in Locators : \/ tree'[k] = tree[k]
                          \/ /\ tree'[k] \in SUBSET Contents
                             /\ tree[k] # Nil \/ publisher[q].release # k
                             /\ \A f \in Files : Touched(k, f) => Touched(k, f)'
  BY DEF StepOn
<1> QED
  BY <1>3, <1>4, <1>5, OthersStand

LEMMA OpenFileStep ==
    ASSUME RegistryInv, NEW p \in Publishers, NEW f \in Files, OpenFile(p, f)
    PROVE  RegistryInv'
<1> USE NilFacts, RestingFacts
<1>0. /\ RegistryTypes
      /\ \A q \in Publishers : Shape(q) /\ Alone(q)
      /\ \A k \in Locators : Described(k) /\ \A g \in Files : Secure(k, g)
  BY DEF RegistryInv
<1>1. PICK l : l = publisher[p].release
  OBVIOUS
<1>2. PICK t : t = tree[l]
  OBVIOUS
<1>3. PICK n : n = (t \ {Whole(f)}) \union {CutShort(f)}
  OBVIOUS
<1>4. PICK r : r = [publisher[p] EXCEPT !.pc = "fill", !.todo = publisher[p].todo \ {f},
                                        !.file = f, !.overrun = FALSE]
  OBVIOUS
<1>5. /\ publisher[p].pc = "copy" /\ f \in publisher[p].todo
      /\ meta' = meta /\ contested' = contested /\ abandoned' = abandoned
      /\ tree' = [tree EXCEPT ![l] = n]
      /\ publisher' = [q \in Publishers |->
            IF q = p THEN r ELSE [publisher[q] EXCEPT !.overrun = @ \/ Writes(q, l, f)]]
  <2>1. tree' = [tree EXCEPT ![l] = n]
    BY <1>1, <1>2, <1>3 DEF OpenFile
  <2>2. publisher' = [q \in Publishers |->
            IF q = p THEN r ELSE [publisher[q] EXCEPT !.overrun = @ \/ Writes(q, l, f)]]
    BY <1>1, <1>4, Zenon DEF OpenFile
  <2> QED
    BY <2>1, <2>2 DEF OpenFile
<1>6. l \in Locators /\ t \in SUBSET Contents /\ publisher[p] # Resting
  BY <1>0, <1>1, <1>2, <1>5 DEF Shape
<1>7. publisher[p] \in Publications
  BY <1>0 DEF RegistryTypes
<1>8. /\ r \in Publications /\ r.release = l /\ r.todo = publisher[p].todo \ {f} /\ r.pc = "fill"
      /\ r.file = f /\ r.overrun = FALSE /\ r.hash = publisher[p].hash
  BY <1>1, <1>4, <1>7 DEF Publications
<1>9. n \in SUBSET Contents /\ CutShort(f) \in n
  BY <1>3, <1>6, FileContents
<1>10. /\ tree'[l] = n /\ \A k \in Locators : k # l => tree'[k] = tree[k]
  BY <1>0, <1>5, <1>6 DEF RegistryTypes
<1>11. publisher'[p] = r
  BY <1>5
<1>12. ASSUME NEW q \in Publishers, q # p
       PROVE  /\ publisher'[q] \in Publications
              /\ ~Writes(q, l, f) => publisher'[q] = publisher[q]
              /\ Writes(q, l, f) => publisher'[q] = [publisher[q] EXCEPT !.overrun = TRUE]
  <2>1. publisher[q] \in Publications
    BY <1>0 DEF RegistryTypes
  <2>2. Writes(q, l, f) \in BOOLEAN
    BY DEF Writes
  <2>3. publisher'[q] = [publisher[q] EXCEPT !.overrun = publisher[q].overrun \/ Writes(q, l, f)]
    BY <1>5, <1>12
  <2>4. CASE Writes(q, l, f)
    <3>1. publisher'[q] = [publisher[q] EXCEPT !.overrun = TRUE]
      BY <2>3, <2>4
    <3> QED
      BY <2>1, <2>4, <3>1 DEF Publications
  <2>5. CASE ~Writes(q, l, f)
    <3>1. publisher'[q] = [publisher[q] EXCEPT !.overrun = publisher[q].overrun]
      BY <2>1, <2>3, <2>5 DEF Publications
    <3>2. publisher'[q] = publisher[q]
      BY <2>1, <3>1 DEF Publications
    <3> QED
      BY <2>1, <2>5, <3>2
  <2> QED
    BY <2>4, <2>5
<1>13. ASSUME NEW q \in Publishers, q # p, Writes(q, l, f)
       PROVE  /\ publisher[q].release = l /\ publisher'[q].release = l /\ publisher[q] # Resting
              /\ publisher'[q].overrun = TRUE
  <2>1. publisher[q] \in Publications /\ publisher[q].release = l /\ publisher[q].pc = "fill"
    BY <1>0, <1>13 DEF RegistryTypes, Writes
  <2>2. publisher'[q] = [publisher[q] EXCEPT !.overrun = TRUE]
    BY <1>12, <1>13
  <2>3. publisher'[q].release = publisher[q].release /\ publisher'[q].overrun = TRUE
    BY <2>1, <2>2 DEF Publications
  <2>4. publisher[q] # Resting
    BY <2>1
  <2> QED
    BY <2>1, <2>3, <2>4
<1>14. RegistryTypes'
  <2>1. tree' \in [Locators -> Trees]
    BY <1>0, <1>5, <1>9 DEF RegistryTypes, Trees
  <2>2. publisher' \in [Publishers -> Publications]
    <3>1. \A q \in Publishers : publisher'[q] \in Publications
      BY <1>8, <1>11, <1>12
    <3>2. publisher' = [q \in Publishers |-> publisher'[q]]
      BY <1>5
    <3> QED
      BY <3>1, <3>2
  <2> QED
    BY <1>0, <1>5, <2>1, <2>2 DEF RegistryTypes
<1>15. StepOn(p, l)
  BY <1>1, <1>5, <1>8, <1>10, <1>11, <1>12, <1>13 DEF StepOn
<1>16. \A g \in Files : Touched(l, g) => Touched(l, g)'
  <2>1. \A g \in Files : Whole(g) \in t \/ CutShort(g) \in t => Whole(g) \in n \/ CutShort(g) \in n
    BY <1>3, FileContents
  <2> QED
    BY <1>2, <1>9, <1>10, <2>1 DEF Touched
<1>17. Touched(l, f)'
  BY <1>9, <1>10 DEF Touched
<1>18. \A q \in Publishers : q # p => Shape(q)'
  <2>1. tree'[l] \in SUBSET Contents /\ tree[l] # Nil
    BY <1>2, <1>6, <1>9, <1>10
  <2>2. ASSUME NEW q \in Publishers, q # p
        PROVE  \/ publisher'[q] = publisher[q]
               \/ /\ publisher[q] # Resting
                  /\ publisher'[q] = [publisher[q] EXCEPT !.overrun = TRUE]
    <3>1. CASE Writes(q, l, f)
      BY <1>12, <1>13, <2>2, <3>1
    <3>2. CASE ~Writes(q, l, f)
      BY <1>12, <2>2, <3>2
    <3> QED
      BY <3>1, <3>2
  <2> QED
    BY <1>6, <1>15, <1>16, <2>1, <2>2, ShapesStand
<1>19. Shape(p)'
  <2>1. \A g \in Files : g \in publisher[p].todo \/ Touched(l, g)
    BY <1>0, <1>1, <1>5, <1>6 DEF Shape
  <2>2. \A g \in Files : (Copying(p)' /\ g \in r.todo) \/ Touched(l, g)'
    BY <1>8, <1>11, <1>16, <1>17, <2>1 DEF Copying
  <2>3. r.pc = "fill" => r.file \in Files \ r.todo
    BY <1>8
  <2>4. Touched(publisher[p].release, f)' <=> Touched(l, f)'
    BY <1>8, <1>11
  <2> QED
    BY <1>6, <1>8, <1>9, <1>10, <1>11, <2>2, <2>3 DEF Shape, Touched
<1>20. Alone(p)'
  <2> SUFFICES ASSUME l \notin contested
               PROVE  /\ \A q \in Publishers : publisher'[q].release = l => q = p
                      /\ meta[l] \in {Nil, Broken}
                      /\ Progress(r, n)
    BY <1>5, <1>8, <1>10, <1>11 DEF Alone
  <2>1. /\ \A q \in Publishers : publisher[q].release = l => q = p
        /\ meta[l] \in {Nil, Broken} /\ Progress(publisher[p], t)
    BY <1>0, <1>1, <1>2, <1>6 DEF Alone
  <2>2. t = Wholes(Files \ publisher[p].todo) /\ publisher[p].hash = {}
    BY <1>5, <2>1 DEF Progress
  <2>3. publisher[p].todo = r.todo \union {f}
    BY <1>5, <1>8
  <2>4. Whole(f) \notin t
    BY <1>5, <2>2, FileContents DEF Wholes
  <2>5. n = Wholes(Files \ (r.todo \union {f})) \union {CutShort(f)}
    BY <1>3, <2>2, <2>3, <2>4
  <2>6. Progress(r, n)
    BY <1>8, <2>2, <2>5 DEF Progress
  <2> QED
    BY <1>12, <1>13, <2>1, <2>6
<1>21. Described(l)'
  <2>1. Described(l)
    BY <1>0, <1>6
  <2>2. l \notin contested => meta[l] \in {Nil, Broken}
    BY <1>0, <1>1, <1>6 DEF Alone
  <2> QED
    BY <1>5, <1>16, <2>1, <2>2 DEF Described
<1>22. ASSUME NEW g \in Files PROVE Secure(l, g)'
  <2>1. CASE g = f
    <3>1. publisher'[p].pc = "fill" /\ publisher'[p].release = l /\ publisher'[p].file = g /\ ~publisher'[p].overrun
      BY <1>8, <1>11, <2>1
    <3> QED
      BY <3>1 DEF Secure, Writes
  <2>2. CASE g # f
    <3>1. (Whole(g) \in t <=> Whole(g) \in n) /\ (CutShort(g) \in t <=> CutShort(g) \in n)
      BY <1>3, <2>2, FileContents
    <3>2. Secure(l, g)
      BY <1>0, <1>6
    <3>3. ASSUME NEW q \in Publishers, Writes(q, l, g), ~publisher[q].overrun
          PROVE  Writes(q, l, g)' /\ ~publisher'[q].overrun
      <4>1. q # p /\ ~Writes(q, l, f)
        BY <1>5, <2>2, <3>3 DEF Writes
      <4>2. publisher'[q] = publisher[q]
        BY <1>12, <4>1
      <4> QED
        BY <3>3, <4>2 DEF Writes
    <3>4. Touched(l, g)' => Touched(l, g)
      BY <1>2, <1>6, <1>10, <3>1 DEF Touched
    <3>5. CASE l \in abandoned \/ ~Touched(l, g)
      BY <1>5, <3>4, <3>5 DEF Secure
    <3>6. CASE Whole(g) \in tree[l] /\ CutShort(g) \notin tree[l]
      BY <1>2, <1>10, <3>1, <3>6 DEF Secure
    <3>7. CASE \E q \in Publishers : Writes(q, l, g) /\ ~publisher[q].overrun
      BY <3>3, <3>7 DEF Secure
    <3> QED
      BY <3>2, <3>5, <3>6, <3>7 DEF Secure
  <2> QED
    BY <2>1, <2>2
<1>23. ASSUME NEW q \in Publishers PROVE Shape(q)' /\ Alone(q)'
  <2>1. CASE q = p
    BY <1>19, <1>20, <2>1
  <2>2. CASE q # p
    <3>1. Alone(q)'
      BY <1>6, <1>15, <2>2, Elsewhere
    <3> QED
      BY <1>18, <2>2, <3>1
  <2> QED
    BY <2>1, <2>2
<1>24. ASSUME NEW k \in Locators PROVE Described(k)' /\ \A g \in Files : Secure(k, g)'
  <2>1. CASE k = l
    BY <1>21, <1>22, <2>1
  <2>2. CASE k # l
    BY <1>6, <1>15, <2>2, Elsewhere
  <2> QED
    BY <2>1, <2>2
<1> QED
  BY <1>14, <1>23, <1>24, Zenon DEF RegistryInv

LEMMA CopiedFacts ==
    ASSUME NEW r \in Publications
    PROVE  /\ Copied(r) \in Publications /\ Copied(r).release = r.release
           /\ Copied(r).overrun = r.overrun /\ Copied(r).hash = r.hash /\ Copied(r).file = Nil
           /\ r.todo = {} => Copied(r).pc = "hash" /\ Copied(r).todo = Files
           /\ r.todo # {} => Copied(r).pc = "copy" /\ Copied(r).todo = r.todo
<1>1. CASE r.todo = {}
  BY <1>1 DEF Copied, Publications
<1>2. CASE r.todo # {}
  BY <1>2 DEF Copied, Publications
<1> QED
  BY <1>1, <1>2

LEMMA FillFileStep ==
    ASSUME RegistryInv, NEW p \in Publishers, FillFile(p)
    PROVE  RegistryInv'
<1> USE NilFacts, RestingFacts
<1>0. /\ RegistryTypes
      /\ \A q \in Publishers : Shape(q) /\ Alone(q)
      /\ \A k \in Locators : Described(k) /\ \A g \in Files : Secure(k, g)
  BY DEF RegistryInv
<1>1. PICK l : l = publisher[p].release
  OBVIOUS
<1>2. PICK t : t = tree[l]
  OBVIOUS
<1>3. PICK f : f = publisher[p].file
  OBVIOUS
<1>4. PICK r : r = Copied(publisher[p])
  OBVIOUS
<1>5. /\ publisher[p].pc = "fill"
      /\ meta' = meta /\ contested' = contested /\ abandoned' = abandoned
      /\ \/ tree' = [tree EXCEPT ![l] = Filled(t, f)]
         \/ publisher[p].overrun /\ tree' = tree
      /\ publisher' = [publisher EXCEPT ![p] = r]
  <2>1. publisher' = [publisher EXCEPT ![p] = r]
    BY <1>4 DEF FillFile
  <2>2. \/ tree' = [tree EXCEPT ![l] = Filled(t, f)]
        \/ publisher[p].overrun /\ tree' = tree
    BY <1>1, <1>2, <1>3 DEF FillFile
  <2> QED
    BY <2>1, <2>2 DEF FillFile
<1>6. /\ l \in Locators /\ t \in SUBSET Contents /\ publisher[p] # Resting
      /\ f \in Files \ publisher[p].todo
  BY <1>0, <1>1, <1>2, <1>3, <1>5 DEF Shape
<1>7. publisher[p] \in Publications
  BY <1>0 DEF RegistryTypes
<1>8. /\ r \in Publications /\ r.release = l /\ r.overrun = publisher[p].overrun /\ r.hash = publisher[p].hash
      /\ publisher[p].todo = {} => r.pc = "hash" /\ r.todo = Files
      /\ publisher[p].todo # {} => r.pc = "copy" /\ r.todo = publisher[p].todo
  BY <1>1, <1>4, <1>7, CopiedFacts
<1>9. PICK n : n = tree'[l]
  OBVIOUS
<1>10. n = Filled(t, f) \/ (publisher[p].overrun /\ n = t)
  BY <1>0, <1>2, <1>5, <1>6, <1>9 DEF RegistryTypes
<1>11. /\ Filled(t, f) \in SUBSET Contents
       /\ Whole(f) \in Filled(t, f) /\ CutShort(f) \notin Filled(t, f)
       /\ \A g \in Files : g # f => /\ Whole(g) \in t <=> Whole(g) \in Filled(t, f)
                                    /\ CutShort(g) \in t <=> CutShort(g) \in Filled(t, f)
  BY <1>6, FileContents DEF Filled
<1>12. /\ n \in SUBSET Contents
       /\ \A g \in Files : g # f => /\ Whole(g) \in t <=> Whole(g) \in n
                                    /\ CutShort(g) \in t <=> CutShort(g) \in n
       /\ \A g \in Files : Whole(g) \in t \/ CutShort(g) \in t => Whole(g) \in n \/ CutShort(g) \in n
  BY <1>6, <1>10, <1>11
<1>13. \A k \in Locators : k # l => tree'[k] = tree[k]
  BY <1>0, <1>5 DEF RegistryTypes
<1>14. publisher'[p] = r /\ \A q \in Publishers : q # p => publisher'[q] = publisher[q]
  BY <1>0, <1>5 DEF RegistryTypes
<1>15. RegistryTypes'
  <2>1. Filled(t, f) \in Trees
    BY <1>11 DEF Trees
  <2>2. tree' \in [Locators -> Trees]
    BY <1>0, <1>5, <2>1 DEF RegistryTypes
  <2> QED
    BY <1>0, <1>5, <1>8, <2>2 DEF RegistryTypes
<1>16. StepOn(p, l)
  BY <1>1, <1>5, <1>8, <1>13, <1>14 DEF StepOn
<1>17. \A g \in Files : Touched(l, g) <=> t # Nil /\ (Whole(g) \in t \/ CutShort(g) \in t)
  BY <1>2 DEF Touched
<1>18. \A g \in Files : Touched(l, g)' <=> n # Nil /\ (Whole(g) \in n \/ CutShort(g) \in n)
  BY <1>9 DEF Touched
<1>19. \A g \in Files : Touched(l, g) => Touched(l, g)'
  BY <1>12, <1>17, <1>18
<1>20. \A q \in Publishers : q # p => Shape(q)'
  BY <1>2, <1>6, <1>9, <1>12, <1>14, <1>16, <1>19, ShapesStand
<1>21. Shape(p)'
  <2>1. \A g \in Files : g \in publisher[p].todo \/ Touched(l, g)
    BY <1>0, <1>1, <1>5, <1>6 DEF Shape
  <2>2. \A g \in Files : (Copying(p)' /\ g \in r.todo) \/ Touched(l, g)'
    BY <1>8, <1>14, <1>19, <2>1 DEF Copying
  <2>3. r.pc \in {"copy", "hash"}
    BY <1>8
  <2> QED
    BY <1>6, <1>8, <1>9, <1>12, <1>14, <2>2, <2>3 DEF Shape, Touched
<1>22. Alone(p)'
  <2> SUFFICES ASSUME l \notin contested
               PROVE  /\ \A q \in Publishers : publisher'[q].release = l => q = p
                      /\ meta[l] \in {Nil, Broken}
                      /\ Progress(r, n)
    BY <1>5, <1>8, <1>9, <1>14 DEF Alone
  <2>1. /\ \A q \in Publishers : publisher[q].release = l => q = p
        /\ meta[l] \in {Nil, Broken} /\ Progress(publisher[p], t)
    BY <1>0, <1>1, <1>2, <1>6 DEF Alone
  <2>2. /\ t = Wholes(Files \ (publisher[p].todo \union {f})) \union {CutShort(f)}
        /\ publisher[p].hash = {} /\ ~publisher[p].overrun
    BY <1>3, <1>5, <2>1 DEF Progress
  <2>3. n = Wholes(Files \ publisher[p].todo)
    <3>1. n = Filled(t, f)
      BY <1>10, <2>2
    <3>2. CutShort(f) \notin Wholes(Files \ (publisher[p].todo \union {f}))
      BY <1>6, FileContents DEF Wholes
    <3>3. Filled(t, f) = Wholes(Files \ (publisher[p].todo \union {f})) \union {Whole(f)}
      BY <2>2, <3>2 DEF Filled
    <3>4. Wholes(Files \ (publisher[p].todo \union {f})) \union {Whole(f)} = Wholes(Files \ publisher[p].todo)
      BY <1>6 DEF Wholes
    <3> QED
      BY <3>1, <3>3, <3>4
  <2>4. CASE publisher[p].todo = {}
    <3>1. Files \ publisher[p].todo = Files /\ Files \ r.todo = {} /\ Wholes({}) = {}
      BY <1>8, <2>4 DEF Wholes
    <3>2. n = WholeTree /\ r.hash = Wholes(Files \ r.todo)
      BY <1>8, <2>2, <2>3, <3>1
    <3>3. r.pc = "hash" /\ ~r.overrun
      BY <1>8, <2>2, <2>4
    <3>4. Progress(r, n)
      BY <3>2, <3>3 DEF Progress
    <3> QED
      BY <1>14, <2>1, <3>4
  <2>5. CASE publisher[p].todo # {}
    <3>1. r.pc = "copy" /\ ~r.overrun /\ r.hash = {} /\ r.todo = publisher[p].todo
      BY <1>8, <2>2, <2>5
    <3>2. Progress(r, n)
      BY <2>3, <3>1 DEF Progress
    <3> QED
      BY <1>14, <2>1, <3>2
  <2> QED
    BY <2>4, <2>5
<1>23. Described(l)'
  <2>1. Described(l)
    BY <1>0, <1>6
  <2>2. l \notin contested => meta[l] \in {Nil, Broken}
    BY <1>0, <1>1, <1>6 DEF Alone
  <2> QED
    BY <1>5, <1>19, <2>1, <2>2 DEF Described
<1>24. ASSUME NEW g \in Files PROVE Secure(l, g)'
  <2>1. Secure(l, g)
    BY <1>0, <1>6
  <2>2. CASE g = f /\ n = Filled(t, f)
    BY <1>9, <1>11, <2>2 DEF Secure
  <2>3. CASE g # f \/ (publisher[p].overrun /\ n = t)
    <3>1. (Whole(g) \in t <=> Whole(g) \in n) /\ (CutShort(g) \in t <=> CutShort(g) \in n)
      BY <1>12, <2>3
    <3>2. ASSUME NEW q \in Publishers, Writes(q, l, g), ~publisher[q].overrun
          PROVE  Writes(q, l, g)' /\ ~publisher'[q].overrun
      <4>1. q # p
        BY <1>3, <2>3, <3>2 DEF Writes
      <4> QED
        BY <1>14, <3>2, <4>1 DEF Writes
    <3>3. Touched(l, g)' => Touched(l, g)
      BY <1>6, <1>17, <1>18, <3>1
    <3>4. CASE l \in abandoned \/ ~Touched(l, g)
      BY <1>5, <3>3, <3>4 DEF Secure
    <3>5. CASE Whole(g) \in tree[l] /\ CutShort(g) \notin tree[l]
      BY <1>2, <1>9, <3>1, <3>5 DEF Secure
    <3>6. CASE \E q \in Publishers : Writes(q, l, g) /\ ~publisher[q].overrun
      BY <3>2, <3>6 DEF Secure
    <3> QED
      BY <2>1, <3>4, <3>5, <3>6 DEF Secure
  <2> QED
    BY <1>10, <2>2, <2>3
<1>25. ASSUME NEW q \in Publishers PROVE Shape(q)' /\ Alone(q)'
  <2>1. CASE q = p
    BY <1>21, <1>22, <2>1
  <2>2. CASE q # p
    <3>1. Alone(q)'
      BY <1>6, <1>16, <2>2, Elsewhere
    <3> QED
      BY <1>20, <2>2, <3>1
  <2> QED
    BY <2>1, <2>2
<1>26. ASSUME NEW k \in Locators PROVE Described(k)' /\ \A g \in Files : Secure(k, g)'
  <2>1. CASE k = l
    BY <1>23, <1>24, <2>1
  <2>2. CASE k # l
    BY <1>6, <1>16, <2>2, Elsewhere
  <2> QED
    BY <2>1, <2>2
<1> QED
  BY <1>15, <1>25, <1>26, Zenon DEF RegistryInv

(* Steps that change no tree: what is left to show is about p and the      *)
(* metadata.                                                               *)
LEMMA SameTree ==
    ASSUME RegistryInv, RegistryTypes', NEW p \in Publishers, NEW l \in Locators, StepOn(p, l),
           publisher[p].release = l, publisher[p] # Resting, tree' = tree,
           \A q \in Publishers : q # p => publisher'[q] = publisher[q],
           publisher[p].pc = "fill" => l \in abandoned',
           Shape(p)', Alone(p)', Described(l)'
    PROVE  RegistryInv'
<1>0. /\ \A q \in Publishers : Shape(q)
      /\ \A k \in Locators : \A f \in Files : Secure(k, f)
  BY DEF RegistryInv
<1>1. \A f \in Files : Touched(l, f) <=> Touched(l, f)'
  BY DEF Touched
<1>2. tree[l] \in SUBSET Contents
  BY <1>0 DEF Shape
<1>3. \A q \in Publishers : q # p => Shape(q)'
  BY <1>1, <1>2, NilFacts, ShapesStand
<1>4. ASSUME NEW f \in Files PROVE Secure(l, f)'
  <2>1. Secure(l, f)
    BY <1>0
  <2>2. ASSUME NEW q \in Publishers, Writes(q, l, f), ~publisher[q].overrun, l \notin abandoned'
        PROVE  Writes(q, l, f)' /\ ~publisher'[q].overrun
    <3>1. q # p
      BY <2>2 DEF Writes
    <3> QED
      BY <2>2, <3>1 DEF Writes
  <2>3. l \in abandoned => l \in abandoned'
    BY DEF StepOn
  <2> QED
    BY <1>1, <2>1, <2>2, <2>3 DEF Secure
<1> QED
  BY <1>3, <1>4, Elsewhere DEF RegistryInv

LEMMA HashFileStep ==
    ASSUME RegistryInv, NEW p \in Publishers, NEW f \in Files, HashFile(p, f)
    PROVE  RegistryInv'
<1> USE NilFacts, RestingFacts
<1>0. /\ RegistryTypes
      /\ \A q \in Publishers : Shape(q) /\ Alone(q)
      /\ \A k \in Locators : Described(k)
  BY DEF RegistryInv
<1>1. PICK l : l = publisher[p].release
  OBVIOUS
<1>2. PICK rest : rest = publisher[p].todo \ {f}
  OBVIOUS
<1>3. PICK read : read = {c \in tree[l] : c[1] = f}
  OBVIOUS
<1>4. PICK next : next = IF publisher[p].todo = {f} THEN "write" ELSE "hash"
  OBVIOUS
<1>5. PICK r : r = Hashed(publisher[p], f, tree[l])
  OBVIOUS
<1>6. /\ publisher[p].pc = "hash" /\ f \in publisher[p].todo
      /\ tree' = tree /\ meta' = meta /\ contested' = contested /\ abandoned' = abandoned
      /\ publisher' = [publisher EXCEPT ![p] = r]
  BY <1>1, <1>5 DEF HashFile
<1>7. publisher[p] \in Publications /\ publisher \in [Publishers -> Publications]
  BY <1>0 DEF RegistryTypes
<1>8. r = [publisher[p] EXCEPT !.pc = next, !.todo = rest, !.hash = publisher[p].hash \union read]
  BY <1>2, <1>3, <1>4, <1>5 DEF Hashed
<1>9. l \in Locators /\ tree[l] \in SUBSET Contents /\ publisher[p] # Resting
  BY <1>0, <1>1, <1>6 DEF Shape
<1>10. /\ r \in Publications /\ r.release = l /\ r.todo = rest /\ r.pc = next /\ r.hash = publisher[p].hash \union read
       /\ r.overrun = publisher[p].overrun
  <2>1. rest \in SUBSET Files /\ next \in {"write", "hash"} /\ publisher[p].hash \union read \in SUBSET Contents
    BY <1>2, <1>3, <1>4, <1>7, <1>9 DEF Publications
  <2> QED
    BY <1>1, <1>7, <1>8, <2>1 DEF Publications
<1>11. publisher'[p] = r /\ \A q \in Publishers : q # p => publisher'[q] = publisher[q]
  BY <1>6, <1>7
<1>12. RegistryTypes'
  BY <1>0, <1>6, <1>10 DEF RegistryTypes
<1>13. StepOn(p, l)
  BY <1>1, <1>6, <1>10, <1>11 DEF StepOn
<1>14. Shape(p)'
  <2>1. \A g \in Files : Touched(l, g)'
    BY <1>0, <1>1, <1>6, <1>9 DEF Shape, Copying, Touched
  <2>2. r.pc \in {"hash", "write"}
    BY <1>4, <1>10
  <2> QED
    BY <1>6, <1>9, <1>10, <1>11, <2>1, <2>2 DEF Shape, Touched
<1>15. Alone(p)'
  <2> SUFFICES ASSUME l \notin contested
               PROVE  /\ \A q \in Publishers : publisher'[q].release = l => q = p
                      /\ meta[l] \in {Nil, Broken}
                      /\ Progress(r, tree[l])
    BY <1>6, <1>10, <1>11 DEF Alone
  <2>1. /\ \A q \in Publishers : publisher[q].release = l => q = p
        /\ meta[l] \in {Nil, Broken} /\ Progress(publisher[p], tree[l])
    BY <1>0, <1>1, <1>9 DEF Alone
  <2>2. tree[l] = WholeTree /\ publisher[p].hash = Wholes(Files \ publisher[p].todo) /\ ~publisher[p].overrun
    BY <1>6, <2>1 DEF Progress
  <2>3. read = {Whole(f)}
    BY <1>3, <2>2, FileContents DEF WholeTree
  <2>4. r.hash = Wholes(Files \ r.todo)
    <3>1. Wholes(Files \ publisher[p].todo) \union {Whole(f)} = Wholes(Files \ rest)
      BY <1>2, <1>6 DEF Wholes
    <3> QED
      BY <1>10, <2>2, <2>3, <3>1
  <2>5. rest = {} => Wholes(Files \ rest) = WholeTree
    BY DEF Wholes, WholeTree
  <2>6. Progress(r, tree[l])
    <3>1. r.pc = "write" => rest = {}
      BY <1>2, <1>4, <1>10
    <3>2. r.pc \in {"hash", "write"}
      BY <1>4, <1>10
    <3> QED
      BY <1>10, <2>2, <2>4, <2>5, <3>1, <3>2 DEF Progress
  <2> QED
    BY <1>11, <2>1, <2>6
<1>16. Described(l)'
  BY <1>0, <1>6, <1>9 DEF Described, Touched
<1> QED
  BY <1>1, <1>6, <1>9, <1>11, <1>12, <1>13, <1>14, <1>15, <1>16, SameTree

LEMMA WriteMetadataStep ==
    ASSUME RegistryInv, NEW p \in Publishers, WriteMetadata(p)
    PROVE  RegistryInv'
<1> USE NilFacts, RestingFacts
<1>0. /\ RegistryTypes
      /\ \A q \in Publishers : Shape(q) /\ Alone(q)
  BY DEF RegistryInv
<1>1. PICK l : l = publisher[p].release
  OBVIOUS
<1>2. PICK h : h = publisher[p].hash
  OBVIOUS
<1>3. /\ publisher[p].pc = "write" /\ tree' = tree /\ contested' = contested /\ abandoned' = abandoned
      /\ meta' = [meta EXCEPT ![l] = h]
      /\ publisher' = [publisher EXCEPT ![p] = Resting]
  BY <1>1, <1>2 DEF WriteMetadata
<1>4. l \in Locators /\ publisher[p] # Resting /\ \A f \in Files : Touched(l, f)
  BY <1>0, <1>1, <1>3 DEF Shape, Copying
<1>5. h \in SUBSET Contents
  BY <1>0, <1>2 DEF RegistryTypes, Publications
<1>6. RegistryTypes'
  BY <1>0, <1>3, <1>5 DEF RegistryTypes, Trees
<1>7. /\ publisher'[p] = Resting /\ \A q \in Publishers : q # p => publisher'[q] = publisher[q]
      /\ meta'[l] = h /\ \A k \in Locators : k # l => meta'[k] = meta[k]
  BY <1>0, <1>3, <1>4 DEF RegistryTypes
<1>8. StepOn(p, l)
  BY <1>1, <1>3, <1>7 DEF StepOn
<1>9. Shape(p)' /\ Alone(p)'
  BY <1>7 DEF Shape, Alone
<1>10. Described(l)'
  <2>1. l \notin contested => tree[l] = WholeTree /\ h = WholeTree
    BY <1>0, <1>1, <1>2, <1>3, <1>4 DEF Alone, Progress
  <2>2. \A f \in Files : Touched(l, f)'
    BY <1>3, <1>4 DEF Touched
  <2> QED
    BY <1>3, <1>7, <2>1, <2>2 DEF Described
<1> QED
  BY <1>1, <1>3, <1>4, <1>6, <1>7, <1>8, <1>9, <1>10, SameTree

LEMMA PublisherStopsStep ==
    ASSUME RegistryInv, NEW p \in Publishers, PublisherStops(p)
    PROVE  RegistryInv'
<1> USE NilFacts, RestingFacts
<1>0. /\ RegistryTypes
      /\ \A q \in Publishers : Shape(q)
      /\ \A k \in Locators : Described(k)
  BY DEF RegistryInv
<1>1. PICK l : l = publisher[p].release
  OBVIOUS
<1>2. /\ publisher[p] # Resting /\ tree' = tree /\ contested' = contested
      /\ abandoned' = abandoned \union {k \in {l} : Copying(p)}
      /\ meta' = meta \/ meta' = [meta EXCEPT ![l] = Broken]
      /\ publisher' = [publisher EXCEPT ![p] = Resting]
  BY <1>1 DEF PublisherStops
<1>3. l \in Locators
  BY <1>0, <1>1, <1>2 DEF Shape
<1>4. RegistryTypes'
  BY <1>0, <1>2, <1>3 DEF RegistryTypes
<1>5. /\ publisher'[p] = Resting /\ \A q \in Publishers : q # p => publisher'[q] = publisher[q]
      /\ meta'[l] \in {meta[l], Broken} /\ \A k \in Locators : k # l => meta'[k] = meta[k]
  BY <1>0, <1>2, <1>3 DEF RegistryTypes
<1>6. StepOn(p, l)
  BY <1>1, <1>2, <1>5 DEF StepOn
<1>7. Shape(p)' /\ Alone(p)'
  BY <1>5 DEF Shape, Alone
<1>8. Described(l)'
  BY <1>0, <1>2, <1>3, <1>5 DEF Described, Touched
<1>9. publisher[p].pc = "fill" => l \in abandoned'
  BY <1>2 DEF Copying
<1> QED
  BY <1>1, <1>2, <1>3, <1>4, <1>5, <1>6, <1>7, <1>8, <1>9, SameTree

(* The registry's part of every step. *)
LEMMA RegistryStep ==
    ASSUME RegistryInv, [Next]_vars
    PROVE  RegistryInv'
<1>1. CASE UNCHANGED registryVars
  BY <1>1 DEF registryVars, RegistryInv, RegistryTypes, Shape, Alone, Described, Secure, Touched, Writes, Copying
<1>2. CASE Publishing
  BY <1>2, BeginPublishStep, OpenFileStep, FillFileStep, HashFileStep, WriteMetadataStep,
     PublisherStopsStep DEF Publishing
<1>3. CASE Next /\ ~Publishing
  <2> USE DEF registryVars
  <2>1. EditManifest \/ Unlist \/ Pin \/ Clear => UNCHANGED registryVars
    BY DEF EditManifest, Unlist, Pin, Clear
  <2>2. BeginLock \/ BeginInstall \/ BeginUpdate \/ (\E n \in Asked : BeginRemove(n)) => UNCHANGED registryVars
    BY DEF Begin, BeginLock, BeginInstall, BeginUpdate, BeginRemove
  <2>3. Place \/ Seal \/ AllPlaced \/ WriteDepFile => UNCHANGED registryVars
    <3>1. Place \/ Seal => UNCHANGED registryVars
      BY Zenon DEF Place, Seal
    <3>2. AllPlaced \/ WriteDepFile => UNCHANGED registryVars
      BY DEF AllPlaced, WriteDepFile
    <3> QED
      BY <3>1, <3>2
  <2>4. CommandStops => UNCHANGED registryVars
    BY Zenon DEF CommandStops
  <2> QED
    BY <1>1, <1>3, <2>1, <2>2, <2>3, <2>4 DEF Next
<1>4. CASE UNCHANGED vars
  BY <1>1, <1>4 DEF vars, registryVars
<1> QED
  BY <1>2, <1>3, <1>4

-----------------------------------------------------------------------------
(* What the registry's releases need                                       *)

(* A growing chain of sets that stands still once it has not grown, and    *)
(* that is within a finite set at the number of its elements, has stopped  *)
(* there.                                                                  *)
LEMMA Saturates ==
    ASSUME NEW L, IsFiniteSet(L), NEW c,
           \A n \in Nat : c[n] \subseteq c[n + 1],
           \A n \in Nat : c[n + 1] = c[n] => c[(n + 1) + 1] = c[n + 1],
           c[0] = {} => c[1] = {},
           c[Cardinality(L)] \subseteq L
    PROVE  c[Cardinality(L) + 1] = c[Cardinality(L)]
<1> DEFINE K == Cardinality(L)
<1>1. K \in Nat
  BY FS_CardinalityType
<1>2. ASSUME NEW i \in Nat, i <= K PROVE c[i] \subseteq c[K]
  <2> DEFINE P == {j \in Nat : i <= j => c[i] \subseteq c[j]}
  <2>1. 0 \in P
    OBVIOUS
  <2>2. ASSUME NEW j \in P PROVE j + 1 \in P
    <3>1. CASE i <= j
      BY <3>1
    <3>2. CASE ~(i <= j)
      <4>1. i <= j + 1 => i = j + 1
        BY <3>2
      <4> QED
        BY <4>1
    <3> QED
      BY <3>1, <3>2
  <2>3. P = Nat
    <3> HIDE DEF P
    <3> QED
      BY <2>1, <2>2, AllNaturals DEF P
  <2> QED
    BY <1>1, <1>2, <2>3
<1>3. SUFFICES ASSUME c[K + 1] # c[K] PROVE FALSE
  OBVIOUS
<1>4. ASSUME NEW i \in Nat, i <= K PROVE c[i + 1] # c[i]
  <2> SUFFICES ASSUME c[i + 1] = c[i] PROVE FALSE
    OBVIOUS
  <2> DEFINE P == {j \in Nat : i <= j => c[j + 1] = c[j]}
  <2>1. 0 \in P
    OBVIOUS
  <2>2. ASSUME NEW j \in P PROVE j + 1 \in P
    <3>1. CASE i <= j
      BY <3>1
    <3>2. CASE ~(i <= j)
      <4>1. i <= j + 1 => i = j + 1
        BY <3>2
      <4> QED
        BY <4>1
    <3> QED
      BY <3>1, <3>2
  <2>3. P = Nat
    <3> HIDE DEF P
    <3> QED
      BY <2>1, <2>2, AllNaturals DEF P
  <2> QED
    BY <1>1, <1>3, <1>4, <2>3
<1>5. c[0] # {}
  <2>1. 0 \in Nat /\ 0 <= K /\ 0 + 1 = 1
    BY <1>1
  <2>2. c[0 + 1] # c[0]
    BY <1>4, <2>1
  <2> QED
    BY <2>1, <2>2
<1>6. ASSUME NEW i \in Nat, i <= K PROVE IsFiniteSet(c[i]) /\ Cardinality(c[i]) \in Nat
  <2>1. c[i] \in SUBSET L
    BY <1>2, <1>6
  <2>2. IsFiniteSet(c[i])
    BY <2>1, FS_Subset
  <2> QED
    BY <2>2, FS_CardinalityType
<1> DEFINE P == {i \in Nat : i <= K => i + 1 <= Cardinality(c[i])}
<1>7. 0 \in P
  <2>1. IsFiniteSet(c[0]) /\ Cardinality(c[0]) \in Nat
    BY <1>1, <1>6
  <2>2. Cardinality(c[0]) # 0
    BY <1>5, <2>1, FS_EmptySet
  <2> QED
    BY <2>1, <2>2
<1>8. ASSUME NEW i \in P PROVE i + 1 \in P
  <2> SUFFICES ASSUME i + 1 <= K PROVE (i + 1) + 1 <= Cardinality(c[i + 1])
    OBVIOUS
  <2>1. i \in Nat /\ i + 1 \in Nat /\ i <= K
    BY <1>1
  <2> DEFINE x == Cardinality(c[i])
             y == Cardinality(c[i + 1])
  <2>2. x \in Nat /\ y \in Nat /\ IsFiniteSet(c[i + 1])
    BY <1>6, <2>1
  <2>3. c[i] \in SUBSET c[i + 1] /\ c[i] # c[i + 1]
    BY <1>4, <2>1
  <2>4. x <= y /\ x # y
    BY <2>2, <2>3, FS_Subset
  <2>5. i + 1 <= x
    BY <2>1
  <2> HIDE DEF x, y
  <2> QED
    BY <2>1, <2>2, <2>4, <2>5 DEF y
<1>9. P = Nat
  <2> HIDE DEF P
  <2> QED
    BY <1>7, <1>8, AllNaturals DEF P
<1>10. K + 1 <= Cardinality(c[K]) /\ Cardinality(c[K]) \in Nat
  BY <1>1, <1>6, <1>9
<1>11. Cardinality(c[K]) <= K
  <2>1. c[K] \in SUBSET L
    OBVIOUS
  <2> QED
    BY <2>1, FS_Subset
<1> QED
  BY <1>1, <1>10, <1>11

(* The stages that Closure is the last of. *)
LEMMA ClosureStages ==
    ASSUME NEW S
    PROVE  \E c : /\ c[0] = S
                  /\ \A n \in Nat : c[n + 1] = c[n] \union UNION {Needs(l) : l \in c[n]}
                  /\ Closure(S) = c[Cardinality(Locators)]
<1> DEFINE U == S \union UNION {Needs(l) : l \in Locators}
           T == SUBSET U
           F == [X \in T |-> X \union UNION {Needs(l) : l \in X}]
           G(g) == [n \in Nat |-> IF n = 0 THEN S ELSE g[n - 1] \union UNION {Needs(l) : l \in g[n - 1]}]
           step == CHOOSE g : g = G(g)
<1>1. \A l : Needs(l) \subseteq U
  BY DEF Needs, Loadable
<1>2. F \in [T -> T]
  BY <1>1
<1>3. S \in T
  OBVIOUS
<1>4. PICK f : f \in [Nat -> T] /\ f[0] = S /\ \A n \in Nat : f[n + 1] = F[f[n]]
  <2> HIDE DEF T, F
  <2>1. \E f : Iterates(f, T, F, S)
    BY <1>2, <1>3, Iteration
  <2> QED
    BY <2>1 DEF Iterates
<1>5. f = G(f)
  <2>1. ASSUME NEW n \in Nat
        PROVE  f[n] = IF n = 0 THEN S ELSE f[n - 1] \union UNION {Needs(l) : l \in f[n - 1]}
    <3>1. CASE n = 0
      BY <1>4, <3>1
    <3>2. CASE n # 0
      <4>1. n - 1 \in Nat /\ (n - 1) + 1 = n
        BY <3>2
      <4>2. f[n] = F[f[n - 1]] /\ f[n - 1] \in T
        BY <1>4, <4>1
      <4> QED
        BY <3>2, <4>2
    <3> QED
      BY <3>1, <3>2
  <2> QED
    BY <1>4, <2>1
<1>6. step = G(step)
  BY <1>5
<1> HIDE DEF step
<1>7. step[0] = S
  BY <1>6
<1>8. ASSUME NEW n \in Nat PROVE step[n + 1] = step[n] \union UNION {Needs(l) : l \in step[n]}
  <2>1. n + 1 \in Nat /\ n + 1 # 0 /\ (n + 1) - 1 = n
    OBVIOUS
  <2> QED
    BY <1>6, <2>1
<1>9. Closure(S) = step[Cardinality(Locators)]
  BY Zenon DEF Closure, step
<1> QED
  BY <1>7, <1>8, <1>9

(* Closure(S) is the least set that holds S and what its members need, if  *)
(* it holds nothing that the registry does not have.                       *)
LEMMA ClosureIs ==
    ASSUME NEW S, Closure(S) \subseteq Locators
    PROVE  S \subseteq Closure(S) /\ \A l \in Closure(S) : Needs(l) \subseteq Closure(S)
<1> DEFINE K == Cardinality(Locators)
<1>1. PICK c : /\ c[0] = S
               /\ \A n \in Nat : c[n + 1] = c[n] \union UNION {Needs(l) : l \in c[n]}
               /\ Closure(S) = c[K]
  BY ClosureStages
<1>2. K \in Nat /\ IsFiniteSet(Locators)
  BY RegistryAssumption, FS_CardinalityType
<1> HIDE DEF K
<1>3. \A n \in Nat : c[n] \subseteq c[n + 1]
  BY <1>1
<1>4. S \subseteq c[K]
  <2> DEFINE P == {n \in Nat : S \subseteq c[n]}
  <2>1. 0 \in P
    BY <1>1
  <2>2. \A n \in P : n + 1 \in P
    BY <1>3
  <2>3. P = Nat
    <3> HIDE DEF P
    <3> QED
      BY <2>1, <2>2, AllNaturals DEF P
  <2> QED
    BY <1>2, <2>3
<1>5. c[K + 1] = c[K]
  <2>1. \A n \in Nat : c[n + 1] = c[n] => c[(n + 1) + 1] = c[n + 1]
    <3> SUFFICES ASSUME NEW n \in Nat, c[n + 1] = c[n] PROVE c[(n + 1) + 1] = c[n + 1]
      OBVIOUS
    <3>1. n + 1 \in Nat
      OBVIOUS
    <3>2. c[(n + 1) + 1] = c[n + 1] \union UNION {Needs(l) : l \in c[n + 1]}
      BY <1>1, <3>1
    <3>3. c[n + 1] = c[n] \union UNION {Needs(l) : l \in c[n]}
      BY <1>1
    <3> QED
      BY <3>2, <3>3
  <2>2. c[0] = {} => c[1] = {}
    <3>1. c[0 + 1] = c[0] \union UNION {Needs(l) : l \in c[0]}
      BY <1>1
    <3> QED
      BY <3>1
  <2>3. c[Cardinality(Locators)] \subseteq Locators
    BY <1>1 DEF K
  <2>4. c[Cardinality(Locators) + 1] = c[Cardinality(Locators)]
    BY <1>2, <1>3, <2>1, <2>2, <2>3, Saturates
  <2> QED
    BY <2>4 DEF K
<1>6. \A l \in c[K] : Needs(l) \subseteq c[K]
  <2>1. c[K + 1] = c[K] \union UNION {Needs(l) : l \in c[K]}
    BY <1>1, <1>2
  <2> QED
    BY <1>5, <2>1
<1> QED
  BY <1>1, <1>4, <1>6

LEMMA ClosureLeast ==
    ASSUME NEW S, NEW M, S \subseteq M, \A l \in M : Needs(l) \subseteq M
    PROVE  Closure(S) \subseteq M
<1>1. PICK c : /\ c[0] = S
               /\ \A n \in Nat : c[n + 1] = c[n] \union UNION {Needs(l) : l \in c[n]}
               /\ Closure(S) = c[Cardinality(Locators)]
  BY ClosureStages
<1> DEFINE P == {n \in Nat : c[n] \subseteq M}
<1>2. 0 \in P
  BY <1>1
<1>3. \A n \in P : n + 1 \in P
  BY <1>1
<1>4. P = Nat
  <2> HIDE DEF P
  <2> QED
    BY <1>2, <1>3, AllNaturals DEF P
<1>5. Cardinality(Locators) \in Nat
  BY RegistryAssumption, FS_CardinalityType
<1> QED
  BY <1>1, <1>4, <1>5

-----------------------------------------------------------------------------
(* What a lock records                                                     *)

LEMMA NewestIs ==
    ASSUME NEW S \in SUBSET Version, IsFiniteSet(S), S # {}
    PROVE  Newest(S) \in S
<1> DEFINE After(x) == {y \in S : Before(x, y)}
           T == {After(x) : x \in S}
           R == StrictSubsetOrdering(S)
<1>1. IsWellFoundedOn(R, SUBSET S)
  BY FS_StrictSubsetOrderingWellFounded, FS_FiniteSubsetsOfFinite
<1>2. T \subseteq SUBSET S /\ T # {}
  OBVIOUS
<1>3. \E m \in T : \A y \in T : ~(<<y, m>> \in R)
  <2> HIDE DEF R, T
  <2> QED
    BY <1>1, <1>2, WFMin
<1>4. PICK x \in S : \A y \in S : ~(<<After(y), After(x)>> \in R)
  BY <1>3
<1>5. ASSUME NEW y \in S, Before(x, y) PROVE FALSE
  <2>1. x \in Version /\ y \in Version
    OBVIOUS
  <2>2. \A z \in S : Before(y, z) => Before(x, z)
    BY <1>5, <2>1 DEF Before, Version
  <2>3. ~Before(y, y)
    BY <2>1 DEF Before, Version
  <2>4. After(y) \subseteq After(x) /\ After(y) # After(x)
    BY <1>5, <2>2, <2>3
  <2>5. <<After(y), After(x)>> \in R
    BY <2>4 DEF StrictSubsetOrdering
  <2> QED
    BY <1>4, <2>5
<1> QED
  BY <1>5, Zenon DEF Newest

(* A request that is resolved is met. *)
LEMMA ResolveIs ==
    ASSUME NEW n, NEW r \in Request, Resolve(n, r) # Nil
    PROVE  Resolve(n, r) \in Versions /\ Compatible(Resolve(n, r), r)
<1> DEFINE C == Candidates(n, r)
           v == [l \in Locators |-> l.version]
<1>1. Versions \subseteq Version /\ IsFiniteSet(Versions)
  <2>1. v \in Surjection(Locators, Versions)
    BY DEF Surjection, Versions
  <2> QED
    BY <2>1, RegistryAssumption, FS_Surjection DEF Versions
<1>2. C \in SUBSET Versions /\ \A x \in C : Matches(x, r)
  BY DEF Candidates, Versions
<1>3. C # {} /\ Resolve(n, r) = Newest(C)
  BY DEF Resolve
<1> HIDE DEF C
<1>4. IsFiniteSet(C)
  BY <1>1, <1>2, FS_Subset
<1>5. Newest(C) \in C
  BY <1>1, <1>2, <1>3, <1>4, NewestIs
<1> QED
  BY <1>1, <1>2, <1>3, <1>5, MatchesIsCompatible

NeedsIn(k, l) == LocatorsOf(k.packages[l].deps)

(* No release is among what it needs, what that needs and so on: there is  *)
(* a set that holds all of it and not the release.                         *)
Acyclic(k) ==
    \A l \in DOMAIN k.packages : \E M \in SUBSET DOMAIN k.packages :
        /\ NeedsIn(k, l) \subseteq M
        /\ \A x \in M : NeedsIn(k, x) \subseteq M
        /\ l \notin M

Closed(k) ==
    /\ LocatorsOf(k.direct) \subseteq DOMAIN k.packages
    /\ \A l \in DOMAIN k.packages : NeedsIn(k, l) \subseteq DOMAIN k.packages

Met(k) ==
    \A l \in DOMAIN k.packages : \A n \in DOMAIN Releases[l] :
        n \in DOMAIN k.packages[l].deps /\ Compatible(k.packages[l].deps[n], Releases[l][n])

WholeLock(k) ==
    /\ DOMAIN k.direct \subseteq Names /\ DOMAIN k.packages \subseteq Locators
    /\ k \in Locks(DOMAIN k.direct, DOMAIN k.packages)

SoundLock(k) == WholeLock(k) /\ Closed(k) /\ Acyclic(k) /\ Met(k)

(* A resolution of dependencies that are all in the registry. *)
LEMMA ResolvedAll ==
    ASSUME NEW d, Dependencies(d), LocatorsOf(ResolveAll(d)) \subseteq Locators
    PROVE  /\ DOMAIN ResolveAll(d) = DOMAIN d /\ DOMAIN d \subseteq Names
           /\ ResolveAll(d) \in [DOMAIN d -> Versions]
           /\ \A n \in DOMAIN d : Compatible(ResolveAll(d)[n], d[n])
<1>1. DOMAIN ResolveAll(d) = DOMAIN d /\ \A n \in DOMAIN d : ResolveAll(d)[n] = Resolve(n, d[n])
  BY DEF ResolveAll
<1>2. ASSUME NEW n \in DOMAIN d
      PROVE  /\ n \in Names /\ Resolve(n, d[n]) \in Versions
             /\ Compatible(Resolve(n, d[n]), d[n])
  <2> DEFINE v == Resolve(n, d[n])
  <2>1. At(n, v) \in Locators
    BY <1>1 DEF LocatorsOf
  <2>2. At(n, v).name = n /\ At(n, v).version = v
    BY DEF At
  <2>3. n \in Names /\ v \in Versions
    BY <2>1, <2>2 DEF Names, Versions
  <2>4. v # Nil /\ d[n] \in Request
    BY <2>3, NilAssumption DEF Dependencies
  <2> QED
    BY <2>3, <2>4, ResolveIs
<1>3. ResolveAll(d) = [n \in DOMAIN d |-> ResolveAll(d)[n]]
  BY DEF ResolveAll
<1> QED
  BY <1>1, <1>2, <1>3

LEMMA LockForIsSound ==
    ASSUME RegistryInv, NEW d, Dependencies(d), Lockable(d)
    PROVE  SoundLock(LockFor(d))
<1> DEFINE S == LocatorsOf(ResolveAll(d))
           C == Closure(S)
           k == LockFor(d)
<1>1. \A l \in C : Loadable(l) /\ meta[l] # Broken /\ l \notin Closure(Needs(l))
  BY DEF Lockable
<1>2. C \subseteq Locators
  BY <1>1 DEF Loadable
<1>3. S \subseteq C /\ \A l \in C : Needs(l) \subseteq C
  BY <1>2, ClosureIs
<1>4. k.direct = ResolveAll(d) /\ k.packages = [l \in C |-> LockEntry(l)] /\ DOMAIN k.packages = C
      /\ k = [direct |-> k.direct, packages |-> k.packages]
  BY DEF LockFor
<1> HIDE DEF k
<1>5. ASSUME NEW l \in C
      PROVE  /\ k.packages[l] = LockEntry(l) /\ k.packages[l].deps = ResolveAll(Releases[l])
             /\ k.packages[l].integrity = Integrity(l)
             /\ NeedsIn(k, l) = Needs(l)
             /\ LocatorsOf(ResolveAll(Releases[l])) \subseteq Locators
             /\ Dependencies(Releases[l])
  <2>1. k.packages[l] = LockEntry(l)
    BY <1>4
  <2>2. k.packages[l].deps = ResolveAll(Releases[l]) /\ k.packages[l].integrity = Integrity(l)
    BY <2>1 DEF LockEntry
  <2>3. Needs(l) = LocatorsOf(ResolveAll(Releases[l]))
    BY <1>1 DEF Needs
  <2>4. NeedsIn(k, l) = Needs(l)
    BY <2>2, <2>3 DEF NeedsIn
  <2>5. Needs(l) \subseteq Locators
    BY <1>2, <1>3
  <2>6. Dependencies(Releases[l])
    BY <1>2, RegistryAssumption
  <2> HIDE DEF C
  <2> QED
    BY <2>1, <2>2, <2>3, <2>4, <2>5, <2>6
<1> DEFINE D == DOMAIN d
<1>6. k.direct \in [D -> Versions] /\ DOMAIN k.direct = D /\ D \subseteq Names
  <2>1. Dependencies(d) /\ S \subseteq Locators
    BY <1>2, <1>3 
  <2> QED
    BY <1>4, <2>1, ResolvedAll
<1>7. ASSUME NEW l \in C PROVE k.packages[l] \in [deps : Pins, integrity : SUBSET Contents]
  <2> DEFINE r == Releases[l]
  <2>1. ResolveAll(r) \in [DOMAIN r -> Versions] /\ DOMAIN r \in SUBSET Names
    BY <1>5, ResolvedAll
  <2>2. ResolveAll(r) \in Pins
    BY <2>1 DEF Pins
  <2>3. Integrity(l) \in SUBSET Contents
    <3>1. /\ tree[l] \in Trees /\ tree[l] # Nil
          /\ meta[l] \in Trees \union {Broken} /\ meta[l] # Broken
      BY <1>1, <1>2 DEF Loadable, RegistryInv, RegistryTypes
    <3> QED
      BY <3>1 DEF Integrity, Trees
  <2>4. k.packages[l] = [deps |-> ResolveAll(r), integrity |-> Integrity(l)]
    BY <1>5 DEF LockEntry
  <2> QED
    BY <2>2, <2>3, <2>4
<1>8. WholeLock(k)
  <2>1. k.packages \in [C -> [deps : Pins, integrity : SUBSET Contents]]
    BY <1>4, <1>7
  <2>2. k \in Locks(D, C)
    BY <1>4, <1>6, <2>1 DEF Locks
  <2> HIDE DEF C, D
  <2> QED
    BY <1>2, <1>4, <1>6, <2>2 DEF WholeLock
<1>9. Closed(k)
  BY <1>3, <1>4, <1>5 DEF Closed
<1>10. Acyclic(k)
  <2> SUFFICES ASSUME NEW l \in C
               PROVE  \E M \in SUBSET C : /\ NeedsIn(k, l) \subseteq M
                                          /\ \A x \in M : NeedsIn(k, x) \subseteq M
                                          /\ l \notin M
    BY <1>4 DEF Acyclic
  <2> DEFINE M == Closure(Needs(l))
  <2>1. M \subseteq C
    BY <1>3, ClosureLeast
  <2>2. Needs(l) \subseteq M /\ \A x \in M : Needs(x) \subseteq M
    BY <1>2, <2>1, ClosureIs
  <2>3. l \notin M
    BY <1>1
  <2> HIDE DEF M, C
  <2> QED
    BY <1>5, <2>1, <2>2, <2>3
<1>11. Met(k)
  <2> SUFFICES ASSUME NEW l \in C, NEW n \in DOMAIN Releases[l]
               PROVE  /\ n \in DOMAIN ResolveAll(Releases[l])
                      /\ Compatible(ResolveAll(Releases[l])[n], Releases[l][n])
    BY <1>4, <1>5 DEF Met
  <2> QED
    BY <1>5, ResolvedAll
<1> QED
  BY <1>8, <1>9, <1>10, <1>11 DEF SoundLock, k

-----------------------------------------------------------------------------
(* What a lock must be, as the definitions of Packages compute it          *)

LEMMA SoundIsClosed ==
    ASSUME Locked, SoundLock(lock)
    PROVE  LockIsClosed
<1> DEFINE D == DOMAIN lock.packages
           T == [D -> SUBSET D]
           B == [l \in D |-> LockedNeeds(l)]
           N(X) == [l \in D |-> X[l] \union UNION {LockedNeeds(k) : k \in X[l]}]
           F == [X \in T |-> N(X)]
           G(g) == [n \in Nat |-> IF n = 0 THEN [l \in DOMAIN lock.packages |-> LockedNeeds(l)]
                                  ELSE [l \in DOMAIN lock.packages |->
                                          g[n - 1][l] \union UNION {LockedNeeds(k) : k \in g[n - 1][l]}]]
           reach == CHOOSE g : g = G(g)
<1>1. /\ LocatorsOf(lock.direct) \subseteq D /\ \A l \in D : LockedNeeds(l) \subseteq D
      /\ Acyclic(lock)
  BY DEF SoundLock, Closed, NeedsIn, LockedNeeds
<1>2. B \in T /\ \A X \in T : N(X) \in T
  BY <1>1
<1>3. F \in [T -> T]
  BY <1>2
<1>4. PICK f : f \in [Nat -> T] /\ f[0] = B /\ \A n \in Nat : f[n + 1] = N(f[n])
  <2>1. \E f : Iterates(f, T, F, B)
    <3> HIDE DEF T, F, B
    <3> QED
      BY <1>2, <1>3, Iteration
  <2>2. PICK f : Iterates(f, T, F, B)
    BY <2>1
  <2> HIDE DEF N, T, B
  <2>3. f \in [Nat -> T] /\ f[0] = B /\ \A n \in Nat : f[n + 1] = N(f[n])
    BY <2>2 DEF Iterates
  <2> QED
    BY <2>3
<1>5. f = G(f)
  <2>1. ASSUME NEW n \in Nat PROVE f[n] = IF n = 0 THEN B ELSE N(f[n - 1])
    <3> HIDE DEF N, B, T
    <3>1. CASE n = 0
      BY <1>4, <3>1
    <3>2. CASE n # 0
      <4>1. n - 1 \in Nat /\ (n - 1) + 1 = n
        BY <3>2
      <4> QED
        BY <1>4, <3>2, <4>1
    <3> QED
      BY <3>1, <3>2
  <2>2. f = [n \in Nat |-> f[n]]
    BY <1>4
  <2> QED
    BY <2>1, <2>2
<1>6. reach = G(reach)
  BY <1>5, Zenon
<1> HIDE DEF reach
<1>7. reach[0] = B
  BY <1>6
<1>8. ASSUME NEW n \in Nat PROVE reach[n + 1] = N(reach[n])
  <2>1. n + 1 \in Nat /\ n + 1 # 0 /\ (n + 1) - 1 = n
    OBVIOUS
  <2> QED
    BY <1>6, <2>1
<1>9. ASSUME NEW l \in D PROVE l \notin reach[Cardinality(Locators)][l]
  <2>1. PICK M \in SUBSET D : /\ LockedNeeds(l) \subseteq M
                              /\ \A x \in M : LockedNeeds(x) \subseteq M
                              /\ l \notin M
    BY <1>1 DEF Acyclic, NeedsIn, LockedNeeds
  <2> DEFINE P == {n \in Nat : reach[n][l] \subseteq M}
  <2>2. 0 \in P
    BY <1>7, <2>1
  <2>3. ASSUME NEW n \in P PROVE n + 1 \in P
    <3>1. reach[n + 1][l] = reach[n][l] \union UNION {LockedNeeds(k) : k \in reach[n][l]}
      BY <1>8
    <3> QED
      BY <2>1, <3>1
  <2>4. P = Nat
    <3> HIDE DEF P
    <3> QED
      BY <2>2, <2>3, AllNaturals DEF P
  <2>5. Cardinality(Locators) \in Nat
    BY RegistryAssumption, FS_CardinalityType
  <2> QED
    BY <2>1, <2>4, <2>5
<1> HIDE <1>2, <1>3, <1>6, <1>7, <1>8
<1>10. /\ LocatorsOf(lock.direct) \subseteq DOMAIN lock.packages
       /\ \A l \in DOMAIN lock.packages : LockedNeeds(l) \subseteq DOMAIN lock.packages
       /\ \A l \in DOMAIN lock.packages : l \notin reach[Cardinality(Locators)][l]
  BY <1>1, <1>9
<1> HIDE <1>1, <1>9
<1> QED
  BY <1>10, Zenon DEF LockIsClosed, reach

LEMMA SoundIsSound ==
    ASSUME Locked => SoundLock(lock)
    PROVE  LockIsSound
<1>1. LockIsCompatible
  BY DEF LockIsCompatible, SoundLock, Met
<1>2. ~Locked => LockIsClosed
  BY DEF LockIsClosed
<1> QED
  BY <1>1, <1>2, SoundIsClosed DEF LockIsSound

-----------------------------------------------------------------------------
(* The paths of a lock                                                     *)

Path(p) ==
    /\ p \in Seq(DOMAIN lock.packages) /\ p # <<>>
    /\ p[1] \in LocatorsOf(lock.direct)
    /\ \A i \in 1 .. Len(p) - 1 : p[i + 1] \in LockedNeeds(p[i])

Paths == {p \in Seq(DOMAIN lock.packages) : Path(p)}

LEMMA PathStarts ==
    ASSUME SoundLock(lock), NEW l
    PROVE  <<l>> \in Paths <=> l \in LocatorsOf(lock.direct)
<1> DEFINE D == DOMAIN lock.packages
<1>1. LocatorsOf(lock.direct) \subseteq D
  BY DEF SoundLock, Closed
<1>2. <<l>> # <<>> /\ <<l>>[1] = l /\ Len(<<l>>) = 1 /\ 1 .. 1 - 1 = {}
  OBVIOUS
<1>3. ASSUME l \in D PROVE <<l>> \in Seq(D)
  <2> HIDE DEF D
  <2>1. <<l>> \in Seq(D)
    BY <1>3, EmptySeq, AppendProperties
  <2> QED
    BY <2>1
<1> QED
  BY <1>1, <1>2, <1>3 DEF Path, Paths

LEMMA PathGrows ==
    ASSUME SoundLock(lock), NEW p \in Seq(DOMAIN lock.packages), p # <<>>, NEW e
    PROVE  (Append(p, e) \in Paths /\ e \in DOMAIN lock.packages) <=> (p \in Paths /\ e \in LockedNeeds(Last(p)))
<1> DEFINE D == DOMAIN lock.packages
           n == Len(p)
           q == Append(p, e)
<1>1. n \in Nat /\ n >= 1 /\ \A i \in 1 .. n : p[i] \in D
  BY EmptySeq, ElementOfSeq
<1>2. Last(p) = p[n] /\ Last(p) \in D
  BY <1>1 DEF Last
<1>3. LockedNeeds(Last(p)) \subseteq D
  BY <1>2 DEF SoundLock, Closed, NeedsIn, LockedNeeds
<1> SUFFICES ASSUME e \in D PROVE q \in Paths <=> p \in Paths /\ e \in LockedNeeds(Last(p))
  BY <1>3
<1>4. /\ q \in Seq(D) /\ q # <<>> /\ Len(q) = n + 1
      /\ \A i \in 1 .. n : q[i] = p[i]
      /\ q[n + 1] = e
  BY AppendProperties
<1> HIDE DEF n, q, D
<1>5. q[1] = p[1] /\ (n + 1) - 1 = n
  BY <1>1, <1>4
<1>6. (\A i \in 1 .. n : q[i + 1] \in LockedNeeds(q[i]))
        <=> (\A i \in 1 .. n - 1 : p[i + 1] \in LockedNeeds(p[i])) /\ e \in LockedNeeds(p[n])
  <2>1. ASSUME NEW i \in 1 .. n - 1 PROVE i \in 1 .. n /\ q[i] = p[i] /\ q[i + 1] = p[i + 1]
    <3>1. i \in 1 .. n /\ i + 1 \in 1 .. n
      BY <1>1
    <3> QED
      BY <1>4, <3>1
  <2>2. n \in 1 .. n /\ q[n] = p[n]
    BY <1>1, <1>4
  <2>3. \A i \in 1 .. n : i = n \/ i \in 1 .. n - 1
    BY <1>1
  <2> QED
    BY <1>4, <2>1, <2>2, <2>3
<1> QED
  BY <1>2, <1>4, <1>5, <1>6 DEF Path, Paths, n, D

(* No release stands twice on a path. *)
LEMMA PathsAreShort ==
    ASSUME SoundLock(lock), NEW p \in Paths
    PROVE  Len(p) <= Cardinality(Locators)
<1> DEFINE D == DOMAIN lock.packages
           n == Len(p)
<1>1. /\ n \in Nat /\ DOMAIN p = 1 .. n /\ p \in [1 .. n -> D]
      /\ \A i \in 1 .. n - 1 : p[i + 1] \in LockedNeeds(p[i])
  BY LenProperties DEF Paths, Path
<1>2. D \subseteq Locators /\ Acyclic(lock)
  BY DEF SoundLock, WholeLock
<1> HIDE DEF D, n
<1>3. ASSUME NEW i \in 1 .. n, NEW j \in 1 .. n, i < j PROVE p[i] # p[j]
  <2>1. PICK M \in SUBSET D : /\ LockedNeeds(p[i]) \subseteq M
                              /\ \A x \in M : LockedNeeds(x) \subseteq M
                              /\ p[i] \notin M
    BY <1>1, <1>2 DEF Acyclic, NeedsIn, LockedNeeds, D
  <2> DEFINE P == {h \in Nat : i < h /\ h <= n => p[h] \in M}
  <2>2. 0 \in P
    OBVIOUS
  <2>3. ASSUME NEW h \in P, i < h + 1, h + 1 <= n PROVE p[h + 1] \in M
    <3>1. h \in Nat /\ h \in 1 .. n - 1 /\ i <= h
      BY <1>1, <2>3
    <3>2. p[h + 1] \in LockedNeeds(p[h])
      BY <1>1, <3>1
    <3>3. CASE i = h
      BY <2>1, <3>2, <3>3
    <3>4. CASE i # h
      <4>1. i < h /\ h <= n
        BY <1>1, <3>1, <3>4
      <4>2. p[h] \in M
        BY <4>1
      <4> QED
        BY <2>1, <3>2, <4>2
    <3> QED
      BY <3>3, <3>4
  <2>4. P = Nat
    <3>1. \A h \in P : h + 1 \in P
      BY <2>3
    <3> HIDE DEF P
    <3> QED
      BY <2>2, <3>1, AllNaturals DEF P
  <2>5. j \in Nat /\ j <= n
    BY <1>1
  <2>6. p[j] \in M
    BY <1>3, <2>4, <2>5
  <2> QED
    BY <2>1, <2>6
<1>4. p \in Injection(1 .. n, Locators)
  <2>1. \A i \in 1 .. n, j \in 1 .. n : p[i] = p[j] => i = j
    <3> SUFFICES ASSUME NEW i \in 1 .. n, NEW j \in 1 .. n, p[i] = p[j], i # j PROVE FALSE
      OBVIOUS
    <3>1. i < j \/ j < i
      BY <1>1
    <3> QED
      BY <1>3, <3>1
  <2>2. p \in [1 .. n -> Locators]
    BY <1>1, <1>2
  <2> QED
    BY <2>1, <2>2, <1>1 DEF Injection, IsInjective
<1> DEFINE I == 1 .. n
<1>5. IsFiniteSet(I) /\ Cardinality(I) = n
  BY <1>1, FS_Interval
<1>6. p \in Injection(I, Locators)
  BY <1>4
<1> HIDE DEF I
<1>7. Cardinality(I) <= Cardinality(Locators)
  BY <1>6, RegistryAssumption, FS_Injection
<1> QED
  BY <1>5, <1>7 DEF n

(* What LockedPaths computes, as long as no path is longer than the        *)
(* registry is large.                                                      *)
LEMMA PathStages ==
    ASSUME SoundLock(lock)
    PROVE  \E c : /\ c[0] = {<<l>> : l \in LocatorsOf(lock.direct)}
                  /\ \A n \in Nat : c[n + 1] = c[n] \union UNION {{Append(p, l) : l \in LockedNeeds(Last(p))} : p \in c[n]}
                  /\ LockedPaths = c[Cardinality(Locators)]
<1> DEFINE D == DOMAIN lock.packages
           T == SUBSET Paths
           B == {<<l>> : l \in LocatorsOf(lock.direct)}
           N(X) == X \union UNION {{Append(p, l) : l \in LockedNeeds(Last(p))} : p \in X}
           F == [X \in T |-> N(X)]
           G(g) == [n \in Nat |-> IF n = 0 THEN {<<l>> : l \in LocatorsOf(lock.direct)}
                                  ELSE g[n - 1] \union UNION {{Append(p, l) : l \in LockedNeeds(Last(p))} : p \in g[n - 1]}]
           paths == CHOOSE g : g = G(g)
<1>1. B \in T
  BY PathStarts
<1>2. ASSUME NEW X \in T PROVE N(X) \in T
  <2>1. ASSUME NEW p \in X, NEW l \in LockedNeeds(Last(p)) PROVE Append(p, l) \in Paths
    <3>1. p \in Paths /\ p \in Seq(DOMAIN lock.packages) /\ p # <<>>
      BY DEF Paths, Path
    <3> QED
      BY <3>1, PathGrows
  <2>2. X \subseteq Paths
    OBVIOUS
  <2>3. N(X) \subseteq Paths
    <3>1. ASSUME NEW q \in N(X), q \notin X PROVE q \in Paths
      <4>1. PICK p \in X : \E l \in LockedNeeds(Last(p)) : q = Append(p, l)
        BY <3>1, Zenon
      <4> QED
        BY <2>1, <4>1, Zenon
    <3> QED
      BY <2>2, <3>1, Zenon
  <2> QED
    BY <2>3
<1>3. F \in [T -> T]
  BY <1>2
<1>4. PICK f : f \in [Nat -> T] /\ f[0] = B /\ \A n \in Nat : f[n + 1] = N(f[n])
  <2>1. \E f : Iterates(f, T, F, B)
    <3> HIDE DEF T, F, B
    <3> QED
      BY <1>1, <1>3, Iteration
  <2>2. PICK f : Iterates(f, T, F, B)
    BY <2>1
  <2> HIDE DEF N, T, B
  <2>3. f \in [Nat -> T] /\ f[0] = B /\ \A n \in Nat : f[n + 1] = N(f[n])
    BY <2>2 DEF Iterates
  <2> QED
    BY <2>3
<1>5. f = G(f)
  <2>1. ASSUME NEW n \in Nat PROVE f[n] = IF n = 0 THEN B ELSE N(f[n - 1])
    <3> HIDE DEF N, B, T
    <3>1. CASE n = 0
      BY <1>4, <3>1
    <3>2. CASE n # 0
      <4>1. n - 1 \in Nat /\ (n - 1) + 1 = n
        BY <3>2
      <4> QED
        BY <1>4, <3>2, <4>1
    <3> QED
      BY <3>1, <3>2
  <2>2. f = [n \in Nat |-> f[n]]
    BY <1>4
  <2> QED
    BY <2>1, <2>2
<1>6. paths = G(paths)
  BY <1>5, Zenon
<1> HIDE DEF paths
<1>7. paths[0] = B
  BY <1>6
<1>8. ASSUME NEW n \in Nat PROVE paths[n + 1] = N(paths[n])
  <2>1. n + 1 \in Nat /\ n + 1 # 0 /\ (n + 1) - 1 = n
    OBVIOUS
  <2> QED
    BY <1>6, <2>1
<1>9. LockedPaths = paths[Cardinality(Locators)]
  BY Zenon DEF LockedPaths, paths
<1> QED
  BY <1>7, <1>8, <1>9

LEMMA LockedPathsAre ==
    ASSUME SoundLock(lock)
    PROVE  LockedPaths = Paths
<1> DEFINE D == DOMAIN lock.packages
           K == Cardinality(Locators)
<1>1. PICK c : /\ c[0] = {<<l>> : l \in LocatorsOf(lock.direct)}
               /\ \A n \in Nat : c[n + 1] = c[n] \union UNION {{Append(p, l) : l \in LockedNeeds(Last(p))} : p \in c[n]}
               /\ LockedPaths = c[K]
  BY PathStages
<1>2. K \in Nat
  BY RegistryAssumption, FS_CardinalityType
<1> HIDE DEF K
<1>3. ASSUME NEW p \in Paths
      PROVE  p \in Seq(D) /\ p # <<>> /\ Len(p) \in Nat /\ Len(p) >= 1
  BY EmptySeq DEF Paths, Path
<1> DEFINE P == {n \in Nat : c[n] = {p \in Paths : Len(p) <= n + 1}}
<1>4. 0 \in P
  <2>1. ASSUME NEW l \in LocatorsOf(lock.direct) PROVE <<l>> \in Paths /\ Len(<<l>>) <= 0 + 1
    BY PathStarts
  <2>2. ASSUME NEW p \in Paths, Len(p) <= 0 + 1 PROVE p \in c[0]
    <3>1. Len(p) = 1
      <4> DEFINE n == Len(p)
      <4>1. n \in Nat /\ n >= 1 /\ n <= 0 + 1
        BY <1>3, <2>2
      <4> HIDE DEF n
      <4>2. n = 1
        BY <4>1
      <4> QED
        BY <4>2 DEF n
    <3>2. p = <<p[1]>>
      BY <1>3, <3>1
    <3>3. p[1] \in LocatorsOf(lock.direct)
      BY DEF Paths, Path
    <3> QED
      BY <1>1, <3>2, <3>3
  <2>3. c[0] \subseteq {p \in Paths : Len(p) <= 0 + 1}
    BY <1>1, <2>1
  <2> QED
    BY <2>2, <2>3
<1>5. ASSUME NEW n \in P PROVE n + 1 \in P
  <2>1. n \in Nat /\ n + 1 \in Nat /\ c[n] = {p \in Paths : Len(p) <= n + 1}
    OBVIOUS
  <2>2. c[n + 1] = c[n] \union UNION {{Append(p, l) : l \in LockedNeeds(Last(p))} : p \in c[n]}
    BY <1>1, <2>1
  <2>3. ASSUME NEW p \in c[n], NEW l \in LockedNeeds(Last(p))
        PROVE  Append(p, l) \in Paths /\ Len(Append(p, l)) <= (n + 1) + 1
    <3>1. p \in Paths /\ Len(p) <= n + 1
      BY <2>1
    <3>2. p \in Seq(D) /\ p # <<>> /\ Len(p) \in Nat
      BY <1>3, <3>1
    <3>3. Append(p, l) \in Paths /\ l \in D
      BY <3>1, <3>2, PathGrows
    <3>4. Len(Append(p, l)) = Len(p) + 1
      <4> HIDE DEF D
      <4> QED
        BY <3>2, <3>3, AppendProperties
    <3> QED
      BY <2>1, <3>1, <3>2, <3>3, <3>4
  <2>4. ASSUME NEW p \in Paths, Len(p) <= n + 1 PROVE p \in c[n + 1]
    BY <2>1, <2>2, <2>4
  <2>5. ASSUME NEW q \in Paths, Len(q) <= (n + 1) + 1, ~(Len(q) <= n + 1) PROVE q \in c[n + 1]
    <3>1. q \in Seq(D) /\ q # <<>> /\ Len(q) = n + 2
      BY <1>3, <2>1, <2>5
    <3>2. PICK p \in Seq(D), e \in D : q = Append(p, e)
      <4> HIDE DEF D
      <4> QED
        BY <3>1, SequenceEmptyOrAppend
    <3>3. Len(q) = Len(p) + 1 /\ Len(p) \in Nat
      <4> HIDE DEF D
      <4> QED
        BY <3>2, AppendProperties
    <3>4. Len(p) = n + 1 /\ p # <<>>
      <4>1. Len(p) = n + 1
        BY <2>1, <3>1, <3>3
      <4>2. Len(p) # 0
        BY <2>1, <4>1
      <4> QED
        BY <4>1, <4>2
    <3>5. p \in Paths /\ e \in LockedNeeds(Last(p))
      BY <3>2, <3>4, PathGrows
    <3>6. p \in c[n]
      BY <2>1, <3>4, <3>5
    <3> QED
      BY <2>2, <3>2, <3>5, <3>6
  <2>6. c[n] \subseteq {p \in Paths : Len(p) <= (n + 1) + 1}
    BY <1>3, <2>1
  <2> HIDE DEF P
  <2>7. c[n + 1] \subseteq {p \in Paths : Len(p) <= (n + 1) + 1}
    <3>1. ASSUME NEW q \in c[n + 1], q \notin c[n] PROVE q \in Paths /\ Len(q) <= (n + 1) + 1
      <4>1. PICK p \in c[n] : \E l \in LockedNeeds(Last(p)) : q = Append(p, l)
        BY <2>2, <3>1, Zenon
      <4> QED
        BY <2>3, <4>1, Zenon
    <3> QED
      BY <2>6, <3>1, Zenon
  <2>8. {p \in Paths : Len(p) <= (n + 1) + 1} \subseteq c[n + 1]
    BY <2>4, <2>5
  <2> QED
    BY <2>1, <2>7, <2>8 DEF P
<1>6. P = Nat
  <2> HIDE DEF P
  <2> QED
    BY <1>4, <1>5, AllNaturals DEF P
<1>7. LockedPaths = {p \in Paths : Len(p) <= K + 1}
  BY <1>1, <1>2, <1>6
<1>8. \A p \in Paths : Len(p) <= K + 1
  BY <1>2, <1>3, PathsAreShort DEF K
<1> QED
  BY <1>7, <1>8

-----------------------------------------------------------------------------
(* The agenda of an installation, as the set of its tasks                  *)

LEMMA ToSetSplits ==
    ASSUME NEW S, NEW s \in Seq(S), NEW t \in Seq(S)
    PROVE  s \o t \in Seq(S) /\ ToSet(s \o t) = ToSet(s) \union ToSet(t)
<1> DEFINE m == Len(s)
           n == Len(t)
           u == s \o t
<1>1. m \in Nat /\ n \in Nat /\ DOMAIN s = 1 .. m /\ DOMAIN t = 1 .. n
  BY LenProperties
<1>2. /\ u \in Seq(S) /\ Len(u) = m + n
      /\ \A i \in 1 .. m + n : u[i] = IF i <= m THEN s[i] ELSE t[i - m]
  BY ConcatProperties
<1>3. DOMAIN u = 1 .. m + n
  BY <1>2, LenProperties
<1> HIDE DEF m, n, u
<1>4. ASSUME NEW i \in 1 .. m PROVE i \in 1 .. m + n /\ u[i] = s[i]
  BY <1>1, <1>2
<1>5. ASSUME NEW i \in 1 .. n PROVE m + i \in 1 .. m + n /\ u[m + i] = t[i]
  <2>1. m + i \in 1 .. m + n /\ ~(m + i <= m) /\ (m + i) - m = i
    BY <1>1
  <2> QED
    BY <1>2, <2>1
<1>6. ASSUME NEW i \in 1 .. m + n PROVE u[i] \in ToSet(s) \union ToSet(t)
  <2>1. CASE i <= m
    <3>1. i \in 1 .. m
      BY <1>1, <2>1
    <3> QED
      BY <1>1, <1>4, <3>1 DEF ToSet
  <2>2. CASE ~(i <= m)
    <3>1. i - m \in 1 .. n /\ u[i] = t[i - m]
      BY <1>1, <1>2, <2>2
    <3> QED
      BY <1>1, <3>1 DEF ToSet
  <2> QED
    BY <2>1, <2>2
<1>7. ToSet(s) \subseteq ToSet(u)
  BY <1>1, <1>3, <1>4 DEF ToSet
<1>8. ToSet(t) \subseteq ToSet(u)
  BY <1>1, <1>3, <1>5 DEF ToSet
<1>9. ToSet(u) \subseteq ToSet(s) \union ToSet(t)
  BY <1>3, <1>6 DEF ToSet
<1> QED
  BY <1>2, <1>7, <1>8, <1>9 DEF u

LEMMA ToSetHead ==
    ASSUME NEW S, NEW s \in Seq(S), s # <<>>
    PROVE  Head(s) \in S /\ Tail(s) \in Seq(S) /\ ToSet(s) = {Head(s)} \union ToSet(Tail(s))
<1> DEFINE n == Len(s)
           u == Tail(s)
<1>1. n \in Nat \ {0} /\ DOMAIN s = 1 .. n /\ Head(s) = s[1]
  BY EmptySeq, LenProperties
<1>2. /\ Head(s) \in S /\ u \in Seq(S) /\ Len(u) = n - 1
      /\ \A i \in 1 .. n - 1 : u[i] = s[i + 1]
  BY HeadTailProperties
<1>3. DOMAIN u = 1 .. n - 1
  BY <1>2, LenProperties
<1> HIDE DEF n, u
<1>4. ASSUME NEW i \in 1 .. n PROVE i = 1 \/ (i - 1 \in 1 .. n - 1 /\ u[i - 1] = s[i])
  <2>1. i = 1 \/ (i - 1 \in 1 .. n - 1 /\ (i - 1) + 1 = i)
    BY <1>1
  <2> QED
    BY <1>2, <2>1
<1>5. ASSUME NEW i \in 1 .. n - 1 PROVE i + 1 \in 1 .. n
  BY <1>1
<1>6. 1 \in 1 .. n
  BY <1>1
<1>7. ToSet(s) \subseteq {Head(s)} \union ToSet(u)
  BY <1>1, <1>3, <1>4 DEF ToSet
<1>8. {Head(s)} \union ToSet(u) \subseteq ToSet(s)
  BY <1>1, <1>2, <1>3, <1>5, <1>6 DEF ToSet
<1> QED
  BY <1>2, <1>7, <1>8 DEF u

Jobs == [step : {"place", "seal"}, path : Paths]

Job(step, path) == [step |-> step, path |-> path]

LEMMA OneTask ==
    ASSUME NEW path \in Paths
    PROVE  Tasks("seal", <<path>>) \in Seq(Jobs) /\ ToSet(Tasks("seal", <<path>>)) = {Job("seal", path)}
<1> DEFINE s == Tasks("seal", <<path>>)
           j == Job("seal", path)
<1>1. s = <<j>>
  BY DEF Tasks, Job
<1>2. j \in Jobs
  BY DEF Job, Jobs
<1> HIDE DEF s, j
<1>3. <<j>> \in Seq(Jobs)
  BY <1>2, EmptySeq, AppendProperties
<1>4. ToSet(<<j>>) = {j}
  BY DEF ToSet
<1> QED
  BY <1>1, <1>3, <1>4 DEF s, j

(* One task for each path to a release below a path. *)
LEMMA BelowIs ==
    ASSUME NEW path, NEW versions, LocatorsOf(versions) \subseteq Locators,
           \A l \in LocatorsOf(versions) : Append(path, l) \in Paths
    PROVE  /\ Below(path, versions) \in Seq(Jobs)
           /\ ToSet(Below(path, versions)) = {Job("place", Append(path, l)) : l \in LocatorsOf(versions)}
<1> DEFINE L == LocatorsOf(versions)
           Q == {Append(path, l) : l \in L}
           n == Cardinality(Q)
           I == 1 .. n
           f == SetToSeq(Q)
           b == Below(path, versions)
<1>1. IsFiniteSet(Q) /\ Q \subseteq Paths
  <2>1. IsFiniteSet(L)
    BY RegistryAssumption, FS_Subset
  <2> DEFINE g == [l \in L |-> Append(path, l)]
  <2>2. g \in Surjection(L, Q)
    BY DEF Surjection
  <2> HIDE DEF L, Q, g
  <2>3. IsFiniteSet(Q)
    BY <2>1, <2>2, FS_Surjection
  <2> QED
    BY <2>3 DEF L, Q
<1> HIDE DEF L, Q
<1>2. n \in Nat /\ ExistsBijection(1 .. n, Q)
  BY <1>1, FS_CardinalityType
<1>3. f \in [I -> Q] /\ IsInjective(f)
  <2>1. PICK g : g \in Bijection(I, Q)
    BY <1>2 DEF ExistsBijection
  <2>2. g \in [I -> Q] /\ IsInjective(g)
    BY <2>1 DEF Bijection, Injection
  <2> QED
    BY <2>2, Zenon DEF SetToSeq
<1> HIDE DEF f, n
<1>4. \A q \in Q : \E i \in I : f[i] = q
  <2>1. IsFiniteSet(I) /\ Cardinality(I) = n
    BY <1>2, FS_Interval
  <2>2. f \in Injection(I, Q)
    BY <1>3 DEF Injection
  <2> HIDE DEF I
  <2>3. f \in Surjection(I, Q)
    BY <1>1, <2>1, <2>2, FS_Injection DEF n
  <2> QED
    BY <2>3 DEF Surjection
<1>5. b = [i \in I |-> Job("place", f[i])]
  BY <1>3 DEF Below, Tasks, f, Q, L, Job
<1> HIDE DEF b
<1>6. \A i \in I : Job("place", f[i]) \in Jobs
  BY <1>1, <1>3 DEF Job, Jobs
<1>7. b \in Seq(Jobs)
  <2>1. b \in [1 .. n -> Jobs]
    BY <1>5, <1>6
  <2> HIDE DEF I
  <2> QED
    BY <1>2, <2>1
<1>8. DOMAIN b = I /\ \A i \in I : b[i] = Job("place", f[i])
  BY <1>5
<1>9. ToSet(b) = {Job("place", q) : q \in Q}
  <2> HIDE DEF I
  <2>1. ToSet(b) = {b[i] : i \in I}
    BY <1>8 DEF ToSet
  <2>2. \A i \in I : f[i] \in Q
    BY <1>3
  <2> QED
    BY <1>4, <1>8, <2>1, <2>2
<1>10. {Job("place", q) : q \in Q} = {Job("place", Append(path, l)) : l \in LocatorsOf(versions)}
  BY DEF Q, L
<1> QED
  BY <1>7, <1>9, <1>10 DEF b

-----------------------------------------------------------------------------
(* The project                                                             *)

CommandInv ==
    /\ manifest = Broken \/ Dependencies(manifest)
    /\ pc \in {"idle", "unlist", "pin", "clear", "place", "dep", "stop"}
    /\ pc = "unlist" => manifest # Broken
    /\ pc # "idle" => outcome = "running"
    /\ depFile \subseteq Locators

LockInv == Locked => SoundLock(lock)

TreesInv ==
    \A p \in DOMAIN installed :
        /\ p \in Seq(Locators)
        /\ installed[p].files \in SUBSET Contents
        /\ installed[p] = [files |-> installed[p].files, lock |-> installed[p].lock]

Sealed(p) == installed[p].lock = lock.packages[Last(p)].deps

Unfolded == DOMAIN installed = Paths /\ \A p \in Paths : Sealed(p)

Leads(q, p) == Len(q) <= Len(p) /\ \A i \in 1 .. Len(q) : p[i] = q[i]

(* In the middle of an installation: what is installed is on paths of the  *)
(* lock; a path that is not installed lies below one that is still to be;  *)
(* an installed package has its lock, or the agenda says that it will be   *)
(* written.                                                                *)
Placing ==
    /\ agenda \in Seq(Jobs)
    /\ DOMAIN installed \subseteq Paths
    /\ \A j \in ToSet(agenda) : j.step = "seal" => j.path \in DOMAIN installed
    /\ \A p \in Paths \ DOMAIN installed : \E j \in ToSet(agenda) : j.step = "place" /\ Leads(j.path, p)
    /\ \A p \in DOMAIN installed : Sealed(p) \/ Job("seal", p) \in ToSet(agenda)

ProjectInv ==
    /\ CommandInv /\ LockInv /\ TreesInv
    /\ pc \in {"clear", "place", "dep"} => Locked
    /\ pc = "place" => Placing
    /\ pc = "dep" \/ outcome = "installed" => Locked /\ Unfolded

LEMMA SameLock ==
    ASSUME lock' = lock
    PROVE  Paths' = Paths /\ Jobs' = Jobs /\ (Locked' <=> Locked) /\ (LockInv => LockInv')
<1>1. Paths' = Paths
  BY DEF Paths, Path, LockedNeeds, LocatorsOf
<1>2. Jobs' = Jobs
  BY <1>1 DEF Jobs
<1>3. Locked' <=> Locked
  BY DEF Locked
<1>4. ASSUME LockInv PROVE LockInv'
  <2>1. Locked => SoundLock(lock')
    BY <1>4 DEF LockInv
  <2> QED
    BY <1>3, <2>1 DEF LockInv, SoundLock, WholeLock, Closed, Acyclic, Met, NeedsIn, LocatorsOf
<1> QED
  BY <1>1, <1>2, <1>3, <1>4

LEMMA SameTrees ==
    ASSUME lock' = lock, installed' = installed
    PROVE  (TreesInv => TreesInv') /\ (Unfolded => Unfolded')
<1>1. Paths' = Paths
  BY SameLock
<1> QED
  BY <1>1 DEF TreesInv, Unfolded, Sealed

(* A step that touches neither the lock nor the trees.                     *)
LEMMA QuietStep ==
    ASSUME ProjectInv, lock' = lock, installed' = installed, CommandInv',
           pc' # "place", pc' \in {"clear", "dep"} => Locked,
           pc' = "dep" \/ outcome' = "installed" => Locked /\ Unfolded
    PROVE  ProjectInv'
<1>1. LockInv' /\ TreesInv' /\ (Locked' <=> Locked) /\ (Unfolded => Unfolded')
  BY SameLock, SameTrees DEF ProjectInv
<1> QED
  BY <1>1 DEF ProjectInv

LEMMA IdleStep ==
    ASSUME ProjectInv, UNCHANGED projectVars
    PROVE  ProjectInv'
<1>1. /\ lock' = lock /\ installed' = installed /\ pc' = pc /\ outcome' = outcome
      /\ manifest' = manifest /\ depFile' = depFile /\ agenda' = agenda
  BY DEF projectVars
<1>2. LockInv' /\ TreesInv' /\ (Locked' <=> Locked) /\ (Unfolded => Unfolded') /\ Paths' = Paths /\ Jobs' = Jobs
  BY <1>1, SameLock, SameTrees DEF ProjectInv
<1>3. CommandInv'
  BY <1>1 DEF ProjectInv, CommandInv, Dependencies
<1>4. Placing => Placing'
  BY <1>1, <1>2 DEF Placing, Sealed, Leads, Job, ToSet
<1> QED
  BY <1>1, <1>2, <1>3, <1>4 DEF ProjectInv

LEMMA ProjectStart == Init => ProjectInv
<1> SUFFICES ASSUME Init PROVE ProjectInv
  OBVIOUS
<1>1. /\ manifest \in Manifests /\ lock = Nil /\ installed = <<>> /\ depFile = {}
      /\ pc = "idle" /\ outcome = "none"
  BY DEF Init
<1>2. CommandInv
  BY <1>1, RegistryAssumption DEF CommandInv
<1>3. ~Locked
  BY <1>1 DEF Locked
<1>4. TreesInv
  <2>1. DOMAIN installed = {}
    BY <1>1
  <2> QED
    BY <2>1 DEF TreesInv
<1> QED
  BY <1>1, <1>2, <1>3, <1>4 DEF ProjectInv, LockInv

LEMMA OwnersSteps ==
    ASSUME ProjectInv,
           EditManifest \/ BeginLock \/ BeginInstall \/ BeginUpdate \/ (\E n \in Asked : BeginRemove(n)) \/ Unlist
    PROVE  ProjectInv'
<1>1. CommandInv
  BY DEF ProjectInv
<1>2. CASE EditManifest
  <2>1. /\ pc = "idle" /\ pc' = pc /\ outcome' = outcome /\ lock' = lock /\ installed' = installed
        /\ depFile' = depFile /\ manifest' \in Manifests
    BY <1>2 DEF EditManifest
  <2>2. CommandInv'
    BY <1>1, <2>1, RegistryAssumption DEF CommandInv, Dependencies
  <2> QED
    BY <2>1, <2>2, QuietStep DEF ProjectInv
<1>3. CASE BeginLock \/ BeginInstall \/ BeginUpdate \/ \E n \in Asked : BeginRemove(n)
  <2>1. /\ pc' \in {"pin", "clear", "stop", "unlist"} /\ outcome' = "running" /\ lock' = lock
        /\ installed' = installed /\ depFile' = depFile /\ manifest' = manifest
        /\ pc' = "clear" => Locked
        /\ pc' = "unlist" => manifest # Broken
    BY <1>3 DEF BeginLock, BeginInstall, BeginUpdate, BeginRemove, Begin
  <2>2. CommandInv'
    BY <1>1, <2>1 DEF CommandInv, Dependencies
  <2> QED
    BY <2>1, <2>2, QuietStep
<1>4. CASE Unlist
  <2>1. /\ pc = "unlist" /\ pc' = "pin" /\ outcome' = outcome /\ lock' = lock /\ installed' = installed
        /\ depFile' = depFile
        /\ manifest' = [n \in DOMAIN manifest \ {command.name} |-> manifest[n]]
    BY <1>4 DEF Unlist, Goes
  <2>2. Dependencies(manifest) /\ outcome = "running"
    BY <1>1, <2>1 DEF CommandInv
  <2>3. Dependencies(manifest')
    BY <2>1, <2>2 DEF Dependencies
  <2>4. CommandInv'
    BY <1>1, <2>1, <2>2, <2>3 DEF CommandInv, Dependencies
  <2> QED
    BY <2>1, <2>2, <2>4, QuietStep
<1> QED
  BY <1>2, <1>3, <1>4

LEMMA WholeLocksAreLocks ==
    ASSUME NEW k, WholeLock(k)
    PROVE  k \notin {Nil, Broken}
<1>1. DOMAIN k.direct \in SUBSET Names /\ DOMAIN k.packages \in SUBSET Locators
  BY DEF WholeLock
<1>2. Nil \notin Locks(DOMAIN k.direct, DOMAIN k.packages) /\ Broken \notin Locks(DOMAIN k.direct, DOMAIN k.packages)
  BY <1>1, NilAssumption
<1> QED
  BY <1>2 DEF WholeLock

LEMMA PinStep ==
    ASSUME RegistryInv, ProjectInv, Pin
    PROVE  ProjectInv'
<1>1. /\ pc = "pin" /\ manifest # Broken /\ Lockable(manifest)
      /\ lock' = LockFor(manifest) /\ installed' = installed /\ depFile' = depFile /\ manifest' = manifest
      /\ \/ pc' = "idle" /\ outcome' = "locked"
         \/ pc' = "clear" /\ outcome' = outcome
  BY DEF Pin, Ends, Goes
<1>2. CommandInv /\ TreesInv /\ outcome = "running" /\ Dependencies(manifest)
  BY <1>1 DEF ProjectInv, CommandInv
<1>3. SoundLock(lock')
  BY <1>1, <1>2, LockForIsSound
<1>4. lock' \notin {Nil, Broken}
  <2>1. WholeLock(lock')
    BY <1>3 DEF SoundLock
  <2> QED
    BY <2>1, WholeLocksAreLocks
<1>5. LockInv' /\ Locked'
  BY <1>3, <1>4 DEF LockInv, Locked, SoundLock, WholeLock, Closed, Acyclic, Met, NeedsIn, LocatorsOf
<1>6. CommandInv'
  BY <1>1, <1>2 DEF CommandInv, Dependencies
<1>7. TreesInv'
  BY <1>1, <1>2 DEF TreesInv
<1> QED
  BY <1>1, <1>2, <1>5, <1>6, <1>7 DEF ProjectInv

(* What the lock gives an installation to work with.                       *)
LEMMA LockFacts ==
    ASSUME SoundLock(lock)
    PROVE  /\ DOMAIN lock.packages \subseteq Locators /\ LocatorsOf(lock.direct) \subseteq DOMAIN lock.packages
           /\ \A l \in DOMAIN lock.packages : LockedNeeds(l) \subseteq DOMAIN lock.packages
           /\ \A p \in Paths : /\ p \in Seq(Locators) /\ p # <<>> /\ p \in Seq(DOMAIN lock.packages)
                               /\ Len(p) \in Nat /\ Len(p) >= 1 /\ Last(p) \in DOMAIN lock.packages
<1> DEFINE D == DOMAIN lock.packages
<1>1. /\ D \subseteq Locators /\ LocatorsOf(lock.direct) \subseteq D
      /\ \A l \in D : LockedNeeds(l) \subseteq D
  BY DEF SoundLock, WholeLock, Closed, NeedsIn, LockedNeeds
<1>2. ASSUME NEW p \in Paths
      PROVE  /\ p \in Seq(Locators) /\ p # <<>> /\ p \in Seq(D)
             /\ Len(p) \in Nat /\ Len(p) >= 1 /\ Last(p) \in D
  <2>1. p \in Seq(D) /\ p # <<>>
    BY DEF Paths, Path
  <2> DEFINE n == Len(p)
  <2> HIDE DEF D
  <2>2. p \in Seq(Locators)
    BY <1>1, <2>1, SeqMonotonic
  <2>3. n \in Nat \ {0}
    BY <2>1, EmptySeq
  <2> HIDE DEF n
  <2>4. n >= 1 /\ n \in 1 .. n
    BY <2>3
  <2>5. Last(p) \in D
    BY <2>1, <2>4, ElementOfSeq DEF Last, n
  <2> QED
    BY <2>1, <2>2, <2>3, <2>4, <2>5 DEF n
<1> QED
  BY <1>1, <1>2

LEMMA ClearStep ==
    ASSUME ProjectInv, Clear
    PROVE  ProjectInv'
<1> DEFINE b == Below(<<>>, lock.direct)
<1>1. /\ pc = "clear" /\ pc' = "place" /\ outcome' = outcome /\ lock' = lock /\ installed' = <<>>
      /\ agenda' = b /\ depFile' = depFile /\ manifest' = manifest
  BY DEF Clear, Goes
<1>2. CommandInv /\ Locked /\ SoundLock(lock) /\ LockInv /\ outcome = "running"
  BY <1>1 DEF ProjectInv, CommandInv, LockInv
<1>3. Paths' = Paths /\ Jobs' = Jobs /\ Locked' /\ LockInv'
  BY <1>1, <1>2, SameLock
<1>4. CommandInv'
  BY <1>1, <1>2 DEF CommandInv, Dependencies
<1>5. DOMAIN installed' = {}
  BY <1>1
<1>6. TreesInv'
  BY <1>5 DEF TreesInv
<1>7. ASSUME NEW l \in LocatorsOf(lock.direct) PROVE Append(<<>>, l) = <<l>> /\ <<l>> \in Paths
  BY <1>2, PathStarts
<1>8. b \in Seq(Jobs) /\ ToSet(b) = {Job("place", Append(<<>>, l)) : l \in LocatorsOf(lock.direct)}
  <2>1. LocatorsOf(lock.direct) \subseteq Locators
    BY <1>2, LockFacts
  <2>2. ASSUME NEW l \in LocatorsOf(lock.direct) PROVE Append(<<>>, l) \in Paths
    <3>1. Append(<<>>, l) = <<l>> /\ <<l>> \in Paths
      BY <1>7
    <3> QED
      BY <3>1, Zenon
  <2> QED
    BY <2>1, <2>2, BelowIs
<1> HIDE DEF b
<1>9. ASSUME NEW p \in Paths PROVE \E j \in ToSet(b) : j.step = "place" /\ Leads(j.path, p)
  <2>1. p[1] \in LocatorsOf(lock.direct) /\ Len(p) \in Nat /\ Len(p) >= 1
    BY <1>2, LockFacts DEF Paths, Path
  <2> DEFINE q == <<p[1]>>
             j == Job("place", q)
  <2>2. j \in ToSet(b)
    BY <1>7, <1>8, <2>1
  <2>3. j.step = "place" /\ j.path = q
    BY DEF Job
  <2>4. Leads(q, p)
    BY <2>1 DEF Leads
  <2> HIDE DEF q, j
  <2> QED
    BY <2>2, <2>3, <2>4
<1>10. \A j \in ToSet(b) : j.step # "seal"
  BY <1>8 DEF Job
<1>11. Placing'
  <2>1. agenda' \in Seq(Jobs) /\ ToSet(agenda)' = ToSet(b)
    BY <1>1, <1>8 DEF ToSet
  <2> QED
    BY <1>3, <1>5, <1>9, <1>10, <2>1 DEF Placing, Leads
<1> QED
  BY <1>1, <1>2, <1>3, <1>4, <1>6, <1>11 DEF ProjectInv

(* A tree is put at a path, the others stay.                               *)
LEMMA PlacedIs ==
    ASSUME TreesInv, NEW path \in Seq(Locators), NEW files \in SUBSET Contents, NEW itsLock,
           installed' = Placed(path, files, itsLock)
    PROVE  /\ TreesInv' /\ DOMAIN installed' = DOMAIN installed \union {path}
           /\ installed'[path].lock = itsLock
           /\ \A p \in DOMAIN installed : p # path => installed'[p] = installed[p]
<1> DEFINE r == [files |-> files, lock |-> itsLock]
<1>1. /\ DOMAIN installed' = DOMAIN installed \union {path} /\ installed'[path] = r
      /\ \A p \in DOMAIN installed : p # path => installed'[p] = installed[p]
  BY DEF Placed
<1>2. r.files \in SUBSET Contents /\ r.lock = itsLock /\ r = [files |-> r.files, lock |-> r.lock]
  OBVIOUS
<1> HIDE DEF r
<1>3. ASSUME NEW p \in DOMAIN installed'
      PROVE  /\ p \in Seq(Locators) /\ installed'[p].files \in SUBSET Contents
             /\ installed'[p] = [files |-> installed'[p].files, lock |-> installed'[p].lock]
  <2>1. CASE p = path
    BY <1>1, <1>2, <2>1
  <2>2. CASE p # path
    <3>1. p \in DOMAIN installed /\ installed'[p] = installed[p]
      BY <1>1, <2>2
    <3> QED
      BY <3>1 DEF TreesInv
  <2> QED
    BY <2>1, <2>2
<1>4. TreesInv'
  BY <1>3 DEF TreesInv
<1> QED
  BY <1>1, <1>2, <1>4

(* The lock of the package at a path is written.                           *)
LEMMA SealedIs ==
    ASSUME TreesInv, NEW path \in DOMAIN installed, NEW itsLock,
           installed' = [installed EXCEPT ![path].lock = itsLock]
    PROVE  /\ TreesInv' /\ DOMAIN installed' = DOMAIN installed
           /\ installed'[path].lock = itsLock
           /\ \A p \in DOMAIN installed : p # path => installed'[p] = installed[p]
<1> DEFINE o == installed[path]
           r == [o EXCEPT !.lock = itsLock]
<1>1. /\ DOMAIN installed' = DOMAIN installed /\ installed'[path] = r
      /\ \A p \in DOMAIN installed : p # path => installed'[p] = installed[p]
  OBVIOUS
<1>2. o = [files |-> o.files, lock |-> o.lock] /\ o.files \in SUBSET Contents
  BY DEF TreesInv
<1> HIDE DEF o
<1>3. r.files \in SUBSET Contents /\ r.lock = itsLock /\ r = [files |-> r.files, lock |-> r.lock]
  BY <1>2
<1> HIDE DEF r
<1>4. ASSUME NEW p \in DOMAIN installed'
      PROVE  /\ p \in Seq(Locators) /\ installed'[p].files \in SUBSET Contents
             /\ installed'[p] = [files |-> installed'[p].files, lock |-> installed'[p].lock]
  <2>1. p \in Seq(Locators)
    BY <1>1 DEF TreesInv
  <2>2. CASE p = path
    BY <1>1, <1>3, <2>1, <2>2
  <2>3. CASE p # path
    <3>1. p \in DOMAIN installed /\ installed'[p] = installed[p]
      BY <1>1, <2>3
    <3> QED
      BY <3>1 DEF TreesInv
  <2> QED
    BY <2>2, <2>3
<1>5. TreesInv'
  BY <1>4 DEF TreesInv
<1> QED
  BY <1>1, <1>3, <1>5

LEMMA SealStep ==
    ASSUME ProjectInv, Seal
    PROVE  ProjectInv'
<1> DEFINE head == Head(agenda)
           path == head.path
           deps == lock.packages[Last(path)].deps
<1>1. /\ pc = "place" /\ pc' = pc /\ outcome' = outcome /\ lock' = lock
      /\ agenda # <<>> /\ head.step = "seal" /\ agenda' = Tail(agenda)
      /\ installed' = [installed EXCEPT ![path].lock = deps]
      /\ depFile' = depFile /\ manifest' = manifest
  BY DEF Seal
<1>2. CommandInv /\ Locked /\ SoundLock(lock) /\ LockInv /\ TreesInv /\ Placing /\ outcome = "running"
  BY <1>1 DEF ProjectInv, CommandInv, LockInv
<1>3. Paths' = Paths /\ Jobs' = Jobs /\ Locked' /\ LockInv'
  BY <1>1, <1>2, SameLock
<1>4. CommandInv'
  BY <1>1, <1>2 DEF CommandInv, Dependencies
<1>5. head \in Jobs /\ Tail(agenda) \in Seq(Jobs) /\ ToSet(agenda) = {head} \union ToSet(Tail(agenda))
  BY <1>1, <1>2, ToSetHead DEF Placing
<1>6. path \in DOMAIN installed /\ head = Job("seal", path)
  BY <1>1, <1>2, <1>5 DEF Placing, Jobs, Job
<1> HIDE DEF head, path, deps
<1>7. /\ TreesInv' /\ DOMAIN installed' = DOMAIN installed /\ installed'[path].lock = deps
      /\ \A p \in DOMAIN installed : p # path => installed'[p] = installed[p]
  BY <1>1, <1>2, <1>6, SealedIs
<1> DEFINE T == ToSet(Tail(agenda))
<1>8. ToSet(agenda)' = T
  BY <1>1 DEF ToSet
<1>9. \A j \in T : j.step = "seal" => j.path \in DOMAIN installed
  BY <1>2, <1>5 DEF Placing
<1>10. \A p \in Paths \ DOMAIN installed : \E j \in T : j.step = "place" /\ Leads(j.path, p)
  BY <1>1, <1>2, <1>5 DEF Placing
<1>11. \A p \in DOMAIN installed : Sealed(p)' \/ Job("seal", p) \in T
  <2> SUFFICES ASSUME NEW p \in DOMAIN installed PROVE Sealed(p)' \/ Job("seal", p) \in T
    OBVIOUS
  <2>1. CASE p = path
    BY <1>1, <1>7, <2>1 DEF Sealed, deps
  <2>2. CASE p # path
    <3>1. Sealed(p) \/ Job("seal", p) \in {head} \union T
      BY <1>2, <1>5 DEF Placing
    <3>2. Sealed(p) => Sealed(p)'
      BY <1>1, <1>7, <2>2 DEF Sealed
    <3>3. Job("seal", p) # head
      BY <1>6, <2>2 DEF Job
    <3> QED
      BY <3>1, <3>2, <3>3
  <2> QED
    BY <2>1, <2>2
<1> HIDE DEF T
<1>12. Placing'
  BY <1>1, <1>2, <1>3, <1>5, <1>7, <1>8, <1>9, <1>10, <1>11 DEF Placing, Leads, Job
<1> QED
  BY <1>1, <1>2, <1>3, <1>4, <1>7, <1>12 DEF ProjectInv

LEMMA PlaceStep ==
    ASSUME RegistryInv, ProjectInv, Place
    PROVE  ProjectInv'
<1> DEFINE head == Head(agenda)
           path == head.path
           last == Last(path)
           deps == lock.packages[last].deps
           rest == Tail(agenda)
           b == Below(path, deps)
           s == Tasks("seal", <<path>>)
<1>1. /\ pc = "place" /\ pc' = pc /\ outcome' = outcome /\ lock' = lock
      /\ agenda # <<>> /\ head.step = "place" /\ Installable(path)
      /\ installed' = Placed(path, tree[last], Nil)
      /\ agenda' = b \o s \o rest
      /\ depFile' = depFile /\ manifest' = manifest
  BY DEF Place
<1> HIDE DEF head, path, last, deps, rest, b, s
<1>2. CommandInv /\ Locked /\ SoundLock(lock) /\ LockInv /\ TreesInv /\ Placing /\ outcome = "running"
  BY <1>1 DEF ProjectInv, CommandInv, LockInv
<1>3. Paths' = Paths /\ Jobs' = Jobs /\ Locked' /\ LockInv'
  BY <1>1, <1>2, SameLock
<1>4. CommandInv'
  BY <1>1, <1>2 DEF CommandInv, Dependencies
<1>5. head \in Jobs /\ rest \in Seq(Jobs) /\ ToSet(agenda) = {head} \union ToSet(rest)
  <2>1. agenda \in Seq(Jobs) /\ agenda # <<>>
    BY <1>1, <1>2 DEF Placing
  <2> QED
    BY <2>1, ToSetHead DEF head, rest
<1>6. path \in Paths /\ head = Job("place", path)
  BY <1>1, <1>5 DEF Jobs, Job, path
<1>7. last \in DOMAIN lock.packages /\ tree[last] \in SUBSET Contents
  <2>1. Loadable(last) /\ last \in DOMAIN lock.packages
    BY <1>1 DEF Installable, last
  <2> QED
    BY <2>1 DEF Loadable, RegistryInv, RegistryTypes, Trees
<1>8. /\ path \in Seq(Locators) /\ path \in Seq(DOMAIN lock.packages) /\ path # <<>>
      /\ Len(path) \in Nat /\ Len(path) >= 1
  BY <1>2, <1>6, LockFacts
<1>9. LocatorsOf(deps) = LockedNeeds(last)
  BY DEF LockedNeeds, deps
<1>10. ASSUME NEW l \in LocatorsOf(deps) PROVE Append(path, l) \in Paths
  BY <1>2, <1>6, <1>8, <1>9, PathGrows DEF last
<1>11. LocatorsOf(deps) \subseteq Locators
  BY <1>2, <1>7, <1>9, LockFacts
<1>12. b \in Seq(Jobs) /\ ToSet(b) = {Job("place", Append(path, l)) : l \in LocatorsOf(deps)}
  BY <1>10, <1>11, BelowIs DEF b
<1>13. s \in Seq(Jobs) /\ ToSet(s) = {Job("seal", path)}
  BY <1>6, OneTask DEF s
<1>14. agenda' \in Seq(Jobs) /\ ToSet(agenda') = ToSet(b) \union ToSet(s) \union ToSet(rest)
  <2>1. b \o s \in Seq(Jobs) /\ ToSet(b \o s) = ToSet(b) \union ToSet(s)
    BY <1>12, <1>13, ToSetSplits
  <2> DEFINE c == b \o s
  <2>2. agenda' = c \o rest /\ c \in Seq(Jobs)
    BY <1>1, <2>1
  <2> HIDE DEF c
  <2>3. c \o rest \in Seq(Jobs) /\ ToSet(c \o rest) = ToSet(c) \union ToSet(rest)
    BY <1>5, <2>2, ToSetSplits
  <2>4. ToSet(c) = ToSet(b) \union ToSet(s)
    BY <2>1 DEF c
  <2> QED
    BY <2>2, <2>3, <2>4
<1>15. /\ TreesInv' /\ DOMAIN installed' = DOMAIN installed \union {path}
       /\ \A p \in DOMAIN installed : p # path => installed'[p] = installed[p]
  BY <1>1, <1>2, <1>7, <1>8, PlacedIs
<1> DEFINE A == ToSet(agenda')
<1>16. ToSet(agenda)' = A
  BY DEF ToSet
<1> HIDE DEF A
<1>17. Job("seal", path) \in A /\ ToSet(rest) \subseteq A
       /\ \A l \in LocatorsOf(deps) : Job("place", Append(path, l)) \in A
  BY <1>12, <1>13, <1>14 DEF A
<1>18. ASSUME NEW j \in A, j.step = "seal" PROVE j.path \in DOMAIN installed'
  <2>1. CASE j \in ToSet(b)
    <3>1. j.step = "place"
      BY <1>12, <2>1 DEF Job
    <3> QED
      BY <1>18, <3>1
  <2>2. CASE j \in ToSet(s)
    BY <1>13, <1>15, <2>2 DEF Job
  <2>3. CASE j \in ToSet(rest)
    BY <1>2, <1>5, <1>15, <1>18, <2>3 DEF Placing
  <2> QED
    BY <1>14, <2>1, <2>2, <2>3 DEF A
<1>19. ASSUME NEW p \in Paths \ DOMAIN installed' PROVE \E j \in A : j.step = "place" /\ Leads(j.path, p)
  <2>1. p \in Paths \ DOMAIN installed /\ p # path
    BY <1>15
  <2>2. PICK j \in ToSet(agenda) : j.step = "place" /\ Leads(j.path, p)
    BY <1>2, <2>1 DEF Placing
  <2>3. CASE j \in ToSet(rest)
    BY <1>17, <2>2, <2>3
  <2>4. CASE j = head
    <3>1. Leads(path, p)
      BY <2>2, <2>4 DEF path
    <3> DEFINE n == Len(path)
               m == Len(p)
               l == p[n + 1]
               q == Append(path, l)
    <3>2. n \in Nat /\ n >= 1 /\ m \in Nat /\ n <= m /\ \A i \in 1 .. n : p[i] = path[i]
      BY <1>2, <1>8, <2>1, <3>1, LockFacts DEF Leads
    <3>3. n # m
      <4> SUFFICES ASSUME n = m PROVE FALSE
        OBVIOUS
      <4> DEFINE S == DOMAIN lock.packages
      <4>1. p \in Seq(S) /\ path \in Seq(S)
        BY <1>2, <1>8, <2>1, LockFacts
      <4> HIDE DEF S
      <4>2. p = path
        BY <3>2, <4>1, SeqEqual
      <4> QED
        BY <2>1, <4>2
    <3> HIDE DEF n, m
    <3>4. n \in 1 .. n /\ n \in 1 .. m - 1 /\ n + 1 <= m
      BY <3>2, <3>3
    <3>5. l \in LockedNeeds(p[n])
      BY <2>1, <3>4 DEF Paths, Path, m
    <3>6. p[n] = last
      BY <3>2, <3>4 DEF last, Last, n
    <3>7. l \in LocatorsOf(deps)
      BY <1>9, <3>5, <3>6
    <3>8. Len(q) = n + 1 /\ (\A i \in 1 .. n : q[i] = path[i]) /\ q[n + 1] = l
      <4> HIDE DEF l
      <4>1. l \in Locators
        BY <1>11, <3>7
      <4> QED
        BY <1>8, <4>1, AppendProperties DEF n
    <3>9. Leads(q, p)
      <4>1. \A i \in 1 .. n + 1 : i \in 1 .. n \/ i = n + 1
        BY <3>2
      <4> HIDE DEF q
      <4> QED
        BY <3>2, <3>4, <3>8, <4>1 DEF Leads, m
    <3>10. Job("place", q) \in A
      BY <1>17, <3>7
    <3> HIDE DEF q
    <3>11. Job("place", q).step = "place" /\ Job("place", q).path = q
      BY DEF Job
    <3> QED
      BY <3>9, <3>10, <3>11
  <2> QED
    BY <1>5, <2>3, <2>4
<1>20. ASSUME NEW p \in DOMAIN installed' PROVE Sealed(p)' \/ Job("seal", p) \in A
  <2>1. CASE p = path
    BY <1>17, <2>1
  <2>2. CASE p # path
    <3>1. p \in DOMAIN installed /\ installed'[p] = installed[p]
      BY <1>15, <2>2
    <3>2. Sealed(p) \/ Job("seal", p) \in ToSet(agenda)
      BY <1>2, <3>1 DEF Placing
    <3>3. Sealed(p) => Sealed(p)'
      BY <1>1, <3>1 DEF Sealed
    <3>4. Job("seal", p) # head
      BY <1>6 DEF Job
    <3> QED
      BY <1>5, <1>17, <3>2, <3>3, <3>4
  <2> QED
    BY <2>1, <2>2
<1>21. Placing'
  <2>1. DOMAIN installed' \subseteq Paths
    BY <1>2, <1>6, <1>15 DEF Placing
  <2> QED
    BY <1>3, <1>14, <1>16, <1>18, <1>19, <1>20, <2>1 DEF Placing, Leads, Job
<1> QED
  BY <1>1, <1>2, <1>3, <1>4, <1>15, <1>21, SMTT(30) DEF ProjectInv

LEMMA AllPlacedStep ==
    ASSUME ProjectInv, AllPlaced
    PROVE  ProjectInv'
<1>1. /\ pc = "place" /\ agenda = <<>> /\ pc' \in {"dep", "idle"} /\ lock' = lock /\ installed' = installed
      /\ pc' = "dep" => outcome' = outcome
      /\ depFile' = depFile /\ manifest' = manifest
  BY DEF AllPlaced, Goes, Ends
<1>2. CommandInv /\ Locked /\ Placing /\ outcome = "running"
  BY <1>1 DEF ProjectInv, CommandInv
<1>3. CommandInv'
  BY <1>1, <1>2 DEF CommandInv, Dependencies
<1>4. ToSet(agenda) = {}
  BY <1>1 DEF ToSet
<1>5. Unfolded
  BY <1>2, <1>4 DEF Placing, Unfolded
<1> QED
  BY <1>1, <1>2, <1>3, <1>5, QuietStep

LEMMA DepStep ==
    ASSUME ProjectInv, WriteDepFile
    PROVE  ProjectInv'
<1>1. /\ pc = "dep" /\ pc' = "idle" /\ lock' = lock /\ installed' = installed
      /\ depFile' \in {depFile, DOMAIN lock.packages} /\ manifest' = manifest
  BY DEF WriteDepFile, Ends
<1>2. CommandInv /\ Locked /\ Unfolded /\ SoundLock(lock)
  BY <1>1 DEF ProjectInv, LockInv
<1>3. depFile' \subseteq Locators
  BY <1>1, <1>2, LockFacts DEF CommandInv
<1>4. CommandInv'
  BY <1>1, <1>2, <1>3 DEF CommandInv, Dependencies
<1> QED
  BY <1>1, <1>2, <1>4, QuietStep

(* A command that stops leaves a manifest, a lock and trees that the next  *)
(* one can start from.                                                     *)
LEMMA StopStep ==
    ASSUME RegistryInv, ProjectInv, CommandStops
    PROVE  ProjectInv'
<1> DEFINE path == Head(agenda).path
<1>1. pc # "idle" /\ pc' = "idle" /\ outcome' = "failed"
  BY DEF CommandStops, Ends
<1>2. CommandInv /\ LockInv /\ TreesInv
  BY DEF ProjectInv
<1>3. \/ UNCHANGED <<manifest, lock, installed, depFile>>
      \/ pc = "unlist" /\ manifest' = Broken /\ UNCHANGED <<lock, installed, depFile>>
      \/ lock' = Broken /\ UNCHANGED <<manifest, installed, depFile>>
      \/ /\ \E left \in SUBSET DOMAIN installed : installed' = [p \in left |-> installed[p]]
         /\ UNCHANGED <<manifest, lock, depFile>>
      \/ /\ pc = "place" /\ agenda # <<>> /\ Head(agenda).step = "place"
         /\ Installable(path)
         /\ \E files \in Partial(tree[Last(path)]) : installed' = Placed(path, files, Nil)
         /\ UNCHANGED <<manifest, lock, depFile>>
      \/ /\ pc = "place" /\ agenda # <<>> /\ Head(agenda).step = "seal"
         /\ installed' = [installed EXCEPT ![path].lock = Broken]
         /\ UNCHANGED <<manifest, lock, depFile>>
      \/ /\ pc = "dep"
         /\ \E some \in SUBSET DOMAIN lock.packages : depFile' = some
         /\ UNCHANGED <<manifest, lock, installed>>
  BY Zenon DEF CommandStops
<1>4. CommandInv'
  <2>1. manifest' = Broken \/ manifest' = manifest
    BY <1>3
  <2>2. depFile' \subseteq Locators
    <3>1. CASE depFile' = depFile
      BY <1>2, <3>1 DEF CommandInv
    <3>2. CASE pc = "dep" /\ \E some \in SUBSET DOMAIN lock.packages : depFile' = some
      <4>1. SoundLock(lock)
        BY <1>2, <3>2 DEF LockInv, ProjectInv
      <4> QED
        BY <3>2, <4>1, LockFacts
    <3> QED
      BY <1>3, <3>1, <3>2
  <2> QED
    BY <1>1, <1>2, <2>1, <2>2 DEF CommandInv, Dependencies
<1>5. LockInv'
  <2>1. CASE lock' = lock
    BY <1>2, <2>1, SameLock
  <2>2. CASE lock' = Broken
    <3>1. ~Locked'
      BY <2>2 DEF Locked
    <3> QED
      BY <3>1 DEF LockInv
  <2> QED
    BY <1>3, <2>1, <2>2
<1>6. pc = "place" /\ agenda # <<>> => Head(agenda) \in Jobs /\ path \in Paths /\ path \in Seq(Locators)
  <2> SUFFICES ASSUME pc = "place", agenda # <<>>
               PROVE  Head(agenda) \in Jobs /\ path \in Paths /\ path \in Seq(Locators)
    OBVIOUS
  <2>1. SoundLock(lock) /\ Placing
    BY <1>2 DEF ProjectInv, LockInv
  <2>2. Head(agenda) \in Jobs
    BY <2>1, ToSetHead DEF Placing
  <2>3. path \in Paths
    BY <2>2 DEF Jobs
  <2> QED
    BY <2>1, <2>2, <2>3, LockFacts
<1> HIDE DEF path
<1>7. TreesInv'
  <2>1. CASE installed' = installed
    BY <1>2, <2>1 DEF TreesInv
  <2>2. CASE \E left \in SUBSET DOMAIN installed : installed' = [p \in left |-> installed[p]]
    <3>1. PICK left \in SUBSET DOMAIN installed : installed' = [p \in left |-> installed[p]]
      BY <2>2
    <3>2. DOMAIN installed' = left /\ \A p \in left : installed'[p] = installed[p]
      BY <3>1
    <3> QED
      BY <1>2, <3>2 DEF TreesInv
  <2>3. CASE /\ pc = "place" /\ agenda # <<>> /\ Installable(path)
             /\ \E files \in Partial(tree[Last(path)]) : installed' = Placed(path, files, Nil)
    <3>1. PICK files \in Partial(tree[Last(path)]) : installed' = Placed(path, files, Nil)
      BY <2>3
    <3>2. tree[Last(path)] \in SUBSET Contents
      BY <2>3 DEF Installable, Loadable, RegistryInv, RegistryTypes, Trees
    <3>3. files \in SUBSET Contents
      BY <3>2, FileContents DEF Partial
    <3> QED
      BY <1>2, <1>6, <2>3, <3>1, <3>3, PlacedIs
  <2>4. CASE /\ pc = "place" /\ agenda # <<>> /\ Head(agenda).step = "seal"
             /\ installed' = [installed EXCEPT ![path].lock = Broken]
    <3>1. Head(agenda) \in ToSet(agenda)
      BY <2>4, ToSetHead DEF ProjectInv, Placing
    <3>2. path \in DOMAIN installed
      BY <2>4, <3>1 DEF ProjectInv, Placing, path
    <3> QED
      BY <1>2, <2>4, <3>2, SealedIs
  <2> QED
    BY <1>3, <2>1, <2>2, <2>3, <2>4
<1> QED
  BY <1>1, <1>4, <1>5, <1>7 DEF ProjectInv

LEMMA ProjectStep ==
    ASSUME RegistryInv, ProjectInv, [Next]_vars
    PROVE  ProjectInv'
<1>1. CASE Publishing
  <2>1. UNCHANGED projectVars
    BY <1>1 DEF Publishing, BeginPublish, OpenFile, FillFile, HashFile, WriteMetadata, PublisherStops
  <2> QED
    BY <2>1, IdleStep, SMTT(30)
<1>2. CASE UNCHANGED vars
  <2>1. UNCHANGED projectVars
    BY <1>2 DEF vars, projectVars
  <2> QED
    BY <2>1, IdleStep
<1> QED
  BY <1>1, <1>2, OwnersSteps, PinStep, ClearStep, PlaceStep, SealStep, AllPlacedStep, DepStep, StopStep DEF Next

-----------------------------------------------------------------------------
(* The theorems                                                            *)

LEMMA Invariance == Spec => [](RegistryInv /\ ProjectInv)
<1>1. Init => RegistryInv /\ ProjectInv
  BY RegistryStart, ProjectStart
<1>2. RegistryInv /\ ProjectInv /\ [Next]_vars => RegistryInv' /\ ProjectInv'
  BY RegistryStep, ProjectStep
<1> QED
  BY <1>1, <1>2, PTL DEF Spec

(* What the invariant says of published releases.                          *)
LEMMA PublishedAreWhole == RegistryInv => PublishedIsWhole
<1> SUFFICES ASSUME RegistryInv, NEW l \in Locators, meta[l] \notin {Nil, Broken},
                    l \notin abandoned, \A p \in Publishers : publisher[p].release # l
             PROVE  tree[l] = WholeTree
  BY DEF RegistryInv, Described, PublishedIsWhole
<1>1. \A f \in Files : Touched(l, f) /\ Secure(l, f)
  BY DEF RegistryInv, Described
<1>2. \A f \in Files : Whole(f) \in tree[l] /\ CutShort(f) \notin tree[l]
  BY <1>1 DEF Secure, Writes
<1>3. tree[l] \in SUBSET Contents
  <2>1. tree[l] # Nil
    BY <1>1, NilFacts DEF Touched
  <2> QED
    BY <2>1 DEF RegistryInv, RegistryTypes, Trees
<1> QED
  BY <1>2, <1>3, FileContents DEF WholeTree

(* The state is well formed, and what is published is whole: a release     *)
(* whose metadata can be read has all its files if nobody else was         *)
(* publishing it, wherever publishers have stopped; and if others were,    *)
(* once all have ended, none of them in the middle of its copy             *)
(* (publishPackageToRegistry, copyPackageTree).                            *)
THEOREM PackagesAreWellFormed == Spec => []WellFormed
<1>1. RegistryInv /\ ProjectInv => WellFormed
  <2> SUFFICES ASSUME RegistryInv, ProjectInv PROVE WellFormed
    OBVIOUS
  <2>1. \A l \in Locators : /\ tree[l] \in (SUBSET Contents) \union {Nil}
                            /\ meta[l] \in (SUBSET Contents) \union {Nil, Broken}
    BY DEF RegistryInv, RegistryTypes, Trees
  <2>2. /\ \A p \in Publishers : publisher[p].pc \in {"idle", "copy", "fill", "hash", "write"}
        /\ contested \subseteq Locators /\ abandoned \subseteq Locators
    BY DEF RegistryInv, RegistryTypes, Publications
  <2>3. /\ manifest = Broken \/ Dependencies(manifest)
        /\ pc \in {"idle", "unlist", "pin", "clear", "place", "dep", "stop"}
        /\ depFile \subseteq Locators
        /\ pc \in {"clear", "place", "dep"} => Locked
    BY DEF ProjectInv, CommandInv
  <2>4. Locked => lock \in Locks(DOMAIN lock.direct, DOMAIN lock.packages)
    BY DEF ProjectInv, LockInv, SoundLock, WholeLock
  <2>5. \A p \in DOMAIN installed : p \in Seq(Locators) /\ installed[p].files \in SUBSET Contents
    BY DEF ProjectInv, TreesInv
  <2> QED
    BY <2>1, <2>2, <2>3, <2>4, <2>5, PublishedAreWhole DEF WellFormed, TypeOK
<1> QED
  BY <1>1, Invariance, PTL

(* A lock file that can be read is closed and free of cycles, and what it  *)
(* pins is compatible with what the manifests asked for, whatever was      *)
(* being published while it was made (buildPackageLockForSource).          *)
THEOREM LocksAreSound == Spec => []LockIsSound
<1>1. ProjectInv => LockIsSound
  BY SoundIsSound DEF ProjectInv, LockInv
<1> QED
  BY <1>1, Invariance, PTL

(* After an install or update that succeeds, whatever stopped before it,   *)
(* the project holds the locked graph unfolded, each package with its own  *)
(* lock, and the project's imports find the locked release and no other    *)
(* (installPackageDependenciesFromLockData, resolveImportPath).            *)
THEOREM InstallsAreLocked == Spec => []InstalledIsLocked
<1>1. ProjectInv => InstalledIsLocked
  <2> SUFFICES ASSUME ProjectInv, outcome = "installed"
               PROVE  /\ Locked
                      /\ DOMAIN installed = LockedPaths
                      /\ \A p \in DOMAIN installed : installed[p].lock = lock.packages[Last(p)].deps
                      /\ \A n \in DOMAIN lock.direct :
                            ImportAnswers(<<>>, n) \subseteq {<<At(n, lock.direct[n])>>}
    BY DEF InstalledIsLocked
  <2>1. Locked /\ SoundLock(lock) /\ DOMAIN installed = Paths /\ \A p \in Paths : Sealed(p)
    BY DEF ProjectInv, LockInv, Unfolded
  <2>2. DOMAIN installed = LockedPaths
    BY <2>1, LockedPathsAre
  <2>3. ASSUME NEW n \in DOMAIN lock.direct, NEW q \in ImportAnswers(<<>>, n)
        PROVE  q = <<At(n, lock.direct[n])>>
    <3>1. CASE DepFileAnswers(n) # {}
      <4>1. q \in DepFileAnswers(n)
        BY <2>3, <3>1 DEF ImportAnswers
      <4>2. PICK l \in depFile : l.name = n /\ EntryExists(<<l>>) /\ q = <<l>>
        BY <4>1 DEF DepFileAnswers
      <4>3. l \in LocatorsOf(lock.direct)
        BY <2>1, <4>2, PathStarts DEF EntryExists
      <4>4. PICK m \in DOMAIN lock.direct : l = At(m, lock.direct[m])
        BY <4>3 DEF LocatorsOf
      <4>5. m = n
        BY <4>2, <4>4 DEF At
      <4> QED
        BY <4>2, <4>4, <4>5
    <3>2. CASE DepFileAnswers(n) = {}
      <4>1. q \in LockAnswers(<<>>, n)
        BY <2>3, <3>2 DEF ImportAnswers
      <4>2. OwnersLock(<<>>) = lock.direct
        BY <2>1 DEF OwnersLock
      <4>3. q = Append(<<>>, At(n, lock.direct[n]))
        BY <4>1, <4>2 DEF LockAnswers
      <4> QED
        BY <4>3
    <3> QED
      BY <3>1, <3>2
  <2> QED
    BY <2>1, <2>2, <2>3 DEF Sealed
<1> QED
  BY <1>1, Invariance, PTL
=============================================================================
