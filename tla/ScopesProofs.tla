---------------------------- MODULE ScopesProofs ----------------------------
(***************************************************************************)
(* Every function that is open in another, what its upvalues stand for,    *)
(* and the machine that runs the code: the inductive invariant of module   *)
(* Scopes, and the two invariants that follow from it.                     *)
(***************************************************************************)
EXTENDS ScopesCodeProofs

-----------------------------------------------------------------------------
(* The last of the open functions                                          *)

\* The blocks after o.
Upper(b, o) == [d \in 1 .. Len(b) - o |-> b[o + d]]

LEMMA UpperIs ==
    ASSUME NEW b \in Seq(Constructs), NEW o \in Nat, o < Len(b)
    PROVE  /\ Upper(b, o) \in Seq(Constructs) /\ Len(Upper(b, o)) = Len(b) - o
           /\ Len(b) \in Nat /\ Len(b) - o \in Nat /\ Len(b) - o > 0
           /\ \A d \in 1 .. Len(b) - o : Upper(b, o)[d] = b[o + d] /\ o + d \in 1 .. Len(b)
           /\ o + (Len(b) - o) = Len(b)
<1>1. PICK l \in Nat : l = Len(b)
  BY LenProperties
<1>2. /\ l - o \in Nat /\ l - o > 0 /\ o + (l - o) = l
      /\ \A d \in 1 .. l - o : o + d \in 1 .. l
  BY <1>1
<1>3. \A d \in 1 .. Len(b) - o : Upper(b, o)[d] = b[o + d] /\ b[o + d] \in Constructs
  BY <1>1, <1>2, ElementOfSeq DEF Upper
<1>4. Upper(b, o) \in [1 .. Len(b) - o -> Constructs]
  BY <1>3 DEF Upper
<1>5. Upper(b, o) \in Seq(Constructs) /\ Len(Upper(b, o)) = l - o
  <2>1. PICK m \in Nat : m = Len(b) - o
    BY <1>1, <1>2
  <2>2. Upper(b, o) \in [1 .. m -> Constructs]
    BY <1>4, <2>1
  <2>3. Upper(b, o) \in Seq(Constructs) /\ DOMAIN Upper(b, o) = 1 .. m
    BY <2>2, FunctionIsSeq
  <2> QED
    BY <2>1, <2>3, <1>1, LenProperties
<1> QED
  BY <1>1, <1>2, <1>3, <1>5

\* The name of each function that is open stands last in the one around it.
Nesting(f, b, p) ==
    /\ b[1].self = Temp
    /\ \A k \in 1 .. Len(f) - 1 :
          /\ Inner(f[k])
          /\ f[k].locals[Len(f[k].locals)].var = b[p[k + 1]].self
          /\ f[k].locals[Len(f[k].locals)].name # NoName

\* Consistent, but that the last function may have a function in it that is not open yet, or not any more.
Standing(f, b, t, p) ==
    /\ Segmented(f, b, p) /\ Nesting(f, b, p)
    /\ \A k \in 1 .. Len(f) : Sits(f[k], Segment(f, b, p, k)) /\ Compiled(t, f[k], Segment(f, b, p, k))
    /\ t \/ LeftAlone(f, b, p)

LEMMA StandingIs ==
    ASSUME NEW f, NEW b, NEW t, NEW p
    PROVE  Consistent(f, b, t, p) <=> (Standing(f, b, t, p) /\ ~Inner(f[Len(f)]))
<1>1. Nested(f, b, p) <=> (Nesting(f, b, p) /\ ~Inner(f[Len(f)]))
  BY DEF Nested, Nesting
<1> QED
  BY <1>1 DEF Consistent, Standing

\* The last function and its blocks, those after o.
LastOpen(f, b, t, p, o) ==
    /\ o \in Nat /\ o < Len(b) /\ p[Len(f)] = o + 1
    /\ Segment(f, b, p, Len(f)) = Upper(b, o)
    /\ Sits(f[Len(f)], Upper(b, o)) /\ Compiled(t, f[Len(f)], Upper(b, o))
    /\ Len(Upper(b, o)) = f[Len(f)].scopeDepth
    /\ b[o + 1].kind = "fn" /\ \A d \in 1 .. Len(b) : d > o + 1 => b[d].kind # "fn"

LEMMA LastOpenIs ==
    ASSUME NEW f \in Seq(Compilers), Len(f) > 0, NEW b \in Seq(Constructs), NEW t, NEW p,
           Standing(f, b, t, p)
    PROVE  \E o : LastOpen(f, b, t, p, o)
<1>1. PICK k \in Nat : k = Len(f)
  BY LenProperties
<1>2. /\ k > 0 /\ k \in 1 .. k + 1 /\ k + 1 \in 1 .. k + 1 /\ 1 \in 1 .. k + 1 /\ k < k + 1 /\ k \in 1 .. k
      /\ 1 < k \/ 1 = k
  BY <1>1
<1>3. /\ p \in [1 .. k + 1 -> Nat] /\ p[1] = 1 /\ p[k + 1] = Len(b) + 1 /\ p[k] < p[k + 1]
      /\ 1 < k => p[1] < p[k]
      /\ p[k + 1] = p[k] + f[k].scopeDepth
      /\ \A d \in 1 .. Len(b) : b[d].kind = "fn" <=> \E l \in 1 .. k : d = p[l]
      /\ \A l \in 1 .. k : l < k => p[l] < p[k]
  <2>1. Segmented(f, b, p)
    BY DEF Standing
  <2> QED
    BY <2>1, <1>1, <1>2 DEF Segmented
<1>4. PICK l \in Nat, s \in Nat, x \in Nat : l = Len(b) /\ s = f[k].scopeDepth /\ x = p[k]
  <2>1. f[k] \in Compilers
    BY <1>1, <1>2, ElementOfSeq
  <2> QED
    BY <2>1, <1>2, <1>3, CompilerIs, LenProperties
<1>5. PICK o \in Nat : o = x - 1
  <2>1. x >= 1
    BY <1>2, <1>3, <1>4
  <2> QED
    BY <2>1
<1>6. o < l /\ x = o + 1 /\ s = l - o /\ (\A d \in 1 .. s : x + d - 1 = o + d) /\ o + 1 \in 1 .. l
  <2>1. x < l + 1 /\ l + 1 = x + s
    BY <1>3, <1>4
  <2>2. x >= 1
    BY <1>2, <1>3, <1>4
  <2> QED
    BY <2>1, <2>2, <1>5
<1>7. Segment(f, b, p, k) = Upper(b, o)
  BY <1>4, <1>6 DEF Segment, Upper
<1>8. Sits(f[k], Upper(b, o)) /\ Compiled(t, f[k], Upper(b, o))
  BY <1>1, <1>2, <1>7 DEF Standing
<1>9. Len(Upper(b, o)) = f[k].scopeDepth
  BY <1>8 DEF Sits, Named
<1>10. b[o + 1].kind = "fn"
  BY <1>2, <1>3, <1>4, <1>6
<1>11. ASSUME NEW d \in 1 .. Len(b), d > o + 1
       PROVE  b[d].kind # "fn"
  <2>1. \A y \in 1 .. k : d # p[y]
    <3>1. SUFFICES ASSUME NEW y \in 1 .. k, d = p[y]
                   PROVE  FALSE
      OBVIOUS
    <3>2. y = k \/ y < k
      OBVIOUS
    <3>3. y \in 1 .. k + 1
      OBVIOUS
    <3>4. p[y] \in Nat /\ p[y] <= x
      <4>1. p[y] \in Nat
        BY <3>3, <1>3
      <4>2. p[y] = x \/ p[y] < x
        BY <3>2, <1>3, <1>4
      <4> QED
        BY <4>1, <4>2
    <3> QED
      BY <3>1, <3>4, <1>6, <1>11
  <2> QED
    BY <2>1, <1>3
<1> QED
  BY <1>1, <1>4, <1>6, <1>7, <1>8, <1>9, <1>10, <1>11 DEF LastOpen

\* The last of the functions f becomes e, and the blocks b after o change.
OnlyLast(f, g, e, b, bb, o) ==
    /\ g \in Seq(Compilers) /\ Len(g) = Len(f) /\ g[Len(f)] = e
    /\ \A k \in 1 .. Len(f) : k # Len(f) => g[k] = f[k]
    /\ bb \in Seq(Constructs) /\ o < Len(bb) /\ \A d \in 1 .. o : bb[d] = b[d]
    /\ bb[o + 1].kind = "fn" /\ bb[o + 1].self = b[o + 1].self
    /\ \A d \in 1 .. Len(bb) : d > o + 1 => bb[d].kind # "fn"

\* The blocks of the k functions begin at the places p.
Begins(p, k) ==
    /\ k \in Nat /\ k > 0 /\ p \in [1 .. k + 1 -> Nat] /\ p[1] = 1
    /\ \A l \in 1 .. k : l \in 1 .. k + 1 /\ l + 1 \in 1 .. k + 1 /\ p[l] >= 1 /\ p[l] <= p[k]
    /\ \A l \in 1 .. k : l # k => l + 1 \in 1 .. k /\ p[l] < p[l + 1] /\ p[l + 1] <= p[k]
    /\ \A l, m \in 1 .. k : l < m => p[l] < p[m]

LEMMA BeginsIs ==
    ASSUME NEW f \in Seq(Compilers), Len(f) > 0, NEW b, NEW p, Segmented(f, b, p)
    PROVE  Begins(p, Len(f))
<1>1. PICK k \in Nat : k = Len(f)
  BY LenProperties
<1>2. /\ k > 0 /\ p \in [1 .. k + 1 -> Nat] /\ p[1] = 1
      /\ \A l, m \in 1 .. k + 1 : l < m => p[l] < p[m]
  BY <1>1 DEF Segmented
<1>3. \A l \in 1 .. k : l \in 1 .. k + 1 /\ l + 1 \in 1 .. k + 1 /\ (l # k => l + 1 \in 1 .. k)
  BY <1>2
<1>4. \A l, m \in 1 .. k : l < m => p[l] < p[m]
  BY <1>2, <1>3
<1>5. ASSUME NEW l \in 1 .. k
      PROVE  p[l] >= 1 /\ p[l] <= p[k] /\ (l # k => p[l] < p[l + 1])
  <2>1. p[l] \in Nat /\ p[k] \in Nat /\ k \in 1 .. k /\ 1 \in 1 .. k
    BY <1>2, <1>3
  <2>2. (l = 1 \/ 1 < l) /\ (l = k \/ l < k)
    BY <2>1
  <2>3. p[l] >= 1
    BY <1>2, <1>4, <2>1, <2>2
  <2>4. p[l] <= p[k]
    BY <1>4, <2>1, <2>2
  <2>5. ASSUME l # k
        PROVE  p[l] < p[l + 1]
    <3>1. l + 1 \in 1 .. k /\ l < l + 1
      BY <2>5, <1>3
    <3> QED
      BY <3>1, <1>4
  <2> QED
    BY <2>3, <2>4, <2>5
<1>6. \A l \in 1 .. k : l # k => p[l + 1] <= p[k]
  BY <1>3, <1>5
<1> QED
  BY <1>1, <1>2, <1>3, <1>4, <1>5, <1>6 DEF Begins

\* The functions end where the blocks do, which are n now.
EndsNow(p, q, k, n) ==
    /\ q \in [1 .. k + 1 -> Nat] /\ q[k + 1] = n + 1
    /\ \A l \in 1 .. k : q[l] = p[l]

LEMMA TopSegmented ==
    ASSUME NEW f \in Seq(Compilers), Len(f) > 0, NEW b \in Seq(Constructs), NEW t, NEW p,
           Standing(f, b, t, p), NEW o, LastOpen(f, b, t, p, o),
           NEW g, NEW e, NEW bb, OnlyLast(f, g, e, b, bb, o), e.scopeDepth = Len(bb) - o,
           NEW q, EndsNow(p, q, Len(f), Len(bb))
    PROVE  Segmented(g, bb, q)
<1>1. PICK k \in Nat : k = Len(f)
  BY LenProperties
<1>2. Begins(p, k) /\ Segmented(f, b, p)
  BY <1>1, BeginsIs DEF Standing
<1>3. PICK n \in Nat, l \in Nat : n = Len(bb) /\ l = Len(b)
  BY LenProperties DEF OnlyLast
<1>4. o \in Nat /\ o < l /\ o < n /\ p[k] = o + 1
  BY <1>1, <1>3 DEF LastOpen, OnlyLast
<1>5. /\ q \in [1 .. k + 1 -> Nat] /\ q[k + 1] = n + 1
      /\ \A i \in 1 .. k : q[i] = p[i] /\ p[i] >= 1 /\ p[i] <= o + 1 /\ p[i] \in Nat /\ i \in 1 .. k + 1
      /\ k \in 1 .. k /\ 1 \in 1 .. k /\ q[1] = 1
  <2>1. k > 0 /\ p \in [1 .. k + 1 -> Nat] /\ p[1] = 1
      /\ \A i \in 1 .. k : i \in 1 .. k + 1 /\ p[i] >= 1 /\ p[i] <= p[k]
    BY <1>2 DEF Begins
  <2>2. k \in 1 .. k /\ 1 \in 1 .. k
    BY <2>1
  <2>3. q \in [1 .. k + 1 -> Nat] /\ q[k + 1] = n + 1 /\ \A i \in 1 .. k : q[i] = p[i]
    BY <1>1, <1>3 DEF EndsNow
  <2>4. \A i \in 1 .. k : p[i] \in Nat /\ p[i] <= o + 1
    BY <2>1, <1>4
  <2> QED
    BY <2>1, <2>2, <2>3, <2>4
<1>6. ASSUME NEW i \in 1 .. k + 1, NEW j \in 1 .. k + 1, i < j
      PROVE  q[i] < q[j]
  <2>1. i \in 1 .. k /\ (j = k + 1 \/ j \in 1 .. k)
    BY <1>6
  <2>2. CASE j = k + 1
    <3>1. q[i] <= o + 1 /\ q[j] = n + 1 /\ q[i] \in Nat
      BY <2>1, <2>2, <1>5
    <3> QED
      BY <3>1, <1>4
  <2>3. CASE j \in 1 .. k
    BY <2>1, <2>3, <1>2, <1>5, <1>6 DEF Begins
  <2> QED
    BY <2>1, <2>2, <2>3
<1>7. ASSUME NEW i \in 1 .. k
      PROVE  q[i + 1] = q[i] + g[i].scopeDepth
  <2>1. CASE i = k
    <3>1. g[i].scopeDepth = n - o /\ q[i] = o + 1 /\ q[i + 1] = n + 1
      BY <2>1, <1>1, <1>3, <1>4, <1>5 DEF OnlyLast
    <3> QED
      BY <3>1, <1>4
  <2>2. CASE i # k
    <3>1. i + 1 \in 1 .. k
      BY <2>2, <1>2 DEF Begins
    <3>2. q[i + 1] = p[i + 1] /\ q[i] = p[i]
      BY <3>1, <1>5
    <3>3. g[i] = f[i] /\ p[i + 1] = p[i] + f[i].scopeDepth
      BY <2>2, <1>1, <1>2 DEF OnlyLast, Segmented
    <3> QED
      BY <3>2, <3>3
  <2> QED
    BY <2>1, <2>2
<1>8. ASSUME NEW d \in 1 .. n
      PROVE  \E i \in 1 .. k : q[i] <= d /\ d < q[i + 1]
  <2>1. CASE d > o
    <3>1. q[k] <= d /\ d < q[k + 1]
      BY <2>1, <1>4, <1>5
    <3> QED
      BY <3>1, <1>5
  <2>2. CASE d <= o
    <3>1. d \in 1 .. l
      BY <2>2, <1>4
    <3>2. PICK i \in 1 .. k : p[i] <= d /\ d < p[i + 1]
      BY <3>1, <1>1, <1>2, <1>3 DEF Segmented
    <3>3. i # k
      BY <3>2, <2>2, <1>4
    <3>4. i + 1 \in 1 .. k
      BY <3>3, <1>2 DEF Begins
    <3> QED
      BY <3>2, <3>4, <1>5
  <2> QED
    BY <2>1, <2>2, <1>4
<1>9. ASSUME NEW d \in 1 .. n
      PROVE  bb[d].kind = "fn" <=> \E i \in 1 .. k : d = q[i]
  <2>1. CASE d > o + 1
    <3>1. bb[d].kind # "fn"
      BY <2>1, <1>3 DEF OnlyLast
    <3>2. \A i \in 1 .. k : q[i] <= o + 1 /\ q[i] \in Nat
      BY <1>5
    <3>3. \A i \in 1 .. k : d # q[i]
      BY <3>2, <2>1, <1>4
    <3> QED
      BY <3>1, <3>3
  <2>2. CASE d = o + 1
    BY <2>2, <1>4, <1>5 DEF OnlyLast
  <2>3. CASE d <= o
    <3>1. d \in 1 .. l /\ d \in 1 .. o
      BY <2>3, <1>4
    <3>2. bb[d] = b[d] /\ (b[d].kind = "fn" <=> \E i \in 1 .. k : d = p[i])
      BY <3>1, <1>1, <1>2, <1>3 DEF Segmented, OnlyLast
    <3> QED
      BY <3>2, <1>5
  <2> QED
    BY <2>1, <2>2, <2>3, <1>4
<1>10. Len(g) = k
  BY <1>1 DEF OnlyLast
<1> QED
  BY <1>10, <1>3, <1>5, <1>6, <1>7, <1>8, <1>9 DEF Segmented

LEMMA TopStanding ==
    ASSUME NEW f \in Seq(Compilers), Len(f) > 0, NEW b \in Seq(Constructs), NEW t, NEW p,
           Standing(f, b, t, p), NEW o, LastOpen(f, b, t, p, o),
           NEW g, NEW e, NEW bb, OnlyLast(f, g, e, b, bb, o),
           Sits(e, Upper(bb, o)), Compiled(t, e, Upper(bb, o)), e.upvalues = f[Len(f)].upvalues,
           NEW q, EndsNow(p, q, Len(f), Len(bb))
    PROVE  Standing(g, bb, t, q)
<1>1. PICK k \in Nat : k = Len(f)
  BY LenProperties
<1>2. Begins(p, k) /\ Segmented(f, b, p) /\ Nesting(f, b, p)
  BY <1>1, BeginsIs DEF Standing
<1>3. PICK n \in Nat : n = Len(bb) /\ bb \in Seq(Constructs) /\ o < n
  BY LenProperties DEF OnlyLast
<1>4. o \in Nat /\ p[k] = o + 1 /\ k \in 1 .. k
  BY <1>1, <1>2 DEF LastOpen, Begins
<1>5. Sits(e, Upper(bb, o)) /\ Compiled(t, e, Upper(bb, o)) /\ e.upvalues = f[k].upvalues
  BY <1>1
<1>6. e.scopeDepth = Len(bb) - o
  <2>1. Len(Upper(bb, o)) = e.scopeDepth
    BY <1>5 DEF Sits, Named
  <2>2. Len(Upper(bb, o)) = Len(bb) - o
    BY <1>3, <1>4, UpperIs
  <2> QED
    BY <2>1, <2>2
<1>7. Segmented(g, bb, q)
  BY <1>6, TopSegmented
<1>8. /\ Len(g) = k /\ g[k] = e /\ \A l \in 1 .. k : l # k => g[l] = f[l]
      /\ \A d \in 1 .. o : bb[d] = b[d]
      /\ bb[o + 1].self = b[o + 1].self
  BY <1>1 DEF OnlyLast
<1>9. \A l \in 1 .. k : q[l] = p[l] /\ p[l] \in Nat /\ p[l] >= 1 /\ p[l] <= o + 1
  <2>1. \A l \in 1 .. k : q[l] = p[l]
    BY <1>1 DEF EndsNow
  <2>2. \A l \in 1 .. k : p[l] \in Nat /\ p[l] >= 1 /\ p[l] <= o + 1
    BY <1>2, <1>4 DEF Begins
  <2> QED
    BY <2>1, <2>2
<1>10. \A l \in 1 .. k : bb[p[l]].self = b[p[l]].self
  <2>1. \A l \in 1 .. k : p[l] \in 1 .. o \/ p[l] = o + 1
    BY <1>4, <1>9
  <2> QED
    BY <2>1, <1>8
<1>11. Nesting(g, bb, q)
  <2>1. bb[1].self = Temp
    <3>1. p[1] = 1 /\ 1 \in 1 .. k
      BY <1>2 DEF Begins
    <3> QED
      BY <3>1, <1>2, <1>10 DEF Nesting
  <2>3. ASSUME NEW l \in 1 .. Len(g) - 1
        PROVE  /\ Inner(g[l])
               /\ g[l].locals[Len(g[l].locals)].var = bb[q[l + 1]].self
               /\ g[l].locals[Len(g[l].locals)].name # NoName
    <3>1. l \in 1 .. k - 1 /\ l \in 1 .. k /\ l + 1 \in 1 .. k /\ l # k
      BY <1>8
    <3>2. g[l] = f[l] /\ q[l + 1] = p[l + 1] /\ bb[p[l + 1]].self = b[p[l + 1]].self
      BY <3>1, <1>8, <1>9, <1>10
    <3> QED
      BY <3>1, <3>2, <1>1, <1>2 DEF Nesting
  <2> QED
    BY <2>1, <2>3 DEF Nesting
<1>12. ASSUME NEW l \in 1 .. k, l # k
       PROVE  Segment(g, bb, q, l) = Segment(f, b, p, l)
  <2>1. l + 1 \in 1 .. k /\ p[l + 1] <= o + 1 /\ p[l + 1] = p[l] + f[l].scopeDepth
    BY <1>1, <1>2, <1>4, <1>12 DEF Begins, Segmented
  <2>2. f[l].scopeDepth \in Nat /\ g[l] = f[l] /\ q[l] = p[l]
    BY <1>1, <1>8, <1>9, <1>12, ElementOfSeq, CompilerIs
  <2>3. \A d \in 1 .. f[l].scopeDepth : p[l] + d - 1 \in 1 .. o
    <3>1. PICK s \in Nat, x \in Nat : s = f[l].scopeDepth /\ x = p[l]
      BY <2>2, <1>9
    <3>2. x >= 1 /\ x + s <= o + 1
      BY <3>1, <2>1, <1>9
    <3>3. \A d \in 1 .. s : x + d - 1 \in 1 .. o
      BY <3>2, <1>4
    <3> QED
      BY <3>1, <3>3
  <2>4. \A d \in 1 .. f[l].scopeDepth : bb[p[l] + d - 1] = b[p[l] + d - 1]
    BY <2>3, <1>8
  <2> QED
    BY <2>2, <2>4 DEF Segment
<1>13. Segment(g, bb, q, k) = Upper(bb, o)
  <2>1. g[k].scopeDepth = n - o /\ q[k] = o + 1
    BY <1>3, <1>4, <1>6, <1>8, <1>9
  <2>2. \A d \in 1 .. n - o : o + 1 + d - 1 = o + d
    BY <1>3, <1>4
  <2> QED
    BY <2>1, <2>2, <1>3 DEF Segment, Upper
<1>14. ASSUME NEW l \in 1 .. k
       PROVE  Sits(g[l], Segment(g, bb, q, l)) /\ Compiled(t, g[l], Segment(g, bb, q, l))
  <2>1. CASE l = k
    BY <1>5, <2>1, <1>8, <1>13
  <2>2. CASE l # k
    BY <2>2, <1>1, <1>8, <1>12 DEF Standing
  <2> QED
    BY <2>1, <2>2
<1>15. t \/ LeftAlone(g, bb, q)
  <2>1. SUFFICES ASSUME LeftAlone(f, b, p)
                 PROVE  LeftAlone(g, bb, q)
    BY DEF Standing
  <2>2. SUFFICES ASSUME NEW l \in 2 .. k, NEW j \in 1 .. Len(g[l].upvalues),
                        g[l].upvalues[j].isLocal = TRUE,
                        NEW d \in q[l - 1] .. q[l] - 1, bb[d].kind = "loop", bb[d].left = TRUE
                 PROVE  g[l - 1].locals[g[l].upvalues[j].index].var # bb[d].own
    BY <1>8 DEF LeftAlone
  <2>3. l \in 1 .. k /\ l - 1 \in 1 .. k /\ l - 1 # k
    <3>1. \A x \in Nat : \A y \in 2 .. x : y \in 1 .. x /\ y - 1 \in 1 .. x /\ y - 1 # x
      OBVIOUS
    <3> QED
      BY <3>1, Zenon
  <2>4. g[l].upvalues = f[l].upvalues /\ g[l - 1] = f[l - 1]
    BY <2>3, <1>5, <1>8
  <2>5. q[l - 1] = p[l - 1] /\ q[l] = p[l] /\ p[l - 1] \in Nat /\ p[l - 1] >= 1 /\ p[l] \in Nat /\ p[l] <= o + 1
    BY <2>3, <1>9
  <2>6. d \in 1 .. o /\ d \in p[l - 1] .. p[l] - 1
    <3>1. PICK x \in Nat, y \in Nat : x = p[l - 1] /\ y = p[l]
      BY <2>5
    <3>2. d \in x .. y - 1 /\ x >= 1 /\ y <= o + 1
      BY <2>2, <2>5, <3>1
    <3>3. d \in 1 .. o
      BY <3>2, <1>4
    <3> QED
      BY <3>1, <3>2, <3>3
  <2>7. bb[d] = b[d]
    BY <2>6, <1>8
  <2> QED
    BY <2>1, <2>2, <2>4, <2>6, <2>7, <1>1 DEF LeftAlone
<1> QED
  BY <1>7, <1>8, <1>11, <1>14, <1>15 DEF Standing

LEMMA TopConsistent ==
    ASSUME NEW f \in Seq(Compilers), Len(f) > 0, NEW b \in Seq(Constructs), NEW t, NEW p,
           Consistent(f, b, t, p), NEW o, LastOpen(f, b, t, p, o),
           NEW g, NEW e, NEW bb, OnlyLast(f, g, e, b, bb, o),
           Becomes(f[Len(f)], Upper(b, o), e, Upper(bb, o)),
           NEW q, EndsNow(p, q, Len(f), Len(bb))
    PROVE  Consistent(g, bb, t, q)
<1>1. Standing(f, b, t, p)
  BY StandingIs
<1>2. Here(e, Upper(bb, o)) /\ Leads(f[Len(f)], Upper(b, o), e, Upper(bb, o)) /\ e.upvalues = f[Len(f)].upvalues
  BY DEF Becomes, Reuses
<1>3. Sits(e, Upper(bb, o)) /\ ~Inner(e)
  BY <1>2 DEF Here, Sits
<1>4. Compiled(t, e, Upper(bb, o))
  <2>1. Compiled(t, f[Len(f)], Upper(b, o))
    BY DEF LastOpen
  <2> QED
    BY <1>2, <2>1, LeadsCompiled
<1>5. Standing(g, bb, t, q)
  BY <1>1, <1>2, <1>3, <1>4, TopStanding
<1>6. g[Len(g)] = e
  BY DEF OnlyLast
<1> QED
  BY <1>3, <1>5, <1>6, StandingIs

\* bb declares no more than b, but for h in the block at x, which stands for the variable n + 1.
DeclaresMore(b, bb, x, h, n, m) ==
    /\ n \in Nat /\ m \in {n, n + 1}
    /\ \A d \in 1 .. Len(bb) : \A i \in DOMAIN bb[d].decls :
           \/ d \in 1 .. Len(b) /\ i \in DOMAIN b[d].decls /\ bb[d].decls[i] = b[d].decls[i]
           \/ d = x /\ i = h /\ bb[d].decls[i] = n + 1 /\ m = n + 1

LEMMA DeclaresOnceMore ==
    ASSUME NEW b, NEW bb, NEW x, NEW h, NEW n, NEW m, DeclaresMore(b, bb, x, h, n, m), DeclaredOnce(b, n)
    PROVE  DeclaredOnce(bb, m)
<1> DEFINE Old(d, i) == d \in 1 .. Len(b) /\ i \in DOMAIN b[d].decls /\ bb[d].decls[i] = b[d].decls[i]
           New(d, i) == d = x /\ i = h /\ bb[d].decls[i] = n + 1 /\ m = n + 1
<1>1. /\ n \in Nat /\ m \in {n, n + 1}
      /\ \A d \in 1 .. Len(bb) : \A i \in DOMAIN bb[d].decls : Old(d, i) \/ New(d, i)
  BY DEF DeclaresMore
<1>2. ASSUME NEW d \in 1 .. Len(bb), NEW i \in DOMAIN bb[d].decls
      PROVE  /\ Old(d, i) => bb[d].decls[i] \in 1 .. n
             /\ bb[d].decls[i] \in 1 .. m
  <2>1. Old(d, i) => bb[d].decls[i] \in 1 .. n
    BY DEF DeclaredOnce
  <2>2. New(d, i) => bb[d].decls[i] \in 1 .. m
    BY <1>1
  <2>3. \A y \in 1 .. n : y \in 1 .. m
    BY <1>1
  <2> QED
    BY <1>1, <2>1, <2>2, <2>3
<1>3. ASSUME NEW d \in 1 .. Len(bb), NEW e \in 1 .. Len(bb),
             NEW j \in DOMAIN bb[d].decls, NEW i \in DOMAIN bb[e].decls,
             bb[d].decls[j] = bb[e].decls[i]
      PROVE  d = e /\ j = i
  <2>1. CASE Old(d, j) /\ Old(e, i)
    <3>1. /\ d \in 1 .. Len(b) /\ e \in 1 .. Len(b) /\ j \in DOMAIN b[d].decls /\ i \in DOMAIN b[e].decls
          /\ b[d].decls[j] = b[e].decls[i]
      BY <2>1, <1>3
    <3>2. \A y, z \in 1 .. Len(b) : \A u \in DOMAIN b[y].decls, v \in DOMAIN b[z].decls :
              b[y].decls[u] = b[z].decls[v] => y = z /\ u = v
      BY DEF DeclaredOnce
    <3> QED
      BY <3>1, <3>2
  <2>2. CASE New(d, j) /\ New(e, i)
    BY <2>2
  <2>3. \A y \in 1 .. n : y # n + 1
    BY <1>1
  <2>4. ~(Old(d, j) /\ New(e, i)) /\ ~(New(d, j) /\ Old(e, i))
    BY <2>3, <1>2, <1>3
  <2> QED
    BY <2>1, <2>2, <2>4, <1>1
<1> QED
  BY <1>2, <1>3 DEF DeclaredOnce

LEMMA TopDenote ==
    ASSUME NEW f \in Seq(Compilers), Len(f) > 0, NEW g, Len(g) = Len(f),
           \A k \in 1 .. Len(f) : k # Len(f) => g[k] = f[k],
           Reuses(f[Len(f)], g[Len(f)]), NEW D, UpvaluesDenote(f, D)
    PROVE  UpvaluesDenote(g, D)
<1>1. PICK n \in Nat : n = Len(f) /\ n > 0
  BY LenProperties
<1>2. /\ D \in Seq(Seq(Nat)) /\ Len(D) = n
      /\ \A k \in 1 .. n :
            /\ Len(D[k]) = Len(f[k].upvalues)
            /\ \A j \in 1 .. Len(f[k].upvalues) : UpvalueDenotes(f, D, k, j)
            /\ \A q \in 1 .. Len(f[k].code) : UpvalueRead(f, D, k, f[k].code[q])
  BY <1>1 DEF UpvaluesDenote
<1>3. /\ \A k \in 1 .. n : k # n => g[k] = f[k]
      /\ g[n].upvalues = f[n].upvalues
      /\ \A q \in 1 .. Len(g[n].code) : g[n].code[q].op = "upvalue" =>
            \E r \in 1 .. Len(f[n].code) : f[n].code[r] = g[n].code[q]
  BY <1>1 DEF Reuses
<1>4. \A k \in 1 .. n : g[k].upvalues = f[k].upvalues
  BY <1>3
<1>5. ASSUME NEW k \in 1 .. n, NEW j \in 1 .. Len(g[k].upvalues)
      PROVE  UpvalueDenotes(g, D, k, j)
  <2>1. UpvalueDenotes(f, D, k, j)
    BY <1>2, <1>4
  <2>2. CASE k = 1
    BY <2>1, <2>2, SMTT(30) DEF UpvalueDenotes
  <2>3. CASE k # 1
    <3>1. k - 1 \in 1 .. n /\ k - 1 # n
      BY <2>3, <1>1
    <3>2. g[k - 1] = f[k - 1] /\ g[k].upvalues = f[k].upvalues
      BY <3>1, <1>3, <1>4
    <3>3. PICK u, x, y : u = f[k].upvalues[j] /\ x = f[k - 1] /\ y = D[k - 1]
      OBVIOUS
    <3>4. g[k].upvalues[j] = u /\ g[k - 1] = x
      BY <3>2, <3>3
    <3>5. /\ k > 1
          /\ u.isLocal = TRUE =>
                /\ u.index \in 1 .. Len(x.locals) /\ x.locals[u.index].depth # Uninitialized
                /\ x.locals[u.index].captured = TRUE /\ x.locals[u.index].var = D[k][j]
          /\ u.isLocal = FALSE => u.index \in 1 .. Len(x.upvalues) /\ y[u.index] = D[k][j]
      BY <2>1, <3>3, Zenon DEF UpvalueDenotes
    <3> QED
      BY <3>3, <3>4, <3>5, ZenonT(60) DEF UpvalueDenotes
  <2> QED
    BY <2>2, <2>3
<1>6. ASSUME NEW k \in 1 .. n, NEW q \in 1 .. Len(g[k].code)
      PROVE  UpvalueRead(g, D, k, g[k].code[q])
  <2>1. CASE g[k].code[q].op = "upvalue"
    <3>1. PICK r \in 1 .. Len(f[k].code) : f[k].code[r] = g[k].code[q]
      BY <2>1, <1>3
    <3>2. UpvalueRead(f, D, k, g[k].code[q])
      BY <3>1, <1>2
    <3> QED
      BY <3>2, <1>4 DEF UpvalueRead
  <2>2. CASE g[k].code[q].op # "upvalue"
    BY <2>2 DEF UpvalueRead
  <2> QED
    BY <2>1, <2>2
<1> QED
  BY <1>1, <1>2, <1>4, <1>5, <1>6 DEF UpvaluesDenote

\* The functions and blocks as they are, with the last function c and its blocks bs, those after o.
NowOpens(f, b, n, t, p, o, c, bs) ==
    /\ f \in Seq(Compilers) /\ Len(f) > 0 /\ b \in Seq(Constructs)
    /\ Consistent(f, b, t, p) /\ LastOpen(f, b, t, p, o)
    /\ c = f[Len(f)] /\ bs = Upper(b, o)
    /\ DeclaredOnce(b, n) /\ \E D : UpvaluesDenote(f, D)

LEMMA NowOpensIs ==
    ASSUME NEW f, NEW b, NEW n, NEW t, CompileOk(f, b, n, t)
    PROVE  \E p, o, c, bs : NowOpens(f, b, n, t, p, o, c, bs)
<1>1. f \in Seq(Compilers) /\ Len(f) > 0 /\ b \in Seq(Constructs) /\ DeclaredOnce(b, n)
      /\ \E D : UpvaluesDenote(f, D)
  BY DEF CompileOk
<1>2. PICK p : Consistent(f, b, t, p)
  BY DEF CompileOk
<1>3. PICK o : LastOpen(f, b, t, p, o)
  <2>1. Standing(f, b, t, p)
    BY <1>2, StandingIs
  <2> QED
    BY <1>1, <2>1, LastOpenIs
<1>4. NowOpens(f, b, n, t, p, o, f[Len(f)], Upper(b, o))
  BY <1>1, <1>2, <1>3 DEF NowOpens
<1> QED
  BY <1>4

LEMMA NowOpensGives ==
    ASSUME NEW f, NEW b, NEW n, NEW t, NEW p, NEW o, NEW c, NEW bs, NowOpens(f, b, n, t, p, o, c, bs)
    PROVE  /\ Here(c, bs) /\ Sound(c, bs) /\ bs = Upper(b, o) /\ c = f[Len(f)]
           /\ f \in Seq(Compilers) /\ Len(f) > 0 /\ b \in Seq(Constructs)
           /\ o \in Nat /\ o < Len(b) /\ b[o + 1].kind = "fn"
           /\ \A d \in 1 .. Len(b) : d > o + 1 => b[d].kind # "fn"
           /\ DeclaredOnce(b, n)
           /\ Len(b) \in Nat /\ Len(bs) = Len(b) - o /\ Len(bs) \in Nat /\ Len(bs) > 0
           /\ b[Len(b)] = bs[Len(bs)]
<1>1. /\ Here(c, bs) /\ Compiled(t, c, bs) /\ bs = Upper(b, o) /\ c = f[Len(f)]
      /\ f \in Seq(Compilers) /\ Len(f) > 0 /\ b \in Seq(Constructs)
      /\ o \in Nat /\ o < Len(b) /\ b[o + 1].kind = "fn"
      /\ \A d \in 1 .. Len(b) : d > o + 1 => b[d].kind # "fn"
      /\ DeclaredOnce(b, n)
  <2>1. Sits(c, bs) /\ ~Inner(c)
    BY DEF NowOpens, LastOpen, Consistent, Nested
  <2>2. Here(c, bs)
    BY <2>1 DEF Sits, Here
  <2> QED
    BY <2>2 DEF NowOpens, LastOpen
<1>2. Sound(c, bs)
  BY <1>1 DEF Compiled, Sound, Ready
<1>3. /\ Len(b) \in Nat /\ Len(bs) = Len(b) - o /\ Len(bs) \in Nat /\ Len(bs) > 0
      /\ o + Len(bs) = Len(b) /\ \A d \in 1 .. Len(bs) : bs[d] = b[o + d]
  BY <1>1, UpperIs
<1>4. Len(bs) \in 1 .. Len(bs)
  BY <1>3
<1> QED
  BY <1>1, <1>2, <1>3, <1>4

\* What a step makes of the last function.
LEMMA TopOk ==
    ASSUME NEW f, NEW b, NEW n, NEW t, NEW p, NEW o, NEW c, NEW bs, NowOpens(f, b, n, t, p, o, c, bs),
           NEW g, NEW e, NEW bb, OnlyLast(f, g, e, b, bb, o), Becomes(c, bs, e, Upper(bb, o)),
           NEW m, DeclaredOnce(bb, m)
    PROVE  CompileOk(g, bb, m, t)
<1>1. /\ f \in Seq(Compilers) /\ Len(f) > 0 /\ b \in Seq(Constructs)
      /\ Consistent(f, b, t, p) /\ LastOpen(f, b, t, p, o)
      /\ c = f[Len(f)] /\ bs = Upper(b, o)
  BY DEF NowOpens
<1>2. PICK D : UpvaluesDenote(f, D)
  BY DEF NowOpens
<1>3. PICK q : q = [p EXCEPT ![Len(f) + 1] = Len(bb) + 1]
  OBVIOUS
<1>4. EndsNow(p, q, Len(f), Len(bb))
  <2>1. PICK k \in Nat, l \in Nat : k = Len(f) /\ l = Len(bb)
    BY <1>1, LenProperties DEF OnlyLast
  <2>2. p \in [1 .. k + 1 -> Nat]
    BY <1>1, <2>1, BeginsIs DEF Consistent, Begins
  <2>3. k + 1 \in 1 .. k + 1 /\ l + 1 \in Nat /\ \A i \in 1 .. k : i \in 1 .. k + 1 /\ i # k + 1
    BY <2>1
  <2>4. q \in [1 .. k + 1 -> Nat] /\ q[k + 1] = l + 1 /\ \A i \in 1 .. k : q[i] = p[i]
    BY <1>3, <2>1, <2>2, <2>3
  <2> QED
    BY <2>1, <2>4 DEF EndsNow
<1>5. Consistent(g, bb, t, q)
  BY <1>1, <1>4, TopConsistent
<1>6. g \in Seq(Compilers) /\ Len(g) = Len(f) /\ g[Len(f)] = e /\ bb \in Seq(Constructs)
      /\ \A k \in 1 .. Len(f) : k # Len(f) => g[k] = f[k]
  BY DEF OnlyLast
<1>7. UpvaluesDenote(g, D)
  <2>1. Reuses(f[Len(f)], g[Len(f)])
    BY <1>1, <1>6 DEF Becomes
  <2> QED
    BY <2>1, <1>1, <1>2, <1>6, TopDenote
<1> QED
  BY <1>1, <1>5, <1>6, <1>7 DEF CompileOk

-----------------------------------------------------------------------------
(* What happens to the blocks of the last function                         *)

\* The blocks b after o change, and bb are the blocks then.
Above(b, bb, o) ==
    /\ bb \in Seq(Constructs) /\ o < Len(bb) /\ \A d \in 1 .. o : bb[d] = b[d]
    /\ bb[o + 1].kind = "fn" /\ bb[o + 1].self = b[o + 1].self
    /\ \A d \in 1 .. Len(bb) : d > o + 1 => bb[d].kind # "fn"

\* The blocks b, of which the last function has those after o.
Under(b, o) ==
    /\ b \in Seq(Constructs) /\ o \in Nat /\ o < Len(b) /\ b[o + 1].kind = "fn"
    /\ \A d \in 1 .. Len(b) : d > o + 1 => b[d].kind # "fn"

LEMMA TopStep ==
    ASSUME NEW f, NEW b, NEW n, NEW t, NEW p, NEW o, NEW c, NEW bs, NowOpens(f, b, n, t, p, o, c, bs),
           NEW g, NEW e, g = [f EXCEPT ![Len(f)] = e],
           NEW bb, Above(b, bb, o), Becomes(c, bs, e, Upper(bb, o)),
           NEW m, DeclaredOnce(bb, m)
    PROVE  CompileOk(g, bb, m, t)
<1>1. f \in Seq(Compilers) /\ Len(f) > 0 /\ e \in Compilers
  BY NowOpensGives DEF Becomes, Here
<1>2. PICK k \in Nat : k = Len(f)
  BY <1>1, LenProperties
<1>3. k \in 1 .. k
  BY <1>1, <1>2
<1>4. g \in Seq(Compilers) /\ Len(g) = k /\ g[k] = e /\ \A l \in 1 .. k : l # k => g[l] = f[l]
  BY <1>1, <1>2, <1>3, ExceptSeq
<1>5. OnlyLast(f, g, e, b, bb, o)
  BY <1>2, <1>4 DEF Above, OnlyLast
<1> QED
  BY <1>5, TopOk

LEMMA UnderIs ==
    ASSUME NEW b, NEW o, Under(b, o)
    PROVE  \E l \in Nat : /\ l = Len(b) - o /\ l > 0 /\ Len(b) = o + l /\ Len(Upper(b, o)) = l
                          /\ Upper(b, o) \in Seq(Constructs)
                          /\ \A d \in 1 .. l : Upper(b, o)[d] = b[o + d] /\ o + d \in 1 .. Len(b)
                          /\ \A d \in 1 .. o : d \in 1 .. Len(b) /\ d # Len(b)
<1>1. b \in Seq(Constructs) /\ o \in Nat /\ o < Len(b) /\ Len(b) \in Nat
  BY LenProperties DEF Under
<1>2. PICK n \in Nat : n = Len(b)
  BY <1>1
<1>3. n - o \in Nat /\ n - o > 0 /\ n = o + (n - o) /\ \A d \in 1 .. o : d \in 1 .. n /\ d # n
  BY <1>1, <1>2
<1> QED
  BY <1>1, <1>2, <1>3, UpperIs

LEMMA UpperAt ==
    ASSUME NEW b \in Seq(Constructs), NEW o \in Nat, NEW n \in Nat, n = Len(b), o < n
    PROVE  Len(Upper(b, o)) = n - o /\ \A d \in 1 .. n - o : Upper(b, o)[d] = b[o + d]
<1>1. o < Len(b)
  OBVIOUS
<1>2. Len(Upper(b, o)) = Len(b) - o /\ \A d \in 1 .. Len(b) - o : Upper(b, o)[d] = b[o + d]
  BY <1>1, UpperIs
<1> QED
  BY <1>2

LEMMA FewerAbove ==
    ASSUME NEW b, NEW o, Under(b, o), NEW bb \in Seq(Constructs), Shortens(b, bb), o < Len(bb)
    PROVE  Above(b, bb, o) /\ Shortens(Upper(b, o), Upper(bb, o)) /\ Under(bb, o)
<1>1. PICK n \in Nat, m \in Nat : n = Len(b) /\ m = Len(bb)
  BY LenProperties DEF Under
<1>2. /\ b \in Seq(Constructs) /\ o \in Nat /\ o < n /\ b[o + 1].kind = "fn"
      /\ \A d \in 1 .. n : d > o + 1 => b[d].kind # "fn"
      /\ m = n - 1 /\ o < m /\ \A d \in 1 .. m : bb[d] = b[d]
  BY <1>1 DEF Under, Shortens
<1>3. (\A d \in 1 .. m : d \in 1 .. n) /\ (\A d \in 1 .. o : d \in 1 .. m) /\ o + 1 \in 1 .. m
      /\ m - o = n - o - 1 /\ \A d \in 1 .. m - o : o + d \in 1 .. m /\ d \in 1 .. n - o
  BY <1>2
<1>4. Above(b, bb, o) /\ Under(bb, o)
  BY <1>1, <1>2, <1>3 DEF Above, Under
<1>5. /\ Len(Upper(b, o)) = n - o /\ \A d \in 1 .. n - o : Upper(b, o)[d] = b[o + d]
  BY <1>1, <1>2, UpperAt
<1>6. /\ Len(Upper(bb, o)) = m - o /\ \A d \in 1 .. m - o : Upper(bb, o)[d] = bb[o + d]
  BY <1>1, <1>2, UpperAt
<1> QED
  BY <1>2, <1>3, <1>4, <1>5, <1>6 DEF Shortens

LEMMA MoreAbove ==
    ASSUME NEW b, NEW o, Under(b, o), NEW bb \in Seq(Constructs), NEW x, Extends(b, bb, x), x.kind # "fn"
    PROVE  Above(b, bb, o) /\ Extends(Upper(b, o), Upper(bb, o), x) /\ Under(bb, o)
<1>1. PICK n \in Nat, m \in Nat : n = Len(b) /\ m = Len(bb)
  BY LenProperties DEF Under
<1>2. /\ b \in Seq(Constructs) /\ o \in Nat /\ o < n /\ b[o + 1].kind = "fn"
      /\ \A d \in 1 .. n : d > o + 1 => b[d].kind # "fn"
      /\ m = n + 1 /\ bb[n + 1] = x /\ \A d \in 1 .. n : bb[d] = b[d]
  BY <1>1 DEF Under, Extends
<1>3. /\ \A d \in 1 .. m : d \in 1 .. n \/ d = n + 1
      /\ (\A d \in 1 .. o : d \in 1 .. n) /\ o + 1 \in 1 .. n /\ o < m
      /\ m - o = (n - o) + 1 /\ o + ((n - o) + 1) = n + 1 /\ (n - o) + 1 \in 1 .. m - o
      /\ \A d \in 1 .. n - o : o + d \in 1 .. n /\ d \in 1 .. m - o
  BY <1>2
<1>4. \A d \in 1 .. m : d > o + 1 => bb[d].kind # "fn"
  BY <1>2, <1>3
<1>5. Above(b, bb, o) /\ Under(bb, o)
  BY <1>1, <1>2, <1>3, <1>4 DEF Above, Under
<1>6. /\ Len(Upper(b, o)) = n - o /\ \A d \in 1 .. n - o : Upper(b, o)[d] = b[o + d]
  BY <1>1, <1>2, UpperAt
<1>7. /\ Len(Upper(bb, o)) = m - o /\ \A d \in 1 .. m - o : Upper(bb, o)[d] = bb[o + d]
  BY <1>1, <1>2, <1>3, UpperAt
<1>8. PICK B, C : B = Upper(b, o) /\ C = Upper(bb, o)
  OBVIOUS
<1>9. PICK k \in Nat : k = n - o
  BY <1>2
<1>10. Len(B) = k /\ Len(C) = k + 1 /\ C[k + 1] = x /\ \A d \in 1 .. k : C[d] = B[d]
  <2>1. Len(B) = k /\ Len(C) = k + 1
    BY <1>3, <1>6, <1>7, <1>8, <1>9
  <2>2. C[k + 1] = bb[n + 1]
    BY <1>3, <1>7, <1>8, <1>9
  <2>3. ASSUME NEW d \in 1 .. k PROVE C[d] = B[d]
    <3>1. C[d] = bb[o + d] /\ B[d] = b[o + d] /\ o + d \in 1 .. n
      BY <1>3, <1>6, <1>7, <1>8, <1>9
    <3> QED
      BY <1>2, <3>1
  <2> QED
    BY <1>2, <2>1, <2>2, <2>3
<1>11. Extends(B, C, x)
  BY <1>10 DEF Extends
<1> QED
  BY <1>5, <1>8, <1>11

LEMMA ReplacedAbove ==
    ASSUME NEW b, NEW o, Under(b, o), NEW bb \in Seq(Constructs), NEW t \in 1 .. Len(b), t > o,
           NEW x, Replaces(b, bb, t, x), x.kind = b[t].kind, x.kind = "fn" => x.self = b[t].self
    PROVE  Above(b, bb, o) /\ Replaces(Upper(b, o), Upper(bb, o), t - o, x) /\ Under(bb, o)
<1>1. PICK n \in Nat : n = Len(b) /\ n = Len(bb)
  BY LenProperties DEF Under, Replaces
<1>2. /\ b \in Seq(Constructs) /\ o \in Nat /\ o < n /\ b[o + 1].kind = "fn"
      /\ \A d \in 1 .. n : d > o + 1 => b[d].kind # "fn"
      /\ bb[t] = x /\ (\A d \in 1 .. n : d # t => bb[d] = b[d]) /\ t \in 1 .. n
  BY <1>1 DEF Under, Replaces
<1>3. /\ (\A d \in 1 .. o : d \in 1 .. n /\ d # t) /\ o + 1 \in 1 .. n
      /\ t - o \in 1 .. n - o /\ o + (t - o) = t
      /\ \A d \in 1 .. n - o : o + d \in 1 .. n /\ (d # t - o => o + d # t)
  BY <1>2
<1>4. \A d \in 1 .. n : bb[d].kind = b[d].kind
  BY <1>2
<1>5. bb[o + 1].self = b[o + 1].self
  <2>1. CASE o + 1 = t
    BY <2>1, <1>2
  <2>2. CASE o + 1 # t
    BY <2>2, <1>2, <1>3
  <2> QED
    BY <2>1, <2>2
<1>6. Above(b, bb, o) /\ Under(bb, o)
  BY <1>1, <1>2, <1>3, <1>4, <1>5 DEF Above, Under
<1>7. /\ Len(Upper(b, o)) = n - o /\ \A d \in 1 .. n - o : Upper(b, o)[d] = b[o + d]
  BY <1>1, <1>2, UpperAt
<1>8. /\ Len(Upper(bb, o)) = n - o /\ \A d \in 1 .. n - o : Upper(bb, o)[d] = bb[o + d]
  BY <1>1, <1>2, UpperAt
<1>9. \A d \in 1 .. n - o : d # t - o => Upper(bb, o)[d] = Upper(b, o)[d]
  BY <1>2, <1>3, <1>7, <1>8
<1>10. Upper(bb, o)[t - o] = x
  BY <1>2, <1>3, <1>8
<1> QED
  BY <1>6, <1>7, <1>8, <1>9, <1>10 DEF Replaces

-----------------------------------------------------------------------------
(* Statements of the last function                                         *)

LEMMA SameDeclared ==
    ASSUME NEW b, NEW bb, NEW n \in Nat, NEW m \in {n, n + 1}, DeclaredOnce(b, n),
           \A d \in 1 .. Len(bb) :
               DOMAIN bb[d].decls = {} \/ (d \in 1 .. Len(b) /\ bb[d].decls = b[d].decls)
    PROVE  DeclaredOnce(bb, m)
<1>1. DeclaresMore(b, bb, 0, 0, n, m)
  BY DEF DeclaresMore
<1> QED
  BY <1>1, DeclaresOnceMore

\* The last block of b declares n, too.
DeclaredNow(b, bb, o, n) ==
    /\ bb \in Seq(Constructs) /\ Above(b, bb, o) /\ Under(bb, o) /\ Len(bb) = Len(b)
    /\ Declares(Upper(b, o), Upper(bb, o), n)
    /\ DeclaredOnce(bb, text.length + 1)

LEMMA DeclaredNowIs ==
    ASSUME text.length \in Nat, NEW b, NEW o, Under(b, o), NEW n \in Nat \ {0},
           n \notin DOMAIN b[Len(b)].decls, DeclaredOnce(b, text.length),
           NEW bb, bb = [b EXCEPT ![Len(b)].decls = With(@, n)]
    PROVE  DeclaredNow(b, bb, o, n)
<1>1. PICK l \in Nat : l = Len(b)
  BY LenProperties DEF Under
<1>2. b \in Seq(Constructs) /\ o \in Nat /\ o < l /\ l \in 1 .. l /\ l > o
  BY <1>1 DEF Under
<1>3. PICK x : x = [b[l] EXCEPT !.decls = With(@, n)]
  OBVIOUS
<1>4. b[l] \in Constructs /\ b[l].decls \in Decls
  BY <1>1, <1>2, ElementOfSeq, ConstructIs
<1>5. /\ With(b[l].decls, n) \in Decls
      /\ DOMAIN With(b[l].decls, n) = DOMAIN b[l].decls \union {n}
      /\ \A m \in DOMAIN b[l].decls : m # n => With(b[l].decls, n)[m] = b[l].decls[m]
      /\ With(b[l].decls, n)[n] = Var
  BY <1>4, WithIs
<1>6. x = [b[l] EXCEPT !.decls = With(b[l].decls, n)]
  BY <1>3
<1>7. x \in Constructs /\ x.kind = b[l].kind /\ x.decls = With(b[l].decls, n)
      /\ (b[l].kind = "fn" => x.self = b[l].self)
  BY <1>4, <1>5, <1>6, DeclIs
<1>8. bb = [b EXCEPT ![l] = x]
  BY <1>1, <1>3
<1>9. bb \in Seq(Constructs) /\ Len(bb) = l /\ bb[l] = x /\ \A d \in 1 .. l : d # l => bb[d] = b[d]
  BY <1>1, <1>2, <1>7, <1>8, ExceptSeq
<1>10. Replaces(b, bb, l, x)
  BY <1>1, <1>9 DEF Replaces
<1>11. Above(b, bb, o) /\ Replaces(Upper(b, o), Upper(bb, o), l - o, x) /\ Under(bb, o)
  BY <1>1, <1>2, <1>7, <1>9, <1>10, ReplacedAbove
<1>12. Declares(Upper(b, o), Upper(bb, o), n)
  <2>1. l - o \in 1 .. l - o /\ o + (l - o) = l
    BY <1>2
  <2>2. Len(Upper(b, o)) = l - o /\ Upper(b, o)[l - o] = b[l]
    BY <2>1, <1>1, <1>2, UpperAt
  <2> QED
    BY <2>2, <1>3, <1>11 DEF Replaces, Declares
<1>13. DeclaredOnce(bb, text.length + 1)
  <2>1. \A d \in 1 .. Len(bb) : d # l =>
            DOMAIN bb[d].decls = {} \/ (d \in 1 .. Len(b) /\ bb[d].decls = b[d].decls)
    BY <1>1, <1>9
  <2>2. ASSUME NEW i \in DOMAIN bb[l].decls
        PROVE  \/ l \in 1 .. Len(b) /\ i \in DOMAIN b[l].decls /\ bb[l].decls[i] = b[l].decls[i]
               \/ i = n /\ bb[l].decls[i] = text.length + 1
    <3>1. bb[l].decls = With(b[l].decls, n)
      BY <1>7, <1>9
    <3>2. i = n \/ (i # n /\ i \in DOMAIN b[l].decls)
      BY <3>1, <2>2, <1>5
    <3> QED
      BY <3>1, <3>2, <1>1, <1>2, <1>5 DEF Var
  <2>3. DeclaresMore(b, bb, l, n, text.length, text.length + 1)
    BY <2>1, <2>2 DEF DeclaresMore
  <2> QED
    BY <2>3, DeclaresOnceMore
<1> QED
  BY <1>1, <1>9, <1>11, <1>12, <1>13 DEF DeclaredNow

\* The last construct of b ends.
FewerNow(b, bb, o, n) ==
    /\ bb \in Seq(Constructs) /\ Above(b, bb, o) /\ Under(bb, o) /\ Len(bb) = Len(b) - 1
    /\ Shortens(Upper(b, o), Upper(bb, o)) /\ Shortens(b, bb)
    /\ DeclaredOnce(bb, n)

LEMMA FewerNowIs ==
    ASSUME NEW b, NEW o, Under(b, o), b[Len(b)].kind # "fn", NEW n \in Nat, DeclaredOnce(b, n),
           NEW bb, bb = Front(b)
    PROVE  FewerNow(b, bb, o, n)
<1>1. PICK l \in Nat : l = Len(b)
  BY LenProperties DEF Under
<1>2. b \in Seq(Constructs) /\ o \in Nat /\ o < l /\ b[o + 1].kind = "fn"
  BY <1>1 DEF Under
<1>3. o + 1 # l
  BY <1>1, <1>2
<1>4. l # 0 /\ o < l - 1 /\ l - 1 \in Nat
  BY <1>2, <1>3
<1>5. bb \in Seq(Constructs) /\ Len(bb) = l - 1 /\ \A d \in 1 .. l - 1 : bb[d] = b[d]
  BY <1>1, <1>2, <1>4, FrontIs
<1>6. Shortens(b, bb) /\ o < Len(bb)
  BY <1>1, <1>4, <1>5 DEF Shortens
<1>7. Above(b, bb, o) /\ Shortens(Upper(b, o), Upper(bb, o)) /\ Under(bb, o)
  BY <1>5, <1>6, FewerAbove
<1>8. \A d \in 1 .. l - 1 : d \in 1 .. l
  BY <1>1
<1>9. DeclaredOnce(bb, n)
  BY <1>1, <1>5, <1>8, SameDeclared
<1> QED
  BY <1>1, <1>5, <1>6, <1>7, <1>9 DEF FewerNow

\* The construct x is opened, which may declare h.
OpensNow(b, bb, o, x, h) ==
    /\ Under(b, o) /\ x \in Constructs /\ x.kind # "fn" /\ bb = Append(b, x)
    /\ \A i \in DOMAIN x.decls : i = h /\ x.decls[i] = text.length + 1

MoreNow(b, bb, o, x) ==
    /\ bb \in Seq(Constructs) /\ Above(b, bb, o) /\ Under(bb, o) /\ Len(bb) = Len(b) + 1
    /\ Extends(Upper(b, o), Upper(bb, o), x) /\ Extends(b, bb, x)

LEMMA MoreNowIs ==
    ASSUME NEW b, NEW o, NEW bb, NEW x, NEW h, OpensNow(b, bb, o, x, h)
    PROVE  /\ MoreNow(b, bb, o, x)
           /\ text.length \in Nat /\ DeclaredOnce(b, text.length) => DeclaredOnce(bb, text.length + 1)
<1>1. PICK l \in Nat : l = Len(b)
  BY LenProperties DEF Under, OpensNow
<1>2. /\ b \in Seq(Constructs) /\ x \in Constructs /\ x.kind # "fn" /\ bb = Append(b, x) /\ Under(b, o)
      /\ \A i \in DOMAIN x.decls : i = h /\ x.decls[i] = text.length + 1
  BY DEF Under, OpensNow
<1>3. bb \in Seq(Constructs) /\ Len(bb) = l + 1 /\ bb[l + 1] = x /\ \A d \in 1 .. l : bb[d] = b[d]
  BY <1>1, <1>2, AppendProperties
<1>4. Extends(b, bb, x)
  BY <1>1, <1>3 DEF Extends
<1>5. Above(b, bb, o) /\ Extends(Upper(b, o), Upper(bb, o), x) /\ Under(bb, o)
  BY <1>2, <1>3, <1>4, MoreAbove
<1>6. MoreNow(b, bb, o, x)
  BY <1>1, <1>3, <1>4, <1>5 DEF MoreNow
<1>7. ASSUME text.length \in Nat, DeclaredOnce(b, text.length)
      PROVE  DeclaredOnce(bb, text.length + 1)
  <2>1. \A d \in 1 .. l + 1 : d # l + 1 => d \in 1 .. l
    BY <1>1
  <2>2. \A d \in 1 .. Len(bb) : d # l + 1 =>
            DOMAIN bb[d].decls = {} \/ (d \in 1 .. Len(b) /\ bb[d].decls = b[d].decls)
    BY <1>1, <1>3, <2>1
  <2>3. \A i \in DOMAIN bb[l + 1].decls :
            \/ l + 1 \in 1 .. Len(b) /\ i \in DOMAIN b[l + 1].decls /\ bb[l + 1].decls[i] = b[l + 1].decls[i]
            \/ i = h /\ bb[l + 1].decls[i] = text.length + 1
    BY <1>2, <1>3
  <2>4. DeclaresMore(b, bb, l + 1, h, text.length, text.length + 1)
    BY <2>2, <2>3, <1>7 DEF DeclaresMore
  <2> QED
    BY <2>4, <1>7, DeclaresOnceMore
<1> QED
  BY <1>6, <1>7

-----------------------------------------------------------------------------
(* The statements, one by one                                              *)

LEMMA ReadsIs ==
    ASSUME ScopesInv, NEW n \in Nat, Reads(n)
    PROVE  /\ status = "compile" /\ late \in BOOLEAN /\ text.length \in Nat
           /\ text'.length = text.length + 1 /\ text'.names \in Nat
<1>1. status = "compile" /\ text.length \in Nat /\ text.names \in Nat /\ late \in BOOLEAN
  BY DEF Reads, ScopesInv
<1>2. text' = [length |-> text.length + 1, names |-> Max({text.names, n})]
  BY DEF Reads
<1>3. PICK x \in {text.names, n} : \A y \in {text.names, n} : x >= y
  <2>1. n >= text.names \/ text.names >= n
    BY <1>1
  <2> QED
    BY <2>1, <1>1
<1>4. Max({text.names, n}) \in {text.names, n}
  BY <1>3 DEF Max
<1> QED
  BY <1>1, <1>2, <1>4

\* What is open now: c is the last function, and bs are its blocks, those after o.
StandsIn(p, o, c, bs) ==
    /\ NowOpens(fns, blocks, text.length, late, p, o, c, bs)
    /\ Here(c, bs) /\ Sound(c, bs) /\ bs = Upper(blocks, o) /\ c = Current
    /\ Under(blocks, o) /\ DeclaredOnce(blocks, text.length)
    /\ Len(fns) \in Nat /\ Len(fns) > 0 /\ fns \in Seq(Compilers)
    /\ Len(bs) \in Nat /\ Len(bs) > 0 /\ Len(bs) = Len(blocks) - o
    /\ Last(blocks) = bs[Len(bs)] /\ Last(blocks) = blocks[Len(blocks)]
    /\ o + 1 \in 1 .. Len(blocks)

LEMMA StandsInIs ==
    ASSUME ScopesInv, status = "compile"
    PROVE  \E p, o, c, bs : StandsIn(p, o, c, bs)
<1>1. CompileOk(fns, blocks, text.length, late)
  BY DEF ScopesInv, CompileInv
<1>2. PICK p, o, c, bs : NowOpens(fns, blocks, text.length, late, p, o, c, bs)
  BY <1>1, NowOpensIs
<1>3. /\ Here(c, bs) /\ Sound(c, bs) /\ bs = Upper(blocks, o) /\ c = fns[Len(fns)]
      /\ fns \in Seq(Compilers) /\ Len(fns) > 0 /\ blocks \in Seq(Constructs)
      /\ o \in Nat /\ o < Len(blocks) /\ blocks[o + 1].kind = "fn"
      /\ \A d \in 1 .. Len(blocks) : d > o + 1 => blocks[d].kind # "fn"
      /\ DeclaredOnce(blocks, text.length)
      /\ Len(blocks) \in Nat /\ Len(bs) = Len(blocks) - o /\ Len(bs) \in Nat /\ Len(bs) > 0
      /\ blocks[Len(blocks)] = bs[Len(bs)]
  BY <1>2, NowOpensGives
<1>4. Current = fns[Len(fns)] /\ Last(blocks) = blocks[Len(blocks)]
  BY DEF Current, Last
<1>5. o + 1 \in 1 .. Len(blocks)
  BY <1>3
<1>6. Under(blocks, o)
  BY <1>3 DEF Under
<1>7. Len(fns) \in Nat
  BY <1>3, LenProperties
<1>8. StandsIn(p, o, c, bs)
  BY <1>2, <1>3, <1>4, <1>5, <1>6, <1>7 DEF StandsIn
<1> QED
  BY <1>8

\* The last function becomes e, and the blocks change above it.
LEMMA CompiledOk ==
    ASSUME NEW p, NEW o, NEW c, NEW bs, StandsIn(p, o, c, bs),
           NEW g, NEW e, g = [fns EXCEPT ![Len(fns)] = e],
           NEW bb, Above(blocks, bb, o), Becomes(c, bs, e, Upper(bb, o)),
           NEW m, DeclaredOnce(bb, m)
    PROVE  CompileOk(g, bb, m, late)
BY TopStep DEF StandsIn

LEMMA CompileStep ==
    ASSUME text'.length \in Nat, text'.names \in Nat, status' = "compile", late' \in BOOLEAN,
           CompileOk(fns', blocks', text'.length, late')
    PROVE  ScopesInv'
BY DEF ScopesInv, CompileInv

LEMMA LetStep ==
    ASSUME ScopesInv, NEW n \in Nat \ {0}, Let(n)
    PROVE  ScopesInv'
<1>1. /\ status = "compile" /\ late \in BOOLEAN /\ text.length \in Nat
      /\ text'.length = text.length + 1 /\ text'.names \in Nat
  BY ReadsIs DEF Let, ReadsStatement
<1>2. PICK p, o, c, bs : StandsIn(p, o, c, bs)
  BY <1>1, StandsInIs
<1>3. PICK g, bb : g = fns' /\ bb = blocks'
  OBVIOUS
<1>4. /\ Here(c, bs) /\ bs = Upper(blocks, o) /\ c = Current /\ Under(blocks, o)
      /\ DeclaredOnce(blocks, text.length)
      /\ n \notin DOMAIN bs[Len(bs)].decls /\ bs[Len(bs)].kind # "match"
      /\ n \notin DOMAIN blocks[Len(blocks)].decls
  BY <1>2 DEF StandsIn, Let, ReadsStatement, Declared
<1>5. PICK e : e = MarkInitialized(Emit(AddLocal(c, n, Var), <<PushOf(Var)>>))
  OBVIOUS
<1>6. g = [fns EXCEPT ![Len(fns)] = e] /\ status' = "compile" /\ late' = late
      /\ bb = [blocks EXCEPT ![Len(blocks)].decls = With(@, n)]
  BY <1>1, <1>3, <1>4, <1>5 DEF Let, Compile, Declare
<1>7. DeclaredNow(blocks, bb, o, n)
  BY <1>1, <1>4, <1>6, DeclaredNowIs
<1>8. Upper(bb, o) \in Seq(Constructs)
  BY <1>7, UnderIs DEF DeclaredNow
<1>9. Becomes(c, bs, e, Upper(bb, o))
  BY <1>1, <1>4, <1>5, <1>7, <1>8, LetBecomes DEF DeclaredNow
<1>10. CompileOk(g, bb, text.length + 1, late)
  BY <1>2, <1>6, <1>7, <1>9, CompiledOk DEF DeclaredNow
<1> QED
  BY <1>1, <1>3, <1>6, <1>10, CompileStep

LEMMA ParamStep ==
    ASSUME ScopesInv, NEW n \in Nat \ {0}, Param(n)
    PROVE  ScopesInv'
<1>1. /\ status = "compile" /\ late \in BOOLEAN /\ text.length \in Nat
      /\ text'.length = text.length + 1 /\ text'.names \in Nat
  BY ReadsIs DEF Param, ReadsStatement
<1>2. PICK p, o, c, bs : StandsIn(p, o, c, bs)
  BY <1>1, StandsInIs
<1>3. PICK g, bb : g = fns' /\ bb = blocks'
  OBVIOUS
<1>4. /\ Here(c, bs) /\ bs = Upper(blocks, o) /\ c = Current /\ Under(blocks, o)
      /\ DeclaredOnce(blocks, text.length)
      /\ n \notin DOMAIN bs[Len(bs)].decls /\ bs[Len(bs)].kind = "fn" /\ c.code = <<>>
      /\ n \notin DOMAIN blocks[Len(blocks)].decls /\ blocks[Len(blocks)].kind = "fn"
  BY <1>2 DEF StandsIn, Param, Declared
<1>5. Len(bs) = 1
  <2>1. PICK l \in Nat, k \in Nat : l = Len(blocks) /\ k = Len(bs) /\ k = l - o /\ k > 0 /\ o \in Nat
    BY <1>2, LenProperties DEF StandsIn, Under
  <2>2. l \in 1 .. l /\ \A d \in 1 .. l : d > o + 1 => blocks[d].kind # "fn"
    BY <1>4, <2>1 DEF Under
  <2>3. ~(l > o + 1)
    BY <1>4, <2>1, <2>2
  <2> QED
    BY <2>1, <2>3
<1>6. PICK e : e = [MarkInitialized(AddLocal(c, n, Var)) EXCEPT !.params = Append(@, Var)]
  OBVIOUS
<1>7. g = [fns EXCEPT ![Len(fns)] = e] /\ status' = "compile" /\ late' = late
      /\ bb = [blocks EXCEPT ![Len(blocks)].decls = With(@, n)]
  BY <1>1, <1>3, <1>4, <1>6 DEF Param, Compile, Declare
<1>8. DeclaredNow(blocks, bb, o, n)
  BY <1>1, <1>4, <1>7, DeclaredNowIs
<1>9. Upper(bb, o) \in Seq(Constructs)
  BY <1>8, UnderIs DEF DeclaredNow
<1>10. bs[1].kind = "fn"
  BY <1>4, <1>5
<1>11. Becomes(c, bs, e, Upper(bb, o))
  BY <1>1, <1>4, <1>5, <1>6, <1>8, <1>9, <1>10, ParamBecomes DEF DeclaredNow
<1>12. CompileOk(g, bb, text.length + 1, late)
  BY <1>2, <1>7, <1>8, <1>11, CompiledOk DEF DeclaredNow
<1> QED
  BY <1>1, <1>3, <1>7, <1>12, CompileStep

LEMMA NoDeclsIs ==
    NoDecls \in Decls /\ DOMAIN NoDecls = {}
<1>1. {} \in SUBSET (Nat \ {0}) /\ NoDecls \in [{} -> Nat]
  BY DEF NoDecls
<1> QED
  BY <1>1 DEF NoDecls, Decls

LEMMA ClosesIs ==
    ASSUME ScopesInv, NEW kind, kind # "fn", Closes(kind)
    PROVE  /\ status = "compile" /\ late \in BOOLEAN /\ text.length \in Nat
           /\ text'.length = text.length /\ text'.names \in Nat /\ status' = "compile" /\ late' = late
           /\ \E p, o, c, bs :
                 /\ StandsIn(p, o, c, bs) /\ Len(bs) > 1 /\ bs[Len(bs)].kind = kind
                 /\ blocks[Len(blocks)].kind = kind
<1>1. /\ status = "compile" /\ late \in BOOLEAN /\ text.length \in Nat
      /\ text'.length = text.length /\ text'.names \in Nat /\ status' = "compile" /\ late' = late
  BY DEF Closes, ScopesInv
<1>2. PICK p, o, c, bs : StandsIn(p, o, c, bs)
  BY <1>1, StandsInIs
<1>3. bs[Len(bs)].kind = kind /\ blocks[Len(blocks)].kind = kind
  BY <1>2 DEF StandsIn, Closes
<1>4. Len(bs) > 1
  <2>1. PICK l \in Nat, k \in Nat : l = Len(blocks) /\ k = Len(bs) /\ k = l - o /\ k > 0 /\ o \in Nat
    BY <1>2, LenProperties DEF StandsIn, Under
  <2>2. blocks[o + 1].kind = "fn"
    BY <1>2 DEF StandsIn, Under
  <2>3. l # o + 1
    BY <1>3, <2>1, <2>2
  <2> QED
    BY <2>1, <2>3
<1> QED
  BY <1>1, <1>2, <1>3, <1>4

LEMMA BeginBlockStep ==
    ASSUME ScopesInv, BeginBlock
    PROVE  ScopesInv'
<1>0. Reads(NoName) /\ NoName \in Nat
  BY DEF BeginBlock, ReadsStatement, NoName
<1>1. /\ status = "compile" /\ late \in BOOLEAN /\ text.length \in Nat
      /\ text'.length = text.length + 1 /\ text'.names \in Nat
  BY <1>0, ReadsIs
<1>2. PICK p, o, c, bs : StandsIn(p, o, c, bs)
  BY <1>1, StandsInIs
<1>3. PICK g, bb : g = fns' /\ bb = blocks'
  OBVIOUS
<1>4. /\ Here(c, bs) /\ bs = Upper(blocks, o) /\ c = Current /\ Under(blocks, o)
      /\ DeclaredOnce(blocks, text.length)
  BY <1>2 DEF StandsIn
<1>5. PICK e, x : e = BeginScope(c) /\ x = [kind |-> "block", decls |-> NoDecls]
  OBVIOUS
<1>6. g = [fns EXCEPT ![Len(fns)] = e] /\ status' = "compile" /\ late' = late /\ bb = Append(blocks, x)
  BY <1>1, <1>3, <1>4, <1>5 DEF BeginBlock, Compile, Open, Block
<1>7. x \in Constructs /\ x.kind = "block" /\ x.decls = NoDecls /\ DOMAIN x.decls = {}
  <2>1. x \in [kind : {"block", "for"}, decls : Decls]
    BY <1>5, NoDeclsIs
  <2>2. x \in Constructs
    BY <2>1 DEF Constructs
  <2> QED
    BY <2>2, <1>5, NoDeclsIs
<1>8. OpensNow(blocks, bb, o, x, 0)
  BY <1>4, <1>6, <1>7 DEF OpensNow
<1>9. MoreNow(blocks, bb, o, x) /\ DeclaredOnce(bb, text.length + 1)
  BY <1>1, <1>4, <1>8, MoreNowIs
<1>10. Upper(bb, o) \in Seq(Constructs)
  BY <1>9, UnderIs DEF MoreNow
<1>11. Becomes(c, bs, e, Upper(bb, o))
  BY <1>4, <1>5, <1>7, <1>9, <1>10, BeginBlockBecomes DEF MoreNow
<1>12. CompileOk(g, bb, text.length + 1, late)
  BY <1>2, <1>6, <1>9, <1>11, CompiledOk DEF MoreNow
<1> QED
  BY <1>1, <1>3, <1>6, <1>12, CompileStep

LEMMA EndBlockStep ==
    ASSUME ScopesInv, EndBlock
    PROVE  ScopesInv'
<1>0. Closes("block") /\ "block" # "fn"
  BY DEF EndBlock
<1>1. /\ status = "compile" /\ late \in BOOLEAN /\ text.length \in Nat
      /\ text'.length = text.length /\ text'.names \in Nat /\ status' = "compile" /\ late' = late
      /\ \E p, o, c, bs :
            /\ StandsIn(p, o, c, bs) /\ Len(bs) > 1 /\ bs[Len(bs)].kind = "block"
            /\ blocks[Len(blocks)].kind = "block"
  BY <1>0, ClosesIs
<1>2. PICK p, o, c, bs :
          /\ StandsIn(p, o, c, bs) /\ Len(bs) > 1 /\ bs[Len(bs)].kind = "block"
          /\ blocks[Len(blocks)].kind = "block"
  BY <1>1
<1>3. PICK g, bb, e : g = fns' /\ bb = blocks' /\ e = EndScope(c)
  OBVIOUS
<1>4. Here(c, bs) /\ bs = Upper(blocks, o) /\ c = Current
      /\ Under(blocks, o) /\ DeclaredOnce(blocks, text.length)
  BY <1>2 DEF StandsIn
<1>5. g = [fns EXCEPT ![Len(fns)] = e] /\ bb = Front(blocks)
  BY <1>3, <1>4 DEF EndBlock, Compile
<1>6. FewerNow(blocks, bb, o, text.length)
  BY <1>1, <1>2, <1>4, <1>5, FewerNowIs
<1>7. Upper(bb, o) \in Seq(Constructs)
  BY <1>6, UnderIs DEF FewerNow
<1>8. Becomes(c, bs, e, Upper(bb, o))
  BY <1>2, <1>3, <1>4, <1>6, <1>7, EndBlockBecomes DEF FewerNow
<1>9. CompileOk(g, bb, text.length, late)
  BY <1>2, <1>5, <1>6, <1>8, CompiledOk DEF FewerNow
<1> QED
  BY <1>1, <1>3, <1>9, CompileStep

LEMMA BeginWhileStep ==
    ASSUME ScopesInv, BeginWhile
    PROVE  ScopesInv'
<1>0. Reads(NoName) /\ NoName \in Nat
  BY DEF BeginWhile, ReadsStatement, NoName
<1>1. /\ status = "compile" /\ late \in BOOLEAN /\ text.length \in Nat
      /\ text'.length = text.length + 1 /\ text'.names \in Nat
  BY <1>0, ReadsIs
<1>2. PICK p, o, c, bs : StandsIn(p, o, c, bs)
  BY <1>1, StandsInIs
<1>3. PICK g, bb : g = fns' /\ bb = blocks'
  OBVIOUS
<1>4. /\ Here(c, bs) /\ bs = Upper(blocks, o) /\ c = Current /\ Under(blocks, o)
      /\ DeclaredOnce(blocks, text.length)
  BY <1>2 DEF StandsIn
<1>5. PICK e, x : e = BeginBody(c) /\ x = Loop(c, c.scopeDepth, Temp)
  OBVIOUS
<1>6. g = [fns EXCEPT ![Len(fns)] = e] /\ status' = "compile" /\ late' = late /\ bb = Append(blocks, x)
  BY <1>1, <1>3, <1>4, <1>5 DEF BeginWhile, Compile, Open
<1>7. x \in Constructs /\ LoopHere(c, x)
  <2>1. c \in Compilers /\ c.scopeDepth \in Nat /\ End(c) \in Nat /\ Temp \in Nat
    BY <1>4, HereIs, CompilerIs DEF Temp
  <2>2. x = [kind |-> "loop", decls |-> NoDecls, start |-> End(c), breakDepth |-> c.scopeDepth,
             continueDepth |-> c.scopeDepth, breaks |-> {}, own |-> Temp, left |-> FALSE]
    BY <1>5 DEF Loop
  <2>3. x \in [kind : {"loop"}, decls : Decls, start : Nat, breakDepth : Nat, continueDepth : Nat,
               breaks : SUBSET Nat, own : Nat, left : BOOLEAN]
    BY <2>1, <2>2, NoDeclsIs
  <2>4. x \in Constructs
    BY <2>3 DEF Constructs
  <2> QED
    BY <2>2, <2>4, NoDeclsIs DEF LoopHere
<1>8. OpensNow(blocks, bb, o, x, 0)
  BY <1>4, <1>6, <1>7 DEF OpensNow, LoopHere
<1>9. MoreNow(blocks, bb, o, x) /\ DeclaredOnce(bb, text.length + 1)
  BY <1>1, <1>4, <1>8, MoreNowIs
<1>10. Upper(bb, o) \in Seq(Constructs)
  BY <1>9, UnderIs DEF MoreNow
<1>11. Becomes(c, bs, e, Upper(bb, o))
  BY <1>4, <1>5, <1>7, <1>9, <1>10, BodyBecomes DEF MoreNow
<1>12. CompileOk(g, bb, text.length + 1, late)
  BY <1>2, <1>6, <1>9, <1>11, CompiledOk DEF MoreNow
<1> QED
  BY <1>1, <1>3, <1>6, <1>12, CompileStep

LEMMA BecomesOn ==
    ASSUME NEW c, NEW bs, NEW d, NEW ba, Becomes(c, bs, d, ba), NEW e, NEW bb, Becomes(d, ba, e, bb)
    PROVE  Becomes(c, bs, e, bb)
BY LeadsOn, ReusesOn DEF Becomes

\* The blocks of a for: x is its own, with the variable v, and y that of its body.
ForOpens(c, d, n, v, x, y) ==
    /\ x \in Constructs /\ y \in Constructs /\ x.kind = "for" /\ y.kind = "loop"
    /\ DOMAIN x.decls = {n} /\ x.decls[n] = v /\ v = text.length + 1
    /\ DOMAIN y.decls = {}
    /\ y.start = End(c) /\ y.breakDepth = d /\ y.continueDepth = c.scopeDepth
    /\ y.breaks = {} /\ y.own = v /\ y.left = FALSE

LEMMA ForBlocks ==
    ASSUME text.length \in Nat, NEW c \in Compilers, NEW n \in Nat \ {0}, NEW d \in Nat, NEW v, v = Var
    PROVE  ForOpens(c, d, n, v, [kind |-> "for", decls |-> With(NoDecls, n)], Loop(c, d, v))
<1>0. PICK x, y : x = [kind |-> "for", decls |-> With(NoDecls, n)] /\ y = Loop(c, d, v)
  OBVIOUS
<1>1. c.scopeDepth \in Nat /\ End(c) \in Nat /\ v \in Nat /\ v = text.length + 1
  BY CompilerIs DEF Var
<1>2. /\ With(NoDecls, n) \in Decls /\ DOMAIN With(NoDecls, n) = {n} /\ With(NoDecls, n)[n] = v
  BY NoDeclsIs, WithIs
<1>3. y = [kind |-> "loop", decls |-> NoDecls, start |-> End(c), breakDepth |-> d,
           continueDepth |-> c.scopeDepth, breaks |-> {}, own |-> v, left |-> FALSE]
  BY <1>0 DEF Loop
<1>4. y \in [kind : {"loop"}, decls : Decls, start : Nat, breakDepth : Nat, continueDepth : Nat,
             breaks : SUBSET Nat, own : Nat, left : BOOLEAN]
  BY <1>1, <1>3, NoDeclsIs
<1>5. x \in [kind : {"block", "for"}, decls : Decls]
  BY <1>0, <1>2
<1>6. x \in Constructs /\ y \in Constructs
  BY <1>4, <1>5 DEF Constructs
<1>7. ForOpens(c, d, n, v, x, y)
  BY <1>0, <1>1, <1>2, <1>3, <1>6, NoDeclsIs DEF ForOpens
<1> QED
  BY <1>0, <1>7

LEMMA BeginForStep ==
    ASSUME ScopesInv, NEW n \in Nat \ {0}, BeginFor(n)
    PROVE  ScopesInv'
<1>0. Reads(n)
  BY DEF BeginFor, ReadsStatement
<1>1. /\ status = "compile" /\ late \in BOOLEAN /\ text.length \in Nat
      /\ text'.length = text.length + 1 /\ text'.names \in Nat
  BY <1>0, ReadsIs
<1>2. PICK p, o, c, bs : StandsIn(p, o, c, bs)
  BY <1>1, StandsInIs
<1>3. PICK g, bb : g = fns' /\ bb = blocks'
  OBVIOUS
<1>4. /\ Here(c, bs) /\ bs = Upper(blocks, o) /\ c = Current /\ Under(blocks, o)
      /\ DeclaredOnce(blocks, text.length)
  BY <1>2 DEF StandsIn
<1>5. PICK d, e, x, y : /\ d = Opened(c, n, Var) /\ e = BeginBody(d)
                        /\ x = [kind |-> "for", decls |-> With(NoDecls, n)]
                        /\ y = Loop(d, c.scopeDepth, Var)
  OBVIOUS
<1>6. /\ g = [fns EXCEPT ![Len(fns)] = e] /\ status' = "compile" /\ late' = late
      /\ bb = blocks \o <<x, y>>
  BY <1>1, <1>3, <1>4, <1>5 DEF BeginFor, Compile, Opened
<1>7. Var \in Nat /\ Var # 0 /\ c.scopeDepth \in Nat /\ c.scopeDepth > 0
  BY <1>1, <1>4, HereIs DEF Var
<1>8. d \in Compilers
  <2>2. BeginScope(c) \in Compilers
    BY <1>4, HereIs, BeginScopeIs
  <2>3. DeclaredIn(BeginScope(c), d, n, Var)
    BY <2>2, <1>5, <1>7, DeclareIs DEF Opened
  <2> QED
    BY <2>2, <2>3, <1>7, DeclareMore
<1>9. /\ x \in Constructs /\ y \in Constructs /\ x.kind = "for" /\ y.kind = "loop"
      /\ DOMAIN x.decls = {n} /\ x.decls[n] = Var /\ Var = text.length + 1
      /\ DOMAIN y.decls = {}
      /\ y.start = End(d) /\ y.breakDepth = c.scopeDepth /\ y.continueDepth = d.scopeDepth
      /\ y.breaks = {} /\ y.own = Var /\ y.left = FALSE
  <2>1. ForOpens(d, c.scopeDepth, n, Var, x, y)
    BY <1>1, <1>5, <1>7, <1>8, ForBlocks
  <2> QED
    BY <2>1 DEF ForOpens
<1>10. PICK ba : ba = Append(blocks, x)
  OBVIOUS
<1>11. OpensNow(blocks, ba, o, x, n)
  BY <1>4, <1>9, <1>10 DEF OpensNow
<1>12. MoreNow(blocks, ba, o, x) /\ DeclaredOnce(ba, text.length + 1)
  BY <1>1, <1>4, <1>11, MoreNowIs
<1>13. ba \in Seq(Constructs) /\ Upper(ba, o) \in Seq(Constructs) /\ Under(ba, o) /\ Len(ba) = Len(blocks) + 1
  BY <1>12, UnderIs DEF MoreNow
<1>14. bb = Append(ba, y)
  <2>1. blocks \in Seq(Constructs)
    BY <1>4 DEF Under
  <2> QED
    BY <2>1, <1>6, <1>9, <1>10
<1>15. OpensNow(ba, bb, o, y, n)
  BY <1>9, <1>13, <1>14 DEF OpensNow
<1>16. MoreNow(ba, bb, o, y)
  BY <1>15, MoreNowIs
<1>17. Upper(bb, o) \in Seq(Constructs)
  BY <1>16, UnderIs DEF MoreNow
<1>18. Becomes(c, bs, d, Upper(ba, o)) /\ OpenedIn(c, d, Var)
  <2>1. OpensWith(bs, Upper(ba, o), x, n, Var)
    BY <1>4, <1>9, <1>12 DEF MoreNow, OpensWith
  <2> QED
    BY <2>1, <1>4, <1>5, <1>7, <1>13, OpenedBecomes
<1>19. LoopHere(d, y)
  <2>1. d.scopeDepth = c.scopeDepth + 1 /\ Base(d, c.scopeDepth + 1) = Base(d, c.scopeDepth) + 1
        /\ d.locals[Base(d, c.scopeDepth + 1)].var = Var
    BY <1>18 DEF OpenedIn
  <2>2. d.scopeDepth > 1 /\ d.scopeDepth - 1 = c.scopeDepth
    BY <2>1, <1>7
  <2> QED
    BY <2>1, <2>2, <1>7, <1>9 DEF LoopHere, Temp
<1>20. Becomes(d, Upper(ba, o), e, Upper(bb, o))
  BY <1>5, <1>16, <1>17, <1>18, <1>19, BodyBecomes DEF MoreNow, Becomes
<1>21. Becomes(c, bs, e, Upper(bb, o))
  BY <1>18, <1>20, BecomesOn
<1>22. Above(blocks, bb, o)
  <2>1. Above(blocks, ba, o) /\ Above(ba, bb, o)
    BY <1>12, <1>16 DEF MoreNow
  <2> QED
    BY <2>1 DEF Above
<1>23. DeclaredOnce(bb, text.length + 1)
  <2>1. Extends(ba, bb, y) /\ Len(ba) \in Nat
    BY <1>13, <1>16, LenProperties DEF MoreNow
  <2>2. \A i \in 1 .. Len(bb) : DOMAIN bb[i].decls = {} \/ (i \in 1 .. Len(ba) /\ bb[i].decls = ba[i].decls)
    <3>1. \A i \in 1 .. Len(ba) + 1 : i \in 1 .. Len(ba) \/ i = Len(ba) + 1
      BY <2>1
    <3> QED
      BY <2>1, <3>1, <1>9 DEF Extends
  <2>3. text.length + 1 \in Nat /\ text.length + 1 \in {text.length + 1, (text.length + 1) + 1}
    BY <1>1
  <2> QED
    BY <2>2, <2>3, <1>12, SameDeclared
<1>24. CompileOk(g, bb, text.length + 1, late)
  BY <1>2, <1>6, <1>21, <1>22, <1>23, CompiledOk
<1> QED
  BY <1>1, <1>3, <1>6, <1>24, CompileStep

LEMMA EndLoopStep ==
    ASSUME ScopesInv, EndLoop
    PROVE  ScopesInv'
<1>0. Closes("loop") /\ "loop" # "fn"
  BY DEF EndLoop
<1>1. /\ status = "compile" /\ late \in BOOLEAN /\ text.length \in Nat
      /\ text'.length = text.length /\ text'.names \in Nat /\ status' = "compile" /\ late' = late
      /\ \E p, o, c, bs :
            /\ StandsIn(p, o, c, bs) /\ Len(bs) > 1 /\ bs[Len(bs)].kind = "loop"
            /\ blocks[Len(blocks)].kind = "loop"
  BY <1>0, ClosesIs
<1>2. PICK p, o, c, bs :
          /\ StandsIn(p, o, c, bs) /\ Len(bs) > 1 /\ bs[Len(bs)].kind = "loop"
          /\ blocks[Len(blocks)].kind = "loop"
  BY <1>1
<1>3. PICK g, ba, b : g = fns' /\ ba = Front(blocks) /\ b = bs[Len(bs)]
  OBVIOUS
<1>4. /\ Here(c, bs) /\ Sound(c, bs) /\ bs = Upper(blocks, o) /\ c = Current /\ Under(blocks, o)
      /\ DeclaredOnce(blocks, text.length) /\ Last(blocks) = b
  BY <1>2, <1>3 DEF StandsIn
<1>5. FewerNow(blocks, ba, o, text.length)
  BY <1>1, <1>2, <1>3, <1>4, FewerNowIs
<1>6. /\ Under(ba, o) /\ Upper(ba, o) \in Seq(Constructs) /\ Shortens(bs, Upper(ba, o))
      /\ DeclaredOnce(ba, text.length) /\ Above(blocks, ba, o) /\ Len(Upper(ba, o)) = Len(bs) - 1
  BY <1>4, <1>5, UnderIs DEF FewerNow, Shortens
<1>7. CASE b.own = Temp
  <2>1. PICK e : e = Patch(Ended(c, b), b.breaks, End(Ended(c, b)))
    OBVIOUS
  <2>2. g = [fns EXCEPT ![Len(fns)] = e] /\ blocks' = ba
    BY <1>3, <1>4, <1>7, <2>1 DEF EndLoop, Compile, Ended
  <2>3. Becomes(c, bs, e, Upper(ba, o))
    BY <1>2, <1>3, <1>4, <1>6, <1>7, <2>1, EndWhileBecomes
  <2>4. CompileOk(g, ba, text.length, late)
    BY <1>2, <1>6, <2>2, <2>3, CompiledOk
  <2> QED
    BY <1>1, <1>3, <2>2, <2>4, CompileStep
<1>8. CASE b.own # Temp
  <2>1. PICK e, bb : e = Patch(EndScope(Ended(c, b)), b.breaks, End(EndScope(Ended(c, b)))) /\ bb = Front(ba)
    OBVIOUS
  <2>2. g = [fns EXCEPT ![Len(fns)] = e] /\ blocks' = bb
    BY <1>3, <1>4, <1>8, <2>1 DEF EndLoop, Compile, Ended
  <2>3. ba[Len(ba)].kind # "fn"
    <3>1. PICK L : Ready(c, bs, L)
      BY <1>4 DEF Sound
    <3>2. Len(bs) \in Nat /\ Len(bs) \in 1 .. Len(bs)
      BY <1>2, <1>4, HereIs
    <3>3. LoopDepths(c, Len(bs), b)
      BY <1>2, <1>3, <3>1, <3>2, LoopDepthsIs DEF Ready
    <3>4. Len(bs) > 2
      BY <1>8, <3>3 DEF LoopDepths
    <3>5. PICK k \in Nat : k = Len(ba) - o /\ Len(ba) = o + k /\ Len(Upper(ba, o)) = k
      BY <1>6, UnderIs
    <3>6. k > 1 /\ o \in Nat
      BY <1>6, <3>2, <3>4, <3>5 DEF Under
    <3>7. Len(ba) \in 1 .. Len(ba) /\ Len(ba) > o + 1
      BY <3>5, <3>6
    <3> QED
      BY <3>7, <1>6 DEF Under
  <2>4. FewerNow(ba, bb, o, text.length)
    BY <1>1, <1>6, <2>1, <2>3, FewerNowIs
  <2>5. /\ Upper(bb, o) \in Seq(Constructs) /\ Shortens(Upper(ba, o), Upper(bb, o))
        /\ DeclaredOnce(bb, text.length) /\ Above(ba, bb, o)
    BY <2>4, UnderIs DEF FewerNow
  <2>6. Becomes(c, bs, e, Upper(bb, o))
    BY <1>2, <1>3, <1>4, <1>6, <1>8, <2>1, <2>5, EndForBecomes
  <2>7. Above(blocks, bb, o)
    BY <1>6, <2>5 DEF Above
  <2>8. CompileOk(g, bb, text.length, late)
    BY <1>2, <2>2, <2>5, <2>6, <2>7, CompiledOk
  <2> QED
    BY <1>1, <1>3, <2>2, <2>8, CompileStep
<1> QED
  BY <1>7, <1>8

LEMMA BeginMatchStep ==
    ASSUME ScopesInv, BeginMatch
    PROVE  ScopesInv'
<1>0. Reads(NoName) /\ NoName \in Nat /\ Temp \in Nat
  BY DEF BeginMatch, ReadsStatement, NoName, Temp
<1>1. /\ status = "compile" /\ late \in BOOLEAN /\ text.length \in Nat
      /\ text'.length = text.length + 1 /\ text'.names \in Nat
  BY <1>0, ReadsIs
<1>2. PICK p, o, c, bs : StandsIn(p, o, c, bs)
  BY <1>1, StandsInIs
<1>3. PICK g, bb : g = fns' /\ bb = blocks'
  OBVIOUS
<1>4. /\ Here(c, bs) /\ bs = Upper(blocks, o) /\ c = Current /\ Under(blocks, o)
      /\ DeclaredOnce(blocks, text.length)
  BY <1>2 DEF StandsIn
<1>5. PICK e, x : e = Opened(c, NoName, Temp) /\ x = [kind |-> "match", decls |-> NoDecls, ends |-> {}]
  OBVIOUS
<1>6. g = [fns EXCEPT ![Len(fns)] = e] /\ status' = "compile" /\ late' = late /\ bb = Append(blocks, x)
  BY <1>1, <1>3, <1>4, <1>5 DEF BeginMatch, Compile, Open, Opened
<1>7. x \in Constructs /\ x.kind = "match" /\ DOMAIN x.decls = {} /\ x.ends = {}
  <2>1. x \in [kind : {"match"}, decls : Decls, ends : SUBSET Nat]
    BY <1>5, NoDeclsIs
  <2>2. x \in Constructs
    BY <2>1 DEF Constructs
  <2> QED
    BY <2>2, <1>5, NoDeclsIs
<1>8. OpensNow(blocks, bb, o, x, 0)
  BY <1>4, <1>6, <1>7 DEF OpensNow
<1>9. MoreNow(blocks, bb, o, x) /\ DeclaredOnce(bb, text.length + 1)
  BY <1>1, <1>4, <1>8, MoreNowIs
<1>10. Upper(bb, o) \in Seq(Constructs)
  BY <1>9, UnderIs DEF MoreNow
<1>11. OpensWith(bs, Upper(bb, o), x, NoName, Temp)
  BY <1>4, <1>7, <1>9 DEF MoreNow, OpensWith
<1>12. Becomes(c, bs, e, Upper(bb, o))
  BY <1>0, <1>4, <1>5, <1>10, <1>11, OpenedBecomes
<1>13. CompileOk(g, bb, text.length + 1, late)
  BY <1>2, <1>6, <1>9, <1>12, CompiledOk DEF MoreNow
<1> QED
  BY <1>1, <1>3, <1>6, <1>13, CompileStep

LEMMA EndMatchStep ==
    ASSUME ScopesInv, EndMatch
    PROVE  ScopesInv'
<1>0. Closes("match") /\ "match" # "fn"
  BY DEF EndMatch
<1>1. /\ status = "compile" /\ late \in BOOLEAN /\ text.length \in Nat
      /\ text'.length = text.length /\ text'.names \in Nat /\ status' = "compile" /\ late' = late
      /\ \E p, o, c, bs :
            /\ StandsIn(p, o, c, bs) /\ Len(bs) > 1 /\ bs[Len(bs)].kind = "match"
            /\ blocks[Len(blocks)].kind = "match"
  BY <1>0, ClosesIs
<1>2. PICK p, o, c, bs :
          /\ StandsIn(p, o, c, bs) /\ Len(bs) > 1 /\ bs[Len(bs)].kind = "match"
          /\ blocks[Len(blocks)].kind = "match"
  BY <1>1
<1>3. PICK g, bb, b : g = fns' /\ bb = blocks' /\ b = bs[Len(bs)]
  OBVIOUS
<1>4. /\ Here(c, bs) /\ Sound(c, bs) /\ bs = Upper(blocks, o) /\ c = Current /\ Under(blocks, o)
      /\ DeclaredOnce(blocks, text.length) /\ Last(blocks) = b
  BY <1>2, <1>3 DEF StandsIn
<1>5. PICK e : e = EndScope(Patch(c, b.ends, End(c)))
  OBVIOUS
<1>6. g = [fns EXCEPT ![Len(fns)] = e] /\ bb = Front(blocks)
  BY <1>3, <1>4, <1>5 DEF EndMatch, Compile
<1>7. FewerNow(blocks, bb, o, text.length)
  BY <1>1, <1>2, <1>4, <1>6, FewerNowIs
<1>8. Upper(bb, o) \in Seq(Constructs)
  BY <1>7, UnderIs DEF FewerNow
<1>9. Becomes(c, bs, e, Upper(bb, o))
  BY <1>2, <1>3, <1>4, <1>5, <1>7, <1>8, EndMatchBecomes DEF FewerNow
<1>10. CompileOk(g, bb, text.length, late)
  BY <1>2, <1>6, <1>7, <1>9, CompiledOk DEF FewerNow
<1> QED
  BY <1>1, <1>3, <1>10, CompileStep

LEMMA MarkEmit ==
    ASSUME NEW c \in Compilers, NEW xs
    PROVE  MarkInitialized(Emit(c, xs)) = Emit(MarkInitialized(c), xs)
<1>1. c \in [locals : Seq(Locals), upvalues : Seq(UpvalueRefs), scopeDepth : Nat, params : Seq(Nat),
             code : Seq(Instructions)]
  BY DEF Compilers
<1>2. PICK d, e : d = Emit(c, xs) /\ e = MarkInitialized(c)
  OBVIOUS
<1>3. PICK x : x = [c.locals EXCEPT ![Len(c.locals)] = [@ EXCEPT !.depth = c.scopeDepth]]
  OBVIOUS
<1>4. d = [c EXCEPT !.code = c.code \o xs] /\ e = [c EXCEPT !.locals = x]
  BY <1>1, <1>2, <1>3 DEF Emit, MarkInitialized
<1>5. d.locals = c.locals /\ d.scopeDepth = c.scopeDepth /\ e.code = c.code
  BY <1>1, <1>4
<1>6. MarkInitialized(d) = [d EXCEPT !.locals = x]
  <2>1. d.locals = c.locals /\ d.scopeDepth = c.scopeDepth
    BY <1>5
  <2>2. MarkInitialized(d) =
            [d EXCEPT !.locals = [d.locals EXCEPT ![Len(d.locals)] = [@ EXCEPT !.depth = d.scopeDepth]]]
    BY <1>1, <1>4 DEF MarkInitialized
  <2> QED
    BY <2>1, <2>2, <1>3
<1>7. Emit(e, xs) = [e EXCEPT !.code = c.code \o xs]
  BY <1>1, <1>4, <1>5 DEF Emit
<1>8. [d EXCEPT !.locals = x] = [e EXCEPT !.code = c.code \o xs]
  BY <1>1, <1>4
<1> QED
  BY <1>2, <1>6, <1>7, <1>8

\* A case as the code has it: s is its scope, with the variable v if it is bound, and t the pattern.
CaseParts(c, array, bound, n, v, s, t, d, e) ==
    /\ s = (IF bound THEN Emit(AddLocal(BeginScope(c), n, v), <<PushOf(v)>>) ELSE BeginScope(c))
    /\ t = Emit(s, Test(array, bound))
    /\ d = CaseScope(c, bound, n, v) /\ e = Emit(d, Test(array, bound))

LEMMA CaseIs ==
    ASSUME NEW c \in Compilers, NEW array \in BOOLEAN, NEW bound \in BOOLEAN, NEW n \in Nat, NEW v \in Nat,
           NEW s, NEW t, NEW d, NEW e, CaseParts(c, array, bound, n, v, s, t, d, e)
    PROVE  /\ (IF bound THEN MarkInitialized(t) ELSE t) = e
           /\ {i \in End(s) .. End(t) - 1 : t.code[i].op = "branch"}
              = {i \in End(d) .. End(e) - 1 : e.code[i].op = "branch"}
           /\ End(s) \in Nat
<1>0. /\ s = (IF bound THEN Emit(AddLocal(BeginScope(c), n, v), <<PushOf(v)>>) ELSE BeginScope(c))
      /\ t = Emit(s, Test(array, bound))
      /\ d = CaseScope(c, bound, n, v) /\ e = Emit(d, Test(array, bound))
  BY DEF CaseParts
<1>1. BeginScope(c) \in Compilers
  BY BeginScopeIs
<1>2. CASE ~bound
  <2>1. s = BeginScope(c) /\ d = BeginScope(c)
    BY <1>0, <1>2 DEF CaseScope
  <2> QED
    BY <2>1, <1>0, <1>1, <1>2, CompilerIs
<1>3. CASE bound
  <2>1. s = Emit(AddLocal(BeginScope(c), n, v), <<PushOf(v)>>) /\ d = MarkInitialized(s)
    BY <1>0, <1>3 DEF CaseScope, Opened
  <2>2. AddLocal(BeginScope(c), n, v) \in Compilers /\ Len(AddLocal(BeginScope(c), n, v).locals) > 0
    <3>1. /\ AddLocal(BeginScope(c), n, v) \in Compilers
          /\ Len(AddLocal(BeginScope(c), n, v).locals) = Len(BeginScope(c).locals) + 1
      BY <1>1, AddLocalIs
    <3>2. Len(BeginScope(c).locals) \in Nat
      BY <1>1, CompilerIs
    <3> QED
      BY <3>1, <3>2
  <2>3. <<PushOf(v)>> \in Seq(Instructions)
    <3>1. PushOf(v) \in Pushes
      BY DEF PushOf, Pushes
    <3>2. PushOf(v) \in Instructions
      BY <3>1 DEF Instructions
    <3> QED
      BY <3>2, SingleIs
  <2>4. s \in Compilers /\ Len(s.locals) > 0
    <3>1. PICK u \in Compilers : u = AddLocal(BeginScope(c), n, v) /\ Len(u.locals) > 0
      BY <2>2
    <3>2. Emit(u, <<PushOf(v)>>) \in Compilers /\ Emit(u, <<PushOf(v)>>).locals = u.locals
      BY <2>3, EmitIs
    <3> QED
      BY <2>1, <3>1, <3>2
  <2>5. MarkInitialized(t) = e
    BY <1>0, <2>1, <2>4, MarkEmit
  <2>6. Test(array, bound) \in Seq(Instructions)
    <3>1. PICK U : TestFits(Test(array, bound), U, bound)
      BY TestIs
    <3> QED
      BY <3>1 DEF TestFits
  <2>7. t \in Compilers /\ t.locals = s.locals
    BY <1>0, <2>4, <2>6, EmitIs
  <2>8. d.code = s.code
    BY <2>1, <2>4, MarkIs
  <2>9. e.code = t.code
    <3>1. Len(t.locals) > 0
      BY <2>4, <2>7
    <3> QED
      BY <3>1, <2>5, <2>7, MarkIs
  <2>10. End(d) = End(s) /\ End(e) = End(t)
    BY <2>8, <2>9 DEF End
  <2> QED
    BY <2>4, <2>5, <2>9, <2>10, <1>3, CompilerIs
<1> QED
  BY <1>2, <1>3

LEMMA BeginCaseStep ==
    ASSUME ScopesInv, NEW array \in BOOLEAN, NEW n \in Nat, BeginCase(array, n)
    PROVE  ScopesInv'
<1>0. Reads(n) /\ Last(blocks).kind = "match"
  BY DEF BeginCase
<1>1. /\ status = "compile" /\ late \in BOOLEAN /\ text.length \in Nat
      /\ text'.length = text.length + 1 /\ text'.names \in Nat
  BY <1>0, ReadsIs
<1>2. PICK p, o, c, bs : StandsIn(p, o, c, bs)
  BY <1>1, StandsInIs
<1>3. PICK g, bb, v : g = fns' /\ bb = blocks' /\ v = Var
  OBVIOUS
<1>4. /\ Here(c, bs) /\ bs = Upper(blocks, o) /\ c = Current /\ Under(blocks, o)
      /\ DeclaredOnce(blocks, text.length) /\ bs[Len(bs)].kind = "match"
  BY <1>0, <1>2 DEF StandsIn
<1>5. PICK bound \in BOOLEAN : bound <=> n # NoName
  OBVIOUS
<1>6. PICK s, t, d, e : CaseParts(c, array, bound, n, v, s, t, d, e)
  BY DEF CaseParts
<1>7. PICK x : x = [kind |-> "case", decls |-> IF bound THEN With(NoDecls, n) ELSE NoDecls,
                    fails |-> {i \in End(s) .. End(t) - 1 : t.code[i].op = "branch"}]
  OBVIOUS
<1>8. bound = (n # NoName)
  BY <1>5
<1>9. /\ g = [fns EXCEPT ![Len(fns)] = IF bound THEN MarkInitialized(t) ELSE t]
      /\ status' = "compile" /\ late' = late /\ bb = Append(blocks, x)
  BY <1>1, <1>3, <1>4, <1>6, <1>7, <1>8 DEF BeginCase, Compile, Open, CaseParts
<1>10. c \in Compilers /\ v \in Nat /\ v = text.length + 1
  BY <1>1, <1>3, <1>4, HereIs DEF Var
<1>11. /\ (IF bound THEN MarkInitialized(t) ELSE t) = e
       /\ {i \in End(s) .. End(t) - 1 : t.code[i].op = "branch"}
          = {i \in End(d) .. End(e) - 1 : e.code[i].op = "branch"}
       /\ End(s) \in Nat
  BY <1>6, <1>10, CaseIs
<1>12. x.decls \in Decls /\ DOMAIN x.decls = (IF bound THEN {n} ELSE {})
       /\ (bound => n # NoName /\ x.decls[n] = v)
  <2>1. CASE ~bound
    <3>1. x.decls = NoDecls
      BY <2>1, <1>7
    <3> QED
      BY <3>1, <2>1, NoDeclsIs
  <2>2. CASE bound
    <3>1. x.decls = With(NoDecls, n) /\ n \in Nat \ {0} /\ n # NoName
      BY <2>2, <1>5, <1>7 DEF NoName
    <3>2. With(NoDecls, n) \in Decls /\ DOMAIN With(NoDecls, n) = {n} /\ With(NoDecls, n)[n] = Var
      BY <3>1, <1>1, NoDeclsIs, WithIs
    <3> QED
      BY <3>1, <3>2, <2>2, <1>3
  <2> QED
    BY <2>1, <2>2
<1>13. x.kind = "case" /\ x.fails = {i \in End(d) .. End(e) - 1 : e.code[i].op = "branch"}
  BY <1>7, <1>11
<1>14. x \in Constructs
  <2>1. x.fails \in SUBSET Nat
    <3>1. x.fails = {i \in End(s) .. End(t) - 1 : t.code[i].op = "branch"}
      BY <1>7
    <3>2. \A i \in End(s) .. End(t) - 1 : i \in Nat
      BY <1>11
    <3> QED
      BY <3>1, <3>2
  <2>2. x = [kind |-> x.kind, decls |-> x.decls, fails |-> x.fails]
    BY <1>7
  <2>3. x \in [kind : {"case"}, decls : Decls, fails : SUBSET Nat]
    BY <2>1, <2>2, <1>12, <1>13
  <2> QED
    BY <2>3 DEF Constructs
<1>15. OpensNow(blocks, bb, o, x, n)
  BY <1>4, <1>9, <1>10, <1>12, <1>13, <1>14 DEF OpensNow
<1>16. MoreNow(blocks, bb, o, x) /\ DeclaredOnce(bb, text.length + 1)
  BY <1>1, <1>4, <1>15, MoreNowIs
<1>17. Upper(bb, o) \in Seq(Constructs)
  BY <1>16, UnderIs DEF MoreNow
<1>18. CaseBegins(c, bs, Upper(bb, o), x, bound, n, v, d, e)
  BY <1>4, <1>12, <1>13, <1>16 DEF CaseBegins, MoreNow
<1>19. Becomes(c, bs, e, Upper(bb, o))
  BY <1>4, <1>6, <1>10, <1>17, <1>18, BeginCaseBecomes DEF CaseParts
<1>20. g = [fns EXCEPT ![Len(fns)] = e]
  BY <1>9, <1>11
<1>21. CompileOk(g, bb, text.length + 1, late)
  BY <1>2, <1>16, <1>19, <1>20, CompiledOk DEF MoreNow
<1> QED
  BY <1>1, <1>3, <1>9, <1>21, CompileStep

\* The match a of the case that is the last block.
LEMMA MatchAround ==
    ASSUME NEW c, NEW bs, Here(c, bs), Sound(c, bs), Len(bs) > 1, bs[Len(bs)].kind = "case"
    PROVE  bs[Len(bs) - 1].kind = "match"
<1>1. PICK L : Ready(c, bs, L)
  BY DEF Sound
<1>2. Len(bs) \in 1 .. Len(bs)
  BY HereIs
<1> QED
  BY <1>1, <1>2 DEF Ready, Laid

LEMMA EndsIs ==
    ASSUME NEW b \in Constructs, b.kind = "match", NEW j \in Nat, NEW a, a = [b EXCEPT !.ends = @ \union {j}]
    PROVE  EndsAt(b, a, j) /\ a.decls = b.decls /\ a.kind = "match" /\ a \in Constructs
<1>1. b \in [kind : {"match"}, decls : Decls, ends : SUBSET Nat]
  BY DEF Constructs
<1>2. b.ends \union {j} \in SUBSET Nat
  BY <1>1
<1>3. a \in [kind : {"match"}, decls : Decls, ends : SUBSET Nat]
  BY <1>1, <1>2
<1>4. a \in Constructs
  BY <1>3 DEF Constructs
<1> QED
  BY <1>1, <1>3, <1>4 DEF EndsAt

LEMMA EndCaseStep ==
    ASSUME ScopesInv, EndCase
    PROVE  ScopesInv'
<1>0. Closes("case") /\ "case" # "fn"
  BY DEF EndCase
<1>1. /\ status = "compile" /\ late \in BOOLEAN /\ text.length \in Nat
      /\ text'.length = text.length /\ text'.names \in Nat /\ status' = "compile" /\ late' = late
      /\ \E p, o, c, bs :
            /\ StandsIn(p, o, c, bs) /\ Len(bs) > 1 /\ bs[Len(bs)].kind = "case"
            /\ blocks[Len(blocks)].kind = "case"
  BY <1>0, ClosesIs
<1>2. PICK p, o, c, bs :
          /\ StandsIn(p, o, c, bs) /\ Len(bs) > 1 /\ bs[Len(bs)].kind = "case"
          /\ blocks[Len(blocks)].kind = "case"
  BY <1>1
<1>3. PICK g, ba, bb, b : g = fns' /\ ba = Front(blocks) /\ bb = blocks' /\ b = bs[Len(bs)]
  OBVIOUS
<1>4. /\ Here(c, bs) /\ Sound(c, bs) /\ bs = Upper(blocks, o) /\ c = Current /\ Under(blocks, o)
      /\ DeclaredOnce(blocks, text.length) /\ Last(blocks) = b
  BY <1>2, <1>3 DEF StandsIn
<1>5. PICK d, e, j : d = Emit(EndScope(c), <<Jump(0)>>) /\ e = Patch(d, b.fails, End(d)) /\ j = End(EndScope(c))
  OBVIOUS
<1>6. FewerNow(blocks, ba, o, text.length)
  BY <1>1, <1>2, <1>3, <1>4, FewerNowIs
<1>7. PICK l \in Nat, k \in Nat : /\ l = Len(ba) /\ l = Len(blocks) - 1 /\ k = l - o /\ l = o + k
                                  /\ Len(Upper(ba, o)) = k /\ k = Len(bs) - 1 /\ Upper(ba, o)[k] = ba[l] /\ k > 0
                                  /\ Upper(ba, o) \in Seq(Constructs) /\ o \in Nat
  <2>1. Under(ba, o) /\ Len(ba) = Len(blocks) - 1 /\ ba \in Seq(Constructs) /\ o \in Nat
    BY <1>6 DEF FewerNow, Under
  <2>2. PICK k \in Nat : /\ k = Len(ba) - o /\ k > 0 /\ Len(ba) = o + k /\ Len(Upper(ba, o)) = k
                         /\ Upper(ba, o) \in Seq(Constructs)
                         /\ \A d1 \in 1 .. k : Upper(ba, o)[d1] = ba[o + d1] /\ o + d1 \in 1 .. Len(ba)
    BY <2>1, UnderIs
  <2>3. Upper(ba, o)[k] = ba[o + k]
    BY <2>2
  <2>4. k = Len(bs) - 1
    BY <1>4, <1>6, <2>2 DEF FewerNow, Shortens
  <2> QED
    BY <2>1, <2>2, <2>3, <2>4, LenProperties
<1>8. ba[l].kind = "match" /\ ba[l] \in Constructs /\ l \in 1 .. l /\ l > o
  <2>1. bs[k].kind = "match" /\ k \in 1 .. k
    <3>1. bs[Len(bs) - 1].kind = "match"
      BY <1>2, <1>4, MatchAround
    <3> QED
      BY <3>1, <1>7
  <2>2. Upper(ba, o)[k] = bs[k]
    BY <1>4, <1>6, <1>7, <2>1 DEF FewerNow, Shortens
  <2>3. Upper(ba, o)[k] \in Constructs
    BY <1>7, <2>1, ElementOfSeq
  <2>4. l \in 1 .. l /\ l > o
    BY <1>7
  <2> QED
    BY <1>7, <2>1, <2>2, <2>3, <2>4
<1>9. PICK a : a = [ba[l] EXCEPT !.ends = @ \union {j}]
  OBVIOUS
<1>10. j \in Nat
  <2>1. EndScope(c) \in Compilers
    <3>1. c.scopeDepth > 0 /\ c \in Compilers /\ Sorted(c) /\ ~Inner(c)
      BY <1>4, HereIs
    <3> QED
      BY <3>1, EndScopeIs DEF ScopeLeft
  <2> QED
    BY <2>1, <1>5, CompilerIs
<1>11. EndsAt(ba[l], a, j) /\ a.decls = ba[l].decls /\ a.kind = "match" /\ a \in Constructs
  BY <1>8, <1>9, <1>10, EndsIs
<1>12. /\ g = [fns EXCEPT ![Len(fns)] = e] /\ bb = [ba EXCEPT ![l] = a]
  <2>1. g = [fns EXCEPT ![Len(fns)] = e]
    BY <1>3, <1>4, <1>5 DEF EndCase, Compile
  <2>2. bb = [Front(blocks) EXCEPT ![Len(blocks) - 1].ends = @ \union {End(EndScope(Current))}]
    BY <1>3 DEF EndCase
  <2>3. bb = [ba EXCEPT ![l].ends = @ \union {j}]
    BY <2>2, <1>3, <1>4, <1>5, <1>7
  <2> QED
    BY <2>1, <2>3, <1>9
<1>13. bb \in Seq(Constructs) /\ Len(bb) = l /\ bb[l] = a /\ \A i \in 1 .. l : i # l => bb[i] = ba[i]
  <2>1. ba \in Seq(Constructs)
    BY <1>6 DEF FewerNow
  <2>2. l \in 1 .. Len(ba)
    BY <1>7, <1>8
  <2>3. bb = [ba EXCEPT ![l] = a] /\ a \in Constructs
    BY <1>11, <1>12
  <2>4. bb \in Seq(Constructs) /\ Len(bb) = Len(ba) /\ bb[l] = a
        /\ \A i \in 1 .. Len(ba) : i # l => bb[i] = ba[i]
    BY <2>1, <2>2, <2>3, ExceptSeq
  <2> QED
    BY <2>4, <1>7
<1>14. Replaces(ba, bb, l, a)
  BY <1>7, <1>13 DEF Replaces
<1>15. Above(ba, bb, o) /\ Replaces(Upper(ba, o), Upper(bb, o), k, a) /\ Under(bb, o)
  <2>1. Under(ba, o) /\ a.kind = ba[l].kind /\ a.kind # "fn" /\ l \in 1 .. Len(ba) /\ l > o
    BY <1>6, <1>7, <1>8, <1>11 DEF FewerNow
  <2>2. Above(ba, bb, o) /\ Replaces(Upper(ba, o), Upper(bb, o), l - o, a) /\ Under(bb, o)
    BY <2>1, <1>13, <1>14, ReplacedAbove
  <2> QED
    BY <2>2, <1>7
<1>16. Upper(bb, o) \in Seq(Constructs)
  BY <1>15, UnderIs
<1>17. CaseEnds(c, bs, b, Upper(ba, o), a, Upper(bb, o))
  BY <1>2, <1>3, <1>4, <1>5, <1>6, <1>7, <1>11, <1>15, <1>16 DEF CaseEnds, FewerNow
<1>18. Becomes(c, bs, e, Upper(bb, o))
  BY <1>4, <1>5, <1>17, EndCaseBecomes
<1>19. Above(blocks, bb, o)
  <2>1. Above(blocks, ba, o)
    BY <1>6 DEF FewerNow
  <2> QED
    BY <2>1, <1>15 DEF Above
<1>20. DeclaredOnce(bb, text.length)
  <2>1. DeclaredOnce(ba, text.length)
    BY <1>6 DEF FewerNow
  <2>2. \A i \in 1 .. Len(bb) : i \in 1 .. Len(ba) /\ bb[i].decls = ba[i].decls
    BY <1>7, <1>11, <1>13
  <2> QED
    BY <2>1, <2>2, <1>1, SameDeclared
<1>21. CompileOk(g, bb, text.length, late)
  BY <1>2, <1>12, <1>18, <1>19, <1>20, CompiledOk
<1> QED
  BY <1>1, <1>3, <1>21, CompileStep

\* The last loop is at d, in the last function.
LastLoop(b, d) ==
    d = Greatest({i \in DOMAIN b : b[i].kind = "loop"}) /\ d # 0 /\ \A k \in d .. Len(b) : b[k].kind # "fn"

\* It is bs[t] there.
LoopThere(b, bs, o, d, t) ==
    /\ d \in 1 .. Len(b) /\ d > o /\ t = d - o /\ t \in 1 .. Len(bs)
    /\ bs[t] = b[d] /\ b[d].kind = "loop" /\ b[d] \in Constructs
    /\ \A k \in 1 .. Len(bs) : bs[k].kind = "loop" => k <= t

LEMMA LoopAround ==
    ASSUME NEW b, NEW o, Under(b, o), NEW d, LastLoop(b, d)
    PROVE  \E t \in Nat : LoopThere(b, Upper(b, o), o, d, t)
<1>0. d = Greatest({i \in DOMAIN b : b[i].kind = "loop"}) /\ d # 0 /\ \A k \in d .. Len(b) : b[k].kind # "fn"
  BY DEF LastLoop
<1>1. PICK l \in Nat : l = Len(b) /\ DOMAIN b = 1 .. l
  BY LenProperties DEF Under
<1>2. PICK S : S = {i \in 1 .. l : b[i].kind = "loop"}
  OBVIOUS
<1>3. d = Greatest(S) /\ S \in SUBSET (1 .. l)
  BY <1>0, <1>1, <1>2
<1>4. d \in S /\ \A k \in S : k <= d
  <2>1. /\ \A k \in S : k <= Greatest(S)
        /\ S = {} => Greatest(S) = 0
        /\ S # {} => Greatest(S) \in S
    BY <1>3, HighestIs
  <2> QED
    BY <2>1, <1>0, <1>3
<1>5. d \in 1 .. l /\ b[d].kind = "loop"
  BY <1>2, <1>4
<1>6. b \in Seq(Constructs) /\ o \in Nat /\ o < l /\ b[o + 1].kind = "fn"
  BY <1>1 DEF Under
<1>7. d > o + 1
  <2>1. CASE d > o + 1
    BY <2>1
  <2>2. CASE d <= o + 1
    <3>1. o + 1 \in d .. l
      BY <2>2, <1>5, <1>6
    <3> QED
      BY <3>1, <1>0, <1>1, <1>6
  <2> QED
    BY <2>1, <2>2, <1>5, <1>6
<1>8. PICK t \in Nat : t = d - o
  <2>1. \A x \in 1 .. l : x > o + 1 => x - o \in Nat
    BY <1>6
  <2>2. d - o \in Nat
    BY <2>1, <1>5, <1>7
  <2> QED
    BY <2>2
<1>9. t \in 1 .. l - o /\ o + t = d
  BY <1>5, <1>6, <1>7, <1>8
<1>10. Len(Upper(b, o)) = l - o /\ \A k \in 1 .. l - o : Upper(b, o)[k] = b[o + k]
  BY <1>1, <1>6, UpperAt
<1>11. ASSUME NEW k \in 1 .. l - o, Upper(b, o)[k].kind = "loop"
       PROVE  k <= t
  <2>1. o + k \in 1 .. l
    BY <1>6
  <2>2. o + k \in S
    BY <2>1, <1>2, <1>10, <1>11
  <2>3. o + k <= d
    BY <2>2, <1>4
  <2> QED
    BY <2>3, <1>6, <1>9
<1>12. b[d] \in Constructs
  BY <1>1, <1>5, <1>6, ElementOfSeq
<1>13. d \in 1 .. Len(b) /\ d > o
  BY <1>1, <1>5, <1>6, <1>7
<1>14. t \in 1 .. Len(Upper(b, o)) /\ Upper(b, o)[t] = b[d]
  BY <1>9, <1>10
<1>15. \A k \in 1 .. Len(Upper(b, o)) : Upper(b, o)[k].kind = "loop" => k <= t
  BY <1>10, <1>11
<1> QED
  BY <1>5, <1>8, <1>12, <1>13, <1>14, <1>15 DEF LoopThere

LEMMA MayLeaveIs ==
    ASSUME NEW b \in Constructs, b.kind = "loop", NEW x \in BOOLEAN, b.own = Temp => x = FALSE,
           NEW a, a = [b EXCEPT !.left = @ \/ x]
    PROVE  MayLeave(b, a) /\ (x = TRUE => a.left = TRUE)
<1>1. b \in [kind : {"loop"}, decls : Decls, start : Nat, breakDepth : Nat, continueDepth : Nat,
             breaks : SUBSET Nat, own : Nat, left : BOOLEAN]
  BY DEF Constructs
<1>2. PICK y \in BOOLEAN : y = (b.left \/ x)
  OBVIOUS
<1>3. a = [b EXCEPT !.left = y]
  BY <1>2
<1>4. /\ a \in [kind : {"loop"}, decls : Decls, start : Nat, breakDepth : Nat, continueDepth : Nat,
                breaks : SUBSET Nat, own : Nat, left : BOOLEAN]
      /\ a.decls = b.decls /\ a.start = b.start /\ a.breakDepth = b.breakDepth
      /\ a.continueDepth = b.continueDepth /\ a.own = b.own /\ a.breaks = b.breaks /\ a.left = y
  BY <1>1, <1>3
<1>5. a \in Constructs
  BY <1>4 DEF Constructs
<1>6. b.left \in BOOLEAN
  BY <1>1
<1>7. (b.left = TRUE => y = TRUE) /\ (x = FALSE => y = b.left) /\ (x = TRUE => y = TRUE)
  BY <1>2, <1>6
<1>8. a.kind = "loop"
  BY <1>4
<1>9. SameLoop(b, a)
  BY <1>4, <1>5, <1>8 DEF SameLoop
<1>10. (b.left = TRUE => a.left = TRUE) /\ (b.own = Temp => a.left = b.left) /\ (x = TRUE => a.left = TRUE)
  BY <1>4, <1>7
<1> QED
  BY <1>4, <1>9, <1>10 DEF MayLeave

LEMMA BreaksAtIs ==
    ASSUME NEW b \in Constructs, b.kind = "loop", NEW j \in Nat, NEW a, a = [b EXCEPT !.breaks = @ \union {j}]
    PROVE  BreaksAt(b, a, j)
<1>1. b \in [kind : {"loop"}, decls : Decls, start : Nat, breakDepth : Nat, continueDepth : Nat,
             breaks : SUBSET Nat, own : Nat, left : BOOLEAN]
  BY DEF Constructs
<1>2. b.breaks \union {j} \in SUBSET Nat
  BY <1>1
<1>3. /\ a \in [kind : {"loop"}, decls : Decls, start : Nat, breakDepth : Nat, continueDepth : Nat,
                breaks : SUBSET Nat, own : Nat, left : BOOLEAN]
      /\ a.decls = b.decls /\ a.start = b.start /\ a.breakDepth = b.breakDepth
      /\ a.continueDepth = b.continueDepth /\ a.own = b.own /\ a.left = b.left
      /\ a.breaks = b.breaks \union {j}
  BY <1>1, <1>2
<1>4. a \in Constructs /\ a.kind = "loop"
  BY <1>3 DEF Constructs
<1> QED
  BY <1>3, <1>4 DEF BreaksAt, SameLoop

\* The construct at d of b, which is the one at t of the last function, becomes x.
ChangedNow(b, bb, o, d, t, x) ==
    /\ bb \in Seq(Constructs) /\ Len(bb) = Len(b) /\ bb[d] = x
    /\ Above(b, bb, o) /\ Under(bb, o) /\ Upper(bb, o) \in Seq(Constructs)
    /\ Replaces(Upper(b, o), Upper(bb, o), t, x)
    /\ \A n \in Nat : DeclaredOnce(b, n) => DeclaredOnce(bb, n + 1)

LEMMA ChangedNowIs ==
    ASSUME NEW b, NEW o, Under(b, o), NEW d \in 1 .. Len(b), d > o, NEW x \in Constructs,
           x.kind = "loop", b[d].kind = "loop", x.decls = b[d].decls,
           NEW bb, bb = [b EXCEPT ![d] = x]
    PROVE  ChangedNow(b, bb, o, d, d - o, x)
<1>1. b \in Seq(Constructs)
  BY DEF Under
<1>2. bb \in Seq(Constructs) /\ Len(bb) = Len(b) /\ bb[d] = x
      /\ \A i \in 1 .. Len(b) : i # d => bb[i] = b[i]
  BY <1>1, ExceptSeq
<1>3. Replaces(b, bb, d, x)
  BY <1>2 DEF Replaces
<1>4. Above(b, bb, o) /\ Replaces(Upper(b, o), Upper(bb, o), d - o, x) /\ Under(bb, o)
  BY <1>2, <1>3, ReplacedAbove
<1>5. Upper(bb, o) \in Seq(Constructs)
  BY <1>4, UnderIs
<1>6. ASSUME NEW n \in Nat, DeclaredOnce(b, n)
      PROVE  DeclaredOnce(bb, n + 1)
  <2>1. \A i \in 1 .. Len(bb) : i \in 1 .. Len(b) /\ bb[i].decls = b[i].decls
    BY <1>2
  <2> QED
    BY <2>1, <1>6, SameDeclared
<1> QED
  BY <1>2, <1>4, <1>5, <1>6 DEF ChangedNow

LEMMA ContinueStep ==
    ASSUME ScopesInv, Leave("continue")
    PROVE  ScopesInv'
<1>0. Reads(NoName) /\ NoName \in Nat
  BY DEF Leave, ReadsStatement, NoName
<1>1. /\ status = "compile" /\ late \in BOOLEAN /\ text.length \in Nat
      /\ text'.length = text.length + 1 /\ text'.names \in Nat
  BY <1>0, ReadsIs
<1>2. PICK p, o, c, bs : StandsIn(p, o, c, bs)
  BY <1>1, StandsInIs
<1>3. PICK g, d, a : g = fns' /\ d = Greatest({i \in DOMAIN blocks : blocks[i].kind = "loop"}) /\ a = blocks[d]
  OBVIOUS
<1>4. /\ Here(c, bs) /\ Sound(c, bs) /\ bs = Upper(blocks, o) /\ c = Current /\ Under(blocks, o)
      /\ DeclaredOnce(blocks, text.length)
  BY <1>2 DEF StandsIn
<1>5. PICK t \in Nat : LoopThere(blocks, bs, o, d, t)
  <2>1. LastLoop(blocks, d)
    BY <1>3 DEF Leave, LastLoop
  <2> QED
    BY <2>1, <1>4, LoopAround
<1>6. /\ t \in 1 .. Len(bs) /\ bs[t] = a /\ a.kind = "loop" /\ a \in Constructs
      /\ \A k \in 1 .. Len(bs) : bs[k].kind = "loop" => k <= t
  BY <1>3, <1>5 DEF LoopThere
<1>7. PICK k, to, m, xs : /\ k = a.continueDepth /\ to = a.start /\ m = Len(Cleanup(c, k))
                          /\ xs = <<Branch(End(c) + 1 + m + 1, 0)>> \o Cleanup(c, k) \o <<Jump(to)>>
  OBVIOUS
<1>8. /\ g = [fns EXCEPT ![Len(fns)] = Emit(c, xs)] /\ status' = "compile" /\ late' = late
      /\ blocks' = blocks
  BY <1>1, <1>3, <1>4, <1>7 DEF Leave, Compile
<1>9. to \in Nat
  BY <1>6, <1>7, ConstructIs
<1>10. PICK L : Ready(c, bs, L)
  BY <1>4 DEF Sound
<1>11. Leaves(c, bs, t, a, k, to, m, xs)
  <2>1. Laid(c, bs, L)
    BY <1>10 DEF Ready
  <2>2. \A i \in 1 .. Len(c.locals) :
            c.locals[i].var = a.own /\ a.own # Temp /\ c.locals[i].captured = FALSE
            => k = a.continueDepth \/ a.left = TRUE
    BY <1>7
  <2>3. (k = a.continueDepth \/ k = a.breakDepth) /\ (to = 0 \/ (to = a.start /\ k = a.continueDepth))
    BY <1>7
  <2> QED
    BY <2>1, <2>2, <2>3, <1>4, <1>6, <1>7, <1>9, LeavesIs
<1>12. Becomes(c, bs, Emit(c, xs), bs)
  BY <1>4, <1>9, <1>11, ContinueBecomes
<1>13. Above(blocks, blocks, o)
  BY <1>4 DEF Above, Under
<1>14. DeclaredOnce(blocks, text.length + 1)
  BY <1>1, <1>4, SameDeclared
<1>15. CompileOk(g, blocks, text.length + 1, late)
  BY <1>2, <1>4, <1>8, <1>12, <1>13, <1>14, CompiledOk
<1> QED
  BY <1>1, <1>3, <1>8, <1>15, CompileStep

LEMMA BreakStep ==
    ASSUME ScopesInv, Leave("break")
    PROVE  ScopesInv'
<1>0. Reads(NoName) /\ NoName \in Nat
  BY DEF Leave, ReadsStatement, NoName
<1>1. /\ status = "compile" /\ late \in BOOLEAN /\ text.length \in Nat
      /\ text'.length = text.length + 1 /\ text'.names \in Nat
  BY <1>0, ReadsIs
<1>2. PICK p, o, c, bs : StandsIn(p, o, c, bs)
  BY <1>1, StandsInIs
<1>3. PICK g, bb, d, loop : /\ g = fns' /\ bb = blocks' /\ loop = blocks[d]
                            /\ d = Greatest({i \in DOMAIN blocks : blocks[i].kind = "loop"})
  OBVIOUS
<1>4. /\ Here(c, bs) /\ Sound(c, bs) /\ bs = Upper(blocks, o) /\ c = Current /\ Under(blocks, o)
      /\ DeclaredOnce(blocks, text.length)
  BY <1>2 DEF StandsIn
<1>5. PICK t \in Nat : LoopThere(blocks, bs, o, d, t)
  <2>1. LastLoop(blocks, d)
    BY <1>3 DEF Leave, LastLoop
  <2> QED
    BY <2>1, <1>4, LoopAround
<1>6. /\ t \in 1 .. Len(bs) /\ bs[t] = loop /\ loop.kind = "loop" /\ loop \in Constructs
      /\ \A k \in 1 .. Len(bs) : bs[k].kind = "loop" => k <= t
      /\ d \in 1 .. Len(blocks) /\ d > o /\ t = d - o
  BY <1>3, <1>5 DEF LoopThere
<1>7. PICK k, m, j, xs : /\ k = loop.breakDepth /\ m = Len(Cleanup(c, k)) /\ j = End(c) + 1 + m
                         /\ xs = <<Branch(j + 1, 0)>> \o Cleanup(c, k) \o <<Jump(0)>>
  OBVIOUS
<1>8. PICK x \in BOOLEAN : x = \E y \in ToSet(c.locals) : y.var = loop.own /\ y.var # Temp /\ ~y.captured
  OBVIOUS
<1>9. /\ g = [fns EXCEPT ![Len(fns)] = Emit(c, xs)] /\ status' = "compile" /\ late' = late
      /\ bb = [blocks EXCEPT ![d].breaks = @ \union {j}, ![d].left = @ \/ x]
  BY <1>1, <1>3, <1>4, <1>7, <1>8 DEF Leave, Compile
<1>10. PICK a, b : a = [loop EXCEPT !.left = @ \/ x] /\ b = [a EXCEPT !.breaks = @ \union {j}]
  OBVIOUS
<1>11. PICK ba : ba = [blocks EXCEPT ![d] = a]
  OBVIOUS
<1>12. loop.own = Temp => x = FALSE
  BY <1>8
<1>13. MayLeave(loop, a) /\ (x = TRUE => a.left = TRUE) /\ a \in Constructs /\ a.kind = "loop"
       /\ a.decls = loop.decls /\ a.breakDepth = k /\ a.own = loop.own
  <2>1. MayLeave(loop, a) /\ (x = TRUE => a.left = TRUE)
    BY <1>6, <1>10, <1>12, MayLeaveIs
  <2> QED
    BY <2>1, <1>7 DEF MayLeave, SameLoop
<1>14. c \in Compilers /\ j \in Nat
  <2>1. c \in Compilers /\ Sorted(c) /\ ~Inner(c) /\ k \in Nat /\ End(c) \in Nat
    BY <1>4, <1>6, <1>7, HereIs, CompilerIs, ConstructIs
  <2>2. m \in Nat
    BY <2>1, <1>7, CleanupIs, LenProperties
  <2> QED
    BY <2>1, <2>2, <1>7
<1>15. BreaksAt(a, b, j) /\ b \in Constructs /\ b.kind = "loop" /\ b.decls = loop.decls
  <2>1. BreaksAt(a, b, j)
    BY <1>10, <1>13, <1>14, BreaksAtIs
  <2> QED
    BY <2>1, <1>13 DEF BreaksAt, SameLoop
<1>16. ChangedNow(blocks, ba, o, d, t, a)
  BY <1>3, <1>4, <1>6, <1>11, <1>13, ChangedNowIs
<1>17. bb = [ba EXCEPT ![d] = b] /\ bb = [blocks EXCEPT ![d] = b] /\ ba[d] = a
  <2>1. ba[d] = a
    BY <1>16 DEF ChangedNow
  <2>2. b = [[loop EXCEPT !.breaks = @ \union {j}] EXCEPT !.left = @ \/ x]
    <3>1. loop \in [kind : {"loop"}, decls : Decls, start : Nat, breakDepth : Nat, continueDepth : Nat,
                    breaks : SUBSET Nat, own : Nat, left : BOOLEAN]
      BY <1>6 DEF Constructs
    <3>2. PICK y, z : y = (loop.left \/ x) /\ z = loop.breaks \union {j}
      OBVIOUS
    <3>3. a = [loop EXCEPT !.left = y]
      BY <1>10, <3>2
    <3>4. b = [a EXCEPT !.breaks = z]
      BY <1>10, <3>1, <3>2, <3>3
    <3>5. [[loop EXCEPT !.breaks = @ \union {j}] EXCEPT !.left = @ \/ x]
        = [[loop EXCEPT !.breaks = z] EXCEPT !.left = y]
      BY <3>1, <3>2
    <3> QED
      BY <3>1, <3>3, <3>4, <3>5
  <2>3. [blocks EXCEPT ![d].breaks = @ \union {j}, ![d].left = @ \/ x] = [blocks EXCEPT ![d] = b]
    BY <2>2, <1>3, <1>4, <1>6 DEF Under
  <2>4. [ba EXCEPT ![d] = b] = [blocks EXCEPT ![d] = b]
    BY <1>11
  <2> QED
    BY <2>1, <2>3, <2>4, <1>9
<1>18. ChangedNow(blocks, bb, o, d, t, b)
  BY <1>3, <1>4, <1>6, <1>15, <1>17, ChangedNowIs
<1>19. ChangedNow(ba, bb, o, d, t, b)
  <2>1. Under(ba, o) /\ Len(ba) = Len(blocks)
    BY <1>16 DEF ChangedNow
  <2>2. d \in 1 .. Len(ba) /\ d > o /\ ba[d].kind = "loop" /\ b.decls = ba[d].decls /\ b.kind = "loop"
    BY <2>1, <1>6, <1>13, <1>15, <1>17
  <2>3. bb = [ba EXCEPT ![d] = b] /\ b \in Constructs
    BY <1>15, <1>17
  <2>4. ChangedNow(ba, bb, o, d, d - o, b)
    BY <2>1, <2>2, <2>3, ChangedNowIs
  <2> QED
    BY <2>4, <1>6
<1>20. /\ Upper(ba, o) \in Seq(Constructs) /\ Replaces(bs, Upper(ba, o), t, a)
       /\ Upper(bb, o) \in Seq(Constructs) /\ Replaces(Upper(ba, o), Upper(bb, o), t, b)
       /\ Above(blocks, bb, o) /\ DeclaredOnce(bb, text.length + 1)
  BY <1>1, <1>4, <1>16, <1>18, <1>19 DEF ChangedNow
<1>21. PICK L : Ready(c, bs, L)
  BY <1>4 DEF Sound
<1>22. Here(c, Upper(ba, o)) /\ Laid(c, Upper(ba, o), L)
  <2>1. Here(c, Upper(ba, o))
    BY <1>4, <1>6, <1>13, <1>20, HereReplaced
  <2>2. Ready(c, Upper(ba, o), L)
    <3>1. Fits(c, bs)
      BY <1>4, HereIs
    <3> QED
      BY <3>1, <1>6, <1>13, <1>20, <1>21, MayLeaveReady
  <2> QED
    BY <2>1, <2>2 DEF Ready
<1>23. Leaves(c, Upper(ba, o), t, a, k, 0, m, xs)
  <2>1. t \in 1 .. Len(Upper(ba, o)) /\ a = Upper(ba, o)[t]
        /\ \A y \in 1 .. Len(Upper(ba, o)) : Upper(ba, o)[y].kind = "loop" => y <= t
    BY <1>6, <1>20 DEF Replaces
  <2>2. ASSUME NEW i \in 1 .. Len(c.locals), c.locals[i].var = a.own, a.own # Temp, c.locals[i].captured = FALSE
        PROVE  k = a.continueDepth \/ a.left = TRUE
    <3>1. c.locals[i] \in ToSet(c.locals)
      BY <1>14, CompilerIs DEF ToSet
    <3>2. x = TRUE
      BY <3>1, <2>2, <1>8, <1>13
    <3> QED
      BY <3>2, <1>13
  <2>3. (k = a.continueDepth \/ k = a.breakDepth) /\ (0 = 0 \/ (0 = a.start /\ k = a.continueDepth))
      /\ 0 \in Nat
    BY <1>13
  <2>4. xs = <<Branch(End(c) + 1 + m + 1, 0)>> \o Cleanup(c, k) \o <<Jump(0)>> /\ m = Len(Cleanup(c, k))
    BY <1>7
  <2> QED
    BY <2>1, <2>2, <2>3, <2>4, <1>13, <1>22, LeavesIs
<1>24. BreakFrom(c, Upper(ba, o), t, a, m, xs)
  BY <1>13, <1>23 DEF BreakFrom
<1>25. Becomes(c, bs, Emit(c, xs), Upper(bb, o))
  <2>1. MayLeave(bs[t], a) /\ BreaksAt(a, b, End(c) + 1 + m)
    BY <1>6, <1>7, <1>13, <1>15
  <2> QED
    BY <2>1, <1>4, <1>6, <1>20, <1>24, BreakBecomes
<1>26. CompileOk(g, bb, text.length + 1, late)
  BY <1>2, <1>9, <1>20, <1>25, CompiledOk
<1> QED
  BY <1>1, <1>3, <1>9, <1>26, CompileStep

-----------------------------------------------------------------------------
(* What a name means                                                       *)

\* The deepest of the blocks b that declares n.
DeclaredAt(b, n) == Greatest({d \in DOMAIN b : n \in DOMAIN b[d].decls})

MeaningIn(b, n) == IF DeclaredAt(b, n) = 0 THEN Temp ELSE b[DeclaredAt(b, n)].decls[n]

\* The local of c for n is i, of its block at d.
Found(c, bs, n, i, d) ==
    /\ FindLocal(c, n) = i /\ i \in 0 .. Len(c.locals)
    /\ i = 0 => \A e \in 1 .. Len(bs) : n \notin DOMAIN bs[e].decls
    /\ i # 0 => /\ i \in 1 .. Len(c.locals) /\ c.locals[i].name = n
                /\ d = Level(c, i) /\ d \in 1 .. Len(bs)
                /\ n \in DOMAIN bs[d].decls /\ bs[d].decls[n] = c.locals[i].var
                /\ \A e \in 1 .. Len(bs) : n \in DOMAIN bs[e].decls => e <= d

LEMMA FoundIs ==
    ASSUME NEW c, NEW bs, Sits(c, bs), NEW n \in Nat \ {0}
    PROVE  \E i, d : Found(c, bs, n, i, d)
<1>1. c \in Compilers /\ bs \in Seq(Constructs) /\ Named(c, bs)
  BY DEF Sits
<1>2. PICK m \in Nat : m = Len(c.locals) /\ DOMAIN c.locals = 1 .. m
  BY <1>1, CompilerIs
<1>3. PICK S : S = {i \in 1 .. m : c.locals[i].name = n}
  OBVIOUS
<1>4. S \in SUBSET (1 .. m)
  BY <1>3
<1>5. PICK i : i = FindLocal(c, n)
  OBVIOUS
<1>6. i = Greatest(S)
  BY <1>2, <1>3, <1>5 DEF FindLocal
<1>7. i \in Nat /\ (\A k \in S : k <= i) /\ (S = {} => i = 0) /\ (S # {} => i \in S)
  BY <1>4, <1>6, HighestIs
<1>8. /\ Len(bs) \in Nat
      /\ \A j \in 1 .. m : Level(c, j) \in 1 .. Len(bs)
      /\ \A j, k \in 1 .. m : j < k => Level(c, j) <= Level(c, k)
      /\ \A j \in 1 .. m : c.locals[j].name # NoName =>
             /\ c.locals[j].name \in DOMAIN bs[Level(c, j)].decls
             /\ bs[Level(c, j)].decls[c.locals[j].name] = c.locals[j].var
      /\ \A d \in 1 .. Len(bs) : \A x \in DOMAIN bs[d].decls :
             \E j \in 1 .. m : Level(c, j) = d /\ c.locals[j].name = x
  BY <1>1, <1>2 DEF Named
<1>9. i = 0 => \A e \in 1 .. Len(bs) : n \notin DOMAIN bs[e].decls
  <2> SUFFICES ASSUME i = 0, NEW e \in 1 .. Len(bs), n \in DOMAIN bs[e].decls PROVE FALSE
    OBVIOUS
  <2>1. PICK j \in 1 .. m : c.locals[j].name = n
    BY <1>8
  <2>2. j \in S
    BY <1>3, <2>1
  <2> QED
    BY <1>4, <1>7, <2>2
<1>10. i # 0 => i \in 1 .. m /\ c.locals[i].name = n
  BY <1>3, <1>7
<1>11. ASSUME i # 0, NEW e \in 1 .. Len(bs), n \in DOMAIN bs[e].decls PROVE e <= Level(c, i)
  <2>1. PICK j \in 1 .. m : Level(c, j) = e /\ c.locals[j].name = n
    BY <1>8, <1>11
  <2>2. j <= i /\ j \in Nat
    BY <1>3, <1>7, <2>1
  <2>3. i \in 1 .. m
    BY <1>10, <1>11
  <2>4. j < i \/ j = i
    BY <1>7, <2>2
  <2>5. e \in Nat /\ Level(c, j) \in Nat /\ e <= e
    BY <2>1
  <2> QED
    BY <1>8, <2>1, <2>3, <2>4, <2>5
<1>12. i \in 0 .. m
  BY <1>7, <1>10
<1>13. n # NoName
  BY DEF NoName
<1>14. i # 0 => /\ Level(c, i) \in 1 .. Len(bs) /\ n \in DOMAIN bs[Level(c, i)].decls
                /\ bs[Level(c, i)].decls[n] = c.locals[i].var
  BY <1>8, <1>10, <1>13
<1>15. Found(c, bs, n, i, Level(c, i))
  BY <1>2, <1>5, <1>9, <1>10, <1>11, <1>12, <1>14 DEF Found
<1> QED
  BY <1>15

\* The function that holds n is k, its local there is i, and it is the block d that declares it.
Resolved(f, b, p, n, k, i, d) ==
    /\ Holder(f, n) = k /\ k \in 0 .. Len(f)
    /\ k = 0 => MeaningIn(b, n) = Temp
    /\ k # 0 => /\ k \in 1 .. Len(f) /\ i = FindLocal(f[k], n) /\ i \in 1 .. Len(f[k].locals)
                /\ f[k].locals[i].name = n /\ f[k].locals[i].var = MeaningIn(b, n)
                /\ Level(f[k], i) \in 1 .. f[k].scopeDepth /\ d = p[k] + Level(f[k], i) - 1
                /\ d \in 1 .. Len(b) /\ n \in DOMAIN b[d].decls /\ b[d].decls[n] = MeaningIn(b, n)

\* Where the blocks of function k are.
SegmentAt(f, b, p, k) ==
    /\ p[k] \in Nat /\ p[k] >= 1 /\ p[k + 1] \in Nat /\ f[k].scopeDepth \in Nat
    /\ p[k + 1] = p[k] + f[k].scopeDepth /\ p[k + 1] <= Len(b) + 1
    /\ Len(Segment(f, b, p, k)) = f[k].scopeDepth
    /\ \A d \in 1 .. f[k].scopeDepth :
          Segment(f, b, p, k)[d] = b[p[k] + d - 1] /\ p[k] + d - 1 \in 1 .. Len(b)
    /\ \A d \in 1 .. Len(b) : p[k] <= d /\ d < p[k + 1] =>
          d - p[k] + 1 \in 1 .. f[k].scopeDepth /\ p[k] + (d - p[k] + 1) - 1 = d

LEMMA SegmentIs ==
    ASSUME NEW f \in Seq(Compilers), NEW b \in Seq(Constructs), NEW p, Segmented(f, b, p),
           NEW k \in 1 .. Len(f)
    PROVE  SegmentAt(f, b, p, k)
<1>1. PICK n \in Nat : n = Len(f)
  OBVIOUS
<1>2. PICK m \in Nat : m = Len(b)
  OBVIOUS
<1>3. /\ k \in 1 .. n + 1 /\ k + 1 \in 1 .. n + 1 /\ n + 1 \in 1 .. n + 1 /\ 1 \in 1 .. n + 1
      /\ (k + 1 < n + 1 \/ k + 1 = n + 1) /\ (1 < k \/ k = 1)
  BY <1>1
<1>4. /\ p \in [1 .. n + 1 -> Nat] /\ p[1] = 1 /\ p[n + 1] = m + 1
      /\ \A x, y \in 1 .. n + 1 : x < y => p[x] < p[y]
      /\ p[k + 1] = p[k] + f[k].scopeDepth
  BY <1>1, <1>2 DEF Segmented
<1>5. p[k] \in Nat /\ p[k + 1] \in Nat /\ f[k] \in Compilers
  BY <1>1, <1>3, <1>4
<1>6. f[k].scopeDepth \in Nat
  BY <1>5, CompilerIs
<1>7. PICK s \in Nat : s = f[k].scopeDepth
  BY <1>6
<1>8. PICK x \in Nat : x = p[k]
  BY <1>5
<1>9. x >= 1
  <2>1. 1 < k => p[1] < p[k]
    BY <1>3, <1>4
  <2> QED
    BY <1>3, <1>4, <1>8, <2>1
<1>10. x + s <= m + 1
  <2>1. k + 1 < n + 1 => p[k + 1] < p[n + 1]
    BY <1>3, <1>4
  <2>2. x + s < m + 1 \/ x + s = m + 1
    BY <1>3, <1>4, <1>7, <1>8, <2>1
  <2> QED
    BY <2>2
<1>11. \A d \in 1 .. s : x + d - 1 \in 1 .. m
  BY <1>9, <1>10
<1>12. \A d \in 1 .. m : x <= d /\ d < x + s => d - x + 1 \in 1 .. s /\ x + (d - x + 1) - 1 = d
  BY <1>9
<1>13. Segment(f, b, p, k) = [d \in 1 .. s |-> b[x + d - 1]]
  BY <1>7, <1>8 DEF Segment
<1>14. Len(Segment(f, b, p, k)) = s
  BY <1>13
<1>15. \A d \in 1 .. s : Segment(f, b, p, k)[d] = b[x + d - 1]
  BY <1>13
<1> QED
  BY <1>2, <1>4, <1>5, <1>7, <1>8, <1>9, <1>10, <1>11, <1>12, <1>14, <1>15 DEF SegmentAt

LEMMA ResolvedIs ==
    ASSUME NEW f \in Seq(Compilers), NEW b \in Seq(Constructs), NEW t, NEW p, Consistent(f, b, t, p),
           NEW n \in Nat \ {0}
    PROVE  \E k, i, d : Resolved(f, b, p, n, k, i, d)
<1>1. Segmented(f, b, p) /\ \A k \in 1 .. Len(f) : Sits(f[k], Segment(f, b, p, k))
  BY DEF Consistent
<1>2. PICK m \in Nat : m = Len(f) /\ DOMAIN f = 1 .. m
  OBVIOUS
<1>3. PICK l \in Nat : l = Len(b) /\ DOMAIN b = 1 .. l
  OBVIOUS
<1>4. PICK S : S = {k \in 1 .. m : FindLocal(f[k], n) # 0}
  OBVIOUS
<1>5. PICK k : k = Holder(f, n)
  OBVIOUS
<1>6. k = Greatest(S)
  BY <1>2, <1>4, <1>5 DEF Holder
<1>7. k \in Nat /\ (\A j \in S : j <= k) /\ (S = {} => k = 0) /\ (S # {} => k \in S)
  <2>1. S \in SUBSET (1 .. m)
    BY <1>4
  <2> QED
    BY <2>1, <1>6, HighestIs
<1>8. PICK T : T = {d \in 1 .. l : n \in DOMAIN b[d].decls}
  OBVIOUS
<1>9. DeclaredAt(b, n) = Greatest(T) /\ T \in SUBSET (1 .. l)
  BY <1>3, <1>8 DEF DeclaredAt
<1>10. ASSUME NEW j \in 1 .. m PROVE \E i, d : Found(f[j], Segment(f, b, p, j), n, i, d)
  <2>1. Sits(f[j], Segment(f, b, p, j))
    BY <1>1, <1>2
  <2> QED
    BY <2>1, FoundIs
\* A block that declares n is in a function that has a local for it.
<1>11. ASSUME NEW d \in T
       PROVE  \E j \in S : p[j] <= d /\ d < p[j + 1]
  <2>1. d \in 1 .. l /\ n \in DOMAIN b[d].decls
    BY <1>8
  <2>2. PICK j \in 1 .. m : p[j] <= d /\ d < p[j + 1]
    BY <1>1, <1>2, <1>3, <2>1 DEF Segmented
  <2>3. PICK e : e = d - p[j] + 1
    OBVIOUS
  <2>4. /\ e \in 1 .. f[j].scopeDepth /\ p[j] + e - 1 = d
        /\ Len(Segment(f, b, p, j)) = f[j].scopeDepth
        /\ \A x \in 1 .. f[j].scopeDepth : Segment(f, b, p, j)[x] = b[p[j] + x - 1]
    <3>1. /\ p[j] \in Nat /\ p[j] >= 1 /\ p[j + 1] \in Nat /\ f[j].scopeDepth \in Nat
          /\ p[j + 1] = p[j] + f[j].scopeDepth /\ p[j + 1] <= Len(b) + 1
          /\ Len(Segment(f, b, p, j)) = f[j].scopeDepth
          /\ \A y \in 1 .. f[j].scopeDepth :
                /\ Segment(f, b, p, j)[y] = b[p[j] + y - 1] /\ p[j] + y - 1 \in 1 .. Len(b)
          /\ \A y \in 1 .. Len(b) : p[j] <= y /\ y < p[j + 1] =>
                y - p[j] + 1 \in 1 .. f[j].scopeDepth /\ p[j] + (y - p[j] + 1) - 1 = y
      BY <1>1, <1>2, SegmentIs DEF SegmentAt
    <3> QED
      BY <1>3, <2>1, <2>2, <2>3, <3>1
  <2>5. e \in 1 .. Len(Segment(f, b, p, j)) /\ n \in DOMAIN Segment(f, b, p, j)[e].decls
    BY <2>1, <2>4
  <2>6. PICK i, x : Found(f[j], Segment(f, b, p, j), n, i, x)
    BY <1>10
  <2>7. FindLocal(f[j], n) # 0
    BY <2>5, <2>6 DEF Found
  <2> QED
    BY <1>4, <2>2, <2>7
<1>12. CASE k = 0
  <2>1. S = {}
    BY <1>4, <1>7, <1>12
  <2>2. T = {}
    BY <1>11, <2>1
  <2>3. DeclaredAt(b, n) = 0
    BY <1>9, <2>2, HighestIs
  <2>4. Resolved(f, b, p, n, 0, 0, 0)
    BY <1>2, <1>5, <1>12, <2>3 DEF Resolved, MeaningIn
  <2> QED
    BY <2>4
<1>13. CASE k # 0
  <2>1. k \in 1 .. m /\ FindLocal(f[k], n) # 0 /\ k \in S
    BY <1>4, <1>7, <1>13
  <2>2. PICK i, x : Found(f[k], Segment(f, b, p, k), n, i, x)
    BY <1>10, <2>1
  <2>3. /\ i = FindLocal(f[k], n) /\ i # 0 /\ i \in 1 .. Len(f[k].locals) /\ f[k].locals[i].name = n
        /\ x = Level(f[k], i) /\ x \in 1 .. Len(Segment(f, b, p, k))
        /\ n \in DOMAIN Segment(f, b, p, k)[x].decls
        /\ Segment(f, b, p, k)[x].decls[n] = f[k].locals[i].var
        /\ \A e \in 1 .. Len(Segment(f, b, p, k)) : n \in DOMAIN Segment(f, b, p, k)[e].decls => e <= x
    BY <2>1, <2>2 DEF Found
  <2>4. PICK d : d = p[k] + x - 1
    OBVIOUS
  <2>5. /\ p[k] \in Nat /\ p[k] >= 1 /\ p[k + 1] \in Nat /\ f[k].scopeDepth \in Nat
        /\ p[k + 1] = p[k] + f[k].scopeDepth /\ p[k + 1] <= Len(b) + 1
        /\ Len(Segment(f, b, p, k)) = f[k].scopeDepth
        /\ \A y \in 1 .. f[k].scopeDepth :
              /\ Segment(f, b, p, k)[y] = b[p[k] + y - 1] /\ p[k] + y - 1 \in 1 .. Len(b)
        /\ \A y \in 1 .. Len(b) : p[k] <= y /\ y < p[k + 1] =>
              y - p[k] + 1 \in 1 .. f[k].scopeDepth /\ p[k] + (y - p[k] + 1) - 1 = y
    BY <1>1, <1>2, <2>1, SegmentIs DEF SegmentAt
  <2>6. x \in 1 .. f[k].scopeDepth /\ d \in 1 .. l /\ Segment(f, b, p, k)[x] = b[d]
    BY <1>3, <2>3, <2>4, <2>5
  <2>7. n \in DOMAIN b[d].decls /\ b[d].decls[n] = f[k].locals[i].var /\ d \in T
    BY <1>8, <2>3, <2>6
  <2>8. ASSUME NEW e \in T PROVE e <= d
    <3>1. e \in 1 .. l /\ n \in DOMAIN b[e].decls
      BY <1>8
    <3>2. PICK j \in S : p[j] <= e /\ e < p[j + 1]
      BY <1>11
    <3>3. j \in 1 .. m /\ (j < k \/ j = k)
      BY <1>4, <1>7, <3>2
    <3>4. CASE j = k
      <4>1. PICK y : y = e - p[k] + 1
        OBVIOUS
      <4>2. y \in 1 .. f[k].scopeDepth /\ p[k] + y - 1 = e
        BY <1>3, <2>5, <3>1, <3>2, <3>4, <4>1
      <4>3. y <= x
        BY <2>3, <2>5, <3>1, <4>2
      <4>4. x \in Nat /\ y \in Nat /\ p[k] \in Nat
        BY <2>5, <2>6, <4>2
      <4>5. \A u, v, w \in Nat : u <= v => w + u - 1 <= w + v - 1
        OBVIOUS
      <4> QED
        BY <2>4, <4>2, <4>3, <4>4, <4>5
    <3>5. CASE j < k
      <4>1. j + 1 \in 1 .. m + 1 /\ k \in 1 .. m + 1 /\ (j + 1 < k \/ j + 1 = k)
        BY <2>1, <3>3, <3>5
      <4>2. p[j + 1] < p[k] \/ p[j + 1] = p[k]
        BY <1>1, <1>2, <4>1 DEF Segmented
      <4>3. p[j + 1] \in Nat
        BY <1>1, <1>2, <4>1 DEF Segmented
      <4>4. \A u, v, w, z \in Nat : z < u /\ (u < v \/ u = v) /\ w >= 1 => z <= v + w - 1
        OBVIOUS
      <4>5. x \in Nat /\ x >= 1 /\ e \in Nat
        BY <2>6, <3>1
      <4> QED
        BY <2>4, <2>5, <3>2, <4>2, <4>3, <4>4, <4>5
    <3> QED
      BY <3>3, <3>4, <3>5
  <2>9. DeclaredAt(b, n) = d
    BY <1>9, <2>7, <2>8, HighestIs
  <2>10. d # 0 /\ MeaningIn(b, n) = b[d].decls[n]
    BY <1>3, <2>6, <2>9 DEF MeaningIn
  <2>11. Resolved(f, b, p, n, k, i, d)
    BY <1>2, <1>3, <1>5, <1>13, <2>1, <2>3, <2>4, <2>6, <2>7, <2>10 DEF Resolved
  <2> QED
    BY <2>11
<1> QED
  BY <1>12, <1>13

\* The variables of the blocks b that are functions.
Ending(b) == {b[d].self : d \in {d \in DOMAIN b : b[d].kind = "fn"}} \ {Temp}

LEMMA InnerIs ==
    ASSUME NEW c, NEW bs, Sits(c, bs), Inner(c)
    PROVE  \E l \in 1 .. Len(c.locals) :
              /\ l = Len(c.locals) /\ c.locals[l].depth = Uninitialized /\ Level(c, l) = c.scopeDepth
              /\ Len(bs) = c.scopeDepth /\ Len(bs) \in Nat /\ Len(bs) > 0
<1>1. c \in Compilers /\ bs \in Seq(Constructs) /\ Named(c, bs) /\ Len(bs) > 0
  BY DEF Sits
<1>2. PICK l \in Nat : l = Len(c.locals)
  BY <1>1, CompilerIs
<1>3. l > 0 /\ c.locals[l].depth = Uninitialized
  BY <1>2 DEF Inner
<1>4. Level(c, l) = c.scopeDepth
  BY <1>3 DEF Level
<1>5. Len(bs) = c.scopeDepth /\ Len(bs) \in Nat
  BY <1>1 DEF Named
<1> QED
  BY <1>1, <1>2, <1>3, <1>4, <1>5

\* A function whose name it is that stands unfinished.
LEMMA UnfinishedIs ==
    ASSUME NEW f \in Seq(Compilers), NEW b \in Seq(Constructs), NEW t, NEW p, Consistent(f, b, t, p),
           NEW l \in 1 .. Len(f) - 1
    PROVE  /\ l \in 1 .. Len(f) /\ l + 1 \in 1 .. Len(f) /\ Inner(f[l]) /\ Sits(f[l], Segment(f, b, p, l))
           /\ f[l].locals[Len(f[l].locals)].var = b[p[l + 1]].self
           /\ f[l].locals[Len(f[l].locals)].name # NoName
           /\ p[l + 1] \in 1 .. Len(b) /\ b[p[l + 1]].kind = "fn"
<1>1. PICK m \in Nat : m = Len(f)
  OBVIOUS
<1>2. l \in 1 .. m /\ l + 1 \in 1 .. m
  BY <1>1
<1>3. Segmented(f, b, p) /\ Nested(f, b, p) /\ Sits(f[l], Segment(f, b, p, l))
  BY <1>1, <1>2 DEF Consistent
<1>4. /\ Inner(f[l]) /\ f[l].locals[Len(f[l].locals)].var = b[p[l + 1]].self
      /\ f[l].locals[Len(f[l].locals)].name # NoName
  BY <1>3 DEF Nested
<1>5. p[l + 1] \in 1 .. Len(b)
  <2>0. PICK k \in 1 .. Len(f) : k = l + 1
    BY <1>1, <1>2
  <2>1. SegmentAt(f, b, p, k)
    BY <1>3, SegmentIs
  <2>2. Len(Segment(f, b, p, k)) > 0
    BY DEF Consistent, Sits
  <2>3. 1 \in 1 .. f[k].scopeDepth
    BY <2>1, <2>2 DEF SegmentAt
  <2>4. p[k] + 1 - 1 \in 1 .. Len(b) /\ p[k] \in Nat
    BY <2>1, <2>3 DEF SegmentAt
  <2>5. \A x \in Nat : x + 1 - 1 = x
    OBVIOUS
  <2> QED
    BY <2>0, <2>4, <2>5
<1>6. b[p[l + 1]].kind = "fn"
  BY <1>1, <1>2, <1>3, <1>5 DEF Segmented
<1> QED
  BY <1>1, <1>2, <1>3, <1>4, <1>5, <1>6

\* The block d is the one at x of function k.
LiesAt(f, b, p, k, x, d) ==
    k \in 1 .. Len(f) /\ SegmentAt(f, b, p, k) /\ x \in 1 .. f[k].scopeDepth /\ d = p[k] + x - 1

LEMMA OneDeclares ==
    ASSUME NEW b, NEW v, DeclaredOnce(b, v), NEW w \in 1 .. Len(b), NEW d \in 1 .. Len(b),
           NEW x \in DOMAIN b[w].decls, NEW n \in DOMAIN b[d].decls, b[w].decls[x] = b[d].decls[n]
    PROVE  w = d /\ x = n
BY DEF DeclaredOnce

LEMMA SegmentsApart ==
    ASSUME NEW f \in Seq(Compilers), NEW b, NEW p, Segmented(f, b, p),
           NEW k, NEW l, NEW x, NEW y, NEW d, LiesAt(f, b, p, k, x, d), LiesAt(f, b, p, l, y, d)
    PROVE  l = k
<1>0. /\ k \in 1 .. Len(f) /\ l \in 1 .. Len(f) /\ SegmentAt(f, b, p, k) /\ SegmentAt(f, b, p, l)
      /\ x \in 1 .. f[k].scopeDepth /\ y \in 1 .. f[l].scopeDepth /\ d = p[k] + x - 1 /\ d = p[l] + y - 1
  BY DEF LiesAt
<1>1. PICK m \in Nat : m = Len(f)
  OBVIOUS
<1>2. \A a, g \in 1 .. m + 1 : a < g => p[a] < p[g]
  BY <1>1 DEF Segmented
<1>3. /\ p[k] \in Nat /\ p[l] \in Nat /\ f[k].scopeDepth \in Nat /\ f[l].scopeDepth \in Nat
      /\ p[k + 1] = p[k] + f[k].scopeDepth /\ p[l + 1] = p[l] + f[l].scopeDepth
  BY <1>0 DEF SegmentAt
<1>4. \A a, g, s \in Nat : g \in 1 .. s => a <= a + g - 1 /\ a + g - 1 < a + s /\ a + g - 1 \in Int
  OBVIOUS
<1>5. p[l] <= d /\ d < p[l + 1] /\ p[k] <= d /\ d < p[k + 1] /\ d \in Int
  <2>1. x \in Nat /\ y \in Nat
    BY <1>0, <1>3
  <2> QED
    BY <1>0, <1>3, <1>4, <2>1
<1>6. k \in 1 .. m /\ l \in 1 .. m
  BY <1>0, <1>1
<1>7. ASSUME NEW i \in 1 .. m, NEW j \in 1 .. m, i < j, d < p[i + 1], p[j] <= d, p[i + 1] \in Int,
             p[j] \in Int
      PROVE  FALSE
  <2>1. i + 1 \in 1 .. m + 1 /\ j \in 1 .. m + 1 /\ (i + 1 < j \/ i + 1 = j)
    BY <1>7
  <2>2. p[i + 1] < p[j] \/ p[i + 1] = p[j]
    BY <1>2, <2>1
  <2>3. \A u, v, w \in Int : w < u /\ v <= w => ~(u < v \/ u = v)
    OBVIOUS
  <2> QED
    BY <1>5, <1>7, <2>2, <2>3
<1>8. p[k + 1] \in Int /\ p[l + 1] \in Int /\ p[k] \in Int /\ p[l] \in Int
  <2>1. \A a, g \in Nat : a + g \in Int /\ a \in Int
    OBVIOUS
  <2> QED
    BY <1>3, <2>1
<1>9. ~(k < l) /\ ~(l < k)
  BY <1>5, <1>6, <1>7, <1>8
<1> QED
  BY <1>6, <1>9

\* A name is refused if it means a function whose end is not reached.
LEMMA RefusesIs ==
    ASSUME NEW f \in Seq(Compilers), NEW b \in Seq(Constructs), NEW t, NEW p, Consistent(f, b, t, p),
           NEW v, DeclaredOnce(b, v), v \in Nat, NEW n \in Nat \ {0}
    PROVE  /\ Refuses(f, n) <=> MeaningIn(b, n) \in Ending(b)
           /\ (IF Holder(f, n) = 0 THEN Temp ELSE Local(f, n).var) = MeaningIn(b, n)
<1>1. PICK k, i, d : Resolved(f, b, p, n, k, i, d)
  BY ResolvedIs
<1>2. PICK m \in Nat : m = Len(f)
  OBVIOUS
<1>3. Segmented(f, b, p) /\ Nested(f, b, p) /\ \A j \in 1 .. m : Sits(f[j], Segment(f, b, p, j))
  BY <1>2 DEF Consistent
<1>4. CASE k = 0
  <2>1. Holder(f, n) = 0 /\ MeaningIn(b, n) = Temp
    BY <1>1, <1>4 DEF Resolved
  <2>2. ~Refuses(f, n)
    BY <2>1 DEF Refuses
  <2>3. MeaningIn(b, n) \notin Ending(b)
    BY <2>1 DEF Ending
  <2> QED
    BY <2>1, <2>2, <2>3
<1>5. CASE k # 0
  <2>1. /\ Holder(f, n) = k /\ k \in 1 .. m /\ i = FindLocal(f[k], n) /\ i \in 1 .. Len(f[k].locals)
        /\ f[k].locals[i].name = n /\ f[k].locals[i].var = MeaningIn(b, n)
        /\ Level(f[k], i) \in 1 .. f[k].scopeDepth /\ d = p[k] + Level(f[k], i) - 1
        /\ d \in 1 .. Len(b) /\ n \in DOMAIN b[d].decls /\ b[d].decls[n] = MeaningIn(b, n)
    BY <1>1, <1>2, <1>5 DEF Resolved
  <2>2. Local(f, n) = f[k].locals[i]
    BY <2>1 DEF Local
  <2>3. Refuses(f, n) <=> f[k].locals[i].depth = Uninitialized
    BY <1>5, <2>1, <2>2 DEF Refuses
  <2>4. Sits(f[k], Segment(f, b, p, k)) /\ Named(f[k], Segment(f, b, p, k)) /\ f[k] \in Compilers
    BY <1>3, <2>1 DEF Sits
  <2>5. MeaningIn(b, n) # Temp
    <3>1. b[d].decls[n] \in 1 .. v
      BY <2>1 DEF DeclaredOnce
    <3> QED
      BY <2>1, <3>1 DEF Temp
  <2>6. PICK l \in Nat : l = Len(f[k].locals)
    BY <2>4, CompilerIs
  <2>7. ASSUME f[k].locals[i].depth = Uninitialized PROVE MeaningIn(b, n) \in Ending(b)
    <3>1. i = l
      <4>1. \A x, y \in 1 .. l : x < y => f[k].locals[x].depth # Uninitialized
        BY <2>4, <2>6 DEF Named
      <4>2. i < l => i \in 1 .. l /\ l \in 1 .. l
        BY <2>1, <2>6
      <4>3. ~(i < l)
        BY <2>7, <4>1, <4>2
      <4>4. \A x \in 1 .. l : ~(x < l) => x = l
        OBVIOUS
      <4>5. i \in 1 .. l
        BY <2>1, <2>6
      <4> QED
        BY <4>3, <4>4, <4>5
    <3>2. Inner(f[k])
      BY <2>1, <2>6, <2>7, <3>1 DEF Inner
    <3>3. k # m
      BY <1>2, <1>3, <3>2 DEF Nested
    <3>4. k \in 1 .. Len(f) - 1
      BY <1>2, <2>1, <3>3
    <3>5. /\ f[k].locals[l].var = b[p[k + 1]].self /\ p[k + 1] \in 1 .. Len(b) /\ b[p[k + 1]].kind = "fn"
      BY <2>6, <3>4, UnfinishedIs
    <3> QED
      BY <2>1, <2>5, <3>1, <3>5, SMTT(30) DEF Ending
  <2>8. ASSUME MeaningIn(b, n) \in Ending(b) PROVE f[k].locals[i].depth = Uninitialized
    <3>1. PICK e \in 1 .. Len(b) : b[e].kind = "fn" /\ b[e].self = MeaningIn(b, n)
      BY <2>8 DEF Ending
    <3>2. PICK j \in 1 .. m : e = p[j]
      BY <1>2, <1>3, <3>1 DEF Segmented
    <3>3. j # 1
      <4>1. p[1] = 1 /\ b[1].self = Temp
        BY <1>3 DEF Segmented, Nested
      <4> QED
        BY <2>5, <3>1, <3>2, <4>1
    <3>4. PICK y \in 1 .. Len(f) - 1 : j = y + 1
      <4>1. j - 1 \in 1 .. m - 1 /\ j = (j - 1) + 1
        BY <3>3
      <4> QED
        BY <1>2, <4>1
    <3>5. /\ y \in 1 .. m /\ Inner(f[y]) /\ Sits(f[y], Segment(f, b, p, y))
          /\ f[y].locals[Len(f[y].locals)].var = b[e].self
          /\ f[y].locals[Len(f[y].locals)].name # NoName
      BY <1>2, <3>2, <3>4, UnfinishedIs
    <3>6. PICK z \in 1 .. Len(f[y].locals) :
             /\ z = Len(f[y].locals) /\ f[y].locals[z].depth = Uninitialized
             /\ Level(f[y], z) = f[y].scopeDepth
             /\ Len(Segment(f, b, p, y)) = f[y].scopeDepth /\ Len(Segment(f, b, p, y)) \in Nat
             /\ Len(Segment(f, b, p, y)) > 0
      BY <3>5, InnerIs
    <3>7. PICK h \in Nat : h = f[y].scopeDepth /\ h > 0 /\ h \in 1 .. h
      BY <3>6
    <3>8. PICK w : w = p[y] + h - 1
      OBVIOUS
    <3>9. SegmentAt(f, b, p, y)
      BY <1>2, <1>3, <3>5, SegmentIs
    <3>10. w \in 1 .. Len(b) /\ Segment(f, b, p, y)[h] = b[w]
      BY <3>7, <3>8, <3>9 DEF SegmentAt
    <3>11. PICK x : x = f[y].locals[z].name
      OBVIOUS
    <3>12. x \in DOMAIN b[w].decls /\ b[w].decls[x] = MeaningIn(b, n)
      <4>1. Named(f[y], Segment(f, b, p, y))
        BY <3>5 DEF Sits
      <4>2. /\ x \in DOMAIN Segment(f, b, p, y)[Level(f[y], z)].decls
            /\ Segment(f, b, p, y)[Level(f[y], z)].decls[x] = f[y].locals[z].var
        BY <4>1, <3>5, <3>6, <3>11 DEF Named
      <4> QED
        BY <3>1, <3>5, <3>6, <3>7, <3>10, <4>2
    <3>13. w = d /\ x = n
      <4>1. /\ w \in 1 .. Len(b) /\ d \in 1 .. Len(b)
            /\ x \in DOMAIN b[w].decls /\ n \in DOMAIN b[d].decls
            /\ b[w].decls[x] = b[d].decls[n]
        BY <2>1, <3>10, <3>12
      <4> QED
        BY <4>1, OneDeclares
    <3>14. y = k
      <4>1. SegmentAt(f, b, p, k) /\ SegmentAt(f, b, p, y)
        BY <1>2, <1>3, <2>1, <3>9, SegmentIs
      <4>2. LiesAt(f, b, p, y, h, w)
        BY <1>2, <3>5, <3>7, <3>8, <4>1 DEF LiesAt
      <4>3. LiesAt(f, b, p, k, Level(f[k], i), w)
        BY <1>2, <2>1, <3>13, <4>1 DEF LiesAt
      <4> QED
        BY <1>3, <4>2, <4>3, SegmentsApart
    <3>15. Level(f[k], i) = Level(f[k], z)
      <4>1. PICK q \in Nat : q = Level(f[k], i)
        BY <2>1
      <4>2. PICK a \in Nat : a = p[k]
        BY <3>9, <3>14 DEF SegmentAt
      <4>3. a + q - 1 = a + h - 1
        BY <2>1, <3>8, <3>13, <3>14, <4>1, <4>2
      <4>4. \A x1, x2, x3 \in Nat : x1 + x2 - 1 = x1 + x3 - 1 => x2 = x3
        OBVIOUS
      <4>5. q = h
        BY <4>3, <4>4
      <4>6. Level(f[y], z) = h
        BY <3>6, <3>7
      <4> QED
        BY <3>14, <4>1, <4>5, <4>6
    <3>16. i = z
      <4>1. n # NoName
        BY DEF NoName
      <4>2. \A u, s \in 1 .. l : u # s /\ f[k].locals[u].name = f[k].locals[s].name
                 /\ f[k].locals[u].name # NoName => Level(f[k], u) # Level(f[k], s)
        BY <2>4, <2>6 DEF Named
      <4>3. z \in 1 .. l /\ f[k].locals[z].name = n
        BY <2>6, <3>6, <3>11, <3>13, <3>14
      <4>4. i \in 1 .. l /\ f[k].locals[i].name = n
        BY <2>1, <2>6
      <4> QED
        BY <3>15, <4>1, <4>2, <4>3, <4>4
    <3> QED
      BY <3>6, <3>14, <3>16
  <2> QED
    BY <1>5, <2>1, <2>2, <2>3, <2>7, <2>8
<1> QED
  BY <1>1, <1>4, <1>5

\* A scope that has the name.
LEMMA ClashesIs ==
    ASSUME NEW c, NEW bs, Here(c, bs), NEW n \in Nat \ {0}
    PROVE  Clashes(c, n) <=> n \in DOMAIN bs[Len(bs)].decls
<1>1. /\ c \in Compilers /\ ~Inner(c) /\ Sorted(c) /\ Named(c, bs) /\ Len(bs) = c.scopeDepth
      /\ c.scopeDepth \in Nat /\ c.scopeDepth > 0
  BY HereIs
<1>2. PICK m \in Nat : m = Len(c.locals) /\ DOMAIN c.locals = 1 .. m
  BY <1>1, CompilerIs
<1>3. PICK s \in Nat : s = c.scopeDepth /\ s > 0 /\ s \in 1 .. s
  BY <1>1
<1>4. \A i \in 1 .. m : c.locals[i].depth # Uninitialized /\ c.locals[i].depth \in 1 .. s
  BY <1>1, <1>2, <1>3, FullBase
<1>5. \A i \in 1 .. m : Level(c, i) = c.locals[i].depth
  BY <1>4 DEF Level
<1>6. \A i \in 1 .. m : c.locals[i].depth \notin 0 .. c.scopeDepth - 1 <=> c.locals[i].depth = s
  <2>1. \A x \in 1 .. s : x \notin 0 .. s - 1 <=> x = s
    BY <1>3
  <2> QED
    BY <1>3, <1>4, <2>1
<1>7. ASSUME Clashes(c, n) PROVE n \in DOMAIN bs[s].decls
  <2>1. PICK i \in 1 .. m : c.locals[i].name = n
                        /\ \A k \in i .. Len(c.locals) : c.locals[k].depth \notin 0 .. c.scopeDepth - 1
    BY <1>2, <1>7 DEF Clashes
  <2>2. i \in i .. Len(c.locals)
    BY <1>2, <2>1
  <2>3. Level(c, i) = s
    BY <1>5, <1>6, <2>1, <2>2
  <2>4. n # NoName
    BY DEF NoName
  <2> QED
    BY <1>1, <1>2, <2>1, <2>3, <2>4 DEF Named
<1>8. ASSUME n \in DOMAIN bs[s].decls PROVE Clashes(c, n)
  <2>1. PICK i \in 1 .. m : Level(c, i) = s /\ c.locals[i].name = n
    BY <1>1, <1>2, <1>3, <1>8 DEF Named
  <2>2. ASSUME NEW k \in i .. Len(c.locals) PROVE c.locals[k].depth \notin 0 .. c.scopeDepth - 1
    <3>1. k \in 1 .. m /\ (i < k \/ i = k)
      BY <1>2, <2>1, <2>2
    <3>2. i < k => c.locals[i].depth <= c.locals[k].depth
      BY <1>1, <1>2, <1>4, <3>1 DEF Sorted
    <3>3. c.locals[i].depth = s /\ c.locals[k].depth \in 1 .. s
      BY <1>4, <1>5, <2>1, <3>1
    <3>4. c.locals[k].depth = s
      BY <3>1, <3>2, <3>3
    <3> QED
      BY <1>6, <3>1, <3>4
  <2> QED
    BY <1>2, <2>1, <2>2 DEF Clashes
<1> QED
  BY <1>1, <1>3, <1>7, <1>8

-----------------------------------------------------------------------------
(* Upvalues                                                                *)

\* What resolves the local i of function k, from the functions after it.
Chain(f, k, i, u) ==
    \A l \in k + 1 .. Len(f) :
        u[l] = IF l = k + 1 THEN [index |-> i, isLocal |-> TRUE]
               ELSE [index |-> UpvalueIndex(f[l - 1], u[l - 1]), isLocal |-> FALSE]

LEMMA ChainIs ==
    ASSUME NEW f, Len(f) \in Nat, NEW k \in Nat, NEW i
    PROVE  Chain(f, k, i, Upvalues(f, k, i))
<1>1. PICK n \in Nat : n = Len(f)
  OBVIOUS
<1> DEFINE S(m) == {l \in k + 1 .. n : l <= m}
           At(u, l) == IF l = k + 1 THEN [index |-> i, isLocal |-> TRUE]
                       ELSE [index |-> UpvalueIndex(f[l - 1], u[l - 1]), isLocal |-> FALSE]
           P == {m \in Nat : \E u : \A l \in S(m) : u[l] = At(u, l)}
<1>2. P = Nat
  <2>1. P \in SUBSET Nat
    OBVIOUS
  <2>2. 0 \in P
    <3>1. S(0) = {}
      OBVIOUS
    <3> QED
      BY <3>1
  <2>3. ASSUME NEW m \in P PROVE m + 1 \in P
    <3>1. PICK u : \A l \in S(m) : u[l] = At(u, l)
      OBVIOUS
    <3>2. PICK v : v = [l \in k + 1 .. n |-> IF l <= m THEN u[l] ELSE At(u, l)]
      OBVIOUS
    <3>3. ASSUME NEW l \in S(m + 1) PROVE v[l] = At(v, l)
      <4>1. l \in k + 1 .. n /\ l \in Nat /\ (l <= m \/ l = m + 1)
        OBVIOUS
      <4>2. v[l] = At(u, l)
        <5>1. l <= m => u[l] = At(u, l)
          BY <3>1, <4>1
        <5>2. v[l] = IF l <= m THEN u[l] ELSE At(u, l)
          BY <3>2, <4>1
        <5> HIDE DEF At, S, P
        <5> QED
          BY <5>1, <5>2
      <4>3. l # k + 1 => l - 1 \in k + 1 .. n /\ l - 1 <= m
        BY <4>1
      <4>4. l # k + 1 => v[l - 1] = u[l - 1]
        BY <3>2, <4>3
      <4>5. At(v, l) = At(u, l)
        BY <4>4
      <4> QED
        BY <4>2, <4>5
    <3>4. \E w : \A l \in S(m + 1) : w[l] = At(w, l)
      <4> HIDE DEF S, At
      <4> QED
        BY <3>3
    <3>5. m + 1 \in Nat
      OBVIOUS
    <3> QED
      BY <3>4, <3>5
  <2> HIDE DEF P
  <2> QED
    BY <2>1, <2>2, <2>3, AllNaturals
<1>3. PICK u : \A l \in k + 1 .. n : u[l] = At(u, l)
  <2>1. n \in P
    BY <1>2
  <2>2. S(n) = k + 1 .. n
    OBVIOUS
  <2> QED
    BY <2>1, <2>2
<1> DEFINE F(g) == [l \in k + 1 .. Len(f) |->
                      IF l = k + 1 THEN [index |-> i, isLocal |-> TRUE]
                      ELSE [index |-> UpvalueIndex(f[l - 1], g[l - 1]), isLocal |-> FALSE]]
<1>4. PICK w : w = [l \in k + 1 .. n |-> u[l]]
  OBVIOUS
<1>5. w = F(w)
  <2>1. ASSUME NEW l \in k + 1 .. n PROVE w[l] = At(w, l)
    <3>1. w[l] = At(u, l)
      BY <1>3, <1>4
    <3>2. l # k + 1 => l - 1 \in k + 1 .. n
      OBVIOUS
    <3>3. l # k + 1 => w[l - 1] = u[l - 1]
      BY <1>4, <3>2
    <3> QED
      BY <3>1, <3>3
  <2>2. w = [l \in k + 1 .. n |-> At(w, l)]
    BY <1>4, <2>1
  <2> QED
    BY <1>1, <2>2
<1>6. Upvalues(f, k, i) = CHOOSE g : g = F(g)
  BY DEF Upvalues
<1>7. PICK x : x = Upvalues(f, k, i)
  OBVIOUS
<1>8. x = F(x)
  <2> HIDE DEF F
  <2> QED
    BY <1>5, <1>6, <1>7
<1>9. \A l \in k + 1 .. Len(f) : x[l] = F(x)[l]
  BY <1>8
<1>10. \A l \in k + 1 .. Len(f) : F(x)[l] = At(x, l)
  OBVIOUS
<1> QED
  BY <1>7, <1>9, <1>10 DEF Chain

\* The index of the upvalue u of c, once it has it.
LEMMA UpvalueIndexIs ==
    ASSUME NEW c \in Compilers, NEW u
    PROVE  /\ UpvalueIndex(c, u) \in 1 .. Len(c.upvalues) + 1
           /\ UpvalueIndex(c, u) \in 1 .. Len(c.upvalues) => c.upvalues[UpvalueIndex(c, u)] = u
           /\ UpvalueIndex(c, u) \notin 1 .. Len(c.upvalues) => UpvalueIndex(c, u) = Len(c.upvalues) + 1
<1>1. PICK n \in Nat : n = Len(c.upvalues) /\ DOMAIN c.upvalues = 1 .. n
  BY CompilerIs
<1>2. PICK S : S = {i \in 1 .. n : c.upvalues[i] = u}
  OBVIOUS
<1>3. PICK x : x = UpvalueIndex(c, u)
  OBVIOUS
<1>4. x = IF S = {} THEN n + 1 ELSE Min(S)
  BY <1>1, <1>2, <1>3 DEF UpvalueIndex
<1>5. CASE S = {}
  <2>1. x = n + 1 /\ n + 1 \in 1 .. n + 1 /\ n + 1 \notin 1 .. n
    BY <1>4, <1>5
  <2> QED
    BY <1>1, <1>3, <2>1
<1>6. CASE S # {}
  <2>1. S \in SUBSET Nat
    BY <1>2
  <2>2. x \in S
    BY <1>4, <1>6, <2>1, LeastIs
  <2>3. x \in 1 .. n /\ c.upvalues[x] = u /\ x \in 1 .. n + 1
    BY <1>2, <2>2
  <2> QED
    BY <1>1, <1>3, <2>3
<1> QED
  BY <1>5, <1>6

\* e is c, with more of its locals captured, or more upvalues.
Quiet(c, e) ==
    /\ e \in Compilers /\ SameLocals(c, e) /\ e.code = c.code /\ e.params = c.params
    /\ CapturedSlots(c) \subseteq CapturedSlots(e)

LEMMA QuietIs ==
    ASSUME NEW c, NEW bs, Sits(c, bs), NEW e, Quiet(c, e)
    PROVE  Sits(e, bs) /\ Leads(c, bs, e, bs) /\ (Inner(e) <=> Inner(c))
<1>1. c \in Compilers /\ bs \in Seq(Constructs) /\ Named(c, bs) /\ Len(bs) > 0
  BY DEF Sits
<1>2. /\ e \in Compilers /\ SameLocals(c, e) /\ e.code = c.code /\ e.params = c.params
      /\ CapturedSlots(c) \subseteq CapturedSlots(e)
  BY DEF Quiet
<1>3. Named(e, bs) /\ (Inner(e) <=> Inner(c))
  <2>1. \A d \in 1 .. Len(bs) : bs[d].decls = bs[d].decls
    OBVIOUS
  <2> QED
    BY <1>1, <1>2, <2>1, NamedSame
<1>4. Sorted(c) /\ Sorted(e)
  BY <1>1, <1>2, <1>3, NamedIsSorted
<1>5. PICK s \in Nat : s = c.scopeDepth /\ s = Len(bs) /\ e.scopeDepth = s
  BY <1>1, <1>2, NamedIs DEF SameLocals
<1>6. \A d \in 1 .. Len(bs) : d - 1 <= s /\ (bs[d].kind = "match" => d <= s)
  BY <1>5
<1>7. Fits(c, bs)
  BY <1>1, <1>4, <1>5, <1>6 DEF Fits
<1>8. ASSUME NEW d \in Nat PROVE Base(e, d) = Base(c, d) /\ Slots(e, d) = Slots(c, d)
  <2>1. \A i \in 1 .. Len(c.locals) : c.locals[i].depth \in 1 .. d =>
               /\ i \in 1 .. Len(e.locals) /\ e.locals[i].depth \in 1 .. d
               /\ e.locals[i].var = c.locals[i].var
    BY <1>2 DEF SameLocals
  <2>2. \A i \in 1 .. Len(e.locals) : e.locals[i].depth \in 1 .. d =>
               i \in 1 .. Len(c.locals) /\ c.locals[i].depth \in 1 .. d
    BY <1>2 DEF SameLocals
  <2> QED
    BY <1>1, <1>2, <1>4, <2>1, <2>2, SameSlots
<1>9. SameUpTo(c, e, s) /\ Slots(e, e.scopeDepth) = Slots(c, c.scopeDepth)
  <2>1. \A d \in 0 .. s : d \in Nat
    OBVIOUS
  <2> QED
    BY <1>5, <1>8, <2>1 DEF SameUpTo
<1>10. CapturedSlots(c) \cap 1 .. Base(c, c.scopeDepth) \subseteq CapturedSlots(e)
  BY <1>2
<1>11. Leads(c, bs, e, bs)
  BY <1>2, <1>4, <1>6, <1>7, <1>9, <1>10, NoCodeLeads
<1> QED
  BY <1>1, <1>2, <1>3, <1>11 DEF Sits

LEMMA QuietSame ==
    ASSUME NEW c \in Compilers, NEW e \in Compilers, e.locals = c.locals, e.scopeDepth = c.scopeDepth,
           e.code = c.code, e.params = c.params
    PROVE  Quiet(c, e)
<1>1. SameLocals(c, e)
  BY DEF SameLocals
<1>2. CapturedSlots(c) \subseteq CapturedSlots(e)
  BY DEF CapturedSlots
<1> QED
  BY <1>1, <1>2 DEF Quiet

\* e is c, which has the upvalue u now.
HasUpvalue(c, e, u) ==
    /\ Quiet(c, e)
    /\ UpvalueIndex(c, u) \in 1 .. Len(c.upvalues) => e.upvalues = c.upvalues
    /\ UpvalueIndex(c, u) \notin 1 .. Len(c.upvalues) => e.upvalues = Append(c.upvalues, u)

LEMMA AddUpvalueIs ==
    ASSUME NEW c \in Compilers, NEW u \in UpvalueRefs
    PROVE  HasUpvalue(c, AddUpvalue(c, u), u)
<1>1. c.upvalues \in Seq(UpvalueRefs) /\ DOMAIN c.upvalues = 1 .. Len(c.upvalues)
  BY CompilerIs
<1>2. PICK e : e = AddUpvalue(c, u)
  OBVIOUS
<1>3. CASE UpvalueIndex(c, u) \in 1 .. Len(c.upvalues)
  <2>1. e = c
    BY <1>1, <1>2, <1>3 DEF AddUpvalue
  <2> QED
    BY <1>2, <1>3, <2>1, QuietSame DEF HasUpvalue
<1>4. CASE UpvalueIndex(c, u) \notin 1 .. Len(c.upvalues)
  <2>1. e = [c EXCEPT !.upvalues = Append(@, u)]
    BY <1>1, <1>2, <1>4 DEF AddUpvalue
  <2>2. PICK s : s = Append(c.upvalues, u)
    OBVIOUS
  <2>3. s \in Seq(UpvalueRefs)
    BY <1>1, <2>2
  <2>4. e = [c EXCEPT !.upvalues = s]
    BY <2>1, <2>2 DEF Compilers
  <2>5. /\ e \in Compilers /\ e.upvalues = s /\ e.locals = c.locals /\ e.scopeDepth = c.scopeDepth
        /\ e.code = c.code /\ e.params = c.params
    BY <2>3, <2>4 DEF Compilers
  <2>6. Quiet(c, e)
    BY <2>5, QuietSame
  <2> QED
    BY <1>2, <1>4, <2>2, <2>5, <2>6 DEF HasUpvalue
<1> QED
  BY <1>3, <1>4

\* e is c, whose local i is captured now.
HasCaptured(c, e, i) ==
    Quiet(c, e) /\ e.upvalues = c.upvalues /\ e.locals[i].captured = TRUE

LEMMA CapturedIs ==
    ASSUME NEW c \in Compilers, NEW i \in 1 .. Len(c.locals)
    PROVE  HasCaptured(c, [c EXCEPT !.locals[i].captured = TRUE], i)
<1> DEFINE e == [c EXCEPT !.locals[i].captured = TRUE]
           n == Len(c.locals)
           x == [c.locals[i] EXCEPT !.captured = TRUE]
           s == [c.locals EXCEPT ![i] = x]
<1>1. i \in 1 .. n /\ c.locals \in Seq(Locals) /\ c.locals[i] \in Locals
  BY CompilerIs
<1>2. PICK y \in Locals : y = c.locals[i]
  BY <1>1
<1>3. [y EXCEPT !.captured = TRUE] =
         [name |-> y.name, var |-> y.var, depth |-> y.depth, captured |-> TRUE]
  <2>1. PICK a, b, d, t : a = y.name /\ b = y.var /\ d = y.depth /\ t = TRUE
    OBVIOUS
  <2>2. y = [name |-> a, var |-> b, depth |-> d, captured |-> y.captured]
    BY <2>1, LocalIs
  <2>3. \A g : [[name |-> a, var |-> b, depth |-> d, captured |-> g] EXCEPT !.captured = t]
              = [name |-> a, var |-> b, depth |-> d, captured |-> t]
    OBVIOUS
  <2>4. [y EXCEPT !.captured = t] = [name |-> a, var |-> b, depth |-> d, captured |-> t]
    BY <2>2, <2>3, Zenon
  <2> QED
    BY <2>1, <2>4, Zenon
<1>4. y.name \in Nat /\ y.var \in Nat /\ y.depth \in Int
  BY LocalIs
<1>5. PICK z : z = [name |-> y.name, var |-> y.var, depth |-> y.depth, captured |-> TRUE]
  OBVIOUS
<1>6. z \in Locals
  BY <1>1, <1>4, <1>5 DEF Locals
<1>7. z.name = y.name /\ z.var = y.var /\ z.depth = y.depth /\ z.captured = TRUE
  BY <1>5
<1>8. x = z
  BY <1>2, <1>3, <1>5, Zenon
<1> HIDE DEF x
<1>9. /\ s \in Seq(Locals) /\ Len(s) = n
      /\ \A j \in 1 .. n : s[j] = IF j = i THEN x ELSE c.locals[j]
  BY <1>1, <1>6, <1>8, ExceptSeq
<1>10. e = [c EXCEPT !.locals = s]
  BY <1>1, Zenon DEF x, Compilers
<1> HIDE DEF s
<1>11. /\ e.locals = s /\ e \in Compilers
       /\ e.code = c.code /\ e.upvalues = c.upvalues /\ e.scopeDepth = c.scopeDepth
       /\ e.params = c.params
  BY <1>9, <1>10 DEF Compilers
<1> HIDE DEF e
<1>12. s[i] = z /\ \A j \in 1 .. n : j # i => s[j] = c.locals[j]
  BY <1>1, <1>8, <1>9
<1>13. ASSUME NEW j \in 1 .. n
       PROVE  /\ s[j].name = c.locals[j].name /\ s[j].var = c.locals[j].var
              /\ s[j].depth = c.locals[j].depth
              /\ c.locals[j].captured = TRUE => s[j].captured = TRUE
  BY <1>2, <1>7, <1>12
<1>14. SameLocals(c, e)
  BY <1>9, <1>11, <1>13 DEF SameLocals
<1>15. CapturedSlots(c) \subseteq CapturedSlots(e)
  BY <1>9, <1>11, <1>13 DEF CapturedSlots
<1>16. Quiet(c, e)
  BY <1>11, <1>14, <1>15 DEF Quiet
<1> QED
  BY <1>7, <1>11, <1>12, <1>16 DEF HasCaptured, e

\* g is what a closure of the last function makes of f, when it captures the local i of function k.
Captures(f, k, i, u, g) ==
    /\ g \in Seq(Compilers) /\ Len(g) = Len(f)
    /\ Chain(f, k, i, u)
    /\ \A l \in 1 .. Len(f) : l < k => g[l] = f[l]
    /\ HasCaptured(f[k], g[k], i)
    /\ \A l \in 1 .. Len(f) : l > k => u[l] \in UpvalueRefs /\ HasUpvalue(f[l], g[l], u[l])

\* The descriptor at l is one of those.
LinkAt(f, k, i, u, l) ==
    /\ l = k + 1 => u[l].index = i /\ u[l].isLocal = TRUE
    /\ l # k + 1 => /\ l - 1 \in 1 .. Len(f) /\ l - 1 > k
                    /\ u[l].index = UpvalueIndex(f[l - 1], u[l - 1]) /\ u[l].isLocal = FALSE
    /\ u[l] \in UpvalueRefs

LEMMA ChainRefs ==
    ASSUME NEW f \in Seq(Compilers), NEW k \in 1 .. Len(f), NEW i \in Nat, NEW u, Chain(f, k, i, u),
           NEW l \in 1 .. Len(f), l > k
    PROVE  LinkAt(f, k, i, u, l)
<1>1. PICK n \in Nat : n = Len(f)
  OBVIOUS
<1>2. l \in k + 1 .. n /\ (l # k + 1 => l - 1 \in 1 .. n /\ l - 1 > k)
  BY <1>1
<1>3. u[l] = IF l = k + 1 THEN [index |-> i, isLocal |-> TRUE]
             ELSE [index |-> UpvalueIndex(f[l - 1], u[l - 1]), isLocal |-> FALSE]
  BY <1>1, <1>2 DEF Chain
<1>4. CASE l = k + 1
  <2>1. u[l] = [index |-> i, isLocal |-> TRUE]
    BY <1>3, <1>4
  <2>2. u[l] \in UpvalueRefs /\ u[l].index = i /\ u[l].isLocal = TRUE
    BY <2>1 DEF UpvalueRefs
  <2> QED
    BY <1>4, <2>2 DEF LinkAt
<1>5. CASE l # k + 1
  <2>1. PICK x : x = UpvalueIndex(f[l - 1], u[l - 1])
    OBVIOUS
  <2>2. x \in Nat
    <3>1. f[l - 1] \in Compilers
      BY <1>1, <1>2, <1>5
    <3>2. x \in 1 .. Len(f[l - 1].upvalues) + 1
      BY <2>1, <3>1, UpvalueIndexIs
    <3> QED
      BY <3>2
  <2>3. u[l] = [index |-> x, isLocal |-> FALSE]
    BY <1>3, <1>5, <2>1
  <2>4. u[l] \in UpvalueRefs /\ u[l].index = x /\ u[l].isLocal = FALSE
    BY <2>2, <2>3 DEF UpvalueRefs
  <2> QED
    BY <1>1, <1>2, <1>5, <2>1, <2>4 DEF LinkAt
<1> QED
  BY <1>4, <1>5 DEF LinkAt

LEMMA CapturesIs ==
    ASSUME NEW f \in Seq(Compilers), NEW k \in 1 .. Len(f), NEW i \in 1 .. Len(f[k].locals)
    PROVE  Captures(f, k, i, Upvalues(f, k, i), Capture(f, k, i))
<1>1. PICK n \in Nat : n = Len(f) /\ DOMAIN f = 1 .. n
  OBVIOUS
<1>2. PICK u : u = Upvalues(f, k, i)
  OBVIOUS
<1>3. Chain(f, k, i, u)
  BY <1>1, <1>2, ChainIs
<1>4. PICK g : g = Capture(f, k, i)
  OBVIOUS
<1>5. PICK x : x = [f[k] EXCEPT !.locals[i].captured = TRUE]
  OBVIOUS
<1>6. g = [l \in 1 .. n |-> CASE l < k -> f[l] [] l = k -> x [] l > k -> AddUpvalue(f[l], u[l])]
  BY <1>1, <1>2, <1>4, <1>5 DEF Capture
<1>7. \A l \in 1 .. n : /\ l < k => g[l] = f[l]
                        /\ l = k => g[l] = x
                        /\ l > k => g[l] = AddUpvalue(f[l], u[l])
  BY <1>1, <1>6
<1>8. i \in Nat /\ k \in 1 .. n
  BY <1>1
<1>9. HasCaptured(f[k], g[k], i)
  <2>1. f[k] \in Compilers
    OBVIOUS
  <2>2. HasCaptured(f[k], x, i)
    BY <1>5, <2>1, CapturedIs
  <2> QED
    BY <1>7, <1>8, <2>2
<1>10. ASSUME NEW l \in 1 .. n, l > k PROVE u[l] \in UpvalueRefs /\ HasUpvalue(f[l], g[l], u[l])
  <2>1. f[l] \in Compilers
    BY <1>1
  <2>2. u[l] \in UpvalueRefs
    BY <1>1, <1>3, <1>8, <1>10, ChainRefs DEF LinkAt
  <2> QED
    BY <1>7, <1>10, <2>1, <2>2, AddUpvalueIs
<1>11. g \in Seq(Compilers) /\ Len(g) = n
  <2>1. ASSUME NEW l \in 1 .. n PROVE g[l] \in Compilers
    <3>1. f[l] \in Compilers /\ (l < k \/ l = k \/ l > k)
      BY <1>1
    <3>2. l = k => g[l] \in Compilers
      BY <1>9 DEF HasCaptured, Quiet
    <3>3. l > k => g[l] \in Compilers
      BY <1>10 DEF HasUpvalue, Quiet
    <3> QED
      BY <1>7, <3>1, <3>2, <3>3
  <2>2. g \in [1 .. n -> Compilers]
    BY <1>6, <2>1
  <2> QED
    BY <2>2, FunctionIsSeq
<1> QED
  BY <1>1, <1>2, <1>3, <1>4, <1>7, <1>9, <1>10, <1>11 DEF Captures

LEMMA QuietLocals ==
    ASSUME NEW c \in Compilers, NEW e, Quiet(c, e), NEW j \in 1 .. Len(c.locals)
    PROVE  /\ j \in 1 .. Len(e.locals) /\ e.locals[j].var = c.locals[j].var
           /\ e.locals[j].depth = c.locals[j].depth
           /\ c.locals[j].captured = TRUE => e.locals[j].captured = TRUE
<1>1. Len(e.locals) = Len(c.locals) /\ e.locals[j].var = c.locals[j].var
      /\ e.locals[j].depth = c.locals[j].depth
  BY DEF Quiet, SameLocals
<1>2. ASSUME c.locals[j].captured = TRUE PROVE e.locals[j].captured = TRUE
  <2>1. j \in CapturedSlots(c)
    BY <1>2 DEF CapturedSlots
  <2>2. j \in CapturedSlots(e)
    BY <2>1 DEF Quiet
  <2> QED
    BY <2>2 DEF CapturedSlots
<1> QED
  BY <1>1, <1>2

\* The upvalues of function l, in g, are those in f, or also u, which stands for v; x is its index.
MoreUpvalues(f, g, D, E, u, v, k, l, x) ==
    /\ E[l] \in Seq(Nat) /\ Len(E[l]) = Len(g[l].upvalues)
    /\ \A j \in 1 .. Len(f[l].upvalues) :
          /\ j \in 1 .. Len(g[l].upvalues)
          /\ g[l].upvalues[j] = f[l].upvalues[j] /\ E[l][j] = D[l][j]
    /\ \A j \in 1 .. Len(g[l].upvalues) :
          j \in 1 .. Len(f[l].upvalues) \/ (l > k /\ j = x /\ g[l].upvalues[j] = u /\ E[l][j] = v)
    /\ l > k => x \in 1 .. Len(g[l].upvalues)
    /\ l > k /\ x \in 1 .. Len(f[l].upvalues) => f[l].upvalues[x] = u
    /\ l > k /\ x \notin 1 .. Len(f[l].upvalues) => E[l][x] = v

LEMMA MoreUpvaluesIs ==
    ASSUME NEW f \in Seq(Compilers), NEW g, NEW k \in 1 .. Len(f), NEW i, NEW u, Captures(f, k, i, u, g),
           NEW D, UpvaluesDenote(f, D), NEW v \in Nat, NEW l \in 1 .. Len(f), NEW E,
           E[l] = IF Len(g[l].upvalues) = Len(f[l].upvalues) THEN D[l] ELSE Append(D[l], v)
    PROVE  MoreUpvalues(f, g, D, E, u[l], v, k, l, UpvalueIndex(f[l], u[l]))
<1>1. f[l] \in Compilers /\ D[l] \in Seq(Nat) /\ Len(D[l]) = Len(f[l].upvalues)
  BY DEF UpvaluesDenote
<1>2. PICK m \in Nat : m = Len(f[l].upvalues)
  BY <1>1
<1>3. f[l].upvalues \in Seq(UpvalueRefs)
  BY <1>1, CompilerIs
<1>4. l \in Nat /\ k \in Nat
  OBVIOUS
<1>5. CASE ~(l > k)
  <2>1. g[l].upvalues = f[l].upvalues
    <3>1. l < k \/ l = k
      BY <1>4, <1>5
    <3>2. l < k => g[l] = f[l]
      BY DEF Captures
    <3>3. g[k].upvalues = f[k].upvalues
      BY DEF Captures, HasCaptured
    <3> QED
      BY <3>1, <3>2, <3>3
  <2>2. E[l] = D[l]
    BY <2>1
  <2> QED
    BY <1>1, <1>5, <2>1, <2>2 DEF MoreUpvalues
<1>6. CASE l > k
  <2>1. PICK x, y : x = UpvalueIndex(f[l], u[l]) /\ y = u[l]
    OBVIOUS
  <2>2. /\ x \in 1 .. m + 1
        /\ x \in 1 .. m => f[l].upvalues[x] = y
        /\ x \notin 1 .. m => x = m + 1
    BY <1>1, <1>2, <2>1, UpvalueIndexIs
  <2>3. /\ y \in UpvalueRefs
        /\ x \in 1 .. m => g[l].upvalues = f[l].upvalues
        /\ x \notin 1 .. m => g[l].upvalues = Append(f[l].upvalues, y)
    BY <1>2, <1>6, <2>1 DEF Captures, HasUpvalue
  <2>4. CASE x \in 1 .. m
    <3>1. g[l].upvalues = f[l].upvalues /\ E[l] = D[l]
      BY <2>3, <2>4
    <3> QED
      BY <1>1, <1>2, <1>6, <2>1, <2>2, <2>4, <3>1 DEF MoreUpvalues
  <2>5. CASE x \notin 1 .. m
    <3>1. PICK s, r : s = g[l].upvalues /\ r = f[l].upvalues
      OBVIOUS
    <3>2. s = Append(r, y) /\ r \in Seq(UpvalueRefs) /\ Len(r) = m /\ x = m + 1
      BY <1>2, <1>3, <2>2, <2>3, <2>5, <3>1
    <3>3. Len(s) = m + 1 /\ s[m + 1] = y /\ \A j \in 1 .. m : s[j] = r[j]
      <4>1. y \in UpvalueRefs
        BY <2>3
      <4>2. /\ Len(Append(r, y)) = Len(r) + 1 /\ Append(r, y)[Len(r) + 1] = y
            /\ \A j \in 1 .. Len(r) : Append(r, y)[j] = r[j]
        BY <3>2, <4>1, AppendProperties
      <4> QED
        BY <3>2, <4>2
    <3>4. m + 1 # m /\ m + 1 \in 1 .. m + 1 /\ (\A j \in 1 .. m : j \in 1 .. m + 1)
          /\ \A j \in 1 .. m + 1 : j \in 1 .. m \/ j = m + 1
      OBVIOUS
    <3>5. E[l] = Append(D[l], v)
      BY <1>2, <3>1, <3>3, <3>4
    <3>6. PICK d : d = D[l]
      OBVIOUS
    <3>7. d \in Seq(Nat) /\ Len(d) = m
      BY <1>1, <1>2, <3>6
    <3>8. E[l] \in Seq(Nat) /\ Len(E[l]) = m + 1 /\ E[l][m + 1] = v /\ \A j \in 1 .. m : E[l][j] = d[j]
      BY <3>5, <3>6, <3>7
    <3> QED
      BY <1>2, <1>6, <2>1, <2>5, <3>1, <3>2, <3>3, <3>4, <3>6, <3>8 DEF MoreUpvalues
  <2> QED
    BY <2>4, <2>5
<1> QED
  BY <1>5, <1>6

AllMore(f, g, D, E, u, v, k) ==
    \A l \in 1 .. Len(f) : MoreUpvalues(f, g, D, E, u[l], v, k, l, UpvalueIndex(f[l], u[l]))

\* All the new upvalues stand for the variable v that is captured.
LEMMA CapturedDenotes ==
    ASSUME NEW f \in Seq(Compilers), NEW g, NEW k \in 1 .. Len(f), NEW i \in 1 .. Len(f[k].locals),
           NEW u, Captures(f, k, i, u, g), NEW D, UpvaluesDenote(f, D),
           NEW v \in Nat, f[k].locals[i].var = v, NEW E, AllMore(f, g, D, E, u, v, k)
    PROVE  \A l \in 1 .. Len(f) : l > k => E[l][UpvalueIndex(f[l], u[l])] = v
<1>1. PICK n \in Nat : n = Len(f)
  OBVIOUS
<1> DEFINE At(l) == UpvalueIndex(f[l], u[l])
           P == {m \in Nat : \A l \in 1 .. n : l > k /\ l <= m => E[l][At(l)] = v}
<1>2. Chain(f, k, i, u) /\ i \in Nat /\ k \in 1 .. n
  BY <1>1 DEF Captures
<1>3. ASSUME NEW l \in 1 .. n, l > k, l # k + 1 => E[l - 1][At(l - 1)] = v
      PROVE  E[l][At(l)] = v
  <2>1. MoreUpvalues(f, g, D, E, u[l], v, k, l, At(l))
    BY <1>1 DEF AllMore
  <2>2. CASE At(l) \notin 1 .. Len(f[l].upvalues)
    <3> HIDE DEF At
    <3> QED
      BY <1>3, <2>1, <2>2 DEF MoreUpvalues
  <2>3. CASE At(l) \in 1 .. Len(f[l].upvalues)
    <3>1. PICK x : x = At(l)
      OBVIOUS
    <3>2. f[l].upvalues[x] = u[l] /\ E[l][x] = D[l][x] /\ x \in 1 .. Len(f[l].upvalues)
      <4> HIDE DEF At
      <4> QED
        BY <1>3, <2>1, <2>3, <3>1 DEF MoreUpvalues
    <3>3. UpvalueDenotes(f, D, l, x)
      BY <1>1, <3>2 DEF UpvaluesDenote
    <3>4. /\ u[l].isLocal = TRUE => f[l - 1].locals[u[l].index].var = D[l][x]
          /\ u[l].isLocal = FALSE => /\ u[l].index \in 1 .. Len(f[l - 1].upvalues)
                                     /\ D[l - 1][u[l].index] = D[l][x]
      BY <3>2, <3>3 DEF UpvalueDenotes
    <3>5. /\ l = k + 1 => u[l].index = i /\ u[l].isLocal = TRUE
          /\ l # k + 1 => /\ l - 1 \in 1 .. Len(f) /\ l - 1 > k
                          /\ u[l].index = UpvalueIndex(f[l - 1], u[l - 1]) /\ u[l].isLocal = FALSE
      BY <1>1, <1>2, <1>3, ChainRefs, ZenonT(60) DEF LinkAt
    <3>6. CASE l = k + 1
      <4>1. l - 1 = k
        BY <1>2, <3>6
      <4>2. D[l][x] = v
        BY <3>4, <3>5, <3>6, <4>1
      <4> QED
        BY <3>1, <3>2, <4>2
    <3>7. CASE l # k + 1
      <4>1. PICK m : m = l - 1
        OBVIOUS
      <4>2. /\ m \in 1 .. n /\ m > k /\ u[l].index = At(m) /\ At(m) \in 1 .. Len(f[m].upvalues)
            /\ D[m][At(m)] = D[l][x]
        BY <1>1, <3>4, <3>5, <3>7, <4>1
      <4>3. MoreUpvalues(f, g, D, E, u[m], v, k, m, At(m))
        BY <1>1, <4>2 DEF AllMore
      <4>4. E[m][At(m)] = D[m][At(m)]
        <5> HIDE DEF At
        <5> QED
          BY <4>2, <4>3 DEF MoreUpvalues
      <4>5. E[m][At(m)] = v
        BY <1>3, <3>7, <4>1
      <4> QED
        BY <3>1, <3>2, <4>2, <4>4, <4>5
    <3> QED
      BY <3>6, <3>7
  <2> QED
    BY <2>2, <2>3
<1>4. P = Nat
  <2> HIDE DEF At
  <2>1. P \in SUBSET Nat /\ 0 \in P
    OBVIOUS
  <2>2. ASSUME NEW m \in P PROVE m + 1 \in P
    <3>1. ASSUME NEW l \in 1 .. n, l > k, l <= m + 1 PROVE E[l][At(l)] = v
      <4>1. l # k + 1 => l - 1 \in 1 .. n /\ l - 1 > k /\ l - 1 <= m
        BY <1>2, <3>1
      <4>2. l # k + 1 => E[l - 1][At(l - 1)] = v
        BY <4>1
      <4> QED
        BY <1>3, <3>1, <4>2
    <3>2. m + 1 \in Nat
      OBVIOUS
    <3> QED
      BY <3>1, <3>2
  <2> HIDE DEF P
  <2> QED
    BY <2>1, <2>2, AllNaturals
<1>5. \A l \in 1 .. n : l > k => E[l][At(l)] = v
  <2> HIDE DEF At
  <2>1. n \in P
    BY <1>4
  <2>2. \A l \in 1 .. n : l <= n
    OBVIOUS
  <2> QED
    BY <2>1, <2>2
<1> QED
  BY <1>1, <1>5

\* The upvalues of f, after the local i of function k is captured: it is v.
Reaches(f, g, E, u, v, k) ==
    /\ UpvaluesDenote(g, E)
    /\ \A l \in 1 .. Len(f) : \A j \in 1 .. Len(g[l].upvalues) :
          \/ j \in 1 .. Len(f[l].upvalues) /\ g[l].upvalues[j] = f[l].upvalues[j]
          \/ l > k /\ g[l].upvalues[j] = u[l]
    /\ \A l \in 1 .. Len(f) : l > k =>
          /\ UpvalueIndex(f[l], u[l]) \in 1 .. Len(g[l].upvalues)
          /\ E[l][UpvalueIndex(f[l], u[l])] = v

LEMMA ReachesIs ==
    ASSUME NEW f \in Seq(Compilers), NEW g, NEW k \in 1 .. Len(f), NEW i \in 1 .. Len(f[k].locals),
           NEW u, Captures(f, k, i, u, g), NEW D, UpvaluesDenote(f, D),
           NEW v \in Nat, f[k].locals[i].var = v, f[k].locals[i].depth # Uninitialized
    PROVE  \E E : Reaches(f, g, E, u, v, k)
<1>1. PICK n \in Nat : n = Len(f)
  OBVIOUS
<1>2. PICK E : E = [l \in 1 .. n |-> IF Len(g[l].upvalues) = Len(f[l].upvalues) THEN D[l] ELSE Append(D[l], v)]
  OBVIOUS
<1>3. \A l \in 1 .. n : E[l] = IF Len(g[l].upvalues) = Len(f[l].upvalues) THEN D[l] ELSE Append(D[l], v)
  BY <1>2
<1>4. ASSUME NEW l \in 1 .. n PROVE MoreUpvalues(f, g, D, E, u[l], v, k, l, UpvalueIndex(f[l], u[l]))
  BY <1>1, <1>3, MoreUpvaluesIs
<1>5. \A l \in 1 .. Len(f) : l > k => E[l][UpvalueIndex(f[l], u[l])] = v
  <2>1. AllMore(f, g, D, E, u, v, k)
    BY <1>1, <1>4 DEF AllMore
  <2> QED
    BY <2>1, CapturedDenotes
<1>6. ASSUME NEW l \in 1 .. n
      PROVE  /\ E[l] \in Seq(Nat) /\ Len(E[l]) = Len(g[l].upvalues)
             /\ l > k => UpvalueIndex(f[l], u[l]) \in 1 .. Len(g[l].upvalues)
             /\ \A j \in 1 .. Len(f[l].upvalues) :
                   /\ j \in 1 .. Len(g[l].upvalues)
                   /\ g[l].upvalues[j] = f[l].upvalues[j] /\ E[l][j] = D[l][j]
  BY <1>4 DEF MoreUpvalues
<1>7. E \in Seq(Seq(Nat)) /\ Len(E) = n
  <2>1. E \in [1 .. n -> Seq(Nat)]
    BY <1>2, <1>3, <1>6
  <2> QED
    BY <2>1, FunctionIsSeq
<1>8. g \in Seq(Compilers) /\ Len(g) = n /\ Chain(f, k, i, u) /\ HasCaptured(f[k], g[k], i)
  BY <1>1 DEF Captures
<1>13. ASSUME NEW l \in 1 .. Len(f), l > k PROVE LinkAt(f, k, i, u, l)
  <2>1. i \in Nat
    OBVIOUS
  <2> QED
    BY <1>8, <1>13, <2>1, ChainRefs
<1>9. ASSUME NEW l \in 1 .. n PROVE Quiet(f[l], g[l])
  <2>1. l < k \/ l = k \/ l > k
    OBVIOUS
  <2>2. l < k => g[l] = f[l]
    BY <1>1 DEF Captures
  <2>3. l > k => Quiet(f[l], g[l])
    BY <1>1 DEF Captures, HasUpvalue
  <2>4. f[l] \in Compilers /\ Quiet(f[l], f[l])
    BY <1>1, QuietSame
  <2> QED
    BY <1>8, <2>1, <2>2, <2>3, <2>4 DEF HasCaptured
<1>10. ASSUME NEW l \in 1 .. n, NEW j \in 1 .. Len(g[l].upvalues) PROVE UpvalueDenotes(g, E, l, j)
  <2>1. \/ j \in 1 .. Len(f[l].upvalues)
        \/ /\ l > k /\ j = UpvalueIndex(f[l], u[l]) /\ g[l].upvalues[j] = u[l] /\ E[l][j] = v
    BY <1>4, <1>10 DEF MoreUpvalues
  <2>2. PICK q : q = l - 1
    OBVIOUS
  <2>3. CASE j \in 1 .. Len(f[l].upvalues)
    <3>1. UpvalueDenotes(f, D, l, j)
      BY <1>1, <2>3 DEF UpvaluesDenote
    <3>2. PICK x : x = f[l].upvalues[j] /\ x = g[l].upvalues[j] /\ E[l][j] = D[l][j]
      BY <1>6, <2>3
    <3>3. /\ l > 1
          /\ x.isLocal = TRUE =>
                /\ x.index \in 1 .. Len(f[q].locals) /\ f[q].locals[x.index].depth # Uninitialized
                /\ f[q].locals[x.index].captured = TRUE /\ f[q].locals[x.index].var = D[l][j]
          /\ x.isLocal = FALSE => x.index \in 1 .. Len(f[q].upvalues) /\ D[q][x.index] = D[l][j]
      BY <2>2, <3>1, <3>2, Zenon DEF UpvalueDenotes
    <3>4. q \in 1 .. n
      BY <2>2, <3>3
    <3>5. f[q] \in Compilers /\ Quiet(f[q], g[q])
      BY <1>1, <1>9, <3>4
    <3>6. x.isLocal = TRUE =>
                /\ x.index \in 1 .. Len(g[q].locals) /\ g[q].locals[x.index].depth # Uninitialized
                /\ g[q].locals[x.index].captured = TRUE /\ g[q].locals[x.index].var = E[l][j]
      <4> SUFFICES ASSUME x.isLocal = TRUE
                   PROVE  /\ x.index \in 1 .. Len(g[q].locals) /\ g[q].locals[x.index].depth # Uninitialized
                          /\ g[q].locals[x.index].captured = TRUE /\ g[q].locals[x.index].var = E[l][j]
        OBVIOUS
      <4>1. PICK y : y = x.index
        OBVIOUS
      <4>2. /\ y \in 1 .. Len(f[q].locals) /\ f[q].locals[y].depth # Uninitialized
            /\ f[q].locals[y].captured = TRUE /\ f[q].locals[y].var = E[l][j]
        BY <3>2, <3>3, <4>1
      <4>3. /\ y \in 1 .. Len(g[q].locals) /\ g[q].locals[y].var = f[q].locals[y].var
            /\ g[q].locals[y].depth = f[q].locals[y].depth
            /\ f[q].locals[y].captured = TRUE => g[q].locals[y].captured = TRUE
        BY <3>5, <4>2, QuietLocals
      <4> QED
        BY <4>1, <4>2, <4>3, Zenon
    <3>7. x.isLocal = FALSE => x.index \in 1 .. Len(g[q].upvalues) /\ E[q][x.index] = E[l][j]
      BY <1>6, <3>2, <3>3, <3>4
    <3> QED
      BY <2>2, <3>2, <3>3, <3>6, <3>7, Zenon DEF UpvalueDenotes
  <2>4. CASE /\ l > k /\ j = UpvalueIndex(f[l], u[l]) /\ g[l].upvalues[j] = u[l] /\ E[l][j] = v
    <3>1. /\ l = k + 1 => u[l].index = i /\ u[l].isLocal = TRUE
          /\ l # k + 1 => /\ l - 1 \in 1 .. Len(f) /\ l - 1 > k
                          /\ u[l].index = UpvalueIndex(f[l - 1], u[l - 1]) /\ u[l].isLocal = FALSE
      BY <1>1, <1>13, <2>4 DEF LinkAt
    <3>2. PICK x : x = u[l] /\ x = g[l].upvalues[j]
      BY <2>4
    <3>3. l > 1
      BY <2>4
    <3>4. x.isLocal = TRUE =>
                /\ x.index \in 1 .. Len(g[q].locals) /\ g[q].locals[x.index].depth # Uninitialized
                /\ g[q].locals[x.index].captured = TRUE /\ g[q].locals[x.index].var = E[l][j]
      <4> SUFFICES ASSUME x.isLocal = TRUE
                   PROVE  /\ x.index \in 1 .. Len(g[q].locals) /\ g[q].locals[x.index].depth # Uninitialized
                          /\ g[q].locals[x.index].captured = TRUE /\ g[q].locals[x.index].var = E[l][j]
        OBVIOUS
      <4>1. l = k + 1
        BY <3>1, <3>2
      <4>2. q = k /\ x.index = i
        BY <2>2, <3>1, <3>2, <4>1
      <4>3. f[k] \in Compilers /\ Quiet(f[k], g[k]) /\ g[k].locals[i].captured = TRUE
        BY <1>8 DEF HasCaptured
      <4>4. /\ i \in 1 .. Len(g[k].locals) /\ g[k].locals[i].var = f[k].locals[i].var
            /\ g[k].locals[i].depth = f[k].locals[i].depth
        BY <4>3, QuietLocals
      <4> QED
        BY <2>4, <4>2, <4>3, <4>4, Zenon
    <3>5. x.isLocal = FALSE => x.index \in 1 .. Len(g[q].upvalues) /\ E[q][x.index] = E[l][j]
      <4> SUFFICES ASSUME x.isLocal = FALSE
                   PROVE  x.index \in 1 .. Len(g[q].upvalues) /\ E[q][x.index] = E[l][j]
        OBVIOUS
      <4>1. l # k + 1
        BY <3>1, <3>2
      <4>2. q \in 1 .. n /\ q > k /\ x.index = UpvalueIndex(f[q], u[q])
        BY <1>1, <2>2, <3>1, <3>2, <4>1
      <4> QED
        BY <1>1, <1>5, <1>6, <2>4, <4>2
    <3> QED
      BY <2>2, <3>2, <3>3, <3>4, <3>5, Zenon DEF UpvalueDenotes
  <2> QED
    BY <2>1, <2>3, <2>4
<1>11. ASSUME NEW l \in 1 .. n, NEW q \in 1 .. Len(g[l].code) PROVE UpvalueRead(g, E, l, g[l].code[q])
  <2>1. g[l].code = f[l].code
    BY <1>9 DEF Quiet
  <2>2. UpvalueRead(f, D, l, g[l].code[q])
    BY <1>1, <1>11, <2>1 DEF UpvaluesDenote
  <2> QED
    BY <1>6, <2>2 DEF UpvalueRead
<1>12. UpvaluesDenote(g, E)
  BY <1>6, <1>7, <1>8, <1>10, <1>11 DEF UpvaluesDenote
<1>14. ASSUME NEW l \in 1 .. n, NEW j \in 1 .. Len(g[l].upvalues)
       PROVE  \/ j \in 1 .. Len(f[l].upvalues) /\ g[l].upvalues[j] = f[l].upvalues[j]
              \/ l > k /\ g[l].upvalues[j] = u[l]
  <2>1. \/ j \in 1 .. Len(f[l].upvalues)
        \/ l > k /\ g[l].upvalues[j] = u[l]
    BY <1>4, <1>14 DEF MoreUpvalues
  <2> QED
    BY <1>6, <2>1
<1> QED
  BY <1>1, <1>5, <1>6, <1>12, <1>14 DEF Reaches

-----------------------------------------------------------------------------
(* A variable that is read                                                 *)

\* e is c, as far as its blocks bs are concerned.
Alike(c, e, bs) ==
    Sits(e, bs) /\ Leads(c, bs, e, bs) /\ (Inner(e) <=> Inner(c)) /\ SameLocals(c, e)

AllAlike(f, g, b, p) ==
    /\ g \in Seq(Compilers) /\ Len(g) = Len(f)
    /\ \A l \in 1 .. Len(f) : Alike(f[l], g[l], Segment(f, b, p, l))

LEMMA AlikeConsistent ==
    ASSUME NEW f \in Seq(Compilers), Len(f) > 0, NEW b, NEW t, NEW p, Consistent(f, b, t, p),
           NEW g, AllAlike(f, g, b, p), NEW r, t => r, r \/ LeftAlone(g, b, p)
    PROVE  Consistent(g, b, r, p)
<1>1. PICK n \in Nat : n = Len(f) /\ n > 0
  OBVIOUS
<1>2. Segmented(f, b, p) /\ Nested(f, b, p)
  BY DEF Consistent
<1>3. ASSUME NEW l \in 1 .. n
      PROVE  /\ Sits(f[l], Segment(f, b, p, l)) /\ Compiled(t, f[l], Segment(f, b, p, l))
             /\ Sits(g[l], Segment(f, b, p, l)) /\ Leads(f[l], Segment(f, b, p, l), g[l], Segment(f, b, p, l))
             /\ Inner(g[l]) <=> Inner(f[l])
             /\ SameLocals(f[l], g[l])
  BY <1>1, <1>3 DEF Consistent, AllAlike, Alike
<1>4. \A l \in 1 .. n : Len(g[l].locals) = Len(f[l].locals) /\ g[l].scopeDepth = f[l].scopeDepth
  BY <1>3 DEF SameLocals
<1>5. Len(g) = n
  BY <1>1 DEF AllAlike
<1>6. Segmented(g, b, p)
  BY <1>1, <1>2, <1>4, <1>5 DEF Segmented
<1>7. ASSUME NEW l \in 1 .. n PROVE Segment(g, b, p, l) = Segment(f, b, p, l)
  BY <1>4 DEF Segment
<1>8. Nested(g, b, p)
  <2>1. b[1].self = Temp /\ ~Inner(f[n])
    BY <1>1, <1>2 DEF Nested
  <2>2. ~Inner(g[n])
    BY <1>1, <1>3, <2>1
  <2>3. ASSUME NEW l \in 1 .. n - 1
        PROVE  /\ Inner(g[l]) /\ g[l].locals[Len(g[l].locals)].var = b[p[l + 1]].self
               /\ g[l].locals[Len(g[l].locals)].name # NoName
    <3>1. l \in 1 .. n
      BY <1>1
    <3>2. /\ Inner(f[l]) /\ f[l].locals[Len(f[l].locals)].var = b[p[l + 1]].self
          /\ f[l].locals[Len(f[l].locals)].name # NoName
      BY <1>1, <1>2 DEF Nested
    <3>3. PICK m \in Nat : m = Len(f[l].locals) /\ m > 0
      <4>1. Len(f[l].locals) \in Nat
        BY <1>1, <3>1, CompilerIs
      <4> QED
        BY <3>2, <4>1 DEF Inner
    <3>4. m \in 1 .. m /\ Len(g[l].locals) = m
      BY <1>4, <3>1, <3>3
    <3>5. g[l].locals[m].name = f[l].locals[m].name /\ g[l].locals[m].var = f[l].locals[m].var
      BY <1>3, <3>1, <3>3, <3>4 DEF SameLocals
    <3> QED
      BY <1>3, <3>1, <3>2, <3>3, <3>4, <3>5
  <2> QED
    BY <1>5, <2>1, <2>2, <2>3 DEF Nested
<1>9. ASSUME NEW l \in 1 .. n
      PROVE  Sits(g[l], Segment(g, b, p, l)) /\ Compiled(r, g[l], Segment(g, b, p, l))
  <2>1. Compiled(t, g[l], Segment(f, b, p, l))
    BY <1>3, LeadsCompiled
  <2>2. Compiled(r, g[l], Segment(f, b, p, l))
    BY <2>1 DEF Compiled
  <2> QED
    BY <1>3, <1>7, <2>2
<1> QED
  BY <1>5, <1>6, <1>8, <1>9 DEF Consistent

\* The last of the functions g goes on with the instruction x.
ThenReads(g, h, x) ==
    /\ Len(g) > 0 /\ x \in Instructions /\ x.op \in {"get", "upvalue"}
    /\ h = [g EXCEPT ![Len(g)] = Emit(g[Len(g)], <<x>>)]

\* A local that is read is the variable.
GetsLocal(c, x) == x.op = "get" => x.at \in 1 .. Len(c.locals) /\ c.locals[x.at].var = x.var

\* Two lists of functions whose locals and upvalues are the same.
SameRefs(f, g) ==
    /\ Len(g) = Len(f) /\ Len(f) \in Nat
    /\ \A l \in 1 .. Len(f) : g[l].locals = f[l].locals /\ g[l].upvalues = f[l].upvalues

\* The upvalues stand for the same after the instruction x.
StillDenote(g, h, x) ==
    \A E : UpvaluesDenote(g, E) /\ UpvalueRead(g, E, Len(g), x) => UpvaluesDenote(h, E)

LEMMA ReadsAlike ==
    ASSUME NEW f \in Seq(Compilers), NEW g, NEW b, NEW p, AllAlike(f, g, b, p), Nested(f, b, p),
           NEW x, NEW h, ThenReads(g, h, x), GetsLocal(g[Len(g)], x)
    PROVE  AllAlike(f, h, b, p) /\ SameRefs(g, h) /\ StillDenote(g, h, x)
<1>1. PICK n \in Nat : n = Len(f) /\ n = Len(g)
  BY DEF AllAlike
<1>2. g \in Seq(Compilers) /\ n > 0 /\ n \in 1 .. n
  BY <1>1 DEF AllAlike, ThenReads
<1>3. PICK c, bs : c = g[n] /\ bs = Segment(f, b, p, n)
  OBVIOUS
<1>4. /\ c \in Compilers /\ Sits(c, bs) /\ Leads(f[n], bs, c, bs) /\ (Inner(c) <=> Inner(f[n]))
      /\ SameLocals(f[n], c)
  BY <1>1, <1>2, <1>3 DEF AllAlike, Alike
<1>5. ~Inner(c)
  BY <1>1, <1>4 DEF Nested
<1>6. Here(c, bs)
  BY <1>4, <1>5 DEF Here, Sits
<1>7. Fits(c, bs) /\ Sorted(c)
  BY <1>6, HereIs
<1>8. Base(c, c.scopeDepth) = Len(c.locals)
  BY <1>4, <1>5, <1>7, FullBase
<1>9. x \in Instructions /\ x.op \in {"get", "upvalue"}
  BY DEF ThenReads
<1>10. Balanced(c, bs, x, 1, {})
  <2>1. 1 - 1 \notin {} /\ 1 \notin {}
    OBVIOUS
  <2>2. x.op = "get" => x.at \in 1 .. Base(c, c.scopeDepth) /\ c.locals[x.at].var = x.var
    BY <1>1, <1>3, <1>8 DEF GetsLocal
  <2>3. x.op # "push" /\ x.op # "pop" /\ x.op # "branch" /\ x.op # "jump"
    BY <1>9
  <2> QED
    BY <1>9, <2>1, <2>2, <2>3, Zenon DEF Balanced
<1>11. PICK e : e = Emit(c, <<x>>)
  OBVIOUS
<1>12. Leads(c, bs, e, bs) /\ EmittedIn(c, bs, e, <<x>>)
  BY <1>7, <1>9, <1>10, <1>11, EmitOneLeads
<1>13. /\ e \in Compilers /\ Grown(c, e, <<x>>) /\ (Inner(e) <=> Inner(c)) /\ e.locals = c.locals
       /\ e.upvalues = c.upvalues /\ e.scopeDepth = c.scopeDepth
  BY <1>12 DEF EmittedIn
<1>14. Here(e, bs)
  BY <1>6, <1>13, HereSame
<1>15. Alike(f[n], e, bs)
  <2>1. Sits(e, bs)
    BY <1>14 DEF Here, Sits
  <2>2. Leads(f[n], bs, e, bs)
    BY <1>4, <1>12, LeadsOn
  <2>3. SameLocals(f[n], e)
    BY <1>4, <1>13 DEF SameLocals
  <2> QED
    BY <1>4, <1>13, <2>1, <2>2, <2>3 DEF Alike
<1>16. /\ h \in Seq(Compilers) /\ Len(h) = n /\ h[n] = e /\ \A l \in 1 .. n : l # n => h[l] = g[l]
  <2>1. h = [g EXCEPT ![n] = e]
    BY <1>1, <1>3, <1>11 DEF ThenReads
  <2> QED
    BY <1>1, <1>2, <1>13, <2>1, ExceptSeq
<1>17. AllAlike(f, h, b, p)
  BY <1>1, <1>3, <1>15, <1>16 DEF AllAlike
<1>18. \A l \in 1 .. n : h[l].locals = g[l].locals /\ h[l].upvalues = g[l].upvalues
  BY <1>3, <1>13, <1>16
<1>19. ASSUME NEW E, UpvaluesDenote(g, E), UpvalueRead(g, E, n, x) PROVE UpvaluesDenote(h, E)
  <2>1. \A l \in 1 .. n :
           /\ Len(E[l]) = Len(g[l].upvalues)
           /\ \A j \in 1 .. Len(g[l].upvalues) : UpvalueDenotes(g, E, l, j)
           /\ \A q \in 1 .. Len(g[l].code) : UpvalueRead(g, E, l, g[l].code[q])
    BY <1>1, <1>19 DEF UpvaluesDenote
  <2>2. ASSUME NEW l \in 1 .. n, NEW j \in 1 .. Len(h[l].upvalues) PROVE UpvalueDenotes(h, E, l, j)
    <3>1. UpvalueDenotes(g, E, l, j) /\ h[l].upvalues = g[l].upvalues
      BY <1>18, <2>1, <2>2
    <3>2. l > 1
      BY <3>1 DEF UpvalueDenotes
    <3>3. l - 1 \in 1 .. n
      BY <3>2
    <3>4. h[l - 1].locals = g[l - 1].locals /\ h[l - 1].upvalues = g[l - 1].upvalues
      BY <1>18, <3>3
    <3>5. PICK u, a, d : u = g[l].upvalues[j] /\ a = g[l - 1] /\ d = h[l - 1]
      OBVIOUS
    <3>6. d.locals = a.locals /\ d.upvalues = a.upvalues /\ u = h[l].upvalues[j]
      BY <3>1, <3>4, <3>5
    <3>7. /\ u.isLocal = TRUE =>
                /\ u.index \in 1 .. Len(a.locals) /\ a.locals[u.index].depth # Uninitialized
                /\ a.locals[u.index].captured = TRUE /\ a.locals[u.index].var = E[l][j]
          /\ u.isLocal = FALSE => u.index \in 1 .. Len(a.upvalues) /\ E[l - 1][u.index] = E[l][j]
      BY <3>1, <3>5 DEF UpvalueDenotes
    <3>8. /\ u.isLocal = TRUE =>
                /\ u.index \in 1 .. Len(d.locals) /\ d.locals[u.index].depth # Uninitialized
                /\ d.locals[u.index].captured = TRUE /\ d.locals[u.index].var = E[l][j]
          /\ u.isLocal = FALSE => u.index \in 1 .. Len(d.upvalues) /\ E[l - 1][u.index] = E[l][j]
      BY <3>6, <3>7
    <3> QED
      BY <3>2, <3>5, <3>6, <3>8 DEF UpvalueDenotes
  <2>3. ASSUME NEW l \in 1 .. n, NEW q \in 1 .. Len(h[l].code) PROVE UpvalueRead(h, E, l, h[l].code[q])
    <3>1. UpvalueRead(g, E, l, h[l].code[q])
      <4>1. CASE l # n
        BY <1>16, <2>1, <2>3, <4>1
      <4>2. CASE l = n
        <5>1. <<x>> \in Seq(Instructions) /\ Len(<<x>>) = 1 /\ \A y \in 1 .. Len(<<x>>) : y = 1 /\ <<x>>[y] = x
          BY <1>9, SingleIs
        <5>2. \/ q \in 1 .. Len(c.code)
              \/ \E y \in 1 .. Len(<<x>>) : q = Len(c.code) + y /\ e.code[q] = <<x>>[y]
          <6>1. q \in 1 .. Len(e.code)
            BY <1>16, <2>3, <4>2
          <6>2. PICK xs : xs = <<x>>
            OBVIOUS
          <6>3. xs \in Seq(Instructions) /\ Grown(c, e, xs)
            BY <1>13, <5>1, <6>2
          <6>4. \A y \in 1 .. Len(e.code) :
                   y \in 1 .. Len(c.code)
                   \/ \E z \in 1 .. Len(xs) : y = Len(c.code) + z /\ e.code[y] = xs[z]
            BY <1>4, <1>13, <6>3, GrownSplit
          <6> QED
            BY <6>1, <6>2, <6>4
        <5>3. q \in 1 .. Len(c.code) => e.code[q] = c.code[q]
          BY <1>13 DEF Grown
        <5>4. e.code[q] = x \/ (q \in 1 .. Len(c.code) /\ e.code[q] = g[n].code[q])
          BY <1>3, <5>1, <5>2, <5>3
        <5> QED
          BY <1>3, <1>16, <1>19, <2>1, <4>2, <5>4
      <4> QED
        BY <4>1, <4>2
    <3> QED
      BY <1>18, <3>1 DEF UpvalueRead
  <2>4. E \in Seq(Seq(Nat)) /\ Len(E) = n
    BY <1>1, <1>19 DEF UpvaluesDenote
  <2> QED
    BY <1>16, <1>18, <2>1, <2>2, <2>3, <2>4 DEF UpvaluesDenote
<1>20. SameRefs(g, h)
  BY <1>1, <1>16, <1>18 DEF SameRefs
<1>21. StillDenote(g, h, x)
  BY <1>1, <1>19 DEF StillDenote
<1> QED
  BY <1>17, <1>20, <1>21

\* No loop among the blocks of function k that a break has left is that of the variable v.
Spares(b, p, k, v) ==
    \A d \in p[k] .. p[k + 1] - 1 : b[d].kind = "loop" /\ b[d].left = TRUE => v # b[d].own

LEMMA LeftAloneSame ==
    ASSUME NEW f, NEW g, SameRefs(f, g), NEW b, NEW p, LeftAlone(f, b, p)
    PROVE  LeftAlone(g, b, p)
<1>1. PICK n \in Nat : n = Len(f) /\ n = Len(g)
  BY DEF SameRefs
<1>2. \A l \in 2 .. n : l \in 1 .. n /\ l - 1 \in 1 .. n
  OBVIOUS
<1> QED
  BY <1>1, <1>2 DEF LeftAlone, SameRefs

\* The functions f become g when the local i of function k, the variable v, is captured.
CapturesFor(f, k, i, u, g, D, v, E) ==
    /\ f \in Seq(Compilers) /\ k \in 1 .. Len(f) /\ i \in 1 .. Len(f[k].locals)
    /\ Captures(f, k, i, u, g) /\ UpvaluesDenote(f, D)
    /\ f[k].locals[i].var = v /\ Reaches(f, g, E, u, v, k)

LEMMA CapturedLeft ==
    ASSUME NEW f, NEW k, NEW i, NEW u, NEW g, NEW D, NEW v, NEW E, CapturesFor(f, k, i, u, g, D, v, E),
           NEW b, NEW p, LeftAlone(f, b, p), Spares(b, p, k, v)
    PROVE  LeftAlone(g, b, p)
<1>0. /\ f \in Seq(Compilers) /\ k \in 1 .. Len(f) /\ i \in 1 .. Len(f[k].locals)
      /\ Captures(f, k, i, u, g) /\ UpvaluesDenote(f, D)
      /\ f[k].locals[i].var = v /\ Reaches(f, g, E, u, v, k)
  BY DEF CapturesFor
<1>1. PICK n \in Nat : n = Len(f) /\ Len(g) = n
  BY <1>0 DEF Captures
<1>2. ASSUME NEW l \in 1 .. n
      PROVE  f[l] \in Compilers /\ Quiet(f[l], g[l])
  <2>1. f[l] \in Compilers
    BY <1>0, <1>1
  <2>2. CASE l < k
    <3>1. g[l] = f[l]
      BY <1>0, <1>1, <2>2 DEF Captures
    <3> QED
      BY <2>1, <3>1, QuietSame
  <2>3. CASE l = k
    BY <1>0, <2>1, <2>3 DEF Captures, HasCaptured
  <2>4. CASE l > k
    BY <1>0, <1>1, <2>1, <2>4 DEF Captures, HasUpvalue
  <2>5. l < k \/ l = k \/ l > k
    BY <1>0, <1>1
  <2> QED
    BY <2>2, <2>3, <2>4, <2>5
<1>3. i \in Nat /\ Chain(f, k, i, u)
  <2>1. Len(f[k].locals) \in Nat
    BY <1>0, <1>1, <1>2, CompilerIs
  <2> QED
    BY <1>0, <2>1 DEF Captures
<1>4. ASSUME NEW l \in 2 .. n, NEW j \in 1 .. Len(g[l].upvalues), g[l].upvalues[j].isLocal = TRUE,
             NEW d \in p[l - 1] .. p[l] - 1, b[d].kind = "loop", b[d].left = TRUE
      PROVE  g[l - 1].locals[g[l].upvalues[j].index].var # b[d].own
  <2>1. l \in 1 .. n /\ l - 1 \in 1 .. n /\ l > 1
    BY <1>0, <1>1
  <2>2. CASE j \in 1 .. Len(f[l].upvalues) /\ g[l].upvalues[j] = f[l].upvalues[j]
    <3>1. PICK x : x = f[l].upvalues[j]
      OBVIOUS
    <3>2. x.isLocal = TRUE /\ g[l].upvalues[j] = x
      BY <1>4, <2>2, <3>1
    <3>3. f[l - 1].locals[x.index].var # b[d].own
      BY <1>0, <1>1, <1>4, <2>2, <3>1, <3>2 DEF LeftAlone
    <3>4. UpvalueDenotes(f, D, l, j)
      BY <1>0, <1>1, <2>1, <2>2 DEF UpvaluesDenote
    <3>5. x.index \in 1 .. Len(f[l - 1].locals)
      BY <3>1, <3>2, <3>4 DEF UpvalueDenotes
    <3>6. g[l - 1].locals[x.index].var = f[l - 1].locals[x.index].var
      <4>1. PICK m \in 1 .. n : m = l - 1
        BY <2>1
      <4>2. PICK y : y = x.index
        OBVIOUS
      <4>3. f[m] \in Compilers /\ Quiet(f[m], g[m]) /\ y \in 1 .. Len(f[m].locals)
        BY <1>2, <3>5, <4>1, <4>2
      <4>4. PICK c, e : c = f[m] /\ e = g[m]
        OBVIOUS
      <4>5. c \in Compilers /\ Quiet(c, e) /\ y \in 1 .. Len(c.locals)
        BY <4>3, <4>4
      <4>6. e.locals[y].var = c.locals[y].var
        BY <4>5 DEF Quiet, SameLocals
      <4> QED
        BY <4>1, <4>2, <4>4, <4>6
    <3> QED
      BY <3>2, <3>3, <3>6
  <2>3. CASE l > k /\ g[l].upvalues[j] = u[l]
    <3>1. LinkAt(f, k, i, u, l)
      BY <1>0, <1>1, <1>3, <2>1, <2>3, ChainRefs
    <3>2. u[l].isLocal = TRUE
      BY <1>4, <2>3
    <3>3. l = k + 1 /\ u[l].index = i
      BY <3>1, <3>2 DEF LinkAt
    <3>4. l - 1 = k /\ k \in 1 .. n
      BY <1>0, <1>1, <3>3
    <3>5. g[k].locals[i].var = v
      <4>1. f[k] \in Compilers /\ Quiet(f[k], g[k])
        BY <1>2, <3>4
      <4>2. PICK c, e : c = f[k] /\ e = g[k]
        OBVIOUS
      <4>3. c \in Compilers /\ Quiet(c, e) /\ i \in 1 .. Len(c.locals)
        BY <1>0, <4>1, <4>2
      <4>4. e.locals[i].var = c.locals[i].var
        BY <4>3 DEF Quiet, SameLocals
      <4> QED
        BY <1>0, <4>2, <4>4
    <3>6. d \in p[k] .. p[k + 1] - 1
      BY <1>4, <3>3, <3>4
    <3>7. v # b[d].own
      BY <1>4, <3>6 DEF Spares
    <3> QED
      BY <2>3, <3>3, <3>4, <3>5, <3>7
  <2> QED
    BY <1>0, <1>1, <2>1, <2>2, <2>3 DEF Reaches
<1> QED
  BY <1>0, <1>1, <1>4 DEF LeftAlone

\* What reading the local i of function k, the variable v, makes of f; t and r say that a capture was late.
ReadsWhere(f, b, t, p, D, k, i, v, r) ==
    /\ f \in Seq(Compilers) /\ Len(f) > 0 /\ Consistent(f, b, t, p) /\ UpvaluesDenote(f, D)
    /\ k \in 1 .. Len(f) /\ i \in 1 .. Len(f[k].locals)
    /\ f[k].locals[i].var = v /\ v \in Nat /\ f[k].locals[i].depth # Uninitialized
    /\ t => r
    /\ k # Len(f) => r \/ Spares(b, p, k, v)

ReadsOk(h, b, r, p) ==
    /\ h \in Seq(Compilers) /\ Len(h) > 0 /\ Consistent(h, b, r, p)
    /\ \E E : UpvaluesDenote(h, E)

LEMMA GetInstruction ==
    ASSUME NEW op \in {"get", "upvalue"}, NEW at \in Nat, NEW v \in Nat
    PROVE  LET x == [op |-> op, at |-> at, var |-> v]
           IN  x \in Instructions /\ x.op = op /\ x.at = at /\ x.var = v
<1>1. [op |-> op, at |-> at, var |-> v] \in Gets
  BY DEF Gets
<1> QED
  BY <1>1 DEF Instructions

LEMMA GetOk ==
    ASSUME NEW f, NEW b, NEW t, NEW p, NEW D, NEW k, NEW i, NEW v, NEW r,
           ReadsWhere(f, b, t, p, D, k, i, v, r), k = Len(f),
           NEW h, h = [f EXCEPT ![Len(f)] = Emit(@, <<[op |-> "get", at |-> i, var |-> v]>>)]
    PROVE  ReadsOk(h, b, r, p)
<1>1. /\ f \in Seq(Compilers) /\ Len(f) > 0 /\ Consistent(f, b, t, p) /\ UpvaluesDenote(f, D)
      /\ k \in 1 .. Len(f) /\ i \in 1 .. Len(f[k].locals) /\ v \in Nat /\ (t => r)
      /\ f[k].locals[i].var = v
  BY DEF ReadsWhere
<1>2. Nested(f, b, p) /\ (t \/ LeftAlone(f, b, p))
  BY <1>1 DEF Consistent
<1>3. AllAlike(f, f, b, p)
  <2>1. ASSUME NEW l \in 1 .. Len(f) PROVE Alike(f[l], f[l], Segment(f, b, p, l))
    <3>1. f[l] \in Compilers /\ Sits(f[l], Segment(f, b, p, l))
      BY <1>1 DEF Consistent
    <3>2. Quiet(f[l], f[l])
      BY <3>1, QuietSame
    <3>3. Leads(f[l], Segment(f, b, p, l), f[l], Segment(f, b, p, l))
      BY <3>1, <3>2, QuietIs
    <3> QED
      BY <3>1, <3>2, <3>3 DEF Alike, Quiet
  <2> QED
    BY <1>1, <2>1 DEF AllAlike
<1>4. PICK x : x = [op |-> "get", at |-> i, var |-> v]
  OBVIOUS
<1>5. x \in Instructions /\ x.op = "get" /\ x.at = i /\ x.var = v
  <2>1. i \in Nat
    <3>1. Len(f[k].locals) \in Nat
      BY <1>1, CompilerIs
    <3> QED
      BY <1>1, <3>1
  <2> QED
    BY <1>1, <1>4, <2>1, GetInstruction
<1>6. ThenReads(f, h, x)
  BY <1>1, <1>4, <1>5 DEF ThenReads
<1>7. GetsLocal(f[Len(f)], x)
  BY <1>1, <1>5 DEF GetsLocal
<1>8. AllAlike(f, h, b, p) /\ SameRefs(f, h) /\ StillDenote(f, h, x)
  BY <1>1, <1>2, <1>3, <1>6, <1>7, ReadsAlike
<1>9. UpvaluesDenote(h, D)
  <2>1. UpvalueRead(f, D, Len(f), x)
    BY <1>5 DEF UpvalueRead
  <2> QED
    BY <1>1, <1>8, <2>1 DEF StillDenote
<1>10. h \in Seq(Compilers) /\ Len(h) = Len(f) /\ Len(f) \in Nat
  BY <1>1, <1>8, LenProperties DEF AllAlike
<1>11. r \/ LeftAlone(h, b, p)
  BY <1>1, <1>2, <1>8, LeftAloneSame
<1>12. Consistent(h, b, r, p)
  BY <1>1, <1>8, <1>11, AlikeConsistent
<1> QED
  BY <1>1, <1>9, <1>10, <1>12 DEF ReadsOk

LEMMA CaptureOk ==
    ASSUME NEW f, NEW b, NEW t, NEW p, NEW D, NEW k, NEW i, NEW v, NEW r,
           ReadsWhere(f, b, t, p, D, k, i, v, r), k # Len(f), NEW g, g = Capture(f, k, i),
           NEW a, a = UpvalueIndex(f[Len(f)], Upvalues(f, k, i)[Len(f)]),
           NEW h, h = [g EXCEPT ![Len(f)] = Emit(@, <<[op |-> "upvalue", at |-> a, var |-> v]>>)]
    PROVE  ReadsOk(h, b, r, p)
<1>1. /\ f \in Seq(Compilers) /\ Len(f) > 0 /\ Consistent(f, b, t, p) /\ UpvaluesDenote(f, D)
      /\ k \in 1 .. Len(f) /\ i \in 1 .. Len(f[k].locals) /\ v \in Nat /\ (t => r)
      /\ f[k].locals[i].var = v /\ f[k].locals[i].depth # Uninitialized
      /\ r \/ Spares(b, p, k, v)
  BY DEF ReadsWhere
<1>2. Nested(f, b, p) /\ (t \/ LeftAlone(f, b, p))
  BY <1>1 DEF Consistent
<1>3. PICK u : u = Upvalues(f, k, i)
  OBVIOUS
<1>4. Captures(f, k, i, u, g)
  BY <1>1, <1>3, CapturesIs
<1>5. PICK E : Reaches(f, g, E, u, v, k)
  BY <1>1, <1>4, ReachesIs
<1>6. PICK n \in Nat : n = Len(f) /\ n = Len(g) /\ n > k /\ n \in 1 .. n
  BY <1>1, <1>4 DEF Captures
<1>7. AllAlike(f, g, b, p)
  <2>1. ASSUME NEW l \in 1 .. n PROVE Alike(f[l], g[l], Segment(f, b, p, l))
    <3>1. f[l] \in Compilers /\ Sits(f[l], Segment(f, b, p, l))
      <4>1. \A m \in 1 .. Len(f) : f[m] \in Compilers /\ Sits(f[m], Segment(f, b, p, m))
        BY <1>1 DEF Consistent
      <4> QED
        BY <1>6, <4>1
    <3>2. Quiet(f[l], g[l])
      <4>1. CASE l < k
        <5>1. g[l] = f[l]
          BY <1>4, <1>6, <4>1 DEF Captures
        <5> QED
          BY <3>1, <5>1, QuietSame
      <4>2. CASE l = k
        BY <1>4, <4>2 DEF Captures, HasCaptured
      <4>3. CASE l > k
        BY <1>4, <1>6, <4>3 DEF Captures, HasUpvalue
      <4>4. l < k \/ l = k \/ l > k
        BY <1>1, <1>6
      <4> QED
        BY <4>1, <4>2, <4>3, <4>4
    <3>3. Sits(g[l], Segment(f, b, p, l)) /\ Leads(f[l], Segment(f, b, p, l), g[l], Segment(f, b, p, l))
          /\ (Inner(g[l]) <=> Inner(f[l]))
      BY <3>1, <3>2, QuietIs
    <3> QED
      BY <3>2, <3>3 DEF Alike, Quiet
  <2> QED
    BY <1>4, <1>6, <2>1 DEF AllAlike, Captures
<1>8. PICK x : x = [op |-> "upvalue", at |-> a, var |-> v]
  OBVIOUS
<1>9. a \in 1 .. Len(g[n].upvalues) /\ E[n][a] = v
  BY <1>3, <1>5, <1>6 DEF Reaches
<1>10. g \in Seq(Compilers) /\ g[n] \in Compilers
  BY <1>4, <1>6 DEF Captures
<1>11. x \in Instructions /\ x.op = "upvalue" /\ x.at = a /\ x.var = v
  <2>1. a \in Nat
    <3>1. Len(g[n].upvalues) \in Nat
      BY <1>10, CompilerIs, LenProperties
    <3> QED
      BY <1>9, <3>1
  <2> QED
    BY <1>1, <1>8, <2>1, GetInstruction
<1>12. ThenReads(g, h, x)
  <2>1. h = [g EXCEPT ![n] = Emit(g[n], <<x>>)]
    BY <1>6, <1>8
  <2>2. h = [g EXCEPT ![Len(g)] = Emit(g[Len(g)], <<x>>)] /\ Len(g) > 0
    BY <1>1, <1>6, <2>1
  <2> QED
    BY <1>11, <2>2 DEF ThenReads
<1>13. GetsLocal(g[Len(g)], x)
  BY <1>11 DEF GetsLocal
<1>14. AllAlike(f, h, b, p) /\ SameRefs(g, h) /\ StillDenote(g, h, x)
  BY <1>1, <1>2, <1>7, <1>12, <1>13, ReadsAlike
<1>15. UpvaluesDenote(h, E)
  <2>1. UpvalueRead(g, E, Len(g), x)
    BY <1>6, <1>9, <1>11 DEF UpvalueRead
  <2> QED
    BY <1>5, <1>14, <2>1 DEF Reaches, StillDenote
<1>16. h \in Seq(Compilers) /\ Len(h) = n
  BY <1>6, <1>14 DEF AllAlike
<1>17. r \/ LeftAlone(h, b, p)
  <2> SUFFICES ASSUME ~r PROVE LeftAlone(h, b, p)
    OBVIOUS
  <2>1. LeftAlone(f, b, p) /\ Spares(b, p, k, v)
    BY <1>1, <1>2
  <2>2. LeftAlone(g, b, p)
    <3>1. CapturesFor(f, k, i, u, g, D, v, E)
      BY <1>1, <1>4, <1>5 DEF CapturesFor
    <3> QED
      BY <2>1, <3>1, CapturedLeft
  <2> QED
    BY <1>14, <2>2, LeftAloneSame
<1>18. Consistent(h, b, r, p)
  BY <1>1, <1>14, <1>17, AlikeConsistent
<1>19. Len(h) > 0
  BY <1>1, <1>6, <1>16
<1> QED
  BY <1>15, <1>16, <1>18, <1>19 DEF ReadsOk

LEMMA SparesIs ==
    ASSUME NEW f \in Seq(Compilers), NEW b \in Seq(Constructs), NEW p, Segmented(f, b, p),
           NEW k \in 1 .. Len(f), NEW v,
           \A d \in DOMAIN b : ~(b[d].kind = "loop" /\ b[d].left /\ b[d].own = v)
    PROVE  Spares(b, p, k, v)
<1>1. SegmentAt(f, b, p, k)
  BY SegmentIs
<1>2. PICK m \in Nat, x \in Nat, y \in Nat : m = Len(b) /\ x = p[k] /\ y = p[k + 1] /\ x >= 1 /\ y <= m + 1
  BY <1>1, LenProperties DEF SegmentAt
<1>3. DOMAIN b = 1 .. m
  BY <1>2, LenProperties
<1>4. \A d \in x .. y - 1 : d \in 1 .. m
  <2>1. \A q, r, s \in Nat : q >= 1 /\ r <= s + 1 => \A d \in q .. r - 1 : d \in 1 .. s
    OBVIOUS
  <2> QED
    BY <1>2, <2>1, Zenon
<1>5. ASSUME NEW d \in p[k] .. p[k + 1] - 1, b[d].kind = "loop", b[d].left = TRUE PROVE v # b[d].own
  <2>1. d \in DOMAIN b
    BY <1>2, <1>3, <1>4
  <2>2. b[d].left
    BY <1>5, Zenon
  <2> QED
    BY <1>5, <2>1, <2>2, Zenon
<1> QED
  BY <1>5 DEF Spares

LEMMA ReadOk ==
    ASSUME NEW p, NEW D, NEW k, NEW i, NEW n, NEW t, NEW r,
           ReadsWhere(fns, blocks, t, p, D, k, i, Meaning(n), r), Holder(fns, n) = k, FindLocal(fns[k], n) = i
    PROVE  ReadsOk(Read(fns, n), blocks, r, p)
<1>1. PICK v : v = Meaning(n)
  OBVIOUS
<1>2. ReadsWhere(fns, blocks, t, p, D, k, i, v, r)
  BY <1>1
<1>3. k # 0 /\ k \in 1 .. Len(fns)
  BY <1>2, LenProperties DEF ReadsWhere
<1>4. CASE k = Len(fns)
  <2>1. PICK f, h : f = fns /\ h = Read(fns, n)
    OBVIOUS
  <2>2. h = [f EXCEPT ![Len(f)] = Emit(@, <<[op |-> "get", at |-> i, var |-> v]>>)]
    BY <1>1, <1>3, <1>4, <2>1 DEF Read
  <2>3. PICK b : b = blocks
    OBVIOUS
  <2>4. ReadsWhere(f, b, t, p, D, k, i, v, r) /\ k = Len(f)
    BY <1>2, <1>4, <2>1, <2>3
  <2>5. ReadsOk(h, b, r, p)
    BY <2>2, <2>4, GetOk
  <2> QED
    BY <2>1, <2>3, <2>5
<1>5. CASE k # Len(fns)
  <2>1. PICK f, b, h : f = fns /\ b = blocks /\ h = Read(fns, n)
    OBVIOUS
  <2>2. PICK g, a : g = Capture(f, k, i) /\ a = UpvalueIndex(f[Len(f)], Upvalues(f, k, i)[Len(f)])
    OBVIOUS
  <2>3. h = [g EXCEPT ![Len(f)] = Emit(@, <<[op |-> "upvalue", at |-> a, var |-> v]>>)]
    BY <1>1, <1>3, <1>5, <2>1, <2>2 DEF Read
  <2>4. ReadsWhere(f, b, t, p, D, k, i, v, r) /\ k # Len(f)
    BY <1>2, <1>5, <2>1
  <2>5. ReadsOk(h, b, r, p)
    BY <2>2, <2>3, <2>4, CaptureOk, ZenonT(60)
  <2> QED
    BY <2>1, <2>5
<1> QED
  BY <1>4, <1>5

LEMMA LaterConsistent ==
    ASSUME NEW f, NEW b, NEW t, NEW p, Consistent(f, b, t, p), NEW r, t => r
    PROVE  Consistent(f, b, r, p)
<1>1. \A k \in 1 .. Len(f) : Sits(f[k], Segment(f, b, p, k)) /\ Compiled(t, f[k], Segment(f, b, p, k))
  BY DEF Consistent
<1>2. ASSUME NEW k \in 1 .. Len(f) PROVE Compiled(r, f[k], Segment(f, b, p, k))
  BY <1>1 DEF Compiled
<1> QED
  BY <1>1, <1>2 DEF Consistent

LEMMA UseStep ==
    ASSUME ScopesInv, NEW n \in Nat \ {0}, Use(n)
    PROVE  ScopesInv'
<1>1. /\ status = "compile" /\ late \in BOOLEAN /\ text.length \in Nat
      /\ text'.length = text.length + 1 /\ text'.names \in Nat
  BY ReadsIs DEF Use, ReadsStatement
<1>2. late' \in BOOLEAN /\ (late => late') /\ (~late' => ~Overdue(n)) /\ blocks' = blocks
  BY DEF Use
<1>3. CASE Refuses(fns, n)
  <2>1. status' = "refused"
    BY <1>3 DEF Use
  <2> QED
    BY <1>1, <1>2, <2>1 DEF ScopesInv
<1>4. CASE ~Refuses(fns, n)
  <2>1. status' = "compile" /\ fns' = Read(fns, n)
    BY <1>1, <1>4 DEF Use
  <2>2. CompileOk(fns, blocks, text.length, late)
    BY <1>1 DEF ScopesInv, CompileInv
  <2>3. /\ fns \in Seq(Compilers) /\ Len(fns) > 0 /\ blocks \in Seq(Constructs)
        /\ DeclaredOnce(blocks, text.length)
    BY <2>2 DEF CompileOk
  <2>4. PICK p : Consistent(fns, blocks, late, p)
    BY <2>2 DEF CompileOk
  <2>5. PICK D : UpvaluesDenote(fns, D)
    BY <2>2 DEF CompileOk
  <2>6. PICK k, i, d : Resolved(fns, blocks, p, n, k, i, d)
    BY <2>3, <2>4, ResolvedIs
  <2>7. PICK r : r = late'
    OBVIOUS
  <2>8. PICK g : g = fns'
    OBVIOUS
  <2>9. ReadsOk(g, blocks, r, p)
    <3>1. CASE k = 0
      <4>1. g = fns
        BY <2>1, <2>6, <2>8, <3>1 DEF Read, Resolved
      <4>2. Consistent(fns, blocks, r, p)
        BY <1>2, <2>4, <2>7, LaterConsistent
      <4> QED
        BY <2>3, <2>5, <4>1, <4>2 DEF ReadsOk
    <3>2. CASE k # 0
      <4>1. PICK v : v = MeaningIn(blocks, n)
        OBVIOUS
      <4>2. v = Meaning(n)
        BY <4>1 DEF Meaning, MeaningIn, DeclaredAt
      <4>3. /\ Holder(fns, n) = k /\ k \in 1 .. Len(fns) /\ FindLocal(fns[k], n) = i
            /\ i \in 1 .. Len(fns[k].locals) /\ fns[k].locals[i].var = v
        BY <2>6, <3>2, <4>1 DEF Resolved
      <4>4. v \in Nat
        <5>1. fns[k] \in Compilers
          BY <2>3, <4>3
        <5>2. fns[k].locals[i] \in Locals
          BY <4>3, <5>1, CompilerIs
        <5> QED
          BY <4>3, <5>2, LocalIs
      <4>5. fns[k].locals[i].depth # Uninitialized
        BY <1>4, <3>2, <4>3 DEF Refuses, Local
      <4>6. k # Len(fns) => r \/ Spares(blocks, p, k, v)
        <5> SUFFICES ASSUME k # Len(fns), ~r PROVE Spares(blocks, p, k, v)
          OBVIOUS
        <5>1. ~Overdue(n)
          BY <1>2, <2>7
        <5>2. \A e \in DOMAIN blocks : ~(blocks[e].kind = "loop" /\ blocks[e].left /\ blocks[e].own = v)
          BY <4>2, <4>3, <5>1 DEF Overdue
        <5>3. Segmented(fns, blocks, p)
          BY <2>4 DEF Consistent
        <5> QED
          BY <2>3, <4>3, <5>2, <5>3, SparesIs
      <4>7. ReadsWhere(fns, blocks, late, p, D, k, i, Meaning(n), r)
        BY <1>2, <2>3, <2>4, <2>5, <2>7, <4>2, <4>3, <4>4, <4>5, <4>6 DEF ReadsWhere
      <4> QED
        BY <2>1, <2>8, <4>3, <4>7, ReadOk
    <3> QED
      BY <3>1, <3>2
  <2>10. DeclaredOnce(blocks, text.length + 1)
    <3>1. \A e \in 1 .. Len(blocks) :
             DOMAIN blocks[e].decls = {} \/ (e \in 1 .. Len(blocks) /\ blocks[e].decls = blocks[e].decls)
      OBVIOUS
    <3>2. text.length + 1 \in {text.length, text.length + 1}
      OBVIOUS
    <3> QED
      BY <1>1, <2>3, <3>1, <3>2, SameDeclared
  <2>11. CompileOk(g, blocks, text.length + 1, r)
    BY <2>3, <2>9, <2>10 DEF CompileOk, ReadsOk
  <2> QED
    BY <1>1, <1>2, <2>1, <2>7, <2>8, <2>11, CompileStep
<1> QED
  BY <1>3, <1>4

-----------------------------------------------------------------------------
(* What an upvalue stands for                                              *)

LEMMA DenotedIs ==
    ASSUME fns \in Seq(Compilers), NEW D, UpvaluesDenote(fns, D), NEW k \in 1 .. Len(fns),
           NEW i \in 1 .. Len(fns[k].upvalues)
    PROVE  Denoted(k, i) = D[k][i]
<1>1. PICK f, n : f = fns /\ n = Len(f) /\ n \in Nat
  BY LenProperties
<1>2. k \in 1 .. n /\ f \in Seq(Compilers) /\ UpvaluesDenote(f, D)
  BY <1>1
<1> DEFINE At(g, l, j) == LET u == f[l].upvalues[j]
                          IN  IF u.isLocal THEN f[l - 1].locals[u.index].var ELSE g[l - 1][u.index]
           F(g) == [l \in 1 .. k |-> [j \in DOMAIN f[l].upvalues |-> At(g, l, j)]]
<1>3. ASSUME NEW l \in 1 .. k
      PROVE  /\ l \in 1 .. n /\ l \in Nat /\ DOMAIN f[l].upvalues = 1 .. Len(f[l].upvalues)
             /\ f[l].upvalues \in Seq(UpvalueRefs)
  <2>1. l \in 1 .. n /\ l \in Nat
    BY <1>1, <1>2
  <2>2. f[l] \in Compilers
    BY <1>1, <1>2, <2>1
  <2> QED
    BY <2>1, <2>2, CompilerIs, LenProperties
<1>4. ASSUME NEW l \in 1 .. k, NEW j \in 1 .. Len(f[l].upvalues)
      PROVE  \E u \in UpvalueRefs :
                /\ u = f[l].upvalues[j]
                /\ u.isLocal => f[l - 1].locals[u.index].var = D[l][j]
                /\ ~u.isLocal => /\ l - 1 \in 1 .. k /\ l - 1 < l
                                 /\ u.index \in 1 .. Len(f[l - 1].upvalues) /\ D[l - 1][u.index] = D[l][j]
  <2>1. PICK u \in UpvalueRefs : u = f[l].upvalues[j]
    BY <1>3, ElementOfSeq
  <2>2. UpvalueDenotes(f, D, l, j)
    BY <1>1, <1>2, <1>3, <1>4 DEF UpvaluesDenote
  <2>3. /\ l > 1
        /\ u.isLocal = TRUE => f[l - 1].locals[u.index].var = D[l][j]
        /\ u.isLocal = FALSE => u.index \in 1 .. Len(f[l - 1].upvalues) /\ D[l - 1][u.index] = D[l][j]
    BY <2>1, <2>2 DEF UpvalueDenotes
  <2>4. u.isLocal = TRUE \/ u.isLocal = FALSE
    BY DEF UpvalueRefs
  <2>5. l - 1 \in 1 .. k /\ l - 1 < l
    BY <1>2, <2>3
  <2>6. (u.isLocal => u.isLocal = TRUE) /\ (~u.isLocal => u.isLocal = FALSE)
    BY <2>4, Zenon
  <2> QED
    BY <2>1, <2>3, <2>5, <2>6
<1>5. PICK w : w = [l \in 1 .. k |-> [j \in DOMAIN f[l].upvalues |-> D[l][j]]]
  OBVIOUS
<1>6. w = F(w)
  <2>1. ASSUME NEW l \in 1 .. k, NEW j \in DOMAIN f[l].upvalues PROVE D[l][j] = At(w, l, j)
    <3>1. PICK u \in UpvalueRefs :
                /\ u = f[l].upvalues[j]
                /\ u.isLocal => f[l - 1].locals[u.index].var = D[l][j]
                /\ ~u.isLocal => /\ l - 1 \in 1 .. k /\ l - 1 < l
                                 /\ u.index \in 1 .. Len(f[l - 1].upvalues) /\ D[l - 1][u.index] = D[l][j]
      BY <1>3, <1>4
    <3>2. CASE u.isLocal
      BY <3>1, <3>2
    <3>3. CASE ~u.isLocal
      <4>1. PICK m \in 1 .. k : m = l - 1 /\ u.index \in 1 .. Len(f[m].upvalues) /\ D[m][u.index] = D[l][j]
        BY <3>1, <3>3
      <4>2. w[m][u.index] = D[m][u.index]
        BY <1>3, <1>5, <4>1
      <4> QED
        BY <3>1, <3>3, <4>1, <4>2
    <3> QED
      BY <3>2, <3>3
  <2>2. ASSUME NEW l \in 1 .. k
        PROVE  [j \in DOMAIN f[l].upvalues |-> D[l][j]] = [j \in DOMAIN f[l].upvalues |-> At(w, l, j)]
    <3> HIDE DEF At
    <3> QED
      BY <2>1
  <2> HIDE DEF At
  <2> QED
    BY <1>5, <2>2
<1>7. PICK g : g = CHOOSE h : h = F(h)
  OBVIOUS
<1>8. g = F(g)
  <2> HIDE DEF F
  <2> QED
    BY <1>6, <1>7
<1>9. Denoted(k, i) = g[k][i]
  BY <1>1, <1>7, ZenonT(60) DEF Denoted
<1>10. ASSUME NEW l \in 1 .. k, NEW j \in 1 .. Len(f[l].upvalues) PROVE g[l][j] = At(g, l, j)
  <2>1. j \in DOMAIN f[l].upvalues
    BY <1>3, <1>10
  <2>2. F(g)[l] = [m \in DOMAIN f[l].upvalues |-> At(g, l, m)]
    OBVIOUS
  <2>3. [m \in DOMAIN f[l].upvalues |-> At(g, l, m)][j] = At(g, l, j)
    <3> HIDE DEF At
    <3> QED
      BY <2>1
  <2>4. g[l] = F(g)[l]
    <3> HIDE DEF F
    <3> QED
      BY <1>8
  <2> HIDE DEF At, F
  <2> QED
    BY <2>2, <2>3, <2>4
<1> DEFINE P == {m \in Nat : \A l \in 1 .. k : l <= m => \A j \in 1 .. Len(f[l].upvalues) : g[l][j] = D[l][j]}
<1>11. P = Nat
  <2>1. P \in SUBSET Nat /\ 0 \in P
    OBVIOUS
  <2>2. ASSUME NEW m \in P PROVE m + 1 \in P
    <3>1. m \in Nat /\ \A l \in 1 .. k : l <= m => \A j \in 1 .. Len(f[l].upvalues) : g[l][j] = D[l][j]
      OBVIOUS
    <3>2. ASSUME NEW l \in 1 .. k, l <= m + 1, NEW j \in 1 .. Len(f[l].upvalues) PROVE g[l][j] = D[l][j]
      <4>1. PICK u \in UpvalueRefs :
                /\ u = f[l].upvalues[j]
                /\ u.isLocal => f[l - 1].locals[u.index].var = D[l][j]
                /\ ~u.isLocal => /\ l - 1 \in 1 .. k /\ l - 1 < l
                                 /\ u.index \in 1 .. Len(f[l - 1].upvalues) /\ D[l - 1][u.index] = D[l][j]
        BY <1>4
      <4>2. CASE u.isLocal
        BY <1>10, <4>1, <4>2
      <4>3. CASE ~u.isLocal
        <5>1. PICK q \in 1 .. k : q = l - 1 /\ u.index \in 1 .. Len(f[q].upvalues) /\ D[q][u.index] = D[l][j]
          BY <4>1, <4>3
        <5>2. q <= m
          BY <3>1, <3>2, <5>1
        <5>3. g[q][u.index] = D[q][u.index]
          BY <3>1, <5>1, <5>2
        <5> QED
          BY <1>10, <4>1, <4>3, <5>1, <5>3
      <4> QED
        BY <4>2, <4>3
    <3> QED
      BY <3>1, <3>2
  <2> HIDE DEF P
  <2> QED
    BY <2>1, <2>2, AllNaturals
<1>12. k \in P
  <2>1. k \in Nat
    BY <1>2
  <2> HIDE DEF P
  <2> QED
    BY <1>11, <2>1
<1>13. k \in 1 .. k /\ i \in 1 .. Len(f[k].upvalues)
  BY <1>1, <1>2
<1> QED
  BY <1>9, <1>12, <1>13

LEMMA ResolvedNames ==
    ASSUME ScopesInv
    PROVE  NamesAreResolved
<1> SUFFICES ASSUME status = "compile"
             PROVE  /\ \A n \in 1 .. MaxNames :
                          /\ Last(blocks).kind # "match" => (Clashes(Current, n) <=> Declared(n))
                          /\ Refuses(fns, n) <=> Meaning(n) \in Unfinished
                          /\ (IF Holder(fns, n) = 0 THEN Temp ELSE Local(fns, n).var) = Meaning(n)
                    /\ \A k \in DOMAIN fns : \A i \in ToSet(fns[k].code) :
                          i.op = "upvalue" => Denoted(k, i.at) = i.var
  BY DEF NamesAreResolved
<1>1. CompileOk(fns, blocks, text.length, late) /\ text.length \in Nat
  BY DEF ScopesInv, CompileInv
<1>2. /\ fns \in Seq(Compilers) /\ Len(fns) > 0 /\ blocks \in Seq(Constructs)
      /\ DeclaredOnce(blocks, text.length)
  BY <1>1 DEF CompileOk
<1>3. PICK p : Consistent(fns, blocks, late, p)
  BY <1>1 DEF CompileOk
<1>4. PICK D : UpvaluesDenote(fns, D)
  BY <1>1 DEF CompileOk
<1>5. ASSUME NEW n \in 1 .. MaxNames
      PROVE  /\ Last(blocks).kind # "match" => (Clashes(Current, n) <=> Declared(n))
             /\ Refuses(fns, n) <=> Meaning(n) \in Unfinished
             /\ (IF Holder(fns, n) = 0 THEN Temp ELSE Local(fns, n).var) = Meaning(n)
  <2>1. n \in Nat \ {0}
    BY BoundsAssumption
  <2>2. PICK q, o, c, bs : StandsIn(q, o, c, bs)
    BY StandsInIs
  <2>3. Here(c, bs) /\ c = Current /\ Last(blocks) = bs[Len(bs)]
    BY <2>2 DEF StandsIn
  <2>4. Clashes(Current, n) <=> Declared(n)
    <3>1. Clashes(c, n) <=> n \in DOMAIN bs[Len(bs)].decls
      BY <2>1, <2>3, ClashesIs
    <3> QED
      BY <2>3, <3>1 DEF Declared
  <2>5. Meaning(n) = MeaningIn(blocks, n)
    BY DEF Meaning, MeaningIn, DeclaredAt
  <2>6. Unfinished = Ending(blocks)
    BY DEF Unfinished, Ending
  <2>7. PICK f, b, v : f = fns /\ b = blocks /\ v = text.length
    OBVIOUS
  <2>8. /\ Refuses(f, n) <=> MeaningIn(b, n) \in Ending(b)
        /\ (IF Holder(f, n) = 0 THEN Temp ELSE Local(f, n).var) = MeaningIn(b, n)
    BY <1>1, <1>2, <1>3, <2>1, <2>7, RefusesIs
  <2> QED
    BY <2>4, <2>5, <2>6, <2>7, <2>8
<1>6. ASSUME NEW k \in DOMAIN fns, NEW x \in ToSet(fns[k].code), x.op = "upvalue"
      PROVE  Denoted(k, x.at) = x.var
  <2>1. k \in 1 .. Len(fns)
    BY <1>2, LenProperties
  <2>2. fns[k] \in Compilers
    BY <1>2, <2>1
  <2>3. PICK q \in 1 .. Len(fns[k].code) : x = fns[k].code[q]
    <3>1. DOMAIN fns[k].code = 1 .. Len(fns[k].code)
      BY <2>2, CompilerIs
    <3> QED
      BY <3>1 DEF ToSet
  <2>4. UpvalueRead(fns, D, k, x)
    BY <1>4, <2>1, <2>3 DEF UpvaluesDenote
  <2>5. x.at \in 1 .. Len(fns[k].upvalues) /\ D[k][x.at] = x.var
    BY <1>6, <2>4 DEF UpvalueRead
  <2>6. Denoted(k, x.at) = D[k][x.at]
    BY <1>2, <1>4, <2>1, <2>5, DenotedIs
  <2> QED
    BY <2>5, <2>6
<1> QED
  BY <1>5, <1>6

-----------------------------------------------------------------------------
(* A function begins                                                       *)

\* bs is what a new function of the variable v has.
NewBlocks(bs, v) ==
    /\ v \in Nat /\ bs \in Seq(Constructs) /\ Len(bs) = 1 /\ bs[1].kind = "fn" /\ DOMAIN bs[1].decls = {}

LEMMA FunctionConstruct ==
    ASSUME NEW v \in Nat
    PROVE  /\ Function(v) \in Constructs /\ Function(v).kind = "fn" /\ Function(v).self = v
           /\ DOMAIN Function(v).decls = {}
<1>1. NoDecls \in Decls /\ DOMAIN NoDecls = {}
  BY NoDeclsIs
<1> QED
  BY <1>1 DEF Function, Constructs

LEMMA NewIs ==
    /\ NewCompiler \in Compilers /\ NewCompiler.locals = <<>> /\ NewCompiler.upvalues = <<>>
    /\ NewCompiler.params = <<>> /\ NewCompiler.code = <<>> /\ NewCompiler.scopeDepth = 1
    /\ Len(NewCompiler.locals) = 0 /\ Len(NewCompiler.upvalues) = 0 /\ Len(NewCompiler.code) = 0
    /\ ~Inner(NewCompiler)
<1>1. <<>> \in Seq(Locals) /\ <<>> \in Seq(UpvalueRefs) /\ <<>> \in Seq(Nat) /\ <<>> \in Seq(Instructions)
      /\ Len(<<>>) = 0
  BY EmptySeq
<1>2. /\ NewCompiler.locals = <<>> /\ NewCompiler.upvalues = <<>>
      /\ NewCompiler.params = <<>> /\ NewCompiler.code = <<>> /\ NewCompiler.scopeDepth = 1
  BY DEF NewCompiler
<1>3. NewCompiler \in Compilers
  BY <1>1 DEF NewCompiler, Compilers
<1>4. ~Inner(NewCompiler)
  BY <1>1, <1>2 DEF Inner
<1> QED
  BY <1>1, <1>2, <1>3, <1>4

LEMMA NewSits ==
    ASSUME NEW bs, NEW v, NewBlocks(bs, v)
    PROVE  Sits(NewCompiler, bs)
<1>1. PICK c : c = NewCompiler /\ c \in Compilers /\ Len(c.locals) = 0 /\ c.scopeDepth = 1
  BY NewIs
<1>2. bs \in Seq(Constructs) /\ Len(bs) = 1 /\ DOMAIN bs[1].decls = {}
  BY DEF NewBlocks
<1>3. (\A i \in 1 .. Len(c.locals) : FALSE) /\ \A d \in 1 .. Len(bs) : d = 1
  BY <1>1, <1>2
<1>4. Named(c, bs)
  BY <1>1, <1>2, <1>3 DEF Named
<1> QED
  BY <1>1, <1>2, <1>4, NewIs DEF Sits

LEMMA NewCompiled ==
    ASSUME NEW bs, NEW v, NewBlocks(bs, v), NEW t
    PROVE  Compiled(t, NewCompiler, bs)
<1>1. PICK c : /\ c = NewCompiler /\ c \in Compilers /\ Len(c.locals) = 0 /\ Len(c.code) = 0
               /\ c.params = <<>> /\ c.scopeDepth = 1
  BY NewIs
<1>2. Sits(c, bs)
  BY <1>1, NewSits
<1>3. PICK L : L = [p \in Nat |-> <<>>]
  OBVIOUS
<1>4. PICK O : O = [p \in Nat |-> {}]
  OBVIOUS
<1>5. <<>> \in Seq(Nat)
  BY EmptySeq
<1>6. L \in [Nat -> Seq(Nat)] /\ O \in [Nat -> SUBSET Nat] /\ L[1] = <<>> /\ O[1] = {}
  BY <1>3, <1>4, <1>5
<1>7. (\A p \in 1 .. Len(c.code) : FALSE) /\ (\A d \in 1 .. Len(bs) : d = 1 /\ bs[d].kind = "fn") /\ End(c) = 1
      /\ (\A p \in 1 .. Len(c.code) + 1 : p = 1)
  BY <1>1 DEF NewBlocks, End
<1>8. Laid(c, bs, L)
  <2>1. Flow(c.code, L)
    BY <1>6, <1>7 DEF Flow
  <2>2. \A d \in 1 .. Len(bs) : BlockLaid(bs[d], d, c, L)
    BY <1>7 DEF BlockLaid
  <2> QED
    BY <1>7, <2>1, <2>2 DEF Laid
<1>9. Slots(c, c.scopeDepth) = <<>>
  <2>1. Sorted(c)
    BY <1>1, <1>2, NamedIsSorted DEF Sits
  <2>2. Base(c, 1) \in 0 .. 0 /\ Slots(c, 1) \in Seq(Nat) /\ Len(Slots(c, 1)) = Base(c, 1)
    BY <1>1, <2>1, BaseIs
  <2> QED
    BY <1>1, <2>2, EmptySeq
<1>10. OpenLaid(c, bs, L, O) /\ O[End(c)] \subseteq CapturedSlots(c)
  <2>1. OpenFlow(c.code, L, O)
    BY <1>6, <1>7 DEF OpenFlow
  <2>2. Covers(c, bs, L, O)
    BY <1>6, <1>7 DEF Covers, Pending
  <2> QED
    BY <1>6, <1>7, <2>1, <2>2 DEF OpenLaid
<1>11. L[End(c)] = Slots(c, c.scopeDepth) /\ L[1] = c.params
  BY <1>1, <1>6, <1>7, <1>9
<1> QED
  BY <1>1, <1>8, <1>10, <1>11 DEF Compiled

\* A new function, of the variable v, is opened in the last of the functions f.
OpensFn(f, b, g, bb, v) ==
    /\ f \in Seq(Compilers) /\ Len(f) > 0 /\ b \in Seq(Constructs) /\ v \in Nat
    /\ Inner(f[Len(f)]) /\ f[Len(f)].locals[Len(f[Len(f)].locals)].var = v
    /\ f[Len(f)].locals[Len(f[Len(f)].locals)].name # NoName
    /\ g \in Seq(Compilers) /\ Len(g) = Len(f) + 1 /\ g[Len(f) + 1] = NewCompiler
    /\ \A k \in 1 .. Len(f) : g[k] = f[k]
    /\ bb \in Seq(Constructs) /\ Extends(b, bb, Function(v))

\* The blocks of a new function, the last of k + 1, begin at n.
BeginsNow(p, q, k, n) ==
    /\ q \in [1 .. k + 2 -> Nat] /\ q[k + 2] = n + 2
    /\ \A l \in 1 .. k + 1 : q[l] = p[l]

LEMMA FnSegmented ==
    ASSUME NEW f, NEW b, NEW g, NEW bb, NEW v, OpensFn(f, b, g, bb, v),
           NEW p, Segmented(f, b, p), NEW q, BeginsNow(p, q, Len(f), Len(b))
    PROVE  Segmented(g, bb, q)
<1>1. PICK k \in Nat, n \in Nat : k = Len(f) /\ n = Len(b) /\ k > 0
  BY LenProperties DEF OpensFn
<1>2. /\ p \in [1 .. k + 1 -> Nat] /\ p[1] = 1 /\ p[k + 1] = n + 1
      /\ \A i, j \in 1 .. k + 1 : i < j => p[i] < p[j]
      /\ \A i \in 1 .. k : p[i + 1] = p[i] + f[i].scopeDepth
      /\ \A d \in 1 .. n : \E i \in 1 .. k : p[i] <= d /\ d < p[i + 1]
      /\ \A d \in 1 .. n : b[d].kind = "fn" <=> \E i \in 1 .. k : d = p[i]
  BY <1>1 DEF Segmented
<1>3. /\ q \in [1 .. k + 2 -> Nat] /\ q[k + 2] = n + 2
      /\ \A i \in 1 .. k + 1 : q[i] = p[i]
  BY <1>1 DEF BeginsNow
<1>4. /\ Len(g) = k + 1 /\ g[k + 1].scopeDepth = 1 /\ \A i \in 1 .. k : g[i] = f[i]
  BY <1>1, NewIs DEF OpensFn
<1>5. /\ Len(bb) = n + 1 /\ bb[n + 1].kind = "fn" /\ \A d \in 1 .. n : bb[d] = b[d]
  BY <1>1, FunctionConstruct DEF OpensFn, Extends
<1>6. /\ \A i \in 1 .. k + 1 : i \in 1 .. k + 2 /\ (i = k + 1 \/ i \in 1 .. k)
      /\ \A i \in 1 .. k : i \in 1 .. k + 1 /\ i + 1 \in 1 .. k + 1 /\ i < k + 1
      /\ \A i \in 1 .. k + 2 : i = k + 2 \/ i \in 1 .. k + 1
      /\ k + 1 \in 1 .. k + 1 /\ 1 \in 1 .. k + 1 /\ (k + 1) + 1 = k + 2
  BY <1>1
<1>7. \A i \in 1 .. k + 1 : p[i] \in Nat /\ p[i] <= n + 1
  <2>1. \A i \in 1 .. k + 1 : p[i] \in Nat
    BY <1>2
  <2>2. \A i \in 1 .. k : p[i] < n + 1
    BY <1>2, <1>6
  <2>3. (\A x \in Nat : x < n + 1 => x <= n + 1) /\ n + 1 <= n + 1
    BY <1>1
  <2>4. \A i \in 1 .. k : p[i] <= n + 1
    <3>1. \A i \in 1 .. k : p[i] \in Nat
      BY <1>6, <2>1
    <3> QED
      BY <2>2, <2>3, <3>1, Zenon
  <2> QED
    BY <1>2, <1>6, <2>1, <2>3, <2>4, Zenon
<1>8. ASSUME NEW i \in 1 .. k + 2, NEW j \in 1 .. k + 2, i < j PROVE q[i] < q[j]
  <2>1. i \in 1 .. k + 1
    BY <1>1, <1>8
  <2>2. CASE j = k + 2
    <3>1. q[i] <= n + 1 /\ q[i] \in Nat
      BY <1>3, <1>7, <2>1
    <3> QED
      BY <1>3, <2>2, <3>1
  <2>3. CASE j \in 1 .. k + 1
    BY <1>2, <1>3, <1>8, <2>1, <2>3
  <2> QED
    BY <1>6, <2>2, <2>3
<1>9. ASSUME NEW i \in 1 .. k + 1 PROVE q[i + 1] = q[i] + g[i].scopeDepth
  <2>1. CASE i = k + 1
    <3>1. q[i + 1] = n + 2 /\ q[i] = n + 1 /\ g[i].scopeDepth = 1
      BY <1>2, <1>3, <1>4, <1>6, <2>1
    <3> QED
      BY <3>1
  <2>2. CASE i \in 1 .. k
    BY <1>2, <1>3, <1>4, <1>6, <2>2
  <2> QED
    BY <1>6, <2>1, <2>2
<1>10. ASSUME NEW d \in 1 .. n + 1 PROVE \E i \in 1 .. k + 1 : q[i] <= d /\ d < q[i + 1]
  <2>1. CASE d = n + 1
    <3>1. q[k + 1] = n + 1 /\ q[k + 2] = n + 2
      BY <1>2, <1>3, <1>6
    <3>2. q[k + 1] <= d /\ d < q[k + 2]
      BY <2>1, <3>1
    <3> QED
      BY <1>6, <3>2
  <2>2. CASE d \in 1 .. n
    <3>1. PICK i \in 1 .. k : p[i] <= d /\ d < p[i + 1]
      BY <1>2, <2>2
    <3> QED
      BY <1>3, <1>6, <3>1
  <2> QED
    BY <2>1, <2>2
<1>11. ASSUME NEW d \in 1 .. n + 1 PROVE bb[d].kind = "fn" <=> \E i \in 1 .. k + 1 : d = q[i]
  <2>1. CASE d = n + 1
    BY <1>2, <1>3, <1>5, <1>6, <2>1
  <2>2. CASE d \in 1 .. n
    <3>1. (\E i \in 1 .. k + 1 : d = q[i]) <=> \E i \in 1 .. k : d = p[i]
      <4>1. d # q[k + 1]
        BY <1>2, <1>3, <1>6, <2>2
      <4> QED
        BY <1>3, <1>6, <4>1
    <3> QED
      BY <1>2, <1>5, <2>2, <3>1, ZenonT(60)
  <2> QED
    BY <2>1, <2>2
<1>12. q[1] = 1 /\ q[(k + 1) + 1] = Len(bb) + 1
  BY <1>2, <1>3, <1>5, <1>6
<1>13. k + 2 = Len(g) + 1 /\ k + 1 = Len(g)
  BY <1>4
<1> QED
  BY <1>3, <1>5, <1>8, <1>9, <1>10, <1>11, <1>12, <1>13 DEF Segmented

LEMMA FnOpens ==
    ASSUME NEW f, NEW b, NEW g, NEW bb, NEW v, OpensFn(f, b, g, bb, v),
           NEW t, NEW p, Standing(f, b, t, p), NEW q, BeginsNow(p, q, Len(f), Len(b))
    PROVE  Consistent(g, bb, t, q)
<1>1. PICK k \in Nat, n \in Nat : k = Len(f) /\ n = Len(b) /\ k > 0
  BY LenProperties DEF OpensFn
<1>2. /\ Segmented(f, b, p) /\ Nesting(f, b, p)
      /\ \A i \in 1 .. k : Sits(f[i], Segment(f, b, p, i)) /\ Compiled(t, f[i], Segment(f, b, p, i))
      /\ t \/ LeftAlone(f, b, p)
  BY <1>1 DEF Standing
<1>3. /\ f \in Seq(Compilers) /\ b \in Seq(Constructs) /\ v \in Nat
      /\ Len(g) = k + 1 /\ g[k + 1] = NewCompiler /\ \A i \in 1 .. k : g[i] = f[i]
  BY <1>1 DEF OpensFn
<1>4. /\ Len(bb) = n + 1 /\ bb[n + 1] = Function(v) /\ \A d \in 1 .. n : bb[d] = b[d]
  BY <1>1 DEF OpensFn, Extends
<1>5. \A i \in 1 .. k + 1 : q[i] = p[i]
  BY <1>1 DEF BeginsNow
<1>6. p \in [1 .. k + 1 -> Nat] /\ p[1] = 1 /\ p[k + 1] = n + 1
  BY <1>1, <1>2 DEF Segmented
<1>7. /\ \A i \in 1 .. k + 1 : i = k + 1 \/ i \in 1 .. k
      /\ \A i \in 1 .. k : i \in 1 .. k + 1 /\ i + 1 \in 1 .. k + 1 /\ (i = k \/ i \in 1 .. k - 1)
      /\ k + 1 \in 1 .. k + 1 /\ k \in 1 .. k /\ 1 \in 1 .. k + 1 /\ (k + 1) - 1 = k
  BY <1>1
<1>8. ASSUME NEW i \in 1 .. k
      PROVE  SegmentAt(f, b, p, i)
  BY <1>1, <1>2, <1>3, SegmentIs
<1>9. ASSUME NEW i \in 1 .. k PROVE Segment(g, bb, q, i) = Segment(f, b, p, i)
  <2>1. g[i] = f[i] /\ q[i] = p[i]
    BY <1>3, <1>5, <1>7
  <2>2. \A d \in 1 .. f[i].scopeDepth : p[i] + d - 1 \in 1 .. n
    BY <1>1, <1>8 DEF SegmentAt
  <2>3. \A d \in 1 .. f[i].scopeDepth : bb[p[i] + d - 1] = b[p[i] + d - 1]
    BY <1>4, <2>2
  <2> QED
    BY <2>1, <2>3 DEF Segment
<1>10. PICK bs : bs = Segment(g, bb, q, k + 1)
  OBVIOUS
<1>11. NewBlocks(bs, v)
  <2>1. g[k + 1].scopeDepth = 1 /\ q[k + 1] = n + 1
    BY <1>3, <1>5, <1>6, <1>7, NewIs
  <2>2. bs = [d \in 1 .. 1 |-> bb[(n + 1) + d - 1]]
    BY <1>10, <2>1 DEF Segment
  <2>3. \A d \in 1 .. 1 : (n + 1) + d - 1 = n + 1
    OBVIOUS
  <2>4. \A d \in 1 .. 1 : bb[(n + 1) + d - 1] = Function(v)
    BY <1>4, <2>3
  <2>5. Function(v) \in Constructs /\ Function(v).kind = "fn" /\ DOMAIN Function(v).decls = {}
    BY <1>3, FunctionConstruct
  <2>6. PICK x : x = Function(v)
    OBVIOUS
  <2>7. bs = [d \in 1 .. 1 |-> x]
    BY <2>2, <2>4, <2>6
  <2>8. bs \in [1 .. 1 -> Constructs] /\ 1 \in Nat /\ bs[1] = x
    BY <2>5, <2>6, <2>7
  <2>9. bs \in Seq(Constructs)
    BY <2>8, FunctionIsSeq
  <2>10. Len(bs) = 1
    BY <2>8, <2>9
  <2> QED
    BY <1>3, <2>5, <2>6, <2>8, <2>9, <2>10 DEF NewBlocks
<1>12. ASSUME NEW i \in 1 .. k + 1
       PROVE  Sits(g[i], Segment(g, bb, q, i)) /\ Compiled(t, g[i], Segment(g, bb, q, i))
  <2>1. CASE i = k + 1
    BY <1>3, <1>10, <1>11, <2>1, NewSits, NewCompiled
  <2>2. CASE i \in 1 .. k
    BY <1>2, <1>3, <1>9, <2>2
  <2> QED
    BY <1>7, <2>1, <2>2
<1>13. \A i \in 1 .. k : p[i] \in 1 .. n
  <2>1. ASSUME NEW i \in 1 .. k PROVE p[i] \in 1 .. n
    <3>1. i \in 1 .. k + 1 /\ i < k + 1
      BY <1>7
    <3>2. p[i] \in Nat /\ p[i] < n + 1
      BY <1>1, <1>2, <1>6, <1>7, <3>1 DEF Segmented
    <3>3. p[i] >= 1
      BY <1>8 DEF SegmentAt
    <3> QED
      BY <3>2, <3>3
  <2> QED
    BY <2>1
<1>14. Nested(g, bb, q)
  <2>1. bb[1].self = Temp
    <3>1. 1 \in 1 .. n
      BY <1>1, <1>6, <1>13
    <3> QED
      BY <1>2, <1>4, <3>1 DEF Nesting
  <2>2. ~Inner(g[Len(g)])
    BY <1>3, NewIs
  <2>3. ASSUME NEW l \in 1 .. k
        PROVE  /\ Inner(g[l])
               /\ g[l].locals[Len(g[l].locals)].var = bb[q[l + 1]].self
               /\ g[l].locals[Len(g[l].locals)].name # NoName
    <3>1. CASE l = k
      <4>1. /\ Inner(g[k]) /\ g[k].locals[Len(g[k].locals)].var = v
            /\ g[k].locals[Len(g[k].locals)].name # NoName
        BY <1>1, <1>3, <1>7 DEF OpensFn
      <4>2. bb[q[k + 1]].self = v
        BY <1>3, <1>4, <1>5, <1>6, <1>7, FunctionConstruct
      <4> QED
        BY <3>1, <4>1, <4>2
    <3>2. CASE l \in 1 .. k - 1
      <4>1. /\ Inner(f[l]) /\ f[l].locals[Len(f[l].locals)].var = b[p[l + 1]].self
            /\ f[l].locals[Len(f[l].locals)].name # NoName
        BY <1>1, <1>2, <3>2 DEF Nesting
      <4>2. l + 1 \in 1 .. k /\ l + 1 \in 1 .. k + 1
        BY <3>2
      <4>3. bb[q[l + 1]].self = b[p[l + 1]].self
        BY <1>4, <1>5, <1>13, <4>2
      <4> QED
        BY <1>3, <4>1, <4>3
    <3> QED
      BY <1>7, <3>1, <3>2
  <2> QED
    BY <1>3, <1>7, <2>1, <2>2, <2>3 DEF Nested
<1>15. Segmented(g, bb, q)
  BY <1>2, FnSegmented
<1>16. t \/ LeftAlone(g, bb, q)
  <2> SUFFICES ASSUME LeftAlone(f, b, p) PROVE LeftAlone(g, bb, q)
    BY <1>2
  <2>1. ASSUME NEW l \in 2 .. k + 1, NEW j \in 1 .. Len(g[l].upvalues),
               g[l].upvalues[j].isLocal = TRUE,
               NEW d \in q[l - 1] .. q[l] - 1, bb[d].kind = "loop", bb[d].left = TRUE
        PROVE  g[l - 1].locals[g[l].upvalues[j].index].var # bb[d].own
    <3>1. l # k + 1
      <4> SUFFICES ASSUME l = k + 1 PROVE FALSE
        OBVIOUS
      <4>1. Len(g[l].upvalues) = 0
        BY <1>3, NewIs
      <4> QED
        BY <2>1, <4>1
    <3>2. l \in 2 .. k /\ l \in 1 .. k /\ l - 1 \in 1 .. k
      BY <3>1
    <3>3. g[l] = f[l] /\ g[l - 1] = f[l - 1] /\ q[l - 1] = p[l - 1] /\ q[l] = p[l]
      BY <1>3, <1>5, <1>7, <3>2
    <3>4. d \in 1 .. n /\ d \in p[l - 1] .. p[l] - 1
      <4>1. PICK x \in 1 .. n, y \in 1 .. n : x = p[l - 1] /\ y = p[l]
        BY <1>13, <3>2
      <4>2. d \in x .. y - 1
        BY <3>3, <4>1
      <4>3. \A z \in x .. y - 1 : z \in 1 .. n
        OBVIOUS
      <4> QED
        BY <4>1, <4>2, <4>3
    <3>5. bb[d] = b[d]
      BY <1>4, <3>4
    <3> QED
      BY <1>1, <2>1, <3>2, <3>3, <3>4, <3>5 DEF LeftAlone
  <2> QED
    BY <1>3, <2>1 DEF LeftAlone
<1> QED
  BY <1>3, <1>12, <1>14, <1>15, <1>16 DEF Consistent

\* e is c with a local for the function of the variable v, that is not finished.
Names(c, bs, e, bb, v) ==
    /\ Sits(e, bb) /\ Leads(c, bs, e, bb) /\ Reuses(c, e) /\ e.upvalues = c.upvalues
    /\ Inner(e) /\ e.locals[Len(e.locals)].var = v /\ e.locals[Len(e.locals)].name # NoName

LEMMA FnNamed ==
    ASSUME NEW c, NEW bs, Here(c, bs), text.length \in Nat, NEW n \in Nat \ {0},
           n \notin DOMAIN bs[Len(bs)].decls, bs[Len(bs)].kind # "match",
           NEW bb \in Seq(Constructs), Declares(bs, bb, n)
    PROVE  Names(c, bs, AddLocal(c, n, Var), bb, Var)
<1>1. PICK v \in Nat : v = Var
  BY DEF Var
<1>2. PICK e : e = AddLocal(c, n, v)
  OBVIOUS
<1>3. /\ c \in Compilers /\ ~Inner(c) /\ Sorted(c) /\ Fits(c, bs) /\ Named(c, bs)
      /\ bs \in Seq(Constructs) /\ Len(bs) \in Nat /\ Len(bs) > 0
      /\ Len(bs) = c.scopeDepth /\ c.scopeDepth \in Nat
      /\ \A d \in 1 .. Len(bs) : bs[d] \in Constructs
  BY HereIs
<1>4. PICK k \in Nat : k = Len(c.locals)
  BY <1>3, CompilerIs
<1>5. /\ e \in Compilers /\ e.code = c.code /\ e.upvalues = c.upvalues
      /\ e.scopeDepth = c.scopeDepth /\ e.params = c.params
      /\ Len(e.locals) = k + 1 /\ \A i \in 1 .. k : e.locals[i] = c.locals[i]
      /\ e.locals[k + 1].name = n /\ e.locals[k + 1].var = v
      /\ e.locals[k + 1].depth = Uninitialized
  <2>1. LET x == AddLocal(c, n, v)
        IN  /\ x \in Compilers
            /\ x.code = c.code /\ x.upvalues = c.upvalues /\ x.scopeDepth = c.scopeDepth
            /\ x.params = c.params
            /\ Len(x.locals) = Len(c.locals) + 1
            /\ \A i \in 1 .. Len(c.locals) : x.locals[i] = c.locals[i]
            /\ x.locals[Len(c.locals) + 1] =
                  [name |-> n, var |-> v, depth |-> Uninitialized, captured |-> FALSE]
    BY <1>3, AddLocalIs
  <2>2. /\ e \in Compilers
        /\ e.code = c.code /\ e.upvalues = c.upvalues /\ e.scopeDepth = c.scopeDepth
        /\ e.params = c.params
        /\ Len(e.locals) = Len(c.locals) + 1
        /\ \A i \in 1 .. Len(c.locals) : e.locals[i] = c.locals[i]
        /\ e.locals[Len(c.locals) + 1] =
              [name |-> n, var |-> v, depth |-> Uninitialized, captured |-> FALSE]
    BY <1>2, <2>1
  <2> QED
    BY <1>4, <2>2
<1>6. /\ Len(bb) = Len(bs) /\ NamesMore(bs, bb, n, v)
      /\ \A d \in 1 .. Len(bs) : SameWait(bs[d], bb[d])
  BY <1>1, <1>3, DeclaresIs
<1>7. Named(e, bb)
  <2>1. LocalMore(c, e, n, v)
    BY <1>4, <1>5 DEF LocalMore
  <2> QED
    BY <1>3, <1>5, <1>6, <2>1, NamedDeclare
<1>8. Leads(e, bs, e, bb)
  <2>1. Len(bb) \in Nat /\ Len(bb) <= Len(bs)
    BY <1>3, <1>6
  <2> QED
    BY <1>3, <1>6, <2>1, WaitLeads
<1>9. Leads(c, bs, e, bs)
  <2>1. Sorted(e)
    BY <1>5, <1>7, NamedIsSorted
  <2>2. /\ \A i \in 1 .. k : i \in 1 .. k + 1
        /\ \A i \in 1 .. k + 1 : i \in 1 .. k \/ i = k + 1
    <3>1. \A x \in Nat : /\ \A i \in 1 .. x : i \in 1 .. x + 1
                         /\ \A i \in 1 .. x + 1 : i \in 1 .. x \/ i = x + 1
      OBVIOUS
    <3> QED
      BY <3>1
  <2>3. \A d \in Nat : Uninitialized \notin 1 .. d
    BY DEF Uninitialized
  <2>4. ASSUME NEW d \in Nat PROVE Base(e, d) = Base(c, d) /\ Slots(e, d) = Slots(c, d)
    <3>1. \A i \in 1 .. Len(c.locals) : c.locals[i].depth \in 1 .. d =>
              /\ i \in 1 .. Len(e.locals) /\ e.locals[i].depth \in 1 .. d
              /\ e.locals[i].var = c.locals[i].var
      BY <1>4, <1>5, <2>2
    <3>2. \A i \in 1 .. Len(e.locals) : e.locals[i].depth \in 1 .. d =>
              i \in 1 .. Len(c.locals) /\ c.locals[i].depth \in 1 .. d
      BY <1>4, <1>5, <2>2, <2>3
    <3> QED
      BY <1>3, <1>5, <2>1, <3>1, <3>2, SameSlots
  <2>5. PICK m \in Nat : m = c.scopeDepth
    BY <1>3
  <2>6. SameUpTo(c, e, m)
    BY <2>4, <2>5 DEF SameUpTo
  <2>7. Slots(e, e.scopeDepth) = Slots(c, c.scopeDepth)
    BY <1>5, <2>4, <2>5
  <2>8. \A d \in 1 .. Len(bs) : d - 1 <= m /\ (bs[d].kind = "match" => d <= m)
    BY <1>3, <2>5
  <2>9. CapturedSlots(c) \cap 1 .. Base(c, c.scopeDepth) \subseteq CapturedSlots(e)
    BY <1>4, <1>5, <2>2 DEF CapturedSlots
  <2> QED
    BY <1>3, <1>5, <2>1, <2>5, <2>6, <2>7, <2>8, <2>9, NoCodeLeads
<1>10. Leads(c, bs, e, bb)
  BY <1>8, <1>9, LeadsOn
<1>11. Sits(e, bb) /\ Reuses(c, e)
  <2>1. Len(bs) \in 1 .. Len(bs)
    BY <1>3
  <2>2. bb[Len(bb)].kind # "match"
    BY <1>6, <2>1 DEF SameWait
  <2> QED
    BY <1>3, <1>5, <1>6, <1>7, <2>2, SameCodeReuses DEF Sits
<1>12. Inner(e) /\ e.locals[Len(e.locals)].var = v /\ e.locals[Len(e.locals)].name # NoName
  BY <1>4, <1>5 DEF Inner, NoName
<1> QED
  BY <1>1, <1>2, <1>5, <1>10, <1>11, <1>12 DEF Names

\* The functions end with the new one, of the variable v.
LEMMA FnDenote ==
    ASSUME NEW f \in Seq(Compilers), NEW g \in Seq(Compilers), Len(g) = Len(f) + 1,
           g[Len(f) + 1] = NewCompiler, \A k \in 1 .. Len(f) : g[k] = f[k],
           NEW D, UpvaluesDenote(f, D)
    PROVE  UpvaluesDenote(g, Append(D, <<>>))
<1>1. PICK n \in Nat : n = Len(f)
  BY LenProperties
<1>2. D \in Seq(Seq(Nat)) /\ Len(D) = n
  BY <1>1 DEF UpvaluesDenote
<1>3. PICK E : E = Append(D, <<>>)
  OBVIOUS
<1>4. <<>> \in Seq(Nat) /\ Len(<<>>) = 0
  BY EmptySeq
<1>5. /\ E \in Seq(Seq(Nat)) /\ Len(E) = n + 1 /\ E[n + 1] = <<>>
      /\ \A k \in 1 .. n : E[k] = D[k]
  BY <1>2, <1>3, <1>4, AppendProperties
<1>6. /\ \A k \in 1 .. n : k \in 1 .. n + 1 /\ (k > 1 => k - 1 \in 1 .. n)
      /\ \A k \in 1 .. n + 1 : k \in 1 .. n \/ k = n + 1
  BY <1>1
<1>7. ASSUME NEW k \in 1 .. n
      PROVE  /\ Len(E[k]) = Len(g[k].upvalues)
             /\ \A j \in 1 .. Len(g[k].upvalues) : UpvalueDenotes(g, E, k, j)
             /\ \A q \in 1 .. Len(g[k].code) : UpvalueRead(g, E, k, g[k].code[q])
  <2>1. g[k] = f[k] /\ E[k] = D[k]
    BY <1>1, <1>5
  <2>2. /\ Len(D[k]) = Len(f[k].upvalues)
        /\ \A j \in 1 .. Len(f[k].upvalues) : UpvalueDenotes(f, D, k, j)
        /\ \A q \in 1 .. Len(f[k].code) : UpvalueRead(f, D, k, f[k].code[q])
    BY <1>1 DEF UpvaluesDenote
  <2>3. k > 1 => g[k - 1] = f[k - 1] /\ E[k - 1] = D[k - 1]
    BY <1>1, <1>5, <1>6
  <2>4. ASSUME NEW j \in 1 .. Len(g[k].upvalues) PROVE UpvalueDenotes(g, E, k, j)
    <3>1. UpvalueDenotes(f, D, k, j)
      BY <2>1, <2>2
    <3>2. k > 1
      BY <3>1 DEF UpvalueDenotes
    <3> QED
      BY <2>1, <2>3, <3>1, <3>2 DEF UpvalueDenotes
  <2>5. \A q \in 1 .. Len(g[k].code) : UpvalueRead(g, E, k, g[k].code[q])
    BY <2>1, <2>2 DEF UpvalueRead
  <2> QED
    BY <2>1, <2>2, <2>4, <2>5
<1>8. /\ Len(E[n + 1]) = Len(g[n + 1].upvalues)
      /\ \A j \in 1 .. Len(g[n + 1].upvalues) : FALSE
      /\ \A q \in 1 .. Len(g[n + 1].code) : FALSE
  BY <1>1, <1>4, <1>5, NewIs
<1>9. ASSUME NEW k \in 1 .. n + 1
      PROVE  /\ Len(E[k]) = Len(g[k].upvalues)
             /\ \A j \in 1 .. Len(g[k].upvalues) : UpvalueDenotes(g, E, k, j)
             /\ \A q \in 1 .. Len(g[k].code) : UpvalueRead(g, E, k, g[k].code[q])
  BY <1>6, <1>7, <1>8
<1>10. UpvaluesDenote(g, E)
  BY <1>1, <1>5, <1>9 DEF UpvaluesDenote
<1> QED
  BY <1>3, <1>10

LEMMA FnStep ==
    ASSUME NEW f, NEW b, NEW n, NEW t, NEW p, NEW o, NEW c, NEW bs, NowOpens(f, b, n, t, p, o, c, bs),
           NEW h, NEW e, h = [f EXCEPT ![Len(f)] = e],
           NEW a, Above(b, a, o), NEW v \in Nat, Names(c, bs, e, Upper(a, o), v),
           NEW m \in Nat, DeclaredOnce(a, m),
           NEW g, g = Append(h, NewCompiler), NEW bb, bb = Append(a, Function(v))
    PROVE  CompileOk(g, bb, m, t)
<1>1. /\ f \in Seq(Compilers) /\ Len(f) > 0 /\ b \in Seq(Constructs)
      /\ Consistent(f, b, t, p) /\ LastOpen(f, b, t, p, o)
      /\ c = f[Len(f)] /\ bs = Upper(b, o)
  BY DEF NowOpens
<1>2. /\ Sits(e, Upper(a, o)) /\ Leads(c, bs, e, Upper(a, o)) /\ Reuses(c, e)
      /\ e.upvalues = c.upvalues /\ Inner(e) /\ e.locals[Len(e.locals)].var = v
      /\ e.locals[Len(e.locals)].name # NoName /\ e \in Compilers
  BY DEF Names, Sits
<1>3. PICK k \in Nat : k = Len(f) /\ k > 0 /\ k \in 1 .. k
  BY <1>1, LenProperties
<1>4. h \in Seq(Compilers) /\ Len(h) = k /\ h[k] = e /\ \A l \in 1 .. k : l # k => h[l] = f[l]
  BY <1>1, <1>2, <1>3, ExceptSeq
<1>5. OnlyLast(f, h, e, b, a, o)
  BY <1>3, <1>4 DEF Above, OnlyLast
<1>6. Standing(f, b, t, p)
  BY <1>1, StandingIs
<1>7. Compiled(t, e, Upper(a, o))
  <2>1. Compiled(t, c, bs)
    BY <1>1 DEF LastOpen
  <2> QED
    BY <1>2, <2>1, LeadsCompiled
<1>8. PICK l \in Nat : l = Len(a) /\ a \in Seq(Constructs)
  BY LenProperties DEF Above
<1>9. p \in [1 .. k + 1 -> Nat]
  BY <1>1, <1>3, BeginsIs DEF Consistent, Begins
<1>10. PICK r : r = [i \in 1 .. k + 1 |-> IF i = k + 1 THEN l + 1 ELSE p[i]]
  OBVIOUS
<1>11. k + 1 \in 1 .. k + 1 /\ l + 1 \in Nat /\ \A i \in 1 .. k : i \in 1 .. k + 1 /\ i # k + 1
  BY <1>3
<1>12. r \in [1 .. k + 1 -> Nat] /\ r[k + 1] = l + 1 /\ \A i \in 1 .. k : r[i] = p[i]
  <2>1. \A i \in 1 .. k + 1 : (IF i = k + 1 THEN l + 1 ELSE p[i]) \in Nat
    BY <1>9, <1>11
  <2> QED
    BY <1>10, <1>11, <2>1
<1>13. EndsNow(p, r, Len(f), Len(a))
  BY <1>3, <1>8, <1>12 DEF EndsNow
<1>14. Standing(h, a, t, r)
  BY <1>1, <1>2, <1>5, <1>6, <1>7, <1>13, TopStanding
<1>15. PICK q : q = [i \in 1 .. k + 2 |-> IF i = k + 2 THEN l + 2 ELSE r[i]]
  OBVIOUS
<1>16. k + 2 \in 1 .. k + 2 /\ l + 2 \in Nat /\ \A i \in 1 .. k + 1 : i \in 1 .. k + 2 /\ i # k + 2
  BY <1>3, <1>8
<1>17. q \in [1 .. k + 2 -> Nat] /\ q[k + 2] = l + 2 /\ \A i \in 1 .. k + 1 : q[i] = r[i]
  <2>1. \A i \in 1 .. k + 2 : i # k + 2 => i \in 1 .. k + 1
    BY <1>3
  <2>2. \A i \in 1 .. k + 2 : (IF i = k + 2 THEN l + 2 ELSE r[i]) \in Nat
    BY <1>12, <1>16, <2>1
  <2> QED
    BY <1>15, <1>16, <2>2
<1>18. BeginsNow(r, q, Len(h), Len(a))
  BY <1>4, <1>8, <1>17 DEF BeginsNow
<1>19. NewCompiler \in Compilers
  BY NewIs
<1>20. g \in Seq(Compilers) /\ Len(g) = k + 1 /\ g[k + 1] = NewCompiler /\ \A i \in 1 .. k : g[i] = h[i]
  BY <1>4, <1>19, AppendProperties
<1>21. Function(v) \in Constructs
  BY FunctionConstruct
<1>22. bb \in Seq(Constructs) /\ Extends(a, bb, Function(v))
  <2>1. bb \in Seq(Constructs) /\ Len(bb) = l + 1 /\ bb[l + 1] = Function(v) /\ \A d \in 1 .. l : bb[d] = a[d]
    BY <1>8, <1>21, AppendProperties
  <2> QED
    BY <1>8, <2>1 DEF Extends
<1>23. OpensFn(h, a, g, bb, v)
  BY <1>2, <1>3, <1>4, <1>8, <1>20, <1>22 DEF OpensFn
<1>24. Consistent(g, bb, t, q)
  BY <1>14, <1>18, <1>23, FnOpens
<1>25. PICK D : UpvaluesDenote(f, D)
  BY DEF NowOpens
<1>26. UpvaluesDenote(h, D)
  <2>1. Reuses(f[Len(f)], h[Len(f)]) /\ Len(h) = Len(f)
    BY <1>1, <1>2, <1>3, <1>4
  <2>2. \A i \in 1 .. Len(f) : i # Len(f) => h[i] = f[i]
    BY <1>3, <1>4
  <2> QED
    BY <1>1, <1>25, <2>1, <2>2, TopDenote, Zenon
<1>27. UpvaluesDenote(g, Append(D, <<>>))
  <2>1. Len(g) = Len(h) + 1 /\ g[Len(h) + 1] = NewCompiler /\ \A i \in 1 .. Len(h) : g[i] = h[i]
    BY <1>4, <1>20
  <2> QED
    BY <1>4, <1>20, <1>26, <2>1, FnDenote
<1>28. DeclaredOnce(bb, m)
  <2>1. DOMAIN Function(v).decls = {}
    BY FunctionConstruct
  <2>2. \A d \in 1 .. l + 1 : d \in 1 .. l \/ d = l + 1
    BY <1>8
  <2>3. \A d \in 1 .. Len(bb) :
            DOMAIN bb[d].decls = {} \/ (d \in 1 .. Len(a) /\ bb[d].decls = a[d].decls)
    BY <1>8, <1>22, <2>1, <2>2 DEF Extends
  <2> QED
    BY <2>3, SameDeclared
<1>29. Len(g) > 0
  BY <1>3, <1>20
<1>30. (\E y : Consistent(g, bb, t, y)) /\ \E y : UpvaluesDenote(g, y)
  BY <1>24, <1>27
<1> QED
  BY <1>20, <1>22, <1>28, <1>29, <1>30 DEF CompileOk

LEMMA BeginFnStep ==
    ASSUME ScopesInv, NEW n \in Nat \ {0}, BeginFn(n)
    PROVE  ScopesInv'
<1>1. /\ status = "compile" /\ late \in BOOLEAN /\ text.length \in Nat
      /\ text'.length = text.length + 1 /\ text'.names \in Nat
  BY ReadsIs DEF BeginFn, ReadsStatement
<1>2. PICK p, o, c, bs : StandsIn(p, o, c, bs)
  BY <1>1, StandsInIs
<1>3. PICK f, b, t, x : f = fns /\ b = blocks /\ t = late /\ x = text.length
  OBVIOUS
<1>4. PICK g, bb, v : g = fns' /\ bb = blocks' /\ v = Var /\ v \in Nat
  BY <1>1 DEF Var
<1>5. /\ NowOpens(f, b, x, t, p, o, c, bs) /\ Here(c, bs) /\ bs = Upper(b, o) /\ c = Last(f)
      /\ Under(b, o) /\ DeclaredOnce(b, text.length)
      /\ n \notin DOMAIN bs[Len(bs)].decls /\ n \notin DOMAIN b[Len(b)].decls
      /\ bs[Len(bs)].kind # "match"
  BY <1>2, <1>3 DEF StandsIn, BeginFn, Declared, Current, ReadsStatement
<1>6. PICK e, h, a : /\ e = AddLocal(c, n, v) /\ h = [f EXCEPT ![Len(f)] = e]
                     /\ a = [b EXCEPT ![Len(b)].decls = With(@, n)]
  OBVIOUS
<1>7. g = Append(h, NewCompiler) /\ bb = Append(a, Function(v)) /\ status' = status /\ late' = late
  <2>1. [fns EXCEPT ![Len(fns)] = AddLocal(@, n, Var)] = h
    BY <1>3, <1>4, <1>5, <1>6 DEF Last
  <2> QED
    BY <1>3, <1>4, <1>6, <2>1 DEF BeginFn, Declare
<1>8. DeclaredNow(b, a, o, n)
  BY <1>1, <1>3, <1>5, <1>6, DeclaredNowIs
<1>9. Upper(a, o) \in Seq(Constructs)
  BY <1>8, UnderIs DEF DeclaredNow
<1>10. Declares(bs, Upper(a, o), n)
  BY <1>5, <1>8 DEF DeclaredNow
<1>11. Names(c, bs, e, Upper(a, o), v)
  BY <1>1, <1>4, <1>5, <1>6, <1>9, <1>10, FnNamed
<1>12. Above(b, a, o) /\ DeclaredOnce(a, text.length + 1) /\ text.length + 1 \in Nat
  BY <1>1, <1>8 DEF DeclaredNow
<1>13. CompileOk(g, bb, text.length + 1, t)
  BY <1>4, <1>5, <1>6, <1>7, <1>11, <1>12, FnStep
<1> QED
  BY <1>1, <1>3, <1>4, <1>7, <1>13, CompileStep

-----------------------------------------------------------------------------
(* A closure captures what lies under it                                   *)

\* The slots in A that a loop around p began on.
Raised(bs, L, A, p) ==
    {s \in A : /\ s \in 1 .. Len(L[p])
               /\ \E d \in 1 .. Len(bs) :
                     bs[d].kind = "loop" /\ bs[d].start <= p /\ s <= Len(L[bs[d].start])}

\* The slots in A are captured, too, wherever the code may come back to the end.
Also(c, bs, L, O, A) ==
    [p \in Nat |-> IF p <= End(c) THEN O[p] \union Raised(bs, L, A, p) ELSE O[End(c)] \union A]

\* P is O up to the place n, with what Raised says, and has A after it.
AlsoTo(P, O, bs, L, A, n) ==
    /\ P \in [Nat -> SUBSET Nat]
    /\ \A p \in 1 .. n : P[p] = O[p] \union Raised(bs, L, A, p)
    /\ P[n + 1] = O[n] \union A

LEMMA AlsoIs ==
    ASSUME NEW c \in Compilers, NEW bs, NEW L, NEW O \in [Nat -> SUBSET Nat], NEW A \in SUBSET Nat
    PROVE  AlsoTo(Also(c, bs, L, O, A), O, bs, L, A, End(c))
<1>1. PICK n \in Nat : n = End(c)
  BY CompilerIs
<1>2. PICK P : P = [p \in Nat |-> IF p <= n THEN O[p] \union Raised(bs, L, A, p) ELSE O[n] \union A]
  OBVIOUS
<1>3. Also(c, bs, L, O, A) = P
  BY <1>1, <1>2, Zenon DEF Also
<1>4. \A p \in Nat : Raised(bs, L, A, p) \in SUBSET Nat /\ O[p] \in SUBSET Nat
  BY DEF Raised
<1>5. P \in [Nat -> SUBSET Nat]
  <2>1. \A p \in Nat : (IF p <= n THEN O[p] \union Raised(bs, L, A, p) ELSE O[n] \union A) \in SUBSET Nat
    BY <1>4
  <2> QED
    BY <1>2, <2>1
<1>6. (\A p \in 1 .. n : p \in Nat /\ p <= n) /\ n + 1 \in Nat /\ ~(n + 1 <= n)
  OBVIOUS
<1>7. \A p \in 1 .. n : P[p] = O[p] \union Raised(bs, L, A, p)
  BY <1>2, <1>6
<1>8. P[n + 1] = O[n] \union A
  BY <1>2, <1>6
<1> QED
  BY <1>1, <1>3, <1>5, <1>7, <1>8 DEF AlsoTo

\* The code does not pop what lies in A.
Unpopped(c, bs, L, A) ==
    \A p \in 1 .. Len(c.code) :
        c.code[p].op = "pop" => Len(L[p]) \notin Raised(bs, L, A, p)

LEMMA RaisedOn ==
    ASSUME NEW bs, NEW L, NEW A, NEW p, NEW q, NEW s \in Raised(bs, L, A, p), s \in 1 .. Len(L[q]),
           \A d \in 1 .. Len(bs) : bs[d].kind = "loop" /\ bs[d].start <= p => bs[d].start <= q
    PROVE  s \in Raised(bs, L, A, q)
BY DEF Raised

LEMMA RaisedStep ==
    ASSUME NEW c, NEW bs, Fits(c, bs), NEW L, Laid(c, bs, L), NEW A \in SUBSET Nat,
           Unpopped(c, bs, L, A), NEW O, OpenFlow(c.code, L, O), NEW P, NEW n, n = Len(c.code) + 1,
           AlsoTo(P, O, bs, L, A, n), NEW p \in 1 .. Len(c.code)
    PROVE  OpenStep(c.code[p], L, P, p)
<1>1. /\ c \in Compilers /\ Len(bs) \in Nat /\ L \in [Nat -> Seq(Nat)]
      /\ \A d \in 1 .. Len(bs) : bs[d] \in Constructs /\ d \in Nat
  BY FitsIs DEF Laid, Flow
<1>2. PICK l \in Nat : l = Len(c.code)
  BY <1>1, CompilerIs
<1>3. /\ p \in Nat /\ p \in 1 .. l /\ p + 1 \in 1 .. l + 1 /\ p \in 1 .. l + 1 /\ p + 1 \in Nat
      /\ p <= p + 1 /\ n = l + 1
  BY <1>2
<1>4. PICK i, X : i = c.code[p] /\ X = Raised(bs, L, A, p) /\ i \in Instructions
  BY <1>1, <1>2, <1>3, CompilerIs
<1>5. FlowStep(i, L, p, l) /\ OpenStep(i, L, O, p)
  BY <1>2, <1>3, <1>4 DEF Laid, Flow, OpenFlow
<1>6. \A q \in 1 .. l + 1 : P[q] = O[q] \union Raised(bs, L, A, q)
  BY <1>3 DEF AlsoTo
<1>7. PICK h \in Nat, hh \in Nat : h = Len(L[p]) /\ hh = Len(L[p + 1])
  BY <1>1, <1>3, LenProperties
<1>8. P[p] = O[p] \union X /\ P[p + 1] = O[p + 1] \union Raised(bs, L, A, p + 1)
  BY <1>3, <1>4, <1>6
<1>9. X \subseteq 1 .. h
  BY <1>4, <1>7 DEF Raised
<1>10. \A d \in 1 .. Len(bs) : bs[d].kind = "loop" =>
          bs[d].start \in Nat /\ (i.op \in {"jump", "branch"} /\ bs[d].start <= p => i.to = 0 \/ i.to >= bs[d].start)
  <2> SUFFICES ASSUME NEW d \in 1 .. Len(bs), bs[d].kind = "loop"
               PROVE  bs[d].start \in Nat
                      /\ (i.op \in {"jump", "branch"} /\ bs[d].start <= p => i.to = 0 \/ i.to >= bs[d].start)
    OBVIOUS
  <2>1. BlockLaid(bs[d], d, c, L)
    BY DEF Laid
  <2>2. /\ bs[d].start \in 1 .. Len(c.code)
        /\ \A q \in bs[d].start .. Len(c.code) :
              c.code[q].op \in {"jump", "branch"} => c.code[q].to = 0 \/ c.code[q].to >= bs[d].start
    BY <2>1 DEF BlockLaid
  <2>3. PICK st \in Nat : st = bs[d].start
    BY <2>2
  <2>4. st <= p => p \in st .. Len(c.code)
    BY <1>3, <1>2
  <2> QED
    BY <1>4, <2>2, <2>3, <2>4
<1>11. \A s \in X : s \in 1 .. hh => s \in Raised(bs, L, A, p + 1)
  <2>1. \A d \in 1 .. Len(bs) : bs[d].kind = "loop" /\ bs[d].start <= p => bs[d].start <= p + 1
    BY <1>3, <1>10
  <2> QED
    BY <1>4, <1>7, <2>1, RaisedOn
<1>12. i.op = "pop" => h \notin P[p]
  <2>1. i.op = "pop" => h \notin O[p]
    BY <1>5, <1>7, Zenon DEF OpenStep
  <2>2. i.op = "pop" => h \notin X
    BY <1>2, <1>3, <1>4, <1>7 DEF Unpopped
  <2> QED
    BY <1>8, <2>1, <2>2
<1>13. i.op = "closure" => \A x \in i.captures : x.at \in P[p + 1]
  <2>1. i.op = "closure" => \A x \in i.captures : x.at \in O[p + 1]
    BY <1>5, Zenon DEF OpenStep
  <2> QED
    BY <1>8, <2>1
<1>14. i.op \in {"pop", "close"} => h > 0 /\ hh = h - 1
  <2>1. i.op \in {"pop", "close"} => Len(L[p]) > 0 /\ L[p + 1] = Front(L[p])
    BY <1>5, Zenon DEF FlowStep
  <2>2. L[p] \in Seq(Nat)
    BY <1>1, <1>3
  <2>3. PICK z \in Seq(Nat) : z = L[p] /\ Len(z) = h
    BY <2>2, <1>7
  <2>4. h > 0 => Len(Front(z)) = h - 1
    BY <2>3, FrontIs
  <2> QED
    BY <1>7, <2>1, <2>3, <2>4
<1>15. i.op = "close" => P[p] \ {h} \subseteq P[p + 1]
  <2> SUFFICES ASSUME i.op = "close" PROVE P[p] \ {h} \subseteq P[p + 1]
    OBVIOUS
  <2>1. O[p] \ {h} \subseteq O[p + 1]
    BY <1>5, <1>7, Zenon DEF OpenStep
  <2>2. X \ {h} \subseteq Raised(bs, L, A, p + 1)
    BY <1>9, <1>11, <1>14
  <2> QED
    BY <1>8, <2>1, <2>2
<1>16. i.op \notin {"jump", "close"} => P[p] \subseteq P[p + 1]
  <2> SUFFICES ASSUME i.op \notin {"jump", "close"} PROVE P[p] \subseteq P[p + 1]
    OBVIOUS
  <2>1. O[p] \subseteq O[p + 1]
    BY <1>5, Zenon DEF OpenStep
  <2>2. \A s \in X : s \in 1 .. hh
    <3>1. CASE i.op = "pop"
      <4>1. h \notin X /\ hh = h - 1
        BY <3>1, <1>8, <1>12, <1>14
      <4> QED
        BY <1>9, <4>1
    <3>2. CASE i.op \in {"push", "closure"}
      <4>1. L[p + 1] = Append(L[p], i.var)
        BY <1>5, <3>2, Zenon DEF FlowStep
      <4>2. L[p] \in Seq(Nat) /\ i.var \in Nat
        BY <1>1, <1>3, <1>4, <3>2, InstructionIs DEF Pushes, Closures
      <4>3. hh = h + 1
        BY <1>7, <4>1, <4>2, PushedIs
      <4> QED
        BY <1>9, <4>3
    <3>3. CASE i.op \in {"get", "upvalue", "branch"}
      <4>1. L[p + 1] = L[p]
        BY <1>5, <3>3, Zenon DEF FlowStep
      <4> QED
        BY <1>7, <1>9, <4>1
    <3> QED
      BY <1>4, <3>1, <3>2, <3>3, InstructionIs
  <2> QED
    BY <1>8, <1>11, <2>1, <2>2
<1>17. ASSUME i.op \in {"jump", "branch"}, i.to # 0, i.op = "branch" => i.leaves = 0
       PROVE  P[p] \subseteq P[i.to]
  <2>1. i.to \in 1 .. l + 1 /\ L[i.to] = L[p]
    BY <1>5, <1>17, Zenon DEF FlowStep
  <2>2. O[p] \subseteq O[i.to]
    BY <1>5, <1>17, Zenon DEF OpenStep
  <2>3. PICK to \in Nat : to = i.to
    BY <2>1
  <2>4. \A d \in 1 .. Len(bs) : bs[d].kind = "loop" /\ bs[d].start <= p => bs[d].start <= to
    BY <1>10, <1>17, <2>3
  <2>5. X \subseteq Raised(bs, L, A, to)
    <3>1. \A s \in X : s \in 1 .. Len(L[to])
      BY <1>7, <1>9, <2>1, <2>3
    <3> QED
      BY <1>4, <2>4, <3>1, RaisedOn
  <2>6. P[to] = O[to] \union Raised(bs, L, A, to)
    BY <1>6, <2>1, <2>3
  <2> QED
    BY <1>8, <2>2, <2>3, <2>5, <2>6
<1>18. OpenStep(i, L, P, p)
  <2>1. i.op = "jump" /\ i.to # 0 => P[p] \subseteq P[i.to]
    BY <1>17
  <2>2. i.op = "branch" /\ i.to # 0 /\ i.leaves = 0 => P[p] \subseteq P[i.to]
    BY <1>17
  <2> QED
    BY <1>7, <1>12, <1>13, <1>15, <1>16, <2>1, <2>2, Zenon DEF OpenStep
<1> QED
  BY <1>4, <1>18

\* After the place n, where c ends, the slots that P has there stay open, and those that it has more.
RaisedOk(c, bs, L, P, n) ==
    /\ OpenLaid(c, bs, L, P) /\ P[n] \subseteq P[n + 1]
    /\ \A d \in 1 .. Len(bs) : bs[d].kind = "loop" =>
          P[n + 1] \cap 1 .. Len(L[bs[d].start]) \subseteq P[bs[d].start]

LEMMA RaisedLaid ==
    ASSUME NEW c, NEW bs, Fits(c, bs), NEW L, Laid(c, bs, L), NEW A \in SUBSET Nat,
           Unpopped(c, bs, L, A), NEW O, OpenLaid(c, bs, L, O), NEW P, NEW n, n = Len(c.code) + 1,
           AlsoTo(P, O, bs, L, A, n), A \subseteq 1 .. Len(L[n])
    PROVE  RaisedOk(c, bs, L, P, n)
<1>1. /\ c \in Compilers /\ Len(bs) \in Nat /\ L \in [Nat -> Seq(Nat)]
      /\ \A d \in 1 .. Len(bs) : bs[d] \in Constructs /\ BlockLaid(bs[d], d, c, L)
  BY FitsIs DEF Laid, Flow
<1>2. PICK l \in Nat : l = Len(c.code) /\ n = l + 1
  BY <1>1, CompilerIs
<1>3. /\ P \in [Nat -> SUBSET Nat] /\ P[n + 1] = O[n] \union A
      /\ \A q \in 1 .. n : P[q] = O[q] \union Raised(bs, L, A, q)
  BY DEF AlsoTo
<1>4. /\ n \in 1 .. n /\ \A q \in 1 .. l : q \in 1 .. n /\ q <= n
  BY <1>2
<1>5. OpenFlow(c.code, L, O) /\ Covers(c, bs, L, O) /\ End(c) = n
  BY <1>2 DEF OpenLaid, End
<1>6. OpenFlow(c.code, L, P)
  <2>1. \A q \in 1 .. l : OpenStep(c.code[q], L, P, q)
    BY <1>2, <1>5, RaisedStep
  <2>2. ASSUME NEW q \in 1 .. n PROVE P[q] \subseteq 1 .. Len(L[q])
    <3>1. O[q] \subseteq 1 .. Len(L[q])
      BY <1>2, <1>5 DEF OpenFlow
    <3>2. Raised(bs, L, A, q) \subseteq 1 .. Len(L[q])
      BY DEF Raised
    <3> QED
      BY <1>3, <3>1, <3>2
  <2> QED
    BY <1>2, <1>3, <2>1, <2>2 DEF OpenFlow
<1>7. ASSUME NEW d \in 1 .. Len(bs), bs[d].kind = "loop"
      PROVE  /\ bs[d].start \in 1 .. l
             /\ O[n] \cap 1 .. Len(L[bs[d].start]) \subseteq O[bs[d].start]
             /\ A \cap 1 .. Len(L[bs[d].start]) \subseteq P[bs[d].start]
             /\ P[bs[d].start] = O[bs[d].start] \union Raised(bs, L, A, bs[d].start)
  <2>1. bs[d].start \in 1 .. l
    BY <1>1, <1>2, <1>7 DEF BlockLaid
  <2>2. O[n] \cap 1 .. Len(L[bs[d].start]) \subseteq O[bs[d].start]
    BY <1>5, <1>7 DEF Covers
  <2>3. PICK st \in Nat : st = bs[d].start
    BY <2>1
  <2>4. st <= st /\ \A s \in 1 .. Len(L[st]) : s <= Len(L[st])
    BY <2>3
  <2>5. A \cap 1 .. Len(L[st]) \subseteq Raised(bs, L, A, st)
    BY <1>7, <2>3, <2>4 DEF Raised
  <2>6. P[st] = O[st] \union Raised(bs, L, A, st)
    BY <1>3, <1>4, <2>1, <2>3
  <2> QED
    BY <2>1, <2>2, <2>3, <2>5, <2>6
<1>8. Raised(bs, L, A, n) \subseteq A
  BY DEF Raised
<1>9. P[n] = O[n] \union Raised(bs, L, A, n)
  BY <1>3, <1>4
<1>10. ASSUME NEW d \in 1 .. Len(bs), NEW j \in Pending(bs[d], c) PROVE P[j] \subseteq P[n]
  <2>1. j \in 1 .. l
    BY <1>1, <1>2, PendingIs
  <2>2. O[j] \subseteq O[n]
    BY <1>5 DEF Covers
  <2>3. PICK q \in Nat : q = j /\ q \in 1 .. l
    BY <2>1
  <2>4. \A dd \in 1 .. Len(bs) : bs[dd].kind = "loop" /\ bs[dd].start <= q => bs[dd].start <= n
    <3>1. \A dd \in 1 .. Len(bs) : bs[dd].kind = "loop" => bs[dd].start \in 1 .. l
      BY <1>7
    <3> QED
      BY <1>4, <3>1
  <2>5. \A s \in Raised(bs, L, A, q) : s \in A
    BY DEF Raised
  <2>6. Raised(bs, L, A, q) \subseteq Raised(bs, L, A, n)
    BY <2>4, <2>5, RaisedOn
  <2>7. P[q] = O[q] \union Raised(bs, L, A, q)
    BY <1>3, <1>4, <2>3
  <2> QED
    BY <1>9, <2>2, <2>3, <2>6, <2>7
<1>11. Covers(c, bs, L, P)
  BY <1>5, <1>7, <1>8, <1>9, <1>10 DEF Covers
<1>12. OpenLaid(c, bs, L, P)
  BY <1>6, <1>11 DEF OpenLaid
<1>13. P[n] \subseteq P[n + 1]
  BY <1>3, <1>8, <1>9
<1>14. \A d \in 1 .. Len(bs) : bs[d].kind = "loop" =>
            P[n + 1] \cap 1 .. Len(L[bs[d].start]) \subseteq P[bs[d].start]
  BY <1>3, <1>7
<1> QED
  BY <1>12, <1>13, <1>14 DEF RaisedOk

\* The captured slots of i are in A.
CapturesIn(i, A) ==
    /\ i \in Instructions /\ i.op = "closure" /\ A \in SUBSET Nat
    /\ \A x \in i.captures : x.at \in A

LEMMA ClosureOpen ==
    ASSUME NEW c, NEW bs, Fits(c, bs), NEW e \in Compilers, NEW i, NEW A, CapturesIn(i, A),
           Grown(c, e, <<i>>), NEW v \in Nat, CapturedSlots(c) \subseteq CapturedSlots(e),
           NEW L, Ready(c, bs, L), NEW M \in [Nat -> Seq(Nat)],
           \A p \in 1 .. Len(c.code) + 1 : M[p] = L[p],
           M[Len(c.code) + 2] = Append(L[End(c)], v),
           Unpopped(c, bs, L, A), A \subseteq 1 .. Len(L[End(c)]), A \subseteq CapturedSlots(c),
           NEW O, Tracked(c, bs, L, O)
    PROVE  Tracked(e, bs, M, Also(c, bs, L, O, A))
<1>1. /\ c \in Compilers /\ Len(bs) \in Nat /\ Laid(c, bs, L) /\ L \in [Nat -> Seq(Nat)]
      /\ \A d \in 1 .. Len(bs) : bs[d] \in Constructs
  BY FitsIs DEF Ready, Laid, Flow
<1>2. PICK n \in Nat, s \in Seq(Nat) : n = Len(c.code) /\ s = L[End(c)] /\ End(c) = n + 1
  BY <1>1, CompilerIs
<1>3. PICK P : P = Also(c, bs, L, O, A)
  OBVIOUS
<1>4. /\ OpenLaid(c, bs, L, O) /\ O[n + 1] \subseteq CapturedSlots(c) /\ O \in [Nat -> SUBSET Nat]
      /\ O[n + 1] \subseteq 1 .. Len(s) /\ i \in Instructions /\ i.op = "closure" /\ A \in SUBSET Nat
      /\ \A x \in i.captures : x.at \in A
  <2>1. n + 1 \in 1 .. n + 1
    BY <1>2
  <2> QED
    BY <1>2, <2>1 DEF Tracked, OpenLaid, OpenFlow, CapturesIn
<1>5. AlsoTo(P, O, bs, L, A, n + 1)
  BY <1>1, <1>2, <1>3, <1>4, AlsoIs
<1>6. /\ OpenLaid(c, bs, L, P) /\ P[n + 1] \subseteq P[(n + 1) + 1]
      /\ \A d \in 1 .. Len(bs) : bs[d].kind = "loop" =>
            P[(n + 1) + 1] \cap 1 .. Len(L[bs[d].start]) \subseteq P[bs[d].start]
  <2>1. PICK m : m = n + 1
    OBVIOUS
  <2>2. m = Len(c.code) + 1 /\ AlsoTo(P, O, bs, L, A, m) /\ A \subseteq 1 .. Len(L[m])
    BY <1>2, <1>5, <2>1
  <2>3. A \in SUBSET Nat /\ Laid(c, bs, L) /\ OpenLaid(c, bs, L, O)
    BY <1>1, <1>4
  <2>4. RaisedOk(c, bs, L, P, m)
    BY <2>2, <2>3, RaisedLaid
  <2> QED
    BY <2>1, <2>4 DEF RaisedOk
<1>7. /\ P \in [Nat -> SUBSET Nat] /\ (n + 1) + 1 = n + 2 /\ P[n + 2] = O[n + 1] \union A
  <2>1. (n + 1) + 1 = n + 2
    OBVIOUS
  <2>2. P \in [Nat -> SUBSET Nat] /\ P[(n + 1) + 1] = O[n + 1] \union A
    BY <1>5, Zenon DEF AlsoTo
  <2> QED
    BY <2>1, <2>2, Zenon
<1>8. PICK xs \in Seq(Instructions) : xs = <<i>> /\ Len(xs) = 1 /\ xs[1] = i /\ Grown(c, e, xs)
  <2>1. <<i>> \in Seq(Instructions) /\ Len(<<i>>) = 1 /\ <<i>>[1] = i
    BY <1>4
  <2> QED
    BY <2>1, Zenon
<1>9. End(e) = n + 2
  <2>1. Len(e.code) = n + 1
    BY <1>2, <1>8 DEF Grown
  <2> QED
    BY <2>1 DEF End
<1>10. \A q \in 1 .. Len(xs) :
          /\ OpenStep(xs[q], M, P, Len(c.code) + q)
          /\ P[Len(c.code) + q + 1] \subseteq 1 .. Len(M[Len(c.code) + q + 1])
  <2>1. OpenStep(i, M, P, n + 1)
    <3>1. P[n + 1] \subseteq P[n + 1 + 1] /\ \A x \in i.captures : x.at \in P[n + 1 + 1]
      BY <1>4, <1>6, <1>7
    <3> QED
      BY <1>4, <3>1, Zenon DEF OpenStep
  <2>2. P[n + 2] \subseteq 1 .. Len(M[n + 2])
    <3>1. M[n + 2] = Append(s, v)
      BY <1>2
    <3>2. Len(Append(s, v)) = Len(s) + 1 /\ Len(s) \in Nat
      BY PushedIs
    <3>3. 1 .. Len(s) \subseteq 1 .. Len(s) + 1
      BY <3>2
    <3> QED
      BY <1>2, <1>4, <1>7, <3>1, <3>2, <3>3
  <2>3. P[n + 1 + 1] \subseteq 1 .. Len(M[n + 1 + 1])
    BY <1>7, <2>2
  <2>4. \A q \in 1 .. Len(xs) : q = 1 /\ xs[q] = i
    BY <1>8
  <2> QED
    BY <1>2, <2>1, <2>3, <2>4
<1>11. ASSUME NEW d \in 1 .. Len(bs)
       PROVE  /\ \A j \in Pending(bs[d], c) : P[j] \subseteq P[End(e)]
              /\ bs[d].kind = "loop" =>
                     P[End(e)] \cap 1 .. Len(L[bs[d].start]) \subseteq P[bs[d].start]
  <2>1. \A j \in Pending(bs[d], c) : P[j] \subseteq P[n + 1]
    BY <1>2, <1>6 DEF OpenLaid, Covers
  <2> QED
    BY <1>6, <1>7, <1>9, <2>1
<1>12. OpenLaid(e, bs, M, P)
  BY <1>1, <1>6, <1>7, <1>8, <1>10, <1>11, ExtendOpen
<1>13. P[End(e)] \subseteq CapturedSlots(e)
  BY <1>4, <1>7, <1>9
<1> QED
  BY <1>3, <1>12, <1>13 DEF Tracked

\* The closure i of the function that stands last in e captures locals of e.
ClosureOf(t, e, bs, i) ==
    /\ i \in Instructions /\ i.op = "closure"
    /\ Inner(e) /\ i.var = e.locals[Len(e.locals)].var
    /\ \A x \in i.captures :
          /\ x.at \in 1 .. Len(e.locals) /\ e.locals[x.at].depth # Uninitialized
          /\ e.locals[x.at].captured = TRUE /\ e.locals[x.at].var = x.var
    /\ t \/ \A x \in i.captures : \A d \in 1 .. Len(bs) :
               bs[d].kind = "loop" /\ bs[d].left = TRUE => x.var # bs[d].own

\* g is e with the closure i, and its last local is finished.
Finished(e, g, i) ==
    /\ g \in Compilers /\ Grown(e, g, <<i>>)
    /\ g.upvalues = e.upvalues /\ g.scopeDepth = e.scopeDepth /\ g.params = e.params
    /\ Len(g.locals) = Len(e.locals)
    /\ \A j \in 1 .. Len(e.locals) : j # Len(e.locals) => g.locals[j] = e.locals[j]
    /\ g.locals[Len(e.locals)].name = e.locals[Len(e.locals)].name
    /\ g.locals[Len(e.locals)].var = e.locals[Len(e.locals)].var
    /\ g.locals[Len(e.locals)].captured = e.locals[Len(e.locals)].captured
    /\ g.locals[Len(e.locals)].depth = e.scopeDepth

LEMMA FinishIs ==
    ASSUME NEW e \in Compilers, Len(e.locals) > 0, NEW i \in Instructions
    PROVE  Finished(e, MarkInitialized(Emit(e, <<i>>)), i)
<1>1. PICK b, g : b = Emit(e, <<i>>) /\ g = MarkInitialized(b)
  OBVIOUS
<1>2. PICK k \in Nat : k = Len(e.locals)
  BY CompilerIs
<1>3. <<i>> \in Seq(Instructions)
  BY SingleIs
<1>4. /\ b \in Compilers
      /\ b.locals = e.locals /\ b.upvalues = e.upvalues /\ b.scopeDepth = e.scopeDepth
      /\ b.params = e.params /\ Grown(e, b, <<i>>)
  BY <1>1, <1>3, EmitIs DEF Grown
<1>5. Len(b.locals) > 0 /\ Len(b.locals) = k
  BY <1>2, <1>4
<1>6. /\ g \in Compilers
      /\ g.code = b.code /\ g.upvalues = b.upvalues /\ g.scopeDepth = b.scopeDepth
      /\ g.params = b.params
      /\ Len(g.locals) = k
      /\ \A j \in 1 .. k : j # k => g.locals[j] = b.locals[j]
      /\ g.locals[k].name = b.locals[k].name /\ g.locals[k].var = b.locals[k].var
      /\ g.locals[k].captured = b.locals[k].captured
      /\ g.locals[k].depth = b.scopeDepth
  BY <1>1, <1>4, <1>5, MarkIs
<1>7. Grown(e, g, <<i>>)
  BY <1>4, <1>6 DEF Grown
<1> QED
  BY <1>1, <1>2, <1>4, <1>6, <1>7 DEF Finished

\* The closure finds what it captures on the stack, in the slots A.
Catches(e, bs, L, i, A) ==
    /\ A = {x.at : x \in i.captures} /\ A \in SUBSET Nat
    /\ A \subseteq 1 .. Len(L[End(e)]) /\ A \subseteq CapturedSlots(e)
    /\ \A x \in i.captures : x.at \in 1 .. Len(L[End(e)]) /\ L[End(e)][x.at] = x.var

LEMMA CatchesIs ==
    ASSUME NEW e \in Compilers, NEW bs, Named(e, bs), NEW t, NEW i, ClosureOf(t, e, bs, i),
           NEW L, Ready(e, bs, L), NEW k \in Nat, k + 1 = Len(e.locals), Base(e, e.scopeDepth) = k
    PROVE  Catches(e, bs, L, i, {x.at : x \in i.captures})
<1>1. Sorted(e) /\ e.scopeDepth \in Nat
  BY NamedIsSorted, CompilerIs
<1>2. PICK s \in Seq(Nat) : s = L[End(e)] /\ Len(s) = k /\ \A j \in 1 .. k : s[j] = e.locals[j].var
  <2>1. /\ Slots(e, e.scopeDepth) \in Seq(Nat) /\ Len(Slots(e, e.scopeDepth)) = Base(e, e.scopeDepth)
        /\ \A j \in 1 .. Base(e, e.scopeDepth) : Slots(e, e.scopeDepth)[j] = e.locals[j].var
    BY <1>1, BaseIs
  <2> QED
    BY <2>1 DEF Ready
<1>3. \A j \in 1 .. k + 1 : e.locals[j].depth # Uninitialized => j \in 1 .. k
  <2>1. e.locals[k + 1].depth = Uninitialized
    BY DEF ClosureOf, Inner
  <2> QED
    BY <2>1
<1>4. ASSUME NEW x \in i.captures
      PROVE  x.at \in 1 .. k /\ x.at \in CapturedSlots(e) /\ s[x.at] = x.var
  <2>1. /\ x.at \in 1 .. k + 1 /\ e.locals[x.at].depth # Uninitialized
        /\ e.locals[x.at].captured = TRUE /\ e.locals[x.at].var = x.var
    BY Zenon DEF ClosureOf
  <2>2. x.at \in CapturedSlots(e)
    BY <2>1, Zenon DEF CapturedSlots
  <2>3. x.at \in 1 .. k
    BY <1>3, <2>1
  <2> QED
    BY <1>2, <2>1, <2>2, <2>3
<1>5. PICK A : A = {x.at : x \in i.captures}
  OBVIOUS
<1>6. A \subseteq 1 .. k /\ A \subseteq CapturedSlots(e)
  BY <1>4, <1>5
<1>7. 1 .. k \subseteq Nat
  OBVIOUS
<1> QED
  BY <1>2, <1>4, <1>5, <1>6, <1>7 DEF Catches

\* What was captured is not popped: where a break pops the variable of its loop, t says so.
LEMMA UnpoppedIs ==
    ASSUME NEW e, NEW bs, Fits(e, bs), NEW t, NEW i, ClosureOf(t, e, bs, i), ~t,
           NEW L, Laid(e, bs, L)
    PROVE  Unpopped(e, bs, L, {x.at : x \in i.captures})
<1>1. /\ e \in Compilers /\ Len(bs) \in Nat /\ L \in [Nat -> Seq(Nat)]
      /\ \A d \in 1 .. Len(bs) : bs[d] \in Constructs /\ BlockLaid(bs[d], d, e, L)
  BY FitsIs DEF Laid, Flow
<1>2. PICK A : A = {x.at : x \in i.captures}
  OBVIOUS
<1>3. SUFFICES ASSUME NEW p \in 1 .. Len(e.code), e.code[p].op = "pop",
                      Len(L[p]) \in Raised(bs, L, A, p)
               PROVE  FALSE
  BY <1>2 DEF Unpopped
<1>4. PICK n \in Nat, h \in Nat : n = Len(e.code) /\ h = Len(L[p]) /\ p \in 1 .. n
  <2>1. p \in Nat /\ Len(e.code) \in Nat
    BY <1>1, CompilerIs
  <2> QED
    BY <1>1, <1>3, <2>1, LenProperties
<1>5. PICK x \in i.captures : x.at = h
  BY <1>2, <1>3, <1>4 DEF Raised
<1>6. PICK d \in 1 .. Len(bs) : bs[d].kind = "loop" /\ bs[d].start <= p /\ h <= Len(L[bs[d].start])
  BY <1>3, <1>4 DEF Raised
<1>7. PICK b : b = bs[d] /\ BlockLaid(b, d, e, L) /\ b.kind = "loop"
  BY <1>1, <1>6
<1>8. /\ b.start \in 1 .. n /\ L[b.start] = Slots(e, d - 1)
      /\ b.own = Temp => b.left = FALSE
      /\ b.own # Temp => e.locals[Base(e, d - 1)].var = b.own
      /\ \A q \in b.start .. n : e.code[q].op = "pop" =>
            Len(L[q]) > Len(L[b.start]) \/ (b.left = TRUE /\ Len(L[q]) = Len(L[b.start]))
  BY <1>4, <1>7 DEF BlockLaid
<1>9. PICK st \in Nat, l \in Nat : st = b.start /\ l = Len(L[st])
  <2>1. b.start \in Nat
    BY <1>8
  <2>2. L[b.start] \in Seq(Nat)
    BY <1>1, <2>1
  <2> QED
    BY <2>1, <2>2, LenProperties
<1>10. p \in st .. n
  BY <1>4, <1>6, <1>7, <1>9
<1>11. h > l \/ (b.left = TRUE /\ h = l)
  BY <1>3, <1>4, <1>8, <1>9, <1>10
<1>12. b.left = TRUE /\ h = l
  BY <1>4, <1>6, <1>7, <1>9, <1>11
<1>13. l = Base(e, d - 1)
  <2>1. Sorted(e) /\ d - 1 \in Nat
    BY FitsIs
  <2> QED
    BY <1>1, <1>8, <1>9, <2>1, BaseIs
<1>14. e.locals[h].var = b.own
  <2>1. b.own # Temp
    BY <1>8, <1>12
  <2> QED
    BY <1>8, <1>12, <1>13, <2>1
<1>15. x.var # b.own /\ e.locals[x.at].var = x.var
  <2>1. \A y \in i.captures : \A c \in 1 .. Len(bs) :
               bs[c].kind = "loop" /\ bs[c].left = TRUE => y.var # bs[c].own
    BY Zenon DEF ClosureOf
  <2>2. e.locals[x.at].var = x.var
    BY DEF ClosureOf
  <2> QED
    BY <1>7, <1>12, <2>1, <2>2, Zenon
<1> QED
  BY <1>5, <1>14, <1>15

LEMMA ClosureReady ==
    ASSUME NEW e, NEW bs, Sits(e, bs), NEW t, NEW i, ClosureOf(t, e, bs, i),
           NEW g, Finished(e, g, i), NEW L, Ready(e, bs, L)
    PROVE  \E M : Ready(g, bs, M) /\ (~t => \A O : Tracked(e, bs, L, O) => \E P : Tracked(g, bs, M, P))
<1>1. /\ e \in Compilers /\ bs \in Seq(Constructs) /\ Named(e, bs) /\ Len(bs) > 0
      /\ Inner(e) /\ bs[Len(bs)].kind # "match"
      /\ i \in Instructions /\ i.op = "closure" /\ i.var = e.locals[Len(e.locals)].var
  BY DEF Sits, ClosureOf
<1>2. PICK n \in Nat, k \in Nat, s \in Nat :
          n = Len(bs) /\ s = e.scopeDepth /\ k + 1 = Len(e.locals) /\ n = s /\ n > 0 /\ k + 1 \in Nat
  <2>1. PICK l \in Nat : l = Len(e.locals) /\ l > 0
    BY <1>1, CompilerIs DEF Inner
  <2>2. l - 1 \in Nat /\ (l - 1) + 1 = l
    BY <2>1
  <2>3. Len(bs) = e.scopeDepth /\ Len(bs) \in Nat
    BY <1>1, LenProperties DEF Named
  <2> QED
    BY <1>1, <2>1, <2>2, <2>3
<1>3. Sorted(e)
  BY <1>1, NamedIsSorted
<1>4. Fits(e, bs)
  <2>1. \A d \in 1 .. n : d - 1 <= n /\ d <= n
    BY <1>2
  <2> QED
    BY <1>1, <1>2, <1>3, <2>1 DEF Fits
<1>5. PICK v \in Nat : v = i.var
  BY <1>1, InstructionIs DEF Closures
<1>6. /\ g \in Compilers /\ Grown(e, g, <<i>>) /\ g.scopeDepth = s /\ g.params = e.params
      /\ Len(g.locals) = k + 1 /\ \A j \in 1 .. k + 1 : j # k + 1 => g.locals[j] = e.locals[j]
      /\ g.locals[k + 1].var = v /\ g.locals[k + 1].depth = s
      /\ g.locals[k + 1].captured = e.locals[k + 1].captured
  BY <1>1, <1>2, <1>5 DEF Finished
<1>7. \A j \in 1 .. k : j \in 1 .. k + 1 /\ j # k + 1
  BY <1>2
<1>8. \A j \in 1 .. k + 1 : j # k + 1 => e.locals[j].depth # Uninitialized
  <2>1. \A j \in 1 .. Len(e.locals) : j # Len(e.locals) => e.locals[j].depth # Uninitialized
    BY <1>1, NamedIs
  <2> QED
    BY <1>2, <2>1
<1>9. SlotMore(e, g, k, v)
  <2>1. e.locals[k + 1].depth = Uninitialized
    BY <1>1, <1>2 DEF Inner
  <2> QED
    BY <1>2, <1>5, <1>6, <1>7, <1>8, <2>1 DEF SlotMore
<1>10. Base(e, e.scopeDepth) = k
  BY <1>1, <1>3, <1>6, <1>9, SlotMoreIs
<1>11. PICK A : A = {x.at : x \in i.captures}
  OBVIOUS
<1>12. Catches(e, bs, L, i, A)
  BY <1>1, <1>2, <1>10, <1>11, CatchesIs
<1>13. /\ A \in SUBSET Nat /\ A \subseteq 1 .. Len(L[End(e)]) /\ A \subseteq CapturedSlots(e)
       /\ \A x \in i.captures : x.at \in 1 .. Len(L[End(e)]) /\ L[End(e)][x.at] = x.var
       /\ \A x \in i.captures : x.at \in A
  BY <1>12 DEF Catches
<1>14. PICK M : M = Taller(e, v, L)
  OBVIOUS
<1>15. /\ Ready(g, bs, M) /\ M \in [Nat -> Seq(Nat)]
       /\ \A p \in 1 .. Len(e.code) + 1 : M[p] = L[p]
       /\ M[Len(e.code) + 2] = Append(L[End(e)], v)
  <2>1. Len(bs) <= e.scopeDepth
    BY <1>2
  <2>2. /\ i.op \in {"push", "closure"} /\ i.var = v /\ g.params = e.params /\ i \in Instructions
        /\ Len(bs) = e.scopeDepth => bs[Len(bs)].kind # "match"
    BY <1>1, <1>5, <1>6
  <2>4. i.op = "closure" =>
            \A x \in i.captures : x.at \in 1 .. Len(L[End(e)]) /\ L[End(e)][x.at] = x.var
    BY <1>13
  <2>5. g \in Compilers /\ Grown(e, g, <<i>>)
    BY <1>6
  <2>3. Pushing(e, bs, g, i, k, v, L)
    BY <1>4, <1>9, <2>1, <2>2, <2>4, <2>5, Zenon DEF Pushing
  <2>6. Pushed(e, bs, g, v, L, Taller(e, v, L))
    BY <2>3, SlotMoreFlow
  <2>7. Pushed(e, bs, g, v, L, M)
    BY <1>14, <2>6
  <2> QED
    BY <2>7 DEF Pushed
<1>16. CapturedSlots(e) \subseteq CapturedSlots(g)
  <2>1. \A j \in 1 .. k + 1 : g.locals[j].captured = e.locals[j].captured
    BY <1>6
  <2> QED
    BY <1>2, <1>6, <2>1 DEF CapturedSlots
<1>17. CapturesIn(i, A)
  BY <1>1, <1>13 DEF CapturesIn
<1>18. ASSUME ~t, NEW O, Tracked(e, bs, L, O) PROVE \E P : Tracked(g, bs, M, P)
  <2>1. Laid(e, bs, L)
    BY DEF Ready
  <2>2. Unpopped(e, bs, L, A)
    BY <1>4, <1>11, <1>18, <2>1, UnpoppedIs
  <2>3. A \subseteq 1 .. Len(L[End(e)]) /\ A \subseteq CapturedSlots(e)
    BY <1>13
  <2>4. Tracked(g, bs, M, Also(e, bs, L, O, A))
    BY <1>4, <1>5, <1>6, <1>15, <1>16, <1>17, <1>18, <2>2, <2>3, ClosureOpen
  <2> QED
    BY <2>4
<1> QED
  BY <1>15, <1>18

\* A function is finished.
LEMMA ClosureCompiled ==
    ASSUME NEW t, NEW e, NEW bs, Sits(e, bs), Compiled(t, e, bs), NEW i, ClosureOf(t, e, bs, i),
           NEW g, Finished(e, g, i)
    PROVE  /\ Sits(g, bs) /\ ~Inner(g) /\ Compiled(t, g, bs)
           /\ Reuses(e, g) /\ g.upvalues = e.upvalues
<1>1. /\ e \in Compilers /\ bs \in Seq(Constructs) /\ Named(e, bs) /\ Len(bs) > 0 /\ Inner(e)
      /\ i \in Instructions /\ i.op = "closure"
  BY DEF Sits, ClosureOf
<1>2. /\ g \in Compilers /\ Grown(e, g, <<i>>) /\ g.upvalues = e.upvalues
      /\ g.scopeDepth = e.scopeDepth /\ Len(g.locals) = Len(e.locals)
      /\ \A j \in 1 .. Len(e.locals) : j # Len(e.locals) => g.locals[j] = e.locals[j]
      /\ g.locals[Len(e.locals)].name = e.locals[Len(e.locals)].name
      /\ g.locals[Len(e.locals)].var = e.locals[Len(e.locals)].var
      /\ g.locals[Len(e.locals)].depth = e.scopeDepth
  BY DEF Finished
<1>3. Named(g, bs) /\ ~Inner(g)
  BY <1>1, <1>2, NamedMark
<1>4. Sits(g, bs)
  BY <1>1, <1>2, <1>3 DEF Sits
<1>5. Compiled(t, g, bs)
  <2>1. PICK L : Ready(e, bs, L) /\ (t \/ \E O : Tracked(e, bs, L, O))
    BY DEF Compiled, Ready, Tracked
  <2>2. PICK M : /\ Ready(g, bs, M)
                 /\ ~t => \A O : Tracked(e, bs, L, O) => \E P : Tracked(g, bs, M, P)
    BY <2>1, ClosureReady
  <2>3. t \/ \E P : Tracked(g, bs, M, P)
    BY <2>1, <2>2
  <2> QED
    BY <2>2, <2>3 DEF Compiled, Ready, Tracked
<1>6. Reuses(e, g)
  <2>1. PICK xs \in Seq(Instructions) : xs = <<i>> /\ \A q \in 1 .. Len(xs) : q = 1 /\ xs[q] = i
    BY <1>1, SingleIs
  <2>2. \A q \in 1 .. Len(xs) : xs[q].op # "upvalue"
    BY <1>1, <2>1
  <2>3. Grown(e, g, xs)
    BY <1>2, <2>1
  <2> QED
    BY <1>1, <1>2, <2>2, <2>3, GrownReuses
<1> QED
  BY <1>2, <1>3, <1>4, <1>5, <1>6

\* Of the functions f and the blocks b, the last of each is left.
LeavesFn(f, b, h, a, k, n) ==
    /\ k \in Nat /\ k > 0 /\ n \in Nat
    /\ f \in Seq(Compilers) /\ Len(f) = k + 1 /\ b \in Seq(Constructs) /\ Len(b) = n + 1
    /\ h \in Seq(Compilers) /\ Len(h) = k /\ \A i \in 1 .. k : h[i] = f[i]
    /\ a \in Seq(Constructs) /\ Len(a) = n /\ \A d \in 1 .. n : a[d] = b[d]

\* r is p up to k + 1.
StopsAt(p, r, k) == r \in [1 .. k + 1 -> Nat] /\ \A i \in 1 .. k + 1 : r[i] = p[i]

\* The blocks of the functions up to k lie in those up to n.
FnStops(p, f, b, k, n) ==
    /\ p[1] = 1 /\ p[k + 1] = n + 1 /\ p[k + 2] = n + 2
    /\ \A i \in 1 .. k : p[i] \in 1 .. n
    /\ \A i \in 1 .. k + 1 : p[i] \in Nat
    /\ \A i, j \in 1 .. k + 1 : i < j => p[i] < p[j]
    /\ \A i \in 1 .. k : p[i + 1] = p[i] + f[i].scopeDepth
    /\ \A d \in 1 .. n : \E i \in 1 .. k : p[i] <= d /\ d < p[i + 1]
    /\ \A d \in 1 .. n : b[d].kind = "fn" <=> \E i \in 1 .. k : d = p[i]

LEMMA FnStopsIs ==
    ASSUME NEW f, NEW b, NEW h, NEW a, NEW k, NEW n, LeavesFn(f, b, h, a, k, n),
           NEW p, Segmented(f, b, p), p[k + 1] = n + 1
    PROVE  FnStops(p, f, b, k, n)
<1>1. /\ k \in Nat /\ k > 0 /\ n \in Nat /\ Len(f) = k + 1 /\ Len(b) = n + 1
  BY DEF LeavesFn
<1>2. (k + 1) + 1 = k + 2 /\ (n + 1) + 1 = n + 2
  BY <1>1
<1>3. /\ p \in [1 .. k + 2 -> Nat] /\ p[1] = 1 /\ p[k + 2] = n + 2
      /\ \A i, j \in 1 .. k + 2 : i < j => p[i] < p[j]
      /\ \A i \in 1 .. k + 1 : p[i + 1] = p[i] + f[i].scopeDepth
      /\ \A d \in 1 .. n + 1 : \E i \in 1 .. k + 1 : p[i] <= d /\ d < p[i + 1]
      /\ \A d \in 1 .. n + 1 : b[d].kind = "fn" <=> \E i \in 1 .. k + 1 : d = p[i]
  BY <1>1, <1>2, Zenon DEF Segmented
<1>4. /\ \A i \in 1 .. k + 1 : i \in 1 .. k + 2 /\ (i \in 1 .. k \/ i = k + 1)
      /\ \A i \in 1 .. k : i \in 1 .. k + 1 /\ i < k + 1 /\ (i = 1 \/ 1 < i)
      /\ \A d \in 1 .. n : d \in 1 .. n + 1 /\ ~(n + 1 <= d) /\ d # n + 1
      /\ k + 1 \in 1 .. k + 1 /\ 1 \in 1 .. k + 1
  BY <1>1
<1>5. \A i \in 1 .. k + 1 : p[i] \in Nat
  BY <1>3, <1>4
<1>6. \A i, j \in 1 .. k + 1 : i < j => p[i] < p[j]
  BY <1>3, <1>4
<1>7. \A i \in 1 .. k : p[i] \in 1 .. n
  <2> SUFFICES ASSUME NEW i \in 1 .. k PROVE p[i] \in 1 .. n
    OBVIOUS
  <2>1. p[i] \in Nat /\ p[i] < n + 1
    BY <1>4, <1>5, <1>6
  <2>2. 1 <= p[i]
    BY <1>3, <1>4, <1>6, <2>1
  <2> QED
    BY <1>1, <2>1, <2>2
<1>8. ASSUME NEW d \in 1 .. n PROVE \E i \in 1 .. k : p[i] <= d /\ d < p[i + 1]
  <2>1. PICK i \in 1 .. k + 1 : p[i] <= d /\ d < p[i + 1]
    BY <1>3, <1>4
  <2>2. i # k + 1
    BY <1>4, <2>1
  <2> QED
    BY <1>4, <2>1, <2>2
<1>9. ASSUME NEW d \in 1 .. n PROVE b[d].kind = "fn" <=> \E i \in 1 .. k : d = p[i]
  <2>1. b[d].kind = "fn" <=> \E i \in 1 .. k + 1 : d = p[i]
    BY <1>3, <1>4
  <2>2. d # p[k + 1]
    BY <1>4
  <2> QED
    BY <1>4, <2>1, <2>2
<1>10. \A i \in 1 .. k : p[i + 1] = p[i] + f[i].scopeDepth
  BY <1>3, <1>4
<1> QED
  BY <1>3, <1>5, <1>6, <1>7, <1>8, <1>9, <1>10 DEF FnStops

LEMMA Within ==
    /\ \A n, x, s \in Nat : x >= 1 /\ x + s <= n + 1 => \A d \in 1 .. s : x + d - 1 \in 1 .. n
    /\ \A n \in Nat : \A x, y \in 1 .. n : \A z \in x .. y - 1 : z \in 1 .. n
OBVIOUS

LEMMA FnLeft ==
    ASSUME NEW f, NEW b, NEW h, NEW a, NEW k, NEW n, LeavesFn(f, b, h, a, k, n),
           NEW t, NEW p, Consistent(f, b, t, p), p[k + 1] = n + 1, NEW r, StopsAt(p, r, k)
    PROVE  /\ Standing(h, a, t, r)
           /\ Inner(h[k]) /\ h[k].locals[Len(h[k].locals)].var = b[n + 1].self
<1>1. /\ k \in Nat /\ k > 0 /\ n \in Nat
      /\ f \in Seq(Compilers) /\ Len(f) = k + 1 /\ b \in Seq(Constructs) /\ Len(b) = n + 1
      /\ h \in Seq(Compilers) /\ Len(h) = k /\ \A i \in 1 .. k : h[i] = f[i]
      /\ a \in Seq(Constructs) /\ Len(a) = n /\ \A d \in 1 .. n : a[d] = b[d]
  BY DEF LeavesFn
<1>2. /\ Segmented(f, b, p) /\ Nested(f, b, p)
      /\ \A i \in 1 .. k + 1 : Sits(f[i], Segment(f, b, p, i)) /\ Compiled(t, f[i], Segment(f, b, p, i))
      /\ t \/ LeftAlone(f, b, p)
  BY <1>1, Zenon DEF Consistent
<1>3. /\ p[1] = 1 /\ p[k + 1] = n + 1
      /\ \A i \in 1 .. k : p[i] \in 1 .. n
      /\ \A i \in 1 .. k + 1 : p[i] \in Nat
      /\ \A i, j \in 1 .. k + 1 : i < j => p[i] < p[j]
      /\ \A i \in 1 .. k : p[i + 1] = p[i] + f[i].scopeDepth
      /\ \A d \in 1 .. n : \E i \in 1 .. k : p[i] <= d /\ d < p[i + 1]
      /\ \A d \in 1 .. n : b[d].kind = "fn" <=> \E i \in 1 .. k : d = p[i]
  BY <1>2, FnStopsIs DEF FnStops
<1>4. r \in [1 .. k + 1 -> Nat] /\ \A i \in 1 .. k + 1 : r[i] = p[i]
  BY DEF StopsAt
<1>5. /\ \A i \in 1 .. k : i \in 1 .. k + 1 /\ i + 1 \in 1 .. k + 1 /\ i < i + 1
      /\ k \in 1 .. k /\ k + 1 \in 1 .. k + 1 /\ 1 \in 1 .. k + 1
      /\ \A i \in 1 .. k - 1 : i \in 1 .. k /\ i + 1 \in 1 .. k
      /\ 1 \in 1 .. k /\ (k + 1) - 1 = k
  BY <1>1
<1>6. Segmented(h, a, r)
  <2>1. \A i \in 1 .. k : r[i] = p[i] /\ r[i + 1] = p[i + 1] /\ h[i] = f[i]
    BY <1>1, <1>4, <1>5
  <2>2. r[1] = 1 /\ r[Len(h) + 1] = Len(a) + 1
    BY <1>1, <1>3, <1>4, <1>5
  <2>3. \A i, j \in 1 .. k + 1 : i < j => r[i] < r[j]
    BY <1>3, <1>4
  <2>4. \A i \in 1 .. k : r[i + 1] = r[i] + h[i].scopeDepth
    BY <1>3, <2>1
  <2>5. \A d \in 1 .. n : \E i \in 1 .. k : r[i] <= d /\ d < r[i + 1]
    BY <1>3, <2>1
  <2>6. \A d \in 1 .. n : a[d].kind = "fn" <=> \E i \in 1 .. k : d = r[i]
    <3>1. ASSUME NEW d \in 1 .. n PROVE (\E i \in 1 .. k : d = r[i]) <=> \E i \in 1 .. k : d = p[i]
      BY <2>1
    <3>2. ASSUME NEW d \in 1 .. n PROVE a[d].kind = "fn" <=> \E i \in 1 .. k : d = p[i]
      <4>1. a[d] = b[d]
        BY <1>1
      <4>2. b[d].kind = "fn" <=> \E i \in 1 .. k : d = p[i]
        BY <1>3
      <4> QED
        BY <4>1, <4>2, Zenon
    <3> QED
      BY <3>1, <3>2, Zenon
  <2> QED
    BY <1>1, <1>4, <2>2, <2>3, <2>4, <2>5, <2>6 DEF Segmented
<1>7. ASSUME NEW i \in 1 .. k PROVE Segment(h, a, r, i) = Segment(f, b, p, i)
  <2>1. h[i] = f[i] /\ r[i] = p[i]
    BY <1>1, <1>4, <1>5
  <2>2. f[i].scopeDepth \in Nat
    BY <1>1, <1>5, ElementOfSeq, CompilerIs
  <2>3. PICK x \in Nat, s \in Nat, y \in Nat :
            x = p[i] /\ s = f[i].scopeDepth /\ y = p[i + 1] /\ y = x + s /\ x >= 1
    BY <1>3, <1>5, <2>2
  <2>4. y <= n + 1
    <3>1. i + 1 = k + 1 \/ i + 1 < k + 1
      BY <1>1
    <3> QED
      BY <1>1, <1>3, <1>5, <2>3, <3>1
  <2>5. \A d \in 1 .. s : x + d - 1 \in 1 .. n
    <3>1. x + s <= n + 1
      BY <2>3, <2>4
    <3> QED
      BY <1>1, <2>3, <3>1, Within
  <2>6. \A d \in 1 .. f[i].scopeDepth : a[p[i] + d - 1] = b[p[i] + d - 1]
    BY <1>1, <2>3, <2>5
  <2> QED
    BY <2>1, <2>6 DEF Segment
<1>8. \A i \in 1 .. k : Sits(h[i], Segment(h, a, r, i)) /\ Compiled(t, h[i], Segment(h, a, r, i))
  BY <1>1, <1>2, <1>5, <1>7
<1>9. \A i \in 1 .. k :
         /\ Inner(f[i]) /\ f[i].locals[Len(f[i].locals)].var = b[p[i + 1]].self
         /\ f[i].locals[Len(f[i].locals)].name # NoName
  BY <1>1, <1>2, <1>5 DEF Nested
<1>10. Nesting(h, a, r)
  <2>1. a[1].self = Temp
    <3>1. 1 \in 1 .. n
      BY <1>3, <1>5
    <3> QED
      BY <1>1, <1>2, <3>1 DEF Nested
  <2>2. ASSUME NEW i \in 1 .. k - 1
        PROVE  /\ Inner(h[i]) /\ h[i].locals[Len(h[i].locals)].var = a[r[i + 1]].self
               /\ h[i].locals[Len(h[i].locals)].name # NoName
    <3>1. h[i] = f[i] /\ r[i + 1] = p[i + 1] /\ p[i + 1] \in 1 .. n
      BY <1>1, <1>3, <1>4, <1>5
    <3> QED
      BY <1>1, <1>5, <1>9, <3>1
  <2> QED
    BY <1>1, <2>1, <2>2 DEF Nesting
<1>11. t \/ LeftAlone(h, a, r)
  <2> SUFFICES ASSUME LeftAlone(f, b, p) PROVE LeftAlone(h, a, r)
    BY <1>2
  <2>1. ASSUME NEW l \in 2 .. k, NEW j \in 1 .. Len(h[l].upvalues),
               h[l].upvalues[j].isLocal = TRUE,
               NEW d \in r[l - 1] .. r[l] - 1, a[d].kind = "loop", a[d].left = TRUE
        PROVE  h[l - 1].locals[h[l].upvalues[j].index].var # a[d].own
    <3>1. l \in 2 .. k + 1 /\ l \in 1 .. k /\ l - 1 \in 1 .. k
      BY <1>1
    <3>2. h[l] = f[l] /\ h[l - 1] = f[l - 1] /\ r[l - 1] = p[l - 1] /\ r[l] = p[l]
      BY <1>1, <1>4, <1>5, <3>1
    <3>3. d \in 1 .. n /\ d \in p[l - 1] .. p[l] - 1
      <4>1. PICK x \in 1 .. n, y \in 1 .. n : x = p[l - 1] /\ y = p[l]
        BY <1>3, <3>1
      <4>2. d \in x .. y - 1
        BY <3>2, <4>1
      <4>3. \A z \in x .. y - 1 : z \in 1 .. n
        BY <1>1, Within
      <4> QED
        BY <4>1, <4>2, <4>3
    <3>4. a[d] = b[d]
      BY <1>1, <3>3
    <3> QED
      BY <1>1, <2>1, <3>1, <3>2, <3>3, <3>4, SMTT(30) DEF LeftAlone
  <2> QED
    BY <1>1, <2>1 DEF LeftAlone
<1>12. Inner(h[k]) /\ h[k].locals[Len(h[k].locals)].var = b[n + 1].self
  BY <1>1, <1>3, <1>5, <1>9
<1> QED
  BY <1>1, <1>6, <1>8, <1>10, <1>11, <1>12 DEF Standing

\* The last of the functions f ends; D says what the upvalues stand for.
EndsFn(f, b, h, a, k, n, t, p, r, D) ==
    /\ LeavesFn(f, b, h, a, k, n)
    /\ Consistent(f, b, t, p) /\ p[k + 1] = n + 1 /\ StopsAt(p, r, k)
    /\ UpvaluesDenote(f, D)

\* What the upvalue u of a function in e captures.
Caught(e, u) == [at |-> u.index, var |-> e.locals[u.index].var]

LEMMA CapturedEach ==
    ASSUME NEW c \in Compilers, NEW e, NEW x \in Captured(c, e)
    PROVE  \E j \in 1 .. Len(c.upvalues) : c.upvalues[j].isLocal = TRUE /\ x = Caught(e, c.upvalues[j])
<1>1. c.upvalues \in Seq(UpvalueRefs)
  BY CompilerIs
<1>2. PICK u \in ToSet(c.upvalues) : u.isLocal /\ x = [at |-> u.index, var |-> e.locals[u.index].var]
  BY DEF Captured
<1>3. PICK j \in 1 .. Len(c.upvalues) : u = c.upvalues[j]
  BY <1>1, <1>2 DEF ToSet
<1>4. u \in UpvalueRefs
  BY <1>1, <1>3, ElementOfSeq
<1>5. u.isLocal = TRUE
  BY <1>2, <1>4 DEF UpvalueRefs
<1> QED
  BY <1>2, <1>3, <1>5 DEF Caught

\* The local that x names is captured.
IsCaught(e, x) ==
    /\ x \in [at : Nat, var : Nat]
    /\ x.at \in 1 .. Len(e.locals) /\ e.locals[x.at].depth # Uninitialized
    /\ e.locals[x.at].captured = TRUE /\ e.locals[x.at].var = x.var

LEMMA CaughtIs ==
    ASSUME NEW f \in Seq(Compilers), NEW D, UpvaluesDenote(f, D), NEW k \in Nat, k > 0, Len(f) = k + 1,
           NEW j \in 1 .. Len(f[k + 1].upvalues), f[k + 1].upvalues[j].isLocal = TRUE,
           NEW e, e = f[k]
    PROVE  IsCaught(e, Caught(e, f[k + 1].upvalues[j]))
<1>1. k + 1 \in 1 .. Len(f) /\ (k + 1) - 1 = k /\ k \in 1 .. Len(f)
  OBVIOUS
<1>2. UpvalueDenotes(f, D, k + 1, j)
  BY <1>1 DEF UpvaluesDenote
<1>3. PICK u : u = f[k + 1].upvalues[j]
  OBVIOUS
<1>4. /\ u.index \in 1 .. Len(e.locals) /\ e.locals[u.index].depth # Uninitialized
      /\ e.locals[u.index].captured = TRUE
  <2>1. f[(k + 1) - 1] = e
    BY <1>1
  <2>2. u.isLocal = TRUE
    BY <1>3
  <2>3. u.isLocal = TRUE => /\ u.index \in 1 .. Len(f[(k + 1) - 1].locals)
                            /\ f[(k + 1) - 1].locals[u.index].depth # Uninitialized
                            /\ f[(k + 1) - 1].locals[u.index].captured = TRUE
    BY <1>2, <1>3, Zenon DEF UpvalueDenotes
  <2> QED
    BY <2>1, <2>2, <2>3, Zenon
<1>5. e \in Compilers
  BY <1>1, ElementOfSeq
<1>6. e.locals[u.index].var \in Nat /\ u.index \in Nat
  <2>1. e.locals \in Seq(Locals)
    BY <1>5, CompilerIs
  <2>2. e.locals[u.index] \in Locals
    BY <1>4, <2>1, ElementOfSeq
  <2>3. u.index \in Nat
    BY <1>4, <2>1, LenProperties
  <2> QED
    BY <2>2, <2>3 DEF Locals
<1>7. PICK x : x = Caught(e, u)
  OBVIOUS
<1>8. x = [at |-> u.index, var |-> e.locals[u.index].var]
  BY <1>7 DEF Caught
<1>9. x \in [at : Nat, var : Nat] /\ x.at = u.index /\ x.var = e.locals[u.index].var
  BY <1>6, <1>8
<1>10. IsCaught(e, x)
  BY <1>4, <1>9 DEF IsCaught
<1> QED
  BY <1>3, <1>7, <1>10

LEMMA FnCloses ==
    ASSUME NEW f, NEW b, NEW h, NEW a, NEW k, NEW n, NEW t, NEW p, NEW r, NEW D,
           EndsFn(f, b, h, a, k, n, t, p, r, D),
           NEW o, LastOpen(h, a, t, r, o), NEW e, e = h[k],
           NEW i, i = [op |-> "closure", var |-> b[n + 1].self, captures |-> Captured(f[k + 1], e)]
    PROVE  ClosureOf(t, e, Upper(a, o), i)
<1>1. /\ LeavesFn(f, b, h, a, k, n) /\ Consistent(f, b, t, p) /\ p[k + 1] = n + 1 /\ StopsAt(p, r, k)
      /\ UpvaluesDenote(f, D)
  BY DEF EndsFn
<1>2. /\ k \in Nat /\ k > 0 /\ n \in Nat
      /\ f \in Seq(Compilers) /\ Len(f) = k + 1 /\ b \in Seq(Constructs) /\ Len(b) = n + 1
      /\ h \in Seq(Compilers) /\ Len(h) = k /\ \A l \in 1 .. k : h[l] = f[l]
      /\ a \in Seq(Constructs) /\ Len(a) = n /\ \A d \in 1 .. n : a[d] = b[d]
  BY <1>1 DEF LeavesFn
<1>3. Inner(e) /\ e.locals[Len(e.locals)].var = b[n + 1].self
  BY <1>1, FnLeft
<1>4. k \in 1 .. k /\ k + 1 \in 1 .. k + 1 /\ k \in 1 .. k + 1 /\ (k + 1) - 1 = k /\ k + 1 \in 2 .. k + 1
  BY <1>2
<1>5. e \in Compilers /\ e = f[k] /\ f[k + 1] \in Compilers
  BY <1>2, <1>4, ElementOfSeq
<1>6. PICK c, S, v : c = f[k + 1] /\ S = Captured(c, e) /\ v = b[n + 1].self
  OBVIOUS
<1>7. i = [op |-> "closure", var |-> v, captures |-> S]
  BY <1>6
<1>8. ASSUME NEW x \in S
      PROVE  \E j \in 1 .. Len(c.upvalues) :
                 c.upvalues[j].isLocal = TRUE /\ x = Caught(e, c.upvalues[j]) /\ IsCaught(e, x)
  <2>1. PICK j \in 1 .. Len(c.upvalues) : c.upvalues[j].isLocal = TRUE /\ x = Caught(e, c.upvalues[j])
    <3>1. x \in Captured(c, e) /\ c \in Compilers
      BY <1>5, <1>6
    <3> QED
      BY <3>1, CapturedEach
  <2>2. IsCaught(e, Caught(e, c.upvalues[j]))
    BY <1>1, <1>2, <1>5, <1>6, <2>1, CaughtIs
  <2> QED
    BY <2>1, <2>2
<1>9. v \in Nat
  <2>1. e.locals \in Seq(Locals) /\ Len(e.locals) \in Nat
    BY <1>5, CompilerIs
  <2>2. Len(e.locals) \in 1 .. Len(e.locals)
    BY <1>3, <2>1 DEF Inner
  <2>3. e.locals[Len(e.locals)] \in Locals
    BY <2>1, <2>2, ElementOfSeq
  <2> QED
    BY <1>3, <1>6, <2>3 DEF Locals
<1>10. S \in SUBSET [at : Nat, var : Nat]
  BY <1>8 DEF IsCaught
<1>11. i \in Instructions /\ i.op = "closure" /\ i.var = v /\ i.captures = S
  <2>1. i \in Closures
    BY <1>7, <1>9, <1>10 DEF Closures
  <2> QED
    BY <1>7, <2>1 DEF Instructions
<1>12. \A x \in S : /\ x.at \in 1 .. Len(e.locals) /\ e.locals[x.at].depth # Uninitialized
                    /\ e.locals[x.at].captured = TRUE /\ e.locals[x.at].var = x.var
  BY <1>8 DEF IsCaught
<1>13. ASSUME ~t, NEW x \in S, NEW d \in 1 .. Len(Upper(a, o)),
              Upper(a, o)[d].kind = "loop", Upper(a, o)[d].left = TRUE
       PROVE  x.var # Upper(a, o)[d].own
  <2>1. LeftAlone(f, b, p)
    BY <1>1, <1>13 DEF Consistent
  <2>2. PICK j \in 1 .. Len(c.upvalues) :
            c.upvalues[j].isLocal = TRUE /\ x = Caught(e, c.upvalues[j])
    BY <1>8
  <2>3. o \in Nat /\ o < n /\ r[k] = o + 1
    BY <1>2 DEF LastOpen
  <2>4. Len(Upper(a, o)) = n - o /\ \A z \in 1 .. n - o : Upper(a, o)[z] = a[o + z]
    BY <1>2, <2>3, UpperIs
  <2>5. PICK y \in Nat : y = o + d /\ y \in 1 .. n /\ y \in o + 1 .. n
    BY <1>2, <2>3, <2>4
  <2>6. Upper(a, o)[d] = b[y]
    BY <1>2, <2>4, <2>5
  <2>7. p[k] = o + 1 /\ (n + 1) - 1 = n
    BY <1>1, <1>2, <1>4, <2>3 DEF StopsAt
  <2>8. y \in p[(k + 1) - 1] .. p[k + 1] - 1
    BY <1>1, <1>4, <2>5, <2>7
  <2>9. f[(k + 1) - 1].locals[f[k + 1].upvalues[j].index].var # b[y].own
    <3>1. k + 1 \in 2 .. Len(f) /\ j \in 1 .. Len(f[k + 1].upvalues)
      BY <1>2, <1>4, <1>6
    <3>2. f[k + 1].upvalues[j].isLocal = TRUE
      BY <1>6, <2>2
    <3>3. b[y].kind = "loop" /\ b[y].left = TRUE
      BY <1>13, <2>6
    <3>4. \A l \in 2 .. Len(f) : \A z \in 1 .. Len(f[l].upvalues) :
             f[l].upvalues[z].isLocal = TRUE => \A x0 \in p[l - 1] .. p[l] - 1 :
                 b[x0].kind = "loop" /\ b[x0].left = TRUE
                 => f[l - 1].locals[f[l].upvalues[z].index].var # b[x0].own
      BY <2>1, Zenon DEF LeftAlone
    <3> QED
      BY <2>8, <3>1, <3>2, <3>3, <3>4, Zenon
  <2>10. x.var = e.locals[c.upvalues[j].index].var
    BY <2>2 DEF Caught
  <2> QED
    BY <1>4, <1>5, <1>6, <2>6, <2>9, <2>10
<1>14. t \/ \A x \in i.captures : \A d \in 1 .. Len(Upper(a, o)) :
               Upper(a, o)[d].kind = "loop" /\ Upper(a, o)[d].left = TRUE => x.var # Upper(a, o)[d].own
  BY <1>11, <1>13
<1> QED
  BY <1>3, <1>6, <1>11, <1>12, <1>14 DEF ClosureOf

LEMMA FrontDenote ==
    ASSUME NEW f, NEW b, NEW h, NEW a, NEW k, NEW n, LeavesFn(f, b, h, a, k, n), NEW D, UpvaluesDenote(f, D)
    PROVE  UpvaluesDenote(h, SubSeq(D, 1, k))
<1>1. /\ k \in Nat /\ k > 0 /\ f \in Seq(Compilers) /\ Len(f) = k + 1
      /\ h \in Seq(Compilers) /\ Len(h) = k /\ \A i \in 1 .. k : h[i] = f[i]
  BY DEF LeavesFn
<1>2. D \in Seq(Seq(Nat)) /\ Len(D) = k + 1
  BY <1>1 DEF UpvaluesDenote
<1>3. PICK E : E = SubSeq(D, 1, k)
  OBVIOUS
<1>4. E \in Seq(Seq(Nat)) /\ Len(E) = k /\ \A i \in 1 .. k : E[i] = D[i]
  BY <1>1, <1>2, <1>3
<1>5. \A i \in 1 .. k : i \in 1 .. k + 1 /\ (i > 1 => i - 1 \in 1 .. k)
  BY <1>1
<1>6. \A i \in 1 .. k + 1 : /\ Len(D[i]) = Len(f[i].upvalues)
                            /\ \A j \in 1 .. Len(f[i].upvalues) : UpvalueDenotes(f, D, i, j)
                            /\ \A q \in 1 .. Len(f[i].code) : UpvalueRead(f, D, i, f[i].code[q])
  BY <1>1 DEF UpvaluesDenote
<1>7. ASSUME NEW i \in 1 .. k
      PROVE  /\ Len(E[i]) = Len(h[i].upvalues)
             /\ \A j \in 1 .. Len(h[i].upvalues) : UpvalueDenotes(h, E, i, j)
             /\ \A q \in 1 .. Len(h[i].code) : UpvalueRead(h, E, i, h[i].code[q])
  <2>1. /\ h[i] = f[i] /\ E[i] = D[i] /\ i \in 1 .. k + 1
        /\ i > 1 => h[i - 1] = f[i - 1] /\ E[i - 1] = D[i - 1]
    BY <1>1, <1>4, <1>5
  <2>2. ASSUME NEW j \in 1 .. Len(h[i].upvalues) PROVE UpvalueDenotes(h, E, i, j)
    <3>1. UpvalueDenotes(f, D, i, j)
      BY <1>6, <2>1
    <3>2. i > 1
      BY <3>1 DEF UpvalueDenotes
    <3>3. h[i - 1] = f[i - 1] /\ E[i - 1] = D[i - 1]
      BY <2>1, <3>2
    <3> QED
      BY <2>1, <3>1, <3>3, Zenon DEF UpvalueDenotes
  <2>3. ASSUME NEW q \in 1 .. Len(h[i].code) PROVE UpvalueRead(h, E, i, h[i].code[q])
    <3>1. UpvalueRead(f, D, i, f[i].code[q])
      BY <1>6, <2>1
    <3> QED
      BY <2>1, <3>1, Zenon DEF UpvalueRead
  <2> QED
    BY <1>6, <2>1, <2>2, <2>3
<1> QED
  BY <1>1, <1>3, <1>4, <1>7 DEF UpvaluesDenote

\* The function that ended is a closure of the one around it, d.
LEMMA FnEnds ==
    ASSUME NEW f, NEW b, NEW h, NEW a, NEW k, NEW n, NEW t, NEW p, NEW r, NEW D,
           EndsFn(f, b, h, a, k, n, t, p, r, D), NEW m \in Nat, DeclaredOnce(b, m), NEW e, e = h[k],
           NEW i, i = [op |-> "closure", var |-> b[n + 1].self, captures |-> Captured(f[k + 1], e)],
           NEW d, d = MarkInitialized(Emit(e, <<i>>)), NEW g, g = [h EXCEPT ![k] = d]
    PROVE  CompileOk(g, a, m, t)
<1>1. /\ LeavesFn(f, b, h, a, k, n) /\ Consistent(f, b, t, p) /\ p[k + 1] = n + 1 /\ StopsAt(p, r, k)
      /\ UpvaluesDenote(f, D)
  BY DEF EndsFn
<1>2. /\ k \in Nat /\ k > 0 /\ n \in Nat /\ Len(b) = n + 1
      /\ h \in Seq(Compilers) /\ Len(h) = k
      /\ a \in Seq(Constructs) /\ Len(a) = n /\ \A z \in 1 .. n : a[z] = b[z]
  BY <1>1 DEF LeavesFn
<1>3. Standing(h, a, t, r) /\ Inner(h[k])
  BY <1>1, FnLeft
<1>4. PICK o : LastOpen(h, a, t, r, o)
  BY <1>2, <1>3, LastOpenIs
<1>5. PICK bs : bs = Upper(a, o)
  OBVIOUS
<1>6. ClosureOf(t, e, bs, i)
  BY <1>4, <1>5, FnCloses
<1>7. Sits(e, bs) /\ Compiled(t, e, bs) /\ e \in Compilers
  BY <1>2, <1>4, <1>5 DEF LastOpen, Sits
<1>8. Finished(e, d, i)
  <2>1. Len(e.locals) > 0 /\ i \in Instructions
    BY <1>6 DEF ClosureOf, Inner
  <2> QED
    BY <1>7, <2>1, FinishIs
<1>9. Sits(d, bs) /\ ~Inner(d) /\ Compiled(t, d, bs) /\ Reuses(e, d) /\ d.upvalues = e.upvalues
  BY <1>6, <1>7, <1>8, ClosureCompiled
<1>10. d \in Compilers
  BY <1>8 DEF Finished
<1>11. k \in 1 .. Len(h)
  BY <1>2
<1>12. g \in Seq(Compilers) /\ Len(g) = k /\ g[k] = d /\ \A l \in 1 .. k : l # k => g[l] = h[l]
  BY <1>2, <1>10, <1>11, ExceptSeq
<1>13. OnlyLast(h, g, d, a, a, o)
  BY <1>2, <1>4, <1>12 DEF LastOpen, OnlyLast
<1>14. EndsNow(r, r, Len(h), Len(a))
  <2>1. k + 1 \in 1 .. k + 1
    BY <1>2
  <2>2. r[k + 1] = n + 1 /\ r \in [1 .. k + 1 -> Nat]
    BY <1>1, <2>1 DEF StopsAt
  <2> QED
    BY <1>2, <2>2 DEF EndsNow
<1>15. Standing(g, a, t, r)
  <2>1. Len(h) > 0 /\ d.upvalues = h[Len(h)].upvalues
    BY <1>2, <1>9
  <2> QED
    BY <1>2, <1>3, <1>4, <1>5, <1>9, <1>13, <1>14, <2>1, TopStanding
<1>16. Consistent(g, a, t, r)
  BY <1>9, <1>12, <1>15, StandingIs
<1>17. UpvaluesDenote(h, SubSeq(D, 1, k))
  BY <1>1, FrontDenote
<1>18. UpvaluesDenote(g, SubSeq(D, 1, k))
  <2>1. Reuses(h[Len(h)], g[Len(h)]) /\ Len(g) = Len(h) /\ Len(h) > 0
    BY <1>2, <1>9, <1>12
  <2>2. \A l \in 1 .. Len(h) : l # Len(h) => g[l] = h[l]
    BY <1>2, <1>12
  <2> QED
    BY <1>2, <1>17, <2>1, <2>2, TopDenote, Zenon
<1>19. DeclaredOnce(a, m)
  <2>1. \A z \in 1 .. Len(a) :
            DOMAIN a[z].decls = {} \/ (z \in 1 .. Len(b) /\ a[z].decls = b[z].decls)
    BY <1>2
  <2> QED
    BY <2>1, SameDeclared
<1>20. Len(g) > 0
  BY <1>2, <1>12
<1>21. (\E y : Consistent(g, a, t, y)) /\ \E y : UpvaluesDenote(g, y)
  BY <1>16, <1>18
<1> QED
  BY <1>2, <1>12, <1>19, <1>20, <1>21 DEF CompileOk

LEMMA EndFnStep ==
    ASSUME ScopesInv, EndFn
    PROVE  ScopesInv'
<1>1. /\ status = "compile" /\ late \in BOOLEAN /\ text.length \in Nat /\ text.names \in Nat
      /\ text' = text /\ status' = "compile" /\ late' = late
      /\ Last(blocks).kind = "fn" /\ Len(fns) > 1
  BY DEF EndFn, Closes, ScopesInv
<1>2. PICK p, o, c, bs : StandsIn(p, o, c, bs)
  BY <1>1, StandsInIs
<1>3. PICK f, b, t, x : f = fns /\ b = blocks /\ t = late /\ x = text.length
  OBVIOUS
<1>4. /\ NowOpens(f, b, x, t, p, o, c, bs) /\ Under(b, o) /\ DeclaredOnce(b, x) /\ x \in Nat
      /\ f \in Seq(Compilers) /\ Len(f) > 1 /\ b[Len(b)].kind = "fn" /\ c = Last(f)
  BY <1>1, <1>2, <1>3 DEF StandsIn, Current
<1>5. b \in Seq(Constructs) /\ Consistent(f, b, t, p) /\ LastOpen(f, b, t, p, o) /\ \E y : UpvaluesDenote(f, y)
  BY <1>4 DEF NowOpens
<1>6. PICK D : UpvaluesDenote(f, D)
  BY <1>5
<1>7. PICK k \in Nat : k > 0 /\ Len(f) = k + 1
  <2>1. PICK l \in Nat : l = Len(f)
    BY <1>4, LenProperties
  <2>2. l - 1 \in Nat /\ l - 1 > 0 /\ l = (l - 1) + 1
    BY <1>4, <2>1
  <2> QED
    BY <2>1, <2>2
<1>8. o \in Nat /\ Len(b) = o + 1 /\ p[k + 1] = o + 1
  <2>1. PICK l \in Nat : l = Len(b)
    BY <1>5, LenProperties
  <2>2. o \in Nat /\ o < l /\ p[k + 1] = o + 1
    BY <1>5, <1>7, <2>1 DEF LastOpen
  <2>3. ~(l > o + 1)
    <3>1. l \in 1 .. l
      BY <2>2, <2>1
    <3>2. l > o + 1 => b[l].kind # "fn"
      BY <1>4, <2>1, <3>1 DEF Under
    <3> QED
      BY <1>4, <2>1, <3>2
  <2> QED
    BY <2>1, <2>2, <2>3
<1>9. PICK h, a, r : h = Front(f) /\ a = Front(b) /\ r = [i \in 1 .. k + 1 |-> p[i]]
  OBVIOUS
<1>10. h \in Seq(Compilers) /\ Len(h) = k /\ \A i \in 1 .. k : h[i] = f[i]
  <2>1. Len(f) > 0 /\ Len(f) - 1 = k
    BY <1>7
  <2> QED
    BY <1>4, <1>9, <2>1, FrontIs
<1>11. a \in Seq(Constructs) /\ Len(a) = o /\ \A d \in 1 .. o : a[d] = b[d]
  <2>1. Len(b) > 0 /\ Len(b) - 1 = o
    BY <1>8
  <2> QED
    BY <1>5, <1>9, <2>1, FrontIs
<1>12. LeavesFn(f, b, h, a, k, o)
  BY <1>4, <1>5, <1>7, <1>8, <1>10, <1>11 DEF LeavesFn
<1>13. StopsAt(p, r, k)
  <2>1. p \in [1 .. (k + 1) + 1 -> Nat]
    BY <1>5, <1>7 DEF Consistent, Segmented
  <2>2. \A i \in 1 .. k + 1 : i \in 1 .. (k + 1) + 1
    BY <1>7
  <2>3. \A i \in 1 .. k + 1 : p[i] \in Nat
    BY <2>1, <2>2
  <2> QED
    BY <1>9, <2>3 DEF StopsAt
<1>14. EndsFn(f, b, h, a, k, o, t, p, r, D)
  BY <1>5, <1>6, <1>8, <1>12, <1>13 DEF EndsFn
<1>15. PICK e : e = h[k]
  OBVIOUS
<1>16. PICK i : i = [op |-> "closure", var |-> b[o + 1].self, captures |-> Captured(f[k + 1], e)]
  OBVIOUS
<1>17. PICK d : d = MarkInitialized(Emit(e, <<i>>))
  OBVIOUS
<1>18. PICK g : g = [h EXCEPT ![k] = d]
  OBVIOUS
<1>19. CompileOk(g, a, x, t)
  BY <1>4, <1>14, <1>15, <1>16, <1>17, <1>18, FnEnds
<1>20. g = fns' /\ a = blocks'
  <2>1. Len(fns) - 1 = k /\ Current = f[k + 1] /\ Last(blocks) = b[o + 1] /\ fns[k] = e
    <3>1. k \in 1 .. k /\ (k + 1) - 1 = k
      BY <1>7
    <3> QED
      BY <1>3, <1>7, <1>8, <1>10, <1>15, <3>1 DEF Current, Last
  <2>2. [op |-> "closure", var |-> Last(blocks).self, captures |-> Captured(Current, fns[Len(fns) - 1])] = i
    BY <1>16, <2>1
  <2>3. fns' = [Front(fns) EXCEPT ![Len(fns) - 1] = MarkInitialized(Emit(fns[Len(fns) - 1], <<i>>))]
    BY <2>2 DEF EndFn
  <2>4. fns' = g
    BY <1>3, <1>9, <1>17, <1>18, <2>1, <2>3
  <2> QED
    BY <1>3, <1>9, <2>4 DEF EndFn
<1> QED
  BY <1>1, <1>3, <1>19, <1>20, CompileStep

-----------------------------------------------------------------------------
(* The code runs                                                           *)

\* w is the machine v after the instruction i.
Outcome(i, v, w) ==
    /\ Machine(w)
    /\ i.op \in {"push", "closure"} =>
          w.pc = v.pc + 1 /\ w.leaked = v.leaked /\ w.stack = Append(v.stack, i.var)
    /\ i.op \in {"pop", "close"} => w.pc = v.pc + 1 /\ w.leaked = v.leaked /\ w.stack = Front(v.stack)
    /\ i.op \in {"get", "upvalue"} => w.pc = v.pc + 1 /\ w.leaked = v.leaked /\ w.stack = v.stack
    /\ i.op = "jump" => w.pc = i.to /\ w.leaked = v.leaked /\ w.stack = v.stack
    /\ i.op = "branch" =>
          /\ w.stack = v.stack
          /\ \/ w.pc = v.pc + 1 /\ w.leaked = v.leaked
             \/ w.pc = i.to /\ w.leaked = (v.leaked \/ i.leaves > 0)
    /\ i.op = "closure" => w.open = v.open \union {x.at : x \in i.captures}
    /\ i.op = "close" => w.open = {s \in v.open : s < Len(v.stack)}
    /\ i.op \notin {"closure", "close"} => w.open = v.open

LEMMA InstructionOp ==
    ASSUME NEW i \in Instructions
    PROVE  /\ i.op \in {"push", "pop", "close", "closure", "jump", "branch", "get", "upvalue"}
           /\ i.op \in {"push", "closure", "get", "upvalue"} => i.var \in Nat
           /\ i.op \in {"jump", "branch"} => i.to \in Nat
           /\ i.op = "branch" => i.leaves \in Nat
           /\ i.op = "closure" => i.captures \in SUBSET [at : Nat, var : Nat]
BY DEF Instructions, Pushes, Discards, Closures, JumpsTo, Branches, Gets

LEMMA AfterIs ==
    ASSUME Machine(vm), NEW i \in Instructions, NEW w \in After(i)
    PROVE  Outcome(i, vm, w)
<1>1. PICK p, s, o, l : /\ vm = [pc |-> p, stack |-> s, open |-> o, leaked |-> l]
                        /\ p \in Nat /\ l \in BOOLEAN
  BY DEF Machine
<1>2. vm.pc = p /\ vm.stack = s /\ vm.open = o /\ vm.leaked = l
  BY <1>1
<1>3. PICK next : next = [pc |-> p + 1, stack |-> s, open |-> o, leaked |-> l]
  OBVIOUS
<1>12. p + 1 \in Nat
  BY <1>1
<1>4. [vm EXCEPT !.pc = @ + 1] = next
  BY <1>1, <1>3
<1>5. CASE i.op = "push"
  <2>1. w = [next EXCEPT !.stack = Append(@, i.var)]
    BY <1>4, <1>5 DEF After
  <2>2. w = [pc |-> p + 1, stack |-> Append(s, i.var), open |-> o, leaked |-> l]
    BY <1>3, <2>1
  <2> QED
    BY <1>1, <1>2, <1>12, <1>5, <2>2 DEF Outcome, Machine
<1>6. CASE i.op = "pop"
  <2>1. w = [next EXCEPT !.stack = Front(@)]
    BY <1>4, <1>6 DEF After
  <2>2. w = [pc |-> p + 1, stack |-> Front(s), open |-> o, leaked |-> l]
    BY <1>3, <2>1
  <2> QED
    BY <1>1, <1>2, <1>12, <1>6, <2>2 DEF Outcome, Machine
<1>7. CASE i.op = "close"
  <2>1. w = [next EXCEPT !.stack = Front(@), !.open = StillOpen]
    BY <1>4, <1>7 DEF After
  <2>2. StillOpen = {z \in o : z < Len(s)}
    BY <1>2 DEF StillOpen
  <2>3. w = [pc |-> p + 1, stack |-> Front(s), open |-> {z \in o : z < Len(s)}, leaked |-> l]
    BY <1>3, <2>1, <2>2
  <2> QED
    BY <1>1, <1>2, <1>12, <1>7, <2>3 DEF Outcome, Machine
<1>8. CASE i.op = "closure"
  <2>1. w = [next EXCEPT !.stack = Append(@, i.var), !.open = NowOpen(i)]
    BY <1>4, <1>8 DEF After
  <2>2. NowOpen(i) = o \union {x.at : x \in i.captures}
    BY <1>2 DEF NowOpen
  <2>3. w = [pc |-> p + 1, stack |-> Append(s, i.var), open |-> o \union {x.at : x \in i.captures},
             leaked |-> l]
    BY <1>3, <2>1, <2>2
  <2> QED
    BY <1>1, <1>2, <1>12, <1>8, <2>3 DEF Outcome, Machine
<1>9. CASE i.op = "jump"
  <2>1. w = [vm EXCEPT !.pc = i.to]
    BY <1>9 DEF After
  <2>2. w = [pc |-> i.to, stack |-> s, open |-> o, leaked |-> l] /\ i.to \in Nat
    BY <1>1, <1>9, <2>1, InstructionOp
  <2> QED
    BY <1>1, <1>2, <1>9, <2>2 DEF Outcome, Machine
<1>10. CASE i.op = "branch"
  <2>1. w = next \/ w = [vm EXCEPT !.pc = i.to, !.leaked = @ \/ i.leaves > 0]
    BY <1>4, <1>10 DEF After
  <2>2. CASE w = next
    BY <1>1, <1>2, <1>3, <1>12, <1>10, <2>2 DEF Outcome, Machine
  <2>3. CASE w = [vm EXCEPT !.pc = i.to, !.leaked = @ \/ i.leaves > 0]
    <3>1. w = [pc |-> i.to, stack |-> s, open |-> o, leaked |-> (l \/ i.leaves > 0)]
      BY <1>1, <2>3
    <3>2. i.to \in Nat /\ (l \/ i.leaves > 0) \in BOOLEAN
      BY <1>10, InstructionOp
    <3> QED
      BY <1>1, <1>2, <1>10, <3>1, <3>2 DEF Outcome, Machine
  <2> QED
    BY <2>1, <2>2, <2>3
<1>11. CASE i.op \in {"get", "upvalue"}
  <2>1. w = next
    BY <1>4, <1>11 DEF After
  <2> QED
    BY <1>1, <1>2, <1>3, <1>12, <1>11, <2>1 DEF Outcome, Machine
<1> QED
  BY <1>5, <1>6, <1>7, <1>8, <1>9, <1>10, <1>11, InstructionOp

LEMMA StackGoesOn ==
    ASSUME NEW code \in Seq(Instructions), NEW L, Flow(code, L), NEW v, Machine(v), v.leaked = FALSE,
           v.pc \in 1 .. Len(code), StackOk(code, v, L), NEW i, i = code[v.pc],
           NEW w, Outcome(i, v, w), w.leaked = FALSE
    PROVE  StackOk(code, w, L)
<1>0. SUFFICES w.stack \in Seq(Nat) /\ (w.pc \in 1 .. Len(code) => w.stack = L[w.pc])
  BY DEF StackOk
<1>1. PICK p, n \in Nat : p = v.pc /\ n = Len(code) /\ p \in 1 .. n
  BY LenProperties
<1>2. i \in Instructions
  BY <1>1, ElementOfSeq
<1>3. v.stack = L[p] /\ L \in [Nat -> Seq(Nat)] /\ FlowStep(i, L, p, n)
  BY <1>1 DEF StackOk, Flow
<1>4. p \in Nat /\ p + 1 \in Nat /\ L[p] \in Seq(Nat) /\ L[p + 1] \in Seq(Nat)
  <2>1. p \in Nat /\ p + 1 \in Nat
    BY <1>1
  <2> QED
    BY <1>3, <2>1
<1>5. CASE i.op \in {"push", "closure"}
  <2>1. w.stack = L[p + 1] /\ w.pc = p + 1
    BY <1>1, <1>3, <1>5, Zenon DEF Outcome, FlowStep
  <2> QED
    BY <1>1, <1>3, <1>4, <2>1
<1>6. CASE i.op \in {"pop", "close"}
  <2>1. w.stack = L[p + 1] /\ w.pc = p + 1
    BY <1>1, <1>3, <1>6, Zenon DEF Outcome, FlowStep
  <2> QED
    BY <1>1, <1>3, <1>4, <2>1
<1>7. CASE i.op \in {"get", "upvalue"}
  <2>1. w.stack = L[p] /\ w.pc = p + 1
    BY <1>1, <1>3, <1>7, Zenon DEF Outcome
  <2>2. L[p + 1] = L[p]
    <3>1. i.op \in {"get", "upvalue", "branch"}
      BY <1>7
    <3> QED
      BY <1>3, <3>1, Zenon DEF FlowStep
  <2> QED
    BY <1>1, <1>3, <1>4, <2>1, <2>2
<1>8. CASE i.op = "jump"
  <2>1. w.stack = L[p] /\ w.pc = i.to
    BY <1>1, <1>3, <1>8, Zenon DEF Outcome
  <2>2. i.to # 0 => L[i.to] = L[p]
    BY <1>3, <1>8, Zenon DEF FlowStep
  <2>3. w.pc \in 1 .. n => i.to # 0
    BY <1>1, <2>1
  <2> QED
    BY <1>1, <1>3, <1>4, <2>1, <2>2, <2>3
<1>9. CASE i.op = "branch"
  <2>1. w.stack = L[p]
    BY <1>1, <1>3, <1>9, Zenon DEF Outcome
  <2>2. CASE w.pc = p + 1
    <3>1. L[p + 1] = L[p]
      <4>1. i.op \in {"get", "upvalue", "branch"}
        BY <1>9
      <4> QED
        BY <1>3, <4>1, Zenon DEF FlowStep
    <3> QED
      BY <1>1, <1>3, <1>4, <2>1, <2>2, <3>1
  <2>3. CASE w.pc = i.to /\ w.leaked = (v.leaked \/ i.leaves > 0)
    <3>1. i.leaves = 0
      <4>1. i.leaves \in Nat
        BY <1>2, <1>9, InstructionOp
      <4>2. ~(i.leaves > 0)
        BY <2>3
      <4> QED
        BY <4>1, <4>2
    <3>2. i.to # 0 => L[i.to] = L[p]
      BY <1>3, <1>9, <3>1, Zenon DEF FlowStep
    <3>3. w.pc \in 1 .. n => i.to # 0
      BY <1>1, <2>3
    <3> QED
      BY <1>1, <1>3, <1>4, <2>1, <2>3, <3>2, <3>3
  <2>4. (w.pc = p + 1 /\ w.leaked = v.leaked) \/ (w.pc = i.to /\ w.leaked = (v.leaked \/ i.leaves > 0))
    BY <1>1, <1>9 DEF Outcome
  <2> QED
    BY <2>2, <2>3, <2>4
<1> QED
  BY <1>2, <1>5, <1>6, <1>7, <1>8, <1>9, InstructionOp

LEMMA OpenGoesOn ==
    ASSUME NEW code \in Seq(Instructions), NEW L, Flow(code, L), NEW v, Machine(v), v.leaked = FALSE,
           v.pc \in 1 .. Len(code), StackOk(code, v, L), NEW i, i = code[v.pc],
           NEW w, Outcome(i, v, w), w.leaked = FALSE,
           NEW O, OpenFlow(code, L, O), OpenOk(code, v, O)
    PROVE  OpenOk(code, w, O)
<1>1. PICK p, n \in Nat : p = v.pc /\ n = Len(code) /\ p \in 1 .. n
  BY LenProperties
<1>2. i \in Instructions
  BY <1>1, ElementOfSeq
<1>3. v.stack = L[p] /\ L \in [Nat -> Seq(Nat)] /\ FlowStep(i, L, p, n) /\ OpenStep(i, L, O, p)
  BY <1>1 DEF StackOk, Flow, OpenFlow
<1>4. p \in Nat /\ p + 1 \in Nat /\ L[p] \in Seq(Nat) /\ L[p + 1] \in Seq(Nat)
  <2>1. p \in Nat /\ p + 1 \in Nat
    BY <1>1
  <2> QED
    BY <1>3, <2>1
<1>5. PICK s, V, W : s = L[p] /\ V = v.open /\ W = w.open
  OBVIOUS
<1>6. PICK k \in Nat : k = Len(s) /\ s \in Seq(Nat) /\ s = v.stack
  BY <1>3, <1>4, <1>5, LenProperties
<1>7. V \subseteq 1 .. k /\ V \subseteq O[p]
  BY <1>1, <1>5, <1>6 DEF OpenOk
<1>8. CASE i.op = "push"
  <2>1. w.stack = Append(s, i.var) /\ w.pc = p + 1 /\ W = V
    BY <1>1, <1>5, <1>6, <1>8 DEF Outcome
  <2>2. O[p] \subseteq O[p + 1]
    BY <1>3, <1>8 DEF OpenStep
  <2>3. Len(w.stack) = k + 1
    BY <1>2, <1>6, <1>8, <2>1, InstructionOp, AppendProperties
  <2>4. 1 .. k \subseteq 1 .. k + 1
    OBVIOUS
  <2>5. V \subseteq 1 .. k + 1 /\ V \subseteq O[p + 1]
    BY <1>7, <2>2, <2>4
  <2> QED
    BY <1>5, <2>1, <2>3, <2>5 DEF OpenOk
<1>9. CASE i.op = "closure"
  <2>1. w.stack = Append(s, i.var) /\ w.pc = p + 1 /\ W = V \union {x.at : x \in i.captures}
    BY <1>1, <1>5, <1>6, <1>9 DEF Outcome
  <2>2. O[p] \subseteq O[p + 1] /\ \A x \in i.captures : x.at \in O[p + 1]
    BY <1>3, <1>9 DEF OpenStep
  <2>3. Len(w.stack) = k + 1
    BY <1>2, <1>6, <1>9, <2>1, InstructionOp, AppendProperties
  <2>4. 1 .. k \subseteq 1 .. k + 1
    OBVIOUS
  <2>5. \A x \in i.captures : x.at \in 1 .. k
    BY <1>3, <1>5, <1>6, <1>9, Zenon DEF FlowStep
  <2>6. W \subseteq 1 .. k + 1 /\ W \subseteq O[p + 1]
    BY <1>7, <2>1, <2>2, <2>4, <2>5
  <2> QED
    BY <1>5, <2>1, <2>3, <2>6 DEF OpenOk
<1>10. CASE i.op = "pop"
  <2>1. w.stack = Front(s) /\ w.pc = p + 1 /\ W = V
    BY <1>1, <1>5, <1>6, <1>10 DEF Outcome
  <2>2. O[p] \subseteq O[p + 1] /\ k \notin O[p]
    BY <1>3, <1>5, <1>6, <1>10 DEF OpenStep
  <2>3. Len(w.stack) = k - 1
    <3>1. k > 0
      BY <1>3, <1>5, <1>6, <1>10 DEF FlowStep
    <3> QED
      BY <1>6, <2>1, <3>1, FrontIs
  <2>4. \A z \in 1 .. k : z # k => z \in 1 .. k - 1
    OBVIOUS
  <2>5. V \subseteq 1 .. k - 1 /\ V \subseteq O[p + 1]
    BY <1>7, <2>2, <2>4
  <2> QED
    BY <1>5, <2>1, <2>3, <2>5 DEF OpenOk
<1>11. CASE i.op = "close"
  <2>1. w.stack = Front(s) /\ w.pc = p + 1 /\ W = {z \in V : z < k}
    BY <1>1, <1>5, <1>6, <1>11 DEF Outcome
  <2>2. O[p] \ {k} \subseteq O[p + 1]
    BY <1>3, <1>5, <1>6, <1>11 DEF OpenStep
  <2>3. Len(w.stack) = k - 1
    <3>1. k > 0
      BY <1>3, <1>5, <1>6, <1>11 DEF FlowStep
    <3> QED
      BY <1>6, <2>1, <3>1, FrontIs
  <2>4. \A z \in 1 .. k : z < k => z \in 1 .. k - 1 /\ z # k
    OBVIOUS
  <2>5. W \subseteq 1 .. k - 1 /\ W \subseteq O[p + 1]
    BY <1>7, <2>1, <2>2, <2>4
  <2> QED
    BY <1>5, <2>1, <2>3, <2>5 DEF OpenOk
<1>12. CASE i.op \in {"get", "upvalue"}
  <2>1. w.stack = s /\ w.pc = p + 1 /\ W = V
    BY <1>1, <1>5, <1>6, <1>12 DEF Outcome
  <2>2. O[p] \subseteq O[p + 1]
    BY <1>3, <1>12 DEF OpenStep
  <2> QED
    BY <1>5, <1>6, <1>7, <2>1, <2>2 DEF OpenOk
<1>13. CASE i.op = "jump"
  <2>1. w.stack = s /\ w.pc = i.to /\ W = V
    BY <1>1, <1>5, <1>6, <1>13 DEF Outcome
  <2>2. i.to # 0 => O[p] \subseteq O[i.to]
    BY <1>3, <1>13 DEF OpenStep
  <2>3. w.pc \in 1 .. n => i.to # 0
    BY <1>1, <2>1
  <2> QED
    BY <1>1, <1>5, <1>6, <1>7, <2>1, <2>2, <2>3 DEF OpenOk
<1>14. CASE i.op = "branch"
  <2>1. w.stack = s /\ W = V
    BY <1>1, <1>5, <1>6, <1>14 DEF Outcome
  <2>2. CASE w.pc = p + 1
    <3>1. O[p] \subseteq O[p + 1]
      BY <1>3, <1>14 DEF OpenStep
    <3> QED
      BY <1>5, <1>6, <1>7, <2>1, <2>2, <3>1 DEF OpenOk
  <2>3. CASE w.pc = i.to /\ w.leaked = (v.leaked \/ i.leaves > 0)
    <3>1. i.leaves = 0
      <4>1. i.leaves \in Nat
        BY <1>2, <1>14, InstructionOp
      <4>2. ~(i.leaves > 0)
        BY <2>3
      <4> QED
        BY <4>1, <4>2
    <3>2. i.to # 0 => O[p] \subseteq O[i.to]
      BY <1>3, <1>14, <3>1 DEF OpenStep
    <3>3. w.pc \in 1 .. n => i.to # 0
      BY <1>1, <2>3
    <3> QED
      BY <1>1, <1>5, <1>6, <1>7, <2>1, <2>3, <3>2, <3>3 DEF OpenOk
  <2>4. (w.pc = p + 1 /\ w.leaked = v.leaked) \/ (w.pc = i.to /\ w.leaked = (v.leaked \/ i.leaves > 0))
    BY <1>1, <1>14 DEF Outcome
  <2> QED
    BY <2>2, <2>3, <2>4
<1> QED
  BY <1>2, <1>8, <1>9, <1>10, <1>11, <1>12, <1>13, <1>14, InstructionOp

LEMMA CallStep ==
    ASSUME ScopesInv, Call
    PROVE  ScopesInv'
<1>1. /\ status = "compile" /\ late \in BOOLEAN
      /\ status' = "run" /\ text' = [length |-> 0, names |-> 0] /\ late' = late
      /\ body' = Current.code /\ vm' = [pc |-> 1, stack |-> Current.params, open |-> {}, leaked |-> FALSE]
  BY DEF Call, ScopesInv
<1>2. PICK p, o, c, bs : StandsIn(p, o, c, bs)
  BY <1>1, StandsInIs
<1>3. PICK f, b, t, x : f = fns /\ b = blocks /\ t = late /\ x = text.length
  OBVIOUS
<1>4. LastOpen(f, b, t, p, o) /\ c = f[Len(f)] /\ c = Current /\ bs = Upper(b, o)
  BY <1>2, <1>3 DEF StandsIn, NowOpens
<1>5. c \in Compilers /\ Compiled(t, c, bs)
  BY <1>4 DEF LastOpen, Sits
<1>6. PICK L : /\ Laid(c, bs, L) /\ L[1] = c.params
               /\ t \/ \E O : OpenLaid(c, bs, L, O) /\ O[End(c)] \subseteq CapturedSlots(c)
  BY <1>5 DEF Compiled
<1>7. PICK w : w = [pc |-> 1, stack |-> c.params, open |-> {}, leaked |-> FALSE]
  OBVIOUS
<1>8. w.pc = 1 /\ w.stack = c.params /\ w.open = {} /\ w.leaked = FALSE /\ Machine(w)
  BY <1>7 DEF Machine
<1>9. c.code \in Seq(Instructions) /\ c.params \in Seq(Nat)
  BY <1>5, CompilerIs
<1>10. Flow(c.code, L) /\ StackOk(c.code, w, L)
  BY <1>6, <1>8, <1>9 DEF Laid, StackOk
<1>11. t \/ \E O : OpenFlow(c.code, L, O) /\ OpenOk(c.code, w, O)
  <2> SUFFICES ASSUME NEW O, OpenLaid(c, bs, L, O) PROVE OpenFlow(c.code, L, O) /\ OpenOk(c.code, w, O)
    BY <1>6
  <2> QED
    BY <1>8 DEF OpenLaid, OpenOk
<1>12. RunOk(c.code, w, t)
  BY <1>8, <1>9, <1>10, <1>11 DEF RunOk
<1>13. body' = c.code /\ vm' = w /\ late' = t
  BY <1>1, <1>3, <1>4, <1>7
<1>14. RunInv'
  BY <1>12, <1>13 DEF RunInv
<1>15. text'.length \in Nat /\ text'.names \in Nat
  BY <1>1
<1> QED
  BY <1>1, <1>14, <1>15 DEF ScopesInv

LEMMA ExecuteStep ==
    ASSUME ScopesInv, Execute
    PROVE  ScopesInv'
<1>1. /\ status = "run" /\ RunOk(body, vm, late) /\ vm.pc \in DOMAIN body
      /\ vm' \in After(body[vm.pc])
      /\ text' = text /\ status' = status /\ late' = late /\ body' = body
      /\ text.length \in Nat /\ text.names \in Nat /\ late \in BOOLEAN
  BY DEF Execute, ScopesInv, RunInv
<1>2. PICK code, v, t, w, i : code = body /\ v = vm /\ t = late /\ w = vm' /\ i = code[v.pc]
  OBVIOUS
<1>3. RunOk(code, v, t) /\ v.pc \in 1 .. Len(code) /\ code \in Seq(Instructions) /\ Machine(v)
  BY <1>1, <1>2 DEF RunOk
<1>4. i \in Instructions
  BY <1>2, <1>3, ElementOfSeq
<1>5. Outcome(i, v, w)
  <2>1. Machine(vm) /\ w \in After(i)
    BY <1>1, <1>2, <1>3
  <2>2. Outcome(i, vm, w)
    BY <1>4, <2>1, AfterIs
  <2> QED
    BY <1>2, <2>2
<1>6. PICK L : /\ Flow(code, L) /\ StackOk(code, v, L)
               /\ t \/ v.leaked = TRUE \/ \E O : OpenFlow(code, L, O) /\ OpenOk(code, v, O)
  BY <1>3 DEF RunOk
<1>7. Machine(w) /\ w.leaked \in BOOLEAN /\ v.leaked \in BOOLEAN
  BY <1>3, <1>5 DEF Outcome, Machine
<1>8. v.leaked = TRUE => w.leaked = TRUE
  BY <1>4, <1>5, <1>7, InstructionOp DEF Outcome
<1>9. ASSUME w.leaked = FALSE
      PROVE  /\ StackOk(code, w, L)
             /\ \A O : OpenFlow(code, L, O) /\ OpenOk(code, v, O) => OpenOk(code, w, O)
  <2>1. v.leaked = FALSE
    BY <1>7, <1>8, <1>9
  <2>2. StackOk(code, w, L)
    <3>1. i = code[v.pc]
      BY <1>2
    <3> QED
      BY <1>3, <1>5, <1>6, <1>9, <2>1, <3>1, StackGoesOn
  <2>3. ASSUME NEW O, OpenFlow(code, L, O), OpenOk(code, v, O) PROVE OpenOk(code, w, O)
    BY <1>2, <1>3, <1>5, <1>6, <1>9, <2>1, <2>3, OpenGoesOn
  <2> QED
    BY <2>2, <2>3
<1>10. RunOk(code, w, t)
  <2>1. StackOk(code, w, L)
    BY <1>7, <1>9 DEF StackOk
  <2>2. t \/ w.leaked = TRUE \/ \E O : OpenFlow(code, L, O) /\ OpenOk(code, w, O)
    BY <1>6, <1>7, <1>8, <1>9
  <2> QED
    BY <1>3, <1>6, <1>7, <2>1, <2>2 DEF RunOk
<1>11. RunInv'
  <2>1. body' = code /\ vm' = w /\ late' = t
    BY <1>1, <1>2
  <2> QED
    BY <1>10, <2>1 DEF RunInv
<1> QED
  BY <1>1, <1>11 DEF ScopesInv

-----------------------------------------------------------------------------
(* The invariant                                                           *)

LEMMA KnownNames == ASSUME text.names \in Nat PROVE Known \subseteq Nat \ {0}
<1>1. PICK x \in Nat : x = text.names + 1
  OBVIOUS
<1>2. PICK m : m = Min({x, MaxNames})
  OBVIOUS
<1>3. \E y \in {x, MaxNames} : \A z \in {x, MaxNames} : y <= z
  BY BoundsAssumption
<1>4. m \in {x, MaxNames}
  BY <1>2, <1>3 DEF Min
<1>5. m \in Nat
  BY <1>4, BoundsAssumption
<1> QED
  BY <1>1, <1>2, <1>5 DEF Known

LEMMA NextStep ==
    ASSUME ScopesInv, ScopesNext
    PROVE  ScopesInv'
<1>1. Known \subseteq Nat \ {0} /\ NoName \in Nat
  BY KnownNames DEF ScopesInv, NoName
<1>2. \A n \in Known : n \in Nat \ {0}
  BY <1>1
<1>3. \A n \in Known \union {NoName} : n \in Nat
  BY <1>1
<1>4. ASSUME NEW n \in Known, Use(n) PROVE ScopesInv'
  BY <1>2, <1>4, UseStep
<1>5. ASSUME NEW n \in Known, Let(n) PROVE ScopesInv'
  BY <1>2, <1>5, LetStep
<1>6. ASSUME NEW n \in Known, BeginFn(n) PROVE ScopesInv'
  BY <1>2, <1>6, BeginFnStep
<1>7. ASSUME NEW n \in Known, Param(n) PROVE ScopesInv'
  BY <1>2, <1>7, ParamStep
<1>8. ASSUME NEW n \in Known, BeginFor(n) PROVE ScopesInv'
  BY <1>2, <1>8, BeginForStep
<1>9. ASSUME NEW array \in BOOLEAN, NEW n \in Known \union {NoName}, BeginCase(array, n) PROVE ScopesInv'
  BY <1>3, <1>9, BeginCaseStep
<1>10. CASE EndFn
  BY <1>10, EndFnStep
<1>11. CASE BeginBlock \/ EndBlock
  BY <1>11, BeginBlockStep, EndBlockStep
<1>12. CASE BeginWhile \/ EndLoop
  BY <1>12, BeginWhileStep, EndLoopStep
<1>13. CASE Leave("break") \/ Leave("continue")
  BY <1>13, BreakStep, ContinueStep
<1>14. CASE BeginMatch \/ EndCase \/ EndMatch
  BY <1>14, BeginMatchStep, EndCaseStep, EndMatchStep
<1>15. CASE Call \/ Execute
  BY <1>15, CallStep, ExecuteStep
<1> QED
  BY <1>4, <1>5, <1>6, <1>7, <1>8, <1>9, <1>10, <1>11, <1>12, <1>13, <1>14, <1>15 DEF ScopesNext

LEMMA StutterStep ==
    ASSUME ScopesInv, UNCHANGED scopeVars
    PROVE  ScopesInv'
BY DEF ScopesInv, CompileInv, RunInv, scopeVars

LEMMA FirstFunction ==
    ASSUME NEW f, f = <<NewCompiler>>, NEW b, b = <<Function(Temp)>>, NEW t
    PROVE  CompileOk(f, b, 0, t)
<1>1. f \in Seq(Compilers) /\ Len(f) = 1 /\ f[1] = NewCompiler
  BY NewIs
<1>2. Temp \in Nat
  BY DEF Temp
<1>3. b \in Seq(Constructs) /\ Len(b) = 1 /\ b[1] = Function(Temp)
  BY <1>2, FunctionConstruct
<1>4. /\ b[1].kind = "fn" /\ b[1].self = Temp /\ DOMAIN b[1].decls = {}
      /\ NewCompiler.scopeDepth = 1 /\ ~Inner(NewCompiler)
      /\ Len(NewCompiler.upvalues) = 0 /\ Len(NewCompiler.code) = 0
  BY <1>2, <1>3, FunctionConstruct, NewIs
<1>5. PICK p : p = [i \in 1 .. 2 |-> i]
  OBVIOUS
<1>6. p \in [1 .. 2 -> Nat] /\ p[1] = 1 /\ p[2] = 2
  BY <1>5
<1>7. 1 .. 1 = {1} /\ 1 .. 2 = {1, 2} /\ 1 .. 0 = {} /\ 2 .. 1 = {} /\ 1 - 1 = 0 /\ 1 + 1 = 2
  OBVIOUS
<1>8. Segmented(f, b, p)
  <2>1. \A i, j \in 1 .. 2 : i < j => p[i] < p[j]
    BY <1>5
  <2>2. p[1 + 1] = p[1] + f[1].scopeDepth
    BY <1>1, <1>4, <1>6, <1>7
  <2>3. p[1] <= 1 /\ 1 < p[1 + 1]
    BY <1>6, <1>7
  <2> QED
    BY <1>1, <1>3, <1>4, <1>6, <1>7, <2>1, <2>2, <2>3 DEF Segmented
<1>9. Nested(f, b, p)
  BY <1>1, <1>4, <1>7 DEF Nested
<1>10. PICK bs : bs = Segment(f, b, p, 1)
  OBVIOUS
<1>11. NewBlocks(bs, Temp)
  <2>1. bs = [d \in {1} |-> b[p[1] + d - 1]]
    BY <1>1, <1>4, <1>7, <1>10 DEF Segment
  <2>2. p[1] + 1 - 1 = 1
    BY <1>6
  <2>3. DOMAIN bs = 1 .. 1 /\ bs[1] = b[1]
    BY <1>7, <2>1, <2>2
  <2>4. \A d \in 1 .. 1 : bs[d] \in Constructs
    BY <1>3, <1>7, <2>3, ElementOfSeq
  <2>5. bs \in [1 .. 1 -> Constructs]
    BY <1>7, <2>1, <2>3, <2>4
  <2>6. bs \in Seq(Constructs) /\ Len(bs) = 1
    <3>1. 1 \in Nat
      OBVIOUS
    <3>2. bs \in Seq(Constructs)
      BY <2>5, <3>1, FunctionIsSeq
    <3> QED
      BY <2>3, <3>1, <3>2
  <2> QED
    BY <1>2, <1>4, <2>3, <2>6 DEF NewBlocks
<1>12. Sits(f[1], Segment(f, b, p, 1)) /\ Compiled(t, f[1], Segment(f, b, p, 1))
  BY <1>1, <1>10, <1>11, NewSits, NewCompiled
<1>13. LeftAlone(f, b, p)
  BY <1>1, <1>7 DEF LeftAlone
<1>14. Consistent(f, b, t, p)
  BY <1>1, <1>7, <1>8, <1>9, <1>12, <1>13 DEF Consistent
<1>15. DeclaredOnce(b, 0)
  BY <1>3, <1>4, <1>7 DEF DeclaredOnce
<1>16. UpvaluesDenote(f, <<<<>>>>)
  <2>1. PICK D : D = <<<<>>>>
    OBVIOUS
  <2>2. D \in Seq(Seq(Nat)) /\ Len(D) = 1 /\ Len(D[1]) = 0
    BY <2>1
  <2>3. UpvaluesDenote(f, D)
    BY <1>1, <1>4, <1>7, <2>2 DEF UpvaluesDenote
  <2> QED
    BY <2>1, <2>3
<1>17. (\E y : Consistent(f, b, t, y)) /\ \E y : UpvaluesDenote(f, y)
  BY <1>14, <1>16
<1>18. Len(f) > 0
  BY <1>1
<1> QED
  BY <1>1, <1>3, <1>15, <1>17, <1>18 DEF CompileOk

\* Before the code runs, nothing is captured.
Idle == status # "run" => vm.open = {}

LEMMA InitInv == ScopesInit => ScopesInv /\ Idle
<1> SUFFICES ASSUME ScopesInit PROVE ScopesInv /\ Idle
  OBVIOUS
<1>1. /\ text = [length |-> 0, names |-> 0] /\ status = "compile" /\ late = FALSE /\ vm.open = {}
      /\ fns = <<NewCompiler>> /\ blocks = <<Function(Temp)>>
  BY DEF ScopesInit
<1>2. text.length = 0 /\ text.names = 0
  BY <1>1
<1>3. CompileOk(fns, blocks, 0, late)
  BY <1>1, FirstFunction
<1> QED
  BY <1>1, <1>2, <1>3 DEF ScopesInv, CompileInv, Idle

LEMMA IdleStep ==
    ASSUME Idle, [ScopesNext]_scopeVars
    PROVE  Idle'
<1>1. CASE UNCHANGED scopeVars
  BY <1>1 DEF Idle, scopeVars
<1>2. ASSUME NEW n, Reads(n) PROVE Idle'
  BY <1>2 DEF Reads, Idle
<1>3. ASSUME NEW kind, Closes(kind) PROVE Idle'
  BY <1>3 DEF Closes, Idle
<1>4. ASSUME NEW n, Use(n) \/ Let(n) \/ BeginFn(n) \/ Param(n) \/ BeginFor(n) PROVE Idle'
  BY <1>2, <1>4 DEF Use, Let, BeginFn, Param, BeginFor, ReadsStatement
<1>5. ASSUME NEW array, NEW n, BeginCase(array, n) PROVE Idle'
  BY <1>2, <1>5 DEF BeginCase
<1>6. CASE EndFn \/ EndBlock \/ EndLoop \/ EndCase \/ EndMatch
  BY <1>3, <1>6 DEF EndFn, EndBlock, EndLoop, EndCase, EndMatch
<1>7. CASE BeginBlock \/ BeginWhile \/ BeginMatch
  BY <1>2, <1>7 DEF BeginBlock, BeginWhile, BeginMatch, ReadsStatement
<1>8. ASSUME NEW kind, Leave(kind) PROVE Idle'
  BY <1>2, <1>8 DEF Leave, ReadsStatement
<1>9. CASE Call \/ Execute
  BY <1>9 DEF Call, Execute, Idle
<1> QED
  BY <1>1, <1>4, <1>5, <1>6, <1>7, <1>8, <1>9 DEF ScopesNext

\* At every point of a function that is read, and at every place of the code that
\* runs, the invariant holds (compiler.cpp, VM::runTaskSlice).
THEOREM ScopesInvariant == ScopesSpec => [](ScopesInv /\ Idle)
<1>1. ScopesInv /\ Idle /\ [ScopesNext]_scopeVars => (ScopesInv /\ Idle)'
  BY NextStep, StutterStep, IdleStep
<1> QED
  BY <1>1, InitInv, PTL DEF ScopesSpec

LEMMA SlotsOfInv ==
    ASSUME ScopesInv
    PROVE  vm.leaked \/ SlotsHoldTheirVariables
<1> SUFFICES ASSUME ~vm.leaked, status = "run", vm.pc \in DOMAIN body
             PROVE  LET i == body[vm.pc]
                    IN  /\ i.op = "get" => Holds(i)
                        /\ i.op = "closure" => \A x \in i.captures : Holds(x)
  BY DEF SlotsHoldTheirVariables
<1>1. PICK code, v, t, i : code = body /\ v = vm /\ t = late /\ i = code[v.pc]
  OBVIOUS
<1>2. RunOk(code, v, t) /\ v.leaked # TRUE
  BY <1>1 DEF ScopesInv, RunInv
<1>3. PICK L : Flow(code, L) /\ StackOk(code, v, L)
  BY <1>2 DEF RunOk
<1>4. code \in Seq(Instructions) /\ v.pc \in 1 .. Len(code)
  BY <1>1, <1>2 DEF RunOk
<1>5. v.stack = L[v.pc] /\ v.stack \in Seq(Nat) /\ FlowStep(i, L, v.pc, Len(code))
  BY <1>1, <1>2, <1>3, <1>4 DEF StackOk, Flow
<1>6. DOMAIN v.stack = 1 .. Len(v.stack)
  BY <1>5
<1>7. i.op = "get" => i.at \in DOMAIN v.stack /\ v.stack[i.at] = i.var
  BY <1>5, <1>6, Zenon DEF FlowStep
<1>8. i.op = "closure" => \A x \in i.captures : x.at \in DOMAIN v.stack /\ v.stack[x.at] = x.var
  BY <1>5, <1>6, Zenon DEF FlowStep
<1> QED
  BY <1>1, <1>7, <1>8, Zenon DEF Holds

LEMMA OpenOfInv ==
    ASSUME ScopesInv, Idle
    PROVE  CapturedAreClosed
<1>1. CASE status # "run"
  BY <1>1 DEF Idle, CapturedAreClosed, OpenSlotsExist
<1>2. CASE status = "run"
  <2> SUFFICES ASSUME ~late, ~vm.leaked PROVE vm.open \subseteq DOMAIN vm.stack
    BY DEF CapturedAreClosed, OpenSlotsExist
  <2>1. PICK code, v, t : code = body /\ v = vm /\ t = late
    OBVIOUS
  <2>2. RunOk(code, v, t) /\ v.leaked # TRUE /\ ~t
    BY <1>2, <2>1 DEF ScopesInv, RunInv
  <2>3. PICK L : StackOk(code, v, L) /\ \E O : OpenFlow(code, L, O) /\ OpenOk(code, v, O)
    BY <2>2 DEF RunOk
  <2>4. v.stack \in Seq(Nat) /\ v.open \subseteq 1 .. Len(v.stack)
    BY <2>2, <2>3 DEF StackOk, OpenOk
  <2> QED
    BY <2>1, <2>4
<1> QED
  BY <1>1, <1>2

\* A name means the variable of the innermost scope that declares it, for functions of any
\* length and depth: when it is compiled, and when the code runs, as long as no case of a
\* match has failed and left its values behind (namedVariable, resolveUpvalue, endScope).
THEOREM NamesMeanVariables == ScopesSpec => []NamesMeanTheirVariables
<1>1. ScopesInv /\ Idle => NamesMeanTheirVariables
  BY ResolvedNames, SlotsOfInv DEF NamesMeanTheirVariables
<1> QED
  BY <1>1, ScopesInvariant, PTL

\* What a closure has captured is closed, not popped, on every way out of its scope, but
\* for a break that is read before the closure (endScope, emitScopeCleanup).
THEOREM CapturedClosed == ScopesSpec => []CapturedAreClosed
<1>1. ScopesInv /\ Idle => CapturedAreClosed
  BY OpenOfInv
<1> QED
  BY <1>1, ScopesInvariant, PTL
=============================================================================
