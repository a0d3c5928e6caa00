----------------------------- MODULE UMakeProofs -----------------------------
(* Theorems about UMake for every set of targets, every set of graphs and  *)
(* every number of jobs and commands.                                      *)
EXTENDS UMake, FiniteSetTheorems, SequenceTheorems, TLAPS

Over == {"built", "dropped"}

\* All the dependencies of u have ended, and none is missing.
DepsOver(u) == \A k \in DOMAIN deps[u] : deps[u][k] \in Targets /\ job[deps[u][k]] \in Over

\* The places of the dependencies of u that have not ended.
Remaining(u) == {k \in DOMAIN deps[u] : job[deps[u][k]] \notin Over}

OverTargets == {t \in Targets : job[t] \in Over}

-----------------------------------------------------------------------------
(* The inductive invariant                                                 *)

\* The recursion: a chain of needs from the goal, no target twice, all that
\* was seen closed under needs.
StackInv ==
    /\ \A i \in DOMAIN stack :
          /\ stack[i].target \in Abstract!Wanted \ visited
          /\ stack[i].next \in 1 .. Len(deps[stack[i].target]) + 1
          /\ \A j \in DOMAIN stack : stack[i].target = stack[j].target => i = j
          /\ i + 1 \in DOMAIN stack =>
                /\ stack[i].next > 1
                /\ stack[i + 1].target = deps[stack[i].target][stack[i].next - 1]
    /\ stack # <<>> => stack[1].target = goal

SeenInv ==
    /\ pc \in {"visit", "commands"} =>
          \A i \in DOMAIN stack : \A k \in 1 .. stack[i].next - 1 :
             \/ deps[stack[i].target][k] \in visited
             \/ i + 1 \in DOMAIN stack /\ k = stack[i].next - 1
    /\ \A t \in visited : t \in Abstract!Wanted /\ Elements(deps[t]) \subseteq visited

\* Where the call is, and what it will return.
CallInv ==
    /\ pc = "begin" => stack = <<>> /\ visited = {}
    /\ pc \in {"visit", "commands"} => stack # <<>>
    /\ pc = "commands" => jobs = 1
    /\ pc \in {"loop", "wait", "drain"} => jobs > 1 /\ goal \in visited
    /\ pc # "done" => result = "none"
    /\ pc \in {"begin", "visit", "commands"} => exitCode = "ok"
    /\ pc = "return" =>
          /\ exitCode = "ok" => goal \in Targets /\ job[goal] = "built"
          /\ exitCode \in Reasons => \E t \in Targets : job[t] = "broken"
          /\ exitCode = "cycle" => Abstract!Cyclic
          /\ exitCode = "unknown" => Abstract!Wanted \ Targets # {}

\* What holds of the targets, whoever builds them.
JobsInv ==
    /\ \A t \in Targets :
          /\ starts[t] = IF job[t] = "none" THEN 0 ELSE 1
          /\ job[t] # "none" => t \in Abstract!Wanted /\ DepsOver(t)
          /\ job[t] \in {"cut", "dropped"} => failed
          /\ job[t] = "command" => ran[t] < MaxCommands
    /\ failed => \E t \in Targets : job[t] = "broken"
    /\ pc \in {"return", "done"} => ActiveJobs = {}

\* One at a time: nothing is under way but the target on top of the stack.
SerialInv == jobs = 1 =>
    /\ \A t \in Targets :
          /\ job[t] \in Active => pc = "commands" /\ t = Top.target
          /\ t \in visited <=> job[t] = "built"
          /\ job[t] = "broken" => pc \in {"return", "done"}
    /\ ~failed /\ runningTasks = 0 /\ completedTasks = 0 /\ readyQueue = <<>>

\* Several at once: the tables count what they are meant to count.
TablesInv == jobs > 1 =>
    /\ \A t \in Targets : job[t] # "none" => t \in visited /\ pc \in {"loop", "wait", "drain", "return", "done"}
    /\ runningTasks = Cardinality(ActiveJobs)
    /\ completedTasks = Cardinality(OverTargets)
    /\ \A i \in DOMAIN readyQueue :
          /\ readyQueue[i] \in visited
          /\ job[readyQueue[i]] = "none"
          /\ DepsOver(readyQueue[i])
          /\ \A j \in DOMAIN readyQueue : readyQueue[i] = readyQueue[j] => i = j
    /\ pc \in {"begin", "visit"} => readyQueue = <<>>
    /\ pc \in {"loop", "wait", "drain"} =>
          \A u \in visited : inDegree[u] = Cardinality(Remaining(u))
    /\ \A t \in Targets : job[t] = "broken" => failed
    /\ failed => exitCode \in Reasons
    /\ pc \in {"loop", "wait", "drain"} /\ ~failed => exitCode = "ok"
    /\ pc = "drain" => LoopOver

BuildInv ==
    /\ TypeOK /\ StackInv /\ SeenInv /\ CallInv /\ JobsInv /\ SerialInv /\ TablesInv

-----------------------------------------------------------------------------
(* Names that are wanted, sequences without repetition                     *)

LEMMA GoalIsWanted ==
    ASSUME TypeOK
    PROVE  goal \in Abstract!Wanted
  BY DEF TypeOK, Abstract!Wanted

\* What a wanted target needs is wanted.
LEMMA NeedsAreWanted ==
    ASSUME TypeOK, NEW t \in Targets, t \in Abstract!Wanted, NEW k \in DOMAIN deps[t]
    PROVE  deps[t][k] \in Abstract!Wanted
<1>1. deps[t] \in Seq(Names)
  BY UMakeAssumption DEF TypeOK
<1>2. deps[t][k] \in Names
  BY <1>1
<1>3. deps[t][k] \in Elements(deps[t])
  BY DEF Elements
<1>4. ASSUME NEW S \in SUBSET Names, goal \in S,
             \A u \in S \cap Targets : [v \in Targets |-> Elements(deps[v])][u] \subseteq S
      PROVE  deps[t][k] \in S
  <2>1. t \in S
    BY <1>4 DEF Abstract!Wanted
  <2>2. [v \in Targets |-> Elements(deps[v])][t] = Elements(deps[t])
    OBVIOUS
  <2> QED
    BY <2>1, <2>2, <1>3, <1>4
<1> QED
  BY <1>2, <1>4 DEF Abstract!Wanted

\* The names that are wanted change with the graph and the goal only.
LEMMA WantedKept ==
    ASSUME UNCHANGED graph
    PROVE  Abstract!Wanted' = Abstract!Wanted /\ (Abstract!Cyclic' <=> Abstract!Cyclic)
<1>1. deps' = deps /\ goal' = goal
  BY DEF graph
<1> QED
  BY <1>1 DEF Abstract!Wanted, Abstract!Cyclic, Elements

\* The first n elements of a sequence without repetition.
LEMMA FirstElements ==
    ASSUME NEW S, NEW s \in Seq(S), NEW n \in 0 .. Len(s),
           \A i, j \in DOMAIN s : s[i] = s[j] => i = j
    PROVE  /\ Elements(SubSeq(s, 1, n)) = {s[i] : i \in 1 .. n}
           /\ Cardinality(Elements(SubSeq(s, 1, n))) = n
<1> DEFINE E == Elements(SubSeq(s, 1, n))
           f == [i \in 1 .. n |-> s[i]]
<1>1. /\ SubSeq(s, 1, n) \in Seq(S) /\ Len(SubSeq(s, 1, n)) = n
      /\ \A i \in 1 .. n : SubSeq(s, 1, n)[i] = s[i]
  BY SubSeqProperties
<1>2. E = {s[i] : i \in 1 .. n}
  BY <1>1 DEF Elements
<1>3. f \in Bijection(1 .. n, E)
  BY <1>2 DEF Bijection, Injection, Surjection, IsInjective
<1>4. Cardinality(E) = n
  BY <1>3, FS_CountingElements DEF ExistsBijection
<1> QED
  BY <1>2, <1>4

\* The orders in which the elements of a set of targets may stand in the queue.
LEMMA OrderingsOf ==
    ASSUME NEW S \in SUBSET Targets, NEW q \in SetToSeqs(S)
    PROVE  /\ q \in Seq(S)
           /\ \A i, j \in DOMAIN q : q[i] = q[j] => i = j
<1>1. Cardinality(S) \in Nat
  BY UMakeAssumption, FS_Subset, FS_CardinalityType
<1>2. q \in [1 .. Cardinality(S) -> S] /\ \A i, j \in 1 .. Cardinality(S) : i # j => q[i] # q[j]
  BY DEF SetToSeqs
<1> QED
  BY <1>1, <1>2, SeqDef

-----------------------------------------------------------------------------
(* The recursion                                                           *)

LEMMA Shapes ==
    ASSUME TypeOK
    PROVE  /\ deps \in [Targets -> Seq(Names)]
           /\ Reasons \subseteq Failures
           /\ IsFiniteSet(visited) /\ Cardinality(visited) \in Nat
           /\ \A S \in SUBSET Targets : IsFiniteSet(S) /\ Cardinality(S) \in Nat
<1>1. \A S \in SUBSET Targets : IsFiniteSet(S) /\ Cardinality(S) \in Nat
  BY UMakeAssumption, FS_Subset, FS_CardinalityType
<1>2. visited \in SUBSET Targets
  BY DEF TypeOK
<1> QED
  BY <1>1, <1>2, UMakeAssumption DEF TypeOK, Reasons, Failures

LEMMA BuildStart == Init => BuildInv
<1> SUFFICES ASSUME Init PROVE BuildInv
  OBVIOUS
<1> USE DEF Init
<1>0. IsFiniteSet({}) /\ Cardinality({}) = 0
  BY FS_EmptySet
<1>1. TypeOK
  <2>1. <<>> \in Seq([target : Targets, next : Nat]) /\ <<>> \in Seq(Targets)
    OBVIOUS
  <2>2. 0 \in 0 .. jobs /\ 0 \in 0 .. Cardinality(visited)
    BY <1>0, UMakeAssumption
  <2>3. ran \in [Targets -> 0 .. MaxCommands]
    BY UMakeAssumption
  <2>4. goal \in Names
    BY UMakeAssumption DEF Names
  <2> QED
    BY <2>1, <2>2, <2>3, <2>4 DEF TypeOK
<1>2. ActiveJobs = {} /\ OverTargets = {}
  BY DEF ActiveJobs, Active, OverTargets, Over
<1>3. StackInv /\ SeenInv /\ CallInv
  BY DEF StackInv, SeenInv, CallInv
<1>4. JobsInv /\ SerialInv
  BY <1>2 DEF JobsInv, SerialInv, Active
<1>5. TablesInv
  BY <1>0, <1>2 DEF TablesInv
<1> QED
  BY <1>1, <1>3, <1>4, <1>5 DEF BuildInv

\* While the graph is walked, no target is under way but the one on top of the
\* stack of an executor that runs one at a time.
LEMMA WalkingIsQuiet ==
    ASSUME BuildInv, pc \in {"begin", "visit"}
    PROVE  /\ ActiveJobs = {}
           /\ \A t \in Targets : job[t] \in {"none", "built"}
           /\ jobs > 1 => \A t \in Targets : job[t] = "none"
           /\ ~failed /\ readyQueue = <<>> /\ runningTasks = 0 /\ completedTasks = 0
<1> USE DEF BuildInv
<1>1. jobs = 1 \/ jobs > 1
  BY DEF TypeOK
<1>2. CASE jobs = 1
  <2>1. \A t \in Targets : job[t] \notin Active \cup {"broken"}
    BY <1>2 DEF SerialInv
  <2>2. \A t \in Targets : job[t] # "dropped"
    BY <1>2 DEF SerialInv, JobsInv
  <2>3. \A t \in Targets : job[t] \in {"none", "built"}
    BY <2>1, <2>2 DEF TypeOK, Ended
  <2> QED
    BY <1>2, <2>1, <2>3 DEF SerialInv, ActiveJobs
<1>3. CASE jobs > 1
  <2>1. \A t \in Targets : job[t] = "none"
    BY <1>3 DEF TablesInv
  <2>2. ActiveJobs = {} /\ OverTargets = {}
    BY <2>1 DEF ActiveJobs, Active, OverTargets, Over
  <2>3. ~failed
    BY <2>1 DEF JobsInv
  <2> QED
    BY <1>3, <2>1, <2>2, <2>3, FS_EmptySet DEF TablesInv
<1> QED
  BY <1>1, <1>2, <1>3

LEMMA WalkKeeps ==
    ASSUME BuildInv, Walked, pc \in {"begin", "visit"}, pc' \in {"visit", "return"}
    PROVE  JobsInv' /\ SerialInv' /\ TablesInv'
<1> USE DEF BuildInv
<1>1. /\ ActiveJobs = {}
      /\ \A t \in Targets : job[t] \in {"none", "built"}
      /\ jobs > 1 => \A t \in Targets : job[t] = "none"
      /\ ~failed /\ readyQueue = <<>> /\ runningTasks = 0 /\ completedTasks = 0
  BY WalkingIsQuiet
<1>2. /\ deps' = deps /\ goal' = goal /\ jobs' = jobs /\ visited' = visited /\ job' = job
      /\ UNCHANGED table /\ failed' = failed /\ starts' = starts /\ ran' = ran
  BY DEF Walked, graph
<1>3. Abstract!Wanted' = Abstract!Wanted
  BY WantedKept DEF Walked
<1>4. ActiveJobs' = ActiveJobs /\ OverTargets' = OverTargets
  BY <1>2 DEF ActiveJobs, OverTargets
<1>5. JobsInv'
  BY <1>1, <1>2, <1>3, <1>4 DEF JobsInv, DepsOver
<1>6. SerialInv'
  BY <1>1, <1>2 DEF SerialInv, Active, table
<1>7. TablesInv'
  BY <1>1, <1>2, <1>4 DEF TablesInv, table
<1> QED
  BY <1>5, <1>6, <1>7

LEMMA BeginKeeps ==
    ASSUME BuildInv, Begin
    PROVE  BuildInv'
<1> USE DEF BuildInv
<1>1. /\ pc = "begin" /\ stack = <<>> /\ visited = {} /\ Walked
      /\ Visiting = {}
  BY DEF Begin, CallInv, Visiting
<1>2. /\ deps' = deps /\ goal' = goal /\ jobs' = jobs /\ visited' = {} /\ job' = job
      /\ UNCHANGED <<ran, table, failed, notified, starts, result>>
  BY <1>1 DEF Walked, graph
<1>3. Abstract!Wanted' = Abstract!Wanted /\ (Abstract!Cyclic' <=> Abstract!Cyclic)
  BY WantedKept, <1>1 DEF Walked
<1>4. goal \in Abstract!Wanted
  BY GoalIsWanted
<1>5. exitCode = "ok" /\ result = "none"
  BY <1>1 DEF CallInv
<1>6. CASE goal = Unknown
  <2>1. stack' = <<>> /\ pc' = "return" /\ exitCode' = "unknown"
    BY <1>6, <1>1, UMakeAssumption DEF Begin, Enter, Leave
  <2>2. TypeOK'
    BY <1>1, <1>2, <2>1 DEF TypeOK, table, Failures
  <2>3. StackInv' /\ SeenInv'
    BY <1>2, <2>1 DEF StackInv, SeenInv
  <2>4. CallInv'
    BY <1>2, <1>3, <1>4, <1>5, <1>6, <2>1, UMakeAssumption DEF CallInv, Reasons
  <2> QED
    BY <2>1, <2>2, <2>3, <2>4, WalkKeeps, <1>1
<1>7. CASE goal \in Targets
  <2>1. stack' = <<Frame(goal)>> /\ pc' = "visit" /\ exitCode' = exitCode
    BY <1>7, <1>1, UMakeAssumption DEF Begin, Enter, Leave
  <2>2. stack'[1] = Frame(goal) /\ DOMAIN stack' = {1} /\ stack' \in Seq([target : Targets, next : Nat])
    BY <2>1, <1>7 DEF Frame
  <2>3. TypeOK'
    BY <1>1, <1>2, <2>1, <2>2 DEF TypeOK, table
  <2>4. 1 \in 1 .. Len(deps[goal]) + 1
    BY Shapes, <1>7
  <2>5. StackInv'
    BY <1>2, <1>3, <1>4, <1>7, <2>2, <2>4 DEF StackInv, Frame
  <2>6. SeenInv'
    BY <1>2, <2>2 DEF SeenInv, Frame
  <2>7. CallInv'
    BY <1>2, <1>5, <2>1, <2>2 DEF CallInv
  <2> QED
    BY <2>1, <2>3, <2>5, <2>6, <2>7, WalkKeeps, <1>1
<1> QED
  BY <1>6, <1>7 DEF TypeOK, Names

\* The stack, entry by entry.
LEMMA StackShape ==
    ASSUME TypeOK
    PROVE  /\ DOMAIN stack = 1 .. Len(stack) /\ Len(stack) \in Nat
           /\ \A j \in DOMAIN stack :
                 /\ stack[j].target \in Targets /\ stack[j].next \in Nat
                 /\ deps[stack[j].target] \in Seq(Names)
                 /\ Len(deps[stack[j].target]) \in Nat
                 /\ DOMAIN deps[stack[j].target] = 1 .. Len(deps[stack[j].target])
<1> DEFINE F == [target : Targets, next : Nat]
<1>1. stack \in Seq(F)
  BY DEF TypeOK
<1>2. ASSUME NEW j \in DOMAIN stack
      PROVE  stack[j].target \in Targets /\ stack[j].next \in Nat
  <2>1. stack[j] \in F
    <3> HIDE DEF F
    <3> QED
      BY <1>1
  <2> QED
    BY <2>1
<1>3. deps \in [Targets -> Seq(Names)]
  BY Shapes
<1>4. ASSUME NEW t \in Targets
      PROVE  deps[t] \in Seq(Names) /\ Len(deps[t]) \in Nat /\ DOMAIN deps[t] = 1 .. Len(deps[t])
  BY <1>3
<1> QED
  BY <1>1, <1>2, <1>4

\* A dependency on a target of the stack is a cycle.
LEMMA BackEdgeIsCycle ==
    ASSUME BuildInv, stack # <<>>, NEW i \in DOMAIN stack, NEW k \in DOMAIN deps[Top.target],
           deps[Top.target][k] = stack[i].target
    PROVE  Abstract!Cyclic
<1> DEFINE S == {stack[j].target : j \in i .. Len(stack)}
<1>1. /\ DOMAIN stack = 1 .. Len(stack) /\ Len(stack) \in Nat
      /\ \A j \in DOMAIN stack : stack[j].target \in Targets
  BY StackShape DEF BuildInv
<1>2. S \subseteq Abstract!Wanted \cap Targets /\ S # {}
  <2>1. \A j \in i .. Len(stack) : j \in DOMAIN stack
    BY <1>1
  <2>2. stack[i].target \in S
    BY <1>1
  <2> QED
    BY <1>1, <2>1, <2>2 DEF BuildInv, StackInv
<1>3. ASSUME NEW j \in i .. Len(stack)
      PROVE  \E n \in Elements(deps[stack[j].target]) : n \in S
  <2>1. CASE j = Len(stack)
    <3>1. stack[i].target \in S /\ Top = stack[j]
      BY <1>1, <2>1 DEF Top
    <3> QED
      BY <3>1 DEF Elements
  <2>2. CASE j # Len(stack)
    <3>1. j + 1 \in DOMAIN stack /\ j \in DOMAIN stack /\ j + 1 \in i .. Len(stack)
      <4> DEFINE h == Len(stack)
      <4>1. h \in Nat /\ i \in 1 .. h /\ j \in i .. h /\ j # h
        BY <1>1, <2>2
      <4> HIDE DEF h
      <4>2. j \in 1 .. h /\ j + 1 \in 1 .. h /\ j + 1 \in i .. h
        BY <4>1
      <4> QED
        BY <4>2, <1>1 DEF h
    <3> DEFINE d == deps[stack[j].target]
               m == stack[j].next
               l == Len(d)
    <3>2. l \in Nat /\ DOMAIN d = 1 .. l
      BY StackShape, <3>1 DEF BuildInv
    <3>3. m \in 1 .. l + 1 /\ m > 1 /\ stack[j + 1].target = d[m - 1]
      BY <3>1 DEF BuildInv, StackInv
    <3>4. m - 1 \in DOMAIN d
      <4> HIDE DEF m, l
      <4> QED
        BY <3>2, <3>3
    <3>5. stack[j + 1].target \in Elements(d)
      BY <3>3, <3>4 DEF Elements
    <3> QED
      BY <3>1, <3>5
  <2> QED
    BY <2>1, <2>2
<1>4. \A t \in S : [v \in Targets |-> Elements(deps[v])][t] \cap S # {}
  BY <1>2, <1>3
<1> QED
  BY <1>2, <1>4 DEF Abstract!Cyclic

LEMMA NextDependencyKeeps ==
    ASSUME BuildInv, NextDependency
    PROVE  BuildInv'
<1> USE DEF BuildInv
<1> DEFINE F == [target : Targets, next : Nat]
           h == Len(stack)
           t == Top.target
           m == Top.next
           n == deps[t][m]
           s == [stack EXCEPT ![Len(stack)].next = @ + 1]
<1>1. pc = "visit" /\ stack # <<>> /\ m <= Len(deps[t]) /\ Enter(n, s) /\ Walked
  BY DEF NextDependency
<1>2. /\ deps' = deps /\ goal' = goal /\ jobs' = jobs /\ visited' = visited /\ job' = job
      /\ UNCHANGED <<ran, table, failed, notified, starts, result>>
  BY <1>1 DEF Walked, graph
<1>3. Abstract!Wanted' = Abstract!Wanted /\ (Abstract!Cyclic' <=> Abstract!Cyclic)
  BY WantedKept, <1>1 DEF Walked
<1>4. /\ h \in Nat \ {0} /\ DOMAIN stack = 1 .. h /\ h \in DOMAIN stack /\ stack \in Seq(F)
      /\ Top = stack[h]
  BY <1>1, StackShape DEF TypeOK, Top
<1>5. t \in Targets /\ deps[t] \in Seq(Names) /\ DOMAIN deps[t] = 1 .. Len(deps[t]) /\ Len(deps[t]) \in Nat
  BY <1>4, StackShape
<1>6. m \in DOMAIN deps[t] /\ m \in 1 .. Len(deps[t])
  <2>1. m \in 1 .. Len(deps[t]) + 1
    BY <1>4 DEF StackInv
  <2> QED
    BY <2>1, <1>1, <1>5
<1>7. n \in Names /\ n \in Abstract!Wanted
  <2>1. t \in Abstract!Wanted
    BY <1>4 DEF StackInv
  <2> QED
    BY <2>1, <1>5, <1>6, NeedsAreWanted
<1>8. /\ s \in Seq(F) /\ Len(s) = h /\ DOMAIN s = 1 .. h
      /\ \A j \in 1 .. h : j # h => s[j] = stack[j]
      /\ s[h].target = t /\ s[h].next = m + 1
  <2>1. s = [stack EXCEPT ![h] = [target |-> t, next |-> m + 1]]
    <3>1. stack[h] \in F
      <4> HIDE DEF F
      <4> QED
        BY <1>4
    <3>2. [stack[h] EXCEPT !.next = @ + 1] = [target |-> t, next |-> m + 1]
      BY <3>1, <1>4
    <3> QED
      BY <3>2, <1>4
  <2>2. [target |-> t, next |-> m + 1] \in F
    BY <1>5, <1>6
  <2> HIDE DEF F, s
  <2> QED
    BY <2>1, <2>2, <1>4
<1>9. exitCode = "ok" /\ result = "none"
  BY <1>1 DEF CallInv
<1>20. Visiting \cap visited = {} /\ Unknown \notin visited /\ Unknown \notin Visiting
  <2>1. \A i \in DOMAIN stack : stack[i].target \in Targets \ visited
    BY StackShape DEF StackInv
  <2>2. visited \subseteq Targets
    BY DEF TypeOK
  <2> QED
    BY <2>1, <2>2, UMakeAssumption DEF Visiting
<1>21. /\ n \in visited => stack' = s /\ pc' = "visit" /\ exitCode' = exitCode
       /\ n = Unknown => stack' = s /\ pc' = "return" /\ exitCode' = "unknown"
       /\ n \in Visiting => stack' = s /\ pc' = "return" /\ exitCode' = "cycle"
  <2> HIDE DEF n, s
  <2> QED
    BY <1>1, <1>20, UMakeAssumption DEF Enter, Leave
<1> HIDE DEF h, s
\* The stack s keeps its chain.
<1>10. ASSUME stack' = s PROVE StackInv'
  <2>1. ASSUME NEW i \in DOMAIN s
        PROVE  /\ s[i].target = stack[i].target
               /\ s[i].next = stack[i].next \/ (i = h /\ s[i].next = m + 1)
    BY <1>4, <1>8
  <2>2. ASSUME NEW i \in DOMAIN s
        PROVE  s[i].next \in 1 .. Len(deps[s[i].target]) + 1
    <3>1. CASE i = h
      BY <1>5, <1>6, <1>8, <3>1
    <3>2. CASE i # h
      BY <1>4, <1>8, <3>2 DEF StackInv
    <3> QED
      BY <3>1, <3>2
  <2>3. ASSUME NEW i \in DOMAIN s, i + 1 \in DOMAIN s
        PROVE  s[i].next > 1 /\ s[i + 1].target = deps[s[i].target][s[i].next - 1]
    <3>1. i # h
      BY <1>4, <1>8, <2>3
    <3> QED
      BY <3>1, <2>1, <1>4, <1>8, <2>3 DEF StackInv
  <2>4. s[1].target = goal
    BY <2>1, <1>1, <1>4, <1>8 DEF StackInv
  <2> QED
    BY <2>1, <2>2, <2>3, <2>4, <1>2, <1>3, <1>4, <1>8, <1>10 DEF StackInv
<1>11. CASE n \in visited
  <2>1. stack' = s /\ pc' = "visit" /\ exitCode' = exitCode
    BY <1>11, <1>21
  <2>2. SeenInv'
    <3>1. ASSUME NEW i \in DOMAIN s, NEW k \in 1 .. s[i].next - 1
          PROVE  deps[s[i].target][k] \in visited \/ (i + 1 \in DOMAIN s /\ k = s[i].next - 1)
      <4>1. CASE i # h
        BY <4>1, <1>1, <1>4, <1>8 DEF SeenInv
      <4>2. CASE i = h /\ k = m
        BY <4>2, <1>8, <1>11
      <4>3. CASE i = h /\ k # m
        <5>1. k \in 1 .. m - 1
          BY <4>3, <1>6, <1>8
        <5>2. h + 1 \notin DOMAIN stack
          BY <1>4
        <5> QED
          BY <5>1, <5>2, <4>3, <1>1, <1>4, <1>8 DEF SeenInv
      <4> QED
        BY <4>1, <4>2, <4>3
    <3> QED
      BY <3>1, <1>2, <1>3, <2>1 DEF SeenInv
  <2>3. TypeOK'
    BY <1>1, <1>2, <1>8, <2>1 DEF TypeOK, table
  <2>4. CallInv'
    BY <1>2, <1>4, <1>8, <1>9, <2>1 DEF CallInv
  <2> QED
    BY <2>1, <2>2, <2>3, <2>4, <1>1, <1>10, WalkKeeps
<1>12. CASE n = Unknown \/ (n \in Visiting /\ n \notin visited)
  <2>1. stack' = s /\ pc' = "return"
        /\ ((exitCode' = "unknown" /\ n = Unknown) \/ (exitCode' = "cycle" /\ n \in Visiting))
    BY <1>12, <1>21
  <2>2. SeenInv'
    BY <1>2, <1>3, <2>1 DEF SeenInv
  <2>3. TypeOK'
    BY <1>1, <1>2, <1>8, <2>1 DEF TypeOK, table, Failures
  <2>4. exitCode' = "cycle" => Abstract!Cyclic
    BY <2>1, <1>1, <1>6, BackEdgeIsCycle DEF Visiting
  <2>5. exitCode' = "unknown" => Abstract!Wanted \ Targets # {}
    BY <2>1, <1>7, UMakeAssumption
  <2>6. CallInv'
    BY <1>2, <1>3, <1>9, <2>1, <2>4, <2>5 DEF CallInv, Reasons
  <2> QED
    BY <2>1, <2>2, <2>3, <2>6, <1>1, <1>10, WalkKeeps
<1>13. CASE n \in Targets \ (visited \cup Visiting)
  <2>1. stack' = Append(s, Frame(n)) /\ pc' = "visit" /\ exitCode' = exitCode
    BY <1>13, <1>1, UMakeAssumption DEF Enter, Leave
  <2>2. Frame(n) \in F /\ Frame(n).target = n /\ Frame(n).next = 1
    BY <1>13 DEF Frame
  <2>3. /\ stack' \in Seq(F) /\ DOMAIN stack' = 1 .. h + 1
        /\ \A j \in 1 .. h : stack'[j] = s[j]
        /\ stack'[h + 1] = Frame(n)
    <3> HIDE DEF F
    <3> QED
      BY <1>8, <2>1, <2>2, <1>4
  <2>4. ASSUME NEW i \in 1 .. h
        PROVE  /\ stack'[i].target = stack[i].target
               /\ i # h => stack'[i].next = stack[i].next
    BY <1>4, <1>8, <2>3
  <2>5. stack'[h].next = m + 1 /\ stack'[h].target = t
    BY <1>4, <1>8, <2>3
  <2>6. stack'[h + 1].next = 1 /\ stack'[h + 1].target = n
    BY <2>2, <2>3
  <2>7. StackInv'
    <3>1. ASSUME NEW i \in 1 .. h + 1
          PROVE  stack'[i].target \in Abstract!Wanted \ visited
      <4>1. CASE i \in 1 .. h
        BY <4>1, <2>4, <1>4 DEF StackInv
      <4>2. CASE i = h + 1
        BY <4>2, <2>6, <1>7, <1>13
      <4> QED
        BY <4>1, <4>2, <1>4
    <3>2. ASSUME NEW i \in 1 .. h + 1
          PROVE  stack'[i].next \in 1 .. Len(deps[stack'[i].target]) + 1
      <4>1. CASE i \in 1 .. h /\ i # h
        BY <4>1, <2>4, <1>4 DEF StackInv
      <4>2. CASE i = h
        BY <4>2, <2>5, <1>5, <1>6
      <4>3. CASE i = h + 1
        <5>1. Len(deps[n]) \in Nat
          BY Shapes, <1>13
        <5> QED
          BY <5>1, <4>3, <2>6
      <4> QED
        BY <4>1, <4>2, <4>3, <1>4
    <3>3. ASSUME NEW i \in 1 .. h + 1, NEW j \in 1 .. h + 1, stack'[i].target = stack'[j].target
          PROVE  i = j
      <4>1. \A k \in 1 .. h : stack'[k].target # n
        BY <2>4, <1>4, <1>13 DEF Visiting
      <4>2. CASE i \in 1 .. h /\ j \in 1 .. h
        BY <4>2, <3>3, <2>4, <1>4 DEF StackInv
      <4>3. CASE i = h + 1 \/ j = h + 1
        BY <4>1, <4>3, <3>3, <2>6, <1>4
      <4> QED
        BY <4>2, <4>3, <1>4
    <3>4. ASSUME NEW i \in 1 .. h + 1, i + 1 \in 1 .. h + 1
          PROVE  stack'[i].next > 1 /\ stack'[i + 1].target = deps[stack'[i].target][stack'[i].next - 1]
      <4>1. CASE i = h
        BY <4>1, <2>5, <2>6, <1>6, <1>5
      <4>2. CASE i # h
        <5>1. i \in 1 .. h /\ i + 1 \in 1 .. h
          BY <4>2, <3>4, <1>4
        <5> QED
          BY <5>1, <4>2, <2>4, <1>4 DEF StackInv
      <4> QED
        BY <4>1, <4>2
    <3>5. stack'[1].target = goal
      BY <1>1, <1>4, <2>4 DEF StackInv
    <3> QED
      BY <3>1, <3>2, <3>3, <3>4, <3>5, <2>3, <1>2, <1>3 DEF StackInv
  <2>8. SeenInv'
    <3>1. ASSUME NEW i \in 1 .. h + 1, NEW k \in 1 .. stack'[i].next - 1
          PROVE  deps[stack'[i].target][k] \in visited
                 \/ (i + 1 \in 1 .. h + 1 /\ k = stack'[i].next - 1)
      <4>1. CASE i \in 1 .. h /\ i # h
        BY <4>1, <1>1, <1>4, <2>4 DEF SeenInv
      <4>2. CASE i = h /\ k = m
        BY <4>2, <1>4, <1>6, <2>5
      <4>3. CASE i = h /\ k # m
        <5>1. k \in 1 .. m - 1
          BY <4>3, <1>6, <2>5
        <5>2. h + 1 \notin DOMAIN stack
          BY <1>4
        <5> QED
          BY <5>1, <5>2, <4>3, <1>1, <1>4, <2>5 DEF SeenInv
      <4>4. CASE i = h + 1
        BY <4>4, <2>6
      <4> QED
        BY <4>1, <4>2, <4>3, <4>4, <1>4
    <3> QED
      BY <3>1, <1>2, <1>3, <2>3 DEF SeenInv
  <2>9. TypeOK'
    BY <1>1, <1>2, <2>1, <2>3 DEF TypeOK, table
  <2>10. CallInv'
    BY <1>2, <1>4, <1>9, <2>1, <2>3 DEF CallInv
  <2> QED
    BY <2>1, <2>7, <2>8, <2>9, <2>10, <1>1, WalkKeeps
<1> QED
  BY <1>7, <1>11, <1>12, <1>13 DEF Names

\* The outermost return of the recursion leaves the goal seen.
LEMMA PopKeeps ==
    ASSUME BuildInv, pc \in {"visit", "commands"}, UNCHANGED <<deps, goal>>,
           Elements(deps[Top.target]) \subseteq visited,
           visited' = visited \cup {Top.target}, stack' = Front(stack)
    PROVE  /\ stack' \in Seq([target : Targets, next : Nat])
           /\ visited' \in SUBSET Targets /\ Top.target \in Targets \ visited
           /\ StackInv' /\ SeenInv'
           /\ stack' = <<>> => Top.target = goal
<1> USE DEF BuildInv
<1> DEFINE F == [target : Targets, next : Nat]
           h == Len(stack)
           t == Top.target
<1>1. stack # <<>>
  BY DEF CallInv
<1>2. /\ h \in Nat \ {0} /\ DOMAIN stack = 1 .. h /\ h \in DOMAIN stack /\ stack \in Seq(F)
      /\ Top = stack[h]
  BY <1>1, StackShape DEF TypeOK, Top
<1>3. t \in Targets \ visited /\ t \in Abstract!Wanted
  BY <1>2, StackShape DEF StackInv
<1>4. /\ stack' \in Seq(F) /\ Len(stack') = h - 1 /\ DOMAIN stack' = 1 .. h - 1
      /\ \A i \in 1 .. h - 1 : stack'[i] = stack[i]
  <2>1. stack' = SubSeq(stack, 1, h - 1)
    BY DEF Front
  <2> HIDE DEF F, h
  <2>2. \A i \in 1 .. h - 1 : i \in 1 .. h
    BY <1>2
  <2> QED
    BY <2>1, <2>2, <1>2
<1>5. Abstract!Wanted' = Abstract!Wanted
  BY DEF Abstract!Wanted, Elements
<1> HIDE DEF h
<1>6. \A i \in 1 .. h - 1 : i \in 1 .. h /\ i # h
  BY <1>2
<1>7. StackInv'
  <2>1. \A i \in 1 .. h - 1 : stack[i].target # t
    BY <1>2, <1>6 DEF StackInv
  <2>2. \A i \in 1 .. h - 1 :
          /\ stack'[i].target \in Abstract!Wanted \ visited'
          /\ stack'[i].next \in 1 .. Len(deps[stack'[i].target]) + 1
          /\ \A j \in 1 .. h - 1 : stack'[i].target = stack'[j].target => i = j
          /\ i + 1 \in 1 .. h - 1 =>
                /\ stack'[i].next > 1
                /\ stack'[i + 1].target = deps[stack'[i].target][stack'[i].next - 1]
    BY <2>1, <1>2, <1>4, <1>6 DEF StackInv
  <2>3. stack' # <<>> => stack'[1].target = goal
    <3>1. stack' # <<>> => 1 \in 1 .. h - 1
      BY <1>4, <1>2
    <3> QED
      BY <3>1, <1>1, <1>4 DEF StackInv
  <2> QED
    BY <2>2, <2>3, <1>4, <1>5 DEF StackInv
<1>8. SeenInv'
  <2>1. ASSUME NEW i \in 1 .. h - 1, NEW k \in 1 .. stack'[i].next - 1
        PROVE  \/ deps[stack'[i].target][k] \in visited'
               \/ i + 1 \in 1 .. h - 1 /\ k = stack'[i].next - 1
    <3>1. deps[stack[i].target][k] \in visited \/ (i + 1 \in 1 .. h /\ k = stack[i].next - 1)
      BY <1>2, <1>4, <1>6 DEF SeenInv
    <3>2. CASE i + 1 = h /\ k = stack[i].next - 1
      BY <3>2, <1>2, <1>4, <1>6 DEF StackInv
    <3>3. i + 1 \in 1 .. h => i + 1 \in 1 .. h - 1 \/ i + 1 = h
      BY <1>2
    <3> QED
      BY <3>1, <3>2, <3>3, <1>4
  <2>2. \A u \in visited' : u \in Abstract!Wanted /\ Elements(deps[u]) \subseteq visited'
    BY <1>3 DEF SeenInv
  <2>3. \A u \in visited' : Elements(deps'[u]) = Elements(deps[u])
    BY DEF Elements
  <2> QED
    BY <2>1, <2>2, <2>3, <1>4, <1>5 DEF SeenInv, Elements
<1>9. stack' = <<>> => t = goal
  <2>1. stack' = <<>> => h = 1
    BY <1>4, <1>2
  <2> QED
    BY <2>1, <1>1, <1>2 DEF StackInv
<1>10. visited' \in SUBSET Targets
  BY <1>3 DEF TypeOK
<1> QED
  BY <1>3, <1>4, <1>7, <1>8, <1>9, <1>10

\* When all the dependencies of the top of the stack have been looked at, all
\* have been seen.
LEMMA AllVisitedIsSeen ==
    ASSUME BuildInv, AllVisited
    PROVE  Top.target \in Targets /\ Elements(deps[Top.target]) \subseteq visited
<1> USE DEF BuildInv
<1> DEFINE h == Len(stack)
           l == Len(deps[Top.target])
           m == Top.next
<1>1. /\ h \in Nat \ {0} /\ DOMAIN stack = 1 .. h /\ h \in DOMAIN stack /\ Top = stack[h]
      /\ h + 1 \notin DOMAIN stack
  BY StackShape DEF AllVisited, Top
<1>2. Top.target \in Targets /\ l \in Nat /\ DOMAIN deps[Top.target] = 1 .. l
  BY StackShape, <1>1
<1>3. m \in 1 .. l + 1 /\ m > l
  BY <1>1 DEF StackInv, AllVisited
<1>4. m - 1 = l
  <2> HIDE DEF m, l
  <2> QED
    BY <1>2, <1>3
<1>5. \A k \in 1 .. l : deps[Top.target][k] \in visited
  BY <1>1, <1>4 DEF SeenInv, AllVisited
<1> QED
  BY <1>2, <1>5 DEF Elements

\* dfs returns, and the tables are set up when the outermost call does.
LEMMA ReachedKeeps ==
    ASSUME BuildInv, Reached
    PROVE  BuildInv'
<1> USE DEF BuildInv
<1> DEFINE t == Top.target
           Leaves == {u \in visited' : deps[u] = <<>>}
<1>1. /\ AllVisited /\ jobs > 1 /\ pc = "visit"
      /\ visited' = visited \cup {t} /\ stack' = Front(stack)
      /\ deps' = deps /\ goal' = goal /\ jobs' = jobs /\ job' = job
      /\ UNCHANGED <<ran, runningTasks, completedTasks, failed, exitCode, notified, starts, result>>
  BY DEF Reached, AllVisited, graph
<1>2. UNCHANGED graph
  BY DEF Reached
<1>3. /\ stack' \in Seq([target : Targets, next : Nat])
      /\ visited' \in SUBSET Targets /\ t \in Targets \ visited
      /\ StackInv' /\ SeenInv'
      /\ stack' = <<>> => t = goal
  BY <1>1, PopKeeps, AllVisitedIsSeen
<1>4. /\ ActiveJobs = {} /\ \A u \in Targets : job[u] = "none"
      /\ ~failed /\ readyQueue = <<>> /\ runningTasks = 0 /\ completedTasks = 0
      /\ exitCode = "ok" /\ result = "none"
  BY <1>1, WalkingIsQuiet DEF CallInv
<1>5. ActiveJobs' = {} /\ OverTargets' = {}
  BY <1>1, <1>4 DEF ActiveJobs, OverTargets, Active, Over
<1>6. JobsInv'
  BY <1>1, <1>4, <1>5 DEF JobsInv
<1>7. SerialInv'
  BY <1>1 DEF SerialInv
<1>8. CASE stack' # <<>>
  <2>1. UNCHANGED <<pc, inDegree, readyQueue>>
    BY <1>8 DEF Reached
  <2>2. TypeOK'
    <3>1. completedTasks' \in 0 .. Cardinality(visited')
      BY <1>1, <1>3, <1>4, Shapes
    <3> QED
      BY <3>1, <2>1, <1>1, <1>3 DEF TypeOK
  <2>3. CallInv'
    BY <2>1, <1>1, <1>4, <1>8 DEF CallInv
  <2>4. TablesInv'
    BY <2>1, <1>1, <1>4, <1>5, FS_EmptySet DEF TablesInv
  <2> QED
    BY <2>2, <2>3, <2>4, <1>3, <1>6, <1>7
<1>9. CASE stack' = <<>>
  <2>1. /\ pc' = "loop"
        /\ inDegree' = [u \in Targets |-> IF u \in visited' THEN Len(deps[u]) ELSE 0]
        /\ readyQueue' \in SetToSeqs(Leaves)
    BY <1>9 DEF Reached
  <2>2. \A u \in Targets : Len(deps[u]) \in Nat /\ DOMAIN deps[u] = 1 .. Len(deps[u])
    BY Shapes
  <2>3. /\ readyQueue' \in Seq(Leaves)
        /\ \A i, j \in DOMAIN readyQueue' : readyQueue'[i] = readyQueue'[j] => i = j
    BY <2>1, OrderingsOf, <1>3
  <2>4. \A i \in DOMAIN readyQueue' : readyQueue'[i] \in Leaves
    BY <2>3
  <2>5. TypeOK'
    <3>1. completedTasks' \in 0 .. Cardinality(visited')
      BY <1>1, <1>3, <1>4, Shapes
    <3>2. readyQueue' \in Seq(Targets)
      BY <2>3, <1>3, SeqMonotonic
    <3>3. inDegree' \in [Targets -> Nat]
      BY <2>1, <2>2
    <3> QED
      BY <3>1, <3>2, <3>3, <2>1, <1>1, <1>3 DEF TypeOK
  <2>6. CallInv'
    BY <2>1, <1>1, <1>3, <1>4, <1>9 DEF CallInv
  <2>7. ASSUME NEW u \in visited'
        PROVE  inDegree'[u] = Cardinality(Remaining(u)')
    <3>1. u \in Targets /\ inDegree'[u] = Len(deps[u])
      BY <2>1, <1>3
    <3>2. Remaining(u)' = 1 .. Len(deps[u])
      <4>1. \A k \in DOMAIN deps[u] : job[deps[u][k]] \notin Over
        <5>1. deps[u] \in Seq(Names)
          BY <3>1, Shapes
        <5>2. Elements(deps[u]) \subseteq visited'
          BY <1>1, <1>3 DEF SeenInv, Elements
        <5> QED
          BY <5>2, <1>3, <1>4 DEF Elements, Over
      <4> QED
        BY <4>1, <3>1, <2>2, <1>1 DEF Remaining
    <3>3. Cardinality(1 .. Len(deps[u])) = Len(deps[u])
      <4> DEFINE l == Len(deps[u])
      <4>1. l \in Nat
        BY <3>1, <2>2
      <4> HIDE DEF l
      <4>2. Cardinality(1 .. l) = IF 1 > l THEN 0 ELSE l - 1 + 1
        BY <4>1, FS_Interval
      <4>3. Cardinality(1 .. l) = l
        BY <4>1, <4>2
      <4> QED
        BY <4>3 DEF l
    <3> QED
      BY <3>1, <3>2, <3>3
  <2>8. TablesInv'
    <3>1. \A i \in DOMAIN readyQueue' :
             /\ readyQueue'[i] \in visited'
             /\ job'[readyQueue'[i]] = "none"
             /\ DepsOver(readyQueue[i])'
      BY <2>4, <1>1, <1>3, <1>4 DEF DepsOver
    <3> QED
      BY <3>1, <2>1, <2>3, <2>7, <1>1, <1>4, <1>5, FS_EmptySet DEF TablesInv
  <2> QED
    BY <2>5, <2>6, <2>8, <1>3, <1>6, <1>7
<1> QED
  BY <1>8, <1>9

-----------------------------------------------------------------------------
(* One target at a time                                                    *)

LEMMA DepsStayOver ==
    ASSUME NEW u, DepsOver(u), deps' = deps,
           \A x \in Targets : job[x] \in Over => job'[x] \in Over
    PROVE  DepsOver(u)'
  BY DEF DepsOver

LEMMA BeginCommandsKeeps ==
    ASSUME BuildInv, BeginCommands
    PROVE  BuildInv'
<1> USE DEF BuildInv
<1> DEFINE t == Top.target
<1>1. /\ AllVisited /\ jobs = 1 /\ pc = "visit" /\ pc' = "commands" /\ stack # <<>>
      /\ deps' = deps /\ goal' = goal /\ jobs' = jobs /\ UNCHANGED graph
      /\ UNCHANGED <<stack, visited, ran, inDegree, readyQueue, runningTasks, completedTasks,
                     failed, exitCode, notified, result>>
  BY DEF BeginCommands, AllVisited, graph, walk, table
<1>2. t \in Targets \ visited /\ t \in Abstract!Wanted /\ Elements(deps[t]) \subseteq visited
  <2>1. t \in Targets \ visited /\ t \in Abstract!Wanted
    BY <1>1, StackShape DEF StackInv, Top
  <2> QED
    BY <2>1, <1>1, AllVisitedIsSeen
<1>3. /\ \A u \in Targets : job[u] \in {"none", "built"}
      /\ ~failed
  BY <1>1, WalkingIsQuiet
<1>4. job[t] = "none" /\ starts[t] = 0
  BY <1>1, <1>2, <1>3 DEF SerialInv, JobsInv
<1>5. /\ job' \in [Targets -> {"none"} \cup Active \cup Ended]
      /\ job'[t] = "working" /\ \A u \in Targets : u # t => job'[u] = job[u]
      /\ starts' \in [Targets -> Nat]
      /\ starts'[t] = 1 /\ \A u \in Targets : u # t => starts'[u] = starts[u]
  BY <1>2, <1>4 DEF BeginCommands, Begun, TypeOK, Active
<1>6. Abstract!Wanted' = Abstract!Wanted
  BY <1>1, WantedKept
<1>7. DepsOver(t)
  <2>1. \A x \in visited : job[x] = "built" /\ x \in Targets
    BY <1>1 DEF SerialInv, TypeOK
  <2> QED
    BY <2>1, <1>2 DEF DepsOver, Elements, Over
<1>8. \A u \in Targets : DepsOver(u) => DepsOver(u)'
  BY <1>1, <1>4, <1>5, DepsStayOver DEF Over
<1>9. TypeOK'
  BY <1>1, <1>5 DEF TypeOK
<1>10. StackInv' /\ SeenInv'
  BY <1>1, <1>6 DEF StackInv, SeenInv, Elements
<1>11. CallInv'
  BY <1>1 DEF CallInv
<1>12. JobsInv'
  BY <1>1, <1>2, <1>3, <1>4, <1>5, <1>6, <1>7, <1>8 DEF JobsInv
<1>13. SerialInv' /\ TablesInv'
  <2>1. \A u \in Targets : job'[u] \in Active => u = Top'.target
    BY <1>1, <1>3, <1>5 DEF Top, Active
  <2>2. \A u \in Targets : job'[u] # "broken" /\ (u \in visited <=> job'[u] = "built")
    BY <1>1, <1>2, <1>3, <1>5 DEF SerialInv
  <2>3. /\ jobs' = 1 /\ pc' = "commands" /\ visited' = visited /\ ~failed'
        /\ runningTasks' = 0 /\ completedTasks' = 0 /\ readyQueue' = <<>>
    BY <1>1, <1>3 DEF SerialInv
  <2> QED
    BY <2>1, <2>2, <2>3 DEF SerialInv, TablesInv
<1> QED
  BY <1>9, <1>10, <1>11, <1>12, <1>13

\* While the commands of a target run, it alone is under way.
LEMMA CommandsOfTop ==
    ASSUME BuildInv, pc = "commands", job[Top.target] \in Active
    PROVE  /\ jobs = 1 /\ stack # <<>> /\ ~failed
           /\ exitCode = "ok" /\ result = "none"
           /\ Top.target \in Targets \ visited /\ Top.target \in Abstract!Wanted
           /\ Elements(deps[Top.target]) \subseteq visited
           /\ \A u \in Targets : u # Top.target => job[u] \in {"none", "built"}
<1> USE DEF BuildInv
<1>1. jobs = 1 /\ stack # <<>> /\ exitCode = "ok" /\ result = "none" /\ ~failed
  BY DEF CallInv, SerialInv
<1>2. Top.target \in Targets \ visited /\ Top.target \in Abstract!Wanted
  BY <1>1, StackShape DEF StackInv, Top
<1>3. \A u \in Targets : u # Top.target => job[u] \in {"none", "built"}
  BY <1>1 DEF SerialInv, JobsInv, TypeOK, Ended
<1>4. Elements(deps[Top.target]) \subseteq visited
  <2>1. DepsOver(Top.target)
    BY <1>2 DEF JobsInv, Active
  <2>2. \A x \in Targets : job[x] \in Over => x \in visited
    BY <1>1 DEF SerialInv, JobsInv, Over
  <2> QED
    BY <2>1, <2>2 DEF DepsOver, Elements
<1> QED
  BY <1>1, <1>2, <1>3, <1>4

LEMMA CompletedKeeps ==
    ASSUME BuildInv, Completed
    PROVE  BuildInv'
<1> USE DEF BuildInv
<1> DEFINE t == Top.target
<1>1. /\ pc = "commands" /\ job[t] = "complete" /\ job' = [job EXCEPT ![t] = "built"]
      /\ visited' = visited \cup {t} /\ stack' = Front(stack)
      /\ pc' = IF stack' = <<>> THEN "return" ELSE "visit"
      /\ deps' = deps /\ goal' = goal /\ jobs' = jobs /\ UNCHANGED graph
      /\ UNCHANGED <<ran, inDegree, readyQueue, runningTasks, completedTasks,
                     failed, exitCode, notified, starts, result>>
  BY DEF Completed, graph, table
<1>2. /\ jobs = 1 /\ stack # <<>> /\ ~failed
      /\ exitCode = "ok" /\ result = "none"
      /\ t \in Targets \ visited /\ t \in Abstract!Wanted
      /\ Elements(deps[t]) \subseteq visited
      /\ \A u \in Targets : u # t => job[u] \in {"none", "built"}
  BY <1>1, CommandsOfTop DEF Active
<1>3. /\ stack' \in Seq([target : Targets, next : Nat])
      /\ visited' \in SUBSET Targets
      /\ StackInv' /\ SeenInv'
      /\ stack' = <<>> => t = goal
  BY <1>1, <1>2, PopKeeps
<1>4. /\ job' \in [Targets -> {"none"} \cup Active \cup Ended]
      /\ job'[t] = "built" /\ \A u \in Targets : u # t => job'[u] = job[u]
      /\ \A u \in Targets : job'[u] \in {"none", "built"}
  BY <1>1, <1>2 DEF TypeOK, Ended
<1>5. Abstract!Wanted' = Abstract!Wanted
  BY <1>1, WantedKept
<1>6. \A u \in Targets : DepsOver(u) => DepsOver(u)'
  BY <1>1, <1>4, DepsStayOver DEF Over
<1>7. TypeOK'
  <2>1. completedTasks' \in 0 .. Cardinality(visited')
    BY <1>1, <1>2, <1>3, Shapes DEF SerialInv
  <2> QED
    BY <2>1, <1>1, <1>3, <1>4 DEF TypeOK
<1>8. CallInv'
  BY <1>1, <1>2, <1>3, <1>4 DEF CallInv, Reasons
<1>9. JobsInv'
  <2>1. ActiveJobs' = {}
    BY <1>4 DEF ActiveJobs, Active
  <2>2. \A u \in Targets : job'[u] # "none" => job[u] # "none"
    BY <1>1, <1>4
  <2>3. starts[t] = 1
    BY <1>1, <1>2 DEF JobsInv
  <2> QED
    BY <2>1, <2>2, <2>3, <1>1, <1>2, <1>4, <1>5, <1>6 DEF JobsInv
<1>10. SerialInv' /\ TablesInv'
  BY <1>1, <1>2, <1>4 DEF SerialInv, TablesInv, Active
<1> QED
  BY <1>3, <1>7, <1>8, <1>9, <1>10

LEMMA CommandFailedKeeps ==
    ASSUME BuildInv, CommandFailed
    PROVE  BuildInv'
<1> USE DEF BuildInv
<1> DEFINE t == Top.target
<1>1. /\ pc = "commands" /\ job[t] = "failing" /\ job' = [job EXCEPT ![t] = "broken"]
      /\ pc' = "return" /\ exitCode' \in Reasons
      /\ deps' = deps /\ goal' = goal /\ jobs' = jobs /\ UNCHANGED graph
      /\ UNCHANGED <<stack, visited, ran, inDegree, readyQueue, runningTasks, completedTasks,
                     failed, notified, starts, result>>
  BY DEF CommandFailed, Leave, graph, table, walk
<1>2. /\ jobs = 1 /\ stack # <<>> /\ ~failed
      /\ exitCode = "ok" /\ result = "none"
      /\ t \in Targets \ visited /\ t \in Abstract!Wanted
      /\ Elements(deps[t]) \subseteq visited
      /\ \A u \in Targets : u # t => job[u] \in {"none", "built"}
  BY <1>1, CommandsOfTop DEF Active
<1>4. /\ job' \in [Targets -> {"none"} \cup Active \cup Ended]
      /\ job'[t] = "broken" /\ \A u \in Targets : u # t => job'[u] = job[u]
      /\ \A u \in Targets : job'[u] \in {"none", "built", "broken"}
  BY <1>1, <1>2 DEF TypeOK, Ended
<1>5. Abstract!Wanted' = Abstract!Wanted
  BY <1>1, WantedKept
<1>6. \A u \in Targets : DepsOver(u) => DepsOver(u)'
  BY <1>1, <1>4, DepsStayOver DEF Over
<1>7. TypeOK'
  BY <1>1, <1>4, Shapes DEF TypeOK
<1>8. StackInv' /\ SeenInv'
  BY <1>1, <1>5 DEF StackInv, SeenInv, Elements
<1>9. CallInv'
  BY <1>1, <1>2, <1>4 DEF CallInv, Reasons
<1>10. JobsInv'
  <2>1. ActiveJobs' = {}
    BY <1>4 DEF ActiveJobs, Active
  <2>2. \A u \in Targets : job'[u] # "none" => job[u] # "none"
    BY <1>1, <1>4
  <2>3. starts[t] = 1
    BY <1>1, <1>2 DEF JobsInv
  <2> QED
    BY <2>1, <2>2, <2>3, <1>1, <1>2, <1>4, <1>5, <1>6 DEF JobsInv
<1>11. SerialInv' /\ TablesInv'
  <2>1. \A u \in Targets : u \in visited <=> job'[u] = "built"
    BY <1>1, <1>2, <1>4 DEF SerialInv
  <2> QED
    BY <2>1, <1>1, <1>2, <1>4 DEF SerialInv, TablesInv, Active
<1> QED
  BY <1>7, <1>8, <1>9, <1>10, <1>11

-----------------------------------------------------------------------------
(* Commands, and the waiting of the loop                                   *)

\* A job that goes on neither ends nor begins.
LEMMA JobGoesOn ==
    ASSUME BuildInv, NEW t \in Targets, NEW s \in Active,
           job[t] \in Active, s = "cut" => failed, job' = [job EXCEPT ![t] = s],
           ran' \in [Targets -> 0 .. MaxCommands],
           \A u \in Targets : u # t => ran'[u] = ran[u],
           s = "command" => ran'[t] < MaxCommands,
           UNCHANGED <<graph, pc, walk, table, failed, exitCode, notified, starts, result>>
    PROVE  BuildInv'
<1> USE DEF BuildInv
<1>1. /\ deps' = deps /\ goal' = goal /\ jobs' = jobs
      /\ UNCHANGED <<pc, stack, visited, inDegree, readyQueue, runningTasks, completedTasks,
                     failed, exitCode, notified, starts, result>>
  BY DEF graph, walk, table
<1>2. /\ job' \in [Targets -> {"none"} \cup Active \cup Ended]
      /\ job'[t] = s /\ \A u \in Targets : u # t => job'[u] = job[u]
  BY DEF TypeOK
<1>3. \A u \in Targets :
        /\ job'[u] \in Active <=> job[u] \in Active
        /\ job'[u] \in Over <=> job[u] \in Over
        /\ \A x \in Ended \cup {"none"} : job'[u] = x <=> job[u] = x
  BY <1>2 DEF Active, Over, Ended
<1>4. ActiveJobs' = ActiveJobs /\ OverTargets' = OverTargets
  BY <1>3 DEF ActiveJobs, OverTargets
<1>5. Abstract!Wanted' = Abstract!Wanted /\ (Abstract!Cyclic' <=> Abstract!Cyclic)
  BY WantedKept
<1>6. \A u \in Targets : DepsOver(u) => DepsOver(u)'
  BY <1>1, <1>3, DepsStayOver
<1>7. \A u \in visited : Remaining(u)' = Remaining(u)
  <2>1. ASSUME NEW u \in visited, NEW k \in DOMAIN deps[u]
        PROVE  deps[u][k] \in Targets
    BY DEF SeenInv, Elements, TypeOK
  <2> QED
    BY <2>1, <1>1, <1>3 DEF Remaining
<1>8. TypeOK'
  BY <1>1, <1>2 DEF TypeOK
<1>9. StackInv' /\ SeenInv'
  BY <1>1, <1>5 DEF StackInv, SeenInv, Elements
<1>10. CallInv'
  BY <1>1, <1>3, <1>5 DEF CallInv, Ended
<1>11. JobsInv'
  <2>1. \A u \in Targets : job'[u] \in {"cut", "dropped"} => failed
    <3>1. \A u \in Targets : u # t /\ job'[u] \in {"cut", "dropped"} => failed
      BY <1>2 DEF JobsInv
    <3> QED
      BY <3>1, <1>2 DEF Active
  <2>2. failed => \E u \in Targets : job'[u] = "broken"
    BY <1>3 DEF JobsInv, Ended
  <2>3. \A u \in Targets : starts[u] = IF job'[u] = "none" THEN 0 ELSE 1
    BY <1>3 DEF JobsInv
  <2>4. \A u \in Targets : job'[u] # "none" => u \in Abstract!Wanted /\ DepsOver(u)
    BY <1>3 DEF JobsInv
  <2>5. \A u \in Targets : job'[u] = "command" => ran'[u] < MaxCommands
    BY <1>2 DEF JobsInv
  <2> QED
    BY <2>1, <2>2, <2>3, <2>4, <2>5, <1>1, <1>4, <1>5, <1>6 DEF JobsInv
<1>12. SerialInv'
  BY <1>1, <1>3 DEF SerialInv, Top, Ended
<1>13. TablesInv'
  <2>1. \A i \in DOMAIN readyQueue : readyQueue[i] \in Targets
    BY DEF TypeOK
  <2> QED
    BY <2>1, <1>1, <1>3, <1>4, <1>6, <1>7 DEF TablesInv, LoopOver, Ended
<1> QED
  BY <1>8, <1>9, <1>10, <1>11, <1>12, <1>13

LEMMA BeforeCommandKeeps ==
    ASSUME BuildInv, NEW t \in Targets, BeforeCommand(t)
    PROVE  BuildInv'
<1>1. /\ job[t] = "working" /\ ran' = ran
      /\ UNCHANGED <<graph, pc, walk, table, failed, exitCode, notified, starts, result>>
      /\ \E s \in {"complete", "cut", "command"} :
            /\ s = "cut" => failed
            /\ s = "command" => ran[t] < MaxCommands
            /\ job' = [job EXCEPT ![t] = s]
  BY DEF BeforeCommand
<1>2. ran' \in [Targets -> 0 .. MaxCommands]
  BY <1>1 DEF BuildInv, TypeOK
<1>3. PICK s \in {"complete", "cut", "command"} :
         /\ s = "cut" => failed
         /\ s = "command" => ran[t] < MaxCommands
         /\ job' = [job EXCEPT ![t] = s]
  BY <1>1
<1> QED
  BY <1>1, <1>2, <1>3, JobGoesOn DEF Active

LEMMA CommandKeeps ==
    ASSUME BuildInv, NEW t \in Targets, Command(t)
    PROVE  BuildInv'
<1>1. /\ job[t] = "command" /\ ran' = [ran EXCEPT ![t] = @ + 1]
      /\ UNCHANGED <<graph, pc, walk, table, failed, exitCode, notified, starts, result>>
  BY DEF Command
<1>2. PICK s \in {"working", "failing"} : job' = [job EXCEPT ![t] = s]
  BY DEF Command
<1>3. ran[t] \in 0 .. MaxCommands /\ ran[t] < MaxCommands
  BY <1>1 DEF BuildInv, TypeOK, JobsInv
<1>4. ran' \in [Targets -> 0 .. MaxCommands] /\ \A u \in Targets : u # t => ran'[u] = ran[u]
  BY <1>1, <1>3, UMakeAssumption DEF BuildInv, TypeOK
<1> QED
  BY <1>1, <1>2, <1>4, JobGoesOn DEF Active

\* The loop's place changes, and whether it was notified.
LEMMA CallGoesOn ==
    ASSUME BuildInv, UNCHANGED <<graph, walk, job, ran, table, failed, exitCode, starts>>,
           pc \in {"loop", "wait", "drain", "return"},
           pc' \in {"loop", "wait", "drain", "return", "done"},
           pc' \in {"loop", "wait", "drain"} => pc \in {"loop", "wait", "drain"},
           pc' = "drain" => LoopOver,
           pc' \in {"return", "done"} => ActiveJobs = {}
    PROVE  /\ StackInv' /\ SeenInv' /\ JobsInv' /\ SerialInv' /\ TablesInv'
           /\ notified' \in BOOLEAN /\ result' \in {"none", "ok"} \cup Failures => TypeOK'
<1> USE DEF BuildInv
<1>1. /\ deps' = deps /\ goal' = goal /\ jobs' = jobs
      /\ UNCHANGED <<stack, visited, job, ran, inDegree, readyQueue, runningTasks, completedTasks,
                     failed, exitCode, starts>>
  BY DEF graph, walk, table
<1>2. Abstract!Wanted' = Abstract!Wanted
  BY WantedKept
<1>3. ActiveJobs' = ActiveJobs /\ OverTargets' = OverTargets
  BY <1>1 DEF ActiveJobs, OverTargets
<1>4. StackInv' /\ SeenInv'
  BY <1>1, <1>2 DEF StackInv, SeenInv, Elements
<1>5. JobsInv'
  BY <1>1, <1>2, <1>3 DEF JobsInv, DepsOver
<1>6. SerialInv'
  <2>1. jobs = 1 => \A t \in Targets : job[t] \notin Active
    BY DEF SerialInv
  <2>2. jobs = 1 => pc' \in {"return", "done"}
    BY DEF CallInv
  <2> QED
    BY <2>1, <2>2, <1>1 DEF SerialInv
<1>7. TablesInv'
  <2>1. \A u \in visited : Remaining(u)' = Remaining(u)
    BY <1>1 DEF Remaining
  <2>2. LoopOver' <=> LoopOver
    BY <1>1 DEF LoopOver
  <2>3. \A i \in DOMAIN readyQueue : DepsOver(readyQueue[i]) => DepsOver(readyQueue[i])'
    BY <1>1 DEF DepsOver
  <2> QED
    BY <2>1, <2>2, <2>3, <1>1, <1>3 DEF TablesInv
<1>8. notified' \in BOOLEAN /\ result' \in {"none", "ok"} \cup Failures => TypeOK'
  BY <1>1 DEF TypeOK
<1> QED
  BY <1>4, <1>5, <1>6, <1>7, <1>8

LEMMA WaitingKeeps ==
    ASSUME BuildInv, Drain \/ Woken \/ Spurious
    PROVE  BuildInv'
<1> USE DEF BuildInv
<1>1. /\ UNCHANGED <<graph, walk, job, ran, table, failed, exitCode, starts, result>>
      /\ pc \in {"loop", "wait"} /\ pc' \in {"loop", "drain"}
      /\ pc' = "drain" => LoopOver
      /\ notified' \in BOOLEAN
  BY DEF Drain, Woken, Spurious, TypeOK
<1>2. TypeOK' /\ StackInv' /\ SeenInv' /\ JobsInv' /\ SerialInv' /\ TablesInv'
  BY <1>1, CallGoesOn DEF TypeOK
<1>3. CallInv'
  BY <1>1 DEF CallInv, graph, walk
<1> QED
  BY <1>2, <1>3

\* When the loop has drained, every target that was seen has ended, or a target
\* is broken and its failure recorded.
LEMMA DrainEndKeeps ==
    ASSUME BuildInv, DrainEnd
    PROVE  BuildInv'
<1> USE DEF BuildInv
<1>1. /\ UNCHANGED <<graph, walk, job, ran, table, failed, exitCode, starts, result, notified>>
      /\ pc = "drain" /\ pc' = "return" /\ runningTasks = 0
  BY DEF DrainEnd, Drained
<1>2. jobs > 1 /\ goal \in visited /\ result = "none"
  BY <1>1 DEF CallInv
<1>3. ActiveJobs = {} /\ LoopOver
  <2>1. ActiveJobs \in SUBSET Targets /\ Cardinality(ActiveJobs) = 0
    BY <1>1, <1>2 DEF TablesInv, ActiveJobs
  <2>2. IsFiniteSet(ActiveJobs)
    BY <2>1, Shapes
  <2> QED
    BY <2>1, <2>2, <1>1, <1>2, FS_EmptySet DEF TablesInv
<1>4. TypeOK' /\ StackInv' /\ SeenInv' /\ JobsInv' /\ SerialInv' /\ TablesInv'
  BY <1>1, <1>3, CallGoesOn DEF TypeOK
<1>5. CASE failed
  <2>1. exitCode \in Reasons /\ \E t \in Targets : job[t] = "broken"
    BY <1>2, <1>5 DEF TablesInv, JobsInv
  <2>2. CallInv'
    BY <2>1, <1>1, <1>2 DEF CallInv, Reasons
  <2> QED
    BY <2>2, <1>4
<1>6. CASE ~failed
  <2>1. exitCode = "ok" /\ completedTasks = Cardinality(visited)
    BY <1>1, <1>2, <1>3, <1>6 DEF TablesInv, LoopOver
  <2>2. OverTargets = visited
    <3>1. OverTargets \in SUBSET visited
      BY <1>2 DEF TablesInv, OverTargets, Over
    <3>2. Cardinality(OverTargets) = Cardinality(visited) /\ IsFiniteSet(visited)
      BY <2>1, <1>2, Shapes DEF TablesInv
    <3> QED
      BY <3>1, <3>2, FS_Subset
  <2>3. goal \in Targets /\ job[goal] = "built"
    BY <2>2, <1>2, <1>6 DEF OverTargets, Over, JobsInv
  <2>4. CallInv'
    BY <2>1, <2>3, <1>1, <1>2 DEF CallInv, Reasons, graph
  <2> QED
    BY <2>4, <1>4
<1> QED
  BY <1>5, <1>6

LEMMA ReturnKeeps ==
    ASSUME BuildInv, Return
    PROVE  BuildInv'
<1> USE DEF BuildInv
<1>1. /\ UNCHANGED <<graph, walk, job, ran, table, failed, exitCode, starts, notified>>
      /\ pc = "return" /\ pc' = "done" /\ result' = exitCode
  BY DEF Return
<1>2. ActiveJobs = {}
  BY <1>1 DEF JobsInv
<1>3. notified' \in BOOLEAN /\ result' \in {"none", "ok"} \cup Failures
  BY <1>1 DEF TypeOK
<1>4. TypeOK' /\ StackInv' /\ SeenInv' /\ JobsInv' /\ SerialInv' /\ TablesInv'
  BY <1>1, <1>2, <1>3, CallGoesOn
<1>5. CallInv'
  BY <1>1 DEF CallInv
<1> QED
  BY <1>4, <1>5

-----------------------------------------------------------------------------
(* Several at once                                                         *)

\* What a dispatch takes from the queue, and what it leaves.
LEMMA Dispatched ==
    ASSUME BuildInv, Dispatch
    PROVE  \E E \in SUBSET visited, n \in Nat :
              /\ Begun(E) /\ n <= jobs - runningTasks
              /\ Cardinality(E) = n /\ runningTasks' = runningTasks + n
              /\ \A u \in E : job[u] = "none" /\ DepsOver(u)
              /\ readyQueue' \in Seq(Targets)
              /\ \A i \in DOMAIN readyQueue' :
                    /\ readyQueue'[i] \in visited \ E
                    /\ job[readyQueue'[i]] = "none"
                    /\ \E k \in DOMAIN readyQueue : readyQueue'[i] = readyQueue[k]
                    /\ \A j \in DOMAIN readyQueue' : readyQueue'[i] = readyQueue'[j] => i = j
<1> USE DEF BuildInv
<1> DEFINE l == Len(readyQueue)
           n == IF l < Room THEN l ELSE Room
           E == Elements(SubSeq(readyQueue, 1, n))
<1>1. /\ pc = "loop" /\ Begun(E) /\ readyQueue' = SubSeq(readyQueue, n + 1, l)
      /\ runningTasks' = runningTasks + n
  BY DEF Dispatch
<1>2. jobs > 1
  BY <1>1 DEF CallInv
<1>3. readyQueue \in Seq(Targets) /\ l \in Nat /\ DOMAIN readyQueue = 1 .. l
  BY DEF TypeOK
<1>4. /\ \A i \in 1 .. l :
           /\ readyQueue[i] \in visited
           /\ job[readyQueue[i]] = "none"
           /\ DepsOver(readyQueue[i])
      /\ \A i, j \in 1 .. l : readyQueue[i] = readyQueue[j] => i = j
  BY <1>2, <1>3 DEF TablesInv
<1>5. n \in 0 .. l /\ n <= jobs - runningTasks /\ n \in Nat
  <2> DEFINE r == runningTasks
  <2>1. r \in 0 .. jobs /\ jobs \in Nat
    BY DEF TypeOK
  <2> HIDE DEF l, r
  <2>2. n = IF l < jobs - r THEN l ELSE jobs - r
    BY DEF Room, r
  <2> HIDE DEF n
  <2>3. n \in 0 .. l /\ n <= jobs - r
    BY <2>1, <2>2, <1>3
  <2> QED
    BY <2>3 DEF r
<1> HIDE DEF n, E
<1>6. E = {readyQueue[i] : i \in 1 .. n} /\ Cardinality(E) = n
  BY <1>3, <1>4, <1>5, FirstElements DEF E
<1>7. \A i \in 1 .. n : i \in 1 .. l
  BY <1>3, <1>5
<1>8. E \in SUBSET visited /\ \A u \in E : job[u] = "none" /\ DepsOver(u)
  BY <1>4, <1>6, <1>7
<1> HIDE DEF l
<1>9. /\ readyQueue' \in Seq(Targets) /\ DOMAIN readyQueue' = 1 .. l - n
      /\ \A i \in 1 .. l - n : readyQueue'[i] = readyQueue[i + n] /\ i + n \in 1 .. l /\ i + n \notin 1 .. n
  <2>1. \A i \in n + 1 .. l : i \in DOMAIN readyQueue
    BY <1>3, <1>5
  <2>2. /\ readyQueue' \in Seq(Targets)
        /\ Len(readyQueue') = IF n + 1 <= l THEN l - (n + 1) + 1 ELSE 0
        /\ \A i \in 1 .. l - (n + 1) + 1 : readyQueue'[i] = readyQueue[n + 1 + i - 1]
    BY <2>1, <1>1, <1>3, <1>5, SubSeqProperties
  <2>3. Len(readyQueue') = l - n
    BY <2>2, <1>3, <1>5
  <2>4. l - (n + 1) + 1 = l - n /\ \A i \in 1 .. l - n : n + 1 + i - 1 = i + n
    BY <1>3, <1>5
  <2>5. \A i \in 1 .. l - n : i + n \in 1 .. l /\ i + n \notin 1 .. n
    BY <1>3, <1>5
  <2>6. DOMAIN readyQueue' = 1 .. l - n
    BY <2>2, <2>3
  <2> QED
    BY <2>2, <2>4, <2>5, <2>6
<1>10. ASSUME NEW i \in 1 .. l - n
       PROVE  /\ readyQueue'[i] \in visited \ E
              /\ job[readyQueue'[i]] = "none"
              /\ \E k \in DOMAIN readyQueue : readyQueue'[i] = readyQueue[k]
              /\ \A j \in 1 .. l - n : readyQueue'[i] = readyQueue'[j] => i = j
  <2>1. readyQueue'[i] \notin E
    BY <1>4, <1>6, <1>7, <1>9
  <2>2. \A j \in 1 .. l - n : readyQueue'[i] = readyQueue'[j] => i + n = j + n
    BY <1>4, <1>9
  <2>3. \A j \in 1 .. l - n : i + n = j + n => i = j
    BY <1>3, <1>5
  <2> QED
    BY <2>1, <2>2, <2>3, <1>3, <1>4, <1>9
<1>11. PICK D \in SUBSET visited, k \in Nat : D = E /\ k = n
  BY <1>5, <1>8
<1>12. Begun(D)
  BY <1>1, <1>11 DEF Begun
<1>13. runningTasks' = runningTasks + k
  BY <1>1, <1>11
<1> QED
  BY <1>5, <1>6, <1>8, <1>9, <1>10, <1>11, <1>12, <1>13

LEMMA DispatchKeeps ==
    ASSUME BuildInv, Dispatch
    PROVE  BuildInv'
<1> USE DEF BuildInv
<1>1. /\ pc = "loop" /\ pc' = "wait" /\ ~LoopOver /\ notified' = FALSE
      /\ deps' = deps /\ goal' = goal /\ jobs' = jobs /\ UNCHANGED graph
      /\ UNCHANGED <<stack, visited, ran, inDegree, completedTasks, failed, exitCode, result>>
  BY DEF Dispatch, graph, walk
<1>2. jobs > 1 /\ result = "none" /\ visited \in SUBSET Targets
  BY <1>1 DEF CallInv, TypeOK
<1>3. PICK E \in SUBSET visited, n \in Nat :
              /\ Begun(E) /\ n <= jobs - runningTasks
              /\ Cardinality(E) = n /\ runningTasks' = runningTasks + n
              /\ \A u \in E : job[u] = "none" /\ DepsOver(u)
              /\ readyQueue' \in Seq(Targets)
              /\ \A i \in DOMAIN readyQueue' :
                    /\ readyQueue'[i] \in visited \ E
                    /\ job[readyQueue'[i]] = "none"
                    /\ \E k \in DOMAIN readyQueue : readyQueue'[i] = readyQueue[k]
                    /\ \A j \in DOMAIN readyQueue' : readyQueue'[i] = readyQueue'[j] => i = j
  BY Dispatched
<1>4. /\ job' \in [Targets -> {"none"} \cup Active \cup Ended]
      /\ \A u \in E : job'[u] = "working" /\ starts[u] = 0 /\ starts'[u] = 1
      /\ \A u \in Targets \ E : job'[u] = job[u] /\ starts'[u] = starts[u]
      /\ starts' \in [Targets -> Nat]
  <2>1. \A u \in E : starts[u] = 0
    BY <1>2, <1>3 DEF JobsInv
  <2> QED
    BY <2>1, <1>2, <1>3 DEF Begun, TypeOK, Active
<1>5. Abstract!Wanted' = Abstract!Wanted /\ (Abstract!Cyclic' <=> Abstract!Cyclic)
  BY <1>1, WantedKept
<1>6. \A u \in Targets : job'[u] \in Over <=> job[u] \in Over
  BY <1>2, <1>3, <1>4 DEF Over
<1>7. \A u \in Targets : DepsOver(u) => DepsOver(u)'
  BY <1>1, <1>6, DepsStayOver
<1>8. \A u \in visited : Remaining(u)' = Remaining(u)
  <2>1. ASSUME NEW u \in visited, NEW k \in DOMAIN deps[u]
        PROVE  deps[u][k] \in Targets
    BY DEF SeenInv, Elements, TypeOK
  <2> QED
    BY <2>1, <1>1, <1>6 DEF Remaining
<1>9. OverTargets' = OverTargets
  BY <1>6 DEF OverTargets
<1>10. runningTasks' = Cardinality(ActiveJobs')
  <2>1. ActiveJobs' = ActiveJobs \cup E /\ ActiveJobs \cap E = {}
    BY <1>2, <1>3, <1>4 DEF ActiveJobs, Active
  <2>2. IsFiniteSet(ActiveJobs) /\ IsFiniteSet(E) /\ Cardinality(ActiveJobs) \in Nat
    BY <1>2, Shapes DEF ActiveJobs
  <2> DEFINE A == ActiveJobs
  <2> HIDE DEF A
  <2>3. Cardinality(A \cup E) = Cardinality(A) + Cardinality(E) - Cardinality(A \cap E)
    BY <2>2, FS_Union DEF A
  <2>4. Cardinality(A \cap E) = 0
    BY <2>1, FS_EmptySet DEF A
  <2>5. Cardinality(A) = runningTasks
    BY <1>2 DEF TablesInv, A
  <2> QED
    BY <2>1, <2>2, <2>3, <2>4, <2>5, <1>3 DEF A
<1>11. TypeOK'
  <2>1. runningTasks' \in 0 .. jobs
    BY <1>3, UMakeAssumption DEF TypeOK
  <2> QED
    BY <2>1, <1>1, <1>3, <1>4 DEF TypeOK
<1>12. StackInv' /\ SeenInv'
  BY <1>1, <1>5 DEF StackInv, SeenInv, Elements
<1>13. CallInv'
  BY <1>1, <1>2 DEF CallInv
<1>14. JobsInv'
  <2>1. \A u \in Targets : job'[u] # "none" => u \in Abstract!Wanted /\ DepsOver(u)
    BY <1>2, <1>3, <1>4 DEF JobsInv, SeenInv
  <2>2. \A u \in Targets : starts'[u] = IF job'[u] = "none" THEN 0 ELSE 1
    BY <1>4 DEF JobsInv
  <2>3. ~failed
    BY <1>1 DEF LoopOver
  <2>4. \A u \in Targets : /\ job'[u] \in {"cut", "dropped"} => failed
                           /\ job'[u] = "command" => ran[u] < MaxCommands
    BY <1>4 DEF JobsInv
  <2> QED
    BY <2>1, <2>2, <2>3, <2>4, <1>1, <1>5, <1>7 DEF JobsInv
<1>15. SerialInv'
  BY <1>1, <1>2 DEF SerialInv
<1>16. TablesInv'
  <2>1. \A u \in Targets : job'[u] # "none" => u \in visited
    BY <1>2, <1>4 DEF TablesInv
  <2>2. \A i \in DOMAIN readyQueue' :
          /\ readyQueue'[i] \in visited
          /\ job'[readyQueue'[i]] = "none"
          /\ DepsOver(readyQueue[i])'
          /\ \A j \in DOMAIN readyQueue' : readyQueue'[i] = readyQueue'[j] => i = j
    <3>1. ASSUME NEW i \in DOMAIN readyQueue'
          PROVE  DepsOver(readyQueue[i])'
      <4>1. PICK u \in Targets : u = readyQueue'[i] /\ DepsOver(u)
        BY <1>2, <1>3, <3>1 DEF TablesInv
      <4>2. DepsOver(u)'
        BY <4>1, <1>7
      <4> QED
        BY <4>1, <4>2 DEF DepsOver
    <3> QED
      BY <3>1, <1>2, <1>3, <1>4
  <2>3. \A u \in Targets : job'[u] = "broken" => job[u] = "broken"
    BY <1>4
  <2>4. completedTasks' = Cardinality(OverTargets')
    BY <1>1, <1>2, <1>9 DEF TablesInv
  <2> QED
    BY <2>1, <2>2, <2>3, <2>4, <1>1, <1>2, <1>8, <1>10 DEF TablesInv
<1> QED
  BY <1>11, <1>12, <1>13, <1>14, <1>15, <1>16

\* A job that ends is one of those counted, and the loop is still there.
LEMMA EndingJob ==
    ASSUME BuildInv, jobs > 1, NEW t \in Targets, job[t] \in Active,
           job'[t] \notin Active, \A u \in Targets : u # t => job'[u] = job[u]
    PROVE  /\ pc \in {"loop", "wait", "drain"} /\ t \in visited /\ result = "none"
           /\ runningTasks \in 1 .. jobs
           /\ runningTasks - 1 = Cardinality(ActiveJobs')
<1> USE DEF BuildInv
<1>1. t \in ActiveJobs /\ job[t] # "none"
  BY DEF ActiveJobs, Active
<1>2. pc \in {"loop", "wait", "drain"} /\ t \in visited
  BY <1>1 DEF TablesInv, JobsInv
<1>3. ActiveJobs' = ActiveJobs \ {t}
  BY DEF ActiveJobs
<1>4. IsFiniteSet(ActiveJobs) /\ Cardinality(ActiveJobs) \in Nat
  BY Shapes DEF ActiveJobs
<1>5. Cardinality(ActiveJobs \ {t}) = Cardinality(ActiveJobs) - 1 /\ Cardinality(ActiveJobs \ {t}) \in Nat
  <2> DEFINE A == ActiveJobs
  <2> HIDE DEF A
  <2>1. IsFiniteSet(A \ {t}) /\ Cardinality(A \ {t}) = IF t \in A THEN Cardinality(A) - 1 ELSE Cardinality(A)
    BY <1>4, FS_RemoveElement DEF A
  <2>2. Cardinality(A \ {t}) \in Nat
    BY <2>1, FS_CardinalityType
  <2> QED
    BY <2>1, <2>2, <1>1 DEF A
<1>6. runningTasks = Cardinality(ActiveJobs) /\ runningTasks \in 0 .. jobs
  BY DEF TablesInv, TypeOK
<1> QED
  BY <1>2, <1>3, <1>4, <1>5, <1>6 DEF CallInv

LEMMA JobFailedKeeps ==
    ASSUME BuildInv, NEW t \in Targets, JobFailed(t)
    PROVE  BuildInv'
<1> USE DEF BuildInv
<1>1. /\ jobs > 1 /\ job[t] = "failing" /\ job' = [job EXCEPT ![t] = "broken"]
      /\ failed' = TRUE /\ runningTasks' = runningTasks - 1 /\ notified' = TRUE
      /\ deps' = deps /\ goal' = goal /\ jobs' = jobs /\ UNCHANGED graph
      /\ UNCHANGED <<pc, stack, visited, ran, inDegree, readyQueue, completedTasks, starts, result>>
  BY DEF JobFailed, Notify, graph, walk
<1>2. exitCode' \in Reasons \cup {exitCode} /\ (exitCode = "ok" => exitCode' \in Reasons)
  BY DEF JobFailed
<1>3. /\ job' \in [Targets -> {"none"} \cup Active \cup Ended]
      /\ job'[t] = "broken" /\ \A u \in Targets : u # t => job'[u] = job[u]
  BY <1>1 DEF TypeOK, Ended
<1>4. /\ pc \in {"loop", "wait", "drain"} /\ t \in visited /\ result = "none"
      /\ runningTasks \in 1 .. jobs
      /\ runningTasks - 1 = Cardinality(ActiveJobs')
  BY <1>1, <1>3, EndingJob DEF Active
<1>5. exitCode' \in Reasons
  BY <1>1, <1>2, <1>4 DEF TablesInv
<1>6. Abstract!Wanted' = Abstract!Wanted /\ (Abstract!Cyclic' <=> Abstract!Cyclic)
  BY <1>1, WantedKept
<1>7. \A u \in Targets : job'[u] \in Over <=> job[u] \in Over
  BY <1>1, <1>3 DEF Over
<1>8. \A u \in Targets : DepsOver(u) => DepsOver(u)'
  BY <1>1, <1>7, DepsStayOver
<1>9. \A u \in visited : Remaining(u)' = Remaining(u)
  <2>1. ASSUME NEW u \in visited, NEW k \in DOMAIN deps[u]
        PROVE  deps[u][k] \in Targets
    BY DEF SeenInv, Elements, TypeOK
  <2> QED
    BY <2>1, <1>1, <1>7 DEF Remaining
<1>10. OverTargets' = OverTargets
  BY <1>7 DEF OverTargets
<1>11. TypeOK'
  <2>1. runningTasks' \in 0 .. jobs
    BY <1>1, <1>4, UMakeAssumption DEF TypeOK
  <2>2. exitCode' \in {"ok"} \cup Failures
    BY <1>5, Shapes
  <2> QED
    BY <2>1, <2>2, <1>1, <1>3 DEF TypeOK
<1>12. StackInv' /\ SeenInv'
  BY <1>1, <1>6 DEF StackInv, SeenInv, Elements
<1>13. CallInv'
  BY <1>1, <1>4 DEF CallInv
<1>14. JobsInv'
  <2>1. \A u \in Targets : job'[u] # "none" => u \in Abstract!Wanted /\ DepsOver(u)
    BY <1>1, <1>3 DEF JobsInv
  <2>2. \A u \in Targets : /\ starts[u] = IF job'[u] = "none" THEN 0 ELSE 1
                           /\ job'[u] = "command" => ran[u] < MaxCommands
    BY <1>1, <1>3 DEF JobsInv
  <2> QED
    BY <2>1, <2>2, <1>1, <1>3, <1>4, <1>6, <1>8 DEF JobsInv
<1>15. SerialInv'
  BY <1>1 DEF SerialInv
<1>16. TablesInv'
  <2>1. \A u \in Targets : job'[u] # "none" => u \in visited
    BY <1>1, <1>3, <1>4 DEF TablesInv
  <2>2. \A i \in DOMAIN readyQueue :
          /\ readyQueue[i] \in Targets
          /\ job'[readyQueue[i]] = "none"
          /\ DepsOver(readyQueue[i])'
    <3>1. ASSUME NEW i \in DOMAIN readyQueue
          PROVE  readyQueue[i] \in Targets /\ job[readyQueue[i]] = "none" /\ DepsOver(readyQueue[i])'
      <4>1. PICK u \in Targets : u = readyQueue[i] /\ DepsOver(u) /\ job[u] = "none"
        BY <1>1, <3>1 DEF TablesInv, TypeOK
      <4>2. DepsOver(u)'
        BY <4>1, <1>8
      <4> QED
        BY <4>1, <4>2, <1>1 DEF DepsOver
    <3> QED
      BY <3>1, <1>1, <1>3
  <2>3. LoopOver'
    BY <1>1 DEF LoopOver
  <2> QED
    BY <2>1, <2>2, <2>3, <1>1, <1>4, <1>5, <1>9, <1>10 DEF TablesInv
<1> QED
  BY <1>11, <1>12, <1>13, <1>14, <1>15, <1>16

LEMMA JobDoneKeeps ==
    ASSUME BuildInv, NEW t \in Targets, JobDone(t)
    PROVE  BuildInv'
<1> USE DEF BuildInv
<1>1. /\ jobs > 1 /\ job[t] \in {"complete", "cut"}
      /\ job' = [job EXCEPT ![t] = IF @ = "cut" THEN "dropped" ELSE "built"]
      /\ completedTasks' = completedTasks + 1
      /\ inDegree' = [u \in Targets |-> IF u \in visited THEN inDegree[u] - Occurrences(t, u)
                                        ELSE inDegree[u]]
      /\ runningTasks' = runningTasks - 1 /\ notified' = TRUE
      /\ deps' = deps /\ goal' = goal /\ jobs' = jobs /\ UNCHANGED graph
      /\ UNCHANGED <<pc, stack, visited, ran, failed, exitCode, starts, result>>
  BY DEF JobDone, Notify, graph, walk
<1>2. /\ job' \in [Targets -> {"none"} \cup Active \cup Ended]
      /\ job'[t] = IF job[t] = "cut" THEN "dropped" ELSE "built"
      /\ \A u \in Targets : u # t => job'[u] = job[u]
  BY <1>1 DEF TypeOK, Ended
<1>3. /\ pc \in {"loop", "wait", "drain"} /\ t \in visited /\ result = "none"
      /\ runningTasks \in 1 .. jobs
      /\ runningTasks - 1 = Cardinality(ActiveJobs')
  BY <1>1, <1>2, EndingJob DEF Active
<1>4. visited \in SUBSET Targets /\ \A u \in visited : Elements(deps[u]) \subseteq visited
  BY DEF TypeOK, SeenInv
<1>5. Abstract!Wanted' = Abstract!Wanted /\ (Abstract!Cyclic' <=> Abstract!Cyclic)
  BY <1>1, WantedKept
<1>6. job[t] \notin Over /\ job'[t] \in Over /\ \A u \in Targets : u # t => (job'[u] \in Over <=> job[u] \in Over)
  BY <1>1, <1>2 DEF Over
<1>7. \A u \in Targets : DepsOver(u) => DepsOver(u)'
  BY <1>1, <1>6, DepsStayOver
<1>8. OverTargets' = OverTargets \cup {t} /\ t \notin OverTargets
  BY <1>6 DEF OverTargets
<1>9. completedTasks' = Cardinality(OverTargets') /\ completedTasks' \in 0 .. Cardinality(visited)
  <2> DEFINE O == OverTargets
  <2>1. IsFiniteSet(O) /\ Cardinality(O) \in Nat /\ IsFiniteSet(visited) /\ Cardinality(visited) \in Nat
    BY Shapes DEF OverTargets
  <2>2. O \cup {t} \in SUBSET visited
    BY <1>1, <1>3 DEF TablesInv, OverTargets, Over
  <2>3. completedTasks = Cardinality(O)
    BY <1>1 DEF TablesInv
  <2>4. t \notin O
    BY <1>8
  <2> HIDE DEF O
  <2>5. Cardinality(O \cup {t}) = Cardinality(O) + 1
    BY <2>1, <2>4, FS_AddElement
  <2>6. Cardinality(O \cup {t}) <= Cardinality(visited)
    BY <2>1, <2>2, FS_Subset
  <2>7. completedTasks' = Cardinality(O \cup {t}) /\ completedTasks' \in 0 .. Cardinality(visited)
    BY <2>1, <2>3, <2>5, <2>6, <1>1
  <2> QED
    BY <2>7, <1>8 DEF O
\* The in-degree of a target counts what is left of its dependencies.
<1>10. ASSUME NEW u \in visited
       PROVE  inDegree'[u] = Cardinality(Remaining(u)') /\ inDegree'[u] \in Nat
  <2> DEFINE R == Remaining(u)
             K == {i \in DOMAIN deps[u] : deps[u][i] = t}
             N == Remaining(u)'
  <2>1. \A k \in DOMAIN deps[u] : deps[u][k] \in Targets
    BY <1>4 DEF Elements
  <2>2. N = R \ K /\ R \cap K = K
    BY <2>1, <1>1, <1>6 DEF Remaining
  <2>3. IsFiniteSet(R)
    <3>1. Len(deps[u]) \in Nat /\ DOMAIN deps[u] = 1 .. Len(deps[u])
      BY Shapes, <1>4
    <3> DEFINE h == Len(deps[u])
    <3>2. R \in SUBSET (1 .. h)
      BY <3>1 DEF Remaining
    <3> HIDE DEF h, R
    <3>3. h \in Nat
      BY <3>1 DEF h
    <3>4. IsFiniteSet(1 .. h)
      BY <3>3, FS_Interval
    <3> QED
      BY <3>2, <3>4, FS_Subset
  <2>4. inDegree[u] = Cardinality(R)
    BY <1>1, <1>3 DEF TablesInv
  <2>5. inDegree'[u] = inDegree[u] - Cardinality(K)
    BY <1>1, <1>4 DEF Occurrences
  <2> HIDE DEF R, K, N
  <2>6. /\ IsFiniteSet(R \ K)
        /\ Cardinality(R \ K) = Cardinality(R) - Cardinality(R \cap K)
    BY <2>3, FS_Difference
  <2>7. Cardinality(R \ K) \in Nat
    BY <2>6, FS_CardinalityType
  <2>8. inDegree'[u] = Cardinality(N) /\ Cardinality(N) \in Nat
    BY <2>2, <2>4, <2>5, <2>6, <2>7
  <2> QED
    BY <2>8 DEF N
\* What becomes ready needed this target, and nothing else that has not ended.
<1>11. ASSUME NEW u \in NowReady(t)
       PROVE  u \in visited /\ job[u] = "none" /\ u # t /\ ~DepsOver(u) /\ DepsOver(u)'
  <2>1. u \in visited /\ Occurrences(t, u) > 0 /\ inDegree'[u] = 0
    BY DEF NowReady
  <2>2. \E k \in DOMAIN deps[u] : deps[u][k] = t
    <3>1. Occurrences(t, u) # 0
      BY <2>1
    <3>2. {i \in DOMAIN deps[u] : deps[u][i] = t} # {}
      BY <3>1, FS_EmptySet DEF Occurrences
    <3> QED
      BY <3>2
  <2>3. ~DepsOver(u)
    BY <2>2, <1>6 DEF DepsOver
  <2>4. job[u] = "none" /\ u # t
    BY <2>1, <2>3, <1>1, <1>4 DEF JobsInv
  <2>5. Remaining(u)' = {}
    <3>1. Cardinality(Remaining(u)') = 0
      BY <2>1, <1>10
    <3>2. IsFiniteSet(Remaining(u)')
      <4> DEFINE h == Len(deps[u])
      <4>1. h \in Nat /\ DOMAIN deps[u] = 1 .. h
        BY Shapes, <1>4, <2>1
      <4>2. Remaining(u)' \in SUBSET (1 .. h)
        BY <4>1, <1>1 DEF Remaining
      <4> HIDE DEF h
      <4>3. IsFiniteSet(1 .. h)
        BY <4>1, FS_Interval
      <4> QED
        BY <4>2, <4>3, FS_Subset
    <3> QED
      BY <3>1, <3>2, FS_EmptySet
  <2>6. DepsOver(u)'
    <3>1. \A k \in DOMAIN deps[u] : deps[u][k] \in Targets
      BY <2>1, <1>4 DEF Elements
    <3> QED
      BY <3>1, <2>5, <1>1 DEF DepsOver, Remaining
  <2> QED
    BY <2>1, <2>3, <2>4, <2>6
<1>12. PICK q : q \in SetToSeqs(NowReady(t)) /\ readyQueue' = readyQueue \o q
  BY DEF JobDone
<1>13. /\ readyQueue' \in Seq(Targets)
       /\ \A i \in DOMAIN readyQueue' :
             /\ readyQueue'[i] \in visited
             /\ job'[readyQueue'[i]] = "none"
             /\ DepsOver(readyQueue[i])'
             /\ \A j \in DOMAIN readyQueue' : readyQueue'[i] = readyQueue'[j] => i = j
  <2> DEFINE S == NowReady(t)
             h == Len(readyQueue)
             g == Len(q)
  <2>1. S \in SUBSET Targets
    BY <1>4 DEF NowReady
  <2>2. q \in Seq(S) /\ \A i, j \in DOMAIN q : q[i] = q[j] => i = j
    <3> HIDE DEF S
    <3> QED
      BY <2>1, <1>12, OrderingsOf DEF S
  <2>3. readyQueue \in Seq(Targets) /\ h \in Nat /\ DOMAIN readyQueue = 1 .. h
    BY DEF TypeOK
  <2>4. q \in Seq(Targets) /\ g \in Nat /\ DOMAIN q = 1 .. g /\ \A i \in 1 .. g : q[i] \in S
    <3> HIDE DEF S
    <3> QED
      BY <2>1, <2>2, SeqMonotonic
  <2>5. /\ readyQueue' \in Seq(Targets) /\ DOMAIN readyQueue' = 1 .. h + g
        /\ \A i \in 1 .. h + g : readyQueue'[i] = IF i <= h THEN readyQueue[i] ELSE q[i - h]
    BY <2>3, <2>4, <1>12, ConcatProperties
  <2> HIDE DEF S, h, g
  <2>6. \A i \in 1 .. h :
          /\ readyQueue[i] \in visited /\ job[readyQueue[i]] = "none" /\ DepsOver(readyQueue[i])
          /\ \A j \in 1 .. h : readyQueue[i] = readyQueue[j] => i = j
    BY <2>3, <1>1 DEF TablesInv
  <2>7. \A i \in 1 .. h + g :
           \/ i \in 1 .. h /\ readyQueue'[i] = readyQueue[i]
           \/ i - h \in 1 .. g /\ readyQueue'[i] = q[i - h]
    <3>1. ASSUME NEW i \in 1 .. h + g PROVE i \in 1 .. h \/ (i - h \in 1 .. g /\ ~(i <= h))
      BY <2>3, <2>4
    <3>2. ASSUME NEW i \in 1 .. h + g, i \in 1 .. h PROVE readyQueue'[i] = readyQueue[i]
      BY <2>3, <2>5, <3>2
    <3>3. ASSUME NEW i \in 1 .. h + g, ~(i <= h) PROVE readyQueue'[i] = q[i - h]
      BY <2>5, <3>3
    <3> QED
      BY <3>1, <3>2, <3>3
  <2>8. \A i \in 1 .. h + g, j \in 1 .. h + g : i - h = j - h => i = j
    BY <2>3, <2>4
  <2>9. \A i \in 1 .. h, j \in 1 .. g : readyQueue[i] # q[j]
    BY <2>4, <2>6, <1>11 DEF S
  <2>10. ASSUME NEW i \in 1 .. h + g, NEW j \in 1 .. h + g, readyQueue'[i] = readyQueue'[j]
         PROVE  i = j
    BY <2>2, <2>4, <2>6, <2>7, <2>8, <2>9, <2>10
  <2>11. ASSUME NEW i \in 1 .. h + g
         PROVE  readyQueue'[i] \in visited /\ job'[readyQueue'[i]] = "none" /\ DepsOver(readyQueue[i])'
    <3>1. PICK u \in visited : u = readyQueue'[i] /\ job[u] = "none" /\ (DepsOver(u) \/ u \in S)
      BY <2>4, <2>6, <2>7, <1>11 DEF S
    <3>2. job'[u] = "none"
      BY <3>1, <1>1, <1>2, <1>4
    <3>3. DepsOver(u)'
      BY <3>1, <1>4, <1>7, <1>11 DEF S
    <3> QED
      BY <3>1, <3>2, <3>3, <1>1 DEF DepsOver
  <2> QED
    BY <2>5, <2>10, <2>11
<1>14. TypeOK'
  <2>1. inDegree' \in [Targets -> Nat]
    <3>1. \A u \in Targets \ visited : inDegree'[u] = inDegree[u]
      BY <1>1
    <3>2. \A u \in Targets : inDegree'[u] \in Nat
      BY <3>1, <1>10 DEF TypeOK
    <3> QED
      BY <3>2, <1>1
  <2>2. runningTasks' \in 0 .. jobs
    BY <1>1, <1>3, UMakeAssumption DEF TypeOK
  <2> QED
    BY <2>1, <2>2, <1>1, <1>2, <1>9, <1>13 DEF TypeOK
<1>15. StackInv' /\ SeenInv'
  BY <1>1, <1>5 DEF StackInv, SeenInv, Elements
<1>16. CallInv'
  BY <1>1, <1>3 DEF CallInv
<1>17. JobsInv'
  <2>1. \A u \in Targets : job'[u] # "none" => u \in Abstract!Wanted /\ DepsOver(u)
    BY <1>1, <1>2 DEF JobsInv
  <2>2. \A u \in Targets : /\ starts[u] = IF job'[u] = "none" THEN 0 ELSE 1
                           /\ job'[u] = "command" => ran[u] < MaxCommands
                           /\ job'[u] \in {"cut", "dropped"} => failed
                           /\ job[u] = "broken" => job'[u] = "broken"
    BY <1>1, <1>2 DEF JobsInv
  <2> QED
    BY <2>1, <2>2, <1>1, <1>3, <1>5, <1>7 DEF JobsInv
<1>18. SerialInv'
  BY <1>1 DEF SerialInv
<1>19. TablesInv'
  <2>1. \A u \in Targets : job'[u] # "none" => u \in visited
    BY <1>1, <1>2, <1>3 DEF TablesInv
  <2>2. \A u \in Targets : job'[u] = "broken" => failed
    BY <1>1, <1>2 DEF TablesInv
  <2>3. pc = "drain" => LoopOver'
    <3>1. ASSUME pc = "drain", ~failed PROVE FALSE
      <4>1. completedTasks = Cardinality(visited)
        BY <3>1, <1>1 DEF TablesInv, LoopOver
      <4>2. completedTasks \in Nat
        BY <4>1, Shapes
      <4> QED
        BY <4>1, <4>2, <1>1, <1>9
    <3> QED
      BY <3>1, <1>1 DEF LoopOver
  <2> QED
    BY <2>1, <2>2, <2>3, <1>1, <1>3, <1>9, <1>10, <1>13 DEF TablesInv
<1> QED
  BY <1>14, <1>15, <1>16, <1>17, <1>18, <1>19

-----------------------------------------------------------------------------
(* The invariant, and what it says of UMake                                *)

LEMMA NothingHappens ==
    ASSUME BuildInv, UNCHANGED vars
    PROVE  BuildInv'
<1> USE DEF BuildInv
<1>1. /\ deps' = deps /\ goal' = goal /\ jobs' = jobs
      /\ UNCHANGED <<pc, stack, visited, job, ran, inDegree, readyQueue, runningTasks,
                     completedTasks, failed, exitCode, notified, starts, result>>
  BY DEF vars, graph, walk, table
<1>2. Abstract!Wanted' = Abstract!Wanted /\ (Abstract!Cyclic' <=> Abstract!Cyclic)
  BY WantedKept DEF vars
<1>3. TypeOK' /\ StackInv' /\ SeenInv'
  BY <1>1, <1>2 DEF TypeOK, StackInv, SeenInv, Elements
<1>4. CallInv' /\ SerialInv'
  BY <1>1, <1>2 DEF CallInv, SerialInv, Top
<1>5. JobsInv'
  BY <1>1, <1>2 DEF JobsInv, DepsOver, ActiveJobs
<1>6. TablesInv'
  BY <1>1 DEF TablesInv, DepsOver, ActiveJobs, OverTargets, Remaining, LoopOver
<1> QED
  BY <1>3, <1>4, <1>5, <1>6

LEMMA BuildStep == BuildInv /\ [Next]_vars => BuildInv'
<1> SUFFICES ASSUME BuildInv, [Next]_vars PROVE BuildInv'
  OBVIOUS
<1>1. CASE Begin \/ NextDependency \/ Reached
  BY <1>1, BeginKeeps, NextDependencyKeeps, ReachedKeeps
<1>2. CASE BeginCommands \/ Completed \/ CommandFailed
  BY <1>2, BeginCommandsKeeps, CompletedKeeps, CommandFailedKeeps
<1>3. CASE Drain \/ Woken \/ Spurious \/ DrainEnd \/ Return
  BY <1>3, WaitingKeeps, DrainEndKeeps, ReturnKeeps
<1>4. CASE Dispatch
  BY <1>4, DispatchKeeps
<1>5. ASSUME NEW t \in Targets, Job(t)
      PROVE  BuildInv'
  BY <1>5, BeforeCommandKeeps, CommandKeeps, JobDoneKeeps, JobFailedKeeps DEF Job
<1>6. CASE UNCHANGED vars
  BY <1>6, NothingHappens
<1> QED
  BY <1>1, <1>2, <1>3, <1>4, <1>5, <1>6 DEF Next, Call

LEMMA BuildAlways == Spec => []BuildInv
  BY BuildStart, BuildStep, PTL DEF Spec

LEMMA BuildInvIsStrong == BuildInv => WellFormed
<1> SUFFICES ASSUME BuildInv PROVE WellFormed
  OBVIOUS
<1> USE DEF BuildInv
<1>1. jobs \in Nat \ {0}
  BY DEF TypeOK
<1>2. Cardinality(ActiveJobs) <= jobs
  <2>1. CASE jobs > 1
    BY <2>1 DEF TypeOK, TablesInv
  <2>2. CASE jobs = 1
    <3>1. ActiveJobs \in SUBSET {Top.target}
      BY <2>2 DEF SerialInv, ActiveJobs
    <3>2. IsFiniteSet({Top.target}) /\ Cardinality({Top.target}) = 1
      BY FS_Singleton
    <3> DEFINE S == {Top.target}
    <3> HIDE DEF S
    <3>3. Cardinality(ActiveJobs) <= Cardinality(S)
      BY <3>1, <3>2, FS_Subset DEF S
    <3> QED
      BY <3>2, <3>3, <2>2 DEF S
  <2> QED
    BY <1>1, <2>1, <2>2
<1>3. \A t \in Targets : starts[t] <= 1
  BY DEF JobsInv
<1> QED
  BY <1>2, <1>3 DEF WellFormed, JobsInv, TablesInv

\* At most -j commands of targets run at once, runningTasks counts the threads
\* that still use the variables of runUMakeTarget, none of them is left when it
\* returns, and a target is begun at most once, in both executors and for every
\* dependency graph.
THEOREM BuildIsWellFormed == Spec => []WellFormed
  BY BuildAlways, BuildInvIsStrong, PTL

-----------------------------------------------------------------------------
(* The refinement: what each step is to whoever runs the build             *)

\* The status of a target that follows from its job.
LEMMA StatusIs ==
    ASSUME TypeOK, TypeOK', NEW t \in Targets
    PROVE  /\ Status(t) = "untouched" <=> job[t] = "none"
           /\ Status(t) = "building" <=> job[t] \in Active
           /\ \A x \in Ended : Status(t) = x <=> job[t] = x
           /\ job'[t] = "none" => Status(t)' = "untouched"
           /\ job'[t] \in Active => Status(t)' = "building"
           /\ job'[t] \in Ended => Status(t)' = job'[t]
           /\ job'[t] = job[t] => Status(t)' = Status(t)
<1>1. job[t] \in {"none"} \cup Active \cup Ended /\ job'[t] \in {"none"} \cup Active \cup Ended
  BY DEF TypeOK
<1>2. CASE job[t] = "none"
  BY <1>1, <1>2 DEF Status, Active, Ended
<1>3. CASE job[t] \in Active
  BY <1>1, <1>3 DEF Status, Active, Ended
<1>4. CASE job[t] \in Ended
  BY <1>1, <1>4 DEF Status, Active, Ended
<1> QED
  BY <1>1, <1>2, <1>3, <1>4

LEMMA BuildStutters ==
    ASSUME UNCHANGED <<deps, goal, result>>, \A t \in Targets : Status(t)' = Status(t)
    PROVE  UNCHANGED Abstract!vars
<1>1. [t \in Targets |-> Elements(deps[t])]' = [t \in Targets |-> Elements(deps[t])]
  BY DEF Elements
<1>2. [t \in Targets |-> Status(t)]' = [t \in Targets |-> Status(t)]
  <2> DEFINE F == [t \in Targets |-> Status(t)]
  <2>1. \A t \in Targets : F'[t] = F[t]
    OBVIOUS
  <2>2. F' = [t \in Targets |-> F'[t]] /\ F = [t \in Targets |-> F[t]]
    OBVIOUS
  <2> HIDE DEF F
  <2>3. F' = F
    BY <2>1, <2>2
  <2> QED
    BY <2>3 DEF F
<1> QED
  BY <1>1, <1>2 DEF Abstract!vars

LEMMA StartsLikeBuild == Init => Abstract!Init
<1> SUFFICES ASSUME Init PROVE Abstract!Init
  OBVIOUS
<1>1. \A t \in Targets : Elements(deps[t]) \in SUBSET Names
  <2>1. deps \in [Targets -> Seq(Names)]
    BY UMakeAssumption DEF Init
  <2> QED
    BY <2>1 DEF Elements
<1>2. \A t \in Targets : Status(t) = "untouched"
  BY DEF Init, Status, Active, Ended
<1> QED
  BY <1>1, <1>2, UMakeAssumption DEF Init, Abstract!Init, Names

\* Targets are begun when all they need is built and nothing is broken.
LEMMA BeginMaps ==
    ASSUME BuildInv, BuildInv', NEW S \in SUBSET Targets, Begun(S),
           UNCHANGED <<deps, goal, result>>, result = "none", ~failed,
           \A t \in S : job[t] = "none" /\ t \in Abstract!Wanted /\ DepsOver(t),
           \A t \in Targets : job[t] # "broken"
    PROVE  Abstract!Next
<1> USE DEF BuildInv
<1>1. \A t \in Targets : job'[t] = IF t \in S THEN "working" ELSE job[t]
  BY DEF Begun
<1>2. \A t \in Targets : Status(t)' = IF t \in S THEN "building" ELSE Status(t)
  BY <1>1, StatusIs DEF Active
<1>3. S \subseteq Abstract!Wanted \cap Abstract!With("untouched")
  BY StatusIs DEF Abstract!With
<1>4. Abstract!With("broken") = {}
  BY StatusIs DEF Abstract!With, Ended
<1>5. \A t \in S : Elements(deps[t]) \subseteq Abstract!With("built")
  <2>1. ASSUME NEW t \in S, NEW n \in Elements(deps[t])
        PROVE  n \in Targets /\ job[n] = "built"
    BY DEF Elements, DepsOver, Over, JobsInv
  <2> QED
    BY <2>1, StatusIs DEF Abstract!With, Ended
<1>6. [t \in Targets |-> Status(t)]' = [t \in Targets |-> IF t \in S THEN "building" ELSE [u \in Targets |-> Status(u)][t]]
  <2> DEFINE F == [t \in Targets |-> Status(t)]
  <2>1. F' = [t \in Targets |-> F'[t]]
    OBVIOUS
  <2>2. \A t \in Targets : F'[t] = IF t \in S THEN "building" ELSE F[t]
    BY <1>2
  <2> HIDE DEF F
  <2>3. F' = [t \in Targets |-> IF t \in S THEN "building" ELSE F[t]]
    BY <2>1, <2>2
  <2> QED
    BY <2>3 DEF F
<1>7. UNCHANGED <<[t \in Targets |-> Elements(deps[t])], goal, result>>
  BY DEF Elements
<1>8. Abstract!Begin(S)
  BY <1>3, <1>4, <1>5, <1>6, <1>7 DEF Abstract!Begin
<1> QED
  BY <1>8 DEF Abstract!Next

\* A target ends, dropped only when another one is broken.
LEMMA EndMaps ==
    ASSUME BuildInv, BuildInv', NEW t \in Targets, NEW s \in {"built", "broken", "dropped"},
           job[t] \in Active, job' = [job EXCEPT ![t] = s], s = "dropped" => failed,
           UNCHANGED <<deps, goal, result>>
    PROVE  Abstract!Next
<1> USE DEF BuildInv
<1> DEFINE F == [u \in Targets |-> Status(u)]
<1>1. job'[t] = s /\ \A u \in Targets : u # t => job'[u] = job[u]
  BY DEF TypeOK
<1>2. Status(t)' = s /\ \A u \in Targets : u # t => Status(u)' = Status(u)
  BY <1>1, StatusIs DEF Ended
<1>3. F' = [F EXCEPT ![t] = s]
  <2>1. F' = [u \in Targets |-> F'[u]] /\ F = [u \in Targets |-> F[u]]
    OBVIOUS
  <2>2. F'[t] = s /\ \A u \in Targets : u # t => F'[u] = F[u]
    BY <1>2
  <2> HIDE DEF F
  <2> QED
    BY <2>1, <2>2
<1>4. F[t] = "building"
  BY StatusIs
<1>5. s = "dropped" => Abstract!With("broken") # {}
  BY StatusIs DEF JobsInv, Abstract!With, Ended
<1>6. UNCHANGED <<[u \in Targets |-> Elements(deps[u])], goal, result>>
  BY DEF Elements
<1>7. Abstract!End(t, s)
  BY <1>3, <1>4, <1>5, <1>6 DEF Abstract!End
<1> QED
  BY <1>7 DEF Abstract!Next

\* What is returned is the truth.
LEMMA ReturnMaps ==
    ASSUME BuildInv, BuildInv', Return
    PROVE  Abstract!Next
<1> USE DEF BuildInv
<1>1. /\ pc = "return" /\ result = "none" /\ result' = exitCode
      /\ UNCHANGED <<deps, goal, job>>
      /\ exitCode \in {"ok"} \cup Failures
  BY DEF Return, CallInv, TypeOK, graph
<1>2. Abstract!With("building") = {}
  <2>1. \A t \in Targets : job[t] \notin Active
    BY <1>1 DEF JobsInv, ActiveJobs
  <2> QED
    BY <2>1, StatusIs DEF Abstract!With
<1>3. /\ exitCode = "ok" => goal \in Abstract!With("built")
      /\ exitCode \in {"command", "expansion"} => Abstract!With("broken") # {}
      /\ exitCode = "cycle" => Abstract!Cyclic
      /\ exitCode = "unknown" => Abstract!Wanted \ Targets # {}
  BY <1>1, StatusIs DEF CallInv, Abstract!With, Ended, Reasons
<1>4. \A t \in Targets : Status(t)' = Status(t)
  BY <1>1, StatusIs
<1>5. UNCHANGED <<[t \in Targets |-> Elements(deps[t])], goal, [t \in Targets |-> Status(t)]>>
  BY <1>1, <1>4 DEF Elements
<1>6. PICK r \in {"ok", "command", "expansion", "cycle", "unknown"} : r = exitCode
  BY <1>1 DEF Failures
<1>7. Abstract!Return(r)
  BY <1>1, <1>2, <1>3, <1>5, <1>6 DEF Abstract!Return
<1> QED
  BY <1>7 DEF Abstract!Next

LEMMA BuildStepMaps ==
    ASSUME BuildInv, BuildInv', [Next]_vars
    PROVE  [Abstract!Next]_(Abstract!vars)
<1> USE DEF BuildInv
<1>1. ASSUME UNCHANGED <<deps, goal, result, job>>
      PROVE  UNCHANGED Abstract!vars
  BY <1>1, StatusIs, BuildStutters
<1>2. CASE Begin \/ NextDependency \/ Reached
  BY <1>1, <1>2 DEF Begin, NextDependency, Reached, Walked, graph
<1>3. CASE Drain \/ Woken \/ Spurious \/ DrainEnd \/ UNCHANGED vars
  BY <1>1, <1>3 DEF Drain, Woken, Spurious, DrainEnd, vars, graph
<1>4. CASE BeginCommands
  <2>1. /\ Begun({Top.target}) /\ UNCHANGED <<deps, goal, result>>
        /\ AllVisited /\ jobs = 1 /\ pc = "visit" /\ stack # <<>>
    BY <1>4 DEF BeginCommands, AllVisited, graph
  <2>2. Top.target \in Targets
    BY <2>1, AllVisitedIsSeen
  <2>3. Top.target \notin visited /\ Top.target \in Abstract!Wanted
    BY <2>1, StackShape DEF StackInv, Top
  <2>4. result = "none" /\ ~failed /\ \A t \in Targets : job[t] \in {"none", "built"}
    BY <2>1, WalkingIsQuiet DEF CallInv
  <2>5. PICK S \in SUBSET Targets : S = {Top.target}
    BY <2>2
  <2>6. job[Top.target] = "none"
    BY <2>1, <2>2, <2>3, <2>4 DEF SerialInv
  <2>7. DepsOver(Top.target)
    <3>1. Elements(deps[Top.target]) \subseteq visited /\ \A u \in visited : u \in Targets /\ job[u] = "built"
      BY <2>1, AllVisitedIsSeen DEF SerialInv, TypeOK
    <3> QED
      BY <3>1 DEF DepsOver, Elements, Over
  <2>8. Begun(S)
    BY <2>1, <2>5 DEF Begun
  <2>9. \A t \in S : job[t] = "none" /\ t \in Abstract!Wanted /\ DepsOver(t)
    BY <2>3, <2>5, <2>6, <2>7
  <2> QED
    BY <2>1, <2>4, <2>8, <2>9, BeginMaps
<1>5. CASE Dispatch
  <2>1. /\ pc = "loop" /\ ~failed /\ jobs > 1 /\ result = "none" /\ visited \in SUBSET Targets
        /\ UNCHANGED <<deps, goal, result>>
    BY <1>5 DEF Dispatch, LoopOver, graph, CallInv, TypeOK
  <2>2. PICK E \in SUBSET visited : Begun(E) /\ \A u \in E : job[u] = "none" /\ DepsOver(u)
    BY <1>5, Dispatched
  <2>3. E \in SUBSET Targets /\ \A u \in E : u \in Abstract!Wanted
    BY <2>1 DEF SeenInv
  <2>4. \A t \in Targets : job[t] # "broken"
    BY <2>1 DEF TablesInv
  <2> QED
    BY <2>1, <2>2, <2>3, <2>4, BeginMaps
<1>6. CASE Completed
  <2>1. PICK t \in Targets : t = Top.target
    BY <1>6, CommandsOfTop DEF Completed, Active
  <2>2. /\ job[t] \in Active /\ job' = [job EXCEPT ![t] = "built"]
        /\ UNCHANGED <<deps, goal, result>>
    BY <1>6, <2>1 DEF Completed, graph, Active
  <2> QED
    BY <2>2, EndMaps
<1>7. CASE CommandFailed
  <2>1. PICK t \in Targets : t = Top.target
    BY <1>7, CommandsOfTop DEF CommandFailed, Active
  <2>2. /\ job[t] \in Active /\ job' = [job EXCEPT ![t] = "broken"]
        /\ UNCHANGED <<deps, goal, result>>
    BY <1>7, <2>1 DEF CommandFailed, graph, Active
  <2> QED
    BY <2>2, EndMaps
<1>8. CASE Return
  BY <1>8, ReturnMaps
<1>9. ASSUME NEW t \in Targets, Job(t)
      PROVE  [Abstract!Next]_(Abstract!vars)
  <2>1. CASE BeforeCommand(t) \/ Command(t)
    <3>1. UNCHANGED <<deps, goal, result>>
      BY <2>1 DEF BeforeCommand, Command, graph
    <3>2. PICK s \in Active : job' = [job EXCEPT ![t] = s]
      BY <2>1 DEF BeforeCommand, Command, Active
    <3>3. job[t] \in Active
      BY <2>1 DEF BeforeCommand, Command, Active
    <3>4. \A u \in Targets : job'[u] = job[u] \/ (job[u] \in Active /\ job'[u] \in Active)
      BY <3>2, <3>3 DEF TypeOK
    <3>5. \A u \in Targets : Status(u)' = Status(u)
      BY <3>4, StatusIs
    <3> QED
      BY <3>1, <3>5, BuildStutters
  <2>2. CASE JobDone(t)
    <3>1. PICK s \in {"built", "dropped"} : s = IF job[t] = "cut" THEN "dropped" ELSE "built"
      OBVIOUS
    <3>2. /\ job[t] \in Active /\ job' = [job EXCEPT ![t] = s]
          /\ UNCHANGED <<deps, goal, result>>
      BY <2>2, <3>1 DEF JobDone, graph, Active
    <3>3. s = "dropped" => failed
      BY <3>1 DEF JobsInv
    <3> QED
      BY <3>2, <3>3, EndMaps
  <2>3. CASE JobFailed(t)
    <3>1. /\ job[t] \in Active /\ job' = [job EXCEPT ![t] = "broken"]
          /\ UNCHANGED <<deps, goal, result>>
      BY <2>3 DEF JobFailed, graph, Active
    <3> QED
      BY <3>1, EndMaps
  <2> QED
    BY <1>9, <2>1, <2>2, <2>3 DEF Job
<1> QED
  BY <1>2, <1>3, <1>4, <1>5, <1>6, <1>7, <1>8, <1>9 DEF Next, Call

\* Both executors implement module Build: targets are built after what they
\* need, nothing is begun after a failure was recorded or is not wanted, and
\* what runUMakeTarget returns is the truth.
THEOREM UMakeImplementsBuild == Spec => ImplementsBuild
<1>1. Init => Abstract!Init
  BY StartsLikeBuild
<1>2. BuildInv /\ BuildInv' /\ [Next]_vars => [Abstract!Next]_(Abstract!vars)
  BY BuildStepMaps
<1> QED
  BY <1>1, <1>2, BuildAlways, PTL DEF Spec, ImplementsBuild, Abstract!Spec
=============================================================================
