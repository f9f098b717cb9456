------------------------ MODULE JniBoundary_proofs ------------------------
(***************************************************************************)
(* Proofs about JniBoundary: its variables keep their types, and it        *)
(* implements AtomicCalls, for any threads, arrays, contents, numbers of   *)
(* parameters and C functions; and about HashObject, a class above it.     *)
(***************************************************************************)
EXTENDS JniBoundary, Sequences, TLAPS

\* The variables keep their types: a step of copying in, computing or copying back
\* neither leaves the parameters nor the contents.
THEOREM TypeCorrect == Spec => []TypeOK
<1>1. Init => TypeOK
  BY BoundaryAssumption DEF Init, TypeOK
<1>2. TypeOK /\ [Next]_vars => TypeOK'
  <2> SUFFICES ASSUME TypeOK, [Next]_vars PROVE TypeOK'
    OBVIOUS
  <2> USE BoundaryAssumption DEF TypeOK, call
  <2>1. ASSUME NEW t \in Threads, NEW a \in [Params -> Arrays], NEW o \in Shapes, Call(t, a, o)
        PROVE  TypeOK'
    BY <2>1 DEF Call
  <2>2. ASSUME NEW t \in Threads, Get(t) PROVE TypeOK'
    <3>1. pos[t] + 1 \in Params
      BY <2>2 DEF Get, Params
    <3>2. heap[args[t][pos[t] + 1]] \in Values
      BY <3>1
    <3>3. pinned' \in [Threads -> SUBSET Params] /\ elems' \in [Threads -> [Params -> Values]]
      <4>1. CASE pinned' = [pinned EXCEPT ![t] = @ \cup {pos[t] + 1}] /\ UNCHANGED elems
        BY <3>1, <4>1
      <4>2. CASE /\ elems' = [elems EXCEPT ![t][pos[t] + 1] = heap[args[t][pos[t] + 1]]]
                 /\ UNCHANGED pinned
        <5> DEFINE k == pos[t] + 1
                   v == heap[args[t][k]]
                   new == [elems[t] EXCEPT ![k] = v]
        <5>1. new \in [Params -> Values]
          BY <3>1, <3>2
        <5>2. elems' = [elems EXCEPT ![t] = new]
          BY <4>2
        <5> HIDE DEF new
        <5>3. elems' \in [Threads -> [Params -> Values]]
          BY <5>1, <5>2
        <5>4. pinned' \in [Threads -> SUBSET Params]
          BY <4>2
        <5> QED
          BY <5>3, <5>4
      <4> QED
        BY <2>2, <4>1, <4>2 DEF Get
    <3> QED
      BY <2>2, <3>3 DEF Get
  <2>3. ASSUME NEW t \in Threads, Run(t) PROVE TypeOK'
    <3>1. Given(t) \in [Params -> Values]
      BY DEF Given
    <3>2. \A i \in Params : Compute[i][Given(t)] \in Values
      BY <3>1
    <3>3. heap' \in [Arrays -> Values]
      <4>1. ASSUME NEW x \in Arrays PROVE heap'[x] \in Values
        <5>1. CASE \E i \in outs[t] \cap pinned[t] : args[t][i] = x
          <6> DEFINE k == CHOOSE i \in outs[t] \cap pinned[t] : args[t][i] = x
          <6>1. k \in outs[t] \cap pinned[t]
            BY <5>1
          <6>2. k \in Params
            BY <6>1
          <6> QED
            BY <2>3, <3>2, <5>1, <6>2 DEF Run
        <5>2. CASE ~ \E i \in outs[t] \cap pinned[t] : args[t][i] = x
          BY <2>3, <5>2 DEF Run
        <5> QED
          BY <5>1, <5>2
      <4> QED
        BY <2>3, <4>1 DEF Run
    <3>4. elems' \in [Threads -> [Params -> Values]]
      <4> DEFINE new == [i \in Params |-> IF i \in outs[t] \ pinned[t] THEN Compute[i][Given(t)]
                                          ELSE elems[t][i]]
      <4>1. new \in [Params -> Values]
        BY <3>2
      <4>2. elems' = [elems EXCEPT ![t] = new]
        BY <2>3 DEF Run
      <4> HIDE DEF new
      <4> QED
        BY <4>1, <4>2
    <3> QED
      BY <2>3, <3>3, <3>4 DEF Run
  <2>4. ASSUME NEW t \in Threads, Release(t) PROVE TypeOK'
    <3>1. pos[t] + 1 \in Params
      BY <2>4 DEF Release, Params
    <3>2. heap' \in [Arrays -> Values]
      BY <2>4, <3>1 DEF Release
    <3> QED
      BY <2>4, <3>2 DEF Release
  <2>5. ASSUME NEW t \in Threads, Return(t) PROVE TypeOK'
    BY <2>5 DEF Return
  <2>6. ASSUME NEW x \in Arrays, NEW v \in Values, JavaWrite(x, v) PROVE TypeOK'
    BY <2>6 DEF JavaWrite
  <2>7. CASE UNCHANGED vars
    BY <2>7 DEF vars
  <2> QED
    BY <2>1, <2>2, <2>3, <2>4, <2>5, <2>6, <2>7 DEF Next
<1> QED
  BY <1>1, <1>2, PTL DEF Spec

-----------------------------------------------------------------------------
\* What copying relies on.

\* The array of a parameter that a call in progress writes is that of no other
\* parameter of a call in progress.
Separate ==
    /\ \A t \in Threads : \A i \in outs[t], j \in Params :
          phase[t] # "idle" /\ args[t][i] = args[t][j] => i = j
    /\ \A t, u \in Threads : \A i \in outs[t], j \in Params :
          t # u /\ phase[t] # "idle" /\ phase[u] # "idle" => args[t][i] # args[u][j]

\* A copy is still what the array contains, unless it is a result.
CopiesTrue ==
    \A t \in Threads : \A i \in Params \ pinned[t] :
       \/ phase[t] = "get" /\ i <= pos[t]
       \/ phase[t] = "release" /\ i \notin outs[t]
       => elems[t][i] = heap[args[t][i]]

BoundaryInv == TypeOK /\ Separate /\ CopiesTrue

\* Calls begin only with arrays that nobody else writes, so the arrays that calls in
\* progress write stay apart.
LEMMA SeparateStep == ASSUME TypeOK, Separate, [Next]_vars PROVE Separate'
<1> USE DEF TypeOK, call
<1>1. ASSUME NEW t \in Threads, NEW a \in [Params -> Arrays], NEW o \in Shapes, Call(t, a, o)
      PROVE  Separate'
  <2> o \subseteq Params
    BY BoundaryAssumption
  <2>1. /\ args' = [args EXCEPT ![t] = a] /\ outs' = [outs EXCEPT ![t] = o]
        /\ phase' = [phase EXCEPT ![t] = "get"]
    BY <1>1 DEF Call
  <2>2. \A u \in Threads \ {t} : /\ args'[u] = args[u] /\ outs'[u] = outs[u]
                               /\ phase'[u] = phase[u]
    BY <2>1
  <2>3. args'[t] = a /\ outs'[t] = o
    BY <2>1
  <2>4. \A u \in Threads \ {t}, i \in o, j \in Params : phase[u] # "idle" => a[i] # args[u][j]
    BY <1>1 DEF Call, Disciplined, InUse
  <2>5. \A u \in Threads \ {t}, j \in Params : \A i \in outs[u] :
           phase[u] # "idle" => a[j] # args[u][i]
    BY <1>1 DEF Call, Disciplined, Written
  <2>6. \A i \in o, j \in Params : a[i] = a[j] => i = j
    BY <1>1 DEF Call, Disciplined
  <2>7. ASSUME NEW v \in Threads, NEW i \in outs'[v], NEW j \in Params,
               args'[v][i] = args'[v][j], phase'[v] # "idle"
        PROVE  i = j
    <3>1. CASE v = t
      BY <2>3, <2>6, <2>7, <3>1
    <3>2. CASE v # t
      BY <2>2, <2>7, <3>2 DEF Separate
    <3> QED
      BY <3>1, <3>2
  <2>8. ASSUME NEW v \in Threads, NEW u \in Threads, NEW i \in outs'[v], NEW j \in Params,
               v # u, phase'[v] # "idle", phase'[u] # "idle"
        PROVE  args'[v][i] # args'[u][j]
    <3>1. CASE v = t
      BY <2>2, <2>3, <2>4, <2>8, <3>1
    <3>2. CASE u = t
      BY <2>2, <2>3, <2>5, <2>8, <3>2
    <3>3. CASE v # t /\ u # t
      BY <2>2, <2>8, <3>3 DEF Separate
    <3> QED
      BY <3>1, <3>2, <3>3
  <2> QED
    BY <2>7, <2>8 DEF Separate
<1>2. ASSUME NEW t \in Threads, Get(t) PROVE Separate'
  BY <1>2 DEF Get, Separate
<1>3. ASSUME NEW t \in Threads, Run(t) PROVE Separate'
  <2>1. args' = args /\ outs' = outs /\ phase' = [phase EXCEPT ![t] = "release"] /\ phase[t] # "idle"
    BY <1>3 DEF Run
  <2>2. \A u \in Threads : phase'[u] # "idle" => phase[u] # "idle"
    BY <2>1
  <2> QED
    BY <2>1, <2>2 DEF Separate
<1>4. ASSUME NEW t \in Threads, Release(t) PROVE Separate'
  BY <1>4 DEF Release, Separate
<1>5. ASSUME NEW t \in Threads, Return(t) PROVE Separate'
  <2>1. args' = args /\ outs' = outs /\ phase' = [phase EXCEPT ![t] = "idle"]
    BY <1>5 DEF Return
  <2>2. \A u \in Threads : phase'[u] # "idle" => phase[u] # "idle"
    BY <2>1
  <2> QED
    BY <2>1, <2>2 DEF Separate
<1>6. ASSUME NEW x \in Arrays, NEW v \in Values, JavaWrite(x, v) PROVE Separate'
  BY <1>6 DEF JavaWrite, Separate
<1>7. CASE UNCHANGED vars
  BY <1>7 DEF vars, Separate
<1> QED
  BY <1>1, <1>2, <1>3, <1>4, <1>5, <1>6, <1>7 DEF Next

\* Copying back a parameter that C did not write changes nothing; a result that is
\* copied back goes to an array that no copy but its own is of.
LEMMA CopiesTrueStep == ASSUME BoundaryInv, [Next]_vars PROVE CopiesTrue'
<1> USE DEF TypeOK, call
<1> TypeOK /\ Separate /\ CopiesTrue
  BY DEF BoundaryInv
<1>1. ASSUME NEW t \in Threads, NEW a \in [Params -> Arrays], NEW o \in Shapes, Call(t, a, o)
      PROVE  CopiesTrue'
  <2>1. /\ heap' = heap /\ elems' = elems
        /\ \A u \in Threads \ {t} : /\ args'[u] = args[u] /\ outs'[u] = outs[u]
                                   /\ phase'[u] = phase[u] /\ pos'[u] = pos[u]
                                   /\ pinned'[u] = pinned[u]
        /\ phase'[t] = "get" /\ pos'[t] = 0
    BY <1>1 DEF Call
  <2>2. \A i \in Params : ~(i <= 0)
    BY BoundaryAssumption DEF Params
  <2> QED
    BY <2>1, <2>2 DEF CopiesTrue
<1>2. ASSUME NEW t \in Threads, Get(t) PROVE CopiesTrue'
  <2> DEFINE k == pos[t] + 1
  <2>1. k \in Params
    BY <1>2, BoundaryAssumption DEF Get, Params
  <2>2. heap' = heap /\ args' = args /\ outs' = outs /\ phase' = phase /\ phase[t] = "get"
        /\ pos' = [pos EXCEPT ![t] = k]
    BY <1>2 DEF Get
  <2>3. \A u \in Threads \ {t} : elems'[u] = elems[u] /\ pinned'[u] = pinned[u] /\ pos'[u] = pos[u]
    BY <1>2 DEF Get
  <2>4. ASSUME NEW i \in Params \ pinned'[t], i <= k PROVE elems'[t][i] = heap[args[t][i]]
    <3>1. i <= pos[t] \/ i = k
      BY <2>1, <2>4, BoundaryAssumption DEF Params
    <3>2. CASE pinned' = [pinned EXCEPT ![t] = @ \cup {k}] /\ UNCHANGED elems
      BY <2>2, <2>4, <3>1, <3>2 DEF CopiesTrue
    <3>3. CASE elems' = [elems EXCEPT ![t][k] = heap[args[t][k]]] /\ UNCHANGED pinned
      <4>1. elems'[t] = [elems[t] EXCEPT ![k] = heap[args[t][k]]]
        BY <3>3
      <4>2. CASE i = k
        BY <4>1, <4>2
      <4>3. CASE i # k
        BY <2>2, <2>4, <3>1, <3>3, <4>1, <4>3 DEF CopiesTrue
      <4> QED
        BY <4>2, <4>3
    <3> QED
      BY <1>2, <3>2, <3>3 DEF Get
  <2>5. pos'[t] = k
    BY <2>2
  <2> HIDE DEF k
  <2>6. ASSUME NEW u \in Threads, NEW i \in Params \ pinned'[u],
               \/ phase'[u] = "get" /\ i <= pos'[u]
               \/ phase'[u] = "release" /\ i \notin outs'[u]
        PROVE  elems'[u][i] = heap'[args'[u][i]]
    <3>1. CASE u = t
      BY <2>2, <2>4, <2>5, <2>6, <3>1
    <3>2. CASE u # t
      BY <2>2, <2>3, <2>6, <3>2 DEF CopiesTrue
    <3> QED
      BY <3>1, <3>2
  <2> QED
    BY <2>6 DEF CopiesTrue
<1>3. ASSUME NEW t \in Threads, Run(t) PROVE CopiesTrue'
  <2>1. /\ args' = args /\ outs' = outs /\ pinned' = pinned
        /\ phase[t] = "get" /\ pos[t] = NParams
        /\ phase' = [phase EXCEPT ![t] = "release"] /\ pos' = [pos EXCEPT ![t] = 0]
    BY <1>3 DEF Run
  <2>2. \A x \in Arrays : (\A i \in outs[t] : args[t][i] # x) => heap'[x] = heap[x]
    BY <1>3 DEF Run
  <2>3. /\ \A u \in Threads \ {t} : elems'[u] = elems[u]
        /\ \A i \in Params : i \notin outs[t] => elems'[t][i] = elems[t][i]
    BY <1>3 DEF Run
  <2>4. ASSUME NEW u \in Threads, NEW i \in Params \ pinned'[u],
               \/ phase'[u] = "get" /\ i <= pos'[u]
               \/ phase'[u] = "release" /\ i \notin outs'[u]
        PROVE  elems'[u][i] = heap'[args'[u][i]]
    <3>1. CASE u = t
      <4>1. i \notin outs[t] /\ i <= pos[t]
        BY <2>1, <2>4, <3>1, BoundaryAssumption DEF Params
      <4>2. \A j \in outs[t] : args[t][j] # args[t][i]
        BY <2>1, <4>1 DEF Separate
      <4>3. args[t][i] \in Arrays
        OBVIOUS
      <4>4. heap'[args[t][i]] = heap[args[t][i]]
        BY <2>2, <4>2, <4>3
      <4> QED
        BY <2>1, <2>3, <2>4, <3>1, <4>1, <4>4 DEF CopiesTrue
    <3>2. CASE u # t
      <4>0. phase[u] = phase'[u] /\ pos[u] = pos'[u]
        BY <2>1, <3>2
      <4>1. \A j \in outs[t] : args[t][j] # args[u][i]
        <5>1. phase[u] # "idle" /\ phase[t] # "idle" /\ i \in Params
          BY <2>1, <2>4, <4>0
        <5> QED
          BY <3>2, <5>1 DEF Separate
      <4>2. args[u][i] \in Arrays
        OBVIOUS
      <4>3. heap'[args[u][i]] = heap[args[u][i]]
        BY <2>2, <4>1, <4>2
      <4>4. elems[u][i] = heap[args[u][i]]
        BY <2>1, <2>4, <4>0 DEF CopiesTrue
      <4> QED
        <5>1. elems'[u] = elems[u] /\ args' = args
          BY <2>1, <2>3, <3>2
        <5> QED
          BY <4>3, <4>4, <5>1
    <3> QED
      BY <3>1, <3>2
  <2> QED
    BY <2>4 DEF CopiesTrue
<1>4. ASSUME NEW t \in Threads, Release(t) PROVE CopiesTrue'
  <2> DEFINE k == pos[t] + 1
  <2>1. k \in Params
    BY <1>4, BoundaryAssumption DEF Release, Params
  <2>2. /\ args' = args /\ outs' = outs /\ pinned' = pinned /\ elems' = elems
        /\ phase' = phase /\ phase[t] = "release" /\ \A u \in Threads \ {t} : pos'[u] = pos[u]
        /\ heap' = IF k \in pinned[t] THEN heap ELSE [heap EXCEPT ![args[t][k]] = elems[t][k]]
    BY <1>4 DEF Release
  <2> HIDE DEF k
  <2>3. k \notin outs[t] => heap' = heap
    BY <2>1, <2>2 DEF CopiesTrue
  <2>4. ASSUME NEW u \in Threads, NEW i \in Params \ pinned[u],
               \/ phase[u] = "get" /\ i <= pos'[u]
               \/ phase[u] = "release" /\ i \notin outs[u]
        PROVE  elems[u][i] = heap'[args[u][i]]
    <3>1. u = t => i \notin outs[t]
      BY <2>2, <2>4
    <3>2. k \in outs[t] => args[u][i] # args[t][k]
      <4>1. CASE u = t
        BY <2>1, <2>2, <3>1, <4>1 DEF Separate
      <4>2. CASE u # t
        <5>1. phase[u] # "idle" /\ phase[t] # "idle" /\ i \in Params
          BY <2>2, <2>4
        <5> QED
          BY <4>2, <5>1 DEF Separate
      <4> QED
        BY <4>1, <4>2
    <3>3. heap'[args[u][i]] = heap[args[u][i]]
      <4>1. args[u][i] \in Arrays /\ args[t][k] \in Arrays
        BY <2>1
      <4>2. CASE k \in outs[t]
        <5>1. args[u][i] # args[t][k]
          BY <3>2, <4>2
        <5>2. heap' = heap \/ heap' = [heap EXCEPT ![args[t][k]] = elems[t][k]]
          BY <2>2
        <5> QED
          BY <4>1, <5>1, <5>2
      <4>3. CASE k \notin outs[t]
        BY <2>3, <4>3
      <4> QED
        BY <4>2, <4>3
    <3>4. elems[u][i] = heap[args[u][i]]
      BY <2>2, <2>4, <3>1 DEF CopiesTrue
    <3> QED
      BY <3>3, <3>4
  <2> QED
    BY <2>2, <2>4 DEF CopiesTrue
<1>5. ASSUME NEW t \in Threads, Return(t) PROVE CopiesTrue'
  BY <1>5 DEF Return, CopiesTrue
<1>6. ASSUME NEW x \in Arrays, NEW v \in Values, JavaWrite(x, v) PROVE CopiesTrue'
  <2>1. \A t \in Threads, i \in Params : phase[t] # "idle" => heap'[args[t][i]] = heap[args[t][i]]
    BY <1>6 DEF JavaWrite, InUse
  <2> QED
    BY <1>6, <2>1 DEF JavaWrite, CopiesTrue
<1>7. CASE UNCHANGED vars
  BY <1>7 DEF vars, CopiesTrue
<1> QED
  BY <1>1, <1>2, <1>3, <1>4, <1>5, <1>6, <1>7 DEF Next

\* Nothing is copied or written at first, and every step keeps BoundaryInv.
LEMMA Inductive == Spec => []BoundaryInv
<1>1. Init => BoundaryInv
  BY BoundaryAssumption DEF Init, BoundaryInv, TypeOK, Separate, CopiesTrue
<1>2. BoundaryInv /\ [Next]_vars => Separate' /\ CopiesTrue'
  BY SeparateStep, CopiesTrueStep DEF BoundaryInv
<1> QED
  BY <1>1, <1>2, TypeCorrect, PTL DEF Spec, BoundaryInv

-----------------------------------------------------------------------------
\* The refinement mapping.

\* What Overlaid puts where, when each array has one copy at most to receive.
LEMMA OverlaidAt ==
    ASSUME NEW h \in [Arrays -> Values], NEW P \in SUBSET (Threads \X Params),
           NEW e \in [Threads -> [Params -> Values]], NEW a \in [Threads -> [Params -> Arrays]],
           \A p, q \in P : a[p[1]][p[2]] = a[q[1]][q[2]] => p = q
    PROVE  /\ Overlaid(h, P, e, a) \in [Arrays -> Values]
           /\ \A p \in P : Overlaid(h, P, e, a)[a[p[1]][p[2]]] = e[p[1]][p[2]]
           /\ \A x \in Arrays : (\A p \in P : a[p[1]][p[2]] # x) => Overlaid(h, P, e, a)[x] = h[x]
<1> DEFINE O == Overlaid(h, P, e, a)
<1>1. ASSUME NEW x \in Arrays, NEW p \in P, a[p[1]][p[2]] = x
      PROVE  O[x] = e[p[1]][p[2]]
  <2> DEFINE q == CHOOSE q \in P : a[q[1]][q[2]] = x
  <2>1. q \in P /\ a[q[1]][q[2]] = x
    BY <1>1
  <2>2. q = p
    BY <1>1, <2>1
  <2>3. O[x] = e[q[1]][q[2]]
    BY <1>1 DEF Overlaid
  <2> HIDE DEF q
  <2> QED
    BY <2>2, <2>3
<1>2. ASSUME NEW x \in Arrays, \A p \in P : a[p[1]][p[2]] # x
      PROVE  O[x] = h[x]
  BY <1>2 DEF Overlaid
<1>3. \A p \in P : p[1] \in Threads /\ p[2] \in Params
  OBVIOUS
<1>4. \A x \in Arrays : O[x] \in Values
  <2> SUFFICES ASSUME NEW x \in Arrays PROVE O[x] \in Values
    OBVIOUS
  <2>1. CASE \E p \in P : a[p[1]][p[2]] = x
    BY <1>1, <1>3, <2>1
  <2>2. CASE \A p \in P : a[p[1]][p[2]] # x
    BY <1>2, <2>2
  <2> QED
    BY <2>1, <2>2
<1>5. O = [x \in Arrays |-> O[x]]
  BY DEF Overlaid
<1> HIDE DEF O
<1>6. O \in [Arrays -> Values]
  BY <1>4, <1>5
<1>7. \A p \in P : O[a[p[1]][p[2]]] = e[p[1]][p[2]]
  BY <1>1, <1>3
<1> QED
  BY <1>2, <1>6, <1>7 DEF O

\* Settled, described without a choice.
SettledIsRight ==
    /\ Settled \in [Arrays -> Values]
    /\ \A p \in Pending : Settled[args[p[1]][p[2]]] = elems[p[1]][p[2]]
    /\ \A x \in Arrays : (\A p \in Pending : args[p[1]][p[2]] # x) => Settled[x] = heap[x]

LEMMA Settling == ASSUME TypeOK, Separate PROVE SettledIsRight
<1>1. Pending \subseteq Threads \X Params
  BY DEF Pending
<1>2. ASSUME NEW p \in Pending, NEW q \in Pending, args[p[1]][p[2]] = args[q[1]][q[2]]
      PROVE  p = q
  <2>1. /\ p = <<p[1], p[2]>> /\ p[1] \in Threads /\ p[2] \in Params
        /\ q = <<q[1], q[2]>> /\ q[1] \in Threads /\ q[2] \in Params
    BY <1>1
  <2>2. /\ p[2] \in outs[p[1]] /\ phase[p[1]] # "idle" /\ phase[q[1]] # "idle"
    BY DEF Pending
  <2>3. p[1] = q[1] /\ p[2] = q[2]
    BY <1>2, <2>1, <2>2 DEF Separate
  <2> QED
    BY <2>1, <2>3
<1>3. /\ heap \in [Arrays -> Values] /\ elems \in [Threads -> [Params -> Values]]
      /\ args \in [Threads -> [Params -> Arrays]]
  BY DEF TypeOK
<1>4. Pending \in SUBSET (Threads \X Params)
  BY <1>1
<1>5. /\ Overlaid(heap, Pending, elems, args) \in [Arrays -> Values]
      /\ \A p \in Pending :
            Overlaid(heap, Pending, elems, args)[args[p[1]][p[2]]] = elems[p[1]][p[2]]
      /\ \A x \in Arrays : (\A p \in Pending : args[p[1]][p[2]] # x)
            => Overlaid(heap, Pending, elems, args)[x] = heap[x]
  BY <1>2, <1>3, <1>4, OverlaidAt
<1> QED
  BY <1>5 DEF Settled, SettledIsRight

LEMMA SettlingNext == ASSUME TypeOK', Separate' PROVE SettledIsRight'
<1>1. Pending' \subseteq Threads \X Params
  BY DEF Pending
<1>2. ASSUME NEW p \in Pending', NEW q \in Pending', args'[p[1]][p[2]] = args'[q[1]][q[2]]
      PROVE  p = q
  <2>1. /\ p = <<p[1], p[2]>> /\ p[1] \in Threads /\ p[2] \in Params
        /\ q = <<q[1], q[2]>> /\ q[1] \in Threads /\ q[2] \in Params
    BY <1>1
  <2>2. /\ p[2] \in outs'[p[1]] /\ phase'[p[1]] # "idle" /\ phase'[q[1]] # "idle"
    BY DEF Pending
  <2>3. p[1] = q[1] /\ p[2] = q[2]
    BY <1>2, <2>1, <2>2 DEF Separate
  <2> QED
    BY <2>1, <2>3
<1>3. /\ heap' \in [Arrays -> Values] /\ elems' \in [Threads -> [Params -> Values]]
      /\ args' \in [Threads -> [Params -> Arrays]]
  BY DEF TypeOK
<1>4. Pending' \in SUBSET (Threads \X Params)
  BY <1>1
<1>5. /\ Overlaid(heap, Pending, elems, args)' \in [Arrays -> Values]
      /\ \A p \in Pending' :
            Overlaid(heap, Pending, elems, args)'[args'[p[1]][p[2]]] = elems'[p[1]][p[2]]
      /\ \A x \in Arrays : (\A p \in Pending' : args'[p[1]][p[2]] # x)
            => Overlaid(heap, Pending, elems, args)'[x] = heap'[x]
  BY <1>2, <1>3, <1>4, OverlaidAt
<1> QED
  BY <1>5 DEF Settled, SettledIsRight

\* Nothing is settled anew when the same copies wait for the same arrays.
LEMMA SettledStays ==
    ASSUME SettledIsRight, SettledIsRight', heap' = heap,
           Pending' = Pending,
           \A p \in Pending : args'[p[1]][p[2]] = args[p[1]][p[2]] /\ elems'[p[1]][p[2]] = elems[p[1]][p[2]]
    PROVE  Settled' = Settled
<1>1. ASSUME NEW x \in Arrays PROVE Settled'[x] = Settled[x]
  <2>1. CASE \E p \in Pending : args[p[1]][p[2]] = x
    BY <2>1 DEF SettledIsRight
  <2>2. CASE \A p \in Pending : args[p[1]][p[2]] # x
    BY <2>2 DEF SettledIsRight
  <2> QED
    BY <2>1, <2>2
<1> QED
  BY <1>1 DEF SettledIsRight

\* At first nothing is pending: the arrays are what they contain.
LEMMA InitRefines == Init => A!Init
<1> SUFFICES ASSUME Init PROVE A!Init
  OBVIOUS
<1>1. TypeOK /\ Separate
  BY BoundaryAssumption DEF Init, TypeOK, Separate
<1>2. Settled \in [Arrays -> Values]
  BY <1>1, Settling DEF SettledIsRight
<1>3. Progress = [t \in Threads |-> "idle"]
  BY DEF Init, Progress
<1> QED
  BY <1>2, <1>3 DEF Init, A!Init

\* A call, the run of the C function, the return and a write by Java are those of
\* AtomicCalls; copying in and copying back are nothing at all there.
LEMMA StepRefines ==
    ASSUME BoundaryInv, BoundaryInv', [Next]_vars
    PROVE  [A!Next]_(A!vars)
<1> TypeOK /\ Separate /\ CopiesTrue /\ TypeOK' /\ Separate'
  BY DEF BoundaryInv
<1>a. SettledIsRight /\ SettledIsRight'
  BY Settling, SettlingNext
<1> USE DEF TypeOK, call
<1>p. Progress \in [Threads -> {"idle", "called", "done"}]
  BY DEF Progress
<1>1. ASSUME NEW t \in Threads, NEW a \in [Params -> Arrays], NEW o \in Shapes, Call(t, a, o)
      PROVE  A!Next
  <2>1. Pending' = Pending
    <3>1. \A p \in Threads \X Params : p \in Pending' <=> p \in Pending
      <4> SUFFICES ASSUME NEW u \in Threads, NEW i \in Params
                   PROVE  <<u, i>> \in Pending' <=> <<u, i>> \in Pending
        OBVIOUS
      <4> QED
        BY <1>1 DEF Call, Pending
    <3> QED
      BY <3>1 DEF Pending
  <2>2. \A p \in Pending : p[1] \in Threads \ {t}
    BY <1>1 DEF Call, Pending
  <2>3. Settled' = Settled
    BY <1>1, <1>a, <2>1, <2>2, SettledStays DEF Call
  <2>4. Progress[t] = "idle" /\ Progress' = [Progress EXCEPT ![t] = "called"]
    BY <1>1 DEF Call, Progress
  <2>5. A!Call(t, a, o)
    BY <1>1, <2>3, <2>4 DEF Call, A!Call
  <2> QED
    BY <2>5 DEF A!Next
<1>2. ASSUME NEW t \in Threads, Get(t) PROVE UNCHANGED A!vars
  <2>1. Pending' = Pending
    <3>1. \A p \in Threads \X Params : p \in Pending' <=> p \in Pending
      <4> SUFFICES ASSUME NEW u \in Threads, NEW i \in Params
                   PROVE  <<u, i>> \in Pending' <=> <<u, i>> \in Pending
        OBVIOUS
      <4>1. CASE u = t
        BY <1>2, <4>1 DEF Get, Pending
      <4>2. CASE u # t
        BY <1>2, <4>2 DEF Get, Pending
      <4> QED
        BY <4>1, <4>2
    <3> QED
      BY <3>1 DEF Pending
  <2>2. \A p \in Pending : p[1] \in Threads \ {t} /\ p[2] \in Params
    BY <1>2 DEF Get, Pending
  <2>3. \A u \in Threads \ {t} : elems'[u] = elems[u]
    BY <1>2 DEF Get
  <2>4. Settled' = Settled
    BY <1>2, <1>a, <2>1, <2>2, <2>3, SettledStays DEF Get
  <2>5. Progress' = Progress
    BY <1>2 DEF Get, Progress
  <2> QED
    BY <1>2, <2>4, <2>5 DEF Get, A!vars
<1>4. ASSUME NEW t \in Threads, Release(t) PROVE UNCHANGED A!vars
  <2> DEFINE k == pos[t] + 1
  <2>1. k \in Params
    BY <1>4, BoundaryAssumption DEF Release, Params
  <2>2. /\ args' = args /\ outs' = outs /\ pinned' = pinned /\ elems' = elems
        /\ phase' = phase /\ phase[t] = "release" /\ pos' = [pos EXCEPT ![t] = k]
        /\ heap' = IF k \in pinned[t] THEN heap ELSE [heap EXCEPT ![args[t][k]] = elems[t][k]]
    BY <1>4 DEF Release
  <2>3. Pending' = Pending \ {<<t, k>>}
    <3>1. \A p \in Threads \X Params : p \in Pending' <=> p \in Pending /\ p # <<t, k>>
      <4> SUFFICES ASSUME NEW u \in Threads, NEW i \in Params
                   PROVE  <<u, i>> \in Pending' <=> <<u, i>> \in Pending /\ <<u, i>> # <<t, k>>
        OBVIOUS
      <4>1. CASE u = t
        <5>1. k < i <=> pos[t] < i /\ i # k
          BY BoundaryAssumption DEF Params
        <5> QED
          BY <2>2, <4>1, <5>1 DEF Pending
      <4>2. CASE u # t
        BY <2>2, <4>2 DEF Pending
      <4> QED
        BY <4>1, <4>2
    <3> QED
      BY <3>1 DEF Pending
  <2>4. <<t, k>> \in Pending <=> k \in outs[t] \ pinned[t]
    BY <2>1, <2>2 DEF Pending
  <2> HIDE DEF k
  <2>5. ASSUME k \in outs[t] \ pinned[t] PROVE Settled' = Settled
    <3>1. heap' = [heap EXCEPT ![args[t][k]] = elems[t][k]]
      BY <2>2, <2>5
    <3>2. ASSUME NEW x \in Arrays PROVE Settled'[x] = Settled[x]
      <4>0. args[t][k] \in Arrays
        BY <2>1
      <4>1. CASE x = args[t][k]
        <5>1. Settled[x] = elems[t][k]
          BY <1>a, <2>4, <2>5, <4>1 DEF SettledIsRight
        <5>2. heap'[x] = elems[t][k]
          BY <3>1, <4>0, <4>1
        <5>3. \A p \in Pending' : args'[p[1]][p[2]] # x
          <6> SUFFICES ASSUME NEW p \in Pending', args[p[1]][p[2]] = x PROVE FALSE
            BY <2>2
          <6>1. p = <<p[1], p[2]>> /\ p[1] \in Threads /\ p[2] \in Params /\ phase[p[1]] # "idle"
            BY <2>2 DEF Pending
          <6>2. p[1] = t
            BY <2>1, <2>2, <2>5, <4>1, <6>1 DEF Separate
          <6>3. p[2] = k
            BY <2>1, <2>2, <2>5, <4>1, <6>1, <6>2 DEF Separate
          <6> QED
            BY <2>3, <6>1, <6>2, <6>3
        <5> QED
          BY <1>a, <5>1, <5>2, <5>3 DEF SettledIsRight
      <4>2. CASE x # args[t][k]
        <5>1. heap'[x] = heap[x]
          BY <3>1, <4>2
        <5>2. CASE \E p \in Pending' : args[p[1]][p[2]] = x
          BY <1>a, <2>2, <2>3, <5>2 DEF SettledIsRight
        <5>3. CASE \A p \in Pending' : args[p[1]][p[2]] # x
          <6>1. \A p \in Pending : args[p[1]][p[2]] # x
            BY <2>3, <4>2, <5>3
          <6> QED
            BY <1>a, <2>2, <5>1, <5>3, <6>1 DEF SettledIsRight
        <5> QED
          BY <5>2, <5>3
      <4> QED
        BY <4>1, <4>2
    <3> QED
      BY <1>a, <3>2 DEF SettledIsRight
  <2>6. ASSUME k \notin outs[t] \ pinned[t] PROVE Settled' = Settled
    <3>1. heap' = heap
      BY <2>1, <2>2, <2>6 DEF CopiesTrue
    <3>2. Pending' = Pending
      BY <2>3, <2>4, <2>6
    <3> QED
      BY <1>a, <2>2, <3>1, <3>2, SettledStays
  <2>7. Settled' = Settled
    BY <2>5, <2>6
  <2>8. Progress' = Progress
    BY <2>2 DEF Progress
  <2> QED
    BY <2>2, <2>7, <2>8 DEF A!vars
<1>3. ASSUME NEW t \in Threads, Run(t) PROVE A!Next
  <2>1. /\ args' = args /\ outs' = outs /\ pinned' = pinned
        /\ phase[t] = "get" /\ pos[t] = NParams
        /\ phase' = [phase EXCEPT ![t] = "release"] /\ pos' = [pos EXCEPT ![t] = 0]
    BY <1>3 DEF Run
  <2>2. \A x \in Arrays : (\A i \in outs[t] : args[t][i] # x) => heap'[x] = heap[x]
    BY <1>3 DEF Run
  <2>3. \A u \in Threads \ {t} : elems'[u] = elems[u]
    BY <1>3 DEF Run
  <2>4. \A u \in Threads, i \in Params :
           <<u, i>> \in Pending' <=> IF u = t THEN i \in outs[t] \ pinned[t]
                                   ELSE <<u, i>> \in Pending
    <3>1. \A i \in Params : 0 < i
      BY BoundaryAssumption DEF Params
    <3> SUFFICES ASSUME NEW u \in Threads, NEW i \in Params
                 PROVE  <<u, i>> \in Pending' <=> IF u = t THEN i \in outs[t] \ pinned[t]
                                                ELSE <<u, i>> \in Pending
      OBVIOUS
    <3>2. CASE u = t
      BY <2>1, <3>1, <3>2 DEF Pending
    <3>3. CASE u # t
      BY <2>1, <3>3 DEF Pending
    <3> QED
      BY <3>2, <3>3
  <2>5. \A p \in Pending : p[1] \in Threads \ {t} /\ p[2] \in outs[p[1]] /\ p[2] \in Params
                          /\ phase[p[1]] # "idle" /\ p = <<p[1], p[2]>>
    BY <2>1 DEF Pending
  \* No result of another thread is pending for an array that t uses.
  <2>6. \A j \in Params : Settled[args[t][j]] = heap[args[t][j]]
    <3> SUFFICES ASSUME NEW j \in Params PROVE Settled[args[t][j]] = heap[args[t][j]]
      OBVIOUS
    <3>1. \A p \in Pending : args[p[1]][p[2]] # args[t][j]
      BY <2>1, <2>5 DEF Separate
    <3>2. args[t][j] \in Arrays
      OBVIOUS
    <3> QED
      BY <1>a, <3>1, <3>2 DEF SettledIsRight
  <2>7. Given(t) = [j \in Params |-> Settled[args[t][j]]]
    <3>1. \A j \in Params : j <= pos[t]
      BY <2>1, BoundaryAssumption DEF Params
    <3>2. \A j \in Params \ pinned[t] : elems[t][j] = heap[args[t][j]]
      BY <2>1, <3>1 DEF CopiesTrue
    <3> QED
      BY <2>6, <3>2 DEF Given
  <2>8. ASSUME NEW i \in outs[t] PROVE Settled'[args[t][i]] = Compute[i][Given(t)]
    <3>0. i \in Params /\ args[t][i] \in Arrays
      OBVIOUS
    <3>1. CASE i \in pinned[t]
      <4> DEFINE k == CHOOSE j \in outs[t] \cap pinned[t] : args[t][j] = args[t][i]
      <4>1. k \in outs[t] /\ args[t][k] = args[t][i]
        BY <3>1
      <4>2. k = i
        BY <2>1, <3>0, <4>1 DEF Separate
      <4>3. heap'[args[t][i]] = Compute[k][Given(t)]
        BY <1>3, <3>0, <3>1 DEF Run
      <4> HIDE DEF k
      <4>4. \A p \in Pending' : args'[p[1]][p[2]] # args'[t][i]
        <5> SUFFICES ASSUME NEW p \in Pending', args[p[1]][p[2]] = args[t][i] PROVE FALSE
          BY <2>1
        <5>1. p = <<p[1], p[2]>> /\ p[1] \in Threads /\ p[2] \in Params
          BY DEF Pending
        <5>2. CASE p[1] # t
          <6>1. p \in Pending
            BY <2>4, <5>1, <5>2
          <6>2. phase[p[1]] # "idle" /\ phase[t] # "idle"
            BY <2>1, <2>5, <6>1
          <6> QED
            BY <5>1, <5>2, <6>2 DEF Separate
        <5>3. CASE p[1] = t
          <6>1. p[2] \in outs[t] \ pinned[t]
            BY <2>4, <5>1, <5>3
          <6>2. p[2] = i
            BY <2>1, <3>0, <5>1, <5>3, <6>1 DEF Separate
          <6> QED
            BY <3>1, <6>1, <6>2
        <5> QED
          BY <5>2, <5>3
      <4> QED
        BY <1>a, <2>1, <3>0, <4>2, <4>3, <4>4 DEF SettledIsRight
    <3>2. CASE i \notin pinned[t]
      <4>1. <<t, i>> \in Pending'
        BY <2>4, <3>0, <3>2
      <4>2. elems'[t][i] = Compute[i][Given(t)]
        BY <1>3, <3>0, <3>2 DEF Run
      <4>3. Settled'[args'[t][i]] = elems'[t][i]
        BY <1>a, <4>1 DEF SettledIsRight
      <4> QED
        BY <2>1, <4>2, <4>3
    <3> QED
      BY <3>1, <3>2
  <2>9. ASSUME NEW x \in Arrays, \A i \in outs[t] : args[t][i] # x PROVE Settled'[x] = Settled[x]
    <3>1. heap'[x] = heap[x]
      BY <2>2, <2>9
    <3>2. CASE \E p \in Pending : args[p[1]][p[2]] = x
      <4> PICK p \in Pending : args[p[1]][p[2]] = x
        BY <3>2
      <4>1. p \in Pending' /\ elems'[p[1]][p[2]] = elems[p[1]][p[2]]
        <5>1. p[1] \in Threads \ {t} /\ p[2] \in Params /\ p = <<p[1], p[2]>>
          BY <2>5
        <5>2. <<p[1], p[2]>> \in Pending'
          BY <2>4, <5>1
        <5> QED
          BY <2>3, <5>1, <5>2
      <4> QED
        BY <1>a, <2>1, <4>1 DEF SettledIsRight
    <3>3. CASE \A p \in Pending : args[p[1]][p[2]] # x
      <4>1. ASSUME NEW p \in Pending' PROVE args'[p[1]][p[2]] # x
        <5>1. p = <<p[1], p[2]>> /\ p[1] \in Threads /\ p[2] \in Params
          BY DEF Pending
        <5> QED
          BY <2>1, <2>4, <2>9, <3>3, <5>1
      <4> QED
        BY <1>a, <3>1, <3>3, <4>1 DEF SettledIsRight
    <3> QED
      BY <3>2, <3>3
  <2>10. A!Effect(t, Settled')
    BY <2>7, <2>8, <2>9 DEF A!Effect
  <2>11. Progress[t] = "called" /\ Progress' = [Progress EXCEPT ![t] = "done"]
    BY <2>1 DEF Progress
  <2>12. A!Run(t)
    BY <1>a, <2>1, <2>10, <2>11 DEF A!Run, SettledIsRight
  <2> QED
    BY <2>12 DEF A!Next
<1>5. ASSUME NEW t \in Threads, Return(t) PROVE A!Next
  <2>1. Pending' = Pending
    <3>1. \A p \in Threads \X Params : p \in Pending' <=> p \in Pending
      <4> SUFFICES ASSUME NEW u \in Threads, NEW i \in Params
                   PROVE  <<u, i>> \in Pending' <=> <<u, i>> \in Pending
        OBVIOUS
      <4>1. ~(NParams < i)
        BY BoundaryAssumption DEF Params
      <4>2. CASE u = t
        BY <1>5, <4>1, <4>2 DEF Return, Pending
      <4>3. CASE u # t
        BY <1>5, <4>3 DEF Return, Pending
      <4> QED
        BY <4>2, <4>3
    <3> QED
      BY <3>1 DEF Pending
  <2>2. Settled' = Settled
    BY <1>5, <1>a, <2>1, SettledStays DEF Return
  <2>3. Progress[t] = "done" /\ Progress' = [Progress EXCEPT ![t] = "idle"]
    BY <1>5 DEF Return, Progress
  <2>4. A!Return(t)
    BY <1>5, <2>2, <2>3 DEF Return, A!Return
  <2> QED
    BY <2>4 DEF A!Next
<1>6. ASSUME NEW x \in Arrays, NEW v \in Values, JavaWrite(x, v) PROVE A!Next
  <2>1. Pending' = Pending /\ Progress' = Progress
    BY <1>6 DEF JavaWrite, Pending, Progress
  <2>2. /\ args' = args /\ outs' = outs /\ elems' = elems /\ heap' = [heap EXCEPT ![x] = v]
    BY <1>6 DEF JavaWrite
  <2>3. \A p \in Pending : args[p[1]][p[2]] # x
    BY <1>6 DEF JavaWrite, InUse, Pending
  <2>4. ASSUME NEW y \in Arrays PROVE Settled'[y] = IF y = x THEN v ELSE Settled[y]
    <3>1. CASE \E p \in Pending : args[p[1]][p[2]] = y
      BY <1>a, <2>1, <2>2, <2>3, <3>1 DEF SettledIsRight
    <3>2. CASE \A p \in Pending : args[p[1]][p[2]] # y
      <4>1. Settled[y] = heap[y] /\ Settled'[y] = heap'[y]
        BY <1>a, <2>1, <2>2, <3>2 DEF SettledIsRight
      <4> QED
        BY <2>2, <4>1
    <3> QED
      BY <3>1, <3>2
  <2>5. Settled' = [Settled EXCEPT ![x] = v]
    BY <1>a, <2>4 DEF SettledIsRight
  <2>6. ~A!InUse(x)
    BY <1>6 DEF JavaWrite, InUse, A!InUse, Progress
  <2>7. A!JavaWrite(x, v)
    BY <2>1, <2>2, <2>5, <2>6 DEF A!JavaWrite
  <2> QED
    BY <2>7 DEF A!Next
<1>7. CASE UNCHANGED vars
  <2>1. Pending' = Pending /\ Progress' = Progress
    BY <1>7 DEF vars, Pending, Progress
  <2>2. Settled' = Settled
    BY <1>7, <1>a, <2>1, SettledStays DEF vars
  <2> QED
    BY <1>7, <2>1, <2>2 DEF vars, A!vars
<1> QED
  BY <1>1, <1>2, <1>3, <1>4, <1>5, <1>6, <1>7 DEF Next

\* A native method, between callers that keep its arrays apart, is the C function on the
\* arrays themselves at one instant, whatever the virtual machine copies.
THEOREM BoundaryIsAtomic == Spec => IsAtomic
<1>1. Init => A!Init
  BY InitRefines
<1>2. BoundaryInv /\ BoundaryInv' /\ [Next]_vars => [A!Next]_(A!vars)
  BY StepRefines
<1> QED
  BY <1>1, <1>2, Inductive, PTL DEF Spec, IsAtomic, A!Spec
-----------------------------------------------------------------------------
(***************************************************************************)
(* Above the boundary: the class Hash, for any threads, methods, lengths   *)
(* of digests and messages.                                                *)
(***************************************************************************)
CONSTANTS Users, Methods, Size, Messages, MaxUses

VARIABLES buffer, made, uses

INSTANCE HashObject

Digests == {Fresh} \cup (Methods \X Messages)
ByteArrays == [len : Nat, digest : Digests]
Uses ==
    [user : Users, method : Methods, message : Messages, at : {"load", "write", "return", "returned"},
     array : Nat, overran : BOOLEAN, met : SUBSET Nat]

\* The field has the array of the latest call.
ObjectTypeOK ==
    /\ uses \in Seq(Uses) /\ made \in Seq(ByteArrays) /\ Len(made) = Len(uses)
    /\ buffer = Len(uses)

\* To have met is mutual, and a call in progress has met all that came after it.
Meetings ==
    \A k, j \in DOMAIN uses :
        /\ uses[k].met \subseteq DOMAIN uses \ {k}
        /\ j \in uses[k].met => k \in uses[j].met
        /\ uses[k].at # "returned" /\ k < j => j \in uses[k].met

\* A call has the array of its own or of a call it met, so that nobody writes to the
\* array of one that met none.
Owned ==
    \A k \in DOMAIN uses :
        LET u == uses[k] IN
        /\ made[k].len = Size[u.method]
        /\ u.at # "load" => u.array \in {k} \cup u.met
        /\ u.at \in {"return", "returned"} /\ u.met = {} => made[k].digest = <<u.method, u.message>>
        /\ u.overran => \E j \in u.met : Size[uses[j].method] < Size[u.method]

ObjectInv == ObjectTypeOK /\ Meetings /\ Owned

LEMMA OfCall ==
    ASSUME ObjectTypeOK, NEW k \in DOMAIN uses
    PROVE  /\ uses[k] \in Uses /\ made[k] \in ByteArrays
           /\ DOMAIN uses = 1..Len(uses) /\ DOMAIN made = DOMAIN uses
           /\ Len(uses) \in Nat /\ k \in 1..Len(uses)
  BY DEF ObjectTypeOK

\* The call that begins meets those in progress, and they it.
LEMMA StepOfMake ==
    ASSUME HashParameters, ObjectInv,
           NEW t \in Users, NEW f \in Methods, NEW m \in Messages, Make(t, f, m)
    PROVE  ObjectInv'
<1> DEFINE n == Len(uses) + 1
           older == [k \in DOMAIN uses |-> IF k \in Running
                                           THEN [uses[k] EXCEPT !.met = @ \cup {n}] ELSE uses[k]]
           new == [user |-> t, method |-> f, message |-> m, at |-> "load", array |-> 0,
                   overran |-> FALSE, met |-> Running]
           fresh == [len |-> Size[f], digest |-> Fresh]
<1>1. /\ uses \in Seq(Uses) /\ made \in Seq(ByteArrays) /\ Len(made) = Len(uses)
      /\ Len(uses) \in Nat /\ DOMAIN uses = 1..Len(uses) /\ n \in Nat
  BY DEF ObjectInv, ObjectTypeOK
<1>2. Running = {k \in DOMAIN uses : uses[k].at # "returned"}
  BY DEF Running
<1>3. older \in Seq(Uses) /\ Len(older) = Len(uses)
  <2>1. ASSUME NEW k \in DOMAIN uses PROVE older[k] \in Uses
    <3> DEFINE more == uses[k].met \cup {n}
               met == [uses[k] EXCEPT !.met = more]
    <3>1. uses[k] \in Uses /\ n \in Nat
      BY <1>1
    <3>2. more \in SUBSET Nat
      BY <3>1 DEF Uses
    <3>3. older[k] = IF k \in Running THEN met ELSE uses[k]
      OBVIOUS
    <3> HIDE DEF more, older
    <3>4. met \in Uses
      BY <3>1, <3>2 DEF Uses
    <3> QED
      BY <3>1, <3>3, <3>4
  <2>2. older \in [1..Len(uses) -> Uses]
    BY <1>1, <2>1
  <2> QED
    BY <1>1, <2>2
<1>4. uses' = Append(older, new)
  BY DEF Make, Began
<1>5. new \in Uses
  BY <1>1, <1>2 DEF Uses
<1>6. /\ uses' \in Seq(Uses) /\ Len(uses') = n /\ DOMAIN uses' = 1..n /\ uses'[n] = new
      /\ \A k \in 1..Len(uses) : uses'[k] = older[k]
  <2> HIDE DEF older, new
  <2> QED
    BY <1>1, <1>3, <1>4, <1>5
<1>7. \A k \in 1..Len(uses) :
        /\ uses'[k].at = uses[k].at /\ uses'[k].method = uses[k].method
        /\ uses'[k].message = uses[k].message /\ uses'[k].array = uses[k].array
        /\ uses'[k].overran = uses[k].overran
        /\ uses'[k].met = IF uses[k].at # "returned" THEN uses[k].met \cup {n} ELSE uses[k].met
  <2> SUFFICES ASSUME NEW k \in 1..Len(uses)
               PROVE  /\ older[k].at = uses[k].at /\ older[k].method = uses[k].method
                      /\ older[k].message = uses[k].message /\ older[k].array = uses[k].array
                      /\ older[k].overran = uses[k].overran
                      /\ older[k].met = IF uses[k].at # "returned" THEN uses[k].met \cup {n} ELSE uses[k].met
    BY <1>6
  <2>1. uses[k] \in Uses /\ k \in DOMAIN uses
    BY <1>1
  <2> QED
    BY <1>2, <2>1 DEF Uses
<1>8. /\ new.at = "load" /\ new.method = f /\ new.overran = FALSE
      /\ new.met = {k \in 1..Len(uses) : uses[k].at # "returned"}
  BY <1>1, <1>2
<1>9. /\ made' \in Seq(ByteArrays) /\ Len(made') = n /\ made'[n].len = Size[f]
      /\ \A k \in 1..Len(uses) : made'[k] = made[k]
      /\ buffer' = n
  <2>1. made' = Append(made, fresh) /\ buffer' = Len(made) + 1
    BY DEF Make
  <2>2. fresh \in ByteArrays /\ fresh.len = Size[f]
    BY DEF ByteArrays, Digests, HashParameters
  <2> HIDE DEF fresh
  <2> QED
    BY <1>1, <2>1, <2>2
<1> HIDE DEF older, new
<1>10. ObjectTypeOK'
  BY <1>6, <1>9 DEF ObjectTypeOK
<1>11. Meetings'
  <2>1. /\ \A k \in 1..Len(uses) : uses[k].met \subseteq 1..Len(uses) /\ k \notin uses[k].met
        /\ \A k, j \in 1..Len(uses) :
              /\ j \in uses[k].met => k \in uses[j].met
              /\ uses[k].at # "returned" /\ k < j => j \in uses[k].met
    BY <1>1 DEF ObjectInv, Meetings
  <2>2. \A k \in 1..n : k \in 1..Len(uses) \/ k = n
    BY <1>1
  <2>3. n \notin 1..Len(uses) /\ n \in 1..n /\ \A k \in 1..Len(uses) : k \in 1..n /\ ~(n < k)
    BY <1>1
  <2>4. ~(n < n)
    BY <1>1
  <2> HIDE DEF n
  <2>5. ASSUME NEW k \in 1..n PROVE uses'[k].met \subseteq 1..n /\ k \notin uses'[k].met
    <3>1. CASE k \in 1..Len(uses)
      <4>1. uses'[k].met \subseteq uses[k].met \cup {n}
        BY <1>7, <3>1
      <4>2. uses[k].met \subseteq 1..Len(uses) /\ k \notin uses[k].met
        BY <2>1, <3>1
      <4>3. k # n /\ 1..Len(uses) \subseteq 1..n
        BY <2>3, <3>1
      <4> QED
        BY <2>3, <4>1, <4>2, <4>3
    <3>2. CASE k = n
      BY <1>6, <1>8, <2>3, <3>2
    <3> QED
      BY <2>2, <3>1, <3>2
  <2>6. ASSUME NEW k \in 1..n, NEW j \in 1..n, j \in uses'[k].met PROVE k \in uses'[j].met
    <3>1. CASE k \in 1..Len(uses) /\ j \in 1..Len(uses)
      <4>1. /\ uses'[k].met \subseteq uses[k].met \cup {n}
            /\ uses[j].met \subseteq uses'[j].met
        BY <1>7, <3>1
      <4>2. j \in uses[k].met
        BY <2>3, <2>6, <3>1, <4>1
      <4>3. k \in uses[j].met
        BY <2>1, <3>1, <4>2
      <4> QED
        BY <4>1, <4>3
    <3>2. CASE k \in 1..Len(uses) /\ j = n
      <4>1. n \notin uses[k].met
        BY <2>1, <2>3, <3>2
      <4>2. uses[k].at # "returned"
        BY <1>7, <2>6, <3>2, <4>1
      <4> QED
        BY <1>6, <1>8, <3>2, <4>2
    <3>3. CASE k = n /\ j \in 1..Len(uses)
      <4>1. uses[j].at # "returned"
        BY <1>6, <1>8, <2>6, <3>3
      <4> QED
        BY <1>7, <3>3, <4>1
    <3> QED
      BY <2>2, <2>5, <2>6, <3>1, <3>2, <3>3
  <2>7. ASSUME NEW k \in 1..n, NEW j \in 1..n, uses'[k].at # "returned", k < j
        PROVE  j \in uses'[k].met
    <3>1. CASE k \in 1..Len(uses) /\ j \in 1..Len(uses)
      <4>1. uses[k].at # "returned"
        BY <1>7, <2>7, <3>1
      <4>2. j \in uses[k].met
        BY <2>1, <2>7, <3>1, <4>1
      <4> QED
        BY <1>7, <3>1, <4>2
    <3>2. CASE k \in 1..Len(uses) /\ j = n
      BY <1>7, <2>7, <3>2
    <3>3. k # n
      BY <2>2, <2>3, <2>4, <2>7
    <3> QED
      BY <2>2, <3>1, <3>2, <3>3
  <2> QED
    BY <1>6, <2>5, <2>6, <2>7 DEF Meetings
<1>12. Owned'
  <2> SUFFICES ASSUME NEW k \in 1..n
               PROVE  /\ made'[k].len = Size[uses'[k].method]
                      /\ uses'[k].at # "load" => uses'[k].array \in {k} \cup uses'[k].met
                      /\ uses'[k].at \in {"return", "returned"} /\ uses'[k].met = {}
                           => made'[k].digest = <<uses'[k].method, uses'[k].message>>
                      /\ uses'[k].overran =>
                           \E j \in uses'[k].met : Size[uses'[j].method] < Size[uses'[k].method]
    BY <1>6 DEF Owned
  <2>2. CASE k = n
    BY <1>6, <1>8, <1>9, <2>2
  <2>3. CASE k \in 1..Len(uses)
    <3>1. /\ made[k].len = Size[uses[k].method]
          /\ uses[k].at # "load" => uses[k].array \in {k} \cup uses[k].met
          /\ uses[k].at \in {"return", "returned"} /\ uses[k].met = {}
               => made[k].digest = <<uses[k].method, uses[k].message>>
          /\ uses[k].overran => \E j \in uses[k].met : Size[uses[j].method] < Size[uses[k].method]
          /\ uses[k].met \subseteq 1..Len(uses)
      BY <1>1, <2>3 DEF ObjectInv, Owned, Meetings
    <3>2. \A j \in uses[k].met : j \in uses'[k].met /\ uses'[j].method = uses[j].method
      BY <1>7, <2>3, <3>1
    <3> QED
      BY <1>7, <1>9, <2>3, <3>1, <3>2
  <2> QED
    BY <1>1, <2>2, <2>3
<1> QED
  BY <1>10, <1>11, <1>12 DEF ObjectInv

\* A call that goes on meets nobody new.
LEMMA StepOfCall ==
    ASSUME HashParameters, ObjectInv, NEW k \in DOMAIN uses,
           Load(k) \/ Write(k) \/ HandOut(k)
    PROVE  ObjectInv'
<1> DEFINE a == uses[k].array
<1>1. /\ uses \in Seq(Uses) /\ made \in Seq(ByteArrays) /\ Len(made) = Len(uses)
      /\ Len(uses) \in Nat /\ DOMAIN uses = 1..Len(uses) /\ DOMAIN made = 1..Len(uses)
      /\ uses[k] \in Uses /\ buffer = Len(uses)
  BY DEF ObjectInv, ObjectTypeOK
<1>2. /\ buffer \in {k} \cup uses[k].met
  BY <1>1 DEF ObjectInv, Meetings, Load, Write, HandOut
<1>3. Write(k) => a \in {k} \cup uses[k].met /\ a \in DOMAIN made
  BY <1>1 DEF ObjectInv, Owned, Meetings, Write
<1>4. /\ uses' \in Seq(Uses) /\ DOMAIN uses' = DOMAIN uses /\ Len(uses') = Len(uses)
      /\ \A j \in DOMAIN uses \ {k} : uses'[j] = uses[j]
      /\ uses'[k].method = uses[k].method /\ uses'[k].message = uses[k].message
      /\ uses'[k].met = uses[k].met
  <2>1. CASE Load(k)
    <3>1. uses' = [uses EXCEPT ![k] = [uses[k] EXCEPT !.at = "write", !.array = buffer]]
      BY <1>1, <2>1 DEF Load, Uses
    <3>2. [uses[k] EXCEPT !.at = "write", !.array = buffer] \in Uses
      BY <1>1 DEF Uses
    <3> QED
      BY <1>1, <3>1, <3>2 DEF Uses
  <2>2. CASE Write(k)
    <3> DEFINE over == made[a].len < Size[uses[k].method]
    <3>1. uses' = [uses EXCEPT ![k] = [uses[k] EXCEPT !.at = "return", !.overran = over]]
      BY <1>1, <2>2 DEF Write, Uses
    <3>2. over \in BOOLEAN
      OBVIOUS
    <3> HIDE DEF over
    <3>3. [uses[k] EXCEPT !.at = "return", !.overran = over] \in Uses
      BY <1>1, <3>2 DEF Uses
    <3> QED
      BY <1>1, <3>1, <3>3 DEF Uses
  <2>3. CASE HandOut(k)
    <3>1. uses' = [uses EXCEPT ![k] = [uses[k] EXCEPT !.at = "returned", !.array = buffer]]
      BY <1>1, <2>3 DEF HandOut, Uses
    <3>2. [uses[k] EXCEPT !.at = "returned", !.array = buffer] \in Uses
      BY <1>1 DEF Uses
    <3> QED
      BY <1>1, <3>1, <3>2 DEF Uses
  <2> QED
    BY <2>1, <2>2, <2>3
<1>5. /\ Load(k) => /\ uses'[k].at = "write" /\ uses'[k].array = buffer
                    /\ uses'[k].overran = uses[k].overran
      /\ HandOut(k) => /\ uses[k].at = "return" /\ uses'[k].at = "returned"
                       /\ uses'[k].array = buffer /\ uses'[k].overran = uses[k].overran
      /\ Write(k) => /\ uses'[k].at = "return" /\ uses'[k].array = uses[k].array
                     /\ uses[k].at = "write"
                     /\ uses'[k].overran => made[a].len < Size[uses[k].method]
  BY <1>1 DEF Uses, Load, Write, HandOut
<1>6. /\ made' \in Seq(ByteArrays) /\ Len(made') = Len(made) /\ DOMAIN made' = DOMAIN made
      /\ \A j \in DOMAIN made : made'[j].len = made[j].len
      /\ ~Write(k) => made' = made
      /\ Write(k) => /\ \A j \in DOMAIN made \ {a} : made'[j] = made[j]
                     /\ made'[a].digest = <<uses[k].method, uses[k].message>>
  <2>1. CASE Write(k)
    <3> DEFINE d == <<uses[k].method, uses[k].message>>
               w == [made[a] EXCEPT !.digest = d]
    <3>1. made' = [made EXCEPT ![a] = w] /\ a \in DOMAIN made
      BY <1>1, <1>3, <2>1 DEF Write, ByteArrays
    <3>2. d \in Digests
      BY <1>1 DEF Uses, Digests
    <3>3. made[a] \in ByteArrays
      BY <1>1, <3>1
    <3> HIDE DEF d, a
    <3>4. w \in ByteArrays /\ w.len = made[a].len /\ w.digest = d
      BY <3>2, <3>3 DEF ByteArrays
    <3> HIDE DEF w
    <3> QED
      BY <1>1, <2>1, <3>1, <3>4 DEF d, a
  <2>2. CASE ~Write(k)
    BY <1>1, <2>2 DEF Load, HandOut
  <2> QED
    BY <2>1, <2>2
<1>7. buffer' = buffer
  BY DEF Load, Write, HandOut
<1>8. ObjectTypeOK'
  BY <1>1, <1>4, <1>6, <1>7 DEF ObjectTypeOK
<1>9. uses[k].at # "returned"
  BY DEF Load, Write, HandOut
<1>10. \A j \in DOMAIN uses :
         /\ uses'[j].met = uses[j].met /\ uses'[j].method = uses[j].method
         /\ uses'[j].message = uses[j].message
         /\ uses'[j].at # "returned" => uses[j].at # "returned"
  BY <1>4, <1>9
<1>11. Meetings'
  <2>1. \A i, j \in DOMAIN uses :
          /\ uses[i].met \subseteq DOMAIN uses \ {i}
          /\ j \in uses[i].met => i \in uses[j].met
          /\ uses[i].at # "returned" /\ i < j => j \in uses[i].met
    BY DEF ObjectInv, Meetings
  <2>2. \A i, j \in DOMAIN uses :
          /\ uses'[i].met \subseteq DOMAIN uses \ {i}
          /\ j \in uses'[i].met => i \in uses'[j].met
          /\ uses'[i].at # "returned" /\ i < j => j \in uses'[i].met
    BY <1>10, <2>1
  <2> QED
    BY <1>4, <2>2 DEF Meetings
<1>12. Owned'
  <2> SUFFICES ASSUME NEW j \in DOMAIN uses
               PROVE  /\ made'[j].len = Size[uses'[j].method]
                      /\ uses'[j].at # "load" => uses'[j].array \in {j} \cup uses'[j].met
                      /\ uses'[j].at \in {"return", "returned"} /\ uses'[j].met = {}
                           => made'[j].digest = <<uses'[j].method, uses'[j].message>>
                      /\ uses'[j].overran =>
                           \E i \in uses'[j].met : Size[uses'[i].method] < Size[uses'[j].method]
    BY <1>4 DEF Owned
  <2>1. /\ made[j].len = Size[uses[j].method]
        /\ uses[j].at # "load" => uses[j].array \in {j} \cup uses[j].met
        /\ uses[j].at \in {"return", "returned"} /\ uses[j].met = {}
             => made[j].digest = <<uses[j].method, uses[j].message>>
        /\ uses[j].overran => \E i \in uses[j].met : Size[uses[i].method] < Size[uses[j].method]
        /\ uses[j].met \subseteq DOMAIN uses
        /\ made[k].len = Size[uses[k].method]
    BY DEF ObjectInv, Owned, Meetings
  <2>2. made'[j].len = Size[uses'[j].method]
    BY <1>1, <1>6, <1>10, <2>1
  <2>3. uses'[j].at # "load" => uses'[j].array \in {j} \cup uses'[j].met
    <3>1. CASE j = k
      BY <1>2, <1>3, <1>4, <1>5, <3>1
    <3>2. CASE j # k
      BY <1>4, <2>1, <3>2
    <3> QED
      BY <3>1, <3>2
  <2>4. ASSUME uses'[j].at \in {"return", "returned"}, uses'[j].met = {}
        PROVE  made'[j].digest = <<uses'[j].method, uses'[j].message>>
    <3>1. CASE j = k /\ Write(k)
      BY <1>3, <1>4, <1>6, <2>4, <3>1
    <3>2. CASE j = k /\ ~Write(k)
      BY <1>4, <1>5, <1>6, <2>1, <2>4, <3>2
    <3>3. CASE j # k /\ Write(k)
      <4>1. j # a
        <5>1. j \notin uses[k].met
          BY <1>10, <2>4 DEF ObjectInv, Meetings
        <5> QED
          BY <1>3, <3>3, <5>1
      <4> QED
        BY <1>1, <1>4, <1>6, <2>1, <2>4, <3>3, <4>1
    <3>4. CASE j # k /\ ~Write(k)
      BY <1>4, <1>6, <2>1, <2>4, <3>4
    <3> QED
      BY <3>1, <3>2, <3>3, <3>4
  <2>5. ASSUME uses'[j].overran
        PROVE  \E i \in uses'[j].met : Size[uses'[i].method] < Size[uses'[j].method]
    <3>1. CASE uses[j].overran
      BY <1>10, <2>1, <3>1
    <3>2. CASE ~uses[j].overran
      <4>1. j = k /\ Write(k) /\ made[a].len < Size[uses[k].method]
        BY <1>4, <1>5, <2>5, <3>2
      <4>2. a \in {k} \cup uses[k].met /\ a \in DOMAIN uses
        BY <1>1, <1>3, <4>1
      <4>3. made[a].len = Size[uses[a].method] /\ made[k].len = Size[uses[k].method]
        BY <4>2 DEF ObjectInv, Owned
      <4>4. a # k
        <5>1. uses[k].method \in Methods
          BY <1>1 DEF Uses
        <5>2. Size[uses[k].method] \in Nat
          BY <5>1 DEF HashParameters
        <5> QED
          BY <4>1, <4>3, <5>2
      <4> QED
        BY <1>10, <4>1, <4>2, <4>3, <4>4
    <3> QED
      BY <3>1, <3>2
  <2> QED
    BY <2>2, <2>3, <2>4, <2>5
<1> QED
  BY <1>8, <1>11, <1>12 DEF ObjectInv

\* A call on a Hash that met no other returns an array of its own with its digest, for
\* good, and only an array that a call it met has made can be too short for a digest.
THEOREM ResultsAreOwnTheorem ==
    ASSUME HashParameters
    PROVE  HashSpec => []ResultsAreOwnUnlessShared
<1>1. HashInit => ObjectInv
  BY DEF HashInit, ObjectInv, ObjectTypeOK, Meetings, Owned
<1>2. ObjectInv /\ [HashNext]_hashVars => ObjectInv'
  <2> SUFFICES ASSUME ObjectInv, [HashNext]_hashVars PROVE ObjectInv'
    OBVIOUS
  <2>1. ASSUME NEW t \in Users, NEW f \in Methods, NEW m \in Messages, Make(t, f, m)
        PROVE  ObjectInv'
    BY <2>1, StepOfMake
  <2>2. ASSUME NEW k \in DOMAIN uses, Load(k) \/ Write(k) \/ HandOut(k)
        PROVE  ObjectInv'
    BY <2>2, StepOfCall
  <2>3. CASE UNCHANGED hashVars
    BY <2>3 DEF hashVars, ObjectInv, ObjectTypeOK, Meetings, Owned
  <2> QED
    BY <2>1, <2>2, <2>3 DEF HashNext
<1>3. ObjectInv => ResultsAreOwnUnlessShared
  <2> SUFFICES ASSUME ObjectInv, NEW k \in DOMAIN uses
               PROVE  /\ uses[k].at = "returned" /\ uses[k].met = {} =>
                           /\ uses[k].array = k
                           /\ made[k] = [len |-> Size[uses[k].method],
                                         digest |-> <<uses[k].method, uses[k].message>>]
                      /\ uses[k].at = "returned" => uses[k].array \in {k} \cup uses[k].met
                      /\ uses[k].overran =>
                           \E j \in uses[k].met : Size[uses[j].method] < Size[uses[k].method]
    BY DEF ResultsAreOwnUnlessShared
  <2>1. made[k] \in ByteArrays
    BY OfCall DEF ObjectInv
  <2>2. made[k] = [len |-> made[k].len, digest |-> made[k].digest]
    BY <2>1 DEF ByteArrays
  <2> QED
    BY <2>2 DEF ObjectInv, Owned
<1> QED
  BY <1>1, <1>2, <1>3, PTL DEF HashSpec
=============================================================================
