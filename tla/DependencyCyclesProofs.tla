------------------------ MODULE DependencyCyclesProofs ------------------------
(***************************************************************************)
(* The search for cycles is sound and complete, for every set of tasks and *)
(* artifacts and every order in which neighbours are taken.                *)
(***************************************************************************)
EXTENDS DependencyCycles, SequenceTheorems, TLAPS

OnStack(t) == \E i \in 1 .. Len(stack) : stack[i] = t

\* What is GRAY is what is on the stack, once each.
StackIsGray ==
    /\ \A t \in Tasks : colour[t] = "GRAY" <=> OnStack(t)
    /\ \A i, j \in 1 .. Len(stack) : stack[i] = stack[j] => i = j

\* Each task on the stack awaits the one above it.
StackIsPath == \A i \in 1 .. Len(stack) - 1 : Edge(stack[i], stack[i + 1])

LeftAreNeighbours == \A t \in Tasks : left[t] \subseteq Neighbours(t)
UnseenIsLeft == \A t \in Tasks : colour[t] = "WHITE" => left[t] = Neighbours(t)

\* Without a report: what was looked at from the stack is done, or further up.
SeenIsAbove ==
    \A i \in 1 .. Len(stack) : \A u \in Neighbours(stack[i]) \ left[stack[i]] :
        colour[u] = "BLACK" \/ \E j \in i + 1 .. Len(stack) : stack[j] = u

\* Without a report: what is done awaits only what is done, and has no knot.
Done == {t \in Tasks : colour[t] = "BLACK"}
DoneIsClosed == \A t \in Done : Neighbours(t) \subseteq Done
DoneHasNoKnot == \A knot \in SUBSET Done : ~Knot(knot)

CycleInv ==
    /\ CycleTypeOK
    /\ StackIsGray /\ StackIsPath /\ LeftAreNeighbours /\ UnseenIsLeft
    /\ CyclesAreReal
    /\ cycles = {} => SeenIsAbove /\ DoneIsClosed /\ DoneHasNoKnot

-----------------------------------------------------------------------------

\* The graph does not change while it is searched.
LEMMA GraphStays ==
    ASSUME awaits' = awaits
    PROVE  /\ \A t, u : Edge(t, u)' <=> Edge(t, u)
           /\ \A t : Neighbours(t)' = Neighbours(t)
           /\ \A knot : Knot(knot)' <=> Knot(knot)
<1>1. \A t, u : Edge(t, u)' <=> Edge(t, u)
  BY DEF Edge
<1>2. \A t : Neighbours(t)' = Neighbours(t)
  BY DEF Edge, Neighbours
<1>3. \A knot : Knot(knot)' <=> Knot(knot)
  BY DEF Edge, Knot
<1> QED
  BY <1>1, <1>2, <1>3

LEMMA SearchStarts == CycleInit => CycleInv
<1> SUFFICES ASSUME CycleInit PROVE CycleInv
  OBVIOUS
<1>1. CycleTypeOK
  BY DEF CycleInit, CycleTypeOK, Neighbours
<1>2. StackIsGray /\ StackIsPath /\ LeftAreNeighbours /\ UnseenIsLeft /\ SeenIsAbove
  BY DEF CycleInit, StackIsGray, OnStack, StackIsPath, LeftAreNeighbours, UnseenIsLeft, SeenIsAbove
<1>3. CyclesAreReal
  BY DEF CycleInit, CyclesAreReal
<1>4. Done = {}
  BY DEF CycleInit, Done
<1>5. DoneIsClosed /\ DoneHasNoKnot
  BY <1>4 DEF DoneIsClosed, DoneHasNoKnot, Knot
<1> QED
  BY <1>1, <1>2, <1>3, <1>5 DEF CycleInv

\* A task that is seen for the first time goes on top of the stack.
LEMMA VisitKeeps ==
    ASSUME CycleInv, awaits' = awaits, NEW t \in Tasks, colour[t] = "WHITE", Visit(t),
           stack # <<>> => Edge(Top, t),
           left' \in [Tasks -> SUBSET Tasks], left'[t] = left[t],
           \A u \in Tasks : left'[u] \subseteq left[u] /\ left[u] \ left'[u] \subseteq {t},
           \A u \in Tasks : left'[u] # left[u] => stack # <<>> /\ u = Top,
           cycles' = cycles
    PROVE  CycleInv'
<1> DEFINE n == Len(stack)
<1>1. stack \in Seq(Tasks) /\ n \in Nat /\ colour \in [Tasks -> {"WHITE", "GRAY", "BLACK"}]
  BY DEF CycleInv, CycleTypeOK
<1>2. /\ stack' \in Seq(Tasks) /\ Len(stack') = n + 1 /\ stack'[n + 1] = t
      /\ \A i \in 1 .. n : stack'[i] = stack[i]
  BY <1>1 DEF Visit
<1>3. /\ colour' \in [Tasks -> {"WHITE", "GRAY", "BLACK"}] /\ colour'[t] = "GRAY"
      /\ \A u \in Tasks \ {t} : colour'[u] = colour[u]
  BY <1>1 DEF Visit
<1>4. ~OnStack(t)
  BY DEF CycleInv, StackIsGray
<1>5. CycleTypeOK'
  BY <1>2, <1>3 DEF CycleInv, CycleTypeOK
<1>6. StackIsGray'
  <2>1. \A u \in Tasks : OnStack(u)' <=> OnStack(u) \/ u = t
    BY <1>1, <1>2 DEF OnStack
  <2>2. \A i, j \in 1 .. Len(stack)' : stack'[i] = stack'[j] => i = j
    BY <1>1, <1>2, <1>4 DEF CycleInv, StackIsGray, OnStack
  <2> QED
    BY <1>3, <2>1, <2>2 DEF CycleInv, StackIsGray
<1>7. StackIsPath'
  <2> SUFFICES ASSUME NEW i \in 1 .. n PROVE Edge(stack'[i], stack'[i + 1])
    BY <1>1, <1>2, GraphStays DEF StackIsPath
  <2>1. CASE i < n
    BY <1>1, <1>2, <2>1 DEF CycleInv, StackIsPath
  <2>2. CASE i = n
    BY <1>1, <1>2, <2>2 DEF Top
  <2> QED
    BY <1>1, <2>1, <2>2
<1>8. LeftAreNeighbours' /\ UnseenIsLeft'
  <2>1. LeftAreNeighbours'
    BY GraphStays DEF CycleInv, LeftAreNeighbours
  <2>2. ASSUME NEW u \in Tasks, colour'[u] = "WHITE" PROVE left'[u] = Neighbours(u)
    <3>1. u # t /\ colour[u] = "WHITE"
      BY <1>3, <2>2
    <3>2. CASE left'[u] # left[u]
      <4>1. stack # <<>> /\ u = stack[n]
        BY <3>2 DEF Top
      <4>2. OnStack(u)
        BY <1>1, <4>1 DEF OnStack
      <4> QED
        BY <3>1, <4>2 DEF CycleInv, StackIsGray
    <3> QED
      BY <3>1, <3>2 DEF CycleInv, UnseenIsLeft
  <2> QED
    BY <2>1, <2>2, GraphStays DEF UnseenIsLeft
<1>9. CyclesAreReal'
  BY GraphStays DEF CycleInv, CyclesAreReal
<1>10. ASSUME cycles = {} PROVE SeenIsAbove' /\ DoneIsClosed' /\ DoneHasNoKnot'
  <2>1. Done' = Done
    BY <1>3 DEF Done
  <2>2. DoneIsClosed' /\ DoneHasNoKnot'
    BY <1>10, <2>1, GraphStays DEF CycleInv, DoneIsClosed, DoneHasNoKnot
  <2>3. ASSUME NEW i \in 1 .. n + 1, NEW u \in Neighbours(stack'[i]) \ left'[stack'[i]]
        PROVE  colour'[u] = "BLACK" \/ \E j \in i + 1 .. n + 1 : stack'[j] = u
    <3>1. u \in Tasks
      BY DEF Neighbours
    <3>2. CASE i = n + 1
      BY <1>2, <2>3, <3>2 DEF CycleInv, UnseenIsLeft
    <3>3. CASE i \in 1 .. n
      <4>1. stack'[i] = stack[i] /\ stack[i] \in Tasks
        BY <1>1, <1>2, <3>3
      <4>2. CASE u = t
        BY <1>1, <1>2, <3>3, <4>2
      <4>3. CASE u # t
        <5>1. u \notin left[stack[i]]
          BY <2>3, <4>1, <4>3
        <5>2. colour[u] = "BLACK" \/ \E j \in i + 1 .. n : stack[j] = u
          BY <1>10, <2>3, <3>3, <4>1, <5>1 DEF CycleInv, SeenIsAbove
        <5> QED
          BY <1>1, <1>2, <1>3, <3>1, <3>3, <4>3, <5>2
      <4> QED
        BY <4>2, <4>3
    <3> QED
      BY <1>1, <3>2, <3>3
  <2>4. SeenIsAbove'
    BY <1>2, <2>3, GraphStays DEF SeenIsAbove
  <2> QED
    BY <2>2, <2>4
<1> QED
  BY <1>5, <1>6, <1>7, <1>8, <1>9, <1>10 DEF CycleInv

LEMMA StartKeeps ==
    ASSUME CycleInv, NEW t \in Tasks, StartAt(t)
    PROVE  CycleInv'
<1>1. left \in [Tasks -> SUBSET Tasks]
  BY DEF CycleInv, CycleTypeOK
<1> QED
  BY <1>1, VisitKeeps DEF StartAt

LEMMA TopIsGray ==
    ASSUME CycleInv, stack # <<>>
    PROVE  Top \in Tasks /\ colour[Top] = "GRAY"
<1>1. stack \in Seq(Tasks) /\ Len(stack) \in 1 .. Len(stack)
  BY DEF CycleInv, CycleTypeOK
<1> QED
  BY <1>1 DEF CycleInv, StackIsGray, OnStack, Top

\* A neighbour that is done, or on the stack.
LEMMA LookBackKeeps ==
    ASSUME CycleInv, NEW u \in Tasks, Look(u), colour[u] # "WHITE"
    PROVE  CycleInv'
<1> DEFINE n == Len(stack)
           k == IndexOf(u)
<1>1. /\ stack \in Seq(Tasks) /\ n \in Nat /\ n > 0 /\ stack # <<>>
      /\ left \in [Tasks -> SUBSET Tasks] /\ Top \in Tasks
      /\ \A i \in 1 .. n : stack[i] \in Tasks
  BY DEF CycleInv, CycleTypeOK, Look, Top
<1>2. /\ awaits' = awaits /\ colour' = colour /\ stack' = stack /\ u \in left[Top]
      /\ left' = [left EXCEPT ![Top] = @ \ {u}]
  BY DEF Look
<1>3. Edge(Top, u)
  BY <1>1, <1>2 DEF CycleInv, LeftAreNeighbours, Neighbours
<1>4. CASE colour[u] = "GRAY"
  <2> DEFINE sub == SubSeq(stack, k, n)
             cycle == Append(sub, u)
  <2>1. k \in 1 .. n /\ stack[k] = u
    BY <1>4 DEF CycleInv, StackIsGray, OnStack, IndexOf
  <2>2. /\ sub \in Seq(Tasks) /\ Len(sub) = n - k + 1
        /\ \A i \in 1 .. n - k + 1 : sub[i] = stack[k + i - 1]
    BY <1>1, <2>1
  <2> HIDE DEF sub
  <2>3. /\ cycle \in Seq(Tasks) /\ Len(cycle) = n - k + 2 /\ cycle[n - k + 2] = u
        /\ \A i \in 1 .. n - k + 1 : cycle[i] = stack[k + i - 1]
    BY <1>1, <2>1, <2>2
  <2> HIDE DEF cycle
  <2>4. Len(cycle) > 1 /\ cycle[1] = cycle[Len(cycle)]
    BY <1>1, <2>1, <2>3
  <2>5. ASSUME NEW i \in 1 .. Len(cycle) - 1 PROVE Edge(cycle[i], cycle[i + 1])
    <3> HIDE DEF n, k
    <3>0. n \in Nat /\ k \in 1 .. n /\ i \in 1 .. n - k + 1
      BY <1>1, <2>1, <2>3
    <3>1. CASE i = n - k + 1
      <4>1. i + 1 = n - k + 2 /\ k + i - 1 = n
        BY <3>0, <3>1
      <4>2. cycle[i] = stack[n] /\ cycle[i + 1] = u
        BY <2>3, <3>0, <4>1
      <4> QED
        BY <1>3, <4>2 DEF Top, n
    <3>2. CASE i # n - k + 1
      <4> DEFINE j == k + i - 1
      <4>1. i \in 1 .. n - k + 1 /\ i + 1 \in 1 .. n - k + 1 /\ j \in 1 .. n - 1
        BY <3>0, <3>2
      <4>2. j = k + i - 1 /\ j + 1 = k + (i + 1) - 1
        BY <3>0
      <4> HIDE DEF j
      <4>3. cycle[i] = stack[j] /\ cycle[i + 1] = stack[j + 1]
        BY <2>3, <4>1, <4>2
      <4>4. Edge(stack[j], stack[j + 1])
        BY <4>1 DEF CycleInv, StackIsPath, n
      <4> QED
        BY <4>3, <4>4
    <3> QED
      BY <3>1, <3>2
  <2>6. cycles' = cycles \cup {cycle}
    BY <1>4 DEF Look, cycle, sub
  <2>7. CycleTypeOK'
    BY <1>1, <1>2, <2>3, <2>6 DEF CycleInv, CycleTypeOK
  <2>8. CyclesAreReal'
    <3>1. \A c \in cycles' :
              /\ Len(c) > 1 /\ c[1] = c[Len(c)]
              /\ \A i \in 1 .. Len(c) - 1 : Edge(c[i], c[i + 1])
      BY <2>4, <2>5, <2>6 DEF CycleInv, CyclesAreReal
    <3> QED
      BY <1>2, <3>1, GraphStays DEF CyclesAreReal
  <2>9. StackIsGray' /\ StackIsPath'
    BY <1>2, GraphStays DEF CycleInv, StackIsGray, OnStack, StackIsPath
  <2>10. LeftAreNeighbours' /\ UnseenIsLeft'
    BY <1>1, <1>2, GraphStays, TopIsGray DEF CycleInv, LeftAreNeighbours, UnseenIsLeft
  <2> QED
    BY <2>6, <2>7, <2>8, <2>9, <2>10 DEF CycleInv
<1>5. CASE colour[u] = "BLACK"
  <2>1. cycles' = cycles
    BY <1>5 DEF Look
  <2>2. CycleTypeOK'
    BY <1>1, <1>2, <2>1 DEF CycleInv, CycleTypeOK
  <2>3. StackIsGray' /\ StackIsPath' /\ CyclesAreReal'
    BY <1>2, <2>1, GraphStays DEF CycleInv, StackIsGray, OnStack, StackIsPath, CyclesAreReal
  <2>4. LeftAreNeighbours' /\ UnseenIsLeft'
    BY <1>1, <1>2, GraphStays, TopIsGray DEF CycleInv, LeftAreNeighbours, UnseenIsLeft
  <2>5. DoneIsClosed' <=> DoneIsClosed
    BY <1>2, GraphStays DEF DoneIsClosed, Done
  <2>6. DoneHasNoKnot' <=> DoneHasNoKnot
    BY <1>2, GraphStays DEF DoneHasNoKnot, Done
  <2>7. SeenIsAbove => SeenIsAbove'
    <3> SUFFICES ASSUME SeenIsAbove, NEW i \in 1 .. n,
                        NEW v \in Neighbours(stack[i]) \ left'[stack[i]]
                 PROVE  colour[v] = "BLACK" \/ \E j \in i + 1 .. n : stack[j] = v
      BY <1>2, GraphStays DEF SeenIsAbove
    <3> QED
      BY <1>1, <1>2, <1>5 DEF SeenIsAbove
  <2> QED
    BY <2>1, <2>2, <2>3, <2>4, <2>5, <2>6, <2>7 DEF CycleInv
<1> QED
  BY <1>4, <1>5 DEF CycleInv, CycleTypeOK

LEMMA LookKeeps ==
    ASSUME CycleInv, NEW u \in Tasks, Look(u)
    PROVE  CycleInv'
<1>1. CASE colour[u] # "WHITE"
  BY <1>1, LookBackKeeps
<1>2. CASE colour[u] = "WHITE"
  <2>1. /\ left \in [Tasks -> SUBSET Tasks] /\ Top \in Tasks /\ stack # <<>>
        /\ colour[Top] = "GRAY" /\ Top # u
    BY <1>2, TopIsGray DEF Look, CycleInv, CycleTypeOK
  <2>2. /\ awaits' = awaits /\ Visit(u) /\ cycles' = cycles /\ u \in left[Top]
        /\ left' = [left EXCEPT ![Top] = @ \ {u}]
    BY <1>2 DEF Look
  <2>3. Edge(Top, u)
    BY <2>1, <2>2 DEF CycleInv, LeftAreNeighbours, Neighbours
  <2>4. left' \in [Tasks -> SUBSET Tasks] /\ left'[u] = left[u]
    BY <2>1, <2>2
  <2>5. \A v \in Tasks : left'[v] \subseteq left[v] /\ left[v] \ left'[v] \subseteq {u}
    BY <2>1, <2>2
  <2>6. \A v \in Tasks : left'[v] # left[v] => stack # <<>> /\ v = Top
    BY <2>1, <2>2
  <2> QED
    BY <1>2, <2>2, <2>3, <2>4, <2>5, <2>6, VisitKeeps
<1> QED
  BY <1>1, <1>2

\* The task on top is done: it awaits only what is done, so that no knot leads
\* through it.
LEMMA LeaveKeeps ==
    ASSUME CycleInv, Leave
    PROVE  CycleInv'
<1> DEFINE n == Len(stack)
<1>1. /\ stack \in Seq(Tasks) /\ n \in Nat /\ n > 0 /\ Top = stack[n] /\ Top \in Tasks
      /\ colour \in [Tasks -> {"WHITE", "GRAY", "BLACK"}] /\ left[Top] = {}
      /\ \A i \in 1 .. n : stack[i] \in Tasks
  BY DEF CycleInv, CycleTypeOK, Leave, Top
<1>2. /\ stack' \in Seq(Tasks) /\ Len(stack') = n - 1
      /\ \A i \in 1 .. n - 1 : stack'[i] = stack[i]
  <2>1. /\ SubSeq(stack, 1, n - 1) \in Seq(Tasks) /\ Len(SubSeq(stack, 1, n - 1)) = n - 1
        /\ \A i \in 1 .. n - 1 : SubSeq(stack, 1, n - 1)[i] = stack[i]
    <3> DEFINE m == n - 1
    <3>1. m \in Nat /\ m \in Int /\ 1 \in Int /\ \A i \in 1 .. m : stack[i] \in Tasks
      BY <1>1
    <3> HIDE DEF m
    <3>2. /\ SubSeq(stack, 1, m) \in Seq(Tasks)
          /\ Len(SubSeq(stack, 1, m)) = IF 1 <= m THEN m - 1 + 1 ELSE 0
          /\ \A i \in 1 .. m - 1 + 1 : SubSeq(stack, 1, m)[i] = stack[1 + i - 1]
      BY <3>1, SubSeqProperties
    <3>3. /\ SubSeq(stack, 1, m) \in Seq(Tasks) /\ Len(SubSeq(stack, 1, m)) = m
          /\ \A i \in 1 .. m : SubSeq(stack, 1, m)[i] = stack[i]
      BY <3>1, <3>2
    <3> QED
      BY <3>3 DEF m
  <2>2. stack' = SubSeq(stack, 1, n - 1)
    BY DEF Leave
  <2> QED
    BY <2>1, <2>2
<1>3. /\ colour' \in [Tasks -> {"WHITE", "GRAY", "BLACK"}] /\ colour'[Top] = "BLACK"
      /\ \A u \in Tasks \ {Top} : colour'[u] = colour[u]
  BY <1>1 DEF Leave
<1>4. awaits' = awaits /\ left' = left /\ cycles' = cycles
  BY DEF Leave
<1>5. CycleTypeOK'
  BY <1>2, <1>3, <1>4 DEF CycleInv, CycleTypeOK
<1>6. StackIsGray'
  <2>1. \A i, j \in 1 .. n : stack[i] = stack[j] => i = j
    BY DEF CycleInv, StackIsGray
  <2>2. \A u \in Tasks : OnStack(u)' <=> OnStack(u) /\ u # Top
    BY <1>1, <1>2, <2>1 DEF OnStack
  <2>3. \A i, j \in 1 .. Len(stack)' : stack'[i] = stack'[j] => i = j
    BY <1>1, <1>2, <2>1
  <2> QED
    BY <1>3, <2>2, <2>3 DEF CycleInv, StackIsGray
<1>7. StackIsPath'
  BY <1>1, <1>2, <1>4, GraphStays DEF CycleInv, StackIsPath
<1>8. LeftAreNeighbours' /\ UnseenIsLeft' /\ CyclesAreReal'
  BY <1>1, <1>3, <1>4, GraphStays DEF CycleInv, LeftAreNeighbours, UnseenIsLeft, CyclesAreReal
<1>9. ASSUME cycles = {} PROVE SeenIsAbove' /\ DoneIsClosed' /\ DoneHasNoKnot'
  <2>1. Done' = Done \cup {Top}
    BY <1>1, <1>3 DEF Done
  <2>2. Neighbours(Top) \subseteq Done
    BY <1>1, <1>9 DEF CycleInv, SeenIsAbove, Done, Neighbours
  <2>3. DoneIsClosed'
    BY <1>4, <1>9, <2>1, <2>2, GraphStays DEF CycleInv, DoneIsClosed
  <2>4. SeenIsAbove'
    <3> SUFFICES ASSUME NEW i \in 1 .. n - 1, NEW u \in Neighbours(stack[i]) \ left[stack[i]]
                 PROVE  colour'[u] = "BLACK" \/ \E j \in i + 1 .. n - 1 : stack'[j] = u
      BY <1>2, <1>4, GraphStays DEF SeenIsAbove
    <3>1. colour[u] = "BLACK" \/ \E j \in i + 1 .. n : stack[j] = u
      BY <1>1, <1>9 DEF CycleInv, SeenIsAbove
    <3>2. u \in Tasks
      BY DEF Neighbours
    <3> QED
      BY <1>1, <1>2, <1>3, <3>1, <3>2
  <2>5. ASSUME NEW knot \in SUBSET (Done \cup {Top}), Knot(knot) PROVE FALSE
    <3> DEFINE rest == knot \ {Top}
    <3>1. rest # {}
      <4>1. CASE Top \in knot
        <5>1. PICK u \in knot : Edge(Top, u)
          BY <2>5, <4>1 DEF Knot
        <5> QED
          BY <5>1 DEF Edge
      <4> QED
        BY <2>5, <4>1 DEF Knot
    <3>2. \A t \in rest : \E u \in rest : Edge(t, u)
      <4> SUFFICES ASSUME NEW t \in rest PROVE \E u \in rest : Edge(t, u)
        OBVIOUS
      <4>1. PICK u \in knot : Edge(t, u)
        BY <2>5 DEF Knot
      <4>2. t \in Done
        OBVIOUS
      <4>3. u \in Tasks
        BY <1>1 DEF Done
      <4>4. u \in Done
        BY <1>9, <4>1, <4>2, <4>3 DEF CycleInv, DoneIsClosed, Neighbours
      <4>5. colour[Top] = "GRAY"
        BY TopIsGray, <1>1
      <4> QED
        BY <4>1, <4>4, <4>5 DEF Done
    <3> QED
      BY <1>9, <3>1, <3>2 DEF CycleInv, DoneHasNoKnot, Knot
  <2>6. DoneHasNoKnot'
    BY <1>4, <2>1, <2>5, GraphStays DEF DoneHasNoKnot
  <2> QED
    BY <2>3, <2>4, <2>6
<1> QED
  BY <1>4, <1>5, <1>6, <1>7, <1>8, <1>9 DEF CycleInv

LEMMA CycleInvHolds == CycleSpec => []CycleInv
<1>1. CycleInv /\ [CycleNext]_cycleVars => CycleInv'
  <2> SUFFICES ASSUME CycleInv, [CycleNext]_cycleVars PROVE CycleInv'
    OBVIOUS
  <2>1. CASE \E t \in Tasks : StartAt(t) \/ Look(t)
    BY <2>1, StartKeeps, LookKeeps
  <2>2. CASE Leave
    BY <2>2, LeaveKeeps
  <2>3. CASE UNCHANGED cycleVars
    <3>1. /\ awaits' = awaits /\ colour' = colour /\ left' = left /\ stack' = stack /\ cycles' = cycles
      BY <2>3 DEF cycleVars
    <3>2. StackIsGray' /\ StackIsPath' /\ LeftAreNeighbours' /\ UnseenIsLeft' /\ CyclesAreReal' /\ CycleTypeOK'
      BY <3>1, GraphStays DEF CycleInv, StackIsGray, OnStack, StackIsPath, LeftAreNeighbours,
                              UnseenIsLeft, CyclesAreReal, CycleTypeOK
    <3>3. cycles = {} => SeenIsAbove' /\ DoneIsClosed' /\ DoneHasNoKnot'
      BY <3>1, GraphStays DEF CycleInv, SeenIsAbove, DoneIsClosed, DoneHasNoKnot, Done
    <3> QED
      BY <3>1, <3>2, <3>3 DEF CycleInv
  <2> QED
    BY <2>1, <2>2, <2>3 DEF CycleNext
<1> QED
  BY <1>1, SearchStarts, PTL DEF CycleSpec

\* Whatever is reported is a cycle of the graph.
THEOREM ReportsAreCycles == CycleSpec => []CyclesAreReal
<1>1. CycleInv => CyclesAreReal
  BY DEF CycleInv
<1> QED
  BY <1>1, CycleInvHolds, PTL

\* A search that is over has reported a cycle if and only if there is a
\* deadlock, for every graph and every order of the search.
THEOREM SearchIsComplete == CycleSpec => []DeadlocksAreReported
<1>1. ASSUME CycleInv, Finished PROVE cycles # {} <=> \E knot \in SUBSET Tasks : Knot(knot)
  <2>1. ASSUME cycles # {} PROVE \E knot \in SUBSET Tasks : Knot(knot)
    <3>1. PICK cycle \in cycles : TRUE
      BY <2>1
    <3>2. /\ cycle \in Seq(Tasks) /\ Len(cycle) > 1 /\ cycle[1] = cycle[Len(cycle)]
          /\ \A i \in 1 .. Len(cycle) - 1 : Edge(cycle[i], cycle[i + 1])
      BY <1>1 DEF CycleInv, CycleTypeOK, CyclesAreReal
    <3> DEFINE knot == {cycle[i] : i \in 1 .. Len(cycle) - 1}
    <3>3. knot \in SUBSET Tasks /\ knot # {}
      BY <3>2
    <3>4. ASSUME NEW i \in 1 .. Len(cycle) - 1 PROVE \E u \in knot : Edge(cycle[i], u)
      <4>1. cycle[i + 1] \in knot
        <5>1. CASE i + 1 = Len(cycle)
          BY <3>2, <5>1
        <5>2. CASE i + 1 # Len(cycle)
          BY <3>2, <5>2
        <5> QED
          BY <5>1, <5>2
      <4> QED
        BY <3>2, <4>1
    <3>5. Knot(knot)
      BY <3>3, <3>4 DEF Knot
    <3> QED
      BY <3>3, <3>5
  <2>2. ASSUME cycles = {}, NEW knot \in SUBSET Tasks, Knot(knot) PROVE FALSE
    <3>1. \A t \in knot : awaits[t] # {}
      BY <2>2 DEF Knot, Edge
    <3>2. knot \subseteq Done
      BY <1>1, <3>1 DEF Finished, Done
    <3> QED
      BY <1>1, <2>2, <3>2 DEF CycleInv, DoneHasNoKnot
  <2> QED
    BY <2>1, <2>2
<1>2. CycleInv => DeadlocksAreReported
  BY <1>1 DEF DeadlocksAreReported
<1> QED
  BY <1>2, CycleInvHolds, PTL
=============================================================================
