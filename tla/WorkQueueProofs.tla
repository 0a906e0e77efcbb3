--------------------------- MODULE WorkQueueProofs ---------------------------
(***************************************************************************)
(* Theorems about the production queue, for any number of rows, workers,   *)
(* contracts, attempts and lease lengths.                                  *)
(***************************************************************************)
EXTENDS WorkQueue, TLAPS

\* The empty row is a row.
LEMMA NoRowIsRow == NoRow \in Row
BY NamesAssumption, BoundsAssumption, SMT DEF NoRow, Row, Status, Claimed, Terminal

\* Rewriting one field of a row by a value of its type gives a row.
LEMMA RowUpdate ==
    ASSUME NEW r \in Row
    PROVE  /\ \A s \in Status : [r EXCEPT !.status = s] \in Row
           /\ \A k \in Keys \cup {NoKey} : [r EXCEPT !.key = k] \in Row
           /\ \A p \in Nat : [r EXCEPT !.pos = p] \in Row
           /\ \A n \in Nat : [r EXCEPT !.attempts = n] \in Row
           /\ \A m \in 1..MaxAttempts : [r EXCEPT !.max = m] \in Row
           /\ \A a \in Actors \cup {NoActor} : [r EXCEPT !.actor = a] \in Row
           /\ \A t \in Nat : [r EXCEPT !.token = t] \in Row
           /\ \A l \in 0..LeaseTicks : [r EXCEPT !.left = l] \in Row
           /\ \A e \in Exits \cup {NoExit} : [r EXCEPT !.exit = e] \in Row
BY SMTT(30) DEF Row

\* The rewrites of the operations touch several fields.
LEMMA RowRewrite ==
    ASSUME NEW r \in Row, NEW s \in Status
    PROVE  /\ \A k \in Keys \cup {NoKey}, m \in 1..MaxAttempts, p \in Nat :
                [r EXCEPT !.status = s, !.key = k, !.max = m, !.pos = p] \in Row
           /\ \A a \in Actors, n \in Nat, t \in Nat, l \in 0..LeaseTicks :
                [r EXCEPT !.status = s, !.actor = a, !.attempts = n,
                          !.token = t, !.left = l] \in Row
           /\ \A e \in Exits : [r EXCEPT !.status = s, !.exit = e, !.left = 0] \in Row
           /\ [r EXCEPT !.status = s, !.actor = NoActor, !.left = 0] \in Row
           /\ \A n \in Nat : [r EXCEPT !.status = s, !.attempts = n] \in Row
<1>1. 0 \in 0..LeaseTicks
  BY BoundsAssumption
<1>2. [r EXCEPT !.status = s] \in Row
  BY RowUpdate
<1>3. ASSUME NEW k \in Keys \cup {NoKey}, NEW m \in 1..MaxAttempts, NEW p \in Nat
      PROVE  [r EXCEPT !.status = s, !.key = k, !.max = m, !.pos = p] \in Row
  <2>1. [r EXCEPT !.status = s, !.key = k, !.max = m, !.pos = p] =
          [[[[r EXCEPT !.status = s] EXCEPT !.key = k] EXCEPT !.max = m] EXCEPT !.pos = p]
    OBVIOUS
  <2> QED
    BY <1>2, <2>1, RowUpdate
<1>4. ASSUME NEW a \in Actors, NEW n \in Nat, NEW t \in Nat, NEW l \in 0..LeaseTicks
      PROVE  [r EXCEPT !.status = s, !.actor = a, !.attempts = n,
                       !.token = t, !.left = l] \in Row
  <2>1. [r EXCEPT !.status = s, !.actor = a, !.attempts = n, !.token = t, !.left = l] =
          [[[[[r EXCEPT !.status = s] EXCEPT !.actor = a] EXCEPT !.attempts = n]
            EXCEPT !.token = t] EXCEPT !.left = l]
    OBVIOUS
  <2> QED
    BY <1>2, <2>1, RowUpdate
<1>5. ASSUME NEW e \in Exits
      PROVE  [r EXCEPT !.status = s, !.exit = e, !.left = 0] \in Row
  <2>1. [r EXCEPT !.status = s, !.exit = e, !.left = 0] =
          [[[r EXCEPT !.status = s] EXCEPT !.exit = e] EXCEPT !.left = 0]
    OBVIOUS
  <2> QED
    BY <1>1, <1>2, <2>1, RowUpdate
<1>6. [r EXCEPT !.status = s, !.actor = NoActor, !.left = 0] \in Row
  <2>1. [r EXCEPT !.status = s, !.actor = NoActor, !.left = 0] =
          [[[r EXCEPT !.status = s] EXCEPT !.actor = NoActor] EXCEPT !.left = 0]
    OBVIOUS
  <2> QED
    BY <1>1, <1>2, <2>1, RowUpdate
<1>7. ASSUME NEW n \in Nat
      PROVE  [r EXCEPT !.status = s, !.attempts = n] \in Row
  <2>1. [r EXCEPT !.status = s, !.attempts = n] =
          [[r EXCEPT !.status = s] EXCEPT !.attempts = n]
    OBVIOUS
  <2> QED
    BY <1>2, <2>1, RowUpdate
<1> QED
  BY <1>3, <1>4, <1>5, <1>6, <1>7

\* A rewrite of one row by another row keeps the types of the file, of the
\* pending events and of everything _mutate leaves alone.
LEMMA MutateType ==
    ASSUME TypeOK, NEW w \in Works, NEW row \in Row, NEW verb \in Verbs,
           Mutate(w, row, verb)
    PROVE  /\ items' \in [Works -> Row]
           /\ unsent' \subseteq EventKey
           /\ emitted' \subseteq Event
           /\ lost' \subseteq EventKey
           /\ unit' \in Contract \cup {NoUnit}
           /\ agreed' \in Contract
           /\ edits' \subseteq Edit
<1>1. row.token \in Nat
  BY DEF Row
<1>2. [verb |-> verb, work |-> w, token |-> row.token] \in EventKey
  BY <1>1 DEF EventKey
<1> QED
  BY <1>2 DEF Mutate, TypeOK, unitVars

LEMMA InitType == Init => TypeOK
<1> SUFFICES ASSUME Init PROVE TypeOK
  OBVIOUS
<1>1. items \in [Works -> Row]
  BY NoRowIsRow DEF Init
<1> QED
  BY <1>1, ContractsAssumption DEF Init, TypeOK

\* Each operation of the queue keeps every variable in its type.
LEMMA EnqueueType ==
    ASSUME TypeOK, NEW q \in admitted, Enqueue(q)
    PROVE  TypeOK'
<1> DEFINE row == [NoRow EXCEPT !.status = "queued", !.key = q.key,
                                !.max = q.max, !.pos = rows + 1]
<1>1. q \in Request
  BY SMTT(30) DEF TypeOK
<1>2. row \in Row
  <2>1. /\ q.key \in Keys \cup {NoKey} /\ q.max \in 1..MaxAttempts
        /\ rows + 1 \in Nat /\ "queued" \in Status
    BY <1>1 DEF Request, Status, TypeOK
  <2> QED
    BY <2>1, NoRowIsRow, RowRewrite
<1>3. Mutate(q.work, row, "enqueued")
  BY DEF Enqueue
<1>4. q.work \in Works
  BY <1>1 DEF Request
<1> HIDE DEF row
<1> QED
  BY <1>2, <1>3, <1>4, MutateType DEF Enqueue, TypeOK, Verbs

LEMMA ApplyClaimType ==
    ASSUME TypeOK, NEW w \in Works, NEW a \in Actors, ApplyClaim(w, a)
    PROVE  TypeOK'
<1> DEFINE token == items[w].token + 1
           row == [items[w] EXCEPT !.status = "claimed", !.actor = a,
                                   !.attempts = @ + 1, !.token = token,
                                   !.left = LeaseTicks]
<1>1. items[w] \in Row
  BY DEF TypeOK
<1>2. row \in Row
  <2>1. /\ items[w].attempts + 1 \in Nat /\ token \in Nat
        /\ LeaseTicks \in 0..LeaseTicks /\ "claimed" \in Status
    BY <1>1, BoundsAssumption DEF Row, Status, Claimed
  <2> HIDE DEF token
  <2> QED
    BY <1>1, <2>1, RowRewrite
<1>3. Mutate(w, row, "claimed")
  BY DEF ApplyClaim
<1>4. [work |-> w, actor |-> a, token |-> token] \in Ticket
  BY <1>1, SMT DEF Row, Ticket
<1>5. issued' \subseteq Ticket
  BY <1>4 DEF ApplyClaim, TypeOK
<1> HIDE DEF row, token
<1> QED
  BY <1>2, <1>3, <1>5, MutateType DEF ApplyClaim, TypeOK, Verbs

\* The calls of a holder.
LEMMA HolderCallType ==
    ASSUME TypeOK, NEW w \in Works, NEW a \in Actors, NEW t \in Nat, HolderCall(w, a, t)
    PROVE  TypeOK'
<1>1. items[w] \in Row
  BY DEF TypeOK
<1>2. CASE StartWorkItem(w, a, t)
  <2> DEFINE row == [items[w] EXCEPT !.status = "running"]
  <2>1. row \in Row
    BY <1>1, SMT DEF Row, Status, Claimed
  <2>2. Mutate(w, row, "started")
    BY <1>2 DEF StartWorkItem
  <2> HIDE DEF row
  <2> QED
    BY <1>2, <2>1, <2>2, MutateType DEF StartWorkItem, TypeOK, Verbs
<1>3. CASE HeartbeatWorkItem(w, a, t)
  <2> DEFINE row == [items[w] EXCEPT !.left = LeaseTicks]
  <2>1. row \in Row
    BY <1>1, BoundsAssumption, SMT DEF Row
  <2>2. Mutate(w, row, "heartbeat")
    BY <1>3 DEF HeartbeatWorkItem
  <2> HIDE DEF row
  <2> QED
    BY <1>3, <2>1, <2>2, MutateType DEF HeartbeatWorkItem, TypeOK, Verbs
<1>4. ASSUME NEW e \in Exits, CompleteWorkItem(w, a, t, e)
      PROVE  TypeOK'
  <2> DEFINE row == [items[w] EXCEPT !.status = "done", !.exit = e, !.left = 0]
  <2>1. row \in Row
    BY <1>1, RowRewrite DEF Status, Terminal
  <2>2. Mutate(w, row, "completed")
    BY <1>4 DEF CompleteWorkItem
  <2>3. ratify' \subseteq Works
    BY <1>4 DEF CompleteWorkItem, TypeOK
  <2> HIDE DEF row
  <2> QED
    BY <1>4, <2>1, <2>2, <2>3, MutateType, SMTT(30) DEF CompleteWorkItem, TypeOK, Verbs
<1>5. ASSUME NEW retryable \in BOOLEAN, FailWorkItem(w, a, t, retryable)
      PROVE  TypeOK'
  <2> DEFINE next == FailStatus(w, retryable)
             row == [items[w] EXCEPT !.status = next, !.actor = NoActor, !.left = 0]
  <2>1. next \in {"failed", "dead_letter", "queued"}
    BY DEF FailStatus
  <2>2. FailVerb[next] \in Verbs
    BY <2>1, SMTT(30) DEF FailVerb, Verbs
  <2>3. row \in Row
    BY <1>1, <2>1, RowRewrite DEF Status, Terminal
  <2>4. Mutate(w, row, FailVerb[next])
    BY <1>5 DEF FailWorkItem
  <2> HIDE DEF row, next
  <2> QED
    BY <1>5, <2>2, <2>3, <2>4, MutateType DEF FailWorkItem, TypeOK
<1> QED
  BY <1>2, <1>3, <1>4, <1>5 DEF HolderCall

\* The calls of an operator.
LEMMA OperatorCallType ==
    ASSUME TypeOK, NEW w \in Works, OperatorCall(w)
    PROVE  TypeOK'
<1>1. items[w] \in Row
  BY DEF TypeOK
<1>2. CASE RetireWorkItem(w)
  <2> DEFINE row == [items[w] EXCEPT !.status = "retired", !.actor = NoActor, !.left = 0]
  <2>1. row \in Row
    BY <1>1, RowRewrite DEF Status, Terminal
  <2>2. Mutate(w, row, "retired")
    BY <1>2 DEF RetireWorkItem
  <2> HIDE DEF row
  <2> QED
    BY <1>2, <2>1, <2>2, MutateType DEF RetireWorkItem, TypeOK, Verbs
<1>3. ASSUME NEW reset \in BOOLEAN, RequeueDeadLetter(w, reset)
      PROVE  TypeOK'
  <2> DEFINE row == [items[w] EXCEPT !.status = "queued",
                                     !.attempts = IF reset THEN 0 ELSE @]
  <2>1. row \in Row
    <3>1. (IF reset THEN 0 ELSE items[w].attempts) \in Nat
      BY <1>1 DEF Row
    <3> QED
      BY <1>1, <3>1, RowRewrite DEF Status
  <2>2. Mutate(w, row, "requeued")
    BY <1>3 DEF RequeueDeadLetter
  <2> HIDE DEF row
  <2> QED
    BY <1>3, <2>1, <2>2, MutateType, SMTT(30) DEF RequeueDeadLetter, TypeOK, Verbs
<1> QED
  BY <1>2, <1>3 DEF OperatorCall

\* What happens outside the lock: admission, events, the contract, the clock.
LEMMA OutsideType ==
    ASSUME TypeOK,
           \/ \E w \in Works, k \in Keys \cup {NoKey}, m \in 1..MaxAttempts : Admit(w, k, m)
           \/ \E q \in admitted : EnqueueAgain(q)
           \/ \E n \in unsent : Emit(n) \/ CrashBeforeEmit(n)
           \/ \E c \in Contracts : DefineOperatingUnit(c)
           \/ \E s \in Switches : SetOperatingUnitStatus(s)
           \/ \E e \in edits : OpenUnitFile(e) \/ WriteUnitFile(e)
           \/ Tick
    PROVE  TypeOK'
<1>1. ASSUME NEW w \in Works, NEW k \in Keys \cup {NoKey}, NEW m \in 1..MaxAttempts, Admit(w, k, m)
      PROVE  TypeOK'
  <2>1. [work |-> w, key |-> k, max |-> m] \in Request
    BY DEF Request
  <2> QED
    BY <1>1, <2>1 DEF Admit, TypeOK, unitVars, logVars
<1>2. ASSUME NEW q \in admitted, EnqueueAgain(q)
      PROVE  TypeOK'
  BY <1>2 DEF EnqueueAgain, TypeOK, unitVars, logVars
<1>3. ASSUME NEW n \in unsent, Emit(n)
      PROVE  TypeOK'
  <2> DEFINE g == /\ n.verb = "completed"
                  /\ unit # NoUnit
                  /\ items[n.work].exit \in unit.governed
  <2>1. g \in BOOLEAN
    OBVIOUS
  <2>2. n \in EventKey
    BY DEF TypeOK
  <2>3. emitted' = emitted \cup {[key |-> n, governed |-> g]}
    BY <1>3 DEF Emit
  <2> HIDE DEF g
  <2>4. [key |-> n, governed |-> g] \in Event
    BY <2>1, <2>2 DEF Event
  <2> QED
    BY <1>3, <2>3, <2>4 DEF Emit, TypeOK, unitVars
<1>4. ASSUME NEW n \in unsent, CrashBeforeEmit(n)
      PROVE  TypeOK'
  BY <1>4 DEF CrashBeforeEmit, TypeOK, unitVars
<1>5. ASSUME NEW c \in Contract, NEW b \in BOOLEAN, BeginEdit(c, b)
      PROVE  TypeOK'
  <2>1. [row |-> c, statusOnly |-> b, opened |-> FALSE] \in Edit
    BY DEF Edit
  <2> QED
    BY <1>5, <2>1 DEF BeginEdit, TypeOK, logVars
<1>6. ASSUME NEW c \in Contracts, DefineOperatingUnit(c)
      PROVE  TypeOK'
  BY <1>5, <1>6, ContractsAssumption DEF DefineOperatingUnit
<1>7. ASSUME NEW s \in Switches, SetOperatingUnitStatus(s)
      PROVE  TypeOK'
  <2>1. unit \in Contract /\ s \in UnitStatus
    BY <1>7, ContractsAssumption DEF SetOperatingUnitStatus, TypeOK
  <2>2. [unit EXCEPT !.status = s] \in Contract
    BY <2>1 DEF Contract
  <2> QED
    BY <1>5, <1>7, <2>2 DEF SetOperatingUnitStatus
<1>8. ASSUME NEW e \in edits, OpenUnitFile(e)
      PROVE  TypeOK'
  <2>1. [e EXCEPT !.opened = TRUE] \in Edit
    BY DEF TypeOK, Edit
  <2> QED
    BY <1>8, <2>1 DEF OpenUnitFile, TypeOK, logVars
<1>9. ASSUME NEW e \in edits, WriteUnitFile(e)
      PROVE  TypeOK'
  <2>1. e.row \in Contract
    BY DEF TypeOK, Edit
  <2> QED
    BY <1>9, <2>1 DEF WriteUnitFile, TypeOK, logVars
<1>10. CASE Tick
  <2> DEFINE later(w) == [items[w] EXCEPT !.left = IF @ > 0 THEN @ - 1 ELSE 0]
  <2>1. ASSUME NEW w \in Works
        PROVE  later(w) \in Row
    BY <2>1, BoundsAssumption, SMT DEF Row, TypeOK
  <2>2. items' = [w \in Works |-> later(w)]
    BY <1>10 DEF Tick
  <2> HIDE DEF later
  <2> QED
    BY <1>10, <2>1, <2>2 DEF Tick, TypeOK, unitVars, logVars
<1> QED
  BY <1>1, <1>2, <1>3, <1>4, <1>6, <1>7, <1>8, <1>9, <1>10

\* The variables of the queue keep their types through every step.
LEMMA StepType == TypeOK /\ [Next]_vars => TypeOK'
<1> SUFFICES ASSUME TypeOK, [Next]_vars PROVE TypeOK'
  OBVIOUS
<1>1. CASE UNCHANGED vars
  BY <1>1 DEF vars, unitVars, logVars, TypeOK
<1>2. ASSUME NEW w \in Works, NEW a \in Actors, NEW r \in Roles, ClaimWorkItem(w, a, r)
      PROVE  TypeOK'
  BY <1>2, ApplyClaimType DEF ClaimWorkItem
<1>3. ASSUME NEW a \in Actors, NEW r \in Roles, NEW ks, ClaimNextWorkItem(a, r, ks)
      PROVE  TypeOK'
  BY <1>3, ApplyClaimType DEF ClaimNextWorkItem
<1>4. ASSUME NEW tk \in issued, NEW a \in Actors, HolderCall(tk.work, a, tk.token)
      PROVE  TypeOK'
  <2>1. tk.work \in Works /\ tk.token \in Nat
    BY DEF TypeOK, Ticket
  <2> QED
    BY <1>4, <2>1, HolderCallType
<1> QED
  BY <1>1, <1>2, <1>3, <1>4, EnqueueType, OperatorCallType, OutsideType DEF Next

\* Every variable of the queue keeps its type, whatever calls arrive and
\* however long leases, budgets and contracts are.
THEOREM TypeCorrect == Spec => []TypeOK
<1>1. Init => TypeOK
  BY InitType
<1>2. TypeOK /\ [Next]_vars => TypeOK'
  BY StepType
<1> QED
  BY <1>1, <1>2, PTL DEF Spec

-----------------------------------------------------------------------------
(* Safety                                                                  *)

\* What makes the safety invariants inductive: a row nobody has enqueued is
\* blank, one request at most is admitted for it, and no ticket is ahead of
\* its row's token.
BlankUntilEnqueued ==
    /\ \A w \in Works : items[w].status = "absent" => items[w] = NoRow
    /\ \A q \in admitted : items[q.work].status = "absent"
    /\ \A q1, q2 \in admitted : q1.work = q2.work => q1 = q2

NoTicketAhead ==
    \A tk \in issued :
        /\ items[tk.work].status # "absent"
        /\ tk.token <= items[tk.work].token

QueueInv == TypeOK /\ BlankUntilEnqueued /\ NoTicketAhead /\ TokenIssuedOnce

\* A step that leaves every token and every present row's presence alone, and
\* hands out no ticket, keeps the tickets behind.
LEMMA TicketsKept ==
    ASSUME QueueInv, TypeOK', issued' = issued,
           \A w \in Works : items[w].status # "absent" =>
               items'[w].status # "absent" /\ items'[w].token = items[w].token
    PROVE  NoTicketAhead' /\ TokenIssuedOnce'
BY DEF QueueInv, NoTicketAhead, TokenIssuedOnce, TypeOK, Ticket

\* A step that admits no request and only rewrites rows that are present keeps
\* the blank rows blank.
LEMMA BlankKept ==
    ASSUME QueueInv, TypeOK', admitted' \subseteq admitted,
           \A w \in Works :
               \/ items'[w] = items[w]
               \/ items[w].status # "absent" /\ items'[w].status # "absent"
    PROVE  BlankUntilEnqueued'
BY DEF QueueInv, BlankUntilEnqueued, TypeOK, Request

\* Rewriting a present row by a present one with the same token.
LEMMA RewriteKept ==
    ASSUME QueueInv, TypeOK', issued' = issued, admitted' = admitted,
           NEW w \in Works, NEW row \in Row, NEW verb, Mutate(w, row, verb),
           items[w].status # "absent", row.status # "absent", row.token = items[w].token
    PROVE  QueueInv'
<1>1. items' = [items EXCEPT ![w] = row]
  BY DEF Mutate
<1>2. \A v \in Works : items'[v] = IF v = w THEN row ELSE items[v]
  BY <1>1 DEF QueueInv, TypeOK
<1> QED
  BY <1>2, TicketsKept, BlankKept DEF QueueInv

\* The fields a rewrite sets, and those it leaves alone.
LEMMA RewriteFields ==
    ASSUME NEW r \in Row, NEW s
    PROVE  /\ \A a, n, t, l :
                LET new == [r EXCEPT !.status = s, !.actor = a, !.attempts = n,
                                     !.token = t, !.left = l]
                IN  new.status = s /\ new.actor = a /\ new.token = t /\ new.left = l
                    /\ new.attempts = n /\ new.max = r.max /\ new.key = r.key
           /\ \A e, l :
                LET new == [r EXCEPT !.status = s, !.exit = e, !.left = l]
                IN  new.status = s /\ new.actor = r.actor /\ new.token = r.token
                    /\ new.left = l /\ new.attempts = r.attempts /\ new.max = r.max
                    /\ new.key = r.key /\ new.exit = e
           /\ \A a, l :
                LET new == [r EXCEPT !.status = s, !.actor = a, !.left = l]
                IN  new.status = s /\ new.actor = a /\ new.token = r.token
                    /\ new.left = l /\ new.attempts = r.attempts /\ new.max = r.max
                    /\ new.key = r.key
           /\ \A n :
                LET new == [r EXCEPT !.status = s, !.attempts = n]
                IN  new.status = s /\ new.actor = r.actor /\ new.token = r.token
                    /\ new.left = r.left /\ new.attempts = n /\ new.max = r.max
                    /\ new.key = r.key
           /\ LET new == [r EXCEPT !.status = s]
              IN  new.status = s /\ new.actor = r.actor /\ new.token = r.token
                  /\ new.left = r.left /\ new.attempts = r.attempts /\ new.max = r.max
                  /\ new.key = r.key
           /\ \A l :
                LET new == [r EXCEPT !.left = l]
                IN  new.status = r.status /\ new.actor = r.actor /\ new.token = r.token
                    /\ new.left = l /\ new.attempts = r.attempts /\ new.max = r.max
                    /\ new.key = r.key
           /\ \A k, m, p :
                LET new == [r EXCEPT !.status = s, !.key = k, !.max = m, !.pos = p]
                IN  new.status = s /\ new.actor = r.actor /\ new.token = r.token
                    /\ new.left = r.left /\ new.attempts = r.attempts /\ new.max = m
                    /\ new.key = k
BY SMTT(60) DEF Row

\* Enqueuing turns a blank row into a queued one, which has no ticket yet.
LEMMA EnqueueKept ==
    ASSUME QueueInv, TypeOK', NEW q \in admitted, Enqueue(q)
    PROVE  QueueInv'
<1> DEFINE w == q.work
           row == [NoRow EXCEPT !.status = "queued", !.key = q.key,
                                !.max = q.max, !.pos = rows + 1]
<1>1. w \in Works /\ items[w].status = "absent"
  BY DEF QueueInv, TypeOK, Request, BlankUntilEnqueued
<1>2. row.status = "queued"
  BY NoRowIsRow, RewriteFields
<1>3. items' = [items EXCEPT ![w] = row]
  BY DEF Enqueue, Mutate
<1>4. \A v \in Works : items'[v] = IF v = w THEN row ELSE items[v]
  BY <1>1, <1>3 DEF QueueInv, TypeOK
<1>5. admitted' = admitted \ {q} /\ issued' = issued
  BY DEF Enqueue
<1> HIDE DEF row
<1>6. BlankUntilEnqueued'
  <2>1. ASSUME NEW v \in Works, items'[v].status = "absent"
        PROVE  items'[v] = NoRow
    BY <1>2, <1>4, <2>1 DEF QueueInv, BlankUntilEnqueued
  <2>2. ASSUME NEW r \in admitted'
        PROVE  items'[r.work].status = "absent"
    <3>1. r \in admitted /\ r # q /\ r.work \in Works
      BY <1>5 DEF QueueInv, TypeOK, Request
    <3>2. r.work # w
      BY <3>1 DEF QueueInv, BlankUntilEnqueued
    <3> QED
      BY <1>4, <3>1, <3>2 DEF QueueInv, BlankUntilEnqueued
  <2> QED
    BY <1>5, <2>1, <2>2 DEF QueueInv, BlankUntilEnqueued
<1>7. NoTicketAhead' /\ TokenIssuedOnce'
  BY <1>1, <1>4, <1>5, TicketsKept
<1> QED
  BY <1>6, <1>7 DEF QueueInv

\* A claim hands out the token after the row's, which is ahead of every ticket.
LEMMA ApplyClaimKept ==
    ASSUME QueueInv, TypeOK', NEW w \in Works, NEW a \in Actors,
           IsClaimable(w), ApplyClaim(w, a)
    PROVE  QueueInv'
<1> DEFINE token == items[w].token + 1
           row == [items[w] EXCEPT !.status = "claimed", !.actor = a,
                                   !.attempts = @ + 1, !.token = token,
                                   !.left = LeaseTicks]
           ticket == [work |-> w, actor |-> a, token |-> token]
<1>1. items[w] \in Row /\ items[w].token \in Nat
  BY DEF QueueInv, TypeOK, Row
<1>2. items[w].status # "absent"
  BY DEF IsClaimable, IsClaimStale, Claimed
<1>3. row.status = "claimed" /\ row.token = token
  <2> HIDE DEF token
  <2> QED
    BY <1>1, RewriteFields
<1>4. items' = [items EXCEPT ![w] = row] /\ issued' = issued \cup {ticket}
      /\ admitted' = admitted
  BY DEF ApplyClaim, Mutate
<1>5. \A v \in Works : items'[v] = IF v = w THEN row ELSE items[v]
  BY <1>4 DEF QueueInv, TypeOK
<1> HIDE DEF row
<1>6. BlankUntilEnqueued'
  BY <1>2, <1>3, <1>4, <1>5, BlankKept
<1>7. NoTicketAhead'
  <2>1. ASSUME NEW tk \in issued
        PROVE  items'[tk.work].status # "absent" /\ tk.token <= items'[tk.work].token
    <3>1. /\ tk.work \in Works /\ tk.token \in Nat /\ items[tk.work].status # "absent"
          /\ tk.token <= items[tk.work].token
      BY DEF QueueInv, TypeOK, Ticket, NoTicketAhead
    <3> QED
      BY <1>1, <1>3, <1>5, <3>1
  <2>2. ticket.work = w /\ items'[w].status # "absent" /\ ticket.token <= items'[w].token
    BY <1>1, <1>3, <1>5
  <2> QED
    BY <1>4, <2>1, <2>2 DEF NoTicketAhead
<1>8. TokenIssuedOnce'
  <2>1. ASSUME NEW tk \in issued, tk.work = w
        PROVE  tk.token # ticket.token
    BY <1>1, <2>1 DEF QueueInv, NoTicketAhead, TypeOK, Ticket
  <2>2. ticket.work = w
    OBVIOUS
  <2> HIDE DEF ticket
  <2> QED
    BY <1>4, <2>1, <2>2 DEF QueueInv, TokenIssuedOnce
<1> QED
  BY <1>6, <1>7, <1>8 DEF QueueInv

\* Holders and operators rewrite a present row and leave its token alone.
LEMMA HolderCallKept ==
    ASSUME QueueInv, TypeOK', NEW w \in Works, NEW a \in Actors, NEW t \in Nat,
           HolderCall(w, a, t)
    PROVE  QueueInv'
<1>1. items[w] \in Row /\ TypeOK
  BY DEF QueueInv, TypeOK
<1>2. items' \in [Works -> Row]
  BY DEF TypeOK
<1>3. ASSUME NEW row, NEW verb, Mutate(w, row, verb)
      PROVE  row \in Row
  BY <1>1, <1>2, <1>3 DEF Mutate, TypeOK
<1>4. items[w].status \in Claimed /\ items[w].status # "absent"
  BY DEF HolderCall, StartWorkItem, HeartbeatWorkItem, CompleteWorkItem, FailWorkItem,
         RequireLiveClaim, Claimed
<1>5. ASSUME NEW row, NEW verb, Mutate(w, row, verb), issued' = issued, admitted' = admitted,
             row.status # "absent", row.token = items[w].token
      PROVE  QueueInv'
  BY <1>3, <1>4, <1>5, RewriteKept
<1>6. CASE StartWorkItem(w, a, t)
  <2> DEFINE row == [items[w] EXCEPT !.status = "running"]
  <2>1. row.status # "absent" /\ row.token = items[w].token
    BY <1>1, RewriteFields
  <2>2. Mutate(w, row, "started") /\ issued' = issued /\ admitted' = admitted
    BY <1>6 DEF StartWorkItem
  <2> HIDE DEF row
  <2> QED
    BY <1>5, <2>1, <2>2
<1>7. CASE HeartbeatWorkItem(w, a, t)
  <2> DEFINE row == [items[w] EXCEPT !.left = LeaseTicks]
  <2>1. row.status # "absent" /\ row.token = items[w].token
    BY <1>1, <1>4, RewriteFields
  <2>2. Mutate(w, row, "heartbeat") /\ issued' = issued /\ admitted' = admitted
    BY <1>7 DEF HeartbeatWorkItem
  <2> HIDE DEF row
  <2> QED
    BY <1>5, <2>1, <2>2
<1>8. ASSUME NEW e \in Exits, CompleteWorkItem(w, a, t, e)
      PROVE  QueueInv'
  <2> DEFINE row == [items[w] EXCEPT !.status = "done", !.exit = e, !.left = 0]
  <2>1. row.status # "absent" /\ row.token = items[w].token
    BY <1>1, RewriteFields
  <2>2. Mutate(w, row, "completed") /\ issued' = issued /\ admitted' = admitted
    BY <1>8 DEF CompleteWorkItem
  <2> HIDE DEF row
  <2> QED
    BY <1>5, <2>1, <2>2
<1>9. ASSUME NEW retryable \in BOOLEAN, FailWorkItem(w, a, t, retryable)
      PROVE  QueueInv'
  <2> DEFINE next == FailStatus(w, retryable)
             row == [items[w] EXCEPT !.status = next, !.actor = NoActor, !.left = 0]
  <2>1. next # "absent"
    BY DEF FailStatus
  <2>2. Mutate(w, row, FailVerb[next]) /\ issued' = issued /\ admitted' = admitted
    BY <1>9 DEF FailWorkItem
  <2> HIDE DEF next
  <2>3. row.status # "absent" /\ row.token = items[w].token
    BY <1>1, <2>1, RewriteFields
  <2> HIDE DEF row
  <2> QED
    BY <1>5, <2>2, <2>3
<1> QED
  BY <1>6, <1>7, <1>8, <1>9 DEF HolderCall

LEMMA OperatorCallKept ==
    ASSUME QueueInv, TypeOK', NEW w \in Works, OperatorCall(w)
    PROVE  QueueInv'
<1>1. items[w] \in Row /\ TypeOK
  BY DEF QueueInv, TypeOK
<1>2. items' \in [Works -> Row]
  BY DEF TypeOK
<1>3. ASSUME NEW row, NEW verb, Mutate(w, row, verb), issued' = issued, admitted' = admitted,
             items[w].status # "absent", row.status # "absent", row.token = items[w].token
      PROVE  QueueInv'
  <2>1. row \in Row
    BY <1>1, <1>2, <1>3 DEF Mutate, TypeOK
  <2> QED
    BY <1>3, <2>1, RewriteKept
<1>4. CASE RetireWorkItem(w)
  <2> DEFINE row == [items[w] EXCEPT !.status = "retired", !.actor = NoActor, !.left = 0]
  <2>1. row.status # "absent" /\ row.token = items[w].token
    BY <1>1, RewriteFields
  <2>2. Mutate(w, row, "retired") /\ items[w].status # "absent" /\ issued' = issued /\ admitted' = admitted
    BY <1>4 DEF RetireWorkItem
  <2> HIDE DEF row
  <2> QED
    BY <1>3, <2>1, <2>2
<1>5. ASSUME NEW reset \in BOOLEAN, RequeueDeadLetter(w, reset)
      PROVE  QueueInv'
  <2> DEFINE row == [items[w] EXCEPT !.status = "queued",
                                     !.attempts = IF reset THEN 0 ELSE @]
  <2>1. row.status # "absent" /\ row.token = items[w].token
    BY <1>1, RewriteFields
  <2>2. Mutate(w, row, "requeued") /\ items[w].status # "absent" /\ issued' = issued /\ admitted' = admitted
    BY <1>5 DEF RequeueDeadLetter
  <2> HIDE DEF row
  <2> QED
    BY <1>3, <2>1, <2>2
<1> QED
  BY <1>4, <1>5 DEF OperatorCall

LEMMA AdmitKept ==
    ASSUME QueueInv, TypeOK', NEW w \in Works, NEW k \in Keys \cup {NoKey},
           NEW m \in 1..MaxAttempts, Admit(w, k, m)
    PROVE  QueueInv'
<1> DEFINE request == [work |-> w, key |-> k, max |-> m]
<1>1. /\ items' = items /\ issued' = issued /\ admitted' = admitted \cup {request}
      /\ items[w].status = "absent" /\ \A q \in admitted : q.work # w
  BY DEF Admit
<1>2. request.work = w
  OBVIOUS
<1> HIDE DEF request
<1>3. BlankUntilEnqueued'
  BY <1>1, <1>2 DEF QueueInv, BlankUntilEnqueued
<1>4. NoTicketAhead' /\ TokenIssuedOnce'
  BY <1>1, TicketsKept
<1> QED
  BY <1>3, <1>4 DEF QueueInv

\* A tick changes what is left of the leases, nothing else.
LEMMA TickKept ==
    ASSUME QueueInv, TypeOK', Tick
    PROVE  QueueInv'
<1> DEFINE later(w) == [items[w] EXCEPT !.left = IF @ > 0 THEN @ - 1 ELSE 0]
<1>1. \A w \in Works : items'[w] = later(w)
  BY DEF Tick
<1>2. issued' = issued /\ admitted' = admitted
  BY DEF Tick
<1>3. ASSUME NEW w \in Works
      PROVE  later(w).status = items[w].status /\ later(w).token = items[w].token
  <2>1. items[w] \in Row
    BY DEF QueueInv, TypeOK
  <2> QED
    BY <2>1, RewriteFields
<1>4. ASSUME NEW w \in Works, items[w] = NoRow
      PROVE  later(w) = NoRow
  BY <1>4 DEF NoRow
<1> HIDE DEF later
<1>5. BlankUntilEnqueued'
  BY <1>1, <1>2, <1>3, <1>4 DEF QueueInv, BlankUntilEnqueued, TypeOK, Request
<1>6. NoTicketAhead' /\ TokenIssuedOnce'
  BY <1>1, <1>2, <1>3, TicketsKept
<1> QED
  BY <1>5, <1>6 DEF QueueInv

LEMMA StepKept == QueueInv /\ [Next]_vars => QueueInv'
<1> SUFFICES ASSUME QueueInv, [Next]_vars PROVE QueueInv'
  OBVIOUS
<1>1. TypeOK'
  BY StepType DEF QueueInv
<1>2. ASSUME items' = items, issued' = issued, admitted' \subseteq admitted
      PROVE  QueueInv'
  BY <1>1, <1>2, TicketsKept, BlankKept DEF QueueInv
<1>3. ASSUME NEW w \in Works, NEW a \in Actors, NEW r \in Roles, ClaimWorkItem(w, a, r)
      PROVE  QueueInv'
  BY <1>1, <1>3, ApplyClaimKept DEF ClaimWorkItem, CanClaim
<1>4. ASSUME NEW a \in Actors, NEW r \in Roles, NEW ks, ClaimNextWorkItem(a, r, ks)
      PROVE  QueueInv'
  BY <1>1, <1>4, ApplyClaimKept DEF ClaimNextWorkItem, CanClaim
<1>5. ASSUME NEW tk \in issued, NEW a \in Actors, HolderCall(tk.work, a, tk.token)
      PROVE  QueueInv'
  <2>1. tk.work \in Works /\ tk.token \in Nat
    BY DEF QueueInv, TypeOK, Ticket
  <2> QED
    BY <1>1, <1>5, <2>1, HolderCallKept
<1>6. CASE UNCHANGED vars
  BY <1>2, <1>6 DEF vars
<1>7. ASSUME NEW q \in admitted, EnqueueAgain(q)
      PROVE  QueueInv'
  BY <1>2, <1>7 DEF EnqueueAgain
<1>8. ASSUME NEW n \in unsent, Emit(n) \/ CrashBeforeEmit(n)
      PROVE  QueueInv'
  BY <1>2, <1>8 DEF Emit, CrashBeforeEmit
<1>9. ASSUME NEW c, NEW b, BeginEdit(c, b)
      PROVE  QueueInv'
  BY <1>2, <1>9 DEF BeginEdit
<1>10. ASSUME NEW e \in edits, OpenUnitFile(e) \/ WriteUnitFile(e)
       PROVE  QueueInv'
  BY <1>2, <1>10 DEF OpenUnitFile, WriteUnitFile
<1> QED
  BY <1>1, <1>3, <1>4, <1>5, <1>6, <1>7, <1>8, <1>9, <1>10, EnqueueKept, AdmitKept,
     TickKept, OperatorCallKept
     DEF Next, DefineOperatingUnit, SetOperatingUnitStatus

LEMMA InvariantHolds == Spec => []QueueInv
<1>1. Init => QueueInv
  BY InitType DEF Init, QueueInv, BlankUntilEnqueued, NoTicketAhead, TokenIssuedOnce
<1> QED
  BY <1>1, StepKept, PTL DEF Spec

\* A claim token is handed out once in the life of a row: no expiry, retry,
\* dead letter or requeue makes an old token current again.
THEOREM TokensAreNeverReused == Spec => []TokenIssuedOnce
<1>1. QueueInv => TokenIssuedOnce
  BY DEF QueueInv
<1> QED
  BY <1>1, InvariantHolds, PTL

\* Only the ticket of the latest claim passes _require_live_claim: a worker
\* whose lease lapsed cannot finish what another has taken.
THEOREM LateHoldersAreFenced == Spec => []OnlyNewestTicketAccepted
<1>1. QueueInv => OnlyNewestTicketAccepted
  BY DEF QueueInv, OnlyNewestTicketAccepted, NoTicketAhead, RequireLiveClaim
<1> QED
  BY <1>1, InvariantHolds, PTL

-----------------------------------------------------------------------------
(* What a step does to the rows                                            *)

\* The row of w becomes row by one of the operations.
Inserted(w, row) ==
    /\ items[w].status = "absent" /\ row.status = "queued"
    /\ row.attempts = 0 /\ row.actor = NoActor /\ row.token = 0 /\ row.left = 0
    /\ ~KeyTaken(row.key)

Taken(w, row) ==
    /\ IsClaimable(w) /\ items[w].attempts < items[w].max
    /\ row.status = "claimed" /\ row.actor \in Actors /\ row.left = LeaseTicks
    /\ row.attempts = items[w].attempts + 1 /\ row.token = items[w].token + 1

Kept(w, row) ==
    /\ items[w].status \in Claimed /\ row.status \in Claimed
    /\ items[w].left > 0 /\ row.left > 0
    /\ row.actor = items[w].actor
    /\ row.attempts = items[w].attempts /\ row.token = items[w].token

Ended(w, row) ==
    /\ items[w].status \in Claimed /\ items[w].left > 0 /\ row.left = 0
    /\ row.attempts = items[w].attempts /\ row.token = items[w].token
    /\ \/ row.status = "done" /\ row.exit \in unit.exits
       \/ row.status \in {"queued", "failed"} /\ row.actor = NoActor
       \/ /\ row.status = "dead_letter" /\ row.actor = NoActor
          /\ items[w].attempts >= items[w].max

Withdrawn(w, row) ==
    /\ items[w].status \notin Terminal \cup {"absent"} /\ row.status = "retired"
    /\ row.actor = NoActor /\ row.left = 0
    /\ row.attempts = items[w].attempts /\ row.token = items[w].token

Revived(w, row) ==
    /\ items[w].status = "dead_letter" /\ row.status = "queued"
    /\ row.actor = items[w].actor /\ row.left = items[w].left
    /\ row.token = items[w].token /\ row.attempts \in {0, items[w].attempts}

RowMove(w, row) ==
    \/ Inserted(w, row)
    \/ /\ row.key = items[w].key /\ row.max = items[w].max
       /\ \/ Taken(w, row) \/ Kept(w, row) \/ Ended(w, row)
          \/ Withdrawn(w, row) \/ Revived(w, row)

OneRowMoves ==
    \E w \in Works, row \in Row :
        items' = [items EXCEPT ![w] = row] /\ RowMove(w, row)

\* A row that has been rewritten is the one the operation has written.
LEMMA MutateMoves ==
    ASSUME TypeOK, TypeOK', NEW w \in Works, NEW row, NEW verb, Mutate(w, row, verb),
           RowMove(w, row)
    PROVE  OneRowMoves
<1>1. items' = [items EXCEPT ![w] = row] /\ items' \in [Works -> Row] /\ items \in [Works -> Row]
  BY DEF Mutate, TypeOK
<1>2. row \in Row
  BY <1>1
<1> QED
  BY <1>1, <1>2 DEF OneRowMoves

LEMMA EnqueueMoves ==
    ASSUME QueueInv, TypeOK', NEW q \in admitted, Enqueue(q)
    PROVE  OneRowMoves
<1> DEFINE row == [NoRow EXCEPT !.status = "queued", !.key = q.key,
                                !.max = q.max, !.pos = rows + 1]
<1>1. TypeOK /\ q.work \in Works /\ items[q.work].status = "absent"
  BY DEF QueueInv, TypeOK, Request, BlankUntilEnqueued
<1>2. /\ row.status = "queued" /\ row.key = q.key /\ row.attempts = NoRow.attempts
      /\ row.actor = NoRow.actor /\ row.token = NoRow.token /\ row.left = NoRow.left
  BY NoRowIsRow, RewriteFields
<1>3. NoRow.attempts = 0 /\ NoRow.actor = NoActor /\ NoRow.token = 0 /\ NoRow.left = 0
  BY DEF NoRow
<1>4. Mutate(q.work, row, "enqueued") /\ ~KeyTaken(q.key)
  BY DEF Enqueue
<1> HIDE DEF row
<1>5. RowMove(q.work, row)
  BY <1>1, <1>2, <1>3, <1>4 DEF RowMove, Inserted
<1> QED
  BY <1>1, <1>4, <1>5, MutateMoves

LEMMA ClaimMoves ==
    ASSUME TypeOK, TypeOK', NEW w \in Works, NEW a \in Actors, NEW r, CanClaim(w, r),
           ApplyClaim(w, a)
    PROVE  OneRowMoves
<1> DEFINE token == items[w].token + 1
           row == [items[w] EXCEPT !.status = "claimed", !.actor = a,
                                   !.attempts = @ + 1, !.token = token,
                                   !.left = LeaseTicks]
<1>1. items[w] \in Row
  BY DEF TypeOK
<1>2. /\ row.status = "claimed" /\ row.actor = a /\ row.token = token
      /\ row.left = LeaseTicks /\ row.attempts = items[w].attempts + 1
      /\ row.max = items[w].max /\ row.key = items[w].key
  <2> HIDE DEF token
  <2> QED
    BY <1>1, RewriteFields
<1>3. Mutate(w, row, "claimed")
  BY DEF ApplyClaim
<1> HIDE DEF row
<1>4. RowMove(w, row)
  BY <1>2 DEF RowMove, Taken, CanClaim
<1> QED
  BY <1>3, <1>4, MutateMoves

LEMMA HolderCallMoves ==
    ASSUME TypeOK, TypeOK', NEW w \in Works, NEW a, NEW t, HolderCall(w, a, t)
    PROVE  OneRowMoves
<1>1. items[w] \in Row
  BY DEF TypeOK
<1>2. items[w].status \in Claimed /\ items[w].left > 0
  BY DEF HolderCall, StartWorkItem, HeartbeatWorkItem, CompleteWorkItem, FailWorkItem,
         RequireLiveClaim
<1>3. CASE StartWorkItem(w, a, t)
  <2> DEFINE row == [items[w] EXCEPT !.status = "running"]
  <2>1. /\ row.status = "running" /\ row.actor = items[w].actor /\ row.token = items[w].token
        /\ row.left = items[w].left /\ row.attempts = items[w].attempts
        /\ row.max = items[w].max /\ row.key = items[w].key
    BY <1>1, RewriteFields
  <2>2. Mutate(w, row, "started")
    BY <1>3 DEF StartWorkItem
  <2> HIDE DEF row
  <2>3. RowMove(w, row)
    BY <1>2, <2>1 DEF RowMove, Kept, Claimed
  <2> QED
    BY <2>2, <2>3, MutateMoves
<1>4. CASE HeartbeatWorkItem(w, a, t)
  <2> DEFINE row == [items[w] EXCEPT !.left = LeaseTicks]
  <2>1. /\ row.status = items[w].status /\ row.actor = items[w].actor
        /\ row.token = items[w].token /\ row.left = LeaseTicks
        /\ row.attempts = items[w].attempts
        /\ row.max = items[w].max /\ row.key = items[w].key
    BY <1>1, RewriteFields
  <2>2. Mutate(w, row, "heartbeat")
    BY <1>4 DEF HeartbeatWorkItem
  <2>3. LeaseTicks > 0
    BY BoundsAssumption
  <2> HIDE DEF row
  <2>4. RowMove(w, row)
    BY <1>2, <2>1, <2>3 DEF RowMove, Kept
  <2> QED
    BY <2>2, <2>4, MutateMoves
<1>5. ASSUME NEW e \in Exits, CompleteWorkItem(w, a, t, e)
      PROVE  OneRowMoves
  <2> DEFINE row == [items[w] EXCEPT !.status = "done", !.exit = e, !.left = 0]
  <2>1. /\ row.status = "done" /\ row.exit = e /\ row.token = items[w].token
        /\ row.left = 0 /\ row.attempts = items[w].attempts
        /\ row.max = items[w].max /\ row.key = items[w].key
    BY <1>1, RewriteFields
  <2>2. Mutate(w, row, "completed") /\ e \in unit.exits
    BY <1>5 DEF CompleteWorkItem
  <2> HIDE DEF row
  <2>3. RowMove(w, row)
    BY <1>2, <2>1, <2>2 DEF RowMove, Ended
  <2> QED
    BY <2>2, <2>3, MutateMoves
<1>6. ASSUME NEW retryable \in BOOLEAN, FailWorkItem(w, a, t, retryable)
      PROVE  OneRowMoves
  <2> DEFINE next == FailStatus(w, retryable)
             row == [items[w] EXCEPT !.status = next, !.actor = NoActor, !.left = 0]
  <2>1. /\ next \in {"queued", "failed", "dead_letter"}
        /\ next = "dead_letter" => items[w].attempts >= items[w].max
    BY DEF FailStatus
  <2>2. Mutate(w, row, FailVerb[next])
    BY <1>6 DEF FailWorkItem
  <2> HIDE DEF next
  <2>3. /\ row.status = next /\ row.actor = NoActor /\ row.token = items[w].token
        /\ row.left = 0 /\ row.attempts = items[w].attempts
        /\ row.max = items[w].max /\ row.key = items[w].key
    BY <1>1, RewriteFields
  <2> HIDE DEF row
  <2>4. RowMove(w, row)
    BY <1>2, <2>1, <2>3 DEF RowMove, Ended
  <2> QED
    BY <2>2, <2>4, MutateMoves
<1> QED
  BY <1>3, <1>4, <1>5, <1>6 DEF HolderCall

LEMMA OperatorCallMoves ==
    ASSUME TypeOK, TypeOK', NEW w \in Works, OperatorCall(w)
    PROVE  OneRowMoves
<1>1. items[w] \in Row
  BY DEF TypeOK
<1>2. CASE RetireWorkItem(w)
  <2> DEFINE row == [items[w] EXCEPT !.status = "retired", !.actor = NoActor, !.left = 0]
  <2>1. /\ row.status = "retired" /\ row.actor = NoActor /\ row.token = items[w].token
        /\ row.left = 0 /\ row.attempts = items[w].attempts
        /\ row.max = items[w].max /\ row.key = items[w].key
    BY <1>1, RewriteFields
  <2>2. Mutate(w, row, "retired") /\ items[w].status \notin Terminal \cup {"absent"}
    BY <1>2 DEF RetireWorkItem
  <2> HIDE DEF row
  <2>3. RowMove(w, row)
    BY <2>1, <2>2 DEF RowMove, Withdrawn
  <2> QED
    BY <2>2, <2>3, MutateMoves
<1>3. ASSUME NEW reset \in BOOLEAN, RequeueDeadLetter(w, reset)
      PROVE  OneRowMoves
  <2> DEFINE budget == IF reset THEN 0 ELSE items[w].attempts
             row == [items[w] EXCEPT !.status = "queued", !.attempts = budget]
  <2>1. budget \in {0, items[w].attempts}
    OBVIOUS
  <2>2. Mutate(w, row, "requeued") /\ items[w].status = "dead_letter"
    BY <1>3 DEF RequeueDeadLetter
  <2> HIDE DEF budget
  <2>3. /\ row.status = "queued" /\ row.actor = items[w].actor
        /\ row.token = items[w].token /\ row.left = items[w].left
        /\ row.attempts = budget /\ row.max = items[w].max /\ row.key = items[w].key
    BY <1>1, RewriteFields
  <2> HIDE DEF row
  <2>4. RowMove(w, row)
    BY <2>1, <2>2, <2>3 DEF RowMove, Revived
  <2> QED
    BY <2>2, <2>4, MutateMoves
<1> QED
  BY <1>2, <1>3 DEF OperatorCall

\* Whatever the step, the rows stay as they are, grow older together, or one
\* of them moves.
LEMMA StepMoves ==
    ASSUME QueueInv, [Next]_vars
    PROVE  items' = items \/ Tick \/ OneRowMoves
<1>1. TypeOK /\ TypeOK'
  BY StepType DEF QueueInv
<1>2. ASSUME NEW w \in Works, NEW a \in Actors, NEW r \in Roles, ClaimWorkItem(w, a, r)
      PROVE  OneRowMoves
  BY <1>1, <1>2, ClaimMoves DEF ClaimWorkItem
<1>3. ASSUME NEW a \in Actors, NEW r \in Roles, NEW ks, ClaimNextWorkItem(a, r, ks)
      PROVE  OneRowMoves
  <2>1. PICK w \in Works : CanClaim(w, r) /\ ApplyClaim(w, a)
    BY <1>3 DEF ClaimNextWorkItem
  <2> QED
    BY <1>1, <2>1, ClaimMoves
<1>4. ASSUME NEW tk \in issued, NEW a \in Actors, HolderCall(tk.work, a, tk.token)
      PROVE  OneRowMoves
  <2>1. tk.work \in Works
    BY <1>1 DEF TypeOK, Ticket
  <2> QED
    BY <1>1, <1>4, <2>1, HolderCallMoves
<1>5. ASSUME NEW w \in Works, OperatorCall(w)
      PROVE  OneRowMoves
  BY <1>1, <1>5, OperatorCallMoves
<1>6. ASSUME NEW q \in admitted, Enqueue(q)
      PROVE  OneRowMoves
  BY <1>1, <1>6, EnqueueMoves
<1>7. CASE UNCHANGED vars
  BY <1>7 DEF vars
<1>8. ASSUME NEW w \in Works, NEW k \in Keys \cup {NoKey}, NEW m \in 1..MaxAttempts, Admit(w, k, m)
      PROVE  items' = items
  BY <1>8 DEF Admit
<1>9. ASSUME NEW q \in admitted, EnqueueAgain(q)
      PROVE  items' = items
  BY <1>9 DEF EnqueueAgain
<1>10. ASSUME NEW n \in unsent, Emit(n) \/ CrashBeforeEmit(n)
       PROVE  items' = items
  BY <1>10 DEF Emit, CrashBeforeEmit
<1>11. ASSUME NEW c, NEW b, BeginEdit(c, b)
       PROVE  items' = items
  BY <1>11 DEF BeginEdit
<1>12. ASSUME NEW e \in edits, OpenUnitFile(e) \/ WriteUnitFile(e)
       PROVE  items' = items
  BY <1>12 DEF OpenUnitFile, WriteUnitFile
<1> QED
  BY <1>2, <1>3, <1>4, <1>5, <1>6, <1>7, <1>8, <1>9, <1>10, <1>11, <1>12
     DEF Next, DefineOperatingUnit, SetOperatingUnitStatus

-----------------------------------------------------------------------------
(* Budgets, keys and closed rows                                           *)

\* A row nobody holds has no lease, and no holder unless it is done.
FreeRowsAreFree ==
    \A w \in Works :
        /\ items[w].status \notin Claimed => items[w].left = 0
        /\ items[w].status \in {"absent", "queued", "dead_letter"} => items[w].actor = NoActor

RowsInv == FreeRowsAreFree /\ AttemptsWithinBudget /\ OneRowPerKey

LEMMA RowsInvInit == Init => RowsInv
<1> SUFFICES ASSUME Init PROVE RowsInv
  OBVIOUS
<1>1. \A w \in Works : items[w] = NoRow
  BY DEF Init
<1>2. /\ NoRow.status = "absent" /\ NoRow.left = 0 /\ NoRow.actor = NoActor
      /\ NoRow.attempts = 0 /\ NoRow.max = 1 /\ NoRow.key = NoKey
  BY DEF NoRow
<1> QED
  BY <1>1, <1>2 DEF RowsInv, FreeRowsAreFree, AttemptsWithinBudget, OneRowPerKey, Claimed

\* One row moves: its own part of the invariant holds again, ...
LEMMA MoveKeepsRow ==
    ASSUME TypeOK, RowsInv, NEW w \in Works, NEW row \in Row, RowMove(w, row)
    PROVE  /\ row.status \notin Claimed => row.left = 0
           /\ row.status \in {"absent", "queued", "dead_letter"} => row.actor = NoActor
           /\ row.attempts <= row.max
           /\ row.status \in Claimed => row.attempts > 0
           /\ row.status = "dead_letter" => row.attempts = row.max
<1>1. /\ items[w].attempts \in Nat /\ items[w].max \in Nat
      /\ items[w].attempts <= items[w].max
      /\ items[w].status \in Claimed => items[w].attempts > 0
      /\ items[w].status \notin Claimed => items[w].left = 0
      /\ items[w].status \in {"absent", "queued", "dead_letter"} => items[w].actor = NoActor
  BY DEF TypeOK, Row, RowsInv, FreeRowsAreFree, AttemptsWithinBudget
<1>2. row.max \in Nat /\ row.max >= 1
  BY DEF Row
<1>3. CASE Inserted(w, row)
  BY <1>2, <1>3 DEF Inserted, Claimed
<1>4. CASE row.key = items[w].key /\ row.max = items[w].max /\ Taken(w, row)
  BY <1>1, <1>4 DEF Taken, Claimed
<1>5. CASE row.key = items[w].key /\ row.max = items[w].max /\ Kept(w, row)
  BY <1>1, <1>5 DEF Kept, Claimed
<1>6. CASE row.key = items[w].key /\ row.max = items[w].max /\ Ended(w, row)
  BY <1>1, <1>6 DEF Ended, Claimed
<1>7. CASE row.key = items[w].key /\ row.max = items[w].max /\ Withdrawn(w, row)
  BY <1>1, <1>7 DEF Withdrawn, Claimed
<1>8. CASE row.key = items[w].key /\ row.max = items[w].max /\ Revived(w, row)
  BY <1>1, <1>8 DEF Revived, Claimed
<1> QED
  BY <1>3, <1>4, <1>5, <1>6, <1>7, <1>8 DEF RowMove

\* ... and its key is its own.
LEMMA MoveKeepsKeys ==
    ASSUME TypeOK, RowsInv, NEW w \in Works, NEW row \in Row, RowMove(w, row),
           items' = [items EXCEPT ![w] = row]
    PROVE  OneRowPerKey'
<1>1. \A v \in Works : items'[v] = IF v = w THEN row ELSE items[v]
  BY DEF TypeOK
<1>2. ASSUME NEW v \in Works, v # w, items[v].key # NoKey
      PROVE  row.key # items[v].key
  <2>1. CASE Inserted(w, row)
    BY <1>2, <2>1 DEF Inserted, KeyTaken
  <2>2. CASE row.key = items[w].key
    BY <1>2, <2>2 DEF RowsInv, OneRowPerKey
  <2> QED
    BY <2>1, <2>2 DEF RowMove
<1> QED
  BY <1>1, <1>2 DEF RowsInv, OneRowPerKey

LEMMA RowsInvStep == QueueInv /\ RowsInv /\ [Next]_vars => RowsInv'
<1> SUFFICES ASSUME QueueInv, RowsInv, [Next]_vars PROVE RowsInv'
  OBVIOUS
<1>1. TypeOK
  BY DEF QueueInv
<1>2. CASE items' = items
  BY <1>2 DEF RowsInv, FreeRowsAreFree, AttemptsWithinBudget, OneRowPerKey
<1>3. CASE Tick
  <2> DEFINE less(w) == IF items[w].left > 0 THEN items[w].left - 1 ELSE 0
             later(w) == [items[w] EXCEPT !.left = less(w)]
  <2>1. \A w \in Works : items'[w] = later(w)
    BY <1>3 DEF Tick
  <2>2. ASSUME NEW w \in Works
        PROVE  /\ later(w).status = items[w].status /\ later(w).actor = items[w].actor
               /\ later(w).attempts = items[w].attempts /\ later(w).max = items[w].max
               /\ later(w).key = items[w].key /\ later(w).left = less(w)
    <3>1. items[w] \in Row
      BY <1>1 DEF TypeOK
    <3> HIDE DEF less
    <3> QED
      BY <3>1, RewriteFields
  <2>3. \A w \in Works : items[w].left = 0 => less(w) = 0
    OBVIOUS
  <2> HIDE DEF later, less
  <2> QED
    BY <2>1, <2>2, <2>3 DEF RowsInv, FreeRowsAreFree, AttemptsWithinBudget, OneRowPerKey
<1>4. CASE OneRowMoves
  <2>1. PICK w \in Works, row \in Row : items' = [items EXCEPT ![w] = row] /\ RowMove(w, row)
    BY <1>4 DEF OneRowMoves
  <2>2. \A v \in Works : items'[v] = IF v = w THEN row ELSE items[v]
    BY <1>1, <2>1 DEF TypeOK
  <2>3. FreeRowsAreFree' /\ AttemptsWithinBudget'
    BY <1>1, <2>1, <2>2, MoveKeepsRow DEF RowsInv, FreeRowsAreFree, AttemptsWithinBudget
  <2> QED
    BY <1>1, <2>1, <2>3, MoveKeepsKeys DEF RowsInv
<1> QED
  BY <1>2, <1>3, <1>4, StepMoves

LEMMA RowsInvHolds == Spec => []RowsInv
<1> QED
  BY RowsInvInit, RowsInvStep, InvariantHolds, PTL DEF Spec

\* No row is claimed more often than its budget allows, a held row has used an
\* attempt, and a dead letter all of them.
THEOREM BudgetsHold == Spec => []AttemptsWithinBudget
<1>1. RowsInv => AttemptsWithinBudget
  BY DEF RowsInv
<1> QED
  BY <1>1, RowsInvHolds, PTL

\* A retried enqueue never adds a second row under its key, however many
\* callers have passed the contract check with it.
THEOREM KeysAreUnique == Spec => []OneRowPerKey
<1>1. RowsInv => OneRowPerKey
  BY DEF RowsInv
<1> QED
  BY <1>1, RowsInvHolds, PTL

\* Finished rows keep every field, a dead letter only goes back to the queue,
\* and work is done only on a live claim and an exit of the contract in force.
THEOREM FinishedWorkIsFinal == Spec => ClosedRowsStayClosed
<1> DEFINE Kind1(w) == items[w].status \in {"done", "failed", "retired"} => items'[w] = items[w]
           Kind2(w) == items[w].status = "dead_letter" =>
                         \/ items'[w] = items[w]
                         \/ items'[w].status = "queued" /\ items'[w].actor = NoActor
           Kind3(w) == items[w].status # "done" /\ items'[w].status = "done" =>
                         items[w].left > 0 /\ items'[w].exit \in unit.exits
<1>1. ASSUME QueueInv, RowsInv, [Next]_vars, NEW w \in Works
      PROVE  Kind1(w) /\ Kind2(w) /\ Kind3(w)
  <2>1. TypeOK
    BY <1>1 DEF QueueInv
  <2>2. CASE items' = items
    BY <2>2
  <2>3. CASE Tick
    <3>1. items[w] \in Row
      BY <2>1 DEF TypeOK
    <3>2. items'[w] = [items[w] EXCEPT !.left = IF @ > 0 THEN @ - 1 ELSE 0]
      BY <2>3 DEF Tick
    <3>3. items'[w].status = items[w].status
      BY <3>1, <3>2, RewriteFields
    <3>4. CASE items[w].status \in Claimed
      BY <3>3, <3>4 DEF Claimed
    <3>5. CASE items[w].status \notin Claimed
      <4>1. items[w].left = 0
        BY <1>1, <3>5 DEF RowsInv, FreeRowsAreFree
      <4>2. items'[w] = items[w]
        BY <3>1, <3>2, <4>1 DEF Row
      <4> QED
        BY <4>2
    <3> QED
      BY <3>4, <3>5
  <2>4. CASE OneRowMoves
    <3>1. PICK v \in Works, row \in Row : items' = [items EXCEPT ![v] = row] /\ RowMove(v, row)
      BY <2>4 DEF OneRowMoves
    <3>2. items'[w] = IF w = v THEN row ELSE items[w]
      BY <2>1, <3>1 DEF TypeOK
    <3>3. CASE w = v
      <4>1. items'[w] = row /\ RowMove(w, row)
        BY <3>1, <3>2, <3>3
      <4>2. items[w].status = "dead_letter" => items[w].actor = NoActor
        BY <1>1 DEF RowsInv, FreeRowsAreFree
      <4> QED
        BY <4>1, <4>2 DEF RowMove, Inserted, Taken, Kept, Ended, Withdrawn, Revived,
                          IsClaimable, IsClaimStale, Claimed, Terminal
    <3> QED
      BY <3>2, <3>3
  <2> QED
    BY <1>1, <2>2, <2>3, <2>4, StepMoves
<1>2. QueueInv /\ RowsInv /\ [Next]_vars =>
        [\A w \in Works :
            /\ items[w].status \in {"done", "failed", "retired"} => items'[w] = items[w]
            /\ items[w].status = "dead_letter" =>
                 \/ items'[w] = items[w]
                 \/ items'[w].status = "queued" /\ items'[w].actor = NoActor
            /\ items[w].status # "done" /\ items'[w].status = "done" =>
                 items[w].left > 0 /\ items'[w].exit \in unit.exits]_vars
  BY <1>1
<1> QED
  BY <1>2, InvariantHolds, RowsInvHolds, PTL DEF Spec, ClosedRowsStayClosed

-----------------------------------------------------------------------------
(* The queue implements the fenced tasks                                   *)

StageMap == [w \in Works |-> StageOf(items[w].status)]
EpochMap == [w \in Works |-> items[w].token]
HolderMap == [w \in Works |-> IF items[w].status \in Claimed THEN items[w].actor ELSE NoActor]
LiveMap == [w \in Works |-> items[w].left > 0]

\* What StageOf says of each status.
LEMMA Stages ==
    /\ StageOf("absent") = "none" /\ StageOf("queued") = "open"
    /\ \A s \in Claimed : StageOf(s) = "held"
    /\ \A s \in Terminal : StageOf(s) = "closed"
BY DEF StageOf, Claimed, Terminal

LEMMA InitMaps == Init => Task!Init
<1> SUFFICES ASSUME Init PROVE Task!Init
  OBVIOUS
<1>1. \A w \in Works : items[w] = NoRow
  BY DEF Init
<1>2. NoRow.status = "absent" /\ NoRow.token = 0 /\ NoRow.left = 0
  BY DEF NoRow
<1>3. StageMap = [w \in Works |-> "none"] /\ EpochMap = [w \in Works |-> 0]
  BY <1>1, <1>2, Stages DEF StageMap, EpochMap
<1>4. HolderMap = [w \in Works |-> NoActor]
  BY <1>1, <1>2 DEF HolderMap, Claimed
<1>5. LiveMap = [w \in Works |-> FALSE]
  <2>1. \A w \in Works : (items[w].left > 0) = FALSE
    BY <1>1, <1>2
  <2> QED
    BY <2>1, Zenon DEF LiveMap
<1> QED
  BY <1>3, <1>4, <1>5 DEF Task!Init, StageMap, EpochMap, HolderMap, LiveMap

\* Two functions that differ in one entry.
LEMMA OneEntryMoves ==
    ASSUME NEW S, NEW f, NEW g, f = [x \in S |-> f[x]], g = [x \in S |-> g[x]],
           NEW w \in S, NEW value, g[w] = value, \A x \in S \ {w} : g[x] = f[x]
    PROVE  g = [f EXCEPT ![w] = value]
OBVIOUS

\* A row that moves changes its own entry of each map.
LEMMA MapsMove ==
    ASSUME TypeOK, NEW w \in Works, NEW row \in Row, items' = [items EXCEPT ![w] = row]
    PROVE  /\ StageMap' = [StageMap EXCEPT ![w] = StageOf(row.status)]
           /\ EpochMap' = [EpochMap EXCEPT ![w] = row.token]
           /\ HolderMap' = [HolderMap EXCEPT ![w] = IF row.status \in Claimed THEN row.actor ELSE NoActor]
           /\ LiveMap' = [LiveMap EXCEPT ![w] = row.left > 0]
<1>1. \A v \in Works : items'[v] = IF v = w THEN row ELSE items[v]
  BY DEF TypeOK
<1>2. StageMap' = [StageMap EXCEPT ![w] = StageOf(row.status)]
  <2>1. StageMap = [v \in Works |-> StageMap[v]] /\ StageMap' = [v \in Works |-> StageMap'[v]]
    BY DEF StageMap
  <2>2. StageMap'[w] = (StageOf(row.status))
    BY <1>1 DEF StageMap
  <2>3. \A v \in Works \ {w} : StageMap'[v] = StageMap[v]
    BY <1>1 DEF StageMap
  <2> HIDE DEF StageMap
  <2> QED
    BY <2>1, <2>2, <2>3, OneEntryMoves
<1>3. EpochMap' = [EpochMap EXCEPT ![w] = row.token]
  <2>1. EpochMap = [v \in Works |-> EpochMap[v]] /\ EpochMap' = [v \in Works |-> EpochMap'[v]]
    BY DEF EpochMap
  <2>2. EpochMap'[w] = (row.token)
    BY <1>1 DEF EpochMap
  <2>3. \A v \in Works \ {w} : EpochMap'[v] = EpochMap[v]
    BY <1>1 DEF EpochMap
  <2> HIDE DEF EpochMap
  <2> QED
    BY <2>1, <2>2, <2>3, OneEntryMoves
<1>4. HolderMap' = [HolderMap EXCEPT ![w] = IF row.status \in Claimed THEN row.actor ELSE NoActor]
  <2>1. HolderMap = [v \in Works |-> HolderMap[v]] /\ HolderMap' = [v \in Works |-> HolderMap'[v]]
    BY DEF HolderMap
  <2>2. HolderMap'[w] = (IF row.status \in Claimed THEN row.actor ELSE NoActor)
    BY <1>1 DEF HolderMap
  <2>3. \A v \in Works \ {w} : HolderMap'[v] = HolderMap[v]
    BY <1>1 DEF HolderMap
  <2> HIDE DEF HolderMap
  <2> QED
    BY <2>1, <2>2, <2>3, OneEntryMoves
<1>5. LiveMap' = [LiveMap EXCEPT ![w] = row.left > 0]
  <2>1. LiveMap = [v \in Works |-> LiveMap[v]] /\ LiveMap' = [v \in Works |-> LiveMap'[v]]
    BY DEF LiveMap
  <2>2. LiveMap'[w] = (row.left > 0)
    BY <1>1 DEF LiveMap
  <2>3. \A v \in Works \ {w} : LiveMap'[v] = LiveMap[v]
    BY <1>1 DEF LiveMap
  <2> HIDE DEF LiveMap
  <2> QED
    BY <2>1, <2>2, <2>3, OneEntryMoves
<1> QED
  BY <1>2, <1>3, <1>4, <1>5

\* One row moves: its task is submitted, taken, finished, withdrawn or
\* reopened, or nothing of it is seen.
LEMMA MoveIsTaskStep ==
    ASSUME QueueInv, RowsInv, NEW w \in Works, NEW row \in Row, RowMove(w, row),
           items' = [items EXCEPT ![w] = row]
    PROVE  Task!Next \/ UNCHANGED Task!vars
<1>0. TypeOK
  BY DEF QueueInv
<1>1. /\ StageMap' = [StageMap EXCEPT ![w] = StageOf(row.status)]
      /\ EpochMap' = [EpochMap EXCEPT ![w] = row.token]
      /\ HolderMap' = [HolderMap EXCEPT ![w] = IF row.status \in Claimed THEN row.actor ELSE NoActor]
      /\ LiveMap' = [LiveMap EXCEPT ![w] = row.left > 0]
  BY <1>0, MapsMove
\* The task of w as it is, ...
<1>2. /\ StageMap[w] = StageOf(items[w].status) /\ EpochMap[w] = items[w].token
      /\ HolderMap[w] = IF items[w].status \in Claimed THEN items[w].actor ELSE NoActor
      /\ LiveMap[w] <=> items[w].left > 0
  BY DEF StageMap, EpochMap, HolderMap, LiveMap
\* ... and what is written back as it was.
<1>3. /\ StageOf(row.status) = StageMap[w] => StageMap' = StageMap
      /\ row.token = items[w].token => EpochMap' = EpochMap
      /\ (IF row.status \in Claimed THEN row.actor ELSE NoActor) = HolderMap[w] => HolderMap' = HolderMap
  BY <1>1, <1>2 DEF StageMap, EpochMap, HolderMap
<1>4. (row.left > 0 <=> items[w].left > 0) => LiveMap' = LiveMap
  <2> SUFFICES ASSUME row.left > 0 <=> items[w].left > 0 PROVE LiveMap' = LiveMap
    OBVIOUS
  <2>1. \A v \in Works : items'[v].left > 0 <=> items[v].left > 0
    BY <1>0 DEF TypeOK
  <2> QED
    BY <2>1 DEF LiveMap
<1>5. /\ row.left > 0 => LiveMap' = [LiveMap EXCEPT ![w] = TRUE]
      /\ ~(row.left > 0) => LiveMap' = [LiveMap EXCEPT ![w] = FALSE]
  <2>1. LiveMap' = [LiveMap EXCEPT ![w] = row.left > 0]
    BY <1>1
  <2>2. CASE row.left > 0
    <3>1. (row.left > 0) = TRUE
      BY <2>2
    <3> QED
      BY <2>1, <2>2, <3>1, Zenon
  <2>3. CASE ~(row.left > 0)
    <3>1. (row.left > 0) = FALSE
      BY <2>3
    <3> QED
      BY <2>1, <2>3, <3>1, Zenon
  <2> QED
    BY <2>2, <2>3
<1>6. items[w].left \in Nat /\ items[w].token \in Nat /\ LeaseTicks > 0
  BY <1>0, BoundsAssumption DEF TypeOK, Row
<1>7. /\ items[w].status \notin Claimed => items[w].left = 0
      /\ items[w].status = "dead_letter" => items[w].actor = NoActor
      /\ items[w].status = "absent" => items[w].token = 0
  BY DEF RowsInv, FreeRowsAreFree, QueueInv, BlankUntilEnqueued, NoRow
<1>8. /\ row.status \notin Claimed /\ items[w].status \notin Claimed => HolderMap' = HolderMap
      /\ row.status \notin Claimed => HolderMap' = [HolderMap EXCEPT ![w] = NoActor]
      /\ row.status \in Claimed => HolderMap' = [HolderMap EXCEPT ![w] = row.actor]
  BY <1>1, <1>2, <1>3
<1>9. CASE Inserted(w, row)
  <2>1. StageMap[w] = "none" /\ StageMap' = [StageMap EXCEPT ![w] = "open"]
    BY <1>1, <1>2, <1>9, Stages DEF Inserted
  <2>2. EpochMap' = EpochMap /\ LiveMap' = LiveMap /\ HolderMap' = HolderMap
    BY <1>3, <1>4, <1>7, <1>8, <1>9 DEF Inserted, Claimed
  <2>3. Task!Submit(w)
    BY <2>1, <2>2 DEF Task!Submit, StageMap, EpochMap, HolderMap, LiveMap
  <2> QED
    BY <2>3 DEF Task!Next
<1>10. CASE Taken(w, row)
  <2>1. StageMap[w] = "open" \/ (StageMap[w] = "held" /\ ~LiveMap[w])
    BY <1>2, <1>10, Stages DEF Taken, IsClaimable, IsClaimStale
  <2>2. StageMap' = [StageMap EXCEPT ![w] = "held"]
    BY <1>1, <1>10, Stages DEF Taken, Claimed
  <2>3. EpochMap' = [EpochMap EXCEPT ![w] = @ + 1]
    BY <1>1, <1>2, <1>10 DEF Taken
  <2>4. HolderMap' = [HolderMap EXCEPT ![w] = row.actor] /\ row.actor \in Actors
    BY <1>8, <1>10 DEF Taken, Claimed
  <2>5. LiveMap' = [LiveMap EXCEPT ![w] = TRUE]
    BY <1>5, <1>6, <1>10 DEF Taken
  <2>6. Task!Take(w, row.actor)
    BY <2>1, <2>2, <2>3, <2>4, <2>5 DEF Task!Take, Task!Held, StageMap, EpochMap, HolderMap, LiveMap
  <2> QED
    BY <2>4, <2>6 DEF Task!Next
<1>11. CASE Kept(w, row)
  <2>1. StageMap' = StageMap
    BY <1>2, <1>3, <1>11, Stages DEF Kept
  <2>2. HolderMap' = HolderMap /\ EpochMap' = EpochMap
    BY <1>2, <1>3, <1>11 DEF Kept
  <2>3. LiveMap' = LiveMap
    BY <1>4, <1>11 DEF Kept
  <2>4. UNCHANGED Task!vars
    BY <2>1, <2>2, <2>3 DEF Task!vars, StageMap, EpochMap, HolderMap, LiveMap
  <2> QED
    BY <2>4
<1>12. CASE Ended(w, row)
  <2> DEFINE outcome == StageOf(row.status)
  <2>1. StageMap[w] = "held" /\ LiveMap[w]
    BY <1>2, <1>12, Stages DEF Ended
  <2>2. outcome \in {"open", "closed"} /\ StageMap' = [StageMap EXCEPT ![w] = outcome]
    BY <1>1, <1>12, Stages DEF Ended, Terminal
  <2>3. HolderMap' = [HolderMap EXCEPT ![w] = NoActor]
    BY <1>8, <1>12 DEF Ended, Claimed
  <2>4. LiveMap' = [LiveMap EXCEPT ![w] = FALSE] /\ EpochMap' = EpochMap
    BY <1>3, <1>5, <1>12 DEF Ended
  <2> HIDE DEF outcome
  <2>5. Task!Finish(w, outcome)
    BY <2>1, <2>2, <2>3, <2>4 DEF Task!Finish, Task!Held, StageMap, EpochMap, HolderMap, LiveMap
  <2> QED
    BY <2>2, <2>5 DEF Task!Next
<1>13. CASE Withdrawn(w, row)
  <2>1. StageMap[w] \in {"open", "held"}
    <3>1. items[w].status = "queued" \/ items[w].status \in Claimed
      BY <1>0, <1>13 DEF Withdrawn, TypeOK, Row, Status
    <3> QED
      BY <1>2, <3>1, Stages
  <2>2. StageMap' = [StageMap EXCEPT ![w] = "closed"]
    BY <1>1, <1>13, Stages DEF Withdrawn, Terminal
  <2>3. HolderMap' = [HolderMap EXCEPT ![w] = NoActor]
    BY <1>8, <1>13 DEF Withdrawn, Claimed
  <2>4. LiveMap' = [LiveMap EXCEPT ![w] = FALSE] /\ EpochMap' = EpochMap
    BY <1>3, <1>5, <1>13 DEF Withdrawn
  <2>5. Task!Withdraw(w)
    BY <2>1, <2>2, <2>3, <2>4 DEF Task!Withdraw, StageMap, EpochMap, HolderMap, LiveMap
  <2> QED
    BY <2>5 DEF Task!Next
<1>14. CASE Revived(w, row)
  <2>1. StageMap[w] = "closed" /\ StageMap' = [StageMap EXCEPT ![w] = "open"]
    BY <1>1, <1>2, <1>14, Stages DEF Revived, Terminal
  <2>2. EpochMap' = EpochMap /\ LiveMap' = LiveMap /\ HolderMap' = HolderMap
    BY <1>3, <1>4, <1>8, <1>14 DEF Revived, Claimed
  <2>3. Task!Reopen(w)
    BY <2>1, <2>2 DEF Task!Reopen, StageMap, EpochMap, HolderMap, LiveMap
  <2> QED
    BY <2>3 DEF Task!Next
<1> QED
  BY <1>9, <1>10, <1>11, <1>12, <1>13, <1>14 DEF RowMove

\* A tick lets the holds lapse whose lease had one tick left.
LEMMA TickIsLapse ==
    ASSUME TypeOK, RowsInv, Tick
    PROVE  Task!Next
<1> DEFINE less(w) == IF items[w].left > 0 THEN items[w].left - 1 ELSE 0
           later(w) == [items[w] EXCEPT !.left = less(w)]
<1>0. PICK lapsed \in SUBSET Works : \A w \in Works : w \in lapsed <=> items[w].left = 1
  <2>1. \A w \in Works : w \in {v \in Works : items[v].left = 1} <=> items[w].left = 1
    OBVIOUS
  <2> QED
    BY <2>1
<1>1. \A w \in Works : items'[w] = later(w)
  BY DEF Tick
<1>2. ASSUME NEW w \in Works
      PROVE  /\ later(w).status = items[w].status /\ later(w).actor = items[w].actor
             /\ later(w).token = items[w].token /\ later(w).left = less(w)
  <2>1. items[w] \in Row
    BY DEF TypeOK
  <2> HIDE DEF less
  <2> QED
    BY <2>1, RewriteFields
<1>3. ASSUME NEW w \in Works
      PROVE  less(w) > 0 <=> items[w].left > 0 /\ w \notin lapsed
  BY <1>0 DEF TypeOK, Row
<1> HIDE DEF later, less
<1>4. StageMap' = StageMap /\ EpochMap' = EpochMap /\ HolderMap' = HolderMap
  BY <1>1, <1>2 DEF StageMap, EpochMap, HolderMap
<1>5. \A w \in lapsed : StageMap[w] = "held" /\ LiveMap[w]
  <2>1. \A w \in lapsed : items[w].left > 0 /\ items[w].status \in Claimed
    BY <1>0 DEF RowsInv, FreeRowsAreFree
  <2> QED
    BY <2>1, Stages DEF StageMap, LiveMap
<1>6. LiveMap' = [w \in Works |-> LiveMap[w] /\ w \notin lapsed]
  <2>1. \A w \in Works : items'[w].left > 0 <=> items[w].left > 0 /\ w \notin lapsed
    BY <1>1, <1>2, <1>3
  <2>2. \A w \in Works : LiveMap[w] <=> items[w].left > 0
    BY DEF LiveMap
  <2> QED
    BY <2>1, <2>2 DEF LiveMap
<1>7. Task!Lapse(lapsed)
  BY <1>4, <1>5, <1>6 DEF Task!Lapse, Task!Held, StageMap, EpochMap, HolderMap, LiveMap
<1> QED
  BY <1>7 DEF Task!Next

\* Seen from outside, the queue is a set of fenced tasks: a task has one holder
\* at a time, and only a live holder finishes it.
THEOREM QueueIsFenced == Spec => ImplementsFencedTask
<1>1. QueueInv /\ RowsInv /\ [Next]_vars => [Task!Next]_(Task!vars)
  <2> SUFFICES ASSUME QueueInv, RowsInv, [Next]_vars PROVE Task!Next \/ UNCHANGED Task!vars
    OBVIOUS
  <2>1. TypeOK
    BY DEF QueueInv
  <2>2. CASE items' = items
    BY <2>2 DEF Task!vars
  <2>3. CASE Tick
    BY <2>1, <2>3, TickIsLapse
  <2>4. CASE OneRowMoves
    BY <2>4, MoveIsTaskStep DEF OneRowMoves
  <2> QED
    BY <2>2, <2>3, <2>4, StepMoves
<1> QED
  BY <1>1, InitMaps, InvariantHolds, RowsInvHolds, PTL DEF Spec, ImplementsFencedTask, Task!Spec
-----------------------------------------------------------------------------
(* Events are announced under fresh keys                                   *)

\* The verbs events of a row may bear that were announced under its present
\* token, by the status the row is in.
Told(status) ==
    CASE status = "absent" -> {}
      [] status = "queued" -> Verbs \ {"retired"}
      [] status = "claimed" -> {"claimed", "heartbeat"}
      [] status = "running" -> {"claimed", "started", "heartbeat"}
      [] status = "dead_letter" -> {"claimed", "started", "heartbeat", "dead_lettered"}
      [] OTHER -> Verbs

\* What makes the announcements fresh: no event is ahead of its row's token,
\* and none under that token has a verb the row could still announce.
NothingToldAhead ==
    \A n \in EventKey : Announced(n) =>
        /\ n.token <= items[n.work].token
        /\ n.token = items[n.work].token => n.verb \in Told(items[n.work].status)

\* What an operation that writes row over the row of w announces as verb: the
\* first verb of a new token, or a change of status under the old one.
Announces(w, row, verb) ==
    \/ row.token = items[w].token + 1 /\ row.status = "claimed" /\ verb = "claimed"
    \/ /\ row.token = items[w].token
       /\ verb \in Told(row.status)
       /\ Told(items[w].status) \subseteq Told(row.status)
       /\ row.status # items[w].status => verb \notin Told(items[w].status)

\* One row is rewritten and the change is left to be announced.
OneRowAnnounced ==
    \E w \in Works, row \in Row, verb \in Verbs :
        Mutate(w, row, verb) /\ Announces(w, row, verb)

\* The table, status by status.
LEMMA ToldTable ==
    /\ Told("absent") = {}
    /\ Told("queued") = Verbs \ {"retired"}
    /\ Told("claimed") = {"claimed", "heartbeat"}
    /\ Told("running") = {"claimed", "started", "heartbeat"}
    /\ Told("dead_letter") = {"claimed", "started", "heartbeat", "dead_lettered"}
    /\ \A s \in {"done", "failed", "retired"} : Told(s) = Verbs
BY DEF Told

\* A row that has been rewritten is the one the operation has written.
LEMMA MutateAnnounces ==
    ASSUME TypeOK, TypeOK', NEW w \in Works, NEW row, NEW verb \in Verbs,
           Mutate(w, row, verb), Announces(w, row, verb)
    PROVE  OneRowAnnounced
<1>1. items' = [items EXCEPT ![w] = row] /\ items' \in [Works -> Row] /\ items \in [Works -> Row]
  BY DEF Mutate, TypeOK
<1>2. row \in Row
  BY <1>1
<1> QED
  BY <1>2 DEF OneRowAnnounced

LEMMA EnqueueAnnounces ==
    ASSUME QueueInv, TypeOK', NEW q \in admitted, Enqueue(q)
    PROVE  OneRowAnnounced
<1> DEFINE row == [NoRow EXCEPT !.status = "queued", !.key = q.key,
                                !.max = q.max, !.pos = rows + 1]
<1>1. /\ TypeOK /\ q.work \in Works
      /\ items[q.work].status = "absent" /\ items[q.work].token = NoRow.token
  BY DEF QueueInv, TypeOK, Request, BlankUntilEnqueued
<1>2. row.status = "queued" /\ row.token = NoRow.token
  BY NoRowIsRow, RewriteFields
<1>3. Mutate(q.work, row, "enqueued")
  BY DEF Enqueue
<1> HIDE DEF row
<1>4. Announces(q.work, row, "enqueued") /\ "enqueued" \in Verbs
  BY <1>1, <1>2, ToldTable DEF Announces, Verbs
<1> QED
  BY <1>1, <1>3, <1>4, MutateAnnounces

LEMMA ClaimAnnounces ==
    ASSUME TypeOK, TypeOK', NEW w \in Works, NEW a \in Actors, ApplyClaim(w, a)
    PROVE  OneRowAnnounced
<1> DEFINE token == items[w].token + 1
           row == [items[w] EXCEPT !.status = "claimed", !.actor = a,
                                   !.attempts = @ + 1, !.token = token,
                                   !.left = LeaseTicks]
<1>1. items[w] \in Row
  BY DEF TypeOK
<1>2. row.status = "claimed" /\ row.token = token
  <2> HIDE DEF token
  <2> QED
    BY <1>1, RewriteFields
<1>3. Mutate(w, row, "claimed")
  BY DEF ApplyClaim
<1> HIDE DEF row
<1>4. Announces(w, row, "claimed") /\ "claimed" \in Verbs
  BY <1>2 DEF Announces, Verbs
<1> QED
  BY <1>3, <1>4, MutateAnnounces

LEMMA HolderCallAnnounces ==
    ASSUME TypeOK, TypeOK', NEW w \in Works, NEW a, NEW t, HolderCall(w, a, t)
    PROVE  OneRowAnnounced
<1>1. items[w] \in Row
  BY DEF TypeOK
<1>2. items[w].status \in {"claimed", "running"}
  <2>1. items[w].status \in Claimed
    BY DEF HolderCall, StartWorkItem, HeartbeatWorkItem, CompleteWorkItem, FailWorkItem,
           RequireLiveClaim
  <2> QED
    BY <2>1 DEF Claimed
<1>3. CASE StartWorkItem(w, a, t)
  <2> DEFINE row == [items[w] EXCEPT !.status = "running"]
  <2>1. row.status = "running" /\ row.token = items[w].token
    BY <1>1, RewriteFields
  <2>2. Mutate(w, row, "started")
    BY <1>3 DEF StartWorkItem
  <2> HIDE DEF row
  <2>3. Announces(w, row, "started") /\ "started" \in Verbs
    BY <1>2, <2>1, ToldTable DEF Announces, Verbs
  <2> QED
    BY <2>2, <2>3, MutateAnnounces
<1>4. CASE HeartbeatWorkItem(w, a, t)
  <2> DEFINE row == [items[w] EXCEPT !.left = LeaseTicks]
  <2>1. row.status = items[w].status /\ row.token = items[w].token
    BY <1>1, RewriteFields
  <2>2. Mutate(w, row, "heartbeat")
    BY <1>4 DEF HeartbeatWorkItem
  <2> HIDE DEF row
  <2>3. Announces(w, row, "heartbeat") /\ "heartbeat" \in Verbs
    BY <1>2, <2>1, ToldTable DEF Announces, Verbs
  <2> QED
    BY <2>2, <2>3, MutateAnnounces
<1>5. ASSUME NEW e \in Exits, CompleteWorkItem(w, a, t, e)
      PROVE  OneRowAnnounced
  <2> DEFINE row == [items[w] EXCEPT !.status = "done", !.exit = e, !.left = 0]
  <2>1. row.status = "done" /\ row.token = items[w].token
    BY <1>1, RewriteFields
  <2>2. Mutate(w, row, "completed")
    BY <1>5 DEF CompleteWorkItem
  <2> HIDE DEF row
  <2>3. Announces(w, row, "completed") /\ "completed" \in Verbs
    BY <1>2, <2>1, ToldTable DEF Announces, Verbs
  <2> QED
    BY <2>2, <2>3, MutateAnnounces
<1>6. ASSUME NEW retryable \in BOOLEAN, FailWorkItem(w, a, t, retryable)
      PROVE  OneRowAnnounced
  <2> DEFINE next == FailStatus(w, retryable)
             row == [items[w] EXCEPT !.status = next, !.actor = NoActor, !.left = 0]
  <2>1. next \in {"queued", "failed", "dead_letter"}
    BY DEF FailStatus
  <2>2. Mutate(w, row, FailVerb[next])
    BY <1>6 DEF FailWorkItem
  <2> HIDE DEF next
  <2>3. row.status = next /\ row.token = items[w].token
    BY <1>1, RewriteFields
  <2> HIDE DEF row
  <2>4. FailVerb[next] =
          IF next = "queued" THEN "failed_retry"
          ELSE IF next = "failed" THEN "failed" ELSE "dead_lettered"
    BY <2>1 DEF FailVerb
  <2>5. Announces(w, row, FailVerb[next]) /\ FailVerb[next] \in Verbs
    BY <1>2, <2>1, <2>3, <2>4, ToldTable DEF Announces, Verbs
  <2> QED
    BY <2>2, <2>5, MutateAnnounces
<1> QED
  BY <1>3, <1>4, <1>5, <1>6 DEF HolderCall

LEMMA OperatorCallAnnounces ==
    ASSUME TypeOK, TypeOK', NEW w \in Works, OperatorCall(w)
    PROVE  OneRowAnnounced
<1>1. items[w] \in Row
  BY DEF TypeOK
<1>2. CASE RetireWorkItem(w)
  <2> DEFINE row == [items[w] EXCEPT !.status = "retired", !.actor = NoActor, !.left = 0]
  <2>1. row.status = "retired" /\ row.token = items[w].token
    BY <1>1, RewriteFields
  <2>2. Mutate(w, row, "retired") /\ items[w].status \in {"queued", "claimed", "running"}
    BY <1>1, <1>2 DEF RetireWorkItem, Row, Status, Claimed
  <2> HIDE DEF row
  <2>3. Announces(w, row, "retired") /\ "retired" \in Verbs
    BY <2>1, <2>2, ToldTable DEF Announces, Verbs
  <2> QED
    BY <2>2, <2>3, MutateAnnounces
<1>3. ASSUME NEW reset \in BOOLEAN, RequeueDeadLetter(w, reset)
      PROVE  OneRowAnnounced
  <2> DEFINE budget == IF reset THEN 0 ELSE items[w].attempts
             row == [items[w] EXCEPT !.status = "queued", !.attempts = budget]
  <2>1. Mutate(w, row, "requeued") /\ items[w].status = "dead_letter"
    BY <1>3 DEF RequeueDeadLetter
  <2> HIDE DEF budget
  <2>2. row.status = "queued" /\ row.token = items[w].token
    BY <1>1, RewriteFields
  <2> HIDE DEF row
  <2>3. Announces(w, row, "requeued") /\ "requeued" \in Verbs
    BY <2>1, <2>2, ToldTable DEF Announces, Verbs
  <2> QED
    BY <2>1, <2>3, MutateAnnounces
<1> QED
  BY <1>2, <1>3 DEF OperatorCall

\* The rest of the steps change no status and no token, and announce nothing.
Quiet ==
    /\ \A w \in Works : items'[w].status = items[w].status /\ items'[w].token = items[w].token
    /\ \A n \in EventKey : Announced(n)' => Announced(n)

LEMMA StepAnnounces ==
    ASSUME QueueInv, [Next]_vars
    PROVE  OneRowAnnounced \/ Quiet
<1>1. TypeOK /\ TypeOK'
  BY StepType DEF QueueInv
<1>2. ASSUME NEW w \in Works, NEW a \in Actors, NEW r \in Roles, ClaimWorkItem(w, a, r)
      PROVE  OneRowAnnounced
  BY <1>1, <1>2, ClaimAnnounces DEF ClaimWorkItem
<1>3. ASSUME NEW a \in Actors, NEW r \in Roles, NEW ks, ClaimNextWorkItem(a, r, ks)
      PROVE  OneRowAnnounced
  BY <1>1, <1>3, ClaimAnnounces DEF ClaimNextWorkItem
<1>4. ASSUME NEW tk \in issued, NEW a \in Actors, HolderCall(tk.work, a, tk.token)
      PROVE  OneRowAnnounced
  <2>1. tk.work \in Works
    BY <1>1 DEF TypeOK, Ticket
  <2> QED
    BY <1>1, <1>4, <2>1, HolderCallAnnounces
<1>5. ASSUME NEW w \in Works, OperatorCall(w)
      PROVE  OneRowAnnounced
  BY <1>1, <1>5, OperatorCallAnnounces
<1>6. ASSUME NEW q \in admitted, Enqueue(q)
      PROVE  OneRowAnnounced
  BY <1>1, <1>6, EnqueueAnnounces
<1>7. ASSUME items' = items, unsent' = unsent, emitted' = emitted
      PROVE  Quiet
  BY <1>7 DEF Quiet, Announced
<1>8. CASE UNCHANGED vars
  BY <1>7, <1>8 DEF vars, logVars
<1>9. ASSUME NEW w \in Works, NEW k \in Keys \cup {NoKey}, NEW m \in 1..MaxAttempts, Admit(w, k, m)
      PROVE  Quiet
  BY <1>7, <1>9 DEF Admit, logVars
<1>10. ASSUME NEW q \in admitted, EnqueueAgain(q)
       PROVE  Quiet
  BY <1>7, <1>10 DEF EnqueueAgain, logVars
<1>11. ASSUME NEW n \in unsent, Emit(n)
       PROVE  Quiet
  <2> DEFINE g == /\ n.verb = "completed"
                  /\ unit # NoUnit
                  /\ items[n.work].exit \in unit.governed
  <2>1. unsent' \subseteq unsent /\ items' = items
        /\ emitted' = emitted \cup {[key |-> n, governed |-> g]}
    BY <1>11 DEF Emit
  <2> HIDE DEF g
  <2>2. [key |-> n, governed |-> g].key = n
    OBVIOUS
  <2> QED
    BY <2>1, <2>2 DEF Quiet, Announced
<1>12. ASSUME NEW n \in unsent, CrashBeforeEmit(n)
       PROVE  Quiet
  BY <1>12 DEF CrashBeforeEmit, Quiet, Announced
<1>13. ASSUME NEW c, NEW b, BeginEdit(c, b)
       PROVE  Quiet
  BY <1>7, <1>13 DEF BeginEdit, logVars
<1>14. ASSUME NEW e \in edits, OpenUnitFile(e) \/ WriteUnitFile(e)
       PROVE  Quiet
  BY <1>7, <1>14 DEF OpenUnitFile, WriteUnitFile, logVars
<1>15. CASE Tick
  <2>1. unsent' = unsent /\ emitted' = emitted
    BY <1>15 DEF Tick, logVars
  <2>2. ASSUME NEW w \in Works
        PROVE  items'[w].status = items[w].status /\ items'[w].token = items[w].token
    <3>1. items[w] \in Row
      BY <1>1 DEF TypeOK
    <3>2. items'[w] = [items[w] EXCEPT !.left = IF @ > 0 THEN @ - 1 ELSE 0]
      BY <1>15 DEF Tick
    <3> QED
      BY <3>1, <3>2, RewriteFields
  <2> QED
    BY <2>1, <2>2 DEF Quiet, Announced
<1> QED
  BY <1>2, <1>3, <1>4, <1>5, <1>6, <1>8, <1>9, <1>10, <1>11, <1>12, <1>13, <1>14, <1>15
     DEF Next, DefineOperatingUnit, SetOperatingUnitStatus

\* A change that is announced this way is announced under a fresh key, and
\* leaves nothing told ahead.
LEMMA AnnouncedFresh ==
    ASSUME TypeOK, TypeOK', NothingToldAhead, NEW w \in Works, NEW row \in Row,
           NEW verb \in Verbs, Mutate(w, row, verb), Announces(w, row, verb)
    PROVE  /\ NothingToldAhead'
           /\ \A v \in Works :
                items'[v].status # items[v].status \/ items'[v].token # items[v].token =>
                    \E n \in unsent' : n.work = v /\ ~Announced(n)
<1> DEFINE key == [verb |-> verb, work |-> w, token |-> row.token]
<1>1. row.token \in Nat /\ items[w].token \in Nat
  BY DEF TypeOK, Row
<1>2. key \in EventKey /\ key.verb = verb /\ key.work = w /\ key.token = row.token
  BY <1>1 DEF EventKey
<1>3. /\ unsent' = unsent \cup {key} /\ emitted' = emitted
      /\ \A v \in Works : items'[v] = IF v = w THEN row ELSE items[v]
  BY DEF Mutate, TypeOK
<1> HIDE DEF key
<1>4. ASSUME row.token = items[w].token + 1 \/ row.status # items[w].status
      PROVE  ~Announced(key)
  BY <1>1, <1>2, <1>4 DEF Announces, NothingToldAhead
<1>5. ASSUME NEW n \in EventKey, Announced(n)', n.work = w
      PROVE  n.token <= row.token /\ (n.token = row.token => n.verb \in Told(row.status))
  <2>1. CASE n = key
    BY <1>1, <1>2, <2>1, ToldTable DEF Announces
  <2>2. CASE n # key
    <3>1. Announced(n)
      BY <1>3, <1>5, <2>2 DEF Announced
    <3>2. n.token \in Nat /\ n.token <= items[w].token
          /\ (n.token = items[w].token => n.verb \in Told(items[w].status))
      BY <1>5, <3>1 DEF NothingToldAhead, EventKey
    <3> QED
      BY <1>1, <3>2 DEF Announces
  <2> QED
    BY <2>1, <2>2
<1>6. ASSUME NEW n \in EventKey, Announced(n)', n.work # w
      PROVE  /\ n.token <= items'[n.work].token
             /\ n.token = items'[n.work].token => n.verb \in Told(items'[n.work].status)
  <2>1. Announced(n) /\ n.work \in Works
    BY <1>2, <1>3, <1>6 DEF Announced, EventKey
  <2> QED
    BY <1>3, <1>6, <2>1 DEF NothingToldAhead
<1>7. NothingToldAhead'
  BY <1>3, <1>5, <1>6 DEF NothingToldAhead
<1>8. ASSUME NEW v \in Works,
             items'[v].status # items[v].status \/ items'[v].token # items[v].token
      PROVE  \E n \in unsent' : n.work = v /\ ~Announced(n)
  <2>1. v = w /\ (row.status # items[w].status \/ row.token # items[w].token)
    BY <1>3, <1>8
  <2>2. row.token = items[w].token + 1 \/ row.status # items[w].status
    BY <2>1 DEF Announces
  <2> QED
    BY <1>2, <1>3, <1>4, <2>1, <2>2
<1> QED
  BY <1>7, <1>8

\* Each change of a row's status or token leaves an event to append under an
\* idempotency key no earlier event of the queue has used, so a consumer that
\* drops repeated keys drops no transition of any row.
THEOREM TransitionsAreToldApart == Spec => FreshAnnouncement
<1> DEFINE Fresh == \A w \in Works :
              items'[w].status # items[w].status \/ items'[w].token # items[w].token =>
                  \E n \in unsent' : n.work = w /\ ~Announced(n)
<1>1. Init => NothingToldAhead
  BY DEF Init, NothingToldAhead, Announced
<1>2. ASSUME QueueInv, NothingToldAhead, [Next]_vars
      PROVE  NothingToldAhead' /\ Fresh
  <2>1. TypeOK /\ TypeOK'
    BY <1>2, StepType DEF QueueInv
  <2>2. CASE OneRowAnnounced
    BY <1>2, <2>1, <2>2, AnnouncedFresh DEF OneRowAnnounced
  <2>3. CASE Quiet
    <3>1. ASSUME NEW n \in EventKey, Announced(n)'
          PROVE  /\ n.token <= items'[n.work].token
                 /\ n.token = items'[n.work].token => n.verb \in Told(items'[n.work].status)
      <4>1. n.work \in Works /\ Announced(n)
        BY <2>3, <3>1 DEF Quiet, EventKey
      <4> QED
        BY <1>2, <2>3, <4>1 DEF Quiet, NothingToldAhead
    <3>2. NothingToldAhead'
      BY <3>1 DEF NothingToldAhead
    <3> QED
      BY <2>3, <3>2 DEF Quiet
  <2> QED
    BY <1>2, <2>2, <2>3, StepAnnounces
<1>3. QueueInv /\ NothingToldAhead /\ [Next]_vars => NothingToldAhead'
  BY <1>2
<1>4. QueueInv /\ NothingToldAhead /\ [Next]_vars =>
        [\A w \in Works :
            items'[w].status # items[w].status \/ items'[w].token # items[w].token =>
                \E n \in unsent' : n.work = w /\ ~Announced(n)]_vars
  BY <1>2
<1> QED
  BY <1>1, <1>3, <1>4, InvariantHolds, PTL DEF Spec, FreshAnnouncement
=============================================================================
