-------------------------- MODULE LeaseStoreProofs --------------------------
(***************************************************************************)
(* Theorems about the lease store, for any number of resources, actors,    *)
(* leases, callers, writes and crashes.                                    *)
(***************************************************************************)
EXTENDS LeaseStore, TLAPS

-----------------------------------------------------------------------------
(* Type correctness                                                        *)

LEMMA NoLeaseIsRow == NoLease \in Row
BY StoreAssumption, SMT DEF NoLease, Row

LEMMA InitType == Init => TypeOK
<1> SUFFICES ASSUME Init PROVE TypeOK
  OBVIOUS
<1>1. leases \in [Ids -> Row]
  BY NoLeaseIsRow DEF Init
<1>2. writes \in [Resources -> Seq([actor: Actors, token: Nat])]
  BY DEF Init
<1> QED
  BY <1>1, <1>2 DEF Init, TypeOK

\* The tokens that rows of r carry, and 0.
TokensOf(r) == {0} \cup {leases[i].token : i \in {j \in Ids : Exists(j) /\ leases[j].resource = r}}

\* They have a largest one: there is no need for Ids to be finite.
HasTop == \A r \in Resources : \E m \in TokensOf(r) : \A n \in TokensOf(r) : m >= n

\* The next token is above all of them, and its predecessor is one of them.
LEMMA NextTokenIsNext ==
    ASSUME TypeOK, HasTop, NEW r \in Resources
    PROVE  /\ NextToken(r) \in Nat \ {0}
           /\ NextToken(r) - 1 \in TokensOf(r)
           /\ \A n \in TokensOf(r) : n \in Nat /\ n < NextToken(r)
<1>1. TokensOf(r) \subseteq Nat
  BY DEF TokensOf, TypeOK, Row
<1>2. PICK m \in TokensOf(r) : \A n \in TokensOf(r) : m >= n
  BY DEF HasTop
<1> DEFINE top == CHOOSE x \in TokensOf(r) : \A y \in TokensOf(r) : x >= y
<1>3. top \in TokensOf(r) /\ \A n \in TokensOf(r) : top >= n
  BY <1>2
<1>4. NextToken(r) = 1 + top
  BY DEF NextToken, Max, TokensOf
<1> HIDE DEF top
<1> QED
  BY <1>1, <1>3, <1>4

LEMMA StepType == TypeOK /\ HasTop /\ [Next]_vars => TypeOK'
<1> SUFFICES ASSUME TypeOK, HasTop, [Next]_vars PROVE TypeOK'
  OBVIOUS
<1> USE DEF TypeOK
<1>1. ASSUME NEW i \in Ids, NEW r \in Resources, NEW a \in Actors, Acquire(i, r, a)
      PROVE  TypeOK'
  <2>1. NextToken(r) \in Nat
    BY NextTokenIsNext
  <2>2. LeaseTicks \in 0..LeaseTicks
    BY StoreAssumption
  <2>3. [state |-> "active", resource |-> r, actor |-> a,
         token |-> NextToken(r), left |-> LeaseTicks] \in Row
    BY <2>1, <2>2 DEF Row
  <2>4. leases' \in [Ids -> Row]
    BY <1>1, <2>3 DEF Acquire
  <2>5. [resource |-> r, id |-> i, actor |-> a, token |-> NextToken(r)] \in Grant
    BY <2>1 DEF Grant
  <2> QED
    BY <1>1, <2>4, <2>5 DEF Acquire
<1>2. ASSUME NEW i \in Ids PROVE Released(i) \in [Ids -> Row]
  BY DEF Released, Row
<1>3. ASSUME NEW i \in Ids, NEW a \in Actors, ReleaseInTransaction(i, a)
      PROVE  TypeOK'
  BY <1>2, <1>3 DEF ReleaseInTransaction
<1>4. ASSUME NEW i \in Ids, NEW a \in Actors, BeginRelease(i, a)
      PROVE  TypeOK'
  BY <1>4 DEF BeginRelease
<1>5. CASE EndRelease
  BY <1>2, <1>5 DEF EndRelease
<1>6. CASE CrashRelease
  <2>1. leases' \in [Ids -> Row]
    BY <1>6, NoLeaseIsRow DEF CrashRelease
  <2>2. releasing' \in Ids \cup {NoId} /\ crashes' \in Nat
    BY <1>6 DEF CrashRelease
  <2>3. granted' = granted /\ cleared' = cleared /\ writes' = writes
    BY <1>6 DEF CrashRelease
  <2> QED
    BY <2>1, <2>2, <2>3
<1>7. ASSUME NEW r \in Resources, NEW i \in Ids \cup {NoId}, NEW a \in Actors, NEW t,
             Preflight(r, i, a, t)
      PROVE  TypeOK'
  <2>1. TokenOf(i) \in Nat
    BY DEF TokenOf, Row
  <2>2. [resource |-> r, id |-> i, actor |-> a, token |-> TokenOf(i)] \in Request
    BY <2>1 DEF Request
  <2> QED
    BY <1>7, <2>2 DEF Preflight
<1>8. ASSUME NEW r \in Resources, NEW a \in Actors, NEW t \in Nat, Write(r, a, t)
      PROVE  writes' \in [Resources -> Seq([actor: Actors, token: Nat])]
  <2> DEFINE Entry == [actor: Actors, token: Nat]
  <2>1. [actor |-> a, token |-> t] \in Entry
    OBVIOUS
  <2>2. writes \in [Resources -> Seq(Entry)]
    OBVIOUS
  <2> HIDE DEF Entry
  <2>3. Append(writes[r], [actor |-> a, token |-> t]) \in Seq(Entry)
    BY <2>1, <2>2
  <2>4. writes' \in [Resources -> Seq(Entry)]
    BY <1>8, <2>2, <2>3 DEF Write
  <2> QED
    BY <2>4 DEF Entry
<1>9. ASSUME NEW q \in cleared, ApplyMutation(q)
      PROVE  TypeOK'
  <2>1. q.resource \in Resources /\ q.actor \in Actors /\ q.token \in Nat
    BY DEF Request
  <2> QED
    BY <1>8, <1>9, <2>1 DEF ApplyMutation
<1>10. ASSUME NEW g \in granted, NEW a \in Actors, GuardedAppend(g.resource, g.id, a, g.token)
       PROVE  TypeOK'
  <2>1. g.resource \in Resources /\ g.token \in Nat
    BY DEF Grant
  <2> QED
    BY <1>8, <1>10, <2>1 DEF GuardedAppend
<1>11. CASE Tick
  <2>1. \A i \in Ids : [leases[i] EXCEPT !.left = IF @ > 0 THEN @ - 1 ELSE 0] \in Row
    <3> TAKE i \in Ids
    <3>1. leases[i] \in Row /\ leases[i].left \in 0..LeaseTicks
      BY DEF Row
    <3>2. (IF leases[i].left > 0 THEN leases[i].left - 1 ELSE 0) \in 0..LeaseTicks
      BY <3>1, StoreAssumption
    <3> QED
      BY <3>1, <3>2 DEF Row
  <2> QED
    BY <1>11, <2>1 DEF Tick
<1>12. CASE UNCHANGED vars
  BY <1>12 DEF vars
<1>13. \A g \in granted : g.resource \in Resources /\ g.id \in Ids
  BY DEF Grant
<1> QED
  BY <1>1, <1>3, <1>4, <1>5, <1>6, <1>7, <1>9, <1>10, <1>11, <1>12, <1>13 DEF Next
-----------------------------------------------------------------------------
(* The inductive invariant                                                 *)

\* Rows of one resource carry different tokens.
TokensDiffer ==
    \A i, j \in Ids :
        /\ Exists(i) /\ Exists(j)
        /\ leases[i].resource = leases[j].resource
        /\ leases[i].token = leases[j].token
        => i = j

\* A row is what some acquire returned.
RowsAreGranted ==
    \A i \in Ids : Exists(i) =>
        [resource |-> leases[i].resource, id |-> i, actor |-> leases[i].actor,
         token |-> leases[i].token] \in granted

\* A release is of a row there is.
ReleasingExists == releasing # NoId => releasing \in Ids /\ Exists(releasing)

\* What an acquire returned is a row, as long as no release has lost the file.
GrantsHaveRows ==
    crashes > 0 \/ \A g \in granted :
        /\ Exists(g.id)
        /\ leases[g.id].resource = g.resource
        /\ leases[g.id].actor = g.actor
        /\ leases[g.id].token = g.token

LeaseInv ==
    /\ TypeOK
    /\ HasTop
    /\ OneLiveLease
    /\ TokensDiffer
    /\ RowsAreGranted
    /\ GrantsHaveRows
    /\ ReleasingExists

\* What releases, the clock, checks and writes have in common: no row comes,
\* goes or changes hands, and no lease becomes live.
SameRows ==
    /\ \A i \in Ids : /\ leases'[i].state = "none" <=> leases[i].state = "none"
                      /\ leases'[i].resource = leases[i].resource
                      /\ leases'[i].actor = leases[i].actor
                      /\ leases'[i].token = leases[i].token
    /\ \A i \in Ids, r \in Resources : Blocks(i, r)' => Blocks(i, r)
    /\ granted' = granted
    /\ crashes' = crashes

LEMMA SameRowsKeep ==
    ASSUME LeaseInv, SameRows
    PROVE  /\ HasTop' /\ OneLiveLease' /\ TokensDiffer' /\ RowsAreGranted' /\ GrantsHaveRows'
           /\ \A r \in Resources : TokensOf(r)' = TokensOf(r)
<1> USE DEF LeaseInv
<1>1. ASSUME NEW r \in Resources PROVE TokensOf(r)' = TokensOf(r)
  BY DEF SameRows, TokensOf, Exists
<1>2. HasTop'
  BY <1>1 DEF HasTop
<1>3. OneLiveLease'
  BY DEF OneLiveLease, SameRows
<1>4. TokensDiffer'
  BY DEF TokensDiffer, SameRows, Exists
<1>5. RowsAreGranted'
  BY DEF RowsAreGranted, SameRows, Exists
<1>6. GrantsHaveRows'
  <2>1. \A g \in granted : g.id \in Ids
    BY DEF TypeOK, Grant
  <2> QED
    BY <2>1 DEF GrantsHaveRows, SameRows, Exists
<1> QED
  BY <1>1, <1>2, <1>3, <1>4, <1>5, <1>6

\* Every step but an acquire and a crash keeps the rows.
LEMMA StepKeepsRows ==
    ASSUME TypeOK, ReleasingExists, [Next]_vars
    PROVE  \/ SameRows
           \/ \E i \in Ids, r \in Resources, a \in Actors : Acquire(i, r, a)
           \/ CrashRelease
<1> USE DEF TypeOK
<1>1. ASSUME leases' = leases, granted' = granted, crashes' = crashes PROVE SameRows
  BY <1>1 DEF SameRows, Blocks
<1>2. ASSUME NEW i \in Ids, leases' = Released(i), granted' = granted, crashes' = crashes,
             leases[i].state # "none"
      PROVE  SameRows
  <2>1. \A j \in Ids : leases'[j] = IF j = i THEN [leases[j] EXCEPT !.state = "released"] ELSE leases[j]
    BY <1>2 DEF Released
  <2>2. \A j \in Ids : leases[j] \in Row
    OBVIOUS
  <2>3. \A j \in Ids : /\ leases'[j].resource = leases[j].resource
                       /\ leases'[j].actor = leases[j].actor
                       /\ leases'[j].token = leases[j].token
                       /\ leases'[j].left = leases[j].left
                       /\ leases'[j].state = IF j = i THEN "released" ELSE leases[j].state
    BY <2>1, <2>2 DEF Row
  <2> QED
    BY <1>2, <2>3 DEF SameRows, Blocks
<1>3. ASSUME NEW i \in Ids, NEW a \in Actors, ReleaseInTransaction(i, a) \/ BeginRelease(i, a)
      PROVE  SameRows
  BY <1>1, <1>2, <1>3 DEF ReleaseInTransaction, BeginRelease, MayRelease, Exists
<1>4. CASE Tick
  <2>1. \A j \in Ids : leases'[j] = [leases[j] EXCEPT !.left = IF @ > 0 THEN @ - 1 ELSE 0]
    BY <1>4 DEF Tick
  <2>2. \A j \in Ids : leases[j] \in Row
    OBVIOUS
  <2>3. \A j \in Ids : /\ leases'[j].resource = leases[j].resource
                       /\ leases'[j].actor = leases[j].actor
                       /\ leases'[j].token = leases[j].token
                       /\ leases'[j].state = leases[j].state
                       /\ leases'[j].left > 0 => leases[j].left > 0
    <3> TAKE j \in Ids
    <3>1. leases[j] \in Row /\ leases[j].left \in Nat
      BY <2>2 DEF Row
    <3>2. leases'[j].left = IF leases[j].left > 0 THEN leases[j].left - 1 ELSE 0
      BY <2>1, <3>1 DEF Row
    <3>3. /\ leases'[j].resource = leases[j].resource
          /\ leases'[j].actor = leases[j].actor
          /\ leases'[j].token = leases[j].token
          /\ leases'[j].state = leases[j].state
      BY <2>1, <3>1 DEF Row
    <3>4. leases'[j].left > 0 => leases[j].left > 0
      BY <3>1, <3>2
    <3> QED
      BY <3>3, <3>4
  <2> QED
    BY <1>4, <2>3 DEF SameRows, Blocks, Tick
<1>5. CASE EndRelease
  BY <1>2, <1>5 DEF EndRelease, ReleasingExists, Exists
<1> QED
  BY <1>1, <1>3, <1>4, <1>5 DEF Next, Preflight, ApplyMutation, GuardedAppend, vars

LEMMA AcquireKeeps ==
    ASSUME LeaseInv, NEW i \in Ids, NEW r \in Resources, NEW a \in Actors, Acquire(i, r, a)
    PROVE  /\ HasTop' /\ OneLiveLease' /\ TokensDiffer' /\ RowsAreGranted' /\ GrantsHaveRows'
           /\ NextToken(r)' = NextToken(r) + 1
           /\ \A s \in Resources \ {r} : TokensOf(s)' = TokensOf(s)
           /\ \A j \in Ids, s \in Resources :
                Blocks(j, s)' <=> Blocks(j, s) \/ (j = i /\ s = r)
<1> USE DEF LeaseInv
<1> DEFINE row == [state |-> "active", resource |-> r, actor |-> a,
                   token |-> NextToken(r), left |-> LeaseTicks]
<1>1. leases' = [leases EXCEPT ![i] = row] /\ ~Exists(i)
  BY DEF Acquire
<1>2. \A j \in Ids : leases'[j] = IF j = i THEN row ELSE leases[j]
  BY <1>1 DEF TypeOK
<1>3. /\ granted' = granted \cup {[resource |-> r, id |-> i, actor |-> a, token |-> NextToken(r)]}
      /\ \A g \in granted : g.id # i
      /\ crashes' = crashes
  BY DEF Acquire
<1>4. /\ NextToken(r) \in Nat \ {0}
      /\ NextToken(r) - 1 \in TokensOf(r)
      /\ \A n \in TokensOf(r) : n \in Nat /\ n < NextToken(r)
  BY NextTokenIsNext
<1>5. \A j \in Ids \ {i} : leases'[j] = leases[j]
  BY <1>2
<1>6. leases'[i] = row
  BY <1>2
<1>7. TokensOf(r)' = TokensOf(r) \cup {NextToken(r)}
  BY <1>1, <1>5, <1>6 DEF TokensOf, Exists
<1>8. \A s \in Resources \ {r} : TokensOf(s)' = TokensOf(s)
  BY <1>1, <1>5, <1>6 DEF TokensOf, Exists
<1> HIDE DEF LeaseInv
<1>9. HasTop'
  <2> SUFFICES ASSUME NEW s \in Resources
               PROVE  \E m \in TokensOf(s)' : \A n \in TokensOf(s)' : m >= n
    BY DEF HasTop
  <2>1. CASE s = r
    BY <1>4, <1>7, <2>1
  <2>2. CASE s # r
    BY <1>8, <2>2 DEF HasTop, LeaseInv
  <2> QED
    BY <2>1, <2>2
<1>10. NextToken(r)' = NextToken(r) + 1
  <2> DEFINE top == CHOOSE x \in TokensOf(r)' : \A y \in TokensOf(r)' : x >= y
  <2>1. NextToken(r)' = 1 + top
    BY DEF NextToken, Max, TokensOf
  <2>2. top \in TokensOf(r)' /\ \A n \in TokensOf(r)' : top >= n
    BY <1>9 DEF HasTop
  <2> HIDE DEF top
  <2>3. top = NextToken(r)
    BY <1>4, <1>7, <2>2
  <2> QED
    BY <1>4, <2>1, <2>3
<1>11. ASSUME NEW j \in Ids, NEW s \in Resources
       PROVE  Blocks(j, s)' <=> Blocks(j, s) \/ (j = i /\ s = r)
  <2>1. CASE j = i
    BY <1>1, <1>6, <2>1, StoreAssumption DEF Blocks, Exists
  <2>2. CASE j # i
    BY <1>5, <2>2 DEF Blocks
  <2> QED
    BY <2>1, <2>2
<1>12. OneLiveLease'
  BY <1>11 DEF OneLiveLease, Available, Acquire, LeaseInv
<1>13. ASSUME NEW j \in Ids, Exists(j), leases[j].resource = r
       PROVE  leases[j].token \in TokensOf(r) /\ leases[j].token # NextToken(r)
  BY <1>4, <1>13 DEF TokensOf
<1>14. TokensDiffer'
  BY <1>1, <1>5, <1>6, <1>13 DEF TokensDiffer, Exists, LeaseInv
<1>15. RowsAreGranted'
  BY <1>3, <1>5, <1>6 DEF RowsAreGranted, Exists, LeaseInv
<1>16. GrantsHaveRows'
  <2>1. \A g \in granted : g.id \in Ids \ {i}
    BY <1>3 DEF TypeOK, Grant, LeaseInv
  <2> QED
    BY <1>3, <1>5, <1>6, <2>1 DEF GrantsHaveRows, Exists, LeaseInv
<1> QED
  BY <1>8, <1>9, <1>10, <1>11, <1>12, <1>14, <1>15, <1>16

LEMMA CrashKeeps ==
    ASSUME LeaseInv, CrashRelease
    PROVE  HasTop' /\ OneLiveLease' /\ TokensDiffer' /\ RowsAreGranted' /\ GrantsHaveRows'
<1>1. \A i \in Ids : leases'[i] = NoLease
  BY DEF CrashRelease
<1> DEFINE r0 == CHOOSE r \in Resources : TRUE
<1>2. \A i \in Ids : leases'[i].state = "none"
  <2>1. NoLease = [state |-> "none", resource |-> r0, actor |-> NoActor, token |-> 0, left |-> 0]
    BY DEF NoLease
  <2> HIDE DEF r0
  <2>2. NoLease.state = "none"
    BY <2>1
  <2> QED
    BY <1>1, <2>2
<1>3. \A r \in Resources : TokensOf(r)' = {0}
  BY <1>2 DEF TokensOf, Exists
<1>4. HasTop'
  BY <1>3 DEF HasTop
<1>5. OneLiveLease' /\ TokensDiffer' /\ RowsAreGranted'
  BY <1>2 DEF OneLiveLease, TokensDiffer, RowsAreGranted, Blocks, Exists
<1>6. GrantsHaveRows'
  BY DEF CrashRelease, GrantsHaveRows, LeaseInv, TypeOK
<1> QED
  BY <1>4, <1>5, <1>6

LEMMA StepReleasing == TypeOK /\ ReleasingExists /\ [Next]_vars => ReleasingExists'
<1> SUFFICES ASSUME TypeOK, ReleasingExists, [Next]_vars, releasing' # NoId
             PROVE  releasing' \in Ids /\ Exists(releasing)'
  BY DEF ReleasingExists
<1>1. ASSUME NEW i \in Ids, NEW a \in Actors, BeginRelease(i, a)
      PROVE  releasing' \in Ids /\ Exists(releasing)'
  BY <1>1 DEF BeginRelease, MayRelease, Exists
<1>2. CASE Tick
  BY <1>2 DEF Tick, ReleasingExists, Exists, TypeOK, Row
<1> QED
  BY <1>1, <1>2 DEF Next, Acquire, ReleaseInTransaction, EndRelease, CrashRelease, Preflight,
     ApplyMutation, GuardedAppend, vars, ReleasingExists, Exists, Unlocked, MayRelease

LEMMA LeaseInvInit == Init => LeaseInv
<1> SUFFICES ASSUME Init PROVE LeaseInv
  OBVIOUS
<1>1. \A i \in Ids : ~Exists(i) /\ \A r \in Resources : ~Blocks(i, r)
  BY DEF Init, NoLease, Exists, Blocks
<1>2. \A r \in Resources : TokensOf(r) = {0}
  BY <1>1 DEF TokensOf
<1>3. HasTop
  BY <1>2 DEF HasTop
<1>4. OneLiveLease /\ TokensDiffer /\ RowsAreGranted
  BY <1>1 DEF OneLiveLease, TokensDiffer, RowsAreGranted
<1>5. GrantsHaveRows /\ ReleasingExists
  BY DEF Init, GrantsHaveRows, ReleasingExists
<1> QED
  BY <1>3, <1>4, <1>5, InitType DEF LeaseInv

LEMMA LeaseInvStep == LeaseInv /\ [Next]_vars => LeaseInv'
<1> SUFFICES ASSUME LeaseInv, [Next]_vars PROVE LeaseInv'
  OBVIOUS
<1>1. TypeOK' /\ ReleasingExists'
  BY StepType, StepReleasing DEF LeaseInv
<1>2. HasTop' /\ OneLiveLease' /\ TokensDiffer' /\ RowsAreGranted' /\ GrantsHaveRows'
  BY StepKeepsRows, SameRowsKeep, AcquireKeeps, CrashKeeps DEF LeaseInv
<1> QED
  BY <1>1, <1>2 DEF LeaseInv

LEMMA LeaseInvHolds == Spec => []LeaseInv
<1> QED
  BY LeaseInvInit, LeaseInvStep, PTL DEF Spec

\* Every variable keeps its type.
THEOREM LeaseTypes == Spec => []TypeOK
<1>1. LeaseInv => TypeOK
  BY DEF LeaseInv
<1> QED
  BY <1>1, LeaseInvHolds, PTL

\* A resource has one live lease at most: acquire looks at the rows under the
\* lock that releases hold while the file is empty.
THEOREM LeasesAreExclusive == Spec => []OneLiveLease
<1>1. LeaseInv => OneLiveLease
  BY DEF LeaseInv
<1> QED
  BY <1>1, LeaseInvHolds, PTL

\* No two leases of a resource have shared a token, unless a release died and
\* took the rows with it.
THEOREM TokensSurvive == Spec => []TokensRepeatOnlyAfterLoss
<1>1. LeaseInv => TokensRepeatOnlyAfterLoss
  <2> SUFFICES ASSUME LeaseInv, ~(crashes > 0), NEW g \in granted, NEW h \in granted,
                      g.resource = h.resource, g.token = h.token
               PROVE  g = h
    BY DEF TokensRepeatOnlyAfterLoss, TokensNeverRepeat
  <2>1. g \in Grant /\ h \in Grant
    BY DEF LeaseInv, TypeOK
  <2>2. g.id = h.id
    BY <2>1 DEF LeaseInv, GrantsHaveRows, TokensDiffer, Grant
  <2>3. g.actor = h.actor
    BY <2>2 DEF LeaseInv, GrantsHaveRows
  <2> QED
    BY <2>1, <2>2, <2>3 DEF Grant
<1> QED
  BY <1>1, LeaseInvHolds, PTL

-----------------------------------------------------------------------------
(* Writes                                                                  *)

\* A verified request carries the token of a lease its actor was granted.
ClearedAreGranted ==
    \A q \in cleared : q.token # 0 =>
        \E g \in granted : g.resource = q.resource /\ g.actor = q.actor /\ g.token = q.token

\* Nobody writes under a lease that was not granted to him, provided that a
\* lease which is named is looked at: in the JSONL store, or with --require-leases.
THEOREM WritersAreHolders ==
    ASSUME Backend = "jsonl" \/ RequireLeases
    PROVE  Spec => []WritesUnderOwnLease
<1> DEFINE Inv == ClearedAreGranted /\ WritesUnderOwnLease
<1>1. Init => Inv
  BY DEF Init, ClearedAreGranted, WritesUnderOwnLease
<1>2. LeaseInv /\ Inv /\ [Next]_vars => Inv'
  <2> SUFFICES ASSUME LeaseInv, Inv, [Next]_vars PROVE Inv'
    OBVIOUS
  <2>1. granted \subseteq granted'
    BY DEF Next, Acquire, ReleaseInTransaction, BeginRelease, EndRelease, CrashRelease,
       Preflight, ApplyMutation, GuardedAppend, Tick, vars
  <2>2. ASSUME cleared' \subseteq cleared, writes' = writes PROVE Inv'
    BY <2>1, <2>2 DEF ClearedAreGranted, WritesUnderOwnLease
  <2>3. ASSUME NEW r \in Resources, NEW i \in Ids \cup {NoId}, NEW a \in Actors, NEW t,
               Preflight(r, i, a, t)
        PROVE  Inv'
    <3> DEFINE q == [resource |-> r, id |-> i, actor |-> a, token |-> TokenOf(i)]
    <3>1. q.token # 0 =>
            \E g \in granted : g.resource = q.resource /\ g.actor = q.actor /\ g.token = q.token
      <4> SUFFICES ASSUME TokenOf(i) # 0
                   PROVE  \E g \in granted : g.resource = r /\ g.actor = a /\ g.token = TokenOf(i)
        OBVIOUS
      <4>1. i # NoId
        BY DEF TokenOf
      <4>2. Verified(r, i, a, t)
        BY <2>3, <4>1 DEF Preflight, MayMutate
      <4>3. i \in Ids /\ Exists(i) /\ leases[i].resource = r /\ leases[i].actor = a
        BY <4>2 DEF Verified, Visible, Blocks, Exists
      <4>4. [resource |-> r, id |-> i, actor |-> a, token |-> TokenOf(i)] \in granted
        BY <4>1, <4>3 DEF LeaseInv, RowsAreGranted, TokenOf
      <4> QED
        BY <4>4
    <3>2. cleared' = cleared \cup {q} /\ granted' = granted /\ writes' = writes
      BY <2>3 DEF Preflight
    <3> HIDE DEF q
    <3> QED
      BY <3>1, <3>2 DEF ClearedAreGranted, WritesUnderOwnLease
  <2>4. ASSUME NEW r \in Resources, NEW a \in Actors, NEW t \in Nat, Write(r, a, t),
               t # 0 => \E g \in granted : g.resource = r /\ g.actor = a /\ g.token = t
        PROVE  WritesUnderOwnLease'
    <3>1. writes[r] \in Seq([actor: Actors, token: Nat])
      BY DEF LeaseInv, TypeOK
    <3>2. /\ DOMAIN writes'[r] = 1 .. Len(writes[r]) + 1
          /\ \A n \in 1 .. Len(writes[r]) : writes'[r][n] = writes[r][n]
          /\ writes'[r][Len(writes[r]) + 1] = [actor |-> a, token |-> t]
      BY <2>4, <3>1 DEF Write, LeaseInv, TypeOK
    <3>3. DOMAIN writes[r] = 1 .. Len(writes[r])
      BY <3>1
    <3>4. \A s \in Resources \ {r} : writes'[s] = writes[s]
      BY <2>4 DEF Write, LeaseInv, TypeOK
    <3>5. ASSUME NEW n \in DOMAIN writes'[r], writes'[r][n].token # 0
          PROVE  \E g \in granted' : /\ g.resource = r /\ g.actor = writes'[r][n].actor
                                     /\ g.token = writes'[r][n].token
      <4>1. CASE n \in 1 .. Len(writes[r])
        BY <2>1, <3>2, <3>3, <3>5, <4>1 DEF WritesUnderOwnLease
      <4>2. CASE n = Len(writes[r]) + 1
        BY <2>1, <2>4, <3>2, <3>5, <4>2
      <4>3. Len(writes[r]) \in Nat
        BY <3>1
      <4> QED
        BY <3>2, <4>1, <4>2, <4>3
    <3> QED
      BY <2>1, <3>4, <3>5 DEF WritesUnderOwnLease
  <2>5. ASSUME NEW q \in cleared, ApplyMutation(q)
        PROVE  Inv'
    <3>1. q.resource \in Resources /\ q.actor \in Actors /\ q.token \in Nat
      BY DEF LeaseInv, TypeOK, Request
    <3>2. WritesUnderOwnLease'
      BY <2>4, <2>5, <3>1 DEF ApplyMutation, ClearedAreGranted
    <3> QED
      BY <2>1, <2>5, <3>2 DEF ApplyMutation, ClearedAreGranted
  <2>6. ASSUME NEW g \in granted, NEW a \in Actors, GuardedAppend(g.resource, g.id, a, g.token)
        PROVE  Inv'
    <3>1. g.resource \in Resources /\ g.token \in Nat /\ g.id \in Ids
      BY DEF LeaseInv, TypeOK, Grant
    <3>2. [resource |-> g.resource, id |-> g.id, actor |-> a, token |-> g.token] \in granted
      BY <2>6, <3>1 DEF GuardedAppend, Blocks, LeaseInv, RowsAreGranted, Exists
    <3>3. WritesUnderOwnLease'
      BY <2>4, <2>6, <3>1, <3>2 DEF GuardedAppend
    <3> QED
      BY <2>1, <2>6, <3>3 DEF GuardedAppend, ClearedAreGranted
  <2>7. \A g \in granted : g.resource \in Resources /\ g.id \in Ids
    BY DEF LeaseInv, TypeOK, Grant
  <2> QED
    BY <2>2, <2>3, <2>5, <2>6, <2>7 DEF Next, Acquire, ReleaseInTransaction, BeginRelease,
       EndRelease, CrashRelease, Tick, vars
<1>3. Spec => []Inv
  BY <1>1, <1>2, LeaseInvHolds, PTL DEF Spec
<1>4. Inv => WritesUnderOwnLease
  OBVIOUS
<1> QED
  BY <1>3, <1>4, PTL

-----------------------------------------------------------------------------
(* Guarded appends of a transactional backend                              *)

\* Nothing is verified ahead of its write, and a release is one step.
OnlyGuarded == releasing = NoId /\ cleared = {}

\* The lease that is live is the last one granted.
LiveIsLast ==
    \A i \in Ids, r \in Resources : Blocks(i, r) => leases[i].token = NextToken(r) - 1

\* Each write carries the token of the last lease at its time.
WritesAreSorted ==
    \A r \in Resources :
        /\ \A n \in DOMAIN writes[r] : writes[r][n].token < NextToken(r)
        /\ \A m, n \in DOMAIN writes[r] : m < n => writes[r][m].token <= writes[r][n].token

GuardedInv == OnlyGuarded /\ LiveIsLast /\ WritesAreSorted

\* What the steps do to leases and writes, in such a store.
GuardedStep ==
    \/ SameRows /\ UNCHANGED writes
    \/ UNCHANGED writes /\ \E i \in Ids, r \in Resources, a \in Actors : Acquire(i, r, a)
    \/ UNCHANGED leases /\ \E i \in Ids, r \in Resources, a \in Actors :
            Blocks(i, r) /\ Write(r, a, leases[i].token)

LEMMA GuardedStepIs ==
    ASSUME Backend = "transactional", Routes = {"guarded"}, LeaseInv, OnlyGuarded, [Next]_vars
    PROVE  OnlyGuarded' /\ GuardedStep
<1>1. ~(\E r, i, a, t : Preflight(r, i, a, t)) /\ ~(\E i, a : BeginRelease(i, a))
      /\ ~EndRelease /\ ~CrashRelease /\ ~(\E q \in cleared : ApplyMutation(q))
  BY DEF Preflight, BeginRelease, EndRelease, CrashRelease, OnlyGuarded
<1>2. OnlyGuarded'
  BY <1>1 DEF OnlyGuarded, Next, Acquire, ReleaseInTransaction, GuardedAppend, Tick, vars
<1>3. ASSUME NEW g \in granted, NEW a \in Actors, GuardedAppend(g.resource, g.id, a, g.token)
      PROVE  GuardedStep
  <2>1. g.resource \in Resources /\ g.id \in Ids
    BY DEF LeaseInv, TypeOK, Grant
  <2> QED
    BY <1>3, <2>1 DEF GuardedAppend, GuardedStep
<1>4. ASSUME NEW i \in Ids, NEW r \in Resources, NEW a \in Actors, Acquire(i, r, a)
      PROVE  GuardedStep
  BY <1>4 DEF Acquire, GuardedStep
<1>5. CASE SameRows /\ UNCHANGED writes
  BY <1>2, <1>5 DEF GuardedStep
<1>6. \/ SameRows
      \/ \E i \in Ids, r \in Resources, a \in Actors : Acquire(i, r, a)
  BY <1>1, StepKeepsRows DEF LeaseInv
<1>7. \/ UNCHANGED writes
      \/ \E g \in granted, a \in Actors : GuardedAppend(g.resource, g.id, a, g.token)
  BY <1>1 DEF Next, Acquire, ReleaseInTransaction, Tick, vars
<1> QED
  BY <1>2, <1>3, <1>4, <1>5, <1>6, <1>7

\* The next token only depends on the rows' tokens.
LEMMA SameTokensSameNext ==
    ASSUME NEW r \in Resources, TokensOf(r)' = TokensOf(r)
    PROVE  NextToken(r)' = NextToken(r)
<1>1. NextToken(r) = 1 + Max(TokensOf(r))
  BY DEF NextToken, TokensOf
<1>2. NextToken(r)' = 1 + Max(TokensOf(r)')
  BY DEF NextToken, TokensOf
<1> QED
  BY <1>1, <1>2

\* What a write does to the log.
LEMMA WriteAppends ==
    ASSUME TypeOK, NEW r \in Resources, NEW a \in Actors, NEW t \in Nat, Write(r, a, t)
    PROVE  /\ Len(writes[r]) \in Nat /\ DOMAIN writes[r] = 1 .. Len(writes[r])
           /\ DOMAIN writes'[r] = 1 .. Len(writes[r]) + 1
           /\ \A n \in 1 .. Len(writes[r]) : writes'[r][n] = writes[r][n]
           /\ writes'[r][Len(writes[r]) + 1] = [actor |-> a, token |-> t]
           /\ \A s \in Resources \ {r} : writes'[s] = writes[s]
<1> DEFINE Entry == [actor: Actors, token: Nat]
<1>1. writes[r] \in Seq(Entry) /\ [actor |-> a, token |-> t] \in Entry
  BY DEF TypeOK
<1>2. writes' = [writes EXCEPT ![r] = Append(@, [actor |-> a, token |-> t])]
  BY DEF Write
<1>3. \A s \in Resources \ {r} : writes'[s] = writes[s]
  BY <1>2 DEF TypeOK
<1>4. writes'[r] = Append(writes[r], [actor |-> a, token |-> t])
  BY <1>2 DEF TypeOK
<1> HIDE DEF Entry
<1>5. /\ Len(writes[r]) \in Nat /\ DOMAIN writes[r] = 1 .. Len(writes[r])
      /\ DOMAIN writes'[r] = 1 .. Len(writes[r]) + 1
  BY <1>1, <1>4
<1>6. /\ \A n \in 1 .. Len(writes[r]) : writes'[r][n] = writes[r][n]
      /\ writes'[r][Len(writes[r]) + 1] = [actor |-> a, token |-> t]
  BY <1>1, <1>4
<1> QED
  BY <1>3, <1>5, <1>6

LEMMA GuardedInvStep ==
    ASSUME Backend = "transactional", Routes = {"guarded"}, LeaseInv, GuardedInv, [Next]_vars
    PROVE  GuardedInv'
<1>1. OnlyGuarded' /\ GuardedStep
  BY GuardedStepIs DEF GuardedInv
<1>2. \A r \in Resources : /\ NextToken(r) \in Nat
                           /\ \A n \in DOMAIN writes[r] : writes[r][n].token \in Nat
  <2> TAKE r \in Resources
  <2>1. NextToken(r) \in Nat
    BY NextTokenIsNext DEF LeaseInv
  <2> DEFINE Entry == [actor: Actors, token: Nat]
  <2>2. writes[r] \in Seq(Entry) /\ \A e \in Entry : e.token \in Nat
    BY DEF LeaseInv, TypeOK
  <2> HIDE DEF Entry
  <2>3. \A n \in DOMAIN writes[r] : writes[r][n] \in Entry
    BY <2>2
  <2> QED
    BY <2>1, <2>2, <2>3
<1>3. CASE SameRows /\ UNCHANGED writes
  <2>1. \A r \in Resources : NextToken(r)' = NextToken(r)
    BY <1>3, SameRowsKeep, SameTokensSameNext
  <2>2. LiveIsLast'
    BY <1>3, <2>1 DEF LiveIsLast, GuardedInv, SameRows
  <2>3. WritesAreSorted'
    BY <1>3, <2>1 DEF WritesAreSorted, GuardedInv
  <2> QED
    BY <1>1, <2>2, <2>3 DEF GuardedInv
<1>4. ASSUME UNCHANGED writes, NEW i \in Ids, NEW r \in Resources, NEW a \in Actors,
             Acquire(i, r, a)
      PROVE  GuardedInv'
  <2>1. /\ NextToken(r)' = NextToken(r) + 1
        /\ \A s \in Resources \ {r} : NextToken(s)' = NextToken(s)
        /\ \A j \in Ids, s \in Resources : Blocks(j, s)' <=> Blocks(j, s) \/ (j = i /\ s = r)
    BY <1>4, AcquireKeeps, SameTokensSameNext
  <2>2. \A j \in Ids : ~Blocks(j, r)
    BY <1>4 DEF Acquire, Available
  <2>3. /\ leases'[i].token = NextToken(r)
        /\ \A j \in Ids \ {i} : leases'[j] = leases[j]
    BY <1>4 DEF Acquire, LeaseInv, TypeOK
  <2>4. \A s \in Resources : ~Blocks(i, s)
    BY <1>4 DEF Acquire, Blocks, Exists
  <2>5. LiveIsLast'
    BY <1>2, <2>1, <2>2, <2>3, <2>4 DEF LiveIsLast, GuardedInv
  <2>6. WritesAreSorted'
    BY <1>2, <1>4, <2>1 DEF WritesAreSorted, GuardedInv
  <2> QED
    BY <1>1, <2>5, <2>6 DEF GuardedInv
<1>5. ASSUME UNCHANGED leases, NEW i \in Ids, NEW r \in Resources, NEW a \in Actors,
             Blocks(i, r), Write(r, a, leases[i].token)
      PROVE  GuardedInv'
  <2>1. leases[i].token = NextToken(r) - 1 /\ leases[i].token \in Nat
    BY <1>5 DEF LiveIsLast, GuardedInv, LeaseInv, TypeOK, Row
  <2>2. \A s \in Resources : NextToken(s)' = NextToken(s)
    BY <1>5 DEF NextToken, Exists
  <2>3. LiveIsLast'
    BY <1>5, <2>2 DEF LiveIsLast, GuardedInv, Blocks
  <2>4. /\ Len(writes[r]) \in Nat /\ DOMAIN writes[r] = 1 .. Len(writes[r])
        /\ DOMAIN writes'[r] = 1 .. Len(writes[r]) + 1
        /\ \A n \in 1 .. Len(writes[r]) : writes'[r][n] = writes[r][n]
        /\ writes'[r][Len(writes[r]) + 1] = [actor |-> a, token |-> leases[i].token]
        /\ \A s \in Resources \ {r} : writes'[s] = writes[s]
    <3>1. TypeOK
      BY DEF LeaseInv
    <3>2. leases[i].token \in Nat
      BY <2>1
    <3> QED
      BY <1>5, <3>1, <3>2, WriteAppends
  <2>5. WritesAreSorted'
    <3> SUFFICES ASSUME NEW s \in Resources
                 PROVE  /\ \A n \in DOMAIN writes'[s] : writes'[s][n].token < NextToken(s)
                        /\ \A m, n \in DOMAIN writes'[s] :
                              m < n => writes'[s][m].token <= writes'[s][n].token
      BY <2>2 DEF WritesAreSorted
    <3>1. CASE s # r
      BY <2>4, <3>1 DEF WritesAreSorted, GuardedInv
    <3>2. CASE s = r
      <4>1. \A n \in 1 .. Len(writes[r]) :
              writes'[r][n].token \in Nat /\ writes'[r][n].token <= NextToken(r) - 1
        BY <1>2, <2>4, SMTT(30) DEF WritesAreSorted, GuardedInv
      <4>5. writes'[r][Len(writes[r]) + 1].token = NextToken(r) - 1
        BY <2>1, <2>4
      <4>2. \A n \in DOMAIN writes'[r] : n \in 1 .. Len(writes[r]) \/ n = Len(writes[r]) + 1
        BY <2>4
      <4>3. \A n \in DOMAIN writes'[r] : writes'[r][n].token < NextToken(r)
        BY <1>2, <2>4, <4>1, <4>2, <4>5, SMTT(30)
      <4>4. ASSUME NEW m \in DOMAIN writes'[r], NEW n \in DOMAIN writes'[r], m < n
            PROVE  writes'[r][m].token <= writes'[r][n].token
        <5>1. m \in 1 .. Len(writes[r])
          BY <2>4, <4>4
        <5>2. CASE n \in 1 .. Len(writes[r])
          BY <2>4, <4>4, <5>1, <5>2 DEF WritesAreSorted, GuardedInv
        <5>3. CASE n = Len(writes[r]) + 1
          BY <2>4, <4>1, <4>5, <5>1, <5>3
        <5> QED
          BY <4>2, <5>2, <5>3
      <4> QED
        BY <3>2, <4>3, <4>4
    <3> QED
      BY <3>1, <3>2
  <2> QED
    BY <1>1, <2>3, <2>5 DEF GuardedInv
<1> QED
  BY <1>1, <1>3, <1>4, <1>5 DEF GuardedStep

LEMMA GuardedInvInit == Init => GuardedInv
<1> SUFFICES ASSUME Init PROVE GuardedInv
  OBVIOUS
<1>1. \A i \in Ids, r \in Resources : ~Blocks(i, r)
  BY DEF Init, NoLease, Blocks
<1> QED
  BY <1>1 DEF Init, GuardedInv, OnlyGuarded, LiveIsLast, WritesAreSorted

\* With guarded appends only, writes never go back to an earlier lease.
THEOREM GuardedWritesAreInOrder ==
    ASSUME Backend = "transactional", Routes = {"guarded"}
    PROVE  Spec => []WritesInTokenOrder
<1>1. LeaseInv /\ GuardedInv /\ [Next]_vars => GuardedInv'
  BY GuardedInvStep
<1>2. GuardedInv => WritesInTokenOrder
  BY DEF GuardedInv, WritesAreSorted, WritesInTokenOrder
<1> QED
  BY <1>1, <1>2, GuardedInvInit, LeaseInvHolds, PTL DEF Spec

-----------------------------------------------------------------------------
(* Refinement                                                              *)

EpochBar  == [r \in Resources |-> NextToken(r) - 1]
HolderBar == [r \in Resources |->
                IF Available(r) THEN NoActor
                ELSE leases[CHOOSE i \in Ids : Blocks(i, r)].actor]
LogBar    == [r \in Resources |-> [n \in DOMAIN writes[r] |-> writes[r][n].token]]

\* The holder is the actor of the one live lease.
LEMMA HolderIs ==
    ASSUME LeaseInv, NEW i \in Ids, NEW r \in Resources, Blocks(i, r)
    PROVE  HolderBar[r] = leases[i].actor /\ HolderBar[r] # NoActor
<1>1. ~Available(r) /\ (CHOOSE j \in Ids : Blocks(j, r)) = i
  BY DEF Available, LeaseInv, OneLiveLease
<1>2. [resource |-> leases[i].resource, id |-> i, actor |-> leases[i].actor,
       token |-> leases[i].token] \in Grant
  BY DEF LeaseInv, RowsAreGranted, Blocks, Exists, TypeOK
<1>3. leases[i].actor \in Actors
  BY <1>2 DEF Grant
<1> QED
  BY <1>1, <1>3, StoreAssumption DEF HolderBar

LEMMA HolderIsNobody ==
    ASSUME NEW r \in Resources, Available(r)
    PROVE  HolderBar[r] = NoActor
BY DEF HolderBar

LEMMA RefinementInit == Init => Fenced!Init
<1> SUFFICES ASSUME Init PROVE Fenced!Init
  OBVIOUS
<1>1. \A i \in Ids : ~Exists(i) /\ \A r \in Resources : ~Blocks(i, r)
  BY DEF Init, NoLease, Exists, Blocks
<1>2. LeaseInv
  BY LeaseInvInit
<1>3. ASSUME NEW r \in Resources PROVE NextToken(r) = 1
  <2>1. TokensOf(r) = {0}
    BY <1>1 DEF TokensOf
  <2>2. NextToken(r) - 1 \in TokensOf(r) /\ NextToken(r) \in Nat
    BY <1>2, NextTokenIsNext DEF LeaseInv
  <2> QED
    BY <2>1, <2>2
<1>4. \A r \in Resources : Available(r)
  BY <1>1 DEF Available
<1>5. \A r \in Resources : [n \in DOMAIN writes[r] |-> writes[r][n].token] = <<>>
  BY DEF Init
<1> QED
  BY <1>3, <1>4, <1>5 DEF Fenced!Init

LEMMA RefinementStep ==
    ASSUME LeaseInv, LeaseInv', GuardedInv, GuardedStep
    PROVE  [Fenced!Next]_(Fenced!vars)
<1>1. EpochBar = [r \in Resources |-> NextToken(r) - 1]
  BY DEF EpochBar
<1>2. CASE SameRows /\ UNCHANGED writes
  <2>1. EpochBar' = EpochBar
    BY <1>2, SameRowsKeep, SameTokensSameNext DEF EpochBar
  <2>2. LogBar' = LogBar
    BY <1>2 DEF LogBar
  <2> DEFINE S == {r \in Resources : ~Available(r) /\ Available(r)'}
  <2>3. ASSUME NEW r \in Resources
        PROVE  HolderBar'[r] = IF r \in S THEN NoActor ELSE HolderBar[r]
    <3>1. CASE Available(r)'
      <4>1. HolderBar'[r] = NoActor
        BY <3>1 DEF HolderBar
      <4> QED
        BY <3>1, <4>1, HolderIsNobody
    <3>2. CASE ~Available(r)'
      <4>1. PICK i \in Ids : Blocks(i, r)'
        BY <3>2 DEF Available
      <4>2. Blocks(i, r) /\ leases'[i].actor = leases[i].actor
        BY <1>2, <4>1 DEF SameRows
      <4>3. HolderBar'[r] = leases'[i].actor
        <5>1. (CHOOSE j \in Ids : Blocks(j, r)') = i
          BY <4>1 DEF LeaseInv, OneLiveLease
        <5> QED
          BY <3>2, <5>1 DEF HolderBar
      <4> QED
        BY <3>2, <4>2, <4>3, HolderIs
    <3> QED
      BY <3>1, <3>2
  <2>4. HolderBar' = [r \in Resources |-> IF r \in S THEN NoActor ELSE HolderBar[r]]
    BY <2>3 DEF HolderBar
  <2>5. \A r \in S : HolderBar[r] # NoActor
    BY HolderIs DEF Available
  <2>6. S \in SUBSET Resources
    OBVIOUS
  <2> HIDE DEF S
  <2>7. Fenced!End(S)
    BY <2>1, <2>2, <2>4, <2>5 DEF Fenced!End, EpochBar, HolderBar, LogBar
  <2> QED
    BY <2>6, <2>7 DEF Fenced!Next
<1>3. ASSUME UNCHANGED writes, NEW i \in Ids, NEW r \in Resources, NEW a \in Actors,
             Acquire(i, r, a)
      PROVE  Fenced!Grant(r, a)
  <2>1. /\ NextToken(r)' = NextToken(r) + 1 /\ NextToken(r) \in Nat
        /\ \A s \in Resources \ {r} : NextToken(s)' = NextToken(s)
        /\ \A j \in Ids, s \in Resources : Blocks(j, s)' <=> Blocks(j, s) \/ (j = i /\ s = r)
    BY <1>3, AcquireKeeps, SameTokensSameNext, NextTokenIsNext DEF LeaseInv
  <2>2. EpochBar' = [EpochBar EXCEPT ![r] = @ + 1]
    <3>1. EpochBar = [s \in Resources |-> EpochBar[s]] /\ EpochBar[r] = NextToken(r) - 1
      BY DEF EpochBar
    <3>2. EpochBar' = [s \in Resources |-> EpochBar'[s]] /\ EpochBar'[r] = NextToken(r)' - 1
      BY DEF EpochBar
    <3>3. \A s \in Resources \ {r} : EpochBar'[s] = EpochBar[s]
      BY <2>1 DEF EpochBar
    <3>4. EpochBar'[r] = EpochBar[r] + 1
      BY <2>1, <3>1, <3>2
    <3> QED
      BY <3>1, <3>2, <3>3, <3>4
  <2>3. LogBar' = LogBar
    BY <1>3 DEF LogBar
  <2>4. Available(r) /\ HolderBar[r] = NoActor
    BY <1>3, HolderIsNobody DEF Acquire
  <2>5. leases'[i].actor = a /\ \A j \in Ids \ {i} : leases'[j] = leases[j]
    BY <1>3 DEF Acquire, LeaseInv, TypeOK
  <2>6. HolderBar'[r] = a
    <3>1. ~Available(r)' /\ (CHOOSE j \in Ids : Blocks(j, r)') = i
      BY <2>1, <2>4 DEF Available
    <3> QED
      BY <2>5, <3>1 DEF HolderBar
  <2>7. ASSUME NEW s \in Resources \ {r} PROVE HolderBar'[s] = HolderBar[s]
    <3>1. CASE Available(s)
      <4>1. Available(s)'
        BY <2>1, <3>1 DEF Available
      <4> QED
        BY <3>1, <4>1 DEF HolderBar
    <3>2. CASE ~Available(s)
      <4>1. PICK j \in Ids : Blocks(j, s)
        BY <3>2 DEF Available
      <4>2. j # i
        BY <1>3, <4>1 DEF Acquire, Blocks, Exists
      <4>3. Blocks(j, s)' /\ leases'[j].actor = leases[j].actor
        BY <2>1, <2>5, <4>1, <4>2
      <4>4. ~Available(s)' /\ (CHOOSE k \in Ids : Blocks(k, s)') = j
        BY <4>3 DEF Available, LeaseInv, OneLiveLease
      <4>5. HolderBar'[s] = leases[j].actor
        BY <4>3, <4>4 DEF HolderBar
      <4> QED
        BY <4>1, <4>5, HolderIs
    <3> QED
      BY <3>1, <3>2
  <2>8. HolderBar' = [HolderBar EXCEPT ![r] = a]
    <3>1. HolderBar = [s \in Resources |-> HolderBar[s]]
      BY DEF HolderBar
    <3>2. HolderBar' = [s \in Resources |-> HolderBar'[s]]
      BY DEF HolderBar
    <3> QED
      BY <2>6, <2>7, <3>1, <3>2
  <2> QED
    BY <2>2, <2>3, <2>4, <2>8 DEF Fenced!Grant, EpochBar, HolderBar, LogBar
<1>4. ASSUME UNCHANGED leases, NEW i \in Ids, NEW r \in Resources, NEW a \in Actors,
             Blocks(i, r), Write(r, a, leases[i].token)
      PROVE  Fenced!Write(r)
  <2>1. EpochBar' = EpochBar
    BY <1>4 DEF EpochBar, NextToken, Exists
  <2>2. HolderBar' = HolderBar
    BY <1>4 DEF HolderBar, Available, Blocks
  <2>3. HolderBar[r] # NoActor
    BY <1>4, HolderIs
  <2>4. leases[i].token = EpochBar[r] /\ leases[i].token \in Nat
    BY <1>4 DEF LiveIsLast, GuardedInv, EpochBar, LeaseInv, TypeOK, Row
  <2>5. TypeOK
    BY DEF LeaseInv
  <2>6. /\ Len(writes[r]) \in Nat /\ DOMAIN writes[r] = 1 .. Len(writes[r])
        /\ DOMAIN writes'[r] = 1 .. Len(writes[r]) + 1
        /\ \A n \in 1 .. Len(writes[r]) : writes'[r][n] = writes[r][n]
        /\ writes'[r][Len(writes[r]) + 1] = [actor |-> a, token |-> leases[i].token]
        /\ \A s \in Resources \ {r} : writes'[s] = writes[s]
    BY <1>4, <2>4, <2>5, WriteAppends
  <2> DEFINE N == Len(writes[r])
  <2>7. LogBar'[r] = [n \in 1 .. N + 1 |-> IF n = N + 1 THEN EpochBar[r] ELSE LogBar[r][n]]
    <3>1. LogBar'[r] = [n \in 1 .. N + 1 |-> writes'[r][n].token]
      BY <2>6 DEF LogBar
    <3>2. \A n \in 1 .. N : writes'[r][n].token = LogBar[r][n]
      BY <2>6 DEF LogBar
    <3>3. writes'[r][N + 1].token = EpochBar[r]
      BY <2>4, <2>6
    <3>4. \A n \in 1 .. N + 1 :
            writes'[r][n].token = IF n = N + 1 THEN EpochBar[r] ELSE LogBar[r][n]
      BY <2>6, <3>2, <3>3
    <3> QED
      BY <3>1, <3>4
  <2>8. LogBar[r] \in Seq(Nat) /\ Len(LogBar[r]) = N
    <3>1. LogBar[r] = [n \in 1 .. N |-> writes[r][n].token]
      BY <2>6 DEF LogBar
    <3>2. \A n \in 1 .. N : writes[r][n].token \in Nat
      <4> DEFINE Entry == [actor: Actors, token: Nat]
      <4>1. writes[r] \in Seq(Entry) /\ \A e \in Entry : e.token \in Nat
        BY <2>5 DEF TypeOK
      <4> HIDE DEF Entry
      <4> QED
        BY <4>1
    <3>3. LogBar[r] \in [1 .. N -> Nat]
      BY <3>1, <3>2
    <3> QED
      BY <2>6, <3>3, SMTT(30)
  <2>9. Append(LogBar[r], EpochBar[r]) =
          [n \in 1 .. N + 1 |-> IF n = N + 1 THEN EpochBar[r] ELSE LogBar[r][n]]
    BY <2>8
  <2>10. \A s \in Resources \ {r} : LogBar'[s] = LogBar[s]
    BY <2>6 DEF LogBar
  <2>11. LogBar' = [LogBar EXCEPT ![r] = Append(@, EpochBar[r])]
    BY <2>7, <2>9, <2>10 DEF LogBar
  <2> QED
    BY <2>1, <2>2, <2>3, <2>11 DEF Fenced!Write, EpochBar, HolderBar, LogBar
<1> QED
  BY <1>2, <1>3, <1>4 DEF GuardedStep, Fenced!Next

\* With guarded appends only, a transactional backend is a log of fenced writes:
\* what acquire, release, time and guarded_append_event do is a grant, the end
\* of grants, or a write under the grant in force.
THEOREM GuardedStoreIsFenced ==
    ASSUME Backend = "transactional", Routes = {"guarded"}
    PROVE  Spec => ImplementsFencedWrites
<1>1. LeaseInv /\ GuardedInv /\ [Next]_vars => GuardedInv'
  BY GuardedInvStep
<1>2. LeaseInv /\ LeaseInv' /\ GuardedInv /\ [Next]_vars => [Fenced!Next]_(Fenced!vars)
  BY GuardedStepIs, RefinementStep DEF GuardedInv
<1> QED
  BY <1>1, <1>2, GuardedInvInit, RefinementInit, LeaseInvHolds, PTL
     DEF Spec, ImplementsFencedWrites, Fenced!Spec
=============================================================================
