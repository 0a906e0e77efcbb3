--------------------------- MODULE RecordsProofs ---------------------------
(***************************************************************************)
(* Theorems about the records that are kept in one file each: human work,  *)
(* inbound events, outcome links, governance changes, decision cases,      *)
(* allocations and phase plans; and about the speed envelope of human      *)
(* work.                                                                   *)
(***************************************************************************)
EXTENDS HumanWork, SpeedEnvelope, InboundEvents, OutcomeLinks, GovernanceChanges,
        DecisionCases, Allocations, PhaseExecution, FiniteSetTheorems, TLAPS

-----------------------------------------------------------------------------
(* What reading and writing a file leaves of a set S of rows.  A writer    *)
(* that overlaps with another can mix the rows of both, but not make new   *)
(* ones.                                                                   *)

Files(S) == Seq(S) \cup {Absent, Torn}

LEMMA RowsOfAFile ==
    ASSUME NEW S, NEW file \in Files(S), Readable(file)
    PROVE  RowsOf(file) \in Seq(S)
BY DEF Files, Readable, RowsOf

LEMMA AppendedFile ==
    ASSUME NEW S, NEW file \in Files(S), NEW row \in S
    PROVE  Appended(file, row) \in Files(S)
<1>1. CASE file = Torn
    BY <1>1 DEF Appended, Files
<1>2. CASE file # Torn
    BY <1>2, RowsOfAFile DEF Appended, Files, Readable
<1> QED
    BY <1>1, <1>2

LEMMA FilledFile ==
    ASSUME NEW S, NEW file \in Files(S), NEW rows \in Seq(S), NEW left \in FilledOver(file, rows)
    PROVE  left \in Files(S)
<1>1. CASE left \in {rows, Torn}
    BY <1>1 DEF Files
<1>2. CASE left \notin {rows, Torn}
    <2>1. file \in Seq(S)
        BY <1>2 DEF FilledOver, Files
    <2>2. PICK n \in Len(rows) + 1 .. Len(file) : left = rows \o SubSeq(file, n, Len(file))
        BY <1>2 DEF FilledOver
    <2>3. n \in 1 .. Len(file) /\ Len(file) \in Nat
        BY <2>1
    <2>4. SubSeq(file, n, Len(file)) \in Seq(S)
        BY <2>1, <2>3
    <2> QED
        BY <2>2, <2>4 DEF Files
<1> QED
    BY <1>1, <1>2

LEMMA LeastOf ==
    ASSUME NEW T \in SUBSET Nat, T # {}
    PROVE  \E m \in T : \A n \in T : m <= n
<1> DEFINE Below == {1 .. t : t \in T}
<1>1. Below \subseteq FiniteSubsetsOf(Nat) /\ Below # {}
    <2>1. \A t \in T : 1 .. t \subseteq Nat /\ IsFiniteSet(1 .. t)
        <3> TAKE t \in T
        <3>1. t \in Int /\ 1 \in Int
            OBVIOUS
        <3> QED
            BY <3>1, FS_Interval
    <2> QED
        BY <2>1 DEF FiniteSubsetsOf
<1>2. IsWellFoundedOn(StrictSubsetOrdering(Nat), FiniteSubsetsOf(Nat))
    BY FS_StrictSubsetOrderingWellFounded
<1>3. PICK U \in Below : \A W \in Below : <<W, U>> \notin StrictSubsetOrdering(Nat)
    <2> HIDE DEF Below
    <2> QED
        BY <1>1, <1>2, WFMin
<1>4. PICK m \in T : U = 1 .. m
    BY <1>3
<1>5. ASSUME NEW n \in T, n < m
      PROVE  FALSE
    <2>1. 1 .. n \subseteq 1 .. m /\ 1 .. n # 1 .. m
        <3>1. n \in Nat /\ m \in Nat
            OBVIOUS
        <3>2. m \in 1 .. m /\ m \notin 1 .. n
            BY <1>5, <3>1
        <3> QED
            BY <1>5, <3>1, <3>2
    <2>2. <<1 .. n, 1 .. m>> \in StrictSubsetOrdering(Nat)
        BY <2>1 DEF StrictSubsetOrdering
    <2> QED
        BY <1>3, <1>4, <1>5, <2>2
<1> QED
    BY <1>5

LEMMA FirstOfAnId ==
    ASSUME NEW S, NEW rows \in Seq(S), NEW id, Mentions(rows, id)
    PROVE  /\ FirstFor(rows, id) \in S /\ FirstFor(rows, id).id = id
           /\ \E n \in DOMAIN rows : FirstFor(rows, id) = rows[n]
<1> DEFINE T == {n \in DOMAIN rows : rows[n].id = id}
           IsFirst(n) == rows[n].id = id /\ \A m \in 1 .. n - 1 : rows[m].id # id
           first == CHOOSE n \in DOMAIN rows : IsFirst(n)
<1>1. T \in SUBSET Nat /\ T # {}
    BY DEF Mentions
<1>2. PICK m \in T : \A n \in T : m <= n
    BY <1>1, LeastOf
<1>3. \A k \in 1 .. m - 1 : rows[k].id # id
    BY <1>2
<1>4. first \in DOMAIN rows /\ IsFirst(first)
    BY <1>2, <1>3
<1>5. FirstFor(rows, id) = rows[first]
    BY DEF FirstFor
<1> HIDE DEF first
<1> QED
    BY <1>4, <1>5

LEMMA LastOfAnId ==
    ASSUME NEW S, NEW rows \in Seq(S), NEW id, Mentions(rows, id)
    PROVE  LastRow(rows, id) \in DOMAIN rows
<1> DEFINE T == {Len(rows) - n : n \in {n \in DOMAIN rows : rows[n].id = id}}
<1>1. T \in SUBSET Nat /\ T # {}
    BY DEF Mentions
<1>2. PICK t \in T : \A u \in T : t <= u
    BY <1>1, LeastOf
<1>3. PICK n \in DOMAIN rows : rows[n].id = id /\ t = Len(rows) - n
    BY <1>2
<1>4. \A m \in n + 1 .. Len(rows) : rows[m].id # id
    <2> SUFFICES ASSUME NEW m \in n + 1 .. Len(rows), rows[m].id = id PROVE FALSE
        OBVIOUS
    <2>1. n \in Nat /\ m \in DOMAIN rows /\ m > n /\ Len(rows) \in Nat
        BY <1>3
    <2>2. Len(rows) - m \in T
        BY <2>1
    <2>3. Len(rows) - n <= Len(rows) - m
        BY <1>2, <1>3, <2>2
    <2> HIDE DEF T
    <2> QED
        BY <2>1, <2>3
<1> QED
    BY <1>3, <1>4 DEF LastRow

LEMMA RewrittenRows ==
    ASSUME NEW S, NEW rows \in Seq(S), NEW id, NEW new \in S
    PROVE  /\ WithRow(rows, id, new) \in Seq(S)
           /\ Mentions(rows, id) /\ new.id = id => Mentions(WithRow(rows, id, new), id)
<1>1. WithRow(rows, id, new) \in Seq(S)
    BY DEF WithRow
<1>2. ASSUME Mentions(rows, id), new.id = id
      PROVE  Mentions(WithRow(rows, id, new), id)
    BY <1>2 DEF WithRow, Mentions
<1> QED
    BY <1>1, <1>2

-----------------------------------------------------------------------------
(* Human work.                                                             *)

GoodSession == {s \in Session : Receipted(s)}

HumanCalls == [at : {"append", "read", "open", "fill"}, id : HumanIds, change : Change,
               rows : Seq(GoodSession)]

\* Not the file alone: what callers have in memory and will write is good too.
HumanInv ==
    /\ humanLog \in Files(GoodSession)
    /\ acked \in [HumanIds -> GoodSession \cup {None}]
    /\ humanCall \in [Callers -> HumanCalls \cup {None}]
    /\ \A c \in Callers : HumanAt(c, "append") => Len(humanCall[c].rows) = 1
    /\ \A c \in Callers : HumanAt(c, "open") \/ HumanAt(c, "fill") => Mentions(humanCall[c].rows, humanCall[c].id)

\* A change that the calls let through keeps a session good.
LEMMA MutatedIsGood ==
    ASSUME NEW s \in GoodSession, NEW change \in Change, Mutates(s, change)
    PROVE  Mutated(s, change) \in GoodSession /\ Mutated(s, change).id = s.id
<1>1. s \in Session /\ Receipted(s)
    BY DEF GoodSession
<1>2. CASE change.kind = "state"
    <2>1. change.to \in DOMAIN AllowedTransitions /\ change.receipt \in BOOLEAN \cup {None}
          /\ change.followup \in BOOLEAN \cup {None}
        BY <1>2 DEF Change
    <2> DEFINE got == Receipt(s, change)
               followup == Followup(s, change)
    <2>2. followup \in BOOLEAN /\ got \in BOOLEAN
        BY <1>1, <2>1 DEF Followup, Receipt, Session
    <2>3. Mutated(s, change) = [s EXCEPT !.state = change.to, !.receipt = got, !.followup = followup]
        BY <1>2 DEF Mutated
    <2>4. change.to = "integrated" /\ s.required => got
        BY <1>2 DEF Mutates, Lawful
    <2> HIDE DEF got, followup
    <2> DEFINE t == [s EXCEPT !.state = change.to, !.receipt = got, !.followup = followup]
    <2>5. /\ t \in Session /\ t.id = s.id /\ t.state = change.to /\ t.required = s.required
          /\ t.receipt = got
        BY <1>1, <2>1, <2>2 DEF Session
    <2>6. Receipted(t)
        BY <2>4, <2>5 DEF Receipted
    <2> QED
        BY <2>3, <2>5, <2>6 DEF GoodSession
<1>3. CASE change.kind = "interaction"
    <2>1. change.followup \in BOOLEAN \cup {None}
        BY <1>3 DEF Change
    <2>2. Followup(s, change) \in BOOLEAN
        BY <1>1, <2>1 DEF Followup, Session
    <2>3. Mutated(s, change) = [s EXCEPT !.followup = Followup(s, change)]
        BY <1>3 DEF Mutated
    <2> QED
        BY <1>1, <2>2, <2>3 DEF Session, GoodSession, Receipted
<1>4. CASE change.kind \in {"receipt", "note", "ask"}
    <2>1. Mutated(s, change) = IF change.kind = "receipt" THEN [s EXCEPT !.receipt = TRUE]
                               ELSE IF change.kind = "note" THEN s
                               ELSE [s EXCEPT !.asked = TRUE, !.followup = TRUE]
        BY <1>4 DEF Mutated
    <2> QED
        BY <1>1, <1>4, <2>1 DEF Session, GoodSession, Receipted
<1> QED
    BY <1>2, <1>3, <1>4 DEF Change

LEMMA RewrittenSessions ==
    ASSUME NEW rows \in Seq(GoodSession), NEW i, NEW change \in Change, Mentions(rows, i),
           \A n \in DOMAIN rows : rows[n].id = i => Mutates(rows[n], change)
    PROVE  RewriteRows(rows, i, change) \in Seq(GoodSession) /\ Mentions(RewriteRows(rows, i, change), i)
<1> DEFINE Of(n) == IF rows[n].id = i THEN Mutated(rows[n], change) ELSE rows[n]
<1>1. ASSUME NEW n \in DOMAIN rows
      PROVE  Of(n) \in GoodSession /\ Of(n).id = rows[n].id
    <2>1. rows[n] \in GoodSession
        OBVIOUS
    <2> QED
        BY <2>1, MutatedIsGood
<1>2. RewriteRows(rows, i, change) = [n \in DOMAIN rows |-> Of(n)]
    BY DEF RewriteRows
<1> HIDE DEF Of
<1>3. [n \in DOMAIN rows |-> Of(n)] \in Seq(GoodSession)
    BY <1>1
<1>4. Mentions([n \in DOMAIN rows |-> Of(n)], i)
    BY <1>1 DEF Mentions
<1> QED
    BY <1>2, <1>3, <1>4

LEMMA HumanStart == HumanInit => HumanInv
<1> SUFFICES ASSUME HumanInit PROVE HumanInv
    OBVIOUS
<1>1. Filed \in Seq(GoodSession)
    <2>1. Filed \in Seq(Session) /\ \A n \in DOMAIN Filed : Filed[n] \in GoodSession
        BY FiledAssumption DEF GoodSession
    <2> QED
        BY <2>1
<1>2. \A i \in HumanIds : acked[i] \in GoodSession \cup {None}
    BY <1>1, FirstOfAnId DEF HumanInit
<1> QED
    BY <1>1, <1>2 DEF HumanInit, HumanInv, HumanAt, Files

\* A call that goes on to one that is well-formed, and a file that stays good.
LEMMA HumanCallChanges ==
    ASSUME HumanInv, NEW c \in Callers, NEW call \in HumanCalls \cup {None},
           humanCall' = [humanCall EXCEPT ![c] = call],
           call \in HumanCalls => /\ call.at = "append" => Len(call.rows) = 1
                                  /\ call.at \in {"open", "fill"} => Mentions(call.rows, call.id),
           humanLog' \in Files(GoodSession), acked' \in [HumanIds -> GoodSession \cup {None}]
    PROVE  HumanInv'
BY DEF HumanInv, HumanAt

LEMMA HumanStep == HumanInv /\ [HumanNext]_humanVars => HumanInv'
<1> SUFFICES ASSUME HumanInv, [HumanNext]_humanVars PROVE HumanInv'
    OBVIOUS
<1>1. CASE UNCHANGED humanVars
    BY <1>1 DEF humanVars, HumanInv, HumanAt
<1>2. ASSUME NEW c \in Callers, CreateStep(c)
      PROVE  HumanInv'
    <2>1. PICK i \in HumanIds, required \in BOOLEAN, a2h \in BOOLEAN : BeginCreate(c, i, required, a2h)
        BY <1>2 DEF CreateStep
    <2> DEFINE new == NewSession(i, required, a2h)
               call == [at |-> "append", id |-> i, change |-> [kind |-> "ask"], rows |-> <<new>>]
    <2>2. new \in GoodSession
        BY DEF NewSession, GoodSession, Session, Receipted, AllowedTransitions
    <2>3. [kind |-> "ask"] \in Change
        BY DEF Change
    <2>4. humanCall' = [humanCall EXCEPT ![c] = call] /\ UNCHANGED <<humanLog, acked>>
        BY <2>1 DEF BeginCreate, BeginHumanCall
    <2> HIDE DEF new
    <2>5. call \in HumanCalls /\ Len(call.rows) = 1 /\ call.at = "append"
        BY <2>2, <2>3 DEF HumanCalls
    <2> QED
        BY <2>4, <2>5, HumanCallChanges DEF HumanInv
<1>3. ASSUME NEW c \in Callers, ChangeStep(c)
      PROVE  HumanInv'
    <2>1. PICK i \in HumanIds, change \in Offered : BeginChange(c, i, change)
        BY <1>3 DEF ChangeStep
    <2> DEFINE call == [at |-> "read", id |-> i, change |-> change, rows |-> <<>>]
    <2>2. call \in HumanCalls /\ call.at = "read"
        BY OfferedAssumption DEF HumanCalls
    <2>3. humanCall' = [humanCall EXCEPT ![c] = call] /\ UNCHANGED <<humanLog, acked>>
        BY <2>1 DEF BeginChange, BeginHumanCall
    <2> QED
        BY <2>2, <2>3, HumanCallChanges DEF HumanInv
<1>4. ASSUME NEW c \in Callers, humanCall' = [humanCall EXCEPT ![c] = None],
             humanLog' \in Files(GoodSession), acked' \in [HumanIds -> GoodSession \cup {None}]
      PROVE  HumanInv'
    BY <1>4 DEF HumanInv, HumanAt
<1>5. ASSUME NEW c \in Callers, AppendSession(c)
      PROVE  HumanInv'
    <2> DEFINE new == humanCall[c].rows[1]
               call == [humanCall[c] EXCEPT !.at = "read", !.rows = <<>>]
    <2>1. humanCall[c] \in HumanCalls /\ new \in GoodSession
        BY <1>5 DEF AppendSession, HumanInv, HumanAt, HumanCalls
    <2>2. humanLog' \in Files(GoodSession)
        BY <1>5, <2>1, AppendedFile DEF AppendSession, HumanInv
    <2>3. acked' \in [HumanIds -> GoodSession \cup {None}]
        BY <1>5, <2>1 DEF AppendSession, HumanInv, GoodSession, Session
    <2>4. call \in HumanCalls /\ call.at = "read"
        <3>1. <<>> \in Seq(GoodSession)
            OBVIOUS
        <3> HIDE DEF new
        <3> QED
            BY <2>1, <3>1 DEF HumanCalls
    <2>5. humanCall' = [humanCall EXCEPT ![c] = None] \/ humanCall' = [humanCall EXCEPT ![c] = call]
        BY <1>5 DEF AppendSession, AfterAppend, HumanEnds
    <2> QED
        BY <1>4, <2>2, <2>3, <2>4, <2>5, HumanCallChanges
<1>6. ASSUME NEW c \in Callers, ReadSessions(c)
      PROVE  HumanInv'
    <2> DEFINE rows == RowsOf(humanLog)
               old == humanCall[c]
               new == RewriteRows(rows, old.id, old.change)
               call == [old EXCEPT !.at = "open", !.rows = new]
    <2>1. old \in HumanCalls /\ UNCHANGED <<humanLog, acked>>
        BY <1>6 DEF ReadSessions, HumanInv, HumanAt
    <2>2. CASE Readable(humanLog) /\ Mentions(rows, old.id) /\ (\A n \in DOMAIN rows : rows[n].id = old.id => Mutates(rows[n], old.change))
        <3>1. new \in Seq(GoodSession) /\ Mentions(new, old.id)
            BY <2>1, <2>2, RowsOfAFile, RewrittenSessions DEF HumanInv, HumanCalls
        <3>2. humanCall' = [humanCall EXCEPT ![c] = call]
            BY <1>6, <2>2 DEF ReadSessions
        <3> HIDE DEF new
        <3>3. call \in HumanCalls /\ call.at = "open" /\ call.rows = new /\ call.id = old.id
            BY <2>1, <3>1 DEF HumanCalls
        <3> QED
            BY <2>1, <3>1, <3>2, <3>3, HumanCallChanges DEF HumanInv
    <2>3. CASE ~(Readable(humanLog) /\ Mentions(rows, old.id)
                /\ \A n \in DOMAIN rows : rows[n].id = old.id => Mutates(rows[n], old.change))
        <3>1. humanCall' = [humanCall EXCEPT ![c] = None]
            BY <1>6, <2>3 DEF ReadSessions, HumanEnds
        <3> QED
            BY <1>4, <2>1, <3>1 DEF HumanInv
    <2> QED
        BY <2>2, <2>3
<1>7. ASSUME NEW c \in Callers, OpenSessions(c)
      PROVE  HumanInv'
    <2> DEFINE call == [humanCall[c] EXCEPT !.at = "fill"]
    <2>1. humanCall[c] \in HumanCalls /\ Mentions(humanCall[c].rows, humanCall[c].id)
        BY <1>7 DEF OpenSessions, HumanInv, HumanAt
    <2>2. call \in HumanCalls /\ call.at = "fill" /\ Mentions(call.rows, call.id)
        BY <2>1 DEF HumanCalls
    <2>3. humanCall' = [humanCall EXCEPT ![c] = call] /\ humanLog' \in Files(GoodSession) /\ acked' = acked
        BY <1>7 DEF OpenSessions, HumanGoes, Files
    <2> QED
        BY <2>2, <2>3, HumanCallChanges DEF HumanInv
<1>8. ASSUME NEW c \in Callers, FillSessions(c)
      PROVE  HumanInv'
    <2>1. /\ humanCall[c] \in HumanCalls /\ humanCall[c].rows \in Seq(GoodSession)
          /\ Mentions(humanCall[c].rows, humanCall[c].id)
        BY <1>8 DEF FillSessions, HumanInv, HumanAt, HumanCalls
    <2>2. humanLog' \in Files(GoodSession)
        BY <1>8, <2>1, FilledFile DEF FillSessions, HumanInv
    <2>3. humanCall[c].rows[LastRow(humanCall[c].rows, humanCall[c].id)] \in GoodSession
        BY <2>1, LastOfAnId
    <2>4. acked' \in [HumanIds -> GoodSession \cup {None}]
        BY <1>8, <2>3 DEF FillSessions, HumanInv
    <2> QED
        BY <1>4, <1>8, <2>2, <2>4 DEF FillSessions, HumanEnds
<1>9. ASSUME NEW c \in Callers, HumanDies(c)
      PROVE  HumanInv'
    BY <1>4, <1>9 DEF HumanDies, HumanEnds, HumanInv
<1> QED
    BY <1>1, <1>2, <1>3, <1>5, <1>6, <1>7, <1>8, <1>9 DEF HumanNext

\* No session that requires a receipt is integrated without one, in the file
\* and in what callers were told, however calls overlap and whoever dies.
THEOREM ReceiptsComeFirst == HumanSpec => []ReceiptBeforeIntegration
<1>1. HumanInv => ReceiptBeforeIntegration
    <2> SUFFICES ASSUME HumanInv PROVE ReceiptBeforeIntegration
        OBVIOUS
    <2>1. ASSUME humanLog # Torn, NEW s \in SessionsIn(humanLog)
          PROVE  Receipted(s)
        <3>1. RowsOf(humanLog) \in Seq(GoodSession)
            BY <2>1, RowsOfAFile DEF HumanInv, Readable
        <3> QED
            BY <2>1, <3>1 DEF SessionsIn, GoodSession
    <2>2. ASSUME NEW i \in HumanIds, acked[i] # None
          PROVE  Receipted(acked[i])
        BY <2>2 DEF HumanInv, GoodSession
    <2> QED
        BY <2>1, <2>2 DEF ReceiptBeforeIntegration
<1> QED
    BY <1>1, HumanStart, HumanStep, PTL DEF HumanSpec

-----------------------------------------------------------------------------
(* Outcome links.                                                          *)

GoodLink == {link \in Link : RestsOnMeasurements(link)}
LinkChangeVerbs == {"baseline", "post", "voided"} \cup LinkVerdicts

LinkCalls == [at : {"read", "open", "fill", "emit"}, id : LinkIds,
              verb : LinkChangeVerbs \cup {"created"}, rows : Seq(GoodLink)]

LinkInv ==
    /\ linkLog \in Files(GoodLink)
    /\ linkCall \in [Recorders -> LinkCalls \cup {None}]
    /\ \A c \in Recorders : LinkAt(c, "read") => linkCall[c].verb \in LinkChangeVerbs

\* A change that a link takes keeps it good.
LEMMA ChangedLinkIsGood ==
    ASSUME NEW link \in GoodLink, NEW verb \in LinkChangeVerbs, Takes(link, verb), NEW c \in Recorders
    PROVE  LinkAfter(link, verb, c) \in GoodLink
<1> USE LinkAssumption
<1> DEFINE new == LinkAfter(link, verb, c)
<1> SUFFICES new \in GoodLink
    OBVIOUS
<1>1. link \in Link /\ RestsOnMeasurements(link)
    BY DEF GoodLink
<1>2. CASE verb = "baseline"
    <2>1. new = [link EXCEPT !.baseline = c, !.status = "measuring"]
        BY <1>2 DEF LinkAfter, LinkVerdicts
    <2> HIDE DEF new
    <2>2. new \in Link /\ new.status = "measuring" /\ new.baseline = c
        BY <1>1, <2>1 DEF Link, LinkVerdicts, ClosedLink
    <2> QED
        BY <2>2 DEF GoodLink, RestsOnMeasurements
<1>3. CASE verb = "post"
    <2> DEFINE posts == link.posts + 1
    <2>1. new = [link EXCEPT !.posts = posts, !.status = "measuring"]
        BY <1>3 DEF LinkAfter, LinkVerdicts
    <2>2. link.baseline # None /\ posts \in Nat
        BY <1>1, <1>3 DEF Takes, LinkVerdicts, Link
    <2> HIDE DEF new, posts
    <2>3. new \in Link /\ new.status = "measuring" /\ new.baseline = link.baseline
        BY <1>1, <2>1, <2>2 DEF Link, ClosedLink
    <2> QED
        BY <2>2, <2>3 DEF GoodLink, RestsOnMeasurements
<1>4. CASE verb = "voided"
    <2>1. new = [link EXCEPT !.status = "voided"]
        BY <1>4 DEF LinkAfter, LinkVerdicts
    <2> HIDE DEF new
    <2>2. new \in Link /\ new.status = "voided" /\ new.baseline = link.baseline /\ new.posts = link.posts
        BY <1>1, <2>1 DEF Link, ClosedLink
    <2> QED
        BY <1>1, <2>2 DEF GoodLink, RestsOnMeasurements
<1>5. CASE verb \in LinkVerdicts
    <2> DEFINE review == ReviewOf(link, verb)
    <2>1. new = [link EXCEPT !.status = "verdict_recorded", !.verdict = verb, !.review = review]
        BY <1>5 DEF LinkAfter, LinkVerdicts
    <2>2. link.baseline # None /\ link.posts > 0
        BY <1>5 DEF Takes, TakesVerdict, LinkVerdicts
    <2>3. review \in {"not_predicted", "prediction_met", "prediction_failed", "prediction_inconclusive"}
        BY <1>5 DEF ReviewOf
    <2> HIDE DEF review, new
    <2>4. /\ new \in Link /\ new.baseline = link.baseline /\ new.posts = link.posts
          /\ new.verdict = verb /\ new.review = review
        BY <1>1, <1>5, <2>1, <2>3 DEF Link, ClosedLink
    <2> QED
        BY <1>5, <2>2, <2>3, <2>4 DEF GoodLink, RestsOnMeasurements
<1> QED
    BY <1>2, <1>3, <1>4, <1>5 DEF LinkChangeVerbs

LEMMA LinkCallChanges ==
    ASSUME LinkInv, NEW c \in Recorders, NEW call \in LinkCalls \cup {None},
           linkCall' = [linkCall EXCEPT ![c] = call],
           call \in LinkCalls /\ call.at = "read" => call.verb \in LinkChangeVerbs,
           linkLog' \in Files(GoodLink)
    PROVE  LinkInv'
BY DEF LinkInv, LinkAt

LEMMA LinkStep == LinkInv /\ [LinkNext]_linkVars => LinkInv'
<1> SUFFICES ASSUME LinkInv, [LinkNext]_linkVars PROVE LinkInv'
    OBVIOUS
<1>1. CASE UNCHANGED linkVars
    BY <1>1 DEF linkVars, LinkInv, LinkAt
<1>2. ASSUME NEW c \in Recorders, linkCall' = [linkCall EXCEPT ![c] = None], linkLog' \in Files(GoodLink)
      PROVE  LinkInv'
    BY <1>2 DEF LinkInv, LinkAt
<1>3. ASSUME NEW c \in Recorders, LinkCreateStep(c)
      PROVE  LinkInv'
    <2>1. PICK i \in LinkIds, change \in LinkedChanges, predicted \in Predictions :
                 CreateLink(c, i, change, predicted)
        BY <1>3 DEF LinkCreateStep
    <2> DEFINE call == [at |-> "emit", id |-> i, verb |-> "created", rows |-> <<>>]
    <2>2. NewLink(i, change, predicted) \in GoodLink
        BY PredictionAssumption DEF NewLink, GoodLink, Link, RestsOnMeasurements
    <2>3. linkLog' \in Files(GoodLink)
        BY <2>1, <2>2, AppendedFile DEF CreateLink, LinkInv
    <2>4. call \in LinkCalls /\ call.at = "emit"
        BY DEF LinkCalls
    <2>5. linkCall' = [linkCall EXCEPT ![c] = call]
        BY <2>1 DEF CreateLink
    <2> QED
        BY <2>3, <2>4, <2>5, LinkCallChanges
<1>4. ASSUME NEW c \in Recorders, LinkChangeStep(c)
      PROVE  LinkInv'
    <2>1. PICK i \in LinkIds, verb \in LinkChangeVerbs : BeginLinkChange(c, i, verb)
        BY <1>4 DEF LinkChangeStep, LinkChangeVerbs
    <2> DEFINE call == [at |-> "read", id |-> i, verb |-> verb, rows |-> <<>>]
    <2>2. call \in LinkCalls /\ call.verb \in LinkChangeVerbs
        BY DEF LinkCalls
    <2>3. linkCall' = [linkCall EXCEPT ![c] = call] /\ linkLog' = linkLog
        BY <2>1 DEF BeginLinkChange
    <2> QED
        BY <2>2, <2>3, LinkCallChanges DEF LinkInv
<1>5. ASSUME NEW c \in Recorders, ReadLinks(c)
      PROVE  LinkInv'
    <2> DEFINE rows == RowsOf(linkLog)
               old == linkCall[c]
               Of(n) == IF rows[n].id = old.id THEN LinkAfter(rows[n], old.verb, c) ELSE rows[n]
               new == [n \in DOMAIN rows |-> Of(n)]
               call == [old EXCEPT !.at = "open", !.rows = new]
    <2>1. old \in LinkCalls /\ old.verb \in LinkChangeVerbs /\ linkLog' = linkLog
        BY <1>5 DEF ReadLinks, LinkInv, LinkAt
    <2>2. CASE Readable(linkLog) /\ Mentions(rows, old.id)
             /\ (\A n \in DOMAIN rows : rows[n].id = old.id => Takes(rows[n], old.verb))
        <3>1. rows \in Seq(GoodLink)
            BY <2>2, RowsOfAFile DEF LinkInv
        <3>2. ASSUME NEW n \in DOMAIN rows
              PROVE  Of(n) \in GoodLink
            BY <2>1, <2>2, <3>1, ChangedLinkIsGood
        <3>3. new \in Seq(GoodLink)
            <4> HIDE DEF Of, rows
            <4> QED
                BY <3>1, <3>2
        <3>4. linkCall' = [linkCall EXCEPT ![c] = call]
            BY <1>5, <2>2 DEF ReadLinks
        <3> HIDE DEF new
        <3>5. call \in LinkCalls /\ call.at = "open"
            BY <2>1, <3>3 DEF LinkCalls
        <3> QED
            BY <2>1, <3>4, <3>5, LinkCallChanges DEF LinkInv
    <2>3. CASE ~(Readable(linkLog) /\ Mentions(rows, old.id)
                /\ \A n \in DOMAIN rows : rows[n].id = old.id => Takes(rows[n], old.verb))
        <3>1. linkCall' = [linkCall EXCEPT ![c] = None]
            BY <1>5, <2>3 DEF ReadLinks, LinkEnds
        <3> QED
            BY <1>2, <2>1, <3>1 DEF LinkInv
    <2> QED
        BY <2>2, <2>3
<1>6. ASSUME NEW c \in Recorders, NEW at \in {"fill", "emit"}, linkCall[c] \in LinkCalls, LinkGoes(c, at),
             linkLog' \in Files(GoodLink)
      PROVE  LinkInv'
    <2> DEFINE call == [linkCall[c] EXCEPT !.at = at]
    <2>1. call \in LinkCalls /\ call.at # "read"
        BY <1>6 DEF LinkCalls
    <2>2. linkCall' = [linkCall EXCEPT ![c] = call]
        BY <1>6 DEF LinkGoes
    <2> HIDE DEF call
    <2> QED
        BY <1>6, <2>1, <2>2, LinkCallChanges
<1>7. ASSUME NEW c \in Recorders, NEW at, LinkAt(c, at)
      PROVE  linkCall[c] \in LinkCalls
    BY <1>7 DEF LinkAt, LinkInv
<1>8. ASSUME NEW c \in Recorders, OpenLinks(c)
      PROVE  LinkInv'
    BY <1>6, <1>7, <1>8 DEF OpenLinks, Files
<1>9. ASSUME NEW c \in Recorders, FillLinks(c)
      PROVE  LinkInv'
    <2>1. linkCall[c] \in LinkCalls /\ linkCall[c].rows \in Seq(GoodLink)
        BY <1>7, <1>9 DEF FillLinks, LinkCalls
    <2>2. linkLog' \in Files(GoodLink)
        BY <1>9, <2>1, FilledFile DEF FillLinks, LinkInv
    <2> QED
        BY <1>6, <1>9, <2>1, <2>2 DEF FillLinks
<1>10. ASSUME NEW c \in Recorders, EmitLink(c)
       PROVE  LinkInv'
    BY <1>2, <1>10 DEF EmitLink, LinkEnds, LinkInv
<1> QED
    BY <1>1, <1>3, <1>4, <1>5, <1>8, <1>9, <1>10 DEF LinkNext

\* A verdict rests on a measurement before the change and one after it, even in
\* a file that overlapping calls rewrite.
THEOREM VerdictsRest == LinkSpec => []VerdictRestsOnMeasurements
<1>1. LinkInit => LinkInv
    BY DEF LinkInit, LinkInv, LinkAt, Files
<1>2. LinkInv => VerdictRestsOnMeasurements
    <2> SUFFICES ASSUME LinkInv, linkLog # Torn, NEW link \in LinksIn(linkLog)
                 PROVE  RestsOnMeasurements(link)
        BY DEF VerdictRestsOnMeasurements
    <2>1. RowsOf(linkLog) \in Seq(GoodLink)
        BY RowsOfAFile DEF LinkInv, Readable
    <2> QED
        BY <2>1 DEF LinksIn, ToSet, GoodLink
<1> QED
    BY <1>1, <1>2, LinkStep, PTL DEF LinkSpec

-----------------------------------------------------------------------------
(* Decision cases.                                                         *)

Ballot == [actor : PanelActors, role : PanelRoles, position : Positions]
Recommendations == {"approve", "reject", "escalate"}

Case == [id : CaseIds, terms : {opening \in Openings : MayOpen(opening)},
         status : {"collecting", "computed", "escalated"},
         ballots : {ballots \in SUBSET Ballot : IsFiniteSet(ballots)},
         result : Recommendations \cup {None}]

GoodCase == {case \in Case : FitsThePositions(case)}

CaseCalls == [at : {"get", "read", "open", "fill"}, id : CaseIds,
              what : {"open", "position", "compute", "route"}, ballot : Ballot \cup {None},
              row : GoodCase \cup {None}, rows : Seq(GoodCase)]

CaseInv ==
    /\ caseLog \in Files(GoodCase)
    /\ caseCall \in [Clerks -> CaseCalls \cup {None}]
    /\ \A c \in Clerks :
          /\ CaseAt(c, "get") => /\ caseCall[c].what # "open"
                                 /\ caseCall[c].what = "position" => caseCall[c].ballot \in Ballot
          /\ CaseAt(c, "read") => caseCall[c].row \in GoodCase

\* A recommendation is one of three, and rests on the terms and the positions
\* alone.
LEMMA RecommendationOf ==
    ASSUME NEW case
    PROVE  Recommendation(case) \in Recommendations
BY DEF Recommendation, Recommendations, SingleAuthority, Unanimity, Majority

LEMMA SamePositions ==
    ASSUME NEW case, NEW other, case.terms = other.terms, case.ballots = other.ballots
    PROVE  Recommendation(case) = Recommendation(other)
<1>1. \A position : Count(case, position) = Count(other, position)
    BY DEF Count
<1>2. Participants(case) = Participants(other)
    BY <1>1 DEF Participants
<1>3. /\ SingleAuthority(case) = SingleAuthority(other) /\ Unanimity(case) = Unanimity(other)
      /\ Majority(case) = Majority(other)
    BY <1>1, <1>2 DEF SingleAuthority, Unanimity, Majority
<1> QED
    BY <1>1, <1>3 DEF Recommendation

LEMMA NewCaseIsGood ==
    ASSUME NEW i \in CaseIds, NEW opening \in Openings, MayOpen(opening)
    PROVE  NewCase(i, opening) \in GoodCase
<1>1. IsFiniteSet({})
    BY FS_EmptySet
<1> QED
    BY <1>1 DEF NewCase, GoodCase, Case, FitsThePositions

LEMMA PositionIsGood ==
    ASSUME NEW case \in GoodCase, NEW ballot \in Ballot, TakesBallot(case, ballot)
    PROVE  [case EXCEPT !.ballots = @ \cup {ballot}] \in GoodCase
<1> DEFINE ballots == case.ballots \cup {ballot}
           new == [case EXCEPT !.ballots = ballots]
<1>1. case \in Case /\ FitsThePositions(case) /\ case.status = "collecting"
    BY DEF GoodCase, TakesBallot
<1>2. ballots \in SUBSET Ballot /\ IsFiniteSet(ballots)
    BY <1>1, FS_AddElement DEF Case
<1> HIDE DEF ballots
<1>3. new \in Case /\ new.status = "collecting" /\ new.result = case.result
    BY <1>1, <1>2 DEF Case
<1>4. new \in GoodCase
    BY <1>1, <1>3 DEF GoodCase, FitsThePositions
<1> QED
    BY <1>4 DEF ballots

LEMMA ComputedIsGood ==
    ASSUME NEW case \in GoodCase
    PROVE  Computed(case) \in GoodCase
<1> DEFINE result == Recommendation(case)
           status == IF result = "escalate" THEN "escalated" ELSE "computed"
           new == Computed(case)
<1>1. case \in Case
    BY DEF GoodCase
<1>2. result \in Recommendations /\ result # None
    BY RecommendationOf, ResultsAssumption DEF Recommendations
<1>3. status \in {"escalated", "computed"}
    OBVIOUS
<1>4. new = [case EXCEPT !.result = result, !.status = status]
    BY DEF Computed
<1> HIDE DEF result, status, new
<1>5. /\ new \in Case /\ new.terms = case.terms /\ new.ballots = case.ballots
      /\ new.result = result /\ new.status = status
    BY <1>1, <1>2, <1>3, <1>4 DEF Case
<1>6. Recommendation(new) = result
    BY <1>5, SamePositions DEF result
<1>7. new \in GoodCase
    BY <1>2, <1>3, <1>5, <1>6 DEF GoodCase, FitsThePositions
<1> QED
    BY <1>7 DEF new

LEMMA CaseCallChanges ==
    ASSUME CaseInv, NEW c \in Clerks, NEW call \in CaseCalls \cup {None},
           caseCall' = [caseCall EXCEPT ![c] = call],
           call \in CaseCalls /\ call.at = "get" =>
               call.what # "open" /\ (call.what = "position" => call.ballot \in Ballot),
           call \in CaseCalls /\ call.at = "read" => call.row \in GoodCase,
           caseLog' \in Files(GoodCase)
    PROVE  CaseInv'
BY DEF CaseInv, CaseAt

LEMMA CaseStep == CaseInv /\ [CaseNext]_caseVars => CaseInv'
<1> SUFFICES ASSUME CaseInv, [CaseNext]_caseVars PROVE CaseInv'
    OBVIOUS
<1>1. CASE UNCHANGED caseVars
    BY <1>1 DEF caseVars, CaseInv, CaseAt
<1>2. ASSUME NEW c \in Clerks, caseCall' = [caseCall EXCEPT ![c] = None], caseLog' \in Files(GoodCase)
      PROVE  CaseInv'
    BY <1>2 DEF CaseInv, CaseAt
<1>3. ASSUME NEW c \in Clerks, CaseOpenStep(c)
      PROVE  CaseInv'
    <2>1. PICK i \in CaseIds, opening \in Openings : OpenCase(c, i, opening)
        BY <1>3 DEF CaseOpenStep
    <2> DEFINE row == NewCase(i, opening)
               call == [at |-> "read", id |-> i, what |-> "open", ballot |-> None, row |-> row, rows |-> <<>>]
    <2>2. row \in GoodCase
        BY <2>1, NewCaseIsGood DEF OpenCase
    <2>3. caseCall' = [caseCall EXCEPT ![c] = call] /\ caseLog' = caseLog
        BY <2>1 DEF OpenCase, BeginCase
    <2> HIDE DEF row
    <2>4. call \in CaseCalls /\ call.at = "read" /\ call.row \in GoodCase
        BY <2>2 DEF CaseCalls
    <2> QED
        BY <2>3, <2>4, CaseCallChanges DEF CaseInv
<1>4. ASSUME NEW c \in Clerks, NEW i \in CaseIds, NEW what \in {"position", "compute", "route"},
             NEW ballot \in Ballot \cup {None}, what = "position" => ballot \in Ballot,
             UseCase(c, i, what, ballot)
      PROVE  CaseInv'
    <2> DEFINE call == [at |-> "get", id |-> i, what |-> what, ballot |-> ballot, row |-> None, rows |-> <<>>]
    <2>1. /\ call \in CaseCalls /\ call.at = "get" /\ call.what # "open"
          /\ call.what = "position" => call.ballot \in Ballot
        BY <1>4 DEF CaseCalls
    <2>2. caseCall' = [caseCall EXCEPT ![c] = call] /\ caseLog' = caseLog
        BY <1>4 DEF UseCase, BeginCase
    <2> QED
        BY <2>1, <2>2, CaseCallChanges DEF CaseInv
<1>5. ASSUME NEW c \in Clerks, PositionStep(c)
      PROVE  CaseInv'
    BY <1>4, <1>5 DEF PositionStep, Ballot
<1>6. ASSUME NEW c \in Clerks, CaseUseStep(c)
      PROVE  CaseInv'
    BY <1>4, <1>6 DEF CaseUseStep
<1>7. ASSUME NEW c \in Clerks, GetCase(c)
      PROVE  CaseInv'
    <2> DEFINE old == caseCall[c]
               case == FirstFor(RowsOf(caseLog), old.id)
               row == IF old.what = "compute" THEN Computed(case)
                      ELSE [case EXCEPT !.ballots = @ \cup {old.ballot}]
               call == [old EXCEPT !.at = "read", !.row = row]
               found == /\ Readable(caseLog) /\ Mentions(RowsOf(caseLog), old.id)
                        /\ old.what = "position" => TakesBallot(case, old.ballot)
                        /\ old.what = "route" => case.status = "escalated"
    <2>1. /\ old \in CaseCalls /\ old.what # "open" /\ caseLog' = caseLog
          /\ old.what = "position" => old.ballot \in Ballot
        BY <1>7 DEF GetCase, CaseInv, CaseAt
    <2>2. CASE caseCall' = [caseCall EXCEPT ![c] = None]
        BY <1>2, <2>1, <2>2 DEF CaseInv
    <2>3. CASE found /\ old.what \in {"position", "compute"}
        <3>1. case \in GoodCase
            BY <2>3, RowsOfAFile, FirstOfAnId DEF CaseInv
        <3>2. row \in GoodCase
            BY <2>1, <2>3, <3>1, PositionIsGood, ComputedIsGood
        <3>3. caseCall' = [caseCall EXCEPT ![c] = call]
            BY <1>7, <2>3 DEF GetCase
        <3> HIDE DEF row
        <3>4. call \in CaseCalls /\ call.at = "read" /\ call.row = row
            BY <2>1, <3>2 DEF CaseCalls
        <3> QED
            BY <2>1, <3>2, <3>3, <3>4, CaseCallChanges DEF CaseInv
    <2> QED
        BY <1>7, <2>1, <2>2, <2>3 DEF GetCase, CaseEnds, CaseCalls
<1>8. ASSUME NEW c \in Clerks, ReadCases(c)
      PROVE  CaseInv'
    <2> DEFINE old == caseCall[c]
               rows == RowsOf(caseLog)
               new == IF Mentions(rows, old.id) THEN WithRow(rows, old.id, old.row)
                      ELSE Append(rows, old.row)
               call == [old EXCEPT !.at = "open", !.rows = new]
    <2>1. old \in CaseCalls /\ old.row \in GoodCase /\ caseLog' = caseLog
        BY <1>8 DEF ReadCases, CaseInv, CaseAt
    <2>2. CASE Readable(caseLog)
        <3>1. rows \in Seq(GoodCase)
            BY <2>2, RowsOfAFile DEF CaseInv
        <3>2. new \in Seq(GoodCase)
            BY <2>1, <3>1, RewrittenRows
        <3>3. caseCall' = [caseCall EXCEPT ![c] = call]
            BY <1>8, <2>2 DEF ReadCases
        <3> HIDE DEF new
        <3>4. call \in CaseCalls /\ call.at = "open"
            BY <2>1, <3>2 DEF CaseCalls
        <3> QED
            BY <2>1, <3>3, <3>4, CaseCallChanges DEF CaseInv
    <2>3. CASE ~Readable(caseLog)
        BY <1>2, <1>8, <2>1, <2>3 DEF ReadCases, CaseEnds, CaseInv
    <2> QED
        BY <2>2, <2>3
<1>9. ASSUME NEW c \in Clerks, OpenCases(c)
      PROVE  CaseInv'
    <2> DEFINE call == [caseCall[c] EXCEPT !.at = "fill"]
    <2>1. caseCall[c] \in CaseCalls
        BY <1>9 DEF OpenCases, CaseInv, CaseAt
    <2>2. call \in CaseCalls /\ call.at = "fill"
        BY <2>1 DEF CaseCalls
    <2>3. caseCall' = [caseCall EXCEPT ![c] = call]
        BY <1>9 DEF OpenCases, CaseGoes
    <2>4. caseLog' \in Files(GoodCase)
        BY <1>9 DEF OpenCases, Files
    <2> HIDE DEF call
    <2> QED
        BY <2>2, <2>3, <2>4, CaseCallChanges
<1>10. ASSUME NEW c \in Clerks, FillCases(c)
      PROVE  CaseInv'
    <2>1. caseCall[c] \in CaseCalls /\ caseCall[c].rows \in Seq(GoodCase)
        BY <1>10 DEF FillCases, CaseInv, CaseAt, CaseCalls
    <2>2. caseLog' \in Files(GoodCase)
        BY <1>10, <2>1, FilledFile DEF FillCases, CaseInv
    <2> QED
        BY <1>2, <1>10, <2>2 DEF FillCases, CaseEnds
<1> QED
    BY <1>1, <1>3, <1>5, <1>6, <1>7, <1>8, <1>9, <1>10 DEF CaseNext

LEMMA CaseStart == CaseInit => CaseInv
BY DEF CaseInit, CaseInv, CaseAt, Files

LEMMA GoodCases == CaseInv => \A case \in CasesIn(caseLog) : case \in GoodCase
<1> SUFFICES ASSUME CaseInv, NEW case \in CasesIn(caseLog) PROVE case \in GoodCase
    OBVIOUS
<1>1. caseLog # Torn
    BY DEF CasesIn
<1>2. RowsOf(caseLog) \in Seq(GoodCase)
    BY <1>1, RowsOfAFile DEF CaseInv, Readable
<1> QED
    BY <1>1, <1>2 DEF CasesIn, ToSet

\* The recommendation in a case is that of its procedure for the positions
\* beside it, however calls overlap, for every procedure, quorum and panel.
THEOREM ResultsFitPositions == CaseSpec => []ResultIsOfThePositions
<1>1. CaseInv => ResultIsOfThePositions
    BY GoodCases DEF ResultIsOfThePositions, GoodCase
<1> QED
    BY <1>1, CaseStart, CaseStep, PTL DEF CaseSpec

\* Dissent decides: a veto where the procedure knows one, any opposition under
\* unanimity; and what is approved has more support than opposition and as
\* many participants as the quorum asks.
THEOREM DissentPrevails == CaseSpec => []DissentDecides
<1>1. CaseInv => DissentDecides
    <2> SUFFICES ASSUME CaseInv, NEW case \in CasesIn(caseLog), case.result # None
                 PROVE  /\ case.terms.procedure \in {"veto", "unanimity"} /\ Count(case, "veto") > 0
                             => case.result = "reject"
                        /\ case.terms.procedure = "unanimity" /\ Count(case, "reject") > 0
                             => case.result = "reject"
                        /\ case.result = "approve" =>
                             /\ Count(case, "approve") > Count(case, "reject")
                             /\ Participants(case) >= case.terms.quorum
        BY DEF DissentDecides
    <2>1. /\ case \in Case /\ case.result = Recommendation(case)
        BY GoodCases DEF GoodCase, FitsThePositions
    <2>2. /\ case.terms.quorum \in Nat /\ case.terms.quorum >= 1
          /\ case.terms.procedure \in Procedures
          /\ case.terms.procedure = "single_authority" => case.terms.quorum = 1
        BY <2>1, OpeningsAssumption DEF Case, MayOpen
    <2>3. \A position : Count(case, position) \in Nat
        <3> TAKE position
        <3>1. IsFiniteSet(case.ballots)
            BY <2>1 DEF Case
        <3>2. IsFiniteSet({b \in case.ballots : b.position = position})
            BY <3>1, FS_Subset
        <3> QED
            BY <3>2, FS_CardinalityType DEF Count
    <2> DEFINE approve == Count(case, "approve")
               reject == Count(case, "reject")
               veto == Count(case, "veto")
               apart == Count(case, "abstain") + Count(case, "recuse")
    <2>4. /\ approve \in Nat /\ reject \in Nat /\ veto \in Nat
          /\ Participants(case) = approve + reject + veto
        BY <2>3 DEF Participants
    <2>5. CASE case.terms.procedure = "single_authority"
        <3>1. Recommendation(case) = IF approve + reject + veto # 1 THEN "escalate"
                                     ELSE IF approve = 1 THEN "approve" ELSE "reject"
            BY <2>4, <2>5 DEF Recommendation, SingleAuthority
        <3> HIDE DEF approve, reject, veto
        <3> QED
            BY <2>1, <2>2, <2>4, <2>5, <3>1 DEF approve, reject, veto
    <2>6. CASE case.terms.procedure = "unanimity"
        <3>1. Recommendation(case) = IF veto + reject > 0 THEN "reject"
                                     ELSE IF approve >= case.terms.quorum /\ apart = 0
                                     THEN "approve" ELSE "escalate"
            BY <2>6 DEF Recommendation, Unanimity
        <3> HIDE DEF approve, reject, veto, apart
        <3> QED
            BY <2>1, <2>2, <2>4, <2>6, <3>1 DEF approve, reject, veto
    <2>7. CASE case.terms.procedure \in {"veto", "quorum_majority"}
        <3>1. Recommendation(case) =
                  IF case.terms.procedure = "veto" /\ veto > 0 THEN "reject"
                  ELSE IF approve + reject + veto < case.terms.quorum \/ approve = reject THEN "escalate"
                  ELSE IF approve > reject THEN "approve" ELSE "reject"
            BY <2>4, <2>7 DEF Recommendation, Majority
        <3> HIDE DEF approve, reject, veto
        <3> QED
            BY <2>1, <2>2, <2>4, <2>7, <3>1 DEF approve, reject, veto
    <2> QED
        BY <2>2, <2>5, <2>6, <2>7 DEF Procedures
<1> QED
    BY <1>1, CaseStart, CaseStep, PTL DEF CaseSpec

-----------------------------------------------------------------------------
(* Governance changes.                                                     *)

GoodProposal ==
    {proposal \in [id : ProposalIds, by : Actors, offer : Offers, status : {"review_ready", "blocked"}] :
        proposal.status = StatusOf(proposal.offer)}

Decision == [id : ProposalIds, actor : Actors, verdict : {"approved", "declined"}, row : Nat]

Request == [at : {"find", "decided", "lease", "record"}, id : ProposalIds, actor : Actors,
            verdict : {"approved", "declined"}, row : Nat, lease : Nat]

\* A lease has a number of its own, and a request carries one that was given.
LeasesAreNumbered ==
    /\ leasesRequired \in BOOLEAN /\ overlapped \in BOOLEAN
    /\ leaseMoves \in Nat /\ holder \in [actor : Actors \cup {None}, number : 0 .. leaseMoves]
    /\ holder.actor # None => holder.number > 0
    /\ request \in [Deciders -> Request \cup {None}]
    /\ \A c \in Deciders : request[c] # None => request[c].lease <= leaseMoves

\* What is decided, or about to be, is a row that is ready.
IsReady(n) == n \in DOMAIN proposals /\ MayBeDecided(proposals[n])

RowsAreReady ==
    /\ proposals \in Seq(GoodProposal)
    /\ decisions \in Seq(Decision)
    /\ \A n \in DOMAIN decisions : IsReady(decisions[n].row)
    /\ \A c \in Deciders : request[c] # None /\ request[c].at # "find" => IsReady(request[c].row)

\* Without overlap: two requests are under way only where leases are required,
\* and of different actors; who is about to record still has the lease; and
\* who looked and still has it, looked at what still is so.
Alone == \A c, d \in Deciders : request[c] # None /\ request[d] # None /\ c # d =>
             leasesRequired /\ request[c].actor # request[d].actor
LooksStill == \A c \in Deciders :
    (RequestAt(c, "lease") \/ RequestAt(c, "record")) /\ LeaseHolds(c) => ~IsDecided(request[c].id)

GovernanceInv ==
    /\ LeasesAreNumbered
    /\ RowsAreReady
    /\ ~overlapped => /\ Alone
                      /\ LooksStill
                      /\ \A c \in Deciders : RequestAt(c, "record") => LeaseHolds(c)
                      /\ NeverDecidedTwice

LEMMA GovernanceStart == GovernanceInit => GovernanceInv
<1> SUFFICES ASSUME GovernanceInit PROVE GovernanceInv
    OBVIOUS
<1>1. LeasesAreNumbered
    <2>1. leaseMoves = 0 /\ holder = [actor |-> None, number |-> 0] /\ holder.number \in 0 .. leaseMoves
        BY DEF GovernanceInit
    <2>2. holder \in [actor : Actors \cup {None}, number : 0 .. leaseMoves] /\ holder.actor = None
        BY <2>1
    <2>3. request \in [Deciders -> Request \cup {None}] /\ \A c \in Deciders : request[c] = None
        BY DEF GovernanceInit
    <2>4. leasesRequired \in BOOLEAN /\ overlapped \in BOOLEAN
        BY DEF GovernanceInit
    <2> QED
        BY <2>1, <2>2, <2>3, <2>4 DEF LeasesAreNumbered
<1>2. RowsAreReady /\ NeverDecidedTwice
    BY DEF GovernanceInit, RowsAreReady, NeverDecidedTwice
<1>3. \A c \in Deciders : request[c] = None
    BY DEF GovernanceInit
<1> QED
    BY <1>1, <1>2, <1>3 DEF GovernanceInv, Alone, LooksStill, RequestAt

LEMMA NumberedStep == GovernanceInv /\ [GovernanceNext]_governanceVars => LeasesAreNumbered'
<1> SUFFICES ASSUME GovernanceInv, [GovernanceNext]_governanceVars PROVE LeasesAreNumbered'
    OBVIOUS
<1> USE GovernanceAssumption DEF LeasesAreNumbered
<1>0. LeasesAreNumbered
    BY DEF GovernanceInv
<1>1. CASE UNCHANGED governanceVars
    BY <1>0, <1>1 DEF governanceVars
<1>2. CASE ProposeStep
    BY <1>0, <1>2 DEF ProposeStep, Propose
<1>3. ASSUME NEW actor \in Actors, TakeLease(actor)
      PROVE  LeasesAreNumbered'
    <2>1. leaseMoves' \in Nat /\ leaseMoves' = leaseMoves + 1
        BY <1>0, <1>3 DEF TakeLease
    <2>2. holder' \in [actor : Actors \cup {None}, number : 0 .. leaseMoves'] /\ holder'.number > 0
        BY <1>0, <1>3, <2>1 DEF TakeLease
    <2>3. \A c \in Deciders : request[c] # None => request[c].lease <= leaseMoves'
        BY <1>0, <2>1 DEF Request
    <2>4. overlapped' \in BOOLEAN
        BY <1>3 DEF TakeLease
    <2> QED
        BY <1>0, <1>3, <2>1, <2>2, <2>3, <2>4 DEF TakeLease
<1>4. ASSUME NEW c \in Deciders, NEW new \in Request \cup {None}, request' = [request EXCEPT ![c] = new],
             new \in Request => new.lease <= leaseMoves, overlapped' \in BOOLEAN,
             UNCHANGED <<leasesRequired, leaseMoves, holder>>
      PROVE  LeasesAreNumbered'
    BY <1>0, <1>4
<1>5. ASSUME NEW c \in Deciders, DecideStep(c)
      PROVE  LeasesAreNumbered'
    <2>1. PICK i \in ProposalIds, actor \in Actors, verdict \in {"approved", "declined"} :
              BeginDecision(c, i, actor, verdict)
        BY <1>5 DEF DecideStep
    <2> DEFINE lease == IF holder.actor = actor THEN holder.number ELSE 0
               new == [at |-> "find", id |-> i, actor |-> actor, verdict |-> verdict, row |-> 0, lease |-> lease]
    <2>2. lease \in Nat /\ lease <= leaseMoves
        BY <1>0
    <2>3. /\ request' = [request EXCEPT ![c] = new] /\ overlapped' \in BOOLEAN
          /\ UNCHANGED <<leasesRequired, leaseMoves, holder>>
        BY <2>1 DEF BeginDecision
    <2> HIDE DEF lease
    <2>4. new \in Request /\ new.lease <= leaseMoves
        BY <2>2 DEF Request
    <2> QED
        BY <1>4, <2>3, <2>4
<1>6. ASSUME NEW c \in Deciders, FindProposal(c) \/ CheckDecided(c) \/ VerifyLease(c) \/ RecordDecision(c)
      PROVE  LeasesAreNumbered'
    <2> DEFINE row == LastRow(proposals, request[c].id)
               found == [request[c] EXCEPT !.at = "decided", !.row = row]
               looked == [request[c] EXCEPT !.at = "lease"]
               holds == [request[c] EXCEPT !.at = "record"]
    <2>1. /\ request[c] \in Request /\ request[c].lease <= leaseMoves
          /\ UNCHANGED <<leasesRequired, leaseMoves, holder, overlapped>> /\ overlapped' \in BOOLEAN
        BY <1>0, <1>6 DEF FindProposal, CheckDecided, VerifyLease, RecordDecision, RequestAt
    <2>2. looked \in Request /\ holds \in Request /\ looked.lease <= leaseMoves /\ holds.lease <= leaseMoves
        BY <2>1 DEF Request
    <2>3. CASE request' = [request EXCEPT ![c] = None]
        BY <1>0, <2>1, <2>3
    <2>4. CASE request' = [request EXCEPT ![c] = looked] \/ request' = [request EXCEPT ![c] = holds]
        BY <1>4, <2>1, <2>2, <2>4
    <2>5. CASE FindProposal(c) /\ request' # [request EXCEPT ![c] = None]
        <3>1. row \in DOMAIN proposals
            BY <2>5, LastOfAnId DEF FindProposal, GovernanceInv, RowsAreReady, RequestEnds
        <3>2. row \in Nat
            BY <3>1 DEF GovernanceInv, RowsAreReady
        <3>3. request' = [request EXCEPT ![c] = found]
            BY <2>5 DEF FindProposal, RequestEnds
        <3> HIDE DEF row
        <3>4. found \in Request /\ found.lease <= leaseMoves
            BY <2>1, <3>2 DEF Request
        <3> QED
            BY <1>4, <2>1, <3>3, <3>4
    <2> QED
        BY <1>6, <2>3, <2>4, <2>5 DEF FindProposal, CheckDecided, VerifyLease, RecordDecision,
                                      RequestGoes, RequestEnds
<1> QED
    BY <1>1, <1>2, <1>3, <1>5, <1>6 DEF GovernanceNext, LeaseStep

LEMMA ReadyStep == GovernanceInv /\ [GovernanceNext]_governanceVars => RowsAreReady'
<1> SUFFICES ASSUME GovernanceInv, [GovernanceNext]_governanceVars PROVE RowsAreReady'
    OBVIOUS
<1>0. LeasesAreNumbered /\ RowsAreReady
    BY DEF GovernanceInv
<1>1. CASE UNCHANGED governanceVars
    BY <1>0, <1>1 DEF governanceVars, RowsAreReady, IsReady
<1>2. CASE ProposeStep
    <2>1. PICK i \in ProposalIds, actor \in Actors, offer \in Offers : Propose(i, actor, offer)
        BY <1>2 DEF ProposeStep
    <2> DEFINE new == [id |-> i, by |-> actor, offer |-> offer, status |-> StatusOf(offer)]
    <2>2. new \in GoodProposal
        <3>1. StatusOf(offer) \in {"review_ready", "blocked"}
            BY DEF StatusOf
        <3> QED
            BY <3>1 DEF GoodProposal
    <2>3. proposals' = Append(proposals, new) /\ UNCHANGED <<decisions, request>>
        BY <2>1 DEF Propose
    <2> HIDE DEF new
    <2>4. proposals' \in Seq(GoodProposal)
        BY <1>0, <2>2, <2>3 DEF RowsAreReady
    <2>5. \A n : IsReady(n) => IsReady(n)'
        <3> SUFFICES ASSUME NEW n \in DOMAIN proposals PROVE n \in DOMAIN proposals' /\ proposals'[n] = proposals[n]
            BY DEF IsReady, MayBeDecided
        <3> QED
            BY <1>0, <2>2, <2>3 DEF RowsAreReady
    <2> QED
        BY <1>0, <2>3, <2>4, <2>5 DEF RowsAreReady
<1>3. ASSUME NEW actor \in Actors, TakeLease(actor)
      PROVE  RowsAreReady'
    BY <1>0, <1>3 DEF TakeLease, RowsAreReady, IsReady
<1>4. ASSUME UNCHANGED proposals, decisions' \in Seq(Decision),
             \A n \in DOMAIN decisions' : IsReady(decisions'[n].row),
             NEW c \in Deciders, NEW new, request' = [request EXCEPT ![c] = new],
             new # None /\ new.at # "find" => IsReady(new.row)
      PROVE  RowsAreReady'
    <2>1. \A d \in Deciders : request'[d] = IF d = c THEN new ELSE request[d]
        BY <1>0, <1>4 DEF LeasesAreNumbered
    <2> QED
        BY <1>0, <1>4, <2>1 DEF RowsAreReady, IsReady
<1>5. ASSUME NEW c \in Deciders, DecideStep(c)
      PROVE  RowsAreReady'
    <2>1. PICK i \in ProposalIds, actor \in Actors, verdict \in {"approved", "declined"} :
              BeginDecision(c, i, actor, verdict)
        BY <1>5 DEF DecideStep
    <2> DEFINE new == [at |-> "find", id |-> i, actor |-> actor, verdict |-> verdict, row |-> 0,
                       lease |-> IF holder.actor = actor THEN holder.number ELSE 0]
    <2>2. request' = [request EXCEPT ![c] = new] /\ UNCHANGED <<proposals, decisions>> /\ new.at = "find"
        BY <2>1 DEF BeginDecision
    <2> HIDE DEF new
    <2> QED
        BY <1>0, <1>4, <2>2 DEF RowsAreReady
<1>6. ASSUME NEW c \in Deciders, FindProposal(c)
      PROVE  RowsAreReady'
    <2> DEFINE row == LastRow(proposals, request[c].id)
               new == [request[c] EXCEPT !.at = "decided", !.row = row]
    <2>1. UNCHANGED <<proposals, decisions>>
        BY <1>6 DEF FindProposal
    <2>2. CASE request' = [request EXCEPT ![c] = None]
        BY <1>0, <1>4, <2>1, <2>2 DEF RowsAreReady
    <2>3. CASE request' # [request EXCEPT ![c] = None]
        <3>1. Mentions(proposals, request[c].id) /\ MayBeDecided(proposals[row])
            BY <1>6, <2>3 DEF FindProposal, RequestEnds
        <3>2. IsReady(row)
            BY <1>0, <3>1, LastOfAnId DEF RowsAreReady, IsReady
        <3>3. request' = [request EXCEPT ![c] = new] /\ request[c] \in Request
            BY <1>0, <1>6, <2>3 DEF FindProposal, RequestEnds, RequestAt, LeasesAreNumbered
        <3> HIDE DEF row
        <3>4. new.row = row
            BY <3>3 DEF Request
        <3> HIDE DEF new
        <3> QED
            BY <1>0, <1>4, <2>1, <3>2, <3>3, <3>4 DEF RowsAreReady
    <2> QED
        BY <2>2, <2>3
<1>7. ASSUME NEW c \in Deciders, CheckDecided(c) \/ VerifyLease(c)
      PROVE  RowsAreReady'
    <2> DEFINE looked == [request[c] EXCEPT !.at = "lease"]
               holds == [request[c] EXCEPT !.at = "record"]
    <2>1. UNCHANGED <<proposals, decisions>> /\ request[c] \in Request /\ IsReady(request[c].row)
        BY <1>0, <1>7 DEF CheckDecided, VerifyLease, RequestAt, LeasesAreNumbered, RowsAreReady
    <2>2. looked.row = request[c].row /\ holds.row = request[c].row
        BY <2>1 DEF Request
    <2>3. \/ request' = [request EXCEPT ![c] = looked] \/ request' = [request EXCEPT ![c] = holds]
          \/ request' = [request EXCEPT ![c] = None]
        BY <1>7 DEF CheckDecided, VerifyLease, RequestGoes, RequestEnds
    <2> HIDE DEF looked, holds
    <2> QED
        BY <1>0, <1>4, <2>1, <2>2, <2>3 DEF RowsAreReady
<1>8. ASSUME NEW c \in Deciders, RecordDecision(c)
      PROVE  RowsAreReady'
    <2> DEFINE new == [id |-> request[c].id, actor |-> request[c].actor,
                       verdict |-> request[c].verdict, row |-> request[c].row]
    <2>1. UNCHANGED proposals /\ request[c] \in Request /\ IsReady(request[c].row)
        BY <1>0, <1>8 DEF RecordDecision, RequestAt, LeasesAreNumbered, RowsAreReady
    <2>2. new \in Decision /\ new.row = request[c].row
        BY <2>1 DEF Decision, Request
    <2>3. decisions' = Append(decisions, new) /\ request' = [request EXCEPT ![c] = None]
        BY <1>8 DEF RecordDecision, RequestEnds
    <2> HIDE DEF new
    <2>4. decisions' \in Seq(Decision) /\ \A n \in DOMAIN decisions' : IsReady(decisions'[n].row)
        BY <1>0, <2>1, <2>2, <2>3 DEF RowsAreReady
    <2> QED
        BY <1>4, <2>1, <2>3, <2>4
<1> QED
    BY <1>1, <1>2, <1>3, <1>5, <1>6, <1>7, <1>8 DEF GovernanceNext, LeaseStep

LEMMA OnceStep ==
    ASSUME GovernanceInv, [GovernanceNext]_governanceVars, ~overlapped'
    PROVE  (/\ Alone
            /\ LooksStill
            /\ \A c \in Deciders : RequestAt(c, "record") => LeaseHolds(c)
            /\ NeverDecidedTwice)'
<1> DEFINE RecordersHold == \A c \in Deciders : RequestAt(c, "record") => LeaseHolds(c)
<1>1. LeasesAreNumbered /\ RowsAreReady
    BY DEF GovernanceInv
<1>2. CASE UNCHANGED governanceVars
    BY <1>2 DEF governanceVars, GovernanceInv, Alone, LooksStill, RequestAt, LeaseHolds, IsDecided, Decided,
                NeverDecidedTwice
<1>3. CASE GovernanceNext
    <2>1. ~overlapped
        BY <1>1, <1>3 DEF LeasesAreNumbered, GovernanceNext, ProposeStep, LeaseStep, DecideStep, Propose,
               TakeLease, BeginDecision, FindProposal, CheckDecided, VerifyLease, RecordDecision
    <2>2. Alone /\ LooksStill /\ RecordersHold /\ NeverDecidedTwice
        BY <2>1 DEF GovernanceInv
    <2>3. CASE ProposeStep
        BY <2>2, <2>3 DEF ProposeStep, Propose, Alone, LooksStill, RequestAt, LeaseHolds, IsDecided, Decided,
               NeverDecidedTwice
    <2>4. ASSUME NEW actor \in Actors, TakeLease(actor)
          PROVE  (Alone /\ LooksStill /\ RecordersHold /\ NeverDecidedTwice)'
        <3>1. UNCHANGED <<leasesRequired, decisions, request>> /\ holder'.number = leaseMoves + 1
            BY <2>4 DEF TakeLease
        <3>2. \A c \in Deciders : ~RequestAt(c, "record")
            BY <2>4 DEF TakeLease
        <3>3. \A c \in Deciders : request[c] # None => request[c].lease \in Nat /\ request[c].lease <= leaseMoves
            BY <1>1 DEF LeasesAreNumbered, Request
        <3>4. \A c \in Deciders : request[c] # None /\ LeaseHolds(c)' => LeaseHolds(c)
            BY <1>1, <3>1, <3>3 DEF LeaseHolds, LeasesAreNumbered
        <3> QED
            BY <2>2, <3>1, <3>2, <3>4 DEF Alone, LooksStill, RequestAt, IsDecided, Decided, NeverDecidedTwice
    <2>5. ASSUME NEW c \in Deciders, DecideStep(c)
          PROVE  (Alone /\ LooksStill /\ RecordersHold /\ NeverDecidedTwice)'
        <3>1. PICK i \in ProposalIds, actor \in Actors, verdict \in {"approved", "declined"} :
                  BeginDecision(c, i, actor, verdict)
            BY <2>5 DEF DecideStep
        <3> DEFINE new == [at |-> "find", id |-> i, actor |-> actor, verdict |-> verdict, row |-> 0,
                           lease |-> IF holder.actor = actor THEN holder.number ELSE 0]
        <3>2. /\ request' = [request EXCEPT ![c] = new] /\ new.at = "find" /\ new.actor = actor
              /\ UNCHANGED <<leasesRequired, decisions, holder>>
            BY <3>1 DEF BeginDecision
        <3>3. \A d \in Deciders : request[d] # None => leasesRequired /\ request[d].actor # actor
            BY <1>1, <3>1 DEF BeginDecision, LeasesAreNumbered
        <3> HIDE DEF new
        <3>4. \A d \in Deciders : request'[d] = IF d = c THEN new ELSE request[d]
            BY <1>1, <3>2 DEF LeasesAreNumbered
        <3>5. Alone'
            BY <2>2, <3>2, <3>3, <3>4 DEF Alone
        <3> QED
            BY <2>2, <3>2, <3>4, <3>5 DEF LooksStill, RequestAt, LeaseHolds, IsDecided, Decided, NeverDecidedTwice
    <2>6. ASSUME NEW c \in Deciders, NEW new, request' = [request EXCEPT ![c] = new],
                 UNCHANGED <<leasesRequired, decisions, holder>>, request[c] # None,
                 new # None =>
                     /\ new.actor = request[c].actor /\ new.lease = request[c].lease /\ new.id = request[c].id
                     /\ new.at \in {"lease", "record"} /\ LeaseHolds(c) => ~IsDecided(request[c].id)
                     /\ new.at = "record" => LeaseHolds(c)
          PROVE  (Alone /\ LooksStill /\ RecordersHold /\ NeverDecidedTwice)'
        <3>1. \A d \in Deciders : request'[d] = IF d = c THEN new ELSE request[d]
            BY <1>1, <2>6 DEF LeasesAreNumbered
        <3>2. Alone'
            BY <2>2, <2>6, <3>1 DEF Alone
        <3>3. \A d \in Deciders : request'[d] # None => (LeaseHolds(d)' <=> LeaseHolds(d))
            BY <2>6, <3>1 DEF LeaseHolds
        <3>4. \A id : IsDecided(id)' <=> IsDecided(id)
            BY <2>6 DEF IsDecided, Decided
        <3>5. (LooksStill /\ RecordersHold)'
            BY <2>2, <2>6, <3>1, <3>3, <3>4 DEF LooksStill, RequestAt
        <3> QED
            BY <2>2, <2>6, <3>2, <3>5 DEF NeverDecidedTwice
    <2>7. ASSUME NEW c \in Deciders, FindProposal(c) \/ CheckDecided(c) \/ VerifyLease(c)
          PROVE  (Alone /\ LooksStill /\ RecordersHold /\ NeverDecidedTwice)'
        <3> DEFINE found == [request[c] EXCEPT !.at = "decided", !.row = LastRow(proposals, request[c].id)]
                   looked == [request[c] EXCEPT !.at = "lease"]
                   holds == [request[c] EXCEPT !.at = "record"]
        <3>1. request[c] \in Request /\ request[c] # None /\ UNCHANGED <<leasesRequired, decisions, holder>>
            BY <1>1, <2>7 DEF FindProposal, CheckDecided, VerifyLease, RequestAt, LeasesAreNumbered
        <3>2. /\ \A new \in {found, looked, holds} :
                    new.actor = request[c].actor /\ new.lease = request[c].lease /\ new.id = request[c].id
              /\ found.at = "decided" /\ looked.at = "lease" /\ holds.at = "record"
            BY <3>1 DEF Request
        <3>3. \/ request' = [request EXCEPT ![c] = None]
              \/ request' = [request EXCEPT ![c] = found]
              \/ request' = [request EXCEPT ![c] = looked] /\ ~IsDecided(request[c].id)
              \/ request' = [request EXCEPT ![c] = holds] /\ LeaseHolds(c) /\ RequestAt(c, "lease")
            BY <2>7 DEF FindProposal, CheckDecided, VerifyLease, RequestGoes, RequestEnds
        <3>4. RequestAt(c, "lease") /\ LeaseHolds(c) => ~IsDecided(request[c].id)
            BY <2>2 DEF LooksStill
        <3> HIDE DEF found, looked, holds
        <3>5. CASE request' = [request EXCEPT ![c] = None]
            BY <2>6, <3>1, <3>5
        <3>6. CASE request' = [request EXCEPT ![c] = found]
            BY <2>6, <3>1, <3>2, <3>6
        <3>7. CASE request' = [request EXCEPT ![c] = looked] /\ ~IsDecided(request[c].id)
            BY <2>6, <3>1, <3>2, <3>7
        <3>8. CASE request' = [request EXCEPT ![c] = holds] /\ LeaseHolds(c) /\ RequestAt(c, "lease")
            BY <2>6, <3>1, <3>2, <3>4, <3>8
        <3> QED
            BY <3>3, <3>5, <3>6, <3>7, <3>8
    <2>8. ASSUME NEW c \in Deciders, RecordDecision(c)
          PROVE  (Alone /\ LooksStill /\ RecordersHold /\ NeverDecidedTwice)'
        <3> DEFINE new == [id |-> request[c].id, actor |-> request[c].actor,
                           verdict |-> request[c].verdict, row |-> request[c].row]
                   i == request[c].id
        <3>1. /\ request' = [request EXCEPT ![c] = None] /\ decisions' = Append(decisions, new)
              /\ UNCHANGED <<leasesRequired, holder>> /\ new.id = i
            BY <2>8 DEF RecordDecision, RequestEnds
        <3>2. RequestAt(c, "record") /\ request[c] # None /\ LeaseHolds(c) /\ ~IsDecided(i)
            BY <2>2, <2>8 DEF RecordDecision, LooksStill, RequestAt
        <3>3. \A d \in Deciders : request'[d] = IF d = c THEN None ELSE request[d]
            BY <1>1, <3>1 DEF LeasesAreNumbered
        <3>4. decisions \in Seq(Decision)
            BY <1>1 DEF RowsAreReady
        <3> HIDE DEF new
        <3>5. DOMAIN decisions' = DOMAIN decisions \cup {Len(decisions) + 1}
            BY <3>1, <3>4
        <3>6. /\ \A n \in DOMAIN decisions : decisions'[n] = decisions[n]
              /\ decisions'[Len(decisions) + 1] = new
            BY <3>1, <3>4
        <3>7. \A n \in DOMAIN decisions : decisions[n].id # i
            BY <3>2 DEF IsDecided, Decided
        <3>8. NeverDecidedTwice'
            BY <2>2, <3>1, <3>5, <3>6, <3>7 DEF NeverDecidedTwice
        <3>9. Alone'
            BY <2>2, <3>1, <3>3 DEF Alone
        <3>10. \A d \in Deciders : request'[d] # None => ~LeaseHolds(d) /\ ~LeaseHolds(d)'
            <4> SUFFICES ASSUME NEW d \in Deciders, request'[d] # None
                         PROVE  ~LeaseHolds(d) /\ ~LeaseHolds(d)'
                OBVIOUS
            <4>1. d # c /\ request'[d] = request[d] /\ request[d] # None
                BY <3>3
            <4>2. leasesRequired /\ request[c].actor # request[d].actor
                BY <2>2, <3>2, <4>1 DEF Alone
            <4>3. holder.actor = request[c].actor
                BY <3>2, <4>2 DEF LeaseHolds
            <4> QED
                BY <3>1, <4>1, <4>2, <4>3 DEF LeaseHolds
        <3>11. (LooksStill /\ RecordersHold)'
            BY <2>2, <3>3, <3>10 DEF LooksStill, RequestAt
        <3> QED
            BY <3>8, <3>9, <3>11
    <2> QED
        BY <1>3, <2>3, <2>4, <2>5, <2>7, <2>8 DEF GovernanceNext, LeaseStep
<1> QED
    BY <1>2, <1>3

LEMMA GovernanceStep == GovernanceInv /\ [GovernanceNext]_governanceVars => GovernanceInv'
BY NumberedStep, ReadyStep, OnceStep DEF GovernanceInv

\* A proposal has one decision, unless two requests overlapped in a way that
\* the configuration allows, for any number of requests, actors and leases.
THEOREM DecisionsAreFinal == GovernanceSpec => []DecidedOnce
<1>1. GovernanceInv => DecidedOnce
    BY DEF GovernanceInv, DecidedOnce, NeverDecidedTwice
<1> QED
    BY <1>1, GovernanceStart, GovernanceStep, PTL DEF GovernanceSpec

\* The row that was read for a decision passes every required check, on cited
\* evidence, and fails none, whatever is offered.
THEOREM DecisionsRestOnEvidence == GovernanceSpec => []DecidedOnEvidence
<1>1. GovernanceInv => DecidedOnEvidence
    <2> SUFFICES ASSUME GovernanceInv, NEW n \in DOMAIN decisions
                 PROVE  LET offer == proposals[decisions[n].row].offer IN
                        /\ {"sources", "risk", "rollback"} \subseteq offer.has
                        /\ \A invariant \in Required :
                              \E k \in DOMAIN offer.checks : offer.checks[k].invariant = invariant
                                                  /\ offer.checks[k].status = "pass" /\ offer.checks[k].cited
                        /\ \A k \in DOMAIN offer.checks : offer.checks[k].status # "fail"
        BY DEF DecidedOnEvidence
    <2> DEFINE proposal == proposals[decisions[n].row]
               offer == proposal.offer
    <2>1. proposal \in GoodProposal /\ MayBeDecided(proposal)
        BY DEF GovernanceInv, RowsAreReady, IsReady
    <2>2. ChecksReady(offer.checks) /\ Sufficient(offer)
        BY <2>1 DEF GoodProposal, MayBeDecided, StatusOf
    <2> HIDE DEF proposal
    <2>3. {"sources", "risk", "rollback"} \subseteq offer.has
        BY <2>2 DEF Sufficient
    <2>4. ASSUME NEW invariant \in Required
          PROVE  \E k \in DOMAIN offer.checks : /\ offer.checks[k].invariant = invariant
                                                /\ offer.checks[k].status = "pass" /\ offer.checks[k].cited
        <3>1. PICK k \in DOMAIN offer.checks : offer.checks[k].invariant = invariant
                                               /\ offer.checks[k].status = "pass"
            BY <2>2 DEF ChecksReady, Passed
        <3> QED
            BY <2>2, <3>1 DEF Sufficient
    <2>5. \A k \in DOMAIN offer.checks : offer.checks[k].status # "fail"
        BY <2>2 DEF ChecksReady, Failed
    <2> QED
        BY <2>3, <2>4, <2>5 DEF proposal
<1> QED
    BY <1>1, GovernanceStart, GovernanceStep, PTL DEF GovernanceSpec

-----------------------------------------------------------------------------
(* Inbound events.                                                         *)

Genuine == {"conflict in accepted", "conflict in quarantine", "seen in accepted", "seen in quarantine",
            "project", "event", "accept"}
\* A handler that found no accepted record of its event.
Unseen == {"seen in quarantine", "project", "event"}
KernelEvent == [key : EventKeys, payload : Payloads]

InboundTypes ==
    /\ accepted \in Seq(InboundRow) /\ quarantine \in Seq(InboundRow)
    /\ kernelEvents \in Seq(KernelEvent) /\ inboundDeaths \in Nat
    /\ delivery \in [Handlers -> Work \cup {None}]
    /\ \A h \in Handlers : delivery[h] # None =>
          /\ delivery[h].at = "quarantine" => delivery[h].verdict \in Verdicts
          /\ delivery[h].at \in Genuine => Sent(h).signed

OnFile == ToSet(accepted) \cup ToSet(quarantine)

\* Who is about to reject does so for what a row in the files says.
VerdictsAreJustified ==
    /\ \A h \in Handlers : InboundAt(h, "quarantine") => Justified(Sent(h), delivery[h].verdict, OnFile)
    /\ SpoofsPoisonNothing

\* Of an event whose deliveries did not overlap: one handler works on it; if it
\* has looked, the event was not accepted; and there are more kernel events
\* than deaths only if one is accepted, or about to be.
WorkOn(h, key) == delivery[h] # None /\ Key(Sent(h)) = key

OneEvent(key) ==
    /\ \A g, h \in Handlers : WorkOn(g, key) /\ WorkOn(h, key) => g = h
    /\ \A h \in Handlers : WorkOn(h, key) /\ delivery[h].at \in Unseen => ~SeenKey(accepted, Sent(h))
    /\ Cardinality(EventsUnder(key)) <= 1 + inboundDeaths
    /\ Cardinality(EventsUnder(key)) > inboundDeaths =>
          \/ \E n \in DOMAIN accepted : Speaks(accepted[n]) /\ Key(accepted[n]) = key
          \/ \E h \in Handlers : WorkOn(h, key) /\ delivery[h].at = "accept"

InboundInv ==
    /\ InboundTypes
    /\ VerdictsAreJustified
    /\ \A key \in EventKeys : key \notin together => OneEvent(key)

\* What the steps have in common that only look: the files stay as they are,
\* and so does what was sent.
Looks(h, new) ==
    /\ delivery[h] \in Work /\ delivery[h] # None /\ delivery[h].at # "accept"
    /\ delivery' = [delivery EXCEPT ![h] = new]
    /\ UNCHANGED <<accepted, quarantine, kernelEvents, inboundDeaths, together>>
    /\ new \in Work /\ new.sent = Sent(h) /\ new.at # "accept"
    /\ new.at = "quarantine" => new.verdict \in Verdicts /\ Justified(Sent(h), new.verdict, OnFile)
    /\ new.at \in Genuine => Sent(h).signed
    /\ new.at \in Unseen => delivery[h].at \in Unseen \/ ~SeenKey(accepted, Sent(h))

LEMMA SeenIsJustified ==
    ASSUME NEW rows, ToSet(rows) \subseteq OnFile, NEW d
    PROVE  /\ SeenKey(rows, d) => Justified(d, "duplicate", OnFile)
           /\ Conflicts(rows, d) => Justified(d, "conflict", OnFile)
BY DEF SeenKey, Conflicts, Justified, Speaks, ToSet

LEMMA LookingSteps ==
    ASSUME InboundTypes, NEW h \in Handlers,
           \/ ReadWindow(h) \/ NoteWindow(h) \/ JudgeConflict(h) \/ JudgeSeen(h) \/ Project(h)
    PROVE  \E new : Looks(h, new)
<1> DEFINE old == delivery[h]
           Same == UNCHANGED <<accepted, quarantine, kernelEvents, inboundDeaths, together>>
<1>1. /\ old \in Work /\ old # None /\ old.at # "accept" /\ Same
      /\ old.at \in Genuine => Sent(h).signed
    BY DEF InboundTypes, ReadWindow, NoteWindow, JudgeConflict, JudgeSeen, Judge, Project, InboundAt, Work
<1>2. ASSUME NEW at \in InboundStages \ {"accept", "quarantine"}, InboundGoes(h, at),
             at \in Genuine => Sent(h).signed,
             at \in Unseen => old.at \in Unseen \/ ~SeenKey(accepted, Sent(h))
      PROVE  \E new : Looks(h, new)
    <2> DEFINE new == [old EXCEPT !.at = at]
    <2>1. new \in Work /\ new.at = at /\ new.sent = Sent(h)
        BY <1>1 DEF Work, Sent
    <2>2. delivery' = [delivery EXCEPT ![h] = new]
        BY <1>2 DEF InboundGoes
    <2> HIDE DEF new
    <2> QED
        BY <1>1, <1>2, <2>1, <2>2 DEF Looks
<1>3. ASSUME NEW verdict \in Verdicts, Rejects(h, verdict), Justified(Sent(h), verdict, OnFile)
      PROVE  \E new : Looks(h, new)
    <2> DEFINE new == [old EXCEPT !.at = "quarantine", !.verdict = verdict]
    <2>1. new \in Work /\ new.at = "quarantine" /\ new.sent = Sent(h) /\ new.verdict = verdict
        BY <1>1 DEF Work, Sent, InboundStages
    <2>2. delivery' = [delivery EXCEPT ![h] = new]
        BY <1>3 DEF Rejects
    <2> HIDE DEF new
    <2> QED
        BY <1>1, <1>3, <2>1, <2>2 DEF Looks, Genuine, Unseen
<1>4. \A verdict \in {"signature", "no projection", "projection failed"} : Justified(Sent(h), verdict, OnFile)
    BY DEF Justified
<1>5. CASE VerifySignature(h)
    BY <1>1, <1>2, <1>3, <1>4, <1>5 DEF VerifySignature, InboundStages, Genuine, Unseen, Verdicts
<1>6. CASE ReadWindow(h) \/ NoteWindow(h)
    BY <1>1, <1>2, <1>5, <1>6 DEF ReadWindow, NoteWindow, InboundStages, Genuine, Unseen
<1>7. ToSet(accepted) \subseteq OnFile /\ ToSet(quarantine) \subseteq OnFile
    BY DEF OnFile
<1>8. CASE JudgeConflict(h)
    BY <1>1, <1>2, <1>3, <1>7, <1>8, SeenIsJustified
       DEF JudgeConflict, Judge, InboundAt, InboundStages, Genuine, Unseen, Verdicts
<1>9. CASE JudgeSeen(h)
    BY <1>1, <1>2, <1>3, <1>7, <1>9, SeenIsJustified
       DEF JudgeSeen, Judge, InboundAt, InboundStages, Genuine, Unseen, Verdicts
<1>10. CASE Project(h)
    BY <1>1, <1>2, <1>3, <1>4, <1>10 DEF Project, InboundAt, InboundStages, Genuine, Unseen, Verdicts
<1> QED
    BY <1>6, <1>8, <1>9, <1>10

LEMMA InboundTypesStep == InboundTypes /\ [InboundNext]_inboundVars => InboundTypes'
<1> SUFFICES ASSUME InboundTypes, [InboundNext]_inboundVars PROVE InboundTypes'
    OBVIOUS
<1>1. CASE UNCHANGED inboundVars
    BY <1>1 DEF inboundVars, InboundTypes, Sent
<1>2. ASSUME NEW h \in Handlers, NEW new \in Work \cup {None}, delivery' = [delivery EXCEPT ![h] = new],
             new # None => /\ new.at = "quarantine" => new.verdict \in Verdicts
                           /\ new.at \in Genuine => new.sent.signed,
             accepted' \in Seq(InboundRow), quarantine' \in Seq(InboundRow),
             kernelEvents' \in Seq(KernelEvent), inboundDeaths' \in Nat
      PROVE  InboundTypes'
    <2>1. \A g \in Handlers : delivery'[g] = IF g = h THEN new ELSE delivery[g]
        BY <1>2 DEF InboundTypes
    <2>2. delivery' \in [Handlers -> Work \cup {None}]
        BY <1>2 DEF InboundTypes
    <2> QED
        BY <1>2, <2>1, <2>2 DEF InboundTypes, Sent
<1>3. ASSUME NEW h \in Handlers, DeliverStep(h)
      PROVE  InboundTypes'
    <2>1. PICK d \in Deliverable : Deliver(h, d)
        BY <1>3 DEF DeliverStep
    <2> DEFINE new == [at |-> "window", sent |-> d, verdict |-> None]
    <2>2. new \in Work /\ new.at = "window"
        BY DeliverableAssumption DEF Work, InboundStages
    <2>3. /\ delivery' = [delivery EXCEPT ![h] = new]
          /\ UNCHANGED <<accepted, quarantine, kernelEvents, inboundDeaths>>
        BY <2>1 DEF Deliver
    <2> HIDE DEF new
    <2> QED
        BY <1>2, <2>2, <2>3 DEF InboundTypes, Genuine
<1>4. ASSUME NEW h \in Handlers, NEW new, Looks(h, new)
      PROVE  InboundTypes'
    BY <1>2, <1>4 DEF Looks, InboundTypes
<1>5. ASSUME NEW h \in Handlers, RecordEvent(h) \/ Accept(h) \/ Quarantine(h) \/ DeadLetter(h) \/ InboundDies(h)
      PROVE  InboundTypes'
    <2> DEFINE records == [delivery[h] EXCEPT !.at = "accept"]
               rejected == [delivery[h] EXCEPT !.at = "dead letter"]
    <2>1. delivery[h] \in Work /\ Sent(h) \in Delivery /\ delivery[h] # None
        BY <1>5 DEF RecordEvent, Accept, Quarantine, DeadLetter, InboundDies, InboundAt, InboundTypes, Work, Sent
    <2>2. /\ records \in Work /\ records.at = "accept" /\ records.sent = Sent(h)
          /\ rejected \in Work /\ rejected.at = "dead letter"
        BY <2>1 DEF Work, InboundStages, Genuine, Sent
    <2>3. Key(Sent(h)) \in EventKeys /\ Sent(h).payload \in Payloads
        BY <2>1 DEF Key, EventKeys, Delivery
    <2>4. \A verdict \in Verdicts : Row(Sent(h), verdict) \in InboundRow
        BY <2>1 DEF Row, InboundRow, Delivery
    <2> HIDE DEF records, rejected
    <2>5. CASE RecordEvent(h)
        <3>1. [key |-> Key(Sent(h)), payload |-> Sent(h).payload] \in KernelEvent
            BY <2>3 DEF KernelEvent
        <3>2. kernelEvents' \in Seq(KernelEvent)
            BY <2>5, <3>1 DEF RecordEvent, InboundTypes
        <3>3. Sent(h).signed
            BY <2>5 DEF RecordEvent, InboundAt, InboundTypes, Genuine
        <3>4. delivery' = [delivery EXCEPT ![h] = records]
            BY <2>5 DEF RecordEvent, InboundGoes, records
        <3> QED
            BY <1>2, <2>2, <2>5, <3>2, <3>3, <3>4 DEF RecordEvent, InboundTypes
    <2>6. CASE Accept(h)
        <3>1. Row(Sent(h), "accepted") \in InboundRow
            BY <2>4 DEF Verdicts
        <3>2. accepted' \in Seq(InboundRow)
            BY <2>6, <3>1 DEF Accept, InboundTypes
        <3> QED
            BY <1>2, <2>6, <3>2 DEF Accept, InboundEnds, InboundTypes
    <2>7. CASE Quarantine(h)
        <3>1. delivery[h].verdict \in Verdicts
            BY <2>7 DEF Quarantine, InboundAt, InboundTypes
        <3>2. quarantine' \in Seq(InboundRow)
            BY <2>4, <2>7, <3>1 DEF Quarantine, InboundTypes
        <3>3. delivery' = [delivery EXCEPT ![h] = rejected]
            BY <2>7 DEF Quarantine, AfterQuarantine, InboundGoes, rejected
        <3> QED
            BY <1>2, <2>2, <2>7, <3>2, <3>3 DEF Quarantine, InboundTypes, Genuine
    <2>8. CASE DeadLetter(h)
        BY <1>2, <2>8 DEF DeadLetter, InboundEnds, InboundTypes
    <2>9. CASE InboundDies(h)
        <3>1. inboundDeaths' \in Nat
            BY <2>9 DEF InboundDies, InboundTypes
        <3> QED
            BY <1>2, <2>9, <3>1 DEF InboundDies, InboundEnds, InboundTypes
    <2> QED
        BY <1>5, <2>5, <2>6, <2>7, <2>8, <2>9
<1>6. ASSUME NEW h \in Handlers, RegisterProjection(h)
      PROVE  InboundTypes'
    BY <1>6 DEF RegisterProjection, InboundTypes, Sent
<1> QED
    BY <1>1, <1>3, <1>4, <1>5, <1>6, LookingSteps DEF InboundNext

LEMMA MoreOnFile ==
    ASSUME NEW judged, NEW verdict, NEW S, NEW T, S \subseteq T, Justified(judged, verdict, S)
    PROVE  Justified(judged, verdict, T)
BY DEF Justified

LEMMA AppendedRows ==
    ASSUME NEW S, NEW rows \in Seq(S), NEW row \in S
    PROVE  /\ Append(rows, row) \in Seq(S) /\ Len(rows) \in Nat
           /\ DOMAIN rows = 1 .. Len(rows)
           /\ DOMAIN Append(rows, row) = 1 .. Len(rows) + 1
           /\ \A n \in DOMAIN rows : Append(rows, row)[n] = rows[n]
           /\ Append(rows, row)[Len(rows) + 1] = row
           /\ ToSet(Append(rows, row)) = ToSet(rows) \cup {row}
<1>1. /\ Append(rows, row) \in Seq(S) /\ Len(rows) \in Nat
      /\ DOMAIN rows = 1 .. Len(rows)
      /\ DOMAIN Append(rows, row) = 1 .. Len(rows) + 1
      /\ \A n \in DOMAIN rows : Append(rows, row)[n] = rows[n]
      /\ Append(rows, row)[Len(rows) + 1] = row
    OBVIOUS
<1>2. 1 .. Len(rows) + 1 = (1 .. Len(rows)) \cup {Len(rows) + 1}
    BY <1>1
<1>3. ToSet(Append(rows, row)) = ToSet(rows) \cup {row}
    BY <1>1, <1>2 DEF ToSet
<1> QED
    BY <1>1, <1>3

LEMMA JudgedStep ==
    ASSUME InboundTypes, VerdictsAreJustified, [InboundNext]_inboundVars
    PROVE  VerdictsAreJustified'
<1>1. CASE UNCHANGED inboundVars
    BY <1>1 DEF inboundVars, VerdictsAreJustified, SpoofsPoisonNothing, OnFile, InboundAt, Sent
<1>2. ASSUME NEW h \in Handlers, NEW new, delivery' = [delivery EXCEPT ![h] = new],
             OnFile \subseteq OnFile', SpoofsPoisonNothing',
             new # None /\ new.at = "quarantine" => Justified(new.sent, new.verdict, OnFile)
      PROVE  VerdictsAreJustified'
    <2> SUFFICES ASSUME NEW g \in Handlers, InboundAt(g, "quarantine")'
                 PROVE  Justified(Sent(g), delivery[g].verdict, OnFile)'
        BY <1>2 DEF VerdictsAreJustified
    <2>1. delivery'[g] = IF g = h THEN new ELSE delivery[g]
        BY <1>2 DEF InboundTypes
    <2>2. Justified(delivery'[g].sent, delivery'[g].verdict, OnFile)
        BY <1>2, <2>1 DEF VerdictsAreJustified, InboundAt, Sent
    <2> QED
        BY <1>2, <2>2, MoreOnFile DEF Sent
<1>3. ASSUME UNCHANGED quarantine, ToSet(accepted) \subseteq ToSet(accepted')
      PROVE  OnFile \subseteq OnFile' /\ SpoofsPoisonNothing'
    <2>1. ASSUME NEW n \in DOMAIN quarantine
          PROVE  Justified(quarantine[n], quarantine[n].verdict,
                           ToSet(accepted') \cup {quarantine[m] : m \in 1 .. n - 1})
        <3> DEFINE earlier == {quarantine[m] : m \in 1 .. n - 1}
        <3>1. Justified(quarantine[n], quarantine[n].verdict, ToSet(accepted) \cup earlier)
            BY DEF VerdictsAreJustified, SpoofsPoisonNothing
        <3>2. ToSet(accepted) \cup earlier \subseteq ToSet(accepted') \cup earlier
            BY <1>3
        <3> QED
            BY <3>1, <3>2, MoreOnFile
    <2> QED
        BY <1>3, <2>1 DEF OnFile, SpoofsPoisonNothing
<1>4. ASSUME NEW h \in Handlers, DeliverStep(h)
      PROVE  VerdictsAreJustified'
    <2>1. PICK d \in Deliverable : Deliver(h, d)
        BY <1>4 DEF DeliverStep
    <2> DEFINE new == [at |-> "window", sent |-> d, verdict |-> None]
    <2>2. delivery' = [delivery EXCEPT ![h] = new] /\ new.at = "window" /\ UNCHANGED <<quarantine, accepted>>
        BY <2>1 DEF Deliver
    <2> HIDE DEF new
    <2> QED
        BY <1>2, <1>3, <2>2
<1>5. ASSUME NEW h \in Handlers, NEW new, Looks(h, new)
      PROVE  VerdictsAreJustified'
    <2>1. OnFile \subseteq OnFile' /\ SpoofsPoisonNothing'
        BY <1>3, <1>5 DEF Looks
    <2> QED
        BY <1>2, <1>5, <2>1 DEF Looks
<1>6. ASSUME NEW h \in Handlers, RecordEvent(h)
      PROVE  VerdictsAreJustified'
    <2> DEFINE new == [delivery[h] EXCEPT !.at = "accept"]
    <2>1. delivery[h] \in Work
        BY <1>6 DEF RecordEvent, InboundAt, InboundTypes
    <2>2. new.at = "accept"
        BY <2>1 DEF Work
    <2>3. delivery' = [delivery EXCEPT ![h] = new] /\ UNCHANGED <<quarantine, accepted>>
        BY <1>6 DEF RecordEvent, InboundGoes
    <2> HIDE DEF new
    <2> QED
        BY <1>2, <1>3, <2>2, <2>3
<1>7. ASSUME NEW h \in Handlers, Accept(h)
      PROVE  VerdictsAreJustified'
    <2>1. Row(Sent(h), "accepted") \in InboundRow
        <3>1. Sent(h) \in Delivery /\ "accepted" \in Verdicts
            BY <1>7 DEF Accept, InboundAt, InboundTypes, Work, Sent, Verdicts
        <3> QED
            BY <3>1 DEF Row, InboundRow, Delivery
    <2>2. ToSet(accepted) \subseteq ToSet(accepted') /\ UNCHANGED quarantine
        BY <1>7, <2>1, AppendedRows DEF Accept, InboundTypes
    <2> QED
        BY <1>2, <1>3, <1>7, <2>2 DEF Accept, InboundEnds
<1>8. ASSUME NEW h \in Handlers, Quarantine(h)
      PROVE  VerdictsAreJustified'
    <2> DEFINE verdict == delivery[h].verdict
               row == Row(Sent(h), verdict)
               new == [delivery[h] EXCEPT !.at = "dead letter"]
    <2>1. delivery[h] \in Work /\ verdict \in Verdicts /\ Sent(h) \in Delivery
        BY <1>8 DEF Quarantine, InboundAt, InboundTypes, Work, Sent
    <2>2. /\ row \in InboundRow /\ row.verdict = verdict /\ row.id = Sent(h).id
          /\ row.spelled = Sent(h).spelled /\ row.payload = Sent(h).payload
        BY <2>1 DEF Row, InboundRow, Delivery
    <2>3. new.at = "dead letter"
        BY <2>1 DEF Work
    <2>4. /\ delivery' = [delivery EXCEPT ![h] = new] /\ UNCHANGED accepted
          /\ quarantine' = Append(quarantine, row) /\ quarantine \in Seq(InboundRow)
        BY <1>8 DEF Quarantine, AfterQuarantine, InboundGoes, InboundTypes
    <2>5. Justified(Sent(h), verdict, OnFile)
        BY <1>8 DEF Quarantine, VerdictsAreJustified
    <2>6. Justified(row, verdict, OnFile)
        BY <2>2, <2>5 DEF Justified, Key
    <2> HIDE DEF new, row
    <2>7. /\ ToSet(quarantine') = ToSet(quarantine) \cup {row} /\ Len(quarantine) \in Nat
          /\ DOMAIN quarantine = 1 .. Len(quarantine)
          /\ DOMAIN quarantine' = 1 .. Len(quarantine) + 1
          /\ \A n \in DOMAIN quarantine : quarantine'[n] = quarantine[n]
          /\ quarantine'[Len(quarantine) + 1] = row
        BY <2>2, <2>4, AppendedRows
    <2>8. SpoofsPoisonNothing'
        <3> SUFFICES ASSUME NEW n \in DOMAIN quarantine'
                     PROVE  Justified(quarantine'[n], quarantine'[n].verdict,
                                      ToSet(accepted) \cup {quarantine'[m] : m \in 1 .. n - 1})
            BY <2>4 DEF SpoofsPoisonNothing
        <3>1. {quarantine'[m] : m \in 1 .. n - 1} = {quarantine[m] : m \in 1 .. n - 1}
            <4>1. \A m \in 1 .. n - 1 : m \in DOMAIN quarantine
                BY <2>7
            <4> QED
                BY <2>7, <4>1
        <3>2. CASE n \in DOMAIN quarantine
            BY <2>7, <3>1, <3>2 DEF VerdictsAreJustified, SpoofsPoisonNothing
        <3>3. CASE n = Len(quarantine) + 1
            <4>1. {quarantine[m] : m \in 1 .. n - 1} = ToSet(quarantine)
                BY <2>7, <3>3 DEF ToSet
            <4> QED
                BY <2>2, <2>6, <2>7, <3>1, <3>3, <4>1 DEF OnFile
        <3> QED
            BY <2>7, <3>2, <3>3
    <2>9. OnFile \subseteq OnFile'
        BY <2>4, <2>7 DEF OnFile
    <2> QED
        BY <1>2, <2>3, <2>4, <2>8, <2>9
<1>9. ASSUME NEW h \in Handlers, DeadLetter(h) \/ InboundDies(h)
      PROVE  VerdictsAreJustified'
    <2>1. delivery' = [delivery EXCEPT ![h] = None] /\ UNCHANGED <<quarantine, accepted>>
        BY <1>9 DEF DeadLetter, InboundDies, InboundEnds
    <2> QED
        BY <1>2, <1>3, <2>1
<1>10. ASSUME NEW h \in Handlers, RegisterProjection(h)
       PROVE  VerdictsAreJustified'
    BY <1>10 DEF RegisterProjection, VerdictsAreJustified, SpoofsPoisonNothing, OnFile, InboundAt, Sent
<1> QED
    BY <1>1, <1>4, <1>5, <1>6, <1>7, <1>8, <1>9, <1>10, LookingSteps DEF InboundNext

LEMMA OneEventStep ==
    ASSUME InboundTypes, [InboundNext]_inboundVars, NEW key, OneEvent(key), key \notin together'
    PROVE  OneEvent(key)'
<1> DEFINE Accepted == \E n \in DOMAIN accepted : Speaks(accepted[n]) /\ Key(accepted[n]) = key
           Accepting(h) == WorkOn(h, key) /\ delivery[h].at = "accept"
           events == EventsUnder(key)
<1>0. IsFiniteSet(events) /\ Cardinality(events) \in Nat /\ events \subseteq DOMAIN kernelEvents
    <2>1. kernelEvents \in Seq(KernelEvent)
        BY DEF InboundTypes
    <2>2. Len(kernelEvents) \in Int /\ 1 \in Int /\ DOMAIN kernelEvents = 1 .. Len(kernelEvents)
        BY <2>1
    <2>3. IsFiniteSet(DOMAIN kernelEvents)
        BY <2>2, FS_Interval
    <2>4. events \subseteq DOMAIN kernelEvents
        BY DEF EventsUnder
    <2> QED
        BY <2>3, <2>4, FS_Subset, FS_CardinalityType
<1>1. CASE UNCHANGED inboundVars
    BY <1>1 DEF inboundVars, OneEvent, WorkOn, Sent, EventsUnder
\* A change of one handler's work that leaves the events and what is accepted.
<1>2. ASSUME NEW h \in Handlers, NEW new, delivery' = [delivery EXCEPT ![h] = new],
             UNCHANGED <<accepted, kernelEvents>>, inboundDeaths' \in Nat, inboundDeaths' >= inboundDeaths,
             new # None => /\ \A g \in Handlers \ {h} : ~(WorkOn(g, key) /\ Key(new.sent) = key)
                           /\ new.at \in Unseen /\ Key(new.sent) = key => ~SeenKey(accepted, new.sent),
             inboundDeaths' > inboundDeaths \/ ~Accepting(h)
      PROVE  OneEvent(key)'
    <2>1. \A g \in Handlers : delivery'[g] = IF g = h THEN new ELSE delivery[g]
        BY <1>2 DEF InboundTypes
    <2>2. \A g \in Handlers \ {h} : WorkOn(g, key)' <=> WorkOn(g, key)
        BY <2>1 DEF WorkOn, Sent
    <2>3. WorkOn(h, key)' => new # None /\ Key(new.sent) = key
        BY <2>1 DEF WorkOn, Sent
    <2>4. EventsUnder(key)' = events
        BY <1>2 DEF EventsUnder
    <2>5. \A g, k \in Handlers : WorkOn(g, key)' /\ WorkOn(k, key)' => g = k
        BY <1>2, <2>2, <2>3 DEF OneEvent
    <2>6. \A g \in Handlers : WorkOn(g, key)' /\ delivery'[g].at \in Unseen => ~SeenKey(accepted', Sent(g)')
        BY <1>2, <2>1, <2>2, <2>3 DEF OneEvent, Sent
    <2>7. inboundDeaths \in Nat
        BY DEF InboundTypes
    <2> HIDE DEF events
    <2>8. Cardinality(events) <= 1 + inboundDeaths /\ Cardinality(events) <= 1 + inboundDeaths'
        BY <1>0, <1>2, <2>7 DEF OneEvent, events
    <2>9. ASSUME Cardinality(events) > inboundDeaths'
          PROVE  Accepted \/ \E g \in Handlers : WorkOn(g, key)' /\ delivery'[g].at = "accept"
        <3>1. Cardinality(events) > inboundDeaths /\ ~Accepting(h)
            BY <1>0, <1>2, <2>7, <2>8, <2>9
        <3>2. Accepted \/ \E g \in Handlers : Accepting(g)
            BY <3>1 DEF OneEvent, events
        <3> QED
            BY <2>1, <2>2, <3>1, <3>2
    <2> QED
        BY <1>2, <2>4, <2>5, <2>6, <2>8, <2>9 DEF OneEvent
<1>3. ASSUME NEW h \in Handlers, DeliverStep(h)
      PROVE  OneEvent(key)'
    <2>1. PICK d \in Deliverable : Deliver(h, d)
        BY <1>3 DEF DeliverStep
    <2> DEFINE new == [at |-> "window", sent |-> d, verdict |-> None]
    <2>2. /\ delivery' = [delivery EXCEPT ![h] = new] /\ new.at = "window" /\ new.sent = d /\ delivery[h] = None
          /\ UNCHANGED <<accepted, kernelEvents, inboundDeaths>>
        BY <2>1 DEF Deliver
    <2> HIDE DEF new
    <2>3. \A g \in Handlers : ~(WorkOn(g, key) /\ Key(d) = key)
        BY <2>1 DEF Deliver, WorkOn
    <2>4. inboundDeaths' \in Nat /\ inboundDeaths' >= inboundDeaths
        BY <2>2 DEF InboundTypes
    <2> QED
        BY <1>2, <2>2, <2>3, <2>4 DEF WorkOn, Unseen
<1>4. ASSUME NEW h \in Handlers, NEW new, Looks(h, new)
      PROVE  OneEvent(key)'
    <2>1. inboundDeaths' \in Nat /\ inboundDeaths' >= inboundDeaths
        BY <1>4 DEF Looks, InboundTypes
    <2>2. /\ delivery' = [delivery EXCEPT ![h] = new] /\ UNCHANGED <<accepted, kernelEvents>>
          /\ new.sent = Sent(h) /\ delivery[h] # None /\ ~Accepting(h)
          /\ new.at \in Unseen => delivery[h].at \in Unseen \/ ~SeenKey(accepted, Sent(h))
        BY <1>4 DEF Looks
    <2>3. Key(new.sent) = key => WorkOn(h, key)
        BY <2>2 DEF WorkOn
    <2>4. \A g \in Handlers \ {h} : ~(WorkOn(g, key) /\ Key(new.sent) = key)
        BY <2>3 DEF OneEvent
    <2>5. new.at \in Unseen /\ Key(new.sent) = key => ~SeenKey(accepted, new.sent)
        BY <2>2, <2>3 DEF OneEvent
    <2> QED
        BY <1>2, <2>1, <2>2, <2>4, <2>5
<1>5. ASSUME NEW h \in Handlers, RecordEvent(h)
      PROVE  OneEvent(key)'
    <2> DEFINE new == [delivery[h] EXCEPT !.at = "accept"]
               event == [key |-> Key(Sent(h)), payload |-> Sent(h).payload]
               last == Len(kernelEvents) + 1
    <2>1. delivery[h] \in Work /\ delivery[h] # None /\ delivery[h].at = "event" /\ Sent(h) \in Delivery
        BY <1>5 DEF RecordEvent, InboundAt, InboundTypes, Work, Sent
    <2>2. new.at = "accept" /\ new.sent = Sent(h)
        BY <2>1 DEF Work, Sent
    <2>3. event \in KernelEvent /\ event.key = Key(Sent(h))
        BY <2>1 DEF KernelEvent, Key, EventKeys, Delivery
    <2>4. /\ delivery' = [delivery EXCEPT ![h] = new] /\ kernelEvents' = Append(kernelEvents, event)
          /\ UNCHANGED <<accepted, inboundDeaths>> /\ kernelEvents \in Seq(KernelEvent)
        BY <1>5 DEF RecordEvent, InboundGoes, InboundTypes
    <2> HIDE DEF new, event
    <2>5. /\ last \notin DOMAIN kernelEvents /\ DOMAIN kernelEvents' = DOMAIN kernelEvents \cup {last}
          /\ \A n \in DOMAIN kernelEvents : kernelEvents'[n] = kernelEvents[n]
          /\ kernelEvents'[last] = event
        <3>1. /\ DOMAIN kernelEvents = 1 .. Len(kernelEvents) /\ DOMAIN kernelEvents' = 1 .. Len(kernelEvents) + 1
              /\ Len(kernelEvents) \in Nat /\ kernelEvents'[last] = event
              /\ \A n \in DOMAIN kernelEvents : kernelEvents'[n] = kernelEvents[n]
            BY <2>3, <2>4, AppendedRows
        <3>2. last \notin 1 .. Len(kernelEvents) /\ 1 .. Len(kernelEvents) + 1 = (1 .. Len(kernelEvents)) \cup {last}
            BY <3>1
        <3> QED
            BY <3>1, <3>2
    <2> HIDE DEF last
    <2>6. \A g \in Handlers : delivery'[g] = IF g = h THEN new ELSE delivery[g]
        BY <2>4 DEF InboundTypes
    <2>7. new \in Work /\ new # None
        BY <2>1, WorkAssumption DEF new, Work, InboundStages
    <2>8. \A g \in Handlers : WorkOn(g, key)' <=> WorkOn(g, key)
        BY <2>1, <2>2, <2>6, <2>7 DEF WorkOn, Sent
    <2>9. \A g, k \in Handlers : WorkOn(g, key)' /\ WorkOn(k, key)' => g = k
        BY <2>8 DEF OneEvent
    <2>10. \A g \in Handlers : WorkOn(g, key)' /\ delivery'[g].at \in Unseen => ~SeenKey(accepted', Sent(g)')
        BY <2>2, <2>4, <2>6, <2>8 DEF OneEvent, Unseen, Sent
    <2>11. CASE Key(Sent(h)) # key
        <3>1. EventsUnder(key)' = events
            BY <2>3, <2>5, <2>11 DEF EventsUnder
        <3>2. \A g \in Handlers : Accepting(g) => WorkOn(g, key)' /\ delivery'[g].at = "accept"
            BY <2>2, <2>6, <2>8
        <3> HIDE DEF events
        <3> QED
            BY <2>4, <2>9, <2>10, <3>1, <3>2 DEF OneEvent, events
    <2>12. CASE Key(Sent(h)) = key
        <3>1. WorkOn(h, key) /\ ~SeenKey(accepted, Sent(h))
            BY <2>1, <2>12 DEF WorkOn, OneEvent, Unseen
        <3>2. ~Accepted
            BY <2>12, <3>1 DEF SeenKey
        <3>3. \A g \in Handlers : ~Accepting(g)
            BY <2>1, <3>1 DEF OneEvent
        <3>4. ~(Cardinality(events) > inboundDeaths) /\ inboundDeaths \in Nat
            BY <3>2, <3>3 DEF OneEvent, InboundTypes
        <3>5. EventsUnder(key)' = events \cup {last} /\ last \notin events
            BY <1>0, <2>3, <2>5, <2>12 DEF EventsUnder
        <3> HIDE DEF events
        <3>6. Cardinality(EventsUnder(key)') = Cardinality(events) + 1
            BY <1>0, <3>5, FS_AddElement
        <3>7. Cardinality(EventsUnder(key)') <= 1 + inboundDeaths
            BY <1>0, <3>4, <3>6
        <3>8. WorkOn(h, key)' /\ delivery'[h].at = "accept"
            BY <2>2, <2>6, <2>8, <3>1
        <3> QED
            BY <2>4, <2>9, <2>10, <3>7, <3>8 DEF OneEvent
    <2> QED
        BY <2>11, <2>12
<1>6. ASSUME NEW h \in Handlers, Accept(h)
      PROVE  OneEvent(key)'
    <2> DEFINE row == Row(Sent(h), "accepted")
    <2>1. delivery[h] # None /\ delivery[h].at = "accept" /\ Sent(h) \in Delivery /\ Sent(h).signed
        BY <1>6 DEF Accept, InboundAt, InboundTypes, Work, Sent, Genuine
    <2>2. row \in InboundRow /\ Key(row) = Key(Sent(h)) /\ Speaks(row)
        <3>1. "accepted" \in Verdicts
            BY DEF Verdicts
        <3> QED
            BY <2>1, <3>1 DEF Row, InboundRow, Delivery, Key, Speaks
    <2>3. /\ delivery' = [delivery EXCEPT ![h] = None] /\ accepted' = Append(accepted, row)
          /\ accepted \in Seq(InboundRow) /\ UNCHANGED <<kernelEvents, inboundDeaths>>
        BY <1>6 DEF Accept, InboundEnds, InboundTypes
    <2> HIDE DEF row
    <2>4. /\ DOMAIN accepted' = DOMAIN accepted \cup {Len(accepted) + 1}
          /\ \A n \in DOMAIN accepted : accepted'[n] = accepted[n]
          /\ accepted'[Len(accepted) + 1] = row
        <3>1. /\ DOMAIN accepted = 1 .. Len(accepted) /\ DOMAIN accepted' = 1 .. Len(accepted) + 1
              /\ Len(accepted) \in Nat /\ accepted'[Len(accepted) + 1] = row
              /\ \A n \in DOMAIN accepted : accepted'[n] = accepted[n]
            BY <2>2, <2>3, AppendedRows
        <3> QED
            BY <3>1
    <2>5. \A g \in Handlers : delivery'[g] = IF g = h THEN None ELSE delivery[g]
        BY <2>3 DEF InboundTypes
    <2>6. \A g \in Handlers : WorkOn(g, key)' => WorkOn(g, key) /\ g # h /\ delivery'[g] = delivery[g]
        BY <2>5 DEF WorkOn, Sent
    <2>7. Key(row) = key => WorkOn(h, key)
        BY <2>1, <2>2 DEF WorkOn
    <2>8. \A g \in Handlers : WorkOn(g, key)' => Key(row) # key
        BY <2>6, <2>7 DEF OneEvent
    <2>9. \A g \in Handlers : WorkOn(g, key)' /\ delivery'[g].at \in Unseen => ~SeenKey(accepted', Sent(g)')
        <3> SUFFICES ASSUME NEW g \in Handlers, WorkOn(g, key)', delivery'[g].at \in Unseen
                     PROVE  ~SeenKey(accepted', Sent(g)')
            OBVIOUS
        <3>1. /\ WorkOn(g, key) /\ Sent(g)' = Sent(g) /\ Key(Sent(g)) = key /\ delivery[g].at \in Unseen
              /\ Key(row) # key
            BY <2>6, <2>8 DEF Sent, WorkOn
        <3>2. ~SeenKey(accepted, Sent(g))
            BY <3>1 DEF OneEvent
        <3> QED
            BY <2>4, <3>1, <3>2 DEF SeenKey
    <2>10. Accepted \/ (\E g \in Handlers : Accepting(g))
            => \/ \E n \in DOMAIN accepted' : Speaks(accepted'[n]) /\ Key(accepted'[n]) = key
               \/ \E g \in Handlers : WorkOn(g, key)' /\ delivery'[g].at = "accept"
        <3>1. CASE Accepted
            BY <2>4, <3>1
        <3>2. CASE Accepting(h)
            <4>1. Key(row) = key
                BY <2>2, <3>2 DEF WorkOn
            <4> QED
                BY <2>2, <2>4, <4>1
        <3>3. ASSUME NEW g \in Handlers, g # h, Accepting(g)
              PROVE  WorkOn(g, key)' /\ delivery'[g].at = "accept"
            BY <2>5, <3>3 DEF WorkOn, Sent
        <3> QED
            BY <3>1, <3>2, <3>3
    <2>11. EventsUnder(key)' = events
        BY <2>3 DEF EventsUnder
    <2> HIDE DEF events
    <2> QED
        BY <2>3, <2>6, <2>9, <2>10, <2>11 DEF OneEvent, events, Speaks
<1>7. ASSUME NEW h \in Handlers, Quarantine(h) \/ DeadLetter(h)
      PROVE  OneEvent(key)'
    <2> DEFINE new == [delivery[h] EXCEPT !.at = "dead letter"]
    <2>1. /\ delivery[h] \in Work /\ delivery[h] # None /\ ~Accepting(h)
          /\ UNCHANGED <<accepted, kernelEvents, inboundDeaths>> /\ inboundDeaths \in Nat
        BY <1>7 DEF Quarantine, DeadLetter, InboundAt, InboundTypes
    <2>2. new.at = "dead letter" /\ new.sent = Sent(h)
        BY <2>1 DEF Work, Sent
    <2>3. delivery' = [delivery EXCEPT ![h] = new] \/ delivery' = [delivery EXCEPT ![h] = None]
        BY <1>7 DEF Quarantine, AfterQuarantine, InboundGoes, DeadLetter, InboundEnds
    <2> HIDE DEF new
    <2>4. \A g \in Handlers \ {h} : ~(WorkOn(g, key) /\ Key(new.sent) = key)
        BY <2>1, <2>2 DEF OneEvent, WorkOn
    <2>5. inboundDeaths' \in Nat /\ inboundDeaths' >= inboundDeaths
        BY <2>1
    <2>6. CASE delivery' = [delivery EXCEPT ![h] = new]
        BY <1>2, <2>1, <2>2, <2>4, <2>5, <2>6 DEF Unseen
    <2>7. CASE delivery' = [delivery EXCEPT ![h] = None]
        BY <1>2, <2>1, <2>5, <2>7
    <2> QED
        BY <2>3, <2>6, <2>7
<1>8. ASSUME NEW h \in Handlers, InboundDies(h)
      PROVE  OneEvent(key)'
    <2>1. /\ delivery' = [delivery EXCEPT ![h] = None] /\ UNCHANGED <<accepted, kernelEvents>>
          /\ inboundDeaths' = inboundDeaths + 1 /\ inboundDeaths \in Nat
        BY <1>8 DEF InboundDies, InboundEnds, InboundTypes
    <2>2. inboundDeaths' \in Nat /\ inboundDeaths' > inboundDeaths /\ inboundDeaths' >= inboundDeaths
        BY <2>1
    <2> QED
        BY <1>2, <2>1, <2>2
<1>9. ASSUME NEW h \in Handlers, RegisterProjection(h)
      PROVE  OneEvent(key)'
    BY <1>9 DEF RegisterProjection, OneEvent, WorkOn, Sent, EventsUnder
<1> QED
    BY <1>1, <1>3, <1>4, <1>5, <1>6, <1>7, <1>8, <1>9, LookingSteps DEF InboundNext

LEMMA InboundStart == InboundInit => InboundInv
<1> SUFFICES ASSUME InboundInit PROVE InboundInv
    OBVIOUS
<1>1. InboundTypes
    BY DEF InboundInit, InboundTypes
<1>2. VerdictsAreJustified
    BY DEF InboundInit, VerdictsAreJustified, SpoofsPoisonNothing, InboundAt
<1>3. ASSUME NEW key
      PROVE  OneEvent(key)
    <2>1. EventsUnder(key) = {}
        BY DEF InboundInit, EventsUnder
    <2>2. Cardinality(EventsUnder(key)) = 0 /\ inboundDeaths = 0
        BY <2>1, FS_EmptySet DEF InboundInit
    <2>3. \A h \in Handlers : ~WorkOn(h, key)
        BY DEF InboundInit, WorkOn
    <2> QED
        BY <2>2, <2>3 DEF OneEvent
<1> QED
    BY <1>1, <1>2, <1>3 DEF InboundInv

LEMMA InboundStep == InboundInv /\ [InboundNext]_inboundVars => InboundInv'
<1> SUFFICES ASSUME InboundInv, [InboundNext]_inboundVars PROVE InboundInv'
    OBVIOUS
<1>1. InboundTypes' /\ VerdictsAreJustified'
    BY InboundTypesStep, JudgedStep DEF InboundInv
<1>2. together \subseteq together'
    BY DEF InboundNext, inboundVars, DeliverStep, Deliver, ReadWindow, NoteWindow, JudgeConflict, JudgeSeen,
           Judge, Project, RecordEvent, Accept, Quarantine, DeadLetter, RegisterProjection, InboundDies
<1>3. ASSUME NEW key \in EventKeys, key \notin together'
      PROVE  OneEvent(key)'
    BY <1>2, <1>3, OneEventStep DEF InboundInv
<1> QED
    BY <1>1, <1>3 DEF InboundInv

\* A delivery is rejected as a duplicate or as conflicting only for what an
\* authentic delivery before it said, for any deliveries and any handlers.
THEOREM SpoofsAreInert == InboundSpec => []SpoofsPoisonNothing
<1>1. InboundInv => SpoofsPoisonNothing
    BY DEF InboundInv, VerdictsAreJustified
<1> QED
    BY <1>1, InboundStart, InboundStep, PTL DEF InboundSpec

\* Deliveries of one event that do not overlap make one kernel event, and one
\* more at most for each death, for any number of deliveries and deaths.
THEOREM RetriesAreAbsorbed == InboundSpec => []RetriesMakeOneEvent
<1>1. InboundInv => RetriesMakeOneEvent
    BY DEF InboundInv, RetriesMakeOneEvent, OneEvent
<1> QED
    BY <1>1, InboundStart, InboundStep, PTL DEF InboundSpec

-----------------------------------------------------------------------------
(* Allocations.                                                            *)

Changing == {"applied", "reverted"}

\* The lock is held by who is about to rewrite, and the file is empty while
\* it is rewritten; a call has what its stage needs.
AllocationTypes ==
    /\ allocationLog \in Seq(Allocation) \cup {Absent}
    /\ allocationCall \in [Offices -> AllocationCall \cup {None}]
    /\ allocationEvents \subseteq [id : AllocationIds, verb : Statuses]
    /\ officeDeaths \in Nat
    /\ allocationLock \in Offices \cup {None}
    /\ \A c \in Offices : (OfficeAt(c, "open") \/ OfficeAt(c, "fill")) <=> allocationLock = c
    /\ \A c \in Offices :
          /\ OfficeAt(c, "fill") => allocationLog = <<>>
          /\ OfficeAt(c, "append") =>
                LET call == allocationCall[c] IN
                /\ call.id \in AllocationIds /\ call.verb = "proposed"
                /\ call.new \in Allocation /\ call.new.id = call.id /\ call.new.status = "proposed"
          /\ OfficeAt(c, "take") \/ OfficeAt(c, "open") \/ OfficeAt(c, "fill") =>
                allocationCall[c].id \in AllocationIds /\ allocationCall[c].verb \in Changing
          /\ OfficeAt(c, "emit") => allocationCall[c].id \in AllocationIds /\ allocationCall[c].verb \in Statuses

\* What is told of a decision, or is in the rows that are being written.
Says(call, i, verb) == call # None /\ call.at \in {"fill", "emit"} /\ call.id = i /\ call.verb = verb
Tells(calls, events, i, verb) ==
    [id |-> i, verb |-> verb] \in events \/ \E c \in Offices : Says(calls[c], i, verb)

\* The rows say of a decision what was told of it.
Stands(calls, events, rows, i) ==
    \/ ~Mentions(rows, i) /\ \A verb \in Statuses : ~Tells(calls, events, i, verb)
    \/ \E n \in DOMAIN rows :
          /\ \A m \in DOMAIN rows : rows[m].id = i <=> m = n
          /\ \A verb \in Statuses : Tells(calls, events, i, verb) <=> verb \in Story[rows[n].status]

\* What a transition makes of the rows that were read.
Transition(rows, call) ==
    /\ Mentions(rows, call.id) /\ FirstFor(rows, call.id).status \in FromStatus(call.verb)
    /\ call.rows = WithRow(rows, call.id, [FirstFor(rows, call.id) EXCEPT !.status = call.verb])

\* As long as nobody died: the rows in the file, or those that are being
\* written over it, are what was told; whoever is about to append was the
\* first to name its decision.
LedgerIsTold ==
    /\ \A c \in Offices : OfficeAt(c, "append") =>
          /\ \A verb \in Statuses : ~Tells(allocationCall, allocationEvents, allocationCall[c].id, verb)
          /\ \A d \in Offices : OfficeAt(d, "append") /\ allocationCall[d].id = allocationCall[c].id => d = c
    /\ \A c \in Offices : OfficeAt(c, "open") => Transition(RowsOf(allocationLog), allocationCall[c])
    /\ ~Rewritten =>
          \A i \in AllocationIds : Stands(allocationCall, allocationEvents, RowsOf(allocationLog), i)
    /\ \A c \in Offices : OfficeAt(c, "fill") =>
          \A i \in AllocationIds : Stands(allocationCall, allocationEvents, allocationCall[c].rows, i)

AllocationInv == AllocationTypes /\ (officeDeaths = 0 => LedgerIsTold)

LEMMA RowsOfTheLog ==
    ASSUME AllocationTypes
    PROVE  RowsOf(allocationLog) \in Seq(Allocation) /\ Readable(allocationLog)
BY BaseAssumption, AllocationAssumption DEF AllocationTypes, RowsOf, Readable

\* A call that changes is one call, the others stay.
LEMMA OneCallChanges ==
    ASSUME AllocationTypes, NEW c \in Offices, NEW new, allocationCall' = [allocationCall EXCEPT ![c] = new]
    PROVE  /\ allocationCall'[c] = new
           /\ \A d \in Offices \ {c} : allocationCall'[d] = allocationCall[d]
           /\ new \in AllocationCall \cup {None} =>
                  allocationCall' \in [Offices -> AllocationCall \cup {None}]
           /\ \A d \in Offices \ {c} : \A at : OfficeAt(d, at)' <=> OfficeAt(d, at)
<1>1. /\ allocationCall'[c] = new
      /\ \A d \in Offices \ {c} : allocationCall'[d] = allocationCall[d]
      /\ new \in AllocationCall \cup {None} =>
             allocationCall' \in [Offices -> AllocationCall \cup {None}]
    BY DEF AllocationTypes
<1>2. \A d \in Offices \ {c} : \A at : OfficeAt(d, at)' <=> OfficeAt(d, at)
    BY <1>1 DEF OfficeAt
<1> QED
    BY <1>1, <1>2

\* The calls that change their stage.
LEMMA OfficeGoesOn ==
    ASSUME NEW call \in AllocationCall, NEW at \in {"append", "take", "open", "fill", "emit", "sum"}
    PROVE  LET new == [call EXCEPT !.at = at] IN
           /\ new \in AllocationCall /\ new # None /\ new.at = at
           /\ new.id = call.id /\ new.verb = call.verb /\ new.rows = call.rows
<1> DEFINE new == [call EXCEPT !.at = at]
<1>1. new \in AllocationCall /\ new.at = at /\ new.id = call.id /\ new.verb = call.verb /\ new.rows = call.rows
    BY DEF AllocationCall
<1> QED
    BY <1>1, AllocationAssumption

LEMMA AllocationTypesStep == AllocationTypes /\ [AllocationNext]_allocationVars => AllocationTypes'
<1> SUFFICES ASSUME AllocationTypes, [AllocationNext]_allocationVars PROVE AllocationTypes'
    OBVIOUS
<1> USE AllocationAssumption
<1>1. CASE UNCHANGED allocationVars
    BY <1>1 DEF allocationVars, AllocationTypes, OfficeAt
\* A call begins that is in a stage without the lock.
<1>2. ASSUME NEW c \in Offices, NEW new \in AllocationCall, BeginAllocation(c, new),
             new.at \in {"append", "take", "sum"},
             new.at = "append" => /\ new.id \in AllocationIds /\ new.verb = "proposed" /\ new.new \in Allocation
                                  /\ new.new.id = new.id /\ new.new.status = "proposed",
             new.at = "take" => new.id \in AllocationIds /\ new.verb \in Changing
      PROVE  AllocationTypes'
    <2>1. /\ allocationCall' = [allocationCall EXCEPT ![c] = new] /\ allocationCall[c] = None
          /\ UNCHANGED <<allocationLog, allocationLock, allocationEvents, officeDeaths>>
        BY <1>2 DEF BeginAllocation
    <2>2. allocationLock # c
        BY <2>1 DEF AllocationTypes, OfficeAt
    <2>3. /\ allocationCall'[c] = new
          /\ allocationCall' \in [Offices -> AllocationCall \cup {None}]
          /\ \A d \in Offices \ {c} : allocationCall'[d] = allocationCall[d]
          /\ \A d \in Offices \ {c} : \A at : OfficeAt(d, at)' <=> OfficeAt(d, at)
        BY <2>1, OneCallChanges
    <2> QED
        BY <1>2, <2>1, <2>2, <2>3 DEF AllocationTypes, OfficeAt
<1>3. ASSUME NEW c \in Offices, AllocationRecordStep(c)
      PROVE  AllocationTypes'
    <2>1. PICK i \in AllocationIds, move \in Move : RecordAllocation(c, i, move)
        BY <1>3 DEF AllocationRecordStep
    <2> DEFINE row == [id |-> i, move |-> move, status |-> "proposed"]
               new == [at |-> "append", id |-> i, verb |-> "proposed", rows |-> <<>>, new |-> row, seen |-> None]
    <2>2. row \in Allocation /\ row.id = i /\ row.status = "proposed"
        BY DEF Allocation, Statuses
    <2> HIDE DEF row
    <2>3. new \in AllocationCall /\ new.at = "append" /\ new.id = i /\ new.verb = "proposed" /\ new.new = row
        BY <2>2 DEF AllocationCall, Statuses
    <2>4. BeginAllocation(c, new)
        BY <2>1 DEF RecordAllocation, row
    <2> HIDE DEF new
    <2> QED
        BY <1>2, <2>2, <2>3, <2>4
<1>4. ASSUME NEW c \in Offices, AllocationChangeStep(c)
      PROVE  AllocationTypes'
    <2>1. PICK i \in AllocationIds, verb \in Changing : ChangeAllocation(c, i, verb)
        BY <1>4 DEF AllocationChangeStep, Changing
    <2> DEFINE new == [at |-> "take", id |-> i, verb |-> verb, rows |-> <<>>, new |-> None, seen |-> None]
    <2>2. new \in AllocationCall /\ new.at = "take" /\ new.id = i /\ new.verb = verb
        BY DEF AllocationCall, Statuses, Changing
    <2>3. BeginAllocation(c, new)
        BY <2>1 DEF ChangeAllocation
    <2> HIDE DEF new
    <2> QED
        BY <1>2, <2>2, <2>3
<1>5. ASSUME NEW c \in Offices, AskSummary(c)
      PROVE  AllocationTypes'
    <2> DEFINE rows == RowsOf(allocationLog)
               new == [at |-> "sum", id |-> None, verb |-> "summary", rows |-> <<>>, new |-> None, seen |-> rows]
    <2>1. rows \in Seq(Allocation)
        BY RowsOfTheLog
    <2>2. BeginAllocation(c, new)
        BY <1>5 DEF AskSummary
    <2> HIDE DEF rows
    <2>3. new \in AllocationCall /\ new.at = "sum"
        BY <2>1 DEF AllocationCall
    <2> HIDE DEF new
    <2> QED
        BY <1>2, <2>2, <2>3
\* A call ends that does not hold the lock any more.
<1>6. ASSUME NEW c \in Offices, allocationCall' = [allocationCall EXCEPT ![c] = None],
             allocationLock' = (IF allocationLock = c THEN None ELSE allocationLock),
             allocationLog' = allocationLog, allocationEvents' \subseteq [id : AllocationIds, verb : Statuses],
             officeDeaths' \in Nat
      PROVE  AllocationTypes'
    <2>1. /\ allocationCall'[c] = None
          /\ allocationCall' \in [Offices -> AllocationCall \cup {None}]
          /\ \A d \in Offices \ {c} : allocationCall'[d] = allocationCall[d]
          /\ \A d \in Offices \ {c} : \A at : OfficeAt(d, at)' <=> OfficeAt(d, at)
        BY <1>6, OneCallChanges
    <2>2. \A at : ~OfficeAt(c, at)'
        BY <2>1 DEF OfficeAt
    <2>3. allocationLock' # c /\ \A d \in Offices \ {c} : allocationLock' = d <=> allocationLock = d
        BY <1>6
    <2> QED
        BY <1>6, <2>1, <2>2, <2>3 DEF AllocationTypes
<1>7. ASSUME NEW c \in Offices, NEW at, OfficeAt(c, at)
      PROVE  allocationCall[c] \in AllocationCall /\ allocationCall[c].at = at
    BY <1>7 DEF AllocationTypes, OfficeAt
<1>8. ASSUME NEW c \in Offices, AppendAllocation(c)
      PROVE  AllocationTypes'
    <2> DEFINE new == [allocationCall[c] EXCEPT !.at = "emit"]
    <2>1. /\ allocationCall[c] \in AllocationCall /\ OfficeAt(c, "append") /\ allocationLock = None
          /\ UNCHANGED <<allocationLock, allocationEvents, officeDeaths>>
          /\ allocationCall' = [allocationCall EXCEPT ![c] = new]
        BY <1>7, <1>8 DEF AppendAllocation, OfficeGoes
    <2>2. new \in AllocationCall /\ new.at = "emit" /\ new.id = allocationCall[c].id /\ new.verb = allocationCall[c].verb
        BY <2>1, OfficeGoesOn
    <2>3. allocationLog' \in Seq(Allocation)
        <3>1. allocationLog # Torn /\ RowsOf(allocationLog) \in Seq(Allocation)
            BY RowsOfTheLog DEF Readable
        <3>2. allocationCall[c].new \in Allocation
            BY <2>1 DEF AllocationTypes
        <3> QED
            BY <1>8, <3>1, <3>2 DEF AppendAllocation, Appended
    <2>4. /\ allocationCall'[c] = new
          /\ allocationCall' \in [Offices -> AllocationCall \cup {None}]
          /\ \A d \in Offices \ {c} : allocationCall'[d] = allocationCall[d]
          /\ \A d \in Offices \ {c} : \A at : OfficeAt(d, at)' <=> OfficeAt(d, at)
        BY <2>1, <2>2, OneCallChanges
    <2>5. /\ new.id \in AllocationIds /\ new.verb \in Statuses
        BY <2>1, <2>2 DEF AllocationTypes, Statuses
    <2>6. \A d \in Offices : ~OfficeAt(d, "fill") /\ ~OfficeAt(d, "open")
        BY <2>1 DEF AllocationTypes
    <2> HIDE DEF new
    <2> QED
        BY <2>1, <2>2, <2>3, <2>4, <2>5, <2>6 DEF AllocationTypes, OfficeAt
<1>9. ASSUME NEW c \in Offices, TakeAllocation(c)
      PROVE  AllocationTypes'
    <2> DEFINE old == allocationCall[c]
               rows == RowsOf(allocationLog)
               row == [FirstFor(rows, old.id) EXCEPT !.status = old.verb]
               there == Mentions(rows, old.id) /\ FirstFor(rows, old.id).status \in FromStatus(old.verb)
               after == WithRow(rows, old.id, row)
               new == [old EXCEPT !.at = "open", !.rows = after]
    <2>1. /\ old \in AllocationCall /\ OfficeAt(c, "take") /\ allocationLock = None
          /\ UNCHANGED <<allocationLog, allocationEvents, officeDeaths>>
        BY <1>7, <1>9 DEF TakeAllocation
    <2>2. CASE there
        <3>1. rows \in Seq(Allocation) /\ old.verb \in Changing /\ old.id \in AllocationIds
            BY <2>1, RowsOfTheLog DEF AllocationTypes
        <3>2. FirstFor(rows, old.id) \in Allocation
            BY <2>2, <3>1, FirstOfAnId
        <3>3. row \in Allocation
            BY <3>1, <3>2 DEF Allocation, Statuses, Changing
        <3>4. after \in Seq(Allocation)
            BY <3>1, <3>3, RewrittenRows
        <3>5. allocationCall' = [allocationCall EXCEPT ![c] = new] /\ allocationLock' = c
            BY <1>9, <2>2 DEF TakeAllocation
        <3> HIDE DEF rows, row, after
        <3>6. /\ new \in AllocationCall /\ new.at = "open" /\ new.id = old.id /\ new.verb = old.verb
            BY <2>1, <3>4 DEF AllocationCall
        <3>7. new # None
            BY <3>6
        <3> HIDE DEF new
        <3>8. /\ allocationCall'[c] = new
              /\ allocationCall' \in [Offices -> AllocationCall \cup {None}]
              /\ \A d \in Offices \ {c} : allocationCall'[d] = allocationCall[d]
              /\ \A d \in Offices \ {c} : \A at : OfficeAt(d, at)' <=> OfficeAt(d, at)
            BY <3>5, <3>6, OneCallChanges
        <3>9. \A d \in Offices : ~OfficeAt(d, "fill") /\ ~OfficeAt(d, "open")
            BY <2>1 DEF AllocationTypes
        <3> QED
            BY <2>1, <3>1, <3>5, <3>6, <3>7, <3>8, <3>9 DEF AllocationTypes, OfficeAt
    <2>3. CASE ~there
        <3>1. allocationCall' = [allocationCall EXCEPT ![c] = None] /\ allocationLock' = None
            BY <1>9, <2>1, <2>3 DEF TakeAllocation, OfficeEnds
        <3> QED
            BY <1>6, <2>1, <3>1 DEF AllocationTypes
    <2> QED
        BY <2>2, <2>3
<1>10. ASSUME NEW c \in Offices, OpenAllocations(c)
       PROVE  AllocationTypes'
    <2> DEFINE new == [allocationCall[c] EXCEPT !.at = "fill"]
    <2>1. /\ allocationCall[c] \in AllocationCall /\ OfficeAt(c, "open") /\ allocationLock = c
          /\ UNCHANGED <<allocationLock, allocationEvents, officeDeaths>> /\ allocationLog' = <<>>
          /\ allocationCall' = [allocationCall EXCEPT ![c] = new]
        BY <1>7, <1>10 DEF OpenAllocations, OfficeGoes, AllocationTypes
    <2>2. /\ new \in AllocationCall /\ new.at = "fill" /\ new # None
          /\ new.id = allocationCall[c].id /\ new.verb = allocationCall[c].verb
        BY <2>1, OfficeGoesOn
    <2> HIDE DEF new
    <2>3. /\ allocationCall'[c] = new
          /\ allocationCall' \in [Offices -> AllocationCall \cup {None}]
          /\ \A d \in Offices \ {c} : allocationCall'[d] = allocationCall[d]
          /\ \A d \in Offices \ {c} : \A at : OfficeAt(d, at)' <=> OfficeAt(d, at)
        BY <2>1, <2>2, OneCallChanges
    <2>4. new.id \in AllocationIds /\ new.verb \in Changing
        BY <2>1, <2>2 DEF AllocationTypes
    <2> QED
        BY <2>1, <2>2, <2>3, <2>4 DEF AllocationTypes, OfficeAt
<1>11. ASSUME NEW c \in Offices, FillAllocations(c)
       PROVE  AllocationTypes'
    <2> DEFINE new == [allocationCall[c] EXCEPT !.at = "emit"]
    <2>1. /\ allocationCall[c] \in AllocationCall /\ OfficeAt(c, "fill") /\ allocationLock = c
          /\ UNCHANGED <<allocationEvents, officeDeaths>> /\ allocationLock' = None
          /\ allocationCall' = [allocationCall EXCEPT ![c] = new]
        BY <1>7, <1>11 DEF FillAllocations, OfficeGoes, AllocationTypes
    <2>2. allocationLog' = allocationCall[c].rows /\ allocationCall[c].rows \in Seq(Allocation)
        BY <1>11, <2>1 DEF FillAllocations, FilledOver, AllocationTypes, AllocationCall
    <2>3. /\ new \in AllocationCall /\ new.at = "emit" /\ new # None
          /\ new.id = allocationCall[c].id /\ new.verb = allocationCall[c].verb
        BY <2>1, OfficeGoesOn
    <2> HIDE DEF new
    <2>4. /\ allocationCall'[c] = new
          /\ allocationCall' \in [Offices -> AllocationCall \cup {None}]
          /\ \A d \in Offices \ {c} : allocationCall'[d] = allocationCall[d]
          /\ \A d \in Offices \ {c} : \A at : OfficeAt(d, at)' <=> OfficeAt(d, at)
        BY <2>1, <2>3, OneCallChanges
    <2>5. new.id \in AllocationIds /\ new.verb \in Statuses
        BY <2>1, <2>3 DEF AllocationTypes, Changing, Statuses
    <2>6. \A d \in Offices \ {c} : ~OfficeAt(d, "fill") /\ ~OfficeAt(d, "open")
        BY <2>1 DEF AllocationTypes
    <2> QED
        BY <2>1, <2>2, <2>3, <2>4, <2>5, <2>6 DEF AllocationTypes, OfficeAt
<1>12. ASSUME NEW c \in Offices, EmitAllocation(c) \/ AnswerSummary(c) \/ OfficeDies(c)
       PROVE  AllocationTypes'
    <2>1. /\ allocationCall' = [allocationCall EXCEPT ![c] = None] /\ allocationLog' = allocationLog
        BY <1>12 DEF EmitAllocation, AnswerSummary, OfficeDies, OfficeEnds
    <2>2. allocationLock' = IF allocationLock = c THEN None ELSE allocationLock
        BY <1>12 DEF EmitAllocation, AnswerSummary, OfficeDies, AllocationTypes, OfficeAt
    <2>3. allocationEvents' \subseteq [id : AllocationIds, verb : Statuses]
        BY <1>12 DEF EmitAllocation, AnswerSummary, OfficeDies, AllocationTypes
    <2>4. officeDeaths' \in Nat
        BY <1>12 DEF EmitAllocation, AnswerSummary, OfficeDies, AllocationTypes
    <2> QED
        BY <1>6, <2>1, <2>2, <2>3, <2>4
<1> QED
    BY <1>1, <1>3, <1>4, <1>5, <1>8, <1>9, <1>10, <1>11, <1>12 DEF AllocationNext

\* The rows that a transition writes differ in one status.
LEMMA WhatATransitionWrites ==
    ASSUME NEW rows \in Seq(Allocation), NEW call, call.verb \in Changing, Transition(rows, call), NEW n \in DOMAIN rows,
           \A m \in DOMAIN rows : rows[m].id = call.id <=> m = n
    PROVE  /\ DOMAIN call.rows = DOMAIN rows
           /\ \A m \in DOMAIN rows : call.rows[m].id = rows[m].id /\ (m # n => call.rows[m] = rows[m])
           /\ call.rows[n].status = call.verb
           /\ Story[call.verb] = Story[rows[n].status] \cup {call.verb}
<1> DEFINE old == FirstFor(rows, call.id)
           new == [old EXCEPT !.status = call.verb]
<1>1. old = rows[n] /\ old \in Allocation /\ old.status \in FromStatus(call.verb)
    <2>1. old \in Allocation /\ old.id = call.id /\ \E m \in DOMAIN rows : old = rows[m]
        BY FirstOfAnId DEF Transition
    <2> HIDE DEF old
    <2>2. old = rows[n]
        BY <2>1
    <2> QED
        BY <2>1, <2>2 DEF Transition, old
<1>2. call.rows = WithRow(rows, call.id, new)
    BY DEF Transition
<1> HIDE DEF old
<1>3. new.id = rows[n].id /\ new.status = call.verb
    BY <1>1 DEF Allocation
<1> HIDE DEF new
<1>4. Story[call.verb] = Story[rows[n].status] \cup {call.verb}
    BY <1>1 DEF Story, FromStatus, Changing
<1> QED
    BY <1>2, <1>3, <1>4 DEF WithRow

LEMMA LedgerStep ==
    ASSUME AllocationInv, [AllocationNext]_allocationVars, officeDeaths' = 0
    PROVE  LedgerIsTold'
<1> DEFINE rows == RowsOf(allocationLog)
           now == RowsOf(allocationLog')
           Was(i, verb) == Tells(allocationCall, allocationEvents, i, verb)
           Is(i, verb) == Tells(allocationCall', allocationEvents', i, verb)
           Stood(file, i) == Stands(allocationCall, allocationEvents, file, i)
           Stand(file, i) == Stands(allocationCall', allocationEvents', file, i)
<1> USE AllocationAssumption
<1>1. AllocationTypes /\ LedgerIsTold
    <2>1. officeDeaths' = officeDeaths \/ officeDeaths' = officeDeaths + 1
        BY DEF AllocationNext, allocationVars, AllocationRecordStep, AllocationChangeStep, RecordAllocation,
               ChangeAllocation, AskSummary, BeginAllocation, AppendAllocation, TakeAllocation,
               OpenAllocations, FillAllocations, EmitAllocation, OfficeDies, AnswerSummary
    <2>2. officeDeaths \in Nat
        BY DEF AllocationInv, AllocationTypes
    <2> QED
        BY <2>1, <2>2 DEF AllocationInv
<1>2. CASE UNCHANGED allocationVars
    BY <1>1, <1>2 DEF allocationVars, LedgerIsTold, OfficeAt, Rewritten
<1>3. ASSUME \A i, verb : Is(i, verb) <=> Was(i, verb)
      PROVE  \A file, i : Stand(file, i) <=> Stood(file, i)
    BY <1>3 DEF Stands
\* What was told and what is in the file stay.
<1>4. ASSUME NEW c \in Offices, NEW new, allocationCall' = [allocationCall EXCEPT ![c] = new],
             UNCHANGED allocationLog, \A i, verb : Is(i, verb) <=> Was(i, verb),
             ~OfficeAt(c, "fill"), new # None => new.at # "fill",
             new # None /\ new.at = "append" =>
                 /\ \A verb \in Statuses : ~Was(new.id, verb)
                 /\ \A d \in Offices : OfficeAt(d, "append") => allocationCall[d].id # new.id,
             new # None /\ new.at = "open" => Transition(rows, new)
      PROVE  LedgerIsTold'
    <2>1. /\ allocationCall'[c] = new
          /\ \A d \in Offices \ {c} : allocationCall'[d] = allocationCall[d]
          /\ \A d \in Offices \ {c} : \A at : OfficeAt(d, at)' <=> OfficeAt(d, at)
        BY <1>1, <1>4, OneCallChanges
    <2>2. \A at : OfficeAt(c, at)' <=> new # None /\ new.at = at
        BY <2>1 DEF OfficeAt
    <2>3. ASSUME NEW d \in Offices, OfficeAt(d, "append")'
          PROVE  /\ \A verb \in Statuses : ~Is(allocationCall'[d].id, verb)
                 /\ \A e \in Offices : OfficeAt(e, "append")' /\ allocationCall'[e].id = allocationCall'[d].id => e = d
        <3>1. CASE d = c
            <4>1. /\ \A verb \in Statuses : ~Was(new.id, verb)
                  /\ \A e \in Offices : OfficeAt(e, "append") => allocationCall[e].id # new.id
                BY <1>4, <2>2, <2>3, <3>1
            <4>2. \A e \in Offices : e # c /\ OfficeAt(e, "append")' => allocationCall'[e].id # new.id
                BY <2>1, <4>1
            <4> QED
                BY <1>4, <2>1, <3>1, <4>1, <4>2
        <3>2. CASE d # c
            <4>1. OfficeAt(d, "append") /\ allocationCall'[d] = allocationCall[d]
                BY <2>1, <2>3, <3>2
            <4>2. \A verb \in Statuses : ~Is(allocationCall'[d].id, verb)
                BY <1>1, <1>4, <4>1 DEF LedgerIsTold
            <4>3. ASSUME OfficeAt(c, "append")'
                  PROVE  allocationCall'[c].id # allocationCall'[d].id
                BY <1>4, <2>1, <2>2, <4>1, <4>3
            <4>4. ASSUME NEW e \in Offices \ {c}, OfficeAt(e, "append")', allocationCall'[e].id = allocationCall'[d].id
                  PROVE  e = d
                BY <1>1, <2>1, <4>1, <4>4 DEF LedgerIsTold
            <4> QED
                BY <4>2, <4>3, <4>4
        <3> QED
            BY <3>1, <3>2
    <2>4. ASSUME NEW d \in Offices, OfficeAt(d, "open")'
          PROVE  Transition(now, allocationCall'[d])
        BY <1>1, <1>4, <2>1, <2>2, <2>4 DEF LedgerIsTold
    <2>5. Rewritten' <=> Rewritten
        BY <1>4, <2>1, <2>2 DEF Rewritten
    <2>6. now = rows /\ \A file, i : Stand(file, i) <=> Stood(file, i)
        BY <1>3, <1>4
    <2>7. ASSUME NEW d \in Offices, OfficeAt(d, "fill")'
          PROVE  \A i \in AllocationIds : Stand(allocationCall'[d].rows, i)
        <3>1. d # c /\ allocationCall'[d] = allocationCall[d] /\ OfficeAt(d, "fill")
            BY <1>4, <2>1, <2>2, <2>7
        <3>2. \A i \in AllocationIds : Stood(allocationCall[d].rows, i)
            BY <1>1, <3>1 DEF LedgerIsTold
        <3> QED
            BY <2>6, <3>1, <3>2
    <2> QED
        BY <1>1, <2>3, <2>4, <2>5, <2>6, <2>7 DEF LedgerIsTold
\* Who is in a stage that says nothing, before and after.
<1>5. ASSUME NEW c \in Offices, NEW new, allocationCall' = [allocationCall EXCEPT ![c] = new],
             UNCHANGED allocationEvents, ~OfficeAt(c, "fill"), ~OfficeAt(c, "emit"),
             new # None => new.at \notin {"fill", "emit"}
      PROVE  \A i, verb : Is(i, verb) <=> Was(i, verb)
    <2>1. allocationCall'[c] = new /\ \A d \in Offices \ {c} : allocationCall'[d] = allocationCall[d]
        BY <1>1, <1>5, OneCallChanges
    <2>2. \A i, verb : ~Says(allocationCall[c], i, verb) /\ ~Says(new, i, verb)
        BY <1>5 DEF Says, OfficeAt
    <2> QED
        BY <1>5, <2>1, <2>2 DEF Tells
<1>6. ASSUME NEW c \in Offices, AllocationRecordStep(c)
      PROVE  LedgerIsTold'
    <2>1. PICK i \in AllocationIds, move \in Move : RecordAllocation(c, i, move)
        BY <1>6 DEF AllocationRecordStep
    <2> DEFINE new == [at |-> "append", id |-> i, verb |-> "proposed", rows |-> <<>>,
                       new |-> [id |-> i, move |-> move, status |-> "proposed"], seen |-> None]
    <2>2. /\ allocationCall' = [allocationCall EXCEPT ![c] = new] /\ allocationCall[c] = None
          /\ UNCHANGED <<allocationLog, allocationEvents>> /\ new.at = "append" /\ new.id = i
        BY <2>1 DEF RecordAllocation, BeginAllocation
    <2> HIDE DEF new
    <2>3. ~OfficeAt(c, "fill") /\ ~OfficeAt(c, "emit")
        BY <2>2 DEF OfficeAt
    <2>4. \A j, verb : Is(j, verb) <=> Was(j, verb)
        BY <1>5, <2>2, <2>3
    <2>5. \A verb \in Statuses : ~Was(i, verb)
        BY <2>1 DEF RecordAllocation, Unused, Tells, Says, OfficeAt
    <2>6. \A d \in Offices : OfficeAt(d, "append") => allocationCall[d].id # i
        BY <2>1 DEF RecordAllocation, Unused, OfficeAt
    <2>7. /\ \A verb \in Statuses : ~Was(new.id, verb)
          /\ \A d \in Offices : OfficeAt(d, "append") => allocationCall[d].id # new.id
        BY <2>2, <2>5, <2>6
    <2> QED
        BY <1>4, <2>2, <2>3, <2>4, <2>7
<1>7. ASSUME NEW c \in Offices, AllocationChangeStep(c) \/ AskSummary(c)
      PROVE  LedgerIsTold'
    <2>1. PICK new : BeginAllocation(c, new) /\ new.at \in {"take", "sum"}
        <3>1. CASE AllocationChangeStep(c)
            <4>1. PICK i \in AllocationIds, verb \in {"applied", "reverted"} : ChangeAllocation(c, i, verb)
                BY <3>1 DEF AllocationChangeStep
            <4> DEFINE call == [at |-> "take", id |-> i, verb |-> verb, rows |-> <<>>, new |-> None, seen |-> None]
            <4>2. BeginAllocation(c, call) /\ call.at = "take"
                BY <4>1 DEF ChangeAllocation
            <4> HIDE DEF call
            <4> QED
                BY <4>2
        <3>2. CASE AskSummary(c)
            <4> DEFINE call == [at |-> "sum", id |-> None, verb |-> "summary", rows |-> <<>>,
                                new |-> None, seen |-> RowsOf(allocationLog)]
            <4>1. BeginAllocation(c, call) /\ call.at = "sum"
                BY <3>2 DEF AskSummary
            <4> HIDE DEF call
            <4> QED
                BY <4>1
        <3> QED
            BY <1>7, <3>1, <3>2
    <2>2. /\ allocationCall' = [allocationCall EXCEPT ![c] = new] /\ allocationCall[c] = None
          /\ UNCHANGED <<allocationLog, allocationEvents>>
        BY <2>1 DEF BeginAllocation
    <2>3. ~OfficeAt(c, "fill") /\ ~OfficeAt(c, "emit")
        BY <2>2 DEF OfficeAt
    <2>4. \A j, verb : Is(j, verb) <=> Was(j, verb)
        BY <1>5, <2>1, <2>2, <2>3
    <2> QED
        BY <1>4, <2>1, <2>2, <2>3, <2>4
<1>8. ASSUME NEW c \in Offices, AppendAllocation(c)
      PROVE  LedgerIsTold'
    <2> DEFINE old == allocationCall[c]
               new == [old EXCEPT !.at = "emit"]
               row == old.new
               last == Len(rows) + 1
    <2>1. /\ old \in AllocationCall /\ OfficeAt(c, "append") /\ allocationLock = None
          /\ UNCHANGED allocationEvents /\ allocationCall' = [allocationCall EXCEPT ![c] = new]
          /\ allocationLog' = Appended(allocationLog, row)
        BY <1>1, <1>8 DEF AppendAllocation, OfficeGoes, AllocationTypes, OfficeAt
    <2>2. /\ old.id \in AllocationIds /\ old.verb = "proposed"
          /\ row \in Allocation /\ row.id = old.id /\ row.status = "proposed"
        BY <1>1, <2>1 DEF AllocationTypes
    <2>3. new # None /\ new.at = "emit" /\ new.id = old.id /\ new.verb = old.verb
        BY <2>1, OfficeGoesOn
    <2>4. rows \in Seq(Allocation) /\ allocationLog # Torn
        BY <1>1, RowsOfTheLog DEF Readable
    <2>5. allocationLog' = Append(rows, row) /\ now = Append(rows, row)
        <3>1. allocationLog' = Append(rows, row)
            BY <2>1, <2>4 DEF Appended
        <3>2. allocationLog' # Absent
            <4>1. Append(rows, row) \in Seq(Allocation)
                BY <2>2, <2>4
            <4> QED
                BY <3>1, <4>1, AllocationAssumption
        <3> QED
            BY <3>1, <3>2 DEF RowsOf
    <2> HIDE DEF new, row, rows, now
    <2>6. /\ DOMAIN now = DOMAIN rows \cup {last} /\ last \notin DOMAIN rows
          /\ now[last] = row /\ \A n \in DOMAIN rows : now[n] = rows[n]
        <3>1. /\ DOMAIN rows = 1 .. Len(rows) /\ DOMAIN now = 1 .. Len(rows) + 1 /\ Len(rows) \in Nat
              /\ now[last] = row /\ \A n \in DOMAIN rows : now[n] = rows[n]
            BY <2>2, <2>4, <2>5, AppendedRows
        <3> QED
            BY <3>1
    <2> HIDE DEF last
    <2>7. /\ allocationCall'[c] = new
          /\ \A d \in Offices \ {c} : allocationCall'[d] = allocationCall[d]
          /\ \A d \in Offices \ {c} : \A at : OfficeAt(d, at)' <=> OfficeAt(d, at)
        BY <1>1, <2>1, OneCallChanges
    <2>8. \A at : OfficeAt(c, at)' <=> at = "emit"
        BY <2>3, <2>7 DEF OfficeAt
    <2>9. \A i, verb : /\ ~Says(old, i, verb)
                       /\ Says(new, i, verb) <=> i = old.id /\ verb = "proposed"
        BY <2>1, <2>2, <2>3 DEF Says, OfficeAt
    <2>10. \A i, verb : Is(i, verb) <=> Was(i, verb) \/ (i = old.id /\ verb = "proposed")
        BY <2>1, <2>7, <2>9 DEF Tells
    <2>11. \A d \in Offices : ~OfficeAt(d, "open") /\ ~OfficeAt(d, "fill")
        BY <1>1, <2>1 DEF AllocationTypes
    <2>12. \A d \in Offices : ~OfficeAt(d, "open")' /\ ~OfficeAt(d, "fill")'
        BY <2>7, <2>8, <2>11
    <2>13. /\ \A verb \in Statuses : ~Was(old.id, verb)
           /\ \A d \in Offices \ {c} : OfficeAt(d, "append") => allocationCall[d].id # old.id
        BY <1>1, <2>1 DEF LedgerIsTold
    <2>14. \A i \in AllocationIds : Stood(rows, i)
        BY <1>1, <2>11 DEF LedgerIsTold, Rewritten, rows
    <2>15. ASSUME NEW i \in AllocationIds
           PROVE  Stand(now, i)
        <3>1. CASE i = old.id
            <4>1. ~Mentions(rows, i)
                <5> SUFFICES ASSUME NEW n \in DOMAIN rows,
                                    \A verb \in Statuses : Was(i, verb) <=> verb \in Story[rows[n].status]
                             PROVE  FALSE
                    BY <2>14 DEF Stands
                <5>1. rows[n].status \in Statuses
                    <6>1. rows[n] \in Allocation
                        BY <2>4
                    <6> QED
                        BY <6>1 DEF Allocation
                <5>2. "proposed" \in Story[rows[n].status]
                    BY <5>1 DEF Story, Statuses
                <5> QED
                    BY <2>13, <3>1, <5>2 DEF Statuses
            <4>2. \A m \in DOMAIN now : now[m].id = i <=> m = last
                BY <2>2, <2>6, <3>1, <4>1 DEF Mentions
            <4>3. \A verb \in Statuses : Is(i, verb) <=> verb \in Story[now[last].status]
                BY <2>2, <2>6, <2>10, <2>13, <3>1 DEF Story
            <4> QED
                BY <2>6, <4>2, <4>3 DEF Stands
        <3>2. CASE i # old.id
            <4>1. \A verb : Is(i, verb) <=> Was(i, verb)
                BY <2>10, <3>2
            <4>2. Mentions(now, i) <=> Mentions(rows, i)
                BY <2>2, <2>6, <3>2 DEF Mentions
            <4>3. CASE ~Mentions(rows, i) /\ \A verb \in Statuses : ~Was(i, verb)
                BY <4>1, <4>2, <4>3 DEF Stands
            <4>4. ASSUME NEW n \in DOMAIN rows, \A m \in DOMAIN rows : rows[m].id = i <=> m = n,
                         \A verb \in Statuses : Was(i, verb) <=> verb \in Story[rows[n].status]
                  PROVE  Stand(now, i)
                <5>1. \A m \in DOMAIN now : now[m].id = i <=> m = n
                    BY <2>2, <2>6, <3>2, <4>4
                <5> QED
                    BY <2>6, <4>1, <4>4, <5>1 DEF Stands
            <4> QED
                BY <2>14, <4>3, <4>4 DEF Stands
        <3> QED
            BY <3>1, <3>2
    <2>16. ASSUME NEW d \in Offices, OfficeAt(d, "append")'
           PROVE  /\ \A verb \in Statuses : ~Is(allocationCall'[d].id, verb)
                  /\ \A e \in Offices : OfficeAt(e, "append")' /\ allocationCall'[e].id = allocationCall'[d].id => e = d
        <3>1. d # c /\ allocationCall'[d] = allocationCall[d] /\ OfficeAt(d, "append")
            BY <2>7, <2>8, <2>16
        <3>2. allocationCall[d].id # old.id
            BY <2>13, <3>1
        <3>3. \A verb \in Statuses : ~Was(allocationCall[d].id, verb)
            BY <1>1, <3>1 DEF LedgerIsTold
        <3>4. \A verb \in Statuses : ~Is(allocationCall[d].id, verb)
            BY <2>10, <3>2, <3>3
        <3>5. ASSUME NEW e \in Offices, OfficeAt(e, "append")', allocationCall'[e].id = allocationCall'[d].id
              PROVE  e = d
            <4>1. e # c /\ allocationCall'[e] = allocationCall[e] /\ OfficeAt(e, "append")
                BY <2>7, <2>8, <3>5
            <4> QED
                BY <1>1, <3>1, <3>5, <4>1 DEF LedgerIsTold
        <3> QED
            BY <3>1, <3>4, <3>5
    <2> QED
        BY <2>12, <2>15, <2>16 DEF LedgerIsTold, now
<1>9. ASSUME NEW c \in Offices, TakeAllocation(c)
      PROVE  LedgerIsTold'
    <2> DEFINE old == allocationCall[c]
               row == [FirstFor(rows, old.id) EXCEPT !.status = old.verb]
               there == Mentions(rows, old.id) /\ FirstFor(rows, old.id).status \in FromStatus(old.verb)
               after == WithRow(rows, old.id, row)
               new == [old EXCEPT !.at = "open", !.rows = after]
    <2>1. /\ old \in AllocationCall /\ OfficeAt(c, "take") /\ UNCHANGED <<allocationLog, allocationEvents>>
        BY <1>1, <1>9 DEF TakeAllocation, AllocationTypes, OfficeAt
    <2>2. ~OfficeAt(c, "fill") /\ ~OfficeAt(c, "emit")
        BY <2>1 DEF OfficeAt
    <2>3. CASE there
        <3>1. allocationCall' = [allocationCall EXCEPT ![c] = new]
            BY <1>9, <2>3 DEF TakeAllocation
        <3> HIDE DEF rows, row, after
        <3>2. new.at = "open" /\ new.id = old.id /\ new.verb = old.verb /\ new.rows = after
            BY <2>1 DEF AllocationCall
        <3> HIDE DEF new
        <3>3. Transition(rows, new)
            BY <2>3, <3>2 DEF Transition, after, row
        <3>4. \A i, verb : Is(i, verb) <=> Was(i, verb)
            BY <1>5, <2>1, <2>2, <3>1, <3>2
        <3> QED
            BY <1>4, <2>1, <2>2, <3>1, <3>2, <3>3, <3>4 DEF rows
    <2>4. CASE ~there
        <3>1. allocationCall' = [allocationCall EXCEPT ![c] = None]
            BY <1>9, <2>4 DEF TakeAllocation, OfficeEnds
        <3>2. \A i, verb : Is(i, verb) <=> Was(i, verb)
            BY <1>5, <2>1, <2>2, <3>1
        <3> QED
            BY <1>4, <2>1, <2>2, <3>1, <3>2
    <2> QED
        BY <2>3, <2>4
<1>10. ASSUME NEW c \in Offices, OpenAllocations(c)
       PROVE  LedgerIsTold'
    <2> DEFINE old == allocationCall[c]
               new == [old EXCEPT !.at = "fill"]
    <2>1. /\ old \in AllocationCall /\ OfficeAt(c, "open") /\ allocationLock = c
          /\ UNCHANGED allocationEvents /\ allocationCall' = [allocationCall EXCEPT ![c] = new]
        BY <1>1, <1>10 DEF OpenAllocations, OfficeGoes, AllocationTypes, OfficeAt
    <2>2. /\ new # None /\ new.at = "fill" /\ new.id = old.id /\ new.verb = old.verb /\ new.rows = old.rows
        BY <2>1, OfficeGoesOn
    <2> HIDE DEF new
    <2>3. /\ allocationCall'[c] = new
          /\ \A d \in Offices \ {c} : allocationCall'[d] = allocationCall[d]
          /\ \A d \in Offices \ {c} : \A at : OfficeAt(d, at)' <=> OfficeAt(d, at)
        BY <1>1, <2>1, OneCallChanges
    <2>4. \A at : OfficeAt(c, at)' <=> at = "fill"
        BY <2>2, <2>3 DEF OfficeAt
    <2>5. \A d \in Offices \ {c} : ~OfficeAt(d, "open") /\ ~OfficeAt(d, "fill")
        BY <1>1, <2>1 DEF AllocationTypes
    <2>6. ~Rewritten /\ Rewritten' /\ ~OfficeAt(c, "fill") /\ ~OfficeAt(c, "emit")
        BY <2>1, <2>4, <2>5 DEF Rewritten, OfficeAt
    <2>7. /\ rows \in Seq(Allocation) /\ Transition(rows, old)
          /\ old.id \in AllocationIds /\ old.verb \in Changing
        BY <1>1, <2>1, RowsOfTheLog DEF LedgerIsTold, AllocationTypes
    <2>8. \A i \in AllocationIds : Stood(rows, i)
        BY <1>1, <2>6 DEF LedgerIsTold
    <2>9. \A i, verb : Is(i, verb) <=> Was(i, verb) \/ (i = old.id /\ verb = old.verb)
        <3>1. \A i, verb : /\ ~Says(old, i, verb)
                           /\ Says(new, i, verb) <=> i = old.id /\ verb = old.verb
            BY <2>2, <2>6 DEF Says, OfficeAt
        <3> QED
            BY <2>1, <2>3, <3>1 DEF Tells
    <2> HIDE DEF rows, now
    <2>10. Mentions(rows, old.id)
        BY <2>7 DEF Transition
    <2>11. PICK n \in DOMAIN rows :
              /\ \A m \in DOMAIN rows : rows[m].id = old.id <=> m = n
              /\ \A verb \in Statuses : Was(old.id, verb) <=> verb \in Story[rows[n].status]
        BY <2>7, <2>8, <2>10 DEF Stands
    <2>12. /\ DOMAIN old.rows = DOMAIN rows
           /\ \A m \in DOMAIN rows : old.rows[m].id = rows[m].id /\ (m # n => old.rows[m] = rows[m])
           /\ old.rows[n].status = old.verb
           /\ Story[old.verb] = Story[rows[n].status] \cup {old.verb}
        <3>1. \A m \in DOMAIN rows : rows[m].id = old.id <=> m = n
            BY <2>11
        <3> HIDE DEF old
        <3> QED
            BY <2>7, <3>1, WhatATransitionWrites
    <2>13. Was(old.id, "proposed")
        <3>1. rows[n].status \in Statuses
            <4>1. rows[n] \in Allocation
                BY <2>7
            <4> QED
                BY <4>1 DEF Allocation
        <3>2. "proposed" \in Story[rows[n].status]
            BY <3>1 DEF Story, Statuses
        <3> QED
            BY <2>11, <3>2 DEF Statuses
    <2>14. ASSUME NEW i \in AllocationIds
           PROVE  Stand(new.rows, i)
        <3>1. CASE i = old.id
            <4>1. \A m \in DOMAIN new.rows : new.rows[m].id = i <=> m = n
                BY <2>2, <2>11, <2>12, <3>1
            <4>2. \A verb \in Statuses : Is(i, verb) <=> verb \in Story[new.rows[n].status]
                BY <2>2, <2>9, <2>11, <2>12, <3>1
            <4> QED
                BY <2>2, <2>12, <4>1, <4>2 DEF Stands
        <3>2. CASE i # old.id
            <4>1. \A verb : Is(i, verb) <=> Was(i, verb)
                BY <2>9, <3>2
            <4>2. Mentions(new.rows, i) <=> Mentions(rows, i)
                BY <2>2, <2>12 DEF Mentions
            <4>3. CASE ~Mentions(rows, i) /\ \A verb \in Statuses : ~Was(i, verb)
                BY <4>1, <4>2, <4>3 DEF Stands
            <4>4. ASSUME NEW k \in DOMAIN rows, \A m \in DOMAIN rows : rows[m].id = i <=> m = k,
                         \A verb \in Statuses : Was(i, verb) <=> verb \in Story[rows[k].status]
                  PROVE  Stand(new.rows, i)
                <5>1. \A m \in DOMAIN new.rows : new.rows[m].id = i <=> m = k
                    BY <2>2, <2>12, <4>4
                <5>2. k # n
                    BY <2>11, <3>2, <4>4
                <5>3. k \in DOMAIN new.rows /\ new.rows[k] = rows[k]
                    BY <2>2, <2>12, <5>2
                <5> QED
                    BY <4>1, <4>4, <5>1, <5>3 DEF Stands
            <4> QED
                BY <2>8, <4>3, <4>4 DEF Stands
        <3> QED
            BY <3>1, <3>2
    <2>15. ASSUME NEW d \in Offices, OfficeAt(d, "append")'
           PROVE  /\ \A verb \in Statuses : ~Is(allocationCall'[d].id, verb)
                  /\ \A e \in Offices : OfficeAt(e, "append")' /\ allocationCall'[e].id = allocationCall'[d].id => e = d
        <3>1. d # c /\ allocationCall'[d] = allocationCall[d] /\ OfficeAt(d, "append")
            BY <2>3, <2>4, <2>15
        <3>2. \A verb \in Statuses : ~Was(allocationCall[d].id, verb)
            BY <1>1, <3>1 DEF LedgerIsTold
        <3>3. allocationCall[d].id # old.id
            BY <2>13, <3>2 DEF Statuses
        <3>4. \A verb \in Statuses : ~Is(allocationCall[d].id, verb)
            BY <2>9, <3>2, <3>3
        <3>5. ASSUME NEW e \in Offices, OfficeAt(e, "append")', allocationCall'[e].id = allocationCall'[d].id
              PROVE  e = d
            <4>1. e # c /\ allocationCall'[e] = allocationCall[e] /\ OfficeAt(e, "append")
                BY <2>3, <2>4, <3>5
            <4> QED
                BY <1>1, <3>1, <3>5, <4>1 DEF LedgerIsTold
        <3> QED
            BY <3>1, <3>4, <3>5
    <2>16. \A d \in Offices : ~OfficeAt(d, "open")' /\ (OfficeAt(d, "fill")' => d = c)
        BY <2>3, <2>4, <2>5
    <2> QED
        BY <2>3, <2>6, <2>14, <2>15, <2>16 DEF LedgerIsTold
<1>11. ASSUME NEW c \in Offices, FillAllocations(c)
       PROVE  LedgerIsTold'
    <2> DEFINE old == allocationCall[c]
               new == [old EXCEPT !.at = "emit"]
    <2>1. /\ old \in AllocationCall /\ OfficeAt(c, "fill") /\ allocationLock = c /\ allocationLog = <<>>
          /\ UNCHANGED allocationEvents /\ allocationCall' = [allocationCall EXCEPT ![c] = new]
        BY <1>1, <1>11 DEF FillAllocations, OfficeGoes, AllocationTypes, OfficeAt
    <2>2. /\ new # None /\ new.at = "emit" /\ new.id = old.id /\ new.verb = old.verb
        BY <2>1, OfficeGoesOn
    <2> HIDE DEF new
    <2>3. /\ allocationCall'[c] = new
          /\ \A d \in Offices \ {c} : allocationCall'[d] = allocationCall[d]
          /\ \A d \in Offices \ {c} : \A at : OfficeAt(d, at)' <=> OfficeAt(d, at)
        BY <1>1, <2>1, OneCallChanges
    <2>4. \A at : OfficeAt(c, at)' <=> at = "emit"
        BY <2>2, <2>3 DEF OfficeAt
    <2>5. \A d \in Offices \ {c} : ~OfficeAt(d, "open") /\ ~OfficeAt(d, "fill")
        BY <1>1, <2>1 DEF AllocationTypes
    <2>6. \A d \in Offices : ~OfficeAt(d, "open")' /\ ~OfficeAt(d, "fill")'
        BY <2>3, <2>4, <2>5
    <2>7. now = old.rows
        <3>1. allocationLog' = old.rows /\ old.rows \in Seq(Allocation)
            BY <1>11, <2>1 DEF FillAllocations, FilledOver, AllocationCall
        <3> QED
            BY <3>1 DEF RowsOf
    <2>8. \A i, verb : Is(i, verb) <=> Was(i, verb)
        <3>1. \A i, verb : Says(new, i, verb) <=> Says(old, i, verb)
            BY <2>1, <2>2 DEF Says, OfficeAt
        <3> QED
            BY <2>1, <2>3, <3>1 DEF Tells
    <2>9. \A i \in AllocationIds : Stand(now, i)
        <3>1. \A i \in AllocationIds : Stood(old.rows, i)
            BY <1>1, <2>1 DEF LedgerIsTold
        <3> QED
            BY <1>3, <2>7, <2>8, <3>1
    <2>10. ASSUME NEW d \in Offices, OfficeAt(d, "append")'
           PROVE  /\ \A verb \in Statuses : ~Is(allocationCall'[d].id, verb)
                  /\ \A e \in Offices : OfficeAt(e, "append")' /\ allocationCall'[e].id = allocationCall'[d].id => e = d
        <3>1. d # c /\ allocationCall'[d] = allocationCall[d] /\ OfficeAt(d, "append")
            BY <2>3, <2>4, <2>10
        <3>2. \A verb \in Statuses : ~Is(allocationCall[d].id, verb)
            BY <1>1, <2>8, <3>1 DEF LedgerIsTold
        <3>3. ASSUME NEW e \in Offices, OfficeAt(e, "append")', allocationCall'[e].id = allocationCall'[d].id
              PROVE  e = d
            <4>1. e # c /\ allocationCall'[e] = allocationCall[e] /\ OfficeAt(e, "append")
                BY <2>3, <2>4, <3>3
            <4> QED
                BY <1>1, <3>1, <3>3, <4>1 DEF LedgerIsTold
        <3> QED
            BY <3>1, <3>2, <3>3
    <2> QED
        BY <2>6, <2>9, <2>10 DEF LedgerIsTold
<1>12. ASSUME NEW c \in Offices, EmitAllocation(c)
       PROVE  LedgerIsTold'
    <2> DEFINE old == allocationCall[c]
               event(i, verb) == [id |-> i, verb |-> verb]
    <2>1. /\ OfficeAt(c, "emit") /\ allocationCall' = [allocationCall EXCEPT ![c] = None]
          /\ allocationEvents' = allocationEvents \cup {event(old.id, old.verb)}
          /\ UNCHANGED allocationLog /\ ~OfficeAt(c, "fill")
        BY <1>12 DEF EmitAllocation, OfficeEnds, OfficeAt
    <2>2. /\ allocationCall'[c] = None
          /\ \A d \in Offices \ {c} : allocationCall'[d] = allocationCall[d]
        BY <1>1, <2>1, OneCallChanges
    <2>3. \A i, verb : Says(old, i, verb) <=> i = old.id /\ verb = old.verb
        BY <2>1 DEF Says, OfficeAt
    <2>4. \A i, verb : ~Says(None, i, verb)
        BY DEF Says
    <2>5. \A i, verb : event(i, verb) = event(old.id, old.verb) <=> i = old.id /\ verb = old.verb
        OBVIOUS
    <2>6. \A i, verb : Is(i, verb) <=> Was(i, verb)
        <3>1. \A i, verb : (\E d \in Offices : Says(allocationCall[d], i, verb)) <=>
                  (i = old.id /\ verb = old.verb) \/ \E d \in Offices : Says(allocationCall'[d], i, verb)
            BY <2>2, <2>3, <2>4
        <3> HIDE DEF event
        <3>2. \A i, verb : event(i, verb) \in allocationEvents' <=>
                  event(i, verb) \in allocationEvents \/ (i = old.id /\ verb = old.verb)
            BY <2>1, <2>5
        <3>3. \A i, verb : Is(i, verb) <=> event(i, verb) \in allocationEvents' \/
                  \E d \in Offices : Says(allocationCall'[d], i, verb)
            BY DEF Tells, event
        <3>4. \A i, verb : Was(i, verb) <=> event(i, verb) \in allocationEvents \/
                  \E d \in Offices : Says(allocationCall[d], i, verb)
            BY DEF Tells, event
        <3> HIDE DEF Was, Is, event, old
        <3> QED
            BY <3>1, <3>2, <3>3, <3>4
    <2> QED
        BY <1>4, <2>1, <2>6
<1>13. ASSUME NEW c \in Offices, AnswerSummary(c)
       PROVE  LedgerIsTold'
    <2>1. /\ allocationCall' = [allocationCall EXCEPT ![c] = None] /\ ~OfficeAt(c, "fill") /\ ~OfficeAt(c, "emit")
          /\ UNCHANGED <<allocationLog, allocationEvents>>
        BY <1>13 DEF AnswerSummary, OfficeEnds, OfficeAt
    <2>2. \A i, verb : Is(i, verb) <=> Was(i, verb)
        BY <1>5, <2>1
    <2> QED
        BY <1>4, <2>1, <2>2
<1>14. ASSUME NEW c \in Offices, OfficeDies(c)
       PROVE  FALSE
    BY <1>1, <1>14 DEF OfficeDies, AllocationTypes
<1> QED
    BY <1>2, <1>6, <1>7, <1>8, <1>9, <1>10, <1>11, <1>12, <1>13, <1>14 DEF AllocationNext

LEMMA AllocationStart == AllocationInit => AllocationInv
<1> SUFFICES ASSUME AllocationInit PROVE AllocationInv
    OBVIOUS
<1>1. AllocationTypes
    BY AllocationAssumption DEF AllocationInit, AllocationTypes, OfficeAt
<1>2. \A c \in Offices : \A at : ~OfficeAt(c, at)
    BY DEF AllocationInit, OfficeAt
<1>3. \A i, verb : ~Tells(allocationCall, allocationEvents, i, verb)
    BY DEF AllocationInit, Tells, Says
<1>4. \A i : ~Mentions(RowsOf(allocationLog), i)
    BY DEF AllocationInit, RowsOf, Mentions
<1> QED
    BY <1>1, <1>2, <1>3, <1>4 DEF AllocationInv, LedgerIsTold, Stands

LEMMA AllocationStep == AllocationInv /\ [AllocationNext]_allocationVars => AllocationInv'
<1> SUFFICES ASSUME AllocationInv, [AllocationNext]_allocationVars PROVE AllocationInv'
    OBVIOUS
<1>1. AllocationTypes'
    BY AllocationTypesStep DEF AllocationInv
<1>2. officeDeaths' = 0 => LedgerIsTold'
    BY LedgerStep
<1> QED
    BY <1>1, <1>2 DEF AllocationInv

\* Whoever adds up the events gets the ledger, for any number of offices,
\* decisions and calls, as long as none died in a call.
THEOREM EventsRebuildTheLedger == AllocationSpec => []EventsTellTheLedger
<1>1. AllocationInv => EventsTellTheLedger
    <2> SUFFICES ASSUME AllocationInv, officeDeaths = 0, ~Rewritten
                 PROVE  Readable(allocationLog) /\ \A i \in AllocationIds :
                            LET rows == RowsOf(allocationLog) IN
                            IF Told(i) = {} THEN ~Mentions(rows, i)
                            ELSE \E n \in DOMAIN rows :
                                    /\ \A m \in DOMAIN rows : rows[m].id = i <=> m = n
                                    /\ Told(i) = Story[rows[n].status]
        BY DEF EventsTellTheLedger
    <2> DEFINE rows == RowsOf(allocationLog)
    <2>1. AllocationTypes /\ LedgerIsTold
        BY DEF AllocationInv
    <2>2. Readable(allocationLog) /\ rows \in Seq(Allocation)
        BY <2>1, RowsOfTheLog
    <2>3. ASSUME NEW i \in AllocationIds
          PROVE  Told(i) = {verb \in Statuses : Tells(allocationCall, allocationEvents, i, verb)}
        <3>1. \A c \in Offices : ~OfficeAt(c, "fill")
            BY DEF Rewritten
        <3>2. \A c \in Offices : \A verb : Says(allocationCall[c], i, verb) <=>
                  OfficeAt(c, "emit") /\ allocationCall[c].id = i /\ allocationCall[c].verb = verb
            BY <3>1 DEF Says, OfficeAt
        <3>3. ASSUME NEW verb
              PROVE  verb \in {event.verb : event \in {e \in allocationEvents : e.id = i}} <=>
                         [id |-> i, verb |-> verb] \in allocationEvents
            <4>1. \A e \in allocationEvents : e = [id |-> e.id, verb |-> e.verb]
                BY <2>1 DEF AllocationTypes
            <4>2. [id |-> i, verb |-> verb].id = i /\ [id |-> i, verb |-> verb].verb = verb
                OBVIOUS
            <4> QED
                BY <4>1, <4>2
        <3>4. \A verb : verb \in Told(i) <=> Tells(allocationCall, allocationEvents, i, verb)
            BY <3>2, <3>3 DEF Told, Tells
        <3>5. \A verb : Tells(allocationCall, allocationEvents, i, verb) => verb \in Statuses
            <4>1. \A verb : [id |-> i, verb |-> verb] \in allocationEvents => verb \in Statuses
                BY <2>1 DEF AllocationTypes
            <4>2. \A c \in Offices : OfficeAt(c, "emit") => allocationCall[c].verb \in Statuses
                BY <2>1 DEF AllocationTypes
            <4> QED
                BY <3>2, <4>1, <4>2 DEF Tells
        <3> QED
            BY <3>4, <3>5
    <2> HIDE DEF rows
    <2>4. ASSUME NEW i \in AllocationIds
          PROVE  IF Told(i) = {} THEN ~Mentions(rows, i)
                 ELSE \E n \in DOMAIN rows :
                         /\ \A m \in DOMAIN rows : rows[m].id = i <=> m = n
                         /\ Told(i) = Story[rows[n].status]
        <3>1. Stands(allocationCall, allocationEvents, rows, i)
            BY <2>1 DEF LedgerIsTold, rows
        <3>2. CASE ~Mentions(rows, i) /\ \A verb \in Statuses : ~Tells(allocationCall, allocationEvents, i, verb)
            BY <2>3, <3>2
        <3>3. ASSUME NEW n \in DOMAIN rows, \A m \in DOMAIN rows : rows[m].id = i <=> m = n,
                     \A verb \in Statuses :
                         Tells(allocationCall, allocationEvents, i, verb) <=> verb \in Story[rows[n].status]
              PROVE  Told(i) = Story[rows[n].status] /\ Told(i) # {}
            <4>1. rows[n].status \in Statuses
                <5>1. rows[n] \in Allocation
                    BY <2>2
                <5> QED
                    BY <5>1 DEF Allocation
            <4>2. Story[rows[n].status] \subseteq Statuses /\ "proposed" \in Story[rows[n].status]
                BY <4>1 DEF Story, Statuses
            <4> QED
                BY <2>3, <3>3, <4>2
        <3> QED
            BY <3>1, <3>2, <3>3 DEF Stands
    <2> QED
        BY <2>2, <2>4 DEF rows
<1> QED
    BY <1>1, AllocationStart, AllocationStep, PTL DEF AllocationSpec

-----------------------------------------------------------------------------
(* Phase plans.  The bound on attempts is not inductive, because a plan    *)
(* that is over can still be charged by calls that were under way.  What   *)
(* is: the attempts and the calls that will charge one more stay,          *)
(* together, below the limit and the number of threads.                    *)

FailingVerdicts == FeedbackVerdicts \ {"passed"}

\* The calls under way that will charge an attempt to plan i.
Charging(i) ==
    {c \in Verifiers : phaseCall[c] # None /\ phaseCall[c].plan = i /\ phaseCall[c].what \in FailingVerdicts}

\* A plan that goes on has attempts and budget left.
ActiveHasRoom ==
    \A i \in KnownPlans :
        plans[i].status = "active" => plans[i].attempts < plans[i].limit /\ plans[i].remaining > 0

ChargesAreBounded ==
    \A i \in KnownPlans :
        plans[i].attempts + Cardinality(Charging(i)) < plans[i].limit + Cardinality(Verifiers)

\* Directives and feedback are of plans that exist.
CallsAreOfPlans ==
    \A c \in Verifiers :
        phaseCall[c] # None /\ phaseCall[c].what # "started" => plans[phaseCall[c].plan] # None

PhaseInv == PhaseTypeOK /\ CallsAreOfPlans /\ ActiveHasRoom /\ ChargesAreBounded

-----------------------------------------------------------------------------
LEMMA ChargingIsFinite ==
    \A i : /\ Charging(i) \subseteq Verifiers /\ IsFiniteSet(Charging(i))
           /\ Cardinality(Charging(i)) \in Nat /\ Cardinality(Verifiers) \in Nat
           /\ Cardinality(Charging(i)) <= Cardinality(Verifiers)
<1> SUFFICES ASSUME NEW i
             PROVE  /\ Charging(i) \subseteq Verifiers /\ IsFiniteSet(Charging(i))
                    /\ Cardinality(Charging(i)) \in Nat /\ Cardinality(Verifiers) \in Nat
                    /\ Cardinality(Charging(i)) <= Cardinality(Verifiers)
    OBVIOUS
<1>1. Charging(i) \subseteq Verifiers
    BY DEF Charging
<1>2. IsFiniteSet(Charging(i)) /\ Cardinality(Charging(i)) <= Cardinality(Verifiers)
    BY <1>1, PhaseAssumption, FS_Subset
<1>3. Cardinality(Charging(i)) \in Nat
    BY <1>2, FS_CardinalityType
<1>4. Cardinality(Verifiers) \in Nat
    BY PhaseAssumption, FS_CardinalityType
<1> QED
    BY <1>1, <1>2, <1>3, <1>4

\* What one event makes of a plan.
LEMMA OnePhaseEvent ==
    ASSUME NEW plan, NEW event \in PhaseEvent,
           event.what # "started" => plan \in PhasePlan,
           event.what # "started" /\ plan.status = "active" =>
               plan.attempts < plan.limit /\ plan.remaining > 0
    PROVE  LET after == AfterEvent(plan, event) IN
           /\ after \in PhasePlan
           /\ after.status = "active" => after.attempts < after.limit /\ after.remaining > 0
           /\ event.what = "started" => after.attempts = 0
           /\ event.what \in FailingVerdicts =>
                  after.attempts = plan.attempts + 1 /\ after.limit = plan.limit
           /\ event.what # "started" /\ event.what \notin FailingVerdicts =>
                  after.attempts = plan.attempts /\ after.limit = plan.limit
<1> DEFINE after == AfterEvent(plan, event)
<1>1. CASE event.what = "started"
    <2>1. after = NewPlan(event.after, event.limit)
        BY <1>1 DEF AfterEvent
    <2>2. event.after \in Budgets /\ event.limit \in AttemptLimits
        BY <1>1 DEF PhaseEvent, FeedbackVerdicts
    <2>3. event.after \in Nat \ {0} /\ event.limit \in Nat \ {0}
        BY <2>2, PhaseAssumption
    <2>4. event.what \notin FailingVerdicts
        BY <1>1 DEF FailingVerdicts, FeedbackVerdicts
    <2> QED
        BY <1>1, <2>1, <2>2, <2>3, <2>4 DEF NewPlan, PhasePlan, Phases
<1>2. CASE event.what = "directive"
    <2>1. after = [plan EXCEPT !.phase = event.phase] /\ event.phase \in Phases
        BY <1>2 DEF AfterEvent, PhaseEvent, FeedbackVerdicts
    <2>2. event.what \notin FailingVerdicts
        BY <1>2 DEF FailingVerdicts, FeedbackVerdicts
    <2> QED
        BY <1>2, <2>1, <2>2 DEF PhasePlan
<1>3. CASE event.what = "passed"
    <2>1. after = [plan EXCEPT !.status = "passed", !.phase = "verification"]
        BY <1>3 DEF AfterEvent
    <2>2. event.what \notin FailingVerdicts
        BY <1>3 DEF FailingVerdicts
    <2> QED
        BY <1>3, <2>1, <2>2 DEF PhasePlan, Phases
<1>4. CASE event.what \in FailingVerdicts
    <2>1. after = AfterFailure(plan, event.what, event.after)
        BY <1>4 DEF AfterEvent, FailingVerdicts, FeedbackVerdicts
    <2>2. event.after \in Nat /\ event.what # "started"
        BY <1>4 DEF PhaseEvent, FailingVerdicts, FeedbackVerdicts
    <2>3. plan \in PhasePlan /\ plan.limit \in Nat /\ plan.attempts \in Nat
        BY <2>2, PhaseAssumption DEF PhasePlan
    <2> DEFINE stops == event.what = "blocked" \/ plan.attempts + 1 >= plan.limit \/ event.after = 0
    <2>4. after = [plan EXCEPT !.attempts = @ + 1, !.remaining = event.after,
                               !.status = IF stops THEN "blocked" ELSE "active",
                               !.phase = IF stops THEN "verification" ELSE "execution"]
        BY <2>1 DEF AfterFailure
    <2>5. /\ after.attempts = plan.attempts + 1 /\ after.limit = plan.limit
          /\ after.remaining = event.after
          /\ after.status = IF stops THEN "blocked" ELSE "active"
        BY <2>3, <2>4 DEF PhasePlan
    <2>parts. /\ (IF stops THEN "blocked" ELSE "active") \in {"active", "passed", "blocked"}
          /\ (IF stops THEN "verification" ELSE "execution") \in Phases
          /\ plan.attempts + 1 \in Nat
        BY <2>3 DEF Phases
    <2>6. after \in PhasePlan
        <3> HIDE DEF stops
        <3> QED
            BY <2>2, <2>3, <2>4, <2>parts DEF PhasePlan
    <2> HIDE DEF after
    <2>7. after.status = "active" => after.attempts < after.limit /\ after.remaining > 0
        BY <2>2, <2>3, <2>5
    <2> QED
        BY <1>4, <2>2, <2>5, <2>6, <2>7 DEF after
<1>5. event.what \in {"started", "directive", "passed"} \cup FailingVerdicts
    BY DEF PhaseEvent, FailingVerdicts
<1> QED
    BY <1>1, <1>2, <1>3, <1>4, <1>5

LEMMA PhaseInitially == PhaseInit => PhaseInv
<1> SUFFICES ASSUME PhaseInit PROVE PhaseInv
    OBVIOUS
<1>0. 0 \in 0 .. MaxPhaseCalls
    BY PhaseAssumption
<1>1. PhaseTypeOK
    BY <1>0 DEF PhaseInit, PhaseTypeOK
<1>2. KnownPlans = {}
    BY DEF PhaseInit, KnownPlans
<1> QED
    BY <1>1, <1>2 DEF PhaseInv, ActiveHasRoom, ChargesAreBounded, CallsAreOfPlans, PhaseInit

\* A call that begins leaves the plans alone; it charges an active plan only,
\* and that one has an attempt left.
LEMMA BeginKeeps ==
    ASSUME PhaseInv, NEW c \in Verifiers, NEW call \in PhaseEvent,
           BeginPhase(c, call), UNCHANGED <<plans, restarts>>,
           call.what # "started" =>
               plans[call.plan] # None /\ plans[call.plan].status = "active"
    PROVE  PhaseInv'
<1>1. PhaseTypeOK'
    BY PhaseAssumption DEF PhaseInv, PhaseTypeOK, BeginPhase
<1>2. ActiveHasRoom'
    BY DEF PhaseInv, ActiveHasRoom, KnownPlans
<1>4. CallsAreOfPlans'
    BY DEF BeginPhase, PhaseInv, CallsAreOfPlans, PhaseTypeOK
<1>3. ChargesAreBounded'
    <2> SUFFICES ASSUME NEW i \in KnownPlans'
                 PROVE  plans[i].attempts + Cardinality(Charging(i)') < plans[i].limit + Cardinality(Verifiers)
        BY DEF ChargesAreBounded
    <2>1. i \in KnownPlans /\ i \in PlanIds /\ plans[i] \in PhasePlan
        BY DEF KnownPlans, PhaseInv, PhaseTypeOK
    <2>2. plans[i].attempts \in Nat /\ plans[i].limit \in Nat
        BY <2>1, PhaseAssumption DEF PhasePlan
    <2>3. CASE call.what \in FailingVerdicts /\ call.plan = i
        <3>1. plans[i].attempts < plans[i].limit
            BY <2>1, <2>3 DEF PhaseInv, ActiveHasRoom, FailingVerdicts, FeedbackVerdicts
        <3>2. Charging(i)' \subseteq Verifiers
            BY DEF Charging
        <3>3. Cardinality(Charging(i)') <= Cardinality(Verifiers) /\ Cardinality(Charging(i)') \in Nat
            BY <3>2, PhaseAssumption, FS_Subset, FS_CardinalityType
        <3> QED
            BY <2>2, <3>1, <3>3, ChargingIsFinite
    <2>4. CASE ~(call.what \in FailingVerdicts /\ call.plan = i)
        <3>1. Charging(i)' \subseteq Charging(i)
            <4> SUFFICES ASSUME NEW d \in Charging(i)' PROVE d \in Charging(i)
                OBVIOUS
            <4>1. phaseCall' = [phaseCall EXCEPT ![c] = call] /\ phaseCall \in [Verifiers -> PhaseEvent \cup {None}]
                BY DEF BeginPhase, PhaseInv, PhaseTypeOK
            <4>2. d \in Verifiers /\ phaseCall'[d] # None /\ phaseCall'[d].plan = i
                  /\ phaseCall'[d].what \in FailingVerdicts
                BY DEF Charging
            <4>3. d # c
                BY <2>4, <4>1, <4>2
            <4> QED
                BY <4>1, <4>2, <4>3 DEF Charging
        <3>2. Cardinality(Charging(i)') <= Cardinality(Charging(i)) /\ Cardinality(Charging(i)') \in Nat
            BY <3>1, ChargingIsFinite, FS_Subset, FS_CardinalityType
        <3>3. plans[i].attempts + Cardinality(Charging(i)) < plans[i].limit + Cardinality(Verifiers)
            BY <2>1 DEF PhaseInv, ChargesAreBounded
        <3> QED
            BY <2>2, <3>2, <3>3, ChargingIsFinite
    <2> QED
        BY <2>3, <2>4
<1> QED
    BY <1>1, <1>2, <1>3, <1>4 DEF PhaseInv

LEMMA PhaseStep == PhaseInv /\ [PhaseNext]_phaseVars => PhaseInv'
<1> SUFFICES ASSUME PhaseInv, [PhaseNext]_phaseVars PROVE PhaseInv'
    OBVIOUS
<1> USE DEF PhaseInv
<1>1. ASSUME NEW c \in Verifiers, StartStep(c) PROVE PhaseInv'
    <2>1. PICK i \in PlanIds, budget \in Budgets, limit \in AttemptLimits : StartPlan(c, i, budget, limit)
        BY <1>1 DEF StartStep
    <2> DEFINE call == [plan |-> i, what |-> "started", phase |-> None, after |-> budget, limit |-> limit]
    <2>2. call \in PhaseEvent
        BY DEF PhaseEvent
    <2>3. BeginPhase(c, call) /\ UNCHANGED <<plans, restarts>>
        BY <2>1 DEF StartPlan
    <2>4. call.what = "started"
        OBVIOUS
    <2> HIDE DEF call
    <2> QED
        BY <2>2, <2>3, <2>4, BeginKeeps
<1>2. ASSUME NEW c \in Verifiers, DirectStep(c) PROVE PhaseInv'
    <2>1. PICK i \in PlanIds, phase \in Phases : Direct(c, i, phase)
        BY <1>2 DEF DirectStep
    <2> DEFINE call == [plan |-> i, what |-> "directive", phase |-> phase, after |-> 0, limit |-> 0]
    <2>2. call \in PhaseEvent
        BY DEF PhaseEvent
    <2>3. BeginPhase(c, call) /\ UNCHANGED <<plans, restarts>>
        BY <2>1 DEF Direct
    <2>4. call.plan = i /\ plans[i] # None /\ plans[i].status = "active"
        BY <2>1 DEF Direct
    <2> HIDE DEF call
    <2> QED
        BY <2>2, <2>3, <2>4, BeginKeeps
<1>3. ASSUME NEW c \in Verifiers, VerifyStep(c) PROVE PhaseInv'
    <2>1. PICK i \in PlanIds, verdict \in FeedbackVerdicts :
              plans[i] # None /\ \E after \in 0 .. plans[i].remaining : Verify(c, i, verdict, after)
        BY <1>3 DEF VerifyStep
    <2>2. PICK after \in 0 .. plans[i].remaining : Verify(c, i, verdict, after)
        BY <2>1
    <2> DEFINE call == [plan |-> i, what |-> verdict, phase |-> None, after |-> after, limit |-> 0]
    <2>3. plans[i] \in PhasePlan
        BY <2>1 DEF PhaseTypeOK
    <2>4. after \in Nat
        BY <2>3 DEF PhasePlan
    <2>5. call \in PhaseEvent
        BY <2>4 DEF PhaseEvent
    <2>6. BeginPhase(c, call) /\ UNCHANGED <<plans, restarts>> /\ plans[i].status = "active"
        BY <2>2 DEF Verify
    <2>7. call.plan = i
        OBVIOUS
    <2> HIDE DEF call
    <2> QED
        BY <2>1, <2>5, <2>6, <2>7, BeginKeeps
<1>4. ASSUME NEW c \in Verifiers, AppendPhase(c) PROVE PhaseInv'
    <2>0. PICK event, i : event = phaseCall[c] /\ i = event.plan
        OBVIOUS
    <2>1. event \in PhaseEvent /\ i \in PlanIds
        BY <1>4, <2>0 DEF AppendPhase, PhaseTypeOK, PhaseEvent
    <2>2. plans' = [plans EXCEPT ![i] = AfterEvent(plans[i], event)]
        BY <1>4, <2>0 DEF AppendPhase
    <2>frame. /\ phaseCall' = [phaseCall EXCEPT ![c] = None] /\ UNCHANGED <<phaseCalls, phaseRaced>>
          /\ restarts' \in Nat
        BY <1>4 DEF AppendPhase, PhaseTypeOK
    <2>3. \A j \in PlanIds : j # i => plans'[j] = plans[j]
        BY <2>2 DEF PhaseTypeOK
    <2>4. plans'[i] = AfterEvent(plans[i], event)
        BY <2>1, <2>2 DEF PhaseTypeOK
    <2>5. \A j : /\ Charging(j)' \subseteq Charging(j)
                 /\ Cardinality(Charging(j)') \in Nat
                 /\ Cardinality(Charging(j)') <= Cardinality(Charging(j))
        <3> SUFFICES ASSUME NEW j
                     PROVE  /\ Charging(j)' \subseteq Charging(j)
                            /\ Cardinality(Charging(j)') \in Nat
                            /\ Cardinality(Charging(j)') <= Cardinality(Charging(j))
            OBVIOUS
        <3>1. Charging(j)' \subseteq Charging(j)
            BY <2>frame DEF Charging, PhaseTypeOK
        <3> QED
            BY <3>1, ChargingIsFinite, FS_Subset, FS_CardinalityType
    <2>6. event.what \in FailingVerdicts =>
              Cardinality(Charging(i)') = Cardinality(Charging(i)) - 1
        <3> SUFFICES ASSUME event.what \in FailingVerdicts
                     PROVE  Cardinality(Charging(i)') = Cardinality(Charging(i)) - 1
            OBVIOUS
        <3>1. c \in Charging(i)
            BY <1>4, <2>0 DEF Charging, AppendPhase
        <3>2. Charging(i)' = Charging(i) \ {c}
            BY <2>frame DEF Charging, PhaseTypeOK
        <3> QED
            BY <3>1, <3>2, ChargingIsFinite, FS_RemoveElement
    <2>kind. plans[i] = None \/ plans[i] \in PhasePlan
        BY <2>1 DEF PhaseTypeOK
    <2>exists. event.what # "started" => plans[i] \in PhasePlan
        BY <1>4, <2>0, <2>kind DEF AppendPhase, CallsAreOfPlans
    <2> DEFINE after == AfterEvent(plans[i], event)
    <2>room. plans[i] \in PhasePlan /\ plans[i].status = "active" =>
              plans[i].attempts < plans[i].limit /\ plans[i].remaining > 0
        BY <2>1, NoneIsNoPlan DEF ActiveHasRoom, KnownPlans
    <2>made.
          /\ after \in PhasePlan
          /\ after.status = "active" => after.attempts < after.limit /\ after.remaining > 0
          /\ event.what = "started" => after.attempts = 0
          /\ event.what \in FailingVerdicts =>
                 after.attempts = plans[i].attempts + 1 /\ after.limit = plans[i].limit
          /\ event.what # "started" /\ event.what \notin FailingVerdicts =>
                 after.attempts = plans[i].attempts /\ after.limit = plans[i].limit
        BY <2>1, <2>exists, <2>room, OnePhaseEvent
    <2>7. after \in PhasePlan
        BY <2>made
    <2>8. \A j \in PlanIds : plans[j] # None => plans'[j] # None
        BY <2>3, <2>4, <2>7, NoneIsNoPlan
    <2>9. PhaseTypeOK'
        BY <2>1, <2>2, <2>frame, <2>7 DEF PhaseTypeOK
    <2>10. CallsAreOfPlans'
        <3> SUFFICES ASSUME NEW d \in Verifiers, phaseCall'[d] # None, phaseCall'[d].what # "started"
                     PROVE  plans'[phaseCall'[d].plan] # None
            BY DEF CallsAreOfPlans
        <3>1. phaseCall'[d] = phaseCall[d]
            BY <2>frame DEF PhaseTypeOK
        <3>2. phaseCall[d].plan \in PlanIds
            BY <3>1 DEF PhaseTypeOK, PhaseEvent
        <3> QED
            BY <3>1, <3>2, <2>8 DEF CallsAreOfPlans
    <2>11. after.status = "active" => after.attempts < after.limit /\ after.remaining > 0
        BY <2>made
    <2>12. ActiveHasRoom'
        BY <2>3, <2>4, <2>11 DEF ActiveHasRoom, KnownPlans
    <2>13. after.attempts + Cardinality(Charging(i)') < after.limit + Cardinality(Verifiers)
        <3> HIDE DEF after
        <3>1. after.limit \in Nat \ {0}
            BY <2>made, PhaseAssumption DEF PhasePlan
        <3>2. CASE event.what = "started"
            BY <3>1, <3>2, <2>5, <2>made, ChargingIsFinite
        <3>3. ASSUME event.what # "started"
              PROVE  /\ plans[i].attempts \in Nat
                     /\ plans[i].attempts + Cardinality(Charging(i)) < plans[i].limit + Cardinality(Verifiers)
            BY <2>1, <2>exists, <3>3, NoneIsNoPlan DEF ChargesAreBounded, KnownPlans, PhasePlan
        <3>4. CASE event.what \in FailingVerdicts
            <4>1. event.what # "started"
                BY <3>4 DEF FailingVerdicts, FeedbackVerdicts
            <4> QED
                BY <3>1, <3>3, <3>4, <4>1, <2>6, <2>made, ChargingIsFinite
        <3>5. CASE event.what # "started" /\ event.what \notin FailingVerdicts
            BY <3>1, <3>3, <3>5, <2>5, <2>made, ChargingIsFinite
        <3> QED
            BY <3>2, <3>4, <3>5
    <2>14. ChargesAreBounded'
        <3> SUFFICES ASSUME NEW j \in KnownPlans'
                     PROVE  plans'[j].attempts + Cardinality(Charging(j)')
                                < plans'[j].limit + Cardinality(Verifiers)
            BY DEF ChargesAreBounded
        <3>1. CASE j = i
            BY <3>1, <2>4, <2>13
        <3>2. CASE j # i
            <4>1. j \in KnownPlans /\ plans'[j] = plans[j] /\ plans[j] \in PhasePlan
                BY <3>2, <2>3 DEF KnownPlans, PhaseTypeOK
            <4>2. plans[j].attempts \in Nat /\ plans[j].limit \in Nat
                BY <4>1, PhaseAssumption DEF PhasePlan
            <4>3. plans[j].attempts + Cardinality(Charging(j)) < plans[j].limit + Cardinality(Verifiers)
                BY <4>1 DEF ChargesAreBounded
            <4> QED
                BY <4>1, <4>2, <4>3, <2>5, ChargingIsFinite
        <3> QED
            BY <3>1, <3>2
    <2> QED
        BY <2>9, <2>10, <2>12, <2>14
<1>5. CASE UNCHANGED phaseVars
    <2>1. \A i : Charging(i)' = Charging(i)
        BY <1>5 DEF phaseVars, Charging
    <2> QED
        BY <1>5, <2>1 DEF phaseVars, PhaseTypeOK, ActiveHasRoom, ChargesAreBounded, CallsAreOfPlans, KnownPlans
<1> QED
    BY <1>1, <1>2, <1>3, <1>4, <1>5 DEF PhaseNext

\* A plan that goes on has attempts and budget left, whatever calls overlap,
\* and the attempts of a plan never reach its limit and the number of threads
\* together.
THEOREM PlansBounded == PhaseSpec => []PlansAreBounded
<1>1. PhaseInv => PlansAreBounded
    <2> SUFFICES ASSUME PhaseInv, NEW i \in KnownPlans
                 PROVE  /\ plans[i].status = "active" =>
                               plans[i].attempts < plans[i].limit /\ plans[i].remaining > 0
                        /\ plans[i].attempts < plans[i].limit + Cardinality(Verifiers)
        BY DEF PlansAreBounded
    <2>1. plans[i] \in PhasePlan
        BY DEF PhaseInv, PhaseTypeOK, KnownPlans
    <2>2. plans[i].attempts \in Nat /\ plans[i].limit \in Nat
        BY <2>1, PhaseAssumption DEF PhasePlan
    <2> QED
        BY <2>2, ChargingIsFinite DEF PhaseInv, ActiveHasRoom, ChargesAreBounded
<1> QED
    BY <1>1, PhaseInitially, PhaseStep, PTL DEF PhaseSpec

-----------------------------------------------------------------------------
(* The speed envelope.  The classification looks at single facts only, so  *)
(* its promises need no invariant beyond the type of the facts.            *)

\* Whatever is restated, the facts stay facts.
THEOREM FactsStayFacts == EnvelopeSpec => []EnvelopeTypeOK
<1>1. EnvelopeInit => EnvelopeTypeOK
  BY DEF EnvelopeInit, EnvelopeTypeOK
<1>2. EnvelopeTypeOK /\ [Restate]_facts => EnvelopeTypeOK'
  <2> SUFFICES ASSUME facts \in Facts, [Restate]_facts
               PROVE  facts' \in Facts
    BY DEF EnvelopeTypeOK
  <2>1. CASE Restate
    <3>1. PICK field \in DOMAIN Values : \E value \in Values[field] :
                 facts' = [facts EXCEPT ![field] = value]
      BY <2>1 DEF Restate
    <3>2. PICK value \in Values[field] : facts' = [facts EXCEPT ![field] = value]
      BY <3>1
    <3> QED
      BY <3>1, <3>2 DEF Values, Facts
  <2>2. CASE UNCHANGED facts
    BY <2>2
  <2> QED
    BY <2>1, <2>2
<1> QED
  BY <1>1, <1>2, PTL DEF EnvelopeSpec

\* What is exposed at g stays exposed at f, and what asks for a gate asks for
\* one still, when the same work is stated for the worse.
LEMMA WorseStaysExposed ==
    ASSUME NEW f \in Facts, NEW g \in Facts, AtLeastAsExposed(f, g)
    PROVE  /\ HighExposure(f) => HighExposure(g)
           /\ GateNeeded(f) => GateNeeded(g)
           /\ HumanJudgment(f) => HumanJudgment(g)
           /\ Sampled(f) => Sampled(g) \/ GateNeeded(g)
<1>1. HighExposure(f) => HighExposure(g)
  BY DEF Facts, Risks, AtLeastAsExposed, NoLowerRisk, RiskRank, HighExposure, CustomerSideEffect, ExternalDeployments, Deployments
<1>2. GateNeeded(f) => GateNeeded(g)
  BY <1>1 DEF Facts, Risks, AtLeastAsExposed, NoLowerRisk, RiskRank, GateNeeded, CustomerSideEffect, ExternalDeployments, Deployments
<1>3. HumanJudgment(f) => HumanJudgment(g)
  BY DEF Facts, AtLeastAsExposed, HumanJudgment
<1>4. Sampled(f) => Sampled(g) \/ GateNeeded(g)
  BY DEF Facts, Risks, AtLeastAsExposed, NoLowerRisk, RiskRank, Sampled, GateNeeded, ExternalDeployments, Deployments
<1> QED
  BY <1>1, <1>2, <1>3, <1>4

\* The class of the worse statement is no faster.
LEMMA WorseIsNoFaster ==
    ASSUME NEW f \in Facts, NEW g \in Facts, AtLeastAsExposed(f, g)
    PROVE  Speed[SpeedClass(g)] <= Speed[SpeedClass(f)]
<1>1. CASE f.harm \/ f.residual
  BY <1>1 DEF AtLeastAsExposed, SpeedClass, Speed
<1>2. CASE ~(f.harm \/ f.residual) /\ GateNeeded(f)
  BY <1>2, WorseStaysExposed DEF SpeedClass, Speed
<1>3. CASE ~(f.harm \/ f.residual \/ GateNeeded(f)) /\ HumanJudgment(f)
  BY <1>3, WorseStaysExposed DEF SpeedClass, Speed
<1>4. CASE ~(f.harm \/ f.residual \/ GateNeeded(f) \/ HumanJudgment(f))
  BY <1>4, WorseStaysExposed DEF SpeedClass, Speed
<1> QED
  BY <1>1, <1>2, <1>3, <1>4

\* Restating one fact for the worse never makes the work faster, but for a
\* medium risk that is restated as high.
THEOREM RestatingIsMonotone == EnvelopeSpec => ExposureIsNeverFaster
<1>1. EnvelopeTypeOK /\ EnvelopeTypeOK'
        => [AtLeastAsExposed(facts, facts') => Speed[SpeedClass(facts')] <= Speed[SpeedClass(facts)]]_facts
  BY WorseIsNoFaster DEF EnvelopeTypeOK
<1> QED
  BY <1>1, FactsStayFacts, PTL DEF EnvelopeSpec, ExposureIsNeverFaster

\* Work that goes out, or cannot be taken back at high exposure, waits for a
\* gate, or is past it and in closure.
THEOREM ExposureIsGated == EnvelopeSpec => []ExposedWorkIsGated
<1>1. EnvelopeTypeOK => ExposedWorkIsGated
  BY DEF EnvelopeTypeOK, ExposedWorkIsGated, Facts, HighExposure, SpeedClass, GateNeeded, CustomerSideEffect, ExternalDeployments
<1> QED
  BY <1>1, FactsStayFacts, PTL
=============================================================================
