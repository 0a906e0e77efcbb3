------------------------- MODULE AgentDaemonProofs -------------------------
(***************************************************************************)
(* Theorems about AgentDaemon and the GoalsInbox under it: a goal is       *)
(* handed out once, its file and the principal's words survive, no agent   *)
(* is run for what the principal has not approved, the two together        *)
(* implement OwnedGoals, and a subject has no more open gates than there   *)
(* were daemons to ask.                                                    *)
(***************************************************************************)
EXTENDS AgentDaemon, FiniteSetTheorems, WellFoundedInduction, TLAPS

-----------------------------------------------------------------------------
(* The inbox.                                                              *)

\* Stages in which the session has written its claim.
Holding == {"read", "open_active", "fill_active", "unlink_pending"} \cup Past

Full(file) == file \in Text /\ file.body

InboxShape ==
    /\ pending \in [Goals -> {Written, Absent}]
    /\ active \in [Goals -> File] /\ done \in [Goals -> File]
    /\ claims \in [Goals -> Claim \cup {Absent, Torn}]
    /\ job \in [Sessions -> Job \cup {NoJob}]
    /\ wins \in [Goals -> Nat]

\* A file that is removed has its successor.
Follows(s) ==
    LET g == job[s].goal IN
    /\ job[s].at \in Past => pending[g] = Absent
    /\ job[s].at \in {"fill_active", "unlink_pending"} => pending[g] = Absent \/ active[g] # Absent
    /\ job[s].at \in {"fill_done", "unlink_active", "release", "unlink_claim"} => done[g] # Absent

Survives(g) == pending[g] # Absent \/ active[g] # Absent \/ done[g] # Absent

FilesFollow ==
    /\ \A s \in Sessions : job[s].goal \in Goals => Follows(s)
    /\ \A g \in Goals : Survives(g)

\* Whoever removed the pending file is alone in that, and has not been counted.
OneRemoves ==
    /\ \A g \in Goals : wins[g] <= 1 /\ (pending[g] # Absent => wins[g] = 0)
    /\ \A s \in Sessions : job[s].at = "parse" =>
          /\ wins[job[s].goal] = 0
          /\ \A r \in Sessions : job[r].at = "parse" /\ job[r].goal = job[s].goal => r = s

\* Unless the goal was disturbed, who holds its claim is alone with it.
HoldersAreAlone ==
    \A s \in Sessions : job[s].at \in Holding /\ job[s].goal \notin disturbed =>
        /\ claims[job[s].goal] = [session |-> s, live |-> TRUE]
        /\ \A r \in Sessions \ {s} : job[r].goal = job[s].goal => job[r].at = "claim"

\* And the words are in the file that comes before, in the session's memory,
\* or in the file that comes after.
Carries(s) ==
    LET g == job[s].goal IN
    /\ job[s].at \in {"open_active", "fill_active", "unlink_pending"} => pending[g] # Absent
    /\ job[s].at \in {"open_active", "fill_active", "open_done", "fill_done", "open_blocked", "fill_blocked"} =>
          job[s].text.body
    /\ job[s].at \in {"unlink_pending", "parse", "working", "open_done", "fill_done", "open_blocked"} =>
          Full(active[g])
    /\ job[s].at \in {"unlink_active", "release", "unlink_claim"} => Full(done[g])

Kept(g) ==
    \/ pending[g] # Absent \/ Full(active[g]) \/ Full(done[g])
    \/ \E s \in Sessions : job[s].goal = g /\ job[s].at = "fill_blocked"

WordsAreCarried ==
    /\ \A s \in Sessions : job[s].goal \in Goals \ disturbed => Carries(s)
    /\ \A g \in Goals \ disturbed : Kept(g)

InboxInv == InboxShape /\ FilesFollow /\ OneRemoves /\ HoldersAreAlone /\ WordsAreCarried

LEMMA StageIsOfAJob ==
    ASSUME InboxShape, NEW s \in Sessions
    PROVE  /\ job[s].at \in Stages <=> job[s] \in Job
           /\ job[s].goal \in Goals <=> job[s] \in Job
           /\ job[s] \in Job \cup {NoJob}
<1>1. job[s] \in Job \cup {NoJob}
    BY DEF InboxShape
<1>2. NoJob.at \notin Stages /\ NoJob.goal \notin Goals
    BY InboxAssumption DEF NoJob
<1>3. \A j \in Job : j.at \in Stages /\ j.goal \in Goals
    BY DEF Job
<1> QED
    BY <1>1, <1>2, <1>3

LEMMA OneJobMoves ==
    ASSUME InboxShape, NEW s \in Sessions, NEW new \in Job \cup {NoJob}, job' = [job EXCEPT ![s] = new]
    PROVE  /\ job'[s] = new /\ job' \in [Sessions -> Job \cup {NoJob}]
           /\ \A r \in Sessions \ {s} : job'[r] = job[r]
BY DEF InboxShape

LEMMA GoesOn ==
    ASSUME InboxShape, NEW s \in Sessions, job[s] \in Job, NEW at \in Stages, Goes(s, at)
    PROVE  /\ job'[s] \in Job /\ job'[s].at = at
           /\ job'[s].goal = job[s].goal /\ job'[s].text = job[s].text
           /\ job' \in [Sessions -> Job \cup {NoJob}]
           /\ \A r \in Sessions \ {s} : job'[r] = job[r]
<1> DEFINE new == [job[s] EXCEPT !.at = at]
<1>1. new \in Job /\ new.at = at /\ new.goal = job[s].goal /\ new.text = job[s].text
    BY DEF Job
<1>2. job' = [job EXCEPT ![s] = new]
    BY DEF Goes
<1> HIDE DEF new
<1> QED
    BY <1>1, <1>2, OneJobMoves

\* Nobody is left of a call but its files.
LEMMA LeavesOff ==
    ASSUME InboxShape, NEW s \in Sessions, Leaves(s)
    PROVE  /\ job'[s] = NoJob /\ job'[s].at \notin Stages /\ job'[s].goal \notin Goals
           /\ job' \in [Sessions -> Job \cup {NoJob}]
           /\ \A r \in Sessions \ {s} : job'[r] = job[r]
<1>1. NoJob.at \notin Stages /\ NoJob.goal \notin Goals
    BY InboxAssumption DEF NoJob
<1>2. job' = [job EXCEPT ![s] = NoJob]
    BY DEF Leaves
<1> HIDE DEF NoJob
<1> QED
    BY <1>1, <1>2, OneJobMoves

LEMMA InboxStart == InboxInit /\ disturbed = {} => InboxInv
<1> SUFFICES ASSUME InboxInit PROVE InboxInv
    OBVIOUS
<1>1. Written \in Text /\ Written # Absent /\ Written.body
    <2>1. Written \in Text /\ Written.body
        BY DEF Written, Text
    <2> HIDE DEF Written
    <2> QED
        BY <2>1, InboxAssumption
<1>2. \A s \in Sessions : job[s].at \notin Stages /\ job[s].goal \notin Goals
    BY InboxAssumption DEF InboxInit, NoJob
<1>3. Past \subseteq Stages /\ Holding \subseteq Stages
    BY DEF Past, Holding, Stages
<1> HIDE DEF Written
<1>4. InboxShape
    BY <1>1 DEF InboxInit, InboxShape, File
<1>5. FilesFollow
    BY <1>1, <1>2, <1>3 DEF InboxInit, FilesFollow, Survives
<1>6. OneRemoves
    BY <1>1, <1>2 DEF InboxInit, OneRemoves, Stages
<1>7. HoldersAreAlone
    BY <1>2, <1>3 DEF HoldersAreAlone
<1>8. WordsAreCarried
    BY <1>1, <1>2 DEF InboxInit, WordsAreCarried, Kept
<1> QED
    BY <1>4, <1>5, <1>6, <1>7, <1>8 DEF InboxInv

\* A call that ends early, or dies, leaves all files as they are; if it was
\* in the middle of a rewrite the goal is disturbed.
LEMMA LeavingKeeps ==
    ASSUME InboxInv, NEW s \in Sessions, Leaves(s), UNCHANGED <<pending, active, done, claims, wins>>,
           \/ UNCHANGED disturbed /\ job[s].at # "fill_blocked"
           \/ disturbed' = disturbed \cup {job[s].goal}
    PROVE  InboxInv'
<1>1. /\ job'[s].at \notin Stages /\ job'[s].goal \notin Goals
      /\ job' \in [Sessions -> Job \cup {NoJob}]
      /\ \A r \in Sessions \ {s} : job'[r] = job[r]
    BY LeavesOff DEF InboxInv
<1>2. Past \subseteq Stages /\ Holding \subseteq Stages
    BY DEF Past, Holding, Stages
<1>3. InboxShape'
    BY <1>1 DEF InboxInv, InboxShape
<1>4. FilesFollow'
    BY <1>1, <1>2 DEF InboxInv, FilesFollow, Follows, Survives
<1>5. OneRemoves'
    BY <1>1 DEF InboxInv, OneRemoves, Stages
<1>6. HoldersAreAlone'
    <2> SUFFICES ASSUME NEW r \in Sessions, job'[r].at \in Holding, job'[r].goal \notin disturbed'
                 PROVE  /\ claims'[job'[r].goal] = [session |-> r, live |-> TRUE]
                        /\ \A q \in Sessions \ {r} : job'[q].goal = job'[r].goal => job'[q].at = "claim"
        BY DEF HoldersAreAlone
    <2>1. r # s /\ job'[r] = job[r] /\ job[r].goal \notin disturbed
        BY <1>1, <1>2
    <2>2. /\ claims[job[r].goal] = [session |-> r, live |-> TRUE]
          /\ \A q \in Sessions \ {r} : job[q].goal = job[r].goal => job[q].at = "claim"
        BY <2>1 DEF InboxInv, HoldersAreAlone
    <2>3. job[r].goal \in Goals
        BY <1>2, <2>1, StageIsOfAJob DEF InboxInv
    <2> QED
        BY <1>1, <2>1, <2>2, <2>3
<1>7. WordsAreCarried'
    BY <1>1 DEF InboxInv, WordsAreCarried, Carries, Kept
<1> QED
    BY <1>3, <1>4, <1>5, <1>6, <1>7 DEF InboxInv

\* Who has written its claim goes on with it.
LEMMA HolderGoesOn ==
    ASSUME InboxInv, NEW s \in Sessions, job[s].at \in Holding, job'[s].goal = job[s].goal,
           \A r \in Sessions \ {s} : job'[r] = job[r], UNCHANGED <<claims, disturbed>>
    PROVE  HoldersAreAlone'
<1>1. job[s].at # "claim" /\ HoldersAreAlone
    BY DEF Holding, Past, InboxInv
<1> SUFFICES ASSUME NEW r \in Sessions, job'[r].at \in Holding, job'[r].goal \notin disturbed
             PROVE  /\ claims[job'[r].goal] = [session |-> r, live |-> TRUE]
                    /\ \A q \in Sessions \ {r} : job'[q].goal = job'[r].goal => job'[q].at = "claim"
    BY DEF HoldersAreAlone
<1>2. CASE r = s
    BY <1>1, <1>2 DEF HoldersAreAlone
<1>3. CASE r # s
    BY <1>1, <1>3 DEF HoldersAreAlone
<1> QED
    BY <1>2, <1>3

\* Whoever else is called for the goal of a holder has only begun.
LEMMA OthersHaveBegun ==
    ASSUME InboxInv, NEW s \in Sessions, job[s].at \in Holding, job[s].goal \notin disturbed
    PROVE  \A r \in Sessions \ {s} : job[r].goal = job[s].goal => job[r].at = "claim"
BY DEF InboxInv, HoldersAreAlone

\* A holder moves its goal on: the goals of others are as they were, and the
\* files of its own appear and disappear in their order.
LEMMA HolderMoves ==
    ASSUME InboxInv, NEW s \in Sessions, job[s] \in Job, job[s].at \in Holding, job'[s].goal = job[s].goal,
           \A r \in Sessions \ {s} : job'[r] = job[r], UNCHANGED <<claims, disturbed>>,
           \A h \in Goals \ {job[s].goal} :
               pending'[h] = pending[h] /\ active'[h] = active[h] /\ done'[h] = done[h],
           pending[job[s].goal] = Absent => pending'[job[s].goal] = Absent,
           active[job[s].goal] # Absent => active'[job[s].goal] # Absent \/ pending'[job[s].goal] = Absent,
           done[job[s].goal] # Absent => done'[job[s].goal] # Absent,
           InboxShape', Follows(s)', Survives(job[s].goal)', OneRemoves',
           job[s].goal \notin disturbed => Carries(s)' /\ Kept(job[s].goal)'
    PROVE  InboxInv'
<1> DEFINE g == job[s].goal
<1>1. \A r \in Sessions \ {s} : g \notin disturbed /\ job[r].goal = g => job[r].at = "claim"
    BY OthersHaveBegun
<1>2. HoldersAreAlone'
    BY HolderGoesOn
<1>3. \A r \in Sessions \ {s} : job'[r].goal \in Goals \ disturbed' => Carries(r)'
    BY <1>1 DEF InboxInv, WordsAreCarried, Carries
<1>4. \A h \in Goals \ disturbed' : Kept(h)'
    BY DEF InboxInv, WordsAreCarried, Kept
<1>5. WordsAreCarried'
    BY <1>3, <1>4 DEF WordsAreCarried
<1>6. \A r \in Sessions \ {s} : job'[r].goal \in Goals => Follows(r)'
    BY DEF InboxInv, FilesFollow, Follows
<1>7. \A h \in Goals : Survives(h)'
    BY DEF InboxInv, FilesFollow, Survives
<1>8. FilesFollow'
    BY <1>6, <1>7 DEF FilesFollow
<1> QED
    BY <1>2, <1>5, <1>8 DEF InboxInv

LEMMA OpenActiveKeeps ==
    ASSUME InboxInv, NEW s \in Sessions, OpenActive(s), UNCHANGED disturbed
    PROVE  InboxInv'
<1> DEFINE g == job[s].goal
<1>1. job[s] \in Job /\ job[s].at = "open_active" /\ g \in Goals /\ InboxShape
    BY StageIsOfAJob DEF OpenActive, At, Stages, InboxInv
<1>2. Goes(s, "fill_active") /\ "fill_active" \in Stages
    BY <1>1 DEF OpenActive, Stages
<1>3. /\ job'[s] \in Job /\ job'[s].at = "fill_active" /\ job'[s].goal = g /\ job'[s].text = job[s].text
      /\ job' \in [Sessions -> Job \cup {NoJob}] /\ \A r \in Sessions \ {s} : job'[r] = job[r]
    BY <1>1, <1>2, GoesOn
<1>4. active' = [active EXCEPT ![g] = Torn] /\ UNCHANGED <<pending, done, claims, wins>>
    BY <1>1 DEF OpenActive
<1>5. job[s].at \in Holding
    BY <1>1 DEF Holding, Past
<1> HIDE DEF g
<1>6. InboxShape'
    BY <1>1, <1>3, <1>4, InboxAssumption DEF InboxShape, File, Job
<1>7. Follows(s)' /\ Survives(g)'
    BY <1>1, <1>3, <1>4, BaseAssumption, InboxAssumption DEF InboxInv, FilesFollow, Follows, Survives, InboxShape, Past, Job, g
<1>8. OneRemoves'
    BY <1>1, <1>3, <1>4, InboxAssumption DEF InboxInv, FilesFollow, Follows, OneRemoves, InboxShape, Past, g
<1>9. g \notin disturbed => Carries(s)' /\ Kept(g)'
    BY <1>1, <1>3, <1>4, InboxAssumption DEF InboxInv, WordsAreCarried, Carries, Kept, InboxShape, Full, Job, g
<1> QED
    BY <1>1, <1>3, <1>4, <1>5, <1>6, <1>7, <1>8, <1>9, BaseAssumption, InboxAssumption, HolderMoves DEF InboxShape, InboxInv, FilesFollow, Follows, Past, Job, g

LEMMA FillActiveKeeps ==
    ASSUME InboxInv, NEW s \in Sessions, FillActive(s), UNCHANGED disturbed
    PROVE  InboxInv'
<1> DEFINE g == job[s].goal
<1>1. job[s] \in Job /\ job[s].at = "fill_active" /\ g \in Goals /\ InboxShape
    BY StageIsOfAJob DEF FillActive, At, Stages, InboxInv
<1>2. Goes(s, "unlink_pending") /\ "unlink_pending" \in Stages
    BY <1>1 DEF FillActive, Stages
<1>3. /\ job'[s] \in Job /\ job'[s].at = "unlink_pending" /\ job'[s].goal = g /\ job'[s].text = job[s].text
      /\ job' \in [Sessions -> Job \cup {NoJob}] /\ \A r \in Sessions \ {s} : job'[r] = job[r]
    BY <1>1, <1>2, GoesOn
<1>4. active' = [active EXCEPT ![g] = job[s].text] /\ UNCHANGED <<pending, done, claims, wins>>
    BY <1>1 DEF FillActive
<1>5. job[s].at \in Holding
    BY <1>1 DEF Holding, Past
<1> HIDE DEF g
<1>6. InboxShape'
    BY <1>1, <1>3, <1>4, InboxAssumption DEF InboxShape, File, Job
<1>7. Follows(s)' /\ Survives(g)'
    BY <1>1, <1>3, <1>4, BaseAssumption, InboxAssumption DEF InboxInv, FilesFollow, Follows, Survives, InboxShape, Past, Job, g
<1>8. OneRemoves'
    BY <1>1, <1>3, <1>4, InboxAssumption DEF InboxInv, FilesFollow, Follows, OneRemoves, InboxShape, Past, g
<1>9. g \notin disturbed => Carries(s)' /\ Kept(g)'
    BY <1>1, <1>3, <1>4, InboxAssumption DEF InboxInv, WordsAreCarried, Carries, Kept, InboxShape, Full, Job, g
<1> QED
    BY <1>1, <1>3, <1>4, <1>5, <1>6, <1>7, <1>8, <1>9, BaseAssumption, InboxAssumption, HolderMoves DEF InboxShape, InboxInv, FilesFollow, Follows, Past, Job, g

LEMMA UnlinkPendingKeeps ==
    ASSUME InboxInv, NEW s \in Sessions, UnlinkPending(s), UNCHANGED disturbed
    PROVE  InboxInv'
<1> DEFINE g == job[s].goal
<1>1. job[s] \in Job /\ job[s].at = "unlink_pending" /\ g \in Goals /\ InboxShape
    BY StageIsOfAJob DEF UnlinkPending, At, Stages, InboxInv
<1>2. CASE pending[g] = Absent
    <2>1. Leaves(s) /\ UNCHANGED <<pending, active, done, claims, wins>>
        BY <1>1, <1>2 DEF UnlinkPending, InboxShape
    <2> QED
        BY <1>1, <2>1, LeavingKeeps
<1>3. CASE ~(pending[g] = Absent)
    <2>1. Goes(s, "parse") /\ "parse" \in Stages
        BY <1>1, <1>3 DEF UnlinkPending, Stages
    <2>2. /\ job'[s] \in Job /\ job'[s].at = "parse" /\ job'[s].goal = g /\ job'[s].text = job[s].text
          /\ job' \in [Sessions -> Job \cup {NoJob}] /\ \A r \in Sessions \ {s} : job'[r] = job[r]
        BY <1>1, <2>1, GoesOn
    <2>3. pending' = [pending EXCEPT ![g] = Absent] /\ UNCHANGED <<active, done, claims, wins>>
        BY <1>1, <1>3 DEF UnlinkPending
    <2>4. job[s].at \in Holding
        BY <1>1 DEF Holding, Past
    <2> HIDE DEF g
    <2>5. InboxShape'
        BY <1>1, <1>3, <2>2, <2>3, InboxAssumption DEF InboxShape, File, Job
    <2>6. Follows(s)' /\ Survives(g)'
        BY <1>1, <1>3, <2>2, <2>3, BaseAssumption, InboxAssumption DEF InboxInv, FilesFollow, Follows, Survives, InboxShape, Past, Job, g
    <2>7. OneRemoves'
        BY <1>1, <1>3, <2>2, <2>3, InboxAssumption DEF InboxInv, FilesFollow, Follows, OneRemoves, InboxShape, Past, g
    <2>8. g \notin disturbed => Carries(s)' /\ Kept(g)'
        BY <1>1, <1>3, <2>2, <2>3, InboxAssumption DEF InboxInv, WordsAreCarried, Carries, Kept, InboxShape, Full, Job, g
    <2> QED
        BY <1>1, <1>3, <2>2, <2>3, <2>4, <2>5, <2>6, <2>7, <2>8, BaseAssumption, InboxAssumption, HolderMoves DEF InboxShape, InboxInv, FilesFollow, Follows, Past, Job, g
<1> QED
    BY <1>2, <1>3

LEMMA ReturnGoalKeeps ==
    ASSUME InboxInv, NEW s \in Sessions, ReturnGoal(s), UNCHANGED disturbed
    PROVE  InboxInv'
<1> DEFINE g == job[s].goal
<1>1. job[s] \in Job /\ job[s].at = "parse" /\ g \in Goals /\ InboxShape
    BY StageIsOfAJob DEF ReturnGoal, At, Stages, InboxInv
<1>2. CASE active[g] = Absent
    <2>1. Leaves(s) /\ UNCHANGED <<pending, active, done, claims, wins>>
        BY <1>1, <1>2 DEF ReturnGoal, InboxShape
    <2> QED
        BY <1>1, <2>1, LeavingKeeps
<1>3. CASE ~(active[g] = Absent)
    <2>1. Goes(s, "working") /\ "working" \in Stages
        BY <1>1, <1>3 DEF ReturnGoal, Stages
    <2>2. /\ job'[s] \in Job /\ job'[s].at = "working" /\ job'[s].goal = g /\ job'[s].text = job[s].text
          /\ job' \in [Sessions -> Job \cup {NoJob}] /\ \A r \in Sessions \ {s} : job'[r] = job[r]
        BY <1>1, <2>1, GoesOn
    <2>3. wins' = [wins EXCEPT ![g] = @ + 1] /\ UNCHANGED <<pending, active, done, claims>>
        BY <1>1, <1>3 DEF ReturnGoal
    <2>4. job[s].at \in Holding
        BY <1>1 DEF Holding, Past
    <2> HIDE DEF g
    <2>5. InboxShape'
        BY <1>1, <1>3, <2>2, <2>3, InboxAssumption DEF InboxShape, File, Job
    <2>6. Follows(s)' /\ Survives(g)'
        BY <1>1, <1>3, <2>2, <2>3, BaseAssumption, InboxAssumption DEF InboxInv, FilesFollow, Follows, Survives, InboxShape, Past, Job, g
    <2>7. OneRemoves'
        BY <1>1, <1>3, <2>2, <2>3, InboxAssumption DEF InboxInv, FilesFollow, Follows, OneRemoves, InboxShape, Past, g
    <2>8. g \notin disturbed => Carries(s)' /\ Kept(g)'
        BY <1>1, <1>3, <2>2, <2>3, InboxAssumption DEF InboxInv, WordsAreCarried, Carries, Kept, InboxShape, Full, Job, g
    <2> QED
        BY <1>1, <1>3, <2>2, <2>3, <2>4, <2>5, <2>6, <2>7, <2>8, BaseAssumption, InboxAssumption, HolderMoves DEF InboxShape, InboxInv, FilesFollow, Follows, Past, Job, g
<1> QED
    BY <1>2, <1>3

LEMMA BeginDoneKeeps ==
    ASSUME InboxInv, NEW s \in Sessions, BeginDone(s), UNCHANGED disturbed
    PROVE  InboxInv'
<1> DEFINE g == job[s].goal
<1>1. job[s] \in Job /\ job[s].at = "working" /\ g \in Goals /\ InboxShape
    BY StageIsOfAJob DEF BeginDone, At, Stages, InboxInv
<1>2. CASE active[g] = Absent
    <2>1. Leaves(s) /\ UNCHANGED <<pending, active, done, claims, wins>>
        BY <1>1, <1>2 DEF BeginDone, InboxShape
    <2> QED
        BY <1>1, <2>1, LeavingKeeps
<1>3. CASE ~(active[g] = Absent)
    <2>1. PICK new \in Job : /\ job' = [job EXCEPT ![s] = new]
                             /\ new.at = "open_done" /\ new.goal = g /\ new.text = ReadText(active[g])
        <3> DEFINE after == [job[s] EXCEPT !.at = "open_done", !.text = ReadText(active[g])]
        <3>1. ReadText(active[g]) \in Text
            BY <1>1, <1>3 DEF ReadText, InboxShape, File, NoText, Text
        <3>2. after \in Job /\ after.at = "open_done" /\ after.goal = g /\ after.text = ReadText(active[g])
            BY <1>1, <3>1 DEF Job, Stages
        <3>3. job' = [job EXCEPT ![s] = after]
            BY <1>1, <1>3 DEF BeginDone
        <3> HIDE DEF after
        <3> QED
            BY <3>2, <3>3
    <2>2. /\ job'[s] \in Job /\ job'[s].at = "open_done" /\ job'[s].goal = g /\ job'[s].text = ReadText(active[g])
          /\ job' \in [Sessions -> Job \cup {NoJob}] /\ \A r \in Sessions \ {s} : job'[r] = job[r]
        BY <1>1, <2>1, OneJobMoves
    <2>3. UNCHANGED <<pending, active, done, claims, wins>>
        BY <1>1, <1>3 DEF BeginDone
    <2>4. g \notin disturbed => Full(active[g]) /\ job'[s].text.body
        <3>1. g \notin disturbed => Full(active[g])
            BY <1>1 DEF InboxInv, WordsAreCarried, Carries
        <3>2. Full(active[g]) => active[g] # Torn
            BY InboxAssumption DEF Full
        <3> QED
            BY <1>1, <1>3, <2>2, <2>3, <3>1, <3>2 DEF Full, ReadText
    <2>5. job[s].at \in Holding
        BY <1>1 DEF Holding, Past
    <2> HIDE DEF g
    <2>6. InboxShape'
        BY <1>1, <1>3, <2>2, <2>3, <2>4, InboxAssumption DEF InboxShape, File, Job
    <2>7. Follows(s)' /\ Survives(g)'
        BY <1>1, <1>3, <2>2, <2>3, <2>4, BaseAssumption, InboxAssumption DEF InboxInv, FilesFollow, Follows, Survives, InboxShape, Past, Job, g
    <2>8. OneRemoves'
        BY <1>1, <1>3, <2>2, <2>3, <2>4, InboxAssumption DEF InboxInv, FilesFollow, Follows, OneRemoves, InboxShape, Past, g
    <2>9. g \notin disturbed => Carries(s)' /\ Kept(g)'
        BY <1>1, <1>3, <2>2, <2>3, <2>4, InboxAssumption DEF InboxInv, WordsAreCarried, Carries, Kept, InboxShape, Full, Job, g
    <2> QED
        BY <1>1, <1>3, <2>2, <2>3, <2>4, <2>5, <2>6, <2>7, <2>8, <2>9, BaseAssumption, InboxAssumption, HolderMoves DEF InboxShape, InboxInv, FilesFollow, Follows, Past, Job, g
<1> QED
    BY <1>2, <1>3

LEMMA OpenDoneKeeps ==
    ASSUME InboxInv, NEW s \in Sessions, OpenDone(s), UNCHANGED disturbed
    PROVE  InboxInv'
<1> DEFINE g == job[s].goal
<1>1. job[s] \in Job /\ job[s].at = "open_done" /\ g \in Goals /\ InboxShape
    BY StageIsOfAJob DEF OpenDone, At, Stages, InboxInv
<1>2. Goes(s, "fill_done") /\ "fill_done" \in Stages
    BY <1>1 DEF OpenDone, Stages
<1>3. /\ job'[s] \in Job /\ job'[s].at = "fill_done" /\ job'[s].goal = g /\ job'[s].text = job[s].text
      /\ job' \in [Sessions -> Job \cup {NoJob}] /\ \A r \in Sessions \ {s} : job'[r] = job[r]
    BY <1>1, <1>2, GoesOn
<1>4. done' = [done EXCEPT ![g] = Torn] /\ UNCHANGED <<pending, active, claims, wins>>
    BY <1>1 DEF OpenDone
<1>5. job[s].at \in Holding
    BY <1>1 DEF Holding, Past
<1> HIDE DEF g
<1>6. InboxShape'
    BY <1>1, <1>3, <1>4, InboxAssumption DEF InboxShape, File, Job
<1>7. Follows(s)' /\ Survives(g)'
    BY <1>1, <1>3, <1>4, BaseAssumption, InboxAssumption DEF InboxInv, FilesFollow, Follows, Survives, InboxShape, Past, Job, g
<1>8. OneRemoves'
    BY <1>1, <1>3, <1>4, InboxAssumption DEF InboxInv, FilesFollow, Follows, OneRemoves, InboxShape, Past, g
<1>9. g \notin disturbed => Carries(s)' /\ Kept(g)'
    BY <1>1, <1>3, <1>4, InboxAssumption DEF InboxInv, WordsAreCarried, Carries, Kept, InboxShape, Full, Job, g
<1> QED
    BY <1>1, <1>3, <1>4, <1>5, <1>6, <1>7, <1>8, <1>9, BaseAssumption, InboxAssumption, HolderMoves DEF InboxShape, InboxInv, FilesFollow, Follows, Past, Job, g

LEMMA FillDoneKeeps ==
    ASSUME InboxInv, NEW s \in Sessions, FillDone(s), UNCHANGED disturbed
    PROVE  InboxInv'
<1> DEFINE g == job[s].goal
<1>1. job[s] \in Job /\ job[s].at = "fill_done" /\ g \in Goals /\ InboxShape
    BY StageIsOfAJob DEF FillDone, At, Stages, InboxInv
<1>2. Goes(s, "unlink_active") /\ "unlink_active" \in Stages
    BY <1>1 DEF FillDone, Stages
<1>3. /\ job'[s] \in Job /\ job'[s].at = "unlink_active" /\ job'[s].goal = g /\ job'[s].text = job[s].text
      /\ job' \in [Sessions -> Job \cup {NoJob}] /\ \A r \in Sessions \ {s} : job'[r] = job[r]
    BY <1>1, <1>2, GoesOn
<1>4. done' = [done EXCEPT ![g] = job[s].text] /\ UNCHANGED <<pending, active, claims, wins>>
    BY <1>1 DEF FillDone
<1>5. job[s].at \in Holding
    BY <1>1 DEF Holding, Past
<1> HIDE DEF g
<1>6. InboxShape'
    BY <1>1, <1>3, <1>4, InboxAssumption DEF InboxShape, File, Job
<1>7. Follows(s)' /\ Survives(g)'
    BY <1>1, <1>3, <1>4, BaseAssumption, InboxAssumption DEF InboxInv, FilesFollow, Follows, Survives, InboxShape, Past, Job, g
<1>8. OneRemoves'
    BY <1>1, <1>3, <1>4, InboxAssumption DEF InboxInv, FilesFollow, Follows, OneRemoves, InboxShape, Past, g
<1>9. g \notin disturbed => Carries(s)' /\ Kept(g)'
    BY <1>1, <1>3, <1>4, InboxAssumption DEF InboxInv, WordsAreCarried, Carries, Kept, InboxShape, Full, Job, g
<1> QED
    BY <1>1, <1>3, <1>4, <1>5, <1>6, <1>7, <1>8, <1>9, BaseAssumption, InboxAssumption, HolderMoves DEF InboxShape, InboxInv, FilesFollow, Follows, Past, Job, g

LEMMA UnlinkActiveKeeps ==
    ASSUME InboxInv, NEW s \in Sessions, UnlinkActive(s), UNCHANGED disturbed
    PROVE  InboxInv'
<1> DEFINE g == job[s].goal
<1>1. job[s] \in Job /\ job[s].at = "unlink_active" /\ g \in Goals /\ InboxShape
    BY StageIsOfAJob DEF UnlinkActive, At, Stages, InboxInv
<1>2. CASE active[g] = Absent
    <2>1. Leaves(s) /\ UNCHANGED <<pending, active, done, claims, wins>>
        BY <1>1, <1>2 DEF UnlinkActive, InboxShape
    <2> QED
        BY <1>1, <2>1, LeavingKeeps
<1>3. CASE ~(active[g] = Absent)
    <2>1. Goes(s, "release") /\ "release" \in Stages
        BY <1>1, <1>3 DEF UnlinkActive, Stages
    <2>2. /\ job'[s] \in Job /\ job'[s].at = "release" /\ job'[s].goal = g /\ job'[s].text = job[s].text
          /\ job' \in [Sessions -> Job \cup {NoJob}] /\ \A r \in Sessions \ {s} : job'[r] = job[r]
        BY <1>1, <2>1, GoesOn
    <2>3. active' = [active EXCEPT ![g] = Absent] /\ UNCHANGED <<pending, done, claims, wins>>
        BY <1>1, <1>3 DEF UnlinkActive
    <2>4. job[s].at \in Holding
        BY <1>1 DEF Holding, Past
    <2> HIDE DEF g
    <2>5. InboxShape'
        BY <1>1, <1>3, <2>2, <2>3, InboxAssumption DEF InboxShape, File, Job
    <2>6. Follows(s)' /\ Survives(g)'
        BY <1>1, <1>3, <2>2, <2>3, BaseAssumption, InboxAssumption DEF InboxInv, FilesFollow, Follows, Survives, InboxShape, Past, Job, g
    <2>7. OneRemoves'
        BY <1>1, <1>3, <2>2, <2>3, InboxAssumption DEF InboxInv, FilesFollow, Follows, OneRemoves, InboxShape, Past, g
    <2>8. g \notin disturbed => Carries(s)' /\ Kept(g)'
        BY <1>1, <1>3, <2>2, <2>3, InboxAssumption DEF InboxInv, WordsAreCarried, Carries, Kept, InboxShape, Full, Job, g
    <2> QED
        BY <1>1, <1>3, <2>2, <2>3, <2>4, <2>5, <2>6, <2>7, <2>8, BaseAssumption, InboxAssumption, HolderMoves DEF InboxShape, InboxInv, FilesFollow, Follows, Past, Job, g
<1> QED
    BY <1>2, <1>3

LEMMA BeginBlockedKeeps ==
    ASSUME InboxInv, NEW s \in Sessions, BeginBlocked(s), UNCHANGED disturbed
    PROVE  InboxInv'
<1> DEFINE g == job[s].goal
<1>1. job[s] \in Job /\ job[s].at = "working" /\ g \in Goals /\ InboxShape
    BY StageIsOfAJob DEF BeginBlocked, At, Stages, InboxInv
<1>2. CASE active[g] = Absent
    <2>1. Leaves(s) /\ UNCHANGED <<pending, active, done, claims, wins>>
        BY <1>1, <1>2 DEF BeginBlocked, InboxShape
    <2> QED
        BY <1>1, <2>1, LeavingKeeps
<1>3. CASE ~(active[g] = Absent)
    <2>1. PICK new \in Job : /\ job' = [job EXCEPT ![s] = new]
                             /\ new.at = "open_blocked" /\ new.goal = g /\ new.text = ReadText(active[g])
        <3> DEFINE after == [job[s] EXCEPT !.at = "open_blocked", !.text = ReadText(active[g])]
        <3>1. ReadText(active[g]) \in Text
            BY <1>1, <1>3 DEF ReadText, InboxShape, File, NoText, Text
        <3>2. after \in Job /\ after.at = "open_blocked" /\ after.goal = g /\ after.text = ReadText(active[g])
            BY <1>1, <3>1 DEF Job, Stages
        <3>3. job' = [job EXCEPT ![s] = after]
            BY <1>1, <1>3 DEF BeginBlocked
        <3> HIDE DEF after
        <3> QED
            BY <3>2, <3>3
    <2>2. /\ job'[s] \in Job /\ job'[s].at = "open_blocked" /\ job'[s].goal = g /\ job'[s].text = ReadText(active[g])
          /\ job' \in [Sessions -> Job \cup {NoJob}] /\ \A r \in Sessions \ {s} : job'[r] = job[r]
        BY <1>1, <2>1, OneJobMoves
    <2>3. UNCHANGED <<pending, active, done, claims, wins>>
        BY <1>1, <1>3 DEF BeginBlocked
    <2>4. g \notin disturbed => Full(active[g]) /\ job'[s].text.body
        <3>1. g \notin disturbed => Full(active[g])
            BY <1>1 DEF InboxInv, WordsAreCarried, Carries
        <3>2. Full(active[g]) => active[g] # Torn
            BY InboxAssumption DEF Full
        <3> QED
            BY <1>1, <1>3, <2>2, <2>3, <3>1, <3>2 DEF Full, ReadText
    <2>5. job[s].at \in Holding
        BY <1>1 DEF Holding, Past
    <2> HIDE DEF g
    <2>6. InboxShape'
        BY <1>1, <1>3, <2>2, <2>3, <2>4, InboxAssumption DEF InboxShape, File, Job
    <2>7. Follows(s)' /\ Survives(g)'
        BY <1>1, <1>3, <2>2, <2>3, <2>4, BaseAssumption, InboxAssumption DEF InboxInv, FilesFollow, Follows, Survives, InboxShape, Past, Job, g
    <2>8. OneRemoves'
        BY <1>1, <1>3, <2>2, <2>3, <2>4, InboxAssumption DEF InboxInv, FilesFollow, Follows, OneRemoves, InboxShape, Past, g
    <2>9. g \notin disturbed => Carries(s)' /\ Kept(g)'
        BY <1>1, <1>3, <2>2, <2>3, <2>4, InboxAssumption DEF InboxInv, WordsAreCarried, Carries, Kept, InboxShape, Full, Job, g
    <2> QED
        BY <1>1, <1>3, <2>2, <2>3, <2>4, <2>5, <2>6, <2>7, <2>8, <2>9, BaseAssumption, InboxAssumption, HolderMoves DEF InboxShape, InboxInv, FilesFollow, Follows, Past, Job, g
<1> QED
    BY <1>2, <1>3

LEMMA OpenBlockedKeeps ==
    ASSUME InboxInv, NEW s \in Sessions, OpenBlocked(s), UNCHANGED disturbed
    PROVE  InboxInv'
<1> DEFINE g == job[s].goal
<1>1. job[s] \in Job /\ job[s].at = "open_blocked" /\ g \in Goals /\ InboxShape
    BY StageIsOfAJob DEF OpenBlocked, At, Stages, InboxInv
<1>2. Goes(s, "fill_blocked") /\ "fill_blocked" \in Stages
    BY <1>1 DEF OpenBlocked, Stages
<1>3. /\ job'[s] \in Job /\ job'[s].at = "fill_blocked" /\ job'[s].goal = g /\ job'[s].text = job[s].text
      /\ job' \in [Sessions -> Job \cup {NoJob}] /\ \A r \in Sessions \ {s} : job'[r] = job[r]
    BY <1>1, <1>2, GoesOn
<1>4. active' = [active EXCEPT ![g] = Torn] /\ UNCHANGED <<pending, done, claims, wins>>
    BY <1>1 DEF OpenBlocked
<1>5. job[s].at \in Holding
    BY <1>1 DEF Holding, Past
<1> HIDE DEF g
<1>6. InboxShape'
    BY <1>1, <1>3, <1>4, InboxAssumption DEF InboxShape, File, Job
<1>7. Follows(s)' /\ Survives(g)'
    BY <1>1, <1>3, <1>4, BaseAssumption, InboxAssumption DEF InboxInv, FilesFollow, Follows, Survives, InboxShape, Past, Job, g
<1>8. OneRemoves'
    BY <1>1, <1>3, <1>4, InboxAssumption DEF InboxInv, FilesFollow, Follows, OneRemoves, InboxShape, Past, g
<1>9. g \notin disturbed => Carries(s)' /\ Kept(g)'
    BY <1>1, <1>3, <1>4, InboxAssumption DEF InboxInv, WordsAreCarried, Carries, Kept, InboxShape, Full, Job, g
<1> QED
    BY <1>1, <1>3, <1>4, <1>5, <1>6, <1>7, <1>8, <1>9, BaseAssumption, InboxAssumption, HolderMoves DEF InboxShape, InboxInv, FilesFollow, Follows, Past, Job, g

LEMMA ReadPendingKeeps ==
    ASSUME InboxInv, NEW s \in Sessions, ReadPending(s), UNCHANGED disturbed
    PROVE  InboxInv'
<1> DEFINE g == job[s].goal
<1>1. job[s] \in Job /\ job[s].at = "read" /\ g \in Goals /\ InboxShape
    BY StageIsOfAJob DEF ReadPending, At, Stages, InboxInv
<1>2. CASE pending[g] = Absent
    <2>1. Leaves(s) /\ UNCHANGED <<pending, active, done, claims, wins>>
        BY <1>1, <1>2 DEF ReadPending, InboxShape
    <2> QED
        BY <1>1, <2>1, LeavingKeeps
<1>3. CASE ~(pending[g] = Absent)
    <2>1. PICK new \in Job : /\ job' = [job EXCEPT ![s] = new]
                             /\ new.at = "open_active" /\ new.goal = g /\ new.text = [ReadText(pending[g]) EXCEPT !.by = s]
        <3> DEFINE after == [job[s] EXCEPT !.at = "open_active", !.text = [ReadText(pending[g]) EXCEPT !.by = s]]
        <3>1. [ReadText(pending[g]) EXCEPT !.by = s] \in Text
            <4>1. pending[g] = Written /\ Written \in Text
                BY <1>1, <1>3 DEF InboxShape, Written, Text
            <4>2. ReadText(pending[g]) = Written
                BY <4>1, InboxAssumption DEF ReadText
            <4> QED
                BY <4>1, <4>2 DEF Text
        <3>2. after \in Job /\ after.at = "open_active" /\ after.goal = g /\ after.text = [ReadText(pending[g]) EXCEPT !.by = s]
            BY <1>1, <3>1 DEF Job, Stages
        <3>3. job' = [job EXCEPT ![s] = after]
            BY <1>1, <1>3 DEF ReadPending
        <3> HIDE DEF after
        <3> QED
            BY <3>2, <3>3
    <2>2. /\ job'[s] \in Job /\ job'[s].at = "open_active" /\ job'[s].goal = g /\ job'[s].text = [ReadText(pending[g]) EXCEPT !.by = s]
          /\ job' \in [Sessions -> Job \cup {NoJob}] /\ \A r \in Sessions \ {s} : job'[r] = job[r]
        BY <1>1, <2>1, OneJobMoves
    <2>3. UNCHANGED <<pending, active, done, claims, wins>>
        BY <1>1, <1>3 DEF ReadPending
    <2>4. job'[s].text.body /\ pending[g] # Absent
        <3>1. pending[g] = Written /\ Written \in Text /\ Written.body
            BY <1>1, <1>3 DEF InboxShape, Written, Text
        <3>2. ReadText(pending[g]) = Written
            BY <3>1, InboxAssumption DEF ReadText
        <3> QED
            BY <1>1, <1>3, <2>2, <2>3, <3>1, <3>2 DEF Text
    <2>5. job[s].at \in Holding
        BY <1>1 DEF Holding, Past
    <2> HIDE DEF g
    <2>6. InboxShape'
        BY <1>1, <1>3, <2>2, <2>3, <2>4, InboxAssumption DEF InboxShape, File, Job
    <2>7. Follows(s)' /\ Survives(g)'
        BY <1>1, <1>3, <2>2, <2>3, <2>4, BaseAssumption, InboxAssumption DEF InboxInv, FilesFollow, Follows, Survives, InboxShape, Past, Job, g
    <2>8. OneRemoves'
        BY <1>1, <1>3, <2>2, <2>3, <2>4, InboxAssumption DEF InboxInv, FilesFollow, Follows, OneRemoves, InboxShape, Past, g
    <2>9. g \notin disturbed => Carries(s)' /\ Kept(g)'
        BY <1>1, <1>3, <2>2, <2>3, <2>4, InboxAssumption DEF InboxInv, WordsAreCarried, Carries, Kept, InboxShape, Full, Job, g
    <2> QED
        BY <1>1, <1>3, <2>2, <2>3, <2>4, <2>5, <2>6, <2>7, <2>8, <2>9, BaseAssumption, InboxAssumption, HolderMoves DEF InboxShape, InboxInv, FilesFollow, Follows, Past, Job, g
<1> QED
    BY <1>2, <1>3

\* Who has not written its claim yet touches no file of a goal.
LEMMA BeginnerMoves ==
    ASSUME InboxInv, NEW s \in Sessions, job[s].at # "fill_blocked",
           job'[s].at \in {"claim", "open_claim", "fill_claim", "read"},
           \A r \in Sessions \ {s} : job'[r] = job[r],
           UNCHANGED <<pending, active, done, wins>>, disturbed \subseteq disturbed',
           InboxShape', HoldersAreAlone'
    PROVE  InboxInv'
<1>1. FilesFollow'
    BY DEF InboxInv, FilesFollow, Follows, Survives, Past
<1>2. OneRemoves'
    BY DEF InboxInv, OneRemoves
<1>3. \A r \in Sessions : job'[r].goal \in Goals \ disturbed' => Carries(r)'
    BY DEF InboxInv, WordsAreCarried, Carries
<1>4. \A h \in Goals \ disturbed' : Kept(h)'
    BY DEF InboxInv, WordsAreCarried, Kept
<1> QED
    BY <1>1, <1>2, <1>3, <1>4 DEF InboxInv, WordsAreCarried

LEMMA BeginClaimKeeps ==
    ASSUME InboxInv, NEW s \in Sessions, NEW g \in Goals, BeginClaim(s, g), UNCHANGED disturbed
    PROVE  InboxInv'
<1> DEFINE new == [at |-> "claim", goal |-> g, text |-> NoText]
<1>1. new \in Job /\ new.at = "claim" /\ new.goal = g
    <2>1. NoText \in Text /\ "claim" \in Stages
        BY DEF NoText, Text, Stages
    <2> QED
        BY <2>1 DEF Job
<1>2. job' = [job EXCEPT ![s] = new] /\ UNCHANGED <<pending, active, done, claims, wins>> /\ job[s] = NoJob
    BY DEF BeginClaim
<1> HIDE DEF new
<1>3. /\ job'[s] = new /\ job' \in [Sessions -> Job \cup {NoJob}]
      /\ \A r \in Sessions \ {s} : job'[r] = job[r]
    BY <1>1, <1>2, OneJobMoves DEF InboxInv
<1>4. InboxShape'
    BY <1>2, <1>3 DEF InboxInv, InboxShape
<1>5. "claim" \notin Holding /\ "fill_blocked" \in Stages
    BY DEF Holding, Past, Stages
<1>6. HoldersAreAlone'
    BY <1>1, <1>2, <1>3, <1>5 DEF InboxInv, HoldersAreAlone
<1>7. job[s].at # "fill_blocked"
    BY <1>2, <1>5, InboxAssumption DEF NoJob
<1> QED
    BY <1>1, <1>2, <1>3, <1>4, <1>6, <1>7, BeginnerMoves

LEMMA ReadClaimKeeps ==
    ASSUME InboxInv, NEW s \in Sessions, ReadClaim(s), UNCHANGED disturbed
    PROVE  InboxInv'
<1> DEFINE g == job[s].goal
<1>1. job[s] \in Job /\ job[s].at = "claim" /\ g \in Goals /\ InboxShape
    BY StageIsOfAJob DEF ReadClaim, At, Stages, InboxInv
<1>2. CASE ~MayClaim(s, g)
    <2>1. Leaves(s) /\ UNCHANGED <<pending, active, done, claims, wins>>
        BY <1>2 DEF ReadClaim
    <2> QED
        BY <1>1, <2>1, LeavingKeeps
<1>3. CASE MayClaim(s, g)
    <2>1. Goes(s, "open_claim") /\ "open_claim" \in Stages /\ UNCHANGED <<pending, active, done, claims, wins>>
        BY <1>3 DEF ReadClaim, Stages
    <2>2. /\ job'[s] \in Job /\ job'[s].at = "open_claim" /\ job'[s].goal = g
          /\ job' \in [Sessions -> Job \cup {NoJob}] /\ \A r \in Sessions \ {s} : job'[r] = job[r]
        BY <1>1, <2>1, GoesOn
    <2>3. InboxShape'
        BY <1>1, <2>1, <2>2 DEF InboxShape
    <2>4. ASSUME NEW r \in Sessions \ {s}, job[r].at \in Holding, job[r].goal = g, g \notin disturbed
          PROVE  FALSE
        <3>1. claims[g] = [session |-> r, live |-> TRUE]
            BY <2>4 DEF InboxInv, HoldersAreAlone
        <3>2. claims[g] \in Claim
            BY <3>1 DEF Claim
        <3>3. claims[g] # Absent
            BY <3>2, InboxAssumption
        <3>4. claims[g].live /\ claims[g].session = r /\ r # s
            BY <2>4, <3>1
        <3> QED
            BY <1>3, <3>3, <3>4 DEF MayClaim
    <2>5. "open_claim" \notin Holding
        BY DEF Holding, Past
    <2> HIDE DEF g
    <2>6. HoldersAreAlone'
        BY <1>1, <2>1, <2>2, <2>4, <2>5 DEF InboxInv, HoldersAreAlone
    <2> QED
        BY <1>1, <2>1, <2>2, <2>3, <2>6, BeginnerMoves
<1> QED
    BY <1>2, <1>3

LEMMA OpenClaimKeeps ==
    ASSUME InboxInv, NEW s \in Sessions, OpenClaim(s), UNCHANGED disturbed
    PROVE  InboxInv'
<1> DEFINE g == job[s].goal
<1>1. job[s] \in Job /\ job[s].at = "open_claim" /\ g \in Goals /\ InboxShape
    BY StageIsOfAJob DEF OpenClaim, At, Stages, InboxInv
<1>2. /\ Goes(s, "fill_claim") /\ "fill_claim" \in Stages /\ UNCHANGED <<pending, active, done, wins>>
      /\ claims' = [claims EXCEPT ![g] = Torn]
    BY DEF OpenClaim, Stages
<1>3. /\ job'[s] \in Job /\ job'[s].at = "fill_claim" /\ job'[s].goal = g
      /\ job' \in [Sessions -> Job \cup {NoJob}] /\ \A r \in Sessions \ {s} : job'[r] = job[r]
    BY <1>1, <1>2, GoesOn
<1> HIDE DEF g
<1>4. InboxShape'
    BY <1>1, <1>2, <1>3 DEF InboxShape
<1>5. ASSUME NEW r \in Sessions \ {s}, job[r].at \in Holding, job[r].goal = g, g \notin disturbed
      PROVE  FALSE
    BY <1>1, <1>5 DEF InboxInv, HoldersAreAlone, g
<1>6. "fill_claim" \notin Holding
    BY DEF Holding, Past
<1>7. HoldersAreAlone'
    BY <1>1, <1>2, <1>3, <1>5, <1>6, StageIsOfAJob DEF InboxInv, InboxShape, HoldersAreAlone
<1> QED
    BY <1>1, <1>2, <1>3, <1>4, <1>7, BeginnerMoves

\* A claim is filled over that of another session only on a disturbed goal.
LEMMA FillClaimKeeps ==
    ASSUME InboxInv, NEW s \in Sessions, FillClaim(s), disturbed \subseteq disturbed',
           (\E r \in Sessions \ {s} : job[r].goal = job[s].goal) => job[s].goal \in disturbed'
    PROVE  InboxInv'
<1> DEFINE g == job[s].goal
<1>1. job[s] \in Job /\ job[s].at = "fill_claim" /\ g \in Goals /\ InboxShape
    BY StageIsOfAJob DEF FillClaim, At, Stages, InboxInv
<1>2. /\ Goes(s, "read") /\ "read" \in Stages /\ UNCHANGED <<pending, active, done, wins>>
      /\ claims' = [claims EXCEPT ![g] = [session |-> s, live |-> TRUE]]
    BY DEF FillClaim, Stages
<1>3. /\ job'[s] \in Job /\ job'[s].at = "read" /\ job'[s].goal = g
      /\ job' \in [Sessions -> Job \cup {NoJob}] /\ \A r \in Sessions \ {s} : job'[r] = job[r]
    BY <1>1, <1>2, GoesOn
<1> HIDE DEF g
<1>4. InboxShape'
    BY <1>1, <1>2, <1>3 DEF InboxShape, Claim
<1>5. ASSUME NEW r \in Sessions, job'[r].at \in Holding, job'[r].goal \notin disturbed'
      PROVE  /\ claims'[job'[r].goal] = [session |-> r, live |-> TRUE]
             /\ \A q \in Sessions \ {r} : job'[q].goal = job'[r].goal => job'[q].at = "claim"
    <2>1. CASE r = s
        BY <1>1, <1>2, <1>3, <1>5, <2>1 DEF InboxShape, g
    <2>2. CASE r # s
        <3>1. job'[r] = job[r] /\ job[r].goal # g
            BY <1>3, <1>5, <2>2 DEF g
        <3>2. job[r].goal \in Goals
            BY <1>1, <1>5, <3>1, StageIsOfAJob DEF Holding, Past, Stages
        <3>3. /\ claims[job[r].goal] = [session |-> r, live |-> TRUE]
              /\ \A q \in Sessions \ {r} : job[q].goal = job[r].goal => job[q].at = "claim"
            BY <1>5, <3>1 DEF InboxInv, HoldersAreAlone
        <3>4. claims'[job[r].goal] = claims[job[r].goal]
            BY <1>1, <1>2, <3>1, <3>2 DEF InboxShape
        <3> QED
            BY <1>3, <3>1, <3>3, <3>4
    <2> QED
        BY <2>1, <2>2
<1>6. HoldersAreAlone'
    BY <1>5 DEF HoldersAreAlone
<1> QED
    BY <1>1, <1>2, <1>3, <1>4, <1>6, BeginnerMoves

LEMMA ReleaseClaimKeeps ==
    ASSUME InboxInv, NEW s \in Sessions, ReleaseClaim(s), UNCHANGED disturbed
    PROVE  InboxInv'
<1> DEFINE g == job[s].goal
<1>1. job[s] \in Job /\ job[s].at = "release" /\ g \in Goals /\ InboxShape
    BY StageIsOfAJob DEF ReleaseClaim, At, Stages, InboxInv
<1>2. UNCHANGED <<pending, active, done, claims, wins>>
    BY DEF ReleaseClaim
<1>3. CASE Leaves(s)
    BY <1>1, <1>2, <1>3, LeavingKeeps
<1>4. CASE Goes(s, "unlink_claim")
    <2>1. "unlink_claim" \in Stages
        BY DEF Stages
    <2>2. /\ job'[s] \in Job /\ job'[s].at = "unlink_claim" /\ job'[s].goal = g /\ job'[s].text = job[s].text
          /\ job' \in [Sessions -> Job \cup {NoJob}] /\ \A r \in Sessions \ {s} : job'[r] = job[r]
        BY <1>1, <1>4, <2>1, GoesOn
    <2> HIDE DEF g
    <2>3. InboxShape'
        BY <1>1, <1>2, <2>2 DEF InboxShape
    <2>4. FilesFollow'
        BY <1>1, <1>2, <2>2 DEF InboxInv, FilesFollow, Follows, Survives, Past, g
    <2>5. OneRemoves'
        BY <1>1, <1>2, <2>2 DEF InboxInv, OneRemoves
    <2>6. HoldersAreAlone'
        BY <1>1, <1>2, <2>2 DEF InboxInv, HoldersAreAlone, Holding, Past, g
    <2>7. WordsAreCarried'
        BY <1>1, <1>2, <2>2 DEF InboxInv, WordsAreCarried, Carries, Kept, g
    <2> QED
        BY <2>3, <2>4, <2>5, <2>6, <2>7 DEF InboxInv
<1> QED
    BY <1>3, <1>4 DEF ReleaseClaim

LEMMA UnlinkClaimKeeps ==
    ASSUME InboxInv, NEW s \in Sessions, UnlinkClaim(s), UNCHANGED disturbed
    PROVE  InboxInv'
<1> DEFINE g == job[s].goal
<1>1. job[s] \in Job /\ job[s].at = "unlink_claim" /\ g \in Goals /\ InboxShape
    BY StageIsOfAJob DEF UnlinkClaim, At, Stages, InboxInv
<1>2. /\ job'[s].at \notin Stages /\ job'[s].goal \notin Goals
      /\ job' \in [Sessions -> Job \cup {NoJob}] /\ \A r \in Sessions \ {s} : job'[r] = job[r]
    BY <1>1, LeavesOff DEF UnlinkClaim
<1>3. /\ UNCHANGED <<pending, active, done, wins>>
      /\ claims' \in [Goals -> Claim \cup {Absent, Torn}] /\ \A h \in Goals \ {g} : claims'[h] = claims[h]
    BY <1>1 DEF UnlinkClaim, InboxShape
<1>4. Past \subseteq Stages /\ Holding \subseteq Stages
    BY DEF Past, Holding, Stages
<1>5. \A r \in Sessions \ {s} : job[r].at \in Holding /\ job[r].goal = g => g \in disturbed
    BY <1>1 DEF InboxInv, HoldersAreAlone
<1> HIDE DEF g
<1>6. InboxShape'
    BY <1>1, <1>2, <1>3 DEF InboxShape
<1>7. FilesFollow'
    BY <1>2, <1>3, <1>4 DEF InboxInv, FilesFollow, Follows, Survives, Stages
<1>8. OneRemoves'
    BY <1>2, <1>3 DEF InboxInv, OneRemoves, Stages
<1>9. HoldersAreAlone'
    BY <1>1, <1>2, <1>3, <1>4, <1>5, StageIsOfAJob DEF InboxInv, HoldersAreAlone
<1>10. WordsAreCarried'
    BY <1>1, <1>2, <1>3 DEF InboxInv, WordsAreCarried, Carries, Kept
<1> QED
    BY <1>6, <1>7, <1>8, <1>9, <1>10 DEF InboxInv

LEMMA FillBlockedKeeps ==
    ASSUME InboxInv, NEW s \in Sessions, FillBlocked(s), UNCHANGED disturbed
    PROVE  InboxInv'
<1> DEFINE g == job[s].goal
<1>1. job[s] \in Job /\ job[s].at = "fill_blocked" /\ g \in Goals /\ InboxShape /\ job[s].text \in Text
    BY StageIsOfAJob DEF FillBlocked, At, Stages, InboxInv, Job
<1>2. /\ job'[s].at \notin Stages /\ job'[s].goal \notin Goals
      /\ job' \in [Sessions -> Job \cup {NoJob}] /\ \A r \in Sessions \ {s} : job'[r] = job[r]
    BY <1>1, LeavesOff DEF FillBlocked
<1>3. UNCHANGED <<pending, done, claims, wins>> /\ active' = [active EXCEPT ![g] = job[s].text]
    BY DEF FillBlocked
<1>4. Past \subseteq Stages /\ Holding \subseteq Stages
    BY DEF Past, Holding, Stages
<1>5. \A r \in Sessions \ {s} : g \notin disturbed /\ job[r].goal = g => job[r].at = "claim"
    BY <1>1, OthersHaveBegun DEF Holding, Past
<1>6. g \notin disturbed => job[s].text.body
    BY <1>1 DEF InboxInv, WordsAreCarried, Carries
<1> HIDE DEF g
<1>7. InboxShape'
    BY <1>1, <1>2, <1>3 DEF InboxShape, File
<1>8. active'[g] # Absent /\ \A h \in Goals \ {g} : active'[h] = active[h]
    BY <1>1, <1>3, InboxAssumption DEF InboxShape
<1>9. FilesFollow'
    BY <1>1, <1>2, <1>3, <1>4, <1>8, StageIsOfAJob DEF InboxInv, FilesFollow, Follows, Survives, Stages
<1>10. OneRemoves'
    BY <1>2, <1>3 DEF InboxInv, OneRemoves, Stages
<1>11. HoldersAreAlone'
    <2> SUFFICES ASSUME NEW r \in Sessions, job'[r].at \in Holding, job'[r].goal \notin disturbed'
                 PROVE  /\ claims'[job'[r].goal] = [session |-> r, live |-> TRUE]
                        /\ \A q \in Sessions \ {r} : job'[q].goal = job'[r].goal => job'[q].at = "claim"
        BY DEF HoldersAreAlone
    <2>1. r # s /\ job'[r] = job[r] /\ job[r].goal \in Goals
        BY <1>1, <1>2, <1>4, StageIsOfAJob
    <2>2. /\ claims[job[r].goal] = [session |-> r, live |-> TRUE]
          /\ \A q \in Sessions \ {r} : job[q].goal = job[r].goal => job[q].at = "claim"
        BY <2>1 DEF InboxInv, HoldersAreAlone
    <2> QED
        BY <1>2, <1>3, <2>1, <2>2
<1>12. \A r \in Sessions : job'[r].goal \in Goals \ disturbed' => Carries(r)'
    BY <1>1, <1>2, <1>3, <1>5, <1>8 DEF InboxInv, WordsAreCarried, Carries
<1>13. \A h \in Goals \ disturbed' : Kept(h)'
    <2>1. g \notin disturbed => Full(active'[g])
        BY <1>1, <1>3, <1>6 DEF Full, InboxShape
    <2> QED
        BY <1>1, <1>2, <1>3, <1>8, <2>1 DEF InboxInv, WordsAreCarried, Kept, g
<1> QED
    BY <1>7, <1>9, <1>10, <1>11, <1>12, <1>13 DEF InboxInv, WordsAreCarried

\* A claim expires when its session no longer works on the goal.
LEMMA ExpireClaimKeeps ==
    ASSUME InboxInv, NEW g \in Goals, ExpireClaim(g), UNCHANGED disturbed
    PROVE  InboxInv'
<1>1. /\ UNCHANGED <<pending, active, done, job, wins>>
      /\ claims' = [claims EXCEPT ![g].live = FALSE] /\ claims[g] \in Claim
      /\ job[claims[g].session].goal # g /\ InboxShape
    BY DEF ExpireClaim, InboxInv
<1>2. claims' \in [Goals -> Claim \cup {Absent, Torn}] /\ \A h \in Goals \ {g} : claims'[h] = claims[h]
    BY <1>1 DEF InboxShape, Claim
<1>3. InboxShape'
    BY <1>1, <1>2 DEF InboxShape
<1>4. HoldersAreAlone'
    <2>1. \A r \in Sessions : job[r].at \in Holding => job[r].goal \in Goals
        BY <1>1, StageIsOfAJob DEF Holding, Past, Stages
    <2> QED
        BY <1>1, <1>2, <2>1 DEF InboxInv, HoldersAreAlone
<1> QED
    BY <1>1, <1>3, <1>4 DEF InboxInv, FilesFollow, Follows, Survives, OneRemoves, WordsAreCarried, Carries, Kept

-----------------------------------------------------------------------------
(* The daemon.                                                             *)

Stage == {"new", "rest", "look", "gate", "fill", "wait", "resolve", "handle",
          "claim", "run", "close", "mark", "over"}

\* The stages of a tick that has a candidate, and of one that has a gate.
Choosing == {"gate", "fill", "wait", "resolve", "handle", "claim", "run", "close", "mark"}
AtAGate == {"fill", "wait", "resolve", "handle"}

DaemonShape ==
    /\ daemon \in [Sessions -> Process]
    /\ gates \in Seq(Gate) /\ Len(gates) <= MaxGates
    /\ resolved \in Seq(Resolution)
    /\ marks \subseteq GateId \X {"dispatched", "json.dispatched"}
    /\ chat \in Seq(Message)
    /\ service \in Resolving \cup {None}
    /\ control \in {"STOP", "PAUSE", None}
    /\ told \in 0 .. MaxMessages
    /\ approvals \subseteq DOMAIN gates
    /\ runs \in Seq([cand : Candidate, unattended : BOOLEAN])
    /\ disturbed \subseteq Goals

\* A gate about a gate comes after it.
GatesDeepen == \A n \in DOMAIN gates : gates[n].depth < n

\* A candidate that is a gate is about that gate's goal.
Found(opened, cand) ==
    /\ cand \in Candidate /\ cand.gate \in DOMAIN opened \cup {None}
    /\ cand.gate # None => opened[cand.gate].goal = cand.goal

\* The gate that a goal is asked about by; one that is asked about a gate may,
\* as 80 characters do not tell, be another goal's.
Asks(opened, n, cand) ==
    n \in DOMAIN opened /\ (cand.gate = None => opened[n].goal = cand.goal)

\* What a tick has found, and asks about, is there.
Ticks(opened, p) ==
    /\ p.at \in Choosing => Found(opened, p.cand)
    /\ p.at \in AtAGate => Asks(opened, p.gate, p.cand)
    /\ p.at = "resolve" => p.option \in Option
    /\ p.at = "mark" => p.cand.gate # None

TicksHaveSubjects == \A s \in Sessions : Ticks(gates, daemon[s])

VerdictsHaveGates ==
    /\ \A i \in DOMAIN resolved : resolved[i].gate \in DOMAIN gates
    /\ service # None => service.verdict.gate \in DOMAIN gates
    /\ \A i \in DOMAIN chat : chat[i].gate \in DOMAIN gates \cup {None}

TickInv == DaemonShape /\ GatesDeepen /\ TicksHaveSubjects /\ VerdictsHaveGates

\* The authority that an agent is run on.
Backed(opened, approved, goal, unattended) ==
    \/ Scope[goal] = "auto" /\ unattended
    \/ \E n \in approved : opened[n].goal = goal

Vouched(approved, verdict) == verdict.option = "approve" => verdict.gate \in approved

TickIsBacked(opened, approved, p) ==
    /\ p.at = "resolve" /\ p.option = "approve" => p.gate \in approved
    /\ p.at \in Choosing /\ p.cand.gate # None => p.cand.gate \in approved
    /\ p.at \in {"claim", "run"} => Backed(opened, approved, p.cand.goal, p.unattended)

TicksAreBacked == \A s \in Sessions : TickIsBacked(gates, approvals, daemon[s])

VerdictsAreVouched ==
    /\ \A i \in DOMAIN resolved : Vouched(approvals, resolved[i])
    /\ service # None => Vouched(approvals, service.verdict)
    /\ \A i \in DOMAIN chat :
          chat[i].gate # None /\ (chat[i].say = "APPROVE" => chat[i].gate \in approvals)

RunsAreBacked ==
    \A i \in DOMAIN runs : Backed(gates, approvals, runs[i].cand.goal, runs[i].unattended)

AuthorityInv == TicksAreBacked /\ VerdictsAreVouched /\ RunsAreBacked

-----------------------------------------------------------------------------
(* Every step of the daemons, on the inbox.                                *)

LEMMA InboxRests ==
    ASSUME InboxInv, UNCHANGED <<inboxVars, disturbed>>
    PROVE  InboxInv'
BY DEF inboxVars, InboxInv, InboxShape, FilesFollow, Follows, Survives, OneRemoves, HoldersAreAlone,
       WordsAreCarried, Carries, Kept

LEMMA ClaimStepKeeps ==
    ASSUME InboxInv, NEW s \in Sessions, ClaimStep(s),
           disturbed' = IF At(s, "fill_claim") /\ \E r \in Sessions \ {s} : job[r].goal = job[s].goal
                        THEN disturbed \cup {job[s].goal} ELSE disturbed
    PROVE  InboxInv'
<1>1. CASE FillClaim(s)
    <2>1. At(s, "fill_claim")
        BY <1>1 DEF FillClaim
    <2> QED
        BY <1>1, <2>1, FillClaimKeeps
<1>2. CASE ~FillClaim(s)
    <2>1. job[s].at \in Stages \ {"fill_claim"}
        BY <1>2 DEF ClaimStep, ReadClaim, OpenClaim, ReadPending, OpenActive, FillActive, UnlinkPending,
                    ReturnGoal, At, Stages
    <2>2. UNCHANGED disturbed
        BY <2>1 DEF At
    <2> QED
        BY <1>2, <2>2, ReadClaimKeeps, OpenClaimKeeps, ReadPendingKeeps, OpenActiveKeeps, FillActiveKeeps,
           UnlinkPendingKeeps, ReturnGoalKeeps DEF ClaimStep
<1> QED
    BY <1>1, <1>2

LEMMA ClosingKeeps ==
    ASSUME InboxInv, NEW s \in Sessions, BeginDone(s) \/ BeginBlocked(s) \/ CloseStep(s), UNCHANGED disturbed
    PROVE  InboxInv'
BY BeginDoneKeeps, BeginBlockedKeeps, OpenDoneKeeps, FillDoneKeeps, UnlinkActiveKeeps, ReleaseClaimKeeps,
   UnlinkClaimKeeps,
   OpenBlockedKeeps, FillBlockedKeeps DEF CloseStep

LEMMA ClaimGoalKeeps ==
    ASSUME InboxInv, NEW s \in Sessions, Ticks(gates, daemon[s]), ClaimGoal(s)
    PROVE  InboxInv'
<1>1. daemon[s].cand.goal \in Goals
    BY DEF ClaimGoal, Is, Ticks, Found, Choosing, Candidate
<1>2. CASE job[s] = NoJob
    <2>1. ~At(s, "fill_claim") /\ ~ClaimStep(s)
        <3>1. job[s].at \notin Stages
            BY <1>2, InboxAssumption DEF NoJob
        <3> QED
            BY <3>1 DEF Stages, At, ClaimStep, ReadClaim, OpenClaim, FillClaim, ReadPending, OpenActive,
                        FillActive, UnlinkPending, ReturnGoal
    <2>2. UNCHANGED disturbed
        BY <2>1 DEF ClaimGoal
    <2> QED
        BY <1>1, <2>1, <2>2, BeginClaimKeeps, InboxRests DEF ClaimGoal
<1>3. CASE job[s] # NoJob
    BY <1>3, ClaimStepKeeps DEF ClaimGoal, BeginClaim
<1> QED
    BY <1>2, <1>3

LEMMA DyingKeeps ==
    ASSUME InboxInv, NEW s \in Sessions, DaemonDies(s)
    PROVE  InboxInv'
<1>1. Leaves(s) /\ UNCHANGED <<pending, active, done, claims, wins>>
    BY DEF DaemonDies
<1>2. CASE job[s] = NoJob
    <2>1. job[s].at # "fill_blocked" /\ UNCHANGED disturbed
        BY <1>2, InboxAssumption DEF NoJob, Stages, DaemonDies
    <2> QED
        BY <1>1, <2>1, LeavingKeeps
<1>3. CASE job[s] # NoJob
    BY <1>1, <1>3, LeavingKeeps DEF DaemonDies
<1> QED
    BY <1>2, <1>3

LEMMA DaemonsKeepTheInbox ==
    ASSUME InboxInv, TicksHaveSubjects, [DaemonNext]_vars
    PROVE  InboxInv'
<1>1. ASSUME NEW s \in Sessions, ClaimGoal(s)
      PROVE  InboxInv'
    BY <1>1, ClaimGoalKeeps DEF TicksHaveSubjects
<1>2. ASSUME NEW s \in Sessions, CloseTask(s)
      PROVE  InboxInv'
    BY <1>2, ClosingKeeps DEF CloseTask
<1>3. ASSUME NEW s \in Sessions, DaemonDies(s)
      PROVE  InboxInv'
    BY <1>3, DyingKeeps
<1>4. ASSUME NEW g \in Goals, ExpireClaim(g), UNCHANGED daemonVars
      PROVE  InboxInv'
    BY <1>4, ExpireClaimKeeps DEF daemonVars
<1>5. ASSUME NEW s \in Sessions,
             (\E mode \in Modes : StartDaemon(s, mode)) \/ TickStep(s), ~ClaimGoal(s), ~CloseTask(s)
      PROVE  UNCHANGED <<inboxVars, disturbed>>
    BY <1>5 DEF StartDaemon, TickStep, PreTickChecks, Discover, ReuseGate, OpenGate, FillGate, ReadResolvedGate,
                PollGate, GateTimesOut, ResolveGate, HandleGate, ExecuteTask, MarkDispatched
<1>6. ASSUME \/ \E say \in {"APPROVE", "SKIP", "STOP", "PAUSE"}, n \in DOMAIN gates \cup {None} : Say(say, n)
             \/ \E n \in GateId, option \in Option : BeginResolve(n, option)
             \/ ServiceResolves \/ ServiceHandles
             \/ \E action \in {"STOP", "PAUSE"} : IssueControl(action)
             \/ UNCHANGED vars
      PROVE  UNCHANGED <<inboxVars, disturbed>>
    BY <1>6 DEF Say, BeginResolve, ServiceResolves, ServiceHandles, IssueControl, vars, daemonVars
<1> QED
    BY <1>1, <1>2, <1>3, <1>4, <1>5, <1>6, InboxRests DEF DaemonNext

\* What every step of a daemon, or of the principal, keeps.
Keeps == TickInv' /\ (AuthorityInv /\ ~Typed => AuthorityInv')

-----------------------------------------------------------------------------
(* Ticks: gates are only added, and stay about their goals.                *)

Stay(before, after) ==
    /\ DOMAIN before \subseteq DOMAIN after
    /\ \A n \in DOMAIN before : after[n].goal = before[n].goal

LEMMA TicksGoOn ==
    ASSUME NEW before, NEW after, Stay(before, after), NEW p, Ticks(before, p)
    PROVE  Ticks(after, p)
BY DEF Ticks, Found, Asks, Stay

LEMMA AuthorityLasts ==
    ASSUME NEW before, NEW after, Stay(before, after),
           NEW approved \in SUBSET DOMAIN before, NEW more, approved \subseteq more,
           NEW goal, NEW unattended, Backed(before, approved, goal, unattended)
    PROVE  Backed(after, more, goal, unattended)
BY DEF Backed, Stay

LEMMA BackingLasts ==
    ASSUME NEW before, NEW after, Stay(before, after),
           NEW approved \in SUBSET DOMAIN before, NEW more, approved \subseteq more,
           NEW p, TickIsBacked(before, approved, p)
    PROVE  TickIsBacked(after, more, p)
BY AuthorityLasts DEF TickIsBacked

\* One daemon moves, at most; gates and approvals are added.
LEMMA OneMoves ==
    ASSUME TickInv, NEW s \in Sessions, \A r \in Sessions \ {s} : daemon'[r] = daemon[r],
           Stay(gates, gates'), approvals \subseteq approvals', Ticks(gates', daemon'[s]),
           DaemonShape', GatesDeepen', VerdictsHaveGates',
           AuthorityInv /\ ~Typed =>
               TickIsBacked(gates', approvals', daemon'[s]) /\ VerdictsAreVouched'
               /\ \/ UNCHANGED runs
                  \/ RunsAreBacked'
    PROVE  Keeps
<1>1. \A r \in Sessions \ {s} : Ticks(gates', daemon'[r])
    BY TicksGoOn DEF TickInv, TicksHaveSubjects
<1>2. TickInv'
    BY <1>1 DEF TickInv, TicksHaveSubjects
<1>3. ASSUME AuthorityInv, ~Typed
      PROVE  AuthorityInv'
    <2>1. approvals \in SUBSET DOMAIN gates
        BY DEF TickInv, DaemonShape
    <2>2. \A r \in Sessions \ {s} : TickIsBacked(gates', approvals', daemon'[r])
        BY <1>3, <2>1, BackingLasts DEF AuthorityInv, TicksAreBacked
    <2>3. TicksAreBacked'
        BY <1>3, <2>2 DEF TicksAreBacked
    <2>4. RunsAreBacked'
        <3>1. CASE UNCHANGED runs
            BY <1>3, <2>1, <3>1, AuthorityLasts DEF AuthorityInv, RunsAreBacked
        <3> QED
            BY <1>3, <3>1
    <2> QED
        BY <1>3, <2>3, <2>4 DEF AuthorityInv
<1> QED
    BY <1>2, <1>3 DEF Keeps

\* A daemon moves; no gate, verdict or message comes in.
LEMMA TickMoves ==
    ASSUME TickInv, NEW s \in Sessions, NEW new \in Process, daemon' = [daemon EXCEPT ![s] = new],
           UNCHANGED <<gates, resolved, service, approvals, control, told>>, chat' \in {chat, <<>>},
           marks' \subseteq GateId \X {"dispatched", "json.dispatched"},
           runs' \in Seq([cand : Candidate, unattended : BOOLEAN]),
           disturbed' \subseteq Goals,
           Ticks(gates, new),
           AuthorityInv /\ ~Typed =>
               TickIsBacked(gates, approvals, new) /\ (UNCHANGED runs \/ RunsAreBacked')
    PROVE  Keeps
<1>1. daemon' \in [Sessions -> Process] /\ daemon'[s] = new /\ \A r \in Sessions \ {s} : daemon'[r] = daemon[r]
    BY DEF TickInv, DaemonShape
<1>2. chat' \in Seq(Message)
    <2>1. chat \in Seq(Message) /\ <<>> \in Seq(Message)
        BY DEF TickInv, DaemonShape
    <2> QED
        BY <2>1
<1>3. DaemonShape'
    BY <1>1, <1>2 DEF TickInv, DaemonShape
<1>4. Stay(gates, gates') /\ approvals \subseteq approvals'
    BY DEF Stay
<1>5. GatesDeepen' /\ VerdictsHaveGates'
    BY DEF TickInv, GatesDeepen, VerdictsHaveGates
<1>6. VerdictsAreVouched => VerdictsAreVouched'
    BY DEF VerdictsAreVouched
<1> QED
    BY <1>1, <1>3, <1>4, <1>5, <1>6, OneMoves DEF AuthorityInv

LEMMA Idling ==
    ASSUME NEW p, p.at \notin Choosing
    PROVE  \A opened, approved : Ticks(opened, p) /\ TickIsBacked(opened, approved, p)
BY DEF Choosing, AtAGate, Ticks, TickIsBacked

LEMMA ThenMoves ==
    ASSUME DaemonShape, NEW s \in Sessions, NEW at \in Stage, Then(s, at)
    PROVE  \E new \in Process :
               /\ daemon' = [daemon EXCEPT ![s] = new]
               /\ new.at = at /\ new.cand = daemon[s].cand /\ new.gate = daemon[s].gate
               /\ new.option = daemon[s].option /\ new.unattended = daemon[s].unattended
<1> DEFINE new == [daemon[s] EXCEPT !.at = at]
<1>1. daemon[s] \in Process
    BY DEF DaemonShape
<1>2. /\ new \in Process
      /\ new.at = at /\ new.cand = daemon[s].cand /\ new.gate = daemon[s].gate
      /\ new.option = daemon[s].option /\ new.unattended = daemon[s].unattended
    BY <1>1 DEF Process, Stage
<1>3. daemon' = [daemon EXCEPT ![s] = new]
    BY DEF Then
<1> HIDE DEF new
<1> QED
    BY <1>2, <1>3

LEMMA EndTickMoves ==
    ASSUME DaemonShape, NEW s \in Sessions, EndTick(s)
    PROVE  \E new \in Process : daemon' = [daemon EXCEPT ![s] = new] /\ new.at \notin Choosing
<1> DEFINE new == [daemon[s] EXCEPT !.at = "rest", !.cand = NoCandidate, !.gate = None, !.option = None]
<1>1. daemon[s] \in Process
    BY DEF DaemonShape
<1>2. new \in Process /\ new.at \notin Choosing
    BY <1>1 DEF Process, Choosing
<1>3. daemon' = [daemon EXCEPT ![s] = new]
    BY DEF EndTick
<1> HIDE DEF new
<1> QED
    BY <1>2, <1>3

\* A tick ends, or a daemon stops, starts or looks around.
LEMMA IdlingKeeps ==
    ASSUME TickInv, NEW s \in Sessions,
           EndTick(s) \/ \E at \in Stage \ Choosing : Then(s, at),
           UNCHANGED <<gates, resolved, service, approvals, control, told, runs>>, chat' \in {chat, <<>>},
           marks' \subseteq GateId \X {"dispatched", "json.dispatched"},
           disturbed' \subseteq Goals
    PROVE  Keeps
<1>1. PICK new \in Process : daemon' = [daemon EXCEPT ![s] = new] /\ new.at \notin Choosing
    BY ThenMoves, EndTickMoves DEF TickInv
<1>2. Ticks(gates, new) /\ TickIsBacked(gates, approvals, new)
    BY <1>1, Idling
<1>3. runs' \in Seq([cand : Candidate, unattended : BOOLEAN])
    BY DEF TickInv, DaemonShape
<1> QED
    BY <1>1, <1>2, <1>3, TickMoves

-----------------------------------------------------------------------------
(* What is chosen is among what there is to choose from.                   *)

LEMMA LeastOf ==
    ASSUME NEW T \in SUBSET Nat, T # {}
    PROVE  \E m \in T : \A n \in T : m <= n
<1> DEFINE Below == {1 .. t : t \in T}
<1>1. Below \subseteq FiniteSubsetsOf(Nat) /\ Below # {}
    <2>1. \A t \in T : 1 .. t \subseteq Nat /\ IsFiniteSet(1 .. t)
        <3> TAKE t \in T
        <3>1. t \in Int /\ 1 \in Int
            OBVIOUS
        <3> QED
            BY <3>1, FS_Interval
    <2> QED
        BY <2>1 DEF FiniteSubsetsOf
<1>2. IsWellFoundedOn(StrictSubsetOrdering(Nat), FiniteSubsetsOf(Nat))
    BY FS_StrictSubsetOrderingWellFounded
<1>3. PICK U \in Below : \A W \in Below : <<W, U>> \notin StrictSubsetOrdering(Nat)
    <2> HIDE DEF Below
    <2> QED
        BY <1>1, <1>2, WFMin
<1>4. PICK m \in T : U = 1 .. m
    BY <1>3
<1>5. ASSUME NEW n \in T, n < m
      PROVE  FALSE
    <2>1. 1 .. n \subseteq 1 .. m /\ 1 .. n # 1 .. m
        <3>1. n \in Nat /\ m \in Nat
            OBVIOUS
        <3>2. m \in 1 .. m /\ m \notin 1 .. n
            BY <1>5, <3>1
        <3> QED
            BY <1>5, <3>1, <3>2
    <2>2. <<1 .. n, 1 .. m>> \in StrictSubsetOrdering(Nat)
        BY <2>1 DEF StrictSubsetOrdering
    <2> QED
        BY <1>3, <1>4, <1>5, <2>2
<1> QED
    BY <1>5

LEMMA LatestOf ==
    ASSUME NEW n \in Nat, NEW T \in SUBSET (1 .. n), T # {}
    PROVE  \E m \in T : \A k \in T : k <= m
<1> DEFINE From == {n - k : k \in T}
<1>1. From \in SUBSET Nat /\ From # {}
    <2>1. \A k \in T : n - k \in Nat
        OBVIOUS
    <2> QED
        BY <2>1
<1>2. PICK d \in From : \A e \in From : d <= e
    <2> HIDE DEF From
    <2> QED
        BY <1>1, LeastOf
<1>3. PICK m \in T : d = n - m
    BY <1>2
<1>4. \A k \in T : d <= n - k
    BY <1>2
<1> QED
    BY <1>3, <1>4

LEMMA TopIsFound ==
    ASSUME TickInv, Top # NoCandidate
    PROVE  Found(gates, Top) /\ (Top.gate # None /\ VerdictsAreVouched => Top.gate \in approvals)
<1>1. CASE Unexecuted # {}
    <2>1. Len(resolved) \in Nat /\ Unexecuted \in SUBSET (1 .. Len(resolved))
        BY DEF Unexecuted, TickInv, DaemonShape
    <2>2. \E i \in Unexecuted : \A j \in Unexecuted : j <= i
        BY <1>1, <2>1, LatestOf
    <2>3. Newest \in Unexecuted
        BY <2>2 DEF Newest
    <2>4. Newest \in DOMAIN resolved /\ resolved[Newest].option = "approve" /\ resolved[Newest] \in Resolution
        BY <2>1, <2>3 DEF Unexecuted, TickInv, DaemonShape
    <2> DEFINE n == resolved[Newest].gate
    <2>5. n \in DOMAIN gates /\ n \in GateId /\ (VerdictsAreVouched => n \in approvals)
        <3>1. n \in GateId
            BY <2>4 DEF Resolution
        <3>2. n \in DOMAIN gates
            BY <2>4 DEF TickInv, VerdictsHaveGates
        <3>3. VerdictsAreVouched => n \in approvals
            BY <2>4 DEF VerdictsAreVouched, Vouched
        <3> QED
            BY <3>1, <3>2, <3>3
    <2>6. gates[n].goal \in Goals
        <3>1. gates[n] \in Gate
            BY <2>5 DEF TickInv, DaemonShape
        <3> QED
            BY <3>1 DEF Gate
    <2>7. Top = [goal |-> gates[n].goal, gate |-> n]
        BY <1>1 DEF Top
    <2> HIDE DEF n
    <2> QED
        BY <2>5, <2>7, <2>6 DEF Found, Candidate
<1>2. CASE Unexecuted = {}
    <2>1. Waiting # {} /\ Top = [goal |-> Rank[First], gate |-> None]
        BY <1>2 DEF Top
    <2>2. Waiting \in SUBSET Nat
        BY DaemonAssumption DEF Waiting
    <2>3. \E i \in Waiting : \A j \in Waiting : i <= j
        BY <2>1, <2>2, LeastOf
    <2>4. First \in Waiting
        BY <2>3 DEF First
    <2>5. Rank[First] \in Goals
        BY <2>4, DaemonAssumption DEF Waiting
    <2> QED
        BY <2>1, <2>5 DEF Found, Candidate
<1> QED
    BY <1>1, <1>2

\* A verdict of a gate is one that was written.
LEMMA VerdictIsWritten ==
    ASSUME NEW n, HasVerdict(n)
    PROVE  \E i \in DOMAIN resolved : resolved[i].gate = n /\ Verdict(n) = resolved[i].option
<1> DEFINE written == {resolved[i] : i \in DOMAIN resolved}
<1>1. \E r \in written : r.gate = n
    BY DEF HasVerdict
<1>2. (CHOOSE r \in written : r.gate = n) \in written /\ (CHOOSE r \in written : r.gate = n).gate = n
    BY <1>1
<1>3. Verdict(n) = (CHOOSE r \in written : r.gate = n).option
    BY DEF Verdict
<1> QED
    BY <1>2, <1>3

\* What a message means for a gate was said of it, or of none.
LEMMA ChosenIsSaid ==
    ASSUME DaemonShape, NEW n, Applying(n) # {}
    PROVE  /\ Chosen(n) \in Option
           /\ Chosen(n) = "approve" => \E i \in DOMAIN chat : chat[i].gate \in {n, None} /\ chat[i].say = "APPROVE"
<1>1. Applying(n) \in SUBSET Nat
    BY DEF Applying, DaemonShape
<1>2. \E i \in Applying(n) : \A j \in Applying(n) : i <= j
    BY <1>1, LeastOf
<1> DEFINE i == CHOOSE k \in Applying(n) : \A j \in Applying(n) : k <= j
<1>3. i \in Applying(n)
    BY <1>2
<1>4. Chosen(n) = Meant(chat[i])
    BY DEF Chosen
<1> HIDE DEF i
<1> QED
    BY <1>3, <1>4 DEF Applying, Meant, Option

LEMMA VerdictsAreReplaced ==
    ASSUME resolved \in Seq(Resolution), NEW n \in GateId, NEW option \in Option, WriteVerdict(n, option)
    PROVE  /\ resolved' \in Seq(Resolution)
           /\ \A i \in DOMAIN resolved' :
                 \/ resolved'[i] = [gate |-> n, option |-> option]
                 \/ \E j \in DOMAIN resolved : resolved'[i] = resolved[j]
<1> DEFINE i == CHOOSE j \in DOMAIN resolved : resolved[j].gate = n
           new == [gate |-> n, option |-> option]
           others == IF HasVerdict(n) THEN SubSeq(resolved, 1, i - 1) \o SubSeq(resolved, i + 1, Len(resolved))
                     ELSE resolved
<1>1. resolved' = Append(others, new) /\ new \in Resolution
    BY DEF WriteVerdict, Resolution
<1>2. others \in Seq(Resolution) /\ \A k \in DOMAIN others : \E j \in DOMAIN resolved : others[k] = resolved[j]
    <2>1. CASE HasVerdict(n)
        <3>1. i \in 1 .. Len(resolved)
            BY <2>1 DEF HasVerdict
        <3> HIDE DEF i
        <3> DEFINE front == SubSeq(resolved, 1, i - 1)
                   rear == SubSeq(resolved, i + 1, Len(resolved))
        <3>2. front \in Seq(Resolution) /\ \A k \in DOMAIN front : \E j \in DOMAIN resolved : front[k] = resolved[j]
            BY <3>1
        <3>3. rear \in Seq(Resolution) /\ \A k \in DOMAIN rear : \E j \in DOMAIN resolved : rear[k] = resolved[j]
            BY <3>1
        <3>4. others = front \o rear
            BY <2>1
        <3> HIDE DEF front, rear, others
        <3>5. others \in Seq(Resolution)
            BY <3>2, <3>3, <3>4
        <3>6. ASSUME NEW k \in DOMAIN others
              PROVE  \E j \in DOMAIN resolved : others[k] = resolved[j]
            <4>1. CASE k \in DOMAIN front
                BY <3>2, <3>3, <3>4, <4>1
            <4>2. CASE k \notin DOMAIN front
                <5>1. k - Len(front) \in DOMAIN rear /\ others[k] = rear[k - Len(front)]
                    BY <3>2, <3>3, <3>4, <3>6, <4>2
                <5> QED
                    BY <3>3, <5>1
            <4> QED
                BY <4>1, <4>2
        <3> QED
            BY <3>5, <3>6
    <2>2. CASE ~HasVerdict(n)
        BY <2>2
    <2> QED
        BY <2>1, <2>2
<1> HIDE DEF new, others
<1>3. resolved' \in Seq(Resolution)
    BY <1>1, <1>2
<1>4. \A k \in DOMAIN resolved' : resolved'[k] = new \/ \E j \in DOMAIN others : resolved'[k] = others[j]
    BY <1>1, <1>2
<1> QED
    BY <1>2, <1>3, <1>4 DEF new

-----------------------------------------------------------------------------
(* The steps of a tick.                                                    *)

LEMMA GatesHaveIds == DaemonShape => DOMAIN gates \subseteq GateId
<1> SUFFICES ASSUME DaemonShape PROVE DOMAIN gates \subseteq GateId
    OBVIOUS
<1>1. DOMAIN gates = 1 .. Len(gates) /\ Len(gates) \in Nat /\ Len(gates) <= MaxGates /\ MaxGates \in Nat
    BY DaemonAssumption DEF DaemonShape
<1> QED
    BY <1>1 DEF GateId

LEMMA TickTypes ==
    ASSUME TickInv, NEW s \in Sessions
    PROVE  /\ daemon[s] \in Process /\ Ticks(gates, daemon[s])
           /\ marks \subseteq GateId \X {"dispatched", "json.dispatched"}
           /\ runs \in Seq([cand : Candidate, unattended : BOOLEAN])
           /\ disturbed \subseteq Goals
           /\ DOMAIN gates \subseteq GateId
<1>1. DOMAIN gates \subseteq GateId
    BY GatesHaveIds DEF TickInv
<1> QED
    BY <1>1 DEF TickInv, DaemonShape, TicksHaveSubjects

LEMMA StartKeeps ==
    ASSUME TickInv, NEW s \in Sessions, NEW mode \in Modes, StartDaemon(s, mode)
    PROVE  Keeps
<1> DEFINE new == [daemon[s] EXCEPT !.at = "rest", !.unattended = mode]
<1>1. new \in Process /\ new.at \notin Choosing
    <2>1. daemon[s] \in Process
        BY TickTypes
    <2>2. mode \in BOOLEAN
        BY DaemonAssumption
    <2> QED
        BY <2>1, <2>2 DEF Process, Choosing
<1>2. daemon' = [daemon EXCEPT ![s] = new] /\ UNCHANGED <<gates, resolved, marks, chat, service, control, told, approvals, runs, disturbed>>
    BY DEF StartDaemon
<1> HIDE DEF new
<1>3. Ticks(gates, new) /\ TickIsBacked(gates, approvals, new)
    BY <1>1, Idling
<1> QED
    BY <1>1, <1>2, <1>3, TickTypes, TickMoves

LEMMA PreTickKeeps ==
    ASSUME TickInv, NEW s \in Sessions, PreTickChecks(s)
    PROVE  Keeps
<1>1. \E at \in Stage \ Choosing : Then(s, at)
    BY Zenon DEF PreTickChecks, Stage, Choosing
<1>2. UNCHANGED <<gates, resolved, marks, service, control, told, approvals, runs, disturbed>> /\ chat' \in {chat, <<>>}
    BY DEF PreTickChecks
<1> QED
    BY <1>1, <1>2, TickTypes, IdlingKeeps

LEMMA DiscoverKeeps ==
    ASSUME TickInv, NEW s \in Sessions, Discover(s)
    PROVE  Keeps
<1>1. UNCHANGED <<gates, resolved, chat, service, control, told, approvals, runs, disturbed>>
    BY DEF Discover
<1>2. marks' \subseteq GateId \X {"dispatched", "json.dispatched"}
    <2>1. \A i \in DOMAIN resolved : resolved[i].gate \in GateId
        BY TickTypes DEF TickInv, VerdictsHaveGates
    <2>2. marks' = marks \cup {<<resolved[i].gate, "dispatched">> :
                                  i \in {j \in DOMAIN resolved : resolved[j].option # "approve"}}
        BY DEF Discover
    <2> QED
        BY <2>1, <2>2, TickTypes
<1>3. CASE Top = NoCandidate \/ Refused(Top)
    <2>1. EndTick(s)
        BY <1>3 DEF Discover
    <2> QED
        BY <1>1, <1>2, <2>1, TickTypes, IdlingKeeps
<1>4. CASE ~(Top = NoCandidate \/ Refused(Top))
    <2> DEFINE at == IF ~(daemon[s].unattended /\ Allowed(Top)) THEN "gate"
                     ELSE IF Top.gate = None THEN "claim" ELSE "run"
               new == [daemon[s] EXCEPT !.cand = Top, !.at = at]
    <2>1. daemon' = [daemon EXCEPT ![s] = new]
        BY <1>4 DEF Discover
    <2>2. Found(gates, Top) /\ (Top.gate # None /\ VerdictsAreVouched => Top.gate \in approvals)
        BY <1>4, TopIsFound
    <2>3. at \in {"gate", "claim", "run"} /\ (at # "gate" => daemon[s].unattended /\ Allowed(Top))
        OBVIOUS
    <2> HIDE DEF at
    <2>4. new \in Process /\ new.at = at /\ new.cand = Top /\ new.unattended = daemon[s].unattended
        BY <2>2, <2>3, TickTypes DEF Process, Found
    <2> HIDE DEF new
    <2>5. Ticks(gates, new)
        BY <2>2, <2>3, <2>4 DEF Ticks, AtAGate
    <2>6. AuthorityInv => TickIsBacked(gates, approvals, new)
        BY <2>2, <2>3, <2>4 DEF AuthorityInv, TickIsBacked, Backed, Allowed, Found
    <2> QED
        BY <1>1, <1>2, <2>1, <2>4, <2>5, <2>6, TickTypes, TickMoves
<1> QED
    BY <1>3, <1>4

\* The gate is there: the daemon waits for it, unless it runs unattended.
LEMMA AfterGateMoves ==
    ASSUME DaemonShape, NEW s \in Sessions, Is(s, "gate") \/ Is(s, "fill"), Ticks(gates, daemon[s]),
           NEW n, Asks(gates, n, daemon[s].cand), AfterGate(s, n)
    PROVE  \E new \in Process :
               /\ daemon' = [daemon EXCEPT ![s] = new] /\ Ticks(gates, new)
               /\ \A opened, approved : TickIsBacked(opened, approved, daemon[s]) => TickIsBacked(opened, approved, new)
<1>1. CASE daemon[s].unattended
    <2>1. EndTick(s)
        BY <1>1 DEF AfterGate
    <2> QED
        BY <2>1, EndTickMoves, Idling
<1>2. CASE ~daemon[s].unattended
    <2> DEFINE new == [daemon[s] EXCEPT !.at = "wait", !.gate = n]
    <2>1. daemon' = [daemon EXCEPT ![s] = new]
        BY <1>2 DEF AfterGate
    <2>2. daemon[s] \in Process /\ n \in GateId
        BY GatesHaveIds DEF DaemonShape, Asks
    <2>3. new \in Process /\ new.at = "wait" /\ new.gate = n /\ new.cand = daemon[s].cand
        BY <2>2 DEF Process
    <2> HIDE DEF new
    <2>4. Ticks(gates, new)
        BY <2>3 DEF Ticks, Is, Choosing, AtAGate
    <2>5. \A opened, approved : TickIsBacked(opened, approved, daemon[s]) => TickIsBacked(opened, approved, new)
        BY <2>3 DEF TickIsBacked, Is, Choosing
    <2> QED
        BY <2>1, <2>3, <2>4, <2>5
<1> QED
    BY <1>1, <1>2

\* A goal's gate is told from all others by its subject.
LEMMA OpenGatesAsk ==
    ASSUME NEW cand \in Candidate, NEW n \in OpenGates(cand)
    PROVE  Asks(gates, n, cand)
<1>1. Legible \in Nat /\ Legible > 0
    BY DaemonAssumption
<1>2. cand.goal # None
    BY InboxAssumption DEF Candidate
<1>3. n \in DOMAIN gates /\ Subject(gates[n].goal, gates[n].depth) = Subject(cand.goal, Depth(cand))
    BY DEF OpenGates, SubjectOf
<1>4. ASSUME cand.gate = None
      PROVE  gates[n].goal = cand.goal
    <2>1. Subject(cand.goal, Depth(cand)).goal = cand.goal
        BY <1>1, <1>4 DEF Depth, Subject
    <2>2. Subject(gates[n].goal, gates[n].depth).goal \in {gates[n].goal, None}
        BY DEF Subject
    <2> QED
        BY <1>2, <1>3, <2>1, <2>2
<1> QED
    BY <1>3, <1>4 DEF Asks

LEMMA ReuseGateKeeps ==
    ASSUME TickInv, NEW s \in Sessions, ReuseGate(s)
    PROVE  Keeps
<1>1. PICK n \in OpenGates(daemon[s].cand) : AfterGate(s, n)
    BY DEF ReuseGate
<1>2. Is(s, "gate") /\ daemon[s].cand \in Candidate
    BY TickTypes DEF ReuseGate, Is, Ticks, Found, Choosing
<1>3. Asks(gates, n, daemon[s].cand)
    BY <1>2, OpenGatesAsk
<1>4. PICK new \in Process :
          /\ daemon' = [daemon EXCEPT ![s] = new] /\ Ticks(gates, new)
          /\ \A opened, approved : TickIsBacked(opened, approved, daemon[s]) => TickIsBacked(opened, approved, new)
    BY <1>1, <1>2, <1>3, TickTypes, AfterGateMoves DEF TickInv
<1>5. UNCHANGED <<gates, resolved, marks, chat, service, control, told, approvals, runs, disturbed>>
    BY DEF ReuseGate
<1>6. AuthorityInv => TickIsBacked(gates, approvals, new)
    BY <1>4 DEF AuthorityInv, TicksAreBacked
<1> QED
    BY <1>4, <1>5, <1>6, TickTypes, TickMoves

LEMMA GatesChange ==
    ASSUME TickInv, NEW n \in DOMAIN gates, NEW file \in {"torn", "open", "handled"},
           gates' = [gates EXCEPT ![n].file = file]
    PROVE  /\ gates' \in Seq(Gate) /\ Len(gates') = Len(gates) /\ DOMAIN gates' = DOMAIN gates
           /\ Stay(gates, gates') /\ GatesDeepen'
<1> DEFINE new == [gates[n] EXCEPT !.file = file]
<1>1. gates \in Seq(Gate) /\ gates[n] \in Gate
    BY DEF TickInv, DaemonShape
<1>2. new \in Gate /\ new.goal = gates[n].goal /\ new.depth = gates[n].depth
    BY <1>1 DEF Gate
<1>3. gates' = [gates EXCEPT ![n] = new]
    OBVIOUS
<1> HIDE DEF new
<1>4. gates' \in Seq(Gate) /\ Len(gates') = Len(gates) /\ DOMAIN gates' = DOMAIN gates
    BY <1>1, <1>2, <1>3
<1>5. \A m \in DOMAIN gates : gates'[m].goal = gates[m].goal /\ gates'[m].depth = gates[m].depth
    BY <1>1, <1>2, <1>3
<1> QED
    BY <1>4, <1>5 DEF Stay, TickInv, GatesDeepen

LEMMA OpenGateKeeps ==
    ASSUME TickInv, NEW s \in Sessions, OpenGate(s)
    PROVE  Keeps
<1> DEFINE cand == daemon[s].cand
           gate == [goal |-> cand.goal, depth |-> Depth(cand), file |-> "torn"]
           new == [daemon[s] EXCEPT !.at = "fill", !.gate = Len(gates) + 1]
<1>1. /\ Is(s, "gate") /\ Len(gates) < MaxGates
      /\ gates' = Append(gates, gate) /\ daemon' = [daemon EXCEPT ![s] = new]
      /\ UNCHANGED <<resolved, marks, chat, service, control, told, approvals, runs, disturbed>>
    BY DEF OpenGate
<1>2. Found(gates, cand) /\ cand \in Candidate /\ cand.gate \in DOMAIN gates \cup {None} /\ gates \in Seq(Gate)
    BY <1>1, TickTypes DEF Ticks, Found, Is, Choosing, TickInv, DaemonShape
<1>3. Depth(cand) \in 0 .. Len(gates)
    <2>1. CASE cand.gate = None
        BY <1>2, <2>1 DEF Depth
    <2>2. CASE cand.gate # None
        <3>1. gates[cand.gate] \in Gate /\ gates[cand.gate].depth < cand.gate /\ cand.gate \in 1 .. Len(gates)
            BY <1>2, <2>2 DEF TickInv, GatesDeepen
        <3>2. gates[cand.gate].depth \in 0 .. MaxGates /\ MaxGates \in Nat
            BY <3>1, DaemonAssumption DEF Gate
        <3>3. Depth(cand) = gates[cand.gate].depth + 1
            BY <2>2 DEF Depth
        <3>4. Len(gates) \in Nat
            BY <1>2
        <3> DEFINE above == cand.gate
                   depth == gates[above].depth
        <3>5. depth \in Nat /\ depth < above /\ above \in 1 .. Len(gates) /\ Depth(cand) = depth + 1
            BY <3>1, <3>2, <3>3
        <3> HIDE DEF above, depth
        <3> QED
            BY <3>4, <3>5
    <2> QED
        BY <2>1, <2>2
<1>4. gate \in Gate /\ gate.goal = cand.goal /\ gate.depth < Len(gates) + 1
    BY <1>1, <1>2, <1>3, DaemonAssumption, SMTT(30) DEF Gate, Candidate
<1>5. Len(gates) + 1 \in GateId
    <2>1. Len(gates) \in Nat
        BY <1>2
    <2>2. MaxGates \in Nat
        BY DaemonAssumption
    <2> QED
        BY <1>1, <2>1, <2>2 DEF GateId
<1>6. new \in Process /\ new.at = "fill" /\ new.gate = Len(gates) + 1 /\ new.cand = cand
    BY <1>5, TickTypes DEF Process
<1> HIDE DEF new, gate, cand
<1>7. /\ gates' \in Seq(Gate) /\ Len(gates') = Len(gates) + 1 /\ DOMAIN gates \subseteq DOMAIN gates'
      /\ \A n \in DOMAIN gates : gates'[n] = gates[n]
      /\ DOMAIN gates' = DOMAIN gates \cup {Len(gates) + 1} /\ gates'[Len(gates) + 1] = gate
    BY <1>1, <1>2, <1>4
<1>8. Stay(gates, gates')
    BY <1>7 DEF Stay
<1>9. GatesDeepen'
    BY <1>4, <1>7 DEF TickInv, GatesDeepen
<1>10. daemon' \in [Sessions -> Process] /\ daemon'[s] = new /\ \A r \in Sessions \ {s} : daemon'[r] = daemon[r]
    BY <1>1, <1>6 DEF TickInv, DaemonShape
<1>11. Len(gates') <= MaxGates /\ approvals' \subseteq DOMAIN gates'
    BY <1>1, <1>2, <1>7, DaemonAssumption DEF TickInv, DaemonShape
<1>12. DaemonShape'
    BY <1>1, <1>7, <1>10, <1>11 DEF TickInv, DaemonShape
<1>13. VerdictsHaveGates'
    BY <1>1, <1>7 DEF TickInv, VerdictsHaveGates
<1>14. Ticks(gates', new)
    BY <1>2, <1>4, <1>6, <1>7 DEF Ticks, Found, Asks
<1>15. AuthorityInv => TickIsBacked(gates', approvals', new)
    BY <1>1, <1>6 DEF TickIsBacked, AuthorityInv, TicksAreBacked, Is, Choosing, cand
<1>16. VerdictsAreVouched => VerdictsAreVouched'
    BY <1>1 DEF VerdictsAreVouched
<1> QED
    BY <1>1, <1>8, <1>9, <1>10, <1>12, <1>13, <1>14, <1>15, <1>16, OneMoves DEF AuthorityInv

LEMMA FillGateKeeps ==
    ASSUME TickInv, NEW s \in Sessions, FillGate(s)
    PROVE  Keeps
<1> DEFINE n == daemon[s].gate
<1>1. /\ Is(s, "fill") /\ gates' = [gates EXCEPT ![n].file = "open"] /\ AfterGate(s, n)
      /\ UNCHANGED <<resolved, marks, chat, service, control, told, approvals, runs, disturbed>>
    BY DEF FillGate
<1>2. Asks(gates, n, daemon[s].cand) /\ n \in DOMAIN gates
    BY <1>1, TickTypes DEF Ticks, Asks, Is, AtAGate
<1> HIDE DEF n
<1>3. /\ gates' \in Seq(Gate) /\ Len(gates') = Len(gates) /\ DOMAIN gates' = DOMAIN gates
      /\ Stay(gates, gates') /\ GatesDeepen'
    BY <1>1, <1>2, GatesChange
<1>4. PICK new \in Process :
          /\ daemon' = [daemon EXCEPT ![s] = new] /\ Ticks(gates, new)
          /\ \A opened, approved : TickIsBacked(opened, approved, daemon[s]) => TickIsBacked(opened, approved, new)
    BY <1>1, <1>2, TickTypes, AfterGateMoves DEF TickInv
<1>5. daemon' \in [Sessions -> Process] /\ daemon'[s] = new /\ \A r \in Sessions \ {s} : daemon'[r] = daemon[r]
    BY <1>4 DEF TickInv, DaemonShape
<1>6. DaemonShape'
    BY <1>1, <1>3, <1>5 DEF TickInv, DaemonShape
<1>7. VerdictsHaveGates'
    BY <1>1, <1>3 DEF TickInv, VerdictsHaveGates
<1>8. Ticks(gates', new)
    BY <1>3, <1>4, TicksGoOn
<1>9. VerdictsAreVouched => VerdictsAreVouched'
    BY <1>1 DEF VerdictsAreVouched
<1>10. AuthorityInv => TickIsBacked(gates', approvals', new)
    <2>1. approvals \in SUBSET DOMAIN gates /\ approvals \subseteq approvals'
        BY <1>1 DEF TickInv, DaemonShape
    <2> QED
        BY <1>1, <1>3, <1>4, <2>1, BackingLasts DEF AuthorityInv, TicksAreBacked
<1> QED
    BY <1>1, <1>3, <1>4, <1>5, <1>6, <1>7, <1>8, <1>9, <1>10, OneMoves DEF AuthorityInv

LEMMA ReadResolvedKeeps ==
    ASSUME TickInv, NEW s \in Sessions, ReadResolvedGate(s)
    PROVE  Keeps
<1> DEFINE n == daemon[s].gate
<1>1. /\ Is(s, "wait") /\ HasVerdict(n)
      /\ UNCHANGED <<gates, resolved, marks, chat, service, control, told, approvals, runs, disturbed>>
    BY DEF ReadResolvedGate
<1>2. PICK i \in DOMAIN resolved : resolved[i].gate = n /\ Verdict(n) = resolved[i].option
    BY <1>1, VerdictIsWritten
<1>3. Verdict(n) \in Option
    <2>1. resolved[i] \in Resolution
        BY DEF TickInv, DaemonShape
    <2> QED
        BY <1>2, <2>1 DEF Resolution
<1>4. CASE Verdict(n) # "approve"
    <2>1. EndTick(s) \/ Then(s, "over")
        BY <1>3, <1>4 DEF ReadResolvedGate, Option
    <2>2. "over" \in Stage \ Choosing
        BY DEF Stage, Choosing
    <2> QED
        BY <1>1, <2>1, <2>2, TickTypes, IdlingKeeps
<1>5. CASE Verdict(n) = "approve"
    <2>1. PICK at \in {"claim", "run"} : Then(s, at)
        BY <1>5 DEF ReadResolvedGate
    <2>2. at \in Stage
        BY DEF Stage
    <2>3. PICK new \in Process :
              /\ daemon' = [daemon EXCEPT ![s] = new]
              /\ new.at = at /\ new.cand = daemon[s].cand /\ new.gate = n
              /\ new.option = daemon[s].option /\ new.unattended = daemon[s].unattended
        BY <2>1, <2>2, ThenMoves DEF TickInv
    <2>4. Found(gates, daemon[s].cand) /\ Asks(gates, n, daemon[s].cand)
        BY <1>1, TickTypes DEF Ticks, Is, Choosing, AtAGate
    <2>5. AuthorityInv => n \in approvals
        BY <1>2, <1>5 DEF AuthorityInv, VerdictsAreVouched, Vouched
    <2>6. Ticks(gates, new)
        BY <2>3, <2>4 DEF Ticks, AtAGate
    <2>7. AuthorityInv => (daemon[s].cand.gate # None => daemon[s].cand.gate \in approvals)
        BY <1>1 DEF AuthorityInv, TicksAreBacked, TickIsBacked, Is, Choosing
    <2>8. AuthorityInv => TickIsBacked(gates, approvals, new)
        BY <2>3, <2>4, <2>5, <2>7 DEF TickIsBacked, Backed, Found, Asks
    <2> QED
        BY <1>1, <2>3, <2>6, <2>8, TickTypes, TickMoves
<1> QED
    BY <1>4, <1>5

LEMMA TimeOutKeeps ==
    ASSUME TickInv, NEW s \in Sessions, GateTimesOut(s)
    PROVE  Keeps
BY TickTypes, IdlingKeeps DEF GateTimesOut

LEMMA PollKeeps ==
    ASSUME TickInv, NEW s \in Sessions, PollGate(s)
    PROVE  Keeps
<1> DEFINE n == daemon[s].gate
<1>1. /\ Is(s, "wait") /\ chat' = <<>>
      /\ UNCHANGED <<gates, resolved, marks, service, control, told, approvals, runs, disturbed>>
    BY DEF PollGate
<1>2. CASE Applying(n) = {} \/ n \in daemon[s].known
    <2>1. daemon' = [daemon EXCEPT ![s] = daemon[s]]
        BY <1>2 DEF PollGate, TickInv, DaemonShape
    <2>2. AuthorityInv => TickIsBacked(gates, approvals, daemon[s])
        BY DEF AuthorityInv, TicksAreBacked
    <2> QED
        BY <1>1, <2>1, <2>2, TickTypes, TickMoves
<1>3. CASE ~(Applying(n) = {} \/ n \in daemon[s].known)
    <2> DEFINE at == IF gates[n].file = "open" THEN "resolve" ELSE "rest"
               new == [daemon[s] EXCEPT !.known = @ \cup {n}, !.at = at, !.option = Chosen(n)]
    <2>1. daemon' = [daemon EXCEPT ![s] = new]
        BY <1>3 DEF PollGate
    <2>2. /\ Chosen(n) \in Option
          /\ Chosen(n) = "approve" => \E i \in DOMAIN chat : chat[i].gate \in {n, None} /\ chat[i].say = "APPROVE"
        BY <1>3, ChosenIsSaid DEF TickInv
    <2>3. Found(gates, daemon[s].cand) /\ Asks(gates, n, daemon[s].cand) /\ n \in DOMAIN gates
        BY <1>1, TickTypes DEF Ticks, Is, Choosing, AtAGate, Asks
    <2>4. at \in {"resolve", "rest"}
        OBVIOUS
    <2> HIDE DEF at
    <2>5. /\ new \in Process /\ new.at = at /\ new.cand = daemon[s].cand /\ new.gate = n
          /\ new.option = Chosen(n)
        BY <2>2, <2>3, <2>4, TickTypes DEF Process
    <2> HIDE DEF new
    <2>6. Ticks(gates, new)
        BY <2>2, <2>3, <2>4, <2>5 DEF Ticks
    <2>7. AuthorityInv => TickIsBacked(gates, approvals, new)
        <3>1. AuthorityInv => (daemon[s].cand.gate # None => daemon[s].cand.gate \in approvals)
            BY <1>1 DEF AuthorityInv, TicksAreBacked, TickIsBacked, Is, Choosing
        <3> QED
            BY <2>2, <2>4, <2>5, <3>1 DEF AuthorityInv, VerdictsAreVouched, TickIsBacked
    <2> QED
        BY <1>1, <2>1, <2>5, <2>6, <2>7, TickTypes, TickMoves
<1> QED
    BY <1>2, <1>3

\* A verdict is written over that of the same gate.
LEMMA WritingKeepsGates ==
    ASSUME TickInv, NEW n \in DOMAIN gates, NEW option \in Option, WriteVerdict(n, option),
           DOMAIN gates' = DOMAIN gates, UNCHANGED <<chat, approvals>>,
           service' = service \/ (service # None /\ service' = [service EXCEPT !.written = TRUE])
    PROVE  /\ resolved' \in Seq(Resolution)
           /\ VerdictsHaveGates'
           /\ VerdictsAreVouched /\ (option = "approve" => n \in approvals) => VerdictsAreVouched'
<1> DEFINE new == [gate |-> n, option |-> option]
<1>1. n \in GateId /\ resolved \in Seq(Resolution)
    BY GatesHaveIds DEF TickInv, DaemonShape
<1>2. /\ resolved' \in Seq(Resolution)
      /\ \A i \in DOMAIN resolved' : resolved'[i] = new \/ \E j \in DOMAIN resolved : resolved'[i] = resolved[j]
    BY <1>1, VerdictsAreReplaced
<1>3. new.gate = n /\ new.option = option
    OBVIOUS
<1> HIDE DEF new
<1>4. service' # None => service # None /\ service'.verdict = service.verdict
    BY DEF TickInv, DaemonShape, Resolving
<1>5. VerdictsHaveGates'
    BY <1>2, <1>3, <1>4 DEF TickInv, VerdictsHaveGates
<1>6. VerdictsAreVouched /\ (option = "approve" => n \in approvals) => VerdictsAreVouched'
    BY <1>2, <1>3, <1>4 DEF VerdictsAreVouched, Vouched
<1> QED
    BY <1>2, <1>5, <1>6

LEMMA ResolveKeeps ==
    ASSUME TickInv, NEW s \in Sessions, ResolveGate(s)
    PROVE  Keeps
<1> DEFINE n == daemon[s].gate
           option == daemon[s].option
<1>1. /\ Is(s, "resolve") /\ WriteVerdict(n, option) /\ Then(s, "handle")
      /\ UNCHANGED <<gates, marks, chat, service, control, told, approvals, runs, disturbed>>
    BY DEF ResolveGate
<1>2. /\ Found(gates, daemon[s].cand) /\ Asks(gates, n, daemon[s].cand)
      /\ n \in DOMAIN gates /\ option \in Option
    BY <1>1, TickTypes DEF Ticks, Is, Choosing, AtAGate, Asks
<1>3. /\ resolved' \in Seq(Resolution) /\ VerdictsHaveGates'
      /\ VerdictsAreVouched /\ (option = "approve" => n \in approvals) => VerdictsAreVouched'
    BY <1>1, <1>2, WritingKeepsGates
<1>4. "handle" \in Stage
    BY DEF Stage
<1>5. PICK new \in Process :
          /\ daemon' = [daemon EXCEPT ![s] = new]
          /\ new.at = "handle" /\ new.cand = daemon[s].cand /\ new.gate = n
    BY <1>1, <1>4, ThenMoves DEF TickInv
<1>6. daemon' \in [Sessions -> Process] /\ daemon'[s] = new /\ \A r \in Sessions \ {s} : daemon'[r] = daemon[r]
    BY <1>5 DEF TickInv, DaemonShape
<1>7. DaemonShape' /\ GatesDeepen' /\ Stay(gates, gates')
    BY <1>1, <1>3, <1>6 DEF TickInv, DaemonShape, GatesDeepen, Stay
<1>8. Ticks(gates', new) /\ (AuthorityInv => TickIsBacked(gates', approvals', new))
    BY <1>1, <1>2, <1>5 DEF Ticks, TickIsBacked, AuthorityInv, TicksAreBacked, Is, Choosing
<1>9. AuthorityInv => (option = "approve" => n \in approvals)
    BY <1>1 DEF AuthorityInv, TicksAreBacked, TickIsBacked, Is
<1> HIDE DEF n, option
<1> QED
    BY <1>1, <1>3, <1>6, <1>7, <1>8, <1>9, OneMoves DEF AuthorityInv

LEMMA HandleKeeps ==
    ASSUME TickInv, NEW s \in Sessions, HandleGate(s)
    PROVE  Keeps
<1> DEFINE n == daemon[s].gate
<1>1. /\ Is(s, "handle") /\ gates' = [gates EXCEPT ![n].file = "handled"]
      /\ UNCHANGED <<resolved, marks, chat, service, control, told, approvals, runs, disturbed>>
    BY DEF HandleGate
<1>2. Found(gates, daemon[s].cand) /\ Asks(gates, n, daemon[s].cand) /\ n \in DOMAIN gates
    BY <1>1, TickTypes DEF Ticks, Is, Choosing, AtAGate, Asks
<1>3. /\ gates' \in Seq(Gate) /\ Len(gates') = Len(gates) /\ DOMAIN gates' = DOMAIN gates
      /\ Stay(gates, gates') /\ GatesDeepen'
    BY <1>1, <1>2, GatesChange
<1>4. \E new \in Process :
          /\ daemon' = [daemon EXCEPT ![s] = new] /\ Ticks(gates, new)
          /\ \A opened, approved : TickIsBacked(opened, approved, daemon[s]) => TickIsBacked(opened, approved, new)
    <2>1. CASE gates[n].file = "handled"
        <3>1. EndTick(s)
            BY <2>1 DEF HandleGate
        <3> QED
            BY <3>1, EndTickMoves, Idling DEF TickInv
    <2>2. CASE gates[n].file # "handled"
        <3> DEFINE new == [daemon[s] EXCEPT !.at = "wait", !.option = None]
        <3>1. daemon' = [daemon EXCEPT ![s] = new]
            BY <2>2 DEF HandleGate
        <3>2. new \in Process /\ new.at = "wait" /\ new.gate = n /\ new.cand = daemon[s].cand
            BY TickTypes DEF Process
        <3> HIDE DEF new
        <3>3. Ticks(gates, new)
            BY <1>2, <3>2 DEF Ticks
        <3>4. \A opened, approved : TickIsBacked(opened, approved, daemon[s]) => TickIsBacked(opened, approved, new)
            BY <1>1, <3>2 DEF TickIsBacked, Is, Choosing
        <3> QED
            BY <3>1, <3>2, <3>3, <3>4
    <2> QED
        BY <2>1, <2>2
<1>5. PICK new \in Process :
          /\ daemon' = [daemon EXCEPT ![s] = new] /\ Ticks(gates, new)
          /\ \A opened, approved : TickIsBacked(opened, approved, daemon[s]) => TickIsBacked(opened, approved, new)
    BY <1>4
<1> HIDE DEF n
<1>6. daemon' \in [Sessions -> Process] /\ daemon'[s] = new /\ \A r \in Sessions \ {s} : daemon'[r] = daemon[r]
    BY <1>5 DEF TickInv, DaemonShape
<1>7. DaemonShape' /\ VerdictsHaveGates'
    BY <1>1, <1>3, <1>6 DEF TickInv, DaemonShape, VerdictsHaveGates
<1>8. Ticks(gates', new)
    BY <1>3, <1>5, TicksGoOn
<1>9. VerdictsAreVouched => VerdictsAreVouched'
    BY <1>1 DEF VerdictsAreVouched
<1>10. AuthorityInv => TickIsBacked(gates', approvals', new)
    <2>1. approvals \in SUBSET DOMAIN gates /\ approvals \subseteq approvals'
        BY <1>1 DEF TickInv, DaemonShape
    <2> QED
        BY <1>1, <1>3, <1>5, <2>1, BackingLasts DEF AuthorityInv, TicksAreBacked
<1> QED
    BY <1>1, <1>3, <1>5, <1>6, <1>7, <1>8, <1>9, <1>10, OneMoves DEF AuthorityInv

LEMMA WorkIsOnGoals ==
    ASSUME InboxShape, NEW s \in Sessions
    PROVE  (job[s] # NoJob => job[s].goal \in Goals) /\ (At(s, "fill_claim") => job[s] # NoJob)
<1>1. NoJob.at \notin Stages /\ "fill_claim" \in Stages
    BY InboxAssumption DEF NoJob, Stages
<1> QED
    BY <1>1, StageIsOfAJob DEF At

\* A daemon that takes a goal keeps the candidate it was allowed.
LEMMA TakeKeeps ==
    ASSUME TickInv, InboxShape, NEW s \in Sessions, ClaimGoal(s)
    PROVE  Keeps
<1>1. /\ Is(s, "claim")
      /\ UNCHANGED <<gates, resolved, marks, chat, service, control, told, approvals, runs>>
      /\ EndTick(s) \/ Then(s, "run") \/ UNCHANGED daemon
    BY DEF ClaimGoal
<1>2. disturbed' \subseteq Goals
    BY TickTypes, WorkIsOnGoals DEF ClaimGoal
<1>3. Found(gates, daemon[s].cand)
    BY <1>1, TickTypes DEF Ticks, Is, Choosing
<1>4. CASE EndTick(s)
    BY <1>1, <1>2, <1>4, TickTypes, IdlingKeeps
<1>5. CASE Then(s, "run")
    <2>1. "run" \in Stage
        BY DEF Stage
    <2>2. PICK new \in Process :
              /\ daemon' = [daemon EXCEPT ![s] = new]
              /\ new.at = "run" /\ new.cand = daemon[s].cand /\ new.unattended = daemon[s].unattended
        BY <1>5, <2>1, ThenMoves DEF TickInv
    <2>3. Ticks(gates, new)
        BY <1>3, <2>2 DEF Ticks, AtAGate
    <2>4. AuthorityInv => TickIsBacked(gates, approvals, new)
        BY <1>1, <2>2 DEF AuthorityInv, TicksAreBacked, TickIsBacked, Is, Choosing
    <2> QED
        BY <1>1, <1>2, <2>2, <2>3, <2>4, TickTypes, TickMoves
<1>6. CASE UNCHANGED daemon
    <2>1. daemon' = [daemon EXCEPT ![s] = daemon[s]]
        BY <1>6 DEF TickInv, DaemonShape
    <2>2. AuthorityInv => TickIsBacked(gates, approvals, daemon[s])
        BY DEF AuthorityInv, TicksAreBacked
    <2> QED
        BY <1>1, <1>2, <2>1, <2>2, TickTypes, TickMoves
<1> QED
    BY <1>1, <1>4, <1>5, <1>6

LEMMA ExecuteKeeps ==
    ASSUME TickInv, NEW s \in Sessions, ExecuteTask(s)
    PROVE  Keeps
<1> DEFINE at == IF daemon[s].cand.gate = None THEN "close" ELSE "mark"
           run == [cand |-> daemon[s].cand, unattended |-> daemon[s].unattended]
<1>1. /\ Is(s, "run") /\ runs' = Append(runs, run) /\ Then(s, at)
      /\ UNCHANGED <<gates, resolved, marks, chat, service, control, told, approvals, disturbed>>
    BY DEF ExecuteTask
<1>2. Found(gates, daemon[s].cand) /\ daemon[s].cand \in Candidate
    BY <1>1, TickTypes DEF Ticks, Found, Is, Choosing
<1>3. daemon[s].unattended \in BOOLEAN
    BY TickTypes DEF Process
<1>4. run \in [cand : Candidate, unattended : BOOLEAN]
    BY <1>2, <1>3
<1>5. at \in {"close", "mark"} /\ (at = "mark" => daemon[s].cand.gate # None) /\ at \in Stage
    BY DEF Stage
<1>6. PICK new \in Process :
          daemon' = [daemon EXCEPT ![s] = new] /\ new.at = at /\ new.cand = daemon[s].cand
    BY <1>1, <1>5, ThenMoves DEF TickInv
<1>7. AuthorityInv => Backed(gates, approvals, run.cand.goal, run.unattended)
    BY <1>1 DEF AuthorityInv, TicksAreBacked, TickIsBacked, Is
<1> HIDE DEF at, run
<1>8. runs' \in Seq([cand : Candidate, unattended : BOOLEAN])
    <2> DEFINE R == [cand : Candidate, unattended : BOOLEAN]
    <2>1. runs \in Seq(R) /\ run \in R
        BY <1>4, TickTypes
    <2> HIDE DEF R
    <2>2. runs' \in Seq(R)
        BY <1>1, <2>1
    <2> QED
        BY <2>2 DEF R
<1>9. \A i \in DOMAIN runs' : (i \in DOMAIN runs /\ runs'[i] = runs[i]) \/ runs'[i] = run
    BY <1>1, <1>4, TickTypes
<1>10. AuthorityInv => RunsAreBacked'
    BY <1>1, <1>7, <1>9 DEF AuthorityInv, RunsAreBacked
<1>11. Ticks(gates, new) /\ (AuthorityInv => TickIsBacked(gates, approvals, new))
    BY <1>1, <1>2, <1>5, <1>6 DEF Ticks, TickIsBacked, AtAGate, AuthorityInv, TicksAreBacked, Is, Choosing
<1> QED
    BY <1>1, <1>6, <1>8, <1>10, <1>11, TickTypes, TickMoves

LEMMA CloseKeeps ==
    ASSUME TickInv, NEW s \in Sessions, CloseTask(s)
    PROVE  Keeps
<1>1. UNCHANGED <<gates, resolved, marks, chat, service, control, told, approvals, runs, disturbed>>
    BY DEF CloseTask
<1>2. CASE EndTick(s)
    BY <1>1, <1>2, TickTypes, IdlingKeeps
<1>3. CASE UNCHANGED daemon
    <2>1. daemon' = [daemon EXCEPT ![s] = daemon[s]]
        BY <1>3 DEF TickInv, DaemonShape
    <2>2. AuthorityInv => TickIsBacked(gates, approvals, daemon[s])
        BY DEF AuthorityInv, TicksAreBacked
    <2> QED
        BY <1>1, <2>1, <2>2, TickTypes, TickMoves
<1> QED
    BY <1>2, <1>3 DEF CloseTask

LEMMA MarkKeeps ==
    ASSUME TickInv, NEW s \in Sessions, MarkDispatched(s)
    PROVE  Keeps
<1>1. /\ Is(s, "mark") /\ EndTick(s) /\ marks' = marks \cup {<<daemon[s].cand.gate, "json.dispatched">>}
      /\ UNCHANGED <<gates, resolved, chat, service, control, told, approvals, runs, disturbed>>
    BY DEF MarkDispatched
<1>2. daemon[s].cand.gate \in GateId
    BY <1>1, TickTypes DEF Ticks, Found, Is, Choosing
<1>3. marks' \subseteq GateId \X {"dispatched", "json.dispatched"}
    BY <1>1, <1>2, TickTypes
<1> QED
    BY <1>1, <1>3, TickTypes, IdlingKeeps

LEMMA DeathKeeps ==
    ASSUME TickInv, InboxShape, NEW s \in Sessions, DaemonDies(s)
    PROVE  Keeps
<1>1. /\ Then(s, "over")
      /\ UNCHANGED <<gates, resolved, marks, chat, service, control, told, approvals, runs>>
    BY DEF DaemonDies
<1>2. "over" \in Stage \ Choosing
    BY DEF Stage, Choosing
<1>3. disturbed' \subseteq Goals
    BY TickTypes, WorkIsOnGoals DEF DaemonDies
<1> QED
    BY <1>1, <1>2, <1>3, TickTypes, IdlingKeeps

-----------------------------------------------------------------------------
(* The principal.                                                          *)

LEMMA SayKeeps ==
    ASSUME TickInv, NEW say \in {"APPROVE", "SKIP", "STOP", "PAUSE"}, NEW n \in DOMAIN gates \cup {None}, Say(say, n)
    PROVE  Keeps
<1> DEFINE said == [say |-> say, gate |-> n]
<1>1. /\ told < MaxMessages /\ told' = told + 1 /\ chat' = Append(chat, said)
      /\ approvals' = IF say # "APPROVE" THEN approvals
                      ELSE approvals \cup (IF n = None THEN DOMAIN gates ELSE {n})
      /\ n = None => Typed
      /\ UNCHANGED <<daemon, gates, resolved, marks, service, control, runs, disturbed>>
    BY DEF Say
<1>2. said \in Message /\ said.say = say /\ said.gate = n
    BY GatesHaveIds DEF Message, TickInv
<1>3. n # None => n \in DOMAIN gates
    OBVIOUS
<1> HIDE DEF said
<1>4. chat \in Seq(Message) /\ told \in 0 .. MaxMessages /\ approvals \subseteq DOMAIN gates
    BY DEF TickInv, DaemonShape
<1>5. /\ chat' \in Seq(Message)
      /\ \A i \in DOMAIN chat' : (i \in DOMAIN chat /\ chat'[i] = chat[i]) \/ chat'[i] = said
    BY <1>1, <1>2, <1>4
<1>6. told' \in 0 .. MaxMessages
    BY <1>1, <1>4, DaemonAssumption
<1>7. approvals \subseteq approvals' /\ approvals' \subseteq DOMAIN gates /\ (say = "APPROVE" /\ n # None => n \in approvals')
    BY <1>1, <1>3, <1>4
<1>8. DaemonShape'
    BY <1>1, <1>5, <1>6, <1>7 DEF TickInv, DaemonShape
<1>9. VerdictsHaveGates'
    BY <1>1, <1>2, <1>3, <1>5 DEF TickInv, VerdictsHaveGates
<1>10. TickInv'
    BY <1>1, <1>8, <1>9 DEF TickInv, GatesDeepen, TicksHaveSubjects
<1>11. ASSUME AuthorityInv, ~Typed
       PROVE  AuthorityInv'
    <2>1. VerdictsAreVouched'
        BY <1>1, <1>2, <1>5, <1>7, <1>11 DEF AuthorityInv, VerdictsAreVouched, Vouched
    <2>2. TicksAreBacked' /\ RunsAreBacked'
        BY <1>1, <1>7, <1>11 DEF AuthorityInv, TicksAreBacked, TickIsBacked, RunsAreBacked, Backed
    <2> QED
        BY <2>1, <2>2 DEF AuthorityInv
<1> QED
    BY <1>10, <1>11 DEF Keeps

LEMMA BeginResolveKeeps ==
    ASSUME TickInv, NEW n \in GateId, NEW option \in Option, BeginResolve(n, option)
    PROVE  Keeps
<1> DEFINE verdict == [gate |-> n, option |-> option]
           call == [verdict |-> verdict, written |-> FALSE]
<1>1. /\ told < MaxMessages /\ told' = told + 1 /\ n \in DOMAIN gates /\ service' = call
      /\ approvals' = IF option = "approve" THEN approvals \cup {n} ELSE approvals
      /\ UNCHANGED <<daemon, gates, resolved, marks, chat, control, runs, disturbed>>
    BY DEF BeginResolve
<1>2. /\ verdict \in Resolution /\ verdict.gate = n /\ verdict.option = option
      /\ call \in Resolving /\ call.verdict = verdict
    BY DEF Resolution, Resolving
<1> HIDE DEF verdict, call
<1>3. told' \in 0 .. MaxMessages
    BY <1>1, DaemonAssumption DEF TickInv, DaemonShape
<1>4. approvals \subseteq approvals' /\ approvals' \subseteq DOMAIN gates /\ (option = "approve" => n \in approvals')
    BY <1>1 DEF TickInv, DaemonShape
<1>5. DaemonShape'
    BY <1>1, <1>2, <1>3, <1>4 DEF TickInv, DaemonShape
<1>6. VerdictsHaveGates'
    BY <1>1, <1>2 DEF TickInv, VerdictsHaveGates
<1>7. TickInv'
    BY <1>1, <1>5, <1>6 DEF TickInv, GatesDeepen, TicksHaveSubjects
<1>8. ASSUME AuthorityInv
      PROVE  AuthorityInv'
    <2>1. VerdictsAreVouched'
        BY <1>1, <1>2, <1>4, <1>8 DEF AuthorityInv, VerdictsAreVouched, Vouched
    <2>2. TicksAreBacked' /\ RunsAreBacked'
        BY <1>1, <1>4, <1>8 DEF AuthorityInv, TicksAreBacked, TickIsBacked, RunsAreBacked, Backed
    <2> QED
        BY <2>1, <2>2 DEF AuthorityInv
<1> QED
    BY <1>7, <1>8 DEF Keeps

LEMMA ServiceKeeps ==
    ASSUME TickInv, ServiceResolves
    PROVE  Keeps
<1> DEFINE n == service.verdict.gate
           option == service.verdict.option
<1>1. /\ service # None /\ WriteVerdict(n, option) /\ service' = [service EXCEPT !.written = TRUE]
      /\ UNCHANGED <<daemon, gates, marks, chat, control, told, approvals, runs, disturbed>>
    BY DEF ServiceResolves
<1>2. service \in Resolving /\ n \in DOMAIN gates
    BY <1>1 DEF TickInv, DaemonShape, VerdictsHaveGates
<1>3. option \in Option /\ service' \in Resolving
    BY <1>1, <1>2 DEF Resolving, Resolution
<1>4. AuthorityInv => (option = "approve" => n \in approvals)
    BY <1>1 DEF AuthorityInv, VerdictsAreVouched, Vouched
<1> HIDE DEF n, option
<1>5. /\ resolved' \in Seq(Resolution) /\ VerdictsHaveGates'
      /\ VerdictsAreVouched /\ (option = "approve" => n \in approvals) => VerdictsAreVouched'
    BY <1>1, <1>2, <1>3, WritingKeepsGates
<1>6. DaemonShape'
    BY <1>1, <1>3, <1>5 DEF TickInv, DaemonShape
<1>7. GatesDeepen' /\ TicksHaveSubjects'
    BY <1>1 DEF TickInv, GatesDeepen, TicksHaveSubjects
<1>8. AuthorityInv => AuthorityInv'
    BY <1>1, <1>4, <1>5 DEF AuthorityInv, TicksAreBacked, RunsAreBacked
<1> QED
    BY <1>5, <1>6, <1>7, <1>8 DEF Keeps, TickInv

LEMMA ServiceHandlesKeeps ==
    ASSUME TickInv, ServiceHandles
    PROVE  Keeps
<1> DEFINE n == service.verdict.gate
<1>1. /\ service # None /\ service' = None
      /\ gates' = [gates EXCEPT ![n].file = "handled"]
      /\ UNCHANGED <<daemon, resolved, marks, chat, control, told, approvals, runs, disturbed>>
    BY DEF ServiceHandles
<1>2. n \in DOMAIN gates
    BY <1>1 DEF TickInv, VerdictsHaveGates
<1> HIDE DEF n
<1>3. /\ gates' \in Seq(Gate) /\ Len(gates') = Len(gates) /\ DOMAIN gates' = DOMAIN gates
      /\ Stay(gates, gates') /\ GatesDeepen'
    BY <1>1, <1>2, GatesChange
<1>4. DaemonShape' /\ VerdictsHaveGates'
    BY <1>1, <1>3 DEF TickInv, DaemonShape, VerdictsHaveGates
<1>5. TicksHaveSubjects'
    BY <1>1, <1>3, TicksGoOn DEF TickInv, TicksHaveSubjects
<1>6. ASSUME AuthorityInv
      PROVE  AuthorityInv'
    <2>1. approvals \in SUBSET DOMAIN gates /\ approvals \subseteq approvals'
        BY <1>1 DEF TickInv, DaemonShape
    <2>2. TicksAreBacked'
        BY <1>1, <1>3, <1>6, <2>1, BackingLasts DEF AuthorityInv, TicksAreBacked
    <2>3. RunsAreBacked'
        BY <1>1, <1>3, <1>6, <2>1, AuthorityLasts DEF AuthorityInv, RunsAreBacked
    <2>4. VerdictsAreVouched'
        BY <1>1, <1>6 DEF AuthorityInv, VerdictsAreVouched
    <2> QED
        BY <2>2, <2>3, <2>4 DEF AuthorityInv
<1> QED
    BY <1>3, <1>4, <1>5, <1>6 DEF Keeps, TickInv

LEMMA ControlKeeps ==
    ASSUME TickInv, NEW action \in {"STOP", "PAUSE"}, IssueControl(action)
    PROVE  Keeps
<1>1. /\ told < MaxMessages /\ told' = told + 1 /\ control' = action
      /\ UNCHANGED <<daemon, gates, resolved, marks, chat, service, approvals, runs, disturbed>>
    BY DEF IssueControl
<1>2. told' \in 0 .. MaxMessages
    BY <1>1, DaemonAssumption DEF TickInv, DaemonShape
<1>3. DaemonShape'
    BY <1>1, <1>2 DEF TickInv, DaemonShape
<1> QED
    BY <1>1, <1>3 DEF Keeps, TickInv, GatesDeepen, TicksHaveSubjects, VerdictsHaveGates, AuthorityInv, TicksAreBacked,
                      VerdictsAreVouched, RunsAreBacked

LEMMA RestingKeeps ==
    ASSUME TickInv, UNCHANGED daemonVars
    PROVE  Keeps
BY DEF daemonVars, Keeps, TickInv, DaemonShape, GatesDeepen, TicksHaveSubjects, VerdictsHaveGates, AuthorityInv,
       TicksAreBacked, VerdictsAreVouched, RunsAreBacked

LEMMA EveryStepKeeps ==
    ASSUME TickInv, InboxShape, [DaemonNext]_vars
    PROVE  Keeps
<1>1. ASSUME NEW s \in Sessions, TickStep(s)
      PROVE  Keeps
    BY <1>1, PreTickKeeps, DiscoverKeeps, ReuseGateKeeps, OpenGateKeeps, FillGateKeeps, ReadResolvedKeeps, PollKeeps,
       TimeOutKeeps, ResolveKeeps, HandleKeeps, TakeKeeps, ExecuteKeeps, CloseKeeps, MarkKeeps DEF TickStep
<1>2. ASSUME NEW s \in Sessions, (\E mode \in Modes : StartDaemon(s, mode)) \/ DaemonDies(s)
      PROVE  Keeps
    BY <1>2, StartKeeps, DeathKeeps
<1>3. ASSUME \/ \E say \in {"APPROVE", "SKIP", "STOP", "PAUSE"}, n \in DOMAIN gates \cup {None} : Say(say, n)
             \/ \E n \in GateId, option \in Option : BeginResolve(n, option)
             \/ ServiceResolves \/ ServiceHandles
             \/ \E action \in {"STOP", "PAUSE"} : IssueControl(action)
      PROVE  Keeps
    BY <1>3, SayKeeps, BeginResolveKeeps, ServiceKeeps, ServiceHandlesKeeps, ControlKeeps
<1>4. ASSUME (\E g \in Goals : ExpireClaim(g) /\ UNCHANGED daemonVars) \/ UNCHANGED vars
      PROVE  Keeps
    <2>1. UNCHANGED daemonVars
        BY <1>4 DEF vars
    <2> QED
        BY <2>1, RestingKeeps
<1> QED
    BY <1>1, <1>2, <1>3, <1>4 DEF DaemonNext

-----------------------------------------------------------------------------

LEMMA DaemonStart == DaemonInit => InboxInv /\ TickInv /\ AuthorityInv
<1> SUFFICES ASSUME DaemonInit PROVE InboxInv /\ TickInv /\ AuthorityInv
    OBVIOUS
<1> DEFINE new == [at |-> "new", cand |-> NoCandidate, gate |-> None, option |-> None, known |-> {},
                   unattended |-> FALSE]
<1>1. InboxInv
    BY InboxStart DEF DaemonInit
<1>2. new \in Process /\ new.at \notin Choosing
    BY DEF Process, Choosing
<1>3. daemon = [s \in Sessions |-> new]
    BY DEF DaemonInit
<1> HIDE DEF new
<1>4. \A s \in Sessions : daemon[s] \in Process /\ Ticks(gates, daemon[s]) /\ TickIsBacked(gates, approvals, daemon[s])
    BY <1>2, <1>3, Idling
<1>5. /\ DOMAIN gates = {} /\ DOMAIN resolved = {} /\ DOMAIN chat = {} /\ DOMAIN runs = {}
      /\ gates \in Seq(Gate) /\ Len(gates) <= MaxGates
      /\ resolved \in Seq(Resolution) /\ chat \in Seq(Message)
    BY DaemonAssumption DEF DaemonInit
<1>6. runs \in Seq([cand : Candidate, unattended : BOOLEAN]) /\ told \in 0 .. MaxMessages
    BY DaemonAssumption DEF DaemonInit
<1>7. service = None /\ control = None /\ marks = {} /\ approvals = {} /\ disturbed = {}
    BY DEF DaemonInit
<1>8. daemon \in [Sessions -> Process]
    BY <1>2, <1>3
<1>9. DaemonShape
    BY <1>5, <1>6, <1>7, <1>8 DEF DaemonShape
<1>10. TickInv
    BY <1>4, <1>5, <1>7, <1>9 DEF TickInv, GatesDeepen, TicksHaveSubjects, VerdictsHaveGates
<1>11. AuthorityInv
    BY <1>4, <1>5, <1>7 DEF AuthorityInv, TicksAreBacked, VerdictsAreVouched, RunsAreBacked
<1> QED
    BY <1>1, <1>10, <1>11

LEMMA DaemonInvariant == DaemonSpec => [](InboxInv /\ TickInv)
<1>1. DaemonInit => InboxInv /\ TickInv
    BY DaemonStart
<1>2. InboxInv /\ TickInv /\ [DaemonNext]_vars => (InboxInv /\ TickInv)'
    BY DaemonsKeepTheInbox, EveryStepKeeps DEF InboxInv, TickInv, Keeps
<1> QED
    BY <1>1, <1>2, PTL DEF DaemonSpec

\* Every file, call, tick, gate and message of the daemons has its type; a
\* gate about a gate is never deeper than there are gates.
THEOREM DaemonTypeCorrect == DaemonSpec => []DaemonTypeOK
<1>1. InboxInv /\ TickInv => DaemonTypeOK
    <2> SUFFICES ASSUME InboxInv, TickInv PROVE DaemonTypeOK
        OBVIOUS
    <2>1. {Written, Absent} \subseteq File
        BY DEF File, Written, Text
    <2>2. InboxTypeOK
        BY <2>1 DEF InboxInv, InboxShape, InboxTypeOK
    <2>3. approvals \subseteq GateId
        BY GatesHaveIds DEF TickInv, DaemonShape
    <2> QED
        BY <2>2, <2>3 DEF TickInv, DaemonShape, DaemonTypeOK
<1> QED
    BY <1>1, DaemonInvariant, PTL

\* claim_goal (goals_inbox.py) gives a goal to one session, however many read,
\* claim, die and expire at once: whoever unlinks the pending file has it.
THEOREM GoalsAreHandedOutOnce == DaemonSpec => []HandedOutOnce
<1>1. InboxInv => HandedOutOnce
    BY DEF InboxInv, OneRemoves, HandedOutOnce, OneClaimer
<1> QED
    BY <1>1, DaemonInvariant, PTL

\* A goal's file is in one of the folders at every moment, and the principal's
\* words are in it once nobody moves it, unless the goal was disturbed.
THEOREM GoalsAreKept == DaemonSpec => []InboxIsKept
<1>1. InboxInv => InboxIsKept
    <2> SUFFICES ASSUME InboxInv, NEW g \in Goals
                 PROVE  /\ \E folder \in {pending, active, done} : folder[g] # Absent
                        /\ g \in disturbed \/ Moving(g)
                           \/ \E folder \in {pending, active, done} : folder[g] \in Text /\ folder[g].body
        BY DEF InboxIsKept, GoalIsKept
    <2>1. \E folder \in {pending, active, done} : folder[g] # Absent
        BY DEF InboxInv, FilesFollow, Survives
    <2>2. pending[g] # Absent => Full(pending[g])
        <3>1. Full(Written)
            BY DEF Full, Written, Text
        <3> QED
            BY <3>1 DEF InboxInv, InboxShape
    <2>3. g \in disturbed \/ Kept(g)
        BY DEF InboxInv, WordsAreCarried
    <2> QED
        BY <2>1, <2>2, <2>3 DEF Kept, Full, Moving
<1> QED
    BY <1>1, DaemonInvariant, PTL

\* An agent is run for a goal only on the scope of the role or on the word of
\* the principal about a gate of that goal, whoever wrote the verdict and
\* however many daemons polled, crashed and started again - as long as the
\* principal taps buttons: a typed APPROVE names no gate, and answers the gate
\* that a daemon opens next.
THEOREM NothingRunsUnapproved ==
    ASSUME ~Typed
    PROVE  DaemonSpec => []NothingUnapproved
<1> DEFINE Inv == InboxInv /\ TickInv /\ AuthorityInv
<1>1. DaemonInit => Inv
    BY DaemonStart
<1>2. Inv /\ [DaemonNext]_vars => Inv'
    BY DaemonsKeepTheInbox, EveryStepKeeps DEF InboxInv, TickInv, Keeps
<1>3. Inv => NothingUnapproved
    BY DEF AuthorityInv, RunsAreBacked, Backed, NothingUnapproved
<1> QED
    BY <1>1, <1>2, <1>3, PTL DEF DaemonSpec

-----------------------------------------------------------------------------
(* Owners: the inbox and its daemons implement OwnedGoals.                 *)

\* The ticks in which a daemon has to do with a goal's files, the stages of
\* its two calls, and those past the done file.
Owning == {"claim", "run", "close"}
Claiming == {"claim", "open_claim", "fill_claim", "read", "open_active", "fill_active", "unlink_pending", "parse"}
Closing == Past \ {"parse"}
Closed == {"unlink_active", "release", "unlink_claim"}

\* The call a session is in is the one its tick has made.
CallFits(p, j) ==
    /\ p.at = "claim" => p.cand.gate = None /\ (j = NoJob \/ (j.at \in Claiming /\ j.goal = p.cand.goal))
    /\ p.at = "run" => IF p.cand.gate = None THEN j.at = "working" /\ j.goal = p.cand.goal ELSE j = NoJob
    /\ p.at = "close" => p.cand.gate = None /\ j.at \in Closing /\ j.goal = p.cand.goal
    /\ p.at \notin Owning => j = NoJob

OneOwner ==
    \A s, r \in Sessions :
        job[s].at \in Past /\ job[r].at \in Past /\ job[s].goal = job[r].goal => s = r

\* What waits is new, and what is owned is as far as its owner.
WaitingIsNew == \A g \in Goals : pending[g] # Absent => done[g] \notin Text /\ ~Ran(g)

Reached(s) ==
    job[s].at \in Past =>
        /\ Ran(job[s].goal) <=> daemon[s].at = "close"
        /\ done[job[s].goal] \in Text <=> job[s].at \in Closed

OwnerInv ==
    /\ \A s \in Sessions : CallFits(daemon[s], job[s]) /\ Reached(s)
    /\ OneOwner /\ WaitingIsNew

StageMap == [g \in Goals |-> StageOf(g)]
HolderMap == [g \in Goals |-> HolderOf(g)]

\* One session moves at a time.
Alone(s) == \A r \in Sessions \ {s} : daemon'[r] = daemon[r] /\ job'[r] = job[r]

\* What a step has to show: the invariant, and a step of the abstract inbox.
Owns == OwnerInv' /\ [Owned!Next]_(Owned!vars)

LEMMA StagesOfCalls ==
    /\ Past \subseteq Stages /\ Claiming \subseteq Stages
    /\ NoJob.at \notin Past /\ NoJob.at \notin Claiming /\ NoJob.at \notin Stages
<1>1. Past \subseteq Stages /\ Claiming \subseteq Stages
    BY DEF Past, Claiming, Stages
<1>2. NoJob.at \notin Stages
    BY InboxAssumption DEF NoJob
<1> QED
    BY <1>1, <1>2

\* Whoever has a goal is its holder.
LEMMA HolderIs ==
    ASSUME OneOwner, NEW g \in Goals
    PROVE  /\ \A s \in Sessions : Has(s, g) => HolderOf(g) = s
           /\ (\A s \in Sessions : ~Has(s, g)) => HolderOf(g) = None
           /\ HolderOf(g) # None => \E s \in Sessions : Has(s, g) /\ HolderOf(g) = s
<1>1. ASSUME NEW s \in Sessions, Has(s, g)
      PROVE  HolderOf(g) = s
    <2>1. \A r \in Sessions : Has(r, g) => r = s
        BY <1>1 DEF OneOwner, Has
    <2> QED
        BY <1>1, <2>1 DEF HolderOf
<1>2. (\A s \in Sessions : ~Has(s, g)) => HolderOf(g) = None
    BY DEF HolderOf
<1> QED
    BY <1>1, <1>2

\* The goals of other sessions have the holders they had.
LEMMA OtherHolders ==
    ASSUME OneOwner, OneOwner', NEW s \in Sessions, Alone(s), NEW g \in Goals, Has(s, g) <=> Has(s, g)'
    PROVE  HolderOf(g)' = HolderOf(g)
<1>1. \A r \in Sessions : Has(r, g)' <=> Has(r, g)
    BY DEF Alone, Has
<1>2. CASE \E r \in Sessions : Has(r, g)
    <2>1. PICK r \in Sessions : Has(r, g)
        BY <1>2
    <2>2. HolderOf(g) = r
        BY <2>1, HolderIs
    <2>3. \A q \in Sessions : Has(q, g)' => q = r
        BY <1>1, <2>1 DEF OneOwner, Has
    <2>4. HolderOf(g)' = r
        BY <1>1, <2>1, <2>3 DEF HolderOf
    <2> QED
        BY <2>2, <2>4
<1>3. CASE ~\E r \in Sessions : Has(r, g)
    BY <1>1, <1>3 DEF HolderOf
<1> QED
    BY <1>2, <1>3

\* A step that gets no goal any further: its session goes on, or leaves.
LEMMA NothingAdvances ==
    ASSUME InboxShape, OwnerInv, NEW s \in Sessions, Alone(s), UNCHANGED pending,
           \A g \in Goals : (done'[g] \in Text <=> done[g] \in Text) /\ (Ran(g)' <=> Ran(g)),
           CallFits(daemon'[s], job'[s]), job'[s] \in Job \cup {NoJob},
           job'[s].at \in Past => job[s].at \in Past /\ job'[s].goal = job[s].goal /\ Reached(s)'
    PROVE  Owns
<1>1. OneOwner'
    BY DEF OwnerInv, OneOwner, Alone
<1>2. WaitingIsNew'
    BY DEF OwnerInv, WaitingIsNew
<1>3. \A r \in Sessions \ {s} : CallFits(daemon'[r], job'[r]) /\ Reached(r)'
    <2> SUFFICES ASSUME NEW r \in Sessions \ {s} PROVE CallFits(daemon'[r], job'[r]) /\ Reached(r)'
        OBVIOUS
    <2>1. daemon'[r] = daemon[r] /\ job'[r] = job[r] /\ CallFits(daemon[r], job[r]) /\ Reached(r)
        BY DEF OwnerInv, Alone
    <2>2. job[r].at \in Past => job[r].goal \in Goals
        BY StageIsOfAJob, StagesOfCalls
    <2> QED
        BY <2>1, <2>2 DEF Reached
<1>4. OwnerInv'
    <2>1. \A r \in Sessions : CallFits(daemon[r], job[r])' /\ Reached(r)'
        <3> SUFFICES ASSUME NEW r \in Sessions PROVE CallFits(daemon[r], job[r])' /\ Reached(r)'
            OBVIOUS
        <3>1. CASE r # s
            BY <1>3, <3>1 DEF CallFits
        <3>2. CASE r = s
            <4>1. CallFits(daemon[r], job[r])'
                BY <3>2 DEF CallFits
            <4>2. Reached(r)'
                BY <3>2 DEF Reached
            <4> QED
                BY <4>1, <4>2
        <3> QED
            BY <3>1, <3>2
    <2> QED
        BY <1>1, <1>2, <2>1 DEF OwnerInv
<1>5. StageMap' = StageMap
    <2>1. \A g \in Goals : StageOf(g)' = StageOf(g)
        BY DEF StageOf
    <2> QED
        BY <2>1 DEF StageMap
<1>6. CASE \A g \in Goals : Has(s, g) => Has(s, g)'
    <2>1. \A g \in Goals : Has(s, g) <=> Has(s, g)'
        BY <1>6 DEF Has
    <2>2. \A g \in Goals : HolderOf(g)' = HolderOf(g)
        BY <1>1, <2>1, OtherHolders DEF OwnerInv
    <2>3. HolderMap' = HolderMap
        BY <2>2 DEF HolderMap
    <2> QED
        BY <1>4, <1>5, <2>3 DEF Owns, Owned!vars, StageMap, HolderMap
<1>7. CASE ~\A g \in Goals : Has(s, g) => Has(s, g)'
    <2>1. PICK g \in Goals : Has(s, g) /\ ~Has(s, g)'
        BY <1>7
    <2>2. \A h \in Goals : ~Has(s, h)'
        BY <2>1 DEF Has
    <2>3. \A r \in Sessions : ~Has(r, g)'
        BY <2>1, <2>2 DEF Has, OwnerInv, OneOwner, Alone
    <2>4. HolderOf(g)' = None /\ HolderOf(g) = s
        BY <2>1, <2>3, HolderIs DEF HolderOf, OwnerInv
    <2>5. \A h \in Goals \ {g} : HolderOf(h)' = HolderOf(h)
        <3>1. \A h \in Goals \ {g} : Has(s, h) <=> Has(s, h)'
            BY <2>1, <2>2 DEF Has
        <3> QED
            BY <1>1, <3>1, OtherHolders DEF OwnerInv
    <2>6. HolderMap' = [HolderMap EXCEPT ![g] = None] /\ HolderMap[g] # None
        BY <2>4, <2>5, InboxAssumption DEF HolderMap
    <2>7. Owned!Leave(g)
        BY <1>5, <2>6 DEF Owned!Leave, StageMap, HolderMap
    <2> QED
        BY <1>4, <2>7 DEF Owns, Owned!Next
<1> QED
    BY <1>6, <1>7

\* What a tick does with itself.
LEMMA TickGoes ==
    ASSUME DaemonShape, NEW s \in Sessions, NEW at \in Stage, Then(s, at)
    PROVE  /\ daemon'[s].at = at /\ daemon'[s].cand = daemon[s].cand
           /\ \A r \in Sessions \ {s} : daemon'[r] = daemon[r]
<1>1. PICK new \in Process : daemon' = [daemon EXCEPT ![s] = new] /\ new.at = at /\ new.cand = daemon[s].cand
    BY ThenMoves
<1> QED
    BY <1>1 DEF DaemonShape

LEMMA TickEnds ==
    ASSUME DaemonShape, NEW s \in Sessions, EndTick(s)
    PROVE  /\ daemon'[s].at \notin Owning
           /\ \A r \in Sessions \ {s} : daemon'[r] = daemon[r]
<1>1. PICK new \in Process : daemon' = [daemon EXCEPT ![s] = new] /\ new.at \notin Choosing
    BY EndTickMoves
<1>2. Owning \subseteq Choosing
    BY DEF Owning, Choosing
<1> QED
    BY <1>1, <1>2 DEF DaemonShape

\* A tick that touches no goal, and makes no call unless it comes to that.
Quiet(s) ==
    /\ UNCHANGED <<inboxVars, runs>> /\ daemon[s].at \notin Owning
    /\ \A r \in Sessions \ {s} : daemon'[r] = daemon[r]
    /\ daemon'[s].at \in Owning =>
           daemon'[s].at = IF daemon'[s].cand.gate = None THEN "claim" ELSE "run"

LEMMA QuietOwns ==
    ASSUME InboxShape, OwnerInv, NEW s \in Sessions, Quiet(s)
    PROVE  Owns
<1>1. job[s] = NoJob /\ job' = job
    BY DEF OwnerInv, CallFits, Quiet, inboxVars
<1>2. CallFits(daemon'[s], job'[s])
    BY <1>1 DEF Quiet, CallFits, Owning
<1>3. \A g \in Goals : done'[g] = done[g] /\ (Ran(g)' <=> Ran(g))
    BY DEF Quiet, inboxVars, Ran
<1>4. Alone(s) /\ UNCHANGED pending
    BY <1>1 DEF Quiet, Alone, inboxVars
<1>5. job'[s].at \notin Past
    BY <1>1, StagesOfCalls
<1> QED
    BY <1>1, <1>2, <1>3, <1>4, <1>5, NothingAdvances

LEMMA EndsQuietly ==
    ASSUME DaemonShape, NEW s \in Sessions, EndTick(s), UNCHANGED <<inboxVars, runs>>, daemon[s].at \notin Owning
    PROVE  Quiet(s)
BY TickEnds DEF Quiet

LEMMA GoesQuietly ==
    ASSUME DaemonShape, NEW s \in Sessions, NEW at \in Stage \ Owning, Then(s, at),
           UNCHANGED <<inboxVars, runs>>, daemon[s].at \notin Owning
    PROVE  Quiet(s)
BY TickGoes DEF Quiet

\* Asking: from the gate to its file, or to the wait.
LEMMA AsksQuietly ==
    ASSUME DaemonShape, NEW s \in Sessions, NEW n, AfterGate(s, n), UNCHANGED <<inboxVars, runs>>,
           daemon[s].at \notin Owning
    PROVE  Quiet(s)
<1>1. CASE daemon[s].unattended
    BY <1>1, EndsQuietly DEF AfterGate
<1>2. CASE ~daemon[s].unattended
    <2>1. daemon' = [daemon EXCEPT ![s].at = "wait", ![s].gate = n]
        BY <1>2 DEF AfterGate
    <2>2. daemon'[s].at = "wait" /\ \A r \in Sessions \ {s} : daemon'[r] = daemon[r]
        BY <2>1 DEF DaemonShape, Process
    <2> QED
        BY <2>2 DEF Quiet, Owning
<1> QED
    BY <1>1, <1>2

LEMMA StartIsQuiet ==
    ASSUME DaemonShape, NEW s \in Sessions, NEW mode \in Modes, StartDaemon(s, mode)
    PROVE  Quiet(s)
<1>1. /\ daemon[s].at = "new" /\ daemon' = [daemon EXCEPT ![s].at = "rest", ![s].unattended = mode]
      /\ UNCHANGED <<inboxVars, runs>>
    BY DEF StartDaemon, Is
<1>2. daemon'[s].at = "rest" /\ \A r \in Sessions \ {s} : daemon'[r] = daemon[r]
    BY <1>1 DEF DaemonShape, Process
<1> QED
    BY <1>1, <1>2 DEF Quiet, Owning

LEMMA PreTickIsQuiet ==
    ASSUME DaemonShape, NEW s \in Sessions, PreTickChecks(s)
    PROVE  Quiet(s)
<1>1. daemon[s].at = "rest" /\ UNCHANGED <<inboxVars, runs>>
    BY DEF PreTickChecks, Is
<1>2. \E at \in {"over", "rest", "look"} : Then(s, at)
    BY Zenon DEF PreTickChecks
<1>3. {"over", "rest", "look"} \subseteq Stage \ Owning
    BY DEF Stage, Owning
<1> QED
    BY <1>1, <1>2, <1>3, GoesQuietly DEF Owning

LEMMA DiscoverIsQuiet ==
    ASSUME DaemonShape, NEW s \in Sessions, Discover(s)
    PROVE  Quiet(s)
<1>1. daemon[s].at = "look" /\ UNCHANGED <<inboxVars, runs>>
    BY DEF Discover, Is
<1>2. CASE Top = NoCandidate \/ Refused(Top)
    <2>1. EndTick(s)
        BY <1>2 DEF Discover
    <2> QED
        BY <1>1, <2>1, EndsQuietly DEF Owning
<1>3. CASE ~(Top = NoCandidate \/ Refused(Top))
    <2> DEFINE at == IF ~(daemon[s].unattended /\ Allowed(Top)) THEN "gate"
                     ELSE IF Top.gate = None THEN "claim" ELSE "run"
               found == Top
    <2>1. daemon' = [daemon EXCEPT ![s].cand = found, ![s].at = at]
        BY <1>3 DEF Discover
    <2>2. at \in Owning => at = IF found.gate = None THEN "claim" ELSE "run"
        BY DEF Owning
    <2> HIDE DEF at, found
    <2>3. daemon'[s].at = at /\ daemon'[s].cand = found /\ \A r \in Sessions \ {s} : daemon'[r] = daemon[r]
        BY <2>1 DEF DaemonShape, Process
    <2> QED
        BY <1>1, <2>2, <2>3 DEF Quiet, Owning
<1> QED
    BY <1>2, <1>3

LEMMA ReuseGateIsQuiet ==
    ASSUME DaemonShape, NEW s \in Sessions, ReuseGate(s)
    PROVE  Quiet(s)
BY AsksQuietly DEF ReuseGate, Is, Owning

LEMMA OpenGateIsQuiet ==
    ASSUME DaemonShape, NEW s \in Sessions, OpenGate(s)
    PROVE  Quiet(s)
<1> DEFINE n == Len(gates) + 1
<1>1. /\ daemon[s].at = "gate" /\ daemon' = [daemon EXCEPT ![s].at = "fill", ![s].gate = n]
      /\ UNCHANGED <<inboxVars, runs>>
    BY DEF OpenGate, Is
<1> HIDE DEF n
<1>2. daemon'[s].at = "fill" /\ \A r \in Sessions \ {s} : daemon'[r] = daemon[r]
    BY <1>1 DEF DaemonShape, Process
<1> QED
    BY <1>1, <1>2 DEF Quiet, Owning

LEMMA FillGateIsQuiet ==
    ASSUME DaemonShape, NEW s \in Sessions, FillGate(s)
    PROVE  Quiet(s)
BY AsksQuietly DEF FillGate, Is, Owning

LEMMA ReadResolvedIsQuiet ==
    ASSUME TickInv, NEW s \in Sessions, ReadResolvedGate(s)
    PROVE  Quiet(s)
<1> DEFINE n == daemon[s].gate
<1>1. Is(s, "wait") /\ HasVerdict(n) /\ UNCHANGED <<inboxVars, runs>> /\ DaemonShape
    BY DEF ReadResolvedGate, TickInv
<1>2. Verdict(n) \in Option
    <2>1. PICK i \in DOMAIN resolved : Verdict(n) = resolved[i].option
        BY <1>1, VerdictIsWritten
    <2>2. resolved[i] \in Resolution
        BY <1>1 DEF DaemonShape
    <2> QED
        BY <2>1, <2>2 DEF Resolution
<1>3. daemon[s].at \notin Owning
    BY <1>1 DEF Is, Owning
<1>4. CASE Verdict(n) # "approve"
    <2>1. EndTick(s) \/ Then(s, "over")
        BY <1>2, <1>4 DEF ReadResolvedGate, Option
    <2>2. "over" \in Stage \ Owning
        BY DEF Stage, Owning
    <2> QED
        BY <1>1, <1>3, <2>1, <2>2, EndsQuietly, GoesQuietly
<1>5. CASE Verdict(n) = "approve"
    <2> DEFINE at == IF daemon[s].cand.gate = None THEN "claim" ELSE "run"
    <2>1. Then(s, at)
        BY <1>5 DEF ReadResolvedGate
    <2>2. at \in Stage
        BY DEF Stage
    <2> HIDE DEF at
    <2>3. /\ daemon'[s].at = at /\ daemon'[s].cand = daemon[s].cand
          /\ \A r \in Sessions \ {s} : daemon'[r] = daemon[r]
        BY <1>1, <2>1, <2>2, TickGoes
    <2> QED
        BY <1>1, <1>3, <2>3 DEF Quiet, at
<1> QED
    BY <1>4, <1>5

LEMMA PollIsQuiet ==
    ASSUME DaemonShape, NEW s \in Sessions, PollGate(s)
    PROVE  Quiet(s)
<1> DEFINE n == daemon[s].gate
           at == IF gates[n].file = "open" THEN "resolve" ELSE "rest"
<1>1. daemon[s].at = "wait" /\ UNCHANGED <<inboxVars, runs>>
    BY DEF PollGate, Is
<1>2. \/ UNCHANGED daemon
      \/ daemon' = [daemon EXCEPT ![s].known = @ \cup {n}, ![s].at = at, ![s].option = Chosen(n)]
    BY DEF PollGate
<1>3. at \in {"resolve", "rest"}
    OBVIOUS
<1> HIDE DEF n, at
<1>4. daemon'[s].at \in {"wait", at} /\ \A r \in Sessions \ {s} : daemon'[r] = daemon[r]
    BY <1>1, <1>2 DEF DaemonShape, Process
<1> QED
    BY <1>1, <1>3, <1>4 DEF Quiet, Owning

LEMMA TimeOutIsQuiet ==
    ASSUME DaemonShape, NEW s \in Sessions, GateTimesOut(s)
    PROVE  Quiet(s)
BY EndsQuietly DEF GateTimesOut, Is, Owning

LEMMA ResolveIsQuiet ==
    ASSUME DaemonShape, NEW s \in Sessions, ResolveGate(s)
    PROVE  Quiet(s)
<1>1. daemon[s].at = "resolve" /\ Then(s, "handle") /\ UNCHANGED <<inboxVars, runs>>
    BY DEF ResolveGate, Is
<1> QED
    BY <1>1, GoesQuietly DEF Owning, Stage

LEMMA HandleIsQuiet ==
    ASSUME DaemonShape, NEW s \in Sessions, HandleGate(s)
    PROVE  Quiet(s)
<1>1. daemon[s].at = "handle" /\ UNCHANGED <<inboxVars, runs>>
    BY DEF HandleGate, Is
<1>2. EndTick(s) \/ daemon' = [daemon EXCEPT ![s].at = "wait", ![s].option = None]
    BY DEF HandleGate
<1>3. CASE EndTick(s)
    BY <1>1, <1>3, EndsQuietly DEF Owning
<1>4. CASE daemon' = [daemon EXCEPT ![s].at = "wait", ![s].option = None]
    <2>1. daemon'[s].at = "wait" /\ \A r \in Sessions \ {s} : daemon'[r] = daemon[r]
        BY <1>4 DEF DaemonShape, Process
    <2> QED
        BY <1>1, <2>1 DEF Quiet, Owning
<1> QED
    BY <1>2, <1>3, <1>4

LEMMA MarkIsQuiet ==
    ASSUME DaemonShape, NEW s \in Sessions, MarkDispatched(s)
    PROVE  Quiet(s)
BY EndsQuietly DEF MarkDispatched, Is, Owning

\* Whatever is not the goal's own work leaves owners alone.
LEMMA RestOwns ==
    ASSUME OwnerInv, UNCHANGED <<pending, done, job, daemon, runs>>
    PROVE  Owns
<1>1. \A g \in Goals : (Ran(g)' <=> Ran(g)) /\ StageOf(g)' = StageOf(g) /\ HolderOf(g)' = HolderOf(g)
    BY DEF Ran, StageOf, HolderOf, Has
<1>2. OwnerInv'
    BY DEF OwnerInv, CallFits, Reached, OneOwner, WaitingIsNew, Ran
<1>3. StageMap' = StageMap /\ HolderMap' = HolderMap
    BY <1>1 DEF StageMap, HolderMap
<1> QED
    BY <1>2, <1>3 DEF Owns, Owned!vars, StageMap, HolderMap

-----------------------------------------------------------------------------
(* Owners: the calls of a daemon on its goal.                              *)

\* A step of claim_goal that does not remove the pending file.
LEMMA ClaimStepMoves ==
    ASSUME InboxInv, NEW s \in Sessions, ClaimStep(s), pending' = pending
    PROVE  /\ UNCHANGED done /\ job'[s] \in Job \cup {NoJob} /\ job[s].at \in Claiming
           /\ \A r \in Sessions \ {s} : job'[r] = job[r]
           /\ \/ job'[s] = NoJob
              \/ job'[s].goal = job[s].goal /\ job[s].at \notin Past /\ job'[s].at \in Claiming \ Past
              \/ job'[s].goal = job[s].goal /\ job[s].at = "parse" /\ job'[s].at = "working"
<1>1. job[s].at \in Claiming /\ job[s] \in Job /\ UNCHANGED done /\ InboxShape
    <2>1. job[s].at \in Claiming
        BY DEF ClaimStep, ReadClaim, OpenClaim, FillClaim, ReadPending, OpenActive, FillActive, UnlinkPending,
               ReturnGoal, At, Claiming
    <2>2. UNCHANGED done
        BY DEF ClaimStep, ReadClaim, OpenClaim, FillClaim, ReadPending, OpenActive, FillActive, UnlinkPending,
               ReturnGoal
    <2> QED
        BY <2>1, <2>2, StageIsOfAJob, StagesOfCalls DEF InboxInv
<1>2. CASE Leaves(s)
    BY <1>1, <1>2, LeavesOff
<1>3. ASSUME NEW at \in Claiming \ Past, Goes(s, at), job[s].at \notin Past
      PROVE  /\ job'[s] \in Job /\ job'[s].goal = job[s].goal /\ job'[s].at = at
             /\ \A r \in Sessions \ {s} : job'[r] = job[r]
    BY <1>1, <1>3, GoesOn, StagesOfCalls
<1>4. CASE ~Leaves(s) /\ (ReadClaim(s) \/ OpenClaim(s) \/ FillClaim(s) \/ OpenActive(s) \/ FillActive(s))
    <2>1. /\ job[s].at \in {"claim", "open_claim", "fill_claim", "open_active", "fill_active"}
          /\ \E at \in {"open_claim", "fill_claim", "read", "fill_active", "unlink_pending"} : Goes(s, at)
        BY <1>4 DEF ReadClaim, OpenClaim, FillClaim, OpenActive, FillActive, At
    <2>2. {"open_claim", "fill_claim", "read", "fill_active", "unlink_pending"} \subseteq Claiming \ Past
        BY DEF Claiming, Past
    <2>3. job[s].at \notin Past
        BY <2>1 DEF Past
    <2> QED
        BY <1>1, <1>3, <2>1, <2>2, <2>3
<1>5. CASE ~Leaves(s) /\ ReadPending(s)
    <2> DEFINE g == job[s].goal
               text == [ReadText(pending[g]) EXCEPT !.by = s]
               new == [job[s] EXCEPT !.at = "open_active", !.text = text]
    <2>1. job[s].at = "read" /\ pending[g] # Absent /\ job' = [job EXCEPT ![s] = new]
        BY <1>5 DEF ReadPending, At
    <2>2. text \in Text
        <3>1. Written \in Text /\ NoText \in Text
            BY DEF Written, NoText, Text
        <3>2. ReadText(pending[g]) \in {Written, NoText}
            BY <1>1, <2>1 DEF InboxShape, ReadText, Job
        <3>3. ReadText(pending[g]) \in Text
            BY <3>1, <3>2
        <3> QED
            BY <3>3 DEF Text
    <2> HIDE DEF text
    <2>3. new \in Job /\ new.at = "open_active" /\ new.goal = job[s].goal
        BY <1>1, <2>2 DEF Job, Stages
    <2> HIDE DEF new
    <2>4. job'[s] = new /\ \A r \in Sessions \ {s} : job'[r] = job[r]
        BY <1>1, <2>1, <2>3, OneJobMoves
    <2> QED
        BY <1>1, <2>1, <2>3, <2>4 DEF Claiming, Past
<1>6. CASE ~Leaves(s) /\ UnlinkPending(s)
    <2>1. pending[job[s].goal] # Absent /\ pending' = [pending EXCEPT ![job[s].goal] = Absent]
        BY <1>6 DEF UnlinkPending
    <2>2. FALSE
        BY <1>1, <2>1 DEF InboxShape, Job
    <2> QED
        BY <2>2
<1>7. CASE ~Leaves(s) /\ ReturnGoal(s)
    <2>1. job[s].at = "parse" /\ Goes(s, "working")
        BY <1>7 DEF ReturnGoal, At
    <2>2. /\ job'[s] \in Job /\ job'[s].goal = job[s].goal /\ job'[s].at = "working"
          /\ \A r \in Sessions \ {s} : job'[r] = job[r]
        BY <1>1, <2>1, GoesOn DEF Stages
    <2> QED
        BY <1>1, <2>1, <2>2
<1> QED
    BY <1>2, <1>4, <1>5, <1>6, <1>7 DEF ClaimStep

\* The one step that does: who was faster has left, and nobody else has g.
LEMMA UnlinkTakes ==
    ASSUME InboxInv, TickInv, OwnerInv, NEW s \in Sessions, ClaimGoal(s), UnlinkPending(s), ~Leaves(s)
    PROVE  Owns
<1>0. job[s] \in Job /\ job[s].at = "unlink_pending" /\ job[s].goal \in Goals /\ InboxShape
    BY StageIsOfAJob DEF UnlinkPending, At, Stages, InboxInv
<1> PICK g \in Goals : g = job[s].goal
    BY <1>0
<1>1. job[s] \in Job /\ job[s].at = "unlink_pending" /\ g = job[s].goal /\ InboxShape
    BY <1>0
<1>2. /\ pending[g] # Absent /\ pending' = [pending EXCEPT ![g] = Absent] /\ Goes(s, "parse")
      /\ UNCHANGED <<active, done, claims, wins>>
    BY <1>1 DEF UnlinkPending
<1>3. /\ job'[s] \in Job /\ job'[s].at = "parse" /\ job'[s].goal = g
      /\ \A r \in Sessions \ {s} : job'[r] = job[r]
    BY <1>1, <1>2, GoesOn DEF Stages
<1>4. Is(s, "claim") /\ UNCHANGED <<daemon, runs>>
    <2>1. job[s] # NoJob /\ job'[s] # NoJob /\ job'[s].at # "working" /\ Is(s, "claim") /\ UNCHANGED runs
        BY <1>1, <1>3, StagesOfCalls DEF ClaimGoal, Job
    <2> QED
        BY <2>1 DEF ClaimGoal, BeginClaim
<1>5. \A r \in Sessions : ~Has(r, g)
    BY <1>1, <1>2 DEF InboxInv, FilesFollow, Follows, Has
<1>6. /\ \A h \in Goals : ~Has(s, h)
      /\ \A h \in Goals : (done'[h] \in Text <=> done[h] \in Text) /\ (Ran(h)' <=> Ran(h))
      /\ done[g] \notin Text /\ ~Ran(g)
    <2>1. \A h \in Goals : ~Has(s, h)
        BY <1>1 DEF Has, Past
    <2>2. \A h \in Goals : Ran(h)' <=> Ran(h)
        BY <1>4 DEF Ran
    <2> QED
        BY <1>1, <1>2, <2>1, <2>2 DEF OwnerInv, WaitingIsNew
<1>7. /\ \A h \in Goals \ {g} : pending'[h] = pending[h] /\ (Has(s, h)' <=> Has(s, h))
      /\ pending'[g] = Absent /\ Has(s, g)'
    BY <1>1, <1>2, <1>3, <1>6 DEF InboxShape, Has, Past
<1>8. OneOwner'
    <2> SUFFICES ASSUME NEW r \in Sessions, NEW q \in Sessions, job'[r].at \in Past, job'[q].at \in Past,
                        job'[r].goal = job'[q].goal
                 PROVE  r = q
        BY DEF OneOwner
    <2>1. CASE r # s /\ q # s
        BY <1>3, <2>1 DEF OwnerInv, OneOwner
    <2>2. CASE r = s \/ q = s
        BY <1>3, <1>5, <2>2 DEF Has
    <2> QED
        BY <2>1, <2>2
<1>9. OwnerInv'
    <2>1. WaitingIsNew'
        BY <1>6, <1>7 DEF OwnerInv, WaitingIsNew
    <2>2. ASSUME NEW r \in Sessions
          PROVE  CallFits(daemon[r], job[r])' /\ Reached(r)'
        <3>1. CASE r = s
            <4>1. CallFits(daemon[s], job[s]) /\ daemon'[s] = daemon[s] /\ daemon[s].at = "claim"
                BY <1>4 DEF OwnerInv, Is
            <4>2. CallFits(daemon[s], job[s])'
                BY <1>1, <1>3, <4>1, StagesOfCalls DEF CallFits, Claiming, Owning
            <4>3. Reached(s)'
                BY <1>1, <1>3, <1>6, <4>1 DEF Reached, Closed
            <4> QED
                BY <3>1, <4>2, <4>3
        <3>2. CASE r # s
            <4>1. daemon'[r] = daemon[r] /\ job'[r] = job[r] /\ CallFits(daemon[r], job[r]) /\ Reached(r)
                BY <1>3, <1>4, <3>2 DEF OwnerInv
            <4>2. job[r].at \in Past => job[r].goal \in Goals
                BY <1>1, StageIsOfAJob, StagesOfCalls
            <4>3. CallFits(daemon[r], job[r])'
                BY <4>1 DEF CallFits
            <4>4. Reached(r)'
                BY <1>6, <4>1, <4>2 DEF Reached
            <4> QED
                BY <4>3, <4>4
        <3> QED
            BY <3>1, <3>2
    <2> QED
        BY <1>8, <2>1, <2>2 DEF OwnerInv
<1>10. Alone(s)
    BY <1>3, <1>4 DEF Alone
<1>11. StageMap[g] = "waiting" /\ StageMap' = [StageMap EXCEPT ![g] = "taken"]
    <2>1. StageOf(g) = "waiting" /\ StageOf(g)' = "taken"
        BY <1>1, <1>2, <1>6, <1>7 DEF StageOf
    <2>2. \A h \in Goals \ {g} : StageOf(h)' = StageOf(h)
        BY <1>6, <1>7 DEF StageOf
    <2> QED
        BY <1>1, <2>1, <2>2 DEF StageMap
<1>12. HolderMap' = [HolderMap EXCEPT ![g] = s] /\ \A h \in Goals : HolderMap[h] # s
    <2>1. HolderOf(g)' = s
        <3>1. \A r \in Sessions : Has(r, g)' => r = s
            BY <1>7, <1>8 DEF OneOwner, Has
        <3> QED
            BY <1>7, <3>1 DEF HolderOf
    <2>2. \A h \in Goals \ {g} : HolderOf(h)' = HolderOf(h)
        BY <1>7, <1>8, <1>10, OtherHolders DEF OwnerInv
    <2>3. \A h \in Goals : HolderOf(h) # s
        BY <1>6, HolderIs, InboxAssumption DEF OwnerInv
    <2> QED
        BY <1>1, <2>1, <2>2, <2>3 DEF HolderMap
<1>13. Owned!Take(g, s)
    BY <1>11, <1>12 DEF Owned!Take, StageMap, HolderMap
<1> QED
    BY <1>1, <1>9, <1>13 DEF Owns, Owned!Next

LEMMA ClaimGoalOwns ==
    ASSUME InboxInv, TickInv, OwnerInv, NEW s \in Sessions, ClaimGoal(s)
    PROVE  Owns
<1>1. daemon[s].at = "claim" /\ UNCHANGED runs /\ InboxShape /\ DaemonShape
    BY DEF ClaimGoal, Is, InboxInv, TickInv
<1>2. daemon[s].cand.gate = None /\ (job[s] = NoJob \/ (job[s].at \in Claiming /\ job[s].goal = daemon[s].cand.goal))
    BY <1>1 DEF OwnerInv, CallFits
<1>3. \A g \in Goals : Ran(g)' <=> Ran(g)
    BY <1>1 DEF Ran
<1>4. CASE BeginClaim(s, daemon[s].cand.goal) /\ UNCHANGED daemon
    <2> DEFINE g == daemon[s].cand.goal
               new == [at |-> "claim", goal |-> g, text |-> NoText]
    <2>1. g \in Goals
        BY <1>1, TickTypes DEF Ticks, Found, Choosing, Candidate
    <2>2. NoText \in Text
        BY DEF NoText, Text
    <2>3. new \in Job /\ new.at = "claim" /\ new.goal = g
        BY <2>1, <2>2 DEF Job, Stages
    <2>4. job' = [job EXCEPT ![s] = new] /\ UNCHANGED <<pending, done>>
        BY <1>4 DEF BeginClaim
    <2> HIDE DEF new
    <2>5. job'[s] = new /\ \A r \in Sessions \ {s} : job'[r] = job[r]
        BY <1>1, <2>3, <2>4, OneJobMoves
    <2>6. Alone(s)
        BY <1>4, <2>5 DEF Alone
    <2>7. CallFits(daemon'[s], job'[s])
        BY <1>1, <1>2, <1>4, <2>3, <2>5 DEF CallFits, Claiming, Owning
    <2>8. job'[s].at \notin Past
        BY <2>3, <2>5 DEF Past
    <2> QED
        BY <1>1, <1>3, <2>3, <2>4, <2>5, <2>6, <2>7, <2>8, NothingAdvances
<1>5. CASE job[s] = NoJob /\ EndTick(s) /\ UNCHANGED inboxVars
    <2>1. daemon'[s].at \notin Owning /\ \A r \in Sessions \ {s} : daemon'[r] = daemon[r]
        BY <1>1, <1>5, TickEnds
    <2>2. CallFits(daemon'[s], job'[s]) /\ job'[s] = NoJob /\ Alone(s) /\ UNCHANGED <<pending, done>>
        BY <1>5, <2>1 DEF CallFits, Owning, inboxVars, Alone
    <2> QED
        BY <1>1, <1>3, <2>2, StagesOfCalls, NothingAdvances
<1>6. CASE ClaimStep(s) /\ pending' = pending
    <2>1. /\ UNCHANGED done /\ job'[s] \in Job \cup {NoJob} /\ job[s].at \in Claiming
          /\ \A r \in Sessions \ {s} : job'[r] = job[r]
          /\ \/ job'[s] = NoJob
             \/ job'[s].goal = job[s].goal /\ job[s].at \notin Past /\ job'[s].at \in Claiming \ Past
             \/ job'[s].goal = job[s].goal /\ job[s].at = "parse" /\ job'[s].at = "working"
        BY <1>6, ClaimStepMoves
    <2>2. job[s] # NoJob /\ ~BeginClaim(s, daemon[s].cand.goal)
        BY <2>1, StagesOfCalls DEF BeginClaim
    <2>3. IF job'[s] = NoJob THEN EndTick(s) ELSE IF job'[s].at = "working" THEN Then(s, "run") ELSE UNCHANGED daemon
        BY <2>2 DEF ClaimGoal
    <2>4. CASE job'[s] = NoJob
        <3>1. daemon'[s].at \notin Owning /\ \A r \in Sessions \ {s} : daemon'[r] = daemon[r]
            BY <1>1, <2>3, <2>4, TickEnds
        <3>2. CallFits(daemon'[s], job'[s]) /\ Alone(s)
            BY <2>1, <2>4, <3>1 DEF CallFits, Owning, Alone
        <3> QED
            BY <1>1, <1>3, <1>6, <2>1, <2>4, <3>2, StagesOfCalls, NothingAdvances
    <2>5. CASE job'[s].goal = job[s].goal /\ job[s].at \notin Past /\ job'[s].at \in Claiming \ Past
        <3>1. UNCHANGED daemon
            BY <2>3, <2>5, StagesOfCalls DEF Past
        <3>2. CallFits(daemon'[s], job'[s]) /\ Alone(s)
            BY <1>1, <1>2, <2>1, <2>2, <2>5, <3>1 DEF CallFits, Owning, Alone
        <3> QED
            BY <1>1, <1>3, <1>6, <2>1, <2>5, <3>2, NothingAdvances
    <2>6. CASE job'[s].goal = job[s].goal /\ job[s].at = "parse" /\ job'[s].at = "working"
        <3>1. Then(s, "run")
            BY <2>3, <2>6, StagesOfCalls DEF Past
        <3>2. /\ daemon'[s].at = "run" /\ daemon'[s].cand = daemon[s].cand
              /\ \A r \in Sessions \ {s} : daemon'[r] = daemon[r]
            BY <1>1, <3>1, TickGoes DEF Stage
        <3>3. CallFits(daemon'[s], job'[s]) /\ Alone(s)
            BY <1>2, <2>1, <2>2, <2>6, <3>2 DEF CallFits, Owning, Alone
        <3>4. job[s].goal \in Goals /\ job[s].at \in Past /\ job'[s].at \in Past
            BY <1>1, <2>1, <2>6, StageIsOfAJob, StagesOfCalls DEF Past
        <3>5. Reached(s)'
            <4>1. ~Ran(job[s].goal) /\ done[job[s].goal] \notin Text
                BY <1>1, <2>6, <3>4 DEF OwnerInv, Reached, Closed
            <4>2. \A g \in Goals : g = job[s].goal => ~Ran(g)' /\ done'[g] \notin Text
                BY <1>3, <2>1, <4>1
            <4>3. PICK g \in Goals : g = job[s].goal
                BY <3>4
            <4>4. Ran(job[s].goal)' <=> Ran(g)'
                BY <2>6, <4>3 DEF Ran
            <4> QED
                BY <2>6, <3>2, <4>2, <4>3, <4>4 DEF Reached, Closed
        <3> QED
            BY <1>1, <1>3, <1>6, <2>1, <2>6, <3>3, <3>4, <3>5, NothingAdvances
    <2> QED
        BY <2>1, <2>4, <2>5, <2>6
<1>7. CASE ClaimStep(s) /\ pending' # pending
    <2>1. UnlinkPending(s)
        BY <1>7 DEF ClaimStep, ReadClaim, OpenClaim, FillClaim, ReadPending, OpenActive, FillActive, ReturnGoal
    <2>2. ~Leaves(s)
        <3>1. ASSUME Leaves(s) PROVE FALSE
            <4>1. job[s] \in Job /\ job[s].goal \in Goals
                BY <1>1, <2>1, StageIsOfAJob DEF UnlinkPending, At, Stages
            <4>2. job'[s] = NoJob /\ NoJob.at # "parse"
                BY <1>1, <3>1, LeavesOff, StagesOfCalls DEF Past
            <4>3. ~Goes(s, "parse")
                BY <1>1, <4>1, <4>2, GoesOn DEF Stages
            <4>4. pending[job[s].goal] = Absent /\ pending' = [pending EXCEPT ![job[s].goal] = Absent]
                BY <2>1, <4>3 DEF UnlinkPending
            <4> QED
                BY <1>1, <1>7, <4>1, <4>4 DEF InboxShape
        <3> QED
            BY <3>1
    <2> QED
        BY <2>1, <2>2, UnlinkTakes
<1> QED
    BY <1>4, <1>5, <1>6, <1>7 DEF ClaimGoal

\* An agent that is run has been run for its goal, and for no other.
LEMMA RunsAreCounted ==
    ASSUME TickInv, NEW s \in Sessions, ExecuteTask(s)
    PROVE  /\ daemon[s].at = "run" /\ daemon[s].cand \in Candidate /\ UNCHANGED inboxVars
           /\ \A g \in Goals : Ran(g)' <=> Ran(g) \/ (daemon[s].cand.gate = None /\ daemon[s].cand.goal = g)
           /\ daemon'[s].at = IF daemon[s].cand.gate = None THEN "close" ELSE "mark"
           /\ daemon'[s].cand = daemon[s].cand
           /\ \A r \in Sessions \ {s} : daemon'[r] = daemon[r]
<1> DEFINE run == [cand |-> daemon[s].cand, unattended |-> daemon[s].unattended]
           at == IF daemon[s].cand.gate = None THEN "close" ELSE "mark"
<1>1. daemon[s].at = "run" /\ UNCHANGED inboxVars /\ runs' = Append(runs, run) /\ Then(s, at)
    BY DEF ExecuteTask, Is
<1>2. daemon[s].cand \in Candidate
    BY <1>1, TickTypes DEF Ticks, Found, Choosing
<1>3. at \in Stage
    BY DEF Stage
<1>4. run.cand = daemon[s].cand
    OBVIOUS
<1> HIDE DEF run, at
<1>5. /\ daemon'[s].at = at /\ daemon'[s].cand = daemon[s].cand
      /\ \A r \in Sessions \ {s} : daemon'[r] = daemon[r]
    BY <1>1, <1>3, TickGoes DEF TickInv
<1>6. /\ \A i \in DOMAIN runs' : (i \in DOMAIN runs /\ runs'[i] = runs[i]) \/ runs'[i] = run
      /\ \A i \in DOMAIN runs : i \in DOMAIN runs' /\ runs'[i] = runs[i]
      /\ Len(runs) + 1 \in DOMAIN runs' /\ runs'[Len(runs) + 1] = run
    <2> DEFINE R == [cand : Candidate, unattended : BOOLEAN]
    <2>1. runs \in Seq(R)
        BY TickTypes
    <2> HIDE DEF R
    <2> QED
        BY <1>1, <2>1
<1>7. \A g \in Goals : daemon[s].cand = [goal |-> g, gate |-> None]
                           <=> daemon[s].cand.gate = None /\ daemon[s].cand.goal = g
    BY <1>2 DEF Candidate
<1>8. \A g \in Goals : Ran(g)' <=> Ran(g) \/ daemon[s].cand = [goal |-> g, gate |-> None]
    BY <1>4, <1>6 DEF Ran
<1> QED
    BY <1>1, <1>2, <1>5, <1>7, <1>8 DEF at

LEMMA ExecuteOwns ==
    ASSUME InboxInv, TickInv, OwnerInv, NEW s \in Sessions, ExecuteTask(s)
    PROVE  Owns
<1>1. /\ daemon[s].at = "run" /\ daemon[s].cand \in Candidate /\ UNCHANGED <<pending, done, job>>
      /\ \A g \in Goals : Ran(g)' <=> Ran(g) \/ (daemon[s].cand.gate = None /\ daemon[s].cand.goal = g)
      /\ daemon'[s].at = IF daemon[s].cand.gate = None THEN "close" ELSE "mark"
      /\ daemon'[s].cand = daemon[s].cand
      /\ \A r \in Sessions \ {s} : daemon'[r] = daemon[r]
    BY RunsAreCounted DEF inboxVars
<1>2. CallFits(daemon[s], job[s]) /\ Reached(s) /\ InboxShape
    BY DEF OwnerInv, InboxInv
<1>3. Alone(s)
    BY <1>1 DEF Alone
<1>4. CASE daemon[s].cand.gate # None
    <2>1. \A g \in Goals : Ran(g)' <=> Ran(g)
        BY <1>1, <1>4
    <2>2. job'[s] = NoJob
        BY <1>1, <1>2, <1>4 DEF CallFits
    <2>3. CallFits(daemon'[s], job'[s])
        BY <1>1, <1>4, <2>2 DEF CallFits, Owning
    <2> QED
        BY <1>1, <1>2, <1>3, <2>1, <2>2, <2>3, StagesOfCalls, NothingAdvances
<1>5. CASE daemon[s].cand.gate = None
    <2>1. PICK g \in Goals : daemon[s].cand.goal = g
        BY <1>1 DEF Candidate
    <2>2. Ran(g)' /\ \A h \in Goals \ {g} : Ran(h)' <=> Ran(h)
        BY <1>1, <1>5, <2>1
    <2>3. job[s].at = "working" /\ job[s].goal = g /\ Has(s, g)
        BY <1>1, <1>2, <1>5, <2>1 DEF CallFits, Has, Past
    <2>4. ~Ran(g) /\ done[g] \notin Text /\ pending[g] = Absent
        BY <1>1, <1>2, <2>3 DEF Reached, Has, Closed, InboxInv, FilesFollow, Follows
    <2>5. \A h \in Goals : Has(s, h) => h = g
        BY <2>3 DEF Has
    <2>6. OneOwner'
        BY <1>1 DEF OwnerInv, OneOwner
    <2>7. OwnerInv'
        <3>1. WaitingIsNew'
            BY <1>1, <2>2, <2>4 DEF OwnerInv, WaitingIsNew
        <3>2. ASSUME NEW r \in Sessions
              PROVE  CallFits(daemon[r], job[r])' /\ Reached(r)'
            <4>1. CASE r = s
                <5>1. daemon'[s].at = "close" /\ job'[s] = job[s]
                    BY <1>1, <1>5
                <5>2. CallFits(daemon[s], job[s])'
                    BY <1>1, <1>5, <2>1, <2>3, <5>1 DEF CallFits, Owning, Closing, Past
                <5>3. Ran(job[s].goal)' <=> Ran(g)'
                    BY <2>3, <5>1 DEF Ran
                <5>4. Reached(s)'
                    BY <1>1, <2>2, <2>3, <2>4, <5>1, <5>3 DEF Reached, Closed
                <5> QED
                    BY <4>1, <5>2, <5>4
            <4>2. CASE r # s
                <5>1. daemon'[r] = daemon[r] /\ job'[r] = job[r] /\ CallFits(daemon[r], job[r]) /\ Reached(r)
                    BY <1>1, <4>2 DEF OwnerInv
                <5>2. job[r].at \in Past => job[r].goal \in Goals \ {g}
                    BY <1>2, <2>3, <4>2, StageIsOfAJob, StagesOfCalls DEF OwnerInv, OneOwner, Has
                <5>3. CallFits(daemon[r], job[r])'
                    BY <5>1 DEF CallFits
                <5>4. ASSUME job[r].at \in Past
                      PROVE  Ran(job[r].goal)' <=> Ran(job[r].goal)
                    <6>1. PICK h \in Goals \ {g} : h = job[r].goal
                        BY <5>2, <5>4
                    <6>2. (Ran(job[r].goal)' <=> Ran(h)') /\ (Ran(job[r].goal) <=> Ran(h))
                        BY <5>1, <6>1 DEF Ran
                    <6> QED
                        BY <2>2, <6>2
                <5>5. Reached(r)'
                    BY <1>1, <5>1, <5>4 DEF Reached
                <5> QED
                    BY <5>3, <5>5
            <4> QED
                BY <4>1, <4>2
        <3> QED
            BY <2>6, <3>1, <3>2 DEF OwnerInv
    <2>8. StageMap[g] = "taken" /\ StageMap' = [StageMap EXCEPT ![g] = "worked"]
        <3>1. StageOf(g) = "taken" /\ StageOf(g)' = "worked"
            BY <1>1, <2>2, <2>4 DEF StageOf
        <3>2. \A h \in Goals \ {g} : StageOf(h)' = StageOf(h)
            BY <1>1, <2>2 DEF StageOf
        <3> QED
            BY <3>1, <3>2 DEF StageMap
    <2>9. HolderMap[g] # None /\ HolderMap' = HolderMap
        <3>1. HolderOf(g) = s
            BY <2>3, HolderIs DEF OwnerInv
        <3>2. \A h \in Goals : HolderOf(h)' = HolderOf(h)
            BY <1>1 DEF HolderOf, Has
        <3> QED
            BY <3>1, <3>2, InboxAssumption DEF HolderMap
    <2>10. Owned!Work(g)
        BY <2>8, <2>9 DEF Owned!Work, Owned!Moves, StageMap, HolderMap
    <2> QED
        BY <2>7, <2>10 DEF Owns, Owned!Next
<1> QED
    BY <1>4, <1>5

\* The closing calls, but for the step that fills the done file.
LEMMA ClosingMoves ==
    ASSUME InboxInv, NEW s \in Sessions, BeginDone(s) \/ BeginBlocked(s) \/ CloseStep(s), ~FillDone(s)
    PROVE  /\ UNCHANGED pending /\ job'[s] \in Job \cup {NoJob} /\ job[s].at \in Past
           /\ \A r \in Sessions \ {s} : job'[r] = job[r]
           /\ UNCHANGED done \/ (job[s].at = "open_done" /\ done' = [done EXCEPT ![job[s].goal] = Torn])
           /\ \/ job'[s] = NoJob
              \/ /\ job'[s].goal = job[s].goal /\ job'[s].at \in Closing
                 /\ job'[s].at \in Closed <=> job[s].at \in Closed
<1>1. /\ job[s].at \in Past /\ job[s] \in Job /\ UNCHANGED pending /\ InboxShape
      /\ UNCHANGED done \/ (job[s].at = "open_done" /\ done' = [done EXCEPT ![job[s].goal] = Torn])
    <2>1. job[s].at \in Past
        BY DEF BeginDone, BeginBlocked, CloseStep, OpenDone, UnlinkActive, ReleaseClaim, UnlinkClaim, OpenBlocked, FillBlocked,
               At, Past
    <2>2. /\ UNCHANGED pending
          /\ UNCHANGED done \/ (job[s].at = "open_done" /\ done' = [done EXCEPT ![job[s].goal] = Torn])
        BY DEF BeginDone, BeginBlocked, CloseStep, OpenDone, UnlinkActive, ReleaseClaim, UnlinkClaim, OpenBlocked, FillBlocked, At
    <2> QED
        BY <2>1, <2>2, StageIsOfAJob, StagesOfCalls DEF InboxInv
<1>2. CASE Leaves(s)
    BY <1>1, <1>2, LeavesOff
<1>3. CASE ~Leaves(s) /\ (BeginDone(s) \/ BeginBlocked(s))
    <2> DEFINE text == ReadText(active[job[s].goal])
    <2>1. PICK at \in {"open_done", "open_blocked"} :
              job' = [job EXCEPT ![s].at = at, ![s].text = text] /\ active[job[s].goal] # Absent
        BY <1>3 DEF BeginDone, BeginBlocked
    <2>2. job[s].at = "working"
        BY <1>3 DEF BeginDone, BeginBlocked, At
    <2>3. text \in Text
        BY <1>1, <2>1 DEF InboxShape, File, ReadText, NoText, Text, Job
    <2> DEFINE new == [job[s] EXCEPT !.at = at, !.text = text]
    <2>4. job' = [job EXCEPT ![s] = new]
        BY <2>1
    <2> HIDE DEF text
    <2>5. new \in Job /\ new.at = at /\ new.goal = job[s].goal
        BY <1>1, <2>3 DEF Job, Stages
    <2> HIDE DEF new
    <2>6. job'[s] = new /\ \A r \in Sessions \ {s} : job'[r] = job[r]
        BY <1>1, <2>4, <2>5, OneJobMoves
    <2> QED
        BY <1>1, <2>2, <2>5, <2>6 DEF Closing, Past, Closed
<1>4. CASE ~Leaves(s) /\ CloseStep(s)
    <2>1. \/ job[s].at = "open_done" /\ Goes(s, "fill_done")
          \/ job[s].at = "unlink_active" /\ Goes(s, "release")
          \/ job[s].at = "release" /\ Goes(s, "unlink_claim")
          \/ job[s].at = "open_blocked" /\ Goes(s, "fill_blocked")
        BY <1>4 DEF CloseStep, OpenDone, UnlinkActive, ReleaseClaim, UnlinkClaim, OpenBlocked, FillBlocked, At
    <2>2. PICK at \in {"fill_done", "release", "unlink_claim", "fill_blocked"} :
              Goes(s, at) /\ (at \in Closed <=> job[s].at \in Closed)
        BY <2>1 DEF Closed
    <2>3. at \in Closing /\ at \in Stages
        BY DEF Closing, Past, Stages
    <2>4. /\ job'[s] \in Job /\ job'[s].goal = job[s].goal /\ job'[s].at = at
          /\ \A r \in Sessions \ {s} : job'[r] = job[r]
        BY <1>1, <2>2, <2>3, GoesOn
    <2> QED
        BY <1>1, <2>2, <2>3, <2>4
<1> QED
    BY <1>2, <1>3, <1>4

LEMMA FillDoneOwns ==
    ASSUME InboxInv, TickInv, OwnerInv, NEW s \in Sessions, CloseTask(s), FillDone(s)
    PROVE  Owns
<1>1. job[s] \in Job /\ job[s].at = "fill_done" /\ job[s].goal \in Goals /\ InboxShape
    BY StageIsOfAJob DEF FillDone, At, Stages, InboxInv
<1> PICK g \in Goals : g = job[s].goal
    BY <1>1
<1>2. /\ Goes(s, "unlink_active") /\ done' = [done EXCEPT ![g] = job[s].text]
      /\ UNCHANGED <<pending, active, claims, wins>>
    BY DEF FillDone
<1>3. /\ job'[s] \in Job /\ job'[s].at = "unlink_active" /\ job'[s].goal = g
      /\ \A r \in Sessions \ {s} : job'[r] = job[r]
    BY <1>1, <1>2, GoesOn DEF Stages
<1>4. daemon[s].at = "close" /\ UNCHANGED <<daemon, runs>>
    <2>1. job'[s] # NoJob /\ daemon[s].at = "close" /\ UNCHANGED runs
        BY <1>3, StagesOfCalls DEF CloseTask, Is, Job
    <2> QED
        BY <2>1 DEF CloseTask
<1>5. Has(s, g) /\ Has(s, g)' /\ \A h \in Goals \ {g} : ~Has(s, h) /\ ~Has(s, h)'
    BY <1>1, <1>3 DEF Has, Past
<1>6. done[g] \notin Text /\ done'[g] \in Text /\ \A h \in Goals \ {g} : done'[h] = done[h]
    <2>1. done[g] \notin Text
        BY <1>1 DEF OwnerInv, Reached, Past, Closed
    <2>2. job[s].text \in Text
        BY <1>1 DEF Job
    <2> QED
        BY <1>1, <1>2, <2>1, <2>2 DEF InboxShape
<1>7. /\ Ran(g) /\ pending[g] = Absent
      /\ \A h \in Goals : Ran(h)' <=> Ran(h)
    <2>1. Ran(g)
        BY <1>1, <1>4 DEF OwnerInv, Reached, Past
    <2>2. pending[g] = Absent
        BY <1>1 DEF InboxInv, FilesFollow, Follows, Past
    <2>3. \A h \in Goals : Ran(h)' <=> Ran(h)
        BY <1>4 DEF Ran
    <2> QED
        BY <2>1, <2>2, <2>3
<1>8. OneOwner'
    BY <1>1, <1>3 DEF OwnerInv, OneOwner, Past
<1>9. OwnerInv'
    <2>1. WaitingIsNew'
        BY <1>2, <1>6, <1>7 DEF OwnerInv, WaitingIsNew
    <2>2. ASSUME NEW r \in Sessions
          PROVE  CallFits(daemon[r], job[r])' /\ Reached(r)'
        <3>1. CASE r = s
            <4>1. CallFits(daemon[s], job[s]) /\ daemon'[s] = daemon[s]
                BY <1>4 DEF OwnerInv
            <4>2. CallFits(daemon[s], job[s])'
                BY <1>1, <1>3, <1>4, <4>1 DEF CallFits, Closing, Past, Owning
            <4>3. Ran(job[s].goal)' <=> Ran(g)'
                BY <1>3 DEF Ran
            <4>4. Reached(s)'
                BY <1>3, <1>4, <1>6, <1>7, <4>3 DEF Reached, Closed
            <4> QED
                BY <3>1, <4>2, <4>4
        <3>2. CASE r # s
            <4>1. daemon'[r] = daemon[r] /\ job'[r] = job[r] /\ CallFits(daemon[r], job[r]) /\ Reached(r)
                BY <1>3, <1>4, <3>2 DEF OwnerInv
            <4>2. job[r].at \in Past => job[r].goal \in Goals \ {g}
                BY <1>1, <1>5, <3>2, StageIsOfAJob, StagesOfCalls DEF OwnerInv, OneOwner, Has
            <4>3. CallFits(daemon[r], job[r])'
                BY <4>1 DEF CallFits
            <4>4. Ran(job[r].goal)' <=> Ran(job[r].goal)
                BY <1>4, <4>1 DEF Ran
            <4>5. Reached(r)'
                BY <1>6, <4>1, <4>2, <4>4 DEF Reached
            <4> QED
                BY <4>3, <4>5
        <3> QED
            BY <3>1, <3>2
    <2> QED
        BY <1>8, <2>1, <2>2 DEF OwnerInv
<1>10. StageMap[g] = "worked" /\ StageMap' = [StageMap EXCEPT ![g] = "done"]
    <2>1. StageOf(g) = "worked" /\ StageOf(g)' = "done"
        BY <1>2, <1>6, <1>7 DEF StageOf
    <2>2. \A h \in Goals \ {g} : StageOf(h)' = StageOf(h)
        BY <1>2, <1>6, <1>7 DEF StageOf
    <2> QED
        BY <2>1, <2>2 DEF StageMap
<1>11. HolderMap[g] # None /\ HolderMap' = HolderMap
    <2>1. HolderOf(g) = s
        BY <1>5, HolderIs DEF OwnerInv
    <2>2. Alone(s)
        BY <1>3, <1>4 DEF Alone
    <2>3. \A h \in Goals : HolderOf(h)' = HolderOf(h)
        BY <1>5, <1>8, <2>2, OtherHolders DEF OwnerInv
    <2> QED
        BY <2>1, <2>3, InboxAssumption DEF HolderMap
<1>12. Owned!Finish(g)
    BY <1>10, <1>11 DEF Owned!Finish, Owned!Moves, StageMap, HolderMap
<1> QED
    BY <1>9, <1>12 DEF Owns, Owned!Next

LEMMA CloseOwns ==
    ASSUME InboxInv, TickInv, OwnerInv, NEW s \in Sessions, CloseTask(s)
    PROVE  Owns
<1>1. /\ daemon[s].at = "close" /\ UNCHANGED runs /\ (BeginDone(s) \/ BeginBlocked(s) \/ CloseStep(s))
      /\ IF job'[s] = NoJob THEN EndTick(s) ELSE UNCHANGED daemon
      /\ InboxShape /\ DaemonShape
    BY DEF CloseTask, Is, InboxInv, TickInv
<1>2. \A g \in Goals : Ran(g)' <=> Ran(g)
    BY <1>1 DEF Ran
<1>3. CASE ~FillDone(s)
    <2>1. /\ UNCHANGED pending /\ job'[s] \in Job \cup {NoJob} /\ job[s].at \in Past
          /\ \A r \in Sessions \ {s} : job'[r] = job[r]
          /\ UNCHANGED done \/ (job[s].at = "open_done" /\ done' = [done EXCEPT ![job[s].goal] = Torn])
          /\ \/ job'[s] = NoJob
             \/ /\ job'[s].goal = job[s].goal /\ job'[s].at \in Closing
                /\ job'[s].at \in Closed <=> job[s].at \in Closed
        BY <1>1, <1>3, ClosingMoves
    <2>2. /\ CallFits(daemon[s], job[s]) /\ job[s].goal \in Goals
          /\ Ran(job[s].goal) /\ (done[job[s].goal] \in Text <=> job[s].at \in Closed)
        BY <1>1, <2>1, StageIsOfAJob, StagesOfCalls DEF OwnerInv, Reached
    <2>3. \A g \in Goals : done'[g] \in Text <=> done[g] \in Text
        <3>1. CASE UNCHANGED done
            BY <3>1
        <3>2. CASE job[s].at = "open_done" /\ done' = [done EXCEPT ![job[s].goal] = Torn]
            <4>1. done[job[s].goal] \notin Text
                BY <2>2, <3>2 DEF Closed
            <4>2. Torn \notin Text
                BY InboxAssumption
            <4> QED
                BY <1>1, <2>2, <3>2, <4>1, <4>2 DEF InboxShape
        <3> QED
            BY <2>1, <3>1, <3>2
    <2>4. CASE job'[s] = NoJob
        <3>1. daemon'[s].at \notin Owning /\ \A r \in Sessions \ {s} : daemon'[r] = daemon[r]
            BY <1>1, <2>4, TickEnds
        <3>2. CallFits(daemon'[s], job'[s]) /\ Alone(s)
            BY <2>1, <2>4, <3>1 DEF CallFits, Owning, Alone
        <3> QED
            BY <1>1, <1>2, <2>1, <2>3, <2>4, <3>2, StagesOfCalls, NothingAdvances
    <2>5. CASE /\ job'[s].goal = job[s].goal /\ job'[s].at \in Closing
               /\ job'[s].at \in Closed <=> job[s].at \in Closed
        <3>1. UNCHANGED daemon
            BY <1>1, <2>5, StagesOfCalls DEF Closing
        <3>2. CallFits(daemon'[s], job'[s]) /\ Alone(s)
            BY <1>1, <2>1, <2>2, <2>5, <3>1 DEF CallFits, Owning, Alone
        <3>3. Ran(job[s].goal)' <=> Ran(job[s].goal)
            BY <1>1, <2>5 DEF Ran
        <3>4. Reached(s)'
            BY <1>1, <2>2, <2>3, <2>5, <3>1, <3>3 DEF Reached
        <3> QED
            BY <1>1, <1>2, <2>1, <2>3, <2>5, <3>2, <3>4, NothingAdvances
    <2> QED
        BY <2>1, <2>4, <2>5
<1> QED
    BY <1>3, FillDoneOwns

LEMMA DeathOwns ==
    ASSUME InboxInv, TickInv, OwnerInv, NEW s \in Sessions, DaemonDies(s)
    PROVE  Owns
<1>1. Then(s, "over") /\ Leaves(s) /\ UNCHANGED <<pending, done, runs>> /\ InboxShape /\ DaemonShape
    BY DEF DaemonDies, InboxInv, TickInv
<1>2. job'[s] = NoJob /\ \A r \in Sessions \ {s} : job'[r] = job[r]
    BY <1>1, LeavesOff
<1>3. daemon'[s].at = "over" /\ \A r \in Sessions \ {s} : daemon'[r] = daemon[r]
    BY <1>1, TickGoes DEF Stage
<1>4. CallFits(daemon'[s], job'[s]) /\ Alone(s)
    BY <1>2, <1>3 DEF CallFits, Owning, Alone
<1>5. \A g \in Goals : Ran(g)' <=> Ran(g)
    BY <1>1 DEF Ran
<1> QED
    BY <1>1, <1>2, <1>4, <1>5, StagesOfCalls, NothingAdvances

LEMMA EveryStepOwns ==
    ASSUME InboxInv, TickInv, OwnerInv, [DaemonNext]_vars
    PROVE  Owns
<1>1. InboxShape /\ DaemonShape
    BY DEF InboxInv, TickInv
<1>2. ASSUME NEW s \in Sessions, TickStep(s)
      PROVE  Owns
    <2>1. CASE ClaimGoal(s) \/ ExecuteTask(s) \/ CloseTask(s)
        BY <2>1, ClaimGoalOwns, ExecuteOwns, CloseOwns
    <2>2. CASE ~(ClaimGoal(s) \/ ExecuteTask(s) \/ CloseTask(s))
        <3>1. Quiet(s)
            BY <1>1, <1>2, <2>2, PreTickIsQuiet, DiscoverIsQuiet, ReuseGateIsQuiet, OpenGateIsQuiet, FillGateIsQuiet,
               ReadResolvedIsQuiet, PollIsQuiet, TimeOutIsQuiet, ResolveIsQuiet, HandleIsQuiet, MarkIsQuiet
               DEF TickStep
        <3> QED
            BY <1>1, <3>1, QuietOwns
    <2> QED
        BY <2>1, <2>2
<1>3. ASSUME NEW s \in Sessions, (\E mode \in Modes : StartDaemon(s, mode)) \/ DaemonDies(s)
      PROVE  Owns
    BY <1>1, <1>3, StartIsQuiet, QuietOwns, DeathOwns
<1>4. ASSUME \/ \E g \in Goals : ExpireClaim(g) /\ UNCHANGED daemonVars
             \/ \E say \in {"APPROVE", "SKIP", "STOP", "PAUSE"}, n \in DOMAIN gates \cup {None} : Say(say, n)
             \/ \E n \in GateId, option \in Option : BeginResolve(n, option)
             \/ ServiceResolves \/ ServiceHandles
             \/ \E action \in {"STOP", "PAUSE"} : IssueControl(action)
             \/ UNCHANGED vars
      PROVE  Owns
    <2>1. UNCHANGED <<pending, done, job, daemon, runs>>
        BY <1>4 DEF ExpireClaim, Say, BeginResolve, ServiceResolves, ServiceHandles, IssueControl, vars, inboxVars, daemonVars
    <2> QED
        BY <2>1, RestOwns
<1> QED
    BY <1>2, <1>3, <1>4 DEF DaemonNext

LEMMA OwnersStart == DaemonInit => OwnerInv /\ Owned!Init
<1> SUFFICES ASSUME DaemonInit PROVE OwnerInv /\ Owned!Init
    OBVIOUS
<1>1. /\ pending = [g \in Goals |-> Written] /\ done = [g \in Goals |-> Absent]
      /\ job = [s \in Sessions |-> NoJob] /\ runs = <<>>
    BY DEF DaemonInit, InboxInit
<1>2. \A s \in Sessions : daemon[s].at = "new" /\ job[s] = NoJob
    BY <1>1 DEF DaemonInit
<1>3. Written # Absent /\ Absent \notin Text
    <2>1. Written \in Text
        BY DEF Written, Text
    <2> QED
        BY <2>1, InboxAssumption
<1> HIDE DEF Written
<1>4. \A g \in Goals : ~Ran(g)
    BY <1>1 DEF Ran
<1>5. \A s \in Sessions : CallFits(daemon[s], job[s]) /\ Reached(s)
    BY <1>2, StagesOfCalls DEF CallFits, Owning, Reached
<1>6. OneOwner /\ WaitingIsNew
    BY <1>1, <1>2, <1>3, <1>4, StagesOfCalls DEF OneOwner, WaitingIsNew
<1>7. \A g \in Goals : StageOf(g) = "waiting"
    BY <1>1, <1>3 DEF StageOf
<1>8. \A g \in Goals : HolderOf(g) = None
    BY <1>2, StagesOfCalls DEF HolderOf, Has
<1> QED
    BY <1>5, <1>6, <1>7, <1>8 DEF OwnerInv, Owned!Init

\* Whatever daemons start, overlap and die, and whatever happens to claims:
\* a goal is taken once, by the session that removed its pending file, which
\* alone works on it, once, and alone finishes it, after that.
THEOREM InboxHasOwners == DaemonSpec => ImplementsOwnedGoals
<1>1. DaemonInit => OwnerInv /\ Owned!Init
    BY OwnersStart
<1>2. InboxInv /\ TickInv /\ OwnerInv /\ [DaemonNext]_vars => OwnerInv' /\ [Owned!Next]_(Owned!vars)
    BY EveryStepOwns DEF Owns
<1> QED
    BY <1>1, <1>2, DaemonInvariant, PTL DEF DaemonSpec, ImplementsOwnedGoals, Owned!Spec
-----------------------------------------------------------------------------
(* How many gates are open on one subject.                                 *)

Opened(subject) ==
    {m \in DOMAIN gates : gates[m].file = "open" /\ SubjectOf(gates[m]) = subject}

\* Daemons that are about to fill a gate on the subject.
Filling(subject) ==
    {s \in Sessions : daemon[s].at = "fill" /\ SubjectOf(gates[daemon[s].gate]) = subject}

\* A daemon opens a gate only where none is open; from then until the gate is
\* filled the daemon itself is counted.
GatesAreCounted ==
    /\ IsFiniteSet(Started)
    /\ \A subject :
          Cardinality(Opened(subject)) + Cardinality(Filling(subject)) <= Cardinality(Started)

LEMMA CountsAreFinite ==
    ASSUME DaemonShape, IsFiniteSet(Started), NEW subject
    PROVE  /\ IsFiniteSet(Opened(subject)) /\ Cardinality(Opened(subject)) \in Nat
           /\ IsFiniteSet(Filling(subject)) /\ Cardinality(Filling(subject)) \in Nat
           /\ Cardinality(Started) \in Nat /\ Cardinality(Filling(subject)) <= Cardinality(Started)
<1>1. IsFiniteSet(DOMAIN gates)
    <2>1. DOMAIN gates = 1 .. Len(gates) /\ Len(gates) \in Nat
        BY DEF DaemonShape
    <2> QED
        BY <2>1, FS_Interval
<1>2. Opened(subject) \subseteq DOMAIN gates /\ Filling(subject) \subseteq Started
    BY DEF Opened, Filling, Started
<1> QED
    BY <1>1, <1>2, FS_Subset, FS_CardinalityType

\* A step of a daemon that has been started, after which it fills no gate.
Steady(s) ==
    /\ \A r \in Sessions \ {s} : daemon'[r] = daemon[r]
    /\ daemon[s].at # "new" /\ daemon'[s].at \notin {"new", "fill"}

\* No gate is opened.
NoneOpened ==
    /\ DOMAIN gates' = DOMAIN gates
    /\ \A n \in DOMAIN gates :
          /\ gates'[n].goal = gates[n].goal /\ gates'[n].depth = gates[n].depth
          /\ gates'[n].file = "open" => gates[n].file = "open"

LEMMA FewerAreCounted ==
    ASSUME TickInv, DaemonShape', GatesAreCounted, NoneOpened, IsFiniteSet(Started'), Started \subseteq Started',
           \A s \in Sessions : daemon'[s].at = "fill" => daemon'[s] = daemon[s]
    PROVE  GatesAreCounted'
<1> SUFFICES ASSUME NEW subject
             PROVE  Cardinality(Opened(subject)') + Cardinality(Filling(subject)') <= Cardinality(Started')
    BY DEF GatesAreCounted
<1>1. Opened(subject)' \subseteq Opened(subject)
    BY DEF Opened, NoneOpened, SubjectOf
<1>2. Filling(subject)' \subseteq Filling(subject)
    <2>1. \A s \in Sessions : daemon[s].at = "fill" => daemon[s].gate \in DOMAIN gates
        BY TickTypes DEF Ticks, Asks, AtAGate
    <2> QED
        BY <2>1 DEF Filling, NoneOpened, SubjectOf
<1>3. /\ IsFiniteSet(Opened(subject)) /\ IsFiniteSet(Filling(subject)) /\ IsFiniteSet(Started)
      /\ Cardinality(Opened(subject)) \in Nat /\ Cardinality(Filling(subject)) \in Nat
      /\ Cardinality(Started) \in Nat
    BY CountsAreFinite DEF TickInv, GatesAreCounted
<1>4. /\ Cardinality(Opened(subject)') <= Cardinality(Opened(subject))
      /\ Cardinality(Opened(subject)') \in Nat
    BY <1>1, <1>3, FS_Subset, FS_CardinalityType
<1>5. /\ Cardinality(Filling(subject)') <= Cardinality(Filling(subject))
      /\ Cardinality(Filling(subject)') \in Nat
    BY <1>2, <1>3, FS_Subset, FS_CardinalityType
<1>6. Cardinality(Started) <= Cardinality(Started') /\ Cardinality(Started') \in Nat
    BY FS_Subset, FS_CardinalityType
<1>7. Cardinality(Opened(subject)) + Cardinality(Filling(subject)) <= Cardinality(Started)
    BY DEF GatesAreCounted
<1> QED
    BY <1>3, <1>4, <1>5, <1>6, <1>7

LEMMA SteadyCounts ==
    ASSUME TickInv, DaemonShape', GatesAreCounted, NEW s \in Sessions, Steady(s), NoneOpened
    PROVE  GatesAreCounted'
<1>1. Started' = Started
    BY DEF Steady, Started
<1>2. \A r \in Sessions : daemon'[r].at = "fill" => daemon'[r] = daemon[r]
    BY DEF Steady
<1> QED
    BY <1>1, <1>2, FewerAreCounted DEF GatesAreCounted

LEMMA StartCounts ==
    ASSUME TickInv, DaemonShape', GatesAreCounted, NEW s \in Sessions, NEW mode \in Modes, StartDaemon(s, mode)
    PROVE  GatesAreCounted'
<1>1. daemon' = [daemon EXCEPT ![s].at = "rest", ![s].unattended = mode] /\ UNCHANGED gates
    BY DEF StartDaemon
<1>2. daemon'[s].at = "rest" /\ \A r \in Sessions \ {s} : daemon'[r] = daemon[r]
    BY <1>1 DEF TickInv, DaemonShape, Process
<1>3. Started' = Started \cup {s}
    BY <1>2 DEF Started
<1>4. IsFiniteSet(Started')
    BY <1>3, FS_AddElement DEF GatesAreCounted
<1>5. NoneOpened /\ \A r \in Sessions : daemon'[r].at = "fill" => daemon'[r] = daemon[r]
    BY <1>1, <1>2 DEF NoneOpened
<1> QED
    BY <1>3, <1>4, <1>5, FewerAreCounted

\* Where no gate is open, a daemon that opens one is among those started.
LEMMA OpenGateCounts ==
    ASSUME TickInv, DaemonShape', GatesAreCounted, NEW s \in Sessions, OpenGate(s)
    PROVE  GatesAreCounted'
<1> DEFINE new == [goal |-> daemon[s].cand.goal, depth |-> Depth(daemon[s].cand), file |-> "torn"]
           n == Len(gates) + 1
<1>1. /\ daemon[s].at = "gate" /\ OpenGates(daemon[s].cand) = {} /\ gates' = Append(gates, new)
      /\ daemon' = [daemon EXCEPT ![s].at = "fill", ![s].gate = n]
    BY DEF OpenGate, Is
<1>2. daemon'[s].at = "fill" /\ daemon'[s].gate = n /\ \A r \in Sessions \ {s} : daemon'[r] = daemon[r]
    BY <1>1 DEF TickInv, DaemonShape, Process
<1>3. new.file = "torn" /\ new.goal = daemon[s].cand.goal /\ new.depth = Depth(daemon[s].cand)
    OBVIOUS
<1>4. /\ gates'[n] = new /\ DOMAIN gates' = DOMAIN gates \cup {n} /\ n \notin DOMAIN gates
      /\ \A m \in DOMAIN gates : gates'[m] = gates[m]
    <2>1. gates \in Seq(Gate)
        BY DEF TickInv, DaemonShape
    <2> HIDE DEF new
    <2> QED
        BY <1>1, <2>1
<1>5. Started' = Started
    BY <1>1, <1>2 DEF Started
<1> HIDE DEF new, n
<1> SUFFICES ASSUME NEW subject
             PROVE  Cardinality(Opened(subject)') + Cardinality(Filling(subject)') <= Cardinality(Started')
    BY <1>5 DEF GatesAreCounted
<1>6. Opened(subject)' = Opened(subject)
    BY <1>3, <1>4 DEF Opened
<1>7. CASE subject = SubjectOf(new)
    <2>1. Opened(subject) = {}
        BY <1>1, <1>3, <1>7 DEF Opened, OpenGates, SubjectOf
    <2>2. Cardinality(Opened(subject)') = 0
        BY <1>6, <2>1, FS_EmptySet
    <2>3. IsFiniteSet(Started') /\ (IsFiniteSet(Started))'
        BY <1>5 DEF GatesAreCounted
    <2>4. Cardinality(Filling(subject)') <= Cardinality(Started') /\ Cardinality(Filling(subject)') \in Nat
        <3>1. Filling(subject)' \subseteq Started'
            BY DEF Filling, Started
        <3> QED
            BY <2>3, <3>1, FS_Subset, FS_CardinalityType
    <2> QED
        BY <2>2, <2>4
<1>8. CASE subject # SubjectOf(new)
    <2>1. Filling(subject)' = Filling(subject)
        <3>1. \A r \in Sessions : daemon[r].at = "fill" => daemon[r].gate \in DOMAIN gates
            BY TickTypes DEF Ticks, Asks, AtAGate
        <3>2. s \notin Filling(subject)' /\ s \notin Filling(subject)
            BY <1>1, <1>2, <1>4, <1>8 DEF Filling
        <3>3. \A r \in Sessions \ {s} : r \in Filling(subject)' <=> r \in Filling(subject)
            BY <1>2, <1>4, <3>1 DEF Filling
        <3> QED
            BY <3>2, <3>3 DEF Filling
    <2> QED
        BY <1>5, <1>6, <2>1 DEF GatesAreCounted
<1> QED
    BY <1>7, <1>8

LEMMA OneMoreOneLess ==
    ASSUME NEW S, NEW x, IsFiniteSet(S)
    PROVE  /\ IsFiniteSet(S \cup {x}) /\ Cardinality(S \cup {x}) <= Cardinality(S) + 1
           /\ x \in S => Cardinality(S \ {x}) = Cardinality(S) - 1
<1>1. Cardinality(S) \in Nat
    BY FS_CardinalityType
<1>2. /\ IsFiniteSet(S \cup {x})
      /\ Cardinality(S \cup {x}) = IF x \in S THEN Cardinality(S) ELSE Cardinality(S) + 1
    BY FS_AddElement
<1>3. Cardinality(S \ {x}) = IF x \in S THEN Cardinality(S) - 1 ELSE Cardinality(S)
    BY FS_RemoveElement
<1> QED
    BY <1>1, <1>2, <1>3

\* One gate more is open, and one daemon fewer fills.
LEMMA FillGateCounts ==
    ASSUME TickInv, DaemonShape', GatesAreCounted, NEW s \in Sessions, FillGate(s)
    PROVE  GatesAreCounted'
<1>1. daemon[s].at = "fill" /\ AfterGate(s, daemon[s].gate) /\ daemon[s].gate \in DOMAIN gates
    BY TickTypes DEF FillGate, Is, Ticks, Asks, AtAGate
<1> PICK n \in DOMAIN gates : n = daemon[s].gate
    BY <1>1
<1>2. gates' = [gates EXCEPT ![n].file = "open"]
    BY DEF FillGate
<1>3. daemon'[s].at \in {"rest", "wait"} /\ \A r \in Sessions \ {s} : daemon'[r] = daemon[r]
    BY <1>1 DEF AfterGate, EndTick, TickInv, DaemonShape, Process
<1>4. /\ DOMAIN gates' = DOMAIN gates
      /\ \A m \in DOMAIN gates : SubjectOf(gates'[m]) = SubjectOf(gates[m])
      /\ \A m \in DOMAIN gates \ {n} : gates'[m] = gates[m]
    <2>1. \A m \in DOMAIN gates : gates[m] \in Gate
        BY DEF TickInv, DaemonShape
    <2> QED
        BY <1>2, <2>1 DEF Gate, SubjectOf
<1>5. Started' = Started
    BY <1>1, <1>3 DEF Started
<1> SUFFICES ASSUME NEW subject
             PROVE  Cardinality(Opened(subject)') + Cardinality(Filling(subject)') <= Cardinality(Started')
    BY <1>5 DEF GatesAreCounted
<1>6. /\ IsFiniteSet(Opened(subject)) /\ IsFiniteSet(Filling(subject))
      /\ Cardinality(Opened(subject)) \in Nat /\ Cardinality(Filling(subject)) \in Nat
      /\ Cardinality(Started) \in Nat
    BY CountsAreFinite DEF TickInv, GatesAreCounted
<1>7. Filling(subject)' = Filling(subject) \ {s}
    <2>1. \A r \in Sessions : daemon[r].at = "fill" => daemon[r].gate \in DOMAIN gates
        BY TickTypes DEF Ticks, Asks, AtAGate
    <2> QED
        BY <1>3, <1>4, <2>1 DEF Filling
<1>8. Cardinality(Opened(subject)) + Cardinality(Filling(subject)) <= Cardinality(Started)
    BY DEF GatesAreCounted
<1>9. CASE SubjectOf(gates[n]) = subject
    <2>1. s \in Filling(subject)
        BY <1>1, <1>9 DEF Filling
    <2>2. Cardinality(Filling(subject)') = Cardinality(Filling(subject)) - 1
        <3>1. Cardinality(Filling(subject) \ {s}) = Cardinality(Filling(subject)) - 1
            BY <1>6, <2>1, OneMoreOneLess
        <3> QED
            BY <1>7, <3>1
    <2>3. Opened(subject)' \subseteq Opened(subject) \cup {n}
        BY <1>4 DEF Opened
    <2>4. /\ IsFiniteSet(Opened(subject) \cup {n})
          /\ Cardinality(Opened(subject) \cup {n}) <= Cardinality(Opened(subject)) + 1
        BY <1>6, OneMoreOneLess
    <2>5. /\ Cardinality(Opened(subject)') <= Cardinality(Opened(subject)) + 1
          /\ Cardinality(Opened(subject)') \in Nat
        <3>1. /\ Cardinality(Opened(subject)') <= Cardinality(Opened(subject) \cup {n})
              /\ Cardinality(Opened(subject)') \in Nat
            BY <2>3, <2>4, FS_Subset, FS_CardinalityType
        <3>2. Cardinality(Opened(subject) \cup {n}) \in Nat
            BY <2>4, FS_CardinalityType
        <3> QED
            BY <1>6, <2>4, <3>1, <3>2
    <2> QED
        BY <1>5, <1>6, <1>8, <2>2, <2>5
<1>10. CASE SubjectOf(gates[n]) # subject
    <2>1. Opened(subject)' = Opened(subject)
        BY <1>4, <1>10 DEF Opened
    <2>2. Filling(subject)' = Filling(subject)
        BY <1>7, <1>10 DEF Filling
    <2> QED
        BY <1>5, <1>8, <2>1, <2>2
<1> QED
    BY <1>9, <1>10

\* Every other step of a daemon opens and fills none.
LEMMA SteadyTick ==
    ASSUME DaemonShape, NEW s \in Sessions, daemon[s].at \notin {"new", "fill"},
           \/ EndTick(s) \/ UNCHANGED daemon
           \/ \E at \in Stage \ {"new", "fill"} : Then(s, at)
           \/ \E n : AfterGate(s, n)
    PROVE  Steady(s)
<1>1. CASE EndTick(s)
    <2>1. daemon'[s].at = "rest" /\ \A r \in Sessions \ {s} : daemon'[r] = daemon[r]
        BY <1>1 DEF EndTick, DaemonShape, Process
    <2> QED
        BY <2>1 DEF Steady
<1>2. CASE UNCHANGED daemon
    BY <1>2 DEF Steady
<1>3. CASE \E at \in Stage \ {"new", "fill"} : Then(s, at)
    BY <1>3, TickGoes DEF Steady
<1>4. CASE \E n : AfterGate(s, n)
    <2>1. daemon'[s].at \in {"rest", "wait"} /\ \A r \in Sessions \ {s} : daemon'[r] = daemon[r]
        BY <1>4 DEF AfterGate, EndTick, DaemonShape, Process
    <2> QED
        BY <2>1 DEF Steady
<1> QED
    BY <1>1, <1>2, <1>3, <1>4

\* A gate that is handled is not open any more.
LEMMA HandlingOpensNone ==
    ASSUME DaemonShape, NEW n, UNCHANGED gates \/ gates' = [gates EXCEPT ![n].file = "handled"]
    PROVE  NoneOpened
<1>1. \A m \in DOMAIN gates : gates[m] \in Gate
    BY DEF DaemonShape
<1> QED
    BY <1>1 DEF NoneOpened, Gate

LEMMA WorkIsSteady ==
    ASSUME DaemonShape, NEW s \in Sessions,
           \/ ClaimGoal(s) \/ ExecuteTask(s) \/ CloseTask(s) \/ MarkDispatched(s) \/ PreTickChecks(s)
           \/ ReuseGate(s) \/ GateTimesOut(s) \/ ResolveGate(s)
    PROVE  Steady(s) /\ NoneOpened
<1>1. UNCHANGED gates /\ daemon[s].at \notin {"new", "fill"}
    BY DEF ClaimGoal, ExecuteTask, CloseTask, MarkDispatched, PreTickChecks, ReuseGate, GateTimesOut, ResolveGate, Is
<1>a. NoneOpened
    BY <1>1, HandlingOpensNone
<1>2. CASE ClaimGoal(s)
    <2>1. EndTick(s) \/ UNCHANGED daemon \/ Then(s, "run")
        BY <1>2 DEF ClaimGoal
    <2> QED
        BY <1>a, <1>1, <2>1, SteadyTick DEF Stage
<1>3. CASE ExecuteTask(s)
    <2>1. \E at \in {"close", "mark"} : Then(s, at)
        BY <1>3 DEF ExecuteTask
    <2> QED
        BY <1>a, <1>1, <2>1, SteadyTick DEF Stage
<1>4. CASE CloseTask(s)
    BY <1>a, <1>1, <1>4, SteadyTick DEF CloseTask
<1>5. CASE MarkDispatched(s) \/ GateTimesOut(s)
    BY <1>a, <1>1, <1>5, SteadyTick DEF MarkDispatched, GateTimesOut
<1>6. CASE PreTickChecks(s)
    <2>1. \E at \in {"over", "rest", "look"} : Then(s, at)
        BY <1>6, Zenon DEF PreTickChecks
    <2> QED
        BY <1>a, <1>1, <2>1, SteadyTick DEF Stage
<1>7. CASE ReuseGate(s)
    BY <1>a, <1>1, <1>7, SteadyTick DEF ReuseGate
<1>8. CASE ResolveGate(s)
    <2>1. Then(s, "handle")
        BY <1>8 DEF ResolveGate
    <2> QED
        BY <1>a, <1>1, <2>1, SteadyTick DEF Stage
<1> QED
    BY <1>2, <1>3, <1>4, <1>5, <1>6, <1>7, <1>8

LEMMA LookingIsSteady ==
    ASSUME TickInv, NEW s \in Sessions, Discover(s) \/ ReadResolvedGate(s) \/ PollGate(s)
    PROVE  Steady(s) /\ NoneOpened
<1>1. UNCHANGED gates /\ daemon[s].at \notin {"new", "fill"} /\ DaemonShape
    BY DEF Discover, ReadResolvedGate, PollGate, Is, TickInv
<1>a. NoneOpened
    BY <1>1, HandlingOpensNone
<1>2. CASE Discover(s)
    <2> DEFINE at == IF ~(daemon[s].unattended /\ Allowed(Top)) THEN "gate"
                     ELSE IF Top.gate = None THEN "claim" ELSE "run"
               found == Top
    <2>1. EndTick(s) \/ daemon' = [daemon EXCEPT ![s].cand = found, ![s].at = at]
        BY <1>2 DEF Discover
    <2>2. at \in {"gate", "claim", "run"}
        OBVIOUS
    <2> HIDE DEF at, found
    <2>3. CASE daemon' = [daemon EXCEPT ![s].cand = found, ![s].at = at]
        <3>1. daemon'[s].at = at /\ \A r \in Sessions \ {s} : daemon'[r] = daemon[r]
            BY <1>1, <2>3 DEF DaemonShape, Process
        <3> QED
            BY <1>a, <1>1, <2>2, <3>1 DEF Steady
    <2> QED
        BY <1>a, <1>1, <2>1, <2>3, SteadyTick
<1>3. CASE ReadResolvedGate(s)
    <2>1. HasVerdict(daemon[s].gate)
        BY <1>3 DEF ReadResolvedGate
    <2>2. Verdict(daemon[s].gate) \in Option
        <3>1. PICK i \in DOMAIN resolved : Verdict(daemon[s].gate) = resolved[i].option
            BY <2>1, VerdictIsWritten
        <3>2. resolved[i] \in Resolution
            BY <1>1 DEF DaemonShape
        <3> QED
            BY <3>1, <3>2 DEF Resolution
    <2>3. EndTick(s) \/ \E at \in {"over", "claim", "run"} : Then(s, at)
        BY <1>3, <2>2 DEF ReadResolvedGate, Option
    <2> QED
        BY <1>a, <1>1, <2>3, SteadyTick DEF Stage
<1>4. CASE PollGate(s)
    <2> DEFINE n == daemon[s].gate
               at == IF gates[n].file = "open" THEN "resolve" ELSE "rest"
    <2>1. \/ UNCHANGED daemon
          \/ daemon' = [daemon EXCEPT ![s].known = @ \cup {n}, ![s].at = at, ![s].option = Chosen(n)]
        BY <1>4 DEF PollGate
    <2>2. at \in {"resolve", "rest"}
        OBVIOUS
    <2> HIDE DEF n, at
    <2>3. daemon'[s].at \in {daemon[s].at, at} /\ \A r \in Sessions \ {s} : daemon'[r] = daemon[r]
        BY <1>1, <2>1 DEF DaemonShape, Process
    <2> QED
        BY <1>a, <1>1, <2>2, <2>3 DEF Steady
<1> QED
    BY <1>2, <1>3, <1>4

LEMMA HandleIsSteady ==
    ASSUME DaemonShape, NEW s \in Sessions, HandleGate(s)
    PROVE  Steady(s) /\ NoneOpened
<1>1. daemon[s].at = "handle"
    BY DEF HandleGate, Is
<1>2. EndTick(s) \/ daemon' = [daemon EXCEPT ![s].at = "wait", ![s].option = None]
    BY DEF HandleGate
<1>4. NoneOpened
    BY HandlingOpensNone DEF HandleGate
<1>3. CASE daemon' = [daemon EXCEPT ![s].at = "wait", ![s].option = None]
    <2>1. daemon'[s].at = "wait" /\ \A r \in Sessions \ {s} : daemon'[r] = daemon[r]
        BY <1>3 DEF DaemonShape, Process
    <2> QED
        BY <1>1, <1>4, <2>1 DEF Steady
<1>5. Steady(s)
    BY <1>1, <1>2, <1>3, SteadyTick
<1> QED
    BY <1>4, <1>5

\* A daemon that was never started is not killed.
LEMMA DeathIsSteady ==
    ASSUME DaemonShape, NEW s \in Sessions, DaemonDies(s)
    PROVE  Steady(s) /\ NoneOpened
<1>1. daemon[s].at # "new" /\ Then(s, "over") /\ UNCHANGED gates
    BY DEF DaemonDies, Running
<1>2. daemon'[s].at = "over" /\ \A r \in Sessions \ {s} : daemon'[r] = daemon[r]
    BY <1>1, TickGoes DEF Stage
<1> QED
    BY <1>1, <1>2, HandlingOpensNone DEF Steady

LEMMA EveryStepCounts ==
    ASSUME TickInv, TickInv', GatesAreCounted, [DaemonNext]_vars
    PROVE  GatesAreCounted'
<1>1. DaemonShape /\ DaemonShape'
    BY DEF TickInv
<1>2. ASSUME NEW s \in Sessions, TickStep(s)
      PROVE  GatesAreCounted'
    BY <1>1, <1>2, OpenGateCounts, FillGateCounts, WorkIsSteady, LookingIsSteady, HandleIsSteady, SteadyCounts DEF TickStep
<1>3. ASSUME NEW s \in Sessions, (\E mode \in Modes : StartDaemon(s, mode)) \/ DaemonDies(s)
      PROVE  GatesAreCounted'
    BY <1>1, <1>3, StartCounts, DeathIsSteady, SteadyCounts
<1>4. ASSUME \/ \E g \in Goals : ExpireClaim(g) /\ UNCHANGED daemonVars
             \/ \E say \in {"APPROVE", "SKIP", "STOP", "PAUSE"}, n \in DOMAIN gates \cup {None} : Say(say, n)
             \/ \E n \in GateId, option \in Option : BeginResolve(n, option)
             \/ ServiceResolves \/ ServiceHandles
             \/ \E action \in {"STOP", "PAUSE"} : IssueControl(action)
             \/ UNCHANGED vars
      PROVE  GatesAreCounted'
    <2>1. UNCHANGED daemon /\ \E n : UNCHANGED gates \/ gates' = [gates EXCEPT ![n].file = "handled"]
        BY <1>4 DEF Say, BeginResolve, ServiceResolves, ServiceHandles, IssueControl, vars, daemonVars
    <2>2. NoneOpened
        BY <1>1, <2>1, HandlingOpensNone
    <2>3. Started' = Started
        BY <2>1 DEF Started
    <2> QED
        BY <1>1, <2>1, <2>2, <2>3, FewerAreCounted DEF GatesAreCounted
<1> QED
    BY <1>2, <1>3, <1>4 DEF DaemonNext

\* agent_daemon.py, _find_existing_pending_gate: daemons that start again, or
\* overlap, ask the principal about one subject no more often than daemons
\* were started, however verdicts, ticks and deaths interleave.
THEOREM DaemonsDoNotPester == DaemonSpec => []OpenGatesAreBounded
<1>1. DaemonInit => GatesAreCounted
    <2> SUFFICES ASSUME DaemonInit PROVE GatesAreCounted
        OBVIOUS
    <2>1. gates = <<>> /\ \A s \in Sessions : daemon[s].at = "new"
        BY DEF DaemonInit
    <2>2. Started = {} /\ \A subject : Opened(subject) = {} /\ Filling(subject) = {}
        BY <2>1 DEF Started, Opened, Filling
    <2>3. Cardinality({}) = 0 /\ IsFiniteSet({})
        BY FS_EmptySet
    <2> QED
        BY <2>2, <2>3 DEF GatesAreCounted
<1>2. TickInv /\ TickInv' /\ GatesAreCounted /\ [DaemonNext]_vars => GatesAreCounted'
    BY EveryStepCounts
<1>3. TickInv /\ GatesAreCounted => OpenGatesAreBounded
    <2> SUFFICES ASSUME TickInv, GatesAreCounted, NEW n \in DOMAIN gates
                 PROVE  Cardinality(Opened(SubjectOf(gates[n]))) <= Cardinality(Started)
        BY DEF OpenGatesAreBounded, Opened
    <2> DEFINE subject == SubjectOf(gates[n])
    <2>1. Cardinality(Opened(subject)) + Cardinality(Filling(subject)) <= Cardinality(Started)
        BY DEF GatesAreCounted
    <2> HIDE DEF subject
    <2>2. /\ Cardinality(Opened(subject)) \in Nat /\ Cardinality(Filling(subject)) \in Nat
          /\ Cardinality(Started) \in Nat
        BY CountsAreFinite DEF TickInv, GatesAreCounted
    <2>3. Cardinality(Opened(subject)) <= Cardinality(Started)
        BY <2>1, <2>2
    <2> QED
        BY <2>3 DEF subject
<1> QED
    BY <1>1, <1>2, <1>3, DaemonInvariant, PTL DEF DaemonSpec
=============================================================================
