----------------------------- MODULE GoalsInbox -----------------------------
(***************************************************************************)
(* The inbox of the principal's goals (orchestration/goals_inbox.py): a    *)
(* goal is a file that sessions move from pending to active and on to      *)
(* done, under a claim file (sessions/claims.py) that is read and written  *)
(* without a lock and lives for six hours.                                 *)
(*                                                                         *)
(* Each step reads or changes one file; a file that is written is empty    *)
(* first.  A session may die between any two steps.                        *)
(***************************************************************************)
EXTENDS KernelBase

CONSTANTS
    Sessions, \* ids of sessions: every start of a daemon makes a new one
    Goals     \* the goals the principal has written

VARIABLES
    pending, \* pending[g]: tasks/pending/<g>.md, a text or Absent
    active,  \* active[g]: tasks/active/<g>.md
    done,    \* done[g]: tasks/done/<g>.md
    claims,  \* claims[g]: the claim file for g
    job,     \* job[s]: the call session s is in
    wins     \* history: wins[g]: claim_goal calls that returned g

inboxVars == <<pending, active, done, claims, job, wins>>

\* body: the principal's words are in the text; by: who claimed it last.
Text == [body : BOOLEAN, by : Sessions \cup {None}]
NoText == [body |-> FALSE, by |-> None]
Written == [body |-> TRUE, by |-> None]
File == Text \cup {Absent, Torn}
Claim == [session : Sessions, live : BOOLEAN]

Stages ==
    {"claim", "open_claim", "fill_claim", "read", "open_active", "fill_active", "unlink_pending",
     "parse", "working", "open_done", "fill_done", "unlink_active", "release", "unlink_claim",
     "open_blocked", "fill_blocked"}
Job == [at : Stages, goal : Goals, text : Text]
NoJob == [at |-> None, goal |-> None, text |-> NoText]

ASSUME InboxAssumption ==
    None \notin Goals /\ None \notin Sessions /\ None \notin Stages /\ {Absent, Torn} \cap (Text \cup Claim) = {}

InboxTypeOK ==
    /\ pending \in [Goals -> File] /\ active \in [Goals -> File] /\ done \in [Goals -> File]
    /\ claims \in [Goals -> Claim \cup {Absent, Torn}]
    /\ job \in [Sessions -> Job \cup {NoJob}]
    /\ wins \in [Goals -> Nat]

InboxInit ==
    /\ pending = [g \in Goals |-> Written]
    /\ active = [g \in Goals |-> Absent]
    /\ done = [g \in Goals |-> Absent]
    /\ claims = [g \in Goals |-> Absent]
    /\ job = [s \in Sessions |-> NoJob]
    /\ wins = [g \in Goals |-> 0]

-----------------------------------------------------------------------------
\* read_text of a file that is being written finds nothing.
ReadText(file) == IF file = Torn THEN NoText ELSE file

At(s, at) == job[s].at = at
Goes(s, at) == job' = [job EXCEPT ![s].at = at]
Leaves(s) == job' = [job EXCEPT ![s] = NoJob]

(* claim_goal                                                              *)

\* The file is there.
BeginClaim(s, g) ==
    /\ job[s] = NoJob
    /\ pending[g] # Absent
    /\ job' = [job EXCEPT ![s] = [at |-> "claim", goal |-> g, text |-> NoText]]
    /\ UNCHANGED <<pending, active, done, claims, wins>>

\* Mutant: a claim holds as long as its file is there.
MayClaim_WhileFiled(s, g) == claims[g] \in {Absent} \cup {c \in Claim : c.session = s}

\* Read by claim_task: no claim, an expired one, or one's own.
MayClaim(s, g) ==
    claims[g] \in {Absent} \cup {c \in Claim : ~c.live \/ c.session = s}

\* A claim file that does not parse raises; a live one refuses.
ReadClaim(s) ==
    /\ At(s, "claim")
    /\ IF MayClaim(s, job[s].goal) THEN Goes(s, "open_claim") ELSE Leaves(s)
    /\ UNCHANGED <<pending, active, done, claims, wins>>

OpenClaim(s) ==
    /\ At(s, "open_claim")
    /\ claims' = [claims EXCEPT ![job[s].goal] = Torn]
    /\ Goes(s, "fill_claim")
    /\ UNCHANGED <<pending, active, done, wins>>

FillClaim(s) ==
    /\ At(s, "fill_claim")
    /\ claims' = [claims EXCEPT ![job[s].goal] = [session |-> s, live |-> TRUE]]
    /\ Goes(s, "read")
    /\ UNCHANGED <<pending, active, done, wins>>

\* Another session may have taken the file: the read raises, the claim stays.
ReadPending(s) ==
    /\ At(s, "read")
    /\ IF pending[job[s].goal] = Absent THEN Leaves(s)
       ELSE job' = [job EXCEPT ![s].at = "open_active",
                               ![s].text = [ReadText(pending[job[s].goal]) EXCEPT !.by = s]]
    /\ UNCHANGED <<pending, active, done, claims, wins>>

OpenActive(s) ==
    /\ At(s, "open_active")
    /\ active' = [active EXCEPT ![job[s].goal] = Torn]
    /\ Goes(s, "fill_active")
    /\ UNCHANGED <<pending, done, claims, wins>>

FillActive(s) ==
    /\ At(s, "fill_active")
    /\ active' = [active EXCEPT ![job[s].goal] = job[s].text]
    /\ Goes(s, "unlink_pending")
    /\ UNCHANGED <<pending, done, claims, wins>>

\* Mutant: it does not matter whether the file is still there.
UnlinkPending_MissingOk(s) ==
    /\ At(s, "unlink_pending")
    /\ pending' = [pending EXCEPT ![job[s].goal] = Absent]
    /\ Goes(s, "parse")
    /\ UNCHANGED <<active, done, claims, wins>>

\* The unlink raises if another session was faster.
UnlinkPending(s) ==
    /\ At(s, "unlink_pending")
    /\ pending' = [pending EXCEPT ![job[s].goal] = Absent]
    /\ IF pending[job[s].goal] = Absent THEN Leaves(s) ELSE Goes(s, "parse")
    /\ UNCHANGED <<active, done, claims, wins>>

\* What is returned is parsed from the active file; without it, nothing is.
ReturnGoal(s) ==
    /\ At(s, "parse")
    /\ IF active[job[s].goal] = Absent THEN Leaves(s) /\ UNCHANGED wins
       ELSE Goes(s, "working") /\ wins' = [wins EXCEPT ![job[s].goal] = @ + 1]
    /\ UNCHANGED <<pending, active, done, claims>>

(* mark_goal_done                                                          *)

\* Nothing is done when the active file is gone.
BeginDone(s) ==
    /\ At(s, "working")
    /\ IF active[job[s].goal] = Absent THEN Leaves(s)
       ELSE job' = [job EXCEPT ![s].at = "open_done", ![s].text = ReadText(active[job[s].goal])]
    /\ UNCHANGED <<pending, active, done, claims, wins>>

OpenDone(s) ==
    /\ At(s, "open_done")
    /\ done' = [done EXCEPT ![job[s].goal] = Torn]
    /\ Goes(s, "fill_done")
    /\ UNCHANGED <<pending, active, claims, wins>>

\* Mutant: only the result is written.
FillDone_ResultOnly(s) ==
    /\ At(s, "fill_done")
    /\ done' = [done EXCEPT ![job[s].goal] = NoText]
    /\ Goes(s, "unlink_active")
    /\ UNCHANGED <<pending, active, claims, wins>>

FillDone(s) ==
    /\ At(s, "fill_done")
    /\ done' = [done EXCEPT ![job[s].goal] = job[s].text]
    /\ Goes(s, "unlink_active")
    /\ UNCHANGED <<pending, active, claims, wins>>

UnlinkActive(s) ==
    /\ At(s, "unlink_active")
    /\ active' = [active EXCEPT ![job[s].goal] = Absent]
    /\ IF active[job[s].goal] = Absent THEN Leaves(s) ELSE Goes(s, "release")
    /\ UNCHANGED <<pending, done, claims, wins>>

\* release_claim reads the claim, and goes on only if it is one's own.
ReleaseClaim(s) ==
    /\ At(s, "release")
    /\ IF claims[job[s].goal] \in Claim /\ claims[job[s].goal].session = s
       THEN Goes(s, "unlink_claim") ELSE Leaves(s)
    /\ UNCHANGED <<pending, active, done, claims, wins>>

\* Whatever is there by now is removed; the unlink raises if nothing is.
UnlinkClaim(s) ==
    /\ At(s, "unlink_claim")
    /\ claims' = [claims EXCEPT ![job[s].goal] = Absent]
    /\ Leaves(s)
    /\ UNCHANGED <<pending, active, done, wins>>

(* mark_goal_blocked: the file stays where it is, and so does the claim.   *)

BeginBlocked(s) ==
    /\ At(s, "working")
    /\ IF active[job[s].goal] = Absent THEN Leaves(s)
       ELSE job' = [job EXCEPT ![s].at = "open_blocked", ![s].text = ReadText(active[job[s].goal])]
    /\ UNCHANGED <<pending, active, done, claims, wins>>

OpenBlocked(s) ==
    /\ At(s, "open_blocked")
    /\ active' = [active EXCEPT ![job[s].goal] = Torn]
    /\ Goes(s, "fill_blocked")
    /\ UNCHANGED <<pending, done, claims, wins>>

FillBlocked(s) ==
    /\ At(s, "fill_blocked")
    /\ active' = [active EXCEPT ![job[s].goal] = job[s].text]
    /\ Leaves(s)
    /\ UNCHANGED <<pending, done, claims, wins>>

\* Six hours pass; a call, and the agent's work, take at most one.
ExpireClaim(g) ==
    /\ claims[g] \in Claim /\ claims[g].live
    /\ job[claims[g].session].goal # g
    /\ claims' = [claims EXCEPT ![g].live = FALSE]
    /\ UNCHANGED <<pending, active, done, job, wins>>

ClaimStep(s) ==
    \/ ReadClaim(s) \/ OpenClaim(s) \/ FillClaim(s) \/ ReadPending(s)
    \/ OpenActive(s) \/ FillActive(s) \/ UnlinkPending(s) \/ ReturnGoal(s)

CloseStep(s) ==
    \/ OpenDone(s) \/ FillDone(s) \/ UnlinkActive(s) \/ ReleaseClaim(s) \/ UnlinkClaim(s)
    \/ OpenBlocked(s) \/ FillBlocked(s)

-----------------------------------------------------------------------------
\* However calls overlap, expire or die, a goal is handed out once: whoever
\* removes the pending file has it, whatever the claim file says.
OneClaimer == \A g \in Goals : wins[g] <= 1

Moving(g) == \E s \in Sessions : job[s].goal = g

\* A goal's file is always in one of the folders, and unless calls on it
\* were disturbed, the principal's words are still in it once nobody moves it.
GoalIsKept(disturbed) ==
    \A g \in Goals :
        /\ \E folder \in {pending, active, done} : folder[g] # Absent
        /\ g \in disturbed \/ Moving(g)
           \/ \E folder \in {pending, active, done} : folder[g] \in Text /\ folder[g].body

\* A goal that is done is no longer listed as active, once nobody moves it.
DoneIsNotActive ==
    \A g \in Goals :
        (done[g] \in Text /\ ~Moving(g)) => active[g] = Absent
=============================================================================
