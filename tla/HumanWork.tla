----------------------------- MODULE HumanWork -----------------------------
(***************************************************************************)
(* Human work sessions (orchestration/human_work.py): bounded work that a  *)
(* role asks a human for, claimed, done, handed back and integrated.  All  *)
(* sessions are rows of one file, and a change of one session rewrites the *)
(* whole file without a lock, from requests of the kernel service and from *)
(* command lines.  A caller may die between any two steps.                 *)
(***************************************************************************)
EXTENDS RecordLog

CONSTANTS
    Callers,      \* threads and processes that call this module
    HumanIds,     \* session ids
    Offered,      \* the changes that callers ask for
    Filed,        \* the sessions that are in the file at first
    MaxHumanCalls,
    MaxHumanDeaths,
    MaxPerSource  \* sessions work discovery looks at (30 in the code)

VARIABLES
    humanLog,    \* human_work.jsonl
    humanCall,   \* humanCall[c]: the call c is in
    humanCalls,  \* bound: calls made
    humanDeaths, \* bound: callers that died in a call
    acked,       \* history: acked[i]: the session as the last call for i returned it
    humanRaced   \* history: a caller wrote while another was between its read and its write,
                 \* or read while another was writing

humanVars == <<humanLog, humanCall, humanCalls, humanDeaths, acked, humanRaced>>

Waiting == {"requested", "claimed", "in_progress", "blocked"}
ReadyForAgent == {"handed_off", "completed"}
Terminal == {"abandoned", "integrated"}

AllowedTransitions ==
    [requested   |-> {"claimed", "in_progress", "abandoned"},
     claimed     |-> {"in_progress", "blocked", "handed_off", "abandoned"},
     in_progress |-> {"blocked", "handed_off", "completed", "abandoned"},
     blocked     |-> {"in_progress", "handed_off", "abandoned"},
     handed_off  |-> {"claimed", "in_progress", "completed", "abandoned"},
     completed   |-> {"integrated", "in_progress"},
     abandoned   |-> {},
     integrated  |-> {}]

\* asked: the interaction event of an agent's request; a2h: asked for by an agent.
Session == [id : HumanIds, state : DOMAIN AllowedTransitions, required : BOOLEAN, receipt : BOOLEAN,
            followup : BOOLEAN, a2h : BOOLEAN, asked : BOOLEAN]

\* What a call does to its session; a receipt or followup of None leaves it
\* alone, and a receipt of FALSE is an empty text, which erases what was there.
Change == [kind : {"state"}, to : DOMAIN AllowedTransitions, receipt : BOOLEAN \cup {None},
           followup : BOOLEAN \cup {None}]
          \cup [kind : {"receipt", "note", "ask"}]
          \cup [kind : {"interaction"}, followup : BOOLEAN \cup {None}]

\* "ask" is a part of a creation, never a call of its own.
ASSUME OfferedAssumption == Offered \subseteq {change \in Change : change.kind # "ask"}

\* No session that needs a receipt is integrated without one.
Receipted(s) == s.state = "integrated" /\ s.required => s.receipt

\* The file as earlier calls left it.
ASSUME FiledAssumption ==
    /\ Filed \in Seq(Session) /\ \A n \in DOMAIN Filed : Receipted(Filed[n])
    /\ \A m, n \in DOMAIN Filed : Filed[m].id = Filed[n].id => m = n

HumanInit ==
    /\ humanLog = IF Filed = <<>> THEN Absent ELSE Filed
    /\ humanCall = [c \in Callers |-> None]
    /\ humanCalls = 0 /\ humanDeaths = 0
    /\ acked = [i \in HumanIds |-> IF Mentions(Filed, i) THEN FirstFor(Filed, i) ELSE None]
    /\ humanRaced = FALSE

-----------------------------------------------------------------------------
(* The changes of a session.                                               *)

\* The receipt that a change of state leaves.
Receipt(s, change) == IF change.receipt = None THEN s.receipt ELSE change.receipt

\* Mutant: the receipt is asked for when the work is completed, and not again.
Lawful_OnceCompleted(s, change) ==
    /\ change.to \in AllowedTransitions[s.state]
    /\ change.to = "completed" /\ s.required => Receipt(s, change)

\* What update_human_work_state lets through; a terminal state lets nothing.
Lawful(s, change) ==
    /\ change.to \in AllowedTransitions[s.state]
    /\ change.to = "integrated" /\ s.required => Receipt(s, change)

Mutates(s, change) == change.kind = "state" => Lawful(s, change)

Followup(s, change) == IF change.followup = None THEN s.followup ELSE change.followup

\* Receipts, notes and interactions are taken in every state.
Mutated(s, change) ==
    CASE change.kind = "state" -> [s EXCEPT !.state = change.to, !.receipt = Receipt(s, change),
                                            !.followup = Followup(s, change)]
      [] change.kind = "receipt" -> [s EXCEPT !.receipt = TRUE]
      [] change.kind = "note" -> s
      [] change.kind = "ask" -> [s EXCEPT !.asked = TRUE, !.followup = TRUE]
      [] change.kind = "interaction" -> [s EXCEPT !.followup = Followup(s, change)]

-----------------------------------------------------------------------------
(* Calls.                                                                  *)

HumanAt(c, at) == humanCall[c] # None /\ humanCall[c].at = at
HumanGoes(c, at) == humanCall' = [humanCall EXCEPT ![c].at = at]
HumanEnds(c) == humanCall' = [humanCall EXCEPT ![c] = None]

\* c changes the file while another caller holds rows it has read.
HumanRaces(c) ==
    humanRaced' = (humanRaced \/ \E d \in Callers \ {c} : HumanAt(d, "open") \/ HumanAt(d, "fill"))

BeginHumanCall(c, call) ==
    /\ humanCalls < MaxHumanCalls
    /\ humanCall[c] = None
    /\ humanCall' = [humanCall EXCEPT ![c] = call]
    /\ humanCalls' = humanCalls + 1
    /\ UNCHANGED <<humanLog, humanDeaths, acked, humanRaced>>

\* The request of an agent goes on with the event of the request.
AfterAppend(c, new) ==
    IF new.a2h THEN humanCall' = [humanCall EXCEPT ![c].at = "read", ![c].rows = <<>>]
    ELSE HumanEnds(c)

NewSession(i, required, a2h) ==
    [id |-> i, state |-> "requested", required |-> required, receipt |-> FALSE,
     followup |-> a2h, a2h |-> a2h, asked |-> FALSE]

\* create_human_work_session, or create_agent_requested_human_work_session.
BeginCreate(c, i, required, a2h) ==
    /\ acked[i] = None
    /\ \A d \in Callers : humanCall[d] # None => humanCall[d].id # i
    /\ BeginHumanCall(c, [at |-> "append", id |-> i, change |-> [kind |-> "ask"],
                          rows |-> <<NewSession(i, required, a2h)>>])

\* A file that ends in half a line takes the new row into that line.
AppendSession(c) ==
    /\ HumanAt(c, "append")
    /\ LET new == humanCall[c].rows[1] IN
       /\ humanLog' = Appended(humanLog, new)
       /\ acked' = [acked EXCEPT ![new.id] = new]
       /\ AfterAppend(c, new)
    /\ HumanRaces(c)
    /\ UNCHANGED <<humanCalls, humanDeaths>>

BeginChange(c, i, change) ==
    /\ acked[i] # None
    /\ BeginHumanCall(c, [at |-> "read", id |-> i, change |-> change, rows |-> <<>>])

\* The rows to be written back: every row of the session changed, each by itself.
RewriteRows(rows, i, change) ==
    [n \in DOMAIN rows |-> IF rows[n].id = i THEN Mutated(rows[n], change) ELSE rows[n]]

\* A file that cannot be read, a session that is not there and a change that
\* one of its rows does not allow raise, before anything is written.
ReadSessions(c) ==
    /\ HumanAt(c, "read")
    /\ LET call == humanCall[c]
           rows == RowsOf(humanLog)
       IN IF /\ Readable(humanLog)
             /\ Mentions(rows, call.id)
             /\ \A n \in DOMAIN rows : rows[n].id = call.id => Mutates(rows[n], call.change)
          THEN humanCall' = [humanCall EXCEPT ![c].at = "open",
                                              ![c].rows = RewriteRows(rows, call.id, call.change)]
          ELSE HumanEnds(c)
    /\ humanRaced' = (humanRaced \/ \E d \in Callers \ {c} : HumanAt(d, "fill"))
    /\ UNCHANGED <<humanLog, humanCalls, humanDeaths, acked>>

OpenSessions(c) ==
    /\ HumanAt(c, "open")
    /\ humanLog' = <<>>
    /\ HumanGoes(c, "fill")
    /\ HumanRaces(c)
    /\ UNCHANGED <<humanCalls, humanDeaths, acked>>

\* The caller is told the last row of its session.
FillSessions(c) ==
    /\ HumanAt(c, "fill")
    /\ LET call == humanCall[c] IN
       /\ humanLog' \in FilledOver(humanLog, call.rows)
       /\ acked' = [acked EXCEPT ![call.id] = call.rows[LastRow(call.rows, call.id)]]
    /\ HumanEnds(c)
    /\ HumanRaces(c)
    /\ UNCHANGED <<humanCalls, humanDeaths>>

HumanDies(c) ==
    /\ humanDeaths < MaxHumanDeaths
    /\ humanCall[c] # None
    /\ HumanEnds(c)
    /\ humanDeaths' = humanDeaths + 1
    /\ UNCHANGED <<humanLog, humanCalls, acked, humanRaced>>

CreateStep(c) == \E i \in HumanIds, required, a2h \in BOOLEAN : BeginCreate(c, i, required, a2h)
ChangeStep(c) == \E i \in HumanIds, change \in Offered : BeginChange(c, i, change)

HumanNext ==
    \E c \in Callers :
        \/ CreateStep(c) \/ AppendSession(c)
        \/ ChangeStep(c) \/ ReadSessions(c) \/ OpenSessions(c) \/ FillSessions(c)
        \/ HumanDies(c)

HumanSpec == HumanInit /\ [][HumanNext]_humanVars

-----------------------------------------------------------------------------
(* The read models.                                                        *)

SessionsIn(file) == {RowsOf(file)[n] : n \in DOMAIN RowsOf(file)}

WaitingOnHuman(file) == {s \in SessionsIn(file) : s.followup /\ s.state \in Waiting}
AgentFollowup(file) == {s \in SessionsIn(file) : s.followup /\ s.state \in ReadyForAgent}
MissingReceipt(file) ==
    {s \in SessionsIn(file) : s.state \notin Terminal /\ s.required /\ ~s.receipt}

\* discover_human_work_sessions: of the oldest rows, closed ones among them.
Discovered(file) ==
    {s \in {RowsOf(file)[n] : n \in {k \in DOMAIN RowsOf(file) : k <= MaxPerSource}} :
        /\ s.state \in {"requested", "blocked", "handed_off", "completed"}
        /\ ~(s.a2h /\ s.state = "requested")}

-----------------------------------------------------------------------------
(* Properties.                                                             *)

\* Type invariant of the session file and of the calls.
HumanTypeOK ==
    /\ humanLog \in {Absent, Torn} \/ \A n \in DOMAIN humanLog : humanLog[n] \in Session
    /\ \A c \in Callers :
          humanCall[c] # None =>
              /\ humanCall[c].at \in {"append", "read", "open", "fill"}
              /\ humanCall[c].id \in HumanIds /\ humanCall[c].change \in Change
    /\ humanCalls \in 0 .. MaxHumanCalls /\ humanDeaths \in 0 .. MaxHumanDeaths
    /\ acked \in [HumanIds -> Session \cup {None}]
    /\ humanRaced \in BOOLEAN

HumanQuiet == \A c \in Callers : ~HumanAt(c, "fill")

\* No session that requires a receipt is integrated without one, whatever
\* calls overlap and whoever dies, in the file and in what callers were told.
\* human_work.py:1053-1058, a2h.md "Receipt-required work cannot move to
\* integrated until a receipt is present".
ReceiptBeforeIntegration ==
    /\ humanLog # Torn => \A s \in SessionsIn(humanLog) : Receipted(s)
    /\ \A i \in HumanIds : acked[i] # None => Receipted(acked[i])

\* What a caller was told is what the file says, as long as no two calls
\* overlapped and nobody died: no change of one session disturbs another.
AnswersAreKept ==
    ~humanRaced /\ humanDeaths = 0 /\ HumanQuiet =>
        \A i \in HumanIds : acked[i] # None => acked[i] \in SessionsIn(humanLog)

\* A session in the file that an agent requested has the event of the request,
\* unless its creation is still under way, its creator died, or calls overlapped.
RequestIsOnRecord ==
    humanLog # Torn /\ ~humanRaced /\ humanDeaths = 0 =>
        \A s \in SessionsIn(humanLog) :
            s.a2h /\ ~s.asked => \E c \in Callers : humanCall[c] # None /\ humanCall[c].id = s.id
                                                   /\ humanCall[c].change.kind = "ask"

\* A session goes from state to state along the lifecycle, and leaves no
\* terminal state, unless calls overlapped or a caller died.
LifecycleIsFollowed ==
    [][\A i \in HumanIds :
        acked[i] # None /\ ~humanRaced' /\ humanDeaths' = 0 =>
            \/ acked'[i].state = acked[i].state
            \/ acked'[i].state \in AllowedTransitions[acked[i].state]]_humanVars

\* Stated, and violated: a session that was closed stays closed.
ClosedStaysClosed ==
    \A i \in HumanIds :
        acked[i] # None /\ acked[i].state \in Terminal /\ HumanQuiet /\ humanDeaths = 0 =>
            humanLog # Torn /\ \A s \in SessionsIn(humanLog) : s.id = i => s.state \in Terminal

\* Stated, and violated: a session that a role has to integrate is one that
\* work discovery surfaces.
FollowupIsDiscovered ==
    humanLog # Torn => AgentFollowup(humanLog) \subseteq Discovered(humanLog)
=============================================================================
