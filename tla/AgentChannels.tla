--------------------------- MODULE AgentChannels ---------------------------
(***************************************************************************)
(* The agent-to-agent channel (orchestration/agent_channels.py): one JSON  *)
(* file per message in the receiver's inbox, a copy in the sender's sent   *)
(* folder, and a row in the transition log per change.                     *)
(*                                                                         *)
(* Nothing is locked.  Each call reads, decides, and then writes: it       *)
(* empties the inbox file, fills it, does the same to the copy, and        *)
(* appends the row.                                                        *)
(* The kernel service runs calls on threads and the daemons are processes, *)
(* so calls interleave at every one of these steps.                        *)
(*                                                                         *)
(* Roles, policy, bodies and notes are left out: a refused send changes    *)
(* nothing.                                                                *)
(***************************************************************************)
EXTENDS Integers, Sequences, FiniteSets

CONSTANTS
    Messages,          \* message ids that may come to exist
    None,              \* no message: the parent of a root obligation
    Callers,           \* threads and processes that call the module
    Seed,              \* obligations at the start: [thread, parent, obligation]
    Operations,        \* what callers call: "send", "obligation", "status"
    Statuses,          \* bound: the envelope statuses they ask for
    MaxThreadMessages, \* enforce_a2a_loop_guard's limits
    MaxParentDepth,
    MaxRows,           \* bound: calls on a message stop after so many rows or states
    MaxCrashes         \* bound: callers that die

ASSUME ChannelAssumption ==
    /\ None \notin Messages
    /\ DOMAIN Seed \subseteq Messages
    /\ Operations \subseteq {"send", "obligation", "status"}
    /\ Statuses \subseteq {"open", "acknowledged", "closed"}
    /\ MaxThreadMessages \in Nat \ {0} /\ MaxParentDepth \in Nat \ {0}
    /\ MaxRows \in Nat /\ MaxCrashes \in Nat

VARIABLES
    envelope, \* envelope[m]: thread and parent of m, set once, or Unsent
    inbox,    \* inbox[m]: the receiver's file: its content, Torn, or Absent
    mirror,   \* mirror[m]: the sender's copy: its content, Torn, or Absent
    call,     \* call[c]: what caller c is doing
    log,      \* log[m]: the agent.obligation.* rows of m, <<from, to>>
    story,    \* history: the obligation states the inbox file has held
    hidden,   \* history: messages that could be read, and then could not
    crashes   \* callers that died

vars == <<envelope, inbox, mirror, call, log, story, hidden, crashes>>

\* _OBLIGATION_TRANSITIONS
Transitions ==
    [pending       |-> {"accepted", "refused", "expired"},
     accepted      |-> {"in_progress", "refused", "expired"},
     in_progress   |-> {"blocked_input", "fulfilled", "refused", "expired"},
     blocked_input |-> {"in_progress", "refused", "expired"},
     fulfilled     |-> {},
     refused       |-> {},
     expired       |-> {}]

ObligationState == DOMAIN Transitions
TerminalState   == {o \in ObligationState : Transitions[o] = {}}
MessageStatus   == {"open", "acknowledged", "closed"}

\* The part of a message that changes; "none" where the kind obliges nobody.
Content  == [status : MessageStatus, obligation : ObligationState \cup {"none"}]
Envelope == [thread : Messages, parent : Messages \cup {None}]

\* Obligations that are there from the start have been sent.
ASSUME SeedAssumption ==
    \A m \in DOMAIN Seed :
        Seed[m] \in [thread : Messages, parent : Messages \cup {None}, obligation : ObligationState]

Unsent == [thread |-> None, parent |-> None]
Absent == [status |-> "absent", obligation |-> "none"]
Torn   == [status |-> "torn", obligation |-> "none"]

\* A call between two of its steps: the file it will write is in its memory.
Call ==
    [op : {"send", "obligation", "status"}, at : {"open", "write", "mirror", "copy", "append"},
     message : Messages, content : Content, was : ObligationState \cup {"none"}]
Idle == [op |-> "idle"]

TypeOK ==
    /\ envelope \in [Messages -> Envelope \cup {Unsent}]
    /\ inbox \in [Messages -> Content \cup {Absent, Torn}]
    /\ mirror \in [Messages -> Content \cup {Absent, Torn}]
    /\ call \in [Callers -> Call \cup {Idle}]
    /\ log \in [Messages -> Seq(ObligationState \X ObligationState)]
    /\ story \in [Messages -> Seq(ObligationState)]
    /\ hidden \in SUBSET Messages
    /\ crashes \in Nat

Seeded == [m \in Messages |->
    IF m \in DOMAIN Seed THEN [status |-> "open", obligation |-> Seed[m].obligation]
                         ELSE Absent]

Init ==
    /\ envelope = [m \in Messages |->
         IF m \in DOMAIN Seed THEN [thread |-> Seed[m].thread, parent |-> Seed[m].parent]
                              ELSE Unsent]
    /\ inbox = Seeded
    /\ mirror = Seeded
    /\ call = [c \in Callers |-> Idle]
    /\ log = [m \in Messages |-> <<>>]
    /\ story = [m \in Messages |->
         IF m \in DOMAIN Seed THEN <<Seed[m].obligation>> ELSE <<>>]
    /\ hidden = {}
    /\ crashes = 0

-----------------------------------------------------------------------------
(* Sending                                                                 *)

\* _iter_channel_messages takes whichever copy parses.
Readable(m) == inbox[m] \in Content \/ mirror[m] \in Content

ThreadCount(t) ==
    Cardinality({m \in Messages : Readable(m) /\ envelope[m].thread = t})

\* _parent_obligation_depth: an unknown parent counts, and ends the walk.
ParentDepth[m \in Messages \cup {None}] ==
    IF m = None THEN 0
    ELSE IF ~Readable(m) THEN 1
    ELSE 1 + ParentDepth[envelope[m].parent]

\* Mutant: the limits are inclusive.
WithinLimits_Inclusive(t, p) ==
    /\ ThreadCount(t) <= MaxThreadMessages
    /\ p # None => ParentDepth[p] <= MaxParentDepth

\* enforce_a2a_loop_guard
WithinLimits(t, p) ==
    /\ ThreadCount(t) < MaxThreadMessages
    /\ p # None => ParentDepth[p] < MaxParentDepth

\* Caller c has decided; the steps that follow write what it has in memory.
Start(c, op, m, content, was) ==
    call' = [call EXCEPT ![c] =
        [op |-> op, at |-> "open", message |-> m, content |-> content, was |-> was]]

\* send_agent_message, up to its first write: a request, proposal or handoff
\* starts pending, any other kind carries no obligation.
SendMessage(c, m, t, p, o) ==
    /\ call[c] = Idle
    /\ envelope[m] = Unsent
    /\ WithinLimits(t, p)
    /\ envelope' = [envelope EXCEPT ![m] = [thread |-> t, parent |-> p]]
    /\ Start(c, "send", m, [status |-> "open", obligation |-> o], "none")
    /\ UNCHANGED <<inbox, mirror, log, story, hidden, crashes>>

-----------------------------------------------------------------------------
(* Updating                                                                *)

\* Mutant: only the name of the new state is validated.
LegalTransition_AnyKnown(from, to) == to \in ObligationState \ {from}

\* validate_obligation_transition
LegalTransition(from, to) == to \in Transitions[from]

HasRoom(m) == Len(log[m]) < MaxRows /\ Len(story[m]) <= MaxRows

\* update_obligation_state, up to its first write.
UpdateObligation(c, m, o) ==
    /\ call[c] = Idle
    /\ inbox[m] \in Content
    /\ inbox[m].obligation # "none"
    /\ LegalTransition(inbox[m].obligation, o)
    /\ HasRoom(m)
    /\ Start(c, "obligation", m, [inbox[m] EXCEPT !.obligation = o], inbox[m].obligation)
    /\ UNCHANGED <<envelope, inbox, mirror, log, story, hidden, crashes>>

\* update_agent_message_status, up to its first write: no transition is refused.
UpdateStatus(c, m, s) ==
    /\ call[c] = Idle
    /\ inbox[m] \in Content
    /\ HasRoom(m)
    /\ Start(c, "status", m, [inbox[m] EXCEPT !.status = s], "none")
    /\ UNCHANGED <<envelope, inbox, mirror, log, story, hidden, crashes>>

-----------------------------------------------------------------------------
(* Writing: the steps the three calls share                                *)

Goto(c, at) == call' = [call EXCEPT ![c].at = at]
At(c, at) == call[c] # Idle /\ call[c].at = at

\* Opening a file to write empties it: a message whose other file does not
\* parse either can no longer be read.
Hide(m, file, other) ==
    hidden' = hidden \cup {x \in {m} : file \in Content /\ other \notin Content}

OpenInbox(c) ==
    /\ At(c, "open")
    /\ inbox' = [inbox EXCEPT ![call[c].message] = Torn]
    /\ Hide(call[c].message, inbox[call[c].message], mirror[call[c].message])
    /\ Goto(c, "write")
    /\ UNCHANGED <<envelope, mirror, log, story, crashes>>

\* The states of a message's obligation, with one more unless it is the last.
Retold(s, o) ==
    IF o = "none" \/ (s # <<>> /\ s[Len(s)] = o) THEN s ELSE Append(s, o)

WriteInbox(c) ==
    /\ At(c, "write")
    /\ inbox' = [inbox EXCEPT ![call[c].message] = call[c].content]
    /\ story' = [story EXCEPT ![call[c].message] = Retold(@, call[c].content.obligation)]
    /\ Goto(c, "mirror")
    /\ UNCHANGED <<envelope, mirror, log, hidden, crashes>>

\* A send creates the copy; an update rewrites it where it exists.
OpenMirror(c) ==
    LET m == call[c].message
        writes == call[c].op = "send" \/ mirror[m] # Absent
    IN  /\ At(c, "mirror")
        /\ mirror' = IF writes THEN [mirror EXCEPT ![m] = Torn] ELSE mirror
        /\ Hide(m, mirror[m], inbox[m])
        /\ Goto(c, IF writes THEN "copy" ELSE "append")
        /\ UNCHANGED <<envelope, inbox, log, story, crashes>>

WriteMirror(c) ==
    /\ At(c, "copy")
    /\ mirror' = [mirror EXCEPT ![call[c].message] = call[c].content]
    /\ Goto(c, "append")
    /\ UNCHANGED <<envelope, inbox, log, story, hidden, crashes>>

AppendTransition(c) ==
    /\ At(c, "append")
    /\ log' = [log EXCEPT ![call[c].message] =
         IF call[c].op = "obligation"
         THEN Append(@, <<call[c].was, call[c].content.obligation>>) ELSE @]
    /\ call' = [call EXCEPT ![c] = Idle]
    /\ UNCHANGED <<envelope, inbox, mirror, story, hidden, crashes>>

Crash(c) ==
    /\ call[c] # Idle
    /\ crashes < MaxCrashes
    /\ crashes' = crashes + 1
    /\ call' = [call EXCEPT ![c] = Idle]
    /\ UNCHANGED <<envelope, inbox, mirror, log, story, hidden>>

WriteStep(c) ==
    OpenInbox(c) \/ WriteInbox(c) \/ OpenMirror(c) \/ WriteMirror(c) \/ AppendTransition(c)

\* The messages a caller may know of, those that can no longer be read included.
Seen == {m \in Messages : Readable(m)} \cup hidden

\* The threads a caller can name for m: a new one, or one it has seen.
Threads(m) == {m} \cup {envelope[n].thread : n \in Seen}

Request(c, m) ==
    \/ /\ "send" \in Operations
       /\ \E t \in Threads(m), p \in {None} \cup Seen,
             o \in {"pending", "none"} : SendMessage(c, m, t, p, o)
    \/ /\ "obligation" \in Operations
       /\ \E o \in ObligationState : UpdateObligation(c, m, o)
    \/ /\ "status" \in Operations
       /\ \E s \in Statuses : UpdateStatus(c, m, s)

Next == \E c \in Callers :
    \/ \E m \in Messages : Request(c, m)
    \/ WriteStep(c)
    \/ Crash(c)

Spec == Init /\ [][Next]_vars

-----------------------------------------------------------------------------
(* Safety                                                                  *)

\* a2a.md: "no skip": whatever calls race, no obligation is fulfilled that
\* was not accepted first and in progress after that.
NoWorkSkipped ==
    \A m \in Messages : \A n \in DOMAIN story[m] :
        story[m][n] = "fulfilled" =>
        \E i, j \in 1..n : i < j /\ story[m][i] = "accepted" /\ story[m][j] = "in_progress"

\* The messages from m up to the root of its chain, m included.
ChainLength[m \in Messages \cup {None}] ==
    IF m = None THEN 0 ELSE 1 + ChainLength[envelope[m].parent]

\* How much longer a chain may become below m: the walk of the guard ends at a
\* file that does not parse, and counts nothing of what is above it.
Slack[m \in Messages \cup {None}] ==
    IF m = None THEN 0
    ELSE (IF m \in hidden THEN MaxParentDepth - 1 ELSE 0) + Slack[envelope[m].parent]

\* However sends and updates overlap and die, a chain of obligations outgrows
\* the limit of the loop guard by less than the limit for each message above
\* its end that could not be read at some time, while an update rewrote it; a
\* chain whose files could always be read stays within it.
DepthBounded ==
    \A m \in Messages :
        inbox[m] \in Content => ChainLength[m] <= MaxParentDepth + Slack[envelope[m].parent]

\* a2a.md:93-105: no chain grows beyond the limit, whatever is rewritten.
DepthWithinLimit ==
    \A m \in Messages : inbox[m] \in Content => ChainLength[m] <= MaxParentDepth

\* a2a.md:93-105: no thread grows beyond the limit.
ThreadBounded ==
    \A t \in Messages :
        Cardinality({m \in Messages : inbox[m] \in Content /\ envelope[m].thread = t})
            <= MaxThreadMessages

\* a2a.md:173-174: terminal obligations cannot be reopened.
TerminalStaysTerminal ==
    \A m \in Messages : \A n \in 1 .. Len(story[m]) - 1 : story[m][n] \notin TerminalState

\* A call that died has left something undone for good.
Quiet == crashes = 0 /\ \A c \in Callers : call[c] = Idle

\* a2a.md:91: the rows of a message tell every state its obligation went
\* through, in order, and the two copies of the message agree.
AuditTellsTheStory ==
    Quiet => \A m \in Messages : inbox[m] # Absent =>
        /\ mirror[m] = inbox[m]
        /\ story[m] # <<>> =>
             log[m] = [n \in 1 .. Len(story[m]) - 1 |-> <<story[m][n], story[m][n + 1]>>]

\* agent_channels.py:491: the envelope's status is independent of the
\* obligation: no acknowledgement changes it.
EnvelopeIsIndependent ==
    [][\A c \in Callers :
         (call[c] # call'[c] /\ call[c] # Idle /\ call[c].op = "status")
            => story' = story]_vars
=============================================================================
