----------------------------- MODULE AgentProofs -----------------------------
(***************************************************************************)
(* Theorems about AgentChannels and the SagaCompensation that runs over    *)
(* it: no obligation is fulfilled that was not worked on, no chain of      *)
(* obligations outgrows the loop guard further than the files that were    *)
(* hidden from it allow, no work is undone that was not done, and the      *)
(* operator sees what is being undone.                                     *)
(***************************************************************************)
EXTENDS SagaCompensation, FiniteSetTheorems, WellFoundedInduction, TLAPS

-----------------------------------------------------------------------------
(* The channel: its files, and what callers have in their memory.          *)

\* What a call has in memory is of a message that was sent.
CallFits(c) ==
    call[c] # Idle =>
        /\ envelope[call[c].message] # Unsent
        /\ call[c].op = "obligation" => call[c].was \in ObligationState /\ call[c].content.obligation \in ObligationState

ChannelShape ==
    /\ TypeOK
    /\ \A c \in Callers : CallFits(c)
    /\ \A m \in Messages : inbox[m] # Absent \/ mirror[m] # Absent \/ m \in hidden => envelope[m] # Unsent

\* The states that a story holds, and the order that is asked of it.
Held(states, o) == \E n \in DOMAIN states : states[n] = o
Worked(states) ==
    \E i, j \in DOMAIN states : i < j /\ states[i] = "accepted" /\ states[j] = "in_progress"

\* A story may go on with o.
Due(states, o) ==
    /\ o = "in_progress" => Held(states, "accepted")
    /\ o \in {"blocked_input", "fulfilled"} => Worked(states)

\* The inbox file holds a state that the story tells of.
StatesAreTold ==
    \A m \in Messages :
        inbox[m] \in Content /\ inbox[m].obligation # "none" => Held(story[m], inbox[m].obligation)

NothingSkipped(states) ==
    \A n \in DOMAIN states :
        states[n] = "fulfilled" =>
            \E i, j \in 1 .. n : i < j /\ states[i] = "accepted" /\ states[j] = "in_progress"

\* What is on file was worked on; what a caller is about to write may follow.
WorkIsDue ==
    /\ \A m \in Messages :
          /\ NothingSkipped(story[m])
          /\ inbox[m] \in Content /\ inbox[m].obligation \in {"in_progress", "blocked_input", "fulfilled"} =>
                Worked(story[m])
    /\ \A c \in Callers :
          call[c] # Idle /\ call[c].at \in {"open", "write"} =>
              Due(story[call[c].message], call[c].content.obligation)

-----------------------------------------------------------------------------
(* Stories.                                                                *)

LEMMA ObligationStates ==
    /\ ObligationState = {"pending", "accepted", "in_progress", "blocked_input", "fulfilled", "refused", "expired"}
    /\ \A o \in ObligationState : Transitions[o] \subseteq ObligationState
BY DEF ObligationState, Transitions

LEMMA RetoldKeeps ==
    ASSUME NEW s \in Seq(ObligationState), NEW o \in ObligationState \cup {"none"}
    PROVE  /\ Retold(s, o) \in Seq(ObligationState)
           /\ \A x : Held(s, x) => Held(Retold(s, o), x)
           /\ Worked(s) => Worked(Retold(s, o))
           /\ o # "none" => Held(Retold(s, o), o)
<1>1. CASE o = "none"
    BY <1>1 DEF Retold
<1>2. CASE o # "none" /\ s # <<>> /\ s[Len(s)] = o
    <2>1. Retold(s, o) = s /\ Len(s) \in DOMAIN s
        BY <1>2 DEF Retold
    <2> QED
        BY <1>2, <2>1 DEF Held
<1>3. CASE o # "none" /\ ~(s # <<>> /\ s[Len(s)] = o)
    <2>1. Retold(s, o) = Append(s, o) /\ o \in ObligationState
        BY <1>3, ObligationStates DEF Retold
    <2> DEFINE t == Append(s, o)
    <2>2. /\ t \in Seq(ObligationState) /\ DOMAIN t = 1 .. Len(s) + 1 /\ t[Len(s) + 1] = o
          /\ DOMAIN s = 1 .. Len(s) /\ Len(s) \in Nat
          /\ \A i \in DOMAIN s : i \in DOMAIN t /\ t[i] = s[i]
        BY <2>1
    <2> HIDE DEF t
    <2>3. \A x : Held(s, x) => Held(t, x)
        BY <2>2 DEF Held
    <2>4. Worked(s) => Worked(t)
        BY <2>2 DEF Worked
    <2>5. Held(t, o)
        <3>1. Len(s) + 1 \in DOMAIN t
            BY <2>2
        <3> QED
            BY <2>2, <3>1 DEF Held
    <2> QED
        BY <2>1, <2>2, <2>3, <2>4, <2>5 DEF t
<1> QED
    BY <1>1, <1>2, <1>3

\* A story that goes on with what is due skips nothing.
LEMMA RetoldInOrder ==
    ASSUME NEW s \in Seq(ObligationState), NEW o \in ObligationState \cup {"none"}, NothingSkipped(s), Due(s, o)
    PROVE  /\ NothingSkipped(Retold(s, o))
           /\ o \in {"in_progress", "blocked_input", "fulfilled"} => Worked(Retold(s, o))
<1>1. CASE o = "none"
    BY <1>1 DEF Retold
<1>2. CASE o # "none" /\ s # <<>> /\ s[Len(s)] = o
    <2>1. Retold(s, o) = s /\ Len(s) \in DOMAIN s /\ \A i \in DOMAIN s : i \in Nat /\ i <= Len(s)
        BY <1>2 DEF Retold
    <2>2. ASSUME o = "in_progress"
          PROVE  Worked(s)
        <3>1. PICK i \in DOMAIN s : s[i] = "accepted"
            BY <2>2 DEF Due, Held
        <3>2. i < Len(s)
            BY <1>2, <2>1, <2>2, <3>1
        <3> QED
            BY <1>2, <2>1, <2>2, <3>1, <3>2 DEF Worked
    <2> QED
        BY <2>1, <2>2 DEF Due
<1>3. CASE o # "none" /\ ~(s # <<>> /\ s[Len(s)] = o)
    <2>1. Retold(s, o) = Append(s, o) /\ o \in ObligationState
        BY <1>3, ObligationStates DEF Retold
    <2> DEFINE t == Append(s, o)
               last == Len(s) + 1
    <2>2. /\ DOMAIN t = 1 .. last /\ last \in Nat /\ t[last] = o
          /\ DOMAIN s = 1 .. Len(s) /\ Len(s) \in Nat /\ \A i \in DOMAIN s : i < last
          /\ \A i \in DOMAIN s : i \in DOMAIN t /\ t[i] = s[i]
          /\ \A i \in DOMAIN t : i \in DOMAIN s \/ i = last
        BY <2>1
    <2>3. \A n \in DOMAIN s : 1 .. n \subseteq DOMAIN s
        BY <2>2
    <2>4. last \in DOMAIN t /\ DOMAIN s \subseteq 1 .. last
        BY <2>2
    <2> HIDE DEF t, last
    <2>5. o = "in_progress" => Worked(t)
        BY <2>2, <2>4 DEF Due, Held, Worked
    <2>6. o \in {"blocked_input", "fulfilled"} => Worked(t)
        BY <2>2 DEF Due, Worked
    <2>7. NothingSkipped(t)
        <3> SUFFICES ASSUME NEW n \in DOMAIN t, t[n] = "fulfilled"
                     PROVE  \E i, j \in 1 .. n : i < j /\ t[i] = "accepted" /\ t[j] = "in_progress"
            BY DEF NothingSkipped
        <3>1. CASE n \in DOMAIN s
            <4>1. PICK i, j \in 1 .. n : i < j /\ s[i] = "accepted" /\ s[j] = "in_progress"
                BY <2>2, <3>1 DEF NothingSkipped
            <4>2. i \in DOMAIN s /\ j \in DOMAIN s
                BY <2>3, <3>1, <4>1
            <4> QED
                BY <2>2, <4>1, <4>2
        <3>2. CASE n = last
            <4>1. PICK i, j \in DOMAIN s : i < j /\ s[i] = "accepted" /\ s[j] = "in_progress"
                BY <2>2, <3>2 DEF Due, Worked
            <4> QED
                BY <2>2, <2>4, <3>2, <4>1
        <3> QED
            BY <2>2, <3>1, <3>2
    <2> QED
        BY <2>1, <2>5, <2>6, <2>7 DEF t
<1> QED
    BY <1>1, <1>2, <1>3

LEMMA LegalIsDue ==
    ASSUME NEW s, NEW from \in ObligationState, NEW to, LegalTransition(from, to), Held(s, from),
           from \in {"in_progress", "blocked_input", "fulfilled"} => Worked(s)
    PROVE  Due(s, to)
<1>1. to = "in_progress" => from \in {"accepted", "blocked_input"}
    BY ObligationStates DEF LegalTransition, Transitions
<1>2. to \in {"blocked_input", "fulfilled"} => from = "in_progress"
    BY ObligationStates DEF LegalTransition, Transitions
<1>3. Worked(s) => Held(s, "accepted")
    BY DEF Worked, Held
<1> QED
    BY <1>1, <1>2, <1>3 DEF Due

-----------------------------------------------------------------------------
(* The steps of a call.                                                    *)

Grows(before, after) ==
    /\ \A o : Held(before, o) => Held(after, o)
    /\ Worked(before) => Worked(after)

LEMMA DueLasts ==
    ASSUME NEW before, NEW after, Grows(before, after), NEW o, Due(before, o)
    PROVE  Due(after, o)
BY DEF Due, Grows

LEMMA GrowsByNothing == \A states : Grows(states, states)
BY DEF Grows

ChannelKeeps ==
    /\ ChannelShape' /\ StatesAreTold' /\ (WorkIsDue => WorkIsDue')
    /\ \A m \in Messages : Grows(story[m], story'[m]) /\ (envelope[m] # Unsent => envelope'[m] # Unsent)

LEMMA MemoryTypes ==
    ASSUME ChannelShape, NEW c \in Callers, call[c] # Idle
    PROVE  /\ call[c] \in Call /\ call[c].message \in Messages /\ call[c].content \in Content
           /\ envelope[call[c].message] # Unsent
           /\ call[c].op = "obligation" => call[c].was \in ObligationState /\ call[c].content.obligation \in ObligationState
<1>1. call[c] \in Call
    BY DEF ChannelShape, TypeOK
<1> QED
    BY <1>1 DEF Call, ChannelShape, CallFits

\* The call of c goes on to new, in files and stories that only grow.
LEMMA CallMoves ==
    ASSUME ChannelShape, NEW c \in Callers, NEW new \in Call \cup {Idle}, call' = [call EXCEPT ![c] = new],
           new # Idle =>
               /\ envelope'[new.message] # Unsent
               /\ new.op = "obligation" => new.was \in ObligationState /\ new.content.obligation \in ObligationState,
           \A m \in Messages : Grows(story[m], story'[m]) /\ (envelope[m] # Unsent => envelope'[m] # Unsent),
           /\ envelope' \in [Messages -> Envelope \cup {Unsent}]
           /\ inbox' \in [Messages -> Content \cup {Absent, Torn}]
           /\ mirror' \in [Messages -> Content \cup {Absent, Torn}]
           /\ log' \in [Messages -> Seq(ObligationState \X ObligationState)]
           /\ story' \in [Messages -> Seq(ObligationState)]
           /\ hidden' \in SUBSET Messages /\ crashes' \in Nat,
           \A m \in Messages : inbox'[m] # Absent \/ mirror'[m] # Absent \/ m \in hidden' => envelope'[m] # Unsent,
           StatesAreTold',
           WorkIsDue =>
               /\ \A m \in Messages :
                     /\ NothingSkipped(story'[m])
                     /\ inbox'[m] \in Content /\ inbox'[m].obligation \in {"in_progress", "blocked_input", "fulfilled"} =>
                           Worked(story'[m])
               /\ new # Idle /\ new.at \in {"open", "write"} => Due(story'[new.message], new.content.obligation)
    PROVE  ChannelKeeps
<1>1. call' \in [Callers -> Call \cup {Idle}] /\ call'[c] = new /\ \A r \in Callers \ {c} : call'[r] = call[r]
    BY DEF ChannelShape, TypeOK
<1>2. \A r \in Callers : CallFits(r)'
    BY <1>1, MemoryTypes DEF CallFits
<1>3. TypeOK'
    BY <1>1 DEF TypeOK
<1>4. ChannelShape'
    BY <1>2, <1>3 DEF ChannelShape
<1>5. ASSUME WorkIsDue
      PROVE  WorkIsDue'
    <2>1. ASSUME NEW r \in Callers \ {c}, call'[r] # Idle, call'[r].at \in {"open", "write"}
          PROVE  Due(story'[call'[r].message], call'[r].content.obligation)
        <3>1. call'[r] = call[r] /\ call[r].message \in Messages
            BY <1>1, <2>1, MemoryTypes
        <3>2. Due(story[call[r].message], call[r].content.obligation)
            BY <1>5, <2>1, <3>1 DEF WorkIsDue
        <3> QED
            BY <3>1, <3>2, DueLasts
    <2>2. call'[c] # Idle /\ call'[c].at \in {"open", "write"} =>
              Due(story'[call'[c].message], call'[c].content.obligation)
        BY <1>1, <1>5
    <2> QED
        BY <1>5, <2>1, <2>2 DEF WorkIsDue
<1> QED
    BY <1>4, <1>5 DEF ChannelKeeps

\* The same, where neither a message, an inbox file nor a story changes.
LEMMA MemoryMoves ==
    ASSUME ChannelShape, StatesAreTold, NEW c \in Callers, NEW new \in Call \cup {Idle}, call' = [call EXCEPT ![c] = new],
           new # Idle =>
               /\ envelope[new.message] # Unsent
               /\ new.op = "obligation" => new.was \in ObligationState /\ new.content.obligation \in ObligationState,
           UNCHANGED <<envelope, inbox, story>>,
           /\ mirror' \in [Messages -> Content \cup {Absent, Torn}]
           /\ log' \in [Messages -> Seq(ObligationState \X ObligationState)]
           /\ hidden' \in SUBSET Messages /\ crashes' \in Nat,
           \A m \in Messages : mirror'[m] # Absent \/ m \in hidden' => envelope[m] # Unsent,
           WorkIsDue /\ new # Idle /\ new.at \in {"open", "write"} => Due(story[new.message], new.content.obligation)
    PROVE  ChannelKeeps
<1>1. /\ envelope' \in [Messages -> Envelope \cup {Unsent}]
      /\ inbox' \in [Messages -> Content \cup {Absent, Torn}]
      /\ story' \in [Messages -> Seq(ObligationState)]
    BY DEF ChannelShape, TypeOK
<1>2. \A m \in Messages : Grows(story[m], story'[m]) /\ (envelope[m] # Unsent => envelope'[m] # Unsent)
    BY GrowsByNothing
<1>3. \A m \in Messages : inbox'[m] # Absent \/ mirror'[m] # Absent \/ m \in hidden' => envelope'[m] # Unsent
    BY DEF ChannelShape
<1>4. StatesAreTold'
    BY DEF StatesAreTold
<1>5. WorkIsDue =>
        /\ \A m \in Messages :
              /\ NothingSkipped(story'[m])
              /\ inbox'[m] \in Content /\ inbox'[m].obligation \in {"in_progress", "blocked_input", "fulfilled"} =>
                    Worked(story'[m])
        /\ new # Idle /\ new.at \in {"open", "write"} => Due(story'[new.message], new.content.obligation)
    BY DEF WorkIsDue
<1> QED
    BY <1>1, <1>2, <1>3, <1>4, <1>5, CallMoves

Sends(c) ==
    \E m, t \in Messages, p \in Messages \cup {None}, o \in {"pending", "none"} : SendMessage(c, m, t, p, o)

LEMMA SendKeeps ==
    ASSUME ChannelShape, StatesAreTold, NEW c \in Callers, Sends(c)
    PROVE  ChannelKeeps
<1>1. PICK m \in Messages, t \in Messages, p \in Messages \cup {None}, o \in {"pending", "none"} : SendMessage(c, m, t, p, o)
    BY DEF Sends
<1> DEFINE content == [status |-> "open", obligation |-> o]
           new == [op |-> "send", at |-> "open", message |-> m, content |-> content, was |-> "none"]
           sent == [thread |-> t, parent |-> p]
<1>2. call' = [call EXCEPT ![c] = new] /\ envelope' = [envelope EXCEPT ![m] = sent]
      /\ UNCHANGED <<inbox, mirror, log, story, hidden, crashes>>
    BY <1>1 DEF SendMessage, Start
<1>3. content \in Content /\ content.obligation = o
    BY ObligationStates DEF Content, MessageStatus
<1>4. sent \in Envelope /\ sent # Unsent
    <2>1. sent.thread = t /\ Unsent.thread = None
        BY DEF Unsent
    <2> QED
        BY <2>1, ChannelAssumption DEF Envelope
<1> HIDE DEF content, sent
<1>5. new \in Call /\ new.op = "send" /\ new.message = m /\ new.content = content
    BY <1>3 DEF Call
<1> HIDE DEF new
<1>6. /\ envelope' \in [Messages -> Envelope \cup {Unsent}] /\ envelope'[m] # Unsent
      /\ \A n \in Messages : envelope[n] # Unsent => envelope'[n] # Unsent
    BY <1>2, <1>4 DEF ChannelShape, TypeOK
<1>7. \A n \in Messages : Grows(story[n], story'[n]) /\ (envelope[n] # Unsent => envelope'[n] # Unsent)
    BY <1>2, <1>6, GrowsByNothing
<1>8. /\ inbox' \in [Messages -> Content \cup {Absent, Torn}] /\ mirror' \in [Messages -> Content \cup {Absent, Torn}]
      /\ log' \in [Messages -> Seq(ObligationState \X ObligationState)]
      /\ story' \in [Messages -> Seq(ObligationState)]
      /\ hidden' \in SUBSET Messages /\ crashes' \in Nat
    BY <1>2 DEF ChannelShape, TypeOK
<1>9. \A n \in Messages : inbox'[n] # Absent \/ mirror'[n] # Absent \/ n \in hidden' => envelope'[n] # Unsent
    BY <1>2, <1>6 DEF ChannelShape
<1>10. StatesAreTold'
    BY <1>2 DEF StatesAreTold
<1>11. Due(story'[m], o)
    BY DEF Due
<1>12. WorkIsDue =>
        \A n \in Messages :
            /\ NothingSkipped(story'[n])
            /\ inbox'[n] \in Content /\ inbox'[n].obligation \in {"in_progress", "blocked_input", "fulfilled"} =>
                  Worked(story'[n])
    BY <1>2 DEF WorkIsDue
<1> QED
    BY <1>2, <1>3, <1>5, <1>6, <1>7, <1>8, <1>9, <1>10, <1>11, <1>12, CallMoves

LEMMA NoContent == Absent \notin Content /\ Torn \notin Content /\ Torn # Absent
BY DEF Absent, Torn, Content, MessageStatus

LEMMA FileTypes ==
    ASSUME ChannelShape
    PROVE  /\ envelope \in [Messages -> Envelope \cup {Unsent}]
           /\ inbox \in [Messages -> Content \cup {Absent, Torn}] /\ mirror \in [Messages -> Content \cup {Absent, Torn}]
           /\ log \in [Messages -> Seq(ObligationState \X ObligationState)]
           /\ story \in [Messages -> Seq(ObligationState)]
           /\ hidden \in SUBSET Messages /\ crashes \in Nat
           /\ \A n \in Messages : inbox[n] # Absent \/ mirror[n] # Absent \/ n \in hidden => envelope[n] # Unsent
BY DEF ChannelShape, TypeOK

LEMMA ObligationKeeps ==
    ASSUME ChannelShape, StatesAreTold, NEW c \in Callers, NEW m \in Messages, NEW o \in ObligationState,
           UpdateObligation(c, m, o)
    PROVE  ChannelKeeps
<1> DEFINE from == inbox[m].obligation
           content == [inbox[m] EXCEPT !.obligation = o]
           new == [op |-> "obligation", at |-> "open", message |-> m, content |-> content, was |-> from]
<1>1. /\ call' = [call EXCEPT ![c] = new] /\ UNCHANGED <<envelope, inbox, mirror, log, story, hidden, crashes>>
      /\ inbox[m] \in Content /\ from # "none" /\ LegalTransition(from, o)
    BY DEF UpdateObligation, Start
<1>2. from \in ObligationState
    BY <1>1 DEF Content
<1>3. content \in Content /\ content.obligation = o
    BY <1>1 DEF Content
<1>4. envelope[m] # Unsent
    BY <1>1, NoContent, FileTypes
<1>5. WorkIsDue => Due(story[m], o)
    <2>1. Held(story[m], from)
        BY <1>1 DEF StatesAreTold
    <2>2. WorkIsDue => (from \in {"in_progress", "blocked_input", "fulfilled"} => Worked(story[m]))
        BY <1>1 DEF WorkIsDue
    <2> HIDE DEF from
    <2> QED
        BY <1>1, <1>2, <2>1, <2>2, LegalIsDue
<1> HIDE DEF content, from
<1>6. /\ new \in Call /\ new.op = "obligation" /\ new.message = m /\ new.content = content /\ new.was = from
    BY <1>2, <1>3 DEF Call
<1> HIDE DEF new
<1> QED
    BY <1>1, <1>2, <1>3, <1>4, <1>5, <1>6, FileTypes, MemoryMoves

LEMMA StatusKeeps ==
    ASSUME ChannelShape, StatesAreTold, NEW c \in Callers, NEW m \in Messages, NEW s \in Statuses,
           UpdateStatus(c, m, s)
    PROVE  ChannelKeeps
<1> DEFINE o == inbox[m].obligation
           content == [inbox[m] EXCEPT !.status = s]
           new == [op |-> "status", at |-> "open", message |-> m, content |-> content, was |-> "none"]
<1>1. /\ call' = [call EXCEPT ![c] = new] /\ UNCHANGED <<envelope, inbox, mirror, log, story, hidden, crashes>>
      /\ inbox[m] \in Content
    BY DEF UpdateStatus, Start
<1>2. content \in Content /\ content.obligation = o
    BY <1>1, ChannelAssumption DEF Content, MessageStatus
<1>3. envelope[m] # Unsent
    BY <1>1, NoContent, FileTypes
<1>4. WorkIsDue => Due(story[m], o)
    <2>1. WorkIsDue => (o \in {"in_progress", "blocked_input", "fulfilled"} => Worked(story[m]))
        BY <1>1 DEF WorkIsDue
    <2> QED
        BY <2>1 DEF Due, Worked, Held
<1> HIDE DEF content, o
<1>5. new \in Call /\ new.op = "status" /\ new.message = m /\ new.content = content
    BY <1>2 DEF Call
<1> HIDE DEF new
<1> QED
    BY <1>1, <1>2, <1>3, <1>4, <1>5, FileTypes, MemoryMoves

LEMMA GoesOn ==
    ASSUME NEW old \in Call, NEW at \in {"open", "write", "mirror", "copy", "append"}
    PROVE  /\ [old EXCEPT !.at = at] \in Call /\ [old EXCEPT !.at = at].at = at
           /\ [old EXCEPT !.at = at].message = old.message /\ [old EXCEPT !.at = at].content = old.content
           /\ [old EXCEPT !.at = at].op = old.op /\ [old EXCEPT !.at = at].was = old.was
BY DEF Call

LEMMA OpenKeeps ==
    ASSUME ChannelShape, StatesAreTold, NEW c \in Callers, OpenInbox(c)
    PROVE  ChannelKeeps
<1> DEFINE m == call[c].message
           new == [call[c] EXCEPT !.at = "write"]
<1>1. /\ call[c] # Idle /\ call[c].at = "open" /\ inbox' = [inbox EXCEPT ![m] = Torn]
      /\ call' = [call EXCEPT ![c] = new] /\ UNCHANGED <<envelope, mirror, log, story, crashes>>
      /\ hidden' \subseteq hidden \cup {m}
    BY DEF OpenInbox, At, Goto, Hide
<1>2. /\ call[c] \in Call /\ m \in Messages /\ call[c].content \in Content /\ envelope[m] # Unsent
      /\ call[c].op = "obligation" => call[c].was \in ObligationState /\ call[c].content.obligation \in ObligationState
    BY <1>1, MemoryTypes
<1>3. /\ new \in Call /\ new.at = "write" /\ new.message = m /\ new.content = call[c].content
      /\ new.op = call[c].op /\ new.was = call[c].was
    BY <1>2, GoesOn
<1> HIDE DEF new
<1>4. WorkIsDue => Due(story[m], call[c].content.obligation)
    BY <1>1 DEF WorkIsDue
<1> HIDE DEF m
<1>5. inbox' \in [Messages -> Content \cup {Absent, Torn}] /\ inbox'[m] = Torn /\ \A n \in Messages \ {m} : inbox'[n] = inbox[n]
    BY <1>1, <1>2, FileTypes
<1>6. StatesAreTold'
    BY <1>1, <1>5, NoContent DEF StatesAreTold
<1>7. /\ hidden' \in SUBSET Messages
      /\ \A n \in Messages : inbox'[n] # Absent \/ mirror'[n] # Absent \/ n \in hidden' => envelope'[n] # Unsent
    BY <1>1, <1>2, <1>5, FileTypes
<1>8. \A n \in Messages : Grows(story[n], story'[n]) /\ (envelope[n] # Unsent => envelope'[n] # Unsent)
    BY <1>1, GrowsByNothing
<1>9. WorkIsDue =>
        \A n \in Messages :
            /\ NothingSkipped(story'[n])
            /\ inbox'[n] \in Content /\ inbox'[n].obligation \in {"in_progress", "blocked_input", "fulfilled"} =>
                  Worked(story'[n])
    BY <1>1, <1>5, NoContent DEF WorkIsDue
<1> QED
    BY <1>1, <1>2, <1>3, <1>4, <1>5, <1>6, <1>7, <1>8, <1>9, FileTypes, CallMoves

LEMMA WriteKeeps ==
    ASSUME ChannelShape, StatesAreTold, NEW c \in Callers, WriteInbox(c)
    PROVE  ChannelKeeps
<1> DEFINE m == call[c].message
           content == call[c].content
           o == content.obligation
           new == [call[c] EXCEPT !.at = "mirror"]
<1>1. /\ call[c] # Idle /\ call[c].at = "write" /\ inbox' = [inbox EXCEPT ![m] = content]
      /\ story' = [story EXCEPT ![m] = Retold(story[m], o)]
      /\ call' = [call EXCEPT ![c] = new] /\ UNCHANGED <<envelope, mirror, log, hidden, crashes>>
    BY DEF WriteInbox, At, Goto
<1>2. /\ call[c] \in Call /\ m \in Messages /\ content \in Content /\ envelope[m] # Unsent
      /\ call[c].op = "obligation" => call[c].was \in ObligationState /\ o \in ObligationState
    BY <1>1, MemoryTypes
<1>3. /\ new \in Call /\ new.at = "mirror" /\ new.message = m /\ new.content = content
      /\ new.op = call[c].op /\ new.was = call[c].was
    BY <1>2, GoesOn
<1>4. o \in ObligationState \cup {"none"}
    BY <1>2 DEF Content
<1>5. WorkIsDue => NothingSkipped(story[m]) /\ Due(story[m], o)
    BY <1>1, <1>2 DEF WorkIsDue
<1>6. story[m] \in Seq(ObligationState)
    BY <1>2, FileTypes
<1> HIDE DEF new, m, content
<1>7. /\ inbox' \in [Messages -> Content \cup {Absent, Torn}] /\ inbox'[m] = content
      /\ \A n \in Messages \ {m} : inbox'[n] = inbox[n]
    BY <1>1, <1>2, FileTypes
<1>8. DOMAIN story = Messages
    BY FileTypes
<1>9. story'[m] = Retold(story[m], o) /\ \A n \in Messages \ {m} : story'[n] = story[n]
    BY <1>1, <1>2, <1>8
<1> HIDE DEF o
<1>10. /\ story'[m] \in Seq(ObligationState) /\ Grows(story[m], story'[m]) /\ (o # "none" => Held(story'[m], o))
    BY <1>4, <1>6, <1>9, RetoldKeeps DEF Grows
<1>11. WorkIsDue => /\ NothingSkipped(story'[m])
                    /\ o \in {"in_progress", "blocked_input", "fulfilled"} => Worked(story'[m])
    BY <1>4, <1>5, <1>6, <1>9, RetoldInOrder
<1>12. StatesAreTold'
    BY <1>7, <1>9, <1>10 DEF StatesAreTold, o
<1>13. \A n \in Messages : inbox'[n] # Absent \/ mirror'[n] # Absent \/ n \in hidden' => envelope'[n] # Unsent
    BY <1>1, <1>2, <1>7, FileTypes
<1>14. \A n \in Messages : Grows(story[n], story'[n]) /\ (envelope[n] # Unsent => envelope'[n] # Unsent)
    BY <1>1, <1>9, <1>10, GrowsByNothing
<1>15. WorkIsDue =>
        \A n \in Messages :
            /\ NothingSkipped(story'[n])
            /\ inbox'[n] \in Content /\ inbox'[n].obligation \in {"in_progress", "blocked_input", "fulfilled"} =>
                  Worked(story'[n])
    BY <1>7, <1>9, <1>11 DEF WorkIsDue, o
<1>16. story' \in [Messages -> Seq(ObligationState)]
    BY <1>1, <1>9, <1>10, FileTypes
<1>17. new.op = "obligation" => new.was \in ObligationState /\ new.content.obligation \in ObligationState
    BY <1>2, <1>3 DEF o
<1> QED
    BY <1>1, <1>2, <1>3, <1>7, <1>12, <1>13, <1>14, <1>15, <1>16, <1>17, FileTypes, CallMoves

\* What the two steps that write the copy have in common.
LEMMA MirrorMoves ==
    ASSUME ChannelShape, StatesAreTold, NEW c \in Callers, call[c] # Idle,
           NEW new \in Call, new.at \notin {"open", "write"}, new.message = call[c].message,
           new.op = call[c].op, new.was = call[c].was, new.content = call[c].content,
           call' = [call EXCEPT ![c] = new],
           mirror' \in [Messages -> Content \cup {Absent, Torn}],
           \A n \in Messages \ {call[c].message} : mirror'[n] = mirror[n],
           hidden' \subseteq hidden \cup {call[c].message},
           UNCHANGED <<envelope, inbox, log, story, crashes>>
    PROVE  ChannelKeeps
<1>1. /\ call[c].message \in Messages /\ envelope[call[c].message] # Unsent
      /\ call[c].op = "obligation" => call[c].was \in ObligationState /\ call[c].content.obligation \in ObligationState
    BY MemoryTypes
<1>2. hidden' \in SUBSET Messages /\ \A n \in Messages : mirror'[n] # Absent \/ n \in hidden' => envelope[n] # Unsent
    BY <1>1, FileTypes
<1>3. log' \in [Messages -> Seq(ObligationState \X ObligationState)] /\ crashes' \in Nat /\ UNCHANGED <<envelope, inbox, story>>
    BY FileTypes
<1>4. /\ envelope[new.message] # Unsent
      /\ new.op = "obligation" => new.was \in ObligationState /\ new.content.obligation \in ObligationState
    BY <1>1
<1> QED
    BY <1>2, <1>3, <1>4, MemoryMoves

LEMMA OpenMirrorKeeps ==
    ASSUME ChannelShape, StatesAreTold, NEW c \in Callers, OpenMirror(c)
    PROVE  ChannelKeeps
<1> DEFINE m == call[c].message
           writes == call[c].op = "send" \/ mirror[m] # Absent
           at == IF writes THEN "copy" ELSE "append"
           new == [call[c] EXCEPT !.at = at]
<1>1. /\ call[c] # Idle /\ hidden' \subseteq hidden \cup {m}
      /\ mirror' = IF writes THEN [mirror EXCEPT ![m] = Torn] ELSE mirror
      /\ call' = [call EXCEPT ![c] = new]
      /\ UNCHANGED <<envelope, inbox, log, story, crashes>>
    BY DEF OpenMirror, At, Goto, Hide
<1>2. m \in Messages /\ call[c] \in Call
    BY <1>1, MemoryTypes
<1>3. at \in {"copy", "append"}
    OBVIOUS
<1> HIDE DEF writes, at
<1>4. /\ mirror' \in [Messages -> Content \cup {Absent, Torn}]
      /\ \A n \in Messages \ {m} : mirror'[n] = mirror[n]
    BY <1>1, <1>2, FileTypes
<1>5. /\ new \in Call /\ new.at = at /\ new.message = m /\ new.content = call[c].content
      /\ new.op = call[c].op /\ new.was = call[c].was
    BY <1>2, <1>3 DEF Call
<1> HIDE DEF new
<1> QED
    BY <1>1, <1>3, <1>4, <1>5, MirrorMoves

LEMMA WriteMirrorKeeps ==
    ASSUME ChannelShape, StatesAreTold, NEW c \in Callers, WriteMirror(c)
    PROVE  ChannelKeeps
<1> DEFINE m == call[c].message
           new == [call[c] EXCEPT !.at = "append"]
<1>1. /\ call[c] # Idle /\ mirror' = [mirror EXCEPT ![m] = call[c].content]
      /\ call' = [call EXCEPT ![c] = new]
      /\ UNCHANGED <<envelope, inbox, log, story, hidden, crashes>>
    BY DEF WriteMirror, At, Goto
<1>2. m \in Messages /\ call[c] \in Call /\ call[c].content \in Content
    BY <1>1, MemoryTypes
<1>3. /\ mirror' \in [Messages -> Content \cup {Absent, Torn}]
      /\ \A n \in Messages \ {m} : mirror'[n] = mirror[n]
    BY <1>1, <1>2, FileTypes
<1>4. /\ new \in Call /\ new.at = "append" /\ new.message = m /\ new.content = call[c].content
      /\ new.op = call[c].op /\ new.was = call[c].was
    BY <1>2, GoesOn
<1> HIDE DEF new
<1> QED
    BY <1>1, <1>3, <1>4, MirrorMoves

LEMMA AppendKeeps ==
    ASSUME ChannelShape, StatesAreTold, NEW c \in Callers, AppendTransition(c)
    PROVE  ChannelKeeps
<1> DEFINE m == call[c].message
           row == <<call[c].was, call[c].content.obligation>>
           told == IF call[c].op = "obligation" THEN Append(log[m], row) ELSE log[m]
<1>1. /\ call[c] # Idle /\ log' = [log EXCEPT ![m] = told]
      /\ call' = [call EXCEPT ![c] = Idle] /\ UNCHANGED <<envelope, inbox, mirror, story, hidden, crashes>>
    BY DEF AppendTransition, At
<1>2. /\ m \in Messages
      /\ call[c].op = "obligation" => call[c].was \in ObligationState /\ call[c].content.obligation \in ObligationState
    BY <1>1, MemoryTypes
<1>3. told \in Seq(ObligationState \X ObligationState)
    <2>1. call[c].op = "obligation" => row \in ObligationState \X ObligationState
        BY <1>2
    <2> DEFINE R == ObligationState \X ObligationState
    <2>2. log[m] \in Seq(R)
        BY <1>2, FileTypes
    <2> HIDE DEF row, R
    <2>3. told \in Seq(R)
        BY <2>1, <2>2 DEF R
    <2> QED
        BY <2>3 DEF R
<1> HIDE DEF m, row, told
<1>5. log' \in [Messages -> Seq(ObligationState \X ObligationState)]
    BY <1>1, <1>3, FileTypes
<1> QED
    BY <1>1, <1>5, FileTypes, MemoryMoves

\* A call is given up where it is.
LEMMA DyingKeeps ==
    ASSUME ChannelShape, StatesAreTold, NEW c \in Callers, call' = [call EXCEPT ![c] = Idle], crashes' = crashes + 1,
           UNCHANGED <<envelope, inbox, mirror, log, story, hidden>>
    PROVE  ChannelKeeps
<1>1. crashes' \in Nat
    BY FileTypes
<1> QED
    BY <1>1, FileTypes, MemoryMoves

LEMMA RestingKeeps ==
    ASSUME ChannelShape, StatesAreTold, UNCHANGED vars
    PROVE  ChannelKeeps
BY GrowsByNothing DEF vars, ChannelKeeps, ChannelShape, TypeOK, CallFits, StatesAreTold, WorkIsDue

LEMMA WriteStepKeeps ==
    ASSUME ChannelShape, StatesAreTold, NEW c \in Callers, WriteStep(c)
    PROVE  ChannelKeeps
BY OpenKeeps, WriteKeeps, OpenMirrorKeeps, WriteMirrorKeeps, AppendKeeps DEF WriteStep

LEMMA SeenWasSent ==
    ASSUME ChannelShape
    PROVE  Seen \subseteq Messages /\ \A n \in Seen : envelope[n] # Unsent
BY FileTypes, NoContent DEF Seen, Readable

LEMMA ThreadsAreMessages ==
    ASSUME ChannelShape, NEW m \in Messages
    PROVE  Threads(m) \subseteq Messages
<1>1. Seen \subseteq Messages /\ \A n \in Seen : envelope[n] \in Envelope
    BY SeenWasSent, FileTypes
<1> QED
    BY <1>1 DEF Threads, Envelope

LEMMA RequestKeeps ==
    ASSUME ChannelShape, StatesAreTold, NEW c \in Callers, NEW m \in Messages, Request(c, m)
    PROVE  ChannelKeeps
<1>1. Threads(m) \subseteq Messages
    BY ThreadsAreMessages
<1>2. CASE \E t \in Threads(m), p \in {None} \cup Seen, o \in {"pending", "none"} :
               SendMessage(c, m, t, p, o)
    <2>1. Sends(c)
        BY <1>1, <1>2, SeenWasSent DEF Sends
    <2> QED
        BY <2>1, SendKeeps
<1> QED
    BY <1>2, ObligationKeeps, StatusKeeps DEF Request

LEMMA ChannelStepKeeps ==
    ASSUME ChannelShape, StatesAreTold, [Next]_vars
    PROVE  ChannelKeeps
<1>1. ASSUME NEW c \in Callers, Crash(c)
      PROVE  ChannelKeeps
    BY <1>1, DyingKeeps DEF Crash
<1> QED
    BY <1>1, RequestKeeps, WriteStepKeeps, RestingKeeps DEF Next

-----------------------------------------------------------------------------
(* The theorems about the channel.                                         *)

LEMMA ChannelStarts ==
    ASSUME Init
    PROVE  ChannelShape /\ StatesAreTold
<1>1. \A m \in DOMAIN Seed :
          /\ [thread |-> Seed[m].thread, parent |-> Seed[m].parent] \in Envelope
          /\ [status |-> "open", obligation |-> Seed[m].obligation] \in Content
          /\ <<Seed[m].obligation>> \in Seq(ObligationState)
    BY SeedAssumption DEF Envelope, Content, MessageStatus
<1>2. \A m \in DOMAIN Seed : [thread |-> Seed[m].thread, parent |-> Seed[m].parent] # Unsent
    <2>1. \A m \in DOMAIN Seed : Seed[m].thread \in Messages
        BY SeedAssumption
    <2>2. Unsent.thread = None
        BY DEF Unsent
    <2> QED
        BY <2>1, <2>2, ChannelAssumption
<1>3. inbox \in [Messages -> Content \cup {Absent}] /\ mirror = inbox
    BY <1>1 DEF Init, Seeded
<1>4. <<>> \in Seq(ObligationState) /\ <<>> \in Seq(ObligationState \X ObligationState)
    OBVIOUS
<1>5. TypeOK
    <2>1. envelope \in [Messages -> Envelope \cup {Unsent}]
        BY <1>1 DEF Init
    <2>2. story \in [Messages -> Seq(ObligationState)]
        BY <1>1, <1>4 DEF Init
    <2>3. log \in [Messages -> Seq(ObligationState \X ObligationState)] /\ crashes \in Nat
          /\ call \in [Callers -> Call \cup {Idle}] /\ hidden \in SUBSET Messages
        BY <1>4 DEF Init
    <2> QED
        BY <1>3, <2>1, <2>2, <2>3 DEF TypeOK
<1>6. \A m \in Messages : inbox[m] # Absent \/ mirror[m] # Absent \/ m \in hidden => envelope[m] # Unsent
    <2>1. \A m \in Messages : inbox[m] # Absent => m \in DOMAIN Seed
        BY DEF Init, Seeded
    <2> QED
        BY <1>2, <1>3, <2>1 DEF Init
<1>7. ASSUME NEW m \in Messages, inbox[m] \in Content
      PROVE  Held(story[m], inbox[m].obligation)
    <2>1. m \in DOMAIN Seed
        BY <1>7, NoContent DEF Init, Seeded
    <2>2. inbox[m].obligation = Seed[m].obligation /\ story[m] = <<Seed[m].obligation>>
        BY <2>1 DEF Init, Seeded
    <2>3. 1 \in DOMAIN story[m] /\ story[m][1] = inbox[m].obligation
        BY <2>2
    <2> QED
        BY <2>3 DEF Held
<1> QED
    BY <1>5, <1>6, <1>7 DEF ChannelShape, StatesAreTold, CallFits, Init

\* Nothing has been worked on yet.
FreshSeed ==
    \A m \in DOMAIN Seed : Seed[m].obligation \notin {"in_progress", "blocked_input", "fulfilled"}

LEMMA WorkStarts ==
    ASSUME Init, FreshSeed
    PROVE  WorkIsDue
<1>1. ASSUME NEW m \in Messages
      PROVE  NothingSkipped(story[m])
    <2>1. CASE m \in DOMAIN Seed
        <3>1. \A n \in DOMAIN story[m] : story[m][n] = Seed[m].obligation
            BY <2>1 DEF Init
        <3> QED
            BY <2>1, <3>1 DEF FreshSeed, NothingSkipped
    <2>2. CASE m \notin DOMAIN Seed
        BY <2>2 DEF Init, NothingSkipped
    <2> QED
        BY <2>1, <2>2
<1>2. ASSUME NEW m \in Messages, inbox[m] \in Content
      PROVE  inbox[m].obligation \notin {"in_progress", "blocked_input", "fulfilled"}
    <2>1. m \in DOMAIN Seed
        BY <1>2, NoContent DEF Init, Seeded
    <2> QED
        BY <2>1 DEF Init, Seeded, FreshSeed
<1> QED
    BY <1>1, <1>2 DEF WorkIsDue, Init

\* For every number of messages and callers: the files, the calls and the rows
\* are what agent_channels.py reads and writes, whatever calls race or die.
THEOREM ChannelTypeCorrect == Spec => []TypeOK
<1> DEFINE Inv == ChannelShape /\ StatesAreTold
<1>1. Init => Inv
    BY ChannelStarts
<1>2. Inv /\ [Next]_vars => Inv'
    BY ChannelStepKeeps DEF ChannelKeeps
<1>3. Inv => TypeOK
    BY DEF ChannelShape
<1> QED
    BY <1>1, <1>2, <1>3, PTL DEF Spec

\* a2a.md, "no skip": from obligations nobody has worked on, no interleaving of
\* sends, updates and deaths fulfils one that was not accepted and then in
\* progress, though update_obligation_state decides on what it has read.
THEOREM NoWorkIsSkipped == FreshSeed /\ Spec => []NoWorkSkipped
<1> DEFINE Inv == ChannelShape /\ StatesAreTold /\ WorkIsDue
<1>1. FreshSeed /\ Init => Inv
    BY ChannelStarts, WorkStarts
<1>2. Inv /\ [Next]_vars => Inv'
    BY ChannelStepKeeps DEF ChannelKeeps
<1>3. Inv => NoWorkSkipped
    BY DEF WorkIsDue, NothingSkipped, NoWorkSkipped
<1> QED
    BY <1>1, <1>2, <1>3, PTL DEF Spec

-----------------------------------------------------------------------------
(* The depth of chains.                                                    *)

\* Obligations at the start answer no other.
SeedsAreRoots == \A m \in DOMAIN Seed : Seed[m].parent = None

\* f adds up w along the chain of each message, which ends below the first
\* message that is not in R.
Along(w, R, f, sent) ==
    f = [m \in Messages \cup {None} |->
          IF m = None THEN 0 ELSE w[m] + (IF m \in R THEN f[sent[m].parent] ELSE 0)]

\* There is one such sum, whatever is added up.
AddsUp(sent) ==
    \A w \in [Messages -> Nat], R \in SUBSET Messages :
        \E f \in [Messages \cup {None} -> Nat] :
            Along(w, R, f, sent) /\ \A g : Along(w, R, g, sent) => g = f

One == [m \in Messages |-> 1]
Gap(H) == [m \in Messages |-> IF m \in H THEN MaxParentDepth - 1 ELSE 0]

\* What a message answers has been seen.
ParentsAreSeen == \A m \in Messages : envelope[m].parent \in {None} \cup Seen

\* Chains are within their limit, whatever else will be hidden.
ChainsFit ==
    \A H \in SUBSET Messages, f, a \in [Messages \cup {None} -> Nat] :
        hidden \subseteq H /\ Along(One, Messages, f, envelope) /\ Along(Gap(H), Messages, a, envelope) =>
            \A m \in Messages : envelope[m] # Unsent => f[m] <= MaxParentDepth + a[envelope[m].parent]

DepthInv == ChannelShape /\ StatesAreTold /\ ParentsAreSeen /\ AddsUp(envelope) /\ ChainsFit

\* The equation, message by message.
AtEveryMessage(w, R, f, sent) ==
    /\ f[None] = 0
    /\ \A m \in Messages : f[m] = w[m] + (IF m \in R THEN f[sent[m].parent] ELSE 0)
    /\ f = [m \in Messages \cup {None} |-> f[m]]

LEMMA AlongPointwise ==
    ASSUME NEW w, NEW R, NEW f, NEW sent, Along(w, R, f, sent)
    PROVE  AtEveryMessage(w, R, f, sent)
<1> DEFINE S == Messages \cup {None}
           e(m) == IF m = None THEN 0 ELSE w[m] + (IF m \in R THEN f[sent[m].parent] ELSE 0)
<1>1. f = [m \in S |-> e(m)]
    BY DEF Along
<1>2. \A m \in S : f[m] = e(m)
    <2> HIDE DEF e
    <2> QED
        BY <1>1
<1>3. f = [m \in S |-> f[m]]
    <2> HIDE DEF e
    <2> QED
        BY <1>1, <1>2
<1> QED
    BY <1>2, <1>3, ChannelAssumption DEF AtEveryMessage

LEMMA PointwiseAlong ==
    ASSUME NEW w, NEW R, NEW f, NEW sent, AtEveryMessage(w, R, f, sent)
    PROVE  Along(w, R, f, sent)
<1> DEFINE S == Messages \cup {None}
           e(m) == IF m = None THEN 0 ELSE w[m] + (IF m \in R THEN f[sent[m].parent] ELSE 0)
<1>1. (\A m \in S : f[m] = e(m)) /\ f = [m \in S |-> f[m]]
    BY ChannelAssumption DEF AtEveryMessage
<1>2. f = [m \in S |-> e(m)]
    <2> HIDE DEF e
    <2> QED
        BY <1>1
<1> QED
    BY <1>2 DEF Along

\* A chain grows at its lower end: what is sent is nobody's parent yet, and the
\* sums along the other chains stay what they were.
Grown(w, R, sent, after, m) ==
    \E f, h \in [Messages \cup {None} -> Nat] :
        /\ Along(w, R, f, sent)
        /\ Along(w, R, h, after) /\ \A g : Along(w, R, g, after) => g = h
        /\ \A n \in (Messages \cup {None}) \ {m} : h[n] = f[n]

LEMMA AlongGrows ==
    ASSUME NEW sent \in [Messages -> Envelope \cup {Unsent}], AddsUp(sent),
           NEW m \in Messages, sent[m] = Unsent, NEW new \in Envelope, new.parent # m,
           \A n \in Messages : sent[n].parent # m,
           NEW after, after = [sent EXCEPT ![m] = new],
           NEW w \in [Messages -> Nat], NEW R \in SUBSET Messages
    PROVE  Grown(w, R, sent, after, m)
<1> DEFINE S == Messages \cup {None}
<1>1. PICK f \in [S -> Nat] : Along(w, R, f, sent) /\ \A g : Along(w, R, g, sent) => g = f
    BY DEF AddsUp
<1>2. /\ new.parent \in S /\ sent[m].parent = None /\ m # None
      /\ \A n \in Messages : sent[n].parent \in S
    BY ChannelAssumption DEF Envelope, Unsent
<1>3. after[m] = new /\ \A n \in Messages \ {m} : after[n] = sent[n]
    OBVIOUS
<1>4. f[None] = 0 /\ \A n \in Messages : f[n] = w[n] + (IF n \in R THEN f[sent[n].parent] ELSE 0)
    <2>1. Along(w, R, f, sent)
        BY <1>1
    <2> QED
        BY ONLY <2>1, AlongPointwise DEF AtEveryMessage
<1> DEFINE here == w[m] + (IF m \in R THEN f[new.parent] ELSE 0)
           h == [f EXCEPT ![m] = here]
<1>5. here \in Nat
    <2>1. w[m] \in Nat /\ f[new.parent] \in Nat
        BY <1>1, <1>2
    <2> QED
        BY <2>1
<1>6. h \in [S -> Nat] /\ h[m] = here /\ \A n \in S \ {m} : h[n] = f[n]
    BY <1>1, <1>5
<1> HIDE DEF h
<1>7. Along(w, R, h, after)
    <2>1. h[None] = 0
        BY <1>2, <1>4, <1>6
    <2>2. ASSUME NEW n \in Messages
          PROVE  h[n] = w[n] + (IF n \in R THEN h[after[n].parent] ELSE 0)
        <3>1. CASE n = m
            BY <1>2, <1>3, <1>6, <3>1
        <3>2. CASE n # m
            <4>1. after[n] = sent[n] /\ sent[n].parent \in S \ {m}
                BY <1>2, <1>3, <3>2
            <4> QED
                BY <1>4, <1>6, <3>2, <4>1
        <3> QED
            BY <3>1, <3>2
    <2>3. h = [n \in S |-> h[n]]
        BY <1>6
    <2> QED
        BY <2>1, <2>2, <2>3, PointwiseAlong DEF AtEveryMessage
<1>8. ASSUME NEW g, Along(w, R, g, after)
      PROVE  g = h
    <2> DEFINE b == [n \in S |-> IF n = m THEN w[m] ELSE g[n]]
    <2>1. b[m] = w[m] /\ (\A n \in S \ {m} : b[n] = g[n]) /\ b = [n \in S |-> b[n]]
        OBVIOUS
    <2> HIDE DEF b
    <2>2. /\ g[None] = 0 /\ g = [n \in S |-> g[n]]
          /\ \A n \in Messages : g[n] = w[n] + (IF n \in R THEN g[after[n].parent] ELSE 0)
        BY ONLY <1>8, AlongPointwise DEF AtEveryMessage
    <2>3. Along(w, R, b, sent)
        <3>1. b[None] = 0
            BY <1>2, <2>1, <2>2
        <3>2. ASSUME NEW n \in Messages
              PROVE  b[n] = w[n] + (IF n \in R THEN b[sent[n].parent] ELSE 0)
            <4>1. CASE n = m
                <5>1. w[m] \in Nat
                    OBVIOUS
                <5> QED
                    BY <1>2, <2>1, <3>1, <4>1, <5>1
            <4>2. CASE n # m
                <5>1. after[n] = sent[n] /\ sent[n].parent \in S \ {m}
                    BY <1>2, <1>3, <4>2
                <5>2. b[n] = g[n] /\ b[sent[n].parent] = g[sent[n].parent]
                    BY <2>1, <4>2, <5>1
                <5> QED
                    BY <2>2, <5>1, <5>2
            <4> QED
                BY <4>1, <4>2
        <3>3. b = [n \in Messages \cup {None} |-> b[n]]
            BY <2>1
        <3> QED
            BY <3>1, <3>2, <3>3, PointwiseAlong DEF AtEveryMessage
    <2>4. b = f
        BY <1>1, <2>3
    <2>5. \A n \in S \ {m} : g[n] = h[n]
        BY <1>6, <2>1, <2>4
    <2>6. g[m] = w[m] + (IF m \in R THEN g[new.parent] ELSE 0) /\ new.parent \in S \ {m}
        BY <1>2, <1>3, <2>2
    <2>7. g[m] = h[m]
        BY <1>6, <2>1, <2>4, <2>6
    <2>8. h = [n \in S |-> h[n]]
        BY <1>6
    <2> QED
        BY <2>2, <2>5, <2>7, <2>8
<1> QED
    BY <1>1, <1>6, <1>7, <1>8 DEF Grown

LEMMA LeastOf ==
    ASSUME NEW T \in SUBSET Nat, T # {}
    PROVE  \E m \in T : \A n \in T : m <= n
<1> DEFINE Below == {1 .. t : t \in T}
<1>1. Below \subseteq FiniteSubsetsOf(Nat) /\ Below # {}
    <2>1. \A t \in T : 1 .. t \subseteq Nat /\ IsFiniteSet(1 .. t)
        <3> TAKE t \in T
        <3>1. t \in Int /\ 1 \in Int
            OBVIOUS
        <3> QED
            BY <3>1, FS_Interval
    <2> QED
        BY <2>1 DEF FiniteSubsetsOf
<1>2. IsWellFoundedOn(StrictSubsetOrdering(Nat), FiniteSubsetsOf(Nat))
    BY FS_StrictSubsetOrderingWellFounded
<1>3. PICK U \in Below : \A W \in Below : <<W, U>> \notin StrictSubsetOrdering(Nat)
    <2> HIDE DEF Below
    <2> QED
        BY <1>1, <1>2, WFMin
<1>4. PICK m \in T : U = 1 .. m
    BY <1>3
<1>5. ASSUME NEW n \in T, n < m
      PROVE  FALSE
    <2>1. 1 .. n \subseteq 1 .. m /\ 1 .. n # 1 .. m
        <3>1. n \in Nat /\ m \in Nat
            OBVIOUS
        <3>2. m \in 1 .. m /\ m \notin 1 .. n
            BY <1>5, <3>1
        <3> QED
            BY <1>5, <3>1, <3>2
    <2>2. <<1 .. n, 1 .. m>> \in StrictSubsetOrdering(Nat)
        BY <2>1 DEF StrictSubsetOrdering
    <2> QED
        BY <1>3, <1>4, <1>5, <2>2
<1> QED
    BY <1>5

\* The weights that chains are measured with.
LEMMA Weights ==
    /\ One \in [Messages -> Nat] /\ \A m \in Messages : One[m] = 1
    /\ \A H : /\ Gap(H) \in [Messages -> Nat]
              /\ \A m \in Messages : Gap(H)[m] = IF m \in H THEN MaxParentDepth - 1 ELSE 0
<1>1. MaxParentDepth - 1 \in Nat
    BY ChannelAssumption
<1> QED
    BY <1>1 DEF One, Gap

\* The equation that _parent_obligation_depth follows upwards.
LEMMA DepthPointwise ==
    ASSUME AddsUp(envelope)
    PROVE  /\ ParentDepth \in [Messages \cup {None} -> Nat] /\ ParentDepth[None] = 0
           /\ \A m \in Messages :
                 ParentDepth[m] = IF Readable(m) THEN 1 + ParentDepth[envelope[m].parent] ELSE 1
<1> DEFINE S == Messages \cup {None}
           R == {m \in Messages : Readable(m)}
           e(g, m) == IF m = None THEN 0 ELSE IF ~Readable(m) THEN 1 ELSE 1 + g[envelope[m].parent]
           Reads(g) == g = [m \in S |-> e(g, m)]
<1>1. R \in SUBSET Messages
    OBVIOUS
<1>2. PICK f \in [S -> Nat] : Along(One, R, f, envelope) /\ \A g : Along(One, R, g, envelope) => g = f
    BY <1>1, Weights DEF AddsUp
<1>3. f[None] = 0 /\ \A m \in Messages : f[m] = One[m] + (IF m \in R THEN f[envelope[m].parent] ELSE 0)
    BY <1>2, AlongPointwise DEF AtEveryMessage
<1>4. \A m \in Messages : f[m] = IF Readable(m) THEN 1 + f[envelope[m].parent] ELSE 1
    BY <1>3, Weights
<1>5. Reads(f)
    <2>1. \A m \in S : f[m] = e(f, m)
        BY <1>3, <1>4
    <2> HIDE DEF e
    <2> QED
        BY <1>2, <2>1
<1>6. Reads(ParentDepth)
    BY <1>5 DEF ParentDepth
<1> DEFINE h == ParentDepth
<1>7. h = [m \in S |-> h[m]] /\ \A m \in S : h[m] = e(h, m)
    <2>1. h = [m \in S |-> e(h, m)]
        BY <1>6
    <2> HIDE DEF h, e
    <2> QED
        BY <2>1
<1> HIDE DEF h, Reads
<1>8. h[None] = 0
    BY <1>7
<1>9. \A m \in Messages : h[m] = IF Readable(m) THEN 1 + h[envelope[m].parent] ELSE 1
    BY <1>7, ChannelAssumption
<1>10. \A m \in Messages : h[m] = One[m] + (IF m \in R THEN h[envelope[m].parent] ELSE 0)
    <2> SUFFICES ASSUME NEW m \in Messages
                 PROVE  h[m] = One[m] + (IF m \in R THEN h[envelope[m].parent] ELSE 0)
        OBVIOUS
    <2>1. CASE Readable(m)
        BY <1>9, <2>1, Weights
    <2>2. CASE ~Readable(m)
        BY <1>9, <2>2, Weights
    <2> QED
        BY <2>1, <2>2
<1> HIDE DEF R
<1>11. Along(One, R, h, envelope)
    BY <1>7, <1>8, <1>10, PointwiseAlong DEF AtEveryMessage
<1>12. h = f
    BY <1>2, <1>11
<1> QED
    BY <1>2, <1>8, <1>9, <1>12 DEF h

\* The walk misses no more of a chain than the files that are hidden allow for.
LEMMA DepthIsSeen ==
    ASSUME DepthInv, NEW H \in SUBSET Messages, hidden \subseteq H,
           NEW f \in [Messages \cup {None} -> Nat], Along(One, Messages, f, envelope),
           NEW a \in [Messages \cup {None} -> Nat], Along(Gap(H), Messages, a, envelope),
           NEW p \in {None} \cup Seen
    PROVE  f[p] <= ParentDepth[p] + a[p]
<1> DEFINE S == Messages \cup {None}
           w == ParentDepth
           Bad == {n \in {None} \cup Seen : ~(f[n] <= w[n] + a[n])}
           T == {f[n] : n \in Bad}
<1>1. Seen \subseteq Messages /\ \A n \in Seen : envelope[n] # Unsent
    BY SeenWasSent DEF DepthInv
<1>2. /\ w \in [S -> Nat] /\ w[None] = 0
      /\ \A m \in Messages : w[m] = IF Readable(m) THEN 1 + w[envelope[m].parent] ELSE 1
    BY DepthPointwise DEF DepthInv
<1>3. /\ f[None] = 0 /\ a[None] = 0
      /\ \A m \in Messages : /\ f[m] = 1 + f[envelope[m].parent]
                             /\ a[m] = Gap(H)[m] + a[envelope[m].parent]
    BY AlongPointwise, Weights DEF AtEveryMessage
<1> HIDE DEF w
<1>4. SUFFICES ASSUME Bad # {}
               PROVE  FALSE
    BY DEF w
<1>5. T \in SUBSET Nat /\ T # {}
    BY <1>1, <1>4
<1>6. PICK n \in Bad : \A x \in Bad : f[n] <= f[x]
    <2>1. PICK t \in T : \A y \in T : t <= y
        BY <1>5, LeastOf
    <2> QED
        BY <2>1
<1>7. n \in Seen /\ n \in Messages /\ envelope[n] # Unsent
    BY <1>1, <1>2, <1>3, <1>6
<1> DEFINE q == envelope[n].parent
<1>8. q \in {None} \cup Seen /\ q \in S /\ f[q] \in Nat /\ a[q] \in Nat /\ w[q] \in Nat
    <2>1. q \in {None} \cup Seen
        BY <1>7 DEF DepthInv, ParentsAreSeen
    <2> QED
        BY <1>1, <1>2, <2>1
<1>9. f[n] = 1 + f[q] /\ a[n] = (IF n \in H THEN MaxParentDepth - 1 ELSE 0) + a[q]
    BY <1>3, <1>7, Weights
<1> HIDE DEF q
<1>10. CASE Readable(n)
    <2>1. w[n] = 1 + w[q]
        BY <1>2, <1>7, <1>10 DEF q
    <2>2. f[q] <= w[q] + a[q]
        <3>1. q \notin Bad
            BY <1>6, <1>8, <1>9
        <3> QED
            BY <1>8, <3>1
    <2> QED
        BY <1>6, <1>8, <1>9, <2>1, <2>2, ChannelAssumption
<1>11. CASE ~Readable(n)
    <2>1. n \in H /\ w[n] = 1
        BY <1>2, <1>7, <1>11 DEF Seen
    <2>2. f[n] <= MaxParentDepth + a[q]
        BY <1>7 DEF DepthInv, ChainsFit, q
    <2> QED
        BY <1>6, <1>8, <1>9, <2>1, <2>2, ChannelAssumption
<1> QED
    BY <1>10, <1>11

\* A step that sends nothing, and forgets no message that has been seen.
LEMMA FilesMove ==
    ASSUME DepthInv, ChannelShape', StatesAreTold', envelope' = envelope,
           hidden \subseteq hidden', Seen \subseteq Seen'
    PROVE  DepthInv'
<1>1. ParentsAreSeen'
    BY DEF DepthInv, ParentsAreSeen
<1>2. AddsUp(envelope)'
    BY DEF DepthInv
<1>3. ChainsFit'
    <2> SUFFICES ASSUME NEW H \in SUBSET Messages, NEW f \in [Messages \cup {None} -> Nat],
                        NEW a \in [Messages \cup {None} -> Nat], hidden' \subseteq H,
                        Along(One, Messages, f, envelope), Along(Gap(H), Messages, a, envelope)
                 PROVE  \A m \in Messages : envelope[m] # Unsent => f[m] <= MaxParentDepth + a[envelope[m].parent]
        BY DEF ChainsFit
    <2> QED
        BY DEF DepthInv, ChainsFit
<1> QED
    BY <1>1, <1>2, <1>3 DEF DepthInv

\* A message that has been seen goes on being read, or is hidden.
LEMMA WriteStepDepth ==
    ASSUME DepthInv, ChannelShape', StatesAreTold', NEW c \in Callers, WriteStep(c)
    PROVE  DepthInv'
<1> DEFINE m == call[c].message
<1>1. call[c] # Idle
    BY DEF WriteStep, OpenInbox, WriteInbox, OpenMirror, WriteMirror, AppendTransition, At
<1>2. m \in Messages /\ call[c].content \in Content
    BY <1>1, MemoryTypes DEF DepthInv
<1>3. inbox \in [Messages -> Content \cup {Absent, Torn}] /\ mirror \in [Messages -> Content \cup {Absent, Torn}]
    BY FileTypes DEF DepthInv
<1>4. CASE OpenInbox(c)
    <2>1. /\ inbox' = [inbox EXCEPT ![m] = Torn] /\ UNCHANGED <<envelope, mirror>>
          /\ hidden' = hidden \cup {x \in {m} : inbox[m] \in Content /\ mirror[m] \notin Content}
        BY <1>4 DEF OpenInbox, Hide
    <2> HIDE DEF m
    <2>2. Seen \subseteq Seen'
        BY <1>2, <1>3, <2>1 DEF Seen, Readable
    <2> QED
        BY <2>1, <2>2, FilesMove
<1>5. CASE WriteInbox(c)
    <2>1. inbox' = [inbox EXCEPT ![m] = call[c].content] /\ UNCHANGED <<envelope, mirror, hidden>>
        BY <1>5 DEF WriteInbox
    <2> HIDE DEF m
    <2>2. Seen \subseteq Seen'
        BY <1>2, <1>3, <2>1 DEF Seen, Readable
    <2> QED
        BY <2>1, <2>2, FilesMove
<1>6. CASE OpenMirror(c)
    <2> DEFINE writes == call[c].op = "send" \/ mirror[m] # Absent
    <2>1. /\ mirror' = IF writes THEN [mirror EXCEPT ![m] = Torn] ELSE mirror
          /\ UNCHANGED <<envelope, inbox>>
          /\ hidden' = hidden \cup {x \in {m} : mirror[m] \in Content /\ inbox[m] \notin Content}
        BY <1>6 DEF OpenMirror, Hide
    <2> HIDE DEF m, writes
    <2>2. Seen \subseteq Seen'
        BY <1>2, <1>3, <2>1 DEF Seen, Readable
    <2> QED
        BY <2>1, <2>2, FilesMove
<1>7. CASE WriteMirror(c)
    <2>1. mirror' = [mirror EXCEPT ![m] = call[c].content] /\ UNCHANGED <<envelope, inbox, hidden>>
        BY <1>7 DEF WriteMirror
    <2> HIDE DEF m
    <2>2. Seen \subseteq Seen'
        BY <1>2, <1>3, <2>1 DEF Seen, Readable
    <2> QED
        BY <2>1, <2>2, FilesMove
<1>8. CASE AppendTransition(c)
    <2>1. UNCHANGED <<envelope, inbox, mirror, hidden>>
        BY <1>8 DEF AppendTransition
    <2>2. Seen \subseteq Seen'
        BY <2>1 DEF Seen, Readable
    <2> QED
        BY <2>1, <2>2, FilesMove
<1> QED
    BY <1>4, <1>5, <1>6, <1>7, <1>8 DEF WriteStep

\* A send that the guard lets through makes no chain too long.
LEMMA SendDepth ==
    ASSUME DepthInv, ChannelShape', StatesAreTold', NEW c \in Callers, NEW m \in Messages, NEW t \in Messages,
           NEW p \in {None} \cup Seen, NEW o, SendMessage(c, m, t, p, o)
    PROVE  DepthInv'
<1> DEFINE S == Messages \cup {None}
           sent == [thread |-> t, parent |-> p]
<1>1. /\ envelope[m] = Unsent /\ WithinLimits(t, p) /\ envelope' = [envelope EXCEPT ![m] = sent]
      /\ UNCHANGED <<inbox, mirror, hidden>>
    BY DEF SendMessage
<1>2. Seen \subseteq Messages /\ m \notin Seen /\ Seen' = Seen
    <2>1. Seen \subseteq Messages /\ m \notin Seen
        BY <1>1, SeenWasSent DEF DepthInv
    <2>2. Seen' = Seen
        BY <1>1 DEF Seen, Readable
    <2> QED
        BY <2>1, <2>2
<1>3. sent \in Envelope /\ sent.parent = p
    BY <1>2 DEF Envelope
<1> HIDE DEF sent
<1>4. /\ envelope \in [Messages -> Envelope \cup {Unsent}]
      /\ envelope'[m] = sent /\ \A n \in Messages \ {m} : envelope'[n] = envelope[n]
    BY <1>1, FileTypes DEF DepthInv
<1>5. p # m /\ m # None /\ \A n \in Messages : envelope[n].parent \in ({None} \cup Seen) \ {m}
    BY <1>2, ChannelAssumption DEF DepthInv, ParentsAreSeen
<1>6. ParentsAreSeen'
    <2> SUFFICES ASSUME NEW n \in Messages
                 PROVE  envelope'[n].parent \in {None} \cup Seen
        BY <1>2 DEF ParentsAreSeen
    <2>1. CASE n = m
        BY <1>3, <1>4, <2>1
    <2>2. CASE n # m
        BY <1>4, <1>5, <2>2
    <2> QED
        BY <2>1, <2>2
<1>7. ASSUME NEW w \in [Messages -> Nat], NEW R \in SUBSET Messages
      PROVE  Grown(w, R, envelope, envelope', m)
    <2>1. sent.parent # m /\ (\A n \in Messages : envelope[n].parent # m) /\ AddsUp(envelope)
        BY <1>3, <1>5 DEF DepthInv
    <2> DEFINE after == envelope'
    <2>2. after = [envelope EXCEPT ![m] = sent]
        BY <1>1
    <2> HIDE DEF after
    <2>3. /\ m \in Messages /\ w \in [Messages -> Nat] /\ R \in SUBSET Messages /\ sent \in Envelope
          /\ envelope \in [Messages -> Envelope \cup {Unsent}] /\ envelope[m] = Unsent
        BY <1>1, <1>3, <1>4
    <2>4. Grown(w, R, envelope, after, m)
        BY ONLY <2>1, <2>2, <2>3, AlongGrows
    <2> QED
        BY <2>4 DEF after
<1>8. AddsUp(envelope')
    BY <1>7 DEF AddsUp, Grown
<1>9. ASSUME NEW H \in SUBSET Messages, hidden \subseteq H,
             NEW f1 \in [S -> Nat], Along(One, Messages, f1, envelope'),
             NEW a1 \in [S -> Nat], Along(Gap(H), Messages, a1, envelope'),
             NEW n \in Messages, envelope'[n] # Unsent
      PROVE  f1[n] <= MaxParentDepth + a1[envelope'[n].parent]
    <2>1. PICK f, h \in [S -> Nat] :
              /\ Along(One, Messages, f, envelope)
              /\ Along(One, Messages, h, envelope') /\ \A g : Along(One, Messages, g, envelope') => g = h
              /\ \A x \in S \ {m} : h[x] = f[x]
        BY <1>7, Weights DEF Grown
    <2>2. PICK a, b \in [S -> Nat] :
              /\ Along(Gap(H), Messages, a, envelope)
              /\ Along(Gap(H), Messages, b, envelope') /\ \A g : Along(Gap(H), Messages, g, envelope') => g = b
              /\ \A x \in S \ {m} : b[x] = a[x]
        BY <1>7, Weights DEF Grown
    <2>3. f1 = h /\ a1 = b
        BY <1>9, <2>1, <2>2
    <2>4. (\A x \in S \ {m} : f1[x] = f[x]) /\ (\A x \in S \ {m} : a1[x] = a[x])
        BY <2>1, <2>2, <2>3
    <2>5. CASE n # m
        <3>1. envelope'[n] = envelope[n] /\ envelope[n].parent \in S \ {m}
            BY <1>2, <1>4, <1>5, <2>5
        <3>2. f[n] <= MaxParentDepth + a[envelope[n].parent]
            BY <1>9, <2>1, <2>2, <3>1 DEF DepthInv, ChainsFit
        <3> QED
            BY <2>4, <2>5, <3>1, <3>2
    <2>6. CASE n = m
        <3>1. p \in S \ {m} /\ f[p] \in Nat /\ a[p] \in Nat
            BY <1>2, <1>5, <2>1, <2>2
        <3>2. f1[m] = 1 + f1[p]
            <4>1. f1[m] = One[m] + f1[envelope'[m].parent]
                BY <1>9, AlongPointwise DEF AtEveryMessage
            <4> QED
                BY <1>3, <1>4, <4>1, Weights
        <3>3. f1[m] = 1 + f[p] /\ a1[envelope'[m].parent] = a[p]
            BY <1>3, <1>4, <2>4, <3>1, <3>2
        <3>4. f[p] <= ParentDepth[p] + a[p]
            BY <1>9, <2>1, <2>2, DepthIsSeen
        <3>5. ParentDepth[p] < MaxParentDepth
            BY <1>1, DepthPointwise, ChannelAssumption DEF WithinLimits, DepthInv
        <3>6. ParentDepth[p] \in Nat /\ MaxParentDepth \in Nat
            BY <3>1, DepthPointwise, ChannelAssumption DEF DepthInv
        <3>7. 1 + f[p] <= MaxParentDepth + a[p]
            BY <3>1, <3>4, <3>5, <3>6
        <3> QED
            BY <2>6, <3>3, <3>7
    <2> QED
        BY <2>5, <2>6
<1>10. ChainsFit'
    BY <1>1, <1>9 DEF ChainsFit
<1> QED
    BY <1>6, <1>8, <1>10 DEF DepthInv

LEMMA DepthStep ==
    ASSUME DepthInv, [Next]_vars
    PROVE  DepthInv'
<1>1. ChannelShape' /\ StatesAreTold'
    BY ChannelStepKeeps DEF DepthInv, ChannelKeeps
<1>2. ASSUME UNCHANGED <<envelope, inbox, mirror, hidden>>
      PROVE  DepthInv'
    <2>1. Seen \subseteq Seen'
        BY <1>2 DEF Seen, Readable
    <2> QED
        BY <1>1, <1>2, <2>1, FilesMove
<1>3. ASSUME NEW c \in Callers, NEW m \in Messages, Request(c, m)
      PROVE  DepthInv'
    <2>1. CASE \E o \in ObligationState : UpdateObligation(c, m, o)
        BY <1>2, <2>1 DEF UpdateObligation
    <2>2. CASE \E s \in Statuses : UpdateStatus(c, m, s)
        BY <1>2, <2>2 DEF UpdateStatus
    <2>3. CASE \E t \in Threads(m), p \in {None} \cup Seen, o \in {"pending", "none"} : SendMessage(c, m, t, p, o)
        <3>1. PICK t \in Threads(m), p \in {None} \cup Seen, o \in {"pending", "none"} : SendMessage(c, m, t, p, o)
            BY <2>3
        <3>2. t \in Messages
            BY ThreadsAreMessages DEF DepthInv
        <3> QED
            BY <1>1, <3>1, <3>2, SendDepth
    <2> QED
        BY <1>3, <2>1, <2>2, <2>3 DEF Request
<1>4. ASSUME NEW c \in Callers, Crash(c)
      PROVE  DepthInv'
    BY <1>2, <1>4 DEF Crash
<1>5. CASE UNCHANGED vars
    BY <1>2, <1>5 DEF vars
<1> QED
    BY <1>1, <1>3, <1>4, <1>5, WriteStepDepth DEF Next

LEMMA DepthStarts ==
    ASSUME Init, SeedsAreRoots
    PROVE  DepthInv
<1> DEFINE S == Messages \cup {None}
<1>1. ChannelShape /\ StatesAreTold
    BY ChannelStarts
<1>2. \A m \in Messages : envelope[m].parent = None
    BY DEF Init, SeedsAreRoots, Unsent
<1>3. ASSUME NEW w \in [Messages -> Nat], NEW R \in SUBSET Messages
      PROVE  \E f \in [S -> Nat] : Along(w, R, f, envelope) /\ \A g : Along(w, R, g, envelope) => g = f
    <2> DEFINE f == [m \in S |-> IF m = None THEN 0 ELSE w[m]]
    <2>1. f \in [S -> Nat] /\ f[None] = 0 /\ (\A m \in Messages : f[m] = w[m]) /\ f = [m \in S |-> f[m]]
        BY ChannelAssumption
    <2> HIDE DEF f
    <2>2. \A m \in Messages : w[m] \in Nat
        OBVIOUS
    <2>3. Along(w, R, f, envelope)
        <3>1. \A m \in Messages : f[m] = w[m] + (IF m \in R THEN f[envelope[m].parent] ELSE 0)
            BY <1>2, <2>1, <2>2
        <3> QED
            BY <2>1, <3>1, PointwiseAlong DEF AtEveryMessage
    <2>4. ASSUME NEW g, Along(w, R, g, envelope)
          PROVE  g = f
        <3>1. /\ g[None] = 0 /\ g = [m \in S |-> g[m]]
              /\ \A m \in Messages : g[m] = w[m] + (IF m \in R THEN g[envelope[m].parent] ELSE 0)
            <4>1. AtEveryMessage(w, R, g, envelope)
                BY <2>4, AlongPointwise
            <4> QED
                BY <4>1 DEF AtEveryMessage
        <3>2. ASSUME NEW m \in Messages
              PROVE  g[m] = f[m]
            <4>1. g[m] = w[m] + (IF m \in R THEN g[None] ELSE 0)
                BY <1>2, <3>1
            <4> QED
                BY <2>1, <2>2, <3>1, <4>1
        <3> QED
            BY <2>1, <3>1, <3>2
    <2> QED
        BY <2>1, <2>3, <2>4
<1>4. AddsUp(envelope)
    BY <1>3 DEF AddsUp
<1>5. ChainsFit
    <2> SUFFICES ASSUME NEW H \in SUBSET Messages, NEW f \in [S -> Nat], NEW a \in [S -> Nat],
                        Along(One, Messages, f, envelope), NEW m \in Messages
                 PROVE  f[m] <= MaxParentDepth + a[envelope[m].parent]
        BY DEF ChainsFit
    <2>1. f[None] = 0 /\ f[m] = One[m] + f[envelope[m].parent]
        BY AlongPointwise DEF AtEveryMessage
    <2>2. f[m] = 1 /\ a[envelope[m].parent] \in Nat
        BY <1>2, <2>1, Weights
    <2> QED
        BY <2>2, ChannelAssumption
<1> QED
    BY <1>1, <1>2, <1>4, <1>5 DEF DepthInv, ParentsAreSeen

LEMMA DepthFits ==
    ASSUME DepthInv
    PROVE  DepthBounded
<1> DEFINE S == Messages \cup {None}
<1>1. hidden \in SUBSET Messages
    BY FileTypes DEF DepthInv
<1>2. PICK f \in [S -> Nat] :
          Along(One, Messages, f, envelope) /\ \A g : Along(One, Messages, g, envelope) => g = f
    BY Weights DEF DepthInv, AddsUp
<1>3. PICK a \in [S -> Nat] :
          Along(Gap(hidden), Messages, a, envelope) /\ \A g : Along(Gap(hidden), Messages, g, envelope) => g = a
    BY Weights DEF DepthInv, AddsUp
<1>4. \A g : Along(One, Messages, g, envelope) <=>
             g = [m \in S |-> IF m = None THEN 0 ELSE 1 + g[envelope[m].parent]]
    BY Weights DEF Along
<1>5. \A g : Along(Gap(hidden), Messages, g, envelope) <=>
             g = [m \in S |-> IF m = None THEN 0
                              ELSE (IF m \in hidden THEN MaxParentDepth - 1 ELSE 0) + g[envelope[m].parent]]
    BY Weights DEF Along
<1>6. ChainLength = f
    <2>1. Along(One, Messages, ChainLength, envelope)
        BY <1>2, <1>4 DEF ChainLength
    <2> QED
        BY <1>2, <2>1
<1>7. Slack = a
    <2>1. Along(Gap(hidden), Messages, Slack, envelope)
        BY <1>3, <1>5 DEF Slack
    <2> QED
        BY <1>3, <2>1
<1>8. \A m \in Messages : inbox[m] \in Content => envelope[m] # Unsent
    BY NoContent, FileTypes DEF DepthInv
<1>9. \A m \in Messages : envelope[m] # Unsent => f[m] <= MaxParentDepth + a[envelope[m].parent]
    BY <1>1, <1>2, <1>3 DEF DepthInv, ChainsFit
<1> QED
    BY <1>6, <1>7, <1>8, <1>9 DEF DepthBounded

\* However sends, updates and deaths overlap between their steps, a chain of
\* obligations outgrows the limit of the loop guard by less than that limit for
\* each message above its end that an update has hidden while it rewrote the
\* files of it: the guard reads files that others are writing, and misses of a
\* chain only what is above a file that does not parse.
THEOREM ChainsAreBounded == SeedsAreRoots /\ Spec => []DepthBounded
<1>1. SeedsAreRoots /\ Init => DepthInv
    BY DepthStarts
<1>2. DepthInv /\ [Next]_vars => DepthInv'
    BY DepthStep
<1>3. DepthInv => DepthBounded
    BY DepthFits
<1> QED
    BY <1>1, <1>2, <1>3, PTL DEF Spec

-----------------------------------------------------------------------------
(* Compensation: the commands, the requests they send and their rows.      *)

Failed(states) == \E o \in FailedState : Held(states, o)

\* What a command has found and sent.
CommandFits(command, stories, targets) ==
    /\ command.root = None => command.next = None /\ command.request = None
    /\ command.root # None => Failed(stories[command.root])
    /\ command.request # None => command.todo # <<>> /\ targets[command.request] \in Target
    /\ \A n \in DOMAIN command.todo : Held(stories[command.todo[n]], "fulfilled")

\* What a request is about.
TargetFits(about, stories) ==
    about # NoTarget => Held(stories[about.ancestor], "fulfilled") /\ Failed(stories[about.root])

SagaShape ==
    /\ SagaTypeOK
    /\ \A c \in Callers : CommandFits(saga[c], story, target)
    /\ \A m \in Messages : TargetFits(target[m], story) /\ (target[m] # NoTarget => envelope[m] # Unsent)

\* A request has its row, or the command that sent it is about to append it, or
\* has died before it could.
RequestsAreTold ==
    \A m \in Messages : target[m] # NoTarget => <<m, target[m]>> \in rows \/ Underway(m) \/ m \in cut

CompensationInv == ChannelShape /\ StatesAreTold /\ SagaShape /\ RequestsAreTold

LEMMA CommandFitsLasts ==
    ASSUME ChannelKeeps, NEW command \in Saga, NEW targets, CommandFits(command, story, target),
           \A m \in Messages : target[m] \in Target => targets[m] \in Target
    PROVE  CommandFits(command, story', targets)
<1>1. /\ command.root \in Messages \cup {None} /\ command.request \in Messages \cup {None}
      /\ command.todo \in Seq(Messages)
    BY DEF Saga
<1>2. command.root # None => Failed(story'[command.root])
    BY <1>1 DEF CommandFits, Failed, ChannelKeeps, Grows
<1>3. \A n \in DOMAIN command.todo : command.todo[n] \in Messages
    BY <1>1
<1>4. \A n \in DOMAIN command.todo : Held(story'[command.todo[n]], "fulfilled")
    BY <1>3 DEF CommandFits, ChannelKeeps, Grows
<1> QED
    BY <1>1, <1>2, <1>4 DEF CommandFits

LEMMA TargetFitsLasts ==
    ASSUME ChannelKeeps, NEW about \in Target \cup {NoTarget}, TargetFits(about, story)
    PROVE  TargetFits(about, story')
BY DEF TargetFits, Failed, ChannelKeeps, Grows, Target

\* The command of c goes on to new; requests and rows are only added.
LEMMA CommandMoves ==
    ASSUME CompensationInv, ChannelKeeps, NEW c \in Callers, NEW new \in Saga, saga' = [saga EXCEPT ![c] = new],
           /\ target' \in [Messages -> Target \cup {NoTarget}]
           /\ rows' \subseteq Messages \X Target /\ rows \subseteq rows'
           /\ walked' \subseteq Messages \X Messages
           /\ cut' \subseteq Messages /\ cut \subseteq cut'
           /\ commands' \in Nat,
           \A m \in Messages :
               \/ target'[m] = target[m]
               \/ target[m] = NoTarget /\ TargetFits(target'[m], story') /\ envelope'[m] # Unsent,
           CommandFits(new, story', target'),
           \A m \in Messages : target'[m] # NoTarget =>
               \/ target'[m] = target[m] /\ saga[c].request # m
               \/ new.request = m
               \/ <<m, target'[m]>> \in rows'
               \/ m \in cut'
    PROVE  CompensationInv'
<1>1. saga' \in [Callers -> Saga] /\ saga'[c] = new /\ \A r \in Callers \ {c} : saga'[r] = saga[r]
    BY DEF CompensationInv, SagaShape, SagaTypeOK
<1>2. SagaTypeOK'
    BY <1>1 DEF ChannelKeeps, ChannelShape, SagaTypeOK
<1>3. ASSUME NEW r \in Callers
      PROVE  CommandFits(saga'[r], story', target')
    <2>1. ASSUME r # c
          PROVE  CommandFits(saga'[r], story', target')
        <3>1. saga'[r] = saga[r] /\ saga[r] \in Saga /\ CommandFits(saga[r], story, target)
            BY <1>1, <2>1 DEF CompensationInv, SagaShape, SagaTypeOK
        <3>2. \A m \in Messages : target[m] \in Target => target'[m] \in Target
            <4>1. NoTarget \notin Target
                BY ChannelAssumption DEF Target, NoTarget
            <4> QED
                BY <4>1
        <3> QED
            BY <3>1, <3>2, CommandFitsLasts
    <2> QED
        BY <1>1, <2>1
<1>4. ASSUME NEW m \in Messages
      PROVE  TargetFits(target'[m], story') /\ (target'[m] # NoTarget => envelope'[m] # Unsent)
    <2>1. CASE target'[m] = target[m]
        <3>1. target[m] \in Target \cup {NoTarget} /\ TargetFits(target[m], story)
              /\ (target[m] # NoTarget => envelope[m] # Unsent)
            BY DEF CompensationInv, SagaShape, SagaTypeOK
        <3>2. TargetFits(target[m], story')
            BY <3>1, TargetFitsLasts
        <3> QED
            BY <2>1, <3>1, <3>2 DEF ChannelKeeps
    <2> QED
        BY <2>1
<1>5. RequestsAreTold'
    <2> SUFFICES ASSUME NEW m \in Messages, target'[m] # NoTarget, <<m, target'[m]>> \notin rows', m \notin cut'
                 PROVE  \E r \in Callers : saga'[r].request = m
        BY DEF RequestsAreTold, Underway
    <2>1. CASE new.request = m
        BY <1>1, <2>1
    <2>2. CASE target'[m] = target[m] /\ saga[c].request # m
        <3>1. PICK r \in Callers : saga[r].request = m
            BY <2>2 DEF CompensationInv, RequestsAreTold, Underway
        <3> QED
            BY <1>1, <2>2, <3>1
    <2> QED
        BY <2>1, <2>2
<1>6. SagaShape'
    BY <1>2, <1>3, <1>4 DEF SagaShape
<1> QED
    BY <1>5, <1>6 DEF CompensationInv, ChannelKeeps

\* A step of the channel that no command takes.
LEMMA ChannelStepsKeepSagas ==
    ASSUME CompensationInv, ChannelKeeps, UNCHANGED sagaVars
    PROVE  CompensationInv'
<1>1. SagaTypeOK'
    BY DEF CompensationInv, SagaShape, SagaTypeOK, ChannelKeeps, ChannelShape, sagaVars
<1>2. ASSUME NEW r \in Callers
      PROVE  CommandFits(saga'[r], story', target')
    BY CommandFitsLasts DEF CompensationInv, SagaShape, SagaTypeOK, sagaVars
<1>3. ASSUME NEW m \in Messages
      PROVE  TargetFits(target'[m], story') /\ (target'[m] # NoTarget => envelope'[m] # Unsent)
    BY TargetFitsLasts DEF CompensationInv, SagaShape, SagaTypeOK, sagaVars, ChannelKeeps
<1>4. RequestsAreTold'
    BY DEF CompensationInv, RequestsAreTold, Underway, sagaVars
<1>5. SagaShape'
    BY <1>1, <1>2, <1>3 DEF SagaShape
<1> QED
    BY <1>4, <1>5 DEF CompensationInv, ChannelKeeps

LEMMA CommandTypes ==
    ASSUME CompensationInv, NEW c \in Callers
    PROVE  /\ saga[c] \in Saga /\ CommandFits(saga[c], story, target)
           /\ saga[c].root \in Messages \cup {None} /\ saga[c].next \in Messages \cup {None}
           /\ saga[c].seen \subseteq Messages /\ saga[c].todo \in Seq(Messages)
           /\ saga[c].request \in Messages \cup {None}
BY DEF CompensationInv, SagaShape, SagaTypeOK, Saga

LEMMA RowTypes ==
    ASSUME CompensationInv
    PROVE  /\ target \in [Messages -> Target \cup {NoTarget}] /\ rows \subseteq Messages \X Target
           /\ walked \subseteq Messages \X Messages /\ cut \subseteq Messages /\ commands \in Nat
           /\ ChannelShape /\ StatesAreTold
BY DEF CompensationInv, SagaShape, SagaTypeOK

LEMMA NoCommand == NoSaga \in Saga /\ NoSaga.request = None /\ \A stories, targets : CommandFits(NoSaga, stories, targets)
<1>1. <<>> \in Seq(Messages) /\ DOMAIN <<>> = {}
    OBVIOUS
<1> QED
    BY <1>1 DEF NoSaga, Saga, CommandFits

LEMMA BeginKeeps ==
    ASSUME CompensationInv, NEW c \in Callers, NEW f \in Messages, BeginCompensation(c, f)
    PROVE  CompensationInv'
<1> DEFINE new == [saga[c] EXCEPT !.root = f, !.next = f]
<1>1. /\ saga[c] = NoSaga /\ inbox[f] \in Content /\ inbox[f].obligation \in FailedState
      /\ saga' = [saga EXCEPT ![c] = new] /\ commands' = commands + 1
      /\ UNCHANGED vars /\ UNCHANGED <<target, rows, walked, cut>>
    BY DEF BeginCompensation, Free
<1>2. ChannelKeeps
    BY <1>1, RowTypes, RestingKeeps
<1>3. /\ new \in Saga /\ new.root = f /\ new.request = None /\ new.todo = <<>>
    <2>1. NoSaga \in Saga
        BY NoCommand
    <2>2. new = [NoSaga EXCEPT !.root = f, !.next = f]
        BY <1>1
    <2>3. new \in Saga
        BY <2>1, <2>2 DEF Saga
    <2>4. new.root = f /\ new.request = NoSaga.request /\ new.todo = NoSaga.todo
        BY <2>1, <2>2 DEF Saga
    <2> QED
        BY <2>3, <2>4 DEF NoSaga
<1>4. Failed(story[f])
    <2>1. Held(story[f], inbox[f].obligation)
        BY <1>1, RowTypes DEF StatesAreTold, FailedState
    <2> QED
        BY <1>1, <2>1 DEF Failed
<1> HIDE DEF new
<1>5. CommandFits(new, story, target)
    <2>1. DOMAIN <<>> = {}
        OBVIOUS
    <2> QED
        BY <1>3, <1>4, <2>1, ChannelAssumption DEF CommandFits
<1>6. commands' \in Nat /\ story' = story /\ saga[c].request = None
    BY <1>1, RowTypes, NoCommand DEF vars
<1> QED
    BY <1>1, <1>2, <1>3, <1>5, <1>6, RowTypes, ChannelAssumption, CommandMoves

LEMMA ReadKeeps ==
    ASSUME CompensationInv, NEW c \in Callers, ReadAncestor(c)
    PROVE  CompensationInv'
<1> DEFINE m == saga[c].next
           parent == envelope[m].parent
           seen == saga[c].seen \cup {m}
           next == IF parent \in seen \/ Cardinality(seen) >= MaxWalk THEN None ELSE parent
           todo == IF ToUndo(c, m) THEN Append(saga[c].todo, m) ELSE saga[c].todo
           ended == [saga[c] EXCEPT !.next = None]
           read == [saga[c] EXCEPT !.next = next, !.seen = seen, !.todo = todo]
<1>1. m # None /\ UNCHANGED vars /\ UNCHANGED <<target, rows, cut, commands>>
    BY DEF ReadAncestor
<1>2. ChannelKeeps /\ story' = story
    BY <1>1, RowTypes, RestingKeeps DEF vars
<1>3. m \in Messages /\ saga[c] \in Saga /\ CommandFits(saga[c], story, target)
    BY <1>1, CommandTypes
<1>4. saga[c].root \in Messages
    BY <1>1, CommandTypes DEF CommandFits
<1>5. CASE inbox[m] \notin Content
    <2>1. saga' = [saga EXCEPT ![c] = ended] /\ walked' = walked
        BY <1>5 DEF ReadAncestor
    <2>2. /\ ended \in Saga /\ ended.root = saga[c].root /\ ended.next = None
          /\ ended.request = saga[c].request /\ ended.todo = saga[c].todo
        BY <1>3 DEF Saga
    <2> HIDE DEF ended
    <2>3. CommandFits(ended, story, target)
        BY <1>3, <2>2 DEF CommandFits
    <2> QED
        BY <1>1, <1>2, <2>1, <2>2, <2>3, RowTypes, CommandMoves
<1>6. CASE inbox[m] \in Content
    <2>1. /\ saga' = [saga EXCEPT ![c] = read]
          /\ walked' = IF ToUndo(c, m) THEN walked \cup {<<m, saga[c].root>>} ELSE walked
        BY <1>6 DEF ReadAncestor
    <2>2. parent \in Messages \cup {None}
        BY <1>3, <1>6, RowTypes, FileTypes, NoContent DEF Envelope
    <2>3. next \in Messages \cup {None} /\ seen \subseteq Messages
        BY <1>3, <2>2, CommandTypes
    <2>4. todo \in Seq(Messages)
        BY <1>3, CommandTypes
    <2>5. ToUndo(c, m) => Held(story[m], "fulfilled")
        BY <1>3, <1>6, RowTypes DEF StatesAreTold, ToUndo
    <2>6. \A n \in DOMAIN todo : Held(story[todo[n]], "fulfilled")
        <3>1. \A n \in DOMAIN saga[c].todo : Held(story[saga[c].todo[n]], "fulfilled")
            BY <1>3 DEF CommandFits
        <3> DEFINE before == saga[c].todo
        <3>2. before \in Seq(Messages)
            BY CommandTypes
        <3> HIDE DEF before
        <3>3. /\ \A n \in DOMAIN Append(before, m) : n \in DOMAIN before \/ n = Len(before) + 1
              /\ \A n \in DOMAIN before : Append(before, m)[n] = before[n]
              /\ Append(before, m)[Len(before) + 1] = m
            BY <1>3, <3>2
        <3> QED
            BY <2>5, <3>1, <3>3 DEF before
    <2>7. saga[c].request # None => todo # <<>>
        <3>1. saga[c].request # None => saga[c].todo # <<>>
            BY <1>3 DEF CommandFits
        <3> DEFINE before == saga[c].todo
        <3>2. before \in Seq(Messages)
            BY CommandTypes
        <3> HIDE DEF before
        <3>3. Append(before, m) # <<>>
            BY <1>3, <3>2
        <3> QED
            BY <3>1, <3>3 DEF before
    <2> HIDE DEF next, seen, todo
    <2>8. /\ read \in Saga /\ read.root = saga[c].root /\ read.next = next
          /\ read.request = saga[c].request /\ read.todo = todo
        BY <1>3, <2>3, <2>4 DEF Saga
    <2> HIDE DEF read
    <2>9. CommandFits(read, story, target)
        BY <1>3, <1>4, <2>6, <2>7, <2>8, ChannelAssumption DEF CommandFits
    <2>10. walked' \subseteq Messages \X Messages
        BY <1>3, <1>4, <2>1, RowTypes
    <2> HIDE DEF m
    <2> QED
        BY <1>1, <1>2, <2>1, <2>8, <2>9, <2>10, RowTypes, CommandMoves
<1> QED
    BY <1>5, <1>6

LEMMA AskKeeps ==
    ASSUME CompensationInv, NEW c \in Callers, NEW m \in Messages, RequestCompensation(c, m)
    PROVE  CompensationInv'
<1> DEFINE new == [saga[c] EXCEPT !.request = m]
           about == [ancestor |-> Head(saga[c].todo), root |-> saga[c].root]
<1>1. /\ saga[c].root # None /\ saga[c].request = None /\ saga[c].todo # <<>>
      /\ SendMessage(c, m, m, saga[c].root, "pending")
      /\ saga' = [saga EXCEPT ![c] = new] /\ target' = [target EXCEPT ![m] = about]
      /\ UNCHANGED <<rows, walked, cut, commands>>
    BY DEF RequestCompensation, Between
<1>2. saga[c].root \in Messages /\ saga[c] \in Saga /\ saga[c].todo \in Seq(Messages)
      /\ CommandFits(saga[c], story, target)
    BY <1>1, CommandTypes
<1>3. ChannelKeeps
    <2>1. Sends(c)
        BY <1>1, <1>2 DEF Sends
    <2> QED
        BY <2>1, RowTypes, SendKeeps
<1>4. story' = story /\ envelope[m] = Unsent /\ envelope'[m] # Unsent
    <2>1. envelope' = [envelope EXCEPT ![m] = [thread |-> m, parent |-> saga[c].root]] /\ story' = story
          /\ envelope[m] = Unsent
        BY <1>1 DEF SendMessage
    <2>2. envelope'[m] = [thread |-> m, parent |-> saga[c].root]
        BY <2>1, RowTypes, FileTypes
    <2>3. [thread |-> m, parent |-> saga[c].root] # Unsent
        BY ChannelAssumption DEF Unsent
    <2> QED
        BY <2>1, <2>2, <2>3
<1>5. /\ Head(saga[c].todo) \in Messages /\ Head(saga[c].todo) = saga[c].todo[1] /\ 1 \in DOMAIN saga[c].todo
    BY <1>1, <1>2
<1>6. /\ about \in Target /\ about.ancestor = Head(saga[c].todo) /\ about.root = saga[c].root
    BY <1>2, <1>5 DEF Target
<1>7. /\ new \in Saga /\ new.root = saga[c].root /\ new.request = m /\ new.todo = saga[c].todo
    BY <1>2 DEF Saga
<1> HIDE DEF new, about
<1>8. TargetFits(about, story)
    BY <1>2, <1>5, <1>6, ChannelAssumption DEF TargetFits, CommandFits
<1>9. /\ target' \in [Messages -> Target \cup {NoTarget}] /\ target'[m] = about
      /\ \A n \in Messages \ {m} : target'[n] = target[n]
    BY <1>1, <1>6, RowTypes
<1>10. CommandFits(new, story, target')
    BY <1>1, <1>2, <1>6, <1>7, <1>9, ChannelAssumption DEF CommandFits
<1>11. target[m] = NoTarget
    BY <1>4 DEF CompensationInv, SagaShape
<1>12. \A n \in Messages :
          \/ target'[n] = target[n]
          \/ target[n] = NoTarget /\ TargetFits(target'[n], story') /\ envelope'[n] # Unsent
    BY <1>4, <1>8, <1>9, <1>11
<1>13. \A n \in Messages : target'[n] # NoTarget =>
          \/ target'[n] = target[n] /\ saga[c].request # n
          \/ new.request = n
          \/ <<n, target'[n]>> \in rows'
          \/ n \in cut'
    BY <1>1, <1>7, <1>9, ChannelAssumption
<1>14. /\ rows' \subseteq Messages \X Target /\ rows \subseteq rows' /\ walked' \subseteq Messages \X Messages
       /\ cut' \subseteq Messages /\ cut \subseteq cut' /\ commands' \in Nat
    BY <1>1, RowTypes
<1>15. saga' = [saga EXCEPT ![c] = new] /\ target' \in [Messages -> Target \cup {NoTarget}] /\ new \in Saga
    BY <1>1, <1>7, <1>9
<1>16. CommandFits(new, story', target')
    BY <1>4, <1>10
<1> QED
    BY <1>3, <1>12, <1>13, <1>14, <1>15, <1>16, CommandMoves

LEMMA RecordKeeps ==
    ASSUME CompensationInv, NEW c \in Callers, RecordCompensation(c)
    PROVE  CompensationInv'
<1> DEFINE m == saga[c].request
           new == [saga[c] EXCEPT !.todo = Tail(saga[c].todo), !.request = None]
<1>1. /\ m # None /\ rows' = rows \cup {<<m, target[m]>>} /\ saga' = [saga EXCEPT ![c] = new]
      /\ UNCHANGED vars /\ UNCHANGED <<target, walked, cut, commands>>
    BY DEF RecordCompensation
<1>2. ChannelKeeps /\ story' = story
    BY <1>1, RowTypes, RestingKeeps DEF vars
<1>3. /\ m \in Messages /\ saga[c] \in Saga /\ saga[c].todo \in Seq(Messages) /\ CommandFits(saga[c], story, target)
    BY <1>1, CommandTypes
<1>4. saga[c].todo # <<>> /\ target[m] \in Target
    BY <1>1, <1>3 DEF CommandFits
<1> DEFINE left == Tail(saga[c].todo)
<1>5. left \in Seq(Messages) /\ \A n \in DOMAIN left : n + 1 \in DOMAIN saga[c].todo /\ left[n] = saga[c].todo[n + 1]
    BY <1>3, <1>4
<1> HIDE DEF left
<1>6. /\ new \in Saga /\ new.root = saga[c].root /\ new.next = saga[c].next /\ new.request = None /\ new.todo = left
    BY <1>3, <1>5 DEF Saga, left
<1> HIDE DEF new
<1>7. CommandFits(new, story, target)
    BY <1>3, <1>5, <1>6 DEF CommandFits
<1>8. rows' \subseteq Messages \X Target
    BY <1>1, <1>3, <1>4, RowTypes
<1> QED
    BY <1>1, <1>2, <1>6, <1>7, <1>8, RowTypes, CommandMoves

\* A command ends, refused or done.
LEMMA EndKeeps ==
    ASSUME CompensationInv, NEW c \in Callers, saga[c].request = None, saga' = [saga EXCEPT ![c] = NoSaga],
           UNCHANGED <<vars, target, rows, walked, cut, commands>>
    PROVE  CompensationInv'
<1>1. ChannelKeeps
    BY RowTypes, RestingKeeps DEF vars
<1> QED
    BY <1>1, RowTypes, NoCommand, ChannelAssumption, CommandMoves

LEMMA CrashKeeps ==
    ASSUME CompensationInv, NEW c \in Callers, CrashCaller(c)
    PROVE  CompensationInv'
<1>1. ChannelKeeps
    BY RowTypes, DyingKeeps DEF CrashCaller
<1>2. /\ cut' = cut \cup ({saga[c].request} \ {None})
      /\ cut' \subseteq Messages
    BY RowTypes, CommandTypes DEF CrashCaller
<1>3. saga' = [saga EXCEPT ![c] = NoSaga] /\ UNCHANGED <<story, target, rows, walked, commands>>
    BY DEF CrashCaller
<1> QED
    BY <1>1, <1>2, <1>3, RowTypes, NoCommand, CommandMoves

LEMMA SagaStepKeeps ==
    ASSUME CompensationInv, [SagaNext]_allVars
    PROVE  CompensationInv'
<1>1. ASSUME NEW c \in Callers, NEW m \in Messages, Request(c, m), UNCHANGED sagaVars
      PROVE  CompensationInv'
    <2>1. ChannelKeeps
        BY <1>1, RowTypes, RequestKeeps
    <2>2. crashes' = crashes
        BY <1>1 DEF Request, SendMessage, UpdateObligation, UpdateStatus
    <2> QED
        BY <1>1, <2>1, <2>2, ChannelStepsKeepSagas
<1>2. ASSUME NEW c \in Callers, WriteStep(c), UNCHANGED sagaVars
      PROVE  CompensationInv'
    <2>1. ChannelKeeps
        BY <1>2, RowTypes, WriteStepKeeps
    <2>2. crashes' = crashes
        BY <1>2 DEF WriteStep, OpenInbox, WriteInbox, OpenMirror, WriteMirror, AppendTransition
    <2> QED
        BY <1>2, <2>1, <2>2, ChannelStepsKeepSagas
<1>3. ASSUME NEW c \in Callers, CallerStep(c)
      PROVE  CompensationInv'
    <2>1. CASE RefuseCompensation(c)
        BY <2>1, EndKeeps DEF RefuseCompensation, Between
    <2>2. CASE EndCompensation(c)
        BY <2>2, EndKeeps DEF EndCompensation, Between
    <2> QED
        BY <1>2, <1>3, <2>1, <2>2, ReadKeeps, AskKeeps, RecordKeeps DEF CallerStep
<1>4. CASE UNCHANGED allVars
    <2>1. UNCHANGED vars /\ UNCHANGED sagaVars
        BY <1>4 DEF allVars, vars, sagaVars
    <2>2. ChannelKeeps
        BY <2>1, RowTypes, RestingKeeps
    <2> QED
        BY <2>1, <2>2, ChannelStepsKeepSagas
<1> QED
    BY <1>1, <1>3, <1>4, BeginKeeps, CrashKeeps DEF SagaNext

LEMMA SagasStart == SagaInit => CompensationInv
<1> SUFFICES ASSUME SagaInit
             PROVE  CompensationInv
    OBVIOUS
<1>1. ChannelShape /\ StatesAreTold
    BY ChannelStarts DEF SagaInit
<1>2. SagaTypeOK
    BY <1>1, NoCommand DEF SagaInit, SagaTypeOK, ChannelShape
<1>3. \A c \in Callers : CommandFits(saga[c], story, target)
    BY NoCommand DEF SagaInit
<1>4. \A m \in Messages : target[m] = NoTarget
    BY DEF SagaInit
<1> QED
    BY <1>1, <1>2, <1>3, <1>4 DEF CompensationInv, SagaShape, TargetFits, RequestsAreTold

\* For every number of operators and callers: a request to undo is about work
\* that was fulfilled, for an obligation that was refused or had expired, though
\* compensate_failed_obligation asks after others have moved on.
THEOREM OnlyDoneIsUndone == SagaSpec => []OnlyDoneWorkIsUndone
<1>1. CompensationInv => OnlyDoneWorkIsUndone
    <2> SUFFICES ASSUME CompensationInv, NEW m \in Messages, target[m] # NoTarget
                 PROVE  /\ "fulfilled" \in {story[target[m].ancestor][n] : n \in DOMAIN story[target[m].ancestor]}
                        /\ FailedState \cap {story[target[m].root][n] : n \in DOMAIN story[target[m].root]} # {}
        BY DEF OnlyDoneWorkIsUndone
    <2>1. Held(story[target[m].ancestor], "fulfilled") /\ Failed(story[target[m].root])
        BY DEF CompensationInv, SagaShape, TargetFits
    <2> QED
        BY <2>1 DEF Held, Failed
<1> QED
    BY <1>1, SagasStart, SagaStepKeeps, PTL DEF SagaSpec

\* list_active_sagas shows every request that is in flight once its command is
\* past it, but those whose own command died between the request and its row.
THEOREM ActiveSagasAreListed == SagaSpec => []ListedUnlessInterrupted
<1>1. CompensationInv => ListedUnlessInterrupted
    <2> SUFFICES ASSUME CompensationInv, NEW m \in Messages, target[m] # NoTarget, ~Underway(m), m \notin cut,
                        inbox[m] \in Content, inbox[m].obligation \notin TerminalState
                 PROVE  target[m].root \in ListActiveSagas
        BY DEF ListedUnlessInterrupted
    <2> DEFINE row == <<m, target[m]>>
    <2>1. row \in rows /\ row[1] = m /\ row[2] = target[m]
        BY DEF CompensationInv, RequestsAreTold
    <2>2. inbox[m].obligation \notin {"fulfilled", "refused"}
        BY ObligationStates DEF TerminalState, Transitions
    <2> HIDE DEF row
    <2>3. row \in {x \in rows : inbox[x[1]] \in Content /\ inbox[x[1]].obligation \notin {"fulfilled", "refused"}}
        BY <2>1, <2>2
    <2> QED
        BY <2>1, <2>3 DEF ListActiveSagas
<1> QED
    BY <1>1, SagasStart, SagaStepKeeps, PTL DEF SagaSpec

\* Commands, requests and rows are what saga_compensation.py reads and writes.
THEOREM SagaTypeCorrect == SagaSpec => []SagaTypeOK
<1>1. CompensationInv => SagaTypeOK
    BY DEF CompensationInv, SagaShape
<1> QED
    BY <1>1, SagasStart, SagaStepKeeps, PTL DEF SagaSpec
=============================================================================
