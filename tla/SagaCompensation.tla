-------------------------- MODULE SagaCompensation --------------------------
(***************************************************************************)
(* Saga compensation (orchestration/saga_compensation.py) over the agent   *)
(* channel: when an obligation has failed, an operator's command walks its *)
(* chain of parents and sends the actor of each fulfilled ancestor a       *)
(* request to undo it, followed by a row in the transition log.            *)
(*                                                                         *)
(* The walk reads one inbox file at a time, and what it has found is used  *)
(* afterwards, while receivers go on moving their obligations and other    *)
(* operators run the command as well.                                      *)
(***************************************************************************)
EXTENDS AgentChannels

CONSTANTS
    MaxWalk,     \* _walk_parent_chain's max_depth
    MaxCommands  \* bound: compensate commands

ASSUME SagaAssumption == MaxWalk \in Nat \ {0} /\ MaxCommands \in Nat

VARIABLES
    saga,   \* saga[c]: the command caller c runs
    target, \* target[m]: the ancestor and the failure a request is about
    rows,   \* the saga.compensation_emitted rows
    walked, \* history: <<ancestor, failure>>: what walks found to be undone
    cut,    \* history: requests whose command died before their row
    commands \* compensate commands so far

sagaVars == <<saga, target, rows, walked, cut, commands>>
allVars  == <<envelope, inbox, mirror, call, log, story, hidden, crashes,
             saga, target, rows, walked, cut, commands>>

\* next: the message that the walk reads next; seen: those it has read; todo:
\* the ancestors to ask; request: the request that was sent and has no row yet.
NoSaga   == [root |-> None, next |-> None, seen |-> {}, todo |-> <<>>, request |-> None]
Saga     == [root : Messages \cup {None}, next : Messages \cup {None}, seen : SUBSET Messages,
             todo : Seq(Messages), request : Messages \cup {None}]
NoTarget == [ancestor |-> None, root |-> None]
Target   == [ancestor : Messages, root : Messages]

SagaTypeOK ==
    /\ TypeOK
    /\ saga \in [Callers -> Saga]
    /\ target \in [Messages -> Target \cup {NoTarget}]
    /\ rows \subseteq Messages \X Target
    /\ walked \subseteq Messages \X Messages
    /\ cut \subseteq Messages
    /\ commands \in Nat

SagaInit ==
    /\ Init
    /\ saga = [c \in Callers |-> NoSaga]
    /\ target = [m \in Messages |-> NoTarget]
    /\ rows = {}
    /\ walked = {}
    /\ cut = {}
    /\ commands = 0

-----------------------------------------------------------------------------
FailedState == {"refused", "expired"}

Free(c) == call[c] = Idle /\ saga[c] = NoSaga

\* compensate_failed_obligation: the failure is read, and then the chain.
BeginCompensation(c, f) ==
    /\ Free(c)
    /\ inbox[f] \in Content
    /\ inbox[f].obligation \in FailedState
    /\ commands < MaxCommands
    /\ commands' = commands + 1
    /\ saga' = [saga EXCEPT ![c].root = f, ![c].next = f]
    /\ UNCHANGED <<vars, target, rows, walked, cut>>

\* Mutant: every ancestor is asked, fulfilled or not.
ToUndo_All(c, m) == m # saga[c].root

ToUndo(c, m) == m # saga[c].root /\ inbox[m].obligation = "fulfilled"

\* _walk_parent_chain: the walk reads the failure once more, and its ancestors;
\* it ends where a file does not parse, at a message it has seen, and at its limit.
ReadAncestor(c) ==
    LET m == saga[c].next
        parent == envelope[m].parent
        seen == saga[c].seen \cup {m}
    IN  /\ call[c] = Idle /\ m # None
        /\ IF inbox[m] \notin Content
           THEN saga' = [saga EXCEPT ![c].next = None] /\ UNCHANGED walked
           ELSE /\ saga' = [saga EXCEPT
                     ![c].next = IF parent \in seen \/ Cardinality(seen) >= MaxWalk THEN None ELSE parent,
                     ![c].seen = seen,
                     ![c].todo = IF ToUndo(c, m) THEN Append(@, m) ELSE @]
                /\ walked' = IF ToUndo(c, m) THEN walked \cup {<<m, saga[c].root>>} ELSE walked
        /\ UNCHANGED <<vars, target, rows, cut, commands>>

Between(c) ==
    call[c] = Idle /\ saga[c].root # None /\ saga[c].next = None /\ saga[c].request = None

\* The next ancestor's request, in a thread of its own and a child of the failure.
RequestCompensation(c, m) ==
    /\ Between(c)
    /\ saga[c].todo # <<>>
    /\ SendMessage(c, m, m, saga[c].root, "pending")
    /\ saga' = [saga EXCEPT ![c].request = m]
    /\ target' = [target EXCEPT ![m] =
         [ancestor |-> Head(saga[c].todo), root |-> saga[c].root]]
    /\ UNCHANGED <<rows, walked, cut, commands>>

\* The loop guard refuses the request: the exception ends the command.
RefuseCompensation(c) ==
    /\ Between(c)
    /\ saga[c].todo # <<>>
    /\ ParentDepth[saga[c].root] >= MaxParentDepth
    /\ saga' = [saga EXCEPT ![c] = NoSaga]
    /\ UNCHANGED <<vars, target, rows, walked, cut, commands>>

\* Mutant: the loop moves on by two.
RecordCompensation_SkipsOne(c) ==
    /\ call[c] = Idle
    /\ saga[c].request # None
    /\ rows' = rows \cup {<<saga[c].request, target[saga[c].request]>>}
    /\ saga' = [saga EXCEPT ![c].todo = IF Len(@) > 1 THEN Tail(Tail(@)) ELSE <<>>,
                            ![c].request = None]
    /\ UNCHANGED <<vars, target, walked, cut, commands>>

\* The request is out; its row follows.
RecordCompensation(c) ==
    /\ call[c] = Idle
    /\ saga[c].request # None
    /\ rows' = rows \cup {<<saga[c].request, target[saga[c].request]>>}
    /\ saga' = [saga EXCEPT ![c].todo = Tail(@), ![c].request = None]
    /\ UNCHANGED <<vars, target, walked, cut, commands>>

EndCompensation(c) ==
    /\ Between(c)
    /\ saga[c].todo = <<>>
    /\ saga' = [saga EXCEPT ![c] = NoSaga]
    /\ UNCHANGED <<vars, target, rows, walked, cut, commands>>

CrashCaller(c) ==
    /\ ~Free(c)
    /\ crashes < MaxCrashes
    /\ crashes' = crashes + 1
    /\ call' = [call EXCEPT ![c] = Idle]
    /\ saga' = [saga EXCEPT ![c] = NoSaga]
    /\ cut' = cut \cup ({saga[c].request} \ {None})
    /\ UNCHANGED <<envelope, inbox, mirror, log, story, hidden, target, rows, walked, commands>>

CallerStep(c) ==
    \/ WriteStep(c) /\ UNCHANGED sagaVars
    \/ ReadAncestor(c)
    \/ \E m \in Messages : RequestCompensation(c, m)
    \/ RefuseCompensation(c)
    \/ RecordCompensation(c)
    \/ EndCompensation(c)

SagaNext == \E c \in Callers :
    \/ \E m \in Messages : Free(c) /\ Request(c, m) /\ UNCHANGED sagaVars
    \/ \E f \in Messages : BeginCompensation(c, f)
    \/ CallerStep(c)
    \/ CrashCaller(c)

SagaSpec == SagaInit /\ [][SagaNext]_allVars

\* A call that is under way goes on.
LiveSagaSpec == SagaSpec /\ \A c \in Callers : WF_allVars(CallerStep(c))

-----------------------------------------------------------------------------
(* The operator's view                                                     *)

\* Mutant: only a request nobody has touched keeps a saga active.
ListActiveSagas_Untouched ==
    {r[2].root : r \in {x \in rows : inbox[x[1]] \in Content
                                     /\ inbox[x[1]].obligation = "pending"}}

\* list_active_sagas
ListActiveSagas ==
    {r[2].root : r \in {x \in rows : inbox[x[1]] \in Content
                           /\ inbox[x[1]].obligation \notin {"fulfilled", "refused"}}}

-----------------------------------------------------------------------------
(* Safety                                                                  *)

\* The chain from m up, cut where a message's inbox file does not parse.
ParentChain[m \in Messages \cup {None}] ==
    IF m = None \/ inbox[m] \notin Content THEN <<>>
    ELSE <<m>> \o ParentChain[envelope[m].parent]

\* What a walk finds that nothing happens to on the way.
FulfilledAncestors(m) ==
    SelectSeq(Tail(SubSeq(ParentChain[m], 1,
                          IF Len(ParentChain[m]) < MaxWalk THEN Len(ParentChain[m]) ELSE MaxWalk)),
              LAMBDA a : inbox[a].obligation = "fulfilled")

Underway(m) == \E c \in Callers : saga[c].request = m

\* A request to undo is about work that was done, above an obligation that
\* failed, whatever has happened since the walk.
OnlyDoneWorkIsUndone ==
    \A m \in Messages : target[m] # NoTarget =>
        /\ "fulfilled" \in {story[target[m].ancestor][n] : n \in DOMAIN story[target[m].ancestor]}
        /\ FailedState \cap {story[target[m].root][n] : n \in DOMAIN story[target[m].root]} # {}

\* Docstring of list_active_sagas: "every chain that has at least one
\* compensating request in flight", once its sender has got past it.
InFlightIsListed ==
    \A m \in Messages :
        (target[m] # NoTarget /\ ~Underway(m)
            /\ inbox[m] \in Content /\ inbox[m].obligation \notin TerminalState)
        => target[m].root \in ListActiveSagas

\* The same of every request but those whose own command died before the row:
\* what others do, or die of, hides none.
ListedUnlessInterrupted ==
    \A m \in Messages :
        (target[m] # NoTarget /\ ~Underway(m) /\ m \notin cut
            /\ inbox[m] \in Content /\ inbox[m].obligation \notin TerminalState)
        => target[m].root \in ListActiveSagas

\* tests/test_saga_compensation.py:4-5: one request per fulfilled ancestor.
OneRequestPerAncestor ==
    \A m, n \in Messages :
        target[m] # NoTarget /\ target[m] = target[n]
            /\ inbox[m] # Absent /\ inbox[n] # Absent => m = n

\* a2a.md:239: when an obligation has failed, each fulfilled ancestor is sent
\* a request; so the channel must take it.
FailureCanBeCompensated ==
    \A f, m \in Messages :
        (inbox[f] \in Content /\ inbox[f].obligation \in FailedState
            /\ FulfilledAncestors(f) # <<>> /\ envelope[m] = Unsent)
        => WithinLimits(m, f)

\* a2a.md:237: a chain either all succeeds or is all undone: once a failure
\* has been compensated for, no ancestor is fulfilled that was not asked.
AllUndone ==
    \A f \in Messages :
        (\E r \in rows : r[2].root = f) /\ (\A c \in Callers : Free(c))
        => \A a \in {FulfilledAncestors(f)[n] : n \in DOMAIN FulfilledAncestors(f)} :
             \E m \in Messages : target[m] = [ancestor |-> a, root |-> f]

(* Liveness                                                                *)

\* Every ancestor a walk has found is sent its request.
EveryAncestorIsAsked ==
    \A a, f \in Messages :
        <<a, f>> \in walked ~>
        \E m \in Messages : target[m] = [ancestor |-> a, root |-> f] /\ inbox[m] \in Content
=============================================================================
