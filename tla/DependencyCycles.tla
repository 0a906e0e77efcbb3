--------------------------- MODULE DependencyCycles ---------------------------
(***************************************************************************)
(* check_dependency_cycles (orchestration/artifact_dependencies.py): a     *)
(* search of the graph in which a task points to the tasks that promise an *)
(* artifact it awaits.  The neighbours of a task are a set, and are looked *)
(* at in any order.                                                        *)
(***************************************************************************)
EXTENDS Naturals, Sequences, FiniteSets

CONSTANTS
    Tasks,
    Keys,      \* artifact keys
    Promises   \* Promises[t]: the artifacts that task t promises

ASSUME PromisesAssumption == Promises \in [Tasks -> SUBSET Keys]

VARIABLES
    awaits,  \* awaits[t]: the artifacts that task t awaits
    colour,  \* WHITE, GRAY while a task is on the stack, and BLACK
    left,    \* left[t]: the neighbours of t that were not looked at yet
    stack,
    cycles   \* the cycles that were reported

cycleVars == <<awaits, colour, left, stack, cycles>>

-----------------------------------------------------------------------------
(* The graph.                                                              *)

\* A task that awaits its own artifact is not an edge.
Edge(t, u) == t # u /\ awaits[t] \cap Promises[u] # {}
Neighbours(t) == {u \in Tasks : Edge(t, u)}

-----------------------------------------------------------------------------
(* The search.                                                             *)

Top == stack[Len(stack)]
IndexOf(t) == CHOOSE i \in 1 .. Len(stack) : stack[i] = t

Visit(t) ==
    /\ colour' = [colour EXCEPT ![t] = "GRAY"]
    /\ stack' = Append(stack, t)

CycleInit ==
    /\ awaits \in [Tasks -> SUBSET Keys]
    /\ colour = [t \in Tasks |-> "WHITE"]
    /\ left = [t \in Tasks |-> Neighbours(t)]
    /\ stack = <<>>
    /\ cycles = {}

\* The outer loop: the search starts at the tasks that await something.
StartAt(t) ==
    /\ stack = <<>>
    /\ colour[t] = "WHITE"
    /\ awaits[t] # {}
    /\ Visit(t)
    /\ UNCHANGED <<awaits, left, cycles>>

\* Mutant: what was looked at before is no cycle.
Look_OnlyNew(u) ==
    /\ stack # <<>>
    /\ u \in left[Top]
    /\ left' = [left EXCEPT ![Top] = @ \ {u}]
    /\ IF colour[u] = "WHITE" THEN Visit(u) ELSE UNCHANGED <<colour, stack>>
    /\ cycles' = IF colour[u] = "BLACK"
                 THEN cycles \cup {<<u, Top, u>>} ELSE cycles
    /\ UNCHANGED awaits

\* dfs looks at the next neighbour: one on the stack closes a cycle, one that
\* was never seen is searched first.
Look(u) ==
    /\ stack # <<>>
    /\ u \in left[Top]
    /\ left' = [left EXCEPT ![Top] = @ \ {u}]
    /\ IF colour[u] = "WHITE" THEN Visit(u) ELSE UNCHANGED <<colour, stack>>
    /\ cycles' = IF colour[u] = "GRAY"
                 THEN cycles \cup {Append(SubSeq(stack, IndexOf(u), Len(stack)), u)} ELSE cycles
    /\ UNCHANGED awaits

\* dfs returns.
Leave ==
    /\ stack # <<>>
    /\ left[Top] = {}
    /\ colour' = [colour EXCEPT ![Top] = "BLACK"]
    /\ stack' = SubSeq(stack, 1, Len(stack) - 1)
    /\ UNCHANGED <<awaits, left, cycles>>

CycleNext ==
    \/ \E t \in Tasks : StartAt(t) \/ Look(t)
    \/ Leave
CycleSpec == CycleInit /\ [][CycleNext]_cycleVars

-----------------------------------------------------------------------------
(* Properties.                                                             *)

Finished == stack = <<>> /\ \A t \in Tasks : awaits[t] # {} => colour[t] = "BLACK"

\* Everybody in a knot awaits somebody in it.
Knot(knot) == knot # {} /\ \A t \in knot : \E u \in knot : Edge(t, u)

\* Type invariant of the search.
CycleTypeOK ==
    /\ awaits \in [Tasks -> SUBSET Keys]
    /\ colour \in [Tasks -> {"WHITE", "GRAY", "BLACK"}]
    /\ left \in [Tasks -> SUBSET Tasks]
    /\ stack \in Seq(Tasks)
    /\ cycles \subseteq Seq(Tasks)

\* What is reported is a cycle: each task awaits the next, and the last is the
\* first.
CyclesAreReal ==
    \A cycle \in cycles :
        /\ Len(cycle) > 1 /\ cycle[1] = cycle[Len(cycle)]
        /\ \A i \in 1 .. Len(cycle) - 1 : Edge(cycle[i], cycle[i + 1])

\* When the search is over, a cycle was reported if and only if some tasks
\* await one another for ever, in whatever order neighbours were taken.
DeadlocksAreReported ==
    Finished => (cycles # {} <=> \E knot \in SUBSET Tasks : Knot(knot))

\* Stated, and violated: test_artifact_dependencies.py looks for all three
\* tasks of a cycle in what is reported.  Once a task is BLACK the search does
\* not see the other cycles that lead through it.
EveryMemberIsNamed ==
    Finished => \A t, u, v \in Tasks :
        Edge(t, u) /\ Edge(u, v) /\ Edge(v, t) => \E cycle \in cycles : t \in {cycle[i] : i \in 1 .. Len(cycle)}
=============================================================================
