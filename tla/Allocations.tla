----------------------------- MODULE Allocations -----------------------------
(***************************************************************************)
(* Allocation decisions (orchestration/resource_allocation.py): amounts of *)
(* a resource moved between operating units, or out of the reserve.  A     *)
(* decision is a row of one file, which is changed under an exclusive lock *)
(* and read without it; the kernel event follows when the lock is free.    *)
(* The ledger is what the applied decisions add up to.                     *)
(***************************************************************************)
EXTENDS RecordLog, Integers

CONSTANTS
    Offices,        \* threads that serve requests
    AllocationIds,
    Units,          \* operating units, and the reserve
    MaxAmount,
    MaxAllocationCalls, \* bound: calls made
    MaxOfficeDeaths     \* bound: offices that die in a call

VARIABLES
    allocationLog,   \* allocation_decisions.jsonl
    allocationLock,  \* who holds the lock on it
    allocationCall,  \* allocationCall[c]: the call c is in
    allocationCalls, \* bound: calls made
    allocationEvents, \* the kernel events of decisions
    officeDeaths,    \* bound: offices that died in a call
    summaries        \* history: the answers to readers of the ledger

allocationVars ==
    <<allocationLog, allocationLock, allocationCall, allocationCalls, allocationEvents,
      officeDeaths, summaries>>

Move == {m \in [from : Units, to : Units, amount : 1 .. MaxAmount] : m.from # m.to}
Statuses == {"proposed", "applied", "reverted"}
Allocation == [id : AllocationIds, move : Move, status : Statuses]

\* A call: what it asks for, and what it has read.
AllocationCall ==
    [at : {"append", "take", "open", "fill", "emit", "sum"}, id : AllocationIds \cup {None},
     verb : Statuses \cup {"summary"}, rows : Seq(Allocation), new : Allocation \cup {None},
     seen : Seq(Allocation) \cup {None}]

ASSUME AllocationAssumption ==
    None \notin Offices /\ None \notin AllocationCall /\ {Absent, Torn} \cap Seq(Allocation) = {}

AllocationInit ==
    /\ allocationLog = Absent
    /\ allocationLock = None
    /\ allocationCall = [c \in Offices |-> None]
    /\ allocationCalls = 0
    /\ allocationEvents = {}
    /\ officeDeaths = 0
    /\ summaries = {}

-----------------------------------------------------------------------------
(* The ledger.                                                             *)

Applied(rows) == SelectSeq(rows, LAMBDA row : row.status = "applied")
Total(rows) == FoldLeft(LAMBDA sum, row : sum + row.move.amount, 0, rows)

\* current_allocation: what a unit has gained less what it has lost.
Ledger(rows) ==
    [u \in Units |->
        Total(SelectSeq(Applied(rows), LAMBDA row : row.move.to = u))
        - Total(SelectSeq(Applied(rows), LAMBDA row : row.move.from = u))]

\* The status that a transition asks for.
FromStatus(verb) == IF verb = "applied" THEN {"proposed"} ELSE {"applied"}

-----------------------------------------------------------------------------
(* Calls.                                                                  *)

OfficeAt(c, at) == allocationCall[c] # None /\ allocationCall[c].at = at
OfficeGoes(c, at) == allocationCall' = [allocationCall EXCEPT ![c].at = at]
OfficeEnds(c) == allocationCall' = [allocationCall EXCEPT ![c] = None]

BeginAllocation(c, call) ==
    /\ allocationCalls < MaxAllocationCalls
    /\ allocationCall[c] = None
    /\ allocationCalls' = allocationCalls + 1
    /\ allocationCall' = [allocationCall EXCEPT ![c] = call]
    /\ UNCHANGED <<allocationLog, allocationLock, allocationEvents, officeDeaths, summaries>>

\* A decision_id that the service makes is one that nobody has used.
Unused(i) ==
    /\ \A event \in allocationEvents : event.id # i
    /\ \A row \in ToSet(RowsOf(allocationLog)) : row.id # i
    /\ \A c \in Offices : allocationCall[c] # None => allocationCall[c].id # i

\* record_allocation_decision
RecordAllocation(c, i, move) ==
    /\ Unused(i)
    /\ BeginAllocation(c, [at |-> "append", id |-> i, verb |-> "proposed", rows |-> <<>>,
                           new |-> [id |-> i, move |-> move, status |-> "proposed"], seen |-> None])

\* apply_allocation_decision, revert_allocation_decision
ChangeAllocation(c, i, verb) ==
    /\ ~Unused(i)
    /\ BeginAllocation(c, [at |-> "take", id |-> i, verb |-> verb, rows |-> <<>>,
                           new |-> None, seen |-> None])

AppendAllocation(c) ==
    /\ OfficeAt(c, "append")
    /\ allocationLock = None
    /\ allocationLog' = Appended(allocationLog, allocationCall[c].new)
    /\ OfficeGoes(c, "emit")
    /\ UNCHANGED <<allocationLock, allocationCalls, allocationEvents, officeDeaths, summaries>>

\* Mutant: the decision is looked at before the lock is held.
TakeAllocation_Unlocked(c) ==
    /\ OfficeAt(c, "take")
    /\ LET call == allocationCall[c]
           rows == RowsOf(allocationLog)
       IN IF Mentions(rows, call.id) /\ FirstFor(rows, call.id).status \in FromStatus(call.verb)
          THEN /\ allocationLock' = c
               /\ allocationCall' = [allocationCall EXCEPT ![c].at = "open",
                      ![c].rows = WithRow(rows, call.id,
                                    [FirstFor(rows, call.id) EXCEPT !.status = call.verb])]
          ELSE OfficeEnds(c) /\ UNCHANGED allocationLock
    /\ UNCHANGED <<allocationLog, allocationCalls, allocationEvents, officeDeaths, summaries>>

\* _mutate: under the lock the rows are read, and the transition made or refused.
TakeAllocation(c) ==
    /\ OfficeAt(c, "take")
    /\ allocationLock = None
    /\ LET call == allocationCall[c]
           rows == RowsOf(allocationLog)
       IN IF Mentions(rows, call.id) /\ FirstFor(rows, call.id).status \in FromStatus(call.verb)
          THEN /\ allocationLock' = c
               /\ allocationCall' = [allocationCall EXCEPT ![c].at = "open",
                      ![c].rows = WithRow(rows, call.id,
                                    [FirstFor(rows, call.id) EXCEPT !.status = call.verb])]
          ELSE OfficeEnds(c) /\ UNCHANGED allocationLock
    /\ UNCHANGED <<allocationLog, allocationCalls, allocationEvents, officeDeaths, summaries>>

OpenAllocations(c) ==
    /\ OfficeAt(c, "open")
    /\ allocationLog' = <<>>
    /\ OfficeGoes(c, "fill")
    /\ UNCHANGED <<allocationLock, allocationCalls, allocationEvents, officeDeaths, summaries>>

\* The rows are written, and the lock is released.
FillAllocations(c) ==
    /\ OfficeAt(c, "fill")
    /\ allocationLog' \in FilledOver(allocationLog, allocationCall[c].rows)
    /\ allocationLock' = None
    /\ OfficeGoes(c, "emit")
    /\ UNCHANGED <<allocationCalls, allocationEvents, officeDeaths, summaries>>

EmitAllocation(c) ==
    /\ OfficeAt(c, "emit")
    /\ allocationEvents' = allocationEvents \cup {[id |-> allocationCall[c].id, verb |-> allocationCall[c].verb]}
    /\ OfficeEnds(c)
    /\ UNCHANGED <<allocationLog, allocationLock, allocationCalls, officeDeaths, summaries>>

\* The office dies; the lock goes with its file handle.
OfficeDies(c) ==
    /\ officeDeaths < MaxOfficeDeaths
    /\ allocationCall[c] # None
    /\ officeDeaths' = officeDeaths + 1
    /\ allocationLock' = IF allocationLock = c THEN None ELSE allocationLock
    /\ OfficeEnds(c)
    /\ UNCHANGED <<allocationLog, allocationCalls, allocationEvents, summaries>>

\* GET /kernel/allocation-ledger: allocation_summary reads the file once to
\* count the decisions, ...
AskSummary(c) ==
    /\ Readable(allocationLog)
    /\ BeginAllocation(c, [at |-> "sum", id |-> None, verb |-> "summary", rows |-> <<>>,
                           new |-> None, seen |-> RowsOf(allocationLog)])

\* ... and once more, in current_allocation, for the ledger.
AnswerSummary(c) ==
    /\ OfficeAt(c, "sum")
    /\ Readable(allocationLog)
    /\ summaries' = summaries \cup
         {[counted |-> Len(Applied(allocationCall[c].seen)), ledger |-> Ledger(RowsOf(allocationLog))]}
    /\ OfficeEnds(c)
    /\ UNCHANGED <<allocationLog, allocationLock, allocationCalls, allocationEvents, officeDeaths>>

AllocationRecordStep(c) == \E i \in AllocationIds, move \in Move : RecordAllocation(c, i, move)
AllocationChangeStep(c) == \E i \in AllocationIds, verb \in {"applied", "reverted"} : ChangeAllocation(c, i, verb)

AllocationNext == \E c \in Offices :
    \/ AllocationRecordStep(c) \/ AllocationChangeStep(c) \/ AskSummary(c)
    \/ AppendAllocation(c) \/ TakeAllocation(c) \/ OpenAllocations(c) \/ FillAllocations(c)
    \/ EmitAllocation(c) \/ OfficeDies(c) \/ AnswerSummary(c)
AllocationSpec == AllocationInit /\ [][AllocationNext]_allocationVars

-----------------------------------------------------------------------------
(* Properties.                                                             *)

Rewritten == \E c \in Offices : OfficeAt(c, "fill")

\* Type invariant of the decisions, the lock and the calls.
AllocationTypeOK ==
    /\ Readable(allocationLog) /\ ToSet(RowsOf(allocationLog)) \subseteq Allocation
    /\ allocationLock \in Offices \cup {None}
    /\ allocationCall \in [Offices -> AllocationCall \cup {None}]
    /\ allocationCalls \in 0 .. MaxAllocationCalls /\ officeDeaths \in 0 .. MaxOfficeDeaths
    /\ allocationEvents \subseteq [id : AllocationIds, verb : Statuses]

\* The events that were sent of a decision, or are about to be.
Told(i) ==
    {event.verb : event \in {e \in allocationEvents : e.id = i}}
        \cup {allocationCall[c].verb : c \in {d \in Offices : OfficeAt(d, "emit") /\ allocationCall[d].id = i}}

Story == [proposed |-> {"proposed"}, applied |-> {"proposed", "applied"},
          reverted |-> {"proposed", "applied", "reverted"}]

\* Who adds up the kernel events gets the ledger, whatever calls ran at the
\* same time: a decision stands where its events say, and none is lost by a
\* rewrite (resource-allocation.md: the ledger "can always be rebuilt").  A
\* death in a call is excepted.
EventsTellTheLedger ==
    officeDeaths = 0 /\ ~Rewritten =>
        Readable(allocationLog) /\ \A i \in AllocationIds :
            LET rows == RowsOf(allocationLog) IN
            IF Told(i) = {} THEN ~Mentions(rows, i)
            ELSE \E n \in DOMAIN rows :
                    /\ \A m \in DOMAIN rows : rows[m].id = i <=> m = n
                    /\ Told(i) = Story[rows[n].status]

\* What was reverted never comes back into the ledger, neither by a call that
\* overlaps nor by one that writes rows it has read before.
RevertedStaysReverted ==
    [][\A i \in AllocationIds :
        [id |-> i, verb |-> "reverted"] \in allocationEvents =>
            \A row \in ToSet(RowsOf(allocationLog')) : row.id = i => row.status = "reverted"]_allocationVars

\* Stated, and violated: "Every transition emits a canonical KernelEvent", and
\* an office that dies after a rewrite has the decision without the event.
EveryTransitionIsTold ==
    \A row \in ToSet(RowsOf(allocationLog)) : row.status \in Told(row.id)

\* Stated, and violated: "it computes nothing the applied decisions do not
\* already imply".  The decisions are counted in one state of the file and
\* added up in another, and either may be the moment of a rewrite.
SummaryAddsUp ==
    \A summary \in summaries : summary.counted = 0 => \A u \in Units : summary.ledger[u] = 0
=============================================================================
