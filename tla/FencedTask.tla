----------------------------- MODULE FencedTask -----------------------------
(***************************************************************************)
(* What the production queue promises to whoever stands outside it: a set  *)
(* of tasks, each with at most one holder at a time, numbered by an epoch  *)
(* that grows with every take.  Nothing here speaks of files, attempts,    *)
(* contracts or events; module WorkQueue is shown to implement it.         *)
(***************************************************************************)
EXTENDS Naturals

CONSTANTS
    Works,   \* the tasks
    Actors,  \* who may hold one
    NoActor  \* nobody

VARIABLES
    stage,   \* stage[w]: not submitted, open for a taker, held, or closed
    epoch,   \* epoch[w]: how many times w has been taken
    holder,  \* holder[w]: who holds w
    live     \* live[w]: the hold on w has not lapsed

vars == <<stage, epoch, holder, live>>

Stage == {"none", "open", "held", "closed"}

Held(w) == stage[w] = "held"

Init ==
    /\ stage = [w \in Works |-> "none"]
    /\ epoch = [w \in Works |-> 0]
    /\ holder = [w \in Works |-> NoActor]
    /\ live = [w \in Works |-> FALSE]

Submit(w) ==
    /\ stage[w] = "none"
    /\ stage' = [stage EXCEPT ![w] = "open"]
    /\ UNCHANGED <<epoch, holder, live>>

\* A task is taken when nobody holds it, or when the hold has lapsed.
Take(w, a) ==
    /\ stage[w] = "open" \/ (Held(w) /\ ~live[w])
    /\ stage' = [stage EXCEPT ![w] = "held"]
    /\ epoch' = [epoch EXCEPT ![w] = @ + 1]
    /\ holder' = [holder EXCEPT ![w] = a]
    /\ live' = [live EXCEPT ![w] = TRUE]

\* Time passes: any set of holds may lapse at once.
Lapse(S) ==
    /\ \A w \in S : Held(w) /\ live[w]
    /\ live' = [w \in Works |-> live[w] /\ w \notin S]
    /\ UNCHANGED <<stage, epoch, holder>>

\* Only a live holder finishes a task, or gives it back.
Finish(w, outcome) ==
    /\ Held(w) /\ live[w]
    /\ outcome \in {"open", "closed"}
    /\ stage' = [stage EXCEPT ![w] = outcome]
    /\ holder' = [holder EXCEPT ![w] = NoActor]
    /\ live' = [live EXCEPT ![w] = FALSE]
    /\ UNCHANGED epoch

\* An operator may withdraw a task nobody has finished, ...
Withdraw(w) ==
    /\ stage[w] \in {"open", "held"}
    /\ stage' = [stage EXCEPT ![w] = "closed"]
    /\ holder' = [holder EXCEPT ![w] = NoActor]
    /\ live' = [live EXCEPT ![w] = FALSE]
    /\ UNCHANGED epoch

\* ... and reopen a closed one.
Reopen(w) ==
    /\ stage[w] = "closed"
    /\ stage' = [stage EXCEPT ![w] = "open"]
    /\ UNCHANGED <<epoch, holder, live>>

Next ==
    \/ \E w \in Works :
        \/ Submit(w)
        \/ Withdraw(w)
        \/ Reopen(w)
        \/ \E a \in Actors : Take(w, a)
        \/ \E outcome \in {"open", "closed"} : Finish(w, outcome)
    \/ \E S \in SUBSET Works : Lapse(S)

Spec == Init /\ [][Next]_vars
=============================================================================
