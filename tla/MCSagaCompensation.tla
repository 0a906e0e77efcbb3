------------------------- MODULE MCSagaCompensation -------------------------
(* Instances of SagaCompensation for TLC. *)
EXTENDS SagaCompensation, TLC

CONSTANTS m1, m2, m3, m4, m5, c1, c2

\* m1 <- m2 <- m3: two fulfilled obligations, and a third still pending.
Chain ==
    m1 :> [thread |-> m1, parent |-> None, obligation |-> "fulfilled"] @@
    m2 :> [thread |-> m1, parent |-> m1, obligation |-> "fulfilled"] @@
    m3 :> [thread |-> m1, parent |-> m2, obligation |-> "pending"]

\* The same, with the second obligation still being worked on.
OpenChain ==
    m1 :> [thread |-> m1, parent |-> None, obligation |-> "fulfilled"] @@
    m2 :> [thread |-> m1, parent |-> m1, obligation |-> "in_progress"] @@
    m3 :> [thread |-> m1, parent |-> m2, obligation |-> "pending"]

\* m1 <- m2: a child whose request to compensate is as deep as chains may get.
ShortChain ==
    m1 :> [thread |-> m1, parent |-> None, obligation |-> "in_progress"] @@
    m2 :> [thread |-> m1, parent |-> m1, obligation |-> "pending"]

\* Two fulfilled obligations, and a third refused.
FailedChain ==
    m1 :> [thread |-> m1, parent |-> None, obligation |-> "fulfilled"] @@
    m2 :> [thread |-> m1, parent |-> m1, obligation |-> "fulfilled"] @@
    m3 :> [thread |-> m1, parent |-> m2, obligation |-> "refused"]

\* A caller that has emptied a copy fills it before anything else happens:
\* commands read inbox files only.
CopiesAtOnce ==
    \A c \in Callers : call[c] # Idle /\ call[c].at = "copy" => WriteMirror(c)

\* Nothing here depends on what could once be read.
WithoutHistory == <<envelope, inbox, mirror, call, log, story, crashes, sagaVars>>

CopyNext     == SagaNext /\ CopiesAtOnce
CopySpec     == SagaInit /\ [][CopyNext]_allVars
LiveCopySpec == CopySpec /\ \A c \in Callers : WF_allVars(CallerStep(c))

CallerSymmetry == Permutations(Callers)
=============================================================================
