-------------------------- MODULE MCAgentChannels --------------------------
(* Instances of AgentChannels for TLC. *)
EXTENDS AgentChannels, TLC

CONSTANTS m1, m2, m3, m4, c1, c2

NoSeed == <<>>

\* One obligation that is being worked on.
Working == m1 :> [thread |-> m1, parent |-> None, obligation |-> "in_progress"]

\* One that has just been received.
Received == m1 :> [thread |-> m1, parent |-> None, obligation |-> "pending"]

\* A caller that has emptied a copy fills it before anything else happens: for
\* properties that no copy has a part in.
CopiesAtOnce ==
    \A c \in Callers : call[c] # Idle /\ call[c].at = "copy" => WriteMirror(c)

Symmetry == Permutations(Callers) \cup Permutations(Messages)
CallerSymmetry == Permutations(Callers)
=============================================================================
