---------------------------- MODULE MCAgentScenes ----------------------------
(***************************************************************************)
(* Two scenes of AgentChannels that are too large together: every call, on *)
(* one message, whose copy is rewritten at once (nothing there depends on  *)
(* it); and sends and acknowledgements of every message, file step by file *)
(* step, each message an obligation in a thread of its own.                *)
(***************************************************************************)
EXTENDS MCAgentChannels

VARIABLE scene

OneMessage == Cardinality({m \in Messages : envelope'[m] # Unsent}) <= 1

Acknowledged ==
    /\ \A c \in Callers :
          call'[c] # Idle => call'[c].op # "obligation" /\ call'[c].content.obligation = "pending"
    /\ \A m \in Messages : envelope'[m].thread \in {m, None}

SceneNext ==
    /\ Next
    /\ scene = "calls" => OneMessage /\ CopiesAtOnce
    /\ scene = "chains" => Acknowledged
    /\ UNCHANGED scene

SceneInit == Init /\ scene \in {"calls", "chains"}

SceneSpec == SceneInit /\ [][SceneNext]_<<vars, scene>>
=============================================================================
