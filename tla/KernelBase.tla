----------------------------- MODULE KernelBase -----------------------------
(* The values that several components use for "nothing there".             *)
EXTENDS Naturals, Sequences, FiniteSets

CONSTANTS
    None,   \* a field that is null
    Absent, \* a file that does not exist
    Torn    \* a file that was emptied to be rewritten, or half written

ASSUME BaseAssumption == None # Absent /\ None # Torn /\ Absent # Torn
=============================================================================
