----------------------------- MODULE MCDfuDetach ----------------------------
(* The board of MCDfu with two milliseconds at most.                       *)
EXTENDS DfuDetach

NoScars == [c \in {} |-> Erased]
=============================================================================
