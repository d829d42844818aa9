--------------------------- MODULE MCDotDropping ----------------------------
(***************************************************************************)
(* Model checking of DotDropping.                                          *)
(***************************************************************************)
EXTENDS DotDropping

\* All the features there are to be have gone by.
Finished == taken.all = MaxDots /\ UNCHANGED vars
MCSpec == Init /\ [][Next \/ Finished]_vars
=============================================================================
