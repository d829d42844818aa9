---------------------------- MODULE MCFilterPipe ----------------------------
(* Instances of FilterPipe. *)
EXTENDS FilterPipe, TLC

CONSTANTS One, Two

\* Four features: more than what two pipes of capacity 1 and a filter that
\* copies have room for.
MCItems == <<1, 2, 3, 4>>

\* One thread runs a prefilter and a postfilter, the other a prefilter.
MCCalls == (One :> 2) @@ (Two :> 1)

=============================================================================
