----------------------------- MODULE MCOverzoom -----------------------------
(* Instances of Overzoom. *)
EXTENDS Overzoom

\* The operations, those that are like another left out.
MCOperations == {"sum", "mean", "max", "count", "comma"}

Plainly == [layers |-> <<>>, demultiply |-> TRUE, op |-> "none", dedup |-> FALSE, ordered |-> FALSE, next |-> FALSE]

Without == [key |-> 0, id |-> NoId, at |-> {1}, first |-> FALSE, seq |-> 0, fate |-> "kept", values |-> <<>>]

\* What matters about a feature to its cluster.
Clustered == {[Without EXCEPT !.first = f, !.at = a, !.fate = k, !.values = v] :
    f \in BOOLEAN, a \in {{}, {1}}, k \in {"kept", "filtered"}, v \in {<<>>, <<[num |-> 0, count |-> 0]>>}}

\* Filtered and clipped features do not show what they have.
Shown == {f \in Clustered : (f.at = {} => f.fate = "kept") /\ (f.values = <<>> => Kept(f))}

\* The feature at a place of its own, with a value that tells where it comes from
\* and a sequence that goes up and down.
Placed(f, n) == [f EXCEPT !.key = n, !.seq = (2 * n) % 3,
    !.values = IF f.values = <<>> THEN <<>> ELSE <<[num |-> 4 ^ n, count |-> 0]>>]

\* A layer of three features, and then one with another from a second tile.
Split(fs, name) == <<[name |-> "a", features |-> [i \in 1..3 |-> Placed(fs[i], i)]],
                     [name |-> name, features |-> <<Placed(fs[4], 4)>>]>>

Identified == {[Without EXCEPT !.first = f, !.id = i, !.at = z[1], !.fate = z[2]] :
    f \in BOOLEAN, i \in Ids \cup {NoId}, z \in {<<{}, "kept">>, <<{1}, "kept">>, <<{1}, "simplified">>}}

\* What is asked for in turn: clusters to be thinned, identifiers to be merged, and
\* the children that there will be.
Thinning == [kind : {"thin"}, fs : {g \in [1..4 -> Shown] : Kept(g[4])}, op : MCOperations]
Merging == [kind : {"merge"}, fs : {g \in [1..4 -> Identified] : g[1].first /\ Kept(g[4]) /\ g[4].first /\ g[4].id # NoId}, name : Names, demultiply : BOOLEAN]
Overzooming == [kind : {"overzoom"}, fs : [1..4 -> {[Without EXCEPT !.at = a] : a \in {{}, {0}, {1}, {4}, {1, 3}}}], name : Names]

Request(r) ==
    CASE r.kind = "thin" -> [Plainly EXCEPT !.layers = Split(r.fs, "a"), !.op = r.op, !.ordered = TRUE]
      [] r.kind = "merge" -> [Plainly EXCEPT !.layers = Split(r.fs, r.name), !.demultiply = r.demultiply, !.dedup = TRUE]
      [] r.kind = "overzoom" -> [Plainly EXCEPT !.layers = Split(r.fs, r.name), !.demultiply = FALSE, !.next = TRUE]

MCRequests == {Request(r) : r \in UNION {Thinning, Merging, Overzooming}}

=============================================================================
