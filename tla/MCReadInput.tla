----------------------------- MODULE MCReadInput -----------------------------
(***************************************************************************)
(* Model checking of ReadInput: all the short texts there are, as a stream, *)
(* as a mapped file and as sources that follow each other, and queues that  *)
(* are filled more than once.                                               *)
(***************************************************************************)
EXTENDS ReadInput

Texts(n) == UNION {[1 .. k -> {Sep, 0, 1}] : k \in 0 .. n}
Queues(n, most) == UNION {[1 .. k -> 0 .. most] : k \in 0 .. n}

Of(kind, texts) == {[kind |-> kind, items |-> t] : t \in texts}

Lines == {<<1, Sep, 0, 1, Sep, 1>>, <<Sep, 1, Sep, 1, Sep>>}
Short == {<<1>>, <<1, Sep>>, <<0, 1, Sep, 1>>}

OneStream  == {<<s>> : s \in Of("stream", Texts(6))}
LongStream == {<<s>> : s \in Of("stream", [1 .. 9 -> {Sep, 1}])}
OneMap     == {<<s>> : s \in Of("map", Texts(6))}
OneQueue   == {<<s>> : s \in Of("geobuf", Queues(5, 1)) \cup Of("fgb", Queues(3, 1))}
Several ==
    {<<a, b, c>> : a \in Of("serial", {<<1, 0, 1>>}) \cup Of("map", Short) \cup Of("missing", {<<1>>}),
                   b \in Of("stream", Lines),
                   c \in Of("geobuf", {<<1, 1, 0, 1>>}) \cup Of("stream", Short)}

EverySource == UNION {OneStream, LongStream, OneMap, OneQueue, Several}
=============================================================================
