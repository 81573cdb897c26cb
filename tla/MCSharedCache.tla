---------------------------- MODULE MCSharedCache ----------------------------
(* Instances of SharedCache for TLC.                                       *)
EXTENDS SharedCache

CONSTANTS A, B, X

MCOrigins == {A, B, X}

\* X is an origin that no configuration lists.
Site(cors, c, e) == [cors |-> cors, compress |-> c, etags |-> e]
MCSites == {Site({}, TRUE, FALSE), Site({Star}, TRUE, TRUE), Site({A, B}, TRUE, TRUE),
            Site({A, B}, FALSE, TRUE), Site({A, Star}, TRUE, TRUE)}

\* Sizes: 0 below, 1 at the minimum for compression, 2 above the maximum.
File(kind, version, size, preloaded, sidecars) ==
    [kind |-> kind, version |-> version, size |-> size, compressible |-> TRUE,
     preloaded |-> preloaded, sidecars |-> sidecars]
MCFiles == {File("cached", 1, 1, TRUE, {}), File("cached", 1, 2, FALSE, {"br"}),
            File("read", 2, 1, FALSE, {}),
            File("large", 2, 2, FALSE, {}), File("embedded", 3, 1, FALSE, {}),
            File("missing", 0, 1, FALSE, {}), File("listing", 0, 1, FALSE, {}),
            [File("cached", 2, 1, FALSE, {}) EXCEPT !.compressible = FALSE],
            File("fails", 0, 0, FALSE, {}), File("refused", 0, 0, FALSE, {}),
            File("nul", 0, 0, FALSE, {})}

Token(c, q) == [coding |-> c, q |-> q]
Accepts == {<<>>, <<Token("gzip", 1)>>, <<Token("gzip", 0), Token("*", 1)>>,
            <<Token("br", 1), Token("gzip", 1)>>}

Request(m, o, a, r, c) ==
    [method |-> m, origin |-> o, accept |-> a, range |-> r, fresh |-> c]
MCAsked ==
    {Request(m, o, a, "none", FALSE) :
        m \in {"GET", "HEAD"}, o \in {A, B, None}, a \in Accepts}
    \cup {Request("GET", o, a, "none", FALSE) : o \in {X}, a \in Accepts}
    \cup {Request(m, A, <<Token("gzip", 1)>>, r, FALSE) :
            m \in {"GET", "HEAD"}, r \in {"ignored", "some", "unsatisfiable"}}
    \cup {Request("GET", o, <<Token("br", 1), Token("gzip", 1)>>, "none", TRUE) :
            o \in {B, None}}
    \cup {Request(m, A, <<>>, "none", FALSE) : m \in {"OPTIONS", "POST"}}
=============================================================================
