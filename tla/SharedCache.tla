----------------------------- MODULE SharedCache -----------------------------
(***************************************************************************)
(* Clients that reach the server through one shared HTTP cache, such as a  *)
(* CDN: what the headers of each response, its Vary above all, make of     *)
(* the responses that other clients receive.                               *)
(*                                                                         *)
(* The server is the operator Answer of Responses.  The cache is external: *)
(* it keeps one stored response, selects it by the request headers that    *)
(* its Vary names, and updates it from a 304 (RFC 9111).  One URL is       *)
(* enough: responses of different URLs do not meet.                        *)
(***************************************************************************)
EXTENDS Responses

CONSTANTS
    Sites,      \* the configurations a server may run with
    Files,      \* what the URL may lead to
    Asked       \* the requests that clients send

ASSUME AskedAssumption ==
    Sites \subseteq Configs /\ Files \subseteq Resources /\ Asked \subseteq Requests

VARIABLES
    cfg,        \* the server's configuration
    resource,   \* what the URL leads to
    stored      \* the stored response and the request it answered, or None

vars == <<cfg, resource, stored>>

Init ==
    /\ cfg \in Sites
    /\ resource \in Files
    /\ stored = None

-----------------------------------------------------------------------------
(* The shared cache.                                                       *)

\* The value of a request header that Vary can name.
Nominated(q, header) == IF header = "Origin" THEN q.origin ELSE q.accept

\* Whether the stored response may be selected for q.
Selected(q) ==
    /\ stored # None
    /\ q.method \in {"GET", "HEAD"}
    /\ q.range = "none"
    /\ ~q.fresh
    /\ \A h \in stored.resp.vary : Nominated(q, h) = Nominated(stored.req, h)

\* updated: a 304 has replaced headers of the stored response.
Stored(q, r) == [req |-> q, resp |-> r, file |-> resource, updated |-> FALSE]

\* A request reaches the server and the cache stores its response.  (A
\* response that is not stored changes nothing: see Received.)
Forward(q) ==
    LET r == Answer(cfg, resource, q) IN
    /\ q.method = "GET"
    /\ ~q.fresh
    /\ r.status \in {200, 404}
    /\ stored' = Stored(q, r)
    /\ UNCHANGED <<cfg, resource>>

\* The stored response, updated with the headers of a 304.
Freshened(r) ==
    LET resp == [stored.resp EXCEPT !.vary = IF r.vary = {} THEN @ ELSE r.vary,
                                    !.acao = IF r.acao = None THEN @ ELSE r.acao]
    IN [stored EXCEPT !.updated = TRUE, !.resp = resp]

\* The server's answer to q with the stored response's validators added.
Validated(q) ==
    LET current == stored.file.version = resource.version
    IN Answer(cfg, resource, [q EXCEPT !.fresh = current])

\* A request that the stored response is selected for makes the cache ask the
\* server whether it is still current; a 304 confirms and updates it.
Revalidate(q) ==
    /\ Selected(q)
    /\ stored.resp.validators
    /\ Validated(q).status = 304
    /\ stored' = Freshened(Validated(q))
    /\ UNCHANGED <<cfg, resource>>

Evict ==
    /\ stored # None
    /\ stored' = None
    /\ UNCHANGED <<cfg, resource>>

\* The file is replaced, removed, enters or leaves the server's cache.
Redeploy(f) ==
    /\ resource' = f
    /\ UNCHANGED <<cfg, stored>>

Next ==
    \/ \E q \in Asked : Forward(q) \/ Revalidate(q)
    \/ Evict
    \/ \E f \in Files : Redeploy(f)

Spec == Init /\ [][Next]_vars

\* What a client that asks q now can receive: the server's answer, a recovered
\* panic, or the stored response.
FromServer(q) == {Answer(cfg, resource, q), Recovered(q)}
FromCache(q) ==
    IF Selected(q) THEN {[stored.resp EXCEPT !.body = BodyFor(q, @)]} ELSE {}
Received(q) == FromServer(q) \cup FromCache(q)

-----------------------------------------------------------------------------
\* Every variable has its type.
TypeOK ==
    /\ cfg \in Sites
    /\ resource \in Files
    /\ stored \in [req : Asked, resp : Response, file : Files, updated : BOOLEAN]
                    \cup {None}

\* RFC 9110 12.5.3: a coding is acceptable if it is listed with a weight, or
\* not listed and "*" is.
Acceptable(q, c) ==
    LET Listed(t) == {i \in DOMAIN q.accept : q.accept[i].coding = t}
        Wanted(t) == \E i \in Listed(t) : q.accept[i].q # 0
    IN Wanted(c) \/ (Listed(c) = {} /\ Wanted("*"))

\* No client receives a coding it cannot decode, from the server or from the
\* cache: negotiateEncoding and the middleware respect q = 0, and every
\* response whose coding was negotiated says so in its Vary.
AcceptableEncoding ==
    \A q \in Asked : \A r \in Received(q) :
        r.encoding # None => Acceptable(q, r.encoding)

\* A client with an origin is never told of another client's origin, from the
\* server or from the cache, as long as no 304 has updated the stored
\* response; and only configured origins are ever named.
OwnOriginUnlessUpdated ==
    \A q \in Asked : \A r \in Received(q) : r.acao # None =>
        /\ r.acao \in cfg.cors
        /\ \/ r.acao \in {Star, q.origin}
           \/ q.origin = None
           \/ stored # None /\ stored.updated

\* A part of a file is always a part of the content itself: neither a variant
\* nor the compression middleware gets between the bytes and Content-Range.
PartialIsIdentity ==
    \A q \in Asked : \A r \in Received(q) :
        r.partial => r.encoding = None /\ r.body \in {"identity", None}

\* The answers to q with GET and with HEAD.
GetOf(q) == Answer(cfg, resource, [q EXCEPT !.method = "GET"])
HeadOf(q) == Answer(cfg, resource, [q EXCEPT !.method = "HEAD"])
GetOrHead == {q \in Asked : q.method \in {"GET", "HEAD"}}

\* HEAD has the status, Vary and origin of GET, and states no other coding.
SameButLength(q) ==
    /\ HeadOf(q).status = GetOf(q).status
    /\ HeadOf(q).vary = GetOf(q).vary
    /\ HeadOf(q).acao = GetOf(q).acao
    /\ HeadOf(q).encoding \in {None, GetOf(q).encoding}
SameLength(q) == HeadOf(q).length \in {None, GetOf(q).length}

\* "HEAD reports the same Content-Length / Content-Encoding as GET", wherever it
\* reports one, for every request.
HeadParity == \A q \in GetOrHead : SameButLength(q) /\ SameLength(q)

\* The same but for a Range header that is ignored: there, and only when the
\* middleware has compressed what GET sends, HEAD states the length of the
\* content as it is.
HeadParityUnlessRangeIgnored ==
    \A q \in GetOrHead :
        /\ SameButLength(q)
        /\ \/ SameLength(q)
           \/ /\ q.range = "ignored"
              /\ HeadOf(q).length = "identity" /\ GetOf(q).encoding = "gzip"

\* A 304 names the same request headers in Vary, the same origin and the same
\* validators as the 200 it stands for, so that it is the requests of that
\* 200 that a stored response updated with it is then used for.
RevalidationKeepsVary ==
    \A q \in Asked :
        LET full  == Answer(cfg, resource, [q EXCEPT !.fresh = FALSE])
            fresh == Answer(cfg, resource, [q EXCEPT !.fresh = TRUE])
        IN fresh.status = 304 => /\ fresh.vary = full.vary
                                 /\ fresh.acao = full.acao
                                 /\ fresh.validators = full.validators

=============================================================================
