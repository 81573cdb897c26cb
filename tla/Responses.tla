------------------------------ MODULE Responses ------------------------------
(***************************************************************************)
(* The response to one request, through the handler chain that             *)
(* BuildHandler composes: recovery, security.Middleware,                   *)
(* compress.Middleware and the file handler.  Each layer is an operator    *)
(* from a request, a resource and the response so far to a response.       *)
(*                                                                         *)
(* Kept: statuses, Vary, Access-Control-Allow-Origin, validators, the      *)
(* content coding, and which coding of the content the body and            *)
(* Content-Length are those of.  Left out: the constant security headers,  *)
(* texts, Content-Type beyond "compressible", the bytes, and logging,      *)
(* which only reads the response.                                          *)
(***************************************************************************)
EXTENDS Integers, Sequences

CONSTANTS
    Origins,        \* values of the Origin header
    MinSize,        \* compression.min_size
    MaxCompressSize,\* compression.max_compress_size, 0 for no limit
    Star,           \* "*" in cors_origins and in Access-Control-Allow-Origin
    None            \* no such header, no coding, no body

ASSUME OriginsAssumption == None \notin Origins /\ Star \notin Origins /\ None # Star
ASSUME SizesAssumption == MinSize \in Nat /\ MaxCompressSize \in Nat
ASSUME NoneAssumption == None \notin {"br", "zstd", "gzip", "identity"}

\* The variants of a cached file, the preferred one first.
Preference == <<"br", "zstd", "gzip">>
Codings == {"br", "zstd", "gzip"}

\* cors: security.cors_origins.
Configs == [cors : SUBSET (Origins \cup {Star}), compress : BOOLEAN, etags : BOOLEAN]

\* What a path leads to: "cached" is a file in memory, "read" one that is read
\* into it, "large" is streamed, "refused" is rejected by PathSafe, "nul"
\* contains a null byte, and "fails" ends in ctx.Error (no permission,
\* vanished, too large).  sidecars: the precompressed files that
\* loadSidecarMax accepts.
Resources == [kind : {"cached", "read", "large", "embedded", "missing",
                      "listing", "refused", "nul", "fails"},
              version : Nat, size : Nat, compressible : BOOLEAN,
              preloaded : BOOLEAN, sidecars : SUBSET Codings]

\* accept: the tokens of Accept-Encoding, with q = 0 only where the header
\* says so (a weight that cannot be parsed counts as 1).  range: what
\* parseRange and If-Range make of the Range header.  fresh: a condition
\* that the resource satisfies.
Requests == [method : {"GET", "HEAD", "OPTIONS", "POST"},
             origin : Origins \cup {None},
             accept : Seq([coding : Codings \cup {"*"}, q : {0, 1}]),
             range : {"none", "ignored", "some", "unsatisfiable"},
             fresh : BOOLEAN]

Statuses == {0, 200, 204, 206, 304, 400, 403, 404, 405, 416, 500}

\* validators: Cache-Control and the file's own ETag and Last-Modified;
\* length: the coding of the content that Content-Length is the size of;
\* partial: Content-Range; stream: a body that is not buffered.
Response == [status : Statuses, vary : SUBSET {"Origin", "Accept-Encoding"},
             acao : Origins \cup {Star, None}, validators : BOOLEAN, encoding : Codings \cup {None},
             body : Codings \cup {"identity", None},
             length : Codings \cup {"identity", None},
             partial : BOOLEAN, stream : BOOLEAN]

Blank == [status |-> 0, vary |-> {}, acao |-> None, validators |-> FALSE, encoding |-> None, body |-> None,
          length |-> None, partial |-> FALSE, stream |-> FALSE]

-----------------------------------------------------------------------------
(* Headers.                                                                *)

\* Mutant of AddVary: the token replaces what an outer layer has set.
SetVary(r, token) == [r EXCEPT !.vary = {token}]

\* headers.AddVary merges.
AddVary(r, token) == [r EXCEPT !.vary = @ \cup {token}]

\* Mutant of AcceptsEncoding: weights are not looked at.
ListsEncoding(q, c) == \E i \in DOMAIN q.accept : q.accept[i].coding = c

\* compress.AcceptsEncoding: the first token with this name decides; "*" is
\* not honoured.
AcceptsEncoding(q, c) ==
    \E i \in DOMAIN q.accept :
        /\ q.accept[i] = [coding |-> c, q |-> 1]
        /\ \A j \in DOMAIN q.accept : j < i => q.accept[j].coding # c

\* fasthttp's ctx.Error resets the response, its headers included; sendError
\* of the middleware keeps them.
CtxError(s) == [Blank EXCEPT !.status = s, !.body = "identity"]
SendError(r, s) == [r EXCEPT !.status = s, !.body = "identity"]

\* CheckNotModified's 304 and setValidatorHeaders.
NotModified(r) ==
    AddVary([r EXCEPT !.status = 304, !.validators = TRUE], "Accept-Encoding")

\* Mutant of CheckedNotModified: the 304 carries no Vary of its own.
CheckedBare(r) == [r EXCEPT !.status = 304, !.validators = TRUE]
CheckedNotModified(r) == NotModified(r)

-----------------------------------------------------------------------------
(* The file handler.                                                       *)

\* The variants of an entry: serveFromDisk loads sidecars and generates gzip
\* and zstd where they are missing, Preload generates gzip only.
Variants(cfg, f) ==
    IF ~cfg.compress \/ ~f.compressible \/ f.size < MinSize THEN {}
    ELSE IF f.preloaded THEN {"gzip"} ELSE f.sidecars \cup {"gzip", "zstd"}

\* Mutant of NegotiateEncoding: no variant is a coding called identity.
NegotiateIdentity(cfg, q, f) ==
    IF \E c \in Variants(cfg, f) : AcceptsEncoding(q, c)
    THEN CHOOSE c \in Variants(cfg, f) : AcceptsEncoding(q, c)
    ELSE "identity"

\* negotiateEncoding.
NegotiateEncoding(cfg, q, f) ==
    LET usable == {i \in 1 .. 3 : /\ Preference[i] \in Variants(cfg, f)
                                  /\ AcceptsEncoding(q, Preference[i])}
    IN IF usable = {} THEN None
       ELSE Preference[CHOOSE i \in usable : \A j \in usable : i <= j]

Plain(c) == IF c = None THEN "identity" ELSE c

\* HEAD has the headers of GET and no body.
BodyFor(q, c) == IF q.method = "HEAD" THEN None ELSE c

\* serveRange, and the same decisions in serveLargeFile.
ServeRange(q, r) ==
    IF q.range = "unsatisfiable"
    THEN [r EXCEPT !.status = 416, !.partial = TRUE]
    ELSE [r EXCEPT !.status = IF q.range = "some" THEN 206 ELSE 200,
                   !.partial = q.range = "some",
                   !.length = "identity",
                   !.body = BodyFor(q, "identity")]

\* Mutant of ServeFromCache: HEAD states the size of the content itself.
HeadOfIdentity(cfg, q, f, r) ==
    LET c == NegotiateEncoding(cfg, q, f)
        s == AddVary([r EXCEPT !.validators = TRUE], "Accept-Encoding")
    IN IF q.range = "none"
       THEN [s EXCEPT !.status = 200, !.encoding = c, !.length = "identity",
                      !.body = BodyFor(q, Plain(c))]
       ELSE ServeRange(q, s)

\* Mutant of ServeFromCache: a range is cut from the negotiated variant.
RangeOfVariant(cfg, q, f, r) ==
    LET c == NegotiateEncoding(cfg, q, f)
        s == AddVary([r EXCEPT !.validators = TRUE, !.encoding = c], "Accept-Encoding")
    IN IF q.range = "none"
       THEN [s EXCEPT !.status = 200, !.length = Plain(c), !.body = BodyFor(q, Plain(c))]
       ELSE ServeRange(q, s)

\* SetFileHeaders, then the negotiated variant, or ranges of the content.
ServeFromCache(cfg, q, f, r) ==
    LET c == NegotiateEncoding(cfg, q, f)
        s == AddVary([r EXCEPT !.validators = TRUE], "Accept-Encoding")
    IN IF q.range = "none"
       THEN [s EXCEPT !.status = 200, !.encoding = c, !.length = Plain(c),
                      !.body = BodyFor(q, Plain(c))]
       ELSE ServeRange(q, s)

\* serveLargeFile, whose body is a stream.
ServeLarge(q, r) ==
    LET s == ServeRange(q, AddVary([r EXCEPT !.validators = TRUE], "Accept-Encoding"))
    IN [s EXCEPT !.stream = s.body # None]

\* serveEmbedded, whose body is set for HEAD too.
ServeEmbedded(r) ==
    AddVary([r EXCEPT !.status = 200, !.validators = TRUE, !.body = "identity"],
            "Accept-Encoding")

\* serveNotFound, with a custom or the embedded page.
ServeNotFound(r) == [r EXCEPT !.status = 404, !.body = "identity"]

ServeDirectoryListing(q, r) ==
    [r EXCEPT !.status = 200, !.body = BodyFor(q, "identity")]

\* HandleRequest; conditions are not looked at when a file has just been read.
HandleRequest(cfg, q, f, r) ==
    CASE f.kind \in {"cached", "large"} /\ q.fresh -> CheckedNotModified(r)
      [] f.kind = "embedded" /\ q.fresh /\ cfg.etags -> CheckedNotModified(r)
      [] f.kind = "cached" /\ ~q.fresh -> ServeFromCache(cfg, q, f, r)
      [] f.kind = "read" -> ServeFromCache(cfg, q, f, r)
      [] f.kind = "large" /\ ~q.fresh -> ServeLarge(q, r)
      [] f.kind = "embedded" /\ ~(q.fresh /\ cfg.etags) -> ServeEmbedded(r)
      [] f.kind = "missing" -> ServeNotFound(r)
      [] f.kind = "listing" -> ServeDirectoryListing(q, r)
      [] OTHER -> CtxError(500)

-----------------------------------------------------------------------------
(* The middleware.                                                         *)

\* The body that the compression middleware sees.
BodySize(f, r) == IF r.body = None THEN 0 ELSE f.size

\* What compress.Middleware compresses once the handler has returned.
Compressible(f, r) ==
    /\ r.status = 200 /\ ~r.partial /\ ~r.stream
    /\ r.encoding = None
    /\ f.compressible
    /\ BodySize(f, r) >= MinSize
    /\ MaxCompressSize > 0 => BodySize(f, r) <= MaxCompressSize

Compressed(r) == [r EXCEPT !.encoding = "gzip", !.body = "gzip", !.length = None]

\* compress.Middleware, for GET and HEAD.
CompressMiddleware(cfg, q, f, r) ==
    IF cfg.compress /\ AcceptsEncoding(q, "gzip")
    THEN LET s == HandleRequest(cfg, q, f, AddVary(r, "Accept-Encoding"))
         IN IF Compressible(f, s) THEN Compressed(s) ELSE s
    ELSE HandleRequest(cfg, q, f, r)

\* The CORS headers: isWildcard, originAllowed.
CORS(cfg, q, r) ==
    IF q.origin = None THEN r
    ELSE IF cfg.cors = {Star} THEN [r EXCEPT !.acao = Star]
    ELSE IF q.origin \in cfg.cors
    THEN AddVary([r EXCEPT !.acao = q.origin], "Origin")
    ELSE r

\* security.Middleware: null bytes, methods, PathSafe, CORS, OPTIONS, and
\* then the handler.
SecurityMiddleware(cfg, q, f, r) ==
    IF f.kind = "nul" THEN SendError(r, 400)
    ELSE IF q.method = "POST" THEN SendError(r, 405)
    ELSE IF f.kind = "refused" THEN SendError(r, 403)
    ELSE IF q.method = "OPTIONS" THEN [CORS(cfg, q, r) EXCEPT !.status = 204]
    ELSE CompressMiddleware(cfg, q, f, CORS(cfg, q, r))

\* fasthttp writes the response: the length is that of the body, if there is
\* one, and HEAD sends no body.
Written(q, r) ==
    [r EXCEPT !.length = IF r.body # None /\ r.status \notin {204, 304}
                         THEN r.body ELSE r.length,
              !.body = BodyFor(q, r.body)]

\* The chain, and what recoveryMiddleware makes of a panic in it.
Answer(cfg, f, q) == Written(q, SecurityMiddleware(cfg, q, f, Blank))
Recovered(q) == Written(q, CtxError(500))

=============================================================================
