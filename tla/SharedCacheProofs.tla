-------------------------- MODULE SharedCacheProofs --------------------------
(***************************************************************************)
(* Proofs about SharedCache, for any origins, configurations, resources    *)
(* and requests: what the handler chain writes into the headers of a       *)
(* response is enough for the shared cache to give it to the right         *)
(* clients.                                                                *)
(***************************************************************************)
EXTENDS SharedCache, TLAPS

\* What each layer keeps true of the response it passes on: its coding was
\* accepted and negotiated in the open, and so was its origin.
CodingHonest(q, r) ==
    /\ r.encoding # None =>
          AcceptsEncoding(q, r.encoding) /\ "Accept-Encoding" \in r.vary
    /\ r.status = 304 => "Accept-Encoding" \in r.vary
OriginHonest(c, q, r) ==
    r.acao # None =>
        /\ r.acao \in c.cors
        /\ r.acao = Star \/ (r.acao = q.origin /\ "Origin" \in r.vary)
Honest(c, q, r) == r \in Response /\ CodingHonest(q, r) /\ OriginHonest(c, q, r)

\* s is honest and has the Vary of r.
Keeps(c, q, r, s) == Honest(c, q, s) /\ s.vary = r.vary

-----------------------------------------------------------------------------
\* negotiateEncoding chooses a coding that the client accepts, or none.
LEMMA NegotiatedAccepted ==
    ASSUME NEW c \in Configs, NEW q \in Requests, NEW f \in Resources
    PROVE  /\ NegotiateEncoding(c, q, f) \in Codings \cup {None}
           /\ NegotiateEncoding(c, q, f) # None =>
                 AcceptsEncoding(q, NegotiateEncoding(c, q, f))
<1> DEFINE usable == {i \in 1 .. 3 : /\ Preference[i] \in Variants(c, f)
                                     /\ AcceptsEncoding(q, Preference[i])}
           best == CHOOSE i \in usable : \A j \in usable : i <= j
<1>1. CASE usable = {}
  BY <1>1 DEF NegotiateEncoding
<1>2. CASE usable # {}
  <2>1. \E i \in usable : \A j \in usable : i <= j
    <3>1. \A i \in usable : i \in {1, 2, 3}
      OBVIOUS
    <3> HIDE DEF usable
    <3> QED BY <1>2, <3>1
  <2>2. best \in usable
    BY <2>1
  <2>3. NegotiateEncoding(c, q, f) = Preference[best]
    BY <1>2 DEF NegotiateEncoding
  <2>4. best \in 1 .. 3 /\ AcceptsEncoding(q, Preference[best])
    BY <2>2
  <2>5. Preference[1] \in Codings /\ Preference[2] \in Codings /\ Preference[3] \in Codings
    BY DEF Preference, Codings
  <2>6. best = 1 \/ best = 2 \/ best = 3
    BY <2>4
  <2> HIDE DEF best, usable
  <2> QED BY <2>3, <2>4, <2>5, <2>6
<1> QED BY <1>1, <1>2

\* AddVary of Accept-Encoding keeps a response honest.
LEMMA AddVaryHonest ==
    ASSUME NEW c \in Configs, NEW q \in Requests, NEW r, Honest(c, q, r),
           NEW t \in {"Origin", "Accept-Encoding"}
    PROVE  /\ Honest(c, q, AddVary(r, t))
           /\ t \in AddVary(r, t).vary
           /\ r.vary \subseteq AddVary(r, t).vary
           /\ AddVary(r, t).encoding = r.encoding
           /\ AddVary(r, t).status = r.status
BY DEF Honest, CodingHonest, OriginHonest, AddVary, Response

\* Changing neither Vary nor origin nor coding keeps a response honest.
LEMMA SameHeadersHonest ==
    ASSUME NEW c \in Configs, NEW q \in Requests, NEW r, NEW s, Honest(c, q, r),
           s \in Response, s.vary = r.vary, s.acao = r.acao,
           s.encoding = r.encoding, s.status # 304
    PROVE  Honest(c, q, s)
BY DEF Honest, CodingHonest, OriginHonest

\* The statuses that the handlers set.
LEMMA StatusesSet ==
    /\ \A t \in {0, 200, 204, 206, 304, 400, 403, 404, 405, 416, 500} : t \in Statuses
    /\ Blank \in Response
<1>1. \A t \in {0, 200, 204, 206, 304, 400, 403, 404, 405, 416, 500} : t \in Statuses
  BY DEF Statuses
<1>2. 0 \in Statuses
  BY <1>1
<1> QED BY <1>1, <1>2 DEF Blank, Response

\* ctx.Error resets the headers, so the response promises nothing.
LEMMA CtxErrorHonest ==
    ASSUME NEW c \in Configs, NEW q \in Requests, NEW t \in {403, 500}
    PROVE  Honest(c, q, CtxError(t))
<1>1. t \in Statuses /\ Blank \in Response
  BY StatusesSet
<1>2. CtxError(t) \in Response
  BY <1>1 DEF CtxError, Response
<1>3. CtxError(t).encoding = None /\ CtxError(t).acao = None /\ CtxError(t).status # 304
  BY DEF CtxError, Blank
<1> QED BY <1>2, <1>3 DEF Honest, CodingHonest, OriginHonest

\* Setting status, range, length and body keeps a response honest.
LEMMA StatusHonest ==
    ASSUME NEW c \in Configs, NEW q \in Requests, NEW r, Honest(c, q, r),
           NEW t \in Statuses, t # 304, NEW p \in BOOLEAN
    PROVE  Keeps(c, q, r, [r EXCEPT !.status = t, !.partial = p])
<1> DEFINE s == [r EXCEPT !.status = t, !.partial = p]
<1>1. r \in Response
  BY DEF Honest
<1>2. s \in Response
  BY <1>1 DEF Response
<1>3. s.vary = r.vary /\ s.acao = r.acao /\ s.encoding = r.encoding /\ s.status = t
  BY <1>1 DEF Response
<1>4. Keeps(c, q, r, s)
  <2> HIDE DEF s
  <2> QED BY <1>2, <1>3, SameHeadersHonest DEF Keeps
<1> QED BY <1>4

LEMMA BodyHonest ==
    ASSUME NEW c \in Configs, NEW q \in Requests, NEW r, Honest(c, q, r),
           NEW t \in Statuses, t # 304, NEW p \in BOOLEAN,
           NEW b \in Codings \cup {"identity", None},
           NEW l \in Codings \cup {"identity", None}
    PROVE  Keeps(c, q, r, [r EXCEPT !.status = t, !.partial = p, !.length = l, !.body = b])
<1> DEFINE s == [r EXCEPT !.status = t, !.partial = p, !.length = l, !.body = b]
<1>1. r \in Response
  BY DEF Honest
<1>2. s \in Response
  BY <1>1 DEF Response
<1>3. s.vary = r.vary /\ s.acao = r.acao /\ s.encoding = r.encoding /\ s.status = t
  BY <1>1 DEF Response
<1>4. Keeps(c, q, r, s)
  <2> HIDE DEF s
  <2> QED BY <1>2, <1>3, SameHeadersHonest DEF Keeps
<1> QED BY <1>4

\* serveRange leaves coding, Vary and origin alone.
LEMMA ServeRangeHonest ==
    ASSUME NEW c \in Configs, NEW q \in Requests, NEW r, Honest(c, q, r)
    PROVE  Keeps(c, q, r, ServeRange(q, r))
<1>1. 416 \in Statuses /\ 200 \in Statuses /\ 206 \in Statuses
  BY StatusesSet
<1>2. CASE q.range = "unsatisfiable"
  <2> DEFINE t == 416
             p == TRUE
  <2>1. ServeRange(q, r) = [r EXCEPT !.status = t, !.partial = p]
    BY <1>2 DEF ServeRange
  <2>3. t \in Statuses /\ t # 304 /\ p \in BOOLEAN
    BY <1>1
  <2> HIDE DEF t, p
  <2>2. Keeps(c, q, r, [r EXCEPT !.status = t, !.partial = p])
    BY <2>3, StatusHonest
  <2> QED BY <2>1, <2>2
<1>3. CASE q.range # "unsatisfiable"
  <2> DEFINE t == IF q.range = "some" THEN 206 ELSE 200
             p == q.range = "some"
             b == BodyFor(q, "identity")
  <2>1. ServeRange(q, r) =
          [r EXCEPT !.status = t, !.partial = p, !.length = "identity", !.body = b]
    BY <1>3 DEF ServeRange
  <2>2. t \in Statuses /\ t # 304 /\ p \in BOOLEAN
    BY <1>1
  <2>3. b \in Codings \cup {"identity", None} /\ "identity" \in Codings \cup {"identity", None}
    BY DEF BodyFor
  <2> HIDE DEF t, p, b
  <2>4. Keeps(c, q, r, [r EXCEPT !.status = t, !.partial = p, !.length = "identity", !.body = b])
    BY <2>2, <2>3, BodyHonest
  <2> QED BY <2>1, <2>4
<1> QED BY <1>2, <1>3

-----------------------------------------------------------------------------
\* The CORS headers name an origin only where Vary says so.
LEMMA CORSHonest ==
    ASSUME NEW c \in Configs, NEW q \in Requests, NEW r, Honest(c, q, r)
    PROVE  /\ Honest(c, q, CORS(c, q, r))
           /\ CORS(c, q, r).encoding = r.encoding
           /\ CORS(c, q, r).status = r.status
<1>1. r \in Response /\ q.origin \in Origins \cup {None} /\ c.cors \subseteq Origins \cup {Star}
  BY DEF Honest, Requests, Configs
<1>2. CASE q.origin # None /\ c.cors = {Star}
  <2>1. CORS(c, q, r) = [r EXCEPT !.acao = Star]
    BY <1>2 DEF CORS
  <2> QED BY <1>1, <1>2, <2>1 DEF Honest, CodingHonest, OriginHonest, Response
<1>3. CASE q.origin # None /\ c.cors # {Star} /\ q.origin \in c.cors
  <2> DEFINE o == q.origin
  <2>1. CORS(c, q, r) = AddVary([r EXCEPT !.acao = o], "Origin")
    BY <1>3 DEF CORS
  <2>2. o \in Origins \cup {Star, None} /\ o \in c.cors
    BY <1>1, <1>3
  <2>3. AddVary([r EXCEPT !.acao = o], "Origin") \in Response
    BY <1>1, <2>2 DEF AddVary, Response
  <2>4. /\ AddVary([r EXCEPT !.acao = o], "Origin").vary = r.vary \cup {"Origin"}
        /\ AddVary([r EXCEPT !.acao = o], "Origin").acao = o
        /\ AddVary([r EXCEPT !.acao = o], "Origin").encoding = r.encoding
        /\ AddVary([r EXCEPT !.acao = o], "Origin").status = r.status
    BY <1>1, <2>2 DEF AddVary, Response
  <2> QED BY <2>1, <2>2, <2>3, <2>4 DEF Honest, CodingHonest, OriginHonest
<1>4. CASE q.origin = None \/ (c.cors # {Star} /\ q.origin \notin c.cors)
  BY <1>4 DEF CORS
<1> QED BY <1>2, <1>3, <1>4

\* What a handler makes of a response without a coding is honest, and keeps
\* the outer layers' Vary wherever it is a 200.
Handled(c, q, r, s) == Honest(c, q, s) /\ (s.status = 200 => r.vary \subseteq s.vary)

LEMMA NotModifiedHandled ==
    ASSUME NEW c \in Configs, NEW q \in Requests, NEW r, Honest(c, q, r),
           r.encoding = None
    PROVE  Handled(c, q, r, CheckedNotModified(r))
<1> DEFINE t == 304
           v == TRUE
           s == AddVary([r EXCEPT !.status = t, !.validators = v], "Accept-Encoding")
<1>1. r \in Response /\ t \in Statuses /\ v \in BOOLEAN
  BY StatusesSet DEF Honest
<1>2. CheckedNotModified(r) = s
  BY DEF CheckedNotModified, NotModified
<1> HIDE DEF t, v
<1>3. s \in Response
  BY <1>1 DEF AddVary, Response
<1>4. /\ s.vary = r.vary \cup {"Accept-Encoding"} /\ s.acao = r.acao
      /\ s.encoding = r.encoding
  BY <1>1 DEF AddVary, Response
<1> HIDE DEF s
<1> QED BY <1>2, <1>3, <1>4 DEF Handled, Honest, CodingHonest, OriginHonest

\* SetFileHeaders.
LEMMA FileHeadersHonest ==
    ASSUME NEW c \in Configs, NEW q \in Requests, NEW r, Honest(c, q, r)
    PROVE  LET s == AddVary([r EXCEPT !.validators = TRUE], "Accept-Encoding")
           IN /\ Honest(c, q, s)
              /\ s.vary = r.vary \cup {"Accept-Encoding"}
              /\ s.encoding = r.encoding
<1> DEFINE s == AddVary([r EXCEPT !.validators = TRUE], "Accept-Encoding")
<1>1. r \in Response
  BY DEF Honest
<1>2. s \in Response
  BY <1>1 DEF AddVary, Response
<1>3. /\ s.vary = r.vary \cup {"Accept-Encoding"} /\ s.acao = r.acao
      /\ s.encoding = r.encoding /\ s.status = r.status
  BY <1>1 DEF AddVary, Response
<1> HIDE DEF s
<1>4. Honest(c, q, s) /\ s.vary = r.vary \cup {"Accept-Encoding"} /\ s.encoding = r.encoding
  BY <1>2, <1>3 DEF Honest, CodingHonest, OriginHonest
<1> QED BY <1>4 DEF s

LEMMA ServeFromCacheHandled ==
    ASSUME NEW c \in Configs, NEW q \in Requests, NEW f \in Resources,
           NEW r, Honest(c, q, r), r.encoding = None
    PROVE  Handled(c, q, r, ServeFromCache(c, q, f, r))
<1> DEFINE s == AddVary([r EXCEPT !.validators = TRUE], "Accept-Encoding")
           e == NegotiateEncoding(c, q, f)
<1>1. Honest(c, q, s) /\ s.vary = r.vary \cup {"Accept-Encoding"} /\ s.encoding = None
  BY FileHeadersHonest
<1>2. CASE q.range = "none"
  <2> DEFINE t == 200
             l == Plain(e)
             b == BodyFor(q, Plain(e))
             w == [s EXCEPT !.status = t, !.encoding = e, !.length = l, !.body = b]
  <2>1. ServeFromCache(c, q, f, r) = w
    BY <1>2 DEF ServeFromCache
  <2>2. e \in Codings \cup {None} /\ (e # None => AcceptsEncoding(q, e))
    BY NegotiatedAccepted
  <2>3. l \in Codings \cup {"identity", None} /\ b \in Codings \cup {"identity", None}
    BY <2>2 DEF Plain, BodyFor
  <2>4. t \in Statuses /\ t # 304
    BY StatusesSet
  <2>5. s \in Response
    BY <1>1 DEF Honest
  <2> HIDE DEF t, e, l, b, s
  <2>6. w \in Response
    BY <2>2, <2>3, <2>4, <2>5 DEF Response
  <2>7. w.vary = s.vary /\ w.acao = s.acao /\ w.encoding = e /\ w.status = t
    BY <2>5 DEF Response
  <2> HIDE DEF w
  <2>8. Honest(c, q, w)
    BY <1>1, <2>2, <2>4, <2>6, <2>7 DEF Honest, CodingHonest, OriginHonest
  <2> QED BY <1>1, <2>1, <2>7, <2>8 DEF Handled
<1>3. CASE q.range # "none"
  <2>1. ServeFromCache(c, q, f, r) = ServeRange(q, s)
    BY <1>3 DEF ServeFromCache
  <2> HIDE DEF s
  <2>2. Keeps(c, q, s, ServeRange(q, s))
    BY <1>1, ServeRangeHonest
  <2> QED BY <1>1, <2>1, <2>2 DEF Handled, Keeps
<1> QED BY <1>2, <1>3

LEMMA ServeLargeHandled ==
    ASSUME NEW c \in Configs, NEW q \in Requests, NEW r, Honest(c, q, r),
           r.encoding = None
    PROVE  Handled(c, q, r, ServeLarge(q, r))
<1> DEFINE s == AddVary([r EXCEPT !.validators = TRUE], "Accept-Encoding")
           u == ServeRange(q, s)
           b == u.body # None
           w == [u EXCEPT !.stream = b]
<1>1. Honest(c, q, s) /\ s.vary = r.vary \cup {"Accept-Encoding"}
  BY FileHeadersHonest
<1>2. ServeLarge(q, r) = w
  BY DEF ServeLarge
<1> HIDE DEF s
<1>3. Honest(c, q, u) /\ u.vary = s.vary
  BY <1>1, ServeRangeHonest DEF Keeps
<1>4. u \in Response /\ b \in BOOLEAN
  BY <1>3 DEF Honest
<1> HIDE DEF u, b
<1>5. w \in Response
  BY <1>4 DEF Response
<1>6. w.vary = u.vary /\ w.acao = u.acao /\ w.encoding = u.encoding /\ w.status = u.status
  BY <1>4 DEF Response
<1> HIDE DEF w
<1> QED BY <1>1, <1>2, <1>3, <1>5, <1>6 DEF Handled, Honest, CodingHonest, OriginHonest

LEMMA ServeEmbeddedHandled ==
    ASSUME NEW c \in Configs, NEW q \in Requests, NEW r, Honest(c, q, r),
           r.encoding = None
    PROVE  Handled(c, q, r, ServeEmbedded(r))
<1> DEFINE t == 200
           v == TRUE
           b == "identity"
           s == AddVary([r EXCEPT !.status = t, !.validators = v, !.body = b],
                        "Accept-Encoding")
<1>1. /\ r \in Response /\ t \in Statuses /\ t # 304 /\ v \in BOOLEAN
      /\ b \in Codings \cup {"identity", None}
  BY StatusesSet DEF Honest
<1>2. ServeEmbedded(r) = s
  BY DEF ServeEmbedded
<1> HIDE DEF t, v, b
<1>3. s \in Response
  BY <1>1 DEF AddVary, Response
<1>4. /\ s.vary = r.vary \cup {"Accept-Encoding"} /\ s.acao = r.acao
      /\ s.encoding = r.encoding /\ s.status = t
  BY <1>1 DEF AddVary, Response
<1> HIDE DEF s
<1> QED BY <1>1, <1>2, <1>3, <1>4 DEF Handled, Honest, CodingHonest, OriginHonest

\* A status and a body are all that the rest of the handlers and sendError set.
LEMMA StatusBodyKeeps ==
    ASSUME NEW c \in Configs, NEW q \in Requests, NEW r, Honest(c, q, r),
           NEW t \in Statuses, t # 304, NEW b \in Codings \cup {"identity", None}
    PROVE  Keeps(c, q, r, [r EXCEPT !.status = t, !.body = b])
<1> DEFINE s == [r EXCEPT !.status = t, !.body = b]
<1>1. r \in Response
  BY DEF Honest
<1>2. s \in Response
  BY <1>1 DEF Response
<1>3. s.vary = r.vary /\ s.acao = r.acao /\ s.encoding = r.encoding /\ s.status = t
  BY <1>1 DEF Response
<1>4. Keeps(c, q, r, s)
  <2> HIDE DEF s
  <2> QED BY <1>2, <1>3, SameHeadersHonest DEF Keeps
<1> QED BY <1>4

LEMMA ServeNotFoundHandled ==
    ASSUME NEW c \in Configs, NEW q \in Requests, NEW r, Honest(c, q, r)
    PROVE  Handled(c, q, r, ServeNotFound(r))
<1> DEFINE t == 404
           b == "identity"
<1>1. ServeNotFound(r) = [r EXCEPT !.status = t, !.body = b]
  BY DEF ServeNotFound
<1>2. t \in Statuses /\ t # 304 /\ b \in Codings \cup {"identity", None}
  BY StatusesSet
<1> HIDE DEF t, b
<1>3. Keeps(c, q, r, [r EXCEPT !.status = t, !.body = b])
  BY <1>2, StatusBodyKeeps
<1> QED BY <1>1, <1>3 DEF Handled, Keeps

LEMMA ServeListingHandled ==
    ASSUME NEW c \in Configs, NEW q \in Requests, NEW r, Honest(c, q, r)
    PROVE  Handled(c, q, r, ServeDirectoryListing(q, r))
<1> DEFINE t == 200
           b == BodyFor(q, "identity")
<1>1. ServeDirectoryListing(q, r) = [r EXCEPT !.status = t, !.body = b]
  BY DEF ServeDirectoryListing
<1>2. t \in Statuses /\ t # 304 /\ b \in Codings \cup {"identity", None}
  BY StatusesSet DEF BodyFor
<1> HIDE DEF t, b
<1>3. Keeps(c, q, r, [r EXCEPT !.status = t, !.body = b])
  BY <1>2, StatusBodyKeeps
<1> QED BY <1>1, <1>3 DEF Handled, Keeps

LEMMA CtxErrorHandled ==
    ASSUME NEW c \in Configs, NEW q \in Requests, NEW r
    PROVE  Handled(c, q, r, CtxError(500))
<1>1. CtxError(500).status # 200
  BY DEF CtxError, Blank
<1> QED BY <1>1, CtxErrorHonest DEF Handled

LEMMA HandleRequestHandled ==
    ASSUME NEW c \in Configs, NEW q \in Requests, NEW f \in Resources,
           NEW r, Honest(c, q, r), r.encoding = None
    PROVE  Handled(c, q, r, HandleRequest(c, q, f, r))
<1>1. CASE f.kind \in {"cached", "large"} /\ q.fresh
  BY <1>1, NotModifiedHandled DEF HandleRequest
<1>2. CASE f.kind = "embedded" /\ q.fresh /\ c.etags
  BY <1>2, NotModifiedHandled DEF HandleRequest
<1>3. CASE f.kind = "cached" /\ ~q.fresh
  BY <1>3, ServeFromCacheHandled DEF HandleRequest
<1>4. CASE f.kind = "read"
  BY <1>4, ServeFromCacheHandled DEF HandleRequest
<1>5. CASE f.kind = "large" /\ ~q.fresh
  BY <1>5, ServeLargeHandled DEF HandleRequest
<1>6. CASE f.kind = "embedded" /\ ~(q.fresh /\ c.etags)
  BY <1>6, ServeEmbeddedHandled DEF HandleRequest
<1>7. CASE f.kind = "missing"
  BY <1>7, ServeNotFoundHandled DEF HandleRequest
<1>8. CASE f.kind = "listing"
  BY <1>8, ServeListingHandled DEF HandleRequest
<1>9. CASE f.kind \notin {"cached", "read", "large", "embedded", "missing", "listing"}
  BY <1>9, CtxErrorHandled DEF HandleRequest
<1> QED BY <1>1, <1>2, <1>3, <1>4, <1>5, <1>6, <1>7, <1>8, <1>9

-----------------------------------------------------------------------------
\* The compression middleware has announced that it looks at Accept-Encoding
\* before it compresses.
LEMMA CompressMiddlewareHonest ==
    ASSUME NEW c \in Configs, NEW q \in Requests, NEW f \in Resources,
           NEW r, Honest(c, q, r), r.encoding = None
    PROVE  Honest(c, q, CompressMiddleware(c, q, f, r))
<1>1. CASE ~(c.compress /\ AcceptsEncoding(q, "gzip"))
  BY <1>1, HandleRequestHandled DEF CompressMiddleware, Handled
<1>2. CASE c.compress /\ AcceptsEncoding(q, "gzip")
  <2> DEFINE a == AddVary(r, "Accept-Encoding")
             s == HandleRequest(c, q, f, a)
  <2>1. Honest(c, q, a) /\ a.encoding = None /\ "Accept-Encoding" \in a.vary
    BY AddVaryHonest
  <2>2. CompressMiddleware(c, q, f, r) = IF Compressible(f, s) THEN Compressed(s) ELSE s
    BY <1>2 DEF CompressMiddleware
  <2> HIDE DEF a
  <2>3. Honest(c, q, s) /\ (s.status = 200 => "Accept-Encoding" \in s.vary)
    BY <2>1, HandleRequestHandled DEF Handled
  <2> HIDE DEF s
  <2>4. CASE Compressible(f, s)
    <3> DEFINE g == "gzip"
               n == None
               w == [s EXCEPT !.encoding = g, !.body = g, !.length = n]
    <3>1. s \in Response /\ s.status = 200 /\ g \in Codings /\ n \in Codings \cup {"identity", None}
      BY <2>3, <2>4 DEF Honest, Compressible, Codings
    <3>2. AcceptsEncoding(q, g) /\ "Accept-Encoding" \in s.vary
      BY <1>2, <2>3, <3>1
    <3>3. CompressMiddleware(c, q, f, r) = w
      BY <2>2, <2>4 DEF Compressed
    <3> HIDE DEF g, n
    <3>4. w \in Response
      BY <3>1 DEF Response
    <3>5. w.vary = s.vary /\ w.acao = s.acao /\ w.encoding = g /\ w.status = s.status
      BY <3>1 DEF Response
    <3> HIDE DEF w
    <3> QED BY <2>3, <3>2, <3>3, <3>4, <3>5 DEF Honest, CodingHonest, OriginHonest
  <2>5. CASE ~Compressible(f, s)
    BY <2>2, <2>3, <2>5
  <2> QED BY <2>4, <2>5
<1> QED BY <1>1, <1>2

LEMMA BlankHonest ==
    ASSUME NEW c \in Configs, NEW q \in Requests
    PROVE  Honest(c, q, Blank) /\ Blank.encoding = None
<1>1. Blank \in Response
  BY StatusesSet
<1>2. Blank.encoding = None /\ Blank.acao = None /\ Blank.status # 304
  BY DEF Blank
<1> QED BY <1>1, <1>2 DEF Honest, CodingHonest, OriginHonest

\* sendError.
LEMMA SendErrorHonest ==
    ASSUME NEW c \in Configs, NEW q \in Requests, NEW r, Honest(c, q, r),
           NEW t \in Statuses, t # 304
    PROVE  Honest(c, q, SendError(r, t))
<1> DEFINE b == "identity"
<1>1. SendError(r, t) = [r EXCEPT !.status = t, !.body = b]
  BY DEF SendError
<1>2. b \in Codings \cup {"identity", None}
  OBVIOUS
<1> HIDE DEF b
<1>3. Keeps(c, q, r, [r EXCEPT !.status = t, !.body = b])
  BY <1>2, StatusBodyKeeps
<1> QED BY <1>1, <1>3 DEF Keeps

LEMMA SecurityMiddlewareHonest ==
    ASSUME NEW c \in Configs, NEW q \in Requests, NEW f \in Resources
    PROVE  Honest(c, q, SecurityMiddleware(c, q, f, Blank))
<1> DEFINE r == CORS(c, q, Blank)
<1>1. Honest(c, q, r) /\ r.encoding = None
  BY BlankHonest, CORSHonest
<1>2. CASE f.kind = "nul" \/ q.method = "POST" \/ f.kind = "refused"
  <2>1. \A t \in {400, 403, 405} : t \in Statuses /\ t # 304
    BY StatusesSet
  <2>2. \A t \in {400, 403, 405} : Honest(c, q, SendError(Blank, t))
    BY <2>1, BlankHonest, SendErrorHonest
  <2> QED BY <1>2, <2>2 DEF SecurityMiddleware
<1>3. CASE ~(f.kind = "nul" \/ q.method = "POST" \/ f.kind = "refused") /\ q.method = "OPTIONS"
  <2> DEFINE t == 204
             w == [r EXCEPT !.status = t]
  <2>1. SecurityMiddleware(c, q, f, Blank) = w
    BY <1>3 DEF SecurityMiddleware
  <2>2. r \in Response /\ t \in Statuses /\ t # 304
    BY <1>1, StatusesSet DEF Honest
  <2> HIDE DEF r, t
  <2>3. w \in Response
    BY <2>2 DEF Response
  <2>4. w.vary = r.vary /\ w.acao = r.acao /\ w.encoding = r.encoding /\ w.status = t
    BY <2>2 DEF Response
  <2> HIDE DEF w
  <2> QED BY <1>1, <2>1, <2>2, <2>3, <2>4, SameHeadersHonest
<1>4. CASE ~(f.kind = "nul" \/ q.method = "POST" \/ f.kind = "refused") /\ q.method # "OPTIONS"
  <2>1. SecurityMiddleware(c, q, f, Blank) = CompressMiddleware(c, q, f, r)
    BY <1>4 DEF SecurityMiddleware
  <2> HIDE DEF r
  <2> QED BY <1>1, <2>1, CompressMiddlewareHonest
<1> QED BY <1>2, <1>3, <1>4

\* Writing a response changes its length and its body only.
LEMMA WrittenHonest ==
    ASSUME NEW c \in Configs, NEW q \in Requests, NEW r, Honest(c, q, r)
    PROVE  Honest(c, q, Written(q, r)) /\ Written(q, r).status = r.status
<1> DEFINE l == IF r.body # None /\ r.status \notin {204, 304} THEN r.body ELSE r.length
           b == BodyFor(q, r.body)
           w == [r EXCEPT !.length = l, !.body = b]
<1>1. Written(q, r) = w
  BY DEF Written
<1>2. r \in Response
  BY DEF Honest
<1>3. r.body \in Codings \cup {"identity", None} /\ r.length \in Codings \cup {"identity", None}
  BY <1>2 DEF Response
<1>4. l \in Codings \cup {"identity", None} /\ b \in Codings \cup {"identity", None}
  BY <1>3 DEF BodyFor
<1> HIDE DEF l, b
<1>5. w \in Response
  BY <1>2, <1>4 DEF Response
<1>6. w.vary = r.vary /\ w.acao = r.acao /\ w.encoding = r.encoding /\ w.status = r.status
  BY <1>2 DEF Response
<1> HIDE DEF w
<1> QED BY <1>1, <1>5, <1>6 DEF Honest, CodingHonest, OriginHonest

\* Every answer of the server is honest.
LEMMA AnswerHonest ==
    ASSUME NEW c \in Configs, NEW q \in Requests, NEW f \in Resources
    PROVE  Honest(c, q, Answer(c, f, q)) /\ Honest(c, q, Recovered(q))
<1>1. Honest(c, q, SecurityMiddleware(c, q, f, Blank)) /\ Honest(c, q, CtxError(500))
  BY SecurityMiddlewareHonest, CtxErrorHonest
<1> QED BY <1>1, WrittenHonest DEF Answer, Recovered

-----------------------------------------------------------------------------
(* The shared cache.                                                       *)

\* The request that a revalidation sends is a request.
LEMMA RequestFreshened ==
    ASSUME NEW q \in Requests, NEW v \in BOOLEAN
    PROVE  [q EXCEPT !.fresh = v] \in Requests
BY DEF Requests

\* What is true of the stored response: it is honest about its coding, and
\* about its origin until a 304 has replaced it by that of another request.
StoredHonest ==
    stored # None =>
        /\ stored \in [req : Asked, resp : Response, file : Files, updated : BOOLEAN]
        /\ stored.resp.status # 304
        /\ CodingHonest(stored.req, stored.resp)
        /\ stored.resp.acao # None => stored.resp.acao \in cfg.cors
        /\ ~stored.updated => OriginHonest(cfg, stored.req, stored.resp)

IInv == cfg \in Sites /\ resource \in Files /\ StoredHonest

LEMMA InitIInv == Init => IInv
BY DEF Init, IInv, StoredHonest

LEMMA ForwardIInv ==
    ASSUME IInv, NEW q \in Asked, Forward(q)
    PROVE  IInv'
<1> DEFINE r == Answer(cfg, resource, q)
           s == [req |-> q, resp |-> r, file |-> resource, updated |-> FALSE]
<1>1. cfg \in Configs /\ q \in Requests /\ resource \in Resources /\ resource \in Files
  BY AskedAssumption DEF IInv
<1>2. Honest(cfg, q, r)
  BY <1>1, AnswerHonest
<1>3. r.status # 304 /\ stored' = s /\ cfg' = cfg /\ resource' = resource
  BY DEF Forward, Stored
<1> HIDE DEF r
<1>4. s \in [req : Asked, resp : Response, file : Files, updated : BOOLEAN]
  BY <1>1, <1>2 DEF Honest
<1>5. s.req = q /\ s.resp = r /\ s.updated = FALSE
  OBVIOUS
<1> HIDE DEF s
<1>6. CodingHonest(s.req, s.resp) /\ OriginHonest(cfg, s.req, s.resp)
  BY <1>2, <1>5 DEF Honest
<1>7. s.resp.acao # None => s.resp.acao \in cfg.cors
  BY <1>6 DEF OriginHonest
<1> QED BY <1>3, <1>4, <1>5, <1>6, <1>7 DEF IInv, StoredHonest, CodingHonest, OriginHonest

LEMMA RevalidateIInv ==
    ASSUME IInv, NEW q \in Asked, Revalidate(q)
    PROVE  IInv'
<1> DEFINE cur == stored.file.version = resource.version
           p == [q EXCEPT !.fresh = cur]
           r == Answer(cfg, resource, p)
           v == IF r.vary = {} THEN stored.resp.vary ELSE r.vary
           a == IF r.acao = None THEN stored.resp.acao ELSE r.acao
           u == TRUE
           m == [stored.resp EXCEPT !.vary = v, !.acao = a]
           s == [stored EXCEPT !.updated = u, !.resp = m]
<1>1. cfg \in Configs /\ q \in Requests /\ resource \in Resources /\ resource \in Files
  BY AskedAssumption DEF IInv
<1>2. p \in Requests
  <2>1. cur \in BOOLEAN
    OBVIOUS
  <2> HIDE DEF cur
  <2> QED BY <1>1, <2>1, RequestFreshened
<1>3. stored # None /\ cfg' = cfg /\ resource' = resource /\ r.status = 304
  BY DEF Revalidate, Selected, Validated
<1>4. stored' = s
  BY DEF Revalidate, Freshened, Validated
<1> HIDE DEF p
<1>5. Honest(cfg, p, r)
  BY <1>1, <1>2, AnswerHonest
<1>6. "Accept-Encoding" \in v /\ v \subseteq {"Origin", "Accept-Encoding"}
  BY <1>3, <1>5 DEF Honest, CodingHonest, Response
<1>7. /\ stored \in [req : Asked, resp : Response, file : Files, updated : BOOLEAN]
      /\ stored.resp.status # 304 /\ CodingHonest(stored.req, stored.resp)
      /\ stored.resp.acao # None => stored.resp.acao \in cfg.cors
  BY <1>3 DEF IInv, StoredHonest
<1>8. a \in Origins \cup {Star, None} /\ (a # None => a \in cfg.cors)
  BY <1>5, <1>7 DEF Honest, OriginHonest, Response
<1>9. u \in BOOLEAN /\ u = TRUE
  OBVIOUS
<1> HIDE DEF r, v, a, u
<1>10. /\ m \in Response
       /\ m.vary = v /\ m.acao = a /\ m.encoding = stored.resp.encoding
       /\ m.status = stored.resp.status
  <2> DEFINE old == stored.resp
  <2>1. old \in Response
    BY <1>7
  <2> HIDE DEF old
  <2>2. /\ [old EXCEPT !.vary = v, !.acao = a] \in Response
        /\ [old EXCEPT !.vary = v, !.acao = a].vary = v
        /\ [old EXCEPT !.vary = v, !.acao = a].acao = a
        /\ [old EXCEPT !.vary = v, !.acao = a].encoding = old.encoding
        /\ [old EXCEPT !.vary = v, !.acao = a].status = old.status
    BY <1>6, <1>8, <2>1 DEF Response
  <2> QED BY <2>2 DEF old
<1> HIDE DEF m
<1>13. s \in [req : Asked, resp : Response, file : Files, updated : BOOLEAN]
  BY <1>7, <1>9, <1>10
<1>11. s.req = stored.req /\ s.updated = u /\ s.resp = m
  BY <1>7
<1> HIDE DEF s
<1>12. CodingHonest(s.req, s.resp)
  BY <1>6, <1>7, <1>10, <1>11 DEF CodingHonest
<1> QED BY <1>3, <1>4, <1>7, <1>8, <1>9, <1>10, <1>11, <1>12, <1>13
        DEF IInv, StoredHonest, CodingHonest, OriginHonest

\* The invariant is inductive.
LEMMA NextIInv == IInv /\ [Next]_vars => IInv'
<1> SUFFICES ASSUME IInv, [Next]_vars PROVE IInv'
  OBVIOUS
<1>1. CASE \E q \in Asked : Forward(q)
  BY <1>1, ForwardIInv
<1>2. CASE \E q \in Asked : Revalidate(q)
  BY <1>2, RevalidateIInv
<1>3. CASE Evict
  BY <1>3 DEF Evict, IInv, StoredHonest
<1>4. CASE \E f \in Files : Redeploy(f)
  BY <1>4 DEF Redeploy, IInv, StoredHonest, CodingHonest, OriginHonest
<1>5. CASE UNCHANGED vars
  BY <1>5 DEF vars, IInv, StoredHonest, CodingHonest, OriginHonest
<1> QED BY <1>1, <1>2, <1>3, <1>4, <1>5 DEF Next

LEMMA Inductive == Spec => []IInv
<1>1. Init => IInv
  BY InitIInv
<1>2. IInv /\ [Next]_vars => IInv'
  BY NextIInv
<1> QED BY <1>1, <1>2, PTL DEF Spec

-----------------------------------------------------------------------------
\* Every variable has its type; so has every response that is stored.
THEOREM TypeCorrect == Spec => []TypeOK
<1>1. IInv => TypeOK
  BY DEF IInv, StoredHonest, TypeOK
<1> QED BY <1>1, Inductive, PTL

\* What AcceptsEncoding finds is acceptable by RFC 9110.
LEMMA AcceptedAcceptable ==
    ASSUME NEW q \in Requests, NEW e, AcceptsEncoding(q, e)
    PROVE  Acceptable(q, e)
<1>1. PICK i \in DOMAIN q.accept : q.accept[i] = [coding |-> e, q |-> 1]
  BY DEF AcceptsEncoding
<1>2. q.accept[i].coding = e /\ q.accept[i].q # 0
  BY <1>1
<1> QED BY <1>2 DEF Acceptable

\* A stored response with a coding has been negotiated by Accept-Encoding, so
\* that it is only selected for requests with the same Accept-Encoding.
LEMMA SelectedAccepts ==
    ASSUME IInv, NEW q \in Requests, Selected(q), stored.resp.encoding # None
    PROVE  AcceptsEncoding(q, stored.resp.encoding)
<1>1. /\ AcceptsEncoding(stored.req, stored.resp.encoding)
      /\ "Accept-Encoding" \in stored.resp.vary
  BY DEF Selected, IInv, StoredHonest, CodingHonest
<1>2. q.accept = stored.req.accept
  BY <1>1 DEF Selected, Nominated
<1> QED BY <1>1, <1>2 DEF AcceptsEncoding

\* The headers of what a client receives: those of an honest answer to its own
\* request, or those of the stored response that was selected for it.
LEMMA ReceivedHeaders ==
    ASSUME IInv, NEW q \in Asked, NEW r \in Received(q)
    PROVE  \/ Honest(cfg, q, r)
           \/ /\ Selected(q)
              /\ r.encoding = stored.resp.encoding /\ r.acao = stored.resp.acao
<1>1. cfg \in Configs /\ q \in Requests /\ resource \in Resources
  BY AskedAssumption DEF IInv
<1>2. CASE r \in FromServer(q)
  BY <1>1, <1>2, AnswerHonest DEF FromServer
<1>3. CASE r \in FromCache(q)
  <2> DEFINE b == BodyFor(q, stored.resp.body)
             m == stored.resp
  <2>1. Selected(q) /\ r = [m EXCEPT !.body = b]
    BY <1>3 DEF FromCache
  <2>2. m \in Response
    BY <2>1 DEF Selected, IInv, StoredHonest
  <2> HIDE DEF b, m
  <2>3. r.encoding = m.encoding /\ r.acao = m.acao
    BY <2>1, <2>2 DEF Response
  <2> QED BY <2>1, <2>3 DEF m
<1> QED BY <1>2, <1>3 DEF Received

\* No client receives a coding it cannot decode, through the cache either.
THEOREM CodingsAcceptable == Spec => []AcceptableEncoding
<1>1. IInv => AcceptableEncoding
  <2> SUFFICES ASSUME IInv, NEW q \in Asked, NEW r \in Received(q), r.encoding # None
               PROVE  Acceptable(q, r.encoding)
    BY DEF AcceptableEncoding
  <2>1. q \in Requests
    BY AskedAssumption
  <2>2. AcceptsEncoding(q, r.encoding)
    BY <2>1, ReceivedHeaders, SelectedAccepts DEF Honest, CodingHonest
  <2> QED BY <2>1, <2>2, AcceptedAcceptable
<1> QED BY <1>1, Inductive, PTL

\* No client is told of another client's origin, unless a 304 has updated the
\* stored response.
THEOREM OriginsOwn == Spec => []OwnOriginUnlessUpdated
<1>1. IInv => OwnOriginUnlessUpdated
  <2> SUFFICES ASSUME IInv, NEW q \in Asked, NEW r \in Received(q), r.acao # None
               PROVE  /\ r.acao \in cfg.cors
                      /\ \/ r.acao \in {Star, q.origin}
                         \/ q.origin = None
                         \/ stored # None /\ stored.updated
    BY DEF OwnOriginUnlessUpdated
  <2>1. CASE Honest(cfg, q, r)
    BY <2>1 DEF Honest, OriginHonest
  <2>2. CASE Selected(q) /\ r.acao = stored.resp.acao
    <3>1. stored # None /\ r.acao \in cfg.cors
      BY <2>2 DEF Selected, IInv, StoredHonest
    <3>2. CASE ~stored.updated
      <4>1. r.acao = Star \/ (r.acao = stored.req.origin /\ "Origin" \in stored.resp.vary)
        BY <2>2, <3>1, <3>2 DEF IInv, StoredHonest, OriginHonest
      <4>2. "Origin" \in stored.resp.vary => q.origin = stored.req.origin
        BY <2>2 DEF Selected, Nominated
      <4> QED BY <3>1, <4>1, <4>2
    <3> QED BY <3>1, <3>2
  <2> QED BY <2>1, <2>2, ReceivedHeaders
<1> QED BY <1>1, Inductive, PTL

-----------------------------------------------------------------------------
(* What the layers make of the fields that parts of a file, HEAD and 304   *)
(* are about.                                                              *)

Bodies == Codings \cup {"identity", None}

\* A response that no handler has touched: headers of the outer layers only.
Bare(r) ==
    /\ r \in Response
    /\ r.encoding = None /\ r.body = None /\ r.length = None
    /\ ~r.partial /\ ~r.stream

\* s has the headers that the outer layers gave r.
SameOrigin(r, s) == s.vary = r.vary /\ s.acao = r.acao

\* s has the headers of a file: those of r, Vary and the validators.
OfFile(r, s) ==
    s.vary = r.vary \cup {"Accept-Encoding"} /\ s.acao = r.acao /\ s.validators = TRUE

\* A part of a file is a part of the content itself.
PartialPlain(r) ==
    r \in Response /\ (r.partial => r.encoding = None /\ r.body \in {"identity", None})

LEMMA BareStays ==
    ASSUME NEW c \in Configs, NEW q \in Requests
    PROVE  Bare(CORS(c, q, Blank)) /\ CORS(c, q, Blank).status = 0
<1>1. Blank \in Response /\ q.origin \in Origins \cup {None} /\ c.cors \subseteq Origins \cup {Star}
  BY StatusesSet DEF Requests, Configs
<1>2. Bare(Blank) /\ Blank.status = 0
  BY <1>1 DEF Bare, Blank
<1>3. CASE q.origin # None /\ c.cors = {Star}
  <2> DEFINE o == Star
             b == Blank
  <2>1. CORS(c, q, Blank) = [b EXCEPT !.acao = o]
    BY <1>3 DEF CORS
  <2>2. o \in Origins \cup {Star, None} /\ Bare(b) /\ b.status = 0
    BY <1>2
  <2> HIDE DEF o, b
  <2> QED BY <2>1, <2>2 DEF Bare, Response
<1>4. CASE q.origin # None /\ c.cors # {Star} /\ q.origin \in c.cors
  <2> DEFINE o == q.origin
             b == Blank
  <2>1. CORS(c, q, Blank) = AddVary([b EXCEPT !.acao = o], "Origin")
    BY <1>4 DEF CORS
  <2>2. o \in Origins \cup {Star, None} /\ Bare(b) /\ b.status = 0
    BY <1>1, <1>2
  <2> HIDE DEF o, b
  <2> QED BY <2>1, <2>2 DEF AddVary, Bare, Response
<1>5. CASE q.origin = None \/ (c.cors # {Star} /\ q.origin \notin c.cors)
  BY <1>2, <1>5 DEF CORS
<1> QED BY <1>3, <1>4, <1>5

LEMMA BareVaries ==
    ASSUME NEW r, Bare(r)
    PROVE  /\ Bare(AddVary(r, "Accept-Encoding"))
           /\ AddVary(r, "Accept-Encoding").vary = r.vary \cup {"Accept-Encoding"}
           /\ AddVary(r, "Accept-Encoding").acao = r.acao
BY DEF AddVary, Bare, Response

\* CheckNotModified.
LEMMA NotModifiedFields ==
    ASSUME NEW r, Bare(r)
    PROVE  LET s == CheckedNotModified(r)
           IN /\ s \in Response /\ OfFile(r, s) /\ s.status = 304
              /\ ~s.partial
<1> DEFINE t == 304
           v == TRUE
           s == AddVary([r EXCEPT !.status = t, !.validators = v], "Accept-Encoding")
<1>1. r \in Response /\ ~r.partial /\ t \in Statuses /\ v \in BOOLEAN
  BY StatusesSet DEF Bare
<1>2. CheckedNotModified(r) = s /\ t = 304 /\ v = TRUE
  BY DEF CheckedNotModified, NotModified
<1> HIDE DEF t, v
<1>3. /\ s \in Response
      /\ s.vary = r.vary \cup {"Accept-Encoding"} /\ s.acao = r.acao
      /\ s.validators = v /\ s.status = t /\ s.partial = r.partial
  BY <1>1 DEF AddVary, Response
<1> HIDE DEF s
<1> QED BY <1>1, <1>2, <1>3 DEF OfFile

\* SetFileHeaders.
LEMMA FileHeadersFields ==
    ASSUME NEW r, Bare(r)
    PROVE  LET s == AddVary([r EXCEPT !.validators = TRUE], "Accept-Encoding")
           IN Bare(s) /\ OfFile(r, s)
<1> DEFINE v == TRUE
           s == AddVary([r EXCEPT !.validators = v], "Accept-Encoding")
<1>1. r \in Response /\ v \in BOOLEAN /\ v = TRUE
  BY DEF Bare
<1> HIDE DEF v
<1>2. /\ s \in Response
      /\ s.vary = r.vary \cup {"Accept-Encoding"} /\ s.acao = r.acao
      /\ s.validators = v /\ s.encoding = r.encoding /\ s.body = r.body
      /\ s.length = r.length /\ s.partial = r.partial /\ s.stream = r.stream
  BY <1>1 DEF AddVary, Response
<1> HIDE DEF s
<1>3. Bare(s) /\ OfFile(r, s)
  BY <1>1, <1>2 DEF Bare, OfFile
<1> QED BY <1>1, <1>3 DEF s

\* serveRange, on a response that has the headers of the file.
LEMMA ServeRangeFields ==
    ASSUME NEW q \in Requests, NEW r, Bare(r)
    PROVE  LET s == ServeRange(q, r)
           IN /\ s \in Response /\ SameOrigin(r, s) /\ s.validators = r.validators
              /\ s.encoding = None /\ s.body \in {"identity", None} /\ ~s.stream
              /\ s.status # 304
              /\ q.range # "unsatisfiable" =>
                    /\ s.status = (IF q.range = "some" THEN 206 ELSE 200)
                    /\ s.length = "identity" /\ s.body = BodyFor(q, "identity")
<1>1. /\ r \in Response /\ r.encoding = None /\ r.body = None /\ ~r.stream
      /\ 416 \in Statuses /\ 200 \in Statuses /\ 206 \in Statuses
  BY StatusesSet DEF Bare
<1>2. CASE q.range = "unsatisfiable"
  <2> DEFINE t == 416
             p == TRUE
             s == [r EXCEPT !.status = t, !.partial = p]
  <2>1. ServeRange(q, r) = s
    BY <1>2 DEF ServeRange
  <2>2. t \in Statuses /\ t # 304 /\ p \in BOOLEAN
    BY <1>1
  <2> HIDE DEF t, p
  <2>3. /\ s \in Response /\ s.vary = r.vary /\ s.acao = r.acao
        /\ s.validators = r.validators /\ s.encoding = r.encoding /\ s.body = r.body
        /\ s.stream = r.stream /\ s.status = t
    BY <1>1, <2>2 DEF Response
  <2> HIDE DEF s
  <2> QED BY <1>1, <1>2, <2>1, <2>2, <2>3 DEF SameOrigin
<1>3. CASE q.range # "unsatisfiable"
  <2> DEFINE t == IF q.range = "some" THEN 206 ELSE 200
             p == q.range = "some"
             b == BodyFor(q, "identity")
             s == [r EXCEPT !.status = t, !.partial = p, !.length = "identity", !.body = b]
  <2>1. ServeRange(q, r) = s
    BY <1>3 DEF ServeRange
  <2>2. t # 304 /\ t = (IF q.range = "some" THEN 206 ELSE 200)
    OBVIOUS
  <2>3. b \in {"identity", None} /\ b = BodyFor(q, "identity")
    BY DEF BodyFor
  <2>7. /\ r \in Response /\ t \in Statuses /\ p \in BOOLEAN
        /\ b \in Codings \cup {"identity", None}
        /\ "identity" \in Codings \cup {"identity", None}
    BY <1>1, <2>3
  <2> HIDE DEF t, p, b
  <2>4. s \in Response
    BY <2>7 DEF Response
  <2>5. /\ s.vary = r.vary /\ s.acao = r.acao /\ s.validators = r.validators
        /\ s.encoding = r.encoding /\ s.stream = r.stream
    BY <1>1 DEF Response
  <2>6. s.status = t /\ s.partial = p /\ s.length = "identity" /\ s.body = b
    BY <1>1 DEF Response
  <2> HIDE DEF s
  <2> QED BY <1>1, <2>1, <2>2, <2>3, <2>4, <2>5, <2>6 DEF SameOrigin
<1> QED BY <1>2, <1>3

\* serveFromCache: the headers of the file, and without a Range the negotiated
\* variant whole.
LEMMA ServeFromCacheFields ==
    ASSUME NEW c \in Configs, NEW q \in Requests, NEW f \in Resources, NEW r, Bare(r)
    PROVE  LET s == ServeFromCache(c, q, f, r)
               e == NegotiateEncoding(c, q, f)
           IN /\ PartialPlain(s) /\ OfFile(r, s) /\ s.status # 304
              /\ q.range = "none" =>
                    /\ s.status = 200 /\ ~s.partial /\ ~s.stream /\ s.encoding = e
                    /\ s.length = Plain(e) /\ s.body = BodyFor(q, Plain(e))
<1> DEFINE s == AddVary([r EXCEPT !.validators = TRUE], "Accept-Encoding")
           e == NegotiateEncoding(c, q, f)
<1>1. Bare(s) /\ OfFile(r, s)
  BY FileHeadersFields
<1>2. CASE q.range = "none"
  <2> DEFINE t == 200
             l == Plain(e)
             b == BodyFor(q, Plain(e))
             w == [s EXCEPT !.status = t, !.encoding = e, !.length = l, !.body = b]
  <2>1. ServeFromCache(c, q, f, r) = w
    BY <1>2 DEF ServeFromCache
  <2>2. e \in Codings \cup {None}
    BY NegotiatedAccepted
  <2>3. l \in Codings \cup {"identity", None} /\ b \in Codings \cup {"identity", None}
    BY <2>2 DEF Plain, BodyFor
  <2>4. t \in Statuses
    BY StatusesSet
  <2>5. s \in Response
    BY <1>1 DEF Bare
  <2>6. ~s.partial /\ ~s.stream
    BY <1>1 DEF Bare
  <2>10. t = 200 /\ l = Plain(e) /\ b = BodyFor(q, Plain(e)) /\ e = NegotiateEncoding(c, q, f)
    OBVIOUS
  <2> HIDE DEF t, e, l, b, s
  <2>7. w \in Response
    BY <2>2, <2>3, <2>4, <2>5 DEF Response
  <2>8. /\ w.vary = s.vary /\ w.acao = s.acao /\ w.validators = s.validators
        /\ w.partial = s.partial /\ w.stream = s.stream
    BY <2>5 DEF Response
  <2>9. w.status = t /\ w.encoding = e /\ w.length = l /\ w.body = b
    BY <2>5 DEF Response
  <2> HIDE DEF w
  <2> QED BY <1>1, <2>1, <2>6, <2>7, <2>8, <2>9, <2>10 DEF OfFile, PartialPlain
<1>3. CASE q.range # "none"
  <2>1. ServeFromCache(c, q, f, r) = ServeRange(q, s)
    BY <1>3 DEF ServeFromCache
  <2> HIDE DEF s
  <2>2. /\ ServeRange(q, s) \in Response /\ SameOrigin(s, ServeRange(q, s))
        /\ ServeRange(q, s).validators = s.validators
        /\ ServeRange(q, s).encoding = None
        /\ ServeRange(q, s).body \in {"identity", None}
        /\ ServeRange(q, s).status # 304
    BY <1>1, ServeRangeFields
  <2> QED BY <1>1, <1>3, <2>1, <2>2 DEF OfFile, PartialPlain, SameOrigin
<1> QED BY <1>2, <1>3

\* serveLargeFile: the content, whole or in part, as a stream.
LEMMA ServeLargeFields ==
    ASSUME NEW q \in Requests, NEW r, Bare(r)
    PROVE  LET s == ServeLarge(q, r)
           IN /\ PartialPlain(s) /\ OfFile(r, s) /\ s.status # 304 /\ s.encoding = None
              /\ s.stream = (s.body # None)
              /\ q.range # "unsatisfiable" =>
                    /\ s.status = (IF q.range = "some" THEN 206 ELSE 200)
                    /\ s.length = "identity" /\ s.body = BodyFor(q, "identity")
<1> DEFINE s == AddVary([r EXCEPT !.validators = TRUE], "Accept-Encoding")
           u == ServeRange(q, s)
           b == u.body # None
           w == [u EXCEPT !.stream = b]
<1>1. Bare(s) /\ OfFile(r, s)
  BY FileHeadersFields
<1>2. ServeLarge(q, r) = w
  BY DEF ServeLarge
<1> HIDE DEF s
<1>3. /\ u \in Response /\ SameOrigin(s, u) /\ u.validators = s.validators
      /\ u.encoding = None /\ u.body \in {"identity", None} /\ u.status # 304
      /\ q.range # "unsatisfiable" =>
            /\ u.status = (IF q.range = "some" THEN 206 ELSE 200)
            /\ u.length = "identity" /\ u.body = BodyFor(q, "identity")
  BY <1>1, ServeRangeFields
<1>4. u \in Response /\ b \in BOOLEAN /\ b = (u.body # None)
  BY <1>3
<1> HIDE DEF u, b
<1>5. w \in Response
  BY <1>4 DEF Response
<1>6. /\ w.vary = u.vary /\ w.acao = u.acao /\ w.validators = u.validators
      /\ w.encoding = u.encoding /\ w.status = u.status
  BY <1>4 DEF Response
<1>7. w.partial = u.partial /\ w.length = u.length /\ w.body = u.body /\ w.stream = b
  BY <1>4 DEF Response
<1> HIDE DEF w
<1> QED BY <1>1, <1>2, <1>3, <1>4, <1>5, <1>6, <1>7 DEF OfFile, PartialPlain, SameOrigin

\* serveEmbedded.
LEMMA ServeEmbeddedFields ==
    ASSUME NEW r, Bare(r)
    PROVE  LET s == ServeEmbedded(r)
           IN PartialPlain(s) /\ OfFile(r, s) /\ s.status # 304
<1> DEFINE t == 200
           v == TRUE
           b == "identity"
           s == AddVary([r EXCEPT !.status = t, !.validators = v, !.body = b],
                        "Accept-Encoding")
<1>1. /\ r \in Response /\ ~r.partial /\ t \in Statuses /\ t # 304
      /\ v \in BOOLEAN /\ v = TRUE /\ b \in Codings \cup {"identity", None}
  BY StatusesSet DEF Bare
<1>2. ServeEmbedded(r) = s
  BY DEF ServeEmbedded
<1> HIDE DEF t, v, b
<1>3. s \in Response
  BY <1>1 DEF AddVary, Response
<1>4. /\ s.vary = r.vary \cup {"Accept-Encoding"} /\ s.acao = r.acao
      /\ s.validators = v /\ s.status = t /\ s.partial = r.partial
  BY <1>1 DEF AddVary, Response
<1> HIDE DEF s
<1> QED BY <1>1, <1>2, <1>3, <1>4 DEF OfFile, PartialPlain

\* A status and a body are all that the rest of the handlers and sendError set.
StatusBody(r, t, b, s) ==
    /\ PartialPlain(s) /\ SameOrigin(r, s)
    /\ s.status = t /\ s.body = b
    /\ s.encoding = None /\ s.length = None /\ ~s.partial /\ ~s.stream

LEMMA StatusBodyFields ==
    ASSUME NEW r, Bare(r), NEW t \in Statuses, NEW b \in Codings \cup {"identity", None}
    PROVE  StatusBody(r, t, b, [r EXCEPT !.status = t, !.body = b])
<1> DEFINE w == [r EXCEPT !.status = t, !.body = b]
<1>1. /\ r \in Response /\ r.encoding = None /\ r.length = None
      /\ ~r.partial /\ ~r.stream
  BY DEF Bare
<1>2. w \in Response
  BY <1>1 DEF Response
<1>3. /\ w.vary = r.vary /\ w.acao = r.acao /\ w.status = t /\ w.body = b
      /\ w.encoding = r.encoding /\ w.length = r.length
      /\ w.partial = r.partial /\ w.stream = r.stream
  BY <1>1 DEF Response
<1>4. StatusBody(r, t, b, w)
  <2> HIDE DEF w
  <2> QED BY <1>1, <1>2, <1>3 DEF StatusBody, PartialPlain, SameOrigin
<1> QED BY <1>4

LEMMA ServeNotFoundFields ==
    ASSUME NEW r, Bare(r)
    PROVE  StatusBody(r, 404, "identity", ServeNotFound(r))
<1> DEFINE t == 404
           b == "identity"
<1>1. t \in Statuses /\ b \in Codings \cup {"identity", None}
  BY StatusesSet
<1>2. StatusBody(r, t, b, [r EXCEPT !.status = t, !.body = b])
  <2> HIDE DEF t, b
  <2> QED BY <1>1, StatusBodyFields
<1> QED BY <1>2 DEF ServeNotFound

LEMMA ServeListingFields ==
    ASSUME NEW q \in Requests, NEW r, Bare(r)
    PROVE  StatusBody(r, 200, BodyFor(q, "identity"), ServeDirectoryListing(q, r))
<1> DEFINE t == 200
           b == BodyFor(q, "identity")
<1>1. t \in Statuses /\ b \in Codings \cup {"identity", None}
  BY StatusesSet DEF BodyFor
<1>2. StatusBody(r, t, b, [r EXCEPT !.status = t, !.body = b])
  <2> HIDE DEF t, b
  <2> QED BY <1>1, StatusBodyFields
<1> QED BY <1>2 DEF ServeDirectoryListing

LEMMA CtxErrorFields == StatusBody(Blank, 500, "identity", CtxError(500))
<1> DEFINE t == 500
           b == "identity"
           r == Blank
<1>1. t \in Statuses /\ b \in Codings \cup {"identity", None} /\ Bare(r)
  BY StatusesSet DEF Bare, Blank
<1>2. StatusBody(r, t, b, [r EXCEPT !.status = t, !.body = b])
  <2> HIDE DEF t, b, r
  <2> QED BY <1>1, StatusBodyFields
<1> QED BY <1>2 DEF CtxError

-----------------------------------------------------------------------------
(* A part of a file is a part of the content itself.                       *)

LEMMA HandleRequestPartial ==
    ASSUME NEW c \in Configs, NEW q \in Requests, NEW f \in Resources, NEW r, Bare(r)
    PROVE  PartialPlain(HandleRequest(c, q, f, r))
<1>1. CASE f.kind \in {"cached", "large"} /\ q.fresh
  BY <1>1, NotModifiedFields DEF HandleRequest, PartialPlain
<1>2. CASE f.kind = "embedded" /\ q.fresh /\ c.etags
  BY <1>2, NotModifiedFields DEF HandleRequest, PartialPlain
<1>3. CASE f.kind = "cached" /\ ~q.fresh
  BY <1>3, ServeFromCacheFields DEF HandleRequest
<1>4. CASE f.kind = "read"
  BY <1>4, ServeFromCacheFields DEF HandleRequest
<1>5. CASE f.kind = "large" /\ ~q.fresh
  BY <1>5, ServeLargeFields DEF HandleRequest
<1>6. CASE f.kind = "embedded" /\ ~(q.fresh /\ c.etags)
  BY <1>6, ServeEmbeddedFields DEF HandleRequest
<1>7. CASE f.kind = "missing"
  BY <1>7, ServeNotFoundFields DEF HandleRequest, StatusBody
<1>8. CASE f.kind = "listing"
  BY <1>8, ServeListingFields DEF HandleRequest, StatusBody
<1>9. CASE f.kind \notin {"cached", "read", "large", "embedded", "missing", "listing"}
  BY <1>9, CtxErrorFields DEF HandleRequest, StatusBody
<1> QED BY <1>1, <1>2, <1>3, <1>4, <1>5, <1>6, <1>7, <1>8, <1>9

\* What the compression middleware compresses, it only announces as gzip.
LEMMA CompressedFields ==
    ASSUME NEW s \in Response
    PROVE  LET w == Compressed(s)
           IN /\ w \in Response /\ SameOrigin(s, w) /\ w.validators = s.validators
              /\ w.encoding = "gzip" /\ w.body = "gzip" /\ w.length = None
              /\ w.status = s.status /\ w.partial = s.partial
<1> DEFINE g == "gzip"
           n == None
           w == [s EXCEPT !.encoding = g, !.body = g, !.length = n]
<1>1. g \in Codings /\ n \in Codings \cup {"identity", None}
  BY DEF Codings
<1>2. Compressed(s) = w /\ g = "gzip" /\ n = None
  BY DEF Compressed
<1> HIDE DEF g, n
<1>3. w \in Response
  BY <1>1 DEF Response
<1>4. /\ w.vary = s.vary /\ w.acao = s.acao /\ w.validators = s.validators
      /\ w.status = s.status /\ w.partial = s.partial
  BY DEF Response
<1>5. w.encoding = g /\ w.body = g /\ w.length = n
  BY DEF Response
<1> HIDE DEF w
<1> QED BY <1>2, <1>3, <1>4, <1>5 DEF SameOrigin

LEMMA CompressMiddlewarePartial ==
    ASSUME NEW c \in Configs, NEW q \in Requests, NEW f \in Resources, NEW r, Bare(r)
    PROVE  PartialPlain(CompressMiddleware(c, q, f, r))
<1> DEFINE a == AddVary(r, "Accept-Encoding")
           s == HandleRequest(c, q, f, a)
<1>1. CASE ~(c.compress /\ AcceptsEncoding(q, "gzip"))
  BY <1>1, HandleRequestPartial DEF CompressMiddleware
<1>2. CASE c.compress /\ AcceptsEncoding(q, "gzip")
  <2>1. CompressMiddleware(c, q, f, r) = IF Compressible(f, s) THEN Compressed(s) ELSE s
    BY <1>2 DEF CompressMiddleware
  <2>2. PartialPlain(s)
    <3>1. Bare(a)
      BY BareVaries
    <3> HIDE DEF a
    <3> QED BY <3>1, HandleRequestPartial
  <2> HIDE DEF s
  <2>3. CASE Compressible(f, s)
    BY <2>1, <2>2, <2>3, CompressedFields DEF Compressible, PartialPlain
  <2> QED BY <2>1, <2>2, <2>3
<1> QED BY <1>1, <1>2

\* sendError and the answer to OPTIONS carry no part of a file.
LEMMA SendErrorPartial ==
    ASSUME NEW r, Bare(r), NEW t \in Statuses
    PROVE  StatusBody(r, t, "identity", SendError(r, t))
<1> DEFINE b == "identity"
<1>1. b \in Codings \cup {"identity", None}
  OBVIOUS
<1>2. StatusBody(r, t, b, [r EXCEPT !.status = t, !.body = b])
  <2> HIDE DEF b
  <2> QED BY <1>1, StatusBodyFields
<1> QED BY <1>2 DEF SendError

LEMMA SecurityMiddlewarePartial ==
    ASSUME NEW c \in Configs, NEW q \in Requests, NEW f \in Resources
    PROVE  PartialPlain(SecurityMiddleware(c, q, f, Blank))
<1> DEFINE r == CORS(c, q, Blank)
<1>1. Bare(r)
  BY BareStays
<1>2. CASE f.kind = "nul" \/ q.method = "POST" \/ f.kind = "refused"
  <2>1. Bare(Blank) /\ \A t \in {400, 403, 405} : t \in Statuses
    BY StatusesSet DEF Bare, Blank
  <2>2. \A t \in {400, 403, 405} : PartialPlain(SendError(Blank, t))
    BY <2>1, SendErrorPartial DEF StatusBody
  <2> QED BY <1>2, <2>2 DEF SecurityMiddleware
<1>3. CASE ~(f.kind = "nul" \/ q.method = "POST" \/ f.kind = "refused") /\ q.method = "OPTIONS"
  <2> DEFINE t == 204
             w == [r EXCEPT !.status = t]
  <2>1. SecurityMiddleware(c, q, f, Blank) = w
    BY <1>3 DEF SecurityMiddleware
  <2>2. r \in Response /\ ~r.partial /\ t \in Statuses
    BY <1>1, StatusesSet DEF Bare
  <2> HIDE DEF r, t
  <2>3. w \in Response /\ w.partial = r.partial
    BY <2>2 DEF Response
  <2> QED BY <2>1, <2>2, <2>3 DEF PartialPlain
<1>4. CASE ~(f.kind = "nul" \/ q.method = "POST" \/ f.kind = "refused") /\ q.method # "OPTIONS"
  <2>1. SecurityMiddleware(c, q, f, Blank) = CompressMiddleware(c, q, f, r)
    BY <1>4 DEF SecurityMiddleware
  <2> HIDE DEF r
  <2> QED BY <1>1, <2>1, CompressMiddlewarePartial
<1> QED BY <1>2, <1>3, <1>4

\* What fasthttp writes: a response with the headers it was given, no body for
\* HEAD, and the length of the body if there is one.
LEMMA WrittenFields ==
    ASSUME NEW q \in Requests, NEW r \in Response
    PROVE  LET w == Written(q, r)
           IN /\ w \in Response /\ SameOrigin(r, w) /\ w.validators = r.validators
              /\ w.status = r.status /\ w.encoding = r.encoding
              /\ w.partial = r.partial
              /\ w.body = BodyFor(q, r.body)
              /\ w.length = IF r.body # None /\ r.status \notin {204, 304}
                            THEN r.body ELSE r.length
<1> DEFINE l == IF r.body # None /\ r.status \notin {204, 304} THEN r.body ELSE r.length
           b == BodyFor(q, r.body)
           w == [r EXCEPT !.length = l, !.body = b]
<1>1. Written(q, r) = w
  BY DEF Written
<1>2. r.body \in Codings \cup {"identity", None} /\ r.length \in Codings \cup {"identity", None}
  BY DEF Response
<1>3. l \in Codings \cup {"identity", None} /\ b \in Codings \cup {"identity", None}
  BY <1>2 DEF BodyFor
<1>4. w \in Response
  <2> HIDE DEF l, b
  <2> QED BY <1>3 DEF Response
<1>5. /\ w.vary = r.vary /\ w.acao = r.acao /\ w.validators = r.validators
      /\ w.status = r.status /\ w.encoding = r.encoding /\ w.partial = r.partial
  <2> HIDE DEF l, b
  <2> QED BY DEF Response
<1>6. w.length = l /\ w.body = b
  <2> HIDE DEF l, b
  <2> QED BY DEF Response
<1> HIDE DEF w
<1> QED BY <1>1, <1>4, <1>5, <1>6 DEF SameOrigin

LEMMA AnswerPartial ==
    ASSUME NEW c \in Configs, NEW q \in Requests, NEW f \in Resources
    PROVE  PartialPlain(Answer(c, f, q)) /\ PartialPlain(Recovered(q))
<1>1. ASSUME NEW r, PartialPlain(r)
      PROVE  PartialPlain(Written(q, r))
  <2>1. r \in Response
    BY <1>1 DEF PartialPlain
  <2> QED BY <1>1, <2>1, WrittenFields DEF PartialPlain, BodyFor
<1>2. PartialPlain(SecurityMiddleware(c, q, f, Blank)) /\ PartialPlain(CtxError(500))
  BY SecurityMiddlewarePartial, CtxErrorFields DEF StatusBody
<1> QED BY <1>1, <1>2 DEF Answer, Recovered

\* The stored response, too: a 304 replaces neither body nor coding.
StoredPartial == stored # None => PartialPlain(stored.resp)

LEMMA NextPartial == IInv /\ StoredPartial /\ [Next]_vars => StoredPartial'
<1> SUFFICES ASSUME IInv, StoredPartial, [Next]_vars PROVE StoredPartial'
  OBVIOUS
<1>1. CASE \E q \in Asked : Forward(q)
  <2>1. PICK q \in Asked : Forward(q)
    BY <1>1
  <2>2. cfg \in Configs /\ q \in Requests /\ resource \in Resources
    BY AskedAssumption DEF IInv
  <2>3. stored'.resp = Answer(cfg, resource, q)
    BY <2>1 DEF Forward, Stored
  <2> QED BY <2>2, <2>3, AnswerPartial DEF StoredPartial, PartialPlain
<1>2. CASE \E q \in Asked : Revalidate(q)
  <2>1. PICK q \in Asked : Revalidate(q)
    BY <1>2
  <2> DEFINE r == Validated(q)
             v == IF r.vary = {} THEN stored.resp.vary ELSE r.vary
             a == IF r.acao = None THEN stored.resp.acao ELSE r.acao
             u == TRUE
             old == stored.resp
             m == [old EXCEPT !.vary = v, !.acao = a]
             s == [stored EXCEPT !.updated = u, !.resp = m]
  <2>2. stored # None /\ stored' = s
    BY <2>1 DEF Revalidate, Selected, Freshened
  <2>3. /\ stored \in [req : Asked, resp : Response, file : Files, updated : BOOLEAN]
        /\ old \in Response /\ PartialPlain(old)
    BY <2>2 DEF IInv, StoredHonest, StoredPartial
  <2> HIDE DEF v, a, u, old
  <2>4. m.partial = old.partial /\ m.encoding = old.encoding /\ m.body = old.body
    BY <2>3 DEF Response
  <2> HIDE DEF m
  <2>5. stored'.resp = m
    BY <2>2, <2>3
  <2>6. stored' # None => m \in Response
    <3>1. IInv'
      BY NextIInv
    <3> QED BY <2>5, <3>1 DEF IInv, StoredHonest
  <2> QED BY <2>3, <2>4, <2>5, <2>6 DEF StoredPartial, PartialPlain
<1>3. CASE Evict
  BY <1>3 DEF Evict, StoredPartial
<1>4. CASE \E f \in Files : Redeploy(f)
  BY <1>4 DEF Redeploy, StoredPartial, PartialPlain
<1>5. CASE UNCHANGED vars
  BY <1>5 DEF vars, StoredPartial, PartialPlain
<1> QED BY <1>1, <1>2, <1>3, <1>4, <1>5 DEF Next

\* No client receives a part of a variant, or a part that has been compressed,
\* from the server or from the shared cache.
THEOREM PartsOfContent == Spec => []PartialIsIdentity
<1>1. Init => StoredPartial
  BY DEF Init, StoredPartial
<1>2. IInv /\ StoredPartial /\ [Next]_vars => StoredPartial'
  BY NextPartial
<1>3. IInv /\ StoredPartial => PartialIsIdentity
  <2> SUFFICES ASSUME IInv, StoredPartial, NEW q \in Asked, NEW r \in Received(q)
               PROVE  PartialPlain(r)
    BY DEF PartialIsIdentity, PartialPlain
  <2>1. cfg \in Configs /\ q \in Requests /\ resource \in Resources
    BY AskedAssumption DEF IInv
  <2>2. CASE r \in FromServer(q)
    BY <2>1, <2>2, AnswerPartial DEF FromServer
  <2>3. CASE r \in FromCache(q)
    <3> DEFINE m == stored.resp
               b == BodyFor(q, m.body)
    <3>1. Selected(q) /\ r = [m EXCEPT !.body = b]
      BY <2>3 DEF FromCache
    <3>2. m \in Response /\ PartialPlain(m)
      BY <3>1 DEF Selected, StoredPartial, PartialPlain
    <3>3. b = None \/ b = m.body
      BY DEF BodyFor
    <3>4. b \in Codings \cup {"identity", None}
      BY <3>2, <3>3 DEF Response
    <3> HIDE DEF m, b
    <3>5. r \in Response
      BY <3>1, <3>2, <3>4 DEF Response
    <3>6. r.partial = m.partial /\ r.encoding = m.encoding /\ r.body = b
      BY <3>1, <3>2 DEF Response
    <3> QED BY <3>2, <3>3, <3>5, <3>6 DEF PartialPlain
  <2> QED BY <2>2, <2>3 DEF Received
<1> QED BY <1>1, <1>2, <1>3, Inductive, PTL DEF Spec

-----------------------------------------------------------------------------
(* A 304 and the 200 that it stands for.                                   *)

\* Only the answers that have the headers of a file have a 304 for a fresh
\* request.
LEMMA HandleRequestOfFile ==
    ASSUME NEW c \in Configs, NEW q \in Requests, NEW f \in Resources, NEW r, Bare(r)
    PROVE  LET s == HandleRequest(c, q, f, r)
           IN /\ f.kind \in {"cached", "large", "embedded"} => OfFile(r, s)
              /\ s.status = 304 => f.kind \in {"cached", "large", "embedded"}
<1>1. CASE f.kind \in {"cached", "large"} /\ q.fresh
  BY <1>1, NotModifiedFields DEF HandleRequest
<1>2. CASE f.kind = "embedded" /\ q.fresh /\ c.etags
  BY <1>2, NotModifiedFields DEF HandleRequest
<1>3. CASE f.kind = "cached" /\ ~q.fresh
  BY <1>3, ServeFromCacheFields DEF HandleRequest
<1>4. CASE f.kind = "read"
  BY <1>4, ServeFromCacheFields DEF HandleRequest
<1>5. CASE f.kind = "large" /\ ~q.fresh
  BY <1>5, ServeLargeFields DEF HandleRequest
<1>6. CASE f.kind = "embedded" /\ ~(q.fresh /\ c.etags)
  BY <1>6, ServeEmbeddedFields DEF HandleRequest
<1>7. CASE f.kind = "missing"
  BY <1>7, ServeNotFoundFields DEF HandleRequest, StatusBody
<1>8. CASE f.kind = "listing"
  BY <1>8, ServeListingFields DEF HandleRequest, StatusBody
<1>9. CASE f.kind \notin {"cached", "read", "large", "embedded", "missing", "listing"}
  BY <1>9, CtxErrorFields DEF HandleRequest, StatusBody
<1> QED BY <1>1, <1>2, <1>3, <1>4, <1>5, <1>6, <1>7, <1>8, <1>9

\* The compression middleware adds the Vary that a file has anyway, and
\* compressing changes no header of the file.
LEMMA CompressMiddlewareOfFile ==
    ASSUME NEW c \in Configs, NEW q \in Requests, NEW f \in Resources, NEW r, Bare(r)
    PROVE  LET s == CompressMiddleware(c, q, f, r)
           IN /\ f.kind \in {"cached", "large", "embedded"} => OfFile(r, s)
              /\ s.status = 304 => f.kind \in {"cached", "large", "embedded"}
<1> DEFINE a == AddVary(r, "Accept-Encoding")
           s == HandleRequest(c, q, f, a)
<1>1. CASE ~(c.compress /\ AcceptsEncoding(q, "gzip"))
  BY <1>1, HandleRequestOfFile DEF CompressMiddleware
<1>2. CASE c.compress /\ AcceptsEncoding(q, "gzip")
  <2>1. CompressMiddleware(c, q, f, r) = IF Compressible(f, s) THEN Compressed(s) ELSE s
    BY <1>2 DEF CompressMiddleware
  <2>2. Bare(a) /\ a.vary = r.vary \cup {"Accept-Encoding"} /\ a.acao = r.acao
    BY BareVaries
  <2> HIDE DEF a
  <2>3. s \in Response
    BY <2>2, HandleRequestPartial DEF PartialPlain
  <2>4. /\ f.kind \in {"cached", "large", "embedded"} => OfFile(a, s)
        /\ s.status = 304 => f.kind \in {"cached", "large", "embedded"}
    BY <2>2, HandleRequestOfFile
  <2>5. OfFile(a, s) => OfFile(r, s)
    BY <2>2 DEF OfFile
  <2> HIDE DEF s
  <2>6. CASE Compressible(f, s)
    BY <2>1, <2>3, <2>4, <2>5, <2>6, CompressedFields DEF SameOrigin, OfFile
  <2> QED BY <2>1, <2>4, <2>5, <2>6
<1> QED BY <1>1, <1>2

\* Every answer to a request that gets a 304 if it is fresh has the same
\* headers, fresh or not.
LEMMA AnswerOfFile ==
    ASSUME NEW c \in Configs, NEW q \in Requests, NEW f \in Resources,
           q.method \in {"GET", "HEAD"}, f.kind \in {"cached", "large", "embedded"}
    PROVE  OfFile(CORS(c, q, Blank), Answer(c, f, q))
<1> DEFINE r == CORS(c, q, Blank)
           s == CompressMiddleware(c, q, f, r)
<1>1. Bare(r)
  BY BareStays
<1>2. Answer(c, f, q) = Written(q, s)
  BY DEF Answer, SecurityMiddleware
<1> HIDE DEF r
<1>3. s \in Response /\ OfFile(r, s)
  BY <1>1, CompressMiddlewarePartial, CompressMiddlewareOfFile DEF PartialPlain
<1> HIDE DEF s
<1>4. OfFile(r, Answer(c, f, q))
  BY <1>2, <1>3, WrittenFields DEF SameOrigin, OfFile
<1> QED BY <1>4 DEF r

\* A 304 is the answer of a file to GET or HEAD.
LEMMA NotModifiedOfFile ==
    ASSUME NEW c \in Configs, NEW q \in Requests, NEW f \in Resources,
           Answer(c, f, q).status = 304
    PROVE  q.method \in {"GET", "HEAD"} /\ f.kind \in {"cached", "large", "embedded"}
<1> DEFINE r == CORS(c, q, Blank)
           s == SecurityMiddleware(c, q, f, Blank)
<1>1. Bare(r) /\ s \in Response
  BY BareStays, SecurityMiddlewarePartial DEF PartialPlain
<1>2. s.status = 304
  BY <1>1, WrittenFields DEF Answer
<1>3. CASE f.kind = "nul" \/ q.method = "POST" \/ f.kind = "refused"
  <2>1. Bare(Blank) /\ \A t \in {400, 403, 405} : t \in Statuses /\ t # 304
    BY StatusesSet DEF Bare, Blank
  <2>2. \A t \in {400, 403, 405} : SendError(Blank, t).status # 304
    BY <2>1, SendErrorPartial DEF StatusBody
  <2> QED BY <1>2, <1>3, <2>2 DEF SecurityMiddleware
<1>4. CASE ~(f.kind = "nul" \/ q.method = "POST" \/ f.kind = "refused") /\ q.method = "OPTIONS"
  <2> DEFINE t == 204
             w == [r EXCEPT !.status = t]
  <2>1. s = w
    BY <1>4 DEF SecurityMiddleware
  <2>2. r \in Response /\ t # 304
    BY <1>1 DEF Bare
  <2> HIDE DEF r, s, t
  <2>3. w.status = t
    BY <2>2 DEF Response
  <2> QED BY <1>2, <2>1, <2>2, <2>3
<1>5. CASE ~(f.kind = "nul" \/ q.method = "POST" \/ f.kind = "refused") /\ q.method # "OPTIONS"
  <2>1. s = CompressMiddleware(c, q, f, r) /\ q.method \in {"GET", "HEAD"}
    BY <1>5 DEF SecurityMiddleware, Requests
  <2> HIDE DEF r, s
  <2> QED BY <1>1, <1>2, <2>1, CompressMiddlewareOfFile
<1> QED BY <1>3, <1>4, <1>5

\* A 304 names the same request headers in Vary, the same origin and the same
\* validators as the 200 it stands for, whatever layers the answer passes.
THEOREM RevalidationCorrect == Spec => []RevalidationKeepsVary
<1>1. IInv => RevalidationKeepsVary
  <2> SUFFICES ASSUME IInv, NEW q \in Asked,
                      Answer(cfg, resource, [q EXCEPT !.fresh = TRUE]).status = 304
               PROVE  LET full  == Answer(cfg, resource, [q EXCEPT !.fresh = FALSE])
                          fresh == Answer(cfg, resource, [q EXCEPT !.fresh = TRUE])
                      IN /\ fresh.vary = full.vary
                         /\ fresh.acao = full.acao
                         /\ fresh.validators = full.validators
    BY DEF RevalidationKeepsVary
  <2> DEFINE n == [q EXCEPT !.fresh = FALSE]
             y == [q EXCEPT !.fresh = TRUE]
  <2>1. cfg \in Configs /\ q \in Requests /\ resource \in Resources
    BY AskedAssumption DEF IInv
  <2>2. n \in Requests /\ y \in Requests
    BY <2>1, RequestFreshened
  <2>3. n.method = y.method /\ n.origin = y.origin
    BY <2>1 DEF Requests
  <2> HIDE DEF n, y
  <2>4. y.method \in {"GET", "HEAD"} /\ resource.kind \in {"cached", "large", "embedded"}
    <3>1. Answer(cfg, resource, y).status = 304
      BY DEF y
    <3> QED BY <2>1, <2>2, <3>1, NotModifiedOfFile
  <2> DEFINE o == CORS(cfg, y, Blank)
             full  == Answer(cfg, resource, n)
             fresh == Answer(cfg, resource, y)
  <2>5. CORS(cfg, n, Blank) = o
    BY <2>3 DEF CORS
  <2>6. OfFile(o, full) /\ OfFile(o, fresh)
    BY <2>1, <2>2, <2>3, <2>4, <2>5, AnswerOfFile
  <2>7. /\ fresh.vary = full.vary /\ fresh.acao = full.acao
        /\ fresh.validators = full.validators
    <3> HIDE DEF o, full, fresh
    <3> QED BY <2>6 DEF OfFile
  <2> QED BY <2>7 DEF n, y
<1> QED BY <1>1, Inductive, PTL

-----------------------------------------------------------------------------
(* HEAD and GET.                                                           *)

\* g asks with GET for what h asks with HEAD.
Twins(g, h) ==
    /\ g \in Requests /\ h \in Requests
    /\ g.method = "GET" /\ h.method = "HEAD"
    /\ g.range = h.range
    /\ g.origin = h.origin /\ g.accept = h.accept /\ g.fresh = h.fresh

LEMMA TwinsNegotiate ==
    ASSUME NEW c \in Configs, NEW f \in Resources, NEW g, NEW h, Twins(g, h)
    PROVE  /\ NegotiateEncoding(c, g, f) = NegotiateEncoding(c, h, f)
           /\ AcceptsEncoding(g, "gzip") = AcceptsEncoding(h, "gzip")
           /\ CORS(c, g, Blank) = CORS(c, h, Blank)
<1>1. g.accept = h.accept /\ g.origin = h.origin
  BY DEF Twins
<1>2. \A e : AcceptsEncoding(g, e) = AcceptsEncoding(h, e)
  BY <1>1 DEF AcceptsEncoding
<1>3. NegotiateEncoding(c, g, f) = NegotiateEncoding(c, h, f)
  <2> DEFINE U(q) == {i \in 1 .. 3 : /\ Preference[i] \in Variants(c, f)
                                     /\ AcceptsEncoding(q, Preference[i])}
  <2>1. U(g) = U(h)
    BY <1>2
  <2> QED BY <2>1 DEF NegotiateEncoding
<1> QED BY <1>1, <1>2, <1>3 DEF CORS

\* An accepted variant is negotiated if there is one.
LEMMA GzipNegotiated ==
    ASSUME NEW c \in Configs, NEW q \in Requests, NEW f \in Resources,
           "gzip" \in Variants(c, f), AcceptsEncoding(q, "gzip")
    PROVE  NegotiateEncoding(c, q, f) # None
<1> DEFINE usable == {i \in 1 .. 3 : /\ Preference[i] \in Variants(c, f)
                                     /\ AcceptsEncoding(q, Preference[i])}
           best == CHOOSE i \in usable : \A j \in usable : i <= j
<1>1. Preference[1] = "br" /\ Preference[2] = "zstd" /\ Preference[3] = "gzip"
  BY DEF Preference
<1>2. 3 \in usable
  BY <1>1
<1>3. \E i \in usable : \A j \in usable : i <= j
  <2>1. \A i \in usable : i \in {1, 2, 3}
    OBVIOUS
  <2> HIDE DEF usable
  <2> QED BY <1>2, <2>1
<1>4. best \in usable
  BY <1>3
<1>5. NegotiateEncoding(c, q, f) = Preference[best]
  BY <1>2 DEF NegotiateEncoding
<1>6. best = 1 \/ best = 2 \/ best = 3
  BY <1>4
<1> HIDE DEF best, usable
<1> QED BY <1>1, <1>5, <1>6, NoneAssumption

\* A cached file that the middleware would compress for a client has a variant
\* for that client already.
LEMMA CachedNotCompressed ==
    ASSUME NEW c \in Configs, NEW q \in Requests, NEW f \in Resources, NEW r, Bare(r),
           q.method = "GET", q.range = "none",
           c.compress, AcceptsEncoding(q, "gzip")
    PROVE  ~Compressible(f, ServeFromCache(c, q, f, r))
<1> DEFINE s == ServeFromCache(c, q, f, r)
           e == NegotiateEncoding(c, q, f)
<1> SUFFICES ASSUME Compressible(f, s) PROVE FALSE
  OBVIOUS
<1>1. s.encoding = e /\ s.body = BodyFor(q, Plain(e))
  BY ServeFromCacheFields
<1>2. s.encoding = None /\ f.compressible /\ BodySize(f, s) >= MinSize
  BY DEF Compressible
<1>3. s.body = "identity"
  BY <1>1, <1>2 DEF BodyFor, Plain
<1>4. f.size >= MinSize
  BY <1>2, <1>3, NoneAssumption DEF BodySize
<1>5. "gzip" \in Variants(c, f)
  <2>1. f.size \in Nat /\ MinSize \in Nat
    BY SizesAssumption DEF Resources
  <2>2. ~(f.size < MinSize)
    BY <1>4, <2>1
  <2> QED BY <1>2, <2>2 DEF Variants
<1>6. e # None
  BY <1>5, GzipNegotiated
<1> HIDE DEF s, e
<1> QED BY <1>1, <1>2, <1>6

\* What the handler makes of twins: the same response, or one with a body and
\* one without it, whose length is then not given, or right unless the
\* middleware compresses, which it does to a whole content only if the Range
\* was ignored.
HandledTwins(c, q, f, gs, hs) ==
    \/ gs = hs
    \/ /\ gs \in Response /\ hs \in Response /\ SameOrigin(gs, hs)
       /\ gs.status \in {200, 206} /\ hs.status = gs.status
       /\ gs.encoding = hs.encoding /\ gs.body # None /\ hs.body = None
       /\ \/ hs.length = None /\ hs.encoding = None
          \/ /\ hs.length = gs.body
             /\ c.compress /\ AcceptsEncoding(q, "gzip") => ~Compressible(f, gs)
          \/ q.range = "ignored" /\ hs.length = "identity" /\ gs.body = "identity"

\* The part of a cached file, or the whole of it that an ignored Range gets.
LEMMA RangeTwins ==
    ASSUME NEW c \in Configs, NEW f \in Resources, NEW g, NEW h, Twins(g, h),
           g.range # "none", NEW r, Bare(r)
    PROVE  HandledTwins(c, g, f, ServeFromCache(c, g, f, r), ServeFromCache(c, h, f, r))
<1> DEFINE s  == AddVary([r EXCEPT !.validators = TRUE], "Accept-Encoding")
           gs == ServeRange(g, s)
           hs == ServeRange(h, s)
<1>1. /\ g \in Requests /\ h \in Requests /\ h.range = g.range
      /\ g.method = "GET" /\ h.method = "HEAD"
  BY DEF Twins
<1>2. ServeFromCache(c, g, f, r) = gs /\ ServeFromCache(c, h, f, r) = hs
  BY <1>1 DEF ServeFromCache
<1>3. Bare(s)
  BY FileHeadersFields
<1> HIDE DEF s
<1>4. CASE g.range = "unsatisfiable"
  BY <1>1, <1>2, <1>4 DEF ServeRange, HandledTwins
<1>5. CASE g.range # "unsatisfiable"
  <2>1. /\ gs \in Response /\ SameOrigin(s, gs) /\ gs.encoding = None
        /\ gs.status = (IF g.range = "some" THEN 206 ELSE 200)
        /\ gs.body = BodyFor(g, "identity")
    BY <1>1, <1>3, <1>5, ServeRangeFields
  <2>2. /\ hs \in Response /\ SameOrigin(s, hs) /\ hs.encoding = None
        /\ hs.status = (IF g.range = "some" THEN 206 ELSE 200)
        /\ hs.length = "identity" /\ hs.body = BodyFor(h, "identity")
    BY <1>1, <1>3, <1>5, ServeRangeFields
  <2>3. gs.body = "identity" /\ hs.body = None /\ "identity" # None
    BY <1>1, <2>1, <2>2, NoneAssumption DEF BodyFor
  <2>4. g.range = "ignored" \/ g.range = "some"
    BY <1>1, <1>5 DEF Requests
  <2>5. g.range = "some" => ~Compressible(f, gs)
    BY <2>1 DEF Compressible
  <2> HIDE DEF gs, hs
  <2> QED BY <1>2, <2>1, <2>2, <2>3, <2>4, <2>5 DEF HandledTwins, SameOrigin
<1> QED BY <1>4, <1>5

\* A file that is streamed is not compressed, whatever the Range.
LEMMA LargeTwins ==
    ASSUME NEW c \in Configs, NEW f \in Resources, NEW g, NEW h, Twins(g, h),
           NEW r, Bare(r)
    PROVE  HandledTwins(c, g, f, ServeLarge(g, r), ServeLarge(h, r))
<1> DEFINE gs == ServeLarge(g, r)
           hs == ServeLarge(h, r)
<1>1. /\ g \in Requests /\ h \in Requests /\ h.range = g.range
      /\ g.method = "GET" /\ h.method = "HEAD"
  BY DEF Twins
<1>2. CASE g.range = "unsatisfiable"
  <2> DEFINE s == AddVary([r EXCEPT !.validators = TRUE], "Accept-Encoding")
  <2>1. ServeRange(g, s) = ServeRange(h, s)
    BY <1>1, <1>2 DEF ServeRange
  <2> HIDE DEF s
  <2>2. gs = hs
    BY <2>1 DEF ServeLarge, s
  <2> QED BY <2>2 DEF HandledTwins
<1>3. CASE g.range # "unsatisfiable"
  <2>1. /\ PartialPlain(gs) /\ OfFile(r, gs) /\ gs.encoding = None
        /\ gs.status = (IF g.range = "some" THEN 206 ELSE 200)
        /\ gs.stream = (gs.body # None) /\ gs.body = BodyFor(g, "identity")
    BY <1>1, <1>3, ServeLargeFields
  <2>2. /\ PartialPlain(hs) /\ OfFile(r, hs) /\ hs.encoding = None
        /\ hs.status = (IF g.range = "some" THEN 206 ELSE 200)
        /\ hs.length = "identity" /\ hs.body = BodyFor(h, "identity")
    BY <1>1, <1>3, ServeLargeFields
  <2>3. gs.body = "identity" /\ hs.body = None /\ "identity" # None
    BY <1>1, <2>1, <2>2, NoneAssumption DEF BodyFor
  <2>4. ~Compressible(f, gs)
    BY <2>1, <2>3 DEF Compressible
  <2> HIDE DEF gs, hs
  <2>5. gs \in Response /\ hs \in Response /\ SameOrigin(gs, hs)
    BY <2>1, <2>2 DEF SameOrigin, OfFile, PartialPlain
  <2>6. gs.status \in {200, 206} /\ hs.status = gs.status
    BY <2>1, <2>2
  <2>7. gs.encoding = hs.encoding /\ gs.body # None /\ hs.body = None /\ hs.length = gs.body
    BY <2>1, <2>2, <2>3
  <2>8. HandledTwins(c, g, f, gs, hs)
    BY <2>4, <2>5, <2>6, <2>7 DEF HandledTwins
  <2> QED BY <2>8 DEF gs, hs
<1> QED BY <1>2, <1>3

LEMMA HandleRequestTwins ==
    ASSUME NEW c \in Configs, NEW f \in Resources, NEW g, NEW h, Twins(g, h),
           NEW r, Bare(r)
    PROVE  HandledTwins(c, g, f, HandleRequest(c, g, f, r), HandleRequest(c, h, f, r))
<1>1. /\ g \in Requests /\ h \in Requests /\ g.fresh = h.fresh
      /\ g.method = "GET" /\ h.method = "HEAD" /\ g.range = h.range
  BY DEF Twins
<1>2. ASSUME f.kind = "read" \/ (f.kind = "cached" /\ ~g.fresh)
      PROVE  HandledTwins(c, g, f, HandleRequest(c, g, f, r), HandleRequest(c, h, f, r))
  <2> DEFINE gs == ServeFromCache(c, g, f, r)
             hs == ServeFromCache(c, h, f, r)
             e  == NegotiateEncoding(c, g, f)
  <2>1. HandleRequest(c, g, f, r) = gs /\ HandleRequest(c, h, f, r) = hs
    BY <1>1, <1>2 DEF HandleRequest
  <2>2. CASE g.range # "none"
    BY <2>1, <2>2, RangeTwins
  <2>3. CASE g.range = "none"
    <3>0. h \in Requests /\ h.range = "none"
      BY <1>1, <2>3
    <3>1. e \in Codings \cup {None} /\ NegotiateEncoding(c, h, f) = e
      BY <1>1, NegotiatedAccepted, TwinsNegotiate
    <3>2. /\ PartialPlain(gs) /\ OfFile(r, gs) /\ gs.status = 200 /\ gs.encoding = e
          /\ gs.body = BodyFor(g, Plain(e))
      BY <1>1, <2>3, ServeFromCacheFields
    <3>3. /\ PartialPlain(hs) /\ OfFile(r, hs) /\ hs.status = 200 /\ hs.encoding = e
          /\ hs.length = Plain(e) /\ hs.body = BodyFor(h, Plain(e))
      BY <3>0, <3>1, ServeFromCacheFields
    <3>4. c.compress /\ AcceptsEncoding(g, "gzip") => ~Compressible(f, gs)
      BY <1>1, <2>3, CachedNotCompressed
    <3>5. gs.body = Plain(e) /\ hs.body = None /\ Plain(e) # None
      BY <1>1, <3>1, <3>2, <3>3, NoneAssumption DEF BodyFor, Plain, Codings
    <3> HIDE DEF gs, hs, e
    <3> QED BY <2>1, <3>2, <3>3, <3>4, <3>5
            DEF HandledTwins, SameOrigin, OfFile, PartialPlain
  <2> QED BY <2>2, <2>3
<1>3. CASE f.kind = "large" /\ ~g.fresh
  <2>1. /\ HandleRequest(c, g, f, r) = ServeLarge(g, r)
        /\ HandleRequest(c, h, f, r) = ServeLarge(h, r)
    BY <1>1, <1>3 DEF HandleRequest
  <2> QED BY <2>1, LargeTwins
<1>4. CASE f.kind = "listing"
  <2> DEFINE gs == ServeDirectoryListing(g, r)
             hs == ServeDirectoryListing(h, r)
  <2>1. HandleRequest(c, g, f, r) = gs /\ HandleRequest(c, h, f, r) = hs
    BY <1>4 DEF HandleRequest
  <2>2. /\ StatusBody(r, 200, BodyFor(g, "identity"), gs)
        /\ StatusBody(r, 200, BodyFor(h, "identity"), hs)
    BY <1>1, ServeListingFields
  <2>3. BodyFor(g, "identity") = "identity" /\ BodyFor(h, "identity") = None
    BY <1>1 DEF BodyFor
  <2> HIDE DEF gs, hs
  <2> QED BY <2>1, <2>2, <2>3, NoneAssumption
          DEF HandledTwins, StatusBody, SameOrigin, PartialPlain
<1>5. CASE ~(\/ f.kind \in {"read", "listing"}
             \/ f.kind \in {"cached", "large"} /\ ~g.fresh)
  BY <1>1, <1>5 DEF HandleRequest, HandledTwins
<1> QED BY <1>2, <1>3, <1>4, <1>5

\* The same behind the compression middleware, which leaves a response without
\* a body alone as long as there is a minimum size.
CompressedTwins(q, gs, hs) ==
    \/ gs = hs
    \/ /\ gs \in Response /\ hs \in Response /\ SameOrigin(gs, hs)
       /\ gs.status \in {200, 206} /\ hs.status = gs.status
       /\ hs.encoding \in {None, gs.encoding} /\ gs.body # None /\ hs.body = None
       /\ \/ hs.length \in {None, gs.body}
          \/ q.range = "ignored" /\ hs.length = "identity" /\ gs.encoding = "gzip"

LEMMA CompressMiddlewareTwins ==
    ASSUME MinSize > 0,
           NEW c \in Configs, NEW f \in Resources, NEW g, NEW h, Twins(g, h),
           NEW r, Bare(r)
    PROVE  CompressedTwins(g, CompressMiddleware(c, g, f, r), CompressMiddleware(c, h, f, r))
<1>1. /\ g \in Requests /\ h \in Requests
      /\ AcceptsEncoding(g, "gzip") = AcceptsEncoding(h, "gzip")
  BY TwinsNegotiate DEF Twins
<1>2. CASE ~(c.compress /\ AcceptsEncoding(g, "gzip"))
  <2>1. /\ CompressMiddleware(c, g, f, r) = HandleRequest(c, g, f, r)
        /\ CompressMiddleware(c, h, f, r) = HandleRequest(c, h, f, r)
    BY <1>1, <1>2 DEF CompressMiddleware
  <2>2. HandledTwins(c, g, f, HandleRequest(c, g, f, r), HandleRequest(c, h, f, r))
    BY HandleRequestTwins
  <2> QED BY <2>1, <2>2 DEF HandledTwins, CompressedTwins
<1>3. CASE c.compress /\ AcceptsEncoding(g, "gzip")
  <2> DEFINE a  == AddVary(r, "Accept-Encoding")
             gs == HandleRequest(c, g, f, a)
             hs == HandleRequest(c, h, f, a)
             gw == CompressMiddleware(c, g, f, r)
             hw == CompressMiddleware(c, h, f, r)
  <2> SUFFICES CompressedTwins(g, gw, hw)
    OBVIOUS
  <2>1. /\ gw = IF Compressible(f, gs) THEN Compressed(gs) ELSE gs
        /\ hw = IF Compressible(f, hs) THEN Compressed(hs) ELSE hs
    BY <1>1, <1>3 DEF CompressMiddleware
  <2>2. Bare(a)
    BY BareVaries
  <2> HIDE DEF a
  <2>3. HandledTwins(c, g, f, gs, hs)
    BY <2>2, HandleRequestTwins
  <2>4. hs.body = None => ~Compressible(f, hs)
    BY SizesAssumption DEF Compressible, BodySize
  <2> HIDE DEF gs, hs, gw, hw
  <2>5. CASE gs = hs
    BY <2>1, <2>5 DEF CompressedTwins
  <2>6. CASE gs # hs
    <3>1. /\ gs \in Response /\ hs \in Response /\ SameOrigin(gs, hs)
          /\ gs.status \in {200, 206} /\ hs.status = gs.status
          /\ gs.encoding = hs.encoding /\ gs.body # None /\ hs.body = None
          /\ \/ hs.length = None /\ hs.encoding = None
             \/ hs.length = gs.body /\ ~Compressible(f, gs)
             \/ g.range = "ignored" /\ hs.length = "identity" /\ gs.body = "identity"
      BY <1>3, <2>3, <2>6 DEF HandledTwins
    <3>2. hw = hs
      BY <2>1, <2>4, <3>1
    <3>3. CASE Compressible(f, gs)
      <4>1. /\ gw \in Response /\ SameOrigin(gs, gw) /\ gw.status = gs.status
            /\ gw.body = "gzip" /\ gw.encoding = "gzip" /\ "gzip" # None
        BY <2>1, <3>1, <3>3, CompressedFields, NoneAssumption
      <4>2. gs.encoding = None
        BY <3>3 DEF Compressible
      <4> QED BY <3>1, <3>2, <3>3, <4>1, <4>2 DEF CompressedTwins, SameOrigin
    <3>4. CASE ~Compressible(f, gs)
      BY <2>1, <3>1, <3>2, <3>4 DEF CompressedTwins
    <3> QED BY <3>3, <3>4
  <2> QED BY <2>5, <2>6
<1> QED BY <1>2, <1>3

LEMMA SecurityMiddlewareTwins ==
    ASSUME MinSize > 0,
           NEW c \in Configs, NEW f \in Resources, NEW g, NEW h, Twins(g, h)
    PROVE  CompressedTwins(g, SecurityMiddleware(c, g, f, Blank),
                           SecurityMiddleware(c, h, f, Blank))
<1> DEFINE r == CORS(c, g, Blank)
<1>1. g \in Requests /\ g.method = "GET" /\ h.method = "HEAD"
  BY DEF Twins
<1>2. CASE f.kind = "nul" \/ f.kind = "refused"
  BY <1>1, <1>2 DEF SecurityMiddleware, CompressedTwins
<1>3. CASE ~(f.kind = "nul" \/ f.kind = "refused")
  <2>1. /\ SecurityMiddleware(c, g, f, Blank) = CompressMiddleware(c, g, f, r)
        /\ SecurityMiddleware(c, h, f, Blank) = CompressMiddleware(c, h, f, r)
    BY <1>1, <1>3, TwinsNegotiate DEF SecurityMiddleware
  <2>2. Bare(r)
    BY <1>1, BareStays
  <2> HIDE DEF r
  <2> QED BY <2>1, <2>2, CompressMiddlewareTwins
<1> QED BY <1>2, <1>3

LEMMA AnswerTwins ==
    ASSUME MinSize > 0,
           NEW c \in Configs, NEW f \in Resources, NEW g, NEW h, Twins(g, h)
    PROVE  LET get  == Answer(c, f, g)
               head == Answer(c, f, h)
           IN /\ head.status = get.status
              /\ head.vary = get.vary
              /\ head.acao = get.acao
              /\ head.encoding \in {None, get.encoding}
              /\ \/ head.length \in {None, get.length}
                 \/ /\ g.range = "ignored"
                    /\ head.length = "identity" /\ get.encoding = "gzip"
<1> DEFINE gs == SecurityMiddleware(c, g, f, Blank)
           hs == SecurityMiddleware(c, h, f, Blank)
<1>1. g \in Requests /\ h \in Requests /\ g.method = "GET" /\ h.method = "HEAD"
  BY DEF Twins
<1>2. CompressedTwins(g, gs, hs) /\ gs \in Response /\ hs \in Response
  BY <1>1, SecurityMiddlewareTwins, SecurityMiddlewarePartial DEF PartialPlain
<1>3. Answer(c, f, g) = Written(g, gs) /\ Answer(c, f, h) = Written(h, hs)
  BY DEF Answer
<1> HIDE DEF gs, hs
<1>4. /\ SameOrigin(gs, Written(g, gs)) /\ SameOrigin(hs, Written(h, hs))
      /\ Written(g, gs).status = gs.status /\ Written(h, hs).status = hs.status
      /\ Written(g, gs).encoding = gs.encoding /\ Written(h, hs).encoding = hs.encoding
      /\ Written(g, gs).length = IF gs.body # None /\ gs.status \notin {204, 304}
                                 THEN gs.body ELSE gs.length
      /\ Written(h, hs).length = IF hs.body # None /\ hs.status \notin {204, 304}
                                 THEN hs.body ELSE hs.length
  BY <1>1, <1>2, WrittenFields
<1>5. CASE gs = hs
  BY <1>3, <1>4, <1>5 DEF SameOrigin
<1>6. CASE gs # hs
  BY <1>2, <1>3, <1>4, <1>6 DEF SameOrigin, CompressedTwins
<1> QED BY <1>5, <1>6

\* HEAD has the status and the headers of GET wherever it states them, for
\* every request and resource, except the length when a Range is ignored and GET
\* is compressed, if compression.min_size is positive.  With 0, which Validate
\* allows, the middleware compresses the empty body of a HEAD answer and so
\* announces a coding that GET may not have.
THEOREM HeadLikeGet ==
    ASSUME MinSize > 0
    PROVE  Spec => []HeadParityUnlessRangeIgnored
<1>1. IInv => HeadParityUnlessRangeIgnored
  <2> SUFFICES ASSUME IInv, NEW q \in GetOrHead
               PROVE  /\ SameButLength(q)
                      /\ \/ SameLength(q)
                         \/ /\ q.range = "ignored"
                            /\ HeadOf(q).length = "identity"
                            /\ GetOf(q).encoding = "gzip"
    BY DEF HeadParityUnlessRangeIgnored
  <2> DEFINE g == [q EXCEPT !.method = "GET"]
             h == [q EXCEPT !.method = "HEAD"]
  <2>1. cfg \in Configs /\ q \in Requests /\ resource \in Resources
    BY AskedAssumption DEF IInv, GetOrHead
  <2>2. g \in Requests /\ h \in Requests
    BY <2>1 DEF Requests
  <2>3. /\ g.method = "GET" /\ h.method = "HEAD" /\ g.range = q.range /\ h.range = q.range
        /\ g.origin = h.origin /\ g.accept = h.accept /\ g.fresh = h.fresh
    BY <2>1 DEF Requests
  <2>4. GetOf(q) = Answer(cfg, resource, g) /\ HeadOf(q) = Answer(cfg, resource, h)
    BY DEF GetOf, HeadOf
  <2> HIDE DEF g, h
  <2>5. Twins(g, h)
    BY <2>2, <2>3 DEF Twins
  <2>6. LET get  == Answer(cfg, resource, g)
            head == Answer(cfg, resource, h)
        IN /\ head.status = get.status
           /\ head.vary = get.vary
           /\ head.acao = get.acao
           /\ head.encoding \in {None, get.encoding}
           /\ \/ head.length \in {None, get.length}
              \/ /\ g.range = "ignored"
                 /\ head.length = "identity" /\ get.encoding = "gzip"
    BY <2>1, <2>5, AnswerTwins
  <2> QED BY <2>3, <2>4, <2>6 DEF SameButLength, SameLength
<1> QED BY <1>1, Inductive, PTL

=============================================================================
