---------------------------- MODULE RangeServing ----------------------------
(***************************************************************************)
(* The answer to a GET or HEAD that may carry a Range and an If-Range      *)
(* header: serveRange for a file that is in memory, serveLargeFile for one *)
(* that is streamed from disk (internal/handler/file.go).                  *)
(*                                                                         *)
(* The file has versions, each with a size and a modification time in      *)
(* whole seconds, the precision of Last-Modified.  A request knows the     *)
(* version its os.Stat saw; the file may be replaced before it is opened.  *)
(* A file in memory is the version that its entry was made from; the race  *)
(* of os.Stat and os.ReadFile in making one is in FileServing.             *)
(* ETags tell versions apart.  They are always weak here, so that one in   *)
(* If-Range never matches and only its dates are modelled.                 *)
(***************************************************************************)
EXTENDS RangeParse, FiniteSets

CONSTANTS
    Versions,       \* versions of the file, numbered as they replace another
    SizeOf,         \* size of each version
    MTime,          \* its modification time
    MaxServeFileSize,
    MaxInt,         \* math.MaxInt of the platform
    EnableETags,
    ConditionalHeaders, \* bound: Range headers of conditional requests
    None            \* no such header, no handle, no body

ASSUME VersionsAssumption ==
    /\ Versions \subseteq Nat
    /\ SizeOf \in [Versions -> Sizes]
    /\ MTime \in [Versions -> Nat]
    /\ None \notin Versions
ASSUME LimitAssumption ==
    MaxServeFileSize \in Nat /\ MaxInt \in Nat /\ EnableETags \in BOOLEAN

VARIABLES
    req,        \* the request, and what it knows of the file
    disk,       \* the version on disk
    at,         \* where the request is
    handle,     \* the version of the open file, None if there is none
    opened,     \* handles opened so far
    closed,     \* and closed
    resp        \* the response

vars == <<parseVars, req, disk, at, handle, opened, closed, resp>>

\* head: the method is HEAD.  large: the file is streamed from disk, and
\* sniff: its type is not known from its name.  cached: it is a cache entry;
\* one that is neither has just been read.  info: the version that os.Stat saw.  ifRange and ifModSince: the version whose Last-Modified the
\* header quotes.  ifNoneMatch: the versions whose ETags it lists, all for "*"
\* and none if there is no such header.
Requests == [head : BOOLEAN, large : BOOLEAN, cached : BOOLEAN, sniff : BOOLEAN,
             info : Versions, range : BOOLEAN,
             ifRange : Versions \cup {None}, ifModSince : Versions \cup {None},
             ifNoneMatch : SUBSET Versions]

\* A response: length is the total of the parts, bytes 0-0/0 if there is none;
\* body is the version that the bytes are taken from.
Response == [status : {0, 200, 206, 304, 403, 413, 416, 500},
             parts : Seq([start : Nat, length : Nat]),
             length : Nat, body : Versions \cup {None}]

NoResponse == [status |-> 0, parts |-> <<>>, length |-> 0, body |-> None]
Answer(s) == [NoResponse EXCEPT !.status = s]

Init ==
    /\ ParseInit
    /\ req \in {r \in Requests :
                  /\ r.sniff => r.large
                  /\ r.cached => ~r.large
                  /\ r.ifRange # None => r.range
                  /\ ~r.range => header = <<>>
                  /\ r.ifModSince # None \/ r.ifNoneMatch # {}
                        => header \in ConditionalHeaders}
    /\ size = SizeOf[req.info]
    /\ disk = req.info
    /\ at = IF req.large THEN "limit" ELSE IF req.cached THEN "conditional" ELSE "ifrange"
    /\ handle = None
    /\ opened = 0
    /\ closed = 0
    /\ resp = NoResponse

-----------------------------------------------------------------------------
(* The file handle.                                                        *)

Open ==
    /\ handle' = disk
    /\ opened' = opened + 1
    /\ UNCHANGED closed

\* closeFile, and fasthttp closing the body stream.
Close ==
    /\ handle' = None
    /\ closed' = IF handle = None THEN closed ELSE closed + 1
    /\ UNCHANGED opened

KeepHandle == UNCHANGED <<handle, opened, closed>>

\* The handler returns with a response that has no body stream: the deferred
\* closeFile runs.
ReturnWith(r) == at' = "done" /\ resp' = r /\ Close

-----------------------------------------------------------------------------
(* serveLargeFile before the ranges.                                       *)

\* A file above max_serve_file_size is refused.
CheckLimit ==
    /\ at = "limit"
    /\ IF MaxServeFileSize > 0 /\ size > MaxServeFileSize
       THEN ReturnWith(Answer(413))
       ELSE /\ at' = IF req.sniff THEN "sniff" ELSE "conditional"
            /\ KeepHandle /\ UNCHANGED resp
    /\ UNCHANGED <<parseVars, req, disk>>

\* os.Open before the first bytes are sniffed: it may fail.
SniffOpen ==
    /\ at = "sniff"
    /\ \/ at' = "seek" /\ Open /\ UNCHANGED resp
       \/ \E s \in {403, 500} : ReturnWith(Answer(s))
    /\ UNCHANGED <<parseVars, req, disk>>

\* Mutant of SniffSeek: the handle is not closed when f.Seek fails.
SniffSeekLeaks ==
    /\ at = "seek"
    /\ \/ at' = "conditional" /\ UNCHANGED resp
       \/ at' = "done" /\ resp' = Answer(500)
    /\ KeepHandle
    /\ UNCHANGED <<parseVars, req, disk>>

\* After them f.Seek may fail.
SniffSeek ==
    /\ at = "seek"
    /\ \/ at' = "conditional" /\ KeepHandle /\ UNCHANGED resp
       \/ ReturnWith(Answer(500))
    /\ UNCHANGED <<parseVars, req, disk>>

\* headers.ETagMatches, by weak comparison.
ETagMatches == req.info \in req.ifNoneMatch

\* Not modified since: to the second.
DateMatches == req.ifModSince # None /\ MTime[req.info] <= MTime[req.ifModSince]

\* headers.CheckNotModified: If-None-Match, if there is one, decides alone.
CheckNotModified ==
    IF EnableETags /\ req.ifNoneMatch # {} THEN ETagMatches ELSE DateMatches

\* For a cache entry and for a large file.  serveFromDisk answers a file that it
\* has just read without asking.
Conditional ==
    /\ at = "conditional"
    /\ IF CheckNotModified
       THEN ReturnWith(Answer(304))
       ELSE at' = "ifrange" /\ KeepHandle /\ UNCHANGED resp
    /\ UNCHANGED <<parseVars, req, disk>>

-----------------------------------------------------------------------------
(* The ranges, for both sources.                                           *)

\* ifRangeAllowsRange: the header is absent, or a date equal to the
\* Last-Modified of this response.
IfRangeAllowsRange ==
    req.ifRange = None \/ MTime[req.ifRange] = MTime[req.info]

IfRange ==
    /\ at = "ifrange"
    /\ at' = IF req.range /\ IfRangeAllowsRange THEN "parse" ELSE "body"
    /\ UNCHANGED <<parseVars, req, disk, handle, opened, closed, resp>>

Parse ==
    /\ at = "parse"
    /\ ParseNext
    /\ UNCHANGED <<req, disk, at, handle, opened, closed, resp>>

\* 416 for an unsatisfiable set; a set to be ignored means the full content.
Parsed ==
    /\ at = "parse"
    /\ IF result = "unsatisfiable"
       THEN ReturnWith(Answer(416))
       ELSE at' = "body" /\ KeepHandle /\ UNCHANGED resp
    /\ result # "parsing"
    /\ UNCHANGED <<parseVars, req, disk>>

-----------------------------------------------------------------------------
(* The response.                                                           *)

Partial == result = "ranges"

\* Status and headers, and the version the body comes from, None without one.
Full(b) == [status |-> 200, parts |-> <<>>, length |-> size, body |-> b]
Content(b) ==
    IF Partial
    THEN [status |-> 206, parts |-> ranges, length |-> total, body |-> b]
    ELSE Full(b)

\* serveRange: the body is a slice of the data in memory.
ServeMemory ==
    /\ at = "body"
    /\ ~req.large
    /\ ReturnWith(Content(IF req.head THEN None ELSE req.info))
    /\ UNCHANGED <<parseVars, req, disk>>

\* serveLargeFile: HEAD needs no file.
ServeHead ==
    /\ at = "body"
    /\ req.large /\ req.head
    /\ ReturnWith(Content(None))
    /\ UNCHANGED <<parseVars, req, disk>>

\* GET opens the file unless it was opened to sniff its type.
OpenBody ==
    /\ at = "body"
    /\ req.large /\ ~req.head
    /\ handle = None
    /\ \/ Open /\ UNCHANGED <<at, resp>>
       \/ \E s \in {403, 500} : ReturnWith(Answer(s))
    /\ UNCHANGED <<parseVars, req, disk>>

\* SetBodyStream passes the handle to the stream, with a length that must fit
\* an int.
PassStream ==
    /\ at = "body"
    /\ req.large /\ ~req.head
    /\ handle # None
    /\ IF Content(handle).length > MaxInt
       THEN ReturnWith(Answer(413))
       ELSE at' = "streaming" /\ resp' = Content(handle) /\ KeepHandle
    /\ UNCHANGED <<parseVars, req, disk>>

\* fasthttp has written the body, or the client has gone: it closes the stream.
CloseStream ==
    /\ at = "streaming"
    /\ at' = "done"
    /\ Close
    /\ UNCHANGED <<parseVars, req, disk, resp>>

\* The file is replaced by its next version (written elsewhere and renamed,
\* so that an open handle keeps the old one).
Replace ==
    /\ disk + 1 \in Versions
    /\ disk' = disk + 1
    /\ UNCHANGED <<parseVars, req, at, handle, opened, closed, resp>>

-----------------------------------------------------------------------------
Next ==
    \/ CheckLimit \/ SniffOpen \/ SniffSeek \/ Conditional
    \/ IfRange \/ Parse \/ Parsed
    \/ ServeMemory \/ ServeHead \/ OpenBody \/ PassStream \/ CloseStream
    \/ Replace

Spec == Init /\ [][Next]_vars

-----------------------------------------------------------------------------
\* Every variable has its type.
TypeOK ==
    /\ ParseTypeOK
    /\ req \in Requests
    /\ disk \in Versions
    /\ at \in {"limit", "sniff", "seek", "conditional", "ifrange", "parse",
               "body", "streaming", "done"}
    /\ handle \in Versions \cup {None}
    /\ opened \in Nat /\ closed \in Nat
    /\ resp \in Response

\* The handle has one owner at a time and is closed exactly once: it is open
\* while its bytes are streamed, and no path through the handler, the error
\* and HEAD paths included, leaves it open or opens a second one.  The bytes
\* come from the handle that is open, whatever replaces the file meanwhile.
HandleClosedOnce ==
    /\ closed + (IF handle = None THEN 0 ELSE 1) = opened
    /\ opened <= 1
    /\ at = "streaming" => handle # None /\ resp.body = handle
    /\ at = "done" => handle = None

-----------------------------------------------------------------------------
(* What the header means (RFC 9110, section 14), without the arithmetic.   *)

\* The positions that a valid element asks for.
Selected(e) ==
    {p \in 0 .. size - 1 :
        IF e.first = Absent THEN p >= size - e.last
        ELSE p >= e.first /\ (e.last = Absent \/ p <= e.last)}

\* The places of the elements in the header, and of those that select a part
\* of the content.
Specs == {i \in DOMAIN header : header[i] # Blank}
Valid ==
    /\ Specs # {} /\ Cardinality(Specs) <= MaxRanges
    /\ \A i \in Specs : WellFormed(header[i])
Wanted == {i \in Specs : Selected(header[i]) # {}}

\* The rank of a place among the wanted ones, and the bytes that places select:
\* one that is selected twice counts twice.
Rank(i) == Cardinality({j \in Wanted : j <= i})
Bytes(places) == {b \in places \X (0 .. size - 1) : b[2] \in Selected(header[b[1]])}
BytesWanted == Cardinality(Bytes(Wanted))

\* HEAD and GET, from memory and from disk, are answered alike: with the
\* ranges asked for, in the order asked for, each clamped to the content; with
\* 416 when a valid header selects nothing; and with the whole content when
\* If-Range does not match, the header is malformed or asks for too much.
AnswerAsRequested ==
    resp.status \in {200, 206, 416} =>
        LET honoured == req.range /\ IfRangeAllowsRange /\ Valid
        IN IF honoured /\ Wanted = {} THEN resp.status = 416
           ELSE IF honoured /\ BytesWanted <= size
           THEN /\ resp.status = 206
                /\ resp.length = BytesWanted
                /\ Len(resp.parts) = Cardinality(Wanted)
                /\ \A i \in Wanted :
                     LET r == resp.parts[Rank(i)]
                     IN r.start .. (r.start + r.length - 1) = Selected(header[i])
           ELSE /\ resp.status = 200
                /\ resp.length = size
                /\ resp.parts = <<>>

=============================================================================
