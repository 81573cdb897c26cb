------------------------------- MODULE MCConfig -------------------------------
(* Instances of Config for TLC.                                            *)
EXTENDS Config, TLC

MCHosts == {"lan", "wan"}
MCPorts == {0, 80, 90, 443, 70000}
MCTexts == {"a", "b"}
MCNumbers == {-1, 1, 3, 4, 9}

Addr(h, p) == [host |-> h, port |-> p]
MCDefaults == [addr |-> Addr(Unset, 80), tlsAddr |-> Addr(Unset, 443),
               cert |-> Unset, key |-> Unset, timeout |-> 2, caching |-> TRUE,
               bytes |-> 5, gzip |-> TRUE, level |-> 5]

\* Nothing; an address, a timeout and a certificate; a key and no cache; a
\* malformed address; a size that Validate rejects if the cache is enabled.
MCLayers ==
    {[x \in {} |-> 0],
     "addr" :> Addr("lan", 90) @@ "timeout" :> 0 @@ "gzip" :> FALSE,
     "cert" :> "a" @@ "level" :> 9,
     "key" :> "a" @@ "caching" :> FALSE @@ "level" :> 0,
     "addr" :> Addr(Unset, NoPort) @@ "bytes" :> 0}

NoFlags == [host |-> Unset, port |-> 0, tlsPort |-> 0, cert |-> Unset,
            key |-> Unset, noCache |-> FALSE, noCompress |-> FALSE,
            cacheSize |-> Unset]
Size(n, u) == [n |-> n, unit |-> u]
\* With MaxInt = 15, 9 * 4 wraps around to a positive number.
MCFlagSets ==
    {NoFlags,
     [NoFlags EXCEPT !.host = "wan", !.noCompress = TRUE],
     [NoFlags EXCEPT !.port = 80, !.cacheSize = Size(3, 4)],
     [NoFlags EXCEPT !.port = 70000],
     [NoFlags EXCEPT !.tlsPort = 90, !.key = "b", !.noCache = TRUE],
     [NoFlags EXCEPT !.cert = "b", !.key = "b", !.tlsPort = 70000],
     [NoFlags EXCEPT !.cert = "b"],
     [NoFlags EXCEPT !.cacheSize = Size(-1, 1)],
     [NoFlags EXCEPT !.cacheSize = Size(9, 4)]}
=============================================================================
