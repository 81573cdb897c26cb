---------------------------- MODULE MCFileServing ----------------------------
(* Instances of FileServing for TLC.                                       *)
EXTENDS FileServing, TLC

CONSTANTS root, rootIndex, docs, docsIndex, dotfile, r1, d1, d2, x

\* "/", "/index.html", "/docs", "/docs/index.html" (a symbolic link to a page
\* inside the root or to one outside it) and a name that PathSafe rejects.
TreeUrls == {root, rootIndex, docs, docsIndex, dotfile}
TreeFiles == {r1, d1, x}
TreeIndexURL == root :> rootIndex @@ docs :> docsIndex
TreeLinkTargets == rootIndex :> {r1} @@ docsIndex :> {d1, x}
TreeInitTarget == rootIndex :> r1 @@ docsIndex :> d1
TreeOwnUrl == r1 :> rootIndex @@ d1 :> NoEntry @@ x :> NoEntry
TreeVersions == r1 :> 1 @@ d1 :> 2 @@ x :> 0

\* The root alone.
RootUrls == {root, rootIndex}
RootFiles == {r1}
RootIndexURL == root :> rootIndex
RootLinkTargets == rootIndex :> {r1}
RootInitTarget == rootIndex :> r1
RootOwnUrl == r1 :> rootIndex
RootVersions == r1 :> 2

\* The link alone, to one of two releases.
LinkUrls == {docsIndex}
LinkFiles == {d1, d2}
LinkIndexURL == [u \in {} |-> u]
LinkLinkTargets == docsIndex :> {d1, d2}
LinkInitTarget == docsIndex :> d1
LinkOwnUrl == [f \in LinkFiles |-> NoEntry]
LinkVersions == d1 :> 2 @@ d2 :> 1
=============================================================================
