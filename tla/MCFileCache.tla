----------------------------- MODULE MCFileCache -----------------------------
(* Instance of FileCache for TLC.                                          *)
EXTENDS FileCache, TLC

CONSTANTS k1, k2, k3, a1, a2, b1, b2

\* The file behind k1 grows and shrinks when it is edited; k3 is the directory
\* whose index file it is, so Preload gives both the same pointer.  The file
\* behind k2 is edited to one too large for the cache and back.
SiteKeys == {k1, k2, k3}
SiteObjects == {a1, a2, b1, b2}
SiteLoads == k1 :> {a1, a2} @@ k2 :> {b1, b2} @@ k3 :> {a1}
SiteSize == a1 :> 1 @@ a2 :> 4 @@ b1 :> 1 @@ b2 :> 5

Symmetry == Permutations(Procs)
=============================================================================
