------------------------------ MODULE SizedStore ------------------------------
(***************************************************************************)
(* What a bounded file cache promises, whatever its policy: under a key it *)
(* has a file read for that key or nothing; a file is stored in one step,  *)
(* and only if everything then stored is within the limit; stored files    *)
(* may be forgotten at any time.  FileCache is shown to implement this.    *)
(***************************************************************************)

CONSTANTS
    Keys,
    Objects,
    NoFile,
    Loads,          \* the files that may be stored under each key
    WithinLimit(_)  \* whether a map of entries respects the limit

VARIABLE store

Init == store = [k \in Keys |-> NoFile]

\* f is stored under k and the keys of D are dropped to make room.
Save(k, f, D) ==
    /\ f \in Loads[k]
    /\ store' = [j \in Keys |-> IF j = k THEN f
                                ELSE IF j \in D THEN NoFile ELSE store[j]]
    /\ WithinLimit(store')

\* The keys of D are dropped.
Forget(D) ==
    store' = [j \in Keys |-> IF j \in D THEN NoFile ELSE store[j]]

Next ==
    \/ \E k \in Keys, f \in Objects, D \in SUBSET Keys : Save(k, f, D \ {k})
    \/ \E D \in SUBSET Keys : Forget(D)

Spec == Init /\ [][Next]_store

=============================================================================
