---------------------------- MODULE MCNativeLocks ----------------------------
(* Two mounts with one lock owner each, a file of three bytes.             *)
EXTENDS NativeLocks, TLC

CONSTANTS m1, m2, a, b

TwoOwners == a :> m1 @@ b :> m2

Locking(start, end, type, wait) ==
    [kind |-> "set", lock |-> Lock(start, end, type), wait |-> wait]

\* a asks for the whole file and waits for it; b shares the whole file and
\* then lets go of it or mutates it.
Programs ==
    a :> <<{Locking(0, MaxByte, "write", TRUE)}>>
 @@ b :> <<{Locking(0, MaxByte, "read", FALSE)},
           {[kind |-> "unlockAll", wait |-> FALSE], [kind |-> "write", wait |-> FALSE]}>>

\* The record arithmetic on its own, for every owner's field and every request
\* over five bytes: applyFileLock leaves normal records that mean the old
\* modes updated by the request, to the last byte of the last record.
Wide == INSTANCE ByteRanges WITH MaxByte <- 4

\* The normal records of a function from bytes to modes: its maximal runs.
Runs(modes) ==
    {r \in Wide!Ranges :
        /\ r.start <= r.end
        /\ \A x \in r.start..r.end : modes[x] = r.type
        /\ r.start = 0 \/ modes[r.start - 1] # r.type
        /\ r.end = 4 \/ modes[r.end + 1] # r.type}

ASSUME ApplyFileLockExact ==
    \A modes \in [Wide!Bytes -> Modes \cup {"none"}] :
        LET field == SetToSortSeq(Runs(modes), Wide!Before) IN
        \A start \in Wide!Bytes : \A end \in start..4 : \A type \in Modes \cup {"none"} :
            LET after == Wide!ApplyFileLock(field, Lock(start, end, type)) IN
            /\ Wide!Normal(after)
            /\ Wide!ByteModes(after) = Wide!Updated(modes, Lock(start, end, type))
=============================================================================
