----------------------------- MODULE ByteRanges -----------------------------
(***************************************************************************)
(* The record arithmetic of advisory byte-range locks                      *)
(* (mount/internal/client/native_locks.go).  A range names its first and   *)
(* its last byte; a range "to the end of the file" ends at MaxByte, the    *)
(* largest 64-bit offset.  An owner's field in the lock hash is a sorted   *)
(* sequence of ranges.  The pid of a record is left out: it only travels.  *)
(***************************************************************************)
EXTENDS Integers, FiniteSets, Sequences, SequencesExt

CONSTANT MaxByte    \* ^uint64(0)

ASSUME MaxByteAssumption == MaxByte \in Nat

Bytes == 0..MaxByte
Modes == {"read", "write"}
Lock(start, end, type) == [start |-> start, end |-> end, type |-> type]
Ranges == [start: Bytes, end: Bytes, type: Modes]

\* What validateFileLock lets through; type "none" unlocks.
RequestTypes == Modes \cup {"none"}
Requests == [start: Bytes, end: Bytes, type: RequestTypes]
Proper(r) == r.start <= r.end

Covers(r, b) == r.start <= b /\ b <= r.end

LockRangesOverlap(a, b) == a.start <= b.end /\ b.start <= a.end

\* mutant of LocksConflict: a writer does not see the readers
ExistingWrites(existing, requested) ==
    /\ existing.type # "none" /\ requested.type # "none"
    /\ LockRangesOverlap(existing, requested)
    /\ existing.type = "write"

LocksConflict(existing, requested) ==
    /\ existing.type # "none" /\ requested.type # "none"
    /\ LockRangesOverlap(existing, requested)
    /\ existing.type = "write" \/ requested.type = "write"

\* What applyFileLock leaves of one record under a request.
Split(current, requested) ==
    IF ~LockRangesOverlap(current, requested) THEN {current}
    ELSE {r \in {Lock(current.start, requested.start - 1, current.type)} :
                current.start < requested.start}
         \cup
         {r \in {Lock(requested.end + 1, current.end, current.type)} :
                requested.end < current.end}

Before(a, b) == a.start < b.start \/ (a.start = b.start /\ a.end < b.end)

NextLockStart(end) == IF end = MaxByte THEN end ELSE end + 1

\* One step of the loop of normalizeFileLocks over the sorted records.
Coalesce(out, lock) ==
    IF /\ out # <<>>
       /\ Last(out).type = lock.type
       /\ lock.start <= NextLockStart(Last(out).end)
    THEN IF lock.end > Last(out).end
         THEN [out EXCEPT ![Len(out)].end = lock.end] ELSE out
    ELSE Append(out, lock)

\* The records in order: the i-th has i - 1 before it.
Sorted(locks) ==
    [i \in 1..Cardinality(locks) |->
        CHOOSE lock \in locks : Cardinality({l \in locks : Before(l, lock)}) = i - 1]

NormalizeFileLocks(locks) == FoldLeft(Coalesce, <<>>, Sorted(locks))

Pieces(existing, requested) ==
    UNION {Split(existing[i], requested) : i \in DOMAIN existing}

ApplyFileLock(existing, requested) ==
    NormalizeFileLocks(Pieces(existing, requested)
        \cup {r \in {requested} : r.type # "none"})

-----------------------------------------------------------------------------
(* What the records mean, byte by byte: the reference the above is held    *)
(* against.                                                                *)

ModeOf(records, b) ==
    IF \E r \in records : Covers(r, b)
    THEN (CHOOSE r \in records : Covers(r, b)).type ELSE "none"

ByteModes(locks) == [b \in Bytes |-> ModeOf(ToSet(locks), b)]

Updated(modes, requested) ==
    [b \in Bytes |-> IF Covers(requested, b) THEN requested.type ELSE modes[b]]

\* Sorted, disjoint, and no two neighbours that could be one record.
Normal(locks) ==
    \A i \in 1..(Len(locks) - 1) :
        /\ locks[i].end < locks[i+1].start
        /\ locks[i].type = locks[i+1].type => locks[i].end + 1 < locks[i+1].start
=============================================================================
