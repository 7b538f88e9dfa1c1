------------------------------ MODULE LockTable ------------------------------
(***************************************************************************)
(* What byte-range locks promise: every byte of the file has, for every    *)
(* owner that still lives, a mode; two living owners never hold modes that *)
(* exclude each other; one step changes the locks of one living owner, or  *)
(* ends owners for good, or forgets what owners hold.                      *)
(***************************************************************************)
CONSTANTS Owners, Bytes

VARIABLES mode,     \* mode[o][b]: what o holds on byte b
          ended     \* owners whose session is over

Free == [b \in Bytes |-> "none"]

Excludes(p, q) == p # "none" /\ q # "none" /\ (p = "write" \/ q = "write")

Init == mode = [o \in Owners |-> Free] /\ ended = {}

\* o's bytes change mode; what others hold allows every mode it gets.
Relock(o) ==
    LET before == mode
        after == mode'
    IN  /\ o \notin ended
        /\ after \in [Owners -> [Bytes -> {"none", "read", "write"}]]
        /\ \A p \in Owners \ {o} :
               /\ after[p] = before[p]
               /\ \A b \in Bytes :
                      after[o][b] # before[o][b] => ~Excludes(after[o][b], before[p][b])
        /\ UNCHANGED ended

\* Owners end for good, and what they held is free.  The table may forget
\* living owners as well: those whose lock they were never told of.
End ==
    /\ ended \subseteq ended' /\ ended' \subseteq Owners
    /\ \E forgotten \in SUBSET Owners :
           /\ ended' \subseteq forgotten
           /\ mode' = [o \in Owners |-> IF o \in forgotten THEN Free ELSE mode[o]]

Next == End \/ \E o \in Owners : Relock(o)

vars == <<mode, ended>>
Spec == Init /\ [][Next]_vars
==============================================================================
