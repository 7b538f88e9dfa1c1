----------------------------- MODULE FileStore -----------------------------
(***************************************************************************)
(* What the native client promises about the files of a directory, without *)
(* stages, scripts, receipts or a network: every call takes effect at most *)
(* once, atomically, and only on the version it observed in its generation *)
(* of the workspace; what it answers agrees with what it did.              *)
(***************************************************************************)
EXTENDS Naturals

CONSTANTS Ops, Names,
          Import,       \* version of a file the checkpoint provides
          Absent,       \* no file
          Provided      \* names the checkpoint provides

VARIABLES epoch, open,
          head,         \* head[n]: the version at n: the call that made it
          wish,         \* wish[o]: what call o wants, over which version
          done,         \* calls that took effect
          said          \* answers given

storeVars == <<epoch, open, head, wish, done, said>>

Versions == Ops \cup {Import}
Imported == [n \in Names |-> IF n \in Provided THEN Import ELSE Absent]
Empty == [n \in Names |-> Absent]

StoreInit ==
    /\ epoch = 1 /\ open = TRUE /\ head = Imported
    /\ wish = [o \in Ops |-> Absent] /\ done = {}
    /\ said = [o \in Ops |-> "none"]

\* put replaces the bytes, touch the metadata, remove the entry.
Ask(o, n, k) ==
    /\ open /\ wish[o] = Absent
    /\ head[n] = Absent => k = "put"
    /\ wish' = [wish EXCEPT ![o] = [name |-> n, kind |-> k, over |-> head[n], epoch |-> epoch]]
    /\ UNCHANGED <<epoch, open, head, done, said>>

TakeEffect(o) ==
    LET w == wish[o] IN
    /\ w # Absent /\ o \notin done
    /\ open /\ w.epoch = epoch /\ head[w.name] = w.over
    \* a refused overwrite never happens; a refused creation may still arrive
    /\ said[o] \in {"conflict", "changed", "lost"} /\ w.kind = "put"
         => said[o] = "conflict" /\ w.over = Absent
    /\ head' = [head EXCEPT ![w.name] = IF w.kind = "remove" THEN Absent ELSE o]
    /\ done' = done \cup {o}
    /\ UNCHANGED <<epoch, open, wish>>

Commit(o) == TakeEffect(o) /\ UNCHANGED said
CommitAndAnswer(o) ==
    /\ said[o] = "none" /\ said' = [said EXCEPT ![o] = "ok"]
    /\ TakeEffect(o)

\* The version o wanted to remove is no longer there.
Gone(o) == ~open \/ wish[o].epoch # epoch \/ head[wish[o].name] # wish[o].over

Answer(o, a) ==
    /\ wish[o] # Absent /\ said[o] = "none"
    /\ a = "ok" => o \in done \/ (wish[o].kind = "remove" /\ Gone(o))
    /\ a \in {"conflict", "changed", "lost"} /\ wish[o].kind = "put" => o \notin done
    /\ said' = [said EXCEPT ![o] = a]
    /\ UNCHANGED <<epoch, open, head, wish, done>>

Close == open /\ open' = FALSE /\ head' = Empty /\ UNCHANGED <<epoch, wish, done, said>>
Reopen == /\ ~open /\ open' = TRUE /\ epoch' = epoch + 1 /\ head' = Imported
          /\ UNCHANGED <<wish, done, said>>

StoreNext ==
    \/ \E o \in Ops : \/ \E n \in Names, k \in {"put", "touch", "remove"} : Ask(o, n, k)
                      \/ Commit(o) \/ CommitAndAnswer(o)
                      \/ \E a \in {"ok", "conflict", "changed", "lost", "error"} : Answer(o, a)
    \/ Close \/ Reopen

StoreSpec == StoreInit /\ [][StoreNext]_storeVars
=============================================================================
