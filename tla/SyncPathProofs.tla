---------------------------- MODULE SyncPathProofs ----------------------------
(***************************************************************************)
(* What the daemon keeps about a file is true, for any number of edits,    *)
(* crashes, sweeps and waiting events.  A live entry of its state pairs a  *)
(* revision with the body that Redis had under it; the entry is written by *)
(* upload results, by download results and by sweeps, each long after the  *)
(* observation it rests on, so the invariant says of every queue and every *)
(* worker what its members may be (Sound, Uploads, Results, ...), and      *)
(* these sets depend on what Redis has had.  From it follow the types, the *)
(* fate of the user's bodies and the fate of a sweep that was put off.     *)
(***************************************************************************)
EXTENDS SyncPath, FiniteSetTheorems, TLAPS

\* Redis had this body under this revision, which it has reached; no body needs
\* no revision.
Pairs(body, rev) ==
    /\ rev \in 0 .. Rev
    /\ body # Absent => rev \in DOMAIN published /\ published[rev] = body

\* The entries the daemon may hold: only a known file is deleted, and a live one
\* was in Redis as it says.
Sound == {e \in Entries : (e.deleted => Has(e)) /\ (Live(e) => Pairs(e.body, e.rev))}
Filled == {e \in Sound : Has(e)}
Looks == {l \in [pc : {"stat"}, base : Sound] : ~Dead(l.base)}

\* The work of the uploader: what waits, what is in hand with what Redis showed,
\* and what has been answered.
Kinds == {"file", "delete"}
Uploads ==
    {op \in [kind : Kinds, body : Bodies, base : Sound] : op.kind = "file" => op.body # Absent}
Uploading ==
    {u \in [pc : {"write"}, op : Uploads, seen : BOOLEAN \X (0 .. Rev)] :
        u.op.kind = "file" /\ u.seen[1] /\ Has(u.op.base) => Pairs(u.op.base.body, u.seen[2])}
Results ==
    {r \in [op : Uploads, answer : {"ok", "skipped", "conflict"}, rev : 0 .. Rev] :
        r.answer = "ok" /\ r.op.kind = "file" => Pairs(r.op.body, r.rev)}

\* The work of the downloader.
Downloads ==
    {d \in [kind : Kinds, base : Sound, conflict : BOOLEAN] : d.conflict => d.kind = "file"}
\* In hand: what was seen of the local file is what the baseline says, so that
\* Redis had it, unless the download is a conflict's, which keeps it.
Looking ==
    {d \in [pc : {"read"}, conflict : BOOLEAN, there : BOOLEAN, seen : Bodies, ours : BOOLEAN] :
        d.ours /\ d.seen # Absent => d.seen \in Range(published)}
Removing == [pc : {"remove"}]
Replacing ==
    {d \in [pc : {"write", "rename"}, conflict : BOOLEAN, seen : Bodies, body : Bodies,
            rev : 0 .. Rev] :
        /\ Pairs(d.body, d.rev)
        /\ ~d.conflict /\ d.seen # Absent => d.seen \in Range(published)
        /\ d.pc = "rename" => d.seen = Absent}
Downloading == Looking \cup Removing \cup Replacing
Arrivals ==
    {a \in [kind : Kinds, answer : {"ok", "skipped"}, body : Bodies, rev : 0 .. Rev] :
        a.answer = "ok" => Pairs(a.body, a.rev)}

\* A sweep: what it saw of Redis is a pair; an upload has something to publish, a
\* download replaces nothing that Redis did not have, and a conflict has moved
\* the local file aside before it installs another.
Actions == {"upload", "download", "conflict", "delete-local", "delete-remote"}
SweepPcs == {"act", "write", "install", "publish", "record", "remove",
             "unlink"}
Planned ==
    {s \in [pc : SweepPcs, kind : Actions, local : Bodies, remote : Bodies, rev : 0 .. Rev,
            current : BOOLEAN] :
        /\ Pairs(s.remote, s.rev)
        /\ s.kind = "upload" => s.local # Absent
        /\ s.kind = "download" /\ s.local # Absent => s.local \in Range(published)
        /\ s.pc = "publish" => s.kind = "upload"
        /\ s.pc \in {"write", "install"} => s.kind \in {"download", "conflict"} /\ s.remote # Absent
        /\ s.pc = "install" /\ s.kind = "conflict" => s.local = Absent}
Scanned ==
    {s \in [pc : {"plan"}, local : Bodies, remote : Bodies, rev : 0 .. Rev] :
        Pairs(s.remote, s.rev)}
Sweeps == {Idle} \cup [pc : {"detect"}, local : Bodies] \cup Scanned \cup Planned

FilesInv ==
    /\ published \in Seq(Written) /\ present \in BOOLEAN /\ (present => published # <<>>)
    /\ local \in Bodies /\ changes \in 0 .. MaxChanges
EntryInv == base \in Sound /\ disk \in Sound /\ look \in {Idle} \cup Looks
UploadInv ==
    /\ timers \in Seq(Filled) /\ candidates \subseteq Written
    /\ uploads \in Seq(Uploads) /\ upload \in {Idle} \cup Uploading /\ uploaded \in Seq(Results)
DownloadInv ==
    /\ downloads \in Seq(Downloads) /\ download \in {Idle} \cup Downloading
    /\ downloaded \in Seq(Arrivals)

SweepInv == sweep \in Sweeps

IInv == FilesInv /\ EntryInv /\ UploadInv /\ DownloadInv /\ SweepInv

\* What the rest of the state may be.
FlagsInv ==
    /\ copies \subseteq Written /\ watch \in 0 .. MaxEvents /\ feed \in 0 .. changes
    /\ echo \in [kind : Kinds \cup {"none"}, body : Bodies] /\ (echo.kind = "file" <=> Has(echo))
    /\ mode \in {"starting", "up"}
    /\ wanted \in BOOLEAN /\ rescan \in BOOLEAN /\ removed \in BOOLEAN

\* A daemon that starts has no work.
StartInv ==
    mode = "starting" =>
        /\ watch = 0 /\ look = Idle
        /\ uploads = <<>> /\ upload = Idle /\ uploaded = <<>> /\ timers = <<>>
        /\ downloads = <<>> /\ download = Idle /\ downloaded = <<>>

-----------------------------------------------------------------------------
(* What the steps have in common.                                          *)

\* A longer queue of the same things, in a larger set of things.
LEMMA LargerSeq ==
    ASSUME NEW S, NEW T, S \subseteq T, NEW q \in Seq(S)
    PROVE  q \in Seq(T)
OBVIOUS

\* Redis only adds: what was a pair stays one, and so does all that rests on it.
Grows == published' = published \/ \E new \in Written : published' = Append(published, new)
LEMMA PairsStay ==
    ASSUME published \in Seq(Written), Grows
    PROVE  /\ Rev \in Nat /\ Rev' \in Nat /\ Rev <= Rev'
           /\ \A r \in 1 .. Rev : r \in 1 .. Rev' /\ published'[r] = published[r]
           /\ \A body, rev : Pairs(body, rev) => Pairs(body, rev)'
           /\ Range(published) \subseteq Range(published')
<1>1. /\ Rev \in Nat /\ Rev' \in Nat /\ Rev <= Rev'
      /\ \A r \in 1 .. Rev : r \in 1 .. Rev' /\ published'[r] = published[r]
      /\ DOMAIN published = 1 .. Rev /\ DOMAIN published' = 1 .. Rev'
  BY DEF Grows, Rev
<1>2. \A body, rev : Pairs(body, rev) => Pairs(body, rev)'
  BY <1>1 DEF Pairs
<1>3. Range(published) \subseteq Range(published')
  BY <1>1 DEF Range
<1> QED BY <1>1, <1>2, <1>3

LEMMA SetsGrow ==
    ASSUME published \in Seq(Written), Grows
    PROVE  /\ Sound \subseteq Sound' /\ Filled \subseteq Filled' /\ Looks \subseteq Looks'
           /\ Uploads \subseteq Uploads' /\ Uploading \subseteq Uploading'
           /\ Results \subseteq Results'
           /\ Downloads \subseteq Downloads' /\ Downloading \subseteq Downloading'
           /\ Arrivals \subseteq Arrivals'
           /\ Sweeps \subseteq Sweeps'
<1>1. /\ \A body, rev : Pairs(body, rev) => Pairs(body, rev)'
      /\ 0 .. Rev \subseteq 0 .. Rev' /\ Range(published) \subseteq Range(published')
  BY PairsStay
<1>2. Sound \subseteq Sound'
  BY <1>1 DEF Sound, Entries, Live, Has
<1>3. Filled \subseteq Filled' /\ Looks \subseteq Looks'
  BY <1>2 DEF Filled, Looks
<1>4. Uploads \subseteq Uploads'
  BY <1>2 DEF Uploads
<1>5. Uploading \subseteq Uploading'
  BY <1>1, <1>4 DEF Uploading
<1>6. Results \subseteq Results'
  BY <1>1, <1>4 DEF Results
<1>7. Downloads \subseteq Downloads'
  BY <1>2 DEF Downloads
<1>8. Downloading \subseteq Downloading'
  <2>1. Looking \subseteq Looking'
    BY <1>1 DEF Looking
  <2>2. Replacing \subseteq Replacing'
    BY <1>1 DEF Replacing
  <2> QED BY <2>1, <2>2 DEF Downloading, Removing
<1>9. Arrivals \subseteq Arrivals'
  BY <1>1 DEF Arrivals
<1>10. Scanned \subseteq Scanned'
  BY <1>1 DEF Scanned
<1>11. Planned \subseteq Planned'
  BY <1>1 DEF Planned
<1>12. Sweeps \subseteq Sweeps'
  BY <1>10, <1>11 DEF Sweeps
<1> QED BY <1>2, <1>3, <1>4, <1>5, <1>6, <1>7, <1>8, <1>9, <1>12

LEMMA SetsStay ==
    ASSUME published' = published
    PROVE  /\ Sound' = Sound /\ Filled' = Filled /\ Looks' = Looks
           /\ Uploads' = Uploads /\ Uploading' = Uploading /\ Results' = Results
           /\ Downloads' = Downloads /\ Downloading' = Downloading /\ Arrivals' = Arrivals
           /\ Scanned' = Scanned /\ Planned' = Planned /\ Sweeps' = Sweeps
           /\ Rev' = Rev /\ \A body, rev : Pairs(body, rev)' <=> Pairs(body, rev)
<1>1. Rev' = Rev /\ \A body, rev : Pairs(body, rev)' <=> Pairs(body, rev)
  BY DEF Rev, Pairs
<1>2. Sound' = Sound
  BY <1>1 DEF Sound, Entries
<1>3. Filled' = Filled /\ Looks' = Looks
  BY <1>2 DEF Filled, Looks
<1>4. Uploads' = Uploads /\ Downloads' = Downloads
  BY <1>2 DEF Uploads, Downloads
<1>5. Uploading' = Uploading /\ Results' = Results
  BY <1>1, <1>4 DEF Uploading, Results
<1>6. Downloading' = Downloading /\ Arrivals' = Arrivals
  BY <1>1 DEF Downloading, Looking, Removing, Replacing, Arrivals
<1>7. Scanned' = Scanned
  BY <1>1 DEF Scanned
<1>8. Planned' = Planned
  BY <1>1 DEF Planned
<1> QED BY <1>1, <1>2, <1>3, <1>4, <1>5, <1>6, <1>7, <1>8 DEF Sweeps

\* What is in Redis now is a pair with the revision it has now.
LEMMA PresentPairs ==
    ASSUME FilesInv
    PROVE  /\ Pairs(Remote, Rev) /\ Remote \in Bodies /\ Rev \in Nat
           /\ (present <=> Remote # Absent) /\ Rev \in 0 .. Rev
<1>1. Rev \in Nat /\ DOMAIN published = 1 .. Rev /\ Absent \in Bodies
  BY BoundsAssumption DEF FilesInv, Rev, Absent, Bodies
<1>2. CASE present
  <2>1. Rev \in 1 .. Rev /\ Remote = published[Rev]
    BY <1>1, <1>2 DEF FilesInv, Remote, Rev, Last
  <2>2. published[Rev] \in Written
    BY <1>1, <2>1 DEF FilesInv
  <2> QED BY <1>1, <1>2, <2>1, <2>2 DEF Pairs, Written
<1>3. CASE ~present
  BY <1>1, <1>3 DEF Pairs, Remote
<1> QED BY <1>2, <1>3

\* What a step leaves alone keeps its part of the invariant.
LEMMA Frame ==
    ASSUME published \in Seq(Written), Grows
    PROVE  /\ EntryInv /\ UNCHANGED <<base, disk, look>> => EntryInv'
           /\ UploadInv /\ UNCHANGED uploading => UploadInv'
           /\ DownloadInv /\ UNCHANGED downloading => DownloadInv'
           /\ SweepInv /\ UNCHANGED <<base, sweep>> => SweepInv'
<1>1. EntryInv /\ UNCHANGED <<base, disk, look>> => EntryInv'
  BY SetsGrow DEF EntryInv
<1>2. UploadInv /\ UNCHANGED uploading => UploadInv'
  <2> SUFFICES ASSUME UploadInv, UNCHANGED uploading PROVE UploadInv'
    OBVIOUS
  <2>1. UNCHANGED <<timers, uploads, upload, uploaded, candidates>>
    BY DEF uploading
  <2>2. timers \in Seq(Filled') /\ uploads \in Seq(Uploads') /\ uploaded \in Seq(Results')
    BY SetsGrow, LargerSeq DEF UploadInv
  <2> QED BY <2>1, <2>2, SetsGrow DEF UploadInv
<1>3. DownloadInv /\ UNCHANGED downloading => DownloadInv'
  <2> SUFFICES ASSUME DownloadInv, UNCHANGED downloading PROVE DownloadInv'
    OBVIOUS
  <2>1. UNCHANGED <<downloads, download, downloaded>>
    BY DEF downloading
  <2>2. downloads \in Seq(Downloads') /\ downloaded \in Seq(Arrivals')
    BY SetsGrow, LargerSeq DEF DownloadInv
  <2> QED BY <2>1, <2>2, SetsGrow DEF DownloadInv
<1>4. SweepInv /\ UNCHANGED <<base, sweep>> => SweepInv'
  BY SetsGrow DEF SweepInv
<1> QED BY <1>1, <1>2, <1>3, <1>4

\* A new version of the entry only marks the sweep in progress.
LEMMA EntryKept ==
    ASSUME SweepInv, published' = published, KeepEntry \/ (\E e : Record(e))
    PROVE  SweepInv'
<1>1. CASE KeepEntry
  BY <1>1, SetsStay DEF KeepEntry, SweepInv
<1>2. CASE \E e : Record(e)
  <2>1. CASE "current" \notin DOMAIN sweep
    <3>1. sweep \in Sweeps /\ sweep \notin Planned /\ sweep' = sweep
      BY <1>2, <2>1 DEF Record, SweepInv, Planned
    <3>2. sweep'.pc # "act"
      BY <3>1 DEF Sweeps, Idle, Scanned
    <3> QED BY <3>1, <3>2, SetsStay DEF SweepInv
  <2>2. CASE "current" \in DOMAIN sweep
    <3>1. sweep \in Planned /\ sweep' = [sweep EXCEPT !.current = FALSE]
      BY <1>2, <2>2 DEF Record, SweepInv, Sweeps, Idle, Scanned
    <3>2. sweep' \in Planned /\ ~sweep'.current
      BY <3>1 DEF Planned
    <3> QED BY <3>2, SetsStay DEF SweepInv, Sweeps
  <2> QED BY <2>1, <2>2
<1> QED BY <1>1, <1>2

\* What is put together from sound things is sound.
LEMMA Made ==
    /\ \A body \in Bodies : \A rev : Pairs(body, rev) => Entry(body, rev) \in Sound
    /\ \A e \in Filled : Tombstone(e) \in Filled /\ e \in Sound /\ e.body \in Written
    /\ \A kind \in Kinds, body \in Bodies, e \in Sound :
          (kind = "file" => body # Absent)
            => [kind |-> kind, body |-> body, base |-> e] \in Uploads
    /\ \A op \in Uploads, answer \in {"ok", "skipped", "conflict"}, rev \in 0 .. Rev :
          (answer = "ok" /\ op.kind = "file" => Pairs(op.body, rev))
            => [op |-> op, answer |-> answer, rev |-> rev] \in Results
    /\ \A kind \in Kinds, e \in Sound, conflict \in BOOLEAN :
          (conflict => kind = "file")
            => [kind |-> kind, base |-> e, conflict |-> conflict] \in Downloads
    /\ \A kind \in Kinds, answer \in {"ok", "skipped"}, body \in Bodies, rev \in 0 .. Rev :
          (answer = "ok" => Pairs(body, rev))
            => [kind |-> kind, answer |-> answer, body |-> body, rev |-> rev] \in Arrivals
<1>1. \A body \in Bodies : \A rev : Pairs(body, rev) => Entry(body, rev) \in Sound
  BY DEF Entry, Sound, Entries, Pairs, Live
<1>2. \A e \in Filled : Tombstone(e) \in Filled /\ e \in Sound /\ e.body \in Written
  BY DEF Tombstone, Filled, Sound, Entries, Live, Has, Written
<1>3. \A kind \in Kinds, body \in Bodies, e \in Sound :
         (kind = "file" => body # Absent)
           => [kind |-> kind, body |-> body, base |-> e] \in Uploads
  BY DEF Uploads
<1>4. \A op \in Uploads, answer \in {"ok", "skipped", "conflict"}, rev \in 0 .. Rev :
         (answer = "ok" /\ op.kind = "file" => Pairs(op.body, rev))
           => [op |-> op, answer |-> answer, rev |-> rev] \in Results
  BY DEF Results
<1>5. \A kind \in Kinds, e \in Sound, conflict \in BOOLEAN :
         (conflict => kind = "file")
           => [kind |-> kind, base |-> e, conflict |-> conflict] \in Downloads
  BY DEF Downloads
<1>6. \A kind \in Kinds, answer \in {"ok", "skipped"}, body \in Bodies, rev \in 0 .. Rev :
         (answer = "ok" => Pairs(body, rev))
           => [kind |-> kind, answer |-> answer, body |-> body, rev |-> rev] \in Arrivals
  BY DEF Arrivals
<1> QED BY <1>1, <1>2, <1>3, <1>4, <1>5, <1>6

\* The first of a queue and the rest of it.
LEMMA Taken ==
    ASSUME NEW S, NEW q \in Seq(S), q # <<>>
    PROVE  Head(q) \in S /\ Tail(q) \in Seq(S)
OBVIOUS

LEMMA Appended ==
    ASSUME NEW S, NEW q \in Seq(S), NEW e \in S
    PROVE  Append(q, e) \in Seq(S)
OBVIOUS

-----------------------------------------------------------------------------
(* User, peers and process.                                                *)

LEMMA InitInv == Init => IInv
<1> SUFFICES ASSUME Init PROVE IInv
  OBVIOUS
<1> USE BoundsAssumption DEF Init, Absent, Bodies, Written
<1>0. 1 \in Written /\ 0 \in Bodies /\ 0 \in 0 .. MaxChanges
  OBVIOUS
<1>1. ASSUME published = <<>> PROVE FilesInv /\ base \in Sound
  <2>0. present = FALSE /\ <<>> \in Seq(Written)
    <3>1. present = (published # <<>>)
      OBVIOUS
    <3>2. present = FALSE
      BY <1>1, <3>1, Zenon
    <3> QED BY <3>2
  <2>1. published \in Seq(Written) /\ ~present /\ present \in BOOLEAN /\ local = 0 /\ base = None
    BY <1>1, <2>0 DEF Remote
  <2>2. None \in Sound
    BY <1>0, <1>1 DEF None, Sound, Entries, Live, Has, Rev
  <2> QED BY <1>0, <2>1, <2>2 DEF FilesInv
<1>2. ASSUME published = << 1 >> PROVE FilesInv /\ base \in Sound
  <2>1. <<1>> \in Seq(Written) /\ Len(<<1>>) = 1 /\ DOMAIN <<1>> = 1 .. 1 /\ <<1>>[1] = 1
    BY <1>0
  <2>2. present /\ present \in BOOLEAN /\ local = 1 /\ base = Entry(1, 1) /\ Rev = 1
    BY <1>2, <2>1 DEF Remote, Last, Rev
  <2>3. Pairs(1, 1) /\ 1 \in Bodies
    BY <1>0, <1>2, <2>1, <2>2 DEF Pairs
  <2>4. base \in Sound
    BY <2>2, <2>3, Made
  <2> QED BY <1>0, <1>2, <2>1, <2>2, <2>3, <2>4 DEF FilesInv
<1>3. FilesInv /\ base \in Sound
  BY <1>1, <1>2
<1>4. EntryInv
  BY <1>3 DEF EntryInv
<1>5. UploadInv /\ DownloadInv
  BY DEF UploadInv, DownloadInv
<1>6. SweepInv
  BY DEF SweepInv, Sweeps, Idle
<1> QED BY <1>3, <1>4, <1>5, <1>6 DEF IInv

LEMMA EnvironmentStep ==
    ASSUME IInv, Environment
    PROVE  IInv'
<1> USE DEF IInv, redis, incoming, events, sweeping
<1>0. published \in Seq(Written) /\ local \in Bodies /\ changes \in 0 .. MaxChanges
  BY DEF FilesInv
<1>a. Change => Fresh \in Written /\ Fresh \in Bodies /\ changes' \in 0 .. MaxChanges
  BY <1>0, BoundsAssumption DEF Change, Fresh, Written, Bodies, Absent
<1>b. Absent \in Bodies
  BY BoundsAssumption DEF Absent, Bodies
<1>1. CASE UserWrite \/ UserRemove
  <2>1. Change /\ local' \in {Fresh, Absent} /\ UNCHANGED <<published, present>>
    BY <1>1 DEF UserWrite, UserRemove, UserStep
  <2>2. FilesInv' /\ Grows
    BY <1>a, <1>b, <2>1 DEF FilesInv, Grows
  <2> QED BY <1>0, <1>1, <2>2, Frame DEF UserWrite, UserRemove, UserStep
<1>2. CASE PeerRemove
  <2>1. Change /\ ~present' /\ present' \in BOOLEAN /\ UNCHANGED <<published, local>>
    BY <1>2 DEF PeerRemove, PeerStep
  <2>2. FilesInv' /\ Grows
    BY <1>a, <2>1 DEF FilesInv, Grows
  <2> QED BY <1>0, <1>2, <2>2, Frame DEF PeerRemove, PeerStep
<1>3. CASE AskSweep
  <2>1. FilesInv' /\ Grows
    BY <1>a, <1>3 DEF AskSweep, FilesInv, Grows
  <2> QED BY <1>0, <1>3, <2>1, Frame DEF AskSweep
<1>4. CASE PeerWrite
  <2>1. Change /\ published' = Append(published, Fresh) /\ present' = TRUE /\ UNCHANGED local
    BY <1>4 DEF PeerWrite, PeerStep
  <2>2. published' \in Seq(Written) /\ published' # <<>>
    BY <1>0, <1>a, <2>1
  <2>3. FilesInv' /\ Grows
    BY <1>a, <2>1, <2>2 DEF FilesInv, Grows
  <2> QED BY <1>0, <1>4, <2>3, Frame DEF PeerWrite, PeerStep
<1>5. CASE Crash
  <2>1. FilesInv' /\ published' = published
    BY <1>a, <1>5 DEF Crash, FilesInv
  <2>2. EntryInv'
    BY <1>5, <2>1, SetsStay DEF Crash, EntryInv
  <2>3. UploadInv' /\ DownloadInv'
    BY <1>5 DEF Crash, UploadInv, DownloadInv
  <2>4. SweepInv'
    BY <1>5 DEF Crash, Idle, SweepInv, Sweeps
  <2> QED BY <2>1, <2>2, <2>3, <2>4
<1>6. CASE Save
  <2>1. FilesInv' /\ Grows /\ published' = published
    BY <1>6 DEF Save, FilesInv, Grows
  <2>2. EntryInv'
    BY <1>6, <2>1, SetsStay DEF Save, EntryInv
  <2> QED BY <1>0, <1>6, <2>1, <2>2, Frame DEF Save
<1> QED BY <1>1, <1>2, <1>3, <1>4, <1>5, <1>6 DEF Environment

-----------------------------------------------------------------------------
(* The reconciler, the uploader and the downloader.                        *)

\* An entry the daemon may hold, recorded or kept, keeps the entries and the
\* sweep in order.
LEMMA EntryWritten ==
    ASSUME IInv, published' = published, UNCHANGED <<disk, look>>,
           KeepEntry \/ (\E e \in Sound : Record(e))
    PROVE  EntryInv' /\ SweepInv'
<1>1. base' \in Sound'
  BY SetsStay DEF IInv, EntryInv, KeepEntry, Record
<1>2. EntryInv'
  BY <1>1, SetsStay DEF IInv, EntryInv
<1> QED BY <1>2, EntryKept DEF IInv

\* The tombstone of an entry the daemon has.
LEMMA BaseTombstone ==
    ASSUME IInv, Has(base)
    PROVE  Tombstone(base) \in Sound /\ base \in Filled /\ base.body \in Written
BY Made DEF IInv, EntryInv, Filled

LEMMA HandleLocalStep ==
    ASSUME IInv, HandleLocal
    PROVE  IInv'
<1> USE DEF redis, incoming
<1>1. FilesInv' /\ Grows /\ published' = published
  BY DEF IInv, HandleLocal, FilesInv, Grows
<1>2. EntryInv' /\ SweepInv'
  <2>1. KeepEntry \/ (Has(base) /\ Record(Tombstone(base)))
    BY DEF HandleLocal, HandleLocalDelete, HandleLocalFile
  <2> QED BY <1>1, <2>1, BaseTombstone, EntryWritten DEF HandleLocal
<1>3. UploadInv'
  <2> DEFINE file == [kind |-> "file", body |-> local, base |-> base]
  <2>1. uploads' = uploads \/ (uploads' = Append(uploads, file) /\ local # Absent)
    BY DEF HandleLocal, HandleLocalDelete, HandleLocalFile
  <2>2. local # Absent => file \in Uploads
    BY Made DEF IInv, FilesInv, EntryInv, Kinds
  <2> HIDE DEF file
  <2>3. uploads' \in Seq(Uploads)
    BY <2>1, <2>2, Appended DEF IInv, UploadInv
  <2>4. \/ timers' = timers /\ candidates' = candidates
        \/ /\ Has(base) /\ timers' = Append(timers, base)
           /\ candidates' = candidates \cup {base.body}
    BY DEF HandleLocal, HandleLocalDelete, HandleLocalFile
  <2>5. timers' \in Seq(Filled) /\ candidates' \subseteq Written
    BY <2>4, BaseTombstone, Appended DEF IInv, UploadInv
  <2>6. upload' = upload /\ uploaded' = uploaded
    BY DEF HandleLocal
  <2> QED BY <1>1, <2>3, <2>5, <2>6, SetsStay DEF IInv, UploadInv
<1>4. DownloadInv'
  BY <1>1, Frame DEF IInv, FilesInv, HandleLocal
<1> QED BY <1>1, <1>2, <1>3, <1>4 DEF IInv

LEMMA FireDeleteStep ==
    ASSUME IInv, FireDelete
    PROVE  IInv'
<1> USE DEF redis, events, incoming, sweeping
<1>1. FilesInv' /\ Grows /\ published' = published
  BY DEF IInv, FireDelete, FilesInv, Grows
<1>2. UploadInv'
  <2> DEFINE delete == [kind |-> "delete", body |-> Absent, base |-> Head(timers)]
  <2>1. Head(timers) \in Filled /\ timers' \in Seq(Filled)
    BY Taken DEF IInv, UploadInv, FireDelete
  <2>2. delete \in Uploads
    <3>1. Head(timers) \in Sound /\ Absent \in Bodies /\ "delete" \in Kinds /\ "delete" # "file"
      BY <2>1, BoundsAssumption DEF Filled, Kinds, Bodies, Absent
    <3> QED BY <3>1, Made
  <2>3. uploads' = uploads \/ uploads' = Append(uploads, delete)
    BY DEF FireDelete
  <2> HIDE DEF delete
  <2>4. uploads' \in Seq(Uploads)
    BY <2>2, <2>3, Appended DEF IInv, UploadInv
  <2>5. upload' = upload /\ uploaded' = uploaded /\ candidates' = candidates
    BY DEF FireDelete
  <2> QED BY <1>1, <2>1, <2>4, <2>5, SetsStay DEF IInv, UploadInv
<1>3. EntryInv' /\ DownloadInv' /\ SweepInv'
  BY <1>1, Frame DEF IInv, FilesInv, FireDelete
<1> QED BY <1>1, <1>2, <1>3 DEF IInv

LEMMA HandleUploadedStep ==
    ASSUME IInv, HandleUploaded
    PROVE  IInv'
<1> USE DEF redis, events, incoming
<1>1. FilesInv' /\ Grows /\ published' = published
  BY DEF IInv, HandleUploaded, FilesInv, Grows
<1>2. PICK res \in Results : res = Head(uploaded) /\ uploaded' = Tail(uploaded)
                             /\ uploaded' \in Seq(Results)
  BY Taken DEF IInv, UploadInv, HandleUploaded
<1>3. /\ res.op \in Uploads /\ res.op.base \in Sound /\ res.op.body \in Bodies
      /\ (res.answer = "ok" /\ res.op.kind = "file" => Pairs(res.op.body, res.rev))
  BY DEF Results, Uploads
<1>4. EntryInv' /\ SweepInv'
  <2>1. \/ KeepEntry
        \/ /\ Record(Entry(res.op.body, res.rev))
           /\ res.answer = "ok" /\ res.op.kind = "file"
    BY <1>2 DEF HandleUploaded, RecordedRevision
  <2>2. res.answer = "ok" /\ res.op.kind = "file" => Entry(res.op.body, res.rev) \in Sound
    BY <1>3, Made
  <2> QED BY <1>1, <2>1, <2>2, EntryWritten DEF HandleUploaded
<1>5. UploadInv'
  <2>1. candidates' \subseteq candidates
    BY DEF HandleUploaded
  <2>2. UNCHANGED <<uploads, upload, timers>>
    BY DEF HandleUploaded
  <2> QED BY <1>1, <1>2, <2>1, <2>2, SetsStay DEF IInv, UploadInv
<1>6. DownloadInv'
  <2> DEFINE again == [kind |-> "file", base |-> res.op.base, conflict |-> TRUE]
  <2>1. again \in Downloads
    BY <1>3, Made DEF Kinds
  <2>2. downloads' = downloads \/ downloads' = Append(downloads, again)
    BY <1>2 DEF HandleUploaded
  <2> HIDE DEF again
  <2>3. downloads' \in Seq(Downloads)
    BY <2>1, <2>2, Appended DEF IInv, DownloadInv
  <2>4. UNCHANGED <<download, downloaded>>
    BY DEF HandleUploaded
  <2> QED BY <1>1, <2>3, <2>4, SetsStay DEF IInv, DownloadInv
<1> QED BY <1>1, <1>4, <1>5, <1>6 DEF IInv

LEMMA HandleRemoteStep ==
    ASSUME IInv, HandleRemote
    PROVE  IInv'
<1> USE DEF redis, sweeping
<1>1. FilesInv' /\ Grows /\ published' = published
  BY DEF IInv, HandleRemote, FilesInv, Grows
<1>2. look' \in {Idle} \cup Looks
  BY DEF IInv, EntryInv, HandleRemote, Looks
<1>3. EntryInv'
  BY <1>1, <1>2, SetsStay DEF IInv, EntryInv, HandleRemote
<1> QED BY <1>1, <1>3, Frame DEF IInv, FilesInv, HandleRemote

LEMMA StatRemoteStep ==
    ASSUME IInv, StatRemote
    PROVE  IInv'
<1> USE DEF redis
<1>1. FilesInv' /\ Grows /\ published' = published
  BY DEF IInv, StatRemote, FilesInv, Grows
<1>2. look.base \in Sound /\ present \in BOOLEAN
  BY DEF IInv, FilesInv, EntryInv, StatRemote, Looks
<1>3. EntryInv' /\ SweepInv'
  <2>1. KeepEntry \/ (Has(base) /\ Record(Tombstone(base)))
    BY DEF StatRemote, Live
  <2>2. base' \in Sound' /\ disk' \in Sound' /\ look' = Idle
    BY <1>1, <2>1, BaseTombstone, SetsStay DEF StatRemote, KeepEntry, Record, IInv, EntryInv
  <2> QED BY <1>1, <2>1, <2>2, EntryKept DEF IInv, EntryInv
<1>4. DownloadInv'
  <2>1. PICK kind \in Kinds, conflict \in BOOLEAN :
          /\ conflict => kind = "file"
          /\ \/ downloads' = downloads
             \/ downloads' = Append(downloads,
                  [kind |-> kind, base |-> look.base, conflict |-> conflict])
    <3> DEFINE stale == present /\ Has(look.base) /\ local \notin {Absent, look.base.body}
               kind == IF present THEN "file" ELSE "delete"
    <3>1. stale \in BOOLEAN /\ kind \in Kinds /\ (stale => kind = "file")
      BY DEF Kinds
    <3>2. \/ downloads' = downloads
          \/ downloads' = Append(downloads,
                [kind |-> kind, base |-> look.base, conflict |-> stale])
      BY DEF StatRemote
    <3> HIDE DEF stale, kind
    <3> QED BY <3>1, <3>2
  <2>2. [kind |-> kind, base |-> look.base, conflict |-> conflict] \in Downloads
    BY <1>2, <2>1, Made
  <2>3. downloads' \in Seq(Downloads)
    BY <2>1, <2>2, Appended DEF IInv, DownloadInv
  <2>4. UNCHANGED <<download, downloaded>>
    BY DEF StatRemote
  <2> QED BY <1>1, <2>3, <2>4, SetsStay DEF IInv, DownloadInv
<1> QED BY <1>1, <1>3, <1>4, Frame DEF IInv, FilesInv, StatRemote

LEMMA HandleDownloadedStep ==
    ASSUME IInv, HandleDownloaded
    PROVE  IInv'
<1> USE DEF redis, incoming
<1>1. PICK res \in Arrivals : res = Head(downloaded) /\ downloaded' = Tail(downloaded)
                              /\ downloaded' \in Seq(Arrivals)
  BY Taken DEF IInv, DownloadInv, HandleDownloaded
<1>2. /\ res.answer \in {"ok", "skipped"} /\ res.body \in Bodies
      /\ (res.answer = "ok" => Pairs(res.body, res.rev))
  BY DEF Arrivals
<1>3. FilesInv' /\ Grows /\ published' = published
  <2>1. local' = local \/ local' = Absent
    BY <1>1, <1>2 DEF HandleDownloaded
  <2>2. local' \in Bodies
    BY <2>1, BoundsAssumption DEF IInv, FilesInv, Bodies, Absent
  <2> QED BY <2>2 DEF IInv, HandleDownloaded, FilesInv, Grows
<1>4. EntryInv' /\ SweepInv'
  <2>1. \/ KeepEntry
        \/ Has(base) /\ Record(Tombstone(base))
        \/ Record(Entry(res.body, res.rev)) /\ res.answer = "ok"
    BY <1>1, <1>2 DEF HandleDownloaded
  <2>2. res.answer = "ok" => Entry(res.body, res.rev) \in Sound
    BY <1>2, Made
  <2> QED BY <1>3, <2>1, <2>2, BaseTombstone, EntryWritten DEF HandleDownloaded
<1>5. DownloadInv'
  <2>1. UNCHANGED <<downloads, download>>
    BY DEF HandleDownloaded
  <2> QED BY <1>1, <1>3, <2>1, SetsStay DEF IInv, DownloadInv
<1> QED BY <1>3, <1>4, <1>5, Frame DEF IInv, FilesInv, HandleDownloaded

\* The workers: what one of them reads of Redis is a pair, and stays one until
\* its result has been handled.
LEMMA TakeUploadStep ==
    ASSUME IInv, TakeUpload
    PROVE  IInv'
<1> USE DEF redis, events, incoming, sweeping
<1>1. FilesInv' /\ Grows /\ published' = published
  BY DEF IInv, TakeUpload, FilesInv, Grows
<1>2. PICK op \in Uploads : op = Head(uploads) /\ uploads' = Tail(uploads)
                            /\ uploads' \in Seq(Uploads)
  BY Taken DEF IInv, UploadInv, TakeUpload
<1>3. Pairs(Remote, Rev) /\ Rev \in 0 .. Rev /\ 0 \in 0 .. Rev /\ present \in BOOLEAN
  BY PresentPairs DEF IInv, FilesInv
<1>4. \/ /\ uploaded' = uploaded
         /\ upload' = [pc |-> "write", op |-> op, seen |-> <<present, Rev>>]
         /\ op.kind = "file" => ~Diverged(op)
      \/ upload' = upload /\ UploadResult(op, "skipped", 0)
      \/ upload' = upload /\ UploadResult(op, "conflict", Rev)
      \/ upload' = upload /\ UploadResult(op, "ok", Rev) /\ Remote = op.body
  BY <1>2 DEF TakeUpload
<1>5. uploaded' \in Seq(Results) /\ upload' \in {Idle} \cup Uploading
  <2>1. CASE upload' = upload
    <3>1. PICK answer \in {"ok", "skipped", "conflict"}, rev \in 0 .. Rev :
             /\ UploadResult(op, answer, rev)
             /\ answer = "ok" /\ op.kind = "file" => Pairs(op.body, rev)
      <4> DEFINE seen == [pc |-> "write", op |-> op, seen |-> <<present, Rev>>]
      <4>1. upload = Idle /\ seen.pc # "idle" /\ Idle.pc = "idle"
        BY DEF TakeUpload, Idle
      <4>2. upload' # seen
        BY <2>1, <4>1
      <4> QED BY <1>3, <1>4, <4>2
    <3>2. [op |-> op, answer |-> answer, rev |-> rev] \in Results
      BY <3>1, Made
    <3>3. uploaded' \in Seq(Results)
      BY <3>1, <3>2, Appended DEF IInv, UploadInv, UploadResult
    <3> QED BY <2>1, <3>3 DEF IInv, UploadInv
  <2>2. CASE /\ uploaded' = uploaded
             /\ upload' = [pc |-> "write", op |-> op, seen |-> <<present, Rev>>]
             /\ op.kind = "file" => ~Diverged(op)
    <3>1. op.kind = "file" /\ present /\ Has(op.base) => Pairs(op.base.body, Rev)
      BY <1>3, <2>2 DEF Diverged
    <3>2. upload' \in Uploading
      BY <1>3, <2>2, <3>1 DEF Uploading
    <3> QED BY <2>2, <3>2 DEF IInv, UploadInv
  <2> QED BY <1>4, <2>1, <2>2
<1>6. UploadInv'
  BY <1>1, <1>2, <1>5, SetsStay DEF IInv, UploadInv, TakeUpload
<1> QED BY <1>1, <1>6, Frame DEF IInv, FilesInv, TakeUpload

LEMMA FinishUploadStep ==
    ASSUME IInv, FinishUpload
    PROVE  IInv'
<1> USE DEF redis, events, incoming, sweeping
<1>1. upload.op \in Uploads /\ Rev \in Nat /\ published \in Seq(Written) /\ present \in BOOLEAN
  BY PresentPairs DEF IInv, FilesInv, UploadInv, FinishUpload, Uploading
<1>2. PICK op \in Uploads : op = upload.op
  BY <1>1
<1>3. /\ op.kind \in Kinds /\ op.body \in Bodies /\ (op.kind = "file" => op.body \in Written)
      /\ op \in Uploads
  BY DEF Uploads, Written
<1>4. FilesInv' /\ Grows
  <2>1. /\ local' = local /\ changes' = changes
        /\ \/ published' = published /\ present' \in {present, FALSE}
           \/ op.kind = "file" /\ published' = Append(published, op.body) /\ present' = TRUE
    BY <1>2 DEF FinishUpload
  <2>2. CASE published' = published /\ present' \in {present, FALSE}
    BY <2>1, <2>2 DEF IInv, FilesInv, Grows
  <2>3. CASE op.kind = "file" /\ published' = Append(published, op.body) /\ present' = TRUE
    <3>1. published' \in Seq(Written) /\ published' # <<>>
      BY <1>1, <1>3, <2>3
    <3> QED BY <1>3, <2>1, <2>3, <3>1 DEF IInv, FilesInv, Grows
  <2> QED BY <2>1, <2>2, <2>3
<1>5. PICK rev \in 0 .. Rev', answer \in {"ok", "skipped", "conflict"} :
         /\ UploadResult(op, answer, rev)
         /\ answer = "ok" /\ op.kind = "file" => Pairs(op.body, rev)'
  <2>0. Rev' \in Nat /\ 0 \in 0 .. Rev'
    BY <1>1, <1>4, PairsStay
  <2>1. CASE /\ op.kind = "file" /\ published' = Append(published, op.body)
             /\ UploadResult(op, "ok", Rev + 1)
    <3>1. PICK rev \in Nat : rev = Rev + 1
      BY <1>1
    <3>2. Rev' = rev /\ rev \in DOMAIN published' /\ published'[rev] = op.body
      BY <1>1, <1>3, <2>1, <3>1 DEF Rev
    <3>3. Pairs(op.body, rev)' /\ rev \in 0 .. Rev'
      BY <3>1, <3>2 DEF Pairs
    <3> QED BY <2>1, <3>1, <3>3
  <2>2. CASE op.kind = "delete" /\ UploadResult(op, "ok", 0)
    BY <2>0, <2>2
  <2>3. CASE UploadResult(op, "skipped", 0) \/ UploadResult(op, "conflict", 0)
    BY <2>0, <2>3
  <2> QED BY <1>2, <2>1, <2>2, <2>3 DEF FinishUpload
<1>6. UploadInv'
  <2> DEFINE res == [op |-> op, answer |-> answer, rev |-> rev]
  <2>1. res \in Results'
    <3>1. op \in Uploads'
      BY <1>1, <1>4, SetsGrow
    <3> QED BY <1>5, <3>1 DEF Results
  <2>2. uploaded \in Seq(Results') /\ uploads \in Seq(Uploads') /\ timers \in Seq(Filled')
    BY <1>1, <1>4, SetsGrow, LargerSeq DEF IInv, UploadInv
  <2>3. uploaded' = Append(uploaded, res)
    BY <1>5 DEF UploadResult
  <2> HIDE DEF res
  <2>4. uploaded' \in Seq(Results')
    BY <2>1, <2>2, <2>3, Appended
  <2>5. UNCHANGED <<uploads, timers, candidates>> /\ upload' = Idle
    BY DEF FinishUpload
  <2> QED BY <2>2, <2>4, <2>5 DEF IInv, UploadInv
<1> QED BY <1>1, <1>4, <1>6, Frame DEF IInv, FinishUpload

\* A step of the downloader moves the local file, its queues and its worker.
LEMMA DownloaderFrame ==
    ASSUME IInv, DownloaderOnly, local' \in Bodies, downloads' \in Seq(Downloads),
           download' \in {Idle} \cup Downloading, downloaded' \in Seq(Arrivals)
    PROVE  IInv'
<1> USE DEF redis, incoming, sweeping, DownloaderOnly
<1>1. FilesInv' /\ Grows /\ published' = published
  BY DEF IInv, FilesInv, Grows
<1>2. DownloadInv'
  BY <1>1, SetsStay DEF DownloadInv
<1> QED BY <1>1, <1>2, Frame DEF IInv, FilesInv

LEMMA DownloadAnswered ==
    ASSUME IInv, NEW kind \in Kinds, NEW answer \in {"ok", "skipped"}, NEW body \in Bodies,
           NEW rev \in 0 .. Rev, answer = "ok" => Pairs(body, rev),
           DownloadResult(kind, answer, body, rev)
    PROVE  downloaded' \in Seq(Arrivals)
BY Made, Appended DEF IInv, DownloadInv, DownloadResult

\* Nothing at all is a pair with no revision.
LEMMA NoBody ==
    ASSUME IInv
    PROVE  /\ Absent \in Bodies /\ 0 \in 0 .. Rev /\ Pairs(Absent, 0)
           /\ "file" \in Kinds /\ "delete" \in Kinds /\ local \in Bodies
BY PresentPairs, BoundsAssumption DEF IInv, FilesInv, Pairs, Bodies, Absent, Kinds

LEMMA FileSkipped ==
    ASSUME IInv, SkipFile
    PROVE  download' = Idle /\ downloaded' \in Seq(Arrivals)
BY NoBody, DownloadAnswered DEF SkipFile

\* The local file is as the baseline says: Redis had it.
LEMMA MatchesWasPublished ==
    ASSUME NEW seen \in Bodies, NEW entry \in Sound
    PROVE  /\ MatchesStored(seen, entry) \in BOOLEAN
           /\ MatchesStored(seen, entry) /\ seen # Absent => seen \in Range(published)
<1>1. MatchesStored(seen, entry) \in BOOLEAN
  BY DEF MatchesStored, Live, Has, Sound, Entries
<1>2. ASSUME MatchesStored(seen, entry), seen # Absent
      PROVE  seen \in Range(published)
  <2>1. Live(entry) /\ seen = entry.body
    BY <1>2 DEF MatchesStored
  <2>2. entry.rev \in DOMAIN published /\ published[entry.rev] = entry.body
    BY <2>1 DEF Sound, Pairs, Live, Has
  <2> QED BY <2>1, <2>2 DEF Range
<1> QED BY <1>1, <1>2

LEMMA TakeDownloadStep ==
    ASSUME IInv, TakeDownload
    PROVE  IInv'
<1>1. PICK op \in Downloads : op = Head(downloads) /\ downloads' \in Seq(Downloads)
  BY Taken DEF IInv, DownloadInv, TakeDownload
<1>2. op.base \in Sound /\ op.kind \in Kinds /\ op.conflict \in BOOLEAN
  BY DEF Downloads
<1>3. CASE op.kind = "delete"
  <2>1. /\ local' \in {local, Absent} /\ download' = download /\ DownloaderOnly
        /\ DownloadResult("delete", "ok", Absent, 0)
    BY <1>1, <1>3 DEF TakeDownload, Put, PutNothing
  <2>2. downloaded' \in Seq(Arrivals)
    BY <2>1, NoBody, DownloadAnswered
  <2> QED BY <1>1, <2>1, <2>2, NoBody, DownloaderFrame DEF IInv, DownloadInv
<1>4. CASE op.kind = "file"
  <2> DEFINE ours == MatchesStored(local, op.base)
             next == [pc |-> "read", conflict |-> op.conflict, there |-> present,
                      seen |-> local, ours |-> ours]
  <2>1. local' = local /\ downloaded' = downloaded /\ DownloaderOnly /\ download' = next
    BY <1>1, <1>4 DEF TakeDownload, PutNothing
  <2>2. ours \in BOOLEAN /\ (ours /\ local # Absent => local \in Range(published))
    BY <1>2, NoBody, MatchesWasPublished
  <2> HIDE DEF ours
  <2>3. next \in Looking
    BY <1>2, <2>2, NoBody DEF Looking, IInv, FilesInv
  <2> QED BY <1>1, <2>1, <2>3, NoBody, DownloaderFrame DEF IInv, DownloadInv, Downloading
<1> QED BY <1>2, <1>3, <1>4 DEF Kinds

\* What a worker reads for its file may be put in the place of the local one.
LEMMA ReadDownloadStep ==
    ASSUME IInv, ReadDownload
    PROVE  IInv'
<1>1. download \in Looking
  BY DEF IInv, DownloadInv, ReadDownload, Downloading, Removing, Replacing
<1>2. local' = local /\ downloads' \in Seq(Downloads) /\ DownloaderOnly
  BY DEF ReadDownload, PutNothing, IInv, DownloadInv
<1>3. download' \in {Idle} \cup Downloading /\ downloaded' \in Seq(Arrivals)
  <2>1. CASE SkipFile
    BY <2>1, FileSkipped
  <2>2. CASE download' = Idle /\ DownloadResult("file", "ok", Remote, Rev)
    BY <2>2, NoBody, PresentPairs, DownloadAnswered DEF IInv
  <2>3. CASE /\ download.ours \/ download.conflict
             /\ download' = [pc |-> "write", conflict |-> download.conflict,
                             seen |-> download.seen, body |-> Remote, rev |-> Rev]
             /\ UNCHANGED downloaded
    <3>1. download' \in Replacing
      BY <1>1, <2>3, PresentPairs DEF Looking, Replacing, IInv
    <3> QED BY <2>3, <3>1 DEF Downloading, IInv, DownloadInv
  <2>4. CASE download' = [pc |-> "remove"] /\ UNCHANGED downloaded
    BY <2>4 DEF Downloading, Removing, IInv, DownloadInv
  <2> QED BY <2>1, <2>2, <2>3, <2>4 DEF ReadDownload
<1> QED BY <1>2, <1>3, NoBody, DownloaderFrame

LEMMA RemoveDownloadStep ==
    ASSUME IInv, RemoveDownload
    PROVE  IInv'
<1>1. /\ local' \in {local, Absent} /\ download' = Idle /\ downloads' = downloads
      /\ DownloaderOnly /\ DownloadResult("delete", "ok", Absent, 0)
  BY DEF RemoveDownload, Put, PutNothing
<1>2. downloaded' \in Seq(Arrivals)
  BY <1>1, NoBody, DownloadAnswered
<1> QED BY <1>1, <1>2, NoBody, DownloaderFrame DEF IInv, DownloadInv

\* What is installed was read of Redis.
LEMMA Installed ==
    ASSUME IInv, download \in Replacing, Install(download.body, download.rev)
    PROVE  local' \in Bodies /\ download' = Idle /\ downloaded' \in Seq(Arrivals)
<1>1. download.body \in Bodies /\ download.rev \in 0 .. Rev /\ Pairs(download.body, download.rev)
  BY DEF Replacing
<1> QED BY <1>1, NoBody, DownloadAnswered DEF Install, Put

LEMMA WriteDownloadStep ==
    ASSUME IInv, WriteDownload
    PROVE  IInv'
<1>1. download \in Replacing /\ download.pc = "write"
  BY DEF IInv, DownloadInv, WriteDownload, Downloading, Looking, Removing
<1>2. downloads' \in Seq(Downloads) /\ DownloaderOnly
  BY DEF WriteDownload, IInv, DownloadInv
<1>3. /\ local' \in Bodies /\ download' \in {Idle} \cup Downloading
      /\ downloaded' \in Seq(Arrivals)
  <2>1. CASE SkipFile /\ PutNothing
    BY <2>1, FileSkipped, NoBody DEF PutNothing
  <2>2. CASE Install(download.body, download.rev)
    BY <1>1, <2>2, Installed
  <2>3. CASE /\ local' \in {local, Absent} /\ UNCHANGED downloaded
             /\ download' = [download EXCEPT !.pc = "rename", !.seen = Absent]
    <3>1. download' \in Replacing
      BY <1>1, <2>3, NoBody DEF Replacing
    <3> QED BY <2>3, <3>1, NoBody DEF Downloading, IInv, DownloadInv
  <2> QED BY <2>1, <2>2, <2>3 DEF WriteDownload
<1> QED BY <1>2, <1>3, DownloaderFrame

LEMMA RenameDownloadStep ==
    ASSUME IInv, RenameDownload
    PROVE  IInv'
<1>1. download \in Replacing
  BY DEF IInv, DownloadInv, RenameDownload, Renaming, Downloading, Looking, Removing
<1>2. downloads' \in Seq(Downloads) /\ DownloaderOnly /\ Install(download.body, download.rev)
  BY DEF RenameDownload, IInv, DownloadInv
<1> QED BY <1>1, <1>2, Installed, DownloaderFrame

-----------------------------------------------------------------------------
(* The sweep.                                                              *)

\* What a sweep has seen, by how far it has come.
LEMMA SweepFields ==
    ASSUME SweepInv
    PROVE  /\ sweep.pc = "detect" => sweep.local \in Bodies
           /\ sweep.pc = "plan" => sweep \in Scanned
           /\ sweep.pc \in SweepPcs => sweep \in Planned
BY DEF SweepInv, Sweeps, SweepPcs, Idle, Scanned, Planned

\* A step of the sweep leaves the queues alone.
LEMMA SweepFrame ==
    ASSUME IInv, SameDaemon, FilesInv', Grows, base' \in Sound', SweepInv'
    PROVE  IInv'
<1>1. EntryInv'
  BY SetsGrow DEF IInv, FilesInv, EntryInv, SameDaemon, incoming
<1>2. UploadInv' /\ DownloadInv'
  BY Frame DEF IInv, FilesInv, SameDaemon
<1> QED BY <1>1, <1>2 DEF IInv

\* The sweep ends, or goes on with what it has.
LEMMA SweepEnds ==
    ASSUME sweep' = Idle
    PROVE  SweepInv'
BY DEF SweepInv, Sweeps, Idle

LEMMA SweepGoesOn ==
    ASSUME sweep' \in Planned'
    PROVE  SweepInv'
BY DEF SweepInv, Sweeps

LEMMA BeginSweepStep ==
    ASSUME IInv, BeginSweep
    PROVE  IInv'
<1> USE DEF redis
<1>1. FilesInv' /\ Grows /\ published' = published /\ SameDaemon /\ base' = base
  BY DEF IInv, BeginSweep, FilesInv, Grows, SameDaemon
<1>2. SweepInv'
  BY DEF IInv, FilesInv, BeginSweep, SweepInv, Sweeps
<1> QED BY <1>1, <1>2, SetsStay, SweepFrame DEF IInv, EntryInv

LEMMA DetectAndScanStep ==
    ASSUME IInv, DetectAndScan
    PROVE  IInv'
<1> USE DEF redis
<1>1. FilesInv' /\ Grows /\ published' = published /\ SameDaemon
  BY DEF IInv, DetectAndScan, FilesInv, Grows, SameDaemon
<1>2. base' \in Sound'
  BY <1>1, BaseTombstone, SetsStay DEF IInv, EntryInv, DetectAndScan, Live
<1>3. SweepInv'
  <2>1. sweep' \in Scanned
    BY SweepFields, PresentPairs DEF IInv, DetectAndScan, Scanned
  <2>2. sweep' \in Sweeps' /\ sweep'.pc = "plan"
    BY <1>1, <2>1, SetsStay DEF Sweeps, Scanned
  <2> QED BY <2>2 DEF SweepInv
<1> QED BY <1>1, <1>2, <1>3, SweepFrame

\* A plan gives the sweep what its action relies on.
LEMMA PlanIsSound ==
    ASSUME IInv, sweep \in Scanned,
           NEW kind, kind = PlannedAction(sweep.local, sweep.remote, sweep.rev)
    PROVE  /\ kind \in Actions \cup {"skip", "refresh"}
           /\ kind = "upload" => sweep.local # Absent
           /\ kind = "download" /\ sweep.local # Absent => sweep.local \in Range(published)
           /\ kind = "refresh" => [base EXCEPT !.deleted = FALSE] \in Sound
<1>1. kind \in Actions \cup {"skip", "refresh"} /\ (kind = "upload" => sweep.local # Absent)
      /\ (kind = "download" /\ sweep.local # Absent => Live(base) /\ sweep.local = base.body)
  BY DEF PlannedAction, Actions
<1>2. base \in Sound /\ Pairs(sweep.remote, sweep.rev)
  BY DEF IInv, EntryInv, Scanned
<1>3. kind = "refresh" => Live(base) \/ (base.body = sweep.remote /\ base.rev = sweep.rev)
  BY DEF PlannedAction, MetaMatch
<1>4. Live(base) => base.body \in Range(published)
  BY <1>2 DEF Sound, Pairs, Live, Has, Range
<1>5. kind = "refresh" => [base EXCEPT !.deleted = FALSE] \in Sound
  BY <1>2, <1>3 DEF Sound, Entries, Live, Has
<1> QED BY <1>1, <1>4, <1>5

LEMMA PlanSweepStep ==
    ASSUME IInv, PlanSweep
    PROVE  IInv'
<1> USE DEF redis
<1>1. FilesInv' /\ Grows /\ published' = published /\ SameDaemon
  BY DEF IInv, PlanSweep, FilesInv, Grows, SameDaemon
<1> DEFINE kind == PlannedAction(sweep.local, sweep.remote, sweep.rev)
           planned == [pc |-> "act", kind |-> kind, local |-> sweep.local,
                       remote |-> sweep.remote, rev |-> sweep.rev, current |-> TRUE]
<1>2. sweep \in Scanned
  BY SweepFields DEF IInv, PlanSweep
<1>3. /\ kind \in Actions \cup {"skip", "refresh"}
      /\ kind = "upload" => sweep.local # Absent
      /\ kind = "download" /\ sweep.local # Absent => sweep.local \in Range(published)
      /\ kind = "refresh" => [base EXCEPT !.deleted = FALSE] \in Sound
  BY <1>2, PlanIsSound
<1>4. \/ base' = base /\ sweep' = planned /\ kind \notin {"skip", "refresh"}
      \/ sweep' = Idle /\ base' = base
      \/ sweep' = Idle /\ kind = "refresh" /\ base' = [base EXCEPT !.deleted = FALSE]
  BY DEF PlanSweep, EndSweep
<1> HIDE DEF kind
<1>5. base' \in Sound'
  <2>1. base' = base \/ (kind = "refresh" /\ base' = [base EXCEPT !.deleted = FALSE])
    BY <1>4
  <2>2. base' \in Sound
    BY <1>3, <2>1 DEF IInv, EntryInv
  <2> QED BY <1>1, <2>2, SetsStay
<1>6. SweepInv'
  <2>1. CASE sweep' = Idle
    BY <2>1, SweepEnds
  <2>2. CASE base' = base /\ sweep' = planned /\ kind \notin {"skip", "refresh"}
    <3>1. planned \in Planned
      BY <1>2, <1>3, <2>2 DEF Planned, Scanned, SweepPcs
    <3>2. sweep' \in Sweeps'
      BY <1>1, <2>2, <3>1, SetsStay DEF Sweeps
    <3> QED BY <3>2 DEF SweepInv
  <2> QED BY <1>4, <2>1, <2>2
<1> QED BY <1>1, <1>5, <1>6, SweepFrame

LEMMA ActStep ==
    ASSUME IInv, Act
    PROVE  IInv'
<1> USE DEF redis
<1>1. sweep \in Planned /\ sweep.pc = "act"
  BY SweepFields DEF IInv, Act, SweepPcs
<1>2. published' = published /\ SameDaemon /\ Grows
  BY DEF Act, GiveUpAction, SameDaemon, Grows
<1>3. FilesInv' /\ base' = base
  <2>1. UNCHANGED <<local, present, changes, base>>
    BY DEF Act, GiveUpAction, SameDaemon
  <2> QED BY <1>2, <2>1 DEF IInv, FilesInv
<1>4. base' \in Sound'
  BY <1>2, <1>3, SetsStay DEF IInv, EntryInv
<1>5. SweepInv'
  <2>1. \/ sweep' = Idle
        \/ /\ sweep.kind \in {"download", "conflict"} /\ present
           /\ sweep' = [sweep EXCEPT !.pc = "write", !.remote = Remote, !.rev = Rev]
        \/ /\ sweep.kind = "upload" /\ sweep.remote = Remote
           /\ sweep' = [sweep EXCEPT !.pc = "publish", !.rev = Rev]
        \/ \E pc \in {"remove", "unlink"} : sweep' = [sweep EXCEPT !.pc = pc]
    BY DEF Act, GiveUpAction, EndSweep, SkipDownload
  <2>2. CASE sweep' = Idle
    BY <2>2, SweepEnds
  <2>3. CASE /\ sweep.kind \in {"download", "conflict"} /\ present
             /\ sweep' = [sweep EXCEPT !.pc = "write", !.remote = Remote, !.rev = Rev]
    <3>1. sweep' \in Planned /\ sweep'.pc = "write"
      BY <1>1, <2>3, PresentPairs DEF IInv, Planned, SweepPcs
    <3> QED BY <1>2, <3>1, SetsStay, SweepGoesOn
  <2>4. CASE /\ sweep.kind = "upload" /\ sweep.remote = Remote
             /\ sweep' = [sweep EXCEPT !.pc = "publish", !.rev = Rev]
    <3>1. sweep' \in Planned /\ sweep'.pc = "publish"
      BY <1>1, <2>4, PresentPairs DEF IInv, Planned, SweepPcs
    <3> QED BY <1>2, <3>1, SetsStay, SweepGoesOn
  <2>5. CASE \E pc \in {"remove", "unlink"} : sweep' = [sweep EXCEPT !.pc = pc]
    <3>1. sweep' \in Planned
      BY <1>1, <2>5 DEF Planned, SweepPcs
    <3> QED BY <1>2, <3>1, SetsStay, SweepGoesOn
  <2> QED BY <2>1, <2>2, <2>3, <2>4, <2>5
<1> QED BY <1>2, <1>3, <1>4, <1>5, SweepFrame

LEMMA SweepUnlinkStep ==
    ASSUME IInv, SweepUnlink
    PROVE  IInv'
<1>1. published' = published /\ SameDaemon /\ Grows /\ sweep' = Idle /\ present' = present
  BY DEF SweepUnlink, SameDaemon, Grows, EndSweep, redis
<1>2. FilesInv'
  <2>1. local' \in {local, Absent} /\ UNCHANGED <<published, present, changes>>
    BY <1>1 DEF SweepUnlink, SameDaemon, Put, PutNothing
  <2> QED BY <2>1, NoBody DEF IInv, FilesInv
<1>3. base' \in Sound'
  BY <1>1, BaseTombstone, SetsStay DEF IInv, EntryInv, SweepUnlink
<1> QED BY <1>1, <1>2, <1>3, SweepEnds, SweepFrame

LEMMA SweepRemoveStep ==
    ASSUME IInv, SweepRemove
    PROVE  IInv'
<1>1. published' = published /\ SameDaemon /\ Grows /\ sweep' = Idle
  BY DEF SweepRemove, SameDaemon, Grows, EndSweep
<1>2. FilesInv'
  <2>1. present' = FALSE /\ UNCHANGED <<published, local, changes>>
    BY DEF SweepRemove, SameDaemon
  <2> QED BY <2>1 DEF IInv, FilesInv
<1>3. base' \in Sound'
  BY <1>1, BaseTombstone, SetsStay DEF IInv, EntryInv, SweepRemove
<1> QED BY <1>1, <1>2, <1>3, SweepEnds, SweepFrame

LEMMA SweepWriteStep ==
    ASSUME IInv, SweepWrite
    PROVE  IInv'
<1> USE DEF redis
<1>1. sweep \in Planned /\ sweep.pc = "write"
  BY SweepFields DEF IInv, SweepWrite, SweepPcs
<1>2. published' = published /\ SameDaemon /\ Grows /\ base' = base
      /\ UNCHANGED <<present, changes>>
  BY DEF SweepWrite, GiveUpAction, SameDaemon, Grows
<1>3. local' \in {local, Absent} /\ local' \in Bodies
  <2>1. local' \in {local, Absent}
    BY DEF SweepWrite, GiveUpAction
  <2> QED BY <2>1, BoundsAssumption DEF IInv, FilesInv, Bodies, Absent
<1>4. SweepInv'
  <2>1. CASE sweep' = Idle
    BY <2>1, SweepEnds
  <2>2. CASE sweep' # Idle
    <3>1. /\ local = sweep.local
          /\ local' = IF sweep.kind = "conflict" /\ local \notin {Absent, sweep.remote}
                      THEN Absent ELSE local
          /\ sweep' = [sweep EXCEPT !.pc = IF local = sweep.remote THEN "record" ELSE "install",
                                    !.local = local']
      BY <2>2 DEF SweepWrite, GiveUpAction, EndSweep, Unmoved
    <3>2. sweep' \in Planned /\ sweep'.pc # "act"
      BY <1>1, <1>3, <3>1 DEF Planned, SweepPcs
    <3> QED BY <1>2, <3>2, SetsStay, SweepGoesOn
  <2> QED BY <2>1, <2>2
<1> QED BY <1>2, <1>3, <1>4, SetsStay, SweepFrame DEF IInv, FilesInv, EntryInv

LEMMA SweepInstallStep ==
    ASSUME IInv, SweepInstall
    PROVE  IInv'
<1> USE DEF redis
<1>1. sweep \in Planned
  BY SweepFields DEF IInv, SweepInstall, SweepPcs
<1>2. published' = published /\ SameDaemon /\ Grows /\ base' = base
      /\ UNCHANGED <<present, changes>> /\ local' = sweep.remote
  BY DEF SweepInstall, SameDaemon, Grows, Put
<1>3. SweepInv'
  <2>1. sweep' \in Planned /\ sweep'.pc = "record"
    BY <1>1 DEF SweepInstall, Planned, SweepPcs
  <2> QED BY <1>2, <2>1, SetsStay, SweepGoesOn
<1>4. FilesInv'
  BY <1>1, <1>2 DEF IInv, FilesInv, Planned
<1> QED BY <1>2, <1>3, <1>4, SetsStay, SweepFrame DEF IInv, EntryInv

LEMMA SweepPublishStep ==
    ASSUME IInv, SweepPublish
    PROVE  IInv'
<1>1. sweep \in Planned /\ published \in Seq(Written) /\ Rev \in Nat
  BY SweepFields, PresentPairs DEF IInv, FilesInv, SweepPublish, SweepPcs
<1>2. sweep.local \in Written /\ sweep.kind = "upload"
  BY <1>1 DEF SweepPublish, Planned, Written
<1>3. UNCHANGED <<local, changes, base>> /\ SameDaemon
  BY DEF SweepPublish, SameDaemon
<1>4. CASE sweep' = Idle /\ UNCHANGED redis
  <2>1. FilesInv' /\ Grows /\ published' = published
    BY <1>3, <1>4 DEF IInv, FilesInv, Grows, redis
  <2> QED BY <1>3, <1>4, <2>1, SetsStay, SweepEnds, SweepFrame DEF IInv, EntryInv
<1>5. CASE /\ published' = Append(published, sweep.local) /\ present' = TRUE
           /\ sweep' = [sweep EXCEPT !.pc = "record", !.remote = sweep.local, !.rev = Rev + 1]
  <2>1. PICK body \in Written, rev \in Nat : body = sweep.local /\ rev = Rev + 1
    BY <1>1, <1>2
  <2>2. /\ published' \in Seq(Written) /\ published' # <<>> /\ Rev' = rev
        /\ rev \in DOMAIN published' /\ published'[rev] = body
    BY <1>1, <1>5, <2>1 DEF Rev
  <2>3. FilesInv' /\ Grows
    BY <1>3, <1>5, <2>1, <2>2 DEF IInv, FilesInv, Grows
  <2>4. Pairs(body, rev)'
    BY <2>1, <2>2 DEF Pairs
  <2>5. sweep \in Sweeps' /\ sweep \in Planned'
    <3>1. sweep \in Sweeps'
      BY <1>1, <2>3, SetsGrow DEF Sweeps
    <3> QED BY <3>1 DEF Sweeps, Idle, Scanned, SweepPublish
  <2>6. sweep' = [sweep EXCEPT !.pc = "record", !.remote = body, !.rev = rev]
    BY <1>5, <2>1
  <2>7. sweep' \in Planned' /\ sweep'.pc = "record"
    <3> DEFINE Fields == [pc : SweepPcs, kind : Actions, local : Bodies, remote : Bodies,
                          rev : 0 .. Rev', current : BOOLEAN]
    <3>1. sweep \in Fields
      BY <2>5 DEF Planned
    <3>2. "record" \in SweepPcs /\ body \in Bodies /\ rev \in 0 .. Rev'
      BY <2>1, <2>2 DEF SweepPcs, Written
    <3>3. sweep' \in Fields
      BY <2>6, <3>1, <3>2
    <3>4. /\ sweep'.pc = "record" /\ sweep'.kind = "upload" /\ sweep'.local # Absent
          /\ sweep'.remote = body /\ sweep'.rev = rev
      BY <1>2, <2>6, <3>1 DEF Written
    <3>5. Pairs(sweep.remote, sweep.rev)'
      BY <2>4, <3>4 DEF Pairs
    <3> QED BY <3>3, <3>4, <3>5 DEF Planned
  <2>8. base' \in Sound'
    BY <1>1, <1>3, <2>3, SetsGrow DEF IInv, EntryInv
  <2> QED BY <1>3, <2>3, <2>7, <2>8, SweepGoesOn, SweepFrame
<1> QED BY <1>4, <1>5 DEF SweepPublish, EndSweep

LEMMA SweepRecordStep ==
    ASSUME IInv, SweepRecord
    PROVE  IInv'
<1> USE DEF redis
<1>1. sweep \in Planned
  BY SweepFields DEF IInv, SweepRecord, SweepPcs
<1>2. FilesInv' /\ Grows /\ published' = published /\ SameDaemon /\ sweep' = Idle
  BY DEF IInv, FilesInv, SweepRecord, SameDaemon, Grows, EndSweep
<1>3. base' \in Sound'
  <2>1. Entry(sweep.remote, sweep.rev) \in Sound
    BY <1>1, Made DEF Planned
  <2> QED BY <1>2, <2>1, SetsStay DEF IInv, EntryInv, SweepRecord
<1> QED BY <1>2, <1>3, SweepEnds, SweepFrame

\* What may yet be recorded or published stays justified in every step.
LEMMA NextInv == IInv /\ [Next]_vars => IInv'
<1> SUFFICES ASSUME IInv, [Next]_vars PROVE IInv'
  OBVIOUS
<1>1. CASE UNCHANGED vars
  <2>1. UNCHANGED <<published, present, local, changes, base, disk, look, uploading,
                    downloading, sweep>>
    BY <1>1 DEF vars, redis, incoming, events, sweeping
  <2>2. FilesInv' /\ Grows
    BY <2>1 DEF IInv, FilesInv, Grows
  <2> QED BY <2>1, <2>2, Frame DEF IInv, FilesInv
<1>2. CASE Reconciler \/ FireDelete
  BY <1>2, HandleLocalStep, HandleRemoteStep, StatRemoteStep, HandleUploadedStep,
     HandleDownloadedStep, FireDeleteStep DEF Reconciler
<1>3. CASE Uploader \/ Downloader
  BY <1>3, TakeUploadStep, FinishUploadStep, TakeDownloadStep, ReadDownloadStep,
     RemoveDownloadStep, WriteDownloadStep, RenameDownloadStep DEF Uploader, Downloader
<1>4. CASE Sweep
  BY <1>4, BeginSweepStep, DetectAndScanStep, PlanSweepStep, ActStep, SweepUnlinkStep,
     SweepRemoveStep, SweepWriteStep, SweepInstallStep, SweepPublishStep, SweepRecordStep DEF Sweep
<1> QED BY <1>1, <1>2, <1>3, <1>4, EnvironmentStep DEF Next, Daemon

-----------------------------------------------------------------------------
(* The rest of the state.                                                  *)

\* The watcher's queue stays within its bound, and the mark that suppresses an
\* event names a body exactly when it is about a file.
LEMMA PutKeeps ==
    ASSUME FlagsInv, Touched
    PROVE  watch' \in 0 .. MaxEvents
BY BoundsAssumption DEF FlagsInv, Touched

LEMMA PutMarks ==
    ASSUME FlagsInv, NEW body \in Bodies, Put(body)
    PROVE  /\ watch' \in 0 .. MaxEvents
           /\ echo' \in [kind : Kinds \cup {"none"}, body : Bodies]
           /\ (echo.kind = "file" <=> Has(echo))'
BY PutKeeps DEF Put, Kinds, Has

LEMMA MarkCleared ==
    ASSUME echo' = Nothing
    PROVE  /\ echo' \in [kind : Kinds \cup {"none"}, body : Bodies]
           /\ (echo.kind = "file" <=> Has(echo))'
<1>1. Nothing \in [kind : Kinds \cup {"none"}, body : Bodies]
  BY BoundsAssumption DEF Nothing, Bodies, Absent
<1>2. Nothing.kind # "file" /\ Nothing.body = Absent
  BY DEF Nothing
<1> QED BY <1>1, <1>2 DEF Has

LEMMA FlagsKept ==
    ASSUME FlagsInv, UNCHANGED <<copies, watch, feed, echo, mode, wanted, rescan, removed, changes>>
    PROVE  FlagsInv'
BY DEF FlagsInv, Has

LEMMA FlagsOutside ==
    ASSUME IInv, FlagsInv, Environment
    PROVE  FlagsInv'
<1> USE DEF redis, incoming, events, sweeping
<1>0. changes \in 0 .. MaxChanges /\ feed \in 0 .. changes
  BY DEF IInv, FilesInv, FlagsInv
<1>1. CASE UserWrite \/ UserRemove
  <2>1. Touched /\ changes' = changes + 1
        /\ UNCHANGED <<copies, feed, echo, mode, wanted, rescan>>
        /\ removed' \in {removed, TRUE}
    BY <1>1 DEF UserWrite, UserRemove, UserStep, Change
  <2>2. removed' \in BOOLEAN
    BY <2>1 DEF FlagsInv
  <2> QED BY <1>0, <2>1, <2>2, PutKeeps DEF FlagsInv, Has
<1>2. CASE PeerWrite \/ PeerRemove
  <2>1. changes' = changes + 1 /\ feed' \in {feed, feed + 1}
        /\ UNCHANGED <<copies, watch, echo, mode, wanted, rescan, removed>>
    BY <1>2 DEF PeerWrite, PeerRemove, PeerStep, Change
  <2> QED BY <1>0, <2>1 DEF FlagsInv, Has
<1>3. CASE AskSweep
  <2>1. changes' = changes + 1 /\ wanted' = TRUE
        /\ UNCHANGED <<copies, watch, feed, echo, mode, rescan, removed>>
    BY <1>3 DEF AskSweep, Change
  <2> QED BY <1>0, <2>1 DEF FlagsInv, Has
<1>4. CASE Crash
  <2>1. changes' = changes + 1 /\ watch' = 0 /\ echo' = Nothing /\ mode' = "starting"
        /\ wanted' = FALSE /\ rescan' = FALSE /\ feed' \in {0, feed}
        /\ UNCHANGED <<copies, removed>>
    BY <1>4 DEF Crash, Change
  <2>2. /\ echo' \in [kind : Kinds \cup {"none"}, body : Bodies]
        /\ (echo'.kind = "file" <=> Has(echo'))
    BY <2>1, MarkCleared DEF Has
  <2>3. watch' \in 0 .. MaxEvents /\ feed' \in 0 .. changes' /\ mode' \in {"starting", "up"}
    BY <1>0, <2>1, BoundsAssumption DEF FlagsInv
  <2> QED BY <2>1, <2>2, <2>3 DEF FlagsInv, Has
<1>5. CASE Save
  BY <1>5, FlagsKept DEF Save
<1> QED BY <1>1, <1>2, <1>3, <1>4, <1>5 DEF Environment

LEMMA FlagsInside ==
    ASSUME IInv, FlagsInv, Reconciler \/ FireDelete \/ Uploader \/ Downloader
    PROVE  FlagsInv'
<1> USE DEF redis, incoming, events, sweeping
<1>0. local \in Bodies /\ Absent \in Bodies
  BY BoundsAssumption DEF IInv, FilesInv, Bodies, Absent
<1>1. CASE HandleLocal
  <2>1. watch > 0 /\ watch' = watch - 1 /\ echo' = Nothing
        /\ UNCHANGED <<copies, feed, mode, wanted, rescan, removed, changes>>
    BY <1>1 DEF HandleLocal
  <2>2. /\ echo' \in [kind : Kinds \cup {"none"}, body : Bodies]
        /\ (echo'.kind = "file" <=> Has(echo'))
    BY <2>1, MarkCleared DEF Has
  <2>3. watch' \in 0 .. MaxEvents /\ feed' \in 0 .. changes' /\ mode' \in {"starting", "up"}
    BY <1>0, <2>1, BoundsAssumption DEF FlagsInv
  <2> QED BY <2>1, <2>2, <2>3 DEF FlagsInv, Has
<1>2. CASE HandleRemote
  <2>1. feed > 0 /\ feed' = feed - 1 /\ changes' = changes
        /\ UNCHANGED <<copies, watch, echo, mode, wanted, rescan, removed>>
    BY <1>2 DEF HandleRemote
  <2> QED BY <2>1 DEF FlagsInv, Has, IInv, FilesInv
<1>3. CASE HandleUploaded
  <2>1. wanted' \in BOOLEAN /\ rescan' \in BOOLEAN
    BY <1>3 DEF HandleUploaded
  <2> QED BY <1>3, <2>1 DEF HandleUploaded, FlagsInv, Has
<1>4. CASE HandleDownloaded
  <2>1. PICK res \in Arrivals : res = Head(downloaded)
    BY <1>4, Taken DEF IInv, DownloadInv, HandleDownloaded
  <2>2. /\ watch' = watch \/ Touched
        /\ wanted' = TRUE \/ wanted' = wanted
        /\ UNCHANGED <<copies, feed, echo, mode, rescan, removed, changes>>
    BY <1>4, <2>1 DEF HandleDownloaded, Arrivals
  <2> QED BY <2>2, PutKeeps DEF FlagsInv, Has
<1>5. CASE StatRemote \/ FireDelete \/ TakeUpload \/ FinishUpload
  BY <1>5, FlagsKept DEF StatRemote, FireDelete, TakeUpload, FinishUpload
<1>6. CASE Downloader
  <2>1. WriteDownload \/ RenameDownload => download.body \in Bodies
    BY DEF IInv, DownloadInv, WriteDownload, RenameDownload, Renaming, Downloading, Looking,
           Removing, Replacing
  <2>2. /\ UNCHANGED <<feed, mode, wanted, rescan, removed, changes>>
        /\ copies' \subseteq copies \cup ({local} \ {Absent})
    BY <1>6 DEF Downloader, TakeDownload, ReadDownload, RemoveDownload, WriteDownload,
           RenameDownload, DownloaderOnly
  <2>3. \/ PutNothing \/ Put(Absent) \/ (Touched /\ UNCHANGED echo) \/ UNCHANGED <<watch, echo>>
        \/ Put(download.body) /\ download.body \in Bodies
    BY <1>6, <2>1 DEF Downloader, TakeDownload, ReadDownload, RemoveDownload, WriteDownload,
           RenameDownload, Install
  <2>4. /\ watch' \in 0 .. MaxEvents
        /\ echo' \in [kind : Kinds \cup {"none"}, body : Bodies]
        /\ (echo.kind = "file" <=> Has(echo))'
    BY <1>0, <2>3, PutKeeps, PutMarks DEF PutNothing, FlagsInv, Has
  <2> QED BY <1>0, <2>2, <2>4 DEF FlagsInv, Written
<1> QED BY <1>1, <1>2, <1>3, <1>4, <1>5, <1>6 DEF Reconciler, Uploader, Downloader

LEMMA FlagsSweeping ==
    ASSUME IInv, FlagsInv, Sweep
    PROVE  FlagsInv'
<1> USE DEF redis, incoming, events, SameDaemon
<1>0. local \in Bodies /\ Absent \in Bodies
  BY BoundsAssumption DEF IInv, FilesInv, Bodies, Absent
<1>1. wanted' \in BOOLEAN
  BY DEF FlagsInv, Sweep, BeginSweep, DetectAndScan, PlanSweep, Act, GiveUpAction, EndSweep,
         SkipDownload, SweepUnlink, SweepRemove, SweepWrite, SweepInstall, SweepPublish,
         SweepRecord
<1>2. rescan' \in BOOLEAN
  BY DEF FlagsInv, Sweep, BeginSweep, DetectAndScan, PlanSweep, Act, GiveUpAction,
         SweepUnlink, SweepRemove, SweepWrite, SweepInstall, SweepPublish, SweepRecord
<1>3. mode' \in {mode, "up"}
  BY DEF Sweep, BeginSweep, DetectAndScan, PlanSweep, Act, GiveUpAction, EndSweep, SkipDownload,
         SweepUnlink, SweepRemove, SweepWrite, SweepInstall, SweepPublish, SweepRecord
<1>4. UNCHANGED <<feed, changes, removed>>
  BY DEF Sweep, BeginSweep, DetectAndScan, PlanSweep, Act, GiveUpAction,
         SweepUnlink, SweepRemove, SweepWrite, SweepInstall, SweepPublish, SweepRecord
<1>5. copies' \subseteq copies \cup ({local} \ {Absent})
  BY DEF Sweep, BeginSweep, DetectAndScan, PlanSweep, Act, GiveUpAction,
         SweepUnlink, SweepRemove, SweepWrite, SweepInstall, SweepPublish, SweepRecord
<1>6. \/ UNCHANGED <<watch, echo>>
      \/ Touched /\ UNCHANGED echo
      \/ Put(Absent)
      \/ Put(sweep.remote) /\ sweep \in Planned
  <2>1. ASSUME SweepInstall PROVE sweep \in Planned
    BY <2>1, SweepFields DEF IInv, SweepInstall, SweepPcs
  <2> QED BY <2>1 DEF Sweep, PutNothing, BeginSweep, DetectAndScan, PlanSweep, Act, GiveUpAction,
         SweepUnlink, SweepRemove, SweepWrite, SweepInstall, SweepPublish, SweepRecord
<1>7. /\ watch' \in 0 .. MaxEvents
      /\ echo' \in [kind : Kinds \cup {"none"}, body : Bodies]
      /\ (echo.kind = "file" <=> Has(echo))'
  <2>1. sweep \in Planned => sweep.remote \in Bodies
    BY DEF Planned
  <2> QED BY <1>0, <1>6, <2>1, PutKeeps, PutMarks DEF FlagsInv, Has
<1> QED BY <1>0, <1>1, <1>2, <1>3, <1>4, <1>5, <1>7 DEF FlagsInv, Written

LEMMA FlagsStep == IInv /\ FlagsInv /\ [Next]_vars => FlagsInv'
<1>1. FlagsInv /\ UNCHANGED vars => FlagsInv'
  BY FlagsKept DEF vars, incoming, events, sweeping
<1> QED BY <1>1, FlagsOutside, FlagsInside, FlagsSweeping DEF Next, Daemon

\* Whoever would give a starting daemon work either works himself or waits for
\* the watcher.
LEMMA StartStep == StartInv /\ [Next]_vars => StartInv'
<1> SUFFICES ASSUME StartInv, [Next]_vars, mode' = "starting"
             PROVE  StartInv'
  BY DEF StartInv
<1> USE DEF redis, incoming, events, uploading, downloading, sweeping, SameDaemon
<1>1. CASE Crash
  BY <1>1 DEF Crash, StartInv
<1>2. CASE ~Crash
  <2>1. mode = "starting"
    BY <1>2 DEF Next, Environment, UserWrite, UserRemove, UserStep, PeerWrite, PeerRemove,
           PeerStep, AskSweep, Save, Daemon, Reconciler, HandleLocal, HandleRemote, StatRemote,
           HandleUploaded, HandleDownloaded, FireDelete, Uploader, TakeUpload, FinishUpload,
           Downloader, TakeDownload, ReadDownload, RemoveDownload, WriteDownload, RenameDownload,
           DownloaderOnly, Sweep, BeginSweep, DetectAndScan, PlanSweep, Act, GiveUpAction,
           EndSweep, SkipDownload, SweepUnlink, SweepRemove, SweepWrite, SweepInstall,
           SweepPublish, SweepRecord, vars
  <2>2. /\ watch = 0 /\ look = Idle
        /\ uploads = <<>> /\ upload = Idle /\ uploaded = <<>> /\ timers = <<>>
        /\ downloads = <<>> /\ download = Idle /\ downloaded = <<>>
    BY <2>1 DEF StartInv
  <2>3. Environment \/ Sweep \/ UNCHANGED vars
    BY <2>1, <2>2 DEF Next, Daemon, Reconciler, HandleLocal, HandleRemote, StatRemote,
         HandleUploaded, HandleDownloaded, FireDelete, Uploader, TakeUpload, FinishUpload,
         Downloader, TakeDownload, ReadDownload, RemoveDownload, WriteDownload, RenameDownload,
         Renaming
  <2>4. UNCHANGED <<look, uploading, downloading>>
    BY <1>2, <2>3 DEF Environment, UserWrite, UserRemove, UserStep, PeerWrite, PeerRemove,
           PeerStep, AskSweep, Save, Sweep, BeginSweep, DetectAndScan, PlanSweep, Act,
           GiveUpAction, SweepUnlink, SweepRemove, SweepWrite, SweepInstall, SweepPublish,
           SweepRecord, vars
  <2>5. watch' = watch
    BY <1>2, <2>1, <2>3 DEF Environment, UserWrite, UserRemove, UserStep, Touched, PeerWrite,
           PeerRemove, PeerStep, AskSweep, Save, Sweep, BeginSweep, DetectAndScan, PlanSweep,
           Act, GiveUpAction, Put, PutNothing, SweepUnlink, SweepRemove, SweepWrite,
           SweepInstall, SweepPublish, SweepRecord, vars
  <2> QED BY <2>2, <2>4, <2>5 DEF StartInv
<1> QED BY <1>1, <1>2

-----------------------------------------------------------------------------
(* A sweep that was put off.                                               *)

\* An upload is pending while one is in hand, waits or has been answered.
SomePending ==
    \/ InHand
    \/ \E i \in DOMAIN uploads : uploads[i].kind = "file"
    \/ \E i \in DOMAIN uploaded : uploaded[i].op.kind = "file"

QueuesTyped == uploads \in Seq(Uploads) /\ uploaded \in Seq(Results)

\* The uploads of a queue can be counted, and the count is zero, or one, when
\* there is none, or only the first.
LEMMA Counted ==
    ASSUME NEW S, NEW q \in Seq(S), NEW T \in SUBSET DOMAIN q
    PROVE  /\ IsFiniteSet(T) /\ Cardinality(T) \in Nat
           /\ Cardinality(T) = 0 <=> T = {}
           /\ T = {1} => Cardinality(T) = 1
<1>1. DOMAIN q = 1 .. Len(q) /\ Len(q) \in Nat
  OBVIOUS
<1>2. IsFiniteSet(1 .. Len(q))
  BY <1>1, FS_Interval
<1>3. IsFiniteSet(T)
  BY <1>1, <1>2, FS_Subset
<1>4. Cardinality(T) \in Nat
  BY <1>3, FS_CardinalityType
<1>5. Cardinality(T) = 0 <=> T = {}
  BY <1>3, FS_EmptySet
<1>6. T = {1} => Cardinality(T) = 1
  BY FS_Singleton
<1> QED BY <1>3, <1>4, <1>5, <1>6

LEMMA PendingIsSome ==
    ASSUME QueuesTyped
    PROVE  Pending <=> SomePending
<1>1. /\ Cardinality(Queued) \in Nat /\ (Cardinality(Queued) = 0 <=> Queued = {})
      /\ Cardinality(Answered) \in Nat /\ (Cardinality(Answered) = 0 <=> Answered = {})
  BY Counted DEF QueuesTyped, Queued, Answered
<1>2. /\ Queued = {} <=> ~\E i \in DOMAIN uploads : uploads[i].kind = "file"
      /\ Answered = {} <=> ~\E i \in DOMAIN uploaded : uploaded[i].op.kind = "file"
  BY DEF Queued, Answered
<1> QED BY <1>1, <1>2 DEF Pending, PendingUploads, SomePending

LEMMA PendingIsSomeNext ==
    ASSUME QueuesTyped'
    PROVE  Pending' <=> SomePending'
<1>1. /\ Cardinality(Queued') \in Nat /\ (Cardinality(Queued') = 0 <=> Queued' = {})
      /\ Cardinality(Answered') \in Nat /\ (Cardinality(Answered') = 0 <=> Answered' = {})
  BY Counted DEF QueuesTyped, Queued, Answered
<1>2. /\ Queued' = {} <=> ~\E i \in DOMAIN uploads' : uploads'[i].kind = "file"
      /\ Answered' = {} <=> ~\E i \in DOMAIN uploaded' : uploaded'[i].op.kind = "file"
  BY DEF Queued, Answered
<1> QED BY <1>1, <1>2 DEF Pending, PendingUploads, SomePending

\* The result of the only pending upload is the last one.
LEMMA OnlyPending ==
    ASSUME IInv, HandleUploaded, Head(uploaded).op.kind = "file", ~SomePending'
    PROVE  LastPending
<1>1. uploaded \in Seq(Results) /\ uploads \in Seq(Uploads) /\ uploaded # <<>>
      /\ uploaded' = Tail(uploaded) /\ UNCHANGED <<uploads, upload>>
  BY DEF IInv, UploadInv, HandleUploaded
<1>2. ~InHand /\ Queued = {}
  BY <1>1 DEF SomePending, InHand, Queued
<1>3. Answered = {1}
  <2>1. 1 \in Answered
    BY <1>1 DEF Answered
  <2>2. ASSUME NEW i \in Answered, i # 1 PROVE FALSE
    <3>1. i - 1 \in DOMAIN uploaded' /\ uploaded'[i - 1] = uploaded[i]
      BY <1>1, <2>2 DEF Answered
    <3> QED BY <2>2, <3>1 DEF Answered, SomePending
  <2> QED BY <2>1, <2>2
<1>4. Cardinality(Answered) = 1 /\ Cardinality(Queued) = 0
  BY <1>1, <1>2, <1>3, Counted, FS_Singleton, FS_EmptySet
<1> QED BY <1>2, <1>4 DEF LastPending, PendingUploads

\* Work moves from the queue to the worker and on to the answers; only the
\* reconciler takes it from there, and a crash.
LEMMA PendingMoves ==
    ASSUME IInv, Next, ~Crash, ~HandleUploaded, SomePending
    PROVE  SomePending'
<1> USE DEF redis, incoming, events, uploading, downloading, sweeping, SameDaemon
<1>0. uploads \in Seq(Uploads) /\ uploaded \in Seq(Results)
  BY DEF IInv, UploadInv
<1>1. CASE TakeUpload
  <2>1. uploads # <<>> /\ uploads' = Tail(uploads) /\ ~InHand
    BY <1>1 DEF TakeUpload, InHand
  <2>2. \/ \E answer, rev : uploaded' = Append(uploaded,
                 [op |-> Head(uploads), answer |-> answer, rev |-> rev])
        \/ /\ uploaded' = uploaded
           /\ upload' = [pc |-> "write", op |-> Head(uploads), seen |-> <<present, Rev>>]
    BY <1>1 DEF TakeUpload, UploadResult
  <2>3. ASSUME NEW i \in DOMAIN uploaded, uploaded[i].op.kind = "file"
        PROVE  i \in DOMAIN uploaded' /\ uploaded'[i] = uploaded[i]
    <3>1. uploaded' = uploaded \/ \E e : uploaded' = Append(uploaded, e)
      BY <2>2
    <3> QED BY <1>0, <2>3, <3>1
  <2>4. ASSUME NEW i \in DOMAIN uploads, uploads[i].kind = "file", i # 1
        PROVE  i - 1 \in DOMAIN uploads' /\ uploads'[i - 1] = uploads[i]
    BY <1>0, <2>1, <2>4
  <2>5. ASSUME uploads[1].kind = "file"
        PROVE  SomePending'
    <3>1. Head(uploads) = uploads[1]
      BY <1>0, <2>1
    <3>2. CASE /\ uploaded' = uploaded
               /\ upload' = [pc |-> "write", op |-> Head(uploads), seen |-> <<present, Rev>>]
      <4>1. upload'.op.kind = "file" /\ upload'.pc = "write"
        BY <2>5, <3>1, <3>2
      <4>2. upload' # Idle
        BY <4>1 DEF Idle
      <4> QED BY <4>1, <4>2 DEF SomePending, InHand
    <3>3. ASSUME NEW answer, NEW rev, uploaded' = Append(uploaded,
                   [op |-> Head(uploads), answer |-> answer, rev |-> rev])
          PROVE  SomePending'
      <4>1. Len(uploaded) + 1 \in DOMAIN uploaded'
            /\ uploaded'[Len(uploaded) + 1].op = uploads[1]
        BY <1>0, <3>1, <3>3
      <4> QED BY <2>5, <4>1 DEF SomePending
    <3> QED BY <2>2, <3>2, <3>3
  <2> QED BY <2>1, <2>3, <2>4, <2>5 DEF SomePending
<1>2. CASE FinishUpload
  <2>1. uploads' = uploads /\ upload # Idle
        /\ \E answer, rev : uploaded' = Append(uploaded,
             [op |-> upload.op, answer |-> answer, rev |-> rev])
    <3>1. upload.op.kind \in Kinds
      BY <1>2 DEF FinishUpload, IInv, UploadInv, Uploading, Uploads
    <3> QED BY <1>2, <3>1 DEF FinishUpload, UploadResult
  <2>2. PICK answer, rev : uploaded' = Append(uploaded,
             [op |-> upload.op, answer |-> answer, rev |-> rev])
    BY <2>1
  <2>3. /\ Len(uploaded) + 1 \in DOMAIN uploaded'
        /\ uploaded'[Len(uploaded) + 1].op = upload.op
        /\ \A i \in DOMAIN uploaded : i \in DOMAIN uploaded' /\ uploaded'[i] = uploaded[i]
    BY <1>0, <2>2
  <2> QED BY <2>1, <2>3 DEF SomePending, InHand
<1>3. CASE HandleLocal \/ FireDelete
  <2>1. /\ UNCHANGED <<upload, uploaded>>
        /\ uploads' = uploads \/ \E e : uploads' = Append(uploads, e)
    BY <1>3 DEF HandleLocal, HandleLocalDelete, HandleLocalFile, FireDelete
  <2>2. \A i \in DOMAIN uploads : i \in DOMAIN uploads' /\ uploads'[i] = uploads[i]
    BY <1>0, <2>1
  <2> QED BY <2>1, <2>2 DEF SomePending, InHand
<1>4. CASE ~(TakeUpload \/ FinishUpload \/ HandleLocal \/ FireDelete)
  <2>1. UNCHANGED <<uploads, upload, uploaded>>
    BY <1>4 DEF Next, Environment, UserWrite, UserRemove, UserStep, PeerWrite, PeerRemove,
           PeerStep, AskSweep, Save, Daemon, Reconciler, HandleRemote, StatRemote,
           HandleDownloaded, Uploader, Downloader, TakeDownload, ReadDownload, RemoveDownload,
           WriteDownload, RenameDownload, DownloaderOnly, Sweep, BeginSweep, DetectAndScan,
           PlanSweep, Act, GiveUpAction, SweepUnlink, SweepRemove, SweepWrite, SweepInstall,
           SweepPublish, SweepRecord
  <2> QED BY <2>1 DEF SomePending, InHand
<1> QED BY <1>1, <1>2, <1>3, <1>4

LEMMA DeferredStep == IInv /\ DeferredSweepKept /\ [Next]_vars => DeferredSweepKept'
<1> SUFFICES ASSUME IInv, DeferredSweepKept, [Next]_vars, rescan' PROVE Pending'
  BY DEF DeferredSweepKept
<1> USE DEF redis, incoming, events, uploading, downloading, sweeping, SameDaemon
<1>0. QueuesTyped /\ QueuesTyped'
  BY NextInv DEF IInv, UploadInv, QueuesTyped
<1>1. CASE UNCHANGED vars
  <2>1. UNCHANGED <<rescan, uploads, upload, uploaded>>
    BY <1>1 DEF vars
  <2> QED BY <1>0, <2>1, PendingIsSome, PendingIsSomeNext DEF DeferredSweepKept, SomePending, InHand
<1>2. CASE Crash
  BY <1>2 DEF Crash
<1>3. CASE HandleUploaded
  <2>1. rescan /\ ~(Head(uploaded).op.kind = "file" /\ LastPending)
    BY <1>3 DEF HandleUploaded
  <2>2. CASE Head(uploaded).op.kind = "file"
    BY <1>0, <1>3, <2>1, <2>2, OnlyPending, PendingIsSomeNext
  <2>3. CASE Head(uploaded).op.kind # "file"
    <3>1. uploaded # <<>> /\ uploaded' = Tail(uploaded) /\ UNCHANGED <<uploads, upload>>
      BY <1>3 DEF HandleUploaded
    <3>2. ASSUME NEW i \in DOMAIN uploaded, uploaded[i].op.kind = "file"
          PROVE  i - 1 \in DOMAIN uploaded' /\ uploaded'[i - 1] = uploaded[i]
      BY <1>0, <2>3, <3>1, <3>2 DEF QueuesTyped
    <3>3. SomePending
      BY <1>0, <2>1, PendingIsSome DEF DeferredSweepKept
    <3>4. SomePending'
      BY <3>1, <3>2, <3>3 DEF SomePending, InHand
    <3> QED BY <1>0, <3>4, PendingIsSomeNext
  <2> QED BY <2>2, <2>3
<1>4. CASE Next /\ ~Crash /\ ~HandleUploaded
  <2>1. rescan \/ Pending
    BY <1>4 DEF Next, Environment, UserWrite, UserRemove, UserStep, PeerWrite, PeerRemove,
           PeerStep, AskSweep, Save, Daemon, Reconciler, HandleLocal, HandleRemote, StatRemote,
           HandleDownloaded, FireDelete, Uploader, TakeUpload, FinishUpload, Downloader,
           TakeDownload, ReadDownload, RemoveDownload, WriteDownload, RenameDownload,
           DownloaderOnly, Sweep, BeginSweep, DetectAndScan, PlanSweep, Act, GiveUpAction,
           SweepUnlink, SweepRemove, SweepWrite, SweepInstall, SweepPublish, SweepRecord
  <2> QED BY <1>0, <1>4, <2>1, PendingIsSome, PendingIsSomeNext, PendingMoves DEF DeferredSweepKept
<1> QED BY <1>1, <1>2, <1>3, <1>4

-----------------------------------------------------------------------------
(* What follows.                                                           *)

Inv == IInv /\ FlagsInv /\ StartInv /\ DeferredSweepKept

LEMMA InvHolds == Spec => []Inv
<1>1. Init => FlagsInv
  <2> SUFFICES ASSUME Init PROVE FlagsInv
    OBVIOUS
  <2>1. Nothing \in [kind : Kinds \cup {"none"}, body : Bodies] /\ Nothing.kind = "none"
    BY BoundsAssumption DEF Nothing, Bodies, Absent
  <2>2. ~Has(Nothing)
    BY DEF Nothing, Has
  <2>3. echo \in [kind : Kinds \cup {"none"}, body : Bodies] /\ (echo.kind = "file" <=> Has(echo))
    BY <2>1, <2>2 DEF Init
  <2>4. watch \in 0 .. MaxEvents /\ feed \in 0 .. changes /\ copies \subseteq Written
    BY BoundsAssumption DEF Init
  <2> QED BY <2>3, <2>4 DEF Init, FlagsInv
<1>2. Init => StartInv
  BY DEF Init, StartInv
<1>3. Init => DeferredSweepKept
  BY DEF Init, DeferredSweepKept
<1>4. Inv /\ [Next]_vars => Inv'
  BY NextInv, FlagsStep, StartStep, DeferredStep DEF Inv
<1> QED BY InitInv, <1>1, <1>2, <1>3, <1>4, PTL DEF Spec, Inv

\* Types, and what each queue may hold: no entry, waiting or recorded, is of a
\* revision that Redis has not reached, a deletion carries the entry it deletes,
\* and a daemon that starts has no work.
THEOREM QueuesAreTyped == Spec => []TypeOK
<1>1. Inv => TypeOK
  <2> SUFFICES ASSUME Inv PROVE TypeOK
    OBVIOUS
  <2> USE DEF Inv, IInv
  <2>1. /\ published \in Seq(Written) /\ present \in BOOLEAN /\ (present => published # <<>>)
        /\ local \in Bodies /\ changes \in 0 .. MaxChanges
    BY DEF FilesInv
  <2>2. /\ base \in Entries /\ disk \in Entries /\ (base.deleted => Has(base))
        /\ look = Idle \/ (look.base \in Entries /\ ~Dead(look.base))
    BY DEF EntryInv, Sound, Looks
  <2>3. /\ \A i \in DOMAIN uploads : uploads[i] \in UploadOps
        /\ \A i \in DOMAIN timers : timers[i] \in Entries /\ Has(timers[i])
        /\ candidates \subseteq Written
    <3>1. Uploads \subseteq UploadOps
      BY DEF Uploads, UploadOps, Sound, Kinds
    <3>2. \A e \in Filled : e \in Entries /\ Has(e)
      BY DEF Filled, Sound
    <3> QED BY <3>1, <3>2 DEF UploadInv
  <2>4. \A i \in DOMAIN downloads : downloads[i].conflict => downloads[i].kind = "file"
    BY DEF DownloadInv, Downloads
  <2>5. sweep.pc \in {"install", "publish"} => sweep.remote # Absent \/ sweep.local # Absent
    BY SweepFields DEF SweepInv, Planned, SweepPcs
  <2>6. /\ copies \subseteq Written /\ watch \in 0 .. MaxEvents /\ feed \in 0 .. MaxChanges
        /\ echo.kind \in {"none", "file", "delete"} /\ (echo.kind = "file" <=> Has(echo))
        /\ {wanted, rescan, removed} \subseteq BOOLEAN
    BY <2>1, BoundsAssumption DEF FlagsInv, Kinds
  <2>7. mode = "starting" => watch = 0 /\ uploads = <<>> /\ downloads = <<>> /\ look = Idle
    BY DEF StartInv
  <2> QED BY <2>1, <2>2, <2>3, <2>4, <2>5, <2>6, <2>7 DEF TypeOK
<1> QED BY InvHolds, <1>1, PTL

\* docs/internals/atomic-file-commits.md: "A later peer write therefore cannot
\* be recorded as this upload's baseline", nor as a download's or a sweep's.
THEOREM BaselinesAreTrue == Spec => []BaselinePairs
<1>1. Inv => BaselinePairs
  BY DEF Inv, IInv, EntryInv, Sound, Pairs, BaselinePairs, Live, Has
<1> QED BY InvHolds, <1>1, PTL

\* A sweep that was put off by a pending upload is asked for by the last result
\* that was pending, in whatever order results, edits and crashes come
\* (finishPendingUpload).
THEOREM DeferredSweepsAreKept == Spec => []DeferredSweepKept
<1>1. Inv => DeferredSweepKept
  BY DEF Inv
<1> QED BY InvHolds, <1>1, PTL

\* However long an edit waited, its upload replaces the content that it was based
\* on; without a baseline, the file that the uploader read just before.
THEOREM UploadsReplaceTheirBaseline == Spec => UploadsOverBaseline
<1> DEFINE Replaces ==
      (upload # Idle /\ published' # published /\ present /\ upload' = Idle)
        => IF Has(upload.op.base) THEN Remote = upload.op.base.body
           ELSE upload.seen = <<TRUE, Rev>>
<1>1. Inv /\ [Next]_vars => [Replaces]_vars
  <2> SUFFICES ASSUME Inv, [Next]_vars, upload # Idle, published' # published, present,
                      upload' = Idle
               PROVE  IF Has(upload.op.base) THEN Remote = upload.op.base.body
                      ELSE upload.seen = <<TRUE, Rev>>
    OBVIOUS
  <2> USE DEF redis, incoming, events, uploading, downloading, sweeping, SameDaemon
  <2>1. FinishUpload
    <3>1. ~Environment
      BY DEF Environment, UserWrite, UserRemove, UserStep, PeerWrite, PeerRemove, PeerStep,
             AskSweep, Crash, Save
    <3>2. ~(Reconciler \/ FireDelete \/ Downloader)
      BY DEF Reconciler, HandleLocal, HandleRemote, StatRemote, HandleUploaded, HandleDownloaded,
             FireDelete, Downloader, TakeDownload, ReadDownload, RemoveDownload, WriteDownload,
             RenameDownload, DownloaderOnly
    <3>3. ~Sweep
      BY DEF Sweep, BeginSweep, DetectAndScan, PlanSweep, Act, GiveUpAction, SweepUnlink,
             SweepRemove, SweepWrite, SweepInstall, SweepPublish, SweepRecord
    <3>4. ~TakeUpload /\ ~UNCHANGED vars
      BY DEF TakeUpload, vars
    <3> QED BY <3>1, <3>2, <3>3, <3>4 DEF Next, Daemon, Uploader
  <2>2. upload.op.kind = "file" /\ upload.seen[1] = present /\ upload.seen[2] = Rev
    BY <2>1 DEF FinishUpload, SeenIsCurrent
  <2>3. upload \in Uploading /\ present \in BOOLEAN
    BY DEF Inv, IInv, UploadInv, FilesInv
  <2>4. upload.seen = <<TRUE, Rev>>
    <3>1. upload.seen \in BOOLEAN \X (0 .. Rev)
      BY <2>3 DEF Uploading
    <3>2. upload.seen = <<upload.seen[1], upload.seen[2]>> /\ present = TRUE
      BY <2>3, <3>1
    <3> QED BY <2>2, <3>2
  <2>5. CASE Has(upload.op.base)
    <3>1. Pairs(upload.op.base.body, Rev)
      BY <2>2, <2>3, <2>5 DEF Uploading
    <3>2. published \in Seq(Written) /\ published # <<>>
      BY DEF Inv, IInv, FilesInv
    <3> QED BY <2>5, <3>1, <3>2 DEF Pairs, Has, Rev, Remote, Last
  <2> QED BY <2>4, <2>5
<1> QED BY InvHolds, <1>1, PTL DEF Spec, UploadsOverBaseline

\* What the daemon saw of the user's file, and puts another in the place of, was
\* in Redis already or is kept as a conflict copy; only an edit after the last
\* look is lost (writeLocalFile, atomicWriteFileStandalone).
THEOREM UserBodiesSurvive == Spec => EditsSurvive
<1> DEFINE Survives ==
      (changes' = changes /\ local # local' /\ Absent \notin {local, local'})
        => local \in Range(published) \cup copies' \/ Unseen
<1>1. Inv /\ [Next]_vars => [Survives]_vars
  <2> SUFFICES ASSUME Inv, [Next]_vars, changes' = changes, local # local',
                      local # Absent, local' # Absent
               PROVE  local \in Range(published) \cup copies' \/ Unseen
    OBVIOUS
  <2> USE DEF redis, incoming, events, uploading, downloading, sweeping, SameDaemon,
              DownloaderOnly
  <2>1. WriteDownload \/ RenameDownload \/ SweepInstall
    <3>0. changes \in Nat /\ Idle.pc = "idle"
      BY BoundsAssumption DEF Inv, IInv, FilesInv, Idle
    <3>1. ~Environment /\ ~UNCHANGED vars
      BY <3>0 DEF Environment, UserWrite, UserRemove, Change, PeerWrite, PeerRemove,
             PeerStep, AskSweep, Crash, Save, vars
    <3>2. ~(HandleLocal \/ HandleRemote \/ StatRemote \/ HandleUploaded \/ FireDelete
              \/ TakeUpload \/ FinishUpload)
      BY DEF HandleLocal, HandleRemote, StatRemote, HandleUploaded, FireDelete, TakeUpload,
             FinishUpload
    <3>3. ~HandleDownloaded
      <4>1. ASSUME HandleDownloaded PROVE local' = local \/ local' = Absent
        <5>1. PICK res \in Arrivals : res = Head(downloaded)
          BY <4>1, Taken DEF HandleDownloaded, Inv, IInv, DownloadInv
        <5> QED BY <4>1, <5>1 DEF HandleDownloaded, Arrivals
      <4> QED BY <4>1
    <3>4. ~(TakeDownload \/ ReadDownload \/ RemoveDownload)
      BY DEF TakeDownload, ReadDownload, RemoveDownload, Put, PutNothing
    <3>5. ~(BeginSweep \/ DetectAndScan \/ PlanSweep \/ Act \/ SweepUnlink \/ SweepRemove
              \/ SweepWrite \/ SweepPublish \/ SweepRecord)
      BY DEF BeginSweep, DetectAndScan, PlanSweep, Act, GiveUpAction, Put, PutNothing,
             SweepUnlink, SweepRemove, SweepWrite, SweepPublish, SweepRecord
    <3> QED BY <3>1, <3>2, <3>3, <3>4, <3>5
        DEF Next, Daemon, Reconciler, Uploader, Downloader, Sweep
  <2>2. CASE WriteDownload \/ RenameDownload
    <3>1. download \in Replacing /\ download' = Idle
      BY <2>2 DEF WriteDownload, RenameDownload, Renaming, Install, SkipFile, PutNothing, Inv,
             IInv, DownloadInv, Downloading, Looking, Removing
    <3>2. download # Idle
      BY <2>2 DEF WriteDownload, RenameDownload, Renaming
    <3>3. CASE local # download.seen
      BY <3>1, <3>2, <3>3 DEF Unseen
    <3>4. CASE local = download.seen
      <4>1. download.pc = "write" /\ ~download.conflict
        BY <2>2, <3>1, <3>4 DEF WriteDownload, RenameDownload, Renaming, Replacing, PutNothing
      <4> QED BY <3>1, <3>4, <4>1 DEF Replacing
    <3> QED BY <3>3, <3>4
  <2>3. CASE SweepInstall
    <3>1. sweep \in Planned /\ sweep.pc = "install"
      BY <2>3, SweepFields DEF SweepInstall, SweepPcs, Inv, IInv
    <3>2. sweep' # sweep
      <4>1. sweep'.pc = "record"
        BY <2>3, <3>1 DEF SweepInstall, Planned
      <4> QED BY <3>1, <4>1
    <3> QED BY <3>1, <3>2 DEF Planned, Unseen
  <2> QED BY <2>1, <2>2, <2>3
<1> QED BY InvHolds, <1>1, PTL DEF Spec, EditsSurvive
==============================================================================
