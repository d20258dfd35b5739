----------------------------- MODULE MirrorPull -----------------------------
(***************************************************************************)
(* The mirror: a copy of the host's tree that the panel pulls file by      *)
(* file.  One thread at a time pulls (it holds _pull_lock); requests for   *)
(* the status and for an abort run beside it, and all of them read         *)
(* status.json, change some fields and write the whole record back.  The   *)
(* tree on the host changes while it is copied, and a game started on the  *)
(* mirror writes into the copy.                                            *)
(*                                                                         *)
(* The MD5 of a version is the version itself; the order in which the      *)
(* files of a plan are visited is left open.  An ftp profile and an sftp   *)
(* profile pull by the same steps, each in a client of its own; they       *)
(* differ in a directory that the host refuses to list, which ftp takes    *)
(* for an empty one (List).                                                *)
(***************************************************************************)
EXTENDS Integers, FiniteSets

CONSTANTS
    Files, Versions,  \* paths; contents a file can have
    None,             \* no file, no MD5, no path
    SizeOf,           \* the size of a version
    Starts,           \* bound: versions the host's files have at first
    MaxJobs,          \* bound: pulls, verifies and resumes asked for
    MaxUpsets         \* bound: changed files, aborts and crashes together

ASSUME MirrorAssumption ==
    /\ None \notin Files \cup Versions /\ Starts \subseteq Versions
    /\ SizeOf \in [Versions -> Nat]
    /\ MaxJobs \in Nat /\ MaxUpsets \in Nat

VARIABLES
    \* the tree on the host, its copy, checksums.json, status.json
    remote, local, sums, store,
    \* _pause_flag; where the thread that holds _pull_lock is ("idle": free)
    pause, pc,
    \* that pull: which request, its mode, the items of its plan, those still
    \* to visit, a directory that was not listed, the file it failed on, what
    \* it verified, the item in hand, the content of its .part file
    kind, mode, plan, todo, broken, bad, done, cur, part,
    \* a record of status.json read and not yet written back, by the pull, by
    \* a status() before and after its look at the lock, and by an abort; an
    \* abort that has set the flag; the queue a resume has read
    held, viewing, fixing, aborting, flagged, waiting,
    \* history: files that changed on either side during this pull; files whose
    \* copy was written, and not noted, since checksums.json was last right;
    \* files of the last listing that no pull has verified since; something
    \* that may have cost the record of them was done since
    touched, unnoted, owed, excused,
    \* counters of the bounded events
    jobs, upsets

data == <<remote, local, sums>>
run == <<kind, mode, plan, todo, broken, bad, done, cur, part>>
others == <<viewing, fixing, aborting, flagged, waiting>>
account == <<owed, excused>>
history == <<touched, unnoted, account>>
bounds == <<jobs, upsets>>
vars == <<data, store, pause, pc, run, held, others, history, bounds>>

NoSize == -1
Sizes == {SizeOf[v] : v \in Versions}
Item == [file : Files, size : Sizes \cup {NoSize}]

\* What pull_tree says of a file it is content with.
Verified == [file : Files, size : Sizes, md5 : Versions \cup {None}, kept : BOOLEAN]

\* The fields of status.json that decide anything; {} when it cannot be read.
Record == [pulling : BOOLEAN, paused : BOOLEAN, complete : BOOLEAN,
           rest : SUBSET Item, corrupt : Files \cup {None}]
Empty == [pulling |-> FALSE, paused |-> FALSE, complete |-> FALSE,
          rest |-> {}, corrupt |-> None]

NoSum == [md5 |-> None, size |-> NoSize]
Sum == [md5 : Versions \cup {None}, size : Sizes \cup {NoSize}]

Init ==
    /\ remote \in [Files -> Starts] /\ local = [f \in Files |-> None]
    /\ sums = [f \in Files |-> NoSum] /\ store = Empty
    /\ pause = FALSE /\ pc = "idle"
    /\ kind = "pull" /\ mode = "incremental" /\ plan = {} /\ todo = {}
    /\ broken = FALSE /\ bad = None /\ done = {} /\ cur = None /\ part = None
    /\ held = {} /\ viewing = {} /\ fixing = {} /\ aborting = {}
    /\ flagged = FALSE /\ waiting = {}
    /\ touched = {} /\ unnoted = {} /\ owed = {} /\ excused = FALSE
    /\ jobs = 0 /\ upsets = 0

\* A reader beside a writer may find the file empty: write_text truncates it.
Reads(writers) == {store} \cup IF writers = {} THEN {} ELSE {Empty}
-----------------------------------------------------------------------------
(* Requests. *)

\* Behind a successful acquire of the lock, which may come at any time after
\* the handler's look at the status.
Begin(request, how, queue) ==
    /\ pc = "idle"
    /\ pc' = "clear"
    /\ kind' = request /\ mode' = how /\ plan' = queue /\ todo' = queue
    /\ UNCHANGED <<broken, bad, done, cur, part, touched>>

Pull(how) ==
    /\ jobs < MaxJobs
    /\ jobs' = jobs + 1
    /\ Begin("pull", how, {})
    /\ UNCHANGED <<data, store, pause, held, others, unnoted, account, upsets>>

Verify ==
    /\ jobs < MaxJobs
    /\ jobs' = jobs + 1
    /\ Begin("verify", "verify", {})
    /\ UNCHANGED <<data, store, pause, held, others, unnoted, account, upsets>>

\* The queue of a resume: the rest of a paused pull, or its corrupt file.
Queue(r) ==
    IF r.rest = {} /\ r.corrupt # None
    THEN {[file |-> r.corrupt, size |-> NoSize]}
    ELSE r.rest

ResumeRead(retry) ==
    /\ jobs < MaxJobs /\ waiting = {}
    /\ \E r \in Reads(held \cup fixing \cup aborting) :
          /\ Queue(r) # {}
          /\ waiting' = {IF retry THEN Queue(r)
                         ELSE {i \in Queue(r) : i.file # r.corrupt}}
    /\ jobs' = jobs + 1
    /\ UNCHANGED <<data, store, pause, pc, run, held, viewing, fixing, aborting,
                   flagged, history, upsets>>

ResumeStart ==
    /\ \E queue \in waiting :
          /\ Begin("resume", "incremental", queue)
          /\ excused' = (excused \/ queue # Queue(store))
    /\ waiting' = {}
    /\ UNCHANGED <<data, store, pause, held, viewing, fixing, aborting, flagged,
                   unnoted, owed, bounds>>

\* "Pull already running"
ResumeRefused ==
    /\ pc # "idle" /\ waiting # {}
    /\ waiting' = {}
    /\ UNCHANGED <<data, store, pause, pc, run, held, viewing, fixing, aborting,
                   flagged, history, bounds>>

\* status(): a record that says "pulling" is read, the files are counted ...
ViewRead ==
    /\ viewing = {} /\ fixing = {}
    /\ \E r \in Reads(held \cup aborting) : r.pulling /\ viewing' = {r}
    /\ UNCHANGED <<data, store, pause, pc, run, held, fixing, aborting, flagged,
                   waiting, history, bounds>>

\* ... then the lock is looked at ...
ViewCheck ==
    /\ viewing # {}
    /\ fixing' = IF pc = "idle" THEN viewing ELSE {}
    /\ viewing' = {}
    /\ UNCHANGED <<data, store, pause, pc, run, held, aborting, flagged, waiting,
                   history, bounds>>

Fixed(r) == [r EXCEPT !.pulling = FALSE, !.paused = TRUE]

\* ... and the record written back as that of a pull that broke off.
ViewWrite ==
    /\ \E r \in fixing :
          /\ store' = Fixed(r)
          /\ excused' = (excused \/ r # store)
    /\ fixing' = {}
    /\ UNCHANGED <<data, pause, pc, run, held, viewing, aborting, flagged, waiting,
                   touched, unnoted, owed, bounds>>

AbortFlag ==
    /\ upsets < MaxUpsets /\ ~ flagged /\ aborting = {}
    /\ upsets' = upsets + 1
    /\ pause' = TRUE /\ flagged' = TRUE
    /\ UNCHANGED <<data, store, pc, run, held, viewing, fixing, aborting, waiting,
                   history, jobs>>

AbortRead ==
    /\ flagged
    /\ \E r \in Reads(held \cup fixing) : aborting' = {r}
    /\ flagged' = FALSE
    /\ UNCHANGED <<data, store, pause, pc, run, held, viewing, fixing, waiting,
                   history, bounds>>

AbortWrite ==
    /\ \E r \in aborting :
          store' = [r EXCEPT !.pulling = FALSE, !.paused = FALSE,
                             !.complete = FALSE, !.rest = {}]
    /\ aborting' = {} /\ excused' = TRUE
    /\ UNCHANGED <<data, pause, pc, run, held, viewing, fixing, flagged, waiting,
                   touched, unnoted, owed, bounds>>
-----------------------------------------------------------------------------
(* The thread that pulls: status.json. *)

ClearFlag ==
    /\ pc = "clear"
    /\ pause' = FALSE
    /\ pc' = "begin"
    /\ UNCHANGED <<data, store, run, held, others, history, bounds>>

\* _write_status: the record is read, and the files are counted.
RunRead ==
    /\ pc \in {"begin", "emit", "done", "stop", "end", "error"} /\ held = {}
    /\ \E r \in Reads(fixing \cup aborting) : held' = {r}
    /\ UNCHANGED <<data, store, pause, pc, run, others, history, bounds>>

\* The record read, changed by the caller, is written back.
RunWrite(at, next, changed) ==
    /\ pc = at
    /\ store' \in changed
    /\ held' = {}
    /\ pc' = next
    /\ UNCHANGED <<data, pause, run, others, history, bounds>>

Begun(r) == [r EXCEPT !.pulling = TRUE, !.paused = FALSE, !.complete = FALSE,
                      !.corrupt = None]
StatusBegin == RunWrite("begin", "connect", {Begun(r) : r \in held})

\* _on_progress, in its three kinds.
Progress(r) == [r EXCEPT !.pulling = TRUE, !.paused = FALSE]
StatusEmit == RunWrite("emit", "fetch", {Progress(r) : r \in held})

ProgressDone(r) == [r EXCEPT !.pulling = FALSE, !.paused = FALSE]
StatusDone == RunWrite("done", "merge", {ProgressDone(r) : r \in held})

ProgressPaused(r) ==
    [r EXCEPT !.pulling = FALSE, !.paused = TRUE,
              !.corrupt = IF bad = None THEN @ ELSE bad]
StatusStop == RunWrite("stop", "merge", {ProgressPaused(r) : r \in held})

\* The end of _run_pull: what is left to visit was left by a pause.
Ended(r) ==
    IF todo # {}
    THEN [r EXCEPT !.pulling = FALSE, !.paused = TRUE, !.complete = FALSE,
                   !.rest = todo, !.corrupt = bad]
    ELSE [r EXCEPT !.pulling = FALSE, !.paused = FALSE, !.complete = ~ broken,
                   !.rest = {}, !.corrupt = None]

\* Where a call that breaks off goes: only pull() catches the error, the
\* others leave the record as it is.
Failing == IF kind = "pull" THEN "error" ELSE "release"

\* The files are counted once more behind the write, which can fail.
StatusEnd ==
    \E next \in {"release", Failing} : RunWrite("end", next, {Ended(r) : r \in held})

Failed(r) == [r EXCEPT !.pulling = FALSE, !.paused = FALSE, !.complete = FALSE]
StatusError == RunWrite("error", "release", {Failed(r) : r \in held})

\* The variables of the call are gone.
EndOfCall ==
    /\ kind' = "pull" /\ mode' = "incremental" /\ plan' = {} /\ todo' = {}
    /\ broken' = FALSE /\ bad' = None /\ done' = {} /\ cur' = None /\ part' = None
    /\ touched' = {}

Release ==
    /\ pc = "release"
    /\ pc' = "idle"
    /\ EndOfCall
    /\ UNCHANGED <<data, store, pause, held, others, unnoted, account, bounds>>
-----------------------------------------------------------------------------
(* The thread that pulls: the files. *)

Connect ==
    /\ pc = "connect"
    /\ pc' = IF plan = {} THEN "list" ELSE "files"
    /\ UNCHANGED <<data, store, pause, run, held, others, history, bounds>>

\* What was verified and is not merged.
Unmerged == {d.file : d \in {x \in done : x.md5 # None}}

\* A queue in status.json that leaves out files of the last listing.
Misled == Queue(store) # {} /\ ~ (owed \subseteq {i.file : i \in Queue(store)})

(***************************************************************************)
(* An error outside the try around fetch_one ends the call: the host is    *)
(* not reached, or the files of the mirror cannot be counted, before or    *)
(* behind one of the writes of status.json (_count_local: the stat() of a  *)
(* file that is gone).  A queue an earlier pause left stays in the record. *)
(***************************************************************************)
RunFails ==
    /\ pc \in {"begin", "connect", "list", "files", "emit", "fetch", "done", "stop",
               "merge", "end", "error"}
    /\ pc = "end" => todo = {}
    /\ pc' = IF pc = "error" THEN "release" ELSE Failing
    /\ held' = {}
    /\ bad' = None /\ done' = {} /\ cur' = None /\ part' = None
    /\ unnoted' = unnoted \cup Unmerged
    /\ excused' = (excused \/ Misled)
    /\ UNCHANGED <<data, store, pause, kind, mode, plan, todo, broken, others, touched,
                   owed, bounds>>

\* collect: a host lists sizes or does not; a directory may fail to be listed, which
\* counts as an error or, if the host refuses (error_perm), as empty.
List ==
    /\ pc = "list"
    /\ \E found \in SUBSET {f \in Files : remote[f] # None} :
          /\ \E sized \in {found, {}} :
                plan' = {[file |-> f,
                          size |-> IF f \in sized THEN SizeOf[remote[f]] ELSE NoSize]
                         : f \in found}
          /\ broken' \in BOOLEAN
    /\ todo' = plan' /\ owed' = {i.file : i \in plan'} /\ excused' = FALSE
    /\ pc' = "files"
    /\ UNCHANGED <<data, store, pause, kind, mode, bad, done, cur, part, held, others,
                   touched, unnoted, bounds>>

\* The head of the loop over the plan.
NextFile ==
    /\ pc = "files"
    /\ \/ todo = {} /\ pc' = "done" /\ UNCHANGED cur
       \/ todo # {} /\ pause /\ pc' = "stop" /\ UNCHANGED cur
       \/ ~ pause /\ pc' = "emit" /\ cur' \in todo
    /\ UNCHANGED <<data, store, pause, kind, mode, plan, todo, broken, bad, done, part,
                   held, others, history, bounds>>

RemoteSize(f) == IF remote[f] = None THEN {} ELSE {SizeOf[remote[f]]}

\* The size a file is compared with: listed, noted, or asked for, or unknown.
KnownSize(i) ==
    IF i.size # NoSize THEN {i.size}
    ELSE IF sums[i.file].size # NoSize THEN {sums[i.file].size}
    ELSE {NoSize} \cup RemoteSize(i.file)

\* Mutant: "force" is not looked at.
SameSize(f, size) == local[f] # None /\ size \in {NoSize, SizeOf[local[f]]}

Unchanged(f, size) ==
    mode # "force" /\ local[f] # None /\ size \in {NoSize, SizeOf[local[f]]}

Accept(d) ==
    /\ done' = done \cup {d}
    /\ todo' = todo \ {cur}
    /\ unnoted' = IF d.md5 = None THEN unnoted ELSE unnoted \ {d.file}
    /\ owed' = owed \ {d.file}
    /\ cur' = None /\ part' = None
    /\ pc' = "files"

\* A file that is not transferred; a verify takes the MD5 of the copy.
Keep ==
    /\ pc = "fetch"
    /\ \E size \in KnownSize(cur) :
          /\ Unchanged(cur.file, size)
          /\ Accept([file |-> cur.file, size |-> SizeOf[local[cur.file]], kept |-> TRUE,
                     md5 |-> IF mode = "verify" THEN local[cur.file] ELSE None])
    /\ UNCHANGED <<data, store, pause, kind, mode, plan, broken, bad, held, others,
                   touched, excused, bounds>>

Retr ==
    /\ pc = "fetch"
    /\ \E size \in KnownSize(cur) : ~ Unchanged(cur.file, size)
    /\ remote[cur.file] # None
    /\ part' = remote[cur.file]
    /\ pc' = "compare"
    /\ UNCHANGED <<data, store, pause, kind, mode, plan, todo, broken, bad, done, cur,
                   held, others, history, bounds>>

\* Mutant: the file that failed is not among those left.
StopAfter ==
    /\ bad' = cur.file /\ todo' = todo \ {cur}
    /\ cur' = None /\ part' = None
    /\ pc' = "stop"

Stop ==
    /\ bad' = cur.file /\ UNCHANGED todo
    /\ cur' = None /\ part' = None
    /\ pc' = "stop"

RetrFails ==
    /\ pc = "fetch"
    /\ \E size \in KnownSize(cur) : ~ Unchanged(cur.file, size)
    /\ Stop
    /\ UNCHANGED <<data, store, pause, kind, mode, plan, broken, done, held, others,
                   history, bounds>>

\* SIZE again; the host may not answer, and the listed size stand in for it.
Compare ==
    /\ pc = "compare"
    /\ \E size \in {cur.size, NoSize} \cup RemoteSize(cur.file) :
          IF size \in {NoSize, SizeOf[part]}
          THEN /\ local' = [local EXCEPT ![cur.file] = part]
               /\ Accept([file |-> cur.file, size |-> SizeOf[part], kept |-> FALSE,
                          md5 |-> part])
               /\ UNCHANGED bad
          ELSE Stop /\ UNCHANGED <<local, done, unnoted, owed>>
    /\ UNCHANGED <<remote, sums, store, pause, kind, mode, plan, broken, held, others,
                   touched, excused, bounds>>

\* Mutant: an MD5 once noted is kept.
NotedOnce(old, d) ==
    [md5 |-> IF old.md5 = None THEN d.md5 ELSE old.md5, size |-> d.size]

Noted(old, d) ==
    [md5 |-> IF d.md5 = None THEN old.md5 ELSE d.md5, size |-> d.size]

\* _merge_checksums, also after a pause.
Merge ==
    /\ pc = "merge"
    /\ sums' = [f \in Files |->
                  IF \E d \in done : d.file = f
                  THEN Noted(sums[f], CHOOSE d \in done : d.file = f)
                  ELSE sums[f]]
    /\ done' = {}
    /\ pc' = "end"
    /\ UNCHANGED <<remote, local, store, pause, kind, mode, plan, todo, broken, bad, cur,
                   part, held, others, history, bounds>>
-----------------------------------------------------------------------------
(* What is beyond the panel. *)

Upset == upsets < MaxUpsets /\ upsets' = upsets + 1

Touch(f) == touched' = IF pc = "idle" THEN {} ELSE touched \cup {f}

\* The game server on the host writes or removes a file.
RemoteChange(f) ==
    /\ Upset
    /\ \E v \in (Versions \cup {None}) \ {remote[f]} : remote' = [remote EXCEPT ![f] = v]
    /\ Touch(f)
    /\ UNCHANGED <<local, sums, store, pause, pc, run, held, others, unnoted, account, jobs>>

\* A local game whose -cachedir is the mirror rewrites one of its files.
LocalWrite(f) ==
    /\ Upset
    /\ local[f] # None
    /\ \E v \in Versions \ {local[f]} : local' = [local EXCEPT ![f] = v]
    /\ Touch(f) /\ unnoted' = unnoted \cup {f}
    /\ UNCHANGED <<remote, sums, store, pause, pc, run, held, others, account, jobs>>

\* The panel's process dies, perhaps within a write, which leaves no JSON.
Crash(tornStatus, tornSums) ==
    /\ Upset
    /\ tornStatus => held \cup fixing \cup aborting # {}
    /\ tornSums => pc = "merge"
    /\ store' = IF tornStatus THEN Empty ELSE store
    /\ sums' = IF tornSums THEN [f \in Files |-> NoSum] ELSE sums
    /\ unnoted' = unnoted \cup Unmerged
    /\ pc' = "idle" /\ pause' = FALSE /\ held' = {}
    /\ viewing' = {} /\ fixing' = {} /\ aborting' = {} /\ flagged' = FALSE /\ waiting' = {}
    /\ EndOfCall
    /\ excused' = TRUE
    /\ UNCHANGED <<remote, local, owed, jobs>>
-----------------------------------------------------------------------------
RunStep ==
    \/ ClearFlag \/ RunRead \/ StatusBegin \/ StatusEmit \/ StatusDone \/ StatusStop
    \/ StatusEnd \/ StatusError \/ Release
    \/ Connect \/ RunFails \/ List \/ NextFile \/ Keep \/ Retr \/ RetrFails
    \/ Compare \/ Merge

ViewStep == ViewRead \/ ViewCheck \/ ViewWrite

Next ==
    \/ \E how \in {"incremental", "force", "verify"} : Pull(how)
    \/ Verify
    \/ \E retry \in BOOLEAN : ResumeRead(retry)
    \/ ResumeStart \/ ResumeRefused
    \/ ViewStep
    \/ AbortFlag \/ AbortRead \/ AbortWrite
    \/ RunStep
    \/ \E f \in Files : RemoteChange(f) \/ LocalWrite(f)
    \/ \E tornStatus, tornSums \in BOOLEAN : Crash(tornStatus, tornSums)

Spec == Init /\ [][Next]_vars
-----------------------------------------------------------------------------
(* Properties. *)

DataOK ==
    /\ remote \in [Files -> Versions \cup {None}]
    /\ local \in [Files -> Versions \cup {None}]
    /\ sums \in [Files -> Sum] /\ store \in Record
    /\ pause \in BOOLEAN /\ jobs \in Nat /\ upsets \in Nat

RunOK ==
    /\ pc \in {"idle", "clear", "begin", "connect", "list", "files", "emit", "fetch",
               "compare", "done", "stop", "merge", "end", "error", "release"}
    /\ kind \in {"pull", "verify", "resume"}
    /\ mode \in {"incremental", "force", "verify"}
    /\ plan \subseteq Item /\ todo \subseteq plan /\ broken \in BOOLEAN
    /\ bad # None => \E i \in todo : i.file = bad
    /\ done \subseteq Verified /\ \A d, e \in done : d.file = e.file => d = e
    /\ pc \in {"emit", "fetch", "compare"} => cur \in todo
    /\ pc = "compare" => part \in Versions
    /\ touched \cup unnoted \cup owed \subseteq Files /\ excused \in BOOLEAN

RequestsOK ==
    /\ held \cup viewing \cup fixing \cup aborting \subseteq Record
    /\ flagged \in BOOLEAN
    /\ waiting \subseteq SUBSET Item

(***************************************************************************)
(* Types; and a pull verifies no file twice, and keeps the file it failed  *)
(* on among those left to visit, which is what a resume takes up.          *)
(***************************************************************************)
TypeOK == DataOK /\ RunOK /\ RequestsOK

(***************************************************************************)
(* An MD5 in checksums.json is that of the file in the mirror, however     *)
(* often pulls skip it, pause, or fail (_merge_checksums).  Excepted are   *)
(* files not noted yet: written by a local game, or by a pull that has not *)
(* come to its end or died before it.                                      *)
(***************************************************************************)
ChecksumsTrue ==
    \A f \in Files :
        \/ f \in unnoted
        \/ \E d \in done : d.file = f /\ d.md5 = local[f]
        \/ sums[f].md5 \in {None, local[f]}

(***************************************************************************)
(* When a pull or a verify of the whole tree has come through, every file  *)
(* it listed that nobody wrote meanwhile is in the mirror, in the size     *)
(* that was listed, and after a force in the content of the host           *)
(* (fetch_one and its rules for skipping).                                 *)
(***************************************************************************)
FullPullIsFull ==
    kind # "resume" /\ pc = "end" /\ todo = {} =>
        \A i \in plan : i.file \notin touched =>
            /\ local[i.file] # None
            /\ i.size # NoSize => SizeOf[local[i.file]] = i.size
            /\ mode = "force" => local[i.file] = remote[i.file]

(***************************************************************************)
(* A mirror that is called complete is whole: of the files listed last     *)
(* each one was verified since, by that pull or by those that resumed it   *)
(* (status.json and its remaining_queue).  What the code gives away is     *)
(* excepted: an abort, a death of the panel, a resume that leaves a file   *)
(* out or has an old queue, an old record that a status() writes back, and *)
(* an error after the listing while the record holds an older queue        *)
(* (Misled), which a resume then takes for the whole of the rest.          *)
(***************************************************************************)
CompleteIsWhole == store.complete /\ ~ excused => owed = {}

(***************************************************************************)
(* "SIZE compare + local MD5 vs checksums.json" (server_mirror.py:373):    *)
(* a verify accepts a file of the right size only if its MD5 is the one    *)
(* that was noted.  It fails: the MD5 is taken, compared with nothing, and *)
(* noted.                                                                  *)
(***************************************************************************)
VerifyComparesMd5 ==
    [][pc = "merge" /\ pc' = "end" /\ mode = "verify" =>
          \A d \in done : d.kept => sums[d.file].md5 \in {None, d.md5}]_vars
=============================================================================
