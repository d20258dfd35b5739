-------------------------- MODULE MirrorPullProofs --------------------------
(***************************************************************************)
(* checksums.json tells the truth about the copy, and a pull of the whole  *)
(* tree that comes through has copied it.                                  *)
(*                                                                         *)
(* Both follow from what a pull under way knows: the files it verified and *)
(* those it has still to visit are apart, because no queue names a file    *)
(* twice; what it verified is in the copy; and what it has listed, or has  *)
(* in its .part file, is still on the host unless the host has changed it. *)
(*                                                                         *)
(* A mirror that is called complete lacks nothing of what was listed last: *)
(* a file that is owed stays in every queue that a resume could take up    *)
(* (WholeInv).                                                             *)
(***************************************************************************)
EXTENDS MirrorPull, TLAPS

Single(queue) == \A i, j \in queue : i.file = j.file => i = j

\* No queue names a file twice, in a plan, in a record or on its way.
QueuesOK ==
    /\ Single(plan) /\ Single(store.rest)
    /\ \A r \in held \cup viewing \cup fixing \cup aborting : Single(r.rest)
    /\ \A queue \in waiting : Single(queue)

Early == {"idle", "clear", "begin", "connect", "list"}
Late == {"stop", "merge", "end", "error", "release"}
Bare == Early \cup {"end", "error", "release"}

\* Where a pull is, and what of its variables is in use there.
PhaseOK ==
    /\ pc \in Bare => done = {}
    /\ bad # None => pc \in Late
    /\ pc = "idle" \/ (kind # "resume" /\ pc \in Early) => plan = {}

\* What was verified is in the copy, and is not visited again.
DoneOK ==
    /\ \A d \in done, i \in todo : d.file # i.file
    /\ \A d \in done :
          /\ local[d.file] # None
          /\ d.md5 # None => d.file \in unnoted \/ d.md5 = local[d.file]

Copied(i) ==
    /\ local[i.file] # None
    /\ i.size # NoSize => SizeOf[local[i.file]] = i.size
    /\ mode = "force" => local[i.file] = remote[i.file]

\* What is known of files that nobody wrote during the pull.
CopyOK ==
    /\ pc = "compare" /\ cur.file \notin touched => part = remote[cur.file]
    /\ kind # "resume" => \A i \in plan : i.file \notin touched =>
          /\ i.size # NoSize => remote[i.file] # None /\ SizeOf[remote[i.file]] = i.size
          /\ i \notin todo => Copied(i)

Inv == TypeOK /\ QueuesOK /\ PhaseOK /\ DoneOK /\ ChecksumsTrue /\ CopyOK

LEMMA InitInv == Init => Inv
<1> SUFFICES ASSUME Init PROVE Inv
    OBVIOUS
<1>1. TypeOK
    BY MirrorAssumption
    DEF Init, TypeOK, DataOK, RunOK, RequestsOK, NoSum, Sum, Empty, Record
<1> QED BY <1>1 DEF Init, Inv, QueuesOK, Single, PhaseOK, DoneOK, ChecksumsTrue, CopyOK,
                    Empty, NoSum

\* Variables of a pull that a request leaves alone.
Quiet == UNCHANGED <<remote, local, sums, kind, mode, plan, todo, broken, bad, done, cur,
                     part, touched, unnoted, owed>>

\* A change of the records only keeps what is known of files.
LEMMA QuietStep ==
    ASSUME Inv, Quiet, UNCHANGED pc, excused' \in BOOLEAN
    PROVE  RunOK' /\ PhaseOK' /\ DoneOK' /\ ChecksumsTrue' /\ CopyOK' /\ Single(plan')
BY DEF Inv, Quiet, TypeOK, RunOK, PhaseOK, DoneOK, ChecksumsTrue, CopyOK, Copied, QueuesOK

LEMMA ReadsRecord ==
    ASSUME Inv, NEW writers, NEW r \in Reads(writers)
    PROVE  r \in Record /\ Single(r.rest)
<1>1. Empty \in Record /\ Single(Empty.rest)
    BY DEF Empty, Record, Single
<1>2. store \in Record /\ Single(store.rest)
    BY DEF Inv, TypeOK, DataOK, QueuesOK
<1>3. r = store \/ r = Empty
    BY DEF Reads
<1> QED BY <1>1, <1>2, <1>3

LEMMA RecordChanged ==
    ASSUME Inv, NEW r \in Record, Single(r.rest)
    PROVE  /\ Fixed(r) \in Record /\ Single(Fixed(r).rest)
           /\ Begun(r) \in Record /\ Single(Begun(r).rest)
           /\ Progress(r) \in Record /\ Single(Progress(r).rest)
           /\ ProgressDone(r) \in Record /\ Single(ProgressDone(r).rest)
           /\ ProgressPaused(r) \in Record /\ Single(ProgressPaused(r).rest)
           /\ Ended(r) \in Record /\ Single(Ended(r).rest)
           /\ Failed(r) \in Record /\ Single(Failed(r).rest)
<1>1. /\ Fixed(r) \in Record /\ Fixed(r).rest = r.rest
      /\ Begun(r) \in Record /\ Begun(r).rest = r.rest
      /\ Progress(r) \in Record /\ Progress(r).rest = r.rest
      /\ ProgressDone(r) \in Record /\ ProgressDone(r).rest = r.rest
      /\ Failed(r) \in Record /\ Failed(r).rest = r.rest
    BY DEF Fixed, Begun, Progress, ProgressDone, Failed, Record
<1>2. bad \in Files \cup {None} /\ todo \subseteq Item /\ Single(todo) /\ broken \in BOOLEAN
    BY DEF Inv, TypeOK, RunOK, Item, QueuesOK, Single
<1>3. ProgressPaused(r) \in Record /\ ProgressPaused(r).rest = r.rest
    BY <1>2 DEF ProgressPaused, Record
<1>4. Ended(r) \in Record
    BY <1>2 DEF Ended, Record
<1>5. Ended(r).rest = todo
    BY DEF Ended, Record
<1> QED BY <1>1, <1>2, <1>3, <1>4, <1>5
-----------------------------------------------------------------------------
(* Requests. *)

LEMMA BeginStep ==
    ASSUME Inv, NEW request \in {"pull", "verify", "resume"},
           NEW how \in {"incremental", "force", "verify"},
           NEW queue \in SUBSET Item, Single(queue), request # "resume" => queue = {},
           Begin(request, how, queue), UNCHANGED <<data, unnoted, owed>>,
           excused' \in BOOLEAN
    PROVE  RunOK' /\ Single(plan') /\ PhaseOK' /\ DoneOK' /\ ChecksumsTrue' /\ CopyOK'
<1>1. done = {} /\ bad = None /\ done' = {} /\ bad' = None
    BY DEF Inv, PhaseOK, Begin, Early, Late, Bare
<1>2. RunOK'
    BY <1>1 DEF Inv, TypeOK, RunOK, Begin
<1> QED BY <1>1, <1>2 DEF Inv, PhaseOK, DoneOK, ChecksumsTrue, CopyOK, Begin, data, Early, Bare

LEMMA PullStep ==
    ASSUME Inv, NEW how \in {"incremental", "force", "verify"}, Pull(how) PROVE Inv'
<1>1. RunOK' /\ Single(plan') /\ PhaseOK' /\ DoneOK' /\ ChecksumsTrue' /\ CopyOK'
    BY BeginStep DEF Pull, account, Inv, TypeOK, RunOK, Single
<1> QED BY <1>1 DEF Inv, TypeOK, DataOK, RequestsOK, QueuesOK, Pull, data, others

LEMMA VerifyStep == ASSUME Inv, Verify PROVE Inv'
<1>1. RunOK' /\ Single(plan') /\ PhaseOK' /\ DoneOK' /\ ChecksumsTrue' /\ CopyOK'
    BY BeginStep DEF Verify, account, Inv, TypeOK, RunOK, Single
<1> QED BY <1>1 DEF Inv, TypeOK, DataOK, RequestsOK, QueuesOK, Verify, data, others

LEMMA ResumeReadStep ==
    ASSUME Inv, NEW retry \in BOOLEAN, ResumeRead(retry) PROVE Inv'
<1>1. PICK r \in Reads(held \cup fixing \cup aborting) :
         waiting' = {IF retry THEN Queue(r) ELSE {i \in Queue(r) : i.file # r.corrupt}}
    BY DEF ResumeRead
<1>2. r \in Record /\ Single(r.rest)
    BY ReadsRecord
<1>3. Queue(r) \subseteq Item /\ Single(Queue(r))
    BY <1>2 DEF Queue, Record, Item, Single
<1>4. waiting' \subseteq SUBSET Item /\ \A queue \in waiting' : Single(queue)
    BY <1>1, <1>3 DEF Single
<1>5. RunOK' /\ PhaseOK' /\ DoneOK' /\ ChecksumsTrue' /\ CopyOK' /\ Single(plan')
    BY QuietStep DEF ResumeRead, Quiet, data, run, history, account, Inv, TypeOK, RunOK
<1> QED BY <1>4, <1>5
        DEF Inv, TypeOK, DataOK, RequestsOK, QueuesOK, ResumeRead, data

LEMMA ResumeStartStep == ASSUME Inv, ResumeStart PROVE Inv'
<1>1. PICK queue \in waiting : Begin("resume", "incremental", queue)
    BY DEF ResumeStart
<1>2. queue \in SUBSET Item /\ Single(queue)
    BY DEF Inv, TypeOK, RequestsOK, QueuesOK
<1>3. excused' \in BOOLEAN
    BY DEF ResumeStart, Inv, TypeOK, RunOK
<1>4. RunOK' /\ Single(plan') /\ PhaseOK' /\ DoneOK' /\ ChecksumsTrue' /\ CopyOK'
    BY <1>1, <1>2, <1>3, BeginStep DEF ResumeStart
<1> QED BY <1>4 DEF Inv, TypeOK, DataOK, RequestsOK, QueuesOK, ResumeStart, data, bounds

LEMMA ViewStepInv == ASSUME Inv, ViewStep \/ ResumeRefused PROVE Inv'
<1>1. excused' \in BOOLEAN
    BY DEF Inv, TypeOK, RunOK, ViewStep, ViewRead, ViewCheck, ViewWrite, ResumeRefused,
           history, account
<1>2. RunOK' /\ PhaseOK' /\ DoneOK' /\ ChecksumsTrue' /\ CopyOK' /\ Single(plan')
    BY <1>1, QuietStep DEF ViewStep, ViewRead, ViewCheck, ViewWrite, ResumeRefused, Quiet,
                           data, run, history, account
<1>3. CASE ViewRead
    BY <1>2, <1>3, ReadsRecord
    DEF ViewRead, Inv, TypeOK, DataOK, RequestsOK, QueuesOK, data, bounds
<1>4. CASE ViewCheck
    BY <1>2, <1>4 DEF ViewCheck, Inv, TypeOK, DataOK, RequestsOK, QueuesOK, data, bounds
<1>5. CASE ViewWrite
    <2>1. PICK r \in fixing : store' = Fixed(r)
        BY <1>5 DEF ViewWrite
    <2>2. r \in Record /\ Single(r.rest)
        BY DEF Inv, TypeOK, RequestsOK, QueuesOK
    <2>3. store' \in Record /\ Single(store'.rest)
        BY <2>1, <2>2, RecordChanged
    <2> QED BY <1>2, <1>5, <2>3
            DEF ViewWrite, Inv, TypeOK, DataOK, RequestsOK, QueuesOK, data, bounds
<1>6. CASE ResumeRefused
    BY <1>2, <1>6 DEF ResumeRefused, Inv, TypeOK, DataOK, RequestsOK, QueuesOK, data, bounds
<1> QED BY <1>3, <1>4, <1>5, <1>6 DEF ViewStep

LEMMA AbortInv == ASSUME Inv, AbortFlag \/ AbortRead \/ AbortWrite PROVE Inv'
<1>1. excused' \in BOOLEAN
    BY DEF Inv, TypeOK, RunOK, AbortFlag, AbortRead, AbortWrite, history, account
<1>2. RunOK' /\ PhaseOK' /\ DoneOK' /\ ChecksumsTrue' /\ CopyOK' /\ Single(plan')
    BY <1>1, QuietStep
    DEF AbortFlag, AbortRead, AbortWrite, Quiet, data, run, history, account
<1>3. CASE AbortFlag
    BY <1>2, <1>3 DEF AbortFlag, Inv, TypeOK, DataOK, RequestsOK, QueuesOK, data
<1>4. CASE AbortRead
    BY <1>2, <1>4, ReadsRecord
    DEF AbortRead, Inv, TypeOK, DataOK, RequestsOK, QueuesOK, data, bounds
<1>5. CASE AbortWrite
    <2>1. PICK r \in aborting :
             store' = [r EXCEPT !.pulling = FALSE, !.paused = FALSE,
                                !.complete = FALSE, !.rest = {}]
        BY <1>5 DEF AbortWrite
    <2>2. r \in Record
        BY DEF Inv, TypeOK, RequestsOK
    <2>3. store' \in Record /\ Single(store'.rest)
        BY <2>1, <2>2 DEF Record, Single
    <2> QED BY <1>2, <1>5, <2>3
            DEF AbortWrite, Inv, TypeOK, DataOK, RequestsOK, QueuesOK, data, bounds
<1> QED BY <1>3, <1>4, <1>5
-----------------------------------------------------------------------------
(* The thread that pulls: status.json. *)

\* A step within one call that moves on and changes the records only.
Onward ==
    /\ UNCHANGED <<data, run, viewing, fixing, aborting, flagged, waiting, history, bounds>>
    /\ pause' \in BOOLEAN
    /\ pc' \in {"begin", "connect", "list", "files", "fetch", "merge", "error", "release"}
    /\ pc' \in Early => pc \in Early \ {"idle"}
    /\ pc \in Late => pc' \in Late
    /\ pc' \in Bare => pc \in Bare
    /\ pc' = "fetch" => pc = "emit"

LEMMA OnwardStep ==
    ASSUME Inv, Onward, held' \subseteq Record, \A r \in held' : Single(r.rest),
           store' \in Record, Single(store'.rest)
    PROVE  Inv'
<1>1. UNCHANGED <<remote, local, sums, jobs, upsets>> /\ UNCHANGED <<touched, unnoted>>
      /\ UNCHANGED <<owed, excused>>
      /\ UNCHANGED <<kind, mode, plan, todo, broken, bad, done, cur, part>>
    BY DEF Onward, data, run, history, account, bounds
<1>2. TypeOK'
    BY <1>1 DEF Inv, Onward, TypeOK, DataOK, RunOK, RequestsOK
<1>3. QueuesOK'
    BY <1>1 DEF Inv, Onward, QueuesOK
<1>4. PhaseOK'
    BY <1>1 DEF Inv, Onward, PhaseOK, Early, Late, Bare
<1>5. DoneOK' /\ ChecksumsTrue'
    BY <1>1 DEF Inv, DoneOK, ChecksumsTrue
<1>6. CopyOK'
    BY <1>1 DEF Inv, Onward, CopyOK, Copied
<1> QED BY <1>2, <1>3, <1>4, <1>5, <1>6 DEF Inv

LEMMA RunReadStep == ASSUME Inv, RunRead PROVE Inv'
<1>1. PICK r \in Reads(fixing \cup aborting) : held' = {r}
    BY DEF RunRead
<1>2. r \in Record /\ Single(r.rest)
    BY ReadsRecord
<1>3. RunOK' /\ PhaseOK' /\ DoneOK' /\ ChecksumsTrue' /\ CopyOK' /\ Single(plan')
    BY QuietStep DEF RunRead, Quiet, data, run, history, account, Inv, TypeOK, RunOK
<1> QED BY <1>1, <1>2, <1>3
        DEF RunRead, Inv, TypeOK, DataOK, RequestsOK, QueuesOK, data, others, bounds

LEMMA StatusStep ==
    ASSUME Inv, StatusBegin \/ StatusEmit \/ StatusDone \/ StatusStop \/ StatusEnd
                \/ StatusError
    PROVE  Inv'
<1>1. \A r \in held : r \in Record /\ Single(r.rest)
    BY DEF Inv, TypeOK, RequestsOK, QueuesOK
<1>2. /\ store' \in Record /\ Single(store'.rest)
      /\ held' = {}
    BY <1>1, RecordChanged DEF StatusBegin, StatusEmit, StatusDone, StatusStop, StatusEnd,
                               StatusError, RunWrite
<1>3. Onward
    BY DEF StatusBegin, StatusEmit, StatusDone, StatusStop, StatusEnd, StatusError,
           RunWrite, Failing, Onward, others, Early, Late, Bare, Inv, TypeOK, DataOK
<1> QED BY <1>2, <1>3, OnwardStep

LEMMA ConnectStep == ASSUME Inv, ClearFlag \/ Connect PROVE Inv'
<1>1. UNCHANGED <<store, held>>
    BY DEF ClearFlag, Connect
<1>2. Onward
    BY DEF ClearFlag, Connect, Onward, others, Early, Late, Bare, Inv, TypeOK,
           DataOK
<1> QED BY <1>1, <1>2, OnwardStep DEF Inv, TypeOK, DataOK, RequestsOK, QueuesOK

\* A call that breaks off: what it verified is in the copy and not noted.
LEMMA FailsStep == ASSUME Inv, RunFails PROVE Inv'
<1>1. /\ UNCHANGED <<remote, local, sums, store, pause, viewing, fixing, aborting, flagged,
                     waiting, kind, mode, plan, todo, broken, touched, owed, jobs, upsets>>
      /\ bad' = None /\ done' = {} /\ held' = {} /\ pc' \in {"error", "release"}
    BY DEF RunFails, Failing, data, others, bounds
<1>2. Unmerged \subseteq Files
    BY DEF Unmerged, Inv, TypeOK, RunOK, Verified
<1>3. excused' \in BOOLEAN /\ unnoted' = unnoted \cup Unmerged
    BY DEF RunFails, Inv, TypeOK, RunOK
<1>4. TypeOK'
    BY <1>1, <1>2, <1>3 DEF Inv, TypeOK, DataOK, RunOK, RequestsOK
<1>5. QueuesOK'
    BY <1>1 DEF Inv, QueuesOK
<1>6. PhaseOK' /\ DoneOK'
    BY <1>1 DEF PhaseOK, DoneOK, Early
<1>7. ChecksumsTrue'
    <2> SUFFICES ASSUME NEW f \in Files, f \notin unnoted'
                 PROVE  sums[f].md5 \in {None, local[f]}
        BY <1>1 DEF ChecksumsTrue
    <2>1. f \notin unnoted /\ f \notin Unmerged
        BY <1>3
    <2>2. \A d \in done : d.file = f => d.md5 = None
        BY <2>1 DEF Unmerged
    <2> QED BY <2>1, <2>2 DEF Inv, ChecksumsTrue, DoneOK
<1>8. CopyOK'
    BY <1>1 DEF Inv, CopyOK, Copied
<1> QED BY <1>4, <1>5, <1>6, <1>7, <1>8 DEF Inv

LEMMA EndOfCallOK ==
    ASSUME Inv, EndOfCall, pc' = "idle", UNCHANGED <<local, owed>>,
           unnoted' \subseteq Files, excused' \in BOOLEAN
    PROVE  RunOK' /\ Single(plan') /\ PhaseOK' /\ DoneOK' /\ CopyOK'
BY DEF Inv, EndOfCall, TypeOK, RunOK, Single, PhaseOK, DoneOK, CopyOK

LEMMA ReleaseStep == ASSUME Inv, Release PROVE Inv'
<1>1. RunOK' /\ Single(plan') /\ PhaseOK' /\ DoneOK' /\ CopyOK'
    BY EndOfCallOK DEF Release, data, account, Inv, TypeOK, RunOK
<1>2. ChecksumsTrue'
    BY DEF Release, data, EndOfCall, Inv, PhaseOK, Bare, ChecksumsTrue
<1> QED BY <1>1, <1>2
        DEF Release, Inv, TypeOK, DataOK, RequestsOK, QueuesOK, data, others, bounds
-----------------------------------------------------------------------------
(* The thread that pulls: the files. *)

LEMMA ListStep == ASSUME Inv, List PROVE Inv'
<1>1. PICK found \in SUBSET {f \in Files : remote[f] # None} :
         \E sized \in {found, {}} :
            plan' = {[file |-> f,
                      size |-> IF f \in sized THEN SizeOf[remote[f]] ELSE NoSize]
                     : f \in found}
    BY DEF List
<1>1a. PICK sized \in {found, {}} :
         plan' = {[file |-> f,
                   size |-> IF f \in sized THEN SizeOf[remote[f]] ELSE NoSize] : f \in found}
    BY <1>1
<1>2. remote \in [Files -> Versions \cup {None}] /\ sized \subseteq found
    BY DEF Inv, TypeOK, DataOK
<1>3. \A f \in found : remote[f] \in Versions /\ SizeOf[remote[f]] \in Sizes
    BY <1>2 DEF Sizes
<1>4. plan' \subseteq Item /\ Single(plan')
    BY <1>1a, <1>2, <1>3 DEF Item, Single
<1>5. \A i \in plan' : i.file \in Files
                       /\ (i.size # NoSize => remote[i.file] # None
                                              /\ SizeOf[remote[i.file]] = i.size)
    BY <1>1a, <1>2
<1>6. done = {} /\ bad = None
    BY DEF Inv, PhaseOK, List, Early, Late, Bare
<1>7. RunOK'
    <2>1. owed' = {i.file : i \in plan'} /\ owed' \subseteq Files
        BY <1>5 DEF List
    <2>2. broken' \in BOOLEAN /\ excused' = FALSE /\ pc' = "files" /\ todo' = plan'
        BY DEF List
    <2> QED BY <1>4, <1>6, <2>1, <2>2 DEF List, Inv, TypeOK, RunOK
<1>8. PhaseOK' /\ DoneOK' /\ ChecksumsTrue'
    BY <1>6 DEF List, Inv, PhaseOK, DoneOK, ChecksumsTrue, Early, Bare, data
<1>9. CopyOK'
    BY <1>5 DEF List, CopyOK, data
<1> QED BY <1>4, <1>7, <1>8, <1>9
        DEF List, Inv, TypeOK, DataOK, RequestsOK, QueuesOK, data, others, bounds

LEMMA NextFileStep == ASSUME Inv, NextFile PROVE Inv'
<1>1. RunOK'
    BY DEF NextFile, Inv, TypeOK, RunOK, history, account
<1>2. PhaseOK' /\ DoneOK' /\ ChecksumsTrue' /\ CopyOK'
    BY DEF NextFile, Inv, PhaseOK, DoneOK, ChecksumsTrue, CopyOK, Copied, Early, Late, Bare, data,
           history
<1> QED BY <1>1, <1>2
        DEF NextFile, Inv, TypeOK, DataOK, RequestsOK, QueuesOK, data, others, bounds

\* A file that was verified, and that nothing but the copy changed for.
LEMMA AcceptStep ==
    ASSUME Inv, NEW d \in Verified, Accept(d), pc \in {"fetch", "compare"},
           d.file = cur.file,
           local' \in [Files -> Versions \cup {None}],
           \A f \in Files : f # d.file => local'[f] = local[f],
           local'[d.file] # None, d.md5 # None => d.md5 = local'[d.file],
           d.md5 = None => local' = local,
           cur.size # NoSize /\ kind # "resume" /\ cur.file \notin touched
              => SizeOf[local'[cur.file]] = cur.size,
           mode = "force" /\ cur.file \notin touched
              => local'[cur.file] = remote[cur.file],
           UNCHANGED <<remote, sums, kind, mode, plan, broken, bad, touched, excused>>
    PROVE  RunOK' /\ Single(plan') /\ PhaseOK' /\ DoneOK' /\ ChecksumsTrue' /\ CopyOK'
<1>1. cur \in todo /\ todo \subseteq plan /\ plan \subseteq Item /\ d.file \in Files
    BY DEF Inv, TypeOK, RunOK, Verified
<1>2. \A i \in plan : i.file = d.file => i = cur
    BY <1>1 DEF Inv, QueuesOK, Single
<1>3. \A e \in done : e.file \in Files /\ e.file # d.file
    BY <1>1 DEF Inv, DoneOK, TypeOK, RunOK, Verified
<1>4. RunOK'
    <2>1. bad = None /\ pc' = "files"
        BY DEF Inv, PhaseOK, Accept, Late
    <2>2. done' \subseteq Verified /\ \A e, g \in done' : e.file = g.file => e = g
        BY <1>3 DEF Accept, Inv, TypeOK, RunOK
    <2> QED BY <1>1, <2>1, <2>2 DEF Accept, Inv, TypeOK, RunOK
<1>5. PhaseOK' /\ Single(plan')
    BY DEF Accept, Inv, PhaseOK, QueuesOK, Single, Early, Late, Bare
<1>6. DoneOK'
    <2>1. \A e \in done', i \in todo' : e.file # i.file
        BY <1>1, <1>2 DEF Accept, Inv, DoneOK
    <2>2. ASSUME NEW e \in done'
          PROVE  /\ local'[e.file] # None
                 /\ e.md5 # None => e.file \in unnoted' \/ e.md5 = local'[e.file]
        BY <1>3 DEF Accept, Inv, DoneOK
    <2> QED BY <2>1, <2>2 DEF DoneOK
<1>7. ChecksumsTrue'
    <2> SUFFICES ASSUME NEW f \in Files
                 PROVE  \/ f \in unnoted'
                        \/ \E e \in done' : e.file = f /\ e.md5 = local'[f]
                        \/ sums[f].md5 \in {None, local'[f]}
        BY DEF ChecksumsTrue
    <2>1. CASE f # d.file
        BY <2>1 DEF Inv, ChecksumsTrue, Accept
    <2>2. CASE f = d.file /\ d.md5 # None
        BY <2>2 DEF Accept
    <2>3. CASE f = d.file /\ d.md5 = None
        BY <2>3, <1>3 DEF Inv, ChecksumsTrue, Accept
    <2> QED BY <2>1, <2>2, <2>3
<1>8. CopyOK'
    <2>1. pc' = "files" /\ todo' = todo \ {cur}
        BY DEF Accept
    <2>2. ASSUME kind # "resume", NEW i \in plan, i.file \notin touched, i \notin todo'
          PROVE  Copied(i)'
        <3>1. CASE i = cur
            BY <2>2, <3>1 DEF Copied
        <3>2. CASE i # cur
            <4>1. Copied(i)
                BY <2>1, <2>2, <3>2 DEF Inv, CopyOK
            <4>2. local'[i.file] = local[i.file]
                BY <1>1, <1>2, <3>2 DEF Item
            <4> QED BY <4>1, <4>2 DEF Copied
        <3> QED BY <3>1, <3>2
    <2> QED BY <2>1, <2>2 DEF Inv, CopyOK
<1> QED BY <1>4, <1>5, <1>6, <1>7, <1>8

LEMMA KeepStep == ASSUME Inv, Keep PROVE Inv'
<1>1. PICK size \in KnownSize(cur) :
         /\ Unchanged(cur.file, size)
         /\ Accept([file |-> cur.file, size |-> SizeOf[local[cur.file]], kept |-> TRUE,
                    md5 |-> IF mode = "verify" THEN local[cur.file] ELSE None])
    BY DEF Keep
<1> DEFINE d == [file |-> cur.file, size |-> SizeOf[local[cur.file]], kept |-> TRUE,
                 md5 |-> IF mode = "verify" THEN local[cur.file] ELSE None]
<1>2. cur \in Item /\ local \in [Files -> Versions \cup {None}]
    BY DEF Keep, Inv, TypeOK, RunOK, DataOK
<1>3. cur.file \in Files /\ local[cur.file] \in Versions /\ mode # "force"
    BY <1>1, <1>2 DEF Unchanged, Item
<1>4. d \in Verified
    BY <1>3 DEF Verified, Sizes
<1>5. cur.size # NoSize => SizeOf[local[cur.file]] = cur.size
    BY <1>1 DEF KnownSize, Unchanged
<1>6. UNCHANGED <<remote, local, sums, kind, mode, plan, broken, bad, touched, excused>>
    BY DEF Keep, data
<1>7. local[cur.file] # None
    BY <1>3, MirrorAssumption
<1>8. RunOK' /\ Single(plan') /\ PhaseOK' /\ DoneOK' /\ ChecksumsTrue' /\ CopyOK'
    <2>1. Accept(d) /\ d.file = cur.file /\ pc \in {"fetch", "compare"}
        BY <1>1 DEF Keep
    <2>2. d.md5 # None => d.md5 = local'[d.file]
        BY <1>6
    <2> HIDE DEF d
    <2> QED BY <1>2, <1>3, <1>4, <1>5, <1>6, <1>7, <2>1, <2>2, AcceptStep
<1> QED BY <1>6, <1>8
        DEF Keep, Inv, TypeOK, DataOK, RequestsOK, QueuesOK, data, others, bounds

LEMMA RetrStep == ASSUME Inv, Retr PROVE Inv'
<1>1. cur \in Item /\ remote \in [Files -> Versions \cup {None}]
    BY DEF Retr, Inv, TypeOK, RunOK, DataOK
<1>2. part' \in Versions
    BY <1>1 DEF Retr, Item
<1>3. RunOK'
    BY <1>2 DEF Retr, Inv, TypeOK, RunOK, history, account
<1>4. PhaseOK' /\ DoneOK' /\ ChecksumsTrue' /\ CopyOK'
    BY DEF Retr, Inv, PhaseOK, DoneOK, ChecksumsTrue, CopyOK, Copied, Early, Late, Bare,
           data, history
<1> QED BY <1>3, <1>4
        DEF Retr, Inv, TypeOK, DataOK, RequestsOK, QueuesOK, data, others, bounds

LEMMA StopStep ==
    ASSUME Inv, Stop, pc \in {"fetch", "compare"},
           UNCHANGED <<data, kind, mode, plan, broken, done, history>>
    PROVE  RunOK' /\ Single(plan') /\ PhaseOK' /\ DoneOK' /\ ChecksumsTrue' /\ CopyOK'
<1>1. RunOK'
    BY DEF Stop, Inv, TypeOK, RunOK, history, account
<1> QED BY <1>1 DEF Stop, Inv, PhaseOK, DoneOK, ChecksumsTrue, CopyOK, Copied, QueuesOK,
                    Single, Early, Late, Bare, data, history

LEMMA RetrFailsStep == ASSUME Inv, RetrFails PROVE Inv'
<1>1. RunOK' /\ Single(plan') /\ PhaseOK' /\ DoneOK' /\ ChecksumsTrue' /\ CopyOK'
    BY StopStep DEF RetrFails
<1> QED BY <1>1
        DEF RetrFails, Inv, TypeOK, DataOK, RequestsOK, QueuesOK, data, others, bounds

LEMMA CompareStep == ASSUME Inv, Compare PROVE Inv'
<1>1. cur \in Item /\ cur \in plan /\ part \in Versions /\ pc = "compare"
      /\ local \in [Files -> Versions \cup {None}]
    BY DEF Compare, Inv, TypeOK, RunOK, DataOK
<1>2. cur.file \in Files
    BY <1>1 DEF Item
<1> DEFINE d == [file |-> cur.file, size |-> SizeOf[part], kept |-> FALSE, md5 |-> part]
<1>3. CASE local' = [local EXCEPT ![cur.file] = part] /\ Accept(d) /\ UNCHANGED bad
    <2>1. local' \in [Files -> Versions \cup {None}] /\ local'[cur.file] = part
          /\ \A f \in Files : f # cur.file => local'[f] = local[f]
        BY <1>1, <1>2, <1>3
    <2>2. d \in Verified /\ d.file = cur.file /\ d.md5 = part /\ part # None
        BY <1>1, <1>2, MirrorAssumption DEF Verified, Sizes
    <2>3. cur.file \notin touched => part = remote[cur.file]
        BY <1>1 DEF Inv, CopyOK
    <2>4. cur.size # NoSize /\ kind # "resume" /\ cur.file \notin touched
             => SizeOf[local'[cur.file]] = cur.size
        BY <1>1, <2>1, <2>3 DEF Inv, CopyOK
    <2>5. UNCHANGED <<remote, sums, kind, mode, plan, broken, bad, touched, excused>>
        BY <1>3 DEF Compare
    <2>6. RunOK' /\ Single(plan') /\ PhaseOK' /\ DoneOK' /\ ChecksumsTrue' /\ CopyOK'
        <3>1. Accept(d)
            BY <1>3
        <3> HIDE DEF d
        <3> QED BY <1>1, <2>1, <2>2, <2>3, <2>4, <2>5, <3>1, AcceptStep
    <2> QED BY <2>1, <2>6
            DEF Compare, Inv, TypeOK, DataOK, RequestsOK, QueuesOK, others, bounds
<1>4. CASE Stop /\ UNCHANGED <<local, done, unnoted, owed>>
    <2>1. RunOK' /\ Single(plan') /\ PhaseOK' /\ DoneOK' /\ ChecksumsTrue' /\ CopyOK'
        BY <1>1, <1>4, StopStep DEF Compare, data, history, account
    <2> QED BY <1>4, <2>1
            DEF Compare, Inv, TypeOK, DataOK, RequestsOK, QueuesOK, others, bounds
<1> QED BY <1>3, <1>4 DEF Compare

LEMMA MergeStep == ASSUME Inv, Merge PROVE Inv'
<1> DEFINE of(f) == CHOOSE d \in done : d.file = f
           there(f) == \E d \in done : d.file = f
<1>1. sums' = [f \in Files |-> IF there(f) THEN Noted(sums[f], of(f)) ELSE sums[f]]
    BY DEF Merge
<1>2. \A f \in Files : there(f) => of(f) \in done /\ of(f).file = f
    OBVIOUS
<1>3. \A f \in Files, d \in done : d.file = f => d = of(f)
    BY <1>2 DEF Inv, TypeOK, RunOK
<1>4. done \subseteq Verified /\ sums \in [Files -> Sum]
    BY DEF Inv, TypeOK, RunOK, DataOK
<1> HIDE DEF of, there
<1>5. ASSUME NEW old \in Sum, NEW d \in Verified PROVE Noted(old, d) \in Sum
    BY DEF Noted, Sum, Verified
<1>6. sums' \in [Files -> Sum]
    BY <1>1, <1>2, <1>4, <1>5
<1>7. ASSUME NEW f \in Files
      PROVE  f \in unnoted \/ sums'[f].md5 \in {None, local[f]}
    <2>1. CASE ~ there(f)
        <3>1. sums'[f] = sums[f]
            BY <1>1, <2>1
        <3>2. \A d \in done : d.file # f
            BY <2>1 DEF there
        <3> QED BY <3>1, <3>2 DEF Inv, ChecksumsTrue
    <2>2. CASE there(f)
        <3>1. sums'[f].md5 = IF of(f).md5 = None THEN sums[f].md5 ELSE of(f).md5
            BY <1>1, <2>2 DEF Noted
        <3>2. of(f) \in done /\ of(f).file = f
            BY <1>2, <2>2
        <3>3. of(f).md5 # None => f \in unnoted \/ of(f).md5 = local[f]
            BY <3>2 DEF Inv, DoneOK
        <3>4. of(f).md5 = None => \A d \in done : d.file = f => d.md5 # local[f]
            BY <1>3, <3>2 DEF Inv, DoneOK
        <3> QED BY <3>1, <3>3, <3>4 DEF Inv, ChecksumsTrue
    <2> QED BY <2>1, <2>2
<1>8. ChecksumsTrue'
    BY <1>7 DEF Merge, ChecksumsTrue, history
<1>9. RunOK'
    BY DEF Merge, Inv, TypeOK, RunOK, history, account
<1>10. PhaseOK' /\ DoneOK' /\ CopyOK'
    BY DEF Merge, Inv, PhaseOK, DoneOK, CopyOK, Copied, Early, Late, history
<1> QED BY <1>6, <1>8, <1>9, <1>10
        DEF Merge, Inv, TypeOK, DataOK, RequestsOK, QueuesOK, others, bounds
-----------------------------------------------------------------------------
(* What is beyond the panel. *)

LEMMA RemoteChangeStep == ASSUME Inv, NEW f \in Files, RemoteChange(f) PROVE Inv'
<1>1. PICK v \in Versions \cup {None} : remote' = [remote EXCEPT ![f] = v]
    BY DEF RemoteChange
<1>2. remote' \in [Files -> Versions \cup {None}] /\ upsets' \in Nat
      /\ \A g \in Files : g # f => remote'[g] = remote[g]
    BY <1>1 DEF RemoteChange, Upset, Inv, TypeOK, DataOK
<1>3. touched' \subseteq Files
      /\ (pc # "idle" => touched \subseteq touched' /\ f \in touched')
    BY DEF RemoteChange, Touch, Inv, TypeOK, RunOK
<1>4. UNCHANGED <<pc, kind, mode, plan, todo, broken, bad, done, cur, part>>
      /\ UNCHANGED <<unnoted, owed, excused, local, sums>>
    BY DEF RemoteChange, run, account
<1>5. RunOK'
    BY <1>3, <1>4 DEF Inv, TypeOK, RunOK
<1>6. PhaseOK' /\ DoneOK' /\ ChecksumsTrue'
    BY <1>4 DEF Inv, PhaseOK, DoneOK, ChecksumsTrue
<1>7. CopyOK'
    <2>1. CASE pc = "idle"
        BY <1>4, <2>1 DEF Inv, PhaseOK, CopyOK
    <2>2. CASE pc # "idle"
        <3>1. plan \subseteq Item /\ (pc = "compare" => cur \in plan)
            BY DEF Inv, TypeOK, RunOK
        <3>2. \A i \in plan : i.file \notin touched'
                 => i.file \notin touched /\ remote'[i.file] = remote[i.file]
            BY <1>2, <1>3, <2>2, <3>1 DEF Item
        <3> QED BY <1>4, <3>1, <3>2 DEF Inv, CopyOK, Copied
    <2> QED BY <2>1, <2>2
<1> QED BY <1>2, <1>4, <1>5, <1>6, <1>7
        DEF RemoteChange, Inv, TypeOK, DataOK, RequestsOK, QueuesOK, others

LEMMA LocalWriteStep == ASSUME Inv, NEW f \in Files, LocalWrite(f) PROVE Inv'
<1>1. PICK v \in Versions : local' = [local EXCEPT ![f] = v]
    BY DEF LocalWrite
<1>2. local' \in [Files -> Versions \cup {None}] /\ upsets' \in Nat
      /\ local'[f] # None /\ \A g \in Files : g # f => local'[g] = local[g]
    BY <1>1, MirrorAssumption DEF LocalWrite, Upset, Inv, TypeOK, DataOK
<1>3. touched' \subseteq Files
      /\ (pc # "idle" => touched \subseteq touched' /\ f \in touched')
    BY DEF LocalWrite, Touch, Inv, TypeOK, RunOK
<1>4. UNCHANGED <<pc, kind, mode, plan, todo, broken, bad, done, cur, part>>
      /\ UNCHANGED <<owed, excused, remote, sums>> /\ unnoted' = unnoted \cup {f}
    BY DEF LocalWrite, run, account
<1>5. RunOK'
    BY <1>3, <1>4 DEF Inv, TypeOK, RunOK
<1>6. PhaseOK' /\ ChecksumsTrue'
    BY <1>2, <1>4 DEF Inv, PhaseOK, ChecksumsTrue
<1>7. DoneOK'
    <2>1. \A d \in done : d.file \in Files
        BY DEF Inv, TypeOK, RunOK, Verified
    <2> QED BY <1>2, <1>4, <2>1 DEF Inv, DoneOK
<1>8. CopyOK'
    <2>1. CASE pc = "idle"
        BY <1>4, <2>1 DEF Inv, PhaseOK, CopyOK
    <2>2. CASE pc # "idle"
        <3>1. plan \subseteq Item
            BY DEF Inv, TypeOK, RunOK
        <3>2. \A i \in plan : i.file \notin touched'
                 => i.file \notin touched /\ local'[i.file] = local[i.file]
            BY <1>2, <1>3, <2>2, <3>1 DEF Item
        <3> QED BY <1>3, <1>4, <2>2, <3>2 DEF Inv, CopyOK, Copied
    <2> QED BY <2>1, <2>2
<1> QED BY <1>2, <1>4, <1>5, <1>6, <1>7, <1>8
        DEF LocalWrite, Inv, TypeOK, DataOK, RequestsOK, QueuesOK, others

LEMMA CrashStep ==
    ASSUME Inv, NEW tornStatus \in BOOLEAN, NEW tornSums \in BOOLEAN,
           Crash(tornStatus, tornSums)
    PROVE  Inv'
<1>1. Empty \in Record /\ Single(Empty.rest) /\ NoSum \in Sum
    BY DEF Empty, Record, Single, NoSum, Sum
<1>2. store' \in Record /\ Single(store'.rest) /\ upsets' \in Nat
    BY <1>1 DEF Crash, Upset, Inv, TypeOK, DataOK, QueuesOK
<1>3. sums' \in [Files -> Sum] /\ (sums' = sums \/ \A f \in Files : sums'[f].md5 = None)
    BY <1>1 DEF Crash, Inv, TypeOK, DataOK, NoSum
<1>4. unnoted' \subseteq Files
    BY DEF Crash, Unmerged, Inv, TypeOK, RunOK, Verified
<1>5. RunOK' /\ Single(plan') /\ PhaseOK' /\ DoneOK' /\ CopyOK'
    BY <1>4, EndOfCallOK DEF Crash
<1>6. ChecksumsTrue'
    <2> SUFFICES ASSUME NEW f \in Files, f \notin unnoted'
                 PROVE  sums'[f].md5 \in {None, local[f]}
        BY DEF ChecksumsTrue, Crash
    <2>1. f \notin unnoted /\ \A d \in done : d.file = f => d.md5 = None
        BY DEF Crash, Unmerged
    <2>2. sums[f].md5 \in {None, local[f]}
        BY <2>1 DEF Inv, ChecksumsTrue, DoneOK
    <2> QED BY <1>3, <2>2
<1> QED BY <1>2, <1>3, <1>5, <1>6
        DEF Crash, Inv, TypeOK, DataOK, RequestsOK, QueuesOK
-----------------------------------------------------------------------------
LEMMA StutterStep == ASSUME Inv, UNCHANGED vars PROVE Inv'
<1>1. RunOK' /\ PhaseOK' /\ DoneOK' /\ ChecksumsTrue' /\ CopyOK' /\ Single(plan')
    BY QuietStep DEF vars, Quiet, data, run, history, account, Inv, TypeOK, RunOK
<1> QED BY <1>1 DEF vars, Inv, TypeOK, DataOK, RequestsOK, QueuesOK, data, others, bounds

LEMMA NextInv == Inv /\ [Next]_vars => Inv'
<1> SUFFICES ASSUME Inv, [Next]_vars PROVE Inv'
    OBVIOUS
<1>1. CASE RunStep
    BY <1>1, RunReadStep, StatusStep, ConnectStep, FailsStep, ReleaseStep, ListStep, NextFileStep,
       KeepStep, RetrStep, RetrFailsStep, CompareStep, MergeStep DEF RunStep
<1>2. CASE Next /\ ~ RunStep
    BY <1>2, PullStep, VerifyStep, ResumeReadStep, ResumeStartStep, ViewStepInv, AbortInv,
       RemoteChangeStep, LocalWriteStep, CrashStep DEF Next
<1>3. CASE UNCHANGED vars
    BY <1>3, StutterStep
<1> QED BY <1>1, <1>2, <1>3

\* In every reachable state all of this holds of the mirror.
THEOREM MirrorInvariant == Spec => []Inv
BY InitInv, NextInv, PTL DEF Spec

\* Every variable of the mirror stays in its type; a pull that failed on a
\* file has that file among those it leaves to a resume (pull_tree).
THEOREM MirrorTypeCorrect == Spec => []TypeOK
<1>1. Inv => TypeOK
    BY DEF Inv
<1> QED BY <1>1, MirrorInvariant, PTL

\* checksums.json holds the MD5 of no other content than that of the copy, but
\* for files written since and not noted yet (_merge_checksums).
THEOREM ChecksumsStayTrue == Spec => []ChecksumsTrue
<1>1. Inv => ChecksumsTrue
    BY DEF Inv
<1> QED BY <1>1, MirrorInvariant, PTL

\* A pull of the whole tree that comes through has copied every file it listed
\* and nobody wrote meanwhile (fetch_one).
THEOREM FullPullsAreFull == Spec => []FullPullIsFull
<1>1. Inv => FullPullIsFull
    BY DEF Inv, CopyOK, Copied, FullPullIsFull, PhaseOK
<1> QED BY <1>1, MirrorInvariant, PTL
-----------------------------------------------------------------------------
(***************************************************************************)
(* A mirror that is called complete is whole.  Outside of the loop over    *)
(* the files the queue in status.json names every file that is owed, or    *)
(* is empty, so that a resume takes up all of them or none; inside it the  *)
(* files left to visit are those.  A record that says "pulling", which is  *)
(* what a status() writes back, never says "complete", and the pull that   *)
(* copies files never holds one that does.                                 *)
(***************************************************************************)
Outside == {"idle", "clear", "begin", "connect", "list", "error", "release"}
Inside == {"files", "emit", "fetch", "compare", "done", "stop", "merge", "end"}

Names(queue) == {i.file : i \in queue}

CompleteOK ==
    /\ store.complete
          => pc \in {"idle", "clear", "begin", "error", "release"} /\ ~ store.pulling
    /\ \A r \in held : r.complete => pc \in {"begin", "error"}
    /\ \A r \in viewing \cup fixing : ~ r.complete

\* A resume that took up the queue of r would visit every file owed.
Accounts(r) == Queue(r) # {} => owed \subseteq Names(Queue(r))

AccountOK ==
    /\ store.complete => owed = {}
    /\ pc \in Outside => \A r \in {store} \cup held : Accounts(r)
    /\ pc \in Inside \/ (pc \in {"clear", "begin", "connect"} /\ plan # {})
          => owed \subseteq Names(todo)

WholeInv == CompleteOK /\ (~ excused => AccountOK)

\* What each writer of status.json does to the word "complete" and the queue.
LEMMA RecordSays ==
    ASSUME NEW r \in Record
    PROVE  /\ Fixed(r).complete = r.complete /\ Queue(Fixed(r)) = Queue(r)
           /\ ~ Fixed(r).pulling
           /\ ~ Begun(r).complete
           /\ Queue(Begun(r)) = {} \/ Queue(Begun(r)) = Queue(r)
           /\ Progress(r).complete = r.complete
           /\ ProgressDone(r).complete = r.complete /\ ProgressPaused(r).complete = r.complete
           /\ ~ Failed(r).complete /\ Queue(Failed(r)) = Queue(r)
<1>1. Fixed(r).complete = r.complete /\ Queue(Fixed(r)) = Queue(r) /\ ~ Fixed(r).pulling
    BY DEF Fixed, Queue, Record
<1>2. ~ Begun(r).complete /\ (Queue(Begun(r)) = {} \/ Queue(Begun(r)) = Queue(r))
    BY DEF Begun, Queue, Record
<1>3. Progress(r).complete = r.complete /\ ProgressDone(r).complete = r.complete
    BY DEF Progress, ProgressDone, Record
<1>4. ProgressPaused(r).complete = r.complete
    BY DEF ProgressPaused, Record
<1>5. ~ Failed(r).complete /\ Queue(Failed(r)) = Queue(r)
    BY DEF Failed, Queue, Record
<1> QED BY <1>1, <1>2, <1>3, <1>4, <1>5

\* At the end of a call the queue is what is left to visit.
LEMMA EndedSays ==
    ASSUME NEW r \in Record
    PROVE  /\ Ended(r).complete => todo = {} /\ ~ Ended(r).pulling
           /\ Queue(Ended(r)) = todo
<1>1. CASE todo # {}
    <2>1. Ended(r).rest = todo /\ Ended(r).complete = FALSE
        BY <1>1 DEF Ended, Record
    <2> QED BY <1>1, <2>1 DEF Queue
<1>2. CASE todo = {}
    <2>1. Ended(r).rest = {} /\ Ended(r).corrupt = None /\ Ended(r).pulling = FALSE
        BY <1>2 DEF Ended, Record
    <2> QED BY <1>2, <2>1 DEF Queue
<1> QED BY <1>1, <1>2

\* Steps that leave the record, the pull and the account alone.
LEMMA WholeQuiet ==
    ASSUME WholeInv, UNCHANGED <<store, pc, plan, todo, owed>>,
           excused => excused', \A r \in held' : r \in held,
           \A r \in viewing' \cup fixing' : ~ r.complete
    PROVE  WholeInv'
BY DEF WholeInv, CompleteOK, AccountOK, Accounts

LEMMA WholeRequest ==
    ASSUME Inv, WholeInv,
           \/ \E how \in {"incremental", "force", "verify"} : Pull(how)
           \/ Verify
           \/ \E retry \in BOOLEAN : ResumeRead(retry)
           \/ ResumeRefused
    PROVE  WholeInv'
<1>1. ASSUME NEW how, NEW request \in {"pull", "verify"}, Begin(request, how, {}),
             UNCHANGED <<store, held, viewing, fixing, owed, excused>>
      PROVE  WholeInv'
    <2>1. plan' = {} /\ pc = "idle" /\ pc' = "clear"
        BY <1>1 DEF Begin
    <2>2. CompleteOK'
        BY <1>1, <2>1 DEF WholeInv, CompleteOK
    <2>3. AccountOK => AccountOK'
        BY <1>1, <2>1 DEF AccountOK, Accounts, Outside, Inside
    <2> QED BY <1>1, <2>2, <2>3 DEF WholeInv
<1>2. CASE \E how \in {"incremental", "force", "verify"} : Pull(how)
    BY <1>1, <1>2 DEF Pull, others, account
<1>3. CASE Verify
    BY <1>1, <1>3 DEF Verify, others, account
<1>4. CASE \E retry \in BOOLEAN : ResumeRead(retry)
    BY <1>4, WholeQuiet DEF ResumeRead, run, history, account, WholeInv, CompleteOK
<1>5. CASE ResumeRefused
    BY <1>5, WholeQuiet DEF ResumeRefused, run, history, account, WholeInv, CompleteOK
<1> QED BY <1>2, <1>3, <1>4, <1>5

\* A resume that is not excused takes up the queue that the record has now.
LEMMA WholeResume == ASSUME Inv, WholeInv, ResumeStart PROVE WholeInv'
<1>1. PICK queue \in waiting :
         /\ Begin("resume", "incremental", queue)
         /\ excused' = (excused \/ queue # Queue(store))
    BY DEF ResumeStart
<1>2. /\ pc = "idle" /\ pc' = "clear" /\ plan' = queue /\ todo' = queue
      /\ UNCHANGED <<store, held, viewing, fixing, owed>>
    BY <1>1 DEF Begin, ResumeStart
<1>3. CompleteOK'
    BY <1>2 DEF WholeInv, CompleteOK
<1>4. ASSUME ~ excused' PROVE AccountOK'
    <2>1. ~ excused /\ queue = Queue(store)
        BY <1>1, <1>4
    <2>2. AccountOK
        BY <2>1 DEF WholeInv
    <2>3. queue # {} => owed \subseteq Names(queue)
        BY <1>2, <2>1, <2>2 DEF AccountOK, Accounts, Outside
    <2> QED BY <1>2, <2>2, <2>3 DEF AccountOK, Accounts, Outside, Inside
<1> QED BY <1>3, <1>4 DEF WholeInv

\* A status() that writes back what the record still is changes no queue.
LEMMA WholeView == ASSUME Inv, WholeInv, ViewStep PROVE WholeInv'
<1>1. CASE ViewRead
    <2>1. PICK r \in Reads(held \cup aborting) : r.pulling /\ viewing' = {r}
        BY <1>1 DEF ViewRead
    <2>2. ~ r.complete
        BY <2>1 DEF Reads, Empty, WholeInv, CompleteOK
    <2> QED BY <1>1, <2>1, <2>2, WholeQuiet
            DEF ViewRead, run, history, account, WholeInv, CompleteOK
<1>2. CASE ViewCheck
    BY <1>2, WholeQuiet DEF ViewCheck, run, history, account, WholeInv, CompleteOK
<1>3. CASE ViewWrite
    <2>1. PICK r \in fixing : store' = Fixed(r) /\ excused' = (excused \/ r # store)
        BY <1>3 DEF ViewWrite
    <2>2. r \in Record /\ ~ r.complete
        BY DEF Inv, TypeOK, RequestsOK, WholeInv, CompleteOK
    <2>3. ~ store'.complete /\ Queue(store') = Queue(r)
        BY <2>1, <2>2, RecordSays
    <2>4. UNCHANGED <<pc, plan, todo, owed, held, viewing>> /\ fixing' = {}
        BY <1>3 DEF ViewWrite, run
    <2>5. CompleteOK'
        BY <2>3, <2>4 DEF WholeInv, CompleteOK
    <2>6. ASSUME ~ excused' PROVE AccountOK'
        <3>1. r = store /\ AccountOK
            BY <2>1, <2>6 DEF WholeInv
        <3>2. Queue(store') = Queue(store)
            BY <2>3, <3>1
        <3> QED BY <2>3, <2>4, <3>1, <3>2 DEF AccountOK, Accounts
    <2> QED BY <2>5, <2>6 DEF WholeInv
<1> QED BY <1>1, <1>2, <1>3 DEF ViewStep

LEMMA WholeAbort ==
    ASSUME Inv, WholeInv, AbortFlag \/ AbortRead \/ AbortWrite PROVE WholeInv'
<1>1. CASE AbortFlag \/ AbortRead
    BY <1>1, WholeQuiet DEF AbortFlag, AbortRead, run, history, account, WholeInv, CompleteOK
<1>2. CASE AbortWrite
    <2>1. PICK r \in aborting :
             store' = [r EXCEPT !.pulling = FALSE, !.paused = FALSE,
                                !.complete = FALSE, !.rest = {}]
        BY <1>2 DEF AbortWrite
    <2>2. r \in Record
        BY DEF Inv, TypeOK, RequestsOK
    <2>3. ~ store'.complete
        BY <2>1, <2>2 DEF Record
    <2> QED BY <1>2, <2>3 DEF AbortWrite, WholeInv, CompleteOK
<1> QED BY <1>1, <1>2

LEMMA WholeRunRead == ASSUME Inv, WholeInv, RunRead PROVE WholeInv'
<1>1. PICK r \in Reads(fixing \cup aborting) : held' = {r}
    BY DEF RunRead
<1>2. UNCHANGED <<store, pc, plan, todo, owed, excused, viewing, fixing>>
      /\ pc \in {"begin", "emit", "done", "stop", "end", "error"}
    BY DEF RunRead, run, others, history, account
<1>3. r = store \/ r = Empty
    BY DEF Reads
<1>4. ~ Empty.complete /\ Queue(Empty) = {}
    BY DEF Empty, Queue
<1>5. r.complete => pc \in {"begin", "error"}
    BY <1>2, <1>3, <1>4 DEF WholeInv, CompleteOK
<1>6. AccountOK /\ pc \in Outside => Accounts(r)
    BY <1>3, <1>4 DEF AccountOK, Accounts
<1> QED BY <1>1, <1>2, <1>5, <1>6 DEF WholeInv, CompleteOK, AccountOK, Accounts

\* Behind the begin of a call and before its end the record is not complete.
LEMMA WholeStatus ==
    ASSUME Inv, WholeInv, StatusBegin \/ StatusEmit \/ StatusDone \/ StatusStop \/ StatusEnd
                          \/ StatusError
    PROVE  WholeInv'
<1>1. UNCHANGED <<plan, todo, owed, excused, viewing, fixing>> /\ held' = {}
    BY DEF StatusBegin, StatusEmit, StatusDone, StatusStop, StatusEnd, StatusError,
           RunWrite, run, others, history, account
<1>2. \A r \in held : r \in Record
    BY DEF Inv, TypeOK, RequestsOK
<1>3. CASE StatusBegin
    <2>1. PICK r \in held : store' = Begun(r)
        BY <1>3 DEF StatusBegin, RunWrite
    <2>2. pc = "begin" /\ pc' = "connect"
        BY <1>3 DEF StatusBegin, RunWrite
    <2>3. ~ store'.complete /\ (Queue(store') = {} \/ Queue(store') = Queue(r))
        BY <1>2, <2>1, RecordSays
    <2> QED BY <1>1, <2>1, <2>2, <2>3
            DEF WholeInv, CompleteOK, AccountOK, Accounts, Outside, Inside
<1>4. CASE StatusEmit \/ StatusDone \/ StatusStop
    <2>1. PICK r \in held : store' \in {Progress(r), ProgressDone(r), ProgressPaused(r)}
        BY <1>4 DEF StatusEmit, StatusDone, StatusStop, RunWrite
    <2>2. pc \in {"emit", "done", "stop"} /\ pc' \in {"fetch", "merge"}
        BY <1>4 DEF StatusEmit, StatusDone, StatusStop, RunWrite
    <2>3. ~ store'.complete
        BY <1>2, <2>1, <2>2, RecordSays DEF WholeInv, CompleteOK
    <2> QED BY <1>1, <2>2, <2>3 DEF WholeInv, CompleteOK, AccountOK, Outside, Inside
<1>5. CASE StatusEnd
    <2>1. PICK r \in held : store' = Ended(r)
        BY <1>5 DEF StatusEnd, RunWrite
    <2>2. pc = "end" /\ pc' \in {"error", "release"}
        BY <1>5 DEF StatusEnd, RunWrite, Failing
    <2>3. /\ store'.complete => todo = {} /\ ~ store'.pulling
          /\ Queue(store') = todo
        BY <1>2, <2>1, EndedSays
    <2>4. Names({}) = {}
        BY DEF Names
    <2> QED BY <1>1, <2>2, <2>3, <2>4
            DEF WholeInv, CompleteOK, AccountOK, Accounts, Outside, Inside
<1>6. CASE StatusError
    <2>1. PICK r \in held : store' = Failed(r)
        BY <1>6 DEF StatusError, RunWrite
    <2>2. pc = "error" /\ pc' = "release"
        BY <1>6 DEF StatusError, RunWrite
    <2>3. ~ store'.complete /\ Queue(store') = Queue(r)
        BY <1>2, <2>1, RecordSays
    <2> QED BY <1>1, <2>1, <2>2, <2>3
            DEF WholeInv, CompleteOK, AccountOK, Accounts, Outside, Inside
<1> QED BY <1>3, <1>4, <1>5, <1>6

LEMMA WholeConnect ==
    ASSUME Inv, WholeInv, ClearFlag \/ Connect PROVE WholeInv'
<1>1. UNCHANGED <<store, plan, todo, owed, excused, held, viewing, fixing>>
    BY DEF ClearFlag, Connect, run, others, history, account
<1>2. CASE ClearFlag
    BY <1>1, <1>2
    DEF ClearFlag, WholeInv, CompleteOK, AccountOK, Accounts, Outside, Inside
<1>3. CASE Connect
    BY <1>1, <1>3 DEF Connect, WholeInv, CompleteOK, AccountOK, Accounts, Outside, Inside
<1> QED BY <1>2, <1>3

\* A call that breaks off and is not excused left a queue that names all, or none.
LEMMA WholeFails == ASSUME Inv, WholeInv, RunFails PROVE WholeInv'
<1>1. /\ UNCHANGED <<store, plan, todo, owed, viewing, fixing>> /\ held' = {}
      /\ pc' \in {"error", "release"} /\ excused' = (excused \/ Misled)
    BY DEF RunFails, Failing, others
<1>2. CompleteOK'
    BY <1>1 DEF WholeInv, CompleteOK
<1>3. ASSUME ~ excused' PROVE AccountOK'
    <2>1. AccountOK /\ ~ Misled
        BY <1>1, <1>3 DEF WholeInv
    <2>2. Accounts(store)
        BY <2>1 DEF Misled, Accounts, Names
    <2> QED BY <1>1, <2>1, <2>2 DEF AccountOK, Accounts, Inside
<1> QED BY <1>2, <1>3 DEF WholeInv

LEMMA WholeRelease == ASSUME Inv, WholeInv, Release PROVE WholeInv'
<1>1. UNCHANGED <<store, owed, excused, held, viewing, fixing>> /\ pc = "release"
      /\ pc' = "idle"
    BY DEF Release, others, account
<1> QED BY <1>1 DEF WholeInv, CompleteOK, AccountOK, Accounts, Outside, Inside

\* The account is opened with every file that was listed.
LEMMA WholeList == ASSUME Inv, WholeInv, List PROVE WholeInv'
<1>1. /\ todo' = plan' /\ owed' = {i.file : i \in plan'} /\ excused' = FALSE
      /\ pc = "list" /\ pc' = "files" /\ UNCHANGED <<store, held, viewing, fixing>>
    BY DEF List, others
<1>2. owed' = Names(todo')
    BY <1>1 DEF Names
<1> QED BY <1>1, <1>2 DEF WholeInv, CompleteOK, AccountOK, Outside, Inside

LEMMA WholeNextFile == ASSUME Inv, WholeInv, NextFile PROVE WholeInv'
<1>1. UNCHANGED <<store, plan, todo, owed, excused, held, viewing, fixing>>
      /\ pc = "files" /\ pc' \in {"done", "stop", "emit"}
    BY DEF NextFile, others, history, account
<1> QED BY <1>1 DEF WholeInv, CompleteOK, AccountOK, Outside, Inside

\* A file is off the account with its item, and only then.
LEMMA WholeAccept ==
    ASSUME Inv, WholeInv, NEW d, Accept(d), d.file = cur.file, pc \in {"fetch", "compare"},
           UNCHANGED <<store, held, viewing, fixing, plan, excused>>
    PROVE  WholeInv'
<1>1. todo' = todo \ {cur} /\ owed' = owed \ {cur.file} /\ pc' = "files"
    BY DEF Accept
<1>2. owed \subseteq Names(todo) => owed' \subseteq Names(todo')
    BY <1>1 DEF Names
<1> QED BY <1>1, <1>2 DEF WholeInv, CompleteOK, AccountOK, Outside, Inside

LEMMA WholeStop ==
    ASSUME Inv, WholeInv, UNCHANGED <<store, held, viewing, fixing, plan, todo, owed, excused>>,
           pc \in {"fetch", "compare", "merge"}, pc' \in {"stop", "compare", "end"}
    PROVE  WholeInv'
BY DEF WholeInv, CompleteOK, AccountOK, Outside, Inside

LEMMA WholeFiles ==
    ASSUME Inv, WholeInv, Keep \/ Retr \/ RetrFails \/ Compare \/ Merge PROVE WholeInv'
<1>1. CASE Keep
    <2>1. PICK size \in KnownSize(cur) :
             Accept([file |-> cur.file, size |-> SizeOf[local[cur.file]], kept |-> TRUE,
                     md5 |-> IF mode = "verify" THEN local[cur.file] ELSE None])
        BY <1>1 DEF Keep
    <2>2. UNCHANGED <<store, held, viewing, fixing, plan, excused>> /\ pc = "fetch"
        BY <1>1 DEF Keep, others
    <2> QED BY <2>1, <2>2, WholeAccept
<1>2. CASE Retr
    BY <1>2, WholeStop DEF Retr, others, history, account
<1>3. CASE RetrFails
    BY <1>3, WholeStop DEF RetrFails, Stop, others, history, account
<1>4. CASE Compare
    <2> DEFINE d == [file |-> cur.file, size |-> SizeOf[part], kept |-> FALSE, md5 |-> part]
    <2>1. UNCHANGED <<store, held, viewing, fixing, plan, excused>> /\ pc = "compare"
        BY <1>4 DEF Compare, others
    <2>2. Accept(d) \/ (Stop /\ UNCHANGED owed)
        BY <1>4 DEF Compare
    <2>3. d.file = cur.file
        OBVIOUS
    <2> HIDE DEF d
    <2>4. CASE Accept(d)
        BY <2>1, <2>3, <2>4, WholeAccept
    <2>5. CASE Stop /\ UNCHANGED owed
        BY <2>1, <2>5, WholeStop DEF Stop
    <2> QED BY <2>2, <2>4, <2>5
<1>5. CASE Merge
    BY <1>5, WholeStop DEF Merge, others, history, account
<1> QED BY <1>1, <1>2, <1>3, <1>4, <1>5

LEMMA WholeBeyond ==
    ASSUME Inv, WholeInv,
           \/ \E f \in Files : RemoteChange(f) \/ LocalWrite(f)
           \/ \E tornStatus, tornSums \in BOOLEAN : Crash(tornStatus, tornSums)
    PROVE  WholeInv'
<1>1. CASE \E f \in Files : RemoteChange(f) \/ LocalWrite(f)
    BY <1>1, WholeQuiet
    DEF RemoteChange, LocalWrite, run, others, account, WholeInv, CompleteOK
<1>2. CASE \E tornStatus, tornSums \in BOOLEAN : Crash(tornStatus, tornSums)
    <2>1. /\ excused' = TRUE /\ pc' = "idle" /\ held' = {} /\ viewing' = {} /\ fixing' = {}
          /\ store' = store \/ store' = Empty
        BY <1>2 DEF Crash
    <2> QED BY <2>1 DEF WholeInv, CompleteOK, Empty
<1> QED BY <1>1, <1>2

LEMMA WholeStep == Inv /\ WholeInv /\ [Next]_vars => WholeInv'
<1> SUFFICES ASSUME Inv, WholeInv, [Next]_vars PROVE WholeInv'
    OBVIOUS
<1>1. CASE RunStep
    BY <1>1, WholeConnect, WholeFails, WholeRunRead, WholeStatus, WholeRelease, WholeList,
       WholeNextFile, WholeFiles DEF RunStep
<1>2. CASE Next /\ ~ RunStep
    BY <1>2, WholeRequest, WholeResume, WholeView, WholeAbort, WholeBeyond DEF Next
<1>3. CASE UNCHANGED vars
    BY <1>3, WholeQuiet DEF vars, run, others, history, account, WholeInv, CompleteOK
<1> QED BY <1>1, <1>2, <1>3

LEMMA WholeInit == Init => WholeInv
BY DEF Init, WholeInv, CompleteOK, AccountOK, Accounts, Empty, Queue, Outside, Inside

(***************************************************************************)
(* A mirror that is called complete has verified every file of its last    *)
(* listing, in one pull or over any number of pauses, failures and resumes *)
(* (status.json, remaining_queue), unless something it is excused for took *)
(* the record of the rest away.                                            *)
(***************************************************************************)
THEOREM CompleteMirrorsAreWhole == Spec => []CompleteIsWhole
<1>1. WholeInv => CompleteIsWhole
    BY DEF WholeInv, AccountOK, CompleteIsWhole
<1> QED BY <1>1, WholeInit, WholeStep, MirrorInvariant, PTL DEF Spec
=============================================================================
