-------------------------- MODULE SafehouseBridge --------------------------
(***************************************************************************)
(* The panel of a dedicated Project Zomboid server cannot call the game.   *)
(* It appends a job to a queue, writes every job still queued into a       *)
(* command file on the game's host, and later pulls back two files the mod *)
(* MeatballsSafehouses writes: a dump of the zones and the ack of the last *)
(* job.  Three parties run side by side here:                              *)
(*   - the panel, whose request handlers block the event loop and so never *)
(*     interleave with each other, only with the game;                     *)
(*   - the mod on the game's one thread: read the file, clear it, run its  *)
(*     blocks one after the other;                                         *)
(*   - the world: players claim and leave zones, the world is saved, the   *)
(*     JVM stops (a quit, a crash) and comes back from the last save.      *)
(* A job's nonce is its position in the history of jobs, which is what a   *)
(* fresh uuid4 gives: a new name each time, in the order of the queue.     *)
(***************************************************************************)
EXTENDS SafehouseZones, Sequences

CONSTANTS
    Cmds,         \* the commands the administrator may send
    FilesKind,    \* files.kind of the profile: "remote" (ftp, sftp) or "local"
    HasLocalDir,  \* cachedir_paths() finds a folder on the panel's machine
    Clipped,      \* the user names a cut owner line may leave of a name
    QueueCap,     \* jobs[-40:] in save_queue
    NoAck,        \* no ack file
    MaxJobs,      \* bound: jobs ever enqueued
    MaxRestarts,  \* bound: stops of the JVM
    MaxMoves,     \* bound: zones claimed or left by players
    MaxCrashes    \* bound: deaths of the panel's process

ASSUME CmdsAssumption ==
    /\ Cmds \subseteq [op : {"create", "update", "release"},
                       rect : Rects, owner : Players \cup {NoOwner}]
    /\ \A c \in Cmds : c.op = "create" => c.owner # NoOwner
    /\ \A c \in Cmds : c.op = "release" => c.owner = NoOwner

ASSUME SetupAssumption ==
    /\ FilesKind \in {"remote", "local"}
    /\ HasLocalDir \in BOOLEAN
    /\ Clipped \in [Players -> SUBSET Players]
    /\ FilesKind = "local" => HasLocalDir
    /\ QueueCap \in Nat \ {0}
    /\ MaxJobs \in Nat /\ MaxRestarts \in Nat
    /\ MaxMoves \in Nat /\ MaxCrashes \in Nat

ASSUME NoAckAssumption == NoAck \notin [id : Nat, ok : BOOLEAN]

VARIABLES
    \* the panel: its queue file, the request it is serving (with what is left
    \* to write: local writes to go, or the first block not yet stored), its
    \* local copies of the mod's files
    jobs, oldest, panel, body, left, shownDump, shownAck,
    \* files in the Lua folder of the game's host
    cmdFile, ackFile, dumpFile,
    \* the mod in the running JVM
    jvm, todo, seen,
    \* the world and what its last save holds
    houses, saved,
    \* history: ids run since the JVM started, results ever reported, and the
    \* jobs at or before the hole of a store the mod cleared half-way
    lifeLog, results, lost,
    \* counters of the bounded events
    restarts, moves, crashes

queueVars == <<jobs, oldest>>
copyVars == <<shownDump, shownAck>>
panelVars == <<queueVars, panel, body, left, copyVars>>
modFiles == <<ackFile, dumpFile>>
jvmVars == <<jvm, todo, seen>>
worldVars == <<houses, saved>>
history == <<lifeLog, results, lost>>
bounds == <<restarts, moves, crashes>>
vars == <<panelVars, cmdFile, modFiles, jvmVars, worldVars, history, bounds>>

Statuses == {"queued", "ok", "error", "upload_failed"}
Job == [cmd : Cmds, status : Statuses]
Ack == [id : Nat, ok : BOOLEAN]

\* A block of the command file; one that was cut short is not whole.
Block == [id : Nat, whole : BOOLEAN]
Whole(ids) == {[id |-> i, whole |-> TRUE] : i \in ids}

Init ==
    /\ jobs = <<>> /\ oldest = 1
    /\ panel = "idle" /\ body = {} /\ left = 0
    /\ shownDump = {} /\ shownAck = NoAck
    /\ cmdFile = {} /\ ackFile = NoAck /\ dumpFile = {}
    /\ jvm = "idle" /\ todo = {} /\ seen = {}
    /\ houses = {} /\ saved = {}
    /\ lifeLog = <<>> /\ results = {} /\ lost = {}
    /\ restarts = 0 /\ moves = 0 /\ crashes = 0
-----------------------------------------------------------------------------
(* The panel.  The queue file holds the jobs from oldest on. *)

PendingJobs(js, from) == {i \in from .. Len(js) : js[i].status = "queued"}

\* A mutant: the slice forgets that a short list is kept whole.
CutShort(js) == Len(js) - QueueCap + 1

\* save_queue keeps the newest QueueCap jobs.
Cut(js) == IF Len(js) - QueueCap + 1 > oldest THEN Len(js) - QueueCap + 1 ELSE oldest

\* The dump find_overlap looks at: on a local profile the mod's own file.
DumpSeen == IF FilesKind = "local" THEN dumpFile ELSE shownDump

ShownOverlap(c) == \E h \in DumpSeen : PanelRectsOverlap(c.rect, h.rect)

(***************************************************************************)
(* create_safehouse, update_safehouse and release_safehouse up to the      *)
(* first write of the command file.  The body is made from the list as     *)
(* loaded, before save_queue cuts it.  On a remote profile the local       *)
(* writes go to the mirror, which the game does not read.                  *)
(***************************************************************************)
Enqueue(c, upload) ==
    /\ panel = "idle" /\ Len(jobs) < MaxJobs
    /\ c.op = "create" => ~ ShownOverlap(c)
    /\ jobs' = Append(jobs, [cmd |-> c, status |-> "queued"])
    /\ oldest' = Cut(jobs')
    /\ IF FilesKind = "remote" /\ ~ upload
       THEN UNCHANGED <<panel, body, left>>
       ELSE /\ body' = PendingJobs(jobs', oldest)
            /\ panel' = IF FilesKind = "local" THEN "write" ELSE "upload"
            /\ left' = IF FilesKind = "remote" THEN 0
                         ELSE IF upload THEN 3 ELSE 1
    /\ UNCHANGED <<copyVars, cmdFile, modFiles, jvmVars, worldVars, history, bounds>>

\* The request ends; upload_failed needs an error and no local folder at all.
EndRequest(uploaded) ==
    /\ panel' = "idle" /\ body' = {}
    /\ jobs' = IF uploaded \/ HasLocalDir THEN jobs
               ELSE [jobs EXCEPT ![Len(jobs)].status = "upload_failed"]

(***************************************************************************)
(* _write_local_cmd on a local profile: _enqueue, write_cmd_body and       *)
(* _upload_text each write the same text, then the upload itself fails for *)
(* want of a remote client.                                                *)
(***************************************************************************)
WriteLocalCmd ==
    /\ panel = "write"
    /\ cmdFile' = Whole(body)
    /\ left' = left - 1
    /\ IF left = 1 THEN EndRequest(FALSE) ELSE UNCHANGED <<panel, body, jobs>>
    /\ UNCHANGED <<oldest, copyVars, modFiles, jvmVars, worldVars, history, bounds>>

UploadStored ==
    /\ panel = "upload"
    /\ cmdFile' = Whole(body)
    /\ panel' = "verify"
    /\ UNCHANGED <<queueVars, body, left, copyVars, modFiles, jvmVars,
                   worldVars, history, bounds>>

\* The file when STOR has come as far as block k: not at all, or only partly.
Stored(k, torn) ==
    Whole({i \in body : i < k}) \cup
        (IF torn THEN {[id |-> k, whole |-> FALSE]} ELSE {})

\* The connection is lost before STOR, within it, or behind a part of it.
UploadBroken ==
    /\ panel \in {"upload", "storing"}
    /\ \/ UNCHANGED cmdFile
       \/ panel = "upload" /\ \E k \in body, torn \in BOOLEAN : cmdFile' = Stored(k, torn)
    /\ EndRequest(FALSE)
    /\ left' = 0
    /\ UNCHANGED <<oldest, copyVars, modFiles, jvmVars, worldVars, history, bounds>>

\* STOR writes in place: the body comes in parts, and a part can be read.
StorePart ==
    /\ panel = "upload"
    /\ \E k \in body, torn \in BOOLEAN :
          /\ Stored(k, torn) # {}
          /\ cmdFile' = Stored(k, torn)
          /\ left' = k
    /\ panel' = "storing"
    /\ UNCHANGED <<queueVars, body, copyVars, modFiles, jvmVars, worldVars,
                   history, bounds>>

(***************************************************************************)
(* The rest goes behind what was stored.  If the mod cleared the file in   *)
(* between there is a hole instead, which takes block k's first lines.     *)
(***************************************************************************)
StoreRest ==
    /\ panel = "storing"
    /\ IF cmdFile = {}
       THEN /\ cmdFile' = Whole({i \in body : i > left})
            /\ lost' = lost \cup {i \in body : i <= left}
       ELSE cmdFile' = Whole(body) /\ UNCHANGED lost
    /\ left' = 0
    /\ panel' = "verify"
    /\ UNCHANGED <<queueVars, body, copyVars, modFiles, jvmVars, worldVars,
                   lifeLog, results, bounds>>

\* upload_file reads the file back: a mod that has cleared it is an error.
UploadVerified ==
    /\ panel = "verify"
    /\ \E answered \in BOOLEAN : EndRequest(answered /\ cmdFile = Whole(body))
    /\ UNCHANGED <<oldest, left, copyVars, cmdFile, modFiles, jvmVars,
                   worldVars, history, bounds>>

(***************************************************************************)
(* _pull_remote_lua: a new copy, the old one on an error, none when the    *)
(* host says 550 or the copy does not parse.                               *)
(***************************************************************************)
Copies(file, old, none) ==
    IF FilesKind = "local" THEN {file}
    ELSE IF HasLocalDir THEN {file, old, none} ELSE {none}

PullDump ==
    /\ panel = "idle"
    /\ shownDump' \in Copies(dumpFile, shownDump, {})
    /\ panel' = "pulled"
    /\ UNCHANGED <<queueVars, body, left, shownAck, cmdFile, modFiles, jvmVars,
                   worldVars, history, bounds>>

\* Mutants: the ack is taken for any queued job, or for an answered one too.
MarkAnyJob(js, ack) ==
    [i \in DOMAIN js |->
        IF ack # NoAck /\ i >= oldest /\ js[i].status = "queued"
        THEN [js[i] EXCEPT !.status = IF ack.ok THEN "ok" ELSE "error"]
        ELSE js[i]]

MarkAgain(js, ack) ==
    [i \in DOMAIN js |->
        IF ack # NoAck /\ i >= oldest /\ i = ack.id
        THEN [js[i] EXCEPT !.status = IF ack.ok THEN "ok" ELSE "error"]
        ELSE js[i]]

MarkJobAck(js, ack) ==
    [i \in DOMAIN js |->
        IF ack # NoAck /\ i >= oldest /\ js[i].status = "queued" /\ i = ack.id
        THEN [js[i] EXCEPT !.status = IF ack.ok THEN "ok" ELSE "error"]
        ELSE js[i]]

PullAck ==
    /\ panel = "pulled"
    /\ shownAck' \in Copies(ackFile, shownAck, NoAck)
    /\ jobs' = MarkJobAck(jobs, shownAck')
    /\ panel' = "idle"
    /\ UNCHANGED <<oldest, body, left, shownDump, cmdFile, modFiles, jvmVars,
                   worldVars, history, bounds>>

(***************************************************************************)
(* The panel's process dies: between two steps of a request, or inside     *)
(* save_queue, whose half-written file load_queue reads as no jobs at all. *)
(***************************************************************************)
PanelCrash(torn) ==
    /\ crashes < MaxCrashes
    /\ IF torn THEN panel \in {"idle", "pulled"} ELSE panel # "idle"
    /\ crashes' = crashes + 1
    /\ panel' = "idle" /\ body' = {} /\ left' = 0
    /\ oldest' = IF torn THEN Len(jobs) + 1 ELSE oldest
    /\ UNCHANGED <<jobs, copyVars, cmdFile, modFiles, jvmVars, worldVars, history,
                   restarts, moves>>
-----------------------------------------------------------------------------
(* The mod. *)

ModRead ==
    /\ jvm = "idle" /\ cmdFile # {}
    /\ todo' = cmdFile
    /\ jvm' = "read"
    /\ UNCHANGED <<panelVars, cmdFile, modFiles, seen, worldVars, history, bounds>>

\* A mutant: the file is read and left as it is.
ModClearNever ==
    /\ jvm = "read"
    /\ jvm' = "apply"
    /\ UNCHANGED <<panelVars, cmdFile, modFiles, todo, seen, worldVars, history, bounds>>

ModClear ==
    /\ jvm = "read"
    /\ cmdFile' = {}
    /\ jvm' = "apply"
    /\ UNCHANGED <<panelVars, modFiles, todo, seen, worldVars, history, bounds>>

Failed(hs) == {[houses |-> hs, ok |-> FALSE]}

\* A mutant: the panel's check is trusted, the server's own is dropped.
ApplyCreateUnchecked(c, hs) ==
    IF c.rect.w < 1 \/ c.rect.h < 1 \/ c.owner = NoOwner \/ c.rect \in Restricted
    THEN Failed(hs)
    ELSE {[houses |-> hs \cup {[rect |-> c.rect, owner |-> c.owner]}, ok |-> TRUE]}

ApplyCreate(c, hs) ==
    IF c.rect.w < 1 \/ c.rect.h < 1 \/ c.owner = NoOwner
        \/ Overlapping(c.rect, hs) # {} \/ c.rect \in Restricted
    THEN Failed(hs)
    ELSE {[houses |-> hs \cup {[rect |-> c.rect, owner |-> c.owner]}, ok |-> TRUE]}

\* A mutant: an update also moves the zone it fell back to.
ApplyUpdateMoving(c, hs) ==
    LET found == FindHouse(c.rect, c.owner, hs)
        After(h) == [h EXCEPT !.rect = c.rect,
                              !.owner = IF c.owner = NoOwner THEN h.owner ELSE c.owner]
    IN  IF found = {} THEN Failed(hs)
        ELSE {[houses |-> (hs \ {h}) \cup {After(h)}, ok |-> TRUE] : h \in found}

\* The look-up already uses the NEW owner, which is what cmd.owner carries.
ApplyUpdate(c, hs) ==
    LET found == FindHouse(c.rect, c.owner, hs)
        After(h) == IF c.owner = NoOwner THEN h ELSE [h EXCEPT !.owner = c.owner]
    IN  IF found = {} THEN Failed(hs)
        ELSE {[houses |-> (hs \ {h}) \cup {After(h)}, ok |-> TRUE] : h \in found}

ApplyRelease(c, hs) ==
    LET found == FindHouse(c.rect, c.owner, hs)
    IN  IF found = {} THEN Failed(hs)
        ELSE {[houses |-> hs \ {h}, ok |-> TRUE] : h \in found}

Effects(c, hs) ==
    CASE c.op = "create"  -> ApplyCreate(c, hs)
      [] c.op = "update"  -> ApplyUpdate(c, hs)
      [] c.op = "release" -> ApplyRelease(c, hs)

\* What is left of a number whose last digits are cut off; toInt reads "" as 0.
CutNumber(n) ==
    {0} \cup {IF n < 0 THEN - ((- n) \div d) ELSE n \div d : d \in {10, 100, 1000, 10000}}

\* A field that is not there is 0 as well.
Nowhere == [x |-> 0, y |-> 0, w |-> 0, h |-> 0]

\* The rectangles left of r when its lines x, y, w, h end within one of them.
CutRects(r) ==
    {[Nowhere EXCEPT !.x = n] : n \in CutNumber(r.x)}
        \cup {[Nowhere EXCEPT !.x = r.x, !.y = n] : n \in CutNumber(r.y)}
        \cup {[r EXCEPT !.w = n, !.h = 0] : n \in CutNumber(r.w)}
        \cup {[r EXCEPT !.h = n] : n \in CutNumber(r.h)}

(***************************************************************************)
(* The commands a torn block may be read as: cut within its rectangle or   *)
(* before the owner, within the owner's name, or behind the owner.         *)
(***************************************************************************)
TornCommands(c) ==
    {[c EXCEPT !.rect = r, !.owner = NoOwner] : r \in CutRects(c.rect) \cup {c.rect}}
        \cup {[c EXCEPT !.owner = o] : o \in IF c.owner = NoOwner THEN {} ELSE Clipped[c.owner]}
        \cup {c}

TornEffects(c, hs) == UNION {Effects(d, hs) : d \in TornCommands(c)}

\* A mutant: the blocks are taken from the end of the file.
LastBlock(b) == b \in todo /\ \A other \in todo : b.id >= other.id

FirstBlock(b) == b \in todo /\ \A other \in todo : b.id <= other.id

\* A mutant: the nonces are forgotten.
NeverSeen(b) == FALSE

\* _seenNonces, empty again in every new JVM.
SeenBefore(b) == b.id \in seen

\* The blocks of one read are run to the end, then the mod waits for a tick.
NextBlock(b) ==
    /\ todo' = todo \ {b}
    /\ jvm' = IF todo = {b} THEN "idle" ELSE "apply"

(***************************************************************************)
(* applyCmd for a nonce this JVM has not seen: note the nonce, run the     *)
(* operation, write the ack and the dump.                                  *)
(***************************************************************************)
RunBlock(b) ==
    /\ jvm = "apply" /\ FirstBlock(b)
    /\ ~ SeenBefore(b)
    /\ LET c == jobs[b.id].cmd
       IN  \E e \in IF b.whole THEN Effects(c, houses) ELSE TornEffects(c, houses) :
               /\ houses' = e.houses
               /\ ackFile' = [id |-> b.id, ok |-> e.ok]
               /\ results' = results \cup {[id |-> b.id, ok |-> e.ok]}
    /\ seen' = seen \cup {b.id}
    /\ dumpFile' = houses'
    /\ lifeLog' = Append(lifeLog, b.id)
    /\ NextBlock(b)
    /\ UNCHANGED <<panelVars, cmdFile, saved, lost, bounds>>

(***************************************************************************)
(* applyCmd for a block cut within its nonce: the operation runs on the    *)
(* rectangle 0,0,0,0 and is acked under a name no job has.                 *)
(***************************************************************************)
RunNameless(b) ==
    /\ jvm = "apply" /\ FirstBlock(b)
    /\ ~ b.whole
    /\ \E e \in Effects([jobs[b.id].cmd EXCEPT !.rect = Nowhere, !.owner = NoOwner], houses) :
           houses' = e.houses
    /\ ackFile' = NoAck
    /\ dumpFile' = houses'
    /\ NextBlock(b)
    /\ UNCHANGED <<panelVars, cmdFile, seen, saved, history, bounds>>

(***************************************************************************)
(* applyCmd that runs nothing: the nonce was seen (the part of it that is  *)
(* there, when it is cut), or a torn block has no op or no nonce.          *)
(***************************************************************************)
SkipBlock(b) ==
    /\ jvm = "apply" /\ FirstBlock(b)
    /\ SeenBefore(b) \/ ~ b.whole
    /\ NextBlock(b)
    /\ UNCHANGED <<panelVars, cmdFile, modFiles, seen, worldVars, history, bounds>>

\* A mutant: pulse only polls.
PulseNoDump ==
    /\ jvm = "idle"
    /\ UNCHANGED vars

\* pulse and EveryHours: poll has nothing left to run, the zones are dumped.
Pulse ==
    /\ jvm = "idle"
    /\ dumpFile' = houses
    /\ UNCHANGED <<panelVars, cmdFile, ackFile, jvmVars, worldVars, history, bounds>>
-----------------------------------------------------------------------------
(* The world. *)

\* A player claims a zone; the game refuses overlaps and fires OnSafehouseCreate.
Claim(h) ==
    /\ jvm = "idle" /\ moves < MaxMoves
    /\ Overlapping(h.rect, houses) = {} /\ h.rect \notin Restricted
    /\ houses' = houses \cup {h}
    /\ dumpFile' = houses'
    /\ moves' = moves + 1
    /\ UNCHANGED <<panelVars, cmdFile, ackFile, jvmVars, saved, history,
                   restarts, crashes>>

\* A player leaves a zone: no event the mod listens to.
Leave(h) ==
    /\ jvm = "idle" /\ moves < MaxMoves
    /\ h \in houses
    /\ houses' = houses \ {h}
    /\ moves' = moves + 1
    /\ UNCHANGED <<panelVars, cmdFile, modFiles, jvmVars, saved, history,
                   restarts, crashes>>

WorldSave ==
    /\ jvm # "down"
    /\ saved' = houses
    /\ UNCHANGED <<panelVars, cmdFile, modFiles, jvmVars, houses, history, bounds>>

\* The JVM stops, at any point of the mod's work: its memory is gone.
JvmStop ==
    /\ jvm # "down" /\ restarts < MaxRestarts
    /\ jvm' = "down" /\ todo' = {} /\ seen' = {} /\ lifeLog' = <<>>
    /\ houses' = saved
    /\ restarts' = restarts + 1
    /\ UNCHANGED <<panelVars, cmdFile, modFiles, saved, results, lost, moves, crashes>>

\* onWorldReady dumps before it polls.
JvmStart ==
    /\ jvm = "down"
    /\ jvm' = "idle"
    /\ dumpFile' = houses
    /\ UNCHANGED <<panelVars, cmdFile, ackFile, todo, seen, worldVars, history, bounds>>
-----------------------------------------------------------------------------
PanelStep ==
    \/ WriteLocalCmd
    \/ UploadStored
    \/ UploadBroken
    \/ StorePart
    \/ StoreRest
    \/ UploadVerified
    \/ PullAck

ModStep ==
    \/ ModRead
    \/ ModClear
    \/ \E b \in todo : RunBlock(b) \/ RunNameless(b) \/ SkipBlock(b)

Next ==
    \/ \E c \in Cmds, upload \in BOOLEAN : Enqueue(c, upload)
    \/ PanelStep
    \/ PullDump
    \/ \E torn \in BOOLEAN : PanelCrash(torn)
    \/ ModStep
    \/ Pulse
    \/ \E h \in House : Claim(h) \/ Leave(h)
    \/ WorldSave
    \/ JvmStop
    \/ JvmStart

Spec == Init /\ [][Next]_vars

(***************************************************************************)
(* A request that began is served to its end, the game keeps calling the   *)
(* mod (OnServerStarted, EveryOneMinute), and a stopped server is started  *)
(* again by its host.                                                      *)
(***************************************************************************)
Fairness ==
    /\ WF_vars(PanelStep)
    /\ WF_vars(ModStep)
    /\ WF_vars(Pulse)
    /\ WF_vars(JvmStart)

FairSpec == Spec /\ Fairness
-----------------------------------------------------------------------------
(* Properties. *)

\* Every variable stays in its type; a job id names a job that was enqueued.
TypeOK ==
    /\ jobs \in Seq(Job) /\ oldest \in Nat \ {0}
    /\ panel \in {"idle", "write", "upload", "storing", "verify", "pulled"}
    /\ body \subseteq DOMAIN jobs /\ left \in Nat
    /\ panel \in {"upload", "storing", "verify", "write"} => jobs # <<>>
    /\ panel = "write" => left > 0
    /\ shownDump \subseteq House /\ dumpFile \subseteq House
    /\ shownAck \in Ack \cup {NoAck} /\ ackFile \in Ack \cup {NoAck}
    /\ cmdFile \subseteq [id : DOMAIN jobs, whole : BOOLEAN]
    /\ todo \subseteq [id : DOMAIN jobs, whole : BOOLEAN]
    /\ jvm \in {"idle", "read", "apply", "down"} /\ seen \subseteq DOMAIN jobs
    /\ houses \subseteq House /\ saved \subseteq House
    /\ lifeLog \in Seq(Nat) /\ results \subseteq Ack /\ lost \subseteq Nat
    /\ restarts \in Nat /\ moves \in Nat /\ crashes \in Nat

(***************************************************************************)
(* No two zones of the server overlap, whatever the panel believed when it *)
(* sent a create: the panel's own check (find_overlap) looks at an old     *)
(* dump, so this rests on the check applyCreate repeats.                   *)
(***************************************************************************)
ZonesDisjoint == Disjoint(houses)

(***************************************************************************)
(* One life of the JVM runs a job at most once, although every new job     *)
(* sends all the queued ones again: the nonces applyCmd has seen.  (A run  *)
(* under a cut nonce is no run of a job: RunNameless.)                     *)
(***************************************************************************)
OncePerLife ==
    \A i, j \in DOMAIN lifeLog : i # j => lifeLog[i] # lifeLog[j]

(***************************************************************************)
(* The panel shows "ok" or "error" only for a job the mod did run with     *)
(* that outcome, however old the ack it pulled (mark_job_ack).             *)
(***************************************************************************)
AckTruthful ==
    \A i \in DOMAIN jobs :
        jobs[i].status \in {"ok", "error"}
            => [id |-> i, ok |-> jobs[i].status = "ok"] \in results

(***************************************************************************)
(* As long as the JVM is not restarted, a job shown as "error" changed     *)
(* nothing: no run under its nonce succeeded.  (After a restart a create   *)
(* may be run again, fail on the zone it made itself and be shown as an    *)
(* error.)                                                                 *)
(***************************************************************************)
ErrorMeansNoEffect ==
    restarts = 0 =>
        \A i \in DOMAIN jobs :
            jobs[i].status = "error" => [id |-> i, ok |-> TRUE] \notin results

RanIds(rs) == {r.id : r \in rs}

(***************************************************************************)
(* A job runs for the first time only while no younger one has run, also   *)
(* though a failed upload travels in front of the next one, STOR can be    *)
(* read half-way and torn text is run (cmd_body_from_jobs, poll).  There   *)
(* is one exception, and the code does meet it: when the mod clears the    *)
(* file half-way through a store, the rest goes behind a hole, so jobs at  *)
(* or before the hole may be overtaken by those behind it.                 *)
(***************************************************************************)
FirstRunsInOrder ==
    [][\A i \in RanIds(results') \ RanIds(results), j \in RanIds(results) :
          j < i \/ i \in lost]_vars

(***************************************************************************)
(* An answer is final: a job that left "queued" never changes its status,  *)
(* not even when a restarted JVM runs it again and acks the opposite.      *)
(***************************************************************************)
AnswersAreFinal ==
    [][\A i \in DOMAIN jobs :
        jobs[i].status # "queued" => jobs'[i].status = jobs[i].status]_vars

(***************************************************************************)
(* The bridge implements the registry of zones: no command, race, restart  *)
(* or torn block makes the server's list change in another way.            *)
(***************************************************************************)
Registry == INSTANCE SafehouseRegistry
RegistrySpec == Registry!Spec

(***************************************************************************)
(* What the panel put in the command file does not stay there: poll takes  *)
(* it, or a later write replaces it, until the file is empty.              *)
(***************************************************************************)
FileDrains == (cmdFile # {}) ~> (cmdFile = {})

(***************************************************************************)
(* Once the world is quiet the dump tells the truth, also about zones that *)
(* vanished without an event (a player leaving one).                       *)
(***************************************************************************)
DumpCatchesUp == <>[](dumpFile = houses)
=============================================================================
