------------------------------ MODULE CityWipe ------------------------------
(***************************************************************************)
(* How a city wipe gets from the panel into the game.  The panel keeps a   *)
(* queue of lines and writes every line still queued into one file of the  *)
(* game's Lua folder; the mod AdminTools reads that file about once a      *)
(* second, empties it, and starts a sweep for every line whose nonce this  *)
(* JVM has not seen.  Nothing ever comes back: a line stays "queued" until *)
(* the administrator clears the queue or its upload fails, and so travels  *)
(* again with every later trigger.  Administrators in the game start       *)
(* sweeps past the file.  Which city, and what the sweep does, is left to  *)
(* CitySweep.                                                              *)
(***************************************************************************)
EXTENDS Integers, Sequences

CONSTANTS
    Kinds,        \* the kinds files.kind of the profile is chosen from
    WipeEnabled,  \* AdminTools.Config.cityWipe
    QueueCap,     \* jobs[-40:] in save_queue
    MaxJobs,      \* bound: wipes ever triggered from the panel
    MaxInGame,    \* bound: sweeps asked for in the game, in one JVM life
    MaxRestarts,  \* bound: stops of the JVM
    MaxCrashes    \* bound: deaths of the panel's process

ASSUME WipeAssumption ==
    /\ Kinds \subseteq {"remote", "local"}
    /\ WipeEnabled \in BOOLEAN
    /\ QueueCap \in Nat \ {0} /\ MaxJobs \in Nat
    /\ MaxInGame \in Nat /\ MaxRestarts \in Nat /\ MaxCrashes \in Nat

VARIABLES
    \* files.kind of the profile, chosen once: "remote" (ftp, sftp) or "local"
    filesKind,
    \* the panel: the status of every job ever, the first one still in the
    \* queue file, the request it serves (the job to blame for a failed
    \* upload, 0 for none; the lines it writes; local writes to go, or the
    \* first line not yet stored)
    jobs, oldest, panel, serving, body, left,
    \* the command file in the game's Lua folder
    cmdFile,
    \* the mod in the running JVM: lines read and not yet applied, nonces
    jvm, todo, seen,
    \* history: sweeps started since the JVM started (by their line), jobs
    \* started before that, cleared jobs that nothing outside the panel
    \* remembers any more, jobs at or before the hole of a half-cleared store
    sweeps, earlier, forgotten, lost,
    \* counters of the bounded events
    restarts, crashes

queue == <<jobs, oldest>>
request == <<panel, serving, body, left>>
mod == <<jvm, todo, seen>>
started == <<sweeps, earlier>>
history == <<started, forgotten, lost>>
bounds == <<restarts, crashes>>
vars == <<filesKind, queue, request, cmdFile, mod, history, bounds>>

Statuses == {"queued", "cleared", "upload_failed"}

(***************************************************************************)
(* A line of the file.  "whole" has its nonce; of a torn line either the   *)
(* nonce lost its end ("part"), or it is missing ("none", and the line     *)
(* serves as nonce), or fewer than five fields are left ("junk").          *)
(***************************************************************************)
TornCuts == {"part", "none", "junk"}
Line(ids) == [id : ids, cut : {"whole"} \cup TornCuts]
Whole(ids) == {[id |-> i, cut |-> "whole"] : i \in ids}

\* A sweep asked for in the game has no line.
NoLine == [id |-> 0, cut |-> "whole"]

Ids(lines) == {l.id : l \in lines}

Init ==
    /\ filesKind \in Kinds
    /\ jobs = <<>> /\ oldest = 1
    /\ panel = "idle" /\ serving = 0 /\ body = {} /\ left = 0
    /\ cmdFile = {}
    /\ jvm = "idle" /\ todo = {} /\ seen = {}
    /\ sweeps = <<>> /\ earlier = {} /\ forgotten = {} /\ lost = {}
    /\ restarts = 0 /\ crashes = 0
-----------------------------------------------------------------------------
(* The panel. *)

\* Mutant: the status of a job is not looked at.
PendingAll(js, from) == from .. Len(js)

PendingJobs(js, from) == {i \in from .. Len(js) : js[i] = "queued"}

\* Mutant: what is left of a queue shorter than its cap is not looked at.
CutShort(js) == Len(js) - QueueCap + 1

Cut(js) == IF Len(js) - QueueCap + 1 > oldest THEN Len(js) - QueueCap + 1 ELSE oldest

(***************************************************************************)
(* trigger_city_wipe up to the first write of the file.  An upload that    *)
(* fails is blamed on the new job; without an upload nothing can fail.     *)
(***************************************************************************)
Trigger(upload) ==
    /\ panel = "idle" /\ Len(jobs) < MaxJobs
    /\ jobs' = Append(jobs, "queued")
    /\ oldest' = Cut(jobs')
    /\ IF filesKind = "remote" /\ ~ upload
       THEN UNCHANGED request
       ELSE /\ body' = PendingJobs(jobs', oldest)
            /\ serving' = IF upload THEN Len(jobs') ELSE 0
            /\ panel' = IF filesKind = "local" THEN "write" ELSE "upload"
            /\ left' = IF filesKind = "remote" THEN 0 ELSE IF upload THEN 2 ELSE 1
    /\ UNCHANGED <<cmdFile, mod, history, bounds, filesKind>>

\* clear_queue: mark the queued jobs, write an empty file, ignore its errors.
ClearQueue ==
    /\ panel = "idle"
    /\ jobs' = [i \in DOMAIN jobs |->
                   IF i >= oldest /\ jobs[i] = "queued" THEN "cleared" ELSE jobs[i]]
    /\ body' = {} /\ serving' = 0
    /\ panel' = IF filesKind = "local" THEN "write" ELSE "upload"
    /\ left' = IF filesKind = "local" THEN 1 ELSE 0
    /\ UNCHANGED <<oldest, cmdFile, mod, history, bounds, filesKind>>

EndRequest(uploaded) ==
    /\ panel' = "idle" /\ body' = {} /\ serving' = 0
    /\ jobs' = IF uploaded \/ serving = 0 THEN jobs
               ELSE [jobs EXCEPT ![serving] = "upload_failed"]

\* The whole text reaches the file; an empty one may leave nothing behind.
StoreBody ==
    /\ cmdFile' = Whole(body)
    /\ forgotten' =
          IF body # {} THEN forgotten
          ELSE forgotten \cup ({i \in DOMAIN jobs : jobs[i] = "cleared"} \ Ids(todo))

\* write_local_cmd; after the last one the upload fails for want of a client.
WriteLocalCmd ==
    /\ panel = "write"
    /\ StoreBody
    /\ left' = left - 1
    /\ IF left = 1 THEN EndRequest(FALSE) ELSE UNCHANGED <<panel, serving, body, jobs>>
    /\ UNCHANGED <<oldest, mod, started, lost, bounds, filesKind>>

UploadStored ==
    /\ panel = "upload"
    /\ StoreBody
    /\ panel' = "verify"
    /\ UNCHANGED <<queue, serving, body, left, mod, started, lost, bounds, filesKind>>

\* The file when STOR has come as far as line k, which may be there in part.
Stored(k) ==
    {Whole({i \in body : i < k}) \cup torn :
        torn \in {{}} \cup {{[id |-> k, cut |-> c]} : c \in TornCuts}}

\* STOR writes in place: the body comes in parts, and a part can be read.
StorePart ==
    /\ panel = "upload"
    /\ \E k \in body :
          /\ cmdFile' \in Stored(k) \ {{}}
          /\ left' = k
    /\ panel' = "storing"
    /\ UNCHANGED <<queue, serving, body, mod, history, bounds, filesKind>>

(***************************************************************************)
(* The rest goes behind what was stored, or behind a hole where the mod    *)
(* emptied the file in between: line left then begins with the hole.       *)
(***************************************************************************)
StoreRest ==
    /\ panel = "storing"
    /\ IF cmdFile = {}
       THEN /\ cmdFile' = Whole({i \in body : i > left})
            /\ lost' = lost \cup {i \in body : i <= left}
       ELSE cmdFile' = Whole(body) /\ UNCHANGED lost
    /\ left' = 0
    /\ panel' = "verify"
    /\ UNCHANGED <<queue, serving, body, mod, started, forgotten, bounds, filesKind>>

\* The connection is lost before STOR, within it on line k, or behind a part.
UploadBroken ==
    /\ panel \in {"upload", "storing"}
    /\ \/ UNCHANGED cmdFile
       \/ panel = "upload" /\ \E k \in body : cmdFile' \in Stored(k)
    /\ EndRequest(FALSE)
    /\ left' = 0
    /\ UNCHANGED <<oldest, mod, history, bounds, filesKind>>

\* upload_file reads the file back: a mod that has emptied it is an error.
UploadVerified ==
    /\ panel = "verify"
    /\ \E answered \in BOOLEAN : EndRequest(answered /\ cmdFile = Whole(body))
    /\ UNCHANGED <<oldest, left, cmdFile, mod, history, bounds, filesKind>>

\* The process dies within a request, or within save_queue (torn queue file).
PanelCrash(torn) ==
    /\ crashes < MaxCrashes
    /\ IF torn THEN panel = "idle" ELSE panel # "idle"
    /\ crashes' = crashes + 1
    /\ panel' = "idle" /\ serving' = 0 /\ body' = {} /\ left' = 0
    /\ oldest' = IF torn THEN Len(jobs) + 1 ELSE oldest
    /\ UNCHANGED <<jobs, cmdFile, mod, history, restarts, filesKind>>
-----------------------------------------------------------------------------
(* The mod. *)

\* pollPanelCommand up to the clear: nothing is read of a disabled wipe.
PollRead ==
    /\ WipeEnabled /\ jvm = "idle" /\ cmdFile # {}
    /\ todo' = cmdFile
    /\ jvm' = "read"
    /\ UNCHANGED <<queue, request, cmdFile, seen, history, bounds, filesKind>>

\* "clear file so we do not re-run"
PollClear ==
    /\ jvm = "read"
    /\ cmdFile' = {}
    /\ jvm' = "apply"
    /\ UNCHANGED <<queue, request, todo, seen, history, bounds, filesKind>>

\* Mutant: the nonces are forgotten.
NeverSeen(l) == FALSE

FirstLine(l) == l \in todo /\ \A other \in todo : l.id <= other.id
SeenBefore(l) == l \in seen

\* applyPanelLine: note the nonce and start a sweep, or do nothing.
ApplyLine(l) ==
    /\ jvm = "apply" /\ FirstLine(l)
    /\ IF l.cut = "junk" \/ SeenBefore(l)
       THEN UNCHANGED <<seen, sweeps>>
       ELSE /\ seen' = seen \cup {l}
            /\ sweeps' = Append(sweeps, l)
    /\ todo' = todo \ {l}
    /\ jvm' = IF todo = {l} THEN "idle" ELSE "apply"
    /\ UNCHANGED <<queue, request, cmdFile, earlier, forgotten, lost, bounds, filesKind>>

InGame == Len(SelectSeq(sweeps, LAMBDA l : l = NoLine))

\* onClientCommand "TriggerCityWipe" of an administrator.
ClientTrigger ==
    /\ jvm = "idle" /\ InGame < MaxInGame
    /\ WipeEnabled
    /\ sweeps' = Append(sweeps, NoLine)
    /\ UNCHANGED <<queue, request, cmdFile, mod, earlier, forgotten, lost, bounds, filesKind>>

\* "TriggerCityWipeBatch": the flag is not looked at.
ClientBatch(n) ==
    /\ jvm = "idle" /\ InGame + n <= MaxInGame
    /\ sweeps' = sweeps \o [i \in 1 .. n |-> NoLine]
    /\ UNCHANGED <<queue, request, cmdFile, mod, earlier, forgotten, lost, bounds, filesKind>>

\* The list of sweeps and the nonces live in the JVM only.
JvmStop ==
    /\ jvm # "down" /\ restarts < MaxRestarts
    /\ jvm' = "down" /\ todo' = {} /\ seen' = {}
    /\ earlier' = earlier \cup {sweeps[n].id : n \in DOMAIN sweeps}
    /\ sweeps' = <<>>
    /\ restarts' = restarts + 1
    /\ UNCHANGED <<queue, request, cmdFile, forgotten, lost, crashes, filesKind>>

JvmStart ==
    /\ jvm = "down"
    /\ jvm' = "idle"
    /\ UNCHANGED <<queue, request, cmdFile, todo, seen, history, bounds, filesKind>>
-----------------------------------------------------------------------------
Next ==
    \/ \E upload \in BOOLEAN : Trigger(upload)
    \/ ClearQueue
    \/ WriteLocalCmd
    \/ UploadStored
    \/ StorePart
    \/ StoreRest
    \/ UploadBroken
    \/ UploadVerified
    \/ \E torn \in BOOLEAN : PanelCrash(torn)
    \/ PollRead
    \/ PollClear
    \/ \E l \in todo : ApplyLine(l)
    \/ ClientTrigger
    \/ \E n \in 1 .. MaxInGame : ClientBatch(n)
    \/ JvmStop
    \/ JvmStart

Spec == Init /\ [][Next]_vars
-----------------------------------------------------------------------------
(* Properties. *)

ProfileOK == filesKind \in {"remote", "local"}

StateOK ==
    /\ jobs \in Seq(Statuses) /\ oldest \in 1 .. Len(jobs) + 1
    /\ panel \in {"idle", "write", "upload", "storing", "verify"}
    /\ body \subseteq DOMAIN jobs /\ serving \in body \cup {0}
    /\ left \in Nat /\ (panel = "write" => left > 0)
    /\ cmdFile \subseteq Line(DOMAIN jobs)
    /\ jvm \in {"idle", "read", "apply", "down"}
    /\ todo \subseteq Line(DOMAIN jobs) /\ seen \subseteq Line(DOMAIN jobs)
    /\ sweeps \in Seq(Line(Nat)) /\ earlier \subseteq Nat
    /\ forgotten \subseteq DOMAIN jobs /\ lost \subseteq Nat
    /\ restarts \in Nat /\ crashes \in Nat

\* Every variable stays in its type; lines and nonces name jobs that exist.
TypeOK == ProfileOK /\ StateOK

\* The sweep was asked for by a whole line of the panel.
ByLine(sweep) == sweep.id # 0 /\ sweep.cut = "whole"

(***************************************************************************)
(* In one life of the JVM the panel's wipes start in the order they were   *)
(* triggered, and each at most once, although every trigger sends all the  *)
(* queued lines again (_seenNonces, cmd_body_from_jobs).  Two things the   *)
(* code does are excepted: a torn line has a nonce of its own and starts   *)
(* beside the whole one (ByLine), and a wipe at or before the hole of a    *)
(* store the mod emptied half-way may be overtaken (lost), not repeated.   *)
(***************************************************************************)
StartsInOrder ==
    \A m, n \in DOMAIN sweeps :
        m < n /\ ByLine(sweeps[m]) /\ ByLine(sweeps[n])
            => \/ sweeps[m].id < sweeps[n].id
               \/ sweeps[m].id # sweeps[n].id /\ sweeps[n].id \in lost

(***************************************************************************)
(* A cleared queue stays cleared: once the empty file was stored, a wipe   *)
(* that was queued then, and that the mod had not read yet, never starts,  *)
(* whatever is triggered, restarted or torn afterwards (clear_queue).      *)
(***************************************************************************)
ClearHolds ==
    [][\A n \in DOMAIN sweeps' \ DOMAIN sweeps : sweeps'[n].id \notin forgotten]_vars

(***************************************************************************)
(* "clear file so we do not re-run" (AdminToolsServer.lua:126): no wipe is *)
(* run again.  With restarts this fails: the line is still queued in the   *)
(* panel, goes out with the next trigger, and no JVM remembers it.  (On a  *)
(* local profile the second write of one request can do the same.)         *)
(***************************************************************************)
NeverReRun ==
    \A n \in DOMAIN sweeps : sweeps[n].id = 0 \/ sweeps[n].id \notin earlier

(***************************************************************************)
(* "City wipe disabled by Config" (AdminToolsServer.lua:28): with the flag *)
(* off no sweep starts.  It fails for the batch command.                   *)
(***************************************************************************)
DisabledMeansNoWipe == ~ WipeEnabled => sweeps = <<>>
=============================================================================
