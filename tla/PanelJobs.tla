----------------------------- MODULE PanelJobs -----------------------------
(***************************************************************************)
(* Jobs of the panel that run in threads of their own: SteamCMD is fetched *)
(* and updated, Workshop items are downloaded with it, and a panel is      *)
(* brought to another machine over ssh.  Each kind has one record, which   *)
(* the start of a job looks at and its thread writes; a step can fail and  *)
(* leave half of its work on the disk.                                     *)
(***************************************************************************)
EXTENDS PanelThreads, FiniteSets

CONSTANTS
    Items,       \* Workshop items
    NoMod,       \* a folder of mods/ that is not there
    ModsOf,      \* of each item: the names of its folders with a mod.info
    MaxJobs,     \* bound: threads ever started
    MaxJobDies   \* bound: deaths of the panel

VARIABLES
    flag,      \* _job["running"] of each kind
    phase,     \* _job["phase"], as far as it tells a result
    asked,     \* the items in the record of the download
    crew,      \* the threads under way
    steamcmd,  \* the binary: "none", "raw" before its update came through, "ready"
    content,   \* the folder of an item: "none", "bare" of any mod.info, or "mods"
    mods,      \* mods/: the item each folder there leads to
    vps,       \* the other machine: Docker, a listener on the port, the files
    jobCounts  \* counters of the bounded events

jobVars == <<flag, phase, asked, crew, steamcmd, content, mods, vps, jobCounts>>

Kinds == {"install", "download", "provision"}

Names == UNION {ModsOf[i] : i \in Items}

JobsInit ==
    /\ flag = [k \in Kinds |-> FALSE] /\ phase = [k \in Kinds |-> "idle"]
    /\ asked = {} /\ crew = <<>>
    /\ steamcmd = "none"
    /\ content = [i \in Items |-> "none"] /\ mods = [f \in Names |-> NoMod]
    /\ vps = [docker |-> FALSE, bound |-> FALSE, files |-> FALSE]
    /\ jobCounts = [starts |-> 0, dies |-> 0]

\* The flag goes up in the request that starts the thread.
Raised(k) == [flag EXCEPT ![k] = TRUE]

Starts(t) ==
    /\ jobCounts.starts < MaxJobs
    /\ jobCounts' = [jobCounts EXCEPT !.starts = @ + 1]
    /\ crew' = Append(crew, t)

\* Thread n goes on to the step next.
Goes(n, next) == crew' = [crew EXCEPT ![n].at = next] /\ UNCHANGED <<flag, phase>>

\* Thread n ends, with its last words in the record: the result, and not running.
Ends(n, result) ==
    LET k == crew[n].kind
    IN  /\ crew' = RemoveAt(crew, n)
        /\ flag' = [flag EXCEPT ![k] = FALSE]
        /\ phase' = [phase EXCEPT ![k] = result]

At(n, kind, at) == crew[n].kind = kind /\ crew[n].at = at
-----------------------------------------------------------------------------
(* SteamCMD. *)

\* detect_steamcmd: a file of that name will do.
Detected == steamcmd # "none"

StartInstall ==
    /\ ~ flag["install"] /\ ~ Detected
    /\ Starts([kind |-> "install", at |-> "fetch", todo |-> {}, errors |-> FALSE])
    /\ flag' = Raised("install")
    /\ phase' = [phase EXCEPT !["install"] = "starting"]
    /\ UNCHANGED <<asked, steamcmd, content, mods, vps>>

\* _download and _extract: the binary is there before the other files are.
Fetch(n) ==
    /\ At(n, "install", "fetch")
    /\ Goes(n, "extract") \/ Ends(n, "error")
    /\ UNCHANGED <<asked, steamcmd, content, mods, vps, jobCounts>>

Extract(n) ==
    /\ At(n, "install", "extract")
    /\ \/ steamcmd' = "raw" /\ Goes(n, "update")
       \/ steamcmd' \in {steamcmd, "raw"} /\ Ends(n, "error")
    /\ UNCHANGED <<asked, content, mods, vps, jobCounts>>

\* _self_update: a failure leaves a binary that counts as installed.
SelfUpdate(n) ==
    /\ At(n, "install", "update")
    /\ \/ steamcmd' = "ready" /\ Ends(n, "done")
       \/ UNCHANGED steamcmd /\ Ends(n, "error")
    /\ UNCHANGED <<asked, content, mods, vps, jobCounts>>
-----------------------------------------------------------------------------
(* Downloads. *)

\* list_local_workshop_items: a folder counts, whatever is in it.
Missing(ids) == {i \in ids : content[i] = "none"}

StartDownload(ids, missingOnly) ==
    LET todo == IF missingOnly THEN Missing(ids) ELSE ids
    IN  /\ ~ flag["download"] /\ todo # {}
        /\ Starts([kind |-> "download", at |-> "dirs", todo |-> todo, errors |-> FALSE])
        /\ flag' = Raised("download")
        /\ phase' = [phase EXCEPT !["download"] = "starting"]
        /\ asked' = todo
        /\ UNCHANGED <<steamcmd, content, mods, vps>>

\* The mirror's folders are made outside the try: a disk that refuses ends
\* the thread without a word, and the flag stays up.
MakeDirs(n) ==
    /\ At(n, "download", "dirs")
    /\ Goes(n, "resolve") \/ (crew' = RemoveAt(crew, n) /\ UNCHANGED <<flag, phase>>)
    /\ UNCHANGED <<asked, steamcmd, content, mods, vps, jobCounts>>

Resolve(n) ==
    /\ At(n, "download", "resolve")
    /\ IF Detected THEN Goes(n, "item") ELSE Ends(n, "error")
    /\ UNCHANGED <<asked, steamcmd, content, mods, vps, jobCounts>>

\* Mutant: the exit code of SteamCMD is believed.
RowByCode(code, folder) == code

\* A row is good if SteamCMD said so and there is a folder.
RowOk(code, folder) == code /\ folder # "none"

\* link_or_copy: under the bare name of the folder, in place of any other item's.
Linked(links, i) == [f \in Names |-> IF f \in links THEN i ELSE mods[f]]

(***************************************************************************)
(* download_mod, whose exit code does not tell whether the folder is there *)
(* or whole; install_workshop_item_into_mods when the code was 0: each     *)
(* folder with a mod.info, which a folder may be without.                  *)
(***************************************************************************)
Download(n, i, code, folder) ==
    /\ At(n, "download", "item") /\ i \in crew[n].todo
    /\ folder \in {content[i], "bare", "mods"}
    /\ content' = [content EXCEPT ![i] = folder]
    /\ mods' = IF code /\ folder = "mods" THEN Linked(ModsOf[i], i) ELSE mods
    /\ crew' = [crew EXCEPT ![n].todo = @ \ {i}, ![n].errors = @ \/ ~ RowOk(code, folder)]
    /\ UNCHANGED <<flag, phase, asked, steamcmd, vps, jobCounts>>

\* link_or_copy fails after it removed what was there: the batch is over.
LinkFails(n, i) ==
    /\ At(n, "download", "item") /\ i \in crew[n].todo
    /\ content' = [content EXCEPT ![i] = "mods"]
    /\ \E f \in ModsOf[i], links \in SUBSET ModsOf[i] :
          mods' = [Linked(links, i) EXCEPT ![f] = NoMod]
    /\ Ends(n, "error")
    /\ UNCHANGED <<asked, steamcmd, vps, jobCounts>>

\* on_progress: the record says "done" before anyone has looked at the errors.
BatchDone(n) ==
    /\ At(n, "download", "item") /\ crew[n].todo = {}
    /\ crew' = [crew EXCEPT ![n].at = "end"]
    /\ phase' = [phase EXCEPT !["download"] = "done"]
    /\ UNCHANGED <<flag, asked, steamcmd, content, mods, vps, jobCounts>>

DownloadEnds(n) ==
    /\ At(n, "download", "end")
    /\ Ends(n, IF crew[n].errors THEN "error" ELSE "done")
    /\ UNCHANGED <<asked, steamcmd, content, mods, vps, jobCounts>>
-----------------------------------------------------------------------------
(* Provisioning. *)

\* start_provision looks at the flag; only the thread will raise it.
StartProvision ==
    /\ ~ flag["provision"]
    /\ Starts([kind |-> "provision", at |-> "begin", todo |-> {}, errors |-> FALSE])
    /\ UNCHANGED <<flag, phase, asked, steamcmd, content, mods, vps>>

Begin(n) ==
    /\ At(n, "provision", "begin")
    /\ crew' = [crew EXCEPT ![n].at = "connect"]
    /\ flag' = Raised("provision")
    /\ phase' = [phase EXCEPT !["provision"] = "starting"]
    /\ UNCHANGED <<asked, steamcmd, content, mods, vps, jobCounts>>

\* A command over ssh or an upload fails: whatever was done stays done.
ProvisionFails(n) ==
    /\ crew[n].kind = "provision" /\ crew[n].at # "begin"
    /\ Ends(n, "error")
    /\ UNCHANGED <<asked, steamcmd, content, mods, vps, jobCounts>>

\* CONNECT, CHECK_ENV and PORT_CHECK: a port with a listener is refused, also
\* when it is the panel of an earlier attempt that listens.
Probe(n) ==
    /\ At(n, "provision", "connect") /\ ~ vps.bound
    /\ Goes(n, IF vps.docker THEN "files" ELSE "docker")
    /\ UNCHANGED <<asked, steamcmd, content, mods, vps, jobCounts>>

\* INSTALL_DOCKER and DEPLOY_FILES, with a new secret and password in .env.
InstallDocker(n) ==
    /\ At(n, "provision", "docker")
    /\ vps' = [vps EXCEPT !.docker = TRUE]
    /\ Goes(n, "files")
    /\ UNCHANGED <<asked, steamcmd, content, mods, jobCounts>>

DeployFiles(n) ==
    /\ At(n, "provision", "files")
    /\ vps' = [vps EXCEPT !.files = TRUE]
    /\ Goes(n, "up")
    /\ UNCHANGED <<asked, steamcmd, content, mods, jobCounts>>

\* DOCKER_UP, which may bring the container up and still fail.
DockerUp(n) ==
    /\ At(n, "provision", "up")
    /\ vps' = [vps EXCEPT !.bound = TRUE]
    /\ Goes(n, "health") \/ Ends(n, "error")
    /\ UNCHANGED <<asked, steamcmd, content, mods, jobCounts>>

HealthPoll(n) ==
    /\ At(n, "provision", "health") /\ vps.bound
    /\ Ends(n, "done")
    /\ UNCHANGED <<asked, steamcmd, content, mods, vps, jobCounts>>
-----------------------------------------------------------------------------
\* The panel dies with its threads and records; the disks stay as they are.
PanelEnds ==
    /\ jobCounts.dies < MaxJobDies
    /\ jobCounts' = [jobCounts EXCEPT !.dies = @ + 1]
    /\ flag' = [k \in Kinds |-> FALSE] /\ phase' = [k \in Kinds |-> "idle"]
    /\ asked' = {} /\ crew' = <<>>
    /\ UNCHANGED <<steamcmd, content, mods, vps>>

JobsNext ==
    \/ StartInstall \/ StartProvision \/ PanelEnds
    \/ \E ids \in SUBSET Items, missingOnly \in BOOLEAN : StartDownload(ids, missingOnly)
    \/ \E n \in DOMAIN crew :
          \/ Fetch(n) \/ Extract(n) \/ SelfUpdate(n)
          \/ MakeDirs(n) \/ Resolve(n) \/ BatchDone(n) \/ DownloadEnds(n)
          \/ \E i \in Items, code \in BOOLEAN, folder \in {"none", "bare", "mods"} :
                Download(n, i, code, folder)
          \/ \E i \in Items : LinkFails(n, i)
          \/ Begin(n) \/ ProvisionFails(n) \/ Probe(n) \/ InstallDocker(n) \/ DeployFiles(n)
          \/ DockerUp(n) \/ HealthPoll(n)
-----------------------------------------------------------------------------
(***************************************************************************)
(* Types; and of the kinds whose flag goes up in the request               *)
(* (start_install, start_download) no two threads run side by side.        *)
(***************************************************************************)
JobsTypeOK ==
    /\ flag \in [Kinds -> BOOLEAN]
    /\ phase \in [Kinds -> {"idle", "starting", "done", "error"}]
    /\ asked \subseteq Items /\ mods \in [Names -> Items \cup {NoMod}]
    /\ crew \in Seq([kind : Kinds, todo : SUBSET Items, errors : BOOLEAN,
                     at : {"fetch", "extract", "update", "dirs", "resolve", "item", "end",
                           "begin", "connect", "docker", "files", "up", "health"}])
    /\ steamcmd \in {"none", "raw", "ready"}
    /\ content \in [Items -> {"none", "bare", "mods"}]
    /\ vps \in [docker : BOOLEAN, bound : BOOLEAN, files : BOOLEAN]
    /\ jobCounts \in [starts : 0 .. MaxJobs, dies : 0 .. MaxJobDies]
    /\ \A n, m \in DOMAIN crew :
          crew[n].kind = crew[m].kind /\ crew[n].kind # "provision" => n = m

(***************************************************************************)
(* What a record calls done is done: SteamCMD came through its update; the *)
(* other machine has Docker, the files and a listener; and when a download *)
(* has also ended, every item asked for has a folder, and each name of its *)
(* mods leads to it, or to another item of the batch that has that name,   *)
(* whatever earlier jobs left half done and whoever was let in beside them *)
(* (_run_install, download_batch, _run_download, _run_provision).          *)
(***************************************************************************)
Leads(f) == mods[f] \in asked /\ f \in ModsOf[mods[f]] /\ content[mods[f]] = "mods"

DoneIsDone ==
    /\ phase["install"] = "done" => steamcmd = "ready"
    /\ phase["download"] = "done" /\ ~ flag["download"] => \A i \in asked :
          content[i] # "none" /\ (content[i] = "mods" => \A f \in ModsOf[i] : Leads(f))
    /\ phase["provision"] = "done" => vps.docker /\ vps.files /\ vps.bound
=============================================================================
