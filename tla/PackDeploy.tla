----------------------------- MODULE PackDeploy -----------------------------
(***************************************************************************)
(* Mods on their way to the game's host: several folders as they are, a    *)
(* pack compiled from several, or the panel's own bridge mod, and then     *)
(* their ids in the Mods= line of the host's world.ini.  A request holds   *)
(* the event loop from start to end; beside it a thread that downloads     *)
(* from the Workshop puts new folders in place of the ones being sent, and *)
(* the hoster edits the ini.  A host may cut a file short and say nothing. *)
(***************************************************************************)
EXTENDS Integers, Sequences, FiniteSetsExt

CONSTANTS
    Mods,       \* ids of the mods found by the scan
    Bridge,     \* the panel's own bridge mod, one of them
    Pack,       \* id of the compiled pack
    Contents,   \* the files a folder may hold
    Protected,  \* those under a path that is never uploaded (Saves, WorldDictionary)
    Clashes,    \* pairs of mods with a tile number, a texture or a Lua event in common
    MaxUpsets,  \* bound: folders replaced by a download and edits of the ini by the hoster
    MaxDeploys  \* bound: requests

VARIABLES
    fileKind,   \* the profile's way to the host: "ftp", "sftp" or "local"
    shelf,      \* the folders on the panel's disk: versions of files, 0 is none
    host,       \* the same on the host, where a file can also be Short
    ini,        \* world.ini on the host: the ids of Mods= and the hoster's revision
    seenIni,    \* the content remembered for host_conflict
    job,        \* the request under way
    excused,    \* history: files swapped, or cut short unseen, since it began
    tally       \* counters of the bounded events

deployVars == <<fileKind, shelf, host, ini, seenIni, job, excused, tally>>

Folders == Mods \cup {Pack}
Short == -1
Unseen == [ids |-> {}, rev |-> -1]

(***************************************************************************)
(* A request: mode, whether the ini is wanted, folders to send, files of   *)
(* the first one left, the one in hand with the hash taken of it, what     *)
(* became of the others, rows that went well, an error somewhere, and the  *)
(* ini as it was read.                                                     *)
(***************************************************************************)
Rest == [pc |-> "idle", mode |-> "none", upd |-> FALSE, todo |-> <<>>, files |-> {},
         hand |-> {}, hash |-> 0, moved |-> {}, good |-> {}, bad |-> FALSE, ini |-> Unseen]

DeployInit ==
    /\ fileKind \in {"ftp", "sftp", "local"}
    /\ shelf = [d \in Folders |-> [f \in Contents |-> IF d = Pack THEN 0 ELSE 1]]
    /\ host = [d \in Folders |-> [f \in Contents |-> 0]]
    /\ ini = [ids |-> {}, rev |-> 0] /\ seenIni = Unseen
    /\ job = Rest
    /\ excused = {}
    /\ tally = [upsets |-> 0, deploys |-> 0]

Present(d) == {f \in Contents : shelf[d][f] # 0}

\* scan_mods: folders with a mod.info; a request for others is refused.
Found == {d \in Mods : Present(d) # {}}

\* detect_conflicts, over the mods that were asked for.
Conflicts(wanted) == {c \in Clashes : c \subseteq Range(wanted)}

Here == Head(job.todo)

\* A step of the request that changes only the request.
Steps(next) == job' = next /\ UNCHANGED <<fileKind, shelf, host, ini, seenIni, excused, tally>>
-----------------------------------------------------------------------------
(* What happens beside a request. *)

\* A download puts a newer copy of the mod in place, perhaps with a file less.
Swap(d) ==
    /\ tally.upsets < MaxUpsets
    /\ tally' = [tally EXCEPT !.upsets = @ + 1]
    /\ \E gone \in SUBSET Contents :
          shelf' = [shelf EXCEPT ![d] = [f \in Contents |-> IF f \in gone THEN 0 ELSE 2]]
    /\ excused' = excused \cup {d} \X Contents
    /\ UNCHANGED <<fileKind, host, ini, seenIni, job>>

\* The hoster changes a setting, or empties the list.
HosterEdits ==
    /\ tally.upsets < MaxUpsets
    /\ tally' = [tally EXCEPT !.upsets = @ + 1]
    /\ \E ids \in {ini.ids, {}} : ini' = [ids |-> ids, rev |-> ini.rev + 1]
    /\ UNCHANGED <<fileKind, shelf, host, seenIni, job, excused>>
-----------------------------------------------------------------------------
(* Requests and the compiler. *)

Ask(mode, pc, todo, upd) ==
    /\ job.pc \in {"idle", "ok", "failed"} /\ tally.deploys < MaxDeploys
    /\ job' = [Rest EXCEPT !.pc = pc, !.mode = mode, !.todo = todo, !.upd = upd]
    /\ excused' = {}
    /\ tally' = [tally EXCEPT !.deploys = @ + 1]
    /\ UNCHANGED <<fileKind, shelf, host, ini, seenIni>>

\* deploy_mods_as_is; wanted keeps its order and has no repeats.
DeployAsIs(wanted, upd) == Range(wanted) \subseteq Found /\ Ask("asis", "folder", wanted, upd)

\* compile_pack.
Compile(wanted, upd) == Range(wanted) \subseteq Found /\ Ask("pack", "build", wanted, upd)

\* install_mod of the bridge's own mod.
InstallMod(upd) == Ask("install", "folder", <<Bridge>>, upd)

\* With fail_on_conflict a conflict ends it before anything is written.
CompileRefused ==
    job.pc = "build" /\ Conflicts(job.todo) # {} /\ Steps([job EXCEPT !.pc = "failed"])

\* compile_unified_pack: the old output goes, the mods are laid over each other.
LaidOver(wanted) ==
    [f \in Contents |->
        LET has == {i \in DOMAIN wanted : shelf[wanted[i]][f] # 0}
        IN  IF has = {} THEN 0 ELSE shelf[wanted[Max(has)]][f]]

\* A local profile has nowhere to send a pack to.
Build ==
    /\ job.pc = "build"
    /\ shelf' = [shelf EXCEPT ![Pack] = LaidOver(job.todo)]
    /\ job' = [job EXCEPT !.pc = IF fileKind = "local" THEN "failed" ELSE "folder",
                          !.todo = <<Pack>>]
    /\ UNCHANGED <<fileKind, host, ini, seenIni, excused, tally>>
-----------------------------------------------------------------------------
(* One folder. *)

\* A row of the answer: the folder was sent, or not.
Row(sent) == [job EXCEPT !.pc = "folder", !.todo = Tail(@), !.files = {}, !.hand = {}, !.moved = {},
                         !.good = IF sent THEN @ \cup {Here} ELSE @, !.bad = @ \/ ~ sent]

\* The files are listed once; a folder that is gone is an error of its row.
OpenFolder ==
    /\ job.pc = "folder" /\ job.todo # <<>>
    /\ Steps(IF Present(Here) = {} THEN Row(FALSE)
             ELSE [job EXCEPT !.pc = "file", !.files = Present(Here)])

\* The connection breaks or a local copy fails: nothing more of this folder.
FolderFails == job.pc \in {"file", "put"} /\ Steps(Row(FALSE))

\* _copy_mod_local, _install_local: copytree over what is there.
CopyLocal(f) ==
    /\ job.pc = "file" /\ fileKind = "local" /\ f \in job.files
    /\ host' = [host EXCEPT ![Here][f] = IF shelf[Here][f] = 0 THEN @ ELSE shelf[Here][f]]
    /\ job' = [job EXCEPT !.files = @ \ {f}, !.moved = @ \cup {"sent"}]
    /\ UNCHANGED <<fileKind, shelf, ini, seenIni, excused, tally>>

\* sync_modpack before an upload: gone meanwhile, protected, or the same on the host.
Skips(f) == shelf[Here][f] = 0 \/ f \in Protected \/ host[Here][f] = shelf[Here][f]

Look(f) ==
    /\ job.pc = "file" /\ fileKind # "local" /\ f \in job.files
    /\ Steps(IF Skips(f)
             THEN [job EXCEPT !.files = @ \ {f},
                              !.moved = IF shelf[Here][f] = 0 THEN @ ELSE @ \cup {"skipped"}]
             ELSE [job EXCEPT !.files = @ \ {f}, !.pc = "put", !.hand = {f}, !.hash = shelf[Here][f]])

\* Mutant: sftp believes the host as ftp does.
NotesBlindly(stored) == "sent"

\* Sftp reads the file back and compares; ftp has no more than the host's word.
Notes(stored) == IF fileKind = "sftp" /\ stored # job.hash THEN "error" ELSE "sent"

\* The upload: what the host then has, and what is noted.
Put(f, stored) ==
    /\ job.pc = "put" /\ f \in job.hand
    /\ stored \in {shelf[Here][f], Short} \ {0}
    /\ host' = [host EXCEPT ![Here][f] = stored]
    /\ job' = [job EXCEPT !.pc = "file", !.hand = {}, !.moved = @ \cup {Notes(stored)}]
    /\ excused' = IF fileKind = "ftp" /\ stored = Short
                  THEN excused \cup {<<Here, f>>} ELSE excused
    /\ UNCHANGED <<fileKind, shelf, ini, seenIni, tally>>

\* An upload that fails is an error of the file; the others still go.
PutFails(f, left) ==
    /\ job.pc = "put" /\ f \in job.hand
    /\ left \in {host[Here][f], Short}
    /\ host' = [host EXCEPT ![Here][f] = left]
    /\ job' = [job EXCEPT !.pc = "file", !.hand = {}, !.moved = @ \cup {"error"}]
    /\ UNCHANGED <<fileKind, shelf, ini, seenIni, excused, tally>>

(***************************************************************************)
(* The folder is through.  An error of one file fails its row, and so does *)
(* a folder of which nothing was left to send; an installed bridge mod     *)
(* must have been uploaded, so one that was already there counts as none.  *)
(***************************************************************************)
Sent == /\ "error" \notin job.moved
        /\ IF job.mode = "install" THEN "sent" \in job.moved ELSE job.moved # {}

CloseFolder == job.pc = "file" /\ job.files = {} /\ Steps(Row(Sent))
-----------------------------------------------------------------------------
(* The ini, and the answer. *)

\* Whoever wants the ini: as it is for rows that went well, a pack that went
\* well, and the bridge mod in any case, but for a local one in no case.
WantsIni ==
    /\ job.upd
    /\ IF job.mode = "install" THEN fileKind # "local" ELSE job.good # {}

Answer(bad) == IF bad \/ job.good = {} THEN "failed" ELSE "ok"

EndFolders ==
    /\ job.pc = "folder" /\ job.todo = <<>>
    /\ Steps(IF WantsIni THEN [job EXCEPT !.pc = "ini", !.ini = ini]
             ELSE [job EXCEPT !.pc = Answer(job.bad \/ (job.mode = "install" /\ fileKind = "local"))])

\* The ids to add: the rows that went well, or the bridge mod.
Added == IF job.mode = "install" THEN {Bridge} ELSE job.good

Extended == [ids |-> job.ini.ids \cup Added, rev |-> job.ini.rev]

Ends(bad) == [job EXCEPT !.pc = Answer(bad), !.ini = Unseen]

\* Nothing to add; a pack writes the ini all the same.
IniHasThem ==
    /\ job.pc = "ini" /\ job.mode # "pack" /\ Extended = job.ini
    /\ Steps(Ends(job.bad))

\* host_conflict, asked by _append_ids_to_remote_ini only: the host has changed since.
Clash ==
    /\ job.mode = "asis" /\ fileKind # "local"
    /\ seenIni # Unseen /\ job.ini # seenIni /\ Extended # job.ini

\* The ids are left out, the host's content is remembered, and the answer is good.
IniSkipped ==
    /\ job.pc = "ini" /\ Clash
    /\ seenIni' = job.ini
    /\ job' = Ends(job.bad)
    /\ UNCHANGED <<fileKind, shelf, host, ini, excused, tally>>

\* What was read, with the ids, over whatever is there now.
IniStored ==
    /\ job.pc = "ini" /\ ~ Clash
    /\ job.mode = "pack" \/ Extended # job.ini
    /\ ini' = Extended
    /\ seenIni' = IF job.mode = "asis" /\ fileKind # "local" THEN Extended ELSE seenIni
    /\ job' = Ends(job.bad)
    /\ UNCHANGED <<fileKind, shelf, host, excused, tally>>

\* Reading, storing or reading back fails: the ini is stored or not.
IniFails ==
    /\ job.pc = "ini"
    /\ ini' \in IF Clash THEN {ini} ELSE {ini, Extended}
    /\ job' = Ends(TRUE)
    /\ UNCHANGED <<fileKind, shelf, host, seenIni, excused, tally>>

Wanted == {<<d>> : d \in Mods} \cup {<<d, e>> : d, e \in Mods}

DeployNext ==
    \/ \E wanted \in {w \in Wanted : IsInjective(w)}, upd \in BOOLEAN :
          DeployAsIs(wanted, upd) \/ Compile(wanted, upd)
    \/ \E upd \in BOOLEAN : InstallMod(upd)
    \/ CompileRefused \/ Build \/ OpenFolder \/ FolderFails \/ CloseFolder \/ EndFolders
    \/ \E f \in Contents : CopyLocal(f) \/ Look(f)
    \/ \E f \in Contents, v \in {Short, 1, 2} : Put(f, v)
    \/ \E f \in Contents, v \in {Short, 0, 1, 2} : PutFails(f, v)
    \/ IniHasThem \/ IniSkipped \/ IniStored \/ IniFails
    \/ \E d \in Mods : Swap(d)
    \/ HosterEdits
-----------------------------------------------------------------------------
Inis == [ids : SUBSET Folders, rev : -1 .. MaxUpsets]

DeployTypeOK ==
    /\ fileKind \in {"ftp", "sftp", "local"}
    /\ shelf \in [Folders -> [Contents -> 0 .. 2]]
    /\ host \in [Folders -> [Contents -> Short .. 2]]
    /\ ini \in Inis /\ seenIni \in Inis
    /\ job \in [pc : {"idle", "build", "folder", "file", "put", "ini", "ok", "failed"},
                mode : {"none", "asis", "pack", "install"}, upd : BOOLEAN, todo : Seq(Folders),
                files : SUBSET Contents, hand : SUBSET Contents, hash : 0 .. 2,
                moved : SUBSET {"sent", "skipped", "error"}, good : SUBSET Folders,
                bad : BOOLEAN, ini : Inis]
    /\ job.pc \in {"file", "put"} => job.todo # <<>>
    /\ excused \subseteq Folders \X Contents
    /\ tally \in [upsets : 0 .. MaxUpsets, deploys : 0 .. MaxDeploys]

(***************************************************************************)
(* A deployment that answered "ok" is on the host as it is on the panel's  *)
(* disk: every file of every folder in it, with the content of the panel's *)
(* copy, whatever failed and was sent again before, except for files under *)
(* a protected path, files a download replaced meanwhile, and files an ftp *)
(* host cut short and called stored (sync_modpack, deploy_pack_to_server,  *)
(* deploy_mods_as_is, install_mod).                                        *)
(***************************************************************************)
DeployedIsWhole ==
    job.pc = "ok" =>
        \A d \in job.good : \A f \in Present(d) :
            \/ host[d][f] = shelf[d][f]
            \/ f \in Protected /\ fileKind # "local"
            \/ <<d, f>> \in excused
=============================================================================
