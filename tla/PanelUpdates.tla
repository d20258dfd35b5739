---------------------------- MODULE PanelUpdates ----------------------------
(***************************************************************************)
(* The panel updates itself.  On Windows a request downloads the installer *)
(* of the latest release, checks it against the published sums if they can *)
(* be read, and moves it into a folder, be it by a copy that can break     *)
(* off; another request starts one.  In a container a request puts the     *)
(* sources of a release over those of the project and builds it anew.      *)
(* Each request has a thread of its own, any number run side by side, and  *)
(* all of them write one record.                                           *)
(***************************************************************************)
EXTENDS PanelThreads

CONSTANTS
    MaxRelease,  \* bound: releases ever published
    MaxUps,      \* bound: downloads and rebuilds ever asked for
    MaxApplies   \* bound: installers ever started

VARIABLES
    installKind,  \* detect_install_kind: "windows_setup" or "docker"
    latest,       \* the version of the latest release
    summed,       \* releases whose sums are published
    current,      \* the version of the running panel
    updates,      \* the installer of each version in the folder: none, a part of
                  \* one, or a whole one
    upJob,        \* the record: phase and the version its path names, 0 for none
    ups,          \* the threads under way
    tree,         \* the sources of the project: the version of its parts
    \* history: versions whose installer was not compared with a sum when it was
    \* last moved in; those that two threads copied in at a time
    blind, entangled,
    upCounts      \* counters of the bounded events

upVars == <<installKind, latest, summed, current, updates, upJob, ups, tree, blind,
            entangled, upCounts>>

Versions == 1 .. MaxRelease

UpInit ==
    /\ installKind \in {"windows_setup", "docker"}
    /\ latest = 1 /\ summed = {1} /\ current = 1
    /\ updates = [v \in Versions |-> "none"]
    /\ upJob = [phase |-> "idle", ver |-> 0]
    /\ ups = <<>>
    /\ tree = [panel |-> 1, tools |-> 1]
    /\ blind = {} /\ entangled = {}
    /\ upCounts = [asks |-> 0, applies |-> 0]

\* A release is published, with sums or without.
Publish ==
    /\ latest < MaxRelease
    /\ latest' = latest + 1
    /\ summed' \in {summed, summed \cup {latest'}}
    /\ UNCHANGED <<installKind, current, updates, upJob, ups, tree, blind, entangled,
                   upCounts>>

At(n, stage) == ups[n].stage = stage

Goes(n, t) == ups' = [ups EXCEPT ![n] = t]

\* The last words of thread n; an error leaves the path in the record as it is.
Ends(n, phase, ver) ==
    /\ ups' = RemoveAt(ups, n)
    /\ upJob' = [phase |-> phase, ver |-> ver]

Asked(stage) ==
    /\ upCounts.asks < MaxUps
    /\ upCounts' = [upCounts EXCEPT !.asks = @ + 1]
    /\ ups' = Append(ups, [stage |-> stage, ver |-> 0, sum |-> FALSE, whole |-> FALSE])
    /\ UNCHANGED <<installKind, latest, summed, current, updates, upJob, tree, blind, entangled>>

Fails(n) ==
    /\ Ends(n, "error", upJob.ver)
    /\ UNCHANGED <<installKind, latest, summed, current, updates, tree, blind, entangled, upCounts>>
-----------------------------------------------------------------------------
(* Windows. *)

Download == installKind = "windows_setup" /\ Asked("check")

(***************************************************************************)
(* check_for_updates with force, then the first entry of the record.  Sums *)
(* that are not published and sums that cannot be read are the same.       *)
(***************************************************************************)
Check(n) ==
    /\ At(n, "check")
    /\ \E sum \in BOOLEAN :
          /\ sum => latest \in summed
          /\ Goes(n, [ups[n] EXCEPT !.stage = "fetch", !.ver = latest, !.sum = sum])
    /\ upJob' = [phase |-> "download", ver |-> latest]
    /\ UNCHANGED <<installKind, latest, summed, current, updates, tree, blind, entangled, upCounts>>

\* Chunks until there are no more, into a file of the thread's own; a
\* connection that ends early looks like the end of the file.
Fetch(n) ==
    /\ At(n, "fetch")
    /\ \E whole \in BOOLEAN : Goes(n, [ups[n] EXCEPT !.stage = "compare", !.whole = whole])
    /\ UNCHANGED <<installKind, latest, summed, current, updates, upJob, tree, blind,
                   entangled, upCounts>>

\* Mutant: a sum is looked for and not compared.
PassesAll(t) == TRUE

\* No sum, or the sum of what was fetched.
Passes(t) == t.sum => t.whole

Checked(t) == IF t.sum THEN blind \ {t.ver} ELSE blind \cup {t.ver}

\* What a thread moves in when nothing goes wrong.
Fetched(t) == IF t.whole THEN "whole" ELSE "part"

\* shutil.move renames when there is no file of that name and one volume.
MoveIn(n) ==
    /\ At(n, "compare") /\ Passes(ups[n]) /\ updates[ups[n].ver] = "none"
    /\ updates' = [updates EXCEPT ![ups[n].ver] = Fetched(ups[n])]
    /\ blind' = Checked(ups[n])
    /\ Ends(n, "ready", ups[n].ver)
    /\ UNCHANGED <<installKind, latest, summed, current, tree, entangled, upCounts>>

(***************************************************************************)
(* Otherwise it copies: the file that is there is emptied and written in   *)
(* place.  What two copies at a time leave may be neither's.               *)
(***************************************************************************)
Copying(v) == \E m \in DOMAIN ups : At(m, "copy") /\ ups[m].ver = v

CopyBegins(n) ==
    /\ At(n, "compare") /\ Passes(ups[n])
    /\ updates' = [updates EXCEPT ![ups[n].ver] = "part"]
    /\ blind' = Checked(ups[n])
    /\ entangled' = IF Copying(ups[n].ver) THEN entangled \cup {ups[n].ver}
                    ELSE entangled \ {ups[n].ver}
    /\ Goes(n, [ups[n] EXCEPT !.stage = "copy"])
    /\ UNCHANGED <<installKind, latest, summed, current, upJob, tree, upCounts>>

CopyEnds(n) ==
    /\ At(n, "copy")
    /\ \E left \in {Fetched(ups[n])} \cup
                   (IF ups[n].ver \in entangled THEN {"part", "whole"} ELSE {}) :
          updates' = [updates EXCEPT ![ups[n].ver] = left]
    /\ Ends(n, "ready", ups[n].ver)
    /\ UNCHANGED <<installKind, latest, summed, current, tree, blind, entangled, upCounts>>

\* A copy that breaks off leaves what it has written.
DownloadFails(n) ==
    At(n, "check") \/ At(n, "fetch") \/ At(n, "copy") \/ (At(n, "compare") /\ ~ Passes(ups[n]))

There == {v \in Versions : updates[v] # "none"}

(***************************************************************************)
(* apply_downloaded_setup: the file it is given, or the one the record     *)
(* names, and when there is none, because its download failed or is still  *)
(* under way, the newest one in the folder, of whatever version.  A moved  *)
(* file keeps the time of its fetch, so any may be the newest.             *)
(***************************************************************************)
Target(v, path) == v \in There /\ (path \in There => v = path)

\* The installer is started; a whole one replaces the panel, which ends with it.
Apply(v, given) ==
    /\ installKind = "windows_setup" /\ upCounts.applies < MaxApplies
    /\ Target(v, IF given = 0 THEN upJob.ver ELSE given)
    /\ upCounts' = [upCounts EXCEPT !.applies = @ + 1]
    /\ IF updates[v] = "whole"
       THEN current' = v /\ ups' = <<>> /\ upJob' = [phase |-> "idle", ver |-> 0]
       ELSE UNCHANGED <<current, ups>> /\ upJob' = [phase |-> "launched", ver |-> v]
    /\ UNCHANGED <<installKind, latest, summed, updates, tree, blind, entangled>>
-----------------------------------------------------------------------------
(* Docker. *)

Rebuild == installKind = "docker" /\ Asked("tag")

\* The tag of the latest release, unless it is older than what runs.
ReadTag(n) ==
    /\ At(n, "tag") /\ latest >= current
    /\ Goes(n, [ups[n] EXCEPT !.stage = "panel", !.ver = latest])
    /\ upJob' = [phase |-> "download", ver |-> 0]
    /\ UNCHANGED <<installKind, latest, summed, current, updates, tree, blind, entangled, upCounts>>

\* _copy_tree of panel/, then of tools/ and the rest.
After == [panel |-> "tools", tools |-> "build"]

Sync(n) ==
    /\ ups[n].stage \in DOMAIN After
    /\ tree' = [tree EXCEPT ![ups[n].stage] = ups[n].ver]
    /\ Goes(n, [ups[n] EXCEPT !.stage = After[@]])
    /\ upJob' = [upJob EXCEPT !.phase = "sync"]
    /\ UNCHANGED <<installKind, latest, summed, current, updates, blind, entangled, upCounts>>

\* docker compose up: what lies in the project now becomes the panel.
Build(n) ==
    /\ At(n, "build")
    /\ current' = tree.panel
    /\ ups' = <<>> /\ upJob' = [phase |-> "idle", ver |-> 0]
    /\ UNCHANGED <<installKind, latest, summed, updates, tree, blind, entangled, upCounts>>

RebuildFails(n) == At(n, "tag") \/ At(n, "panel") \/ At(n, "tools") \/ At(n, "build")

UpNext ==
    \/ Publish \/ Download \/ Rebuild
    \/ \E v \in Versions, given \in 0 .. MaxRelease : Apply(v, given)
    \/ \E n \in DOMAIN ups :
          \/ Check(n) \/ Fetch(n) \/ MoveIn(n) \/ CopyBegins(n) \/ CopyEnds(n)
          \/ ReadTag(n) \/ Sync(n) \/ Build(n)
          \/ (DownloadFails(n) \/ RebuildFails(n)) /\ Fails(n)
-----------------------------------------------------------------------------
UpTypeOK ==
    /\ installKind \in {"windows_setup", "docker"}
    /\ latest \in Versions /\ summed \subseteq Versions /\ current \in Versions
    /\ updates \in [Versions -> {"none", "part", "whole"}]
    /\ upJob \in [phase : {"idle", "download", "ready", "launched", "sync", "error"},
                 ver : 0 .. MaxRelease]
    /\ ups \in Seq([stage : {"check", "fetch", "compare", "copy", "tag", "panel", "tools",
                             "build"},
                    ver : 0 .. MaxRelease, sum : BOOLEAN, whole : BOOLEAN])
    /\ tree \in [panel : Versions, tools : Versions]
    /\ blind \subseteq Versions /\ entangled \subseteq Versions
    /\ upCounts \in [asks : 0 .. MaxUps, applies : 0 .. MaxApplies]

(***************************************************************************)
(* While the record says "ready" the installer it names is in the folder   *)
(* and whole, whatever downloads run side by side, fail or break off: but  *)
(* for one that no sum could be compared with, one that another thread is  *)
(* copying over at that moment, and one that two threads copied at a time  *)
(* (download_latest_setup).                                                *)
(***************************************************************************)
ReadyIsWhole ==
    upJob.phase = "ready" =>
        \/ updates[upJob.ver] = "whole"
        \/ upJob.ver \in There /\ (upJob.ver \in blind \cup entangled \/ Copying(upJob.ver))
=============================================================================
