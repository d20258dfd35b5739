----------------------------- MODULE ChunkWipe ------------------------------
(***************************************************************************)
(* The wipe of one cell of the map: each chunk file of it under the        *)
(* panel's copies of the world is copied into a folder of the wipe,        *)
(* deleted, and deleted on the host.  Each request runs in a thread of its *)
(* own, so two of them work on the same files; the games and a pull write  *)
(* the files meanwhile.  A folder is named after the second and the cell,  *)
(* and a file in it after the file alone.                                  *)
(***************************************************************************)
EXTENDS Integers, FiniteSets

CONSTANTS
    Copies,     \* chunk files of the cell that there may be under the local roots
    NameOf,     \* the name of such a file, without its folders
    RemoteOf,   \* its path on the host: that under the root it was found in
    Requests,   \* wipes that may run side by side
    MaxSecond,  \* bound: seconds told apart
    MaxWipes,   \* bound: wipes asked for
    MaxSaves    \* bound: chunk files written by a game or a pull

VARIABLES
    disk,     \* the copies that exist
    saved,    \* the files on the host that exist
    backups,  \* what is in the folders of the wipes, whole or torn
    wipes,    \* the requests
    second,   \* the clock, by which folders are named
    spent     \* counters of the bounded events

chunkVars == <<disk, saved, backups, wipes, second, spent>>

Remotes == {RemoteOf[c] : c \in Copies}
Backup == [stamp : 1 .. MaxSecond, copy : Copies, whole : BOOLEAN]

(***************************************************************************)
(* A request: the files it listed, those still to visit, the one in hand,  *)
(* its folder, whether it reaches the host, an error noted; and, history,  *)
(* the files it answers for no more: written since, gone when their turn   *)
(* came, or with a backup that another copy was written into.              *)
(***************************************************************************)
NoWipe == [pc |-> "idle", listed |-> {}, todo |-> {}, hand |-> {}, stamp |-> 1,
           client |-> FALSE, errors |-> FALSE, loose |-> {}]

ChunkInit ==
    /\ disk \in {Copies, {}} /\ saved = Remotes
    /\ backups = {}
    /\ wipes = [w \in Requests |-> NoWipe]
    /\ second = 1
    /\ spent = [wipes |-> 0, saves |-> 0]

Loosened(some, stamps) ==
    [w \in Requests |-> IF wipes[w].stamp \in stamps
                        THEN [wipes[w] EXCEPT !.loose = @ \cup some] ELSE wipes[w]]
-----------------------------------------------------------------------------
(* A request. *)

Ask(w) ==
    /\ wipes[w].pc \in {"idle", "ok", "failed"} /\ spent.wipes < MaxWipes
    /\ spent' = [spent EXCEPT !.wipes = @ + 1]
    /\ wipes' = [wipes EXCEPT ![w] = [NoWipe EXCEPT !.pc = "list"]]
    /\ UNCHANGED <<disk, saved, backups, second>>

\* preview: the files of the cell under every root ...
Listed == disk

\* ... and a client for the host, which a local profile does not have.
Lists(w) ==
    /\ wipes[w].pc = "list"
    /\ \E reached \in BOOLEAN :
          wipes' = [wipes EXCEPT ![w] = [NoWipe EXCEPT
              !.pc = "row", !.listed = Listed, !.todo = Listed, !.stamp = second,
              !.client = reached, !.errors = ~ reached]]
    /\ UNCHANGED <<disk, saved, backups, second, spent>>

\* A file that another wipe deletes while it is listed ends the request.
ListFails(w) ==
    /\ wipes[w].pc = "list" /\ \E v \in Requests \ {w} : wipes[v].pc \in {"unlink", "remote"}
    /\ wipes' = [wipes EXCEPT ![w].pc = "failed"]
    /\ UNCHANGED <<disk, saved, backups, second, spent>>

Skips(w, c) ==
    /\ wipes[w].pc = "row" /\ c \in wipes[w].todo \ disk
    /\ wipes' = [wipes EXCEPT ![w].todo = @ \ {c}, ![w].loose = @ \cup {c}]
    /\ UNCHANGED <<disk, saved, backups, second, spent>>

\* The file went or cannot be opened, or its copy breaks off: not caught, and what
\* was done before stays done.
CopyFails(w) ==
    /\ wipes[w].pc \in {"row", "copy"} /\ (wipes[w].pc = "row" => wipes[w].todo # {})
    /\ wipes' = [wipes EXCEPT ![w].pc = "failed"]
    /\ UNCHANGED <<disk, saved, backups, second, spent>>

\* The backups that one of c in the folder of that second takes the place of.
Replaced(stamp, c) == {b \in backups : b.stamp = stamp /\ NameOf[b.copy] = NameOf[c]}

CopiesOf(some) == {b.copy : b \in some}

\* Another request has the same file of the same folder open for its copy.
Shared(w, c) ==
    \E v \in Requests \ {w} :
        /\ wipes[v].pc = "copy" /\ wipes[v].stamp = wipes[w].stamp
        /\ NameOf[c] \in {NameOf[d] : d \in wipes[v].hand}

\* copy2 of c is at that stage: every backup it writes over loses what it was.
BacksUp(w, c, whole, pc, lost) ==
    /\ backups' = (backups \ Replaced(wipes[w].stamp, c))
                       \cup {[stamp |-> wipes[w].stamp, copy |-> c, whole |-> whole]}
    /\ wipes' = [Loosened(lost, {wipes[w].stamp}) EXCEPT
           ![w] = [wipes[w] EXCEPT !.todo = @ \ {c}, !.hand = {c}, !.pc = pc,
                       !.loose = @ \cup (lost \ {c}) \cup IF Shared(w, c) THEN {c} ELSE {}]]
    /\ UNCHANGED <<disk, saved, second, spent>>

\* copy2 of c from the row on: the file of the name is emptied.
CopyBegins(w, c) ==
    /\ wipes[w].pc = "row" /\ c \in wipes[w].todo \cap disk
    /\ BacksUp(w, c, FALSE, "copy", CopiesOf(Replaced(wipes[w].stamp, c)))

\* copy2 ends; if it was not alone with the file, anything may be in it.
CopyEnds(w, c) ==
    /\ wipes[w].pc = "copy" /\ wipes[w].hand = {c}
    /\ LET lost == CopiesOf(Replaced(wipes[w].stamp, c)) \ ({c} \ wipes[w].loose)
       IN  \/ BacksUp(w, c, TRUE, "unlink", lost)
           \/ c \in wipes[w].loose
              /\ \E pc \in {"unlink", "failed"} : BacksUp(w, c, FALSE, pc, lost)

\* After the local file, that of the host, if it is reached.
Unlink(w) ==
    /\ wipes[w].pc = "unlink"
    /\ \E fails \in BOOLEAN :
          /\ wipes[w].hand \cap disk = {} => fails
          /\ disk' = IF fails THEN disk ELSE disk \ wipes[w].hand
          /\ wipes' = [wipes EXCEPT ![w].errors = @ \/ fails,
                                    ![w].pc = IF wipes[w].client THEN "remote" ELSE "row",
                                    ![w].hand = IF wipes[w].client THEN @ ELSE {}]
    /\ UNCHANGED <<saved, backups, second, spent>>

\* Mutant: what fails on the host is not noted.
ErrorsLocal(w, fails) == wipes[w].errors

ErrorsWith(w, fails) == wipes[w].errors \/ fails

\* delete_file: the host refuses a file it does not have; an answer may be lost.
Delete(w) ==
    /\ wipes[w].pc = "remote"
    /\ \E fails \in BOOLEAN :
          LET there == {RemoteOf[c] : c \in wipes[w].hand} \cap saved
          IN  /\ there = {} => fails
              /\ saved' \in IF fails THEN {saved, saved \ there} ELSE {saved \ there}
              /\ wipes' = [wipes EXCEPT ![w].errors = ErrorsWith(w, fails),
                                        ![w].pc = "row", ![w].hand = {}]
    /\ UNCHANGED <<disk, backups, second, spent>>

Answers(w) ==
    /\ wipes[w].pc = "row" /\ wipes[w].todo = {}
    /\ wipes' = [wipes EXCEPT ![w].pc = IF wipes[w].errors THEN "failed" ELSE "ok"]
    /\ UNCHANGED <<disk, saved, backups, second, spent>>
-----------------------------------------------------------------------------
(* What happens beside the requests. *)

SavesOne ==
    /\ spent.saves < MaxSaves
    /\ spent' = [spent EXCEPT !.saves = @ + 1]

\* A pull, or the game of the local test, writes a copy.
LocalSave(c) ==
    /\ SavesOne
    /\ disk' = disk \cup {c}
    /\ wipes' = Loosened({c}, 1 .. MaxSecond)
    /\ UNCHANGED <<saved, backups, second>>

\* The game on the host still has the chunk in memory and saves it again.
HostSave(r) ==
    /\ SavesOne
    /\ saved' = saved \cup {r}
    /\ wipes' = Loosened({c \in Copies : RemoteOf[c] = r}, 1 .. MaxSecond)
    /\ UNCHANGED <<disk, backups, second>>

ChunkTick ==
    /\ second < MaxSecond
    /\ second' = second + 1
    /\ UNCHANGED <<disk, saved, backups, wipes, spent>>

ChunkNext ==
    \/ \E w \in Requests : Ask(w) \/ Lists(w) \/ ListFails(w) \/ CopyFails(w) \/ Unlink(w)
                             \/ Delete(w) \/ Answers(w)
    \/ \E w \in Requests, c \in Copies : Skips(w, c) \/ CopyBegins(w, c) \/ CopyEnds(w, c)
    \/ \E c \in Copies : LocalSave(c)
    \/ \E r \in Remotes : HostSave(r)
    \/ ChunkTick

ChunkSpec == ChunkInit /\ [][ChunkNext]_chunkVars
-----------------------------------------------------------------------------
ChunkTypeOK ==
    /\ disk \subseteq Copies /\ saved \subseteq Remotes
    /\ backups \subseteq Backup
    /\ wipes \in [Requests -> [pc : {"idle", "list", "row", "copy", "unlink", "remote",
                                     "ok", "failed"},
                               listed : SUBSET Copies, todo : SUBSET Copies,
                               hand : SUBSET Copies, stamp : 1 .. MaxSecond, client : BOOLEAN,
                               errors : BOOLEAN, loose : SUBSET Copies]]
    /\ second \in 1 .. MaxSecond
    /\ spent \in [wipes : 0 .. MaxWipes, saves : 0 .. MaxSaves]

(***************************************************************************)
(* Of every file that a wipe listed and answered "ok" for, nothing is left *)
(* on the panel's disk or on the host, and its folder has the file whole,  *)
(* whatever a second wipe of the cell did beside it; except for files      *)
(* written again since they were listed, files that were gone before their *)
(* turn, and files whose backup another copy of the same name was written  *)
(* into (panel/wipe.py, apply).                                            *)
(***************************************************************************)
WipedIsGone ==
    \A w \in Requests : wipes[w].pc = "ok" =>
        \A c \in wipes[w].listed \ wipes[w].loose :
            /\ c \notin disk /\ RemoteOf[c] \notin saved
            /\ [stamp |-> wipes[w].stamp, copy |-> c, whole |-> TRUE] \in backups
=============================================================================
