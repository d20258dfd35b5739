--------------------------- MODULE ServerProfiles ---------------------------
(***************************************************************************)
(* The profiles of the servers a panel serves: one file per profile, an    *)
(* index (servers.json) with their ids and the active one, and the         *)
(* preferences.  Handlers run one at a time on the event loop; every       *)
(* other thread that asks for the active server reconciles the index with  *)
(* the directory and may write it, between any two accesses of a handler.  *)
(* A file is truncated and then written, so who reads it meanwhile finds   *)
(* no JSON and takes it for empty.                                         *)
(*                                                                         *)
(* A profile stands for its own file; of its fields only what tells it     *)
(* from another of the same id is kept.  Its secrets lie in a file beside  *)
(* it that no delete removes; they are left out.                           *)
(***************************************************************************)
EXTENDS Naturals, Sequences, FiniteSets, SequencesExt

CONSTANTS
    Names,            \* the ids, in the order the directory is listed
    None,             \* no id
    EnvServer,        \* the profile the environment describes, or None
    Loop,             \* the thread of the event loop
    Workers,          \* other threads
    MaxEdits,         \* bound: requests that change profiles
    MaxCrashes        \* bound: crashes of the panel

Servers == ToSet(Names)
Threads == {Loop} \cup Workers

ASSUME ProfilesAssumption ==
    /\ Names \in Seq(Servers) /\ IsInjective(Names)
    /\ None \notin Servers /\ EnvServer \in Servers \cup {None}
    /\ Loop \notin Workers /\ MaxEdits \in Nat /\ MaxCrashes \in Nat

VARIABLES
    index,            \* servers.json
    disk,             \* per id, which profile lies in the directory (0: none)
    policy,           \* prefs.json: whose authority host_panel_wins follows
    thread,           \* what each thread is doing
    edits, crashes

vars == <<index, disk, policy, thread, edits, crashes>>

EmptyIndex == [active |-> None, ids |-> <<>>]

\* A list comprehension: the members of list that are in keep, in their order.
Kept(list, keep) ==
    LET upTo[n \in 0..Len(list)] ==
            IF n = 0 THEN <<>>
            ELSE IF list[n] \in keep THEN Append(upTo[n - 1], list[n])
            ELSE upTo[n - 1]
    IN upTo[Len(list)]

\* What profile_ids_on_disk lists.
OnDisk == Kept(Names, {s \in Servers : disk[s] # 0})

Idle == [pc |-> "idle", op |-> "use", server |-> None, copy |-> EmptyIndex]

\* lifespan reconciles before anything else runs.
Starting == [t \in Threads |-> IF t = Loop THEN [Idle EXCEPT !.op = "start", !.pc = "index"]
                               ELSE Idle]
Started == thread[Loop].op # "start"

Ops == {"start", "use", "list", "relist", "create", "patch", "activate", "delete", "replace",
        "succeed"}

\* Where a thread is when its next step writes the index.
WritePcs == {"write", "adopt", "append", "point", "cut"}
Pcs == WritePcs \cup {"idle", "index", "disk", "migrate", "prefs", "pick", "profile",
                      "reindex", "unlink"}

Init ==
    /\ disk \in {[s \in Servers |-> 0]} \cup
                {[s \in Servers |-> IF s = Head(Names) THEN MaxEdits + 2 ELSE 0]}
    /\ index = EmptyIndex /\ policy = None
    /\ thread = Starting
    /\ edits = 0 /\ crashes = 0
-----------------------------------------------------------------------------
(* Files. *)

Writing(t) == \E u \in Threads \ {t} : thread[u].pc \in WritePcs

\* load_index.
Readable(t) == {index} \cup (IF Writing(t) THEN {EmptyIndex} ELSE {})

\* Two writes at once may leave neither.
Written(t, value) ==
    index' \in {value} \cup
        (IF \E u \in Threads \ {t} : thread[u].pc \in WritePcs /\ thread[u].copy # value
         THEN {EmptyIndex} ELSE {})

Goto(t, pc) == thread' = [thread EXCEPT ![t].pc = pc]
GotoWith(t, pc, copy) == thread' = [thread EXCEPT ![t].pc = pc, ![t].copy = copy]

\* list_servers reconciles twice; a delete that activated another server lists.
Finish(t) ==
    thread' = [thread EXCEPT ![t] =
        CASE @.op = "list" -> [Idle EXCEPT !.op = "relist", !.pc = "index"]
          [] @.op = "succeed" -> [Idle EXCEPT !.op = "list", !.pc = "index"]
          [] OTHER -> Idle]

\* After ensure_migrated a create or a patch goes on.
GoOn(t) == IF thread[t].op \in {"create", "patch"} THEN Goto(t, "pick") ELSE Finish(t)
-----------------------------------------------------------------------------
(* active_id, ensure_migrated: any thread. *)

Use(t) ==
    /\ t # Loop /\ Started /\ thread[t].pc = "idle"
    /\ thread' = [thread EXCEPT ![t] = [Idle EXCEPT !.pc = "index"]]
    /\ UNCHANGED <<index, disk, policy, edits, crashes>>

ReadIndex(t) ==
    /\ thread[t].pc = "index"
    /\ \E copy \in Readable(t) : GotoWith(t, "disk", copy)
    /\ UNCHANGED <<index, disk, policy, edits, crashes>>

\* Mutant: an active id that is gone stays.
ReconciledKeeps(copy) ==
    IF OnDisk = <<>> THEN IF copy.ids = <<>> THEN copy ELSE EmptyIndex
    ELSE [copy EXCEPT !.ids = OnDisk]

\* What reconcile_index makes of the index it read.
Reconciled(copy) ==
    IF OnDisk = <<>> THEN IF copy.ids = <<>> THEN copy ELSE EmptyIndex
    ELSE [ids |-> OnDisk,
          active |-> IF copy.active \in ToSet(OnDisk) THEN copy.active ELSE Head(OnDisk)]

Reconcile(t) ==
    LET old == thread[t].copy
        new == Reconciled(old)
    IN /\ thread[t].pc = "disk"
       /\ \/ new # old /\ GotoWith(t, "write", new)
          \/ new = old /\ new.ids = <<>> /\ EnvServer # None /\ Goto(t, "migrate")
          \/ new = old /\ (new.ids # <<>> \/ EnvServer = None) /\ GoOn(t)
       /\ UNCHANGED <<index, disk, policy, edits, crashes>>

WriteReconciled(t) ==
    /\ thread[t].pc = "write"
    /\ Written(t, thread[t].copy)
    /\ IF thread[t].copy.ids = <<>> /\ EnvServer # None THEN Goto(t, "migrate") ELSE GoOn(t)
    /\ UNCHANGED <<disk, policy, edits, crashes>>

\* The first profile, from the environment.
Migrate(t) ==
    /\ thread[t].pc = "migrate"
    /\ disk' = [disk EXCEPT ![EnvServer] = MaxEdits + 1]
    /\ GotoWith(t, "adopt", [active |-> EnvServer, ids |-> <<EnvServer>>])
    /\ UNCHANGED <<index, policy, edits, crashes>>

Adopt(t) ==
    /\ thread[t].pc = "adopt"
    /\ Written(t, thread[t].copy)
    /\ policy' = EnvServer
    /\ GoOn(t)
    /\ UNCHANGED <<disk, edits, crashes>>
-----------------------------------------------------------------------------
(* Requests: the event loop. *)

Request(op, server, pc) ==
    /\ thread[Loop].pc = "idle"
    /\ edits < MaxEdits
    /\ edits' = edits + 1
    /\ thread' = [thread EXCEPT ![Loop] =
                     [pc |-> pc, op |-> op, server |-> server, copy |-> EmptyIndex]]
    /\ UNCHANGED <<index, disk, policy, crashes>>

List == Request("list", None, "index")
Create == Request("create", None, "index")
Patch(s) == Request("patch", s, "index")

\* load_profile: the profile must be there.
Activate(s) == disk[s] # 0 /\ Request("activate", s, "reindex")
Delete(s) == Request("delete", s, "reindex")

At(pc) == thread[Loop].pc = pc
Mine == thread[Loop]

\* Mutant: an id is free if the index does not have it.
FreeInIndex(s) == s \notin ToSet(index.ids)

\* The slug of the name, or the slug with a number: an id without a file.
FreeId(s) == disk[s] = 0

Pick ==
    /\ At("pick")
    /\ \/ Mine.op = "patch" /\ Goto(Loop, "profile")
       \/ /\ Mine.op = "create"
          /\ \E s \in Servers :
                /\ FreeId(s)
                /\ thread' = [thread EXCEPT ![Loop].pc = "profile", ![Loop].server = s]
       \/ /\ Mine.op = "create" /\ \A s \in Servers : ~ FreeId(s)
          /\ Finish(Loop)
    /\ UNCHANGED <<index, disk, policy, edits, crashes>>

\* A patch builds upon the profile of that id, if there is one.
WriteProfile ==
    /\ At("profile")
    /\ disk' = [disk EXCEPT ![Mine.server] =
                   IF Mine.op = "patch" /\ @ # 0 THEN @ ELSE edits]
    /\ Goto(Loop, "reindex")
    /\ UNCHANGED <<index, policy, edits, crashes>>

\* Mutant: an id that is there comes again.
WithAgain(ids, s) == Append(ids, s)

With(ids, s) == IF s \in ToSet(ids) THEN ids ELSE Append(ids, s)

Without(ids, s) == Kept(ids, Servers \ {s})

\* load_index again, and what becomes of the index read.
Reindex ==
    LET s == Mine.server IN
    /\ At("reindex")
    /\ \E read \in Readable(Loop) :
          \/ /\ Mine.op \in {"create", "patch"}
             /\ GotoWith(Loop, "append",
                    [ids |-> With(read.ids, s),
                     active |-> IF read.active = None THEN s ELSE read.active])
          \/ /\ Mine.op \in {"activate", "succeed"}
             /\ GotoWith(Loop, "point", [ids |-> With(read.ids, s), active |-> s])
          \/ /\ Mine.op = "delete"
             /\ IF s \notin ToSet(read.ids) \/ Len(read.ids) <= 1
                THEN Finish(Loop)
                ELSE LET left == Without(read.ids, s) IN
                     thread' = [thread EXCEPT ![Loop] =
                        [pc |-> "cut", server |-> s,
                         op |-> IF read.active = s THEN "replace" ELSE "delete",
                         copy |-> [ids |-> left, active |-> IF read.active = s
                                                  THEN Head(left) ELSE read.active]]]
    /\ UNCHANGED <<index, disk, policy, edits, crashes>>

WriteAppended ==
    /\ At("append")
    /\ Written(Loop, Mine.copy)
    /\ Finish(Loop)
    /\ UNCHANGED <<disk, policy, edits, crashes>>

WriteActive ==
    /\ At("point")
    /\ Written(Loop, Mine.copy)
    /\ Goto(Loop, "prefs")
    /\ UNCHANGED <<disk, policy, edits, crashes>>

\* After a delete the list follows.
SavePolicy ==
    /\ At("prefs")
    /\ policy' = Mine.server
    /\ Finish(Loop)
    /\ UNCHANGED <<index, disk, edits, crashes>>

WriteCut ==
    /\ At("cut")
    /\ Written(Loop, Mine.copy)
    /\ Goto(Loop, "unlink")
    /\ UNCHANGED <<disk, policy, edits, crashes>>

\* The file goes last; if its server was active the one that is now is activated,
\* unless it has no file.
Unlink ==
    LET next == Mine.copy.active IN
    /\ At("unlink")
    /\ disk' = [disk EXCEPT ![Mine.server] = 0]
    /\ thread' = [thread EXCEPT ![Loop] =
          IF Mine.op = "delete" THEN [Idle EXCEPT !.op = "list", !.pc = "index"]
          ELSE IF disk'[next] = 0 THEN Idle
          ELSE [Idle EXCEPT !.op = "succeed", !.server = next, !.pc = "reindex"]]
    /\ UNCHANGED <<index, policy, edits, crashes>>

\* All threads die and the panel starts again; a file that was being written may be empty.
Crash ==
    /\ crashes < MaxCrashes
    /\ crashes' = crashes + 1
    /\ thread' = Starting
    /\ index' \in {index} \cup
          (IF \E t \in Threads : thread[t].pc \in WritePcs THEN {EmptyIndex} ELSE {})
    /\ UNCHANGED <<disk, policy, edits>>
-----------------------------------------------------------------------------
Pass(t) == ReadIndex(t) \/ Reconcile(t) \/ WriteReconciled(t) \/ Migrate(t) \/ Adopt(t)

Handle ==
    \/ Pick \/ WriteProfile \/ Reindex \/ WriteAppended \/ WriteActive \/ SavePolicy
    \/ WriteCut \/ Unlink

Next ==
    \/ \E t \in Threads : Use(t) \/ Pass(t)
    \/ List \/ Create \/ \E s \in Servers : Patch(s) \/ Activate(s) \/ Delete(s)
    \/ Handle
    \/ Crash

\* The loops of the panel ask for the active server as long as it runs.
Spec ==
    /\ Init /\ [][Next]_vars
    /\ \A t \in Threads : WF_vars(Use(t) \/ Pass(t))
    /\ WF_vars(Handle)
-----------------------------------------------------------------------------
(* Properties. *)

(***************************************************************************)
(* Types; who writes the index holds what is to be written, and only a     *)
(* known profile is in it.                                                 *)
(***************************************************************************)
Index == [active : Servers \cup {None}, ids : Seq(Servers)]

TypeOK ==
    /\ index \in Index
    /\ disk \in [Servers -> 0..(MaxEdits + 2)] /\ policy \in Servers \cup {None}
    /\ thread \in [Threads -> [pc : Pcs, op : Ops, server : Servers \cup {None},
                               copy : Index]]
    /\ edits \in 0..MaxEdits /\ crashes \in 0..MaxCrashes
    /\ IsInjective(index.ids)

(***************************************************************************)
(* No create and no patch writes over another profile, whatever the index  *)
(* says at that moment: a profile that is replaced by another of its id,   *)
(* undeleted, has the environment's id, and one of the two is the profile  *)
(* the environment describes.  (A thread that found the directory empty    *)
(* writes that one without looking again.)                                 *)
(***************************************************************************)
NoneLost ==
    \A s \in Servers :
        disk[s] # 0 /\ disk'[s] \notin {disk[s], 0} =>
            s = EnvServer /\ MaxEdits + 1 \in {disk[s], disk'[s]}
ProfilesKept == [][NoneLost]_vars

(***************************************************************************)
(* When nobody changes profiles any more the index agrees with the         *)
(* directory, for good, and the active server is one of it, after whatever *)
(* stale copies and empty reads the threads wrote down in between.         *)
(***************************************************************************)
Agrees ==
    /\ index.ids = OnDisk
    /\ OnDisk # <<>> => index.active \in ToSet(OnDisk)
IndexHeals == <>[]Agrees
=============================================================================
