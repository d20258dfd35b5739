-------------------------- MODULE WorkshopMonitor --------------------------
(***************************************************************************)
(* Updates of a Workshop mod and the restarts they cause.  The event loop  *)
(* serves the requests one at a time; the monitor's round runs check and   *)
(* start in a worker thread beside it, and every guided restart counts     *)
(* down in a thread of its own.  They share a state file that is read,     *)
(* changed and written back without a lock, and a flag that says that a    *)
(* restart is running, read under the lock and set under it later.         *)
(***************************************************************************)
EXTENDS PanelThreads, FiniteSets

CONSTANTS
    MaxStamp,    \* bound: updates of the mod on Steam
    MaxStarts,   \* bound: restart sequences ever started
    MaxWrites,   \* bound: requests that change the state file
    MaxMonDies   \* bound: deaths of the panel

VARIABLES
    steam,       \* time_updated of the mod on Steam
    installed,   \* the stamp of the mirror's copy, 0 without one
    monFile,     \* workshop_monitor.json: known, seen, auto; Torn while it is written
    io,          \* what the loop and the worker do to that file
    mon,         \* the monitor's round: "asleep", "check", "decide" or "start"
    restarting,  \* _restart_job["running"]
    passed,      \* threads that saw no restart running and did not yet set the flag
    rs,          \* the restart sequences under way
    gameUp,      \* the game server answers RCON
    counts       \* counters of the bounded events

monVars == <<steam, installed, monFile, io, mon, restarting, passed, rs, gameUp, counts>>

Threads == {"loop", "worker"}

NoItem == [known |-> 0, seen |-> 0, auto |-> FALSE]

Torn == [known |-> -1, seen |-> 0, auto |-> FALSE]

\* _read_state: no file and a broken one are the empty state.
ReadState == IF monFile = Torn THEN NoItem ELSE monFile

Quiet == [stage |-> "none", op |-> "none", new |-> NoItem, news |-> FALSE]

MonInit ==
    /\ steam = 1 /\ installed = 0
    /\ monFile = NoItem
    /\ io = [p \in Threads |-> Quiet]
    /\ mon = "asleep" /\ restarting = FALSE /\ passed = {}
    /\ rs = <<>> /\ gameUp = TRUE
    /\ counts = [starts |-> 0, writes |-> 0, dies |-> 0]

\* The event loop is free for the next request.
LoopFree == io["loop"] = Quiet /\ "loop" \notin passed

\* Steam gets an update; a download or a pull brings the mirror up to date.
SteamUpdates ==
    /\ steam < MaxStamp
    /\ steam' = steam + 1
    /\ UNCHANGED <<installed, monFile, io, mon, restarting, passed, rs, gameUp, counts>>

MirrorInstalls ==
    /\ installed' = steam
    /\ UNCHANGED <<steam, monFile, io, mon, restarting, passed, rs, gameUp, counts>>
-----------------------------------------------------------------------------
(* The state file: fetch, read, truncate, write. *)

\* check_updates up to Steam's answer; known is its stamp, seen the mirror's.
Fetched == [stage |-> "fetched", op |-> "check", news |-> FALSE,
            new |-> [known |-> steam, seen |-> installed, auto |-> FALSE]]

\* Is an update available, by what Steam and the mirror said and what was acknowledged?
IsNews(remote, copy, seen) ==
    IF copy = 0 /\ seen = 0 THEN TRUE
    ELSE remote > (IF copy # 0 THEN copy ELSE seen)

\* The rest of check_updates: the row written back into what was read.
CheckReads(p) ==
    /\ io[p].stage = "fetched"
    /\ LET old == ReadState
           news == IsNews(io[p].new.known, io[p].new.seen, old.seen)
           seen == IF old.seen # 0 \/ news THEN old.seen ELSE io[p].new.known
       IN  io' = [io EXCEPT ![p] =
                    [stage |-> "read", op |-> "check", news |-> news,
                     new |-> [old EXCEPT !.known = io[p].new.known, !.seen = seen]]]
    /\ UNCHANGED <<steam, installed, monFile, mon, restarting, passed, rs, gameUp, counts>>

HandlerReads(op, new) ==
    /\ LoopFree /\ counts.writes < MaxWrites
    /\ counts' = [counts EXCEPT !.writes = @ + 1]
    /\ io' = [io EXCEPT !["loop"] = [stage |-> "read", op |-> op, new |-> new, news |-> FALSE]]
    /\ UNCHANGED <<steam, installed, monFile, mon, restarting, passed, rs, gameUp>>

\* acknowledge_updates: the stamp that the file knows now becomes the seen one.
Acknowledge ==
    HandlerReads("ack", [ReadState EXCEPT !.seen = IF ReadState.known # 0 THEN ReadState.known ELSE @])

SetAutoRestart(on) == HandlerReads("auto", [ReadState EXCEPT !.auto = on])

\* The check of a request blocks the loop; Steam may not answer.
CheckNow ==
    /\ LoopFree /\ counts.writes < MaxWrites
    /\ counts' = [counts EXCEPT !.writes = @ + 1]
    /\ io' = [io EXCEPT !["loop"] = Fetched]
    /\ UNCHANGED <<steam, installed, monFile, mon, restarting, passed, rs, gameUp>>

\* _write_state: the file is truncated, then filled.
Truncates(p) ==
    /\ io[p].stage = "read"
    /\ monFile' = Torn
    /\ io' = [io EXCEPT ![p].stage = "open"]
    /\ UNCHANGED <<steam, installed, mon, restarting, passed, rs, gameUp, counts>>

Writes(p) ==
    /\ io[p].stage = "open"
    /\ monFile' = io[p].new
    /\ io' = [io EXCEPT ![p] = Quiet]
    /\ mon' = IF p # "worker" THEN mon ELSE IF io[p].news THEN "decide" ELSE "asleep"
    /\ UNCHANGED <<steam, installed, restarting, passed, rs, gameUp, counts>>

\* _workshop_monitor_loop: a round that has restarts to make asks Steam, in vain perhaps.
MonitorWakes ==
    /\ mon = "asleep" /\ LoopFree
    /\ ReadState.auto
    /\ mon' = "check"
    /\ io' = [io EXCEPT !["worker"] = Fetched]
    /\ UNCHANGED <<steam, installed, monFile, restarting, passed, rs, gameUp, counts>>

\* Back on the loop with an update: start a restart unless one is running.
MonitorDecides ==
    /\ mon = "decide" /\ LoopFree
    /\ mon' = IF restarting THEN "asleep" ELSE "start"
    /\ UNCHANGED <<steam, installed, monFile, io, restarting, passed, rs, gameUp, counts>>

SteamFails(p) ==
    /\ io[p].stage = "fetched"
    /\ io' = [io EXCEPT ![p] = Quiet]
    /\ mon' = IF p = "worker" THEN "asleep" ELSE mon
    /\ UNCHANGED <<steam, installed, monFile, restarting, passed, rs, gameUp, counts>>
-----------------------------------------------------------------------------
(* Restarts. *)

Wants(p) == IF p = "worker" THEN mon = "start" ELSE LoopFree

\* start_graceful_restart looks at the flag: refused, or let through.
StartLooks(p) ==
    /\ Wants(p) /\ p \notin passed /\ counts.starts < MaxStarts
    /\ IF restarting
       THEN /\ p = "worker" /\ mon' = "asleep" /\ UNCHANGED passed
       ELSE /\ passed' = passed \cup {p} /\ UNCHANGED mon
    /\ UNCHANGED <<steam, installed, monFile, io, restarting, rs, gameUp, counts>>

\* It sets the flag and starts the thread.
StartSets(p) ==
    /\ p \in passed /\ counts.starts < MaxStarts
    /\ passed' = passed \ {p}
    /\ restarting' = TRUE
    /\ rs' = Append(rs, [guided |-> TRUE, stage |-> "warn"])
    /\ counts' = [counts EXCEPT !.starts = @ + 1]
    /\ mon' = IF p = "worker" THEN "asleep" ELSE mon
    /\ UNCHANGED <<steam, installed, monFile, io, gameUp>>

\* /api/rcon/graceful-restart: a task of the loop, past the flag.
StartBlind ==
    /\ LoopFree /\ counts.starts < MaxStarts
    /\ rs' = Append(rs, [guided |-> FALSE, stage |-> "warn"])
    /\ counts' = [counts EXCEPT !.starts = @ + 1]
    /\ UNCHANGED <<steam, installed, monFile, io, mon, restarting, passed, gameUp>>

After == [warn |-> "count", count |-> "save", save |-> "quit", quit |-> "over"]

(***************************************************************************)
(* rcon_execute: a command that is answered reached a server that is up; a *)
(* failed one, tried a second time after the first failure, may have run   *)
(* all the same.                                                           *)
(***************************************************************************)
Rcon(cmd, ok) ==
    /\ ok => gameUp
    /\ IF cmd = "quit" /\ gameUp
       THEN gameUp' \in (IF ok THEN {FALSE} ELSE BOOLEAN)
       ELSE UNCHANGED gameUp

Kept(i, stage) ==
    IF stage = "over" THEN RemoveAt(rs, i) ELSE [rs EXCEPT ![i].stage = stage]

\* Mutant: only a restart that came to its end takes the flag down.
FlagAfterDone(next, ok) == IF next = "over" /\ ok THEN FALSE ELSE restarting

\* The flag after a step: down when the sequence is over, done or in error.
FlagAfter(next, ok) == IF next = "over" THEN FALSE ELSE restarting

(***************************************************************************)
(* _run_graceful_restart: warn, count down, save, quit; the first error    *)
(* ends it.  Whichever way it ends, it takes the flag down.  (The          *)
(* countdown sends no command and cannot fail.)                            *)
(***************************************************************************)
GuidedStep(i) ==
    LET stage == rs[i].stage
    IN  /\ rs[i].guided
        /\ \E ok \in BOOLEAN :
              LET next == IF ok THEN After[stage] ELSE "over"
              IN  /\ IF stage = "count" THEN ok /\ UNCHANGED gameUp ELSE Rcon(stage, ok)
                  /\ rs' = Kept(i, next)
                  /\ restarting' = FlagAfter(next, ok)
        /\ UNCHANGED <<steam, installed, monFile, io, mon, passed, counts>>

\* graceful_restart._run: errors are passed over.
BlindStep(i) ==
    LET stage == rs[i].stage
    IN  /\ ~ rs[i].guided
        /\ IF stage = "count" THEN UNCHANGED gameUp
           ELSE \E ok \in BOOLEAN : Rcon(stage, ok)
        /\ rs' = Kept(i, After[stage])
        /\ UNCHANGED <<steam, installed, monFile, io, mon, restarting, passed, counts>>

\* The hoster brings the server up again.
GameStarts ==
    /\ ~ gameUp /\ gameUp' = TRUE
    /\ UNCHANGED <<steam, installed, monFile, io, mon, restarting, passed, rs, counts>>

\* The process dies with its threads and its memory; the file stays as it is.
MonitorDies ==
    /\ counts.dies < MaxMonDies
    /\ counts' = [counts EXCEPT !.dies = @ + 1]
    /\ io' = [p \in Threads |-> Quiet]
    /\ mon' = "asleep" /\ restarting' = FALSE /\ passed' = {} /\ rs' = <<>>
    /\ UNCHANGED <<steam, installed, monFile, gameUp>>

MonNext ==
    \/ SteamUpdates \/ MirrorInstalls \/ GameStarts
    \/ Acknowledge \/ CheckNow \/ MonitorWakes \/ MonitorDecides \/ StartBlind \/ MonitorDies
    \/ \E on \in BOOLEAN : SetAutoRestart(on)
    \/ \E p \in Threads :
          \/ CheckReads(p) \/ Truncates(p) \/ Writes(p) \/ SteamFails(p)
          \/ StartLooks(p) \/ StartSets(p)
    \/ \E i \in DOMAIN rs : GuidedStep(i) \/ BlindStep(i)

MonSpec == MonInit /\ [][MonNext]_monVars
-----------------------------------------------------------------------------
Files == [known : 0 .. MaxStamp, seen : 0 .. MaxStamp, auto : BOOLEAN]

MonTypeOK ==
    /\ steam \in 1 .. MaxStamp /\ installed \in 0 .. steam
    /\ monFile \in Files \cup {Torn}
    /\ io \in [Threads -> [stage : {"none", "fetched", "read", "open"}, new : Files,
                           op : {"none", "check", "ack", "auto"}, news : BOOLEAN]]
    /\ mon \in {"asleep", "check", "decide", "start"}
    /\ mon = "check" <=> io["worker"] # Quiet
    /\ restarting \in BOOLEAN /\ gameUp \in BOOLEAN
    /\ passed \subseteq Threads
    /\ rs \in Seq([guided : BOOLEAN, stage : DOMAIN After])
    /\ counts \in [starts : 0 .. MaxStarts, writes : 0 .. MaxWrites, dies : 0 .. MaxMonDies]

Guided == {i \in DOMAIN rs : rs[i].guided}

(***************************************************************************)
(* No restart is shown as running when none is: a flag that nobody takes   *)
(* down would refuse every later restart until the panel itself is         *)
(* restarted, however many threads passed the check of                     *)
(* start_graceful_restart and however their RCON commands failed.          *)
(***************************************************************************)
FlagHasOwner == restarting => Guided # {}

(***************************************************************************)
(* One guided restart at a time: "Graceful restart already running"        *)
(* (start_graceful_restart).                                               *)
(***************************************************************************)
OneRestart == Cardinality(Guided) <= 1
=============================================================================
