---------------------------- MODULE MCPanelParts ----------------------------
(***************************************************************************)
(* The parts of the panel that share no state, each in a behaviour of its  *)
(* own: the initial state picks the part that acts, the others stay as     *)
(* they are initially.  The heartbeat of the bridge is one of them.        *)
(***************************************************************************)
EXTENDS BridgeHeartbeat, Sequences, FiniteSets

CONSTANTS
    Parts,
    SeedTasks, Crons, Malformed, MaxMinute, MaxAdds, MaxSchedDies,
    MaxStamp, MaxStarts, MaxWrites, MaxMonDies,
    Mods, Bridge, Pack, Contents, Protected, Clashes, MaxUpsets, MaxDeploys,
    Items, NoMod, ModsOf, MaxJobs, MaxJobDies,
    MaxRelease, MaxUps, MaxApplies,
    TailCap, MaxRuns, MaxLines, MaxTestLines, MaxSmoke, MaxLocalDies,
    Sockets, MaxEvents,
    Players, Levels, DefaultLevel, LogSyncTTL, RconCacheTTL, MaxClock, MaxGrants, MaxAccessDies,
    Copies, NameOf, RemoteOf, Requests, MaxSecond, MaxWipes, MaxSaves,
    MaxSlots, CountOf, Sendings, MaxSets, MaxSlotDies

ASSUME PartsAssumption ==
    /\ MaxSlots \in Nat /\ MaxSlotDies \in Nat
    /\ MaxSets \in Nat /\ CountOf \in [1 .. MaxSets -> 0 .. MaxSlots]
    /\ MaxSecond \in Nat \ {0} /\ MaxWipes \in Nat /\ MaxSaves \in Nat
    /\ MaxRelease \in Nat \ {0} /\ MaxUps \in Nat /\ MaxApplies \in Nat
    /\ MaxStamp \in Nat \ {0} /\ MaxStarts \in Nat /\ MaxWrites \in Nat /\ MaxMonDies \in Nat
    /\ MaxJobs \in Nat /\ MaxJobDies \in Nat
    /\ NoMod \notin Items /\ DOMAIN ModsOf = Items
    /\ IsFiniteSet(SeedTasks)
    /\ SeedTasks \subseteq [id : 1 .. Cardinality(SeedTasks), on : BOOLEAN, cron : Crons, last : {0}]
    /\ \A t, u \in SeedTasks : t.id = u.id => t = u
    /\ MaxMinute \in Nat \ {0} /\ MaxAdds \in Nat /\ MaxSchedDies \in Nat
    /\ TailCap \in Nat /\ MaxSmoke \in Nat /\ MaxLocalDies \in Nat
    /\ DefaultLevel \in Levels /\ "none" \notin Levels
    /\ Bridge \in Mods /\ MaxUpsets \in Nat /\ MaxDeploys \in Nat
    /\ LogSyncTTL \in Nat /\ RconCacheTTL \in Nat
    /\ MaxClock \in Nat /\ MaxGrants \in Nat /\ MaxAccessDies \in Nat

VARIABLES
    part,
    minute, taskFile, loop, manual, ran, adds, schedDies,
    steam, installed, monFile, io, mon, restarting, passed, rs, gameUp, counts,
    fileKind, shelf, host, ini, seenIni, job, excused, tally,
    flag, phase, asked, crew, steamcmd, content, mods, vps, jobCounts,
    installKind, latest, summed, current, updates, upJob, ups, tree, blind, entangled, upCounts,
    jvms, pidFile, console, smoke, asks,
    socket, handler, idOf, clients, nextId, sends, events, broken,
    clock, gameLevel, gameLog, logCopy, levels, levelFile, syncedAt, rconAt, answered, told, grants,
    disk, saved, backups, wipes, second, spent,
    stored, localLine, temp, hostLine, sendings, listed, bodies, slotDies

schedVars == <<minute, taskFile, loop, manual, ran, adds, schedDies>>
monVars == <<steam, installed, monFile, io, mon, restarting, passed, rs, gameUp, counts>>
deployVars == <<fileKind, shelf, host, ini, seenIni, job, excused, tally>>
jobVars == <<flag, phase, asked, crew, steamcmd, content, mods, vps, jobCounts>>
upVars == <<installKind, latest, summed, current, updates, upJob, ups, tree, blind,
            entangled, upCounts>>
localVars == <<jvms, pidFile, console, smoke, asks>>
busVars == <<socket, handler, idOf, clients, nextId, sends, events, broken>>
accessVars == <<clock, gameLevel, gameLog, logCopy, levels, levelFile, syncedAt, rconAt,
                answered, told, grants>>
chunkVars == <<disk, saved, backups, wipes, second, spent>>
slotVars == <<stored, localLine, temp, hostLine, sendings, listed, bodies, slotDies>>

Sched == INSTANCE Scheduler
Monitor == INSTANCE WorkshopMonitor
Deploy == INSTANCE PackDeploy
Jobs == INSTANCE PanelJobs
Updates == INSTANCE PanelUpdates
Local == INSTANCE LocalServer
Bus == INSTANCE EventBus
Access == INSTANCE PlayerAccess
Chunks == INSTANCE ChunkWipe
Slots == INSTANCE TrainerSlots
-----------------------------------------------------------------------------
(* The values of the constants. *)

MCSeeds == {[id |-> 1, on |-> TRUE, cron |-> {2}, last |-> 0]}
MCCrons == {{2}, Malformed}
MCClashes == {Mods}
MCNameOf == [c \in Copies |-> "map"]
MCRemoteOf == [c \in Copies |-> c]
MCCountOf == <<2, 1, 2>>
MCModsOf == [i \in Items |-> IF i = CHOOSE j \in Items : TRUE THEN {"42", "common"} ELSE {"42"}]

\* Not all at once: two wipes of a cell, a save and a second that ends; two
\* deployments over plain ftp and an upset.
FewEvents ==
    /\ spent.wipes + spent.saves + second <= MaxWipes + MaxSaves + MaxSecond - 1
    /\ fileKind = "ftp" => tally.deploys + tally.upsets <= MaxDeploys + MaxUpsets - 1

-----------------------------------------------------------------------------
(* One part at a time. *)

PartsInit ==
    /\ part \in Parts
    /\ Init /\ (part # "heartbeat" => filesKind = "local")
    /\ Sched!SchedInit /\ Monitor!MonInit /\ Jobs!JobsInit /\ Local!LocalInit
    /\ Bus!BusInit /\ Access!AccessInit /\ Slots!SlotsInit
    /\ Chunks!ChunkInit /\ (part # "chunks" => disk = {})
    /\ Deploy!DeployInit /\ (part # "deploy" => fileKind = "local")
    /\ Updates!UpInit /\ (part # "updates" => installKind = "docker")

PartsNext ==
    /\ UNCHANGED part
    /\ \/ /\ part = "heartbeat" /\ Next
          /\ UNCHANGED <<schedVars, monVars, deployVars, jobVars, upVars,
                         localVars, busVars, accessVars, chunkVars, slotVars>>
       \/ /\ part = "scheduler" /\ Sched!SchedNext
          /\ UNCHANGED <<vars, monVars, deployVars, jobVars, upVars,
                         localVars, busVars, accessVars, chunkVars, slotVars>>
       \/ /\ part = "monitor" /\ Monitor!MonNext
          /\ UNCHANGED <<vars, schedVars, deployVars, jobVars, upVars,
                         localVars, busVars, accessVars, chunkVars, slotVars>>
       \/ /\ part = "deploy" /\ Deploy!DeployNext
          /\ UNCHANGED <<vars, schedVars, monVars, jobVars, upVars,
                         localVars, busVars, accessVars, chunkVars, slotVars>>
       \/ /\ part = "jobs" /\ Jobs!JobsNext
          /\ UNCHANGED <<vars, schedVars, monVars, deployVars, upVars,
                         localVars, busVars, accessVars, chunkVars, slotVars>>
       \/ /\ part = "updates" /\ Updates!UpNext
          /\ UNCHANGED <<vars, schedVars, monVars, deployVars, jobVars,
                         localVars, busVars, accessVars, chunkVars, slotVars>>
       \/ /\ part = "local" /\ Local!LocalNext
          /\ UNCHANGED <<vars, schedVars, monVars, deployVars, jobVars,
                         upVars, busVars, accessVars, chunkVars, slotVars>>
       \/ /\ part = "bus" /\ Bus!BusNext
          /\ UNCHANGED <<vars, schedVars, monVars, deployVars, jobVars,
                         upVars, localVars, accessVars, chunkVars, slotVars>>
       \/ /\ part = "access" /\ Access!AccessNext
          /\ UNCHANGED <<vars, schedVars, monVars, deployVars, jobVars,
                         upVars, localVars, busVars, chunkVars, slotVars>>
       \/ /\ part = "chunks" /\ Chunks!ChunkNext
          /\ UNCHANGED <<vars, schedVars, monVars, deployVars, jobVars,
                         upVars, localVars, busVars, accessVars, slotVars>>
       \/ /\ part = "slots" /\ Slots!SlotsNext
          /\ UNCHANGED <<vars, schedVars, monVars, deployVars, jobVars,
                         upVars, localVars, busVars, accessVars, chunkVars>>

PartsSpec == PartsInit /\ [][PartsNext]_<<part, vars, schedVars, monVars, deployVars,
    jobVars, upVars, localVars, busVars, accessVars, chunkVars, slotVars>>
-----------------------------------------------------------------------------
(* The properties of the parts, under their own names. *)

\* Each part's variables have their types.
PartsTypeOK ==
    /\ TypeOK /\ Sched!SchedTypeOK /\ Monitor!MonTypeOK /\ Deploy!DeployTypeOK
    /\ Jobs!JobsTypeOK /\ Updates!UpTypeOK /\ Local!LocalTypeOK /\ Bus!BusTypeOK
    /\ Access!AccessTypeOK /\ Chunks!ChunkTypeOK /\ Slots!SlotsTypeOK

\* The loop runs no task twice for a minute (Scheduler).
OncePerMinute == Sched!OncePerMinute

\* A flag that is up has a sequence that will lower it (WorkshopMonitor).
FlagHasOwner == Monitor!FlagHasOwner

\* What a deployment called ok is on the host (PackDeploy).
DeployedIsWhole == Deploy!DeployedIsWhole

\* What the record of a job calls done is done (PanelJobs).
DoneIsDone == Jobs!DoneIsDone

\* An installer the record calls ready is whole (PanelUpdates).
ReadyIsWhole == Updates!ReadyIsWhole

\* A server that logged its start is a pass (LocalServer).
StartedPasses == Local!StartedPasses

\* No browser that was sent all events leaves the table (EventBus).
LiveStaySubscribed == Bus!LiveStaySubscribed

\* A level that was just set stands against the logs (PlayerAccess).
FreshGrantStands == Access!FreshGrantStands

\* What a wipe answered ok for is gone, and kept in its folder (ChunkWipe).
WipedIsGone == Chunks!WipedIsGone

\* No upload found good is of an older setting (TrainerSlots).
SentIsNotOlder == Slots!SentIsNotOlder
=============================================================================
