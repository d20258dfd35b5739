---------------------------- MODULE PlayerAccess ----------------------------
(***************************************************************************)
(* The access level of a player as the panel shows it.  Nobody can ask the *)
(* game for it, so the panel keeps what it set over RCON itself and adds   *)
(* what the mirror's copy of the game's logs says.  The copy is as old as  *)
(* the last pull, so a level set over RCON stands for a while against it.  *)
(* All of this runs on the event loop, one call at a time, but the RCON    *)
(* command itself is awaited, and two of them may be answered in either    *)
(* order.  What is only in memory is lost when the panel dies.             *)
(***************************************************************************)
EXTENDS Integers, Sequences, FiniteSetsExt

CONSTANTS
    Players,      \* names
    Levels,       \* access levels; a player the panel knows nothing of has DefaultLevel
    DefaultLevel, \* "user"
    LogSyncTTL,   \* LOG_SYNC_TTL
    RconCacheTTL, \* RCON_CACHE_TTL
    MaxClock,     \* bound: the clock stops here
    MaxGrants,    \* bound: levels ever set
    MaxAccessDies \* bound: deaths of the panel

VARIABLES
    clock,      \* time.time(), in the unit of the two spans
    gameLevel,  \* the levels the game has
    gameLog,    \* the game's log of what was set: [who, level]
    logCopy,    \* the mirror's copy of it
    levels,     \* _cache: who has which level, None before it is loaded
    levelFile,  \* the same in the profile's file
    syncedAt,   \* _last_log_sync, Never before the first
    rconAt,     \* _recent_rcon, Never without a stamp
    answered,   \* commands that were answered and the panel did not yet take down: [who, level]
    told,       \* history: what the panel took down last of a player
    grants      \* counters of the bounded events

accessVars == <<clock, gameLevel, gameLog, logCopy, levels, levelFile, syncedAt, rconAt, answered, told, grants>>

None == "none"
Never == -RconCacheTTL - LogSyncTTL

Empty == [p \in Players |-> None]

AccessInit ==
    /\ clock = 0
    /\ gameLevel = [p \in Players |-> DefaultLevel]
    /\ gameLog = <<>> /\ logCopy = <<>>
    /\ levels = Empty /\ levelFile = Empty
    /\ syncedAt = Never
    /\ rconAt = [p \in Players |-> Never]
    /\ answered = {} /\ told = Empty
    /\ grants = [sets |-> 0, dies |-> 0]

Ticks ==
    /\ clock < MaxClock
    /\ clock' = clock + 1
    /\ UNCHANGED <<gameLevel, gameLog, logCopy, levels, levelFile, syncedAt, rconAt, answered, told, grants>>

\* setaccesslevel in the game: the level, and a line in its log.
Obeyed(p, level) ==
    /\ grants.sets < MaxGrants
    /\ grants' = [grants EXCEPT !.sets = @ + 1]
    /\ gameLevel' = [gameLevel EXCEPT ![p] = level]
    /\ gameLog' = Append(gameLog, [who |-> p, level |-> level])

\* Another administrator sets a level, from within the game.
SetInGame(p, level) ==
    /\ Obeyed(p, level)
    /\ UNCHANGED <<clock, logCopy, levels, levelFile, syncedAt, rconAt, answered, told>>

\* The game refuses the command, as of a player it does not know, or it was
\* another server, active at that moment, that obeyed.
Refused ==
    /\ grants.sets < MaxGrants
    /\ grants' = [grants EXCEPT !.sets = @ + 1]
    /\ UNCHANGED <<gameLevel, gameLog>>

\* rcon_exec_endpoint up to the answer of the game; what the answer says is not
\* looked at, the command is taken down as it was sent.
RconAnswers(p, level) ==
    /\ Obeyed(p, level) \/ Refused
    /\ answered' = answered \cup {[who |-> p, level |-> level]}
    /\ UNCHANGED <<clock, logCopy, levels, levelFile, syncedAt, rconAt, told>>

(***************************************************************************)
(* record_from_rcon and record_level.  The levels in memory and those of   *)
(* the file are the same but for the file's being read late, and the file  *)
(* is written whole.                                                       *)
(***************************************************************************)
RecordLevel(c) ==
    /\ answered' = answered \ {c}
    /\ levels' = [levels EXCEPT ![c.who] = c.level]
    /\ levelFile' = levels'
    /\ rconAt' = [rconAt EXCEPT ![c.who] = clock]
    /\ told' = [told EXCEPT ![c.who] = c.level]
    /\ UNCHANGED <<clock, gameLevel, gameLog, logCopy, syncedAt, grants>>

\* The same after another server was made the active one: it is taken down there.
RecordElsewhere(c) ==
    /\ answered' = answered \ {c}
    /\ UNCHANGED <<clock, gameLevel, gameLog, logCopy, levels, levelFile, syncedAt, rconAt, told, grants>>

\* A pull brings the logs.
PullLogs ==
    /\ logCopy # gameLog
    /\ logCopy' = gameLog
    /\ UNCHANGED <<clock, gameLevel, gameLog, levels, levelFile, syncedAt, rconAt, answered, told, grants>>

\* Mutant: the log is always right.
AlwaysAllowed(p) == TRUE

\* _log_sync_allowed.
LogSyncAllowed(p) == clock - rconAt[p] >= RconCacheTTL

\* What the log says last of a player.
LastSaid(p) ==
    LET said == {i \in DOMAIN logCopy : logCopy[i].who = p}
    IN  IF said = {} THEN None ELSE logCopy[Max(said)].level

\* _merge_log_levels.
MergeLogLevels ==
    [p \in Players |->
        IF LastSaid(p) # None /\ (levels[p] = None \/ LogSyncAllowed(p)) THEN LastSaid(p) ELSE levels[p]]

\* Mutant: what the log says is not saved.
EnrichUnsaved ==
    /\ clock - syncedAt >= LogSyncTTL
    /\ syncedAt' = clock
    /\ levels' = MergeLogLevels
    /\ UNCHANGED <<clock, gameLevel, gameLog, logCopy, levelFile, rconAt, answered, told, grants>>

\* enrich_players: sync_from_mirror_logs, unless it was done a moment ago.
EnrichPlayers ==
    /\ clock - syncedAt >= LogSyncTTL
    /\ syncedAt' = clock
    /\ levels' = MergeLogLevels
    /\ levelFile' = levels'
    /\ UNCHANGED <<clock, gameLevel, gameLog, logCopy, rconAt, answered, told, grants>>

\* The panel dies, in the middle of a write too: a broken file is an empty one.
AccessPanelDies ==
    /\ grants.dies < MaxAccessDies
    /\ grants' = [grants EXCEPT !.dies = @ + 1]
    /\ levelFile' \in {levelFile, Empty}
    /\ levels' = levelFile'
    /\ syncedAt' = Never
    /\ rconAt' = [p \in Players |-> Never]
    /\ answered' = {} /\ told' = Empty
    /\ UNCHANGED <<clock, gameLevel, gameLog, logCopy>>

AccessNext ==
    \/ Ticks \/ PullLogs \/ EnrichPlayers \/ AccessPanelDies
    \/ \E p \in Players, level \in Levels : SetInGame(p, level) \/ RconAnswers(p, level)
    \/ \E c \in answered : RecordLevel(c) \/ RecordElsewhere(c)
-----------------------------------------------------------------------------
\* What the list of players shows.
Shown(p) == IF levels[p] = None THEN DefaultLevel ELSE levels[p]

AccessTypeOK ==
    /\ clock \in 0 .. MaxClock
    /\ gameLevel \in [Players -> Levels]
    /\ gameLog \in Seq([who : Players, level : Levels])
    /\ Len(logCopy) <= Len(gameLog) /\ logCopy = SubSeq(gameLog, 1, Len(logCopy))
    /\ levels \in [Players -> Levels \cup {None}] /\ levelFile = levels
    /\ syncedAt \in {Never} \cup 0 .. clock
    /\ rconAt \in [Players -> {Never} \cup 0 .. clock]
    /\ answered \subseteq [who : Players, level : Levels]
    /\ told \in [Players -> Levels \cup {None}]
    /\ grants \in [sets : 0 .. MaxGrants, dies : 0 .. MaxAccessDies]

(***************************************************************************)
(* For as long as RCON_CACHE_TTL the panel shows of a player what it took  *)
(* down last: neither a copy of the log that is older than the command nor *)
(* one that holds it and what was set in the game since then changes it    *)
(* (_log_sync_allowed in _merge_log_levels).                               *)
(***************************************************************************)
FreshGrantStands == \A p \in Players : clock - rconAt[p] < RconCacheTTL => Shown(p) = told[p]
=============================================================================
