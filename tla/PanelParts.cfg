CONSTANTS
    Parts = {"heartbeat", "scheduler", "monitor", "deploy", "jobs", "updates", "local", "bus", "access", "chunks", "slots"}
    Stale = 2
    MaxTime = 8
    SeedTasks <- MCSeeds
    Crons <- MCCrons
    Malformed = Malformed
    MaxMinute = 3
    MaxAdds = 1
    MaxSchedDies = 1
    MaxStamp = 2
    MaxStarts = 2
    MaxWrites = 1
    MaxMonDies = 1
    Mods = {bridge, story}
    Bridge = bridge
    Pack = Pack
    Contents = {code, save}
    Protected = {save}
    Clashes <- MCClashes
    MaxUpsets = 1
    MaxDeploys = 2
    Items = {i1, i2}
    NoMod = NoMod
    ModsOf <- MCModsOf
    MaxJobs = 3
    MaxJobDies = 1
    MaxRelease = 2
    MaxUps = 3
    MaxApplies = 1
    TailCap = 2
    MaxRuns = 2
    MaxLines = 3
    MaxTestLines = 1
    MaxSmoke = 2
    MaxLocalDies = 1
    Sockets = {b1, b2, b3}
    MaxEvents = 2
    Players = {ann}
    Levels = {user, admin}
    DefaultLevel = user
    LogSyncTTL = 1
    RconCacheTTL = 3
    MaxClock = 4
    MaxGrants = 3
    MaxAccessDies = 1
    Copies = {mm, m2}
    NameOf <- MCNameOf
    RemoteOf <- MCRemoteOf
    Requests = {w1, w2}
    MaxSecond = 2
    MaxWipes = 2
    MaxSaves = 1
    MaxSlots = 2
    CountOf <- MCCountOf
    Sendings = {r1, r2}
    MaxSets = 3
    MaxSlotDies = 1
CONSTRAINT FewEvents
SPECIFICATION PartsSpec
INVARIANTS
    PartsTypeOK StoppedIsNoticed OncePerMinute FlagHasOwner DeployedIsWhole DoneIsDone ReadyIsWhole
    StartedPasses LiveStaySubscribed FreshGrantStands WipedIsGone
PROPERTY SentIsNotOlder
CHECK_DEADLOCK FALSE
