-------------------------- MODULE BridgeHeartbeat --------------------------
(***************************************************************************)
(* How the panel decides that the mod is polling.  Every pulse of the mod  *)
(* rewrites the heartbeat file on the game's host; the panel looks at the  *)
(* modification time of the file it finds on its own machine and calls the *)
(* bridge loaded while that is no older than BRIDGE_STALE_SEC.  On a local *)
(* profile it is the same file.  On a remote one it is a copy, and pulling *)
(* writes the copy anew: its age is the age of the pull.                   *)
(***************************************************************************)
EXTENDS Integers

CONSTANTS
    Stale,      \* BRIDGE_STALE_SEC
    MaxTime     \* bound: the clock stops here

ASSUME HeartbeatAssumption == Stale \in Nat /\ MaxTime \in Nat

VARIABLES
    filesKind, \* "local", or "remote" for an ftp or sftp profile
    now,       \* the clock of the panel and of the host
    up,        \* the JVM runs and the mod is loaded
    beat,      \* when writeBridge last wrote the host's file; 0 is no file
    copy,      \* mtime of the panel's copy (remote profiles); 0 is none that parses
    \* history: when the JVM last went down, when a pull last brought a copy
    downAt, pulledAt

vars == <<filesKind, now, up, beat, copy, downAt, pulledAt>>

\* The clock starts late enough for 0 to mean "never".
Init ==
    /\ filesKind \in {"local", "remote"}
    /\ now = 1
    /\ up = FALSE
    /\ beat = 0 /\ copy = 0
    /\ downAt = 0 /\ pulledAt = 0

\* A mod whose game is paused does not pulse: time may run past any pulse.
Tick ==
    /\ now < MaxTime
    /\ now' = now + 1
    /\ UNCHANGED <<filesKind, up, beat, copy, downAt, pulledAt>>

\* pulse, EveryHours, OnTick, or the end of a command: writeBridge.
Beat ==
    /\ up
    /\ beat' = now
    /\ UNCHANGED <<filesKind, now, up, copy, downAt, pulledAt>>

\* onWorldReady beats at once.
JvmStart ==
    /\ ~ up
    /\ up' = TRUE
    /\ beat' = now
    /\ UNCHANGED <<filesKind, now, copy, downAt, pulledAt>>

JvmStop ==
    /\ up
    /\ up' = FALSE
    /\ downAt' = now
    /\ UNCHANGED <<filesKind, now, beat, copy, pulledAt>>

\* Mutant: the copy is written anew whatever the host answers.
PullTouches ==
    /\ filesKind = "remote" /\ copy' = now
    /\ pulledAt' \in {pulledAt, now}
    /\ UNCHANGED <<filesKind, now, up, beat, downAt>>

(***************************************************************************)
(* _pull_remote_lua of the heartbeat: a new copy written now, which may be *)
(* one that does not parse because the mod was writing; no copy when the   *)
(* host has no such file; the old copy on any other error.  A local        *)
(* profile has no remote client, so its pull is always such an error.      *)
(***************************************************************************)
Pull ==
    /\ \/ /\ filesKind = "remote" /\ beat # 0
          /\ copy' \in {0, now} /\ pulledAt' = now
       \/ filesKind = "remote" /\ beat = 0 /\ copy' = 0 /\ UNCHANGED pulledAt
       \/ UNCHANGED <<copy, pulledAt>>
    /\ UNCHANGED <<filesKind, now, up, beat, downAt>>

Next == Tick \/ Beat \/ JvmStart \/ JvmStop \/ Pull

Spec == Init /\ [][Next]_vars
-----------------------------------------------------------------------------
\* What _first_json reports as mtime.
Shown == IF filesKind = "local" THEN beat ELSE copy

Young(mtime) == mtime # 0 /\ now - mtime <= Stale

\* _bridge_status: there is a heartbeat and it is young enough.
Loaded == Young(Shown)
-----------------------------------------------------------------------------
\* The clock never runs behind a time stamp and none is negative.
TypeOK ==
    /\ filesKind \in {"local", "remote"}
    /\ now \in Nat \ {0}
    /\ up \in BOOLEAN
    /\ beat \in 0 .. now /\ copy \in 0 .. now
    /\ downAt \in 0 .. now /\ pulledAt \in 0 .. now

(***************************************************************************)
(* A server that has been down for longer than BRIDGE_STALE_SEC is not     *)
(* shown as loaded; on a remote profile, where the panel only has a copy,  *)
(* once no pull has brought one for that long either: a pull that fails,   *)
(* or finds no file, does not make the copy younger (_bridge_status,       *)
(* _pull_remote_lua).                                                      *)
(***************************************************************************)
StoppedIsNoticed ==
    /\ ~ up /\ now - downAt > Stale
    /\ filesKind = "remote" => now - pulledAt > Stale
    => ~ Loaded

\* What mods/MeatballsSafehouses/README.md says of the heartbeat: "panel knows the
\* mod is polling".  It holds on a local profile.
LoadedMeansPolling == Loaded => Young(beat)
=============================================================================
