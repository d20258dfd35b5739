# Formal models of MEATBALLS Control

MEATBALLS Control is a FastAPI panel that administers dedicated servers of
Project Zomboid, together with mods in Lua that run inside those servers. The
panel cannot call the game: it writes files the mods poll, pulls back files the
mods write, and sends RCON commands. This directory holds TLA+ modules of those
protocols and of the panel's own state, the instances TLC checks, and theorems
TLAPS proves about them.

Paths below are relative to the repository's root; `mods/` stands for
`src/mods/`. Section 1 is the inventory, 2 the modules and how they correspond
to the code, 3 the runs, 4 the proofs, 5 what is not modelled.

## 1. The system

| Component | Source | State it keeps | Operations | What is hard |
|---|---|---|---|---|
| Safehouse bridge | `panel/safehouses.py`, `panel/routes/safehouses.py`, `mods/MeatballsSafehouses` | job queue per profile, command file, dump, ack, heartbeat, nonces in the JVM, the game's list of zones | create, update, release, pull, poll, dump, heartbeat | two machines that share only files; files overwritten, torn, pulled late; restarts of the JVM, which revert the world to its last save |
| City wipe | `panel/services/admin_tools.py`, `mods/AdminTools` | job queue, command file, nonces, list of sweeps | trigger, clear, poll, two in-game commands, tick | nothing is acknowledged; queued lines are sent again; a cursor with a budget per tick |
| Restarts and workshop monitor | `panel/services/workshop_monitor.py`, `panel/server.py` | one countdown record, a state file | check updates, acknowledge, auto restart, graceful restart (two kinds) | worker threads against requests; check-then-set; read-wait-write |
| Scheduler | `panel/scheduler.py`, `panel/server.py` | task file with last runs | add, change, delete, run, run due tasks | the due list is used across awaits; minutes can be missed |
| Trainer slots | `panel/slots.py`, `mods/MeatballsSlots` | wanted count, one line on the host, bodies in the world | set, publish, spawn, trim | one temporary file for all requests, sent from threads |
| Config and host conflict | `panel/prefs.py`, `panel/server.py` | content of the host's file last seen | load, save, apply mods | two writers of one remote file; a check before an upload; a server that is switched between two awaits |
| Mirror pull | `tools/server_mirror.py`, `tools/ftp_client.py`, `panel/services/sftp_client.py` | local mirror, resumable state | pull, verify, resume, abort | one pull at a time; abort and resume |
| Server profiles | `panel/servers.py` | profiles, the index, the active one | create, change, delete, activate, list | every thread that asks for the active server may rewrite the index |
| Sign-in | `panel/auth.py`, `panel/security_hardening.py` | accounts, second factors, lockouts, revoked sessions | setup, login, logout, TOTP, step-up | a session is looked at three times on a request's way; lists are cut by expiry |
| Event bus | `panel/services/event_bus.py` | table of clients | connect, publish, prune, disconnect | sends to slow clients interleave |
| Player access | `panel/services/player_access.py` | access levels per server | set over RCON, merge from logs | two sources, one of them as old as the last pull |
| Mod deployment and packs | `panel/services/pack_merger.py`, `tools/pack_merger.py`, `panel/server.py`, `tools/ftp_client.py` | folders here and on the host, an ini | deploy as is, deploy a pack, install the bridge mod | one file of many fails or is cut short; a download swaps the folder meanwhile |
| Chunk wipe | `panel/wipe.py` | chunk files here and on the host, backups | wipe a cell | two wipes in threads over the same files; saves meanwhile |
| Background jobs | `panel/services/*_downloader.py`, `panel_updates.py`, `vps_provisioner.py` | one status record each, files | start, run in a thread, report | check-then-set of "running"; half-done work on the disk |
| Local process | `panel/services/local_runner.py`, `tools/local_server.py` | pid file, console file | start, stop, status | a process that dies on its own; logs of an earlier run |
| RCON client | `panel/rcon_client.py` and its callers | none | send a command | an answer is lost and the command sent again |
| Views and reports, web UI, client mods, packaging | the rest | none of their own | | |

How they interact: the web UI calls the routes; most handlers are `async def`
without an `await` around their work, so they run one after the other on the
event loop, while worker threads (`asyncio.to_thread`, `threading.Thread`) run
beside them. Safehouse bridge, city wipe, slots, mirror, deployment and config
all go through the remote client of the active profile. Scheduler, restarts and
player access go through RCON. Each module below therefore says which of its
steps run on the loop, and what can happen between two of them.

### What makes each modelled component correct

* **Bridge.** Zones never overlap and change only by a claim, a change of owner,
  a release or a return to the last save; a job runs at most once in a life of
  the JVM and for the first time in the order it was asked for, except across the
  hole of a half-cleared store; an answer is true and final; the command file
  empties and the dump catches up; a server that is down is noticed.
* **City wipe.** In one life of the JVM the panel's wipes start in order and
  once, as long as their lines come whole; a cleared wipe never starts; a sweep
  visits each tile of its city once, reports all of them, and ends.
* **Mirror pull.** An MD5 in `checksums.json` is that of the copy; a pull of the
  whole tree copies what was listed; a mirror called complete lacks nothing of
  what was listed last, however often the pull paused and was resumed.
* **Sign-in.** Failures of one address and account keep the distance the lockout
  promises; a session that logged out stays out, and one that a logout of all
  meant too, unless it is local; nobody signs in with a secret that was made for
  another.
* **Server profiles.** No profile is written over by another; the index comes to
  agree with the directory.
* **Config.** What is written goes where it was read; no content of the host that
  nobody saw is written over.
* **Scheduler.** The loop runs no task twice for a minute.
* **Restarts.** No restart is shown as running when none is.
* **Deployment.** What an "ok" names is on the host, file by file.
* **Background jobs and updates.** What the record of an ended job calls done is
  done; while the record says ready, the installer is whole, or there was no sum
  to compare it with.
* **Local process.** A server that logged its start is reported as a pass.
* **Event bus.** No browser leaves the table because of another one.
* **Player access.** A level just set stands against older logs.
* **Chunk wipe.** What an "ok" listed and nobody touched is gone, and whole in its
  folder.
* **Trainers.** An upload found good is never of an older setting.

## 2. Modules

| Module | What it is |
|---|---|
| `SafehouseZones` | rectangles, overlap as the panel and as the mod compute it, and how the mod finds the zone a command means |
| `SafehouseRegistry` | abstract specification: what the server promises about its zones |
| `SafehouseBridge` | panel, mod and world with the files between them; refines `SafehouseRegistry` |
| `MCSafehouseBridge` | its instances for TLC |
| `SafehouseBridgeProofs` | theorems about it |
| `BridgeHeartbeat` | how the panel decides that the mod is alive, with a clock |
| `CityWipe`, `CityWipeProofs` | queue, command file, in-game commands and the start of sweeps |
| `SweepPlan` | abstract specification: a list of cities with the tiles still to handle |
| `CitySweep`, `MCCitySweep`, `CitySweepProofs` | cursor, budget and counters of the sweeps; refines `SweepPlan` |
| `MirrorPull`, `MCMirrorPull`, `MirrorPullProofs` | the pull of the host's tree, the requests beside it and `status.json` between them |
| `SignIn`, `MCSignIn`, `SignInProofs` | accounts, second factor, sessions, lockout |
| `ServerProfiles`, `MCServerProfiles`, `ServerProfilesProofs` | profiles, their index and the threads that reconcile it |
| `ConfigHost`, `MCConfigHost`, `ConfigHostProofs` | load, save and apply of the host's file under `host_conflict` |
| `PanelThreads` | what the next modules share: a list of threads that one thread leaves |
| `Scheduler` | task file and the loop that runs what is due |
| `WorkshopMonitor` | updates of a Workshop mod, the state file, restart sequences |
| `PackDeploy` | folders of mods on their way to the host, and the ini after them |
| `PanelJobs` | SteamCMD, Workshop downloads, provisioning, each in its thread |
| `PanelUpdates` | installers and rebuilds of the panel itself |
| `LocalServer` | the dedicated server of the smoke test |
| `EventBus` | the hub of the panel's events |
| `PlayerAccess` | access levels set over RCON and read from logs |
| `ChunkWipe` | wipe of one cell of the map |
| `TrainerSlots` | the trainers' line on the host and their bodies |
| `MCPanelParts` | `BridgeHeartbeat` and the ten modules above that share no state, each in behaviours of its own |
| `PanelPartsProofs` | theorems about all eleven of them |

`MCPanelParts` is not a composition: its initial state picks `part`, one of
eleven, whose actions alone are taken while the variables of the others stay as
they are. The parts share neither variables nor calls, so a product of them
would only multiply states.

### SafehouseBridge and the code

* `jobs` is the history of all jobs, `oldest` the first one still in the queue
  file (`save_queue` keeps 40). A nonce is a position in the history: what a
  fresh `uuid4` gives. A torn or unreadable queue file reads as an empty queue
  (`PanelCrash`).
* `Enqueue` is the handler of a create, update or release up to its first
  write: the panel's own overlap check on the dump it has, the body of *all*
  jobs still queued made before the queue is cut, then one of two ways on.
  On a local profile the same text is written up to three times
  (`WriteLocalCmd`) and the upload then fails for want of a client. On a remote
  profile STOR writes in place: the body is stored at once (`UploadStored`), or
  in two parts between which the mod may read and clear (`StorePart`,
  `StoreRest`), or it breaks off and leaves any prefix of it, cut anywhere
  (`UploadBroken`). It is then read back (`UploadVerified`): a mod that has
  emptied the file by then turns a delivery into a failed upload. If the mod
  clears the file between the two parts, the second one stands behind a hole;
  `lost` is history and names the jobs at or before such a hole.
* `PullDump` then `PullAck` is one refresh of the page: three files pulled one
  after the other, each of which may be missing or fail; then `mark_job_ack`.
* `ModRead`, `ModClear`, `RunBlock`/`SkipBlock` are `poll`: the panel may write
  between the read and the clear. A block that was cut is applied by what is
  left of it (`TornCommands`): a number that lost digits is another number and a
  field that is missing is 0 (`CutRects`), an owner can be missing or cut to the
  name of another player (`Clipped`). So a torn command can touch a zone nobody
  meant. One that is cut within its nonce runs on the rectangle 0,0,0,0 and is
  acked under a name no job has (`RunNameless`).
* `Claim`, `Leave`, `WorldSave`, `JvmStop`, `JvmStart` are the game. A stop
  keeps the world's last save and the files, and loses the nonces.
* Abstracted: title, members and factions of a zone; the order of the game's
  list, so `findHouse` may return any zone that fits; texts of errors.
* Assumed of the game: `addSafeHouse` makes the zone it is given, and the
  game refuses a player's claim that meets another zone.

The panel's handlers for this component never await, so a request is atomic
against other requests; it is *not* atomic against the game, which is why each
write of a file is an action.

### BridgeHeartbeat and the code

`Beat` is every call of `writeBridge`; `Tick` is a second that passes, and it may
pass any pulse, because the game of an empty server can be paused. `Pull` writes
the copy anew, so on a remote profile the copy's time stamp is the time of the
pull; `Loaded` is `_bridge_status`. `downAt` and `pulledAt` are history.

### CityWipe and CitySweep and the code

`CityWipe` follows `trigger_city_wipe`, `clear_queue` and `write_cmd_body` on
the panel's side and `pollPanelCommand`, `applyPanelLine` and
`onClientCommand` in the game. Nothing comes back: only `clear_queue` and a
failed upload take a line out of the queue. `forgotten` is history: wipes that
were cleared, whose empty file was stored, and that no reader holds. `filesKind`, the
kind of the profile, is chosen once, in `Init`. STOR writes in place here too
(`StorePart`, `StoreRest`, `UploadBroken`): a line of which only a part is there
has another nonce, or none and serves as its own, and a file cleared between the
two parts goes on behind a hole (`lost`).
`CitySweep` starts where `startJob` is called and models `tickJobs` with its
cursor `Move`, its counters `Count` and its budget; the only thing left of a
tile is whether its chunk is loaded. The branch of `tickJobs` that removes a job
already done at the start of a tick is never taken, because a job leaves in the
tick that finishes it.

### MirrorPull and the code

* One thread holds `_pull_lock`; `pc` is its place in `_run_pull` and
  `pull_tree`, and "idle" a free lock. A request starts whenever the lock is
  free, since the handler's look at the status came earlier; a resume has read
  its queue by then (`ResumeRead`, `ResumeStart`, `ResumeRefused`).
* Every change of `status.json` is a read of the whole record and a later write
  of it (`RunRead` and a `Status...` action, `AbortRead` and `AbortWrite`), with
  the count of the files in the mirror between them. A reader beside a writer
  may find the file empty (`Reads`), because `write_text` truncates it.
* `ViewRead`, `ViewCheck`, `ViewWrite` are `status()`, with which every handler
  and `_write_status` end: it writes only when the record says "pulling" and the
  lock is free at its look.
* `List` is `collect`: with or without sizes, and a directory that cannot be
  listed is an error or, when the host refuses, empty. `Keep`, `Retr`,
  `Compare`, `RetrFails` are `fetch_one`; `NextFile` is the loop, whose order is
  left open; `Merge` is `_merge_checksums`, which a paused pull reaches too.
  `pull_tree` of `sftp_client.py` has the same control.
* `RunFails` is an error outside the `try` around `fetch_one`, anywhere in the
  call: the host is not reached, or `_count_local`, which every write of the
  status calls, meets a file that is gone. Only `pull()` catches it
  (`StatusError`), and its record keeps the queue an earlier pause left; a
  verify or a resume leaves the record as it is. When that queue misses files of
  the last listing it is `Misled`, and excused.
* Abstracted: a file is one of a few versions, its MD5 is the version; counts,
  times and messages of the status; the second progress message after a file,
  which changes no field that is kept here.
* External: `RemoteChange` is the game server on the host, `LocalWrite` a local
  game whose `-cachedir` is the mirror.
* `touched`, `unnoted`, `owed`, `excused` are history, read by properties only.

### SignIn and the code

* `auth`, `rate` and `revoked` are `auth.json`, `login_rate.json` and
  `revoked_jti.json`; a session is a record with its number (`jti`), its version
  (`ver`) and its expiry.
* A request with a session is looked at three times: by the middleware
  (`Admit`, with the roles' forbidden paths and the step-up), by a dependency
  that runs in a thread (`Dependency`), and by the handler (`LogoutAll`,
  `TotpSetup`, `TotpEnable`, `TotpDisable`, `Answered`). Other requests run in
  between, so a session can end after it was let in.
* `RecordFailure` and `RecordSuccess` rewrite the whole file and prune it;
  `RevokeJti` cuts the list by expiry; `totp_pending` is one slot for all
  accounts, so the secret made last is the one that waits.
* Abstracted: a password or a code is right or wrong, the signing key never

### ServerProfiles and the code

* `index` is `servers.json`, `disk` the directory of profiles, `policy` the copy
  of the active profile's authority in `prefs.json`. Every access of a file is a
  step.
* `Use`, `ReadIndex`, `Reconcile`, `WriteReconciled`, `Migrate`, `Adopt` are
  `active_id`, `reconcile_index` and `ensure_migrated`, which any thread runs
  that asks for the active server; they fall between any two steps of a handler.
* `Pick` to `Unlink` are the handlers of the loop; `op` and `pc` say how far they
  are. A reader beside a writer may find the file empty, two writers may leave
  it empty, and a `Crash` too.
* Left out are the secrets of a profile, which `delete_server` leaves on the disk.

### ConfigHost and the code

* `Load`, `Save`, `Apply` run up to their first await: the path, from an index of
  files that may have been read from another server, and the client of the
  active one, or of the environment's (`EnvHost`) when the profile cannot be read
  at that moment (`Reached`, `Paths`). `Read`, `Check` or `Conflict`, and `PutLocal`, `PutTemp` or
  `PutNowhere` follow after an await each. The *kind* of the active server is
  asked for again before the write, the client is not.
* `Hash`, `Store`, `Verify`, `Done` are `upload_file` over the file
  `.upload_<name>`, which all saves of one name share. A store that fails may
  leave the host's file cut off, which counts as a new content (`StoreFails`).
* `prefs` is read and rewritten as a whole by handlers and by the pull's thread
  (`PullLoad`, `PullSave`); what was seen is kept per file name, for all servers.
* `HostWrites` is external: the hoster's panel. A content is a number, new for
  every writing; `shown` and `fresh` are history.

### Scheduler and the code

The task file is a set of records, and the due list a set that is worked off in any
order. It is kept with its seeds: an empty file reads as the default tasks,
so a deletion of the last task brings them back (`Stored`). `LoopWakes` reads the
due tasks once; `LoopSends` and `LoopMarks` are one task's command and
`mark_task_run` after its answer or its error, with any request between them. A
cron line is the set of minutes it fits, or `Malformed`, which raises in
`cron_matches` and ends the round (`Raises`).

### WorkshopMonitor and the code

The state file is fetched for, read, truncated and written by the event loop and
by the monitor's worker thread (`io`), with no lock. `StartLooks` and
`StartSets` are `start_graceful_restart`, which looks at the flag under its lock
and sets it under the lock later. `GuidedStep` is the countdown, which lowers
the flag however it ends; `BlindStep` is the sequence of the other button, which
ignores errors. A command over RCON is tried twice and may have run although it
failed (`Rcon`).

### PackDeploy and the code

One request at a time, because the handler holds the event loop; a download
swaps folders beside it (`Swap`), and the hoster edits the ini. `Look`, `Put`
and `Notes` are `sync_modpack` for one file: sftp reads back what it stored, ftp
does not, so a file that an ftp host cut short is noted as sent (`excused`). A
protected path is skipped. The ini part asks `host_conflict` only in
`_append_ids_to_remote_ini` (`Clash`); a folder whose files had errors is not
among the ids.

### PanelJobs and PanelUpdates and the code

`PanelJobs` has the three kinds of `Kinds`. The flag goes up in the request for
an install or a download, and only in the thread for a provisioning, so several
of those may run. `MakeDirs` is outside the `try` of `download_batch`: it can
end the thread with the flag still up. A folder that a failed download left
counts as present (`Missing`). `BatchDone` is the last `on_progress`, which
writes "done" before `DownloadEnds` looks at the errors. Of an item only the
folders with a `mod.info` are linked, under their bare names (`Linked`), so two
items with a folder of one name replace each other's link; `LinkFails` ends the
batch after it has removed what was there.
`PanelUpdates` has one thread per request and one record for all; `Check`,
`Fetch` and a move are `download_latest_setup`: the move renames when the name is
free and the volume the same (`MoveIn`), or else copies over what is there
(`CopyBegins`, `CopyEnds`), which can break off (`DownloadFails`) and leave a part
of an installer. `Apply` takes the path it is given, that of the record, or the
newest installer in the folder, whole or not, and a rebuild copies `panel/` and then `tools/`.

### LocalServer, EventBus and PlayerAccess and the code

* `LocalServer`: `Spawn` and `NotesPid` are apart, so a crash or a second start
  falls between them; a child that ended stays a zombie until the next one is
  started, and its pid counts as alive. `Verdict` is `smoke_status` over
  `parse_world_status`, of the console, of the newest server's own log or of the
  test server's (`TestLogs`), whichever was written last (`LogLines`).
* `EventBus`: what is done under the lock is one step; `Sends` awaits one browser
  after the other over the list taken at the start, and a send may raise on an
  open connection too (`broken`); `Prunes` removes those that failed, by the ids
  learned before.
* `PlayerAccess`: `RconAnswers` and `RecordLevel` are apart, because the answer is
  awaited. The game may have refused the command, which is taken down all the
  same (`Refused`), and the active server may be another by then
  (`RecordElsewhere`). `EnrichPlayers` merges the mirror's copy of the log not more often
  than `LOG_SYNC_TTL` allows, and not over a level younger than
  `RCON_CACHE_TTL`.

### ChunkWipe and TrainerSlots and the code

* `ChunkWipe`: `Lists`, `CopyBegins` and `CopyEnds` or `CopyFails`, `Unlink` and
  `Delete` are `apply` for one file; a folder is named by the second and the cell, a file in it by its
  name alone, so copies of two roots share a place, and two wipes of the
  same second may have one file open (`Shared`), which may then hold anything.
  `loose` marks the files that somebody else wrote or removed since they were
  listed, and those whose backup another copy was written into.
* `TrainerSlots`: the handler sets and writes the temporary file on the loop, the
  upload runs in a thread (`Hash`, `PutOpens`, `PutEnds`, `Verify`), and the end
  removes the file that another request may be sending. `ModTick` is the mod's
  minute, which makes and removes bodies until they fit the line.

## 3. Runs

| Run | Question | Bounds, and why they suffice |
|---|---|---|
| `bridge_world` | zones against players' claims and commands that fall back to another zone or are cut; the refinement of the registry | no folder on the panel's machine, a queue of 1 so that a job drops out of later bodies, 3 rectangles, of which two touch and one overlaps both, so placed that the line `y=` of two of them without its last digit names a square of the third, 2 players of whom one's name cut is the other's, 2 jobs, 1 move, restart and crash: a zone can be gone and taken by another between a command and its run |
| `bridge_split` | resends, torn files and stores in place, late acks: once per JVM, in order, true and final answers, errors without effect | 3 jobs with a queue of 2 make a job leave the queue; 1 restart makes a job run twice; 2 overlapping rectangles |
| `bridge_live` | the command file empties, the dump catches up | a local profile, 2 jobs written up to three times each, 1 restart, 1 move; fair |
| `wipe_panel` | wipes of one JVM in order and once, cleared stays cleared | a remote or a local profile, stores in parts and torn lines; 3 wipes with a queue of 2, so one line leaves the queue; a crash of the panel, a restart, a sweep asked for in the game |
| `wipe_rerun` | *violated*: "clear file so we do not re-run" | 2 wipes and 1 restart |
| `sweep_covers` | cursor and budget against the plan; every sweep ends | cities of 8 and 2 tiles on 2 floors, 3 tiles a tick, so ticks end within floors, rows and cities; 2 sweeps; 1 stop; fair |
| `mirror_pull` | checksums true, full pulls full, complete mirrors whole | 2 files, 3 versions of which two have one size, so a change is or is not seen by the size; 2 requests, so a resume follows a pull that paused; 1 change, abort or crash |
| `sign_in` | lockout, ended sessions, secrets | an administrator and a moderator, 1 address, a clock to 3 with a window and a lock of 2 and a session's life of 3, so that all of them run out, 2 failures to a lock and 3 in all, 2 sessions, 2 secrets so that one replaces the other in its slot, 1 request in flight at a time beside those without a session; `FewEvents` keeps a behaviour to 4 failures, secrets and sessions together |
| `profiles` | no profile is written over; the index heals | 3 ids, one of them the environment's, 1 worker beside the loop, 3 requests, 1 crash: create, delete and create again of one id with a stale index between them; fair |
| `config` | writes go home; nothing unseen is lost | 2 rented servers, one of them the environment's, and one of the panel's own, 2 requests at a time and 3 in all, 2 contents, 1 switch, pull and refresh but not all three; requests are symmetric |
| `panel_parts` | one property of each of eleven parts, and all their types | `PanelParts.cfg` names them: mostly two of each actor, one death, and one more event than a part can hold; the heartbeat's clock to 8 with a limit of 2, so that a stop can grow old after a last pull; the console's tail of 2 lines out of 3, so that a line can drop out of it; about a million and a half states in all |
| `restart_twice` | *violated*: "Graceful restart already running" | 2 starts |

The bridge and the wipe never come to rest (the mod pulses, the page can be
refreshed, the queue cleared) and profiles are asked for as long as the panel
runs, so deadlock is checked there. In `sweep_covers`, `mirror_pull`, `sign_in`,
`config` and `panel_parts` the bounded requests run out and the system really is
quiet; there `CHECK_DEADLOCK` is off. Tried by hand beyond these bounds, with no
error: the mirror with 3 requests and no upset, and with 1 file, 3 requests and
2 upsets.

`CONSTRAINT FewEvents` in `sign_in` stops behaviours after a number of failures,
secrets and sessions. In `config` it leaves out those with a switch, a pull and
a refresh together, in `panel_parts` those with two wipes of a cell, a save and a
second that ends, and those with two deployments over plain ftp and an upset.
These runs check safety only, and each property is broken by its mutant within
the constraint.

**Fairness.** `bridge_live` assumes weak fairness of the panel's request in
progress (a handler ends: every network call has a timeout), of the mod's poll
(`OnTick`), of the pulse (`EveryOneMinute`) and of the start of the server (the
host restarts it). It assumes none of the administrator, the players, the saves
or the stops. `sweep_covers` assumes that a running game ticks. `profiles`
assumes that a thread which reconciles goes on, that the panel's loops ask for
the active server again and again as long as it runs, and that a handler in
progress ends; it assumes no request.

### Findings

1. `wipe_rerun`: wipes stay queued in the panel until the queue is cleared by
   hand, so the next trigger sends the lines of earlier ones again, and a JVM that
   restarted, which has no nonces, starts them again.
2. `restart_twice`: `start_graceful_restart` reads the flag under its lock and
   sets it under the lock later, so the monitor's thread and a request both find
   no restart running and both start one.

More facts, seen in the models and not run as findings.

* *City wipe.* A line torn by a broken upload has another nonce than the whole
  line, so its wipe can start twice in one JVM; and when the mod clears the file
  half-way through a store, what comes behind the hole starts before what stood
  in it. `StartsInOrder` excepts both (`ByLine`, `lost`). On a local profile every
  triggered wipe is called `upload_failed` and is missing from the next body, and
  the second write of one request can start its own wipe again after a restart.
  `TriggerCityWipeBatch` does not look at `Config.cityWipe`:
  `DisabledMeansNoWipe`, in `CityWipe` and in no run, fails.
* *Bridge.* The ack file holds the last result only: the jobs of a batch before
  the last stay queued until they leave the queue, because a repeated job is
  skipped without an ack. After a restart a create that succeeded can be shown as
  an error, because it meets the zone it made; this is why `ErrorMeansNoEffect`
  speaks of one life of the JVM. A command cut within a number, a name or its
  nonce is applied to whatever it then names, which can be the zone of a player
  nobody meant; `RegistrySpec` and `ZonesDisjoint` say what even such a command
  cannot do. When the mod clears the file half-way through a store, the jobs
  behind the hole overtake those at or before it: `FirstRunsInOrder` excepts
  these (`lost`).
* *Heartbeat.* `mods/MeatballsSafehouses/README.md:14` says "panel knows the mod is
  polling". On a remote profile the age of the heartbeat is the age of its last
  pull, so a server that is down looks loaded after each pull:
  `LoadedMeansPolling`, in no run, fails there. What holds is
  `StoppedIsNoticed`: a stop shows once the pulls have not brought a copy for as
  long as the limit.
* *Mirror.* A `status()` that reads the record before a pull ends and looks at
  the lock after it writes "broke off, paused" over a pull that was complete. A
  pull that fails after its listing, in the count of the files, leaves the queue
  of an earlier pause in the record, or only its corrupt file, and a resume of it
  is called complete although it leaves out files of the later listing. An
  abort empties the queue and keeps the corrupt file, so a resume after it
  fetches that one file and calls the mirror complete. A resume after a pull with
  a listing error is called complete too, because the directory that was not
  listed is in no queue. When a host refuses MLSD, `_parse_mlsd` swallows the
  `error_perm`, the fallback to NLST never runs, and the directory counts as
  empty. An abort between the lock and `_pause_flag.clear()` is lost. A verify
  compares the MD5 of a copy with nothing; it notes the new one.
  `CompleteIsWhole` therefore speaks of the files that were listed, and its
  `excused` names the abort, the crash, the old record and the older queue.
* *Sign-in.* `panel/auth.py:36` says "bump token_version to revoke all sessions".
  `decode_token` does not compare the version of a session of the local bypass
  (line 406), so a logout of all and a change of the second factor leave local
  sessions valid until they expire or log out. `EndedStaysOut` says so: what was
  dismissed is not valid *unless it is local*. A request that was let in before
  its session ended is carried out.
* *Profiles.* `delete_server` refuses the last profile by the ids of the index. A
  thread in `reconcile_index` that listed the directory before an earlier
  deletion writes the deleted id back after it, so the index names two profiles
  where one is left, and that one can be deleted. `ProfilesKept` speaks of
  files that are written over, and is not touched by this. `delete_server` leaves
  the secrets of the profile (`servers.py:923`), and `save_secrets` merges new ones
  into those it finds (`servers.py:210`): a later profile of the same id inherits
  those it is not given anew.
* *Restarts.* With a local copy of the mod an acknowledgement is not looked at
  (`IsNews`), and one that falls between a check's read and its write is lost.
* *Scheduler.* One enabled task with a malformed schedule ends every round of the
  loop before any task runs; a command of a deleted task already due is sent.
* *Jobs.* A download whose folder cannot be made leaves its flag up, and every
  later one is refused until the panel is restarted. The record says "done"
  before anybody has looked at the errors of the batch, and may then turn to
  "error" (`BatchDone`, `DownloadEnds`). The folders with a `mod.info` of two items
  that have one name, such as `42`, replace each other's link, and an item without
  a `mod.info` is a success that is linked nowhere.
* *Updates.* A copy of an installer that breaks off leaves a part of it in the
  folder, which no sum is compared with again: `Apply` can start it, by its path
  or as the newest file.
* *Event bus.* A browser to which a send raised leaves the table while its handler
  goes on: it gets no more events until it connects again.
* *Player access.* A level that the game refused is taken down like one it set,
  and for whichever server is active when the answer comes.

## 4. Proofs

All theorems hold for every value of the constants that the named assumptions
allow: any sets of rectangles, players, files, accounts, servers or requests,
and any lengths and spans. The bounds in the guards only make TLC's instances
finite; the proofs do not use their values, except to type their counters.

| Theorem | Statement | Argument |
|---|---|---|
| `TypeCorrect` | `Spec => []TypeOK` (bridge) | inductive as it stands, one lemma per action |
| `ZonesNeverOverlap` | `Spec => []ZonesDisjoint` | `ZonesInv`: the running *and* the saved world are disjoint, since a restart goes back to the save; each command's effect is one of four changes (`EffectsAreChanges`), each of which keeps zones apart, because overlap is symmetric and the panel's and the mod's tests agree |
| `BridgeImplementsRegistry` | `Spec => RegistrySpec` | every step changes the two variables of the registry as one of its actions does, or not at all; what is read of a torn block is some command (`TornIsReadable`, `NamelessEffect`), and any command's effect is such a change (`TornEffectsAreChanges`) |
| `RunsOncePerLife` | `Spec => []OncePerLife` | `LogInv`: the log of this life holds exactly nonces that are in `seen` |
| `AcksAreTruthful` | `Spec => []AckTruthful` | `AckInv`: the ack file and every copy of it are results that were reported; only `mark_job_ack` answers a job; a job whose upload can still fail is not answered |
| `AnswersStay` | `Spec => AnswersAreFinal` | from the same invariant: only a queued job changes |
| `ErrorsHadNoEffect` | `Spec => []ErrorMeansNoEffect` | before a restart each nonce has one result |
| `JobsRunInOrder` | `Spec => FirstRunsInOrder` | an invariant over all places a job can be in (queue, body, file, blocks read, nonces), with a store that is half done among them: whatever is further along the way is older than, or known to, everything behind it, or what is behind it is `lost` |
| `StoppedServersAreNoticed` | `BridgeHeartbeat`: `StoppedIsNoticed` | `Dated`: no time stamp of the copy is younger than the last pull that brought one, and while the server is down no beat is younger than its end |
| `WipeTypeCorrect` | `Spec => []TypeOK` | conjunct of the wipe's invariant |
| `WipesStartInOrder` | `Spec => []StartsInOrder` | `OrderInv`: of what has started, the lines read, the file, the body being written and the queue, whatever is further along the way is older than what is behind it, or what is behind it is `lost`; torn lines count for nothing (`WIds`) |
| `ClearedWipesStayCleared` | `Spec => ClearHolds` | no forgotten wipe is queued, in the body being written, in the file or in the lines read |
| `MirrorTypeCorrect` | `Spec => []TypeOK` | conjunct of the mirror's invariant; a queue names no file twice (`QueuesOK`), so verified files and files to visit are apart (`DoneOK`) |
| `ChecksumsStayTrue` | `Spec => []ChecksumsTrue` | a verified file with an MD5 has that content, or was written by the local game since; `Merge` notes exactly these |
| `FullPullsAreFull` | `Spec => []FullPullIsFull` | `CopyOK`: of the files nobody wrote during the pull, each one listed with a size still has it on the host, each one no longer to visit is copied, and the `.part` file holds the host's content |
| `CompleteMirrorsAreWhole` | `Spec => []CompleteIsWhole` | `WholeInv`: a record is complete only when no pull is between its listing and its end (`CompleteOK`), and, unless it is excused, a file that is owed is in the queue of every record a resume could still take up, and in the plan under way (`AccountOK`); an error keeps the queue of the record it found |
| `SweepsAreWhole` | `Spec => []ReportIsComplete` | `SweepInv`: a job's log is exactly the tiles before its cursor (`Before`), its counters count them, and a round adds one tile that is new; the size of a box of tiles is the product of its sides |
| `SweepsFollowThePlan` | `Spec => PlanSpec` | a round takes one tile from the first city of the plan, or the city with its last tile; a tick of at most `Budget` rounds takes a set of tiles |
| `ProfilesTypes` | `Spec => []TypeOK` | the index names nothing twice, whatever order a thread keeps |
| `ProfilesStay` | `Spec => ProfilesKept` | `PickIsFree`: the id a creation picked is not in the directory until it is written, since only the loop writes profiles and it is in that handler; the environment's profile, which any thread may write, is the exception |
| `SignInTypes` | `Spec => []TypeOK` | sessions are finitely many, and their numbers count them |
| `RevocationLasts` | `Spec => []EndedStaysOut` | `SessionsInv`: a session that is `Gone` (logged out, or dismissed by a logout of all and not local) is in the list of revoked ones, is past its expiry, or is not local and of an older version than the file (`Out`); the version only grows, and the list loses only what has expired |
| `SecretsAreOwn` | `Spec => []SecretIsOwn` | `SecretsInv`: an account's secret and the one in the slot were made for the name beside them |
| `LockoutHolds` | `Spec => []NoBurst` | `FailuresInv`, per key: a failure is still counted, or older than the window, or under a lock that lasts as long (`Counted`), and fewer than `MaxFails` are counted; so, without a lock, the failure `MaxFails` back is a window old (`Spans`); uses `LockTime >= Window` |
| `ConfigTypes` | `Spec => []TypeOK` | what is remembered was shown, sent or mirrored (`Remembers`); one step moves one request |
| `SavesStayHome` | `Spec => WritesWhereRead` | `AllHome`: a request that will write on a server still has the client and the path it read with |
| `UnseenStaysSafe` | `Spec => NothingUnseenLost` | `AllKnown`: what a request with a record read was shown, is its own, or came after its look; files change only into something shown or new |
| `UploadsAreNotOlder` | `TrainerSlots`: `SentIsNotOlder` | `SlotsInv`: the temporary file is written on the loop in the order of settings, so what a request finds there is its own, newer or blank |
| `FlagsHaveOwners` | `WorkshopMonitor`: `FlagHasOwner` | `FlagInv`: the flag goes up with a guided sequence and is down after any of them ended |
| `ReadyInstallersAreWhole` | `PanelUpdates`: `ReadyIsWhole` | `FolderInv`: a thread past its check has a version, and one that copies into the folder copies a whole file unless the version is noted in `blind` or `entangled` (`Sound`); a record that says ready names a version |
| `BrowsersStaySubscribed` | `EventBus`: `LiveStaySubscribed` | `BusInv`: an id is given out once (`Issued`), and what a task will prune belongs to a connection on which a send raised (`Gone`) |
| `WipedFilesAreGone` | `ChunkWipe`: `WipedIsGone` | `WipeInv`: of a wipe without errors, each listed file that it is done with and nobody touched is gone here and there and whole in its folder (`Clean`); only the files in hand may be half way |
| `TasksRunOnce` | `Scheduler`: `OncePerMinute` | `SchedInv`: what the loop ran for this minute carries the minute's stamp or is the run under way, and a new task's id was never used |
| `DeploymentsAreWhole` | `PackDeploy`: `DeployedIsWhole` | `DeployInv`: each file of the folder in hand is as it should be, still to be sent, or noted as an error; a folder found good is not written again, because a request names a folder once |
| `StartsPass` | `LocalServer`: `StartedPasses` | `LocalInv`: every line and every pid is that of a process that was started; of either log the tail read holds the mark (`OwnTail`), and the mark outranks the fatal lines beside it (`ReadyPasses`) |
| `GrantsStand` | `PlayerAccess`: `FreshGrantStands` | `AccessInv`: while a level set over RCON is fresh the table holds what was told last, and the copy of the log is a beginning of the game's |
| `PartsTypes` | all parts: `PartsTypeOK` | the types of the eleven parts, from the invariants above and those of the bus, the wipe, the jobs, the monitor and the updates |
| `JobsDoneAreDone` | `PanelJobs`: `DoneIsDone` | `JobsInv`: each of the items a download is done with, unless it met an error, has its folder, and each name its mods go by leads to one of these items (`Kept`); what a thread left behind is what its place says (`Fine`), and no two threads install or download at once (`Sole`) |

The theorems of `PanelPartsProofs`, those from `UploadsAreNotOlder` on and
`StoppedServersAreNoticed`, are stated of `PartsSpec`, the specification that
`panel_parts` checks: each first shows that a step of it is a step of the one
part or leaves that part alone.

Two definitions are recursive functions: `Kept` of `ServerProfiles`, which
filters the index, and `Walk` of `CitySweep`, the rounds of a tick. What they
compute is shown by taking the least argument at which the claim fails, because
induction itself needs an operator as a parameter.

Only model-checked is liveness: `FileDrains`, `DumpCatchesUp`, `SweepsEnd`,
`IndexHeals`. Fairness and `ENABLED` are out of the prover's reach. Every other
property of a passing run is a theorem.

## 5. Not modelled

* *Compositions.* `ServerProfiles` with `SafehouseBridge`: the queue file is found
  by the active profile at every call, so an activation between a job and its
  ack looks for the nonce in another queue. Each of the two is close to what can
  be enumerated by itself. `ConfigHost` has the switch of the active server in
  it, which is where a write could go astray.
* *Bridge:* `probe_install`, the member lists inside a job, the client's cached
  list. *City wipe:* what a sweep does to the objects on one square.
* *Sign-in:* the secret of the environment (`ADMIN_TOTP_SECRET`), CSRF, the switch
  that turns sign-in off, the web socket's check, roles edited by hand while the
  panel runs. *Profiles:* the fields of a profile, its secrets, the tests of a
  connection.
* *Config:* the backup before a write, the catalogue of mods an apply reads its
  ids from. *Mirror:* the caps on depth and number of files, skipped
  directories, a switch of the profile during a pull.
* *Restarts:* several mods at a time, the text of warnings. *RCON:* packets and
  authentication. *Trainers:* where and how a body is put into the world, bodies
  found by their tag. *Local process:* the scan of processes on Windows, the
  rotation of logs, the download of the dedicated server.
* *Jobs and updates:* the cache and the snooze of the update check,
  `backup_state_zip`, `server_uptime`. *Deployment:* a compile without a
  deployment, an analysis, the contents of merged files.
* Left out for good: the web UI, packaging and pack tools, catalogues, maps,
  reports and the other mods' client code, which keep no state of their own or
  only draw it.
