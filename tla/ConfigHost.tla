----------------------------- MODULE ConfigHost -----------------------------
(***************************************************************************)
(* Editing one watched file (world.ini) of the active server: load, save,  *)
(* and apply (the list of mods), while servers are switched, the index of  *)
(* files is refreshed by a thread, a mirror pull ends, and the hosters and *)
(* their own panel write the file too.                                     *)
(*                                                                         *)
(* Handlers run on the event loop and give it up at every await; what they *)
(* await (reading, hashing, storing, verifying) runs in threads.  A path   *)
(* of a remote server is the same on every remote server; a path of a      *)
(* local one is a file of that server.  A content is a number, new for     *)
(* every writing, whole or not.  The backup before a write is left out.    *)
(***************************************************************************)
EXTENDS Naturals, FiniteSets

CONSTANTS
    Servers,
    Local,            \* those whose files lie on the panel's machine
    WinsOf,           \* per server, whether its host has the last word
    EnvHost,          \* the server the environment describes, or None
    Ops,              \* requests in flight
    Remote,           \* the path on a remote server
    None,
    MaxContent,       \* bound: contents written
    MaxSwitches,      \* bound: activations, reconciliations and preferences set
    MaxRequests,      \* bound: requests
    MaxPulls,         \* bound: mirror pulls
    MaxRefreshes      \* bound: refreshes of the index of files

ASSUME ConfigAssumption ==
    /\ Local \subseteq Servers /\ WinsOf \in [Servers -> BOOLEAN]
    /\ EnvHost \in (Servers \ Local) \cup {None}
    /\ None \notin Servers /\ Remote \notin Servers /\ Remote # None
    /\ MaxContent \in Nat \ {0} /\ MaxSwitches \in Nat /\ MaxRequests \in Nat
    /\ MaxPulls \in Nat /\ MaxRefreshes \in Nat

VARIABLES
    active,           \* the active server
    cached,           \* _config_index: the path it gives the file, or None
    refresh,          \* a refresh under way: the path it will give, or None
    prefs,            \* prefs.json: policy and the content remembered (0: none)
    host,             \* per server, and for the path Remote taken as one of the
                      \* panel's own machine, the content there (0: none)
    temp,             \* the file an upload is sent from (0: none)
    op,               \* the requests
    pull,             \* a pull that is writing down what it brought
    count,            \* bounds: what was spent
    \* history: contents the panel showed, sent or mirrored; the last content
    \* that was made
    shown, fresh

vars == <<active, cached, refresh, prefs, host, temp, op, pull, count, shown, fresh>>

Places == Servers \cup {Remote}
PathOf(s) == IF s \in Local THEN s ELSE Remote
EmptyPrefs == [wins |-> TRUE, seen |-> 0]

Idle == [pc |-> "idle", kind |-> "load", from |-> None, path |-> None, client |-> None,
         content |-> 0, previous |-> 0, hash |-> 0, recorded |-> FALSE, since |-> 0]
NoPull == [pc |-> "idle", wins |-> TRUE, content |-> 0]

Init ==
    /\ active \in Servers
    /\ cached = None /\ refresh = None
    /\ prefs = [wins |-> WinsOf[active], seen |-> 0]
    /\ host = [p \in Places |-> IF p = Remote THEN 0 ELSE 1]
    /\ temp = 0 /\ op = [o \in Ops |-> Idle] /\ pull = NoPull
    /\ count = [switch |-> 0, request |-> 0, pull |-> 0, refresh |-> 0]
    /\ shown = {} /\ fresh = 1

Spend(what, bound) == count[what] < bound /\ count' = [count EXCEPT ![what] = @ + 1]
-----------------------------------------------------------------------------
(* Preferences: read and rewritten by handlers, and by the pull's thread. *)

Loaded == {prefs} \cup (IF pull.pc = "saving" THEN {EmptyPrefs} ELSE {})

Saved(value) ==
    prefs' \in {value} \cup (IF pull.pc = "saving" THEN {EmptyPrefs} ELSE {})

\* remember_remote, of a content that is about to be shown or was sent.
Remember(content) ==
    /\ \E p \in Loaded : Saved([p EXCEPT !.seen = content])
    /\ shown' = shown \cup {content}

\* host_conflict: nothing remembered, nothing changed, or the same change.
Clash(p, previous, content) ==
    p.wins /\ p.seen # 0 /\ previous # p.seen /\ previous # content
-----------------------------------------------------------------------------
(* Which server. *)

\* activate_server and the handler around it: the policy follows, and the index
\* of files is thrown away.
Activate(s) ==
    /\ Spend("switch", MaxSwitches)
    /\ active' = s /\ cached' = None
    /\ \E p \in Loaded : Saved([p EXCEPT !.wins = WinsOf[s]])
    /\ UNCHANGED <<refresh, host, temp, op, pull, shown, fresh>>

\* A thread that reconciles the index of servers changes the active one alone.
Reconciled(s) ==
    /\ Spend("switch", MaxSwitches)
    /\ active' = s
    /\ UNCHANGED <<cached, refresh, prefs, host, temp, op, pull, shown, fresh>>

SetPolicy(wins) ==
    /\ Spend("switch", MaxSwitches)
    /\ \E p \in Loaded : Saved([p EXCEPT !.wins = wins])
    /\ UNCHANGED <<active, cached, refresh, host, temp, op, pull, shown, fresh>>

\* _files_client: the active server, or that of the environment if the profile
\* cannot be read at that moment, whatever its kind is.
Reached == {active} \cup ({EnvHost} \ {None})

\* What _refresh_config_index finds.
Paths == {PathOf(s) : s \in Reached}

\* list_configs: a thread walks the tree of what is reached when it starts.
RefreshStart ==
    /\ refresh = None
    /\ Spend("refresh", MaxRefreshes)
    /\ refresh' \in Paths
    /\ UNCHANGED <<active, cached, prefs, host, temp, op, pull, shown, fresh>>

RefreshEnd ==
    /\ refresh # None
    /\ cached' = refresh /\ refresh' = None
    /\ UNCHANGED <<active, prefs, host, temp, op, pull, count, shown, fresh>>
-----------------------------------------------------------------------------
(* Requests. *)

\* Where the file is that a path means to a local server (NoClient) or a client.
Target(client, path) ==
    IF client = None THEN {p \in Places : p = path}
    ELSE IF path = Remote THEN {client} ELSE {}

Set(o, fields) == op' = [op EXCEPT ![o] = fields]
End(o) == Set(o, Idle)

\* Up to the first await: the path (of an index that is read first if there is
\* none), and the client of the server that is reached.
Begin(o, kind, content) ==
    \E server \in Reached, path \in IF cached = None THEN Paths ELSE {cached} :
    /\ op[o].pc = "idle"
    /\ Spend("request", MaxRequests)
    /\ cached' = path
    /\ ~ (kind = "apply" /\ server \in Local)
    /\ Set(o, [Idle EXCEPT !.pc = "read", !.kind = kind, !.path = path,
                   !.client = IF server \in Local THEN None ELSE server,
                   !.content = content])
    /\ UNCHANGED <<active, refresh, prefs, host, temp, pull, shown>>

Load(o) == Begin(o, "load", 0) /\ UNCHANGED fresh

\* An editor sends something new, or something it was shown.
Save(o) ==
    \/ \E content \in shown : Begin(o, "save", content) /\ UNCHANGED fresh
    \/ fresh < MaxContent /\ fresh' = fresh + 1 /\ Begin(o, "save", fresh')

Apply(o) == fresh < MaxContent /\ fresh' = fresh + 1 /\ Begin(o, "apply", fresh')

Read(o) ==
    /\ op[o].pc = "read"
    /\ \E place \in Target(op[o].client, op[o].path) :
          /\ host[place] # 0
          /\ Set(o, [op[o] EXCEPT !.pc = "check", !.from = place, !.previous = host[place],
                         !.since = fresh])
    /\ UNCHANGED <<active, cached, refresh, prefs, host, temp, pull, count, shown, fresh>>

\* The connection fails, or there is no such file.
ReadFails(o) ==
    /\ op[o].pc = "read"
    /\ End(o)
    /\ UNCHANGED <<active, cached, refresh, prefs, host, temp, pull, count, shown, fresh>>

Loads(o) ==
    /\ op[o].pc = "check" /\ op[o].kind = "load"
    /\ Remember(op[o].previous)
    /\ End(o)
    /\ UNCHANGED <<active, cached, refresh, host, temp, pull, count, fresh>>

\* Mutant: what was read is remembered before it is compared.
PassesEarly(o, p) == ~ Clash([p EXCEPT !.seen = op[o].previous], op[o].previous, op[o].content)

Passes(o, p) == ~ Clash(p, op[o].previous, op[o].content)

Conflict(o) ==
    /\ op[o].pc = "check" /\ op[o].kind # "load"
    /\ \E p \in Loaded : ~ Passes(o, p)
    /\ Remember(op[o].previous)
    /\ End(o)
    /\ UNCHANGED <<active, cached, refresh, host, temp, pull, count, fresh>>

\* Mutant: what is to be sent is remembered before it is sent.
CheckRemembers(o) ==
    /\ op[o].pc = "check" /\ op[o].kind # "load"
    /\ Passes(o, prefs)
    /\ Set(o, [op[o] EXCEPT !.pc = "put"])
    /\ prefs' = [prefs EXCEPT !.seen = op[o].content]
    /\ UNCHANGED <<active, cached, refresh, host, temp, pull, count, shown, fresh>>

\* No clash: then the backup is awaited.
Check(o) ==
    /\ op[o].pc = "check" /\ op[o].kind # "load"
    /\ \E p \in Loaded :
          /\ Passes(o, p)
          /\ Set(o, [op[o] EXCEPT !.pc = "put", !.recorded = p.wins /\ p.seen # 0])
    /\ UNCHANGED <<active, cached, refresh, prefs, host, temp, pull, count, shown, fresh>>

\* Mutant: the client is asked for again.
NowClient(o) == active

\* The client that the file was read with.
SameClient(o) == op[o].client

\* The kind of the active server is asked for again, and taken for remote if the
\* profile cannot be read; the client is not asked for: from local to remote there
\* is none, from remote to local the path is taken as one of this machine.
PutLocal(o) ==
    /\ op[o].pc = "put" /\ op[o].kind = "save" /\ active \in Local
    /\ Set(o, [op[o] EXCEPT !.pc = "write", !.client = None])
    /\ UNCHANGED <<active, cached, refresh, prefs, host, temp, pull, count, shown, fresh>>

PutTemp(o) ==
    /\ op[o].pc = "put" /\ op[o].client # None
    /\ temp' = op[o].content
    /\ Set(o, [op[o] EXCEPT !.pc = "hash", !.client = SameClient(o)])
    /\ UNCHANGED <<active, cached, refresh, prefs, host, pull, count, shown, fresh>>

PutNowhere(o) ==
    /\ op[o].pc = "put" /\ op[o].client = None
    /\ End(o)
    /\ UNCHANGED <<active, cached, refresh, prefs, host, temp, pull, count, shown, fresh>>

\* _write_text_file makes the directories it needs.
Write(o) ==
    /\ op[o].pc = "write"
    /\ host' = [host EXCEPT ![op[o].path] = op[o].content]
    /\ Remember(op[o].content)
    /\ End(o)
    /\ UNCHANGED <<active, cached, refresh, temp, pull, count, fresh>>

\* upload_file: the MD5 of the file, then the file, which other saves of the same
\* name write and remove too.
Hash(o) ==
    /\ op[o].pc = "hash"
    /\ Set(o, [op[o] EXCEPT !.pc = IF temp = 0 THEN "failed" ELSE "store", !.hash = temp])
    /\ UNCHANGED <<active, cached, refresh, prefs, host, temp, pull, count, shown, fresh>>

Store(o) ==
    /\ op[o].pc = "store" /\ temp # 0
    /\ \E place \in Target(op[o].client, op[o].path) :
          host' = [host EXCEPT ![place] = temp]
    /\ shown' = shown \cup {temp}
    /\ Set(o, [op[o] EXCEPT !.pc = "verify"])
    /\ UNCHANGED <<active, cached, refresh, prefs, temp, pull, count, fresh>>

\* The file on the host is as it was, or cut off, since STOR empties it first.
StoreFails(o) ==
    /\ op[o].pc = "store"
    /\ \/ UNCHANGED <<host, fresh>>
       \/ /\ fresh < MaxContent /\ fresh' = fresh + 1
          /\ \E place \in Target(op[o].client, op[o].path) :
                host' = [host EXCEPT ![place] = fresh']
    /\ Set(o, [op[o] EXCEPT !.pc = "failed"])
    /\ UNCHANGED <<active, cached, refresh, prefs, temp, pull, count, shown>>

Verify(o) ==
    /\ op[o].pc = "verify"
    /\ \E place \in Target(op[o].client, op[o].path) :
          Set(o, [op[o] EXCEPT !.pc = IF host[place] = op[o].hash THEN "done" ELSE "failed"])
    /\ UNCHANGED <<active, cached, refresh, prefs, host, temp, pull, count, shown, fresh>>

Done(o) ==
    /\ op[o].pc = "done"
    /\ temp' = 0
    /\ Remember(op[o].content)
    /\ End(o)
    /\ UNCHANGED <<active, cached, refresh, host, pull, count, fresh>>

UploadFailed(o) ==
    /\ op[o].pc = "failed"
    /\ temp' = 0
    /\ End(o)
    /\ UNCHANGED <<active, cached, refresh, prefs, host, pull, count, shown, fresh>>
-----------------------------------------------------------------------------
(* The others. *)

\* The hoster's panel, or an administrator on the machine.
HostWrites(s) ==
    /\ fresh < MaxContent
    /\ fresh' = fresh + 1
    /\ host' = [host EXCEPT ![s] = fresh']
    /\ UNCHANGED <<active, cached, refresh, prefs, temp, op, pull, count, shown>>

\* The file as a pull has mirrored it.
PullTake ==
    /\ pull.pc = "idle" /\ active \notin Local
    /\ Spend("pull", MaxPulls)
    /\ pull' = [pc |-> "loading", wins |-> TRUE, content |-> host[active]]
    /\ UNCHANGED <<active, cached, refresh, prefs, host, temp, op, shown, fresh>>

\* remember_watched_from_dir, in the pull's thread: it reads the preferences,
\* perhaps while a handler writes them, and writes back all it read.
PullLoad ==
    /\ pull.pc = "loading"
    /\ \E p \in {prefs} \cup
               (IF \E o \in Ops : op[o].pc \in {"check", "write", "done"}
                THEN {EmptyPrefs} ELSE {}) :
          pull' = [pull EXCEPT !.pc = "saving", !.wins = p.wins]
    /\ UNCHANGED <<active, cached, refresh, prefs, host, temp, op, count, shown, fresh>>

PullSave ==
    /\ pull.pc = "saving"
    /\ prefs' = [wins |-> pull.wins, seen |-> pull.content]
    /\ shown' = shown \cup {pull.content}
    /\ pull' = NoPull
    /\ UNCHANGED <<active, cached, refresh, host, temp, op, count, fresh>>
-----------------------------------------------------------------------------
Request(o) ==
    \/ Load(o) \/ Save(o) \/ Apply(o) \/ Read(o) \/ ReadFails(o) \/ Loads(o)
    \/ Conflict(o) \/ Check(o) \/ PutLocal(o) \/ PutTemp(o) \/ PutNowhere(o)
    \/ Write(o) \/ Hash(o) \/ Store(o) \/ StoreFails(o) \/ Verify(o) \/ Done(o)
    \/ UploadFailed(o)

Next ==
    \/ \E s \in Servers : Activate(s) \/ Reconciled(s) \/ HostWrites(s)
    \/ \E wins \in BOOLEAN : SetPolicy(wins)
    \/ RefreshStart \/ RefreshEnd
    \/ \E o \in Ops : Request(o)
    \/ PullTake \/ PullLoad \/ PullSave

Spec == Init /\ [][Next]_vars
-----------------------------------------------------------------------------
(* Properties. *)

Contents == 0..MaxContent

(***************************************************************************)
(* Types; and what the panel remembers of the host's file it has shown,    *)
(* sent or mirrored.                                                       *)
(***************************************************************************)
TypeOK ==
    /\ active \in Servers /\ cached \in Places \cup {None}
    /\ refresh \in Places \cup {None}
    /\ prefs \in [wins : BOOLEAN, seen : Contents]
    /\ host \in [Places -> Contents] /\ temp \in Contents
    /\ shown \subseteq Contents /\ fresh \in Contents
    /\ prefs.seen = 0 \/ prefs.seen \in shown

\* A step in which a request changes the content of a place.
Overwrites(o, place) ==
    /\ op[o].pc \in {"store", "write"} /\ op'[o] # op[o]
    /\ host'[place] # host[place]

(***************************************************************************)
(* A save or an apply writes on a server only into the file it has read,   *)
(* however servers were activated and the index of files was read in       *)
(* between; what misses that file lands on the panel's machine.            *)
(***************************************************************************)
HomeOnly ==
    \A o \in Ops, place \in Servers : Overwrites(o, place) => place = op[o].from
WritesWhereRead == [][HomeOnly]_vars

(***************************************************************************)
(* A request that found a record of the file while the host has the last   *)
(* word writes only over content that the panel has shown to somebody,     *)
(* sent itself or mirrored, over its own content, or over what came after  *)
(* it had looked.                                                          *)
(***************************************************************************)
KnownOnly ==
    \A o \in Ops, place \in Servers :
        Overwrites(o, place) /\ op[o].recorded =>
            host[place] \in shown \cup {op[o].content} \/ host[place] > op[o].since
NothingUnseenLost == [][KnownOnly]_vars
=============================================================================
