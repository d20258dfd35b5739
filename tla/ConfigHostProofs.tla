-------------------------- MODULE ConfigHostProofs --------------------------
(***************************************************************************)
(* Theorems about editing a watched file, for any servers, any number of   *)
(* requests side by side and every value of the bounds.  A step changes    *)
(* one request at most; a request that is not the one that moves sees the  *)
(* host's files change only into what the panel has shown or into          *)
(* something new.                                                          *)
(***************************************************************************)
EXTENDS ConfigHost, TLAPS

Prefs == [wins : BOOLEAN, seen : Contents]
Pull == [pc : {"idle", "loading", "saving"}, wins : BOOLEAN, content : Contents]
Stages == {"idle", "read", "check", "put", "write", "hash", "store", "verify", "done", "failed"}
Req == [pc : Stages, kind : {"load", "save", "apply"},
        from : Places \cup {None}, path : Places \cup {None}, client : Servers \cup {None},
        content : Contents, previous : Contents, hash : Contents,
        recorded : BOOLEAN, since : Contents]
Files == [Places -> Contents]

\* What was read lies where the client and the path lead, and so does what will
\* be written, on this machine too.
Home(r) ==
    /\ r.pc \in {"check", "put", "hash", "store"} => r.from \in Target(r.client, r.path)
    /\ r.pc = "write" => r.from \in Places /\ (r.path \in Servers => r.from = r.path)

\* A content that was seen, or one of known, or newer than the look.
Excused(r, content, known) == content \in known \/ content > r.since

\* What lies there is excused, for any contents seen, files and last content.
Known(r, seen, files, last) ==
    /\ r.since <= last
    /\ r.pc = "check" => Excused(r, files[r.from], seen \cup {r.previous})
    /\ r.pc \in {"put", "write", "hash", "store"} /\ r.recorded =>
          Excused(r, files[r.from], seen \cup {r.content})

Types ==
    /\ active \in Servers /\ cached \in Places \cup {None}
    /\ refresh \in Places \cup {None}
    /\ host \in Files /\ temp \in Contents
    /\ shown \subseteq Contents /\ fresh \in Contents
Remembers == prefs \in Prefs /\ (prefs.seen = 0 \/ prefs.seen \in shown)
Requests == op \in [Ops -> Req]
AllHome == \A o \in Ops : Home(op[o])
AllKnown == \A o \in Ops : Known(op[o], shown, host, fresh)

Inv == Types /\ Remembers /\ Requests /\ AllHome /\ AllKnown /\ pull \in Pull

\* How the files on the hosts change.
HostMoves ==
    /\ shown \subseteq shown' /\ fresh <= fresh'
    /\ \A place \in Places :
          host'[place] \in shown' \cup {host[place]} \/ host'[place] > fresh
-----------------------------------------------------------------------------
LEMMA Numbers == /\ MaxContent \in Nat /\ Contents \subseteq Nat /\ 0 \in Contents /\ 1 \in Contents
BY ConfigAssumption DEF Contents

LEMMA Somewhere ==
    ASSUME NEW client \in Servers \cup {None}, NEW path, NEW place \in Target(client, path)
    PROVE  place \in Places
BY DEF Target, Places

LEMMA IdleIsGood ==
    /\ Idle \in Req /\ Home(Idle)
    /\ \A seen, files : \A last \in Nat : Known(Idle, seen, files, last)
<1>1. Idle \in Req
    BY Numbers DEF Idle, Req, Stages
<1>2. Idle.pc = "idle" /\ Idle.since = 0
    BY DEF Idle
<1> QED BY <1>1, <1>2 DEF Home, Known

LEMMA Typed == Inv => TypeOK
<1> SUFFICES ASSUME Inv PROVE TypeOK
    OBVIOUS
<1>1. Types /\ Remembers
    BY DEF Inv
<1> QED BY <1>1 DEF Types, Remembers, TypeOK, Prefs, Files

LEMMA Initially == Init => Inv
<1> SUFFICES ASSUME Init PROVE Inv
    OBVIOUS
<1>1. active \in Servers /\ cached = None /\ refresh = None /\ temp = 0 /\ shown = {} /\ fresh = 1
    BY DEF Init
<1>2. host \in Files
    BY Numbers DEF Init, Files
<1>3. Types
    BY <1>1, <1>2, Numbers DEF Types
<1>4. Remembers
    <2>1. prefs = [wins |-> WinsOf[active], seen |-> 0] /\ WinsOf[active] \in BOOLEAN
        BY ConfigAssumption DEF Init
    <2> QED BY <2>1, Numbers DEF Remembers, Prefs
<1>5. op = [o \in Ops |-> Idle]
    BY DEF Init
<1>6. Requests /\ AllHome /\ AllKnown
    BY <1>1, <1>5, IdleIsGood DEF Requests, AllHome, AllKnown
<1>7. pull \in Pull
    BY Numbers DEF Init, NoPull, Pull
<1> QED BY <1>3, <1>4, <1>6, <1>7 DEF Inv

\* The preferences that a request may find.
LEMMA Found ==
    ASSUME Remembers, NEW p \in Loaded
    PROVE  p \in Prefs /\ (p.seen = 0 \/ p.seen \in shown)
<1>1. EmptyPrefs \in Prefs /\ EmptyPrefs.seen = 0
    BY Numbers DEF EmptyPrefs, Prefs
<1>2. p = prefs \/ p = EmptyPrefs
    BY DEF Loaded
<1> QED BY <1>1, <1>2 DEF Remembers

\* A handler that changes the policy leaves what is remembered.
LEMMA PolicySaved ==
    ASSUME Remembers, NEW wins \in BOOLEAN, shown' = shown,
           \E p \in Loaded : Saved([p EXCEPT !.wins = wins])
    PROVE  Remembers'
<1>1. PICK p \in Loaded : Saved([p EXCEPT !.wins = wins])
    OBVIOUS
<1>2. p \in Prefs /\ (p.seen = 0 \/ p.seen \in shown)
    BY Found
<1>3. [p EXCEPT !.wins = wins] \in Prefs /\ [p EXCEPT !.wins = wins].seen = p.seen
    BY <1>2 DEF Prefs
<1>4. prefs' = [p EXCEPT !.wins = wins] \/ prefs' = EmptyPrefs
    BY <1>1 DEF Saved
<1>5. EmptyPrefs \in Prefs /\ EmptyPrefs.seen = 0
    BY Numbers DEF EmptyPrefs, Prefs
<1> QED BY <1>2, <1>3, <1>4, <1>5 DEF Remembers

LEMMA ContentSaved ==
    ASSUME Remembers, shown \subseteq Contents, NEW content \in Contents, Remember(content)
    PROVE  Remembers' /\ shown' \subseteq Contents /\ shown' = shown \cup {content}
<1>1. PICK p \in Loaded : Saved([p EXCEPT !.seen = content])
    BY DEF Remember
<1>2. p \in Prefs
    BY Found
<1>3. [p EXCEPT !.seen = content] \in Prefs /\ [p EXCEPT !.seen = content].seen = content
    BY <1>2 DEF Prefs
<1>4. prefs' = [p EXCEPT !.seen = content] \/ prefs' = EmptyPrefs
    BY <1>1 DEF Saved
<1>5. EmptyPrefs \in Prefs /\ EmptyPrefs.seen = 0
    BY Numbers DEF EmptyPrefs, Prefs
<1>6. shown' = shown \cup {content} /\ shown' \subseteq Contents
    BY DEF Remember
<1> QED BY <1>3, <1>4, <1>5, <1>6 DEF Remembers

\* A request that does not move.
LEMMA StaysKnown ==
    ASSUME NEW r \in Req, Home(r), Known(r, shown, host, fresh), Types, Types', HostMoves
    PROVE  Known(r, shown', host', fresh')
<1>1. r.since \in Nat /\ fresh \in Nat /\ fresh' \in Nat
    BY Numbers DEF Types, Req
<1>2. r.since <= fresh /\ r.since <= fresh'
    BY <1>1 DEF HostMoves, Known
<1>3. ASSUME NEW place \in Places, NEW k, Excused(r, host[place], shown \cup {k})
      PROVE  Excused(r, host'[place], shown' \cup {k})
    <2>1. host[place] \in Nat /\ host'[place] \in Nat
        BY Numbers DEF Types, Files
    <2>2. CASE host'[place] > fresh
        BY <1>1, <1>2, <2>1, <2>2 DEF Excused
    <2>3. CASE host'[place] \in shown'
        BY <2>3 DEF Excused
    <2>4. CASE host'[place] = host[place]
        BY <1>3, <2>4 DEF Excused, HostMoves
    <2> QED BY <2>2, <2>3, <2>4 DEF HostMoves
<1>4. r.client \in Servers \cup {None}
    BY DEF Req
<1>5. r.pc \in {"check", "put", "write", "hash", "store"} => r.from \in Places
    BY <1>4, Somewhere DEF Home
<1>6. r.pc = "check" => Excused(r, host'[r.from], shown' \cup {r.previous})
    BY <1>3, <1>5 DEF Known
<1>7. r.pc \in {"put", "write", "hash", "store"} /\ r.recorded =>
          Excused(r, host'[r.from], shown' \cup {r.content})
    BY <1>3, <1>5 DEF Known
<1> QED BY <1>2, <1>6, <1>7 DEF Known

\* No request moves.
LEMMA NoneMoves ==
    ASSUME Inv, Types', Remembers', pull' \in Pull, HostMoves, op' = op
    PROVE  Inv'
<1>1. Requests' /\ AllHome'
    BY DEF Inv, Requests, AllHome
<1>2. AllKnown'
    <2> SUFFICES ASSUME NEW o \in Ops PROVE Known(op[o], shown', host', fresh')
        BY DEF AllKnown
    <2>1. op[o] \in Req /\ Home(op[o]) /\ Known(op[o], shown, host, fresh) /\ Types
        BY DEF Inv, Requests, AllHome, AllKnown
    <2> QED BY <2>1, StaysKnown
<1> QED BY <1>1, <1>2 DEF Inv

\* One request moves, to r.
LEMMA OneMoves ==
    ASSUME Inv, Types', Remembers', pull' \in Pull, HostMoves,
           NEW o \in Ops, NEW r \in Req, Set(o, r),
           Home(r), Known(r, shown', host', fresh')
    PROVE  Inv'
<1>1. op \in [Ops -> Req] /\ op' = [op EXCEPT ![o] = r]
    BY DEF Inv, Requests, Set
<1>2. Requests' /\ op'[o] = r /\ \A q \in Ops \ {o} : op'[q] = op[q]
    BY <1>1 DEF Requests
<1>3. AllHome'
    BY <1>2 DEF Inv, AllHome
<1>4. AllKnown'
    <2> SUFFICES ASSUME NEW q \in Ops PROVE Known(op'[q], shown', host', fresh')
        BY DEF AllKnown
    <2>1. CASE q = o
        BY <1>2, <2>1
    <2>2. CASE q # o
        <3>1. op[q] \in Req /\ Home(op[q]) /\ Known(op[q], shown, host, fresh) /\ Types
            BY DEF Inv, Requests, AllHome, AllKnown
        <3>2. Known(op[q], shown', host', fresh')
            BY <3>1, StaysKnown
        <3> QED BY <1>2, <2>2, <3>2
    <2> QED BY <2>1, <2>2
<1> QED BY <1>2, <1>3, <1>4 DEF Inv

LEMMA OneEnds ==
    ASSUME Inv, Types', Remembers', pull' \in Pull, HostMoves, NEW o \in Ops, End(o)
    PROVE  Inv'
<1>1. fresh' \in Nat
    BY Numbers DEF Types
<1> QED BY <1>1, OneMoves, IdleIsGood DEF End

\* The files stay.
LEMMA FilesStay ==
    ASSUME Types, UNCHANGED <<host, fresh>>, shown \subseteq shown'
    PROVE  HostMoves
BY Numbers DEF HostMoves, Types

LEMMA OfOne ==
    ASSUME Inv, NEW o \in Ops
    PROVE  /\ op[o] \in Req /\ Home(op[o]) /\ Known(op[o], shown, host, fresh)
           /\ Types /\ Remembers /\ fresh \in Nat
BY Numbers DEF Inv, Requests, AllHome, AllKnown, Types

\* One request moves and nothing else but, perhaps, the temporary file.
LEMMA Quiet ==
    ASSUME Inv, NEW o \in Ops, NEW r \in Req, Set(o, r), Home(r), Known(r, shown, host, fresh),
           temp' \in Contents,
           UNCHANGED <<active, cached, refresh, prefs, host, pull, shown, fresh>>
    PROVE  Inv'
<1>1. active' = active /\ cached' = cached /\ refresh' = refresh /\ host' = host
    OBVIOUS
<1>2. prefs' = prefs /\ pull' = pull /\ shown' = shown /\ fresh' = fresh
    OBVIOUS
<1>3. Types /\ Remembers /\ pull \in Pull
    BY DEF Inv
<1>4. Types' /\ Remembers' /\ pull' \in Pull
    BY <1>1, <1>2, <1>3 DEF Types, Remembers
<1>5. HostMoves
    BY <1>1, <1>2, <1>3, FilesStay
<1>6. Known(r, shown', host', fresh')
    BY <1>1, <1>2
<1> QED BY <1>4, <1>5, <1>6, OneMoves
-----------------------------------------------------------------------------
(* The steps of a request. *)

LEMMA ReachedAre ==
    ASSUME active \in Servers PROVE Reached \subseteq Servers /\ Paths \subseteq Places
BY ConfigAssumption DEF Reached, Paths, PathOf, Places

LEMMA BeginKeeps ==
    ASSUME Inv, NEW o \in Ops, NEW kind \in {"load", "save", "apply"},
           NEW content \in Contents, fresh <= fresh', fresh' \in Contents,
           Begin(o, kind, content)
    PROVE  Inv'
<1>1. Types /\ Remembers /\ pull \in Pull
    BY DEF Inv
<1>2. Reached \subseteq Servers /\ Paths \subseteq Places
    BY <1>1, ReachedAre DEF Types
<1>3. PICK server \in Reached, path \in IF cached = None THEN Paths ELSE {cached} :
         /\ cached' = path
         /\ Set(o, [Idle EXCEPT !.pc = "read", !.kind = kind, !.path = path,
                        !.client = IF server \in Local THEN None ELSE server,
                        !.content = content])
         /\ UNCHANGED <<active, refresh, prefs, host, temp, pull, shown>>
    BY DEF Begin
<1> DEFINE client == IF server \in Local THEN None ELSE server
           r == [Idle EXCEPT !.pc = "read", !.kind = kind, !.path = path,
                     !.client = client, !.content = content]
<1>11. path \in Places /\ client \in Servers \cup {None}
    BY <1>1, <1>2 DEF Types
<1>4. /\ cached' = path /\ Set(o, r)
      /\ UNCHANGED <<active, refresh, prefs, host, temp, pull, shown>>
    BY <1>3
<1> HIDE DEF client
<1>5. r \in Req /\ r.pc = "read" /\ r.since = 0
    BY <1>11, Numbers DEF Idle, Req, Stages
<1>6. active' = active /\ refresh' = refresh /\ prefs' = prefs /\ host' = host
    BY <1>4
<1>7. temp' = temp /\ pull' = pull /\ shown' = shown
    BY <1>4
<1>8. Types' /\ Remembers' /\ pull' \in Pull
    BY <1>1, <1>4, <1>6, <1>7, <1>11 DEF Types, Remembers
<1>9. fresh' \in Nat /\ HostMoves
    BY <1>6, <1>7, Numbers DEF HostMoves
<1> HIDE DEF r
<1>10. Home(r) /\ Known(r, shown', host', fresh')
    BY <1>5, <1>9 DEF Home, Known
<1> QED BY <1>4, <1>5, <1>8, <1>9, <1>10, OneMoves

LEMMA BeginsKeep ==
    ASSUME Inv, NEW o \in Ops, Load(o) \/ Save(o) \/ Apply(o)
    PROVE  Inv'
<1>1. fresh \in Nat /\ fresh \in Contents /\ shown \subseteq Contents
    BY OfOne, Numbers DEF Types
<1>2. CASE Load(o)
    BY <1>1, <1>2, Numbers, BeginKeeps DEF Load
<1>3. ASSUME fresh < MaxContent, fresh' = fresh + 1
      PROVE  fresh <= fresh' /\ fresh' \in Contents
    BY <1>1, <1>3, Numbers DEF Contents
<1>4. CASE Apply(o)
    BY <1>3, <1>4, BeginKeeps DEF Apply
<1>5. CASE Save(o)
    <2>1. ASSUME NEW content \in shown, Begin(o, "save", content), fresh' = fresh
          PROVE  Inv'
        BY <1>1, <2>1, BeginKeeps
    <2>2. CASE fresh < MaxContent /\ fresh' = fresh + 1 /\ Begin(o, "save", fresh')
        BY <1>3, <2>2, BeginKeeps
    <2> QED BY <1>5, <2>1, <2>2 DEF Save
<1> QED BY <1>2, <1>4, <1>5

LEMMA ReadKeeps ==
    ASSUME Inv, NEW o \in Ops, Read(o)
    PROVE  Inv'
<1>1. PICK place \in Target(op[o].client, op[o].path) :
          Set(o, [op[o] EXCEPT !.pc = "check", !.from = place, !.previous = host[place],
                      !.since = fresh])
    BY DEF Read
<1> DEFINE r == [op[o] EXCEPT !.pc = "check", !.from = place, !.previous = host[place],
                     !.since = fresh]
<1>2. op[o] \in Req /\ Types /\ fresh \in Nat
    BY OfOne
<1>3. place \in Places
    BY <1>2, Somewhere DEF Req
<1>4. host[place] \in Contents /\ fresh \in Contents
    BY <1>2, <1>3 DEF Types, Files
<1>5. r \in Req
    BY <1>2, <1>3, <1>4 DEF Req, Stages
<1>6. /\ r.pc = "check" /\ r.from = place /\ r.previous = host[place] /\ r.since = fresh
      /\ r.client = op[o].client /\ r.path = op[o].path
    BY <1>2 DEF Req
<1> HIDE DEF r
<1>7. Home(r)
    BY <1>6 DEF Home
<1>8. Known(r, shown, host, fresh)
    BY <1>2, <1>6 DEF Known, Excused
<1>9. temp' \in Contents
    BY <1>2 DEF Read, Types
<1>10. Set(o, r)
    BY <1>1 DEF r
<1> QED BY <1>5, <1>7, <1>8, <1>9, <1>10, Quiet DEF Read

LEMMA CheckKeeps ==
    ASSUME Inv, NEW o \in Ops, Check(o)
    PROVE  Inv'
<1>1. PICK p \in Loaded :
          /\ Passes(o, p)
          /\ Set(o, [op[o] EXCEPT !.pc = "put", !.recorded = p.wins /\ p.seen # 0])
    BY DEF Check
<1>2. PICK recorded \in BOOLEAN : recorded = (p.wins /\ p.seen # 0)
    OBVIOUS
<1> DEFINE r == [op[o] EXCEPT !.pc = "put", !.recorded = recorded]
<1>3. /\ op[o] \in Req /\ Home(op[o]) /\ Known(op[o], shown, host, fresh)
      /\ Types /\ Remembers /\ op[o].pc = "check"
    BY OfOne DEF Check
<1>4. /\ r \in Req /\ r.pc = "put" /\ r.recorded = recorded /\ r.from = op[o].from
      /\ r.client = op[o].client /\ r.path = op[o].path /\ r.since = op[o].since
      /\ r.content = op[o].content
    BY <1>3 DEF Req, Stages
<1>5. Set(o, r)
    BY <1>1, <1>2
<1> HIDE DEF r
<1>6. Home(r)
    BY <1>3, <1>4 DEF Home
<1>7. recorded => op[o].previous \in shown \cup {op[o].content}
    <2>1. p.seen = 0 \/ p.seen \in shown
        BY <1>3, Found
    <2> QED BY <1>1, <1>2, <2>1 DEF Passes, Clash
<1>8. Known(r, shown, host, fresh)
    BY <1>3, <1>4, <1>7 DEF Known, Excused
<1>9. temp' \in Contents
    BY <1>3 DEF Check, Types
<1> QED BY <1>4, <1>5, <1>6, <1>8, <1>9, Quiet DEF Check

LEMMA PutLocalKeeps ==
    ASSUME Inv, NEW o \in Ops, PutLocal(o)
    PROVE  Inv'
<1> DEFINE r == [op[o] EXCEPT !.pc = "write", !.client = None]
<1>1. /\ op[o] \in Req /\ Home(op[o]) /\ Known(op[o], shown, host, fresh)
      /\ Types /\ op[o].pc = "put" /\ Set(o, r)
    BY OfOne DEF PutLocal
<1>2. /\ r \in Req /\ r.pc = "write" /\ r.recorded = op[o].recorded /\ r.from = op[o].from
      /\ r.path = op[o].path /\ r.since = op[o].since /\ r.content = op[o].content
    BY <1>1 DEF Req, Stages
<1> HIDE DEF r
<1>3. op[o].from \in Target(op[o].client, op[o].path) /\ op[o].client \in Servers \cup {None}
    BY <1>1 DEF Home, Req
<1>4. op[o].from \in Places
    BY <1>3, Somewhere
<1>5. op[o].path \in Servers => op[o].from = op[o].path
    BY <1>3, ConfigAssumption DEF Target
<1>6. Home(r)
    BY <1>2, <1>4, <1>5 DEF Home
<1>7. Known(r, shown, host, fresh)
    BY <1>1, <1>2 DEF Known, Excused
<1>8. temp' \in Contents
    BY <1>1 DEF PutLocal, Types
<1> QED BY <1>1, <1>2, <1>6, <1>7, <1>8, Quiet DEF PutLocal

LEMMA PutTempKeeps ==
    ASSUME Inv, NEW o \in Ops, PutTemp(o)
    PROVE  Inv'
<1> DEFINE r == [op[o] EXCEPT !.pc = "hash", !.client = op[o].client]
<1>1. /\ op[o] \in Req /\ Home(op[o]) /\ Known(op[o], shown, host, fresh)
      /\ Types /\ op[o].pc = "put" /\ Set(o, r)
    BY OfOne DEF PutTemp, SameClient
<1>2. /\ r \in Req /\ r.pc = "hash" /\ r.recorded = op[o].recorded /\ r.from = op[o].from
      /\ r.path = op[o].path /\ r.since = op[o].since /\ r.content = op[o].content
      /\ r.client = op[o].client
    BY <1>1 DEF Req, Stages
<1> HIDE DEF r
<1>3. Home(r)
    BY <1>1, <1>2 DEF Home
<1>4. Known(r, shown, host, fresh)
    BY <1>1, <1>2 DEF Known, Excused
<1>5. temp' \in Contents
    BY <1>1 DEF PutTemp, Req
<1> QED BY <1>1, <1>2, <1>3, <1>4, <1>5, Quiet DEF PutTemp

LEMMA HashKeeps ==
    ASSUME Inv, NEW o \in Ops, Hash(o)
    PROVE  Inv'
<1>1. PICK pc \in Stages : pc = (IF temp = 0 THEN "failed" ELSE "store")
    BY DEF Stages
<1> DEFINE r == [op[o] EXCEPT !.pc = pc, !.hash = temp]
<1>2. /\ op[o] \in Req /\ Home(op[o]) /\ Known(op[o], shown, host, fresh)
      /\ Types /\ op[o].pc = "hash" /\ Set(o, r)
    BY <1>1, OfOne DEF Hash
<1>3. /\ r \in Req /\ r.pc \in {"failed", "store"} /\ r.recorded = op[o].recorded
      /\ r.from = op[o].from /\ r.path = op[o].path /\ r.since = op[o].since
      /\ r.content = op[o].content /\ r.client = op[o].client
    BY <1>1, <1>2 DEF Req, Types
<1> HIDE DEF r
<1>4. Home(r)
    BY <1>2, <1>3 DEF Home
<1>5. Known(r, shown, host, fresh)
    BY <1>2, <1>3 DEF Known, Excused
<1>6. temp' \in Contents
    BY <1>2 DEF Hash, Types
<1> QED BY <1>2, <1>3, <1>4, <1>5, <1>6, Quiet DEF Hash

\* A request whose upload is over, well or not.
LEMMA OverKeeps ==
    ASSUME Inv, NEW o \in Ops, NEW pc \in {"verify", "done", "failed"},
           Set(o, [op[o] EXCEPT !.pc = pc]), temp' = temp,
           UNCHANGED <<active, cached, refresh, prefs, host, pull, shown, fresh>>
    PROVE  Inv'
<1> DEFINE r == [op[o] EXCEPT !.pc = pc]
<1>1. op[o] \in Req /\ Known(op[o], shown, host, fresh) /\ Types
    BY OfOne
<1>2. r \in Req /\ r.pc = pc /\ r.since = op[o].since
    BY <1>1 DEF Req, Stages
<1>3. Set(o, r)
    OBVIOUS
<1> HIDE DEF r
<1>4. Home(r) /\ Known(r, shown, host, fresh)
    BY <1>1, <1>2 DEF Home, Known
<1>5. temp' \in Contents
    BY <1>1 DEF Types
<1> QED BY <1>2, <1>3, <1>4, <1>5, Quiet

\* A store that fails has left the host's file cut off.
LEMMA TornKeeps ==
    ASSUME Inv, NEW o \in Ops, NEW place \in Target(op[o].client, op[o].path),
           fresh < MaxContent, fresh' = fresh + 1, host' = [host EXCEPT ![place] = fresh'],
           Set(o, [op[o] EXCEPT !.pc = "failed"]),
           UNCHANGED <<active, cached, refresh, prefs, temp, pull, count, shown>>
    PROVE  Inv'
<1> DEFINE r == [op[o] EXCEPT !.pc = "failed"]
<1>1. /\ op[o] \in Req /\ Known(op[o], shown, host, fresh) /\ Types /\ Remembers
      /\ fresh \in Nat /\ Set(o, r)
    BY OfOne
<1>2. place \in Places
    BY <1>1, Somewhere DEF Req
<1>3. fresh' \in Contents /\ fresh <= fresh' /\ fresh < fresh'
    BY <1>1, Numbers DEF Contents
<1>4. host' \in Files /\ \A q \in Places : host'[q] \in {host[q], fresh'}
    BY <1>1, <1>2, <1>3 DEF Files, Types
<1>5. active' = active /\ cached' = cached /\ refresh' = refresh /\ prefs' = prefs
    OBVIOUS
<1>6. temp' = temp /\ pull' = pull /\ shown' = shown
    OBVIOUS
<1>7. Types' /\ Remembers'
    BY <1>1, <1>3, <1>4, <1>5, <1>6 DEF Types, Remembers
<1>8. HostMoves
    BY <1>1, <1>3, <1>4, <1>6 DEF HostMoves
<1>9. r \in Req /\ r.pc = "failed" /\ r.since = op[o].since /\ op[o].since \in Nat
    BY <1>1, Numbers DEF Req, Stages
<1> HIDE DEF r
<1>10. op[o].since <= fresh /\ fresh' \in Nat
    BY <1>1 DEF Known
<1>11. r.since <= fresh'
    BY <1>1, <1>3, <1>9, <1>10
<1>12. Home(r) /\ Known(r, shown', host', fresh')
    BY <1>9, <1>11 DEF Home, Known
<1>13. pull' \in Pull
    BY <1>6 DEF Inv
<1> QED BY <1>1, <1>7, <1>8, <1>9, <1>12, <1>13, OneMoves

LEMMA OversKeep ==
    ASSUME Inv, NEW o \in Ops, StoreFails(o) \/ Verify(o)
    PROVE  Inv'
<1>1. CASE StoreFails(o)
    <2>1. CASE UNCHANGED <<host, fresh>>
        BY <1>1, <2>1, OverKeeps DEF StoreFails
    <2>2. CASE /\ fresh < MaxContent /\ fresh' = fresh + 1
               /\ \E place \in Target(op[o].client, op[o].path) :
                      host' = [host EXCEPT ![place] = fresh']
        BY <1>1, <2>2, TornKeeps DEF StoreFails
    <2> QED BY <1>1, <2>1, <2>2 DEF StoreFails
<1>2. CASE Verify(o)
    <2>1. PICK place \in Target(op[o].client, op[o].path) :
              Set(o, [op[o] EXCEPT !.pc = IF host[place] = op[o].hash THEN "done" ELSE "failed"])
        BY <1>2 DEF Verify
    <2>2. PICK pc \in {"verify", "done", "failed"} :
              pc = (IF host[place] = op[o].hash THEN "done" ELSE "failed")
        OBVIOUS
    <2> QED BY <1>2, <2>1, <2>2, OverKeeps DEF Verify
<1> QED BY <1>1, <1>2

LEMMA StoreKeeps ==
    ASSUME Inv, NEW o \in Ops, Store(o)
    PROVE  Inv'
<1> DEFINE r == [op[o] EXCEPT !.pc = "verify"]
<1>1. PICK place \in Target(op[o].client, op[o].path) : host' = [host EXCEPT ![place] = temp]
    BY DEF Store
<1>2. /\ op[o] \in Req /\ Known(op[o], shown, host, fresh) /\ Types /\ Remembers
      /\ fresh \in Nat /\ Set(o, r) /\ shown' = shown \cup {temp}
    BY OfOne DEF Store
<1>3. place \in Places
    BY <1>2, Somewhere DEF Req
<1>4. host' \in Files /\ \A q \in Places : host'[q] \in {host[q], temp}
    BY <1>1, <1>2, <1>3 DEF Files, Types
<1>5. active' = active /\ cached' = cached /\ refresh' = refresh /\ prefs' = prefs
    BY DEF Store
<1>6. temp' = temp /\ pull' = pull /\ fresh' = fresh
    BY DEF Store
<1>7. Types' /\ Remembers'
    BY <1>2, <1>4, <1>5, <1>6 DEF Types, Remembers
<1>8. HostMoves
    BY <1>2, <1>4, <1>6 DEF HostMoves
<1>9. r \in Req /\ r.pc = "verify" /\ r.since = op[o].since
    BY <1>2 DEF Req, Stages
<1> HIDE DEF r
<1>10. Home(r) /\ Known(r, shown', host', fresh')
    BY <1>2, <1>6, <1>9 DEF Home, Known
<1>11. pull' \in Pull
    BY <1>6 DEF Inv
<1> QED BY <1>2, <1>7, <1>8, <1>9, <1>10, <1>11, OneMoves

\* A request that ends and leaves the files, the index and the active server.
LEMMA QuietEnd ==
    ASSUME Inv, NEW o \in Ops, End(o), temp' \in Contents, Remembers',
           shown \subseteq shown', shown' \subseteq Contents,
           UNCHANGED <<active, cached, refresh, host, pull, fresh>>
    PROVE  Inv'
<1>1. active' = active /\ cached' = cached /\ refresh' = refresh
    OBVIOUS
<1>2. host' = host /\ pull' = pull /\ fresh' = fresh
    OBVIOUS
<1>3. Types /\ pull \in Pull
    BY DEF Inv
<1>4. Types' /\ pull' \in Pull
    BY <1>1, <1>2, <1>3 DEF Types
<1>5. HostMoves
    BY <1>2, <1>3, FilesStay
<1> QED BY <1>4, <1>5, OneEnds

LEMMA EndsKeep ==
    ASSUME Inv, NEW o \in Ops,
           \/ ReadFails(o) \/ Loads(o) \/ Conflict(o) \/ PutNowhere(o) \/ Done(o)
           \/ UploadFailed(o)
    PROVE  Inv'
<1>1. /\ Types /\ Remembers /\ temp \in Contents /\ shown \subseteq Contents
      /\ 0 \in Contents /\ op[o].previous \in Contents /\ op[o].content \in Contents
    BY OfOne, Numbers DEF Types, Req
<1>2. ASSUME UNCHANGED <<prefs, shown>>
      PROVE  Remembers' /\ shown \subseteq shown' /\ shown' \subseteq Contents
    BY <1>1, <1>2 DEF Remembers
<1>3. CASE ReadFails(o)
    BY <1>1, <1>2, <1>3, QuietEnd DEF ReadFails
<1>4. CASE PutNowhere(o)
    BY <1>1, <1>2, <1>4, QuietEnd DEF PutNowhere
<1>5. CASE UploadFailed(o)
    BY <1>1, <1>2, <1>5, QuietEnd DEF UploadFailed
<1>6. CASE Loads(o)
    <2>1. Remembers' /\ shown' = shown \cup {op[o].previous} /\ shown' \subseteq Contents
        BY <1>1, <1>6, ContentSaved DEF Loads
    <2> QED BY <1>1, <1>6, <2>1, QuietEnd DEF Loads
<1>7. CASE Conflict(o)
    <2>1. Remembers' /\ shown' = shown \cup {op[o].previous} /\ shown' \subseteq Contents
        BY <1>1, <1>7, ContentSaved DEF Conflict
    <2> QED BY <1>1, <1>7, <2>1, QuietEnd DEF Conflict
<1>8. CASE Done(o)
    <2>1. Remembers' /\ shown' = shown \cup {op[o].content} /\ shown' \subseteq Contents
        BY <1>1, <1>8, ContentSaved DEF Done
    <2> QED BY <1>1, <1>8, <2>1, QuietEnd DEF Done
<1> QED BY <1>3, <1>4, <1>5, <1>6, <1>7, <1>8

LEMMA WriteKeeps ==
    ASSUME Inv, NEW o \in Ops, Write(o)
    PROVE  Inv'
<1>1. /\ op[o] \in Req /\ Types /\ Remembers /\ fresh \in Nat
      /\ op[o].content \in Contents /\ shown \subseteq Contents
    BY OfOne DEF Req, Types
<1>2. Remembers' /\ shown' = shown \cup {op[o].content} /\ shown' \subseteq Contents
    BY <1>1, ContentSaved DEF Write
<1>3. host' \in Files /\ \A q \in Places : host'[q] \in {host[q], op[o].content}
    BY <1>1 DEF Files, Types, Write
<1>4. active' = active /\ cached' = cached /\ refresh' = refresh /\ temp' = temp
    BY DEF Write
<1>5. pull' = pull /\ fresh' = fresh /\ End(o)
    BY DEF Write
<1>6. Types' /\ HostMoves
    BY <1>1, <1>2, <1>3, <1>4, <1>5 DEF Types, HostMoves
<1>7. pull' \in Pull
    BY <1>5 DEF Inv
<1> QED BY <1>2, <1>5, <1>6, <1>7, OneEnds

LEMMA RequestKeeps ==
    ASSUME Inv, NEW o \in Ops, Request(o)
    PROVE  Inv'
BY BeginsKeep, ReadKeeps, CheckKeeps, PutLocalKeeps, PutTempKeeps, HashKeeps, OversKeep,
   StoreKeeps, EndsKeep, WriteKeeps DEF Request
-----------------------------------------------------------------------------
(* The steps of the others. *)

\* The files and the requests stay.
LEMMA AroundRequests ==
    ASSUME Inv, UNCHANGED <<host, temp, op, fresh>>, Remembers', pull' \in Pull,
           active' \in Servers, cached' \in Places \cup {None},
           refresh' \in Places \cup {None}, shown \subseteq shown', shown' \subseteq Contents
    PROVE  Inv'
<1>1. host' = host /\ temp' = temp /\ op' = op /\ fresh' = fresh
    OBVIOUS
<1>2. Types
    BY DEF Inv
<1>3. Types' /\ HostMoves
    BY <1>1, <1>2, FilesStay DEF Types
<1> QED BY <1>1, <1>3, NoneMoves

LEMMA ServersKeep ==
    ASSUME Inv,
           \/ \E s \in Servers : Activate(s) \/ Reconciled(s)
           \/ \E wins \in BOOLEAN : SetPolicy(wins)
           \/ RefreshStart \/ RefreshEnd
    PROVE  Inv'
<1>1. Types /\ Remembers /\ pull \in Pull
    BY DEF Inv
<1>2. ASSUME UNCHANGED <<prefs, shown>> PROVE Remembers'
    BY <1>1, <1>2 DEF Remembers
<1>3. ASSUME NEW s \in Servers, Activate(s) PROVE Inv'
    <2>1. Remembers'
        BY <1>1, <1>3, PolicySaved, ConfigAssumption DEF Activate
    <2> QED BY <1>1, <1>3, <2>1, AroundRequests DEF Activate, Types
<1>4. ASSUME NEW s \in Servers, Reconciled(s) PROVE Inv'
    BY <1>1, <1>2, <1>4, AroundRequests DEF Reconciled, Types
<1>5. ASSUME NEW wins \in BOOLEAN, SetPolicy(wins) PROVE Inv'
    <2>1. Remembers'
        BY <1>1, <1>5, PolicySaved DEF SetPolicy
    <2> QED BY <1>1, <1>5, <2>1, AroundRequests DEF SetPolicy, Types
<1>6. CASE RefreshStart
    BY <1>1, <1>2, <1>6, AroundRequests, ReachedAre DEF RefreshStart, Types
<1>7. CASE RefreshEnd
    BY <1>1, <1>2, <1>7, AroundRequests DEF RefreshEnd, Types
<1> QED BY <1>3, <1>4, <1>5, <1>6, <1>7

LEMMA HostWritesKeeps ==
    ASSUME Inv, NEW s \in Servers, HostWrites(s)
    PROVE  Inv'
<1>1. Types /\ Remembers /\ pull \in Pull /\ fresh \in Nat
    BY Numbers DEF Inv, Types
<1>2. fresh' = fresh + 1 /\ fresh' \in Contents
    BY <1>1, Numbers DEF HostWrites, Contents
<1>3. host' \in Files /\ \A q \in Places : host'[q] = host[q] \/ host'[q] = fresh'
    BY <1>1, <1>2 DEF HostWrites, Types, Files
<1>4. active' = active /\ cached' = cached /\ refresh' = refresh /\ temp' = temp
    BY DEF HostWrites
<1>5. prefs' = prefs /\ op' = op /\ pull' = pull /\ shown' = shown
    BY DEF HostWrites
<1>6. Types' /\ Remembers' /\ pull' \in Pull
    BY <1>1, <1>2, <1>3, <1>4, <1>5 DEF Types, Remembers
<1>7. HostMoves
    BY <1>1, <1>2, <1>3, <1>5 DEF HostMoves
<1> QED BY <1>5, <1>6, <1>7, NoneMoves

LEMMA PullKeeps ==
    ASSUME Inv, PullTake \/ PullLoad \/ PullSave
    PROVE  Inv'
<1>1. Types /\ Remembers /\ pull \in Pull
    BY DEF Inv
<1>2. ASSUME UNCHANGED <<prefs, shown>> PROVE Remembers'
    BY <1>1, <1>2 DEF Remembers
<1>3. CASE PullTake
    <2>1. host[active] \in Contents
        BY <1>1 DEF Types, Files, Places
    <2>2. pull' \in Pull
        BY <1>3, <2>1 DEF PullTake, Pull
    <2> QED BY <1>1, <1>2, <1>3, <2>2, AroundRequests DEF PullTake, Types
<1>4. CASE PullLoad
    <2>1. PICK p \in Prefs : pull' = [pull EXCEPT !.pc = "saving", !.wins = p.wins]
        BY <1>1, <1>4, Numbers DEF PullLoad, Remembers, EmptyPrefs, Prefs
    <2>2. p.wins \in BOOLEAN
        BY DEF Prefs
    <2>3. pull' \in Pull
        BY <1>1, <2>1, <2>2 DEF Pull
    <2> QED BY <1>1, <1>2, <1>4, <2>3, AroundRequests DEF PullLoad, Types
<1>5. CASE PullSave
    <2>1. pull.wins \in BOOLEAN /\ pull.content \in Contents /\ NoPull \in Pull
        BY <1>1, Numbers DEF Pull, NoPull
    <2>2. Remembers'
        BY <1>5, <2>1 DEF PullSave, Remembers, Prefs
    <2>3. shown \subseteq shown' /\ shown' \subseteq Contents /\ pull' \in Pull
        BY <1>1, <1>5, <2>1 DEF PullSave, Types
    <2> QED BY <1>1, <1>5, <2>2, <2>3, AroundRequests DEF PullSave, Types
<1> QED BY <1>3, <1>4, <1>5

LEMMA StepKeeps == Inv /\ [Next]_vars => Inv'
<1> SUFFICES ASSUME Inv, [Next]_vars PROVE Inv'
    OBVIOUS
<1>1. CASE UNCHANGED vars
    BY <1>1, AroundRequests DEF vars, Inv, Types, Remembers
<1>2. CASE Next
    BY <1>2, RequestKeeps, ServersKeep, HostWritesKeeps, PullKeeps DEF Next
<1> QED BY <1>1, <1>2

LEMMA Invariance == Spec => []Inv
<1> QED BY Initially, StepKeeps, PTL DEF Spec
-----------------------------------------------------------------------------
(***************************************************************************)
(* Types, and that the content remembered of the host's file is one that   *)
(* the panel has shown, sent or mirrored (remember_remote of prefs.py).    *)
(***************************************************************************)
THEOREM ConfigTypes == Spec => []TypeOK
<1> QED BY Invariance, Typed, PTL

\* Which content a request writes, and where.
LEMMA OneWriter ==
    ASSUME Inv, [Next]_vars, NEW o \in Ops, NEW place \in Servers, Overwrites(o, place)
    PROVE  \/ Write(o) /\ place = op[o].path
           \/ (Store(o) \/ StoreFails(o)) /\ place \in Target(op[o].client, op[o].path)
<1>1. /\ op[o].pc \in {"store", "write"} /\ op'[o] # op[o] /\ host'[place] # host[place]
      /\ op \in [Ops -> Req] /\ place \in Places /\ host \in Files
    BY DEF Overwrites, Inv, Requests, Places, Types
<1>2. op' # op /\ host' # host
    BY <1>1
<1>3. \E q \in Ops : Request(q)
    BY <1>2 DEF Next, vars, Activate, Reconciled, HostWrites, SetPolicy, RefreshStart,
                RefreshEnd, PullTake, PullLoad, PullSave
<1>4. PICK q \in Ops : Request(q)
    BY <1>3
<1>5. Write(q) \/ Store(q) \/ StoreFails(q)
    <2>1. ~ (Load(q) \/ Save(q) \/ Apply(q))
        BY <1>2 DEF Load, Save, Apply, Begin
    <2>2. ~ (Read(q) \/ ReadFails(q) \/ Loads(q) \/ Conflict(q) \/ Check(q))
        BY <1>2 DEF Read, ReadFails, Loads, Conflict, Check
    <2>3. ~ (PutLocal(q) \/ PutTemp(q) \/ PutNowhere(q))
        BY <1>2 DEF PutLocal, PutTemp, PutNowhere
    <2>4. ~ (Hash(q) \/ Verify(q) \/ Done(q) \/ UploadFailed(q))
        BY <1>2 DEF Hash, Verify, Done, UploadFailed
    <2> QED BY <1>4, <2>1, <2>2, <2>3, <2>4 DEF Request
<1>6. q = o
    <2>1. \E r : op' = [op EXCEPT ![q] = r]
        BY <1>5 DEF Write, Store, StoreFails, End, Set
    <2> QED BY <1>1, <2>1
<1>7. CASE Write(q)
    BY <1>1, <1>6, <1>7 DEF Write, Files
<1>8. CASE Store(q)
    BY <1>1, <1>6, <1>8 DEF Store, Files
<1>9. CASE StoreFails(q)
    BY <1>1, <1>6, <1>9 DEF StoreFails, Files
<1> QED BY <1>5, <1>6, <1>7, <1>8, <1>9

\* What is overwritten is what was read there.
LEMMA OverHome ==
    ASSUME Inv, [Next]_vars, NEW o \in Ops, NEW place \in Servers, Overwrites(o, place)
    PROVE  place = op[o].from
<1>1. Home(op[o])
    BY OfOne
<1>2. CASE Write(o) /\ place = op[o].path
    BY <1>1, <1>2 DEF Home, Write
<1>3. CASE (Store(o) \/ StoreFails(o)) /\ place \in Target(op[o].client, op[o].path)
    <2>1. op[o].from \in Target(op[o].client, op[o].path)
        BY <1>1, <1>3 DEF Home, Store, StoreFails
    <2> QED BY <1>3, <2>1 DEF Target
<1> QED BY <1>2, <1>3, OneWriter

(***************************************************************************)
(* A save or an apply writes on a server only into the file it has read,   *)
(* whatever was activated or indexed meanwhile (api_config_save and        *)
(* api_mods_apply ask for the client once, but for the kind of the active  *)
(* server twice).                                                          *)
(***************************************************************************)
THEOREM SavesStayHome == Spec => WritesWhereRead
<1>1. Inv /\ [Next]_vars => HomeOnly
    BY OverHome DEF HomeOnly
<1>2. Inv /\ [Next]_vars => [HomeOnly]_vars
    BY <1>1
<1> QED BY Invariance, <1>2, PTL DEF Spec, WritesWhereRead

(***************************************************************************)
(* While the host has the last word and its file is remembered, a save     *)
(* overwrites only what the panel has shown, sent or mirrored, its own     *)
(* content, or what came after it had looked (host_conflict).              *)
(***************************************************************************)
THEOREM UnseenStaysSafe == Spec => NothingUnseenLost
<1>1. ASSUME Inv, [Next]_vars, NEW o \in Ops, NEW place \in Servers,
             Overwrites(o, place), op[o].recorded
      PROVE  host[place] \in shown \cup {op[o].content} \/ host[place] > op[o].since
    <2>1. place = op[o].from
        BY <1>1, OverHome
    <2>2. Known(op[o], shown, host, fresh) /\ op[o].pc \in {"store", "write"}
        BY <1>1, OfOne DEF Overwrites
    <2> QED BY <1>1, <2>1, <2>2 DEF Known, Excused
<1>2. Inv /\ [Next]_vars => [KnownOnly]_vars
    BY <1>1 DEF KnownOnly
<1> QED BY Invariance, <1>2, PTL DEF Spec, NothingUnseenLost
=============================================================================
